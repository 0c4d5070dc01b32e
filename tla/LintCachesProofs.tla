-------------------------- MODULE LintCachesProofs --------------------------
(***************************************************************************)
(* Theorems about LintCaches, for any number of threads, texts, targets and *)
(* sessions.  Three invariants are proved one on top of the other: the      *)
(* types, who has which session, and what the caches and the threads' hands *)
(* hold.                                                                    *)
(***************************************************************************)
EXTENDS LintCaches, FiniteSetTheorems, TLAPS

-----------------------------------------------------------------------------
(* Types *)

\* A request that a thread works on has the type of a request.
LEMMA WorkingOnARequest ==
  ASSUME TypeOK, NEW t \in Threads, pc[t] # "idle"
  PROVE  /\ asked[t] \in Request
         /\ Key(asked[t]) \in Keys
         /\ Profile(asked[t].target) \in Profiles
         /\ Compiled(asked[t]) \in Info
<1>1. asked[t] \in Request
  BY DEF TypeOK
<1>2. asked[t].text \in Texts /\ asked[t].target \in Targets
  BY <1>1 DEF Request
<1>3. Profile(asked[t].target) \in Profiles
  BY <1>2, ProfilesAssumption DEF Profile
<1>4. includes \in 0..MaxEdits
  BY DEF TypeOK
<1> QED
  BY <1>1, <1>2, <1>3, <1>4 DEF Key, Keys, Compiled, Info

\* The initial state has the types.
LEMMA TypeStart == Init => TypeOK
<1> SUFFICES ASSUME Init PROVE TypeOK
  OBVIOUS
<1>1. lints \in 0..MaxLints /\ includes \in 0..MaxEdits
  BY BoundsAssumption DEF Init
<1> QED
  BY <1>1 DEF Init, TypeOK, Holding, Computed

\* What reflect() hands back keeps the types, whoever called it.
LEMMA AnswerTyped ==
  ASSUME TypeOK, NEW t \in Threads, NEW answer \in Info \cup {None}, Answered(t, answer)
  PROVE  /\ reflection' \in [Threads -> Info \cup {None}]
         /\ pending' \in [Threads -> Info \cup {None}]
         /\ pc' \in [Threads -> Holding \cup Computed \cup {"idle", "lookup", "acquire",
                       "create", "control_flow", "emplace", "take", "analyze", "done"}]
         /\ pc'[t] \notin Holding \cup {"idle"}
         /\ pc'[t] \in Computed => pending'[t] # None
         /\ \A u \in Threads \ {t} : pc'[u] = pc[u] /\ pending'[u] = pending[u]
<1>1. CASE caller[t] = "run_rules"
  BY <1>1 DEF Answered, TypeOK, Go, Holding, Computed
<1>2. CASE caller[t] = "analyze"
  BY <1>2 DEF Answered, TypeOK, Go, Holding, Computed
<1> QED
  BY <1>1, <1>2 DEF Answered

\* Every step of reflect() keeps the types.
LEMMA TypeReflect ==
  ASSUME TypeOK, NEW t \in Threads, Reflect(t) PROVE TypeOK'
<1>0. pc[t] # "idle"
  BY DEF Reflect, LookUp, TakeSession, FindNoSession, CreateSession, CreateFails, Compile,
         Release, Store
<1>r. /\ Key(asked[t]) \in Keys
      /\ Profile(asked[t].target) \in Profiles
      /\ Compiled(asked[t]) \in Info
  BY <1>0, WorkingOnARequest
<1>1. CASE LookUp(t)
  <2>1. reflections[Key(asked[t])] \in Info \cup {None}
    BY <1>r DEF TypeOK
  <2>2. CASE reflections[Key(asked[t])] # None
    <3>1. Answered(t, reflections[Key(asked[t])])
      BY <1>1, <2>2 DEF LookUp
    <3> QED
      BY <1>1, <2>1, <3>1, AnswerTyped
      DEF LookUp, TypeOK, Holding, Computed, caches, sessions
  <2>3. CASE reflections[Key(asked[t])] = None
    BY <1>1, <2>3 DEF LookUp, TypeOK, Go, Holding, Computed, caches, sessions
  <2> QED
    BY <2>2, <2>3
<1>2. CASE TakeSession(t)
  BY <1>2, NoneAssumption DEF TakeSession, TypeOK, Go, Holding, Computed, caches, results
<1>3. CASE FindNoSession(t)
  BY <1>3 DEF FindNoSession, TypeOK, Go, Holding, Computed, caches, sessions, results
<1>4. CASE CreateSession(t)
  BY <1>4, <1>r, NoneAssumption
  DEF CreateSession, TypeOK, Go, Holding, Computed, caches, results
<1>5. CASE CreateFails(t)
  BY <1>5, AnswerTyped DEF CreateFails, TypeOK, Holding, Computed, caches, sessions
<1>6. CASE Compile(t)
  BY <1>6, <1>r DEF Compile, TypeOK, Go, Holding, Computed, caches, sessions, results
<1>7. CASE Release(t)
  <2>1. pool' \in [Sessions -> Profiles \cup {None}]
    BY <1>7, <1>r DEF Release, Pooling, TypeOK
  <2>2. session' \in [Threads -> Sessions \cup {None}]
    BY <1>7 DEF Release, TypeOK
  <2>3. CASE pending[t] = None
    BY <1>7, <2>1, <2>2, <2>3, AnswerTyped
    DEF Release, TypeOK, Holding, Computed, caches
  <2>4. CASE pending[t] # None
    BY <1>7, <2>1, <2>2, <2>4 DEF Release, TypeOK, Go, Holding, Computed, caches
  <2> QED
    BY <2>3, <2>4
<1>8. CASE Store(t)
  <2>1. pending[t] \in Info
    BY <1>8 DEF Store, TypeOK, Computed
  <2>2. reflections' \in [Keys -> Info \cup {None}]
    BY <1>8, <2>1 DEF Store, TypeOK
  <2>3. reflections'[Key(asked[t])] \in Info \cup {None}
    BY <1>r, <2>2
  <2>4. Answered(t, reflections'[Key(asked[t])])
    BY <1>8 DEF Store
  <2> QED
    BY <1>8, <2>2, <2>3, <2>4, AnswerTyped
    DEF Store, TypeOK, Holding, Computed, sessions
<1> QED
  BY <1>1, <1>2, <1>3, <1>4, <1>5, <1>6, <1>7, <1>8 DEF Reflect

\* Every step keeps the types.
LEMMA TypeStep == TypeOK /\ [Next]_vars => TypeOK'
<1> SUFFICES ASSUME TypeOK, [Next]_vars PROVE TypeOK'
  OBVIOUS
<1>1. CASE EditInclude
  <2>1. includes' \in 0..MaxEdits
    BY <1>1, BoundsAssumption DEF EditInclude, TypeOK
  <2> QED
    BY <1>1, <2>1 DEF EditInclude, TypeOK, Holding, Computed, caches, sessions, results
<1>2. CASE Rest \/ UNCHANGED vars
  BY <1>2 DEF Rest, TypeOK, Holding, Computed, vars, caches, sessions, results
<1>3. ASSUME NEW t \in Threads, Lint(t) PROVE TypeOK'
  <2>0. ASSUME pc[t] # "idle"
        PROVE  asked[t].text \in Texts /\ Key(asked[t]) \in Keys
    BY <2>0, WorkingOnARequest DEF Request
  <2>1. CASE Start(t)
    <3>1. lints' \in 0..MaxLints
      BY <2>1, BoundsAssumption DEF Start, TypeOK
    <3>2. asked' \in [Threads -> Request \cup {None}] /\ asked'[t] # None
      <4>1. PICK x \in Texts, target \in Targets, stages \in StageSets :
              asked' = [asked EXCEPT ![t] = [text |-> x, target |-> target, stages |-> stages]]
        BY <2>1 DEF Start
      <4>2. [text |-> x, target |-> target, stages |-> stages] \in Request
        BY StagesAssumption DEF Request
      <4>3. None \notin Request
        BY NoneAssumption
      <4> QED
        BY <4>1, <4>2, <4>3 DEF TypeOK
    <3>3. \A u \in Threads \ {t} : asked'[u] = asked[u]
      BY <2>1 DEF Start, TypeOK
    <3> QED
      BY <2>1, <3>1, <3>2, <3>3
      DEF Start, TypeOK, Go, Holding, Computed, caches, sessions, results
  <2>2. CASE Reflect(t)
    BY <2>2, TypeReflect
  <2>3. CASE SkipCfg(t) \/ BuildCfg(t) \/ SkipIr(t)
    BY <2>3
    DEF SkipCfg, BuildCfg, SkipIr, TypeOK, Go, Holding, Computed, caches, sessions, results
  <2>4. CASE FindCfg(t)
    BY <2>4, <2>0 DEF FindCfg, TypeOK, Go, Holding, Computed, caches, sessions
  <2>5. CASE EmplaceCfg(t)
    BY <2>5, <2>0 DEF EmplaceCfg, TypeOK, Go, Holding, Computed, sessions
  <2>6. CASE TakeDiagnostics(t)
    <3>1. skips' \in [Threads -> Texts \cup {None}]
      BY <2>6, TextsAssumption DEF TakeDiagnostics, TypeOK
    <3> QED
      BY <2>6, <3>1 DEF TakeDiagnostics, TypeOK, Go, Holding, Computed, caches, sessions
  <2>7. CASE Analyze(t)
    BY <2>7, <2>0 DEF Analyze, TypeOK, Go, Holding, Computed, caches, sessions
  <2>8. CASE OverwriteIr(t)
    BY <2>8, <2>0 DEF OverwriteIr, TypeOK, Go, Holding, Computed, sessions
  <2>9. CASE Return(t)
    BY <2>9 DEF Return, TypeOK, Go, Holding, Computed, caches, sessions
  <2> QED
    BY <1>3, <2>1, <2>2, <2>3, <2>4, <2>5, <2>6, <2>7, <2>8, <2>9 DEF Lint
<1> QED
  BY <1>1, <1>2, <1>3 DEF Next

\* Every variable keeps its type, and a thread has in hand what its place in
\* lint() needs: a session while it compiles, a result when it stores one.
THEOREM TypeCorrect == Spec => []TypeOK
<1> QED
  BY TypeStart, TypeStep, PTL DEF Spec

-----------------------------------------------------------------------------
(* Sessions *)

\* What the sessions' properties rest on: the pool files a session under the
\* profile it was made for.
PoolFits == \A s \in Sessions : pool[s] # None => pool[s] = made_for[s]

SessionInv == SessionHasOneUser /\ SessionFitsProfile /\ PoolFits

\* A step that touches no session and no working thread's request keeps them.
LEMMA SessionFrame ==
  ASSUME TypeOK, SessionInv, UNCHANGED sessions,
         \A t \in Threads : pc[t] \in Holding => asked'[t] = asked[t]
  PROVE  SessionInv'
BY DEF TypeOK, SessionInv, SessionHasOneUser, SessionFitsProfile, PoolFits, sessions

\* Every step of a lint keeps the sessions' invariant.
LEMMA SessionLint ==
  ASSUME TypeOK, SessionInv, NEW t \in Threads, Lint(t) PROVE SessionInv'
<1>1. CASE TakeSession(t)
  <2>1. PICK s \in Sessions :
          /\ pool[s] = Profile(asked[t].target)
          /\ session' = [session EXCEPT ![t] = s]
          /\ pool' = [pool EXCEPT ![s] = None]
    BY <1>1 DEF TakeSession
  <2>2. pool[s] # None
    <3>1. Profile(asked[t].target) \in Profiles
      BY <1>1, WorkingOnARequest DEF TakeSession
    <3> QED
      BY <2>1, <3>1, NoneAssumption
  <2>3. made_for' = made_for /\ asked' = asked
    BY <1>1 DEF TakeSession
  <2>4. SessionHasOneUser'
    BY <2>1, <2>2 DEF SessionInv, SessionHasOneUser, TypeOK
  <2>5. SessionFitsProfile' /\ PoolFits'
    BY <2>1, <2>2, <2>3 DEF SessionInv, SessionFitsProfile, PoolFits, TypeOK
  <2> QED
    BY <2>4, <2>5 DEF SessionInv
<1>2. CASE CreateSession(t)
  <2>1. PICK s \in Sessions \ (InPool \cup Held) :
          /\ session' = [session EXCEPT ![t] = s]
          /\ made_for' = [made_for EXCEPT ![s] = Profile(asked[t].target)]
    BY <1>2 DEF CreateSession
  <2>2. pool[s] = None /\ \A u \in Threads : session[u] # s
    BY <2>1, NoneAssumption DEF InPool, Held
  <2>3. pool' = pool /\ asked' = asked
    BY <1>2 DEF CreateSession
  <2>4. SessionHasOneUser'
    BY <2>1, <2>2, <2>3 DEF SessionInv, SessionHasOneUser, TypeOK
  <2>5. SessionFitsProfile' /\ PoolFits'
    BY <2>1, <2>2, <2>3 DEF SessionInv, SessionFitsProfile, PoolFits, TypeOK
  <2> QED
    BY <2>4, <2>5 DEF SessionInv
<1>3. CASE Release(t)
  <2>1. session[t] \in Sessions
    BY <1>3 DEF Release, TypeOK, Holding
  <2>2. /\ session' = [session EXCEPT ![t] = None]
        /\ pool' = pool \/ pool' = [pool EXCEPT ![session[t]] = Profile(asked[t].target)]
        /\ made_for' = made_for
        /\ asked' = asked
    BY <1>3 DEF Release, Pooling
  <2>3. made_for[session[t]] = Profile(asked[t].target) /\ session[t] # None
    BY <2>1, NoneAssumption DEF SessionInv, SessionFitsProfile
  <2>4. SessionHasOneUser'
    BY <2>1, <2>2, <2>3 DEF SessionInv, SessionHasOneUser, TypeOK
  <2>5. SessionFitsProfile' /\ PoolFits'
    BY <2>1, <2>2, <2>3 DEF SessionInv, SessionFitsProfile, PoolFits, TypeOK
  <2> QED
    BY <2>4, <2>5 DEF SessionInv
<1>4. CASE Start(t) \/ Return(t)
  <2>1. UNCHANGED sessions /\ \A u \in Threads : pc[u] \in Holding => asked'[u] = asked[u]
    BY <1>4 DEF Start, Return, sessions, Holding, TypeOK
  <2> QED
    BY <2>1, SessionFrame
<1>5. CASE \/ LookUp(t) \/ FindNoSession(t) \/ CreateFails(t) \/ Compile(t) \/ Store(t)
           \/ SkipCfg(t) \/ FindCfg(t) \/ BuildCfg(t) \/ EmplaceCfg(t) \/ TakeDiagnostics(t)
           \/ SkipIr(t) \/ Analyze(t) \/ OverwriteIr(t)
  <2>1. UNCHANGED sessions /\ asked' = asked
    BY <1>5
    DEF LookUp, FindNoSession, CreateFails, Compile, Store, SkipCfg, FindCfg, BuildCfg,
        EmplaceCfg, TakeDiagnostics, SkipIr, Analyze, OverwriteIr
  <2> QED
    BY <2>1, SessionFrame
<1> QED
  BY <1>1, <1>2, <1>3, <1>4, <1>5 DEF Lint, Reflect

\* The sessions' invariant is inductive.
LEMMA SessionStep == TypeOK /\ SessionInv /\ [Next]_vars => SessionInv'
<1> SUFFICES ASSUME TypeOK, SessionInv, [Next]_vars PROVE SessionInv'
  OBVIOUS
<1>1. CASE EditInclude \/ Rest \/ UNCHANGED vars
  <2>1. UNCHANGED <<sessions, asked>>
    BY <1>1 DEF EditInclude, Rest, vars
  <2> QED
    BY <2>1, SessionFrame
<1> QED
  BY <1>1, SessionLint DEF Next

LEMMA SessionStart == Init => SessionInv
BY DEF Init, SessionInv, SessionHasOneUser, SessionFitsProfile, PoolFits

\* A Slang session, which is not thread-safe, is never used by two threads, and
\* never sits in the pool while one of them compiles with it.
THEOREM OneUserPerSession == Spec => []SessionHasOneUser
<1>1. SessionInv => SessionHasOneUser
  BY DEF SessionInv
<1> QED
  BY <1>1, TypeStart, TypeStep, SessionStart, SessionStep, PTL DEF Spec

\* A lint never compiles with a session that was created for another profile.
THEOREM SessionsFitTheirLint == Spec => []SessionFitsProfile
<1>1. SessionInv => SessionFitsProfile
  BY DEF SessionInv
<1> QED
  BY <1>1, TypeStart, TypeStep, SessionStart, SessionStep, PTL DEF Spec

\* The pool's cap holds after every step: a release looks at the size and pushes
\* under one lock.
LEMMA PoolStep == TypeOK /\ SessionInv /\ PoolWithinCap /\ [Next]_vars => PoolWithinCap'
<1> SUFFICES ASSUME TypeOK, SessionInv, PoolWithinCap, [Next]_vars PROVE PoolWithinCap'
  OBVIOUS
<1>f. IsFiniteSet(InPool) /\ Cardinality(InPool) \in Nat
  BY PoolAssumption, FS_Subset, FS_CardinalityType DEF InPool
<1>1. CASE UNCHANGED pool
  BY <1>1 DEF PoolWithinCap, InPool
<1>2. ASSUME NEW t \in Threads, TakeSession(t) PROVE PoolWithinCap'
  <2>1. InPool' \subseteq InPool
    BY <1>2 DEF TakeSession, InPool, TypeOK
  <2>2. Cardinality(InPool') <= Cardinality(InPool) /\ Cardinality(InPool') \in Nat
    BY <2>1, <1>f, FS_Subset, FS_CardinalityType
  <2> QED
    BY <2>2, <1>f, PoolAssumption DEF PoolWithinCap
<1>3. ASSUME NEW t \in Threads, Release(t) PROVE PoolWithinCap'
  <2>1. CASE ~(Cardinality(InPool) < PoolSize)
    BY <1>3, <2>1, <1>1 DEF Release, Pooling
  <2>2. CASE Cardinality(InPool) < PoolSize
    <3>1. session[t] \in Sessions
      BY <1>3 DEF Release, TypeOK, Holding
    <3>2. pool' = [pool EXCEPT ![session[t]] = Profile(asked[t].target)]
      BY <1>3, <2>2 DEF Release, Pooling
    <3>3. Profile(asked[t].target) # None
      BY <1>3, WorkingOnARequest, NoneAssumption DEF Release
    <3>4. pool[session[t]] = None
      BY <3>1, NoneAssumption DEF SessionInv, SessionHasOneUser
    <3>5. InPool' = InPool \cup {session[t]} /\ session[t] \notin InPool
      BY <3>1, <3>2, <3>3, <3>4 DEF InPool, TypeOK
    <3>6. Cardinality(InPool') = Cardinality(InPool) + 1
      BY <3>5, <1>f, FS_AddElement
    <3> QED
      BY <3>6, <2>2, <1>f, PoolAssumption DEF PoolWithinCap
  <2> QED
    BY <2>1, <2>2
<1>4. ASSUME NEW t \in Threads, Lint(t), ~TakeSession(t), ~Release(t)
      PROVE  UNCHANGED pool
  BY <1>4
  DEF Lint, Reflect, LookUp, FindNoSession, CreateSession, CreateFails, Compile, Store, Start,
      SkipCfg, FindCfg, BuildCfg, EmplaceCfg, TakeDiagnostics, SkipIr, Analyze, OverwriteIr,
      Return, sessions
<1>5. EditInclude \/ Rest \/ UNCHANGED vars => UNCHANGED pool
  BY DEF EditInclude, Rest, vars, sessions
<1> QED
  BY <1>1, <1>2, <1>3, <1>4, <1>5 DEF Next

\* However many threads release at once, the pool keeps no more than its cap.
THEOREM PoolStaysWithinCap == Spec => []PoolWithinCap
<1>1. Init => PoolWithinCap
  <2> SUFFICES ASSUME Init PROVE PoolWithinCap
    OBVIOUS
  <2>1. InPool = {}
    BY DEF Init, InPool
  <2> QED
    BY <2>1, FS_EmptySet, PoolAssumption DEF PoolWithinCap
<1> QED
  BY <1>1, PoolStep, TypeStart, TypeStep, SessionStart, SessionStep, PTL DEF Spec

\* Whichever way a compilation ends, its session goes back to the pool, under the
\* profile it was made for, unless the pool is full.
THEOREM SessionsComeBack == Spec => SessionsReturnToThePool
<1> DEFINE Returned == \A t \in Threads :
             (session[t] # None /\ session'[t] = None) =>
                \/ pool'[session[t]] = made_for[session[t]]
                \/ Cardinality(InPool) = PoolSize
<1>1. TypeOK /\ SessionInv /\ PoolWithinCap /\ [Next]_vars => [Returned]_vars
  <2> SUFFICES ASSUME TypeOK, SessionInv, PoolWithinCap, [Next]_vars,
                      NEW t \in Threads, session[t] # None, session'[t] = None
               PROVE  \/ pool'[session[t]] = made_for[session[t]]
                      \/ Cardinality(InPool) = PoolSize
    OBVIOUS
  <2>1. PICK u \in Threads : Lint(u)
    BY DEF Next, EditInclude, Rest, vars, sessions
  <2>2. Release(u) /\ u = t
    <3>1. CASE TakeSession(u) \/ CreateSession(u)
      BY <3>1, NoneAssumption DEF TakeSession, CreateSession, TypeOK
    <3>2. CASE Release(u)
      BY <3>2 DEF Release, TypeOK
    <3>3. ASSUME ~TakeSession(u), ~CreateSession(u), ~Release(u) PROVE UNCHANGED session
      BY <2>1, <3>3
      DEF Lint, Reflect, LookUp, FindNoSession, CreateFails, Compile, Store, Start, SkipCfg,
          FindCfg, BuildCfg, EmplaceCfg, TakeDiagnostics, SkipIr, Analyze, OverwriteIr, Return,
          sessions
    <3> QED
      BY <3>1, <3>2, <3>3
  <2>3. session[t] \in Sessions
    BY DEF TypeOK
  <2>4. CASE Cardinality(InPool) < PoolSize
    BY <2>2, <2>3, <2>4 DEF Release, Pooling, SessionInv, SessionFitsProfile, TypeOK
  <2>5. CASE ~(Cardinality(InPool) < PoolSize)
    <3>1. Cardinality(InPool) \in Nat
      BY PoolAssumption, FS_Subset, FS_CardinalityType DEF InPool
    <3> QED
      BY <2>5, <3>1, PoolAssumption DEF PoolWithinCap
  <2> QED
    BY <2>4, <2>5
<1>2. Spec => [](TypeOK /\ SessionInv)
  BY TypeStart, TypeStep, SessionStart, SessionStep, PTL DEF Spec
<1> QED
  BY <1>1, <1>2, PoolStaysWithinCap, PTL DEF Spec, SessionsReturnToThePool

-----------------------------------------------------------------------------
(* Caches and answers *)

\* i is what Slang may have reported for the key k.
About(i, k) == i.text = k[1] /\ i.profile = Profile(k[2])

\* Every entry is of its key.
EntriesFit ==
  /\ \A k \in Keys : reflections[k] # None => About(reflections[k], k)
  /\ \A x \in Texts : cfgs[x] # None => cfgs[x] = x

\* What a thread is about to store is of its request, and an IR it is about to
\* store is of the cached reflection; an idle thread has been given nothing.
HandFits(t) ==
  /\ pc[t] \in {"release", "store"} /\ pending[t] # None => About(pending[t], Key(asked[t]))
  /\ pc[t] = "overwrite" => reflections[Key(asked[t])] = pending[t]
  /\ pc[t] = "idle" => reflection[t] = None /\ cfg[t] = None /\ ir[t] = None

\* AnswersAreCanonical, of one thread.
Canonical(t) ==
  /\ reflection[t] # None => reflections[Key(asked[t])] = reflection[t]
  /\ cfg[t] # None => cfgs[asked[t].text] = cfg[t]
  /\ ir[t] # None => irs[Key(asked[t])] = ir[t]

AnswerInv ==
  /\ EntriesFit
  /\ IrAgreesWithReflection
  /\ \A t \in Threads : HandFits(t) /\ Canonical(t)

\* Entries that are there stay as they are.
Kept(old, new) == \A k \in DOMAIN old : old[k] # None => new[k] = old[k]

\* A step of one thread leaves what is true of another one true.
LEMMA OthersKeepTheirs ==
  ASSUME TypeOK, AnswerInv, NEW t \in Threads, NEW u \in Threads \ {t},
         Kept(reflections, reflections'), Kept(cfgs, cfgs'), Kept(irs, irs'),
         pc'[u] = pc[u], asked'[u] = asked[u], pending'[u] = pending[u],
         reflection'[u] = reflection[u], cfg'[u] = cfg[u], ir'[u] = ir[u]
  PROVE  HandFits(u)' /\ Canonical(u)'
<1>1. CASE pc[u] = "idle"
  BY <1>1 DEF AnswerInv, HandFits, Canonical
<1>2. CASE pc[u] # "idle"
  <2>1. Key(asked[u]) \in DOMAIN reflections /\ Key(asked[u]) \in DOMAIN irs
    BY <1>2, WorkingOnARequest DEF TypeOK
  <2>2. asked[u].text \in DOMAIN cfgs
    BY <1>2, WorkingOnARequest DEF TypeOK, Request
  <2>3. Key(asked[u])' = Key(asked[u])
    BY DEF Key
  <2>4. HandFits(u) /\ Canonical(u)
    BY DEF AnswerInv
  <2>5. pc[u] = "overwrite" => pending[u] # None
    BY DEF TypeOK, Computed
  <2>6. HandFits(u)'
    BY <2>1, <2>3, <2>4, <2>5 DEF HandFits, About, Kept
  <2>7. Canonical(u)'
    BY <2>1, <2>2, <2>3, <2>4 DEF Canonical, Kept
  <2> QED
    BY <2>6, <2>7
<1> QED
  BY <1>1, <1>2

\* reflect()'s answer, when it is the cached entry or an error, fits the caller.
LEMMA AnswerFits ==
  ASSUME TypeOK, AnswerInv, NEW t \in Threads, pc[t] # "idle",
         NEW answer \in Info \cup {None}, Answered(t, answer),
         answer # None => reflections'[Key(asked[t])] = answer,
         Kept(reflections, reflections'),
         UNCHANGED <<asked, cfgs, irs, cfg, ir>>
  PROVE  HandFits(t)' /\ Canonical(t)'
<1>1. Canonical(t) /\ Key(asked[t])' = Key(asked[t])
  BY DEF AnswerInv, Key
<1>2. Key(asked[t]) \in DOMAIN reflections
  BY WorkingOnARequest DEF TypeOK
<1>3. CASE caller[t] = "run_rules"
  <2>1. reflection'[t] = answer /\ pc'[t] = "control_flow"
    BY <1>3 DEF Answered, Go, TypeOK
  <2> QED
    BY <1>1, <2>1 DEF Canonical, HandFits
<1>4. CASE caller[t] = "analyze"
  <2>1. /\ reflection'[t] = reflection[t]
        /\ pending'[t] = answer
        /\ pc'[t] = IF answer = None THEN "done" ELSE "overwrite"
    BY <1>4 DEF Answered, Go, TypeOK
  <2> QED
    BY <1>1, <1>2, <2>1 DEF Canonical, HandFits, Kept
<1> QED
  BY <1>3, <1>4 DEF Answered

\* What a step of t must show for the whole invariant.
LEMMA AnswerFrame ==
  ASSUME TypeOK, AnswerInv, NEW t \in Threads, Lint(t),
         EntriesFit', IrAgreesWithReflection', HandFits(t)', Canonical(t)',
         Kept(reflections, reflections'), Kept(cfgs, cfgs'), Kept(irs, irs')
  PROVE  AnswerInv'
<1>1. ASSUME NEW u \in Threads \ {t}
      PROVE  /\ pc'[u] = pc[u] /\ asked'[u] = asked[u] /\ pending'[u] = pending[u]
             /\ reflection'[u] = reflection[u] /\ cfg'[u] = cfg[u] /\ ir'[u] = ir[u]
  <2>1. CASE Reflect(t)
    BY <2>1
    DEF Reflect, LookUp, TakeSession, FindNoSession, CreateSession, CreateFails, Compile,
        Release, Store, Answered, Go, TypeOK, results
  <2>2. CASE ~Reflect(t)
    BY <2>2
    DEF Lint, Start, SkipCfg, FindCfg, BuildCfg, EmplaceCfg, TakeDiagnostics, SkipIr, Analyze,
        OverwriteIr, Return, Go, TypeOK, results
  <2> QED
    BY <2>1, <2>2
<1>2. \A u \in Threads \ {t} : HandFits(u)' /\ Canonical(u)'
  BY <1>1, OthersKeepTheirs
<1> QED
  BY <1>2 DEF AnswerInv

\* Every step of reflect() keeps the invariant.
LEMMA AnswerReflect ==
  ASSUME TypeOK, AnswerInv, NEW t \in Threads, Reflect(t) PROVE AnswerInv'
<1>0. /\ pc[t] # "idle" /\ Lint(t) /\ asked' = asked
      /\ UNCHANGED <<cfgs, irs, cfg, ir>>
  BY DEF Lint, Reflect, LookUp, TakeSession, FindNoSession, CreateSession, CreateFails,
         Compile, Release, Store, caches, results
<1>h. HandFits(t) /\ Canonical(t) /\ EntriesFit /\ IrAgreesWithReflection
  BY DEF AnswerInv
<1>r. Key(asked[t]) \in Keys /\ asked[t] \in Request
  BY <1>0, WorkingOnARequest
<1>k. /\ Kept(cfgs, cfgs') /\ Kept(irs, irs')
      /\ UNCHANGED reflections => Kept(reflections, reflections')
                                  /\ EntriesFit' /\ IrAgreesWithReflection'
  BY <1>0, <1>h DEF Kept, EntriesFit, IrAgreesWithReflection, About
<1>1. CASE LookUp(t)
  <2>1. UNCHANGED reflections
    BY <1>1 DEF LookUp, caches
  <2>2. CASE reflections[Key(asked[t])] # None
    <3>1. Answered(t, reflections[Key(asked[t])])
      BY <1>1, <2>2 DEF LookUp
    <3>2. reflections[Key(asked[t])] \in Info \cup {None}
      BY <1>r DEF TypeOK
    <3>3. HandFits(t)' /\ Canonical(t)'
      BY <1>0, <1>k, <2>1, <3>1, <3>2, AnswerFits
    <3> QED
      BY <1>0, <1>k, <2>1, <3>3, AnswerFrame
  <2>3. CASE reflections[Key(asked[t])] = None
    <3>1. pc'[t] = "acquire" /\ UNCHANGED reflection
      BY <1>1, <2>3 DEF LookUp, Go, TypeOK
    <3>2. HandFits(t)' /\ Canonical(t)'
      BY <1>0, <1>h, <2>1, <3>1 DEF HandFits, Canonical, Key
    <3> QED
      BY <1>0, <1>k, <2>1, <3>2, AnswerFrame
  <2> QED
    BY <2>2, <2>3
<1>2. CASE TakeSession(t) \/ FindNoSession(t) \/ CreateSession(t)
  <2>1. pc'[t] \in {"compile", "create"} /\ UNCHANGED <<reflections, reflection>>
    BY <1>2 DEF TakeSession, FindNoSession, CreateSession, Go, TypeOK, caches, results
  <2>2. HandFits(t)' /\ Canonical(t)'
    BY <1>0, <1>h, <2>1 DEF HandFits, Canonical, Key
  <2> QED
    BY <1>0, <1>k, <2>1, <2>2, AnswerFrame
<1>3. CASE CreateFails(t)
  <2>1. UNCHANGED reflections /\ Answered(t, None)
    BY <1>3 DEF CreateFails, caches
  <2>2. HandFits(t)' /\ Canonical(t)'
    BY <1>0, <1>k, <2>1, AnswerFits
  <2> QED
    BY <1>0, <1>k, <2>1, <2>2, AnswerFrame
<1>4. CASE Compile(t)
  <2>1. pc'[t] = "release" /\ UNCHANGED <<reflections, reflection>>
    BY <1>4 DEF Compile, Go, TypeOK, caches, results
  <2>2. pending'[t] \in {None, Compiled(asked[t])}
    BY <1>4 DEF Compile, TypeOK
  <2>3. About(Compiled(asked[t]), Key(asked[t]))
    BY DEF About, Compiled, Key
  <2>4. Key(asked[t])' = Key(asked[t])
    BY <1>0 DEF Key
  <2>5. HandFits(t)'
    BY <2>1, <2>2, <2>3, <2>4 DEF HandFits, About
  <2>6. Canonical(t)'
    BY <1>0, <1>h, <2>1, <2>4 DEF Canonical
  <2> QED
    BY <1>0, <1>k, <2>1, <2>5, <2>6, AnswerFrame
<1>5. CASE Release(t)
  <2>1. UNCHANGED reflections
    BY <1>5 DEF Release, caches
  <2>2. CASE pending[t] = None
    <3>1. Answered(t, None)
      BY <1>5, <2>2 DEF Release
    <3>2. HandFits(t)' /\ Canonical(t)'
      BY <1>0, <1>k, <2>1, <3>1, AnswerFits
    <3> QED
      BY <1>0, <1>k, <2>1, <3>2, AnswerFrame
  <2>3. CASE pending[t] # None
    <3>1. pc[t] = "release" /\ pc'[t] = "store" /\ UNCHANGED <<reflection, pending>>
      BY <1>5, <2>3 DEF Release, Go, TypeOK
    <3>2. HandFits(t)' /\ Canonical(t)'
      BY <1>0, <1>h, <2>1, <3>1 DEF HandFits, Canonical, Key, About
    <3> QED
      BY <1>0, <1>k, <2>1, <3>2, AnswerFrame
  <2> QED
    BY <2>2, <2>3
<1>6. CASE Store(t)
  <2> DEFINE k == Key(asked[t])
  <2>1. pending[t] \in Info /\ pending[t] # None /\ pc[t] = "store"
    BY <1>6 DEF Store, TypeOK, Computed
  <2>2. /\ reflections' = [reflections EXCEPT ![k] = IF @ = None THEN pending[t] ELSE @]
        /\ Answered(t, reflections'[k])
    BY <1>6 DEF Store
  <2>3. About(pending[t], k)
    BY <1>h, <2>1 DEF HandFits
  <2>4. Kept(reflections, reflections') /\ reflections'[k] \in Info \cup {None}
    BY <1>r, <2>1, <2>2 DEF Kept, TypeOK
  <2>5. EntriesFit'
    BY <1>0, <1>h, <2>2, <2>3 DEF EntriesFit, About, TypeOK
  <2>6. IrAgreesWithReflection'
    BY <1>0, <1>h, <2>4 DEF IrAgreesWithReflection, Kept, TypeOK
  <2>7. HandFits(t)' /\ Canonical(t)'
    BY <1>0, <2>2, <2>4, AnswerFits
  <2> QED
    BY <1>0, <1>k, <2>4, <2>5, <2>6, <2>7, AnswerFrame
<1> QED
  BY <1>1, <1>2, <1>3, <1>4, <1>5, <1>6 DEF Reflect

\* The invariant is inductive.
LEMMA AnswerStep == TypeOK /\ AnswerInv /\ [Next]_vars => AnswerInv'
<1> SUFFICES ASSUME TypeOK, AnswerInv, [Next]_vars PROVE AnswerInv'
  OBVIOUS
<1>1. CASE EditInclude \/ Rest \/ UNCHANGED vars
  BY <1>1
  DEF EditInclude, Rest, vars, caches, results, AnswerInv, EntriesFit, IrAgreesWithReflection,
      HandFits, Canonical, About, Key
<1>2. ASSUME NEW t \in Threads, Lint(t) PROVE AnswerInv'
  <2>h. HandFits(t) /\ Canonical(t) /\ EntriesFit /\ IrAgreesWithReflection
    BY DEF AnswerInv
  <2>k. UNCHANGED caches => /\ Kept(reflections, reflections')
                            /\ Kept(cfgs, cfgs') /\ Kept(irs, irs')
                            /\ EntriesFit' /\ IrAgreesWithReflection'
    BY <2>h DEF caches, Kept, EntriesFit, IrAgreesWithReflection, About
  <2>r. pc[t] # "idle" => Key(asked[t]) \in Keys /\ asked[t].text \in Texts
    BY WorkingOnARequest DEF Request
  <2>1. CASE Start(t)
    <3>1. /\ pc[t] = "idle" /\ pc'[t] \in {"lookup", "control_flow"}
          /\ UNCHANGED <<caches, results>>
      BY <2>1 DEF Start, Go, TypeOK
    <3>2. HandFits(t)' /\ Canonical(t)'
      BY <2>h, <3>1 DEF HandFits, Canonical, results
    <3> QED
      BY <1>2, <2>k, <3>1, <3>2, AnswerFrame
  <2>2. CASE Reflect(t)
    BY <2>2, AnswerReflect
  <2>3. CASE SkipCfg(t) \/ BuildCfg(t) \/ SkipIr(t) \/ TakeDiagnostics(t)
    <3>1. /\ pc'[t] \in {"analyze", "emplace", "done"}
          /\ UNCHANGED <<caches, asked, reflection, cfg, ir>>
      BY <2>3 DEF SkipCfg, BuildCfg, SkipIr, TakeDiagnostics, Go, TypeOK, results
    <3>2. HandFits(t)' /\ Canonical(t)'
      BY <2>h, <3>1 DEF HandFits, Canonical, caches, Key
    <3> QED
      BY <1>2, <2>k, <3>1, <3>2, AnswerFrame
  <2>4. CASE FindCfg(t)
    <3>1. /\ pc'[t] = "take" /\ cfg'[t] = cfgs[asked[t].text]
          /\ UNCHANGED <<caches, asked, reflection, ir>>
      BY <2>4 DEF FindCfg, Go, TypeOK
    <3>2. HandFits(t)' /\ Canonical(t)'
      BY <2>h, <3>1 DEF HandFits, Canonical, caches, Key
    <3> QED
      BY <1>2, <2>k, <3>1, <3>2, AnswerFrame
  <2>5. CASE EmplaceCfg(t)
    <3> DEFINE x == asked[t].text
    <3>1. /\ pc'[t] = "take" /\ cfg'[t] = cfgs'[x]
          /\ cfgs' = [cfgs EXCEPT ![x] = IF @ = None THEN x ELSE @]
          /\ UNCHANGED <<reflections, irs, asked, reflection, ir>>
      BY <2>5 DEF EmplaceCfg, Go, TypeOK
    <3>2. HandFits(t)' /\ Canonical(t)'
      BY <2>h, <3>1 DEF HandFits, Canonical, Key
    <3>3. Kept(reflections, reflections') /\ Kept(cfgs, cfgs') /\ Kept(irs, irs')
      BY <3>1 DEF Kept, TypeOK
    <3>4. EntriesFit' /\ IrAgreesWithReflection'
      BY <2>h, <3>1 DEF EntriesFit, IrAgreesWithReflection, About, TypeOK
    <3> QED
      BY <1>2, <3>2, <3>3, <3>4, AnswerFrame
  <2>6. CASE Analyze(t)
    <3>1. UNCHANGED <<caches, asked, reflection, cfg>> /\ pc'[t] \in {"done", "lookup"}
      BY <2>6 DEF Analyze, Go, TypeOK
    <3>2. ir'[t] = irs[Key(asked[t])] \/ ir'[t] = ir[t]
      BY <2>6 DEF Analyze, TypeOK
    <3>3. HandFits(t)' /\ Canonical(t)'
      BY <2>h, <3>1, <3>2 DEF HandFits, Canonical, caches, Key
    <3> QED
      BY <1>2, <2>k, <3>1, <3>3, AnswerFrame
  <2>7. CASE OverwriteIr(t)
    <3> DEFINE k == Key(asked[t])
    <3>1. /\ pc[t] = "overwrite" /\ pc'[t] = "done" /\ ir'[t] = pending[t]
          /\ irs' = [irs EXCEPT ![k] = pending[t]]
          /\ UNCHANGED <<reflections, cfgs, asked, reflection, cfg>>
      BY <2>7 DEF OverwriteIr, Go, TypeOK
    <3>2. k \in Keys /\ reflections[k] = pending[t]
      BY <2>h, <2>r, <3>1 DEF HandFits
    <3>3. irs'[k] = pending[t] /\ \A j \in Keys \ {k} : irs'[j] = irs[j]
      BY <3>1, <3>2 DEF TypeOK
    <3>4. HandFits(t)' /\ Canonical(t)'
      BY <2>h, <3>1, <3>3 DEF HandFits, Canonical, Key
    <3>5. EntriesFit' /\ IrAgreesWithReflection'
      BY <2>h, <3>1, <3>2, <3>3 DEF EntriesFit, IrAgreesWithReflection, About
    <3>6. Kept(reflections, reflections') /\ Kept(cfgs, cfgs')
      BY <3>1 DEF Kept
    <3>7. Kept(irs, irs')
      BY <2>h, <3>2, <3>3 DEF Kept, IrAgreesWithReflection, TypeOK
    <3> QED
      BY <1>2, <3>4, <3>5, <3>6, <3>7, AnswerFrame
  <2>8. CASE Return(t)
    <3>1. /\ pc'[t] = "idle" /\ reflection'[t] = None /\ cfg'[t] = None /\ ir'[t] = None
          /\ UNCHANGED caches
      BY <2>8 DEF Return, Go, TypeOK
    <3>2. HandFits(t)' /\ Canonical(t)'
      BY <3>1 DEF HandFits, Canonical
    <3> QED
      BY <1>2, <2>k, <3>1, <3>2, AnswerFrame
  <2> QED
    BY <1>2, <2>1, <2>2, <2>3, <2>4, <2>5, <2>6, <2>7, <2>8 DEF Lint
<1> QED
  BY <1>1, <1>2 DEF Next

LEMMA AnswerStart == Init => AnswerInv
BY DEF Init, AnswerInv, EntriesFit, IrAgreesWithReflection, HandFits, Canonical

\* What a lint was given is what the cache holds for its key, so two lints of the
\* same text, target and time never see different results.
THEOREM AnswersStayCanonical == Spec => []AnswersAreCanonical
<1>1. AnswerInv => AnswersAreCanonical
  BY DEF AnswerInv, Canonical, AnswersAreCanonical
<1> QED
  BY <1>1, TypeStart, TypeStep, AnswerStart, AnswerStep, PTL DEF Spec

\* A lint is never given another text's, or another profile's, results.
THEOREM AnswersFitTheirLint == Spec => []AnswersAreForTheText
<1>1. TypeOK /\ AnswerInv => AnswersAreForTheText
  <2> SUFFICES ASSUME TypeOK, AnswerInv, NEW t \in Threads
               PROVE  /\ \A r \in {reflection[t], ir[t]} \ {None} :
                           /\ r.text = asked[t].text
                           /\ r.profile = Profile(asked[t].target)
                      /\ cfg[t] # None => cfg[t] = asked[t].text
    BY DEF AnswersAreForTheText
  <2>1. HandFits(t) /\ Canonical(t) /\ EntriesFit /\ IrAgreesWithReflection
    BY DEF AnswerInv
  <2>2. CASE pc[t] = "idle"
    BY <2>1, <2>2 DEF HandFits
  <2>3. CASE pc[t] # "idle"
    <3>1. Key(asked[t]) \in Keys /\ asked[t].text \in Texts
      BY <2>3, WorkingOnARequest DEF Request
    <3>2. ASSUME NEW r \in {reflection[t], ir[t]} \ {None} PROVE About(r, Key(asked[t]))
      BY <2>1, <3>1, <3>2 DEF Canonical, EntriesFit, IrAgreesWithReflection
    <3>3. cfg[t] # None => cfg[t] = asked[t].text
      BY <2>1, <3>1 DEF Canonical, EntriesFit
    <3> QED
      BY <3>2, <3>3 DEF About, Key
  <2> QED
    BY <2>2, <2>3
<1> QED
  BY <1>1, TypeStart, TypeStep, AnswerStart, AnswerStep, PTL DEF Spec

\* The IR cache and the reflection cache never disagree about a key, although
\* each is filled under a lock of its own.
THEOREM IrStaysWithReflection == Spec => []IrAgreesWithReflection
<1>1. AnswerInv => IrAgreesWithReflection
  BY DEF AnswerInv
<1> QED
  BY <1>1, TypeStart, TypeStep, AnswerStart, AnswerStep, PTL DEF Spec

=============================================================================
