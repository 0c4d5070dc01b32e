----------------------------- MODULE LintCaches -----------------------------
(***************************************************************************)
(* The process-lifetime engines behind lint() (core/src/lint.cpp): the      *)
(* reflection cache (reflection/engine.cpp) and its pool of Slang sessions  *)
(* (reflection/slang_bridge.cpp), the control-flow cache                    *)
(* (control_flow/engine.cpp) and the IR cache (ir/engine.cpp), under lint() *)
(* calls on several threads.  What runs under one lock is one step.         *)
(*                                                                          *)
(* Every lint() of the CLI and of the language server has a SourceManager   *)
(* of its own, so its source id is 1: what tells two lints apart in a cache *)
(* key is the fingerprint of the text and the target profile.  A text is    *)
(* its fingerprint, a number: the control-flow cache is ordered by it.      *)
(***************************************************************************)
EXTENDS Integers, FiniteSets

CONSTANTS
  Threads,
  Texts,           \* fingerprints of the texts linted
  SkipTexts,       \* texts with a function that does not parse: the builder skips it
  Profiles,        \* what a Slang session can be created for
  Targets,         \* values of the target_profile option
  Unset,           \* the option is not given: the key holds the empty string
  DefaultProfile,  \* k_default_profile
  Sessions,        \* Slang sessions that can be alive
  PoolSize,        \* pool_size_cap
  StageSets,       \* the stages that the options and the rule pack let run
  MaxLints,        \* bound: lint() calls
  MaxEdits,        \* bound: changes to included files
  None             \* nothing there

Stages == {"reflection", "cfg", "ir"}

ASSUME TextsAssumption == Texts \subseteq Nat /\ SkipTexts \subseteq Texts
ASSUME ProfilesAssumption ==
  DefaultProfile \in Profiles /\ Targets \subseteq Profiles \cup {Unset}
ASSUME PoolAssumption == PoolSize \in Nat \ {0} /\ IsFiniteSet(Sessions)
ASSUME StagesAssumption == StageSets \subseteq SUBSET Stages
ASSUME BoundsAssumption == MaxLints \in Nat /\ MaxEdits \in Nat

VARIABLES
  reflections,   \* ReflectionEngine::cache_
  cfgs,          \* CfgEngine::cache_: the text each graph was built from
  irs,           \* IrEngine::cache_
  pool,          \* session_pool: the profile each pooled session is filed under
  made_for,      \* the profile each session was created for
  includes,      \* which version of the included files is on disk
  pc,            \* where each thread is in lint()
  asked,         \* the text, the target and the stages of its lint
  caller,        \* who called reflect(): run_rules or analyze
  session,       \* the session it holds
  pending,       \* what it computed and has not stored yet
  reflection,    \* what reflect() gave the reflection stage
  cfg,           \* the graph the control-flow stage was given
  skips,         \* the text whose cfg-skip diagnostics it reports
  ir,            \* what the IR stage was given
  lints          \* lint() calls so far

caches == <<reflections, cfgs, irs>>
sessions == <<pool, made_for, session>>
results == <<reflection, cfg, skips, ir>>
vars == <<caches, sessions, results, includes, pc, asked, caller, pending, lints>>

-----------------------------------------------------------------------------
(* What the engines compute, and the keys they store it under *)

\* What a compilation sees: the text, the profile, the included files of its time.
Info == [text : Texts, profile : Profiles, includes : 0..MaxEdits]

Request == [text : Texts, target : Targets, stages : SUBSET Stages]

ASSUME NoneAssumption ==
  /\ None \notin Sessions
  /\ None \notin Texts
  /\ None \notin Profiles
  /\ None \notin Info
  /\ None \notin Request

\* The bridge fills in the default; the caches' keys keep the option as given.
Profile(target) == IF target = Unset THEN DefaultProfile ELSE target

Keys == Texts \X Targets

\* A lookup that goes by source id and profile: every lint's source id is 1.
Key_NoFingerprint(r) == <<CHOOSE x \in Texts : TRUE, r.target>>

Key(r) == <<r.text, r.target>>

\* What Slang reports of the request, now.
Compiled(r) == [text |-> r.text, profile |-> Profile(r.target), includes |-> includes]

InPool == {s \in Sessions : pool[s] # None}
Held == {session[t] : t \in Threads} \ {None}

Go(t, where) == pc' = [pc EXCEPT ![t] = where]

Init ==
  /\ reflections = [k \in Keys |-> None]
  /\ cfgs = [x \in Texts |-> None]
  /\ irs = [k \in Keys |-> None]
  /\ pool = [s \in Sessions |-> None]
  /\ made_for = [s \in Sessions |-> None]
  /\ includes = 0
  /\ pc = [t \in Threads |-> "idle"]
  /\ asked = [t \in Threads |-> None]
  /\ caller = [t \in Threads |-> None]
  /\ session = [t \in Threads |-> None]
  /\ pending = [t \in Threads |-> None]
  /\ reflection = [t \in Threads |-> None]
  /\ cfg = [t \in Threads |-> None]
  /\ skips = [t \in Threads |-> None]
  /\ ir = [t \in Threads |-> None]
  /\ lints = 0

-----------------------------------------------------------------------------
(* ReflectionEngine::reflect and SlangBridge::reflect *)

\* reflect() hands its answer, or None for an error, to whoever called it:
\* run_rules keeps it for the reflection stage, analyze makes an IR of it.
Answered(t, answer) ==
  \/ /\ caller[t] = "run_rules"
     /\ reflection' = [reflection EXCEPT ![t] = answer]
     /\ pending' = [pending EXCEPT ![t] = None]
     /\ Go(t, "control_flow")
  \/ /\ caller[t] = "analyze"
     /\ pending' = [pending EXCEPT ![t] = answer]
     /\ Go(t, IF answer = None THEN "done" ELSE "overwrite")
     /\ UNCHANGED reflection

\* The lookup under the shared lock.
LookUp(t) ==
  /\ pc[t] = "lookup"
  /\ LET found == reflections[Key(asked[t])] IN
       IF found # None
       THEN Answered(t, found)
       ELSE Go(t, "acquire") /\ UNCHANGED <<reflection, pending>>
  /\ UNCHANGED <<caches, sessions, cfg, skips, ir, includes, asked, caller, lints>>

\* A pooled session that stays in the pool while it is used.
TakeSession_NotErased(t) ==
  /\ pc[t] = "acquire"
  /\ \E s \in Sessions :
       /\ pool[s] = Profile(asked[t].target)
       /\ session' = [session EXCEPT ![t] = s]
  /\ Go(t, "compile")
  /\ UNCHANGED <<caches, pool, made_for, results, includes, asked, caller, pending, lints>>

\* acquire: a pooled session filed under the profile, taken out of the pool.
TakeSession(t) ==
  /\ pc[t] = "acquire"
  /\ \E s \in Sessions :
       /\ pool[s] = Profile(asked[t].target)
       /\ session' = [session EXCEPT ![t] = s]
       /\ pool' = [pool EXCEPT ![s] = None]
  /\ Go(t, "compile")
  /\ UNCHANGED <<caches, made_for, results, includes, asked, caller, pending, lints>>

\* acquire: none is pooled for the profile.
FindNoSession(t) ==
  /\ pc[t] = "acquire"
  /\ \A s \in Sessions : pool[s] # Profile(asked[t].target)
  /\ Go(t, "create")
  /\ UNCHANGED <<caches, sessions, results, includes, asked, caller, pending, lints>>

\* acquire: a new session for the profile, with the pool unlocked again.
CreateSession(t) ==
  /\ pc[t] = "create"
  /\ \E s \in Sessions \ (InPool \cup Held) :
       /\ session' = [session EXCEPT ![t] = s]
       /\ made_for' = [made_for EXCEPT ![s] = Profile(asked[t].target)]
  /\ Go(t, "compile")
  /\ UNCHANGED <<caches, pool, results, includes, asked, caller, pending, lints>>

\* acquire gives nothing: reflect() returns an error.
CreateFails(t) ==
  /\ pc[t] = "create"
  /\ Answered(t, None)
  /\ UNCHANGED <<caches, sessions, cfg, skips, ir, includes, asked, caller, lints>>

\* An early return that does not go through the Releaser.
Compile_NoReleaser(t) ==
  /\ pc[t] = "compile"
  /\ \/ /\ pending' = [pending EXCEPT ![t] = Compiled(asked[t])]
        /\ Go(t, "release")
        /\ UNCHANGED <<sessions, reflection>>
     \/ /\ session' = [session EXCEPT ![t] = None]
        /\ Answered(t, None)
        /\ UNCHANGED <<pool, made_for>>
  /\ UNCHANGED <<caches, cfg, skips, ir, includes, asked, caller, lints>>

\* Slang compiles the text, or fails and leaves nothing pending.
Compile(t) ==
  /\ pc[t] = "compile"
  /\ pending' \in {[pending EXCEPT ![t] = c] : c \in {None, Compiled(asked[t])}}
  /\ Go(t, "release")
  /\ UNCHANGED <<caches, sessions, results, includes, asked, caller, lints>>

\* A cap that lets one session too many back.
Pooling_OffByOne(t) ==
  IF Cardinality(InPool) <= PoolSize
  THEN [pool EXCEPT ![session[t]] = Profile(asked[t].target)]
  ELSE pool

\* A session filed under the default profile, whatever it was created for.
Pooling_UnderDefault(t) ==
  IF Cardinality(InPool) < PoolSize
  THEN [pool EXCEPT ![session[t]] = DefaultProfile]
  ELSE pool

\* release: back into the pool while there is room, else dropped.
Pooling(t) ==
  IF Cardinality(InPool) < PoolSize
  THEN [pool EXCEPT ![session[t]] = Profile(asked[t].target)]
  ELSE pool

\* A release after which a failed compilation is stored as well.
Release_StoresFailures(t) ==
  /\ pc[t] = "release"
  /\ pool' = Pooling(t)
  /\ session' = [session EXCEPT ![t] = None]
  /\ Go(t, "store")
  /\ UNCHANGED <<caches, made_for, results, includes, asked, caller, pending, lints>>

\* The Releaser runs on every return of SlangBridge::reflect.
Release(t) ==
  /\ pc[t] = "release"
  /\ pool' = Pooling(t)
  /\ session' = [session EXCEPT ![t] = None]
  /\ IF pending[t] = None
     THEN Answered(t, None)
     ELSE Go(t, "store") /\ UNCHANGED <<reflection, pending>>
  /\ UNCHANGED <<caches, made_for, cfg, skips, ir, includes, asked, caller, lints>>

\* A store that answers with the caller's own result when another got there first.
Store_OwnResult(t) ==
  /\ pc[t] = "store"
  /\ LET k == Key(asked[t]) IN
       reflections' = [reflections EXCEPT ![k] = IF @ = None THEN pending[t] ELSE @]
  /\ Answered(t, pending[t])
  /\ UNCHANGED <<cfgs, irs, sessions, cfg, skips, ir, includes, asked, caller, lints>>

\* try_emplace: an entry that is there stays, and is the answer.
Store(t) ==
  /\ pc[t] = "store"
  /\ LET k == Key(asked[t]) IN
       /\ reflections' = [reflections EXCEPT ![k] = IF @ = None THEN pending[t] ELSE @]
       /\ Answered(t, reflections'[k])
  /\ UNCHANGED <<cfgs, irs, sessions, cfg, skips, ir, includes, asked, caller, lints>>

-----------------------------------------------------------------------------
(* run_rules: the stages of one lint() *)

\* lint(): the reflection stage, when a rule of it runs, calls reflect().
Start(t) ==
  /\ pc[t] = "idle"
  /\ lints < MaxLints
  /\ \E x \in Texts, target \in Targets, stages \in StageSets :
       /\ asked' = [asked EXCEPT ![t] = [text |-> x, target |-> target, stages |-> stages]]
       /\ Go(t, IF "reflection" \in stages THEN "lookup" ELSE "control_flow")
  /\ caller' = [caller EXCEPT ![t] = "run_rules"]
  /\ lints' = lints + 1
  /\ UNCHANGED <<caches, sessions, results, includes, pending>>

SkipCfg(t) ==
  /\ pc[t] = "control_flow"
  /\ "cfg" \notin asked[t].stages
  /\ Go(t, "analyze")
  /\ UNCHANGED <<caches, sessions, results, includes, asked, caller, pending, lints>>

\* build_with_tree finds the graph under the shared lock.
FindCfg(t) ==
  /\ pc[t] = "control_flow"
  /\ "cfg" \in asked[t].stages
  /\ cfgs[asked[t].text] # None
  /\ cfg' = [cfg EXCEPT ![t] = cfgs[asked[t].text]]
  /\ Go(t, "take")
  /\ UNCHANGED <<caches, sessions, reflection, skips, ir, includes, asked, caller, pending, lints>>

\* build_with_tree builds the graph, with no lock held.
BuildCfg(t) ==
  /\ pc[t] = "control_flow"
  /\ "cfg" \in asked[t].stages
  /\ cfgs[asked[t].text] = None
  /\ Go(t, "emplace")
  /\ UNCHANGED <<caches, sessions, results, includes, asked, caller, pending, lints>>

\* try_emplace of the graph and its diagnostics.
EmplaceCfg(t) ==
  /\ pc[t] = "emplace"
  /\ LET x == asked[t].text IN
       /\ cfgs' = [cfgs EXCEPT ![x] = IF @ = None THEN x ELSE @]
       /\ cfg' = [cfg EXCEPT ![t] = cfgs'[x]]
  /\ Go(t, "take")
  /\ UNCHANGED <<reflections, irs, sessions, reflection, skips, ir, includes, asked, caller,
                 pending, lints>>

\* take_diagnostics(source): the first entry with the source id, which all have.
TakeDiagnostics(t) ==
  /\ pc[t] = "take"
  /\ LET first == CHOOSE x \in Texts :
                    cfgs[x] # None /\ \A y \in Texts : cfgs[y] # None => x <= y
     IN  skips' = [skips EXCEPT ![t] = IF first \in SkipTexts THEN first ELSE None]
  /\ Go(t, "analyze")
  /\ UNCHANGED <<caches, sessions, reflection, cfg, ir, includes, asked, caller, pending, lints>>

SkipIr(t) ==
  /\ pc[t] = "analyze"
  /\ "ir" \notin asked[t].stages
  /\ Go(t, "done")
  /\ UNCHANGED <<caches, sessions, results, includes, asked, caller, pending, lints>>

\* An IR made from a compilation of its own.
Analyze_OwnCompile(t) ==
  /\ pc[t] = "analyze"
  /\ "ir" \in asked[t].stages
  /\ LET found == irs[Key(asked[t])] IN
       IF found # None
       THEN /\ ir' = [ir EXCEPT ![t] = found]
            /\ Go(t, "done")
            /\ UNCHANGED pending
       ELSE /\ pending' = [pending EXCEPT ![t] = Compiled(asked[t])]
            /\ Go(t, "overwrite")
            /\ UNCHANGED ir
  /\ UNCHANGED <<caches, sessions, reflection, cfg, skips, includes, asked, caller, lints>>

\* IrEngine::analyze looks its own cache up, and calls reflect() on a miss.
Analyze(t) ==
  /\ pc[t] = "analyze"
  /\ "ir" \in asked[t].stages
  /\ LET found == irs[Key(asked[t])] IN
       IF found # None
       THEN /\ ir' = [ir EXCEPT ![t] = found]
            /\ Go(t, "done")
            /\ UNCHANGED caller
       ELSE /\ caller' = [caller EXCEPT ![t] = "analyze"]
            /\ Go(t, "lookup")
            /\ UNCHANGED ir
  /\ UNCHANGED <<caches, sessions, reflection, cfg, skips, includes, asked, pending, lints>>

\* cache_[key] = shared: the IR is stored over what is there.
OverwriteIr(t) ==
  /\ pc[t] = "overwrite"
  /\ irs' = [irs EXCEPT ![Key(asked[t])] = pending[t]]
  /\ ir' = [ir EXCEPT ![t] = pending[t]]
  /\ pending' = [pending EXCEPT ![t] = None]
  /\ Go(t, "done")
  /\ UNCHANGED <<reflections, cfgs, sessions, reflection, cfg, skips, includes, asked, caller, lints>>

\* lint() returns.
Return(t) ==
  /\ pc[t] = "done"
  /\ asked' = [asked EXCEPT ![t] = None]
  /\ caller' = [caller EXCEPT ![t] = None]
  /\ reflection' = [reflection EXCEPT ![t] = None]
  /\ cfg' = [cfg EXCEPT ![t] = None]
  /\ skips' = [skips EXCEPT ![t] = None]
  /\ ir' = [ir EXCEPT ![t] = None]
  /\ Go(t, "idle")
  /\ UNCHANGED <<caches, sessions, includes, pending, lints>>

\* Someone saves a file that the texts include.
EditInclude ==
  /\ includes < MaxEdits
  /\ includes' = includes + 1
  /\ UNCHANGED <<caches, sessions, results, pc, asked, caller, pending, lints>>

\* Every lint has returned and no other is asked for.
Rest ==
  /\ lints = MaxLints
  /\ \A t \in Threads : pc[t] = "idle"
  /\ UNCHANGED vars

Reflect(t) ==
  \/ LookUp(t) \/ TakeSession(t) \/ FindNoSession(t) \/ CreateSession(t) \/ CreateFails(t)
  \/ Compile(t) \/ Release(t) \/ Store(t)

Lint(t) ==
  \/ Start(t) \/ Reflect(t)
  \/ SkipCfg(t) \/ FindCfg(t) \/ BuildCfg(t) \/ EmplaceCfg(t) \/ TakeDiagnostics(t)
  \/ SkipIr(t) \/ Analyze(t) \/ OverwriteIr(t) \/ Return(t)

Next == EditInclude \/ Rest \/ \E t \in Threads : Lint(t)

Spec == Init /\ [][Next]_vars

-----------------------------------------------------------------------------
(* Properties *)

Holding == {"compile", "release"}
Computed == {"store", "overwrite"}

\* The types, with what a thread must have in hand where it is: a session while
\* it compiles and until the Releaser ran, a result when it is about to store one.
TypeOK ==
  /\ reflections \in [Keys -> Info \cup {None}]
  /\ cfgs \in [Texts -> Texts \cup {None}]
  /\ irs \in [Keys -> Info \cup {None}]
  /\ pool \in [Sessions -> Profiles \cup {None}]
  /\ made_for \in [Sessions -> Profiles \cup {None}]
  /\ includes \in 0..MaxEdits
  /\ lints \in 0..MaxLints
  /\ pc \in [Threads -> Holding \cup Computed \cup {"idle", "lookup", "acquire", "create",
                "control_flow", "emplace", "take", "analyze", "done"}]
  /\ asked \in [Threads -> Request \cup {None}]
  /\ caller \in [Threads -> {"run_rules", "analyze", None}]
  /\ session \in [Threads -> Sessions \cup {None}]
  /\ pending \in [Threads -> Info \cup {None}]
  /\ reflection \in [Threads -> Info \cup {None}]
  /\ cfg \in [Threads -> Texts \cup {None}]
  /\ skips \in [Threads -> Texts \cup {None}]
  /\ ir \in [Threads -> Info \cup {None}]
  /\ \A t \in Threads :
       /\ pc[t] = "idle" <=> asked[t] = None
       /\ pc[t] \in Holding <=> session[t] # None
       /\ pc[t] \in Computed => pending[t] # None

\* A session is one thread's: none is shared by two threads, and none is in the
\* pool while a thread compiles with it.
SessionHasOneUser ==
  \A t \in Threads : session[t] # None =>
    /\ pool[session[t]] = None
    /\ \A u \in Threads \ {t} : session[u] # session[t]

\* The pool never keeps more sessions than its cap, whoever releases when.
PoolWithinCap == Cardinality(InPool) <= PoolSize

\* A lint compiles with a session created for its profile.
SessionFitsProfile ==
  \A t \in Threads : session[t] # None => made_for[session[t]] = Profile(asked[t].target)

\* What a stage was given is what the cache holds and the next lint will be
\* given: of two threads that compute the same entry one result is dropped.
AnswersAreCanonical ==
  \A t \in Threads :
    /\ reflection[t] # None => reflections[Key(asked[t])] = reflection[t]
    /\ cfg[t] # None => cfgs[asked[t].text] = cfg[t]
    /\ ir[t] # None => irs[Key(asked[t])] = ir[t]

\* What a stage was given is about the text and the profile of its lint.
AnswersAreForTheText ==
  \A t \in Threads :
    /\ \A r \in {reflection[t], ir[t]} \ {None} :
         r.text = asked[t].text /\ r.profile = Profile(asked[t].target)
    /\ cfg[t] # None => cfg[t] = asked[t].text

\* The IR that is cached for a key was made from the reflection cached for it,
\* although the two caches are filled under two locks.
IrAgreesWithReflection ==
  \A k \in Keys : irs[k] # None => irs[k] = reflections[k]

\* A thread gives its session up only to the pool, or when the pool is full.
SessionsReturnToThePool ==
  [][\A t \in Threads :
       (session[t] # None /\ session'[t] = None) =>
          \/ pool'[session[t]] = made_for[session[t]]
          \/ Cardinality(InPool) = PoolSize]_vars

\* The cfg-skip warnings of a lint are those of its own text, as the comment on
\* CfgEngine::take_diagnostics says.
CfgSkipIsOfThisText ==
  \A t \in Threads : skips[t] # None => skips[t] = asked[t].text

=============================================================================
