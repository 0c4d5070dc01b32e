-------------------------- MODULE LspSessionProofs --------------------------
(***************************************************************************)
(* Proofs about LspSession, for any documents, texts, batches and bounds.  *)
(***************************************************************************)
EXTENDS LspSession, SequenceTheorems, TLAPS

-----------------------------------------------------------------------------
(* Sequences as queues *)

LEMMA TailElements ==
  ASSUME NEW S, NEW q \in Seq(S), q # <<>>
  PROVE  /\ Tail(q) \in Seq(S)
         /\ Len(Tail(q)) = Len(q) - 1
         /\ \A i \in 1..(Len(q) - 1) : Tail(q)[i] = q[i+1]
         /\ Head(q) = q[1]
         /\ Head(q) \in S
         /\ Len(q) \in Nat \ {0}
  OBVIOUS

LEMMA AppendElements ==
  ASSUME NEW S, NEW q \in Seq(S), NEW e \in S
  PROVE  /\ Append(q, e) \in Seq(S)
         /\ Len(Append(q, e)) = Len(q) + 1
         /\ \A i \in 1..Len(q) : Append(q, e)[i] = q[i]
         /\ Append(q, e)[Len(q) + 1] = e
         /\ Len(q) \in Nat
  OBVIOUS

LEMMA RemoveElement ==
  ASSUME NEW S, NEW q \in Seq(S), NEW i \in 1..Len(q)
  PROVE  SubSeq(q, 1, i-1) \o SubSeq(q, i+1, Len(q)) \in Seq(S)
  OBVIOUS

LEMMA Counters ==
  ASSUME NEW S, NEW f \in [S -> Nat], NEW x \in S, NEW n \in Nat
  PROVE  f[x] \in Nat /\ f[x] + n \in Nat /\ [f EXCEPT ![x] = @ + n] \in [S -> Nat]
  OBVIOUS

-----------------------------------------------------------------------------
(* Type correctness *)

LEMMA ApplyChangesType ==
  ASSUME NEW d \in Doc, NEW v \in Nat, NEW cs \in Seq(Change),
         NEW r \in ApplyChanges(d, v, cs)
  PROVE  r.doc \in Doc /\ r.ok \in BOOLEAN /\ r.doc.latest_diagnostics = d.latest_diagnostics
<1> DEFINE n == Len(cs)
           reachable == {d.contents, Scrambled} \cup {cs[i].to : i \in 1..n}
<1>1. n \in Nat /\ \A i \in 1..n : cs[i] \in Change
  OBVIOUS
<1>2. \A i \in 1..n : cs[i].to \in Nat
  BY <1>1 DEF Change
<1>3. reachable \subseteq Text
  BY <1>2 DEF Doc, Text
<1>4. ASSUME NEW t \in Text, NEW w \in Nat
      PROVE  /\ [d EXCEPT !.contents = t] \in Doc
             /\ [d EXCEPT !.contents = t, !.version = w] \in Doc
             /\ [d EXCEPT !.contents = t].latest_diagnostics = d.latest_diagnostics
             /\ [d EXCEPT !.contents = t, !.version = w].latest_diagnostics = d.latest_diagnostics
  BY DEF Doc
<1>5. CASE r.ok = TRUE /\ \E after \in [0..n -> reachable] :
              r.doc = [d EXCEPT !.contents = after[n], !.version = v]
  <2>1. PICK after \in [0..n -> reachable] : r.doc = [d EXCEPT !.contents = after[n], !.version = v]
    BY <1>5
  <2>2. after[n] \in Text
    BY <1>1, <1>3
  <2> HIDE DEF n, reachable
  <2> QED
    BY <1>4, <1>5, <2>1, <2>2, Zenon
<1>6. CASE r.ok = FALSE /\ \E after \in [0..n -> reachable], k \in 0..n-1 :
              r.doc = [d EXCEPT !.contents = after[k]]
  <2>1. PICK after \in [0..n -> reachable], k \in 0..n-1 : r.doc = [d EXCEPT !.contents = after[k]]
    BY <1>6
  <2>2. after[k] \in Text
    BY <1>1, <1>3
  <2> HIDE DEF n, reachable
  <2> QED
    BY <1>4, <1>6, <2>1, <2>2, Zenon
<1>7. \/ r.ok = TRUE /\ \E after \in [0..n -> reachable] :
              r.doc = [d EXCEPT !.contents = after[n], !.version = v]
      \/ r.ok = FALSE /\ \E after \in [0..n -> reachable], k \in 0..n-1 :
              r.doc = [d EXCEPT !.contents = after[k]]
  BY Zenon DEF ApplyChanges
<1> QED
  BY <1>5, <1>6, <1>7

\* What a handler may rely on in the message at the head of stdin.
LEMMA ClientMsgFields ==
  ASSUME NEW m \in ClientMsg
  PROVE  /\ m.method \in Requests => m.id \in Nat
         /\ m.method = "initialize" => m.options \in OptionSets
         /\ m.method \in {"codeAction", "hover", "didOpen", "didChange", "didSave", "didClose"} =>
              m.uri \in Uris
         /\ m.method \in {"didOpen", "didChange"} => m.version \in Nat
         /\ m.method = "didOpen" => m.text \in Nat
         /\ m.method = "didChange" => m.changes \in Seq(Change)
  BY DEF ClientMsg, Requests

LEMMA ServerMsgFields ==
  ASSUME NEW m \in ServerMsg
  PROVE  /\ m.type = "publish" => m.uri \in Uris /\ m.version \in Nat /\ m.diags \in Diags
         /\ m.type = "reply" => m.id \in Nat
  BY DEF ServerMsg

LEMMA MessageTypes ==
  ASSUME NEW dg \in Diags, NEW n \in Nat
  PROVE  /\ \A u \in Uris : PublishMsg(u, n, dg) \in ServerMsg
         /\ \A t \in Text : ReplyMsg(n, dg, t) \in ServerMsg
  BY DEF PublishMsg, ReplyMsg, ServerMsg

LEMMA LintOfType ==
  ASSUME TypeOK, NEW t \in Text
  PROVE  LintOf(t) \in Diags
  BY DEF TypeOK, ServerTypeOK, LintOf, ResolveConfig, Diags, TomlStates

LEMMA LintAndPublishType ==
  ASSUME TypeOK, NEW ds \in [Uris -> Doc \cup {NoDoc}], NEW u \in Uris, LintAndPublish(ds, u)
  PROVE  docs' \in [Uris -> Doc \cup {NoDoc}] /\ outbox' \in Seq(ServerMsg)
<1>1. outbox \in Seq(ServerMsg)
  BY DEF TypeOK, ServerTypeOK
<1>2. CASE ds[u] = NoDoc
  BY <1>1, <1>2 DEF LintAndPublish
<1>3. CASE ds[u] # NoDoc
  <2>1. ds[u] \in Doc /\ ds[u].contents \in Text /\ ds[u].version \in Nat
    BY <1>3 DEF Doc
  <2> DEFINE lint == LintOf(ds[u].contents)
  <2>2. lint \in Diags
    BY <2>1, LintOfType
  <2>3. PublishMsg(u, ds[u].version, lint) \in ServerMsg
    BY <2>1, <2>2, MessageTypes
  <2>4. docs' = [ds EXCEPT ![u].latest_diagnostics = lint, ![u].linted = TRUE]
    BY <1>3 DEF LintAndPublish
  <2>5. outbox' = outbox \/ outbox' = Append(outbox, PublishMsg(u, ds[u].version, lint))
    BY <1>3 DEF LintAndPublish
  <2> HIDE DEF lint
  <2>6. docs' \in [Uris -> Doc \cup {NoDoc}]
    BY <2>1, <2>2, <2>4 DEF Doc
  <2>7. outbox' \in Seq(ServerMsg)
    BY <1>1, <2>3, <2>5, AppendElements
  <2> QED
    BY <2>6, <2>7
<1> QED
  BY <1>2, <1>3

LEMMA TypeInit == Init => TypeOK
<1>1. NoDiags \in Diags
  BY DEF Diags
<1>2. Init => ServerTypeOK
  <2>1. ServerInit => docs \in [Uris -> Doc \cup {NoDoc}]
    BY DEF ServerInit
  <2>2. ServerInit => inbox \in Seq(ClientMsg) /\ outbox \in Seq(ServerMsg)
    BY DEF ServerInit
  <2> QED
    BY <2>1, <2>2 DEF Init, ServerInit, ServerTypeOK
<1>3. Init => /\ phase = "start"
              /\ isOpen \in [Uris -> BOOLEAN] /\ text \in [Uris -> Nat] /\ version \in [Uris -> Nat]
              /\ synced \in [Uris -> BOOLEAN] /\ settled \in [Uris -> BOOLEAN]
              /\ awaiting \in Seq(Nat) /\ used \in [Bounds -> Nat]
  BY DEF Init
<1>4. Init => shown \in [Uris -> [version : Nat, diags : Diags]]
  BY <1>1 DEF Init
<1> QED
  BY <1>2, <1>3, <1>4 DEF TypeOK

\* The handlers, under the conditions the read loop runs them.
LEMMA TypeServerStep ==
  ASSUME TypeOK, ServerNext
  PROVE  TypeOK'
<1> USE DEF TypeOK, ServerTypeOK
<1>1. UNCHANGED editorVars => phase' = phase /\ UNCHANGED <<isOpen, text, version, shown, awaiting, used, synced, settled>>
  BY DEF editorVars
<1>2. UNCHANGED <<isOpen, text, version, shown, awaiting, used, synced, settled, phase>>
  BY <1>1 DEF ServerNext
<1> DEFINE m == Head(inbox)
<1>3. ASSUME NEW method, Take(method)
      PROVE  /\ m \in ClientMsg /\ m.method = method /\ inbox' \in Seq(ClientMsg)
             /\ UNCHANGED <<eof, toml>>
  BY <1>3, TailElements DEF Take
<1>4. ASSUME NEW dg \in Diags, NEW t \in Text, m \in ClientMsg, m.method \in Requests, Answer(dg, t)
      PROVE  outbox' \in Seq(ServerMsg)
  BY <1>4, ClientMsgFields, MessageTypes, AppendElements DEF Answer
<1>5. NoDiags \in Diags /\ 0 \in Text
  BY DEF Diags, Text
<1>6. CASE OnInitialize
  <2>1. m \in ClientMsg /\ m.method = "initialize" /\ inbox' \in Seq(ClientMsg) /\ UNCHANGED <<eof, toml>>
    BY <1>3, <1>6 DEF OnInitialize
  <2>2. options' \in OptionSets
    BY <1>6, <2>1, ClientMsgFields DEF OnInitialize
  <2>3. outbox' \in Seq(ServerMsg)
    BY <1>4, <1>5, <1>6, <2>1 DEF OnInitialize, Requests
  <2> QED
    BY <1>2, <1>6, <2>1, <2>2, <2>3 DEF OnInitialize
<1>7. CASE OnShutdown
  <2>1. m \in ClientMsg /\ m.method = "shutdown" /\ inbox' \in Seq(ClientMsg) /\ UNCHANGED <<eof, toml>>
    BY <1>3, <1>7 DEF OnShutdown
  <2>2. outbox' \in Seq(ServerMsg)
    BY <1>4, <1>5, <1>7, <2>1 DEF OnShutdown, Requests
  <2> QED
    BY <1>2, <1>7, <2>1, <2>2 DEF OnShutdown
<1>8. CASE OnUnknownRequest
  <2>1. m \in ClientMsg /\ m.method = "unknown" /\ inbox' \in Seq(ClientMsg) /\ UNCHANGED <<eof, toml>>
    BY <1>3, <1>8 DEF OnUnknownRequest
  <2>2. outbox' \in Seq(ServerMsg)
    BY <1>4, <1>5, <1>8, <2>1 DEF OnUnknownRequest, Requests
  <2> QED
    BY <1>2, <1>8, <2>1, <2>2 DEF OnUnknownRequest, serverVars
<1>9. ASSUME m \in ClientMsg, m.method \in {"codeAction", "hover"}, inbox' \in Seq(ClientMsg), UNCHANGED <<eof, toml>>,
             AnswerFromView(m.uri) \/ ReplyThrows(m.uri)
      PROVE  TypeOK'
  <2>1. CASE ReplyThrows(m.uri)
    BY <1>2, <1>9, <2>1 DEF ReplyThrows
  <2>2. CASE AnswerFromView(m.uri)
    <3>1. docs[m.uri] # NoDoc => docs[m.uri].latest_diagnostics \in Diags /\ docs[m.uri].contents \in Text
      BY <1>9, ClientMsgFields DEF Doc
    <3>2. outbox' \in Seq(ServerMsg)
      BY <1>4, <1>5, <1>9, <2>2, <3>1 DEF AnswerFromView, Requests
    <3> QED
      BY <1>2, <1>9, <2>2, <3>2 DEF AnswerFromView, serverVars
  <2> QED
    BY <1>9, <2>1, <2>2
<1>10. CASE OnCodeAction \/ OnHover
  BY <1>3, <1>9, <1>10 DEF OnCodeAction, OnHover
<1>11. CASE OnIgnoredNotification
  <2>1. inbox' \in Seq(ClientMsg) /\ UNCHANGED <<eof, toml>>
    BY <1>3, <1>11 DEF OnIgnoredNotification
  <2> QED
    BY <1>2, <1>11, <2>1 DEF OnIgnoredNotification, serverVars
<1>12. CASE OnDidOpen
  <2>1. m \in ClientMsg /\ m.method = "didOpen" /\ inbox' \in Seq(ClientMsg) /\ UNCHANGED <<eof, toml>>
    BY <1>3, <1>12 DEF OnDidOpen
  <2> DEFINE opened == [contents |-> m.text, version |-> m.version, latest_diagnostics |-> NoDiags, linted |-> FALSE]
  <2>2. m.uri \in Uris /\ opened \in Doc
    BY <1>5, <2>1, ClientMsgFields DEF Doc, Text
  <2>3. LintAndPublish([docs EXCEPT ![m.uri] = opened], m.uri)
    BY <1>12 DEF OnDidOpen
  <2> HIDE DEF opened
  <2>4. [docs EXCEPT ![m.uri] = opened] \in [Uris -> Doc \cup {NoDoc}]
    BY <2>2
  <2>5. docs' \in [Uris -> Doc \cup {NoDoc}] /\ outbox' \in Seq(ServerMsg)
    BY <2>2, <2>3, <2>4, LintAndPublishType
  <2> QED
    BY <1>2, <1>12, <2>1, <2>5 DEF OnDidOpen
<1>13. CASE OnDidChange
  <2>1. m \in ClientMsg /\ m.method = "didChange" /\ inbox' \in Seq(ClientMsg) /\ UNCHANGED <<eof, toml>>
    BY <1>3, <1>13 DEF OnDidChange
  <2>2. m.uri \in Uris /\ m.version \in Nat /\ m.changes \in Seq(Change)
    BY <2>1, ClientMsgFields
  <2>3. docs' \in [Uris -> Doc \cup {NoDoc}] /\ outbox' \in Seq(ServerMsg)
    <3>1. CASE docs[m.uri] = NoDoc
      BY <1>13, <3>1 DEF OnDidChange
    <3>2. CASE docs[m.uri] # NoDoc
      <4>1. PICK r \in ApplyChanges(docs[m.uri], m.version, m.changes) :
              \/ docs' = [docs EXCEPT ![m.uri] = r.doc] /\ UNCHANGED outbox
              \/ LintAndPublish([docs EXCEPT ![m.uri] = r.doc], m.uri)
        BY <1>13, <3>2 DEF OnDidChange
      <4>2. r.doc \in Doc
        BY <2>2, <3>2, ApplyChangesType
      <4>3. [docs EXCEPT ![m.uri] = r.doc] \in [Uris -> Doc \cup {NoDoc}]
        BY <4>2
      <4> QED
        BY <2>2, <4>1, <4>3, LintAndPublishType
    <3> QED
      BY <3>1, <3>2
  <2> QED
    BY <1>2, <1>13, <2>1, <2>3 DEF OnDidChange
<1>14. CASE OnDidSave
  <2>1. m \in ClientMsg /\ m.method = "didSave" /\ inbox' \in Seq(ClientMsg) /\ UNCHANGED <<eof, toml>>
    BY <1>3, <1>14 DEF OnDidSave
  <2>2. docs' \in [Uris -> Doc \cup {NoDoc}] /\ outbox' \in Seq(ServerMsg)
    BY <1>14, <2>1, ClientMsgFields, LintAndPublishType DEF OnDidSave
  <2> QED
    BY <1>2, <1>14, <2>1, <2>2 DEF OnDidSave
<1>15. CASE OnDidClose
  <2>1. m \in ClientMsg /\ m.method = "didClose" /\ inbox' \in Seq(ClientMsg) /\ UNCHANGED <<eof, toml>>
    BY <1>3, <1>15 DEF OnDidClose
  <2>2. PublishMsg(m.uri, 0, NoDiags) \in ServerMsg
    BY <1>5, <2>1, ClientMsgFields, MessageTypes
  <2>3. outbox' \in Seq(ServerMsg)
    BY <1>15, <2>2, AppendElements DEF OnDidClose
  <2> QED
    BY <1>2, <1>15, <2>1, <2>3 DEF OnDidClose
<1>16. CASE OnExit
  <2>1. inbox' \in Seq(ClientMsg) /\ UNCHANGED <<eof, toml>>
    BY <1>3, <1>16 DEF OnExit
  <2> QED
    BY <1>2, <1>16, <2>1 DEF OnExit
<1>17. CASE LeaveLoop
  BY <1>2, <1>17 DEF LeaveLoop, wireVars
<1> QED
  BY <1>6, <1>7, <1>8, <1>10, <1>11, <1>12, <1>13, <1>14, <1>15, <1>16, <1>17 DEF ServerNext, ServerStep

\* The editor's part.
LEMMA BatchType ==
  ASSUME TypeOK, NEW u \in Uris, NEW batch, batch \in Batches(u) \/ batch = WholeText(u)
  PROVE  batch \in Seq(Change) /\ Len(batch) \in Nat
<1>1. text[u] \in Nat
  BY DEF TypeOK
<1>2. ASSUME NEW n \in 1..MaxBatch, NEW fits \in [1..n -> Fits \ {"full"}], batch = RangeBatch(u, fits)
      PROVE  batch \in Seq(Change)
  <2>1. n \in Nat
    BY BoundsAssumption
  <2>2. ASSUME NEW i \in 1..n
        PROVE  [fit |-> fits[i], from |-> text[u] + i - 1, to |-> text[u] + i] \in Change
    BY <1>1, <2>1, FitsAssumption DEF Change
  <2>3. DOMAIN fits = 1..n
    OBVIOUS
  <2>4. batch \in [1..n -> Change]
    BY <1>2, <2>2, <2>3, Zenon DEF RangeBatch
  <2> QED
    BY <2>1, <2>4
<1>3. ASSUME batch = WholeText(u)
      PROVE  batch \in Seq(Change)
  BY <1>1, <1>3 DEF Change, Fit, WholeText
<1>4. batch \in Batches(u) => \E n \in 1..MaxBatch : \E fits \in [1..n -> Fits \ {"full"}] :
                                 batch = RangeBatch(u, fits)
  BY Zenon DEF Batches
<1>5. batch \in Seq(Change)
  BY <1>2, <1>3, <1>4
<1> QED
  BY <1>5

LEMMA TypeUserActs ==
  ASSUME TypeOK, UserActs
  PROVE  TypeOK'
<1> USE DEF TypeOK, ServerTypeOK
<1>1. ASSUME NEW mm \in ClientMsg, Send(mm)
      PROVE  inbox' \in Seq(ClientMsg)
  BY <1>1, AppendElements DEF Send
<1>2. ASSUME NEW what, NEW bound, what \in Bounds, Spend(what, bound)
      PROVE  used' \in [Bounds -> Nat]
  <2>0. used \in [Bounds -> Nat]
    OBVIOUS
  <2>1. used' = [used EXCEPT ![what] = @ + 1]
    BY <1>2, Zenon DEF Spend
  <2> HIDE DEF TypeOK, ServerTypeOK
  <2>2. \A x \in Bounds : [used EXCEPT ![x] = @ + 1] \in [Bounds -> Nat]
    BY <2>0
  <2> QED
    BY <1>2, <2>1, <2>2, Zenon
<1>3. ASSUME NEW mm \in ClientMsg, mm.id \in Nat, Ask(mm)
      PROVE  inbox' \in Seq(ClientMsg) /\ awaiting' \in Seq(Nat) /\ used' \in [Bounds -> Nat]
  <2>1. Send(mm) /\ Spend("requests", MaxRequests) /\ awaiting' = Append(awaiting, mm.id)
    BY <1>3, Zenon DEF Ask
  <2>2. "requests" \in Bounds
    BY DEF Bounds
  <2>3. awaiting' \in Seq(Nat)
    BY <1>3, <2>1, AppendElements
  <2> QED
    BY <1>1, <1>2, <2>1, <2>2, <2>3, Zenon
<1>4. NextId \in Nat
  BY DEF NextId, Bounds
<1>5. CASE StartSession
  <2>1. PICK o \in OptionSets : Ask([method |-> "initialize", id |-> NextId, options |-> o])
    BY <1>5 DEF StartSession
  <2>2. [method |-> "initialize", id |-> NextId, options |-> o] \in ClientMsg
    BY <1>4 DEF ClientMsg
  <2>3. inbox' \in Seq(ClientMsg) /\ awaiting' \in Seq(Nat) /\ used' \in [Bounds -> Nat]
    BY <1>3, <1>4, <2>1, <2>2
  <2> QED
    BY <1>5, <2>3 DEF StartSession, serverVars
<1>6. CASE AskUnknown
  <2>1. [method |-> "unknown", id |-> NextId] \in ClientMsg
    BY <1>4 DEF ClientMsg
  <2>2. inbox' \in Seq(ClientMsg) /\ awaiting' \in Seq(Nat) /\ used' \in [Bounds -> Nat]
    BY <1>3, <1>4, <1>6, <2>1 DEF AskUnknown
  <2> QED
    BY <1>6, <2>2 DEF AskUnknown, serverVars
<1>7. CASE AskShutdown
  <2>1. [method |-> "shutdown", id |-> NextId] \in ClientMsg
    BY <1>4 DEF ClientMsg
  <2>2. inbox' \in Seq(ClientMsg) /\ awaiting' \in Seq(Nat) /\ used' \in [Bounds -> Nat]
    BY <1>3, <1>4, <1>7, <2>1 DEF AskShutdown
  <2> QED
    BY <1>7, <2>2 DEF AskShutdown, serverVars
<1>8. CASE EditToml
  <2>1. [method |-> "didChangeConfiguration"] \in ClientMsg
    BY DEF ClientMsg
  <2>2. inbox' \in Seq(ClientMsg) /\ used' \in [Bounds -> Nat]
    <3>1. "tomls" \in Bounds
      BY DEF Bounds
    <3> QED
      BY <1>1, <1>2, <1>8, <2>1, <3>1, Zenon DEF EditToml
  <2> QED
    BY <1>8, <2>2 DEF EditToml, serverVars
<1>9. CASE SendExit
  <2>1. [method |-> "exit"] \in ClientMsg
    BY DEF ClientMsg
  <2>2. inbox' \in Seq(ClientMsg)
    BY <1>1, <1>9, <2>1 DEF SendExit
  <2> QED
    BY <1>9, <2>2 DEF SendExit, serverVars
<1>10. CASE Vanish
  BY <1>10 DEF Vanish, serverVars
<1>11. ASSUME NEW u \in Uris, OpenDoc(u)
       PROVE  TypeOK'
  <2>1. [method |-> "didOpen", uri |-> u, version |-> 1, text |-> text[u]] \in ClientMsg
    BY DEF ClientMsg
  <2>2. inbox' \in Seq(ClientMsg) /\ used' \in [Bounds -> Nat]
    <3>1. "opens" \in Bounds
      BY DEF Bounds
    <3> QED
      BY <1>1, <1>2, <1>11, <2>1, <3>1, Zenon DEF OpenDoc
  <2> QED
    BY <1>11, <2>2 DEF OpenDoc, serverVars
<1>12. ASSUME NEW u \in Uris, EditDoc(u)
       PROVE  TypeOK'
  <2>1. PICK batch :
          /\ batch \in Batches(u) \/ batch = WholeText(u)
          /\ Send([method |-> "didChange", uri |-> u, version |-> version[u] + 1, changes |-> batch])
          /\ text' = [text EXCEPT ![u] = @ + Len(batch)]
          /\ synced' = [synced EXCEPT ![u] =
               batch[1].fit = "full" \/ (@ /\ \A i \in DOMAIN batch : batch[i].fit = "exact")]
    BY <1>12, Zenon DEF EditDoc
  <2>2. batch \in Seq(Change) /\ Len(batch) \in Nat /\ version[u] + 1 \in Nat /\ text[u] + Len(batch) \in Nat
    <3>1. batch \in Seq(Change) /\ Len(batch) \in Nat
      BY <2>1, BatchType, Zenon
    <3>2. 1 \in Nat
      OBVIOUS
    <3> QED
      BY <3>1, <3>2, Counters, Zenon
  <2>3. [method |-> "didChange", uri |-> u, version |-> version[u] + 1, changes |-> batch] \in ClientMsg
    BY <2>2, Zenon DEF ClientMsg
  <2>4. inbox' \in Seq(ClientMsg)
    BY <1>1, <2>1, <2>3
  <2>5. text' \in [Uris -> Nat] /\ version' \in [Uris -> Nat]
    BY <1>12, <2>1, <2>2, Zenon DEF EditDoc
  <2>6. synced' \in [Uris -> BOOLEAN]
    BY <2>1, Zenon
  <2> QED
    BY <1>12, <2>4, <2>5, <2>6 DEF EditDoc, serverVars
<1>13. ASSUME NEW u \in Uris, SaveDoc(u)
       PROVE  TypeOK'
  <2>1. [method |-> "didSave", uri |-> u] \in ClientMsg
    BY DEF ClientMsg
  <2>2. inbox' \in Seq(ClientMsg) /\ used' \in [Bounds -> Nat]
    <3>1. "saves" \in Bounds
      BY DEF Bounds
    <3> QED
      BY <1>1, <1>2, <1>13, <2>1, <3>1, Zenon DEF SaveDoc
  <2> QED
    BY <1>13, <2>2 DEF SaveDoc, serverVars
<1>14. ASSUME NEW u \in Uris, CloseDoc(u)
       PROVE  TypeOK'
  <2>1. [method |-> "didClose", uri |-> u] \in ClientMsg
    BY DEF ClientMsg
  <2>2. inbox' \in Seq(ClientMsg)
    BY <1>1, <1>14, <2>1 DEF CloseDoc
  <2> QED
    BY <1>14, <2>2 DEF CloseDoc, serverVars
<1>15. ASSUME NEW u \in Uris, AskFixes(u)
       PROVE  TypeOK'
  <2>1. PICK method \in {"codeAction", "hover"} : Ask([method |-> method, id |-> NextId, uri |-> u])
    BY <1>15 DEF AskFixes
  <2>2. [method |-> method, id |-> NextId, uri |-> u] \in ClientMsg
    BY <1>4 DEF ClientMsg
  <2>3. inbox' \in Seq(ClientMsg) /\ awaiting' \in Seq(Nat) /\ used' \in [Bounds -> Nat]
    BY <1>3, <1>4, <2>1, <2>2
  <2> QED
    BY <1>15, <2>3 DEF AskFixes, serverVars
<1> QED
  BY <1>5, <1>6, <1>7, <1>8, <1>9, <1>10, <1>11, <1>12, <1>13, <1>14, <1>15 DEF UserActs

LEMMA TypeEditorReads ==
  ASSUME TypeOK, EditorReads
  PROVE  TypeOK'
<1> USE DEF TypeOK, ServerTypeOK
<1>1. outbox # <<>> => Head(outbox) \in ServerMsg /\ Tail(outbox) \in Seq(ServerMsg)
  BY TailElements
<1>2. CASE ReadReply
  <2>1. awaiting' \in Seq(Nat)
    <3>1. CASE UNCHANGED awaiting
      BY <3>1
    <3>2. CASE \E i \in DOMAIN awaiting :
                 awaiting' = SubSeq(awaiting, 1, i-1) \o SubSeq(awaiting, i+1, Len(awaiting))
      <4> HIDE DEF TypeOK, ServerTypeOK
      <4>1. awaiting \in Seq(Nat)
        BY DEF TypeOK
      <4>2. DOMAIN awaiting = 1..Len(awaiting)
        BY <4>1
      <4> QED
        BY <3>2, <4>1, <4>2, RemoveElement, Zenon
    <3> QED
      BY <1>2, <3>1, <3>2, Zenon DEF ReadReply, Settle
  <2>2. inbox' \in Seq(ClientMsg) /\ (phase' = "ready" \/ phase' = phase)
    <3>1. [method |-> "initialized"] \in ClientMsg
      BY DEF ClientMsg
    <3>2. \/ phase' = phase /\ inbox' = inbox
          \/ phase' = "ready" /\ inbox' = Append(inbox, [method |-> "initialized"])
      BY <1>2 DEF ReadReply, Send
    <3>3. inbox \in Seq(ClientMsg)
      OBVIOUS
    <3>4. Append(inbox, [method |-> "initialized"]) \in Seq(ClientMsg)
      BY <3>1, <3>3, AppendElements, Zenon
    <3> QED
      BY <3>2, <3>3, <3>4, Zenon
  <2> QED
    BY <1>1, <1>2, <2>1, <2>2 DEF ReadReply, serverVars
<1>3. CASE ReadPublish
  <2>1. Head(outbox).uri \in Uris /\ Head(outbox).version \in Nat /\ Head(outbox).diags \in Diags
    BY <1>1, <1>3, ServerMsgFields DEF ReadPublish
  <2>2. shown' \in [Uris -> [version : Nat, diags : Diags]]
    BY <1>3, <2>1 DEF ReadPublish
  <2> QED
    BY <1>1, <1>3, <2>2 DEF ReadPublish, serverVars
<1> QED
  BY <1>2, <1>3 DEF EditorReads

LEMMA TypeStep == TypeOK /\ [Next]_vars => TypeOK'
<1> SUFFICES ASSUME TypeOK, [Next]_vars PROVE TypeOK'
  OBVIOUS
<1>1. CASE UNCHANGED vars
  BY <1>1 DEF vars, serverVars, wireVars, editorVars, TypeOK, ServerTypeOK
<1> QED
  BY <1>1, TypeServerStep, TypeEditorReads, TypeUserActs DEF Next

\* Whatever the editor sends, the server's registry, its options and both pipes hold what
\* their types say: no partially applied batch or swallowed exception leaves an ill-formed entry.
THEOREM TypeCorrect == Spec => []TypeOK
  BY TypeInit, TypeStep, PTL DEF Spec

-----------------------------------------------------------------------------
(* The registry and the editor's display, one document at a time *)

LEMMA TailNotes ==
  ASSUME NEW q \in Seq(ClientMsg), q # <<>>, NEW u
  PROVE  \A i \in Int : i \in NotesOn(Tail(q), u) <=> i >= 1 /\ i + 1 \in NotesOn(q, u)
  BY TailElements DEF NotesOn

LEMMA AppendNotes ==
  ASSUME NEW q \in Seq(ClientMsg), NEW e \in ClientMsg, NEW u
  PROVE  \A i : i \in NotesOn(Append(q, e), u) <=>
                  i \in NotesOn(q, u) \/ (i = Len(q) + 1 /\ Concerns(e, u))
  BY AppendElements DEF NotesOn

LEMMA TailPublishes ==
  ASSUME NEW q \in Seq(ServerMsg), q # <<>>, NEW u
  PROVE  \A i \in Int : i \in PublishesOn(Tail(q), u) <=> i >= 1 /\ i + 1 \in PublishesOn(q, u)
  BY TailElements DEF PublishesOn

LEMMA AppendPublishes ==
  ASSUME NEW q \in Seq(ServerMsg), NEW e \in ServerMsg, NEW u
  PROVE  \A i : i \in PublishesOn(Append(q, e), u) <=>
                  i \in PublishesOn(q, u) \/ (i = Len(q) + 1 /\ e.type = "publish" /\ e.uri = u)
  BY AppendElements DEF PublishesOn

LEMMA Positions ==
  ASSUME TypeOK, NEW u
  PROVE  /\ AboutIn(u) \subseteq 1..Len(inbox) /\ Len(inbox) \in Nat
         /\ AboutOut(u) \subseteq 1..Len(outbox) /\ Len(outbox) \in Nat
<1>1. inbox \in Seq(ClientMsg) /\ outbox \in Seq(ServerMsg)
  BY DEF TypeOK, ServerTypeOK
<1> QED
  BY <1>1 DEF AboutIn, AboutOut, NotesOn, PublishesOn

\* The invariant, for one document.
Agrees(u) ==
  /\ \A i \in AboutIn(u) : (\A j \in AboutIn(u) : j <= i) => (inbox[i].method = "didClose" <=> ~isOpen[u])
  /\ \A i \in AboutIn(u) : (\A j \in AboutIn(u) : i <= j) => (inbox[i].method = "didOpen" <=> docs[u] = NoDoc)
  /\ \A i, j \in AboutIn(u) : i < j /\ (\A k \in AboutIn(u) : k <= i \/ j <= k) =>
       (inbox[j].method = "didOpen" <=> inbox[i].method = "didClose")
  /\ AboutIn(u) = {} => (isOpen[u] <=> docs[u] # NoDoc)

Cleared(u) == ~isOpen[u] /\ AboutIn(u) = {} =>
  /\ AboutOut(u) = {} => shown[u].diags = NoDiags
  /\ \A i \in AboutOut(u) : (\A j \in AboutOut(u) : j <= i) => outbox[i].diags = NoDiags

LEMMA InvariantByDocument ==
  (\A u \in Uris : Agrees(u) /\ Cleared(u)) <=> NotesFitRegistry /\ OpenSetAgrees
  BY DEF Agrees, Cleared, NotesFitRegistry, OpenSetAgrees, LastNoteDecides, LastPublishClears,
         FirstNoteFits, NotesAlternate

\* The server reads a message: what that means for document u.
Silent(u) == \/ outbox' = outbox
             \/ \E e \in ServerMsg : outbox' = Append(outbox, e) /\ ~(e.type = "publish" /\ e.uri = u)

Reads(u) ==
  /\ inbox # <<>> /\ inbox' = Tail(inbox)
  /\ isOpen' = isOpen /\ shown' = shown
  /\ ~Concerns(Head(inbox), u) => docs'[u] = docs[u] /\ Silent(u)
  /\ Concerns(Head(inbox), u) =>
       /\ Head(inbox).method = "didOpen" => docs'[u] # NoDoc
       /\ Head(inbox).method = "didClose" =>
            /\ docs'[u] = NoDoc
            /\ \E e \in ServerMsg : /\ outbox' = Append(outbox, e)
                                    /\ e.type = "publish" /\ e.uri = u /\ e.diags = NoDiags
       /\ Head(inbox).method \in {"didChange", "didSave"} => (docs'[u] = NoDoc <=> docs[u] = NoDoc)

LEMMA ReadsKeepsAgrees ==
  ASSUME TypeOK, NEW u \in Uris, Reads(u), Agrees(u)
  PROVE  Agrees(u)'
<1> DEFINE S == AboutIn(u)
           T == AboutIn(u)'
<1>1. inbox \in Seq(ClientMsg) /\ inbox # <<>> /\ inbox' = Tail(inbox) /\ isOpen' = isOpen
  BY DEF TypeOK, ServerTypeOK, Reads
<1>2. \A i \in Int : i \in T <=> i >= 1 /\ i + 1 \in S
  BY <1>1, TailNotes DEF AboutIn
<1>3. T \subseteq Int /\ S \subseteq 1..Len(inbox)
  BY <1>1, TailElements DEF AboutIn, NotesOn
<1>13. \A j \in S : j \in Int /\ j >= 1 /\ (j = 1 \/ j - 1 \in T)
  <2>1. ASSUME NEW j \in S PROVE j \in Int /\ j >= 1 /\ (j - 1) + 1 = j
    BY <1>1, <1>3, TailElements
  <2>2. ASSUME NEW j \in S, j # 1 PROVE j - 1 \in T
    BY <1>2, <2>1, <2>2
  <2> QED
    BY <2>1, <2>2
<1>14. \A i \in T : i \in Int /\ i >= 1 /\ i + 1 \in S
  BY <1>2, <1>3
<1>4. \A i \in T : inbox'[i] = inbox[i+1]
  BY <1>1, TailElements DEF AboutIn, NotesOn
<1>5. 1 \in S <=> Concerns(Head(inbox), u)
  BY <1>1, TailElements DEF AboutIn, NotesOn
<1>6. inbox[1] = Head(inbox)
  BY <1>1, TailElements
<1>7. 1 \notin S => docs'[u] = docs[u]
  BY <1>5 DEF Reads
<1>8. 1 \in S => (docs'[u] = NoDoc <=> inbox[1].method = "didClose")
  <2> SUFFICES ASSUME 1 \in S PROVE docs'[u] = NoDoc <=> inbox[1].method = "didClose"
    OBVIOUS
  <2>1. inbox[1].method \in {"didOpen", "didChange", "didSave", "didClose"}
    BY <1>5, <1>6 DEF Concerns
  <2>2. inbox[1].method = "didOpen" <=> docs[u] = NoDoc
    BY <1>3 DEF Agrees
  <2>3. inbox[1].method = "didOpen" => docs'[u] # NoDoc
    BY <1>5, <1>6 DEF Reads
  <2>4. inbox[1].method = "didClose" => docs'[u] = NoDoc
    BY <1>5, <1>6 DEF Reads
  <2>5. inbox[1].method \in {"didChange", "didSave"} => (docs'[u] = NoDoc <=> docs[u] = NoDoc)
    BY <1>5, <1>6 DEF Reads
  <2> QED
    BY <2>1, <2>2, <2>3, <2>4, <2>5
<1> HIDE DEF S, T
<1>9. ASSUME NEW i \in T, \A j \in T : j <= i
      PROVE  inbox'[i].method = "didClose" <=> ~isOpen'[u]
  <2>1. i + 1 \in S /\ \A j \in S : j <= i + 1
    <3>1. ASSUME NEW j \in S PROVE j <= i + 1
      BY <1>9, <1>13, <1>14
    <3> QED
      BY <1>14, <3>1
  <2>2. inbox[i+1].method = "didClose" <=> ~isOpen[u]
    BY <2>1 DEF Agrees, S
  <2> QED
    BY <1>1, <1>4, <2>2
<1>10. ASSUME NEW i \in T, \A j \in T : i <= j
       PROVE  inbox'[i].method = "didOpen" <=> docs'[u] = NoDoc
  <2>1. i + 1 \in S /\ i >= 1 /\ \A j \in S : j = 1 \/ i + 1 <= j
    <3>1. ASSUME NEW j \in S, j # 1 PROVE i + 1 <= j
      BY <1>10, <1>13, <1>14, <3>1
    <3> QED
      BY <1>14, <3>1
  <2>2. CASE 1 \in S
    <3>1. inbox[i+1].method = "didOpen" <=> inbox[1].method = "didClose"
      <4>1. \A k \in S : k <= 1 \/ i + 1 <= k
        BY <1>3, <2>1
      <4> QED
        BY <1>3, <2>1, <2>2, <4>1 DEF Agrees, S
    <3> QED
      BY <1>4, <1>8, <2>2, <3>1
  <2>3. CASE 1 \notin S
    <3>1. \A j \in S : i + 1 <= j
      BY <2>1, <2>3
    <3>2. inbox[i+1].method = "didOpen" <=> docs[u] = NoDoc
      BY <2>1, <3>1 DEF Agrees, S
    <3> QED
      BY <1>4, <1>7, <2>3, <3>2
  <2> QED
    BY <2>2, <2>3
<1>11. ASSUME NEW i \in T, NEW j \in T, i < j, \A k \in T : k <= i \/ j <= k
       PROVE  inbox'[j].method = "didOpen" <=> inbox'[i].method = "didClose"
  <2>1. i + 1 \in S /\ j + 1 \in S /\ i + 1 < j + 1
    BY <1>2, <1>3, <1>11
  <2>2. ASSUME NEW k \in S PROVE k <= i + 1 \/ j + 1 <= k
    <3>1. CASE k = 1
      BY <1>14, <3>1
    <3>2. CASE k - 1 \in T
      BY <1>11, <1>13, <1>14, <3>2
    <3> QED
      BY <1>13, <3>1, <3>2
  <2>3. inbox[j+1].method = "didOpen" <=> inbox[i+1].method = "didClose"
    BY <2>1, <2>2 DEF Agrees, S
  <2> QED
    BY <1>4, <2>3
<1>12. ASSUME T = {}
       PROVE  isOpen'[u] <=> docs'[u] # NoDoc
  <2>1. \A j \in S : j = 1
    BY <1>2, <1>3, <1>12
  <2>2. CASE 1 \in S
    <3>1. inbox[1].method = "didClose" <=> ~isOpen[u]
      BY <2>1, <2>2, <1>3 DEF Agrees, S
    <3> QED
      BY <1>1, <1>8, <2>2, <3>1
  <2>3. CASE 1 \notin S
    <3>1. S = {}
      BY <2>1, <2>3
    <3>2. isOpen[u] <=> docs[u] # NoDoc
      BY <3>1 DEF Agrees, S
    <3> QED
      BY <1>1, <1>7, <2>3, <3>2
  <2> QED
    BY <2>2, <2>3
<1> QED
  BY <1>9, <1>10, <1>11, <1>12 DEF Agrees, T

LEMMA ReadsKeepsCleared ==
  ASSUME TypeOK, TypeOK', NEW u \in Uris, Reads(u), Agrees(u), Cleared(u)
  PROVE  Cleared(u)'
<1> SUFFICES ASSUME ~isOpen'[u], AboutIn(u)' = {}
             PROVE  /\ AboutOut(u)' = {} => shown'[u].diags = NoDiags
                    /\ \A i \in AboutOut(u)' :
                         (\A j \in AboutOut(u)' : j <= i) => outbox'[i].diags = NoDiags
  BY DEF Cleared
<1>1. inbox \in Seq(ClientMsg) /\ inbox # <<>> /\ inbox' = Tail(inbox) /\ ~isOpen[u] /\ shown' = shown
  BY DEF TypeOK, ServerTypeOK, Reads
<1>2. outbox \in Seq(ServerMsg)
  BY DEF TypeOK, ServerTypeOK
<1>3. \A i \in AboutIn(u) : i = 1
  <2>1. \A i \in Int : ~(i >= 1 /\ i + 1 \in AboutIn(u))
    BY <1>1, TailNotes DEF AboutIn
  <2>2. ASSUME NEW i \in AboutIn(u), i # 1 PROVE FALSE
    <3>1. i \in Int /\ i >= 1
      BY Positions
    <3>2. i - 1 \in Int /\ i - 1 >= 1 /\ (i - 1) + 1 = i
      BY <2>2, <3>1
    <3> QED
      BY <2>1, <3>2
  <2> QED
    BY <2>2
<1>4. CASE 1 \in AboutIn(u)
  <2>1. Concerns(Head(inbox), u) /\ inbox[1] = Head(inbox)
    BY <1>1, <1>4, TailElements DEF AboutIn, NotesOn
  <2>2. inbox[1].method = "didClose"
    BY <1>1, <1>3, <1>4 DEF Agrees
  <2>3. PICK e \in ServerMsg : /\ outbox' = Append(outbox, e)
                              /\ e.type = "publish" /\ e.uri = u /\ e.diags = NoDiags
    BY <2>1, <2>2 DEF Reads
  <2>4. \A i : i \in AboutOut(u)' <=> i \in AboutOut(u) \/ i = Len(outbox) + 1
    BY <1>2, <2>3, AppendPublishes DEF AboutOut
  <2>5. ASSUME NEW i \in AboutOut(u)', \A j \in AboutOut(u)' : j <= i
        PROVE  i = Len(outbox) + 1
    <3>1. Len(outbox) + 1 <= i
      BY <2>4, <2>5
    <3>2. i \in 1..Len(outbox) \/ i = Len(outbox) + 1
      BY <2>4, Positions
    <3> QED
      BY <3>1, <3>2, Positions
  <2>6. outbox'[Len(outbox) + 1] = e
    BY <1>2, <2>3, AppendElements
  <2> QED
    BY <2>3, <2>4, <2>5, <2>6
<1>5. CASE 1 \notin AboutIn(u)
  <2>1. AboutIn(u) = {} /\ Silent(u)
    <3>1. ~Concerns(Head(inbox), u)
      BY <1>1, <1>5, TailElements DEF AboutIn, NotesOn
    <3> QED
      BY <1>3, <1>5, <3>1 DEF Reads
  <2>2. AboutOut(u)' = AboutOut(u) /\ \A i \in AboutOut(u) : outbox'[i] = outbox[i]
    <3>1. CASE outbox' = outbox
      BY <3>1 DEF AboutOut
    <3>2. CASE \E e \in ServerMsg : outbox' = Append(outbox, e) /\ ~(e.type = "publish" /\ e.uri = u)
      <4>1. PICK e \in ServerMsg : outbox' = Append(outbox, e) /\ ~(e.type = "publish" /\ e.uri = u)
        BY <3>2
      <4>2. AboutOut(u)' = AboutOut(u)
        <5>1. \A i : i \in PublishesOn(Append(outbox, e), u) <=> i \in PublishesOn(outbox, u)
          BY <1>2, <4>1, AppendPublishes
        <5>2. PublishesOn(Append(outbox, e), u) = PublishesOn(outbox, u)
          BY <5>1, Zenon
        <5> QED
          BY <4>1, <5>2 DEF AboutOut
      <4> QED
        BY <1>2, <4>1, <4>2, AppendElements, Positions
    <3> QED
      BY <2>1, <3>1, <3>2 DEF Silent
  <2> QED
    BY <1>1, <2>1, <2>2 DEF Cleared
<1> QED
  BY <1>4, <1>5

\* The editor writes a message, or none: what that means for document u.
Writes(u) ==
  /\ docs'[u] = docs[u]
  /\ \/ inbox' = inbox /\ isOpen'[u] = isOpen[u]
     \/ \E e \in ClientMsg :
          /\ inbox' = Append(inbox, e)
          /\ ~Concerns(e, u) => isOpen'[u] = isOpen[u]
          /\ Concerns(e, u) =>
               /\ e.method = "didOpen" <=> ~isOpen[u]
               /\ e.method = "didClose" <=> ~isOpen'[u]

LEMMA WritesKeepsAgrees ==
  ASSUME TypeOK, NEW u \in Uris, Writes(u), Agrees(u)
  PROVE  Agrees(u)'
<1> DEFINE S == AboutIn(u)
           T == AboutIn(u)'
           n == Len(inbox) + 1
<1>1. CASE inbox' = inbox /\ isOpen'[u] = isOpen[u]
  BY <1>1 DEF Agrees, Writes, AboutIn
<1>2. ASSUME NEW e \in ClientMsg, inbox' = Append(inbox, e), ~Concerns(e, u), isOpen'[u] = isOpen[u]
      PROVE  Agrees(u)'
  <2>1. inbox \in Seq(ClientMsg)
    BY DEF TypeOK, ServerTypeOK
  <2>2. T = S
    <3>1. \A i : i \in T <=> i \in S
      BY <1>2, <2>1, AppendNotes DEF AboutIn
    <3> QED
      BY <3>1, Zenon
  <2>3. \A i \in S : inbox'[i] = inbox[i]
    BY <1>2, <2>1, AppendElements, Positions
  <2> HIDE DEF S, T, n
  <2>4. docs'[u] = docs[u]
    BY DEF Writes
  <2>5. ASSUME NEW i \in T, \A j \in T : j <= i
        PROVE  inbox'[i].method = "didClose" <=> ~isOpen'[u]
    BY <1>2, <2>2, <2>3, <2>5 DEF Agrees, S
  <2>6. ASSUME NEW i \in T, \A j \in T : i <= j
        PROVE  inbox'[i].method = "didOpen" <=> docs'[u] = NoDoc
    BY <2>2, <2>3, <2>4, <2>6 DEF Agrees, S
  <2>7. ASSUME NEW i \in T, NEW j \in T, i < j, \A k \in T : k <= i \/ j <= k
        PROVE  inbox'[j].method = "didOpen" <=> inbox'[i].method = "didClose"
    BY <2>2, <2>3, <2>7 DEF Agrees, S
  <2>8. T = {} => (isOpen'[u] <=> docs'[u] # NoDoc)
    BY <1>2, <2>2, <2>4 DEF Agrees, S
  <2> QED
    BY <2>5, <2>6, <2>7, <2>8 DEF Agrees, T
<1>3. ASSUME NEW e \in ClientMsg, inbox' = Append(inbox, e), Concerns(e, u),
             e.method = "didOpen" <=> ~isOpen[u], e.method = "didClose" <=> ~isOpen'[u]
      PROVE  Agrees(u)'
  <2>1. inbox \in Seq(ClientMsg)
    BY DEF TypeOK, ServerTypeOK
  <2>2. \A i : i \in T <=> i \in S \/ i = n
    BY <1>3, <2>1, AppendNotes DEF AboutIn
  <2>3. S \subseteq 1..(n-1) /\ n \in Nat /\ \A i \in S : i < n /\ i \in Int
    BY Positions
  <2>4. inbox'[n] = e /\ \A i \in S : inbox'[i] = inbox[i]
    BY <1>3, <2>1, AppendElements, Positions
  <2>5. docs'[u] = docs[u]
    BY DEF Writes
  <2> HIDE DEF S, T, n
  <2>6. ASSUME NEW i \in T, \A j \in T : j <= i
        PROVE  inbox'[i].method = "didClose" <=> ~isOpen'[u]
    <3>1. i = n
      <4>1. n <= i
        BY <2>2, <2>6
      <4>2. i \in S => i < n /\ i \in Int /\ n \in Int
        BY <2>3
      <4> QED
        BY <2>2, <4>1, <4>2
    <3> QED
      BY <1>3, <2>4, <3>1
  <2>7. ASSUME NEW i \in T, \A j \in T : i <= j
        PROVE  inbox'[i].method = "didOpen" <=> docs'[u] = NoDoc
    <3>1. CASE i \in S
      BY <2>2, <2>4, <2>5, <2>7, <3>1 DEF Agrees, S
    <3>2. CASE i = n /\ i \notin S
      <4>1. S = {}
        BY <2>2, <2>3, <2>7, <3>2
      <4>2. isOpen[u] <=> docs[u] # NoDoc
        BY <4>1 DEF Agrees, S
      <4> QED
        BY <1>3, <2>4, <2>5, <3>2, <4>2
    <3> QED
      BY <2>2, <3>1, <3>2
  <2>8. ASSUME NEW i \in T, NEW j \in T, i < j, \A k \in T : k <= i \/ j <= k
        PROVE  inbox'[j].method = "didOpen" <=> inbox'[i].method = "didClose"
    <3>1. i \in S
      <4>1. j \in S => j < n /\ j \in Int /\ n \in Int
        BY <2>3
      <4>2. j = n \/ j \in S
        BY <2>2
      <4>3. i # n
        BY <2>3, <2>8, <4>1, <4>2
      <4> QED
        BY <2>2, <4>3
    <3>2. CASE j \in S
      BY <2>2, <2>4, <2>8, <3>1, <3>2 DEF Agrees, S
    <3>3. CASE j = n
      <4>1. \A k \in S : k <= i
        BY <2>2, <2>3, <2>8, <3>3
      <4>2. inbox[i].method = "didClose" <=> ~isOpen[u]
        BY <3>1, <4>1 DEF Agrees, S
      <4> QED
        BY <1>3, <2>4, <3>1, <3>3, <4>2
    <3> QED
      BY <2>2, <3>2, <3>3
  <2>9. T # {}
    BY <2>2
  <2> QED
    BY <2>6, <2>7, <2>8, <2>9 DEF Agrees, T
<1> QED
  BY <1>1, <1>2, <1>3, Zenon DEF Writes

LEMMA WritesKeepsCleared ==
  ASSUME TypeOK, NEW u \in Uris, Writes(u), UNCHANGED <<outbox, shown>>, Cleared(u)
  PROVE  Cleared(u)'
<1>1. AboutOut(u)' = AboutOut(u)
  BY DEF AboutOut
<1>2. CASE inbox' = inbox /\ isOpen'[u] = isOpen[u]
  BY <1>1, <1>2 DEF Cleared, AboutIn
<1>3. ASSUME NEW e \in ClientMsg, inbox' = Append(inbox, e), Concerns(e, u)
      PROVE  AboutIn(u)' # {}
  <2>1. inbox \in Seq(ClientMsg)
    BY DEF TypeOK, ServerTypeOK
  <2>2. Len(inbox) + 1 \in AboutIn(u)'
    BY <1>3, <2>1, AppendNotes DEF AboutIn
  <2> QED
    BY <2>2
<1>4. ASSUME NEW e \in ClientMsg, inbox' = Append(inbox, e), ~Concerns(e, u), isOpen'[u] = isOpen[u]
      PROVE  Cleared(u)'
  <2>1. inbox \in Seq(ClientMsg)
    BY DEF TypeOK, ServerTypeOK
  <2>2. AboutIn(u)' = {} => AboutIn(u) = {}
    <3>1. \A i : i \in AboutIn(u) => i \in AboutIn(u)'
      BY <1>4, <2>1, AppendNotes DEF AboutIn
    <3> QED
      BY <3>1
  <2> QED
    BY <1>1, <1>4, <2>2 DEF Cleared
<1>5. (AboutIn(u)' # {}) => Cleared(u)'
  BY DEF Cleared
<1> QED
  BY <1>2, <1>3, <1>4, <1>5 DEF Writes

\* The editor reads a message: what that means for the display of document u.
Displays(u) ==
  /\ outbox # <<>> /\ outbox' = Tail(outbox)
  /\ isOpen'[u] = isOpen[u]
  /\ LET e == Head(outbox) IN
       IF e.type = "publish" /\ e.uri = u THEN shown'[u].diags = e.diags ELSE shown'[u] = shown[u]

LEMMA DisplaysKeepsCleared ==
  ASSUME TypeOK, NEW u \in Uris, Displays(u), AboutIn(u)' = {} => AboutIn(u) = {}, Cleared(u)
  PROVE  Cleared(u)'
<1> DEFINE S == AboutOut(u)
           T == AboutOut(u)'
<1>1. outbox \in Seq(ServerMsg) /\ outbox # <<>> /\ outbox' = Tail(outbox) /\ isOpen'[u] = isOpen[u]
  BY DEF TypeOK, ServerTypeOK, Displays
<1>2. \A i \in Int : i \in T <=> i >= 1 /\ i + 1 \in S
  BY <1>1, TailPublishes DEF AboutOut
<1>3. S \subseteq 1..Len(outbox) /\ T \subseteq Int
  BY <1>1, TailElements, Positions DEF AboutOut, PublishesOn
<1>4. \A i \in T : outbox'[i] = outbox[i+1] /\ i \in Int /\ i >= 1 /\ i + 1 \in S
  BY <1>1, <1>2, <1>3, TailElements DEF AboutOut, PublishesOn
<1>5. \A j \in S : j \in Int /\ j >= 1 /\ (j = 1 \/ j - 1 \in T)
  <2>1. ASSUME NEW j \in S PROVE j \in Int /\ j >= 1 /\ (j - 1) + 1 = j
    BY <1>1, <1>3, TailElements
  <2>2. ASSUME NEW j \in S, j # 1 PROVE j - 1 \in T
    BY <1>2, <2>1, <2>2
  <2> QED
    BY <2>1, <2>2
<1>6. 1 \in S <=> Head(outbox).type = "publish" /\ Head(outbox).uri = u
  BY <1>1, TailElements DEF AboutOut, PublishesOn
<1>7. Head(outbox) = outbox[1]
  BY <1>1, TailElements
<1> HIDE DEF S, T
<1> SUFFICES ASSUME ~isOpen'[u], AboutIn(u)' = {}
             PROVE  /\ T = {} => shown'[u].diags = NoDiags
                    /\ \A i \in T : (\A j \in T : j <= i) => outbox'[i].diags = NoDiags
  BY DEF Cleared, T
<1>8. /\ S = {} => shown[u].diags = NoDiags
      /\ \A i \in S : (\A j \in S : j <= i) => outbox[i].diags = NoDiags
  BY <1>1 DEF Cleared, S
<1>9. ASSUME T = {}
      PROVE  shown'[u].diags = NoDiags
  <2>1. \A j \in S : j = 1
    BY <1>5, <1>9
  <2>2. CASE 1 \in S
    <3>1. outbox[1].diags = NoDiags
      BY <1>8, <2>1, <2>2
    <3> QED
      BY <1>6, <1>7, <2>2, <3>1 DEF Displays
  <2>3. CASE 1 \notin S
    <3>1. S = {} /\ shown'[u] = shown[u]
      BY <1>6, <2>1, <2>3 DEF Displays
    <3> QED
      BY <1>8, <3>1
  <2> QED
    BY <2>2, <2>3
<1>10. ASSUME NEW i \in T, \A j \in T : j <= i
       PROVE  outbox'[i].diags = NoDiags
  <2>1. ASSUME NEW j \in S PROVE j <= i + 1
    BY <1>4, <1>5, <1>10
  <2> QED
    BY <1>4, <1>8, <2>1
<1> QED
  BY <1>9, <1>10

LEMMA LintAndPublishEffect ==
  ASSUME TypeOK, NEW ds \in [Uris -> Doc \cup {NoDoc}], NEW v \in Uris, LintAndPublish(ds, v),
         NEW u \in Uris
  PROVE  /\ docs'[u] = NoDoc <=> ds[u] = NoDoc
         /\ u # v => docs'[u] = ds[u] /\ Silent(u)
<1>1. CASE ds[v] = NoDoc
  BY <1>1 DEF LintAndPublish, Silent
<1>2. CASE ds[v] # NoDoc
  <2>1. ds[v] \in Doc /\ ds[v].contents \in Text /\ ds[v].version \in Nat
    BY <1>2 DEF Doc
  <2> DEFINE lint == LintOf(ds[v].contents)
             e == PublishMsg(v, ds[v].version, lint)
  <2>2. lint \in Diags
    BY <2>1, LintOfType
  <2>3. e \in ServerMsg /\ e.uri = v
    BY <2>1, <2>2, MessageTypes DEF PublishMsg
  <2>4. docs' = [ds EXCEPT ![v].latest_diagnostics = lint, ![v].linted = TRUE]
    BY <1>2 DEF LintAndPublish
  <2>5. outbox' = outbox \/ outbox' = Append(outbox, e)
    BY <1>2 DEF LintAndPublish
  <2> HIDE DEF lint, e
  <2>6. docs'[v] \in Doc /\ (u # v => docs'[u] = ds[u])
    BY <2>1, <2>2, <2>4 DEF Doc
  <2>7. u # v => Silent(u)
    BY <2>3, <2>5 DEF Silent
  <2> QED
    BY <1>2, <2>6, <2>7, NoDocAssumption
<1> QED
  BY <1>1, <1>2

LEMMA ServerReads ==
  ASSUME TypeOK, ServerNext, ~LeaveLoop, NEW u \in Uris
  PROVE  Reads(u)
<1> DEFINE m == Head(inbox)
<1>1. isOpen' = isOpen /\ shown' = shown
  BY DEF ServerNext, editorVars
<1>2. docs \in [Uris -> Doc \cup {NoDoc}] /\ outbox \in Seq(ServerMsg)
  BY DEF TypeOK, ServerTypeOK
<1>3. ASSUME NEW method, Take(method)
      PROVE  m \in ClientMsg /\ m.method = method /\ inbox # <<>> /\ inbox' = Tail(inbox)
  BY <1>3, TailElements DEF Take, TypeOK, ServerTypeOK
<1>4. NoDiags \in Diags /\ 0 \in Text /\ 0 \in Nat
  BY DEF Diags, Text
\* A handler of a request leaves the registry alone, and a reply is not a publish.
<1>5. ASSUME NEW dg \in Diags, NEW t \in Text, m \in ClientMsg, m.method \in Requests, Answer(dg, t)
      PROVE  Silent(u)
  <2>1. ReplyMsg(m.id, dg, t) \in ServerMsg /\ ReplyMsg(m.id, dg, t).type = "reply"
    BY <1>5, ClientMsgFields, MessageTypes DEF ReplyMsg
  <2> QED
    BY <1>5, <2>1 DEF Answer, Silent
<1>6. ASSUME m.method \in Requests \cup {"initialized", "didChangeConfiguration", "exit"},
             inbox # <<>>, inbox' = Tail(inbox), docs' = docs, Silent(u)
      PROVE  Reads(u)
  BY <1>1, <1>6 DEF Reads, Concerns, Requests
<1>7. CASE OnInitialize
  BY <1>3, <1>4, <1>5, <1>6, <1>7 DEF OnInitialize, Requests
<1>8. CASE OnShutdown
  BY <1>3, <1>4, <1>5, <1>6, <1>8 DEF OnShutdown, Requests
<1>9. CASE OnUnknownRequest
  BY <1>3, <1>4, <1>5, <1>6, <1>9 DEF OnUnknownRequest, Requests, serverVars
<1>10. ASSUME m \in ClientMsg, m.method \in {"codeAction", "hover"}, inbox # <<>>, inbox' = Tail(inbox),
              AnswerFromView(m.uri) \/ ReplyThrows(m.uri)
       PROVE  Reads(u)
  <2>1. CASE ReplyThrows(m.uri)
    BY <1>6, <1>10, <2>1 DEF ReplyThrows, Silent, Requests
  <2>2. CASE AnswerFromView(m.uri)
    <3>1. docs[m.uri] # NoDoc => docs[m.uri].latest_diagnostics \in Diags /\ docs[m.uri].contents \in Text
      BY <1>2, <1>10, ClientMsgFields DEF Doc
    <3>2. Silent(u) /\ docs' = docs
      BY <1>4, <1>5, <1>10, <2>2, <3>1 DEF AnswerFromView, Requests, serverVars
    <3> QED
      BY <1>6, <1>10, <3>2 DEF Requests
  <2> QED
    BY <1>10, <2>1, <2>2
<1>11. CASE OnCodeAction \/ OnHover
  BY <1>3, <1>10, <1>11 DEF OnCodeAction, OnHover
<1>12. CASE OnIgnoredNotification
  <2>1. PICK method \in {"initialized", "didChangeConfiguration"} : Take(method)
    BY <1>12 DEF OnIgnoredNotification
  <2> QED
    BY <1>3, <1>6, <1>12, <2>1 DEF OnIgnoredNotification, serverVars, Silent
<1>13. CASE OnExit
  BY <1>3, <1>6, <1>13 DEF OnExit, Silent
<1>14. CASE OnDidOpen
  <2>1. m \in ClientMsg /\ m.method = "didOpen" /\ inbox # <<>> /\ inbox' = Tail(inbox)
    BY <1>3, <1>14 DEF OnDidOpen
  <2> DEFINE opened == [contents |-> m.text, version |-> m.version, latest_diagnostics |-> NoDiags, linted |-> FALSE]
             ds == [docs EXCEPT ![m.uri] = opened]
  <2>2. m.uri \in Uris /\ opened \in Doc
    BY <1>4, <2>1, ClientMsgFields DEF Doc, Text
  <2>3. LintAndPublish(ds, m.uri)
    BY <1>14 DEF OnDidOpen
  <2> HIDE DEF opened
  <2>4. ds \in [Uris -> Doc \cup {NoDoc}] /\ ds[m.uri] # NoDoc /\ (u # m.uri => ds[u] = docs[u])
    BY <1>2, <2>2, NoDocAssumption
  <2> HIDE DEF ds
  <2>5. /\ docs'[u] = NoDoc <=> ds[u] = NoDoc
        /\ u # m.uri => docs'[u] = ds[u] /\ Silent(u)
    BY <2>2, <2>3, <2>4, LintAndPublishEffect
  <2> QED
    BY <1>1, <2>1, <2>4, <2>5 DEF Reads, Concerns
<1>15. CASE OnDidChange
  <2>1. m \in ClientMsg /\ m.method = "didChange" /\ inbox # <<>> /\ inbox' = Tail(inbox)
    BY <1>3, <1>15 DEF OnDidChange
  <2>2. m.uri \in Uris /\ m.version \in Nat /\ m.changes \in Seq(Change)
    BY <2>1, ClientMsgFields
  <2>3. /\ docs'[u] = NoDoc <=> docs[u] = NoDoc
        /\ u # m.uri => docs'[u] = docs[u] /\ Silent(u)
    <3>1. CASE docs[m.uri] = NoDoc
      BY <1>15, <3>1 DEF OnDidChange, Silent
    <3>2. CASE docs[m.uri] # NoDoc
      <4>1. PICK r \in ApplyChanges(docs[m.uri], m.version, m.changes) :
              \/ docs' = [docs EXCEPT ![m.uri] = r.doc] /\ UNCHANGED outbox
              \/ LintAndPublish([docs EXCEPT ![m.uri] = r.doc], m.uri)
        BY <1>15, <3>2 DEF OnDidChange
      <4> DEFINE ds == [docs EXCEPT ![m.uri] = r.doc]
      <4>2. r.doc \in Doc
        BY <1>2, <2>2, <3>2, ApplyChangesType
      <4>3. /\ ds \in [Uris -> Doc \cup {NoDoc}]
            /\ u # m.uri => ds[u] = docs[u]
            /\ ds[u] = NoDoc <=> docs[u] = NoDoc
        BY <1>2, <2>2, <3>2, <4>2, NoDocAssumption
      <4>4. \/ docs' = ds /\ outbox' = outbox
            \/ LintAndPublish(ds, m.uri)
        BY <4>1
      <4> HIDE DEF ds
      <4>5. CASE docs' = ds /\ outbox' = outbox
        BY <4>3, <4>5 DEF Silent
      <4>6. CASE LintAndPublish(ds, m.uri)
        <5>1. /\ docs'[u] = NoDoc <=> ds[u] = NoDoc
              /\ u # m.uri => docs'[u] = ds[u] /\ Silent(u)
          BY <2>2, <4>3, <4>6, LintAndPublishEffect
        <5> QED
          BY <4>3, <5>1
      <4> QED
        BY <4>4, <4>5, <4>6
    <3> QED
      BY <3>1, <3>2
  <2> QED
    BY <1>1, <2>1, <2>3 DEF Reads, Concerns
<1>16. CASE OnDidSave
  <2>1. m \in ClientMsg /\ m.method = "didSave" /\ inbox # <<>> /\ inbox' = Tail(inbox)
    BY <1>3, <1>16 DEF OnDidSave
  <2>2. m.uri \in Uris
    BY <2>1, ClientMsgFields
  <2>3. /\ docs'[u] = NoDoc <=> docs[u] = NoDoc
        /\ u # m.uri => docs'[u] = docs[u] /\ Silent(u)
    BY <1>2, <1>16, <2>2, LintAndPublishEffect DEF OnDidSave
  <2> QED
    BY <1>1, <2>1, <2>3 DEF Reads, Concerns
<1>17. CASE OnDidClose
  <2>1. m \in ClientMsg /\ m.method = "didClose" /\ inbox # <<>> /\ inbox' = Tail(inbox)
    BY <1>3, <1>17 DEF OnDidClose
  <2> DEFINE e == PublishMsg(m.uri, 0, NoDiags)
  <2>2. m.uri \in Uris
    BY <2>1, ClientMsgFields
  <2>3. e \in ServerMsg /\ e.type = "publish" /\ e.uri = m.uri /\ e.diags = NoDiags
    BY <1>4, <2>2, MessageTypes DEF PublishMsg
  <2>4. docs' = [docs EXCEPT ![m.uri] = NoDoc] /\ outbox' = Append(outbox, e)
    BY <1>17 DEF OnDidClose
  <2> HIDE DEF e
  <2>5. /\ u = m.uri => docs'[u] = NoDoc
        /\ u # m.uri => docs'[u] = docs[u] /\ Silent(u)
    BY <1>2, <2>2, <2>3, <2>4 DEF Silent
  <2> QED
    BY <1>1, <2>1, <2>3, <2>4, <2>5 DEF Reads, Concerns
<1> QED
  BY <1>7, <1>8, <1>9, <1>11, <1>12, <1>13, <1>14, <1>15, <1>16, <1>17 DEF ServerNext, ServerStep

LEMMA UserWrites ==
  ASSUME TypeOK, UserActs, NEW u \in Uris
  PROVE  Writes(u) /\ UNCHANGED <<outbox, shown>>
<1>1. isOpen \in [Uris -> BOOLEAN] /\ text \in [Uris -> Nat] /\ version \in [Uris -> Nat]
  BY DEF TypeOK
<1>2. NextId \in Nat
  BY DEF NextId, Bounds, TypeOK
\* A message about no document.
<1>3. ASSUME NEW e \in ClientMsg, e.method \notin {"didOpen", "didChange", "didSave", "didClose"},
             inbox' = Append(inbox, e), docs' = docs, isOpen' = isOpen
      PROVE  Writes(u)
  BY <1>3 DEF Writes, Concerns
<1>4. CASE StartSession
  <2>1. PICK o \in OptionSets : inbox' = Append(inbox, [method |-> "initialize", id |-> NextId, options |-> o])
    BY <1>4 DEF StartSession, Ask, Send
  <2>2. [method |-> "initialize", id |-> NextId, options |-> o] \in ClientMsg
    BY <1>2 DEF ClientMsg
  <2> QED
    BY <1>3, <1>4, <2>1, <2>2 DEF StartSession, serverVars
<1>5. CASE AskUnknown
  <2>1. [method |-> "unknown", id |-> NextId] \in ClientMsg
    BY <1>2 DEF ClientMsg
  <2> QED
    BY <1>3, <1>5, <2>1 DEF AskUnknown, Ask, Send, serverVars
<1>6. CASE AskShutdown
  <2>1. [method |-> "shutdown", id |-> NextId] \in ClientMsg
    BY <1>2 DEF ClientMsg
  <2> QED
    BY <1>3, <1>6, <2>1 DEF AskShutdown, Ask, Send, serverVars
<1>7. CASE EditToml
  <2>1. [method |-> "didChangeConfiguration"] \in ClientMsg
    BY DEF ClientMsg
  <2> QED
    BY <1>3, <1>7, <2>1 DEF EditToml, Send, serverVars
<1>8. CASE SendExit
  <2>1. [method |-> "exit"] \in ClientMsg
    BY DEF ClientMsg
  <2> QED
    BY <1>3, <1>8, <2>1 DEF SendExit, Send, serverVars
<1>9. CASE Vanish
  BY <1>9 DEF Vanish, Writes, serverVars
<1>10. ASSUME NEW v \in Uris, OpenDoc(v)
       PROVE  Writes(u) /\ UNCHANGED <<outbox, shown>>
  <2> DEFINE e == [method |-> "didOpen", uri |-> v, version |-> 1, text |-> text[v]]
  <2>1. e \in ClientMsg
    BY <1>1 DEF ClientMsg
  <2>2. inbox' = Append(inbox, e) /\ isOpen' = [isOpen EXCEPT ![v] = TRUE] /\ ~isOpen[v]
    BY <1>10 DEF OpenDoc, Send
  <2> QED
    BY <1>1, <1>10, <2>1, <2>2 DEF OpenDoc, Writes, Concerns, serverVars
<1>11. ASSUME NEW v \in Uris, EditDoc(v)
       PROVE  Writes(u) /\ UNCHANGED <<outbox, shown>>
  <2>1. PICK batch :
          /\ batch \in Batches(v) \/ batch = WholeText(v)
          /\ Send([method |-> "didChange", uri |-> v, version |-> version[v] + 1, changes |-> batch])
    BY <1>11, Zenon DEF EditDoc
  <2> DEFINE e == [method |-> "didChange", uri |-> v, version |-> version[v] + 1, changes |-> batch]
  <2>2. batch \in Seq(Change)
    BY <2>1, BatchType, Zenon
  <2>3. version[v] + 1 \in Nat
    BY <1>1
  <2>4. e \in ClientMsg
    BY <2>2, <2>3, Zenon DEF ClientMsg
  <2>5. inbox' = Append(inbox, e) /\ isOpen' = isOpen /\ isOpen[v] /\ docs' = docs
    BY <1>11, <2>1 DEF EditDoc, Send, serverVars
  <2>6. e.method = "didChange" /\ e.uri = v
    OBVIOUS
  <2> HIDE DEF e
  <2> QED
    BY <1>1, <1>11, <2>4, <2>5, <2>6 DEF EditDoc, Writes, Concerns
<1>12. ASSUME NEW v \in Uris, SaveDoc(v)
       PROVE  Writes(u) /\ UNCHANGED <<outbox, shown>>
  <2>1. [method |-> "didSave", uri |-> v] \in ClientMsg
    BY DEF ClientMsg
  <2> QED
    BY <1>1, <1>12, <2>1 DEF SaveDoc, Send, Writes, Concerns, serverVars
<1>13. ASSUME NEW v \in Uris, CloseDoc(v)
       PROVE  Writes(u) /\ UNCHANGED <<outbox, shown>>
  <2>1. [method |-> "didClose", uri |-> v] \in ClientMsg
    BY DEF ClientMsg
  <2> QED
    BY <1>1, <1>13, <2>1 DEF CloseDoc, Send, Writes, Concerns, serverVars
<1>14. ASSUME NEW v \in Uris, AskFixes(v)
       PROVE  Writes(u) /\ UNCHANGED <<outbox, shown>>
  <2>1. PICK method \in {"codeAction", "hover"} :
          inbox' = Append(inbox, [method |-> method, id |-> NextId, uri |-> v])
    BY <1>14 DEF AskFixes, Ask, Send
  <2>2. [method |-> method, id |-> NextId, uri |-> v] \in ClientMsg
    BY <1>2 DEF ClientMsg
  <2> QED
    BY <1>3, <1>14, <2>1, <2>2 DEF AskFixes, serverVars
<1>15. StartSession \/ AskUnknown \/ EditToml \/ AskShutdown \/ SendExit \/ Vanish => UNCHANGED <<outbox, shown>>
  BY DEF StartSession, AskUnknown, EditToml, AskShutdown, SendExit, Vanish
<1> QED
  BY <1>4, <1>5, <1>6, <1>7, <1>8, <1>9, <1>10, <1>11, <1>12, <1>13, <1>14, <1>15 DEF UserActs

LEMMA EditorDisplays ==
  ASSUME TypeOK, EditorReads, NEW u \in Uris
  PROVE  Writes(u) /\ Displays(u) /\ (AboutIn(u)' = {} => AboutIn(u) = {})
<1>1. outbox # <<>> => Head(outbox) \in ServerMsg
  BY TailElements DEF TypeOK, ServerTypeOK
<1>2. inbox \in Seq(ClientMsg) /\ shown \in [Uris -> [version : Nat, diags : Diags]]
  BY DEF TypeOK, ServerTypeOK
<1>3. CASE ReadReply
  <2> DEFINE e == [method |-> "initialized"]
  <2>1. e \in ClientMsg /\ ~Concerns(e, u)
    BY DEF ClientMsg, Concerns
  <2>2. inbox' = inbox \/ inbox' = Append(inbox, e)
    BY <1>3 DEF ReadReply, Send
  <2>3. isOpen' = isOpen /\ docs' = docs /\ shown' = shown
    BY <1>3 DEF ReadReply, serverVars
  <2> HIDE DEF e
  <2>4. Writes(u)
    BY <2>1, <2>2, <2>3 DEF Writes
  <2>5. Displays(u)
    BY <1>3, <2>3 DEF ReadReply, Displays
  <2>6. \A i : i \in AboutIn(u) => i \in AboutIn(u)'
    BY <1>2, <2>1, <2>2, AppendNotes DEF AboutIn
  <2> QED
    BY <2>4, <2>5, <2>6
<1>4. CASE ReadPublish
  <2>1. outbox # <<>> /\ Head(outbox).type = "publish" /\ outbox' = Tail(outbox)
        /\ inbox' = inbox /\ isOpen' = isOpen /\ docs' = docs
    BY <1>4 DEF ReadPublish, serverVars
  <2>2. shown' = [shown EXCEPT ![Head(outbox).uri] =
                    [version |-> Head(outbox).version, diags |-> Head(outbox).diags]]
    BY <1>4 DEF ReadPublish
  <2>3. Head(outbox).uri \in Uris
    BY <1>1, <2>1, ServerMsgFields
  <2>4. Displays(u)
    BY <1>2, <2>1, <2>2, <2>3 DEF Displays
  <2> QED
    BY <2>1, <2>4 DEF Writes, AboutIn
<1> QED
  BY <1>3, <1>4 DEF EditorReads

LEMMA InvariantInit == Init => NotesFitRegistry /\ OpenSetAgrees
<1> SUFFICES ASSUME Init, NEW u \in Uris PROVE Agrees(u) /\ Cleared(u)
  BY InvariantByDocument
<1>1. AboutIn(u) = {} /\ AboutOut(u) = {}
  BY DEF Init, ServerInit, AboutIn, AboutOut, NotesOn, PublishesOn
<1> QED
  BY <1>1 DEF Init, ServerInit, Agrees, Cleared

LEMMA InvariantStep ==
  ASSUME TypeOK, TypeOK', NotesFitRegistry, OpenSetAgrees, [Next]_vars
  PROVE  NotesFitRegistry' /\ OpenSetAgrees'
<1> SUFFICES ASSUME NEW u \in Uris PROVE Agrees(u)' /\ Cleared(u)'
  BY DEF Agrees, Cleared, NotesFitRegistry, OpenSetAgrees, LastNoteDecides, LastPublishClears,
         FirstNoteFits, NotesAlternate
<1>1. Agrees(u) /\ Cleared(u)
  BY InvariantByDocument
<1>2. CASE UNCHANGED <<docs, inbox, outbox, isOpen, shown>>
  BY <1>1, <1>2 DEF Agrees, Cleared, AboutIn, AboutOut
<1>3. CASE UNCHANGED vars
  BY <1>2, <1>3 DEF vars, serverVars, wireVars, editorVars
<1>4. CASE ServerNext /\ LeaveLoop
  BY <1>2, <1>4 DEF ServerNext, LeaveLoop, wireVars, editorVars
<1>5. CASE ServerNext /\ ~LeaveLoop
  BY <1>1, <1>5, ServerReads, ReadsKeepsAgrees, ReadsKeepsCleared
<1>6. CASE EditorReads
  BY <1>1, <1>6, EditorDisplays, WritesKeepsAgrees, DisplaysKeepsCleared
<1>7. CASE UserActs
  BY <1>1, <1>7, UserWrites, WritesKeepsAgrees, WritesKeepsCleared
<1> QED
  BY <1>3, <1>4, <1>5, <1>6, <1>7 DEF Next

\* Handlers always meet the registry in the state they expect (find() in on_did_change,
\* on_did_save and on_did_close succeeds; open() overwrites nothing).
THEOREM HandlersMeetTheirDocument == Spec => []NotesFitRegistry
<1>1. TypeOK /\ NotesFitRegistry /\ OpenSetAgrees /\ [Next]_vars
        => (TypeOK /\ NotesFitRegistry /\ OpenSetAgrees)'
  BY TypeStep, InvariantStep
<1> QED
  BY <1>1, TypeInit, InvariantInit, PTL DEF Spec

\* With nothing about a document in the pipe, the server has it exactly when the editor has.
THEOREM RegistryHasOpenDocuments == Spec => []OpenSetAgrees
<1>1. TypeOK /\ NotesFitRegistry /\ OpenSetAgrees /\ [Next]_vars
        => (TypeOK /\ NotesFitRegistry /\ OpenSetAgrees)'
  BY TypeStep, InvariantStep
<1> QED
  BY <1>1, TypeInit, InvariantInit, PTL DEF Spec

\* No diagnostics of a closed document stay on display once the pipes are drained: the
\* empty publish of on_did_close is the last one, whatever was linted before it.
THEOREM ClosedDocumentsAreCleared == Spec => []ClosedMeansCleared
<1>1. NotesFitRegistry => ClosedMeansCleared
  BY DEF NotesFitRegistry, LastPublishClears, ClosedMeansCleared
<1> QED
  BY <1>1, HandlersMeetTheirDocument, PTL

-----------------------------------------------------------------------------
(* One reply for each request, in their order *)

\* No id is given twice: those in use are smaller than the next.
Under(a, n) == \A i \in DOMAIN a : a[i] < n
IdsAreOld == Under(awaiting, used["requests"])

ReplyInv == OneReplyInOrder /\ IdsAreOld

LEMMA TailIds ==
  ASSUME NEW S, NEW q \in Seq(S), q # <<>>
  PROVE  /\ \A i \in Int : i \in RequestsIn(Tail(q)) <=> i >= 1 /\ i + 1 \in RequestsIn(q)
         /\ \A i \in Int : i \in RepliesIn(Tail(q)) <=> i >= 1 /\ i + 1 \in RepliesIn(q)
         /\ \A i \in 1..(Len(q) - 1) : Tail(q)[i] = q[i+1]
         /\ Len(q) \in Nat \ {0} /\ DOMAIN q = 1..Len(q)
  BY TailElements DEF RequestsIn, RepliesIn

LEMMA AppendIds ==
  ASSUME NEW S, NEW q \in Seq(S), NEW e \in S
  PROVE  /\ \A i : i \in RequestsIn(Append(q, e)) <=>
                     i \in RequestsIn(q) \/ (i = Len(q) + 1 /\ e.method \in Requests)
         /\ \A i : i \in RepliesIn(Append(q, e)) <=>
                     i \in RepliesIn(q) \/ (i = Len(q) + 1 /\ e.type = "reply")
         /\ \A i \in 1..Len(q) : Append(q, e)[i] = q[i]
         /\ Append(q, e)[Len(q) + 1] = e
         /\ Len(q) \in Nat /\ DOMAIN q = 1..Len(q)
  BY AppendElements DEF RequestsIn, RepliesIn

LEMMA IdsAreNaturals ==
  ASSUME TypeOK
  PROVE  /\ inbox \in Seq(ClientMsg) /\ outbox \in Seq(ServerMsg) /\ awaiting \in Seq(Nat)
         /\ \A i \in RequestsIn(inbox) : i \in 1..Len(inbox) /\ inbox[i].id \in Nat
         /\ \A i \in RepliesIn(outbox) : i \in 1..Len(outbox) /\ outbox[i].id \in Nat
         /\ \A i \in DOMAIN awaiting : awaiting[i] \in Nat
         /\ used["requests"] \in Nat
<1>1. inbox \in Seq(ClientMsg) /\ outbox \in Seq(ServerMsg) /\ awaiting \in Seq(Nat)
      /\ used \in [Bounds -> Nat]
  BY DEF TypeOK, ServerTypeOK
<1> QED
  BY <1>1, ClientMsgFields, ServerMsgFields DEF RequestsIn, RepliesIn, Bounds

\* Sequences of ascending ids: a larger one at the end, one taken out.
LEMMA AppendId ==
  ASSUME NEW a \in Seq(Nat), NEW n \in Nat, Under(a, n)
  PROVE  /\ Under(Append(a, n), n + 1)
         /\ Ids(Append(a, n)) = Ids(a) \cup {n}
         /\ Rises(a) => Rises(Append(a, n))
<1> DEFINE b == Append(a, n)
           l == Len(a) + 1
<1>1. /\ l \in Nat /\ DOMAIN b = DOMAIN a \cup {l} /\ b[l] = n
      /\ \A i \in DOMAIN a : b[i] = a[i] /\ i \in Nat /\ i < l /\ a[i] \in Nat
  BY AppendElements
<1> HIDE DEF b, l
<1>2. Under(b, n + 1)
  BY <1>1 DEF Under
<1>3. Ids(b) = Ids(a) \cup {n}
  BY <1>1 DEF Ids
<1>4. Rises(a) => Rises(b)
  BY <1>1 DEF Rises, Under
<1> QED
  BY <1>2, <1>3, <1>4 DEF b

LEMMA RemovePositions ==
  ASSUME NEW a \in Seq(Nat), NEW k \in 1..Len(a)
  PROVE  /\ Len(SubSeq(a, 1, k-1) \o SubSeq(a, k+1, Len(a))) = Len(a) - 1
         /\ \A i \in 1..(k-1) : (SubSeq(a, 1, k-1) \o SubSeq(a, k+1, Len(a)))[i] = a[i]
         /\ \A i \in k..(Len(a)-1) : (SubSeq(a, 1, k-1) \o SubSeq(a, k+1, Len(a)))[i] = a[i+1]
<1> DEFINE l == Len(a)
           p == SubSeq(a, 1, k-1)
           q == SubSeq(a, k+1, l)
<1>1. l \in Nat /\ k \in Nat /\ 1 <= k /\ k <= l
  OBVIOUS
<1>2. p \in Seq(Nat) /\ Len(p) = k - 1 /\ \A i \in 1..(k-1) : p[i] = a[i]
  BY <1>1
<1>3. q \in Seq(Nat) /\ Len(q) = l - k /\ \A i \in 1..(l-k) : q[i] = a[k+i]
  BY <1>1
<1> HIDE DEF p, q, l
<1>4. /\ Len(p \o q) = Len(p) + Len(q)
      /\ \A i \in 1..Len(p) : (p \o q)[i] = p[i]
      /\ \A i \in 1..Len(q) : (p \o q)[Len(p) + i] = q[i]
  <2>1. Len(p) \in Nat /\ Len(q) \in Nat
    BY <1>2, <1>3
  <2>2. /\ Len(p \o q) = Len(p) + Len(q)
        /\ \A i \in 1..(Len(p) + Len(q)) :
             (p \o q)[i] = IF i <= Len(p) THEN p[i] ELSE q[i - Len(p)]
    BY <1>2, <1>3, ConcatProperties
  <2>3. ASSUME NEW i \in 1..Len(q) PROVE (p \o q)[Len(p) + i] = q[i]
    <3>1. Len(p) + i \in 1..(Len(p) + Len(q)) /\ ~(Len(p) + i <= Len(p)) /\ (Len(p) + i) - Len(p) = i
      BY <2>1
    <3> QED
      BY <2>2, <3>1
  <2>4. \A i \in 1..Len(p) : (p \o q)[i] = p[i]
    BY <2>1, <2>2
  <2> QED
    BY <2>2, <2>3, <2>4
<1>5. Len(p \o q) = l - 1
  BY <1>1, <1>2, <1>3, <1>4
<1>6. \A i \in 1..(k-1) : (p \o q)[i] = a[i]
  BY <1>2, <1>4
<1>7. ASSUME NEW i \in k..(l-1) PROVE (p \o q)[i] = a[i+1]
  <2> DEFINE j == i - (k - 1)
  <2>1. j \in 1..Len(q) /\ Len(p) + j = i /\ k + j = i + 1
    BY <1>1, <1>2, <1>3
  <2> HIDE DEF j
  <2> QED
    BY <1>3, <1>4, <2>1
<1> QED
  BY <1>5, <1>6, <1>7 DEF p, q, l

\* b is a without its k-th element.
CutAt(a, b, k) ==
  \E l \in Nat :
    /\ k \in 1..l /\ DOMAIN a = 1..l /\ DOMAIN b = 1..(l-1)
    /\ \A i \in 1..l : a[i] \in Nat
    /\ \A i \in 1..(k-1) : b[i] = a[i]
    /\ \A i \in k..(l-1) : b[i] = a[i+1]

LEMMA CutOfSeq ==
  ASSUME NEW a \in Seq(Nat), NEW k \in 1..Len(a)
  PROVE  CutAt(a, SubSeq(a, 1, k-1) \o SubSeq(a, k+1, Len(a)), k)
<1> DEFINE b == SubSeq(a, 1, k-1) \o SubSeq(a, k+1, Len(a))
           l == Len(a)
<1>1. Len(b) = l - 1 /\ \A i \in 1..(k-1) : b[i] = a[i]
  BY RemovePositions
<1>2. \A i \in k..(l-1) : b[i] = a[i+1]
  BY RemovePositions
<1>3. DOMAIN b = 1..Len(b)
  BY RemoveElement
<1>4. l \in Nat /\ DOMAIN a = 1..l /\ \A i \in 1..l : a[i] \in Nat
  OBVIOUS
<1> HIDE DEF b
<1>5. k \in 1..l /\ DOMAIN b = 1..(l-1)
  BY <1>1, <1>3
<1> HIDE DEF l
<1> QED
  BY <1>1, <1>2, <1>4, <1>5 DEF CutAt, b

LEMMA CutId ==
  ASSUME NEW a, NEW b, NEW k, NEW n \in Nat, CutAt(a, b, k)
  PROVE  /\ Under(a, n) => Under(b, n)
         /\ Rises(a) => Rises(b) /\ Ids(b) = Ids(a) \ {a[k]}
<1>1. PICK l \in Nat :
        /\ k \in 1..l /\ DOMAIN a = 1..l /\ DOMAIN b = 1..(l-1)
        /\ \A i \in 1..l : a[i] \in Nat
        /\ \A i \in 1..(k-1) : b[i] = a[i]
        /\ \A i \in k..(l-1) : b[i] = a[i+1]
  BY DEF CutAt
<1> DEFINE at(i) == IF i < k THEN i ELSE i + 1
<1>2. \A i \in DOMAIN b : at(i) \in DOMAIN a /\ at(i) # k /\ b[i] = a[at(i)]
  BY <1>1
<1>3. \A i, j \in DOMAIN b : i < j => at(i) < at(j)
  BY <1>1
<1>4. ASSUME NEW j \in DOMAIN a, j # k PROVE \E i \in DOMAIN b : at(i) = j
  <2>1. CASE j < k
    <3>1. j \in DOMAIN b /\ at(j) = j
      BY <1>1, <2>1
    <3> QED
      BY <3>1
  <2>2. CASE j > k
    <3>1. j - 1 \in DOMAIN b /\ at(j - 1) = j
      BY <1>1, <2>2
    <3> QED
      BY <3>1
  <2> QED
    BY <1>1, <1>4, <2>1, <2>2
<1> HIDE DEF at
<1>5. Under(a, n) => Under(b, n)
  BY <1>2 DEF Under
<1>6. Rises(a) => Rises(b)
  BY <1>2, <1>3 DEF Rises
<1>7. ASSUME Rises(a) PROVE Ids(b) = Ids(a) \ {a[k]}
  <2>1. ASSUME NEW j \in DOMAIN a, j # k PROVE a[j] # a[k]
    <3>1. (j < k \/ k < j) /\ a[j] \in Nat /\ a[k] \in Nat /\ k \in DOMAIN a
      BY <1>1, <2>1
    <3>2. a[j] < a[k] \/ a[k] < a[j]
      BY <1>7, <3>1 DEF Rises
    <3> QED
      BY <3>1, <3>2
  <2>2. ASSUME NEW i \in DOMAIN b PROVE b[i] \in Ids(a) /\ b[i] # a[k]
    BY <1>2, <2>1 DEF Ids
  <2>3. ASSUME NEW j \in DOMAIN a, a[j] # a[k] PROVE a[j] \in Ids(b)
    <3>1. PICK i \in DOMAIN b : at(i) = j
      BY <1>4, <2>3
    <3> QED
      BY <1>2, <3>1 DEF Ids
  <2>4. Ids(b) \subseteq Ids(a) \ {a[k]}
    BY <2>2 DEF Ids
  <2>5. Ids(a) \ {a[k]} \subseteq Ids(b)
    BY <2>3 DEF Ids
  <2> QED
    BY <2>4, <2>5
<1> QED
  BY <1>5, <1>6, <1>7

\* A handler that reads a request answers it; no other writes a reply.
AnswersHead ==
  /\ inbox # <<>> /\ inbox' = Tail(inbox)
  /\ \/ /\ Head(inbox).method \in Requests
        /\ \E r \in ServerMsg : /\ r.type = "reply" /\ r.id = Head(inbox).id
                                /\ outbox' = Append(outbox, r)
     \/ /\ Head(inbox).method \notin Requests
        /\ \/ outbox' = outbox
           \/ \E p \in ServerMsg : p.type = "publish" /\ outbox' = Append(outbox, p)

LEMMA LintPublishes ==
  ASSUME TypeOK, NEW ds \in [Uris -> Doc \cup {NoDoc}], NEW u \in Uris, LintAndPublish(ds, u)
  PROVE  \/ outbox' = outbox
         \/ \E p \in ServerMsg : p.type = "publish" /\ outbox' = Append(outbox, p)
<1>1. CASE ds[u] = NoDoc
  BY <1>1 DEF LintAndPublish
<1>2. CASE ds[u] # NoDoc
  <2>1. ds[u] \in Doc /\ ds[u].contents \in Text /\ ds[u].version \in Nat
    BY <1>2 DEF Doc
  <2> DEFINE e == PublishMsg(u, ds[u].version, LintOf(ds[u].contents))
  <2>2. e \in ServerMsg
    BY <2>1, LintOfType, MessageTypes
  <2>3. e.type = "publish"
    BY DEF PublishMsg
  <2>4. outbox' = outbox \/ outbox' = Append(outbox, e)
    BY <1>2 DEF LintAndPublish
  <2> HIDE DEF e
  <2> QED
    BY <2>2, <2>3, <2>4
<1> QED
  BY <1>1, <1>2

LEMMA ServerAnswers ==
  ASSUME TypeOK, ServerStep, status' = "running"
  PROVE  AnswersHead
<1> DEFINE m == Head(inbox)
<1>1. docs \in [Uris -> Doc \cup {NoDoc}]
  BY DEF TypeOK, ServerTypeOK
<1>2. ASSUME NEW method, Take(method)
      PROVE  m \in ClientMsg /\ m.method = method /\ inbox # <<>> /\ inbox' = Tail(inbox)
  BY <1>2, TailElements DEF Take, TypeOK, ServerTypeOK
<1>3. NoDiags \in Diags /\ 0 \in Text /\ 0 \in Nat
  BY DEF Diags, Text
<1>4. ASSUME NEW method \in Requests, Take(method), NEW dg \in Diags, NEW t \in Text, Answer(dg, t)
      PROVE  AnswersHead
  <2>1. m.id \in Nat /\ m.method \in Requests /\ inbox # <<>> /\ inbox' = Tail(inbox)
    BY <1>2, <1>4, ClientMsgFields
  <2> DEFINE r == ReplyMsg(m.id, dg, t)
  <2>2. r \in ServerMsg
    BY <1>4, <2>1, MessageTypes
  <2>3. r.type = "reply" /\ r.id = m.id
    BY DEF ReplyMsg
  <2>4. outbox' = Append(outbox, r)
    BY <1>4 DEF Answer
  <2> HIDE DEF r
  <2> QED
    BY <2>1, <2>2, <2>3, <2>4 DEF AnswersHead
<1>5. CASE OnInitialize
  BY <1>3, <1>4, <1>5 DEF OnInitialize, Requests
<1>6. CASE OnShutdown
  BY <1>3, <1>4, <1>6 DEF OnShutdown, Requests
<1>7. CASE OnUnknownRequest
  BY <1>3, <1>4, <1>7 DEF OnUnknownRequest, Requests
<1>8. CASE OnCodeAction \/ OnHover
  <2>1. PICK method \in {"codeAction", "hover"} :
          Take(method) /\ (AnswerFromView(m.uri) \/ ReplyThrows(m.uri))
    BY <1>8 DEF OnCodeAction, OnHover
  <2>2. m \in ClientMsg /\ m.method = method /\ m.uri \in Uris
    BY <1>2, <2>1, ClientMsgFields
  <2>3. docs[m.uri] # NoDoc =>
          docs[m.uri].latest_diagnostics \in Diags /\ docs[m.uri].contents \in Text
    BY <1>1, <2>2 DEF Doc
  <2>4. AnswerFromView(m.uri)
    BY <2>1 DEF ReplyThrows
  <2>5. method \in Requests
    BY <2>1 DEF Requests
  <2> QED
    BY <1>3, <1>4, <2>1, <2>3, <2>4, <2>5 DEF AnswerFromView
<1>9. CASE OnIgnoredNotification \/ OnExit
  <2>1. PICK method \in {"initialized", "didChangeConfiguration", "exit"} : Take(method)
    BY <1>9 DEF OnIgnoredNotification, OnExit
  <2>2. outbox' = outbox
    BY <1>9 DEF OnIgnoredNotification, OnExit
  <2>3. method \notin Requests
    BY <2>1 DEF Requests
  <2> QED
    BY <1>2, <2>1, <2>2, <2>3 DEF AnswersHead
<1>10. ASSUME NEW method \in {"didOpen", "didChange", "didSave", "didClose"}, Take(method),
              \/ outbox' = outbox
              \/ \E p \in ServerMsg : p.type = "publish" /\ outbox' = Append(outbox, p)
       PROVE  AnswersHead
  BY <1>2, <1>10 DEF AnswersHead, Requests
<1>11. CASE OnDidOpen
  <2>1. m \in ClientMsg /\ m.method = "didOpen"
    BY <1>2, <1>11 DEF OnDidOpen
  <2> DEFINE opened == [contents |-> m.text, version |-> m.version,
                        latest_diagnostics |-> NoDiags, linted |-> FALSE]
             ds == [docs EXCEPT ![m.uri] = opened]
  <2>2. m.uri \in Uris /\ opened \in Doc
    BY <1>3, <2>1, ClientMsgFields DEF Doc, Text
  <2>3. LintAndPublish(ds, m.uri) /\ Take("didOpen")
    BY <1>11 DEF OnDidOpen
  <2> HIDE DEF opened
  <2>4. ds \in [Uris -> Doc \cup {NoDoc}]
    BY <1>1, <2>2
  <2> HIDE DEF ds
  <2> QED
    BY <1>10, <2>2, <2>3, <2>4, LintPublishes
<1>12. CASE OnDidChange
  <2>1. m \in ClientMsg /\ m.method = "didChange" /\ Take("didChange")
    BY <1>2, <1>12 DEF OnDidChange
  <2>2. m.uri \in Uris /\ m.version \in Nat /\ m.changes \in Seq(Change)
    BY <2>1, ClientMsgFields
  <2>3. CASE docs[m.uri] = NoDoc
    BY <1>10, <1>12, <2>1, <2>3 DEF OnDidChange
  <2>4. CASE docs[m.uri] # NoDoc
    <3>1. PICK r \in ApplyChanges(docs[m.uri], m.version, m.changes) :
            outbox' = outbox \/ LintAndPublish([docs EXCEPT ![m.uri] = r.doc], m.uri)
      BY <1>12, <2>4 DEF OnDidChange
    <3> DEFINE ds == [docs EXCEPT ![m.uri] = r.doc]
    <3>2. r.doc \in Doc
      BY <1>1, <2>2, <2>4, ApplyChangesType
    <3>3. ds \in [Uris -> Doc \cup {NoDoc}] /\ (outbox' = outbox \/ LintAndPublish(ds, m.uri))
      BY <1>1, <2>2, <3>1, <3>2
    <3> HIDE DEF ds
    <3> QED
      BY <1>10, <2>1, <2>2, <3>3, LintPublishes
  <2> QED
    BY <2>3, <2>4
<1>13. CASE OnDidSave
  <2>1. m \in ClientMsg /\ m.method = "didSave" /\ Take("didSave") /\ LintAndPublish(docs, m.uri)
    BY <1>2, <1>13 DEF OnDidSave
  <2> QED
    BY <1>1, <1>10, <2>1, ClientMsgFields, LintPublishes
<1>14. CASE OnDidClose
  <2>1. m \in ClientMsg /\ m.method = "didClose" /\ Take("didClose")
    BY <1>2, <1>14 DEF OnDidClose
  <2> DEFINE e == PublishMsg(m.uri, 0, NoDiags)
  <2>2. e \in ServerMsg /\ e.type = "publish"
    BY <1>3, <2>1, ClientMsgFields, MessageTypes DEF PublishMsg
  <2>3. outbox' = Append(outbox, e)
    BY <1>14 DEF OnDidClose
  <2> HIDE DEF e
  <2> QED
    BY <1>10, <2>1, <2>2, <2>3
<1>15. ~LeaveLoop
  BY DEF LeaveLoop
<1> QED
  BY <1>5, <1>6, <1>7, <1>8, <1>9, <1>11, <1>12, <1>13, <1>14, <1>15 DEF ServerStep

\* Reading a request and answering it moves its id from one pipe to the other.
LEMMA AnswersKeepReplyInv ==
  ASSUME TypeOK, ReplyInv, status = "running", AnswersHead, UNCHANGED <<awaiting, used>>
  PROVE  ReplyInv'
<1> DEFINE RQ == RequestsIn(inbox)
           RP == RepliesIn(outbox)
<1>1. /\ Ids(awaiting) = IdsAt(outbox, RP) \cup IdsAt(inbox, RQ)
      /\ Rises(awaiting)
      /\ \A i, j \in RP : i < j => outbox[i].id < outbox[j].id
      /\ \A i, j \in RQ : i < j => inbox[i].id < inbox[j].id
      /\ \A i \in RP, j \in RQ : outbox[i].id < inbox[j].id
  BY DEF ReplyInv, OneReplyInOrder, Ascends
<1>2. /\ inbox # <<>> /\ inbox' = Tail(inbox) /\ Head(inbox) = inbox[1]
      /\ Len(inbox) \in Nat \ {0} /\ DOMAIN inbox = 1..Len(inbox)
      /\ \A i \in Int : i \in RequestsIn(inbox') <=> i >= 1 /\ i + 1 \in RQ
      /\ \A i \in 1..(Len(inbox) - 1) : inbox'[i] = inbox[i+1]
      /\ \A i \in RQ : i \in 1..Len(inbox) /\ inbox[i].id \in Nat
      /\ \A i \in RequestsIn(inbox') : i \in Int /\ i \in 1..(Len(inbox) - 1)
      /\ 1 \in RQ <=> Head(inbox).method \in Requests
  <2>1. inbox \in Seq(ClientMsg) /\ inbox # <<>> /\ inbox' = Tail(inbox)
    BY IdsAreNaturals DEF AnswersHead
  <2>2. Tail(inbox) \in Seq(ClientMsg) /\ Len(Tail(inbox)) = Len(inbox) - 1 /\ Head(inbox) = inbox[1]
        /\ Len(inbox) \in Nat \ {0}
    BY <2>1, TailElements
  <2>3. \A i \in RequestsIn(inbox') : i \in 1..(Len(inbox) - 1)
    BY <2>1, <2>2 DEF RequestsIn
  <2>4. 1 \in RQ <=> Head(inbox).method \in Requests
    BY <2>1, <2>2 DEF RequestsIn
  <2> QED
    BY <2>1, <2>2, <2>3, <2>4, TailIds, IdsAreNaturals
<1>3. \A i \in RP : i \in 1..Len(outbox) /\ outbox[i].id \in Nat
  BY IdsAreNaturals
<1>4. CASE 1 \in RQ
  <2>1. PICK r \in ServerMsg : r.type = "reply" /\ r.id = inbox[1].id /\ outbox' = Append(outbox, r)
    BY <1>2, <1>4 DEF AnswersHead
  <2>2. /\ \A i : i \in RepliesIn(outbox') <=> i \in RP \/ i = Len(outbox) + 1
        /\ \A i \in 1..Len(outbox) : outbox'[i] = outbox[i]
        /\ outbox'[Len(outbox) + 1] = r /\ Len(outbox) \in Nat
    BY <2>1, AppendIds, IdsAreNaturals
  <2>3. IdsAt(outbox', RepliesIn(outbox')) = IdsAt(outbox, RP) \cup {inbox[1].id}
    BY <1>3, <2>1, <2>2 DEF IdsAt
  <2>4. IdsAt(inbox, RQ) = IdsAt(inbox', RequestsIn(inbox')) \cup {inbox[1].id}
    <3>1. \A i \in RequestsIn(inbox') : i + 1 \in RQ /\ inbox'[i] = inbox[i+1]
      BY <1>2
    <3>2. \A i \in RQ : i = 1 \/ (i - 1 \in RequestsIn(inbox') /\ inbox'[i-1] = inbox[i])
      BY <1>2
    <3> QED
      BY <1>4, <3>1, <3>2 DEF IdsAt
  <2>5. Ascends(inbox', RequestsIn(inbox'))
    BY <1>1, <1>2 DEF Ascends
  <2>6. Ascends(outbox', RepliesIn(outbox'))
    BY <1>1, <1>3, <1>4, <2>1, <2>2 DEF Ascends
  <2>7. \A i \in RepliesIn(outbox'), j \in RequestsIn(inbox') : outbox'[i].id < inbox'[j].id
    <3> SUFFICES ASSUME NEW i \in RepliesIn(outbox'), NEW j \in RequestsIn(inbox')
                 PROVE  outbox'[i].id < inbox'[j].id
      OBVIOUS
    <3>1. j + 1 \in RQ /\ 1 < j + 1 /\ inbox'[j] = inbox[j+1]
      BY <1>2
    <3>2. CASE i \in RP
      BY <1>1, <1>3, <2>2, <3>1, <3>2
    <3>3. CASE i = Len(outbox) + 1
      BY <1>1, <1>4, <2>1, <2>2, <3>1, <3>3
    <3> QED
      BY <2>2, <3>2, <3>3
  <2> QED
    BY <1>1, <2>3, <2>4, <2>5, <2>6, <2>7 DEF ReplyInv, OneReplyInOrder, IdsAreOld
<1>5. CASE 1 \notin RQ
  <2>1. /\ RepliesIn(outbox') = RP
        /\ \A i \in RP : outbox'[i] = outbox[i]
    <3>1. CASE outbox' = outbox
      BY <3>1
    <3>2. CASE \E p \in ServerMsg : p.type = "publish" /\ outbox' = Append(outbox, p)
      <4>1. PICK p \in ServerMsg : p.type = "publish" /\ outbox' = Append(outbox, p)
        BY <3>2
      <4>2. outbox \in Seq(ServerMsg)
        BY IdsAreNaturals
      <4>3. \A i : i \in RepliesIn(outbox') <=> i \in RP
        BY <4>1, <4>2, AppendIds
      <4>4. \A i \in 1..Len(outbox) : outbox'[i] = outbox[i]
        BY <4>1, <4>2, AppendIds
      <4> QED
        BY <1>3, <4>3, <4>4
    <3> QED
      BY <1>2, <1>5, <3>1, <3>2 DEF AnswersHead
  <2>2. IdsAt(outbox', RepliesIn(outbox')) = IdsAt(outbox, RP)
    BY <2>1 DEF IdsAt
  <2>3. IdsAt(inbox, RQ) = IdsAt(inbox', RequestsIn(inbox'))
    <3>1. \A i \in RequestsIn(inbox') : i + 1 \in RQ /\ inbox'[i] = inbox[i+1]
      BY <1>2
    <3>2. \A i \in RQ : i - 1 \in RequestsIn(inbox') /\ inbox'[i-1] = inbox[i]
      BY <1>2, <1>5
    <3> QED
      BY <3>1, <3>2 DEF IdsAt
  <2>4. Ascends(inbox', RequestsIn(inbox'))
    BY <1>1, <1>2 DEF Ascends
  <2>5. Ascends(outbox', RepliesIn(outbox'))
    BY <1>1, <2>1 DEF Ascends
  <2>6. \A i \in RepliesIn(outbox'), j \in RequestsIn(inbox') : outbox'[i].id < inbox'[j].id
    BY <1>1, <1>2, <2>1
  <2> QED
    BY <1>1, <2>2, <2>3, <2>4, <2>5, <2>6 DEF ReplyInv, OneReplyInOrder, IdsAreOld
<1> QED
  BY <1>4, <1>5

\* The editor writes at most one message; a request is a new id in both places.
Asks ==
  /\ outbox' = outbox /\ status' = status
  /\ \/ /\ awaiting' = awaiting /\ used'["requests"] = used["requests"]
        /\ \/ inbox' = inbox
           \/ \E e \in ClientMsg : e.method \notin Requests /\ inbox' = Append(inbox, e)
     \/ \E e \in ClientMsg :
          /\ e.method \in Requests /\ e.id = used["requests"]
          /\ inbox' = Append(inbox, e)
          /\ awaiting' = Append(awaiting, e.id)
          /\ used'["requests"] = used["requests"] + 1

LEMMA UserAsks ==
  ASSUME TypeOK, UserActs
  PROVE  Asks
<1>1. /\ text \in [Uris -> Nat] /\ version \in [Uris -> Nat]
      /\ used \in [Bounds -> Nat] /\ used["requests"] \in Nat
  BY IdsAreNaturals DEF TypeOK
<1>2. ASSUME NEW e \in ClientMsg, e.method \in Requests, e.id = NextId, Ask(e),
             outbox' = outbox, status' = status
      PROVE  Asks
  BY <1>1, <1>2 DEF Asks, Ask, Spend, Send, NextId, Bounds
<1>3. ASSUME NEW e \in ClientMsg, e.method \notin Requests, Send(e),
             outbox' = outbox, status' = status, awaiting' = awaiting,
             used'["requests"] = used["requests"]
      PROVE  Asks
  BY <1>3 DEF Asks, Send
<1>4. ASSUME NEW what \in {"opens", "saves", "tomls"}, NEW bound, Spend(what, bound)
      PROVE  used'["requests"] = used["requests"]
  BY <1>1, <1>4 DEF Spend, Bounds
<1>5. NextId \in Nat
  BY <1>1 DEF NextId
<1>6. CASE StartSession
  <2>1. PICK o \in OptionSets : Ask([method |-> "initialize", id |-> NextId, options |-> o])
    BY <1>6 DEF StartSession
  <2>2. [method |-> "initialize", id |-> NextId, options |-> o] \in ClientMsg
    BY <1>5 DEF ClientMsg
  <2> QED
    BY <1>2, <1>6, <2>1, <2>2 DEF StartSession, serverVars, Requests
<1>7. CASE AskUnknown
  <2>1. [method |-> "unknown", id |-> NextId] \in ClientMsg
    BY <1>5 DEF ClientMsg
  <2> QED
    BY <1>2, <1>7, <2>1 DEF AskUnknown, serverVars, Requests
<1>8. CASE AskShutdown
  <2>1. [method |-> "shutdown", id |-> NextId] \in ClientMsg
    BY <1>5 DEF ClientMsg
  <2> QED
    BY <1>2, <1>8, <2>1 DEF AskShutdown, serverVars, Requests
<1>9. ASSUME NEW u \in Uris, AskFixes(u) PROVE Asks
  <2>1. PICK method \in {"codeAction", "hover"} :
          Ask([method |-> method, id |-> NextId, uri |-> u])
    BY <1>9 DEF AskFixes
  <2>2. [method |-> method, id |-> NextId, uri |-> u] \in ClientMsg
    BY <1>5, <2>1 DEF ClientMsg
  <2> QED
    BY <1>2, <1>9, <2>1, <2>2 DEF AskFixes, serverVars, Requests
<1>10. CASE EditToml
  <2>1. [method |-> "didChangeConfiguration"] \in ClientMsg
    BY DEF ClientMsg
  <2> QED
    BY <1>3, <1>4, <1>10, <2>1 DEF EditToml, serverVars, Requests
<1>11. CASE SendExit
  <2>1. [method |-> "exit"] \in ClientMsg
    BY DEF ClientMsg
  <2> QED
    BY <1>3, <1>11, <2>1 DEF SendExit, serverVars, Requests
<1>12. CASE Vanish
  BY <1>12 DEF Vanish, Asks, serverVars
<1>13. ASSUME NEW u \in Uris, OpenDoc(u) PROVE Asks
  <2>1. [method |-> "didOpen", uri |-> u, version |-> 1, text |-> text[u]] \in ClientMsg
    BY <1>1 DEF ClientMsg
  <2> QED
    BY <1>3, <1>4, <1>13, <2>1 DEF OpenDoc, serverVars, Requests
<1>14. ASSUME NEW u \in Uris, EditDoc(u) PROVE Asks
  <2>1. PICK batch \in Batches(u) \cup (IF "full" \in Fits THEN {WholeText(u)} ELSE {}) :
          Send([method |-> "didChange", uri |-> u, version |-> version[u] + 1, changes |-> batch])
    BY <1>14 DEF EditDoc
  <2>2. batch \in Seq(Change)
    BY <2>1, BatchType
  <2> DEFINE e == [method |-> "didChange", uri |-> u, version |-> version[u] + 1, changes |-> batch]
  <2>3. e \in ClientMsg /\ e.method \notin Requests
    BY <1>1, <2>2 DEF ClientMsg, Requests
  <2> HIDE DEF e
  <2> QED
    BY <1>3, <1>14, <2>1, <2>3 DEF EditDoc, serverVars, e
<1>15. ASSUME NEW u \in Uris, SaveDoc(u) PROVE Asks
  <2>1. [method |-> "didSave", uri |-> u] \in ClientMsg
    BY DEF ClientMsg
  <2> QED
    BY <1>3, <1>4, <1>15, <2>1 DEF SaveDoc, serverVars, Requests
<1>16. ASSUME NEW u \in Uris, CloseDoc(u) PROVE Asks
  <2>1. [method |-> "didClose", uri |-> u] \in ClientMsg
    BY DEF ClientMsg
  <2> QED
    BY <1>3, <1>16, <2>1 DEF CloseDoc, serverVars, Requests
<1> QED
  BY <1>6, <1>7, <1>8, <1>9, <1>10, <1>11, <1>12, <1>13, <1>14, <1>15, <1>16 DEF UserActs

\* What is written to stdin keeps the invariant.
LEMMA WritingKeepsReplyInv ==
  ASSUME TypeOK, ReplyInv, Asks
  PROVE  ReplyInv'
<1> DEFINE RQ == RequestsIn(inbox)
           RP == RepliesIn(outbox)
<1>1. status = "running" =>
      /\ Ids(awaiting) = IdsAt(outbox, RP) \cup IdsAt(inbox, RQ)
      /\ Rises(awaiting)
      /\ \A i, j \in RP : i < j => outbox[i].id < outbox[j].id
      /\ \A i, j \in RQ : i < j => inbox[i].id < inbox[j].id
      /\ \A i \in RP, j \in RQ : outbox[i].id < inbox[j].id
  BY DEF ReplyInv, OneReplyInOrder, Ascends
<1>2. CASE awaiting' = awaiting /\ used'["requests"] = used["requests"] /\ inbox' = inbox
  BY <1>2 DEF Asks, ReplyInv, OneReplyInOrder, IdsAreOld
<1>3. ASSUME NEW e \in ClientMsg, inbox' = Append(inbox, e)
      PROVE  /\ \A i : i \in RequestsIn(inbox') <=>
                         i \in RQ \/ (i = Len(inbox) + 1 /\ e.method \in Requests)
             /\ \A i \in RQ : inbox'[i] = inbox[i] /\ i \in Int /\ i <= Len(inbox)
             /\ inbox'[Len(inbox) + 1] = e /\ Len(inbox) \in Nat
  <2>1. inbox \in Seq(ClientMsg) /\ \A i \in RQ : i \in 1..Len(inbox)
    BY IdsAreNaturals
  <2> QED
    BY <1>3, <2>1, AppendIds
<1>4. ASSUME NEW e \in ClientMsg, e.method \notin Requests, inbox' = Append(inbox, e),
             awaiting' = awaiting, used'["requests"] = used["requests"]
      PROVE  ReplyInv'
  <2>1. RequestsIn(inbox') = RQ /\ \A i \in RQ : inbox'[i] = inbox[i]
    BY <1>3, <1>4
  <2>2. IdsAt(inbox', RequestsIn(inbox')) = IdsAt(inbox, RQ)
    BY <2>1 DEF IdsAt
  <2>3. outbox' = outbox /\ status' = status
    BY DEF Asks
  <2> QED
    BY <1>1, <1>4, <2>1, <2>2, <2>3 DEF ReplyInv, OneReplyInOrder, IdsAreOld, Ascends
<1>5. ASSUME NEW e \in ClientMsg, e.method \in Requests, e.id = used["requests"],
             inbox' = Append(inbox, e), awaiting' = Append(awaiting, e.id),
             used'["requests"] = used["requests"] + 1
      PROVE  ReplyInv'
  <2> DEFINE n == Len(inbox) + 1
             next == used["requests"]
  <2>1. /\ RequestsIn(inbox') = RQ \cup {n} /\ \A i \in RQ : inbox'[i] = inbox[i] /\ i < n
        /\ inbox'[n].id = next /\ n \in Int
    <3>1. /\ \A i : i \in RequestsIn(inbox') <=> i \in RQ \/ i = n
          /\ \A i \in RQ : inbox'[i] = inbox[i] /\ i \in Int /\ i <= Len(inbox)
          /\ inbox'[n] = e /\ Len(inbox) \in Nat
      BY <1>3, <1>5
    <3>2. n \in Int /\ \A i \in RQ : i < n
      BY <3>1
    <3> HIDE DEF RQ, n
    <3>3. RequestsIn(inbox') = RQ \cup {n}
      BY <3>1
    <3> QED
      BY <1>5, <3>1, <3>2, <3>3
  <2>2. Under(awaiting, next)
    BY DEF ReplyInv, IdsAreOld
  <2>3. /\ Under(awaiting', next + 1)
        /\ Ids(awaiting') = Ids(awaiting) \cup {next}
        /\ Rises(awaiting) => Rises(awaiting')
    <3>1. awaiting \in Seq(Nat) /\ next \in Nat /\ awaiting' = Append(awaiting, next)
      BY <1>5, IdsAreNaturals
    <3> HIDE DEF next
    <3> QED
      BY <2>2, <3>1, AppendId
  <2>5. IdsAreOld'
    BY <1>5, <2>3 DEF IdsAreOld
  <2>6. ASSUME status = "running" PROVE OneReplyInOrder'
    <3>1. IdsAt(inbox', RequestsIn(inbox')) = IdsAt(inbox, RQ) \cup {next}
      BY <2>1 DEF IdsAt
    <3>4. \A i \in RQ : inbox[i].id < next
      <4> SUFFICES ASSUME NEW i \in RQ PROVE inbox[i].id < next
        OBVIOUS
      <4>1. inbox[i].id \in Ids(awaiting)
        BY <1>1, <2>6 DEF IdsAt
      <4> QED
        BY <2>2, <4>1 DEF Ids, Under
    <3>5. \A i \in RP : outbox[i].id < next
      <4> SUFFICES ASSUME NEW i \in RP PROVE outbox[i].id < next
        OBVIOUS
      <4>1. outbox[i].id \in Ids(awaiting)
        BY <1>1, <2>6 DEF IdsAt
      <4> QED
        BY <2>2, <4>1 DEF Ids, Under
    <3>6. Ascends(inbox', RequestsIn(inbox'))
      <4> SUFFICES ASSUME NEW i \in RequestsIn(inbox'), NEW j \in RequestsIn(inbox'), i < j
                   PROVE  inbox'[i].id < inbox'[j].id
        BY DEF Ascends
      <4>1. i \in RQ
        <5>1. (i \in RQ \/ i = n) /\ (j \in RQ \/ j = n)
          BY <2>1
        <5>2. n \in Int /\ (j \in RQ => j \in Int /\ j < n)
          BY <2>1, IdsAreNaturals
        <5> HIDE DEF n, RQ
        <5> QED
          BY <5>1, <5>2
      <4>2. CASE j \in RQ
        BY <1>1, <2>1, <2>6, <4>1, <4>2
      <4>3. CASE j = n
        BY <2>1, <3>4, <4>1, <4>3
      <4> QED
        BY <2>1, <4>2, <4>3
    <3>7. \A i \in RP, j \in RequestsIn(inbox') : outbox[i].id < inbox'[j].id
      BY <1>1, <2>1, <2>6, <3>5
    <3>8. outbox' = outbox
      BY DEF Asks
    <3> QED
      BY <1>1, <2>3, <2>6, <3>1, <3>6, <3>7, <3>8 DEF OneReplyInOrder, Ascends
  <2>7. status # "running" => OneReplyInOrder'
    BY DEF Asks, OneReplyInOrder
  <2> QED
    BY <2>5, <2>6, <2>7 DEF ReplyInv
<1> QED
  BY <1>2, <1>4, <1>5 DEF Asks

\* The editor takes a reply off the pipe and the id off its list.
LEMMA ReadingKeepsReplyInv ==
  ASSUME TypeOK, ReplyInv, outbox # <<>>, outbox' = Tail(outbox),
         RequestsIn(inbox') = RequestsIn(inbox),
         \A i \in RequestsIn(inbox) : inbox'[i] = inbox[i],
         status' = status, used' = used,
         IF Head(outbox).type = "reply" THEN Settle(Head(outbox).id) ELSE awaiting' = awaiting
  PROVE  ReplyInv'
<1> DEFINE RQ == RequestsIn(inbox)
           RP == RepliesIn(outbox)
           id == outbox[1].id
<1>1. status = "running" =>
      /\ Ids(awaiting) = IdsAt(outbox, RP) \cup IdsAt(inbox, RQ)
      /\ Rises(awaiting)
      /\ \A i, j \in RP : i < j => outbox[i].id < outbox[j].id
      /\ \A i, j \in RQ : i < j => inbox[i].id < inbox[j].id
      /\ \A i \in RP, j \in RQ : outbox[i].id < inbox[j].id
  BY DEF ReplyInv, OneReplyInOrder, Ascends
<1>2. /\ Head(outbox) = outbox[1] /\ Len(outbox) \in Nat \ {0}
      /\ \A i \in RepliesIn(outbox') : i \in 1..(Len(outbox) - 1)
      /\ 1 \in RP <=> Head(outbox).type = "reply"
  <2>1. Tail(outbox) \in Seq(ServerMsg) /\ Len(Tail(outbox)) = Len(outbox) - 1
        /\ Head(outbox) = outbox[1] /\ Len(outbox) \in Nat \ {0}
    BY IdsAreNaturals, TailElements
  <2> QED
    BY <2>1 DEF RepliesIn
<1>3. /\ \A i \in Int : i \in RepliesIn(outbox') <=> i >= 1 /\ i + 1 \in RP
      /\ \A i \in 1..(Len(outbox) - 1) : outbox'[i] = outbox[i+1]
  BY IdsAreNaturals, TailIds
<1>4. /\ \A i \in RepliesIn(outbox') : i + 1 \in RP /\ outbox'[i] = outbox[i+1]
      /\ \A i \in RP : i = 1 \/ (i - 1 \in RepliesIn(outbox') /\ outbox'[i-1] = outbox[i])
  <2>1. \A i \in RepliesIn(outbox') : i + 1 \in RP /\ outbox'[i] = outbox[i+1]
    BY <1>2, <1>3
  <2>2. ASSUME NEW i \in RP, i # 1
        PROVE  i - 1 \in RepliesIn(outbox') /\ outbox'[i-1] = outbox[i]
    <3>1. i \in 1..Len(outbox)
      BY IdsAreNaturals
    <3>2. i - 1 \in Int /\ i - 1 >= 1 /\ (i - 1) + 1 = i /\ i - 1 \in 1..(Len(outbox) - 1)
      BY <1>2, <2>2, <3>1
    <3> HIDE DEF RP
    <3>3. i - 1 \in RepliesIn(outbox')
      BY <1>3, <2>2, <3>2
    <3>4. outbox'[i-1] = outbox[(i-1)+1]
      BY <1>3, <3>2
    <3> QED
      BY <3>2, <3>3, <3>4
  <2> QED
    BY <2>1, <2>2
<1>8. /\ IdsAt(inbox', RequestsIn(inbox')) = IdsAt(inbox, RQ)
      /\ status = "running" => Ascends(inbox', RequestsIn(inbox'))
  BY <1>1 DEF IdsAt, Ascends
<1>5. status = "running" =>
      /\ Ascends(outbox', RepliesIn(outbox'))
      /\ \A i \in RepliesIn(outbox'), j \in RequestsIn(inbox') : outbox'[i].id < inbox'[j].id
  BY <1>1, <1>2, <1>4 DEF Ascends
<1>6. CASE 1 \notin RP
  <2>1. IdsAt(outbox', RepliesIn(outbox')) = IdsAt(outbox, RP)
    <3>1. \A i \in RP : i - 1 \in RepliesIn(outbox') /\ outbox'[i-1] = outbox[i]
      BY <1>4, <1>6
    <3>2. \A i \in RepliesIn(outbox') : i + 1 \in RP /\ outbox'[i] = outbox[i+1]
      BY <1>4
    <3> HIDE DEF RP
    <3>3. IdsAt(outbox, RP) \subseteq IdsAt(outbox', RepliesIn(outbox'))
      BY <3>1 DEF IdsAt
    <3>4. ASSUME NEW i \in RepliesIn(outbox') PROVE outbox'[i].id \in IdsAt(outbox, RP)
      <4>1. outbox'[i].id = outbox[i+1].id
        BY <3>2
      <4>2. outbox[i+1].id \in IdsAt(outbox, RP)
        BY <3>2 DEF IdsAt
      <4> QED
        BY <4>1, <4>2, Zenon
    <3>5. IdsAt(outbox', RepliesIn(outbox')) \subseteq IdsAt(outbox, RP)
      BY <3>4 DEF IdsAt
    <3> QED
      BY <3>3, <3>5
  <2>2. awaiting' = awaiting
    BY <1>2, <1>6
  <2> QED
    BY <1>1, <1>5, <1>8, <2>1, <2>2 DEF ReplyInv, OneReplyInOrder, IdsAreOld, Ascends
<1>7. CASE 1 \in RP
  <2>1. Settle(id)
    BY <1>2, <1>7
  <2>2. CASE awaiting' = awaiting /\ \A i \in DOMAIN awaiting : awaiting[i] # id
    <3>1. status # "running"
      BY <1>1, <1>7, <2>2 DEF IdsAt, Ids
    <3> QED
      BY <2>2, <3>1 DEF ReplyInv, OneReplyInOrder, IdsAreOld
  <2>3. ASSUME NEW k \in DOMAIN awaiting, awaiting[k] = id,
               awaiting' = SubSeq(awaiting, 1, k-1) \o SubSeq(awaiting, k+1, Len(awaiting))
        PROVE  ReplyInv'
    <3>1. /\ Under(awaiting, used["requests"]) => Under(awaiting', used["requests"])
          /\ Rises(awaiting) =>
               Rises(awaiting') /\ Ids(awaiting') = Ids(awaiting) \ {awaiting[k]}
      <4>1. awaiting \in Seq(Nat) /\ used["requests"] \in Nat
        BY IdsAreNaturals
      <4>2. k \in 1..Len(awaiting)
        BY <4>1
      <4>3. CutAt(awaiting, awaiting', k)
        BY <2>3, <4>1, <4>2, CutOfSeq
      <4> QED
        BY <4>1, <4>3, CutId
    <3>2. IdsAreOld'
      BY <3>1 DEF ReplyInv, IdsAreOld
    <3>3. ASSUME status = "running" PROVE OneReplyInOrder'
      <4>1. Rises(awaiting')
        BY <1>1, <3>1, <3>3
      <4>2. Ids(awaiting') = Ids(awaiting) \ {id}
        BY <1>1, <2>3, <3>1, <3>3
      <4>3. IdsAt(outbox', RepliesIn(outbox')) = IdsAt(outbox, RP) \ {id}
        <5>1. \A i \in RepliesIn(outbox') : outbox'[i].id \in IdsAt(outbox, RP) /\ outbox'[i].id # id
          <6> SUFFICES ASSUME NEW i \in RepliesIn(outbox')
                       PROVE  outbox'[i].id \in IdsAt(outbox, RP) /\ outbox'[i].id # id
            OBVIOUS
          <6>1. i + 1 \in RP /\ 1 < i + 1 /\ outbox'[i] = outbox[i+1]
            BY <1>2, <1>4
          <6>4. outbox'[i].id = outbox[i+1].id
            BY <6>1
          <6>2. id < outbox[i+1].id /\ id \in Nat /\ outbox[i+1].id \in Nat
            BY <1>1, <1>7, <3>3, <6>1, IdsAreNaturals
          <6> HIDE DEF id, RP
          <6>3. outbox[i+1].id \in IdsAt(outbox, RP)
            BY <6>1 DEF IdsAt
          <6>5. outbox[i+1].id # id
            BY <6>2
          <6> QED
            BY <6>3, <6>4, <6>5, Zenon
        <5>2. \A i \in RP : outbox[i].id = id \/ outbox[i].id \in IdsAt(outbox', RepliesIn(outbox'))
          BY <1>4 DEF IdsAt
        <5> HIDE DEF RP, id
        <5>3. IdsAt(outbox', RepliesIn(outbox')) \subseteq IdsAt(outbox, RP) \ {id}
          <6> SUFFICES ASSUME NEW x \in IdsAt(outbox', RepliesIn(outbox'))
                       PROVE  x \in IdsAt(outbox, RP) \ {id}
            OBVIOUS
          <6>1. PICK i \in RepliesIn(outbox') : x = outbox'[i].id
            BY DEF IdsAt
          <6> QED
            BY <5>1, <6>1
        <5>4. IdsAt(outbox, RP) \ {id} \subseteq IdsAt(outbox', RepliesIn(outbox'))
          BY <5>2 DEF IdsAt
        <5> QED
          BY <5>3, <5>4
      <4>4. id \notin IdsAt(inbox, RQ)
        <5>1. \A j \in RQ : id < inbox[j].id /\ id \in Nat
          BY <1>1, <1>7, <3>3, IdsAreNaturals
        <5> QED
          BY <5>1 DEF IdsAt
      <4>5. Ids(awaiting') = IdsAt(outbox', RepliesIn(outbox')) \cup IdsAt(inbox, RQ)
        BY <1>1, <3>3, <4>2, <4>3, <4>4
      <4> QED
        BY <1>5, <1>8, <3>3, <4>1, <4>5 DEF OneReplyInOrder
    <3> QED
      BY <3>2, <3>3 DEF ReplyInv, OneReplyInOrder
  <2> QED
    BY <2>1, <2>2, <2>3 DEF Settle
<1> QED
  BY <1>6, <1>7

LEMMA ReplyInvInit == Init => ReplyInv
<1> SUFFICES ASSUME Init PROVE ReplyInv
  OBVIOUS
<1>1. inbox = <<>> /\ outbox = <<>> /\ awaiting = <<>>
  BY DEF Init, ServerInit
<1>2. RequestsIn(inbox) = {} /\ RepliesIn(outbox) = {} /\ DOMAIN awaiting = {}
  BY <1>1 DEF RequestsIn, RepliesIn
<1>3. Ids(awaiting) = {} /\ IdsAt(inbox, RequestsIn(inbox)) = {} /\ IdsAt(outbox, RepliesIn(outbox)) = {}
  BY <1>2 DEF Ids, IdsAt
<1> QED
  BY <1>2, <1>3 DEF ReplyInv, OneReplyInOrder, IdsAreOld, Under, Rises, Ascends

LEMMA ReplyInvStep ==
  ASSUME TypeOK, ReplyInv, [Next]_vars
  PROVE  ReplyInv'
<1>1. CASE UNCHANGED vars
  BY <1>1 DEF vars, serverVars, wireVars, editorVars, ReplyInv, OneReplyInOrder, IdsAreOld
<1>2. CASE ServerNext
  <2>1. UNCHANGED <<awaiting, used>> /\ ServerStep
    BY <1>2 DEF ServerNext, editorVars
  <2>2. CASE status' = "running"
    <3>1. AnswersHead
      BY <2>1, <2>2, ServerAnswers
    <3>2. status = "running"
      BY <2>1 DEF ServerStep, OnInitialize, OnShutdown, OnUnknownRequest, OnCodeAction, OnHover,
                  OnIgnoredNotification, OnDidOpen, OnDidChange, OnDidSave, OnDidClose, OnExit,
                  LeaveLoop, Take, Running
    <3> QED
      BY <2>1, <3>1, <3>2, AnswersKeepReplyInv
  <2>3. CASE status' # "running"
    BY <2>1, <2>3 DEF ReplyInv, OneReplyInOrder, IdsAreOld
  <2> QED
    BY <2>2, <2>3
<1>3. CASE ReadReply
  <2>1. /\ outbox # <<>> /\ outbox' = Tail(outbox) /\ status' = status /\ used' = used
        /\ Head(outbox).type = "reply" /\ Settle(Head(outbox).id)
    BY <1>3 DEF ReadReply, serverVars
  <2> DEFINE e == [method |-> "initialized"]
  <2>2. inbox' = inbox \/ inbox' = Append(inbox, e)
    BY <1>3 DEF ReadReply, Send
  <2>3. e \in ClientMsg /\ e.method \notin Requests
    BY DEF ClientMsg, Requests
  <2>4. inbox \in Seq(ClientMsg) /\ \A i \in RequestsIn(inbox) : i \in 1..Len(inbox)
    BY IdsAreNaturals
  <2> HIDE DEF e
  <2>5. /\ RequestsIn(inbox') = RequestsIn(inbox)
        /\ \A i \in RequestsIn(inbox) : inbox'[i] = inbox[i]
    <3>1. CASE inbox' = inbox
      BY <3>1
    <3>2. CASE inbox' = Append(inbox, e)
      <4>1. \A i : i \in RequestsIn(inbox') <=> i \in RequestsIn(inbox)
        BY <2>3, <2>4, <3>2, AppendIds
      <4>2. \A i \in 1..Len(inbox) : inbox'[i] = inbox[i]
        BY <2>3, <2>4, <3>2, AppendIds
      <4> QED
        BY <2>4, <4>1, <4>2
    <3> QED
      BY <2>2, <3>1, <3>2
  <2> QED
    BY <2>1, <2>5, ReadingKeepsReplyInv
<1>4. CASE ReadPublish
  <2>1. /\ outbox # <<>> /\ outbox' = Tail(outbox) /\ status' = status /\ used' = used
        /\ Head(outbox).type # "reply" /\ awaiting' = awaiting /\ inbox' = inbox
    BY <1>4 DEF ReadPublish, serverVars
  <2> QED
    BY <2>1, ReadingKeepsReplyInv
<1>5. CASE UserActs
  BY <1>5, UserAsks, WritingKeepsReplyInv
<1> QED
  BY <1>1, <1>2, <1>3, <1>4, <1>5 DEF Next, EditorReads

\* handle_request answers every request once and in the order of the requests, whatever the
\* handlers publish in between: the ids awaited are those of the replies on their way and
\* then those of the requests not read yet.
THEOREM RepliesComeInOrder == Spec => []OneReplyInOrder
<1>1. TypeOK /\ ReplyInv /\ [Next]_vars => (TypeOK /\ ReplyInv)'
  BY TypeStep, ReplyInvStep
<1>2. ReplyInv => OneReplyInOrder
  BY DEF ReplyInv
<1> QED
  BY <1>1, <1>2, TypeInit, ReplyInvInit, PTL DEF Spec
=============================================================================
