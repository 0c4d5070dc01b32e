----------------------------- MODULE LspSession -----------------------------
(***************************************************************************)
(* An editor and the language server joined by the two pipes.  The editor  *)
(* is external: it is modelled from the notifications the server registers *)
(* for and the capabilities it advertises (open/close and save with        *)
(* incremental changes), and it follows the protocol: it waits for the     *)
(* initialize reply, numbers the versions of a document, and sends changes *)
(* and saves for open documents only.                                      *)
(***************************************************************************)
EXTENDS LspServer

CONSTANTS
  MaxText,     \* bound: texts the editor gives a document
  MaxBatch,    \* bound: content changes in one didChange
  MaxOpens,    \* bound: didOpen notifications
  MaxRequests, \* bound: requests
  MaxSaves,    \* bound: didSave notifications
  MaxTomlEdits, \* bound: times .shader-clippy.toml changes
  MaxActs,     \* bound: opens, requests, saves and .toml changes together
  MaxUnread,   \* bound: messages in the two pipes when the user does the next thing
  Fits,        \* the kinds of change the editor makes, a subset of Fit
  CanLeave     \* whether the editor may send exit early or vanish

ASSUME BoundsAssumption == MaxBatch \in Nat
ASSUME FitsAssumption == Fits \subseteq Fit

VARIABLES
  phase,    \* "start", "initializing", "ready", "closing", "gone"
  isOpen,   \* documents the editor has open
  text,     \* the editor's text of each document
  version,  \* its version of each document
  shown,    \* the diagnostics on display, with the version they came with
  awaiting, \* ids of the requests without an answer, oldest first
  used,     \* what has been spent of the bounds
  synced,   \* every range sent since the last whole text was exact
  settled   \* neither the document nor the .toml changed since its last open or save

editorVars == <<phase, isOpen, text, version, shown, awaiting, used, synced, settled>>
vars == <<serverVars, toml, wireVars, editorVars>>

Bounds == {"opens", "requests", "saves", "tomls"}

Spend(what, bound) ==
  /\ used[what] < bound
  /\ used["opens"] + used["requests"] + used["saves"] + used["tomls"] < MaxActs
  /\ used' = [used EXCEPT ![what] = @ + 1]

Send(m) == inbox' = Append(inbox, m)

Ask(m) == /\ Spend("requests", MaxRequests)
          /\ Send(m)
          /\ awaiting' = Append(awaiting, m.id)

NextId == used["requests"]

\* The request with this id, if there is one, is no longer waited for.
Settle(id) ==
  \/ \E i \in DOMAIN awaiting :
       /\ awaiting[i] = id
       /\ awaiting' = SubSeq(awaiting, 1, i-1) \o SubSeq(awaiting, i+1, Len(awaiting))
  \/ /\ \A i \in DOMAIN awaiting : awaiting[i] # id
     /\ UNCHANGED awaiting

-----------------------------------------------------------------------------
(* The editor *)

StartSession ==
  /\ phase = "start"
  /\ \E o \in OptionSets : Ask([method |-> "initialize", id |-> NextId, options |-> o])
  /\ phase' = "initializing"
  /\ UNCHANGED <<serverVars, toml, eof, outbox, isOpen, text, version, shown, synced, settled>>

OpenDoc(u) ==
  /\ phase = "ready" /\ ~isOpen[u]
  /\ Spend("opens", MaxOpens)
  /\ Send([method |-> "didOpen", uri |-> u, version |-> 1, text |-> text[u]])
  /\ isOpen' = [isOpen EXCEPT ![u] = TRUE]
  /\ version' = [version EXCEPT ![u] = 1]
  /\ synced' = [synced EXCEPT ![u] = TRUE]
  /\ settled' = [settled EXCEPT ![u] = TRUE]
  /\ UNCHANGED <<serverVars, toml, eof, outbox, phase, text, shown, awaiting>>

\* A batch is a whole text, or ranges each made for the text the one before it left.
RangeBatch(u, fits) ==
  [i \in DOMAIN fits |-> [fit |-> fits[i], from |-> text[u] + i - 1, to |-> text[u] + i]]

Batches(u) ==
  UNION {{RangeBatch(u, fits) : fits \in [1..n -> Fits \ {"full"}]} : n \in 1..MaxBatch}

WholeText(u) == <<[fit |-> "full", from |-> text[u], to |-> text[u] + 1]>>

EditDoc(u) ==
  /\ phase = "ready" /\ isOpen[u]
  /\ \E batch \in Batches(u) \cup (IF "full" \in Fits THEN {WholeText(u)} ELSE {}) :
       /\ text[u] + Len(batch) <= MaxText
       /\ Send([method |-> "didChange", uri |-> u, version |-> version[u] + 1, changes |-> batch])
       /\ text' = [text EXCEPT ![u] = @ + Len(batch)]
       /\ synced' = [synced EXCEPT ![u] =
            batch[1].fit = "full" \/ (@ /\ \A i \in DOMAIN batch : batch[i].fit = "exact")]
  /\ version' = [version EXCEPT ![u] = @ + 1]
  /\ settled' = [settled EXCEPT ![u] = FALSE]
  /\ UNCHANGED <<serverVars, toml, eof, outbox, phase, isOpen, shown, awaiting, used>>

SaveDoc(u) ==
  /\ phase = "ready" /\ isOpen[u]
  /\ Spend("saves", MaxSaves)
  /\ Send([method |-> "didSave", uri |-> u])
  /\ settled' = [settled EXCEPT ![u] = TRUE]
  /\ UNCHANGED <<serverVars, toml, eof, outbox, phase, isOpen, text, version, shown, awaiting, synced>>

CloseDoc(u) ==
  /\ phase = "ready" /\ isOpen[u]
  /\ Send([method |-> "didClose", uri |-> u])
  /\ isOpen' = [isOpen EXCEPT ![u] = FALSE]
  /\ settled' = [settled EXCEPT ![u] = FALSE]
  /\ UNCHANGED <<serverVars, toml, eof, outbox, phase, text, version, shown, awaiting, used, synced>>

AskFixes(u) ==
  /\ phase = "ready" /\ isOpen[u]
  /\ \E method \in {"codeAction", "hover"} : Ask([method |-> method, id |-> NextId, uri |-> u])
  /\ UNCHANGED <<serverVars, toml, eof, outbox, phase, isOpen, text, version, shown, synced, settled>>

AskUnknown ==
  /\ phase = "ready"
  /\ Ask([method |-> "unknown", id |-> NextId])
  /\ UNCHANGED <<serverVars, toml, eof, outbox, phase, isOpen, text, version, shown, synced, settled>>

\* Someone edits the .toml on disk; the watcher's notification follows.
EditToml ==
  /\ phase = "ready"
  /\ Spend("tomls", MaxTomlEdits)
  /\ toml' \in TomlStates \ {toml}
  /\ Send([method |-> "didChangeConfiguration"])
  /\ settled' = [u \in Uris |-> FALSE]
  /\ UNCHANGED <<serverVars, eof, outbox, phase, isOpen, text, version, shown, awaiting, synced>>

AskShutdown ==
  /\ phase = "ready"
  /\ Ask([method |-> "shutdown", id |-> NextId])
  /\ phase' = "closing"
  /\ UNCHANGED <<serverVars, toml, eof, outbox, isOpen, text, version, shown, synced, settled>>

\* After the shutdown reply, or at once from an editor that skips it.
SendExit ==
  /\ \/ phase = "closing" /\ awaiting = <<>>
     \/ phase = "ready" /\ CanLeave
  /\ Send([method |-> "exit"])
  /\ phase' = "gone"
  /\ UNCHANGED <<serverVars, toml, eof, outbox, isOpen, text, version, shown, awaiting, used, synced, settled>>

Vanish ==
  /\ CanLeave /\ ~eof
  /\ eof' = TRUE
  /\ phase' = "gone"
  /\ UNCHANGED <<serverVars, toml, inbox, outbox, isOpen, text, version, shown, awaiting, used, synced, settled>>

\* The first reply is initialize's: the editor then sends `initialized`.
ReadReply ==
  /\ outbox # <<>> /\ Head(outbox).type = "reply"
  /\ outbox' = Tail(outbox)
  /\ Settle(Head(outbox).id)
  /\ IF phase = "initializing"
       THEN phase' = "ready" /\ Send([method |-> "initialized"])
       ELSE UNCHANGED <<phase, inbox>>
  /\ UNCHANGED <<serverVars, toml, eof, isOpen, text, version, shown, used, synced, settled>>

ReadPublish ==
  /\ outbox # <<>> /\ Head(outbox).type = "publish"
  /\ outbox' = Tail(outbox)
  /\ shown' = [shown EXCEPT ![Head(outbox).uri] =
       [version |-> Head(outbox).version, diags |-> Head(outbox).diags]]
  /\ UNCHANGED <<serverVars, toml, inbox, eof, phase, isOpen, text, version, awaiting, used, synced, settled>>

-----------------------------------------------------------------------------

Init ==
  /\ ServerInit
  /\ phase = "start"
  /\ isOpen = [u \in Uris |-> FALSE]
  /\ text = [u \in Uris |-> 0]
  /\ version = [u \in Uris |-> 0]
  /\ shown = [u \in Uris |-> [version |-> 0, diags |-> NoDiags]]
  /\ awaiting = <<>>
  /\ used = [b \in Bounds |-> 0]
  /\ synced = [u \in Uris |-> TRUE]
  /\ settled = [u \in Uris |-> FALSE]

ServerNext == ServerStep /\ UNCHANGED editorVars

InFlight == Len(inbox) + Len(outbox)

EditorReads == ReadReply \/ ReadPublish

UserActs ==
  \/ StartSession \/ AskUnknown \/ EditToml \/ AskShutdown \/ SendExit \/ Vanish
  \/ \E u \in Uris : OpenDoc(u) \/ EditDoc(u) \/ SaveDoc(u) \/ CloseDoc(u) \/ AskFixes(u)

Next == ServerNext \/ EditorReads \/ (InFlight < MaxUnread /\ UserActs)

Spec == Init /\ [][Next]_vars

\* The server's loop blocks on stdin only and the editor drains its pipe; no user
\* is obliged to do anything.
FairSpec == Spec /\ WF_vars(ServerNext) /\ WF_vars(EditorReads)

-----------------------------------------------------------------------------
(* Properties *)

\* One type invariant for the editor, the pipes and the server.
TypeOK ==
  /\ ServerTypeOK
  /\ phase \in {"start", "initializing", "ready", "closing", "gone"}
  /\ isOpen \in [Uris -> BOOLEAN]
  /\ text \in [Uris -> Nat]
  /\ version \in [Uris -> Nat]
  /\ shown \in [Uris -> [version : Nat, diags : Diags]]
  /\ awaiting \in Seq(Nat)
  /\ used \in [Bounds -> Nat]
  /\ synced \in [Uris -> BOOLEAN]
  /\ settled \in [Uris -> BOOLEAN]

RequestsIn(q) == {i \in DOMAIN q : q[i].method \in Requests}
RepliesIn(q) == {i \in DOMAIN q : q[i].type = "reply"}
IdsAt(q, positions) == {q[i].id : i \in positions}
Ids(a) == {a[i] : i \in DOMAIN a}
Rises(a) == \A i, j \in DOMAIN a : i < j => a[i] < a[j]
Ascends(q, positions) == \A i, j \in positions : i < j => q[i].id < q[j].id

\* Every request gets one reply, and replies come in the order of the requests
\* (dispatcher.cpp handle_request: each path returns a non-empty string).  Ids ascend, so
\* while the server runs the ids awaited are those of the replies on their way followed by
\* those of the requests not read yet: none twice, none missing, none overtaken.
OneReplyInOrder ==
  LET replies == RepliesIn(outbox)
      requests == RequestsIn(inbox)
  IN status = "running" =>
       /\ Ids(awaiting) = IdsAt(outbox, replies) \cup IdsAt(inbox, requests)
       /\ Rises(awaiting)
       /\ Ascends(outbox, replies) /\ Ascends(inbox, requests)
       /\ \A i \in replies, j \in requests : outbox[i].id < inbox[j].id

\* The notifications still to be read about a document, in each direction.
Concerns(m, u) == m.method \in {"didOpen", "didChange", "didSave", "didClose"} /\ m.uri = u
NotesOn(q, u) == {i \in DOMAIN q : Concerns(q[i], u)}
PublishesOn(q, u) == {i \in DOMAIN q : q[i].type = "publish" /\ q[i].uri = u}
AboutIn(u)  == NotesOn(inbox, u)
AboutOut(u) == PublishesOn(outbox, u)

\* on_did_close pushes an empty list because "clients keep the last-published
\* diagnostics until the server clears them": once the pipes hold nothing more about a
\* closed document, none of its diagnostics is on display.
ClosedMeansCleared ==
  \A u \in Uris : ~isOpen[u] /\ AboutIn(u) = {} /\ AboutOut(u) = {} => shown[u].diags = NoDiags

\* The registry follows the editor: with nothing about a document left to read, the
\* server has it registered exactly when the editor has it open (open, close and find).
OpenSetAgrees == \A u \in Uris : AboutIn(u) = {} => (isOpen[u] <=> docs[u] # NoDoc)

\* And, if all its changes were exact, it has the editor's text under the editor's version
\* (apply_changes over batches).
RegistryFollows ==
  \A u \in Uris : AboutIn(u) = {} /\ isOpen[u] /\ synced[u] =>
    docs[u].contents = text[u] /\ docs[u].version = version[u]

\* What an open or a save promises (on_did_open, on_did_save): with the pipes drained and
\* nothing changed since, the diagnostics on display are those of the editor's text, under
\* the configuration on disk and the options of initialize.
SavedIsFresh ==
  \A u \in Uris :
    isOpen[u] /\ settled[u] /\ synced[u] /\ AboutIn(u) = {} /\ AboutOut(u) = {} =>
      shown[u] = [version |-> version[u], diags |-> LintOf(text[u])]

\* A publish names the version of the text it was computed from (lint_and_publish reads
\* doc->version and doc->contents together): once the editor shows a version of the
\* document it is editing, the text behind it is never newer, and the newest version
\* shows the newest text.
VersionNamesText ==
  \A u \in Uris :
    isOpen[u] /\ synced[u] /\ AboutIn(u) = {} /\ AboutOut(u) = {} /\ shown[u].version = version[u]
      => shown[u].diags.text = text[u]

\* What code actions and hovers are computed from is what the editor shows (view_for
\* against the publishes): with no publish on its way, a registered document holds the
\* list that is on display, whatever edits, saves, closes and opens are queued behind it,
\* unless that list is of a scrambled text, whose publish may have thrown.
FixesFitTheDisplay ==
  \A u \in Uris :
    LET list == docs[u].latest_diagnostics
    IN docs[u] # NoDoc /\ AboutOut(u) = {} =>
         shown[u].diags = list \/ (list # NoDiags /\ list.text = Scrambled)

\* The inductive invariant behind ClosedMeansCleared and OpenSetAgrees, in four parts.
\* The last notification in the pipe says whether the editor has the document open.
LastNoteDecides == \A u \in Uris : \A i \in AboutIn(u) :
  (\A j \in AboutIn(u) : j <= i) => (inbox[i].method = "didClose" <=> ~isOpen[u])

\* Once none is left for a closed document, the last publish about it is the clearing one.
LastPublishClears == \A u \in Uris : ~isOpen[u] /\ AboutIn(u) = {} =>
  /\ AboutOut(u) = {} => shown[u].diags = NoDiags
  /\ \A i \in AboutOut(u) : (\A j \in AboutOut(u) : j <= i) => outbox[i].diags = NoDiags

\* A didOpen is the next notification exactly for a document that is not registered ...
FirstNoteFits == \A u \in Uris : \A i \in AboutIn(u) :
  (\A j \in AboutIn(u) : i <= j) => (inbox[i].method = "didOpen" <=> docs[u] = NoDoc)

\* ... and follows exactly a didClose.
NotesAlternate == \A u \in Uris : \A i, j \in AboutIn(u) :
  i < j /\ (\A k \in AboutIn(u) : k <= i \/ j <= k) =>
    (inbox[j].method = "didOpen" <=> inbox[i].method = "didClose")

\* So handlers meet the document in the state they expect: on_did_open never overwrites an
\* entry, and didChange, didSave and didClose always find one.
NotesFitRegistry ==
  LastNoteDecides /\ LastPublishClears /\ FirstNoteFits /\ NotesAlternate

\* Every request is answered, or the server has left (the loop of run_server).
EveryRequestAnswered == \A id \in 0..MaxRequests :
  (\E i \in DOMAIN awaiting : awaiting[i] = id) ~>
     ((\A i \in DOMAIN awaiting : awaiting[i] # id) \/ status # "running")

\* After the last save of a document that is then left alone, its display becomes fresh.
SaveRefreshes == \A u \in Uris :
  (isOpen[u] /\ settled[u] /\ synced[u]) ~>
     \/ shown[u].diags = LintOf(text[u])
     \/ ~(isOpen[u] /\ settled[u] /\ synced[u])
     \/ status # "running" \/ should_exit

\* "the in-line gate is sufficient for correctness today" (handlers.cpp, on_did_change):
\* a document the user stops editing ends up with the diagnostics of its text.
QuietBecomesFresh == \A u \in Uris, t \in 0..MaxText :
  <>[](phase = "ready" /\ isOpen[u] /\ text[u] = t /\ synced[u]) =>
    <>[](shown[u].diags # NoDiags /\ shown[u].diags.text = t)
=============================================================================
