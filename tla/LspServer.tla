----------------------------- MODULE LspServer -----------------------------
(***************************************************************************)
(* The shader-clippy language server (lsp/src): the read loop of main.cpp, *)
(* the JSON-RPC dispatcher, the handlers of server/handlers.cpp and the    *)
(* open-document registry of document/manager.cpp.                         *)
(*                                                                         *)
(* The server is one thread: it takes a message from stdin, runs the whole *)
(* handler and writes the reply, so a handler is one action.  What a text  *)
(* says is abstracted to its identity: text n is the n-th text the editor  *)
(* had for that document.  A diagnostics list is identified with what it   *)
(* was computed from: the text, the configuration and the launch options.  *)
(***************************************************************************)
EXTENDS Integers, Sequences

CONSTANTS
  Uris,         \* document URIs
  Configs,      \* configurations a readable .shader-clippy.toml can hold
  NoConfig,     \* resolve_config_for returned std::nullopt
  OptionSets,   \* values of initializationOptions
  DefaultOptions, \* the members' initial values in class Server
  NoDoc,        \* the URI is not registered
  NoDiags,      \* the empty diagnostics list
  Scrambled,    \* a text that is none of the editor's (bytes spliced at the wrong place)
  Debounce      \* 150 ms, in ticks of the model's clock

ASSUME DebounceAssumption == Debounce \in Nat \ {0}
ASSUME ConfigAssumption == NoConfig \notin Configs
ASSUME SentinelAssumption == Scrambled \notin Nat

VARIABLES
  docs,               \* DocumentManager::docs_
  options,            \* target_profile_, enable_*_, include directories, workspace folders
  shutdown_requested, \* Server::shutdown_requested_
  should_exit,        \* Server::should_exit_
  status,             \* the process: "running", or its exit code
  toml,               \* what the walk-up finds on disk: a configuration, or not one
  inbox,              \* stdin: framed messages not read yet
  eof,                \* the editor closed its end of stdin
  outbox              \* stdout: messages the editor has not read yet

serverVars == <<docs, options, shutdown_requested, should_exit, status>>
wireVars   == <<inbox, eof, outbox>>

-----------------------------------------------------------------------------
(* Values *)

Text == Nat \cup {Scrambled}

\* "unusable": no file on the way up to .git, or one that load_config rejects.
TomlStates == Configs \cup {"unusable"}

Diags == {NoDiags} \cup
  [text : Text, config : Configs \cup {NoConfig}, options : OptionSets \cup {DefaultOptions}]

Doc == [contents : Text, version : Nat, latest_diagnostics : Diags, linted : BOOLEAN]

ASSUME NoDocAssumption == NoDoc \notin Doc

\* How a change's range falls in the text it was made for: "full" has no range;
\* "exact" positions mean the same bytes to both sides; "shifted" ones lie right
\* of a non-ASCII character, where the editor counts UTF-16 units and
\* position_to_offset counts bytes; "outside" names a line the server's '\n'
\* count does not reach (a lone '\r' ends a line for the editor only).
Fit == {"full", "exact", "shifted", "outside"}

Change == [fit : Fit, from : Nat, to : Nat]

ClientMsg ==
       [method : {"initialize"}, id : Nat, options : OptionSets]
  \cup [method : {"shutdown", "unknown"}, id : Nat]
  \cup [method : {"codeAction", "hover"}, id : Nat, uri : Uris]
  \cup [method : {"didOpen"}, uri : Uris, version : Nat, text : Nat]
  \cup [method : {"didChange"}, uri : Uris, version : Nat, changes : Seq(Change)]
  \cup [method : {"didSave", "didClose"}, uri : Uris]
  \cup [method : {"initialized", "didChangeConfiguration", "exit"}]

Requests == {"initialize", "shutdown", "unknown", "codeAction", "hover"}

\* A code action carries byte offsets of diags resolved to positions in `against`.
ServerMsg ==
       [type : {"publish"}, uri : Uris, version : Nat, diags : Diags]
  \cup [type : {"reply"}, id : Nat, diags : Diags, against : Text]

-----------------------------------------------------------------------------
(* DocumentManager *)

\* An incremental edit lands where the editor meant it only in the text it was made
\* for; anywhere else it may hit the right place by luck, scramble the text, or name a
\* position that does not exist, and then apply_one returns false.
Fitting(contents, c) == c.fit = "full" \/ (c.fit = "exact" /\ contents = c.from)

ApplyOne(contents, c) ==
  IF Fitting(contents, c) THEN {c.to}
  ELSE IF c.fit = "outside" /\ contents = c.from THEN {}
  ELSE {c.to, Scrambled}

MayReject(contents, c) ==
  /\ ~Fitting(contents, c)
  /\ c.fit = "shifted" => contents # c.from

\* Wrong on purpose: a batch lands and keeps the old version.
ApplyChanges_KeepVersion(d, newVersion, changes) ==
  [ok : {TRUE}, doc : {[d EXCEPT !.contents = changes[Len(changes)].to]}]

\* apply_changes edits doc.contents in place, change by change.  When change k+1
\* is rejected it returns at once: the first k stay applied and `version` keeps
\* its old value.  after[i] is the text once i changes are in.
ApplyChanges(d, newVersion, changes) ==
  LET n == Len(changes)
      reachable == {d.contents, Scrambled} \cup {changes[i].to : i \in 1..n}
      Applied(after, k) == /\ after[0] = d.contents
                           /\ \A i \in 1..k : after[i] \in ApplyOne(after[i-1], changes[i])
      done == {after \in [0..n -> reachable] : Applied(after, n)}
      cut  == {p \in [0..n -> reachable] \X (0..n-1) :
                 /\ Applied(p[1], p[2])
                 /\ MayReject(p[1][p[2]], changes[p[2]+1])}
  IN  [ok   : {TRUE},  doc : {[d EXCEPT !.contents = after[n], !.version = newVersion] : after \in done}]
        \cup
      [ok   : {FALSE}, doc : {[d EXCEPT !.contents = p[1][p[2]]] : p \in cut}]

\* should_debounce_lint, asked `elapsed` after last_change_time was written.
\* last_lint_time is only ever compared with its zero value.
ShouldDebounce(d, elapsed) == d.linted /\ elapsed < Debounce

-----------------------------------------------------------------------------
(* Linting and publishing *)

\* resolve_config_for reads the disk at every call; a rejected file counts as none.
ResolveConfig == IF toml \in Configs THEN toml ELSE NoConfig

LintOf(text) == [text |-> text, config |-> ResolveConfig, options |-> options]

\* Wrong on purpose: the version is one behind.
PublishMsg_OneBehind(u, version, diags) ==
  [type |-> "publish", uri |-> u, version |-> version - 1, diags |-> diags]

PublishMsg(u, version, diags) ==
  [type |-> "publish", uri |-> u, version |-> version, diags |-> diags]

ReplyMsg(id, diags, against) ==
  [type |-> "reply", id |-> id, diags |-> diags, against |-> against]

\* Json::dump throws on bytes that are not UTF-8.  Messages and replacements quote
\* the source, and a scrambled text may cut a multi-byte character in two.
Serialisable(text) == IF text = Scrambled THEN BOOLEAN ELSE {TRUE}

\* Wrong on purpose: the list is published and not stored.
LintAndPublish_NotStored(ds, u) ==
  \/ /\ ds[u] = NoDoc
     /\ docs' = ds
     /\ UNCHANGED outbox
  \/ /\ ds[u] # NoDoc
     /\ docs' = [ds EXCEPT ![u].linted = TRUE]
     /\ outbox' = Append(outbox, PublishMsg(u, ds[u].version, LintOf(ds[u].contents)))

\* lint_and_publish over the registry `ds`.  The throw inside the sink is swallowed
\* by handle_notification, after latest_diagnostics and last_lint_time are written.
LintAndPublish(ds, u) ==
  \/ /\ ds[u] = NoDoc
     /\ docs' = ds
     /\ UNCHANGED outbox
  \/ /\ ds[u] # NoDoc
     /\ docs' = [ds EXCEPT ![u].latest_diagnostics = LintOf(ds[u].contents), ![u].linted = TRUE]
     /\ \E sent \in Serialisable(ds[u].contents) :
          outbox' = IF sent
                      THEN Append(outbox, PublishMsg(u, ds[u].version, LintOf(ds[u].contents)))
                      ELSE outbox

-----------------------------------------------------------------------------
(* The read loop takes one message and runs its handler to the end *)

Running == status = "running" /\ ~should_exit

Take(method) ==
  /\ Running
  /\ inbox # <<>>
  /\ Head(inbox).method = method
  /\ inbox' = Tail(inbox)
  /\ UNCHANGED <<eof, toml>>

Answer(diags, against) == outbox' = Append(outbox, ReplyMsg(Head(inbox).id, diags, against))

OnInitialize ==
  /\ Take("initialize")
  /\ options' = Head(inbox).options
  /\ Answer(NoDiags, 0)
  /\ UNCHANGED <<docs, shutdown_requested, should_exit, status>>

OnShutdown ==
  /\ Take("shutdown")
  /\ shutdown_requested' = TRUE
  /\ Answer(NoDiags, 0)
  /\ UNCHANGED <<docs, options, should_exit, status>>

\* Wrong on purpose: an unknown request is dropped like an unknown notification.
OnUnknownRequest_Dropped ==
  /\ Take("unknown")
  /\ UNCHANGED <<serverVars, outbox>>

\* No handler: method_not_found.
OnUnknownRequest ==
  /\ Take("unknown")
  /\ Answer(NoDiags, 0)
  /\ UNCHANGED serverVars

\* Wrong on purpose: a request about a text not linted yet waits for the lint.
AnswerFromView_WaitsForLint(u) ==
  /\ outbox' = IF docs[u] = NoDoc \/ docs[u].latest_diagnostics.text # docs[u].contents THEN outbox
               ELSE Append(outbox, ReplyMsg(Head(inbox).id, docs[u].latest_diagnostics, docs[u].contents))
  /\ UNCHANGED serverVars

\* on_code_action and on_hover answer from view_for: the diagnostics of the last
\* lint, looked up in a SourceManager built over the contents of now.
AnswerFromView(u) ==
  \/ /\ docs[u] = NoDoc
     /\ Answer(NoDiags, 0)
     /\ UNCHANGED serverVars
  \/ /\ docs[u] # NoDoc
     /\ Answer(docs[u].latest_diagnostics, docs[u].contents)
     /\ UNCHANGED serverVars

\* build_success(...).dump() stands outside handle_request's try block: a reply that
\* cannot be serialised unwinds to main(), which returns 1.
ReplyThrows(u) ==
  /\ docs[u] # NoDoc
  /\ docs[u].latest_diagnostics # NoDiags
  /\ FALSE \in Serialisable(docs[u].latest_diagnostics.text)
  /\ status' = "exited 1"
  /\ UNCHANGED <<docs, options, shutdown_requested, should_exit, outbox>>

OnCodeAction == Take("codeAction") /\ (AnswerFromView(Head(inbox).uri) \/ ReplyThrows(Head(inbox).uri))

OnHover == Take("hover") /\ (AnswerFromView(Head(inbox).uri) \/ ReplyThrows(Head(inbox).uri))

\* initialized_ is written and never read; the other two handlers have empty bodies.
OnIgnoredNotification ==
  /\ \E method \in {"initialized", "didChangeConfiguration"} : Take(method)
  /\ UNCHANGED <<serverVars, outbox>>

OnDidOpen ==
  /\ Take("didOpen")
  /\ LET m == Head(inbox)
         opened == [contents |-> m.text, version |-> m.version,
                    latest_diagnostics |-> NoDiags, linted |-> FALSE]
     IN  LintAndPublish([docs EXCEPT ![m.uri] = opened], m.uri)
  /\ UNCHANGED <<options, shutdown_requested, should_exit, status>>

\* Wrong on purpose: a debounced change publishes the old list under the new version.
OnDidChange_RepublishOld ==
  /\ Take("didChange")
  /\ LET m == Head(inbox) IN
       \/ /\ docs[m.uri] = NoDoc
          /\ UNCHANGED <<docs, outbox>>
       \/ /\ docs[m.uri] # NoDoc
          /\ \E r \in ApplyChanges(docs[m.uri], m.version, m.changes) :
               /\ docs' = [docs EXCEPT ![m.uri] = r.doc]
               /\ outbox' = Append(outbox, PublishMsg(m.uri, r.doc.version, r.doc.latest_diagnostics))
  /\ UNCHANGED <<options, shutdown_requested, should_exit, status>>

\* apply_changes writes last_change_time and should_debounce_lint reads the clock
\* `elapsed` later in the same call, so the time of any earlier change is never seen.
OnDidChange ==
  /\ Take("didChange")
  /\ LET m == Head(inbox) IN
       \/ /\ docs[m.uri] = NoDoc
          /\ UNCHANGED <<docs, outbox>>
       \/ /\ docs[m.uri] # NoDoc
          /\ \E r \in ApplyChanges(docs[m.uri], m.version, m.changes), elapsed \in 0..Debounce :
               IF ~r.ok \/ ShouldDebounce(r.doc, elapsed)
                 THEN docs' = [docs EXCEPT ![m.uri] = r.doc] /\ UNCHANGED outbox
                 ELSE LintAndPublish([docs EXCEPT ![m.uri] = r.doc], m.uri)
  /\ UNCHANGED <<options, shutdown_requested, should_exit, status>>

\* Wrong on purpose: a save publishes the cached list instead of linting.
OnDidSave_Cached ==
  /\ Take("didSave")
  /\ LET u == Head(inbox).uri IN
       outbox' = IF docs[u] = NoDoc THEN outbox
                 ELSE Append(outbox, PublishMsg(u, docs[u].version, docs[u].latest_diagnostics))
  /\ UNCHANGED serverVars

\* Wrong on purpose: a save is debounced like a change.
OnDidSave_Debounced ==
  /\ Take("didSave")
  /\ LET u == Head(inbox).uri IN
       \/ /\ docs[u] # NoDoc /\ docs[u].linted
          /\ UNCHANGED <<docs, outbox>>
       \/ LintAndPublish(docs, u)
  /\ UNCHANGED <<options, shutdown_requested, should_exit, status>>

OnDidSave ==
  /\ Take("didSave")
  /\ LintAndPublish(docs, Head(inbox).uri)
  /\ UNCHANGED <<options, shutdown_requested, should_exit, status>>

\* Wrong on purpose: the entry stays registered.
OnDidClose_KeepsEntry ==
  /\ Take("didClose")
  /\ outbox' = Append(outbox, PublishMsg(Head(inbox).uri, 0, NoDiags))
  /\ UNCHANGED serverVars

\* Wrong on purpose: the client is left with the last list.
OnDidClose_NoClear ==
  /\ Take("didClose")
  /\ docs' = [docs EXCEPT ![Head(inbox).uri] = NoDoc]
  /\ UNCHANGED <<options, shutdown_requested, should_exit, status, outbox>>

\* The clearing publish carries no version.
OnDidClose ==
  /\ Take("didClose")
  /\ docs' = [docs EXCEPT ![Head(inbox).uri] = NoDoc]
  /\ outbox' = Append(outbox, PublishMsg(Head(inbox).uri, 0, NoDiags))
  /\ UNCHANGED <<options, shutdown_requested, should_exit, status>>

OnExit ==
  /\ Take("exit")
  /\ should_exit' = TRUE
  /\ UNCHANGED <<docs, options, shutdown_requested, status, outbox>>

\* run_server leaves the loop on `exit` or when stdin ends.
LeaveLoop ==
  /\ status = "running"
  /\ should_exit \/ (eof /\ inbox = <<>>)
  /\ status' = IF shutdown_requested THEN "exited 0" ELSE "exited 1"
  /\ UNCHANGED <<docs, options, shutdown_requested, should_exit, toml, wireVars>>

-----------------------------------------------------------------------------

ServerInit ==
  /\ docs = [u \in Uris |-> NoDoc]
  /\ options = DefaultOptions
  /\ shutdown_requested = FALSE
  /\ should_exit = FALSE
  /\ status = "running"
  /\ toml \in TomlStates
  /\ inbox = <<>>
  /\ eof = FALSE
  /\ outbox = <<>>

ServerStep ==
  \/ OnInitialize \/ OnShutdown \/ OnUnknownRequest
  \/ OnCodeAction \/ OnHover \/ OnIgnoredNotification
  \/ OnDidOpen \/ OnDidChange \/ OnDidSave \/ OnDidClose
  \/ OnExit \/ LeaveLoop

ServerTypeOK ==
  /\ docs \in [Uris -> Doc \cup {NoDoc}]
  /\ options \in OptionSets \cup {DefaultOptions}
  /\ shutdown_requested \in BOOLEAN
  /\ should_exit \in BOOLEAN
  /\ status \in {"running", "exited 0", "exited 1"}
  /\ toml \in TomlStates
  /\ inbox \in Seq(ClientMsg)
  /\ eof \in BOOLEAN
  /\ outbox \in Seq(ServerMsg)
=============================================================================
