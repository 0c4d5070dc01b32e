----------------------------- MODULE Extension -----------------------------
(***************************************************************************)
(* The life of the server in the editor extension: activate, restartServer *)
(* and deactivate of extension.ts over one module-level client, the search *)
(* for the server's binary (server-binary.ts) and its download into a      *)
(* cache directory that all windows share (download.ts).                   *)
(*                                                                         *)
(* JavaScript runs one handler at a time up to its next await, so an       *)
(* action is the code between two awaits, and the handlers of a window     *)
(* interleave there: a restart may begin while the activation or another   *)
(* restart is waiting.  Windows are processes of their own.  A window may  *)
(* be killed at any point; its servers end with it, the cached file stays. *)
(*                                                                         *)
(* The language client is a library, modelled by what the extension sees   *)
(* of it: start and stop answer later, stop refuses a client that is just  *)
(* starting, and a server that dies is started again a few times.  A       *)
(* client is named after the handler that made it.                         *)
(***************************************************************************)
EXTENDS Naturals, FiniteSets

CONSTANTS
  Window,      \* the windows of the editor
  Restart,     \* the restarts of one window: commands and changed settings
  None,        \* no client
  MaxOpens,    \* bound: windows opened
  MaxFaults    \* bound: servers that die and windows that are killed

Op == Restart \cup {"activate", "deactivate"}

ASSUME RestartAssumption ==
  /\ Restart \cap {"activate", "deactivate", None} = {}
  /\ None \notin {"activate", "deactivate"}

VARIABLES
  open,     \* open[w]: the window's extension host runs
  pc,       \* pc[w][o]: the await at which handler o of w is
  stops,    \* stops[w][o]: the client that o is stopping
  client,   \* client[w]: the module-level client
  state,    \* state[w][o]: the state of the client that o made
  badge,    \* badge[w]: lastState
  seen,     \* seen[w]: what has happened in w, for the properties
  binary,   \* the file in the cache directory
  unix,     \* the platform: TRUE when a file needs a mode bit to run
  seenBinary, opens, faults

vars == <<open, pc, stops, client, state, badge, seen, binary, unix,
          seenBinary, opens, faults>>

NoFile == [exists |-> FALSE, x |-> FALSE, whole |-> FALSE]

Init ==
  /\ open = [w \in Window |-> FALSE]
  /\ pc = [w \in Window |-> [o \in Op |-> "new"]]
  /\ stops = [w \in Window |-> [o \in Op |-> None]]
  /\ client = [w \in Window |-> None]
  /\ state = [w \in Window |-> [o \in Op |-> "none"]]
  /\ badge = [w \in Window |-> "none"]
  /\ seen = [w \in Window |-> {}]
  /\ binary = NoFile
  /\ unix \in BOOLEAN
  /\ seenBinary = {} /\ opens = 0 /\ faults = 0

-----------------------------------------------------------------------------

\* client.state: a client that is stopping already shows as stopped.
State(w, c) == IF state[w][c] \in {"starting", "running"} THEN state[w][c] ELSE "stopped"

Goto(w, o, at) == pc' = [pc EXCEPT ![w][o] = at]
setStatus(w, s) == badge' = [badge EXCEPT ![w] = s]

\* What a handler leaves to itself in its window.
InProgress(w) == {o \in Op : pc[w][o] \notin {"new", "done"}}
Note(w, what) == seen' = [seen EXCEPT ![w] = @ \cup what]
Overlap(w) == IF InProgress(w) = {} THEN {} ELSE {"overlap"}

\* deactivate() was called: no command or change of settings arrives.
Closing(w) == pc[w]["deactivate"] # "new"

isExecutable == binary.exists /\ (unix => binary.x)

activate(w) ==
  /\ ~open[w] /\ opens < MaxOpens
  /\ open' = [open EXCEPT ![w] = TRUE]
  /\ opens' = opens + 1
  /\ setStatus(w, "starting")
  /\ Goto(w, "activate", "resolve")
  /\ UNCHANGED <<stops, client, state, seen, binary, unix, seenBinary, faults>>

\* Variant for the mutant of restartServer: the old server is not stopped.
restartServer_NoStop(w, o) ==
  /\ open[w] /\ ~Closing(w) /\ pc[w][o] = "new"
  /\ setStatus(w, "starting")
  /\ Goto(w, o, "resolve")
  /\ Note(w, Overlap(w))
  /\ UNCHANGED <<open, stops, client, state, binary, unix, seenBinary, opens, faults>>

\* Up to the await of stop() or, when there is nothing to stop, to the first
\* await of startServer.  A refusing stop() ends the handler, outside its try.
restartServer(w, o) ==
  /\ open[w] /\ ~Closing(w) /\ pc[w][o] = "new"
  /\ setStatus(w, "starting")
  /\ \/ /\ client[w] = None \/ (client[w] # None /\ State(w, client[w]) = "stopped")
        /\ Goto(w, o, "resolve")
        /\ Note(w, Overlap(w))
        /\ UNCHANGED <<stops, state>>
     \/ /\ client[w] # None /\ State(w, client[w]) = "running"
        /\ Goto(w, o, "stop")
        /\ stops' = [stops EXCEPT ![w][o] = client[w]]
        /\ state' = [state EXCEPT ![w][client[w]] = "stopping"]
        /\ Note(w, Overlap(w))
     \/ /\ client[w] # None /\ State(w, client[w]) = "starting"
        /\ Goto(w, o, "done")
        /\ Note(w, Overlap(w) \cup {"refused"})
        /\ UNCHANGED <<stops, state>>
  /\ UNCHANGED <<open, client, binary, unix, seenBinary, opens, faults>>

\* stop() has answered, or has failed after its two seconds; in either case
\* the client has ended its process.  The module-level client is forgotten
\* whatever it has become meanwhile.
Stopped(w, o) ==
  /\ pc[w][o] = "stop"
  /\ state' = [state EXCEPT ![w][stops[w][o]] = "stopped"]
  /\ stops' = [stops EXCEPT ![w][o] = None]
  /\ \/ /\ client' = [client EXCEPT ![w] = None]
        /\ Goto(w, o, IF o = "deactivate" THEN "done" ELSE "resolve")
        /\ UNCHANGED seen
     \/ /\ Goto(w, o, "done")
        /\ Note(w, {"refused"})
        /\ UNCHANGED client
  /\ UNCHANGED <<open, badge, binary, unix, seenBinary, opens, faults>>

\* The handler's client is made and started, from a file that runs or not.
Launch(w, o, usable) ==
  /\ client' = [client EXCEPT ![w] = o]
  /\ state' = [state EXCEPT ![w][o] = "starting"]
  /\ Goto(w, o, IF usable THEN "start" ELSE "startBroken")

\* Variant for the mutant of Failed: the error is not shown.
Failed_Silent(w, o) == Goto(w, o, "done") /\ UNCHANGED badge

\* The catch of activate and of restartServer.
Failed(w, o) == Goto(w, o, "done") /\ setStatus(w, "error")

\* resolveServerBinary: a serverPath, PATH or bundled binary, or a serverPath
\* that does not run, or else the cache, or else a download.
resolveServerBinary(w, o) ==
  /\ pc[w][o] = "resolve"
  /\ \/ Launch(w, o, TRUE) /\ UNCHANGED <<badge, seenBinary>>
     \/ Failed(w, o) /\ UNCHANGED <<client, state, seenBinary>>
     \/ isExecutable /\ Launch(w, o, binary.whole) /\ UNCHANGED <<badge, seenBinary>>
     \/ /\ ~isExecutable
        /\ Goto(w, o, "fetch")
        /\ seenBinary' = seenBinary \cup
             IF \E v \in Window : \E p \in Op : pc[v][p] \in {"fetch", "write", "chmod"}
             THEN {"race"} ELSE {}
        /\ UNCHANGED <<client, state, badge>>
  /\ UNCHANGED <<open, stops, seen, binary, unix, opens, faults>>

\* Variant for the mutant of OpenFile: the mode is given when it is created.
OpenFile_Mode == [exists |-> TRUE, x |-> TRUE, whole |-> FALSE]

\* writeFile truncates a file that is there, and leaves its mode alone.
OpenFile == [exists |-> TRUE, x |-> binary.x, whole |-> FALSE]

\* The archive is fetched and its checksum compared, if there is one; the
\* extraction then opens the binary at its final path.
Fetched(w, o) ==
  /\ pc[w][o] = "fetch"
  /\ \/ Failed(w, o) /\ UNCHANGED binary
     \/ Goto(w, o, "write") /\ binary' = OpenFile /\ UNCHANGED badge
  /\ UNCHANGED <<open, stops, client, state, seen, unix, seenBinary, opens, faults>>

\* The write ends or fails half way.  Of two writers each may have been
\* truncated by the other, so the result is whole or not.
Written(w, o) ==
  /\ pc[w][o] = "write"
  /\ \/ /\ \E whole \in IF "race" \in seenBinary THEN BOOLEAN ELSE {TRUE} :
             /\ binary' = [binary EXCEPT !.whole = whole]
             /\ IF unix THEN Goto(w, o, "chmod") /\ UNCHANGED <<client, state>>
                        ELSE Launch(w, o, whole)
        /\ UNCHANGED <<badge, seenBinary>>
     \/ /\ Failed(w, o)
        /\ seenBinary' = seenBinary \cup {"torn"}
        /\ UNCHANGED <<binary, client, state>>
  /\ UNCHANGED <<open, stops, seen, unix, opens, faults>>

Chmodded(w, o) ==
  /\ pc[w][o] = "chmod"
  /\ \/ /\ binary' = [binary EXCEPT !.x = TRUE]
        /\ Launch(w, o, binary.whole)
        /\ UNCHANGED badge
     \/ Failed(w, o) /\ UNCHANGED <<binary, client, state>>
  /\ UNCHANGED <<open, stops, seen, unix, seenBinary, opens, faults>>

\* client.start() has answered.
Started(w, o) ==
  /\ pc[w][o] \in {"start", "startBroken"}
  /\ \/ /\ pc[w][o] = "start"
        /\ state' = [state EXCEPT ![w][o] = "running"]
        /\ Goto(w, o, "done")
        /\ setStatus(w, "ready")
        /\ seen' = [seen EXCEPT ![w] = @ \ {"died"}]
     \/ /\ state' = [state EXCEPT ![w][o] = "stopped"]
        /\ Failed(w, o)
        /\ UNCHANGED seen
  /\ UNCHANGED <<open, stops, client, binary, unix, seenBinary, opens, faults>>

deactivate(w) ==
  /\ open[w] /\ ~Closing(w)
  /\ Note(w, Overlap(w))
  /\ \/ /\ client[w] = None \/ (client[w] # None /\ State(w, client[w]) = "stopped")
        /\ client' = [client EXCEPT ![w] = None]
        /\ Goto(w, "deactivate", "done")
        /\ UNCHANGED <<stops, state>>
     \/ /\ client[w] # None /\ State(w, client[w]) = "running"
        /\ Goto(w, "deactivate", "stop")
        /\ stops' = [stops EXCEPT ![w]["deactivate"] = client[w]]
        /\ state' = [state EXCEPT ![w][client[w]] = "stopping"]
        /\ UNCHANGED client
     \/ /\ client[w] # None /\ State(w, client[w]) = "starting"
        /\ Goto(w, "deactivate", "done")
        /\ UNCHANGED <<client, stops, state>>
  /\ UNCHANGED <<open, badge, binary, unix, seenBinary, opens, faults>>

-----------------------------------------------------------------------------
(* The library and the editor.                                             *)

\* A running server dies; the client starts it again or gives up.
ServerDies(w, c) ==
  /\ faults < MaxFaults /\ faults' = faults + 1
  /\ state[w][c] = "running"
  /\ \E s \in {"starting", "stopped"} : state' = [state EXCEPT ![w][c] = s]
  /\ Note(w, {"died"})
  /\ UNCHANGED <<open, pc, stops, client, badge, binary, unix, seenBinary, opens>>

\* A start that no handler waits for.
StartedAgain(w, c) ==
  /\ state[w][c] = "starting" /\ pc[w][c] = "done"
  /\ \E s \in {"running", "stopped"} : state' = [state EXCEPT ![w][c] = s]
  /\ UNCHANGED <<open, pc, stops, client, badge, seen, binary, unix, seenBinary,
                 opens, faults>>

Gone(w) ==
  /\ open' = [open EXCEPT ![w] = FALSE]
  /\ pc' = [pc EXCEPT ![w] = [o \in Op |-> "new"]]
  /\ stops' = [stops EXCEPT ![w] = [o \in Op |-> None]]
  /\ client' = [client EXCEPT ![w] = None]
  /\ state' = [state EXCEPT ![w] = [o \in Op |-> "none"]]
  /\ badge' = [badge EXCEPT ![w] = "none"]
  /\ seen' = [seen EXCEPT ![w] = {}]
  /\ seenBinary' = seenBinary \cup
       IF \E o \in Op : pc[w][o] = "write" THEN {"torn"} ELSE {}
  /\ UNCHANGED <<binary, unix, opens>>

\* The editor waits a few seconds for deactivate, not for what else runs.
WindowCloses(w) == open[w] /\ Closing(w) /\ Gone(w) /\ UNCHANGED faults

WindowKilled(w) ==
  /\ open[w] /\ faults < MaxFaults
  /\ Gone(w)
  /\ faults' = faults + 1

Step(w, o) ==
  \/ Stopped(w, o) \/ resolveServerBinary(w, o) \/ Fetched(w, o)
  \/ Written(w, o) \/ Chmodded(w, o) \/ Started(w, o)

Next ==
  \E w \in Window :
    \/ activate(w) \/ deactivate(w) \/ WindowCloses(w) \/ WindowKilled(w)
    \/ \E o \in Restart : restartServer(w, o)
    \/ \E o \in Op : Step(w, o) \/ ServerDies(w, o) \/ StartedAgain(w, o)

\* Every await of a handler ends: stop gives up after two seconds, a request
\* after sixty, and a server that is started answers or dies.
Fairness == \A w \in Window : \A o \in Op : WF_vars(Step(w, o))

Spec == Init /\ [][Next]_vars /\ Fairness

-----------------------------------------------------------------------------

Live(w) == {c \in Op : state[w][c] \in {"starting", "running", "stopping"}}

\* As long as no handler began while another was waiting, a window has no
\* server but the one of the module-level client, across stops that fail,
\* servers that die and come back and starts that fail; and a badge that says
\* ready stands for a running server, unless that has died since
\* (extension.ts:648-676).
OneServer ==
  \A w \in Window : "overlap" \notin seen[w] =>
    /\ Live(w) \subseteq {client[w]}
    /\ badge[w] = "ready" /\ "died" \notin seen[w] /\ ~Closing(w)
         => client[w] # None /\ state[w][client[w]] = "running"

\* The cached file that findCached takes is a whole one, wherever a window was
\* killed or a write failed: on Unix because the mode bit comes last.  Left
\* out are two downloads at once, and on Windows, where any file runs, a
\* write that was cut short or is still going on (download.ts:182-185, 257,
\* server-binary.ts:100-114).
CachedIsWhole ==
  isExecutable /\ "race" \notin seenBinary =>
    \/ binary.whole
    \/ ~unix /\ \/ "torn" \in seenBinary
                \/ \E w \in Window : \E o \in Op : pc[w][o] = "write"

\* A badge that says starting does not stay so: whatever interleaves with the
\* handler that wrote it, and wherever that fails, ready or error follows,
\* unless stop() failed or the window went away (extension.ts:548-582, 667-676).
BadgeSettles ==
  \A w \in Window :
    badge[w] = "starting" ~> (badge[w] # "starting" \/ "refused" \in seen[w])
=============================================================================
