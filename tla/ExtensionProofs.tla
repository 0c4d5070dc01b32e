-------------------------- MODULE ExtensionProofs --------------------------
(***************************************************************************)
(* Theorems about Extension, for any windows and restarts and any bounds.  *)
(***************************************************************************)
EXTENDS Extension, TLAPS

Places == {"new", "done", "resolve", "stop", "fetch", "write", "chmod",
           "start", "startBroken"}
ClientStates == {"none", "starting", "running", "stopping", "stopped"}
Binaries == [exists : BOOLEAN, x : BOOLEAN, whole : BOOLEAN]

Types ==
  /\ open \in [Window -> BOOLEAN]
  /\ pc \in [Window -> [Op -> Places]]
  /\ stops \in [Window -> [Op -> Op \cup {None}]]
  /\ client \in [Window -> Op \cup {None}]
  /\ state \in [Window -> [Op -> ClientStates]]
  /\ badge \in [Window -> {"none", "starting", "ready", "error"}]
  /\ seen \in [Window -> SUBSET {"overlap", "refused", "died"}]
  /\ binary \in Binaries
  /\ unix \in BOOLEAN
  /\ seenBinary \in SUBSET {"race", "torn"}

-----------------------------------------------------------------------------
(* The cached file.                                                        *)

Downloads(w, o) == pc[w][o] \in {"fetch", "write", "chmod"}
SomeoneWrites == \E w \in Window, o \in Op : pc[w][o] = "write"

\* While no two downloads met, one handler at most has the file, and where it
\* is tells what the file is.
OneDownload ==
  \A v, w \in Window : \A o, p \in Op :
    Downloads(v, o) /\ Downloads(w, p) => v = w /\ o = p
NoModeYet ==
  \A w \in Window : \A o \in Op :
    unix /\ pc[w][o] \in {"fetch", "write"} => ~binary.x
WholeAtChmod == \A w \in Window : \A o \in Op : pc[w][o] = "chmod" => binary.whole
ModeMeansWhole == unix /\ binary.x => binary.whole
TornOrBusy ==
  ~unix /\ binary.exists => binary.whole \/ "torn" \in seenBinary \/ SomeoneWrites

CacheInv ==
  /\ binary.x => binary.exists
  /\ \A w \in Window : \A o \in Op : pc[w][o] \in {"write", "chmod"} => binary.exists
  /\ "race" \notin seenBinary =>
       OneDownload /\ NoModeYet /\ WholeAtChmod /\ ModeMeansWhole /\ TornOrBusy

-----------------------------------------------------------------------------
(* The server.                                                             *)

Searching == {"resolve", "fetch", "write", "chmod"}
Starting == {"start", "startBroken"}

\* What holds of a window in which no two handlers overlapped.
OneHandler(w) == \A o, p \in Op : o \in InProgress(w) /\ p \in InProgress(w) => o = p
Owned(w) == Live(w) \subseteq {client[w]}
StopsOwn(w) ==
  \A o \in Op : pc[w][o] = "stop" =>
    /\ client[w] # None
    /\ stops[w][o] = client[w]
    /\ state[w][client[w]] = "stopping"
NothingLives(w) == \A o \in Op : pc[w][o] \in Searching => Live(w) = {}
StartsOwn(w) ==
  \A o \in Op : pc[w][o] \in Starting => client[w] = o /\ state[w][o] = "starting"
StoppingIsAwaited(w) ==
  \A c \in Op : state[w][c] = "stopping" => \E o \in Op : pc[w][o] = "stop"
BadgeOfHandler(w) ==
  \A o \in Op \ {"deactivate"} : o \in InProgress(w) => badge[w] = "starting"
ReadyMeansRunning(w) ==
  badge[w] = "ready" /\ "died" \notin seen[w] /\ ~Closing(w)
    => client[w] # None /\ state[w][client[w]] = "running"

\* What holds of any window.
ClosedIsFresh(w) ==
  ~open[w] =>
    /\ \A o \in Op : pc[w][o] = "new" /\ state[w][o] = "none"
    /\ client[w] = None /\ badge[w] = "none"
DeactivateOnlyStops(w) == pc[w]["deactivate"] \in {"new", "stop", "done"}

WindowInv(w) ==
  /\ ClosedIsFresh(w)
  /\ DeactivateOnlyStops(w)
  /\ "overlap" \notin seen[w] =>
       /\ OneHandler(w) /\ Owned(w) /\ StopsOwn(w) /\ NothingLives(w)
       /\ StartsOwn(w) /\ StoppingIsAwaited(w) /\ BadgeOfHandler(w)
       /\ ReadyMeansRunning(w)

ServerInv == \A w \in Window : WindowInv(w)

-----------------------------------------------------------------------------
(* Types.                                                                  *)

\* A handler is none of the names used for "no client".
LEMMA OpFacts ==
  /\ None \notin Op
  /\ "activate" \in Op /\ "deactivate" \in Op
  /\ Restart \subseteq Op
  /\ "deactivate" \notin Restart
BY RestartAssumption DEF Op

LEMMA TypesInit == Init => Types
BY OpFacts DEF Init, Types, Places, ClientStates, Binaries, NoFile

\* Changing one entry of a table by window and handler.
LEMMA Update ==
  ASSUME NEW S, NEW f \in [Window -> [Op -> S]],
         NEW w \in Window, NEW o \in Op, NEW x \in S
  PROVE  /\ [f EXCEPT ![w][o] = x] \in [Window -> [Op -> S]]
         /\ \A v \in Window : \A p \in Op :
              [f EXCEPT ![w][o] = x][v][p] = IF v = w /\ p = o THEN x ELSE f[v][p]
<1> DEFINE row == [f[w] EXCEPT ![o] = x]
           g == [f EXCEPT ![w] = row]
<1>1. f[w] \in [Op -> S]
  OBVIOUS
<1>2. row \in [Op -> S] /\ \A p \in Op : row[p] = IF p = o THEN x ELSE f[w][p]
  BY <1>1
<1>3. g \in [Window -> [Op -> S]] /\ \A v \in Window : g[v] = IF v = w THEN row ELSE f[v]
  BY <1>2
<1>4. [f EXCEPT ![w][o] = x] = g
  OBVIOUS
<1> HIDE DEF row, g
<1> QED
  BY <1>2, <1>3, <1>4

LEMMA GotoEffect ==
  ASSUME Types, NEW w \in Window, NEW o \in Op, NEW place \in Places, Goto(w, o, place)
  PROVE  /\ pc' \in [Window -> [Op -> Places]]
         /\ \A v \in Window : \A p \in Op :
              pc'[v][p] = IF v = w /\ p = o THEN place ELSE pc[v][p]
BY Update DEF Goto, Types

LEMMA StateEffect ==
  ASSUME Types, NEW w \in Window, NEW c \in Op, NEW s \in ClientStates,
         state' = [state EXCEPT ![w][c] = s]
  PROVE  /\ state' \in [Window -> [Op -> ClientStates]]
         /\ \A v \in Window : \A p \in Op :
              state'[v][p] = IF v = w /\ p = c THEN s ELSE state[v][p]
BY Update DEF Types

LEMMA StopsEffect ==
  ASSUME Types, NEW w \in Window, NEW o \in Op, NEW c \in Op \cup {None},
         stops' = [stops EXCEPT ![w][o] = c]
  PROVE  /\ stops' \in [Window -> [Op -> Op \cup {None}]]
         /\ \A v \in Window : \A p \in Op :
              stops'[v][p] = IF v = w /\ p = o THEN c ELSE stops[v][p]
BY Update DEF Types

\* The cached file after each of the three steps that change it.
LEMMA OpenFileEffect ==
  ASSUME Types
  PROVE  /\ OpenFile \in Binaries
         /\ OpenFile.exists /\ OpenFile.x = binary.x /\ ~OpenFile.whole
<1>1. binary.x \in BOOLEAN
  BY DEF Types, Binaries
<1>2. OpenFile = [exists |-> TRUE, x |-> binary.x, whole |-> FALSE]
  BY DEF OpenFile
<1> QED
  BY <1>1, <1>2, Zenon DEF Binaries

LEMMA FileEffect ==
  ASSUME NEW b \in BOOLEAN, NEW f \in Binaries
  PROVE  /\ [f EXCEPT !.whole = b] \in Binaries /\ [f EXCEPT !.x = b] \in Binaries
         /\ [f EXCEPT !.whole = b].whole = b /\ [f EXCEPT !.whole = b].x = f.x
         /\ [f EXCEPT !.whole = b].exists = f.exists
         /\ [f EXCEPT !.x = b].whole = f.whole /\ [f EXCEPT !.x = b].x = b
         /\ [f EXCEPT !.x = b].exists = f.exists
BY DEF Binaries

\* Every step keeps the types.
LEMMA TypesStep == Types /\ [Next]_vars => Types'
<1> SUFFICES ASSUME Types, [Next]_vars PROVE Types'
  OBVIOUS
<1> USE OpFacts
<1> DEFINE Badges == {"none", "starting", "ready", "error"}
           Seen == SUBSET {"overlap", "refused", "died"}
<1>1. ASSUME NEW w \in Window, activate(w) PROVE Types'
  <2>1. pc' \in [Window -> [Op -> Places]]
    BY <1>1, GotoEffect DEF activate, Places
  <2>2. open' \in [Window -> BOOLEAN]
    BY <1>1 DEF activate, Types
  <2>3. badge' \in [Window -> Badges]
    BY <1>1 DEF activate, setStatus, Types
  <2>4. UNCHANGED <<state, stops, client, seen, binary, seenBinary, unix>>
    BY <1>1 DEF activate
  <2> QED
    BY <2>1, <2>2, <2>3, <2>4 DEF Types
<1>2. ASSUME NEW w \in Window, deactivate(w) PROVE Types'
  <2>1. client[w] # None => client[w] \in Op
    BY DEF Types
  <2>2. pc' \in [Window -> [Op -> Places]]
    BY <1>2, GotoEffect DEF deactivate, Places
  <2>3. state' \in [Window -> [Op -> ClientStates]]
    BY <1>2, <2>1, StateEffect DEF deactivate, ClientStates, Types
  <2>4. stops' \in [Window -> [Op -> Op \cup {None}]]
    BY <1>2, <2>1, StopsEffect DEF deactivate, Types
  <2>5. client' \in [Window -> Op \cup {None}]
    BY <1>2 DEF deactivate, Types
  <2>6. seen' \in [Window -> Seen]
    BY <1>2 DEF deactivate, Note, Overlap, Types
  <2>7. UNCHANGED <<badge, open, binary, seenBinary, unix>>
    BY <1>2 DEF deactivate
  <2> QED
    BY <2>1, <2>2, <2>3, <2>4, <2>5, <2>6, <2>7 DEF Types
<1>3. ASSUME NEW w \in Window, WindowCloses(w) \/ WindowKilled(w) PROVE Types'
  <2>1. pc' \in [Window -> [Op -> Places]]
    <3>1. pc' = [pc EXCEPT ![w] = [o \in Op |-> "new"]]
      BY <1>3 DEF WindowCloses, WindowKilled, Gone
    <3>2. [o \in Op |-> "new"] \in [Op -> Places]
      BY DEF Places
    <3> QED
      BY <3>1, <3>2 DEF Types
  <2>2. state' \in [Window -> [Op -> ClientStates]]
    BY <1>3 DEF WindowCloses, WindowKilled, Gone, ClientStates, Types
  <2>3. stops' \in [Window -> [Op -> Op \cup {None}]]
    BY <1>3 DEF WindowCloses, WindowKilled, Gone, Types
  <2>4. client' \in [Window -> Op \cup {None}]
    BY <1>3 DEF WindowCloses, WindowKilled, Gone, Types
  <2>5. seen' \in [Window -> Seen]
    BY <1>3 DEF WindowCloses, WindowKilled, Gone, Types
  <2>6. badge' \in [Window -> Badges]
    BY <1>3 DEF WindowCloses, WindowKilled, Gone, Types
  <2>7. open' \in [Window -> BOOLEAN]
    BY <1>3 DEF WindowCloses, WindowKilled, Gone, Types
  <2>8. seenBinary' \in SUBSET {"race", "torn"}
    BY <1>3 DEF WindowCloses, WindowKilled, Gone, Types
  <2>9. binary' = binary /\ unix' = unix
    BY <1>3 DEF WindowCloses, WindowKilled, Gone
  <2> QED
    BY <2>1, <2>2, <2>3, <2>4, <2>5, <2>6, <2>7, <2>8, <2>9 DEF Types
<1>4. ASSUME NEW w \in Window, NEW o \in Restart, restartServer(w, o) PROVE Types'
  <2>1. client[w] # None => client[w] \in Op
    BY DEF Types
  <2>2. pc' \in [Window -> [Op -> Places]]
    BY <1>4, GotoEffect DEF restartServer, Places
  <2>3. state' \in [Window -> [Op -> ClientStates]]
    BY <1>4, <2>1, StateEffect DEF restartServer, ClientStates, Types
  <2>4. stops' \in [Window -> [Op -> Op \cup {None}]]
    BY <1>4, <2>1, StopsEffect DEF restartServer, Types
  <2>5. badge' \in [Window -> Badges]
    BY <1>4 DEF restartServer, setStatus, Types
  <2>6. seen' \in [Window -> Seen]
    BY <1>4 DEF restartServer, Note, Overlap, Types
  <2>7. UNCHANGED <<client, open, binary, seenBinary, unix>>
    BY <1>4 DEF restartServer
  <2> QED
    BY <2>1, <2>2, <2>3, <2>4, <2>5, <2>6, <2>7 DEF Types
<1>5. ASSUME NEW w \in Window, NEW o \in Op, Step(w, o) PROVE Types'
  <2>1. CASE Stopped(w, o)
      <3>1. pc' \in [Window -> [Op -> Places]]
        BY <2>1, GotoEffect DEF Stopped, Places
      <3>2. stops' \in [Window -> [Op -> Op \cup {None}]]
        BY <2>1, StopsEffect DEF Stopped
      <3>3. state' \in [Window -> [Op -> ClientStates]]
        BY <2>1, StateEffect DEF Stopped, ClientStates, Types
      <3>4. client' \in [Window -> Op \cup {None}]
        BY <2>1 DEF Stopped, Types
      <3>5. seen' \in [Window -> Seen]
        BY <2>1 DEF Stopped, Note, Types
      <3>6. UNCHANGED <<badge, open, binary, seenBinary, unix>>
        BY <2>1 DEF Stopped
      <3> QED
        BY <3>1, <3>2, <3>3, <3>4, <3>5, <3>6 DEF Types
  <2>2. CASE resolveServerBinary(w, o)
      <3>1. pc' \in [Window -> [Op -> Places]]
        BY <2>2, GotoEffect DEF resolveServerBinary, Launch, Failed, Places
      <3>2. state' \in [Window -> [Op -> ClientStates]]
        BY <2>2, StateEffect DEF resolveServerBinary, Launch, ClientStates, Types
      <3>3. client' \in [Window -> Op \cup {None}]
        BY <2>2 DEF resolveServerBinary, Launch, Types
      <3>4. badge' \in [Window -> Badges]
        BY <2>2 DEF resolveServerBinary, Failed, setStatus, Types
      <3>5. seenBinary' \in SUBSET {"race", "torn"}
        BY <2>2 DEF resolveServerBinary, Types
      <3>6. UNCHANGED <<stops, seen, open, binary, unix>>
        BY <2>2 DEF resolveServerBinary
      <3> QED
        BY <3>1, <3>2, <3>3, <3>4, <3>5, <3>6 DEF Types
  <2>3. CASE Fetched(w, o)
      <3>1. pc' \in [Window -> [Op -> Places]]
        BY <2>3, GotoEffect DEF Fetched, Failed, Places
      <3>2. badge' \in [Window -> Badges]
        BY <2>3 DEF Fetched, Failed, setStatus, Types
      <3>3. binary' \in Binaries
        BY <2>3, OpenFileEffect DEF Fetched, Types
      <3>4. UNCHANGED <<state, stops, client, seen, open, seenBinary, unix>>
        BY <2>3 DEF Fetched
      <3> QED
        BY <3>1, <3>2, <3>3, <3>4 DEF Types
  <2>4. CASE Written(w, o)
      <3>1. pc' \in [Window -> [Op -> Places]]
        BY <2>4, GotoEffect DEF Written, Launch, Failed, Places
      <3>2. state' \in [Window -> [Op -> ClientStates]]
        BY <2>4, StateEffect DEF Written, Launch, ClientStates, Types
      <3>3. client' \in [Window -> Op \cup {None}]
        BY <2>4 DEF Written, Launch, Types
      <3>4. badge' \in [Window -> Badges]
        BY <2>4 DEF Written, Failed, setStatus, Types
      <3>5. binary' \in Binaries
        <4>1. binary \in Binaries
          BY DEF Types
        <4>2. \A b \in BOOLEAN : [binary EXCEPT !.whole = b] \in Binaries
          BY <4>1, FileEffect
        <4>3. binary' = binary \/ \E b \in BOOLEAN : binary' = [binary EXCEPT !.whole = b]
          BY <2>4 DEF Written
        <4> QED
          BY <4>1, <4>2, <4>3
      <3>6. seenBinary' \in SUBSET {"race", "torn"}
        BY <2>4 DEF Written, Types
      <3>7. UNCHANGED <<stops, seen, open, unix>>
        BY <2>4 DEF Written
      <3> QED
        BY <3>1, <3>2, <3>3, <3>4, <3>5, <3>6, <3>7 DEF Types
  <2>5. CASE Chmodded(w, o)
      <3>1. pc' \in [Window -> [Op -> Places]]
        BY <2>5, GotoEffect DEF Chmodded, Launch, Failed, Places
      <3>2. state' \in [Window -> [Op -> ClientStates]]
        BY <2>5, StateEffect DEF Chmodded, Launch, ClientStates, Types
      <3>3. client' \in [Window -> Op \cup {None}]
        BY <2>5 DEF Chmodded, Launch, Types
      <3>4. badge' \in [Window -> Badges]
        BY <2>5 DEF Chmodded, Failed, setStatus, Types
      <3>5. binary' \in Binaries
        <4>1. binary \in Binaries
          BY DEF Types
        <4>2. [binary EXCEPT !.x = TRUE] \in Binaries
          BY <4>1, FileEffect
        <4> QED
          BY <2>5, <4>1, <4>2 DEF Chmodded
      <3>6. UNCHANGED <<stops, seen, open, seenBinary, unix>>
        BY <2>5 DEF Chmodded
      <3> QED
        BY <3>1, <3>2, <3>3, <3>4, <3>5, <3>6 DEF Types
  <2>6. CASE Started(w, o)
      <3>1. pc' \in [Window -> [Op -> Places]]
        BY <2>6, GotoEffect DEF Started, Failed, Places
      <3>2. state' \in [Window -> [Op -> ClientStates]]
        BY <2>6, StateEffect DEF Started, ClientStates, Types
      <3>3. badge' \in [Window -> Badges]
        BY <2>6 DEF Started, Failed, setStatus, Types
      <3>4. seen' \in [Window -> Seen]
        BY <2>6 DEF Started, Types
      <3>5. UNCHANGED <<stops, client, open, binary, seenBinary, unix>>
        BY <2>6 DEF Started
      <3> QED
        BY <3>1, <3>2, <3>3, <3>4, <3>5 DEF Types
  <2> QED
    BY <1>5, <2>1, <2>2, <2>3, <2>4, <2>5, <2>6 DEF Step
<1>6. ASSUME NEW w \in Window, NEW c \in Op, ServerDies(w, c) \/ StartedAgain(w, c)
      PROVE Types'
  <2>1. state' \in [Window -> [Op -> ClientStates]]
    BY <1>6, StateEffect DEF ServerDies, StartedAgain, ClientStates
  <2>2. seen' \in [Window -> Seen]
    <3>1. CASE ServerDies(w, c)
      BY <3>1 DEF ServerDies, Note, Types
    <3>2. CASE StartedAgain(w, c)
      BY <3>2 DEF StartedAgain, Types
    <3> QED
      BY <1>6, <3>1, <3>2
  <2>3. UNCHANGED <<pc, stops, client, badge, open, binary, seenBinary, unix>>
    BY <1>6 DEF ServerDies, StartedAgain
  <2> QED
    BY <2>1, <2>2, <2>3 DEF Types
<1>7. CASE UNCHANGED vars
  BY <1>7 DEF vars, Types
<1> QED
  BY <1>1, <1>2, <1>3, <1>4, <1>5, <1>6, <1>7 DEF Next

-----------------------------------------------------------------------------
(* The cached file is whole.                                               *)

LEMMA CacheInit == Init => CacheInv
BY DEF Init, NoFile, CacheInv, OneDownload, NoModeYet, WholeAtChmod,
       ModeMeansWhole, TornOrBusy, Downloads

\* A step that leaves the file alone and begins no stage of a download; a
\* write that ends in it was torn.
LEMMA CacheQuiet ==
  ASSUME CacheInv,
         binary' = binary, unix' = unix, seenBinary \subseteq seenBinary',
         \A w \in Window : \A o \in Op :
           pc'[w][o] \in {"fetch", "write", "chmod"} => pc'[w][o] = pc[w][o],
         \A w \in Window : \A o \in Op :
           pc[w][o] = "write" => pc'[w][o] = "write" \/ "torn" \in seenBinary'
  PROVE  CacheInv'
<1>1. CASE "race" \in seenBinary'
  BY <1>1 DEF CacheInv
<1>2. CASE "race" \notin seenBinary'
  <2>1. OneDownload /\ NoModeYet /\ WholeAtChmod /\ ModeMeansWhole /\ TornOrBusy
    BY <1>2 DEF CacheInv
  <2>2. OneDownload'
    BY <2>1 DEF OneDownload, Downloads
  <2>3. NoModeYet'
    BY <2>1 DEF NoModeYet
  <2>4. WholeAtChmod' /\ ModeMeansWhole'
    BY <2>1 DEF WholeAtChmod, ModeMeansWhole
  <2>5. TornOrBusy'
    BY <2>1 DEF TornOrBusy, SomeoneWrites
  <2>6. /\ binary'.x => binary'.exists
        /\ \A w \in Window : \A o \in Op : pc'[w][o] \in {"write", "chmod"} => binary'.exists
    BY DEF CacheInv
  <2> QED
    BY <2>2, <2>3, <2>4, <2>5, <2>6 DEF CacheInv
<1> QED
  BY <1>1, <1>2

\* A download begins, and the handler is the only one at it or the race is
\* noted.
LEMMA CacheMiss ==
  ASSUME Types, CacheInv, NEW w \in Window, NEW o \in Op,
         ~isExecutable, Goto(w, o, "fetch"),
         seenBinary' = seenBinary \cup
           IF \E v \in Window : \E p \in Op : pc[v][p] \in {"fetch", "write", "chmod"}
           THEN {"race"} ELSE {},
         binary' = binary, unix' = unix
  PROVE  CacheInv'
<1>1. \A v \in Window : \A p \in Op :
        pc'[v][p] = IF v = w /\ p = o THEN "fetch" ELSE pc[v][p]
  BY GotoEffect DEF Places
<1>2. /\ binary'.x => binary'.exists
      /\ \A v \in Window : \A p \in Op : pc'[v][p] \in {"write", "chmod"} => binary'.exists
  BY <1>1 DEF CacheInv
<1>3. CASE "race" \in seenBinary'
  BY <1>2, <1>3 DEF CacheInv
<1>4. CASE "race" \notin seenBinary'
  <2>1. \A v \in Window : \A p \in Op : pc[v][p] \notin {"fetch", "write", "chmod"}
    BY <1>4
  <2>2. ModeMeansWhole /\ TornOrBusy
    BY <1>4 DEF CacheInv
  <2>3. OneDownload' /\ WholeAtChmod'
    BY <1>1, <2>1 DEF OneDownload, Downloads, WholeAtChmod
  <2>4. NoModeYet'
    BY <1>2 DEF NoModeYet, isExecutable
  <2>5. ModeMeansWhole' /\ TornOrBusy'
    BY <2>1, <2>2 DEF ModeMeansWhole, TornOrBusy, SomeoneWrites
  <2> QED
    BY <1>2, <2>3, <2>4, <2>5 DEF CacheInv
<1> QED
  BY <1>3, <1>4

\* The file is opened: the mode of an earlier one is kept, and there was none.
LEMMA CacheOpened ==
  ASSUME Types, CacheInv, NEW w \in Window, NEW o \in Op,
         pc[w][o] = "fetch", Goto(w, o, "write"), binary' = OpenFile,
         unix' = unix, seenBinary' = seenBinary
  PROVE  CacheInv'
<1>1. \A v \in Window : \A p \in Op :
        pc'[v][p] = IF v = w /\ p = o THEN "write" ELSE pc[v][p]
  BY GotoEffect DEF Places
<1>2. binary'.exists /\ binary'.x = binary.x
  BY OpenFileEffect
<1>3. CASE "race" \in seenBinary
  BY <1>2, <1>3 DEF CacheInv
<1>4. CASE "race" \notin seenBinary
  <2>1. OneDownload /\ NoModeYet
    BY <1>4 DEF CacheInv
  <2>2. \A v \in Window : \A p \in Op :
          Downloads(v, p) => v = w /\ p = o
    BY <2>1 DEF OneDownload, Downloads
  <2>3. unix => ~binary.x
    BY <2>1 DEF NoModeYet
  <2>4. OneDownload' /\ NoModeYet' /\ WholeAtChmod'
    BY <1>1, <1>2, <2>2, <2>3 DEF OneDownload, NoModeYet, WholeAtChmod, Downloads
  <2>5. ModeMeansWhole' /\ TornOrBusy'
    BY <1>1, <1>2, <2>3 DEF ModeMeansWhole, TornOrBusy, SomeoneWrites
  <2> QED
    BY <1>2, <2>4, <2>5 DEF CacheInv
<1> QED
  BY <1>3, <1>4

\* The write is complete.
LEMMA CacheWritten ==
  ASSUME Types, CacheInv, NEW w \in Window, NEW o \in Op, NEW whole \in BOOLEAN,
         NEW place \in Places, place \notin {"fetch", "write"},
         pc[w][o] = "write", Goto(w, o, place), binary' = [binary EXCEPT !.whole = whole],
         "race" \notin seenBinary => whole,
         unix' = unix, seenBinary' = seenBinary
  PROVE  CacheInv'
<1>1. \A v \in Window : \A p \in Op :
        pc'[v][p] = IF v = w /\ p = o THEN place ELSE pc[v][p]
  BY GotoEffect
<1>2. binary'.exists = binary.exists /\ binary'.x = binary.x /\ binary'.whole = whole
  BY FileEffect DEF Types
<1>3. binary.exists
  BY DEF CacheInv
<1>4. CASE "race" \in seenBinary
  BY <1>2, <1>3, <1>4 DEF CacheInv
<1>5. CASE "race" \notin seenBinary
  <2>1. OneDownload
    BY <1>5 DEF CacheInv
  <2>2. \A v \in Window : \A p \in Op :
          Downloads(v, p) => v = w /\ p = o
    BY <2>1 DEF OneDownload, Downloads
  <2>3. OneDownload' /\ NoModeYet' /\ WholeAtChmod'
    BY <1>1, <1>2, <1>5, <2>2 DEF OneDownload, NoModeYet, WholeAtChmod, Downloads
  <2>4. ModeMeansWhole' /\ TornOrBusy'
    BY <1>2, <1>5 DEF ModeMeansWhole, TornOrBusy
  <2> QED
    BY <1>2, <1>3, <2>3, <2>4 DEF CacheInv
<1> QED
  BY <1>4, <1>5

\* The mode is set last.
LEMMA CacheChmodded ==
  ASSUME Types, CacheInv, NEW w \in Window, NEW o \in Op,
         NEW place \in Places, place \notin {"fetch", "write", "chmod"},
         pc[w][o] = "chmod", Goto(w, o, place), binary' = [binary EXCEPT !.x = TRUE],
         unix' = unix, seenBinary' = seenBinary
  PROVE  CacheInv'
<1>1. \A v \in Window : \A p \in Op :
        pc'[v][p] = IF v = w /\ p = o THEN place ELSE pc[v][p]
  BY GotoEffect
<1>2. binary'.exists = binary.exists /\ binary'.x = TRUE /\ binary'.whole = binary.whole
  BY FileEffect DEF Types
<1>3. binary.exists
  BY DEF CacheInv
<1>4. CASE "race" \in seenBinary
  BY <1>2, <1>3, <1>4 DEF CacheInv
<1>5. CASE "race" \notin seenBinary
  <2>1. OneDownload /\ WholeAtChmod
    BY <1>5 DEF CacheInv
  <2>2. \A v \in Window : \A p \in Op :
          Downloads(v, p) => v = w /\ p = o
    BY <2>1 DEF OneDownload, Downloads
  <2>3. OneDownload' /\ NoModeYet' /\ WholeAtChmod'
    BY <1>1, <2>2 DEF OneDownload, NoModeYet, WholeAtChmod, Downloads
  <2>4. ModeMeansWhole' /\ TornOrBusy'
    BY <1>2, <2>1 DEF ModeMeansWhole, TornOrBusy, WholeAtChmod
  <2> QED
    BY <1>2, <1>3, <2>3, <2>4 DEF CacheInv
<1> QED
  BY <1>4, <1>5

\* A handler that goes on to a place outside the download.
LEMMA CacheGoto ==
  ASSUME Types, CacheInv, NEW w \in Window, NEW o \in Op,
         NEW place \in Places, place \notin {"fetch", "write", "chmod"},
         Goto(w, o, place), pc[w][o] # "write" \/ "torn" \in seenBinary',
         binary' = binary, unix' = unix, seenBinary \subseteq seenBinary'
  PROVE  CacheInv'
<1>1. \A v \in Window : \A p \in Op :
        pc'[v][p] = IF v = w /\ p = o THEN place ELSE pc[v][p]
  BY GotoEffect
<1> QED
  BY <1>1, CacheQuiet

LEMMA CacheStep == Types /\ CacheInv /\ ServerInv /\ [Next]_vars => CacheInv'
<1> SUFFICES ASSUME Types, CacheInv, ServerInv, [Next]_vars PROVE CacheInv'
  OBVIOUS
<1> USE OpFacts
<1>1. ASSUME NEW w \in Window, activate(w) PROVE CacheInv'
  BY <1>1, CacheGoto DEF activate, Places, ServerInv, WindowInv, ClosedIsFresh
<1>2. ASSUME NEW w \in Window, deactivate(w) PROVE CacheInv'
  BY <1>2, CacheGoto DEF deactivate, Closing, Places
<1>3. ASSUME NEW w \in Window, Gone(w) PROVE CacheInv'
  <2>1. \A v \in Window : \A p \in Op :
          pc'[v][p] = IF v = w THEN "new" ELSE pc[v][p]
    BY <1>3 DEF Gone, Types
  <2>2. \A p \in Op : pc[w][p] = "write" => "torn" \in seenBinary'
    BY <1>3 DEF Gone
  <2>3. binary' = binary /\ unix' = unix /\ seenBinary \subseteq seenBinary'
    BY <1>3 DEF Gone
  <2> QED
    BY <2>1, <2>2, <2>3, CacheQuiet
<1>4. ASSUME NEW w \in Window, NEW o \in Restart, restartServer(w, o) PROVE CacheInv'
  BY <1>4, CacheGoto DEF restartServer, Places
<1>5. ASSUME NEW w \in Window, NEW o \in Op, Step(w, o) PROVE CacheInv'
  <2>1. CASE Stopped(w, o)
    BY <2>1, CacheGoto DEF Stopped, Places
  <2>2. CASE resolveServerBinary(w, o)
    <3>1. CASE /\ ~isExecutable /\ Goto(w, o, "fetch")
               /\ seenBinary' = seenBinary \cup
                    IF \E v \in Window : \E p \in Op : pc[v][p] \in {"fetch", "write", "chmod"}
                    THEN {"race"} ELSE {}
      BY <2>2, <3>1, CacheMiss DEF resolveServerBinary
    <3>2. CASE /\ \E place \in {"start", "startBroken", "done"} : Goto(w, o, place)
               /\ seenBinary' = seenBinary
      BY <2>2, <3>2, CacheGoto DEF resolveServerBinary, Places
    <3> QED
      BY <2>2, <3>1, <3>2 DEF resolveServerBinary, Launch, Failed
  <2>3. CASE Fetched(w, o)
    <3>1. CASE Failed(w, o) /\ UNCHANGED binary
      BY <2>3, <3>1, CacheGoto DEF Fetched, Failed, Places
    <3>2. CASE Goto(w, o, "write") /\ binary' = OpenFile
      BY <2>3, <3>2, CacheOpened DEF Fetched
    <3> QED
      BY <2>3, <3>1, <3>2 DEF Fetched
  <2>4. CASE Written(w, o)
    <3>1. CASE Failed(w, o) /\ "torn" \in seenBinary' /\ seenBinary \subseteq seenBinary'
               /\ binary' = binary
      BY <2>4, <3>1, CacheGoto DEF Written, Failed, Places
    <3>2. CASE seenBinary' = seenBinary
               /\ \E whole \in BOOLEAN :
                    /\ binary' = [binary EXCEPT !.whole = whole]
                    /\ "race" \notin seenBinary => whole
                    /\ \E place \in {"chmod", "start", "startBroken"} : Goto(w, o, place)
      <4>1. PICK whole \in BOOLEAN :
              /\ binary' = [binary EXCEPT !.whole = whole]
              /\ "race" \notin seenBinary => whole
              /\ \E place \in {"chmod", "start", "startBroken"} : Goto(w, o, place)
        BY <3>2
      <4>2. PICK place \in {"chmod", "start", "startBroken"} : Goto(w, o, place)
        BY <4>1
      <4>3. place \in Places /\ place \notin {"fetch", "write"}
        BY DEF Places
      <4> QED
        BY <2>4, <3>2, <4>1, <4>2, <4>3, CacheWritten DEF Written
    <3> QED
      BY <2>4, <3>1, <3>2 DEF Written, Launch, Failed
  <2>5. CASE Chmodded(w, o)
    <3>1. CASE Failed(w, o) /\ binary' = binary
      BY <2>5, <3>1, CacheGoto DEF Chmodded, Failed, Places
    <3>2. CASE binary' = [binary EXCEPT !.x = TRUE] /\ Launch(w, o, binary.whole)
      BY <2>5, <3>2, CacheChmodded DEF Chmodded, Launch, Places
    <3> QED
      BY <2>5, <3>1, <3>2 DEF Chmodded
  <2>6. CASE Started(w, o)
    BY <2>6, CacheGoto DEF Started, Failed, Places
  <2> QED
    BY <1>5, <2>1, <2>2, <2>3, <2>4, <2>5, <2>6 DEF Step
<1>6. ASSUME NEW w \in Window, NEW c \in Op, ServerDies(w, c) \/ StartedAgain(w, c)
      PROVE CacheInv'
  BY <1>6, CacheQuiet DEF ServerDies, StartedAgain
<1>7. CASE UNCHANGED vars
  BY <1>7, CacheQuiet DEF vars
<1> QED
  BY <1>1, <1>2, <1>3, <1>4, <1>5, <1>6, <1>7 DEF Next, WindowCloses, WindowKilled

-----------------------------------------------------------------------------
(* One server.                                                             *)

\* What happens in one window says nothing about another.
LEMMA WindowUntouched ==
  ASSUME NEW v \in Window, WindowInv(v),
         open'[v] = open[v], pc'[v] = pc[v], stops'[v] = stops[v],
         client'[v] = client[v], state'[v] = state[v], badge'[v] = badge[v],
         seen'[v] = seen[v]
  PROVE  WindowInv(v)'
BY DEF WindowInv, ClosedIsFresh, DeactivateOnlyStops, OneHandler, Owned, StopsOwn,
       NothingLives, StartsOwn, StoppingIsAwaited, BadgeOfHandler,
       ReadyMeansRunning, InProgress, Live, Closing

LEMMA ServerInit == Init => ServerInv
BY OpFacts DEF Init, ServerInv, WindowInv, ClosedIsFresh, DeactivateOnlyStops, OneHandler, Owned,
       StopsOwn, NothingLives, StartsOwn, StoppingIsAwaited, BadgeOfHandler,
       ReadyMeansRunning, InProgress, Live, Closing, Searching, Starting

\* The window opens: nothing was there, so its handler is alone.
LEMMA WindowActivates ==
  ASSUME Types, NEW w \in Window, WindowInv(w), activate(w)
  PROVE  WindowInv(w)'
<1> USE OpFacts
<1>1. \A p \in Op : pc'[w][p] = IF p = "activate" THEN "resolve" ELSE "new"
  BY GotoEffect DEF activate, Places, WindowInv, ClosedIsFresh
<1>2. open'[w] /\ badge'[w] = "starting" /\ client'[w] = None
  BY DEF activate, setStatus, Types, WindowInv, ClosedIsFresh
<1>3. \A p \in Op : state'[w][p] = "none"
  BY DEF activate, WindowInv, ClosedIsFresh
<1>4. Live(w)' = {}
  BY <1>3 DEF Live
<1> QED
  BY <1>1, <1>2, <1>3, <1>4
  DEF WindowInv, ClosedIsFresh, DeactivateOnlyStops, OneHandler, Owned, StopsOwn,
      NothingLives, StartsOwn, StoppingIsAwaited, BadgeOfHandler, ReadyMeansRunning,
      InProgress, Searching, Starting

\* A restart begins: without an overlap no other handler is under way.
LEMMA WindowRestarts ==
  ASSUME Types, NEW w \in Window, WindowInv(w),
         NEW o \in Restart, restartServer(w, o)
  PROVE  WindowInv(w)'
<1> USE OpFacts
<1>1. "overlap" \notin seen'[w] => "overlap" \notin seen[w] /\ InProgress(w) = {}
  BY DEF restartServer, Note, Overlap, Types
<1>2. pc[w][o] = "new" /\ o # "deactivate" /\ ~Closing(w) /\ open[w] /\ open'[w]
  BY DEF restartServer
<1>3. client'[w] = client[w] /\ badge'[w] = "starting" /\ client[w] \in Op \cup {None}
  BY DEF restartServer, setStatus, Types
<1>4. \/ /\ client[w] = None \/ (client[w] # None /\ State(w, client[w]) = "stopped")
         /\ \A p \in Op : pc'[w][p] = IF p = o THEN "resolve" ELSE pc[w][p]
         /\ stops' = stops /\ state' = state
      \/ /\ client[w] # None /\ state[w][client[w]] = "running"
         /\ \A p \in Op : pc'[w][p] = IF p = o THEN "stop" ELSE pc[w][p]
         /\ \A p \in Op : stops'[w][p] = IF p = o THEN client[w] ELSE stops[w][p]
         /\ \A p \in Op : state'[w][p] = IF p = client[w] THEN "stopping" ELSE state[w][p]
      \/ /\ client[w] # None /\ state[w][client[w]] = "starting"
         /\ \A p \in Op : pc'[w][p] = IF p = o THEN "done" ELSE pc[w][p]
         /\ stops' = stops /\ state' = state
  BY <1>3, GotoEffect, StateEffect, StopsEffect DEF restartServer, State, Places, ClientStates
<1>5. ClosedIsFresh(w)' /\ DeactivateOnlyStops(w)'
  BY <1>1, <1>2, <1>3, <1>4 DEF WindowInv, ClosedIsFresh, DeactivateOnlyStops, Searching, Starting
<1>6. ASSUME "overlap" \notin seen'[w]
      PROVE  /\ OneHandler(w) /\ Owned(w) /\ StopsOwn(w) /\ NothingLives(w)
             /\ StartsOwn(w) /\ StoppingIsAwaited(w) /\ BadgeOfHandler(w)
             /\ ReadyMeansRunning(w)
  BY <1>1, <1>2, <1>3, <1>4, <1>6 DEF WindowInv
<1>7. ASSUME "overlap" \notin seen'[w]
      PROVE  /\ OneHandler(w)' /\ Owned(w)' /\ StopsOwn(w)' /\ NothingLives(w)'
             /\ StartsOwn(w)' /\ StoppingIsAwaited(w)' /\ BadgeOfHandler(w)'
             /\ ReadyMeansRunning(w)'
  <2>1. OneHandler(w)'
    BY <1>1, <1>2, <1>3, <1>4, <1>6, <1>7 DEF OneHandler, InProgress, Searching,
       Starting
  <2>2. Owned(w)'
    BY <1>1, <1>2, <1>3, <1>4, <1>6, <1>7 DEF Owned, NothingLives, Live, Searching
  <2>3. StopsOwn(w)'
    BY <1>1, <1>2, <1>3, <1>4, <1>6, <1>7 DEF OneHandler, StopsOwn, StoppingIsAwaited,
       InProgress, Searching, Starting
  <2>4. NothingLives(w)'
    <3>1. InProgress(w) = {} /\ Live(w) \subseteq {client[w]}
      BY <1>1, <1>6, <1>7 DEF Owned
    <3>2. \A c \in Op : state[w][c] # "stopping"
      BY <3>1, <1>6, <1>7 DEF StoppingIsAwaited, InProgress
    <3>3. \A p \in Op : p # o => pc'[w][p] \notin Searching
      BY <3>1, <1>4 DEF InProgress, Searching
    <3>4. pc'[w][o] \in Searching => Live(w) = {} /\ state' = state
      <4> SUFFICES ASSUME pc'[w][o] \in Searching PROVE Live(w) = {} /\ state' = state
        OBVIOUS
      <4>1. /\ client[w] = None \/ state[w][client[w]] \notin {"starting", "running"}
            /\ state' = state
        <5>1. CASE Goto(w, o, "stop") \/ Goto(w, o, "done")
          BY <5>1, GotoEffect DEF Places, Searching
        <5>2. CASE /\ client[w] = None \/ (client[w] # None /\ State(w, client[w]) = "stopped")
                   /\ state' = state
          BY <5>2 DEF State
        <5> QED
          BY <5>1, <5>2 DEF restartServer
      <4>2. ASSUME NEW c \in Op, c \in Live(w) PROVE FALSE
        <5>1. c = client[w] /\ client[w] \in Op
          BY <3>1, <4>2
        <5> QED
          BY <3>2, <4>1, <4>2, <5>1 DEF Live
      <4> QED
        BY <4>1, <4>2 DEF Live
    <3> QED
      BY <3>3, <3>4 DEF NothingLives, Live
  <2>5. StartsOwn(w)'
    BY <1>1, <1>2, <1>3, <1>4, <1>6, <1>7 DEF OneHandler, StartsOwn, InProgress,
       Searching, Starting
  <2>6. StoppingIsAwaited(w)'
    BY <1>1, <1>2, <1>3, <1>4, <1>6, <1>7 DEF StopsOwn, NothingLives,
       StoppingIsAwaited, Live, Searching, Starting
  <2>7. BadgeOfHandler(w)'
    BY <1>1, <1>2, <1>3, <1>4, <1>6, <1>7 DEF OneHandler, BadgeOfHandler, InProgress,
       Searching, Starting
  <2>8. ReadyMeansRunning(w)'
    BY <1>1, <1>2, <1>3, <1>4, <1>6, <1>7 DEF Owned, BadgeOfHandler,
       ReadyMeansRunning, InProgress, Live, Closing, Searching, Starting
  <2> QED
    BY <2>1, <2>2, <2>3, <2>4, <2>5, <2>6, <2>7, <2>8
<1> QED
  BY <1>5, <1>7 DEF WindowInv

\* stop() has answered or failed.
LEMMA WindowStops ==
  ASSUME Types, NEW w \in Window, WindowInv(w),
         NEW o \in Op, Stopped(w, o)
  PROVE  WindowInv(w)'
<1> USE OpFacts
<1>1. open[w] /\ open'[w] /\ pc[w][o] = "stop" /\ badge'[w] = badge[w]
  BY DEF Stopped, WindowInv, ClosedIsFresh, Types
<1>2. /\ "overlap" \notin seen'[w] => "overlap" \notin seen[w]
      /\ "died" \notin seen'[w] => "died" \notin seen[w]
  BY DEF Stopped, Note, Types
<1>3. "overlap" \notin seen'[w] =>
        /\ client[w] \in Op /\ stops[w][o] = client[w]
        /\ \A p \in Op : state'[w][p] = IF p = client[w] THEN "stopped" ELSE state[w][p]
  <2> SUFFICES ASSUME "overlap" \notin seen'[w]
               PROVE  /\ client[w] \in Op /\ stops[w][o] = client[w]
                      /\ \A p \in Op : state'[w][p] =
                           IF p = client[w] THEN "stopped" ELSE state[w][p]
    OBVIOUS
  <2>1. client[w] \in Op /\ stops[w][o] = client[w]
    BY <1>1, <1>2 DEF WindowInv, StopsOwn, Types
  <2>2. "stopped" \in ClientStates /\ state' = [state EXCEPT ![w][client[w]] = "stopped"]
    BY <2>1 DEF Stopped, ClientStates
  <2> QED
    BY <2>1, <2>2, StateEffect
<1>4. \A p \in Op : stops'[w][p] = IF p = o THEN None ELSE stops[w][p]
  <2>1. None \in Op \cup {None} /\ stops' = [stops EXCEPT ![w][o] = None]
    BY DEF Stopped
  <2> QED
    BY <2>1, StopsEffect
<1>5. \/ /\ client'[w] = None
         /\ \A p \in Op : pc'[w][p] =
              IF p = o THEN (IF o = "deactivate" THEN "done" ELSE "resolve") ELSE pc[w][p]
      \/ /\ client'[w] = client[w]
         /\ \A p \in Op : pc'[w][p] = IF p = o THEN "done" ELSE pc[w][p]
  <2>1. CASE client' = [client EXCEPT ![w] = None]
              /\ Goto(w, o, IF o = "deactivate" THEN "done" ELSE "resolve")
    BY <2>1, GotoEffect DEF Types, Places
  <2>2. CASE client' = client /\ Goto(w, o, "done")
    BY <2>2, GotoEffect DEF Types, Places
  <2> QED
    BY <2>1, <2>2 DEF Stopped
<1>6. ClosedIsFresh(w)' /\ DeactivateOnlyStops(w)'
  BY <1>1, <1>2, <1>3, <1>4, <1>5 DEF WindowInv, ClosedIsFresh, DeactivateOnlyStops, Searching, Starting
<1>7. ASSUME "overlap" \notin seen'[w]
      PROVE  /\ OneHandler(w) /\ Owned(w) /\ StopsOwn(w) /\ NothingLives(w)
             /\ StartsOwn(w) /\ StoppingIsAwaited(w) /\ BadgeOfHandler(w)
             /\ ReadyMeansRunning(w)
  BY <1>1, <1>2, <1>3, <1>4, <1>5, <1>7 DEF WindowInv
<1>8. ASSUME "overlap" \notin seen'[w]
      PROVE  /\ OneHandler(w)' /\ Owned(w)' /\ StopsOwn(w)' /\ NothingLives(w)'
             /\ StartsOwn(w)' /\ StoppingIsAwaited(w)' /\ BadgeOfHandler(w)'
             /\ ReadyMeansRunning(w)'
  <2>1. OneHandler(w)'
    BY <1>1, <1>2, <1>3, <1>4, <1>5, <1>7, <1>8 DEF OneHandler, InProgress, Searching,
       Starting
  <2>2. Owned(w)'
    BY <1>1, <1>2, <1>3, <1>4, <1>5, <1>7, <1>8 DEF Owned, NothingLives, Live,
       Searching
  <2>3. StopsOwn(w)'
    BY <1>1, <1>2, <1>3, <1>4, <1>5, <1>7, <1>8 DEF OneHandler, StopsOwn,
       StoppingIsAwaited, InProgress, Searching, Starting
  <2>4. NothingLives(w)'
    BY <1>1, <1>2, <1>3, <1>4, <1>5, <1>7, <1>8 DEF OneHandler, Owned, NothingLives,
       InProgress, Live, Searching, Starting
  <2>5. StartsOwn(w)'
    BY <1>1, <1>2, <1>3, <1>4, <1>5, <1>7, <1>8 DEF OneHandler, StartsOwn, InProgress,
       Searching, Starting
  <2>6. StoppingIsAwaited(w)'
    BY <1>1, <1>2, <1>3, <1>4, <1>5, <1>7, <1>8 DEF OneHandler, Owned, StopsOwn,
       NothingLives, StartsOwn, StoppingIsAwaited, BadgeOfHandler, ReadyMeansRunning,
       InProgress, Live, Closing, Searching, Starting
  <2>7. BadgeOfHandler(w)'
    BY <1>1, <1>2, <1>3, <1>4, <1>5, <1>7, <1>8 DEF OneHandler, BadgeOfHandler,
       InProgress, Searching, Starting
  <2>8. ReadyMeansRunning(w)'
    BY <1>1, <1>2, <1>3, <1>4, <1>5, <1>7, <1>8 DEF Owned, BadgeOfHandler,
       ReadyMeansRunning, InProgress, Live, Closing, Searching, Starting
  <2> QED
    BY <2>1, <2>2, <2>3, <2>4, <2>5, <2>6, <2>7, <2>8
<1> QED
  BY <1>6, <1>8 DEF WindowInv

\* A handler that found its binary starts the client of its own.
LEMMA WindowLaunches ==
  ASSUME Types, NEW w \in Window, WindowInv(w),
         NEW o \in Op, pc[w][o] \in Searching, NEW usable, Launch(w, o, usable),
         UNCHANGED <<open, stops, badge, seen>>
  PROVE  WindowInv(w)'
<1> USE OpFacts
<1>1. open[w] /\ open'[w] /\ o # "deactivate" /\ pc[w][o] \in Searching
  BY DEF WindowInv, ClosedIsFresh, DeactivateOnlyStops, Searching
<1>2. client'[w] = o
  BY DEF Launch, Types
<1>3. \A p \in Op : state'[w][p] = IF p = o THEN "starting" ELSE state[w][p]
  <2>1. "starting" \in ClientStates /\ state' = [state EXCEPT ![w][o] = "starting"]
    BY DEF Launch, ClientStates
  <2> QED
    BY <2>1, StateEffect
<1>4. \E at \in Starting : \A p \in Op : pc'[w][p] = IF p = o THEN at ELSE pc[w][p]
  <2>1. CASE usable
    <3>1. Goto(w, o, "start")
      BY <2>1 DEF Launch
    <3> QED
      BY <3>1, GotoEffect DEF Places, Starting
  <2>2. CASE ~usable
    <3>1. Goto(w, o, "startBroken")
      BY <2>2 DEF Launch
    <3> QED
      BY <3>1, GotoEffect DEF Places, Starting
  <2> QED
    BY <2>1, <2>2
<1>5. ClosedIsFresh(w)' /\ DeactivateOnlyStops(w)'
  BY <1>1, <1>2, <1>3, <1>4 DEF WindowInv, ClosedIsFresh, DeactivateOnlyStops, Searching, Starting
<1>6. ASSUME "overlap" \notin seen'[w]
      PROVE  /\ OneHandler(w) /\ Owned(w) /\ StopsOwn(w) /\ NothingLives(w)
             /\ StartsOwn(w) /\ StoppingIsAwaited(w) /\ BadgeOfHandler(w)
             /\ ReadyMeansRunning(w)
  BY <1>1, <1>2, <1>3, <1>4, <1>6 DEF WindowInv
<1>7. ASSUME "overlap" \notin seen'[w]
      PROVE  /\ OneHandler(w)' /\ Owned(w)' /\ StopsOwn(w)' /\ NothingLives(w)'
             /\ StartsOwn(w)' /\ StoppingIsAwaited(w)' /\ BadgeOfHandler(w)'
             /\ ReadyMeansRunning(w)'
  <2>1. OneHandler(w)'
    BY <1>1, <1>2, <1>3, <1>4, <1>6, <1>7 DEF OneHandler, InProgress, Searching,
       Starting
  <2>2. Owned(w)'
    BY <1>1, <1>2, <1>3, <1>4, <1>6, <1>7 DEF Owned, NothingLives, Live, Searching
  <2>3. StopsOwn(w)'
    BY <1>1, <1>2, <1>3, <1>4, <1>6, <1>7 DEF OneHandler, StopsOwn, StoppingIsAwaited,
       InProgress, Searching, Starting
  <2>4. NothingLives(w)'
    BY <1>1, <1>2, <1>3, <1>4, <1>6, <1>7 DEF OneHandler, Owned, NothingLives,
       InProgress, Live, Searching, Starting
  <2>5. StartsOwn(w)'
    BY <1>1, <1>2, <1>3, <1>4, <1>6, <1>7 DEF OneHandler, StartsOwn, InProgress,
       Searching, Starting
  <2>6. StoppingIsAwaited(w)'
    BY <1>1, <1>2, <1>3, <1>4, <1>6, <1>7 DEF StopsOwn, NothingLives,
       StoppingIsAwaited, Live, Searching, Starting
  <2>7. BadgeOfHandler(w)'
    BY <1>1, <1>2, <1>3, <1>4, <1>6, <1>7 DEF OneHandler, BadgeOfHandler, InProgress,
       Searching, Starting
  <2>8. ReadyMeansRunning(w)'
    BY <1>1, <1>2, <1>3, <1>4, <1>6, <1>7 DEF Owned, BadgeOfHandler,
       ReadyMeansRunning, InProgress, Live, Closing, Searching, Starting
  <2> QED
    BY <2>1, <2>2, <2>3, <2>4, <2>5, <2>6, <2>7, <2>8
<1> QED
  BY <1>5, <1>7 DEF WindowInv

\* A handler without a binary ends with an error.
LEMMA WindowFails ==
  ASSUME Types, NEW w \in Window, WindowInv(w),
         NEW o \in Op, pc[w][o] \in Searching, Failed(w, o),
         UNCHANGED <<open, stops, client, state, seen>>
  PROVE  WindowInv(w)'
<1> USE OpFacts
<1>1. open[w] /\ open'[w] /\ o # "deactivate" /\ pc[w][o] \in Searching
  BY DEF WindowInv, ClosedIsFresh, DeactivateOnlyStops, Searching
<1>2. badge'[w] = "error"
  BY DEF Failed, setStatus, Types
<1>3. \A p \in Op : pc'[w][p] = IF p = o THEN "done" ELSE pc[w][p]
  BY GotoEffect DEF Failed, Places
<1>4. ClosedIsFresh(w)' /\ DeactivateOnlyStops(w)'
  BY <1>1, <1>2, <1>3 DEF WindowInv, ClosedIsFresh, DeactivateOnlyStops, Searching, Starting
<1>5. ASSUME "overlap" \notin seen'[w]
      PROVE  /\ OneHandler(w) /\ Owned(w) /\ StopsOwn(w) /\ NothingLives(w)
             /\ StartsOwn(w) /\ StoppingIsAwaited(w) /\ BadgeOfHandler(w)
             /\ ReadyMeansRunning(w)
  BY <1>1, <1>2, <1>3, <1>5 DEF WindowInv
<1>6. ASSUME "overlap" \notin seen'[w]
      PROVE  /\ OneHandler(w)' /\ Owned(w)' /\ StopsOwn(w)' /\ NothingLives(w)'
             /\ StartsOwn(w)' /\ StoppingIsAwaited(w)' /\ BadgeOfHandler(w)'
             /\ ReadyMeansRunning(w)'
  <2>1. OneHandler(w)'
    BY <1>1, <1>2, <1>3, <1>5, <1>6 DEF OneHandler, InProgress, Searching, Starting
  <2>2. Owned(w)'
    BY <1>1, <1>2, <1>3, <1>5, <1>6 DEF Owned, NothingLives, Live, Searching
  <2>3. StopsOwn(w)'
    BY <1>1, <1>2, <1>3, <1>5, <1>6 DEF OneHandler, StopsOwn, StoppingIsAwaited,
       InProgress, Searching, Starting
  <2>4. NothingLives(w)'
    BY <1>1, <1>2, <1>3, <1>5, <1>6 DEF OneHandler, Owned, NothingLives, InProgress,
       Live, Searching, Starting
  <2>5. StartsOwn(w)'
    BY <1>1, <1>2, <1>3, <1>5, <1>6 DEF OneHandler, StartsOwn, InProgress, Searching,
       Starting
  <2>6. StoppingIsAwaited(w)'
    BY <1>1, <1>2, <1>3, <1>5, <1>6 DEF StopsOwn, NothingLives, StoppingIsAwaited,
       Live, Searching, Starting
  <2>7. BadgeOfHandler(w)'
    BY <1>1, <1>2, <1>3, <1>5, <1>6 DEF OneHandler, BadgeOfHandler, InProgress,
       Searching, Starting
  <2>8. ReadyMeansRunning(w)'
    BY <1>1, <1>2, <1>3, <1>5, <1>6 DEF Owned, BadgeOfHandler, ReadyMeansRunning,
       InProgress, Live, Closing, Searching, Starting
  <2> QED
    BY <2>1, <2>2, <2>3, <2>4, <2>5, <2>6, <2>7, <2>8
<1> QED
  BY <1>4, <1>6 DEF WindowInv

\* A handler goes from one await of the search to the next.
LEMMA WindowGoesOn ==
  ASSUME Types, NEW w \in Window, WindowInv(w),
         NEW o \in Op, pc[w][o] \in Searching,
         NEW at \in {"fetch", "write", "chmod"}, Goto(w, o, at),
         UNCHANGED <<open, stops, client, state, badge, seen>>
  PROVE  WindowInv(w)'
<1> USE OpFacts
<1>1. open[w] /\ open'[w] /\ o # "deactivate" /\ pc[w][o] \in Searching
  BY DEF WindowInv, ClosedIsFresh, DeactivateOnlyStops, Searching
<1>2. (\A p \in Op : pc'[w][p] = IF p = o THEN at ELSE pc[w][p]) /\ at \in Searching
  BY GotoEffect DEF Places, Searching
<1>3. ClosedIsFresh(w)' /\ DeactivateOnlyStops(w)'
  BY <1>1, <1>2 DEF WindowInv, ClosedIsFresh, DeactivateOnlyStops, Searching, Starting
<1>4. ASSUME "overlap" \notin seen'[w]
      PROVE  /\ OneHandler(w) /\ Owned(w) /\ StopsOwn(w) /\ NothingLives(w)
             /\ StartsOwn(w) /\ StoppingIsAwaited(w) /\ BadgeOfHandler(w)
             /\ ReadyMeansRunning(w)
  BY <1>1, <1>2, <1>4 DEF WindowInv
<1>5. ASSUME "overlap" \notin seen'[w]
      PROVE  /\ OneHandler(w)' /\ Owned(w)' /\ StopsOwn(w)' /\ NothingLives(w)'
             /\ StartsOwn(w)' /\ StoppingIsAwaited(w)' /\ BadgeOfHandler(w)'
             /\ ReadyMeansRunning(w)'
  <2>1. OneHandler(w)'
    BY <1>1, <1>2, <1>4, <1>5 DEF OneHandler, InProgress, Searching, Starting
  <2>2. Owned(w)'
    BY <1>1, <1>2, <1>4, <1>5 DEF Owned, NothingLives, Live, Searching
  <2>3. StopsOwn(w)'
    BY <1>1, <1>2, <1>4, <1>5 DEF OneHandler, StopsOwn, StoppingIsAwaited, InProgress,
       Searching, Starting
  <2>4. NothingLives(w)'
    BY <1>1, <1>2, <1>4, <1>5 DEF OneHandler, Owned, NothingLives, InProgress, Live,
       Searching, Starting
  <2>5. StartsOwn(w)'
    BY <1>1, <1>2, <1>4, <1>5 DEF OneHandler, StartsOwn, InProgress, Searching,
       Starting
  <2>6. StoppingIsAwaited(w)'
    BY <1>1, <1>2, <1>4, <1>5 DEF StopsOwn, NothingLives, StoppingIsAwaited, Live,
       Searching, Starting
  <2>7. BadgeOfHandler(w)'
    BY <1>1, <1>2, <1>4, <1>5 DEF OneHandler, BadgeOfHandler, InProgress, Searching,
       Starting
  <2>8. ReadyMeansRunning(w)'
    BY <1>1, <1>2, <1>4, <1>5 DEF Owned, BadgeOfHandler, ReadyMeansRunning,
       InProgress, Live, Closing, Searching, Starting
  <2> QED
    BY <2>1, <2>2, <2>3, <2>4, <2>5, <2>6, <2>7, <2>8
<1> QED
  BY <1>3, <1>5 DEF WindowInv

\* start() has answered.
LEMMA WindowStarted ==
  ASSUME Types, NEW w \in Window, WindowInv(w),
         NEW o \in Op, Started(w, o)
  PROVE  WindowInv(w)'
<1> USE OpFacts
<1>1. open[w] /\ open'[w] /\ pc[w][o] \in Starting /\ o # "deactivate"
  BY DEF Started, WindowInv, ClosedIsFresh, DeactivateOnlyStops, Starting
<1>2. "overlap" \notin seen'[w] => "overlap" \notin seen[w] /\ client'[w] = client[w]
  BY DEF Started, Types
<1>3. (\A p \in Op : pc'[w][p] = IF p = o THEN "done" ELSE pc[w][p]) /\ stops' = stops
  BY GotoEffect DEF Started, Failed, Places
<1>4. \/ /\ badge'[w] = "ready"
         /\ \A p \in Op : state'[w][p] = IF p = o THEN "running" ELSE state[w][p]
      \/ /\ badge'[w] = "error"
         /\ \A p \in Op : state'[w][p] = IF p = o THEN "stopped" ELSE state[w][p]
  BY StateEffect DEF Started, Failed, setStatus, Types, ClientStates
<1>5. ClosedIsFresh(w)' /\ DeactivateOnlyStops(w)'
  BY <1>1, <1>2, <1>3, <1>4 DEF WindowInv, ClosedIsFresh, DeactivateOnlyStops, Searching, Starting
<1>6. ASSUME "overlap" \notin seen'[w]
      PROVE  /\ OneHandler(w) /\ Owned(w) /\ StopsOwn(w) /\ NothingLives(w)
             /\ StartsOwn(w) /\ StoppingIsAwaited(w) /\ BadgeOfHandler(w)
             /\ ReadyMeansRunning(w)
  BY <1>1, <1>2, <1>3, <1>4, <1>6 DEF WindowInv
<1>7. ASSUME "overlap" \notin seen'[w]
      PROVE  /\ OneHandler(w)' /\ Owned(w)' /\ StopsOwn(w)' /\ NothingLives(w)'
             /\ StartsOwn(w)' /\ StoppingIsAwaited(w)' /\ BadgeOfHandler(w)'
             /\ ReadyMeansRunning(w)'
  <2>1. OneHandler(w)'
    BY <1>1, <1>2, <1>3, <1>4, <1>6, <1>7 DEF OneHandler, InProgress, Searching,
       Starting
  <2>2. Owned(w)'
    BY <1>1, <1>2, <1>3, <1>4, <1>6, <1>7 DEF OneHandler, Owned, StopsOwn,
       NothingLives, StartsOwn, StoppingIsAwaited, BadgeOfHandler, ReadyMeansRunning,
       InProgress, Live, Closing, Searching, Starting
  <2>3. StopsOwn(w)'
    BY <1>1, <1>2, <1>3, <1>4, <1>6, <1>7 DEF OneHandler, StopsOwn, StoppingIsAwaited,
       InProgress, Searching, Starting
  <2>4. NothingLives(w)'
    BY <1>1, <1>2, <1>3, <1>4, <1>6, <1>7 DEF OneHandler, Owned, NothingLives,
       InProgress, Live, Searching, Starting
  <2>5. StartsOwn(w)'
    BY <1>1, <1>2, <1>3, <1>4, <1>6, <1>7 DEF OneHandler, StartsOwn, InProgress,
       Searching, Starting
  <2>6. StoppingIsAwaited(w)'
    BY <1>1, <1>2, <1>3, <1>4, <1>6, <1>7 DEF StopsOwn, NothingLives,
       StoppingIsAwaited, Live, Searching, Starting
  <2>7. BadgeOfHandler(w)'
    BY <1>1, <1>2, <1>3, <1>4, <1>6, <1>7 DEF OneHandler, BadgeOfHandler, InProgress,
       Searching, Starting
  <2>8. ReadyMeansRunning(w)'
    BY <1>1, <1>2, <1>3, <1>4, <1>6, <1>7 DEF OneHandler, Owned, StopsOwn,
       NothingLives, StartsOwn, StoppingIsAwaited, BadgeOfHandler, ReadyMeansRunning,
       InProgress, Live, Closing, Searching, Starting
  <2> QED
    BY <2>1, <2>2, <2>3, <2>4, <2>5, <2>6, <2>7, <2>8
<1> QED
  BY <1>5, <1>7 DEF WindowInv

\* deactivate() begins.
LEMMA WindowDeactivates ==
  ASSUME Types, NEW w \in Window, WindowInv(w),
         deactivate(w)
  PROVE  WindowInv(w)'
<1> USE OpFacts
<1>1. "overlap" \notin seen'[w] => "overlap" \notin seen[w] /\ InProgress(w) = {}
  BY DEF deactivate, Note, Overlap, Types
<1>2. open[w] /\ open'[w] /\ badge'[w] = badge[w] /\ client[w] \in Op \cup {None}
  BY DEF deactivate, Types
<1>3. \/ /\ client[w] = None \/ (client[w] # None /\ state[w][client[w]] \notin {"starting", "running"})
         /\ client'[w] = None
         /\ \A p \in Op : pc'[w][p] = IF p = "deactivate" THEN "done" ELSE pc[w][p]
         /\ stops' = stops /\ state' = state
      \/ /\ client[w] # None /\ state[w][client[w]] = "running"
         /\ client'[w] = client[w]
         /\ \A p \in Op : pc'[w][p] = IF p = "deactivate" THEN "stop" ELSE pc[w][p]
         /\ \A p \in Op : stops'[w][p] = IF p = "deactivate" THEN client[w] ELSE stops[w][p]
         /\ \A p \in Op : state'[w][p] = IF p = client[w] THEN "stopping" ELSE state[w][p]
      \/ /\ client[w] # None /\ state[w][client[w]] = "starting"
         /\ client'[w] = client[w]
         /\ \A p \in Op : pc'[w][p] = IF p = "deactivate" THEN "done" ELSE pc[w][p]
         /\ stops' = stops /\ state' = state
  <2>1. CASE /\ client[w] = None \/ (client[w] # None /\ State(w, client[w]) = "stopped")
             /\ client' = [client EXCEPT ![w] = None]
             /\ Goto(w, "deactivate", "done")
             /\ UNCHANGED <<stops, state>>
    BY <2>1, GotoEffect DEF State, Places, Types
  <2>2. CASE /\ client[w] # None /\ State(w, client[w]) = "running"
             /\ Goto(w, "deactivate", "stop")
             /\ stops' = [stops EXCEPT ![w]["deactivate"] = client[w]]
             /\ state' = [state EXCEPT ![w][client[w]] = "stopping"]
             /\ UNCHANGED client
    <3>1. client[w] \in Op /\ state[w][client[w]] = "running"
      BY <2>2, <1>2 DEF State
    <3>2. \A p \in Op : pc'[w][p] = IF p = "deactivate" THEN "stop" ELSE pc[w][p]
      BY <2>2, GotoEffect DEF Places
    <3>3. \A p \in Op : stops'[w][p] = IF p = "deactivate" THEN client[w] ELSE stops[w][p]
      BY <2>2, <3>1, StopsEffect
    <3>4. \A p \in Op : state'[w][p] = IF p = client[w] THEN "stopping" ELSE state[w][p]
      <4>1. "stopping" \in ClientStates
        BY DEF ClientStates
      <4> QED
        BY <2>2, <3>1, <4>1, StateEffect
    <3> QED
      BY <2>2, <3>1, <3>2, <3>3, <3>4
  <2>3. CASE /\ client[w] # None /\ State(w, client[w]) = "starting"
             /\ Goto(w, "deactivate", "done")
             /\ UNCHANGED <<client, stops, state>>
    BY <2>3, GotoEffect DEF State, Places
  <2> QED
    BY <2>1, <2>2, <2>3 DEF deactivate
<1>4. ClosedIsFresh(w)' /\ DeactivateOnlyStops(w)'
  BY <1>1, <1>2, <1>3 DEF WindowInv, ClosedIsFresh, DeactivateOnlyStops, Searching, Starting
<1>5. ASSUME "overlap" \notin seen'[w]
      PROVE  /\ OneHandler(w) /\ Owned(w) /\ StopsOwn(w) /\ NothingLives(w)
             /\ StartsOwn(w) /\ StoppingIsAwaited(w) /\ BadgeOfHandler(w)
             /\ ReadyMeansRunning(w)
  BY <1>1, <1>2, <1>3, <1>5 DEF WindowInv
<1>6. ASSUME "overlap" \notin seen'[w]
      PROVE  /\ OneHandler(w)' /\ Owned(w)' /\ StopsOwn(w)' /\ NothingLives(w)'
             /\ StartsOwn(w)' /\ StoppingIsAwaited(w)' /\ BadgeOfHandler(w)'
             /\ ReadyMeansRunning(w)'
  <2>1. OneHandler(w)'
    BY <1>1, <1>2, <1>3, <1>5, <1>6 DEF OneHandler, InProgress, Searching, Starting
  <2>2. Owned(w)'
    BY <1>1, <1>2, <1>3, <1>5, <1>6 DEF OneHandler, Owned, StopsOwn, NothingLives,
       StartsOwn, StoppingIsAwaited, BadgeOfHandler, ReadyMeansRunning, InProgress,
       Live, Closing, Searching, Starting
  <2>3. StopsOwn(w)'
    BY <1>1, <1>2, <1>3, <1>5, <1>6 DEF OneHandler, StopsOwn, StoppingIsAwaited,
       InProgress, Searching, Starting
  <2>4. NothingLives(w)'
    BY <1>1, <1>2, <1>3, <1>5, <1>6 DEF OneHandler, Owned, NothingLives, InProgress,
       Live, Searching, Starting
  <2>5. StartsOwn(w)'
    BY <1>1, <1>2, <1>3, <1>5, <1>6 DEF OneHandler, StartsOwn, InProgress, Searching,
       Starting
  <2>6. StoppingIsAwaited(w)'
    BY <1>1, <1>2, <1>3, <1>5, <1>6 DEF OneHandler, Owned, StopsOwn, NothingLives,
       StartsOwn, StoppingIsAwaited, BadgeOfHandler, ReadyMeansRunning, InProgress,
       Live, Closing, Searching, Starting
  <2>7. BadgeOfHandler(w)'
    BY <1>1, <1>2, <1>3, <1>5, <1>6 DEF OneHandler, BadgeOfHandler, InProgress,
       Searching, Starting
  <2>8. ReadyMeansRunning(w)'
    BY <1>1, <1>2, <1>3, <1>5, <1>6 DEF Owned, BadgeOfHandler, ReadyMeansRunning,
       InProgress, Live, Closing, Searching, Starting
  <2> QED
    BY <2>1, <2>2, <2>3, <2>4, <2>5, <2>6, <2>7, <2>8
<1> QED
  BY <1>4, <1>6 DEF WindowInv

\* A server dies, comes back or does not, while no handler waits for it.
LEMMA WindowServerChanges ==
  ASSUME Types, NEW w \in Window, WindowInv(w),
         NEW c \in Op, ServerDies(w, c) \/ StartedAgain(w, c)
  PROVE  WindowInv(w)'
<1> USE OpFacts
<1>1. "overlap" \notin seen'[w] => "overlap" \notin seen[w]
      /\ ("died" \notin seen'[w] => "died" \notin seen[w] /\ StartedAgain(w, c))
  BY DEF ServerDies, StartedAgain, Note, Types
<1>2. UNCHANGED <<open, pc, stops, client, badge>>
  BY DEF ServerDies, StartedAgain
<1>3. \/ state[w][c] = "running"
      \/ state[w][c] = "starting" /\ pc[w][c] = "done"
  BY DEF ServerDies, StartedAgain
<1>4. StartedAgain(w, c) => state[w][c] = "starting"
  BY DEF StartedAgain
<1>5. \E s \in {"starting", "running", "stopped"} :
        \A p \in Op : state'[w][p] = IF p = c THEN s ELSE state[w][p]
  <2>1. PICK s \in {"starting", "running", "stopped"} : state' = [state EXCEPT ![w][c] = s]
    BY DEF ServerDies, StartedAgain
  <2>2. s \in ClientStates
    BY <2>1 DEF ClientStates
  <2>3. \A p \in Op : state'[w][p] = IF p = c THEN s ELSE state[w][p]
    BY <2>1, <2>2, StateEffect
  <2> QED
    BY <2>3
<1>6. ClosedIsFresh(w)' /\ DeactivateOnlyStops(w)'
  BY <1>1, <1>2, <1>3, <1>4, <1>5 DEF WindowInv, ClosedIsFresh, DeactivateOnlyStops, Searching, Starting
<1>7. ASSUME "overlap" \notin seen'[w]
      PROVE  /\ OneHandler(w) /\ Owned(w) /\ StopsOwn(w) /\ NothingLives(w)
             /\ StartsOwn(w) /\ StoppingIsAwaited(w) /\ BadgeOfHandler(w)
             /\ ReadyMeansRunning(w)
  BY <1>1, <1>2, <1>3, <1>4, <1>5, <1>7 DEF WindowInv
<1>8. ASSUME "overlap" \notin seen'[w]
      PROVE  /\ OneHandler(w)' /\ Owned(w)' /\ StopsOwn(w)' /\ NothingLives(w)'
             /\ StartsOwn(w)' /\ StoppingIsAwaited(w)' /\ BadgeOfHandler(w)'
             /\ ReadyMeansRunning(w)'
  <2>1. OneHandler(w)'
    BY <1>1, <1>2, <1>3, <1>4, <1>5, <1>7, <1>8 DEF OneHandler, InProgress, Searching,
       Starting
  <2>2. Owned(w)'
    BY <1>1, <1>2, <1>3, <1>4, <1>5, <1>7, <1>8 DEF Owned, NothingLives, Live,
       Searching
  <2>3. StopsOwn(w)'
    BY <1>1, <1>2, <1>3, <1>4, <1>5, <1>7, <1>8 DEF OneHandler, Owned, StopsOwn,
       NothingLives, StartsOwn, StoppingIsAwaited, BadgeOfHandler, ReadyMeansRunning,
       InProgress, Live, Closing, Searching, Starting
  <2>4. NothingLives(w)'
    BY <1>1, <1>2, <1>3, <1>4, <1>5, <1>7, <1>8 DEF OneHandler, Owned, NothingLives,
       InProgress, Live, Searching, Starting
  <2>5. StartsOwn(w)'
    BY <1>1, <1>2, <1>3, <1>4, <1>5, <1>7, <1>8 DEF OneHandler, StartsOwn, InProgress,
       Searching, Starting
  <2>6. StoppingIsAwaited(w)'
    BY <1>1, <1>2, <1>3, <1>4, <1>5, <1>7, <1>8 DEF StopsOwn, NothingLives,
       StoppingIsAwaited, Live, Searching, Starting
  <2>7. BadgeOfHandler(w)'
    BY <1>1, <1>2, <1>3, <1>4, <1>5, <1>7, <1>8 DEF OneHandler, BadgeOfHandler,
       InProgress, Searching, Starting
  <2>8. ReadyMeansRunning(w)'
    BY <1>1, <1>2, <1>3, <1>4, <1>5, <1>7, <1>8 DEF Owned, BadgeOfHandler,
       ReadyMeansRunning, InProgress, Live, Closing, Searching, Starting
  <2> QED
    BY <2>1, <2>2, <2>3, <2>4, <2>5, <2>6, <2>7, <2>8
<1> QED
  BY <1>6, <1>8 DEF WindowInv

\* The window goes away, and everything in it.
LEMMA WindowGone ==
  ASSUME Types, NEW w \in Window, Gone(w)
  PROVE  WindowInv(w)'
<1> USE OpFacts
<1>1. \A p \in Op : pc'[w][p] = "new" /\ state'[w][p] = "none"
  BY DEF Gone, Types
<1>2. ~open'[w] /\ client'[w] = None /\ badge'[w] = "none" /\ seen'[w] = {}
  BY DEF Gone, Types
<1> QED
  BY <1>1, <1>2
  DEF WindowInv, ClosedIsFresh, DeactivateOnlyStops, OneHandler, Owned, StopsOwn,
      NothingLives, StartsOwn, StoppingIsAwaited, BadgeOfHandler, ReadyMeansRunning,
      InProgress, Live, Searching, Starting

\* Every step keeps what holds of each window.
LEMMA ServerStep == Types /\ ServerInv /\ [Next]_vars => ServerInv'
<1> SUFFICES ASSUME Types, ServerInv, [Next]_vars PROVE ServerInv'
  OBVIOUS
<1> USE OpFacts
<1> DEFINE Others(w) == \A v \in Window \ {w} :
             /\ open'[v] = open[v] /\ pc'[v] = pc[v] /\ stops'[v] = stops[v]
             /\ client'[v] = client[v] /\ state'[v] = state[v]
             /\ badge'[v] = badge[v] /\ seen'[v] = seen[v]
<1>1. ASSUME NEW w \in Window, WindowInv(w)', Others(w) PROVE ServerInv'
  <2>1. ASSUME NEW v \in Window, v # w PROVE WindowInv(v)'
    BY <1>1, <2>1, WindowUntouched DEF ServerInv
  <2> QED
    BY <1>1, <2>1 DEF ServerInv
<1>2. ASSUME NEW w \in Window, activate(w) PROVE ServerInv'
  <2>1. WindowInv(w)'
    BY <1>2, WindowActivates DEF ServerInv
  <2>2. Others(w)
    BY <1>2 DEF activate, setStatus, Goto, Types
  <2> QED
    BY <1>1, <2>1, <2>2
<1>3. ASSUME NEW w \in Window, deactivate(w) PROVE ServerInv'
  <2>1. WindowInv(w)'
    BY <1>3, WindowDeactivates DEF ServerInv
  <2>2. Others(w)
    BY <1>3 DEF deactivate, Note, Goto, Types
  <2> QED
    BY <1>1, <2>1, <2>2
<1>4. ASSUME NEW w \in Window, Gone(w) PROVE ServerInv'
  <2>1. WindowInv(w)'
    BY <1>4, WindowGone
  <2>2. Others(w)
    BY <1>4 DEF Gone, Types
  <2> QED
    BY <1>1, <2>1, <2>2
<1>5. ASSUME NEW w \in Window, NEW o \in Restart, restartServer(w, o) PROVE ServerInv'
  <2>1. WindowInv(w)'
    BY <1>5, WindowRestarts DEF ServerInv
  <2>2. Others(w)
    BY <1>5 DEF restartServer, setStatus, Note, Goto, Types
  <2> QED
    BY <1>1, <2>1, <2>2
<1>6. ASSUME NEW w \in Window, NEW c \in Op, ServerDies(w, c) \/ StartedAgain(w, c)
      PROVE ServerInv'
  <2>1. WindowInv(w)'
    BY <1>6, WindowServerChanges DEF ServerInv
  <2>2. Others(w)
    BY <1>6 DEF ServerDies, StartedAgain, Note, Types
  <2> QED
    BY <1>1, <2>1, <2>2
<1>7. ASSUME NEW w \in Window, NEW o \in Op, Step(w, o) PROVE ServerInv'
  <2>1. Others(w)
    BY <1>7 DEF Step, Stopped, resolveServerBinary, Fetched, Written, Chmodded, Started,
                Launch, Failed, setStatus, Note, Goto, Types
  <2>2. ASSUME pc[w][o] \in Searching PROVE WindowInv(w)'
    <3>1. CASE (\E usable \in BOOLEAN : Launch(w, o, usable))
               /\ UNCHANGED <<open, stops, badge, seen>>
      BY <2>2, <3>1, WindowLaunches DEF ServerInv
    <3>2. CASE Failed(w, o) /\ UNCHANGED <<open, stops, client, state, seen>>
      BY <2>2, <3>2, WindowFails DEF ServerInv
    <3>3. CASE (\E at \in {"fetch", "write", "chmod"} : Goto(w, o, at))
               /\ UNCHANGED <<open, stops, client, state, badge, seen>>
      BY <2>2, <3>3, WindowGoesOn DEF ServerInv
    <3>4. CASE resolveServerBinary(w, o)
      BY <3>1, <3>2, <3>3, <3>4 DEF resolveServerBinary, Types, Binaries
    <3>5. CASE Fetched(w, o)
      BY <3>2, <3>3, <3>5 DEF Fetched
    <3>6. CASE Written(w, o)
      BY <3>1, <3>2, <3>3, <3>6 DEF Written
    <3>7. CASE Chmodded(w, o)
      BY <3>1, <3>2, <3>7 DEF Chmodded, Types, Binaries
    <3>8. ~Stopped(w, o) /\ ~Started(w, o)
      BY <2>2 DEF Stopped, Started, Searching
    <3> QED
      BY <1>7, <3>4, <3>5, <3>6, <3>7, <3>8 DEF Step
  <2>3. ASSUME pc[w][o] \notin Searching PROVE WindowInv(w)'
    <3>1. Stopped(w, o) \/ Started(w, o)
      BY <1>7, <2>3 DEF Step, resolveServerBinary, Fetched, Written, Chmodded, Searching
    <3> QED
      BY <3>1, WindowStops, WindowStarted DEF ServerInv
  <2> QED
    BY <1>1, <2>1, <2>2, <2>3
<1>8. CASE UNCHANGED vars
  BY <1>8, WindowUntouched DEF vars, ServerInv
<1> QED
  BY <1>2, <1>3, <1>4, <1>5, <1>6, <1>7, <1>8 DEF Next, WindowCloses, WindowKilled

-----------------------------------------------------------------------------
(* The theorems.                                                           *)

\* Every variable keeps its type: no handler is at an await it does not have,
\* and no client but one that a handler made is kept (extension.ts, download.ts).
THEOREM TypeCorrect == Spec => []Types
BY TypesInit, TypesStep, PTL DEF Spec

\* The three parts of the inductive invariant together: where the handlers are
\* tells what the cached file and the servers of a window are.
LEMMA Inductive == Spec => [](Types /\ CacheInv /\ ServerInv)
<1>1. Init => Types /\ CacheInv /\ ServerInv
  BY TypesInit, CacheInit, ServerInit
<1>2. (Types /\ CacheInv /\ ServerInv) /\ [Next]_vars
        => (Types /\ CacheInv /\ ServerInv)'
  BY TypesStep, CacheStep, ServerStep
<1> QED
  BY <1>1, <1>2, PTL DEF Spec

\* The cached file that findCached takes is a whole one, for any number of
\* windows, restarts and faults (download.ts:182-185, 257).
THEOREM CachedFileIsWhole == Spec => []CachedIsWhole
<1>1. Types /\ CacheInv => CachedIsWhole
  BY DEF Types, CacheInv, CachedIsWhole, isExecutable, ModeMeansWhole, TornOrBusy,
         SomeoneWrites, Binaries
<1> QED
  BY <1>1, Inductive, PTL

\* A window in which no two handlers overlapped has one server, the one of its
\* client, and its badge tells the truth (extension.ts:648-676).
THEOREM OneServerPerWindow == Spec => []OneServer
<1>1. ServerInv => OneServer
  BY DEF ServerInv, WindowInv, OneServer, Owned, ReadyMeansRunning
<1> QED
  BY <1>1, Inductive, PTL

=============================================================================
