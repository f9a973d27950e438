--------------------------- MODULE ProcessesProofs ---------------------------
(***************************************************************************)
(* Machine-checked facts about the processes that MCProcesses puts in one  *)
(* graph, each of the process's own specification, for every value of its  *)
(* constants: one section a process, with the invariant it rests on.       *)
(***************************************************************************)
EXTENDS MCProcesses, Sequences, TLAPS, FiniteSetTheorems

-----------------------------------------------------------------------------
(***************************************************************************)
(* WatchLoop.  The flag is up exactly while a pump listens or backs off,   *)
(* whoever is subscribed and however many callbacks wait to start one.     *)
(***************************************************************************)
PumpInv ==
    /\ pumps \in [listen : Nat, backOff : Nat]
    /\ pumpRunning \in BOOLEAN
    /\ pumps.listen + pumps.backOff = IF pumpRunning THEN 1 ELSE 0

(* A pump that comes from a wait goes round, or lowers the flag. *)
LEMMA AroundInv ==
    ASSUME PumpInv, NEW p \in [listen : Nat, backOff : Nat],
           p.listen + p.backOff + 1 = pumps.listen + pumps.backOff, Around(p)
    PROVE  PumpInv'
<1>1. pumpRunning /\ p.listen = 0 /\ p.backOff = 0
  BY DEF PumpInv
<1>2. CASE handlers # {}
  <2>1. PICK n \in Nat : n = p.listen + 1
    OBVIOUS
  <2>2. pumps' = [p EXCEPT !.listen = n] /\ pumpRunning' = pumpRunning
    BY <1>2, <2>1 DEF Around
  <2> QED
    BY <1>1, <2>1, <2>2 DEF PumpInv
<1>3. CASE handlers = {}
  <2>1. pumps' = p /\ pumpRunning' = FALSE
    BY <1>3 DEF Around, FlagAtEnd
  <2>2. pumpRunning' \in BOOLEAN /\ ~pumpRunning'
    BY <2>1
  <2>3. pumps' \in [listen : Nat, backOff : Nat] /\ pumps'.listen + pumps'.backOff = 0
    BY <1>1, <2>1
  <2> QED
    BY <2>2, <2>3 DEF PumpInv
<1> QED
  BY <1>2, <1>3

LEMMA PumpNextInv == PumpInv /\ [Next]_vars => PumpInv'
<1> SUFFICES ASSUME PumpInv, [Next]_vars PROVE PumpInv'
  OBVIOUS
<1>1. CASE StartPump
  <2>1. CASE ~pumpRunning /\ handlers # {}
    <3>1. PICK n \in Nat : n = pumps.listen + 1
      BY DEF PumpInv
    <3>2. pumps' = [pumps EXCEPT !.listen = n] /\ pumpRunning' = TRUE
      BY <1>1, <2>1, <3>1 DEF StartPump, FlagAtStart
    <3> QED
      BY <2>1, <3>1, <3>2 DEF PumpInv
  <2>2. CASE ~(~pumpRunning /\ handlers # {})
    BY <1>1, <2>2 DEF StartPump, PumpInv
  <2> QED
    BY <2>1, <2>2
<1>2. CASE Deliver
  <2>1. pumps.listen > 0 /\ Around([pumps EXCEPT !.listen = @ - 1])
    BY <1>2 DEF Deliver
  <2>2. PICK n \in Nat : n = pumps.listen - 1
    BY <2>1 DEF PumpInv
  <2>3. PICK p \in [listen : Nat, backOff : Nat] : p = [pumps EXCEPT !.listen = n]
    BY DEF PumpInv
  <2>4. p.listen = n /\ p.backOff = pumps.backOff
    BY <2>3 DEF PumpInv
  <2>5. Around(p) /\ p.listen + p.backOff + 1 = pumps.listen + pumps.backOff
    BY <2>1, <2>2, <2>3, <2>4 DEF PumpInv
  <2> QED
    BY <2>5, AroundInv
<1>3. CASE BackedOff
  <2>1. pumps.backOff > 0 /\ Around([pumps EXCEPT !.backOff = @ - 1])
    BY <1>3 DEF BackedOff
  <2>2. PICK n \in Nat : n = pumps.backOff - 1
    BY <2>1 DEF PumpInv
  <2>3. PICK p \in [listen : Nat, backOff : Nat] : p = [pumps EXCEPT !.backOff = n]
    BY DEF PumpInv
  <2>4. p.backOff = n /\ p.listen = pumps.listen
    BY <2>3 DEF PumpInv
  <2>5. Around(p) /\ p.listen + p.backOff + 1 = pumps.listen + pumps.backOff
    BY <2>1, <2>2, <2>3, <2>4 DEF PumpInv
  <2> QED
    BY <2>5, AroundInv
<1>4. CASE ListenFails
  <2>1. PICK n \in Nat, m \in Nat : /\ n = pumps.listen - 1 /\ m = pumps.backOff + 1
                                    /\ pumps' = [listen |-> n, backOff |-> m]
    BY <1>4 DEF ListenFails, PumpInv
  <2> QED
    BY <1>4, <2>1 DEF ListenFails, PumpInv
<1>5. CASE UNCHANGED pumpVars
  BY <1>5 DEF PumpInv, pumpVars
<1>6. CASE \E c \in Controllers : Start(c)
  BY <1>6 DEF Start, PumpInv
<1>7. CASE \/ NodeUp \/ ApplySchema \/ Commit
           \/ \E r \in unsent : Notify(r)
           \/ \E c \in Controllers : Loop(c) \/ Stop(c)
           \/ UNCHANGED vars
  <2>1. UNCHANGED pumpVars
    BY <1>7 DEF NodeUp, ApplySchema, Commit, Notify, Loop, Stop, Probe, Poll, Scan, Release,
       Tick, vars, pumpVars
  <2> QED
    BY <1>5, <2>1
<1> QED
  BY <1>1, <1>2, <1>3, <1>4, <1>6, <1>7 DEF Next

LEMMA PumpSafe == Init /\ [][Next]_vars => []OnePump
<1>1. ASSUME Init PROVE PumpInv
  <2>1. pumps = [listen |-> 0, backOff |-> 0] /\ pumpRunning = FALSE
    BY <1>1 DEF Init
  <2>2. pumpRunning \in BOOLEAN /\ ~pumpRunning
    BY <2>1
  <2>3. pumps \in [listen : Nat, backOff : Nat] /\ pumps.listen + pumps.backOff = 0
    BY <2>1
  <2> QED
    BY <2>2, <2>3 DEF PumpInv
<1>2. PumpInv => OnePump
  BY DEF PumpInv, OnePump
<1> QED
  BY <1>1, <1>2, PumpNextInv, PTL

(* OnePump, for any number of controllers, commits and faults, in any order of
   subscriptions, stops, callbacks and events: the process never has two pumps
   to share the bus between (state/watch.ts:95-142). *)
THEOREM OnePumpOnly == Spec => []OnePump
  BY PumpSafe, PTL DEF Spec
-----------------------------------------------------------------------------
(***************************************************************************)
(* ContainerBoot.  Whatever a store's variable names is asked for, or is   *)
(* on record; and a boot that has decided on a restore decided on what is  *)
(* asked for, records it first and offers it to that store alone.          *)
(***************************************************************************)
Choices == [Boot!Stores -> Backups \cup {None}]

Places == {"down", "keys", "public", "secrets", "decide", "marker", "env", "source",
           "rauthy", "wait", "app", "run"}

BootTypes ==
    /\ request \in Choices
    /\ asked \in [Boot!Stores -> BOOLEAN]
    /\ lines \in Choices
    /\ marker \in Choices \cup {Torn}
    /\ bootPc \in Places

(* A variable that is set and not asked for has been honoured, on record. *)
Owed ==
    \A s \in Boot!Stores :
        request[s] # None /\ ~asked[s] => Boot!Marked[s] = request[s]

(* The stores whose node this boot has yet to start. *)
ToStart ==
    CASE bootPc \in {"marker", "env", "source", "rauthy"} -> Boot!Stores
      [] bootPc \in {"wait", "app"} -> {"app"}
      [] OTHER -> {}

(* What is decided for a node that is to start is asked for. *)
DecidedOnAsked ==
    \A s \in ToStart : lines[s] # None => asked[s] /\ lines[s] = request[s]

(* Decisions are recorded before any node sees them. *)
RecordedFirst ==
    bootPc \in {"env", "source", "rauthy", "wait", "app"} =>
        \A s \in Boot!Stores : lines[s] # None => Boot!Marked[s] = lines[s]

(* And each node sees its own and no other's. *)
OfferedDecisions ==
    /\ bootPc = "source" => envFile = lines
    /\ bootPc \in {"rauthy", "wait", "app"} => shell = [restore |-> lines, hql |-> None]

RestoreInv == BootTypes /\ Owed /\ DecidedOnAsked /\ RecordedFirst /\ OfferedDecisions

(* A step that goes on with the boot and touches no store. *)
LEMMA BootGoesOn ==
    ASSUME RestoreInv, UNCHANGED <<request, asked, lines, marker>>, bootPc' \in Places,
           ToStart' \subseteq ToStart,
           bootPc' \in {"env", "source", "rauthy", "wait", "app"} =>
               bootPc \in {"env", "source", "rauthy", "wait", "app"},
           OfferedDecisions'
    PROVE  RestoreInv'
<1>1. BootTypes'
  BY DEF RestoreInv, BootTypes
<1>2. Boot!Marked' = Boot!Marked
  BY DEF Boot!Marked
<1>3. Owed'
  BY <1>2 DEF RestoreInv, Owed
<1>4. DecidedOnAsked'
  BY DEF RestoreInv, DecidedOnAsked
<1>5. RecordedFirst'
  BY <1>2 DEF RestoreInv, RecordedFirst
<1> QED
  BY <1>1, <1>3, <1>4, <1>5 DEF RestoreInv

(* What each place has yet to start. *)
LEMMA StartsAhead ==
    /\ bootPc \in {"down", "keys", "public", "secrets", "decide", "run"} => ToStart = {}
    /\ bootPc \in {"marker", "env", "source", "rauthy"} => ToStart = Boot!Stores
    /\ bootPc \in {"wait", "app"} => ToStart = {"app"}
<1>1. bootPc \in {"down", "keys", "public", "secrets", "decide", "run"} => ToStart = {}
  BY DEF ToStart
<1>2. bootPc \in {"marker", "env", "source", "rauthy"} => ToStart = Boot!Stores
  BY DEF ToStart
<1>3. bootPc \in {"wait", "app"} => ToStart = {"app"}
  BY DEF ToStart
<1> QED
  BY <1>1, <1>2, <1>3

(* The decisions: only what is named and not on record, which is asked for. *)
LEMMA BootDecideInv == ASSUME RestoreInv, Boot!Decide PROVE RestoreInv'
<1>1. /\ lines' = [s \in Boot!Stores |->
                     IF request[s] = None \/ Boot!Applied(s) THEN None ELSE request[s]]
      /\ bootPc' = IF lines' = Boot!Nothing THEN "env" ELSE "marker"
      /\ UNCHANGED <<request, asked, marker>>
  BY DEF Boot!Decide, Boot!Goto, Boot!MarkerOpens
<1>2. lines' \in Choices /\ bootPc' \in {"env", "marker"}
  BY <1>1 DEF RestoreInv, BootTypes, Choices
<1>3. BootTypes'
  BY <1>1, <1>2 DEF RestoreInv, BootTypes, Places
<1>4. Boot!Marked' = Boot!Marked
  BY <1>1 DEF Boot!Marked
<1>5. Owed'
  BY <1>1, <1>4 DEF RestoreInv, Owed
<1>6. \A s \in Boot!Stores : lines'[s] # None => asked[s] /\ lines'[s] = request[s]
  BY <1>1 DEF RestoreInv, Owed, BootTypes, Boot!Applied
<1>7. DecidedOnAsked'
  <2>1. ToStart' = Boot!Stores
    BY <1>2 DEF ToStart
  <2> QED
    BY <1>1, <1>6, <2>1 DEF DecidedOnAsked
<1>8. RecordedFirst'
  BY <1>1, <1>2 DEF RecordedFirst, Boot!Nothing
<1>9. OfferedDecisions'
  BY <1>2 DEF OfferedDecisions
<1> QED
  BY <1>3, <1>5, <1>7, <1>8, <1>9 DEF RestoreInv

(* The record: what is decided, and for the other store what was there. *)
LEMMA BootMarkerInv == ASSUME RestoreInv, Boot!WriteMarker PROVE RestoreInv'
<1>1. /\ bootPc = "marker" /\ bootPc' = "env" /\ marker' = Boot!Recorded
      /\ UNCHANGED <<request, asked, lines>>
  BY DEF Boot!WriteMarker, Boot!Goto
<1>2. Boot!Marked \in Choices
  BY DEF RestoreInv, BootTypes, Boot!Marked, Boot!Nothing, Choices
<1>3. Boot!Recorded \in Choices /\ Boot!Recorded # Torn
  BY <1>2, TornApart DEF RestoreInv, BootTypes, Boot!Recorded, Choices
<1>4. Boot!Marked' = [s \in Boot!Stores |-> IF lines[s] = None THEN Boot!Marked[s] ELSE lines[s]]
  BY <1>1, <1>3 DEF Boot!Marked, Boot!Recorded
<1>5. ToStart = Boot!Stores /\ ToStart' = Boot!Stores
  BY <1>1 DEF ToStart
<1>6. \A s \in Boot!Stores : lines[s] # None => asked[s] /\ lines[s] = request[s]
  BY <1>5 DEF RestoreInv, DecidedOnAsked
<1>7. BootTypes'
  BY <1>1, <1>3 DEF RestoreInv, BootTypes, Places
<1>8. Owed'
  BY <1>1, <1>4, <1>6 DEF RestoreInv, Owed
<1>9. DecidedOnAsked' /\ RecordedFirst' /\ OfferedDecisions'
  BY <1>1, <1>4, <1>5, <1>6 DEF DecidedOnAsked, RecordedFirst, OfferedDecisions
<1> QED
  BY <1>7, <1>8, <1>9 DEF RestoreInv

(* A node starts, and restores what it is offered: that was asked for, and is
   on record. *)
LEMMA StartNodeInv ==
    ASSUME RestoreInv, NEW s \in Boot!Stores, s \in ToStart, Boot!StartNode(s),
           bootPc \in {"rauthy", "app"}, UNCHANGED <<request, lines, marker, shell>>,
           bootPc' \in {"wait", "run"}, ToStart' \subseteq ToStart \ {s}
    PROVE  RestoreInv'
<1>1. Boot!Offered(s) = lines[s] /\ (lines[s] # None => Boot!Marked[s] = request[s])
  BY DEF RestoreInv, OfferedDecisions, RecordedFirst, DecidedOnAsked, Boot!Offered
<1>2. /\ asked' \in [Boot!Stores -> BOOLEAN]
      /\ \A x \in Boot!Stores : x # s => asked'[x] = asked[x]
      /\ asked'[s] = asked[s] \/ Boot!Marked[s] = request[s]
  BY <1>1 DEF Boot!StartNode, RestoreInv, BootTypes
<1>3. Boot!Marked' = Boot!Marked
  BY DEF Boot!Marked
<1>4. BootTypes'
  BY <1>2 DEF RestoreInv, BootTypes, Places
<1>5. Owed'
  BY <1>2, <1>3 DEF RestoreInv, Owed
<1>6. DecidedOnAsked'
  <2>1. ToStart \subseteq Boot!Stores
    BY StartsAhead DEF RestoreInv, BootTypes, Places, Boot!Stores
  <2> QED
    BY <1>2, <2>1 DEF RestoreInv, DecidedOnAsked
<1>7. RecordedFirst' /\ OfferedDecisions'
  BY <1>3 DEF RestoreInv, RecordedFirst, OfferedDecisions
<1> QED
  BY <1>4, <1>5, <1>6, <1>7 DEF RestoreInv

LEMMA BootStartsInv ==
    ASSUME RestoreInv, Boot!StartRauthy \/ Boot!StartApp PROVE RestoreInv'
<1>1. CASE Boot!StartRauthy /\ secrets = Torn
  <2>1. /\ bootPc = "rauthy" /\ bootPc' = "down"
        /\ UNCHANGED <<request, asked, lines, marker, envFile, shell>>
    BY <1>1 DEF Boot!StartRauthy, Boot!Goto
  <2>2. ToStart' = {}
    BY <2>1 DEF ToStart
  <2>3. OfferedDecisions'
    BY <2>1 DEF OfferedDecisions
  <2> QED
    BY <2>1, <2>2, <2>3, BootGoesOn DEF Places
<1>2. CASE Boot!StartRauthy /\ secrets # Torn
  <2>1. /\ bootPc = "rauthy" /\ bootPc' = "wait" /\ Boot!StartNode("rauthy")
        /\ UNCHANGED <<request, lines, marker, shell>>
    BY <1>2 DEF Boot!StartRauthy, Boot!Goto
  <2>2. ToStart = {"rauthy", "app"} /\ ToStart' = {"app"} /\ Boot!Stores = {"rauthy", "app"}
    BY <2>1 DEF ToStart, Boot!Stores
  <2> QED
    BY <2>1, <2>2, StartNodeInv
<1>3. CASE Boot!StartApp
  <2>1. /\ bootPc = "app" /\ bootPc' = "run" /\ Boot!StartNode("app")
        /\ UNCHANGED <<request, lines, marker, shell>>
    BY <1>3 DEF Boot!StartApp, Boot!Goto
  <2>2. ToStart = {"app"} /\ ToStart' = {} /\ "app" \in Boot!Stores
    BY <2>1 DEF ToStart, Boot!Stores
  <2> QED
    BY <2>1, <2>2, StartNodeInv
<1> QED
  BY <1>1, <1>2, <1>3

LEMMA BootStepInv == ASSUME RestoreInv, Boot!Step PROVE RestoreInv'
<1>1. CASE Boot!Boot \/ Boot!WritePrivate \/ Boot!WritePublic \/ Boot!WriteSecrets
  <2>1. /\ bootPc \in {"down", "keys", "public", "secrets"}
        /\ bootPc' \in {"keys", "public", "secrets", "decide"}
        /\ UNCHANGED <<request, asked, lines, marker>>
    BY <1>1 DEF Boot!Boot, Boot!WritePrivate, Boot!WritePublic, Boot!WriteSecrets, Boot!Goto
  <2>2. ToStart' = {}
    BY <2>1 DEF ToStart
  <2>3. OfferedDecisions'
    BY <2>1 DEF OfferedDecisions
  <2> QED
    BY <2>1, <2>2, <2>3, BootGoesOn DEF Places
<1>2. CASE Boot!WriteEnv
  <2>1. /\ bootPc = "env" /\ bootPc' = "source" /\ envFile' = lines
        /\ UNCHANGED <<request, asked, lines, marker>>
    BY <1>2 DEF Boot!WriteEnv, Boot!Goto
  <2>2. ToStart' = ToStart
    BY <2>1 DEF ToStart
  <2>3. OfferedDecisions'
    BY <2>1 DEF OfferedDecisions
  <2> QED
    BY <2>1, <2>2, <2>3, BootGoesOn DEF Places
<1>3. CASE Boot!Source
  <2>1. /\ bootPc = "source" /\ bootPc' = "rauthy"
        /\ shell' = [restore |-> envFile, hql |-> None]
        /\ UNCHANGED <<request, asked, lines, marker>>
    BY <1>3 DEF Boot!Source, Boot!Goto, Boot!Scrubbed
  <2>2. ToStart' = ToStart
    BY <2>1 DEF ToStart
  <2>3. OfferedDecisions'
    BY <2>1 DEF RestoreInv, OfferedDecisions
  <2> QED
    BY <2>1, <2>2, <2>3, BootGoesOn DEF Places
<1>4. CASE Boot!Healthy
  <2>1. /\ bootPc = "wait" /\ bootPc' = "app"
        /\ UNCHANGED <<request, asked, lines, marker, envFile, shell>>
    BY <1>4 DEF Boot!Healthy, Boot!Goto
  <2>2. ToStart' = ToStart
    BY <2>1 DEF ToStart
  <2>3. OfferedDecisions'
    BY <2>1 DEF RestoreInv, OfferedDecisions
  <2> QED
    BY <2>1, <2>2, <2>3, BootGoesOn DEF Places
<1> QED
  BY <1>1, <1>2, <1>3, <1>4, BootDecideInv, BootMarkerInv, BootStartsInv DEF Boot!Step

(* A marker torn leaves nothing on record, and everything asked for. *)
LEMMA BootKillInv == ASSUME RestoreInv, Boot!Kill PROVE RestoreInv'
<1>1. /\ bootPc' = "down" /\ UNCHANGED <<request, lines, envFile, shell>>
      /\ \/ marker' = marker /\ asked' = asked
         \/ /\ marker' = Torn
            /\ asked' = [s \in Boot!Stores |-> request[s] # None]
  BY DEF Boot!Kill, Boot!Goto
<1>2. BootTypes'
  BY <1>1 DEF RestoreInv, BootTypes, Places
<1>3. Owed'
  BY <1>1 DEF RestoreInv, Owed, Boot!Marked
<1>4. DecidedOnAsked' /\ RecordedFirst' /\ OfferedDecisions'
  BY <1>1 DEF DecidedOnAsked, RecordedFirst, OfferedDecisions, ToStart
<1> QED
  BY <1>2, <1>3, <1>4 DEF RestoreInv

LEMMA BootRequestInv ==
    ASSUME RestoreInv, NEW s \in Boot!Stores, NEW b \in Backups \cup {None}, Boot!Request(s, b)
    PROVE  RestoreInv'
<1>1. /\ bootPc = "down" /\ UNCHANGED <<bootPc, lines, marker>>
      /\ request' = [request EXCEPT ![s] = b] /\ asked' = [asked EXCEPT ![s] = b # None]
  BY DEF Boot!Request
<1>2. BootTypes'
  BY <1>1 DEF RestoreInv, BootTypes, Choices
<1>3. Boot!Marked' = Boot!Marked
  BY <1>1 DEF Boot!Marked
<1>4. Owed'
  BY <1>1, <1>3 DEF RestoreInv, BootTypes, Choices, Owed
<1>5. DecidedOnAsked' /\ RecordedFirst' /\ OfferedDecisions'
  BY <1>1 DEF DecidedOnAsked, RecordedFirst, OfferedDecisions, ToStart
<1> QED
  BY <1>2, <1>4, <1>5 DEF RestoreInv

LEMMA BootNextInv == RestoreInv /\ [Boot!Next]_(Boot!vars) => RestoreInv'
<1> SUFFICES ASSUME RestoreInv, [Boot!Next]_(Boot!vars) PROVE RestoreInv'
  OBVIOUS
<1>1. CASE Boot!Stop
  <2>1. /\ bootPc' = "down"
        /\ UNCHANGED <<request, asked, lines, marker>>
    BY <1>1 DEF Boot!Stop, Boot!Goto
  <2>2. ToStart' = {} /\ OfferedDecisions'
    BY <2>1 DEF ToStart, OfferedDecisions
  <2> QED
    BY <2>1, <2>2, BootGoesOn DEF Places
<1>2. CASE UNCHANGED Boot!vars
  <2>1. UNCHANGED <<bootPc, request, asked, lines, marker, envFile, shell>>
    BY <1>2 DEF Boot!vars
  <2>2. ToStart' = ToStart
    BY <2>1 DEF ToStart
  <2>3. OfferedDecisions' /\ bootPc' \in Places
    BY <2>1 DEF RestoreInv, OfferedDecisions, BootTypes
  <2> QED
    BY <2>1, <2>2, <2>3, BootGoesOn
<1> QED
  BY <1>1, <1>2, BootStepInv, BootKillInv, BootRequestInv DEF Boot!Next

LEMMA BootInitInv == Boot!Init => RestoreInv
<1> SUFFICES ASSUME Boot!Init PROVE RestoreInv
  OBVIOUS
<1>1. /\ bootPc = "down" /\ request = Boot!Nothing /\ lines = Boot!Nothing
      /\ marker = Boot!Nothing /\ asked = [s \in Boot!Stores |-> FALSE]
      /\ Boot!Nothing \in Choices
  BY DEF Boot!Init, Boot!Nothing, Choices
<1>2. BootTypes
  BY <1>1 DEF BootTypes, Places
<1>3. Owed
  BY <1>1 DEF Owed, Boot!Nothing
<1>4. DecidedOnAsked /\ RecordedFirst /\ OfferedDecisions
  BY <1>1 DEF DecidedOnAsked, RecordedFirst, OfferedDecisions, ToStart
<1> QED
  BY <1>2, <1>3, <1>4 DEF RestoreInv

LEMMA RestoreSafe == Boot!Init /\ [][Boot!Next]_(Boot!vars) => RestoredOnce
<1>1. ASSUME RestoreInv, NEW s \in Boot!Stores, bootPc = s, Boot!Offered(s) # None
      PROVE  asked[s] /\ Boot!Offered(s) = request[s]
  <2>1. bootPc \in {"rauthy", "app"} /\ s \in ToStart
    BY <1>1 DEF ToStart, Boot!Stores
  <2>2. Boot!Offered(s) = lines[s] /\ lines[s] # None
    BY <1>1, <2>1 DEF RestoreInv, OfferedDecisions, Boot!Offered
  <2> QED
    BY <1>1, <2>1, <2>2 DEF RestoreInv, DecidedOnAsked
<1>2. ASSUME RestoreInv
      PROVE  \A s \in Boot!Stores :
                (bootPc = s /\ bootPc' \notin {bootPc, "down"} /\ Boot!Offered(s) # None) =>
                    asked[s] /\ Boot!Offered(s) = request[s]
  BY <1>1, <1>2
<1> QED
  BY <1>2, BootInitInv, BootNextInv, PTL DEF RestoredOnce, Boot!RestoredOnce

(* RestoredOnce, for any backups, any changes of the environment and any number
   of kills, at any step and in the middle of any write, the marker's included:
   a node restores only what its own variable names and it has not honoured
   (docker/first-boot.mjs:230-300, docker/entrypoint.sh). *)
THEOREM RestoresOnce == Boot!Spec => RestoredOnce
  BY RestoreSafe, PTL DEF Boot!Spec
-----------------------------------------------------------------------------
(***************************************************************************)
(* ContainerBoot, the keys.  Past their step the files are there, and once *)
(* they have been served with no boot finds one missing; so the only write *)
(* a kill can tear is one that nothing has been served with.               *)
(***************************************************************************)
KeysThere ==
    /\ bootPc \notin {"down", "keys", "public"} => Boot!HavePair
    /\ bootPc \notin {"down", "keys", "public", "secrets"} => Boot!HaveSecrets

ServedWith == served # 0 => Boot!HavePair /\ Boot!HaveSecrets /\ bootPc # "public"

KeysInv ==
    /\ private \in Nat
    /\ bootPc \in Places
    /\ bootPc = "public" => private # 0
    /\ KeysThere /\ ServedWith

LEMMA KeysNextInv ==
    KeysInv /\ [Boot!Next]_(Boot!vars) =>
        KeysInv' /\ (served # 0 => UNCHANGED <<private, public, secrets>>)
<1> SUFFICES ASSUME KeysInv, [Boot!Next]_(Boot!vars)
             PROVE  KeysInv' /\ (served # 0 => UNCHANGED <<private, public, secrets>>)
  OBVIOUS
<1> USE DEF KeysInv, KeysThere, ServedWith, Boot!HavePair, Boot!HaveSecrets, Boot!Goto
<1>1. CASE Boot!Boot
  BY <1>1 DEF Boot!Boot, Boot!keyVars, Places
<1>2. CASE Boot!WritePrivate
  <2>1. CASE Boot!HavePair
    BY <1>2, <2>1 DEF Boot!WritePrivate, Places
  <2>2. CASE ~Boot!HavePair
    <3>1. private' \in Nat /\ private' # 0 /\ bootPc' = "public" /\ served = 0
      BY <1>2, <2>2 DEF Boot!WritePrivate
    <3>2. UNCHANGED <<public, secrets, served>>
      BY <1>2 DEF Boot!WritePrivate
    <3> QED
      BY <3>1, <3>2 DEF Places
  <2> QED
    BY <2>1, <2>2
<1>3. CASE Boot!WritePublic
  BY <1>3 DEF Boot!WritePublic, Places
<1>4. CASE Boot!WriteSecrets
  <2>1. /\ bootPc = "secrets" /\ bootPc' = "decide" /\ secrets' # 0
        /\ secrets # 0 => secrets' = secrets
        /\ UNCHANGED <<private, public, served>>
    BY <1>4 DEF Boot!WriteSecrets
  <2> QED
    BY <2>1 DEF Places
<1>5. CASE \/ Boot!Decide \/ Boot!WriteMarker \/ Boot!WriteEnv \/ Boot!Source
           \/ Boot!StartRauthy \/ Boot!Healthy \/ Boot!Stop
  <2>1. /\ bootPc \notin {"down", "keys", "public", "secrets"}
        /\ bootPc' \in Places \ {"keys", "public", "secrets"}
        /\ UNCHANGED <<private, public, secrets, served>>
    BY <1>5 DEF Boot!Decide, Boot!MarkerOpens, Boot!WriteMarker, Boot!WriteEnv, Boot!Source,
       Boot!StartRauthy, Boot!Healthy, Boot!Stop, Boot!keyVars, Places
  <2> QED
    BY <2>1
<1>6. CASE Boot!StartApp
  <2>1. /\ bootPc = "app" /\ bootPc' = "run"
        /\ UNCHANGED <<private, public, secrets>>
    BY <1>6 DEF Boot!StartApp, Boot!keyVars
  <2> QED
    BY <2>1 DEF Places
<1>7. CASE Boot!Kill
  <2>1. /\ bootPc' = "down" /\ UNCHANGED <<private, served>>
        /\ secrets' = secrets \/ ~Boot!HaveSecrets
        /\ public' = public \/ bootPc = "public"
    BY <1>7 DEF Boot!Kill
  <2> QED
    BY <2>1 DEF Places
<1>8. CASE \E s \in Boot!Stores, b \in Backups \cup {None} : Boot!Request(s, b)
  BY <1>8 DEF Boot!Request, Boot!keyVars
<1>9. CASE UNCHANGED Boot!vars
  BY <1>9 DEF Boot!vars
<1> QED
  BY <1>1, <1>2, <1>3, <1>4, <1>5, <1>6, <1>7, <1>8, <1>9 DEF Boot!Next, Boot!Step

LEMMA KeysSafe == Boot!Init /\ [][Boot!Next]_(Boot!vars) => KeysStable
<1>1. Boot!Init => KeysInv
  BY DEF Boot!Init, KeysInv, KeysThere, ServedWith, Places
<1>2. KeysInv /\ [Boot!Next]_(Boot!vars) => [served # 0 => UNCHANGED Boot!keyVars]_(Boot!vars)
  BY KeysNextInv DEF Boot!keyVars
<1> QED
  BY <1>1, <1>2, KeysNextInv, PTL DEF KeysStable, Boot!KeysStable

(* KeysStable, for any number of boots killed at any step and in the middle of
   any write: what the app has once been started with is never written again
   (docker/first-boot.mjs). *)
THEOREM KeysKept == Boot!Spec => KeysStable
  BY KeysSafe, PTL DEF Boot!Spec
-----------------------------------------------------------------------------
(***************************************************************************)
(* DecisionLedger, on a store that one process writes to: another could    *)
(* close the bracket this one still has open.  Until a marker is chained,  *)
(* a loss keeps the flag up, the process reads it before anything else,    *)
(* and what it then appends is a genesis or the marker.                    *)
(***************************************************************************)
Fields == {"pc", "model", "queue", "what", "head", "attempt", "initialized", "wasDirty",
           "bracketOpen"}

Steps == {"down", "idle", "meta", "genesis", "head", "insert", "clear", "verify", "open",
          "settle", "close"}

Shaped(me) ==
    /\ DOMAIN me = Fields
    /\ me.pc \in Steps /\ me.what \in {"job", "genesis", "marker"}
    /\ me.initialized \in BOOLEAN /\ me.wasDirty \in BOOLEAN /\ me.bracketOpen \in BOOLEAN

(* The module state me of the process, while the flag is d and u are unmarked;
   a says that its last close took effect unanswered. *)
Marks(me, d, u, a) ==
    /\ me.bracketOpen => (d \/ a) /\ me.initialized
    /\ u # {} => d /\ ~me.initialized /\ me.pc \notin {"clear", "verify"}
    /\ me.pc \in {"meta", "genesis", "clear", "verify"} => ~me.initialized
    /\ me.pc \in {"open", "close"} => me.initialized
    /\ me.pc \in {"head", "insert"} => (me.initialized <=> me.what = "job")
    /\ me.pc \in {"genesis", "head", "insert"} /\ ~me.initialized /\ u # {} => me.wasDirty

MarksInv ==
    /\ DOMAIN proc = Procs
    /\ dirty \in BOOLEAN
    /\ \A p \in Procs : Shaped(proc[p]) /\ Marks(proc[p], dirty, unmarked, p \in unanswered)

(* A step of the only process. *)
LEMMA OnlyProcess ==
    ASSUME NEW q \in Procs, \A p \in Procs : p = q, MarksInv,
           NEW me, proc' = [proc EXCEPT ![q] = me], Shaped(me), dirty' \in BOOLEAN,
           Marks(me, dirty', unmarked', q \in unanswered')
    PROVE  MarksInv'
<1>1. DOMAIN proc' = Procs /\ proc'[q] = me
  BY DEF MarksInv
<1> QED
  BY <1>1 DEF MarksInv, Marks, Shaped

(* What the helpers of an append and of the queue make of a process. *)
LEMMA AppendingShape ==
    ASSUME NEW me, Shaped(me), NEW w \in {"job", "genesis", "marker"}
    PROVE  LET a == Ledger!Appending(me, w)
           IN  /\ Shaped(a) /\ a.pc = "head" /\ a.what = w
               /\ a.initialized = me.initialized /\ a.wasDirty = me.wasDirty
               /\ a.bracketOpen = me.bracketOpen
  BY DEF Shaped, Fields, Steps, Ledger!Appending

LEMMA MovedShape ==
    ASSUME NEW me, Shaped(me), NEW place \in Steps
    PROVE  LET a == [me EXCEPT !.pc = place]
           IN  /\ Shaped(a) /\ a.pc = place /\ a.what = me.what
               /\ a.initialized = me.initialized /\ a.wasDirty = me.wasDirty
               /\ a.bracketOpen = me.bracketOpen
  BY DEF Shaped, Fields

LEMMA StartedShape ==
    ASSUME NEW me, Shaped(me)
    PROVE  LET a == Ledger!Started(me)
           IN  /\ Shaped(a)
               /\ a.pc \in {"settle", "open", "head"} /\ (a.pc = "head" => a.what = "job")
               /\ a.initialized = me.initialized /\ a.wasDirty = me.wasDirty
               /\ a.bracketOpen = me.bracketOpen
<1>0. "settle" \in Steps /\ "open" \in Steps
  BY DEF Steps
<1>1. CASE Ledger!Started(me) = [me EXCEPT !.pc = "settle"]
  <2>1. PICK a : a = [me EXCEPT !.pc = "settle"]
    OBVIOUS
  <2>2. /\ Shaped(a) /\ a.pc = "settle" /\ a.initialized = me.initialized
        /\ a.wasDirty = me.wasDirty /\ a.bracketOpen = me.bracketOpen
    BY <1>0, <2>1, MovedShape
  <2> QED
    BY <1>1, <2>1, <2>2
<1>2. CASE Ledger!Started(me) = [me EXCEPT !.pc = "open"]
  <2>1. PICK a : a = [me EXCEPT !.pc = "open"]
    OBVIOUS
  <2>2. /\ Shaped(a) /\ a.pc = "open" /\ a.initialized = me.initialized
        /\ a.wasDirty = me.wasDirty /\ a.bracketOpen = me.bracketOpen
    BY <1>0, <2>1, MovedShape
  <2> QED
    BY <1>2, <2>1, <2>2
<1>3. CASE Ledger!Started(me) = Ledger!Appending(me, "job")
  BY <1>3, AppendingShape
<1> QED
  BY <1>1, <1>2, <1>3 DEF Ledger!Started

LEMMA PastGenesisShape ==
    ASSUME NEW me, Shaped(me)
    PROVE  LET a == Ledger!PastGenesis(me)
           IN  /\ Shaped(a)
               /\ IF me.wasDirty THEN a.pc = "head" /\ a.what = "marker" ELSE a.pc = "verify"
               /\ a.initialized = me.initialized /\ a.wasDirty = me.wasDirty
               /\ a.bracketOpen = me.bracketOpen
<1>1. CASE me.wasDirty
  BY <1>1, AppendingShape DEF Ledger!PastGenesis
<1>2. CASE ~me.wasDirty
  BY <1>2 DEF Ledger!PastGenesis, Shaped, Fields, Steps
<1> QED
  BY <1>1, <1>2

LEMMA DownShape ==
    /\ Shaped(Ledger!Down) /\ Ledger!Down.pc = "down"
    /\ ~Ledger!Down.initialized /\ ~Ledger!Down.bracketOpen
<1>1. DOMAIN Ledger!Down = Fields
  BY DEF Ledger!Down, Fields
<1>2. /\ Ledger!Down.pc = "down" /\ Ledger!Down.what = "job"
      /\ Ledger!Down.initialized = FALSE /\ Ledger!Down.wasDirty = FALSE
      /\ Ledger!Down.bracketOpen = FALSE
  BY DEF Ledger!Down
<1> QED
  BY <1>1, <1>2 DEF Shaped, Steps

(* A process that dies inside a bracket leaves the flag set. *)
LEMMA DeadInv ==
    ASSUME NEW q \in Procs, \A p \in Procs : p = q, MarksInv, Ledger!Dead(q), dirty' = dirty
    PROVE  MarksInv'
<1>1. proc' = [proc EXCEPT ![q] = Ledger!Down] /\ Marks(proc[q], dirty, unmarked, q \in unanswered)
  BY DEF Ledger!Dead, MarksInv
<1>2. unmarked' # {} => dirty'
  BY <1>1 DEF Ledger!Dead, Ledger!Bracketed, Marks
<1>3. Marks(Ledger!Down, dirty', unmarked', q \in unanswered')
  BY <1>2, DownShape DEF Marks
<1> QED
  BY <1>1, <1>3, DownShape, OnlyProcess DEF MarksInv

(* The process starts, and is asked. *)
LEMMA ArrivalInv ==
    ASSUME NEW q \in Procs, \A p \in Procs : p = q, MarksInv,
           (\E m \in Models : Ledger!Boot(q, m)) \/ (\E j \in Ledger!Jobs : Ledger!Ask(q, j))
    PROVE  MarksInv'
<1>0. Shaped(proc[q]) /\ Marks(proc[q], dirty, unmarked, q \in unanswered) /\ dirty \in BOOLEAN
  BY DEF MarksInv
<1>1. CASE \E m \in Models : Ledger!Boot(q, m)
  <2>1. PICK m \in Models : Ledger!Boot(q, m)
    BY <1>1
  <2>2. PICK me : me = [Ledger!Down EXCEPT !.pc = "idle", !.model = m, !.queue = <<BootJob>>]
    OBVIOUS
  <2>3. Shaped(me) /\ me.pc = "idle" /\ ~me.initialized /\ ~me.bracketOpen
    BY <2>2, DownShape DEF Shaped, Fields, Steps
  <2>4. proc' = [proc EXCEPT ![q] = me] /\ UNCHANGED <<dirty, unmarked, unanswered>>
    BY <2>1, <2>2 DEF Ledger!Boot, Ledger!Stores
  <2>5. Marks(me, dirty', unmarked', q \in unanswered')
    BY <1>0, <2>3, <2>4 DEF Marks
  <2> QED
    BY <1>0, <2>3, <2>4, <2>5, OnlyProcess
<1>2. CASE \E j \in Ledger!Jobs : Ledger!Ask(q, j)
  <2>1. PICK j \in Ledger!Jobs : Ledger!Ask(q, j)
    BY <1>2
  <2>2. PICK me : me = [proc[q] EXCEPT !.queue = Append(proc[q].queue, j)]
    OBVIOUS
  <2>3. /\ Shaped(me) /\ me.pc = proc[q].pc /\ me.what = proc[q].what
        /\ me.initialized = proc[q].initialized /\ me.wasDirty = proc[q].wasDirty
        /\ me.bracketOpen = proc[q].bracketOpen
    BY <1>0, <2>2 DEF Shaped, Fields
  <2>4. proc' = [proc EXCEPT ![q] = me] /\ UNCHANGED <<dirty, unmarked, unanswered>>
    BY <2>1, <2>2 DEF Ledger!Ask, MarksInv
  <2>5. Marks(me, dirty', unmarked', q \in unanswered')
    BY <1>0, <2>3, <2>4 DEF Marks
  <2> QED
    BY <1>0, <2>3, <2>4, <2>5, OnlyProcess
<1> QED
  BY <1>1, <1>2

(* A step that moves the process and nothing else it remembers. *)
LEMMA PlaceInv ==
    ASSUME NEW q \in Procs, \A p \in Procs : p = q, MarksInv,
           NEW pc2 \in Steps, NEW me, me.pc = pc2, Shaped(me), me.what = proc[q].what,
           me.initialized = proc[q].initialized, me.wasDirty = proc[q].wasDirty,
           me.bracketOpen = proc[q].bracketOpen,
           proc' = [proc EXCEPT ![q] = me], UNCHANGED <<dirty, unmarked, unanswered>>,
           \/ pc2 \in {"idle", "settle"}
           \/ pc2 = "meta" /\ ~me.initialized
           \/ pc2 \in {"head", "insert"} /\ proc[q].pc \in {"head", "insert"}
           \/ pc2 = "close" /\ me.bracketOpen
    PROVE  MarksInv'
<1>1. Marks(proc[q], dirty, unmarked, q \in unanswered) /\ dirty' \in BOOLEAN
  BY DEF MarksInv
<1>2. Marks(me, dirty', unmarked', q \in unanswered')
  BY <1>1 DEF Marks
<1> QED
  BY <1>1, <1>2, OnlyProcess

LEMMA QueueInv ==
    ASSUME NEW q \in Procs, \A p \in Procs : p = q, MarksInv,
           Ledger!Take(q) \/ Ledger!Settle(q) \/ Ledger!CloseBracket(q) \/ Ledger!OpenBracket(q)
    PROVE  MarksInv'
<1>0. Shaped(proc[q]) /\ Marks(proc[q], dirty, unmarked, q \in unanswered) /\ dirty \in BOOLEAN
  BY DEF MarksInv
<1>1. CASE Ledger!Take(q) /\ proc[q].initialized
  <2>1. PICK me : me = Ledger!Started(proc[q])
    OBVIOUS
  <2>2. proc' = [proc EXCEPT ![q] = me] /\ UNCHANGED <<dirty, unmarked, unanswered>>
    BY <1>1, <2>1 DEF Ledger!Take, Ledger!Stores, MarksInv
  <2>3. /\ Shaped(me) /\ me.pc \in {"settle", "open", "head"}
        /\ me.pc = "head" => me.what = "job"
        /\ me.initialized = proc[q].initialized /\ me.bracketOpen = proc[q].bracketOpen
    BY <1>0, <2>1, StartedShape
  <2>4. Shaped(me)
    BY <1>0, <2>1, StartedShape
  <2>5. Marks(me, dirty', unmarked', q \in unanswered')
    BY <1>0, <1>1, <2>2, <2>3 DEF Marks
  <2> QED
    BY <1>0, <2>2, <2>4, <2>5, OnlyProcess
<1>2. CASE Ledger!Take(q) /\ ~proc[q].initialized
  <2>1. PICK me : me = [proc[q] EXCEPT !.pc = "meta"]
    OBVIOUS
  <2>2. proc' = [proc EXCEPT ![q] = me] /\ UNCHANGED <<dirty, unmarked, unanswered>>
    BY <1>2, <2>1 DEF Ledger!Take, Ledger!Stores, MarksInv
  <2>3. /\ Shaped(me) /\ me.pc = "meta" /\ me.what = proc[q].what
        /\ me.initialized = proc[q].initialized /\ me.wasDirty = proc[q].wasDirty
        /\ me.bracketOpen = proc[q].bracketOpen
    BY <1>0, <2>1 DEF Shaped, Fields, Steps
  <2> QED
    BY <1>2, <2>2, <2>3, PlaceInv DEF Steps
<1>3. CASE Ledger!Settle(q)
  <2>1. PICK w \in {"close", "idle"} : /\ w = IF Ledger!LastDenial(q) THEN "close" ELSE "idle"
                                       /\ w = "close" => proc[q].bracketOpen
    BY DEF Ledger!LastDenial
  <2>2. PICK me : me = [proc[q] EXCEPT !.pc = w, !.queue = Tail(proc[q].queue)]
    OBVIOUS
  <2>3. proc' = [proc EXCEPT ![q] = me] /\ UNCHANGED <<dirty, unmarked, unanswered>>
    BY <1>0, <1>3, <2>1, <2>2 DEF Ledger!Settle, Ledger!Stores, MarksInv, Shaped, Fields
  <2>4. /\ Shaped(me) /\ me.pc = w /\ me.what = proc[q].what
        /\ me.initialized = proc[q].initialized /\ me.wasDirty = proc[q].wasDirty
        /\ me.bracketOpen = proc[q].bracketOpen
    BY <1>0, <2>1, <2>2 DEF Shaped, Fields, Steps
  <2> QED
    BY <2>1, <2>3, <2>4, PlaceInv DEF Steps
<1>4. CASE Ledger!CloseBracket(q)
  <2>1. PICK me : me = [proc[q] EXCEPT !.pc = "idle", !.bracketOpen = FALSE]
    OBVIOUS
  <2>2. /\ proc[q].pc = "close" /\ proc' = [proc EXCEPT ![q] = me]
        /\ dirty' = FALSE /\ unmarked' = unmarked
    BY <1>0, <1>4, <2>1 DEF Ledger!CloseBracket, Ledger!Flags, MarksInv, Shaped, Fields
  <2>3. /\ Shaped(me) /\ me.pc = "idle" /\ ~me.bracketOpen
        /\ me.initialized = proc[q].initialized
    BY <1>0, <2>1 DEF Shaped, Fields, Steps
  <2>4. Marks(me, dirty', unmarked', q \in unanswered')
    BY <1>0, <2>2, <2>3 DEF Marks
  <2> QED
    BY <2>2, <2>3, <2>4, OnlyProcess
<1>5. CASE Ledger!OpenBracket(q)
  <2>1. PICK me : me = [proc[q] EXCEPT !.bracketOpen = TRUE]
    OBVIOUS
  <2>2. PICK ap : ap = Ledger!Appending(me, "job")
    OBVIOUS
  <2>3. /\ proc[q].pc = "open" /\ proc' = [proc EXCEPT ![q] = ap]
        /\ dirty' = TRUE /\ unmarked' = unmarked
    BY <1>0, <1>5, <2>1, <2>2 DEF Ledger!OpenBracket, Ledger!Flags, MarksInv
  <2>4. Shaped(me) /\ me.initialized = proc[q].initialized
    BY <1>0, <2>1 DEF Shaped, Fields
  <2>5. /\ Shaped(ap) /\ ap.pc = "head" /\ ap.what = "job"
        /\ ap.initialized = proc[q].initialized
    BY <2>2, <2>4, AppendingShape
  <2>6. Marks(ap, dirty', unmarked', q \in unanswered')
    BY <1>0, <2>3, <2>5 DEF Marks
  <2> QED
    BY <2>3, <2>5, <2>6, OnlyProcess
<1> QED
  BY <1>1, <1>2, <1>3, <1>4, <1>5

(* Before the process serves: what was found decides what is chained. *)
LEMMA InitialInv ==
    ASSUME NEW q \in Procs, \A p \in Procs : p = q, MarksInv,
           Ledger!ReadMeta(q) \/ Ledger!ReadGenesis(q) \/ Ledger!ClearStale(q) \/ Ledger!Verify(q)
    PROVE  MarksInv'
<1>0. Shaped(proc[q]) /\ Marks(proc[q], dirty, unmarked, q \in unanswered) /\ dirty \in BOOLEAN
  BY DEF MarksInv
<1>1. CASE Ledger!ReadMeta(q)
  <2>1. PICK d \in BOOLEAN : d = dirty
    BY <1>0
  <2>2. PICK me : me = [proc[q] EXCEPT !.pc = "genesis", !.wasDirty = d]
    OBVIOUS
  <2>3. /\ proc[q].pc = "meta" /\ proc' = [proc EXCEPT ![q] = me]
        /\ UNCHANGED <<dirty, unmarked, unanswered>>
    BY <1>0, <1>1, <2>1, <2>2 DEF Ledger!ReadMeta, Ledger!Stores, MarksInv, Shaped, Fields
  <2>4. Shaped(me)
    BY <1>0, <2>2 DEF Shaped, Fields, Steps
  <2>5. /\ me.pc = "genesis" /\ me.wasDirty = d
        /\ me.initialized = proc[q].initialized /\ me.bracketOpen = proc[q].bracketOpen
    BY <1>0, <2>2 DEF Shaped, Fields
  <2>6. Marks(me, dirty', unmarked', q \in unanswered')
    BY <1>0, <2>1, <2>3, <2>5 DEF Marks
  <2> QED
    BY <1>0, <2>3, <2>4, <2>6, OnlyProcess
<1>2. CASE Ledger!ReadGenesis(q)
  <2>1. CASE proc[q].model \in Ledger!GenesisModels
    <3>1. PICK me : me = Ledger!PastGenesis(proc[q])
      OBVIOUS
    <3>2. /\ proc[q].pc = "genesis" /\ proc' = [proc EXCEPT ![q] = me]
          /\ UNCHANGED <<dirty, unmarked, unanswered>>
      BY <1>2, <2>1, <3>1 DEF Ledger!ReadGenesis, Ledger!Stores, MarksInv
    <3>3. /\ Shaped(me)
          /\ IF proc[q].wasDirty THEN me.pc = "head" /\ me.what = "marker" ELSE me.pc = "verify"
          /\ me.initialized = proc[q].initialized /\ me.wasDirty = proc[q].wasDirty
          /\ me.bracketOpen = proc[q].bracketOpen
      BY <1>0, <3>1, PastGenesisShape
    <3>4. Marks(me, dirty', unmarked', q \in unanswered')
      BY <1>0, <3>2, <3>3 DEF Marks
    <3> QED
      BY <1>0, <3>2, <3>3, <3>4, OnlyProcess
  <2>2. CASE proc[q].model \notin Ledger!GenesisModels
    <3>1. PICK me : me = Ledger!Appending(proc[q], "genesis")
      OBVIOUS
    <3>2. /\ proc[q].pc = "genesis" /\ proc' = [proc EXCEPT ![q] = me]
          /\ UNCHANGED <<dirty, unmarked, unanswered>>
      BY <1>2, <2>2, <3>1 DEF Ledger!ReadGenesis, Ledger!Stores, MarksInv
    <3>3. /\ Shaped(me) /\ me.pc = "head" /\ me.what = "genesis"
          /\ me.initialized = proc[q].initialized /\ me.wasDirty = proc[q].wasDirty
          /\ me.bracketOpen = proc[q].bracketOpen
      BY <1>0, <3>1, AppendingShape
    <3>4. Marks(me, dirty', unmarked', q \in unanswered')
      BY <1>0, <3>2, <3>3 DEF Marks
    <3> QED
      BY <1>0, <3>2, <3>3, <3>4, OnlyProcess
  <2> QED
    BY <2>1, <2>2
<1>3. CASE Ledger!ClearStale(q)
  <2>1. PICK me : me = [proc[q] EXCEPT !.pc = "verify"]
    OBVIOUS
  <2>2. /\ proc[q].pc = "clear" /\ proc' = [proc EXCEPT ![q] = me]
        /\ dirty' = FALSE /\ UNCHANGED <<unmarked, unanswered>>
    BY <1>3, <2>1 DEF Ledger!ClearStale, Ledger!Flags, Ledger!Goto, MarksInv
  <2>3. /\ Shaped(me) /\ me.pc = "verify" /\ me.initialized = proc[q].initialized
        /\ me.bracketOpen = proc[q].bracketOpen
    BY <1>0, <2>1, MovedShape DEF Steps
  <2>4. Marks(me, dirty', unmarked', q \in unanswered')
    BY <1>0, <2>2, <2>3 DEF Marks
  <2> QED
    BY <2>2, <2>3, <2>4, OnlyProcess
<1>4. CASE Ledger!Verify(q) /\ Ledger!Verifies(chain)
  <2>1. PICK me : me = [proc[q] EXCEPT !.initialized = TRUE]
    OBVIOUS
  <2>2. PICK st : st = Ledger!Started(me)
    OBVIOUS
  <2>3. /\ proc[q].pc = "verify" /\ proc' = [proc EXCEPT ![q] = st]
        /\ UNCHANGED <<dirty, unmarked, unanswered>>
    BY <1>4, <2>1, <2>2 DEF Ledger!Verify, MarksInv
  <2>4. Shaped(me) /\ me.initialized /\ me.bracketOpen = proc[q].bracketOpen
    BY <1>0, <2>1 DEF Shaped, Fields
  <2>5. /\ Shaped(st) /\ st.initialized /\ st.bracketOpen = proc[q].bracketOpen
        /\ st.pc \in {"settle", "open", "head"} /\ (st.pc = "head" => st.what = "job")
    BY <2>2, <2>4, StartedShape
  <2>6. Marks(st, dirty', unmarked', q \in unanswered')
    BY <1>0, <2>3, <2>5 DEF Marks
  <2> QED
    BY <1>0, <2>3, <2>5, <2>6, OnlyProcess
<1>5. CASE Ledger!Verify(q) /\ ~Ledger!Verifies(chain)
  BY <1>5, DeadInv DEF Ledger!Verify
<1> QED
  BY <1>1, <1>2, <1>3, <1>4, <1>5

(* An append, its misses and what fails. *)
LEMMA AppendInv ==
    ASSUME NEW q \in Procs, \A p \in Procs : p = q, MarksInv,
           \/ Ledger!ReadHead(q) \/ Ledger!Insert(q) \/ Ledger!Miss(q)
           \/ Ledger!Exhaust(q) \/ Ledger!StoreError(q) \/ Ledger!Crash(q)
    PROVE  MarksInv'
<1>0. Shaped(proc[q]) /\ Marks(proc[q], dirty, unmarked, q \in unanswered) /\ dirty \in BOOLEAN
  BY DEF MarksInv
<1>1. CASE Ledger!ReadHead(q)
  <2>1. PICK me : me = [proc[q] EXCEPT !.pc = "insert",
                                       !.head = Ledger!ChainHead(proc[q].model)]
    OBVIOUS
  <2>2. /\ proc[q].pc = "head" /\ proc' = [proc EXCEPT ![q] = me]
        /\ UNCHANGED <<dirty, unmarked, unanswered>>
    BY <1>0, <1>1, <2>1 DEF Ledger!ReadHead, Ledger!Stores, MarksInv, Shaped, Fields
  <2>3. Shaped(me)
    BY <1>0, <2>1 DEF Shaped, Fields, Steps
  <2>4. /\ me.pc = "insert" /\ me.what = proc[q].what
        /\ me.initialized = proc[q].initialized /\ me.wasDirty = proc[q].wasDirty
        /\ me.bracketOpen = proc[q].bracketOpen
    BY <1>0, <2>1 DEF Shaped, Fields
  <2> QED
    BY <2>2, <2>3, <2>4, PlaceInv DEF Steps
<1>2. CASE Ledger!Insert(q) /\ proc[q].what = "genesis"
  <2>1. PICK me : me = Ledger!PastGenesis(proc[q])
    OBVIOUS
  <2>2. /\ proc[q].pc = "insert" /\ proc' = [proc EXCEPT ![q] = me]
        /\ UNCHANGED <<dirty, unmarked, unanswered>>
    BY <1>2, <2>1 DEF Ledger!Insert, Ledger!Commits, Ledger!Appended
  <2>3. /\ Shaped(me)
        /\ IF proc[q].wasDirty THEN me.pc = "head" /\ me.what = "marker" ELSE me.pc = "verify"
        /\ me.initialized = proc[q].initialized /\ me.wasDirty = proc[q].wasDirty
        /\ me.bracketOpen = proc[q].bracketOpen
    BY <1>0, <2>1, PastGenesisShape
  <2>4. Marks(me, dirty', unmarked', q \in unanswered')
    BY <1>0, <1>2, <2>2, <2>3 DEF Marks
  <2> QED
    BY <1>0, <2>2, <2>3, <2>4, OnlyProcess
<1>3. CASE Ledger!Insert(q) /\ proc[q].what = "marker"
  <2>1. PICK me : me = [proc[q] EXCEPT !.pc = "clear"]
    OBVIOUS
  <2>2. /\ proc[q].pc = "insert" /\ proc' = [proc EXCEPT ![q] = me]
        /\ UNCHANGED <<dirty, unanswered>> /\ unmarked' = {}
    BY <1>3, <2>1 DEF Ledger!Insert, Ledger!Commits, Ledger!Appended
  <2>3. /\ Shaped(me) /\ me.pc = "clear" /\ me.initialized = proc[q].initialized
        /\ me.bracketOpen = proc[q].bracketOpen
    BY <1>0, <2>1, MovedShape DEF Steps
  <2>4. Marks(me, dirty', unmarked', q \in unanswered')
    BY <1>0, <1>3, <2>2, <2>3 DEF Marks
  <2> QED
    BY <1>0, <2>2, <2>3, <2>4, OnlyProcess
<1>4. CASE Ledger!Insert(q) /\ proc[q].what = "job"
  <2>1. PICK me : me = [proc[q] EXCEPT !.pc = "settle"]
    OBVIOUS
  <2>2. proc' = [proc EXCEPT ![q] = me] /\ UNCHANGED <<dirty, unmarked, unanswered>>
    BY <1>4, <2>1 DEF Ledger!Insert, Ledger!Commits, Ledger!Appended
  <2>3. /\ Shaped(me) /\ me.pc = "settle" /\ me.what = proc[q].what
        /\ me.initialized = proc[q].initialized /\ me.wasDirty = proc[q].wasDirty
        /\ me.bracketOpen = proc[q].bracketOpen
    BY <1>0, <2>1, MovedShape DEF Steps
  <2> QED
    BY <2>2, <2>3, PlaceInv DEF Steps
<1>5. CASE Ledger!Miss(q)
  <2>1. PICK me : me = [proc[q] EXCEPT !.pc = "head", !.attempt = proc[q].attempt + 1]
    OBVIOUS
  <2>2. /\ proc[q].pc = "insert" /\ proc' = [proc EXCEPT ![q] = me]
        /\ UNCHANGED <<dirty, unmarked, unanswered>>
    BY <1>0, <1>5, <2>1 DEF Ledger!Miss, Ledger!Stores, MarksInv, Shaped, Fields
  <2>3. Shaped(me)
    BY <1>0, <2>1 DEF Shaped, Fields, Steps
  <2>4. /\ me.pc = "head" /\ me.what = proc[q].what
        /\ me.initialized = proc[q].initialized /\ me.wasDirty = proc[q].wasDirty
        /\ me.bracketOpen = proc[q].bracketOpen
    BY <1>0, <2>1 DEF Shaped, Fields
  <2> QED
    BY <2>2, <2>3, <2>4, PlaceInv DEF Steps
<1>6. CASE \/ Ledger!Exhaust(q) /\ proc[q].initialized
           \/ Ledger!StoreError(q) /\ UNCHANGED <<dirty, unmarked, unanswered>>
  <2>1. PICK w \in {"settle", "idle"} :
           Ledger!Goto(q, w) /\ UNCHANGED <<dirty, unmarked, unanswered>>
    BY <1>6 DEF Ledger!Exhaust, Ledger!StoreError
  <2>2. PICK me : me = [proc[q] EXCEPT !.pc = w]
    OBVIOUS
  <2>3. proc' = [proc EXCEPT ![q] = me]
    BY <2>1, <2>2 DEF Ledger!Goto, MarksInv
  <2>4. /\ Shaped(me) /\ me.pc = w /\ me.what = proc[q].what
        /\ me.initialized = proc[q].initialized /\ me.wasDirty = proc[q].wasDirty
        /\ me.bracketOpen = proc[q].bracketOpen
    <3>1. w \in Steps
      BY <2>1 DEF Steps
    <3> QED
      BY <1>0, <2>2, <3>1, MovedShape
  <2> QED
    BY <2>1, <2>3, <2>4, PlaceInv DEF Steps
<1>7. CASE (Ledger!Exhaust(q) /\ ~proc[q].initialized) \/ Ledger!Crash(q)
  BY <1>7, DeadInv DEF Ledger!Exhaust, Ledger!Crash
<1>8. CASE /\ Ledger!StoreError(q) /\ ~UNCHANGED <<dirty, unmarked, unanswered>>
  <2>1. PICK w \in {"settle", "idle"} :
           /\ Ledger!Goto(q, w) /\ Ledger!TakesEffect(q)
           /\ unanswered' = IF proc[q].pc = "close" THEN unanswered \cup {q}
                            ELSE unanswered
    BY <1>8 DEF Ledger!StoreError
  <2>2. PICK me : me = [proc[q] EXCEPT !.pc = w]
    OBVIOUS
  <2>3. proc' = [proc EXCEPT ![q] = me]
    BY <2>1, <2>2 DEF Ledger!Goto, MarksInv
  <2>4. /\ Shaped(me) /\ me.pc = w
        /\ me.initialized = proc[q].initialized /\ me.bracketOpen = proc[q].bracketOpen
    <3>1. w \in Steps
      BY <2>1 DEF Steps
    <3> QED
      BY <1>0, <2>2, <3>1, MovedShape
  <2>5. \/ /\ dirty' = dirty /\ unmarked' \in {unmarked, {}} /\ unanswered' = unanswered
        \/ dirty' = TRUE /\ UNCHANGED <<unmarked, unanswered>>
        \/ /\ dirty' = FALSE /\ unmarked' = unmarked /\ proc[q].pc = "clear"
        \/ /\ dirty' = FALSE /\ unmarked' = unmarked /\ proc[q].pc = "close"
           /\ q \in unanswered'
    BY <2>1 DEF Ledger!TakesEffect, Ledger!Commits, Ledger!Flags
  <2>6. dirty' \in BOOLEAN /\ Marks(me, dirty', unmarked', q \in unanswered')
    BY <1>0, <2>1, <2>4, <2>5 DEF Marks
  <2> QED
    BY <2>3, <2>4, <2>6, OnlyProcess
<1> QED
  BY <1>0, <1>1, <1>2, <1>3, <1>4, <1>5, <1>6, <1>7, <1>8 DEF Shaped

LEMMA MarksNextInv ==
    ASSUME NEW q, Procs = {q}
    PROVE  MarksInv /\ [Ledger!Next]_(Ledger!vars) => MarksInv'
<1> SUFFICES ASSUME MarksInv, [Ledger!Next]_(Ledger!vars) PROVE MarksInv'
  OBVIOUS
<1>1. CASE UNCHANGED Ledger!vars
  BY <1>1 DEF Ledger!vars, MarksInv, Marks, Shaped
<1>2. q \in Procs /\ \A p \in Procs : p = q
  OBVIOUS
<1> QED
  BY <1>1, <1>2, ArrivalInv, QueueInv, InitialInv, AppendInv DEF Ledger!Next, Ledger!Run

LEMMA MarksSafe ==
    ASSUME NEW q, Procs = {q}
    PROVE  Ledger!Init /\ [][Ledger!Next]_(Ledger!vars) => []LossesMarked
<1>1. Ledger!Init => MarksInv
  <2> SUFFICES ASSUME Ledger!Init PROVE MarksInv
    OBVIOUS
  <2>1. proc = [p \in Procs |-> Ledger!Down] /\ dirty = FALSE /\ unmarked = {}
    BY DEF Ledger!Init
  <2>2. \A p \in Procs : Marks(Ledger!Down, dirty, unmarked, p \in unanswered)
    BY <2>1, DownShape DEF Marks
  <2>3. DOMAIN proc = Procs /\ \A p \in Procs : proc[p] = Ledger!Down
    BY <2>1
  <2>4. dirty \in BOOLEAN
    BY <2>1
  <2> QED
    BY <2>2, <2>3, <2>4, DownShape DEF MarksInv
<1>2. MarksInv => LossesMarked
  BY DEF MarksInv, Marks, LossesMarked, Ledger!LossesMarked
<1>3. MarksInv /\ [Ledger!Next]_(Ledger!vars) => MarksInv'
  BY MarksNextInv
<1> QED
  BY <1>1, <1>2, <1>3, PTL

(* LossesMarked, for a store that one process serves, with any chain and queue
   and any number of crashes and store errors at any step, before or after the
   statement took effect: while a denial that a crash took from an open bracket
   is unmarked, the flag is set and nothing is served (kernel/decisions.ts). *)
THEOREM LossesMarkedAlone ==
    ASSUME NEW q, Procs = {q}
    PROVE  Ledger!Spec => []LossesMarked
  BY MarksSafe, PTL DEF Ledger!Spec

-----------------------------------------------------------------------------
(***************************************************************************)
(* DevWatch.  Until a signal comes, an app that runs and was not given up  *)
(* on is the child of a loop at rest or the one a rebuild waits for: there *)
(* is none while a build runs, so the one it starts is alone.              *)
(***************************************************************************)
DevInv ==
    /\ child \in Pids \cup {None}
    /\ alive \subseteq Pids /\ alive \cap exits = {}
    /\ devPc \in {"idle", "stopping", "building", "built"}
    /\ devPc # "idle" => child = None
    /\ stopping = "no" =>
          \A p \in alive \ abandoned : \/ devPc = "idle" /\ p = child
                                       \/ devPc = "stopping" /\ p = dying

LEMMA StopInv ==
    ASSUME DevInv, NEW app \in Pids \cup {None}, Dev!StopThenBuild(app),
           UNCHANGED <<exits, abandoned, stopping>>, alive' \subseteq Pids,
           alive' \cap exits = {},
           stopping = "no" => alive' \ abandoned \subseteq {app}
    PROVE  DevInv'
<1>1. child' = None /\ dying' = app /\ devPc' = IF app = None THEN "building" ELSE "stopping"
  BY DEF Dev!StopThenBuild
<1> QED
  BY <1>1, PidsApart DEF DevInv

LEMMA FireInv ==
    ASSUME DevInv, Dev!Fire
    PROVE  DevInv'
<1>1. UNCHANGED <<alive, exits, abandoned, stopping>> /\ devPc \in {"idle", "stopping"}
  BY DEF Dev!Fire, Dev!Free, Dev!processVars
<1>2. CASE devPc = "stopping"
  BY <1>1, <1>2 DEF DevInv, Dev!Fire, Dev!Building
<1>3. CASE devPc = "idle"
  <2>1. Dev!StopThenBuild(child)
    BY <1>3 DEF Dev!Fire, Dev!Building
  <2> QED
    BY <1>1, <1>3, <2>1, StopInv DEF DevInv
<1> QED
  BY <1>1, <1>2, <1>3

LEMMA BuildEndsInv ==
    ASSUME DevInv, Dev!BuildEnds
    PROVE  DevInv'
<1>1. /\ devPc = "built" /\ child = None
      /\ stopping = "no" => alive \ abandoned = {}
      /\ UNCHANGED <<exits, abandoned, stopping>>
  BY DEF DevInv, Dev!BuildEnds
<1>2. PICK app \in Pids \cup {None} :
          /\ IF app = None THEN UNCHANGED <<alive, stuck>> ELSE Dev!StartApp(app)
          /\ IF pendingRebuild THEN Dev!StopThenBuild(app)
             ELSE child' = app /\ devPc' = "idle" /\ UNCHANGED dying
  BY DEF Dev!BuildEnds
<1>3. /\ alive' \subseteq Pids /\ alive' \cap exits = {}
      /\ stopping = "no" => alive' \ abandoned \subseteq {app}
  <2>1. CASE app = None
    BY <1>1, <1>2, <2>1 DEF DevInv
  <2>2. CASE app # None
    <3>1. app \in Pids /\ app \notin exits /\ alive' = alive \cup {app}
      BY <1>2, <2>2 DEF Dev!StartApp
    <3> QED
      BY <1>1, <3>1 DEF DevInv
  <2> QED
    BY <2>1, <2>2
<1>4. CASE pendingRebuild
  BY <1>1, <1>2, <1>3, <1>4, StopInv
<1>5. CASE ~pendingRebuild
  BY <1>1, <1>2, <1>3, <1>5 DEF DevInv
<1> QED
  BY <1>4, <1>5

LEMMA ExitInv ==
    ASSUME DevInv, NEW p \in Pids, Dev!Exit(p)
    PROVE  DevInv'
<1>1. /\ p \in exits /\ exits' = exits \ {p} /\ abandoned' = abandoned \ {p}
      /\ child' = IF child = p THEN None ELSE child
      /\ devPc' = IF devPc = "stopping" /\ dying = p THEN "building" ELSE devPc
      /\ UNCHANGED <<alive, dying, stopping>>
  BY DEF Dev!Exit, Dev!Forgotten
<1>2. p \notin alive
  BY <1>1 DEF DevInv
<1> QED
  BY <1>1, <1>2 DEF DevInv

LEMMA AbandonInv ==
    ASSUME DevInv, NEW p \in Pids, Dev!Abandon(p)
    PROVE  DevInv'
<1>1. /\ abandoned' = abandoned \cup {p}
      /\ \/ devPc = "stopping" /\ dying = p /\ devPc' = "building"
         \/ stopping = p /\ UNCHANGED devPc
      /\ UNCHANGED <<alive, exits, child, dying, stopping>>
  BY DEF Dev!Abandon
<1>2. stopping = p => stopping # "no"
  BY PidsApart
<1> QED
  BY <1>1, <1>2 DEF DevInv

LEMMA SignalInv ==
    ASSUME DevInv, Dev!Signal
    PROVE  DevInv'
<1>1. /\ stopping = "no" /\ stopping' = child /\ child' = None
      /\ UNCHANGED <<devPc, dying, alive, abandoned, exits>>
  BY DEF Dev!Signal, Dev!processVars
<1>2. child \in Pids => child # "no"
  BY PidsApart
<1> QED
  BY <1>1, <1>2, PidsApart DEF DevInv

LEMMA DevNextInv == DevInv /\ [Dev!Next]_(Dev!vars) => DevInv'
<1> SUFFICES ASSUME DevInv, [Dev!Next]_(Dev!vars) PROVE DevInv'
  OBVIOUS
<1>1. ASSUME UNCHANGED <<child, dying, stopping, devPc, alive, abandoned, exits>>
      PROVE  DevInv'
  BY <1>1 DEF DevInv
<1>2. CASE \/ \E c \in Contents : Dev!Edit(c)
           \/ Dev!Event \/ Dev!Poll \/ UNCHANGED Dev!vars
  BY <1>1, <1>2
     DEF Dev!Edit, Dev!Event, Dev!Poll, Dev!vars, Dev!loopVars, Dev!processVars
<1>3. CASE Dev!Compile
  BY <1>3 DEF Dev!Compile, Dev!processVars, DevInv
<1>4. ASSUME NEW p \in Pids, Dev!Die(p)
      PROVE  DevInv'
  BY <1>4 DEF Dev!Die, Dev!loopVars, DevInv
<1> QED
  BY <1>2, <1>3, <1>4, FireInv, BuildEndsInv, ExitInv, AbandonInv, SignalInv
     DEF Dev!Next

(* Until the loop is told to stop, no two apps run at once but one that was given
   up on after its deadline: stopApp() is waited for before each build
   (scripts/dev-watch.mjs), whatever exits late, crashes or is edited meanwhile. *)
THEOREM OneAppAtOnce == Dev!Spec => []Dev!OneApp
<1>1. Dev!Init => DevInv
  BY DEF Dev!Init, DevInv
<1>2. DevInv => Dev!OneApp
  BY DEF DevInv, Dev!OneApp
<1> QED
  BY <1>1, <1>2, DevNextInv, PTL DEF Dev!Spec

-----------------------------------------------------------------------------
(***************************************************************************)
(* The sum.  Each process begins as its own specification says, and takes  *)
(* its own steps or none.  The fairness of a process is stated for the     *)
(* behaviours of its part only, so what carries over is safety.            *)
(***************************************************************************)
LEMMA SumBegins == AllInit => Init /\ Boot!Init /\ Ledger!Init
  BY DEF AllInit

LEMMA SumSteps ==
    [AllNext]_allVars =>
        [Next]_vars /\ [Boot!Next]_(Boot!vars) /\ [Ledger!Next]_(Ledger!vars)
<1> SUFFICES ASSUME [AllNext]_allVars
             PROVE  /\ Next \/ UNCHANGED vars
                    /\ Boot!Next \/ UNCHANGED bootVars
                    /\ Ledger!Next \/ UNCHANGED ledgerVars
  BY DEF bootVars, ledgerVars, Boot!vars, Ledger!vars
<1> QED
  BY DEF AllNext, OfWatch, OfBoot, OfEntry, OfDev, OfLedger, allVars

(* What the processes promise holds of the sum as TLC runs it, for every value of
   its constants that has one process on the ledger's store. *)
THEOREM SumIsSafe ==
    ASSUME NEW q, Procs = {q}
    PROVE  AllSpec => []OnePump /\ RestoredOnce /\ KeysStable /\ []LossesMarked
<1>1. Ledger!Init /\ [][Ledger!Next]_(Ledger!vars) => []LossesMarked
  BY MarksSafe
<1> QED
  BY <1>1, SumBegins, SumSteps, PumpSafe, RestoreSafe, KeysSafe, PTL DEF AllSpec
=============================================================================
