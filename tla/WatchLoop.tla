----------------------------- MODULE WatchLoop -----------------------------
(***************************************************************************)
(* The life of the controllers' loops in one process: the schema gate of   *)
(* backend/control/schema.ts, the passes and the stop of controller.ts,    *)
(* the waker of control/watch.ts, and the one pump of state/watch.ts that  *)
(* takes events off hiqlite's bus and hands each to every handler.         *)
(*                                                                         *)
(* What a pass does to the watermark under its lease is Controller's; here *)
(* a pass is the revision it has scanned up to.  JavaScript runs one       *)
(* handler at a time, so what lies between two awaits is one step.         *)
(***************************************************************************)
EXTENDS Naturals, FiniteSets

CONSTANTS
    Controllers,
    MaxRev,     \* bound on commits
    MaxFaults   \* bound on failed probes, passes, listens and notifies

ASSUME ConstantsOK == MaxRev \in Nat /\ MaxFaults \in Nat

VARIABLES
    ready,       \* the node is up
    schema,      \* the control plane's tables exist
    rev,         \* newest committed revision
    unsent,      \* committed, and its notify not yet issued
    bus,         \* events on the bus that nobody has taken
    handlers,    \* controllers subscribed
    starters,    \* callbacks on `ready` that may start the pump
    pumpRunning, \* the flag
    pumps,       \* how many pumps listen, and how many back off
    pc, mark,    \* per controller, where its loop is and what it has scanned
    stopped,     \* per controller, stop() was called
    faults

vars == <<ready, schema, rev, unsent, bus, handlers, starters, pumpRunning, pumps,
          pc, mark, stopped, faults>>

pumpVars == <<starters, pumpRunning, pumps>>
loopVars == <<pc, mark>>

Init ==
    /\ ready = FALSE /\ schema \in BOOLEAN
    /\ rev = 0 /\ unsent = {} /\ bus = {}
    /\ handlers = {} /\ starters = 0 /\ pumpRunning = FALSE
    /\ pumps = [listen |-> 0, backOff |-> 0]
    /\ pc = [c \in Controllers |-> "new"]
    /\ mark = [c \in Controllers |-> 0]
    /\ stopped = [c \in Controllers |-> FALSE]
    /\ faults = 0

Fault == faults < MaxFaults /\ faults' = faults + 1

-----------------------------------------------------------------------------
(* The writers: a commit, then its notify, which may fail. *)

Commit ==
    /\ schema /\ rev < MaxRev
    /\ rev' = rev + 1
    /\ unsent' = unsent \cup {rev + 1}
    /\ UNCHANGED <<ready, schema, bus, handlers, pumpVars, loopVars, stopped,
                   faults>>

Notify(r) ==
    /\ r \in unsent
    /\ unsent' = unsent \ {r}
    /\ \/ bus' = bus \cup {r} /\ UNCHANGED faults
       \/ Fault /\ UNCHANGED bus
    /\ UNCHANGED <<ready, schema, rev, handlers, pumpVars, loopVars, stopped>>

-----------------------------------------------------------------------------
(* The pump. *)

(* Variant: the flag is raised when the first event is in. *)
FlagAtFirstEvent == pumpRunning

FlagAtStart == TRUE

FlagAtEnd == FALSE

(* The callback of listen(), once the node is up. *)
StartPump ==
    /\ ready /\ starters > 0
    /\ starters' = starters - 1
    /\ IF ~pumpRunning /\ handlers # {}
       THEN /\ pumpRunning' = FlagAtStart
            /\ pumps' = [pumps EXCEPT !.listen = @ + 1]
       ELSE UNCHANGED <<pumpRunning, pumps>>
    /\ UNCHANGED <<ready, schema, rev, unsent, bus, handlers, loopVars, stopped,
                   faults>>

(* The pump goes round: it listens again, or nobody is left to listen for. *)
Around(p) ==
    IF handlers # {}
    THEN pumps' = [p EXCEPT !.listen = @ + 1] /\ UNCHANGED pumpRunning
    ELSE pumps' = p /\ pumpRunning' = FlagAtEnd

(* listenNext() resolves: every handler gets the event, and a sleeping loop is
   woken.  One that is not sleeping has no `wake` to call. *)
Deliver ==
    /\ pumps.listen > 0 /\ bus # {}
    /\ \E r \in bus :
          /\ \A other \in bus : r <= other
          /\ bus' = bus \ {r}
    /\ pc' = [c \in Controllers |->
                 IF c \in handlers /\ pc[c] = "sleep" THEN "scan" ELSE pc[c]]
    /\ Around([pumps EXCEPT !.listen = @ - 1])
    /\ UNCHANGED <<ready, schema, rev, unsent, handlers, starters, mark, stopped,
                   faults>>

ListenFails ==
    /\ pumps.listen > 0
    /\ Fault
    /\ pumps' = [listen |-> pumps.listen - 1, backOff |-> pumps.backOff + 1]
    /\ UNCHANGED <<ready, schema, rev, unsent, bus, handlers, starters, pumpRunning,
                   loopVars, stopped>>

BackedOff ==
    /\ pumps.backOff > 0
    /\ Around([pumps EXCEPT !.backOff = @ - 1])
    /\ UNCHANGED <<ready, schema, rev, unsent, bus, handlers, starters, loopVars,
                   stopped, faults>>

-----------------------------------------------------------------------------
(* A controller's loop. *)

Goto(c, place) == pc' = [pc EXCEPT ![c] = place]

(* startController: subscribe, and probe for the schema. *)
Start(c) ==
    /\ pc[c] = "new"
    /\ Goto(c, "probe")
    /\ handlers' = handlers \cup {c}
    /\ starters' = IF pumpRunning THEN starters ELSE starters + 1
    /\ UNCHANGED <<ready, schema, rev, unsent, bus, pumpRunning, pumps, mark, stopped,
                   faults>>

(* Variant: the wait polls until the tables are there, cancelled or not. *)
PollsOn(c) == "gate"

AfterMiss(c) == IF stopped[c] THEN "done" ELSE "gate"

(* The probe answers; one that throws counts as no. *)
Probe(c) ==
    /\ pc[c] = "probe"
    /\ \/ schema /\ Goto(c, "scan") /\ UNCHANGED faults
       \/ ~schema /\ Goto(c, AfterMiss(c)) /\ UNCHANGED faults
       \/ schema /\ Fault /\ Goto(c, AfterMiss(c))
    /\ UNCHANGED <<ready, schema, rev, unsent, bus, handlers, pumpVars, mark, stopped>>

Poll(c) ==
    /\ pc[c] = "gate"
    /\ Goto(c, "probe")
    /\ UNCHANGED <<ready, schema, rev, unsent, bus, handlers, pumpVars, mark, stopped,
                   faults>>

(* A batch is read and reconciled, again until one is empty, the budget is
   spent or something throws. *)
Scan(c) ==
    /\ pc[c] = "scan"
    /\ \/ /\ rev > mark[c]
          /\ mark' = [mark EXCEPT ![c] = rev]
          /\ Goto(c, "scan") \/ Goto(c, "release")
          /\ UNCHANGED faults
       \/ rev = mark[c] /\ Goto(c, "release") /\ UNCHANGED <<mark, faults>>
       \/ Fault /\ Goto(c, "release") /\ UNCHANGED mark
    /\ UNCHANGED <<ready, schema, rev, unsent, bus, handlers, pumpVars, stopped>>

(* The lease is released; the loop ends if it was stopped, or waits. *)
Release(c) ==
    /\ pc[c] = "release"
    /\ Goto(c, IF stopped[c] THEN "done" ELSE "sleep")
    /\ UNCHANGED <<ready, schema, rev, unsent, bus, handlers, pumpVars, mark, stopped,
                   faults>>

(* Variant: only an event ends the wait. *)
NeverTicks(c) == FALSE

Ticks(c) == pc[c] = "sleep"

Tick(c) ==
    /\ Ticks(c)
    /\ Goto(c, "scan")
    /\ UNCHANGED <<ready, schema, rev, unsent, bus, handlers, pumpVars, mark, stopped,
                   faults>>

(* stop(): cancel the gate, unsubscribe, and wake whichever wait there is. *)
Stop(c) ==
    /\ pc[c] # "new" /\ ~stopped[c]
    /\ stopped' = [stopped EXCEPT ![c] = TRUE]
    /\ handlers' = handlers \ {c}
    /\ Goto(c, IF pc[c] \in {"gate", "sleep"} THEN "done" ELSE pc[c])
    /\ UNCHANGED <<ready, schema, rev, unsent, bus, pumpVars, mark, faults>>

-----------------------------------------------------------------------------
NodeUp ==
    /\ ~ready /\ ready' = TRUE
    /\ UNCHANGED <<schema, rev, unsent, bus, handlers, pumpVars, loopVars, stopped,
                   faults>>

ApplySchema ==
    /\ ~schema /\ schema' = TRUE
    /\ UNCHANGED <<ready, rev, unsent, bus, handlers, pumpVars, loopVars, stopped,
                   faults>>

Loop(c) == Probe(c) \/ Poll(c) \/ Scan(c) \/ Release(c) \/ Tick(c)

Next ==
    \/ NodeUp \/ ApplySchema \/ Commit
    \/ \E r \in unsent : Notify(r)
    \/ StartPump \/ Deliver \/ ListenFails \/ BackedOff
    \/ \E c \in Controllers : Start(c) \/ Loop(c) \/ Stop(c)

(* Timers fire, callbacks run and awaits resolve. *)
Spec ==
    /\ Init /\ [][Next]_vars
    /\ WF_vars(NodeUp) /\ WF_vars(StartPump) /\ WF_vars(Deliver) /\ WF_vars(BackedOff)
    /\ \A c \in Controllers : WF_vars(Loop(c))

-----------------------------------------------------------------------------

(* One pump for the process: two would each see an arbitrary half of the bus. *)
OnePump == pumps.listen + pumps.backOff <= 1

(* Events are a hint: with every one of them lost, a change is scanned by every
   controller that runs. *)
ChangesReached ==
    \A c \in Controllers, r \in 1..MaxRev :
        (rev >= r /\ pc[c] # "new") ~> mark[c] >= r \/ stopped[c]

(* stop() ends the loop, whatever it was waiting for, without a pass left over. *)
StopEnds == \A c \in Controllers : stopped[c] ~> pc[c] = "done"
=============================================================================
