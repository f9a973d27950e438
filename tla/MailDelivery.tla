---------------------------- MODULE MailDelivery ----------------------------
(***************************************************************************)
(* Mail as reconciliation, backend/mail: a domain raises a notice (an      *)
(* admit under no lease) and returns; on every node a controller loop and  *)
(* a retry sweep take turns under one lease and send what their replica    *)
(* shows to be due.  deliverNotice is a read of the local replica, a send, *)
(* and a status write through the leader; a throw anywhere after the read, *)
(* the status write included, is recorded as a failed attempt.             *)
(*                                                                         *)
(* A backoff is a flag of the status, raised when its time is over.  A     *)
(* controller pass takes any of the notices, the sweep takes all of them;  *)
(* passes that have nothing to send write nothing and are left out.        *)
(***************************************************************************)
EXTENDS Naturals, Sequences, FiniteSetsExt

CONSTANTS
    Nodes,
    Notices,
    None,         \* no worker, no notice
    MAX_ATTEMPTS,
    MaxLag,       \* bound on the raft entries a replica is behind by
    MaxFaults     \* bound on crashes, lapses, stale reads, store faults and
                  \* sends whose outcome is lost

Loops   == {"pass", "sweep"}
Workers == Nodes \X Loops

ASSUME ConstantsOK ==
    /\ None \notin Workers \cup Notices
    /\ MAX_ATTEMPTS \in Nat \ {0}
    /\ MaxLag \in Nat /\ MaxFaults \in Nat

VARIABLES
    db,      \* the leader's rows of kind mailNotice
    lag,     \* per node, the older states its replica has yet to leave
    holder,  \* the worker the lease is granted to, or None
    worker,  \* per node and loop, the local state of its pass
    sends,   \* history: copies of each notice the relay accepted
    refused, \* history: notices whose raising was refused
    faults

vars == <<db, lag, holder, worker, sends, refused, faults>>

(* No status, an absent row: attempts 0, due at once. *)
Unraised == [raised |-> FALSE, fence |-> 0, state |-> "none", attempts |-> 0,
             due |-> TRUE]

Idle == [pc |-> "idle", token |-> 0, todo |-> {}, notice |-> None,
         attempts |-> 0]

Init ==
    /\ db = [n \in Notices |-> Unraised]
    /\ lag = [m \in Nodes |-> <<>>]
    /\ holder = None
    /\ worker = [w \in Workers |-> Idle]
    /\ sends = [n \in Notices |-> 0]
    /\ refused = {}
    /\ faults = 0

-----------------------------------------------------------------------------
Local(m) == IF lag[m] = <<>> THEN db ELSE lag[m][1]

Commit(n, row) ==
    /\ \A m \in Nodes : Len(lag[m]) < MaxLag
    /\ db' = [db EXCEPT ![n] = row]
    /\ lag' = [m \in Nodes |-> Append(lag[m], db)]

Fault == faults < MaxFaults /\ faults' = faults + 1

(* Variant: a notice is tried once, when it has no status. *)
PlanOnce(row) == row.raised /\ row.state = "none"

(* planFor, of a notice the replica shows. *)
Plan(row) == row.raised /\ row.state \in {"none", "pending"} /\ row.due

(* afterFailure and afterSuccess, from the attempts the pass has read. *)
AfterFailure(attempts) ==
    [state |-> IF attempts + 1 >= MAX_ATTEMPTS THEN "failed" ELSE "pending",
     attempts |-> attempts + 1, due |-> FALSE]

(* Variant: a success is counted like any other attempt. *)
SuccessCounted(attempts) == AfterFailure(attempts)

AfterSuccess(attempts) ==
    [state |-> "sent", attempts |-> attempts + 1, due |-> FALSE]

NextToken ==
    1 + Max({0} \cup {db[n].fence : n \in Notices}
                \cup {worker[w].token : w \in Workers})

Running(w) == worker[w].pc # "idle"

-----------------------------------------------------------------------------
(* raiseNotice: admit under fence 0; the same notice again is no change,
   unless a status write has raised the row's fence. *)
Raise(n) ==
    /\ IF ~db[n].raised
       THEN /\ Commit(n, [db[n] EXCEPT !.raised = TRUE])
            /\ UNCHANGED refused
       ELSE /\ db[n].fence > 0
            /\ refused' = refused \cup {n}
            /\ UNCHANGED <<db, lag>>
    /\ UNCHANGED <<holder, worker, sends, faults>>

Apply(m) ==
    /\ lag[m] # <<>>
    /\ lag' = [lag EXCEPT ![m] = Tail(@)]
    /\ UNCHANGED <<db, holder, worker, sends, refused, faults>>

(* nextAttemptAt is over. *)
Elapse(n) ==
    /\ db[n].state = "pending" /\ ~db[n].due
    /\ db' = [db EXCEPT ![n].due = TRUE]
    /\ UNCHANGED <<lag, holder, worker, sends, refused, faults>>

(* A pass or a sweep takes the lease and lists its notices. *)
Acquire(w) ==
    LET raised == {n \in Notices : Local(w[1])[n].raised}
    IN  /\ ~Running(w)
        /\ holder = None
        /\ \E n \in raised : Plan(Local(w[1])[n])
        /\ holder' = w
        /\ \E todo \in IF w[2] = "sweep" THEN {raised} ELSE SUBSET raised \ {{}} :
              worker' = [worker EXCEPT ![w] =
                           [Idle EXCEPT !.pc = "list", !.token = NextToken,
                                        !.todo = todo]]
        /\ UNCHANGED <<db, lag, sends, refused, faults>>

(* withLease releases. *)
Leave(w) ==
    /\ worker' = [worker EXCEPT ![w] = Idle]
    /\ holder' = IF holder = w THEN None ELSE holder

(* The list is done, or its budget is over. *)
Finish(w) ==
    /\ worker[w].pc = "list"
    /\ worker[w].todo = {}
    /\ Leave(w)
    /\ UNCHANGED <<db, lag, sends, refused, faults>>

(* deliverNotice: get and plan.  The backoff an old copy of the row shows
   may be over by now. *)
Get(w, n) ==
    LET stale == lag[w[1]] # <<>>
        row   == Local(w[1])[n]
    IN  /\ worker[w].pc = "list"
        /\ n \in worker[w].todo
        /\ IF [row EXCEPT !.due = db[n].due] # db[n] THEN Fault ELSE UNCHANGED faults
        /\ \E due \in IF stale THEN {row.due, TRUE} ELSE {row.due} :
              worker' = [worker EXCEPT
                           ![w].todo = @ \ {n},
                           ![w].pc = IF Plan([row EXCEPT !.due = due])
                                     THEN "send" ELSE "list",
                           ![w].notice = IF Plan([row EXCEPT !.due = due])
                                         THEN n ELSE None,
                           ![w].attempts = IF Plan([row EXCEPT !.due = due])
                                           THEN row.attempts ELSE 0]
        /\ UNCHANGED <<db, lag, holder, sends, refused>>

Goto(w, pc) == worker' = [worker EXCEPT ![w].pc = pc]

(* The relay accepts, refuses (or the render fails), or accepts and the
   answer is lost. *)
Send(w) ==
    /\ worker[w].pc = "send"
    /\ \/ /\ sends' = [sends EXCEPT ![worker[w].notice] = @ + 1]
          /\ \/ Goto(w, "success") /\ UNCHANGED faults
             \/ Goto(w, "failure") /\ Fault
       \/ Goto(w, "failure") /\ UNCHANGED <<sends, faults>>
    /\ UNCHANGED <<db, lag, holder, refused>>

(* A status write throws: the try block's is caught and recorded as a
   failure; the catch block's ends a controller pass, not a sweep. *)
Thrown(w) ==
    IF worker[w].pc \in {"success", "successTxn", "successRecord"}
    THEN Goto(w, "failure") /\ UNCHANGED holder
    ELSE IF w[2] = "sweep"
         THEN /\ worker' = [worker EXCEPT ![w].pc = "list", ![w].notice = None,
                                          ![w].attempts = 0]
              /\ UNCHANGED holder
         ELSE Leave(w)

(* setStatus reads the row through the leader and checks its fence. *)
ReadFence(w) ==
    /\ worker[w].pc \in {"success", "failure"}
    /\ IF db[worker[w].notice].fence > worker[w].token THEN Thrown(w)
       ELSE /\ Goto(w, IF worker[w].pc = "success" THEN "successTxn"
                                                   ELSE "failureTxn")
            /\ UNCHANGED holder
    /\ UNCHANGED <<db, lag, sends, refused, faults>>

StatusOf(w) ==
    IF worker[w].pc = "successTxn" THEN AfterSuccess(worker[w].attempts)
                                   ELSE AfterFailure(worker[w].attempts)

FenceAllows(w) == db[worker[w].notice].fence <= worker[w].token

(* Its transaction: the status and the fence, or a failed constraint. *)
WriteStatus(w) ==
    LET n == worker[w].notice
    IN  /\ worker[w].pc \in {"successTxn", "failureTxn"}
        /\ IF FenceAllows(w)
           THEN /\ Commit(n, [raised |-> TRUE, fence |-> worker[w].token,
                              state |-> StatusOf(w).state,
                              attempts |-> StatusOf(w).attempts,
                              due |-> StatusOf(w).due])
                /\ Goto(w, IF worker[w].pc = "successTxn" THEN "successRecord"
                                                          ELSE "failureRecord")
                /\ UNCHANGED holder
           ELSE Thrown(w) /\ UNCHANGED <<db, lag>>
        /\ UNCHANGED <<sends, refused, faults>>

(* Read-back, Decision and notify: the attempt is over. *)
Record(w) ==
    /\ worker[w].pc \in {"successRecord", "failureRecord"}
    /\ worker' = [worker EXCEPT ![w].pc = "list", ![w].notice = None,
                                ![w].attempts = 0]
    /\ UNCHANGED <<db, lag, holder, sends, refused, faults>>

(* The store, the ledger or the bus fails a step of setStatus. *)
StoreFault(w) ==
    /\ worker[w].pc \in {"success", "successTxn", "successRecord",
                         "failure", "failureTxn", "failureRecord"}
    /\ Fault
    /\ Thrown(w)
    /\ UNCHANGED <<db, lag, sends, refused>>

(* The node dies; its lease stays granted until it lapses. *)
Crash(m) ==
    /\ \E l \in Loops : Running(<<m, l>>)
    /\ Fault
    /\ worker' = [w \in Workers |-> IF w[1] = m THEN Idle ELSE worker[w]]
    /\ UNCHANGED <<db, lag, holder, sends, refused>>

(* Ten seconds are over, under a running pass or after a crash. *)
Lapse ==
    /\ holder # None
    /\ IF Running(holder) THEN Fault ELSE UNCHANGED faults
    /\ holder' = None
    /\ UNCHANGED <<db, lag, worker, sends, refused>>

Run(w) ==
    \/ \E n \in Notices : Get(w, n)
    \/ Finish(w) \/ Send(w) \/ ReadFence(w) \/ WriteStatus(w) \/ Record(w)

Next ==
    \/ \E n \in Notices : Raise(n) \/ Elapse(n)
    \/ \E m \in Nodes : Apply(m) \/ Crash(m)
    \/ \E w \in Workers : Acquire(w) \/ Run(w) \/ StoreFault(w)
    \/ Lapse

(* Time passes, replicas catch up, a pass runs to its end, and a sweep that
   asks for the lease every minute finds it free some time. *)
Fairness ==
    /\ \A n \in Notices : WF_vars(Elapse(n))
    /\ \A m \in Nodes : WF_vars(Apply(m)) /\ SF_vars(Acquire(<<m, "sweep">>))
    /\ \A w \in Workers : WF_vars(Run(w))
    /\ WF_vars(Lapse)

Spec == Init /\ [][Next]_vars /\ Fairness

-----------------------------------------------------------------------------

(***************************************************************************)
(* Sending is not idempotent, so every copy of a notice beyond the first   *)
(* has a fault to account for it (controller.ts:13: a crash between the    *)
(* handshake and the status write "sends one duplicate"): the two loops of *)
(* one node, the two nodes, retries and backoffs never cause one.  And     *)
(* what the operator reads as sent was accepted by the relay at least      *)
(* once, whichever pass wrote the status last.                             *)
(***************************************************************************)
DeliveriesAccounted ==
    \A n \in Notices : /\ sends[n] <= 1 + faults
                       /\ db[n].state = "sent" => sends[n] > 0

(***************************************************************************)
(* Every notice that was raised is in the end, and for good, recorded as   *)
(* sent or as failed: whatever crashes in between, a deferred retry is not *)
(* forgotten and a relay that is down does not keep it pending for ever.   *)
(***************************************************************************)
Settles ==
    <>[](\A n \in Notices : db[n].raised => db[n].state \in {"sent", "failed"})

-----------------------------------------------------------------------------
(* What the source says of delivery and its interleavings do not keep.     *)

(***************************************************************************)
(* "sent is terminal and so is failed" (schedule.ts:66).                   *)
(***************************************************************************)
SentIsTerminal ==
    [][\A n \in Notices : db[n].state = "sent" => db'[n].state = "sent"]_vars

(***************************************************************************)
(* Raising the same notice twice "raises one resource, because the second  *)
(* admit normalizes to the spec already stored" (notice.ts:36-37): raising *)
(* again is no error.                                                      *)
(***************************************************************************)
RaisedAgainIsNoChange == refused = {}
=============================================================================
