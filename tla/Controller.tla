----------------------------- MODULE Controller -----------------------------
(***************************************************************************)
(* A controller of the control plane, backend/control/controller.ts over   *)
(* watch.ts, with one loop per node: a leased pass reads the durable       *)
(* watermark, scans the resources changed above it in batches, reconciles  *)
(* each, and advances the watermark once per batch.  Nodes read their      *)
(* local replica, which lags the leader by whole raft entries; writes and  *)
(* the read inside setStatus go through the leader.  The lease lapses ten  *)
(* seconds after it was taken, whatever its holder is doing, and the       *)
(* fencing token is then what keeps two passes apart.                      *)
(*                                                                         *)
(* A spec is represented by its version, and the status a reconcile writes *)
(* is the version it observed.  A pass that would find nothing above its   *)
(* watermark writes nothing and is left out.  Only the order of tokens is  *)
(* used, so a new token is the least one above all those still in use.     *)
(***************************************************************************)
EXTENDS Naturals, Sequences, FiniteSetsExt

CONSTANTS
    Nodes,      \* processes running the loop
    Keys,       \* resources
    Watched,    \* those of the kinds this controller reconciles
    None,       \* no node
    BatchSize,  \* changes per scan
    MaxWrites,  \* bound on the versions of each spec
    MaxLag,     \* bound on the raft entries a replica is behind by
    MaxFaults   \* bound on missed deadlines, throws, crashes, lapses, stale passes

ASSUME ConstantsOK ==
    /\ Watched \subseteq Keys /\ None \notin Nodes
    /\ BatchSize \in Nat \ {0} /\ MaxLag \in Nat
    /\ MaxWrites \in Nat /\ MaxFaults \in Nat

VARIABLES
    db,         \* the leader's tables: resource and controller_watermark
    lag,        \* per node, the older states its replica has yet to leave
    holder,     \* the node the lease is granted to, or None
    pass,       \* per node, the local state of its loop
    reconciled, \* history: per key, the last revision a reconcile completed
    faults

vars == <<db, lag, holder, pass, reconciled, faults>>

Idle == [pc |-> "idle", token |-> 0, mark |-> 0, batch |-> <<>>,
         processed |-> 0]

NoRow == [revision |-> 0, spec |-> 0, status |-> 0, fence |-> 0]

Init ==
    /\ db = [row |-> [k \in Keys |-> NoRow], mark |-> 0]
    /\ lag = [n \in Nodes |-> <<>>]
    /\ holder = None
    /\ pass = [n \in Nodes |-> Idle]
    /\ reconciled = [k \in Keys |-> 0]
    /\ faults = 0

-----------------------------------------------------------------------------
(* The tables a node's query() reads. *)
Local(n) == IF lag[n] = <<>> THEN db ELSE lag[n][1]

(* A write goes through the leader, and each replica applies it in time. *)
Commit(tables) ==
    /\ \A n \in Nodes : Len(lag[n]) < MaxLag
    /\ db' = tables
    /\ lag' = [n \in Nodes |-> Append(lag[n], db)]

Top == Max({0} \cup {db.row[k].revision : k \in Keys})

CommitRow(k, spec, status, fence) ==
    Commit([db EXCEPT !.row[k] = [revision |-> Top + 1, spec |-> spec,
                                  status |-> status, fence |-> fence]])

(* changesSince: the rows above a revision, oldest first, one batch. *)
Above(tables, since) ==
    {[key |-> k, revision |-> tables.row[k].revision, spec |-> tables.row[k].spec]
        : k \in {w \in Watched : tables.row[w].revision > since}}

Batches(rows) == UNION {[1..m -> rows] : m \in 0..BatchSize}

(* Variant: the query has a LIMIT and no ORDER BY. *)
ChangesUnordered(tables, since) ==
    LET rows == Above(tables, since)
    IN  {b \in Batches(rows) :
           \A r \in rows : (\E i \in DOMAIN b : b[i] = r) \/ Len(b) = BatchSize}

ChangesSince(tables, since) ==
    LET rows == Above(tables, since)
    IN  {b \in Batches(rows) :
           /\ \A i, j \in DOMAIN b : i < j => b[i].revision < b[j].revision
           /\ \A r \in rows :
                 \/ \E i \in DOMAIN b : b[i] = r
                 \/ /\ Len(b) = BatchSize
                    /\ \A i \in DOMAIN b : b[i].revision < r.revision}

InPass(n) == pass[n].pc # "idle"

NextToken ==
    1 + Max({0} \cup {db.row[k].fence : k \in Keys}
                \cup {pass[n].token : n \in Nodes})

Fault == faults < MaxFaults /\ faults' = faults + 1

-----------------------------------------------------------------------------
(* Someone else admits a new spec under the fence the row stands at. *)
Write(k) ==
    LET row == db.row[k]
    IN  /\ row.spec < MaxWrites
        /\ CommitRow(k, row.spec + 1, row.status, row.fence)
        /\ UNCHANGED <<holder, pass, reconciled, faults>>

Apply(n) ==
    /\ lag[n] # <<>>
    /\ lag' = [lag EXCEPT ![n] = Tail(@)]
    /\ UNCHANGED <<db, holder, pass, reconciled, faults>>

(* withLease grants the lease; a pass over a lagging replica is a fault. *)
Acquire(n) ==
    /\ ~InPass(n)
    /\ holder = None
    /\ Above(Local(n), Local(n).mark) # {}
    /\ IF lag[n] = <<>> THEN UNCHANGED faults ELSE Fault
    /\ holder' = n
    /\ pass' = [pass EXCEPT ![n] = [Idle EXCEPT !.pc = "read",
                                                !.token = NextToken]]
    /\ UNCHANGED <<db, lag, reconciled>>

ReadWatermark(n) ==
    /\ pass[n].pc = "read"
    /\ pass' = [pass EXCEPT ![n].pc = "scan",
                            ![n].mark = Local(n).mark]
    /\ UNCHANGED <<db, lag, holder, reconciled, faults>>

(* The pass is over, normally or by a throw: withLease releases. *)
Leave(n) ==
    /\ pass' = [pass EXCEPT ![n] = Idle]
    /\ holder' = IF holder = n THEN None ELSE holder

Scan(n) ==
    /\ pass[n].pc = "scan"
    /\ \E batch \in ChangesSince(Local(n), pass[n].mark) :
          IF batch = <<>> THEN Leave(n)
          ELSE /\ pass' = [pass EXCEPT ![n].pc = "reconcile",
                                       ![n].batch = batch, ![n].processed = 0]
               /\ UNCHANGED holder
    /\ UNCHANGED <<db, lag, reconciled, faults>>

Change(n) == pass[n].batch[1]

(* The reconcile of the head of the batch is complete. *)
Processed(n) ==
    LET change == Change(n)
        rest   == Tail(pass[n].batch)
    IN  /\ pass' = [pass EXCEPT
                      ![n].pc = IF rest = <<>> THEN "mark" ELSE "reconcile",
                      ![n].batch = rest, ![n].processed = change.revision]
        /\ reconciled' = [reconciled EXCEPT
                            ![change.key] = Max({@, change.revision})]

(* reconcile: setStatus of what the change shows.  Its leader read refuses
   a superseded token, whose throw ends the pass, and writes no status that
   is already stored. *)
Reconcile(n) ==
    LET row == db.row[Change(n).key]
    IN  /\ pass[n].pc = "reconcile"
        /\ \/ /\ row.fence > pass[n].token
              /\ Leave(n)
              /\ UNCHANGED reconciled
           \/ /\ row.fence <= pass[n].token
              /\ row.status = Change(n).spec
              /\ Processed(n)
              /\ UNCHANGED holder
           \/ /\ row.fence <= pass[n].token
              /\ row.status # Change(n).spec
              /\ pass' = [pass EXCEPT ![n].pc = "write"]
              /\ UNCHANGED <<holder, reconciled>>
        /\ UNCHANGED <<db, lag, faults>>

(* Variant: the guarded UPDATE without its fence predicate. *)
FenceIgnored(n) == TRUE

FenceAllows(n) == db.row[Change(n).key].fence <= pass[n].token

(* The transaction of setStatus. *)
WriteStatus(n) ==
    LET row == db.row[Change(n).key]
    IN  /\ pass[n].pc = "write"
        /\ IF FenceAllows(n)
           THEN /\ CommitRow(Change(n).key, row.spec, Change(n).spec,
                          pass[n].token)
                /\ Processed(n)
                /\ UNCHANGED holder
           ELSE Leave(n) /\ UNCHANGED <<db, lag, reconciled>>
        /\ UNCHANGED faults

(* Variant: the operands of the upsert's WHERE clause swapped. *)
MarkSwapped(n) == pass[n].processed < db.mark

MarkAdvances(n) == db.mark < pass[n].processed

(* writeWatermark, then the next batch. *)
WriteWatermark(n) ==
    /\ pass[n].pc = "mark"
    /\ IF MarkAdvances(n) THEN Commit([db EXCEPT !.mark = pass[n].processed])
                          ELSE UNCHANGED <<db, lag>>
    /\ pass' = [pass EXCEPT ![n].pc = "scan", ![n].mark = pass[n].processed]
    /\ UNCHANGED <<holder, reconciled, faults>>

(* The budget runs out before a scan or before a reconcile of the batch. *)
Deadline(n) ==
    /\ pass[n].pc \in {"scan", "reconcile"}
    /\ Fault
    /\ IF pass[n].pc = "reconcile" /\ pass[n].processed > 0
       THEN pass' = [pass EXCEPT ![n].pc = "mark"] /\ UNCHANGED holder
       ELSE Leave(n)
    /\ UNCHANGED <<db, lag, reconciled>>

(* A reconcile or a store operation of the pass throws. *)
Throw(n) ==
    /\ InPass(n)
    /\ Fault
    /\ Leave(n)
    /\ UNCHANGED <<db, lag, reconciled>>

(* The process dies and comes back; its lease stays granted until it lapses. *)
Crash(n) ==
    /\ InPass(n)
    /\ Fault
    /\ pass' = [pass EXCEPT ![n] = Idle]
    /\ UNCHANGED <<db, lag, holder, reconciled>>

(* Ten seconds are over: under a pass still running, or after a crash. *)
Lapse ==
    /\ holder # None
    /\ IF InPass(holder) THEN Fault ELSE UNCHANGED faults
    /\ holder' = None
    /\ UNCHANGED <<db, lag, pass, reconciled>>

Run(n) ==
    \/ Acquire(n) \/ ReadWatermark(n) \/ Scan(n) \/ Reconcile(n)
    \/ WriteStatus(n) \/ WriteWatermark(n)

Next ==
    \/ \E k \in Keys : Write(k)
    \/ \E n \in Nodes :
          Apply(n) \/ Run(n) \/ Deadline(n) \/ Throw(n) \/ Crash(n)
    \/ Lapse

(* Replicas catch up, the loop runs, and a lease no one renews lapses. *)
Fairness ==
    /\ \A n \in Nodes : WF_vars(Apply(n)) /\ WF_vars(Run(n))
    /\ WF_vars(Lapse)

Spec == Init /\ [][Next]_vars /\ Fairness

-----------------------------------------------------------------------------
(***************************************************************************)
(* No change is skipped: a watched row that stands at or below the durable *)
(* watermark has been reconciled at that revision, whatever passes ran     *)
(* over lagging replicas, overran their lease or died before their mark.   *)
(***************************************************************************)
NoChangeSkipped ==
    \A k \in Watched :
        LET revision == db.row[k].revision
        IN  revision <= db.mark => reconciled[k] >= revision

(***************************************************************************)
(* The durable watermark never falls: a pass that resumed from an old      *)
(* replica and finishes late does not take back what a later one recorded. *)
(***************************************************************************)
WatermarkNeverFalls == [][db'.mark >= db.mark]_vars

(***************************************************************************)
(* A controller that writes the resources it watches comes to rest, with   *)
(* every status the last spec's: it neither stops early nor feeds on its   *)
(* own writes (the reason setStatus writes nothing that is already there). *)
(***************************************************************************)
Converges ==
    <>[](/\ \A n \in Nodes : ~InPass(n)
         /\ \A k \in Watched : db.row[k].status = db.row[k].spec)

(***************************************************************************)
(* The writes of controllers and of everyone else are writes of the        *)
(* versioned store: above all, none lands under a fence lower than its     *)
(* row's, which is what stops a pass that outlived its lease.              *)
(***************************************************************************)
Store == INSTANCE VersionedStore WITH
    top   <- Top,
    store <- [k \in Keys |-> [revision |-> db.row[k].revision,
                              fence    |-> db.row[k].fence]]

ImplementsStore == Store!Spec
=============================================================================
