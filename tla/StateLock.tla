----------------------------- MODULE StateLock -----------------------------
(***************************************************************************)
(* Reclaiming the state machine's lock at boot, backend/hiq/lock.ts, and   *)
(* hiqlite's use of that lock.  hiqlite creates the lock when it opens the *)
(* data directory, refuses to open one that is locked, and never removes   *)
(* it; each start first decides from the owner record whether the lock it  *)
(* finds is stale.  Files outlive processes and containers; pids and       *)
(* namespace inodes are reused.  A process that is refused stays alive.    *)
(*                                                                         *)
(* One container at a time has the volume (lock.ts:81-86 excludes two).    *)
(* Processes are named by their start time.  Records older than 2026-08-02 *)
(* are left out.                                                           *)
(***************************************************************************)
EXTENDS Naturals, FiniteSets

CONSTANTS
    Pids,          \* pids a namespace hands out
    Namespaces,    \* namespace inodes, which are reused
    NodeIds,       \* configured node identities
    None,          \* no owner record
    Overlap,       \* whether two starts may be under way at once
    MaxStarts,     \* bound on processes started, ours and unrelated ones
    MaxFileErrors  \* bound on file operations that fail

VARIABLES
    lock,       \* state_machine/lock exists
    owner,      \* enrahitu-owner.json, or None
    container,  \* the namespace and the node identity of the container
    procs,      \* per start time, a process
    fileErrors

vars == <<lock, owner, container, procs, fileErrors>>

Starts == 1..MaxStarts

Unborn == [pid |-> 0, pc |-> "unborn"]

Init ==
    /\ lock = FALSE
    /\ owner = None
    /\ container \in [ns : Namespaces, node : NodeIds]
    /\ procs = [t \in Starts |-> Unborn]
    /\ fileErrors = 0

-----------------------------------------------------------------------------
Alive(t)    == procs[t].pc \notin {"unborn", "dead"}
Starting(t) == procs[t].pc \in {"look", "read", "remove", "own", "open"}
Running     == {t \in Starts : procs[t].pc = "running"}

Goto(t, pc) == procs' = [procs EXCEPT ![t].pc = pc]

FileError == fileErrors < MaxFileErrors /\ fileErrors' = fileErrors + 1

(* Variant: a live pid is its recorded process, whatever its start time. *)
PidStillRunning == \E t \in Starts : Alive(t) /\ procs[t].pid = owner.pid

(* Variant: the recorded owner is always taken for gone. *)
NobodyRunning == FALSE

(* ownerStillRunning: the pid is alive and its start time the recorded one. *)
OwnerStillRunning ==
    \E t \in Starts :
        Alive(t) /\ procs[t].pid = owner.pid /\ t = owner.start

(* decide, of a lock that is there: may it be removed? *)
Stale(t) ==
    \/ owner = None
    \/ /\ owner.node = container.node
       /\ \/ owner.ns # container.ns
          \/ owner.pid = procs[t].pid
          \/ ~OwnerStillRunning

-----------------------------------------------------------------------------
(* A process starts under a pid that is free: the application, or any
   other process of the container. *)
Start(t, pid, pc) ==
    /\ procs[t].pc = "unborn"
    /\ \A u \in Starts : u < t => procs[u].pc # "unborn"
    /\ \A u \in Starts : Alive(u) => procs[u].pid # pid
    /\ pc = "look" /\ ~Overlap => \A u \in Starts : ~Starting(u)
    /\ procs' = [procs EXCEPT ![t] = [pid |-> pid, pc |-> pc]]
    /\ UNCHANGED <<lock, owner, container, fileErrors>>

(* existsSync: without a lock there is nothing to reclaim. *)
Look(t) ==
    /\ procs[t].pc = "look"
    /\ Goto(t, IF lock THEN "read" ELSE "own")
    /\ UNCHANGED <<lock, owner, container, fileErrors>>

(* readOwner and the checks on it: remove the lock, or leave it to hiqlite. *)
Read(t) ==
    /\ procs[t].pc = "read"
    /\ Goto(t, IF Stale(t) THEN "remove" ELSE "open")
    /\ UNCHANGED <<lock, owner, container, fileErrors>>

(* rmSync; a failure leaves everything to hiqlite. *)
Remove(t) ==
    /\ procs[t].pc = "remove"
    /\ \/ lock' = FALSE /\ Goto(t, "own") /\ UNCHANGED fileErrors
       \/ UNCHANGED lock /\ Goto(t, "open") /\ FileError
    /\ UNCHANGED <<owner, container>>

OwnerRecord(t) ==
    [pid |-> procs[t].pid, node |-> container.node, ns |-> container.ns,
     start |-> t]

(* writeOwner, best effort: a failed write leaves the old record, or one
   that no longer parses. *)
WriteOwner(t) ==
    /\ procs[t].pc = "own"
    /\ \/ owner' = OwnerRecord(t) /\ UNCHANGED fileErrors
       \/ owner' \in {owner, None} /\ FileError
    /\ Goto(t, "open")
    /\ UNCHANGED <<lock, container>>

(* hiqlite.init(): refused over a lock. *)
Open(t) ==
    /\ procs[t].pc = "open"
    /\ lock' = TRUE
    /\ Goto(t, IF lock THEN "refused" ELSE "running")
    /\ UNCHANGED <<owner, container, fileErrors>>

(* A process ends, in whatever way: nothing releases the lock. *)
Exit(t) ==
    /\ Alive(t)
    /\ Goto(t, "dead")
    /\ UNCHANGED <<lock, owner, container, fileErrors>>

(* The container is replaced, perhaps by another node's. *)
Recreate ==
    /\ container' \in [ns : Namespaces, node : NodeIds]
    /\ procs' = [t \in Starts |->
                   IF Alive(t) THEN [procs[t] EXCEPT !.pc = "dead"] ELSE procs[t]]
    /\ UNCHANGED <<lock, owner, fileErrors>>

Boot(t) == Look(t) \/ Read(t) \/ Remove(t) \/ WriteOwner(t) \/ Open(t)

Next ==
    \/ \E t \in Starts :
          \/ \E pid \in Pids, pc \in {"look", "unrelated"} : Start(t, pid, pc)
          \/ Boot(t)
          \/ Exit(t)
    \/ Recreate

Spec == Init /\ [][Next]_vars

-----------------------------------------------------------------------------
OwnerRecords == [pid : Pids, node : NodeIds, ns : Namespaces, start : Starts]

(***************************************************************************)
(* Two processes never have the state machine open: no lock is removed     *)
(* under a live holder ("lock, and the recorded owner is gone: provably    *)
(* stale", lock.ts:42), through reused pids and namespaces, recreated      *)
(* containers, foreign volumes and deaths at any step of a start.  A file  *)
(* operation that fails ends the promise: see lock.ts:299.                 *)
(***************************************************************************)
NeverTwoOpen == fileErrors = 0 => Cardinality(Running) <= 1

(***************************************************************************)
(* The check leaves a lock in place only over a live holder or on another  *)
(* node's volume (lock.ts:338-366): a crash, a hard kill, a recreate or a  *)
(* failed file operation never leaves the store shut, even when an         *)
(* unrelated process has taken the dead owner's pid.                       *)
(***************************************************************************)
KeptOnlyWhenHeld ==
    [][\A t \in Starts :
          procs[t].pc = "read" /\ procs'[t].pc = "open" =>
              Running # {} \/ owner.node # container.node]_vars
=============================================================================
