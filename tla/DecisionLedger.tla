--------------------------- MODULE DecisionLedger ---------------------------
(***************************************************************************)
(* The Decision ledger, backend/kernel/decisions.ts: a hash-linked chain   *)
(* in a table several processes may write (Postgres; the shape also covers *)
(* libSQL, whose write transactions cannot interleave).  Each process runs *)
(* its appends through one in-memory queue; between processes an append is *)
(* a compare-and-swap on the unique parent index.  Denials are recorded by *)
(* a caller that does not wait, inside a durable dirty flag; a boot that   *)
(* finds the flag set appends a crash-window marker.                       *)
(*                                                                         *)
(* The hash of the i-th record is represented by i: it commits to the      *)
(* record's parent, id and timestamp, so no two records share one.         *)
(***************************************************************************)
EXTENDS Naturals, Sequences, SequencesExt

CONSTANTS
    Procs,        \* processes sharing the store
    Models,       \* application models a process may boot with
    Denials,      \* denials the kernel records, each once
    Allows,       \* admissions appended by appendDecision, each once
    BootJob,      \* the ensureDecisionLedger() of the store's boot
    CASAttempts,  \* CAS_ATTEMPTS
    Founded,      \* the chain the store starts with
    MaxCrashes,   \* bound on crashes
    MaxErrors     \* bound on store errors other than a CAS miss

Jobs == Denials \cup Allows

ASSUME ConstantsOK ==
    /\ CASAttempts \in Nat \ {0}
    /\ Denials \cap Allows = {} /\ BootJob \notin Jobs
    /\ MaxCrashes \in Nat /\ MaxErrors \in Nat

VARIABLES
    chain,    \* table kernel_decisions in seq order
    dirty,    \* table kernel_ledger_meta
    proc,     \* the module state of each process
    asked,    \* jobs some process has accepted
    unmarked, \* history: denials a crash took from a bracket, no marker since
    unanswered, \* history: processes whose last close took effect unanswered
    crashes,
    errors

vars == <<chain, dirty, proc, asked, unmarked, unanswered, crashes, errors>>

Down == [pc |-> "down", model |-> BootJob, queue |-> <<>>, what |-> "job",
         head |-> 0, attempt |-> 1, initialized |-> FALSE, wasDirty |-> FALSE,
         bracketOpen |-> FALSE]

Init ==
    /\ chain = Founded
    /\ dirty = FALSE
    /\ proc = [p \in Procs |-> Down]
    /\ asked = {}
    /\ unmarked = {} /\ unanswered = {}
    /\ crashes = 0
    /\ errors = 0

-----------------------------------------------------------------------------
Record(parent, kind, model, job) ==
    [parent |-> parent, kind |-> kind, model |-> model, job |-> job]

Chained == {chain[i].job : i \in DOMAIN chain}

(* Variant: the parent index is not unique. *)
Unclaimed(parent) == FALSE

(* Every parent has at most one child. *)
Claimed(parent) == \E i \in DOMAIN chain : chain[i].parent = parent

(* The chain is anchored to the model that founded it. *)
ChainHead(model) == IF chain = <<>> THEN model ELSE Len(chain)

(* Variant: any genesis on the chain will do. *)
AnyGenesis == IF chain = <<>> THEN {} ELSE Models

(* The newest genesis on the chain, if there is one. *)
Newest(i) ==
    chain[i].kind = "genesis"
        /\ \A k \in DOMAIN chain : k > i => chain[k].kind # "genesis"

GenesisModels == {chain[i].model : i \in {k \in DOMAIN chain : Newest(k)}}

(* verifyChain: every record names its predecessor. *)
Verifies(ch) == \A i \in 2..Len(ch) : ch[i].parent = i - 1

Pending(queue) == {j \in Range(queue) : j \in Denials}

Stores == <<chain, dirty, asked, unmarked, unanswered, crashes, errors>>

Goto(p, pc) == proc' = [proc EXCEPT ![p].pc = pc]

(* Enter appendUnlocked. *)
Appending(me, what) ==
    [me EXCEPT !.pc = "head", !.what = what, !.attempt = 1]

-----------------------------------------------------------------------------
(* The process starts and queues ensureDecisionLedger(). *)
Boot(p, m) ==
    /\ proc[p].pc = "down"
    /\ proc' = [proc EXCEPT ![p] = [Down EXCEPT !.pc = "idle", !.model = m,
                                                !.queue = <<BootJob>>]]
    /\ UNCHANGED Stores

(* recordDenial and appendDecision: onto the tail of the queue, at once. *)
Ask(p, j) ==
    /\ proc[p].pc # "down"
    /\ j \notin asked
    /\ asked' = asked \cup {j}
    /\ proc' = [proc EXCEPT ![p].queue = Append(@, j)]
    /\ UNCHANGED <<chain, dirty, unmarked, unanswered, crashes, errors>>

(* What the job at the head of the queue does once the ledger is ready. *)
Started(me) ==
    LET job == me.queue[1]
    IN  IF job = BootJob THEN [me EXCEPT !.pc = "settle"]
        ELSE IF job \in Denials /\ ~me.bracketOpen THEN [me EXCEPT !.pc = "open"]
        ELSE Appending(me, "job")

(* The queue runs its next job, behind initUnlocked the first time. *)
Take(p) ==
    /\ proc[p].pc = "idle"
    /\ proc[p].queue # <<>>
    /\ proc' = [proc EXCEPT ![p] =
                  IF @.initialized THEN Started(@) ELSE [@ EXCEPT !.pc = "meta"]]
    /\ UNCHANGED Stores

(* Variant: the flag is reset as it is read, before the marker is chained. *)
ReadMetaAndReset(p) ==
    /\ proc[p].pc = "meta"
    /\ dirty' = FALSE
    /\ proc' = [proc EXCEPT ![p].pc = "genesis", ![p].wasDirty = dirty]
    /\ UNCHANGED <<chain, asked, unmarked, unanswered, crashes, errors>>

ReadMeta(p) ==
    /\ proc[p].pc = "meta"
    /\ proc' = [proc EXCEPT ![p].pc = "genesis", ![p].wasDirty = dirty]
    /\ UNCHANGED Stores

(* After genesis: the marker if the flag was set, else verification. *)
PastGenesis(me) ==
    IF me.wasDirty THEN Appending(me, "marker") ELSE [me EXCEPT !.pc = "verify"]

ReadGenesis(p) ==
    /\ proc[p].pc = "genesis"
    /\ proc' = [proc EXCEPT ![p] =
                  IF @.model \in GenesisModels THEN PastGenesis(@)
                  ELSE Appending(@, "genesis")]
    /\ UNCHANGED Stores

(* appendUnlocked, first half of its transaction: the head read. *)
ReadHead(p) ==
    /\ proc[p].pc = "head"
    /\ proc' = [proc EXCEPT ![p].pc = "insert", ![p].head = ChainHead(proc[p].model)]
    /\ UNCHANGED Stores

(* Variant: the queue keeps the job it has just chained. *)
AppendedKept(me) ==
    CASE me.what = "genesis" -> PastGenesis(me)
      [] me.what = "marker"  -> [me EXCEPT !.pc = "clear"]
      [] me.what = "job"     -> [me EXCEPT !.pc = "idle"]

Appended(me) ==
    CASE me.what = "genesis" -> PastGenesis(me)
      [] me.what = "marker"  -> [me EXCEPT !.pc = "clear"]
      [] me.what = "job"     -> [me EXCEPT !.pc = "settle"]

(* The insert's effect on the store, unless the parent is claimed. *)
Commits(p) ==
    LET me == proc[p]
    IN  /\ ~Claimed(me.head)
        /\ chain' = Append(chain,
              Record(me.head, IF me.what = "job" THEN "decision" ELSE me.what,
                     me.model, IF me.what = "job" THEN me.queue[1] ELSE BootJob))
        /\ unmarked' = IF me.what = "marker" THEN {} ELSE unmarked
        /\ UNCHANGED dirty

(* The effect of the statement that sets or resets the flag. *)
Flags(up) == dirty' = up /\ UNCHANGED <<chain, unmarked>>

(* Second half, the parent unclaimed: the record commits. *)
Insert(p) ==
    /\ proc[p].pc = "insert"
    /\ Commits(p)
    /\ proc' = [proc EXCEPT ![p] = Appended(@)]
    /\ UNCHANGED <<asked, unanswered, crashes, errors>>

(* Does it die inside a bracket that is, as far as it can know, durable? *)
Bracketed(p) == proc[p].bracketOpen /\ p \notin unanswered

(* The process loses its memory; denials it held in a bracket are lost. *)
Dead(p) ==
    /\ proc' = [proc EXCEPT ![p] = Down]
    /\ unmarked' = IF Bracketed(p)
                   THEN unmarked \cup (Pending(proc[p].queue) \ Chained)
                   ELSE unmarked
    /\ unanswered' = unanswered \ {p}

(* A CAS miss: read the head again, until the attempts run out. *)
Miss(p) ==
    LET me == proc[p]
    IN  /\ me.pc = "insert"
        /\ Claimed(me.head)
        /\ me.attempt < CASAttempts
        /\ proc' = [proc EXCEPT ![p].pc = "head", ![p].attempt = @ + 1]
        /\ UNCHANGED Stores

(* Attempts exhausted: fatal during init, the job's failure after it. *)
Exhaust(p) ==
    LET me == proc[p]
    IN  /\ me.pc = "insert"
        /\ Claimed(me.head)
        /\ me.attempt >= CASAttempts
        /\ IF me.initialized
           THEN Goto(p, "settle") /\ UNCHANGED <<unmarked, unanswered>>
           ELSE Dead(p)
        /\ UNCHANGED <<chain, dirty, asked, crashes, errors>>

(* The marker is on the chain: close the stale bracket. *)
ClearStale(p) ==
    /\ proc[p].pc = "clear"
    /\ Flags(FALSE)
    /\ Goto(p, "verify")
    /\ UNCHANGED <<asked, unanswered, crashes, errors>>

(* The end of init; a chain that does not verify stops the process. *)
Verify(p) ==
    /\ proc[p].pc = "verify"
    /\ IF Verifies(chain)
       THEN /\ proc' = [proc EXCEPT ![p] = Started([@ EXCEPT !.initialized = TRUE])]
            /\ UNCHANGED <<unmarked, unanswered>>
       ELSE Dead(p)
    /\ UNCHANGED <<chain, dirty, asked, crashes, errors>>

(* A denial's bracket is durable before its record is attempted. *)
OpenBracket(p) ==
    /\ proc[p].pc = "open"
    /\ Flags(TRUE)
    /\ proc' = [proc EXCEPT ![p] =
                  Appending([@ EXCEPT !.bracketOpen = TRUE], "job")]
    /\ UNCHANGED <<asked, unanswered, crashes, errors>>

(* Variant: the count is taken before the settling denial leaves it. *)
LastDenialMiscounted(p) ==
    LET me == proc[p]
    IN  me.queue[1] \in Denials /\ Pending(me.queue) = {} /\ me.bracketOpen

LastDenial(p) ==
    LET me == proc[p]
    IN  me.queue[1] \in Denials /\ Pending(Tail(me.queue)) = {} /\ me.bracketOpen

(* The job ends, well or not; the last pending denial closes the bracket. *)
Settle(p) ==
    /\ proc[p].pc = "settle"
    /\ proc' = [proc EXCEPT ![p].pc = IF LastDenial(p) THEN "close" ELSE "idle",
                            ![p].queue = Tail(@)]
    /\ UNCHANGED Stores

CloseBracket(p) ==
    /\ proc[p].pc = "close"
    /\ Flags(FALSE)
    /\ proc' = [proc EXCEPT ![p].pc = "idle", ![p].bracketOpen = FALSE]
    /\ unanswered' = unanswered \ {p}
    /\ UNCHANGED <<asked, crashes, errors>>

(* What a statement whose answer is lost has done. *)
TakesEffect(p) ==
    \/ proc[p].pc = "insert" /\ Commits(p)
    \/ proc[p].pc = "open" /\ Flags(TRUE)
    \/ proc[p].pc \in {"clear", "close"} /\ Flags(FALSE)

(* The store fails a statement, before or after it took effect: the job fails
   and the queue goes on.  A close that fails leaves the bracket open in memory,
   whatever became of the flag. *)
StoreError(p) ==
    /\ proc[p].pc \in {"meta", "genesis", "head", "insert", "clear", "verify",
                       "open", "close"}
    /\ errors < MaxErrors
    /\ errors' = errors + 1
    /\ Goto(p, IF proc[p].pc = "close" THEN "idle" ELSE "settle")
    /\ \/ UNCHANGED <<chain, dirty, unmarked, unanswered>>
       \/ /\ TakesEffect(p)
          /\ unanswered' = IF proc[p].pc = "close" THEN unanswered \cup {p}
                           ELSE unanswered
    /\ UNCHANGED <<asked, crashes>>

Crash(p) ==
    /\ proc[p].pc # "down"
    /\ crashes < MaxCrashes
    /\ crashes' = crashes + 1
    /\ Dead(p)
    /\ UNCHANGED <<chain, dirty, asked, errors>>

Run(p) ==
    \/ Take(p) \/ ReadMeta(p) \/ ReadGenesis(p)
    \/ ReadHead(p) \/ Insert(p) \/ Miss(p) \/ Exhaust(p)
    \/ ClearStale(p) \/ Verify(p)
    \/ OpenBracket(p) \/ Settle(p) \/ CloseBracket(p)

Next ==
    \E p \in Procs :
        \/ Run(p)
        \/ \E m \in Models : Boot(p, m)
        \/ \E j \in Jobs : Ask(p, j)
        \/ StoreError(p)
        \/ Crash(p)

Spec == Init /\ [][Next]_vars

(* The event loop runs what is queued, and a process that died is started
   again: by the container's supervisor or by the next deploy. *)
FairSpec ==
    /\ Spec
    /\ \A p \in Procs : WF_vars(Run(p)) /\ WF_vars(\E m \in Models : Boot(p, m))

-----------------------------------------------------------------------------
Records == [parent : Nat \cup Models, kind : {"genesis", "marker", "decision"},
            model : Models, job : Jobs \cup {BootJob}]

States == [pc : {"down", "idle", "meta", "genesis", "head", "insert", "clear",
                 "verify", "open", "settle", "close"},
           model : Models \cup {BootJob}, queue : Seq(Jobs \cup {BootJob}),
           what : {"genesis", "marker", "job"}, head : Nat \cup Models,
           attempt : 1..CASAttempts, initialized : BOOLEAN,
           wasDirty : BOOLEAN, bracketOpen : BOOLEAN]

TypeOK ==
    /\ chain \in Seq(Records)
    /\ dirty \in BOOLEAN
    /\ proc \in [Procs -> States]
    /\ asked \subseteq Jobs
    /\ unmarked \subseteq Denials /\ unanswered \subseteq Procs
    /\ crashes \in 0..MaxCrashes
    /\ errors \in 0..MaxErrors

(***************************************************************************)
(* "A chain under this index is linear by construction" (decisions.ts:48): *)
(* whatever the processes race to append, every record but the first names *)
(* the record before it, so the chain verifies at the next boot.           *)
(***************************************************************************)
ChainLinear == Verifies(chain)

(***************************************************************************)
(* No Decision is chained under a model whose genesis is not already on    *)
(* the chain: every record that is not a genesis follows a genesis of the  *)
(* model that its process booted.                                          *)
(***************************************************************************)
GenesisFirst ==
    \A i \in DOMAIN chain : chain[i].kind # "genesis" =>
        \E g \in 1..(i - 1) :
            chain[g].kind = "genesis" /\ chain[g].model = chain[i].model

(***************************************************************************)
(* A CAS miss re-chains the payload and a failed job is not run again: no  *)
(* denial or admission is on the chain twice.                              *)
(***************************************************************************)
ChainedOnce ==
    \A i, j \in DOMAIN chain :
        /\ chain[i].kind = "decision" /\ chain[j].kind = "decision"
        /\ chain[i].job = chain[j].job
        => i = j

(***************************************************************************)
(* A denial that a crash takes from a process with its bracket open is not *)
(* forgotten: until a marker is chained the flag is set, and no process    *)
(* serves before that.  decisions.ts:14: the loss window is "bracketed by  *)
(* a durable dirty flag and marked at the next boot".                      *)
(*                                                                         *)
(* Not counted are a denial whose append fails, which is only logged       *)
(* (decisions.ts:406-411), and what dies in a bracket whose last close     *)
(* took effect and was not answered: see DurableBeforeRecord.              *)
(***************************************************************************)
LossesMarked ==
    unmarked # {} =>
        /\ dirty
        /\ \A p \in Procs : ~proc[p].initialized

(***************************************************************************)
(* The bracket is "durable before the record transaction, so a crash       *)
(* mid-append is marked at the next boot" (decisions.ts:393-394): while a  *)
(* denial is being appended the flag is set.                               *)
(***************************************************************************)
DurableBeforeRecord ==
    \A p \in Procs :
        /\ proc[p].pc \in {"head", "insert"} /\ proc[p].what = "job"
        /\ proc[p].queue[1] \in Denials
        => dirty

(***************************************************************************)
(* The flag alone, for a store several processes share: as long as a       *)
(* denial lost inside a bracket is unmarked, the flag that makes the next  *)
(* boot mark it is set ("their loss window is bracketed by a durable dirty *)
(* flag and marked at the next boot", decisions.ts:14-15).                 *)
(***************************************************************************)
LossFlagged == unmarked # {} => dirty

(***************************************************************************)
(* A burst of denials ends: unless the store fails a statement, the flag   *)
(* does not stay set, so a later clean shutdown is not reported as a crash *)
(* window.                                                                 *)
(***************************************************************************)
BracketCloses == dirty ~> (~dirty \/ errors > 0)
=============================================================================
