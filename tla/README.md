# TLA+ specifications of enrahitu

Specifications of the state-keeping parts of enrahitu, a self-hosted membership
platform: its control plane, its decision ledger, its mail, its renewal loop and
the tenant it serves, a browser's session and the limits on its requests, the
traces it leaves, the start of its container, its operational verbs, and the loop
it is developed in. TLC checks each on a small instance; TLAPS proves every safety
property that the passing runs check, for every value of the constants but for two:
one process on the ledger's store in one, starts that do not overlap in another
(section 6).

Paths below are relative to the repository; `backend/` is where most of the code
lives. A definition's source lines are listed in `PROJECT.json` under `map`.

## 1. The system

One container holds the application (an Encore/TypeScript process) and an
identity provider (rauthy). The application embeds hiqlite, a raft-replicated
SQLite with leases, counters and an event bus, and keeps a relational ledger
(CoreLedger) in a SQLite file or in Postgres. One node is the primary mode;
three or five are supported.

| Part | State it keeps | Operations | Talks to | What is hard |
|---|---|---|---|---|
| Control plane admission (`control/admission.ts`, `schema.ts`) | tables `resource`, `outbox` | admit, retract, setStatus, get, list | raft leader, decision ledger, event bus | calls interleave between their read and their transaction; a call can die between commit and Decision |
| Controllers and change feed (`control/controller.ts`, `watch.ts`) | durable watermark, lease, in-memory waker | pass, scan, reconcile, write watermark, stop | admission, leases, events | replicas lag, leases lapse under a running pass, events are lost, stop() lands at any await |
| State facade (`state/`) | migrations table, one event pump per process | query, txn, lock, listen, migrate, snapshot | hiqlite | local reads are stale; two pumps would share one event stream |
| Decision ledger (`kernel/decisions.ts`) | hash chain, dirty flag; in memory a queue and a bracket | init, recordDenial, appendDecision, verify | CoreLedger | several processes append; a crash loses what is queued |
| Kernel adjudication (`kernel/`) | none | adjudicate | native kernel | the fail-closed boot order |
| Mail delivery (`mail/`) | notices and their status | raise, deliver, sweep | admission, a transport | a send cannot be undone: accepted and not recorded means sent twice |
| Mail transport (`mail/transport.ts`) | one conversation | send | SMTP relay, HTTP provider | replies are cut anywhere, the channel is open until it is upgraded |
| Membership renewal (`members/controller.ts`, `renewal.ts`) | memberships, tiers, invoices | reconcile, sweep, operators' edits, payments | admission, mail | two loops and people write the same rows; a pass is seven steps |
| Membership endpoints, tenancy (`members/`) | the same rows, the association's record | CRUD, tenant guard | admission | optimistic locking by the fence; the endpoints serve while the guard is asked |
| State machine lock (`hiq/lock.ts`) | a lock file, an owner record | reclaim, init | file system, /proc | pids and namespaces are reused; a wrong guess opens the store twice |
| CoreLedger (`core/ledger/`) | application tables, migrations table | migrate, query, insert, ... | SQLite/Postgres | two operators migrate at once |
| Authentication, sessions (`auth/`, `frontend/src/lib/api.ts`) | cookies, sealed tokens | login, refresh, logout | rauthy | loaders and tabs refresh at once, answers come late, two clocks |
| Request plumbing (`lib/`) | rate-limit counters | limit, parse, format | counters | a window ends during a request |
| Observability (`obs/`) | a bounded trace buffer, its listeners | record, displace, notify | none | a live trace is displaced; spans end in any order |
| Health, admin, static files, IdP proxy | none | migrate, snapshot, stream, report, forward | all | a session ends between two calls |
| Container start (`docker/`) | keys, secrets, restore marker | first-boot, entrypoint | both processes | a kill between or inside any two file writes |
| Operational verbs (`scripts/ops/`) | archives | preflight, migrate, backup, restore | container, admin plane | the cell goes on writing; one of several steps fails |
| Development loop (`scripts/dev-watch.mjs`) | a fingerprint, a child process | poll, build, stop, start | compiler, the app | `fs.watch` falls silent, the app does not die |
| Other scaffolding, build scripts, front ends | none | | | |

What makes each correct, in one line: **admission**, every write gets a revision
of its own above all others and none lands below its row's fence; **controllers**,
no change is skipped and the loop comes to rest; **ledger**, the chain stays
linear, nothing is chained twice, and what a crash loses is marked; **mail**,
`sent` was accepted, duplicates have a fault behind them, everything settles;
**transport**, a send returns only for what was accepted, and nothing crosses an
open channel unasked; **renewal**, a term is extended only by a payment, a bill
does not change, a payment renews; **tenancy**, the loops run over one dataset;
**lock**, the store is never open twice and never shut for no reason; **sessions**,
what the authority takes away is gone within one token's lifetime; **rate limit**,
a window lets no more through than it says; **traces**, who listens is told how a
request ended; **loops**, one pump, every change reached, stop ends; **container**,
a restore is made once and only in its store, keys last, the cell comes up, and
its two processes end together;
**migrations**, each takes effect once and success means complete; **verbs**, a
migration leaves the two stores in order, a backup says what it lacks, a restore is what comes up; **development**, an edit is built.

## 2. Plan

Most important behaviour first: first what every write passes through, then what
every write leaves behind, then what reacts to writes, then what starts it all,
then the requests and the operator's tools around it.

| # | Module | Stands on | State |
|---|---|---|---|
| 1 | `VersionedStore`, `Admission`, `AdmissionProofs` | | checked, proved |
| 2 | `DecisionLedger`, `DecisionLedgerProofs` | | checked, safety proved |
| 3 | `Controller`, `ControllerProofs` | `VersionedStore` | checked, safety proved |
| 4 | `MailDelivery`, `MailDeliveryProofs` | admission's status write, leases | checked, safety proved |
| 5 | `StateLock` | | checked, proved |
| 6 | `Renewal`, `RenewalProofs` | admission, controller, mail (each one step) | checked, safety proved |
| 7 | `WatchLoop` | controller (a pass is one number) | checked, safety proved |
| 8 | `ContainerBoot`, `Entrypoint` (model-checked) | | checked, safety proved |
| 9 | `Migrations` | | checked, proved |
| 10 | `Sessions`, `RateLimit`, `TraceBuffer`: the request side | | checked, proved |
| 11 | `Tenancy` | admission (one step) | checked, proved |
| 12 | `Recovery`, `RecoveryProofs`, `OperatorVerbs`: the operator's verbs | first boot's marker, migrations (one step) | checked, proved |
| 13 | `Smtp` | | checked, proved |
| 14 | `DevWatch` | | checked, proved |
| 15 | pure algorithms: `addPeriod` and the calendar, placeholders, redaction | | to do |
| 16 | kernel boot order; signatures on the chain | ledger | to do |

Abstract specifications: `VersionedStore` (what admission promises, implemented
by `Admission` and by `Controller`'s tables). Worth stating later: a linear log
that `DecisionLedger` implements.

The theorems about 5 and 9 to 13 (but Recovery) are in `PartsProofs`, those about 7,
8 and 14 and one more about 2 in `ProcessesProofs`.

Proofs worth doing next: the linear log under `DecisionLedger`; what remains of the
lock's safety when starts overlap; losses on a store with two processes, up to the
bracket that one closes over the other.

## 3. Modules

In every module an action is one stretch of the code between two points where
something else can run: an await in TypeScript, a system call in the boot. A
crash, a lapsed lease or a failed call is an action of its own, and
`MaxFaults` bounds how many happen. History variables, which no guard reads,
are marked "history".

**VersionedStore**: a counter and, per resource, the revision and fence of its last
write. One action: a write takes the next revision if its fence is not below the
row's.

**Admission**: the tables `resource` and `outbox`, the Decisions, and one call in
flight per writer. `Admit`, `Retract` and `SetStatus` are the consistent read
with the early returns the code has (superseded, absent, nothing to change);
`Commit` is the transaction, whose first statement may match no row (`Upserted`)
and whose second then repeats the row's revision, so that the outbox's primary
key refuses it (`Collide`); `ReadBack`, `Record` and `Notify` follow, and `Fail`
ends the call before any of them. A tombstone keeps its row, its revision and its
status, as the code does.

**DecisionLedger**: the chain, the dirty flag, and per process the queue and the
place of the job at its head. `Boot` starts a process with a model; `ReadMeta`,
`ReadGenesis`, `ClearStale`, `Verify` are initUnlocked; `ReadHead`, `Insert`,
`Miss`, `Exhaust` are appendUnlocked's compare-and-swap; `OpenBracket`, `Settle`,
`CloseBracket` the denials' bracket. `StoreError` fails any statement, before it took
effect or after, when only its answer is lost. A record's hash is its place on the chain.

**Controller**: the leader's tables and, per node, the older states its replica has
still to leave (`lag`). A pass is `Acquire`, `ReadWatermark`, `Scan`,
`Reconcile`, `WriteStatus`, `WriteWatermark`, with `Deadline`, `Throw`, `Crash`
and `Lapse` between any two. The reconcile is the smallest there is: observe
the spec and set the status. A lapsed lease leaves the pass running with its old
token.

**MailDelivery**: the same environment, with on each node two workers, the pass loop
and the sweep. `Get` reads the replica and plans, `Send` has the relay accept,
refuse, or accept with the answer lost; `ReadFence`, `WriteStatus`, `Record` are
setStatus. What throws inside the code's try block goes to its catch block.

**StateLock**: the lock, the owner record, the container and its processes, named by
their start time. `Look`, `Read`, `Remove`, `WriteOwner`, `Open` are a start;
`Recreate` replaces the container, perhaps by another node's.

**Smtp**: one message. The transport that the environment names, and, for a relay,
the stages of the dialogue with what has been received, what is on its way in
chunks, and whether the channel is encrypted. `Receive` takes a chunk and, when the
reply looks complete, judges it and sends the next command, as the code does
without a pause.

**Renewal**: one membership, its tier, its invoices and notices, two loops under one
lease, editors, a treasurer and a calendar. `Evaluate` is the rule of
`members/renewal.ts`, whole; `Get`, `GetTier`, `GetInvoice`, `BillTerm`,
`Renew`, `RaiseNotice`, `SetStatus` are reconcileMembership. A day is a number
and a period adds its length to it.

**Tenancy**: whose association a process serves. `Start` resolves `ENRAHITU_TENANT`,
`SchemaPresent`, `Guard`, `Ensure`, `Create` are startMembershipRuntime, and `Error`
the failures that leave the process up. `Ask` and `Land` are the operators'
endpoints, which wait for none of that. Between two starts the variable changes and
`Swap` replaces the volume. A tenant's rows are one row, live or a tombstone.

**WatchLoop**: the process around the loops: the node coming up, the schema gate, the
one event pump and its flag, the waker, the tick, and stop(). A pass is the
revision it has scanned to.

**ContainerBoot**: the files of the volume, the environment, and one boot at a time,
step by step from the keypairs to the two processes. `Kill` ends it at any step
and may leave the file being written torn; `Request` is the operator changing
the restore variables.

**Entrypoint**: the shell that is the container's first process, from the preflight to
its end. What the preflight finds wrong with the environment is given; the directory
and the ports are looked at one after the other (`CheckDataDir`, `ProbePort`) and may
change at any time (`Happens`). `FirstBoot` is one step here, and ContainerBoot has
what it does. `StartIdp`, `Healthy`, `NotHealthy`, `ReadKeys`, `StartApp`, `NoteApp` are
the script, `Wait`, `FirstEnds`, `AllEnd` its `wait -n`, kill and `wait`, `Shutdown` and
`Stopped` the trap. The two processes bind, end and are killed on their own; when the
shell ends the kernel kills what still runs, which is remembered in `cut`. Of bash it is
assumed that a trap runs between two commands or interrupts a wait, and that `wait -n`
reports a child that ended earlier, unless a signal ended it: bash 5.2 then says "no
such job" and waits for the other (tried with 5.2.15, `missed`).

**Migrations**: runners with the versions their releases declare. `ReadApplied`,
`ApplyNext`, `Finish` are the runner, on the ledger with its order check or on the
state layer without; `Judge` is the ledger facade's second look after a failure.

**Sessions**: one browser's cookies, the calls its page makes from loaders in one or
two tabs, the application, which stores nothing, and an authority that may rotate
its refresh tokens, take a role or an account away, or refuse for no reason. Every
request has a step where it is judged and one where its answer reaches the cookie
jar, late or never.

**RateLimit**: requests that read the window's number in one step and increment its
counter in the next, the deletions of old counters, which nobody waits for, and the
identity a request is counted under, from its peer or its headers.

**OperatorVerbs**: invocations of the migrate verb, each with the Cookie header it
was given. Per store `AcquireCsrf` fetches a token and `Post` applies; the session
may end or lose its role in between.

**Recovery**: the volume with its two stores, ledger and keys; backup and restore,
hot and cold, as the steps their scripts take, while the cell writes, is killed or
loses its volume; and the boot that finds the restored files. An archive remembers
whether it was begun on a settled cell (`Settled`, history): one on which no restore
is half made, so that no start will drop a WAL that is not the database's own or put
a staged snapshot in a store's place while the verb copies.

**TraceBuffer**: the map of traces, the spans of requests and of their operations,
which end in any order, and the operators on the live stream.

**DevWatch**: the tree of files, the poll and the event that notice an edit, the
debounced rebuild, which waits for the old app to die, and the app's processes.

`AdmissionProofs`, `DecisionLedgerProofs`, `ControllerProofs`, `MailDeliveryProofs`,
`RenewalProofs` and `RecoveryProofs` hold the proofs of their components,
`PartsProofs` and `ProcessesProofs` those of the components that `MCParts` and
`MCProcesses` sum, a section each; each `MC*` module gives its component's constants
for TLC. Two of them are sums. `MCParts` and `MCProcesses` instantiate several components that share no state and let a variable
`part` say, from the first state on, which of them a behaviour is of; the others
stay where they begin. Nothing is composed: a sum is as many checks as it has parts,
made in one graph. A definition commented "Variant" is a
plausible mistake in the definition it precedes; each property is checked to fail
for one of them (`mutants` in `PROJECT.json`).

## 4. Runs

`tlc -config X.cfg M` in this directory; each finishes within about three and a half
minutes on two workers. Every bound is a CONSTANT. A run is named after the module
it is of; `parts` and `processes` are the two sums.

| Run | Checks | Instance |
|---|---|---|
| `admission` | `OneWritePerRevision`: no two writes share a revision, even when a fence rises between read and transaction. `DecisionsNameWrites`: a Decision names a real write, none older than its author's. `IntentAndStatusApart`: crossing spec and status writes keep each other's columns. `ImplementsStore`: refinement of VersionedStore, which is that revisions only grow and fences never fall. | 2 keys, 2 writers, 2 values, 2 fences, 3 revisions |
| `ledger_fleet` | `ChainLinear`, `GenesisFirst`, `ChainedOnce` for processes racing on one store | 2 processes, 2 models, 1 denial, 1 admission, 2 attempts, 1 crash, 1 store error |
| `controller` | `NoChangeSkipped`: what lies at or below the watermark was reconciled. `ImplementsStore`: no pass writes below a fence. `Converges`: the loop comes to rest with every status in place. | 2 nodes, 2 resources, batches of 2, lag 2, 1 fault |
| `renewal` | `PaidForTerms`: a loop extends a term only to a day a payment bought. `InvoiceKept`: without a fault a raised bill keeps its amount and dates. `Converges`: with a sweep the status is in the end the rule's and nothing is left to do. `PaymentRenews`: without one, a payment renews through the change feed. | 3 tiers (one for life) or none, 1 editor, 2 days, 1 write by people, 1 fault |
| `mail` | `DeliveriesAccounted`: at most one copy more than there were faults, and what reads sent was accepted. `Settles`: every notice ends sent or failed, for good. | 2 nodes with 2 workers each, 1 notice, 2 attempts, lag 2, 1 fault |
| `recovery` | `SkewVisible`: a hot archive has every Decision of a row it holds that had been recorded when the row was copied. `NeverSilentlyStale`: the resource member holds every write made before the verb began, or the archive says it may not. Both of archives begun on a settled cell. `RestoreHolds`: a cell started as the restore told comes up with the archive's stores and chain. | 1 write, 2 verbs, 1 fault (an API error, a kill or a lost volume) |
| `processes` | `OnePump`, `ChangesReached`, `StopEnds` of WatchLoop; `RestoredOnce`, `KeysStable`, `Recovers` of ContainerBoot; `DiesTogether` of Entrypoint: a stop, or the end of either process, ends the container, and nothing noted is cut off; `EditsBuilt` of DevWatch; `LossesMarked` and `BracketCloses` of DecisionLedger | 2 controllers, 1 commit, 2 faults; 2 archives, 3 changes of the environment, the marker may tear; 2 tries of rauthy's health, 1 change of a port or of the volume; 2 contents, 2 app processes, 2 edits, 1 that will not die; 1 process, 2 denials, 1 admission, 2 crashes, 1 store error, an empty store |
| `parts` | `AppliedOnce`, `SuccessIsComplete` of Migrations; `NeverTwoOpen`, `KeptOnlyWhenHeld` of StateLock; `WithinOneLifetime` of Sessions; `WindowHolds` of RateLimit; `StoresInTurn` of OperatorVerbs: the ledger is brought forward only over a state layer with nothing pending, whatever fails; `SentMeansTaken` of Smtp; `ListenersTold` of TraceBuffer; `LoopsOwnStore` of Tenancy | 3 runners, 2 releases (one longer, one that fills a gap), 5 runs, 2 failures; 4 starts, 3 pids, 2 namespaces, 2 nodes, 2 file errors; 2 loaders in one or two tabs, 3 ticks, 2 tokens; 3 requests, 2 clients, limits 1 and 2; 2 invocations; every transport; a buffer of 1, 2 requests, 2 operations; 2 tenants, 2 editors, 3 starts, 2 writes, 2 mishaps |
| `mail_sent_terminal`, `restore_honoured`, `session_clock`, `stale_edit` | the findings of section 7: these must fail | the smallest in which they do |

*Why these bounds.* The races in this code are between two actors: a read by one,
a write by the other, and what the first then does; so two of each, and a third
only where a third matters (a third runner, a fourth start to reuse a pid, a third
request to find a window full). One or two faults are what the code handles at a
time: a fault in the recovery from the first one is the second. Two entries of
lag let a replica be behind both a status write and a watermark; two resources
in batches of two let one batch hold a change another pass has overtaken. One
notice: notices share only the lease, and deliveries of different ones do not
interact. Three revisions let a superseded write follow an admit and a status
write. Two attempts exercise "tries again" and "gives up"; the code's six are
more of the first. A buffer of one trace is displaced by the second request, as
one of 256 is by the 257th. Two clock ticks are a cookie's life, one a token's
wait, so that each may end before, with and after the other. Symmetry is used
only in runs without liveness properties. `CHECK_DEADLOCK FALSE` stands where the
bounds let the system stop: every budget spent, every process dead, every loop
stopped, every request answered.

*Properties with an antecedent.* `NeverTwoOpen` holds until a file call fails,
`InvoiceKept` until a fault, `RestoredOnce` exempts what was still requested when
a kill tore the marker, `PaymentRenews` exempts a membership whose payment is
voided or whose tier or terms change, `LossesMarked` what dies in a bracket whose
last close took effect unanswered, `DiesTogether` an end that `wait -n` no longer knows,
an app not noted yet, and a shell that is killed or finds its volume gone,
`SkewVisible` and `NeverSilentlyStale` archives begun while a restore was half made,
`RestoreHolds` a variable that names a file restored before. Section 7 shows that these
are needed, but for that of `PaymentRenews` and for the shell that is killed. `LossesMarked` does not count a denial whose
append fails, which the code only logs (decisions.ts:406-411).

*Type invariants.* `admission` checks its `TypeOK`; those of Admission, DecisionLedger
and Migrations are theorems, and those of the other components with proofs are part
of the invariants of section 6.

*Assumptions on constants.* `ConstantsOK` in most modules: bounds are naturals, a
marker like `None` is no value. `MarkersApart` and `LimitsOK` (`MCParts`),
`TornApart` and `PidsApart` (`MCProcesses`) and `AbsentApart` (`Recovery`) say the
same of what these put together: "no client" is no client, a torn marker file is
none that was written, a process is not the marker for none, a missing file is no
file, and limits, ages and the buffer's cap are naturals (the cap positive, as `traceBufferCap` in obs/config.ts makes it).

## 5. Fairness

* `Controller`, `MailDelivery`, `Renewal`: a pass under way goes on (weak fairness:
  promises resolve), replicas catch up (raft), a lease nobody renews lapses (the
  store expires it after ten seconds). Deadlines, throws and crashes are never
  fair.
* `MailDelivery` and `Renewal` need strong fairness of `Acquire` for one loop: the
  lease may be held each time the loop asks. `lock()` waits inside hiqlite until the
  lease is granted, and each loop asks again at every tick for as long as it runs;
  that a waiter is granted the lease some time is an assumption about hiqlite,
  which is outside the repository. In `Renewal` it is part of the specification for
  the change loop and an antecedent of `Converges` for the sweep (`SweepFair`), so
  that `PaymentRenews` does not lean on the sweep.
* `DecisionLedger`: the event loop runs the queue, and a dead process is started
  again by the container's restart policy.
* `WatchLoop`: timers fire, callbacks run. Stopping, starting, committing and
  applying the schema are not fair.
* `ContainerBoot`: the restart policy starts what is down, and a boot goes on.
* `Entrypoint`: the shell goes on, and a process that was told to end ends (one that
  does not is killed with the container when its grace is over). Binding a port, ending
  unasked and whatever happens to the host are not fair.
* `DevWatch`: the poll's timer and the debounce fire, a build ends, and a process
  that was sent a signal exits or is given up after the code's own time limit.
  Edits are not fair, and neither is `fs.watch`.

`MCProcesses` states the fairness of its five parts action by action, each for the
behaviours of that part. No other run has a liveness property.

## 6. What is proved

`tlapm M.tla` for each of the eight `*Proofs` modules checks every leaf; `PartsProofs`
takes four to five minutes, the others less than one or two. A theorem about a
component of a sum is about that component's own specification, under the names that
the sum gives its constants and variables; `SumIsSafe`, in both modules, carries them
over to the sum, whose behaviours are behaviours of every part (`SumSteps`). Bounds
on writes, faults, requests and the like appear in guards only: the theorems hold
whatever they are.

**Admission**, for any sets of keys, writers, values and fences and any bound on
revisions, from `ConstantsOK` alone (`None` is no value, fences are naturals with
0 among them, the bound is a natural). The invariant `Inv` adds to `TypeOK`,
`OneWritePerRevision`, `OutboxCoversRows` and `DecisionsNameWrites` what they rest
on:

* `OutboxBelowRows`: no outbox entry lies above every row. With `OutboxCoversRows`
  this makes MAX(revision)+1 fresh in the outbox; without it a colliding entry
  could be one from the future.
* `UnwrittenRows`, `RowsCommitted`, `CommitsInOutbox`: a row never written is as it
  began, one written was written by a recorded commit, and every commit is in
  the outbox. So a refused upsert, which repeats the row's revision, always
  collides with the outbox and never commits: the heart of `OneWritePerRevision`.
* `CallsCommitted`, `CallsRead`: what a call past its transaction remembers is a
  commit of its own, and what it read back is no older.

`RevisionsUnique`, `OutboxComplete`, `DecisionsTraceable` follow from `Inv`;
`RevisionsGrow`, `FencesHold`, `IntentKept` are action properties proved from it,
since only `Commit` writes rows (`OnlyCommitsWrite`); and `Implements` shows that
each step is a step of VersionedStore or a stutter, the counter being
MAX(revision) (`TopAdvances`). `OutboxComplete`, `RevisionsGrow` and `FencesHold`
are proved without a run: TLC sees the last two through `ImplementsStore`.

**DecisionLedger**, for any sets of processes, models, denials and admissions and
any bounds. `Sound` assumes that the chain the store starts with is a chain: its
records are records and each stands behind a genesis of its model. `Inv` is
`TypeOK`, that property of the chain now (`Opened`), and for each process what its
memory promises (`Keeps`): past its look at the genesis, a genesis of its model is
on the chain. `TypeCorrect` and `GenesisLeads` follow. `Linearity` needs more:
`Poised`, that an insert in flight names the end of the chain or a parent already
claimed, and `Anchored`, that the store is founded or one model founds it
(section 7 shows that two may fork an empty one). A record is chained by an insert
whether it is answered or not (`Chains`). `ChainsOnce` needs that a job
is in one queue at most, once, and gone from it before its record could be
written again (`QueuedOnce`, `ChainedLeaves`), for a store that starts without
decisions of these jobs (`Blank`).

**Migrations**, for any runners, any releases (sets of positive versions) and any
bounds on runs and failures, on either store, from `ConstantsOK` alone. The
invariant adds to the properties that the record is exactly what took effect, that
what a runner holds for applied is on record (`OnRecord`), and that only the
ledger's runs are looked at twice (`Judged`). `TakesEffectOnce` then rests on the
record's primary key: a version that takes effect was not on record, hence not
among those applied. `SuccessComplete` rests on `OnRecord` for a run that finishes,
on the facade's own look for one that lost a race, and on a record that only
grows.

The theorems of a module's own `TypeOK` (`TypeCorrect`, three times) are listed
without a run of their own, but for Admission's.

**Controller**, for any nodes, rows, batch size, replicas' lag and bounds, from
`ConstantsOK`. That the mark is sound (`Covered`: every watched row at or below it
is reconciled; `Sound`: and it is not past the last revision) is not inductive by
itself: a pass writes a mark it computed from an old batch, read from an old replica.
So the invariant says the same of whatever the passes hold (`PassSound`: the mark
it read, and the one it is to write), that a batch in work has every row up to its
last change (`BatchSound`), and that an older state of a replica (`Behind`) knows all
rows that stand no higher than one it has: the scan of a stale replica is stale but
has no gaps. `NothingSkipped` follows; `WatermarkHolds` is the WHERE of the mark's
upsert; `Implements` maps every step to a write of VersionedStore or to a stutter.

**MailDelivery**, for any nodes, notices, attempts, lag and faults, from
`ConstantsOK`. A bound on copies is not inductive; what is (`Accounts`) counts with the
copies sent those that may still be: the lease's one as long as the row is open
(`Owed`), and one of each worker that has outlived its lease (`Strays`). A step
spends a claim on a copy, hands it on, or makes a new one and is a fault. That the
lease's holder has the highest token and no fence is above it (`HolderFirst`) is why
only the holder's claim and those of strays exist. `Accepted` gives the property's
second half.

**Renewal**, for any tiers, periods, editors, days and bounds, from `ConstantsOK`. A
loop acts on what it read some steps ago, so the invariant says what of that is
still true. What was on record as paid has been bought and stays so, and a renewal
under way is to an end that was (`PaidIsBought`): `TermsArePaid` does not need the
lease, the fences or the absence of faults. `BillsKept` does: until a fault a loop at
work holds the lease, so that the term it is about to bill is still unbilled
(`OneAtWork`), and what it bills is a term because it looks no further than the day it
began on (`Dated`). The rule itself is a lemma (`EvaluateType`): it bills only a term
that is over and unbilled, and renews only to the end of a paid one.

**Recovery**, for any numbers of writes, verbs and faults, from `ConstantsOK` and
`AbsentApart`. Four conjuncts follow a backup: begun on a settled cell it stays on
one, and the store and the chain only grow under it (`Ahead`); a snapshot taken for it
is no older than its beginning (`Taking`); a directory it copied is current
(`Copying`); and so is the archive it leaves (`Archived`). Two follow a restore: what
its steps have passed lies on the volume (`Placed`), and what went through stays
there, and is what the next start is told, until a start serves it (`Owing`).
`SkewShows` rests on the order of the members, the snapshot before the ledger;
`StalenessSaid` on the note of what is not known to be new; `RestoreComesUp` on
`Owing` at the one step that brings a cell up (`ComesUpByStart`). The attempt showed
that both properties of backups fail without `settled`, which the run's two verbs do
not reach (section 7).

**The parts of MCParts**, from its `ConstantsOK`, `MarkersApart` and `LimitsOK`:

* *StateLock* (`NeverTwo`, `NeverShut`), for any starts, pids, namespaces and nodes,
  with `Overlap = FALSE`, as in the run: section 7 says what becomes of starts that
  overlap. `LockRecorded` and `LockHeld`: who is on record wrote it before it opened
  and was not refused, and before any file call has failed the running process holds
  the lock and is the one on record; so a start that finds nobody of the record alive
  removes nobody's lock. `NeverShut` does not need that no call has failed.
* *Tenancy* (`OwnStoreOnly`), from no assumption: the rows of a store are its
  tenants', and a write of the endpoints is of the tenant resolved at the start.
* *Smtp* (`SentIsTaken`), for every transport and every cut of the replies. What
  has been received and what is still on the wire are one sequence: while a command
  is out it is empty or the end of a reply taken early (`Spent`), and behind such an
  end no acceptance can be taken for the message's (`NoAcceptance`).
  `MailChannel`: past the greeting the channel is encrypted or the operator allowed it.
* *RateLimit* (`NoMoreThanTheLimit`), for any requests, clients and windows: the
  present window's counter is never behind those it let through (`RateCounts`),
  because the deletions under way are all of older windows (`OldOnly`), and a
  request's key is its client whatever its headers say (`KeyIsTheClients`).
* *OperatorVerbs* (`VerbInTurn`), for any invocations and cookies: what is applied stays
  so (`Forward`), so an invocation that asks for the second store has nothing pending in
  the first, whoever applied it, and one that is done in neither (`VerbTurns`).
* *TraceBuffer* (`OperatorsAreTold`), for every size of the buffer: an entry that
  was not displaced has the flag that its spans have earned (`FlagsTell`), one without
  an entry had no error (`UnknownAreFine`), and an open stream is subscribed.
* *Sessions* (`RoleEndsInTime`), for any users, loaders, tabs, ages and
  lifetimes: an access token, wherever it is (in the jar or in an answer on its way),
  expires within a lifetime of the present and of the end of what it asserts
  (`Fresh`), so the order in which answers arrive does not matter.
* *Migrations* (`TakesEffectOnce`, `SuccessComplete`): above.

**The processes of MCProcesses**, with `TornApart` and `PidsApart`:

* *WatchLoop* (`OnePumpOnly`): the flag is up exactly while one pump listens or backs
  off (`PumpInv`).
* *ContainerBoot* (`RestoresOnce`, `KeysKept`), for any backups and any number of
  kills: what is set and not asked for anew is on record (`Owed`), what a node is
  offered is asked for (`DecidedOnAsked`) and recorded first (`RecordedFirst`), and is
  that node's own (`OfferedDecisions`). The keys: once served with, no boot finds one
  missing, so no write can tear one (`ServedWith`).
* *DevWatch* (`OneAppAtOnce`), for any processes, edits and late exits: an app that
  runs and was not given up on is the child of a loop at rest or the one a rebuild
  waits for (`DevInv`), so the one that a build starts is alone, until a signal
  comes. It states `OneApp`, which no run has as a property: TLC checked it on
  `DevWatch` alone, with three processes and two that no signal ends.
* *DecisionLedger* (`LossesMarkedAlone`), where one process writes to the store, for
  any chain, queue, crashes and store errors, with answers lost or not: an unmarked
  loss keeps the flag up and the process before its marker (`Marks`), which holds
  because an open bracket has the flag up, unless its close took effect unanswered
  (`unanswered`). The theorem says so in its
  hypothesis, `Procs = {q}`, which is also the run's instance: two processes share one
  flag, and one of them lowers it over the other's open bracket (`LossFlagged`,
  section 7).

**Only model-checked**: liveness everywhere (`Converges`, `Settles`,
`BracketCloses`, `ChangesReached`, `StopEnds`, `PaymentRenews`, `Recovers`,
`DiesTogether`, `EditsBuilt`), which is out of the prover's reach, as are ENABLED and induction over
data. No module uses RECURSIVE operators.

## 7. Where the code and its words differ

Four differences are runs that must fail.

* `mail_sent_terminal` (`SentIsTerminal`): the try block of `mail/controller.ts`
  covers the status write as well as the send. `setStatus` (line 74) commits
  `sent` and then appends a Decision and notifies; when one of those throws, the
  catch block writes a failed attempt over it, and the notice is sent again.
  `mail/schedule.ts:66` says "`sent` is terminal and so is `failed`".
* `restore_honoured` (`RestoreHonoured`): the restore verb stages every archive under
  the same file name (restore.mjs:220), and first-boot ignores a value its
  marker already holds (first-boot.mjs:266). A second restore on one volume
  replaces the ledger and the keys and leaves both stores as they were.
  restore.mjs:224-227: first-boot "applies it exactly once and records that it did".
* `session_clock` (`RenewedInStep`): the access token follows the authority's
  lifetime of 30 minutes, the cookie that holds it ends after 15 (cookies.ts:66). The
  refresh token cannot be used before the access token is nearly over: a page that
  loads in between is refused the renewal and its session is cleared.
  jwt.ts:46-47 says that following the authority's clock "is what keeps the two in
  step".
* `stale_edit` (`EditorsTold`): an edit writes the fence it was sent, which is the
  stored one, so only a controller moves it. Two editors of one page both write
  and the first is overwritten. store.ts:78-80: "a stale editor is told to re-read".

The others are properties that the modules define and no run checks. Each can be
seen by putting the property alone into a cfg: that of the run that is named, or
one for the component's own module with the values that `MCParts.cfg` or
`MCProcesses.cfg` gives its constants.

| Property | Where | What the code does | What is said |
|---|---|---|---|
| `ReadsBackItsOwnWrite` | `admission`; smaller: one key, 2 revisions | the read-back (admission.ts:198) returns whichever write is newest | admission.ts:121 "at the revision the write produced" |
| `EveryWriteDecided` | the same | the Decision comes after the commit and names the revision read back: a crash or a race leaves a write without one | README.md:45 "every admitted mutation lands on a hash-chained Decision ledger" |
| `LosersAreSuperseded` | the same | a fence that rises before the transaction surfaces as the outbox's UNIQUE error | admission.ts:72 "thrown when a lease-guarded write loses" |
| `ChainLinear` | `ledger_fleet`, with an empty chain for `Founded` | two models booting on an empty store claim different parents and both found it | decisions.ts:47-48 "linear by construction" |
| `LossFlagged` | `ledger_fleet` | the flag is one row for all processes: one lowers it under the other's open bracket | decisions.ts:14-15 "bracketed by a durable dirty flag" |
| `DurableBeforeRecord` | `MCDecisionLedger`, one process, one model, a founded chain, 2 denials, no admission, 1 store error | a close that takes effect and throws leaves the bracket up in memory over a lowered flag: the denials after it are appended without one, and a crash loses them unmarked | decisions.ts:393-394 "durable before the record transaction, so a crash mid-append is marked at the next boot" |
| `RaisedAgainIsNoChange` | `mail` | admit checks the fence before its no-op rule, and a status write has raised it: raising again throws | notice.ts:35-38 "twice raises one resource" |
| `NeverTwoOpen` | `StateLock`, `Overlap = TRUE` | a start that saw no lock records itself before it opens; refused, it stands recorded over a lock another holds | lock.ts:42 "provably stale. Clear it." |
| `NeverTwoOpen` without its antecedent | `StateLock` | a failed owner write is ignored and the store opened: the next start finds no record, or a dead one | lock.ts:47-48 "no live process ever recorded ownership" |
| `RemindersRaised` | `renewal` | the reminder is planned only while there is no invoice, and the invoice is written first: a pass that dies between never reminds | renewal.ts:67-68 "correct after a crash" |
| `InvoiceKept` without its antecedent | `renewal` | the bill is written at fence 0 from old reads: a pass that outlived its lease rewrites it | members/controller.ts:89-91 "there is no zombie to fence out" |
| `RenewalKeepsEdits` | `renewal`, `MaxEdits = 2` | the renewed spec is the one read at the start, written at a fence an editor's write does not move | kinds.ts:9-11 "without a read-modify-write" |
| `SkewVisible` without `archive.settled` | `recovery`, `MaxVerbs = 3` | a restore that placed a ledger beside another's WAL leaves the two to a start that may drop the WAL, with Decisions that a hot backup has seen | backup.mjs:40-42 "captured first and the chain last" |
| `NeverSilentlyStale` without `archive.settled` | the same | a cold backup runs beside a start that puts a staged, older snapshot in the resource store's place: the copy lacks writes from before the verb, and nothing is noted | backup.mjs:137 "never omitted and never silently stale" |
| `RecordedWhenHonoured` | `ContainerBoot`, `Tearable = {}` | the marker is written when the restore is decided, before any node makes it: a kill in between loses it (without kills it holds) | OPERATIONS.md:485-486 "recorded ... the first time it is honoured" |
| `RestoredOnce` without its exception | `ContainerBoot` | a torn marker counts as none: what is still set is restored again | OPERATIONS.md:119 "Safe to leave set forever" |
| `Recovers` | `processes`, `Tearable = {"secrets"}` | a torn secrets.env is taken for whole and every start stops at it | entrypoint.sh:3-4 "the restart policy recovers it" |
| `EitherEnds` | `Entrypoint` | a process that a signal ends (no memory, a fault) after the health loop and before `wait -n` is dropped from bash's jobs: the shell waits for the other alone, and the container serves without it | entrypoint.sh:3-4 "if either process exits, the container exits" |
| `StopReachesAll` | `Entrypoint` | a stop between the app's fork and `APP_PID=$!` (326-327) signals rauthy alone, and the app is killed with the shell | entrypoint.sh:206 "Container stop has to reach the supervised processes" |
| `HealthFirst` | `Entrypoint` | after the sixtieth try the app is started whether rauthy answers or not | specs/007 (102) "waits for rauthy health on loopback before starting the app" |
| `OnlyRealFailures` | `parts` | the loser looks once, while the winner has later versions to apply, and throws | ledger.ts:150 "If any version is still missing, this was a real failure" |
| `ForwardOnly` | `parts` | the order is judged against versions read before the run: a release that fills another's gap applies it late | migrations.ts:12-13 "no backfilling history" |
| `OneDataset` | `Tenancy` | the endpoints write as soon as the schema is there, before the guard has answered or after it refused | boot.ts:90 "before anything is written" |
| `ChosenNameKept` | `Tenancy` | a name given between the boot's read and its write is overwritten with the slug | boot.ts:58 "create-if-absent, and nothing else" |

What the modelling of the request side and of the verbs brought up, and no property
states:

* *Sessions.* A late 401 in a second tab or a parallel loader presents a token the
  authority does not honour yet, and the denial clears the cookies the first one
  has just been given (api.ts:59-75). An answer to a refresh that was under way at a
  logout sets the cookies again (logout.ts:6-7). `logout()` does not look at its
  answer, and two tabs overwrite each other's CSRF cookie (api.ts:98-105).
* *RateLimit.* rate-limit.ts:14 says that a lost deletion "leaks at most one stale
  counter"; a request that is late in its window adds a counter after its deletion.
* *OperatorVerbs.* admin-plane.mjs:80 says the token and its cookie "cannot
  disagree", but a CSRF cookie in the given header is kept and sent along. A verb
  that fails may have migrated one of the two stores.
* *Entrypoint.* A key that cannot be read ends the shell under `set -e` without a word to
  rauthy, which is killed with it (264-273). preflight.mjs:156 passes `HTTPS://` and
  `https:host` as secure, and the script, which compares the text before `://` with
  `https` (152, 166), starts rauthy with insecure cookies. The preflight judges the
  application's raft and API ports by variables that the script overwrites (278-279).
* *Smtp.* A reply is taken as soon as its code's last line begins; what follows in
  a later chunk stays in the buffer and is read as part of the next reply, so an
  accepted mail may be reported as refused, and sent again.
* *TraceBuffer.* A trace that is displaced while its request runs loses its error
  flag, and a later span brings it back without a root. A raw handler's 5xx answer
  does not set the flag.
* *Recovery.* Archives of a fallback snapshot are sealed under keys that no longer
  travel with them (OPERATIONS.md:436); a kill in between leaves a `-wal` beside the
  restored database; a cold backup asks only at the application's port whether the
  cell is down (backup.mjs:11); the identity provider's member may be the previous
  snapshot under today's date (backup.mjs:221-226); an interrupted restore leaves
  files of two moments (restore.mjs:11-13).
* *DevWatch.* An edit made during the first build, after the compiler has read the
  file, is never built (dev-watch.mjs:313-315, 347-348). A SIGTERM during a rebuild
  ends the script before the app is gone (369-370). `OneApp` says when there is
  one app.
* *Members.* The comment at jwt-verify.ts:22-25 says the email is matched "when no
  `sub` binding exists yet"; identity.ts:65 matches a verified email whatever the
  record's `sub` is. The list of members shows a member's last membership and the
  detail the first (api.ts:315-319, 366). Mail's loops start without the tenant
  guard (mail/boot.ts).

## 8. What is left out

* *Data*: specs and statuses are values, a hash is a place on the chain, a backoff a
  flag, a date a number, a token its place in the order of issue. Validation of
  kinds, rendering, templates and placeholders, SQL text, redaction and logging
  are not modelled. `get`, `list`, the member's own pages and verification on demand
  read and change nothing.
* *The calendar* (`members/dates.ts`): a period adds a length. The clamping of the
  31st is a pure function that unit tests cover.
* *Of the entrypoint*: what each check of the environment compares, the data
  directory's kinds beyond absent, unusable and writable, the several ports of one
  process, and what each process gets in its environment (the restore variables are in
  ContainerBoot).
* *Signatures on the chain*, with the key coming and going, and `hashes` as such.
* *Kernel adjudication*: the answer of a native kernel; only that it is recorded is
  modelled, in the ledger.
* *Login, the rest of the authentication*: Sessions begins with a session that the
  callback made. The exchange of the code and the check of a token's signature are
  the authority's protocol and a library's.
* *Identity provider proxy, health, metrics, static files, front ends*: stateless
  forwarding and views. Of the front end, Sessions has the part that renews.
* *The other scripts* (stamping a copy, generating types, linting): they run once
  over files and nothing runs beside them.
* *Compositions*: each component stands on what the one below promises (a pass or an
  admit is one step in Renewal, MailDelivery, Tenancy and WatchLoop), except
  Controller, which is shown to refine VersionedStore.
* *hiqlite* itself is the environment: an atomic transaction at the leader, replicas
  that apply in order and late, leases that expire, events that may be lost.
