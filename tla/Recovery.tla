------------------------------ MODULE Recovery ------------------------------
(***************************************************************************)
(* The operational verbs that copy a cell's volume and put a copy back:    *)
(* scripts/ops/backup.mjs and restore.mjs over archive.mjs, the admin      *)
(* plane's endpoint they reach the app through (admin/state-backup.ts over *)
(* state/backup.ts), and what the next boot makes of a restored volume.    *)
(*                                                                         *)
(* A store is the set of writes it holds.  A write to the app's resource   *)
(* store is followed by a Decision in CoreLedger, named like the write.    *)
(* One verb runs at a time, on the cell's own ledger file.  Checksums are  *)
(* the flag "intact", a key set is a number, and the wording of notes is   *)
(* the set of the members they are about.                                  *)
(***************************************************************************)
EXTENDS Naturals, FiniteSets

CONSTANTS
    Absent,
    MaxWrites,  \* bound on writes to the stores
    MaxVerbs,   \* bound on the verbs run
    MaxFaults   \* bound on kills and lost volumes

Stores == {"state", "rauthy"}

Written == SUBSET (1..MaxWrites)

ASSUME ConstantsOK ==
    /\ {MaxWrites, MaxVerbs, MaxFaults} \subseteq Nat
    /\ \A held \in Written : Absent # held

(* No file is its absence. *)
ASSUME AbsentApart ==
    Absent \notin [holds : Written, key : Nat]
        \cup [holds : Written, key : Nat, shot : [holds : Written, key : Nat] \cup {Absent}]

VARIABLES
    cell,     \* "down", "identity": rauthy serves, "up": the app does as well
    vol,      \* the volume
    env,      \* the stores whose ENRAHITU_RESTORE variable is set
    offer,    \* the stores this boot's restore.env names
    recent,   \* the app's node took a snapshot less than sixty seconds ago
    posted,   \* rauthy has answered a request for a snapshot it will write
    verb,     \* the verb that runs and the archive it builds
    archive,  \* the archive the operator keeps
    owed,     \* history: what a restore that went through put on the volume
    writes, keys, verbs, faults

vars == <<cell, vol, env, offer, recent, posted, verb, archive, owed,
          writes, keys, verbs, faults>>

counters == <<writes, keys, verbs, faults>>

(* Every file of the volume, or its absence.  "stray" says that the WAL lies
   beside a database it does not belong to. *)
FreshVolume ==
    [store |-> [s \in Stores |-> {}], db |-> {}, wal |-> Absent, stray |-> FALSE,
     key |-> 0, shot |-> [s \in Stores |-> Absent],
     staged |-> [s \in Stores |-> Absent], marked |-> {}]

Idle == [step |-> "idle"]

Chain == vol.db \cup (IF vol.wal = Absent THEN {} ELSE vol.wal)

Init ==
    /\ cell = "down" /\ vol = FreshVolume
    /\ env = {} /\ offer = {}
    /\ recent = FALSE /\ posted = FALSE
    /\ verb = Idle /\ archive = Absent /\ owed = Absent
    /\ writes = 0 /\ keys = 0 /\ verbs = 0 /\ faults = 0

-----------------------------------------------------------------------------
(* The cell. *)

Runs(s) == IF s = "state" THEN cell = "up" ELSE cell # "down"

Write(s) ==
    /\ cell = "up" /\ writes < MaxWrites
    /\ writes' = writes + 1
    /\ vol' = [vol EXCEPT !.store[s] = @ \cup {writes + 1}]
    /\ UNCHANGED <<cell, env, offer, recent, posted, verb, archive, owed, keys,
                   verbs, faults>>

(* The Decision of a write that is already in the store. *)
Decide(w) ==
    /\ cell = "up" /\ w \in vol.store["state"] \ Chain
    /\ vol' = [vol EXCEPT !.wal = (IF @ = Absent THEN {} ELSE @) \cup {w}]
    /\ UNCHANGED <<cell, env, offer, recent, posted, verb, archive, owed, counters>>

Checkpointed(wal) == [vol EXCEPT !.db = Chain, !.wal = wal]

Checkpoint ==
    /\ cell = "up" /\ vol.wal \notin {Absent, {}}
    /\ vol' = Checkpointed({})
    /\ UNCHANGED <<cell, env, offer, recent, posted, verb, archive, owed, counters>>

Sealed(s) == [holds |-> vol.store[s], key |-> vol.key]

WithShot(s) == [vol EXCEPT !.shot[s] = Sealed(s)]

(* A hiqlite node's own scheduled snapshot. *)
Cron(s) ==
    /\ Runs(s) /\ (s = "state" => ~recent)
    /\ vol' = WithShot(s)
    /\ recent' = (recent \/ s = "state")
    /\ verb' = IF s = "state" /\ verb.step \in {"take", "name"}
               THEN [verb EXCEPT !.new = TRUE] ELSE verb
    /\ UNCHANGED <<cell, env, offer, posted, archive, owed, counters>>

Minute ==
    /\ recent
    /\ recent' = FALSE
    /\ UNCHANGED <<cell, vol, env, offer, posted, verb, archive, owed, counters>>

RauthyWrites ==
    /\ posted /\ cell # "down"
    /\ posted' = FALSE
    /\ vol' = WithShot("rauthy")
    /\ UNCHANGED <<cell, env, offer, recent, verb, archive, owed, counters>>

Halted ==
    /\ cell' = "down" /\ offer' = {} /\ owed' = Absent
    /\ recent' = FALSE /\ posted' = FALSE

Stop ==
    /\ cell = "up"
    /\ Halted
    /\ vol' = Checkpointed(Absent)
    /\ UNCHANGED <<env, verb, archive, counters>>

Kill ==
    /\ cell # "down" /\ faults < MaxFaults
    /\ Halted
    /\ faults' = faults + 1
    /\ UNCHANGED <<vol, env, verb, archive, writes, keys, verbs>>

(* The machine is lost, and the container is started on a new volume with the
   environment it had. *)
Lose ==
    /\ cell = "down" /\ verb = Idle /\ faults < MaxFaults
    /\ faults' = faults + 1
    /\ vol' = FreshVolume /\ owed' = Absent
    /\ UNCHANGED <<cell, env, offer, recent, posted, verb, archive, writes, keys, verbs>>

(* The operator sets what a restore told him to, or unsets what is set. *)
SetEnv(stores) ==
    /\ cell = "down" /\ verb = Idle /\ stores # env
    /\ stores = {} \/ (owed # Absent /\ stores = owed.told)
    /\ env' = stores
    /\ UNCHANGED <<cell, vol, offer, recent, posted, verb, archive, owed, counters>>

-----------------------------------------------------------------------------
(* docker/first-boot.mjs and the two nodes it starts. *)

(* A node offered a file that is not there, or that its key does not open,
   exits. *)
Opens(s, key) == vol.staged[s] # Absent /\ vol.staged[s].key = key

Restored(v, s) == [v EXCEPT !.store[s] = v.staged[s].holds]

(* The value of a variable is the path it names, which restore.mjs makes the
   same for every archive. *)
Boot ==
    /\ cell = "down"
    /\ LET fresh == vol.key = 0
           v == [vol EXCEPT !.key = IF fresh THEN keys + 1 ELSE @, !.marked = @ \cup env]
           wanted == env \ vol.marked
           starts == "rauthy" \in wanted => Opens("rauthy", v.key)
       IN /\ keys' = IF fresh THEN keys + 1 ELSE keys
          /\ vol' = IF "rauthy" \in wanted /\ starts THEN Restored(v, "rauthy") ELSE v
          /\ cell' = IF starts THEN "identity" ELSE "down"
          /\ offer' = IF starts THEN wanted ELSE {}
          /\ owed' = IF starts /\ owed # Absent /\ owed.told = env THEN owed ELSE Absent
    /\ verb' = IF "quiet" \in DOMAIN verb THEN [verb EXCEPT !.quiet = FALSE] ELSE verb
    /\ UNCHANGED <<env, recent, posted, archive, writes, verbs, faults>>

(* A stray WAL is replayed into the database, or dropped. *)
Opened(v) ==
    IF ~v.stray THEN {v}
    ELSE {[v EXCEPT !.db = d, !.wal = {}, !.stray = FALSE] : d \in {v.db, Chain}}

StartApp ==
    /\ cell = "identity"
    /\ IF "state" \notin offer THEN vol' \in Opened(vol) /\ cell' = "up"
       ELSE IF Opens("state", vol.key)
       THEN vol' \in Opened(Restored(vol, "state")) /\ cell' = "up"
       ELSE cell' = "down" /\ UNCHANGED vol
    /\ offer' = {} /\ owed' = Absent
    /\ UNCHANGED <<env, recent, posted, verb, archive, counters>>

-----------------------------------------------------------------------------
(* backup.mjs.  A verb stops at any step, and the archive it was building goes
   with it. *)

(* Variant: the chain is captured first. *)
ChainFirst == [state |-> "rauthy", rauthy |-> "keys", ledger |-> "state",
               first |-> "ledger"]

HotOrder == [state |-> "rauthy", rauthy |-> "ledger", ledger |-> "keys",
             first |-> "state"]

(* History: no restore is half made, so that the next start replays no stray
   WAL and puts no snapshot in a store's place. *)
Settled == ~vol.stray /\ env \subseteq vol.marked /\ offer = {}

NewArchive(mode) ==
    [mode |-> mode, member |-> [s \in Stores |-> Absent], ledger |-> Absent,
     key |-> 0, notes |-> {}, intact |-> TRUE, torn |-> {},
     since |-> vol.store["state"], decided |-> {}, settled |-> Settled]

BackupUnmoved == UNCHANGED <<cell, env, offer, archive, owed, counters>>

Goto(step, got) == verb' = [verb EXCEPT !.step = step, !.got = got]

(* cellIsRunning asks the app's port alone. *)
Answers == cell = "up"

(* With an operator's session and with rauthy's API key, or without. *)
StartHot(session, apiKey) ==
    /\ verb = Idle /\ verbs < MaxVerbs /\ Answers
    /\ verbs' = verbs + 1
    /\ verb' = [step |-> HotOrder.first, got |-> NewArchive("hot"), new |-> FALSE,
                session |-> session, apiKey |-> apiKey]
    /\ UNCHANGED <<cell, vol, env, offer, recent, posted, archive, owed, writes,
                   keys, faults>>

Took(s, noted) ==
    [verb.got EXCEPT !.member[s] = vol.shot[s],
                     !.notes = IF noted THEN @ \cup {s} ELSE @,
                     !.decided = IF s = "state" THEN Chain ELSE @]

(* No session, or no key: the newest snapshot there is, and its age is said. *)
Fallback(s) ==
    /\ verb.step = s
    /\ IF s = "state" THEN ~verb.session ELSE ~verb.apiKey
    /\ Goto(HotOrder[s], Took(s, TRUE))
    /\ UNCHANGED <<vol, recent, posted>> /\ BackupUnmoved

(* createStateBackup: the newest file is noted, a snapshot is asked for, and
   the newest file is named. *)
ListBefore ==
    /\ verb.step = "state" /\ verb.session /\ cell = "up"
    /\ verb' = [verb EXCEPT !.step = "take", !.new = FALSE]
    /\ UNCHANGED <<vol, recent, posted>> /\ BackupUnmoved

(* The node answers a second request within sixty seconds without a word. *)
TakeShot ==
    /\ verb.step = "take" /\ cell = "up"
    /\ IF recent THEN UNCHANGED vol ELSE vol' = WithShot("state")
    /\ recent' = TRUE
    /\ verb' = [verb EXCEPT !.step = "name", !.new = verb.new \/ ~recent]
    /\ UNCHANGED posted /\ BackupUnmoved

(* Variant: whatever is named is taken for new. *)
AlwaysNew == TRUE

Fresh == verb.new

NameShot ==
    /\ verb.step = "name" /\ vol.shot["state"] # Absent
    /\ Goto(HotOrder["state"], Took("state", ~Fresh))
    /\ UNCHANGED <<vol, recent, posted>> /\ BackupUnmoved

PostRauthy ==
    /\ verb.step = "rauthy" /\ verb.apiKey /\ cell = "up"
    /\ posted' = TRUE
    /\ verb' = [verb EXCEPT !.step = "newest"]
    /\ UNCHANGED <<vol, recent>> /\ BackupUnmoved

(* The newest file after the answer, written or not yet. *)
NewestRauthy ==
    /\ verb.step = "newest" /\ vol.shot["rauthy"] # Absent
    /\ Goto(HotOrder["rauthy"], Took("rauthy", FALSE))
    /\ UNCHANGED <<vol, recent, posted>> /\ BackupUnmoved

(* VACUUM INTO. *)
Vacuum ==
    /\ verb.step = "ledger"
    /\ Goto(HotOrder["ledger"], [verb.got EXCEPT !.ledger = [db |-> Chain, wal |-> Absent]])
    /\ UNCHANGED <<vol, recent, posted>> /\ BackupUnmoved

StartCold ==
    /\ verb = Idle /\ verbs < MaxVerbs /\ ~Answers
    /\ verbs' = verbs + 1
    /\ verb' = [step |-> "db", got |-> NewArchive("cold")]
    /\ UNCHANGED <<cell, vol, env, offer, recent, posted, archive, owed, writes,
                   keys, faults>>

(* What first-boot has not made is not there. *)
Made == vol.key # 0

(* The database, and then the WAL beside it. *)
CopyDb ==
    /\ verb.step = "db"
    /\ IF Made
       THEN Goto("wal", [verb.got EXCEPT !.ledger = [db |-> vol.db, wal |-> Absent]])
       ELSE Goto("state_directory", [verb.got EXCEPT !.notes = @ \cup {"ledger"}])
    /\ UNCHANGED <<vol, recent, posted>> /\ BackupUnmoved

CopyWal ==
    /\ verb.step = "wal"
    /\ Goto("state_directory", [verb.got EXCEPT !.ledger.wal = vol.wal])
    /\ UNCHANGED <<vol, recent, posted>> /\ BackupUnmoved

Copied(s) == [holds |-> vol.store[s], key |-> vol.key, shot |-> vol.shot[s]]

Directory == [state |-> "state_directory", rauthy |-> "rauthy_directory"]

ColdOrder == [state |-> "rauthy_directory", rauthy |-> "keys"]

CopyDirectory(s) ==
    /\ verb.step = Directory[s]
    /\ Goto(ColdOrder[s], IF Made
            THEN [verb.got EXCEPT !.member[s] = Copied(s),
                                  !.torn = IF Runs(s) THEN @ \cup {s} ELSE @]
            ELSE [verb.got EXCEPT !.notes = @ \cup {s}])
    /\ UNCHANGED <<vol, recent, posted>> /\ BackupUnmoved

(* The keys, the manifest, and the archive that holds them. *)
CopyKeysAndWrite ==
    /\ verb.step = "keys"
    /\ archive' = [verb.got EXCEPT !.key = vol.key,
                      !.notes = IF Made THEN @ ELSE @ \cup {"keys"}]
    /\ verb' = Idle
    /\ UNCHANGED <<cell, vol, env, offer, recent, posted, owed, counters>>

Abandon ==
    /\ verb # Idle
    /\ verb' = Idle
    /\ UNCHANGED <<vol, recent, posted>> /\ BackupUnmoved

-----------------------------------------------------------------------------
(* restore.mjs. *)

(* The archive may have been altered, cut short or added to. *)
StartRestore(intact) ==
    /\ verb = Idle /\ verbs < MaxVerbs /\ archive # Absent /\ ~Answers
    /\ verbs' = verbs + 1
    /\ verb' = [step |-> "verify", got |-> [archive EXCEPT !.intact = intact],
                quiet |-> cell = "down"]
    /\ UNCHANGED <<cell, vol, env, offer, recent, posted, archive, owed, writes,
                   keys, faults>>

RestoreUnmoved == UNCHANGED <<cell, env, offer, recent, posted, archive, counters>>

Place(step, volume) ==
    /\ vol' = volume
    /\ verb' = [verb EXCEPT !.step = step]
    /\ owed' = Absent
    /\ RestoreUnmoved

(* Every file against the manifest, and the manifest against the files. *)
Verify ==
    /\ verb.step = "verify"
    /\ verb' = IF verb.got.intact THEN [verb EXCEPT !.step = "place_ledger"] ELSE Idle
    /\ UNCHANGED <<vol, owed>> /\ RestoreUnmoved

(* Variant: the database file alone is laid over the volume's. *)
LaidFileAlone(ledger) ==
    [vol EXCEPT !.db = ledger.db, !.stray = vol.wal # Absent]

(* The files of the member are laid over those of the volume, and a WAL the
   member does not have stays where it is. *)
Laid(ledger) ==
    [vol EXCEPT !.db = ledger.db,
                !.wal = IF ledger.wal = Absent THEN @ ELSE ledger.wal,
                !.stray = ledger.wal = Absent /\ vol.wal # Absent]

PlaceLedger ==
    /\ verb.step = "place_ledger"
    /\ Place("place_state", IF verb.got.ledger = Absent THEN vol ELSE Laid(verb.got.ledger))

(* A directory takes the place of the store's, its lock and owner record left
   out; a snapshot is staged for the next boot. *)
Replaced(s) ==
    [vol EXCEPT !.store[s] = verb.got.member[s].holds,
                !.shot[s] = verb.got.member[s].shot]

Staged(s) == [vol EXCEPT !.staged[s] = verb.got.member[s]]

Placing == [state |-> "place_state", rauthy |-> "place_rauthy"]

Following == [state |-> "place_rauthy", rauthy |-> "place_keys"]

PlaceStore(s) ==
    /\ verb.step = Placing[s]
    /\ Place(Following[s], IF verb.got.member[s] = Absent THEN vol
                           ELSE IF verb.got.mode = "cold" THEN Replaced(s) ELSE Staged(s))

(* What the operator is told to set for the next start. *)
Told(a) == IF a.mode = "cold" THEN {} ELSE {s \in Stores : a.member[s] # Absent}

PlaceKeys ==
    /\ verb.step = "place_keys"
    /\ LET a == verb.got IN
       /\ vol' = IF a.key = 0 THEN vol ELSE [vol EXCEPT !.key = a.key]
       /\ owed' = IF verb.quiet
                  THEN [archive |-> a, told |-> Told(a), again |-> Told(a) \cap vol.marked # {},
                        stray |-> vol.stray]
                  ELSE Absent
    /\ verb' = Idle
    /\ RestoreUnmoved

-----------------------------------------------------------------------------
Serve ==
    \/ \E s \in Stores : Write(s) \/ Cron(s)
    \/ \E w \in 1..MaxWrites : Decide(w)
    \/ Checkpoint \/ Minute \/ RauthyWrites

Container ==
    \/ Boot \/ StartApp \/ Stop \/ Kill \/ Lose
    \/ \E stores \in SUBSET Stores : SetEnv(stores)

Backup ==
    \/ \E session, apiKey \in BOOLEAN : StartHot(session, apiKey)
    \/ \E s \in Stores : Fallback(s) \/ CopyDirectory(s)
    \/ ListBefore \/ TakeShot \/ NameShot \/ PostRauthy \/ NewestRauthy \/ Vacuum
    \/ StartCold \/ CopyDb \/ CopyWal
    \/ CopyKeysAndWrite \/ Abandon

Restore ==
    \/ \E intact \in BOOLEAN : StartRestore(intact)
    \/ Verify \/ PlaceLedger \/ PlaceKeys
    \/ \E s \in Stores : PlaceStore(s)

Next == Serve \/ Container \/ Backup \/ Restore

Spec == Init /\ [][Next]_vars

-----------------------------------------------------------------------------
Kept(ledger) == ledger.db \cup (IF ledger.wal = Absent THEN {} ELSE ledger.wal)

(* A hot archive is skewed in the direction that shows: a row of its resource
   member is never without a Decision that had been recorded when the member
   was taken ("captured first and the chain last", backup.mjs:40-42). *)
SkewVisible ==
    archive # Absent /\ archive.settled /\ archive.mode = "hot"
        /\ archive.member["state"] # Absent =>
        archive.member["state"].holds \cap archive.decided \subseteq Kept(archive.ledger)

(* The resource member holds every write made before the verb began, or the
   archive says that it may not: "never omitted and never silently stale"
   (backup.mjs:137). *)
NeverSilentlyStale ==
    archive # Absent /\ archive.settled /\ "state" \notin archive.notes =>
        /\ archive.member["state"] # Absent
        /\ archive.since \subseteq archive.member["state"].holds

Holds(v, a) ==
    /\ \A s \in Stores : a.member[s] # Absent => v.store[s] = a.member[s].holds
    /\ a.ledger # Absent => v.db \cup (IF v.wal = Absent THEN {} ELSE v.wal) = Kept(a.ledger)

ComesUp == cell = "identity" /\ cell' = "up" /\ owed # Absent

(* A cell that is started as a restore that went through told the operator to
   start it comes up with the stores and the chain of the archive, whatever it
   held, unless a variable names a file that was restored before or a kill left
   a WAL beside the ledger. *)
RestoreHolds ==
    [][ComesUp /\ ~owed.again /\ ~owed.stray /\ owed.archive.torn = {}
          => Holds(vol', owed.archive)]_vars

(* The same of every restore: "set the variable on the next start; first-boot
   applies it exactly once and records that it did" (restore.mjs:224-227). *)
RestoreHonoured ==
    [][ComesUp /\ ~owed.stray /\ owed.archive.torn = {} => Holds(vol', owed.archive)]_vars
=============================================================================
