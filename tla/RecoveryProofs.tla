--------------------------- MODULE RecoveryProofs ---------------------------
(***************************************************************************)
(* That a hot archive is never skewed against its reader, that a member    *)
(* which may be stale says so, and that a restore which went through is    *)
(* what comes up (Recovery), for any number of writes, verbs and faults.   *)
(*                                                                         *)
(* The invariant follows what a verb has in hand against the volume it     *)
(* reads or writes: the chain and the store grow under a backup that began *)
(* on a settled cell, and the volume is the archive's, member by member,   *)
(* from the step of a restore that placed it to the start that serves it.  *)
(***************************************************************************)
EXTENDS Recovery, TLAPS

Shots == [holds : Written, key : Nat]

Copies == [holds : Written, key : Nat, shot : Shots \cup {Absent}]

Ledgers == [db : Written, wal : Written \cup {Absent}]

Members == {"state", "rauthy", "ledger", "keys"}

ArchivesOf(modes, members) ==
    [mode : modes, member : [Stores -> members \cup {Absent}],
     ledger : Ledgers \cup {Absent}, key : Nat, notes : SUBSET Members,
     intact : BOOLEAN, torn : SUBSET Stores, since : Written, decided : Written,
     settled : BOOLEAN]

HotArchives == ArchivesOf({"hot"}, Shots)

ColdArchives == ArchivesOf({"cold"}, Copies)

HotSteps == {"state", "take", "name", "rauthy", "newest", "ledger", "keys"}

HotVerbs ==
    [step : HotSteps, got : HotArchives, new : BOOLEAN, session : BOOLEAN,
     apiKey : BOOLEAN]

ColdSteps == {"db", "wal", "state_directory", "rauthy_directory", "keys"}

ColdVerbs == [step : ColdSteps, got : ColdArchives]

RestoreSteps == {"verify", "place_ledger", "place_state", "place_rauthy", "place_keys"}

RestoreVerbs ==
    [step : RestoreSteps, got : HotArchives \cup ColdArchives, quiet : BOOLEAN]

Volumes ==
    [store : [Stores -> Written], db : Written, wal : Written \cup {Absent},
     stray : BOOLEAN, key : Nat, shot : [Stores -> Shots \cup {Absent}],
     staged : [Stores -> Shots \cup Copies \cup {Absent}], marked : SUBSET Stores]

Owes == [archive : HotArchives \cup ColdArchives, told : SUBSET Stores,
         again : BOOLEAN, stray : BOOLEAN]

TypeOK ==
    /\ cell \in {"down", "identity", "up"}
    /\ vol \in Volumes
    /\ env \in SUBSET Stores /\ offer \in SUBSET Stores
    /\ verb \in {Idle} \cup HotVerbs \cup ColdVerbs \cup RestoreVerbs
    /\ (verb \in ColdVerbs /\ verb.step = "wal") => verb.got.ledger \in Ledgers
    /\ archive \in {Absent} \cup HotArchives \cup ColdArchives
    /\ owed \in {Absent} \cup Owes
    /\ writes \in 0..MaxWrites /\ keys \in Nat

(* What an archive has of the resource store, and of the chain. *)
Current(a) ==
    /\ a.member["state"] # Absent
    /\ a.since \subseteq a.member["state"].holds

Decided(a) == a.decided \subseteq Kept(a.ledger)

(* A backup that began on a settled cell keeps it settled to its end, and what
   it found and took is still there. *)
Ahead ==
    (verb \in HotVerbs \cup ColdVerbs /\ verb.got.settled) =>
        /\ Settled
        /\ verb.got.since \subseteq vol.store["state"]
        /\ verb.got.decided \subseteq Chain

(* A new snapshot is no older than the verb, and what is not noted is current. *)
Taking ==
    (verb \in HotVerbs /\ verb.got.settled) =>
        /\ verb.new => /\ vol.shot["state"] # Absent
                       /\ verb.got.since \subseteq vol.shot["state"].holds
        /\ (verb.step \in {"rauthy", "newest", "ledger", "keys"}
                /\ "state" \notin verb.got.notes) => Current(verb.got)
        /\ verb.step = "keys" => Decided(verb.got)

Copying ==
    (verb \in ColdVerbs /\ verb.got.settled
            /\ verb.step \in {"rauthy_directory", "keys"} /\ "state" \notin verb.got.notes)
        => Current(verb.got)

Archived ==
    (archive # Absent /\ archive.settled) =>
        /\ "state" \notin archive.notes => Current(archive)
        /\ archive.mode = "hot" => Decided(archive)

(* The ledger, and one store, are as an archive has them. *)
LedgerLaid(a) == (a.ledger # Absent /\ ~vol.stray) => Chain = Kept(a.ledger)

StoreLaid(a, s) ==
    a.member[s] # Absent =>
        IF a.mode = "cold" THEN vol.store[s] = a.member[s].holds
        ELSE vol.staged[s] = a.member[s]

(* A restore with no boot beside it has placed what its steps have passed. *)
Placed ==
    (verb \in RestoreVerbs /\ verb.quiet) =>
        /\ cell = "down"
        /\ verb.step \in {"place_state", "place_rauthy", "place_keys"} => LedgerLaid(verb.got)
        /\ verb.step \in {"place_rauthy", "place_keys"} => StoreLaid(verb.got, "state")
        /\ verb.step = "place_keys" => StoreLaid(verb.got, "rauthy")

(* What a restore that went through is owed lies on the volume until a start,
   and the start offers each node what the operator was told to set. *)
Owing ==
    owed # Absent =>
        LET a == owed.archive IN
        /\ cell # "up"
        /\ owed.told = Told(a) /\ owed.stray = vol.stray
        /\ LedgerLaid(a) /\ StoreLaid(a, "state") /\ StoreLaid(a, "rauthy")
        /\ (cell = "down" /\ ~owed.again) => owed.told \cap vol.marked = {}
        /\ (cell = "identity" /\ ~owed.again) =>
               /\ offer = owed.told
               /\ "rauthy" \in owed.told => vol.store["rauthy"] = a.member["rauthy"].holds


-----------------------------------------------------------------------------
(* Volumes. *)

LEMMA ChainType == ASSUME TypeOK PROVE Chain \in Written
  BY ConstantsOK DEF TypeOK, Volumes, Chain, Written

LEMMA CheckpointedType ==
    ASSUME TypeOK, NEW w \in {{}, Absent}
    PROVE  /\ Checkpointed(w) \in Volumes
           /\ Checkpointed(w).store = vol.store /\ Checkpointed(w).staged = vol.staged
           /\ Checkpointed(w).shot = vol.shot /\ Checkpointed(w).marked = vol.marked
           /\ Checkpointed(w).stray = vol.stray
           /\ Checkpointed(w).db = Chain /\ Checkpointed(w).wal = w
<1>1. w \in Written \cup {Absent}
  BY DEF Written
<1> QED
  BY <1>1, ChainType DEF TypeOK, Volumes, Checkpointed

LEMMA WithShotType ==
    ASSUME TypeOK, NEW s \in Stores
    PROVE  /\ WithShot(s) \in Volumes
           /\ WithShot(s).store = vol.store /\ WithShot(s).staged = vol.staged
           /\ WithShot(s).marked = vol.marked /\ WithShot(s).stray = vol.stray
           /\ WithShot(s).db = vol.db /\ WithShot(s).wal = vol.wal
           /\ WithShot(s).shot = [vol.shot EXCEPT ![s] = Sealed(s)]
           /\ Sealed(s) \in Shots
<1>1. Sealed(s) \in Shots
  BY DEF Sealed, Shots, TypeOK, Volumes
<1>2. PICK f \in [Stores -> Shots \cup {Absent}] : f = [vol.shot EXCEPT ![s] = Sealed(s)]
  BY <1>1 DEF TypeOK, Volumes
<1>3. WithShot(s) = [vol EXCEPT !.shot = f]
  BY <1>2 DEF WithShot
<1> QED
  BY <1>1, <1>2, <1>3 DEF TypeOK, Volumes

LEMMA RestoredType ==
    ASSUME NEW v \in Volumes, NEW s \in Stores, v.staged[s] # Absent
    PROVE  /\ Restored(v, s) \in Volumes
           /\ Restored(v, s).staged = v.staged /\ Restored(v, s).shot = v.shot
           /\ Restored(v, s).marked = v.marked /\ Restored(v, s).stray = v.stray
           /\ Restored(v, s).db = v.db /\ Restored(v, s).wal = v.wal
           /\ Restored(v, s).store = [v.store EXCEPT ![s] = v.staged[s].holds]
<1>1. v.staged[s].holds \in Written
  BY DEF Volumes, Shots, Copies
<1>2. PICK f \in [Stores -> Written] : f = [v.store EXCEPT ![s] = v.staged[s].holds]
  BY <1>1 DEF Volumes
<1>3. Restored(v, s) = [v EXCEPT !.store = f]
  BY <1>2 DEF Restored
<1> QED
  BY <1>2, <1>3 DEF Volumes

LEMMA OpenedType ==
    ASSUME TypeOK, NEW v \in Volumes, NEW o \in Opened(v)
    PROVE  /\ o \in Volumes
           /\ o.store = v.store /\ o.staged = v.staged /\ o.shot = v.shot
           /\ o.marked = v.marked /\ ~o.stray
           /\ ~v.stray => o = v
<1>1. CASE ~v.stray
  BY <1>1 DEF Opened
<1>2. CASE v.stray
  <2>1. PICK d \in {v.db, Chain} : o = [v EXCEPT !.db = d, !.wal = {}, !.stray = FALSE]
    BY <1>2 DEF Opened
  <2>2. d \in Written /\ {} \in Written
    BY ChainType DEF Volumes, Written
  <2> QED
    BY <1>2, <2>1, <2>2 DEF Volumes
<1> QED
  BY <1>1, <1>2

LEMMA LaidType ==
    ASSUME TypeOK, NEW l \in Ledgers
    PROVE  /\ Laid(l) \in Volumes
           /\ Laid(l).store = vol.store /\ Laid(l).staged = vol.staged
           /\ Laid(l).db = l.db
           /\ Laid(l).wal = (IF l.wal = Absent THEN vol.wal ELSE l.wal)
           /\ Laid(l).stray = (l.wal = Absent /\ vol.wal # Absent)
  BY DEF TypeOK, Volumes, Ledgers, Laid

-----------------------------------------------------------------------------
(* Archives and verbs. *)

(* A verb's kind is told by its step and by the mode of its archive. *)
LEMMA Kinds ==
    ASSUME TypeOK
    PROVE  /\ verb \in HotVerbs => /\ verb # Idle /\ verb.got.mode = "hot"
                                   /\ verb.step \in HotSteps /\ verb.got \in HotArchives
                                   /\ verb.got.member \in [Stores -> Shots \cup {Absent}]
           /\ verb \in ColdVerbs => /\ verb # Idle /\ verb.got.mode = "cold"
                                    /\ verb.step \in ColdSteps /\ verb.got \in ColdArchives
           /\ verb \in RestoreVerbs => /\ verb # Idle /\ verb.step \in RestoreSteps
                                       /\ "quiet" \in DOMAIN verb
           /\ verb = Idle => verb.step = "idle"
  BY DEF HotVerbs, ColdVerbs, RestoreVerbs, Idle, HotSteps, ColdSteps, RestoreSteps,
     HotArchives, ColdArchives, ArchivesOf

LEMMA ArchiveModes ==
    /\ \A a \in HotArchives : a.mode = "hot" /\ a \notin ColdArchives
    /\ \A a \in ColdArchives : a.mode = "cold" /\ a \notin HotArchives
  BY DEF HotArchives, ColdArchives, ArchivesOf

LEMMA NewArchiveType ==
    ASSUME TypeOK
    PROVE  /\ NewArchive("hot") \in HotArchives
           /\ NewArchive("cold") \in ColdArchives
           /\ \A mode \in {"hot", "cold"} :
                 /\ NewArchive(mode).since = vol.store["state"]
                 /\ NewArchive(mode).settled = Settled
                 /\ NewArchive(mode).decided = {}
<1>1. Settled \in BOOLEAN
  BY DEF Settled
<1>2. {} \in Written /\ vol.store["state"] \in Written
  BY DEF Written, TypeOK, Volumes, Stores
<1>3. \A M : [s \in Stores |-> Absent] \in [Stores -> M \cup {Absent}]
  OBVIOUS
<1> QED
  BY <1>1, <1>2, <1>3 DEF NewArchive, HotArchives, ColdArchives, ArchivesOf

LEMMA TookType ==
    ASSUME TypeOK, verb \in HotVerbs, NEW s \in Stores, NEW noted \in BOOLEAN
    PROVE  /\ Took(s, noted) \in HotArchives
           /\ Took(s, noted).since = verb.got.since
           /\ Took(s, noted).settled = verb.got.settled
           /\ Took(s, noted).ledger = verb.got.ledger
           /\ Took(s, noted).member[s] = vol.shot[s]
           /\ s # "state" => Took(s, noted).member["state"] = verb.got.member["state"]
           /\ Took(s, noted).decided = (IF s = "state" THEN Chain ELSE verb.got.decided)
           /\ Took(s, noted).notes = (IF noted THEN verb.got.notes \cup {s}
                                      ELSE verb.got.notes)
<1> DEFINE got == verb.got
<1>1. got \in HotArchives
  BY Kinds
<1>2. vol.shot[s] \in Shots \cup {Absent}
  BY DEF TypeOK, Volumes
<1>3. PICK m \in [Stores -> Shots \cup {Absent}] : m = [got.member EXCEPT ![s] = vol.shot[s]]
  BY <1>1, <1>2 DEF HotArchives, ArchivesOf
<1>4. PICK n \in SUBSET Members : n = IF noted THEN got.notes \cup {s} ELSE got.notes
  BY <1>1 DEF HotArchives, ArchivesOf, Members, Stores
<1>5. PICK d \in Written : d = IF s = "state" THEN Chain ELSE got.decided
  BY <1>1, ChainType DEF HotArchives, ArchivesOf
<1>6. Took(s, noted) = [got EXCEPT !.member = m, !.notes = n, !.decided = d]
  BY <1>3, <1>4, <1>5 DEF Took
<1>7. m[s] = vol.shot[s] /\ (s # "state" => m["state"] = got.member["state"])
  BY <1>1, <1>3 DEF HotArchives, ArchivesOf, Stores
<1> QED
  BY <1>1, <1>3, <1>4, <1>5, <1>6, <1>7 DEF HotArchives, ArchivesOf

LEMMA HotGoto ==
    ASSUME verb \in HotVerbs, NEW step \in HotSteps, NEW got \in HotArchives, Goto(step, got)
    PROVE  /\ verb' \in HotVerbs /\ verb'.step = step /\ verb'.got = got
           /\ verb'.new = verb.new
  BY DEF Goto, HotVerbs

LEMMA ColdGoto ==
    ASSUME verb \in ColdVerbs, NEW step \in ColdSteps, NEW got \in ColdArchives, Goto(step, got)
    PROVE  verb' \in ColdVerbs /\ verb'.step = step /\ verb'.got = got
  BY DEF Goto, ColdVerbs

(* The steps of the cold backup, each as what it makes of the archive. *)
LEMMA CopyTypes ==
    ASSUME TypeOK, verb \in ColdVerbs
    PROVE  /\ [verb.got EXCEPT !.ledger = [db |-> vol.db, wal |-> Absent]] \in ColdArchives
           /\ verb.got.ledger \in Ledgers =>
                  [verb.got EXCEPT !.ledger.wal = vol.wal] \in ColdArchives
           /\ \A m \in Members : [verb.got EXCEPT !.notes = @ \cup {m}] \in ColdArchives
           /\ \A s \in Stores : Copied(s) \in Copies
           /\ \A s \in Stores, t \in SUBSET Stores :
                 [verb.got EXCEPT !.member[s] = Copied(s), !.torn = t] \in ColdArchives
<1>1. verb.got \in ColdArchives
  BY Kinds
<1>2. [db |-> vol.db, wal |-> Absent] \in Ledgers
  BY DEF Ledgers, TypeOK, Volumes
<1>3. ASSUME verb.got.ledger \in Ledgers
      PROVE  [verb.got EXCEPT !.ledger.wal = vol.wal] \in ColdArchives
  <2>1. PICK l \in Ledgers : l = [verb.got.ledger EXCEPT !.wal = vol.wal]
    BY <1>3 DEF Ledgers, TypeOK, Volumes
  <2>2. [verb.got EXCEPT !.ledger.wal = vol.wal] = [verb.got EXCEPT !.ledger = l]
    BY <2>1
  <2> QED
    BY <1>1, <2>1, <2>2 DEF ColdArchives, ArchivesOf
<1>4. ASSUME NEW m \in Members
      PROVE  [verb.got EXCEPT !.notes = @ \cup {m}] \in ColdArchives
  BY <1>1, <1>4 DEF ColdArchives, ArchivesOf
<1>5. ASSUME NEW s \in Stores
      PROVE  Copied(s) \in Copies
  BY DEF Copied, Copies, TypeOK, Volumes
<1>6. ASSUME NEW s \in Stores, NEW t \in SUBSET Stores
      PROVE  [verb.got EXCEPT !.member[s] = Copied(s), !.torn = t] \in ColdArchives
  <2>1. PICK m \in [Stores -> Copies \cup {Absent}] :
            m = [verb.got.member EXCEPT ![s] = Copied(s)]
    BY <1>1, <1>5 DEF ColdArchives, ArchivesOf
  <2>2. [verb.got EXCEPT !.member[s] = Copied(s), !.torn = t]
            = [verb.got EXCEPT !.member = m, !.torn = t]
    BY <2>1
  <2> QED
    BY <1>1, <2>1, <2>2 DEF ColdArchives, ArchivesOf
<1>7. [verb.got EXCEPT !.ledger = [db |-> vol.db, wal |-> Absent]] \in ColdArchives
  BY <1>1, <1>2 DEF ColdArchives, ArchivesOf
<1> QED
  BY <1>3, <1>4, <1>5, <1>6, <1>7

-----------------------------------------------------------------------------
(* Types. *)

LEMMA ServeType == ASSUME TypeOK, Serve PROVE TypeOK'
<1>1. ASSUME NEW s \in Stores, Write(s)
      PROVE  TypeOK'
  <2>1. writes + 1 \in 1..MaxWrites /\ writes' = writes + 1
    BY <1>1, ConstantsOK DEF Write, TypeOK
  <2>2. PICK f \in [Stores -> Written] : f = [vol.store EXCEPT ![s] = @ \cup {writes + 1}]
    BY <2>1 DEF TypeOK, Volumes, Written
  <2>3. vol' = [vol EXCEPT !.store = f]
    BY <1>1, <2>2 DEF Write
  <2>4. vol' \in Volumes
    BY <2>2, <2>3 DEF TypeOK, Volumes
  <2> QED
    BY <1>1, <2>1, <2>4 DEF Write, TypeOK
<1>2. ASSUME NEW s \in Stores, Cron(s)
      PROVE  TypeOK'
  <2>1. vol' \in Volumes
    BY <1>2, WithShotType DEF Cron
  <2>2. CASE s = "state" /\ verb.step \in {"take", "name"}
    <3>1. verb \in HotVerbs
      BY <2>2, Kinds DEF TypeOK, ColdSteps, RestoreSteps
    <3>2. verb' \in HotVerbs
      BY <1>2, <2>2, <3>1 DEF Cron, HotVerbs
    <3>3. verb' \notin ColdVerbs
      BY <3>2, ArchiveModes DEF HotVerbs, ColdVerbs
    <3> QED
      BY <1>2, <2>1, <3>2, <3>3 DEF Cron, TypeOK, counters
  <2>3. CASE ~(s = "state" /\ verb.step \in {"take", "name"})
    BY <1>2, <2>1, <2>3 DEF Cron, TypeOK, counters
  <2> QED
    BY <2>2, <2>3
<1>3. ASSUME NEW w \in 1..MaxWrites, Decide(w)
      PROVE  TypeOK'
  <2>1. PICK l \in Written : l = (IF vol.wal = Absent THEN {} ELSE vol.wal) \cup {w}
    BY <1>3 DEF TypeOK, Volumes, Written
  <2>2. vol' = [vol EXCEPT !.wal = l]
    BY <1>3, <2>1 DEF Decide
  <2>3. vol' \in Volumes
    BY <2>1, <2>2 DEF TypeOK, Volumes
  <2> QED
    BY <1>3, <2>3 DEF Decide, TypeOK, counters
<1>4. CASE Checkpoint
  BY <1>4, CheckpointedType DEF Checkpoint, TypeOK, counters
<1>5. CASE Minute
  BY <1>5 DEF Minute, TypeOK, counters
<1>6. CASE RauthyWrites
  BY <1>6, WithShotType DEF RauthyWrites, TypeOK, counters, Stores
<1> QED
  BY <1>1, <1>2, <1>3, <1>4, <1>5, <1>6 DEF Serve

LEMMA BootStep ==
    ASSUME TypeOK, Boot
    PROVE  \E v \in Volumes, wanted \in SUBSET Stores, starts \in BOOLEAN :
              /\ wanted = env \ vol.marked
              /\ v.marked = vol.marked \cup env
              /\ v.store = vol.store /\ v.staged = vol.staged /\ v.shot = vol.shot
              /\ v.db = vol.db /\ v.wal = vol.wal /\ v.stray = vol.stray
              /\ ("rauthy" \in wanted /\ starts) => vol.staged["rauthy"] # Absent
              /\ vol' = IF "rauthy" \in wanted /\ starts THEN Restored(v, "rauthy") ELSE v
              /\ cell' = IF starts THEN "identity" ELSE "down"
              /\ offer' = IF starts THEN wanted ELSE {}
              /\ owed' = IF starts /\ owed # Absent /\ owed.told = env THEN owed ELSE Absent
              /\ keys' \in Nat
<1> DEFINE fresh == vol.key = 0
           v == [vol EXCEPT !.key = IF fresh THEN keys + 1 ELSE @, !.marked = @ \cup env]
           wanted == env \ vol.marked
           starts == "rauthy" \in wanted => Opens("rauthy", v.key)
<1>1. v \in Volumes
  <2>1. PICK k \in Nat : k = IF fresh THEN keys + 1 ELSE vol.key
    BY DEF TypeOK, Volumes
  <2>2. v = [vol EXCEPT !.key = k, !.marked = vol.marked \cup env]
    BY <2>1
  <2> QED
    BY <2>1, <2>2 DEF TypeOK, Volumes
<1>2. wanted \in SUBSET Stores /\ starts \in BOOLEAN
  BY DEF TypeOK
<1>3. /\ v.marked = vol.marked \cup env
      /\ v.store = vol.store /\ v.staged = vol.staged /\ v.shot = vol.shot
      /\ v.db = vol.db /\ v.wal = vol.wal /\ v.stray = vol.stray
  BY DEF TypeOK, Volumes
<1>4. ("rauthy" \in wanted /\ starts) => vol.staged["rauthy"] # Absent
  BY DEF Opens
<1>5. /\ vol' = IF "rauthy" \in wanted /\ starts THEN Restored(v, "rauthy") ELSE v
      /\ cell' = IF starts THEN "identity" ELSE "down"
      /\ offer' = IF starts THEN wanted ELSE {}
      /\ owed' = IF starts /\ owed # Absent /\ owed.told = env THEN owed ELSE Absent
      /\ keys' \in Nat
  BY DEF Boot, TypeOK
<1> HIDE DEF v, wanted, starts
<1>6. wanted = env \ vol.marked
  BY DEF wanted
<1> QED
  BY <1>1, <1>2, <1>3, <1>4, <1>5, <1>6

(* A boot beside a restore is remembered; of any other verb it changes nothing. *)
LEMMA BootVerb ==
    ASSUME TypeOK, Boot
    PROVE  /\ verb \in {Idle} \cup HotVerbs \cup ColdVerbs => verb' = verb
           /\ verb \in RestoreVerbs => verb' \in RestoreVerbs /\ ~verb'.quiet
<1>1. verb \in {Idle} \cup HotVerbs \cup ColdVerbs => "quiet" \notin DOMAIN verb
  BY DEF Idle, HotVerbs, ColdVerbs
<1>2. verb \in RestoreVerbs => "quiet" \in DOMAIN verb
  BY DEF RestoreVerbs
<1>3. verb' = IF "quiet" \in DOMAIN verb THEN [verb EXCEPT !.quiet = FALSE] ELSE verb
  BY DEF Boot
<1>4. ASSUME verb \in RestoreVerbs
      PROVE  /\ [verb EXCEPT !.quiet = FALSE] \in RestoreVerbs
             /\ ~[verb EXCEPT !.quiet = FALSE].quiet
  BY <1>4 DEF RestoreVerbs
<1> QED
  BY <1>1, <1>2, <1>3, <1>4

LEMMA FreshType == FreshVolume \in Volumes
<1>1. {} \in Written
  BY DEF Written
<1> QED
  BY <1>1 DEF FreshVolume, Volumes

LEMMA StartAppStep ==
    ASSUME TypeOK, StartApp
    PROVE  /\ vol' \in Volumes /\ vol'.marked = vol.marked /\ vol'.shot = vol.shot
           /\ vol'.staged = vol.staged
           /\ "state" \notin offer => vol'.store = vol.store
           /\ "state" \in offer /\ cell' = "up" =>
                  /\ vol.staged["state"] # Absent
                  /\ vol'.store = [vol.store EXCEPT !["state"] = vol.staged["state"].holds]
           /\ vol'.stray => vol.stray
           /\ ~vol.stray => vol'.db = vol.db /\ vol'.wal = vol.wal
           /\ cell' \in {"up", "down"}
<1>1. CASE "state" \notin offer
  BY <1>1, OpenedType DEF StartApp, TypeOK
<1>2. CASE "state" \in offer /\ Opens("state", vol.key)
  <2>1. vol.staged["state"] # Absent
    BY <1>2 DEF Opens
  <2>2. Restored(vol, "state") \in Volumes
    BY <2>1, RestoredType DEF TypeOK, Stores
  <2>3. vol' \in Opened(Restored(vol, "state")) /\ cell' = "up"
    BY <1>2 DEF StartApp
  <2>4. /\ Restored(vol, "state").staged = vol.staged
        /\ Restored(vol, "state").shot = vol.shot
        /\ Restored(vol, "state").marked = vol.marked
        /\ Restored(vol, "state").stray = vol.stray
        /\ Restored(vol, "state").db = vol.db /\ Restored(vol, "state").wal = vol.wal
        /\ Restored(vol, "state").store
               = [vol.store EXCEPT !["state"] = vol.staged["state"].holds]
    BY <2>1, RestoredType DEF TypeOK, Stores
  <2>5. /\ vol' \in Volumes /\ vol'.store = Restored(vol, "state").store
        /\ vol'.staged = Restored(vol, "state").staged
        /\ vol'.shot = Restored(vol, "state").shot
        /\ vol'.marked = Restored(vol, "state").marked /\ ~vol'.stray
        /\ ~Restored(vol, "state").stray => vol' = Restored(vol, "state")
    BY <2>2, <2>3, OpenedType
  <2> QED
    BY <1>2, <2>1, <2>3, <2>4, <2>5
<1>3. CASE "state" \in offer /\ ~Opens("state", vol.key)
  BY <1>3 DEF StartApp, TypeOK
<1> QED
  BY <1>1, <1>2, <1>3

LEMMA ContainerType == ASSUME TypeOK, Container PROVE TypeOK'
<1>1. CASE Boot
  <2>1. PICK v \in Volumes, wanted \in SUBSET Stores, starts \in BOOLEAN :
              /\ v.staged = vol.staged
              /\ ("rauthy" \in wanted /\ starts) => vol.staged["rauthy"] # Absent
              /\ vol' = IF "rauthy" \in wanted /\ starts THEN Restored(v, "rauthy") ELSE v
              /\ cell' = IF starts THEN "identity" ELSE "down"
              /\ offer' = IF starts THEN wanted ELSE {}
              /\ owed' = IF starts /\ owed # Absent /\ owed.told = env THEN owed ELSE Absent
              /\ keys' \in Nat
    BY <1>1, BootStep
  <2>2. vol' \in Volumes
    BY <2>1, RestoredType DEF Stores
  <2>3. verb' \in {Idle} \cup HotVerbs \cup ColdVerbs \cup RestoreVerbs
    BY <1>1, BootVerb DEF TypeOK
  <2>4. (verb' \in ColdVerbs /\ verb'.step = "wal") => verb'.got.ledger \in Ledgers
    <3>1. verb \in RestoreVerbs => verb' \notin ColdVerbs
      BY <1>1, BootVerb DEF RestoreVerbs, ColdVerbs
    <3> QED
      BY <1>1, <3>1, BootVerb DEF TypeOK
  <2> QED
    BY <1>1, <2>1, <2>2, <2>3, <2>4 DEF Boot, TypeOK
<1>2. CASE StartApp
  BY <1>2, StartAppStep DEF StartApp, TypeOK, counters
<1>3. CASE Stop
  BY <1>3, CheckpointedType DEF Stop, Halted, TypeOK, counters
<1>4. CASE Kill
  BY <1>4 DEF Kill, Halted, TypeOK
<1>5. CASE Lose
  BY <1>5, FreshType DEF Lose, TypeOK
<1>6. ASSUME NEW stores \in SUBSET Stores, SetEnv(stores)
      PROVE  TypeOK'
  BY <1>6 DEF SetEnv, TypeOK, counters
<1> QED
  BY <1>1, <1>2, <1>3, <1>4, <1>5, <1>6 DEF Container

(* A step of a hot backup, and one of a cold one: the verb goes on, and nothing
   else changes but a snapshot and what rauthy was asked for. *)
HotStep ==
    /\ verb \in HotVerbs /\ verb' \in HotVerbs
    /\ vol' \in {vol, WithShot("state")}
    /\ BackupUnmoved

ColdStep ==
    /\ verb \in ColdVerbs /\ verb' \in ColdVerbs
    /\ verb'.step = "wal" => verb'.got.ledger \in Ledgers
    /\ vol' = vol
    /\ BackupUnmoved

LEMMA HotStepType == ASSUME TypeOK, HotStep PROVE TypeOK'
<1>1. vol' \in Volumes
  BY WithShotType DEF HotStep, TypeOK, Stores
<1>2. verb' \notin ColdVerbs
  BY ArchiveModes DEF HotStep, HotVerbs, ColdVerbs
<1> QED
  BY <1>1, <1>2 DEF HotStep, BackupUnmoved, TypeOK, counters

LEMMA ColdStepType == ASSUME TypeOK, ColdStep PROVE TypeOK'
  BY DEF ColdStep, BackupUnmoved, TypeOK, counters

LEMMA FallbackStep ==
    ASSUME TypeOK, NEW s \in Stores, Fallback(s)
    PROVE  /\ HotStep /\ vol' = vol /\ verb'.new = verb.new
           /\ verb'.step = HotOrder[s] /\ verb'.got = Took(s, TRUE)
<1>0. verb.step = "state" \/ verb.step = "rauthy"
  BY DEF Fallback, Stores
<1>1. verb \in HotVerbs
  <2>1. CASE verb.step = "state"
    BY <2>1, Kinds DEF TypeOK, ColdSteps, RestoreSteps
  <2>2. CASE verb.step = "rauthy"
    BY <2>2, Kinds DEF TypeOK, ColdSteps, RestoreSteps
  <2> QED
    BY <1>0, <2>1, <2>2
<1>2. s = "state" \/ s = "rauthy"
  BY DEF Stores
<1>3. HotOrder["state"] = "rauthy" /\ HotOrder["rauthy"] = "ledger"
  BY DEF HotOrder
<1>4. HotOrder[s] \in HotSteps
  BY <1>2, <1>3 DEF HotSteps
<1>5. Took(s, TRUE) \in HotArchives
  BY <1>1, TookType
<1> QED
  BY <1>1, <1>4, <1>5, HotGoto DEF Fallback, HotStep

LEMMA ListBeforeStep ==
    ASSUME TypeOK, ListBefore
    PROVE  HotStep /\ vol' = vol /\ verb'.step = "take" /\ verb'.got = verb.got /\ ~verb'.new
<1>1. verb \in HotVerbs
  BY Kinds DEF ListBefore, TypeOK, ColdSteps, RestoreSteps
<1> QED
  BY <1>1 DEF ListBefore, HotStep, HotVerbs, HotSteps

LEMMA TakeShotStep ==
    ASSUME TypeOK, TakeShot
    PROVE  /\ HotStep /\ verb'.step = "name" /\ verb'.got = verb.got
           /\ \/ vol' = vol /\ (verb'.new => verb.new)
              \/ vol' = WithShot("state")
<1>1. verb \in HotVerbs
  BY Kinds DEF TakeShot, TypeOK, ColdSteps, RestoreSteps
<1>2. PICK b \in BOOLEAN : b = (verb.new \/ ~recent)
  OBVIOUS
<1>3. verb' = [verb EXCEPT !.step = "name", !.new = b]
  BY <1>2 DEF TakeShot
<1>4. verb' \in HotVerbs /\ verb'.step = "name" /\ verb'.got = verb.got /\ verb'.new = b
  BY <1>1, <1>2, <1>3 DEF HotVerbs, HotSteps
<1>5. CASE recent
  BY <1>1, <1>2, <1>4, <1>5 DEF TakeShot, HotStep
<1>6. CASE ~recent
  BY <1>1, <1>4, <1>6 DEF TakeShot, HotStep
<1> QED
  BY <1>5, <1>6

LEMMA NameShotStep ==
    ASSUME TypeOK, NameShot
    PROVE  /\ HotStep /\ vol' = vol /\ verb'.new = verb.new /\ vol.shot["state"] # Absent
           /\ verb'.step = "rauthy" /\ verb'.got = Took("state", ~verb.new)
<1>1. verb \in HotVerbs
  BY Kinds DEF NameShot, TypeOK, ColdSteps, RestoreSteps
<1>2. verb.new \in BOOLEAN /\ HotOrder["state"] = "rauthy"
  BY <1>1 DEF HotVerbs, HotOrder
<1>3. Took("state", ~verb.new) \in HotArchives
  BY <1>1, <1>2, TookType DEF Stores
<1> QED
  BY <1>1, <1>2, <1>3, HotGoto DEF NameShot, Fresh, HotStep, HotSteps

LEMMA PostRauthyStep ==
    ASSUME TypeOK, PostRauthy
    PROVE  /\ HotStep /\ vol' = vol /\ verb'.new = verb.new
           /\ verb.step = "rauthy" /\ verb'.step = "newest" /\ verb'.got = verb.got
<1>1. verb \in HotVerbs
  BY Kinds DEF PostRauthy, TypeOK, ColdSteps, RestoreSteps
<1> QED
  BY <1>1 DEF PostRauthy, HotStep, HotVerbs, HotSteps

LEMMA NewestRauthyStep ==
    ASSUME TypeOK, NewestRauthy
    PROVE  /\ HotStep /\ vol' = vol /\ verb'.new = verb.new
           /\ verb.step = "newest" /\ verb'.step = "ledger"
           /\ verb'.got = Took("rauthy", FALSE)
<1>1. verb \in HotVerbs
  BY Kinds DEF NewestRauthy, TypeOK, ColdSteps, RestoreSteps
<1>2. Took("rauthy", FALSE) \in HotArchives /\ HotOrder["rauthy"] = "ledger"
  BY <1>1, TookType DEF Stores, HotOrder
<1> QED
  BY <1>1, <1>2, HotGoto DEF NewestRauthy, HotStep, HotSteps

LEMMA VacuumStep ==
    ASSUME TypeOK, Vacuum
    PROVE  /\ HotStep /\ vol' = vol /\ verb'.new = verb.new
           /\ verb.step = "ledger" /\ verb'.step = "keys"
           /\ verb'.got = [verb.got EXCEPT !.ledger = [db |-> Chain, wal |-> Absent]]
           /\ verb'.got.ledger = [db |-> Chain, wal |-> Absent]
           /\ verb'.got.since = verb.got.since /\ verb'.got.settled = verb.got.settled
           /\ verb'.got.decided = verb.got.decided /\ verb'.got.notes = verb.got.notes
           /\ verb'.got.member = verb.got.member
<1>1. verb \in HotVerbs
  BY Kinds DEF Vacuum, TypeOK, ColdSteps, RestoreSteps
<1>2. verb.got \in HotArchives
  BY <1>1, Kinds
<1>3. [db |-> Chain, wal |-> Absent] \in Ledgers
  BY ChainType DEF Ledgers
<1>4. PICK got \in HotArchives :
        /\ got = [verb.got EXCEPT !.ledger = [db |-> Chain, wal |-> Absent]]
        /\ got.ledger = [db |-> Chain, wal |-> Absent]
        /\ got.since = verb.got.since /\ got.settled = verb.got.settled
        /\ got.decided = verb.got.decided /\ got.notes = verb.got.notes
        /\ got.member = verb.got.member
  <2>1. [verb.got EXCEPT !.ledger = [db |-> Chain, wal |-> Absent]] \in HotArchives
    BY <1>2, <1>3 DEF HotArchives, ArchivesOf
  <2> QED
    BY <1>2, <2>1 DEF HotArchives, ArchivesOf
<1>5. HotOrder["ledger"] = "keys"
  BY DEF HotOrder
<1>6. Goto("keys", got)
  BY <1>4, <1>5 DEF Vacuum
<1>7. verb' \in HotVerbs /\ verb'.step = "keys" /\ verb'.got = got /\ verb'.new = verb.new
  BY <1>1, <1>6, HotGoto DEF HotSteps
<1> QED
  BY <1>1, <1>4, <1>7 DEF Vacuum, HotStep

LEMMA CopyDbStep ==
    ASSUME TypeOK, CopyDb
    PROVE  /\ ColdStep /\ verb'.step \in {"wal", "state_directory"}
           /\ verb'.got.since = verb.got.since /\ verb'.got.settled = verb.got.settled
           /\ verb'.got.decided = verb.got.decided
<1>1. verb \in ColdVerbs /\ verb.got \in ColdArchives
  BY Kinds DEF CopyDb, TypeOK, HotSteps, RestoreSteps
<1>2. CASE Made
  <2>1. PICK got \in ColdArchives :
          got = [verb.got EXCEPT !.ledger = [db |-> vol.db, wal |-> Absent]]
    BY <1>1, CopyTypes
  <2>2. [db |-> vol.db, wal |-> Absent] \in Ledgers
    BY DEF Ledgers, TypeOK, Volumes
  <2>3. /\ got.ledger \in Ledgers /\ got.since = verb.got.since
        /\ got.settled = verb.got.settled /\ got.decided = verb.got.decided
    BY <1>1, <2>1, <2>2 DEF ColdArchives, ArchivesOf
  <2>4. Goto("wal", got)
    BY <1>2, <2>1 DEF CopyDb
  <2>5. verb' \in ColdVerbs /\ verb'.step = "wal" /\ verb'.got = got
    BY <1>1, <2>4, ColdGoto DEF ColdSteps
  <2> QED
    BY <1>1, <2>3, <2>5 DEF CopyDb, ColdStep
<1>3. CASE ~Made
  <2>1. PICK got \in ColdArchives : got = [verb.got EXCEPT !.notes = @ \cup {"ledger"}]
    BY <1>1, CopyTypes DEF Members
  <2>3. /\ got.since = verb.got.since
        /\ got.settled = verb.got.settled /\ got.decided = verb.got.decided
    BY <1>1, <2>1 DEF ColdArchives, ArchivesOf
  <2>4. Goto("state_directory", got)
    BY <1>3, <2>1 DEF CopyDb
  <2>5. verb' \in ColdVerbs /\ verb'.step = "state_directory" /\ verb'.got = got
    BY <1>1, <2>4, ColdGoto DEF ColdSteps
  <2> QED
    BY <1>1, <2>3, <2>5 DEF CopyDb, ColdStep
<1> QED
  BY <1>2, <1>3

LEMMA CopyWalStep ==
    ASSUME TypeOK, CopyWal
    PROVE  /\ ColdStep /\ verb'.step = "state_directory"
           /\ verb'.got.since = verb.got.since /\ verb'.got.settled = verb.got.settled
           /\ verb'.got.decided = verb.got.decided
<1>1. verb \in ColdVerbs /\ verb.got \in ColdArchives
  BY Kinds DEF CopyWal, TypeOK, HotSteps, RestoreSteps
<1>2. verb.got.ledger \in Ledgers
  BY <1>1 DEF CopyWal, TypeOK
<1>3. PICK got \in ColdArchives : got = [verb.got EXCEPT !.ledger.wal = vol.wal]
  BY <1>1, <1>2, CopyTypes
<1>4. /\ got.since = verb.got.since
      /\ got.settled = verb.got.settled /\ got.decided = verb.got.decided
  BY <1>1, <1>3 DEF ColdArchives, ArchivesOf
<1>5. Goto("state_directory", got)
  BY <1>3 DEF CopyWal
<1>6. verb' \in ColdVerbs /\ verb'.step = "state_directory" /\ verb'.got = got
  BY <1>1, <1>5, ColdGoto DEF ColdSteps
<1> QED
  BY <1>1, <1>4, <1>6 DEF CopyWal, ColdStep

LEMMA CopyDirectoryStep ==
    ASSUME TypeOK, NEW s \in Stores, CopyDirectory(s)
    PROVE  /\ ColdStep /\ verb'.step = ColdOrder[s]
           /\ verb'.got.since = verb.got.since /\ verb'.got.settled = verb.got.settled
           /\ verb'.got.decided = verb.got.decided
           /\ s = "state" => /\ Made => verb'.got.member["state"] = Copied("state")
                             /\ ~Made => "state" \in verb'.got.notes
           /\ s = "rauthy" => /\ verb.step = "rauthy_directory"
                              /\ verb'.got.member["state"] = verb.got.member["state"]
                              /\ verb.got.notes \subseteq verb'.got.notes
<1>1. s = "state" \/ s = "rauthy"
  BY DEF Stores
<1>2. /\ s = "state" => verb.step = "state_directory"
      /\ s = "rauthy" => verb.step = "rauthy_directory"
  BY DEF CopyDirectory, Directory
<1>3. verb \in ColdVerbs /\ verb.got \in ColdArchives
  <2>1. CASE verb.step = "state_directory"
    BY <2>1, Kinds DEF TypeOK, HotSteps, RestoreSteps
  <2>2. CASE verb.step = "rauthy_directory"
    BY <2>2, Kinds DEF TypeOK, HotSteps, RestoreSteps
  <2> QED
    BY <1>1, <1>2, <2>1, <2>2
<1>4. ColdOrder["state"] = "rauthy_directory" /\ ColdOrder["rauthy"] = "keys"
  BY DEF ColdOrder
<1>5. ColdOrder[s] \in ColdSteps /\ ColdOrder[s] # "wal"
  BY <1>1, <1>4 DEF ColdSteps
<1>6. CASE Made
  <2>1. PICK t \in SUBSET Stores : t = IF Runs(s) THEN verb.got.torn \cup {s} ELSE verb.got.torn
    BY <1>3 DEF ColdArchives, ArchivesOf
  <2>2. PICK got \in ColdArchives :
          got = [verb.got EXCEPT !.member[s] = Copied(s), !.torn = t]
    BY <1>3, CopyTypes
  <2>3. /\ got.since = verb.got.since /\ got.notes = verb.got.notes
        /\ got.settled = verb.got.settled /\ got.decided = verb.got.decided
        /\ got.member = [verb.got.member EXCEPT ![s] = Copied(s)]
    BY <1>3, <2>2 DEF ColdArchives, ArchivesOf
  <2>4. /\ got.member[s] = Copied(s)
        /\ s # "state" => got.member["state"] = verb.got.member["state"]
    BY <1>3, <2>3 DEF ColdArchives, ArchivesOf, Stores
  <2>5. Goto(ColdOrder[s], got)
    BY <1>6, <2>1, <2>2 DEF CopyDirectory
  <2>6. verb' \in ColdVerbs /\ verb'.step = ColdOrder[s] /\ verb'.got = got
    BY <1>3, <1>5, <2>5, ColdGoto
  <2> QED
    BY <1>1, <1>2, <1>3, <1>5, <1>6, <2>3, <2>4, <2>6 DEF CopyDirectory, ColdStep
<1>7. CASE ~Made
  <2>1. PICK got \in ColdArchives : got = [verb.got EXCEPT !.notes = @ \cup {s}]
    BY <1>3, CopyTypes DEF Members, Stores
  <2>2. /\ got.since = verb.got.since /\ got.notes = verb.got.notes \cup {s}
        /\ got.settled = verb.got.settled /\ got.decided = verb.got.decided
        /\ got.member = verb.got.member
    BY <1>3, <2>1 DEF ColdArchives, ArchivesOf
  <2>3. Goto(ColdOrder[s], got)
    BY <1>7, <2>1 DEF CopyDirectory
  <2>4. verb' \in ColdVerbs /\ verb'.step = ColdOrder[s] /\ verb'.got = got
    BY <1>3, <1>5, <2>3, ColdGoto
  <2> QED
    BY <1>1, <1>2, <1>3, <1>5, <1>7, <2>2, <2>4 DEF CopyDirectory, ColdStep
<1> QED
  BY <1>6, <1>7

(* The archive that a backup writes is the one it built. *)
LEMMA WriteStep ==
    ASSUME TypeOK, CopyKeysAndWrite
    PROVE  /\ verb \in HotVerbs \cup ColdVerbs /\ verb.step = "keys"
           /\ verb \in HotVerbs => archive' \in HotArchives
           /\ verb \in ColdVerbs => archive' \in ColdArchives
           /\ archive'.mode = verb.got.mode /\ archive'.member = verb.got.member
           /\ archive'.ledger = verb.got.ledger /\ archive'.since = verb.got.since
           /\ archive'.decided = verb.got.decided /\ archive'.settled = verb.got.settled
           /\ verb.got.notes \subseteq archive'.notes
<1>1. verb \in HotVerbs \cup ColdVerbs /\ verb.step = "keys"
  BY Kinds DEF CopyKeysAndWrite, TypeOK, RestoreSteps
<1>2. PICK n : n = IF Made THEN verb.got.notes ELSE verb.got.notes \cup {"keys"}
  OBVIOUS
<1>3. archive' = [verb.got EXCEPT !.key = vol.key, !.notes = n]
  BY <1>2 DEF CopyKeysAndWrite
<1>4. vol.key \in Nat
  BY DEF TypeOK, Volumes
<1>5. CASE verb \in HotVerbs
  <2>1. verb.got \in HotArchives
    BY <1>5, Kinds
  <2>2. n \in SUBSET Members /\ verb.got.notes \subseteq n
    BY <1>2, <2>1 DEF HotArchives, ArchivesOf, Members
  <2>3. archive' \in HotArchives
    BY <1>3, <1>4, <2>1, <2>2 DEF HotArchives, ArchivesOf
  <2>4. verb \notin ColdVerbs
    BY <1>5, <2>1, ArchiveModes DEF ColdVerbs
  <2> QED
    BY <1>1, <1>3, <2>1, <2>2, <2>3, <2>4 DEF HotArchives, ArchivesOf
<1>6. CASE verb \in ColdVerbs
  <2>1. verb.got \in ColdArchives
    BY <1>6, Kinds
  <2>2. n \in SUBSET Members /\ verb.got.notes \subseteq n
    BY <1>2, <2>1 DEF ColdArchives, ArchivesOf, Members
  <2>3. archive' \in ColdArchives
    BY <1>3, <1>4, <2>1, <2>2 DEF ColdArchives, ArchivesOf
  <2>4. verb \notin HotVerbs
    BY <1>6, <2>1, ArchiveModes DEF HotVerbs
  <2> QED
    BY <1>1, <1>3, <2>1, <2>2, <2>3, <2>4 DEF ColdArchives, ArchivesOf
<1> QED
  BY <1>1, <1>5, <1>6

LEMMA StartHotStep ==
    ASSUME TypeOK, NEW session \in BOOLEAN, NEW apiKey \in BOOLEAN, StartHot(session, apiKey)
    PROVE  /\ verb' \in HotVerbs /\ verb'.step = "state" /\ ~verb'.new
           /\ verb'.got = NewArchive("hot") /\ verb'.got \in HotArchives
           /\ UNCHANGED <<cell, vol, env, offer, archive, owed, writes, keys>>
<1>1. HotOrder.first = "state"
  BY DEF HotOrder
<1> QED
  BY <1>1, NewArchiveType DEF StartHot, HotVerbs, HotSteps

LEMMA StartColdStep ==
    ASSUME TypeOK, StartCold
    PROVE  /\ verb' \in ColdVerbs /\ verb'.step = "db"
           /\ verb'.got = NewArchive("cold") /\ verb'.got \in ColdArchives
           /\ UNCHANGED <<cell, vol, env, offer, archive, owed, writes, keys>>
  BY NewArchiveType DEF StartCold, ColdVerbs, ColdSteps

LEMMA NoVerb == Idle \notin HotVerbs \cup ColdVerbs \cup RestoreVerbs
  BY DEF Idle, HotVerbs, ColdVerbs, RestoreVerbs

LEMMA BackupType == ASSUME TypeOK, Backup PROVE TypeOK'
<1>1. ASSUME NEW session \in BOOLEAN, NEW apiKey \in BOOLEAN, StartHot(session, apiKey)
      PROVE  TypeOK'
  <2>1. verb' \notin ColdVerbs
    BY <1>1, StartHotStep, ArchiveModes DEF ColdVerbs
  <2> QED
    BY <1>1, <2>1, StartHotStep DEF TypeOK
<1>2. CASE StartCold
  BY <1>2, StartColdStep DEF TypeOK
<1>3. ASSUME HotStep PROVE TypeOK'
  BY <1>3, HotStepType
<1>4. ASSUME ColdStep PROVE TypeOK'
  BY <1>4, ColdStepType
<1>5. CASE CopyKeysAndWrite
  <2>1. archive' \in HotArchives \cup ColdArchives /\ verb' = Idle
    BY <1>5, WriteStep DEF CopyKeysAndWrite
  <2> QED
    BY <1>5, <2>1, NoVerb DEF CopyKeysAndWrite, TypeOK, counters
<1>6. CASE Abandon
  BY <1>6, NoVerb DEF Abandon, BackupUnmoved, TypeOK, counters
<1> QED
  BY <1>1, <1>2, <1>3, <1>4, <1>5, <1>6, FallbackStep, CopyDirectoryStep, ListBeforeStep,
     TakeShotStep, NameShotStep, PostRauthyStep, NewestRauthyStep, VacuumStep, CopyDbStep,
     CopyWalStep
  DEF Backup

(* A step of a restore: it keeps its archive and whether a boot came beside it. *)
RestoreStep ==
    /\ verb \in RestoreVerbs /\ verb' \in RestoreVerbs
    /\ verb'.got = verb.got /\ verb'.quiet = verb.quiet
    /\ vol' \in Volumes /\ owed' = Absent
    /\ RestoreUnmoved

LEMMA PlaceIsStep ==
    ASSUME TypeOK, verb \in RestoreVerbs, NEW step \in RestoreSteps, NEW v \in Volumes,
           Place(step, v)
    PROVE  RestoreStep /\ verb'.step = step /\ vol' = v
<1>1. verb' = [verb EXCEPT !.step = step] /\ vol' = v /\ owed' = Absent /\ RestoreUnmoved
  BY DEF Place
<1>2. verb' \in RestoreVerbs /\ verb'.step = step /\ verb'.got = verb.got
      /\ verb'.quiet = verb.quiet
  BY <1>1 DEF RestoreVerbs
<1> QED
  BY <1>1, <1>2 DEF RestoreStep

LEMMA PlaceLedgerStep ==
    ASSUME TypeOK, PlaceLedger
    PROVE  /\ RestoreStep /\ verb.step = "place_ledger" /\ verb'.step = "place_state"
           /\ verb.got.ledger # Absent => /\ verb.got.ledger \in Ledgers
                                          /\ vol' = Laid(verb.got.ledger)
<1>1. verb \in RestoreVerbs
  BY Kinds DEF PlaceLedger, TypeOK, HotSteps, ColdSteps
<1>2. verb.got.ledger \in Ledgers \cup {Absent}
  BY <1>1 DEF RestoreVerbs, HotArchives, ColdArchives, ArchivesOf
<1>3. PICK v \in Volumes : v = IF verb.got.ledger = Absent THEN vol ELSE Laid(verb.got.ledger)
  BY <1>2, LaidType DEF TypeOK
<1>4. Place("place_state", v)
  BY <1>3 DEF PlaceLedger
<1> QED
  BY <1>1, <1>2, <1>3, <1>4, PlaceIsStep DEF PlaceLedger, RestoreSteps

LEMMA PlaceStoreStep ==
    ASSUME TypeOK, NEW s \in Stores, PlaceStore(s)
    PROVE  /\ RestoreStep
           /\ s = "state" => verb.step = "place_state" /\ verb'.step = "place_rauthy"
           /\ s = "rauthy" => verb.step = "place_rauthy" /\ verb'.step = "place_keys"
           /\ vol'.db = vol.db /\ vol'.wal = vol.wal /\ vol'.stray = vol.stray
           /\ StoreLaid(verb.got, s)'
           /\ \A t \in Stores \ {s} :
                  vol'.store[t] = vol.store[t] /\ vol'.staged[t] = vol.staged[t]
<1>1. s = "state" \/ s = "rauthy"
  BY DEF Stores
<1>2. Placing["state"] = "place_state" /\ Placing["rauthy"] = "place_rauthy"
  BY DEF Placing
<1>3. Following["state"] = "place_rauthy" /\ Following["rauthy"] = "place_keys"
  BY DEF Following
<1>4. verb.step = Placing[s]
  BY DEF PlaceStore
<1>5. verb \in RestoreVerbs
  <2>1. CASE s = "state"
    <3>1. verb.step = "place_state"
      BY <1>2, <1>4, <2>1
    <3> QED
      BY <3>1, Kinds DEF TypeOK, HotSteps, ColdSteps
  <2>2. CASE s = "rauthy"
    <3>1. verb.step = "place_rauthy"
      BY <1>2, <1>4, <2>2
    <3> QED
      BY <3>1, Kinds DEF TypeOK, HotSteps, ColdSteps
  <2> QED
    BY <1>1, <2>1, <2>2
<1>6. Following[s] \in RestoreSteps
  BY <1>1, <1>3 DEF RestoreSteps
<1> DEFINE m == verb.got.member[s]
<1>7. verb.got \in HotArchives \cup ColdArchives
  BY <1>5 DEF RestoreVerbs
<1>8. PICK v \in Volumes :
        /\ Place(Following[s], v)
        /\ v.db = vol.db /\ v.wal = vol.wal /\ v.stray = vol.stray
        /\ (m # Absent /\ verb.got.mode = "cold") => v.store[s] = m.holds
        /\ (m # Absent /\ verb.got.mode # "cold") => v.staged[s] = m
        /\ \A t \in Stores \ {s} : v.store[t] = vol.store[t] /\ v.staged[t] = vol.staged[t]
  <2>1. CASE m = Absent
    BY <2>1 DEF PlaceStore, TypeOK
  <2>2. CASE m # Absent /\ verb.got.mode = "cold"
    <3>1. m \in Copies
      BY <1>7, <2>2, ArchiveModes DEF ColdArchives, ArchivesOf
    <3>2. PICK f \in [Stores -> Written] : f = [vol.store EXCEPT ![s] = m.holds]
      BY <3>1 DEF Copies, TypeOK, Volumes
    <3>3. PICK g \in [Stores -> Shots \cup {Absent}] : g = [vol.shot EXCEPT ![s] = m.shot]
      BY <3>1 DEF Copies, TypeOK, Volumes
    <3>4. Replaced(s) = [vol EXCEPT !.store = f, !.shot = g]
      BY <3>2, <3>3 DEF Replaced
    <3>5. PICK v \in Volumes : v = Replaced(s)
      BY <3>2, <3>3, <3>4 DEF TypeOK, Volumes
    <3>6. v.store = f /\ v.staged = vol.staged /\ v.db = vol.db /\ v.wal = vol.wal
          /\ v.stray = vol.stray
      BY <3>4, <3>5 DEF TypeOK, Volumes
    <3>7. Place(Following[s], v)
      BY <2>2, <3>5 DEF PlaceStore
    <3> QED
      BY <2>2, <3>2, <3>6, <3>7 DEF TypeOK, Volumes
  <2>3. CASE m # Absent /\ verb.got.mode # "cold"
    <3>1. m \in Shots
      BY <1>7, <2>3, ArchiveModes DEF HotArchives, ArchivesOf
    <3>2. PICK f \in [Stores -> Shots \cup Copies \cup {Absent}] :
              f = [vol.staged EXCEPT ![s] = m]
      BY <3>1 DEF TypeOK, Volumes
    <3>3. Staged(s) = [vol EXCEPT !.staged = f]
      BY <3>2 DEF Staged
    <3>4. PICK v \in Volumes : v = Staged(s)
      BY <3>2, <3>3 DEF TypeOK, Volumes
    <3>5. v.store = vol.store /\ v.staged = f /\ v.db = vol.db /\ v.wal = vol.wal
          /\ v.stray = vol.stray
      BY <3>3, <3>4 DEF TypeOK, Volumes
    <3>6. Place(Following[s], v)
      BY <2>3, <3>4 DEF PlaceStore
    <3> QED
      BY <2>3, <3>2, <3>5, <3>6 DEF TypeOK, Volumes
  <2> QED
    BY <2>1, <2>2, <2>3
<1>9. RestoreStep /\ verb'.step = Following[s] /\ vol' = v
  BY <1>5, <1>6, <1>8, PlaceIsStep
<1>10. StoreLaid(verb.got, s)'
  BY <1>8, <1>9 DEF StoreLaid, RestoreStep
<1> QED
  BY <1>1, <1>2, <1>3, <1>4, <1>8, <1>9, <1>10

LEMMA PlaceKeysStep ==
    ASSUME TypeOK, PlaceKeys
    PROVE  /\ verb \in RestoreVerbs /\ verb.step = "place_keys" /\ verb' = Idle
           /\ vol' \in Volumes
           /\ vol'.store = vol.store /\ vol'.staged = vol.staged /\ vol'.marked = vol.marked
           /\ vol'.db = vol.db /\ vol'.wal = vol.wal /\ vol'.stray = vol.stray
           /\ verb.quiet =>
                 /\ owed' \in Owes
                 /\ owed'.archive = verb.got /\ owed'.told = Told(verb.got)
                 /\ owed'.again = (Told(verb.got) \cap vol.marked # {})
                 /\ owed'.stray = vol.stray
           /\ ~verb.quiet => owed' = Absent
           /\ UNCHANGED <<cell, env, offer, archive, writes, keys>>
<1>1. verb \in RestoreVerbs
  BY Kinds DEF PlaceKeys, TypeOK, HotSteps, ColdSteps
<1>2. verb.got \in HotArchives \cup ColdArchives /\ verb.got.key \in Nat
  BY <1>1 DEF RestoreVerbs, HotArchives, ColdArchives, ArchivesOf
<1>3. vol' = IF verb.got.key = 0 THEN vol ELSE [vol EXCEPT !.key = verb.got.key]
  BY DEF PlaceKeys
<1>4. PICK v \in Volumes : v = IF verb.got.key = 0 THEN vol ELSE [vol EXCEPT !.key = verb.got.key]
  BY <1>2 DEF TypeOK, Volumes
<1>5. /\ v.store = vol.store /\ v.staged = vol.staged /\ v.marked = vol.marked
      /\ v.db = vol.db /\ v.wal = vol.wal /\ v.stray = vol.stray
  BY <1>4 DEF TypeOK, Volumes
<1>6. Told(verb.got) \in SUBSET Stores /\ vol.stray \in BOOLEAN
  BY DEF Told, TypeOK, Volumes
<1>7. owed' = IF verb.quiet
              THEN [archive |-> verb.got, told |-> Told(verb.got),
                    again |-> Told(verb.got) \cap vol.marked # {}, stray |-> vol.stray]
              ELSE Absent
  BY DEF PlaceKeys
<1>8. PICK b \in BOOLEAN : b = (Told(verb.got) \cap vol.marked # {})
  OBVIOUS
<1>9. CASE verb.quiet
  <2>1. owed' = [archive |-> verb.got, told |-> Told(verb.got), again |-> b,
                 stray |-> vol.stray]
    BY <1>7, <1>8, <1>9
  <2>2. owed' \in Owes
    BY <1>2, <1>6, <1>8, <2>1 DEF Owes
  <2> QED
    BY <1>1, <1>3, <1>4, <1>5, <1>8, <1>9, <2>1, <2>2
    DEF PlaceKeys, RestoreUnmoved, counters
<1>10. CASE ~verb.quiet
  BY <1>1, <1>3, <1>4, <1>5, <1>7, <1>10 DEF PlaceKeys, RestoreUnmoved, counters
<1> QED
  BY <1>9, <1>10

LEMMA StartRestoreStep ==
    ASSUME TypeOK, NEW intact \in BOOLEAN, StartRestore(intact)
    PROVE  /\ verb' \in RestoreVerbs /\ verb'.step = "verify"
           /\ verb'.quiet = (cell = "down")
           /\ UNCHANGED <<cell, vol, env, offer, archive, owed, writes, keys>>
<1>1. [archive EXCEPT !.intact = intact] \in HotArchives \cup ColdArchives
  BY DEF StartRestore, TypeOK, HotArchives, ColdArchives, ArchivesOf
<1>2. PICK b \in BOOLEAN : b = (cell = "down")
  OBVIOUS
<1>3. verb' = [step |-> "verify", got |-> [archive EXCEPT !.intact = intact], quiet |-> b]
  BY <1>2 DEF StartRestore
<1>4. verb' \in RestoreVerbs /\ verb'.step = "verify" /\ verb'.quiet = b
  BY <1>1, <1>2, <1>3 DEF RestoreVerbs, RestoreSteps
<1> QED
  BY <1>2, <1>4 DEF StartRestore

LEMMA VerifyStep ==
    ASSUME TypeOK, Verify
    PROVE  /\ verb' = Idle \/ (/\ verb \in RestoreVerbs /\ verb' \in RestoreVerbs
                               /\ verb'.step = "place_ledger"
                               /\ verb'.got = verb.got /\ verb'.quiet = verb.quiet)
           /\ UNCHANGED <<cell, vol, env, offer, archive, owed, writes, keys>>
<1>1. verb \in RestoreVerbs
  BY Kinds DEF Verify, TypeOK, HotSteps, ColdSteps
<1>2. CASE verb.got.intact
  BY <1>1, <1>2 DEF Verify, RestoreUnmoved, counters, RestoreVerbs, RestoreSteps
<1>3. CASE ~verb.got.intact
  BY <1>3 DEF Verify, RestoreUnmoved, counters
<1> QED
  BY <1>2, <1>3

LEMMA NotCold == \A v \in RestoreVerbs : v \notin ColdVerbs /\ v \notin HotVerbs
  BY DEF RestoreVerbs, ColdVerbs, HotVerbs

LEMMA RestoreType == ASSUME TypeOK, Restore PROVE TypeOK'
<1>1. ASSUME NEW intact \in BOOLEAN, StartRestore(intact)
      PROVE  TypeOK'
  BY <1>1, StartRestoreStep, NotCold DEF TypeOK
<1>2. CASE Verify
  BY <1>2, VerifyStep, NotCold, NoVerb DEF TypeOK
<1>3. ASSUME RestoreStep PROVE TypeOK'
  BY <1>3, NotCold DEF RestoreStep, RestoreUnmoved, TypeOK, counters
<1>4. CASE PlaceKeys
  <2>1. owed' \in {Absent} \cup Owes
    BY <1>4, PlaceKeysStep
  <2> QED
    BY <1>4, <2>1, PlaceKeysStep, NoVerb DEF TypeOK
<1> QED
  BY <1>1, <1>2, <1>3, <1>4, PlaceLedgerStep, PlaceStoreStep DEF Restore

LEMMA TypeInv == ASSUME TypeOK, [Next]_vars PROVE TypeOK'
<1>1. CASE UNCHANGED vars
  BY <1>1 DEF vars, TypeOK
<1> QED
  BY <1>1, ServeType, ContainerType, BackupType, RestoreType DEF Next

-----------------------------------------------------------------------------
(* What the cell does beside a verb. *)

World == Serve \/ Container

LEMMA WorldVerb ==
    ASSUME TypeOK, World
    PROVE  /\ archive' = archive
           /\ verb = Idle => verb' = Idle
           /\ verb \in HotVerbs =>
                 /\ verb' \in HotVerbs /\ verb'.step = verb.step /\ verb'.got = verb.got
                 /\ verb'.new => verb.new \/ vol'.shot["state"] = Sealed("state")
           /\ verb \in ColdVerbs => verb' = verb
           /\ verb \in RestoreVerbs => verb' = verb \/ (verb' \in RestoreVerbs /\ ~verb'.quiet)
<1>1. ASSUME NEW s \in Stores, Cron(s), s = "state", verb.step \in {"take", "name"}
      PROVE  /\ archive' = archive
             /\ verb \in HotVerbs /\ verb' \in HotVerbs
             /\ verb'.step = verb.step /\ verb'.got = verb.got
             /\ vol'.shot["state"] = Sealed("state")
  <2>1. verb \in HotVerbs
    BY <1>1, Kinds DEF TypeOK, ColdSteps, RestoreSteps
  <2>2. verb' = [verb EXCEPT !.new = TRUE] /\ vol' = WithShot(s)
    BY <1>1 DEF Cron
  <2>3. verb' \in HotVerbs /\ verb'.step = verb.step /\ verb'.got = verb.got
    BY <2>1, <2>2 DEF HotVerbs
  <2>4. vol'.shot["state"] = Sealed("state")
    BY <1>1, <2>2, WithShotType DEF TypeOK, Volumes, Stores
  <2> QED
    BY <1>1, <2>1, <2>3, <2>4 DEF Cron
<1>2. ASSUME NEW s \in Stores, Cron(s), ~(s = "state" /\ verb.step \in {"take", "name"})
      PROVE  archive' = archive /\ verb' = verb
  BY <1>2 DEF Cron
<1>3. ASSUME Boot
      PROVE  /\ archive' = archive
             /\ verb \in {Idle} \cup HotVerbs \cup ColdVerbs => verb' = verb
             /\ verb \in RestoreVerbs => verb' \in RestoreVerbs /\ ~verb'.quiet
  BY <1>3, BootVerb DEF Boot
<1>4. ASSUME NEW s \in Stores, Write(s)
      PROVE  archive' = archive /\ verb' = verb
  BY <1>4 DEF Write
<1>5. ASSUME NEW w \in 1..MaxWrites, Decide(w)
      PROVE  archive' = archive /\ verb' = verb
  BY <1>5 DEF Decide
<1>6. ASSUME Checkpoint \/ Minute \/ RauthyWrites \/ StartApp \/ Stop \/ Kill \/ Lose
      PROVE  archive' = archive /\ verb' = verb
  BY <1>6 DEF Checkpoint, Minute, RauthyWrites, StartApp, Stop, Kill, Lose
<1>7. ASSUME NEW stores \in SUBSET Stores, SetEnv(stores)
      PROVE  archive' = archive /\ verb' = verb
  BY <1>7 DEF SetEnv
<1> DEFINE Steady == archive' = archive /\ verb' = verb
<1>8. CASE Steady
  BY <1>8
<1>9. CASE Boot
  BY <1>3, <1>9, NotCold, NoVerb DEF TypeOK
<1>10. ASSUME NEW s \in Stores, Cron(s)
       PROVE  Steady \/ (s = "state" /\ verb.step \in {"take", "name"})
  BY <1>2, <1>10
<1>11. Steady \/ Boot \/ (Cron("state") /\ verb.step \in {"take", "name"})
  <2> HIDE DEF Steady
  <2>1. ASSUME archive' = archive /\ verb' = verb PROVE Steady
    BY <2>1 DEF Steady
  <2> QED
    BY <1>4, <1>5, <1>6, <1>7, <1>10, <2>1 DEF World, Serve, Container
<1>12. CASE Cron("state") /\ verb.step \in {"take", "name"}
  <2>1. verb \in HotVerbs /\ verb # Idle /\ verb \notin RestoreVerbs /\ verb \notin ColdVerbs
    BY <1>1, <1>12, NotCold, NoVerb, ArchiveModes DEF HotVerbs, ColdVerbs, Stores
  <2> QED
    BY <1>1, <1>12, <2>1 DEF Stores
<1> QED
  BY <1>8, <1>9, <1>11, <1>12

(* Beside a verb, a settled cell stays so: its store and its chain only grow, and
   a snapshot of the store is as it was or new. *)
Grows ==
    /\ Settled'
    /\ vol.store["state"] \subseteq vol'.store["state"]
    /\ Chain \subseteq Chain'
    /\ vol'.shot["state"] \in {vol.shot["state"], Sealed("state")}

LEMMA SameGrows ==
    ASSUME Settled, TypeOK, vol'.stray = vol.stray, vol'.marked = vol.marked, env' = env,
           offer' = offer \/ offer' = {}, vol'.store = vol.store, Chain \subseteq Chain',
           vol'.shot["state"] \in {vol.shot["state"], Sealed("state")}
    PROVE  Grows
  BY DEF Grows, Settled

LEMMA WorldGrows == ASSUME TypeOK, World, verb # Idle, Settled PROVE Grows
<1>1. ASSUME NEW s \in Stores, Write(s)
      PROVE  Grows
  <2>1. vol' = [vol EXCEPT !.store[s] = @ \cup {writes + 1}]
    BY <1>1 DEF Write
  <2>2. /\ vol'.store = [vol.store EXCEPT ![s] = @ \cup {writes + 1}]
        /\ vol'.stray = vol.stray /\ vol'.marked = vol.marked /\ vol'.shot = vol.shot
        /\ vol'.db = vol.db /\ vol'.wal = vol.wal
    BY <2>1 DEF TypeOK, Volumes
  <2>3. vol.store["state"] \subseteq vol'.store["state"]
    BY <2>2 DEF TypeOK, Volumes, Stores
  <2>4. UNCHANGED <<env, offer>>
    BY <1>1 DEF Write
  <2> QED
    BY <2>2, <2>3, <2>4 DEF Grows, Settled, Chain
<1>2. ASSUME NEW s \in Stores, vol' = WithShot(s), UNCHANGED <<env, offer>>
      PROVE  Grows
  <2>1. vol'.shot["state"] \in {vol.shot["state"], Sealed("state")}
    BY <1>2, WithShotType DEF TypeOK, Volumes, Stores
  <2> QED
    BY <1>2, <2>1, WithShotType, SameGrows DEF Chain
<1>3. ASSUME NEW w \in 1..MaxWrites, Decide(w)
      PROVE  Grows
  <2>1. PICK l \in Written : l = (IF vol.wal = Absent THEN {} ELSE vol.wal) \cup {w}
    BY <1>3 DEF TypeOK, Volumes, Written
  <2>2. vol' = [vol EXCEPT !.wal = l]
    BY <1>3, <2>1 DEF Decide
  <2>3. /\ vol'.store = vol.store /\ vol'.stray = vol.stray /\ vol'.marked = vol.marked
        /\ vol'.shot = vol.shot /\ vol'.db = vol.db /\ vol'.wal = l
    BY <2>2 DEF TypeOK, Volumes
  <2>4. l # Absent
    BY <2>1, ConstantsOK
  <2>5. Chain \subseteq Chain'
    BY <2>1, <2>3, <2>4 DEF Chain
  <2>6. UNCHANGED <<env, offer>>
    BY <1>3 DEF Decide
  <2> QED
    BY <2>3, <2>5, <2>6, SameGrows
<1>4. ASSUME NEW w \in {{}, Absent}, vol' = Checkpointed(w), env' = env,
             offer' = offer \/ offer' = {}
      PROVE  Grows
  <2>1. Chain \subseteq Chain'
    BY <1>4, CheckpointedType DEF Chain
  <2> QED
    BY <1>4, <2>1, CheckpointedType, SameGrows
<1>5. CASE Checkpoint \/ Stop
  BY <1>4, <1>5 DEF Checkpoint, Stop, Halted
<1>6. CASE Minute \/ Kill
  <2>1. vol' = vol /\ env' = env /\ (offer' = offer \/ offer' = {})
    BY <1>6 DEF Minute, Kill, Halted
  <2> QED
    BY <2>1, SameGrows DEF Chain
<1>7. ASSUME Lose \/ (\E stores \in SUBSET Stores : SetEnv(stores))
      PROVE  FALSE
  BY <1>7 DEF Lose, SetEnv
<1>8. CASE StartApp
  <2>1. offer = {} /\ ~vol.stray
    BY DEF Settled
  <2>2. /\ vol'.store = vol.store /\ vol'.shot = vol.shot /\ vol'.marked = vol.marked
        /\ vol'.db = vol.db /\ vol'.wal = vol.wal
        /\ vol' \in Volumes /\ ~vol'.stray
    BY <1>8, <2>1, StartAppStep
  <2>3. vol'.stray = vol.stray
    BY <2>1, <2>2 DEF TypeOK, Volumes
  <2>4. env' = env /\ offer' = {}
    BY <1>8 DEF StartApp
  <2> QED
    BY <2>2, <2>3, <2>4, SameGrows DEF Chain
<1>9. CASE Boot
  <2>1. PICK v \in Volumes, wanted \in SUBSET Stores, starts \in BOOLEAN :
              /\ wanted = env \ vol.marked
              /\ v.marked = vol.marked \cup env
              /\ v.store = vol.store /\ v.shot = vol.shot
              /\ v.db = vol.db /\ v.wal = vol.wal /\ v.stray = vol.stray
              /\ vol' = IF "rauthy" \in wanted /\ starts THEN Restored(v, "rauthy") ELSE v
              /\ offer' = IF starts THEN wanted ELSE {}
    BY <1>9, BootStep
  <2>2. wanted = {} /\ vol' = v /\ offer' = {} /\ v.marked = vol.marked
    BY <2>1 DEF Settled
  <2>3. env' = env
    BY <1>9 DEF Boot
  <2> QED
    BY <2>1, <2>2, <2>3, SameGrows DEF Chain
<1>10. ASSUME NEW s \in Stores, Cron(s)
       PROVE  Grows
  BY <1>2, <1>10 DEF Cron
<1>11. CASE RauthyWrites
  BY <1>2, <1>11 DEF RauthyWrites, Stores
<1> QED
  BY <1>1, <1>3, <1>5, <1>6, <1>7, <1>8, <1>9, <1>10, <1>11 DEF World, Serve, Container

LEMMA HotGrows == ASSUME TypeOK, HotStep, Settled PROVE Grows
<1>1. UNCHANGED <<env, offer>>
  BY DEF HotStep, BackupUnmoved
<1>2. CASE vol' = vol
  BY <1>1, <1>2, SameGrows DEF Chain
<1>3. CASE vol' = WithShot("state")
  <2>1. vol'.shot["state"] = Sealed("state")
    BY <1>3, WithShotType DEF TypeOK, Volumes, Stores
  <2> QED
    BY <1>1, <1>3, <2>1, WithShotType, SameGrows DEF Chain, Stores
<1> QED
  BY <1>2, <1>3 DEF HotStep

LEMMA ColdGrows == ASSUME TypeOK, ColdStep, Settled PROVE Grows
  BY SameGrows DEF ColdStep, BackupUnmoved, Chain

-----------------------------------------------------------------------------
(* What a backup has, against the volume. *)

BackupInv == Ahead /\ Taking /\ Copying /\ Archived

LEMMA OneKind ==
    /\ \A v \in HotVerbs : v \notin ColdVerbs /\ v \notin RestoreVerbs /\ v # Idle
    /\ \A v \in ColdVerbs : v \notin HotVerbs /\ v \notin RestoreVerbs /\ v # Idle
    /\ \A v \in RestoreVerbs : v \notin HotVerbs /\ v \notin ColdVerbs /\ v # Idle
    /\ Idle \notin HotVerbs /\ Idle \notin ColdVerbs /\ Idle \notin RestoreVerbs
  BY ArchiveModes, NotCold, NoVerb DEF HotVerbs, ColdVerbs

(* With no backup at work there is nothing to show, but for the archive. *)
LEMMA NoBackup ==
    ASSUME Archived, archive' = archive, verb' \notin HotVerbs, verb' \notin ColdVerbs
    PROVE  BackupInv'
  BY DEF BackupInv, Ahead, Taking, Copying, Archived, Current, Decided, Kept

(* A backup that keeps its archive while the volume grows keeps what it has. *)
LEMMA HotKeeps ==
    ASSUME TypeOK, BackupInv, verb \in HotVerbs, verb' \in HotVerbs, archive' = archive,
           verb'.got = verb.got,
           verb'.step = verb.step \/ verb'.step \in {"take", "name"}
               \/ (verb.step = "rauthy" /\ verb'.step = "newest"),
           verb'.new => verb.new \/ vol'.shot["state"] = Sealed("state"),
           Settled => Grows
    PROVE  BackupInv'
<1>1. verb' \notin ColdVerbs
  BY OneKind
<1>2. Archived'
  BY DEF BackupInv, Archived, Current, Decided, Kept
<1>3. CASE ~verb.got.settled
  BY <1>1, <1>2, <1>3 DEF BackupInv, Ahead, Taking, Copying
<1>4. CASE verb.got.settled
  <2>1. /\ Grows
        /\ verb.got.since \subseteq vol.store["state"]
        /\ verb.got.decided \subseteq Chain
    BY <1>4 DEF BackupInv, Ahead
  <2>2. Ahead'
    BY <2>1 DEF Ahead, Grows
  <2>3. Sealed("state") \in Shots /\ Sealed("state").holds = vol.store["state"]
    BY WithShotType DEF Sealed, Stores
  <2>4. ASSUME verb'.new
        PROVE  vol'.shot["state"] # Absent /\ verb.got.since \subseteq vol'.shot["state"].holds
    <3>1. CASE vol'.shot["state"] = Sealed("state")
      BY <2>1, <2>3, <3>1, AbsentApart DEF Shots
    <3>2. CASE vol'.shot["state"] # Sealed("state")
      <4>1. vol'.shot["state"] = vol.shot["state"] /\ verb.new
        BY <2>1, <2>4, <3>2 DEF Grows
      <4> QED
        BY <1>4, <4>1 DEF BackupInv, Taking
    <3> QED
      BY <3>1, <3>2
  <2>5. (verb'.step \in {"rauthy", "newest", "ledger", "keys"}
            /\ "state" \notin verb.got.notes) => Current(verb.got)
    BY <1>4 DEF BackupInv, Taking
  <2>6. verb'.step = "keys" => Decided(verb.got)
    BY <1>4 DEF BackupInv, Taking
  <2>7. Taking'
    BY <2>4, <2>5, <2>6 DEF Taking, Current, Decided, Kept
  <2> QED
    BY <1>1, <1>2, <2>2, <2>7 DEF BackupInv, Copying
<1> QED
  BY <1>3, <1>4

LEMMA WorldBackup == ASSUME TypeOK, BackupInv, World PROVE BackupInv'
<1>1. CASE verb \in HotVerbs
  <2>1. Settled => Grows
    BY <1>1, OneKind, WorldGrows
  <2> QED
    BY <1>1, <2>1, WorldVerb, HotKeeps
<1>2. CASE verb \in ColdVerbs
  <2>1. verb' = verb /\ archive' = archive /\ verb \notin HotVerbs
    BY <1>2, WorldVerb, OneKind
  <2>2. Settled => Grows
    BY <1>2, OneKind, WorldGrows
  <2>3. Ahead'
    BY <1>2, <2>1, <2>2 DEF BackupInv, Ahead, Grows
  <2> QED
    BY <2>1, <2>3 DEF BackupInv, Taking, Copying, Archived, Current, Decided, Kept
<1>3. CASE verb = Idle \/ verb \in RestoreVerbs
  BY <1>3, WorldVerb, OneKind, NoBackup DEF BackupInv
<1> QED
  BY <1>1, <1>2, <1>3 DEF TypeOK

(* A step that captures a member. *)
LEMMA FallbackBackup ==
    ASSUME TypeOK, BackupInv, NEW s \in Stores, Fallback(s)
    PROVE  BackupInv'
<1> DEFINE a == Took(s, TRUE)
<1>1. /\ HotStep /\ vol' = vol /\ verb'.new = verb.new
      /\ verb'.step = HotOrder[s] /\ verb'.got = a
  BY FallbackStep
<1>2. verb \in HotVerbs /\ verb' \in HotVerbs /\ verb' \notin ColdVerbs /\ archive' = archive
  BY <1>1, OneKind DEF HotStep, BackupUnmoved
<1>3. /\ a.since = verb.got.since /\ a.settled = verb.got.settled
      /\ s # "state" => a.member["state"] = verb.got.member["state"]
      /\ a.decided = (IF s = "state" THEN Chain ELSE verb.got.decided)
      /\ a.notes = verb.got.notes \cup {s}
  BY <1>2, TookType
<1>4. Archived'
  BY <1>2 DEF BackupInv, Archived, Current, Decided, Kept
<1>5. CASE ~verb.got.settled
  BY <1>1, <1>2, <1>3, <1>4, <1>5 DEF BackupInv, Ahead, Taking, Copying
<1>6. CASE verb.got.settled
  <2>1. Grows
    BY <1>1, <1>2, <1>6, HotGrows DEF BackupInv, Ahead
  <2>2. Ahead'
    BY <1>1, <1>2, <1>3, <1>6, <2>1 DEF BackupInv, Ahead, Grows
  <2>3. verb'.new => vol'.shot["state"] # Absent /\ a.since \subseteq vol'.shot["state"].holds
    BY <1>1, <1>2, <1>3, <1>6 DEF BackupInv, Taking
  <2>4. ASSUME "state" \notin a.notes
        PROVE  Current(a)
    <3>1. s = "rauthy" /\ "state" \notin verb.got.notes
      BY <1>3, <2>4 DEF Stores
    <3>2. verb.step = "rauthy"
      BY <3>1 DEF Fallback
    <3>3. Current(verb.got)
      BY <1>2, <1>6, <3>1, <3>2 DEF BackupInv, Taking
    <3> QED
      BY <1>3, <3>1, <3>3 DEF Current
  <2>5. verb'.step # "keys"
    BY <1>1 DEF HotOrder, Stores
  <2>6. Taking'
    BY <1>1, <2>3, <2>4, <2>5 DEF Taking, Current
  <2> QED
    BY <1>2, <1>4, <2>2, <2>6 DEF BackupInv, Copying
<1> QED
  BY <1>5, <1>6

LEMMA NameShotBackup == ASSUME TypeOK, BackupInv, NameShot PROVE BackupInv'
<1>1. PICK noted \in BOOLEAN : noted = ~verb.new
  OBVIOUS
<1> DEFINE a == Took("state", noted)
<1>2. /\ HotStep /\ vol' = vol /\ verb'.new = verb.new /\ vol.shot["state"] # Absent
      /\ verb'.step = "rauthy" /\ verb'.got = a
  BY <1>1, NameShotStep
<1>3. verb \in HotVerbs /\ verb' \in HotVerbs /\ verb' \notin ColdVerbs /\ archive' = archive
  BY <1>2, OneKind DEF HotStep, BackupUnmoved
<1>4. /\ a.since = verb.got.since /\ a.settled = verb.got.settled
      /\ a.member["state"] = vol.shot["state"] /\ a.decided = Chain
      /\ a.notes = IF noted THEN verb.got.notes \cup {"state"} ELSE verb.got.notes
  BY <1>3, TookType DEF Stores
<1>5. Archived'
  BY <1>3 DEF BackupInv, Archived, Current, Decided, Kept
<1>6. CASE ~verb.got.settled
  BY <1>2, <1>3, <1>4, <1>5, <1>6 DEF BackupInv, Ahead, Taking, Copying
<1>7. CASE verb.got.settled
  <2>1. Grows
    BY <1>2, <1>3, <1>7, HotGrows DEF BackupInv, Ahead
  <2>2. Ahead'
    BY <1>2, <1>3, <1>4, <1>7, <2>1 DEF BackupInv, Ahead, Grows
  <2>3. verb.new => verb.got.since \subseteq vol.shot["state"].holds
    BY <1>3, <1>7 DEF BackupInv, Taking
  <2>4. "state" \notin a.notes => Current(a)
    BY <1>1, <1>2, <1>4, <2>3 DEF Current
  <2>5. Taking'
    BY <1>2, <1>4, <2>3, <2>4 DEF Taking, Current
  <2> QED
    BY <1>3, <1>5, <2>2, <2>5 DEF BackupInv, Copying
<1> QED
  BY <1>6, <1>7

LEMMA NewestBackup == ASSUME TypeOK, BackupInv, NewestRauthy PROVE BackupInv'
<1> DEFINE a == Took("rauthy", FALSE)
<1>1. /\ HotStep /\ vol' = vol /\ verb'.new = verb.new
      /\ verb.step = "newest" /\ verb'.step = "ledger" /\ verb'.got = a
  BY NewestRauthyStep
<1>2. verb \in HotVerbs /\ verb' \in HotVerbs /\ verb' \notin ColdVerbs /\ archive' = archive
  BY <1>1, OneKind DEF HotStep, BackupUnmoved
<1>3. /\ a.since = verb.got.since /\ a.settled = verb.got.settled
      /\ a.member["state"] = verb.got.member["state"]
      /\ a.decided = verb.got.decided /\ a.notes = verb.got.notes
  BY <1>2, TookType DEF Stores
<1>4. Archived'
  BY <1>2 DEF BackupInv, Archived, Current, Decided, Kept
<1>5. CASE ~verb.got.settled
  BY <1>1, <1>2, <1>3, <1>4, <1>5 DEF BackupInv, Ahead, Taking, Copying
<1>6. CASE verb.got.settled
  <2>1. Grows
    BY <1>1, <1>2, <1>6, HotGrows DEF BackupInv, Ahead
  <2>2. Ahead'
    BY <1>1, <1>2, <1>3, <1>6, <2>1 DEF BackupInv, Ahead, Grows
  <2>3. "state" \notin a.notes => Current(a)
    BY <1>1, <1>2, <1>3, <1>6 DEF BackupInv, Taking, Current
  <2>4. verb'.new => vol'.shot["state"] # Absent /\ a.since \subseteq vol'.shot["state"].holds
    BY <1>1, <1>2, <1>3, <1>6 DEF BackupInv, Taking
  <2>5. Taking'
    BY <1>1, <1>3, <2>3, <2>4 DEF Taking, Current
  <2> QED
    BY <1>2, <1>4, <2>2, <2>5 DEF BackupInv, Copying
<1> QED
  BY <1>5, <1>6

(* The chain is taken last, when whatever was decided by then is on it. *)
LEMMA VacuumBackup == ASSUME TypeOK, BackupInv, Vacuum PROVE BackupInv'
<1>1. /\ HotStep /\ vol' = vol /\ verb'.new = verb.new
      /\ verb.step = "ledger" /\ verb'.step = "keys"
      /\ verb'.got.ledger = [db |-> Chain, wal |-> Absent]
      /\ verb'.got.since = verb.got.since /\ verb'.got.settled = verb.got.settled
      /\ verb'.got.decided = verb.got.decided /\ verb'.got.notes = verb.got.notes
      /\ verb'.got.member = verb.got.member
  BY VacuumStep
<1>2. verb \in HotVerbs /\ verb' \in HotVerbs /\ verb' \notin ColdVerbs /\ archive' = archive
  BY <1>1, OneKind DEF HotStep, BackupUnmoved
<1>3. Archived'
  BY <1>2 DEF BackupInv, Archived, Current, Decided, Kept
<1>4. CASE ~verb.got.settled
  BY <1>1, <1>2, <1>3, <1>4 DEF BackupInv, Ahead, Taking, Copying
<1>5. CASE verb.got.settled
  <2>1. Grows
    BY <1>1, <1>2, <1>5, HotGrows DEF BackupInv, Ahead
  <2>2. Ahead'
    BY <1>1, <1>2, <1>5, <2>1 DEF BackupInv, Ahead, Grows
  <2>3. "state" \notin verb'.got.notes => Current(verb'.got)
    BY <1>1, <1>2, <1>5 DEF BackupInv, Taking, Current
  <2>4. verb'.new => vol'.shot["state"] # Absent
                     /\ verb'.got.since \subseteq vol'.shot["state"].holds
    BY <1>1, <1>2, <1>5 DEF BackupInv, Taking
  <2>5. Decided(verb'.got)
    BY <1>1, <1>2, <1>5 DEF BackupInv, Ahead, Decided, Kept
  <2>6. Taking'
    BY <2>3, <2>4, <2>5 DEF Taking, Current, Decided, Kept
  <2> QED
    BY <1>2, <1>3, <2>2, <2>6 DEF BackupInv, Copying
<1> QED
  BY <1>4, <1>5

LEMMA TakingBackup ==
    ASSUME TypeOK, BackupInv, ListBefore \/ TakeShot \/ PostRauthy
    PROVE  BackupInv'
<1>1. /\ HotStep /\ verb'.got = verb.got
      /\ verb'.step \in {"take", "name"} \/ (verb.step = "rauthy" /\ verb'.step = "newest")
  BY ListBeforeStep, TakeShotStep, PostRauthyStep
<1>2. verb'.new => verb.new \/ vol'.shot["state"] = Sealed("state")
  <2>1. CASE ListBefore \/ PostRauthy
    BY <2>1, ListBeforeStep, PostRauthyStep
  <2>2. CASE TakeShot
    <3>1. ASSUME vol' = WithShot("state") PROVE vol'.shot["state"] = Sealed("state")
      BY <3>1, WithShotType DEF TypeOK, Volumes, Stores
    <3> QED
      BY <2>2, <3>1, TakeShotStep
  <2> QED
    BY <2>1, <2>2
<1>3. Settled => Grows
  BY <1>1, HotGrows
<1>4. verb \in HotVerbs /\ verb' \in HotVerbs /\ archive' = archive
  BY <1>1 DEF HotStep, BackupUnmoved
<1> QED
  BY <1>1, <1>2, <1>3, <1>4, HotKeeps

(* A step of a cold backup that leaves the store's own member to a later one. *)
LEMMA ColdKeeps ==
    ASSUME TypeOK, BackupInv, ColdStep,
           verb'.got.since = verb.got.since, verb'.got.settled = verb.got.settled,
           verb'.got.decided = verb.got.decided,
           (verb.got.settled /\ verb'.step \in {"rauthy_directory", "keys"}
                /\ "state" \notin verb'.got.notes) => Current(verb'.got)
    PROVE  BackupInv'
<1>1. /\ verb \in ColdVerbs /\ verb' \in ColdVerbs /\ verb' \notin HotVerbs
      /\ archive' = archive
  BY OneKind DEF ColdStep, BackupUnmoved
<1>2. Archived'
  BY <1>1 DEF BackupInv, Archived, Current, Decided, Kept
<1>3. ASSUME verb.got.settled PROVE Ahead'
  <2>1. Grows
    BY <1>1, <1>3, ColdGrows DEF BackupInv, Ahead
  <2> QED
    BY <1>1, <1>3, <2>1 DEF BackupInv, Ahead, Grows
<1>4. Ahead'
  BY <1>3 DEF Ahead
<1>5. Copying'
  BY DEF Copying, Current
<1> QED
  BY <1>1, <1>2, <1>4, <1>5 DEF BackupInv, Taking

LEMMA ColdBackup ==
    ASSUME TypeOK, BackupInv, CopyDb \/ CopyWal
    PROVE  BackupInv'
<1>1. /\ ColdStep /\ verb'.step \in {"wal", "state_directory"}
      /\ verb'.got.since = verb.got.since /\ verb'.got.settled = verb.got.settled
      /\ verb'.got.decided = verb.got.decided
  BY CopyDbStep, CopyWalStep
<1> QED
  BY <1>1, ColdKeeps

LEMMA DirectoryBackup ==
    ASSUME TypeOK, BackupInv, NEW s \in Stores, CopyDirectory(s)
    PROVE  BackupInv'
<1>1. /\ ColdStep
      /\ verb'.got.since = verb.got.since /\ verb'.got.settled = verb.got.settled
      /\ verb'.got.decided = verb.got.decided
      /\ s = "state" => /\ Made => verb'.got.member["state"] = Copied("state")
                        /\ ~Made => "state" \in verb'.got.notes
      /\ s = "rauthy" => /\ verb.step = "rauthy_directory"
                         /\ verb'.got.member["state"] = verb.got.member["state"]
                         /\ verb.got.notes \subseteq verb'.got.notes
  BY CopyDirectoryStep
<1>2. ASSUME verb.got.settled, "state" \notin verb'.got.notes
      PROVE  Current(verb'.got)
  <2>1. CASE s = "state"
    <3>1. verb'.got.member["state"] = Copied("state")
      BY <1>1, <1>2, <2>1
    <3>2. Copied("state") \in Copies /\ Copied("state").holds = vol.store["state"]
      BY <1>1, CopyTypes DEF ColdStep, Copied, Stores
    <3>3. Copied("state") # Absent
      BY <3>2, AbsentApart DEF Copies, Shots
    <3>4. verb.got.since \subseteq vol.store["state"]
      BY <1>1, <1>2 DEF BackupInv, Ahead, ColdStep
    <3> QED
      BY <1>1, <3>1, <3>2, <3>3, <3>4 DEF Current
  <2>2. CASE s = "rauthy"
    <3>1. Current(verb.got)
      BY <1>1, <1>2, <2>2 DEF BackupInv, Copying, ColdStep
    <3> QED
      BY <1>1, <2>2, <3>1 DEF Current
  <2> QED
    BY <2>1, <2>2 DEF Stores
<1> QED
  BY <1>1, <1>2, ColdKeeps

(* A backup begins with nothing taken, on the cell as it is. *)
LEMMA StartBackup ==
    ASSUME TypeOK, BackupInv,
           StartCold \/ \E session, apiKey \in BOOLEAN : StartHot(session, apiKey)
    PROVE  BackupInv'
<1>1. PICK mode \in {"hot", "cold"} :
        /\ verb'.got = NewArchive(mode)
        /\ mode = "hot" => verb' \in HotVerbs /\ verb'.step = "state" /\ ~verb'.new
        /\ mode = "cold" => verb' \in ColdVerbs /\ verb'.step = "db"
        /\ UNCHANGED <<vol, env, offer, archive>>
  BY StartHotStep, StartColdStep
<1>2. /\ verb'.got.since = vol.store["state"]
      /\ verb'.got.settled = Settled
      /\ verb'.got.decided = {}
  BY <1>1, NewArchiveType
<1>3. Ahead'
  BY <1>1, <1>2 DEF Ahead, Settled
<1>4. Taking' /\ Copying'
  BY <1>1, OneKind DEF Taking, Copying
<1>5. Archived'
  BY <1>1 DEF BackupInv, Archived, Current, Decided, Kept
<1> QED
  BY <1>3, <1>4, <1>5 DEF BackupInv

LEMMA WriteBackup == ASSUME TypeOK, BackupInv, CopyKeysAndWrite PROVE BackupInv'
<1>1. /\ verb \in HotVerbs \cup ColdVerbs /\ verb.step = "keys"
      /\ archive'.mode = verb.got.mode /\ archive'.member = verb.got.member
      /\ archive'.ledger = verb.got.ledger /\ archive'.since = verb.got.since
      /\ archive'.decided = verb.got.decided /\ archive'.settled = verb.got.settled
      /\ verb.got.notes \subseteq archive'.notes
  BY WriteStep
<1>2. verb' = Idle
  BY DEF CopyKeysAndWrite
<1>3. ASSUME archive'.settled, "state" \notin archive'.notes
      PROVE  Current(archive')
  <2>1. Current(verb.got)
    BY <1>1, <1>3 DEF BackupInv, Taking, Copying
  <2> QED
    BY <1>1, <2>1 DEF Current
<1>4. ASSUME archive'.settled, archive'.mode = "hot"
      PROVE  Decided(archive')
  <2>1. verb \in HotVerbs
    BY <1>1, <1>4, Kinds
  <2>2. Decided(verb.got)
    BY <1>1, <1>4, <2>1 DEF BackupInv, Taking
  <2> QED
    BY <1>1, <2>2 DEF Decided, Kept
<1>5. Archived'
  BY <1>3, <1>4 DEF Archived, Current, Decided, Kept
<1> QED
  BY <1>2, <1>5, OneKind DEF BackupInv, Ahead, Taking, Copying

LEMMA BackupKeeps == ASSUME TypeOK, BackupInv, Backup PROVE BackupInv'
<1>1. CASE Abandon
  BY <1>1, OneKind, NoBackup DEF Abandon, BackupUnmoved, BackupInv
<1> QED
  BY <1>1, FallbackBackup, NameShotBackup, NewestBackup, VacuumBackup, TakingBackup,
     ColdBackup, DirectoryBackup, StartBackup, WriteBackup
  DEF Backup

LEMMA RestoreKeeps == ASSUME TypeOK, BackupInv, Restore PROVE BackupInv'
<1>1. archive' = archive
  BY PlaceKeysStep, StartRestoreStep, VerifyStep, PlaceLedgerStep, PlaceStoreStep
  DEF Restore, RestoreStep, RestoreUnmoved
<1>2. verb' = Idle \/ verb' \in RestoreVerbs
  BY PlaceKeysStep, StartRestoreStep, VerifyStep, PlaceLedgerStep, PlaceStoreStep
  DEF Restore, RestoreStep
<1> QED
  BY <1>1, <1>2, OneKind, NoBackup DEF BackupInv

LEMMA BackupNext == ASSUME TypeOK, BackupInv, [Next]_vars PROVE BackupInv'
<1>1. CASE UNCHANGED vars
  BY <1>1 DEF vars, BackupInv, Ahead, Taking, Copying, Archived, Current, Decided, Kept,
     Settled, Chain
<1> QED
  BY <1>1, WorldBackup, BackupKeeps, RestoreKeeps DEF Next, World

-----------------------------------------------------------------------------
(* What a restore has placed, against the volume. *)

RestoreInv == Placed /\ Owing

(* Nothing of the cell moves while it is down. *)
LEMMA DownIsStill ==
    ASSUME World, cell = "down"
    PROVE  Boot \/ Lose \/ UNCHANGED <<cell, vol, offer, verb, owed>>
<1>1. ASSUME NEW s \in Stores, Write(s) \/ Cron(s) PROVE FALSE
  BY <1>1 DEF Write, Cron, Runs
<1>2. ASSUME NEW w \in 1..MaxWrites, Decide(w) PROVE FALSE
  BY <1>2 DEF Decide
<1>3. ASSUME Checkpoint \/ RauthyWrites \/ StartApp \/ Stop \/ Kill PROVE FALSE
  BY <1>3 DEF Checkpoint, RauthyWrites, StartApp, Stop, Kill
<1>4. ASSUME Minute \/ \E stores \in SUBSET Stores : SetEnv(stores)
      PROVE  UNCHANGED <<cell, vol, offer, verb, owed>>
  BY <1>4 DEF Minute, SetEnv
<1> QED
  BY <1>1, <1>2, <1>3, <1>4 DEF World, Serve, Container

LEMMA WorldPlaced == ASSUME TypeOK, Placed, World PROVE Placed'
<1>1. SUFFICES ASSUME verb' \in RestoreVerbs, verb'.quiet
               PROVE  Placed'
  BY DEF Placed
<1>2. verb' = verb
  BY <1>1, WorldVerb, OneKind DEF TypeOK
<1>3. cell = "down"
  BY <1>1, <1>2 DEF Placed
<1>4. ~Boot
  <2>1. ASSUME Boot PROVE FALSE
    BY <1>1, <1>2, <2>1, BootVerb
  <2> QED
    BY <2>1
<1>5. ~Lose
  BY <1>1, <1>2, OneKind DEF Lose
<1>6. UNCHANGED <<cell, vol, verb>>
  BY <1>3, <1>4, <1>5, DownIsStill
<1> QED
  BY <1>1, <1>6 DEF Placed, LedgerLaid, StoreLaid, Chain

LEMMA RestorePlaced == ASSUME TypeOK, Placed, Restore PROVE Placed'
<1>1. ASSUME NEW intact \in BOOLEAN, StartRestore(intact)
      PROVE  Placed'
  BY <1>1, StartRestoreStep DEF Placed
<1>2. CASE Verify
  BY <1>2, VerifyStep, OneKind DEF Placed
<1>3. CASE PlaceKeys
  BY <1>3, PlaceKeysStep, OneKind DEF Placed
<1>4. CASE PlaceLedger
  <2>1. /\ RestoreStep /\ verb'.step = "place_state"
        /\ verb.got.ledger # Absent => /\ verb.got.ledger \in Ledgers
                                       /\ vol' = Laid(verb.got.ledger)
    BY <1>4, PlaceLedgerStep
  <2>2. LedgerLaid(verb.got)'
    <3>1. SUFFICES ASSUME verb'.got.ledger # Absent, ~vol'.stray
                   PROVE  Chain' = Kept(verb'.got.ledger)
      BY DEF LedgerLaid, Kept
    <3>2. PICK l \in Ledgers : l = verb.got.ledger
      BY <2>1, <3>1 DEF RestoreStep
    <3>3. vol' = Laid(l) /\ verb'.got.ledger = l
      BY <2>1, <3>1, <3>2 DEF RestoreStep
    <3>4. /\ vol'.db = l.db /\ vol'.wal = (IF l.wal = Absent THEN vol.wal ELSE l.wal)
          /\ ~(l.wal = Absent /\ vol.wal # Absent)
      BY <3>1, <3>3, LaidType
    <3> QED
      BY <3>3, <3>4 DEF Chain, Kept
  <2>3. verb'.quiet => cell' = "down"
    BY <2>1 DEF Placed, RestoreStep, RestoreUnmoved
  <2> QED
    BY <2>1, <2>2, <2>3 DEF Placed, LedgerLaid, RestoreStep
<1>5. ASSUME NEW s \in Stores, PlaceStore(s)
      PROVE  Placed'
  <2>1. /\ RestoreStep
        /\ s = "state" => verb.step = "place_state" /\ verb'.step = "place_rauthy"
        /\ s = "rauthy" => verb.step = "place_rauthy" /\ verb'.step = "place_keys"
        /\ vol'.db = vol.db /\ vol'.wal = vol.wal /\ vol'.stray = vol.stray
        /\ StoreLaid(verb.got, s)'
        /\ \A t \in Stores \ {s} :
               vol'.store[t] = vol.store[t] /\ vol'.staged[t] = vol.staged[t]
    BY <1>5, PlaceStoreStep
  <2>2. SUFFICES ASSUME verb'.quiet PROVE Placed'
    BY DEF Placed
  <2>3. /\ verb \in RestoreVerbs /\ verb.quiet /\ verb'.got = verb.got
        /\ cell' = cell
    BY <2>1, <2>2 DEF RestoreStep, RestoreUnmoved
  <2>4. cell = "down" /\ LedgerLaid(verb.got)
    BY <2>1, <2>3 DEF Placed, Stores
  <2>5. LedgerLaid(verb.got)'
    BY <2>1, <2>3, <2>4 DEF LedgerLaid, Chain, Kept
  <2>6. CASE s = "state"
    <3>1. StoreLaid(verb.got, "state")'
      BY <2>1, <2>3, <2>6 DEF StoreLaid
    <3> QED
      BY <2>1, <2>3, <2>4, <2>5, <2>6, <3>1 DEF Placed, LedgerLaid, StoreLaid
  <2>7. CASE s = "rauthy"
    <3>1. StoreLaid(verb.got, "state")
      BY <2>1, <2>3, <2>7 DEF Placed
    <3>2. vol'.store["state"] = vol.store["state"] /\ vol'.staged["state"] = vol.staged["state"]
      BY <2>1, <2>7 DEF Stores
    <3>3. StoreLaid(verb.got, "state")' /\ StoreLaid(verb.got, "rauthy")'
      BY <2>1, <2>3, <2>7, <3>1, <3>2 DEF StoreLaid
    <3> QED
      BY <2>3, <2>4, <2>5, <3>3 DEF Placed, LedgerLaid, StoreLaid
  <2> QED
    BY <2>6, <2>7 DEF Stores
<1> QED
  BY <1>1, <1>2, <1>3, <1>4, <1>5 DEF Restore

(* What is owed stays on the volume while neither store nor ledger moves. *)
LEMMA StillOwing ==
    ASSUME Owing, owed' = owed \/ owed' = Absent,
           owed # Absent => /\ cell' = cell /\ offer' = offer
                            /\ vol'.store = vol.store /\ vol'.staged = vol.staged
                            /\ vol'.db = vol.db /\ vol'.wal = vol.wal
                            /\ vol'.stray = vol.stray /\ vol'.marked = vol.marked
    PROVE  Owing'
<1>1. SUFFICES ASSUME owed' # Absent PROVE Owing'
  BY DEF Owing
<1>2. /\ owed' = owed /\ owed # Absent /\ cell' = cell /\ offer' = offer
      /\ vol'.store = vol.store /\ vol'.staged = vol.staged
      /\ vol'.db = vol.db /\ vol'.wal = vol.wal
      /\ vol'.stray = vol.stray /\ vol'.marked = vol.marked
  BY <1>1
<1>3. Chain' = Chain
  BY <1>2 DEF Chain
<1> DEFINE a == owed.archive
<1>4. LedgerLaid(a)' <=> LedgerLaid(a)
  BY <1>2, <1>3 DEF LedgerLaid, Kept
<1>5. /\ StoreLaid(a, "state")' <=> StoreLaid(a, "state")
      /\ StoreLaid(a, "rauthy")' <=> StoreLaid(a, "rauthy")
  BY <1>2 DEF StoreLaid
<1>6. Told(a)' = Told(a)
  BY <1>2 DEF Told
<1> QED
  BY <1>2, <1>4, <1>5, <1>6 DEF Owing

LEMMA BootOwing == ASSUME TypeOK, Owing, Boot PROVE Owing'
<1>1. SUFFICES ASSUME owed' # Absent PROVE Owing'
  BY DEF Owing
<1>2. cell = "down"
  BY DEF Boot
<1>3. PICK v \in Volumes, wanted \in SUBSET Stores, starts \in BOOLEAN :
              /\ wanted = env \ vol.marked
              /\ v.store = vol.store /\ v.staged = vol.staged
              /\ v.db = vol.db /\ v.wal = vol.wal /\ v.stray = vol.stray
              /\ ("rauthy" \in wanted /\ starts) => vol.staged["rauthy"] # Absent
              /\ vol' = IF "rauthy" \in wanted /\ starts THEN Restored(v, "rauthy") ELSE v
              /\ cell' = IF starts THEN "identity" ELSE "down"
              /\ offer' = IF starts THEN wanted ELSE {}
              /\ owed' = IF starts /\ owed # Absent /\ owed.told = env THEN owed ELSE Absent
  BY BootStep
<1>4. owed' = owed /\ owed # Absent /\ owed.told = env /\ cell' = "identity" /\ offer' = wanted
  BY <1>1, <1>3
<1>5. /\ vol'.staged = vol.staged /\ vol'.db = vol.db /\ vol'.wal = vol.wal
      /\ vol'.stray = vol.stray
      /\ "rauthy" \notin wanted => vol'.store = vol.store
      /\ "rauthy" \in wanted =>
            vol'.store = [vol.store EXCEPT !["rauthy"] = vol.staged["rauthy"].holds]
  BY <1>1, <1>3, RestoredType DEF Stores
<1> DEFINE a == owed.archive
<1>6. /\ owed.told = Told(a) /\ owed.stray = vol.stray
      /\ LedgerLaid(a) /\ StoreLaid(a, "state") /\ StoreLaid(a, "rauthy")
      /\ ~owed.again => owed.told \cap vol.marked = {}
  BY <1>2, <1>4 DEF Owing
<1>7. LedgerLaid(a)'
  BY <1>4, <1>5, <1>6 DEF LedgerLaid, Chain, Kept
<1>8. a.mode = "cold" => owed.told = {}
  BY <1>6 DEF Told
<1>9. /\ vol'.store["state"] = vol.store["state"]
      /\ "rauthy" \in wanted => vol'.store["rauthy"] = vol.staged["rauthy"].holds
      /\ "rauthy" \notin wanted => vol'.store["rauthy"] = vol.store["rauthy"]
  BY <1>5 DEF TypeOK, Volumes, Stores
<1>10. a.mode = "cold" => wanted = {}
  BY <1>3, <1>4, <1>8
<1>11. StoreLaid(a, "state")' /\ StoreLaid(a, "rauthy")'
  BY <1>4, <1>5, <1>6, <1>9, <1>10 DEF StoreLaid
<1>12. ASSUME ~owed.again
       PROVE  /\ offer' = owed.told
              /\ "rauthy" \in owed.told => vol'.store["rauthy"] = a.member["rauthy"].holds
  <2>1. wanted = owed.told
    BY <1>3, <1>4, <1>6, <1>12
  <2>2. ASSUME "rauthy" \in owed.told
        PROVE  vol'.store["rauthy"] = a.member["rauthy"].holds
    <3>1. a.mode # "cold" /\ a.member["rauthy"] # Absent
      BY <1>6, <2>2 DEF Told
    <3>2. vol.staged["rauthy"] = a.member["rauthy"]
      BY <1>6, <3>1 DEF StoreLaid
    <3> QED
      BY <1>9, <2>1, <2>2, <3>2
  <2> QED
    BY <1>4, <2>1, <2>2
<1>13. Told(a)' = Told(a)
  BY <1>4 DEF Told
<1> QED
  BY <1>4, <1>5, <1>6, <1>7, <1>11, <1>12, <1>13 DEF Owing

LEMMA WorldOwing == ASSUME TypeOK, Owing, World PROVE Owing'
<1>1. CASE cell = "down"
  <2>1. CASE Boot
    BY <2>1, BootOwing
  <2>2. CASE Lose
    BY <2>2, StillOwing DEF Lose, Owing
  <2>3. CASE UNCHANGED <<cell, vol, offer, verb, owed>>
    BY <2>3, StillOwing
  <2> QED
    BY <1>1, <2>1, <2>2, <2>3, DownIsStill
<1>2. CASE owed' = Absent
  BY <1>2 DEF Owing
<1>3. CASE cell # "down" /\ owed' # Absent
  <2>1. ASSUME NEW s \in Stores, Write(s)
        PROVE  cell = "up" /\ owed' = owed
    BY <2>1 DEF Write
  <2>2. ASSUME NEW w \in 1..MaxWrites, Decide(w)
        PROVE  cell = "up" /\ owed' = owed
    BY <2>2 DEF Decide
  <2>3. ASSUME Checkpoint
        PROVE  cell = "up" /\ owed' = owed
    BY <2>3 DEF Checkpoint
  <2>4. ASSUME NEW s \in Stores, vol' = WithShot(s), UNCHANGED <<cell, offer, owed>>
        PROVE  Owing'
    BY <2>4, WithShotType, StillOwing
  <2>5. ASSUME NEW s \in Stores, Cron(s)
        PROVE  Owing'
    BY <2>4, <2>5 DEF Cron
  <2>6. CASE RauthyWrites
    BY <2>4, <2>6 DEF RauthyWrites, Stores
  <2>7. CASE Minute
    BY <2>7, StillOwing DEF Minute
  <2>8. ASSUME Boot \/ StartApp \/ Stop \/ Kill \/ Lose \/ \E e \in SUBSET Stores : SetEnv(e)
        PROVE  FALSE
    BY <1>3, <2>8 DEF Boot, StartApp, Stop, Kill, Halted, Lose, SetEnv
  <2>9. CASE cell = "up" /\ owed' = owed
    BY <1>3, <2>9 DEF Owing
  <2> QED
    BY <2>1, <2>2, <2>3, <2>5, <2>6, <2>7, <2>8, <2>9 DEF World, Serve, Container
<1> QED
  BY <1>1, <1>2, <1>3

LEMMA BackupOwing == ASSUME TypeOK, Owing, Backup PROVE Owing' /\ verb' \notin RestoreVerbs
<1>1. ASSUME NEW session \in BOOLEAN, NEW apiKey \in BOOLEAN, StartHot(session, apiKey)
      PROVE  Owing' /\ verb' \notin RestoreVerbs
  BY <1>1, StartHotStep, StillOwing, OneKind
<1>2. CASE StartCold
  BY <1>2, StartColdStep, StillOwing, OneKind
<1>3. ASSUME HotStep PROVE Owing' /\ verb' \notin RestoreVerbs
  <2>1. UNCHANGED <<cell, offer, owed>>
    BY <1>3 DEF HotStep, BackupUnmoved
  <2>2. CASE vol' = vol
    BY <1>3, <2>1, <2>2, StillOwing, OneKind DEF HotStep
  <2>3. CASE vol' = WithShot("state")
    BY <1>3, <2>1, <2>3, WithShotType, StillOwing, OneKind DEF HotStep, Stores
  <2> QED
    BY <1>3, <2>2, <2>3 DEF HotStep
<1>4. ASSUME ColdStep PROVE Owing' /\ verb' \notin RestoreVerbs
  BY <1>4, StillOwing, OneKind DEF ColdStep, BackupUnmoved
<1>5. CASE CopyKeysAndWrite \/ Abandon
  BY <1>5, StillOwing, OneKind DEF CopyKeysAndWrite, Abandon, BackupUnmoved
<1> QED
  BY <1>1, <1>2, <1>3, <1>4, <1>5, FallbackStep, CopyDirectoryStep, ListBeforeStep,
     TakeShotStep, NameShotStep, PostRauthyStep, NewestRauthyStep, VacuumStep, CopyDbStep,
     CopyWalStep
  DEF Backup

LEMMA RestoreOwing == ASSUME TypeOK, Placed, Owing, Restore PROVE Owing'
<1>1. ASSUME NEW intact \in BOOLEAN, StartRestore(intact)
      PROVE  Owing'
  BY <1>1, StartRestoreStep, StillOwing
<1>2. CASE Verify
  BY <1>2, VerifyStep, StillOwing
<1>3. ASSUME RestoreStep PROVE Owing'
  BY <1>3 DEF RestoreStep, Owing
<1>4. CASE PlaceKeys /\ ~verb.quiet
  BY <1>4, PlaceKeysStep DEF Owing
<1>5. CASE PlaceKeys /\ verb.quiet
  <2> DEFINE a == verb.got
  <2>1. /\ cell = "down" /\ LedgerLaid(a) /\ StoreLaid(a, "state") /\ StoreLaid(a, "rauthy")
    BY <1>5, PlaceKeysStep DEF Placed
  <2>2. /\ vol'.store = vol.store /\ vol'.staged = vol.staged /\ vol'.marked = vol.marked
        /\ vol'.db = vol.db /\ vol'.wal = vol.wal /\ vol'.stray = vol.stray
        /\ owed'.archive = a /\ owed'.told = Told(a)
        /\ owed'.again = (Told(a) \cap vol.marked # {})
        /\ owed'.stray = vol.stray /\ cell' = cell
    BY <1>5, PlaceKeysStep
  <2>5. Told(owed.archive)' = Told(a)
    BY <2>2 DEF Told
  <2>6. LedgerLaid(owed.archive)'
    BY <2>1, <2>2 DEF LedgerLaid, Chain, Kept
  <2>7. StoreLaid(owed.archive, "state")' /\ StoreLaid(owed.archive, "rauthy")'
    BY <2>1, <2>2 DEF StoreLaid
  <2> QED
    BY <2>1, <2>2, <2>5, <2>6, <2>7 DEF Owing
<1> QED
  BY <1>1, <1>2, <1>3, <1>4, <1>5, PlaceLedgerStep, PlaceStoreStep DEF Restore

LEMMA RestoreNext == ASSUME TypeOK, RestoreInv, [Next]_vars PROVE RestoreInv'
<1>1. CASE UNCHANGED vars
  BY <1>1, StillOwing DEF vars, RestoreInv, Placed, LedgerLaid, StoreLaid, Chain, Kept
<1>2. CASE World
  BY <1>2, WorldPlaced, WorldOwing DEF RestoreInv
<1>3. CASE Backup
  BY <1>3, BackupOwing DEF RestoreInv, Placed
<1>4. CASE Restore
  BY <1>4, RestorePlaced, RestoreOwing DEF RestoreInv
<1> QED
  BY <1>1, <1>2, <1>3, <1>4 DEF Next, World

-----------------------------------------------------------------------------
(***************************************************************************)
(* The invariant, of every behaviour.                                      *)
(***************************************************************************)
LEMMA InitInv == Init => TypeOK /\ BackupInv /\ RestoreInv
<1> SUFFICES ASSUME Init PROVE TypeOK /\ BackupInv /\ RestoreInv
  OBVIOUS
<1>1. TypeOK
  BY FreshType, OneKind, ConstantsOK DEF Init, TypeOK
<1>2. Ahead /\ Taking /\ Copying /\ Placed
  BY OneKind DEF Init, Ahead, Taking, Copying, Placed
<1>3. Owing
  BY DEF Init, Owing
<1>4. Archived
  BY DEF Init, Archived
<1> QED
  BY <1>1, <1>2, <1>3, <1>4 DEF BackupInv, RestoreInv

THEOREM Invariance == Spec => [](TypeOK /\ BackupInv /\ RestoreInv)
<1>1. TypeOK /\ BackupInv /\ RestoreInv /\ [Next]_vars => (TypeOK /\ BackupInv /\ RestoreInv)'
  BY TypeInv, BackupNext, RestoreNext
<1> QED
  BY InitInv, <1>1, PTL DEF Spec

-----------------------------------------------------------------------------
(* A hot archive taken of a settled cell is never without a Decision that had
   been recorded when its resource member was taken: backup.mjs takes the
   snapshot first and the ledger last. *)
THEOREM SkewShows == Spec => []SkewVisible
<1>1. TypeOK /\ BackupInv /\ RestoreInv => SkewVisible
  BY DEF BackupInv, Archived, Decided, SkewVisible, Current
<1> QED
  BY Invariance, <1>1, PTL

(* An archive of a settled cell whose notes are silent about the resource
   member has every write made before the verb began. *)
THEOREM StalenessSaid == Spec => []NeverSilentlyStale
<1>1. TypeOK /\ BackupInv /\ RestoreInv => NeverSilentlyStale
  BY DEF BackupInv, Archived, Current, NeverSilentlyStale
<1> QED
  BY Invariance, <1>1, PTL

(* The app opens its store and the ledger: what a restore owes is there. *)
LEMMA OwedIsServed ==
    ASSUME TypeOK, Owing, StartApp, ComesUp, ~owed.again, ~owed.stray
    PROVE  Holds(vol', owed.archive)
<1> DEFINE a == owed.archive
<1>1. /\ owed \in Owes /\ owed # Absent /\ cell = "identity" /\ cell' = "up"
      /\ a \in HotArchives \cup ColdArchives
  BY DEF TypeOK, ComesUp, Owes
<1>2. /\ offer = Told(a) /\ ~vol.stray
      /\ LedgerLaid(a) /\ StoreLaid(a, "state") /\ StoreLaid(a, "rauthy")
      /\ "rauthy" \in Told(a) => vol.store["rauthy"] = a.member["rauthy"].holds
  BY <1>1 DEF Owing
<1>3. /\ vol'.db = vol.db /\ vol'.wal = vol.wal
      /\ "state" \notin offer => vol'.store = vol.store
      /\ "state" \in offer =>
             vol'.store = [vol.store EXCEPT !["state"] = vol.staged["state"].holds]
  BY <1>1, <1>2, StartAppStep
<1>4. a.ledger # Absent =>
          vol'.db \cup (IF vol'.wal = Absent THEN {} ELSE vol'.wal) = Kept(a.ledger)
  BY <1>2, <1>3 DEF LedgerLaid, Chain
<1>5. vol.store \in [Stores -> Written]
  BY DEF TypeOK, Volumes
<1>6. CASE a.mode = "cold"
  <2>1. offer = {}
    BY <1>2, <1>6 DEF Told
  <2>2. \A s \in Stores : a.member[s] # Absent => vol'.store[s] = a.member[s].holds
    BY <1>2, <1>3, <1>6, <2>1 DEF StoreLaid, Stores
  <2> QED
    BY <1>4, <2>2 DEF Holds
<1>7. CASE a.mode # "cold"
  <2>1. offer = {s \in Stores : a.member[s] # Absent}
    BY <1>2, <1>7 DEF Told
  <2>2. a.member["state"] # Absent => vol'.store["state"] = a.member["state"].holds
    BY <1>2, <1>3, <1>5, <1>7, <2>1 DEF StoreLaid, Stores
  <2>3. vol'.store["rauthy"] = vol.store["rauthy"]
    BY <1>3, <1>5 DEF Stores
  <2>4. a.member["rauthy"] # Absent => vol'.store["rauthy"] = a.member["rauthy"].holds
    BY <1>2, <2>1, <2>3 DEF Stores
  <2> QED
    BY <1>4, <2>2, <2>4 DEF Holds, Stores
<1> QED
  BY <1>6, <1>7

(* Only the app's start brings a cell up. *)
LEMMA ComesUpByStart == ASSUME Next, cell = "identity", cell' = "up" PROVE StartApp
<1>1. ASSUME NEW s \in Stores,
             Write(s) \/ Cron(s) \/ Fallback(s) \/ CopyDirectory(s) \/ PlaceStore(s)
      PROVE  FALSE
  BY <1>1 DEF Write, Cron, Fallback, CopyDirectory, PlaceStore, Place, BackupUnmoved,
     RestoreUnmoved
<1>2. ASSUME NEW w \in 1..MaxWrites, Decide(w) PROVE FALSE
  BY <1>2 DEF Decide
<1>3. ~(Checkpoint \/ Minute \/ RauthyWrites)
  BY DEF Checkpoint, Minute, RauthyWrites
<1>4. ~(Boot \/ Stop \/ Kill \/ Lose \/ \E e \in SUBSET Stores : SetEnv(e))
  BY DEF Boot, Stop, Kill, Lose, SetEnv, Halted
<1>5. ~(\E session, apiKey \in BOOLEAN : StartHot(session, apiKey))
  BY DEF StartHot
<1>6. ~(ListBefore \/ TakeShot \/ NameShot \/ PostRauthy \/ NewestRauthy \/ Vacuum)
  BY DEF ListBefore, TakeShot, NameShot, PostRauthy, NewestRauthy, Vacuum, BackupUnmoved
<1>7. ~(StartCold \/ CopyDb \/ CopyWal \/ CopyKeysAndWrite \/ Abandon)
  BY DEF StartCold, CopyDb, CopyWal, CopyKeysAndWrite, Abandon, BackupUnmoved
<1>8. ~((\E intact \in BOOLEAN : StartRestore(intact)) \/ Verify \/ PlaceLedger \/ PlaceKeys)
  BY DEF StartRestore, Verify, PlaceLedger, PlaceKeys, Place, RestoreUnmoved
<1> QED
  BY <1>1, <1>2, <1>3, <1>4, <1>5, <1>6, <1>7, <1>8
  DEF Next, Serve, Container, Backup, Restore

(* A cell started as a restore that went through told the operator to start it
   comes up with the stores and the chain of the archive (restore.mjs:224-227,
   first-boot.mjs), unless a variable names a file restored before or a WAL
   lies beside the ledger that is not its own. *)
THEOREM RestoreComesUp == Spec => RestoreHolds
<1>1. TypeOK /\ BackupInv /\ RestoreInv /\ [Next]_vars
      => [ComesUp /\ ~owed.again /\ ~owed.stray /\ owed.archive.torn = {}
             => Holds(vol', owed.archive)]_vars
  <2> SUFFICES ASSUME TypeOK, RestoreInv, [Next]_vars,
                      ComesUp, ~owed.again, ~owed.stray
               PROVE  Holds(vol', owed.archive)
    OBVIOUS
  <2>1. cell = "identity" /\ cell' = "up"
    BY DEF ComesUp
  <2>2. StartApp
    BY <2>1, ComesUpByStart DEF vars
  <2> QED
    BY <2>2, OwedIsServed DEF RestoreInv
<1> QED
  BY Invariance, <1>1, PTL DEF Spec, RestoreHolds
=============================================================================
