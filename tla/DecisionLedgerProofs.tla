------------------------ MODULE DecisionLedgerProofs ------------------------
(***************************************************************************)
(* Machine-checked facts about DecisionLedger, for every set of processes, *)
(* models, denials and admissions and every bound.                         *)
(*                                                                         *)
(* They assume of the chain the store starts with only that it is one:     *)
(* Sound.  The linearity of the chain also needs it to have been founded,  *)
(* or one model to do the founding (two may fork it, see the README),      *)
(* which is Anchored.                                                      *)
(***************************************************************************)
EXTENDS DecisionLedger, TLAPS, SequenceTheorems

(* Every record that is not a genesis follows a genesis of its model. *)
Opened(ch) ==
    \A i \in DOMAIN ch : ch[i].kind # "genesis" =>
        \E g \in 1..(i - 1) :
            ch[g].kind = "genesis" /\ ch[g].model = ch[i].model

Sound == Founded \in Seq(Records) /\ Opened(Founded)

Anchored ==
    /\ Verifies(Founded)
    /\ Founded # <<>> \/ \A m, n \in Models : m = n

HasGenesis(m, ch) ==
    \E g \in DOMAIN ch : ch[g].kind = "genesis" /\ ch[g].model = m

(* Past its look at the genesis a process has one of its model on the chain. *)
PastLook(me) ==
    \/ me.initialized
    \/ me.pc \in {"clear", "verify", "open"}
    \/ me.pc \in {"head", "insert"} /\ me.what # "genesis"

(* What a process's memory says of its model, its queue and its genesis. *)
Keeps(me, ch) ==
    /\ me \in States
    /\ me.pc # "down" => me.model \in Models
    /\ me.pc \notin {"down", "idle", "close"} => me.queue # <<>>
    /\ PastLook(me) => HasGenesis(me.model, ch)

Inv ==
    /\ TypeOK
    /\ Opened(chain)
    /\ \A p \in Procs : Keeps(proc[p], chain)

(* An insert in flight extends the chain, or the index refuses it. *)
Poised(me) ==
    me.pc = "insert" =>
        \/ me.head \in 1..Len(chain)
        \/ Claimed(me.head)
        \/ /\ chain = <<>> /\ me.head = me.model
           /\ \A m, n \in Models : m = n

Linear ==
    /\ ChainLinear
    /\ \A m, n \in Models : chain = <<>> => m = n
    /\ \A p \in Procs : Poised(proc[p])

-----------------------------------------------------------------------------
(* A record is chained: by an insert that is answered, or by one that is not. *)
Chains(p) ==
    Insert(p) \/ (StoreError(p) /\ proc[p].pc = "insert" /\ Commits(p))

(* What every other step does: no record, and one process. *)
Moves(p) ==
    /\ chain' = chain
    /\ Keeps(proc'[p], chain)
    /\ \A q \in Procs \ {p} : proc'[q] = proc[q]

Places == {"down", "idle", "meta", "genesis", "head", "insert", "clear",
           "verify", "open", "settle", "close"}

LEMMA GoesTo ==
    ASSUME NEW me \in States, NEW pc \in Places
    PROVE  [me EXCEPT !.pc = pc] \in States
BY DEF States, Places

LEMMA AppendingStates ==
    ASSUME NEW me \in States, NEW what \in {"genesis", "marker", "job"}
    PROVE  /\ Appending(me, what) \in States
           /\ Appending(me, what).model = me.model
           /\ Appending(me, what).queue = me.queue
           /\ Appending(me, what).pc = "head"
           /\ Appending(me, what).what = what
           /\ Appending(me, what).initialized = me.initialized
<1>1. 1 \in 1..CASAttempts
  BY ConstantsOK DEF ConstantsOK
<1> QED
  BY <1>1 DEF Appending, States

(* The first job of a process past init, wherever it was. *)
LEMMA StartedKeeps ==
    ASSUME NEW ch, NEW me \in States, me.model \in Models, me.queue # <<>>,
           me.initialized, HasGenesis(me.model, ch)
    PROVE  Keeps(Started(me), ch)
<1>1. \/ Started(me) = [me EXCEPT !.pc = "settle"]
      \/ Started(me) = [me EXCEPT !.pc = "open"]
      \/ Started(me) = Appending(me, "job")
  BY DEF Started
<1>2. Keeps([me EXCEPT !.pc = "settle"], ch)
  BY DEF States, Keeps, PastLook
<1>3. Keeps([me EXCEPT !.pc = "open"], ch)
  BY DEF States, Keeps, PastLook
<1>4. Keeps(Appending(me, "job"), ch)
  BY AppendingStates DEF Keeps
<1> QED
  BY <1>1, <1>2, <1>3, <1>4

LEMMA PastGenesisKeeps ==
    ASSUME NEW ch, NEW me \in States, me.model \in Models, me.queue # <<>>,
           HasGenesis(me.model, ch)
    PROVE  Keeps(PastGenesis(me), ch)
<1>1. Keeps(Appending(me, "marker"), ch)
  BY AppendingStates DEF Keeps
<1>2. Keeps([me EXCEPT !.pc = "verify"], ch)
  BY DEF States, Keeps, PastLook
<1> QED
  BY <1>1, <1>2 DEF PastGenesis

-----------------------------------------------------------------------------
LEMMA InitInv == Sound /\ Init => Inv
<1> SUFFICES ASSUME Sound, Init PROVE Inv
  OBVIOUS
<1>1. Down \in States
  BY ConstantsOK DEF Down, States, ConstantsOK
<1>2. \A p \in Procs : Keeps(proc[p], chain)
  BY <1>1 DEF Init, Keeps, PastLook, Down
<1>3. dirty \in BOOLEAN
  BY Zenon DEF Init
<1>4. crashes \in 0..MaxCrashes /\ errors \in 0..MaxErrors
  BY ConstantsOK DEF Init, ConstantsOK
<1>5. TypeOK
  BY <1>1, <1>3, <1>4 DEF Init, TypeOK, Sound
<1> QED
  BY <1>2, <1>5 DEF Inv, Init, Sound

LEMMA DeadKeeps ==
    ASSUME Inv, NEW p \in Procs, Dead(p), chain' = chain
    PROVE  Moves(p) /\ unmarked' \subseteq Denials /\ unanswered' \subseteq Procs
<1>1. Keeps(Down, chain)
  BY ConstantsOK DEF Down, States, Keeps, PastLook, ConstantsOK
<1>2. proc'[p] = Down /\ \A q \in Procs \ {p} : proc'[q] = proc[q]
  BY DEF Dead, Inv, TypeOK
<1>3. unmarked' \subseteq Denials /\ unanswered' \subseteq Procs
  BY DEF Dead, Inv, TypeOK, Pending
<1> QED
  BY <1>1, <1>2, <1>3 DEF Moves

(* Booting, being asked, and the store's failures. *)
LEMMA OutsideMoves ==
    ASSUME Inv, NEW p \in Procs,
           \/ \E m \in Models : Boot(p, m)
           \/ \E j \in Jobs : Ask(p, j)
           \/ StoreError(p) /\ ~Chains(p)
           \/ Crash(p)
    PROVE  Moves(p) /\ unmarked' \subseteq Denials /\ unanswered' \subseteq Procs
<1> USE ConstantsOK DEF ConstantsOK
<1>0. Keeps(proc[p], chain) /\ proc \in [Procs -> States]
      /\ unmarked \subseteq Denials /\ unanswered \subseteq Procs
  BY DEF Inv, TypeOK
<1>1. CASE \E m \in Models : Boot(p, m)
  <2>1. PICK m \in Models : Boot(p, m)
    BY <1>1
  <2>2. proc'[p] = [Down EXCEPT !.pc = "idle", !.model = m, !.queue = <<BootJob>>]
    BY <2>1, <1>0 DEF Boot
  <2>3. Keeps(proc'[p], chain)
    <3>1. <<BootJob>> \in Seq(Jobs \cup {BootJob}) /\ <<BootJob>> # <<>>
      OBVIOUS
    <3>2. 1 \in 1..CASAttempts
      OBVIOUS
    <3>3. proc'[p] = [pc |-> "idle", model |-> m, queue |-> <<BootJob>>,
                      what |-> "job", head |-> 0, attempt |-> 1,
                      initialized |-> FALSE, wasDirty |-> FALSE,
                      bracketOpen |-> FALSE]
      BY <2>2 DEF Down
    <3>4. proc'[p] \in States
      BY <3>1, <3>2, <3>3 DEF States
    <3> QED
      BY <3>3, <3>4 DEF Keeps, PastLook
  <2> QED
    BY <2>1, <2>3, <1>0 DEF Boot, Moves, Stores
<1>2. CASE \E j \in Jobs : Ask(p, j)
  <2>1. PICK j \in Jobs : Ask(p, j)
    BY <1>2
  <2>2. proc'[p] = [proc[p] EXCEPT !.queue = Append(@, j)]
    BY <2>1, <1>0 DEF Ask
  <2>3. Append(proc[p].queue, j) \in Seq(Jobs \cup {BootJob}) \ {<<>>}
    <3>1. proc[p].queue \in Seq(Jobs \cup {BootJob}) /\ j \in Jobs \cup {BootJob}
      BY <1>0 DEF States, Keeps
    <3> QED
      BY <3>1, AppendProperties
  <2>4. Keeps(proc'[p], chain)
    BY <2>2, <2>3, <1>0 DEF States, Keeps, PastLook
  <2> QED
    BY <2>1, <2>4, <1>0 DEF Ask, Moves
<1>3. CASE StoreError(p) /\ ~Chains(p)
  <2>1. /\ chain' = chain /\ unmarked' = unmarked
        /\ unanswered' \subseteq Procs
    BY <1>3, <1>0 DEF StoreError, Chains, TakesEffect, Flags
  <2>2. \A q \in Procs \ {p} : proc'[q] = proc[q]
    BY <1>3, <1>0 DEF StoreError, Goto
  <2>3. Keeps(proc'[p], chain)
    BY <1>3, <1>0 DEF StoreError, Goto, States, Keeps, PastLook
  <2> QED
    BY <1>0, <2>1, <2>2, <2>3 DEF Moves
<1>4. CASE Crash(p)
  BY <1>4, DeadKeeps DEF Crash
<1> QED
  BY <1>1, <1>2, <1>3, <1>4

(* The steps of init. *)
LEMMA InitMoves ==
    ASSUME Inv, NEW p \in Procs,
           \/ Take(p) \/ ReadMeta(p) \/ ReadGenesis(p) \/ ClearStale(p)
           \/ Verify(p)
    PROVE  Moves(p) /\ unmarked' \subseteq Denials /\ unanswered' \subseteq Procs
<1> USE ConstantsOK DEF ConstantsOK
<1>0. Keeps(proc[p], chain) /\ proc \in [Procs -> States]
      /\ unmarked \subseteq Denials /\ unanswered \subseteq Procs
      /\ dirty \in BOOLEAN
  BY DEF Inv, TypeOK
<1>1. CASE Take(p)
  <2>1. chain' = chain /\ unmarked' = unmarked /\ unanswered' = unanswered
        /\ \A q \in Procs \ {p} : proc'[q] = proc[q]
    BY <1>1, <1>0 DEF Take, Stores
  <2>2. CASE proc[p].initialized
    <3>1. proc'[p] = Started(proc[p])
      BY <1>1, <1>0, <2>2 DEF Take
    <3> QED
      BY <1>0, <1>1, <2>1, <2>2, <3>1, StartedKeeps DEF Take, Moves, Keeps, PastLook
  <2>3. CASE ~proc[p].initialized
    <3>1. proc'[p] = [proc[p] EXCEPT !.pc = "meta"]
      BY <1>1, <1>0, <2>3 DEF Take
    <3> QED
      BY <1>0, <1>1, <2>1, <2>3, <3>1 DEF Take, Moves, Keeps, PastLook, States
  <2> QED
    BY <2>2, <2>3
<1>2. CASE ReadMeta(p)
  BY <1>2, <1>0 DEF ReadMeta, Stores, Moves, Keeps, PastLook, States
<1>3. CASE ReadGenesis(p)
  <2>1. chain' = chain /\ unmarked' = unmarked /\ unanswered' = unanswered
        /\ \A q \in Procs \ {p} : proc'[q] = proc[q]
    BY <1>3, <1>0 DEF ReadGenesis, Stores
  <2>2. CASE proc[p].model \in GenesisModels
    <3>1. proc'[p] = PastGenesis(proc[p])
      BY <1>3, <1>0, <2>2 DEF ReadGenesis
    <3>2. HasGenesis(proc[p].model, chain)
      BY <2>2 DEF GenesisModels, Newest, HasGenesis
    <3> QED
      BY <1>0, <1>3, <2>1, <3>1, <3>2, PastGenesisKeeps DEF ReadGenesis, Moves, Keeps
  <2>3. CASE proc[p].model \notin GenesisModels
    <3>1. proc'[p] = Appending(proc[p], "genesis")
      BY <1>3, <1>0, <2>3 DEF ReadGenesis
    <3> QED
      BY <1>0, <1>3, <2>1, <3>1, AppendingStates
         DEF ReadGenesis, Moves, Keeps, PastLook
  <2> QED
    BY <2>2, <2>3
<1>4. CASE ClearStale(p)
  BY <1>4, <1>0 DEF ClearStale, Flags, Goto, Moves, Keeps, PastLook, States
<1>5. CASE Verify(p)
  <2>1. CASE Verifies(chain)
    <3> DEFINE me == [proc[p] EXCEPT !.initialized = TRUE]
    <3>1. /\ proc'[p] = Started(me) /\ chain' = chain
          /\ unmarked' = unmarked /\ unanswered' = unanswered
          /\ \A q \in Procs \ {p} : proc'[q] = proc[q]
      BY <1>5, <1>0, <2>1 DEF Verify
    <3>2. /\ me \in States /\ me.model \in Models /\ me.queue # <<>>
          /\ me.initialized /\ HasGenesis(me.model, chain)
      BY <1>5, <1>0 DEF Verify, Keeps, PastLook, States
    <3> HIDE DEF me
    <3>3. Keeps(Started(me), chain)
      BY <3>2, StartedKeeps
    <3> QED
      BY <1>0, <3>1, <3>3 DEF Moves
  <2>2. CASE ~Verifies(chain)
    BY <1>5, <2>2, DeadKeeps DEF Verify
  <2> QED
    BY <2>1, <2>2
<1> QED
  BY <1>1, <1>2, <1>3, <1>4, <1>5

(* The steps of a job and of the bracket, the insert apart. *)
LEMMA JobMoves ==
    ASSUME Inv, NEW p \in Procs,
           \/ ReadHead(p) \/ Miss(p) \/ Exhaust(p)
           \/ OpenBracket(p) \/ Settle(p) \/ CloseBracket(p)
    PROVE  Moves(p) /\ unmarked' \subseteq Denials /\ unanswered' \subseteq Procs
<1> USE ConstantsOK DEF ConstantsOK
<1>0. Keeps(proc[p], chain) /\ proc \in [Procs -> States]
      /\ unmarked \subseteq Denials /\ unanswered \subseteq Procs
      /\ chain \in Seq(Records)
  BY DEF Inv, TypeOK
<1>1. CASE ReadHead(p)
  <2>1. ChainHead(proc[p].model) \in Nat \cup Models
    BY <1>0, <1>1 DEF ReadHead, ChainHead, Keeps
  <2> QED
    BY <1>0, <1>1, <2>1 DEF ReadHead, Stores, Moves, Keeps, PastLook, States
<1>2. CASE Miss(p)
  <2>1. proc'[p] = [proc[p] EXCEPT !.pc = "head", !.attempt = @ + 1]
    BY <1>0, <1>2 DEF Miss
  <2>2. proc[p].attempt + 1 \in 1..CASAttempts
    BY <1>0, <1>2 DEF Miss, Keeps, States
  <2>3. proc'[p] \in States
    BY <1>0, <2>1, <2>2 DEF Keeps, States
  <2> QED
    BY <1>0, <1>2, <2>1, <2>3 DEF Miss, Stores, Moves, Keeps, PastLook, States
<1>3. CASE Exhaust(p)
  <2>1. CASE proc[p].initialized
    <3>1. /\ proc[p].pc = "insert" /\ proc' = [proc EXCEPT ![p].pc = "settle"]
          /\ chain' = chain /\ unmarked' = unmarked /\ unanswered' = unanswered
      BY <1>3, <2>1 DEF Exhaust, Goto
    <3>2. /\ proc'[p] = [proc[p] EXCEPT !.pc = "settle"]
          /\ \A q \in Procs \ {p} : proc'[q] = proc[q]
      BY <1>0, <3>1
    <3>3. Keeps(proc'[p], chain)
      BY <1>0, <2>1, <3>1, <3>2 DEF Keeps, PastLook, States
    <3> QED
      BY <1>0, <3>1, <3>2, <3>3 DEF Moves
  <2>2. CASE ~proc[p].initialized
    BY <1>3, <2>2, DeadKeeps DEF Exhaust
  <2> QED
    BY <2>1, <2>2
<1>4. CASE OpenBracket(p)
  <2> DEFINE me == [proc[p] EXCEPT !.bracketOpen = TRUE]
  <2>1. proc'[p] = Appending(me, "job") /\ proc[p].pc = "open"
        /\ chain' = chain /\ unmarked' = unmarked /\ unanswered' = unanswered
        /\ \A q \in Procs \ {p} : proc'[q] = proc[q]
    BY <1>0, <1>4 DEF OpenBracket, Flags
  <2>2. /\ me \in States /\ me.model \in Models /\ me.queue # <<>>
        /\ HasGenesis(me.model, chain)
    BY <1>0, <2>1 DEF Keeps, PastLook, States
  <2> HIDE DEF me
  <2>3. Keeps(proc'[p], chain)
    BY <2>1, <2>2, AppendingStates DEF Keeps
  <2> QED
    BY <1>0, <2>1, <2>3 DEF Moves
<1>5. CASE Settle(p)
  <2>1. Tail(proc[p].queue) \in Seq(Jobs \cup {BootJob})
    BY <1>0, <1>5 DEF Settle, Keeps, States
  <2> QED
    BY <1>0, <1>5, <2>1 DEF Settle, Stores, Moves, Keeps, PastLook, States
<1>6. CASE CloseBracket(p)
  BY <1>0, <1>6 DEF CloseBracket, Flags, Moves, Keeps, PastLook, States
<1> QED
  BY <1>1, <1>2, <1>3, <1>4, <1>5, <1>6

-----------------------------------------------------------------------------
(* The table of processes stays one, and the counters in their bounds. *)
LEMMA TablesTyped ==
    ASSUME Inv, NEW p \in Procs,
           \/ Run(p) \/ StoreError(p) \/ Crash(p)
           \/ \E m \in Models : Boot(p, m)
           \/ \E j \in Jobs : Ask(p, j)
    PROVE  /\ DOMAIN proc' = Procs /\ proc' = [q \in Procs |-> proc'[q]]
           /\ dirty' \in BOOLEAN
           /\ asked' \subseteq Jobs
           /\ crashes' \in 0..MaxCrashes /\ errors' \in 0..MaxErrors
<1> USE ConstantsOK DEF ConstantsOK
<1>0. /\ proc \in [Procs -> States] /\ dirty \in BOOLEAN /\ asked \subseteq Jobs
      /\ crashes \in 0..MaxCrashes /\ errors \in 0..MaxErrors
  BY DEF Inv, TypeOK
<1>1. \E v : proc' = [proc EXCEPT ![p] = v]
  BY DEF Run, Take, ReadMeta, ReadGenesis, ReadHead, Insert, Miss, Exhaust,
         ClearStale, Verify, OpenBracket, Settle, CloseBracket, StoreError,
         Crash, Boot, Ask, Goto, Dead
<1>2. dirty' \in {TRUE, FALSE, dirty}
  BY DEF Run, Take, ReadMeta, ReadGenesis, ReadHead, Insert, Miss, Exhaust,
         ClearStale, Verify, OpenBracket, Settle, CloseBracket, StoreError,
         Crash, Boot, Ask, Stores, Commits, Flags, TakesEffect
<1>3. asked' \subseteq Jobs /\ crashes' \in 0..MaxCrashes
      /\ errors' \in 0..MaxErrors
  <2>1. CASE Run(p)
    <3>1. asked' = asked /\ crashes' = crashes /\ errors' = errors
      BY <2>1 DEF Run, Take, ReadMeta, ReadGenesis, ReadHead, Insert, Miss,
         Exhaust, ClearStale, Verify, OpenBracket, Settle, CloseBracket, Stores
    <3> QED
      BY <1>0, <3>1
  <2>2. CASE StoreError(p)
    BY <1>0, <2>2 DEF StoreError
  <2>3. CASE Crash(p)
    BY <1>0, <2>3 DEF Crash
  <2>4. CASE \E m \in Models : Boot(p, m)
    BY <1>0, <2>4 DEF Boot, Stores
  <2>5. CASE \E j \in Jobs : Ask(p, j)
    BY <1>0, <2>5 DEF Ask
  <2> QED
    BY <2>1, <2>2, <2>3, <2>4, <2>5
<1>5. DOMAIN proc' = Procs /\ proc' = [q \in Procs |-> proc'[q]]
  BY <1>0, <1>1
<1>6. dirty' \in BOOLEAN
  BY <1>0, <1>2, Zenon
<1> QED
  BY <1>3, <1>5, <1>6

(* An insert puts one record at the end, of a model that is past its
   genesis or with the genesis itself, and moves no other process. *)
LEMMA InsertEffect ==
    ASSUME Inv, NEW p \in Procs, Chains(p)
    PROVE  /\ ~Claimed(proc[p].head)
           /\ \E rec \in Records :
                /\ chain' = Append(chain, rec)
                /\ rec.parent = proc[p].head
                /\ rec.model = proc[p].model
                /\ rec.kind = "genesis" <=> proc[p].what = "genesis"
           /\ proc[p].pc = "insert"
           /\ \/ proc'[p] = Appended(proc[p])
              \/ proc'[p] = [proc[p] EXCEPT !.pc = "settle"]
           /\ \A q \in Procs \ {p} : proc'[q] = proc[q]
           /\ unmarked' \subseteq Denials /\ unanswered' \subseteq Procs
<1> DEFINE me  == proc[p]
           job == IF me.what = "job" THEN me.queue[1] ELSE BootJob
           rec == Record(me.head, IF me.what = "job" THEN "decision" ELSE me.what,
                         me.model, job)
<1>1. /\ me \in States /\ me.model \in Models /\ me.queue # <<>>
      /\ proc \in [Procs -> States]
      /\ unmarked \subseteq Denials /\ unanswered \subseteq Procs
  BY DEF Inv, TypeOK, Keeps, Chains, Insert
<1>2. job \in Jobs \cup {BootJob}
  BY <1>1 DEF States
<1>3. me.head \in Nat \cup Models /\ me.what \in {"genesis", "marker", "job"}
  BY <1>1 DEF States
<1>4. rec \in Records /\ rec.parent = me.head /\ rec.model = me.model
      /\ (rec.kind = "genesis" <=> me.what = "genesis")
  BY <1>1, <1>2, <1>3 DEF Record, Records
<1>5. me.pc = "insert" /\ Commits(p)
  BY DEF Chains, Insert
<1>6. chain' = Append(chain, rec) /\ ~Claimed(me.head)
  BY <1>5 DEF Commits
<1>7. /\ proc'[p] = Appended(me) \/ proc'[p] = [me EXCEPT !.pc = "settle"]
      /\ \A q \in Procs \ {p} : proc'[q] = proc[q]
  BY <1>1, <1>5 DEF Chains, Insert, StoreError, Goto
<1>8. unmarked' \subseteq Denials
  BY <1>1, <1>5 DEF Commits
<1>9. unanswered' \subseteq Procs
  BY <1>1 DEF Chains, Insert, StoreError
<1> QED
  BY <1>4, <1>5, <1>6, <1>7, <1>8, <1>9

LEMMA InsertInv ==
    ASSUME Inv, NEW p \in Procs, Chains(p)
    PROVE  Inv'
<1>1. PICK rec \in Records :
        /\ chain' = Append(chain, rec)
        /\ rec.parent = proc[p].head
        /\ rec.model = proc[p].model
        /\ rec.kind = "genesis" <=> proc[p].what = "genesis"
  BY InsertEffect
<1>2. /\ chain \in Seq(Records) /\ Opened(chain) /\ Keeps(proc[p], chain)
      /\ proc[p].pc = "insert"
  BY InsertEffect DEF Inv, TypeOK
<1>3. /\ chain' \in Seq(Records) /\ Len(chain') = Len(chain) + 1
      /\ Len(chain) \in Nat
      /\ \A i \in 1..Len(chain) : chain'[i] = chain[i]
      /\ chain'[Len(chain) + 1] = rec
      /\ DOMAIN chain = 1..Len(chain) /\ DOMAIN chain' = 1..(Len(chain) + 1)
  BY <1>1, <1>2
<1>4. \A m : HasGenesis(m, chain) => HasGenesis(m, chain')
  BY <1>3 DEF HasGenesis
<1>5. HasGenesis(proc[p].model, chain')
  <2>1. CASE proc[p].what = "genesis"
    BY <1>1, <1>3, <2>1 DEF HasGenesis
  <2>2. CASE proc[p].what # "genesis"
    BY <1>2, <1>4, <2>2 DEF Keeps, PastLook
  <2> QED
    BY <2>1, <2>2
<1>6. Opened(chain')
  <2> SUFFICES ASSUME NEW i \in DOMAIN chain', chain'[i].kind # "genesis"
               PROVE  \E g \in 1..(i - 1) : chain'[g].kind = "genesis"
                                         /\ chain'[g].model = chain'[i].model
    BY DEF Opened
  <2>1. CASE i \in 1..Len(chain)
    BY <1>2, <1>3, <2>1 DEF Opened
  <2>2. CASE i = Len(chain) + 1
    <3>1. proc[p].what # "genesis" /\ chain'[i].model = proc[p].model
      BY <1>1, <1>3, <2>2
    <3>2. HasGenesis(proc[p].model, chain)
      BY <1>2, <3>1 DEF Keeps, PastLook
    <3> QED
      BY <1>3, <2>2, <3>1, <3>2 DEF HasGenesis
  <2> QED
    BY <1>3, <2>1, <2>2
<1>7. Keeps(proc'[p], chain')
  <2>1. /\ \/ proc'[p] = Appended(proc[p])
           \/ proc'[p] = [proc[p] EXCEPT !.pc = "settle"]
        /\ proc[p] \in States /\ proc[p].model \in Models /\ proc[p].queue # <<>>
    BY <1>2, InsertEffect DEF Keeps
  <2>2. Keeps(PastGenesis(proc[p]), chain')
    BY <1>5, <2>1, PastGenesisKeeps
  <2>3. Keeps([proc[p] EXCEPT !.pc = "clear"], chain')
    BY <1>5, <2>1 DEF Keeps, PastLook, States
  <2>4. Keeps([proc[p] EXCEPT !.pc = "settle"], chain')
    BY <1>5, <2>1 DEF Keeps, PastLook, States
  <2>5. proc[p].what \in {"genesis", "marker", "job"}
    BY <2>1 DEF States
  <2> QED
    BY <2>1, <2>2, <2>3, <2>4, <2>5 DEF Appended
<1>8. \A q \in Procs : Keeps(proc'[q], chain')
  <2> SUFFICES ASSUME NEW q \in Procs \ {p} PROVE Keeps(proc'[q], chain')
    BY <1>7
  <2>1. proc'[q] = proc[q] /\ Keeps(proc[q], chain)
    BY InsertEffect DEF Inv
  <2> QED
    BY <1>4, <2>1 DEF Keeps
<1>9. TypeOK'
  <2>1. proc' \in [Procs -> States]
    BY <1>8, TablesTyped DEF Chains, Run, Keeps
  <2> QED
    BY <1>3, <2>1, TablesTyped, InsertEffect DEF Chains, Run, TypeOK
<1> QED
  BY <1>6, <1>8, <1>9 DEF Inv

LEMMA MovesInv ==
    ASSUME Inv, NEW p \in Procs, Moves(p), unmarked' \subseteq Denials, unanswered' \subseteq Procs,
           \/ Run(p) \/ StoreError(p) \/ Crash(p)
           \/ \E m \in Models : Boot(p, m)
           \/ \E j \in Jobs : Ask(p, j)
    PROVE  Inv'
<1>1. \A q \in Procs : Keeps(proc'[q], chain')
  BY DEF Moves, Inv
<1>2. proc' \in [Procs -> States]
  BY <1>1, TablesTyped DEF Keeps
<1>3. TypeOK'
  BY <1>2, TablesTyped DEF TypeOK, Moves, Inv
<1> QED
  BY <1>1, <1>3 DEF Inv, Moves

LEMMA NextInv == Inv /\ [Next]_vars => Inv'
<1> SUFFICES ASSUME Inv, [Next]_vars PROVE Inv'
  OBVIOUS
<1>1. CASE UNCHANGED vars
  BY <1>1 DEF vars, Inv, TypeOK
<1>2. CASE Next
  <2>1. PICK p \in Procs :
          \/ Run(p) \/ StoreError(p) \/ Crash(p)
          \/ \E m \in Models : Boot(p, m)
          \/ \E j \in Jobs : Ask(p, j)
    BY <1>2 DEF Next
  <2>2. CASE Chains(p)
    BY <2>2, InsertInv
  <2>3. CASE ~Chains(p)
    <3>1. Moves(p) /\ unmarked' \subseteq Denials /\ unanswered' \subseteq Procs
      BY <2>1, <2>3, OutsideMoves, InitMoves, JobMoves DEF Run, Chains
    <3> QED
      BY <2>1, <3>1, MovesInv
  <2> QED
    BY <2>2, <2>3
<1> QED
  BY <1>1, <1>2

(* Every record follows a genesis of its model, in a store of any number of
   processes and models. *)
THEOREM Invariance == Sound /\ Spec => []Inv
BY InitInv, NextInv, PTL DEF Spec

(***************************************************************************)
(* The module's state keeps its types: in particular no append is tried    *)
(* more often than CAS_ATTEMPTS (decisions.ts:291-329).                    *)
(***************************************************************************)
THEOREM TypeCorrect == Sound /\ Spec => []TypeOK
<1>1. Inv => TypeOK
  BY DEF Inv
<1> QED
  BY <1>1, Invariance, PTL

(***************************************************************************)
(* initUnlocked founds the chain, or adds its model's genesis to it,       *)
(* before any other record of that model: no race between booting          *)
(* processes, no crash and no store error puts a Decision in front of it.  *)
(***************************************************************************)
THEOREM GenesisLeads == Sound /\ Spec => []GenesisFirst
<1>1. Inv => GenesisFirst
  BY DEF Inv, Opened, GenesisFirst
<1> QED
  BY <1>1, Invariance, PTL

-----------------------------------------------------------------------------
LEMMA InitLinear == Anchored /\ Init => Linear
BY DEF Anchored, Init, Linear, ChainLinear, Poised, Down

(* Only a head read takes a process to its insert. *)
LEMMA OnlyReadHeadPoises ==
    ASSUME Inv, NEW p \in Procs, ~Chains(p),
           \/ Run(p) \/ StoreError(p) \/ Crash(p)
           \/ \E m \in Models : Boot(p, m)
           \/ \E j \in Jobs : Ask(p, j)
    PROVE  /\ chain' = chain
           /\ \A q \in Procs \ {p} : proc'[q] = proc[q]
           /\ proc'[p].pc = "insert" =>
                \/ /\ proc'[p].model = proc[p].model
                   /\ proc'[p].head = ChainHead(proc[p].model)
                   /\ proc[p].model \in Models
                \/ /\ proc[p].pc = "insert"
                   /\ proc'[p].model = proc[p].model
                   /\ proc'[p].head = proc[p].head
<1>1. Moves(p)
  BY OutsideMoves, InitMoves, JobMoves DEF Run, Chains
<1>2. proc \in [Procs -> States] /\ Keeps(proc[p], chain)
  BY DEF Inv, TypeOK
<1>3. CASE ReadHead(p)
  BY <1>1, <1>2, <1>3 DEF ReadHead, Moves, Keeps, States
<1>4. CASE \E j \in Jobs : Ask(p, j)
  BY <1>1, <1>2, <1>4 DEF Ask, Moves, Keeps, States
<1>5. CASE \/ StoreError(p) \/ Crash(p) \/ \E m \in Models : Boot(p, m)
           \/ ReadMeta(p) \/ Miss(p) \/ Exhaust(p) \/ ClearStale(p)
           \/ Settle(p) \/ CloseBracket(p)
  <2>1. proc'[p].pc # "insert"
    <3>1. CASE StoreError(p)
      BY <1>2, <3>1 DEF StoreError, Goto, Keeps, States
    <3>2. CASE Crash(p) \/ Exhaust(p)
      BY <1>2, <3>2 DEF Crash, Exhaust, Goto, Dead, Down, Keeps, States
    <3>3. CASE \E m \in Models : Boot(p, m)
      BY <1>2, <3>3 DEF Boot, Down
    <3>4. CASE ReadMeta(p) \/ ClearStale(p) \/ CloseBracket(p) \/ Miss(p)
      <4>1. proc[p] \in States
        BY <1>2 DEF Keeps
      <4>2. CASE ReadMeta(p) \/ ClearStale(p)
        BY <1>2, <4>1, <4>2 DEF ReadMeta, ClearStale, Goto, States
      <4>3. CASE CloseBracket(p)
        BY <1>2, <4>1, <4>3 DEF CloseBracket, States
      <4>4. CASE Miss(p)
        BY <1>2, <4>1, <4>4 DEF Miss, States
      <4> QED
        BY <3>4, <4>2, <4>3, <4>4
    <3>5. CASE Settle(p)
      BY <1>2, <3>5 DEF Settle, Keeps, States
    <3> QED
      BY <1>5, <3>1, <3>2, <3>3, <3>4, <3>5
  <2> QED
    BY <1>1, <2>1 DEF Moves
<1>6. CASE Take(p) \/ ReadGenesis(p) \/ Verify(p) \/ OpenBracket(p)
  <2>1. \A me \in States : /\ Started(me).pc # "insert"
                          /\ PastGenesis(me).pc # "insert"
                          /\ \A w : Appending(me, w).pc # "insert"
    BY DEF Started, PastGenesis, Appending, States
  <2>2. /\ [proc[p] EXCEPT !.initialized = TRUE] \in States
        /\ [proc[p] EXCEPT !.bracketOpen = TRUE] \in States
    BY <1>2 DEF Keeps, States
  <2>3. \/ proc'[p].pc \in {"meta", "down"}
        \/ \E me \in States : proc'[p] = Started(me)
        \/ \E me \in States : proc'[p] = PastGenesis(me)
        \/ \E me \in States, w \in {"genesis", "job"} : proc'[p] = Appending(me, w)
    <3>1. CASE Take(p)
      BY <1>2, <3>1 DEF Take, Keeps, States
    <3>2. CASE ReadGenesis(p)
      BY <1>2, <3>2 DEF ReadGenesis, Keeps
    <3>3. CASE Verify(p)
      BY <1>2, <2>2, <3>3 DEF Verify, Keeps, Dead, Down
    <3>4. CASE OpenBracket(p)
      BY <1>2, <2>2, <3>4 DEF OpenBracket, Keeps
    <3> QED
      BY <1>6, <3>1, <3>2, <3>3, <3>4
  <2> QED
    BY <1>1, <2>1, <2>3 DEF Moves
<1> QED
  BY <1>3, <1>4, <1>5, <1>6 DEF Run, Chains

LEMMA NextLinear == Inv /\ Linear /\ [Next]_vars => Linear'
<1> SUFFICES ASSUME Inv, Linear, [Next]_vars PROVE Linear'
  OBVIOUS
<1>1. chain \in Seq(Records) /\ proc \in [Procs -> States]
      /\ \A p \in Procs : Keeps(proc[p], chain)
  BY DEF Inv, TypeOK
<1>2. CASE UNCHANGED vars
  BY <1>2 DEF vars, Linear, ChainLinear, Verifies, Poised, Claimed
<1>3. CASE Next
  <2>1. PICK p \in Procs :
          \/ Run(p) \/ StoreError(p) \/ Crash(p)
          \/ \E m \in Models : Boot(p, m)
          \/ \E j \in Jobs : Ask(p, j)
    BY <1>3 DEF Next
  <2>2. CASE ~Chains(p)
    <3>1. /\ chain' = chain
          /\ \A q \in Procs \ {p} : proc'[q] = proc[q]
          /\ proc'[p].pc = "insert" =>
               \/ /\ proc'[p].model = proc[p].model
                  /\ proc'[p].head = ChainHead(proc[p].model)
                  /\ proc[p].model \in Models
               \/ /\ proc[p].pc = "insert"
                  /\ proc'[p].model = proc[p].model
                  /\ proc'[p].head = proc[p].head
      BY <2>1, <2>2, OnlyReadHeadPoises
    <3>2. \/ ChainHead(proc[p].model) \in 1..Len(chain)
          \/ chain = <<>> /\ ChainHead(proc[p].model) = proc[p].model
      BY <1>1 DEF ChainHead
    <3>3. \A q \in Procs : Poised(proc[q])'
      BY <3>1, <3>2 DEF Linear, Poised, Claimed
    <3> QED
      BY <3>1, <3>3 DEF Linear, ChainLinear, Verifies
  <2>3. CASE Chains(p)
    <3> DEFINE head == proc[p].head
    <3>1. PICK rec \in Records : chain' = Append(chain, rec) /\ rec.parent = head
      BY <2>3, InsertEffect
    <3>2. /\ ~Claimed(head) /\ proc[p].pc = "insert"
          /\ \/ proc'[p] = Appended(proc[p])
             \/ proc'[p] = [proc[p] EXCEPT !.pc = "settle"]
          /\ \A q \in Procs \ {p} : proc'[q] = proc[q]
      BY <2>3, InsertEffect
    <3>3. /\ Len(chain) \in Nat /\ DOMAIN chain = 1..Len(chain)
          /\ Len(chain') = Len(chain) + 1 /\ DOMAIN chain' = 1..(Len(chain) + 1)
          /\ \A i \in 1..Len(chain) : chain'[i] = chain[i]
          /\ chain'[Len(chain) + 1].parent = head
      BY <1>1, <3>1
    <3>4. head = Len(chain) \/ chain = <<>>
      <4>2. SUFFICES ASSUME head \in 1..Len(chain), head # Len(chain)
                     PROVE  FALSE
        BY <3>2 DEF Linear, Poised
      <4>3. head + 1 \in 2..Len(chain) /\ chain[head + 1].parent = head
        BY <3>3, <4>2 DEF Linear, ChainLinear, Verifies
      <4> QED
        BY <3>2, <3>3, <4>3 DEF Claimed
    <3>5. Verifies(chain')
      BY <1>1, <3>3, <3>4 DEF Linear, ChainLinear, Verifies
    <3>6. chain' # <<>>
      BY <3>3
    <3>7. \A h : Claimed(h) => Claimed(h)'
      BY <3>3 DEF Claimed
    <3>8. ASSUME NEW q \in Procs \ {p} PROVE Poised(proc[q])'
      <4>1. proc'[q] = proc[q] /\ Poised(proc[q])
        BY <3>2 DEF Linear
      <4>2. CASE /\ proc[q].pc = "insert"
                 /\ chain = <<>> /\ proc[q].head = proc[q].model
                 /\ \A m, n \in Models : m = n
        <5>1. head = proc[p].model \/ Claimed(head)
          BY <3>2, <3>3, <4>2 DEF Linear, Poised
        <5>2. proc[q].head = head
          BY <1>1, <3>2, <4>2, <5>1 DEF Keeps
        <5>3. Claimed(proc[q].head)'
          BY <3>3, <4>1, <5>2 DEF Claimed
        <5> QED
          BY <5>3 DEF Poised
      <4>3. CASE /\ proc[q].pc = "insert"
                 /\ proc[q].head \in 1..Len(chain) \/ Claimed(proc[q].head)
        BY <3>3, <3>7, <4>1, <4>3 DEF Poised
      <4>4. CASE proc[q].pc # "insert"
        BY <4>1, <4>4 DEF Poised
      <4> QED
        BY <4>1, <4>2, <4>3, <4>4 DEF Poised
    <3>9. Poised(proc[p])'
      <4>1. Appended(proc[p]).pc # "insert"
        BY <1>1 DEF Appended, PastGenesis, Appending, Keeps, States
      <4>2. [proc[p] EXCEPT !.pc = "settle"].pc # "insert"
        BY <1>1 DEF Keeps, States
      <4> QED
        BY <3>2, <4>1, <4>2 DEF Poised
    <3> QED
      BY <3>5, <3>6, <3>8, <3>9 DEF Linear, ChainLinear
  <2> QED
    BY <2>2, <2>3
<1> QED
  BY <1>2, <1>3

(***************************************************************************)
(* The unique parent index keeps the chain linear (decisions.ts:48), for   *)
(* any number of processes appending at once, on a store that some model   *)
(* has founded or that only one model founds.                              *)
(***************************************************************************)
THEOREM Linearity == Sound /\ Anchored /\ Spec => []ChainLinear
<1>1. Linear => ChainLinear
  BY DEF Linear
<1> QED
  BY <1>1, InitLinear, NextLinear, Invariance, PTL DEF Spec

-----------------------------------------------------------------------------
(* No Decision stands on the chain the store starts with. *)
Blank == \A i \in DOMAIN Founded : Founded[i].kind # "decision"

(* Queued jobs were asked for, and each is queued once in one process. *)
QueuedOnce ==
    /\ \A p \in Procs : \A i \in DOMAIN proc[p].queue :
          proc[p].queue[i] \in asked \cup {BootJob}
    /\ \A p, q \in Procs :
          \A i \in DOMAIN proc[p].queue, j \in DOMAIN proc[q].queue :
             proc[p].queue[i] = proc[q].queue[j] /\ proc[p].queue[i] # BootJob
                => p = q /\ i = j

(* A chained job was asked for; one still queued is about to leave. *)
ChainedLeaves ==
    \A k \in DOMAIN chain : chain[k].kind = "decision" =>
        /\ chain[k].job \in asked
        /\ \A p \in Procs : \A i \in DOMAIN proc[p].queue :
              chain[k].job = proc[p].queue[i] => i = 1 /\ proc[p].pc = "settle"

(* The boot's own job is never appended. *)
NotBoot(me) ==
    (me.pc = "open" \/ (me.pc \in {"head", "insert"} /\ me.what = "job"))
        => me.queue[1] # BootJob

BootNotAppended == \A p \in Procs : NotBoot(proc[p])

Once == ChainedOnce /\ QueuedOnce /\ ChainedLeaves /\ BootNotAppended

LEMMA InitOnce == Blank /\ Init => Once
BY DEF Blank, Init, Down, Once, ChainedOnce, QueuedOnce, ChainedLeaves,
       BootNotAppended, NotBoot

(* What the steps that chain nothing and ask for nothing do to a queue. *)
QueueStep(me, new) ==
    \/ new.queue = <<>> \/ new.queue = <<BootJob>>
    \/ new.queue = me.queue /\ me.pc # "settle"
    \/ new.queue = me.queue /\ new.pc = me.pc
    \/ me.pc = "settle" /\ new.queue = Tail(me.queue)

LEMMA StartedNotBoot ==
    ASSUME NEW me \in States
    PROVE  Started(me).queue = me.queue /\ NotBoot(Started(me))
<1>1. Appending(me, "job").queue = me.queue
  BY AppendingStates
<1>2. CASE me.queue[1] = BootJob
  BY <1>2 DEF Started, NotBoot, States
<1>3. CASE me.queue[1] # BootJob
  BY <1>1, <1>3 DEF Started, NotBoot, States
<1> QED
  BY <1>2, <1>3

LEMMA OtherQueueSteps ==
    ASSUME Inv, BootNotAppended, NEW p \in Procs, ~Chains(p),
           \/ Run(p) \/ StoreError(p) \/ Crash(p)
           \/ \E m \in Models : Boot(p, m)
    PROVE  QueueStep(proc[p], proc'[p]) /\ NotBoot(proc'[p]) /\ asked' = asked
<1>0. proc \in [Procs -> States] /\ proc[p] \in States /\ NotBoot(proc[p])
  BY DEF Inv, TypeOK, BootNotAppended, NotBoot
<1>1. CASE StoreError(p)
  BY <1>0, <1>1 DEF StoreError, Goto, QueueStep, NotBoot, States
<1>2. CASE Crash(p)
  BY <1>0, <1>2 DEF Crash, Dead, Down, QueueStep, NotBoot
<1>3. CASE \E m \in Models : Boot(p, m)
  BY <1>0, <1>3 DEF Boot, Down, Stores, QueueStep, NotBoot
<1>4. CASE Take(p)
  BY <1>0, <1>4, StartedNotBoot DEF Take, Stores, QueueStep, NotBoot, States
<1>5. CASE ReadMeta(p)
  BY <1>0, <1>5 DEF ReadMeta, Stores, QueueStep, NotBoot, States
<1>6. CASE ReadGenesis(p)
  <2>1. \/ proc'[p] = Appending(proc[p], "genesis")
        \/ proc'[p] = Appending(proc[p], "marker")
        \/ proc'[p] = [proc[p] EXCEPT !.pc = "verify"]
    BY <1>0, <1>6 DEF ReadGenesis, PastGenesis
  <2>2. proc'[p].queue = proc[p].queue /\ NotBoot(proc'[p])
    BY <1>0, <2>1, AppendingStates DEF NotBoot, States
  <2>3. asked' = asked /\ proc[p].pc = "genesis"
    BY <1>6 DEF ReadGenesis, Stores
  <2> QED
    BY <2>2, <2>3 DEF QueueStep
<1>7. CASE ReadHead(p)
  BY <1>0, <1>7 DEF ReadHead, Stores, QueueStep, NotBoot, States
<1>8. CASE Miss(p)
  <2>1. /\ proc'[p].queue = proc[p].queue /\ proc'[p].what = proc[p].what
        /\ proc[p].pc = "insert" /\ proc'[p].pc = "head" /\ asked' = asked
    BY <1>0, <1>8 DEF Miss, Stores, States
  <2>2. NotBoot(proc'[p])
    BY <1>0, <2>1 DEF NotBoot
  <2> QED
    BY <2>1, <2>2 DEF QueueStep
<1>9. CASE Exhaust(p)
  BY <1>0, <1>9 DEF Exhaust, Goto, Dead, Down, QueueStep, NotBoot, States
<1>10. CASE ClearStale(p)
  BY <1>0, <1>10 DEF ClearStale, Goto, QueueStep, NotBoot, States
<1>11. CASE Verify(p)
  <2> DEFINE me == [proc[p] EXCEPT !.initialized = TRUE]
  <2>1. me \in States /\ me.queue = proc[p].queue
    BY <1>0 DEF States
  <2>2. /\ proc'[p] = Started(me) \/ proc'[p] = Down
        /\ proc[p].pc = "verify" /\ asked' = asked
    BY <1>0, <1>11 DEF Verify, Dead
  <2> HIDE DEF me
  <2> QED
    BY <2>1, <2>2, StartedNotBoot DEF QueueStep, NotBoot, Down
<1>12. CASE OpenBracket(p)
  <2> DEFINE me == [proc[p] EXCEPT !.bracketOpen = TRUE]
  <2>1. me \in States /\ me.queue = proc[p].queue
    BY <1>0 DEF States
  <2>2. proc'[p] = Appending(me, "job") /\ proc[p].pc = "open" /\ asked' = asked
    BY <1>0, <1>12 DEF OpenBracket
  <2> HIDE DEF me
  <2>3. proc'[p].queue = me.queue
    BY <2>1, <2>2, AppendingStates
  <2>4. proc[p].queue[1] # BootJob
    BY <1>0, <2>2 DEF NotBoot
  <2> QED
    BY <2>1, <2>2, <2>3, <2>4, AppendingStates DEF QueueStep, NotBoot
<1>13. CASE Settle(p)
  <2>1. /\ proc'[p].queue = Tail(proc[p].queue) /\ proc'[p].pc \in {"close", "idle"}
        /\ proc[p].pc = "settle" /\ asked' = asked
    BY <1>0, <1>13 DEF Settle, Stores, States
  <2> QED
    BY <2>1 DEF QueueStep, NotBoot
<1>14. CASE CloseBracket(p)
  BY <1>0, <1>14 DEF CloseBracket, QueueStep, NotBoot, States
<1> QED
  BY <1>1, <1>2, <1>3, <1>4, <1>5, <1>6, <1>7, <1>8, <1>9, <1>10, <1>11, <1>12,
     <1>13, <1>14 DEF Run, Chains

LEMMA NextOnce == Inv /\ Once /\ [Next]_vars => Once'
<1> SUFFICES ASSUME Inv, Once, [Next]_vars PROVE Once'
  OBVIOUS
<1>1. /\ chain \in Seq(Records) /\ proc \in [Procs -> States]
      /\ \A p \in Procs : proc[p] \in States /\ Keeps(proc[p], chain)
      /\ \A p \in Procs : proc[p].queue \in Seq(Jobs \cup {BootJob})
  BY DEF Inv, TypeOK, States
<1>2. CASE UNCHANGED vars
  BY <1>2 DEF vars, Once, ChainedOnce, QueuedOnce, ChainedLeaves, BootNotAppended
<1>3. CASE Next
  <2>1. PICK p \in Procs :
          \/ Run(p) \/ StoreError(p) \/ Crash(p)
          \/ \E m \in Models : Boot(p, m)
          \/ \E j \in Jobs : Ask(p, j)
    BY <1>3 DEF Next
  <2>2. CASE Chains(p)
    <3> DEFINE job == proc[p].queue[1]
    <3>1. /\ proc[p].pc = "insert" /\ proc[p].queue # <<>> /\ asked' = asked
          /\ chain' = Append(chain, Record(proc[p].head,
                 IF proc[p].what = "job" THEN "decision" ELSE proc[p].what,
                 proc[p].model, IF proc[p].what = "job" THEN job ELSE BootJob))
      BY <1>1, <2>2 DEF Chains, Insert, StoreError, Commits, Keeps
    <3>2. /\ \/ proc'[p] = Appended(proc[p])
             \/ proc'[p] = [proc[p] EXCEPT !.pc = "settle"]
          /\ \A q \in Procs \ {p} : proc'[q] = proc[q]
      BY <2>2, InsertEffect
    <3>3. /\ proc'[p].queue = proc[p].queue
          /\ NotBoot(proc'[p])
          /\ proc[p].what = "job" => proc'[p].pc = "settle"
      <4>1. proc[p] \in States
        BY <1>1
      <4>6. CASE proc'[p] = [proc[p] EXCEPT !.pc = "settle"]
        BY <4>1, <4>6 DEF NotBoot, States
      <4>7. SUFFICES ASSUME proc'[p] = Appended(proc[p])
                     PROVE  /\ proc'[p].queue = proc[p].queue
                            /\ NotBoot(proc'[p])
                            /\ proc[p].what = "job" => proc'[p].pc = "settle"
        BY <3>2, <4>6
      <4>2. CASE proc[p].what = "job"
        BY <4>7, <4>1, <4>2 DEF Appended, NotBoot, States
      <4>3. CASE proc[p].what = "marker"
        BY <4>7, <4>1, <4>3 DEF Appended, NotBoot, States
      <4>4. CASE proc[p].what = "genesis"
        <5>1. \/ proc'[p] = Appending(proc[p], "marker")
              \/ proc'[p] = [proc[p] EXCEPT !.pc = "verify"]
          BY <4>7, <4>4 DEF Appended, PastGenesis
        <5> QED
          BY <4>1, <4>4, <5>1, AppendingStates DEF NotBoot, States
      <4>5. proc[p].what \in {"genesis", "marker", "job"}
        BY <4>1 DEF States
      <4> QED
        BY <4>2, <4>3, <4>4, <4>5
    <3>4. /\ Len(chain) \in Nat /\ DOMAIN chain = 1..Len(chain)
          /\ DOMAIN chain' = 1..(Len(chain) + 1)
          /\ \A i \in 1..Len(chain) : chain'[i] = chain[i]
          /\ chain'[Len(chain) + 1].kind = "decision" => proc[p].what = "job"
          /\ proc[p].what = "job" => chain'[Len(chain) + 1].job = job
      <4>1. proc[p].what \in {"genesis", "marker", "job"}
        BY <1>1 DEF States
      <4> QED
        BY <1>1, <3>1, <4>1 DEF Record
    <3>5. \A q \in Procs : proc'[q].queue = proc[q].queue
      BY <3>2, <3>3
    <3>6. QueuedOnce'
      BY <3>1, <3>5 DEF Once, QueuedOnce
    <3>7. BootNotAppended'
      <4>1. \A q \in Procs \ {p} : NotBoot(proc[q])
        BY DEF Once, BootNotAppended
      <4>2. \A q \in Procs : NotBoot(proc'[q])
        BY <3>2, <3>3, <4>1
      <4> QED
        BY <4>2 DEF BootNotAppended
    <3>8. 1 \in DOMAIN proc[p].queue
      BY <1>1, <3>1
    <3>9. proc[p].what = "job" => job # BootJob /\ job \in asked
      BY <3>1, <3>8 DEF Once, QueuedOnce, BootNotAppended, NotBoot
    <3>10. ChainedLeaves'
      <4> SUFFICES ASSUME NEW k \in DOMAIN chain', chain'[k].kind = "decision"
                   PROVE  /\ chain'[k].job \in asked'
                          /\ \A q \in Procs : \A i \in DOMAIN proc'[q].queue :
                                chain'[k].job = proc'[q].queue[i] =>
                                    i = 1 /\ proc'[q].pc = "settle"
        BY DEF ChainedLeaves
      <4>1. CASE k \in 1..Len(chain)
        <5>1. /\ chain[k].job \in asked
              /\ \A q \in Procs : \A i \in DOMAIN proc[q].queue :
                    chain[k].job = proc[q].queue[i] => i = 1 /\ proc[q].pc = "settle"
          BY <3>4, <4>1 DEF Once, ChainedLeaves
        <5>2. \A i \in DOMAIN proc[p].queue : chain[k].job # proc[p].queue[i]
          BY <3>1, <5>1
        <5> QED
          BY <3>1, <3>2, <3>4, <3>5, <4>1, <5>1, <5>2
      <4>2. CASE k = Len(chain) + 1
        <5>1. proc[p].what = "job" /\ chain'[k].job = job
          BY <3>4, <4>2
        <5>2. \A q \in Procs : \A i \in DOMAIN proc[q].queue :
                 job = proc[q].queue[i] => q = p /\ i = 1
          BY <3>8, <3>9, <5>1 DEF Once, QueuedOnce
        <5> QED
          BY <3>1, <3>3, <3>5, <3>9, <5>1, <5>2
      <4> QED
        BY <3>4, <4>1, <4>2
    <3>11. ChainedOnce'
      <4>1. proc[p].what = "job" => \A k \in DOMAIN chain :
               chain[k].kind = "decision" => chain[k].job # job
        BY <3>1, <3>8 DEF Once, ChainedLeaves
      <4>2. chain'[Len(chain) + 1].kind = "decision" =>
               proc[p].what = "job" /\ chain'[Len(chain) + 1].job = job
        BY <3>4
      <4> QED
        BY <3>4, <4>1, <4>2 DEF Once, ChainedOnce
    <3> QED
      BY <3>6, <3>7, <3>10, <3>11 DEF Once
  <2>3. CASE \E j \in Jobs : Ask(p, j)
    <3>1. PICK j \in Jobs : Ask(p, j)
      BY <2>3
    <3>2. /\ chain' = chain /\ asked' = asked \cup {j} /\ j \notin asked
          /\ proc'[p] = [proc[p] EXCEPT !.queue = Append(@, j)]
          /\ \A q \in Procs \ {p} : proc'[q] = proc[q]
      BY <1>1, <3>1 DEF Ask
    <3>3. /\ proc'[p].pc = proc[p].pc /\ proc'[p].what = proc[p].what
          /\ proc'[p].queue = Append(proc[p].queue, j)
          /\ proc[p].queue \in Seq(Jobs \cup {BootJob})
      BY <1>1, <3>2 DEF States
    <3> DEFINE n == Len(proc[p].queue)
    <3>4. /\ n \in Nat /\ DOMAIN proc[p].queue = 1..n
          /\ DOMAIN proc'[p].queue = 1..(n + 1)
          /\ \A i \in 1..n : proc'[p].queue[i] = proc[p].queue[i]
          /\ proc'[p].queue[n + 1] = j
      BY <3>3
    <3> HIDE DEF n
    <3>5. /\ \A q \in Procs \ {p} : proc'[q] = proc[q]
          /\ asked' = asked \cup {j} /\ j \notin asked /\ j # BootJob
          /\ chain' = chain
      BY <3>2, ConstantsOK DEF ConstantsOK
    <3>6. \A q \in Procs : \A i \in DOMAIN proc[q].queue : proc[q].queue[i] # j
      BY <3>5 DEF Once, QueuedOnce
    <3>7. QueuedOnce'
      <4>1. \A q \in Procs : \A i \in DOMAIN proc'[q].queue :
               \/ q = p /\ i = n + 1 /\ proc'[q].queue[i] = j
               \/ i \in DOMAIN proc[q].queue
                  /\ proc'[q].queue[i] = proc[q].queue[i]
        BY <3>4, <3>5
      <4>2. \A q \in Procs : \A i \in DOMAIN proc'[q].queue :
               proc'[q].queue[i] \in asked' \cup {BootJob}
        BY <3>5, <4>1 DEF Once, QueuedOnce
      <4>3. ASSUME NEW q \in Procs, NEW r \in Procs,
                   NEW i \in DOMAIN proc'[q].queue, NEW k \in DOMAIN proc'[r].queue,
                   proc'[q].queue[i] = proc'[r].queue[k],
                   proc'[q].queue[i] # BootJob
            PROVE  q = r /\ i = k
        BY <3>6, <4>1, <4>3 DEF Once, QueuedOnce
      <4> QED
        BY <4>2, <4>3 DEF QueuedOnce
    <3>8. ChainedLeaves'
      <4>1. \A q \in Procs : proc'[q].pc = proc[q].pc
        BY <3>3, <3>5
      <4>2. \A k \in DOMAIN chain : chain[k].kind = "decision" => chain[k].job # j
        BY <3>5 DEF Once, ChainedLeaves
      <4>3. \A q \in Procs : \A i \in DOMAIN proc'[q].queue :
               \/ proc'[q].queue[i] = j
               \/ i \in DOMAIN proc[q].queue
                  /\ proc'[q].queue[i] = proc[q].queue[i]
        BY <3>4, <3>5
      <4> QED
        BY <3>5, <4>1, <4>2, <4>3 DEF Once, ChainedLeaves
    <3>9. BootNotAppended'
      <4>1. \A q \in Procs : NotBoot(proc[q])
        BY DEF Once, BootNotAppended
      <4>2. proc[p].pc \in {"open", "head", "insert"} =>
               proc'[p].queue[1] = proc[p].queue[1]
        <5>1. proc[p].pc \in {"open", "head", "insert"} => proc[p].queue # <<>>
          BY <1>1 DEF Keeps
        <5>2. proc[p].queue # <<>> => n >= 1
          BY <3>3, <3>4
        <5> QED
          BY <3>4, <5>1, <5>2
      <4>3. \A q \in Procs : NotBoot(proc'[q])
        BY <3>3, <3>5, <4>1, <4>2 DEF NotBoot
      <4> QED
        BY <4>3 DEF BootNotAppended
    <3>10. ChainedOnce'
      BY <3>2 DEF Once, ChainedOnce
    <3> QED
      BY <3>7, <3>8, <3>9, <3>10 DEF Once
  <2>4. CASE ~Chains(p) /\ ~\E j \in Jobs : Ask(p, j)
    <3>1. /\ QueueStep(proc[p], proc'[p]) /\ NotBoot(proc'[p]) /\ asked' = asked
      BY <2>1, <2>4, OtherQueueSteps DEF Once
    <3>2. chain' = chain /\ \A q \in Procs \ {p} : proc'[q] = proc[q]
      BY <2>1, <2>4, OutsideMoves, InitMoves, JobMoves DEF Moves, Run, Chains
    <3>3. BootNotAppended'
      <4>1. \A q \in Procs : NotBoot(proc[q])
        BY DEF Once, BootNotAppended
      <4>2. \A q \in Procs : NotBoot(proc'[q])
        BY <3>1, <3>2, <4>1
      <4> QED
        BY <4>2 DEF BootNotAppended
    <3>4. ChainedOnce'
      BY <3>2 DEF Once, ChainedOnce
    <3>5. \E d \in {0, 1} :
            /\ d = 1 => proc[p].pc = "settle"
            /\ d = 0 => proc[p].pc # "settle" \/ proc'[p].pc = proc[p].pc
                        \/ \A i \in DOMAIN proc'[p].queue :
                              proc'[p].queue[i] = BootJob
            /\ \A i \in DOMAIN proc'[p].queue :
                  /\ i \in Nat \ {0}
                  /\ \/ proc'[p].queue[i] = BootJob
                     \/ /\ i + d \in DOMAIN proc[p].queue
                        /\ proc'[p].queue[i] = proc[p].queue[i + d]
      <4>1. CASE proc'[p].queue = <<>> \/ proc'[p].queue = <<BootJob>>
        BY <4>1
      <4>2. CASE /\ proc'[p].queue = proc[p].queue
                 /\ proc[p].pc # "settle" \/ proc'[p].pc = proc[p].pc
        BY <1>1, <4>2
      <4>3. CASE proc[p].pc = "settle" /\ proc'[p].queue = Tail(proc[p].queue)
        <5>1. proc[p].queue # <<>> /\ proc[p].queue \in Seq(Jobs \cup {BootJob})
          BY <1>1, <4>3 DEF Keeps
        <5>2. \A i \in DOMAIN Tail(proc[p].queue) :
                /\ i \in Nat \ {0} /\ i + 1 \in DOMAIN proc[p].queue
                /\ Tail(proc[p].queue)[i] = proc[p].queue[i + 1]
          BY <5>1
        <5> QED
          BY <4>3, <5>2
      <4> QED
        BY <3>1, <4>1, <4>2, <4>3 DEF QueueStep
    <3>6. PICK d \in {0, 1} :
            /\ d = 1 => proc[p].pc = "settle"
            /\ d = 0 => proc[p].pc # "settle" \/ proc'[p].pc = proc[p].pc
                        \/ \A i \in DOMAIN proc'[p].queue :
                              proc'[p].queue[i] = BootJob
            /\ \A i \in DOMAIN proc'[p].queue :
                  /\ i \in Nat \ {0}
                  /\ \/ proc'[p].queue[i] = BootJob
                     \/ /\ i + d \in DOMAIN proc[p].queue
                        /\ proc'[p].queue[i] = proc[p].queue[i + d]
      BY <3>5
    <3>7. QueuedOnce'
      <4>1. \A q \in Procs : \A i \in DOMAIN proc'[q].queue :
               proc'[q].queue[i] \in asked' \cup {BootJob}
        BY <3>1, <3>2, <3>6 DEF Once, QueuedOnce
      <4>2. ASSUME NEW q \in Procs, NEW r \in Procs,
                   NEW i \in DOMAIN proc'[q].queue, NEW k \in DOMAIN proc'[r].queue,
                   proc'[q].queue[i] = proc'[r].queue[k],
                   proc'[q].queue[i] # BootJob
            PROVE  q = r /\ i = k
        BY <3>2, <3>6, <4>2 DEF Once, QueuedOnce
      <4> QED
        BY <4>1, <4>2 DEF QueuedOnce
    <3>8. ChainedLeaves'
      <4>1. \A k \in DOMAIN chain : chain[k].kind = "decision" => chain[k].job # BootJob
        BY ConstantsOK DEF ConstantsOK, Once, ChainedLeaves, Inv, TypeOK
      <4>2. ASSUME NEW k \in DOMAIN chain, chain[k].kind = "decision",
                   NEW i \in DOMAIN proc'[p].queue,
                   chain[k].job = proc'[p].queue[i]
            PROVE  i = 1 /\ proc'[p].pc = "settle"
        <5>1. /\ proc'[p].queue[i] # BootJob /\ i \in Nat \ {0}
              /\ i + d \in DOMAIN proc[p].queue
              /\ chain[k].job = proc[p].queue[i + d]
          BY <3>6, <4>1, <4>2
        <5>2. i + d = 1 /\ proc[p].pc = "settle"
          BY <4>2, <5>1 DEF Once, ChainedLeaves
        <5> QED
          BY <3>6, <5>1, <5>2
      <4> QED
        BY <3>1, <3>2, <4>2 DEF Once, ChainedLeaves
    <3> QED
      BY <3>3, <3>4, <3>7, <3>8 DEF Once
  <2> QED
    BY <2>2, <2>3, <2>4
<1> QED
  BY <1>2, <1>3

(***************************************************************************)
(* A CAS miss re-chains the payload and a failed job leaves the queue: no  *)
(* denial or admission is ever chained twice, whichever process took it    *)
(* and however its attempts, crashes and store errors fall                 *)
(* (decisions.ts:277-329, enqueue 338-345).                                *)
(***************************************************************************)
THEOREM ChainsOnce == Sound /\ Blank /\ Spec => []ChainedOnce
<1>1. Once => ChainedOnce
  BY DEF Once
<1> QED
  BY <1>1, InitOnce, NextOnce, Invariance, PTL DEF Spec
=============================================================================
