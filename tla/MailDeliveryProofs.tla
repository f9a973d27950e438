------------------------- MODULE MailDeliveryProofs -------------------------
(***************************************************************************)
(* That every copy of a notice beyond the first has a fault of its own     *)
(* (MailDelivery), for any nodes, notices, attempts and bounds.            *)
(*                                                                         *)
(* The invariant counts, with what has been sent of a notice, what may     *)
(* still be sent of it: once more under the lease as long as its row is    *)
(* open, and once more by each worker that has outlived its lease.  A step *)
(* spends a claim on a copy, passes it on, or pays for a new one with a    *)
(* fault.  The second conjunct of the property comes along.                *)
(***************************************************************************)
EXTENDS MailDelivery, FiniteSetTheorems, TLAPS, WellFoundedInduction

Places == {"idle", "list", "send", "success", "successTxn", "successRecord",
           "failure", "failureTxn", "failureRecord"}

Rows == [raised : BOOLEAN, fence : Nat, state : {"none", "pending", "sent", "failed"},
         attempts : Nat, due : BOOLEAN]

Tables == [Notices -> Rows]

Passes == [pc : Places, token : Nat, todo : SUBSET Notices, notice : Notices \cup {None},
           attempts : Nat]

TypeOK ==
    /\ db \in Tables
    /\ lag \in [Nodes -> Seq(Tables)]
    /\ holder \in Workers \cup {None}
    /\ worker \in [Workers -> Passes]
    /\ sends \in [Notices -> Nat]
    /\ faults \in Nat

(* Finitely many tokens are in use, however many workers there are. *)
Bounded ==
    \E b \in Nat : /\ \A n \in Notices : db[n].fence <= b
                   /\ \A w \in Workers : worker[w].token <= b

(* A worker past its list is on a notice it has struck off that list. *)
OnNotice(p) ==
    p.pc \notin {"idle", "list"} => p.notice \in Notices /\ p.notice \notin p.todo

Busy == \A w \in Workers : OnNotice(worker[w])

(* Nobody has a higher token than who holds the lease, and no row a higher fence. *)
HolderFirst ==
    holder # None /\ Running(holder) =>
        /\ \A w \in Workers : worker[w].token <= worker[holder].token
        /\ \A n \in Notices : db[n].fence <= worker[holder].token

(* A pass p that is about to send n, whose row stands at this fence, or to write
   that it has not been sent. *)
Tries(p, n, fence) ==
    /\ p.notice = n
    /\ p.pc = "send" \/ (p.pc \in {"failure", "failureTxn"} /\ fence <= p.token)

(* A pass that has sent n, and has yet to write it. *)
HasSent(p, n) == p.notice = n /\ p.pc \in {"success", "successTxn"}

Retries(w, n) == Tries(worker[w], n, db[n].fence)

Open(n) == db[n].state \in {"none", "pending"}

(* Under the lease n is to be sent once more. *)
Owed(n) ==
    /\ holder # None => ~HasSent(worker[holder], n)
    /\ Open(n) \/ (holder # None /\ Retries(holder, n))

(* Who has outlived its lease and may send n once more, or have it sent again. *)
Strays(n) ==
    {w \in Workers : Running(w) /\ holder # w /\ (n \in worker[w].todo \/ Retries(w, n))}

(* What may still be sent of n: None stands for the lease. *)
Claims(n) == Strays(n) \cup {x \in {None} : Owed(n)}

(* Of every copy that is sent or may be, but the first, there is a fault. *)
Accounts(n) == IsFiniteSet(Claims(n)) /\ sends[n] + Cardinality(Claims(n)) <= 1 + faults

(* Who is to write that n was sent, and who reads it, finds it was. *)
Accepted(n) ==
    /\ db[n].state = "sent" => sends[n] > 0
    /\ \A w \in Workers : HasSent(worker[w], n) => sends[n] > 0

Inv ==
    /\ TypeOK /\ Bounded /\ Busy /\ HolderFirst
    /\ \A n \in Notices : Accounts(n) /\ Accepted(n)
-----------------------------------------------------------------------------
(* A non-empty set of naturals below a bound has a largest element: mirrored
   below the bound it has a least one, of which the library knows. *)
LEMMA MaxOfBounded ==
    ASSUME NEW N \in Nat, NEW S, S \subseteq 0..N, S # {}
    PROVE  Max(S) \in S /\ \A x \in S : x <= Max(S)
<1> DEFINE T == {N - x : x \in S}
<1>1. \A x \in S : x \in 0..N /\ N - x \in Nat
  OBVIOUS
<1>2. T \subseteq Nat /\ T # {}
  BY <1>1
<1>3. PICK m \in T : \A y \in T : ~ (<<y, m>> \in OpToRel(<, Nat))
  <2> HIDE DEF T
  <2> QED
    BY <1>2, WFMin, NatLessThanWellFounded
<1>4. \A y \in T : m <= y
  <2> SUFFICES ASSUME NEW y \in T, ~ (m <= y) PROVE FALSE
    OBVIOUS
  <2>1. y \in Nat /\ m \in Nat /\ y < m
    BY <1>2
  <2>2. <<y, m>> \in OpToRel(<, Nat)
    BY <2>1 DEF OpToRel
  <2> QED
    BY <1>3, <2>2
<1>5. PICK x \in S : m = N - x
  OBVIOUS
<1>6. \A y \in S : N - y \in T
  OBVIOUS
<1>7. \A y \in S : x >= y
  BY <1>1, <1>4, <1>5, <1>6
<1> QED
  BY <1>7 DEF Max

(* A new token is a natural number above every token and fence in use. *)
LEMMA NextTokenFresh ==
    ASSUME TypeOK, Bounded
    PROVE  /\ NextToken \in Nat
           /\ \A n \in Notices : db[n].fence <= NextToken
           /\ \A w \in Workers : worker[w].token <= NextToken
<1>1. /\ \A n \in Notices : db[n].fence \in Nat
      /\ \A w \in Workers : worker[w].token \in Nat
  BY DEF TypeOK, Tables, Rows, Passes
<1>2. PICK b \in Nat : /\ \A n \in Notices : db[n].fence <= b
                       /\ \A w \in Workers : worker[w].token <= b
  BY DEF Bounded
<1> DEFINE S == {0} \cup {db[n].fence : n \in Notices} \cup {worker[w].token : w \in Workers}
<1>3. S \subseteq 0..b /\ S # {}
  BY <1>1, <1>2
<1>4. NextToken = 1 + Max(S)
  BY DEF NextToken
<1>5. /\ \A n \in Notices : db[n].fence \in S
      /\ \A w \in Workers : worker[w].token \in S
  OBVIOUS
<1> HIDE DEF S
<1>6. Max(S) \in S /\ \A x \in S : x <= Max(S)
  BY <1>3, MaxOfBounded
<1>7. Max(S) \in 0..b
  BY <1>3, <1>6
<1>8. Max(S) \in Nat
  BY <1>7
<1>9. \A x \in S : x \in Nat /\ x <= 1 + Max(S)
  <2>1. \A x \in S : x \in 0..b
    BY <1>3
  <2> QED
    BY <1>6, <1>8, <2>1
<1> QED
  BY <1>4, <1>5, <1>8, <1>9

-----------------------------------------------------------------------------
(* The account, when a set of claims C becomes D. *)
LEMMA Count ==
    ASSUME NEW C, NEW D, IsFiniteSet(C), NEW s \in Nat, NEW f \in Nat,
           s + Cardinality(C) <= 1 + f
    PROVE  /\ D \subseteq C => /\ IsFiniteSet(D)
                               /\ s + Cardinality(D) <= 1 + f
                               /\ s + 1 + Cardinality(D) <= 1 + (f + 1)
                               /\ s + Cardinality(D) <= 1 + (f + 1)
           /\ \A x : D \subseteq C \cup {x} =>
                 IsFiniteSet(D) /\ s + Cardinality(D) <= 1 + (f + 1)
           /\ \A x \in C : D \subseteq C \ {x} =>
                 IsFiniteSet(D) /\ s + 1 + Cardinality(D) <= 1 + f
           /\ \A x \in C : \A y : D \subseteq (C \ {x}) \cup {y} =>
                 IsFiniteSet(D) /\ s + Cardinality(D) <= 1 + f
<1>1. Cardinality(C) \in Nat
  BY FS_CardinalityType
<1>2. ASSUME NEW E, IsFiniteSet(E), D \subseteq E
      PROVE  IsFiniteSet(D) /\ Cardinality(D) \in Nat /\ Cardinality(E) \in Nat
             /\ Cardinality(D) <= Cardinality(E)
  BY <1>2, FS_Subset, FS_CardinalityType
<1>3. ASSUME D \subseteq C
      PROVE  /\ IsFiniteSet(D)
             /\ s + Cardinality(D) <= 1 + f
             /\ s + 1 + Cardinality(D) <= 1 + (f + 1)
             /\ s + Cardinality(D) <= 1 + (f + 1)
  <2>1. IsFiniteSet(D) /\ Cardinality(D) \in Nat /\ Cardinality(D) <= Cardinality(C)
    BY <1>2, <1>3
  <2> QED
    BY <1>1, <2>1
<1>4. ASSUME NEW x, D \subseteq C \cup {x}
      PROVE  IsFiniteSet(D) /\ s + Cardinality(D) <= 1 + (f + 1)
  <2>1. IsFiniteSet(C \cup {x}) /\ Cardinality(C \cup {x}) <= Cardinality(C) + 1
    BY <1>1, FS_AddElement
  <2>2. IsFiniteSet(D) /\ Cardinality(D) \in Nat /\ Cardinality(C \cup {x}) \in Nat
        /\ Cardinality(D) <= Cardinality(C \cup {x})
    BY <1>2, <1>4, <2>1
  <2> QED
    BY <1>1, <2>1, <2>2
<1>5. ASSUME NEW x \in C
      PROVE  IsFiniteSet(C \ {x}) /\ Cardinality(C \ {x}) = Cardinality(C) - 1
  BY FS_RemoveElement
<1>6. ASSUME NEW x \in C, D \subseteq C \ {x}
      PROVE  IsFiniteSet(D) /\ s + 1 + Cardinality(D) <= 1 + f
  <2>1. IsFiniteSet(D) /\ Cardinality(D) \in Nat /\ Cardinality(D) <= Cardinality(C \ {x})
    BY <1>2, <1>5, <1>6
  <2>2. Cardinality(C \ {x}) = Cardinality(C) - 1
    BY <1>5
  <2> QED
    BY <1>1, <2>1, <2>2
<1>7. ASSUME NEW x \in C, NEW y, D \subseteq (C \ {x}) \cup {y}
      PROVE  IsFiniteSet(D) /\ s + Cardinality(D) <= 1 + f
  <2> DEFINE E == C \ {x}
  <2>1. IsFiniteSet(E) /\ Cardinality(E) \in Nat /\ Cardinality(E) = Cardinality(C) - 1
    BY <1>5, FS_CardinalityType
  <2>2. D \subseteq E \cup {y}
    BY <1>7
  <2> HIDE DEF E
  <2>3. IsFiniteSet(E \cup {y}) /\ Cardinality(E \cup {y}) <= Cardinality(E) + 1
    <3>1. IsFiniteSet(E)
      BY <2>1
    <3>2. /\ IsFiniteSet(E \cup {y})
          /\ Cardinality(E \cup {y}) = IF y \in E THEN Cardinality(E) ELSE Cardinality(E) + 1
      BY <3>1, FS_AddElement
    <3> QED
      BY <2>1, <3>2
  <2>4. IsFiniteSet(D) /\ Cardinality(D) \in Nat /\ Cardinality(E \cup {y}) \in Nat
        /\ Cardinality(D) <= Cardinality(E \cup {y})
    BY <1>2, <2>2, <2>3
  <2> QED
    BY <1>1, <2>1, <2>3, <2>4
<1> QED
  BY <1>3, <1>4, <1>6, <1>7

(* None is no worker, so the lease's claim is nobody else's. *)
LEMMA ClaimsAre ==
    ASSUME NEW n \in Notices
    PROVE  /\ None \in Claims(n) <=> Owed(n)
           /\ \A w \in Workers : w \in Claims(n) <=> w \in Strays(n)
           /\ Claims(n) \subseteq Workers \cup {None}
BY ConstantsOK DEF ConstantsOK, Claims, Strays

-----------------------------------------------------------------------------
(* A running worker w goes on as p: it keeps its token and its lease, unless it
   leaves, and no notice comes to its list. *)
Moves(w, p) ==
    /\ Running(w)
    /\ worker' = [worker EXCEPT ![w] = p]
    /\ holder' = IF holder = w /\ p.pc = "idle" THEN None ELSE holder
    /\ p.token = IF p.pc = "idle" THEN 0 ELSE worker[w].token
    /\ p.todo \subseteq worker[w].todo
    /\ OnNotice(p)

(* What makes a worker that has outlived its lease a stray. *)
Due(p, n, fence) == n \in p.todo \/ Tries(p, n, fence)

(* A worker that does not step claims no more than before, fences only grow. *)
LEMMA BystanderClaims ==
    ASSUME TypeOK, db' \in Tables, NEW n \in Notices, db[n].fence <= db'[n].fence,
           NEW v \in Workers, worker'[v] = worker[v]
    PROVE  /\ Retries(v, n)' => Retries(v, n)
           /\ (holder' = v <=> holder = v) => (v \in Strays(n)' => v \in Strays(n))
<1>1. worker[v].token \in Nat /\ db[n].fence \in Nat /\ db'[n].fence \in Nat
  BY DEF TypeOK, Passes, Tables, Rows
<1>2. db'[n].fence <= worker[v].token => db[n].fence <= worker[v].token
  BY <1>1
<1>3. Retries(v, n)' => Retries(v, n)
  BY <1>2 DEF Retries, Tries
<1> QED
  BY <1>3 DEF Strays, Running

(* The claims on n after w went on as p without the lease. *)
LEMMA StrayMoves ==
    ASSUME TypeOK, db' \in Tables, NEW w \in Workers, NEW p \in Passes, Moves(w, p),
           holder # w, NEW n \in Notices, db[n].fence <= db'[n].fence
    PROVE  /\ w \in Claims(n) <=> Due(worker[w], n, db[n].fence)
           /\ (Open(n)' => Open(n)) => Claims(n)' \subseteq Claims(n) \cup {w}
           /\ (Open(n)' => Open(n)) /\ (Due(p, n, db'[n].fence) => Due(worker[w], n, db[n].fence))
                 => Claims(n)' \subseteq Claims(n)
           /\ (Open(n)' => Open(n)) /\ ~Due(p, n, db'[n].fence)
                 => Claims(n)' \subseteq Claims(n) \ {w}
           /\ ~Due(p, n, db'[n].fence) => Claims(n)' \subseteq (Claims(n) \ {w}) \cup {None}
<1>1. /\ holder' = holder /\ worker'[w] = p /\ w # None
      /\ \A v \in Workers : v # w => worker'[v] = worker[v]
      /\ holder \in Workers \cup {None}
  BY ConstantsOK DEF ConstantsOK, TypeOK, Moves
<1>2. ASSUME NEW v \in Workers, v # w
      PROVE  /\ Retries(v, n)' => Retries(v, n)
             /\ v \in Strays(n)' => v \in Strays(n)
  BY <1>1, <1>2, BystanderClaims
<1>3. /\ w \in Strays(n) <=> Due(worker[w], n, db[n].fence)
      /\ w \in Strays(n)' => Due(p, n, db'[n].fence)
  BY <1>1 DEF Strays, Due, Retries, Moves
<1>4. Owed(n)' /\ (Open(n)' => Open(n)) => Owed(n)
  BY <1>1, <1>2 DEF Owed
<1>5. /\ None \in Claims(n) <=> Owed(n)
      /\ \A v \in Workers : v \in Claims(n) <=> v \in Strays(n)
  BY ClaimsAre
<1>6. /\ None \in Claims(n)' <=> Owed(n)'
      /\ \A v \in Workers : v \in Claims(n)' <=> v \in Strays(n)'
      /\ Claims(n)' \subseteq Workers \cup {None}
  BY ConstantsOK DEF ConstantsOK, Claims, Strays
<1> QED
  BY <1>1, <1>2, <1>3, <1>4, <1>5, <1>6

(* The claims on n after w went on as p under the lease. *)
LEMMA HolderMoves ==
    ASSUME TypeOK, db' \in Tables, NEW w \in Workers, NEW p \in Passes, Moves(w, p),
           holder = w, NEW n \in Notices, db[n].fence <= db'[n].fence
    PROVE  /\ None \in Claims(n) <=> /\ ~HasSent(worker[w], n)
                                     /\ Open(n) \/ Tries(worker[w], n, db[n].fence)
           /\ Claims(n)' \subseteq Claims(n) \cup {None}
           /\ (/\ ~HasSent(p, n)
               /\ Open(n)' \/ Tries(p, n, db'[n].fence)
               => None \in Claims(n))
                 => Claims(n)' \subseteq Claims(n)
           /\ HasSent(p, n) => Claims(n)' \subseteq Claims(n) \ {None}
<1>1. /\ holder' = IF p.pc = "idle" THEN None ELSE w
      /\ worker'[w] = p /\ w # None
      /\ \A v \in Workers : v # w => worker'[v] = worker[v]
  BY ConstantsOK DEF ConstantsOK, TypeOK, Moves
<1>2. ASSUME NEW v \in Workers, v \in Strays(n)'
      PROVE  v \in Strays(n)
  <2>1. v # w
    BY <1>1, <1>2 DEF Strays, Running
  <2>2. holder' # v /\ holder # v /\ worker'[v] = worker[v]
    BY <1>1, <2>1, ConstantsOK DEF ConstantsOK
  <2> QED
    BY <1>2, <2>2, BystanderClaims
<1>3. p.pc = "idle" => ~HasSent(p, n) /\ ~Tries(p, n, db'[n].fence)
  BY DEF HasSent, Tries
<1>4. Owed(n)' <=> ~HasSent(p, n) /\ (Open(n)' \/ Tries(p, n, db'[n].fence))
  BY <1>1, <1>3 DEF Owed, Retries
<1>5. Owed(n) <=> ~HasSent(worker[w], n) /\ (Open(n) \/ Tries(worker[w], n, db[n].fence))
  BY <1>1 DEF Owed, Retries
<1>6. /\ None \in Claims(n) <=> Owed(n)
      /\ \A v \in Workers : v \in Claims(n) <=> v \in Strays(n)
  BY ClaimsAre
<1>7. /\ None \in Claims(n)' <=> Owed(n)'
      /\ \A v \in Workers : v \in Claims(n)' <=> v \in Strays(n)'
      /\ Claims(n)' \subseteq Workers \cup {None}
  BY ConstantsOK DEF ConstantsOK, Claims, Strays
<1> QED
  BY <1>2, <1>4, <1>5, <1>6, <1>7

(* A step about another notice adds no claim on n. *)
LEMMA OtherNotice ==
    ASSUME TypeOK, db' \in Tables, NEW w \in Workers, NEW p \in Passes, Moves(w, p),
           NEW n \in Notices, db'[n] = db[n],
           ~HasSent(worker[w], n), ~Tries(p, n, db[n].fence)
    PROVE  Claims(n)' \subseteq Claims(n)
<1>1. db[n].fence \in Nat /\ db[n].fence <= db'[n].fence
  BY DEF TypeOK, Tables, Rows
<1>2. (Open(n)' => Open(n)) /\ (Open(n) => Open(n)')
  BY DEF Open
<1>3. CASE holder = w
  BY <1>1, <1>2, <1>3, HolderMoves
<1>4. CASE holder # w
  <2>1. Due(p, n, db'[n].fence) => Due(worker[w], n, db[n].fence)
    BY DEF Due, Moves
  <2> QED
    BY <1>1, <1>2, <1>4, <2>1, StrayMoves
<1> QED
  BY <1>3, <1>4

(* Types, tokens and the holder's lead, after w went on as p and wrote at most
   fences of its own token. *)
LEMMA MoveState ==
    ASSUME Inv, NEW w \in Workers, NEW p \in Passes, Moves(w, p),
           db' \in Tables, lag' \in [Nodes -> Seq(Tables)],
           sends' \in [Notices -> Nat], faults' \in Nat,
           \A n \in Notices : db'[n].fence \in {db[n].fence, worker[w].token}
    PROVE  TypeOK' /\ Bounded' /\ Busy' /\ HolderFirst'
<1> USE DEF Inv
<1>1. /\ worker \in [Workers -> Passes] /\ holder \in Workers \cup {None}
      /\ worker' = [worker EXCEPT ![w] = p]
      /\ holder' \in {holder, None}
  BY DEF TypeOK, Moves
<1>2. /\ worker'[w] = p
      /\ \A v \in Workers : v # w => worker'[v] = worker[v]
  BY <1>1
<1>3. /\ \A v \in Workers : worker[v].token \in Nat
      /\ p.token \in Nat
      /\ \A n \in Notices : db[n].fence \in Nat
  BY DEF TypeOK, Passes, Tables, Rows
<1>4. TypeOK'
  BY <1>1 DEF TypeOK
<1>5. \A v \in Workers : worker'[v].token <= worker[v].token
  BY <1>2, <1>3 DEF Moves
<1>6. Bounded'
  <2>1. PICK b \in Nat : /\ \A n \in Notices : db[n].fence <= b
                         /\ \A v \in Workers : worker[v].token <= b
    BY DEF Bounded
  <2>2. \A n \in Notices : db'[n].fence <= b
    BY <2>1
  <2>3. \A v \in Workers : worker'[v].token \in Nat
    BY <1>2, <1>3
  <2>4. \A v \in Workers : worker'[v].token <= b
    BY <1>3, <1>5, <2>1, <2>3
  <2> QED
    BY <2>2, <2>4 DEF Bounded
<1>7. Busy'
  BY <1>2 DEF Busy, Moves
<1>8. HolderFirst'
  <2> SUFFICES ASSUME holder' # None, Running(holder)'
               PROVE  /\ \A v \in Workers : worker'[v].token <= worker'[holder'].token
                      /\ \A n \in Notices : db'[n].fence <= worker'[holder'].token
    BY DEF HolderFirst
  <2>1. holder' = holder /\ holder \in Workers
    BY <1>1
  <2>2. worker'[holder].token = worker[holder].token
    <3>1. CASE holder = w
      <4>1. p.pc # "idle"
        BY <1>2, <2>1, <3>1 DEF Running
      <4> QED
        BY <1>2, <3>1, <4>1 DEF Moves
    <3>2. CASE holder # w
      BY <1>2, <2>1, <3>2
    <3> QED
      BY <3>1, <3>2
  <2>3. Running(holder)
    <3>1. CASE holder = w
      BY <3>1 DEF Moves
    <3>2. CASE holder # w
      BY <1>2, <2>1, <3>2 DEF Running
    <3> QED
      BY <3>1, <3>2
  <2>4. /\ \A v \in Workers : worker[v].token <= worker[holder].token
        /\ \A n \in Notices : db[n].fence <= worker[holder].token
    BY <2>1, <2>3 DEF HolderFirst
  <2>5. \A v \in Workers : worker'[v].token <= worker[holder].token
    <3>1. \A v \in Workers : worker'[v].token \in Nat
      BY <1>2, <1>3
    <3> QED
      BY <1>3, <1>5, <2>1, <2>4, <3>1
  <2> QED
    BY <2>1, <2>2, <2>4, <2>5
<1> QED
  BY <1>4, <1>6, <1>7, <1>8

(* What is marked as sent was sent, after w went on as p. *)
LEMMA MoveAccepted ==
    ASSUME TypeOK, NEW w \in Workers, NEW p \in Passes, Moves(w, p), NEW n \in Notices,
           Accepted(n), sends'[n] \in {sends[n], sends[n] + 1},
           db'[n].state = "sent" => db[n].state = "sent" \/ HasSent(worker[w], n),
           HasSent(p, n) => HasSent(worker[w], n) \/ sends'[n] = sends[n] + 1
    PROVE  Accepted(n)'
<1>1. /\ worker'[w] = p
      /\ \A v \in Workers : v # w => worker'[v] = worker[v]
      /\ sends[n] \in Nat
  BY DEF TypeOK, Moves
<1>2. sends[n] > 0 \/ sends'[n] = sends[n] + 1 => sends'[n] > 0
  BY <1>1
<1>3. db'[n].state = "sent" => sends'[n] > 0
  BY <1>2 DEF Accepted
<1>4. ASSUME NEW v \in Workers, HasSent(worker'[v], n)
      PROVE  sends'[n] > 0
  <2>1. CASE v = w
    BY <1>1, <1>2, <1>4, <2>1 DEF Accepted
  <2>2. CASE v # w
    BY <1>1, <1>2, <1>4, <2>2 DEF Accepted
  <2> QED
    BY <2>1, <2>2
<1> QED
  BY <1>3, <1>4 DEF Accepted

(* The account of n after a step: a copy or a new claim costs a claim or a fault. *)
LEMMA Account ==
    ASSUME TypeOK, NEW n \in Notices, Accounts(n)
    PROVE  /\ /\ Claims(n)' \subseteq Claims(n)
              /\ sends'[n] = sends[n] /\ faults' \in {faults, faults + 1}
              => Accounts(n)'
           /\ /\ Claims(n)' \subseteq Claims(n)
              /\ sends'[n] = sends[n] + 1 /\ faults' = faults + 1
              => Accounts(n)'
           /\ \A x : /\ Claims(n)' \subseteq Claims(n) \cup {x}
                     /\ sends'[n] = sends[n] /\ faults' = faults + 1
                     => Accounts(n)'
           /\ \A x \in Claims(n) : /\ Claims(n)' \subseteq Claims(n) \ {x}
                                   /\ sends'[n] = sends[n] + 1 /\ faults' = faults
                                   => Accounts(n)'
           /\ \A x \in Claims(n) : \A y : /\ Claims(n)' \subseteq (Claims(n) \ {x}) \cup {y}
                                          /\ sends'[n] = sends[n] /\ faults' = faults
                                          => Accounts(n)'
<1> DEFINE C == Claims(n)
           D == Claims(n)'
<1>1. IsFiniteSet(C) /\ sends[n] + Cardinality(C) <= 1 + faults
  BY DEF Accounts
<1>2. sends[n] \in Nat /\ faults \in Nat
  BY DEF TypeOK
<1>3. Accounts(n)' <=> IsFiniteSet(D) /\ sends'[n] + Cardinality(D) <= 1 + faults'
  BY DEF Accounts
<1> HIDE DEF C, D
<1>4. /\ D \subseteq C => /\ IsFiniteSet(D)
                          /\ sends[n] + Cardinality(D) <= 1 + faults
                          /\ sends[n] + 1 + Cardinality(D) <= 1 + (faults + 1)
                          /\ sends[n] + Cardinality(D) <= 1 + (faults + 1)
      /\ \A x : D \subseteq C \cup {x} =>
            IsFiniteSet(D) /\ sends[n] + Cardinality(D) <= 1 + (faults + 1)
      /\ \A x \in C : D \subseteq C \ {x} =>
            IsFiniteSet(D) /\ sends[n] + 1 + Cardinality(D) <= 1 + faults
      /\ \A x \in C : \A y : D \subseteq (C \ {x}) \cup {y} =>
            IsFiniteSet(D) /\ sends[n] + Cardinality(D) <= 1 + faults
  BY <1>1, <1>2, Count
<1>5. ASSUME D \subseteq C, sends'[n] = sends[n], faults' \in {faults, faults + 1}
      PROVE  Accounts(n)'
  BY <1>3, <1>4, <1>5
<1>6. ASSUME D \subseteq C, sends'[n] = sends[n] + 1, faults' = faults + 1
      PROVE  Accounts(n)'
  BY <1>3, <1>4, <1>6
<1>7. ASSUME NEW x, D \subseteq C \cup {x}, sends'[n] = sends[n], faults' = faults + 1
      PROVE  Accounts(n)'
  BY <1>3, <1>4, <1>7
<1>8. ASSUME NEW x \in C, D \subseteq C \ {x}, sends'[n] = sends[n] + 1, faults' = faults
      PROVE  Accounts(n)'
  BY <1>3, <1>4, <1>8
<1>9. ASSUME NEW x \in C, NEW y, D \subseteq (C \ {x}) \cup {y},
             sends'[n] = sends[n], faults' = faults
      PROVE  Accounts(n)'
  BY <1>3, <1>4, <1>9
<1> QED
  BY <1>5, <1>6, <1>7, <1>8, <1>9 DEF C, D

(* The invariant after w went on as p, once the accounts are known to balance. *)
LEMMA MoveInv ==
    ASSUME Inv, NEW w \in Workers, NEW p \in Passes, Moves(w, p),
           db' \in Tables, lag' \in [Nodes -> Seq(Tables)],
           sends' \in [Notices -> Nat], faults' \in {faults, faults + 1},
           \A n \in Notices :
              /\ db'[n].fence \in {db[n].fence, worker[w].token}
              /\ sends'[n] \in {sends[n], sends[n] + 1}
              /\ db'[n].state = "sent" => db[n].state = "sent" \/ HasSent(worker[w], n)
              /\ HasSent(p, n) => HasSent(worker[w], n) \/ sends'[n] = sends[n] + 1
              /\ Accounts(n)'
    PROVE  Inv'
<1>1. TypeOK
  BY DEF Inv
<1>2. faults' \in Nat
  BY <1>1 DEF TypeOK
<1>3. TypeOK' /\ Bounded' /\ Busy' /\ HolderFirst'
  BY <1>2, MoveState
<1>4. ASSUME NEW n \in Notices
      PROVE  Accounts(n)' /\ Accepted(n)'
  <2>1. Accepted(n)
    BY DEF Inv
  <2>2. Accepted(n)'
    BY <1>1, <2>1, MoveAccepted
  <2> QED
    BY <2>2
<1> QED
  BY <1>3, <1>4 DEF Inv

-----------------------------------------------------------------------------
(* What every step of a pass starts from: its types and its notice. *)
LEMMA Stepping ==
    ASSUME Inv, NEW w \in Workers
    PROVE  /\ worker[w] \in Passes /\ OnNotice(worker[w])
           /\ worker \in [Workers -> Passes]
           /\ db \in Tables /\ lag \in [Nodes -> Seq(Tables)]
           /\ sends \in [Notices -> Nat] /\ faults \in Nat
           /\ TypeOK
           /\ \A n \in Notices : Accounts(n) /\ db[n].fence \in Nat /\ db[n].fence <= db[n].fence
           /\ holder \in Workers \cup {None} /\ None \notin Workers
BY ConstantsOK DEF ConstantsOK, Inv, TypeOK, Busy, Tables, Rows

(* A step of a pass that neither sends nor writes, and adds no claim but for a
   fault. *)
LEMMA QuietMove ==
    ASSUME Inv, NEW w \in Workers, NEW p \in Passes, Moves(w, p),
           UNCHANGED <<db, lag, sends>>, faults' \in {faults, faults + 1},
           \A n \in Notices :
              /\ HasSent(p, n) => HasSent(worker[w], n)
              /\ faults' # faults + 1 => Claims(n)' \subseteq Claims(n)
    PROVE  Inv'
<1>1. ASSUME NEW n \in Notices
      PROVE  Accounts(n)'
  <2>1. CASE Claims(n)' \subseteq Claims(n)
    BY <2>1, Account, Stepping
  <2>2. CASE faults' = faults + 1
    <3>1. /\ TypeOK /\ db' \in Tables /\ db[n].fence <= db'[n].fence
          /\ Open(n)' => Open(n)
      BY Stepping DEF Open
    <3>2. \E x : Claims(n)' \subseteq Claims(n) \cup {x}
      <4>1. CASE holder = w
        BY <3>1, <4>1, HolderMoves
      <4>2. CASE holder # w
        BY <3>1, <4>2, StrayMoves
      <4> QED
        BY <4>1, <4>2
    <3> QED
      BY <2>2, <3>2, Account, Stepping
  <2> QED
    BY <2>1, <2>2
<1>2. /\ db' \in Tables /\ lag' \in [Nodes -> Seq(Tables)] /\ sends' \in [Notices -> Nat]
      /\ \A n \in Notices : db'[n].fence = db[n].fence /\ sends'[n] = sends[n]
                            /\ db'[n].state = db[n].state
  BY Stepping
<1> QED
  BY <1>1, <1>2, MoveInv

LEMMA FinishStep ==
    ASSUME Inv, NEW w \in Workers, Finish(w)
    PROVE  Inv'
<1>1. PICK p \in Passes : p = Idle
  BY DEF Idle, Passes, Places
<1>2. worker[w].pc = "list" /\ p.pc = "idle" /\ p.todo = {} /\ p.token = 0
  BY <1>1 DEF Finish, Idle
<1>3. Moves(w, p)
  BY <1>1, <1>2, Stepping DEF Moves, Finish, Leave, Running, OnNotice
<1>4. ASSUME NEW n \in Notices
      PROVE  ~HasSent(p, n) /\ Claims(n)' \subseteq Claims(n)
  <2>1. ~HasSent(worker[w], n) /\ ~HasSent(p, n) /\ ~Tries(p, n, db[n].fence)
    BY <1>2 DEF HasSent, Tries
  <2>2. db' = db
    BY DEF Finish
  <2> QED
    BY <1>3, <2>1, <2>2, OtherNotice, Stepping
<1> QED
  BY <1>3, <1>4, QuietMove, Stepping DEF Finish

LEMMA RecordStep ==
    ASSUME Inv, NEW w \in Workers, Record(w)
    PROVE  Inv'
<1>1. PICK p \in Passes : p = [worker[w] EXCEPT !.pc = "list", !.notice = None, !.attempts = 0]
  BY Stepping DEF Passes, Places
<1>2. /\ p.pc = "list" /\ p.token = worker[w].token /\ p.todo = worker[w].todo
      /\ worker[w].pc \in {"successRecord", "failureRecord"}
  BY <1>1, Stepping DEF Record, Passes
<1>3. Moves(w, p)
  <2>1. worker' = [worker EXCEPT ![w] = p]
    BY <1>1, Stepping DEF Record
  <2> QED
    BY <1>2, <2>1 DEF Moves, Record, Running, OnNotice
<1>4. ASSUME NEW n \in Notices
      PROVE  ~HasSent(p, n) /\ Claims(n)' \subseteq Claims(n)
  <2>1. ~HasSent(worker[w], n) /\ ~HasSent(p, n) /\ ~Tries(p, n, db[n].fence)
    BY <1>2 DEF HasSent, Tries
  <2>2. db' = db
    BY DEF Record
  <2> QED
    BY <1>3, <2>1, <2>2, OtherNotice, Stepping
<1> QED
  BY <1>3, <1>4, QuietMove, Stepping DEF Record

(* What a pass goes on as when a step of its status write throws. *)
LEMMA ThrownMoves ==
    ASSUME Inv, NEW w \in Workers, Thrown(w),
           worker[w].pc \in {"success", "successTxn", "successRecord",
                             "failure", "failureTxn", "failureRecord"}
    PROVE  \E p \in Passes :
              /\ Moves(w, p)
              /\ p.pc \in {"idle", "list", "failure"}
              /\ p.pc = "failure" => p.notice = worker[w].notice
<1>1. CASE worker[w].pc \in {"success", "successTxn", "successRecord"}
  <2>1. PICK p \in Passes : p = [worker[w] EXCEPT !.pc = "failure"]
    BY Stepping DEF Passes, Places
  <2>2. /\ p.pc = "failure" /\ p.token = worker[w].token /\ p.todo = worker[w].todo
        /\ p.notice = worker[w].notice
    BY <2>1, Stepping DEF Passes
  <2>3. worker' = [worker EXCEPT ![w] = p] /\ holder' = holder
    BY <1>1, <2>1, Stepping DEF Thrown, Goto
  <2>4. worker[w].notice \in Notices /\ worker[w].notice \notin worker[w].todo
    BY <1>1, Stepping DEF OnNotice
  <2>5. Moves(w, p)
    BY <1>1, <2>2, <2>3, <2>4 DEF Moves, Running, OnNotice
  <2> QED
    BY <2>2, <2>5
<1>2. CASE worker[w].pc \notin {"success", "successTxn", "successRecord"} /\ w[2] = "sweep"
  <2>1. PICK p \in Passes : p = [worker[w] EXCEPT !.pc = "list", !.notice = None, !.attempts = 0]
    BY Stepping DEF Passes, Places
  <2>2. p.pc = "list" /\ p.token = worker[w].token /\ p.todo = worker[w].todo
    BY <2>1, Stepping DEF Passes
  <2>3. worker' = [worker EXCEPT ![w] = p] /\ holder' = holder
    BY <1>2, <2>1, Stepping DEF Thrown
  <2>4. Moves(w, p)
    BY <2>2, <2>3 DEF Moves, Running, OnNotice
  <2> QED
    BY <2>2, <2>4
<1>3. CASE worker[w].pc \notin {"success", "successTxn", "successRecord"} /\ w[2] # "sweep"
  <2>1. PICK p \in Passes : p = Idle
    BY DEF Idle, Passes, Places
  <2>2. p.pc = "idle" /\ p.token = 0 /\ p.todo = {}
    BY <2>1 DEF Idle
  <2>3. worker' = [worker EXCEPT ![w] = p] /\ holder' = IF holder = w THEN None ELSE holder
    BY <1>3, <2>1 DEF Thrown, Leave
  <2>4. Moves(w, p)
    BY <2>2, <2>3 DEF Moves, Running, OnNotice
  <2> QED
    BY <2>2, <2>4
<1> QED
  BY <1>1, <1>2, <1>3

(* A pass that a higher fence turns away has outlived its lease, and no longer
   tries the notice it is on. *)
LEMMA Superseded ==
    ASSUME Inv, NEW w \in Workers, Thrown(w),
           worker[w].pc \in {"success", "successTxn", "failure", "failureTxn"},
           db[worker[w].notice].fence > worker[w].token,
           UNCHANGED <<db, lag, sends, faults>>
    PROVE  Inv'
<1>1. PICK p \in Passes : /\ Moves(w, p)
                          /\ p.pc \in {"idle", "list", "failure"}
                          /\ p.pc = "failure" => p.notice = worker[w].notice
  BY ThrownMoves
<1>2. worker[w].notice \in Notices /\ worker[w].notice \notin worker[w].todo
  BY Stepping DEF OnNotice
<1>3. worker[w].token \in Nat /\ db[worker[w].notice].fence \in Nat
      /\ ~(db[worker[w].notice].fence <= worker[w].token)
  BY <1>2, Stepping DEF Passes
<1>4. holder # w
  <2>1. Running(w) /\ w # None
    BY Stepping DEF Running
  <2> QED
    BY <1>2, <1>3, <2>1 DEF Inv, HolderFirst
<1>5. ASSUME NEW n \in Notices
      PROVE  ~HasSent(p, n) /\ Claims(n)' \subseteq Claims(n)
  <2>1. ~HasSent(p, n)
    BY <1>1 DEF HasSent
  <2>2. ~Tries(p, n, db[n].fence)
    BY <1>1, <1>3 DEF Tries, Moves
  <2>3. Due(p, n, db'[n].fence) => Due(worker[w], n, db[n].fence)
    BY <1>1, <2>2 DEF Due, Moves
  <2>4. Open(n)' => Open(n)
    BY DEF Open
  <2>5. /\ TypeOK /\ db' \in Tables /\ db[n].fence <= db'[n].fence
    BY Stepping
  <2> QED
    BY <1>1, <1>4, <2>1, <2>3, <2>4, <2>5, StrayMoves
<1> QED
  BY <1>1, <1>5, QuietMove, Stepping

LEMMA ReadFenceStep ==
    ASSUME Inv, NEW w \in Workers, ReadFence(w)
    PROVE  Inv'
<1> DEFINE m == worker[w].notice
<1>1. /\ worker[w].pc \in {"success", "failure"}
      /\ m \in Notices /\ m \notin worker[w].todo
      /\ db[m].fence \in Nat /\ worker[w].token \in Nat
  BY Stepping DEF ReadFence, OnNotice, Passes
<1>2. CASE db[m].fence > worker[w].token
  BY <1>1, <1>2, Superseded DEF ReadFence
<1>3. CASE ~(db[m].fence > worker[w].token)
  <2>1. PICK p \in Passes : p = [worker[w] EXCEPT !.pc = IF worker[w].pc = "success"
                                                         THEN "successTxn" ELSE "failureTxn"]
    <3>1. IF worker[w].pc = "success" THEN "successTxn" \in Places ELSE "failureTxn" \in Places
      BY DEF Places
    <3> QED
      BY <3>1, Stepping DEF Passes
  <2>2. /\ p.pc = IF worker[w].pc = "success" THEN "successTxn" ELSE "failureTxn"
        /\ p.token = worker[w].token /\ p.todo = worker[w].todo
        /\ p.notice = worker[w].notice
    BY <2>1, Stepping DEF Passes
  <2>3. worker' = [worker EXCEPT ![w] = p] /\ holder' = holder
    BY <1>3, <2>1, Stepping DEF ReadFence, Goto
  <2>4. Moves(w, p)
    BY <1>1, <2>2, <2>3 DEF Moves, Running, OnNotice
  <2>5. db[m].fence <= worker[w].token
    BY <1>1, <1>3
  <2>6. ASSUME NEW n \in Notices
        PROVE  /\ HasSent(p, n) => HasSent(worker[w], n)
               /\ Claims(n)' \subseteq Claims(n)
    <3>1. HasSent(p, n) <=> HasSent(worker[w], n)
      BY <1>1, <2>2 DEF HasSent
    <3>2. Tries(p, n, db[n].fence) => Tries(worker[w], n, db[n].fence)
      BY <1>1, <2>2 DEF Tries
    <3>3. Due(p, n, db'[n].fence) => Due(worker[w], n, db[n].fence)
      BY <2>2, <3>2 DEF Due, ReadFence
    <3>4. Open(n)' <=> Open(n)
      BY DEF Open, ReadFence
    <3>5. /\ TypeOK /\ db' \in Tables /\ db[n].fence <= db'[n].fence
      BY Stepping DEF ReadFence
    <3>6. CASE holder = w
      <4>1. Tries(p, n, db'[n].fence) => Tries(worker[w], n, db[n].fence)
        BY <3>2 DEF ReadFence
      <4> QED
        BY <2>4, <3>1, <3>4, <3>5, <3>6, <4>1, HolderMoves
    <3>7. CASE holder # w
      BY <2>4, <3>1, <3>3, <3>4, <3>5, <3>7, StrayMoves
    <3> QED
      BY <3>1, <3>6, <3>7
  <2> QED
    BY <2>4, <2>6, QuietMove, Stepping DEF ReadFence
<1> QED
  BY <1>2, <1>3

(* A fault pays for the claim a failed status write may add. *)
LEMMA StoreFaultStep ==
    ASSUME Inv, NEW w \in Workers, StoreFault(w)
    PROVE  Inv'
<1>1. PICK p \in Passes : /\ Moves(w, p)
                          /\ p.pc \in {"idle", "list", "failure"}
                          /\ p.pc = "failure" => p.notice = worker[w].notice
  BY ThrownMoves DEF StoreFault
<1>2. \A n \in Notices : ~HasSent(p, n)
  BY <1>1 DEF HasSent
<1>3. faults' = faults + 1 /\ UNCHANGED <<db, lag, sends>>
  BY DEF StoreFault, Fault
<1> QED
  BY <1>1, <1>2, <1>3, QuietMove

(* The claim is spent on the copy the relay accepts; when the answer is lost it
   stays, and the fault pays for the copy. *)
LEMMA SendStep ==
    ASSUME Inv, NEW w \in Workers, Send(w)
    PROVE  Inv'
<1>0. PICK m \in Notices : m = worker[w].notice
  BY Stepping DEF Send, OnNotice
<1>1. /\ worker[w].pc = "send" /\ db' = db /\ lag' = lag
      /\ worker[w].notice = m /\ m \notin worker[w].todo
  BY <1>0, Stepping DEF Send, OnNotice
<1>2. PICK pc \in {"success", "failure"} :
         /\ Goto(w, pc) /\ holder' = holder
         /\ \/ sends' = [sends EXCEPT ![m] = @ + 1] /\ pc = "success" /\ faults' = faults
            \/ sends' = [sends EXCEPT ![m] = @ + 1] /\ pc = "failure" /\ faults' = faults + 1
            \/ sends' = sends /\ pc = "failure" /\ faults' = faults
  BY <1>1 DEF Send, Fault
<1>3. PICK p \in Passes : p = [worker[w] EXCEPT !.pc = pc]
  BY Stepping DEF Passes, Places
<1>4. /\ p.pc = pc /\ p.token = worker[w].token /\ p.todo = worker[w].todo
      /\ p.notice = worker[w].notice
  BY <1>3, Stepping DEF Passes
<1>5. Moves(w, p)
  <2>1. worker' = [worker EXCEPT ![w] = p]
    BY <1>2, <1>3, Stepping DEF Goto
  <2> QED
    BY <1>1, <1>2, <1>4, <2>1 DEF Moves, Running, OnNotice
<1>6. /\ sends' \in [Notices -> Nat] /\ faults' \in {faults, faults + 1}
      /\ \A n \in Notices : n # m => sends'[n] = sends[n]
      /\ sends'[m] \in {sends[m], sends[m] + 1}
  BY <1>1, <1>2, Stepping
<1>7. \A n \in Notices : /\ TypeOK /\ db' \in Tables /\ db[n].fence <= db'[n].fence
                         /\ Open(n)' <=> Open(n)
  BY <1>1, Stepping DEF Open
<1>8. ASSUME NEW n \in Notices, n # m
      PROVE  Accounts(n)' /\ ~HasSent(p, n)
  <2>1. ~HasSent(worker[w], n) /\ ~HasSent(p, n) /\ ~Tries(p, n, db[n].fence)
    BY <1>1, <1>4, <1>8 DEF HasSent, Tries
  <2>2. Claims(n)' \subseteq Claims(n)
    BY <1>1, <1>5, <1>7, <2>1, OtherNotice
  <2> QED
    BY <1>6, <1>8, <2>1, <2>2, Account, Stepping
<1>9. Accounts(m)'
  <2>1. /\ Tries(worker[w], m, db[m].fence) /\ ~HasSent(worker[w], m)
        /\ Due(worker[w], m, db[m].fence)
    BY <1>1 DEF Tries, HasSent, Due
  <2>2. Claims(m)' \subseteq Claims(m)
    <3>1. CASE holder = w
      BY <1>1, <1>5, <1>7, <2>1, <3>1, HolderMoves
    <3>2. CASE holder # w
      BY <1>1, <1>5, <1>7, <2>1, <3>2, StrayMoves
    <3> QED
      BY <3>1, <3>2
  <2>3. ASSUME pc = "success"
        PROVE  \E x \in Claims(m) : Claims(m)' \subseteq Claims(m) \ {x}
    <3>1. CASE holder = w
      <4>1. HasSent(p, m)
        BY <1>1, <1>4, <2>3 DEF HasSent
      <4>2. None \in Claims(m) /\ Claims(m)' \subseteq Claims(m) \ {None}
        BY <1>5, <1>7, <2>1, <3>1, <4>1, HolderMoves
      <4> QED
        BY <4>2
    <3>2. CASE holder # w
      <4>1. ~Due(p, m, db'[m].fence)
        BY <1>1, <1>4, <2>3 DEF Due, Tries
      <4> QED
        BY <1>1, <1>5, <1>7, <2>1, <3>2, <4>1, StrayMoves
    <3> QED
      BY <3>1, <3>2
  <2>4. sends' = [sends EXCEPT ![m] = @ + 1] => sends'[m] = sends[m] + 1
    BY <1>1, Stepping
  <2> QED
    BY <1>1, <1>2, <2>2, <2>3, <2>4, Account, Stepping
<1>10. HasSent(p, m) => sends'[m] = sends[m] + 1
  BY <1>1, <1>2, <1>4, Stepping DEF HasSent
<1> QED
  <2>1. \A n \in Notices : /\ db'[n].fence = db[n].fence /\ db'[n].state = db[n].state
                           /\ sends'[n] \in {sends[n], sends[n] + 1}
                           /\ HasSent(p, n) => sends'[n] = sends[n] + 1
                           /\ Accounts(n)'
    BY <1>1, <1>6, <1>8, <1>9, <1>10
  <2>2. db' \in Tables /\ lag' \in [Nodes -> Seq(Tables)]
    BY <1>1, Stepping
  <2> QED
    BY <1>5, <1>6, <2>1, <2>2, MoveInv

(* What a replica shows is a table. *)
LEMMA LocalType ==
    ASSUME TypeOK, NEW m \in Nodes
    PROVE  Local(m) \in Tables
<1>1. db \in Tables /\ lag[m] \in Seq(Tables)
  BY DEF TypeOK
<1> QED
  BY <1>1 DEF Local

(* Under the lease a row that is still open was to be sent already; a row that
   only the replica shows as open costs a fault. *)
LEMMA GetStep ==
    ASSUME Inv, NEW w \in Workers, NEW n \in Notices, Get(w, n)
    PROVE  Inv'
<1> DEFINE row == Local(w[1])[n]
<1>1. /\ row \in Rows /\ db[n] \in Rows
      /\ worker[w].pc = "list" /\ n \in worker[w].todo
      /\ UNCHANGED <<db, lag, holder, sends>>
  <2>1. w[1] \in Nodes
    BY DEF Workers
  <2> QED
    BY <2>1, LocalType, Stepping DEF Get, Tables
<1>2. /\ faults' \in {faults, faults + 1}
      /\ faults' # faults + 1 => row.state = db[n].state
  <2>1. [row EXCEPT !.due = db[n].due] = db[n] => row.state = db[n].state
    BY <1>1 DEF Rows
  <2> HIDE DEF row
  <2>2. IF [row EXCEPT !.due = db[n].due] # db[n] THEN Fault ELSE UNCHANGED faults
    BY DEF Get, row
  <2> QED
    BY <2>1, <2>2 DEF Fault
<1>3. PICK due : worker' = [worker EXCEPT
                     ![w].todo = @ \ {n},
                     ![w].pc = IF Plan([row EXCEPT !.due = due]) THEN "send" ELSE "list",
                     ![w].notice = IF Plan([row EXCEPT !.due = due]) THEN n ELSE None,
                     ![w].attempts = IF Plan([row EXCEPT !.due = due]) THEN row.attempts
                                                                       ELSE 0]
  BY DEF Get
<1> DEFINE planned == Plan([row EXCEPT !.due = due])
<1>4. planned => row.state \in {"none", "pending"}
  BY <1>1 DEF Plan, Rows
<1>5. row.attempts \in Nat
  BY <1>1 DEF Rows
<1> HIDE DEF planned
<1>6. PICK p \in Passes : p = [worker[w] EXCEPT
                     !.todo = @ \ {n},
                     !.pc = IF planned THEN "send" ELSE "list",
                     !.notice = IF planned THEN n ELSE None,
                     !.attempts = IF planned THEN row.attempts ELSE 0]
  <2> HIDE DEF row
  <2>1. CASE planned
    BY <1>5, <2>1, Stepping DEF Passes, Places
  <2>2. CASE ~planned
    BY <1>5, <2>2, Stepping DEF Passes, Places
  <2> QED
    BY <2>1, <2>2
<1>7. worker' = [worker EXCEPT ![w] = p]
  <2> HIDE DEF row
  <2> QED
    BY <1>3, <1>6, Stepping DEF planned
<1>8. /\ p.todo = worker[w].todo \ {n} /\ p.token = worker[w].token
      /\ p.pc \in {"send", "list"}
      /\ p.pc = "send" => planned /\ p.notice = n
      /\ p.notice \in {n, None}
  <2> HIDE DEF row
  <2> QED
    BY <1>6, Stepping DEF Passes
<1>9. Moves(w, p)
  BY <1>1, <1>7, <1>8, Stepping DEF Moves, Running, OnNotice
<1>10. \A k \in Notices : ~HasSent(worker[w], k) /\ ~HasSent(p, k)
  BY <1>1, <1>8 DEF HasSent
<1>11. ASSUME NEW k \in Notices, k # n
       PROVE  Claims(k)' \subseteq Claims(k)
  <2>1. ~Tries(p, k, db[k].fence)
    BY <1>8, <1>11 DEF Tries
  <2> QED
    BY <1>1, <1>9, <1>10, <2>1, OtherNotice, Stepping
<1>12. ASSUME faults' # faults + 1
       PROVE  Claims(n)' \subseteq Claims(n)
  <2>1. /\ TypeOK /\ db' \in Tables /\ db[n].fence <= db'[n].fence
        /\ Open(n)' <=> Open(n)
    BY <1>1, Stepping DEF Open
  <2>2. p.pc = "send" => Open(n)
    BY <1>2, <1>4, <1>8, <1>12 DEF Open
  <2>3. Tries(p, n, db'[n].fence) => Open(n)
    BY <1>8, <2>2 DEF Tries
  <2>4. Due(worker[w], n, db[n].fence)
    BY <1>1 DEF Due
  <2>5. CASE holder = w
    BY <1>9, <1>10, <2>1, <2>3, <2>5, HolderMoves
  <2>6. CASE holder # w
    BY <1>9, <2>1, <2>4, <2>6, StrayMoves
  <2> QED
    BY <2>5, <2>6
<1>13. \A k \in Notices : faults' # faults + 1 => Claims(k)' \subseteq Claims(k)
  BY <1>11, <1>12
<1> QED
  BY <1>1, <1>2, <1>9, <1>10, <1>13, QuietMove

(* A pass that has not sent and says so hands its claim to the lease: the notice
   is to be sent once more, by whoever holds it. *)
LEMMA WriteStatusStep ==
    ASSUME Inv, NEW w \in Workers, WriteStatus(w)
    PROVE  Inv'
<1>0. PICK m \in Notices : m = worker[w].notice
  BY Stepping DEF WriteStatus, OnNotice
<1>1. /\ worker[w].pc \in {"successTxn", "failureTxn"}
      /\ worker[w].notice = m /\ m \notin worker[w].todo
      /\ db[m].fence \in Nat /\ worker[w].token \in Nat /\ worker[w].attempts \in Nat
      /\ UNCHANGED <<sends, faults>>
  BY <1>0, Stepping DEF WriteStatus, OnNotice, Passes
<1>2. CASE ~FenceAllows(w)
  <2>1. db[worker[w].notice].fence > worker[w].token
    BY <1>1, <1>2 DEF FenceAllows
  <2> QED
    BY <1>1, <1>2, <2>1, Superseded DEF WriteStatus
<1>3. CASE FenceAllows(w)
  <2> DEFINE row == [raised |-> TRUE, fence |-> worker[w].token, state |-> StatusOf(w).state,
                     attempts |-> StatusOf(w).attempts, due |-> StatusOf(w).due]
             success == worker[w].pc = "successTxn"
  <2>1. /\ db' = [db EXCEPT ![m] = row]
        /\ lag' = [k \in Nodes |-> Append(lag[k], db)]
        /\ holder' = holder
        /\ Goto(w, IF success THEN "successRecord" ELSE "failureRecord")
    BY <1>1, <1>3 DEF WriteStatus, Commit
  <2>2. /\ StatusOf(w).state \in {"pending", "sent", "failed"}
        /\ StatusOf(w).state = "sent" <=> success
        /\ StatusOf(w).attempts \in Nat /\ StatusOf(w).due = FALSE
    BY <1>1 DEF StatusOf, AfterSuccess, AfterFailure
  <2>3. row \in Rows
    BY <1>1, <2>2 DEF Rows
  <2>4. row.fence = worker[w].token /\ (row.state = "sent" <=> success)
    BY <2>2
  <2> HIDE DEF row
  <2>5. /\ db' \in Tables /\ lag' \in [Nodes -> Seq(Tables)]
        /\ db'[m] = row /\ \A n \in Notices : n # m => db'[n] = db[n]
    BY <2>1, <2>3, Stepping DEF Tables
  <2>6. PICK p \in Passes : p = [worker[w] EXCEPT !.pc = IF success THEN "successRecord"
                                                                    ELSE "failureRecord"]
    BY Stepping DEF Passes, Places
  <2>7. /\ p.pc \in {"successRecord", "failureRecord"} /\ p.token = worker[w].token
        /\ p.todo = worker[w].todo /\ p.notice = worker[w].notice
    BY <2>6, Stepping DEF Passes
  <2>8. Moves(w, p)
    <3>1. worker' = [worker EXCEPT ![w] = p]
      BY <2>1, <2>6, Stepping DEF Goto
    <3> QED
      BY <1>1, <2>1, <2>7, <3>1 DEF Moves, Running, OnNotice
  <2>9. \A n \in Notices : \A fence : ~HasSent(p, n) /\ ~Tries(p, n, fence)
    BY <2>7 DEF HasSent, Tries
  <2>10. ASSUME NEW n \in Notices, n # m
         PROVE  Accounts(n)'
    <3>1. ~HasSent(worker[w], n)
      BY <1>1, <2>10 DEF HasSent
    <3>2. Claims(n)' \subseteq Claims(n)
      BY <2>5, <2>8, <2>9, <2>10, <3>1, OtherNotice, Stepping
    <3> QED
      BY <1>1, <3>2, Account, Stepping
  <2>11. Accounts(m)'
    <3>1. /\ TypeOK /\ db' \in Tables /\ db[m].fence <= db'[m].fence
      BY <1>1, <1>3, <2>4, <2>5, Stepping DEF FenceAllows
    <3>2. ~Due(p, m, db'[m].fence)
      BY <1>1, <2>7, <2>9 DEF Due
    <3>3. CASE success
      <4>1. ~Open(m)'
        BY <2>4, <2>5, <3>3 DEF Open
      <4>2. Claims(m)' \subseteq Claims(m)
        <5>1. CASE holder = w
          BY <2>8, <2>9, <3>1, <4>1, <5>1, HolderMoves
        <5>2. CASE holder # w
          BY <2>8, <3>1, <3>2, <4>1, <5>2, StrayMoves
        <5> QED
          BY <5>1, <5>2
      <4> QED
        BY <1>1, <4>2, Account, Stepping
    <3>4. CASE ~success
      <4>1. Tries(worker[w], m, db[m].fence) /\ ~HasSent(worker[w], m)
        BY <1>1, <1>3, <3>4 DEF Tries, HasSent, FenceAllows
      <4>2. CASE holder = w
        <5>1. Claims(m)' \subseteq Claims(m)
          BY <2>8, <3>1, <4>1, <4>2, HolderMoves
        <5> QED
          BY <1>1, <5>1, Account, Stepping
      <4>3. CASE holder # w
        <5>1. w \in Claims(m) /\ Claims(m)' \subseteq (Claims(m) \ {w}) \cup {None}
          BY <2>8, <3>1, <3>2, <4>1, <4>3, StrayMoves DEF Due
        <5> QED
          BY <1>1, <5>1, Account, Stepping
      <4> QED
        BY <4>2, <4>3
    <3> QED
      BY <3>3, <3>4
  <2>12. ASSUME NEW n \in Notices
         PROVE  /\ db'[n].fence \in {db[n].fence, worker[w].token}
                /\ sends'[n] \in {sends[n], sends[n] + 1}
                /\ db'[n].state = "sent" => db[n].state = "sent" \/ HasSent(worker[w], n)
    BY <1>1, <2>4, <2>5 DEF HasSent
  <2>13. sends' \in [Notices -> Nat] /\ faults' \in {faults, faults + 1}
    BY <1>1, Stepping
  <2> QED
    BY <2>5, <2>8, <2>9, <2>10, <2>11, <2>12, <2>13, MoveInv
<1> QED
  BY <1>2, <1>3

(* The lease is new, its token above all others; what it owes was owed before. *)
LEMMA AcquireStep ==
    ASSUME Inv, NEW w \in Workers, Acquire(w)
    PROVE  Inv'
<1>1. PICK todo \in SUBSET Notices :
         worker' = [worker EXCEPT ![w] = [Idle EXCEPT !.pc = "list", !.token = NextToken,
                                                      !.todo = todo]]
  <2>1. \A t \in {{n \in Notices : Local(w[1])[n].raised}}
                 \cup (SUBSET {n \in Notices : Local(w[1])[n].raised} \ {{}}) :
           t \in SUBSET Notices
    OBVIOUS
  <2> QED
    BY <2>1 DEF Acquire
<1>2. /\ NextToken \in Nat
      /\ \A n \in Notices : db[n].fence <= NextToken
      /\ \A v \in Workers : worker[v].token <= NextToken
  BY NextTokenFresh DEF Inv
<1>3. PICK p \in Passes : p = [Idle EXCEPT !.pc = "list", !.token = NextToken, !.todo = todo]
  BY <1>2 DEF Idle, Passes, Places
<1>4. p.pc = "list" /\ p.token = NextToken
  BY <1>3 DEF Idle
<1>5. /\ holder = None /\ holder' = w /\ w # None
      /\ UNCHANGED <<db, lag, sends, faults>>
      /\ worker' = [worker EXCEPT ![w] = p]
  BY <1>1, <1>3, Stepping DEF Acquire
<1>6. worker'[w] = p /\ \A v \in Workers : v # w => worker'[v] = worker[v]
  BY <1>5, Stepping
<1>7. TypeOK'
  BY <1>5, Stepping DEF TypeOK
<1>8. /\ \A v \in Workers : worker'[v].token <= p.token
      /\ \A n \in Notices : db'[n].fence <= p.token
  BY <1>2, <1>4, <1>5, <1>6
<1>9. Bounded' /\ HolderFirst'
  <2>1. p.token \in Nat
    BY <1>2, <1>4
  <2> QED
    BY <1>5, <1>6, <1>8, <2>1 DEF Bounded, HolderFirst
<1>10. Busy'
  BY <1>4, <1>6, Stepping DEF Busy, OnNotice
<1>11. ASSUME NEW n \in Notices
       PROVE  Accounts(n)' /\ Accepted(n)'
  <2>1. ~HasSent(p, n) /\ ~Tries(p, n, db'[n].fence) /\ (Open(n)' => Open(n))
    BY <1>4, <1>5 DEF HasSent, Tries, Open
  <2>2. Owed(n)' => Owed(n)
    BY <1>5, <1>6, <2>1 DEF Owed, Retries
  <2>3. \A v \in Workers : v \in Strays(n)' => v \in Strays(n)
    <3>1. db' \in Tables /\ db[n].fence <= db'[n].fence /\ TypeOK
      BY <1>5, Stepping
    <3> SUFFICES ASSUME NEW v \in Workers, v \in Strays(n)'
                 PROVE  v \in Strays(n)
      OBVIOUS
    <3>2. v # w
      BY <1>5 DEF Strays
    <3>3. worker'[v] = worker[v] /\ (holder' = v <=> holder = v)
      BY <1>5, <1>6, <3>2, Stepping
    <3> QED
      BY <3>1, <3>3, BystanderClaims
  <2>4. Claims(n)' \subseteq Claims(n)
    BY <2>2, <2>3 DEF Claims, Strays
  <2>5. sends' = sends /\ faults' = faults /\ Accounts(n)
    BY <1>5, Stepping
  <2>6. Accounts(n)'
    BY <2>4, <2>5, Account, Stepping
  <2>7. Accepted(n)
    BY DEF Inv
  <2>8. Accepted(n)'
    BY <1>5, <1>6, <2>1, <2>7 DEF Accepted
  <2> QED
    BY <2>6, <2>8
<1> QED
  BY <1>7, <1>9, <1>10, <1>11 DEF Inv

(* Workers of a node that died claim nothing; what was theirs the lease may owe. *)
LEMMA CrashStep ==
    ASSUME Inv, NEW m \in Nodes, Crash(m)
    PROVE  Inv'
<1>1. /\ faults' = faults + 1 /\ UNCHANGED <<db, lag, holder, sends>>
      /\ worker' = [w \in Workers |-> IF w[1] = m THEN Idle ELSE worker[w]]
  BY DEF Crash, Fault
<1>2. \A w \in Workers : worker'[w] = Idle \/ worker'[w] = worker[w]
  BY <1>1
<1>3. TypeOK /\ db' \in Tables
      /\ \A w \in Workers : worker[w].token \in Nat
      /\ Idle \in Passes /\ Idle.pc = "idle" /\ Idle.token = 0
  BY <1>1, Stepping DEF Inv, TypeOK, Passes, Places, Idle
<1>4. TypeOK'
  BY <1>1, <1>3 DEF TypeOK
<1>5. \A w \in Workers : worker'[w].token <= worker[w].token /\ worker'[w].token \in Nat
  BY <1>2, <1>3
<1>6. Bounded'
  <2>1. PICK b \in Nat : /\ \A n \in Notices : db[n].fence <= b
                         /\ \A w \in Workers : worker[w].token <= b
    BY DEF Inv, Bounded
  <2>2. \A w \in Workers : worker'[w].token <= b
    BY <1>3, <1>5, <2>1
  <2> QED
    BY <1>1, <2>1, <2>2 DEF Bounded
<1>7. Busy'
  BY <1>2, <1>3 DEF Inv, Busy, OnNotice
<1>8. HolderFirst'
  <2> SUFFICES ASSUME holder # None, worker'[holder].pc # "idle"
               PROVE  /\ \A w \in Workers : worker'[w].token <= worker'[holder].token
                      /\ \A n \in Notices : db'[n].fence <= worker'[holder].token
    BY <1>1 DEF HolderFirst, Running
  <2>1. holder \in Workers /\ worker'[holder] = worker[holder]
    BY <1>2, <1>3 DEF TypeOK
  <2>2. /\ \A w \in Workers : worker[w].token <= worker[holder].token
        /\ \A n \in Notices : db[n].fence <= worker[holder].token
    BY <2>1 DEF Inv, HolderFirst, Running
  <2>3. \A w \in Workers : worker'[w].token <= worker[holder].token
    BY <1>3, <1>5, <2>1, <2>2
  <2> QED
    BY <1>1, <2>1, <2>2, <2>3
<1>9. ASSUME NEW n \in Notices
      PROVE  Accounts(n)' /\ Accepted(n)'
  <2>1. \A w \in Workers : w \in Strays(n)' => w \in Strays(n)
    <3> SUFFICES ASSUME NEW w \in Workers, w \in Strays(n)'
                 PROVE  w \in Strays(n)
      OBVIOUS
    <3>1. worker'[w] = worker[w]
      BY <1>2, <1>3 DEF Strays, Running
    <3>2. db[n].fence <= db'[n].fence /\ (holder' = w <=> holder = w)
      BY <1>1, Stepping
    <3> QED
      BY <1>3, <3>1, <3>2, BystanderClaims
  <2>2. Claims(n)' \subseteq Claims(n) \cup {None}
    BY <2>1 DEF Claims, Strays
  <2>3. sends' = sends /\ Accounts(n) /\ Accepted(n)
    BY <1>1 DEF Inv
  <2>4. Accounts(n)'
    BY <1>1, <1>3, <2>2, <2>3, Account
  <2>5. Accepted(n)'
    BY <1>1, <1>2, <1>3, <2>3 DEF Accepted, HasSent
  <2> QED
    BY <2>4, <2>5
<1> QED
  BY <1>4, <1>6, <1>7, <1>8, <1>9 DEF Inv

(* A running holder becomes a stray or leaves what it owes to the lease, not
   both: if it has sent it is no stray, if the notice was owed it still is. *)
LEMMA LapseStep ==
    ASSUME Inv, Lapse
    PROVE  Inv'
<1>1. /\ holder # None /\ holder' = None /\ UNCHANGED <<db, lag, worker, sends>>
      /\ IF Running(holder) THEN faults' = faults + 1 ELSE faults' = faults
  BY DEF Lapse, Fault
<1>2. PICK h \in Workers : h = holder
  BY <1>1 DEF Inv, TypeOK
<1>3. /\ TypeOK /\ Bounded /\ Busy /\ db' \in Tables /\ h # None
      /\ holder = h
  BY <1>1, <1>2 DEF Inv, TypeOK
<1>4. TypeOK' /\ Bounded' /\ Busy' /\ HolderFirst'
  <2>1. faults' \in Nat
    BY <1>1, <1>3 DEF TypeOK
  <2>2. TypeOK'
    BY <1>1, <1>3, <2>1 DEF TypeOK
  <2>3. Bounded' /\ Busy'
    BY <1>1, <1>3 DEF Bounded, Busy
  <2> QED
    BY <1>1, <2>2, <2>3 DEF HolderFirst
<1>5. ASSUME NEW n \in Notices
      PROVE  Accounts(n)' /\ Accepted(n)'
  <2>1. (Open(n)' <=> Open(n)) /\ (Retries(h, n)' <=> Retries(h, n))
    BY <1>1 DEF Open, Retries
  <2>2. Owed(n)' <=> Open(n)
    BY <1>1, <2>1 DEF Owed
  <2>3. Owed(n) <=> ~HasSent(worker[h], n) /\ (Open(n) \/ Retries(h, n))
    BY <1>3 DEF Owed
  <2>4. \A v \in Workers : v \in Strays(n)' => v = h \/ v \in Strays(n)
    <3> SUFFICES ASSUME NEW v \in Workers, v \in Strays(n)', v # h
                 PROVE  v \in Strays(n)
      OBVIOUS
    <3>1. /\ worker'[v] = worker[v] /\ (holder' = v <=> holder = v)
          /\ db[n].fence <= db'[n].fence
      BY <1>1, <1>3, ConstantsOK, Stepping DEF ConstantsOK
    <3> QED
      BY <1>3, <3>1, BystanderClaims
  <2>5. h \in Strays(n)' => Running(h) /\ (n \in worker[h].todo \/ Retries(h, n))
    BY <1>1, <2>1 DEF Strays, Running
  <2>6. HasSent(worker[h], n) => h \notin Strays(n)'
    <3>1. HasSent(worker[h], n) => n \notin worker[h].todo /\ ~Retries(h, n)
      BY <1>3 DEF HasSent, Retries, Tries, Busy, OnNotice
    <3> QED
      BY <2>5, <3>1
  <2>7. sends' = sends /\ Accounts(n) /\ Accepted(n)
    BY <1>1 DEF Inv
  <2>8. Accounts(n)'
    <3>1. CASE Running(h)
      <4>1. \E x : Claims(n)' \subseteq Claims(n) \cup {x}
        <5>1. CASE HasSent(worker[h], n)
          <6>1. Claims(n)' \subseteq Claims(n) \cup {None}
            BY <2>4, <2>6, <5>1 DEF Claims, Strays
          <6> QED
            BY <6>1
        <5>2. CASE ~HasSent(worker[h], n)
          <6>1. Claims(n)' \subseteq Claims(n) \cup {h}
            BY <2>2, <2>3, <2>4, <5>2 DEF Claims, Strays
          <6> QED
            BY <6>1
        <5> QED
          BY <5>1, <5>2
      <4>2. faults' = faults + 1
        BY <1>1, <1>3, <3>1
      <4> QED
        BY <1>3, <2>7, <4>1, <4>2, Account
    <3>2. CASE ~Running(h)
      <4>1. ~HasSent(worker[h], n)
        BY <3>2 DEF Running, HasSent
      <4>2. Claims(n)' \subseteq Claims(n)
        BY <2>2, <2>3, <2>4, <2>5, <3>2, <4>1 DEF Claims, Strays
      <4>3. faults' = faults
        BY <1>1, <1>3, <3>2
      <4> QED
        BY <1>3, <2>7, <4>2, <4>3, Account
    <3> QED
      BY <3>1, <3>2
  <2>9. Accepted(n)'
    BY <1>1, <2>7 DEF Accepted
  <2> QED
    BY <2>8, <2>9
<1> QED
  BY <1>4, <1>5 DEF Inv

(* A step that touches no worker, fence or state. *)
LEMMA TableStep ==
    ASSUME Inv, UNCHANGED <<holder, worker, sends, faults>>,
           db' \in Tables, lag' \in [Nodes -> Seq(Tables)],
           \A n \in Notices : db'[n].fence = db[n].fence /\ db'[n].state = db[n].state
    PROVE  Inv'
<1>1. TypeOK /\ \A n \in Notices : db[n].fence \in Nat
  BY DEF Inv, TypeOK, Tables, Rows
<1>2. TypeOK'
  BY <1>1 DEF TypeOK
<1>3. Bounded' /\ Busy' /\ HolderFirst'
  <2>1. Bounded /\ Busy /\ HolderFirst
    BY DEF Inv
  <2>2. Bounded'
    BY <2>1 DEF Bounded
  <2>3. Busy'
    BY <2>1 DEF Busy
  <2>4. HolderFirst'
    BY <2>1 DEF HolderFirst, Running
  <2> QED
    BY <2>2, <2>3, <2>4
<1>4. ASSUME NEW n \in Notices
      PROVE  Accounts(n)' /\ Accepted(n)'
  <2>1. db'[n].fence = db[n].fence /\ db'[n].state = db[n].state
    OBVIOUS
  <2>2. \A v \in Workers : Retries(v, n)' <=> Retries(v, n)
    BY <2>1 DEF Retries
  <2>3. Open(n)' <=> Open(n)
    BY <2>1 DEF Open
  <2>4. holder \in Workers \cup {None}
    BY <1>1 DEF TypeOK
  <2>5. Owed(n)' => Owed(n)
    BY <2>2, <2>3, <2>4 DEF Owed
  <2>6. \A v \in Workers : v \in Strays(n)' => v \in Strays(n)
    BY <2>2 DEF Strays, Running
  <2>7. Claims(n)' \subseteq Claims(n)
    BY <2>5, <2>6 DEF Claims, Strays
  <2>8. sends'[n] = sends[n] /\ faults' = faults /\ Accounts(n) /\ Accepted(n)
    BY DEF Inv
  <2>9. Accounts(n)'
    BY <1>1, <2>7, <2>8, Account
  <2>10. Accepted(n)'
    BY <2>1, <2>8 DEF Accepted
  <2> QED
    BY <2>9, <2>10
<1> QED
  BY <1>2, <1>3, <1>4 DEF Inv

LEMMA RaiseStep ==
    ASSUME Inv, NEW n \in Notices, Raise(n)
    PROVE  Inv'
<1>1. CASE db[n].raised
  <2>1. UNCHANGED <<db, lag, holder, worker, sends, faults>>
    BY <1>1 DEF Raise
  <2>2. db' \in Tables /\ lag' \in [Nodes -> Seq(Tables)]
    BY <2>1 DEF Inv, TypeOK
  <2> QED
    BY <2>1, <2>2, TableStep
<1>2. CASE ~db[n].raised
  <2> DEFINE row == [db[n] EXCEPT !.raised = TRUE]
  <2>1. /\ db' = [db EXCEPT ![n] = row] /\ lag' = [m \in Nodes |-> Append(lag[m], db)]
        /\ UNCHANGED <<holder, worker, sends, faults>>
    BY <1>2 DEF Raise, Commit
  <2>2. db \in Tables /\ lag \in [Nodes -> Seq(Tables)]
    BY DEF Inv, TypeOK
  <2>3. row \in Rows /\ row.fence = db[n].fence /\ row.state = db[n].state
    BY <2>2 DEF Tables, Rows
  <2> HIDE DEF row
  <2>4. db' \in Tables /\ lag' \in [Nodes -> Seq(Tables)]
    BY <2>1, <2>2, <2>3 DEF Tables
  <2>5. \A k \in Notices : db'[k].fence = db[k].fence /\ db'[k].state = db[k].state
    BY <2>1, <2>2, <2>3 DEF Tables
  <2> QED
    BY <2>1, <2>4, <2>5, TableStep
<1> QED
  BY <1>1, <1>2

LEMMA ElapseStep ==
    ASSUME Inv, NEW n \in Notices, Elapse(n)
    PROVE  Inv'
<1> DEFINE row == [db[n] EXCEPT !.due = TRUE]
<1>1. /\ db' = [db EXCEPT ![n] = row]
      /\ UNCHANGED <<lag, holder, worker, sends, faults>>
      /\ db \in Tables /\ lag \in [Nodes -> Seq(Tables)]
  BY DEF Elapse, Inv, TypeOK, Tables
<1>2. row \in Rows /\ row.fence = db[n].fence /\ row.state = db[n].state
  BY <1>1 DEF Tables, Rows
<1> HIDE DEF row
<1>3. db' \in Tables /\ lag' \in [Nodes -> Seq(Tables)]
  BY <1>1, <1>2 DEF Tables
<1>4. \A k \in Notices : db'[k].fence = db[k].fence /\ db'[k].state = db[k].state
  BY <1>1, <1>2 DEF Tables
<1> QED
  BY <1>1, <1>3, <1>4, TableStep

LEMMA ApplyStep ==
    ASSUME Inv, NEW m \in Nodes, Apply(m)
    PROVE  Inv'
<1>1. /\ UNCHANGED <<db, holder, worker, sends, faults>>
      /\ lag[m] # <<>> /\ lag' = [lag EXCEPT ![m] = Tail(@)]
      /\ db \in Tables /\ lag \in [Nodes -> Seq(Tables)]
  BY DEF Apply, Inv, TypeOK
<1>2. db' \in Tables /\ lag' \in [Nodes -> Seq(Tables)]
  BY <1>1
<1> QED
  BY <1>1, <1>2, TableStep

-----------------------------------------------------------------------------
(* The account is kept from the first state on: nothing is sent yet, and of the
   one claim there is the lease's. *)
THEOREM Invariance == Spec => []Inv
<1>1. Init => Inv
  <2> SUFFICES ASSUME Init PROVE Inv
    OBVIOUS
  <2>1. TypeOK
    BY DEF Init, TypeOK, Tables, Rows, Passes, Places, Unraised, Idle
  <2>2. Bounded /\ Busy /\ HolderFirst
    <3>1. /\ \A n \in Notices : db[n].fence <= 0
          /\ \A w \in Workers : worker[w].token <= 0 /\ worker[w].pc = "idle"
      BY DEF Init, Unraised, Idle
    <3> QED
      BY <3>1 DEF Init, Bounded, Busy, OnNotice, HolderFirst
  <2>3. ASSUME NEW n \in Notices
        PROVE  Accounts(n) /\ Accepted(n)
    <3>1. /\ \A w \in Workers : worker[w].pc = "idle"
          /\ db[n].state = "none" /\ sends[n] = 0 /\ faults = 0
      BY DEF Init, Unraised, Idle
    <3>2. Claims(n) \subseteq {None}
      BY <3>1 DEF Claims, Strays, Running
    <3>3. IsFiniteSet({None}) /\ Cardinality({None}) = 1
      BY FS_Singleton
    <3>4. /\ IsFiniteSet(Claims(n)) /\ Cardinality(Claims(n)) \in Nat
          /\ Cardinality(Claims(n)) <= 1
      BY <3>2, <3>3, FS_Subset, FS_CardinalityType
    <3>5. Accounts(n)
      BY <3>1, <3>4 DEF Accounts
    <3> QED
      BY <3>1, <3>5 DEF Accepted, HasSent
  <2> QED
    BY <2>1, <2>2, <2>3 DEF Inv
<1>2. Inv /\ [Next]_vars => Inv'
  <2> SUFFICES ASSUME Inv, [Next]_vars PROVE Inv'
    OBVIOUS
  <2>1. CASE UNCHANGED vars
    BY <2>1, TableStep DEF vars, Inv, TypeOK
  <2>2. CASE \E n \in Notices : Raise(n) \/ Elapse(n)
    BY <2>2, RaiseStep, ElapseStep
  <2>3. CASE \E m \in Nodes : Apply(m) \/ Crash(m)
    BY <2>3, ApplyStep, CrashStep
  <2>4. CASE \E w \in Workers : Acquire(w) \/ Run(w) \/ StoreFault(w)
    BY <2>4, AcquireStep, GetStep, FinishStep, SendStep, ReadFenceStep, WriteStatusStep,
       RecordStep, StoreFaultStep DEF Run
  <2>5. CASE Lapse
    BY <2>5, LapseStep
  <2> QED
    BY <2>1, <2>2, <2>3, <2>4, <2>5 DEF Next
<1> QED
  BY <1>1, <1>2, PTL DEF Spec

(***************************************************************************)
(* Of any number of nodes, notices and attempts: every copy of a notice    *)
(* beyond the first has a crash, a lapse, a stale read, a failed store or  *)
(* a lost answer to account for it, and a status that reads "sent" is of a *)
(* notice the relay has accepted (reconcile and sweep, controller.ts).     *)
(***************************************************************************)
THEOREM EveryCopyAccounted == Spec => []DeliveriesAccounted
<1>1. Inv => DeliveriesAccounted
  <2> SUFFICES ASSUME Inv, NEW n \in Notices
               PROVE  /\ sends[n] <= 1 + faults
                      /\ db[n].state = "sent" => sends[n] > 0
    BY DEF DeliveriesAccounted
  <2>1. /\ IsFiniteSet(Claims(n)) /\ sends[n] + Cardinality(Claims(n)) <= 1 + faults
        /\ sends[n] \in Nat /\ faults \in Nat
    BY DEF Inv, Accounts, TypeOK
  <2>2. Cardinality(Claims(n)) \in Nat
    BY <2>1, FS_CardinalityType
  <2>3. sends[n] <= 1 + faults
    BY <2>1, <2>2
  <2>4. db[n].state = "sent" => sends[n] > 0
    BY DEF Inv, Accepted
  <2> QED
    BY <2>3, <2>4
<1> QED
  BY <1>1, Invariance, PTL
=============================================================================
