---------------------------- MODULE RenewalProofs ----------------------------
(***************************************************************************)
(* That a reconcile moves the end of a term only to a day that a payment   *)
(* bought, and that a bill stays what it was until a fault (Renewal), for  *)
(* any tiers, periods, days, editors and bounds.                           *)
(*                                                                         *)
(* A reconcile acts on what it read some steps ago.  The first property    *)
(* survives that, for what has been bought stays bought; the second needs  *)
(* that nobody else bills the term in between: until a fault a loop that   *)
(* is at work holds the lease, and people settle only what is billed.      *)
(***************************************************************************)
EXTENDS Renewal, TLAPS

SpecRows == [endsOn : Nat, autoRenew : BOOLEAN]

Statuses ==
    [state : {"none", "active", "pending", "lapsed", "invalid"}, on : Nat, invoice : Nat,
     problem : {"none", "no_tier", "lifetime_with_end", "no_end"}]

Memberships == [spec : SpecRows, status : Statuses, fence : Nat]

Bills == [amount : Nat, periodStart : Nat, periodEnd : Nat, dueOn : Nat]

Invoices ==
    [amount : Nat, periodStart : Nat, periodEnd : Nat, dueOn : Nat,
     state : {"open", "paid", "void"}]

Plans ==
    [bill : Bills \cup {NoInvoice}, renewTo : Nat, notice : {"none", "reminder", "receipt"},
     status : Statuses]

(* A loop remembers what it has read so far, and then what is to be done. *)
Passes ==
    [pc : {"idle", "get"}, token : Nat, day : Nat]
    \cup [pc : {"tier"}, token : Nat, day : Nat, spec : SpecRows, fence : Nat]
    \cup [pc : {"invoice"}, token : Nat, day : Nat, spec : SpecRows, fence : Nat,
          tier : Tiers \cup {NoTier}]
    \cup [pc : {"bill", "renew", "notice", "status"}, token : Nat, day : Nat,
          spec : SpecRows, fence : Nat, plan : Plans]

TypeOK ==
    /\ day \in Nat
    /\ tier \in Tiers \cup {NoTier}
    /\ membership \in Memberships
    /\ invoices \in [Terms -> Invoices \cup {NoInvoice}]
    /\ notices \subseteq {"reminder", "receipt"} \X Nat
    /\ changed \in BOOLEAN
    /\ holder \in Loops \cup {"none"}
    /\ loop \in [Loops -> Passes]
    /\ view \in [Editors -> Memberships]
    /\ bought \subseteq Nat
    /\ overwrote \subseteq {"editor", "renewal"}
    /\ edits \in Nat /\ faults \in Nat

(* No loop looks further than the calendar, so that what it bills is a term; and
   a loop that is to bill has a bill. *)
Dated ==
    /\ day \in 1..MaxDay
    /\ \A l \in Loops : loop[l].day <= MaxDay
    /\ \A l \in Loops :
          loop[l].pc = "bill" =>
              loop[l].spec.endsOn \in Terms /\ loop[l].plan.bill # NoInvoice

(* What is on record as paid has been bought, and so has what a loop is about
   to renew to. *)
PaidIsBought ==
    /\ \A t \in Terms :
          invoices[t] # NoInvoice /\ invoices[t].state = "paid" =>
              invoices[t].periodEnd \in bought
    /\ \A l \in Loops : loop[l].pc = "renew" => loop[l].plan.renewTo \in bought

(* Until a fault a loop at work holds the lease, and a term it is about to bill
   is unbilled. *)
OneAtWork ==
    faults = 0 =>
        \A l \in Loops :
            /\ loop[l].pc # "idle" => holder = l
            /\ loop[l].pc = "bill" => invoices[loop[l].spec.endsOn] = NoInvoice

Inv == TypeOK /\ Dated /\ PaidIsBought /\ OneAtWork

-----------------------------------------------------------------------------
(* The renewal rule. *)

LEMMA StatusType ==
    ASSUME NEW state \in {"none", "active", "pending", "lapsed", "invalid"}, NEW on \in Nat,
           NEW invoice \in Nat, NEW problem \in {"none", "no_tier", "lifetime_with_end", "no_end"}
    PROVE  Status(state, on, invoice, problem) \in Statuses
  BY DEF Status, Statuses

LEMMA NoPlanType ==
    ASSUME NEW status \in Statuses
    PROVE  /\ NoPlan(status) \in Plans
           /\ NoPlan(status).bill = NoInvoice /\ NoPlan(status).renewTo = 0
  BY DEF NoPlan, Plans

LEMMA BillType ==
    ASSUME NEW end \in Nat, NEW t \in Tiers, t.period # "lifetime"
    PROVE  /\ Billed(end, t) \in Plans /\ Billed(end, t).renewTo = 0
<1>1. t.period \in {"annual", "monthly"} /\ t.dues \in Nat /\ t.grace \in Nat
  BY ConstantsOK
<1>2. AddPeriod(end, t.period) \in Nat
  BY <1>1, ConstantsOK DEF AddPeriod
<1>3. Bill(end, t) \in Bills
  BY <1>1, <1>2 DEF Bill, Bills
<1>4. Pending(end, Bill(end, t)) \in Statuses
  BY <1>3, StatusType DEF Pending, Bills
<1> QED
  BY <1>3, <1>4 DEF Billed, Plans

LEMMA OfInvoiceType ==
    ASSUME NEW end \in Nat, NEW inv \in Invoices, NEW today \in Nat
    PROVE  LET plan == OfInvoice(end, inv, today) IN
           /\ plan \in Plans /\ plan.bill = NoInvoice
           /\ plan.renewTo # 0 => inv.state = "paid" /\ plan.renewTo = inv.periodEnd
<1>1. /\ inv.periodEnd \in Nat /\ inv.dueOn \in Nat
  BY DEF Invoices
<1>2. /\ Status("active", inv.periodEnd, 0, "none") \in Statuses
      /\ Status("lapsed", end, end, "none") \in Statuses
      /\ Status("lapsed", inv.dueOn, end, "none") \in Statuses
      /\ Pending(end, inv) \in Statuses
  BY <1>1, StatusType DEF Pending
<1>3. CASE Paid(inv)
  BY <1>1, <1>2, <1>3 DEF OfInvoice, Paid, Plans
<1>4. CASE ~Paid(inv)
  <2>1. PICK s \in Statuses : OfInvoice(end, inv, today) = NoPlan(s)
    BY <1>2, <1>4 DEF OfInvoice
  <2> QED
    BY <2>1, NoPlanType
<1> QED
  BY <1>3, <1>4

(* The rule bills only what is over and unbilled, and renews only what is paid,
   to the end that was paid for. *)
LEMMA EvaluateType ==
    ASSUME NEW spec \in SpecRows, NEW t \in Tiers \cup {NoTier},
           NEW inv \in Invoices \cup {NoInvoice}, NEW today \in Nat
    PROVE  LET plan == Evaluate(spec, t, inv, today) IN
           /\ plan \in Plans
           /\ plan.bill # NoInvoice => inv = NoInvoice /\ spec.endsOn \in 1..today
           /\ plan.renewTo # 0 =>
                  inv # NoInvoice /\ inv.state = "paid" /\ plan.renewTo = inv.periodEnd
<1> DEFINE end == spec.endsOn
<1>1. end \in Nat
  BY DEF SpecRows
<1>2. /\ Status("invalid", 0, 0, "no_tier") \in Statuses
      /\ Status("invalid", 0, 0, "lifetime_with_end") \in Statuses
      /\ Status("invalid", 0, 0, "no_end") \in Statuses
      /\ Status("active", 0, 0, "none") \in Statuses
      /\ Status("active", end, 0, "none") \in Statuses
      /\ Status("lapsed", end, 0, "none") \in Statuses
  BY <1>1, StatusType
<1>3. CASE t = NoTier \/ t.period = "lifetime" \/ end = 0 \/ today < end \/ ~spec.autoRenew
  <2>1. PICK s \in Statuses : Evaluate(spec, t, inv, today) = NoPlan(s)
    BY <1>2, <1>3 DEF Evaluate
  <2> QED
    BY <2>1, NoPlanType
<1>4. CASE ~(t = NoTier \/ t.period = "lifetime" \/ end = 0 \/ today < end \/ ~spec.autoRenew)
  <2>1. CASE inv = NoInvoice
    <3>1. Evaluate(spec, t, inv, today) = Billed(end, t)
      BY <1>4, <2>1 DEF Evaluate
    <3> QED
      BY <1>1, <1>4, <2>1, <3>1, BillType
  <2>2. CASE inv # NoInvoice
    <3>1. Evaluate(spec, t, inv, today) = OfInvoice(end, inv, today)
      BY <1>4, <2>2 DEF Evaluate
    <3> QED
      BY <1>1, <2>2, <3>1, OfInvoiceType
  <2> QED
    BY <2>1, <2>2
<1> QED
  BY <1>3, <1>4

(* What a pass is, by its step. *)
LEMMA PassShape ==
    ASSUME NEW me \in Passes
    PROVE  /\ me.token \in Nat /\ me.day \in Nat
           /\ me.pc \in {"idle", "get", "tier", "invoice", "bill", "renew", "notice", "status"}
           /\ me.pc \notin {"idle", "get"} => me.spec \in SpecRows /\ me.fence \in Nat
           /\ me.pc = "invoice" => me.tier \in Tiers \cup {NoTier}
           /\ me.pc \in {"bill", "renew", "notice", "status"} => me.plan \in Plans
  BY DEF Passes

(* A loop that moves on along its plan. *)
LEMMA GotoType ==
    ASSUME TypeOK, NEW l \in Loops, NEW pc \in {"notice", "status"},
           loop[l].pc \in {"bill", "renew", "notice", "status"}, Goto(l, pc)
    PROVE  /\ loop' \in [Loops -> Passes]
           /\ loop'[l].pc = pc /\ loop'[l].day = loop[l].day
           /\ \A k \in Loops \ {l} : loop'[k] = loop[k]
<1>1. PICK me \in Passes : me = [loop[l] EXCEPT !.pc = pc]
  <2>1. loop[l] \in Passes
    BY DEF TypeOK
  <2>2. loop[l] \in [pc : {"bill", "renew", "notice", "status"}, token : Nat, day : Nat,
                     spec : SpecRows, fence : Nat, plan : Plans]
    BY <2>1 DEF Passes
  <2> QED
    BY <2>2 DEF Passes
<1>2. loop' = [loop EXCEPT ![l] = me]
  BY <1>1 DEF Goto
<1>3. loop[l] \in Passes
  BY DEF TypeOK
<1>4. me.pc = pc /\ me.day = loop[l].day
  BY <1>1, <1>3 DEF Passes
<1> QED
  BY <1>2, <1>4 DEF TypeOK

(* A loop that ends its pass. *)
LEMMA LeaveType ==
    ASSUME TypeOK, NEW l \in Loops, Leave(l)
    PROVE  /\ loop' \in [Loops -> Passes] /\ holder' \in Loops \cup {"none"}
           /\ loop'[l].pc = "idle" /\ loop'[l].day = 0
           /\ \A k \in Loops \ {l} : loop'[k] = loop[k] /\ (holder = k => holder' = k)
<1>1. Idle \in Passes /\ Idle.pc = "idle" /\ Idle.day = 0
  BY DEF Idle, Passes
<1> QED
  BY <1>1 DEF Leave, TypeOK, Loops

-----------------------------------------------------------------------------
(* The steps of a pass. *)

(* Whatever a loop does that leaves what is billed and bought alone and does
   not take it to a bill or a renewal. *)
LEMMA QuietStep ==
    ASSUME Inv, NEW l \in Loops, TypeOK',
           \A k \in Loops \ {l} : loop'[k] = loop[k] /\ (holder = k => holder' = k),
           loop'[l].pc \notin {"bill", "renew"}, loop'[l].day <= MaxDay,
           UNCHANGED <<day, invoices, bought>>,
           faults' = 0 => faults = 0 /\ (loop'[l].pc # "idle" => holder' = l)
    PROVE  Inv'
<1>1. Dated'
  BY DEF Inv, Dated
<1>2. PaidIsBought'
  BY DEF Inv, PaidIsBought
<1>3. OneAtWork'
  BY DEF Inv, OneAtWork
<1> QED
  BY <1>1, <1>2, <1>3 DEF Inv

LEMMA AcquireStep ==
    ASSUME Inv, NEW l \in Loops, Acquire(l)
    PROVE  Inv'
<1>1. Fresh \in Nat
  BY PassShape DEF Inv, TypeOK, Memberships, Loops, Fresh, NextToken
<1>2. [pc |-> "get", token |-> Fresh, day |-> day] \in Passes
  BY <1>1 DEF Inv, TypeOK, Passes
<1>3. TypeOK'
  BY <1>2 DEF Inv, TypeOK, Acquire
<1>4. loop'[l].pc = "get" /\ loop'[l].day = day /\ holder = "none" /\ holder' = l
  BY DEF Inv, TypeOK, Acquire, LeaseFree
<1>5. \A k \in Loops \ {l} : loop'[k] = loop[k] /\ holder # k
  BY <1>4 DEF Inv, TypeOK, Acquire, Loops
<1>6. day <= MaxDay
  BY ConstantsOK DEF Inv, Dated
<1> QED
  BY <1>3, <1>4, <1>5, <1>6, QuietStep DEF Acquire

LEMMA GetStep ==
    ASSUME Inv, NEW l \in Loops, Get(l)
    PROVE  Inv'
<1> DEFINE me == [pc |-> "tier", token |-> loop[l].token, day |-> loop[l].day,
                  spec |-> membership.spec, fence |-> membership.fence]
<1>1. me \in Passes
  BY PassShape DEF Inv, TypeOK, Memberships, Passes
<1>2. loop' = [loop EXCEPT ![l] = me]
  BY DEF Get
<1>3. TypeOK'
  BY <1>1, <1>2 DEF Inv, TypeOK, Get
<1>4. /\ loop'[l].pc = "tier" /\ loop'[l].day = loop[l].day
      /\ \A k \in Loops \ {l} : loop'[k] = loop[k]
  BY <1>2 DEF Inv, TypeOK
<1>5. loop[l].day <= MaxDay /\ (faults = 0 => holder = l)
  BY DEF Inv, Dated, OneAtWork, Get
<1> QED
  BY <1>3, <1>4, <1>5, QuietStep DEF Get

LEMMA GetTierStep ==
    ASSUME Inv, NEW l \in Loops, GetTier(l)
    PROVE  Inv'
<1> DEFINE me == [pc |-> "invoice", token |-> loop[l].token, day |-> loop[l].day,
                  spec |-> loop[l].spec, fence |-> loop[l].fence, tier |-> tier]
<1>1. me \in Passes
  BY PassShape DEF Inv, TypeOK, GetTier, Passes
<1>2. loop' = [loop EXCEPT ![l] = me]
  BY DEF GetTier
<1>3. TypeOK'
  BY <1>1, <1>2 DEF Inv, TypeOK, GetTier
<1>4. /\ loop'[l].pc = "invoice" /\ loop'[l].day = loop[l].day
      /\ \A k \in Loops \ {l} : loop'[k] = loop[k]
  BY <1>2 DEF Inv, TypeOK
<1>5. loop[l].day <= MaxDay /\ (faults = 0 => holder = l)
  BY DEF Inv, Dated, OneAtWork, GetTier
<1> QED
  BY <1>3, <1>4, <1>5, QuietStep DEF GetTier

(* The plan is the rule's, of the invoice as it stands now. *)
LEMMA GetInvoiceStep ==
    ASSUME Inv, NEW l \in Loops, GetInvoice(l)
    PROVE  Inv'
<1> DEFINE inv  == InvoiceOf(loop[l].spec)
           plan == Evaluate(loop[l].spec, loop[l].tier, inv, loop[l].day)
           me   == [pc |-> FirstOf(plan), token |-> loop[l].token, day |-> loop[l].day,
                    spec |-> loop[l].spec, fence |-> loop[l].fence, plan |-> plan]
<1>1. /\ loop[l] \in Passes /\ loop[l].pc = "invoice"
      /\ loop[l].day \in Nat /\ loop[l].day <= MaxDay
      /\ loop[l].spec \in SpecRows /\ loop[l].fence \in Nat /\ loop[l].token \in Nat
      /\ loop[l].tier \in Tiers \cup {NoTier}
  BY PassShape DEF Inv, TypeOK, Dated, GetInvoice
<1>2. inv \in Invoices \cup {NoInvoice}
  BY DEF InvoiceOf, Inv, TypeOK
<1>3. /\ plan \in Plans
      /\ plan.bill # NoInvoice => inv = NoInvoice /\ loop[l].spec.endsOn \in 1..loop[l].day
      /\ plan.renewTo # 0 =>
             inv # NoInvoice /\ inv.state = "paid" /\ plan.renewTo = inv.periodEnd
  BY <1>1, <1>2, EvaluateType
<1>4. FirstOf(plan) \in {"bill", "renew", "status"}
  BY DEF FirstOf
<1>5. me \in Passes
  <2> HIDE DEF plan
  <2> QED
    BY <1>1, <1>3, <1>4 DEF Passes
<1>6. loop' = [loop EXCEPT ![l] = me]
  BY DEF GetInvoice
<1>7. TypeOK'
  <2> HIDE DEF me
  <2> QED
    BY <1>5, <1>6 DEF Inv, TypeOK, GetInvoice
<1>8. loop'[l] = me /\ \A k \in Loops \ {l} : loop'[k] = loop[k]
  BY <1>6 DEF Inv, TypeOK
<1>9. FirstOf(plan) = "bill" =>
          loop[l].spec.endsOn \in Terms /\ inv = NoInvoice /\ plan.bill # NoInvoice
  <2> HIDE DEF plan, inv
  <2> QED
    BY <1>1, <1>3, ConstantsOK DEF FirstOf, Terms
<1>10. FirstOf(plan) = "renew" => plan.renewTo \in bought
  <2>1. SUFFICES ASSUME FirstOf(plan) = "renew" PROVE plan.renewTo \in bought
    OBVIOUS
  <2>2. inv # NoInvoice /\ inv.state = "paid" /\ plan.renewTo = inv.periodEnd
    <3> HIDE DEF plan, inv
    <3> QED
      BY <1>3, <2>1 DEF FirstOf
  <2>3. loop[l].spec.endsOn \in Terms /\ inv = invoices[loop[l].spec.endsOn]
    BY <2>2 DEF InvoiceOf
  <2> QED
    BY <2>2, <2>3 DEF Inv, PaidIsBought
<1>11. loop[l].spec.endsOn \in Terms => inv = invoices[loop[l].spec.endsOn]
  BY DEF InvoiceOf
<1> HIDE DEF plan, inv
<1>12. /\ loop'[l].pc = FirstOf(plan) /\ loop'[l].day = loop[l].day
       /\ loop'[l].spec = loop[l].spec /\ loop'[l].plan = plan
  BY <1>8
<1> HIDE DEF me
<1>13. Dated'
  BY <1>1, <1>8, <1>9, <1>12 DEF Inv, Dated, GetInvoice, Terms
<1>14. PaidIsBought'
  BY <1>8, <1>10, <1>12 DEF Inv, PaidIsBought, GetInvoice
<1>15. OneAtWork'
  BY <1>1, <1>8, <1>9, <1>11, <1>12 DEF Inv, OneAtWork, GetInvoice
<1> QED
  BY <1>7, <1>13, <1>14, <1>15 DEF Inv

(* A bill is written: as planned, and paid only if it stood so. *)
LEMMA BillTermStep ==
    ASSUME Inv, NEW l \in Loops, BillTerm(l)
    PROVE  Inv'
<1> DEFINE plan == loop[l].plan
           end  == loop[l].spec.endsOn
           old  == invoices[end]
           new  == [amount |-> plan.bill.amount, periodStart |-> plan.bill.periodStart,
                    periodEnd |-> plan.bill.periodEnd, dueOn |-> plan.bill.dueOn,
                    state |-> IF old = NoInvoice THEN "open" ELSE old.state]
<1>1. /\ loop[l].pc = "bill" /\ end \in Terms /\ loop[l].day <= MaxDay
      /\ plan.bill \in Bills
  BY PassShape DEF Inv, TypeOK, Dated, BillTerm, Plans
<1>2. /\ Goto(l, "notice") /\ invoices' = [invoices EXCEPT ![end] = new]
      /\ bought' = IF new.state = "paid" THEN bought \cup {new.periodEnd} ELSE bought
      /\ changed' = (changed \/ new # old)
      /\ UNCHANGED <<day, tier, membership, notices, holder, view, overwrote, edits, faults>>
  BY DEF BillTerm
<1>3. /\ loop' \in [Loops -> Passes]
      /\ loop'[l].pc = "notice" /\ loop'[l].day = loop[l].day
      /\ \A k \in Loops \ {l} : loop'[k] = loop[k]
  BY <1>1, <1>2, GotoType DEF Inv
<1>4. old \in Invoices \cup {NoInvoice}
  BY <1>1 DEF Inv, TypeOK
<1>5. new \in Invoices /\ new.periodEnd \in Nat
  BY <1>1, <1>4 DEF Bills, Invoices
<1> HIDE DEF new
<1>6. TypeOK'
  BY <1>1, <1>2, <1>3, <1>5 DEF Inv, TypeOK
<1>7. Dated'
  BY <1>1, <1>2, <1>3 DEF Inv, Dated
<1>8. PaidIsBought'
  BY <1>1, <1>2, <1>3 DEF Inv, TypeOK, PaidIsBought
<1>9. OneAtWork'
  BY <1>1, <1>2, <1>3 DEF Inv, TypeOK, OneAtWork
<1> QED
  BY <1>6, <1>7, <1>8, <1>9 DEF Inv

(* A renewal writes the spec the loop read, with the end it is to have. *)
LEMMA RenewStep ==
    ASSUME Inv, NEW l \in Loops, Renew(l)
    PROVE  Inv'
<1> DEFINE me  == loop[l]
           new == [me.spec EXCEPT !.endsOn = me.plan.renewTo]
<1>1. /\ me.pc = "renew" /\ me.day <= MaxDay
      /\ me.spec \in SpecRows /\ me.fence \in Nat /\ me.plan \in Plans
  BY PassShape DEF Inv, TypeOK, Dated, Renew
<1>2. new \in SpecRows
  BY <1>1 DEF SpecRows, Plans
<1>3. UNCHANGED <<day, tier, invoices, notices, view, bought, edits, faults>>
  BY DEF Renew
<1>4. CASE membership.fence > me.fence
  <2>1. Throw(l) /\ UNCHANGED <<membership, overwrote>>
    BY <1>4 DEF Renew
  <2>2. /\ loop' \in [Loops -> Passes] /\ holder' \in Loops \cup {"none"}
        /\ loop'[l].pc = "idle" /\ loop'[l].day = 0
        /\ \A k \in Loops \ {l} : loop'[k] = loop[k] /\ (holder = k => holder' = k)
    BY <2>1, LeaveType DEF Inv, Throw
  <2>3. TypeOK'
    BY <1>3, <2>1, <2>2 DEF Inv, TypeOK, Throw
  <2> QED
    BY <1>3, <2>2, <2>3, QuietStep, ConstantsOK
<1>5. CASE ~(membership.fence > me.fence)
  <2>1. /\ membership' = [membership EXCEPT !.spec = new, !.fence = me.fence]
        /\ changed' = (changed \/ membership' # membership)
        /\ overwrote' = IF membership.spec \in {me.spec, new} THEN overwrote
                        ELSE overwrote \cup {"renewal"}
        /\ Goto(l, "notice") /\ UNCHANGED holder
    BY <1>5 DEF Renew
  <2>2. /\ loop' \in [Loops -> Passes]
        /\ loop'[l].pc = "notice" /\ loop'[l].day = me.day
        /\ \A k \in Loops \ {l} : loop'[k] = loop[k]
    BY <1>1, <2>1, GotoType DEF Inv
  <2> HIDE DEF new
  <2>3. membership' \in Memberships
    BY <1>1, <1>2, <2>1 DEF Inv, TypeOK, Memberships
  <2>4. TypeOK'
    BY <1>3, <2>1, <2>2, <2>3 DEF Inv, TypeOK
  <2>5. faults = 0 => holder = l
    BY <1>1 DEF Inv, OneAtWork
  <2> QED
    BY <1>1, <1>3, <2>1, <2>2, <2>4, <2>5, QuietStep
<1> QED
  BY <1>4, <1>5

LEMMA RaiseNoticeStep ==
    ASSUME Inv, NEW l \in Loops, RaiseNotice(l)
    PROVE  Inv'
<1>1. /\ loop[l].pc = "notice" /\ loop[l].day <= MaxDay
      /\ loop[l].spec \in SpecRows /\ loop[l].plan \in Plans
  BY PassShape DEF Inv, TypeOK, Dated, RaiseNotice
<1>2. /\ Goto(l, "status")
      /\ UNCHANGED <<day, tier, membership, invoices, changed, holder, view, bought,
                     overwrote, edits>>
  BY DEF RaiseNotice
<1>3. /\ loop' \in [Loops -> Passes]
      /\ loop'[l].pc = "status" /\ loop'[l].day = loop[l].day
      /\ \A k \in Loops \ {l} : loop'[k] = loop[k]
  BY <1>1, <1>2, GotoType DEF Inv
<1>4. notices' \subseteq {"reminder", "receipt"} \X Nat
  <2>1. /\ loop[l].plan.notice \in {"none", "reminder", "receipt"}
        /\ loop[l].spec.endsOn \in Nat
    BY <1>1 DEF Plans, SpecRows
  <2> QED
    BY <2>1 DEF RaiseNotice, Inv, TypeOK
<1>5. faults' \in Nat /\ (faults' = 0 => faults = 0)
  BY DEF RaiseNotice, Fault, Inv, TypeOK
<1>6. TypeOK'
  BY <1>2, <1>3, <1>4, <1>5 DEF Inv, TypeOK
<1>7. faults = 0 => holder = l
  BY <1>1 DEF Inv, OneAtWork
<1> QED
  BY <1>1, <1>2, <1>3, <1>5, <1>6, <1>7, QuietStep

LEMMA SetStatusStep ==
    ASSUME Inv, NEW l \in Loops, SetStatus(l)
    PROVE  Inv'
<1>1. /\ UNCHANGED <<day, tier, invoices, notices, view, bought, overwrote, edits, faults>>
      /\ Leave(l)
  BY DEF SetStatus, Throw
<1>2. /\ loop[l].plan \in Plans /\ loop[l].token \in Nat
  BY PassShape DEF Inv, TypeOK, SetStatus
<1>3. /\ loop' \in [Loops -> Passes] /\ holder' \in Loops \cup {"none"}
      /\ loop'[l].pc = "idle" /\ loop'[l].day = 0
      /\ \A k \in Loops \ {l} : loop'[k] = loop[k] /\ (holder = k => holder' = k)
  BY <1>1, LeaveType DEF Inv
<1>4. membership' \in Memberships
  BY <1>2 DEF SetStatus, Inv, TypeOK, Memberships, Plans
<1>5. changed' \in BOOLEAN
  BY DEF SetStatus, Throw, Inv, TypeOK
<1>6. TypeOK'
  BY <1>1, <1>3, <1>4, <1>5 DEF Inv, TypeOK
<1> QED
  BY <1>1, <1>3, <1>6, QuietStep, ConstantsOK

LEMMA StoreFaultStep ==
    ASSUME Inv, NEW l \in Loops, StoreFault(l)
    PROVE  Inv'
<1>1. /\ loop' \in [Loops -> Passes] /\ holder' \in Loops \cup {"none"}
      /\ loop'[l].pc = "idle" /\ loop'[l].day = 0
      /\ \A k \in Loops \ {l} : loop'[k] = loop[k] /\ (holder = k => holder' = k)
  BY LeaveType DEF Inv, StoreFault, Throw
<1>2. faults' \in Nat /\ faults' # 0
  BY DEF StoreFault, Fault, Inv, TypeOK
<1>3. TypeOK'
  BY <1>1, <1>2 DEF Inv, TypeOK, StoreFault, Throw
<1> QED
  BY <1>1, <1>2, <1>3, QuietStep, ConstantsOK DEF StoreFault

-----------------------------------------------------------------------------
(* What people do, and time, and failures. *)

(* No loop and no lease moves, what is unbilled stays so, and what is paid is
   entered as bought. *)
LEMMA PeopleStep ==
    ASSUME Inv, TypeOK', UNCHANGED <<loop, holder, faults>>, day' \in 1..MaxDay,
           bought \subseteq bought',
           \A t \in Terms :
               /\ invoices[t] = NoInvoice => invoices'[t] = NoInvoice
               /\ invoices'[t] # NoInvoice /\ invoices'[t].state = "paid" =>
                      invoices'[t].periodEnd \in bought'
    PROVE  Inv'
<1>1. Dated'
  BY DEF Inv, Dated
<1>2. PaidIsBought'
  BY DEF Inv, PaidIsBought
<1>3. OneAtWork'
  BY DEF Inv, Dated, OneAtWork
<1> QED
  BY <1>1, <1>2, <1>3 DEF Inv

LEMMA ViewStep ==
    ASSUME Inv, NEW e \in Editors, View(e)
    PROVE  Inv'
<1>1. TypeOK'
  BY DEF Inv, TypeOK, View
<1> QED
  BY <1>1, PeopleStep DEF View, Inv, Dated, PaidIsBought

LEMMA PutMembershipStep ==
    ASSUME Inv, NEW e \in Editors, PutMembership(e)
    PROVE  Inv'
<1>1. PICK spec \in Corrections(view[e].spec), fence \in {view[e].fence, membership.fence} :
          /\ Edit /\ changed' = TRUE
          /\ membership' = [membership EXCEPT !.spec = spec, !.fence = fence]
          /\ overwrote' \in {overwrote, overwrote \cup {"editor"}}
          /\ view' = [view EXCEPT ![e] = membership']
          /\ UNCHANGED <<day, tier, invoices, notices, holder, loop, bought, faults>>
  BY DEF PutMembership
<1>2. view[e] \in Memberships /\ membership \in Memberships /\ day \in Nat
  BY DEF Inv, TypeOK
<1>3. spec \in SpecRows
  <2>1. view[e].spec \in SpecRows
    BY <1>2 DEF Memberships
  <2>2. PICK flag \in BOOLEAN, end \in Nat :
            \/ spec = [view[e].spec EXCEPT !.autoRenew = flag]
            \/ spec = [view[e].spec EXCEPT !.endsOn = end]
    <3>1. (~view[e].spec.autoRenew) \in BOOLEAN
      OBVIOUS
    <3> QED
      BY <1>2, <3>1, Zenon DEF Corrections
  <2> QED
    BY <2>1, <2>2 DEF SpecRows
<1>4. membership' \in Memberships
  BY <1>1, <1>2, <1>3 DEF Memberships
<1>5. TypeOK'
  BY <1>1, <1>4 DEF Inv, TypeOK, Edit
<1> QED
  BY <1>1, <1>5, PeopleStep DEF Inv, Dated, PaidIsBought

LEMMA PutTierStep ==
    ASSUME Inv, NEW t \in Offers, PutTier(t)
    PROVE  Inv'
<1>1. tier' \in Tiers \cup {NoTier} /\ edits' \in Nat
  BY ConstantsOK DEF Inv, TypeOK, PutTier, Edit
<1>2. TypeOK'
  BY <1>1 DEF Inv, TypeOK, PutTier
<1> QED
  BY <1>2, PeopleStep DEF PutTier, Inv, Dated, PaidIsBought

LEMMA SettleStep ==
    ASSUME Inv, NEW t \in Terms, NEW state \in {"paid", "void"}, Settle(t, state)
    PROVE  Inv'
<1>1. /\ invoices[t] \in Invoices /\ invoices[t] # NoInvoice
  BY DEF Inv, TypeOK, Settle
<1>2. PICK new \in Invoices : new = [invoices[t] EXCEPT !.state = state]
  BY <1>1 DEF Invoices
<1>3. new.periodEnd = invoices[t].periodEnd /\ new.state = state /\ new.periodEnd \in Nat
  BY <1>1, <1>2 DEF Invoices
<1>4. invoices' = [invoices EXCEPT ![t] = new]
  BY <1>2 DEF Settle
<1>5. bought' = IF state = "paid" THEN bought \cup {new.periodEnd} ELSE bought
  BY <1>3 DEF Settle
<1>6. /\ changed' \in BOOLEAN /\ edits' \in Nat
      /\ UNCHANGED <<day, tier, membership, notices, holder, loop, view, overwrote, faults>>
  BY DEF Settle, Edit, Inv, TypeOK
<1>7. TypeOK'
  BY <1>3, <1>4, <1>5, <1>6 DEF Inv, TypeOK
<1>8. \A u \in Terms :
          /\ invoices[u] = NoInvoice => invoices'[u] = NoInvoice
          /\ invoices'[u] # NoInvoice /\ invoices'[u].state = "paid" =>
                 invoices'[u].periodEnd \in bought'
  BY <1>1, <1>3, <1>4, <1>5 DEF Inv, TypeOK, PaidIsBought
<1> QED
  BY <1>5, <1>6, <1>7, <1>8, PeopleStep DEF Inv, Dated

LEMMA TickStep ==
    ASSUME Inv, Tick
    PROVE  Inv'
<1>1. TypeOK'
  BY DEF Inv, TypeOK, Tick
<1>2. day' \in 1..MaxDay
  BY ConstantsOK DEF Inv, Dated, Tick
<1> QED
  BY <1>1, <1>2, PeopleStep DEF Tick, Inv, PaidIsBought

(* The lease of a pass under way lapses by a fault alone. *)
LEMMA LapseStep ==
    ASSUME Inv, Lapse
    PROVE  Inv'
<1>1. /\ holder \in Loops /\ holder' = "none"
      /\ UNCHANGED <<day, tier, membership, invoices, notices, changed, loop, view, bought,
                     overwrote, edits>>
  BY DEF Inv, TypeOK, Lapse
<1>2. faults' \in Nat /\ (faults' = 0 => faults = 0 /\ loop[holder].pc = "idle")
  BY DEF Lapse, Fault, Inv, TypeOK
<1>3. TypeOK'
  BY <1>1, <1>2 DEF Inv, TypeOK
<1>4. Dated' /\ PaidIsBought'
  BY <1>1 DEF Inv, Dated, PaidIsBought
<1>5. OneAtWork'
  BY <1>1, <1>2 DEF Inv, OneAtWork
<1> QED
  BY <1>3, <1>4, <1>5 DEF Inv

LEMMA CrashStep ==
    ASSUME Inv, Crash
    PROVE  Inv'
<1>1. Idle \in Passes /\ Idle.pc = "idle" /\ Idle.day = 0
  BY DEF Idle, Passes
<1>2. /\ faults' \in Nat /\ faults' # 0 /\ changed' \in BOOLEAN
      /\ loop' = [l \in Loops |-> Idle]
      /\ UNCHANGED <<day, tier, membership, invoices, notices, holder, view, bought,
                     overwrote, edits>>
  BY DEF Crash, Fault, Inv, TypeOK
<1>3. TypeOK'
  BY <1>1, <1>2 DEF Inv, TypeOK
<1>4. Dated' /\ PaidIsBought'
  BY <1>1, <1>2, ConstantsOK DEF Inv, Dated, PaidIsBought
<1>5. OneAtWork'
  BY <1>2 DEF OneAtWork
<1> QED
  BY <1>3, <1>4, <1>5 DEF Inv

-----------------------------------------------------------------------------
LEMMA InitInv == Init => Inv
<1> SUFFICES ASSUME Init PROVE Inv
  OBVIOUS
<1>1. PICK spec \in Starts : membership = [spec |-> spec, status |-> NoStatus, fence |-> 0]
  BY DEF Init
<1>2. spec \in SpecRows
  <2>1. Length["annual"] \in Nat
    BY ConstantsOK
  <2> QED
    BY <1>1, <2>1, ConstantsOK DEF Specs, SpecRows
<1>3. membership \in Memberships
  BY <1>1, <1>2, StatusType DEF Memberships, NoStatus
<1>4. Idle \in Passes /\ Idle.pc = "idle" /\ Idle.day = 0
  BY DEF Idle, Passes
<1>5. TypeOK
  BY <1>3, <1>4 DEF Init, TypeOK
<1>6. Dated /\ PaidIsBought /\ OneAtWork
  BY <1>4, ConstantsOK DEF Init, Dated, PaidIsBought, OneAtWork
<1> QED
  BY <1>5, <1>6 DEF Inv

LEMMA NextInv == Inv /\ [Next]_vars => Inv'
<1> SUFFICES ASSUME Inv, [Next]_vars PROVE Inv'
  OBVIOUS
<1>1. CASE \E l \in Loops : Acquire(l) \/ Reconcile(l) \/ StoreFault(l)
  BY <1>1, AcquireStep, GetStep, GetTierStep, GetInvoiceStep, BillTermStep, RenewStep,
     RaiseNoticeStep, SetStatusStep, StoreFaultStep DEF Reconcile
<1>2. CASE People
  BY <1>2, ViewStep, PutMembershipStep, PutTierStep, SettleStep DEF People
<1>3. CASE Tick \/ Lapse \/ Crash
  BY <1>3, TickStep, LapseStep, CrashStep
<1>4. CASE UNCHANGED vars
  BY <1>4 DEF vars, Inv, TypeOK, Dated, PaidIsBought, OneAtWork
<1> QED
  BY <1>1, <1>2, <1>3, <1>4 DEF Next

(* What a loop holds of the past is true of the present in every state: paid is
   bought, a renewal is to what was bought, a bill is for an unbilled term. *)
THEOREM Invariance == Spec => []Inv
  BY InitInv, NextInv, PTL DEF Spec

(* A reconcile (renewal.ts) moves the end of a term only to the end of a term
   whose invoice was on record as paid, whatever has happened to that invoice,
   the tier and the membership since it was read. *)
THEOREM TermsArePaid == Spec => PaidForTerms
<1>1. Inv /\ [Next]_vars =>
          (membership'.spec.endsOn # membership.spec.endsOn =>
              edits' # edits \/ membership'.spec.endsOn \in bought)
  <2> SUFFICES ASSUME Inv, [Next]_vars, membership'.spec.endsOn # membership.spec.endsOn
               PROVE  edits' # edits \/ membership'.spec.endsOn \in bought
    OBVIOUS
  <2>1. ASSUME NEW l \in Loops, Renew(l)
        PROVE  membership'.spec.endsOn \in bought
    <3>1. /\ loop[l].pc = "renew" /\ loop[l].spec \in SpecRows /\ membership \in Memberships
      BY <2>1, PassShape DEF Inv, TypeOK, Renew
    <3>2. membership' = [membership EXCEPT !.fence = loop[l].fence,
                            !.spec = [loop[l].spec EXCEPT !.endsOn = loop[l].plan.renewTo]]
      BY <2>1, <3>1 DEF Renew, Memberships
    <3>3. membership'.spec.endsOn = loop[l].plan.renewTo
      BY <3>1, <3>2 DEF Memberships, SpecRows
    <3> QED
      BY <3>1, <3>3 DEF Inv, PaidIsBought
  <2>2. ASSUME NEW l \in Loops, SetStatus(l)
        PROVE  membership'.spec = membership.spec
    BY <2>2 DEF SetStatus, Inv, TypeOK, Memberships
  <2>3. ASSUME NEW e \in Editors, PutMembership(e)
        PROVE  edits' # edits
    BY <2>3 DEF PutMembership, Edit, Inv, TypeOK
  <2>4. CASE Tick \/ Lapse \/ Crash \/ UNCHANGED vars
    BY <2>4 DEF Tick, Lapse, Crash, vars
  <2>5. CASE People
    BY <2>3, <2>5 DEF People, View, PutTier, Settle
  <2>6. CASE \E l \in Loops : Acquire(l) \/ Reconcile(l) \/ StoreFault(l)
    BY <2>1, <2>2, <2>6
       DEF Acquire, Reconcile, StoreFault, Get, GetTier, GetInvoice, BillTerm, RaiseNotice
  <2> QED
    BY <2>4, <2>5, <2>6 DEF Next
<1> QED
  BY <1>1, Invariance, PTL DEF Spec, PaidForTerms

(* Until a fault the bill a member was sent is what stays on record: nobody bills
   a term again at another tier's dues, and a payment or a void leaves the
   amount and the dates. *)
THEOREM BillsKept == Spec => InvoiceKept
<1> DEFINE Kept(t) == \/ faults' > 0
                      \/ [invoices'[t] EXCEPT !.state = "any"]
                            = [invoices[t] EXCEPT !.state = "any"]
<1>1. Inv /\ [Next]_vars => \A t \in Terms : invoices[t] # NoInvoice => Kept(t)
  <2> SUFFICES ASSUME Inv, [Next]_vars, NEW t \in Terms, invoices[t] # NoInvoice
               PROVE  Kept(t)
    OBVIOUS
  <2>1. ASSUME NEW l \in Loops, BillTerm(l)
        PROVE  Kept(t)
    <3>1. CASE faults = 0
      <4>1. t # loop[l].spec.endsOn
        BY <2>1, <3>1 DEF Inv, OneAtWork, BillTerm
      <4>2. invoices'[t] = invoices[t]
        BY <2>1, <4>1 DEF BillTerm, Inv, TypeOK
      <4> QED
        BY <4>2
    <3>2. CASE faults # 0
      BY <2>1, <3>2 DEF BillTerm, Inv, TypeOK
    <3> QED
      BY <3>1, <3>2
  <2>2. ASSUME NEW u \in Terms, NEW state \in {"paid", "void"}, Settle(u, state)
        PROVE  Kept(t)
    <3>1. invoices[t] \in Invoices
      BY DEF Inv, TypeOK
    <3>2. invoices'[t] = invoices[t] \/ invoices'[t] = [invoices[t] EXCEPT !.state = state]
      BY <2>2 DEF Settle, Inv, TypeOK
    <3> QED
      BY <3>1, <3>2 DEF Invoices
  <2>3. CASE UNCHANGED invoices
    BY <2>3
  <2>4. CASE Tick \/ Lapse \/ Crash \/ UNCHANGED vars
    BY <2>3, <2>4 DEF Tick, Lapse, Crash, vars
  <2>5. CASE People
    BY <2>2, <2>3, <2>5 DEF People, View, PutMembership, PutTier
  <2>6. CASE \E l \in Loops : Acquire(l) \/ Reconcile(l) \/ StoreFault(l)
    BY <2>1, <2>3, <2>6
       DEF Acquire, Reconcile, StoreFault, Get, GetTier, GetInvoice, Renew, RaiseNotice,
           SetStatus
  <2> QED
    BY <2>4, <2>5, <2>6 DEF Next
<1> QED
  BY <1>1, Invariance, PTL DEF Spec, InvoiceKept

=============================================================================
