------------------------------ MODULE Renewal ------------------------------
(***************************************************************************)
(* Membership renewal, backend/members: one membership with its tier, its  *)
(* dues invoices and its notices.  The change loop and the calendar sweep  *)
(* take turns under one lease and run the same reconcile, a chain of reads *)
(* and writes in the control plane; operators edit the membership and the  *)
(* tier and a treasurer records payments, with no lease, at any point of   *)
(* it.  One node, whose reads are current.                                 *)
(*                                                                         *)
(* A calendar day is a number and 0 is no day; a period adds its length.   *)
(* An invoice is named by the day its term starts.  An admit or a          *)
(* setStatus is one step here (Admission has its parts), and the watermark *)
(* a flag that a change is unseen (Controller has it whole).  The member   *)
(* has an address.                                                         *)
(***************************************************************************)
EXTENDS Naturals

CONSTANTS
    Tiers,      \* tier specs: period, dues, grace days
    Offers,     \* what operators change the tier to, NoTier to delete it
    Length,     \* days of each billing period
    Starts,     \* memberships an operator first registers
    Editors,    \* operators editing the membership
    NoTier, NoInvoice,
    MaxDay,     \* bound on the calendar
    MaxEdits,   \* bound on operators' and treasurers' writes
    MaxFaults   \* bound on crashes, lapsed leases and store faults

Specs == [endsOn : 0..(MaxDay + Length["annual"]), autoRenew : BOOLEAN]

ASSUME ConstantsOK ==
    /\ MaxDay \in Nat \ {0} /\ MaxEdits \in Nat /\ MaxFaults \in Nat
    /\ Length \in [{"annual", "monthly"} -> Nat \ {0}]
    /\ Tiers \subseteq [period : {"annual", "monthly", "lifetime"},
                        dues : Nat, grace : Nat]
    /\ NoTier \notin Tiers /\ Offers \subseteq Tiers \cup {NoTier}
    /\ Starts \subseteq Specs

VARIABLES
    day,        \* today()
    tier,       \* the tier's spec, or NoTier
    membership, \* its row
    invoices,   \* per first day of a term, a row or NoInvoice
    notices,    \* notices raised: template and invoice
    changed,    \* a membership or invoice change above the watermark
    holder,     \* the loop that holds ctl:renewal, or "none"
    loop,       \* per loop, the reconcile under way
    view,       \* per editor, the row it last read
    bought,     \* history: term ends an invoice recorded as paid has stood at
    overwrote,  \* history: who wrote over an edit it had not read
    edits, faults

vars == <<day, tier, membership, invoices, notices, changed, holder, loop, view,
          bought, overwrote, edits, faults>>

Loops == {"controller", "sweep"}
Terms == 1..MaxDay

(* A status is a state, the day it names, its invoice and what is wrong. *)
Status(state, on, invoice, problem) ==
    [state |-> state, on |-> on, invoice |-> invoice, problem |-> problem]

NoStatus == Status("none", 0, 0, "none")

Idle == [pc |-> "idle", token |-> 0, day |-> 0]

Init ==
    /\ day = 1
    /\ tier \in Tiers
    /\ \E spec \in Starts :
          membership = [spec |-> spec, status |-> NoStatus, fence |-> 0]
    /\ invoices = [t \in Terms |-> NoInvoice]
    /\ notices = {}
    /\ changed = TRUE
    /\ holder = "none"
    /\ loop = [l \in Loops |-> Idle]
    /\ view = [e \in Editors |-> membership]
    /\ bought = {}
    /\ overwrote = {}
    /\ edits = 0 /\ faults = 0

-----------------------------------------------------------------------------
(* The renewal rule: a pure function of what a reconcile has read. *)

NoPlan(status) ==
    [bill |-> NoInvoice, renewTo |-> 0, notice |-> "none", status |-> status]

AddPeriod(d, period) == d + Length[period]

Bill(end, t) == [amount |-> t.dues, periodStart |-> end,
                 periodEnd |-> AddPeriod(end, t.period), dueOn |-> end + t.grace]

Pending(end, inv) == Status("pending", inv.periodEnd, end, "none")

(* Variant: whatever is not void counts as paid. *)
PaidUnlessVoid(inv) == inv.state # "void"

Paid(inv) == inv.state = "paid"

(* The term is over and its invoice is on record. *)
OfInvoice(end, inv, today) ==
    IF Paid(inv)
    THEN [bill |-> NoInvoice, renewTo |-> inv.periodEnd, notice |-> "receipt",
          status |-> Status("active", inv.periodEnd, 0, "none")]
    ELSE NoPlan(
           IF inv.state = "void" THEN Status("lapsed", end, end, "none")
           ELSE IF today > inv.dueOn THEN Status("lapsed", inv.dueOn, end, "none")
           ELSE Pending(end, inv))

(* The term is over and nothing is billed: bill it, and say so. *)
Billed(end, t) ==
    [bill |-> Bill(end, t), renewTo |-> 0, notice |-> "reminder",
     status |-> Pending(end, Bill(end, t))]

Evaluate(spec, t, inv, today) ==
    LET end == spec.endsOn
    IN  IF t = NoTier THEN NoPlan(Status("invalid", 0, 0, "no_tier"))
        ELSE IF t.period = "lifetime"
        THEN NoPlan(IF end # 0 THEN Status("invalid", 0, 0, "lifetime_with_end")
                    ELSE Status("active", 0, 0, "none"))
        ELSE IF end = 0 THEN NoPlan(Status("invalid", 0, 0, "no_end"))
        ELSE IF today < end THEN NoPlan(Status("active", end, 0, "none"))
        ELSE IF ~spec.autoRenew THEN NoPlan(Status("lapsed", end, 0, "none"))
        ELSE IF inv = NoInvoice THEN Billed(end, t)
        ELSE OfInvoice(end, inv, today)

(* The invoice of the term that spec is in. *)
InvoiceOf(spec) ==
    IF spec.endsOn \in Terms THEN invoices[spec.endsOn] ELSE NoInvoice

-----------------------------------------------------------------------------
Fault == faults < MaxFaults /\ faults' = faults + 1

Goto(l, pc) == loop' = [loop EXCEPT ![l] = [@ EXCEPT !.pc = pc]]

(* Variant: the loops hold keys of their own. *)
LeaseOfItsOwn(l) == loop[l].pc = "idle"

LeaseFree(l) == holder = "none" /\ loop[l].pc = "idle"

NextToken == IF loop["controller"].token > loop["sweep"].token
             THEN loop["controller"].token + 1 ELSE loop["sweep"].token + 1

(* Order is all that matters of a token: the least one not yet passed. *)
Fresh == IF membership.fence >= NextToken THEN membership.fence + 1 ELSE NextToken

(* A pass: the change loop's has a change to look at, the sweep's none. *)
Acquire(l) ==
    /\ LeaseFree(l)
    /\ l = "controller" => changed
    /\ holder' = l
    /\ changed' = (changed /\ l = "sweep")
    /\ loop' = [loop EXCEPT ![l] = [pc |-> "get", token |-> Fresh, day |-> day]]
    /\ UNCHANGED <<day, tier, membership, invoices, notices, view, bought,
                   overwrote, edits, faults>>

(* get(MEMBERSHIP). *)
Get(l) ==
    /\ loop[l].pc = "get"
    /\ loop' = [loop EXCEPT ![l] =
                  [pc |-> "tier", token |-> @.token, day |-> @.day,
                   spec |-> membership.spec, fence |-> membership.fence]]
    /\ UNCHANGED <<day, tier, membership, invoices, notices, changed, holder,
                   view, bought, overwrote, edits, faults>>

(* get(TIER). *)
GetTier(l) ==
    /\ loop[l].pc = "tier"
    /\ loop' = [loop EXCEPT ![l] =
                  [pc |-> "invoice", token |-> @.token, day |-> @.day,
                   spec |-> @.spec, fence |-> @.fence, tier |-> tier]]
    /\ UNCHANGED <<day, tier, membership, invoices, notices, changed, holder,
                   view, bought, overwrote, edits, faults>>

(* What a plan does first. *)
FirstOf(plan) ==
    IF plan.bill # NoInvoice THEN "bill"
    ELSE IF plan.renewTo # 0 THEN "renew" ELSE "status"

(* get(DUES_INVOICE), and the rule. *)
GetInvoice(l) ==
    LET me   == loop[l]
        plan == Evaluate(me.spec, me.tier, InvoiceOf(me.spec), me.day)
    IN  /\ me.pc = "invoice"
        /\ loop' = [loop EXCEPT ![l] =
                      [pc |-> FirstOf(plan), token |-> me.token, day |-> me.day,
                       spec |-> me.spec, fence |-> me.fence, plan |-> plan]]
        /\ UNCHANGED <<day, tier, membership, invoices, notices, changed, holder,
                       view, bought, overwrote, edits, faults>>

(* A pass ends.  One that threw leaves the watermark where it was, or is a
   sweep, which only logs. *)
Leave(l) ==
    /\ loop' = [loop EXCEPT ![l] = Idle]
    /\ holder' = IF holder = l THEN "none" ELSE holder

Throw(l) == Leave(l) /\ changed' = (changed \/ l = "controller")

(* admit(DUES_INVOICE) at fence 0: the spec as planned, the status kept. *)
BillTerm(l) ==
    LET plan == loop[l].plan
        end  == loop[l].spec.endsOn
        old  == invoices[end]
        new  == [amount |-> plan.bill.amount, periodStart |-> plan.bill.periodStart,
                 periodEnd |-> plan.bill.periodEnd, dueOn |-> plan.bill.dueOn,
                 state |-> IF old = NoInvoice THEN "open" ELSE old.state]
    IN  /\ loop[l].pc = "bill"
        /\ invoices' = [invoices EXCEPT ![end] = new]
        /\ changed' = (changed \/ new # old)
        /\ bought' = IF new.state = "paid" THEN bought \cup {new.periodEnd}
                                          ELSE bought
        /\ Goto(l, "notice")
        /\ UNCHANGED <<day, tier, membership, notices, holder, view, overwrote,
                       edits, faults>>

(* admit(MEMBERSHIP) at the fence that was read. *)
Renew(l) ==
    LET me  == loop[l]
        new == [me.spec EXCEPT !.endsOn = me.plan.renewTo]
    IN  /\ me.pc = "renew"
        /\ IF membership.fence > me.fence
           THEN Throw(l) /\ UNCHANGED <<membership, overwrote>>
           ELSE /\ membership' = [membership EXCEPT !.spec = new, !.fence = me.fence]
                /\ changed' = (changed \/ membership' # membership)
                /\ overwrote' = IF membership.spec \in {me.spec, new} THEN overwrote
                                ELSE overwrote \cup {"renewal"}
                /\ Goto(l, "notice") /\ UNCHANGED holder
        /\ UNCHANGED <<day, tier, invoices, notices, view, bought, edits, faults>>

(* raiseDuesNotice: its failures are logged and nothing else. *)
RaiseNotice(l) ==
    LET raised == <<loop[l].plan.notice, loop[l].spec.endsOn>>
    IN  /\ loop[l].pc = "notice"
        /\ \/ notices' = (IF loop[l].plan.notice = "none" THEN notices
                          ELSE notices \cup {raised}) /\ UNCHANGED faults
           \/ Fault /\ UNCHANGED notices
        /\ Goto(l, "status")
        /\ UNCHANGED <<day, tier, membership, invoices, changed, holder, view,
                       bought, overwrote, edits>>

(* Variant: only the state is compared, and not the days and the invoice. *)
StateStands(status) == membership.status.state = status.state

(* The rule that keeps a converged controller quiet. *)
StatusStands(status) == membership.status = status

(* setStatus(MEMBERSHIP) under the pass's token; then the pass is over. *)
SetStatus(l) ==
    LET me == loop[l]
    IN  /\ me.pc = "status"
        /\ IF membership.fence > me.token
           THEN Throw(l) /\ UNCHANGED membership
           ELSE /\ Leave(l)
                /\ IF StatusStands(me.plan.status)
                   THEN UNCHANGED <<membership, changed>>
                   ELSE /\ membership' = [membership EXCEPT !.status = me.plan.status,
                                                            !.fence = me.token]
                        /\ changed' = TRUE
        /\ UNCHANGED <<day, tier, invoices, notices, view, bought, overwrote,
                       edits, faults>>

-----------------------------------------------------------------------------
Edit == edits < MaxEdits /\ edits' = edits + 1

(* An operator loads the membership's page. *)
View(e) ==
    /\ view[e] # membership
    /\ view' = [view EXCEPT ![e] = membership]
    /\ UNCHANGED <<day, tier, membership, invoices, notices, changed, holder,
                   loop, bought, overwrote, edits, faults>>

(* What an operator corrects: the end of the term or the renewal. *)
Corrections(spec) ==
    {[spec EXCEPT !.autoRenew = ~@]} \cup {[spec EXCEPT !.endsOn = 0]}
        \cup {[spec EXCEPT !.endsOn = day]}

(* putMembership: the whole spec, with the fence of the page or, when the
   client sends none, the one the server finds.  The answer is the new page. *)
PutMembership(e) ==
    \E spec \in Corrections(view[e].spec), expected \in BOOLEAN :
        LET fence == IF expected THEN view[e].fence ELSE membership.fence
        IN  /\ Edit
            /\ fence >= membership.fence
            /\ spec # membership.spec
            /\ membership' = [membership EXCEPT !.spec = spec, !.fence = fence]
            /\ changed' = TRUE
            /\ overwrote' = IF expected /\ membership.spec # view[e].spec
                            THEN overwrote \cup {"editor"} ELSE overwrote
            /\ view' = [view EXCEPT ![e] = membership']
            /\ UNCHANGED <<day, tier, invoices, notices, holder, loop, bought,
                           faults>>

(* putTier and deleteTier: a kind the change loop does not watch. *)
PutTier(t) ==
    /\ Edit
    /\ t # tier
    /\ tier' = t
    /\ UNCHANGED <<day, membership, invoices, notices, changed, holder, loop,
                   view, bought, overwrote, faults>>

(* Variant: the change loop does not watch invoices. *)
WatchesMembershipsOnly(kind) == kind = "membership"

Watches(kind) == kind \in {"membership", "duesInvoice"}

(* recordPayment and voidInvoice, at the fence of the invoice: always 0. *)
Settle(t, state) ==
    /\ Edit
    /\ invoices[t] # NoInvoice
    /\ invoices[t].state # state
    /\ invoices' = [invoices EXCEPT ![t] = [@ EXCEPT !.state = state]]
    /\ changed' = (changed \/ Watches("duesInvoice"))
    /\ bought' = IF state = "paid" THEN bought \cup {invoices[t].periodEnd}
                                   ELSE bought
    /\ UNCHANGED <<day, tier, membership, notices, holder, loop, view, overwrote,
                   faults>>

-----------------------------------------------------------------------------
Tick ==
    /\ day < MaxDay
    /\ day' = day + 1
    /\ UNCHANGED <<tier, membership, invoices, notices, changed, holder, loop,
                   view, bought, overwrote, edits, faults>>

(* Ten seconds are over, under a running pass or after a crash. *)
Lapse ==
    /\ holder # "none"
    /\ IF loop[holder].pc = "idle" THEN UNCHANGED faults ELSE Fault
    /\ holder' = "none"
    /\ UNCHANGED <<day, tier, membership, invoices, notices, changed, loop, view,
                   bought, overwrote, edits>>

(* A read or a write of the store fails. *)
StoreFault(l) ==
    /\ loop[l].pc \notin {"idle", "notice"}
    /\ Fault
    /\ Throw(l)
    /\ UNCHANGED <<day, tier, membership, invoices, notices, view, bought,
                   overwrote, edits>>

(* The process dies and is started again; its lease lapses later. *)
Crash ==
    /\ \E l \in Loops : loop[l].pc # "idle"
    /\ Fault
    /\ changed' = (changed \/ loop["controller"].pc # "idle")
    /\ loop' = [l \in Loops |-> Idle]
    /\ UNCHANGED <<day, tier, membership, invoices, notices, holder, view, bought,
                   overwrote, edits>>

Reconcile(l) ==
    \/ Get(l) \/ GetTier(l) \/ GetInvoice(l)
    \/ BillTerm(l) \/ Renew(l) \/ RaiseNotice(l) \/ SetStatus(l)

People ==
    \/ \E e \in Editors : View(e) \/ PutMembership(e)
    \/ \E t \in Offers : PutTier(t)
    \/ \E t \in Terms, state \in {"paid", "void"} : Settle(t, state)

Next ==
    \/ \E l \in Loops : Acquire(l) \/ Reconcile(l) \/ StoreFault(l)
    \/ People
    \/ Tick \/ Lapse \/ Crash

(* A pass under way goes on, a lease lapses, and the change loop, which asks
   for the lease at every tick, finds it free some time. *)
ControllerFair ==
    /\ \A l \in Loops : WF_vars(Reconcile(l))
    /\ WF_vars(Lapse) /\ SF_vars(Acquire("controller"))

Spec == Init /\ [][Next]_vars /\ ControllerFair

(* So does the sweep, which asks every hour: an assumption of what needs it. *)
SweepFair == SF_vars(Acquire("sweep"))

-----------------------------------------------------------------------------
(* A reconcile moves the end of a term only to a day that a payment bought: the
   end of a term whose invoice stood recorded as paid. *)
PaidForTerms ==
    [][membership'.spec.endsOn # membership.spec.endsOn
         => edits' # edits \/ membership'.spec.endsOn \in bought]_vars

(* Once a bill is raised, neither its amount nor its dates change: what a member
   was told to pay is what stays on record, whatever the tier becomes, unless
   a pass outlives its lease. *)
InvoiceKept ==
    [][\A t \in Terms : invoices[t] # NoInvoice =>
          \/ faults' > 0
          \/ [invoices'[t] EXCEPT !.state = "any"]
                = [invoices[t] EXCEPT !.state = "any"]]_vars

(* What the rule says of what is stored today. *)
Concluded == Evaluate(membership.spec, tier, InvoiceOf(membership.spec), day)

(* The loops converge: once the calendar and the people are still, the status
   on record is the rule's, there is nothing left to bill or to renew, and no
   write of the loops' own keeps them at work. *)
Converges ==
    SweepFair =>
        <>[](/\ membership.status = Concluded.status
             /\ Concluded.bill = NoInvoice /\ Concluded.renewTo = 0
             /\ ~changed)

(* A payment recorded on the term's invoice renews the membership through the
   change loop alone, unless it is voided, the membership is edited or its tier
   is gone or has no terms any more. *)
PaymentRenews ==
    \A t \in Terms :
        (invoices[t] # NoInvoice /\ invoices[t].state = "paid"
            /\ membership.spec.endsOn = t)
          ~> \/ membership.spec.endsOn # t \/ ~membership.spec.autoRenew
             \/ tier = NoTier \/ tier.period = "lifetime"
             \/ invoices[t] # NoInvoice /\ invoices[t].state = "void"

(* Whoever is billed is told: every invoice has its reminder in the end. "The
   controller keeps no record of what it has raised and is correct after a crash"
   (renewal.ts:67-68). *)
RemindersRaised ==
    \A t \in Terms : invoices[t] # NoInvoice ~> <<"reminder", t>> \in notices

(* The fence of the page an editor read stands for the spec it read: a spec that
   somebody edited since is not overwritten by an edit that carries that fence
   ("the value to send back on an update, so a stale edit is refused", api.ts:60).
   It does not hold of the code: an edit leaves the fence as it was. *)
EditorsTold == "editor" \notin overwrote

(* A renewal does not write over an edit made since the membership was read. *)
RenewalKeepsEdits == "renewal" \notin overwrote
=============================================================================
