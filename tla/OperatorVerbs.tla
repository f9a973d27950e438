---------------------------- MODULE OperatorVerbs ----------------------------
(***************************************************************************)
(* The migrate verb, scripts/ops/migrate.mjs, over the admin plane: the    *)
(* session an operator hands it and the CSRF token it fetches per call     *)
(* (scripts/ops/admin-plane.mjs), the gate of admin/gate.ts, and the pair  *)
(* of endpoints per store (admin/schema.ts, admin/ledger-schema.ts).       *)
(*                                                                         *)
(* The stores come one after the other, the state layer first.  In between *)
(* the session may run out, the role may be taken away, and another        *)
(* operator may do the same.  A store's run is one step: Migrations has    *)
(* what happens inside it.                                                 *)
(***************************************************************************)
EXTENDS Naturals, Sequences, FiniteSets

CONSTANTS
    Verbs,     \* invocations of the verb
    None,
    MaxFaults  \* bound on calls that fail for the network's or the store's sake

VARIABLES
    server,  \* adminUiEnabled, and per store whether a version is pending
    held,    \* per invocation, the Cookie header it was given
    verb,    \* per invocation, where it is and what it knows
    faults

vars == <<server, held, verb, faults>>

Stores == <<"state", "ledger">>

Waiting == [pc |-> "new", store |-> 1, token |-> None, cookie |-> None,
            results |-> {}]

(* A header pasted from a browser may hold the token its page fetched last. *)
Cookies == [session : {"operator", "other", "expired", "none"},
            csrf : {None, "page"}]

Init ==
    /\ server \in [enabled : BOOLEAN,
                   pending : [{"state", "ledger"} -> BOOLEAN]]
    /\ held \in [Verbs -> Cookies]
    /\ verb = [v \in Verbs |-> Waiting]
    /\ faults = 0

Fault == faults < MaxFaults /\ faults' = faults + 1

Goto(v, pc) == verb' = [verb EXCEPT ![v].pc = pc]

-----------------------------------------------------------------------------
(* No session is given up on before any call. *)
Begin(v) ==
    /\ verb[v].pc = "new"
    /\ Goto(v, IF held[v].session = "none" THEN "refusing" ELSE "csrf")
    /\ UNCHANGED <<server, held, faults>>

(* The cookie that goes with the token: one the caller has is kept, so a header
   pasted from a browser does not match the token fetched for the call. *)
MergedCookie(v) == IF held[v].csrf # None THEN held[v].csrf ELSE v

(* acquireCsrf: the endpoint asks for no session. *)
AcquireCsrf(v) ==
    /\ verb[v].pc = "csrf"
    /\ \/ verb' = [verb EXCEPT ![v].pc = "post", ![v].token = v,
                               ![v].cookie = MergedCookie(v)]
          /\ UNCHANGED faults
       \/ Goto(v, "refusing") /\ Fault
    /\ UNCHANGED <<server, held>>

OperatorSession(session) == session = "operator"

(* The double submit, the kill switch, the session and the role. *)
Admitted(v) ==
    /\ verb[v].token = verb[v].cookie
    /\ server.enabled
    /\ OperatorSession(held[v].session)

Applies(store) == server' = [server EXCEPT !.pending[store] = FALSE]

(* The answer is there: on to the other store, or done. *)
Answered(v, store) ==
    verb' = [verb EXCEPT
        ![v].results = @ \cup {store}, ![v].store = @ + 1,
        ![v].pc = IF store = "state" THEN "csrf" ELSE "done"]

(* Variant: the other store is tried all the same, and the failure told after. *)
NextStoreAnyway(v) ==
    verb' = [verb EXCEPT ![v].pc = IF verb[v].store = 1 THEN "csrf" ELSE "refusing",
                         ![v].store = @ + 1]

(* adminRequest throws, and with it the loop over the stores. *)
Failed(v) == Goto(v, "refusing")

(* POST .../apply: what is pending is applied, or the call fails with nothing
   applied, with all of it, or answered after the verb has given up. *)
Post(v) ==
    /\ verb[v].pc = "post"
    /\ LET store == Stores[verb[v].store]
       IN  \/ Admitted(v) /\ Applies(store) /\ Answered(v, store) /\ UNCHANGED faults
           \/ /\ Admitted(v) /\ Fault
              /\ Failed(v)
              /\ Applies(store) \/ UNCHANGED server
           \/ /\ ~Admitted(v)
              /\ Failed(v)
              /\ UNCHANGED <<server, faults>>
    /\ UNCHANGED held

(* "refusing", and exit 1: whatever has been applied is not reported. *)
Refuse(v) ==
    /\ verb[v].pc = "refusing"
    /\ verb' = [verb EXCEPT ![v].pc = "refused", ![v].results = {}]
    /\ UNCHANGED <<server, held, faults>>

(* The access token runs out, or the role goes with the next one. *)
SessionEnds(v) ==
    /\ held[v].session = "operator"
    /\ \E s \in {"other", "expired"} : held' = [held EXCEPT ![v].session = s]
    /\ UNCHANGED <<server, verb, faults>>

Next ==
    \E v \in Verbs :
        Begin(v) \/ AcquireCsrf(v) \/ Post(v) \/ Refuse(v) \/ SessionEnds(v)

Spec == Init /\ [][Next]_vars

-----------------------------------------------------------------------------
(***************************************************************************)
(* Two stores and no transaction over them: wherever a verb fails, is      *)
(* refused or meets another, CoreLedger is brought forward only over a     *)
(* state layer with nothing pending, so that what a failed verb leaves     *)
(* behind is the start of what the next one does; and a verb that ends     *)
(* well leaves nothing pending in either (migrate.mjs:36-50, 66-86).       *)
(***************************************************************************)
StoresInTurn ==
    [][/\ server.pending["ledger"] /\ ~server'.pending["ledger"]
              => ~server.pending["state"]
       /\ \A v \in Verbs : verb'[v].pc = "done" =>
              ~server'.pending["state"] /\ ~server'.pending["ledger"]]_vars
=============================================================================
