------------------------------ MODULE Tenancy ------------------------------
(***************************************************************************)
(* Whose association a deployment serves, backend/members: tenant.ts,      *)
(* boot.ts and the operators' endpoints of api.ts over store.ts.  Each     *)
(* start of the process resolves ENRAHITU_TENANT, waits for the schema,    *)
(* refuses a store with another tenant's rows, makes sure that the         *)
(* association has a record and only then starts its loops.  The endpoints *)
(* ask for none of this: they serve as soon as the schema is there.        *)
(* Between two starts the variable may be edited and the volume swapped.   *)
(*                                                                         *)
(* One process on the store.  A tenant's members, tiers and memberships    *)
(* are one row here, and an admit is one step (Admission has its parts).   *)
(* No lease is held where nobody renews, so every fence is 0 and refuses   *)
(* nothing (Renewal has those that do).                                    *)
(***************************************************************************)
EXTENDS FiniteSets, Naturals

CONSTANTS
    Tenants,     \* slugs
    DevTenant,   \* DEV_TENANT, one of Tenants
    Production,  \* whether NODE_ENV is production
    None,        \* no tenant can be resolved; not one of Tenants
    Editors,     \* operators, with one request each under way
    MaxBoots,    \* bound on the starts of the process
    MaxWrites,   \* bound on the operators' writes
    MaxMishaps   \* bound on store errors, kills and swapped volumes

VARIABLES
    schema,   \* the control plane's tables exist
    rows,     \* per tenant its rows: "none", "live" or only tombstones, "gone"
    org,      \* per tenant its cluster-scoped record: who named it
    proc,     \* the process: where startMembershipRuntime is, what it resolved
    call,     \* per editor, the request under way or its answer
    boots, writes, mishaps

vars == <<schema, rows, org, proc, call, boots, writes, mishaps>>

store == <<schema, rows, org>>

Stages == {"down", "waiting", "guard", "ensure", "create", "running", "failed"}

Edits == [verb : {"org", "put", "delete"}, valid : BOOLEAN, fence : BOOLEAN]

Settled(answer) ==
    [pc |-> "idle", answer |-> answer,
     request |-> [verb |-> "org", valid |-> TRUE, fence |-> FALSE]]

Blank == [t \in Tenants |-> "none"]

Init ==
    /\ schema = FALSE /\ rows = Blank /\ org = Blank
    /\ proc = [pc |-> "down", tenant |-> None]
    /\ call = [e \in Editors |-> Settled("none")]
    /\ boots = 0 /\ writes = 0 /\ mishaps = 0

-----------------------------------------------------------------------------
(* The process and its start. *)

(* tenantId: an unset variable is an error in production, a malformed one
   always. *)
TenantId(configured) ==
    IF configured = "unset" THEN IF Production THEN None ELSE DevTenant
    ELSE IF configured \in Tenants THEN configured ELSE None

Start(configured) ==
    /\ proc.pc = "down" /\ boots < MaxBoots
    /\ proc' = [pc |-> "waiting", tenant |-> TenantId(configured)]
    /\ boots' = boots + 1
    /\ UNCHANGED <<store, call, writes, mishaps>>

Goto(pc) == proc' = [proc EXCEPT !.pc = pc]

(* waitForSchema: a store that does not answer is one to wait for. *)
SchemaPresent ==
    /\ proc.pc = "waiting" /\ schema
    /\ Goto("guard")
    /\ UNCHANGED <<store, call, boots, writes, mishaps>>

(* The tenants of the scoped rows, tombstones among them. *)
Stored == {t \in Tenants : rows[t] # "none"}

(* Variant: one row is enough to tell. *)
ForeignToFirst(mine) ==
    IF mine \in Stored THEN {} ELSE Stored

Foreign(mine) == Stored \ {mine}

(* The process is gone, and what it was asked with it. *)
Gone ==
    /\ proc' = [pc |-> "down", tenant |-> None]
    /\ call' = [e \in Editors |-> Settled("none")]

(* assertTenantConsistency, and what startMembershipRuntimeOrExit makes of it:
   a mismatch ends the process, nothing else does. *)
Guard ==
    /\ proc.pc = "guard"
    /\ IF proc.tenant = None THEN Goto("failed") /\ UNCHANGED call
       ELSE IF Foreign(proc.tenant) # {} THEN Gone
       ELSE Goto("ensure") /\ UNCHANGED call
    /\ UNCHANGED <<store, boots, writes, mishaps>>

(* ensureOrgRecord: get, *)
Ensure ==
    /\ proc.pc = "ensure"
    /\ Goto(IF org[proc.tenant] = "none" THEN "create" ELSE "running")
    /\ UNCHANGED <<store, call, boots, writes, mishaps>>

(* then admit, which writes the name it is given over whatever is there. *)
Create ==
    /\ proc.pc = "create"
    /\ org' = [org EXCEPT ![proc.tenant] = "slug"]
    /\ Goto("running")
    /\ UNCHANGED <<schema, rows, call, boots, writes, mishaps>>

(* Any other error: the domain stays down and the process serves on. *)
Error ==
    /\ proc.pc \in {"guard", "ensure", "create"}
    /\ mishaps < MaxMishaps /\ mishaps' = mishaps + 1
    /\ Goto("failed")
    /\ UNCHANGED <<store, call, boots, writes>>

Kill ==
    /\ proc.pc # "down"
    /\ mishaps < MaxMishaps /\ mishaps' = mishaps + 1
    /\ Gone
    /\ UNCHANGED <<store, boots, writes>>

ApplySchema ==
    /\ proc.pc # "down" /\ ~schema
    /\ schema' = TRUE
    /\ UNCHANGED <<rows, org, proc, call, boots, writes, mishaps>>

(* The volume is lost, or comes from another deployment. *)
Swap ==
    /\ proc.pc = "down"
    /\ mishaps < MaxMishaps /\ mishaps' = mishaps + 1
    /\ \/ schema' = FALSE /\ rows' = Blank /\ org' = Blank
       \/ \E t \in Tenants :
             /\ schema' = TRUE
             /\ rows' = [Blank EXCEPT ![t] = "live"]
             /\ org' = [Blank EXCEPT ![t] = "chosen"]
    /\ UNCHANGED <<proc, call, boots, writes>>

-----------------------------------------------------------------------------
(* The operators' endpoints. *)

(* What stops a request before its write, in the order of the handlers: putOrg
   reads first, writeSpec reads unless it was sent a fence, retract has no spec
   to judge.  toApiError names a missing table. *)
Stopped(request) ==
    LET unread == request.verb = "put" /\ request.fence
    IN  IF proc.tenant = None THEN "internal"
        ELSE IF unread /\ ~request.valid THEN "invalidArgument"
        ELSE IF ~schema THEN "unavailable"
        ELSE IF request.verb # "delete" /\ ~request.valid THEN "invalidArgument"
        ELSE "none"

Ask(e, request) ==
    /\ proc.pc # "down" /\ call[e].pc = "idle" /\ writes < MaxWrites
    /\ call' = [call EXCEPT ![e] =
                  IF Stopped(request) # "none" THEN Settled(Stopped(request))
                  ELSE [pc |-> "write", answer |-> "none", request |-> request]]
    /\ UNCHANGED <<store, proc, boots, writes, mishaps>>

(* putOrg. *)
PutOrg ==
    /\ org' = [org EXCEPT ![proc.tenant] = "chosen"]
    /\ UNCHANGED rows

(* putMember, putTier, putMembership: a tombstone is raised again. *)
Put ==
    /\ rows' = [rows EXCEPT ![proc.tenant] = "live"]
    /\ UNCHANGED org

(* deleteMember, deleteTier: the row stays, as a tombstone. *)
Delete ==
    /\ rows' = [rows EXCEPT ![proc.tenant] = IF @ = "live" THEN "gone" ELSE @]
    /\ UNCHANGED org

Land(e) ==
    LET verb == call[e].request.verb
    IN  /\ call[e].pc = "write" /\ writes < MaxWrites
        /\ \/ verb = "org" /\ PutOrg
           \/ verb = "put" /\ Put
           \/ verb = "delete" /\ Delete
        /\ call' = [call EXCEPT ![e] = Settled("ok")]
        /\ writes' = writes + 1
        /\ UNCHANGED <<schema, proc, boots, mishaps>>

Next ==
    \/ \E c \in Tenants \cup {"unset", "malformed"} : Start(c)
    \/ SchemaPresent \/ Guard \/ Ensure \/ Create \/ Error \/ Kill
    \/ ApplySchema \/ Swap
    \/ \E e \in Editors : Land(e) \/ \E r \in Edits : Ask(e, r)

Spec == Init /\ [][Next]_vars

-----------------------------------------------------------------------------
TypeOK ==
    /\ schema \in BOOLEAN
    /\ rows \in [Tenants -> {"none", "live", "gone"}]
    /\ org \in [Tenants -> {"none", "slug", "chosen"}]
    /\ proc \in [pc : Stages, tenant : Tenants \cup {None}]
    /\ call \in [Editors -> [pc : {"idle", "write"}, request : Edits,
                 answer : {"none", "ok", "internal", "invalidArgument",
                           "unavailable"}]]
    /\ boots \in 0..MaxBoots /\ writes \in 0..MaxWrites
    /\ mishaps \in 0..MaxMishaps

(***************************************************************************)
(* The renewal loops run over one dataset, and it is their own: from the   *)
(* moment the guard has answered to the end of the process the store holds *)
(* no row of another tenant.  That covers a store that two tenants wrote   *)
(* to while no guard had answered: neither value of the variable brings    *)
(* the loops up on it any more (tenant.ts:89-123, boot.ts:88-98).          *)
(***************************************************************************)
LoopsOwnStore ==
    proc.pc \in {"ensure", "create", "running"} => Stored \subseteq {proc.tenant}

(***************************************************************************)
(* What boot.ts:90 says of the guard, "before anything is written": no     *)
(* store ever holds the rows of two tenants.  It does not hold of the      *)
(* code: an endpoint writes as soon as the schema is there, before the     *)
(* guard has answered or after it failed with another error.               *)
(***************************************************************************)
OneDataset == Cardinality(Stored) <= 1

(***************************************************************************)
(* What boot.ts:52-58 says of the record, "create-if-absent, and nothing   *)
(* else": boot never puts the slug where an operator has put a name.  It   *)
(* does not hold of the code: the name may be put between the read that    *)
(* finds no record and the write that makes one.                           *)
(***************************************************************************)
ChosenNameKept ==
    [][\A t \in Tenants : org[t] = "chosen" => org'[t] # "slug"]_vars
=============================================================================
