------------------------------ MODULE MCParts ------------------------------
(***************************************************************************)
(* Eight parts that share no state, for TLC in one graph: the migrations,  *)
(* the state machine's lock, a browser's session, the rate limiter, the    *)
(* migrate verb, a mail on its way, the trace buffer and a deployment's    *)
(* tenant.  `part` says which of them a behaviour is of; the others stay   *)
(* where they begin.  A variable or constant two of them have is renamed.  *)
(***************************************************************************)
EXTENDS Migrations

CONSTANTS
    r1, r2, r3, l1, l2, None,
    MaxLapses,  \* bound on the faults of a session, of the counters, of the verbs
    LockPids, Namespaces, NodeIds, MaxStarts, MaxFileErrors,
    Loaders, Layouts, Users, CookieAge, OwnTtl, SessionAge, Lifetime, MaxTime, MaxTokens,
    Requests, Clients, Limit, GlobalLimit, MaxWindow,
    Verbs,
    Transports,
    Traced, Listeners, Cap, MaxSpans, MaxOperations,
    Tenants, DevTenant, Production, Editors, MaxBoots, MaxWrites, MaxMishaps

(* Two runners of one release and one of another, which declares a version more
   or fills a gap. *)
ThreeRunners == {r1, r2, r3}

Longer == [r \in Runners |-> IF r = r1 THEN {1, 2, 3} ELSE {1, 2}]
Filler == [r \in Runners |-> IF r = r1 THEN {1, 2, 3} ELSE {1, 3}]

TwoReleases == {Longer, Filler}

TwoLoaders == {l1, l2}

OneOrTwoTabs ==
    {[l \in TwoLoaders |-> 1], [l \in TwoLoaders |-> IF l = l1 THEN 1 ELSE 2]}

VARIABLES
    part,
    lock, owner, container, procs, fileErrors,
    authority, tab, now, jar, tokens, issued, ends, req, sessionFaults,
    hops, tier, window, counters, deletes, request, counterFaults,
    server, held, verb, verbFaults,
    config, at, secure, buffer, wire, asked, taken, clear,
    traces, subscribers, stream, throws, span, told, counted, displaced, failed,
    schema, rows, org, proc, call, boots, writes, mishaps

Lock == INSTANCE StateLock WITH Pids <- LockPids, Overlap <- FALSE

Session == INSTANCE Sessions WITH MaxFaults <- MaxLapses, faults <- sessionFaults

Rate == INSTANCE RateLimit WITH MaxFaults <- MaxLapses, faults <- counterFaults

Verb == INSTANCE OperatorVerbs WITH MaxFaults <- MaxLapses, faults <- verbFaults

Mail == INSTANCE Smtp

Trace == INSTANCE TraceBuffer WITH
    Requests <- Traced, request <- span

Tenancy == INSTANCE Tenancy

(* A marker is none of the values it stands beside. *)
ASSUME MarkersApart ==
    /\ None \notin Lock!OwnerRecords
    /\ {None, Rate!Endpoint} \cap Clients = {}

ASSUME LimitsOK ==
    /\ Limit \in Nat /\ GlobalLimit \in Nat
    /\ MaxWindow \in Nat \ {0}
    /\ Cap \in Nat \ {0}
    /\ CookieAge \in Nat /\ SessionAge \in Nat /\ Lifetime \in Nat

lockVars == <<lock, owner, container, procs, fileErrors>>
sessionVars == <<authority, tab, now, jar, tokens, issued, ends, req, sessionFaults>>
rateVars == <<hops, tier, window, counters, deletes, request, counterFaults>>
verbVars == <<server, held, verb, verbFaults>>
mailVars == <<config, at, secure, buffer, wire, asked, taken, clear>>
traceVars == <<traces, subscribers, stream, throws, span, told, counted, displaced, failed>>
tenantVars == <<schema, rows, org, proc, call, boots, writes, mishaps>>

allVars == <<part, vars, lockVars, sessionVars, rateVars, verbVars, mailVars,
             traceVars, tenantVars>>

(* One of those that differ in names only. *)
AnyOf(S) == CHOOSE x \in S : TRUE

NoMail == [transport |-> "none", complete |-> FALSE, granted |-> FALSE, implicit |-> FALSE,
           insecure |-> FALSE, user |-> FALSE, starttls |-> FALSE]

AllInit ==
    /\ part \in {"migrations", "lock", "session", "rate", "verb", "mail", "trace", "tenancy"}
    /\ IF part = "migrations" THEN Init ELSE ledger = TRUE /\ declared = Longer /\ Init
    /\ container = AnyOf([ns : Namespaces, node : NodeIds]) /\ Lock!Init
    /\ IF part = "session" THEN Session!Init
       ELSE /\ authority = [rotates |-> TRUE, offline |-> TRUE]
            /\ tab = [l \in Loaders |-> 1] /\ Session!Init
    /\ IF part = "rate" THEN Rate!Init ELSE hops = 0 /\ tier = "auth" /\ Rate!Init
    /\ IF part = "verb" THEN Verb!Init
       ELSE /\ server = [enabled |-> TRUE, pending |-> [s \in {"state", "ledger"} |-> FALSE]]
            /\ held = [v \in Verbs |-> [session |-> "none", csrf |-> None]] /\ Verb!Init
    /\ IF part = "mail" THEN Mail!Init ELSE config = NoMail /\ Mail!Init
    /\ IF part = "trace" THEN Trace!Init ELSE throws = {} /\ Trace!Init
    /\ Tenancy!Init

AllNext ==
    /\ UNCHANGED part
    /\ \/ /\ part = "migrations" /\ Next
          /\ UNCHANGED <<lockVars, sessionVars, rateVars, verbVars,
                         mailVars, traceVars, tenantVars>>
       \/ /\ part = "lock" /\ Lock!Next
          /\ UNCHANGED <<vars, sessionVars, rateVars, verbVars,
                         mailVars, traceVars, tenantVars>>
       \/ /\ part = "session" /\ Session!Next
          /\ UNCHANGED <<vars, lockVars, rateVars, verbVars,
                         mailVars, traceVars, tenantVars>>
       \/ /\ part = "rate" /\ Rate!Next
          /\ UNCHANGED <<vars, lockVars, sessionVars, verbVars,
                         mailVars, traceVars, tenantVars>>
       \/ /\ part = "verb" /\ Verb!Next
          /\ UNCHANGED <<vars, lockVars, sessionVars, rateVars,
                         mailVars, traceVars, tenantVars>>
       \/ /\ part = "mail" /\ Mail!Next
          /\ UNCHANGED <<vars, lockVars, sessionVars, rateVars,
                         verbVars, traceVars, tenantVars>>
       \/ /\ part = "trace" /\ Trace!Next
          /\ UNCHANGED <<vars, lockVars, sessionVars, rateVars,
                         verbVars, mailVars, tenantVars>>
       \/ /\ part = "tenancy" /\ Tenancy!Next
          /\ UNCHANGED <<vars, lockVars, sessionVars, rateVars,
                         verbVars, mailVars, traceVars>>

AllSpec == AllInit /\ [][AllNext]_allVars

(* StateLock: two processes never have the state machine open. *)
NeverTwoOpen == Lock!NeverTwoOpen

(* StateLock: a lock is left in place only over a live holder or on another
   node's volume. *)
KeptOnlyWhenHeld == Lock!KeptOnlyWhenHeld

(* Sessions: a role or an account that is taken away is gone from the browser
   within one lifetime of an access token. *)
WithinOneLifetime == Session!WithinOneLifetime

(* RateLimit: no more of a client's requests are let through in a window than
   the limit, whatever it writes into its headers. *)
WindowHolds == Rate!WindowHolds

(* OperatorVerbs: the ledger is brought forward only over a current state layer,
   and a verb that ends well leaves nothing pending. *)
StoresInTurn == Verb!StoresInTurn

(* Smtp: a send returns only for a message that has been accepted, and nothing
   crosses an open channel unless that is allowed. *)
SentMeansTaken == Mail!SentMeansTaken

(* TraceBuffer: whoever listens when a request ends is told how it ended. *)
ListenersTold == Trace!ListenersTold

(* Tenancy: the renewal loops run over no store with another tenant's rows. *)
LoopsOwnStore == Tenancy!LoopsOwnStore
=============================================================================
