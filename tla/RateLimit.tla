------------------------------ MODULE RateLimit ------------------------------
(***************************************************************************)
(* The fixed-window rate limiter, lib/rate-limit.ts, with the identity it  *)
(* counts under, lib/client-identity.ts, on hiqlite's counters, which have *)
(* no time to live: the first hit of a window deletes the counter of the   *)
(* window before, and does not wait for that.                              *)
(*                                                                         *)
(* A request reads the window's number and increments the counter in two   *)
(* steps.  The raw handlers of the auth tier see the transport peer; the   *)
(* middleware of the api tier sees headers only, and counts whom it cannot *)
(* name under the endpoint.                                                *)
(***************************************************************************)
EXTENDS Integers, Sequences, FiniteSets

CONSTANTS
    Requests,
    Clients,
    None,         \* no identity
    Limit,        \* API_LIMIT, AUTH_LIMIT
    GlobalLimit,  \* globalApiLimit()
    MaxWindow,    \* bound on windows
    MaxFaults     \* bound on calls of the counters that fail

VARIABLES
    hops,      \* trusted proxy hops, declared and real
    tier,      \* "auth" or "api"
    window,    \* the ordinal of the clock's window
    counters,  \* per key and window, the count; 0 is a counter that is not there
    deletes,   \* counterDel calls on their way
    request,   \* per request: where it is, its client, its key and its ordinal
    faults

vars == <<hops, tier, window, counters, deletes, request, faults>>

Proxy == "proxy"
Endpoint == "endpoint"
Forged == "forged"

Keys == Clients \cup {Proxy, Forged, Endpoint}

New == [pc |-> "new", client |-> None, key |-> None, ordinal |-> 0, late |-> FALSE]

Init ==
    /\ hops \in {0, 1} /\ tier \in {"auth", "api"}
    /\ window = 1
    /\ counters = [b \in Keys \X (0..MaxWindow) |-> 0]
    /\ deletes = {}
    /\ request = [q \in Requests |-> New]
    /\ faults = 0

-----------------------------------------------------------------------------
(* What a proxy appends to X-Forwarded-For, after what the client put there. *)
Chain(client, prefix) == IF hops = 0 THEN prefix ELSE Append(prefix, client)

Peer(client) ==
    IF tier = "api" THEN None ELSE IF hops = 0 THEN client ELSE Proxy

(* resolveClient: the entry the outermost trusted proxy wrote, or no entry. *)
Resolve(chain, peer) ==
    IF hops = 0 THEN peer
    ELSE IF Len(chain) < hops THEN None
    ELSE chain[Len(chain) - hops + 1]

(* The bucket, and its ceiling: clientAddress falls back on the peer, the
   middleware on the endpoint. *)
Key(chain, peer) ==
    IF Resolve(chain, peer) # None THEN Resolve(chain, peer)
    ELSE IF tier = "api" THEN Endpoint ELSE peer

Ceiling(key) == IF key = Endpoint THEN GlobalLimit ELSE Limit

-----------------------------------------------------------------------------
(* A request comes in, and reads the window's number. *)
Arrive(q, client, prefix) ==
    /\ request[q].pc = "new"
    /\ request' = [request EXCEPT ![q] =
         [pc |-> "add", client |-> client, key |-> Key(Chain(client, prefix), Peer(client)),
          ordinal |-> window, late |-> FALSE]]
    /\ UNCHANGED <<hops, tier, window, counters, deletes, faults>>

(* Variant: the counter deleted is the one just begun. *)
ThisWindow(ordinal) == ordinal

Expired(ordinal) == ordinal - 1

Verdict(key, count) == IF count > Ceiling(key) THEN "refused" ELSE "admitted"

(* counterAdd answers with the new count; the first hit sets off the deletion. *)
Add(q) ==
    /\ request[q].pc = "add"
    /\ LET key == request[q].key
           ordinal == request[q].ordinal
           count == counters[key, ordinal] + 1
       IN  /\ counters' = [counters EXCEPT ![<<key, ordinal>>] = count]
           /\ deletes' = IF count = 1 THEN deletes \cup {<<key, Expired(ordinal)>>}
                         ELSE deletes
           /\ request' = [request EXCEPT ![q].pc = Verdict(key, count),
                                         ![q].late = window > ordinal]
    /\ UNCHANGED <<hops, tier, window, faults>>

(* The counters do not answer: the limiter fails open, whether or not the
   increment was made. *)
AddFails(q) ==
    /\ request[q].pc = "add" /\ faults < MaxFaults
    /\ faults' = faults + 1
    /\ request' = [request EXCEPT ![q].pc = "open"]
    /\ \/ UNCHANGED counters
       \/ counters' = [counters EXCEPT ![<<request[q].key, request[q].ordinal>>] = @ + 1]
    /\ UNCHANGED <<hops, tier, window, deletes>>

(* counterDel, or its failure, which nobody hears of. *)
Delete(b) ==
    /\ b \in deletes
    /\ deletes' = deletes \ {b}
    /\ \/ counters' = [counters EXCEPT ![b] = 0] /\ UNCHANGED faults
       \/ UNCHANGED counters /\ faults < MaxFaults /\ faults' = faults + 1
    /\ UNCHANGED <<hops, tier, window, request>>

NextWindow ==
    /\ window < MaxWindow
    /\ window' = window + 1
    /\ UNCHANGED <<hops, tier, counters, deletes, request, faults>>

Next ==
    \/ \E q \in Requests :
          \/ \E c \in Clients, prefix \in {<<>>, <<Forged>>} : Arrive(q, c, prefix)
          \/ Add(q) \/ AddFails(q)
    \/ \E b \in deletes : Delete(b)
    \/ NextWindow

Spec == Init /\ [][Next]_vars

-----------------------------------------------------------------------------
(* Those of a client who were counted in the window they came in. *)
Punctual(client, w, verdict) ==
    {q \in Requests : /\ request[q].pc = verdict /\ request[q].ordinal = w
                      /\ client \in {None, request[q].client} /\ ~request[q].late}

(***************************************************************************)
(* Whatever a client writes into its headers, and whenever the deletion of *)
(* an old counter arrives, no more requests of a client than the limit are *)
(* let through in a window they arrive and are counted in; of those nobody *)
(* can name, no more than the shared ceiling.                              *)
(***************************************************************************)
WindowHolds ==
    \A w \in 1..MaxWindow :
        IF tier = "api" /\ hops = 0
        THEN Cardinality(Punctual(None, w, "admitted")) <= GlobalLimit
        ELSE \A c \in Clients : Cardinality(Punctual(c, w, "admitted")) <= Limit
=============================================================================
