------------------------------ MODULE TraceBuffer ------------------------------
(***************************************************************************)
(* Observation: a span per request (obs/middleware.ts) and one per ledger  *)
(* operation under it (obs/instrument.ts), kept by trace in a buffer of a  *)
(* few (obs/buffer.ts), and operators who are told of each request that    *)
(* ends (admin/stream.ts).                                                 *)
(*                                                                         *)
(* Spans end in any order.  A trace is in the buffer from the end of its   *)
(* first span, so a long request can be displaced before its own span ends *)
(* and an operation nobody waits for can bring a trace back.               *)
(***************************************************************************)
EXTENDS Naturals, Sequences

CONSTANTS
    Requests,
    Listeners,      \* browsers on the live stream
    Cap,            \* ENRAHITU_TRACE_BUFFER_CAP
    MaxSpans,       \* MAX_SPANS_PER_TRACE
    MaxOperations   \* bound on the ledger operations of a request

VARIABLES
    traces,       \* the Map, oldest first
    subscribers,  \* the Set
    stream,       \* per listener: "away", "open", "refused" or "closed"
    throws,       \* listeners whose write fails
    request,      \* per request, its own span and its operations
    told,         \* <<listener, request, failed>> written to a stream
    counted,      \* httpRequestsTotal, coreledgerOperationsTotal
    displaced,    \* history: requests whose trace has left the buffer
    failed        \* history: requests one of whose spans ended with an error

vars == <<traces, subscribers, stream, throws, request, told, counted, displaced, failed>>

Init ==
    /\ traces = <<>> /\ subscribers = {}
    /\ stream = [l \in Listeners |-> "away"]
    /\ throws \in SUBSET Listeners
    /\ request = [r \in Requests |-> [span |-> "none", begun |-> 0, open |-> 0]]
    /\ told = {} /\ displaced = {} /\ failed = {}
    /\ counted = [requests |-> 0, operations |-> 0]

-----------------------------------------------------------------------------
Outcomes == {"ok", "error"}

Known(r) == \E i \in DOMAIN traces : traces[i].trace = r

(* The trace is entered if it is not there, and the oldest leaves for it. *)
Entered(r) ==
    IF Known(r) THEN traces
    ELSE LET longer == Append(traces, [trace |-> r, spans |-> <<>>, ended |-> FALSE,
                                       hasError |-> FALSE, dropped |-> 0])
         IN  IF Len(longer) > Cap THEN Tail(longer) ELSE longer

Kept(entry, outcome) ==
    IF Len(entry.spans) >= MaxSpans THEN [entry EXCEPT !.dropped = @ + 1]
    ELSE [entry EXCEPT !.spans = Append(@, outcome)]

(* Variant: a span beyond the guard leaves the flag alone. *)
FlaggedIfKept(entry, outcome) ==
    [Kept(entry, outcome) EXCEPT
        !.hasError = @ \/ (outcome = "error" /\ Len(entry.spans) < MaxSpans)]

Recorded(entry, outcome) ==
    [Kept(entry, outcome) EXCEPT !.hasError = @ \/ outcome = "error"]

(* Those who are written to: one that throws is passed over. *)
Notified(all) == all \ throws

(* TraceBuffer.add, with the subscribers told when it is the request's own span. *)
AddSpan(r, root, outcome) ==
    LET entered == Entered(r)
        i == CHOOSE j \in DOMAIN entered : entered[j].trace = r
        entry == Recorded(entered[i], outcome)
    IN  /\ traces' = [entered EXCEPT ![i] = [entry EXCEPT !.ended = @ \/ root]]
        /\ told' = IF ~root THEN told
                   ELSE told \cup {<<l, r, entry.hasError>> : l \in Notified(subscribers)}
        /\ displaced' = displaced \cup
              {traces[j].trace : j \in {k \in DOMAIN traces :
                  ~\E n \in DOMAIN entered : entered[n].trace = traces[k].trace}}
        /\ failed' = IF outcome = "error" THEN failed \cup {r} ELSE failed

-----------------------------------------------------------------------------
Arrive(r) ==
    /\ request[r].span = "none"
    /\ request' = [request EXCEPT ![r].span = "open"]
    /\ UNCHANGED <<traces, subscribers, stream, throws, told, counted, displaced, failed>>

(* An operation of the ledger has a span only under a request's. *)
BeginOperation(r) ==
    /\ request[r].span = "open" /\ request[r].begun < MaxOperations
    /\ request' = [request EXCEPT ![r].begun = @ + 1, ![r].open = @ + 1]
    /\ counted' = [counted EXCEPT !.operations = @ + 1]
    /\ UNCHANGED <<traces, subscribers, stream, throws, told, displaced, failed>>

(* It ends, refused or not, before the request or after it. *)
EndOperation(r, outcome) ==
    /\ request[r].open > 0
    /\ request' = [request EXCEPT ![r].open = @ - 1]
    /\ AddSpan(r, FALSE, outcome)
    /\ UNCHANGED <<subscribers, stream, throws, counted>>

(* The handler returns or throws; an operation's error need not be its own. *)
EndRequest(r, outcome) ==
    /\ request[r].span = "open"
    /\ request' = [request EXCEPT ![r].span = "ended"]
    /\ counted' = [counted EXCEPT !.requests = @ + 1]
    /\ AddSpan(r, TRUE, outcome)
    /\ UNCHANGED <<subscribers, stream, throws>>

(* traceStream: for an operator, while the admin plane is enabled. *)
Listen(l) ==
    /\ stream[l] = "away"
    /\ \/ /\ stream' = [stream EXCEPT ![l] = "open"]
          /\ subscribers' = subscribers \cup {l}
       \/ stream' = [stream EXCEPT ![l] = "refused"] /\ UNCHANGED subscribers
    /\ UNCHANGED <<traces, throws, request, told, counted, displaced, failed>>

Close(l) ==
    /\ stream[l] = "open"
    /\ stream' = [stream EXCEPT ![l] = "closed"]
    /\ subscribers' = subscribers \ {l}
    /\ UNCHANGED <<traces, throws, request, told, counted, displaced, failed>>

Next ==
    \/ \E r \in Requests :
          \/ Arrive(r) \/ BeginOperation(r)
          \/ \E o \in Outcomes : EndOperation(r, o) \/ EndRequest(r, o)
    \/ \E l \in Listeners : Listen(l) \/ Close(l)

Spec == Init /\ [][Next]_vars

-----------------------------------------------------------------------------
(***************************************************************************)
(* When a request ends, every operator who is listening is told of it,     *)
(* whatever becomes of the others, and told that it failed exactly when    *)
(* one of its spans has, kept or not: unless its trace has left the buffer *)
(* since its first span ended.                                             *)
(***************************************************************************)
ListenersTold ==
    [][\A r \in Requests :
          request[r].span = "open" /\ request'[r].span = "ended" /\ r \notin displaced =>
              \A l \in Listeners \ throws :
                  stream[l] = "open" => <<l, r, r \in failed'>> \in told']_vars
===============================================================================
