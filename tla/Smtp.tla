--------------------------------- MODULE Smtp ---------------------------------
(***************************************************************************)
(* Sending a notice: the transport the environment names                   *)
(* (mail/transport.ts, mail/boot.ts) and the conversation with a relay,    *)
(* whose replies arrive in as many chunks as the network makes of them.    *)
(*                                                                         *)
(* Between a reply that is complete and the next command nothing else      *)
(* runs, so Receive does both.  The buffer expect() looks at before it     *)
(* waits is empty, for the same reason, save for the end of a reply that   *)
(* was taken before its last chunk came: that end is put before the reply  *)
(* to the next command, and makes it one nobody expects.                   *)
(***************************************************************************)
EXTENDS Naturals, Sequences, SequencesExt

CONSTANT
    Transports  \* values of ENRAHITU_MAIL_TRANSPORT: "none", "smtp", "provider" or other

VARIABLES
    config,  \* the environment, and what the relay offers
    at,      \* the stage of send(), or its end
    secure,  \* the channel is encrypted
    buffer,  \* what has been received and not been taken
    wire,    \* chunks on their way from the relay
    asked,   \* the command the relay has not answered, or "nothing"
    taken,   \* the relay, or the provider, has accepted the message
    clear    \* what has crossed the network unencrypted

vars == <<config, at, secure, buffer, wire, asked, taken, clear>>

-----------------------------------------------------------------------------
Configs == [transport : Transports, complete : BOOLEAN, granted : BOOLEAN,
            implicit : BOOLEAN, insecure : BOOLEAN, user : BOOLEAN, starttls : BOOLEAN]

Init ==
    /\ config \in Configs
    /\ at = "idle" /\ asked = "nothing"
    /\ secure = FALSE /\ taken = FALSE
    /\ buffer = <<>> /\ wire = <<>>
    /\ clear = {}

(* resolveTransport() under transportOrNone(): a transport that is not complete,
   having no sender or no endpoint, or that nobody knows, is none. *)
Transport ==
    IF config.transport \in {"smtp", "provider"} /\ config.complete
    THEN config.transport ELSE "none"

(* The codes expect() is given at each stage. *)
Expected(stage) ==
    CASE stage \in {"greeting", "starttls"} -> {220}
      [] stage \in {"ehlo", "ehlo_again", "mail", "body"} -> {250}
      [] stage = "auth" -> {235}
      [] stage = "rcpt" -> {250, 251}
      [] stage = "data" -> {354}

AfterEhlo == IF config.user THEN "auth" ELSE "mail"

(* A relay that offers no STARTTLS is refused. *)
Refuses == ~config.implicit /\ ~config.insecure

(* Variant: the conversation is over once the message is written. *)
Unawaited == [greeting |-> "ehlo", starttls |-> "upgrade", auth |-> "mail",
              mail |-> "rcpt", rcpt |-> "data", data |-> "sent"]

Follows == [greeting |-> "ehlo", starttls |-> "upgrade", auth |-> "mail",
            mail |-> "rcpt", rcpt |-> "data", data |-> "body", body |-> "sent"]

(* Where the conversation goes after a reply it expected. *)
After(stage, offered) ==
    CASE stage = "ehlo" -> IF ~config.implicit /\ offered THEN "starttls"
                           ELSE IF Refuses THEN "failed" ELSE AfterEhlo
      [] stage = "ehlo_again" -> AfterEhlo
      [] OTHER -> Follows[stage]

Ended == {"sent", "failed", "held"}

(* Entering a stage sends its command, and the message with "body". *)
Enter(stage) ==
    /\ at' = stage
    /\ asked' = IF stage \in Ended \cup {"upgrade"} THEN asked ELSE stage
    /\ clear' = IF secure \/ stage \notin {"auth", "body"} THEN clear
                ELSE clear \cup {stage}

-----------------------------------------------------------------------------
(* send(): none throws at once, a denial costs no socket, and the connection
   is made or is not. *)
Start ==
    /\ at = "idle"
    /\ \/ Transport = "none" /\ Enter("held") /\ UNCHANGED secure
       \/ Transport # "none" /\ ~config.granted /\ Enter("failed") /\ UNCHANGED secure
       \/ Transport = "smtp" /\ config.granted
          /\ \/ Enter("greeting") /\ secure' = config.implicit
             \/ Enter("failed") /\ UNCHANGED secure
       \/ Transport = "provider" /\ config.granted
          /\ Enter("post") /\ secure' = TRUE
    /\ UNCHANGED <<config, buffer, wire, taken>>

(* providerTransport's request: an answer that is ok, one that is not, or none. *)
Post ==
    /\ at = "post"
    /\ \/ taken' = TRUE /\ Enter("sent")
       \/ taken' \in BOOLEAN /\ Enter("failed")
    /\ UNCHANGED <<config, secure, buffer, wire>>

-----------------------------------------------------------------------------
Refusal == 550

(* A reply in chunks: lines that continue, the last line whole, or cut after
   its code. *)
Chunk(part, code, offers) == [part |-> part, code |-> code, offers |-> offers]

Cut(code, offers) ==
    {<<Chunk("line", code, offers)>>,
     <<Chunk("head", code, FALSE), Chunk("tail", code, offers)>>}

Chunked(code, offers) ==
    Cut(code, offers) \cup {<<Chunk("more", code, offers)>> \o c : c \in Cut(code, FALSE)}

(* The relay answers the command, or refuses it. *)
Answer ==
    /\ asked \notin {"nothing", "post"}
    /\ \E code \in Expected(asked) \cup {Refusal} :
          /\ \E reply \in Chunked(code, config.starttls /\ asked = "ehlo" /\ code = 250) :
                wire' = wire \o reply
          /\ taken' = (taken \/ (asked = "body" /\ code # Refusal))
    /\ asked' = "nothing"
    /\ UNCHANGED <<config, at, secure, buffer, clear>>

(* The last line has a space for its fourth character. *)
Complete(received) ==
    \/ Last(received).part \in {"line", "head"}
    \/ Last(received).part = "tail" /\ Len(received) > 1

Waiting == at \notin {"idle", "upgrade", "post"} \cup Ended

(* The waiter's reply: of the code expected, or the end of the send. *)
Receive ==
    /\ Waiting /\ wire # <<>>
    /\ wire' = Tail(wire)
    /\ LET received == Append(buffer, Head(wire))
           code == IF received[1].part = "tail" THEN 0 ELSE received[1].code
           offered == \E i \in DOMAIN received : received[i].offers
       IN  IF ~Complete(received)
           THEN buffer' = received /\ UNCHANGED <<at, asked, clear>>
           ELSE /\ buffer' = <<>>
                /\ IF code \in Expected(at) THEN Enter(After(at, offered)) ELSE Enter("failed")
    /\ UNCHANGED <<config, secure, taken>>

(* upgrade(): what the buffer holds is from before, and so is what comes on
   the wire meanwhile, which no handshake survives. *)
Upgrade ==
    /\ at = "upgrade"
    /\ IF wire = <<>>
       THEN secure' = TRUE /\ buffer' = <<>> /\ at' = "ehlo_again" /\ asked' = "ehlo_again"
       ELSE at' = "failed" /\ UNCHANGED <<secure, buffer, asked>>
    /\ UNCHANGED <<config, wire, taken, clear>>

(* The socket's error or the expectation's timeout; what the relay was asked,
   it may still do. *)
Fail ==
    /\ Waiting \/ at = "upgrade"
    /\ at' = "failed"
    /\ UNCHANGED <<config, secure, buffer, wire, asked, taken, clear>>

Next == Start \/ Post \/ Answer \/ Receive \/ Upgrade \/ Fail

Spec == Init /\ [][Next]_vars

-----------------------------------------------------------------------------
(***************************************************************************)
(* However the replies are cut, send() returns only for a message that     *)
(* somebody has accepted; and neither the credentials nor the message      *)
(* cross an open channel that nobody has allowed.                          *)
(***************************************************************************)
SentMeansTaken ==
    /\ at = "sent" => taken
    /\ clear # {} => config.insecure
===============================================================================
