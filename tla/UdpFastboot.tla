---------------------------- MODULE UdpFastboot ----------------------------
(***************************************************************************)
(* UdpFastbootTransport (src/transport/udp_fastboot.cpp): a stop-and-wait    *)
(* exchange of numbered datagrams with one peer.  A message is cut into       *)
(* fragments; each is sent again until a datagram with its sequence number    *)
(* answers it, and an answer that announces more is prompted for the rest.    *)
(*                                                                         *)
(* The network loses, duplicates and reorders datagrams, but none outlives     *)
(* Lifetime sequence numbers.  Bytes are counted in units: a packet carries    *)
(* the minimum payload of one unit until the handshake negotiates more.       *)
(* Units are numbered in the order in which they are first handed over, so    *)
(* that a unit that is lost, repeated or overtaken is seen to be.             *)
(***************************************************************************)
EXTENDS Integers, Sequences

CONSTANTS
    SequenceModulus,        \* 2^16: sequence numbers are std::uint16_t
    Lifetime,               \* sequence numbers that a datagram may outlive
    QueryAttempts, TransmissionAttempts,
    MaximumIgnoredDatagrams, MaximumErrorText, MaximumHandshakeResponse,
    TargetStarts,           \* sequence numbers that the target may start from
    HostPayload,            \* payload of host_max_packet_bytes
    WriteSizes, ReadSizes,  \* sizes of the caller's spans
    MaxOperations,          \* bound on the reads and writes of one behaviour
    MaxReplyUnits           \* bound on what the target has to say

ASSUME NetworkForgets ==
    /\ SequenceModulus \in Nat /\ Lifetime \in Nat /\ Lifetime + 1 < SequenceModulus
ASSUME PositiveAttempts ==
    /\ QueryAttempts \in Nat \ {0} /\ TransmissionAttempts \in Nat \ {0}
    /\ MaximumIgnoredDatagrams \in Nat

VARIABLES
    open, poisoned,
    stop_requested,         \* the local or the external stop token
    next_sequence, maximum_payload,
    pc,                     \* the thread inside the transport, which holds its mutex
    ex,                     \* the locals of exchange_message()
    expired,                \* its operation deadline has passed
    result,                 \* of the last operation
    to_target, to_host,     \* datagrams that may still arrive, any number of times
    target,                 \* the device
    handed,                 \* history: units handed to write()
    taken,                  \* history: units of answers, in the order they were stored
    operations

transport == <<open, poisoned, next_sequence, maximum_payload>>
network == <<to_target, to_host>>
history == <<handed, taken>>
vars == <<transport, stop_requested, pc, ex, expired, result, network, target, history, operations>>

\* Mutant: a sequence number that does not wrap.
MutNoWrap(s) == s + 1

Next16(s) == (s + 1) % SequenceModulus

Packet(id, more, sequence, payload) ==
    [id |-> id, more |-> more, sequence |-> sequence, payload |-> payload, age |-> 0]

NoPacket == Packet("none", FALSE, 0, <<>>)
Units(first, n) == [i \in 1..n |-> first + i - 1]

NoResult == [op |-> "none", status |-> "Ok", certainty |-> "FullyTransferred", transferred |-> 0]

\* The locals at the head of exchange_message(), for a request given as units.
Exchange(op, id, request, limit, max_attempts) ==
    [op |-> op, id |-> id, request |-> request, limit |-> limit, max_attempts |-> max_attempts,
     offset |-> 0, packet |-> NoPacket, attempt |-> 0, ignored |-> 0,
     any_wire |-> FALSE, unacknowledged |-> FALSE, accounted |-> FALSE,
     acknowledged |-> 0, response |-> <<>>, error_text |-> 0]

\* A device that expects this sequence number and answers queries this way.
NewTarget(start, greeting) ==
    [expected |-> start, greeting |-> greeting, last |-> NoPacket, log |-> <<>>, said |-> 0]

Init ==
    /\ open = TRUE /\ poisoned = FALSE /\ stop_requested = FALSE
    /\ next_sequence = 0 /\ maximum_payload = 1
    /\ pc = "new" /\ ex = Exchange("none", "none", <<>>, 0, 0) /\ expired = FALSE
    /\ result = NoResult
    /\ to_target = {} /\ to_host = {}
    /\ target \in {NewTarget(s, g) : s \in TargetStarts,
                                    g \in {"sequence", "short", "error"}}
    /\ handed = 0 /\ taken = <<>> /\ operations = 0

-----------------------------------------------------------------------------
(* Leaving an exchange.                                                    *)

\* Mutant: nothing acknowledged is taken for nothing sent.
MutUnansweredIsUnsent(e) ==
    IF e.acknowledged = 0 THEN "NotTransferred"
    ELSE IF ~e.unacknowledged /\ e.acknowledged = Len(e.request) THEN "FullyTransferred"
    ELSE "PartialOrUnknown"

\* set_certainty: what is known of the request when an exchange fails.
set_certainty(e) ==
    IF ~e.any_wire THEN "NotTransferred"
    ELSE IF ~e.unacknowledged /\ e.acknowledged = Len(e.request) THEN "FullyTransferred"
    ELSE "PartialOrUnknown"

\* What outlives the exchange: the request, and whether it is in doubt.
Left(e) == [Exchange(e.op, e.id, e.request, 0, 0) EXCEPT !.unacknowledged = e.unacknowledged]

\* What write(), read() and initialize() return.  A failed handshake closes the
\* transport, poisoned or not: create() returns no transport.
Return(e, status, certainty, poison) ==
    /\ result' = [op |-> e.op, status |-> status, certainty |-> certainty,
                  transferred |-> IF e.op = "write" THEN e.acknowledged ELSE Len(e.response)]
    /\ ex' = Left(e) /\ expired' = FALSE
    /\ pc' = IF e.op \in {"query", "initialization"} THEN "destroyed" ELSE "idle"
    /\ poisoned' = (poisoned \/ poison)
    /\ open' = (open /\ ~poison /\ e.op \notin {"query", "initialization"})

\* fail(): an exchange that ends before its last answer.
fail(e, status, poison) ==
    /\ Return(e, status, set_certainty(e), poison)
    /\ UNCHANGED <<stop_requested, next_sequence, maximum_payload, target, history, operations>>

\* Mutant: every fragment is cut from the start of the request.
MutFirstFragmentAgain(e, sequence, payload_limit) ==
    LET rest == Len(e.request) - e.offset
        size == IF rest < payload_limit THEN rest ELSE payload_limit
    IN [e EXCEPT !.packet = Packet(e.id, rest > size, sequence, SubSeq(e.request, 1, size)),
                 !.attempt = 0, !.accounted = FALSE]

\* The fragment at e.offset, and the first datagram that carries it.
LoadFragment(e, sequence, payload_limit) ==
    LET rest == Len(e.request) - e.offset
        size == IF rest < payload_limit THEN rest ELSE payload_limit
    IN [e EXCEPT !.packet = Packet(e.id, rest > size, sequence,
                                   SubSeq(e.request, e.offset + 1, e.offset + size)),
                 !.attempt = 0, !.accounted = FALSE]

\* exchange_message() up to its first attempt: it may find the token stopped, its
\* deadline gone or no memory for the packet.
BeginExchange(e) ==
    \/ /\ stop_requested /\ Return(e, "Cancelled", "NotTransferred", TRUE)
    \/ /\ ~stop_requested
       /\ \E status \in {"Timeout", "IoError"} : Return(e, status, "NotTransferred", FALSE)
    \/ /\ ~stop_requested
       /\ pc' = "attempt" /\ ex' = LoadFragment(e, next_sequence, maximum_payload)
       /\ expired' = FALSE /\ UNCHANGED <<open, poisoned, result>>

-----------------------------------------------------------------------------
(* The calls.                                                              *)

\* create(): the query is the first exchange of initialize().
create ==
    /\ pc = "new"
    /\ BeginExchange(Exchange("query", "Query", <<>>, MaximumHandshakeResponse, QueryAttempts))
    /\ UNCHANGED <<stop_requested, next_sequence, maximum_payload, network, target, history,
                   operations>>

\* The protocol layer above never uses a transport again whose last result left
\* the wire in doubt: it poisons its own session (FastbootSession).
CallerMayGoOn == result.status = "Ok" \/ result.certainty = "NotTransferred"

Call(e, units) ==
    /\ pc = "idle" /\ CallerMayGoOn /\ operations < MaxOperations
    /\ operations' = operations + 1 /\ handed' = handed + units
    /\ IF open
       THEN BeginExchange(e)
       ELSE /\ Return(e, "Disconnected", "NotTransferred", FALSE)
    /\ UNCHANGED <<stop_requested, next_sequence, maximum_payload, network, target, taken>>

write ==
    \E n \in WriteSizes :
        Call(Exchange("write", "Fastboot", Units(handed + 1, n), 0, TransmissionAttempts), n)

read ==
    \E n \in ReadSizes :
        Call(Exchange("read", "Fastboot", <<>>, n, TransmissionAttempts), 0)

\* request_cancel(), or the stop token of the options: takes no lock.
request_cancel ==
    /\ ~stop_requested /\ stop_requested' = TRUE
    /\ UNCHANGED <<transport, pc, ex, expired, result, network, target, history, operations>>

\* close() waits for the mutex, hence for the end of an exchange.
close ==
    /\ pc = "idle" /\ open /\ open' = FALSE
    /\ UNCHANGED <<poisoned, next_sequence, maximum_payload, stop_requested, pc, ex, expired, result,
                   network, target, history, operations>>

DeadlinePasses ==
    /\ pc \in {"attempt", "sending", "receive"} /\ ~expired /\ expired' = TRUE
    /\ UNCHANGED <<transport, stop_requested, pc, ex, result, network, target, history, operations>>

-----------------------------------------------------------------------------
(* One attempt: send the datagram, wait for its answer.                     *)

\* Mutant: the head of the attempt loop does not look at the deadline.
MutNoDeadline ==
    /\ pc = "attempt"
    /\ IF stop_requested THEN fail(ex, "Cancelled", TRUE) /\ UNCHANGED network
       ELSE /\ pc' = "sending"
            /\ UNCHANGED <<transport, stop_requested, ex, expired, result, network, target, history,
                           operations>>

\* The head of the attempt loop.
Attempt ==
    /\ pc = "attempt"
    /\ IF stop_requested THEN fail(ex, "Cancelled", TRUE) /\ UNCHANGED network
       ELSE IF expired THEN fail(ex, "Timeout", ex.any_wire) /\ UNCHANGED network
       ELSE /\ pc' = "sending"
            /\ UNCHANGED <<transport, stop_requested, ex, expired, result, network, target, history,
                           operations>>

OnWire(e) == [e EXCEPT !.any_wire = TRUE, !.unacknowledged = TRUE]

Sent ==
    /\ pc = "sending" /\ pc' = "receive"
    /\ ex' = OnWire(ex) /\ to_target' = to_target \cup {ex.packet}
    /\ UNCHANGED <<transport, stop_requested, expired, result, to_host, target, history, operations>>

\* The socket reports the datagram as not sent at all.  Only a cancellation and a
\* truncation poison.
NothingSent ==
    /\ pc = "sending" /\ UNCHANGED network
    /\ \/ stop_requested /\ fail(ex, "Cancelled", TRUE)
       \/ expired /\ fail(ex, "Timeout", FALSE)
       \/ \E truncated \in BOOLEAN : fail(ex, "IoError", truncated)

\* It reports another number of bytes than the datagram has, or an error beside a
\* number that is not zero: the datagram may be on its way or not.
SentInDoubt ==
    /\ pc = "sending"
    /\ \/ stop_requested /\ fail(OnWire(ex), "Cancelled", TRUE)
       \/ expired /\ fail(OnWire(ex), "Timeout", TRUE)
       \/ fail(OnWire(ex), "IoError", TRUE)
    /\ to_target' \in {to_target, to_target \cup {ex.packet}} /\ UNCHANGED to_host

\* Mutant: every attempt gets a sequence number of its own.
MutNewNumber ==
    /\ pc = "receive"
    /\ IF expired \/ ex.attempt + 1 = ex.max_attempts
       THEN fail(ex, "Timeout", TRUE) /\ UNCHANGED network
       ELSE /\ pc' = "attempt"
            /\ ex' = [ex EXCEPT !.attempt = @ + 1, !.packet.sequence = Next16(@)]
            /\ UNCHANGED <<transport, stop_requested, expired, result, network, target, history,
                           operations>>

\* The retransmission interval or the deadline is over without an answer.
NoAnswer ==
    /\ pc = "receive"
    /\ IF expired \/ ex.attempt + 1 = ex.max_attempts
       THEN fail(ex, "Timeout", TRUE) /\ UNCHANGED network
       ELSE /\ pc' = "attempt" /\ ex' = [ex EXCEPT !.attempt = @ + 1]
            /\ UNCHANGED <<transport, stop_requested, expired, result, network, target, history,
                           operations>>

\* receive_datagram() fails, or what arrives from the peer is cut short, too long
\* or has unknown flags.
ReceiveFails ==
    /\ pc = "receive" /\ UNCHANGED network
    /\ \/ stop_requested /\ fail(ex, "Cancelled", TRUE)
       \/ fail(ex, "IoError", TRUE)

\* A datagram that does not count: from elsewhere, or from the peer and out of turn.
Ignore ==
    LET e == [ex EXCEPT !.ignored = @ + 1]
    IN IF e.ignored > MaximumIgnoredDatagrams
       THEN fail(e, "IoError", TRUE)
       ELSE /\ ex' = e
            /\ UNCHANGED <<transport, stop_requested, pc, expired, result, target, history, operations>>

ReceiveElsewhere == pc = "receive" /\ Ignore /\ UNCHANGED network

Matches(answer, packet) ==
    answer.sequence = packet.sequence /\ answer.id \in {packet.id, "Error"}

ReceiveOutOfTurn ==
    /\ pc = "receive" /\ UNCHANGED network
    /\ \E answer \in to_host : ~Matches(answer, ex.packet) /\ Ignore

\* A sequence number later, what the network still holds is a number older.
Older(packets) == {[p EXCEPT !.age = @ + 1] : p \in {q \in packets : q.age < Lifetime}}

-----------------------------------------------------------------------------
(* The answer to the datagram that was sent.                                *)

\* The rest of initialize(): the sequence number of the query's answer, then the
\* version and packet size of the initialization's.
QueryDone(e) ==
    IF Len(e.response) < 1
    THEN Return(e, "HandshakeFailed", "FullyTransferred", TRUE) /\ UNCHANGED next_sequence
    ELSE /\ next_sequence' = e.response[1]
         /\ pc' = "initialize" /\ ex' = Left(e) /\ expired' = FALSE
         /\ UNCHANGED <<open, poisoned, result>>

initialize ==
    /\ pc = "initialize"
    /\ BeginExchange(Exchange("initialization", "Initialization", <<0>>, MaximumHandshakeResponse,
                              TransmissionAttempts))
    /\ UNCHANGED <<stop_requested, next_sequence, maximum_payload, network, target, history,
                   operations>>

InitializationDone(e) ==
    IF Len(e.response) < 2 \/ e.response[1] < 1 \/ e.response[2] < 1
    THEN Return(e, "HandshakeFailed", "FullyTransferred", TRUE) /\ UNCHANGED maximum_payload
    ELSE /\ maximum_payload' = IF HostPayload < e.response[2] THEN HostPayload ELSE e.response[2]
         /\ pc' = "idle" /\ ex' = Left(e) /\ expired' = FALSE
         /\ UNCHANGED <<open, poisoned, result>>

\* The last answer has come.  A read that got no byte is a failure after all.
Done(e, sequence) ==
    \/ e.op = "query" /\ QueryDone(e) /\ UNCHANGED maximum_payload
    \/ e.op = "initialization" /\ InitializationDone(e) /\ next_sequence' = sequence
    \/ /\ e.op \in {"write", "read"} /\ next_sequence' = sequence /\ UNCHANGED maximum_payload
       /\ IF e.op = "read" /\ e.response = <<>>
          THEN Return(e, "IoError", "PartialOrUnknown", TRUE)
          ELSE Return(e, "Ok", "FullyTransferred", FALSE)

\* The next datagram of this exchange: a prompt for the rest of an answer, or the
\* next fragment of the request.
GoOn(e, sequence) ==
    /\ pc' = "attempt" /\ ex' = e /\ next_sequence' = sequence
    /\ UNCHANGED <<open, poisoned, maximum_payload, expired, result>>

Acknowledged(e) ==
    [e EXCEPT !.unacknowledged = FALSE, !.accounted = TRUE,
              !.acknowledged = @ + IF e.accounted THEN 0 ELSE Len(e.packet.payload)]

Prompt(e, answer, sequence) ==
    [e EXCEPT !.packet = Packet(answer.id, FALSE, sequence, <<>>), !.attempt = 0]

\* The target's error text; the last piece of it ends the exchange.
AcceptError(e, answer, sequence) ==
    /\ UNCHANGED taken
    /\ IF e.error_text + Len(answer.payload) <= MaximumErrorText /\ answer.more
       THEN GoOn(Prompt([e EXCEPT !.error_text = @ + Len(answer.payload)], answer, sequence), sequence)
       ELSE /\ Return(e, "IoError", set_certainty(e), TRUE) /\ next_sequence' = sequence
            /\ UNCHANGED maximum_payload

AcceptPayload(e, answer, sequence) ==
    LET stored == [e EXCEPT !.response = @ \o answer.payload]
        rest == Len(e.request) - e.offset
        further == [stored EXCEPT !.offset = @ + IF rest < maximum_payload THEN rest
                                                 ELSE maximum_payload]
    IN IF Len(stored.response) > e.limit
       THEN /\ Return(e, "IoError", set_certainty(e), TRUE) /\ next_sequence' = sequence
            /\ UNCHANGED <<maximum_payload, taken>>
       ELSE /\ taken' = IF e.op = "read" THEN taken \o answer.payload ELSE taken
            /\ IF answer.more THEN GoOn(Prompt(stored, answer, sequence), sequence)
               ELSE IF further.offset < Len(e.request)
               THEN GoOn(LoadFragment(further, sequence, maximum_payload), sequence)
               ELSE Done(further, sequence)

\* A datagram of the peer with the right number and kind.
ReceiveAnswer ==
    /\ pc = "receive"
    /\ \E answer \in to_host :
        /\ Matches(answer, ex.packet)
        /\ IF answer.id = "Error"
           THEN AcceptError(Acknowledged(ex), answer, Next16(next_sequence))
           ELSE AcceptPayload(Acknowledged(ex), answer, Next16(next_sequence))
    /\ to_target' = Older(to_target) /\ to_host' = Older(to_host)
    /\ UNCHANGED <<stop_requested, target, handed, operations>>

-----------------------------------------------------------------------------
(* The target, as the transport and its tests expect it to be: it takes each  *)
(* sequence number once, and repeats its last answer to the one before.       *)

\* Nothing reaches a closed socket.
Reply(answer) == to_host' = IF open THEN to_host \cup {answer} ELSE to_host

Greeting ==
    CASE target.greeting = "sequence" -> [id |-> "Query", payload |-> <<target.expected>>]
      [] target.greeting = "short" -> [id |-> "Query", payload |-> <<>>]
      [] target.greeting = "error" -> [id |-> "Error", payload |-> <<>>]

TargetGreets ==
    /\ \E p \in to_target :
        /\ p.id = "Query"
        /\ Reply(Packet(Greeting.id, FALSE, p.sequence, Greeting.payload))
    /\ UNCHANGED <<transport, stop_requested, pc, ex, expired, result, to_target, target, history,
                   operations>>

\* Version and payload: too low, the least, or more than the host's; or neither.
InitializationAnswers == {<<version, size>> : version \in 0..1, size \in {0, 1, HostPayload + 1}} \cup {<<>>}

\* What the target has to say next, if it says anything.
Says == {<<>>} \cup IF target.said < MaxReplyUnits THEN {<<target.said + 1>>} ELSE {}

Answers(p) ==
    {Packet("Error", more, p.sequence, text) : more \in BOOLEAN, text \in {<<>>, <<0>>}}
    \cup IF p.id = "Initialization"
         THEN {Packet(p.id, FALSE, p.sequence, a) : a \in InitializationAnswers}
         ELSE IF p.id = "Fastboot"
         THEN {Packet(p.id, more, p.sequence, say) : more \in BOOLEAN, say \in Says}
         ELSE {}

TargetTakes ==
    /\ \E p \in to_target :
        /\ p.id # "Query" /\ p.sequence = target.expected
        /\ \E answer \in Answers(p) :
            /\ target' = [target EXCEPT
                   !.expected = Next16(@), !.last = answer,
                   !.log = IF p.id = "Fastboot" THEN @ \o p.payload ELSE @,
                   !.said = IF answer.id = "Fastboot" THEN @ + Len(answer.payload) ELSE @]
            /\ Reply(answer)
    /\ UNCHANGED <<transport, stop_requested, pc, ex, expired, result, to_target, history, operations>>

TargetRepeats ==
    /\ target.last # NoPacket
    /\ \E p \in to_target : p.id # "Query" /\ Next16(p.sequence) = target.expected
    /\ Reply(target.last)
    /\ UNCHANGED <<transport, stop_requested, pc, ex, expired, result, to_target, target, history,
                   operations>>

-----------------------------------------------------------------------------
exchange_message ==
    \/ Attempt \/ Sent \/ NothingSent \/ SentInDoubt
    \/ NoAnswer \/ ReceiveFails \/ ReceiveElsewhere \/ ReceiveOutOfTurn \/ ReceiveAnswer

\* Nothing is left to do: the transport is gone, or the caller is done with it.
Finished ==
    /\ pc = "destroyed" \/ (pc = "idle" /\ (operations = MaxOperations \/ ~CallerMayGoOn))
    /\ UNCHANGED vars

Next ==
    \/ create \/ initialize \/ write \/ read \/ request_cancel \/ close \/ DeadlinePasses
    \/ exchange_message
    \/ TargetGreets \/ TargetTakes \/ TargetRepeats
    \/ Finished

Spec == Init /\ [][Next]_vars

\* The calling thread runs, its receive times out, and deadlines pass.  The network
\* and the target owe nothing.
FairSpec ==
    /\ Spec /\ WF_vars(exchange_message) /\ WF_vars(initialize) /\ WF_vars(DeadlinePasses)

-----------------------------------------------------------------------------
(* Properties.                                                             *)

SequenceNumbers == 0..(SequenceModulus - 1)
Statuses == {"Ok", "Timeout", "Cancelled", "Disconnected", "IoError", "HandshakeFailed"}
Certainties == {"NotTransferred", "PartialOrUnknown", "FullyTransferred"}
IdleAndUsable == pc = "idle" /\ open /\ CallerMayGoOn

\* Every variable has its type; sequence numbers stay in their sixteen bits.
TypeOK ==
    /\ \A b \in {open, poisoned, stop_requested, expired} : b \in BOOLEAN
    /\ next_sequence \in SequenceNumbers /\ maximum_payload \in 1..HostPayload
    /\ pc \in {"new", "initialize", "idle", "attempt", "sending", "receive", "destroyed"}
    /\ result.status \in Statuses /\ result.certainty \in Certainties
    /\ \A p \in to_target \cup to_host : p.sequence \in SequenceNumbers /\ p.age \in 0..Lifetime
    /\ ex.attempt <= ex.max_attempts /\ ex.ignored <= MaximumIgnoredDatagrams + 1
    /\ handed \in Nat /\ operations \in 0..MaxOperations

\* What a write reports is what the target got, whatever the network did: after
\* NotTransferred no unit has arrived or ever will, after FullyTransferred all have
\* arrived together (set_certainty and the end of exchange_message).
WriteCertaintyTrue ==
    (pc = "idle" /\ ex.op = "write") =>
        LET units == {ex.request[i] : i \in DOMAIN ex.request}
            got == {target.log[i] : i \in DOMAIN target.log}
            sent == UNION {{p.payload[i] : i \in DOMAIN p.payload} : p \in to_target}
        IN /\ result.certainty = "NotTransferred" => units \cap (got \cup sent) = {}
           /\ result.certainty = "FullyTransferred" => units \subseteq got
           /\ result.status = "Ok" => result.certainty = "FullyTransferred"

\* Both directions are exactly once and in order, whatever the network repeats or
\* reorders. A retransmission keeps its sequence number, so the target takes no unit
\* twice or late. Reads store what the target said, and between operations nothing
\* it said is missing: a late or repeated answer is never taken for the answer
\* awaited (the sequence and kind test in exchange_message).
ExactlyOnceInOrder ==
    /\ \A i, j \in DOMAIN target.log : i < j => target.log[i] < target.log[j]
    /\ \A i \in DOMAIN taken : taken[i] = i
    /\ IdleAndUsable => Len(taken) = target.said

\* Between operations both sides expect the same sequence number, so the next
\* message is taken as new; during one the target is ahead by at most the datagram
\* that is still unacknowledged (next_sequence_). Two datagrams that can reach the
\* target under one number are the same datagram, across operations and the wrap.
InStep ==
    /\ IdleAndUsable => target.expected = next_sequence
    /\ (pc \in {"attempt", "sending", "receive"} /\ ex.op # "query") =>
          \/ target.expected = next_sequence
          \/ target.expected = Next16(next_sequence) /\ ex.unacknowledged
    /\ \A p, q \in to_target :
          (p.id # "Query" /\ q.id # "Query" /\ p.sequence = q.sequence) => p = q

\* Every call returns, even if the target keeps announcing more without ever
\* saying anything (the deadline at the head of every attempt).
OperationsReturn == []<>(pc \in {"new", "idle", "destroyed"})

\* An operation that ends with a datagram unacknowledged poisons the transport: the
\* closed-peer case of udp_loopback_smoke.cpp.
UnacknowledgedIsPoisoned == (pc = "idle" /\ ex.unacknowledged) => poisoned
=============================================================================
