--------------------------- MODULE FastbootSession ---------------------------
(***************************************************************************)
(* The Fastboot protocol session (src/protocol/fastboot_protocol.cpp), with *)
(* the transport it calls and the device at the other end.                  *)
(*                                                                         *)
(* One operation at a time holds the session's mutex; a call that finds it  *)
(* taken returns Busy and changes nothing.  An action of the operation is    *)
(* one call to the transport and what the session makes of its result.       *)
(* Commands and payloads are counted in units, so that a write may be cut    *)
(* anywhere; a transport result carries, besides what it reports, how much   *)
(* reached the device.  The device answers in any way but one: it says       *)
(* nothing after OKAY or FAIL until the next command.                        *)
(***************************************************************************)
EXTENDS Naturals, Sequences, FiniteSets

CONSTANTS CommandLength,       \* units of a command
          Sizes,               \* payload sizes the host or the device announces
          MaximumBytes,        \* receive_to_sink's maximum_bytes
          ReceiveChunk,        \* receive_chunk_bytes
          MaxInformational     \* max_informational_responses

ASSUME SessionAssumption ==
    /\ CommandLength \in Nat \ {0} /\ Sizes \subseteq Nat
    /\ MaximumBytes \in Nat \ {0} /\ ReceiveChunk \in Nat \ {0}
    /\ MaxInformational \in Nat \ {0}

VARIABLES
    \* the session, and the operation that holds its mutex
    state, poison_error, cancellation_requested,
    locked, op, phase, offset, informational, announced_size, committed,
    \* what the last operation to return reported
    last,
    \* the device: what it does, units of command and payload that reached it,
    \* payload units it has yet to send, its responses under way
    device, got_command, got_data, unsent, wire,
    \* units that receive_to_sink's sink has stored
    stored

sessionVars == <<state, poison_error, cancellation_requested>>
opVars == <<locked, op, phase, offset, informational, announced_size, committed, last>>
deviceVars == <<device, got_command, got_data, unsent, wire>>
vars == <<sessionVars, opVars, deviceVars, stored>>

SessionState == {"Ready", "WritingCommand", "AwaitingResponse", "Downloading",
                 "ReceivingData", "Poisoned", "Closed"}
ProtocolPhase == {"Validation", "CommandWrite", "InitialResponse", "DataWrite", "DataRead",
                  "FinalResponse"}
TransferCertainty == {"NotTransferred", "PartialOrUnknown", "FullyTransferred"}
ErrorCode == {"InvalidArgument", "Poisoned", "Closed", "StreamingUnsupported", "Transport",
              "TransportContractViolation", "TransportCancelled", "ZeroProgress",
              "MalformedResponse", "UnexpectedResponse", "DataLengthMismatch",
              "TooManyInformationalResponses"}
Response == [kind : {"INFO", "OKAY", "FAIL", "BAD"}] \cup [kind : {"DATA"}, size : Sizes]

Operation == [kind : {"command"}] \cup [kind : {"download", "download_source"}, size : Sizes]
                \cup [kind : {"receive_to_sink"}]
\* A CommandResult or a ProtocolError.  inbound_expected is an optional: a set of at
\* most one size.
Result == [code : ErrorCode \cup {"none", "OKAY", "FAIL"}, phase : ProtocolPhase,
           outbound : TransferCertainty, inbound_expected : SUBSET Sizes,
           inbound_transferred : Nat, inbound : TransferCertainty]

\* Every field at its default.
NoResult == [code |-> "none", phase |-> "Validation", outbound |-> "NotTransferred",
             inbound_expected |-> {}, inbound_transferred |-> 0, inbound |-> "NotTransferred"]

Init ==
    /\ state = "Ready" /\ poison_error = NoResult /\ cancellation_requested = FALSE
    /\ locked = FALSE /\ op = [kind |-> "command"] /\ phase = "Validation"
    /\ offset = 0 /\ informational = 0 /\ announced_size = 0 /\ committed = 0
    /\ last = NoResult
    /\ device = "idle" /\ got_command = 0 /\ got_data = 0 /\ unsent = 0 /\ wire = <<>>
    /\ stored = 0

-----------------------------------------------------------------------------
(* How an operation returns                                                *)

\* A result that says nothing of inbound data keeps the defaults there.
Reported(code, ph, outbound) ==
    [NoResult EXCEPT !.code = code, !.phase = ph, !.outbound = outbound]

WithInbound(result, expected, transferred, inbound) ==
    [result EXCEPT !.inbound_expected = {expected}, !.inbound_transferred = transferred,
                   !.inbound = inbound]

\* Return in state `next` and drop the lock.
Return(next, result) ==
    /\ state' = next /\ last' = result /\ locked' = FALSE
    /\ UNCHANGED <<cancellation_requested, op, phase, offset, informational, announced_size,
                   committed>>

Answer(result) == Return("Ready", result) /\ UNCHANGED poison_error

poison_locked(result) == Return("Poisoned", result) /\ poison_error' = result

-----------------------------------------------------------------------------
(* The calls: argument checks, begin_locked, close, request_cancel         *)

\* Arguments are refused before the session is looked at, or by begin_locked
\* after the two checks below; either way nothing is sent.
Refuse(result) ==
    /\ last' = result
    /\ UNCHANGED <<sessionVars, locked, op, phase, offset, informational, announced_size,
                   committed, got_command, got_data, stored>>

\* A poisoned session repeats the error of the operation that poisoned it.
unavailable_error_locked ==
    IF state = "Poisoned" THEN [poison_error EXCEPT !.code = "Poisoned"]
                          ELSE [NoResult EXCEPT !.code = "Closed"]

begin_locked(o) ==
    IF state # "Ready"
    THEN Refuse(unavailable_error_locked)
    ELSE IF cancellation_requested
    THEN /\ poison_locked(Reported("TransportCancelled", "Validation", "NotTransferred"))
         /\ UNCHANGED <<got_command, got_data, stored>>
    ELSE \/ Refuse([NoResult EXCEPT !.code = "InvalidArgument"])
         \/ /\ o.kind = "download_source"
            /\ Refuse([NoResult EXCEPT !.code = "StreamingUnsupported"])
         \/ /\ locked' = TRUE /\ op' = o /\ phase' = "CommandWrite"
            /\ state' = "WritingCommand"
            /\ offset' = 0 /\ informational' = 0 /\ announced_size' = 0 /\ committed' = 0
            /\ last' = NoResult
            /\ got_command' = 0 /\ got_data' = 0 /\ stored' = 0
            /\ UNCHANGED <<poison_error, cancellation_requested>>

\* command, download, download_source, receive_to_sink up to the first write.
Call(o) ==
    /\ ~locked
    /\ \/ o.kind # "command" /\ Refuse([NoResult EXCEPT !.code = "InvalidArgument"])
       \/ begin_locked(o)
    /\ UNCHANGED <<device, unsent, wire>>

close ==
    /\ ~locked /\ state # "Closed"
    /\ state' = "Closed"
    /\ UNCHANGED <<poison_error, cancellation_requested, opVars, deviceVars, stored>>

request_cancel ==
    /\ ~cancellation_requested
    /\ cancellation_requested' = TRUE
    /\ UNCHANGED <<state, poison_error, opVars, deviceVars, stored>>

-----------------------------------------------------------------------------
(* write_exact_locked and write_source_locked                              *)

\* What a transport may report of a write of n units, and what arrived.  Only
\* the last three alternatives break its contract: success without certainty,
\* a write said to be truncated, and more units than it was given.
WriteResult(n) ==
    LET R(s, k, c, x) == [status |-> s, transferred |-> k, certainty |-> c, delivered |-> x]
    IN {R("Ok", k, "FullyTransferred", k) : k \in 0..n}
         \cup {R("Failed", 0, "NotTransferred", 0), R("Failed", n, "FullyTransferred", n)}
         \cup {R("Failed", p[1], "PartialOrUnknown", p[2]) :
                 p \in {q \in (0..n) \X (0..n) : q[1] <= q[2]}}
         \cup {R("Ok", n, "PartialOrUnknown", x) : x \in 0..n}
         \cup {R("Truncated", k, "FullyTransferred", k) : k \in 0..n}
         \cup {R("Ok", n + 1, "FullyTransferred", n)}

\* Defect of aggregate_write_certainty.
MutCertaintyOfLastCall(completed, requested, r) ==
    IF r.certainty = "FullyTransferred" /\ r.transferred = requested THEN "FullyTransferred"
    ELSE IF r.transferred = 0 /\ r.certainty = "NotTransferred" THEN "NotTransferred"
    ELSE "PartialOrUnknown"

aggregate_write_certainty(completed, requested, r) ==
    IF r.certainty = "FullyTransferred" /\ r.transferred = requested
    THEN "FullyTransferred"
    ELSE IF completed = 0 /\ r.transferred = 0 /\ r.certainty = "NotTransferred"
    THEN "NotTransferred"
    ELSE "PartialOrUnknown"

\* The error that a write of n units at this offset ends with, if any.
WriteError(n, r) ==
    IF \/ r.transferred > n \/ r.status = "Truncated"
       \/ r.status = "Ok" /\ r.certainty # "FullyTransferred"
    THEN "TransportContractViolation"
    ELSE IF r.status # "Ok" THEN "Transport"
    ELSE IF r.transferred = 0 THEN "ZeroProgress"
    ELSE "none"

OutboundCertainty(n, r) ==
    IF WriteError(n, r) = "ZeroProgress"
    THEN IF offset = 0 THEN "NotTransferred" ELSE "PartialOrUnknown"
    ELSE aggregate_write_certainty(offset, n, r)

\* The whole command arrived: the device starts to answer it.
CommandArrives(x) ==
    /\ got_command' = got_command + x
    /\ device' = IF got_command' = CommandLength THEN "responding" ELSE device
    /\ UNCHANGED <<got_data, unsent, wire>>

WriteCommand ==
    /\ locked /\ state = "WritingCommand"
    /\ LET n == CommandLength - offset
       IN \E r \in WriteResult(n) :
            /\ CommandArrives(r.delivered)
            /\ IF WriteError(n, r) # "none"
               THEN poison_locked(Reported(WriteError(n, r), "CommandWrite",
                                           OutboundCertainty(n, r)))
               ELSE /\ offset' = offset + r.transferred
                    /\ state' = IF offset' = CommandLength THEN "AwaitingResponse" ELSE state
                    /\ phase' = IF offset' < CommandLength THEN phase
                                ELSE IF op.kind = "command" THEN "FinalResponse"
                                ELSE "InitialResponse"
                    /\ UNCHANGED <<poison_error, cancellation_requested, locked, op,
                                   informational, announced_size, committed, last>>
    /\ UNCHANGED stored

\* The device counts the payload it asked for, also after it has given it up.
DataArrives(x) ==
    /\ got_data' = got_data + x
    /\ device' = IF x = 0 \/ got_data' # op.size THEN device
                 ELSE IF device = "draining" THEN "idle" ELSE "finishing"
    /\ UNCHANGED <<got_command, unsent, wire>>

\* A payload in memory goes out by write_exact_locked, a source by one call to
\* write_source, which must report all of it.
WriteData ==
    /\ locked /\ state = "Downloading"
    /\ LET n == op.size - offset
           streaming == op.kind = "download_source"
           Error(r) == IF streaming /\ WriteError(n, r) = "none" /\ r.transferred # n
                       THEN "TransportContractViolation"
                       ELSE IF streaming /\ WriteError(n, r) = "ZeroProgress" /\ n = 0
                       THEN "none" ELSE WriteError(n, r)
           Certainty(r) == IF streaming THEN aggregate_write_certainty(0, n, r)
                           ELSE OutboundCertainty(n, r)
       IN IF n = 0 /\ ~streaming
          THEN /\ state' = "AwaitingResponse" /\ phase' = "FinalResponse"
               /\ UNCHANGED <<poison_error, cancellation_requested, locked, op, offset,
                              informational, announced_size, committed, last, deviceVars>>
          ELSE \E r \in WriteResult(n) :
                 /\ DataArrives(r.delivered)
                 /\ IF Error(r) # "none"
                    THEN poison_locked(Reported(Error(r), "DataWrite", Certainty(r)))
                    ELSE /\ offset' = offset + r.transferred
                         /\ state' = IF offset' = op.size THEN "AwaitingResponse" ELSE state
                         /\ phase' = IF offset' = op.size THEN "FinalResponse" ELSE phase
                         /\ UNCHANGED <<poison_error, cancellation_requested, locked, op,
                                        informational, announced_size, committed, last>>
    /\ UNCHANGED stored

-----------------------------------------------------------------------------
(* read_response_locked, and what each phase makes of the response         *)

\* receive_locked adds the inbound outcome to what read_terminal_locked returns.
Completed(result) ==
    IF op.kind = "receive_to_sink" /\ phase = "FinalResponse"
    THEN WithInbound(result, announced_size, committed, "FullyTransferred") ELSE result

\* The session has recorded the error by then, without that outcome.
response_failure(code) ==
    LET recorded == Reported(code, phase, "FullyTransferred")
    IN /\ Return("Poisoned", Completed(recorded))
       /\ poison_error' = recorded

\* A read fails, or its result breaks the transport's contract, or it does not
\* parse: in every phase the session is poisoned.
ResponseFails ==
    /\ locked /\ state = "AwaitingResponse"
    /\ \E code \in {"Transport", "TransportContractViolation", "MalformedResponse"} :
         /\ code = "MalformedResponse" => wire # <<>> /\ Head(wire).kind = "BAD"
         /\ response_failure(code)
    /\ UNCHANGED <<deviceVars, stored>>

Responds(kinds) ==
    /\ locked /\ state = "AwaitingResponse"
    /\ wire # <<>> /\ Head(wire).kind \in kinds
    /\ wire' = Tail(wire)
    /\ UNCHANGED <<device, got_command, got_data, unsent, stored>>

\* Defect of InfoResponse.
MutInfoOneTooMany ==
    /\ Responds({"INFO"})
    /\ IF informational > MaxInformational
       THEN response_failure("TooManyInformationalResponses")
       ELSE /\ informational' = informational + 1
            /\ UNCHANGED <<sessionVars, locked, op, phase, offset, announced_size, committed,
                           last>>

\* Defect of InfoResponse.
MutInfoLimitLeavesReady ==
    /\ Responds({"INFO"})
    /\ IF informational >= MaxInformational
       THEN Answer(Completed(Reported("TooManyInformationalResponses", phase, "FullyTransferred")))
       ELSE /\ informational' = informational + 1
            /\ UNCHANGED <<sessionVars, locked, op, phase, offset, announced_size, committed,
                           last>>

\* Defect of InfoResponse.
MutInfoNotCounted ==
    /\ Responds({"INFO"})
    /\ UNCHANGED <<sessionVars, locked, op, phase, offset, informational, announced_size,
                   committed, last>>

InfoResponse ==
    /\ Responds({"INFO"})
    /\ IF informational >= MaxInformational
       THEN response_failure("TooManyInformationalResponses")
       ELSE /\ informational' = informational + 1
            /\ UNCHANGED <<sessionVars, locked, op, phase, offset, announced_size, committed,
                           last>>

\* OKAY or FAIL before any DATA.
InitialTerminal ==
    /\ Responds({"OKAY", "FAIL"}) /\ phase = "InitialResponse"
    /\ LET kind == Head(wire).kind
       IN IF kind = "FAIL"
          THEN Answer(Reported("FAIL", phase, "FullyTransferred"))
          ELSE IF op.kind = "receive_to_sink"
          THEN Answer(Reported("UnexpectedResponse", phase, "FullyTransferred"))
          ELSE poison_locked(Reported("UnexpectedResponse", phase, "FullyTransferred"))

DownloadData ==
    /\ Responds({"DATA"}) /\ phase = "InitialResponse" /\ op.kind # "receive_to_sink"
    /\ IF Head(wire).size # op.size
       THEN poison_locked(Reported("DataLengthMismatch", phase, "FullyTransferred"))
       ELSE /\ state' = "Downloading" /\ phase' = "DataWrite" /\ offset' = 0
            /\ UNCHANGED <<poison_error, cancellation_requested, locked, op, informational,
                           announced_size, committed, last>>

\* receive_locked: a size out of range, or no memory for the buffer, poisons.
ReceiveData ==
    /\ Responds({"DATA"}) /\ phase = "InitialResponse" /\ op.kind = "receive_to_sink"
    /\ LET n == Head(wire).size
       IN IF n = 0
          THEN poison_locked(WithInbound(Reported("UnexpectedResponse", phase, "FullyTransferred"),
                                         n, 0, "NotTransferred"))
          ELSE IF n > MaximumBytes
          THEN poison_locked(WithInbound(Reported("DataLengthMismatch", phase, "FullyTransferred"),
                                         n, 0, "PartialOrUnknown"))
          ELSE \/ poison_locked(WithInbound(Reported("Transport", "DataRead", "FullyTransferred"),
                                            n, 0, "PartialOrUnknown"))
               \/ /\ state' = "ReceivingData" /\ phase' = "DataRead" /\ announced_size' = n
                  /\ UNCHANGED <<poison_error, cancellation_requested, locked, op, offset,
                                 informational, committed, last>>

\* read_terminal_locked.
FinalTerminal ==
    /\ Responds({"OKAY", "FAIL"}) /\ phase = "FinalResponse"
    /\ Answer(Completed(Reported(Head(wire).kind, phase, "FullyTransferred")))

FinalData ==
    /\ Responds({"DATA"}) /\ phase = "FinalResponse"
    /\ response_failure("UnexpectedResponse")

-----------------------------------------------------------------------------
(* The receive loop: read_data, the sink, the progress observer            *)

InboundCertainty(sofar, partial_or_unknown) ==
    IF sofar = announced_size /\ ~partial_or_unknown THEN "FullyTransferred"
    ELSE IF sofar = 0 /\ ~partial_or_unknown THEN "NotTransferred"
    ELSE "PartialOrUnknown"

receive_failure(code, sofar, partial_or_unknown) ==
    poison_locked(WithInbound(Reported(code, "DataRead", "FullyTransferred"), announced_size,
                              sofar, InboundCertainty(sofar, partial_or_unknown)))

\* k units leave the device.
DataLeaves(k) ==
    /\ unsent' = unsent - k
    /\ device' = IF unsent' = 0 THEN "finishing" ELSE device
    /\ UNCHANGED <<got_command, got_data, wire>>

\* read_data fails, with or without units read, or makes no progress.
ReadDataFails ==
    /\ locked /\ state = "ReceivingData"
    /\ \/ /\ \E partial \in BOOLEAN : receive_failure("Transport", committed, partial)
          /\ UNCHANGED deviceVars
       \/ receive_failure("TransportContractViolation", committed, TRUE) /\ UNCHANGED deviceVars
       \/ receive_failure("ZeroProgress", committed, FALSE) /\ UNCHANGED deviceVars
    /\ UNCHANGED stored

\* A chunk of k units was read; the sink stores x of them and owns up to t, or
\* claims more than it was given.
SinkFails ==
    /\ locked /\ state = "ReceivingData"
    /\ \E k \in 1..ReceiveChunk : \E x \in 0..k : \E t \in 0..x, certain \in BOOLEAN :
         /\ k <= unsent /\ k <= announced_size - committed
         /\ DataLeaves(k)
         /\ stored' = stored + x
         /\ certain => t = k
         /\ \/ receive_failure("Transport", committed + t, ~certain)
            \/ receive_failure("TransportContractViolation", committed + t, TRUE)
            \/ receive_failure("TransportContractViolation", committed, TRUE)

\* The chunk is committed; the observer may cancel or throw.
ReceiveChunkCommitted ==
    /\ locked /\ state = "ReceivingData"
    /\ \E k \in 1..ReceiveChunk :
         LET sofar == committed + k
         IN /\ k <= unsent /\ k <= announced_size - committed
            /\ DataLeaves(k)
            /\ stored' = stored + k
            /\ \/ \E code \in {"Transport", "TransportCancelled"} :
                    receive_failure(code, sofar, sofar # announced_size)
               \/ /\ committed' = sofar
                  /\ state' = IF sofar = announced_size THEN "AwaitingResponse" ELSE state
                  /\ phase' = IF sofar = announced_size THEN "FinalResponse" ELSE phase
                  /\ UNCHANGED <<poison_error, cancellation_requested, locked, op, offset,
                                 informational, announced_size, last>>

-----------------------------------------------------------------------------
(* The device: INFO as it pleases, then an answer, right or wrong.  While it *)
(* collects a payload it may send INFO, or FAIL and take the rest in vain.   *)

DeviceSays(r, next) ==
    /\ Len(wire) = 0
    /\ wire' = <<r>> /\ device' = next
    /\ UNCHANGED <<got_command, got_data>>

DeviceInfo ==
    /\ device \in {"responding", "collecting", "finishing"}
    /\ DeviceSays([kind |-> "INFO"], device)
    /\ UNCHANGED <<unsent, sessionVars, opVars, stored>>

DeviceEnds ==
    /\ \/ /\ device \in {"responding", "finishing"}
          /\ \/ \E k \in {"OKAY", "FAIL"} : DeviceSays([kind |-> k], "idle")
             \/ DeviceSays([kind |-> "BAD"], "stuck")
       \/ device = "collecting" /\ DeviceSays([kind |-> "FAIL"], "draining")
    /\ UNCHANGED <<unsent, sessionVars, opVars, stored>>

\* DATA asks for a payload, announces one, or makes no sense.
DeviceData ==
    /\ device \in {"responding", "finishing"}
    /\ \E n \in Sizes :
         /\ DeviceSays([kind |-> "DATA", size |-> n],
                CASE device = "finishing" \/ op.kind = "command" -> "stuck"
                  [] op.kind = "receive_to_sink" /\ device = "responding" -> "sending"
                  [] OTHER -> IF n = 0 THEN "finishing" ELSE "collecting")
         /\ unsent' = IF op.kind = "receive_to_sink" /\ device = "responding" THEN n ELSE unsent
    /\ UNCHANGED <<sessionVars, opVars, stored>>

DeviceStep == DeviceInfo \/ DeviceEnds \/ DeviceData

-----------------------------------------------------------------------------
OperationStep ==
    \/ WriteCommand \/ WriteData \/ ResponseFails \/ InfoResponse \/ InitialTerminal
    \/ DownloadData \/ ReceiveData \/ FinalTerminal \/ FinalData
    \/ ReadDataFails \/ SinkFails \/ ReceiveChunkCommitted

Next ==
    \/ \E o \in Operation : Call(o)
    \/ OperationStep \/ DeviceStep \/ close \/ request_cancel

Spec == Init /\ [][Next]_vars

\* Every transport call returns: each has a timeout.
Fairness == WF_vars(OperationStep)

FairSpec == Spec /\ Fairness

-----------------------------------------------------------------------------
(* Properties                                                              *)

\* Every member and local has its type, and INFO responses stay within their limit.
TypeOK ==
    /\ state \in SessionState /\ poison_error \in Result /\ cancellation_requested \in BOOLEAN
    /\ locked \in BOOLEAN /\ op \in Operation /\ phase \in ProtocolPhase
    /\ offset \in Nat /\ informational \in 0..MaxInformational
    /\ announced_size \in Nat /\ committed \in 0..announced_size
    /\ last \in Result
    /\ device \in {"idle", "responding", "collecting", "draining", "sending", "finishing",
                  "stuck"}
    /\ got_command \in 0..CommandLength /\ got_data \in Nat /\ unsent \in Nat
    /\ wire \in Seq(Response) /\ stored \in Nat

\* Commands and answers stay paired: a session that accepts a command has no
\* response of an earlier one before it and its device waits for a command,
\* whatever the transport and the device did (fastboot_protocol.cpp:703-705).
ReadyMeansInStep ==
    state = "Ready" => wire = <<>> /\ device = "idle"

InboundTrue ==
    /\ last.inbound_transferred <= stored
    /\ last.inbound = "NotTransferred" => stored = 0
    /\ last.inbound = "FullyTransferred" =>
           last.inbound_expected = {stored} /\ last.inbound_transferred = stored
    /\ op.kind = "receive_to_sink" /\ last.phase \in {"DataRead", "FinalResponse"} =>
           last.inbound_expected # {}

Ended == ~locked /\ last.code # "none" /\ last.phase # "Validation"

\* A later call's Poisoned error, from a receive that was stored in full and then got
\* no proper final response.
OutcomeNotRecorded ==
    last.code = "Poisoned" /\ last.phase = "FinalResponse" /\ op.kind = "receive_to_sink"

\* The certainties of a result are the truth. Outbound: what the device got, of the
\* command while it is written, of the payload while that is written, of both once
\* a final response is awaited (fastboot_protocol.hpp:111-113); a Poisoned error repeats
\* that of the operation that poisoned the session. Inbound, but for the repeated
\* error of a receive whose final response failed, which keeps the defaults: what the
\* sink stored and how much the device announced; an OKAY means all of it
\* (fastboot_protocol.cpp:385-391, 538-540).
CertaintyTrue ==
    Ended =>
        LET got == IF last.phase = "DataWrite" THEN got_data ELSE got_command
            all == IF last.phase = "DataWrite" THEN op.size ELSE CommandLength
        IN /\ last.outbound = "NotTransferred" => got = 0
           /\ last.outbound = "FullyTransferred" => got = all
           /\ last.phase = "FinalResponse" /\ op.kind \in {"download", "download_source"} =>
                  got_data = op.size
           /\ IF OutcomeNotRecorded THEN last.inbound = "NotTransferred" ELSE InboundTrue
           /\ last.code = "OKAY" /\ op.kind = "receive_to_sink" =>
                  last.inbound = "FullyTransferred"

\* What an error says of inbound data is true of every error, the repeated one
\* included: "inbound_expected is [...] set after accepting a DATA response;
\* inbound_transferred counts bytes committed to the caller's sink"
\* (fastboot_protocol.hpp:114-116).
EveryErrorKeepsInbound == Ended => InboundTrue

\* Every operation ends, even against a device that sends INFO without end
\* (max_informational_responses).
OperationsEnd == locked ~> ~locked
=============================================================================
