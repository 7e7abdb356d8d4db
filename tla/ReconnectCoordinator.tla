------------------------ MODULE ReconnectCoordinator ------------------------
(***************************************************************************)
(* ReconnectCoordinator::reconnect (src/fastboot/reconnect_coordinator.cpp) *)
(* finds a device again after it re-enumerated.  Each round scans the USB   *)
(* ports, opens the one candidate at the target's physical port, verifies   *)
(* the live identity and publishes the session, or backs off and tries      *)
(* again.  The device at the port changes whenever it likes, cancellation   *)
(* comes from another thread, and every reading of the clock may be later,  *)
(* or by a broken clock earlier, than the one before.                      *)
(*                                                                         *)
(* The deadline may be TimePoint::max(), which is never reached.  Only the    *)
(* order of two readings in a row matters then, so the last one is always 1   *)
(* and the next is earlier, the same or later: 0, 1 or 2.                     *)
(***************************************************************************)
EXTENDS Integers, FiniteSets

CONSTANTS
    Devices,            \* what may sit at the port: [serial, product, mode, usb]
    Targets,            \* the requests: [serial, previous_mode, required_mode,
                        \*   usb_fingerprint_policy, preceding]
    Limits,             \* of a call: [deadline, maximum_discovery_attempts,
                        \*   maximum_open_attempts], each a number or Unlimited
    InitialBackoff, MaximumBackoff,
    Unlimited,          \* TimePoint::max(), or the largest std::size_t
    NoDevice

ASSUME ReconnectAssumption ==
    /\ NoDevice \notin Devices /\ InitialBackoff \in Nat /\ MaximumBackoff \in Nat
    /\ \A l \in Limits : \A n \in {l.deadline, l.maximum_discovery_attempts,
                                   l.maximum_open_attempts} : n \in Nat \/ n = Unlimited

VARIABLES
    port,               \* the device at the target's physical port
    stop_requested,     \* the caller's stop token
    target, limits,     \* the arguments of the call
    pc, last_time, backoff, delay,
    discovery_attempts, open_attempts,
    candidate,          \* what the scan read of the device
    opened,             \* the device behind the exclusively opened session
    open_error,         \* certainty of the failed open, or "none"
    retry_certainty,
    result,
    probe               \* history: certainty of the last open() since a scan began

env == <<port, stop_requested, target, limits>>
round == <<candidate, opened, open_error, retry_certainty, probe>>
counts == <<discovery_attempts, open_attempts>>
timing == <<last_time, backoff, delay>>
vars == <<env, pc, timing, counts, round, result>>

DiscoveryLimit == limits.maximum_discovery_attempts
OpenLimit == limits.maximum_open_attempts
NoDeadline == limits.deadline = Unlimited

\* What the clock may read, what is kept of a reading, and when it is too late.
Times == IF NoDeadline THEN 0..2 ELSE 0..limits.deadline
Reading(t) == IF NoDeadline THEN 1 ELSE t
Late(t) == ~NoDeadline /\ t >= limits.deadline

TransferCertainty == {"NotTransferred", "FullyTransferred", "PartialOrUnknown"}
FastbootUsbMode == {"Bootloader", "Fastbootd"}
Absent == "none"

Passive == [serial : {d.serial : d \in Devices} \cup {Absent}, usb : {"same", "changed"}]
ErrorCode == {"none", "InvalidArgument", "UnsafePreviousOutcome", "Cancelled", "DeadlineExceeded",
    "DiscoveryFailed", "DiscoveryContractViolation", "AmbiguousPhysicalPort",
    "PortOccupiedByDifferentDevice", "UsbFingerprintMismatch", "ProductMismatch", "OpenFailed",
    "OpenOutcomeUncertain", "OpenContractViolation", "DeviceChangedDuringOpen", "WaitFailed",
    "ClockContractViolation", "AttemptLimitExceeded"}

\* Every variable has its type, and no attempt exceeds its limit.
TypeOK ==
    /\ port \in Devices \cup {NoDevice} /\ stop_requested \in BOOLEAN
    /\ target \in Targets /\ limits \in Limits
    /\ pc \in {"validate", "head", "discovering", "selected", "opening", "verified", "backoff",
               "waiting", "done"}
    /\ last_time \in Times /\ backoff \in 0..(InitialBackoff + MaximumBackoff)
    /\ delay \in Nat
    /\ discovery_attempts \in Nat /\ open_attempts \in Nat
    /\ DiscoveryLimit # Unlimited => discovery_attempts <= DiscoveryLimit
    /\ OpenLimit # Unlimited => open_attempts <= OpenLimit
    /\ candidate \in Passive \cup {NoDevice} /\ opened \in Devices \cup {NoDevice}
    /\ open_error \in TransferCertainty \cup {"none"} /\ retry_certainty \in TransferCertainty
    /\ probe \in TransferCertainty \cup {"none"}
    /\ result.code \in ErrorCode /\ result.certainty \in TransferCertainty

Init ==
    /\ port \in Devices \cup {NoDevice} /\ stop_requested = FALSE
    /\ target \in Targets /\ limits \in Limits
    /\ pc = "validate" /\ last_time = 0 /\ backoff = 0 /\ delay = 0
    /\ discovery_attempts = 0 /\ open_attempts = 0
    /\ candidate = NoDevice /\ opened = NoDevice /\ open_error = "none"
    /\ retry_certainty = "NotTransferred" /\ probe = "none"
    /\ result = [code |-> "none", certainty |-> "NotTransferred"]

make_error(code, certainty) ==
    /\ pc' = "done" /\ result' = [code |-> code, certainty |-> certainty]
    /\ UNCHANGED <<env, timing>>

\* A limit of the default size is never reached, and needs no count.
attempted(n, limit) == IF limit = Unlimited THEN n ELSE n + 1

\* Defect of limit_reached: one attempt too many.
MutOneMoreAttempt(n, limit) == limit # Unlimited /\ n > limit

limit_reached(n, limit) == limit # Unlimited /\ n >= limit

\* The checks after a call returned at a time read as t, in their order.
Stopped(t, certainty) ==
    \/ t < last_time /\ make_error("ClockContractViolation", certainty)
    \/ t >= last_time /\ stop_requested /\ make_error("Cancelled", certainty)
    \/ t >= last_time /\ ~stop_requested /\ Late(t)
         /\ make_error("DeadlineExceeded", certainty)

GoesOn(t) == t >= last_time /\ ~stop_requested /\ ~Late(t)

-----------------------------------------------------------------------------
(* The request and its identity predicates.                                *)

\* Malformed identities are rejected the same way as malformed options.
validate_reconnect_request ==
    LET transition == target.usb_fingerprint_policy = "AllowChangeWithLiveIdentity"
        malformed == InitialBackoff = 0 \/ MaximumBackoff < InitialBackoff
                       \/ DiscoveryLimit = 0 \/ OpenLimit = 0
    IN IF malformed THEN "InvalidArgument"
       ELSE IF target.preceding = "PartialOrUnknown" THEN "UnsafePreviousOutcome"
       ELSE IF transition /\ (target.previous_mode = target.required_mode
                                \/ target.preceding # "FullyTransferred")
       THEN "InvalidArgument" ELSE "none"

\* Defect of reconnect_usb_fingerprint_allowed: any live mode may show a new
\* fingerprint.
MutAnyModeMayChange(usb, verified_mode) ==
    target.usb_fingerprint_policy = "Exact" => usb = "same"

reconnect_usb_fingerprint_allowed(usb, verified_mode) ==
    IF target.usb_fingerprint_policy = "Exact" THEN usb = "same"
    ELSE /\ target.previous_mode # target.required_mode
         /\ target.preceding = "FullyTransferred"
         /\ \/ verified_mode = Absent
            \/ verified_mode = target.previous_mode /\ usb = "same"
            \/ verified_mode = target.required_mode

reconnect_identity_matches_target(d) ==
    /\ target.serial \in {Absent, d.serial}
    /\ d.product = "target"
    /\ d.mode \in {target.previous_mode, target.required_mode}
    /\ reconnect_usb_fingerprint_allowed(d.usb, d.mode)

next_backoff(current) ==
    IF current >= MaximumBackoff \/ current > MaximumBackoff - current
    THEN MaximumBackoff ELSE 2 * current

-----------------------------------------------------------------------------
(* The rounds of reconnect().                                              *)

Begin ==
    /\ pc = "validate"
    /\ \/ /\ validate_reconnect_request # "none"
          /\ make_error(validate_reconnect_request, "NotTransferred")
       \/ /\ validate_reconnect_request = "none"
          /\ pc' = "head" /\ backoff' = InitialBackoff
          /\ last_time' \in {Reading(t) : t \in Times}
          /\ UNCHANGED <<env, delay, result>>
    /\ UNCHANGED <<counts, round>>

\* The head of a round, up to the call of discover().
Scan(t) ==
    /\ GoesOn(t)
    /\ ~limit_reached(discovery_attempts, DiscoveryLimit)
    /\ pc' = "discovering" /\ last_time' = Reading(t)
    /\ discovery_attempts' = attempted(discovery_attempts, DiscoveryLimit)
    /\ open_error' = "none" /\ candidate' = NoDevice /\ opened' = NoDevice
    /\ retry_certainty' = "NotTransferred" /\ probe' = "none"
    /\ UNCHANGED <<env, backoff, delay, open_attempts, result>>

HeadFails(t) ==
    /\ \/ stop_requested /\ make_error("Cancelled", "NotTransferred")
       \/ ~stop_requested /\ t < last_time /\ make_error("ClockContractViolation", "NotTransferred")
       \/ /\ ~stop_requested /\ t >= last_time /\ Late(t)
          /\ make_error("DeadlineExceeded", IF open_error = "none" THEN "NotTransferred"
                                            ELSE open_error)
       \/ /\ GoesOn(t) /\ limit_reached(discovery_attempts, DiscoveryLimit)
          /\ make_error("AttemptLimitExceeded", "NotTransferred")
    /\ UNCHANGED <<counts, round>>

RoundHead == pc = "head" /\ \E t \in Times : Scan(t) \/ HeadFails(t)

\* A candidate at the port that passive selection refuses.
Refusal(c) ==
    IF ~reconnect_usb_fingerprint_allowed(c.usb, Absent) THEN "UsbFingerprintMismatch"
    ELSE IF target.serial # Absent /\ c.serial \notin {Absent, target.serial}
    THEN "PortOccupiedByDifferentDevice"
    ELSE IF limit_reached(open_attempts, OpenLimit) THEN "AttemptLimitExceeded" ELSE "none"

\* The scan returned devices, and one of them is at the port.  Its descriptor
\* need not show the serial.
Select(t) ==
    /\ port # NoDevice
    /\ \E shown \in {port.serial, Absent} :
         LET c == [serial |-> shown, usb |-> port.usb]
         IN \/ /\ Refusal(c) = "none"
               /\ candidate' = c /\ pc' = "selected" /\ last_time' = Reading(t)
               /\ UNCHANGED <<env, backoff, delay, result>>
            \/ /\ Refusal(c) # "none"
               /\ make_error(Refusal(c), "NotTransferred") /\ UNCHANGED candidate
    /\ UNCHANGED <<counts, opened, open_error, retry_certainty, probe>>

\* Nothing at the port, or a scan that may be repeated.
Retry(t) ==
    /\ pc' = "backoff" /\ last_time' = Reading(t)
    /\ UNCHANGED <<env, backoff, delay, counts, round, result>>

\* discover() returns: an error, too many or ambiguous or malformed devices, or a
\* scan of the port as it is now.
discover ==
    /\ pc = "discovering"
    /\ \E t \in Times :
         \/ Stopped(t, "NotTransferred") /\ UNCHANGED <<counts, round>>
         \/ GoesOn(t) /\ Retry(t)
         \/ /\ GoesOn(t)
            /\ \E code \in {"DiscoveryFailed", "DiscoveryContractViolation",
                            "AmbiguousPhysicalPort"} : make_error(code, "NotTransferred")
            /\ UNCHANGED <<counts, round>>
         \/ GoesOn(t) /\ Select(t)

BeforeOpen ==
    /\ pc = "selected"
    /\ \E t \in Times :
         \/ Stopped(t, "NotTransferred") /\ UNCHANGED counts
         \/ /\ GoesOn(t)
            /\ pc' = "opening" /\ last_time' = Reading(t)
            /\ open_attempts' = attempted(open_attempts, OpenLimit)
            /\ UNCHANGED <<env, backoff, delay, discovery_attempts, result>>
    /\ UNCHANGED round

\* open() failed with aggregate certainty c.
OpenFails(t, c) ==
    /\ open_error' = c /\ retry_certainty' = c /\ probe' = c
    /\ \/ Stopped(t, c)
       \/ GoesOn(t) /\ c # "NotTransferred" /\ make_error("OpenOutcomeUncertain", c)
       \/ /\ GoesOn(t) /\ c = "NotTransferred"
          /\ \/ make_error("OpenFailed", "NotTransferred")
             \/ /\ pc' = "backoff" /\ last_time' = Reading(t)
                /\ UNCHANGED <<env, backoff, delay, result>>
    /\ UNCHANGED <<counts, candidate, opened>>

\* Defect of Verdict: the live identity is not compared with the scan.
MutTrustTheScan(d, c, quality) ==
    IF c # "PartialOrUnknown" /\ d.product = "target" /\ d.mode = target.required_mode
    THEN "verified" ELSE "OpenContractViolation"

\* What the coordinator makes of an opened session with the live identity d.
\* quality: "good", or how the opener broke its contract.
Verdict(d, c, quality) ==
    LET changed == \/ quality = "elsewhere"
                   \/ d.usb # candidate.usb
                   \/ target.serial # Absent /\ d.serial # target.serial
                   \/ candidate.serial # Absent /\ d.serial # candidate.serial
    IN CASE c = "PartialOrUnknown" -> "OpenOutcomeUncertain"
         [] quality \in {"null_session", "invalid_identity"} -> "OpenContractViolation"
         [] changed -> "DeviceChangedDuringOpen"
         [] d.product # "target" -> "ProductMismatch"
         [] ~reconnect_usb_fingerprint_allowed(d.usb, d.mode) -> "UsbFingerprintMismatch"
         [] d.mode = target.previous_mode /\ target.previous_mode # target.required_mode -> "retry"
         [] d.mode # target.required_mode \/ ~reconnect_identity_matches_target(d)
              \/ quality = "not_ready" -> "OpenContractViolation"
         [] OTHER -> "verified"

OpenSucceeds(t, c, quality) ==
    LET verdict == Verdict(port, c, quality)
    IN /\ port # NoDevice
       /\ open_error' = "none" /\ retry_certainty' = c /\ probe' = c /\ opened' = port
       /\ \/ Stopped(t, c)
          \/ /\ GoesOn(t) /\ verdict \notin {"retry", "verified"}
             /\ make_error(verdict, c)
          \/ /\ GoesOn(t) /\ verdict \in {"retry", "verified"}
             /\ pc' = (IF verdict = "retry" THEN "backoff" ELSE "verified") /\ last_time' = Reading(t)
             /\ UNCHANGED <<env, backoff, delay, result>>
       /\ UNCHANGED <<counts, candidate>>

\* A certainty outside of the enumeration ends the call before the clock is read,
\* with the error's default; it is no outcome that could be kept.
OpenGarbled ==
    /\ open_error' \in {"none", "NotTransferred"}
    /\ make_error("OpenContractViolation", "NotTransferred")
    /\ UNCHANGED <<counts, candidate, opened, retry_certainty, probe>>

\* open() returns; the device it met need not be the one the scan saw.
open ==
    /\ pc = "opening"
    /\ \/ OpenGarbled
       \/ \E t \in Times, c \in TransferCertainty :
            \/ OpenFails(t, c)
            \/ \E quality \in {"good", "null_session", "invalid_identity", "elsewhere",
                              "not_ready"} : OpenSucceeds(t, c, quality)

\* Defect of Publish: an error there forgets that the probe was sent.
MutPublishForgets ==
    /\ pc = "verified"
    /\ \E t \in Times :
         \/ Stopped(t, "NotTransferred")
         \/ /\ GoesOn(t)
            /\ pc' = "done" /\ last_time' = Reading(t)
            /\ result' = [code |-> "none", certainty |-> retry_certainty]
            /\ UNCHANGED <<env, backoff, delay>>
    /\ UNCHANGED <<counts, round>>

\* The last checks before the session is handed out.
Publish ==
    /\ pc = "verified"
    /\ \E t \in Times :
         \/ Stopped(t, retry_certainty)
         \/ /\ GoesOn(t)
            /\ pc' = "done" /\ last_time' = Reading(t)
            /\ result' = [code |-> "none", certainty |-> retry_certainty]
            /\ UNCHANGED <<env, backoff, delay>>
    /\ UNCHANGED <<counts, round>>

\* min(backoff, remaining_time): without a deadline the rest is the largest delay.
wait_length(t) ==
    IF NoDeadline \/ backoff < limits.deadline - t THEN backoff ELSE limits.deadline - t

\* The checks before the wait, and the wait's length.
BeforeWait ==
    /\ pc = "backoff"
    /\ \E t \in Times :
         \/ stop_requested /\ make_error("Cancelled", retry_certainty)
         \/ ~stop_requested /\ t < last_time /\ make_error("ClockContractViolation", retry_certainty)
         \/ /\ ~stop_requested /\ t >= last_time /\ Late(t)
            /\ make_error("DeadlineExceeded", retry_certainty)
         \/ /\ GoesOn(t)
            /\ pc' = "waiting" /\ last_time' = Reading(t)
            /\ delay' = wait_length(t)
            /\ UNCHANGED <<env, backoff, result>>
    /\ UNCHANGED <<counts, round>>

\* Defect of WaitElapsed: an elapsed wait need not have advanced the clock.
MutClockMayStand(t) == t >= last_time

\* An elapsed wait whose clock reading counts.
WaitElapsed(t) == t > last_time

\* What the waiter may report; the steady one never fails.
wait_for == {IF stop_requested THEN "Cancelled" ELSE "Elapsed", "Failed"}

\* wait_for() returns, and if it elapsed the clock is read as t.
AfterWait ==
    /\ pc = "waiting"
    /\ \E status \in wait_for, t \in Times :
         \/ /\ status = "Cancelled" \/ stop_requested
            /\ make_error("Cancelled", retry_certainty)
         \/ /\ status = "Failed" /\ ~stop_requested
            /\ make_error("WaitFailed", retry_certainty)
         \/ /\ status = "Elapsed" /\ ~WaitElapsed(t)
            /\ make_error("ClockContractViolation", retry_certainty)
         \/ /\ status = "Elapsed" /\ WaitElapsed(t) /\ Late(t)
            /\ make_error("DeadlineExceeded", retry_certainty)
         \/ /\ status = "Elapsed" /\ WaitElapsed(t) /\ ~Late(t)
            /\ pc' = "head" /\ last_time' = Reading(t) /\ backoff' = next_backoff(backoff)
            /\ delay' = 0
            /\ UNCHANGED <<env, result>>
    /\ UNCHANGED <<counts, round>>

\* The caller's stop token.
request_stop ==
    /\ ~stop_requested /\ pc # "done"
    /\ stop_requested' = TRUE
    /\ UNCHANGED <<port, target, limits, pc, timing, counts, round, result>>

\* The device leaves, returns in another mode, or is replaced.
PortChanges ==
    /\ pc # "done"
    /\ port' \in (Devices \cup {NoDevice}) \ {port}
    /\ UNCHANGED <<stop_requested, target, limits, pc, timing, counts, round, result>>

reconnect ==
    \/ Begin \/ RoundHead \/ discover \/ BeforeOpen \/ open \/ Publish \/ BeforeWait \/ AfterWait

Returned == pc = "done" /\ UNCHANGED vars

Next == reconnect \/ request_stop \/ PortChanges \/ Returned

Spec == Init /\ [][Next]_vars

\* reconnect() runs in a thread of its own; every call it makes is given the
\* deadline and the stop token and returns by the one or at the other.
FairSpec == Spec /\ WF_vars(reconnect)

-----------------------------------------------------------------------------
(* Properties.                                                             *)

Published == pc = "done" /\ result.code = "none"

\* A published session was opened on a device with the target's product and, if
\* known, serial, in the required mode; its fingerprint is the old one unless a
\* fully transferred mode transition allows another, and no uncertain preceding
\* operation is followed by a new session, however the device at the port changed
\* between scan and open (reconnect(), verification of the opened session).
PublishedIsTarget ==
    Published =>
        /\ opened.product = "target" /\ opened.mode = target.required_mode
        /\ target.serial \in {Absent, opened.serial}
        /\ target.preceding # "PartialOrUnknown"
        /\ opened.usb = "same" \/ (/\ target.usb_fingerprint_policy # "Exact"
                                   /\ target.preceding = "FullyTransferred"
                                   /\ opened.mode # target.previous_mode)
        /\ opened.usb = candidate.usb

\* After a round whose open() may have sent bytes there is another round only if
\* the open succeeded and the live identity is the original device, unchanged, still
\* in the mode it is to leave (the retry decisions of reconnect()).
RetriesKnownDeviceOnly ==
    (pc \in {"backoff", "waiting", "head"} /\ probe \notin {"none", "NotTransferred"}) =>
        /\ probe = "FullyTransferred" /\ open_error = "none"
        /\ opened.mode = target.previous_mode /\ opened.mode # target.required_mode
        /\ opened.product = "target" /\ opened.usb = "same"
        /\ target.serial \in {Absent, opened.serial}

ReturnsAfterOpen == pc # "done" /\ pc' = "done" /\ probe' # "none"

\* Whatever ends the call after an open() and before the next scan reports that
\* attempt's certainty, with one exception: at the head of the round that follows a
\* probe of the original device in the mode it is to leave, the probe is forgotten
\* (make_error's callers in reconnect(); the exception is reconnect_coordinator.cpp:338-381).
RoundKeepsCertainty ==
    [][ReturnsAfterOpen =>
         \/ result'.certainty = probe'
         \/ /\ pc = "head" /\ probe = "FullyTransferred" /\ result'.certainty = "NotTransferred"
            /\ opened.mode = target.previous_mode /\ opened.usb = "same"]_vars

\* The same without the exception: "Errors after an open() result preserve that
\* attempt's aggregate certainty" (reconnect_coordinator.hpp:265-267).
ErrorsPreserveCertainty == [][ReturnsAfterOpen => result'.certainty = probe']_vars

\* reconnect() returns if it has a deadline, though attempts are unlimited and the
\* device never changes mode: each wait has to advance the clock.  Without one, the
\* default of the public interface, it returns once it is asked to stop, and a limit
\* on scans may end it; nothing else need (remaining_time, the checks of each round).
ReconnectEnds == (~NoDeadline \/ stop_requested) ~> (pc = "done")

=============================================================================
