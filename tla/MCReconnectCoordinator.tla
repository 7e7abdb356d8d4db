----------------------- MODULE MCReconnectCoordinator -----------------------
(* The original device in its old and its new mode, with the old and with a   *)
(* new fingerprint, and three strangers: another serial, none, and another    *)
(* product.                                                                   *)
EXTENDS ReconnectCoordinator

Device(s, p, m, u) == [serial |-> s, product |-> p, mode |-> m, usb |-> u]

MCDevices == {Device("mine", "target", "Bootloader", "same"),
              Device("mine", "target", "Bootloader", "changed"),
              Device("mine", "target", "Fastbootd", "same"),
              Device("mine", "target", "Fastbootd", "changed"),
              Device("theirs", "target", "Fastbootd", "same"),
              Device(Absent, "target", "Fastbootd", "changed"),
              Device("mine", "other", "Fastbootd", "same")}

Target(s, prev, policy, preceding) ==
    [serial |-> s, previous_mode |-> prev, required_mode |-> "Fastbootd",
     usb_fingerprint_policy |-> policy, preceding |-> preceding]

MCTargets == {Target("mine", "Bootloader", "Exact", "FullyTransferred"),
              Target(Absent, "Bootloader", "AllowChangeWithLiveIdentity", "FullyTransferred"),
              Target("mine", "Bootloader", "AllowChangeWithLiveIdentity", "FullyTransferred"),
              Target("mine", "Fastbootd", "Exact", "NotTransferred"),
              Target("mine", "Fastbootd", "AllowChangeWithLiveIdentity", "FullyTransferred"),
              Target("mine", "Bootloader", "Exact", "PartialOrUnknown")}

Limit(deadline, discoveries, opens) ==
    [deadline |-> deadline, maximum_discovery_attempts |-> discoveries,
     maximum_open_attempts |-> opens]

\* The deadline alone, each limit under it, a limit of zero, and the defaults of
\* the public interface: nothing but cancellation ends the call.
MCLimits == {Limit(4, Unlimited, Unlimited), Limit(4, Unlimited, 2), Limit(4, 2, Unlimited),
             Limit(4, 0, Unlimited), Limit(Unlimited, Unlimited, Unlimited)}
=============================================================================
