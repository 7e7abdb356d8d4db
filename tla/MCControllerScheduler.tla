----------------------- MODULE MCControllerScheduler -----------------------
EXTENDS ControllerScheduler, TLC
CONSTANTS a, b, z, usb1, usb2
Weights == (a :> 1) @@ (b :> 2) @@ (z :> 1)
Sizes(m, n) == (a :> m) @@ (b :> n) @@ (z :> 1)
OneController == (a :> usb1) @@ (b :> usb1) @@ (z :> usb1)
TwoControllers == (a :> usb1) @@ (b :> usb2) @@ (z :> usb1)
Pair == [devices |-> {a, b}, controller |-> OneController, bytes |-> Sizes(2, 3),
         legacy |-> {}, max_outstanding |-> 2, chunk |-> 2, outside |-> 0,
         may_retire |-> {}, may_cancel |-> {}, may_expire |-> {}]
MCFleets ==
    {\* Two devices of one controller, one of them cancelled.
     [Pair EXCEPT !.may_cancel = {b}],
     \* They compete with another user of the budget, and one meets its deadline.
     [Pair EXCEPT !.outside = 1, !.bytes = Sizes(1, 2), !.max_outstanding = 1,
                  !.may_expire = {a}],
     \* One device competes with it, is cancelled, retired and late.
     [Pair EXCEPT !.devices = {a}, !.outside = 1, !.may_cancel = {a}, !.may_retire = {a},
                  !.may_expire = {a}],
     \* Three devices on two controllers, dispatched by next() and finish().
     [Pair EXCEPT !.devices = {a, b, z}, !.controller = TwoControllers,
                  !.legacy = {a, b, z}, !.bytes = Sizes(2, 1), !.chunk = 1]}
=============================================================================
