-------------------------------- MODULE Dialer --------------------------------
(***************************************************************************)
(* What a caller of connect() relies on: the stream it passed stays what   *)
(* it was until connect() returns, and then leads to the target.  A        *)
(* failure leaves it alone.                                                *)
(***************************************************************************)
CONSTANT None

VARIABLES
    target,     \* where the URL and the options say the stream should lead
    status,     \* "dialing", "connected" or "failed"
    far         \* where the caller's stream leads; None for where it led before

vars == <<target, status, far>>

Init == status = "dialing" /\ far = None

Reach ==
    /\ status = "dialing"
    /\ status' = "connected"
    /\ far' = target
    /\ UNCHANGED target

Fail ==
    /\ status = "dialing"
    /\ status' = "failed"
    /\ UNCHANGED <<target, far>>

Next == Reach \/ Fail

Spec == Init /\ [][Next]_vars
===============================================================================
