---------------------------- MODULE MCVrfListener ----------------------------
(* Small instances of VrfListener for TLC. *)
EXTENDS VrfListener, TLC

CONSTANTS r1, r2

\* One request with the default delay, which may cost too much; one that can be
\* answered at once, but not always be estimated.
Delays == (r1 :> 1) @@ (r2 :> 0)
AnyFees == (r1 :> {"covered", "exceeded"}) @@ (r2 :> {"covered", "raises"})

DefaultDelay == (r1 :> 1)
Covered == (r1 :> {"covered"})
=============================================================================
