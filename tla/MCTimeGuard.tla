----------------------------- MODULE MCTimeGuard -----------------------------
(* Users with a daily limit of one or two ticks; a message carries the lock   *)
(* (zero) or a bonus.                                                         *)
EXTENDS TimeGuard, TLC

CONSTANTS u1, u2

OneUserLimit == u1 :> 2
TwoUserLimit == u1 :> 1 @@ u2 :> 1
=============================================================================
