---------------------------- MODULE MCTokenBucket ----------------------------
(***************************************************************************)
(* An instance of TokenBucket: two tokens at the price of one and of two   *)
(* units of time.                                                          *)
(***************************************************************************)
EXTENDS TokenBucket

CONSTANTS t1, t2

MCLimits == {<<2, 2>>, <<1, 1>>}

=============================================================================
