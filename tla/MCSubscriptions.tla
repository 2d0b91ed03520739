---------------------------- MODULE MCSubscriptions ----------------------------
(* One account, an order of one code, one execution beside the requests; a week is two units.   *)
EXTENDS Subscriptions

CONSTANTS a1, w1, ref1
=============================================================================
