------------------------------- MODULE MCJobQueue -------------------------------
(* Two processes; one, of an earlier version, has no handler for the jobs    *)
(* without dedupe key.                                                      *)
EXTENDS JobQueue, TLC

CONSTANTS w1, w2, k1

MCKnows == [w \in Workers |-> IF w = w1 THEN Keys \union {NoKey} ELSE Keys]
=============================================================================
