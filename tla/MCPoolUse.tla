------------------------------ MODULE MCPoolUse -------------------------------
(* Three threads: two hold a job each while the third looks at the queue.  *)
EXTENDS PoolUse

CONSTANTS w1, w2, w3

MCThreeWorkers == {w1, w2, w3}
===============================================================================
