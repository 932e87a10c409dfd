---------------------------- MODULE MCWorkerPool ----------------------------
(* Values for the constants of WorkerPool: three calls over two workers and *)
(* a channel of one, which blocks a sender whenever the workers are slow.   *)
EXTENDS WorkerPool, TLC

CONSTANTS c1, c2, c3, w1, w2

MCCalls == {c1, c2, c3}
MCWorkers == {w1, w2}
=============================================================================
