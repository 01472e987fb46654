---------------------------- MODULE MCWorkerLoop ----------------------------
(***************************************************************************)
(* Instances of WorkerLoop for TLC.                                        *)
(***************************************************************************)
EXTENDS WorkerLoop

CONSTANTS t1, w1, w2

OneTask == {t1}
OneWorker == {w1}
TwoWorkers == {w1, w2}

=============================================================================
