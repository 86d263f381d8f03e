---------------------------- MODULE MCWorkerThread ----------------------------
(* Instances of WorkerThread for TLC.                                      *)
EXTENDS WorkerThread
CONSTANTS e1, e2, m1, m2, w2

MCExposures == {e1, e2}
MCMoves == {m1, m2}
MCBumping == {m1}
MCOthers == {w2}
=============================================================================
