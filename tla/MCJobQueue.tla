------------------------------ MODULE MCJobQueue ------------------------------
EXTENDS JobQueue

CONSTANTS j1, j2, j3, j4
Jobs4 == {j1, j2, j3, j4}

(* Every accepted job is run whatever the affinity scores, and every       *)
(* worker thread ends after a shutdown at any moment.  Nothing tells one   *)
(* job from another, so what holds of j1 holds of each.                    *)
AllServed == IsRun(j1) /\ WorkersExit
=============================================================================
