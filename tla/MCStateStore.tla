---------------------------- MODULE MCStateStore ----------------------------
(***************************************************************************)
(* Small instances of StateStore: two writers, in the API server and in a  *)
(* Celery worker.                                                          *)
(***************************************************************************)
EXTENDS StateStore, TLC

CONSTANTS w1, w2, api, celery

TwoProcesses == w1 :> api @@ w2 :> celery

=============================================================================
