--------------------------- MODULE MCTaskScheduler --------------------------
(***************************************************************************)
(* Instances of TaskScheduler for TLC.  Tasks share nothing but the calls  *)
(* of Start and Stop, which visit them one by one.                         *)
(***************************************************************************)
EXTENDS TaskScheduler

CONSTANT t1

OneTask == {t1}
=============================================================================
