---------------------------- MODULE MCScheduling ----------------------------
(* Scheduling for TLC: lists of two jobs.                                  *)
EXTENDS Scheduling

CONSTANTS ja, jb  \* jobs

MCJobLists == {<<ja, jb>>}
=============================================================================
