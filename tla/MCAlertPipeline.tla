-------------------------- MODULE MCAlertPipeline --------------------------
(***************************************************************************)
(* Small instances of AlertPipeline.  The first showtimes and targets are  *)
(* told apart by name; every cfg picks the shape it needs.                 *)
(***************************************************************************)
EXTENDS AlertPipeline

CONSTANTS t1, t2, b1, b2, s1, s2

\* Every showtime belongs to t1: rows that share a delivery group.
AllOfT1 == [s \in Showtimes |-> t1]
\* One showtime for each of two targets.
OneEach == [s \in Showtimes |-> IF s = s1 THEN t1 ELSE t2]
\* All targets at one branch, or t2 at a branch of its own.
AllAtB1 == [t \in Targets |-> b1]
Apart == [t \in Targets |-> IF t = t1 THEN b1 ELSE b2]
\* All showtimes are of one movie and play date.
SameDay == [s \in Showtimes |-> 1]
=============================================================================
