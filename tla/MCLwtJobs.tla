----------------------------- MODULE MCLwtJobs ------------------------------
(***************************************************************************)
(* TLC's instances of LwtJobs.                                             *)
(***************************************************************************)
EXTENDS LwtJobs

CONSTANTS main, w1, w2, j1, j2

\* A program that forks, and goes on in the child.
ForkSpec == Init /\ [][Next \/ Fork]_vars
=============================================================================
