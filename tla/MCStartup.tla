------------------------------- MODULE MCStartup -------------------------------
(* A container with its password in the environment and a second program on the  *)
(* same file, started by hand or embedding the router.                           *)
EXTENDS Startup

CONSTANTS p1, p2, c1

WaysOf(p) == IF p = p1 THEN {"env"} ELSE {"short", "terminal", "plain", "embedded"}
MCWays    == [p \in Programs |-> WaysOf(p)]

\* No file yet, a first version's, one of a version in between, and a current one.
MCFiles == {NewFile, AsOf(0), AsOf(17)}
===============================================================================
