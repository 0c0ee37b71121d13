---------------------------- MODULE MCRetryEngine -----------------------------
(* A delay scale of four for a base of 500 ms, ten for a second.               *)
EXTENDS RetryEngine

MCSeconds == {0, 1, 2}
===============================================================================
