------------------------------- MODULE MCRouter -------------------------------
(* Small instances of Router: provider p1 has an OAuth account a1 and an       *)
(* API-key account a2 taking turns, p2 is called with its own credentials.     *)
EXTENDS Router, TLC

CONSTANTS p1, p2, a1, a2, r1, r2

MCOwner    == a1 :> p1 @@ a2 :> p1
MCRank     == a1 :> 1 @@ a2 :> 2
MCPriority == p1 :> 0 @@ p2 :> 1
MCPriority1 == p1 :> 0

\* Two requests for a model only p1 serves.
OnlyFirst == r1 :> <<{p1}>> @@ r2 :> <<{p1}>>

\* One request for a combo: a model of both, then a bare name no provider has.
Combo == r1 :> <<{p1, p2}, {}>>

NoGuess     == {}
LastGuessed == {<<r1, 2>>}

Everywhere == [r \in Requests |-> Providers]
===============================================================================
