--------------------------- MODULE MCOAuthSessions ----------------------------
(* A new account and a reconnect, both redirected to the local listener.       *)
EXTENDS OAuthSessions, TLC

CONSTANTS s1, s2, b1, b2, m, a1

MCReconnects == s1 :> None @@ s2 :> a1
===============================================================================
