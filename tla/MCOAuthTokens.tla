---------------------------- MODULE MCOAuthTokens -----------------------------
(* Requests of one OAuth account, interchangeable but for the manual refresh.  *)
EXTENDS OAuthTokens, TLC

CONSTANTS r1, r2, m

===============================================================================
