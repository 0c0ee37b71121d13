----------------------------- MODULE MCRequestLog -----------------------------
(* Requests whose clients send the same x-request-id.                          *)
EXTENDS RequestLog

CONSTANTS r1, r2, i1, chunk

SameId   == [r \in Requests |-> i1]
OneChunk == {<<chunk>>, <<chunk, chunk>>}
===============================================================================
