---------------------------- MODULE MCResponseCache ---------------------------
(* Requests with one cache key.                                                *)
EXTENDS ResponseCache

CONSTANTS r1, r2, text, end

\* An answer that ends with its mark, and one whose text, or whose last event, split,
\* has it earlier.
TwoAnswers == {<<text, end>>, <<end, text>>}
===============================================================================
