------------------------------ MODULE MCVisit ------------------------------
(* Model-checking instance of Visit: three pages, the second redirecting   *)
(* to the third, one anchor and up to two visits.                        *)
EXTENDS Visit

CONSTANTS uP, uX, uR

MCRedirect == [u \in Urls |-> IF u = uX THEN uR ELSE u]

=============================================================================
