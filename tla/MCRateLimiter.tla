--------------------------- MODULE MCRateLimiter ---------------------------
(* A small instance of RateLimiter: three requests of a key with quota two *)
(* and one request of a key with quota one.                                *)
EXTENDS RateLimiter

CONSTANTS k1, k2, r1, r2, r3, r4

MCKeyOf == [r \in Requests |-> IF r = r4 THEN k2 ELSE k1]
MCRequestsPerMin == [k \in ApiKeys |-> IF k = k1 THEN 2 ELSE 1]
=============================================================================
