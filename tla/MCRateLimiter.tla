---------------------------- MODULE MCRateLimiter ----------------------------
(* A small instance of RateLimiter for TLC. *)
EXTENDS RateLimiter

CONSTANTS a, b, c

(* a and b have one hash and share two slots; c has its slots to itself. *)
MCHash == [p \in Ip |-> IF p = c THEN 2 ELSE 0]

=============================================================================
