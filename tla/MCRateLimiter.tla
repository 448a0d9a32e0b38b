----------------------------- MODULE MCRateLimiter -----------------------------
(* The rate limiter for TLC: two callers, a bucket of two tokens.          *)
EXTENDS RateLimiter

=============================================================================
