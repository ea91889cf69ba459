----------------------------- MODULE MCLimiter -----------------------------
EXTENDS Limiter, TLC

Symmetric == Permutations(Threads)
=============================================================================
