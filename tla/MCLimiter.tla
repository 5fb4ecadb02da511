----------------------------- MODULE MCLimiter ------------------------------
(* Limiter with few identities and a short clock: see the .cfg files.       *)
EXTENDS Limiter, TLC

Symmetry == Permutations(Requests) \union Permutations(Identities)
=============================================================================
