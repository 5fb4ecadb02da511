----------------------------- MODULE MCStreams ------------------------------
(* Streams with few requests, tokens and identities: see the .cfg files.    *)
EXTENDS Streams, TLC

Symmetry == Permutations(Subs) \union Permutations(Identities) \union Permutations(Tokens)
=============================================================================
