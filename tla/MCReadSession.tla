--------------------------- MODULE MCReadSession ----------------------------
(* ReadSession on a small pool: see the .cfg files for the constants.       *)
EXTENDS ReadSession, TLC

\* Requests, connections and tenants are interchangeable in every property.
Symmetry == Permutations(Requests) \union Permutations(Connections) \union Permutations(Tenants)
=============================================================================
