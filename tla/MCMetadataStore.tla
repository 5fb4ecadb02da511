--------------------------- MODULE MCMetadataStore ---------------------------
EXTENDS MetadataStore, TLC
CONSTANTS w1, w2, x, y, z, p, q

MCWorkers == {w1, w2}
Ahead(a, b, c) == (1 :> a) @@ (2 :> b) @@ (3 :> c)
\* A build, its successor with two more migrations, and one whose first
\* migration reads differently.
MCBuilds == {Ahead(x, NoDdl, NoDdl), Ahead(x, y, z), Ahead(z, NoDdl, NoDdl)}
\* A process that approves both plans, and one with a tighter policy.
MCPolicies == {{p, q}, {p}}
MCSymmetry == Permutations(MCWorkers)
=============================================================================
