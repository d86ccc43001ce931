--------------------------- MODULE MCArtifactCache ---------------------------
EXTENDS ArtifactCache, TLC

CONSTANTS t1, t2, t3, k1, k2, w1, w2, w3, w4, w5, r1, r2, r3, r4

Req(graph, name, options, path) ==
  [graph |-> graph, name |-> name, options |-> options, loadPath |-> path]

\* The same graph under two names, with two options.
MCRequests == {Req("g", "a", "o1", NULL), Req("g", "b", "o1", NULL), Req("g", "a", "o2", NULL)}

\* The same graph and options, with and without a bytecode file to load.
MCOverrideRequests == {Req("g", "a", "o1", NULL), Req("g", "a", "o1", "file")}

MCOneRequest == {Req("g", "a", "o1", NULL)}

ThreadSymmetry == Permutations({t1, t2, t3})
Symmetry == Permutations({t1, t2}) \cup Permutations({k1, k2})
=============================================================================
