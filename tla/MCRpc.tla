-------------------------------- MODULE MCRpc --------------------------------
EXTENDS DiscoveryRpc, TLC

CONSTANTS c1, c2, i1, i2, u1, u2, h1, h2

Symmetric ==
    Permutations({c1, c2}) \cup Permutations({i1, i2}) \cup Permutations({h1, h2})
=============================================================================
