---------------------------- MODULE MCCloudShuttle ----------------------------
EXTENDS CloudShuttle, TLC

CONSTANTS h1, h2

Symmetry == Permutations(Hooks)
=============================================================================
