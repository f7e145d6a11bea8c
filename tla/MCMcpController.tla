--------------------------- MODULE MCMcpController ---------------------------
EXTENDS McpController, TLC

CONSTANTS c1, c2

CallerSymmetry == Permutations({c1, c2})

=============================================================================
