------------------------------ MODULE MCMcpHub ------------------------------
\* Model values for TLC.
EXTENDS McpHub
CONSTANTS n1, k1
=============================================================================
