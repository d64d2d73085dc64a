------------------------------ MODULE MCMcpProxy ------------------------------
EXTENDS McpProxy

CONSTANTS s1, s2

OneSession == <<"init", "note", "req", "req">>
=============================================================================
