----------------------------- MODULE MCSelfUpdate -----------------------------
EXTENDS SelfUpdate

CONSTANTS daemon, admin, nobody
=============================================================================
