--------------------------- MODULE MCObjectCopies ---------------------------
EXTENDS ObjectCopies

CONSTANTS reconciler, dashboard
=============================================================================
