--------------------------- MODULE MCPolicyStatus ---------------------------
EXTENDS PolicyStatus

\* A balanced cluster, and plans of two evictions of which both or one succeed.
MCLoads == {[planned |-> 0, executed |-> 0], [planned |-> 2, executed |-> 2],
            [planned |-> 2, executed |-> 1]}
=============================================================================
