------------------------- MODULE MCEvictionProgress -------------------------
EXTENDS EvictionProgress

CONSTANTS stuck1, web1, web2, free1, stuck, web

\* The pod of the stuck budget ranks first, then two of one that recovers.
MCRank == [p \in Pods |-> CASE p = stuck1 -> 1 [] p = web1 -> 2 [] p = web2 -> 3 [] p = free1 -> 4]
MCCovers == [b \in Budgets |-> IF b = stuck THEN {stuck1} ELSE {web1, web2}]
=============================================================================
