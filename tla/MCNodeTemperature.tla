-------------------------- MODULE MCNodeTemperature --------------------------
EXTENDS NodeTemperature, TLC

CONSTANTS n1, n2

Share(cpu, memory) == [cpu |-> cpu, memory |-> memory]

Spec_(hot, cold, hysteresis, cpu, memory) ==
  [hotThreshold |-> hot, coldThreshold |-> cold, hysteresis |-> hysteresis,
   weights |-> Share(cpu, memory)]

\* Below the bands, between them and far beyond capacity, by the defaults.
MCShares == {Share(5, 6), Share(7, 7), Share(25, 25)}

\* The defaults, one that leaves everything at zero, one that weighs little.
Default == Spec_(80, 50, 5, 7, 3)
MCPolicyLists == {<<>>, <<Default, Spec_(0, 0, 0, 0, 0)>>, <<Spec_(0, 0, 0, 0, 0)>>,
                  <<Spec_(45, 20, 20, 2, 0), Default>>}
=============================================================================
