------------------------ MODULE MCObservedEvictions ------------------------
(* Two pods of a namespace with an hourly limit, which somebody may edit,  *)
(* and one of a namespace without.                                         *)
EXTENDS ObservedEvictions, TLC

CONSTANTS p1, p2, p3, prod, dev

MCNamespaceOf == [p \in {p1, p2, p3} |-> IF p = p3 THEN dev ELSE prod]

PerHour(n) == [ns \in {prod, dev} |-> IF ns = prod THEN n ELSE 0]

MCHourlyLimits == {PerHour(1), PerHour(2)}
OneHourlyLimit == {PerHour(1)}

Policy(perMinute, perNamespace, backoff, dryRun) ==
  [MaxEvictionsPerMinute |-> perMinute, MaxEvictionsPerNamespace |-> perNamespace,
   BackoffDuration |-> backoff, DryRun |-> dryRun]

\* A careful policy, one without a namespace limit, and a dry run whose limit is 0.
MCPolicySpecs == {Policy(3, 1, 2, FALSE), Policy(2, 0, 1, FALSE), Policy(0, 0, 2, TRUE)}

\* p1 and p2 are interchangeable.
Symmetric == Permutations({p1, p2})
=============================================================================
