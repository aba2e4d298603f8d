--------------------------- MODULE DisruptionGuard ---------------------------
(***************************************************************************)
(* What the operator's guardrails amount to, with no plan, no counters and *)
(* no memory maps: a log of disruptions and the rule in force, which may   *)
(* change at any time.  Two disruptions of a pod are spaced as the rule    *)
(* says when the second happens, and in a namespace under an hourly limit  *)
(* a disruption leaves the hour with no more than the limit's slack and    *)
(* one plan's allowance.  EvictionLoop implements it.                      *)
(***************************************************************************)
EXTENDS Integers, FiniteSets

CONSTANTS Hour, Pods, NamespaceOf,
          Rules,        \* what may be in force
          Allowance,    \* per rule: pods of one namespace in one plan
          Spacing,      \* per rule: least time between disruptions of a pod
          HourlyLimit   \* per rule and namespace: not positive is "none"

VARIABLES now, log, rule

vars == <<now, log, rule>>

LastHour(S, ns, t) == {d \in S : NamespaceOf[d.pod] = ns /\ d.at > t - Hour}

Spaced(p) == \A d \in log : d.pod = p => now - d.at >= Spacing[rule]

WithinBudget(S, ns) ==
  HourlyLimit[rule][ns] > 0 =>
    Cardinality(LastHour(S, ns, now)) <= HourlyLimit[rule][ns] - 1 + Allowance[rule]

Init == now = 0 /\ log = {} /\ rule \in Rules

\* One disruption, which the log must admit under the rule in force.
Disrupt ==
  \E d \in log' \ log :
    /\ log' = log \cup {d}
    /\ d.at = now
    /\ d.pod \in Pods
    /\ Spaced(d.pod)
    /\ WithinBudget(log', NamespaceOf[d.pod])
    /\ UNCHANGED <<now, rule>>

\* Another rule comes into force; what happened under the old one stays.
Adopt == rule' \in Rules /\ UNCHANGED <<now, log>>

Tick == now' = now + 1 /\ UNCHANGED <<log, rule>>

\* A new process knows nothing of the disruptions of the previous one.
Forget == log' = {} /\ UNCHANGED <<now, rule>>

Next == Disrupt \/ Adopt \/ Tick \/ Forget

Spec == Init /\ [][Next]_vars
=============================================================================
