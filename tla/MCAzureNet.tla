----------------------------- MODULE MCAzureNet -----------------------------
EXTENDS AzureNet

Scenario(o, m, n, k) ==
    [does |-> [p \in Procs |-> IF p = "o" THEN o ELSE IF p = "m" THEN m ELSE n],
     starts |-> k]

\* A node that fences twice and one that monitors, beside another that monitors,
\* fences as well, or switches on.
AllScenarios == {Scenario("off", "monitor", d, 2) : d \in {"monitor", "off", "on"}}
=============================================================================
