----------------------------- MODULE MCServiceTools -----------------------------
(* Two diagnoses; two services that have a log directory in common, each    *)
(* with stores of its own; and settings with all, some and no stores.       *)
EXTENDS ServiceTools

CONSTANTS d1, d2, none, blank, ownCode, ownLog, ownConfig, ownHealth, code, log, config, health

Has(c, l, g, h) == [code |-> c, log |-> l, config |-> g, health |-> h]

SomeSettings == { Has(code, log, config, health), Has(none, log, none, health),
                  Has(none, none, none, none) }
\* The last is refused for its blank path.
SomeProfiles ==
  { [name |-> 1, stores |-> Has(ownCode, ownLog, none, blank)],
    [name |-> 2, stores |-> Has(none, ownLog, ownConfig, ownHealth)],
    [name |-> 2, stores |-> Has(blank, log, none, none)] }
Text(a, n, g) == [application |-> a, network |-> n, configuration |-> g]
\* A tie between two routes, and one best route with and without health checks.
SomeTexts == { Text(1, 1, 0), Text(2, 1, 0), Text(0, 1, 2) }
=============================================================================
