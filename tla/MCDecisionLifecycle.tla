-------------------------- MODULE MCDecisionLifecycle --------------------------
(***************************************************************************)
(* Two NPCs for TLC: mara, decided by an external provider that defers (as *)
(* under the registered external condition), and jonas, whose local        *)
(* provider answers or throws.                                             *)
(***************************************************************************)
EXTENDS DecisionLifecycle, TLC

CONSTANTS mara, jonas

MCOrder == <<mara, jonas>>
MCStartsFirm == {jonas}
MCPlan == [n \in {mara, jonas} |-> IF n = mara THEN "external" ELSE "local"]
MCConduct == [n \in {mara, jonas} |-> IF n = mara THEN {"defers"} ELSE {"answers", "fails"}]

\* mara alone, for the runs in which messages race.
MCSolo == <<mara>>
MCSoloPlan == [n \in {mara} |-> "external"]
MCSoloConduct == [n \in {mara} |-> {"defers"}]

\* Treating means going there first, and is not interruptible.
Treat == [travels |-> TRUE, firm |-> TRUE]
MCOffer == {Wait, Treat}

Form(provider, rid, choice, scenario) ==
  [provider |-> provider, rid |-> rid, choice |-> choice, scenario |-> scenario]

\* A valid launch, a valid continuation, a wrong authority and an unoffered
\* choice, all under one response id so that any two are duplicates.
MCForms ==
  {Form("external", "r1", Treat, Here), Form("external", "r1", Continue, Here),
   Form("external", "r1", None, Here), Form("local", "r1", Wait, Here)}

\* The two values of the hard world state are interchangeable.
HardSymmetry == Permutations(Hard)

=============================================================================
