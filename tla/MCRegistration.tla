---------------------------- MODULE MCRegistration ----------------------------
(* Three directories, two commits.  The second commit revises one template of the    *)
(* calibration, whose plan then no longer implements its study; Stage A's stay.      *)
EXTENDS Registration, TLC

CONSTANTS stage, first, second, r1, r2, c1, c2

MCDirs      == {stage, first, second}
MCRegisters == [d \in MCDirs |-> IF d = stage THEN StageA ELSE Calibration]

MCStudyTemplate == [c \in {c1, c2} |-> [id \in Registrations |-> "study"]]
MCPlanTemplate  ==
  [c \in {c1, c2} |-> [id \in Registrations |->
     IF c = c2 /\ id = Calibration THEN "plan, revised" ELSE "plan"]]

MCImplements == {<<"study", "plan">>}

Symmetry == Permutations(Registrars)
===============================================================================
