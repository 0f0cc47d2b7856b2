----------------------------- MODULE MCDailyCoo -----------------------------
(* Instances of DailyCoo for TLC. *)
EXTENDS DailyCoo

MCTwoDays == {1, 2}
MCTwoFigures == {1, 2}
MCThreeFigures == {1, 2, 3}
MCFourFigures == {1, 2, 3, 4}

\* A correction tells all figures apart.
MCAllShown == [f \in MCThreeFigures |-> f]
\* Figures 1 and 2 differ in nothing a correction speaks of.
MCSomeShown == [f \in MCFourFigures |-> IF f = 1 THEN 1 ELSE f - 1]
=============================================================================
