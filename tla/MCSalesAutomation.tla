-------------------------- MODULE MCSalesAutomation --------------------------
(* Instances of SalesAutomation for TLC. *)
EXTENDS SalesAutomation

MCTwoDays     == {1, 2}
MCThreeDays   == {1, 2, 3}

\* Figures that are fine, that leave something open, that do not add up.
MCPlainFigures   == {1, 3}
MCGoodFigures    == {1, 2}
MCPartial        == {2}
MCUntrusted      == {3}
MCNone           == {}

MCAllModes  == {"due", "date", "backfill", "rebuild"}
MCDate      == {"date"}
=============================================================================
