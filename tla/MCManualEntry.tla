--------------------------- MODULE MCManualEntry ---------------------------
(* Instances of ManualEntry for TLC.                                       *)
EXTENDS ManualEntry, TLC

CONSTANTS m1, m2, o1   \* two typings of the wizard's user, one of the others

Typings == Permutations(Typed)

=============================================================================
