------------------------------ MODULE MCFiling ------------------------------
(* The instance of Filing that TLC checks: yearly, half-year and monthly     *)
(* returns, two start months for the halves.                                 *)
EXTENDS Filing, TLC

CONSTANTS cooperative, apex   \* the clients, as model values

Symmetry == Permutations(Clients)

Choice(type, value, start) == [type |-> type, value |-> value, start |-> start]

MCPeriods == {Choice("YEARLY", "Y", 1), Choice("SEMI_ANNUAL", "H1", 1), Choice("SEMI_ANNUAL", "H2", 1),
              Choice("SEMI_ANNUAL", "H2", 7), Choice("MONTHLY", "01", 1), Choice("MONTHLY", FullYear, 1)}

=============================================================================
