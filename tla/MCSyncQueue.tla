---------------------------- MODULE MCSyncQueue ----------------------------
(* The instances of SyncQueue that TLC checks: one browser with one or two  *)
(* tabs.                                                                    *)
EXTENDS SyncQueue, TLC

CONSTANTS a, b, t1, t2, none   \* people, tabs, and nobody, as model values

Symmetry == Permutations(Tabs) \cup Permutations(Users)

=============================================================================
