---------------------------- MODULE MCReportJobs ----------------------------
(* The instances of ReportJobs that TLC checks: one report in English and   *)
(* one other language, two tasks at a time.                                 *)
EXTENDS ReportJobs, TLC

CONSTANTS en, fr, t1, t2   \* languages and task slots, as model values

Symmetry == Permutations(Tasks)

=============================================================================
