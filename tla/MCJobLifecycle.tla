--------------------------- MODULE MCJobLifecycle ---------------------------
(***************************************************************************)
(* Instances of JobLifecycle for TLC.  Campaigns, jobs and contents are    *)
(* only ever compared, so they are interchangeable; requests are not.      *)
(***************************************************************************)
EXTENDS JobLifecycle, TLC

Symmetry == Permutations(Campaigns) \cup Permutations(Jobs) \cup Permutations(Contents)
==============================================================================
