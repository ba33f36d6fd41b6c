------------------------ MODULE MCLaunchSupervision ------------------------
(***************************************************************************)
(* TLC instances of LaunchSupervision.  Callers are interchangeable, and so *)
(* are tokens: every CHOOSE among them is from a set of at most one.  The   *)
(* run that checks liveness does not use the symmetry.                      *)
(***************************************************************************)
EXTENDS LaunchSupervision, TLC

Symmetry == Permutations(Caller) \cup Permutations(Token)

=============================================================================
