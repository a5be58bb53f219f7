---------------------------- MODULE MCDispatcher ----------------------------
(***************************************************************************)
(* Instances of Dispatcher for TLC. The sets of actors are sets of model   *)
(* values given by the configurations.                                     *)
(***************************************************************************)
EXTENDS DispatcherRefinement, TLC

\* Interchangeable actors, for the runs that check safety only.
Symmetry == Permutations(Jobs) \cup Permutations(Submitters)
              \cup Permutations(Workers) \cup Permutations(Stoppers)
=============================================================================
