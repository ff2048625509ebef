------------------------ MODULE MCInstanceCoordinator ------------------------
(***************************************************************************)
(* Small instances of InstanceCoordinator.  Two processes show a race, the *)
(* third meets what the race left; one crash per predecessor is what a     *)
(* restart can find.                                                       *)
(***************************************************************************)
EXTENDS InstanceCoordinator, TLC

ProcSymmetry == Permutations(Procs)
=============================================================================
