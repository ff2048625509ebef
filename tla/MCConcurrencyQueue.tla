------------------------- MODULE MCConcurrencyQueue -------------------------
(***************************************************************************)
(* Small instances of ConcurrencyQueue.  Four calls and two slots let two  *)
(* calls wait behind two holders, which a hand-over, an overtake and a     *)
(* cancellation in the middle of the array need.                           *)
(***************************************************************************)
EXTENDS ConcurrencyQueue, TLC

CallSymmetry == Permutations(Calls)
=============================================================================
