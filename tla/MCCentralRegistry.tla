------------------------- MODULE MCCentralRegistry -------------------------
(***************************************************************************)
(* A small instance of CentralRegistry: a server with a successor of its   *)
(* name, and a server of another name.                                     *)
(***************************************************************************)
EXTENDS CentralRegistry, TLC

CONSTANTS a1, a2, b1, A, B

MCServers == {a1, a2, b1}
MCNames == {A, B}
MCNameOf == (a1 :> A) @@ (a2 :> A) @@ (b1 :> B)

Symmetry == Permutations({a1, a2})
=============================================================================
