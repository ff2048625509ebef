----------------------------- MODULE MCSessions -----------------------------
(***************************************************************************)
(* A small instance of Sessions: the owner's own session and one or two of *)
(* other clients, the least with which one ends under another.             *)
(***************************************************************************)
EXTENDS Sessions, TLC
=============================================================================
