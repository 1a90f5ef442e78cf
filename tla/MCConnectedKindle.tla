-------------------------- MODULE MCConnectedKindle ---------------------------
(***************************************************************************)
(* ConnectedKindle for TLC.  The books are interchangeable.                *)
(***************************************************************************)
EXTENDS ConnectedKindle, TLC

MCSymmetry == Permutations(Books)
=============================================================================
