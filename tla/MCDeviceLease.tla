---------------------------- MODULE MCDeviceLease ----------------------------
(***************************************************************************)
(* DeviceLease for TLC: two documents that share the cfg's number of       *)
(* connection attempts.  The documents are interchangeable.                *)
(***************************************************************************)
EXTENDS DeviceLease, TLC

MCSymmetry == Permutations(Tabs)
==============================================================================
