----------------------------- MODULE MCSafeUpdate -----------------------------
(* SafeUpdate on small instances for TLC: two or three uploads.            *)
EXTENDS SafeUpdate
=============================================================================
