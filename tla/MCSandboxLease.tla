--------------------------- MODULE MCSandboxLease ---------------------------
(* Instances of SandboxLease for TLC. *)
EXTENDS SandboxLease

CONSTANT p1

OneProc == {p1}
=============================================================================
