----------------------------- MODULE MCAuditLog -----------------------------
(***************************************************************************)
(* A small instance of AuditLog: three kinds of event, two clock readings. *)
(***************************************************************************)
EXTENDS AuditLog

MCEvent == {CapabilityAttenuated, ToolAllowed("fs_read"), ToolDenied("fs_read", "Expired")}

=============================================================================
