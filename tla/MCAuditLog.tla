----------------------------- MODULE MCAuditLog -----------------------------
(* A small instance of AuditLog. *)
EXTENDS AuditLog
============================================================================
