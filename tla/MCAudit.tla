------------------------------- MODULE MCAudit -------------------------------
(* All twelve checks; two commands may stay without an answer. *)
EXTENDS Audit
==============================================================================
