----------------------------- MODULE MCAuditExport -----------------------------
(* One transport, and a request whose success may or may not have been granted. *)
EXTENDS AuditExport

MCEarlier == <<"required">>
MCRequest == <<{"granted", "failed", "succeeded"}, {"succeeded"}>>
=============================================================================
