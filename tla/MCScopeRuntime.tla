---------------------------- MODULE MCScopeRuntime ----------------------------
(* ScopeRuntime with one scope, one provider record and two writes that may   *)
(* share a request identifier.                                                *)
EXTENDS ScopeRuntime, TLC
=============================================================================
