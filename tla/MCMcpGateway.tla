----------------------------- MODULE MCMcpGateway -----------------------------
(* McpGateway on small instances. *)
EXTENDS McpGateway

Signed(version, expires, body) ==
    [version |-> version, issued_at |-> 0, expires_at |-> expires, body |-> body]

OneBundle == {Signed(1, 2, "a")}

(* A contract, its successor, and another body under the same version. *)
ThreeBundles == OneBundle \cup {Signed(2, 2, "b"), Signed(2, 2, "c")}
=============================================================================
