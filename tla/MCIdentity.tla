------------------------------ MODULE MCIdentity ------------------------------
(* A directory of two people: ann, who works and is removed and restored, and *)
(* bob, who administers roles, approves ann's delegations and may be deleted. *)
EXTENDS Identity, TLC

Row1(h, groups) == [subject |-> h, active |-> TRUE, deleted |-> FALSE, groups |-> groups]

MCUpdate == {{Row1("ann", {"ops"}), Row1("bob", {"admins"})},
             {[Row1("ann", {}) EXCEPT !.active = FALSE]},
             {[Row1("bob", {}) EXCEPT !.active = FALSE, !.deleted = TRUE]}}

Mapped == [g \in {"ops", "admins"} |->
             IF g = "ops" THEN {"Operator"} ELSE {"Admin", "Operator"}]

MCConfig == {[mapping |-> Mapped, admission |-> {"ann", "bob"}],
             [mapping |-> Mapped, admission |-> {"bob"}]}
=============================================================================
