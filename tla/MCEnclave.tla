------------------------------ MODULE MCEnclave ------------------------------
(* Enclave on small instances. *)
EXTENDS Enclave, TLC

Symmetry == Permutations(Call)

Base == [allowed |-> TRUE, approval |-> "FirstUse", ttl |-> 1, one_time |-> FALSE,
         budget |-> 2, distinct |-> FALSE]

(* Allowances: a counted, a one-time and an unlimited lease, and a denial. *)
LeaseRule == {Base, [Base EXCEPT !.one_time = TRUE],
              [Base EXCEPT !.budget = None, !.ttl = 3],
              [Base EXCEPT !.allowed = FALSE]}

LeaseKey == {[op |-> "set", sub |-> NoSub]}

LeaseFloor == [o \in {"set"} |-> "Never"]

(* Reviews: unreviewed, always and distinct rules, two delegations. *)
ReviewRule == {[Base EXCEPT !.approval = "Never", !.budget = None],
               [Base EXCEPT !.approval = "Always", !.budget = None, !.distinct = TRUE],
               [Base EXCEPT !.approval = "Never", !.budget = None, !.distinct = TRUE]}

ReviewKey == {[op |-> "list", sub |-> NoSub], [op |-> "set", sub |-> "ann"]}

ReviewFloor == [o \in {"list", "set"} |-> IF o = "set" THEN "FirstUse" ELSE "Never"]
=============================================================================
