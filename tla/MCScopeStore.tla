----------------------------- MODULE MCScopeStore -----------------------------
(* ScopeStore with a root grant, a narrower child, a child that would outlive *)
(* its parent, and actions that collide in id, request, resource and budget.  *)
EXTENDS ScopeStore, TLC

root == 11
child == 12

Root == [scope_id |-> root, parent_id |-> NoId, not_before |-> 0,
         expires_at |-> 2, delegations_remaining |-> 1,
         max_charged_attempts |-> 2, max_distinct_resources |-> 1,
         resources |-> {"x", "y"}, exact_action |-> FALSE]

Child == [Root EXCEPT !.scope_id = child, !.parent_id = root,
                      !.delegations_remaining = 0, !.expires_at = 1,
                      !.max_charged_attempts = 1, !.exact_action = TRUE]

Grants == {Root, Child, [Child EXCEPT !.expires_at = 3]}

Act(id, request, scope, resource) ==
    [action_id |-> id, request_id |-> request, scope_id |-> scope,
     resource |-> resource]

(* Two attempts: the same request twice, two under the child's budget of   *)
(* one, and two resources under the root's limit of one.                   *)
Actions == {Act(1, "q1", root, "x"), Act(2, "q1", root, "x"),
            Act(1, "q2", child, "y"), Act(2, "q3", child, "y")}

(* Reviewed, not reviewed, and a review that ends before its evidence. *)
Reviewed == {[evaluated_at |-> 0, expires_at |-> 1, review_expires_at |-> 1],
             [evaluated_at |-> 0, expires_at |-> 2, review_expires_at |-> None],
             [evaluated_at |-> 0, expires_at |-> 2, review_expires_at |-> 1]}
=============================================================================
