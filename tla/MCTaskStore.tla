----------------------------- MODULE MCTaskStore -----------------------------
(* TaskStore on small instances, with a history of the expiries it was shown. *)
EXTENDS TaskStore, TLC

VARIABLE late   \* history: tasks that some call has loaded at or past their expiry

Symmetry == Permutations(Task) \cup Permutations(Slot) \cup Permutations(Request)

Loads(T, now) ==
    late' = late \cup {t \in T : Exists(t) /\ now >= records[t].expires_at}

HistoryInit == Init /\ late = {}

HistoryNext ==
    \/ \E t \in Task, now \in Time : TaskNext(t, now) /\ Loads({t}, now)
    \/ \E page \in SUBSET Task, now \in Time : ListPage(page, now) /\ Loads(page, now)
    \/ Close /\ UNCHANGED late
    \/ Open /\ UNCHANGED late

HistorySpec == HistoryInit /\ [][HistoryNext]_<<vars, late>>

(* An expiry that any call has met is final (mutate, list_page): the call  *)
(* itself may be refused and its edits rolled back, the expiry stays, so a *)
(* wall clock that steps back never makes the task claimable or its run    *)
(* active again.                                                           *)
ExpiryFinal == \A t \in late : records[t].state \notin {"Planned", "Running"}
=============================================================================
