------------------------------ MODULE ScopeReview ------------------------------
(***************************************************************************)
(* The durable ledger of scope reviews: the rounds a paired reviewer signs *)
(* to issue a scope or to release one exact action                         *)
(* (crates/opaque-approval/src/scope_review/{mod,store}.rs).               *)
(*                                                                         *)
(* A subject is what the reviewer signs: a scope draft, alone or with one  *)
(* prepared action.  Signatures and digests stand for their content.  The  *)
(* authority is the reviewer's role, enrolment and policy as one epoch.    *)
(***************************************************************************)
EXTENDS Integers, FiniteSets

CONSTANTS
    RoundId,        \* round identifiers
    Subject,        \* what reviewers are asked about
    NoSubject,      \* the subject of a round that was never issued
    MaxRounds,      \* rounds kept, 10 000 in the code
    MaxPending,     \* rounds awaiting a decision, 64 in the code
    RoundSeconds,   \* lifetime of a round, 300 s in the host
    MaxEpoch,       \* bound on the authority epochs explored
    MaxTime         \* bound on the times explored

VARIABLES
    rounds,     \* the rounds table
    last_now,   \* binding.last_now: the latest time the ledger has seen
    serving     \* a host holds the writer lock

vars == <<rounds, last_now, serving>>

Never == -1

Time == 0 .. MaxTime
Epoch == 0 .. MaxEpoch
Decision == {"Approve", "Reject"}
RoundState == {"Pending", "Accepted", "Rejected", "Cancelled",
               "CancelledRestart", "Expired"}

NoRound == [state |-> "Absent", subject |-> NoSubject, authority |-> Never,
            created_at |-> Never, expires_at |-> Never,
            decision |-> "None", accepted_at |-> Never]

Kept == {r \in RoundId : rounds[r].state # "Absent"}

(* A new identifier; they are drawn in order, which is as good as any. *)
Fresh(r) == r \notin Kept /\ \A q \in RoundId : q < r => q \in Kept

-----------------------------------------------------------------------------
(* Mutant: a decided round expires as well. *)
TickedDecided(now) ==
    [r \in RoundId |->
        IF rounds[r].state \in {"Pending", "Accepted"} /\ rounds[r].expires_at <= now
        THEN [rounds[r] EXCEPT !.state = "Expired"] ELSE rounds[r]]

(* tick: a pending round whose time has come is expired for good. *)
Ticked(now) ==
    [r \in RoundId |->
        IF rounds[r].state = "Pending" /\ rounds[r].expires_at <= now
        THEN [rounds[r] EXCEPT !.state = "Expired"] ELSE rounds[r]]

(* transaction: a call behind the ledger's clock writes nothing; in any    *)
(* other the clock and the expiries stay even when its work is rolled back.*)
Seen(now) ==
    /\ serving
    /\ 0 <= now /\ last_now <= now
    /\ last_now' = now
    /\ UNCHANGED serving

(* A read, and every call whose own work is refused. *)
Lookup(now) == Seen(now) /\ rounds' = Ticked(now)

(* issue: the round never outlives the scope under review. *)
IssueRound(r, subject, authority, now) ==
    LET kept == Ticked(now)
        pending == {q \in RoundId : kept[q].state = "Pending"}
        until == IF now + RoundSeconds <= subject.scope.expires_at
                 THEN now + RoundSeconds ELSE subject.scope.expires_at
    IN  /\ Seen(now)
        /\ Fresh(r)
        /\ now < until
        /\ Cardinality(Kept) < MaxRounds
        /\ Cardinality(pending) < MaxPending
        /\ rounds' = [kept EXCEPT ![r] =
                        [NoRound EXCEPT !.state = "Pending", !.subject = subject,
                                        !.authority = authority,
                                        !.created_at = now, !.expires_at = until]]

(* submit, by decide: one decision, while the round is pending, under the  *)
(* authority it was issued for, and before its document expires.           *)
Submit(r, decision, authority, now) ==
    LET kept == Ticked(now)
    IN  /\ Seen(now)
        /\ kept[r].state = "Pending"
        /\ kept[r].authority = authority
        /\ now < kept[r].expires_at
        /\ rounds' = [kept EXCEPT
              ![r].state = IF decision = "Approve" THEN "Accepted" ELSE "Rejected",
              ![r].decision = decision, ![r].accepted_at = now]

(* cancel: withdraws a pending or an accepted round and keeps its receipt. *)
Cancel(r, authority, now) ==
    LET kept == Ticked(now)
    IN  /\ Seen(now)
        /\ kept[r].state \in {"Pending", "Accepted"}
        /\ kept[r].authority = authority
        /\ rounds' = [kept EXCEPT ![r].state = "Cancelled"]

-----------------------------------------------------------------------------
(* validate_rows: what every opening requires of every row. *)
ValidRow(r) ==
    LET row == rounds[r]
    IN  /\ row.created_at <= last_now
        /\ row.created_at < row.expires_at
        /\ row.expires_at <= row.created_at + RoundSeconds
        /\ row.expires_at <= row.subject.scope.expires_at
        /\ IF row.decision # "None"
           THEN /\ row.created_at <= row.accepted_at
                /\ row.accepted_at < row.expires_at
                /\ row.accepted_at <= last_now
                /\ row.state \in {"Accepted", "Rejected", "Cancelled"}
                /\ row.state = "Accepted" => row.decision = "Approve"
                /\ row.state = "Rejected" => row.decision = "Reject"
           ELSE row.state \notin {"Accepted", "Rejected"}

ValidRows == Cardinality(Kept) <= MaxRounds /\ \A r \in Kept : ValidRow(r)

(* The host stops or crashes. *)
CloseReviews == serving /\ serving' = FALSE /\ UNCHANGED <<rounds, last_now>>

(* open: validates every row, then no ceremony survives the restart. *)
OpenReviews(now) ==
    LET kept == Ticked(now)
    IN  /\ ~serving
        /\ 0 <= now /\ last_now <= now
        /\ ValidRows
        /\ serving' = TRUE
        /\ last_now' = now
        /\ rounds' = [r \in RoundId |->
                        IF kept[r].state = "Pending"
                        THEN [kept[r] EXCEPT !.state = "CancelledRestart"]
                        ELSE kept[r]]

(* Mutant: a signed decision counts, whichever it is. *)
RetainedDecision(r, authority, now) ==
    /\ rounds[r].decision # "None"
    /\ rounds[r].authority = authority
    /\ rounds[r].accepted_at <= now

(* retained_approval: the receipt still speaks for the current authority. *)
RetainedApproval(r, authority, now) ==
    /\ rounds[r].state = "Accepted"
    /\ rounds[r].decision = "Approve"
    /\ rounds[r].authority = authority
    /\ rounds[r].accepted_at <= now

-----------------------------------------------------------------------------
Init ==
    /\ rounds = [r \in RoundId |-> NoRound]
    /\ last_now = 0
    /\ serving = TRUE

Next ==
    \/ \E now \in Time :
          \/ Lookup(now)
          \/ OpenReviews(now)
          \/ \E r \in RoundId, authority \in Epoch :
                \/ \E subject \in Subject : IssueRound(r, subject, authority, now)
                \/ \E decision \in Decision : Submit(r, decision, authority, now)
                \/ Cancel(r, authority, now)
    \/ CloseReviews

Spec == Init /\ [][Next]_vars

(* Every history of legal calls leaves rows that the next opening accepts  *)
(* (validate_rows): receipts, states, clock and capacity agree, so a round *)
(* that expired, was cancelled or lost to a restart never carries, and     *)
(* never regains, a decision.                                              *)
RowsValid == ValidRows

(* A decision is given once and what is closed stays closed (decide,       *)
(* cancel, open): a settled round keeps its receipt, its subject and its   *)
(* authority, and may only be withdrawn.                                   *)
DecisionFinal ==
    [][\A r \in RoundId :
         LET old == rounds[r]
             new == rounds'[r]
         IN  old.state \notin {"Absent", "Pending"} =>
                /\ new = [old EXCEPT !.state = new.state]
                /\ new.state \in {old.state}
                       \cup (IF old.state = "Accepted" THEN {"Cancelled"} ELSE {})
                /\ old.state # new.state => serving]_vars
=============================================================================
