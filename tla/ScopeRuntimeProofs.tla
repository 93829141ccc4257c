-------------------------- MODULE ScopeRuntimeProofs --------------------------
(***************************************************************************)
(* Proofs about the typed scope workflow and the review ledger under it,   *)
(* for any rounds, scopes, writes, limits, lifetimes and number of         *)
(* concurrent calls.                                                       *)
(*                                                                         *)
(* The review ledger comes first.  ValidRows is inductive once rows have   *)
(* their shape: a round that can still be decided carries no decision, so  *)
(* expiry, cancellation and a restart, which all keep the receipt field,   *)
(* never put a decision next to a state that may not have one.             *)
(*                                                                         *)
(* The workflow is next.  Every step of it is a step, or none, of each     *)
(* ledger.  What was released is kept on record, because receipts are      *)
(* final and grants and claims are never rewritten; a call sends only      *)
(* under its claim, and its id is never claimed again.                     *)
(***************************************************************************)
EXTENDS ScopeRuntime, FiniteSetTheorems, SequenceTheorems, TLAPS

-----------------------------------------------------------------------------
(* The review ledger. *)

Subjects == {Issuance(g) : g \in Drafts}
       \cup {ExactAction(g, act) : g \in Drafts, act \in Writes}

RoundRow == [state : Reviews!RoundState \cup {"Absent"}, subject : Subjects \cup {NoSubject},
             authority : Reviews!Epoch \cup {Reviews!Never}, created_at : Int, expires_at : Int,
             decision : Reviews!Decision \cup {"None"}, accepted_at : Int]

RoundShape ==
    /\ rounds \in [RoundId -> RoundRow]
    /\ last_now \in Int
    /\ serving \in BOOLEAN
    /\ \A r \in Reviews!Kept : rounds[r].subject \in Subjects

RoundInv == RoundShape /\ Reviews!ValidRows

(* What the limits are, and that the scopes under review are dated. *)
LEMMA LimitFacts ==
    /\ RoundId \subseteq Nat /\ IsFiniteSet(RoundId)
    /\ MaxRounds \in Nat /\ MaxPending \in Nat
    /\ RoundSeconds \in Nat /\ MaxTime \in Nat /\ MaxEpoch \in Nat
    /\ ScopeSeconds \in Nat /\ EvidenceSeconds \in Nat
    /\ \A subject \in Subjects : subject.scope \in Drafts /\ subject.scope.expires_at \in Int
<1>1. \A g \in Drafts : g.expires_at \in Int
  BY LimitAssumption DEF Drafts, Draft, Time
<1>2. \A subject \in Subjects : subject.scope \in Drafts
  BY DEF Subjects, Issuance, ExactAction
<1> QED
  BY <1>1, <1>2, LimitAssumption

(* Counting is the same in both modules. *)
LEMMA SameCardinality ==
    ASSUME NEW S PROVE Reviews!Cardinality(S) = Cardinality(S)
BY DEF Reviews!Cardinality, Cardinality

(* A row kept by a step: nothing changes but, perhaps, the end of a round  *)
(* still pending, and its receipt stays as it was.                         *)
Closed(old, new) ==
    \/ new = old
    \/ /\ old.state = "Pending"
       /\ \E s \in {"Expired", "Cancelled", "CancelledRestart"} :
             new = [old EXCEPT !.state = s]

(* tick: every row is kept or closed, and pending rows have time left. *)
LEMMA TickKeeps ==
    ASSUME RoundShape, NEW now \in Int
    PROVE  /\ Reviews!Ticked(now) \in [RoundId -> RoundRow]
           /\ \A r \in RoundId : Closed(rounds[r], Reviews!Ticked(now)[r])
           /\ \A r \in RoundId : Reviews!Ticked(now)[r].state = "Pending"
                                   => Reviews!Ticked(now)[r] = rounds[r] /\ now < rounds[r].expires_at
  <1>1. ASSUME NEW r \in RoundId
        PROVE  /\ Reviews!Ticked(now)[r] \in RoundRow
               /\ Closed(rounds[r], Reviews!Ticked(now)[r])
               /\ Reviews!Ticked(now)[r].state = "Pending"
                     => Reviews!Ticked(now)[r] = rounds[r] /\ now < rounds[r].expires_at
    <2>1. rounds[r] \in RoundRow
      BY DEF RoundShape
    <2>2. CASE rounds[r].state = "Pending" /\ rounds[r].expires_at <= now
      <3>1. Reviews!Ticked(now)[r] = [rounds[r] EXCEPT !.state = "Expired"]
        BY <2>2 DEF Reviews!Ticked
      <3> QED BY <2>1, <2>2, <3>1 DEF Closed, RoundRow, Reviews!RoundState
    <2>3. CASE ~(rounds[r].state = "Pending" /\ rounds[r].expires_at <= now)
      <3>1. Reviews!Ticked(now)[r] = rounds[r]
        BY <2>3 DEF Reviews!Ticked
      <3> QED BY <2>1, <2>3, <3>1 DEF Closed, RoundRow
    <2> QED BY <2>2, <2>3
  <1> QED BY <1>1 DEF Reviews!Ticked

(* A row kept or closed later is valid later. *)
LEMMA ClosedValid ==
    ASSUME RoundShape, RoundShape', last_now <= last_now', NEW r \in RoundId,
           rounds[r].state # "Absent" => Reviews!ValidRow(r), Closed(rounds[r], rounds'[r])
    PROVE  (rounds[r].state # "Absent" <=> rounds'[r].state # "Absent")
           /\ (rounds'[r].state # "Absent" => Reviews!ValidRow(r)')
  <1>1. rounds[r] \in RoundRow /\ rounds'[r] \in RoundRow /\ last_now \in Int /\ last_now' \in Int
    BY DEF RoundShape
  <1>2. rounds[r].state # "Absent" => rounds[r].subject.scope.expires_at \in Int
    BY LimitFacts DEF RoundShape, Reviews!Kept
  <1>3. RoundSeconds \in Nat
    BY LimitFacts
  <1>4. CASE rounds'[r] = rounds[r]
    BY <1>1, <1>2, <1>3, <1>4 DEF Reviews!ValidRow, RoundRow
  <1>5. CASE /\ rounds[r].state = "Pending"
             /\ \E s \in {"Expired", "Cancelled", "CancelledRestart"} :
                   rounds'[r] = [rounds[r] EXCEPT !.state = s]
    <2>1. PICK s \in {"Expired", "Cancelled", "CancelledRestart"} :
                   rounds'[r] = [rounds[r] EXCEPT !.state = s]
      BY <1>5
    <2>2. /\ rounds'[r].state = s /\ rounds'[r].subject = rounds[r].subject
          /\ rounds'[r].created_at = rounds[r].created_at
          /\ rounds'[r].expires_at = rounds[r].expires_at
          /\ rounds'[r].decision = rounds[r].decision
      BY <1>1, <2>1 DEF RoundRow
    <2>3. rounds[r].decision = "None"
      BY <1>5, <1>1 DEF Reviews!ValidRow, RoundRow
    <2> QED BY <1>1, <1>2, <1>3, <1>5, <2>2, <2>3 DEF Reviews!ValidRow, RoundRow
  <1> QED BY <1>4, <1>5 DEF Closed

(* Steps that keep or close every row preserve the invariant. *)
LEMMA ClosingPreserves ==
    ASSUME RoundInv, rounds' \in [RoundId -> RoundRow], last_now' \in Int, serving' \in BOOLEAN,
           last_now <= last_now', \A r \in RoundId : Closed(rounds[r], rounds'[r])
    PROVE  RoundInv'
  <1>1. ASSUME NEW r \in RoundId
        PROVE  rounds'[r].subject = rounds[r].subject
               /\ (rounds[r].state # "Absent" <=> rounds'[r].state # "Absent")
    BY <1>1 DEF Closed, RoundInv, RoundShape, RoundRow
  <1>2. Reviews!Kept' = Reviews!Kept
    BY <1>1 DEF Reviews!Kept
  <1>3. RoundShape'
    BY <1>1, <1>2 DEF RoundShape, RoundInv, Reviews!Kept
  <1>4. \A r \in Reviews!Kept' : Reviews!ValidRow(r)'
    <2> SUFFICES ASSUME NEW r \in RoundId, rounds'[r].state # "Absent" PROVE Reviews!ValidRow(r)'
      BY DEF Reviews!Kept
    <2>1. rounds[r].state # "Absent" => Reviews!ValidRow(r)
      BY DEF RoundInv, Reviews!ValidRows, Reviews!Kept
    <2>2. RoundShape
      BY DEF RoundInv
    <2> QED BY <1>3, <2>1, <2>2, ClosedValid
  <1> QED BY <1>2, <1>3, <1>4 DEF RoundInv, Reviews!ValidRows

-----------------------------------------------------------------------------
(* A call that is refused or only reads. *)
LEMMA LookupPreserves ==
    ASSUME RoundInv, NEW now \in Reviews!Time, Reviews!Lookup(now) PROVE RoundInv'
  <1>1. now \in Int /\ RoundShape
    BY LimitFacts DEF Reviews!Time, RoundInv
  <1>2. rounds' = Reviews!Ticked(now) /\ last_now' = now /\ last_now <= now /\ serving' = serving
    BY DEF Reviews!Lookup, Reviews!Seen
  <1>3. serving' \in BOOLEAN
    BY <1>1, <1>2 DEF RoundShape
  <1> QED BY <1>1, <1>2, <1>3, TickKeeps, ClosingPreserves

(* The end of the host. *)
LEMMA ClosePreserves ==
    ASSUME RoundInv, Reviews!CloseReviews PROVE RoundInv'
  <1>1. rounds' = rounds /\ last_now' = last_now /\ serving' = FALSE
    BY DEF Reviews!CloseReviews
  <1>2. rounds \in [RoundId -> RoundRow] /\ last_now \in Int
    BY DEF RoundInv, RoundShape
  <1>3. \A r \in RoundId : Closed(rounds[r], rounds'[r])
    BY <1>1 DEF Closed
  <1>4. last_now <= last_now' /\ last_now' \in Int /\ serving' \in BOOLEAN
    <2>1. last_now <= last_now
      BY <1>2
    <2>2. serving' \in BOOLEAN
      BY <1>1
    <2> QED BY <1>1, <1>2, <2>1, <2>2
  <1>5. rounds' \in [RoundId -> RoundRow]
    BY <1>1, <1>2
  <1> QED BY <1>3, <1>4, <1>5, ClosingPreserves

(* The restart: expiry first, then every round still pending is cancelled. *)
LEMMA OpenPreserves ==
    ASSUME RoundInv, NEW now \in Reviews!Time, Reviews!OpenReviews(now) PROVE RoundInv'
  <1>1. now \in Int /\ RoundShape
    BY LimitFacts DEF Reviews!Time, RoundInv
  <1>2. /\ last_now' = now /\ last_now <= now /\ serving' = TRUE
        /\ rounds' = [r \in RoundId |->
                        IF Reviews!Ticked(now)[r].state = "Pending"
                        THEN [Reviews!Ticked(now)[r] EXCEPT !.state = "CancelledRestart"]
                        ELSE Reviews!Ticked(now)[r]]
    BY DEF Reviews!OpenReviews
  <1>3. ASSUME NEW r \in RoundId
        PROVE  rounds'[r] \in RoundRow /\ Closed(rounds[r], rounds'[r])
    <2>1. /\ Reviews!Ticked(now)[r] \in RoundRow
          /\ Closed(rounds[r], Reviews!Ticked(now)[r])
          /\ Reviews!Ticked(now)[r].state = "Pending" => Reviews!Ticked(now)[r] = rounds[r]
      BY <1>1, TickKeeps
    <2>2. CASE Reviews!Ticked(now)[r].state = "Pending"
      <3>1. rounds'[r] = [rounds[r] EXCEPT !.state = "CancelledRestart"]
        BY <1>2, <2>1, <2>2
      <3> QED BY <2>1, <2>2, <3>1 DEF Closed, RoundRow, Reviews!RoundState
    <2>3. CASE Reviews!Ticked(now)[r].state # "Pending"
      <3>1. rounds'[r] = Reviews!Ticked(now)[r]
        BY <1>2, <2>3
      <3> QED BY <2>1, <3>1
    <2> QED BY <2>2, <2>3
  <1>4. rounds' \in [RoundId -> RoundRow]
    BY <1>2, <1>3
  <1> QED BY <1>1, <1>2, <1>3, <1>4, ClosingPreserves

(* A step that closes all rows but one, which it writes as a valid row. *)
LEMMA WritingPreserves ==
    ASSUME RoundInv, rounds' \in [RoundId -> RoundRow], last_now' \in Int, serving' \in BOOLEAN,
           last_now <= last_now', NEW w \in RoundId,
           \A r \in RoundId \ {w} : Closed(rounds[r], rounds'[r]),
           rounds'[w].state # "Absent", rounds'[w].subject \in Subjects, Reviews!ValidRow(w)',
           w \in Reviews!Kept \/ Reviews!Cardinality(Reviews!Kept) < MaxRounds
    PROVE  RoundInv'
  <1>1. ASSUME NEW r \in RoundId \ {w}
        PROVE  rounds'[r].subject = rounds[r].subject
               /\ (rounds[r].state # "Absent" <=> rounds'[r].state # "Absent")
    BY <1>1 DEF Closed, RoundInv, RoundShape, RoundRow
  <1>2. Reviews!Kept' = Reviews!Kept \cup {w}
    BY <1>1 DEF Reviews!Kept
  <1>3. RoundShape'
    BY <1>1, <1>2 DEF RoundShape, RoundInv, Reviews!Kept
  <1>4. \A r \in Reviews!Kept' : Reviews!ValidRow(r)'
    <2> SUFFICES ASSUME NEW r \in RoundId, r # w, rounds'[r].state # "Absent" PROVE Reviews!ValidRow(r)'
      BY DEF Reviews!Kept
    <2>1. rounds[r].state # "Absent" => Reviews!ValidRow(r)
      BY DEF RoundInv, Reviews!ValidRows, Reviews!Kept
    <2>2. RoundShape /\ Closed(rounds[r], rounds'[r])
      BY DEF RoundInv
    <2> QED BY <1>3, <2>1, <2>2, ClosedValid
  <1>5. IsFiniteSet(Reviews!Kept) /\ Reviews!Cardinality(Reviews!Kept) \in Nat /\ MaxRounds \in Nat
    <2>1. IsFiniteSet(RoundId) /\ Reviews!Kept \subseteq RoundId /\ MaxRounds \in Nat
      BY LimitFacts DEF Reviews!Kept
    <2> QED BY <2>1, FS_Subset, FS_CardinalityType, SameCardinality
  <1>6. Reviews!Cardinality(Reviews!Kept') <= MaxRounds
    <2>1. CASE w \in Reviews!Kept
      BY <1>2, <2>1 DEF RoundInv, Reviews!ValidRows
    <2>2. CASE w \notin Reviews!Kept
      <3>1. Reviews!Cardinality(Reviews!Kept \cup {w}) = Reviews!Cardinality(Reviews!Kept) + 1
        BY <1>5, <2>2, FS_AddElement, SameCardinality
      <3> QED BY <1>2, <1>5, <2>2, <3>1
    <2> QED BY <2>1, <2>2
  <1> QED BY <1>3, <1>4, <1>6 DEF RoundInv, Reviews!ValidRows

(* issue: the new row is valid and fits the capacity. *)
LEMMA IssuePreserves ==
    ASSUME RoundInv, NEW w \in RoundId, NEW subject \in Subjects,
           NEW authority \in Reviews!Epoch, NEW now \in Reviews!Time, Reviews!IssueRound(w, subject, authority, now)
    PROVE  RoundInv'
  <1> DEFINE until == IF now + RoundSeconds <= subject.scope.expires_at
                      THEN now + RoundSeconds ELSE subject.scope.expires_at
             new == [Reviews!NoRound EXCEPT !.state = "Pending", !.subject = subject,
                                    !.authority = authority,
                                    !.created_at = now, !.expires_at = until]
  <1>1. now \in Int /\ RoundShape /\ RoundSeconds \in Nat /\ subject.scope.expires_at \in Int
    BY LimitFacts DEF Reviews!Time, RoundInv
  <1>2. /\ last_now' = now /\ last_now <= now /\ serving' = serving
        /\ now < until /\ Reviews!Cardinality(Reviews!Kept) < MaxRounds
        /\ rounds' = [Reviews!Ticked(now) EXCEPT ![w] = new]
    BY DEF Reviews!IssueRound, Reviews!Seen
  <1>3. /\ new.state = "Pending" /\ new.subject = subject /\ new.created_at = now
        /\ new.expires_at = until /\ new.decision = "None" /\ new \in RoundRow
    <2>1. until \in Int
      BY <1>1
    <2> HIDE DEF until
    <2>2. Reviews!NoRound \in RoundRow /\ Reviews!NoRound.decision = "None"
      BY DEF Reviews!NoRound, RoundRow, Reviews!Never
    <2> QED BY <1>1, <2>1, <2>2 DEF RoundRow, Reviews!RoundState
  <1> HIDE DEF new
  <1>4. rounds'[w] = new /\ rounds' \in [RoundId -> RoundRow]
        /\ \A r \in RoundId \ {w} : Closed(rounds[r], rounds'[r])
    BY <1>1, <1>2, <1>3, TickKeeps
  <1>5. Reviews!ValidRow(w)'
    BY <1>1, <1>2, <1>3, <1>4 DEF Reviews!ValidRow
  <1>6. serving' \in BOOLEAN
    BY <1>1, <1>2 DEF RoundShape
  <1> QED BY <1>1, <1>2, <1>3, <1>4, <1>5, <1>6, WritingPreserves

(* submit: the receipt lands on a round that is still open. *)
LEMMA SubmitPreserves ==
    ASSUME RoundInv, NEW w \in RoundId, NEW decision \in Reviews!Decision,
           NEW authority \in Reviews!Epoch, NEW now \in Reviews!Time, Reviews!Submit(w, decision, authority, now)
    PROVE  RoundInv'
  <1> DEFINE end == IF decision = "Approve" THEN "Accepted" ELSE "Rejected"
             new == [rounds[w] EXCEPT !.state = end, !.decision = decision,
                                      !.accepted_at = now]
  <1>1. now \in Int /\ RoundShape /\ rounds[w] \in RoundRow /\ RoundSeconds \in Nat
    BY LimitFacts DEF Reviews!Time, RoundInv, RoundShape
  <1>2. /\ last_now' = now /\ last_now <= now /\ serving' = serving
        /\ Reviews!Ticked(now)[w].state = "Pending"
        /\ rounds' = [Reviews!Ticked(now) EXCEPT ![w].state = end, ![w].decision = decision,
                                         ![w].accepted_at = now]
    BY DEF Reviews!Submit, Reviews!Seen
  <1>3. /\ Reviews!Ticked(now)[w] = rounds[w] /\ now < rounds[w].expires_at
        /\ rounds[w].state = "Pending"
    BY <1>1, <1>2, TickKeeps
  <1>4. /\ new.state = end /\ new.subject = rounds[w].subject /\ new.decision = decision
        /\ new.created_at = rounds[w].created_at /\ new.expires_at = rounds[w].expires_at
        /\ new.accepted_at = now /\ new \in RoundRow
    BY <1>1 DEF RoundRow, Reviews!RoundState, Reviews!Decision
  <1>5. rounds'[w] = new /\ rounds' \in [RoundId -> RoundRow]
        /\ \A r \in RoundId \ {w} : Closed(rounds[r], rounds'[r])
    <2>1. rounds' = [Reviews!Ticked(now) EXCEPT ![w] = new]
      BY <1>2, <1>3 DEF Reviews!Ticked
    <2> HIDE DEF new
    <2> QED BY <1>1, <1>4, <2>1, TickKeeps
  <1> HIDE DEF new
  <1>6. w \in Reviews!Kept /\ Reviews!ValidRow(w) /\ rounds[w].subject \in Subjects
    BY <1>3 DEF Reviews!Kept, RoundInv, Reviews!ValidRows, RoundShape
  <1>7. rounds[w].subject.scope.expires_at \in Int /\ last_now \in Int
    BY <1>6, LimitFacts DEF RoundInv, RoundShape
  <1>8. Reviews!ValidRow(w)'
    BY <1>1, <1>2, <1>3, <1>4, <1>5, <1>6, <1>7 DEF Reviews!ValidRow, Reviews!Decision, RoundRow
  <1>9. serving' \in BOOLEAN
    BY <1>1, <1>2 DEF RoundShape
  <1> QED BY <1>1, <1>2, <1>4, <1>5, <1>6, <1>8, <1>9, WritingPreserves

(* cancel: the receipt stays with the withdrawn round. *)
LEMMA CancelPreserves ==
    ASSUME RoundInv, NEW w \in RoundId, NEW authority \in Reviews!Epoch, NEW now \in Reviews!Time,
           Reviews!Cancel(w, authority, now)
    PROVE  RoundInv'
  <1> DEFINE new == [rounds[w] EXCEPT !.state = "Cancelled"]
  <1>1. now \in Int /\ RoundShape /\ rounds[w] \in RoundRow /\ RoundSeconds \in Nat
    BY LimitFacts DEF Reviews!Time, RoundInv, RoundShape
  <1>2. /\ last_now' = now /\ last_now <= now /\ serving' = serving
        /\ Reviews!Ticked(now)[w].state \in {"Pending", "Accepted"}
        /\ rounds' = [Reviews!Ticked(now) EXCEPT ![w].state = "Cancelled"]
    BY DEF Reviews!Cancel, Reviews!Seen
  <1>3. Reviews!Ticked(now)[w] = rounds[w]
    BY <1>1, <1>2 DEF Reviews!Ticked
  <1>4. /\ new.state = "Cancelled" /\ new.subject = rounds[w].subject
        /\ new.decision = rounds[w].decision
        /\ new.created_at = rounds[w].created_at /\ new.expires_at = rounds[w].expires_at
        /\ new.accepted_at = rounds[w].accepted_at /\ new \in RoundRow
    BY <1>1 DEF RoundRow, Reviews!RoundState
  <1>5. rounds'[w] = new /\ rounds' \in [RoundId -> RoundRow]
        /\ \A r \in RoundId \ {w} : Closed(rounds[r], rounds'[r])
    BY <1>1, <1>2, <1>3, <1>4, TickKeeps
  <1> HIDE DEF new
  <1>6. w \in Reviews!Kept /\ Reviews!ValidRow(w) /\ rounds[w].subject \in Subjects
    BY <1>2, <1>3 DEF Reviews!Kept, RoundInv, Reviews!ValidRows, RoundShape
  <1>7. rounds[w].subject.scope.expires_at \in Int /\ last_now \in Int
    BY <1>6, LimitFacts DEF RoundInv, RoundShape
  <1>8. Reviews!ValidRow(w)'
    BY <1>1, <1>2, <1>3, <1>4, <1>5, <1>6, <1>7 DEF Reviews!ValidRow, RoundRow
  <1>9. serving' \in BOOLEAN
    BY <1>1, <1>2 DEF RoundShape
  <1> QED BY <1>1, <1>2, <1>4, <1>5, <1>6, <1>8, <1>9, WritingPreserves

-----------------------------------------------------------------------------
(* An empty review ledger is valid. *)
LEMMA InitInvariant ==
    ASSUME Reviews!Init PROVE RoundInv
  <1>1. Reviews!NoRound \in RoundRow /\ Reviews!NoRound.state = "Absent"
    BY DEF Reviews!NoRound, RoundRow, Reviews!Never
  <1>2. Reviews!Kept = {}
    BY <1>1 DEF Reviews!Init, Reviews!Kept
  <1>3. Reviews!Cardinality(Reviews!Kept) = 0
    BY <1>2, FS_EmptySet, SameCardinality
  <1> QED BY <1>1, <1>2, <1>3, LimitFacts DEF Reviews!Init, RoundInv, RoundShape, Reviews!ValidRows

(* Every call of the review ledger preserves the invariant. *)
LEMMA NextInvariant ==
    ASSUME RoundInv, [Reviews!Next]_(Reviews!vars) PROVE RoundInv'
  <1>1. CASE UNCHANGED Reviews!vars
    BY <1>1 DEF Reviews!vars, RoundInv, RoundShape, Reviews!ValidRows, Reviews!ValidRow, Reviews!Kept
  <1>2. ASSUME NEW now \in Reviews!Time, Reviews!Lookup(now) PROVE RoundInv'
    BY <1>2, LookupPreserves
  <1>3. ASSUME NEW now \in Reviews!Time, Reviews!OpenReviews(now) PROVE RoundInv'
    BY <1>3, OpenPreserves
  <1>4. ASSUME NEW now \in Reviews!Time, NEW r \in RoundId, NEW authority \in Reviews!Epoch,
               NEW subject \in Subjects, Reviews!IssueRound(r, subject, authority, now)
        PROVE  RoundInv'
    BY <1>4, IssuePreserves
  <1>5. ASSUME NEW now \in Reviews!Time, NEW r \in RoundId, NEW authority \in Reviews!Epoch,
               NEW decision \in Reviews!Decision, Reviews!Submit(r, decision, authority, now)
        PROVE  RoundInv'
    BY <1>5, SubmitPreserves
  <1>6. ASSUME NEW now \in Reviews!Time, NEW r \in RoundId, NEW authority \in Reviews!Epoch,
               Reviews!Cancel(r, authority, now)
        PROVE  RoundInv'
    BY <1>6, CancelPreserves
  <1>7. CASE Reviews!CloseReviews
    BY <1>7, ClosePreserves
  <1> QED BY <1>1, <1>2, <1>3, <1>4, <1>5, <1>6, <1>7 DEF Reviews!Next, Subjects

(* For all limits, subjects and lifetimes, every history of issues,        *)
(* decisions, cancellations, expiries, crashes and restarts leaves rows    *)
(* that validate_rows accepts: the review ledger can always be reopened,   *)
(* and a round that expired or was lost to a restart carries no decision.  *)
THEOREM ReviewRowsValid == Reviews!Spec => []Reviews!RowsValid
  <1>1. Reviews!Init => RoundInv
    BY InitInvariant
  <1>2. RoundInv /\ [Reviews!Next]_(Reviews!vars) => RoundInv'
    BY NextInvariant
  <1>3. RoundInv => Reviews!RowsValid
    BY DEF RoundInv, Reviews!RowsValid
  <1> QED BY <1>1, <1>2, <1>3, PTL DEF Reviews!Spec

-----------------------------------------------------------------------------
(* What DecisionFinal allows a row in one step, withdrawn in service. *)
Final(old, new) ==
    old.state \notin {"Absent", "Pending"} =>
        /\ new = [old EXCEPT !.state = new.state]
        /\ new.state \in {old.state}
               \cup (IF old.state = "Accepted" THEN {"Cancelled"} ELSE {})
        /\ old.state # new.state => serving

(* A row kept, or closed while pending, is no settled row rewritten. *)
LEMMA ClosedFinal ==
    ASSUME NEW old \in RoundRow, NEW new, Closed(old, new) PROVE Final(old, new)
  <1>1. CASE old.state = "Pending"
    BY <1>1 DEF Final
  <1>2. CASE new = old
    BY <1>2 DEF Final, RoundRow
  <1> QED BY <1>1, <1>2 DEF Closed

(* A call that writes one row, open or withdrawn, keeps the settled ones. *)
LEMMA WriteFinal ==
    ASSUME RoundShape, NEW now \in Int, NEW w \in RoundId, NEW row,
           rounds' = [Reviews!Ticked(now) EXCEPT ![w] = row],
           Final(rounds[w], row)
    PROVE  \A r \in RoundId : Final(rounds[r], rounds'[r])
  <1> SUFFICES ASSUME NEW r \in RoundId PROVE Final(rounds[r], rounds'[r])
    OBVIOUS
  <1>1. rounds[r] \in RoundRow /\ Closed(rounds[r], Reviews!Ticked(now)[r])
        /\ Reviews!Ticked(now) \in [RoundId -> RoundRow]
    BY TickKeeps DEF RoundShape
  <1>2. CASE r = w
    <2>1. rounds'[r] = row
      BY <1>1, <1>2
    <2> QED BY <1>2, <2>1
  <1>3. CASE r # w
    <2>1. rounds'[r] = Reviews!Ticked(now)[r]
      BY <1>1, <1>3
    <2> QED BY <1>1, <2>1, ClosedFinal
  <1> QED BY <1>2, <1>3

(* No call of the review ledger rewrites a settled row. *)
LEMMA StepFinal ==
    ASSUME RoundInv, [Reviews!Next]_(Reviews!vars)
    PROVE  \A r \in RoundId : Final(rounds[r], rounds'[r])
  <1>1. RoundShape /\ rounds \in [RoundId -> RoundRow] /\ Reviews!Time \subseteq Int
    BY LimitFacts DEF RoundInv, RoundShape, Reviews!Time
  <1>2. ASSUME rounds' = rounds PROVE \A r \in RoundId : Final(rounds[r], rounds'[r])
    <2>1. \A r \in RoundId : rounds[r] \in RoundRow /\ Closed(rounds[r], rounds'[r])
      BY <1>1, <1>2 DEF Closed
    <2> QED BY <2>1, ClosedFinal
  <1>3. ASSUME NEW now \in Reviews!Time, Reviews!Lookup(now)
        PROVE  \A r \in RoundId : Final(rounds[r], rounds'[r])
    <2>1. rounds' = Reviews!Ticked(now)
      BY <1>3 DEF Reviews!Lookup
    <2>2. \A r \in RoundId : rounds[r] \in RoundRow /\ Closed(rounds[r], rounds'[r])
      BY <1>1, <2>1, TickKeeps
    <2> QED BY <2>2, ClosedFinal
  <1>4. ASSUME NEW now \in Reviews!Time, Reviews!OpenReviews(now)
        PROVE  \A r \in RoundId : Final(rounds[r], rounds'[r])
    <2> SUFFICES ASSUME NEW r \in RoundId PROVE Final(rounds[r], rounds'[r])
      OBVIOUS
    <2>1. rounds[r] \in RoundRow /\ Closed(rounds[r], Reviews!Ticked(now)[r])
          /\ (Reviews!Ticked(now)[r].state = "Pending" => Reviews!Ticked(now)[r] = rounds[r])
      BY <1>1, TickKeeps
    <2>2. CASE Reviews!Ticked(now)[r].state = "Pending"
      BY <2>1, <2>2 DEF Final
    <2>3. CASE Reviews!Ticked(now)[r].state # "Pending"
      <3>1. rounds'[r] = Reviews!Ticked(now)[r]
        BY <1>4, <2>3 DEF Reviews!OpenReviews
      <3> QED BY <2>1, <3>1, ClosedFinal
    <2> QED BY <2>2, <2>3
  <1>5. ASSUME NEW now \in Reviews!Time, NEW w \in RoundId, NEW authority \in Reviews!Epoch,
               NEW subject \in Subjects, Reviews!IssueRound(w, subject, authority, now)
        PROVE  \A r \in RoundId : Final(rounds[r], rounds'[r])
    <2>1. rounds[w].state = "Absent"
      BY <1>5 DEF Reviews!IssueRound, Reviews!Fresh, Reviews!Kept
    <2>2. PICK row : rounds' = [Reviews!Ticked(now) EXCEPT ![w] = row]
      BY <1>5 DEF Reviews!IssueRound
    <2>3. Final(rounds[w], row)
      BY <2>1 DEF Final
    <2> QED BY <1>1, <2>2, <2>3, WriteFinal
  <1>6. ASSUME NEW now \in Reviews!Time, NEW w \in RoundId, NEW authority \in Reviews!Epoch,
               NEW decision \in Reviews!Decision, Reviews!Submit(w, decision, authority, now)
        PROVE  \A r \in RoundId : Final(rounds[r], rounds'[r])
    <2>1. Reviews!Ticked(now)[w].state = "Pending" /\ Reviews!Ticked(now)[w] = rounds[w]
          /\ Reviews!Ticked(now) \in [RoundId -> RoundRow]
      BY <1>1, <1>6, TickKeeps DEF Reviews!Submit
    <2>2. PICK row : rounds' = [Reviews!Ticked(now) EXCEPT ![w] = row]
      BY <1>6, <2>1 DEF Reviews!Submit
    <2>3. Final(rounds[w], row)
      BY <2>1 DEF Final
    <2> QED BY <1>1, <2>2, <2>3, WriteFinal
  <1>7. ASSUME NEW now \in Reviews!Time, NEW w \in RoundId, NEW authority \in Reviews!Epoch,
               Reviews!Cancel(w, authority, now)
        PROVE  \A r \in RoundId : Final(rounds[r], rounds'[r])
    <2>1. /\ Reviews!Ticked(now)[w].state \in {"Pending", "Accepted"} /\ serving
          /\ Reviews!Ticked(now) \in [RoundId -> RoundRow] /\ rounds[w] \in RoundRow
      BY <1>1, <1>7, TickKeeps DEF Reviews!Cancel, Reviews!Seen
    <2>2. Reviews!Ticked(now)[w] = rounds[w]
      BY <2>1 DEF Reviews!Ticked
    <2> DEFINE row == [rounds[w] EXCEPT !.state = "Cancelled"]
    <2>3. rounds' = [Reviews!Ticked(now) EXCEPT ![w] = row]
      BY <1>7, <2>1, <2>2 DEF Reviews!Cancel
    <2>4. Final(rounds[w], row)
      BY <2>1, <2>2 DEF Final, RoundRow
    <2> QED BY <1>1, <2>3, <2>4, WriteFinal
  <1>8. CASE UNCHANGED Reviews!vars
    BY <1>2, <1>8 DEF Reviews!vars
  <1>9. CASE Reviews!CloseReviews
    BY <1>2, <1>9 DEF Reviews!CloseReviews
  <1> QED BY <1>3, <1>4, <1>5, <1>6, <1>7, <1>8, <1>9 DEF Reviews!Next, Subjects

(* For all limits, subjects and lifetimes, a round is decided at most      *)
(* once: whatever is issued, submitted, cancelled, expired or restarted,   *)
(* a settled round keeps its receipt, subject and authority, and its state *)
(* changes only from Accepted to Cancelled while a host serves the ledger. *)
THEOREM DecisionsFinal == Reviews!Spec => Reviews!DecisionFinal
  <1>1. Reviews!Init => RoundInv
    BY InitInvariant
  <1>2. RoundInv /\ [Reviews!Next]_(Reviews!vars) => RoundInv'
    BY NextInvariant
  <1>3. RoundInv /\ [Reviews!Next]_(Reviews!vars) =>
          [\A r \in RoundId :
             LET old == rounds[r]
                 new == rounds'[r]
             IN  old.state \notin {"Absent", "Pending"} =>
                    /\ new = [old EXCEPT !.state = new.state]
                    /\ new.state \in {old.state}
                           \cup (IF old.state = "Accepted" THEN {"Cancelled"} ELSE {})
                    /\ old.state # new.state => serving]_(Reviews!vars)
    BY StepFinal DEF Final
  <1> QED BY <1>1, <1>2, <1>3, PTL DEF Reviews!Spec, Reviews!DecisionFinal

-----------------------------------------------------------------------------
(* The inductive invariant of the workflow. *)

Claimed(a) == actions[a].dispatch_claimed_at # Never

ScopeRow == [grant : Drafts \cup {NoId}, issued_at : Int, revoked_at : Int,
             charged_attempts : Nat, charged_resources : SUBSET Resource]

(* An issued scope is the draft of its id. *)
ScopeInv ==
    /\ scopes \in [ScopeIds -> ScopeRow]
    /\ \A s \in ScopeIds : Ledger!Issued(s) =>
          scopes[s].grant \in Drafts /\ scopes[s].grant.scope_id = s

Evidences == [evaluated_at : 0 .. MaxTime, expires_at : 0 .. MaxTime + ScopeSeconds,
              review_expires_at : -1 .. MaxTime + ScopeSeconds]

ActionRow == [action : Writes \cup {NoId}, evidence : Evidences \cup {NoId},
              state : Ledger!Pending \cup Ledger!Settled \cup {"Absent"}, reserved_at : Int,
              dispatch_claimed_at : Int, finished_at : Int]

(* A charged attempt is the write of its id, under an issued scope; no two *)
(* answer the same request of a scope.                                     *)
ActionInv ==
    /\ actions \in [ActionIds -> ActionRow]
    /\ \A a \in ActionIds :
          /\ actions[a].state \in {"Absent", "Reserved"} => ~Claimed(a)
          /\ actions[a].state # "Absent" =>
                /\ actions[a].action \in Writes /\ actions[a].action.action_id = a
                /\ Ledger!Issued(actions[a].action.scope_id)
    /\ \A a, b \in ActionIds :
          /\ actions[a].state # "Absent" /\ actions[b].state # "Absent"
          /\ actions[a].action.scope_id = actions[b].action.scope_id
          /\ actions[a].action.request_id = actions[b].action.request_id
          => a = b

LedgerInv == ScopeInv /\ ActionInv

(* What the ledger never takes back. *)
LedgerStays ==
    /\ \A s \in ScopeIds : Ledger!Issued(s) =>
          Ledger!Issued(s)' /\ scopes'[s].grant = scopes[s].grant
    /\ \A a \in ActionIds :
          /\ actions[a].state # "Absent" => actions'[a].action = actions[a].action
          /\ Claimed(a) => actions'[a].dispatch_claimed_at = actions[a].dispatch_claimed_at

(* Nor does it claim a dispatch. *)
NoClaim ==
    \A a \in ActionIds : actions'[a].dispatch_claimed_at = actions[a].dispatch_claimed_at

-----------------------------------------------------------------------------
(* Drafts, writes and identifiers. *)

(* Fields of a draft. *)
LEMMA DraftFacts ==
    ASSUME NEW g \in Drafts
    PROVE  /\ g.scope_id \in ScopeIds /\ g.parent_id = NoId
           /\ g.not_before \in Time /\ g.expires_at \in 0 .. MaxTime + ScopeSeconds
BY LimitAssumption DEF Drafts, Draft, Time

(* Drafts are made of their fields. *)
LEMMA DraftIn ==
    ASSUME NEW s \in ScopeIds, NEW now \in Time, NEW review \in BOOLEAN
    PROVE  Draft(s, now, review) \in Drafts
BY DEF Drafts

(* Fields of a write. *)
LEMMA WriteFacts ==
    ASSUME NEW w \in Writes
    PROVE  /\ w.action_id \in ActionIds /\ w.request_id \in Request /\ w.scope_id \in ScopeIds
           /\ w.resource \in Resource /\ w.version \in Version
           /\ w = Prepared(w.action_id, w.request_id, w.scope_id, w.resource, w.version)
           /\ w # NoId
<1>1. PICK a \in ActionIds, q \in Request, s \in ScopeIds, x \in Resource, v \in Version :
         w = Prepared(a, q, s, x, v)
  BY DEF Writes
<1>2. NoId \notin Writes
  BY IdAssumption
<1> QED
  BY <1>1, <1>2 DEF Prepared

(* Writes are made of their fields. *)
LEMMA WriteIn ==
    ASSUME NEW a \in ActionIds, NEW q \in Request, NEW s \in ScopeIds, NEW x \in Resource,
           NEW v \in Version
    PROVE  Prepared(a, q, s, x, v) \in Writes
BY DEF Writes

(* The ledger's identifiers are the host's. *)
LEMMA IdFacts ==
    /\ Ledger!ScopeId = ScopeIds /\ Ledger!ActionId = ActionIds
    /\ Ledger!Time = Time /\ Reviews!Time = Time
    /\ Time \subseteq Nat /\ 0 \in Time /\ 0 \in Version
<1>1. 0 \in Time /\ Time \subseteq Nat
  BY LimitAssumption DEF Time
<1>2. 0 \in Version
  <2>1. Cardinality(ActionIds) \in Nat
    BY LimitAssumption, FS_CardinalityType
  <2> QED
    BY <2>1, LimitAssumption DEF Version
<1>3. ASSUME NEW s \in ScopeIds PROVE s \in Ledger!ScopeId
  <2>1. Draft(s, 0, TRUE) \in Drafts /\ Draft(s, 0, TRUE).scope_id = s
    BY <1>1, DraftIn DEF Draft
  <2> QED
    BY <2>1 DEF Ledger!ScopeId
<1>4. Ledger!ScopeId \subseteq ScopeIds
  BY DraftFacts DEF Ledger!ScopeId
<1>5. ASSUME NEW a \in ActionIds PROVE a \in Ledger!ActionId
  <2>1. PICK q \in Request, s \in ScopeIds, x \in Resource : TRUE
    BY LimitAssumption
  <2>2. Prepared(a, q, s, x, 0) \in Writes /\ Prepared(a, q, s, x, 0).action_id = a
    BY <1>2, <2>1, WriteIn DEF Prepared
  <2> QED
    BY <2>2 DEF Ledger!ActionId
<1>6. Ledger!ActionId \subseteq ActionIds
  BY WriteFacts DEF Ledger!ActionId
<1> QED
  BY <1>1, <1>2, <1>3, <1>4, <1>5, <1>6 DEF Ledger!Time, Reviews!Time, Time

-----------------------------------------------------------------------------
(* The steps of the scope ledger, as far as the host depends on them. *)

(* Nothing is written. *)
LEMMA QuietLedger ==
    ASSUME LedgerInv, UNCHANGED <<scopes, actions>>
    PROVE  LedgerInv' /\ LedgerStays /\ NoClaim
<1>1. ScopeInv'
  BY DEF LedgerInv, ScopeInv, Ledger!Issued
<1>2. ActionInv'
  BY DEF LedgerInv, ActionInv, Claimed, Ledger!Issued
<1> QED
  BY <1>1, <1>2 DEF LedgerInv, LedgerStays, NoClaim, Ledger!Issued

(* Grants stay, scopes are written: the attempts are as before. *)
LEMMA ActionsStay ==
    ASSUME LedgerInv, UNCHANGED actions,
           \A s \in ScopeIds : Ledger!Issued(s) =>
              Ledger!Issued(s)' /\ scopes'[s].grant = scopes[s].grant
    PROVE  ActionInv' /\ LedgerStays /\ NoClaim
<1>1. ASSUME NEW a \in ActionIds, actions[a].state # "Absent"
      PROVE  Ledger!Issued(actions[a].action.scope_id)'
  <2>1. actions[a].action \in Writes /\ Ledger!Issued(actions[a].action.scope_id)
    BY <1>1 DEF LedgerInv, ActionInv
  <2>2. actions[a].action.scope_id \in ScopeIds
    BY <2>1, WriteFacts
  <2>3. Ledger!Issued(actions[a].action.scope_id)' <=> scopes'[actions[a].action.scope_id].issued_at # Ledger!None
    BY DEF Ledger!Issued, Ledger!None
  <2>4. \A s \in ScopeIds : Ledger!Issued(s)' <=> scopes'[s].issued_at # Ledger!None
    BY DEF Ledger!Issued, Ledger!None
  <2> QED
    BY <2>1, <2>2, <2>3, <2>4
<1> QED
  BY <1>1 DEF LedgerInv, ActionInv, Claimed, LedgerStays, NoClaim

(* issue_scope: the new grant is the draft of its id. *)
LEMMA IssueScopeStep ==
    ASSUME LedgerInv, NEW g \in Drafts, NEW now \in Time, Ledger!IssueScope(g, now)
    PROVE  LedgerInv' /\ LedgerStays /\ NoClaim
<1>1. g.scope_id \in ScopeIds /\ now # Ledger!None
  BY DraftFacts, IdFacts DEF Ledger!None
<1>2. scopes' = [scopes EXCEPT ![g.scope_id] = [Ledger!NoScope EXCEPT !.grant = g, !.issued_at = now]]
      /\ ~Ledger!Issued(g.scope_id) /\ UNCHANGED actions
  BY DEF Ledger!IssueScope
<1> DEFINE row == [Ledger!NoScope EXCEPT !.grant = g, !.issued_at = now]
<1>3. row.grant = g /\ row.issued_at = now /\ row \in ScopeRow
  <2>1. Ledger!NoScope \in ScopeRow
    BY DEF Ledger!NoScope, ScopeRow, Ledger!None
  <2>2. now \in Int
    BY IdFacts
  <2> QED
    BY <2>1, <2>2 DEF ScopeRow
<1> HIDE DEF row
<1>4. /\ scopes' \in [ScopeIds -> ScopeRow]
      /\ scopes'[g.scope_id] = row
      /\ \A s \in ScopeIds : s # g.scope_id => scopes'[s] = scopes[s]
  <2>1. scopes \in [ScopeIds -> ScopeRow] /\ scopes' = [scopes EXCEPT ![g.scope_id] = row]
    BY <1>2 DEF LedgerInv, ScopeInv, row
  <2> QED
    BY <1>1, <1>3, <2>1
<1>5. \A s \in ScopeIds : Ledger!Issued(s) =>
         Ledger!Issued(s)' /\ scopes'[s].grant = scopes[s].grant
  BY <1>2, <1>4 DEF Ledger!Issued
<1>6. ScopeInv'
  BY <1>1, <1>3, <1>4 DEF LedgerInv, ScopeInv, Ledger!Issued
<1> QED
  BY <1>2, <1>5, <1>6, ActionsStay DEF LedgerInv

(* revoke: only the time of revocation is written. *)
LEMMA RevokeStep ==
    ASSUME LedgerInv, NEW s \in ScopeIds, NEW now \in Time, Ledger!Revoke(s, now)
    PROVE  LedgerInv' /\ LedgerStays /\ NoClaim
<1>1. scopes' = [scopes EXCEPT ![s].revoked_at = now] /\ UNCHANGED actions
  BY DEF Ledger!Revoke
<1>2. scopes \in [ScopeIds -> ScopeRow] /\ now \in Int
  BY IdFacts DEF LedgerInv, ScopeInv
<1> DEFINE row == [scopes[s] EXCEPT !.revoked_at = now]
<1>3. row.grant = scopes[s].grant /\ row.issued_at = scopes[s].issued_at /\ row \in ScopeRow
  <2>1. scopes[s] \in ScopeRow
    BY <1>2
  <2> QED
    BY <1>2, <2>1 DEF ScopeRow
<1>4. /\ scopes' \in [ScopeIds -> ScopeRow]
      /\ \A p \in ScopeIds : /\ scopes'[p].grant = scopes[p].grant
                              /\ scopes'[p].issued_at = scopes[p].issued_at
  <2>1. scopes' = [scopes EXCEPT ![s] = row]
    BY <1>1
  <2> HIDE DEF row
  <2> QED
    BY <1>2, <1>3, <2>1
<1>5. \A p \in ScopeIds : Ledger!Issued(p)' <=> Ledger!Issued(p)
  BY <1>4 DEF Ledger!Issued, Ledger!None
<1>6. ScopeInv'
  BY <1>4, <1>5 DEF LedgerInv, ScopeInv
<1> QED
  BY <1>1, <1>4, <1>5, <1>6, ActionsStay DEF LedgerInv

(* Attempts move on: nothing is charged, what is claimed stays claimed. *)
LEMMA ActionsMove ==
    ASSUME LedgerInv, UNCHANGED scopes, actions' \in [ActionIds -> ActionRow],
           \A a \in ActionIds :
              /\ actions'[a].action = actions[a].action
              /\ actions'[a].state = "Absent" <=> actions[a].state = "Absent"
              /\ actions'[a].state \in {"Absent", "Reserved"} =>
                    actions'[a].dispatch_claimed_at = Never
              /\ Claimed(a) => actions'[a].dispatch_claimed_at = actions[a].dispatch_claimed_at
    PROVE  LedgerInv' /\ LedgerStays
<1>1. ScopeInv'
  BY DEF LedgerInv, ScopeInv, Ledger!Issued
<1>2. ActionInv'
  <2>1. ASSUME NEW a \in ActionIds
        PROVE  /\ actions'[a].state \in {"Absent", "Reserved"} => ~Claimed(a)'
               /\ actions'[a].state # "Absent" =>
                     /\ actions'[a].action \in Writes /\ actions'[a].action.action_id = a
                     /\ Ledger!Issued(actions[a].action.scope_id)'
    BY DEF LedgerInv, ActionInv, Claimed, Ledger!Issued, Never, Ledger!None
  <2>2. ASSUME NEW a \in ActionIds, NEW b \in ActionIds,
               actions'[a].state # "Absent", actions'[b].state # "Absent",
               actions'[a].action.scope_id = actions'[b].action.scope_id,
               actions'[a].action.request_id = actions'[b].action.request_id
        PROVE  a = b
    BY <2>2 DEF LedgerInv, ActionInv
  <2> QED
    BY <2>1, <2>2 DEF ActionInv
<1> QED
  BY <1>1, <1>2 DEF LedgerInv, LedgerStays, Ledger!Issued

(* claim_dispatch: stamps one reserved attempt, and no other. *)
LEMMA ClaimStep ==
    ASSUME LedgerInv, NEW a \in ActionIds, NEW now \in Time, Ledger!ClaimDispatch(a, now)
    PROVE  /\ LedgerInv' /\ LedgerStays
           /\ actions[a].state = "Reserved" /\ actions'[a].dispatch_claimed_at = now
           /\ actions'[a].action = actions[a].action /\ now # Never
           /\ \A b \in ActionIds : b # a => actions'[b] = actions[b]
<1>1. /\ actions' = [actions EXCEPT ![a].state = "DispatchClaimed", ![a].dispatch_claimed_at = now]
      /\ UNCHANGED scopes /\ actions[a].state = "Reserved"
  BY DEF Ledger!ClaimDispatch
<1>2. actions \in [ActionIds -> ActionRow] /\ now \in Int /\ now # Never
  BY IdFacts DEF LedgerInv, ActionInv, Never
<1>3. /\ actions'[a] = [actions[a] EXCEPT !.state = "DispatchClaimed", !.dispatch_claimed_at = now]
      /\ \A b \in ActionIds : b # a => actions'[b] = actions[b]
      /\ actions' = [b \in ActionIds |-> actions'[b]]
  BY <1>1, <1>2
<1>4. /\ actions'[a].action = actions[a].action /\ actions'[a].state = "DispatchClaimed"
      /\ actions'[a].dispatch_claimed_at = now /\ actions'[a] \in ActionRow
  BY <1>2, <1>3 DEF ActionRow, Ledger!Pending
<1>5. actions' \in [ActionIds -> ActionRow]
  BY <1>2, <1>3, <1>4
<1>6. ~Claimed(a) /\ \A b \in ActionIds : actions[b].state \in {"Absent", "Reserved"} => ~Claimed(b)
  BY <1>1 DEF LedgerInv, ActionInv
<1>7. LedgerInv' /\ LedgerStays
  <2>1. ASSUME NEW b \in ActionIds
        PROVE  /\ actions'[b].action = actions[b].action
               /\ actions'[b].state = "Absent" <=> actions[b].state = "Absent"
               /\ actions'[b].state \in {"Absent", "Reserved"} =>
                     actions'[b].dispatch_claimed_at = Never
               /\ Claimed(b) => actions'[b].dispatch_claimed_at = actions[b].dispatch_claimed_at
    <3>1. CASE b = a
      BY <1>1, <1>4, <1>6, <3>1
    <3>2. CASE b # a
      BY <1>3, <1>6, <3>2 DEF Claimed
    <3> QED
      BY <3>1, <3>2
  <2> QED
    BY <1>1, <1>5, <2>1, ActionsMove
<1> QED
  BY <1>1, <1>2, <1>3, <1>4, <1>7

(* finish: the claim of a settled attempt is kept. *)
LEMMA FinishStep ==
    ASSUME LedgerInv, NEW a \in ActionIds, NEW now \in Time, NEW outcome \in Ledger!Settled,
           Ledger!Finish(a, outcome, now)
    PROVE  LedgerInv' /\ LedgerStays /\ NoClaim
<1>1. /\ actions' = [actions EXCEPT ![a].state = outcome, ![a].finished_at = now]
      /\ UNCHANGED scopes /\ actions[a].state \in Ledger!Pending
  BY DEF Ledger!Finish
<1>2. actions \in [ActionIds -> ActionRow] /\ now \in Int
  BY IdFacts DEF LedgerInv, ActionInv
<1>3. /\ actions'[a] = [actions[a] EXCEPT !.state = outcome, !.finished_at = now]
      /\ \A b \in ActionIds : b # a => actions'[b] = actions[b]
      /\ actions' = [b \in ActionIds |-> actions'[b]]
  BY <1>1, <1>2
<1>4. /\ actions'[a].action = actions[a].action /\ actions'[a].state = outcome
      /\ actions'[a].dispatch_claimed_at = actions[a].dispatch_claimed_at /\ actions'[a] \in ActionRow
  BY <1>2, <1>3 DEF ActionRow
<1>5. actions' \in [ActionIds -> ActionRow]
  BY <1>2, <1>3, <1>4
<1>6. /\ \A b \in ActionIds : actions[b].state \in {"Absent", "Reserved"} => ~Claimed(b)
      /\ outcome \notin {"Absent", "Reserved"} /\ actions[a].state # "Absent"
  BY <1>1 DEF LedgerInv, ActionInv, Ledger!Settled, Ledger!Pending
<1>7. ASSUME NEW b \in ActionIds
      PROVE  /\ actions'[b].action = actions[b].action
             /\ actions'[b].state = "Absent" <=> actions[b].state = "Absent"
             /\ actions'[b].state \in {"Absent", "Reserved"} =>
                   actions'[b].dispatch_claimed_at = Never
             /\ actions'[b].dispatch_claimed_at = actions[b].dispatch_claimed_at
  <2>1. CASE b = a
    BY <1>4, <1>6, <2>1
  <2>2. CASE b # a
    BY <1>3, <1>6, <2>2 DEF Claimed
  <2> QED
    BY <2>1, <2>2
<1> QED
  BY <1>1, <1>5, <1>7, ActionsMove DEF NoClaim

(* The restart, whether or not the ledger validates. *)
LEMMA OpenLedgerStep ==
    ASSUME LedgerInv, Ledger!Open
    PROVE  LedgerInv' /\ LedgerStays /\ NoClaim
<1> DEFINE cut == {a \in ActionIds : actions[a].state \in Ledger!Pending}
<1>1. /\ UNCHANGED scopes
      /\ \/ UNCHANGED actions
         \/ actions' = [a \in ActionIds |-> IF a \in cut THEN [actions[a] EXCEPT !.state = "Unknown"]
                                            ELSE actions[a]]
  <2>1. UNCHANGED scopes
    BY DEF Ledger!Open
  <2> QED
    BY <2>1, IdFacts DEF Ledger!Open
<1>2. CASE UNCHANGED actions
  BY <1>1, <1>2, QuietLedger
<1>3. CASE actions' = [a \in ActionIds |-> IF a \in cut THEN [actions[a] EXCEPT !.state = "Unknown"]
                                           ELSE actions[a]]
  <2>1. actions \in [ActionIds -> ActionRow]
    BY DEF LedgerInv, ActionInv
  <2>2. ASSUME NEW b \in ActionIds
        PROVE  /\ actions'[b] \in ActionRow
               /\ actions'[b].action = actions[b].action
               /\ actions'[b].state = "Absent" <=> actions[b].state = "Absent"
               /\ actions'[b].state \in {"Absent", "Reserved"} =>
                     actions'[b].dispatch_claimed_at = Never
               /\ actions'[b].dispatch_claimed_at = actions[b].dispatch_claimed_at
    <3>1. CASE b \in cut
      <4>1. actions'[b] = [actions[b] EXCEPT !.state = "Unknown"] /\ actions[b] \in ActionRow
            /\ actions[b].state \in Ledger!Pending
        BY <1>3, <2>1, <3>1
      <4> QED
        BY <4>1 DEF ActionRow, Ledger!Pending, Ledger!Settled
    <3>2. CASE b \notin cut
      <4>1. actions'[b] = actions[b] /\ actions[b] \in ActionRow
        BY <1>3, <2>1, <3>2
      <4>2. actions[b].state \in {"Absent", "Reserved"} => ~Claimed(b)
        BY DEF LedgerInv, ActionInv
      <4> QED
        BY <4>1, <4>2 DEF Claimed
    <3> QED
      BY <3>1, <3>2
  <2>3. actions' \in [ActionIds -> ActionRow]
    BY <1>3, <2>2
  <2> QED
    BY <1>1, <2>2, <2>3, ActionsMove DEF NoClaim
<1> QED
  BY <1>1, <1>2, <1>3

(* reserve: one fresh attempt, not yet claimed; the grants are kept. *)
LEMMA ReserveStep ==
    ASSUME LedgerInv, NEW act \in Writes, NEW ev \in Evidences, NEW now \in Time,
           Ledger!Reserve(act, ev, now)
    PROVE  LedgerInv' /\ LedgerStays /\ NoClaim
<1> DEFINE row == [Ledger!NoAction EXCEPT !.action = act, !.evidence = ev,
                                          !.state = "Reserved", !.reserved_at = now]
           a == act.action_id
<1>1. /\ scopes' = [p \in ScopeIds |->
                      IF p \in Ledger!Chain(act.scope_id)
                      THEN [scopes[p] EXCEPT !.charged_attempts = @ + 1,
                                             !.charged_resources = @ \cup {act.resource}]
                      ELSE scopes[p]]
      /\ actions' = [actions EXCEPT ![a] = row]
      /\ Ledger!FreshRequest(act) /\ Ledger!Issued(act.scope_id)
  BY IdFacts DEF Ledger!Reserve
<1>2. a \in ActionIds /\ act.scope_id \in ScopeIds /\ now \in Int
  BY WriteFacts, IdFacts
<1>3. /\ row.action = act /\ row.state = "Reserved" /\ row.dispatch_claimed_at = Never /\ row \in ActionRow
  <2>1. Ledger!NoAction \in ActionRow /\ Ledger!NoAction.dispatch_claimed_at = Never
    BY DEF Ledger!NoAction, Ledger!None, Never, ActionRow
  <2>2. "Reserved" \in Ledger!Pending
    BY DEF Ledger!Pending
  <2> QED
    BY <1>2, <2>1, <2>2 DEF ActionRow
<1> HIDE DEF row
<1>4. ASSUME NEW p \in ScopeIds
      PROVE  /\ scopes'[p].grant = scopes[p].grant
             /\ scopes'[p].issued_at = scopes[p].issued_at
             /\ scopes'[p] \in ScopeRow
  <2>1. scopes[p] \in ScopeRow /\ act.resource \in Resource
    BY WriteFacts DEF LedgerInv, ScopeInv
  <2>2. CASE p \in Ledger!Chain(act.scope_id)
    <3>1. scopes'[p] = [scopes[p] EXCEPT !.charged_attempts = @ + 1,
                                         !.charged_resources = @ \cup {act.resource}]
      BY <1>1, <2>2
    <3>2. PICK n : n = scopes[p].charged_attempts + 1
      OBVIOUS
    <3>3. PICK used : used = scopes[p].charged_resources \cup {act.resource}
      OBVIOUS
    <3>4. n \in Nat /\ used \in SUBSET Resource
      <4>1. scopes[p].charged_attempts \in Nat /\ scopes[p].charged_resources \in SUBSET Resource
        BY <2>1 DEF ScopeRow
      <4> QED
        BY <2>1, <3>2, <3>3, <4>1
    <3>5. scopes'[p] = [scopes[p] EXCEPT !.charged_attempts = n, !.charged_resources = used]
      BY <3>1, <3>2, <3>3
    <3> QED
      BY <2>1, <3>4, <3>5 DEF ScopeRow
  <2>3. CASE p \notin Ledger!Chain(act.scope_id)
    BY <1>1, <2>1, <2>3
  <2> QED
    BY <2>2, <2>3
<1>5. \A p \in ScopeIds : Ledger!Issued(p)' <=> Ledger!Issued(p)
  BY <1>4 DEF Ledger!Issued, Ledger!None
<1>6. ScopeInv'
  <2>1. scopes' \in [ScopeIds -> ScopeRow]
    BY <1>1, <1>4
  <2> QED
    BY <1>4, <1>5, <2>1 DEF LedgerInv, ScopeInv
<1>7. /\ actions \in [ActionIds -> ActionRow] /\ actions[a].state = "Absent" /\ ~Claimed(a)
      /\ \A b \in ActionIds : actions[b].state # "Absent" =>
            ~(actions[b].action.scope_id = act.scope_id /\ actions[b].action.request_id = act.request_id)
  <2>1. actions \in [ActionIds -> ActionRow]
    BY DEF LedgerInv, ActionInv
  <2>2. actions[a].state = "Absent"
    BY <1>1 DEF Ledger!FreshRequest, Ledger!Charged
  <2>3. \A b \in ActionIds : actions[b].state # "Absent" =>
            ~(actions[b].action.scope_id = act.scope_id /\ actions[b].action.request_id = act.request_id)
    BY <1>1, IdFacts DEF Ledger!FreshRequest, Ledger!Charged, Ledger!ScopeOf
  <2> QED
    BY <1>2, <2>1, <2>2, <2>3 DEF LedgerInv, ActionInv
<1>8. /\ actions' \in [ActionIds -> ActionRow] /\ actions'[a] = row
      /\ \A b \in ActionIds : b # a => actions'[b] = actions[b]
  BY <1>1, <1>2, <1>3, <1>7
<1>9. ActionInv'
  <2>1. ASSUME NEW b \in ActionIds
        PROVE  /\ actions'[b].state \in {"Absent", "Reserved"} => ~Claimed(b)'
               /\ actions'[b].state # "Absent" =>
                     /\ actions'[b].action \in Writes /\ actions'[b].action.action_id = b
                     /\ Ledger!Issued(actions[b].action.scope_id)'
    <3>1. CASE b = a
      <4>1. scopes'[act.scope_id].issued_at # Ledger!None
        BY <1>1, <1>2, <1>4 DEF Ledger!Issued
      <4> QED
        BY <1>3, <1>8, <3>1, <4>1 DEF Claimed, Ledger!Issued
    <3>2. CASE b # a
      <4>1. actions'[b] = actions[b]
        BY <1>8, <3>2
      <4>2. /\ actions[b].state \in {"Absent", "Reserved"} => ~Claimed(b)
            /\ actions[b].state # "Absent" =>
                  /\ actions[b].action \in Writes /\ actions[b].action.action_id = b
                  /\ Ledger!Issued(actions[b].action.scope_id)
        BY DEF LedgerInv, ActionInv
      <4>3. actions[b].state # "Absent" => actions[b].action.scope_id \in ScopeIds
        BY <4>2, WriteFacts
      <4> QED
        BY <1>4, <4>1, <4>2, <4>3 DEF Claimed, Ledger!Issued, Ledger!None
    <3> QED
      BY <3>1, <3>2
  <2>2. ASSUME NEW b \in ActionIds, NEW c \in ActionIds,
               actions'[b].state # "Absent", actions'[c].state # "Absent",
               actions'[b].action.scope_id = actions'[c].action.scope_id,
               actions'[b].action.request_id = actions'[c].action.request_id
        PROVE  b = c
    <3>1. CASE b # a /\ c # a
      BY <1>8, <2>2, <3>1 DEF LedgerInv, ActionInv
    <3>2. CASE b = a \/ c = a
      BY <1>3, <1>7, <1>8, <2>2, <3>2
    <3> QED
      BY <3>1, <3>2
  <2> QED
    BY <1>8, <2>1, <2>2 DEF ActionInv
<1>10. NoClaim
  BY <1>3, <1>7, <1>8 DEF NoClaim, Claimed
<1>11. \A b \in ActionIds : actions[b].state # "Absent" => actions'[b].action = actions[b].action
  BY <1>7, <1>8
<1> QED
  BY <1>4, <1>5, <1>6, <1>9, <1>10, <1>11 DEF LedgerInv, LedgerStays, NoClaim

(* Every call of the ledger. *)
LEMMA LedgerStep ==
    ASSUME LedgerInv, [Ledger!Next]_(Ledger!vars)
    PROVE  LedgerInv' /\ LedgerStays
<1>1. CASE UNCHANGED <<scopes, actions>>
  BY <1>1, QuietLedger
<1>2. ASSUME NEW now \in Time, NEW g \in Drafts, Ledger!IssueScope(g, now)
      PROVE  LedgerInv' /\ LedgerStays
  BY <1>2, IssueScopeStep
<1>3. ASSUME NEW now \in Time, NEW act \in Writes, NEW ev \in Evidences, Ledger!Reserve(act, ev, now)
      PROVE  LedgerInv' /\ LedgerStays
  BY <1>3, ReserveStep
<1>4. ASSUME NEW now \in Time, NEW a \in ActionIds, Ledger!ClaimDispatch(a, now)
      PROVE  LedgerInv' /\ LedgerStays
  BY <1>4, ClaimStep
<1>5. ASSUME NEW now \in Time, NEW a \in ActionIds, NEW outcome \in Ledger!Settled,
             Ledger!Finish(a, outcome, now)
      PROVE  LedgerInv' /\ LedgerStays
  BY <1>5, FinishStep
<1>6. ASSUME NEW now \in Time, NEW s \in ScopeIds, Ledger!Revoke(s, now)
      PROVE  LedgerInv' /\ LedgerStays
  BY <1>6, RevokeStep
<1>7. CASE Ledger!Open
  BY <1>7, OpenLedgerStep
<1>8. CASE UNCHANGED Ledger!vars
  BY <1>1, <1>8 DEF Ledger!vars
<1>9. ASSUME NEW now \in Time, Ledger!Refused(now) PROVE UNCHANGED <<scopes, actions>>
  BY <1>9 DEF Ledger!Refused
<1>10. CASE Ledger!Close
  BY <1>1, <1>10 DEF Ledger!Close
<1> QED
  BY <1>1, <1>2, <1>3, <1>4, <1>5, <1>6, <1>7, <1>8, <1>9, <1>10, IdFacts DEF Ledger!Next, Evidences

-----------------------------------------------------------------------------
(* The host. *)

ApprovedBy(subject, under) ==
    {r \in Reviews!Kept : /\ rounds[r].subject = subject
                          /\ rounds[r].decision = "Approve"
                          /\ rounds[r].authority = under}

(* The write is claimed, and people released it under this authority. *)
Approved(act, under) ==
    LET g == scopes[act.scope_id].grant
    IN  /\ act \in Writes /\ act = actions[act.action_id].action /\ Claimed(act.action_id)
        /\ ApprovedBy(Issuance(g), under) # {}
        /\ exact => \E r \in ApprovedBy(ExactAction(g, act), under) :
                       actions[act.action_id].dispatch_claimed_at < rounds[r].expires_at

Phase == {"New", "Reading", "Prepared", "Proposed", "Sending", "Answered", "Gone"}

(* A call works on the write of its id; it sends only a released one. *)
CallInv ==
    /\ calls \in [ActionIds -> [phase : Phase, action : Writes \cup {NoId},
                                outcome : Ledger!Settled \cup {"None"}, under : Int]]
    /\ \A a \in ActionIds :
          /\ calls[a].phase \notin {"New", "Gone"} =>
                calls[a].action \in Writes /\ calls[a].action.action_id = a
          /\ calls[a].phase \in {"Sending", "Answered"} => Approved(calls[a].action, calls[a].under)
          /\ calls[a].phase = "Answered" => calls[a].outcome \in Ledger!Settled

SentIds == {sends[i].action.action_id : i \in DOMAIN sends}

(* What left was released, its call is past the sending, and the provider  *)
(* has no more versions than edits and sends made.                         *)
SendInv ==
    /\ sends \in Seq([action : Writes, under : Int])
    /\ \A i \in DOMAIN sends :
          /\ Approved(sends[i].action, sends[i].under)
          /\ calls[sends[i].action.action_id].phase \in {"Answered", "Gone"}
    /\ provider \in [Resource -> Int]
    /\ \A x \in Resource : provider[x] \in 0 .. MaxEdits + Cardinality(SentIds)

HostInv ==
    /\ exact \in BOOLEAN /\ epoch \in Reviews!Epoch
    /\ gate \in [action : ActionIds, issuance : RoundId, review : RoundId \cup {NoId}] \cup {NoGate}

IInv == RoundInv /\ LedgerInv /\ CallInv /\ SendInv /\ HostInv

(* What was released stays released: receipts are final, issued scopes and *)
(* claims are kept.                                                        *)
LEMMA ApprovedStays ==
    ASSUME RoundInv, LedgerInv, [Reviews!Next]_(Reviews!vars), LedgerStays, exact' = exact,
           NEW act, NEW under, Approved(act, under)
    PROVE  Approved(act, under)'
<1> DEFINE s == act.scope_id
           a == act.action_id
           g == scopes[s].grant
<1>1. act \in Writes /\ act = actions[a].action /\ Claimed(a) /\ a \in ActionIds /\ s \in ScopeIds
  BY WriteFacts DEF Approved
<1>2. actions[a].state # "Absent" /\ Ledger!Issued(s)
  BY <1>1 DEF LedgerInv, ActionInv
<1>3. /\ scopes'[s].grant = g /\ actions'[a].action = act
      /\ actions'[a].dispatch_claimed_at = actions[a].dispatch_claimed_at
  BY <1>1, <1>2 DEF LedgerStays
<1>4. ASSUME NEW r \in Reviews!Kept, rounds[r].decision = "Approve"
      PROVE  /\ r \in Reviews!Kept' /\ rounds'[r].decision = "Approve"
             /\ rounds'[r].subject = rounds[r].subject
             /\ rounds'[r].authority = rounds[r].authority
             /\ rounds'[r].expires_at = rounds[r].expires_at
  <2>1. r \in RoundId /\ rounds[r] \in RoundRow /\ Reviews!ValidRow(r)
    BY DEF RoundInv, RoundShape, Reviews!ValidRows, Reviews!Kept
  <2>2. rounds[r].state \in {"Accepted", "Rejected", "Cancelled"}
    BY <1>4, <2>1 DEF Reviews!ValidRow
  <2>3. Final(rounds[r], rounds'[r])
    BY <2>1, StepFinal
  <2>4. /\ rounds'[r] = [rounds[r] EXCEPT !.state = rounds'[r].state]
        /\ rounds'[r].state # "Absent"
    BY <2>2, <2>3 DEF Final
  <2>5. /\ rounds'[r].decision = rounds[r].decision
        /\ rounds'[r].subject = rounds[r].subject
        /\ rounds'[r].authority = rounds[r].authority
        /\ rounds'[r].expires_at = rounds[r].expires_at
    BY <2>1, <2>4 DEF RoundRow
  <2> QED
    BY <1>4, <2>1, <2>4, <2>5 DEF Reviews!Kept
<1>5. ASSUME NEW subject, NEW r \in ApprovedBy(subject, under)
      PROVE  r \in ApprovedBy(subject, under)' /\ rounds'[r].expires_at = rounds[r].expires_at
  BY <1>4, <1>5 DEF ApprovedBy
<1> HIDE DEF s, a, g
<1>6. /\ ApprovedBy(Issuance(g), under) # {}
      /\ exact => \E r \in ApprovedBy(ExactAction(g, act), under) :
                       actions[a].dispatch_claimed_at < rounds[r].expires_at
  BY DEF Approved, s, a, g
<1>7. PICK h : h = g
  OBVIOUS
<1>8. /\ ApprovedBy(Issuance(h), under)' # {}
      /\ exact' => \E r \in ApprovedBy(ExactAction(h, act), under)' :
                       actions'[a].dispatch_claimed_at < rounds'[r].expires_at
  BY <1>3, <1>5, <1>6, <1>7
<1>9. Claimed(a)' /\ scopes'[s].grant = h
  BY <1>1, <1>3, <1>7 DEF Claimed, a
<1> QED
  BY <1>1, <1>3, <1>8, <1>9 DEF Approved, ApprovedBy, s, a

-----------------------------------------------------------------------------
(* Every step of the host is a step, or none, of each ledger. *)

ReviewMoves == [Reviews!Next]_(Reviews!vars)
LedgerMoves == [Ledger!Next]_(Ledger!vars)

(* What a reviewer is asked about. *)
LEMMA SubjectFacts ==
    /\ \A subject \in Subjects : subject.scope \in Drafts /\ subject.action \in Writes \cup {NoId}
    /\ \A g \in Drafts : Issuance(g) \in Subjects
    /\ \A g \in Drafts, act \in Writes : ExactAction(g, act) \in Subjects
<1>1. \A subject \in Subjects : subject.scope \in Drafts
  BY LimitFacts
<1>2. \A subject \in Subjects : subject.action \in Writes \cup {NoId}
  BY DEF Subjects, Issuance, ExactAction
<1>3. ASSUME NEW g \in Drafts PROVE Issuance(g) \in Subjects
  BY DEF Subjects
<1>4. ASSUME NEW g \in Drafts, NEW act \in Writes PROVE ExactAction(g, act) \in Subjects
  BY DEF Subjects
<1> QED
  BY <1>1, <1>2, <1>3, <1>4

(* An approval at hand is about a known subject and fits its scope. *)
LEMMA ApprovalFacts ==
    ASSUME RoundInv, NEW r \in RoundId, NEW authority, NEW now,
           Reviews!RetainedApproval(r, authority, now)
    PROVE  /\ r \in Reviews!Kept /\ rounds[r].subject \in Subjects
           /\ rounds[r].expires_at \in Int
           /\ rounds[r].expires_at <= rounds[r].subject.scope.expires_at
<1>1. r \in Reviews!Kept
  BY DEF Reviews!RetainedApproval, Reviews!Kept
<1> QED
  BY <1>1 DEF RoundInv, RoundShape, RoundRow, Reviews!ValidRows, Reviews!ValidRow

(* The scope an approval issued. *)
LEMMA ScopeFacts ==
    ASSUME RoundInv, NEW g, NEW r \in RoundId, NEW now, ScopeApproved(g, r, now)
    PROVE  g \in Drafts /\ g.not_before <= now /\ now < g.expires_at
<1>1. rounds[r].subject \in Subjects /\ rounds[r].subject = Issuance(g)
  BY ApprovalFacts DEF ScopeApproved
<1>2. g = Issuance(g).scope
  BY DEF Issuance
<1> QED
  BY <1>1, <1>2, SubjectFacts DEF ScopeApproved, Ledger!Within

(* A request that only shows the review ledger a time. *)
LEMMA LookupMoves ==
    ASSUME NEW now \in Time, Reviews!Lookup(now) PROVE ReviewMoves
BY IdFacts DEF ReviewMoves, Reviews!Next

(* A ceremony is opened for a subject. *)
LEMMA IssueMoves ==
    ASSUME NEW now \in Time, NEW r \in RoundId, NEW subject \in Subjects,
           NEW authority \in Reviews!Epoch, Reviews!IssueRound(r, subject, authority, now)
    PROVE  ReviewMoves
BY IdFacts DEF ReviewMoves, Reviews!Next, Subjects

(* Nothing happens to a ledger. *)
LEMMA ReviewRests == ASSUME UNCHANGED reviewVars PROVE ReviewMoves
BY DEF ReviewMoves, Reviews!vars, reviewVars

(* The scope ledger is left alone. *)
LEMMA LedgerRests ==
    ASSUME LedgerInv, UNCHANGED ledgerVars PROVE LedgerMoves /\ NoClaim
<1>1. UNCHANGED Ledger!vars /\ UNCHANGED actions
  BY DEF Ledger!vars, ledgerVars
<1> QED
  BY <1>1 DEF LedgerMoves, NoClaim

(* A call the scope ledger refuses. *)
LEMMA RefusedMoves ==
    ASSUME LedgerInv, NEW now \in Time, Ledger!Refused(now) PROVE LedgerMoves /\ NoClaim
<1>1. Ledger!Next
  BY IdFacts DEF Ledger!Next
<1>2. UNCHANGED actions
  BY DEF Ledger!Refused
<1> QED
  BY <1>1, <1>2 DEF LedgerMoves, NoClaim

(* A read shows the review ledger a time, no more. *)
LEMMA ReadMoves ==
    ASSUME IInv, NEW now \in Time, Read(now)
    PROVE  ReviewMoves /\ LedgerMoves /\ NoClaim
BY LookupMoves, LedgerRests DEF Read, IInv

(* A refused request shows both ledgers a time, no more. *)
LEMMA RefuseMoves ==
    ASSUME IInv, NEW now \in Time, Refuse(now)
    PROVE  ReviewMoves /\ LedgerMoves /\ NoClaim
BY LookupMoves, RefusedMoves DEF Refuse, IInv

(* plan issues a review of a draft. *)
LEMMA PlanMoves ==
    ASSUME IInv, NEW now \in Time, NEW r \in RoundId, NEW s \in ScopeIds, Plan(r, s, now)
    PROVE  ReviewMoves /\ LedgerMoves /\ NoClaim
<1>1. PICK subject : subject = Issuance(Draft(s, now, exact))
  OBVIOUS
<1>2. PICK authority : authority = epoch
  OBVIOUS
<1>3. subject \in Subjects /\ authority \in Reviews!Epoch
  BY <1>1, <1>2, DraftIn, SubjectFacts DEF IInv, HostInv
<1>4. Reviews!IssueRound(r, subject, authority, now) /\ UNCHANGED ledgerVars
  BY <1>1, <1>2 DEF Plan
<1> QED
  BY <1>3, <1>4, IssueMoves, LedgerRests DEF IInv

(* submit decides a round under the current authority. *)
LEMMA DecideMoves ==
    ASSUME IInv, NEW now \in Time, NEW r \in RoundId, NEW decision \in Decision,
           Decide(r, decision, now)
    PROVE  ReviewMoves /\ LedgerMoves /\ NoClaim
<1>1. PICK authority : authority = epoch
  OBVIOUS
<1>2. authority \in Reviews!Epoch /\ decision \in Reviews!Decision
  BY <1>1 DEF IInv, HostInv, Decision, Reviews!Decision
<1>3. Reviews!Submit(r, decision, authority, now) /\ UNCHANGED ledgerVars
  BY <1>1 DEF Decide
<1>4. Reviews!Next
  BY <1>2, <1>3, IdFacts DEF Reviews!Next
<1> QED
  BY <1>3, <1>4, LedgerRests DEF IInv, ReviewMoves

(* activate issues the draft the round approved. *)
LEMMA ActivateMoves ==
    ASSUME IInv, NEW now \in Time, NEW r \in RoundId, Activate(r, now)
    PROVE  ReviewMoves /\ LedgerMoves /\ NoClaim
<1>1. PICK g : g = rounds[r].subject.scope
  OBVIOUS
<1>2. ScopeApproved(g, r, now) /\ Ledger!IssueScope(g, now) /\ Reviews!Lookup(now)
  BY <1>1 DEF Activate
<1>3. g \in Drafts
  BY <1>2, ScopeFacts DEF IInv
<1>4. Ledger!Next
  BY <1>2, <1>3, IdFacts DEF Ledger!Next
<1> QED
  BY <1>2, <1>3, <1>4, LookupMoves, IssueScopeStep DEF IInv, LedgerMoves

(* prepare writes no ledger but the clock of the reviews. *)
LEMMA PrepareMoves ==
    ASSUME IInv, NEW now \in Time, NEW a \in ActionIds, NEW q \in Request, NEW s \in ScopeIds,
           NEW x \in Resource, NEW ri \in RoundId, Prepare(a, q, s, x, ri, now)
    PROVE  ReviewMoves /\ LedgerMoves /\ NoClaim
BY LookupMoves, LedgerRests DEF Prepare, IInv

(* review_action issues a review of the exact write. *)
LEMMA ReviewActionMoves ==
    ASSUME IInv, NEW now \in Time, NEW a \in ActionIds, NEW r \in RoundId, NEW ri \in RoundId,
           ReviewAction(a, r, ri, now)
    PROVE  ReviewMoves /\ LedgerMoves /\ NoClaim
<1>1. PICK act : act = calls[a].action
  OBVIOUS
<1>2. PICK g : g = scopes[act.scope_id].grant
  OBVIOUS
<1>3. PICK authority : authority = epoch
  OBVIOUS
<1>4. PICK subject : subject = ExactAction(g, act)
  OBVIOUS
<1>5. /\ calls[a].phase = "Prepared" /\ ScopeApproved(g, ri, now)
      /\ Reviews!IssueRound(r, subject, authority, now) /\ UNCHANGED ledgerVars
  BY <1>1, <1>2, <1>3, <1>4 DEF ReviewAction
<1>6. act \in Writes
  BY <1>1, <1>5 DEF IInv, CallInv
<1>7. g \in Drafts
  BY <1>5, ScopeFacts DEF IInv
<1>8. subject \in Subjects /\ authority \in Reviews!Epoch
  BY <1>3, <1>4, <1>6, <1>7, SubjectFacts DEF IInv, HostInv
<1> QED
  BY <1>5, <1>8, IssueMoves, LedgerRests DEF IInv

(* The write a dispatch is about is the call's own. *)
LEMMA CandidateFacts ==
    ASSUME IInv, NEW now, NEW a \in ActionIds, NEW ra \in RoundId \cup {NoId},
           NEW act \in Candidate(a, ra), ra # NoId => Reviews!RetainedApproval(ra, epoch, now)
    PROVE  act \in Writes /\ act.action_id = a
<1>1. CASE ra = NoId
  <2>1. act = calls[a].action /\ calls[a].phase = "Prepared"
    BY <1>1 DEF Candidate
  <2> QED
    BY <2>1 DEF IInv, CallInv
<1>2. CASE ra # NoId
  <2>1. ra \in RoundId /\ Reviews!RetainedApproval(ra, epoch, now)
    BY <1>2
  <2>2. rounds[ra].subject \in Subjects
    BY <2>1, ApprovalFacts DEF IInv
  <2>3. act = rounds[ra].subject.action /\ act # NoId /\ act.action_id = a
    BY <1>2 DEF Candidate
  <2> QED
    BY <2>2, <2>3, SubjectFacts
<1> QED
  BY <1>1, <1>2

(* Admission evidence ends with the round, or with the scope. *)
LEMMA EvidenceFacts ==
    ASSUME RoundInv, NEW now \in Time, NEW g, NEW ri \in RoundId, NEW ra \in RoundId \cup {NoId},
           ScopeApproved(g, ri, now),
           ra # NoId => Reviews!RetainedApproval(ra, epoch, now) /\ now < rounds[ra].expires_at
    PROVE  EvidenceAt(g, ra, now) \in Evidences
<1> DEFINE until == IF ra = NoId THEN g.expires_at ELSE rounds[ra].expires_at
           end == IF now + EvidenceSeconds < until THEN now + EvidenceSeconds ELSE until
<1>1. until \in Int /\ now < until /\ until <= MaxTime + ScopeSeconds
  <2>1. CASE ra = NoId
    <3>1. g \in Drafts /\ now < g.expires_at
      BY ScopeFacts
    <3>2. g.expires_at \in 0 .. MaxTime + ScopeSeconds
      BY <3>1, DraftFacts
    <3> QED
      BY <2>1, <3>1, <3>2, LimitFacts
  <2>2. CASE ra # NoId
    <3>1. /\ rounds[ra].subject \in Subjects /\ rounds[ra].expires_at \in Int
          /\ rounds[ra].expires_at <= rounds[ra].subject.scope.expires_at
          /\ now < rounds[ra].expires_at
      BY <2>2, ApprovalFacts
    <3>2. rounds[ra].subject.scope.expires_at \in 0 .. MaxTime + ScopeSeconds
      BY <3>1, SubjectFacts, DraftFacts
    <3> QED
      BY <2>2, <3>1, <3>2, LimitFacts
  <2> QED
    BY <2>1, <2>2
<1> DEFINE review == IF ra = NoId THEN Ledger!None ELSE until
<1> HIDE DEF until
<1>2. end \in 0 .. MaxTime + ScopeSeconds
  BY <1>1, IdFacts, LimitFacts
<1>3. review \in -1 .. MaxTime + ScopeSeconds
  BY <1>1, IdFacts, LimitFacts DEF Ledger!None
<1> HIDE DEF end, review
<1>4. PICK e, v : e = end /\ v = review
  OBVIOUS
<1>5. EvidenceAt(g, ra, now) = [evaluated_at |-> now, expires_at |-> e, review_expires_at |-> v]
  BY <1>4 DEF EvidenceAt, end, review, until
<1>6. now \in 0 .. MaxTime
  BY DEF Time
<1> QED
  BY <1>2, <1>3, <1>4, <1>5, <1>6 DEF Evidences

(* dispatch, first transaction: a charge of a write, with fitting evidence. *)
LEMMA DispatchReserveMoves ==
    ASSUME IInv, NEW now \in Time, NEW a \in ActionIds, NEW ri \in RoundId,
           NEW ra \in RoundId \cup {NoId}, DispatchReserve(a, ri, ra, now)
    PROVE  ReviewMoves /\ LedgerMoves /\ NoClaim
<1>1. PICK act \in Candidate(a, ra) :
        LET g == scopes[act.scope_id].grant
        IN  /\ Reviews!Lookup(now)
            /\ ra # NoId => /\ Reviews!RetainedApproval(ra, epoch, now)
                            /\ now < rounds[ra].expires_at
            /\ \/ /\ Guard(g, act, ri, ra, now)
                  /\ Ledger!Reserve(act, EvidenceAt(g, ra, now), now)
               \/ Ledger!Refused(now)
  BY DEF DispatchReserve
<1>2. ReviewMoves
  BY <1>1, LookupMoves
<1>3. CASE Ledger!Refused(now)
  BY <1>2, <1>3, RefusedMoves DEF IInv
<1>4. CASE ~Ledger!Refused(now)
  <2>1. PICK g : g = scopes[act.scope_id].grant
    OBVIOUS
  <2>2. PICK ev : ev = EvidenceAt(g, ra, now)
    OBVIOUS
  <2>3. /\ ScopeApproved(g, ri, now) /\ Ledger!Reserve(act, ev, now)
        /\ ra # NoId => /\ Reviews!RetainedApproval(ra, epoch, now)
                        /\ now < rounds[ra].expires_at
    BY <1>1, <1>4, <2>1, <2>2 DEF Guard
  <2>4. act \in Writes /\ ev \in Evidences
    BY <2>2, <2>3, CandidateFacts, EvidenceFacts DEF IInv
  <2>5. Ledger!Next
    BY <2>3, <2>4, IdFacts DEF Ledger!Next, Evidences
  <2> QED
    BY <1>2, <2>3, <2>4, <2>5, ReserveStep DEF IInv, LedgerMoves
<1> QED
  BY <1>3, <1>4

(* dispatch, second transaction: the claim. *)
LEMMA DispatchClaimMoves ==
    ASSUME IInv, NEW now \in Time, DispatchClaim(now)
    PROVE  ReviewMoves /\ LedgerMoves /\ gate.action \in ActionIds
<1>1. PICK a : a = gate.action
  OBVIOUS
<1>2. gate # NoGate /\ Reviews!Lookup(now) /\ Ledger!ClaimDispatch(a, now)
  BY <1>1 DEF DispatchClaim
<1>3. a \in ActionIds
  BY <1>1, <1>2 DEF IInv, HostInv
<1>4. Ledger!Next
  BY <1>2, <1>3, IdFacts DEF Ledger!Next
<1> QED
  BY <1>1, <1>2, <1>3, <1>4, LookupMoves DEF LedgerMoves

(* A dispatch given up leaves no trace but the times. *)
LEMMA DispatchAbandonMoves ==
    ASSUME IInv, NEW now \in Time, DispatchAbandon(now)
    PROVE  ReviewMoves /\ LedgerMoves /\ NoClaim
<1>1. CASE Reviews!Lookup(now) /\ Ledger!Refused(now)
  BY <1>1, LookupMoves, RefusedMoves DEF IInv
<1>2. CASE Ledger!Refused(now) /\ UNCHANGED reviewVars
  BY <1>2, ReviewRests, RefusedMoves DEF IInv
<1>3. CASE UNCHANGED <<reviewVars, ledgerVars>>
  BY <1>3, ReviewRests, LedgerRests DEF IInv
<1> QED
  BY <1>1, <1>2, <1>3 DEF DispatchAbandon

(* finish settles with an outcome the ledger knows. *)
LEMMA FinishSendMoves ==
    ASSUME IInv, NEW now \in Time, NEW a \in ActionIds, FinishSend(a, now)
    PROVE  ReviewMoves /\ LedgerMoves /\ NoClaim
<1>1. PICK outcome : outcome = calls[a].outcome
  OBVIOUS
<1>2. outcome \in Ledger!Settled /\ UNCHANGED reviewVars
  BY <1>1 DEF FinishSend, IInv, CallInv
<1>3. CASE Ledger!Finish(a, outcome, now)
  <2>1. Ledger!Next
    BY <1>2, <1>3, IdFacts DEF Ledger!Next
  <2> QED
    BY <1>2, <1>3, <2>1, FinishStep, ReviewRests DEF IInv, LedgerMoves
<1>4. CASE UNCHANGED ledgerVars
  BY <1>2, <1>4, ReviewRests, LedgerRests DEF IInv
<1> QED
  BY <1>1, <1>3, <1>4 DEF FinishSend

(* scope_revoke is a revocation of the ledger. *)
LEMMA RevokeScopeMoves ==
    ASSUME IInv, NEW now \in Time, NEW s \in ScopeIds, RevokeScope(s, now)
    PROVE  ReviewMoves /\ LedgerMoves /\ NoClaim
<1>1. Ledger!Revoke(s, now) /\ UNCHANGED reviewVars
  BY DEF RevokeScope
<1>2. Ledger!Next
  BY <1>1, IdFacts DEF Ledger!Next
<1> QED
  BY <1>1, <1>2, RevokeStep, ReviewRests DEF IInv, LedgerMoves

(* A crash closes both ledgers. *)
LEMMA CrashMoves ==
    ASSUME IInv, Crash PROVE ReviewMoves /\ LedgerMoves /\ NoClaim
<1>1. Reviews!CloseReviews /\ Ledger!Close
  BY DEF Crash
<1>2. Reviews!Next /\ Ledger!Next /\ UNCHANGED actions
  BY <1>1 DEF Reviews!Next, Ledger!Next, Ledger!Close
<1> QED
  BY <1>2 DEF ReviewMoves, LedgerMoves, NoClaim

(* A start opens both ledgers. *)
LEMMA StartMoves ==
    ASSUME IInv, NEW now \in Time, Start(now) PROVE ReviewMoves /\ LedgerMoves /\ NoClaim
<1>1. Reviews!OpenReviews(now) /\ Ledger!Open
  BY DEF Start
<1>2. Reviews!Next /\ Ledger!Next
  BY <1>1, IdFacts DEF Reviews!Next, Ledger!Next
<1> QED
  BY <1>1, <1>2, OpenLedgerStep DEF IInv, ReviewMoves, LedgerMoves

(* Steps outside the ledgers. *)
LEMMA OutsideMoves ==
    ASSUME IInv, UNCHANGED <<reviewVars, ledgerVars>>
    PROVE  ReviewMoves /\ LedgerMoves /\ NoClaim
BY ReviewRests, LedgerRests DEF IInv

-----------------------------------------------------------------------------
(* The host's part of the invariant. *)

CallRow == [phase : Phase, action : Writes \cup {NoId},
            outcome : Ledger!Settled \cup {"None"}, under : Int]

(* What a call may be. *)
GoodCall(a, c) ==
    /\ c \in CallRow
    /\ c.phase \notin {"New", "Gone"} => c.action \in Writes /\ c.action.action_id = a
    /\ c.phase \in {"Sending", "Answered"} => Approved(c.action, c.under)
    /\ c.phase = "Answered" => c.outcome \in Ledger!Settled

(* The invariant, call by call. *)
LEMMA CallByCall ==
    CallInv <=> /\ calls \in [ActionIds -> CallRow]
                /\ \A a \in ActionIds : GoodCall(a, calls[a])
<1>1. ASSUME calls \in [ActionIds -> CallRow] PROVE \A a \in ActionIds : calls[a] \in CallRow
  BY <1>1
<1> QED
  BY <1>1 DEF CallInv, GoodCall, CallRow

(* The ledgers' invariants, and what people released, outlive every step. *)
LEMMA Outlives ==
    ASSUME IInv, ReviewMoves, LedgerMoves, exact' = exact
    PROVE  /\ RoundInv' /\ LedgerInv' /\ LedgerStays
           /\ \A act, under : Approved(act, under) => Approved(act, under)'
<1>1. RoundInv /\ RoundInv' /\ LedgerInv /\ LedgerInv' /\ LedgerStays
  BY NextInvariant, LedgerStep DEF IInv, ReviewMoves, LedgerMoves
<1>2. ASSUME NEW act, NEW under, Approved(act, under) PROVE Approved(act, under)'
  BY <1>1, <1>2, ApprovedStays DEF ReviewMoves
<1> QED
  BY <1>1, <1>2

(* So a good call that stays as it is stays good. *)
LEMMA GoodStays ==
    ASSUME IInv, ReviewMoves, LedgerMoves, exact' = exact, NEW a, NEW c, GoodCall(a, c)
    PROVE  GoodCall(a, c)'
<1>1. ASSUME c.phase \in {"Sending", "Answered"} PROVE Approved(c.action, c.under)'
  <2>1. Approved(c.action, c.under)
    BY <1>1 DEF GoodCall
  <2> QED
    BY <2>1, Outlives
<1>2. /\ c \in CallRow
      /\ c.phase \notin {"New", "Gone"} => c.action \in Writes /\ c.action.action_id = a
      /\ c.phase = "Answered" => c.outcome \in Ledger!Settled
  BY DEF GoodCall
<1> QED
  BY <1>1, <1>2 DEF GoodCall, CallRow, Ledger!Settled

(* A step makes good calls, or leaves them alone. *)
LEMMA CallStep ==
    ASSUME IInv, ReviewMoves, LedgerMoves, exact' = exact, calls' \in [ActionIds -> CallRow],
           \A a \in ActionIds : calls'[a] = calls[a] \/ GoodCall(a, calls[a])'
    PROVE  CallInv'
<1>1. ASSUME NEW a \in ActionIds PROVE GoodCall(a, calls[a])'
  <2>1. CASE calls'[a] = calls[a]
    <3>1. PICK c : c = calls[a]
      OBVIOUS
    <3>2. GoodCall(a, c)
      BY <3>1, CallByCall DEF IInv
    <3>3. GoodCall(a, c)' /\ calls'[a] = c
      BY <2>1, <3>1, <3>2, GoodStays
    <3> QED
      BY <3>3 DEF GoodCall
  <2> QED
    BY <2>1
<1> QED
  BY <1>1 DEF CallInv, GoodCall, CallRow

(* No call moves. *)
LEMMA CallsKept ==
    ASSUME IInv, ReviewMoves, LedgerMoves, exact' = exact, UNCHANGED calls
    PROVE  CallInv'
<1>1. calls' \in [ActionIds -> CallRow]
  BY CallByCall DEF IInv
<1> QED
  BY <1>1, CallStep

(* A step of one call. *)
LEMMA OneCallStep ==
    ASSUME IInv, ReviewMoves, LedgerMoves, exact' = exact, NEW a \in ActionIds, NEW c,
           calls' = [calls EXCEPT ![a] = c], GoodCall(a, c)'
    PROVE  CallInv' /\ calls'[a] = c /\ \A b \in ActionIds : b # a => calls'[b] = calls[b]
<1>1. calls \in [ActionIds -> CallRow] /\ c \in CallRow
  BY CallByCall DEF IInv, GoodCall, CallRow, Ledger!Settled
<1>2. /\ calls' \in [ActionIds -> CallRow] /\ calls'[a] = c
      /\ \A b \in ActionIds : b # a => calls'[b] = calls[b]
  BY <1>1
<1>3. ASSUME NEW b \in ActionIds PROVE calls'[b] = calls[b] \/ GoodCall(b, calls[b])'
  <2>1. CASE b = a
    BY <1>2, <2>1 DEF GoodCall
  <2>2. CASE b # a
    BY <1>2, <2>2
  <2> QED
    BY <2>1, <2>2
<1> QED
  BY <1>2, <1>3, CallStep

(* Nothing is sent, no version made, and sent calls are not sent again. *)
LEMMA SendsKept ==
    ASSUME IInv, ReviewMoves, LedgerMoves, exact' = exact, UNCHANGED <<sends, provider>>,
           \A a \in SentIds : calls'[a].phase \in {"Answered", "Gone"}
    PROVE  SendInv'
<1>1. ASSUME NEW i \in DOMAIN sends
      PROVE  /\ Approved(sends[i].action, sends[i].under)'
             /\ calls'[sends[i].action.action_id].phase \in {"Answered", "Gone"}
  <2>1. PICK act : act = sends[i].action
    OBVIOUS
  <2>2. PICK under : under = sends[i].under
    OBVIOUS
  <2>3. Approved(act, under)
    BY <2>1, <2>2 DEF IInv, SendInv
  <2>4. Approved(act, under)' /\ sends'[i].action = act /\ sends'[i].under = under
    BY <2>1, <2>2, <2>3, Outlives
  <2>5. act.action_id \in SentIds
    BY <2>1 DEF SentIds
  <2>6. Approved(sends[i].action, sends[i].under)'
    BY <2>4 DEF Approved, ApprovedBy
  <2> QED
    BY <2>1, <2>5, <2>6
<1>2. SentIds' = SentIds
  BY DEF SentIds
<1> QED
  BY <1>1, <1>2 DEF IInv, SendInv

(* Sent calls are past the sending. *)
LEMMA SentFacts ==
    ASSUME IInv
    PROVE  /\ SentIds \subseteq ActionIds
           /\ \A a \in SentIds : calls[a].phase \in {"Answered", "Gone"} /\ Claimed(a)
           /\ IsFiniteSet(SentIds) /\ Cardinality(SentIds) \in Nat
           /\ Cardinality(ActionIds) \in Nat /\ Cardinality(SentIds) <= Cardinality(ActionIds)
<1>1. ASSUME NEW i \in DOMAIN sends
      PROVE  /\ sends[i].action.action_id \in ActionIds
             /\ calls[sends[i].action.action_id].phase \in {"Answered", "Gone"}
             /\ Claimed(sends[i].action.action_id)
  <2>1. PICK act : act = sends[i].action
    OBVIOUS
  <2>2. PICK under : under = sends[i].under
    OBVIOUS
  <2>3. Approved(act, under) /\ calls[act.action_id].phase \in {"Answered", "Gone"}
    BY <2>1, <2>2 DEF IInv, SendInv
  <2>4. act \in Writes /\ Claimed(act.action_id)
    BY <2>3 DEF Approved
  <2> QED
    BY <2>1, <2>3, <2>4, WriteFacts
<1>2. /\ SentIds \subseteq ActionIds
      /\ \A a \in SentIds : calls[a].phase \in {"Answered", "Gone"} /\ Claimed(a)
  BY <1>1 DEF SentIds
<1>3. IsFiniteSet(ActionIds)
  BY LimitAssumption
<1> QED
  BY <1>2, <1>3, FS_Subset, FS_CardinalityType

(* Steps of the ledgers and of the authority: no call moves. *)
LEMMA QuietHost ==
    ASSUME IInv, ReviewMoves, LedgerMoves, UNCHANGED <<exact, calls, provider, sends>>, HostInv'
    PROVE  IInv'
<1>1. CallInv'
  BY CallsKept
<1>2. \A a \in SentIds : calls'[a].phase \in {"Answered", "Gone"}
  BY SentFacts
<1>3. SendInv'
  BY <1>2, SendsKept
<1> QED
  BY <1>1, <1>3, Outlives DEF IInv

(* A step of one call that sends nothing, and does not call back a call    *)
(* that sent.                                                              *)
LEMMA OneCallHost ==
    ASSUME IInv, ReviewMoves, LedgerMoves, UNCHANGED <<exact, provider, sends>>, HostInv',
           NEW a \in ActionIds, NEW c, calls' = [calls EXCEPT ![a] = c], GoodCall(a, c)',
           c.phase \in {"Answered", "Gone"} \/ a \notin SentIds
    PROVE  IInv'
<1>1. CallInv' /\ calls'[a] = c /\ \A b \in ActionIds : b # a => calls'[b] = calls[b]
  BY OneCallStep
<1>2. \A b \in SentIds : calls'[b].phase \in {"Answered", "Gone"}
  <2> SUFFICES ASSUME NEW b \in SentIds PROVE calls'[b].phase \in {"Answered", "Gone"}
    OBVIOUS
  <2>1. b \in ActionIds /\ calls[b].phase \in {"Answered", "Gone"}
    BY SentFacts
  <2> QED
    BY <1>1, <2>1
<1>3. SendInv'
  BY <1>2, SendsKept
<1> QED
  BY <1>1, <1>3, Outlives DEF IInv

(* A call that is not sending, or answered, asks nothing of people. *)
LEMMA IdleCall ==
    ASSUME NEW a, NEW c \in CallRow, c.phase \notin {"Sending", "Answered"},
           c.phase # "Gone" => c.action \in Writes /\ c.action.action_id = a
    PROVE  GoodCall(a, c)'
BY DEF GoodCall, CallRow, Ledger!Settled

(* prepare: the call works on the write of its id. *)
LEMMA PrepareKeeps ==
    ASSUME IInv, NEW now \in Time, NEW a \in ActionIds, NEW q \in Request, NEW s \in ScopeIds,
           NEW x \in Resource, NEW ri \in RoundId, Prepare(a, q, s, x, ri, now)
    PROVE  IInv'
<1>1. PICK w : w = Prepared(a, q, s, x, 0)
  OBVIOUS
<1>2. w \in Writes /\ w.action_id = a
  BY <1>1, WriteIn, IdFacts DEF Prepared
<1>3. PICK c : c = [calls[a] EXCEPT !.phase = "Reading", !.action = w]
  OBVIOUS
<1>4. calls \in [ActionIds -> CallRow] /\ calls[a] \in CallRow
  BY CallByCall DEF IInv
<1>5. c \in CallRow /\ c.phase = "Reading" /\ c.action = w
  BY <1>2, <1>3, <1>4 DEF CallRow, Phase
<1>6. /\ calls' = [calls EXCEPT ![a] = c] /\ calls[a].phase = "New"
      /\ UNCHANGED <<exact, epoch, gate, provider, sends>>
  BY <1>1, <1>3, <1>4 DEF Prepare
<1>7. a \notin SentIds
  BY <1>6, SentFacts
<1>8. HostInv'
  BY <1>6 DEF IInv, HostInv
<1>9. GoodCall(a, c)'
  BY <1>2, <1>5, IdleCall
<1> QED
  BY <1>6, <1>7, <1>8, <1>9, PrepareMoves, OneCallHost

(* connector.read: the version read is one the provider has made. *)
LEMMA ReadProviderKeeps ==
    ASSUME IInv, NEW a \in ActionIds, ReadProvider(a)
    PROVE  IInv'
<1>1. calls \in [ActionIds -> CallRow] /\ calls[a] \in CallRow
  BY CallByCall DEF IInv
<1>2. /\ calls[a].phase = "Reading" /\ UNCHANGED <<reviewVars, ledgerVars, exact, epoch, gate, provider, sends>>
  BY DEF ReadProvider
<1>3. calls[a].action \in Writes /\ calls[a].action.action_id = a
  BY <1>2 DEF IInv, CallInv
<1>4. a \notin SentIds
  BY <1>2, SentFacts
<1>5. HostInv' /\ ReviewMoves /\ LedgerMoves
  BY <1>2, OutsideMoves DEF IInv, HostInv
<1>6. CASE calls' = [calls EXCEPT ![a].phase = "Gone"]
  <2>1. PICK c : c = [calls[a] EXCEPT !.phase = "Gone"]
    OBVIOUS
  <2>2. c \in CallRow /\ c.phase = "Gone"
    BY <1>1, <2>1 DEF CallRow, Phase
  <2>3. calls' = [calls EXCEPT ![a] = c]
    BY <1>1, <1>6, <2>1
  <2>4. GoodCall(a, c)'
    BY <2>2, IdleCall
  <2> QED
    BY <1>2, <1>4, <1>5, <2>3, <2>4, OneCallHost
<1>7. CASE calls' = [calls EXCEPT ![a].phase = "Prepared",
                                 ![a].action.version = provider[calls[a].action.resource]]
  <2>1. PICK w : w = calls[a].action
    OBVIOUS
  <2>2. PICK v : v = provider[w.resource]
    OBVIOUS
  <2>3. v \in Version
    <3>1. w.resource \in Resource
      BY <1>3, <2>1, WriteFacts
    <3>2. v \in 0 .. MaxEdits + Cardinality(SentIds)
      BY <2>2, <3>1 DEF IInv, SendInv
    <3>3. MaxEdits \in Nat
      BY LimitAssumption
    <3> QED
      BY <3>2, <3>3, SentFacts DEF Version
  <2>4. PICK u : u = [w EXCEPT !.version = v]
    OBVIOUS
  <2>5. u \in Writes /\ u.action_id = a
    <3>1. /\ w = Prepared(w.action_id, w.request_id, w.scope_id, w.resource, w.version)
          /\ w.action_id = a /\ w.request_id \in Request /\ w.scope_id \in ScopeIds
          /\ w.resource \in Resource
      BY <1>3, <2>1, WriteFacts
    <3>2. u = Prepared(a, w.request_id, w.scope_id, w.resource, v)
      BY <2>4, <3>1 DEF Prepared
    <3> QED
      BY <2>3, <3>1, <3>2, WriteIn DEF Prepared
  <2>6. PICK c : c = [calls[a] EXCEPT !.phase = "Prepared", !.action = u]
    OBVIOUS
  <2>7. c \in CallRow /\ c.phase = "Prepared" /\ c.action = u
    BY <1>1, <2>5, <2>6 DEF CallRow, Phase
  <2>8. calls' = [calls EXCEPT ![a] = c]
    <3>1. calls' = [calls EXCEPT ![a] = [[calls[a] EXCEPT !.phase = "Prepared"]
                                            EXCEPT !.action = [@ EXCEPT !.version = v]]]
      BY <1>1, <1>7, <2>1, <2>2
    <3>2. [calls[a] EXCEPT !.phase = "Prepared"].action = w
      BY <1>1, <2>1 DEF CallRow
    <3>3. [[calls[a] EXCEPT !.phase = "Prepared"] EXCEPT !.action = [@ EXCEPT !.version = v]] = c
      BY <1>1, <2>4, <2>6, <3>2 DEF CallRow
    <3> QED
      BY <3>1, <3>3
  <2>9. GoodCall(a, c)'
    BY <2>5, <2>7, IdleCall
  <2> QED
    BY <1>2, <1>4, <1>5, <2>8, <2>9, OneCallHost
<1> QED
  BY <1>6, <1>7 DEF ReadProvider

(* review_action: the call ends, its write stays. *)
LEMMA ReviewActionKeeps ==
    ASSUME IInv, NEW now \in Time, NEW a \in ActionIds, NEW r \in RoundId, NEW ri \in RoundId,
           ReviewAction(a, r, ri, now)
    PROVE  IInv'
<1>1. calls \in [ActionIds -> CallRow] /\ calls[a] \in CallRow
  BY CallByCall DEF IInv
<1>2. PICK c : c = [calls[a] EXCEPT !.phase = "Proposed"]
  OBVIOUS
<1>3. /\ calls' = [calls EXCEPT ![a] = c] /\ calls[a].phase = "Prepared"
      /\ UNCHANGED <<exact, epoch, gate, provider, sends>>
  BY <1>1, <1>2 DEF ReviewAction
<1>4. c \in CallRow /\ c.phase = "Proposed" /\ c.action = calls[a].action
  BY <1>1, <1>2 DEF CallRow, Phase
<1>5. calls[a].action \in Writes /\ calls[a].action.action_id = a
  BY <1>3 DEF IInv, CallInv
<1>6. a \notin SentIds
  BY <1>3, SentFacts
<1>7. HostInv'
  BY <1>3 DEF IInv, HostInv
<1>8. GoodCall(a, c)'
  BY <1>4, <1>5, IdleCall
<1> QED
  BY <1>3, <1>6, <1>7, <1>8, ReviewActionMoves, OneCallHost

(* finish: the call is over. *)
LEMMA FinishSendKeeps ==
    ASSUME IInv, NEW now \in Time, NEW a \in ActionIds, FinishSend(a, now)
    PROVE  IInv'
<1>1. calls \in [ActionIds -> CallRow] /\ calls[a] \in CallRow
  BY CallByCall DEF IInv
<1>2. PICK c : c = [calls[a] EXCEPT !.phase = "Gone"]
  OBVIOUS
<1>3. /\ calls' = [calls EXCEPT ![a] = c]
      /\ UNCHANGED <<exact, epoch, gate, provider, sends>>
  BY <1>1, <1>2 DEF FinishSend
<1>4. c \in CallRow /\ c.phase = "Gone"
  BY <1>1, <1>2 DEF CallRow, Phase
<1>5. HostInv'
  BY <1>3 DEF IInv, HostInv
<1>6. GoodCall(a, c)'
  BY <1>4, IdleCall
<1> QED
  BY <1>3, <1>4, <1>5, <1>6, FinishSendMoves, OneCallHost

(* An approval is not touched by the passing of time. *)
LEMMA AcceptedStays ==
    ASSUME NEW now, NEW r \in RoundId, rounds[r].state = "Accepted", Reviews!Lookup(now)
    PROVE  rounds'[r] = rounds[r] /\ last_now' = now
BY DEF Reviews!Lookup, Reviews!Seen, Reviews!Ticked

(* dispatch: the guard of the claim is what people released. *)
LEMMA ClaimReleases ==
    ASSUME IInv, NEW now \in Time, NEW a \in ActionIds, NEW act, NEW g, NEW under,
           NEW ri \in RoundId, NEW ra \in RoundId \cup {NoId},
           act = actions[a].action, g = scopes[act.scope_id].grant, under = epoch,
           Guard(g, act, ri, ra, now), Reviews!Lookup(now), Ledger!ClaimDispatch(a, now),
           UNCHANGED <<exact, epoch>>
    PROVE  /\ act \in Writes /\ act.action_id = a /\ Approved(act, under)'
           /\ a \notin SentIds /\ Ledger!Issued(act.scope_id)
           /\ scopes'[act.scope_id].grant = g
           /\ rounds'[ri] = rounds[ri] /\ (ra # NoId => rounds'[ra] = rounds[ra])
<1>1. /\ LedgerStays /\ actions[a].state = "Reserved"
      /\ actions'[a].dispatch_claimed_at = now /\ actions'[a].action = act /\ now # Never
  BY ClaimStep DEF IInv
<1>2. /\ act \in Writes /\ act.action_id = a /\ Ledger!Issued(act.scope_id)
      /\ act.scope_id \in ScopeIds /\ ~Claimed(a)
  BY <1>1, WriteFacts DEF IInv, LedgerInv, ActionInv
<1>3. a \notin SentIds
  BY <1>2, SentFacts
<1>4. scopes'[act.scope_id].grant = g
  BY <1>1, <1>2 DEF LedgerStays
<1>5. Claimed(a)'
  BY <1>1 DEF Claimed
<1>6. /\ rounds[ri].state = "Accepted" /\ rounds[ri].decision = "Approve"
      /\ rounds[ri].authority = under /\ rounds[ri].subject = Issuance(g)
  BY DEF Guard, ScopeApproved, Reviews!RetainedApproval
<1>7. rounds'[ri] = rounds[ri]
  BY <1>6, AcceptedStays
<1>8. ASSUME ra # NoId
      PROVE  /\ ra \in RoundId /\ rounds'[ra] = rounds[ra]
             /\ rounds[ra].state = "Accepted" /\ rounds[ra].decision = "Approve"
             /\ rounds[ra].authority = under /\ rounds[ra].subject = ExactAction(g, act)
             /\ now < rounds[ra].expires_at
  <2>1. /\ rounds[ra].state = "Accepted" /\ rounds[ra].decision = "Approve"
        /\ rounds[ra].authority = under /\ rounds[ra].subject = ExactAction(g, act)
        /\ now < rounds[ra].expires_at
    BY <1>8 DEF Guard, ActionApproved, Reviews!RetainedApproval
  <2>2. ra \in RoundId
    BY <1>8
  <2> QED
    BY <2>1, <2>2, AcceptedStays
<1>9. exact => ra # NoId
  BY DEF Guard, ActionApproved
<1>10. ri \in ApprovedBy(Issuance(g), under)'
  BY <1>6, <1>7 DEF ApprovedBy, Reviews!Kept
<1>11. exact' => \E r \in ApprovedBy(ExactAction(g, act), under)' :
                    actions'[a].dispatch_claimed_at < rounds'[r].expires_at
  <2> SUFFICES ASSUME exact PROVE \E r \in ApprovedBy(ExactAction(g, act), under)' :
                                     actions'[a].dispatch_claimed_at < rounds'[r].expires_at
    OBVIOUS
  <2>1. ra # NoId
    BY <1>9
  <2>2. ra \in ApprovedBy(ExactAction(g, act), under)'
    BY <1>8, <2>1 DEF ApprovedBy, Reviews!Kept
  <2>3. actions'[a].dispatch_claimed_at < rounds'[ra].expires_at
    BY <1>1, <1>8, <2>1
  <2> QED
    BY <2>2, <2>3
<1>12. Approved(act, under)'
  BY <1>1, <1>2, <1>4, <1>5, <1>10, <1>11 DEF Approved, ApprovedBy
<1> QED
  BY <1>2, <1>3, <1>4, <1>7, <1>8, <1>12

(* dispatch: the claim starts a released sending, of a write never sent. *)
LEMMA DispatchClaimKeeps ==
    ASSUME IInv, NEW now \in Time, DispatchClaim(now)
    PROVE  IInv'
<1>1. PICK a : a = gate.action
  OBVIOUS
<1>2. PICK act : act = actions[a].action
  OBVIOUS
<1>3. PICK g : g = scopes[act.scope_id].grant
  OBVIOUS
<1>4. PICK ri : ri = gate.issuance
  OBVIOUS
<1>5. PICK ra : ra = gate.review
  OBVIOUS
<1>6. PICK under : under = epoch
  OBVIOUS
<1>7. PICK c : c = [phase |-> "Sending", action |-> act, outcome |-> "None", under |-> under]
  OBVIOUS
<1>8. /\ gate # NoGate /\ Guard(g, act, ri, ra, now) /\ Reviews!Lookup(now)
      /\ Ledger!ClaimDispatch(a, now) /\ gate' = NoGate
      /\ calls' = [calls EXCEPT ![a] = c]
      /\ UNCHANGED <<exact, epoch, provider, sends>>
  BY <1>1, <1>2, <1>3, <1>4, <1>5, <1>6, <1>7 DEF DispatchClaim
<1>9. a \in ActionIds /\ ri \in RoundId /\ ra \in RoundId \cup {NoId}
  BY <1>1, <1>4, <1>5, <1>8 DEF IInv, HostInv
<1>10. act \in Writes /\ act.action_id = a /\ Approved(act, under)' /\ a \notin SentIds
  BY <1>2, <1>3, <1>6, <1>8, <1>9, ClaimReleases
<1>11. HostInv'
  BY <1>8 DEF IInv, HostInv
<1>12. under \in Int
  BY <1>6, LimitFacts DEF IInv, HostInv, Reviews!Epoch
<1>13. /\ c \in CallRow /\ c.phase = "Sending" /\ c.action = act /\ c.under = under
  BY <1>7, <1>10, <1>12 DEF CallRow, Phase
<1>14. GoodCall(a, c)'
  BY <1>10, <1>13 DEF GoodCall, CallRow, Ledger!Settled
<1> QED
  BY <1>8, <1>9, <1>10, <1>11, <1>14, DispatchClaimMoves, OneCallHost

(* connector.write: the request leaves under its claim. *)
LEMMA SendKeeps ==
    ASSUME IInv, NEW a \in ActionIds, Send(a)
    PROVE  IInv'
<1>1. PICK act : act = calls[a].action
  OBVIOUS
<1>2. PICK under : under = calls[a].under
  OBVIOUS
<1>3. PICK e : e = [action |-> act, under |-> under]
  OBVIOUS
<1>4. /\ calls \in [ActionIds -> CallRow] /\ calls[a] \in CallRow
      /\ sends \in Seq([action : Writes, under : Int])
  BY CallByCall DEF IInv, SendInv
<1>5. /\ calls[a].phase = "Sending" /\ sends' = Append(sends, e)
      /\ UNCHANGED <<reviewVars, ledgerVars, exact, epoch, gate>>
  BY <1>1, <1>2, <1>3 DEF Send
<1>6. /\ act \in Writes /\ act.action_id = a /\ Approved(act, under) /\ under \in Int
  BY <1>1, <1>2, <1>4, <1>5 DEF IInv, CallInv, CallRow
<1>7. ReviewMoves /\ LedgerMoves /\ HostInv'
  BY <1>5, OutsideMoves DEF IInv, HostInv
<1>8. PICK out \in Ledger!Settled :
         calls' = [calls EXCEPT ![a].phase = "Answered", ![a].outcome = out]
  BY DEF Send, Ledger!Settled
<1>9. PICK c : c = [calls[a] EXCEPT !.phase = "Answered", !.outcome = out]
  OBVIOUS
<1>10. /\ c \in CallRow /\ c.phase = "Answered" /\ c.action = act /\ c.under = under
       /\ c.outcome = out
  BY <1>1, <1>2, <1>4, <1>8, <1>9 DEF CallRow, Phase
<1>11. calls' = [calls EXCEPT ![a] = c]
  BY <1>4, <1>8, <1>9
<1>12. Approved(act, under)'
  BY <1>5, <1>6, <1>7, Outlives
<1>13. GoodCall(a, c)'
  BY <1>6, <1>8, <1>10, <1>12 DEF GoodCall, CallRow, Ledger!Settled
<1>14. CallInv' /\ calls'[a] = c /\ \A b \in ActionIds : b # a => calls'[b] = calls[b]
  BY <1>5, <1>7, <1>11, <1>13, OneCallStep
<1>15. /\ e \in [action : Writes, under : Int] /\ e.action = act /\ e.under = under
  BY <1>3, <1>6
<1>16. /\ sends' \in Seq([action : Writes, under : Int])
       /\ DOMAIN sends' = DOMAIN sends \cup {Len(sends) + 1}
       /\ sends'[Len(sends) + 1] = e
       /\ \A i \in DOMAIN sends : sends'[i] = sends[i]
       /\ Len(sends) + 1 \notin DOMAIN sends
  BY <1>4, <1>5, <1>15
<1>17. ASSUME NEW i \in DOMAIN sends'
       PROVE  /\ Approved(sends[i].action, sends[i].under)'
              /\ calls'[sends'[i].action.action_id].phase \in {"Answered", "Gone"}
  <2>1. CASE i \in DOMAIN sends
    <3>1. PICK w : w = sends[i].action
      OBVIOUS
    <3>2. PICK u : u = sends[i].under
      OBVIOUS
    <3>3. Approved(w, u) /\ calls[w.action_id].phase \in {"Answered", "Gone"} /\ w.action_id \in ActionIds
      <4>1. Approved(w, u) /\ w.action_id \in SentIds
        BY <2>1, <3>1, <3>2 DEF IInv, SendInv, SentIds
      <4> QED
        BY <4>1, SentFacts
    <3>4. Approved(w, u)' /\ sends'[i].action = w /\ sends'[i].under = u
      BY <1>5, <1>7, <1>16, <2>1, <3>1, <3>2, <3>3, Outlives
    <3>5. Approved(sends[i].action, sends[i].under)'
      BY <3>4 DEF Approved, ApprovedBy
    <3>6. calls'[w.action_id].phase \in {"Answered", "Gone"}
      BY <1>10, <1>14, <3>3
    <3> QED
      BY <3>4, <3>5, <3>6
  <2>2. CASE i = Len(sends) + 1
    <3>1. sends'[i].action = act /\ sends'[i].under = under
      BY <1>15, <1>16, <2>2
    <3>2. Approved(sends[i].action, sends[i].under)'
      BY <1>12, <3>1 DEF Approved, ApprovedBy
    <3> QED
      BY <1>6, <1>10, <1>14, <3>1, <3>2
  <2> QED
    BY <1>16, <2>1, <2>2
<1>18. a \notin SentIds
  BY <1>5, SentFacts
<1>19. SentIds' = SentIds \cup {a}
  <2>1. \A i \in DOMAIN sends : sends'[i].action.action_id = sends[i].action.action_id
    BY <1>16
  <2>2. sends'[Len(sends) + 1].action.action_id = a
    BY <1>6, <1>15, <1>16
  <2>3. SentIds' = {sends'[i].action.action_id : i \in DOMAIN sends'}
    BY DEF SentIds
  <2> QED
    BY <1>16, <2>1, <2>2, <2>3 DEF SentIds
<1>20. Cardinality(SentIds') = Cardinality(SentIds) + 1 /\ Cardinality(SentIds) \in Nat /\ MaxEdits \in Nat
  BY <1>18, <1>19, SentFacts, FS_AddElement, LimitAssumption
<1>21. act.resource \in Resource
  BY <1>6, WriteFacts
<1>22. provider \in [Resource -> Int] /\ \A x \in Resource : provider[x] \in 0 .. MaxEdits + Cardinality(SentIds)
  BY DEF IInv, SendInv
<1>23. provider' = provider \/ provider' = [provider EXCEPT ![act.resource] = @ + 1]
  BY <1>1 DEF Send
<1>24. /\ provider' \in [Resource -> Int]
       /\ \A x \in Resource : provider'[x] \in 0 .. MaxEdits + Cardinality(SentIds')
  <2>1. PICK n : n = Cardinality(SentIds)
    OBVIOUS
  <2>2. PICK m : m = Cardinality(SentIds')
    OBVIOUS
  <2>3. n \in Nat /\ m = n + 1 /\ MaxEdits \in Nat
    BY <1>20, <2>1, <2>2
  <2>4. /\ provider' \in [Resource -> Int]
        /\ \A x \in Resource : provider'[x] \in 0 .. MaxEdits + m
    BY <1>21, <1>22, <1>23, <2>1, <2>3
  <2> QED
    BY <2>2, <2>4
<1>25. SendInv'
  BY <1>16, <1>17, <1>24 DEF SendInv
<1> QED
  BY <1>5, <1>7, <1>14, <1>25, Outlives DEF IInv

(* A crash forgets calls; none of them sends again. *)
LEMMA CrashKeeps ==
    ASSUME IInv, Crash
    PROVE  IInv'
<1>1. calls \in [ActionIds -> CallRow]
  BY CallByCall DEF IInv
<1>2. /\ calls' = [a \in ActionIds |-> IF calls[a].phase \in {"New", "Proposed"} THEN calls[a]
                                       ELSE [calls[a] EXCEPT !.phase = "Gone"]]
      /\ gate' = NoGate /\ UNCHANGED <<exact, epoch, provider, sends>>
  BY DEF Crash
<1>3. ASSUME NEW a \in ActionIds
      PROVE  /\ calls'[a] \in CallRow /\ (calls'[a] = calls[a] \/ GoodCall(a, calls[a])')
             /\ calls[a].phase \in {"Answered", "Gone"} => calls'[a].phase = "Gone"
  <2>1. CASE calls[a].phase \in {"New", "Proposed"}
    BY <1>1, <1>2, <2>1
  <2>2. CASE calls[a].phase \notin {"New", "Proposed"}
    <3>1. PICK c : c = [calls[a] EXCEPT !.phase = "Gone"]
      OBVIOUS
    <3>2. calls'[a] = c
      BY <1>2, <2>2, <3>1
    <3>3. c \in CallRow /\ c.phase = "Gone"
      BY <1>1, <3>1 DEF CallRow, Phase
    <3>4. GoodCall(a, c)'
      BY <3>3, IdleCall
    <3>5. GoodCall(a, calls[a])'
      BY <3>2, <3>4 DEF GoodCall
    <3> QED
      BY <3>2, <3>3, <3>5
  <2> QED
    BY <2>1, <2>2
<1>4. calls' \in [ActionIds -> CallRow]
  BY <1>2, <1>3
<1>5. CallInv'
  BY <1>2, <1>3, <1>4, CrashMoves, CallStep
<1>6. \A a \in SentIds : calls'[a].phase \in {"Answered", "Gone"}
  BY <1>3, SentFacts
<1>7. SendInv'
  BY <1>2, <1>6, CrashMoves, SendsKept
<1>8. HostInv'
  BY <1>2 DEF IInv, HostInv
<1> QED
  BY <1>2, <1>5, <1>7, <1>8, CrashMoves, Outlives DEF IInv

(* Steps of the ledgers alone. *)
LEMMA RestingHost ==
    ASSUME IInv, ReviewMoves, LedgerMoves, UNCHANGED hostVars PROVE IInv'
<1>1. UNCHANGED <<exact, epoch, gate, calls, provider, sends>>
  BY DEF hostVars
<1>2. HostInv'
  BY <1>1 DEF IInv, HostInv
<1> QED
  BY <1>1, <1>2, QuietHost

(* dispatch, first transaction: the locks go to a known call. *)
LEMMA DispatchReserveKeeps ==
    ASSUME IInv, NEW now \in Time, NEW a \in ActionIds, NEW ri \in RoundId,
           NEW ra \in RoundId \cup {NoId}, DispatchReserve(a, ri, ra, now)
    PROVE  IInv'
<1>1. /\ gate' = [action |-> a, issuance |-> ri, review |-> ra]
      /\ UNCHANGED <<exact, epoch, calls, provider, sends>>
  BY DEF DispatchReserve
<1>2. HostInv'
  BY <1>1 DEF IInv, HostInv
<1> QED
  BY <1>1, <1>2, DispatchReserveMoves, QuietHost

(* The locks are given back. *)
LEMMA DispatchAbandonKeeps ==
    ASSUME IInv, NEW now \in Time, DispatchAbandon(now) PROVE IInv'
<1>1. gate' = NoGate /\ UNCHANGED <<exact, epoch, calls, provider, sends>>
  BY DEF DispatchAbandon
<1>2. HostInv'
  BY <1>1 DEF IInv, HostInv
<1> QED
  BY <1>1, <1>2, DispatchAbandonMoves, QuietHost

(* A new epoch: what was released under the old one is kept on record. *)
LEMMA ChangeAuthorityKeeps ==
    ASSUME IInv, NEW ok, ChangeAuthority(ok) PROVE IInv'
<1>1. /\ epoch < MaxEpoch /\ epoch' = epoch + 1
      /\ UNCHANGED <<reviewVars, ledgerVars, exact, gate, calls, provider, sends>>
  BY DEF ChangeAuthority
<1>2. epoch' \in Reviews!Epoch
  BY <1>1, LimitFacts DEF IInv, HostInv, Reviews!Epoch
<1>3. HostInv'
  BY <1>1, <1>2 DEF IInv, HostInv
<1> QED
  BY <1>1, <1>3, OutsideMoves, QuietHost

(* Somebody else makes a version. *)
LEMMA EditKeeps ==
    ASSUME IInv, NEW x \in Resource, Edit(x) PROVE IInv'
<1>1. /\ provider[x] < MaxEdits /\ provider' = [provider EXCEPT ![x] = @ + 1]
      /\ UNCHANGED <<reviewVars, ledgerVars, exact, epoch, gate, calls, sends>>
  BY DEF Edit
<1>2. ReviewMoves /\ LedgerMoves /\ HostInv'
  BY <1>1, OutsideMoves DEF IInv, HostInv
<1>3. CallInv'
  BY <1>1, <1>2, CallsKept
<1>4. ASSUME NEW i \in DOMAIN sends
      PROVE  Approved(sends[i].action, sends[i].under)'
  <2>1. PICK w : w = sends[i].action
    OBVIOUS
  <2>2. PICK u : u = sends[i].under
    OBVIOUS
  <2>3. Approved(w, u)
    BY <2>1, <2>2 DEF IInv, SendInv
  <2>4. Approved(w, u)' /\ sends'[i].action = w /\ sends'[i].under = u
    BY <1>1, <1>2, <2>1, <2>2, <2>3, Outlives
  <2> QED
    BY <2>4 DEF Approved, ApprovedBy
<1>5. /\ provider' \in [Resource -> Int]
      /\ \A y \in Resource : provider'[y] \in 0 .. MaxEdits + Cardinality(SentIds)
  <2>1. PICK n : n = Cardinality(SentIds)
    OBVIOUS
  <2>2. n \in Nat /\ MaxEdits \in Nat
    BY <2>1, SentFacts, LimitAssumption
  <2>3. provider \in [Resource -> Int] /\ \A y \in Resource : provider[y] \in 0 .. MaxEdits + n
    BY <2>1 DEF IInv, SendInv
  <2> QED
    BY <1>1, <2>1, <2>2, <2>3
<1>6. SentIds' = SentIds
  BY <1>1 DEF SentIds
<1>7. SendInv'
  BY <1>1, <1>4, <1>5, <1>6 DEF IInv, SendInv
<1> QED
  BY <1>1, <1>2, <1>3, <1>7, Outlives DEF IInv

-----------------------------------------------------------------------------
(* The workflow starts in the invariant. *)
LEMMA InitHost ==
    ASSUME Init PROVE IInv
<1>1. RoundInv
  BY InitInvariant DEF Init
<1>2. Ledger!NoScope \in ScopeRow /\ Ledger!NoScope.issued_at = Ledger!None
  BY DEF Ledger!NoScope, ScopeRow, Ledger!None
<1>3. /\ Ledger!NoAction \in ActionRow /\ Ledger!NoAction.state = "Absent"
      /\ Ledger!NoAction.dispatch_claimed_at = Never
  BY DEF Ledger!NoAction, ActionRow, Ledger!None, Never
<1>4. /\ scopes = [s \in ScopeIds |-> Ledger!NoScope]
      /\ actions = [a \in ActionIds |-> Ledger!NoAction]
  BY IdFacts DEF Init, Ledger!Init
<1>5. ScopeInv
  BY <1>2, <1>4 DEF ScopeInv, Ledger!Issued
<1>6. ActionInv
  BY <1>3, <1>4 DEF ActionInv, Claimed
<1>7. NoCall \in CallRow /\ NoCall.phase = "New"
  BY DEF NoCall, CallRow, Phase, Never
<1>8. calls = [a \in ActionIds |-> NoCall]
  BY DEF Init
<1>9. CallInv
  <2>1. calls \in [ActionIds -> CallRow] /\ \A a \in ActionIds : calls[a].phase = "New"
    BY <1>7, <1>8
  <2> QED
    BY <2>1 DEF CallInv, CallRow
<1>10. SendInv
  <2>1. sends = <<>> /\ provider = [x \in Resource |-> 0] /\ MaxEdits \in Nat
    BY LimitAssumption DEF Init
  <2>2. SentIds = {}
    BY <2>1 DEF SentIds
  <2>3. Cardinality(SentIds) = 0
    BY <2>2, FS_EmptySet
  <2>4. \A x \in Resource : provider[x] \in 0 .. MaxEdits + Cardinality(SentIds)
    BY <2>1, <2>3
  <2> QED
    BY <2>1, <2>4 DEF SendInv
<1>11. HostInv
  BY LimitFacts DEF Init, HostInv, Reviews!Epoch
<1> QED
  BY <1>1, <1>5, <1>6, <1>9, <1>10, <1>11 DEF IInv, LedgerInv

(* Every step keeps it, and is a step, or none, of both ledgers. *)
LEMMA NextHost ==
    ASSUME IInv, [Next]_vars PROVE IInv' /\ ReviewMoves /\ LedgerMoves
<1>1. ASSUME NEW now \in Time, Read(now) \/ Refuse(now)
      PROVE  IInv' /\ ReviewMoves /\ LedgerMoves
  BY <1>1, ReadMoves, RefuseMoves, RestingHost DEF Read, Refuse
<1>2. ASSUME NEW now \in Time, NEW r \in RoundId, NEW s \in ScopeIds, Plan(r, s, now)
      PROVE  IInv' /\ ReviewMoves /\ LedgerMoves
  BY <1>2, PlanMoves, RestingHost DEF Plan
<1>3. ASSUME NEW now \in Time, NEW r \in RoundId, NEW decision \in Decision, Decide(r, decision, now)
      PROVE  IInv' /\ ReviewMoves /\ LedgerMoves
  BY <1>3, DecideMoves, RestingHost DEF Decide
<1>4. ASSUME NEW now \in Time, NEW r \in RoundId, Activate(r, now)
      PROVE  IInv' /\ ReviewMoves /\ LedgerMoves
  BY <1>4, ActivateMoves, RestingHost DEF Activate
<1>5. ASSUME NEW now \in Time, NEW a \in ActionIds, NEW q \in Request, NEW s \in ScopeIds,
             NEW x \in Resource, NEW ri \in RoundId, Prepare(a, q, s, x, ri, now)
      PROVE  IInv' /\ ReviewMoves /\ LedgerMoves
  BY <1>5, PrepareMoves, PrepareKeeps
<1>6. ASSUME NEW now \in Time, NEW a \in ActionIds, NEW r \in RoundId, NEW ri \in RoundId,
             ReviewAction(a, r, ri, now)
      PROVE  IInv' /\ ReviewMoves /\ LedgerMoves
  BY <1>6, ReviewActionMoves, ReviewActionKeeps
<1>7. ASSUME NEW now \in Time, NEW a \in ActionIds, NEW ri \in RoundId,
             NEW ra \in RoundId \cup {NoId}, DispatchReserve(a, ri, ra, now)
      PROVE  IInv' /\ ReviewMoves /\ LedgerMoves
  BY <1>7, DispatchReserveMoves, DispatchReserveKeeps
<1>8. ASSUME NEW now \in Time, DispatchClaim(now)
      PROVE  IInv' /\ ReviewMoves /\ LedgerMoves
  BY <1>8, DispatchClaimMoves, DispatchClaimKeeps
<1>9. ASSUME NEW now \in Time, DispatchAbandon(now)
      PROVE  IInv' /\ ReviewMoves /\ LedgerMoves
  BY <1>9, DispatchAbandonMoves, DispatchAbandonKeeps
<1>10. ASSUME NEW now \in Time, NEW a \in ActionIds, FinishSend(a, now)
       PROVE  IInv' /\ ReviewMoves /\ LedgerMoves
  BY <1>10, FinishSendMoves, FinishSendKeeps
<1>11. ASSUME NEW now \in Time, NEW s \in ScopeIds, RevokeScope(s, now)
       PROVE  IInv' /\ ReviewMoves /\ LedgerMoves
  BY <1>11, RevokeScopeMoves, RestingHost DEF RevokeScope
<1>12. ASSUME NEW now \in Time, Start(now)
       PROVE  IInv' /\ ReviewMoves /\ LedgerMoves
  BY <1>12, StartMoves, RestingHost DEF Start
<1>13. ASSUME NEW a \in ActionIds, ReadProvider(a)
       PROVE  IInv' /\ ReviewMoves /\ LedgerMoves
  BY <1>13, OutsideMoves, ReadProviderKeeps DEF ReadProvider
<1>14. ASSUME NEW a \in ActionIds, Send(a)
       PROVE  IInv' /\ ReviewMoves /\ LedgerMoves
  BY <1>14, OutsideMoves, SendKeeps DEF Send
<1>15. ASSUME NEW ok \in BOOLEAN, ChangeAuthority(ok)
       PROVE  IInv' /\ ReviewMoves /\ LedgerMoves
  BY <1>15, OutsideMoves, ChangeAuthorityKeeps DEF ChangeAuthority
<1>16. ASSUME NEW x \in Resource, Edit(x)
       PROVE  IInv' /\ ReviewMoves /\ LedgerMoves
  BY <1>16, OutsideMoves, EditKeeps DEF Edit
<1>17. CASE Crash
  BY <1>17, CrashMoves, CrashKeeps
<1>18. CASE UNCHANGED vars
  BY <1>18, OutsideMoves, RestingHost DEF vars
<1> QED
  BY <1>1, <1>2, <1>3, <1>4, <1>5, <1>6, <1>7, <1>8, <1>9, <1>10, <1>11, <1>12, <1>13, <1>14,
     <1>15, <1>16, <1>17, <1>18 DEF Next

(* The workflow drives the review ledger only through its calls: what is   *)
(* proved of that ledger holds behind the host.                            *)
THEOREM ReviewsImplemented == Spec => Reviews!Spec
<1>1. Init => Reviews!Init /\ IInv
  BY InitHost DEF Init
<1>2. IInv /\ [Next]_vars => IInv' /\ [Reviews!Next]_(Reviews!vars)
  BY NextHost DEF ReviewMoves
<1> QED
  BY <1>1, <1>2, PTL DEF Spec, Reviews!Spec

(* And so for the scope ledger: no dispatch, crash or refused request of   *)
(* the host reaches its tables in any other way.                           *)
THEOREM LedgerImplemented == Spec => Ledger!Spec
<1>1. Init => Ledger!Init /\ IInv
  BY InitHost DEF Init
<1>2. IInv /\ [Next]_vars => IInv' /\ [Ledger!Next]_(Ledger!vars)
  BY NextHost DEF LedgerMoves
<1> QED
  BY <1>1, <1>2, PTL DEF Spec, Ledger!Spec

(* For any number of rounds, scopes, calls and edits: the review rows of   *)
(* the running workflow always validate, so a restart always opens them.   *)
THEOREM WorkflowRowsValid == Spec => []RowsValid
<1>1. Init => IInv
  BY InitHost
<1>2. IInv /\ [Next]_vars => IInv'
  BY NextHost
<1>3. IInv => RowsValid
  BY DEF IInv, RoundInv, RowsValid, Reviews!RowsValid
<1> QED
  BY <1>1, <1>2, <1>3, PTL DEF Spec

(* For any number of concurrent calls, reviewers' epochs, crashes and      *)
(* provider edits: every request that ever left was approved by people,    *)
(* scope and exact write, under the authority its claim was taken in.      *)
THEOREM SendsReviewed == Spec => []SendReviewed
<1>1. Init => IInv
  BY InitHost
<1>2. IInv /\ [Next]_vars => IInv'
  BY NextHost
<1>3. ASSUME IInv PROVE SendReviewed
  <2> SUFFICES ASSUME NEW i \in DOMAIN sends
               PROVE  LET act == sends[i].action
                          g == scopes[act.scope_id].grant
                      IN  /\ ApprovedBy(Issuance(g), sends[i].under) # {}
                          /\ exact => \E r \in ApprovedBy(ExactAction(g, act), sends[i].under) :
                                actions[act.action_id].dispatch_claimed_at < rounds[r].expires_at
    BY DEF SendReviewed, ApprovedBy
  <2>1. Approved(sends[i].action, sends[i].under)
    BY <1>3 DEF IInv, SendInv
  <2> QED
    BY <2>1 DEF Approved
<1> QED
  BY <1>1, <1>2, <1>3, PTL DEF Spec

-----------------------------------------------------------------------------
(* The promise. *)

Sent == [i \in DOMAIN sends |-> sends[i].action]

(* What is released is a write. *)
LEMMA ReleasedNext ==
    ASSUME IInv' PROVE ReleasedNow' \in SUBSET Writes
<1>1. calls' \in [ActionIds -> CallRow]
  BY DEF IInv, CallInv, CallRow
<1>2. \A a \in ActionIds : calls'[a].action \in Writes \cup {NoId}
  BY <1>1 DEF CallRow
<1>3. ReleasedNow' \subseteq {calls'[a].action : a \in ActionIds} \ {NoId}
  BY DEF ReleasedNow
<1> QED
  BY <1>2, <1>3

(* Steps that claim and send nothing only change what is released. *)
LEMMA RuleStep ==
    ASSUME IInv, IInv', LedgerMoves, NoClaim, UNCHANGED sends
    PROVE  Promise!Rule
<1>1. LedgerStays
  BY LedgerStep DEF IInv, LedgerMoves
<1>2. ASSUME NEW a \in ActionIds
      PROVE  /\ Claimed(a)' <=> Claimed(a)
             /\ Claimed(a) => actions'[a].action = actions[a].action
  <2>1. actions[a].state = "Absent" => ~Claimed(a)
    BY DEF IInv, LedgerInv, ActionInv
  <2> QED
    BY <1>1, <2>1 DEF LedgerStays, NoClaim, Claimed
<1>3. Committed' = Committed
  <2>1. Committed = {actions[a].action : a \in {b \in ActionIds : Claimed(b)}}
    BY DEF Committed, Claimed
  <2>2. Committed' = {actions'[a].action : a \in {b \in ActionIds : Claimed(b)'}}
    BY DEF Committed, Claimed
  <2> QED
    BY <1>2, <2>1, <2>2
<1>4. ReleasedNow' \in SUBSET Writes
  BY ReleasedNext
<1>5. Sent' = Sent
  BY DEF Sent
<1> QED
  BY <1>3, <1>4, <1>5 DEF Promise!Rule, Sent

(* connector.write sends a committed write, once. *)
LEMMA SendStep ==
    ASSUME IInv, IInv', NEW a \in ActionIds, Send(a)
    PROVE  \E w \in Writes : Promise!Send(w)
<1>1. PICK w : w = calls[a].action
  OBVIOUS
<1>2. PICK e : e = [action |-> w, under |-> calls[a].under]
  OBVIOUS
<1>3. /\ calls[a].phase = "Sending" /\ sends' = Append(sends, e)
      /\ UNCHANGED <<reviewVars, ledgerVars, exact, epoch, gate>>
      /\ sends \in Seq([action : Writes, under : Int])
  BY <1>1, <1>2 DEF Send, IInv, SendInv
<1>4. w \in Writes /\ w.action_id = a /\ w = actions[a].action /\ Claimed(a)
  <2>1. w \in Writes /\ w.action_id = a /\ Approved(calls[a].action, calls[a].under)
    BY <1>1, <1>3 DEF IInv, CallInv
  <2> QED
    BY <1>1, <2>1 DEF Approved
<1>5. w \in Committed
  BY <1>4 DEF Committed, Claimed
<1>6. ASSUME NEW i \in DOMAIN Sent PROVE Sent[i] # w
  <2>1. i \in DOMAIN sends /\ Sent[i] = sends[i].action
    BY <1>6 DEF Sent
  <2>2. sends[i].action.action_id \in SentIds
    BY <2>1 DEF SentIds
  <2>3. a \notin SentIds
    BY <1>3, SentFacts
  <2> QED
    BY <1>4, <2>1, <2>2, <2>3
<1>7. Sent' = Append(Sent, w)
  <2>1. e.action = w
    BY <1>2
  <2>2. /\ DOMAIN sends' = 1 .. Len(sends) + 1 /\ DOMAIN sends = 1 .. Len(sends) /\ Len(sends) \in Nat
        /\ \A i \in 1 .. Len(sends) : sends'[i] = sends[i]
        /\ sends'[Len(sends) + 1] = e
    BY <1>3
  <2>3. Sent = [i \in 1 .. Len(sends) |-> sends[i].action]
    BY <2>2 DEF Sent
  <2>4. Sent' = [i \in 1 .. Len(sends) + 1 |-> sends'[i].action]
    BY <2>2 DEF Sent
  <2>5. Sent \in Seq(Writes) /\ Len(Sent) = Len(sends)
    <3>1. PICK n : n = Len(sends)
      OBVIOUS
    <3>2. \A i \in 1 .. n : sends[i].action \in Writes
      <4>1. \A i \in DOMAIN sends : Approved(sends[i].action, sends[i].under)
        BY DEF IInv, SendInv
      <4>2. \A i \in DOMAIN sends : sends[i].action \in Writes
        BY <4>1 DEF Approved
      <4> QED
        BY <2>2, <3>1, <4>2
    <3>3. Sent \in [1 .. n -> Writes] /\ n \in Nat
      BY <2>2, <2>3, <3>1, <3>2
    <3> QED
      BY <3>1, <3>3
  <2>6. Append(Sent, w) = [i \in 1 .. Len(sends) + 1 |-> IF i = Len(sends) + 1 THEN w ELSE Sent[i]]
    BY <1>4, <2>5
  <2>7. ASSUME NEW i \in 1 .. Len(sends) + 1
        PROVE  sends'[i].action = IF i = Len(sends) + 1 THEN w ELSE Sent[i]
    BY <2>1, <2>2, <2>3, <2>7
  <2> QED
    BY <2>4, <2>6, <2>7
<1>8. Committed' = Committed
  BY <1>3 DEF Committed, ledgerVars
<1>9. ReleasedNow' = ReleasedNow
  <2>1. \A b \in ActionIds : calls'[b].action = calls[b].action
    <3>1. PICK out : calls' = [calls EXCEPT ![a].phase = "Answered", ![a].outcome = out]
      BY DEF Send
    <3>2. calls \in [ActionIds -> CallRow]
      BY CallByCall DEF IInv
    <3> QED
      BY <3>1, <3>2 DEF CallRow
  <2>2. {calls'[b].action : b \in ActionIds} = {calls[b].action : b \in ActionIds}
    BY <2>1
  <2>3. UNCHANGED <<rounds, last_now, scopes, exact, epoch>>
    BY <1>3 DEF reviewVars, ledgerVars
  <2>4. ASSUME NEW u, NEW ri, NEW ra
        PROVE  Guard(scopes[u.scope_id].grant, u, ri, ra, last_now)'
                  <=> Guard(scopes[u.scope_id].grant, u, ri, ra, last_now)
    BY <2>3 DEF Guard, ScopeApproved, ActionApproved, Reviews!RetainedApproval, Ledger!Within
  <2>5. ASSUME NEW u PROVE Ledger!Issued(u.scope_id)' <=> Ledger!Issued(u.scope_id)
    BY <2>3 DEF Ledger!Issued
  <2> QED
    BY <2>2, <2>4, <2>5 DEF ReleasedNow
<1> QED
  BY <1>4, <1>5, <1>6, <1>7, <1>8, <1>9 DEF Promise!Send, Sent

(* dispatch commits a write while everything releases it. *)
LEMMA CommitStep ==
    ASSUME IInv, IInv', NEW now \in Time, DispatchClaim(now)
    PROVE  \E w \in Writes : Promise!Commit(w)
<1>1. PICK a : a = gate.action
  OBVIOUS
<1>2. PICK w : w = actions[a].action
  OBVIOUS
<1>3. PICK g : g = scopes[w.scope_id].grant
  OBVIOUS
<1>4. PICK ri : ri = gate.issuance
  OBVIOUS
<1>5. PICK ra : ra = gate.review
  OBVIOUS
<1>6. PICK under : under = epoch
  OBVIOUS
<1>7. /\ gate # NoGate /\ Guard(g, w, ri, ra, now) /\ Reviews!Lookup(now)
      /\ Ledger!ClaimDispatch(a, now)
      /\ calls' = [calls EXCEPT ![a] = [phase |-> "Sending", action |-> w,
                                        outcome |-> "None", under |-> epoch]]
      /\ UNCHANGED <<exact, epoch, provider, sends>>
  BY <1>1, <1>2, <1>3, <1>4, <1>5 DEF DispatchClaim
<1>8. a \in ActionIds /\ ri \in RoundId /\ ra \in RoundId \cup {NoId}
  BY <1>1, <1>4, <1>5, <1>7 DEF IInv, HostInv
<1>9. /\ w \in Writes /\ w.action_id = a /\ Ledger!Issued(w.scope_id)
      /\ scopes'[w.scope_id].grant = g
      /\ rounds'[ri] = rounds[ri] /\ (ra # NoId => rounds'[ra] = rounds[ra])
  BY <1>2, <1>3, <1>6, <1>7, <1>8, ClaimReleases
<1>10. /\ actions[a].state = "Reserved" /\ actions'[a].dispatch_claimed_at = now
       /\ actions'[a].action = w /\ now # Never /\ LedgerStays
       /\ \A b \in ActionIds : b # a => actions'[b] = actions[b]
  BY <1>2, <1>7, <1>8, ClaimStep DEF IInv
<1>11. ~Claimed(a)
  BY <1>8, <1>10 DEF IInv, LedgerInv, ActionInv
<1>12. Committed' = Committed \cup {w}
  <2>1. Committed = {actions[b].action : b \in {c \in ActionIds : Claimed(c)}}
    BY DEF Committed, Claimed
  <2>2. Committed' = {actions'[b].action : b \in {c \in ActionIds : Claimed(c)'}}
    BY DEF Committed, Claimed
  <2>3. /\ Claimed(a)' /\ actions'[a].action = w
        /\ \A b \in ActionIds : b # a => (Claimed(b)' <=> Claimed(b)) /\ actions'[b].action = actions[b].action
    BY <1>10 DEF Claimed
  <2> QED
    BY <1>8, <1>11, <2>1, <2>2, <2>3
<1>13. ASSUME NEW v \in Committed
       PROVE  <<v.scope_id, v.request_id>> # <<w.scope_id, w.request_id>>
  <2>1. PICK b \in ActionIds : v = actions[b].action /\ Claimed(b)
    BY <1>13 DEF Committed, Claimed
  <2>2. actions[b].state # "Absent" /\ b # a /\ actions[a].state # "Absent"
    BY <1>10, <1>11, <2>1 DEF IInv, LedgerInv, ActionInv
  <2>3. ~(v.scope_id = w.scope_id /\ v.request_id = w.request_id)
    BY <1>2, <1>8, <2>1, <2>2 DEF IInv, LedgerInv, ActionInv
  <2> QED
    BY <2>3
<1>14. w \in ReleasedNow'
  <2>1. calls'[a].action = w
    <3>1. calls \in [ActionIds -> CallRow]
      BY CallByCall DEF IInv
    <3> QED
      BY <1>7, <1>8, <3>1
  <2>2. w # NoId
    BY <1>9, WriteFacts
  <2>3. Ledger!Issued(w.scope_id)'
    BY <1>9, <1>10, WriteFacts DEF LedgerStays
  <2>4. last_now' = now
    BY <1>7 DEF Reviews!Lookup, Reviews!Seen
  <2>5. Guard(g, w, ri, ra, now)'
    BY <1>7, <1>9 DEF Guard, ScopeApproved, ActionApproved, Reviews!RetainedApproval, Ledger!Within
  <2>6. Guard(scopes[w.scope_id].grant, w, ri, ra, last_now)'
    BY <1>9, <2>4, <2>5 DEF Guard, ScopeApproved, ActionApproved, Reviews!RetainedApproval, Ledger!Within
  <2> QED
    BY <1>8, <2>1, <2>2, <2>3, <2>6 DEF ReleasedNow
<1>15. ReleasedNow' \in SUBSET Writes
  BY ReleasedNext
<1>16. Sent' = Sent
  BY <1>7 DEF Sent
<1> QED
  BY <1>9, <1>12, <1>13, <1>14, <1>15, <1>16 DEF Promise!Commit, Sent

(* Every step of the workflow is one the promise allows. *)
LEMMA NextPromise ==
    ASSUME IInv, IInv', [Next]_vars PROVE Promise!Next
<1>1. ASSUME NEW now \in Time, Read(now) \/ Refuse(now) PROVE Promise!Next
  BY <1>1, ReadMoves, RefuseMoves, RuleStep DEF Read, Refuse, hostVars, Promise!Next
<1>2. ASSUME NEW now \in Time, NEW r \in RoundId, NEW s \in ScopeIds, Plan(r, s, now)
      PROVE  Promise!Next
  BY <1>2, PlanMoves, RuleStep DEF Plan, hostVars, Promise!Next
<1>3. ASSUME NEW now \in Time, NEW r \in RoundId, NEW decision \in Decision, Decide(r, decision, now)
      PROVE  Promise!Next
  BY <1>3, DecideMoves, RuleStep DEF Decide, hostVars, Promise!Next
<1>4. ASSUME NEW now \in Time, NEW r \in RoundId, Activate(r, now)
      PROVE  Promise!Next
  BY <1>4, ActivateMoves, RuleStep DEF Activate, hostVars, Promise!Next
<1>5. ASSUME NEW now \in Time, NEW a \in ActionIds, NEW q \in Request, NEW s \in ScopeIds,
             NEW x \in Resource, NEW ri \in RoundId, Prepare(a, q, s, x, ri, now)
      PROVE  Promise!Next
  BY <1>5, PrepareMoves, RuleStep DEF Prepare, Promise!Next
<1>6. ASSUME NEW now \in Time, NEW a \in ActionIds, NEW r \in RoundId, NEW ri \in RoundId,
             ReviewAction(a, r, ri, now)
      PROVE  Promise!Next
  BY <1>6, ReviewActionMoves, RuleStep DEF ReviewAction, Promise!Next
<1>7. ASSUME NEW now \in Time, NEW a \in ActionIds, NEW ri \in RoundId,
             NEW ra \in RoundId \cup {NoId}, DispatchReserve(a, ri, ra, now)
      PROVE  Promise!Next
  BY <1>7, DispatchReserveMoves, RuleStep DEF DispatchReserve, Promise!Next
<1>8. ASSUME NEW now \in Time, DispatchClaim(now) PROVE Promise!Next
  BY <1>8, CommitStep DEF Promise!Next
<1>9. ASSUME NEW now \in Time, DispatchAbandon(now) PROVE Promise!Next
  BY <1>9, DispatchAbandonMoves, RuleStep DEF DispatchAbandon, Promise!Next
<1>10. ASSUME NEW now \in Time, NEW a \in ActionIds, FinishSend(a, now) PROVE Promise!Next
  BY <1>10, FinishSendMoves, RuleStep DEF FinishSend, Promise!Next
<1>11. ASSUME NEW now \in Time, NEW s \in ScopeIds, RevokeScope(s, now) PROVE Promise!Next
  BY <1>11, RevokeScopeMoves, RuleStep DEF RevokeScope, hostVars, Promise!Next
<1>12. ASSUME NEW now \in Time, Start(now) PROVE Promise!Next
  BY <1>12, StartMoves, RuleStep DEF Start, hostVars, Promise!Next
<1>13. ASSUME NEW a \in ActionIds, ReadProvider(a) PROVE Promise!Next
  BY <1>13, OutsideMoves, RuleStep DEF ReadProvider, Promise!Next
<1>14. ASSUME NEW a \in ActionIds, Send(a) PROVE Promise!Next
  BY <1>14, SendStep DEF Promise!Next
<1>15. ASSUME NEW ok \in BOOLEAN, ChangeAuthority(ok) PROVE Promise!Next
  BY <1>15, OutsideMoves, RuleStep DEF ChangeAuthority, Promise!Next
<1>16. ASSUME NEW x \in Resource, Edit(x) PROVE Promise!Next
  BY <1>16, OutsideMoves, RuleStep DEF Edit, Promise!Next
<1>17. CASE Crash
  BY <1>17, CrashMoves, RuleStep DEF Crash, Promise!Next
<1>18. CASE UNCHANGED vars
  BY <1>18, OutsideMoves, RuleStep DEF vars, hostVars, Promise!Next
<1> QED
  BY <1>1, <1>2, <1>3, <1>4, <1>5, <1>6, <1>7, <1>8, <1>9, <1>10, <1>11, <1>12, <1>13, <1>14,
     <1>15, <1>16, <1>17, <1>18 DEF Next

(* For any rounds, scopes, writes, calls and limits, and whatever crashes: *)
(* the workflow implements OneTimeWrite.  A write is committed only at a   *)
(* moment when reviews, scope, policy and authority release it, at most    *)
(* once per request of a scope, and leaves at most once, after that.       *)
THEOREM PromiseKept == Spec => KeepsPromise
<1>1. Init => IInv
  BY InitHost
<1>2. IInv /\ [Next]_vars => IInv'
  BY NextHost
<1>3. ASSUME Init PROVE Promise!Init
  <2>1. ReleasedNow = {}
    <3>1. \A a \in ActionIds : calls[a].action = NoId
      BY <1>3 DEF Init, NoCall
    <3> QED
      BY <3>1 DEF ReleasedNow
  <2>2. Committed = {}
    <3>1. actions = [a \in ActionIds |-> Ledger!NoAction] /\ Ledger!NoAction.dispatch_claimed_at = Never
      BY <1>3, IdFacts DEF Init, Ledger!Init, Ledger!NoAction, Ledger!None, Never
    <3> QED
      BY <3>1 DEF Committed
  <2>3. Sent = <<>>
    BY <1>3 DEF Init, Sent
  <2> QED
    BY <2>1, <2>2, <2>3 DEF Promise!Init, Sent
<1>4. IInv /\ IInv' /\ [Next]_vars => [Promise!Next]_(Promise!vars)
  BY NextPromise
<1> QED
  BY <1>1, <1>2, <1>3, <1>4, PTL DEF Spec, KeepsPromise, Promise!Spec

(* So no round the host runs is decided twice, nor a receipt rewritten. *)
THEOREM WorkflowDecisionsFinal == Spec => Reviews!DecisionFinal
BY ReviewsImplemented, DecisionsFinal, PTL

-----------------------------------------------------------------------------
(* What ScopeStoreProofs shows of the scope ledger holds behind the host. *)

Store == INSTANCE ScopeStoreProofs
         WITH Grant <- Drafts, Action <- Writes,
              Evidence <- [evaluated_at : 0 .. MaxTime,
                            expires_at : 0 .. MaxTime + ScopeSeconds,
                            review_expires_at : -1 .. MaxTime + ScopeSeconds],
              MaxDepth <- 0

(* The assumptions of the ledger, of the host's drafts and writes. *)
LEMMA StoreAssumptions ==
    /\ 0 \in Nat /\ MaxTime \in Nat
    /\ NoId \notin Store!ScopeId /\ NoId \notin Store!ActionId /\ Store!ActionId \subseteq Int
    /\ \A e \in Evidences : /\ e.evaluated_at \in Nat /\ e.expires_at \in Nat
                            /\ e.review_expires_at \in Nat \cup {Store!None}
    /\ \A g \in Drafts :
          /\ g.parent_id \in (Store!ScopeId \ {g.scope_id}) \cup {NoId}
          /\ g.not_before \in Nat /\ g.expires_at \in Nat
          /\ g.not_before < g.expires_at
          /\ g.delegations_remaining \in 0 .. 0
          /\ g.max_charged_attempts \in Nat \ {0}
          /\ Store!IsFiniteSet(g.resources)
          /\ g.max_distinct_resources \in 1 .. Store!Cardinality(g.resources)
          /\ g.exact_action \in BOOLEAN
    /\ \A a \in Writes : a.scope_id \in Store!ScopeId
<1>1. Store!ScopeId = Ledger!ScopeId /\ Store!ActionId = Ledger!ActionId
  BY DEF Store!ScopeId, Ledger!ScopeId, Store!ActionId, Ledger!ActionId
<1>2. NoId \notin ScopeIds /\ NoId \notin ActionIds /\ ActionIds \subseteq Int /\ MaxTime \in Nat
  BY IdAssumption, LimitAssumption
<1>3. \A e \in Evidences : /\ e.evaluated_at \in Nat /\ e.expires_at \in Nat
                          /\ e.review_expires_at \in Nat \cup {Store!None}
  BY LimitAssumption DEF Evidences, Store!None
<1>4. ASSUME NEW g \in Drafts
      PROVE  /\ g.parent_id \in (Store!ScopeId \ {g.scope_id}) \cup {NoId}
             /\ g.not_before \in Nat /\ g.expires_at \in Nat
             /\ g.not_before < g.expires_at
             /\ g.delegations_remaining \in 0 .. 0
             /\ g.max_charged_attempts \in Nat \ {0}
             /\ Store!IsFiniteSet(g.resources)
             /\ g.max_distinct_resources \in 1 .. Store!Cardinality(g.resources)
             /\ g.exact_action \in BOOLEAN
  <2>1. PICK s \in ScopeIds, now \in Time, review \in BOOLEAN : g = Draft(s, now, review)
    BY DEF Drafts
  <2>2. /\ g.parent_id = NoId /\ g.not_before = now /\ g.expires_at = now + ScopeSeconds
        /\ g.delegations_remaining = 0 /\ g.max_charged_attempts = MaxAttempts
        /\ g.resources = Resource /\ g.max_distinct_resources = Cardinality(Resource)
        /\ g.exact_action = review
    BY <2>1 DEF Draft
  <2>3. /\ now \in Nat /\ ScopeSeconds \in Nat \ {0} /\ MaxAttempts \in Nat \ {0}
    BY IdFacts, LimitAssumption
  <2>4. IsFiniteSet(Resource) /\ Cardinality(Resource) \in Nat /\ Cardinality(Resource) # 0
    BY LimitAssumption, FS_CardinalityType, FS_EmptySet
  <2>5. Store!IsFiniteSet(Resource) /\ Store!Cardinality(Resource) = Cardinality(Resource)
    BY <2>4 DEF IsFiniteSet, Store!IsFiniteSet, Cardinality, Store!Cardinality
  <2>6. Cardinality(Resource) \in 1 .. Cardinality(Resource)
    BY <2>4
  <2>7. now + ScopeSeconds \in Nat /\ now < now + ScopeSeconds
    BY <2>3
  <2> QED
    BY <2>2, <2>3, <2>5, <2>6, <2>7
<1>5. \A a \in Writes : a.scope_id \in ScopeIds
  BY WriteFacts
<1> QED
  BY <1>1, <1>2, <1>3, <1>4, <1>5, IdFacts

(* One ledger, named twice: the definitions are the same. *)
LEMMA SameStore ==
    /\ Ledger!Init => Store!Init
    /\ [Ledger!Next]_(Ledger!vars) => [Store!Next]_(Store!vars)
    /\ Store!EvidenceValid => Ledger!EvidenceValid
    /\ Store!TreeBudget => Ledger!TreeBudget
<1> USE DEF Ledger!None, Store!None, Ledger!ScopeId, Store!ScopeId, Ledger!ActionId, Store!ActionId,
            Ledger!Time, Store!Time, Ledger!NoScope, Store!NoScope, Ledger!NoAction, Store!NoAction,
            Ledger!Pending, Store!Pending, Ledger!Settled, Store!Settled, Ledger!Issued, Store!Issued,
            Ledger!Charged, Store!Charged, Ledger!Parent, Store!Parent, Ledger!UpClosed,
            Store!UpClosed, Ledger!Chain, Store!Chain, Ledger!ScopeOf, Store!ScopeOf, Ledger!ChildOf,
            Store!ChildOf, Ledger!Within, Store!Within, Ledger!ActiveChain, Store!ActiveChain,
            Ledger!Admissible, Store!Admissible, Ledger!Event, Store!Event,
            Ledger!Cardinality, Store!Cardinality, Ledger!Observe, Store!Observe, Ledger!Log, Store!Log
<1>1. Ledger!Init => Store!Init
  BY DEF Ledger!Init, Store!Init
<1>2. Store!ValidEvidence <=> Ledger!ValidEvidence
  BY DEF Ledger!ValidEvidence, Store!ValidEvidence, Ledger!ValidScope, Store!ValidScope,
         Ledger!InForce, Store!InForce, Ledger!ValidAction, Store!ValidAction,
         Ledger!ChargesOn, Store!ChargesOn, Ledger!ValidCharges, Store!ValidCharges,
         Ledger!Subject, Store!Subject, Ledger!Seen, Store!Seen, Ledger!ActionEvent, Store!ActionEvent,
         Ledger!ScopeEvent, Store!ScopeEvent, Ledger!ValidEvent, Store!ValidEvent,
         Ledger!EventsComplete, Store!EventsComplete
<1>3. Ledger!Next => Store!Next
  <2>1. Ledger!Open => Store!Open
    BY <1>2 DEF Ledger!Open, Store!Open, Ledger!Ascending, Store!Ascending
  <2>2. Ledger!Close => Store!Close
    BY DEF Ledger!Close, Store!Close
  <2>3. ASSUME NEW now PROVE Ledger!Refused(now) => Store!Refused(now)
    BY DEF Ledger!Refused, Store!Refused
  <2>4. ASSUME NEW g, NEW now PROVE Ledger!IssueScope(g, now) => Store!IssueScope(g, now)
    BY DEF Ledger!IssueScope, Store!IssueScope
  <2>5. ASSUME NEW a, NEW e, NEW now PROVE Ledger!Reserve(a, e, now) => Store!Reserve(a, e, now)
    BY DEF Ledger!Reserve, Store!Reserve, Ledger!FreshRequest, Store!FreshRequest,
           Ledger!BudgetLeft, Store!BudgetLeft
  <2>6. ASSUME NEW a, NEW now PROVE Ledger!ClaimDispatch(a, now) => Store!ClaimDispatch(a, now)
    BY DEF Ledger!ClaimDispatch, Store!ClaimDispatch
  <2>7. ASSUME NEW a, NEW o, NEW now PROVE Ledger!Finish(a, o, now) => Store!Finish(a, o, now)
    BY DEF Ledger!Finish, Store!Finish
  <2>8. ASSUME NEW s, NEW now PROVE Ledger!Revoke(s, now) => Store!Revoke(s, now)
    BY DEF Ledger!Revoke, Store!Revoke
  <2> QED
    BY <2>1, <2>2, <2>3, <2>4, <2>5, <2>6, <2>7, <2>8 DEF Ledger!Next, Store!Next
<1>4. Store!EvidenceValid => Ledger!EvidenceValid
  BY <1>2 DEF Ledger!EvidenceValid, Store!EvidenceValid
<1>5. Store!TreeBudget => Ledger!TreeBudget
  BY DEF Ledger!TreeBudget, Store!TreeBudget, Ledger!ChargesOn, Store!ChargesOn
<1> QED
  BY <1>1, <1>3, <1>4, <1>5 DEF Ledger!vars, Store!vars

(* Its action properties, too. *)
LEMMA SameHistory ==
    /\ Store!WithdrawalFinal => Ledger!WithdrawalFinal
    /\ Store!HistoryExtends => Ledger!HistoryExtends
<1> USE DEF Ledger!None, Store!None, Ledger!ScopeId, Store!ScopeId, Ledger!ActionId, Store!ActionId,
            Ledger!Pending, Store!Pending, Ledger!Settled, Store!Settled, Ledger!Issued, Store!Issued,
            Ledger!Parent, Store!Parent, Ledger!UpClosed, Store!UpClosed, Ledger!Chain, Store!Chain,
            Ledger!vars, Store!vars
<1>1. Store!WithdrawalFinal => Ledger!WithdrawalFinal
  BY DEF Ledger!WithdrawalFinal, Store!WithdrawalFinal, Ledger!Withdrawn, Store!Withdrawn
<1>2. Store!HistoryExtends => Ledger!HistoryExtends
  BY DEF Ledger!HistoryExtends, Store!HistoryExtends, Ledger!Extends, Store!Extends
<1> QED
  BY <1>1, <1>2

(* Whatever the host is asked, refused or interrupted in: its scope ledger *)
(* passes the evidence validator, so it can always be opened and exported, *)
(* budgets bind, a revoked or expired scope is never charged or claimed    *)
(* under again, and every export extends the earlier ones.                 *)
THEOREM WorkflowLedgerSound ==
    Spec => /\ [](Ledger!EvidenceValid /\ Ledger!TreeBudget)
            /\ Ledger!WithdrawalFinal /\ Ledger!HistoryExtends
<1>1. Store!Spec => []Store!EvidenceValid
  BY Store!EvidenceAlwaysValid, StoreAssumptions DEF Evidences
<1>2. Store!Spec => []Store!TreeBudget
  BY Store!BudgetsBind, StoreAssumptions DEF Evidences
<1>3. Store!Spec => Store!WithdrawalFinal /\ Store!HistoryExtends
  BY Store!WithdrawalsFinal, Store!HistoryOnlyExtends, StoreAssumptions DEF Evidences
<1> QED
  BY <1>1, <1>2, <1>3, LedgerImplemented, SameStore, SameHistory, PTL DEF Ledger!Spec, Store!Spec
=============================================================================
