----------------------------- MODULE ScopeRuntime -----------------------------
(***************************************************************************)
(* The typed scope workflow of the daemon: plan, review, activate,         *)
(* prepare, review again, execute (crates/opaqued/src/scope_runtime.rs,    *)
(* with the support connector of scope_runtime/connector.rs).  It composes *)
(* the review ledger, the scope ledger, the current authority of reviewer  *)
(* and workstation, and a provider whose records others also change.       *)
(*                                                                         *)
(* Runtime::authority holds the pairing and identity locks over a whole    *)
(* closure.  A closure is one step, except that a dispatch reserves and    *)
(* claims in two ledger transactions, between which the host may crash:    *)
(* gate says who holds the locks in between.                               *)
(***************************************************************************)
EXTENDS Integers, Sequences, FiniteSets

CONSTANTS
    RoundId,            \* review rounds
    NoSubject,
    MaxRounds, MaxPending, RoundSeconds,    \* limits of the review ledger
    ScopeIds,            \* scope identifiers
    ActionIds,           \* action identifiers, one per prepare or run call
    Request,            \* request identifiers callers choose
    Resource,           \* provider records
    NoId,
    ScopeSeconds,       \* expires_in_secs of every plan
    MaxAttempts,        \* max_attempts of every plan
    EvidenceSeconds,    \* lifetime of admission evidence, 60 s in the code
    MaxTime, MaxEpoch, MaxEdits     \* bounds explored

ASSUME LimitAssumption ==
    /\ {MaxRounds, MaxPending, MaxTime, MaxEpoch, MaxEdits} \subseteq Nat
    /\ {RoundSeconds, ScopeSeconds, EvidenceSeconds, MaxAttempts} \subseteq Nat \ {0}
    /\ RoundId \subseteq Nat /\ IsFiniteSet(RoundId)
    /\ ActionIds \subseteq Nat /\ IsFiniteSet(ActionIds)
    /\ {} \notin {ScopeIds, Request, Resource} /\ IsFiniteSet(Resource)

Time == 0 .. MaxTime

(* The connector's version of a record: every edit makes a new one. *)
Version == 0 .. MaxEdits + Cardinality(ActionIds)

VARIABLES
    rounds, last_now, serving,
                \* the review ledger: see ScopeReview
    scopes, actions, events, last_seen, open, corrupt, observed,
                \* the scope ledger: see ScopeStore
    exact,      \* Config::exact_action
    epoch,      \* authority and enrolment epoch of the configured reviewer
    eligible,   \* reviewer and workstation are currently authorised
    gate,       \* the dispatch that holds the authority locks
    calls,      \* per action: the host call that prepares or sends it
    provider,   \* provider records: current version
    sends       \* history: requests that left for the provider

reviewVars == <<rounds, last_now, serving>>
ledgerVars == <<scopes, actions, events, last_seen, open, corrupt, observed>>
hostVars == <<exact, epoch, eligible, gate, calls, provider, sends>>
vars == <<reviewVars, ledgerVars, hostVars>>

-----------------------------------------------------------------------------
(* plan: the draft of a scope asked for at a time. *)
Draft(s, now, review) ==
    [scope_id |-> s, parent_id |-> NoId, not_before |-> now,
     expires_at |-> now + ScopeSeconds, delegations_remaining |-> 0,
     max_charged_attempts |-> MaxAttempts,
     max_distinct_resources |-> Cardinality(Resource),
     resources |-> Resource, exact_action |-> review]

(* prepare: the exact provider write one call proposes. *)
Prepared(a, q, s, x, version) ==
    [action_id |-> a, request_id |-> q, scope_id |-> s, resource |-> x,
     version |-> version]

Drafts == {Draft(s, now, review) : s \in ScopeIds, now \in Time, review \in BOOLEAN}
Writes == {Prepared(a, q, s, x, v) :
             a \in ActionIds, q \in Request, s \in ScopeIds, x \in Resource, v \in Version}

ASSUME IdAssumption ==
    \A S \in {RoundId, ScopeIds, ActionIds, Writes} : NoId \notin S

(* The scope ledger behind the host. *)
Ledger == INSTANCE ScopeStore
          WITH Grant <- Drafts, Action <- Writes,
               Evidence <- [evaluated_at : 0 .. MaxTime,
                            expires_at : 0 .. MaxTime + ScopeSeconds,
                            review_expires_at : -1 .. MaxTime + ScopeSeconds],
               MaxDepth <- 0

Issuance(g) == [scope |-> g, action |-> NoId]
ExactAction(g, act) == [scope |-> g, action |-> act]

(* The review ledger. *)
Reviews == INSTANCE ScopeReview
           WITH Subject <- {Issuance(g) : g \in Drafts}
                      \cup {ExactAction(g, act) : g \in Drafts, act \in Writes}

Never == -1
Decision == {"Approve", "Reject"}

NoGate == [action |-> NoId, issuance |-> NoId, review |-> NoId]
NoCall == [phase |-> "New", action |-> NoId, outcome |-> "None", under |-> Never]

(* authority: locks free, reviewer and workstation currently authorised. *)
Authority == open /\ serving /\ gate = NoGate /\ eligible

(* grant: the scope is issued, not revoked and inside its window. *)
ActiveScope(s, now) == Ledger!Issued(s) /\ Ledger!ActiveChain(s, now)

(* revalidate_scope: the grant is the draft an accepted round issued. *)
ScopeApproved(g, ri, now) ==
    /\ Reviews!RetainedApproval(ri, epoch, now)
    /\ rounds[ri].subject = Issuance(g)
    /\ Ledger!Within(g, now)

(* revalidate_action, and policy for the call without a review. *)
ActionApproved(g, act, ra, now) ==
    IF ra = NoId THEN ~exact
    ELSE /\ Reviews!RetainedApproval(ra, epoch, now)
         /\ rounds[ra].created_at <= now /\ now < rounds[ra].expires_at
         /\ rounds[ra].subject = ExactAction(g, act)

(* Guard::verify_action *)
Guard(g, act, ri, ra, now) ==
    ScopeApproved(g, ri, now) /\ ActionApproved(g, act, ra, now)

-----------------------------------------------------------------------------
(* Steps of the host's requests. *)

(* A request refused after the review ledger has seen its time, or a read. *)
Read(now) ==
    /\ Authority
    /\ Reviews!Lookup(now)
    /\ UNCHANGED <<ledgerVars, hostVars>>

(* A request the scope ledger refuses after seeing its time. *)
Refuse(now) ==
    /\ Authority
    /\ Reviews!Lookup(now)
    /\ Ledger!Refused(now)
    /\ UNCHANGED hostVars

Plan(r, s, now) ==
    /\ Authority
    /\ \A q \in Reviews!Kept : rounds[q].subject.scope.scope_id # s
    /\ Reviews!IssueRound(r, Issuance(Draft(s, now, exact)), epoch, now)
    /\ UNCHANGED <<ledgerVars, hostVars>>

(* submit by the reviewer's workstation. *)
Decide(r, decision, now) ==
    LET subject == rounds[r].subject
    IN  /\ Authority
        /\ subject # NoSubject
        /\ subject.action # NoId => ActiveScope(subject.scope.scope_id, now)
        /\ Reviews!Submit(r, decision, epoch, now)
        /\ UNCHANGED <<ledgerVars, hostVars>>

Activate(r, now) ==
    /\ Authority
    /\ Reviews!Lookup(now)
    /\ rounds[r].subject # NoSubject
    /\ ScopeApproved(rounds[r].subject.scope, r, now)
    /\ Ledger!IssueScope(rounds[r].subject.scope, now)
    /\ UNCHANGED hostVars

(* prepare, up to the provider read, which happens outside the locks. *)
Prepare(a, q, s, x, ri, now) ==
    /\ Authority
    /\ Reviews!Lookup(now)
    /\ calls[a].phase = "New" /\ \A b \in ActionIds : b < a => calls[b].phase # "New"
    /\ ActiveScope(s, now)
    /\ ScopeApproved(scopes[s].grant, ri, now)
    /\ calls' = [calls EXCEPT ![a].phase = "Reading",
                              ![a].action = Prepared(a, q, s, x, 0)]
    /\ UNCHANGED <<ledgerVars, exact, epoch, eligible, gate, provider, sends>>

(* connector.read: the version the reviewer will see; or it fails. *)
ReadProvider(a) ==
    /\ open /\ serving
    /\ calls[a].phase = "Reading"
    /\ \/ calls' = [calls EXCEPT ![a].phase = "Prepared",
                                 ![a].action.version = provider[calls[a].action.resource]]
       \/ calls' = [calls EXCEPT ![a].phase = "Gone"]
    /\ UNCHANGED <<reviewVars, ledgerVars, exact, epoch, eligible, gate, provider, sends>>

(* review_action: scope and authority are checked again after the read. *)
ReviewAction(a, r, ri, now) ==
    LET act == calls[a].action
        g == scopes[act.scope_id].grant
    IN  /\ Authority
        /\ calls[a].phase = "Prepared"
        /\ ActiveScope(act.scope_id, now)
        /\ ScopeApproved(g, ri, now)
        /\ Reviews!IssueRound(r, ExactAction(g, act), epoch, now)
        /\ calls' = [calls EXCEPT ![a].phase = "Proposed"]
        /\ UNCHANGED <<ledgerVars, exact, epoch, eligible, gate, provider, sends>>

(* The write a dispatch is about: the reviewed one (execute), or the one   *)
(* just prepared (run).                                                    *)
Candidate(a, ra) ==
    IF ra = NoId
    THEN {act \in {calls[a].action} : calls[a].phase = "Prepared" /\ ~exact}
    ELSE IF rounds[ra].decision = "None" THEN {}
    ELSE {act \in {rounds[ra].subject.action} : act # NoId /\ act.action_id = a}

EvidenceAt(g, ra, now) ==
    LET until == IF ra = NoId THEN g.expires_at ELSE rounds[ra].expires_at
    IN  [evaluated_at |-> now,
         expires_at |-> IF now + EvidenceSeconds < until
                        THEN now + EvidenceSeconds ELSE until,
         review_expires_at |-> IF ra = NoId THEN Ledger!None ELSE until]

(* dispatch, first transaction: a new charge, or this call's own action    *)
(* still reserved.  Any other retained record ends the call: Refuse.       *)
DispatchReserve(a, ri, ra, now) ==
    \E act \in Candidate(a, ra) :
        LET g == scopes[act.scope_id].grant
        IN  /\ Authority
            /\ Reviews!Lookup(now)
            /\ ra = NoId => ActiveScope(act.scope_id, now)
            /\ rounds[ri].decision # "None" /\ rounds[ri].authority = epoch
            /\ ra # NoId => /\ Reviews!RetainedApproval(ra, epoch, now)
                            /\ now < rounds[ra].expires_at
            /\ \/ /\ Guard(g, act, ri, ra, now)
                  /\ Ledger!Reserve(act, EvidenceAt(g, ra, now), now)
               \/ /\ actions[a].state = "Reserved" /\ actions[a].action = act
                  /\ Ledger!Refused(now)
            /\ gate' = [action |-> a, issuance |-> ri, review |-> ra]
            /\ UNCHANGED <<exact, epoch, eligible, calls, provider, sends>>

(* dispatch, second transaction: the one-time claim, under the same locks. *)
DispatchClaim(now) ==
    LET a == gate.action
        act == actions[a].action
    IN  /\ gate # NoGate
        /\ Reviews!Lookup(now)
        /\ Guard(scopes[act.scope_id].grant, act, gate.issuance, gate.review, now)
        /\ Ledger!ClaimDispatch(a, now)
        /\ gate' = NoGate
        /\ calls' = [calls EXCEPT ![a] = [phase |-> "Sending", action |-> act,
                                          outcome |-> "None", under |-> epoch]]
        /\ UNCHANGED <<exact, epoch, eligible, provider, sends>>

(* The claim is refused: out of time, by storage, or the clock went back. *)
DispatchAbandon(now) ==
    /\ gate # NoGate
    /\ gate' = NoGate
    /\ \/ Reviews!Lookup(now) /\ Ledger!Refused(now)
       \/ now < last_now /\ Ledger!Refused(now) /\ UNCHANGED reviewVars
       \/ now < last_seen /\ UNCHANGED <<reviewVars, ledgerVars>>
    /\ UNCHANGED <<exact, epoch, eligible, calls, provider, sends>>

(* connector.write: one conditional request.  The provider applies it when *)
(* the version still matches; the answer, or the request, may be lost.     *)
Send(a) ==
    LET act == calls[a].action
        matches == provider[act.resource] = act.version
    IN  /\ open /\ serving
        /\ calls[a].phase = "Sending"
        /\ \/ /\ matches
              /\ provider' = [provider EXCEPT ![act.resource] = @ + 1]
              /\ \E out \in {"ApiAccepted", "Unknown"} :
                    calls' = [calls EXCEPT ![a].phase = "Answered", ![a].outcome = out]
           \/ /\ \E out \in {"Unknown"} \cup (IF matches THEN {} ELSE {"Rejected"}) :
                    calls' = [calls EXCEPT ![a].phase = "Answered", ![a].outcome = out]
              /\ UNCHANGED provider
        /\ sends' = Append(sends, [action |-> act, under |-> calls[a].under])
        /\ UNCHANGED <<reviewVars, ledgerVars, exact, epoch, eligible, gate>>

(* finish: settles the attempt, or fails and leaves it to the next start. *)
FinishSend(a, now) ==
    /\ open /\ serving
    /\ calls[a].phase = "Answered"
    /\ calls' = [calls EXCEPT ![a].phase = "Gone"]
    /\ \/ Ledger!Finish(a, calls[a].outcome, now)
       \/ now < last_seen /\ UNCHANGED ledgerVars
    /\ UNCHANGED <<reviewVars, exact, epoch, eligible, gate, provider, sends>>

(* scope_revoke: takes the identity lock, not the reviewer's authority. *)
RevokeScope(s, now) ==
    /\ open /\ serving /\ gate = NoGate
    /\ Ledger!Revoke(s, now)
    /\ UNCHANGED <<reviewVars, hostVars>>

-----------------------------------------------------------------------------
(* The surroundings. *)

(* Roles, enrolment or the reviewer's eligibility change, under the locks. *)
ChangeAuthority(ok) ==
    /\ gate = NoGate
    /\ epoch < MaxEpoch
    /\ epoch' = epoch + 1
    /\ eligible' = ok
    /\ UNCHANGED <<reviewVars, ledgerVars, exact, gate, calls, provider, sends>>

(* Somebody else changes a provider record. *)
Edit(x) ==
    /\ provider[x] < MaxEdits
    /\ provider' = [provider EXCEPT ![x] = @ + 1]
    /\ UNCHANGED <<reviewVars, ledgerVars, exact, epoch, eligible, gate, calls, sends>>

(* The daemon stops at any point; what was in memory is gone. *)
Crash ==
    /\ Reviews!CloseReviews
    /\ Ledger!Close
    /\ gate' = NoGate
    /\ calls' = [a \in ActionIds |->
                   IF calls[a].phase \in {"New", "Proposed"} THEN calls[a]
                   ELSE [calls[a] EXCEPT !.phase = "Gone"]]
    /\ UNCHANGED <<exact, epoch, eligible, provider, sends>>

(* Mutant: attempts the crash cut off are offered again. *)
StartRetry(now) ==
    /\ Reviews!OpenReviews(now)
    /\ ~open /\ open' = TRUE
    /\ actions' = [a \in ActionIds |->
                     IF actions[a].state = "DispatchClaimed"
                     THEN [actions[a] EXCEPT !.state = "Reserved"] ELSE actions[a]]
    /\ UNCHANGED <<scopes, events, last_seen, corrupt, observed, hostVars>>

(* Runtime::open: the review ledger, then the scope ledger. *)
Start(now) ==
    /\ Reviews!OpenReviews(now)
    /\ Ledger!Open
    /\ UNCHANGED hostVars

-----------------------------------------------------------------------------
Init ==
    /\ Reviews!Init
    /\ Ledger!Init
    /\ exact \in BOOLEAN
    /\ epoch = 0
    /\ eligible = TRUE
    /\ gate = NoGate
    /\ calls = [a \in ActionIds |-> NoCall]
    /\ provider = [x \in Resource |-> 0]
    /\ sends = <<>>

Next ==
    \/ \E now \in Time :
          \/ Read(now)
          \/ Refuse(now)
          \/ \E r \in RoundId, s \in ScopeIds : Plan(r, s, now)
          \/ \E r \in RoundId, decision \in Decision : Decide(r, decision, now)
          \/ \E r \in RoundId : Activate(r, now)
          \/ \E a \in ActionIds, q \in Request, s \in ScopeIds, x \in Resource,
                ri \in RoundId : Prepare(a, q, s, x, ri, now)
          \/ \E a \in ActionIds, r, ri \in RoundId : ReviewAction(a, r, ri, now)
          \/ \E a \in ActionIds, ri \in RoundId, ra \in RoundId \cup {NoId} :
                DispatchReserve(a, ri, ra, now)
          \/ DispatchClaim(now)
          \/ DispatchAbandon(now)
          \/ \E a \in ActionIds : FinishSend(a, now)
          \/ \E s \in ScopeIds : RevokeScope(s, now)
          \/ Start(now)
    \/ \E a \in ActionIds : ReadProvider(a)
    \/ \E a \in ActionIds : Send(a)
    \/ \E ok \in BOOLEAN : ChangeAuthority(ok)
    \/ \E x \in Resource : Edit(x)
    \/ Crash

Spec == Init /\ [][Next]_vars

-----------------------------------------------------------------------------
(* Properties. *)

(* Every history of legal calls, refused calls and restarts leaves review  *)
(* rows that the next opening accepts (validate_rows): receipts, states,   *)
(* clock and capacity agree, so a round that expired or was lost to a      *)
(* restart never carries, and never regains, a decision.                   *)
RowsValid == Reviews!RowsValid

(* Every request that left was released by people: the reviewer approved   *)
(* the scope and, when the policy asks for it, this very write at the      *)
(* version then read, both under the authority in force when the dispatch  *)
(* was claimed, and the claim fell inside the round (Guard::verify_action).*)
SendReviewed ==
    \A i \in DOMAIN sends :
       LET act == sends[i].action
           g == scopes[act.scope_id].grant
           approved(subject) ==
              {r \in Reviews!Kept : /\ rounds[r].subject = subject
                            /\ rounds[r].decision = "Approve"
                            /\ rounds[r].authority = sends[i].under}
       IN  /\ approved(Issuance(g)) # {}
           /\ exact => \E r \in approved(ExactAction(g, act)) :
                          actions[act.action_id].dispatch_claimed_at < rounds[r].expires_at

(* The workflow implements its promise.  Released: the guard would admit   *)
(* the write now.  Committed: its one-time claim was ever taken.           *)
ReleasedNow ==
    {w \in {calls[a].action : a \in ActionIds} \ {NoId} :
       /\ Ledger!Issued(w.scope_id)
       /\ \E ri \in RoundId, ra \in RoundId \cup {NoId} :
             Guard(scopes[w.scope_id].grant, w, ri, ra, last_now)}

Committed == {actions[a].action : a \in {b \in ActionIds : actions[b].dispatch_claimed_at # Never}}

Promise == INSTANCE OneTimeWrite
           WITH Write <- Writes,
                RequestOf <- LAMBDA w : <<w.scope_id, w.request_id>>,
                released <- ReleasedNow,
                committed <- Committed,
                sent <- [i \in DOMAIN sends |-> sends[i].action]

(* Whatever is repeated, lost, withdrawn or interrupted by a crash, every  *)
(* write leaves at most once, under a claim taken when the reviews, the    *)
(* scope and the current authority all released it, and no request of a    *)
(* scope is claimed twice (dispatch, claim_dispatch, open).                *)
KeepsPromise == Promise!Spec
=============================================================================
