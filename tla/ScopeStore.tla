------------------------------ MODULE ScopeStore ------------------------------
(***************************************************************************)
(* The scope authority ledger: delegated grants with budgets, charged      *)
(* attempts, one-time dispatch claims and an append-only event history     *)
(* (crates/opaque-bounded-work/src/scope_store.rs), together with the      *)
(* portable evidence validator that every restart and every export runs    *)
(* over it (crates/opaque-core/src/scope_evidence.rs).                     *)
(*                                                                         *)
(* Grants and proposed actions are members of small sets.  A digest stands *)
(* for its content, so digests are not kept.  The host's AuthorityGuard    *)
(* callback may refuse any call: see Refused.                              *)
(***************************************************************************)
EXTENDS Integers, Sequences, FiniteSets

CONSTANTS
    Grant,      \* the grants callers present
    Action,     \* the prepared actions callers present
    Evidence,   \* the admission evidence presented with them
    NoId,       \* no parent scope; no action
    MaxDepth,   \* MAX_DEPTH, 8 in the code
    MaxTime     \* bound on the timestamps explored

ScopeId == {g.scope_id : g \in Grant}
ActionId == {a.action_id : a \in Action}
Time == 0 .. MaxTime
None == -1

ASSUME BoundAssumption == MaxDepth \in Nat /\ MaxTime \in Nat
ASSUME IdAssumption == /\ NoId \notin ScopeId /\ NoId \notin ActionId
                       /\ ActionId \subseteq Int
ASSUME EvidenceAssumption ==
    \A e \in Evidence : /\ e.evaluated_at \in Nat /\ e.expires_at \in Nat
                       /\ e.review_expires_at \in Nat \cup {None}
(* ScopeGrant::canonicalized *)
ASSUME GrantAssumption ==
    \A g \in Grant :
       /\ g.parent_id \in (ScopeId \ {g.scope_id}) \cup {NoId}
       /\ g.not_before \in Nat /\ g.expires_at \in Nat
       /\ g.not_before < g.expires_at
       /\ g.delegations_remaining \in 0 .. MaxDepth
       /\ g.max_charged_attempts \in Nat \ {0}
       /\ IsFiniteSet(g.resources)
       /\ g.max_distinct_resources \in 1 .. Cardinality(g.resources)
       /\ g.exact_action \in BOOLEAN
ASSUME ActionAssumption == \A a \in Action : a.scope_id \in ScopeId

VARIABLES
    scopes,     \* scope_grants
    actions,    \* scope_actions
    events,     \* scope_events, by sequence number
    last_seen,  \* scope_meta.last_seen
    open,       \* a host holds the writer lock
    corrupt,    \* opening the ledger has failed with Corrupt
    observed    \* history: the latest time the ledger let a call through with

vars == <<scopes, actions, events, last_seen, open, corrupt, observed>>

-----------------------------------------------------------------------------
(* Data. *)

NoScope == [grant |-> NoId, issued_at |-> None, revoked_at |-> None,
            charged_attempts |-> 0, charged_resources |-> {}]

NoAction == [action |-> NoId, evidence |-> NoId, state |-> "Absent",
             reserved_at |-> None,
             dispatch_claimed_at |-> None, finished_at |-> None]

Pending == {"Reserved", "DispatchClaimed"}
Settled == {"ApiAccepted", "Rejected", "Unknown"}

Issued(s) == scopes[s].issued_at # None
Charged(a) == actions[a].state # "Absent"

Parent(s) == IF Issued(s) THEN scopes[s].grant.parent_id ELSE NoId

(* chain: a scope and its ancestors, that is, what is in every set with    *)
(* the scope that has the parent of each of its members.                   *)
UpClosed(S) == \A s \in S : Parent(s) # NoId => Parent(s) \in S

Chain(id) ==
    {s \in ScopeId : \A S \in SUBSET ScopeId : id \in S /\ UpClosed(S) => s \in S}

ScopeOf(a) == actions[a].action.scope_id

(* ScopeGrant::validate_child_of. *)
ChildOf(child, parent) ==
    /\ child.parent_id = parent.scope_id
    /\ child.not_before >= parent.not_before
    /\ child.expires_at <= parent.expires_at
    /\ child.delegations_remaining < parent.delegations_remaining
    /\ child.max_charged_attempts <= parent.max_charged_attempts
    /\ child.max_distinct_resources <= parent.max_distinct_resources
    /\ child.resources \subseteq parent.resources
    /\ parent.exact_action => child.exact_action

Within(g, now) == g.not_before <= now /\ now < g.expires_at

ActiveChain(id, now) ==
    \A s \in Chain(id) : /\ scopes[s].revoked_at = None
                         /\ Within(scopes[s].grant, now)

(* AdmissionEvidence::validate_for, with PreparedAction::validate_for. *)
Admissible(g, a, evidence, now) ==
    /\ a.scope_id = g.scope_id
    /\ a.resource \in g.resources
    /\ evidence.evaluated_at <= now
    /\ now < evidence.expires_at
    /\ evidence.expires_at <= g.expires_at
    /\ IF evidence.review_expires_at = None
       THEN ~g.exact_action
       ELSE now < evidence.review_expires_at /\ evidence.review_expires_at <= g.expires_at

Event(kind, s, a, at) ==
    [kind |-> kind, scope_id |-> s, action_id |-> a, observed_at |-> at]

-----------------------------------------------------------------------------
(* ScopeEvidence::validate over the ledger as it stands. *)

ValidScope(s) ==
    LET r == scopes[s]
    IN  /\ \A p \in Chain(s) : Issued(p)
        /\ \A p \in Chain(s) :
              LET up == scopes[p].grant.parent_id
              IN  up # NoId => ChildOf(scopes[p].grant, scopes[up].grant)
        /\ r.issued_at <= last_seen
        /\ r.issued_at < r.grant.expires_at
        /\ r.revoked_at # None =>
              r.issued_at <= r.revoked_at /\ r.revoked_at <= last_seen
        /\ r.charged_attempts <= r.grant.max_charged_attempts
        /\ Cardinality(r.charged_resources) <= r.grant.max_distinct_resources
        /\ \A p \in Chain(s) \ {s} :
              /\ scopes[p].issued_at <= r.issued_at
              /\ Within(scopes[p].grant, r.issued_at)
              /\ scopes[p].revoked_at # None => r.issued_at <= scopes[p].revoked_at

(* Every ancestor was in force at time at. *)
InForce(s, at) ==
    \A p \in Chain(s) : /\ Within(scopes[p].grant, at)
                        /\ scopes[p].revoked_at # None => at <= scopes[p].revoked_at

ValidAction(a) ==
    LET r == actions[a]
        s == ScopeOf(a)
        g == scopes[s].grant
    IN  /\ Issued(s)
        /\ Admissible(g, r.action, r.evidence, r.reserved_at)
        /\ InForce(s, r.reserved_at)
        /\ scopes[s].issued_at <= r.reserved_at /\ r.reserved_at <= last_seen
        /\ r.dispatch_claimed_at # None =>
              /\ Admissible(g, r.action, r.evidence, r.dispatch_claimed_at)
              /\ InForce(s, r.dispatch_claimed_at)
              /\ r.reserved_at <= r.dispatch_claimed_at
              /\ r.dispatch_claimed_at <= last_seen
        /\ r.finished_at # None =>
              /\ r.reserved_at <= r.finished_at
              /\ r.dispatch_claimed_at <= r.finished_at
              /\ r.finished_at <= last_seen
        /\ r.state = "Reserved" => r.dispatch_claimed_at = None /\ r.finished_at = None
        /\ r.state = "DispatchClaimed" =>
              r.dispatch_claimed_at # None /\ r.finished_at = None
        /\ r.state = "ApiAccepted" =>
              r.dispatch_claimed_at # None /\ r.finished_at # None
        /\ r.state = "Rejected" => r.finished_at # None

(* The charges on a scope, counted again from the actions below it. *)
ChargesOn(s) == {a \in ActionId : Charged(a) /\ s \in Chain(ScopeOf(a))}

ValidCharges(s) ==
    /\ scopes[s].charged_attempts = Cardinality(ChargesOn(s))
    /\ scopes[s].charged_resources = {actions[a].action.resource : a \in ChargesOn(s)}

(* The identity an event is unique under: its action, else its scope. *)
Subject(e) == IF e.action_id = NoId THEN e.scope_id ELSE e.action_id

(* One of the first j events tells this of the subject. *)
Seen(j, id, kind) ==
    \E k \in 1 .. j : Subject(events[k]) = id /\ events[k].kind = kind

(* What an event tells is what the record says. *)
ActionEvent(e) ==
    LET r == actions[e.action_id]
    IN  /\ Charged(e.action_id)
        /\ e.scope_id = ScopeOf(e.action_id)
        /\ CASE e.kind = "AttemptCharged"  -> e.observed_at = r.reserved_at
             [] e.kind = "DispatchClaimed" ->
                   e.observed_at = r.dispatch_claimed_at /\ e.observed_at # None
             [] e.kind = "AttemptFinished" ->
                   e.observed_at = r.finished_at /\ e.observed_at # None
             [] e.kind = "Interrupted"     ->
                   /\ e.observed_at = None
                   /\ r.state = "Unknown" /\ r.finished_at = None
             [] OTHER -> FALSE

ScopeEvent(e) ==
    CASE e.kind = "ScopeIssued"  -> e.observed_at = scopes[e.scope_id].issued_at
      [] e.kind = "ScopeRevoked" ->
            e.observed_at = scopes[e.scope_id].revoked_at /\ e.observed_at # None
      [] OTHER -> FALSE

(* Event number i against the records and the events before it. *)
ValidEvent(i) ==
    LET e == events[i]
    IN  /\ Issued(e.scope_id)
        /\ e.observed_at # None =>
              /\ e.observed_at <= last_seen
              /\ \A k \in 1 .. i - 1 : events[k].observed_at <= e.observed_at
        /\ ~Seen(i - 1, Subject(e), e.kind)
        /\ Seen(i, e.scope_id, "ScopeIssued")
        /\ e.kind \in {"ScopeIssued", "AttemptCharged", "DispatchClaimed"} =>
              \A p \in Chain(e.scope_id) : /\ Seen(i, p, "ScopeIssued")
                                           /\ ~Seen(i, p, "ScopeRevoked")
        /\ IF e.action_id = NoId THEN ScopeEvent(e) ELSE ActionEvent(e)
        /\ e.action_id # NoId => Seen(i, e.action_id, "AttemptCharged")
        /\ e.kind \in {"AttemptFinished", "Interrupted"}
           /\ actions[e.action_id].dispatch_claimed_at # None
           => Seen(i, e.action_id, "DispatchClaimed")

(* Every fact the records state has its event. *)
EventsComplete ==
    LET logged(id, kind) == Seen(Len(events), id, kind)
    IN  /\ \A s \in ScopeId : Issued(s) =>
              /\ logged(s, "ScopeIssued")
              /\ scopes[s].revoked_at # None => logged(s, "ScopeRevoked")
        /\ \A a \in ActionId : Charged(a) =>
              /\ logged(a, "AttemptCharged")
              /\ actions[a].dispatch_claimed_at # None => logged(a, "DispatchClaimed")
              /\ actions[a].finished_at # None => logged(a, "AttemptFinished")
              /\ actions[a].state = "Unknown" /\ actions[a].finished_at = None
                 => logged(a, "Interrupted")

ValidEvidence ==
    /\ \A s \in ScopeId : Issued(s) => ValidScope(s) /\ ValidCharges(s)
    /\ \A a \in ActionId : Charged(a) => ValidAction(a)
    /\ \A a, b \in ActionId :
          /\ Charged(a) /\ Charged(b) /\ ScopeOf(a) = ScopeOf(b)
          /\ actions[a].action.request_id = actions[b].action.request_id
          => a = b
    /\ \A i \in DOMAIN events : ValidEvent(i)
    /\ EventsComplete

-----------------------------------------------------------------------------
(* Mutant: a call from the past moves the clock back. *)
ObserveAny(now) ==
    /\ open
    /\ last_seen' = now
    /\ observed' = IF now > observed THEN now ELSE observed
    /\ UNCHANGED <<open, corrupt>>

(* mutate: a call behind the ledger's clock is refused and writes nothing; *)
(* any other call moves the clock, whether or not it succeeds.             *)
Observe(now) ==
    /\ open
    /\ now >= last_seen
    /\ last_seen' = now
    /\ observed' = IF now > observed THEN now ELSE observed
    /\ UNCHANGED <<open, corrupt>>

Log(e) == events' = Append(events, e)

(* Mutant: a refused call does not persist the time it observed. *)
RefusedRolledBack(now) ==
    /\ open
    /\ now >= last_seen
    /\ observed' = IF now > observed THEN now ELSE observed
    /\ UNCHANGED <<scopes, actions, events, last_seen, open, corrupt>>

(* A call that fails by its own conditions or by the host's guard, and a   *)
(* repetition of an issuance or a reservation, which returns the record.   *)
Refused(now) == Observe(now) /\ UNCHANGED <<scopes, actions, events>>

IssueScope(g, now) ==
    LET s == g.scope_id
    IN  /\ Observe(now)
        /\ ~Issued(s)
        /\ now < g.expires_at
        /\ g.parent_id # NoId =>
              /\ Issued(g.parent_id)
              /\ ActiveChain(g.parent_id, now)
              /\ ChildOf(g, scopes[g.parent_id].grant)
              /\ Cardinality(Chain(g.parent_id)) <= MaxDepth
        /\ scopes' = [scopes EXCEPT ![s] = [NoScope EXCEPT !.grant = g,
                                                           !.issued_at = now]]
        /\ Log(Event("ScopeIssued", s, NoId, now))
        /\ UNCHANGED actions

(* No charge under this action id, nor under this request of the scope. *)
FreshRequest(a) ==
    /\ ~Charged(a.action_id)
    /\ \A b \in ActionId : Charged(b) =>
          ~(ScopeOf(b) = a.scope_id /\ actions[b].action.request_id = a.request_id)

(* Mutant: one attempt too many. *)
BudgetOffByOne(s, resource) ==
    LET r == scopes[s]
    IN  /\ r.charged_attempts <= r.grant.max_charged_attempts
        /\ \/ resource \in r.charged_resources
           \/ Cardinality(r.charged_resources) < r.grant.max_distinct_resources

BudgetLeft(s, resource) ==
    LET r == scopes[s]
    IN  /\ r.charged_attempts < r.grant.max_charged_attempts
        /\ \/ resource \in r.charged_resources
           \/ Cardinality(r.charged_resources) < r.grant.max_distinct_resources

(* One permanent charge on the scope and all its ancestors, or none. *)
Reserve(a, evidence, now) ==
    LET s == a.scope_id
        chain == Chain(s)
    IN  /\ Observe(now)
        /\ FreshRequest(a)
        /\ Issued(s)
        /\ ActiveChain(s, now)
        /\ Admissible(scopes[s].grant, a, evidence, now)
        /\ \A p \in chain : BudgetLeft(p, a.resource)
        /\ scopes' = [p \in ScopeId |->
                        IF p \in chain
                        THEN [scopes[p] EXCEPT !.charged_attempts = @ + 1,
                                               !.charged_resources = @ \cup {a.resource}]
                        ELSE scopes[p]]
        /\ actions' = [actions EXCEPT ![a.action_id] =
                         [NoAction EXCEPT !.action = a, !.evidence = evidence,
                                          !.state = "Reserved", !.reserved_at = now]]
        /\ Log(Event("AttemptCharged", s, a.action_id, now))

(* Mutant: the evidence is not validated again at the claim. *)
ClaimDispatchStale(a, now) ==
    LET s == ScopeOf(a)
    IN  /\ Observe(now)
        /\ actions[a].state = "Reserved"
        /\ ActiveChain(s, now)
        /\ actions' = [actions EXCEPT ![a].state = "DispatchClaimed",
                                      ![a].dispatch_claimed_at = now]
        /\ Log(Event("DispatchClaimed", s, a, now))
        /\ UNCHANGED scopes

(* The single claim that precedes a provider write. *)
ClaimDispatch(a, now) ==
    LET s == ScopeOf(a)
        r == actions[a]
    IN  /\ Observe(now)
        /\ r.state = "Reserved"
        /\ ActiveChain(s, now)
        /\ Admissible(scopes[s].grant, r.action, r.evidence, now)
        /\ actions' = [actions EXCEPT ![a].state = "DispatchClaimed",
                                      ![a].dispatch_claimed_at = now]
        /\ Log(Event("DispatchClaimed", s, a, now))
        /\ UNCHANGED scopes

Finish(a, outcome, now) ==
    /\ Observe(now)
    /\ actions[a].state \in Pending
    /\ outcome = "ApiAccepted" => actions[a].state = "DispatchClaimed"
    /\ actions' = [actions EXCEPT ![a].state = outcome, ![a].finished_at = now]
    /\ Log(Event("AttemptFinished", ScopeOf(a), a, now))
    /\ UNCHANGED scopes

Revoke(s, now) ==
    /\ Observe(now)
    /\ Issued(s)
    /\ scopes[s].revoked_at = None
    /\ scopes' = [scopes EXCEPT ![s].revoked_at = now]
    /\ Log(Event("ScopeRevoked", s, NoId, now))
    /\ UNCHANGED actions

(* The host stops or crashes; the database is durable. *)
Close ==
    /\ open
    /\ open' = FALSE
    /\ UNCHANGED <<scopes, actions, events, last_seen, corrupt, observed>>

Ascending(ids) == \A i, j \in DOMAIN ids : i < j => ids[i] < ids[j]

(* open: the whole ledger must validate; then every unfinished attempt, in *)
(* the order of their ids, becomes Unknown and is logged without a time.   *)
Open ==
    LET cut == {a \in ActionId : actions[a].state \in Pending}
    IN  /\ ~open
        /\ IF ValidEvidence
           THEN /\ open' = TRUE
                /\ actions' = [a \in ActionId |->
                                 IF a \in cut
                                 THEN [actions[a] EXCEPT !.state = "Unknown"]
                                 ELSE actions[a]]
                /\ \E ids \in [1 .. Cardinality(cut) -> cut] :
                      /\ Ascending(ids)
                      /\ events' = events \o [i \in 1 .. Cardinality(cut) |->
                                      Event("Interrupted", ScopeOf(ids[i]), ids[i], None)]
                /\ UNCHANGED corrupt
           ELSE corrupt' = TRUE /\ UNCHANGED <<open, actions, events>>
        /\ UNCHANGED <<scopes, last_seen, observed>>

-----------------------------------------------------------------------------
Init ==
    /\ scopes = [s \in ScopeId |-> NoScope]
    /\ actions = [a \in ActionId |-> NoAction]
    /\ events = <<>>
    /\ last_seen = 0
    /\ open = TRUE
    /\ corrupt = FALSE
    /\ observed = 0

Next ==
    \/ \E now \in Time :
          \/ Refused(now)
          \/ \E g \in Grant : IssueScope(g, now)
          \/ \E a \in Action, evidence \in Evidence :
                Reserve(a, evidence, now)
          \/ \E a \in ActionId : ClaimDispatch(a, now)
          \/ \E a \in ActionId, outcome \in Settled : Finish(a, outcome, now)
          \/ \E s \in ScopeId : Revoke(s, now)
    \/ Close
    \/ Open

Spec == Init /\ [][Next]_vars

-----------------------------------------------------------------------------
(* Properties. *)

OptTime == Time \cup {None}

EventKind == {"ScopeIssued", "ScopeRevoked", "AttemptCharged",
              "DispatchClaimed", "AttemptFinished", "Interrupted"}

(* Shapes of the tables; last_seen is a time some call has shown. *)
TypeOK ==
    /\ scopes \in [ScopeId -> [grant : Grant \cup {NoId}, issued_at : OptTime,
                               revoked_at : OptTime, charged_attempts : Nat,
                               charged_resources :
                                  SUBSET UNION {g.resources : g \in Grant}]]
    /\ actions \in [ActionId -> [action : Action \cup {NoId},
                                 evidence : Evidence \cup {NoId},
                                 state : Pending \cup Settled \cup {"Absent"},
                                 reserved_at : OptTime,
                                 dispatch_claimed_at : OptTime,
                                 finished_at : OptTime]]
    /\ events \in Seq([kind : EventKind, scope_id : ScopeId,
                       action_id : ActionId \cup {NoId}, observed_at : OptTime])
    /\ last_seen \in Time /\ observed \in Time
    /\ open \in BOOLEAN /\ corrupt \in BOOLEAN

(* Whatever was issued, charged, claimed, finished, revoked, refused or    *)
(* interrupted, in whatever order, the ledger passes the portable evidence *)
(* validator (verify_all, export_evidence): records, recomputed charges    *)
(* and event history agree, so no history of legal calls leaves a ledger   *)
(* that cannot be opened or exported again.                                *)
EvidenceValid == ~corrupt /\ ValidEvidence

(* validate_extension: what one export states, every later export repeats. *)
(* The event history only grows, grants and issue times stay, a revocation *)
(* and a dispatch claim keep their time, and a settled attempt is final.   *)
Extends(older, newer) ==
    /\ older.last_seen <= newer.last_seen
    /\ Len(older.events) <= Len(newer.events)
    /\ SubSeq(newer.events, 1, Len(older.events)) = older.events
    /\ \A i \in Len(older.events) + 1 .. Len(newer.events) :
          newer.events[i].observed_at # None =>
             older.last_seen <= newer.events[i].observed_at
    /\ \A s \in ScopeId : older.scopes[s].issued_at # None =>
          /\ newer.scopes[s].grant = older.scopes[s].grant
          /\ newer.scopes[s].issued_at = older.scopes[s].issued_at
          /\ older.scopes[s].revoked_at \in {None, newer.scopes[s].revoked_at}
    /\ \A a \in ActionId : older.actions[a].state # "Absent" =>
          /\ newer.actions[a].action = older.actions[a].action
          /\ newer.actions[a].evidence = older.actions[a].evidence
          /\ newer.actions[a].reserved_at = older.actions[a].reserved_at
          /\ older.actions[a].dispatch_claimed_at
                \in {None, newer.actions[a].dispatch_claimed_at}
          /\ older.actions[a].state \in Settled => newer.actions[a] = older.actions[a]

HistoryExtends ==
    [][Extends([last_seen |-> last_seen, events |-> events,
                scopes |-> scopes, actions |-> actions],
               [last_seen |-> last_seen', events |-> events',
                scopes |-> scopes', actions |-> actions'])]_vars

(* Budgets bind the whole delegation tree (reserve): the attempts ever     *)
(* charged anywhere under a grant, settled, interrupted or revoked ones    *)
(* included, and the distinct resources they touch, never exceed its       *)
(* limits.  Counted from the attempts, not from the stored counters.       *)
TreeBudget ==
    \A s \in ScopeId : Issued(s) =>
       /\ Cardinality(ChargesOn(s)) <= scopes[s].grant.max_charged_attempts
       /\ Cardinality({actions[a].action.resource : a \in ChargesOn(s)})
             <= scopes[s].grant.max_distinct_resources

(* Withdrawal is final: once an ancestor is revoked, or any call, failed   *)
(* ones included, has shown the ledger a time at which it has expired, no  *)
(* attempt below it is charged or claimed and no child issued again, even  *)
(* when the wall clock goes back or the daemon restarts.                   *)
Withdrawn(s) ==
    \E p \in Chain(s) : \/ scopes[p].revoked_at # None
                        \/ observed >= scopes[p].grant.expires_at

WithdrawalFinal ==
    [][/\ \A a \in ActionId :
             actions'[a].state # actions[a].state /\ actions'[a].state \in Pending
             => ~Withdrawn(actions'[a].action.scope_id)
       /\ \A s \in ScopeId :
             scopes'[s].issued_at # scopes[s].issued_at
             /\ scopes'[s].grant.parent_id # NoId
             => ~Withdrawn(scopes'[s].grant.parent_id)]_vars
=============================================================================
