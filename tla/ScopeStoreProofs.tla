--------------------------- MODULE ScopeStoreProofs ---------------------------
(***************************************************************************)
(* Proofs about the scope ledger, for every set of grants, actions and     *)
(* evidence, every depth and every clock bound.                            *)
(*                                                                         *)
(* The evidence validator itself is nearly inductive: what it checks of    *)
(* the records and of the event history is kept by every call because the  *)
(* ledger only grows (Grown), so an event that was true of a record stays  *)
(* true of it.  Added to it are the shapes, the agreement of a record with *)
(* the grant or action it stands for, and that observed is the clock.      *)
(***************************************************************************)
EXTENDS ScopeStore, FiniteSetTheorems, SequenceTheorems, TLAPS

-----------------------------------------------------------------------------
(* The inductive invariant. *)

ScopeRow == [grant : Grant \cup {NoId}, issued_at : OptTime, revoked_at : OptTime,
             charged_attempts : Nat,
             charged_resources : SUBSET UNION {g.resources : g \in Grant}]

ActionRow == [action : Action \cup {NoId}, evidence : Evidence \cup {NoId},
              state : Pending \cup Settled \cup {"Absent"}, reserved_at : OptTime,
              dispatch_claimed_at : OptTime, finished_at : OptTime]

EventRow == [kind : EventKind, scope_id : ScopeId, action_id : ActionId \cup {NoId},
             observed_at : OptTime]

Shapes ==
    /\ scopes \in [ScopeId -> ScopeRow]
    /\ actions \in [ActionId -> ActionRow]
    /\ events \in Seq(EventRow)
    /\ last_seen \in Time /\ observed \in Time
    /\ open \in BOOLEAN /\ corrupt \in BOOLEAN

(* An issued row holds the grant of its id, and grants form a forest: the   *)
(* parent was issued, and is wider.                                         *)
Grants ==
    \A s \in ScopeId : Issued(s) =>
       /\ scopes[s].grant \in Grant /\ scopes[s].grant.scope_id = s
       /\ Parent(s) # NoId => Issued(Parent(s)) /\ ChildOf(scopes[s].grant, scopes[Parent(s)].grant)
       /\ IsFiniteSet(scopes[s].charged_resources)

(* A charged row holds the action of its id, and finitely many are charged. *)
Attempts ==
    /\ \A a \in ActionId : Charged(a) =>
          actions[a].action \in Action /\ actions[a].action.action_id = a /\ actions[a].evidence \in Evidence
    /\ IsFiniteSet({a \in ActionId : Charged(a)})

Basics == Shapes /\ Grants /\ Attempts /\ observed = last_seen /\ ~corrupt

IInv == Basics /\ ValidEvidence

(* The shapes are TypeOK. *)
LEMMA ShapesType == Shapes <=> TypeOK
BY DEF Shapes, TypeOK, ScopeRow, ActionRow, EventRow

(* Bounds and what they are made of. *)
LEMMA TimeFacts == /\ Time \subseteq Nat /\ 0 \in Time /\ None \notin Time /\ None \in Int
                   /\ OptTime \subseteq Int /\ None \in OptTime
                   /\ \A t \in OptTime : None <= t /\ (t # None => t \in Time)
BY BoundAssumption DEF Time, OptTime, None

-----------------------------------------------------------------------------
(* Chains of delegation. *)

(* A chain has its scope, and the parent of each of its members. *)
LEMMA ChainBasics ==
    ASSUME NEW id \in ScopeId, \A s \in ScopeId : Parent(s) \in ScopeId \cup {NoId}
    PROVE  /\ id \in Chain(id) /\ Chain(id) \subseteq ScopeId
           /\ UpClosed(Chain(id))
<1>1. id \in Chain(id) /\ Chain(id) \subseteq ScopeId
  BY DEF Chain
<1>2. ASSUME NEW s \in Chain(id), Parent(s) # NoId
      PROVE  Parent(s) \in Chain(id)
  <2>1. Parent(s) \in ScopeId
    BY <1>1, <1>2
  <2>2. ASSUME NEW S \in SUBSET ScopeId, id \in S, UpClosed(S)
        PROVE  Parent(s) \in S
    <3>1. s \in S
      BY <2>2 DEF Chain
    <3> QED
      BY <1>2, <2>2, <3>1 DEF UpClosed
  <2> QED
    BY <2>1, <2>2 DEF Chain
<1> QED
  BY <1>1, <1>2 DEF UpClosed

(* It is the least such set. *)
LEMMA ChainLeast ==
    ASSUME NEW id \in ScopeId, NEW S \in SUBSET ScopeId, id \in S, UpClosed(S)
    PROVE  Chain(id) \subseteq S
BY DEF Chain

(* Parents are scopes. *)
LEMMA ParentType ==
    ASSUME Grants
    PROVE  \A s \in ScopeId : Parent(s) \in ScopeId \cup {NoId}
BY GrantAssumption DEF Grants, Parent

(* What is known of every member of the chain of an issued scope. *)
LEMMA ChainFacts ==
    ASSUME Grants, NEW id \in ScopeId, Issued(id)
    PROVE  /\ id \in Chain(id) /\ Chain(id) \subseteq ScopeId
           /\ UpClosed(Chain(id))
           /\ \A p \in Chain(id) : Issued(p) /\ scopes[p].grant \in Grant
<1>1. id \in Chain(id) /\ Chain(id) \subseteq ScopeId /\ UpClosed(Chain(id))
  BY ChainBasics, ParentType
<1> DEFINE S == {p \in ScopeId : Issued(p)}
<1>2. S \in SUBSET ScopeId /\ id \in S
  OBVIOUS
<1>3. UpClosed(S)
  BY ParentType DEF UpClosed, Grants
<1>4. Chain(id) \subseteq S
  <2> HIDE DEF S
  <2> QED
    BY <1>2, <1>3, ChainLeast
<1> QED
  BY <1>1, <1>4 DEF Grants

(* A scope added below another. *)
LEMMA ChainStep ==
    ASSUME NEW id \in ScopeId, \A s \in ScopeId : Parent(s) \in ScopeId \cup {NoId}
    PROVE  /\ Parent(id) = NoId => Chain(id) = {id}
           /\ Parent(id) # NoId => Chain(id) \subseteq {id} \cup Chain(Parent(id))
<1>1. CASE Parent(id) = NoId
  <2>1. UpClosed({id}) /\ {id} \in SUBSET ScopeId /\ id \in {id}
    BY <1>1 DEF UpClosed
  <2>2. Chain(id) \subseteq {id}
    BY <2>1, ChainLeast
  <2> QED
    BY <1>1, <2>2, ChainBasics
<1>2. CASE Parent(id) # NoId
  <2> DEFINE up == Parent(id)
             S == {id} \cup Chain(up)
  <2>1. up \in ScopeId
    BY <1>2
  <2>2. up \in Chain(up) /\ Chain(up) \subseteq ScopeId /\ UpClosed(Chain(up))
    BY <2>1, ChainBasics
  <2>3. UpClosed(S)
    BY <2>2 DEF UpClosed
  <2>4. S \in SUBSET ScopeId /\ id \in S
    BY <2>2
  <2>5. Chain(id) \subseteq S
    <3> HIDE DEF S
    <3> QED
      BY <2>3, <2>4, ChainLeast
  <2> QED
    BY <1>2, <2>5
<1> QED
  BY <1>1, <1>2

(* Grants, once issued, stay. *)
GrantsStay ==
    \A s \in ScopeId : Issued(s) => /\ scopes'[s].grant = scopes[s].grant
                                    /\ scopes'[s].issued_at = scopes[s].issued_at

(* So do the chains of issued scopes. *)
LEMMA ChainStays ==
    ASSUME Grants, Grants', GrantsStay, NEW id \in ScopeId, Issued(id)
    PROVE  Chain(id)' = Chain(id)
<1>1. /\ id \in Chain(id) /\ Chain(id) \subseteq ScopeId /\ UpClosed(Chain(id))
      /\ \A p \in Chain(id) : Issued(p)
  BY ChainFacts
<1>2. \A p \in ScopeId : Issued(p) => Issued(p)' /\ Parent(p)' = Parent(p)
  BY DEF GrantsStay, Issued, Parent
<1> DEFINE S == Chain(id)
<1>4. Chain(id)' \subseteq S
  <2>1. \A p \in S : Parent(p)' # NoId => Parent(p)' \in S
    BY <1>1, <1>2 DEF UpClosed
  <2>2. S \in SUBSET ScopeId /\ id \in S
    BY <1>1
  <2> HIDE DEF S
  <2>3. ASSUME NEW p \in Chain(id)'
        PROVE  p \in S
    <3>1. \A U \in SUBSET ScopeId : id \in U /\ (\A q \in U : Parent(q)' # NoId => Parent(q)' \in U) => p \in U
      BY <2>3 DEF Chain, UpClosed
    <3> QED
      BY <2>1, <2>2, <3>1
  <2> QED
    BY <2>3
<1>5. S \subseteq Chain(id)'
  <2>1. ASSUME NEW p \in S, NEW U \in SUBSET ScopeId, id \in U,
               \A q \in U : Parent(q)' # NoId => Parent(q)' \in U
        PROVE  p \in U
    <3> DEFINE V == {q \in U : Issued(q)}
    <3>1. V \in SUBSET ScopeId /\ id \in V
      BY <2>1
    <3>2. UpClosed(V)
      BY <1>2, <2>1, ParentType DEF UpClosed, Grants
    <3>3. Chain(id) \subseteq V
      <4> HIDE DEF V
      <4> QED
        BY <3>1, <3>2, ChainLeast
    <3> QED
      BY <2>1, <3>3
  <2> QED
    BY <1>1, <2>1 DEF Chain, UpClosed
<1> QED
  BY <1>4, <1>5

-----------------------------------------------------------------------------
(* The ledger only grows. *)

ActionsStay ==
    \A a \in ActionId : Charged(a) =>
       /\ actions'[a].state # "Absent"
       /\ actions'[a].action = actions[a].action
       /\ actions'[a].evidence = actions[a].evidence
       /\ actions'[a].reserved_at = actions[a].reserved_at
       /\ actions[a].dispatch_claimed_at \in {None, actions'[a].dispatch_claimed_at}
       /\ actions[a].state \in Settled => actions'[a] = actions[a]

RevocationsStay ==
    \A s \in ScopeId : Issued(s) =>
       /\ scopes[s].revoked_at \in {None, scopes'[s].revoked_at}
       /\ scopes'[s].revoked_at \in {scopes[s].revoked_at, last_seen'}

HistoryStays ==
    /\ Len(events) <= Len(events')
    /\ \A i \in 1 .. Len(events) : events'[i] = events[i]

Grown ==
    /\ last_seen <= last_seen'
    /\ GrantsStay /\ ActionsStay /\ RevocationsStay /\ HistoryStays

(* Events are told of known scopes and actions. *)
LEMMA EventType ==
    ASSUME Shapes
    PROVE  /\ Len(events) \in Nat /\ DOMAIN events = 1 .. Len(events)
           /\ \A i \in 1 .. Len(events) :
                 /\ events[i] \in EventRow /\ events[i].scope_id \in ScopeId
                 /\ events[i].action_id # NoId => events[i].action_id \in ActionId
                 /\ events[i].observed_at \in Int
<1>1. Len(events) \in Nat /\ DOMAIN events = 1 .. Len(events)
      /\ \A i \in 1 .. Len(events) : events[i] \in EventRow
  BY LenProperties, ElementOfSeq DEF Shapes
<1> QED
  BY <1>1, TimeFacts DEF EventRow

(* What an earlier event told, it still tells. *)
LEMMA SeenStays ==
    ASSUME Shapes, HistoryStays, NEW j \in 0 .. Len(events), NEW id, NEW kind
    PROVE  Seen(j, id, kind)' <=> Seen(j, id, kind)
<1>1. \A k \in 1 .. j : events'[k] = events[k]
  BY EventType DEF HistoryStays
<1> QED
  BY <1>1 DEF Seen, Subject

(* And is told in a longer history. *)
LEMMA SeenGrows ==
    ASSUME NEW i \in Nat, NEW j \in Nat, i <= j, NEW id, NEW kind, Seen(i, id, kind)
    PROVE  Seen(j, id, kind)
BY DEF Seen

(* So what is logged stays logged. *)
LEMMA LoggedStays ==
    ASSUME Shapes, Shapes', HistoryStays, NEW id, NEW kind, Seen(Len(events), id, kind)
    PROVE  Seen(Len(events), id, kind)'
<1>1. PICK k \in 1 .. Len(events) : Subject(events[k]) = id /\ events[k].kind = kind
  BY DEF Seen
<1>2. k \in 1 .. Len(events') /\ events'[k] = events[k]
  BY EventType DEF HistoryStays
<1> QED
  BY <1>1, <1>2 DEF Seen, Subject

(* A record whose attempt has ended is settled. *)
LEMMA EndedSettled ==
    ASSUME Shapes, ValidEvidence, NEW a \in ActionId, Charged(a), actions[a].finished_at # None
    PROVE  actions[a].state \in Settled
<1>1. ValidAction(a)
  BY DEF ValidEvidence
<1>2. actions[a].state \in Pending \cup Settled
  BY DEF Shapes, ActionRow, Charged
<1>3. actions[a].state # "Reserved" /\ actions[a].state # "DispatchClaimed"
  BY <1>1 DEF ValidAction
<1> QED
  BY <1>2, <1>3 DEF Pending

(* The event itself. *)
LEMMA ScopeEventStays ==
    ASSUME Shapes, Grown, NEW e \in EventRow, Issued(e.scope_id), ScopeEvent(e)
    PROVE  ScopeEvent(e)'
<1>1. e.scope_id \in ScopeId
  BY DEF EventRow
<1>2. /\ scopes'[e.scope_id].issued_at = scopes[e.scope_id].issued_at
      /\ scopes[e.scope_id].revoked_at \in {None, scopes'[e.scope_id].revoked_at}
  BY <1>1 DEF Grown, GrantsStay, RevocationsStay
<1>3. CASE e.kind = "ScopeIssued"
  BY <1>2, <1>3 DEF ScopeEvent
<1>4. CASE e.kind = "ScopeRevoked"
  BY <1>2, <1>4 DEF ScopeEvent
<1> QED
  BY <1>3, <1>4 DEF ScopeEvent

(* What an event tells of an action stays what the record says.             *)
LEMMA ActionEventStays ==
    ASSUME Shapes, ValidEvidence, Grown, NEW e \in EventRow, e.action_id # NoId, ActionEvent(e)
    PROVE  ActionEvent(e)'
<1> DEFINE a == e.action_id
<1>1. a \in ActionId /\ Charged(a)
  BY DEF EventRow, ActionEvent
<1>2. /\ Charged(a)' /\ ScopeOf(a)' = ScopeOf(a)
      /\ actions'[a].reserved_at = actions[a].reserved_at
      /\ actions[a].dispatch_claimed_at \in {None, actions'[a].dispatch_claimed_at}
      /\ actions[a].state \in Settled => actions'[a] = actions[a]
  BY <1>1 DEF Grown, ActionsStay, Charged, ScopeOf
<1>3. CASE e.kind = "AttemptCharged" \/ e.kind = "DispatchClaimed"
  BY <1>2, <1>3 DEF ActionEvent
<1>4. CASE e.kind = "AttemptFinished"
  <2>1. actions'[a] = actions[a]
    BY <1>1, <1>2, <1>4, EndedSettled DEF ActionEvent
  <2> QED
    BY <1>2, <1>4, <2>1 DEF ActionEvent
<1>5. CASE e.kind = "Interrupted"
  <2>1. actions'[a] = actions[a]
    BY <1>1, <1>2, <1>5 DEF ActionEvent, Settled
  <2> QED
    BY <1>2, <1>5, <2>1 DEF ActionEvent
<1> QED
  BY <1>3, <1>4, <1>5 DEF ActionEvent

(* Every event that was valid stays valid. *)
LEMMA EventStays ==
    ASSUME Basics, Basics', ValidEvidence, Grown, NEW i \in 1 .. Len(events)
    PROVE  ValidEvent(i)'
<1>a. /\ events[i] \in EventRow /\ Len(events) \in Nat /\ i \in DOMAIN events
      /\ events'[i] = events[i] /\ \A k \in 1 .. i - 1 : events'[k] = events[k]
  BY EventType DEF Basics, Grown, HistoryStays
<1>b. last_seen \in Int /\ last_seen' \in Int /\ last_seen <= last_seen'
  BY TimeFacts DEF Basics, Shapes, Grown
<1>c. PICK e \in EventRow : e = events[i]
  BY <1>a
<1>0. /\ e \in EventRow /\ e.scope_id \in ScopeId /\ e.observed_at \in Int
      /\ events'[i] = e /\ events[i] = e
  BY <1>a, <1>c, TimeFacts DEF EventRow
<1>1. ValidEvent(i) /\ Issued(e.scope_id)
  BY <1>0, <1>a DEF ValidEvidence, ValidEvent
<1>2. Issued(e.scope_id)'
  BY <1>0, <1>1 DEF Grown, GrantsStay, Issued
<1>3. e.observed_at # None =>
         /\ e.observed_at <= last_seen'
         /\ \A k \in 1 .. i - 1 : events'[k].observed_at <= e.observed_at
  BY <1>0, <1>1, <1>a, <1>b DEF ValidEvent
<1>4. ASSUME NEW id, NEW kind
      PROVE  /\ Seen(i - 1, id, kind)' <=> Seen(i - 1, id, kind)
             /\ Seen(i, id, kind)' <=> Seen(i, id, kind)
  <2>1. i - 1 \in 0 .. Len(events) /\ i \in 0 .. Len(events)
    BY <1>a
  <2> QED
    BY <2>1, SeenStays DEF Basics, Grown
<1>5. Chain(e.scope_id)' = Chain(e.scope_id)
  BY <1>0, <1>1, ChainStays DEF Basics, Grown
<1>6. IF e.action_id = NoId THEN ScopeEvent(e)' ELSE ActionEvent(e)'
  BY <1>0, <1>1, ScopeEventStays, ActionEventStays DEF ValidEvent, Basics
<1>7. ASSUME e.kind \in {"AttemptFinished", "Interrupted"}
      PROVE  actions'[e.action_id].dispatch_claimed_at = actions[e.action_id].dispatch_claimed_at
  <2>1. e.action_id # NoId /\ e.action_id \in ActionId
    BY <1>0, <1>1, <1>7 DEF ValidEvent, ScopeEvent, EventRow
  <2>2. ActionEvent(e) /\ Charged(e.action_id)
    BY <1>0, <1>1, <2>1 DEF ValidEvent, ActionEvent
  <2>3. actions[e.action_id].state \in Settled
    BY <1>7, <2>1, <2>2, EndedSettled DEF ActionEvent, Settled, Basics
  <2> QED
    BY <2>1, <2>2, <2>3 DEF Grown, ActionsStay
<1>9. /\ Seen(i, e.scope_id, "ScopeIssued") /\ ~Seen(i - 1, Subject(e), e.kind)
      /\ e.kind \in {"ScopeIssued", "AttemptCharged", "DispatchClaimed"} =>
            \A p \in Chain(e.scope_id) : Seen(i, p, "ScopeIssued") /\ ~Seen(i, p, "ScopeRevoked")
      /\ e.action_id # NoId => Seen(i, e.action_id, "AttemptCharged")
      /\ e.kind \in {"AttemptFinished", "Interrupted"}
         /\ actions[e.action_id].dispatch_claimed_at # None
         => Seen(i, e.action_id, "DispatchClaimed")
  BY <1>0, <1>1 DEF ValidEvent
<1> QED
  BY <1>0, <1>2, <1>3, <1>4, <1>5, <1>6, <1>7, <1>9 DEF ValidEvent

(* The fields of a row. *)
LEMMA ScopeRowFacts ==
    ASSUME Shapes, NEW s \in ScopeId
    PROVE  /\ scopes[s] \in ScopeRow
           /\ scopes[s].issued_at \in Int /\ scopes[s].revoked_at \in Int
           /\ scopes[s].charged_attempts \in Nat
           /\ last_seen \in Nat
BY TimeFacts DEF Shapes, ScopeRow

(* Fields of an action row.                                                 *)
LEMMA ActionRowFacts ==
    ASSUME Shapes, NEW a \in ActionId
    PROVE  /\ actions[a] \in ActionRow
           /\ actions[a].reserved_at \in Int /\ actions[a].dispatch_claimed_at \in Int
           /\ actions[a].finished_at \in Int
           /\ None <= actions[a].reserved_at /\ None <= actions[a].dispatch_claimed_at
           /\ None <= actions[a].finished_at
           /\ last_seen \in Nat
BY TimeFacts DEF Shapes, ActionRow

(* The limits of a grant are numbers. *)
LEMMA GrantFacts ==
    ASSUME NEW g \in Grant
    PROVE  /\ g.not_before \in Nat /\ g.expires_at \in Nat
           /\ g.max_charged_attempts \in Nat \ {0} /\ g.max_distinct_resources \in Nat \ {0}
           /\ g.scope_id \in ScopeId /\ g.parent_id \in ScopeId \cup {NoId}
           /\ g.parent_id # g.scope_id
           /\ g.delegations_remaining \in Nat
<1>1. Cardinality(g.resources) \in Nat
  BY GrantAssumption, FS_CardinalityType
<1>2. g.scope_id \in ScopeId
  BY DEF ScopeId
<1>3. g.parent_id \in (ScopeId \ {g.scope_id}) \cup {NoId} /\ g.max_distinct_resources \in 1 .. Cardinality(g.resources)
  BY GrantAssumption
<1>4. g.parent_id # g.scope_id
  BY <1>2, <1>3, IdAssumption
<1> QED
  BY <1>1, <1>2, <1>3, <1>4, GrantAssumption, BoundAssumption

(* A valid scope row stays valid within its limits. *)
LEMMA ScopeStays ==
    ASSUME Basics, Basics', ValidEvidence, Grown, NEW s \in ScopeId, Issued(s),
           scopes'[s].charged_attempts <= scopes'[s].grant.max_charged_attempts,
           Cardinality(scopes'[s].charged_resources) <= scopes'[s].grant.max_distinct_resources
    PROVE  ValidScope(s)'
<1>1. ValidScope(s)
  BY DEF ValidEvidence
<1>2. Chain(s)' = Chain(s) /\ s \in Chain(s) /\ Chain(s) \subseteq ScopeId /\ UpClosed(Chain(s))
      /\ \A p \in Chain(s) : Issued(p) /\ scopes[p].grant \in Grant
  BY ChainStays, ChainFacts DEF Basics, Grown
<1>3. \A p \in Chain(s) : /\ Issued(p)' /\ scopes'[p].grant = scopes[p].grant
                          /\ scopes'[p].issued_at = scopes[p].issued_at
                          /\ scopes'[p].revoked_at \in {scopes[p].revoked_at, last_seen'}
  BY <1>2 DEF Grown, GrantsStay, RevocationsStay, Issued
<1>4. last_seen \in Nat /\ last_seen' \in Nat /\ last_seen <= last_seen'
      /\ scopes[s].issued_at \in Int /\ scopes[s].revoked_at \in Int
      /\ \A p \in Chain(s) : scopes[p].revoked_at \in Int
  BY <1>2, ScopeRowFacts, TimeFacts DEF Basics, Shapes, Grown
<1>5. \A p \in Chain(s) : LET up == scopes'[p].grant.parent_id IN
         up # NoId => ChildOf(scopes'[p].grant, scopes'[up].grant)
  <2>1. ASSUME NEW p \in Chain(s), scopes[p].grant.parent_id # NoId
        PROVE  ChildOf(scopes'[p].grant, scopes'[scopes[p].grant.parent_id].grant)
    <3>1. Parent(p) = scopes[p].grant.parent_id /\ Parent(p) \in Chain(s)
      BY <1>2, <2>1 DEF Parent, UpClosed
    <3> QED
      BY <1>1, <1>3, <2>1, <3>1 DEF ValidScope
  <2> QED
    BY <1>3, <2>1
<1>6. scopes[s].issued_at <= last_seen
  BY <1>1 DEF ValidScope
<1>7. scopes'[s].issued_at <= last_seen'
  BY <1>2, <1>3, <1>4, <1>6
<1>8. scopes'[s].issued_at < scopes'[s].grant.expires_at
  BY <1>1, <1>2, <1>3 DEF ValidScope
<1>9. scopes'[s].revoked_at # None =>
         scopes'[s].issued_at <= scopes'[s].revoked_at /\ scopes'[s].revoked_at <= last_seen'
  BY <1>1, <1>2, <1>3, <1>4, <1>6 DEF ValidScope
<1>10. \A p \in Chain(s) \ {s} :
          /\ scopes'[p].issued_at <= scopes'[s].issued_at
          /\ Within(scopes'[p].grant, scopes'[s].issued_at)
          /\ scopes'[p].revoked_at # None => scopes'[s].issued_at <= scopes'[p].revoked_at
  BY <1>1, <1>2, <1>3, <1>4, <1>6 DEF ValidScope
<1> QED
  BY <1>2, <1>3, <1>5, <1>7, <1>8, <1>9, <1>10 DEF ValidScope

(* A chain in force at an earlier time was in force then. *)
LEMMA InForceStays ==
    ASSUME Basics, Basics', Grown, NEW s \in ScopeId, Issued(s), NEW at \in Int, at <= last_seen',
           InForce(s, at)
    PROVE  InForce(s, at)'
<1>1. Chain(s)' = Chain(s) /\ Chain(s) \subseteq ScopeId /\ \A p \in Chain(s) : Issued(p)
  BY ChainStays, ChainFacts DEF Basics, Grown
<1>2. \A p \in Chain(s) : /\ scopes'[p].grant = scopes[p].grant
                          /\ scopes'[p].revoked_at \in {scopes[p].revoked_at, last_seen'}
  BY <1>1 DEF Grown, GrantsStay, RevocationsStay
<1> QED
  BY <1>1, <1>2 DEF InForce

(* A valid action row that is left alone stays valid. *)
LEMMA ActionStays ==
    ASSUME Basics, Basics', ValidEvidence, Grown, NEW a \in ActionId, Charged(a),
           actions'[a] = actions[a]
    PROVE  ValidAction(a)'
<1>1. ValidAction(a)
  BY DEF ValidEvidence
<1>0. PICK r \in ActionRow, s \in ScopeId : r = actions[a] /\ s = ScopeOf(a)
  BY ActionRowFacts, ActionAssumption DEF ScopeOf, Basics, Attempts
<1>2. ScopeOf(a) = s /\ ScopeOf(a)' = s /\ Issued(s) /\ actions[a] = r /\ actions'[a] = r
  BY <1>0, <1>1 DEF ValidAction, ScopeOf
<1>3. Issued(s)' /\ scopes'[s].grant = scopes[s].grant /\ scopes'[s].issued_at = scopes[s].issued_at
  BY <1>2 DEF Grown, GrantsStay, Issued
<1>4. last_seen \in Nat /\ last_seen' \in Nat /\ last_seen <= last_seen'
      /\ r.reserved_at \in Int /\ r.dispatch_claimed_at \in Int /\ r.finished_at \in Int
  BY TimeFacts DEF Basics, Shapes, Grown, ActionRow
<1>5. r.reserved_at <= last_seen'
      /\ (r.dispatch_claimed_at # None => r.dispatch_claimed_at <= last_seen')
      /\ (r.finished_at # None => r.finished_at <= last_seen')
  BY <1>1, <1>2, <1>4 DEF ValidAction
<1>6. InForce(s, r.reserved_at)'
  <2>1. InForce(s, r.reserved_at)
    BY <1>1, <1>2 DEF ValidAction
  <2> QED
    BY <1>2, <1>4, <1>5, <2>1, InForceStays
<1>7. ASSUME r.dispatch_claimed_at # None
      PROVE  InForce(s, r.dispatch_claimed_at)'
  <2>1. InForce(s, r.dispatch_claimed_at)
    BY <1>1, <1>2, <1>7 DEF ValidAction
  <2> QED
    BY <1>2, <1>4, <1>5, <1>7, <2>1, InForceStays
<1> QED
  BY <1>1, <1>2, <1>3, <1>5, <1>6, <1>7 DEF ValidAction

-----------------------------------------------------------------------------
(* The event history against the records. *)

(* What is logged is so. *)
LEMMA LogTrue ==
    ASSUME Basics, ValidEvidence, NEW id, NEW kind, Seen(Len(events), id, kind)
    PROVE  /\ kind = "ScopeIssued" => id \in ScopeId /\ Issued(id)
           /\ kind = "ScopeRevoked" => id \in ScopeId /\ Issued(id) /\ scopes[id].revoked_at # None
           /\ kind \in {"AttemptCharged", "DispatchClaimed", "AttemptFinished", "Interrupted"}
                 => id \in ActionId /\ Charged(id)
           /\ kind = "DispatchClaimed" => actions[id].dispatch_claimed_at # None
           /\ kind = "AttemptFinished" => actions[id].finished_at # None
           /\ kind = "Interrupted" => actions[id].state = "Unknown"
<1>1. PICK k \in 1 .. Len(events) : Subject(events[k]) = id /\ events[k].kind = kind
  BY DEF Seen
<1> DEFINE e == events[k]
<1>2. /\ e \in EventRow /\ e.scope_id \in ScopeId /\ ValidEvent(k)
      /\ e.action_id # NoId => e.action_id \in ActionId
  BY EventType DEF Basics, ValidEvidence
<1>3. Issued(e.scope_id) /\ IF e.action_id = NoId THEN ScopeEvent(e) ELSE ActionEvent(e)
  BY <1>2 DEF ValidEvent
<1>4. CASE e.action_id = NoId
  <2>1. id = e.scope_id
    BY <1>1, <1>4 DEF Subject
  <2>2. \/ kind = "ScopeIssued"
        \/ kind = "ScopeRevoked" /\ scopes[id].revoked_at # None
    BY <1>1, <1>3, <1>4, <2>1 DEF ScopeEvent
  <2> QED
    BY <1>2, <1>3, <2>1, <2>2
<1>5. CASE e.action_id # NoId
  <2>1. id = e.action_id
    BY <1>1, <1>5 DEF Subject
  <2>2. /\ Charged(id)
        /\ \/ kind = "AttemptCharged"
           \/ kind = "DispatchClaimed" /\ actions[id].dispatch_claimed_at # None
           \/ kind = "AttemptFinished" /\ actions[id].finished_at # None
           \/ kind = "Interrupted" /\ actions[id].state = "Unknown"
    BY <1>1, <1>3, <1>5, <2>1 DEF ActionEvent
  <2> QED
    BY <1>2, <1>5, <2>1, <2>2
<1> QED
  BY <1>4, <1>5

(* An event the step adds. *)
Told(id, kind) ==
    \E k \in Len(events) + 1 .. Len(events') :
       Subject(events'[k]) = id /\ events'[k].kind = kind

(* Every fact has its event when every new fact has a new one. *)
LEMMA CompleteGrows ==
    ASSUME Basics, Basics', ValidEvidence, HistoryStays,
           \A s \in ScopeId : Issued(s)' =>
              /\ Issued(s) \/ Told(s, "ScopeIssued")
              /\ scopes'[s].revoked_at # None =>
                    (Issued(s) /\ scopes[s].revoked_at # None) \/ Told(s, "ScopeRevoked"),
           \A a \in ActionId : Charged(a)' =>
              /\ Charged(a) \/ Told(a, "AttemptCharged")
              /\ actions'[a].dispatch_claimed_at # None =>
                    (Charged(a) /\ actions[a].dispatch_claimed_at # None) \/ Told(a, "DispatchClaimed")
              /\ actions'[a].finished_at # None =>
                    (Charged(a) /\ actions[a].finished_at # None) \/ Told(a, "AttemptFinished")
              /\ actions'[a].state = "Unknown" /\ actions'[a].finished_at = None =>
                    \/ Charged(a) /\ actions[a].state = "Unknown" /\ actions[a].finished_at = None
                    \/ Told(a, "Interrupted")
    PROVE  EventsComplete'
<1>1. Len(events) \in Nat /\ Len(events') \in Nat
  BY EventType, LenProperties DEF Basics, Shapes
<1>2. ASSUME NEW id, NEW kind, Seen(Len(events), id, kind) \/ Told(id, kind)
      PROVE  Seen(Len(events), id, kind)'
  <2>1. CASE Seen(Len(events), id, kind)
    BY <2>1, LoggedStays DEF Basics
  <2>2. CASE Told(id, kind)
    BY <1>1, <2>2 DEF Told, Seen, Subject
  <2> QED
    BY <1>2, <2>1, <2>2
<1>3. EventsComplete
  BY DEF ValidEvidence
<1>4. ASSUME NEW s \in ScopeId, Issued(s)'
      PROVE  /\ Seen(Len(events), s, "ScopeIssued")'
             /\ scopes'[s].revoked_at # None => Seen(Len(events), s, "ScopeRevoked")'
  BY <1>2, <1>3, <1>4 DEF EventsComplete
<1>5. ASSUME NEW a \in ActionId, Charged(a)'
      PROVE  /\ Seen(Len(events), a, "AttemptCharged")'
             /\ actions'[a].dispatch_claimed_at # None => Seen(Len(events), a, "DispatchClaimed")'
             /\ actions'[a].finished_at # None => Seen(Len(events), a, "AttemptFinished")'
             /\ actions'[a].state = "Unknown" /\ actions'[a].finished_at = None
                => Seen(Len(events), a, "Interrupted")'
  BY <1>2, <1>3, <1>5 DEF EventsComplete
<1> QED
  BY <1>4, <1>5 DEF EventsComplete

(* One event appended. *)
LEMMA LogFacts ==
    ASSUME Shapes, NEW e \in EventRow, Log(e)
    PROVE  /\ events' \in Seq(EventRow) /\ Len(events') = Len(events) + 1
           /\ events'[Len(events) + 1] = e /\ HistoryStays /\ Told(Subject(e), e.kind)
<1>1. events \in Seq(EventRow) /\ Len(events) \in Nat /\ events' = Append(events, e)
  BY EventType DEF Log, Shapes
<1>2. /\ events' \in Seq(EventRow) /\ Len(events') = Len(events) + 1
      /\ events'[Len(events) + 1] = e
      /\ \A i \in 1 .. Len(events) : events'[i] = events[i]
  BY <1>1
<1>3. Told(Subject(e), e.kind)
  BY <1>1, <1>2 DEF Told
<1> QED
  BY <1>1, <1>2, <1>3 DEF HistoryStays

(* It is valid when it tells of the records what they now say, was not told *)
(* before, and comes after what it presupposes.                             *)
LEMMA NewEvent ==
    ASSUME Basics, Basics', ValidEvidence, Grown, NEW e \in EventRow, Log(e),
           NEW n \in Nat, n = Len(events) + 1, e.observed_at = last_seen', Issued(e.scope_id)',
           ~Seen(Len(events), Subject(e), e.kind),
           Seen(Len(events), e.scope_id, "ScopeIssued") \/ (e.kind = "ScopeIssued" /\ e.action_id = NoId),
           e.kind \in {"ScopeIssued", "AttemptCharged", "DispatchClaimed"} =>
              \A p \in Chain(e.scope_id)' :
                 /\ Seen(Len(events), p, "ScopeIssued")
                    \/ (p = e.scope_id /\ e.kind = "ScopeIssued" /\ e.action_id = NoId)
                 /\ ~Seen(Len(events), p, "ScopeRevoked"),
           IF e.action_id = NoId THEN ScopeEvent(e)' ELSE ActionEvent(e)',
           e.action_id # NoId =>
              e.kind = "AttemptCharged" \/ Seen(Len(events), e.action_id, "AttemptCharged"),
           e.kind \in {"AttemptFinished", "Interrupted"}
           /\ actions'[e.action_id].dispatch_claimed_at # None
              => Seen(Len(events), e.action_id, "DispatchClaimed")
    PROVE  ValidEvent(n)'
<1> DEFINE m == Len(events)
<1>0. /\ m \in Nat /\ Len(events') = m + 1 /\ events'[m + 1] = e
      /\ \A i \in 1 .. m : events'[i] = events[i]
  BY LogFacts, EventType DEF Basics, HistoryStays
<1>1. last_seen \in Int /\ last_seen' \in Int /\ last_seen <= last_seen' /\ e.observed_at \in Int
      /\ None <= last_seen
  BY TimeFacts DEF Basics, Shapes, Grown, None
<1>2. ASSUME NEW k \in 1 .. m
      PROVE  events'[k].observed_at <= e.observed_at
  <2>1. ValidEvent(k) /\ events[k].observed_at \in Int
    BY EventType DEF ValidEvidence, Basics
  <2>2. events[k].observed_at = None \/ events[k].observed_at <= last_seen
    BY <2>1 DEF ValidEvent
  <2> QED
    BY <1>0, <1>1, <2>1, <2>2
<1>3. ASSUME NEW id, NEW kind
      PROVE  /\ Seen(n - 1, id, kind)' <=> Seen(m, id, kind)
             /\ Seen(n, id, kind)' <=> Seen(m, id, kind) \/ (Subject(e) = id /\ e.kind = kind)
  <2>1. n - 1 = m /\ \A k \in 1 .. n : k \in 1 .. m \/ k = m + 1
    BY <1>0
  <2>2. Seen(n - 1, id, kind)' <=> \E k \in 1 .. m : Subject(events'[k]) = id /\ events'[k].kind = kind
    BY <2>1 DEF Seen, Subject
  <2>3. Seen(n, id, kind)' <=> \E k \in 1 .. n : Subject(events'[k]) = id /\ events'[k].kind = kind
    BY DEF Seen, Subject
  <2>4. Seen(m, id, kind) <=> \E k \in 1 .. m : Subject(events'[k]) = id /\ events'[k].kind = kind
    BY <1>0 DEF Seen
  <2> QED
    BY <1>0, <2>1, <2>2, <2>3, <2>4
<1>4. events'[n] = e /\ \A k \in 1 .. n - 1 : events'[k].observed_at <= e.observed_at
  BY <1>0, <1>2
<1>5. Subject(e) = IF e.action_id = NoId THEN e.scope_id ELSE e.action_id
  BY DEF Subject
<1>6. ~Seen(n - 1, Subject(e), e.kind)' /\ Seen(n, e.scope_id, "ScopeIssued")'
  BY <1>3, <1>5
<1>7. ASSUME e.kind \in {"ScopeIssued", "AttemptCharged", "DispatchClaimed"}, NEW p \in Chain(e.scope_id)'
      PROVE  Seen(n, p, "ScopeIssued")' /\ ~Seen(n, p, "ScopeRevoked")'
  BY <1>3, <1>5, <1>7
<1>8. e.action_id # NoId => Seen(n, e.action_id, "AttemptCharged")'
  BY <1>3, <1>5
<1>9. e.kind \in {"AttemptFinished", "Interrupted"}
      /\ actions'[e.action_id].dispatch_claimed_at # None
         => Seen(n, e.action_id, "DispatchClaimed")'
  BY <1>3, <1>5
<1>10. last_seen' <= last_seen'
  BY <1>1
<1> HIDE DEF m
<1> QED
  BY <1>4, <1>6, <1>7, <1>8, <1>9, <1>10 DEF ValidEvent

-----------------------------------------------------------------------------
(* The charges, counted again. *)

(* A charged action is one of a scope that was issued. *)
LEMMA ChargedScope ==
    ASSUME Basics, ValidEvidence, NEW a \in ActionId, Charged(a)
    PROVE  ScopeOf(a) \in ScopeId /\ Issued(ScopeOf(a))
BY ActionAssumption DEF Basics, Attempts, ScopeOf, ValidEvidence, ValidAction

(* Nothing is charged on a scope that was not issued. *)
LEMMA NoCharges ==
    ASSUME Basics, ValidEvidence, NEW s \in ScopeId, ~Issued(s)
    PROVE  ChargesOn(s) = {}
<1>1. ASSUME NEW a \in ActionId, Charged(a), s \in Chain(ScopeOf(a))
      PROVE  FALSE
  <2>1. ScopeOf(a) \in ScopeId /\ Issued(ScopeOf(a))
    BY <1>1, ChargedScope
  <2> QED
    BY <1>1, <2>1, ChainFacts DEF Basics
<1> QED
  BY <1>1 DEF ChargesOn

(* Without a new attempt, the charges on every scope are the same. *)
LEMMA SameCharges ==
    ASSUME Basics, Basics', ValidEvidence, Grown,
           \A a \in ActionId : Charged(a)' => Charged(a), NEW s \in ScopeId
    PROVE  /\ ChargesOn(s)' = ChargesOn(s)
           /\ \A a \in ChargesOn(s) : actions'[a].action = actions[a].action
<1>1. ASSUME NEW a \in ActionId, Charged(a)
      PROVE  /\ Charged(a)' /\ ScopeOf(a)' = ScopeOf(a) /\ actions'[a].action = actions[a].action
             /\ Chain(ScopeOf(a))' = Chain(ScopeOf(a))
  <2>1. Charged(a)' /\ ScopeOf(a)' = ScopeOf(a) /\ actions'[a].action = actions[a].action
    BY <1>1 DEF Grown, ActionsStay, Charged, ScopeOf
  <2>2. PICK u \in ScopeId : u = ScopeOf(a) /\ Issued(u)
    BY <1>1, ChargedScope
  <2>3. Chain(u)' = Chain(u)
    BY <2>2, ChainStays DEF Basics, Grown
  <2> QED
    BY <2>1, <2>2, <2>3
<1>2. \A a \in ActionId : (Charged(a) /\ s \in Chain(ScopeOf(a))) <=> (Charged(a)' /\ s \in Chain(ScopeOf(a))')
  BY <1>1
<1> QED
  BY <1>1, <1>2 DEF ChargesOn

(* A step without a new attempt keeps the evidence valid when the rows and  *)
(* the events it writes are.                                                *)
LEMMA KeepEvidence ==
    ASSUME Basics, Basics', ValidEvidence, Grown,
           \A a \in ActionId : Charged(a)' => Charged(a),
           \A s \in ScopeId : Issued(s) =>
              /\ scopes'[s].charged_attempts = scopes[s].charged_attempts
              /\ scopes'[s].charged_resources = scopes[s].charged_resources,
           \A s \in ScopeId : Issued(s)' /\ ~Issued(s) =>
              /\ ValidScope(s)'
              /\ scopes'[s].charged_attempts = 0 /\ scopes'[s].charged_resources = {},
           \A a \in ActionId : Charged(a) => actions'[a] = actions[a] \/ ValidAction(a)',
           \A n \in Len(events) + 1 .. Len(events') : ValidEvent(n)',
           EventsComplete'
    PROVE  ValidEvidence'
<1>1. ASSUME NEW s \in ScopeId, Issued(s)'
      PROVE  ValidScope(s)' /\ ValidCharges(s)'
  <2>1. /\ ChargesOn(s)' = ChargesOn(s)
        /\ \A a \in ChargesOn(s) : actions'[a].action = actions[a].action
    BY SameCharges
  <2>2. {actions'[a].action.resource : a \in ChargesOn(s)'} = {actions[a].action.resource : a \in ChargesOn(s)}
    BY <2>1
  <2>3. CASE Issued(s)
    <3>1. ValidScope(s) /\ ValidCharges(s) /\ scopes'[s].grant = scopes[s].grant
      BY <2>3 DEF ValidEvidence, Grown, GrantsStay
    <3>2. ValidScope(s)'
      BY <2>3, <3>1, ScopeStays DEF ValidScope
    <3>3. ValidCharges(s)'
      BY <2>1, <2>2, <2>3, <3>1 DEF ValidCharges
    <3> QED
      BY <3>2, <3>3
  <2>4. CASE ~Issued(s)
    <3>1. ChargesOn(s) = {}
      BY <2>4, NoCharges
    <3>2. ValidCharges(s)'
      BY <1>1, <2>1, <2>2, <2>4, <3>1, FS_EmptySet DEF ValidCharges
    <3> QED
      BY <1>1, <2>4, <3>2
  <2> QED
    BY <2>3, <2>4
<1>2. ASSUME NEW a \in ActionId, Charged(a)'
      PROVE  ValidAction(a)'
  BY <1>2, ActionStays
<1>3. ASSUME NEW a \in ActionId, NEW b \in ActionId, Charged(a)', Charged(b)',
             ScopeOf(a)' = ScopeOf(b)',
             actions'[a].action.request_id = actions'[b].action.request_id
      PROVE  a = b
  <2>1. Charged(a) /\ Charged(b) /\ actions'[a].action = actions[a].action
        /\ actions'[b].action = actions[b].action
    BY <1>3 DEF Grown, ActionsStay
  <2> QED
    BY <1>3, <2>1 DEF ValidEvidence, ScopeOf
<1>4. ASSUME NEW i \in DOMAIN events'
      PROVE  ValidEvent(i)'
  <2>1. Len(events) \in Nat /\ Len(events') \in Nat /\ DOMAIN events' = 1 .. Len(events')
    BY EventType, LenProperties DEF Basics, Shapes
  <2>2. i \in 1 .. Len(events) \/ i \in Len(events) + 1 .. Len(events')
    BY <2>1
  <2> QED
    BY <2>2, EventStays
<1> QED
  BY <1>1, <1>2, <1>3, <1>4 DEF ValidEvidence

-----------------------------------------------------------------------------
(* What every call does to the clock. *)

(* A call that is let through moves the clock to its time. *)
LEMMA ObserveFacts ==
    ASSUME Basics, NEW now \in Time, Observe(now)
    PROVE  /\ last_seen' = now /\ observed' = now /\ last_seen <= last_seen'
           /\ open' = open /\ corrupt' = corrupt /\ open
           /\ last_seen \in Nat /\ now \in Nat /\ now # None
BY TimeFacts DEF Basics, Shapes, Observe

(* A call that writes nothing else keeps everything. *)
LEMMA QuietStep ==
    ASSUME IInv, UNCHANGED <<scopes, actions, events, corrupt>>, last_seen <= last_seen',
           observed' = last_seen', last_seen' \in Time, open' \in BOOLEAN
    PROVE  IInv' /\ Grown
<1>1. Basics'
  <2>1. Shapes'
    BY DEF IInv, Basics, Shapes
  <2>2. Grants' /\ Attempts'
    BY DEF IInv, Basics, Grants, Attempts, Issued, Parent, Charged
  <2> QED
    BY <2>1, <2>2 DEF IInv, Basics
<1>2. Grown
  <2>1. HistoryStays
    BY EventType DEF HistoryStays, IInv, Basics
  <2>2. ActionsStay
    BY DEF ActionsStay, Charged
  <2>3. GrantsStay /\ RevocationsStay
    BY DEF GrantsStay, RevocationsStay
  <2> QED
    BY <2>1, <2>2, <2>3 DEF Grown
<1>3. EventsComplete'
  BY DEF IInv, ValidEvidence, EventsComplete, Seen, Issued, Charged, Subject
<1>4. \A n \in Len(events) + 1 .. Len(events') : ValidEvent(n)'
  BY EventType DEF IInv, Basics
<1>5. ValidEvidence'
  BY <1>1, <1>2, <1>3, <1>4, KeepEvidence DEF IInv, Charged, Issued
<1> QED
  BY <1>1, <1>2, <1>5 DEF IInv

(* A refused call moves the clock and nothing else.                         *)
LEMMA RefusedStep ==
    ASSUME IInv, NEW now \in Time, Refused(now)
    PROVE  IInv' /\ Grown
<1>1. Observe(now) /\ UNCHANGED <<scopes, actions, events>>
  BY DEF Refused
<1>2. last_seen' = now /\ observed' = now /\ last_seen <= last_seen' /\ open' = open /\ corrupt' = corrupt
  BY <1>1, ObserveFacts DEF IInv
<1>3. last_seen' \in Time /\ open' \in BOOLEAN
  BY <1>2 DEF IInv, Basics, Shapes
<1> QED
  BY <1>1, <1>2, <1>3, QuietStep

(* Stopping writes nothing to the database.                                 *)
LEMMA CloseStep ==
    ASSUME IInv, Close
    PROVE  IInv' /\ Grown
<1>1. UNCHANGED <<scopes, actions, events, corrupt, last_seen, observed>> /\ open' \in BOOLEAN
  BY DEF Close
<1>2. last_seen \in Nat /\ last_seen \in Time /\ observed = last_seen
  BY TimeFacts DEF IInv, Basics, Shapes
<1>3. last_seen <= last_seen' /\ observed' = last_seen' /\ last_seen' \in Time
  BY <1>1, <1>2
<1> QED
  BY <1>1, <1>3, QuietStep

-----------------------------------------------------------------------------
(* Steps on one attempt. *)

(* An attempt that is not settled has not finished. *)
LEMMA PendingFacts ==
    ASSUME IInv, NEW a \in ActionId, actions[a].state \in Pending
    PROVE  /\ Charged(a) /\ ValidAction(a) /\ actions[a].finished_at = None
           /\ actions[a].state \notin Settled
           /\ ScopeOf(a) \in ScopeId /\ Issued(ScopeOf(a))
           /\ actions[a] \in ActionRow /\ actions[a].action \in Action /\ actions[a].evidence \in Evidence
<1>1. Charged(a) /\ actions[a].state \notin Settled
  BY DEF Charged, Pending, Settled
<1>2. ValidAction(a)
  BY <1>1 DEF IInv, ValidEvidence
<1>3. actions[a].finished_at = None
  BY <1>2 DEF ValidAction, Pending
<1>4. ScopeOf(a) \in ScopeId /\ Issued(ScopeOf(a))
  BY <1>1, ChargedScope DEF IInv
<1> QED
  BY <1>1, <1>2, <1>3, <1>4, ActionRowFacts DEF IInv, Basics, Attempts

(* The row of a pending attempt is written again, and one event logged. *)
LEMMA RowStep ==
    ASSUME IInv, NEW now \in Time, Observe(now), NEW a \in ActionId, actions[a].state \in Pending,
           NEW r \in ActionRow, actions' = [actions EXCEPT ![a] = r], scopes' = scopes,
           NEW e \in EventRow, Log(e),
           r.state # "Absent", r.action = actions[a].action, r.evidence = actions[a].evidence,
           r.reserved_at = actions[a].reserved_at,
           actions[a].dispatch_claimed_at \in {None, r.dispatch_claimed_at}
    PROVE  /\ Basics' /\ Grown /\ actions'[a] = r /\ \A b \in ActionId \ {a} : actions'[b] = actions[b]
           /\ \A b \in ActionId : Charged(b)' <=> Charged(b)
<1>1. actions \in [ActionId -> ActionRow] /\ Charged(a) /\ actions[a].state \notin Settled
  BY PendingFacts DEF IInv, Basics, Shapes
<1>2. /\ actions' \in [ActionId -> ActionRow] /\ actions'[a] = r
      /\ \A b \in ActionId \ {a} : actions'[b] = actions[b]
  BY <1>1
<1>3. \A b \in ActionId : Charged(b)' <=> Charged(b)
  BY <1>1, <1>2 DEF Charged
<1>4. /\ last_seen' = now /\ observed' = now /\ last_seen <= last_seen'
      /\ open' = open /\ corrupt' = corrupt
  BY ObserveFacts DEF IInv
<1>5. events' \in Seq(EventRow) /\ HistoryStays
  BY LogFacts DEF IInv, Basics
<1>6. Shapes'
  BY <1>2, <1>4, <1>5 DEF IInv, Basics, Shapes
<1>7. Grants'
  BY DEF IInv, Basics, Grants, Issued, Parent
<1>8. Attempts'
  <2>1. {b \in ActionId : Charged(b)'} = {b \in ActionId : Charged(b)}
    BY <1>3
  <2>2. IsFiniteSet({b \in ActionId : Charged(b)}')
    BY <2>1 DEF IInv, Basics, Attempts
  <2>3. ASSUME NEW b \in ActionId, Charged(b)'
        PROVE  actions'[b].action \in Action /\ actions'[b].action.action_id = b /\ actions'[b].evidence \in Evidence
    <3>1. actions'[b].action = actions[b].action /\ actions'[b].evidence = actions[b].evidence
      BY <1>2
    <3> QED
      BY <1>3, <2>3, <3>1 DEF IInv, Basics, Attempts
  <2> QED
    BY <2>2, <2>3 DEF Attempts
<1>9. ActionsStay
  <2>1. ASSUME NEW b \in ActionId \ {a}, Charged(b)
        PROVE  actions'[b] = actions[b] /\ actions'[b].state # "Absent"
    BY <1>2, <2>1 DEF Charged
  <2> QED
    BY <1>1, <1>2, <2>1 DEF ActionsStay
<1>10. GrantsStay /\ RevocationsStay
  BY DEF GrantsStay, RevocationsStay
<1> QED
  BY <1>2, <1>3, <1>4, <1>5, <1>6, <1>7, <1>8, <1>9, <1>10 DEF IInv, Basics, Grown

(* Is the scope of a chain in force now? *)
LEMMA ActiveInForce ==
    ASSUME Basics, NEW s \in ScopeId, Issued(s), NEW now \in Time, ActiveChain(s, now)
    PROVE  InForce(s, now) /\ \A p \in Chain(s) : ~Seen(Len(events), p, "ScopeRevoked") \/ ~ValidEvidence
<1>1. InForce(s, now)
  BY DEF ActiveChain, InForce
<1>2. ASSUME NEW p \in Chain(s), Seen(Len(events), p, "ScopeRevoked"), ValidEvidence
      PROVE  FALSE
  BY <1>2, LogTrue DEF ActiveChain
<1> QED
  BY <1>1, <1>2

(* The issuance of every scope of a chain is logged. *)
LEMMA ChainLogged ==
    ASSUME IInv, NEW s \in ScopeId, Issued(s)
    PROVE  /\ Seen(Len(events), s, "ScopeIssued")
           /\ \A p \in Chain(s) : Seen(Len(events), p, "ScopeIssued")
BY ChainFacts DEF IInv, Basics, ValidEvidence, EventsComplete

(* The single claim before a provider write. *)
LEMMA ClaimStep ==
    ASSUME IInv, NEW now \in Time, NEW a \in ActionId, ClaimDispatch(a, now)
    PROVE  IInv' /\ Grown
<1>a. /\ Observe(now) /\ actions[a].state = "Reserved" /\ actions[a].state \in Pending
      /\ scopes' = scopes /\ ActiveChain(ScopeOf(a), now)
      /\ Admissible(scopes[ScopeOf(a)].grant, actions[a].action, actions[a].evidence, now)
      /\ actions' = [actions EXCEPT ![a].state = "DispatchClaimed", ![a].dispatch_claimed_at = now]
      /\ Log(Event("DispatchClaimed", ScopeOf(a), a, now))
  BY DEF ClaimDispatch, Pending
<1>b. /\ Charged(a) /\ ValidAction(a) /\ actions[a].finished_at = None
      /\ ScopeOf(a) \in ScopeId /\ Issued(ScopeOf(a)) /\ actions[a] \in ActionRow
  BY <1>a, PendingFacts
<1>c. actions[a].dispatch_claimed_at = None
  BY <1>a, <1>b DEF ValidAction
<1>1. PICK s \in ScopeId : s = ScopeOf(a)
  BY <1>b
<1>2. PICK r : r = [actions[a] EXCEPT !.state = "DispatchClaimed", !.dispatch_claimed_at = now]
  OBVIOUS
<1>3. /\ r \in ActionRow /\ r.state = "DispatchClaimed" /\ r.action = actions[a].action
      /\ r.evidence = actions[a].evidence /\ r.reserved_at = actions[a].reserved_at
      /\ r.dispatch_claimed_at = now /\ r.finished_at = None
  BY <1>2, <1>b DEF ActionRow, Pending, OptTime
<1>4. actions' = [actions EXCEPT ![a] = r]
  BY <1>a, <1>2 DEF IInv, Basics, Shapes
<1>5. PICK e : e = Event("DispatchClaimed", s, a, now)
  OBVIOUS
<1>6. /\ e \in EventRow /\ e.kind = "DispatchClaimed" /\ e.scope_id = s /\ e.action_id = a
      /\ e.observed_at = now /\ e.action_id # NoId /\ Subject(e) = a
  BY <1>5, IdAssumption DEF Event, EventRow, EventKind, OptTime, Subject
<1>7. Log(e)
  BY <1>a, <1>1, <1>5
<1>8. /\ Basics' /\ Grown /\ actions'[a] = r /\ \A b \in ActionId \ {a} : actions'[b] = actions[b]
      /\ \A b \in ActionId : Charged(b)' <=> Charged(b)
  BY <1>a, <1>c, <1>3, <1>4, <1>6, <1>7, RowStep
<1>9. /\ last_seen' = now /\ last_seen <= now /\ now \in Nat /\ now # None /\ last_seen \in Nat
  BY <1>a, ObserveFacts DEF IInv
<1>10. /\ Issued(s)' /\ Issued(s) /\ Chain(s)' = Chain(s) /\ ScopeOf(a)' = s
       /\ ActiveChain(s, now) /\ scopes' = scopes
  BY <1>a, <1>b, <1>1, <1>3, <1>8, ChainStays DEF Issued, IInv, Basics, Grown, ScopeOf
<1>11. ValidAction(a)'
  <2>1. /\ Admissible(scopes[s].grant, r.action, r.evidence, r.reserved_at)
        /\ InForce(s, r.reserved_at) /\ scopes[s].issued_at <= r.reserved_at
        /\ r.reserved_at <= last_seen /\ r.reserved_at \in Int
    BY <1>b, <1>1, <1>3, TimeFacts DEF ValidAction, ActionRow
  <2>2. InForce(s, r.reserved_at)'
    BY <1>8, <1>9, <1>10, <2>1, InForceStays DEF IInv
  <2>3. InForce(s, now)'
    BY <1>8, <1>9, <1>10, ActiveInForce, InForceStays DEF IInv
  <2>4. r.reserved_at <= now
    BY <1>9, <2>1
  <2>5. Admissible(scopes[s].grant, r.action, r.evidence, now)
    BY <1>a, <1>1, <1>3
  <2> QED
    BY <1>3, <1>8, <1>9, <1>10, <2>1, <2>2, <2>3, <2>4, <2>5 DEF ValidAction
<1>12. PICK n \in Nat : n = Len(events) + 1
  BY EventType DEF IInv, Basics
<1>13. ValidEvent(n)'
  <2>1. ~Seen(Len(events), a, "DispatchClaimed")
    BY <1>c, LogTrue DEF IInv
  <2>2. Seen(Len(events), s, "ScopeIssued")
        /\ \A p \in Chain(s)' : Seen(Len(events), p, "ScopeIssued") /\ ~Seen(Len(events), p, "ScopeRevoked")
    BY <1>10, ChainLogged, ActiveInForce DEF IInv
  <2>3. ActionEvent(e)'
    BY <1>3, <1>6, <1>8, <1>9, <1>10, <1>b DEF ActionEvent
  <2>4. Seen(Len(events), a, "AttemptCharged")
    BY <1>b DEF IInv, ValidEvidence, EventsComplete
  <2>5. /\ e.observed_at = last_seen' /\ Issued(e.scope_id)'
        /\ ~Seen(Len(events), Subject(e), e.kind)
        /\ Seen(Len(events), e.scope_id, "ScopeIssued")
        /\ \A p \in Chain(e.scope_id)' : Seen(Len(events), p, "ScopeIssued") /\ ~Seen(Len(events), p, "ScopeRevoked")
        /\ e.action_id # NoId /\ ActionEvent(e)' /\ Seen(Len(events), e.action_id, "AttemptCharged")
        /\ e.kind \notin {"AttemptFinished", "Interrupted"}
    BY <1>6, <1>9, <1>10, <2>1, <2>2, <2>3, <2>4
  <2> QED
    BY <1>7, <1>8, <1>12, <1>6, <2>5, NewEvent DEF IInv
<1>14. EventsComplete'
  <2>1. HistoryStays /\ Told(a, "DispatchClaimed") /\ Len(events') = Len(events) + 1
    BY <1>6, <1>7, LogFacts DEF IInv, Basics
  <2>2. \A u \in ScopeId : Issued(u)' =>
           /\ Issued(u) \/ Told(u, "ScopeIssued")
           /\ scopes'[u].revoked_at # None =>
                 (Issued(u) /\ scopes[u].revoked_at # None) \/ Told(u, "ScopeRevoked")
    BY <1>a DEF Issued
  <2>3. ASSUME NEW b \in ActionId, Charged(b)'
        PROVE  /\ Charged(b) \/ Told(b, "AttemptCharged")
               /\ actions'[b].dispatch_claimed_at # None =>
                    (Charged(b) /\ actions[b].dispatch_claimed_at # None) \/ Told(b, "DispatchClaimed")
               /\ actions'[b].finished_at # None =>
                    (Charged(b) /\ actions[b].finished_at # None) \/ Told(b, "AttemptFinished")
               /\ actions'[b].state = "Unknown" /\ actions'[b].finished_at = None =>
                    \/ Charged(b) /\ actions[b].state = "Unknown" /\ actions[b].finished_at = None
                    \/ Told(b, "Interrupted")
    <3>1. CASE b = a
      BY <1>3, <1>8, <1>b, <2>1, <3>1
    <3>2. CASE b # a
      BY <1>8, <2>3, <3>2
    <3> QED
      BY <3>1, <3>2
  <2> QED
    BY <1>8, <2>1, <2>2, <2>3, CompleteGrows DEF IInv
<1>15. \A m \in Len(events) + 1 .. Len(events') : ValidEvent(m)'
  <2>1. Len(events') = n /\ n = Len(events) + 1
    BY <1>6, <1>7, <1>12, LogFacts DEF IInv, Basics
  <2> QED
    BY <1>12, <1>13, <2>1
<1>16. ValidEvidence'
  BY <1>a, <1>8, <1>11, <1>14, <1>15, KeepEvidence DEF IInv, Issued
<1> QED
  BY <1>8, <1>16 DEF IInv

(* The outcome of an attempt. *)
LEMMA FinishStep ==
    ASSUME IInv, NEW now \in Time, NEW a \in ActionId, NEW outcome \in Settled, Finish(a, outcome, now)
    PROVE  IInv' /\ Grown
<1>a. /\ Observe(now) /\ actions[a].state \in Pending /\ scopes' = scopes
      /\ outcome = "ApiAccepted" => actions[a].state = "DispatchClaimed"
      /\ actions' = [actions EXCEPT ![a].state = outcome, ![a].finished_at = now]
      /\ Log(Event("AttemptFinished", ScopeOf(a), a, now))
  BY DEF Finish
<1>b. /\ Charged(a) /\ ValidAction(a) /\ actions[a].finished_at = None
      /\ ScopeOf(a) \in ScopeId /\ Issued(ScopeOf(a)) /\ actions[a] \in ActionRow
  BY <1>a, PendingFacts
<1>1. PICK s \in ScopeId : s = ScopeOf(a)
  BY <1>b
<1>2. PICK r : r = [actions[a] EXCEPT !.state = outcome, !.finished_at = now]
  OBVIOUS
<1>3. /\ r \in ActionRow /\ r.state = outcome /\ r.action = actions[a].action
      /\ r.evidence = actions[a].evidence /\ r.reserved_at = actions[a].reserved_at
      /\ r.dispatch_claimed_at = actions[a].dispatch_claimed_at /\ r.finished_at = now
  BY <1>2, <1>b DEF ActionRow, OptTime
<1>c. r.state # "Absent" /\ r.state \notin Pending
  BY <1>3 DEF Settled, Pending
<1>4. actions' = [actions EXCEPT ![a] = r]
  BY <1>a, <1>2 DEF IInv, Basics, Shapes
<1>5. PICK e : e = Event("AttemptFinished", s, a, now)
  OBVIOUS
<1>6. /\ e \in EventRow /\ e.kind = "AttemptFinished" /\ e.scope_id = s /\ e.action_id = a
      /\ e.observed_at = now /\ e.action_id # NoId /\ Subject(e) = a
  BY <1>5, IdAssumption DEF Event, EventRow, EventKind, OptTime, Subject
<1>7. Log(e)
  BY <1>a, <1>1, <1>5
<1>8. /\ Basics' /\ Grown /\ actions'[a] = r /\ \A b \in ActionId \ {a} : actions'[b] = actions[b]
      /\ \A b \in ActionId : Charged(b)' <=> Charged(b)
  BY <1>a, <1>c, <1>3, <1>4, <1>6, <1>7, RowStep
<1>9. /\ last_seen' = now /\ last_seen <= now /\ now \in Nat /\ now # None /\ last_seen \in Nat
  BY <1>a, ObserveFacts DEF IInv
<1>10. /\ Issued(s)' /\ Issued(s) /\ ScopeOf(a)' = s /\ scopes' = scopes
  BY <1>a, <1>b, <1>1, <1>3, <1>8 DEF Issued, ScopeOf
<1>d. r.reserved_at \in Int /\ r.dispatch_claimed_at \in Int /\ None <= last_seen /\ None \in Int
  <2>1. r.reserved_at \in OptTime /\ r.dispatch_claimed_at \in OptTime
    BY <1>3 DEF ActionRow
  <2>2. None <= last_seen
    BY <1>9 DEF None
  <2> QED
    BY <2>1, <2>2, TimeFacts
<1>11. ValidAction(a)'
  <2>1. /\ Admissible(scopes[s].grant, r.action, r.evidence, r.reserved_at)
        /\ InForce(s, r.reserved_at) /\ scopes[s].issued_at <= r.reserved_at
        /\ r.reserved_at <= last_seen
        /\ r.dispatch_claimed_at # None =>
              /\ Admissible(scopes[s].grant, r.action, r.evidence, r.dispatch_claimed_at)
              /\ InForce(s, r.dispatch_claimed_at)
              /\ r.reserved_at <= r.dispatch_claimed_at /\ r.dispatch_claimed_at <= last_seen
    BY <1>b, <1>1, <1>3 DEF ValidAction
  <2>2. r.reserved_at <= now /\ r.dispatch_claimed_at <= now
    BY <1>9, <1>d, <2>1
  <2>3. InForce(s, r.reserved_at)'
    BY <1>8, <1>9, <1>10, <1>d, <2>1, <2>2, InForceStays DEF IInv
  <2>4. r.dispatch_claimed_at # None => InForce(s, r.dispatch_claimed_at)'
    BY <1>8, <1>9, <1>10, <1>d, <2>1, <2>2, InForceStays DEF IInv
  <2>5. outcome = "ApiAccepted" => r.dispatch_claimed_at # None
    BY <1>a, <1>b, <1>3 DEF ValidAction
  <2>6. now <= now
    BY <1>9
  <2> QED
    BY <1>3, <1>c, <1>8, <1>9, <1>10, <2>1, <2>2, <2>3, <2>4, <2>5, <2>6 DEF ValidAction, Pending
<1>12. PICK n \in Nat : n = Len(events) + 1
  BY EventType DEF IInv, Basics
<1>13. ValidEvent(n)'
  <2>1. ~Seen(Len(events), a, "AttemptFinished")
    BY <1>b, LogTrue DEF IInv
  <2>2. Seen(Len(events), s, "ScopeIssued")
    BY <1>10, ChainLogged
  <2>3. ActionEvent(e)'
    BY <1>3, <1>6, <1>8, <1>9, <1>10, <1>b DEF ActionEvent
  <2>4. /\ Seen(Len(events), a, "AttemptCharged")
        /\ actions[a].dispatch_claimed_at # None => Seen(Len(events), a, "DispatchClaimed")
    BY <1>b DEF IInv, ValidEvidence, EventsComplete
  <2>5. /\ e.observed_at = last_seen' /\ Issued(e.scope_id)'
        /\ ~Seen(Len(events), Subject(e), e.kind)
        /\ Seen(Len(events), e.scope_id, "ScopeIssued")
        /\ e.kind \notin {"ScopeIssued", "AttemptCharged", "DispatchClaimed"}
        /\ e.action_id # NoId /\ ActionEvent(e)' /\ Seen(Len(events), e.action_id, "AttemptCharged")
        /\ actions'[e.action_id].dispatch_claimed_at # None => Seen(Len(events), e.action_id, "DispatchClaimed")
    BY <1>3, <1>6, <1>8, <1>9, <1>10, <2>1, <2>2, <2>3, <2>4
  <2> QED
    BY <1>7, <1>8, <1>12, <1>6, <2>5, NewEvent DEF IInv
<1>14. EventsComplete'
  <2>1. HistoryStays /\ Told(a, "AttemptFinished") /\ Len(events') = Len(events) + 1
    BY <1>6, <1>7, LogFacts DEF IInv, Basics
  <2>2. \A u \in ScopeId : Issued(u)' =>
           /\ Issued(u) \/ Told(u, "ScopeIssued")
           /\ scopes'[u].revoked_at # None =>
                 (Issued(u) /\ scopes[u].revoked_at # None) \/ Told(u, "ScopeRevoked")
    BY <1>a DEF Issued
  <2>3. ASSUME NEW b \in ActionId, Charged(b)'
        PROVE  /\ Charged(b) \/ Told(b, "AttemptCharged")
               /\ actions'[b].dispatch_claimed_at # None =>
                    (Charged(b) /\ actions[b].dispatch_claimed_at # None) \/ Told(b, "DispatchClaimed")
               /\ actions'[b].finished_at # None =>
                    (Charged(b) /\ actions[b].finished_at # None) \/ Told(b, "AttemptFinished")
               /\ actions'[b].state = "Unknown" /\ actions'[b].finished_at = None =>
                    \/ Charged(b) /\ actions[b].state = "Unknown" /\ actions[b].finished_at = None
                    \/ Told(b, "Interrupted")
    <3>1. CASE b = a
      BY <1>3, <1>8, <1>9, <1>b, <2>1, <3>1
    <3>2. CASE b # a
      BY <1>8, <2>3, <3>2
    <3> QED
      BY <3>1, <3>2
  <2> QED
    BY <1>8, <2>1, <2>2, <2>3, CompleteGrows DEF IInv
<1>15. \A m \in Len(events) + 1 .. Len(events') : ValidEvent(m)'
  <2>1. Len(events') = n /\ n = Len(events) + 1
    BY <1>6, <1>7, <1>12, LogFacts DEF IInv, Basics
  <2> QED
    BY <1>12, <1>13, <2>1
<1>16. ValidEvidence'
  BY <1>a, <1>8, <1>11, <1>14, <1>15, KeepEvidence DEF IInv, Issued
<1> QED
  BY <1>8, <1>16 DEF IInv

-----------------------------------------------------------------------------
(* Steps on one scope. *)

(* A revocation is recorded once, with its time.                            *)
LEMMA RevokeStep ==
    ASSUME IInv, NEW now \in Time, NEW s \in ScopeId, Revoke(s, now)
    PROVE  IInv' /\ Grown
<1>a. /\ Observe(now) /\ Issued(s) /\ scopes[s].revoked_at = None /\ actions' = actions
      /\ scopes' = [scopes EXCEPT ![s].revoked_at = now]
      /\ Log(Event("ScopeRevoked", s, NoId, now))
  BY DEF Revoke
<1>0. /\ scopes \in [ScopeId -> ScopeRow] /\ actions \in [ActionId -> ActionRow]
  BY DEF IInv, Basics, Shapes
<1>1. /\ last_seen' = now /\ observed' = now /\ last_seen <= now /\ now \in Nat /\ now # None
      /\ last_seen \in Nat /\ open' = open /\ corrupt' = corrupt /\ last_seen <= last_seen'
  BY <1>a, ObserveFacts DEF IInv
<1>2. /\ scopes' \in [ScopeId -> ScopeRow] /\ scopes'[s].revoked_at = now
      /\ \A u \in ScopeId \ {s} : scopes'[u] = scopes[u]
      /\ scopes'[s].grant = scopes[s].grant /\ scopes'[s].issued_at = scopes[s].issued_at
      /\ scopes'[s].charged_attempts = scopes[s].charged_attempts
      /\ scopes'[s].charged_resources = scopes[s].charged_resources
  BY <1>a, <1>0 DEF ScopeRow, OptTime
<1>3. \A u \in ScopeId : /\ scopes'[u].grant = scopes[u].grant /\ scopes'[u].issued_at = scopes[u].issued_at
                         /\ scopes'[u].charged_attempts = scopes[u].charged_attempts
                         /\ scopes'[u].charged_resources = scopes[u].charged_resources
                         /\ scopes'[u].revoked_at = scopes[u].revoked_at \/ (u = s /\ scopes'[u].revoked_at = now)
  BY <1>2
<1>4. \A u \in ScopeId : (Issued(u)' <=> Issued(u)) /\ Parent(u)' = Parent(u)
  BY <1>3 DEF Issued, Parent
<1>5. PICK e : e = Event("ScopeRevoked", s, NoId, now)
  OBVIOUS
<1>6. /\ e \in EventRow /\ e.kind = "ScopeRevoked" /\ e.scope_id = s /\ e.action_id = NoId
      /\ e.observed_at = now /\ Subject(e) = s
  BY <1>5 DEF Event, EventRow, EventKind, OptTime, Subject
<1>7. Log(e)
  BY <1>a, <1>5
<1>8. /\ events' \in Seq(EventRow) /\ HistoryStays /\ Told(s, "ScopeRevoked")
      /\ Len(events') = Len(events) + 1
  BY <1>6, <1>7, LogFacts DEF IInv, Basics
<1>9. Basics'
  <2>1. Shapes'
    BY <1>a, <1>1, <1>2, <1>8 DEF IInv, Basics, Shapes
  <2>2. Attempts'
    BY <1>a DEF IInv, Basics, Attempts, Charged
  <2>3. ASSUME NEW u \in ScopeId, Issued(u)'
        PROVE  /\ scopes'[u].grant \in Grant /\ scopes'[u].grant.scope_id = u
               /\ Parent(u)' # NoId => Issued(Parent(u))' /\ ChildOf(scopes'[u].grant, scopes'[Parent(u)'].grant)
               /\ IsFiniteSet(scopes'[u].charged_resources)
    <3>1. Issued(u) /\ Parent(u)' = Parent(u) /\ Parent(u) \in ScopeId \cup {NoId}
      BY <1>4, <2>3, ParentType DEF IInv, Basics
    <3>2. PICK p \in ScopeId \cup {NoId} : p = Parent(u) /\ p = Parent(u)'
      BY <3>1
    <3>3. /\ scopes[u].grant \in Grant /\ scopes[u].grant.scope_id = u
          /\ p # NoId => Issued(p) /\ ChildOf(scopes[u].grant, scopes[p].grant)
          /\ IsFiniteSet(scopes[u].charged_resources)
      BY <3>1, <3>2 DEF IInv, Basics, Grants
    <3>4. p # NoId => Issued(p)' /\ ChildOf(scopes'[u].grant, scopes'[p].grant)
      BY <1>3, <1>4, <3>3
    <3> QED
      BY <1>3, <3>2, <3>3, <3>4 DEF Issued
  <2>4. Grants'
    BY <2>3 DEF Grants
  <2> QED
    BY <1>1, <2>1, <2>2, <2>4 DEF IInv, Basics
<1>10. Grown
  <2>1. GrantsStay
    BY <1>3 DEF GrantsStay
  <2>2. RevocationsStay
    BY <1>a, <1>1, <1>3 DEF RevocationsStay
  <2>3. ActionsStay
    BY <1>a DEF ActionsStay, Charged
  <2> QED
    BY <1>1, <1>8, <2>1, <2>2, <2>3 DEF Grown
<1>12. PICK n \in Nat : n = Len(events) + 1
  BY EventType DEF IInv, Basics
<1>13. ValidEvent(n)'
  <2>1. ~Seen(Len(events), s, "ScopeRevoked")
    BY <1>a, LogTrue DEF IInv
  <2>2. Seen(Len(events), s, "ScopeIssued")
    BY <1>a, ChainLogged
  <2>3. ScopeEvent(e)'
    BY <1>1, <1>2, <1>6 DEF ScopeEvent
  <2>5. /\ e.observed_at = last_seen' /\ Issued(e.scope_id)'
        /\ ~Seen(Len(events), Subject(e), e.kind)
        /\ Seen(Len(events), e.scope_id, "ScopeIssued")
        /\ e.kind \notin {"ScopeIssued", "AttemptCharged", "DispatchClaimed", "AttemptFinished", "Interrupted"}
        /\ e.action_id = NoId /\ ScopeEvent(e)'
    BY <1>a, <1>1, <1>4, <1>6, <2>1, <2>2, <2>3
  <2> QED
    BY <1>6, <1>7, <1>9, <1>10, <1>12, <2>5, NewEvent DEF IInv
<1>14. EventsComplete'
  <2>2. \A u \in ScopeId : Issued(u)' =>
           /\ Issued(u) \/ Told(u, "ScopeIssued")
           /\ scopes'[u].revoked_at # None =>
                 (Issued(u) /\ scopes[u].revoked_at # None) \/ Told(u, "ScopeRevoked")
    BY <1>3, <1>4, <1>8
  <2>3. ASSUME NEW b \in ActionId, Charged(b)'
        PROVE  /\ Charged(b) /\ actions'[b] = actions[b]
    BY <1>a, <2>3 DEF Charged
  <2> QED
    BY <1>8, <1>9, <2>2, <2>3, CompleteGrows DEF IInv
<1>15. \A m \in Len(events) + 1 .. Len(events') : ValidEvent(m)'
  BY <1>8, <1>12, <1>13
<1>16. ValidEvidence'
  BY <1>a, <1>3, <1>4, <1>9, <1>10, <1>14, <1>15, KeepEvidence DEF IInv, Charged
<1> QED
  BY <1>9, <1>16, <1>10 DEF IInv

(* A new grant. *)
LEMMA IssueStep ==
    ASSUME IInv, NEW now \in Time, NEW g \in Grant, IssueScope(g, now)
    PROVE  IInv' /\ Grown
<1>0. PICK s \in ScopeId, up \in ScopeId \cup {NoId} : s = g.scope_id /\ up = g.parent_id /\ up # s
  BY GrantFacts
<1>x. PICK x : x = [NoScope EXCEPT !.grant = g, !.issued_at = now]
  OBVIOUS
<1>a. /\ Observe(now) /\ ~Issued(s) /\ now < g.expires_at /\ actions' = actions
      /\ up # NoId => Issued(up) /\ ActiveChain(up, now) /\ ChildOf(g, scopes[up].grant)
      /\ scopes' = [scopes EXCEPT ![s] = x]
      /\ Log(Event("ScopeIssued", s, NoId, now))
  BY <1>0, <1>x DEF IssueScope
<1>b. /\ x.grant = g /\ x.issued_at = now /\ x.revoked_at = None /\ x.charged_attempts = 0
      /\ x.charged_resources = {} /\ x \in ScopeRow
  BY <1>x, TimeFacts DEF NoScope, ScopeRow, OptTime
<1>1. /\ last_seen' = now /\ observed' = now /\ last_seen <= now /\ now \in Nat /\ now # None
      /\ last_seen \in Nat /\ open' = open /\ corrupt' = corrupt /\ last_seen <= last_seen'
  BY <1>a, ObserveFacts DEF IInv
<1>2. /\ scopes' \in [ScopeId -> ScopeRow] /\ scopes'[s] = x
      /\ \A u \in ScopeId \ {s} : scopes'[u] = scopes[u]
  BY <1>a, <1>b DEF IInv, Basics, Shapes
<1>3. \A u \in ScopeId : Issued(u) => u # s /\ scopes'[u] = scopes[u] /\ Issued(u)'
  BY <1>a, <1>2 DEF Issued
<1>4. \A u \in ScopeId : Issued(u)' <=> Issued(u) \/ u = s
  BY <1>1, <1>2, <1>b DEF Issued
<1>c. \A u \in ScopeId : Issued(u) => Parent(u)' = Parent(u)
  BY <1>3 DEF Parent
<1>d. Parent(s)' = up
  BY <1>0, <1>1, <1>2, <1>b DEF Parent, Issued
<1>5. PICK e : e = Event("ScopeIssued", s, NoId, now)
  OBVIOUS
<1>6. /\ e \in EventRow /\ e.kind = "ScopeIssued" /\ e.scope_id = s /\ e.action_id = NoId
      /\ e.observed_at = now /\ Subject(e) = s
  BY <1>5 DEF Event, EventRow, EventKind, OptTime, Subject
<1>7. Log(e)
  BY <1>a, <1>5
<1>8. /\ events' \in Seq(EventRow) /\ HistoryStays /\ Told(s, "ScopeIssued")
      /\ Len(events') = Len(events) + 1
  BY <1>6, <1>7, LogFacts DEF IInv, Basics
<1>9. Basics'
  <2>1. Shapes'
    BY <1>a, <1>1, <1>2, <1>8 DEF IInv, Basics, Shapes
  <2>2. Attempts'
    BY <1>a DEF IInv, Basics, Attempts, Charged
  <2>3. ASSUME NEW u \in ScopeId, Issued(u)
        PROVE  /\ scopes'[u].grant \in Grant /\ scopes'[u].grant.scope_id = u
               /\ Parent(u)' # NoId => Issued(Parent(u))' /\ ChildOf(scopes'[u].grant, scopes'[Parent(u)'].grant)
               /\ IsFiniteSet(scopes'[u].charged_resources)
    <3>2. PICK p \in ScopeId \cup {NoId} : p = Parent(u) /\ p = Parent(u)'
      BY <1>c, <2>3, ParentType DEF IInv, Basics
    <3>3. /\ scopes[u].grant \in Grant /\ scopes[u].grant.scope_id = u
          /\ p # NoId => Issued(p) /\ ChildOf(scopes[u].grant, scopes[p].grant)
          /\ IsFiniteSet(scopes[u].charged_resources)
      BY <2>3, <3>2 DEF IInv, Basics, Grants
    <3>4. p # NoId => Issued(p)' /\ ChildOf(scopes'[u].grant, scopes'[p].grant)
      BY <1>3, <2>3, <3>3
    <3> QED
      BY <1>3, <2>3, <3>2, <3>3, <3>4 DEF Issued
  <2>4. /\ scopes'[s].grant \in Grant /\ scopes'[s].grant.scope_id = s
        /\ up # NoId => Issued(up)' /\ ChildOf(scopes'[s].grant, scopes'[up].grant)
        /\ IsFiniteSet(scopes'[s].charged_resources)
    BY <1>0, <1>2, <1>3, <1>a, <1>b, FS_EmptySet
  <2>5. Grants'
    BY <1>4, <1>d, <2>3, <2>4 DEF Grants, Issued
  <2> QED
    BY <1>1, <2>1, <2>2, <2>5 DEF IInv, Basics
<1>10. Grown
  <2>1. GrantsStay /\ RevocationsStay
    BY <1>3 DEF GrantsStay, RevocationsStay
  <2>3. ActionsStay
    BY <1>a DEF ActionsStay, Charged
  <2> QED
    BY <1>1, <1>8, <2>1, <2>3 DEF Grown
<1>11. PICK U \in SUBSET ScopeId :
          /\ U = IF up = NoId THEN {} ELSE Chain(up)
          /\ Chain(s)' \subseteq {s} \cup U
          /\ \A p \in U : /\ Issued(p) /\ scopes[p].revoked_at = None /\ Within(scopes[p].grant, now)
                          /\ p # s /\ scopes[p].issued_at <= now
                          /\ Seen(Len(events), p, "ScopeIssued") /\ ~Seen(Len(events), p, "ScopeRevoked")
  <2>1. PICK U : U = IF up = NoId THEN {} ELSE Chain(up)
    OBVIOUS
  <2>2. /\ U \subseteq ScopeId
        /\ up # NoId => up \in U
        /\ \A p \in U : Issued(p) /\ (Parent(p) # NoId => Parent(p) \in U)
    <3>1. CASE up = NoId
      BY <2>1, <3>1
    <3>2. CASE up # NoId
      <4>1. up \in ScopeId /\ Issued(up)
        BY <1>a, <3>2
      <4>2. /\ up \in Chain(up) /\ Chain(up) \subseteq ScopeId /\ UpClosed(Chain(up))
            /\ \A p \in Chain(up) : Issued(p)
        BY <4>1, ChainFacts DEF IInv, Basics
      <4> QED
        BY <2>1, <3>2, <4>2 DEF UpClosed
    <3> QED
      BY <3>1, <3>2
  <2>3. \A p \in {s} \cup U : Parent(p)' # NoId => Parent(p)' \in {s} \cup U
    BY <1>c, <1>d, <2>2
  <2>4. ASSUME NEW p \in Chain(s)'
        PROVE  p \in {s} \cup U
    <3>1. \A V \in SUBSET ScopeId : s \in V /\ (\A q \in V : Parent(q)' # NoId => Parent(q)' \in V) => p \in V
      BY <2>4 DEF Chain, UpClosed
    <3>2. PICK V \in SUBSET ScopeId : V = {s} \cup U
      BY <2>2
    <3>3. s \in V /\ \A q \in V : Parent(q)' # NoId => Parent(q)' \in V
      BY <2>3, <3>2
    <3> QED
      BY <3>1, <3>2, <3>3
  <2>5. ASSUME NEW p \in U
        PROVE  /\ Issued(p) /\ scopes[p].revoked_at = None /\ Within(scopes[p].grant, now)
               /\ p # s /\ scopes[p].issued_at <= now
               /\ Seen(Len(events), p, "ScopeIssued") /\ ~Seen(Len(events), p, "ScopeRevoked")
    <3>1. up # NoId /\ p \in Chain(up) /\ p \in ScopeId /\ Issued(p) /\ up \in ScopeId /\ Issued(up)
      BY <1>a, <2>1, <2>2, <2>5
    <3>2. scopes[p].revoked_at = None /\ Within(scopes[p].grant, now)
      BY <1>a, <3>1 DEF ActiveChain
    <3>3. scopes[p].issued_at <= last_seen /\ scopes[p].issued_at \in Int
      BY <3>1, ScopeRowFacts DEF IInv, Basics, ValidEvidence, ValidScope
    <3>4. scopes[p].issued_at <= now
      BY <1>1, <3>3
    <3>5. Seen(Len(events), p, "ScopeIssued")
      BY <3>1, ChainLogged
    <3>6. ~Seen(Len(events), p, "ScopeRevoked")
      BY <3>2, LogTrue DEF IInv
    <3> QED
      BY <1>3, <3>1, <3>2, <3>4, <3>5, <3>6
  <2> QED
    BY <2>1, <2>2, <2>4, <2>5
<1>e. \A p \in Chain(s)' : p \in ScopeId /\ Issued(p)' /\ (p # s => p \in U)
  BY <1>3, <1>4, <1>11
<1>16. ValidScope(s)'
  <2>1. \A p \in Chain(s)' : scopes'[p].grant.parent_id # NoId =>
           ChildOf(scopes'[p].grant, scopes'[scopes'[p].grant.parent_id].grant)
    <3>1. ASSUME NEW p \in Chain(s)', scopes'[p].grant.parent_id # NoId
          PROVE  ChildOf(scopes'[p].grant, scopes'[scopes'[p].grant.parent_id].grant)
      <4>1. p \in ScopeId /\ Issued(p)' /\ Parent(p)' = scopes'[p].grant.parent_id
        BY <1>e, <3>1 DEF Parent
      <4> QED
        BY <1>9, <3>1, <4>1 DEF Basics, Grants
    <3> QED
      BY <3>1
  <2>2. g.max_charged_attempts \in Nat /\ g.max_distinct_resources \in Nat
    BY GrantFacts
  <2>3. Cardinality({}) = 0
    BY FS_EmptySet
  <2>4. now <= now /\ 0 <= g.max_charged_attempts /\ Cardinality({}) <= g.max_distinct_resources
    BY <1>1, <2>2, <2>3
  <2>5. \A p \in Chain(s)' \ {s} :
           /\ scopes'[p].issued_at <= now /\ Within(scopes'[p].grant, now)
           /\ scopes'[p].revoked_at = None
    BY <1>e, <1>11, <1>3
  <2> QED
    BY <1>a, <1>b, <1>1, <1>2, <1>e, <2>1, <2>4, <2>5 DEF ValidScope
<1>12. PICK n \in Nat : n = Len(events) + 1
  BY EventType DEF IInv, Basics
<1>13. ValidEvent(n)'
  <2>1. ~Seen(Len(events), s, "ScopeRevoked") /\ ~Seen(Len(events), s, "ScopeIssued")
    BY <1>a, LogTrue DEF IInv
  <2>2. \A p \in Chain(s)' : /\ Seen(Len(events), p, "ScopeIssued") \/ p = s
                             /\ ~Seen(Len(events), p, "ScopeRevoked")
    BY <1>e, <1>11, <2>1
  <2>3. ScopeEvent(e)'
    BY <1>2, <1>6, <1>b DEF ScopeEvent
  <2>5. /\ e.observed_at = last_seen' /\ Issued(e.scope_id)'
        /\ ~Seen(Len(events), Subject(e), e.kind)
        /\ e.kind = "ScopeIssued" /\ e.action_id = NoId /\ ScopeEvent(e)'
        /\ \A p \in Chain(e.scope_id)' : /\ Seen(Len(events), p, "ScopeIssued") \/ p = e.scope_id
                                         /\ ~Seen(Len(events), p, "ScopeRevoked")
    BY <1>1, <1>4, <1>6, <2>1, <2>2, <2>3
  <2> QED
    BY <1>6, <1>7, <1>9, <1>10, <1>12, <2>5, NewEvent DEF IInv
<1>14. EventsComplete'
  <2>2. \A u \in ScopeId : Issued(u)' =>
           /\ Issued(u) \/ Told(u, "ScopeIssued")
           /\ scopes'[u].revoked_at # None =>
                 (Issued(u) /\ scopes[u].revoked_at # None) \/ Told(u, "ScopeRevoked")
    BY <1>b, <1>2, <1>3, <1>4, <1>8
  <2>3. ASSUME NEW b \in ActionId, Charged(b)'
        PROVE  /\ Charged(b) /\ actions'[b] = actions[b]
    BY <1>a, <2>3 DEF Charged
  <2> QED
    BY <1>8, <1>9, <2>2, <2>3, CompleteGrows DEF IInv
<1>15. \A m \in Len(events) + 1 .. Len(events') : ValidEvent(m)'
  BY <1>8, <1>12, <1>13
<1>17. ValidEvidence'
  <2>1. \A u \in ScopeId : Issued(u)' /\ ~Issued(u) =>
           /\ ValidScope(u)'
           /\ scopes'[u].charged_attempts = 0 /\ scopes'[u].charged_resources = {}
    BY <1>2, <1>4, <1>b, <1>16
  <2>2. \A u \in ScopeId : Issued(u) =>
           /\ scopes'[u].charged_attempts = scopes[u].charged_attempts
           /\ scopes'[u].charged_resources = scopes[u].charged_resources
    BY <1>3
  <2>3. \A a \in ActionId : (Charged(a)' => Charged(a)) /\ actions'[a] = actions[a]
    BY <1>a DEF Charged
  <2> QED
    BY <1>9, <1>10, <1>14, <1>15, <2>1, <2>2, <2>3, KeepEvidence DEF IInv
<1> QED
  BY <1>9, <1>10, <1>17 DEF IInv

-----------------------------------------------------------------------------
(* The charge of an attempt. *)

(* What a reservation writes, with the ids it writes under. *)
Reserves(a, evidence, now, s, id, q) ==
    /\ Observe(now) /\ FreshRequest(a) /\ ~Charged(id) /\ Issued(s) /\ ActiveChain(s, now)
    /\ Admissible(scopes[s].grant, a, evidence, now)
    /\ \A p \in Chain(s) : BudgetLeft(p, a.resource)
    /\ scopes' = [p \in ScopeId |->
                    IF p \in Chain(s)
                    THEN [scopes[p] EXCEPT !.charged_attempts = @ + 1,
                                           !.charged_resources = @ \cup {a.resource}]
                    ELSE scopes[p]]
    /\ actions' = [actions EXCEPT ![id] = q]
    /\ Log(Event("AttemptCharged", s, id, now))
    /\ s = a.scope_id /\ id = a.action_id
    /\ q = [NoAction EXCEPT !.action = a, !.evidence = evidence,
                            !.state = "Reserved", !.reserved_at = now]

(* Its new row, and what it leaves alone.                                   *)
LEMMA ReservesFacts ==
    ASSUME IInv, NEW now \in Time, NEW a \in Action, NEW evidence \in Evidence,
           NEW s \in ScopeId, NEW id \in ActionId, NEW q, Reserves(a, evidence, now, s, id, q)
    PROVE  /\ q \in ActionRow /\ q.action = a /\ q.evidence = evidence /\ q.state = "Reserved"
           /\ q.reserved_at = now /\ q.dispatch_claimed_at = None /\ q.finished_at = None
           /\ actions' \in [ActionId -> ActionRow] /\ actions'[id] = q
           /\ \A b \in ActionId \ {id} : actions'[b] = actions[b]
           /\ \A b \in ActionId : Charged(b)' <=> Charged(b) \/ b = id
           /\ Chain(s) \subseteq ScopeId /\ s \in Chain(s)
           /\ \A u \in ScopeId : /\ scopes'[u].grant = scopes[u].grant
                                 /\ scopes'[u].issued_at = scopes[u].issued_at
                                 /\ scopes'[u].revoked_at = scopes[u].revoked_at
           /\ \A u \in ScopeId \ Chain(s) : scopes'[u] = scopes[u]
           /\ \A u \in Chain(s) :
                 /\ scopes'[u].charged_attempts = scopes[u].charged_attempts + 1
                 /\ scopes'[u].charged_resources = scopes[u].charged_resources \cup {a.resource}
           /\ scopes' \in [ScopeId -> ScopeRow]
<1>0. scopes \in [ScopeId -> ScopeRow] /\ actions \in [ActionId -> ActionRow]
  BY DEF IInv, Basics, Shapes
<1>1. /\ q \in ActionRow /\ q.action = a /\ q.evidence = evidence /\ q.state = "Reserved"
      /\ q.reserved_at = now /\ q.dispatch_claimed_at = None /\ q.finished_at = None
  BY DEF Reserves, NoAction, ActionRow, Pending, OptTime
<1>2. actions' \in [ActionId -> ActionRow] /\ actions'[id] = q
      /\ \A b \in ActionId \ {id} : actions'[b] = actions[b]
  BY <1>0, <1>1 DEF Reserves
<1>3. \A b \in ActionId : Charged(b)' <=> Charged(b) \/ b = id
  BY <1>1, <1>2 DEF Charged
<1>4. /\ Chain(s) \subseteq ScopeId /\ s \in Chain(s) /\ scopes[s].grant \in Grant
  BY ChainFacts DEF IInv, Basics, Reserves
<1>5. a.resource \in UNION {g.resources : g \in Grant}
  BY <1>4 DEF Reserves, Admissible
<1>6. ASSUME NEW u \in Chain(s)
      PROVE  /\ scopes'[u] \in ScopeRow /\ scopes'[u].grant = scopes[u].grant
             /\ scopes'[u].issued_at = scopes[u].issued_at
             /\ scopes'[u].revoked_at = scopes[u].revoked_at
             /\ scopes'[u].charged_attempts = scopes[u].charged_attempts + 1
             /\ scopes'[u].charged_resources = scopes[u].charged_resources \cup {a.resource}
  <2>1. u \in ScopeId /\ scopes[u] \in ScopeRow
    BY <1>0, <1>4, <1>6
  <2>2. scopes'[u] = [scopes[u] EXCEPT !.charged_attempts = @ + 1,
                                       !.charged_resources = @ \cup {a.resource}]
    BY <1>6, <2>1 DEF Reserves
  <2>3. PICK k, R : k = scopes[u].charged_attempts + 1 /\ R = scopes[u].charged_resources \cup {a.resource}
    OBVIOUS
  <2>4. k \in Nat /\ R \in SUBSET UNION {g.resources : g \in Grant}
    BY <1>5, <2>1, <2>3 DEF ScopeRow
  <2>5. scopes'[u] = [scopes[u] EXCEPT !.charged_attempts = k, !.charged_resources = R]
    BY <2>1, <2>2, <2>3 DEF ScopeRow
  <2>6. /\ scopes'[u].grant = scopes[u].grant /\ scopes'[u].issued_at = scopes[u].issued_at
        /\ scopes'[u].revoked_at = scopes[u].revoked_at
        /\ scopes'[u].charged_attempts = k /\ scopes'[u].charged_resources = R
    BY <2>1, <2>5 DEF ScopeRow
  <2>7. scopes'[u] \in ScopeRow
    BY <2>1, <2>4, <2>5 DEF ScopeRow
  <2> QED
    BY <2>3, <2>6, <2>7
<1>7. \A u \in ScopeId \ Chain(s) : scopes'[u] = scopes[u]
  BY DEF Reserves
<1>8. scopes' \in [ScopeId -> ScopeRow]
  <2>1. \A u \in ScopeId : scopes'[u] \in ScopeRow
    BY <1>0, <1>6, <1>7
  <2>2. scopes' = [u \in ScopeId |-> scopes'[u]]
    BY DEF Reserves
  <2> QED
    BY <2>1, <2>2
<1> QED
  BY <1>1, <1>2, <1>3, <1>4, <1>6, <1>7, <1>8

(* The tables keep their shape, and grow. *)
LEMMA ReservesBasics ==
    ASSUME IInv, NEW now \in Time, NEW a \in Action, NEW evidence \in Evidence,
           NEW s \in ScopeId, NEW id \in ActionId, NEW q, Reserves(a, evidence, now, s, id, q)
    PROVE  Basics' /\ Grown
<1>1. /\ last_seen' = now /\ observed' = now /\ last_seen <= now /\ now \in Nat /\ now # None
      /\ last_seen \in Nat /\ open' = open /\ corrupt' = corrupt /\ last_seen <= last_seen'
  BY ObserveFacts DEF IInv, Reserves
<1>2. Event("AttemptCharged", s, id, now) \in EventRow
  BY DEF Event, EventRow, EventKind, OptTime
<1>3. /\ events' \in Seq(EventRow) /\ HistoryStays
  BY <1>2, LogFacts DEF IInv, Basics, Reserves
<1>4. Shapes'
  BY <1>1, <1>3, ReservesFacts DEF IInv, Basics, Shapes
<1>5. \A u \in ScopeId : /\ scopes'[u].grant = scopes[u].grant /\ scopes'[u].issued_at = scopes[u].issued_at
                         /\ scopes'[u].revoked_at = scopes[u].revoked_at
  BY ReservesFacts
<1>6. \A u \in ScopeId : (Issued(u)' <=> Issued(u)) /\ Parent(u)' = Parent(u)
  BY <1>5 DEF Issued, Parent
<1>7. ASSUME NEW u \in ScopeId, Issued(u)'
      PROVE  /\ scopes'[u].grant \in Grant /\ scopes'[u].grant.scope_id = u
             /\ Parent(u)' # NoId => Issued(Parent(u))' /\ ChildOf(scopes'[u].grant, scopes'[Parent(u)'].grant)
             /\ IsFiniteSet(scopes'[u].charged_resources)
  <2>1. PICK p \in ScopeId \cup {NoId} : p = Parent(u) /\ p = Parent(u)'
    BY <1>6, ParentType DEF IInv, Basics
  <2>2. /\ scopes[u].grant \in Grant /\ scopes[u].grant.scope_id = u
        /\ p # NoId => Issued(p) /\ ChildOf(scopes[u].grant, scopes[p].grant)
        /\ IsFiniteSet(scopes[u].charged_resources)
    BY <1>6, <1>7, <2>1 DEF IInv, Basics, Grants
  <2>3. p # NoId => Issued(p)' /\ ChildOf(scopes'[u].grant, scopes'[p].grant)
    BY <1>5, <1>6, <2>2
  <2>4. IsFiniteSet(scopes'[u].charged_resources)
    <3>1. CASE u \in Chain(s)
      <4>1. scopes'[u].charged_resources = scopes[u].charged_resources \cup {a.resource}
        BY <3>1, ReservesFacts
      <4> QED
        BY <2>2, <4>1, FS_AddElement
    <3>2. CASE u \notin Chain(s)
      BY <2>2, <3>2, ReservesFacts
    <3> QED
      BY <3>1, <3>2
  <2> QED
    BY <1>5, <2>1, <2>2, <2>3, <2>4 DEF Issued
<1>8. Grants'
  BY <1>7 DEF Grants
<1>9. Attempts'
  <2>1. {b \in ActionId : Charged(b)'} = {b \in ActionId : Charged(b)} \cup {id}
    BY ReservesFacts
  <2>2. IsFiniteSet({b \in ActionId : Charged(b)} \cup {id})
    BY FS_AddElement DEF IInv, Basics, Attempts
  <2>3. IsFiniteSet({b \in ActionId : Charged(b)}')
    BY <2>1, <2>2
  <2>4. ASSUME NEW b \in ActionId, Charged(b)'
        PROVE  actions'[b].action \in Action /\ actions'[b].action.action_id = b /\ actions'[b].evidence \in Evidence
    <3>1. CASE b = id
      <4>1. actions'[b].action = a /\ actions'[b].evidence = evidence
        BY <3>1, ReservesFacts
      <4> QED
        BY <3>1, <4>1 DEF Reserves
    <3>2. CASE b # id
      <4>1. actions'[b] = actions[b] /\ Charged(b)
        BY <2>4, <3>2, ReservesFacts
      <4> QED
        BY <4>1 DEF IInv, Basics, Attempts
    <3> QED
      BY <3>1, <3>2
  <2> QED
    BY <2>3, <2>4 DEF Attempts
<1>10. ActionsStay
  <2>1. ASSUME NEW b \in ActionId, Charged(b)
        PROVE  actions'[b] = actions[b] /\ actions'[b].state # "Absent"
    <3>1. b # id
      BY <2>1 DEF Reserves
    <3>2. actions'[b] = actions[b]
      BY <3>1, ReservesFacts
    <3> QED
      BY <2>1, <3>2 DEF Charged
  <2> QED
    BY <2>1 DEF ActionsStay
<1>11. GrantsStay /\ RevocationsStay
  BY <1>5 DEF GrantsStay, RevocationsStay
<1> QED
  BY <1>1, <1>3, <1>4, <1>8, <1>9, <1>10, <1>11 DEF IInv, Basics, Grown

(* The charges on every scope, counted again after it. *)
LEMMA ReservesCharges ==
    ASSUME IInv, NEW now \in Time, NEW a \in Action, NEW evidence \in Evidence,
           NEW s \in ScopeId, NEW id \in ActionId, NEW q, Reserves(a, evidence, now, s, id, q),
           NEW u \in ScopeId
    PROVE  /\ ChargesOn(u)' = IF u \in Chain(s) THEN ChargesOn(u) \cup {id} ELSE ChargesOn(u)
           /\ IsFiniteSet(ChargesOn(u)) /\ id \notin ChargesOn(u)
           /\ \A b \in ChargesOn(u) : actions'[b].action = actions[b].action
<1>0. Basics' /\ Grown
  BY ReservesBasics
<1>1. ASSUME NEW b \in ActionId, Charged(b)
      PROVE  /\ Charged(b)' /\ b # id /\ actions'[b] = actions[b]
             /\ Chain(ScopeOf(b))' = Chain(ScopeOf(b))
  <2>1. b # id
    BY <1>1 DEF Reserves
  <2>2. Charged(b)' /\ actions'[b] = actions[b]
    BY <1>1, <2>1, ReservesFacts
  <2>3. PICK v \in ScopeId : v = ScopeOf(b) /\ Issued(v) /\ v = ScopeOf(b)'
    BY <1>1, <2>2, ChargedScope DEF IInv, ScopeOf
  <2>4. Chain(v)' = Chain(v)
    BY <1>0, <2>3, ChainStays DEF IInv, Basics, Grown
  <2> QED
    BY <2>1, <2>2, <2>3, <2>4
<1>2. Charged(id)' /\ Chain(ScopeOf(id))' = Chain(s)
  <2>1. Charged(id)' /\ actions'[id].action = a
    BY ReservesFacts
  <2>2. ScopeOf(id)' = s /\ Issued(s)
    BY <2>1 DEF ScopeOf, Reserves
  <2>3. Chain(s)' = Chain(s)
    BY <1>0, <2>2, ChainStays DEF IInv, Basics, Grown
  <2> QED
    BY <2>1, <2>2, <2>3
<1>3. \A b \in ActionId : Charged(b)' <=> Charged(b) \/ b = id
  BY ReservesFacts
<1>4. \A b \in ActionId : (Charged(b)' /\ u \in Chain(ScopeOf(b))') <=>
         (Charged(b) /\ u \in Chain(ScopeOf(b))) \/ (b = id /\ u \in Chain(s))
  BY <1>1, <1>2, <1>3
<1>5. ChargesOn(u)' = IF u \in Chain(s) THEN ChargesOn(u) \cup {id} ELSE ChargesOn(u)
  BY <1>4 DEF ChargesOn
<1>6. IsFiniteSet(ChargesOn(u))
  <2>1. ChargesOn(u) \subseteq {b \in ActionId : Charged(b)}
    BY DEF ChargesOn
  <2> QED
    BY <2>1, FS_Subset DEF IInv, Basics, Attempts
<1> QED
  BY <1>1, <1>5, <1>6 DEF ChargesOn

(* Each scope of the chain still has its charges within its limits. *)
LEMMA ReservesScope ==
    ASSUME IInv, NEW now \in Time, NEW a \in Action, NEW evidence \in Evidence,
           NEW s \in ScopeId, NEW id \in ActionId, NEW q, Reserves(a, evidence, now, s, id, q),
           NEW u \in ScopeId, Issued(u)
    PROVE  ValidScope(u)' /\ ValidCharges(u)'
<1>0. Basics' /\ Grown
  BY ReservesBasics
<1>1. /\ ValidScope(u) /\ ValidCharges(u) /\ scopes[u].grant \in Grant
      /\ IsFiniteSet(scopes[u].charged_resources) /\ scopes[u].charged_attempts \in Nat
  BY ScopeRowFacts DEF IInv, ValidEvidence, Basics, Grants
<1>2. /\ scopes'[u].grant = scopes[u].grant
      /\ scopes[u].grant.max_charged_attempts \in Nat /\ scopes[u].grant.max_distinct_resources \in Nat
  BY <1>1, ReservesFacts, GrantFacts
<1>3. /\ IsFiniteSet(ChargesOn(u)) /\ id \notin ChargesOn(u)
      /\ \A b \in ChargesOn(u) : actions'[b].action = actions[b].action
  BY ReservesCharges
<1>4. CASE u \in Chain(s)
  <2>1. /\ scopes'[u].charged_attempts = scopes[u].charged_attempts + 1
        /\ scopes'[u].charged_resources = scopes[u].charged_resources \cup {a.resource}
        /\ actions'[id].action = a
    BY <1>4, ReservesFacts
  <2>2. ChargesOn(u)' = ChargesOn(u) \cup {id}
    BY <1>4, ReservesCharges
  <2>3. BudgetLeft(u, a.resource)
    BY <1>4 DEF Reserves
  <2>4. scopes'[u].charged_attempts <= scopes'[u].grant.max_charged_attempts
    BY <1>1, <1>2, <2>1, <2>3 DEF BudgetLeft
  <2>5. Cardinality(scopes'[u].charged_resources) <= scopes'[u].grant.max_distinct_resources
    <3>1. Cardinality(scopes[u].charged_resources) <= scopes[u].grant.max_distinct_resources
          /\ Cardinality(scopes[u].charged_resources) \in Nat
      BY <1>1, FS_CardinalityType DEF ValidScope
    <3>2. Cardinality(scopes[u].charged_resources \cup {a.resource}) =
             IF a.resource \in scopes[u].charged_resources THEN Cardinality(scopes[u].charged_resources)
             ELSE Cardinality(scopes[u].charged_resources) + 1
      BY <1>1, FS_AddElement
    <3> QED
      BY <1>2, <2>1, <2>3, <3>1, <3>2 DEF BudgetLeft
  <2>6. ValidScope(u)'
    BY <1>0, <2>4, <2>5, ScopeStays DEF IInv
  <2>7. Cardinality(ChargesOn(u)') = scopes'[u].charged_attempts
    <3>1. Cardinality(ChargesOn(u) \cup {id}) = Cardinality(ChargesOn(u)) + 1
      BY <1>3, FS_AddElement
    <3>2. scopes[u].charged_attempts = Cardinality(ChargesOn(u))
      BY <1>1 DEF ValidCharges
    <3> QED
      BY <2>1, <2>2, <3>1, <3>2
  <2>8. scopes'[u].charged_resources = {actions'[b].action.resource : b \in ChargesOn(u)'}
    <3>1. scopes[u].charged_resources = {actions[b].action.resource : b \in ChargesOn(u)}
      BY <1>1 DEF ValidCharges
    <3>2. {actions'[b].action.resource : b \in ChargesOn(u) \cup {id}} =
             {actions[b].action.resource : b \in ChargesOn(u)} \cup {a.resource}
      BY <1>3, <2>1
    <3> QED
      BY <2>1, <2>2, <3>1, <3>2
  <2> QED
    BY <2>6, <2>7, <2>8 DEF ValidCharges
<1>5. CASE u \notin Chain(s)
  <2>1. scopes'[u] = scopes[u] /\ ChargesOn(u)' = ChargesOn(u)
    BY <1>5, ReservesFacts, ReservesCharges
  <2>2. ValidScope(u)'
    BY <1>0, <1>1, <2>1, ScopeStays DEF IInv, ValidScope
  <2>3. {actions'[b].action.resource : b \in ChargesOn(u)'} = {actions[b].action.resource : b \in ChargesOn(u)}
    BY <1>3, <2>1
  <2>4. ValidCharges(u)'
    BY <1>1, <2>1, <2>3 DEF ValidCharges
  <2> QED
    BY <2>2, <2>4
<1> QED
  BY <1>4, <1>5

(* That is what a reservation does. *)
LEMMA ReserveForm ==
    ASSUME NEW now \in Time, NEW a \in Action, NEW evidence \in Evidence, Reserve(a, evidence, now)
    PROVE  \E s \in ScopeId, id \in ActionId : \E q : Reserves(a, evidence, now, s, id, q)
<1>1. a.scope_id \in ScopeId /\ a.action_id \in ActionId
  BY ActionAssumption DEF ActionId
<1>2. PICK q : q = [NoAction EXCEPT !.action = a, !.evidence = evidence,
                                   !.state = "Reserved", !.reserved_at = now]
  OBVIOUS
<1>3. Reserves(a, evidence, now, a.scope_id, a.action_id, q)
  BY <1>2 DEF Reserve, Reserves, FreshRequest
<1> QED
  BY <1>1, <1>3

(* The new row and its event, and so the whole evidence. *)
LEMMA ReserveStep ==
    ASSUME IInv, NEW now \in Time, NEW a \in Action, NEW evidence \in Evidence,
           Reserve(a, evidence, now)
    PROVE  IInv' /\ Grown
<1>p. PICK s \in ScopeId, id \in ActionId : \E q : Reserves(a, evidence, now, s, id, q)
  BY ReserveForm
<1>0. PICK q : Reserves(a, evidence, now, s, id, q)
  BY <1>p
<1>1. Basics' /\ Grown
  BY <1>0, ReservesBasics
<1>2. /\ q.action = a /\ q.evidence = evidence /\ q.state = "Reserved"
      /\ q.reserved_at = now /\ q.dispatch_claimed_at = None /\ q.finished_at = None
      /\ actions'[id] = q /\ \A b \in ActionId \ {id} : actions'[b] = actions[b]
      /\ \A b \in ActionId : Charged(b)' <=> Charged(b) \/ b = id
      /\ \A u \in ScopeId : /\ scopes'[u].grant = scopes[u].grant
                            /\ scopes'[u].issued_at = scopes[u].issued_at
                            /\ scopes'[u].revoked_at = scopes[u].revoked_at
  BY <1>0, ReservesFacts
<1>3. /\ last_seen' = now /\ last_seen <= now /\ now \in Nat /\ now # None /\ last_seen \in Nat
  BY <1>0, ObserveFacts DEF IInv, Reserves
<1>4. /\ Issued(s) /\ Issued(s)' /\ ScopeOf(id)' = s /\ ActiveChain(s, now)
      /\ Admissible(scopes[s].grant, a, evidence, now) /\ ~Charged(id)
      /\ s = a.scope_id
  BY <1>0, <1>2 DEF Reserves, Issued, ScopeOf
<1>5. Chain(s)' = Chain(s) /\ s \in Chain(s) /\ Chain(s) \subseteq ScopeId
  BY <1>1, <1>4, ChainStays, ChainFacts DEF IInv, Basics, Grown
<1>6. \A u \in ScopeId : Issued(u)' <=> Issued(u)
  BY <1>2 DEF Issued
<1>7. ValidAction(id)'
  <2>1. InForce(s, now)'
    BY <1>1, <1>3, <1>4, ActiveInForce, InForceStays DEF IInv
  <2>2. scopes[s].issued_at <= now
    <3>1. scopes[s].issued_at <= last_seen /\ scopes[s].issued_at \in Int
      BY <1>4, ScopeRowFacts DEF IInv, Basics, ValidEvidence, ValidScope
    <3> QED
      BY <1>3, <3>1
  <2>3. now <= now
    BY <1>3
  <2> QED
    BY <1>2, <1>3, <1>4, <2>1, <2>2, <2>3 DEF ValidAction
<1>8. PICK e : e = Event("AttemptCharged", s, id, now)
  OBVIOUS
<1>9. /\ e \in EventRow /\ e.kind = "AttemptCharged" /\ e.scope_id = s /\ e.action_id = id
      /\ e.observed_at = now /\ e.action_id # NoId /\ Subject(e) = id
  BY <1>8, IdAssumption DEF Event, EventRow, EventKind, OptTime, Subject
<1>10. Log(e) /\ HistoryStays /\ Told(id, "AttemptCharged") /\ Len(events') = Len(events) + 1
  <2>1. Log(e)
    BY <1>0, <1>8 DEF Reserves
  <2> QED
    BY <1>9, <2>1, LogFacts DEF IInv, Basics
<1>11. PICK n \in Nat : n = Len(events) + 1
  BY EventType DEF IInv, Basics
<1>12. ValidEvent(n)'
  <2>1. ~Seen(Len(events), id, "AttemptCharged")
    BY <1>4, LogTrue DEF IInv
  <2>2. Seen(Len(events), s, "ScopeIssued")
        /\ \A p \in Chain(s)' : Seen(Len(events), p, "ScopeIssued") /\ ~Seen(Len(events), p, "ScopeRevoked")
    BY <1>4, <1>5, ChainLogged, ActiveInForce DEF IInv
  <2>3. ActionEvent(e)'
    BY <1>2, <1>4, <1>9 DEF ActionEvent
  <2>5. /\ e.observed_at = last_seen' /\ Issued(e.scope_id)'
        /\ ~Seen(Len(events), Subject(e), e.kind)
        /\ Seen(Len(events), e.scope_id, "ScopeIssued")
        /\ \A p \in Chain(e.scope_id)' : Seen(Len(events), p, "ScopeIssued") /\ ~Seen(Len(events), p, "ScopeRevoked")
        /\ e.action_id # NoId /\ ActionEvent(e)' /\ e.kind = "AttemptCharged"
    BY <1>3, <1>4, <1>9, <2>1, <2>2, <2>3
  <2> QED
    BY <1>1, <1>9, <1>10, <1>11, <2>5, NewEvent DEF IInv
<1>13. EventsComplete'
  <2>2. \A u \in ScopeId : Issued(u)' =>
           /\ Issued(u) \/ Told(u, "ScopeIssued")
           /\ scopes'[u].revoked_at # None =>
                 (Issued(u) /\ scopes[u].revoked_at # None) \/ Told(u, "ScopeRevoked")
    BY <1>2, <1>6
  <2>3. ASSUME NEW b \in ActionId, Charged(b)'
        PROVE  /\ Charged(b) \/ Told(b, "AttemptCharged")
               /\ actions'[b].dispatch_claimed_at # None =>
                    (Charged(b) /\ actions[b].dispatch_claimed_at # None) \/ Told(b, "DispatchClaimed")
               /\ actions'[b].finished_at # None =>
                    (Charged(b) /\ actions[b].finished_at # None) \/ Told(b, "AttemptFinished")
               /\ actions'[b].state = "Unknown" /\ actions'[b].finished_at = None =>
                    \/ Charged(b) /\ actions[b].state = "Unknown" /\ actions[b].finished_at = None
                    \/ Told(b, "Interrupted")
    <3>1. CASE b = id
      BY <1>2, <1>10, <3>1
    <3>2. CASE b # id
      BY <1>2, <2>3, <3>2
    <3> QED
      BY <3>1, <3>2
  <2> QED
    BY <1>1, <1>10, <2>2, <2>3, CompleteGrows DEF IInv
<1>14. ASSUME NEW i \in DOMAIN events'
       PROVE  ValidEvent(i)'
  <2>1. Len(events) \in Nat /\ DOMAIN events' = 1 .. Len(events')
    BY <1>1, EventType DEF IInv, Basics, Shapes
  <2>2. i \in 1 .. Len(events) \/ i = n
    BY <1>10, <1>11, <2>1
  <2> QED
    BY <1>1, <1>12, <2>2, EventStays DEF IInv
<1>15. ASSUME NEW b \in ActionId, Charged(b)'
       PROVE  ValidAction(b)'
  BY <1>1, <1>2, <1>7, <1>15, ActionStays DEF IInv
<1>16. ASSUME NEW b \in ActionId, NEW c \in ActionId, Charged(b)', Charged(c)',
              ScopeOf(b)' = ScopeOf(c)',
              actions'[b].action.request_id = actions'[c].action.request_id
       PROVE  b = c
  <2>1. ASSUME NEW d \in ActionId, Charged(d)
        PROVE  ~(actions[d].action.scope_id = s /\ actions[d].action.request_id = a.request_id)
    BY <1>0, <1>4, <2>1 DEF Reserves, FreshRequest, ScopeOf
  <2>2. CASE b # id /\ c # id
    BY <1>2, <1>16, <2>2 DEF IInv, ValidEvidence, ScopeOf
  <2>3. CASE b = id /\ c # id
    BY <1>2, <1>4, <1>16, <2>1, <2>3 DEF ScopeOf
  <2>4. CASE b # id /\ c = id
    BY <1>2, <1>4, <1>16, <2>1, <2>4 DEF ScopeOf
  <2> QED
    BY <2>2, <2>3, <2>4
<1>17. ASSUME NEW u \in ScopeId, Issued(u)'
       PROVE  ValidScope(u)' /\ ValidCharges(u)'
  BY <1>0, <1>6, <1>17, ReservesScope
<1>18. ValidEvidence'
  BY <1>13, <1>14, <1>15, <1>16, <1>17 DEF ValidEvidence
<1> QED
  BY <1>1, <1>18 DEF IInv

-----------------------------------------------------------------------------
(* Opening the ledger again. *)

(* What was logged is told in every longer history. *)
LEMMA SeenLater ==
    ASSUME Shapes, HistoryStays, NEW id, NEW kind, Seen(Len(events), id, kind),
           NEW n \in Nat, Len(events) <= n
    PROVE  Seen(n, id, kind)'
<1>1. PICK k \in 1 .. Len(events) : Subject(events[k]) = id /\ events[k].kind = kind
  BY DEF Seen
<1>2. k \in 1 .. n /\ events'[k] = events[k]
  BY EventType DEF HistoryStays
<1> QED
  BY <1>1, <1>2 DEF Seen, Subject

(* Distinct ids in ascending order, as many as there are, are all of them. *)
LEMMA AscendingAll ==
    ASSUME NEW T, IsFiniteSet(T), T \subseteq Int, NEW ids \in [1 .. Cardinality(T) -> T], Ascending(ids)
    PROVE  /\ \A i, j \in 1 .. Cardinality(T) : i # j => ids[i] # ids[j]
           /\ \A a \in T : \E i \in 1 .. Cardinality(T) : ids[i] = a
<1> DEFINE N == Cardinality(T)
<1>1. N \in Nat
  BY FS_CardinalityType
<1>2. ASSUME NEW i \in 1 .. N, NEW j \in 1 .. N, i # j
      PROVE  ids[i] # ids[j]
  <2>1. i < j \/ j < i
    BY <1>1, <1>2
  <2>2. ids[i] < ids[j] \/ ids[j] < ids[i]
    BY <2>1 DEF Ascending
  <2>3. ids[i] \in Int /\ ids[j] \in Int
    OBVIOUS
  <2> QED
    BY <2>2, <2>3
<1>3. ids \in Injection(1 .. N, T)
  BY <1>2 DEF Injection, IsInjective
<1>4. Cardinality(1 .. N) = N
  BY <1>1, FS_Interval
<1>5. ids \in Surjection(1 .. N, T)
  BY <1>3, <1>4, FS_Injection
<1> QED
  BY <1>2, <1>5 DEF Surjection

(* What opening writes: the attempts that were cut short. *)
Recovers(cut, ids) ==
    /\ cut = {a \in ActionId : actions[a].state \in Pending}
    /\ ids \in [1 .. Cardinality(cut) -> cut] /\ Ascending(ids)
    /\ actions' = [a \in ActionId |-> IF a \in cut THEN [actions[a] EXCEPT !.state = "Unknown"]
                                      ELSE actions[a]]
    /\ events' = events \o [i \in 1 .. Cardinality(cut) |->
                                Event("Interrupted", ScopeOf(ids[i]), ids[i], None)]
    /\ UNCHANGED <<scopes, last_seen, observed, corrupt>> /\ open' = TRUE

(* The attempts it rewrites, each once, and what it leaves alone.           *)
LEMMA RecoversFacts ==
    ASSUME IInv, NEW cut, NEW ids, Recovers(cut, ids)
    PROVE  /\ \A a \in cut : /\ a \in ActionId /\ actions[a].state \in Pending
                             /\ actions'[a] = [actions[a] EXCEPT !.state = "Unknown"]
                             /\ actions'[a] \in ActionRow /\ actions'[a].state = "Unknown"
                             /\ actions'[a].action = actions[a].action
                             /\ actions'[a].evidence = actions[a].evidence
                             /\ actions'[a].reserved_at = actions[a].reserved_at
                             /\ actions'[a].dispatch_claimed_at = actions[a].dispatch_claimed_at
                             /\ actions'[a].finished_at = actions[a].finished_at
           /\ \A a \in ActionId \ cut : actions'[a] = actions[a] /\ actions[a].state \notin Pending
           /\ actions' \in [ActionId -> ActionRow]
           /\ \A a \in ActionId : Charged(a)' <=> Charged(a)
           /\ IsFiniteSet(cut) /\ Cardinality(cut) \in Nat /\ cut \subseteq ActionId
           /\ \A i, j \in 1 .. Cardinality(cut) : i # j => ids[i] # ids[j]
           /\ \A a \in cut : \E i \in 1 .. Cardinality(cut) : ids[i] = a
<1>0. actions \in [ActionId -> ActionRow]
  BY DEF IInv, Basics, Shapes
<1>1. ASSUME NEW a \in cut
      PROVE  /\ a \in ActionId /\ actions[a].state \in Pending
             /\ actions'[a] = [actions[a] EXCEPT !.state = "Unknown"]
             /\ actions'[a] \in ActionRow /\ actions'[a].state = "Unknown"
             /\ actions'[a].action = actions[a].action
             /\ actions'[a].evidence = actions[a].evidence
             /\ actions'[a].reserved_at = actions[a].reserved_at
             /\ actions'[a].dispatch_claimed_at = actions[a].dispatch_claimed_at
             /\ actions'[a].finished_at = actions[a].finished_at
  <2>1. /\ a \in ActionId /\ actions[a].state \in Pending /\ actions[a] \in ActionRow
        /\ actions'[a] = [actions[a] EXCEPT !.state = "Unknown"]
    BY <1>0, <1>1 DEF Recovers
  <2> QED
    BY <2>1 DEF ActionRow, Settled
<1>2. \A a \in ActionId \ cut : actions'[a] = actions[a] /\ actions[a].state \notin Pending
  BY DEF Recovers
<1>3. actions' \in [ActionId -> ActionRow]
  <2>1. \A a \in ActionId : actions'[a] \in ActionRow
    BY <1>0, <1>1, <1>2
  <2>2. actions' = [a \in ActionId |-> actions'[a]]
    BY DEF Recovers
  <2> QED
    BY <2>1, <2>2
<1>4. \A a \in ActionId : Charged(a)' <=> Charged(a)
  <2>1. \A a \in cut : Charged(a) /\ Charged(a)'
    BY <1>1, PendingFacts DEF Charged
  <2> QED
    BY <1>2, <2>1 DEF Charged
<1>5. IsFiniteSet(cut) /\ Cardinality(cut) \in Nat /\ cut \subseteq ActionId
  <2>1. cut \subseteq {a \in ActionId : Charged(a)}
    BY <1>1, PendingFacts
  <2> QED
    BY <2>1, FS_Subset, FS_CardinalityType DEF IInv, Basics, Attempts
<1>6. /\ \A i, j \in 1 .. Cardinality(cut) : i # j => ids[i] # ids[j]
      /\ \A a \in cut : \E i \in 1 .. Cardinality(cut) : ids[i] = a
  <2>1. cut \subseteq Int
    BY <1>5, IdAssumption
  <2>2. ids \in [1 .. Cardinality(cut) -> cut] /\ Ascending(ids)
    BY DEF Recovers
  <2> QED
    BY <1>5, <2>1, <2>2, AscendingAll
<1> QED
  BY <1>1, <1>2, <1>3, <1>4, <1>5, <1>6

(* The events it appends. *)
LEMMA RecoversEvents ==
    ASSUME IInv, NEW cut, NEW ids, Recovers(cut, ids)
    PROVE  /\ events' \in Seq(EventRow) /\ Len(events') = Len(events) + Cardinality(cut) /\ HistoryStays
           /\ \A i \in 1 .. Cardinality(cut) :
                 events'[Len(events) + i] = Event("Interrupted", ScopeOf(ids[i]), ids[i], None)
<1> DEFINE N == Cardinality(cut)
           tail == [i \in 1 .. N |-> Event("Interrupted", ScopeOf(ids[i]), ids[i], None)]
<1>1. N \in Nat
  BY RecoversFacts
<1>2. ASSUME NEW i \in 1 .. N
      PROVE  Event("Interrupted", ScopeOf(ids[i]), ids[i], None) \in EventRow
  <2>1. ids[i] \in cut
    BY <1>2 DEF Recovers
  <2>2. ids[i] \in ActionId /\ ScopeOf(ids[i]) \in ScopeId
    <3>1. PICK a : a = ids[i]
      OBVIOUS
    <3>2. a \in ActionId /\ actions[a].state \in Pending
      BY <2>1, <3>1, RecoversFacts
    <3> QED
      BY <3>1, <3>2, PendingFacts
  <2> QED
    BY <2>2 DEF Event, EventRow, EventKind, OptTime
<1>3. tail \in Seq(EventRow) /\ Len(tail) = N
  BY <1>1, <1>2
<1>4. events \in Seq(EventRow) /\ Len(events) \in Nat
  BY EventType DEF IInv, Basics, Shapes
<1>5. events' = events \o tail
  BY DEF Recovers
<1>6. \A i \in 1 .. N : tail[i] = Event("Interrupted", ScopeOf(ids[i]), ids[i], None)
  OBVIOUS
<1> HIDE DEF tail
<1>7. /\ events' \in Seq(EventRow) /\ Len(events') = Len(events) + N
      /\ \A i \in 1 .. Len(events) + N : events'[i] = IF i <= Len(events) THEN events[i] ELSE tail[i - Len(events)]
  BY <1>3, <1>4, <1>5, ConcatProperties
<1>8. HistoryStays
  BY <1>1, <1>4, <1>7 DEF HistoryStays
<1>9. ASSUME NEW i \in 1 .. N
      PROVE  events'[Len(events) + i] = tail[i]
  <2>1. /\ Len(events) + i \in 1 .. Len(events) + N /\ ~(Len(events) + i <= Len(events))
        /\ (Len(events) + i) - Len(events) = i
    BY <1>1, <1>4
  <2> QED
    BY <1>7, <2>1
<1> QED
  BY <1>6, <1>7, <1>8, <1>9

(* It keeps the shapes, the grants and the attempts.                        *)
LEMMA RecoversBasics ==
    ASSUME IInv, NEW cut, NEW ids, Recovers(cut, ids)
    PROVE  Basics' /\ Grown
<1>1. Shapes'
  <2>1. actions' \in [ActionId -> ActionRow] /\ events' \in Seq(EventRow)
    BY RecoversFacts, RecoversEvents
  <2>2. UNCHANGED <<scopes, last_seen, observed, corrupt>> /\ open' = TRUE
    BY DEF Recovers
  <2> QED
    BY <2>1, <2>2 DEF IInv, Basics, Shapes
<1>2. Grants'
  BY DEF IInv, Basics, Grants, Issued, Parent, Recovers
<1>3. Attempts'
  <2>1. {b \in ActionId : Charged(b)'} = {b \in ActionId : Charged(b)}
    BY RecoversFacts
  <2>2. IsFiniteSet({b \in ActionId : Charged(b)}')
    BY <2>1 DEF IInv, Basics, Attempts
  <2>3. ASSUME NEW b \in ActionId, Charged(b)'
        PROVE  actions'[b].action \in Action /\ actions'[b].action.action_id = b /\ actions'[b].evidence \in Evidence
    <3>1. /\ actions'[b].action = actions[b].action /\ actions'[b].evidence = actions[b].evidence
          /\ Charged(b)
      BY <2>3, RecoversFacts
    <3> QED
      BY <3>1 DEF IInv, Basics, Attempts
  <2> QED
    BY <2>2, <2>3 DEF Attempts
<1>4. ActionsStay
  <2>1. ASSUME NEW b \in cut
        PROVE  /\ actions'[b].state # "Absent" /\ actions'[b].action = actions[b].action
               /\ actions'[b].evidence = actions[b].evidence
               /\ actions'[b].reserved_at = actions[b].reserved_at
               /\ actions'[b].dispatch_claimed_at = actions[b].dispatch_claimed_at
               /\ actions[b].state \notin Settled
    BY <2>1, RecoversFacts, PendingFacts
  <2>2. ASSUME NEW b \in ActionId \ cut, Charged(b)
        PROVE  actions'[b] = actions[b] /\ actions'[b].state # "Absent"
    BY <2>2, RecoversFacts DEF Charged
  <2> QED
    BY <2>1, <2>2 DEF ActionsStay
<1>5. GrantsStay /\ RevocationsStay /\ last_seen <= last_seen'
  <2>1. last_seen \in Nat /\ last_seen' = last_seen
    BY TimeFacts DEF IInv, Basics, Shapes, Recovers
  <2> QED
    BY <2>1 DEF GrantsStay, RevocationsStay, Recovers
<1> QED
  BY <1>1, <1>2, <1>3, <1>4, <1>5, RecoversEvents DEF IInv, Basics, Grown, Recovers

(* Each of them is valid: it is told of an attempt whose outcome the ledger *)
(* does not know, and of it only once.                                      *)
LEMMA InterruptedEvent ==
    ASSUME IInv, NEW cut, NEW ids, Recovers(cut, ids), NEW i \in 1 .. Cardinality(cut),
           NEW n \in Nat, n = Len(events) + i
    PROVE  ValidEvent(n)'
<1>0. /\ Len(events) \in Nat /\ Cardinality(cut) \in Nat /\ Basics' /\ Grown /\ HistoryStays /\ Shapes
  BY EventType, RecoversFacts, RecoversBasics, RecoversEvents DEF IInv, Basics
<1>1. PICK a \in ActionId : a = ids[i] /\ a \in cut
  BY RecoversFacts DEF Recovers
<1>2. /\ actions[a].state \in Pending /\ actions'[a].state = "Unknown"
      /\ actions'[a].action = actions[a].action
      /\ actions'[a].dispatch_claimed_at = actions[a].dispatch_claimed_at
      /\ actions'[a].finished_at = actions[a].finished_at
  <2>1. \A b \in cut : /\ b \in ActionId /\ actions[b].state \in Pending
                       /\ actions'[b] = [actions[b] EXCEPT !.state = "Unknown"]
                       /\ actions'[b] \in ActionRow /\ actions'[b].state = "Unknown"
                       /\ actions'[b].action = actions[b].action
                       /\ actions'[b].evidence = actions[b].evidence
                       /\ actions'[b].reserved_at = actions[b].reserved_at
                       /\ actions'[b].dispatch_claimed_at = actions[b].dispatch_claimed_at
                       /\ actions'[b].finished_at = actions[b].finished_at
    BY RecoversFacts
  <2> QED
    BY <1>1, <2>1
<1>3. /\ Charged(a) /\ actions[a].finished_at = None /\ ScopeOf(a) \in ScopeId /\ Issued(ScopeOf(a))
  BY <1>2, PendingFacts
<1>4. PICK s \in ScopeId : s = ScopeOf(a) /\ s = ScopeOf(a)' /\ Issued(s)
  BY <1>2, <1>3 DEF ScopeOf
<1>5. PICK e : e = Event("Interrupted", s, a, None)
  OBVIOUS
<1>6. /\ e.kind = "Interrupted" /\ e.scope_id = s /\ e.action_id = a /\ e.observed_at = None
      /\ e.action_id # NoId /\ Subject(e) = a
  BY <1>5, IdAssumption DEF Event, Subject
<1>7. events'[n] = e
  BY <1>1, <1>4, <1>5, RecoversEvents
<1>8. Issued(s)' /\ Charged(a)'
  BY <1>3, <1>4, RecoversFacts DEF Recovers, Issued
<1>9. ~Seen(n - 1, a, "Interrupted")'
  <2>1. ASSUME NEW k \in 1 .. n - 1, Subject(events'[k]) = a, events'[k].kind = "Interrupted"
        PROVE  FALSE
    <3>1. CASE k <= Len(events)
      <4>1. k \in 1 .. Len(events) /\ events'[k] = events[k]
        BY <1>0, <3>1 DEF HistoryStays
      <4>2. Seen(Len(events), a, "Interrupted")
        BY <2>1, <4>1 DEF Seen
      <4>3. actions[a].state = "Unknown"
        BY <4>2, LogTrue DEF IInv
      <4> QED
        BY <1>2, <4>3 DEF Pending
    <3>2. CASE k > Len(events)
      <4>1. PICK j \in 1 .. Cardinality(cut) : k = Len(events) + j /\ j # i
        <5>1. k - Len(events) \in 1 .. Cardinality(cut) /\ k - Len(events) # i
              /\ k = Len(events) + (k - Len(events))
          BY <1>0, <3>2
        <5> QED
          BY <5>1
      <4>2. events'[k] = Event("Interrupted", ScopeOf(ids[j]), ids[j], None)
        BY <4>1, RecoversEvents
      <4>3. ids[j] \in ActionId /\ ids[j] # ids[i]
        <5>1. ids[j] \in cut
          BY DEF Recovers
        <5>2. cut \subseteq ActionId
          BY RecoversFacts
        <5>3. ids[j] # ids[i]
          BY <4>1, RecoversFacts
        <5> QED
          BY <5>1, <5>2, <5>3
      <4>4. Subject(events'[k]) = ids[j]
        BY <4>2, <4>3, IdAssumption DEF Subject, Event
      <4> QED
        BY <1>1, <2>1, <4>3, <4>4
    <3> QED
      BY <1>0, <3>1, <3>2
  <2> QED
    BY <2>1 DEF Seen, Subject
<1>10. ASSUME NEW id, NEW kind, Seen(Len(events), id, kind)
       PROVE  Seen(n, id, kind)'
  <2>1. Len(events) <= n
    BY <1>0
  <2> QED
    BY <1>0, <1>10, <2>1, SeenLater
<1>11. /\ Seen(n, s, "ScopeIssued")' /\ Seen(n, a, "AttemptCharged")'
       /\ actions'[a].dispatch_claimed_at # None => Seen(n, a, "DispatchClaimed")'
  BY <1>2, <1>3, <1>4, <1>10 DEF IInv, ValidEvidence, EventsComplete
<1>12. ActionEvent(e)'
  BY <1>2, <1>3, <1>4, <1>6, <1>8 DEF ActionEvent
<1> QED
  BY <1>6, <1>7, <1>8, <1>9, <1>11, <1>12 DEF ValidEvent

(* Opening validates, and recovers what the stop cut short.                 *)
LEMMA OpenStep ==
    ASSUME IInv, Open
    PROVE  IInv' /\ Grown
<1>0. PICK cut, ids : Recovers(cut, ids)
  BY DEF Open, IInv, Recovers
<1>1. Basics' /\ Grown
  BY <1>0, RecoversBasics
<1>2. ASSUME NEW a \in cut
      PROVE  ValidAction(a)'
  <2>1. /\ a \in ActionId /\ actions[a].state \in Pending /\ actions'[a].state = "Unknown"
        /\ actions'[a].action = actions[a].action /\ actions'[a].evidence = actions[a].evidence
        /\ actions'[a].reserved_at = actions[a].reserved_at
        /\ actions'[a].dispatch_claimed_at = actions[a].dispatch_claimed_at
        /\ actions'[a].finished_at = actions[a].finished_at
    BY <1>0, <1>2, RecoversFacts
  <2>2. ValidAction(a) /\ actions[a].finished_at = None /\ ScopeOf(a) \in ScopeId /\ Issued(ScopeOf(a))
    BY <2>1, PendingFacts
  <2>3. PICK s \in ScopeId : s = ScopeOf(a) /\ s = ScopeOf(a)' /\ Issued(s) /\ Issued(s)'
    BY <1>0, <2>1, <2>2 DEF ScopeOf, Issued, Recovers
  <2>4. scopes' = scopes /\ last_seen' = last_seen /\ last_seen \in Nat
    BY <1>0, TimeFacts DEF Recovers, IInv, Basics, Shapes
  <2>5. PICK r : r = actions[a]
    OBVIOUS
  <2>6. r.reserved_at \in Int /\ r.dispatch_claimed_at \in Int
    BY <2>1, <2>5, ActionRowFacts DEF IInv, Basics
  <2>7. /\ Admissible(scopes[s].grant, r.action, r.evidence, r.reserved_at)
        /\ InForce(s, r.reserved_at) /\ scopes[s].issued_at <= r.reserved_at
        /\ r.reserved_at <= last_seen
        /\ r.dispatch_claimed_at # None =>
              /\ Admissible(scopes[s].grant, r.action, r.evidence, r.dispatch_claimed_at)
              /\ InForce(s, r.dispatch_claimed_at)
              /\ r.reserved_at <= r.dispatch_claimed_at /\ r.dispatch_claimed_at <= last_seen
    BY <2>2, <2>3, <2>5 DEF ValidAction
  <2>8. InForce(s, r.reserved_at)'
    BY <1>1, <2>3, <2>4, <2>6, <2>7, InForceStays DEF IInv
  <2>9. r.dispatch_claimed_at # None => InForce(s, r.dispatch_claimed_at)'
    BY <1>1, <2>3, <2>4, <2>6, <2>7, InForceStays DEF IInv
  <2> QED
    BY <2>1, <2>2, <2>3, <2>4, <2>5, <2>7, <2>8, <2>9 DEF ValidAction
<1>3. \A n \in Len(events) + 1 .. Len(events') : ValidEvent(n)'
  <2>1. ASSUME NEW n \in Len(events) + 1 .. Len(events')
        PROVE  ValidEvent(n)'
    <3>1. Len(events) \in Nat /\ Cardinality(cut) \in Nat /\ Len(events') = Len(events) + Cardinality(cut)
      BY <1>0, EventType, RecoversFacts, RecoversEvents DEF IInv, Basics
    <3>2. n \in Nat /\ n - Len(events) \in 1 .. Cardinality(cut) /\ n = Len(events) + (n - Len(events))
      BY <2>1, <3>1
    <3>3. PICK i \in 1 .. Cardinality(cut) : n = Len(events) + i
      BY <3>2
    <3> QED
      BY <1>0, <3>2, <3>3, InterruptedEvent
  <2> QED
    BY <2>1
<1>4. ASSUME NEW a \in cut
      PROVE  Told(a, "Interrupted")
  <2>1. PICK i \in 1 .. Cardinality(cut) : ids[i] = a
    BY <1>0, <1>4, RecoversFacts
  <2>2. events'[Len(events) + i] = Event("Interrupted", ScopeOf(a), a, None) /\ a \in ActionId
    BY <1>0, <1>4, <2>1, RecoversFacts, RecoversEvents
  <2>3. Len(events) + i \in Len(events) + 1 .. Len(events')
    <3>1. Len(events) \in Nat /\ Cardinality(cut) \in Nat /\ Len(events') = Len(events) + Cardinality(cut)
      BY <1>0, EventType, RecoversFacts, RecoversEvents DEF IInv, Basics
    <3> QED
      BY <3>1
  <2>4. /\ Subject(events'[Len(events) + i]) = a /\ events'[Len(events) + i].kind = "Interrupted"
    BY <2>2, IdAssumption DEF Subject, Event
  <2> QED
    BY <2>3, <2>4 DEF Told
<1>5. EventsComplete'
  <2>1. HistoryStays
    BY <1>0, RecoversEvents
  <2>2. \A u \in ScopeId : Issued(u)' =>
           /\ Issued(u) \/ Told(u, "ScopeIssued")
           /\ scopes'[u].revoked_at # None =>
                 (Issued(u) /\ scopes[u].revoked_at # None) \/ Told(u, "ScopeRevoked")
    BY <1>0 DEF Issued, Recovers
  <2>3. ASSUME NEW b \in ActionId, Charged(b)'
        PROVE  /\ Charged(b) \/ Told(b, "AttemptCharged")
               /\ actions'[b].dispatch_claimed_at # None =>
                    (Charged(b) /\ actions[b].dispatch_claimed_at # None) \/ Told(b, "DispatchClaimed")
               /\ actions'[b].finished_at # None =>
                    (Charged(b) /\ actions[b].finished_at # None) \/ Told(b, "AttemptFinished")
               /\ actions'[b].state = "Unknown" /\ actions'[b].finished_at = None =>
                    \/ Charged(b) /\ actions[b].state = "Unknown" /\ actions[b].finished_at = None
                    \/ Told(b, "Interrupted")
    <3>0. Charged(b)
      BY <1>0, <2>3, RecoversFacts
    <3>1. CASE b \in cut
      <4>1. /\ actions'[b].dispatch_claimed_at = actions[b].dispatch_claimed_at
            /\ actions'[b].finished_at = actions[b].finished_at
        BY <1>0, <3>1, RecoversFacts
      <4> QED
        BY <1>4, <3>0, <3>1, <4>1
    <3>2. CASE b \notin cut
      <4>1. actions'[b] = actions[b]
        BY <1>0, <3>2, RecoversFacts
      <4> QED
        BY <3>0, <4>1
    <3> QED
      BY <3>1, <3>2
  <2> QED
    BY <1>1, <2>1, <2>2, <2>3, CompleteGrows DEF IInv
<1>6. ValidEvidence'
  <2>1. \A a \in ActionId : /\ Charged(a)' => Charged(a)
                            /\ Charged(a) => actions'[a] = actions[a] \/ ValidAction(a)'
    BY <1>0, <1>2, RecoversFacts
  <2>2. scopes' = scopes
    BY <1>0 DEF Recovers
  <2> QED
    BY <1>1, <1>3, <1>5, <2>1, <2>2, KeepEvidence DEF IInv, Issued
<1> QED
  BY <1>1, <1>6 DEF IInv

-----------------------------------------------------------------------------
(* The theorems. *)

(* The empty ledger is valid. *)
LEMMA InitIInv == Init => IInv
<1> SUFFICES ASSUME Init PROVE IInv
  OBVIOUS
<1>1. /\ \A s \in ScopeId : scopes[s] = NoScope /\ ~Issued(s)
      /\ \A a \in ActionId : actions[a] = NoAction /\ ~Charged(a)
      /\ events = <<>> /\ Len(events) = 0
  BY DEF Init, NoScope, NoAction, Issued, Charged
<1>2. Shapes
  <2>1. NoScope \in ScopeRow /\ NoAction \in ActionRow
    BY TimeFacts DEF NoScope, NoAction, ScopeRow, ActionRow
  <2>2. <<>> \in Seq(EventRow)
    BY EmptySeq
  <2> QED
    BY <2>1, <2>2, TimeFacts DEF Init, Shapes
<1>3. Grants /\ Attempts
  <2>1. {a \in ActionId : Charged(a)} = {}
    BY <1>1
  <2> QED
    BY <1>1, <2>1, FS_EmptySet DEF Grants, Attempts
<1>4. ValidEvidence
  <2>1. DOMAIN events = {}
    BY <1>1
  <2> QED
    BY <1>1, <2>1 DEF ValidEvidence, EventsComplete
<1> QED
  BY <1>2, <1>3, <1>4 DEF Init, IInv, Basics

(* Every step keeps the invariant, and the ledger grows. *)
LEMMA NextIInv == IInv /\ [Next]_vars => IInv' /\ Grown
<1> SUFFICES ASSUME IInv, [Next]_vars PROVE IInv' /\ Grown
  OBVIOUS
<1>1. CASE UNCHANGED vars
  <2>1. UNCHANGED <<scopes, actions, events, corrupt, last_seen, observed, open>>
    BY <1>1 DEF vars
  <2>2. last_seen \in Nat /\ last_seen \in Time /\ observed = last_seen /\ open \in BOOLEAN
    BY TimeFacts DEF IInv, Basics, Shapes
  <2>3. last_seen <= last_seen' /\ observed' = last_seen' /\ last_seen' \in Time /\ open' \in BOOLEAN
    BY <2>1, <2>2
  <2> QED
    BY <2>1, <2>3, QuietStep
<1>2. ASSUME NEW now \in Time, Refused(now) PROVE IInv' /\ Grown
  BY <1>2, RefusedStep
<1>3. ASSUME NEW now \in Time, NEW g \in Grant, IssueScope(g, now) PROVE IInv' /\ Grown
  BY <1>3, IssueStep
<1>4. ASSUME NEW now \in Time, NEW a \in Action, NEW evidence \in Evidence, Reserve(a, evidence, now)
      PROVE  IInv' /\ Grown
  BY <1>4, ReserveStep
<1>5. ASSUME NEW now \in Time, NEW a \in ActionId, ClaimDispatch(a, now) PROVE IInv' /\ Grown
  BY <1>5, ClaimStep
<1>6. ASSUME NEW now \in Time, NEW a \in ActionId, NEW outcome \in Settled, Finish(a, outcome, now)
      PROVE  IInv' /\ Grown
  BY <1>6, FinishStep
<1>7. ASSUME NEW now \in Time, NEW s \in ScopeId, Revoke(s, now) PROVE IInv' /\ Grown
  BY <1>7, RevokeStep
<1>8. CASE Close
  BY <1>8, CloseStep
<1>9. CASE Open
  BY <1>9, OpenStep
<1> QED
  BY <1>1, <1>2, <1>3, <1>4, <1>5, <1>6, <1>7, <1>8, <1>9 DEF Next

(* The invariant of the ledger. *)
LEMMA LedgerInvariant == Spec => []IInv
<1>1. IInv /\ [Next]_vars => IInv'
  BY NextIInv
<1> QED
  BY <1>1, InitIInv, PTL DEF Spec

(* The tables of the ledger keep their shapes, and last_seen is always a    *)
(* time some call has shown (scope_store.rs, mutate).                       *)
THEOREM TypeCorrect == Spec => []TypeOK
<1>1. IInv => TypeOK
  BY ShapesType DEF IInv, Basics
<1> QED
  BY <1>1, LedgerInvariant, PTL

(* Whatever was issued, charged, claimed, finished, revoked, refused or     *)
(* interrupted, the ledger passes the evidence validator, so it can always  *)
(* be opened and exported again (verify_all, ScopeEvidence::validate).      *)
THEOREM EvidenceAlwaysValid == Spec => []EvidenceValid
<1>1. IInv => EvidenceValid
  BY DEF IInv, Basics, EvidenceValid
<1> QED
  BY <1>1, LedgerInvariant, PTL

(* The attempts charged anywhere below a grant, and the resources they      *)
(* touch, stay within its limits, counted from the attempts (reserve).      *)
THEOREM BudgetsBind == Spec => []TreeBudget
<1>1. IInv => TreeBudget
  <2> SUFFICES ASSUME IInv, NEW s \in ScopeId, Issued(s)
               PROVE  /\ Cardinality(ChargesOn(s)) <= scopes[s].grant.max_charged_attempts
                      /\ Cardinality({actions[a].action.resource : a \in ChargesOn(s)})
                            <= scopes[s].grant.max_distinct_resources
    BY DEF TreeBudget
  <2>1. ValidScope(s) /\ ValidCharges(s)
    BY DEF IInv, ValidEvidence
  <2>2. /\ scopes[s].charged_attempts <= scopes[s].grant.max_charged_attempts
        /\ Cardinality(scopes[s].charged_resources) <= scopes[s].grant.max_distinct_resources
    BY <2>1 DEF ValidScope
  <2>3. /\ scopes[s].charged_attempts = Cardinality(ChargesOn(s))
        /\ scopes[s].charged_resources = {actions[a].action.resource : a \in ChargesOn(s)}
    BY <2>1 DEF ValidCharges
  <2> QED
    BY <2>2, <2>3
<1> QED
  BY <1>1, LedgerInvariant, PTL

(* A call that lets a step through at a time when the whole chain is in     *)
(* force shows that no scope of it was withdrawn.                           *)
LEMMA NotWithdrawn ==
    ASSUME IInv, NEW s \in ScopeId, Issued(s), NEW now \in Time, Observe(now), ActiveChain(s, now)
    PROVE  ~Withdrawn(s)
<1>1. observed = last_seen /\ last_seen \in Nat /\ now \in Nat /\ last_seen <= now
  BY ObserveFacts DEF IInv, Basics
<1>2. ASSUME NEW p \in Chain(s)
      PROVE  scopes[p].revoked_at = None /\ ~(observed >= scopes[p].grant.expires_at)
  <2>1. scopes[p].revoked_at = None /\ now < scopes[p].grant.expires_at
    BY <1>2 DEF ActiveChain, Within
  <2>2. scopes[p].grant \in Grant
    BY <1>2, ChainFacts DEF IInv, Basics
  <2>3. scopes[p].grant.expires_at \in Nat
    BY <2>2, GrantFacts
  <2> QED
    BY <1>1, <2>1, <2>3
<1> QED
  BY <1>2 DEF Withdrawn

(* Once an ancestor is revoked, or any call has shown the ledger a time at  *)
(* which it has expired, nothing below it is charged, claimed or issued     *)
(* again (reserve, claim_dispatch, issue).                                  *)
THEOREM WithdrawalsFinal == Spec => WithdrawalFinal
<1> DEFINE Charges == \A a \in ActionId :
             actions'[a].state # actions[a].state /\ actions'[a].state \in Pending
             => ~Withdrawn(actions'[a].action.scope_id)
           Issues == \A s \in ScopeId :
             scopes'[s].issued_at # scopes[s].issued_at /\ scopes'[s].grant.parent_id # NoId
             => ~Withdrawn(scopes'[s].grant.parent_id)
<1>1. IInv /\ [Next]_vars => [Charges /\ Issues]_vars
  <2> SUFFICES ASSUME IInv, Next PROVE Charges /\ Issues
    OBVIOUS
  <2>0. scopes \in [ScopeId -> ScopeRow] /\ actions \in [ActionId -> ActionRow]
    BY DEF IInv, Basics, Shapes
  <2>1. ASSUME UNCHANGED <<scopes, actions>> PROVE Charges /\ Issues
    BY <2>1
  <2>2. ASSUME NEW now \in Time, Refused(now) PROVE Charges /\ Issues
    BY <2>1, <2>2 DEF Refused
  <2>3. ASSUME NEW now \in Time, NEW g \in Grant, IssueScope(g, now) PROVE Charges /\ Issues
    <3>1. /\ Observe(now) /\ actions' = actions
          /\ scopes' = [scopes EXCEPT ![g.scope_id] = [NoScope EXCEPT !.grant = g, !.issued_at = now]]
          /\ g.parent_id # NoId => Issued(g.parent_id) /\ ActiveChain(g.parent_id, now)
      BY <2>3 DEF IssueScope
    <3>2. g.scope_id \in ScopeId /\ g.parent_id \in ScopeId \cup {NoId}
      BY GrantFacts
    <3>3. g.parent_id # NoId => ~Withdrawn(g.parent_id)
      BY <3>1, <3>2, NotWithdrawn
    <3>4. /\ scopes'[g.scope_id].grant = g
          /\ \A s \in ScopeId \ {g.scope_id} : scopes'[s] = scopes[s]
      BY <2>0, <3>1, <3>2 DEF NoScope
    <3>5. ASSUME NEW s \in ScopeId, scopes'[s].issued_at # scopes[s].issued_at,
                 scopes'[s].grant.parent_id # NoId
          PROVE  ~Withdrawn(scopes'[s].grant.parent_id)
      <4>1. scopes'[s].grant = g
        BY <3>4, <3>5
      <4> QED
        BY <3>3, <3>5, <4>1
    <3> QED
      BY <3>1, <3>5
  <2>4. ASSUME NEW now \in Time, NEW a \in Action, NEW evidence \in Evidence, Reserve(a, evidence, now)
        PROVE  Charges /\ Issues
    <3>0. PICK s \in ScopeId, id \in ActionId : \E q : Reserves(a, evidence, now, s, id, q)
      BY <2>4, ReserveForm
    <3>1. PICK q : Reserves(a, evidence, now, s, id, q)
      BY <3>0
    <3>2. /\ actions'[id].action = a /\ \A b \in ActionId \ {id} : actions'[b] = actions[b]
          /\ \A u \in ScopeId : scopes'[u].issued_at = scopes[u].issued_at
      BY <3>1, ReservesFacts
    <3>3. ~Withdrawn(s) /\ s = a.scope_id
      BY <3>1, NotWithdrawn DEF Reserves
    <3>4. ASSUME NEW b \in ActionId, actions'[b].state # actions[b].state
          PROVE  ~Withdrawn(actions'[b].action.scope_id)
      <4>1. actions'[b].action.scope_id = s
        BY <3>2, <3>3, <3>4
      <4> QED
        BY <3>3, <4>1
    <3> QED
      BY <3>2, <3>4
  <2>5. ASSUME NEW now \in Time, NEW a \in ActionId, ClaimDispatch(a, now) PROVE Charges /\ Issues
    <3>1. /\ Observe(now) /\ scopes' = scopes /\ actions[a].state \in Pending
          /\ ActiveChain(ScopeOf(a), now)
          /\ actions' = [actions EXCEPT ![a].state = "DispatchClaimed", ![a].dispatch_claimed_at = now]
      BY <2>5 DEF ClaimDispatch, Pending
    <3>2. /\ actions'[a].action = actions[a].action
          /\ \A b \in ActionId \ {a} : actions'[b] = actions[b]
      BY <2>0, <3>1 DEF ActionRow
    <3>3. ~Withdrawn(ScopeOf(a))
      BY <3>1, PendingFacts, NotWithdrawn
    <3>4. ASSUME NEW b \in ActionId, actions'[b].state # actions[b].state
          PROVE  ~Withdrawn(actions'[b].action.scope_id)
      <4>1. actions'[b].action.scope_id = ScopeOf(a)
        BY <3>2, <3>4 DEF ScopeOf
      <4> QED
        BY <3>3, <4>1
    <3> QED
      BY <3>1, <3>4
  <2>6. ASSUME NEW now \in Time, NEW a \in ActionId, NEW outcome \in Settled, Finish(a, outcome, now)
        PROVE  Charges /\ Issues
    <3>1. /\ scopes' = scopes /\ outcome \notin Pending
          /\ actions' = [actions EXCEPT ![a].state = outcome, ![a].finished_at = now]
      BY <2>6 DEF Finish, Settled, Pending
    <3>2. actions'[a].state = outcome /\ \A b \in ActionId \ {a} : actions'[b] = actions[b]
      BY <2>0, <3>1 DEF ActionRow
    <3> QED
      BY <3>1, <3>2
  <2>7. ASSUME NEW now \in Time, NEW s \in ScopeId, Revoke(s, now) PROVE Charges /\ Issues
    <3>1. actions' = actions /\ scopes' = [scopes EXCEPT ![s].revoked_at = now]
      BY <2>7 DEF Revoke
    <3>2. \A u \in ScopeId : scopes'[u].issued_at = scopes[u].issued_at
      BY <2>0, <3>1 DEF ScopeRow
    <3> QED
      BY <3>1, <3>2
  <2>8. CASE Close
    BY <2>1, <2>8 DEF Close
  <2>9. CASE Open
    <3>1. PICK cut, ids : Recovers(cut, ids)
      BY <2>9 DEF Open, IInv, Recovers
    <3>2. /\ \A a \in cut : actions'[a].state = "Unknown"
          /\ \A a \in ActionId \ cut : actions'[a] = actions[a]
          /\ scopes' = scopes
      BY <3>1, RecoversFacts DEF Recovers
    <3> QED
      BY <3>2 DEF Pending
  <2> QED
    BY <2>2, <2>3, <2>4, <2>5, <2>6, <2>7, <2>8, <2>9 DEF Next
<1> QED
  BY <1>1, LedgerInvariant, PTL DEF Spec, WithdrawalFinal

(* The events a step adds carry its time, or none. *)
NewTimes ==
    \A i \in Len(events) + 1 .. Len(events') : events'[i].observed_at \in {None, last_seen'}

(* A call logs at its own time.                                             *)
LEMMA LogTime ==
    ASSUME IInv, NEW now \in Time, NEW e, Observe(now), Log(e), e.observed_at = now
    PROVE  NewTimes
<1>1. last_seen' = now
  BY DEF Observe
<1>2. events \in Seq(EventRow \cup {e}) /\ Len(events) \in Nat
  BY EventType DEF IInv, Basics, Shapes
<1>3. events' = Append(events, e)
  BY DEF Log
<1>4. Len(events') = Len(events) + 1 /\ events'[Len(events) + 1] = e
  BY <1>2, <1>3
<1>5. ASSUME NEW i \in Len(events) + 1 .. Len(events')
      PROVE  i = Len(events) + 1
  BY <1>2, <1>4, <1>5
<1>6. ASSUME NEW i \in Len(events) + 1 .. Len(events')
      PROVE  events'[i].observed_at = last_seen'
  BY <1>1, <1>4, <1>5, <1>6
<1> QED
  BY <1>6 DEF NewTimes

(* A step that logs nothing adds no event.                                  *)
LEMMA QuietTimes ==
    ASSUME IInv, events' = events
    PROVE  NewTimes
<1>1. Len(events) \in Nat
  BY EventType DEF IInv, Basics
<1>2. Len(events') = Len(events)
  OBVIOUS
<1>3. ASSUME NEW i \in Len(events) + 1 .. Len(events') PROVE FALSE
  BY <1>1, <1>2, <1>3
<1> QED
  BY <1>3 DEF NewTimes

(* So it is for every step.                                                 *)
LEMMA NextTimes ==
    ASSUME IInv, Next
    PROVE  NewTimes
<1>0. \A kind, s, id, t : Event(kind, s, id, t).observed_at = t
  BY DEF Event
<1>1. ASSUME NEW now \in Time, Refused(now) PROVE NewTimes
  BY <1>1, QuietTimes DEF Refused
<1>2. ASSUME NEW now \in Time, NEW g \in Grant, IssueScope(g, now) PROVE NewTimes
  BY <1>0, <1>2, LogTime DEF IssueScope
<1>3. ASSUME NEW now \in Time, NEW a \in Action, NEW evidence \in Evidence, Reserve(a, evidence, now)
      PROVE  NewTimes
  <2>1. Observe(now) /\ Log(Event("AttemptCharged", a.scope_id, a.action_id, now))
    BY <1>3 DEF Reserve
  <2> QED
    BY <1>0, <2>1, LogTime
<1>4. ASSUME NEW now \in Time, NEW a \in ActionId, ClaimDispatch(a, now) PROVE NewTimes
  BY <1>0, <1>4, LogTime DEF ClaimDispatch
<1>5. ASSUME NEW now \in Time, NEW a \in ActionId, NEW outcome \in Settled, Finish(a, outcome, now)
      PROVE  NewTimes
  BY <1>0, <1>5, LogTime DEF Finish
<1>6. ASSUME NEW now \in Time, NEW s \in ScopeId, Revoke(s, now) PROVE NewTimes
  BY <1>0, <1>6, LogTime DEF Revoke
<1>7. CASE Close
  BY <1>7, QuietTimes DEF Close
<1>8. CASE Open
  <2>1. PICK cut, ids : Recovers(cut, ids)
    BY <1>8 DEF Open, IInv, Recovers
  <2>2. /\ Len(events') = Len(events) + Cardinality(cut)
        /\ \A i \in 1 .. Cardinality(cut) :
              events'[Len(events) + i] = Event("Interrupted", ScopeOf(ids[i]), ids[i], None)
    BY <2>1, RecoversEvents
  <2>3. Len(events) \in Nat /\ Cardinality(cut) \in Nat
    BY <2>1, EventType, RecoversFacts DEF IInv, Basics
  <2>4. ASSUME NEW i \in Len(events) + 1 .. Len(events')
        PROVE  events'[i].observed_at = None
    <3>1. PICK j \in 1 .. Cardinality(cut) : i = Len(events) + j
      <4>1. i - Len(events) \in 1 .. Cardinality(cut) /\ i = Len(events) + (i - Len(events))
        BY <2>2, <2>3, <2>4
      <4> QED
        BY <4>1
    <3> QED
      BY <1>0, <2>2, <3>1
  <2> QED
    BY <2>4 DEF NewTimes
<1> QED
  BY <1>1, <1>2, <1>3, <1>4, <1>5, <1>6, <1>7, <1>8 DEF Next

(* What one export states, every later export repeats: the check            *)
(* validate_extension makes of two exports holds between the ledgers before *)
(* and after every step.                                                    *)
THEOREM HistoryOnlyExtends == Spec => HistoryExtends
<1> DEFINE Older == [last_seen |-> last_seen, events |-> events,
                     scopes |-> scopes, actions |-> actions]
           Newer == [last_seen |-> last_seen', events |-> events',
                     scopes |-> scopes', actions |-> actions']
<1>1. IInv /\ [Next]_vars => [Extends(Older, Newer)]_vars
  <2> SUFFICES ASSUME IInv, Next PROVE Extends(Older, Newer)
    OBVIOUS
  <2>1. IInv' /\ Grown /\ NewTimes
    BY NextIInv, NextTimes
  <2>2. events \in Seq(EventRow) /\ events' \in Seq(EventRow)
    BY <2>1 DEF IInv, Basics, Shapes
  <2>3. Len(events) \in Nat /\ Len(events') \in Nat
    BY <2>2
  <2>4. Len(events) <= Len(events') /\ \A i \in 1 .. Len(events) : events'[i] = events[i]
    BY <2>1 DEF Grown, HistoryStays
  <2>5. SubSeq(events', 1, Len(events)) = events
    <3>1. PICK e2, n : e2 = events' /\ n = Len(events)
      OBVIOUS
    <3>2. \A i \in 1 .. n : e2[i] \in EventRow
      BY <2>2, <2>4, <3>1, ElementOfSeq
    <3>3. n \in Nat
      BY <2>3, <3>1
    <3>4. /\ SubSeq(e2, 1, n) \in Seq(EventRow)
          /\ Len(SubSeq(e2, 1, n)) = IF 1 <= n THEN n - 1 + 1 ELSE 0
          /\ \A i \in 1 .. n - 1 + 1 : SubSeq(e2, 1, n)[i] = e2[1 + i - 1]
      BY <3>2, <3>3, SubSeqProperties
    <3>5. Len(SubSeq(e2, 1, n)) = n
      BY <3>3, <3>4
    <3>6. ASSUME NEW i \in 1 .. n PROVE SubSeq(e2, 1, n)[i] = events[i]
      <4>1. i \in 1 .. n - 1 + 1 /\ 1 + i - 1 = i
        BY <3>3, <3>6
      <4> QED
        BY <2>4, <3>1, <3>4, <3>6, <4>1
    <3>7. SubSeq(e2, 1, n) = events
      <4>1. PICK t : t = SubSeq(e2, 1, n)
        OBVIOUS
      <4> QED
        BY <2>2, <3>1, <3>4, <3>5, <3>6, <4>1, SeqEqual
    <3> QED
      BY <3>1, <3>7
  <2>6. ASSUME NEW i \in Len(events) + 1 .. Len(events'), events'[i].observed_at # None
        PROVE  last_seen <= events'[i].observed_at
    BY <2>1, <2>6 DEF NewTimes, Grown
  <2>7. \A s \in ScopeId : scopes[s].issued_at # None =>
          /\ scopes'[s].grant = scopes[s].grant
          /\ scopes'[s].issued_at = scopes[s].issued_at
          /\ scopes[s].revoked_at \in {None, scopes'[s].revoked_at}
    BY <2>1 DEF Grown, GrantsStay, RevocationsStay, Issued
  <2>8. \A a \in ActionId : actions[a].state # "Absent" =>
          /\ actions'[a].action = actions[a].action
          /\ actions'[a].evidence = actions[a].evidence
          /\ actions'[a].reserved_at = actions[a].reserved_at
          /\ actions[a].dispatch_claimed_at \in {None, actions'[a].dispatch_claimed_at}
          /\ actions[a].state \in Settled => actions'[a] = actions[a]
    BY <2>1 DEF Grown, ActionsStay, Charged
  <2>9. last_seen <= last_seen'
    BY <2>1 DEF Grown
  <2>10. /\ Older.last_seen = last_seen /\ Older.events = events
         /\ Older.scopes = scopes /\ Older.actions = actions
         /\ Newer.last_seen = last_seen' /\ Newer.events = events'
         /\ Newer.scopes = scopes' /\ Newer.actions = actions'
    OBVIOUS
  <2> HIDE DEF Older, Newer
  <2> QED
    BY <2>4, <2>5, <2>6, <2>7, <2>8, <2>9, <2>10 DEF Extends
<1> QED
  BY <1>1, LedgerInvariant, PTL DEF Spec, HistoryExtends
=============================================================================
