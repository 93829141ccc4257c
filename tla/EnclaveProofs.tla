---------------------------- MODULE EnclaveProofs ----------------------------
(* Theorems about Enclave, for any calls, keys, rules, floors and limits.   *)
EXTENDS Enclave, FiniteSetTheorems, TLAPS

-----------------------------------------------------------------------------
(* Shapes. *)

RuleRecord == [allowed : BOOLEAN, approval : Requirement, ttl : Nat,
               one_time : BOOLEAN, budget : (Nat \ {0}) \cup {None},
               distinct : BOOLEAN]

CallRecord == [pc : {"idle", "queue", "admit", "lookup", "prompt", "witness",
                     "start", "dispatch", "running"},
               control : BOOLEAN, key : Key, rule : RuleRecord, gen : Nat,
               basis : Nat]

LeaseRecord == [id : Nat, at : Nat, ttl : Nat, budget : (Nat \ {0}) \cup {None},
                spent : Nat]

ApprovalRecord == [key : Key, gen : Nat, approver : Approver \cup {Anonymous},
                   budget : (Nat \ {0}) \cup {None}, used : Nat]

Types ==
    /\ policy \in [rule : Rule, gen : Nat]
    /\ leases \in [Key -> LeaseRecord]
    /\ permit \in Call \cup {NoCall}
    /\ waiting \in Seq(Call)
    /\ call \in [Call -> CallRecord]
    /\ authorized \subseteq Sub
    /\ clock \in Nat
    /\ approvals \in Seq(ApprovalRecord)

(* Every rule of the policy has the shape of a decision. *)
LEMMA RuleType == Rule \subseteq RuleRecord
BY RuleAssumption DEF RuleRecord

(* The state of a call before execute has the shape of a call. *)
LEMMA IdleType == Idle \in CallRecord /\ Idle.pc = "idle" /\ Idle.control = FALSE
<1>1. (CHOOSE k \in Key : TRUE) \in Key
  BY KeyAssumption
<1>2. Deny \in RuleRecord
  BY DEF Deny, RuleRecord, Requirement, None
<1> QED
  BY <1>1, <1>2 DEF Idle, CallRecord

(* The absent lease has the shape of a lease and the id of no approval. *)
LEMMA NoLeaseType == NoLease \in LeaseRecord /\ NoLease.id = 0
BY DEF NoLease, LeaseRecord, None

(* The decision for a key is a rule, at least as strict as the floor. *)
LEMMA DecisionType ==
    ASSUME NEW k \in Key, Types
    PROVE  /\ Decision(k) \in RuleRecord
           /\ Decision(k).allowed = policy.rule.allowed
           /\ Decision(k).distinct = policy.rule.distinct
           /\ Decision(k).budget = policy.rule.budget
           /\ Decision(k).one_time = policy.rule.one_time
<1>1. policy.rule \in RuleRecord
  BY RuleType DEF Types
<1>2. Floor[k.op] \in Requirement
  BY FloorAssumption DEF Op
<1>3. Stricter(Floor[k.op], policy.rule.approval) \in Requirement
  BY <1>1, <1>2 DEF Stricter, RuleRecord
<1>4. Decision(k) = [policy.rule EXCEPT !.approval = Stricter(Floor[k.op], policy.rule.approval)]
  BY <1>1 DEF Decision, RuleRecord
<1> QED
  BY <1>1, <1>3, <1>4 DEF RuleRecord

(* A granted lease has the shape of a lease, and its first use counted. *)
LEMMA NewLeaseType ==
    ASSUME NEW rule \in RuleRecord, NEW id \in Nat, clock \in Nat
    PROVE  /\ NewLease(rule, id) \in LeaseRecord
           /\ NewLease(rule, id).id = id
           /\ NewLease(rule, id).spent = 1
           /\ NewLease(rule, id).budget = IF rule.one_time THEN 1 ELSE rule.budget
BY LimitAssumption DEF NewLease, LeaseRecord, RuleRecord

-----------------------------------------------------------------------------
(* The queue of the semaphore: leaving it keeps the others, once each. *)

Distinct(queue) ==
    \A i, j \in 1 .. Len(queue) : queue[i] = queue[j] => i = j

(* Who enters is last. *)
LEMMA AppendQueue ==
    ASSUME NEW S, NEW queue \in Seq(S), NEW c \in S
    PROVE  /\ Append(queue, c) \in Seq(S)
           /\ Len(Append(queue, c)) = Len(queue) + 1
           /\ \A i \in 1 .. Len(queue) : Append(queue, c)[i] = queue[i]
           /\ Append(queue, c)[Len(queue) + 1] = c
OBVIOUS

(* A call that leaves is gone, and nobody enters. *)
LEMMA WithoutQueue ==
    ASSUME NEW S, NEW queue \in Seq(S), NEW c, Distinct(queue)
    PROVE  /\ Without(queue, c) \in Seq(S)
           /\ Distinct(Without(queue, c))
           /\ \A j \in 1 .. Len(Without(queue, c)) :
                 /\ Without(queue, c)[j] # c
                 /\ \E i \in 1 .. Len(queue) : Without(queue, c)[j] = queue[i]
<1>1. CASE ~\E j \in DOMAIN queue : queue[j] = c
  <2>1. Without(queue, c) = queue
    BY <1>1 DEF Without
  <2> QED
    BY <1>1, <2>1
<1>2. CASE \E j \in DOMAIN queue : queue[j] = c
  <2> DEFINE i == CHOOSE i \in DOMAIN queue : queue[i] = c
             q == [j \in 1 .. Len(queue) - 1 |-> IF j < i THEN queue[j] ELSE queue[j + 1]]
  <2>1. i \in 1 .. Len(queue) /\ queue[i] = c
    BY <1>2
  <2>2. Without(queue, c) = q
    BY <1>2 DEF Without
  <2> HIDE DEF i
  <2>3. Len(queue) \in Nat /\ Len(queue) - 1 \in Nat
    BY <2>1
  <2>4. \A j \in 1 .. Len(queue) - 1 : q[j] \in S
    BY <2>1, <2>3
  <2>5. q \in Seq(S) /\ Len(q) = Len(queue) - 1
    BY <2>3, <2>4
  <2>6. \A j \in 1 .. Len(q) : q[j] # c /\ \E m \in 1 .. Len(queue) : q[j] = queue[m]
    BY <2>1, <2>3, <2>5 DEF Distinct
  <2>7. Distinct(q)
    BY <2>1, <2>3, <2>5 DEF Distinct
  <2> QED
    BY <2>2, <2>5, <2>6, <2>7
<1> QED
  BY <1>1, <1>2

-----------------------------------------------------------------------------
(* What the parts of the actions do to a call and to the permit. *)

(* The call goes on at pc, resting on an approval or none. *)
Moved(c, pc, basis) ==
    /\ call' \in [Call -> CallRecord]
    /\ call'[c].pc = pc
    /\ call'[c].basis = basis
    /\ call'[c].control = call[c].control
    /\ call'[c].key = call[c].key
    /\ call'[c].rule = call[c].rule
    /\ call'[c].gen = call[c].gen
    /\ \A d \in Call \ {c} : call'[d] = call[d]

(* Nobody but the call loses the permit, and the call has it no more. *)
Released(c) ==
    /\ permit' \in Call \cup {NoCall}
    /\ permit' # c
    /\ \A d \in Call \ {c} : permit' = d <=> permit = d

Ended(c) ==
    /\ call' \in [Call -> CallRecord]
    /\ call'[c].pc = "idle"
    /\ call'[c].control = FALSE
    /\ \A d \in Call \ {c} : call'[d] = call[d]
    /\ Released(c)

(* A step to another pc keeps what the call carries, and every other call. *)
LEMMA GotoFacts ==
    ASSUME Types, NEW c \in Call, NEW pc, Goto(c, pc),
           pc \in {"lookup", "prompt", "witness", "admit", "dispatch", "running"}
    PROVE  Moved(c, pc, call[c].basis)
<1> DEFINE new == [call[c] EXCEPT !.pc = pc]
<1>1. call[c] \in CallRecord
  BY DEF Types
<1>2. /\ new \in CallRecord /\ new.pc = pc /\ new.basis = call[c].basis
      /\ new.control = call[c].control /\ new.key = call[c].key
      /\ new.rule = call[c].rule /\ new.gen = call[c].gen
  BY <1>1 DEF CallRecord
<1>3. call' = [call EXCEPT ![c] = new]
  BY DEF Goto
<1> HIDE DEF new
<1> QED
  BY <1>2, <1>3 DEF Types, Moved

(* An ending call is idle, without the permit; the others keep theirs. *)
LEMMA EndFacts ==
    ASSUME Types, NEW c \in Call, End(c)
    PROVE  Ended(c)
BY IdleType, CallAssumption DEF Types, End, Release, Ended, Released

(* A call that starts leaves its review, and rests on the given approval. *)
LEMMA StartFacts ==
    ASSUME Types, NEW c \in Call, NEW basis \in Nat, Start(c, basis)
    PROVE  Moved(c, "start", basis) /\ Released(c)
<1> DEFINE new == [call[c] EXCEPT !.pc = "start", !.basis = basis]
<1>1. call[c] \in CallRecord
  BY DEF Types
<1>2. /\ new \in CallRecord /\ new.pc = "start" /\ new.basis = basis
      /\ new.control = call[c].control /\ new.key = call[c].key
      /\ new.rule = call[c].rule /\ new.gen = call[c].gen
  BY <1>1 DEF CallRecord
<1>3. call' = [call EXCEPT ![c] = new]
  BY DEF Start, Types
<1>4. Released(c)
  BY CallAssumption DEF Types, Start, Release, Released
<1> HIDE DEF new
<1> QED
  BY <1>2, <1>3, <1>4 DEF Types, Moved

(* The call Evaluate leaves behind. *)
LEMMA EvaluateFacts ==
    ASSUME Types, NEW c \in Call, NEW k \in Key, Evaluate(c, k)
    PROVE  /\ call' \in [Call -> CallRecord]
           /\ call'[c].pc = IF Decision(k).approval = "Never" THEN "admit" ELSE "queue"
           /\ call'[c].control = FALSE
           /\ call'[c].key = k
           /\ call'[c].rule = Decision(k)
           /\ call'[c].gen = policy.gen
           /\ \A d \in Call \ {c} : call'[d] = call[d]
           /\ Decision(k).allowed
BY IdleType, DecisionType DEF Types, Evaluate, CallRecord

(* The call a control request leaves behind. *)
LEMMA ControlFacts ==
    ASSUME Types, NEW c \in Call, Control(c)
    PROVE  \/ call' = call /\ waiting' = waiting
           \/ /\ call' \in [Call -> CallRecord]
              /\ call'[c].pc = "queue"
              /\ call'[c].control = TRUE
              /\ \A d \in Call \ {c} : call'[d] = call[d]
              /\ waiting' = Append(waiting, c)
<1>1. CASE UnderLimit("control")
  <2> DEFINE new == [Idle EXCEPT !.pc = "queue", !.control = TRUE]
  <2>1. new \in CallRecord /\ new.pc = "queue" /\ new.control = TRUE
    BY IdleType DEF CallRecord
  <2>2. call' = [call EXCEPT ![c] = new] /\ waiting' = Append(waiting, c)
    BY <1>1 DEF Control
  <2> HIDE DEF new
  <2> QED
    BY <2>1, <2>2 DEF Types
<1>2. CASE ~UnderLimit("control")
  BY <1>2 DEF Control
<1> QED
  BY <1>1, <1>2

(* Counting a dispatch raises one counter by at most one. *)
LEMMA CountFacts ==
    ASSUME Types, NEW basis \in Nat, Count(basis)
    PROVE  /\ approvals' \in Seq(ApprovalRecord)
           /\ Len(approvals') = Len(approvals)
           /\ \A i \in 1 .. Len(approvals) :
                 /\ approvals'[i].key = approvals[i].key
                 /\ approvals'[i].gen = approvals[i].gen
                 /\ approvals'[i].approver = approvals[i].approver
                 /\ approvals'[i].budget = approvals[i].budget
                 /\ approvals'[i].used <= approvals[i].used + IF i = basis THEN 1 ELSE 0
<1> DEFINE new(i) == IF i = basis /\ approvals[i].used < MaxSpent
                     THEN [approvals[i] EXCEPT !.used = @ + 1] ELSE approvals[i]
<1>1. approvals \in Seq(ApprovalRecord)
  BY DEF Types
<1>2. approvals' = [i \in 1 .. Len(approvals) |-> new(i)]
  BY <1>1 DEF Count
<1>3. ASSUME NEW i \in 1 .. Len(approvals)
      PROVE  /\ new(i) \in ApprovalRecord
             /\ new(i).key = approvals[i].key
             /\ new(i).gen = approvals[i].gen
             /\ new(i).approver = approvals[i].approver
             /\ new(i).budget = approvals[i].budget
             /\ new(i).used <= approvals[i].used + IF i = basis THEN 1 ELSE 0
  <2>1. approvals[i] \in ApprovalRecord
    BY <1>1
  <2> QED
    BY <2>1 DEF ApprovalRecord
<1> HIDE DEF new
<1> QED
  BY <1>1, <1>2, <1>3

(* The approval Granted records, when it records one. *)
LEMMA GrantedFacts ==
    ASSUME Types, NEW c \in Call, NEW approver \in Approver \cup {Anonymous},
           Granted(c, approver), approvals' # approvals
    PROVE  LET k     == call[c].key
               id    == Len(approvals) + 1
               first == call[c].rule.approval = "FirstUse"
               lease == NewLease(call[c].rule, id)
           IN  /\ SameGeneration(c)
               /\ call[c].rule.distinct => approver \notin {k.sub, Anonymous}
               /\ Moved(c, "start", id) /\ Released(c)
               /\ leases' = IF first THEN [leases EXCEPT ![k] = lease] ELSE leases
               /\ approvals' \in Seq(ApprovalRecord)
               /\ Len(approvals') = id
               /\ \A i \in 1 .. Len(approvals) : approvals'[i] = approvals[i]
               /\ approvals'[id].key = k
               /\ approvals'[id].gen = policy.gen
               /\ approvals'[id].approver = approver
               /\ approvals'[id].budget = IF first THEN lease.budget ELSE 1
               /\ approvals'[id].used = 0
<1> DEFINE k     == call[c].key
           id    == Len(approvals) + 1
           first == call[c].rule.approval = "FirstUse"
           lease == NewLease(call[c].rule, id)
           a     == [key |-> k, gen |-> policy.gen, approver |-> approver,
                     budget |-> IF first THEN lease.budget ELSE 1, used |-> 0]
<1>1. /\ SameGeneration(c)
      /\ call[c].rule.distinct => approver \notin {k.sub, Anonymous}
      /\ Start(c, id)
      /\ leases' = IF first THEN [leases EXCEPT ![k] = lease] ELSE leases
      /\ approvals' = Append(approvals, a)
  BY DEF Granted
<1>2. id \in Nat /\ call[c] \in CallRecord /\ clock \in Nat /\ approvals \in Seq(ApprovalRecord)
  BY DEF Types
<1>3. lease \in LeaseRecord
  BY <1>2, NewLeaseType DEF CallRecord
<1>4. a \in ApprovalRecord
  BY <1>2, <1>3 DEF ApprovalRecord, CallRecord, LeaseRecord, Types
<1>5. Moved(c, "start", id) /\ Released(c)
  BY <1>1, <1>2, StartFacts
<1> HIDE DEF lease
<1> QED
  BY <1>1, <1>2, <1>4, <1>5 DEF lease

-----------------------------------------------------------------------------
(* The inductive invariant. *)

(* A call past the queue that needs a review holds the permit. *)
UnderReview(c) ==
    \/ call[c].pc \in {"prompt", "witness"}
    \/ call[c].pc \in {"admit", "lookup"} /\ call[c].rule.approval # "Never"

Permits ==
    /\ \A c \in Call : UnderReview(c) => permit = c
    /\ permit # NoCall => call[permit].pc \in Reviewing

(* Who waits is at its queue step, once. *)
Queued ==
    /\ Distinct(waiting)
    /\ \A i \in 1 .. Len(waiting) : call[waiting[i]].pc = "queue"

(* A call carries the decision of the policy generation it carries. *)
Decided ==
    \A c \in Call :
       /\ call[c].control => call[c].pc \in {"queue", "prompt", "witness"}
       /\ call[c].pc # "idle" /\ ~call[c].control =>
             /\ call[c].gen <= policy.gen
             /\ SameGeneration(c) => /\ call[c].rule = Decision(call[c].key)
                                     /\ policy.rule.allowed

(* An approval given under the policy in force for a key. *)
Covers(a, k) ==
    /\ a.key = k
    /\ a.gen = policy.gen
    /\ policy.rule.distinct => a.approver \notin {k.sub, Anonymous}

(* Every lease is the lease of such an approval, with its budget. *)
Leased ==
    \A k \in Key : leases[k] # NoLease =>
       /\ leases[k].id \in 1 .. Len(approvals)
       /\ Covers(approvals[leases[k].id], k)
       /\ leases[k].budget = approvals[leases[k].id].budget
       /\ leases[k].budget <= MaxSpent

(* A first-use review is on screen only for a key without a lease. *)
Presented ==
    \A c \in Call :
       call[c].pc = "prompt" /\ ~call[c].control
          /\ call[c].rule.approval = "FirstUse" => leases[call[c].key] = NoLease

(* A call that goes on to its dispatch rests on such an approval. *)
Based ==
    \A c \in Call : call[c].pc \in {"start", "dispatch"} =>
       /\ call[c].basis \in 0 .. Len(approvals)
       /\ SameGeneration(c) /\ call[c].rule.approval # "Never" =>
             call[c].basis # 0 /\ Covers(approvals[call[c].basis], call[c].key)

(* The calls that will still use approval i, if they are not stopped. *)
Claims(i) == {c \in Call : call[c].pc \in {"start", "dispatch"} /\ call[c].basis = i}

(* Uses made and uses claimed stay within the budget of the approval, and   *)
(* its lease has counted all of them.                                       *)
Allowances ==
    \A i \in 1 .. Len(approvals) : approvals[i].budget # None =>
       /\ approvals[i].used + Cardinality(Claims(i)) <= approvals[i].budget
       /\ \A k \in Key : leases[k] # NoLease /\ leases[k].id = i =>
             approvals[i].used + Cardinality(Claims(i)) <= leases[k].spent

IInv == /\ Types /\ Permits /\ Queued /\ Decided
        /\ Leased /\ Presented /\ Based /\ Allowances

-----------------------------------------------------------------------------
(* Next, with the steps that only move one call along taken together. *)

Quiet(c) ==
    \/ Admit(c) \/ Unreviewed(c) \/ Denied(c) \/ ControlGranted(c)
    \/ Witnessed(c) \/ Barrier(c) \/ Complete(c)

(* A quiet step moves or ends its call and leaves the shared state alone. *)
LEMMA QuietFacts ==
    ASSUME Types, NEW c \in Call, Quiet(c)
    PROVE  /\ UNCHANGED <<policy, leases, waiting, guarded, authorized, clock, approvals>>
           /\ call[c].pc \notin {"idle", "queue"}
           /\ \/ Ended(c)
              \/ /\ permit' = permit
                 /\ \/ call[c].pc = "admit" /\ Moved(c, "lookup", call[c].basis)
                    \/ /\ call[c].pc = "prompt" /\ call[c].control
                       /\ Moved(c, "witness", call[c].basis)
                    \/ call[c].pc = "start" /\ Moved(c, "dispatch", call[c].basis)
              \/ /\ call[c].pc = "lookup" /\ call[c].rule.approval = "Never"
                 /\ Moved(c, "start", 0) /\ Released(c)
<1> USE GotoFacts, EndFacts, StartFacts DEF envVars
<1>1. CASE Admit(c)
  BY <1>1 DEF Admit
<1>2. CASE Unreviewed(c)
  BY <1>2 DEF Unreviewed
<1>3. CASE Denied(c)
  BY <1>3 DEF Denied
<1>4. CASE ControlGranted(c)
  BY <1>4 DEF ControlGranted
<1>5. CASE Witnessed(c)
  BY <1>5 DEF Witnessed
<1>6. CASE Barrier(c)
  BY <1>6 DEF Barrier
<1>7. CASE Complete(c)
  BY <1>7 DEF Complete
<1> QED
  BY <1>1, <1>2, <1>3, <1>4, <1>5, <1>6, <1>7 DEF Quiet

(* The steps of the system, the quiet ones of a call taken together. *)
LEMMA Cases ==
    ASSUME [Next]_vars
    PROVE  \/ UNCHANGED vars
           \/ Tick
           \/ Restart
           \/ \E rule \in Rule : SwapPolicy(rule)
           \/ \E s \in Sub : Withdraw(s)
           \/ \E c \in Call : Quiet(c)
           \/ \E c \in Call : Acquire(c)
           \/ \E c \in Call : LeaseHit(c)
           \/ \E c \in Call : Present(c)
           \/ \E c \in Call, approver \in Approver \cup {Anonymous} : Granted(c, approver)
           \/ \E c \in Call : Dispatch(c)
           \/ \E c \in Call : Cancel(c)
           \/ \E c \in Call : Control(c)
           \/ \E c \in Call, k \in Key : Evaluate(c, k)
BY DEF Next, CallStep, Quiet

(* The head of the queue gets the permit; a control call is prompted at once. *)
LEMMA AcquireFacts ==
    ASSUME Types, NEW c \in Call, Acquire(c)
    PROVE  /\ UNCHANGED <<policy, leases, guarded, authorized, clock, approvals>>
           /\ permit = NoCall /\ permit' = c
           /\ Len(waiting) > 0 /\ waiting[1] = c
           /\ waiting' \in Seq(Call)
           /\ Len(waiting') = Len(waiting) - 1
           /\ \A i \in 1 .. Len(waiting') : waiting'[i] = waiting[i + 1]
           /\ Moved(c, IF call[c].control THEN "prompt" ELSE "admit", call[c].basis)
<1>1. /\ UNCHANGED <<policy, leases, guarded, authorized, clock, approvals>>
      /\ permit = NoCall /\ permit' = c
      /\ waiting # <<>> /\ Head(waiting) = c /\ waiting' = Tail(waiting)
      /\ Goto(c, IF call[c].control THEN "prompt" ELSE "admit")
  BY DEF Acquire, envVars
<1>2. waiting \in Seq(Call)
  BY DEF Types
<1>3. /\ Len(waiting) > 0 /\ waiting[1] = c
      /\ waiting' \in Seq(Call)
      /\ Len(waiting') = Len(waiting) - 1
      /\ \A i \in 1 .. Len(waiting') : waiting'[i] = waiting[i + 1]
  BY <1>1, <1>2
<1> QED
  BY <1>1, <1>3, GotoFacts

(* What a lease hit does: it counts a use, and starts or ends the call. *)
LEMMA LeaseHitFacts ==
    ASSUME Types, NEW c \in Call, LeaseHit(c)
    PROVE  LET k == call[c].key IN
           /\ UNCHANGED <<policy, waiting, guarded, authorized, clock, approvals>>
           /\ call[c].pc = "lookup"
           /\ call[c].rule.approval = "FirstUse"
           /\ leases[k] # NoLease
           /\ \A l \in Key \ {k} : leases'[l] = leases[l]
           /\ leases' \in [Key -> LeaseRecord]
           /\ \/ leases' = leases /\ Ended(c)
              \/ /\ ~Exhausted(leases[k])
                 /\ leases'[k].id = leases[k].id
                 /\ leases'[k].budget = leases[k].budget
                 /\ leases'[k].spent >= leases[k].spent
                 /\ leases[k].spent < MaxSpent => leases'[k].spent = leases[k].spent + 1
                 /\ \/ Ended(c)
                    \/ Moved(c, "start", leases[k].id) /\ Released(c)
<1> DEFINE k == call[c].key
           spent == IF leases[k].spent < MaxSpent THEN leases[k].spent + 1 ELSE leases[k].spent
           new == [leases[k] EXCEPT !.spent = spent]
<1>1. k \in Key /\ leases \in [Key -> LeaseRecord] /\ leases[k] \in LeaseRecord
  BY DEF Types, CallRecord
<1>2. new \in LeaseRecord /\ new.spent = spent /\ leases[k].spent \in Nat /\ spent \in Nat
  BY <1>1 DEF LeaseRecord
<1>3. /\ UNCHANGED <<policy, waiting, guarded, authorized, clock, approvals>>
      /\ call[c].pc = "lookup"
      /\ call[c].rule.approval = "FirstUse"
      /\ leases[k] # NoLease
  BY DEF LeaseHit, Live, envVars
<1>4. CASE Exhausted(leases[k])
  BY <1>1, <1>3, <1>4, EndFacts DEF LeaseHit
<1>5. CASE ~Exhausted(leases[k])
  <2>1. leases' = [leases EXCEPT ![k] = new] /\ (End(c) \/ Start(c, leases[k].id))
    BY <1>1, <1>5 DEF LeaseHit
  <2>2. leases'[k] = new /\ \A l \in Key \ {k} : leases'[l] = leases[l]
    BY <1>1, <2>1
  <2>3. leases' \in [Key -> LeaseRecord]
    BY <1>1, <1>2, <2>1
  <2>4. new.id = leases[k].id /\ new.budget = leases[k].budget
    BY <1>1 DEF LeaseRecord
  <2>5. new.spent >= leases[k].spent /\ (leases[k].spent < MaxSpent => new.spent = leases[k].spent + 1)
    BY <1>2
  <2>6. Ended(c) \/ (Moved(c, "start", leases[k].id) /\ Released(c))
    BY <1>1, <2>1, EndFacts, StartFacts DEF LeaseRecord
  <2> HIDE DEF new
  <2> QED
    BY <1>3, <1>5, <2>2, <2>3, <2>4, <2>5, <2>6
<1> QED
  BY <1>4, <1>5

(* A dispatch counts one use of its basis, or ends the call. *)
LEMMA DispatchFacts ==
    ASSUME Types, NEW c \in Call, Dispatch(c)
    PROVE  /\ UNCHANGED <<policy, leases, waiting, guarded, authorized, clock>>
           /\ call[c].pc = "dispatch"
           /\ \/ Ended(c) /\ approvals' = approvals
              \/ /\ SameGeneration(c)
                 /\ guarded => call[c].key.sub \in authorized \cup {NoSub}
                 /\ Moved(c, "running", call[c].basis) /\ permit' = permit
                 /\ Count(call[c].basis)
BY EndFacts, GotoFacts DEF Dispatch, envVars

(* A refused approval leaves no trace but the end of its call. *)
LEMMA RefusedFacts ==
    ASSUME Types, NEW c \in Call, NEW approver, Granted(c, approver), approvals' = approvals
    PROVE  Ended(c) /\ leases' = leases
BY EndFacts DEF Granted, Types

(* What presenting a review does: the expired lease goes first. *)
LEMMA PresentFacts ==
    ASSUME Types, NEW c \in Call, Present(c)
    PROVE  LET k == call[c].key IN
           /\ UNCHANGED <<policy, waiting, guarded, authorized, clock, approvals>>
           /\ call[c].pc = "lookup"
           /\ call[c].rule.approval # "Never"
           /\ leases' \in [Key -> LeaseRecord]
           /\ \A l \in Key : leases'[l] \in {leases[l], NoLease}
           /\ \A l \in Key : leases'[l] # leases[l] => ~Live(leases[l])
           /\ call[c].rule.approval = "FirstUse" => leases'[k] = NoLease
           /\ Ended(c) \/ (Moved(c, "prompt", call[c].basis) /\ permit' = permit)
BY NoLeaseType, EndFacts, GotoFacts DEF Present, Types, CallRecord, envVars

-----------------------------------------------------------------------------
(* Every step keeps the parts of the invariant. *)

(* The invariant holds when the daemon starts. *)
LEMMA InitInvariant == Init => IInv
<1> SUFFICES ASSUME Init PROVE IInv
  OBVIOUS
<1>1. Types
  BY IdleType, NoLeaseType DEF Init, Types
<1>2. Permits /\ Queued /\ Decided /\ Leased /\ Presented /\ Based
  BY IdleType, CallAssumption
     DEF Init, Permits, UnderReview, Queued, Distinct, Decided, Leased, Presented, Based
<1>3. Allowances
  BY DEF Init, Allowances
<1> QED
  BY <1>1, <1>2, <1>3 DEF IInv

(* Every step keeps the shapes. *)
LEMMA TypesStep ==
    ASSUME Types, Queued, [Next]_vars
    PROVE  Types'
<1>1. CASE UNCHANGED vars
  BY <1>1 DEF vars, Types
<1>2. CASE Tick
  BY <1>2 DEF Tick, Types
<1>3. CASE Restart
  BY <1>3, IdleType, NoLeaseType DEF Restart, envVars, Types
<1>4. ASSUME NEW rule \in Rule, SwapPolicy(rule) PROVE Types'
  BY <1>4, NoLeaseType DEF SwapPolicy, envVars, Types
<1>5. ASSUME NEW s \in Sub, Withdraw(s) PROVE Types'
  BY <1>5 DEF Withdraw, Types
<1>6. ASSUME NEW c \in Call, Quiet(c) PROVE Types'
  <2>1. /\ UNCHANGED <<policy, leases, waiting, authorized, clock, approvals>>
        /\ \/ call' \in [Call -> CallRecord] /\ (permit' = permit \/ Released(c))
           \/ Ended(c)
    BY <1>6, QuietFacts DEF Moved
  <2>2. call' \in [Call -> CallRecord] /\ (permit' = permit \/ Released(c))
    BY <2>1 DEF Ended
  <2> QED
    BY <2>1, <2>2 DEF Types, Released
<1>7. ASSUME NEW c \in Call, Acquire(c) PROVE Types'
  BY <1>7, AcquireFacts DEF Types, Moved
<1>8. ASSUME NEW c \in Call, LeaseHit(c) PROVE Types'
  <2>1. /\ UNCHANGED <<policy, waiting, authorized, clock, approvals>>
        /\ leases' \in [Key -> LeaseRecord]
        /\ \/ call' \in [Call -> CallRecord] /\ Released(c)
           \/ Ended(c)
    BY <1>8, LeaseHitFacts DEF Moved
  <2>2. call' \in [Call -> CallRecord] /\ Released(c)
    BY <2>1 DEF Ended
  <2> QED
    BY <2>1, <2>2 DEF Types, Released
<1>9. ASSUME NEW c \in Call, Present(c) PROVE Types'
  BY <1>9, PresentFacts DEF Types, Ended, Moved, Released
<1>10. ASSUME NEW c \in Call, NEW approver \in Approver \cup {Anonymous},
              Granted(c, approver)
       PROVE  Types'
  <2>0. UNCHANGED <<policy, waiting, authorized, clock>>
    BY <1>10 DEF Granted, envVars
  <2>1. CASE approvals' # approvals
    <3> DEFINE id == Len(approvals) + 1
               lease == NewLease(call[c].rule, id)
    <3>1. id \in Nat /\ call[c].rule \in RuleRecord /\ call[c].key \in Key
      BY DEF Types, CallRecord
    <3>2. lease \in LeaseRecord
      BY <3>1, NewLeaseType DEF Types
    <3>3. Moved(c, "start", id) /\ Released(c) /\ approvals' \in Seq(ApprovalRecord)
          /\ leases' \in {leases, [leases EXCEPT ![call[c].key] = lease]}
      BY <1>10, <2>1, GrantedFacts
    <3> HIDE DEF lease, id
    <3>4. leases' \in [Key -> LeaseRecord]
      BY <3>1, <3>2, <3>3 DEF Types
    <3> QED
      BY <2>0, <3>3, <3>4 DEF Types, Moved, Released
  <2>2. CASE approvals' = approvals
    BY <1>10, <2>0, <2>2, RefusedFacts DEF Types, Ended, Released
  <2> QED
    BY <2>1, <2>2
<1>11. ASSUME NEW c \in Call, Dispatch(c) PROVE Types'
  <2>1. call[c].basis \in Nat
    BY DEF Types, CallRecord
  <2>2. approvals' \in Seq(ApprovalRecord)
    BY <1>11, <2>1, DispatchFacts, CountFacts DEF Types
  <2> QED
    BY <1>11, <2>2, DispatchFacts DEF Types, Ended, Moved, Released
<1>12. ASSUME NEW c \in Call, Cancel(c) PROVE Types'
  BY <1>12, EndFacts, WithoutQueue DEF Cancel, envVars, Types, Queued, Ended, Released
<1>13. ASSUME NEW c \in Call, Control(c) PROVE Types'
  <2>1. UNCHANGED <<policy, leases, permit, authorized, clock, approvals>>
    BY <1>13 DEF Control, envVars
  <2>2. call' \in [Call -> CallRecord]
    BY <1>13, ControlFacts DEF Types
  <2>3. waiting' \in Seq(Call)
    <3>1. waiting \in Seq(Call)
      BY DEF Types
    <3>2. Append(waiting, c) \in Seq(Call)
      BY <3>1
    <3> QED
      BY <1>13, <3>1, <3>2, ControlFacts
  <2> QED
    BY <2>1, <2>2, <2>3 DEF Types
<1>14. ASSUME NEW c \in Call, NEW k \in Key, Evaluate(c, k) PROVE Types'
  <2>1. UNCHANGED <<policy, leases, permit, authorized, clock, approvals>>
    BY <1>14 DEF Evaluate, envVars
  <2>0. waiting' = waiting \/ waiting' = Append(waiting, c)
    BY <1>14, Zenon DEF Evaluate
  <2>2. waiting' \in Seq(Call)
    <3>1. waiting \in Seq(Call)
      BY DEF Types
    <3>2. Append(waiting, c) \in Seq(Call)
      BY <3>1
    <3> QED
      BY <2>0, <3>1, <3>2
  <2> QED
    BY <1>14, <2>1, <2>2, EvaluateFacts DEF Types
<1> QED
  BY <1>1, <1>2, <1>3, <1>4, <1>5, <1>6, <1>7, <1>8, <1>9, <1>10, <1>11, <1>12,
     <1>13, <1>14, Cases

(* One permit: nobody is under review without it. *)
LEMMA PermitsStep ==
    ASSUME Types, Permits, [Next]_vars
    PROVE  Permits'
<1>0. permit \in Call \cup {NoCall} /\ NoCall \notin Call
  BY CallAssumption DEF Types
<1> USE <1>0 DEF Permits, UnderReview, Reviewing
<1>1. CASE UNCHANGED vars \/ Tick \/ (\E rule \in Rule : SwapPolicy(rule))
           \/ (\E s \in Sub : Withdraw(s))
  <2>1. UNCHANGED <<call, permit>>
    BY <1>1 DEF vars, Tick, SwapPolicy, Withdraw
  <2> QED
    BY <2>1
<1>2. CASE Restart
  BY <1>2, IdleType DEF Restart
<1>3. ASSUME NEW c \in Call, Ended(c) PROVE Permits'
  BY <1>3 DEF Ended, Released
<1>4. ASSUME NEW c \in Call, NEW basis, Moved(c, "start", basis), Released(c) PROVE Permits'
  BY <1>4 DEF Moved, Released
<1>5. ASSUME NEW c \in Call, NEW pc, NEW basis, Moved(c, pc, basis), permit' = permit,
             \/ pc = "lookup" /\ call[c].pc = "admit"
             \/ pc = "witness" /\ call[c].pc = "prompt"
             \/ pc = "prompt" /\ call[c].pc = "lookup" /\ call[c].rule.approval # "Never"
             \/ pc = "dispatch" /\ call[c].pc = "start"
             \/ pc = "running" /\ call[c].pc = "dispatch"
      PROVE  Permits'
  BY <1>5 DEF Moved
<1>6. ASSUME NEW c \in Call, Quiet(c) PROVE Permits'
  BY <1>3, <1>4, <1>5, <1>6, QuietFacts
<1>7. ASSUME NEW c \in Call, Acquire(c) PROVE Permits'
  BY <1>7, AcquireFacts DEF Moved
<1>8. ASSUME NEW c \in Call, LeaseHit(c) PROVE Permits'
  BY <1>3, <1>4, <1>8, LeaseHitFacts
<1>9. ASSUME NEW c \in Call, Present(c) PROVE Permits'
  BY <1>3, <1>5, <1>9, PresentFacts
<1>10. ASSUME NEW c \in Call, NEW approver \in Approver \cup {Anonymous},
              Granted(c, approver)
       PROVE  Permits'
  BY <1>3, <1>4, <1>10, GrantedFacts, RefusedFacts
<1>11. ASSUME NEW c \in Call, Dispatch(c) PROVE Permits'
  BY <1>3, <1>5, <1>11, DispatchFacts
<1>12. ASSUME NEW c \in Call, Cancel(c) PROVE Permits'
  BY <1>3, <1>12, EndFacts DEF Cancel
<1>13. ASSUME NEW c \in Call, Control(c) PROVE Permits'
  <2>1. permit' = permit /\ call[c].pc = "idle"
    BY <1>13 DEF Control
  <2> QED
    BY <1>13, <2>1, ControlFacts
<1>14. ASSUME NEW c \in Call, NEW k \in Key, Evaluate(c, k) PROVE Permits'
  <2>1. permit' = permit /\ call[c].pc = "idle"
    BY <1>14 DEF Evaluate
  <2>2. /\ call'[c].pc \in {"admit", "queue"}
        /\ call'[c].pc = "admit" => call'[c].rule.approval = "Never"
        /\ \A d \in Call \ {c} : call'[d] = call[d]
    BY <1>14, EvaluateFacts
  <2> QED
    BY <2>1, <2>2
<1> QED
  BY <1>1, <1>2, <1>6, <1>7, <1>8, <1>9, <1>10, <1>11, <1>12, <1>13, <1>14, Cases

(* The queue holds calls at their queue step, once each. *)
LEMMA QueuedStep ==
    ASSUME Types, Queued, [Next]_vars
    PROVE  Queued'
<1>0. /\ waiting \in Seq(Call) /\ Len(waiting) \in Nat
      /\ \A i \in 1 .. Len(waiting) : waiting[i] \in Call
  BY DEF Types
<1>1. CASE UNCHANGED vars \/ Tick \/ (\E rule \in Rule : SwapPolicy(rule))
           \/ (\E s \in Sub : Withdraw(s))
  <2>1. UNCHANGED <<call, waiting>>
    BY <1>1 DEF vars, Tick, SwapPolicy, Withdraw
  <2> QED
    BY <2>1 DEF Queued, Distinct
<1>2. CASE Restart
  BY <1>2 DEF Restart, Queued, Distinct
<1>3. ASSUME NEW c \in Call, call[c].pc # "queue", waiting' = waiting,
             \A d \in Call \ {c} : call'[d] = call[d]
      PROVE  Queued'
  BY <1>0, <1>3 DEF Queued, Distinct
<1>4. ASSUME NEW c \in Call, call[c].pc # "queue", waiting' = Append(waiting, c),
             call'[c].pc = "queue", \A d \in Call \ {c} : call'[d] = call[d]
      PROVE  Queued'
  <2>1. /\ Len(waiting') = Len(waiting) + 1
        /\ \A i \in 1 .. Len(waiting) : waiting'[i] = waiting[i]
        /\ waiting'[Len(waiting) + 1] = c
    BY <1>0, <1>4, AppendQueue
  <2>2. \A i \in 1 .. Len(waiting) : waiting[i] # c
    BY <1>4 DEF Queued
  <2>3. Distinct(waiting)'
    BY <1>0, <2>1, <2>2 DEF Queued, Distinct
  <2>4. \A i \in 1 .. Len(waiting') : call'[waiting'[i]].pc = "queue"
    BY <1>0, <1>4, <2>1, <2>2 DEF Queued
  <2> QED
    BY <2>3, <2>4 DEF Queued
<1>5. ASSUME NEW c \in Call, Quiet(c) PROVE Queued'
  <2>1. \A d \in Call \ {c} : call'[d] = call[d]
    BY <1>5, QuietFacts DEF Ended, Moved
  <2> QED
    BY <1>3, <1>5, <2>1, QuietFacts
<1>6. ASSUME NEW c \in Call, Acquire(c) PROVE Queued'
  <2>1. /\ Len(waiting) > 0 /\ waiting[1] = c
        /\ Len(waiting') = Len(waiting) - 1
        /\ \A i \in 1 .. Len(waiting') : waiting'[i] = waiting[i + 1]
        /\ \A d \in Call \ {c} : call'[d] = call[d]
    BY <1>6, AcquireFacts DEF Moved
  <2>2. \A i \in 1 .. Len(waiting') : waiting'[i] # c
    BY <1>0, <2>1 DEF Queued, Distinct
  <2>3. Distinct(waiting)'
    BY <1>0, <2>1 DEF Queued, Distinct
  <2>4. \A i \in 1 .. Len(waiting') : call'[waiting'[i]].pc = "queue"
    BY <1>0, <2>1, <2>2 DEF Queued
  <2> QED
    BY <2>3, <2>4 DEF Queued
<1>7. ASSUME NEW c \in Call, LeaseHit(c) PROVE Queued'
  <2>1. \A d \in Call \ {c} : call'[d] = call[d]
    BY <1>7, LeaseHitFacts DEF Ended, Moved
  <2> QED
    BY <1>3, <1>7, <2>1, LeaseHitFacts
<1>8. ASSUME NEW c \in Call, Present(c) PROVE Queued'
  <2>1. \A d \in Call \ {c} : call'[d] = call[d]
    BY <1>8, PresentFacts DEF Ended, Moved
  <2> QED
    BY <1>3, <1>8, <2>1, PresentFacts
<1>9. ASSUME NEW c \in Call, NEW approver \in Approver \cup {Anonymous},
             Granted(c, approver)
      PROVE  Queued'
  <2>1. waiting' = waiting /\ call[c].pc = "prompt"
    BY <1>9 DEF Granted
  <2>2. \A d \in Call \ {c} : call'[d] = call[d]
    BY <1>9, GrantedFacts, RefusedFacts DEF Ended, Moved
  <2> QED
    BY <1>3, <2>1, <2>2
<1>10. ASSUME NEW c \in Call, Dispatch(c) PROVE Queued'
  <2>1. \A d \in Call \ {c} : call'[d] = call[d]
    BY <1>10, DispatchFacts DEF Ended, Moved
  <2> QED
    BY <1>3, <1>10, <2>1, DispatchFacts
<1>11. ASSUME NEW c \in Call, Cancel(c) PROVE Queued'
  <2>1. Ended(c) /\ waiting' = Without(waiting, c)
    BY <1>11, EndFacts DEF Cancel
  <2>2. /\ Distinct(waiting)'
        /\ \A j \in 1 .. Len(waiting') :
              waiting'[j] # c /\ \E i \in 1 .. Len(waiting) : waiting'[j] = waiting[i]
    BY <1>0, <2>1, WithoutQueue DEF Queued
  <2> QED
    BY <1>0, <2>1, <2>2 DEF Queued, Ended
<1>12. ASSUME NEW c \in Call, Control(c) PROVE Queued'
  <2>1. call[c].pc = "idle"
    BY <1>12 DEF Control
  <2>2. CASE call' = call /\ waiting' = waiting
    BY <2>2 DEF Queued, Distinct
  <2> QED
    BY <1>4, <1>12, <2>1, <2>2, ControlFacts
<1>13. ASSUME NEW c \in Call, NEW k \in Key, Evaluate(c, k) PROVE Queued'
  <2>1. /\ call[c].pc = "idle"
        /\ waiting' = IF Decision(k).approval = "Never" THEN waiting ELSE Append(waiting, c)
    BY <1>13 DEF Evaluate
  <2> QED
    BY <1>3, <1>4, <1>13, <2>1, EvaluateFacts
<1> QED
  BY <1>1, <1>2, <1>5, <1>6, <1>7, <1>8, <1>9, <1>10, <1>11, <1>12, <1>13, Cases

(* A call keeps the decision it was given. *)
LEMMA DecidedStep ==
    ASSUME Types, Queued, Decided, [Next]_vars
    PROVE  Decided'
<1> USE DEF SameGeneration, Decision
<1>1. CASE UNCHANGED vars \/ Tick \/ (\E s \in Sub : Withdraw(s))
  <2>1. UNCHANGED <<call, policy>>
    BY <1>1 DEF vars, Tick, Withdraw
  <2> QED
    BY <2>1 DEF Decided
<1>2. CASE Restart
  BY <1>2, IdleType DEF Restart, Decided
<1>3. ASSUME NEW rule \in Rule, SwapPolicy(rule) PROVE Decided'
  <2>1. /\ policy.gen \in Nat /\ policy'.gen = policy.gen + 1 /\ call' = call
        /\ \A c \in Call : call[c].gen \in Nat
    BY <1>3 DEF SwapPolicy, Types, CallRecord
  <2>2. \A c \in Call : call[c].pc # "idle" /\ ~call[c].control =>
           call'[c].gen <= policy'.gen /\ call'[c].gen # policy'.gen
    <3>1. \A c \in Call : call[c].pc # "idle" /\ ~call[c].control => call[c].gen <= policy.gen
      BY DEF Decided
    <3> QED
      BY <2>1, <3>1
  <2> QED
    BY <2>1, <2>2 DEF Decided
<1>4. ASSUME NEW c \in Call, Ended(c), policy' = policy PROVE Decided'
  BY <1>4 DEF Ended, Decided
<1>5. ASSUME NEW c \in Call, NEW pc, NEW basis, Moved(c, pc, basis), policy' = policy,
             call[c].pc # "idle",
             call[c].control => pc \in {"queue", "prompt", "witness"}
      PROVE  Decided'
  BY <1>5 DEF Moved, Decided
<1>6. ASSUME NEW c \in Call, Quiet(c) PROVE Decided'
  BY <1>4, <1>5, <1>6, QuietFacts DEF Decided
<1>7. ASSUME NEW c \in Call, Acquire(c) PROVE Decided'
  <2>1. call[c].pc = "queue"
    BY <1>7, AcquireFacts DEF Queued, Types
  <2> QED
    BY <1>5, <1>7, <2>1, AcquireFacts
<1>8. ASSUME NEW c \in Call, LeaseHit(c) PROVE Decided'
  BY <1>4, <1>5, <1>8, LeaseHitFacts DEF Decided
<1>9. ASSUME NEW c \in Call, Present(c) PROVE Decided'
  BY <1>4, <1>5, <1>9, PresentFacts DEF Decided
<1>10. ASSUME NEW c \in Call, NEW approver \in Approver \cup {Anonymous},
              Granted(c, approver)
       PROVE  Decided'
  <2>1. policy' = policy /\ call[c].pc = "prompt" /\ ~call[c].control
    BY <1>10 DEF Granted
  <2> QED
    BY <1>4, <1>5, <1>10, <2>1, GrantedFacts, RefusedFacts
<1>11. ASSUME NEW c \in Call, Dispatch(c) PROVE Decided'
  BY <1>4, <1>5, <1>11, DispatchFacts DEF Decided
<1>12. ASSUME NEW c \in Call, Cancel(c) PROVE Decided'
  BY <1>4, <1>12, EndFacts DEF Cancel
<1>13. ASSUME NEW c \in Call, Control(c) PROVE Decided'
  <2>1. policy' = policy
    BY <1>13 DEF Control
  <2>2. CASE call' = call
    BY <2>1, <2>2 DEF Decided
  <2>3. CASE /\ call'[c].pc = "queue" /\ call'[c].control = TRUE
             /\ \A d \in Call \ {c} : call'[d] = call[d]
    BY <2>1, <2>3 DEF Decided
  <2> QED
    BY <1>13, <2>2, <2>3, ControlFacts
<1>14. ASSUME NEW c \in Call, NEW k \in Key, Evaluate(c, k) PROVE Decided'
  <2>1. policy' = policy /\ policy.gen \in Nat
    BY <1>14 DEF Evaluate, Types
  <2>2. Decision(k).allowed = policy.rule.allowed
    BY DecisionType
  <2>3. /\ call'[c].pc # "idle" /\ call'[c].control = FALSE /\ call'[c].key = k
        /\ call'[c].rule = Decision(k) /\ call'[c].gen = policy.gen
        /\ \A d \in Call \ {c} : call'[d] = call[d]
        /\ Decision(k).allowed
    BY <1>14, EvaluateFacts
  <2> QED
    BY <2>1, <2>2, <2>3 DEF Decided
<1> QED
  BY <1>1, <1>2, <1>3, <1>6, <1>7, <1>8, <1>9, <1>10, <1>11, <1>12, <1>13, <1>14, Cases

(* What an approval says of a key does not change while the policy stands   *)
(* and the daemon runs.                                                     *)
Kept ==
    /\ policy' = policy
    /\ approvals' \in Seq(ApprovalRecord)
    /\ Len(approvals') >= Len(approvals)
    /\ \A i \in 1 .. Len(approvals) :
          /\ approvals'[i].key = approvals[i].key
          /\ approvals'[i].gen = approvals[i].gen
          /\ approvals'[i].approver = approvals[i].approver
          /\ approvals'[i].budget = approvals[i].budget

(* Only a restart forgets an approval; only a new policy stops its covering. *)
LEMMA KeptFacts ==
    ASSUME Types, Next, ~Restart, ~\E rule \in Rule : SwapPolicy(rule)
    PROVE  Kept
<1>1. approvals \in Seq(ApprovalRecord) /\ Len(approvals) \in Nat
  BY DEF Types
<1>2. CASE UNCHANGED <<policy, approvals>>
  BY <1>1, <1>2 DEF Kept
<1>3. ASSUME NEW c \in Call, NEW approver \in Approver \cup {Anonymous},
             Granted(c, approver)
      PROVE  Kept
  <2>1. policy' = policy
    BY <1>3 DEF Granted
  <2>2. CASE approvals' # approvals
    BY <1>1, <1>3, <2>1, <2>2, GrantedFacts DEF Kept
  <2> QED
    BY <1>2, <2>1, <2>2
<1>4. ASSUME NEW c \in Call, Dispatch(c) PROVE Kept
  <2>1. call[c].basis \in Nat
    BY DEF Types, CallRecord
  <2>2. policy' = policy /\ (approvals' = approvals \/ Count(call[c].basis))
    BY <1>4, DispatchFacts
  <2>3. CASE Count(call[c].basis)
    BY <1>1, <2>1, <2>2, <2>3, CountFacts DEF Kept
  <2> QED
    BY <1>2, <2>2, <2>3
<1>5. CASE Tick \/ (\E s \in Sub : Withdraw(s))
           \/ (\E c \in Call : Cancel(c) \/ Control(c) \/ Acquire(c) \/ \E k \in Key : Evaluate(c, k))
  BY <1>2, <1>5 DEF Tick, Withdraw, Cancel, Control, Acquire, Evaluate
<1>6. CASE \E c \in Call : Quiet(c) \/ LeaseHit(c) \/ Present(c)
  BY <1>2, <1>6, QuietFacts, LeaseHitFacts, PresentFacts
<1> QED
  BY <1>3, <1>4, <1>5, <1>6, Cases DEF Next, CallStep, Quiet

(* The new lease is the lease of the new approval. *)
LEMMA GrantedLease ==
    ASSUME Types, Decided, NEW c \in Call, NEW approver \in Approver \cup {Anonymous},
           Granted(c, approver), approvals' # approvals
    PROVE  LET k  == call[c].key
               id == Len(approvals) + 1
           IN  /\ Covers(approvals'[id], k)
               /\ approvals'[id].budget # None => approvals'[id].budget >= 1
               /\ leases' # leases =>
                     /\ call[c].rule.approval = "FirstUse"
                     /\ \A l \in Key \ {k} : leases'[l] = leases[l]
                     /\ leases'[k].id = id
                     /\ leases'[k].spent = 1
                     /\ leases'[k].budget = approvals'[id].budget
                     /\ leases'[k].budget <= MaxSpent
<1> DEFINE k     == call[c].key
           id    == Len(approvals) + 1
           rule  == call[c].rule
           lease == NewLease(rule, id)
<1>1. /\ k \in Key /\ id \in Nat /\ rule \in RuleRecord /\ clock \in Nat
      /\ leases \in [Key -> LeaseRecord] /\ policy.rule \in Rule
  BY DEF Types, CallRecord
<1>2. rule = Decision(k) /\ policy' = policy
  BY GrantedFacts DEF Granted, Decided
<1>3. /\ rule.budget = policy.rule.budget /\ rule.distinct = policy.rule.distinct
  BY <1>1, <1>2, DecisionType
<1>4. rule.budget <= MaxSpent /\ 1 <= MaxSpent /\ MaxSpent \in Nat
  BY <1>1, <1>3, BudgetAssumption, LimitAssumption
<1>5. /\ lease.id = id /\ lease.spent = 1 /\ lease \in LeaseRecord
      /\ lease.budget = IF rule.one_time THEN 1 ELSE rule.budget
  BY <1>1, NewLeaseType
<1>6. lease.budget <= MaxSpent /\ (lease.budget # None => lease.budget >= 1)
  BY <1>1, <1>4, <1>5 DEF RuleRecord
<1>7. /\ rule.distinct => approver \notin {k.sub, Anonymous}
      /\ leases' = IF rule.approval = "FirstUse" THEN [leases EXCEPT ![k] = lease] ELSE leases
      /\ approvals'[id].key = k
      /\ approvals'[id].gen = policy.gen
      /\ approvals'[id].approver = approver
      /\ approvals'[id].budget = IF rule.approval = "FirstUse" THEN lease.budget ELSE 1
  BY GrantedFacts
<1> HIDE DEF lease
<1>8. Covers(approvals'[id], k)
  BY <1>2, <1>3, <1>7 DEF Covers
<1>9. approvals'[id].budget # None => approvals'[id].budget >= 1
  BY <1>6, <1>7
<1>10. ASSUME leases' # leases
       PROVE  /\ rule.approval = "FirstUse"
              /\ leases'[k] = lease
              /\ \A l \in Key \ {k} : leases'[l] = leases[l]
  BY <1>1, <1>7, <1>10
<1> QED
  BY <1>5, <1>6, <1>7, <1>8, <1>9, <1>10

(* A lease belongs to an approval of its key under the policy in force. *)
LEMMA LeasedStep ==
    ASSUME Types, Decided, Leased, [Next]_vars
    PROVE  Leased'
<1>0. /\ Len(approvals) \in Nat /\ leases \in [Key -> LeaseRecord]
      /\ \A k \in Key : leases[k] \in LeaseRecord
  BY DEF Types
<1>1. CASE UNCHANGED vars
  BY <1>1 DEF vars, Leased, Covers
<1>2. CASE Restart \/ \E rule \in Rule : SwapPolicy(rule)
  <2>1. leases' = [k \in Key |-> NoLease]
    BY <1>2 DEF Restart, SwapPolicy
  <2> QED
    BY <2>1 DEF Leased
<1>3. ASSUME Kept,
             \A k \in Key : \/ leases'[k] = NoLease
                            \/ leases'[k].id = leases[k].id /\ leases'[k].budget = leases[k].budget
                               /\ leases[k] # NoLease
      PROVE  Leased'
  BY <1>0, <1>3 DEF Leased, Kept, Covers
<1>4. ASSUME NEW c \in Call, NEW approver \in Approver \cup {Anonymous},
             Granted(c, approver), Kept, leases' # leases
      PROVE  Leased'
  <2>1. approvals' # approvals
    BY <1>4, RefusedFacts
  <2> DEFINE k  == call[c].key
             id == Len(approvals) + 1
  <2>2. /\ Covers(approvals'[id], k)
        /\ \A l \in Key \ {k} : leases'[l] = leases[l]
        /\ leases'[k].id = id
        /\ leases'[k].budget = approvals'[id].budget
        /\ leases'[k].budget <= MaxSpent
    BY <1>4, <2>1, GrantedLease
  <2>3. Len(approvals') = id
    BY <1>4, <2>1, GrantedFacts
  <2>4. id \in 1 .. Len(approvals')
    BY <1>0, <2>3
  <2> QED
    BY <1>0, <1>4, <2>2, <2>3, <2>4 DEF Leased, Kept, Covers
<1>5. CASE leases' = leases /\ Kept
  BY <1>3, <1>5
<1>6. ASSUME NEW c \in Call, LeaseHit(c), Kept PROVE Leased'
  <2>1. \A k \in Key \ {call[c].key} : leases'[k] = leases[k]
    BY <1>6, LeaseHitFacts
  <2>2. /\ call[c].key \in Key
        /\ leases[call[c].key] # NoLease
        /\ leases'[call[c].key].id = leases[call[c].key].id
        /\ leases'[call[c].key].budget = leases[call[c].key].budget
    <3>1. call[c].key \in Key
      BY DEF Types, CallRecord
    <3> QED
      BY <1>6, <3>1, LeaseHitFacts
  <2> QED
    BY <1>3, <1>6, <2>1, <2>2
<1>7. ASSUME NEW c \in Call, Present(c), Kept PROVE Leased'
  BY <1>3, <1>7, PresentFacts
<1>8. CASE Next /\ ~Restart /\ ~\E rule \in Rule : SwapPolicy(rule)
  <2>1. Kept
    BY <1>8, KeptFacts
  <2>2. CASE leases' # leases
    <3>1. CASE \E c \in Call : LeaseHit(c) \/ Present(c)
      BY <1>6, <1>7, <2>1, <3>1
    <3>2. CASE \E c \in Call, approver \in Approver \cup {Anonymous} : Granted(c, approver)
      BY <1>4, <2>1, <2>2, <3>2
    <3>3. CASE \E c \in Call : Quiet(c) \/ Dispatch(c) \/ Acquire(c) \/ Cancel(c) \/ Control(c)
                               \/ \E k \in Key : Evaluate(c, k)
      BY <2>2, <3>3, QuietFacts, DispatchFacts, AcquireFacts DEF Cancel, Control, Evaluate
    <3>4. CASE UNCHANGED vars \/ Tick \/ \E s \in Sub : Withdraw(s)
      BY <2>2, <3>4 DEF vars, Tick, Withdraw
    <3> QED
      BY <1>8, <3>1, <3>2, <3>3, <3>4, Cases
  <2> QED
    BY <1>5, <2>1, <2>2
<1> QED
  BY <1>1, <1>2, <1>8

(* While a review is on screen its holder alone touches the leases. *)
LEMMA PresentedStep ==
    ASSUME Types, Permits, Presented, Types', [Next]_vars
    PROVE  Presented'
<1>0. \A c, d \in Call : UnderReview(c) /\ UnderReview(d) => c = d
  BY DEF Permits
<1>1. CASE UNCHANGED vars \/ Tick \/ (\E s \in Sub : Withdraw(s))
  <2>1. UNCHANGED <<call, leases>>
    BY <1>1 DEF vars, Tick, Withdraw
  <2> QED
    BY <2>1 DEF Presented
<1>2. CASE Restart \/ \E rule \in Rule : SwapPolicy(rule)
  <2>1. leases' = [k \in Key |-> NoLease]
    BY <1>2 DEF Restart, SwapPolicy
  <2>2. \A c \in Call : call'[c].key \in Key
    BY DEF Types, CallRecord
  <2> QED
    BY <2>1, <2>2 DEF Presented
<1>3. ASSUME NEW c \in Call, leases' = leases,
             \A d \in Call \ {c} : call'[d] = call[d],
             call'[c].pc # "prompt" \/ call'[c].control
      PROVE  Presented'
  BY <1>3 DEF Presented
<1>4. ASSUME NEW c \in Call, UnderReview(c),
             \A d \in Call \ {c} : call'[d] = call[d],
             call'[c].pc # "prompt" \/ call'[c].rule.approval # "FirstUse"
                \/ leases'[call'[c].key] = NoLease
      PROVE  Presented'
  BY <1>0, <1>4 DEF Presented, UnderReview
<1>5. ASSUME NEW c \in Call, Quiet(c) PROVE Presented'
  BY <1>3, <1>5, QuietFacts DEF Ended, Moved
<1>6. ASSUME NEW c \in Call, Acquire(c) PROVE Presented'
  BY <1>3, <1>6, AcquireFacts DEF Moved
<1>7. ASSUME NEW c \in Call, LeaseHit(c) PROVE Presented'
  BY <1>4, <1>7, LeaseHitFacts DEF Ended, Moved, UnderReview
<1>8. ASSUME NEW c \in Call, Present(c) PROVE Presented'
  BY <1>4, <1>8, PresentFacts DEF Ended, Moved, UnderReview
<1>9. ASSUME NEW c \in Call, NEW approver \in Approver \cup {Anonymous},
             Granted(c, approver)
      PROVE  Presented'
  <2>1. UnderReview(c)
    BY <1>9 DEF Granted, UnderReview
  <2> QED
    BY <1>4, <1>9, <2>1, GrantedFacts, RefusedFacts DEF Ended, Moved
<1>10. ASSUME NEW c \in Call, Dispatch(c) PROVE Presented'
  BY <1>3, <1>10, DispatchFacts DEF Ended, Moved
<1>11. ASSUME NEW c \in Call, Cancel(c) PROVE Presented'
  BY <1>3, <1>11, EndFacts DEF Cancel, Ended
<1>12. ASSUME NEW c \in Call, Control(c) PROVE Presented'
  <2>1. leases' = leases
    BY <1>12 DEF Control
  <2>2. CASE call' = call
    BY <2>1, <2>2 DEF Presented
  <2> QED
    BY <1>3, <1>12, <2>1, <2>2, ControlFacts
<1>13. ASSUME NEW c \in Call, NEW k \in Key, Evaluate(c, k) PROVE Presented'
  <2>1. leases' = leases
    BY <1>13 DEF Evaluate
  <2>2. call'[c].pc # "prompt" /\ \A d \in Call \ {c} : call'[d] = call[d]
    BY <1>13, EvaluateFacts
  <2> QED
    BY <1>3, <2>1, <2>2
<1> QED
  BY <1>1, <1>2, <1>5, <1>6, <1>7, <1>8, <1>9, <1>10, <1>11, <1>12, <1>13, Cases

(* A call at its dispatch rests on an approval of the policy it was decided by. *)
LEMMA BasedStep ==
    ASSUME Types, Decided, Leased, Based, [Next]_vars
    PROVE  Based'
<1> USE DEF SameGeneration
<1>0. Len(approvals) \in Nat /\ Len(<<>>) = 0
  BY DEF Types
<1>1. CASE UNCHANGED vars
  BY <1>1 DEF vars, Based, Covers
<1>2. CASE Restart
  BY <1>2, IdleType DEF Restart, Based
<1>3. ASSUME NEW rule \in Rule, SwapPolicy(rule) PROVE Based'
  <2>1. /\ policy.gen \in Nat /\ policy'.gen = policy.gen + 1
        /\ call' = call /\ approvals' = approvals
        /\ \A c \in Call : call[c].gen \in Nat
    BY <1>3 DEF SwapPolicy, Types, CallRecord
  <2>2. \A c \in Call : call[c].pc \in {"start", "dispatch"} => call[c].gen <= policy.gen
    BY DEF Decided
  <2>3. \A c \in Call : call[c].pc \in {"start", "dispatch"} => call[c].gen # policy'.gen
    BY <2>1, <2>2
  <2> QED
    BY <2>1, <2>3 DEF Based
<1>4. ASSUME NEW c \in Call, Kept,
             \A d \in Call \ {c} : call'[d] = call[d],
             call'[c].pc \in {"start", "dispatch"} =>
                /\ call'[c].basis \in 0 .. Len(approvals')
                /\ policy.gen = call'[c].gen /\ call'[c].rule.approval # "Never" =>
                      call'[c].basis # 0 /\ Covers(approvals'[call'[c].basis], call'[c].key)
      PROVE  Based'
  <2>1. Len(approvals') \in Nat /\ Len(approvals') >= Len(approvals) /\ policy' = policy
    BY <1>4 DEF Kept
  <2>2. ASSUME NEW d \in Call, d # c, call[d].pc \in {"start", "dispatch"}
        PROVE  /\ call[d].basis \in 0 .. Len(approvals')
               /\ policy.gen = call[d].gen /\ call[d].rule.approval # "Never" =>
                     call[d].basis # 0 /\ Covers(approvals'[call[d].basis], call[d].key)
    <3>1. call[d].basis \in 0 .. Len(approvals)
      BY <2>2 DEF Based
    <3>2. call[d].basis # 0 => call[d].basis \in 1 .. Len(approvals)
      BY <1>0, <3>1
    <3>3. call[d].basis \in 0 .. Len(approvals')
      BY <1>0, <2>1, <3>1
    <3> QED
      BY <1>4, <2>2, <3>2, <3>3 DEF Based, Kept, Covers
  <2> QED
    BY <1>4, <2>1, <2>2 DEF Based, Covers
<1>5. ASSUME NEW c \in Call, Quiet(c), Kept PROVE Based'
  <2>1. approvals' = approvals
    BY <1>5, QuietFacts
  <2>2. CASE call[c].pc = "start" /\ Moved(c, "dispatch", call[c].basis)
    BY <1>4, <1>5, <2>1, <2>2 DEF Moved, Based
  <2>3. CASE call[c].rule.approval = "Never" /\ Moved(c, "start", 0)
    BY <1>0, <1>4, <1>5, <2>1, <2>3 DEF Moved
  <2> QED
    BY <1>4, <1>5, <2>2, <2>3, QuietFacts DEF Moved, Ended
<1>6. ASSUME NEW c \in Call, LeaseHit(c), Kept PROVE Based'
  <2> DEFINE k == call[c].key
  <2>1. k \in Key /\ leases[k] # NoLease /\ approvals' = approvals
    BY <1>6, LeaseHitFacts DEF Types, CallRecord
  <2>2. CASE Ended(c)
    BY <1>4, <1>6, <2>2 DEF Ended
  <2>3. CASE Moved(c, "start", leases[k].id)
    <3>1. leases[k].id \in 1 .. Len(approvals) /\ Covers(approvals[leases[k].id], k)
      BY <2>1 DEF Leased
    <3>2. leases[k].id \in 0 .. Len(approvals) /\ leases[k].id # 0
      BY <1>0, <3>1
    <3> QED
      BY <1>4, <1>6, <2>1, <2>3, <3>1, <3>2 DEF Moved
  <2> QED
    BY <1>6, <2>2, <2>3, LeaseHitFacts
<1>7. ASSUME NEW c \in Call, NEW approver \in Approver \cup {Anonymous},
             Granted(c, approver), Kept
      PROVE  Based'
  <2>1. CASE approvals' = approvals
    BY <1>4, <1>7, <2>1, RefusedFacts DEF Ended
  <2>2. CASE approvals' # approvals
    <3> DEFINE id == Len(approvals) + 1
    <3>1. Moved(c, "start", id) /\ Len(approvals') = id
      BY <1>7, <2>2, GrantedFacts
    <3>2. Covers(approvals'[id], call[c].key)
      BY <1>7, <2>2, GrantedLease
    <3>3. id \in 0 .. id /\ id # 0
      BY <1>0
    <3> HIDE DEF id
    <3> QED
      BY <1>4, <1>7, <3>1, <3>2, <3>3 DEF Moved
  <2> QED
    BY <2>1, <2>2
<1>8. ASSUME NEW c \in Call, Kept,
             Acquire(c) \/ Present(c) \/ Dispatch(c) \/ Cancel(c)
      PROVE  Based'
  <2>1. call'[c].pc \notin {"start", "dispatch"} /\ \A d \in Call \ {c} : call'[d] = call[d]
    BY <1>8, AcquireFacts, PresentFacts, DispatchFacts, EndFacts DEF Moved, Ended, Cancel
  <2> QED
    BY <1>4, <1>8, <2>1
<1>9. ASSUME NEW c \in Call, Kept, Control(c) \/ \E k \in Key : Evaluate(c, k)
      PROVE  Based'
  <2>1. call[c].pc = "idle"
    BY <1>9 DEF Control, Evaluate
  <2>2. call'[c].pc \notin {"start", "dispatch"} /\ \A d \in Call \ {c} : call'[d] = call[d]
    BY <1>9, <2>1, ControlFacts, EvaluateFacts
  <2> QED
    BY <1>4, <1>9, <2>2
<1>10. CASE (Tick \/ \E s \in Sub : Withdraw(s))
  <2>1. UNCHANGED <<call, policy, approvals>>
    BY <1>10 DEF Tick, Withdraw
  <2> QED
    BY <2>1 DEF Based, Covers
<1>11. CASE Next /\ ~Restart /\ ~\E rule \in Rule : SwapPolicy(rule)
  <2>1. Kept
    BY <1>11, KeptFacts
  <2> QED
    BY <1>1, <1>5, <1>6, <1>7, <1>8, <1>9, <1>10, <1>11, <2>1, Cases
<1> QED
  BY <1>1, <1>2, <1>3, <1>11

-----------------------------------------------------------------------------
(* Counting the claims on an approval. *)

(* The claims on an approval can be counted. *)
LEMMA ClaimsCount ==
    ASSUME NEW i
    PROVE  IsFiniteSet(Claims(i)) /\ Cardinality(Claims(i)) \in Nat
BY CallAssumption, FS_Subset, FS_CardinalityType DEF Claims

(* The same in the next state. *)
LEMMA ClaimsCountNext ==
    ASSUME NEW i
    PROVE  IsFiniteSet(Claims(i)') /\ Cardinality(Claims(i)') \in Nat
BY CallAssumption, FS_Subset, FS_CardinalityType DEF Claims

(* The counters of an approval are numbers. *)
LEMMA ApprovalType ==
    ASSUME Types, NEW i \in 1 .. Len(approvals)
    PROVE  /\ approvals[i].used \in Nat
           /\ approvals[i].budget # None => approvals[i].budget \in Nat
<1>1. approvals[i] \in ApprovalRecord
  BY DEF Types
<1> QED
  BY <1>1 DEF ApprovalRecord

(* Nothing but a step to "start" adds a claim. *)
LEMMA ClaimsShrink ==
    ASSUME NEW i, NEW c \in Call,
           \A d \in Call \ {c} : call'[d] = call[d],
           call'[c].pc \in {"start", "dispatch"} /\ call'[c].basis = i =>
              call[c].pc \in {"start", "dispatch"} /\ call[c].basis = i
    PROVE  Cardinality(Claims(i)') <= Cardinality(Claims(i))
<1>1. Claims(i)' \subseteq Claims(i)
  BY DEF Claims
<1> QED
  BY <1>1, ClaimsCount, FS_Subset

(* A step to "start" adds one. *)
LEMMA ClaimsAdd ==
    ASSUME NEW i, NEW c \in Call, Moved(c, "start", i),
           call[c].pc \notin {"start", "dispatch"}
    PROVE  Cardinality(Claims(i)') = Cardinality(Claims(i)) + 1
<1>1. Claims(i)' = Claims(i) \cup {c} /\ c \notin Claims(i)
  BY DEF Claims, Moved
<1> QED
  BY <1>1, ClaimsCount, FS_AddElement

(* A dispatch takes one away. *)
LEMMA ClaimsRemove ==
    ASSUME NEW i, NEW c \in Call, Moved(c, "running", i),
           call[c].pc = "dispatch", call[c].basis = i
    PROVE  Cardinality(Claims(i)') = Cardinality(Claims(i)) - 1
<1>1. Claims(i)' = Claims(i) \ {c} /\ c \in Claims(i)
  BY DEF Claims, Moved
<1> QED
  BY <1>1, ClaimsCount, FS_RemoveElement

(* The budget holds when uses, claims and the lease's count keep their order. *)
LEMMA AllowancesKept ==
    ASSUME Types, Types', Allowances,
           Len(approvals') = Len(approvals),
           \A i \in 1 .. Len(approvals) :
              /\ approvals'[i].budget = approvals[i].budget
              /\ approvals'[i].used + Cardinality(Claims(i)')
                    <= approvals[i].used + Cardinality(Claims(i)),
           \A k \in Key : leases'[k] # NoLease =>
              /\ leases[k] # NoLease
              /\ leases'[k].id = leases[k].id
              /\ leases'[k].spent >= leases[k].spent
    PROVE  Allowances'
<1> SUFFICES ASSUME NEW i \in 1 .. Len(approvals), approvals[i].budget # None
             PROVE  /\ approvals'[i].used + Cardinality(Claims(i)') <= approvals[i].budget
                    /\ \A k \in Key : leases'[k] # NoLease /\ leases'[k].id = i =>
                          approvals'[i].used + Cardinality(Claims(i)') <= leases'[k].spent
  BY DEF Allowances, Claims
<1>1. approvals[i] \in ApprovalRecord /\ approvals'[i] \in ApprovalRecord
  BY DEF Types
<1>2. /\ approvals[i].used \in Nat /\ approvals[i].budget \in Nat
      /\ approvals'[i].used \in Nat
  BY <1>1 DEF ApprovalRecord
<1>6. \A k \in Key : leases[k].spent \in Nat /\ leases'[k].spent \in Nat
  BY DEF Types, LeaseRecord
<1>3. Cardinality(Claims(i)) \in Nat /\ Cardinality(Claims(i)') \in Nat
  BY ClaimsCount, ClaimsCountNext
<1>4. /\ approvals[i].used + Cardinality(Claims(i)) <= approvals[i].budget
      /\ \A k \in Key : leases[k] # NoLease /\ leases[k].id = i =>
            approvals[i].used + Cardinality(Claims(i)) <= leases[k].spent
  BY DEF Allowances
<1>5. approvals'[i].used + Cardinality(Claims(i)') <= approvals[i].used + Cardinality(Claims(i))
  OBVIOUS
<1>8. /\ approvals[i].used + Cardinality(Claims(i)) \in Nat
      /\ approvals'[i].used + Cardinality(Claims(i)') \in Nat
  BY <1>2, <1>3
<1>9. approvals'[i].used + Cardinality(Claims(i)') <= approvals[i].budget
  BY <1>2, <1>4, <1>5, <1>8
<1>10. ASSUME NEW k \in Key, leases'[k] # NoLease, leases'[k].id = i
       PROVE  approvals'[i].used + Cardinality(Claims(i)') <= leases'[k].spent
  <2>1. leases[k] # NoLease /\ leases[k].id = i /\ leases'[k].spent >= leases[k].spent
    BY <1>10
  <2>2. approvals[i].used + Cardinality(Claims(i)) <= leases[k].spent
    BY <1>4, <2>1
  <2> QED
    BY <1>5, <1>6, <1>8, <2>1, <2>2
<1> QED
  BY <1>9, <1>10

(* A hit counts its use on the lease before the call may dispatch. *)
LEMMA HitAllowances ==
    ASSUME Types, Types', Leased, Allowances, NEW c \in Call, LeaseHit(c)
    PROVE  Allowances'
<1> DEFINE k  == call[c].key
           id == leases[k].id
<1>0. /\ k \in Key /\ leases[k] # NoLease /\ approvals' = approvals
      /\ call[c].pc = "lookup"
      /\ leases' \in [Key -> LeaseRecord]
      /\ \A l \in Key \ {k} : leases'[l] = leases[l]
  BY LeaseHitFacts DEF Types, CallRecord
<1>1. id \in 1 .. Len(approvals) /\ leases[k].budget = approvals[id].budget
      /\ leases[k].budget <= MaxSpent /\ approvals[id].key = k
  BY <1>0 DEF Leased, Covers
<1>2. /\ leases'[k] = leases[k] \/ (leases'[k].id = id /\ leases'[k].spent >= leases[k].spent)
      /\ leases[k].spent \in Nat
  BY <1>0, LeaseHitFacts DEF Types, LeaseRecord
<1>3. CASE Ended(c)
  <2>1. \A i \in 1 .. Len(approvals) :
           Cardinality(Claims(i)') <= Cardinality(Claims(i))
    BY <1>3, ClaimsShrink DEF Ended
  <2>2. \A i \in 1 .. Len(approvals) : approvals[i].used \in Nat
    BY ApprovalType
  <2>3. \A i \in 1 .. Len(approvals) : approvals'[i].used + Cardinality(Claims(i)')
                                          <= approvals[i].used + Cardinality(Claims(i))
    BY <1>0, <2>1, <2>2, ClaimsCount, ClaimsCountNext
  <2>4. \A l \in Key : leases'[l] # NoLease =>
           leases[l] # NoLease /\ leases'[l].id = leases[l].id /\ leases'[l].spent >= leases[l].spent
    <3>1. \A l \in Key : leases[l].spent >= leases[l].spent
      BY DEF Types, LeaseRecord
    <3> QED
      BY <1>0, <1>2, <3>1
  <2> QED
    BY <1>0, <2>3, <2>4, AllowancesKept
<1>4. CASE ~Ended(c)
  <2>1. /\ Moved(c, "start", id) /\ ~Exhausted(leases[k])
        /\ leases'[k].id = id
        /\ leases[k].spent < MaxSpent => leases'[k].spent = leases[k].spent + 1
    BY <1>4, LeaseHitFacts
  <2> HIDE DEF id
  <2> SUFFICES ASSUME NEW i \in 1 .. Len(approvals), approvals[i].budget # None
               PROVE  /\ approvals[i].used + Cardinality(Claims(i)') <= approvals[i].budget
                      /\ \A l \in Key : leases'[l] # NoLease /\ leases'[l].id = i =>
                            approvals[i].used + Cardinality(Claims(i)') <= leases'[l].spent
    BY <1>0 DEF Allowances, Claims
  <2>2. /\ approvals[i].used + Cardinality(Claims(i)) <= approvals[i].budget
        /\ \A l \in Key : leases[l] # NoLease /\ leases[l].id = i =>
              approvals[i].used + Cardinality(Claims(i)) <= leases[l].spent
    BY DEF Allowances
  <2>3. approvals[i].used \in Nat /\ approvals[i].budget \in Nat
    BY ApprovalType
  <2>4. Cardinality(Claims(i)) \in Nat /\ Cardinality(Claims(i)') \in Nat
    BY ClaimsCount, ClaimsCountNext
  <2>5. CASE i = id
    <3>1. Cardinality(Claims(i)') = Cardinality(Claims(i)) + 1
      BY <1>0, <2>1, <2>5, ClaimsAdd
    <3>2. leases[k].spent < leases[k].budget /\ MaxSpent \in Nat
      BY <1>1, <1>2, <2>1, <2>3, <2>5, LimitAssumption DEF Exhausted
    <3>3. leases'[k].spent = leases[k].spent + 1 /\ leases[k].spent + 1 <= approvals[i].budget
      BY <1>1, <1>2, <2>1, <2>3, <2>5, <3>2
    <3>4. approvals[i].used + Cardinality(Claims(i)) <= leases[k].spent
      BY <1>0, <2>2, <2>5 DEF id
    <3>8. leases[k].spent \in Nat
      BY <1>2
    <3>5. approvals[i].used + Cardinality(Claims(i)') <= leases[k].spent + 1
      BY <2>3, <2>4, <3>1, <3>4, <3>8
    <3>6. approvals[i].used + Cardinality(Claims(i)') <= approvals[i].budget
      <4>1. PICK n \in Nat : n = approvals[i].used + Cardinality(Claims(i)')
        BY <2>3, <2>4
      <4>2. PICK m \in Nat : m = leases[k].spent
        BY <3>8
      <4>3. PICK b \in Nat : b = approvals[i].budget
        BY <2>3
      <4>4. n <= m + 1 /\ m + 1 <= b
        BY <3>3, <3>5, <4>1, <4>2, <4>3
      <4>5. n <= b
        BY <4>4
      <4> QED
        BY <4>1, <4>3, <4>5
    <3>7. \A l \in Key : leases'[l] # NoLease /\ leases'[l].id = i => l = k
      BY <1>0, <1>1, <2>5 DEF Leased, Covers
    <3> QED
      BY <3>3, <3>5, <3>6, <3>7
  <2>6. CASE i # id
    <3>1. Cardinality(Claims(i)') <= Cardinality(Claims(i))
      BY <1>0, <2>1, <2>6, ClaimsShrink DEF Moved
    <3>2. approvals[i].used + Cardinality(Claims(i)') <= approvals[i].used + Cardinality(Claims(i))
      BY <2>3, <2>4, <3>1
    <3>3. approvals[i].used + Cardinality(Claims(i)') <= approvals[i].budget
      BY <2>2, <2>3, <2>4, <3>2
    <3>4. ASSUME NEW l \in Key, leases'[l] # NoLease, leases'[l].id = i
          PROVE  approvals[i].used + Cardinality(Claims(i)') <= leases'[l].spent
      <4>1. leases'[l] = leases[l] /\ leases[l].spent \in Nat
        BY <1>0, <2>1, <2>6, <3>4 DEF Types, LeaseRecord
      <4> QED
        BY <2>2, <2>3, <2>4, <3>2, <3>4, <4>1
    <3> QED
      BY <3>3, <3>4
  <2> QED
    BY <2>5, <2>6
<1> QED
  BY <1>3, <1>4

(* A new approval has no claim but that of the call it was given to. *)
LEMMA GrantedAllowances ==
    ASSUME Types, Types', Decided, Leased, Based, Allowances, NEW c \in Call,
           NEW approver \in Approver \cup {Anonymous}, Granted(c, approver),
           approvals' # approvals
    PROVE  Allowances'
<1> DEFINE k == call[c].key
<1>7. Len(approvals) \in Nat /\ Len(approvals) + 1 \in Nat
  BY DEF Types
<1>8. k \in Key
  BY DEF Types, CallRecord
<1> PICK id \in Nat : id = Len(approvals) + 1
  BY <1>7
<1>0. Len(approvals) \in Nat /\ id = Len(approvals) + 1 /\ k \in Key
  BY <1>7, <1>8
<1>1. /\ Moved(c, "start", id) /\ Len(approvals') = id
      /\ \A i \in 1 .. Len(approvals) : approvals'[i] = approvals[i]
      /\ approvals'[id].used = 0
  BY GrantedFacts
<1>2. /\ approvals'[id].budget # None => approvals'[id].budget >= 1
      /\ leases' # leases => /\ \A l \in Key \ {k} : leases'[l] = leases[l]
                             /\ leases'[k].id = id /\ leases'[k].spent = 1
  BY GrantedLease
<1>3. call[c].pc = "prompt"
  BY DEF Granted
<1>4. \A l \in Key : leases[l] # NoLease => leases[l].id \in 1 .. Len(approvals)
  BY DEF Leased
<1>5. ASSUME NEW i \in 1 .. Len(approvals), approvals[i].budget # None
      PROVE  /\ approvals[i].used + Cardinality(Claims(i)') <= approvals[i].budget
             /\ \A l \in Key : leases'[l] # NoLease /\ leases'[l].id = i =>
                   approvals[i].used + Cardinality(Claims(i)') <= leases'[l].spent
  <2>1. i # id
    BY <1>0
  <2>2. Cardinality(Claims(i)') <= Cardinality(Claims(i))
    BY <1>1, <1>3, <2>1, ClaimsShrink DEF Moved
  <2>3. approvals[i].used \in Nat /\ approvals[i].budget \in Nat
    BY <1>5, ApprovalType
  <2>4. Cardinality(Claims(i)) \in Nat /\ Cardinality(Claims(i)') \in Nat
    BY ClaimsCount, ClaimsCountNext
  <2>5. /\ approvals[i].used + Cardinality(Claims(i)) <= approvals[i].budget
        /\ \A l \in Key : leases[l] # NoLease /\ leases[l].id = i =>
              approvals[i].used + Cardinality(Claims(i)) <= leases[l].spent
    BY <1>5 DEF Allowances
  <2>6. approvals[i].used + Cardinality(Claims(i)') <= approvals[i].budget
    BY <2>2, <2>3, <2>4, <2>5
  <2>7. ASSUME NEW l \in Key, leases'[l] # NoLease, leases'[l].id = i
        PROVE  approvals[i].used + Cardinality(Claims(i)') <= leases'[l].spent
    <3>1. leases'[l] = leases[l] /\ leases[l].spent \in Nat
      BY <1>2, <2>1, <2>7 DEF Types, LeaseRecord
    <3> QED
      BY <2>2, <2>3, <2>4, <2>5, <2>7, <3>1
  <2> QED
    BY <2>6, <2>7
<1>6. ASSUME approvals'[id].budget # None
      PROVE  /\ Cardinality(Claims(id)') <= approvals'[id].budget
             /\ \A l \in Key : leases'[l] # NoLease /\ leases'[l].id = id =>
                   Cardinality(Claims(id)') <= leases'[l].spent
  <2>1. Claims(id) = {}
    BY <1>0 DEF Based, Claims
  <2>2. Claims(id)' = {c}
    BY <1>1, <2>1 DEF Moved, Claims
  <2>3. Cardinality(Claims(id)') = 1
    BY <2>2, FS_Singleton
  <2>4. \A l \in Key : leases'[l] # NoLease /\ leases'[l].id = id => leases'[l].spent = 1
    BY <1>0, <1>2, <1>4
  <2>5. approvals'[id].budget >= 1
    BY <1>2, <1>6
  <2>6. approvals'[id].budget \in Nat
    <3>1. id \in 1 .. Len(approvals')
      BY <1>0, <1>1
    <3>2. approvals'[id] \in ApprovalRecord
      BY <3>1 DEF Types
    <3> QED
      BY <1>6, <3>2 DEF ApprovalRecord
  <2> QED
    BY <2>3, <2>4, <2>5, <2>6
<1> SUFFICES ASSUME NEW i \in 1 .. Len(approvals'), approvals'[i].budget # None
             PROVE  /\ approvals'[i].used + Cardinality(Claims(i)') <= approvals'[i].budget
                    /\ \A l \in Key : leases'[l] # NoLease /\ leases'[l].id = i =>
                          approvals'[i].used + Cardinality(Claims(i)') <= leases'[l].spent
  BY DEF Allowances, Claims
<1>9. CASE i = id
  <2>1. 0 + Cardinality(Claims(id)') = Cardinality(Claims(id)')
    BY ClaimsCountNext
  <2> QED
    BY <1>1, <1>6, <1>9, <2>1
<1>10. CASE i # id
  <2>1. i \in 1 .. Len(approvals) /\ approvals'[i] = approvals[i]
    BY <1>0, <1>1, <1>10
  <2> QED
    BY <1>5, <2>1
<1> QED
  BY <1>9, <1>10

(* No step takes uses and claims over a budget. *)
LEMMA AllowancesStep ==
    ASSUME Types, Types', Decided, Leased, Based, Allowances, [Next]_vars
    PROVE  Allowances'
<1>0. \A i \in 1 .. Len(approvals) : approvals[i].used \in Nat
  BY ApprovalType
<1>00. \A k \in Key : leases[k].spent \in Nat /\ leases[k].spent >= leases[k].spent
  BY DEF Types, LeaseRecord
<1>1. CASE Restart
  BY <1>1 DEF Restart, Allowances
<1>2. ASSUME NEW c \in Call, \A d \in Call \ {c} : call'[d] = call[d],
             call'[c].pc \in {"start", "dispatch"} =>
                \/ call'[c].basis = 0
                \/ call[c].pc = "start" /\ call'[c].basis = call[c].basis,
             approvals' = approvals,
             \A k \in Key : leases'[k] = leases[k] \/ leases'[k] = NoLease
      PROVE  Allowances'
  <2>1. ASSUME NEW i \in 1 .. Len(approvals)
        PROVE  approvals'[i].used + Cardinality(Claims(i)')
                  <= approvals[i].used + Cardinality(Claims(i))
    <3>1. i # 0
      OBVIOUS
    <3>2. Cardinality(Claims(i)') <= Cardinality(Claims(i))
      BY <1>2, <3>1, ClaimsShrink
    <3> QED
      BY <1>0, <1>2, <3>2, ClaimsCount, ClaimsCountNext
  <2> QED
    BY <1>00, <1>2, <2>1, AllowancesKept
<1>3. ASSUME call' = call, approvals' = approvals,
             \A k \in Key : leases'[k] \in {leases[k], NoLease}
      PROVE  Allowances'
  <2>1. ASSUME NEW i \in 1 .. Len(approvals)
        PROVE  approvals'[i].used + Cardinality(Claims(i)')
                  <= approvals[i].used + Cardinality(Claims(i))
    <3>1. Claims(i)' = Claims(i)
      BY <1>3 DEF Claims
    <3> QED
      BY <1>0, <1>3, <3>1, ClaimsCount
  <2> QED
    BY <1>00, <1>3, <2>1, AllowancesKept
<1>4. CASE UNCHANGED vars \/ Tick \/ \E s \in Sub : Withdraw(s)
  <2>1. UNCHANGED <<call, approvals, leases>>
    BY <1>4 DEF vars, Tick, Withdraw
  <2> QED
    BY <1>3, <2>1
<1>5. ASSUME NEW rule \in Rule, SwapPolicy(rule) PROVE Allowances'
  BY <1>3, <1>5 DEF SwapPolicy
<1>14. ASSUME NEW c \in Call, Ended(c), approvals' = approvals,
              \A k \in Key : leases'[k] = leases[k] \/ leases'[k] = NoLease
       PROVE  Allowances'
  <2>1. call'[c].pc = "idle" /\ \A d \in Call \ {c} : call'[d] = call[d]
    BY <1>14 DEF Ended
  <2> QED
    BY <1>2, <1>14, <2>1
<1>15. ASSUME NEW c \in Call, NEW pc, NEW basis, Moved(c, pc, basis), approvals' = approvals,
              \/ pc \notin {"start", "dispatch"}
              \/ basis = 0
              \/ call[c].pc = "start" /\ basis = call[c].basis,
              \A k \in Key : leases'[k] = leases[k] \/ leases'[k] = NoLease
       PROVE  Allowances'
  <2>1. /\ call'[c].pc = pc /\ call'[c].basis = basis
        /\ \A d \in Call \ {c} : call'[d] = call[d]
    BY <1>15 DEF Moved
  <2> QED
    BY <1>2, <1>15, <2>1
<1>6. ASSUME NEW c \in Call, Quiet(c) PROVE Allowances'
  <2>1. leases' = leases /\ approvals' = approvals
    BY <1>6, QuietFacts
  <2> QED
    BY <1>6, <1>14, <1>15, <2>1, QuietFacts
<1>7. ASSUME NEW c \in Call, Acquire(c) PROVE Allowances'
  BY <1>7, <1>15, AcquireFacts
<1>8. ASSUME NEW c \in Call, Present(c) PROVE Allowances'
  <2>1. approvals' = approvals /\ \A k \in Key : leases'[k] = leases[k] \/ leases'[k] = NoLease
    BY <1>8, PresentFacts
  <2> QED
    BY <1>8, <1>14, <1>15, <2>1, PresentFacts
<1>9. ASSUME NEW c \in Call, NEW approver \in Approver \cup {Anonymous},
             Granted(c, approver)
      PROVE  Allowances'
  <2>1. CASE approvals' = approvals
    BY <1>9, <1>14, <2>1, RefusedFacts
  <2> QED
    BY <1>9, <2>1, GrantedAllowances
<1>10. ASSUME NEW c \in Call, Dispatch(c) PROVE Allowances'
  <2>1. CASE Ended(c) /\ approvals' = approvals
    BY <1>10, <1>14, <2>1, DispatchFacts
  <2>2. CASE Moved(c, "running", call[c].basis) /\ Count(call[c].basis)
    <3>0. call[c].basis \in Nat
      BY DEF Types, CallRecord
    <3>1. /\ Len(approvals') = Len(approvals)
          /\ \A i \in 1 .. Len(approvals) :
                /\ approvals'[i].budget = approvals[i].budget
                /\ approvals'[i].used <= approvals[i].used + IF i = call[c].basis THEN 1 ELSE 0
      BY <2>2, <3>0, CountFacts
    <3>2. call[c].pc = "dispatch" /\ leases' = leases
      BY <1>10, DispatchFacts
    <3>3. ASSUME NEW i \in 1 .. Len(approvals)
          PROVE  approvals'[i].used + Cardinality(Claims(i)')
                    <= approvals[i].used + Cardinality(Claims(i))
      <4>1. approvals'[i].used \in Nat
        <5>1. i \in 1 .. Len(approvals')
          BY <3>1
        <5>2. approvals'[i] \in ApprovalRecord
          BY <5>1 DEF Types
        <5> QED
          BY <5>2 DEF ApprovalRecord
      <4>2. CASE i = call[c].basis
        <5>1. Cardinality(Claims(i)') = Cardinality(Claims(i)) - 1
          BY <2>2, <3>2, <4>2, ClaimsRemove
        <5>2. approvals'[i].used <= approvals[i].used + 1
          BY <3>1, <4>2
        <5> QED
          BY <1>0, <4>1, <5>1, <5>2, ClaimsCount, ClaimsCountNext
      <4>3. CASE i # call[c].basis
        <5>1. Cardinality(Claims(i)') <= Cardinality(Claims(i))
          BY <2>2, ClaimsShrink DEF Moved
        <5>2. approvals'[i].used <= approvals[i].used + 0
          BY <3>1, <4>3
        <5> QED
          BY <1>0, <4>1, <5>1, <5>2, ClaimsCount, ClaimsCountNext
      <4> QED
        BY <4>2, <4>3
    <3> QED
      BY <1>00, <3>1, <3>2, <3>3, AllowancesKept
  <2> QED
    BY <1>10, <2>1, <2>2, DispatchFacts
<1>11. ASSUME NEW c \in Call, Cancel(c) PROVE Allowances'
  BY <1>11, <1>14, EndFacts DEF Cancel
<1>12. ASSUME NEW c \in Call, Control(c) PROVE Allowances'
  <2>1. UNCHANGED <<leases, approvals>>
    BY <1>12 DEF Control
  <2>2. CASE call' = call
    BY <1>3, <2>1, <2>2
  <2>3. CASE call'[c].pc = "queue" /\ \A d \in Call \ {c} : call'[d] = call[d]
    BY <1>2, <2>1, <2>3
  <2> QED
    BY <1>12, <2>2, <2>3, ControlFacts
<1>13. ASSUME NEW c \in Call, NEW k \in Key, Evaluate(c, k) PROVE Allowances'
  <2>1. UNCHANGED <<leases, approvals>>
    BY <1>13 DEF Evaluate
  <2>2. call'[c].pc \notin {"start", "dispatch"} /\ \A d \in Call \ {c} : call'[d] = call[d]
    BY <1>13, EvaluateFacts
  <2> QED
    BY <1>2, <2>1, <2>2
<1> QED
  BY <1>1, <1>4, <1>5, <1>6, <1>7, <1>8, <1>9, <1>10, <1>11, <1>12, <1>13,
     HitAllowances, Cases

(* Every step keeps the invariant. *)
LEMMA NextInvariant == IInv /\ [Next]_vars => IInv'
<1> SUFFICES ASSUME IInv, [Next]_vars PROVE IInv'
  OBVIOUS
<1>1. Types /\ Permits /\ Queued /\ Decided /\ Leased /\ Presented /\ Based /\ Allowances
  BY DEF IInv
<1>2. Types'
  BY <1>1, TypesStep
<1> QED
  BY <1>1, <1>2, PermitsStep, QueuedStep, DecidedStep, LeasedStep, PresentedStep,
     BasedStep, AllowancesStep DEF IInv

-----------------------------------------------------------------------------
(* The theorems. *)

(* One human, one prompt (the approval semaphore of handle_approval): at    *)
(* most one review is on screen, and the permit is never left with a call   *)
(* that is no longer in its review.                                         *)
THEOREM OnePrompt == Spec => []PermitSound
<1>1. IInv => PermitSound
  <2> SUFFICES ASSUME IInv PROVE PermitSound
    OBVIOUS
  <2> DEFINE P == {c \in Call : call[c].pc = "prompt"}
  <2>1. \A c \in P : permit = c
    BY DEF IInv, Permits, UnderReview
  <2>2. P = {} \/ P = {permit}
    BY <2>1
  <2> HIDE DEF P
  <2>3. Cardinality(P) <= 1
    <3>1. CASE P = {}
      BY <3>1, FS_EmptySet
    <3>2. CASE P = {permit}
      <4>1. Cardinality({permit}) = 1
        BY FS_Singleton
      <4> QED
        BY <3>2, <4>1
    <3> QED
      BY <2>2, <3>1, <3>2
  <2> QED
    BY <2>3 DEF PermitSound, IInv, Permits, P
<1> QED
  BY <1>1, InitInvariant, NextInvariant, PTL DEF Spec

(* An approval buys at most its budget of dispatches (take and grant of the *)
(* LeaseCache): concurrent first uses, cancelled calls, expiry and policy   *)
(* changes never stretch it.                                                *)
THEOREM AllowancesBounded == Spec => []AllowanceBounded
<1>1. IInv => AllowanceBounded
  <2> SUFFICES ASSUME IInv, NEW i \in DOMAIN approvals, approvals[i].budget # None
               PROVE  approvals[i].used <= approvals[i].budget
    BY DEF AllowanceBounded
  <2>1. i \in 1 .. Len(approvals)
    BY DEF IInv, Types
  <2>2. approvals[i].used \in Nat /\ approvals[i].budget \in Nat
    BY <2>1, ApprovalType DEF IInv
  <2>3. approvals[i].used + Cardinality(Claims(i)) <= approvals[i].budget
    BY <2>1 DEF IInv, Allowances
  <2> QED
    BY <2>2, <2>3, ClaimsCount
<1> QED
  BY <1>1, InitInvariant, NextInvariant, PTL DEF Spec

(* A live lease is never replaced (handle_approval looks up and grants       *)
(* under one permit): a second concurrent first use cannot reset the budget *)
(* or prolong the time of the first.                                        *)
THEOREM LeasesNeverReset == Spec => LeaseNeverReset
<1>1. IInv /\ [Next]_vars =>
        [\A k \in Key :
            leases[k] # NoLease /\ leases'[k].id # leases[k].id
            => ~Live(leases[k]) \/ policy' # policy \/ approvals' = <<>>]_vars
  <2> SUFFICES ASSUME IInv, [Next]_vars, NEW k \in Key,
                      leases[k] # NoLease, leases'[k].id # leases[k].id,
                      policy' = policy, approvals' # <<>>
               PROVE  ~Live(leases[k])
    BY DEF vars
  <2>1. Types /\ Presented /\ leases' # leases
    BY DEF IInv
  <2>2. ~Restart /\ ~\E rule \in Rule : SwapPolicy(rule)
    <3>1. policy.gen \in Nat
      BY <2>1 DEF Types
    <3> QED
      BY <3>1 DEF Restart, SwapPolicy
  <2>3. ASSUME NEW c \in Call, LeaseHit(c) PROVE FALSE
    BY <2>1, <2>3, LeaseHitFacts
  <2>4. ASSUME NEW c \in Call, Present(c) PROVE ~Live(leases[k])
    BY <2>1, <2>4, PresentFacts
  <2>5. ASSUME NEW c \in Call, NEW approver \in Approver \cup {Anonymous},
               Granted(c, approver)
        PROVE  FALSE
    <3>1. approvals' # approvals
      BY <2>1, <2>5, RefusedFacts
    <3>2. call[c].rule.approval = "FirstUse" /\ k = call[c].key
      BY <2>1, <2>5, <3>1, GrantedFacts DEF Types
    <3>3. call[c].pc = "prompt" /\ ~call[c].control
      BY <2>5 DEF Granted
    <3> QED
      BY <2>1, <3>2, <3>3 DEF Presented
  <2>6. CASE \E c \in Call : Quiet(c) \/ Dispatch(c) \/ Acquire(c) \/ Cancel(c) \/ Control(c)
                             \/ \E l \in Key : Evaluate(c, l)
    BY <2>1, <2>6, QuietFacts, DispatchFacts, AcquireFacts DEF Cancel, Control, Evaluate
  <2>7. CASE UNCHANGED vars \/ Tick \/ \E s \in Sub : Withdraw(s)
    BY <2>1, <2>7 DEF vars, Tick, Withdraw
  <2> QED
    BY <2>2, <2>3, <2>4, <2>5, <2>6, <2>7, Cases
<1> QED
  BY <1>1, InitInvariant, NextInvariant, PTL DEF Spec, LeaseNeverReset

(* Authority is whole at the dispatch boundary (execute): the policy in     *)
(* force allows the operation, the requester verifies, and a review that    *)
(* policy or the operation's floor asks for was given under this very       *)
(* generation, for this key, by someone else where it must be.              *)
THEOREM DispatchesCovered == Spec => DispatchCovered
<1>1. IInv /\ [Next]_vars =>
        [\A c \in Call :
          call[c].pc = "dispatch" /\ call'[c].pc = "running" =>
             LET k == call[c].key
                 d == Decision(k)
                 a == approvals[call[c].basis]
             IN  /\ d.allowed
                 /\ guarded => k.sub \in authorized \cup {NoSub}
                 /\ d.approval # "Never" =>
                       /\ call[c].basis # 0
                       /\ a.key = k
                       /\ a.gen = policy.gen
                       /\ d.distinct => a.approver \notin {k.sub, Anonymous}]_vars
  <2> SUFFICES ASSUME IInv, [Next]_vars, NEW c \in Call,
                      call[c].pc = "dispatch", call'[c].pc = "running"
               PROVE  LET k == call[c].key
                          d == Decision(k)
                          a == approvals[call[c].basis]
                      IN  /\ d.allowed
                          /\ guarded => k.sub \in authorized \cup {NoSub}
                          /\ d.approval # "Never" =>
                                /\ call[c].basis # 0
                                /\ a.key = k
                                /\ a.gen = policy.gen
                                /\ d.distinct => a.approver \notin {k.sub, Anonymous}
    BY DEF vars
  <2>0. Types /\ Queued /\ Decided /\ Based
    BY DEF IInv
  <2>1. Dispatch(c)
    <3> SUFFICES ASSUME ~Dispatch(c) PROVE FALSE
      OBVIOUS
    <3>1. CASE UNCHANGED vars \/ Tick \/ (\E rule \in Rule : SwapPolicy(rule))
               \/ (\E s \in Sub : Withdraw(s))
      BY <3>1 DEF vars, Tick, SwapPolicy, Withdraw
    <3>2. CASE Restart
      BY <3>2, IdleType DEF Restart
    <3>3. ASSUME NEW e \in Call,
                 Quiet(e) \/ Acquire(e) \/ LeaseHit(e) \/ Present(e) \/ Dispatch(e) \/ Cancel(e)
                 \/ \E approver \in Approver \cup {Anonymous} : Granted(e, approver)
          PROVE  FALSE
      <4>1. CASE e # c
        <5>1. CASE Quiet(e)
          BY <2>0, <4>1, <5>1, QuietFacts DEF Moved, Ended
        <5>4. CASE Acquire(e) \/ Cancel(e)
          BY <2>0, <4>1, <5>4, AcquireFacts, EndFacts DEF Moved, Ended, Cancel
        <5>5. CASE LeaseHit(e)
          BY <2>0, <4>1, <5>5, LeaseHitFacts DEF Moved, Ended
        <5>6. CASE Present(e)
          BY <2>0, <4>1, <5>6, PresentFacts DEF Moved, Ended
        <5>2. CASE Dispatch(e)
          BY <2>0, <4>1, <5>2, DispatchFacts DEF Moved, Ended
        <5>3. CASE \E approver \in Approver \cup {Anonymous} : Granted(e, approver)
          BY <2>0, <4>1, <5>3, GrantedFacts, RefusedFacts DEF Moved, Ended
        <5> QED
          BY <3>3, <5>1, <5>2, <5>3, <5>4, <5>5, <5>6
      <4>2. CASE e = c
        BY <2>0, <3>3, <4>2, QuietFacts, AcquireFacts, LeaseHitFacts, PresentFacts, EndFacts,
           GrantedFacts, RefusedFacts DEF Moved, Ended, Cancel
      <4> QED
        BY <4>1, <4>2
    <3>4. ASSUME NEW e \in Call, Control(e) \/ \E k \in Key : Evaluate(e, k)
          PROVE  FALSE
      <4>1. call[e].pc = "idle"
        BY <3>4 DEF Control, Evaluate
      <4> QED
        BY <2>0, <3>4, <4>1, ControlFacts, EvaluateFacts
    <3> QED
      BY <3>1, <3>2, <3>3, <3>4, Cases
  <2>2. SameGeneration(c) /\ (guarded => call[c].key.sub \in authorized \cup {NoSub})
    BY <2>0, <2>1, DispatchFacts DEF Ended
  <2>3. call[c].rule = Decision(call[c].key) /\ policy.rule.allowed
    BY <2>0, <2>2 DEF Decided
  <2>4. call[c].key \in Key
    BY <2>0 DEF Types, CallRecord
  <2>5. /\ Decision(call[c].key).allowed = policy.rule.allowed
        /\ Decision(call[c].key).distinct = policy.rule.distinct
    BY <2>0, <2>4, DecisionType
  <2>6. call[c].rule.approval # "Never" =>
           call[c].basis # 0 /\ Covers(approvals[call[c].basis], call[c].key)
    BY <2>0, <2>2 DEF Based
  <2> QED
    BY <2>2, <2>3, <2>5, <2>6 DEF Covers
<1> QED
  BY <1>1, InitInvariant, NextInvariant, PTL DEF Spec, DispatchCovered
=============================================================================
