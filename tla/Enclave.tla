------------------------------- MODULE Enclave -------------------------------
(***************************************************************************)
(* The generic enforcement funnel (crates/opaqued/src/enclave.rs): policy  *)
(* evaluation, the serialized human review, first-use approval leases, the *)
(* audit barrier and the dispatch admission of Enclave::execute, and the   *)
(* control approvals of request_control_approval, which share its permit   *)
(* and its rate limiter.                                                   *)
(*                                                                         *)
(* A call is an async function; a step here ends where another thread or   *)
(* task may interfere.  All state is in memory: a restart loses it.        *)
(* Every call comes from one process, so rate limits are kept by operation.*)
(***************************************************************************)
EXTENDS Integers, Sequences, FiniteSets

CONSTANTS
    Call,           \* concurrent calls
    Controls,       \* those of them that may ask for a control approval
    NoCall,
    Key,            \* lease keys [op, sub]: operation with target and
                    \* parameters, and the delegation it runs under
    NoSub,          \* an undelegated request
    Approver,       \* identities a factor can establish
    Anonymous,      \* an approval that establishes nobody
    Rule,           \* decisions the policy may take: allowed, approval,
                    \* ttl, one_time, budget, distinct
    Floor,          \* default_approval of each operation
    Guarded,        \* whether a task_authority_guard is configured
    MaxTtl,         \* MAX_LEASE_TTL
    RateMax,        \* prompts per window, 3 in the code
    Window,         \* length of the window
    MaxSpent,       \* where the u32 counter of uses saturates
    MaxTime,        \* bound on the clock
    MaxGen,         \* bound on policy replacements
    MaxApprovals    \* bound on approvals between restarts

None == -1
Op == {k.op : k \in Key}
Sub == {k.sub : k \in Key} \ {NoSub}
Requirement == {"Never", "FirstUse", "Always"}

ASSUME RuleAssumption ==
    Rule \subseteq [allowed : BOOLEAN, approval : Requirement, ttl : Nat,
                    one_time : BOOLEAN, budget : (Nat \ {0}) \cup {None},
                    distinct : BOOLEAN]
ASSUME FloorAssumption == Floor \in [Op -> Requirement]
ASSUME LimitAssumption == {MaxTtl, RateMax, Window, MaxTime, MaxGen,
                           MaxApprovals} \subseteq Nat /\ MaxSpent \in Nat \ {0}
(* A budget is a u32, like the counter it is compared with. *)
ASSUME BudgetAssumption == \A rule \in Rule : rule.budget <= MaxSpent
ASSUME CallAssumption == IsFiniteSet(Call) /\ NoCall \notin Call
ASSUME KeyAssumption == Key # {}

VARIABLES
    policy,     \* the engine's rule and policy_generation
    leases,     \* LeaseCache
    window,     \* ApprovalRateLimiter: times of recent prompts, by operation
    permit,     \* the holder of approval_semaphore
    waiting,    \* its queue, first come first served
    call,       \* the local state of each call
    guarded,    \* a task_authority_guard is configured
    authorized, \* the delegations that verify
    clock,      \* monotonic
    approvals   \* history: approvals given, with the dispatches they covered

vars == <<policy, leases, window, permit, waiting, call, guarded, authorized,
          clock, approvals>>

-----------------------------------------------------------------------------
(* Data. *)

NoLease == [id |-> 0, at |-> 0, ttl |-> 0, budget |-> None, spent |-> 0]

Deny == [allowed |-> FALSE, approval |-> "Never", ttl |-> 0, one_time |-> FALSE,
         budget |-> None, distinct |-> FALSE]

Idle == [pc |-> "idle", control |-> FALSE, key |-> CHOOSE k \in Key : TRUE,
         rule |-> Deny, gen |-> 0, basis |-> 0]

Rank(r) == CASE r = "Always" -> 2 [] r = "FirstUse" -> 1 [] OTHER -> 0

(* stricter_requirement: a rule may raise the floor, never lower it. *)
Stricter(a, b) == IF Rank(a) >= Rank(b) THEN a ELSE b

Decision(k) ==
    [policy.rule EXCEPT !.approval = Stricter(Floor[k.op], @)]

(* A lease that has not run out of time. *)
Live(lease) == lease # NoLease /\ clock - lease.at < lease.ttl

Exhausted(lease) == lease.budget # None /\ lease.spent >= lease.budget

(* require_distinct_approver without a review, or without a principal. *)
Misconfigured(c) ==
    call[c].rule.distinct /\ (call[c].rule.approval = "Never"
                              \/ call[c].key.sub = NoSub)

Recent(o) == SelectSeq(window[o], LAMBDA t : clock - t < Window)

UnderLimit(o) == Len(Recent(o)) < RateMax

(* check_and_record: old entries go, the prompt is recorded if allowed. *)
CheckAndRecord(o) ==
    window' = [window EXCEPT ![o] = IF UnderLimit(o) THEN Append(Recent(o), clock)
                                    ELSE Recent(o)]

SameGeneration(c) == policy.gen = call[c].gen

-----------------------------------------------------------------------------
(* A call that gives up leaves the queue of the semaphore, the others in order. *)
Without(queue, c) ==
    LET i == CHOOSE i \in DOMAIN queue : queue[i] = c
    IN  IF \E j \in DOMAIN queue : queue[j] = c
        THEN [j \in 1 .. Len(queue) - 1 |-> IF j < i THEN queue[j] ELSE queue[j + 1]]
        ELSE queue

(* Leaving the review section drops the permit, leaving the call all of it. *)

Release(c) == permit' = IF permit = c THEN NoCall ELSE permit

Goto(c, pc) == call' = [call EXCEPT ![c].pc = pc]

End(c) == call' = [call EXCEPT ![c] = Idle] /\ Release(c)

(* The review is over, or was not needed: OperationStarted is emitted. *)
Start(c, basis) ==
    /\ call' = [call EXCEPT ![c].pc = "start", ![c].basis = basis]
    /\ Release(c)

envVars == <<guarded, authorized, clock>>

(* execute up to the semaphore: decision and generation under one lock. *)
Evaluate(c, k) ==
    LET d == Decision(k)
    IN  /\ call[c].pc = "idle"
        /\ d.allowed
        /\ call' = [call EXCEPT ![c] =
                      [Idle EXCEPT !.pc = IF d.approval = "Never" THEN "admit" ELSE "queue",
                                   !.key = k, !.rule = d, !.gen = policy.gen]]
        /\ waiting' = IF d.approval = "Never" THEN waiting ELSE Append(waiting, c)
        /\ UNCHANGED <<policy, leases, window, permit, envVars, approvals>>

(* A control approval is rate limited before it queues. *)
Control(c) ==
    /\ c \in Controls
    /\ call[c].pc = "idle"
    /\ CheckAndRecord("control")
    /\ IF UnderLimit("control")
       THEN /\ call' = [call EXCEPT ![c] = [Idle EXCEPT !.pc = "queue", !.control = TRUE]]
            /\ waiting' = Append(waiting, c)
       ELSE UNCHANGED <<call, waiting>>
    /\ UNCHANGED <<policy, leases, permit, envVars, approvals>>

(* Mutant: whoever asked last is served first. *)
AcquireLast(c) ==
    /\ waiting # <<>> /\ waiting[Len(waiting)] = c
    /\ permit = NoCall
    /\ permit' = c
    /\ waiting' = SelectSeq(waiting, LAMBDA d : d # c)
    /\ Goto(c, IF call[c].control THEN "prompt" ELSE "admit")
    /\ UNCHANGED <<policy, leases, window, envVars, approvals>>

(* Mutant: two prompts at a time. *)
AcquireShared(c) ==
    /\ waiting # <<>> /\ Head(waiting) = c
    /\ permit' = c
    /\ waiting' = Tail(waiting)
    /\ Goto(c, IF call[c].control THEN "prompt" ELSE "admit")
    /\ UNCHANGED <<policy, leases, window, envVars, approvals>>

(* The semaphore serves its queue in order. *)
Acquire(c) ==
    /\ waiting # <<>> /\ Head(waiting) = c
    /\ permit = NoCall
    /\ permit' = c
    /\ waiting' = Tail(waiting)
    /\ Goto(c, IF call[c].control THEN "prompt" ELSE "admit")
    /\ UNCHANGED <<policy, leases, window, envVars, approvals>>

(* A policy replaced while the call queued ends it. *)
Admit(c) ==
    /\ call[c].pc = "admit"
    /\ IF SameGeneration(c) THEN Goto(c, "lookup") /\ UNCHANGED permit ELSE End(c)
    /\ UNCHANGED <<policy, leases, window, waiting, envVars, approvals>>

(* ApprovalRequirement::Never. *)
Unreviewed(c) ==
    /\ call[c].pc = "lookup"
    /\ call[c].rule.approval = "Never"
    /\ IF Misconfigured(c) THEN End(c) ELSE Start(c, 0)
    /\ UNCHANGED <<policy, leases, window, waiting, envVars, approvals>>

(* Mutant: an exhausted lease still admits. *)
LeaseHitUnbounded(c) ==
    LET lease == leases[call[c].key]
    IN  /\ call[c].pc = "lookup"
        /\ call[c].rule.approval = "FirstUse"
        /\ Live(lease)
        /\ Start(c, lease.id)
        /\ UNCHANGED <<policy, leases, window, waiting, envVars, approvals>>

(* LeaseUse::Used, and LeaseUse::Exhausted, which asks nobody. *)
LeaseHit(c) ==
    LET k     == call[c].key
        lease == leases[k]
    IN  /\ call[c].pc = "lookup"
        /\ call[c].rule.approval = "FirstUse"
        /\ Live(lease)
        /\ IF Exhausted(lease)
           THEN End(c) /\ UNCHANGED leases
           ELSE /\ leases' = [leases EXCEPT ![k].spent =
                                 IF @ < MaxSpent THEN @ + 1 ELSE @]
                /\ IF Misconfigured(c) THEN End(c) ELSE Start(c, lease.id)
        /\ UNCHANGED <<policy, window, waiting, envVars, approvals>>

(* A review is needed: an expired lease is removed, the prompt is counted. *)
Present(c) ==
    LET k == call[c].key
        first == call[c].rule.approval = "FirstUse"
    IN  /\ call[c].pc = "lookup"
        /\ call[c].rule.approval = "Always" \/ (first /\ ~Live(leases[k]))
        /\ leases' = IF first THEN [leases EXCEPT ![k] = NoLease] ELSE leases
        /\ IF Misconfigured(c)
           THEN End(c) /\ UNCHANGED window
           ELSE /\ CheckAndRecord(k.op)
                /\ IF UnderLimit(k.op) THEN Goto(c, "prompt") /\ UNCHANGED permit
                   ELSE End(c)
        /\ UNCHANGED <<policy, waiting, envVars, approvals>>

(* LeaseCache::grant: the approving attempt is the first use. *)
NewLease(rule, id) ==
    [id |-> id, at |-> clock, ttl |-> IF rule.ttl < MaxTtl THEN rule.ttl ELSE MaxTtl,
     budget |-> IF rule.one_time THEN 1 ELSE rule.budget, spent |-> 1]

(* Mutant: the approval of a superseded review still installs its lease. *)
GrantedStale(c, approver) ==
    LET k  == call[c].key
        id == Len(approvals) + 1
        lease == NewLease(call[c].rule, id)
    IN  /\ call[c].pc = "prompt" /\ ~call[c].control
        /\ Len(approvals) < MaxApprovals
        /\ leases' = IF call[c].rule.approval = "FirstUse"
                     THEN [leases EXCEPT ![k] = lease] ELSE leases
        /\ approvals' = Append(approvals,
              [key |-> k, gen |-> call[c].gen, approver |-> approver,
               budget |-> IF call[c].rule.approval = "FirstUse"
                          THEN lease.budget ELSE 1, used |-> 0])
        /\ Start(c, id)
        /\ UNCHANGED <<policy, window, waiting, envVars>>

(* Approved: generation, distinct approver and lease under the policy lock. *)
Granted(c, approver) ==
    LET k  == call[c].key
        id == Len(approvals) + 1
        lease == NewLease(call[c].rule, id)
        first == call[c].rule.approval = "FirstUse"
    IN  /\ call[c].pc = "prompt" /\ ~call[c].control
        /\ Len(approvals) < MaxApprovals
        /\ IF SameGeneration(c)
              /\ (call[c].rule.distinct => approver \notin {k.sub, Anonymous})
           THEN /\ leases' = IF first THEN [leases EXCEPT ![k] = lease] ELSE leases
                /\ approvals' = Append(approvals,
                      [key |-> k, gen |-> policy.gen, approver |-> approver,
                       budget |-> IF first THEN lease.budget ELSE 1, used |-> 0])
                /\ Start(c, id)
           ELSE End(c) /\ UNCHANGED <<leases, approvals>>
        /\ UNCHANGED <<policy, window, waiting, envVars>>

(* Denied, timed out, or no factor available. *)
Denied(c) ==
    /\ call[c].pc = "prompt"
    /\ End(c)
    /\ UNCHANGED <<policy, leases, window, waiting, envVars, approvals>>

(* A granted control approval keeps the permit until it is durably audited. *)
ControlGranted(c) ==
    /\ call[c].pc = "prompt" /\ call[c].control
    /\ Goto(c, "witness")
    /\ UNCHANGED <<policy, leases, window, permit, waiting, envVars, approvals>>

(* The audit barrier passes or fails; either way a control call returns. *)
Witnessed(c) ==
    /\ call[c].pc = "witness"
    /\ End(c)
    /\ UNCHANGED <<policy, leases, window, waiting, envVars, approvals>>

Barrier(c) ==
    /\ call[c].pc = "start"
    /\ (Goto(c, "dispatch") /\ UNCHANGED permit) \/ End(c)
    /\ UNCHANGED <<policy, leases, window, waiting, envVars, approvals>>

(* One more dispatch on an approval, counted up to MaxSpent. *)
Count(basis) ==
    approvals' = [i \in DOMAIN approvals |->
                    IF i = basis /\ approvals[i].used < MaxSpent
                    THEN [approvals[i] EXCEPT !.used = @ + 1] ELSE approvals[i]]

(* Mutant: authority is not looked at again after the review. *)
DispatchUnchecked(c) ==
    /\ call[c].pc = "dispatch"
    /\ Goto(c, "running")
    /\ Count(call[c].basis)
    /\ UNCHANGED <<policy, leases, window, permit, waiting, envVars>>

(* The dispatch boundary: generation and requester under the policy lock. *)
Dispatch(c) ==
    /\ call[c].pc = "dispatch"
    /\ IF SameGeneration(c) /\ (guarded => call[c].key.sub \in authorized \cup {NoSub})
       THEN /\ Goto(c, "running")
            /\ Count(call[c].basis)
            /\ UNCHANGED permit
       ELSE End(c) /\ UNCHANGED approvals
    /\ UNCHANGED <<policy, leases, window, waiting, envVars>>

(* The handler returns, and the outcome is audited. *)
Complete(c) ==
    /\ call[c].pc = "running"
    /\ End(c)
    /\ UNCHANGED <<policy, leases, window, waiting, envVars, approvals>>

(* The client disconnects while the call awaits: its future is dropped. *)
Cancel(c) ==
    /\ call[c].pc \in {"queue", "prompt", "witness", "start", "running"}
    /\ End(c)
    /\ waiting' = Without(waiting, c)
    /\ UNCHANGED <<policy, leases, window, envVars, approvals>>

-----------------------------------------------------------------------------
(* swap_policy: rule, generation and leases change under the write lock. *)
SwapPolicy(rule) ==
    /\ policy.gen < MaxGen
    /\ policy' = [rule |-> rule, gen |-> policy.gen + 1]
    /\ leases' = [k \in Key |-> NoLease]
    /\ UNCHANGED <<window, permit, waiting, call, envVars, approvals>>

(* A delegation stops verifying. *)
Withdraw(s) ==
    /\ s \in authorized
    /\ authorized' = authorized \ {s}
    /\ UNCHANGED <<policy, leases, window, permit, waiting, call, guarded, clock, approvals>>

Tick ==
    /\ clock < MaxTime
    /\ clock' = clock + 1
    /\ UNCHANGED <<policy, leases, window, permit, waiting, call, guarded,
                   authorized, approvals>>

(* The daemon stops and starts: nothing of a review or a lease survives. *)
Restart ==
    /\ leases' = [k \in Key |-> NoLease]
    /\ window' = [o \in Op \cup {"control"} |-> <<>>]
    /\ permit' = NoCall
    /\ waiting' = <<>>
    /\ call' = [c \in Call |-> Idle]
    /\ approvals' = <<>>
    /\ \E rule \in Rule : policy' = [rule |-> rule, gen |-> 0]
    /\ UNCHANGED envVars

Init ==
    /\ leases = [k \in Key |-> NoLease]
    /\ window = [o \in Op \cup {"control"} |-> <<>>]
    /\ permit = NoCall
    /\ waiting = <<>>
    /\ call = [c \in Call |-> Idle]
    /\ approvals = <<>>
    /\ \E rule \in Rule : policy = [rule |-> rule, gen |-> 0]
    /\ guarded \in Guarded
    /\ authorized = Sub
    /\ clock = 0

CallStep(c) ==
    \/ Acquire(c) \/ Admit(c) \/ Unreviewed(c) \/ LeaseHit(c) \/ Present(c)
    \/ \E approver \in Approver \cup {Anonymous} : Granted(c, approver)
    \/ Denied(c) \/ ControlGranted(c) \/ Witnessed(c)
    \/ Barrier(c) \/ Dispatch(c) \/ Complete(c)

Next ==
    \/ \E c \in Call : \/ CallStep(c) \/ Cancel(c) \/ Control(c)
                       \/ \E k \in Key : Evaluate(c, k)
    \/ \E rule \in Rule : SwapPolicy(rule)
    \/ \E s \in Sub : Withdraw(s)
    \/ Tick \/ Restart

Spec == Init /\ [][Next]_vars

(* The executor polls what can proceed; a review is answered or times out; *)
(* a handler returns.                                                      *)
FairSpec == Spec /\ \A c \in Call : WF_vars(CallStep(c))

-----------------------------------------------------------------------------
(* Properties. *)

Reviewing == {"admit", "lookup", "prompt", "witness"}

(* Authority is whole at the dispatch boundary (execute): a call is        *)
(* admitted only under the decision of the policy in force now, for a      *)
(* requester that still verifies, and, when that policy or the operation's *)
(* floor asks for a review, on an approval given under this very policy    *)
(* generation for this key, by someone else when it must be someone else.  *)
DispatchCovered ==
    [][\A c \in Call :
          call[c].pc = "dispatch" /\ call'[c].pc = "running" =>
             LET k == call[c].key
                 d == Decision(k)
                 a == approvals[call[c].basis]
             IN  /\ d.allowed
                 /\ guarded => k.sub \in authorized \cup {NoSub}
                 /\ d.approval # "Never" =>
                       /\ call[c].basis # 0
                       /\ a.key = k
                       /\ a.gen = policy.gen
                       /\ d.distinct => a.approver \notin {k.sub, Anonymous}]_vars

(* An approval buys at most its budget of dispatches, the approved one     *)
(* included (take, grant): concurrent first uses, cancelled calls and      *)
(* policy changes never stretch it; an Always approval buys one.           *)
AllowanceBounded ==
    \A i \in DOMAIN approvals :
       approvals[i].budget # None => approvals[i].used <= approvals[i].budget

(* A live lease is never replaced by a new one (handle_approval: the       *)
(* lookup and the grant are under one permit): a second concurrent first   *)
(* use cannot reset the budget or prolong the time of the first.           *)
LeaseNeverReset ==
    [][\A k \in Key :
          leases[k] # NoLease /\ leases'[k].id # leases[k].id
          => ~Live(leases[k]) \/ policy' # policy \/ approvals' = <<>>]_vars

(* One human, one prompt: at most one review is on screen, and the permit  *)
(* belongs to a call still in its review, so a cancelled or failed call    *)
(* never keeps the others out.                                             *)
PermitSound ==
    /\ Cardinality({c \in Call : call[c].pc = "prompt"}) <= 1
    /\ permit # NoCall => call[permit].pc \in Reviewing

(* Every call ends: the approval semaphore of handle_approval serves its   *)
(* queue in order, so no review waits forever behind another, whoever is   *)
(* denied, disconnected or superseded on the way.                          *)
CallsEnd == \A c \in Call : call[c].pc # "idle" ~> call[c].pc = "idle"
=============================================================================
