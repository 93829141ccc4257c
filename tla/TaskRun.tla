------------------------------- MODULE TaskRun -------------------------------
(***************************************************************************)
(* Enclave::execute_task (crates/opaqued/src/enclave/task.rs): concurrent  *)
(* runs of bounded tasks over the task ledger, from the claim, through the *)
(* human review, to one provider write per slot.                           *)
(*                                                                         *)
(* A run is an async function.  Between two of its steps the owner may     *)
(* revoke, the clock may pass the expiry or jump back, the policy may be   *)
(* replaced, the requester's or the reviewer's authority may end, the      *)
(* caller may disconnect (the future is dropped and RunGuard closes the    *)
(* run) and the daemon may crash.  What must be indivisible in the code is *)
(* one step here: the last fence before a write holds the policy read lock *)
(* and the authority gate across the ledger transaction.                   *)
(***************************************************************************)
EXTENDS Naturals, FiniteSets

CONSTANTS
    Task, Slot, Request, NoRequest, MaxTime, Lifetime,  \* as in TaskStore
    Run,        \* concurrent calls of execute_task
    MaxGen,     \* bound on policy replacements
    Gate        \* the authority gates configured: see `gate'

ASSUME SlotOrderAssumption == IsFiniteSet(Slot) /\ Slot = 1 .. Cardinality(Slot)
ASSUME LedgerAssumption == /\ Task # {} /\ Slot # {} /\ NoRequest \notin Request
                           /\ MaxTime \in Nat /\ Lifetime \in Nat \ {0}
ASSUME GenAssumption == MaxGen \in Nat
ASSUME GateAssumption == Gate \subseteq {"plain", "guarded", "remote"}

VARIABLES
    records, open, corrupt,     \* the ledger
    run,        \* the local state of each run
    policy,     \* the policy in force: its generation, and whether it allows
    gate,       \* "plain": no identity runtime; "guarded": the requester's
                \* authority is held across the fence; "remote": the review
                \* is a workstation receipt, reviewer and requester are held
    requester,  \* the requester's delegation and workspace still verify
    reviewer,   \* the reviewing workstation is still enrolled and allowed
    prompts,    \* how often a review of each task was presented
    reviewed,   \* the policy generations under which a task's review approved
    audit,      \* "none", "queued" or "durable": OperationStarted per slot
    wire,       \* provider writes authorized and not yet decided
    effects     \* how many times the provider performed each slot's write

Ledger == INSTANCE TaskStore

ledgerVars == <<records, open, corrupt>>
authorityVars == <<policy, gate, requester, reviewer>>
worldVars == <<prompts, reviewed, audit, wire, effects>>
vars == <<ledgerVars, run, authorityVars, worldVars>>

Time == Ledger!Time

-----------------------------------------------------------------------------
(* Local state of a run. *)

Idle == [pc |-> "idle", task |-> CHOOSE t \in Task : TRUE, gen |-> 0, slot |-> 1,
         request |-> NoRequest, outcome |-> "none"]

Goto(w, pc) == run' = [run EXCEPT ![w].pc = pc]

(* Every error return drops the guard. *)
Fail(w) == Goto(w, "seal")

(* The future is suspended at one of its awaits. *)
Awaiting == {"review", "prompt", "check", "barrier", "prepare", "recheck",
             "sent", "confirm"}

SlotOf(w) == <<run[w].task, run[w].slot>>

SameGeneration(w) == policy.gen = run[w].gen

-----------------------------------------------------------------------------
(* Claim the task; the policy generation of the run is read next. *)
Claim(w, t, now) ==
    /\ run[w].pc = "idle"
    /\ Ledger!Claim(t, now)
    /\ run' = IF Ledger!CanClaim(Ledger!Loaded(t, now))
              THEN [run EXCEPT ![w] = [Idle EXCEPT !.pc = "decide", !.task = t,
                                                   !.gen = policy.gen]]
              ELSE run
    /\ UNCHANGED <<authorityVars, worldVars>>

(* task_decision: the policy in force, which may be newer than run.gen. *)
Decide(w) ==
    /\ run[w].pc = "decide"
    /\ IF policy.allowed THEN Goto(w, "review") ELSE Fail(w)
    /\ UNCHANGED <<ledgerVars, authorityVars, worldVars>>

(* handle_approval up to the prompt: one permit, then the generation again. *)
Present(w) ==
    /\ run[w].pc = "review"
    /\ \A v \in Run : run[v].pc # "prompt"
    /\ IF SameGeneration(w)
       THEN /\ Goto(w, "prompt")
            /\ prompts' = [prompts EXCEPT ![run[w].task] = @ + 1]
       ELSE Fail(w) /\ UNCHANGED prompts
    /\ UNCHANGED <<ledgerVars, authorityVars, reviewed, audit, wire, effects>>

(* No prompt: the rate limiter or a missing factor refuses the review. *)
PresentRefused(w) ==
    /\ run[w].pc = "review"
    /\ \A v \in Run : run[v].pc # "prompt"
    /\ Fail(w)
    /\ UNCHANGED <<ledgerVars, authorityVars, worldVars>>

(* The reviewer approves; handle_approval looks at the generation under     *)
(* the policy lock.                                                         *)
Granted(w) ==
    /\ run[w].pc = "prompt"
    /\ IF SameGeneration(w)
       THEN /\ Goto(w, "record")
            /\ reviewed' = [reviewed EXCEPT ![run[w].task] = @ \cup {policy.gen}]
       ELSE Fail(w) /\ UNCHANGED reviewed
    /\ UNCHANGED <<ledgerVars, authorityVars, prompts, audit, wire, effects>>

(* The reviewer denies, the round times out or the factor fails. *)
Denied(w) ==
    /\ run[w].pc = "prompt"
    /\ Fail(w)
    /\ UNCHANGED <<ledgerVars, authorityVars, worldVars>>

(* The generation and the receipt are revalidated, then the approval is    *)
(* stored.                                                                 *)
RecordApproval(w, now) ==
    LET t       == run[w].task
        r       == Ledger!Loaded(t, now)
        remote  == gate = "remote"
        mode    == IF remote THEN "paired_workstation" ELSE "factor"
        receipt == IF remote THEN "bound" ELSE "none"
    IN  /\ run[w].pc = "record"
        /\ IF SameGeneration(w) /\ (remote => reviewer)
           THEN /\ Ledger!ApproveWithReceipt(t, mode, receipt, now)
                /\ IF Ledger!CanApprove(r, mode, receipt, now)
                   THEN Goto(w, "check") ELSE Fail(w)
           ELSE Fail(w) /\ UNCHANGED ledgerVars
        /\ UNCHANGED <<authorityVars, worldVars>>

(* Before each slot: check_context, the generation and task_decision. *)
AuthorityHolds(w) == requester /\ SameGeneration(w) /\ policy.allowed

Check(w) ==
    /\ run[w].pc = "check"
    /\ IF AuthorityHolds(w) THEN Goto(w, "reserve") ELSE Fail(w)
    /\ UNCHANGED <<ledgerVars, authorityVars, worldVars>>

UsedRequests ==
    {records[x[1]].slots[x[2]].request_id : x \in Task \X Slot}

(* Charge the slot under a fresh request id, then queue OperationStarted. *)
Reserve(w, q, now) ==
    LET t == run[w].task
        s == run[w].slot
    IN  /\ run[w].pc = "reserve"
        /\ q \notin UsedRequests
        /\ Ledger!ReserveSlot(t, s, q, now)
        /\ IF Ledger!CanReserve(Ledger!Loaded(t, now), s, now)
           THEN /\ run' = [run EXCEPT ![w].pc = "barrier", ![w].request = q]
                /\ audit' = [audit EXCEPT ![SlotOf(w)] = "queued"]
           ELSE Fail(w) /\ UNCHANGED audit
        /\ UNCHANGED <<authorityVars, prompts, reviewed, wire, effects>>

(* confirm_audit(false): no write before its start is durably audited. *)
Barrier(w) ==
    /\ run[w].pc = "barrier"
    /\ \/ /\ Goto(w, "prepare")
          /\ audit' = [audit EXCEPT ![SlotOf(w)] = "durable"]
       \/ Fail(w) /\ UNCHANGED audit
    /\ UNCHANGED <<ledgerVars, authorityVars, prompts, reviewed, wire, effects>>

Settle(w, o) == run' = [run EXCEPT ![w].pc = "settle", ![w].outcome = o]

(* The provider resolves its inputs; it may give up before it would write. *)
Prepare(w) ==
    /\ run[w].pc = "prepare"
    /\ Goto(w, "recheck") \/ Settle(w, "rejected")
    /\ UNCHANGED <<ledgerVars, authorityVars, worldVars>>

(* before_dispatch, first half: the checks of the slot again. *)
Recheck(w) ==
    /\ run[w].pc = "recheck"
    /\ IF AuthorityHolds(w) THEN Goto(w, "fence") ELSE Settle(w, "rejected")
    /\ UNCHANGED <<ledgerVars, authorityVars, worldVars>>

(* before_dispatch, second half: under the policy read lock, and for a     *)
(* guarded or remote run inside the authority gate, the ledger authorizes  *)
(* the write.                                                              *)
GateHolds ==
    /\ gate = "guarded" => requester
    /\ gate = "remote"  => requester /\ reviewer

(* Mutant: the policy generation is not read again under the lock. *)
FenceStale(w, now) ==
    LET t == run[w].task
        s == run[w].slot
        q == run[w].request
    IN  /\ run[w].pc = "fence"
        /\ IF GateHolds
           THEN /\ Ledger!AuthorizeDispatch(t, s, q, now)
                /\ IF Ledger!CanDispatch(Ledger!Loaded(t, now), s, q, now)
                   THEN Goto(w, "sent") /\ wire' = wire \cup {SlotOf(w)}
                   ELSE Settle(w, "rejected") /\ UNCHANGED wire
           ELSE Settle(w, "rejected") /\ UNCHANGED <<ledgerVars, wire>>
        /\ UNCHANGED <<authorityVars, prompts, reviewed, audit, effects>>

Fence(w, now) ==
    LET t == run[w].task
        s == run[w].slot
        q == run[w].request
    IN  /\ run[w].pc = "fence"
        /\ IF SameGeneration(w) /\ GateHolds
           THEN /\ Ledger!AuthorizeDispatch(t, s, q, now)
                /\ IF Ledger!CanDispatch(Ledger!Loaded(t, now), s, q, now)
                   THEN Goto(w, "sent") /\ wire' = wire \cup {SlotOf(w)}
                   ELSE Settle(w, "rejected") /\ UNCHANGED wire
           ELSE Settle(w, "rejected") /\ UNCHANGED <<ledgerVars, wire>>
        /\ UNCHANGED <<authorityVars, prompts, reviewed, audit, effects>>

(* The answer: acceptance and rejection tell what the provider did; lost   *)
(* connections, time-outs and server errors tell nothing.                  *)
Answer(w) ==
    /\ run[w].pc = "sent"
    /\ \/ SlotOf(w) \notin wire /\ effects[SlotOf(w)] > 0
          /\ Settle(w, "api_accepted")
       \/ SlotOf(w) \notin wire /\ effects[SlotOf(w)] = 0
          /\ Settle(w, "rejected")
       \/ Settle(w, "uncertain")
    /\ UNCHANGED <<ledgerVars, authorityVars, worldVars>>

(* Store the receipt of the slot. *)
Finalize(w, now) ==
    LET t == run[w].task
        s == run[w].slot
        q == run[w].request
    IN  /\ run[w].pc = "settle"
        /\ Ledger!FinalizeSlot(t, s, q, run[w].outcome, now)
        /\ IF Ledger!CanFinalize(Ledger!Loaded(t, now), s, q, now)
           THEN Goto(w, "confirm") ELSE Fail(w)
        /\ UNCHANGED <<authorityVars, worldVars>>

(* Mutant: the slot loop runs past the last slot. *)
ConfirmNext(w) ==
    /\ run[w].pc = "confirm"
    /\ \/ /\ run[w].outcome = "api_accepted"
          /\ run' = [run EXCEPT ![w].pc = "check", ![w].slot = @ + 1]
       \/ Fail(w)
    /\ UNCHANGED <<ledgerVars, authorityVars, worldVars>>

(* confirm_audit(true), then the next slot, unless this was the last one,  *)
(* it was not accepted, or the audit trail is unavailable.                 *)
Confirm(w) ==
    /\ run[w].pc = "confirm"
    /\ \/ /\ run[w].outcome = "api_accepted"
          /\ run[w].slot + 1 \in Slot
          /\ run' = [run EXCEPT ![w].pc = "check", ![w].slot = @ + 1]
       \/ /\ run[w].outcome # "api_accepted" \/ run[w].slot + 1 \notin Slot
          /\ Goto(w, "finish")
       \/ Fail(w)
    /\ UNCHANGED <<ledgerVars, authorityVars, worldVars>>

Finish(w, now) ==
    /\ run[w].pc = "finish"
    /\ Ledger!FinishRun(run[w].task, now)
    /\ Fail(w)
    /\ UNCHANGED <<authorityVars, worldVars>>

(* Mutant: no guard; only a run that reaches its end is closed. *)
SealForgotten(w, now) ==
    /\ run[w].pc = "seal"
    /\ run' = [run EXCEPT ![w] = Idle]
    /\ UNCHANGED <<ledgerVars, authorityVars, worldVars>>

(* RunGuard::drop, on every way out of the function. *)
Seal(w, now) ==
    /\ run[w].pc = "seal"
    /\ Ledger!FinishRun(run[w].task, now)
    /\ run' = [run EXCEPT ![w] = Idle]
    /\ UNCHANGED <<authorityVars, worldVars>>

(* The caller goes away while the run awaits: its future is dropped. *)
Cancel(w) ==
    /\ run[w].pc \in Awaiting
    /\ Fail(w)
    /\ UNCHANGED <<ledgerVars, authorityVars, worldVars>>

-----------------------------------------------------------------------------
(* The rest of the system. *)

Create(t, now) == Ledger!Create(t, now) /\ UNCHANGED <<run, authorityVars, worldVars>>

Revoke(t, now) == Ledger!Revoke(t, now) /\ UNCHANGED <<run, authorityVars, worldVars>>

Get(t, now) == Ledger!Get(t, now) /\ UNCHANGED <<run, authorityVars, worldVars>>

(* swap_policy: the engine and the generation change under the write lock. *)
SwapPolicy ==
    /\ open
    /\ policy.gen < MaxGen
    /\ \E allowed \in BOOLEAN :
          policy' = [gen |-> policy.gen + 1, allowed |-> allowed]
    /\ UNCHANGED <<ledgerVars, run, gate, requester, reviewer, worldVars>>

(* A delegation ends, or a workspace stops verifying; it may verify again. *)
RequesterChanges ==
    /\ requester' = ~requester
    /\ UNCHANGED <<ledgerVars, run, policy, gate, reviewer, worldVars>>

(* An enrollment that ends is never the same enrollment again. *)
ReviewerRevoked ==
    /\ gate = "remote"
    /\ reviewer
    /\ reviewer' = FALSE
    /\ UNCHANGED <<ledgerVars, run, policy, gate, requester, worldVars>>

(* The provider performs, or refuses, a write it was sent, also when the   *)
(* run that sent it no longer listens.                                     *)
Provider(t, s) ==
    /\ <<t, s>> \in wire
    /\ wire' = wire \ {<<t, s>>}
    /\ \/ effects' = [effects EXCEPT ![<<t, s>>] = @ + 1]
       \/ UNCHANGED effects
    /\ UNCHANGED <<ledgerVars, run, authorityVars, prompts, reviewed, audit>>

(* Runs and unflushed audit events are lost; the restarted daemon loads    *)
(* some policy and counts its generations from zero again, so a review     *)
(* given to the previous process is forgotten.                             *)
Crash ==
    /\ Ledger!Close
    /\ run' = [w \in Run |-> Idle]
    /\ audit' = [x \in Task \X Slot |->
                    IF audit[x] = "queued" THEN "none" ELSE audit[x]]
    /\ UNCHANGED <<authorityVars, prompts, reviewed, wire, effects>>

(* Mutant: the ledger is reopened without recovery. *)
RestartAsIs ==
    /\ ~open
    /\ open' = TRUE
    /\ \E allowed \in BOOLEAN : policy' = [gen |-> 0, allowed |-> allowed]
    /\ reviewed' = [t \in Task |-> {}]
    /\ UNCHANGED <<records, corrupt, run, gate, requester, reviewer, prompts,
                   audit, wire, effects>>

Restart ==
    /\ Ledger!Open
    /\ \E allowed \in BOOLEAN : policy' = [gen |-> 0, allowed |-> allowed]
    /\ reviewed' = [t \in Task |-> {}]
    /\ UNCHANGED <<run, gate, requester, reviewer, prompts, audit, wire, effects>>

-----------------------------------------------------------------------------
Init ==
    /\ Ledger!Init
    /\ run = [w \in Run |-> Idle]
    /\ policy = [gen |-> 0, allowed |-> TRUE]
    /\ gate \in Gate
    /\ requester = TRUE
    /\ reviewer = TRUE
    /\ prompts = [t \in Task |-> 0]
    /\ reviewed = [t \in Task |-> {}]
    /\ audit = [x \in Task \X Slot |-> "none"]
    /\ wire = {}
    /\ effects = [x \in Task \X Slot |-> 0]

(* The steps a run takes by itself. *)
RunStep(w) ==
    \/ Decide(w) \/ Present(w) \/ PresentRefused(w) \/ Granted(w) \/ Denied(w)
    \/ Check(w) \/ Barrier(w) \/ Prepare(w) \/ Recheck(w) \/ Answer(w)
    \/ Confirm(w)
    \/ \E now \in Time :
          \/ RecordApproval(w, now) \/ Fence(w, now) \/ Finalize(w, now)
          \/ Finish(w, now) \/ Seal(w, now)
          \/ \E q \in Request : Reserve(w, q, now)

Next ==
    \/ \E w \in Run : RunStep(w) \/ Cancel(w)
    \/ \E w \in Run, t \in Task, now \in Time : Claim(w, t, now)
    \/ \E t \in Task, now \in Time : Create(t, now) \/ Revoke(t, now) \/ Get(t, now)
    \/ SwapPolicy \/ RequesterChanges \/ ReviewerRevoked
    \/ \E t \in Task, s \in Slot : Provider(t, s)
    \/ Crash \/ Restart

Spec == Init /\ [][Next]_vars

(* The executor polls a run that can proceed, a review ends by an answer   *)
(* or its time-out, and a stopped daemon is started again.  Nothing is     *)
(* assumed of the provider, the owner, the clock or the policy.            *)
Fairness == (\A w \in Run : WF_vars(RunStep(w))) /\ WF_vars(Restart)

FairSpec == Spec /\ Fairness

-----------------------------------------------------------------------------
(* Properties. *)

(* Shapes of the ledger, of each run's local state and of the world around  *)
(* them; the slot loop of execute_task never leaves the manifest.           *)
TypeOK ==
    /\ Ledger!TypeOK
    /\ run \in [Run -> [pc : Awaiting \cup {"idle", "decide", "record", "reserve",
                                "fence", "settle", "finish", "seal"},
                        task : Task, gen : 0 .. MaxGen, slot : Slot,
                        request : Request \cup {NoRequest},
                        outcome : Ledger!Outcome \cup {"none"}]]
    /\ policy \in [gen : 0 .. MaxGen, allowed : BOOLEAN]
    /\ gate \in Gate
    /\ requester \in BOOLEAN /\ reviewer \in BOOLEAN
    /\ prompts \in [Task -> Nat]
    /\ reviewed \in [Task -> SUBSET (0 .. MaxGen)]
    /\ audit \in [Task \X Slot -> {"none", "queued", "durable"}]
    /\ wire \subseteq Task \X Slot
    /\ effects \in [Task \X Slot -> Nat]

SlotState(x) == records[x[1]].slots[x[2]].state

(* A task buys each of its writes at most once (reserve_slot before the    *)
(* dispatch, never refunded): whatever is cancelled, retried, crashed or   *)
(* restarted, the provider never performs a slot's write twice, counting   *)
(* the one still on the wire, and nobody is asked twice to review a task.  *)
AtMostOnce ==
    /\ \A x \in Task \X Slot :
          effects[x] + (IF x \in wire THEN 1 ELSE 0) <= 1
    /\ \A t \in Task : prompts[t] <= 1

(* A receipt never lies about a write (finalize_slot, finish_run and the   *)
(* recovery in open): an accepted slot was performed, a rejected or        *)
(* pending one neither was nor can still be; what may or may not have      *)
(* happened is Reserved or Unknown, after cancellation and crash too.      *)
ReceiptHonest ==
    \A x \in Task \X Slot :
       /\ SlotState(x) = "ApiAccepted" => effects[x] = 1
       /\ SlotState(x) \in {"Rejected", "Pending"} =>
             effects[x] = 0 /\ x \notin wire

(* While the ledger is open every charged, unsettled slot belongs to a run *)
(* that still executes and holds its request id: RunGuard or the restart   *)
(* settled all others, so no receipt stays Reserved forever.               *)
NoOrphan ==
    open => \A x \in Task \X Slot : SlotState(x) = "Reserved" =>
        \E w \in Run : /\ run[w].pc # "idle"
                       /\ SlotOf(w) = x
                       /\ run[w].request = records[x[1]].slots[x[2]].request_id
                          \/ run[w].pc = "seal"

(* Authority is whole at the instant of dispatch (before_dispatch): a      *)
(* write leaves only for a task that is claimed, approved, neither revoked *)
(* nor expired, whose review approved under the very policy generation in  *)
(* force, which still allows it, with its start durably audited, and, when *)
(* a gate is configured, with the people behind it still authorized.       *)
DispatchAuthorized ==
    [][\A x \in wire' \ wire :
          /\ records[x[1]].state = "Running"
          /\ records[x[1]].approved_at # Ledger!None
          /\ policy.gen \in reviewed[x[1]]
          /\ policy.allowed
          /\ audit[x] = "durable"
          /\ GateHolds
          /\ \A s \in Slot : s < x[2] => SlotState(<<x[1], s>>) = "ApiAccepted"]_vars

(* Every claimed task is closed, and every charged slot settled, in the    *)
(* end: by finish_run at the end of execute_task, by RunGuard::drop after  *)
(* a failure or cancellation, or by the recovery in open_for_tenant.       *)
RunsEnd ==
    \A t \in Task :
       (records[t].state = "Running"
          \/ \E s \in Slot : records[t].slots[s].state = "Reserved")
       ~> (records[t].state # "Running"
             /\ \A s \in Slot : records[t].slots[s].state # "Reserved")

(* execute_task uses the ledger only as TaskStore allows: every step of    *)
(* the concurrent runs, crash and restart included, is one ledger call or  *)
(* leaves the ledger alone, so what is proved of TaskStore holds here too. *)
LedgerSpec == Ledger!Spec
=============================================================================
