---------------------------- MODULE TaskRunProofs ----------------------------
(* Theorems about TaskRun, for any tasks, slots, requests, runs, gates and  *)
(* bounds.  What is proved of the ledger alone is taken from               *)
(* TaskStoreProofs through the refinement.                                  *)
EXTENDS TaskRun, FiniteSetTheorems, TLAPS

Store == INSTANCE TaskStoreProofs

-----------------------------------------------------------------------------
(* The shapes of the runs and of the world. *)

RunPc == Awaiting \cup {"idle", "decide", "record", "reserve", "fence", "settle",
                        "finish", "seal"}

RunRecord == [pc : RunPc, task : Task, gen : 0 .. MaxGen, slot : Slot,
              request : Request \cup {NoRequest}, outcome : Ledger!Outcome \cup {"none"}]

WorldTypes ==
    /\ policy \in [gen : 0 .. MaxGen, allowed : BOOLEAN]
    /\ gate \in Gate
    /\ requester \in BOOLEAN /\ reviewer \in BOOLEAN
    /\ prompts \in [Task -> Nat]
    /\ reviewed \in [Task -> SUBSET (0 .. MaxGen)]
    /\ audit \in [Task \X Slot -> {"none", "queued", "durable"}]
    /\ wire \subseteq Task \X Slot
    /\ effects \in [Task \X Slot -> Nat]

(* A run charges a slot only under a request id of its own, and settles it  *)
(* with an outcome.                                                         *)
Armed(x) ==
    /\ x.pc \in {"barrier", "prepare", "recheck", "fence", "sent", "settle"} => x.request \in Request
    /\ x.pc = "settle" => x.outcome \in Ledger!Outcome

RunTypes ==
    /\ run \in [Run -> RunRecord]
    /\ \A w \in Run : Armed(run[w])

Types == WorldTypes /\ RunTypes

(* The slot loop starts at the first slot. *)
LEMMA FirstSlot == 1 \in Slot /\ \A s \in Slot : s \in Nat
<1>1. Cardinality(Slot) \in Nat /\ Slot = 1 .. Cardinality(Slot)
  BY SlotOrderAssumption, FS_CardinalityType
<1> QED
  BY <1>1, LedgerAssumption

(* A run before execute_task has the shape of a run. *)
LEMMA IdleType == Idle \in RunRecord /\ Idle.pc = "idle" /\ Idle.slot = 1
<1>1. (CHOOSE t \in Task : TRUE) \in Task
  BY LedgerAssumption
<1> QED
  BY <1>1, FirstSlot, GenAssumption DEF Idle, RunRecord, RunPc

(* Goto as an update of the one run. *)
LEMMA GotoFacts ==
    ASSUME RunTypes, NEW w \in Run, NEW pc \in RunPc, Goto(w, pc)
    PROVE  LET x == [run[w] EXCEPT !.pc = pc] IN
           /\ run' = [run EXCEPT ![w] = x]
           /\ x \in RunRecord /\ x.pc = pc
           /\ x.task = run[w].task /\ x.gen = run[w].gen /\ x.slot = run[w].slot
           /\ x.request = run[w].request /\ x.outcome = run[w].outcome
<1> DEFINE x == [run[w] EXCEPT !.pc = pc]
<1>0. run \in [Run -> RunRecord] /\ run[w] \in RunRecord
  BY DEF RunTypes
<1>1. /\ x \in RunRecord /\ x.pc = pc
      /\ x.task = run[w].task /\ x.gen = run[w].gen /\ x.slot = run[w].slot
      /\ x.request = run[w].request /\ x.outcome = run[w].outcome
  BY <1>0 DEF RunRecord
<1>2. run' = [run EXCEPT ![w] = x]
  BY <1>0 DEF Goto
<1> QED
  BY <1>1, <1>2

(* Settle as an update of the one run. *)
LEMMA SettleFacts ==
    ASSUME RunTypes, NEW w \in Run, NEW o \in Ledger!Outcome, Settle(w, o)
    PROVE  LET x == [run[w] EXCEPT !.pc = "settle", !.outcome = o] IN
           /\ run' = [run EXCEPT ![w] = x]
           /\ x \in RunRecord /\ x.pc = "settle"
           /\ x.task = run[w].task /\ x.gen = run[w].gen /\ x.slot = run[w].slot
           /\ x.request = run[w].request /\ x.outcome = o
<1> DEFINE x == [run[w] EXCEPT !.pc = "settle", !.outcome = o]
<1>0. run \in [Run -> RunRecord] /\ run[w] \in RunRecord
  BY DEF RunTypes
<1>1. /\ x \in RunRecord /\ x.pc = "settle"
      /\ x.task = run[w].task /\ x.gen = run[w].gen /\ x.slot = run[w].slot
      /\ x.request = run[w].request /\ x.outcome = o
  BY <1>0 DEF RunRecord, RunPc
<1>2. run' = [run EXCEPT ![w] = x]
  BY <1>0 DEF Settle
<1> QED
  BY <1>1, <1>2

(* A run replaced by one of the right shape. *)
LEMMA RunTypesKept ==
    ASSUME RunTypes, NEW w \in Run, NEW x \in RunRecord, Armed(x),
           run' = [run EXCEPT ![w] = x]
    PROVE  RunTypes'
BY DEF RunTypes

(* A run that is moved on keeps its shape. *)
LEMMA GotoTypes ==
    ASSUME RunTypes, NEW w \in Run, NEW pc \in RunPc, Goto(w, pc), pc # "settle",
           pc \in {"prepare", "recheck", "fence", "sent", "barrier"} => run[w].request \in Request
    PROVE  RunTypes'
<1> DEFINE x == [run[w] EXCEPT !.pc = pc]
<1>1. /\ run' = [run EXCEPT ![w] = x]
      /\ x \in RunRecord /\ x.pc = pc /\ x.request = run[w].request
  BY GotoFacts
<1> HIDE DEF x
<1>2. Armed(x)
  BY <1>1 DEF Armed
<1> QED
  BY <1>1, <1>2, RunTypesKept

(* A run that has an outcome keeps its shape. *)
LEMMA SettleTypes ==
    ASSUME RunTypes, NEW w \in Run, NEW o \in Ledger!Outcome, Settle(w, o),
           run[w].request \in Request
    PROVE  RunTypes'
<1> DEFINE x == [run[w] EXCEPT !.pc = "settle", !.outcome = o]
<1>1. /\ run' = [run EXCEPT ![w] = x]
      /\ x \in RunRecord /\ x.request = run[w].request /\ x.outcome = o
  BY SettleFacts
<1> HIDE DEF x
<1>2. Armed(x)
  BY <1>1 DEF Armed
<1> QED
  BY <1>1, <1>2, RunTypesKept

(* The steps of a run keep the shapes of the runs. *)
LEMMA RunStepTypes ==
    ASSUME Types, NEW w \in Run, RunStep(w) \/ Cancel(w)
    PROVE  RunTypes'
<1>0. /\ RunTypes /\ run \in [Run -> RunRecord] /\ run[w] \in RunRecord /\ Armed(run[w])
      /\ {"uncertain", "rejected", "api_accepted"} \subseteq Ledger!Outcome
  BY DEF Types, RunTypes, Ledger!Outcome
<1> USE DEF RunPc, Awaiting
<1>1. CASE Decide(w) \/ Present(w) \/ PresentRefused(w) \/ Granted(w) \/ Denied(w)
           \/ Check(w) \/ Cancel(w)
  <2>1. \E pc \in {"review", "seal", "prompt", "record", "reserve"} : Goto(w, pc)
    BY <1>1 DEF Decide, Present, PresentRefused, Granted, Denied, Check, Cancel, Fail
  <2> QED
    BY <1>0, <2>1, GotoTypes
<1>2. CASE Barrier(w) \/ Prepare(w) \/ Recheck(w) \/ Answer(w)
  <2>1. run[w].request \in Request
    BY <1>0, <1>2 DEF Armed, Barrier, Prepare, Recheck, Answer
  <2>2. \/ \E pc \in {"prepare", "recheck", "fence", "seal"} : Goto(w, pc)
        \/ \E o \in {"uncertain", "rejected", "api_accepted"} : Settle(w, o)
    BY <1>2 DEF Barrier, Prepare, Recheck, Answer, Fail
  <2> QED
    BY <1>0, <2>1, <2>2, GotoTypes, SettleTypes
<1>3. CASE Confirm(w)
  <2>1. CASE Goto(w, "finish") \/ Goto(w, "seal")
    BY <1>0, <2>1, GotoTypes
  <2>2. CASE /\ run[w].slot + 1 \in Slot
             /\ run' = [run EXCEPT ![w].pc = "check", ![w].slot = @ + 1]
    <3> DEFINE x == [run[w] EXCEPT !.pc = "check", !.slot = @ + 1]
    <3>1. run' = [run EXCEPT ![w] = x]
      BY <1>0, <2>2
    <3>2. x \in RunRecord /\ x.pc = "check"
      BY <1>0, <2>2 DEF RunRecord
    <3> HIDE DEF x
    <3>3. Armed(x)
      BY <3>2 DEF Armed
    <3> QED
      BY <1>0, <3>1, <3>2, <3>3, RunTypesKept
  <2> QED
    BY <1>3, <2>1, <2>2 DEF Confirm, Fail
<1>4. ASSUME NEW now \in Time, RecordApproval(w, now) \/ Finalize(w, now) \/ Finish(w, now)
      PROVE  RunTypes'
  <2>1. \E pc \in {"check", "seal", "confirm"} : Goto(w, pc)
    BY <1>4 DEF RecordApproval, Finalize, Finish, Fail
  <2> QED
    BY <1>0, <2>1, GotoTypes
<1>5. ASSUME NEW now \in Time, Fence(w, now)
      PROVE  RunTypes'
  <2>1. run[w].request \in Request
    BY <1>0, <1>5 DEF Armed, Fence
  <2>2. Goto(w, "sent") \/ Settle(w, "rejected")
    BY <1>5 DEF Fence
  <2> QED
    BY <1>0, <2>1, <2>2, GotoTypes, SettleTypes
<1>6. ASSUME NEW now \in Time, Seal(w, now)
      PROVE  RunTypes'
  <2>1. run' = [run EXCEPT ![w] = Idle]
    BY <1>6 DEF Seal
  <2>2. Armed(Idle)
    BY IdleType DEF Armed
  <2> QED
    BY <1>0, <2>1, <2>2, IdleType, RunTypesKept
<1>7. ASSUME NEW now \in Time, NEW q \in Request, Reserve(w, q, now)
      PROVE  RunTypes'
  <2>1. CASE Goto(w, "seal")
    BY <1>0, <2>1, GotoTypes
  <2>2. CASE run' = [run EXCEPT ![w].pc = "barrier", ![w].request = q]
    <3> DEFINE x == [run[w] EXCEPT !.pc = "barrier", !.request = q]
    <3>1. run' = [run EXCEPT ![w] = x]
      BY <1>0, <2>2
    <3>2. x \in RunRecord /\ x.pc = "barrier" /\ x.request = q
      BY <1>0, <2>2 DEF RunRecord
    <3> HIDE DEF x
    <3>3. Armed(x)
      BY <3>2 DEF Armed
    <3> QED
      BY <1>0, <3>1, <3>2, <3>3, RunTypesKept
  <2> QED
    BY <1>7, <2>1, <2>2 DEF Reserve, Fail
<1> QED
  BY <1>1, <1>2, <1>3, <1>4, <1>5, <1>6, <1>7 DEF RunStep

(* And of the world. *)
LEMMA RunStepWorld ==
    ASSUME Types, NEW w \in Run, RunStep(w) \/ Cancel(w)
    PROVE  WorldTypes'
<1>0. run[w] \in RunRecord /\ run[w].task \in Task /\ SlotOf(w) \in Task \X Slot
  BY DEF Types, RunTypes, RunRecord, SlotOf
<1>1. CASE UNCHANGED <<authorityVars, worldVars>>
  BY <1>1 DEF Types, WorldTypes, authorityVars, worldVars
<1>2. CASE Present(w)
  <2>1. prompts' \in [Task -> Nat]
    BY <1>0, <1>2 DEF Present, Types, WorldTypes
  <2> QED
    BY <1>2, <2>1 DEF Present, Types, WorldTypes, authorityVars
<1>3. CASE Granted(w)
  <2>1. reviewed' \in [Task -> SUBSET (0 .. MaxGen)]
    BY <1>0, <1>3 DEF Granted, Types, WorldTypes
  <2> QED
    BY <1>3, <2>1 DEF Granted, Types, WorldTypes, authorityVars
<1>4. CASE Barrier(w)
  <2>1. audit' \in [Task \X Slot -> {"none", "queued", "durable"}]
    BY <1>0, <1>4 DEF Barrier, Types, WorldTypes
  <2> QED
    BY <1>4, <2>1 DEF Barrier, Types, WorldTypes, authorityVars
<1>5. ASSUME NEW now \in Time, NEW q \in Request, Reserve(w, q, now)
      PROVE  WorldTypes'
  <2>1. audit' \in [Task \X Slot -> {"none", "queued", "durable"}]
    BY <1>0, <1>5 DEF Reserve, Types, WorldTypes
  <2> QED
    BY <1>5, <2>1 DEF Reserve, Types, WorldTypes, authorityVars
<1>6. ASSUME NEW now \in Time, Fence(w, now)
      PROVE  WorldTypes'
  <2>1. wire' \subseteq Task \X Slot
    BY <1>0, <1>6 DEF Fence, Types, WorldTypes
  <2> QED
    BY <1>6, <2>1 DEF Fence, Types, WorldTypes, authorityVars
<1>7. \/ UNCHANGED <<authorityVars, worldVars>> \/ Present(w) \/ Granted(w) \/ Barrier(w)
      \/ \E now \in Time : Fence(w, now) \/ \E q \in Request : Reserve(w, q, now)
  BY DEF RunStep, Decide, PresentRefused, Denied, Check, Prepare, Recheck, Answer, Confirm,
         RecordApproval, Finalize, Finish, Seal, Cancel
<1> QED
  BY <1>1, <1>2, <1>3, <1>4, <1>5, <1>6, <1>7

(* Every step keeps the shapes. *)
LEMMA NextTypes == Types /\ [Next]_vars => Types'
<1> SUFFICES ASSUME Types, [Next]_vars PROVE Types'
  OBVIOUS
<1>1. ASSUME NEW w \in Run, RunStep(w) \/ Cancel(w)
      PROVE  Types'
  BY <1>1, RunStepTypes, RunStepWorld DEF Types
<1>2. ASSUME NEW w \in Run, NEW t \in Task, NEW now \in Time, Claim(w, t, now)
      PROVE  Types'
  <2> DEFINE x == [Idle EXCEPT !.pc = "decide", !.task = t, !.gen = policy.gen]
  <2>1. policy.gen \in 0 .. MaxGen
    BY DEF Types, WorldTypes
  <2>2. x \in RunRecord /\ x.pc = "decide"
    BY <2>1, IdleType DEF RunRecord, RunPc
  <2>3. run' = run \/ run' = [run EXCEPT ![w] = x]
    BY <1>2 DEF Claim
  <2> HIDE DEF x
  <2>4. Armed(x)
    BY <2>2 DEF Armed
  <2>5. RunTypes'
    BY <2>2, <2>3, <2>4, RunTypesKept DEF Types, RunTypes
  <2> QED
    BY <1>2, <2>5 DEF Claim, Types, WorldTypes, authorityVars, worldVars
<1>3. ASSUME NEW t \in Task, NEW now \in Time, Create(t, now) \/ Revoke(t, now) \/ Get(t, now)
      PROVE  Types'
  BY <1>3 DEF Create, Revoke, Get, Types, RunTypes, WorldTypes, authorityVars, worldVars
<1>4. CASE SwapPolicy
  <2>1. policy' \in [gen : 0 .. MaxGen, allowed : BOOLEAN]
    BY <1>4, GenAssumption DEF SwapPolicy, Types, WorldTypes
  <2> QED
    BY <1>4, <2>1 DEF SwapPolicy, Types, RunTypes, WorldTypes, worldVars
<1>5. CASE RequesterChanges \/ ReviewerRevoked
  BY <1>5 DEF RequesterChanges, ReviewerRevoked, Types, RunTypes, WorldTypes, worldVars
<1>6. ASSUME NEW t \in Task, NEW s \in Slot, Provider(t, s)
      PROVE  Types'
  <2>0. PICK x \in Task \X Slot : x = <<t, s>>
    OBVIOUS
  <2>1. effects' \in [Task \X Slot -> Nat] /\ wire' \subseteq Task \X Slot
    <3>1. effects \in [Task \X Slot -> Nat] /\ wire \subseteq Task \X Slot
      BY DEF Types, WorldTypes
    <3>2. wire' = wire \ {x} /\ (effects' = [effects EXCEPT ![x] = @ + 1] \/ effects' = effects)
      BY <1>6, <2>0 DEF Provider
    <3> QED
      BY <3>1, <3>2
  <2> QED
    BY <1>6, <2>1 DEF Provider, Types, RunTypes, WorldTypes, authorityVars
<1>7. CASE Crash
  <2>1. audit' \in [Task \X Slot -> {"none", "queued", "durable"}]
    BY <1>7 DEF Crash, Types, WorldTypes
  <2>2. RunTypes'
    BY <1>7, IdleType DEF Crash, RunTypes, Armed
  <2> QED
    BY <1>7, <2>1, <2>2 DEF Crash, Types, WorldTypes, authorityVars
<1>8. CASE Restart
  <2>1. policy' \in [gen : 0 .. MaxGen, allowed : BOOLEAN]
    BY <1>8, GenAssumption DEF Restart
  <2>2. reviewed' \in [Task -> SUBSET (0 .. MaxGen)]
    BY <1>8 DEF Restart
  <2> QED
    BY <1>8, <2>1, <2>2 DEF Restart, Types, RunTypes, WorldTypes
<1>9. CASE UNCHANGED vars
  BY <1>9 DEF vars, Types, RunTypes, WorldTypes, authorityVars, worldVars
<1> QED
  BY <1>1, <1>2, <1>3, <1>4, <1>5, <1>6, <1>7, <1>8, <1>9 DEF Next

(* The daemon starts with idle runs. *)
LEMMA InitTypes == Init => Types
<1> SUFFICES ASSUME Init PROVE Types
  OBVIOUS
<1>1. RunTypes
  BY IdleType DEF Init, RunTypes, Armed
<1>2. WorldTypes
  BY GenAssumption DEF Init, WorldTypes
<1> QED
  BY <1>1, <1>2 DEF Types

-----------------------------------------------------------------------------
(* Every step is a call of the ledger, or leaves it alone. *)

(* A call on one task is a step of the ledger. *)
LEMMA TaskCall ==
    ASSUME NEW t \in Task, NEW now \in Time, Ledger!TaskNext(t, now)
    PROVE  Ledger!Next
BY DEF Ledger!Next, Time

(* The steps of a run. *)
LEMMA RunStepRefines ==
    ASSUME Types, NEW w \in Run, RunStep(w) \/ Cancel(w)
    PROVE  [Ledger!Next]_ledgerVars
<1> DEFINE t == run[w].task
           s == run[w].slot
           q == run[w].request
<1>0. t \in Task /\ s \in Slot /\ Armed(run[w])
  BY DEF Types, RunTypes, RunRecord
<1>1. ASSUME NEW now \in Time, RecordApproval(w, now)
      PROVE  [Ledger!Next]_ledgerVars
  <2> DEFINE mode == IF gate = "remote" THEN "paired_workstation" ELSE "factor"
             receipt == IF gate = "remote" THEN "bound" ELSE "none"
  <2>1. mode \in Ledger!ApprovalMode /\ receipt \in Ledger!Receipt
    BY DEF Ledger!ApprovalMode, Ledger!Receipt
  <2>2. Ledger!ApproveWithReceipt(t, mode, receipt, now) \/ UNCHANGED ledgerVars
    BY <1>1 DEF RecordApproval
  <2> HIDE DEF mode, receipt
  <2>3. Ledger!TaskNext(t, now) \/ UNCHANGED ledgerVars
    BY <2>1, <2>2 DEF Ledger!TaskNext
  <2> QED
    BY <1>0, <2>3, TaskCall
<1>2. ASSUME NEW now \in Time, Fence(w, now)
      PROVE  [Ledger!Next]_ledgerVars
  <2>1. q \in Request
    BY <1>0, <1>2 DEF Armed, Fence
  <2>2. Ledger!AuthorizeDispatch(t, s, q, now) \/ UNCHANGED ledgerVars
    BY <1>2 DEF Fence
  <2>3. Ledger!TaskNext(t, now) \/ UNCHANGED ledgerVars
    BY <1>0, <2>1, <2>2 DEF Ledger!TaskNext
  <2> QED
    BY <1>0, <2>3, TaskCall
<1>3. ASSUME NEW now \in Time, Finalize(w, now)
      PROVE  [Ledger!Next]_ledgerVars
  <2>1. q \in Request /\ run[w].outcome \in Ledger!Outcome
    BY <1>0, <1>3 DEF Armed, Finalize
  <2>2. Ledger!FinalizeSlot(t, s, q, run[w].outcome, now)
    BY <1>3 DEF Finalize
  <2>3. Ledger!TaskNext(t, now)
    BY <1>0, <2>1, <2>2 DEF Ledger!TaskNext
  <2> QED
    BY <1>0, <2>3, TaskCall
<1>4. ASSUME NEW now \in Time, Finish(w, now) \/ Seal(w, now)
      PROVE  [Ledger!Next]_ledgerVars
  <2>1. Ledger!TaskNext(t, now)
    BY <1>4 DEF Finish, Seal, Ledger!TaskNext
  <2> QED
    BY <1>0, <2>1, TaskCall
<1>5. ASSUME NEW now \in Time, NEW r \in Request, Reserve(w, r, now)
      PROVE  [Ledger!Next]_ledgerVars
  <2>1. Ledger!ReserveSlot(t, s, r, now)
    BY <1>5 DEF Reserve
  <2>2. Ledger!TaskNext(t, now)
    BY <1>0, <2>1 DEF Ledger!TaskNext
  <2> QED
    BY <1>0, <2>2, TaskCall
<1>6. CASE UNCHANGED ledgerVars
  BY <1>6
<1>7. \/ UNCHANGED ledgerVars
      \/ \E now \in Time : \/ RecordApproval(w, now) \/ Fence(w, now) \/ Finalize(w, now)
                           \/ Finish(w, now) \/ Seal(w, now)
                           \/ \E r \in Request : Reserve(w, r, now)
  BY DEF RunStep, Decide, Present, PresentRefused, Granted, Denied, Check, Barrier, Prepare,
         Recheck, Answer, Confirm, Cancel
<1> HIDE DEF t, s, q
<1> QED
  BY <1>1, <1>2, <1>3, <1>4, <1>5, <1>6, <1>7

(* The other steps. *)
LEMMA NextRefines == Types /\ [Next]_vars => [Ledger!Next]_(Ledger!vars)
<1> SUFFICES ASSUME Types, [Next]_vars PROVE [Ledger!Next]_ledgerVars
  BY DEF Ledger!vars, ledgerVars
<1>1. ASSUME NEW w \in Run, RunStep(w) \/ Cancel(w)
      PROVE  [Ledger!Next]_ledgerVars
  BY <1>1, RunStepRefines
<1>2. ASSUME NEW w \in Run, NEW t \in Task, NEW now \in Time, Claim(w, t, now)
      PROVE  [Ledger!Next]_ledgerVars
  BY <1>2, TaskCall DEF Claim, Ledger!TaskNext
<1>3. ASSUME NEW t \in Task, NEW now \in Time, Create(t, now) \/ Revoke(t, now) \/ Get(t, now)
      PROVE  [Ledger!Next]_ledgerVars
  BY <1>3, TaskCall DEF Create, Revoke, Get, Ledger!TaskNext
<1>4. CASE Crash \/ Restart
  BY <1>4 DEF Crash, Restart, Ledger!Next
<1>5. CASE SwapPolicy \/ RequesterChanges \/ ReviewerRevoked
  BY <1>5 DEF SwapPolicy, RequesterChanges, ReviewerRevoked
<1>6. ASSUME NEW t \in Task, NEW s \in Slot, Provider(t, s)
      PROVE  [Ledger!Next]_ledgerVars
  BY <1>6 DEF Provider
<1>7. CASE UNCHANGED vars
  BY <1>7 DEF vars
<1> QED
  BY <1>1, <1>2, <1>3, <1>4, <1>5, <1>6, <1>7 DEF Next

(* execute_task uses the ledger only as TaskStore allows: every step of the *)
(* concurrent runs, cancellation, crash and restart included, is one call   *)
(* of the ledger or leaves it alone.                                        *)
THEOREM RunsRefineLedger == Spec => LedgerSpec
<1>1. Init => Ledger!Init
  BY DEF Init
<1> QED
  BY <1>1, InitTypes, NextTypes, NextRefines, PTL DEF Spec, LedgerSpec, Ledger!Spec

-----------------------------------------------------------------------------
(* What TaskStoreProofs shows of the ledger holds of the runs' ledger.      *)

(* The assumptions of the ledger. *)
LEMMA StoreAssumptions ==
    /\ Store!IsFiniteSet(Slot) /\ Slot # {}
    /\ NoRequest \notin Request
    /\ MaxTime \in Nat /\ Lifetime \in Nat \ {0}
<1>1. Store!IsFiniteSet(Slot)
  BY SlotOrderAssumption DEF IsFiniteSet, Store!IsFiniteSet
<1> QED
  BY <1>1, LedgerAssumption

(* One ledger, named twice: the definitions are the same. *)
LEMMA SameLedger ==
    /\ Ledger!Init => Store!Init
    /\ [Ledger!Next]_(Ledger!vars) => [Store!Next]_(Store!vars)
    /\ Store!TypeOK => Ledger!TypeOK
    /\ Store!NeverCorrupt => Ledger!NeverCorrupt
<1> USE DEF Ledger!None, Store!None, Ledger!Time, Store!Time, Ledger!OptTime, Store!OptTime,
            Ledger!TaskState, Store!TaskState, Ledger!Terminal, Store!Terminal,
            Ledger!SlotState, Store!SlotState, Ledger!Outcome, Store!Outcome,
            Ledger!OutcomeState, Store!OutcomeState, Ledger!ApprovalMode, Store!ApprovalMode,
            Ledger!SlotRecord, Store!SlotRecord, Ledger!TaskRecord, Store!TaskRecord,
            Ledger!PendingSlot, Store!PendingSlot, Ledger!NewRecord, Store!NewRecord,
            Ledger!NoRecord, Store!NoRecord, Ledger!Exists, Store!Exists,
            Ledger!VerifyApproval, Store!VerifyApproval, Ledger!VerifySlot, Store!VerifySlot,
            Ledger!VerifyState, Store!VerifyState, Ledger!VerifyRecord, Store!VerifyRecord
<1>1. Ledger!Init => Store!Init
  BY DEF Ledger!Init, Store!Init
<1>2. Store!TypeOK => Ledger!TypeOK
  BY DEF Ledger!TypeOK, Store!TypeOK
<1>3. Store!NeverCorrupt => Ledger!NeverCorrupt
  BY DEF Ledger!NeverCorrupt, Store!NeverCorrupt
<1>4. [Ledger!Next]_(Ledger!vars) => [Store!Next]_(Store!vars)
  <2>1. ASSUME NEW t \in Task, NEW now \in Time
        PROVE  Ledger!TaskNext(t, now) => Store!TaskNext(t, now)
    <3>1. Ledger!Create(t, now) => Store!Create(t, now)
      BY DEF Ledger!Create, Store!Create
    <3>2. Ledger!Get(t, now) => Store!Get(t, now)
      BY DEF Ledger!Get, Store!Get, Ledger!Mutate, Store!Mutate, Ledger!Loaded,
             Store!Loaded, Ledger!RefreshExpiry, Store!RefreshExpiry
    <3>3. Ledger!Claim(t, now) => Store!Claim(t, now)
      BY DEF Ledger!Claim, Store!Claim, Ledger!CanClaim, Store!CanClaim, Ledger!AfterClaim,
             Store!AfterClaim, Ledger!CheckActive, Store!CheckActive, Ledger!Mutate,
             Store!Mutate, Ledger!Loaded, Store!Loaded, Ledger!RefreshExpiry,
             Store!RefreshExpiry
    <3>4. Ledger!FinishRun(t, now) => Store!FinishRun(t, now)
      BY DEF Ledger!FinishRun, Store!FinishRun, Ledger!CanFinishRun, Store!CanFinishRun,
             Ledger!AfterFinishRun, Store!AfterFinishRun, Ledger!Interrupted,
             Store!Interrupted, Ledger!ClosingState, Store!ClosingState, Ledger!Mutate,
             Store!Mutate, Ledger!Loaded, Store!Loaded, Ledger!RefreshExpiry,
             Store!RefreshExpiry
    <3>5. Ledger!Revoke(t, now) => Store!Revoke(t, now)
      BY DEF Ledger!Revoke, Store!Revoke, Ledger!AfterRevoke, Store!AfterRevoke,
             Ledger!Mutate, Store!Mutate, Ledger!Loaded, Store!Loaded, Ledger!RefreshExpiry,
             Store!RefreshExpiry
    <3>6. ASSUME NEW mode, NEW receipt
          PROVE  Ledger!ApproveWithReceipt(t, mode, receipt, now) => Store!ApproveWithReceipt(t, mode, receipt, now)
      BY DEF Ledger!ApproveWithReceipt, Store!ApproveWithReceipt, Ledger!CanApprove,
             Store!CanApprove, Ledger!AfterApprove, Store!AfterApprove, Ledger!CheckActive,
             Store!CheckActive, Ledger!Mutate, Store!Mutate, Ledger!Loaded, Store!Loaded,
             Ledger!RefreshExpiry, Store!RefreshExpiry
    <3>7. ASSUME NEW s, NEW q
          PROVE  Ledger!ReserveSlot(t, s, q, now) => Store!ReserveSlot(t, s, q, now)
      BY DEF Ledger!ReserveSlot, Store!ReserveSlot, Ledger!CanReserve, Store!CanReserve,
             Ledger!AfterReserve, Store!AfterReserve, Ledger!CheckActive, Store!CheckActive,
             Ledger!Mutate, Store!Mutate, Ledger!Loaded, Store!Loaded, Ledger!RefreshExpiry,
             Store!RefreshExpiry
    <3>8. ASSUME NEW s, NEW q
          PROVE  Ledger!AuthorizeDispatch(t, s, q, now) => Store!AuthorizeDispatch(t, s, q, now)
      BY DEF Ledger!AuthorizeDispatch, Store!AuthorizeDispatch, Ledger!CanDispatch,
             Store!CanDispatch, Ledger!HoldsReservation, Store!HoldsReservation,
             Ledger!CheckActive, Store!CheckActive, Ledger!Mutate, Store!Mutate,
             Ledger!Loaded, Store!Loaded, Ledger!RefreshExpiry, Store!RefreshExpiry
    <3>9. ASSUME NEW s, NEW q, NEW o
          PROVE  Ledger!FinalizeSlot(t, s, q, o, now) => Store!FinalizeSlot(t, s, q, o, now)
      BY DEF Ledger!FinalizeSlot, Store!FinalizeSlot, Ledger!CanFinalize, Store!CanFinalize,
             Ledger!AfterFinalize, Store!AfterFinalize, Ledger!HoldsReservation,
             Store!HoldsReservation, Ledger!ClosingState, Store!ClosingState, Ledger!Mutate,
             Store!Mutate, Ledger!Loaded, Store!Loaded, Ledger!RefreshExpiry,
             Store!RefreshExpiry
    <3> QED
      BY <3>1, <3>2, <3>3, <3>4, <3>5, <3>6, <3>7, <3>8, <3>9 DEF Ledger!TaskNext, Store!TaskNext, Ledger!Receipt, Store!Receipt
  <2>2. ASSUME NEW page, NEW now
        PROVE  Ledger!ListPage(page, now) => Store!ListPage(page, now)
    BY DEF Ledger!ListPage, Store!ListPage, Ledger!RefreshExpiry, Store!RefreshExpiry,
           Ledger!Loaded, Store!Loaded
  <2>3. (Ledger!Close => Store!Close) /\ (Ledger!Open => Store!Open)
    BY DEF Ledger!Close, Store!Close, Ledger!Open, Store!Open, Ledger!Recovered,
           Store!Recovered, Ledger!Interrupted, Store!Interrupted, Ledger!ClosingState,
           Store!ClosingState, Ledger!RefreshExpiry, Store!RefreshExpiry
  <2> QED
    BY <2>1, <2>2, <2>3 DEF Ledger!Next, Store!Next, Ledger!vars, Store!vars, Time
<1> QED
  BY <1>1, <1>2, <1>3, <1>4

(* Every row the runs' ledger holds has the shape of a row and verifies.    *)
LEMMA LedgerSound == Spec => [](Ledger!TypeOK /\ Ledger!NeverCorrupt)
<1>1. Store!Spec => []Store!TypeOK
  BY Store!TypeCorrect, StoreAssumptions
<1>2. Store!Spec => []Store!NeverCorrupt
  BY Store!LedgerNeverCorrupt, StoreAssumptions
<1>3. Spec => Ledger!Spec
  BY RunsRefineLedger DEF LedgerSpec
<1> QED
  BY <1>1, <1>2, <1>3, SameLedger, PTL DEF Ledger!Spec, Store!Spec

-----------------------------------------------------------------------------
(* The inductive invariant. *)

Working(x) == x.pc # "idle"

(* The steps of a run before its slot is charged, before it is sent, and    *)
(* while the charge is open.                                                *)
Unreviewed == {"decide", "review", "prompt", "record"}
Uncharged == Unreviewed \cup {"check", "reserve"}
Unsent == {"barrier", "prepare", "recheck", "fence"}
Charged == Unsent \cup {"sent", "settle"}
Approved == {"record", "check", "reserve", "confirm"} \cup Charged

(* A slot of a row, and the writes made for it. *)
SlotOK(state, done, sent) ==
    /\ done + (IF sent THEN 1 ELSE 0) <= 1
    /\ state = "ApiAccepted" => done = 1
    /\ state \in {"Rejected", "Pending"} => done = 0 /\ ~sent

(* A task: before the claim nothing was asked or charged. *)
TaskOK(t, r, asked, eff, out) ==
    /\ r.state \in {"Absent", "Planned"} =>
          asked = 0 /\ r.slots = [s \in Slot |-> Ledger!PendingSlot]
    /\ asked <= 1
    /\ \A s \in Slot : SlotOK(r.slots[s].state, eff[<<t, s>>], <<t, s>> \in out)

(* A run and its task: slots before its own are accepted, those after it    *)
(* pending, its own as far as the run is.                                   *)
RunOK(x, r, asked, eff, out) ==
    LET own  == r.slots[x.slot]
        done == eff[<<x.task, x.slot>>]
        sent == <<x.task, x.slot>> \in out
    IN  /\ r.state \notin {"Absent", "Planned"}
        /\ x.pc \in {"decide", "review"} => asked = 0
        /\ x.pc # "seal" => \A s \in Slot :
              /\ s < x.slot => r.slots[s].state = "ApiAccepted"
              /\ s > x.slot => r.slots[s].state = "Pending"
        /\ x.pc \in Uncharged => own.state = "Pending"
        /\ x.pc \in Charged => own.state = "Reserved" /\ own.request_id = x.request
        /\ x.pc \in Unsent => done = 0 /\ ~sent
        /\ x.pc = "settle" =>
              /\ x.outcome = "api_accepted" => done = 1
              /\ x.outcome = "rejected" => done = 0 /\ ~sent
        /\ x.pc = "confirm" => own.state = Ledger!OutcomeState(x.outcome)
        /\ x.pc \in {"confirm", "finish"} => own.state # "Reserved"
        /\ x.pc = "seal" => \A s \in Slot : s # x.slot => r.slots[s].state # "Reserved"

(* The authority a run carries. *)
AuthorityOK(x, approvals, started) ==
    /\ x.gen <= policy.gen
    /\ x.pc \in Approved => x.gen \in approvals
    /\ x.pc = "fence" /\ x.gen = policy.gen => policy.allowed
    /\ x.pc \in {"prepare", "recheck", "fence"} => started[<<x.task, x.slot>>] = "durable"

Tasks == \A t \in Task : TaskOK(t, records[t], prompts[t], effects, wire)

Runs == \A w \in Run : Working(run[w]) =>
    LET t == run[w].task IN RunOK(run[w], records[t], prompts[t], effects, wire)

Authority == \A w \in Run : Working(run[w]) =>
    AuthorityOK(run[w], reviewed[run[w].task], audit)

(* A task is worked on by one run, by none while nothing serves, and has no *)
(* open charge when no run works on it.                                     *)
Settled(r) == \A s \in Slot : r.slots[s].state # "Reserved"

Owners ==
    /\ \A w, v \in Run :
          Working(run[w]) /\ Working(run[v]) /\ run[w].task = run[v].task => w = v
    /\ ~open => \A w \in Run : ~Working(run[w])
    /\ open => \A t \in Task :
          Settled(records[t]) \/ \E w \in Run : Working(run[w]) /\ run[w].task = t

Core == Tasks /\ Runs /\ Authority /\ Owners

(* What is known of the state before and after every step. *)
Sound == Types /\ Ledger!TypeOK /\ Ledger!NeverCorrupt

-----------------------------------------------------------------------------
(* The calls of the ledger. *)

(* What an expiry observed on the way changes. *)
SameSlots(r, old) ==
    /\ r.slots = old.slots
    /\ old.state \notin {"Absent", "Planned"} => r.state \notin {"Absent", "Planned"}
    /\ r.state \in {"Absent", "Planned"} => old.state \in {"Absent", "Planned"}

(* Loading a row changes its state at most, and that to Expired.            *)
LEMMA LoadedFacts ==
    ASSUME Ledger!TypeOK, NEW t \in Task, NEW now \in Time
    PROVE  LET r == Ledger!Loaded(t, now)
               old == records[t]
           IN  /\ r \in Ledger!TaskRecord /\ old \in Ledger!TaskRecord
               /\ r.slots = old.slots /\ r.approved_at = old.approved_at
               /\ r.state = old.state
                  \/ (r.state = "Expired" /\ old.state \in {"Planned", "Running"})
               /\ SameSlots(r, old)
BY DEF Ledger!TypeOK, Ledger!Loaded, Ledger!RefreshExpiry, Ledger!TaskRecord,
       Ledger!TaskState, SameSlots

(* A call stores what it was asked to: no row is found corrupt.             *)
LEMMA MutateFacts ==
    ASSUME Sound, Sound', NEW t \in Task, NEW before, NEW ok, NEW after,
           Ledger!Mutate(t, before, ok, after)
    PROVE  /\ records' = [records EXCEPT ![t] = IF ok THEN after ELSE before]
           /\ open /\ open' = open /\ records[t].state # "Absent"
BY DEF Sound, Ledger!NeverCorrupt, Ledger!Mutate, Ledger!Exists

-----------------------------------------------------------------------------
(* Steps of one run. *)

(* Everything but the task t stays. *)
Untouched(t) ==
    \A u \in Task \ {t} :
       /\ prompts'[u] = prompts[u] /\ reviewed'[u] = reviewed[u]
       /\ \A s \in Slot : /\ effects'[<<u, s>>] = effects[<<u, s>>]
                          /\ <<u, s>> \in wire' <=> <<u, s>> \in wire
                          /\ audit'[<<u, s>>] = audit[<<u, s>>]

(* TaskOK speaks of one task. *)
LEMMA OtherTask ==
    ASSUME NEW t, NEW u \in Task \ {t}, Untouched(t), NEW r,
           TaskOK(u, r, prompts[u], effects, wire)
    PROVE  TaskOK(u, r, prompts'[u], effects', wire')
BY DEF Untouched, TaskOK, SlotOK

(* RunOK speaks of the task of the run. *)
LEMMA OtherRun ==
    ASSUME NEW t, NEW u \in Task \ {t}, Untouched(t), NEW x \in RunRecord, x.task = u,
           NEW r, RunOK(x, r, prompts[u], effects, wire)
    PROVE  RunOK(x, r, prompts'[u], effects', wire')
<1>1. x.slot \in Slot
  BY DEF RunRecord
<1> QED
  BY <1>1 DEF Untouched, RunOK

(* So does AuthorityOK. *)
LEMMA OtherAuthority ==
    ASSUME NEW t, NEW u \in Task \ {t}, Untouched(t), NEW x \in RunRecord, x.task = u,
           AuthorityOK(x, reviewed[u], audit)
    PROVE  AuthorityOK(x, reviewed'[u], audit')
<1>1. x.slot \in Slot
  BY DEF RunRecord
<1> QED
  BY <1>1 DEF Untouched, AuthorityOK

(* A step of a run keeps the invariant when it keeps it for the run and its *)
(* own task, on which no other run works.                                   *)
LEMMA OwnStep ==
    ASSUME Sound, Sound', Core, NEW w \in Run, NEW t \in Task, NEW x \in RunRecord, NEW r,
           run' = [run EXCEPT ![w] = x], records' = [records EXCEPT ![t] = r],
           Working(run[w]) => run[w].task = t,
           \A v \in Run \ {w} : Working(run[v]) => run[v].task # t,
           Working(x) => x.task = t, ~Working(x) => Settled(r),
           open, open' = open, policy' = policy, Untouched(t),
           TaskOK(t, r, prompts'[t], effects', wire'),
           Working(x) => RunOK(x, r, prompts'[t], effects', wire'),
           Working(x) => AuthorityOK(x, reviewed'[t], audit')
    PROVE  Core'
<1>0. /\ run \in [Run -> RunRecord] /\ run'[w] = x
      /\ \A v \in Run \ {w} : run'[v] = run[v] /\ run[v] \in RunRecord /\ run[v].task \in Task
      /\ records'[t] = r /\ \A u \in Task \ {t} : records'[u] = records[u]
  BY DEF Sound, Types, RunTypes, RunRecord, Ledger!TypeOK
<1>1. Tasks'
  <2>1. ASSUME NEW u \in Task
        PROVE  TaskOK(u, records'[u], prompts'[u], effects', wire')
    <3>1. CASE u = t
      BY <1>0, <3>1
    <3>2. CASE u # t
      <4>1. TaskOK(u, records[u], prompts[u], effects, wire)
        BY DEF Core, Tasks
      <4> QED
        BY <1>0, <3>2, <4>1, OtherTask
    <3> QED
      BY <3>1, <3>2
  <2> QED
    BY <2>1 DEF Tasks
<1>2. Runs'
  <2>1. ASSUME NEW v \in Run, Working(run'[v])
        PROVE  LET u == run'[v].task IN RunOK(run'[v], records'[u], prompts'[u], effects', wire')
    <3>1. CASE v = w
      BY <1>0, <2>1, <3>1
    <3>2. CASE v # w
      <4> DEFINE u == run[v].task
      <4>1. Working(run[v]) /\ u \in Task \ {t} /\ run[v] \in RunRecord
        BY <1>0, <2>1, <3>2
      <4>2. RunOK(run[v], records[u], prompts[u], effects, wire)
        BY <4>1 DEF Core, Runs
      <4>3. RunOK(run[v], records[u], prompts'[u], effects', wire')
        BY <4>1, <4>2, OtherRun
      <4> QED
        BY <1>0, <3>2, <4>1, <4>3
    <3> QED
      BY <3>1, <3>2
  <2> QED
    BY <2>1 DEF Runs, Working
<1>3. Authority'
  <2>1. ASSUME NEW v \in Run, Working(run'[v])
        PROVE  AuthorityOK(run'[v], reviewed'[run'[v].task], audit')
    <3>1. CASE v = w
      BY <1>0, <2>1, <3>1
    <3>2. CASE v # w
      <4> DEFINE u == run[v].task
      <4>1. Working(run[v]) /\ u \in Task \ {t} /\ run[v] \in RunRecord
        BY <1>0, <2>1, <3>2
      <4>2. AuthorityOK(run[v], reviewed[u], audit)
        BY <4>1 DEF Core, Authority
      <4>3. AuthorityOK(run[v], reviewed'[u], audit')
        BY <4>1, <4>2, OtherAuthority
      <4> QED
        BY <1>0, <3>2, <4>1, <4>3
    <3> QED
      BY <3>1, <3>2
  <2>2. \A v \in Run : Working(run[v])' => AuthorityOK(run[v], reviewed[run[v].task], audit)'
    BY <2>1 DEF AuthorityOK, Working
  <2> QED
    BY <2>2 DEF Authority
<1>4. Owners'
  <2>1. \A v, u \in Run : Working(run'[v]) /\ Working(run'[u]) /\ run'[v].task = run'[u].task => v = u
    BY <1>0 DEF Core, Owners
  <2>2. ASSUME NEW u \in Task, ~Settled(records'[u])
        PROVE  \E v \in Run : Working(run'[v]) /\ run'[v].task = u
    <3>1. CASE u = t
      BY <1>0, <2>2, <3>1
    <3>2. CASE u # t
      <4>1. PICK v \in Run : Working(run[v]) /\ run[v].task = u
        BY <1>0, <2>2, <3>2 DEF Core, Owners
      <4> QED
        BY <1>0, <3>2, <4>1
    <3> QED
      BY <3>1, <3>2
  <2> QED
    BY <2>1, <2>2 DEF Owners, Working, Settled
<1> QED
  BY <1>1, <1>2, <1>3, <1>4 DEF Core

(* What the invariant says of a working run. *)
LEMMA RunFacts ==
    ASSUME Sound, Core, NEW w \in Run, Working(run[w])
    PROVE  LET t == run[w].task IN
           /\ run \in [Run -> RunRecord] /\ run[w] \in RunRecord
           /\ t \in Task /\ run[w].slot \in Slot /\ open
           /\ records[t] \in Ledger!TaskRecord /\ prompts[t] \in Nat
           /\ TaskOK(t, records[t], prompts[t], effects, wire)
           /\ RunOK(run[w], records[t], prompts[t], effects, wire)
           /\ AuthorityOK(run[w], reviewed[t], audit)
           /\ \A v \in Run \ {w} : Working(run[v]) => run[v].task # t
<1>1. run \in [Run -> RunRecord] /\ run[w] \in RunRecord
  BY DEF Sound, Types, RunTypes
<1>2. run[w].task \in Task /\ run[w].slot \in Slot
  BY <1>1 DEF RunRecord
<1>3. records[run[w].task] \in Ledger!TaskRecord /\ prompts[run[w].task] \in Nat
  BY <1>2 DEF Sound, Ledger!TypeOK, Types, WorldTypes
<1>4. /\ TaskOK(run[w].task, records[run[w].task], prompts[run[w].task], effects, wire)
      /\ RunOK(run[w], records[run[w].task], prompts[run[w].task], effects, wire)
      /\ AuthorityOK(run[w], reviewed[run[w].task], audit)
  BY <1>2 DEF Core, Tasks, Runs, Authority
<1>5. open /\ \A v \in Run \ {w} : Working(run[v]) => run[v].task # run[w].task
  BY DEF Core, Owners
<1> QED
  BY <1>1, <1>2, <1>3, <1>4, <1>5

(* A step of a working run that leaves the world and the slots alone.       *)
LEMMA MoveStep ==
    ASSUME Sound, Sound', Core, NEW w \in Run, Working(run[w]), NEW x \in RunRecord, NEW r,
           Working(x), x.task = run[w].task,
           run' = [run EXCEPT ![w] = x],
           records' = [records EXCEPT ![run[w].task] = r],
           SameSlots(r, records[run[w].task]),
           open' = open, policy' = policy, UNCHANGED worldVars,
           LET t == run[w].task
           IN  /\ RunOK(x, records[t], prompts[t], effects, wire)
               /\ AuthorityOK(x, reviewed[t], audit)
    PROVE  Core'
<1> DEFINE t == run[w].task
<1>0. UNCHANGED <<prompts, reviewed, audit, wire, effects>>
  BY DEF worldVars
<1>1. /\ t \in Task /\ open /\ TaskOK(t, records[t], prompts[t], effects, wire)
      /\ \A v \in Run \ {w} : Working(run[v]) => run[v].task # t
  BY RunFacts
<1>2. Untouched(t)
  BY <1>0 DEF Untouched
<1>3. TaskOK(t, r, prompts'[t], effects', wire')
  BY <1>0, <1>1 DEF TaskOK, SameSlots
<1>4. RunOK(x, r, prompts'[t], effects', wire')
  BY <1>0, <1>1 DEF RunOK, SameSlots
<1>5. AuthorityOK(x, reviewed'[t], audit')
  BY <1>0, <1>1
<1> HIDE DEF t
<1> QED
  BY <1>1, <1>2, <1>3, <1>4, <1>5, OwnStep DEF t

(* A step that moves a run on; the ways the code does. *)
LEMMA GotoStep ==
    ASSUME Sound, Sound', Core, NEW w \in Run, Working(run[w]), NEW pc \in RunPc, Goto(w, pc),
           NEW r, records' = [records EXCEPT ![run[w].task] = r],
           SameSlots(r, records[run[w].task]),
           open' = open, policy' = policy, UNCHANGED worldVars,
           \/ pc = "seal"
           \/ run[w].pc = "decide" /\ pc = "review"
           \/ run[w].pc = "record" /\ pc = "check"
           \/ run[w].pc = "check" /\ pc = "reserve"
           \/ run[w].pc = "prepare" /\ pc = "recheck"
           \/ run[w].pc = "recheck" /\ pc = "fence" /\ (SameGeneration(w) => policy.allowed)
           \/ run[w].pc = "confirm" /\ pc = "finish"
    PROVE  Core'
<1> DEFINE x == [run[w] EXCEPT !.pc = pc]
           t == run[w].task
<1>1. /\ run' = [run EXCEPT ![w] = x]
      /\ x \in RunRecord /\ x.pc = pc
      /\ x.task = run[w].task /\ x.gen = run[w].gen /\ x.slot = run[w].slot
      /\ x.request = run[w].request /\ x.outcome = run[w].outcome
  BY GotoFacts DEF Sound, Types
<1> HIDE DEF x
<1>2. Working(x)
  BY <1>1 DEF Working
<1>3. /\ RunOK(run[w], records[t], prompts[t], effects, wire)
      /\ AuthorityOK(run[w], reviewed[t], audit)
      /\ t \in Task /\ run[w].slot \in Slot
  BY RunFacts
<1>4. RunOK(x, records[t], prompts[t], effects, wire)
  <2>1. CASE pc = "seal" /\ run[w].pc # "seal"
    <3>1. \A s \in Slot : s # x.slot => records[t].slots[s].state # "Reserved"
      <4>1. ASSUME NEW s \in Slot, s # x.slot
            PROVE  records[t].slots[s].state \in {"ApiAccepted", "Pending"}
        <5>1. s < run[w].slot \/ s > run[w].slot
          BY <1>1, <1>3, <4>1, FirstSlot
        <5> QED
          BY <1>3, <2>1, <5>1 DEF RunOK
      <4> QED
        BY <4>1
    <3> QED
      BY <1>1, <1>3, <2>1, <3>1 DEF RunOK, Uncharged, Unreviewed, Unsent, Charged
  <2>2. CASE pc = "seal" /\ run[w].pc = "seal"
    BY <1>1, <1>3, <2>2 DEF RunOK, Uncharged, Unreviewed, Unsent, Charged
  <2>3. CASE pc # "seal"
    BY <1>1, <1>3, <2>3 DEF RunOK, Uncharged, Unreviewed, Unsent, Charged
  <2> QED
    BY <2>1, <2>2, <2>3
<1>5. AuthorityOK(x, reviewed[t], audit)
  BY <1>1, <1>3 DEF AuthorityOK, Approved, Charged, Unsent, SameGeneration
<1> QED
  BY <1>1, <1>2, <1>4, <1>5, MoveStep

(* A run given up before its write is sent is settled as rejected, and the  *)
(* answer of a provider as what it tells.                                   *)
LEMMA SettleStep ==
    ASSUME Sound, Sound', Core, NEW w \in Run, NEW o \in Ledger!Outcome, Settle(w, o),
           run[w].pc \in {"prepare", "recheck", "fence", "sent"},
           NEW r, records' = [records EXCEPT ![run[w].task] = r],
           SameSlots(r, records[run[w].task]),
           open' = open, policy' = policy, UNCHANGED worldVars,
           o = "api_accepted" => effects[SlotOf(w)] = 1,
           o = "rejected" => run[w].pc # "sent" \/ (effects[SlotOf(w)] = 0 /\ SlotOf(w) \notin wire)
    PROVE  Core'
<1> DEFINE x == [run[w] EXCEPT !.pc = "settle", !.outcome = o]
           t == run[w].task
<1>1. /\ run' = [run EXCEPT ![w] = x]
      /\ x \in RunRecord /\ x.pc = "settle"
      /\ x.task = run[w].task /\ x.gen = run[w].gen /\ x.slot = run[w].slot
      /\ x.request = run[w].request /\ x.outcome = o
  BY SettleFacts DEF Sound, Types
<1> HIDE DEF x
<1>2. Working(x) /\ Working(run[w])
  BY <1>1 DEF Working
<1>3. /\ RunOK(run[w], records[t], prompts[t], effects, wire)
      /\ AuthorityOK(run[w], reviewed[t], audit)
      /\ t \in Task /\ run[w].slot \in Slot
  BY <1>2, RunFacts
<1>4. RunOK(x, records[t], prompts[t], effects, wire)
  BY <1>1, <1>3 DEF RunOK, Uncharged, Unreviewed, Unsent, Charged, SlotOf
<1>5. AuthorityOK(x, reviewed[t], audit)
  BY <1>1, <1>3 DEF AuthorityOK, Approved, Charged, Unsent
<1> QED
  BY <1>1, <1>2, <1>4, <1>5, MoveStep

(* Unchanged rows, as an update. *)
LEMMA SameRow ==
    ASSUME Sound, NEW t \in Task, records' = records
    PROVE  records' = [records EXCEPT ![t] = records[t]] /\ SameSlots(records[t], records[t])
BY DEF Sound, Ledger!TypeOK, SameSlots

(* The steps of a run that leave the ledger and the world alone.            *)
LEMMA QuietRunStep ==
    ASSUME Sound, Sound', Core, NEW w \in Run,
           \/ Decide(w) \/ PresentRefused(w) \/ Denied(w) \/ Check(w) \/ Cancel(w)
           \/ Prepare(w) \/ Recheck(w) \/ Answer(w)
    PROVE  Core'
<1> DEFINE t == run[w].task
<1>1. /\ UNCHANGED <<records, open, policy, worldVars>> /\ Working(run[w])
  BY DEF Decide, PresentRefused, Denied, Check, Cancel, Prepare, Recheck, Answer,
         ledgerVars, authorityVars, Working, Awaiting
<1>2. /\ records' = [records EXCEPT ![t] = records[t]] /\ SameSlots(records[t], records[t])
      /\ TaskOK(t, records[t], prompts[t], effects, wire) /\ SlotOf(w) = <<t, run[w].slot>>
      /\ t \in Task /\ run[w].slot \in Slot
  BY <1>1, RunFacts, SameRow DEF SlotOf
<1>3. CASE Decide(w) \/ PresentRefused(w) \/ Denied(w) \/ Check(w) \/ Cancel(w)
  <2>1. \/ Goto(w, "seal")
        \/ run[w].pc = "decide" /\ Goto(w, "review")
        \/ run[w].pc = "check" /\ Goto(w, "reserve")
    BY <1>3 DEF Decide, PresentRefused, Denied, Check, Cancel, Fail
  <2> QED
    BY <1>1, <1>2, <2>1, GotoStep DEF RunPc, Awaiting
<1>4. CASE Prepare(w) \/ Recheck(w)
  <2>1. \/ run[w].pc = "prepare" /\ Goto(w, "recheck")
        \/ run[w].pc = "recheck" /\ Goto(w, "fence") /\ policy.allowed
        \/ run[w].pc \in {"prepare", "recheck"} /\ Settle(w, "rejected")
    BY <1>4 DEF Prepare, Recheck, AuthorityHolds
  <2>2. "rejected" \in Ledger!Outcome
    BY DEF Ledger!Outcome
  <2> QED
    BY <1>1, <1>2, <2>1, <2>2, GotoStep, SettleStep DEF RunPc, Awaiting
<1>5. CASE Answer(w)
  <2>1. effects[SlotOf(w)] > 0 /\ SlotOf(w) \notin wire => effects[SlotOf(w)] = 1
    <3>1. SlotOK(records[t].slots[run[w].slot].state, effects[SlotOf(w)], SlotOf(w) \in wire)
      BY <1>2 DEF TaskOK
    <3>2. effects[SlotOf(w)] \in Nat
      BY <1>2 DEF Sound, Types, WorldTypes
    <3> QED
      BY <3>1, <3>2 DEF SlotOK
  <2>2. PICK o \in {"api_accepted", "rejected", "uncertain"} :
          /\ Settle(w, o)
          /\ o = "api_accepted" => effects[SlotOf(w)] = 1
          /\ o = "rejected" => effects[SlotOf(w)] = 0 /\ SlotOf(w) \notin wire
    BY <1>5, <2>1 DEF Answer
  <2>3. o \in Ledger!Outcome /\ run[w].pc = "sent"
    BY <1>5 DEF Ledger!Outcome, Answer
  <2> QED
    BY <1>1, <1>2, <2>2, <2>3, SettleStep
<1> QED
  BY <1>3, <1>4, <1>5

(* The slot is confirmed; the next one follows, or the end.                 *)
LEMMA ConfirmStep ==
    ASSUME Sound, Sound', Core, NEW w \in Run, Confirm(w)
    PROVE  Core'
<1> DEFINE t == run[w].task
<1>1. /\ UNCHANGED <<records, open, policy, worldVars>> /\ Working(run[w])
      /\ run[w].pc = "confirm"
  BY DEF Confirm, ledgerVars, authorityVars, Working
<1>2. /\ records' = [records EXCEPT ![t] = records[t]] /\ SameSlots(records[t], records[t])
      /\ t \in Task /\ run[w].slot \in Slot
      /\ run \in [Run -> RunRecord] /\ run[w] \in RunRecord
      /\ RunOK(run[w], records[t], prompts[t], effects, wire)
      /\ AuthorityOK(run[w], reviewed[t], audit)
  BY <1>1, RunFacts, SameRow
<1>3. CASE Goto(w, "finish") \/ Goto(w, "seal")
  BY <1>1, <1>2, <1>3, GotoStep DEF RunPc, Awaiting
<1>4. CASE /\ run[w].outcome = "api_accepted" /\ run[w].slot + 1 \in Slot
           /\ run' = [run EXCEPT ![w].pc = "check", ![w].slot = @ + 1]
  <2> DEFINE x == [run[w] EXCEPT !.pc = "check", !.slot = @ + 1]
  <2>1. run' = [run EXCEPT ![w] = x]
    BY <1>2, <1>4
  <2>2. /\ x \in RunRecord /\ x.pc = "check" /\ x.task = t /\ x.slot = run[w].slot + 1
        /\ x.gen = run[w].gen
    BY <1>2, <1>4 DEF RunRecord, RunPc, Awaiting
  <2> HIDE DEF x
  <2>3. Working(x)
    BY <2>2 DEF Working
  <2>4. records[t].slots[run[w].slot].state = "ApiAccepted"
    BY <1>1, <1>2, <1>4 DEF RunOK, Ledger!OutcomeState
  <2>5. /\ run[w].slot \in Nat
        /\ \A s \in Slot : /\ s < x.slot => records[t].slots[s].state = "ApiAccepted"
                           /\ s >= x.slot => records[t].slots[s].state = "Pending"
    <3>1. run[w].slot \in Nat
      BY <1>2, FirstSlot
    <3>2. ASSUME NEW s \in Slot, s < x.slot
          PROVE  records[t].slots[s].state = "ApiAccepted"
      <4>1. s < run[w].slot \/ s = run[w].slot
        BY <2>2, <3>1, <3>2, FirstSlot
      <4> QED
        BY <1>1, <1>2, <2>4, <4>1 DEF RunOK
    <3>3. ASSUME NEW s \in Slot, s >= x.slot
          PROVE  records[t].slots[s].state = "Pending"
      <4>1. s > run[w].slot
        BY <2>2, <3>1, <3>3, FirstSlot
      <4> QED
        BY <1>1, <1>2, <4>1 DEF RunOK
    <3> QED
      BY <3>1, <3>2, <3>3
  <2>6. RunOK(x, records[t], prompts[t], effects, wire)
    <3>1. records[t].slots[x.slot].state = "Pending"
      BY <1>4, <2>2, <2>5
    <3>2. \A s \in Slot : s > x.slot => records[t].slots[s].state = "Pending"
      BY <2>2, <2>5, FirstSlot
    <3> QED
      BY <1>1, <1>2, <2>2, <2>5, <3>1, <3>2 DEF RunOK, Uncharged, Unreviewed, Unsent, Charged
  <2>7. AuthorityOK(x, reviewed[t], audit)
    BY <1>1, <1>2, <2>2 DEF AuthorityOK, Approved, Charged, Unsent
  <2> QED
    BY <1>1, <1>2, <2>1, <2>2, <2>3, <2>6, <2>7, MoveStep
<1> QED
  BY <1>3, <1>4 DEF Confirm, Fail

(* The approval is stored. *)
LEMMA RecordStep ==
    ASSUME Sound, Sound', Core, NEW w \in Run, NEW now \in Time, RecordApproval(w, now)
    PROVE  Core'
<1> DEFINE t == run[w].task
           mode == IF gate = "remote" THEN "paired_workstation" ELSE "factor"
           receipt == IF gate = "remote" THEN "bound" ELSE "none"
           r == Ledger!Loaded(t, now)
           a == Ledger!AfterApprove(r, mode, receipt, now)
           ok == Ledger!CanApprove(r, mode, receipt, now)
<1>1. /\ UNCHANGED <<policy, worldVars>> /\ Working(run[w]) /\ run[w].pc = "record"
  BY DEF RecordApproval, authorityVars, Working
<1>2. t \in Task /\ records[t] \in Ledger!TaskRecord
  BY <1>1, RunFacts
<1>3. CASE Goto(w, "seal") /\ UNCHANGED ledgerVars
  <2>1. UNCHANGED <<records, open>>
    BY <1>3 DEF ledgerVars
  <2> QED
    BY <1>1, <1>2, <1>3, <2>1, GotoStep, SameRow DEF RunPc
<1>4. CASE /\ Ledger!ApproveWithReceipt(t, mode, receipt, now)
           /\ Goto(w, "check") \/ Goto(w, "seal")
  <2>1. r \in Ledger!TaskRecord /\ SameSlots(r, records[t])
    BY <1>2, LoadedFacts DEF Sound
  <2>2. a.slots = r.slots /\ a.state = r.state
    BY <2>1 DEF Ledger!AfterApprove, Ledger!TaskRecord
  <2>3. SameSlots(a, records[t])
    BY <2>1, <2>2 DEF SameSlots
  <2>4. Ledger!Mutate(t, r, ok, a)
    BY <1>4 DEF Ledger!ApproveWithReceipt
  <2> HIDE DEF r, a, ok
  <2>5. /\ records' = [records EXCEPT ![t] = IF ok THEN a ELSE r] /\ open' = open
    BY <1>2, <2>4, MutateFacts
  <2>6. SameSlots(IF ok THEN a ELSE r, records[t])
    BY <2>1, <2>3
  <2> QED
    BY <1>1, <1>2, <1>4, <2>5, <2>6, GotoStep DEF RunPc, Awaiting
<1> QED
  BY <1>3, <1>4 DEF RecordApproval, Fail

(* The steps that write the history of a run: its prompt, its approval, the *)
(* audit of a slot's start.                                                 *)
LEMMA HistoryStep ==
    ASSUME Sound, Sound', Core, NEW w \in Run, Present(w) \/ Granted(w) \/ Barrier(w)
    PROVE  Core'
<1> DEFINE t == run[w].task
<1>1. /\ UNCHANGED <<records, open, policy, wire, effects>> /\ Working(run[w])
      /\ run[w].pc \in {"review", "prompt", "barrier"}
  BY DEF Present, Granted, Barrier, ledgerVars, authorityVars, Working
<1>2. /\ records' = [records EXCEPT ![t] = records[t]] /\ SameSlots(records[t], records[t])
      /\ TaskOK(t, records[t], prompts[t], effects, wire) /\ SlotOf(w) = <<t, run[w].slot>>
      /\ t \in Task /\ run[w].slot \in Slot /\ prompts[t] \in Nat
      /\ RunOK(run[w], records[t], prompts[t], effects, wire)
      /\ AuthorityOK(run[w], reviewed[t], audit) /\ open
      /\ \A v \in Run \ {w} : Working(run[v]) => run[v].task # t
  BY <1>1, RunFacts, SameRow DEF SlotOf
<1>3. CASE Goto(w, "seal") /\ UNCHANGED <<prompts, reviewed, audit>>
  <2>1. UNCHANGED worldVars
    BY <1>1, <1>3 DEF worldVars
  <2> QED
    BY <1>1, <1>2, <1>3, <2>1, GotoStep DEF RunPc
<1>4. ASSUME NEW pc \in {"prompt", "record", "prepare"}, Goto(w, pc), Untouched(t),
             \/ /\ run[w].pc = "review" /\ pc = "prompt"
                /\ prompts'[t] = prompts[t] + 1 /\ UNCHANGED <<reviewed, audit>>
             \/ /\ run[w].pc = "prompt" /\ pc = "record"
                /\ run[w].gen \in reviewed'[t] /\ UNCHANGED <<prompts, audit>>
             \/ /\ run[w].pc = "barrier" /\ pc = "prepare"
                /\ audit'[SlotOf(w)] = "durable" /\ UNCHANGED <<prompts, reviewed>>
      PROVE  Core'
  <2> DEFINE x == [run[w] EXCEPT !.pc = pc]
  <2>1. /\ run' = [run EXCEPT ![w] = x]
        /\ x \in RunRecord /\ x.pc = pc
        /\ x.task = run[w].task /\ x.gen = run[w].gen /\ x.slot = run[w].slot
        /\ x.request = run[w].request /\ x.outcome = run[w].outcome
    BY <1>4, GotoFacts DEF Sound, Types, RunPc, Awaiting
  <2> HIDE DEF x
  <2>2. Working(x)
    BY <1>4, <2>1 DEF Working
  <2>3. TaskOK(t, records[t], prompts'[t], effects', wire')
    <3>0. /\ prompts[t] <= 1
          /\ run[w].pc = "review" => prompts[t] = 0
      BY <1>2 DEF TaskOK, RunOK
    <3>1. prompts'[t] <= 1
      <4>1. CASE run[w].pc = "review"
        BY <1>4, <3>0, <4>1
      <4>2. CASE run[w].pc # "review"
        BY <1>4, <3>0, <4>2
      <4> QED
        BY <4>1, <4>2
    <3>2. records[t].state \notin {"Absent", "Planned"}
      BY <1>2 DEF RunOK
    <3>3. effects' = effects /\ wire' = wire
      BY <1>1
    <3> QED
      BY <1>2, <3>1, <3>2, <3>3 DEF TaskOK
  <2>4. RunOK(x, records[t], prompts'[t], effects', wire')
    BY <1>1, <1>2, <1>4, <2>1 DEF RunOK, Uncharged, Unreviewed, Unsent, Charged
  <2>5. AuthorityOK(x, reviewed'[t], audit')
    BY <1>1, <1>2, <1>4, <2>1 DEF AuthorityOK, Approved, Charged, Unsent
  <2> QED
    BY <1>1, <1>2, <1>4, <2>1, <2>2, <2>3, <2>4, <2>5, OwnStep
<1>5. CASE Present(w)
  <2>1. \/ /\ Goto(w, "prompt") /\ run[w].pc = "review" /\ UNCHANGED <<reviewed, audit>>
           /\ prompts' = [prompts EXCEPT ![t] = @ + 1]
        \/ Goto(w, "seal") /\ UNCHANGED <<prompts, reviewed, audit>>
    BY <1>5 DEF Present, Fail
  <2>2. prompts' = [prompts EXCEPT ![t] = @ + 1] /\ UNCHANGED <<reviewed, audit>>
        => Untouched(t) /\ prompts'[t] = prompts[t] + 1
    BY <1>1, <1>2 DEF Untouched, Sound, Types, WorldTypes
  <2> QED
    BY <1>3, <1>4, <2>1, <2>2
<1>6. CASE Granted(w)
  <2>1. \/ /\ Goto(w, "record") /\ run[w].pc = "prompt" /\ UNCHANGED <<prompts, audit>>
           /\ run[w].gen = policy.gen
           /\ reviewed' = [reviewed EXCEPT ![t] = @ \cup {policy.gen}]
        \/ Goto(w, "seal") /\ UNCHANGED <<prompts, reviewed, audit>>
    BY <1>6 DEF Granted, Fail, SameGeneration
  <2>2. reviewed' = [reviewed EXCEPT ![t] = @ \cup {policy.gen}] /\ UNCHANGED <<prompts, audit>>
        => Untouched(t) /\ policy.gen \in reviewed'[t]
    BY <1>1, <1>2 DEF Untouched, Sound, Types, WorldTypes
  <2> QED
    BY <1>3, <1>4, <2>1, <2>2
<1>7. CASE Barrier(w)
  <2>1. \/ /\ Goto(w, "prepare") /\ run[w].pc = "barrier" /\ UNCHANGED <<prompts, reviewed>>
           /\ audit' = [audit EXCEPT ![SlotOf(w)] = "durable"]
        \/ Goto(w, "seal") /\ UNCHANGED <<prompts, reviewed, audit>>
    BY <1>7 DEF Barrier, Fail
  <2>2. audit' = [audit EXCEPT ![SlotOf(w)] = "durable"] /\ UNCHANGED <<prompts, reviewed>>
        => Untouched(t) /\ audit'[SlotOf(w)] = "durable"
    BY <1>1, <1>2 DEF Untouched, Sound, Types, WorldTypes
  <2> QED
    BY <1>3, <1>4, <2>1, <2>2
<1> QED
  BY <1>5, <1>6, <1>7

(* The charge of a slot. *)
LEMMA ReserveStep ==
    ASSUME Sound, Sound', Core, NEW w \in Run, NEW q \in Request, NEW now \in Time,
           Reserve(w, q, now)
    PROVE  Core'
<1> DEFINE t == run[w].task
           s == run[w].slot
           r == Ledger!Loaded(t, now)
           a == Ledger!AfterReserve(r, s, q, now)
           ok == Ledger!CanReserve(r, s, now)
<1>1. /\ UNCHANGED <<policy, prompts, reviewed, wire, effects>> /\ Working(run[w])
      /\ run[w].pc = "reserve" /\ Ledger!Mutate(t, r, ok, a)
  BY DEF Reserve, authorityVars, Working, Ledger!ReserveSlot
<1>2. /\ t \in Task /\ s \in Slot /\ records[t] \in Ledger!TaskRecord
      /\ TaskOK(t, records[t], prompts[t], effects, wire) /\ SlotOf(w) = <<t, s>>
      /\ RunOK(run[w], records[t], prompts[t], effects, wire)
      /\ AuthorityOK(run[w], reviewed[t], audit) /\ open
      /\ run \in [Run -> RunRecord] /\ run[w] \in RunRecord
      /\ \A v \in Run \ {w} : Working(run[v]) => run[v].task # t
  BY <1>1, RunFacts DEF SlotOf
<1>3. r \in Ledger!TaskRecord /\ SameSlots(r, records[t]) /\ r.slots = records[t].slots
  BY <1>2, LoadedFacts DEF Sound
<1>4. /\ a.state = r.state
      /\ \A i \in Slot \ {s} : a.slots[i] = r.slots[i]
      /\ a.slots[s].state = "Reserved" /\ a.slots[s].request_id = q
  BY <1>2, <1>3 DEF Ledger!AfterReserve, Ledger!TaskRecord, Ledger!SlotRecord
<1>5. /\ records' = [records EXCEPT ![t] = IF ok THEN a ELSE r] /\ open' = open
  <2>1. t \in Task /\ Ledger!Mutate(t, r, ok, a)
    BY <1>1, <1>2
  <2> HIDE DEF t, r, a, ok
  <2> QED
    BY <2>1, MutateFacts
<1>6. CASE ~ok
  <2>1. Goto(w, "seal") /\ UNCHANGED audit
    BY <1>6 DEF Reserve, Fail
  <2>2. records' = [records EXCEPT ![t] = r] /\ UNCHANGED worldVars
    BY <1>1, <1>5, <1>6, <2>1 DEF worldVars
  <2> HIDE DEF r, a, ok
  <2> QED
    BY <1>1, <1>2, <1>3, <1>5, <2>1, <2>2, GotoStep DEF RunPc
<1>7. CASE ok
  <2> DEFINE x == [run[w] EXCEPT !.pc = "barrier", !.request = q]
  <2>1. /\ run' = [run EXCEPT ![w].pc = "barrier", ![w].request = q]
        /\ audit' = [audit EXCEPT ![SlotOf(w)] = "queued"]
        /\ r.state = "Running"
    BY <1>7 DEF Reserve, Ledger!CanReserve
  <2>2. run' = [run EXCEPT ![w] = x]
    BY <1>2, <2>1
  <2>3. /\ x \in RunRecord /\ x.pc = "barrier" /\ x.task = t /\ x.slot = s
        /\ x.gen = run[w].gen /\ x.request = q
    BY <1>2 DEF RunRecord, RunPc, Awaiting
  <2>4. records' = [records EXCEPT ![t] = a]
    BY <1>5, <1>7
  <2> HIDE DEF x, r, a, ok
  <2>5. Working(x)
    BY <2>3 DEF Working
  <2>6. Untouched(t)
    BY <1>1, <1>2, <2>1 DEF Untouched, Sound, Types, WorldTypes
  <2>7. /\ effects[<<t, s>>] = 0 /\ <<t, s>> \notin wire
        /\ records[t].slots[s].state = "Pending"
    BY <1>1, <1>2 DEF RunOK, TaskOK, SlotOK, Uncharged, Unreviewed
  <2>8. TaskOK(t, a, prompts'[t], effects', wire')
    <3>1. \A i \in Slot : SlotOK(a.slots[i].state, effects[<<t, i>>], <<t, i>> \in wire)
      BY <1>2, <1>3, <1>4, <2>7 DEF TaskOK, SlotOK
    <3> QED
      BY <1>1, <1>2, <1>4, <2>1, <3>1 DEF TaskOK
  <2>9. RunOK(x, a, prompts'[t], effects', wire')
    <3>1. \A i \in Slot : /\ i < s => a.slots[i].state = "ApiAccepted"
                          /\ i > s => a.slots[i].state = "Pending"
      BY <1>1, <1>2, <1>3, <1>4, FirstSlot DEF RunOK
    <3> QED
      BY <1>1, <1>4, <2>1, <2>3, <2>7, <3>1 DEF RunOK, Uncharged, Unreviewed, Unsent, Charged
  <2>10. AuthorityOK(x, reviewed'[t], audit')
    BY <1>1, <1>2, <2>3 DEF AuthorityOK, Approved, Charged, Unsent
  <2>11. /\ \A v \in Run \ {w} : Working(run[v]) => run[v].task # t
         /\ t \in Task /\ run[w].task = t /\ open /\ open' = open /\ policy' = policy
    BY <1>1, <1>2, <1>5
  <2> HIDE DEF t, s
  <2> QED
    BY <2>2, <2>3, <2>4, <2>5, <2>6, <2>8, <2>9, <2>10, <2>11, OwnStep
<1> QED
  BY <1>6, <1>7

(* The write leaves, once. *)
LEMMA FenceStep ==
    ASSUME Sound, Sound', Core, NEW w \in Run, NEW now \in Time, Fence(w, now)
    PROVE  Core'
<1> DEFINE t == run[w].task
           s == run[w].slot
           q == run[w].request
           r == Ledger!Loaded(t, now)
           ok == Ledger!CanDispatch(r, s, q, now)
<1>1. /\ UNCHANGED <<policy, prompts, reviewed, audit, effects>> /\ Working(run[w])
      /\ run[w].pc = "fence"
  BY DEF Fence, authorityVars, Working
<1>2. /\ t \in Task /\ s \in Slot
      /\ TaskOK(t, records[t], prompts[t], effects, wire) /\ SlotOf(w) = <<t, s>>
      /\ RunOK(run[w], records[t], prompts[t], effects, wire)
      /\ AuthorityOK(run[w], reviewed[t], audit) /\ open
      /\ \A v \in Run \ {w} : Working(run[v]) => run[v].task # t
      /\ "rejected" \in Ledger!Outcome
  BY <1>1, RunFacts DEF SlotOf, Ledger!Outcome
<1>3. CASE Settle(w, "rejected") /\ UNCHANGED <<ledgerVars, wire>>
  <2>1. UNCHANGED <<records, open, worldVars>>
    BY <1>1, <1>3 DEF ledgerVars, worldVars
  <2>2. records' = [records EXCEPT ![t] = records[t]] /\ SameSlots(records[t], records[t])
    BY <1>2, <2>1, SameRow
  <2> QED
    BY <1>1, <1>2, <1>3, <2>1, <2>2, SettleStep
<1>4. CASE Ledger!AuthorizeDispatch(t, s, q, now)
  <2>1. t \in Task /\ Ledger!Mutate(t, r, ok, r)
    BY <1>2, <1>4 DEF Ledger!AuthorizeDispatch
  <2>2. records' = [records EXCEPT ![t] = r] /\ open' = open
    <3> HIDE DEF t, r, ok
    <3> QED
      BY <2>1, MutateFacts
  <2>3. SameSlots(r, records[t]) /\ r.slots = records[t].slots
    BY <1>2, LoadedFacts DEF Sound
  <2>4. \/ Settle(w, "rejected") /\ UNCHANGED wire
        \/ Goto(w, "sent") /\ wire' = wire \cup {<<t, s>>}
    BY <1>2, <1>3, <1>4 DEF Fence
  <2> HIDE DEF r, ok
  <2>5. CASE Settle(w, "rejected") /\ UNCHANGED wire
    <3>1. UNCHANGED worldVars
      BY <1>1, <2>5 DEF worldVars
    <3> QED
      BY <1>1, <1>2, <2>2, <2>3, <2>5, <3>1, SettleStep
  <2>6. CASE Goto(w, "sent") /\ wire' = wire \cup {<<t, s>>}
    <3> DEFINE x == [run[w] EXCEPT !.pc = "sent"]
    <3>1. /\ run' = [run EXCEPT ![w] = x]
          /\ x \in RunRecord /\ x.pc = "sent"
          /\ x.task = run[w].task /\ x.gen = run[w].gen /\ x.slot = run[w].slot
          /\ x.request = run[w].request /\ x.outcome = run[w].outcome
      BY <2>6, GotoFacts DEF Sound, Types, RunPc, Awaiting
    <3> HIDE DEF x
    <3>2. Working(x)
      BY <3>1 DEF Working
    <3>3. Untouched(t)
      BY <1>1, <1>2, <2>6 DEF Untouched
    <3>4. effects[<<t, s>>] = 0 /\ r.slots[s].state = "Reserved"
      BY <1>1, <1>2, <2>3 DEF RunOK, Unsent, Charged
    <3>5. TaskOK(t, r, prompts'[t], effects', wire')
      <4>1. \A i \in Slot : SlotOK(r.slots[i].state, effects[<<t, i>>], <<t, i>> \in wire')
        <5>1. ASSUME NEW i \in Slot
              PROVE  SlotOK(r.slots[i].state, effects[<<t, i>>], <<t, i>> \in wire')
          <6>1. SlotOK(r.slots[i].state, effects[<<t, i>>], <<t, i>> \in wire)
            BY <1>2, <2>3 DEF TaskOK
          <6>2. CASE i = s
            BY <3>4, <6>2 DEF SlotOK
          <6>3. CASE i # s
            <7>1. <<t, i>> \in wire' <=> <<t, i>> \in wire
              BY <2>6, <6>3
            <7> QED
              BY <6>1, <7>1 DEF SlotOK
          <6> QED
            BY <6>2, <6>3
        <5> QED
          BY <5>1
      <4> QED
        BY <1>1, <1>2, <2>3, <4>1 DEF TaskOK, SameSlots
    <3>6. RunOK(x, r, prompts'[t], effects', wire')
      BY <1>1, <1>2, <2>3, <3>1 DEF RunOK, SameSlots, Uncharged, Unreviewed, Unsent, Charged
    <3>7. AuthorityOK(x, reviewed'[t], audit')
      BY <1>1, <1>2, <3>1 DEF AuthorityOK, Approved, Charged, Unsent
    <3>8. /\ \A v \in Run \ {w} : Working(run[v]) => run[v].task # t
          /\ t \in Task /\ run[w].task = t /\ x.task = t /\ open /\ open' = open
          /\ policy' = policy
      BY <1>1, <1>2, <2>2, <3>1
    <3> HIDE DEF t, s
    <3> QED
      BY <2>2, <3>1, <3>2, <3>3, <3>5, <3>6, <3>7, <3>8, OwnStep
  <2> QED
    BY <2>4, <2>5, <2>6
<1> QED
  BY <1>3, <1>4 DEF Fence

(* The receipt of a slot is stored. *)
LEMMA FinalizeStep ==
    ASSUME Sound, Sound', Core, NEW w \in Run, NEW now \in Time, Finalize(w, now)
    PROVE  Core'
<1> DEFINE t == run[w].task
           s == run[w].slot
           q == run[w].request
           o == run[w].outcome
           r == Ledger!Loaded(t, now)
           a == Ledger!AfterFinalize(r, s, o, now)
           ok == Ledger!CanFinalize(r, s, q, now)
<1>1. /\ UNCHANGED <<policy, prompts, reviewed, audit, wire, effects, worldVars>>
      /\ Working(run[w]) /\ run[w].pc = "settle"
      /\ Ledger!Mutate(t, r, ok, a)
  BY DEF Finalize, authorityVars, worldVars, Working, Ledger!FinalizeSlot
<1>2. /\ t \in Task /\ s \in Slot
      /\ TaskOK(t, records[t], prompts[t], effects, wire)
      /\ RunOK(run[w], records[t], prompts[t], effects, wire)
      /\ AuthorityOK(run[w], reviewed[t], audit) /\ open
      /\ \A v \in Run \ {w} : Working(run[v]) => run[v].task # t
  BY <1>1, RunFacts
<1>3. r \in Ledger!TaskRecord /\ SameSlots(r, records[t]) /\ r.slots = records[t].slots
  BY <1>2, LoadedFacts DEF Sound
<1>4. o \in Ledger!Outcome
  BY <1>1 DEF Sound, Types, RunTypes, Armed
<1>5. /\ \A i \in Slot \ {s} : a.slots[i] = r.slots[i]
      /\ a.slots[s].state = Ledger!OutcomeState(o)
      /\ a.state = r.state \/ (r.state = "Running" /\ a.state \in {"Completed", "Partial"})
  <2> DEFINE slots == [r.slots EXCEPT ![s] = [@ EXCEPT !.state = Ledger!OutcomeState(o),
                                                      !.finished_at = now, !.outcome = o]]
  <2>1. /\ \A i \in Slot \ {s} : slots[i] = r.slots[i]
        /\ slots[s].state = Ledger!OutcomeState(o)
    BY <1>2, <1>3 DEF Ledger!TaskRecord, Ledger!SlotRecord
  <2>2. /\ a.slots = slots
        /\ a.state = r.state \/ (r.state = "Running" /\ a.state = Ledger!ClosingState(slots))
    BY <1>3 DEF Ledger!AfterFinalize, Ledger!TaskRecord
  <2>3. Ledger!ClosingState(slots) \in {"Completed", "Partial"}
    BY DEF Ledger!ClosingState
  <2> HIDE DEF slots
  <2> QED
    BY <2>1, <2>2, <2>3
<1>6. /\ records' = [records EXCEPT ![t] = IF ok THEN a ELSE r] /\ open' = open
  <2>1. t \in Task /\ Ledger!Mutate(t, r, ok, a)
    BY <1>1, <1>2
  <2> HIDE DEF t, r, a, ok
  <2> QED
    BY <2>1, MutateFacts
<1>7. CASE ~ok
  <2>1. Goto(w, "seal") /\ records' = [records EXCEPT ![t] = r]
    BY <1>6, <1>7 DEF Finalize, Fail
  <2> HIDE DEF r, a, ok
  <2> QED
    BY <1>1, <1>2, <1>3, <1>6, <2>1, GotoStep DEF RunPc
<1>8. CASE ok
  <2> DEFINE x == [run[w] EXCEPT !.pc = "confirm"]
  <2>1. Goto(w, "confirm") /\ records' = [records EXCEPT ![t] = a]
    BY <1>6, <1>8 DEF Finalize
  <2>2. /\ run' = [run EXCEPT ![w] = x]
        /\ x \in RunRecord /\ x.pc = "confirm"
        /\ x.task = run[w].task /\ x.gen = run[w].gen /\ x.slot = run[w].slot
        /\ x.request = run[w].request /\ x.outcome = run[w].outcome
    BY <2>1, GotoFacts DEF Sound, Types, RunPc, Awaiting
  <2> HIDE DEF x, r, a, ok
  <2>3. Working(x)
    BY <2>2 DEF Working
  <2>4. Untouched(t)
    BY <1>1 DEF Untouched
  <2>5. /\ Ledger!OutcomeState(o) \in {"ApiAccepted", "Rejected", "Unknown"}
        /\ Ledger!OutcomeState(o) = "ApiAccepted" => o = "api_accepted"
        /\ Ledger!OutcomeState(o) = "Rejected" => o = "rejected"
    BY DEF Ledger!OutcomeState
  <2>6. \A i \in Slot : SlotOK(a.slots[i].state, effects[<<t, i>>], <<t, i>> \in wire)
    <3>1. ASSUME NEW i \in Slot
          PROVE  SlotOK(a.slots[i].state, effects[<<t, i>>], <<t, i>> \in wire)
      <4>1. SlotOK(r.slots[i].state, effects[<<t, i>>], <<t, i>> \in wire)
        BY <1>2, <1>3 DEF TaskOK
      <4>2. CASE i = s
        BY <1>1, <1>2, <1>5, <2>5, <4>1, <4>2 DEF SlotOK, RunOK
      <4>3. CASE i # s
        BY <1>5, <4>1, <4>3
      <4> QED
        BY <4>2, <4>3
    <3> QED
      BY <3>1
  <2>7. a.state \notin {"Absent", "Planned"}
    BY <1>2, <1>3, <1>5 DEF RunOK, SameSlots
  <2>8. TaskOK(t, a, prompts'[t], effects', wire')
    BY <1>1, <1>2, <2>6, <2>7 DEF TaskOK
  <2>9. RunOK(x, a, prompts'[t], effects', wire')
    <3>1. \A i \in Slot : /\ i < s => a.slots[i].state = "ApiAccepted"
                          /\ i > s => a.slots[i].state = "Pending"
      <4>1. ASSUME NEW i \in Slot, i < s
            PROVE  a.slots[i].state = "ApiAccepted"
        <5>1. i # s
          BY <1>2, <4>1, FirstSlot
        <5>2. records[t].slots[i].state = "ApiAccepted"
          BY <1>1, <1>2, <4>1 DEF RunOK
        <5> QED
          BY <1>3, <1>5, <5>1, <5>2
      <4>2. ASSUME NEW i \in Slot, i > s
            PROVE  a.slots[i].state = "Pending"
        <5>1. i # s
          BY <1>2, <4>2, FirstSlot
        <5>2. records[t].slots[i].state = "Pending"
          BY <1>1, <1>2, <4>2 DEF RunOK
        <5> QED
          BY <1>3, <1>5, <5>1, <5>2
      <4> QED
        BY <4>1, <4>2
    <3> QED
      BY <1>1, <1>5, <2>2, <2>5, <2>7, <3>1 DEF RunOK, Uncharged, Unreviewed, Unsent, Charged
  <2>10. AuthorityOK(x, reviewed'[t], audit')
    BY <1>1, <1>2, <2>2 DEF AuthorityOK, Approved, Charged, Unsent
  <2>11. /\ \A v \in Run \ {w} : Working(run[v]) => run[v].task # t
         /\ t \in Task /\ run[w].task = t /\ x.task = t /\ open /\ open' = open
         /\ policy' = policy
    BY <1>1, <1>2, <1>6, <2>2
  <2> HIDE DEF t, s, q, o
  <2> QED
    BY <2>1, <2>2, <2>3, <2>4, <2>8, <2>9, <2>10, <2>11, OwnStep
<1> QED
  BY <1>7, <1>8

(* Slots whose reservations are settled as interrupted. *)
Sealed(new, old) ==
    \A s \in Slot :
       IF old[s].state = "Reserved" THEN new[s].state = "Unknown" ELSE new[s] = old[s]

(* An interrupted slot. *)
LEMMA InterruptedFacts ==
    ASSUME NEW slot \in Ledger!SlotRecord, NEW finished
    PROVE  IF slot.state = "Reserved"
           THEN Ledger!Interrupted(slot, finished).state = "Unknown"
           ELSE Ledger!Interrupted(slot, finished) = slot
BY DEF Ledger!Interrupted, Ledger!SlotRecord

(* What closing a run leaves of its row. *)
LEMMA FinishRunFacts ==
    ASSUME NEW r \in Ledger!TaskRecord, NEW now \in Time
    PROVE  LET a == Ledger!AfterFinishRun(r, now) IN
           /\ Sealed(a.slots, r.slots)
           /\ a.state = r.state \/ (r.state = "Running" /\ a.state \in {"Completed", "Partial"})
<1> DEFINE a == Ledger!AfterFinishRun(r, now)
<1>1. a.state = r.state \/ (r.state = "Running" /\ a.state \in {"Completed", "Partial"})
  BY DEF Ledger!AfterFinishRun, Ledger!ClosingState, Ledger!TaskRecord
<1>2. \A s \in Slot : \E f : a.slots[s] = Ledger!Interrupted(r.slots[s], f)
  BY DEF Ledger!AfterFinishRun, Ledger!TaskRecord
<1>3. \A s \in Slot : r.slots[s] \in Ledger!SlotRecord
  BY DEF Ledger!TaskRecord
<1> HIDE DEF a
<1>4. Sealed(a.slots, r.slots)
  BY <1>2, <1>3, InterruptedFacts DEF Sealed
<1> QED
  BY <1>1, <1>4 DEF a

(* Sealing the slots of a task keeps what is known of its writes. *)
LEMMA SealedTask ==
    ASSUME NEW t \in Task, NEW r, NEW a, Sealed(a.slots, r.slots),
           NEW asked, NEW eff, NEW out,
           TaskOK(t, r, asked, eff, out), a.state \notin {"Absent", "Planned"}
    PROVE  TaskOK(t, a, asked, eff, out) /\ Settled(a)
<1>1. ASSUME NEW s \in Slot
      PROVE  SlotOK(a.slots[s].state, eff[<<t, s>>], <<t, s>> \in out)
  <2>1. SlotOK(r.slots[s].state, eff[<<t, s>>], <<t, s>> \in out)
    BY DEF TaskOK
  <2>2. a.slots[s] = r.slots[s] \/ a.slots[s].state = "Unknown"
    BY DEF Sealed
  <2> QED
    BY <2>1, <2>2 DEF SlotOK
<1>2. Settled(a)
  BY DEF Sealed, Settled
<1> QED
  BY <1>1, <1>2 DEF TaskOK

(* finish_run at the end of a run, and in the guard on every way out.       *)
LEMMA FinishStep ==
    ASSUME Sound, Sound', Core, NEW w \in Run, NEW now \in Time, Finish(w, now) \/ Seal(w, now)
    PROVE  Core'
<1> DEFINE t == run[w].task
           r == Ledger!Loaded(t, now)
           a == Ledger!AfterFinishRun(r, now)
           ok == Ledger!CanFinishRun(r)
<1>1. /\ UNCHANGED <<policy, prompts, reviewed, audit, wire, effects, worldVars>>
      /\ Working(run[w])
      /\ Goto(w, "seal") \/ run' = [run EXCEPT ![w] = Idle]
      /\ Ledger!Mutate(t, r, ok, a)
  BY DEF Finish, Seal, Fail, authorityVars, worldVars, Working, Ledger!FinishRun
<1>2. /\ t \in Task
      /\ TaskOK(t, records[t], prompts[t], effects, wire)
      /\ RunOK(run[w], records[t], prompts[t], effects, wire)
      /\ AuthorityOK(run[w], reviewed[t], audit) /\ open
      /\ \A v \in Run \ {w} : Working(run[v]) => run[v].task # t
  BY <1>1, RunFacts
<1>3. r \in Ledger!TaskRecord /\ SameSlots(r, records[t]) /\ r.slots = records[t].slots
  BY <1>2, LoadedFacts DEF Sound
<1>4. r.state \notin {"Absent", "Planned"}
  BY <1>2, <1>3 DEF SameSlots, RunOK
<1>5. ok
  BY <1>4 DEF Ledger!CanFinishRun
<1>6. Sealed(a.slots, records[t].slots) /\ a.state \notin {"Absent", "Planned"}
  BY <1>3, <1>4, FinishRunFacts
<1>7. records' = [records EXCEPT ![t] = a] /\ open' = open
  <2>1. t \in Task /\ Ledger!Mutate(t, r, ok, a)
    BY <1>1, <1>2
  <2>2. records' = [records EXCEPT ![t] = IF ok THEN a ELSE r] /\ open' = open
    <3> HIDE DEF t, r, a, ok
    <3> QED
      BY <2>1, MutateFacts
  <2> QED
    BY <1>5, <2>2
<1> HIDE DEF r, a, ok
<1>8. TaskOK(t, a, prompts'[t], effects', wire') /\ Settled(a)
  BY <1>1, <1>2, <1>6, SealedTask
<1>9. Untouched(t)
  BY <1>1 DEF Untouched
<1>10. CASE run' = [run EXCEPT ![w] = Idle]
  <2>1. ~Working(Idle)
    BY IdleType DEF Working
  <2> QED
    BY <1>1, <1>2, <1>7, <1>8, <1>9, <1>10, <2>1, IdleType, OwnStep
<1>11. CASE Goto(w, "seal")
  <2> DEFINE x == [run[w] EXCEPT !.pc = "seal"]
  <2>1. /\ run' = [run EXCEPT ![w] = x]
        /\ x \in RunRecord /\ x.pc = "seal"
        /\ x.task = run[w].task /\ x.gen = run[w].gen /\ x.slot = run[w].slot
        /\ x.request = run[w].request /\ x.outcome = run[w].outcome
    BY <1>11, GotoFacts DEF Sound, Types, RunPc
  <2> HIDE DEF x
  <2>2. Working(x)
    BY <2>1 DEF Working
  <2>3. RunOK(x, a, prompts'[t], effects', wire')
    BY <1>6, <1>8, <2>1 DEF RunOK, Settled, Uncharged, Unreviewed, Unsent, Charged
  <2>4. AuthorityOK(x, reviewed'[t], audit')
    BY <1>1, <1>2, <2>1 DEF AuthorityOK, Approved, Charged, Unsent
  <2> QED
    BY <1>1, <1>2, <1>7, <1>8, <1>9, <2>1, <2>2, <2>3, <2>4, OwnStep
<1> QED
  BY <1>1, <1>10, <1>11

-----------------------------------------------------------------------------
(* The steps around the runs. *)

(* A call that changes at most the state of one row. *)
LEMMA StateStep ==
    ASSUME Sound, Sound', Core, NEW t \in Task, NEW r,
           records' = [records EXCEPT ![t] = r], SameSlots(r, records[t]),
           UNCHANGED <<run, open, policy, worldVars>>
    PROVE  Core'
<1>0. /\ UNCHANGED <<run, open, policy, prompts, reviewed, audit, wire, effects>>
      /\ records'[t] = r /\ \A u \in Task \ {t} : records'[u] = records[u]
      /\ \A w \in Run : run[w].task \in Task
  BY DEF worldVars, Sound, Ledger!TypeOK, Types, RunTypes, RunRecord
<1>1. \A u \in Task : SameSlots(records'[u], records[u])
  BY <1>0 DEF SameSlots
<1>2. Tasks'
  <2>1. ASSUME NEW u \in Task
        PROVE  TaskOK(u, records'[u], prompts[u], effects, wire)
    <3>1. TaskOK(u, records[u], prompts[u], effects, wire) /\ SameSlots(records'[u], records[u])
      BY <1>1 DEF Core, Tasks
    <3> QED
      BY <3>1 DEF TaskOK, SameSlots
  <2> QED
    BY <1>0, <2>1 DEF Tasks
<1>3. Runs'
  <2>1. ASSUME NEW w \in Run, Working(run[w])
        PROVE  LET u == run[w].task IN RunOK(run[w], records'[u], prompts[u], effects, wire)
    <3> DEFINE u == run[w].task
    <3>1. RunOK(run[w], records[u], prompts[u], effects, wire) /\ SameSlots(records'[u], records[u])
      BY <1>0, <1>1, <2>1 DEF Core, Runs
    <3> QED
      BY <3>1 DEF RunOK, SameSlots
  <2> QED
    BY <1>0, <2>1 DEF Runs, Working
<1>4. Authority'
  <2>1. \A w \in Run : Working(run[w]) => AuthorityOK(run[w], reviewed[run[w].task], audit)
    BY DEF Core, Authority
  <2> QED
    BY <1>0, <2>1 DEF Authority, AuthorityOK, Working
<1>5. Owners'
  <2>1. \A u \in Task : Settled(records[u]) => Settled(records'[u])
    BY <1>1 DEF Settled, SameSlots
  <2> QED
    BY <1>0, <2>1 DEF Core, Owners, Working, Settled
<1> QED
  BY <1>2, <1>3, <1>4, <1>5 DEF Core

(* create, get and revoke. *)
LEMMA RowStep ==
    ASSUME Sound, Sound', Core, NEW t \in Task, NEW now \in Time,
           Create(t, now) \/ Revoke(t, now) \/ Get(t, now)
    PROVE  Core'
<1> DEFINE r == Ledger!Loaded(t, now)
<1>1. UNCHANGED <<run, policy, worldVars>>
  BY DEF Create, Revoke, Get, authorityVars
<1>2. r \in Ledger!TaskRecord /\ SameSlots(r, records[t]) /\ r.slots = records[t].slots
  BY LoadedFacts DEF Sound
<1>3. CASE Create(t, now)
  <2> DEFINE n == Ledger!NewRecord(now)
  <2>1. /\ records' = [records EXCEPT ![t] = n] /\ open' = open
        /\ records[t].state = "Absent"
    BY <1>3 DEF Create, Ledger!Create, Ledger!Exists
  <2>2. n.slots = [s \in Slot |-> Ledger!PendingSlot]
    BY DEF Ledger!NewRecord
  <2>3. records[t].slots = [s \in Slot |-> Ledger!PendingSlot]
    BY <2>1 DEF Core, Tasks, TaskOK
  <2> HIDE DEF n
  <2>4. SameSlots(n, records[t])
    BY <2>1, <2>2, <2>3 DEF SameSlots
  <2> QED
    BY <1>1, <2>1, <2>4, StateStep
<1>4. CASE Revoke(t, now)
  <2> DEFINE a == Ledger!AfterRevoke(r)
             ok == TRUE
  <2>1. SameSlots(a, records[t])
    BY <1>2 DEF SameSlots, Ledger!AfterRevoke, Ledger!TaskRecord
  <2>2. Ledger!Mutate(t, r, ok, a)
    BY <1>4 DEF Revoke, Ledger!Revoke
  <2>3. records' = [records EXCEPT ![t] = IF ok THEN a ELSE r] /\ open' = open
    <3> HIDE DEF a, r, ok
    <3> QED
      BY <2>2, MutateFacts
  <2>4. records' = [records EXCEPT ![t] = a]
    BY <2>3
  <2> HIDE DEF a, r
  <2> QED
    BY <1>1, <2>1, <2>3, <2>4, StateStep
<1>5. CASE Get(t, now)
  <2> DEFINE ok == TRUE
  <2>1. Ledger!Mutate(t, r, ok, r)
    BY <1>5 DEF Get, Ledger!Get
  <2> HIDE DEF r, ok
  <2>2. records' = [records EXCEPT ![t] = IF ok THEN r ELSE r] /\ open' = open
    BY <2>1, MutateFacts
  <2>3. records' = [records EXCEPT ![t] = r]
    BY <2>2
  <2> QED
    BY <1>1, <1>2, <2>2, <2>3, StateStep
<1> QED
  BY <1>3, <1>4, <1>5

(* The claim of a planned task; no run works on it yet. *)
LEMMA ClaimStep ==
    ASSUME Sound, Sound', Core, NEW w \in Run, NEW t \in Task, NEW now \in Time, Claim(w, t, now)
    PROVE  Core'
<1> DEFINE r == Ledger!Loaded(t, now)
           a == Ledger!AfterClaim(r)
           ok == Ledger!CanClaim(r)
           x == [Idle EXCEPT !.pc = "decide", !.task = t, !.gen = policy.gen]
<1>1. /\ UNCHANGED <<policy, prompts, reviewed, audit, wire, effects, worldVars>>
      /\ ~Working(run[w])
      /\ Ledger!Mutate(t, r, ok, a)
      /\ run' = IF ok THEN [run EXCEPT ![w] = x] ELSE run
  BY DEF Claim, authorityVars, worldVars, Working, Ledger!Claim
<1>2. r \in Ledger!TaskRecord /\ SameSlots(r, records[t]) /\ r.slots = records[t].slots
  BY LoadedFacts DEF Sound
<1>3. /\ records' = [records EXCEPT ![t] = IF ok THEN a ELSE r] /\ open /\ open' = open
  <2>1. t \in Task /\ Ledger!Mutate(t, r, ok, a)
    BY <1>1
  <2> HIDE DEF r, a, ok
  <2> QED
    BY <2>1, MutateFacts
<1>4. CASE ~ok
  <2>1. records' = [records EXCEPT ![t] = r] /\ UNCHANGED <<run, open, policy, worldVars>>
    BY <1>1, <1>3, <1>4
  <2> HIDE DEF r, ok
  <2> QED
    BY <1>2, <2>1, StateStep
<1>5. CASE ok
  <2>1. r.state = "Planned"
    BY <1>5 DEF Ledger!CanClaim
  <2>2. a.state = "Running" /\ a.slots = r.slots
    BY <1>2 DEF Ledger!AfterClaim, Ledger!TaskRecord
  <2>3. policy.gen \in 0 .. MaxGen
    BY DEF Sound, Types, WorldTypes
  <2>4. x \in RunRecord /\ x.pc = "decide" /\ x.task = t /\ x.gen = policy.gen /\ x.slot = 1
    BY <2>3, IdleType DEF RunRecord, RunPc
  <2>5. records' = [records EXCEPT ![t] = a] /\ run' = [run EXCEPT ![w] = x]
    BY <1>1, <1>3, <1>5
  <2> HIDE DEF r, a, ok, x
  <2>6. records[t].state \in {"Absent", "Planned"}
    BY <1>2, <2>1 DEF SameSlots
  <2>7. TaskOK(t, records[t], prompts[t], effects, wire)
    BY DEF Core, Tasks
  <2>8. prompts[t] = 0 /\ a.slots = [s \in Slot |-> Ledger!PendingSlot]
    BY <1>2, <2>2, <2>6, <2>7 DEF TaskOK
  <2>9. \A s \in Slot : a.slots[s].state = "Pending"
    BY <2>8 DEF Ledger!PendingSlot
  <2>10. TaskOK(t, a, prompts'[t], effects', wire')
    BY <1>1, <1>2, <2>2, <2>7 DEF TaskOK
  <2>11. \A v \in Run \ {w} : Working(run[v]) => run[v].task # t
    BY <2>6 DEF Core, Runs, RunOK
  <2>12. RunOK(x, a, prompts'[t], effects', wire')
    <3>1. x.slot \in Slot /\ \A s \in Slot : ~(s < x.slot)
      BY <2>4, FirstSlot, SlotOrderAssumption, FS_CardinalityType
    <3> QED
      BY <1>1, <2>2, <2>4, <2>8, <2>9, <3>1
         DEF RunOK, Uncharged, Unreviewed, Unsent, Charged
  <2>13. AuthorityOK(x, reviewed'[t], audit')
    BY <1>1, <2>3, <2>4 DEF AuthorityOK, Approved, Charged, Unsent
  <2>14. Untouched(t)
    BY <1>1 DEF Untouched
  <2>15. Working(x)
    BY <2>4 DEF Working
  <2>16. /\ Working(run[w]) => run[w].task = t
         /\ x.task = t /\ open /\ open' = open /\ policy' = policy
    BY <1>1, <1>3, <2>4
  <2> QED
    BY <2>4, <2>5, <2>10, <2>11, <2>12, <2>13, <2>14, <2>15, <2>16, OwnStep
<1> QED
  BY <1>4, <1>5

(* The provider decides a write on the wire: it was not performed before,   *)
(* and no receipt says anything of it yet.                                  *)
LEMMA ProviderStep ==
    ASSUME Sound, Sound', Core, NEW t \in Task, NEW s \in Slot, Provider(t, s)
    PROVE  Core'
<1>1. /\ UNCHANGED <<records, open, run, policy, prompts, reviewed, audit>>
      /\ <<t, s>> \in wire /\ wire' = wire \ {<<t, s>>}
      /\ effects' = effects \/ effects' = [effects EXCEPT ![<<t, s>>] = @ + 1]
  BY DEF Provider, ledgerVars, authorityVars
<1>2. effects \in [Task \X Slot -> Nat] /\ <<t, s>> \in Task \X Slot
  BY DEF Sound, Types, WorldTypes
<1>3. SlotOK(records[t].slots[s].state, effects[<<t, s>>], <<t, s>> \in wire)
  BY DEF Core, Tasks, TaskOK
<1>4. /\ effects[<<t, s>>] = 0
      /\ records[t].slots[s].state \notin {"ApiAccepted", "Rejected", "Pending"}
  <2>1. effects[<<t, s>>] \in Nat
    BY <1>2
  <2> QED
    BY <1>1, <1>3, <2>1 DEF SlotOK
<1>5. \A u \in Task, i \in Slot : <<u, i>> # <<t, s>> =>
         /\ effects'[<<u, i>>] = effects[<<u, i>>]
         /\ <<u, i>> \in wire' <=> <<u, i>> \in wire
  BY <1>1, <1>2
<1>6. effects'[<<t, s>>] \in {0, 1} /\ <<t, s>> \notin wire'
  BY <1>1, <1>2, <1>4
<1>7. Tasks'
  <2>1. ASSUME NEW u \in Task, NEW i \in Slot
        PROVE  SlotOK(records[u].slots[i].state, effects'[<<u, i>>], <<u, i>> \in wire')
    <3>1. CASE <<u, i>> = <<t, s>>
      <4>1. u = t /\ i = s
        BY <3>1
      <4> QED
        BY <1>4, <1>6, <4>1 DEF SlotOK
    <3>2. CASE <<u, i>> # <<t, s>>
      <4>1. SlotOK(records[u].slots[i].state, effects[<<u, i>>], <<u, i>> \in wire)
        BY DEF Core, Tasks, TaskOK
      <4> QED
        BY <1>5, <3>2, <4>1 DEF SlotOK
    <3> QED
      BY <3>1, <3>2
  <2>2. ASSUME NEW u \in Task
        PROVE  TaskOK(u, records[u], prompts[u], effects', wire')
    <3>1. TaskOK(u, records[u], prompts[u], effects, wire)
      BY DEF Core, Tasks
    <3> QED
      BY <2>1, <3>1 DEF TaskOK
  <2> QED
    BY <1>1, <2>2 DEF Tasks
<1>8. Runs'
  <2>1. ASSUME NEW w \in Run, Working(run[w])
        PROVE  LET u == run[w].task IN RunOK(run[w], records[u], prompts[u], effects', wire')
    <3> DEFINE u == run[w].task
    <3>1. RunOK(run[w], records[u], prompts[u], effects, wire)
      BY <2>1 DEF Core, Runs
    <3>2. u \in Task /\ run[w].slot \in Slot
      BY DEF Sound, Types, RunTypes, RunRecord
    <3>3. CASE <<u, run[w].slot>> = <<t, s>>
      <4>1. run[w].pc \notin Unsent
            /\ ~(run[w].pc = "settle" /\ run[w].outcome \in {"api_accepted", "rejected"})
        BY <1>1, <1>4, <3>1, <3>3 DEF RunOK
      <4> QED
        BY <3>1, <4>1 DEF RunOK
    <3>4. CASE <<u, run[w].slot>> # <<t, s>>
      <4>1. /\ effects'[<<u, run[w].slot>>] = effects[<<u, run[w].slot>>]
            /\ <<u, run[w].slot>> \in wire' <=> <<u, run[w].slot>> \in wire
        BY <1>5, <3>2, <3>4
      <4> QED
        BY <3>1, <4>1 DEF RunOK
    <3> QED
      BY <3>3, <3>4
  <2> QED
    BY <1>1, <2>1 DEF Runs, Working
<1>9. Authority'
  <2>1. \A w \in Run : Working(run[w]) => AuthorityOK(run[w], reviewed[run[w].task], audit)
    BY DEF Core, Authority
  <2> QED
    BY <1>1, <2>1 DEF Authority, AuthorityOK, Working
<1>10. Owners'
  BY <1>1 DEF Core, Owners, Working, Settled
<1> QED
  BY <1>7, <1>8, <1>9, <1>10 DEF Core

(* The policy is replaced: what a run knows of its generation is now old.   *)
LEMMA SwapStep ==
    ASSUME Sound, Sound', Core, SwapPolicy
    PROVE  Core'
<1>1. /\ UNCHANGED <<records, open, run, prompts, reviewed, audit, wire, effects>>
      /\ policy'.gen = policy.gen + 1
  BY DEF SwapPolicy, ledgerVars, worldVars
<1>2. policy.gen \in Nat /\ \A w \in Run : run[w].gen \in Nat
  BY DEF Sound, Types, WorldTypes, RunTypes, RunRecord
<1>3. Tasks' /\ Runs' /\ Owners'
  <2>1. Tasks'
    BY <1>1 DEF Core, Tasks
  <2>2. Runs'
    BY <1>1 DEF Core, Runs
  <2>3. Owners'
    BY <1>1 DEF Core, Owners
  <2> QED
    BY <2>1, <2>2, <2>3
<1>4. Authority'
  <2>1. \A w \in Run : Working(run[w]) => AuthorityOK(run[w], reviewed[run[w].task], audit)
    BY DEF Core, Authority
  <2>2. ASSUME NEW w \in Run, Working(run[w])
        PROVE  run[w].gen <= policy'.gen /\ run[w].gen # policy'.gen
    <3>1. run[w].gen <= policy.gen
      BY <2>1, <2>2 DEF AuthorityOK
    <3>2. run[w].gen \in Nat /\ policy.gen \in Nat
      BY <1>2
    <3> QED
      BY <1>1, <3>1, <3>2
  <2> QED
    BY <1>1, <2>1, <2>2 DEF Authority, AuthorityOK, Working
<1> QED
  BY <1>3, <1>4 DEF Core

(* Steps that touch nothing the invariant speaks of. *)
LEMMA SameCore ==
    ASSUME Core, UNCHANGED <<records, open, run, policy, prompts, reviewed, audit, wire, effects>>
    PROVE  Core'
<1>1. Tasks'
  BY DEF Core, Tasks
<1>2. Runs'
  BY DEF Core, Runs
<1>3. Authority'
  BY DEF Core, Authority, AuthorityOK
<1>4. Owners'
  BY DEF Core, Owners
<1> QED
  BY <1>1, <1>2, <1>3, <1>4 DEF Core

(* The daemon stops: the runs are gone. *)
LEMMA CrashStep ==
    ASSUME Sound, Sound', Core, Crash
    PROVE  Core'
<1>1. /\ UNCHANGED <<records, prompts, wire, effects>> /\ open' = FALSE
      /\ \A w \in Run : ~Working(run'[w])
  BY IdleType DEF Crash, Ledger!Close, Working
<1>2. Tasks'
  BY <1>1 DEF Core, Tasks, TaskOK, SlotOK
<1>3. Runs' /\ Authority' /\ Owners'
  BY <1>1 DEF Runs, Authority, Owners, Working
<1> QED
  BY <1>2, <1>3 DEF Core

(* What recovery leaves of a row. *)
LEMMA RecoveredFacts ==
    ASSUME NEW r \in Ledger!TaskRecord
    PROVE  LET a == Ledger!Recovered(r) IN
           /\ Sealed(a.slots, r.slots)
           /\ a.state = r.state \/ (r.state = "Running" /\ a.state = "Partial")
<1> DEFINE a == Ledger!Recovered(r)
<1>1. a.state = r.state \/ (r.state = "Running" /\ a.state = "Partial")
  BY DEF Ledger!Recovered, Ledger!TaskRecord
<1>2. \A s \in Slot : a.slots[s] = Ledger!Interrupted(r.slots[s], Ledger!None)
  BY DEF Ledger!Recovered, Ledger!TaskRecord
<1>3. \A s \in Slot : r.slots[s] \in Ledger!SlotRecord
  BY DEF Ledger!TaskRecord
<1> HIDE DEF a
<1>4. Sealed(a.slots, r.slots)
  BY <1>2, <1>3, InterruptedFacts DEF Sealed
<1> QED
  BY <1>1, <1>4 DEF a

(* The ledger is opened again: every open charge is settled as interrupted, *)
(* and no run of the previous process is there to own one.                  *)
LEMMA RestartStep ==
    ASSUME Sound, Sound', Core, Restart
    PROVE  Core'
<1>1. /\ UNCHANGED <<run, prompts, wire, effects>>
      /\ records' = [t \in Task |-> IF records[t].state # "Absent"
                                    THEN Ledger!Recovered(records[t]) ELSE records[t]]
  BY DEF Restart, Ledger!Open, Ledger!Exists, Sound, Ledger!NeverCorrupt
<1>2. \A w \in Run : ~Working(run[w])
  BY DEF Restart, Ledger!Open, Core, Owners
<1>3. ASSUME NEW t \in Task
      PROVE  TaskOK(t, records'[t], prompts[t], effects, wire) /\ Settled(records'[t])
  <2>1. records[t] \in Ledger!TaskRecord /\ TaskOK(t, records[t], prompts[t], effects, wire)
    BY DEF Sound, Ledger!TypeOK, Core, Tasks
  <2>2. CASE records[t].state \in {"Absent", "Planned"}
    <3>1. records[t].slots = [s \in Slot |-> Ledger!PendingSlot]
      BY <2>1, <2>2 DEF TaskOK
    <3>2. \A s \in Slot : records[t].slots[s].state = "Pending"
      BY <3>1 DEF Ledger!PendingSlot
    <3>3. CASE records[t].state = "Absent"
      <4>1. records'[t] = records[t]
        BY <1>1, <3>3
      <4> QED
        BY <2>1, <3>2, <4>1 DEF Settled
    <3>4. CASE records[t].state = "Planned"
      <4> DEFINE a == Ledger!Recovered(records[t])
      <4>1. records'[t] = a
        BY <1>1, <3>4
      <4>2. a.state = "Planned" /\ Sealed(a.slots, records[t].slots)
        BY <2>1, <3>4, RecoveredFacts
      <4>3. a.slots \in [Slot -> Ledger!SlotRecord]
        <5>1. records'[t] \in Ledger!TaskRecord
          BY DEF Sound, Ledger!TypeOK
        <5> QED
          BY <4>1, <5>1 DEF Ledger!TaskRecord
      <4> HIDE DEF a
      <4>4. \A s \in Slot : a.slots[s] = records[t].slots[s]
        BY <3>2, <4>2 DEF Sealed
      <4>5. a.slots = records[t].slots
        BY <2>1, <4>3, <4>4 DEF Ledger!TaskRecord
      <4> QED
        BY <2>1, <2>2, <3>2, <4>1, <4>5 DEF TaskOK, Settled
    <3> QED
      BY <2>2, <3>3, <3>4
  <2>3. CASE records[t].state \notin {"Absent", "Planned"}
    <3> DEFINE a == Ledger!Recovered(records[t])
    <3>1. records'[t] = a
      BY <1>1, <2>3
    <3>2. Sealed(a.slots, records[t].slots) /\ a.state \notin {"Absent", "Planned"}
      BY <2>1, <2>3, RecoveredFacts
    <3> HIDE DEF a
    <3> QED
      BY <2>1, <3>1, <3>2, SealedTask
  <2> QED
    BY <2>2, <2>3
<1>4. Tasks'
  BY <1>1, <1>3 DEF Tasks
<1>5. Runs' /\ Authority'
  BY <1>1, <1>2 DEF Runs, Authority, Working
<1>6. Owners'
  BY <1>1, <1>2, <1>3 DEF Owners, Working, Settled
<1> QED
  BY <1>4, <1>5, <1>6 DEF Core

-----------------------------------------------------------------------------
(* The invariant holds of every behaviour. *)

(* The daemon starts with an empty ledger and idle runs. *)
LEMMA InitCore == Init => Core
<1> SUFFICES ASSUME Init PROVE Core
  OBVIOUS
<1>1. \A w \in Run : ~Working(run[w])
  BY IdleType DEF Init, Working
<1>2. ASSUME NEW t \in Task
      PROVE  TaskOK(t, records[t], prompts[t], effects, wire) /\ Settled(records[t])
  <2>1. /\ records[t].slots = [s \in Slot |-> Ledger!PendingSlot] /\ prompts[t] = 0
        /\ \A s \in Slot : effects[<<t, s>>] = 0 /\ <<t, s>> \notin wire
    BY DEF Init, Ledger!Init, Ledger!NoRecord
  <2>2. \A s \in Slot : records[t].slots[s].state = "Pending"
    BY <2>1 DEF Ledger!PendingSlot
  <2> QED
    BY <2>1, <2>2 DEF TaskOK, SlotOK, Settled
<1> QED
  BY <1>1, <1>2 DEF Core, Tasks, Runs, Authority, Owners

(* Every step of the system keeps it. *)
LEMMA NextCore == Core /\ Sound /\ Sound' /\ [Next]_vars => Core'
<1> SUFFICES ASSUME Core, Sound, Sound', [Next]_vars PROVE Core'
  OBVIOUS
<1>1. ASSUME NEW w \in Run, RunStep(w) \/ Cancel(w)
      PROVE  Core'
  <2>1. CASE \/ Decide(w) \/ PresentRefused(w) \/ Denied(w) \/ Check(w) \/ Cancel(w)
             \/ Prepare(w) \/ Recheck(w) \/ Answer(w)
    BY <2>1, QuietRunStep
  <2>2. CASE Present(w) \/ Granted(w) \/ Barrier(w)
    BY <2>2, HistoryStep
  <2>3. CASE Confirm(w)
    BY <2>3, ConfirmStep
  <2>4. ASSUME NEW now \in Time, \/ RecordApproval(w, now) \/ Fence(w, now) \/ Finalize(w, now)
                                 \/ Finish(w, now) \/ Seal(w, now)
        PROVE  Core'
    BY <2>4, RecordStep, FenceStep, FinalizeStep, FinishStep
  <2>5. ASSUME NEW now \in Time, NEW q \in Request, Reserve(w, q, now)
        PROVE  Core'
    BY <2>5, ReserveStep
  <2> QED
    BY <1>1, <2>1, <2>2, <2>3, <2>4, <2>5 DEF RunStep
<1>2. ASSUME NEW w \in Run, NEW t \in Task, NEW now \in Time, Claim(w, t, now)
      PROVE  Core'
  BY <1>2, ClaimStep
<1>3. ASSUME NEW t \in Task, NEW now \in Time, Create(t, now) \/ Revoke(t, now) \/ Get(t, now)
      PROVE  Core'
  BY <1>3, RowStep
<1>4. CASE SwapPolicy
  BY <1>4, SwapStep
<1>5. CASE RequesterChanges \/ ReviewerRevoked \/ UNCHANGED vars
  BY <1>5, SameCore DEF RequesterChanges, ReviewerRevoked, vars, ledgerVars, worldVars,
                        authorityVars
<1>6. ASSUME NEW t \in Task, NEW s \in Slot, Provider(t, s)
      PROVE  Core'
  BY <1>6, ProviderStep
<1>7. CASE Crash
  BY <1>7, CrashStep
<1>8. CASE Restart
  BY <1>8, RestartStep
<1> QED
  BY <1>1, <1>2, <1>3, <1>4, <1>5, <1>6, <1>7, <1>8 DEF Next

(* The shapes and the verified ledger. *)
LEMMA AlwaysSound == Spec => []Sound
BY InitTypes, NextTypes, LedgerSound, PTL DEF Spec, Sound

(* The induction, with the ledger's own invariant known at both ends. *)
LEMMA AlwaysCore == Spec => []Core
BY InitCore, NextCore, AlwaysSound, PTL DEF Spec

-----------------------------------------------------------------------------
(* The theorems. *)

(* Ledger, runs and world keep their shapes; in particular the slot loop of *)
(* execute_task never leaves the manifest.                                  *)
THEOREM TypeCorrect == Spec => []TypeOK
<1>1. Sound => TypeOK
  BY DEF Sound, Types, WorldTypes, RunTypes, RunRecord, RunPc, TypeOK
<1> QED
  BY <1>1, AlwaysSound, PTL

(* reserve_slot before the dispatch, never refunded: whatever is cancelled, *)
(* crashed or restarted, no slot's write is performed twice, counting the   *)
(* one on the wire, and nobody is asked twice to review a task.             *)
THEOREM WritesAtMostOnce == Spec => []AtMostOnce
<1>1. Core => AtMostOnce
  <2> SUFFICES ASSUME Core PROVE AtMostOnce
    OBVIOUS
  <2>1. ASSUME NEW x \in Task \X Slot
        PROVE  effects[x] + (IF x \in wire THEN 1 ELSE 0) <= 1
    <3>1. PICK t \in Task, s \in Slot : x = <<t, s>>
      OBVIOUS
    <3>2. SlotOK(records[t].slots[s].state, effects[<<t, s>>], <<t, s>> \in wire)
      BY DEF Core, Tasks, TaskOK
    <3> QED
      BY <3>1, <3>2 DEF SlotOK
  <2>2. \A t \in Task : prompts[t] <= 1
    BY DEF Core, Tasks, TaskOK
  <2> QED
    BY <2>1, <2>2 DEF AtMostOnce
<1> QED
  BY <1>1, AlwaysCore, PTL

(* No receipt of finalize_slot, finish_run or the recovery in open lies     *)
(* about a write, whatever was cancelled or lost in between.                *)
THEOREM HonestReceipts == Spec => []ReceiptHonest
<1>1. Core => ReceiptHonest
  <2> SUFFICES ASSUME Core, NEW x \in Task \X Slot
               PROVE  /\ SlotState(x) = "ApiAccepted" => effects[x] = 1
                      /\ SlotState(x) \in {"Rejected", "Pending"} => effects[x] = 0 /\ x \notin wire
    BY DEF ReceiptHonest
  <2>1. PICK t \in Task, s \in Slot : x = <<t, s>>
    OBVIOUS
  <2>2. SlotOK(records[t].slots[s].state, effects[<<t, s>>], <<t, s>> \in wire)
    BY DEF Core, Tasks, TaskOK
  <2>3. SlotState(x) = records[t].slots[s].state
    BY <2>1 DEF SlotState
  <2> QED
    BY <2>1, <2>2, <2>3 DEF SlotOK
<1> QED
  BY <1>1, AlwaysCore, PTL

(* While the ledger is open every open charge belongs to a run that still   *)
(* executes: RunGuard::drop or the recovery in open settled all others.     *)
THEOREM NoOrphans == Spec => []NoOrphan
<1>1. Sound /\ Core => NoOrphan
  <2> SUFFICES ASSUME Sound, Core, open, NEW x \in Task \X Slot, SlotState(x) = "Reserved"
               PROVE  \E w \in Run :
                         /\ run[w].pc # "idle"
                         /\ SlotOf(w) = x
                         /\ run[w].request = records[x[1]].slots[x[2]].request_id
                            \/ run[w].pc = "seal"
    BY DEF NoOrphan
  <2>1. PICK t \in Task, s \in Slot : x = <<t, s>>
    OBVIOUS
  <2>2. x[1] = t /\ x[2] = s /\ records[t].slots[s].state = "Reserved"
    BY <2>1 DEF SlotState
  <2>3. ~Settled(records[t])
    BY <2>2 DEF Settled
  <2>4. PICK w \in Run : Working(run[w]) /\ run[w].task = t
    BY <2>3 DEF Core, Owners
  <2>5. RunOK(run[w], records[t], prompts[t], effects, wire) /\ run[w].slot \in Slot
        /\ run[w].pc \in RunPc
    <3>1. run[w] \in RunRecord
      BY <2>4, RunFacts
    <3> QED
      BY <2>4, <3>1, RunFacts DEF RunRecord
  <2>6. run[w].slot = s
    <3>1. s \in Nat /\ run[w].slot \in Nat
      BY <2>5, FirstSlot
    <3>2. CASE run[w].pc = "seal"
      BY <2>2, <2>5, <3>2 DEF RunOK
    <3>3. CASE run[w].pc # "seal"
      <4>1. ~(s < run[w].slot) /\ ~(s > run[w].slot)
        BY <2>2, <2>5, <3>3 DEF RunOK
      <4> QED
        BY <3>1, <4>1
    <3> QED
      BY <3>2, <3>3
  <2>7. run[w].pc = "seal" \/ run[w].request = records[t].slots[s].request_id
    <3>1. run[w].pc \notin Uncharged /\ run[w].pc \notin {"confirm", "finish"}
      BY <2>2, <2>5, <2>6 DEF RunOK
    <3>2. run[w].pc = "seal" \/ run[w].pc \in Charged
      BY <2>4, <2>5, <3>1 DEF RunPc, Awaiting, Working, Uncharged, Unreviewed, Charged, Unsent
    <3> QED
      BY <2>5, <2>6, <3>2 DEF RunOK
  <2>8. SlotOf(w) = x
    BY <2>1, <2>4, <2>6 DEF SlotOf
  <2> QED
    BY <2>2, <2>4, <2>7, <2>8 DEF Working
<1> QED
  BY <1>1, AlwaysSound, AlwaysCore, PTL

(* Only the fence puts a write on the wire. *)
LEMMA OnlyFenceSends ==
    ASSUME [Next]_vars, NEW x \in wire' \ wire
    PROVE  \E w \in Run, now \in Time : Fence(w, now)
<1> SUFFICES ASSUME \A w \in Run, now \in Time : ~Fence(w, now) PROVE wire' \subseteq wire
  OBVIOUS
<1>1. ASSUME NEW w \in Run, RunStep(w) \/ Cancel(w)
      PROVE  wire' \subseteq wire
  <2>1. CASE Decide(w) \/ Present(w) \/ PresentRefused(w) \/ Granted(w) \/ Denied(w) \/ Check(w)
    BY <2>1 DEF Decide, Present, PresentRefused, Granted, Denied, Check, worldVars
  <2>2. CASE Barrier(w) \/ Prepare(w) \/ Recheck(w) \/ Answer(w) \/ Confirm(w) \/ Cancel(w)
    BY <2>2 DEF Barrier, Prepare, Recheck, Answer, Confirm, Cancel, worldVars
  <2>3. ASSUME NEW now \in Time, RecordApproval(w, now) \/ Finalize(w, now) \/ Finish(w, now)
                                 \/ Seal(w, now)
        PROVE  wire' \subseteq wire
    BY <2>3 DEF RecordApproval, Finalize, Finish, Seal, worldVars
  <2>4. ASSUME NEW now \in Time, NEW q \in Request, Reserve(w, q, now)
        PROVE  wire' \subseteq wire
    BY <2>4 DEF Reserve
  <2> QED
    BY <1>1, <2>1, <2>2, <2>3, <2>4 DEF RunStep
<1>2. ASSUME NEW w \in Run, NEW t \in Task, NEW now \in Time, Claim(w, t, now)
      PROVE  wire' \subseteq wire
  BY <1>2 DEF Claim, worldVars
<1>3. ASSUME NEW t \in Task, NEW now \in Time, Create(t, now) \/ Revoke(t, now) \/ Get(t, now)
      PROVE  wire' \subseteq wire
  BY <1>3 DEF Create, Revoke, Get, worldVars
<1>4. CASE SwapPolicy \/ RequesterChanges \/ ReviewerRevoked \/ Crash \/ Restart
  BY <1>4 DEF SwapPolicy, RequesterChanges, ReviewerRevoked, Crash, Restart, worldVars
<1>5. ASSUME NEW t \in Task, NEW s \in Slot, Provider(t, s)
      PROVE  wire' \subseteq wire
  BY <1>5 DEF Provider
<1>6. CASE UNCHANGED vars
  BY <1>6 DEF vars, worldVars
<1> QED
  BY <1>1, <1>2, <1>3, <1>4, <1>5, <1>6 DEF Next

(* before_dispatch: a write leaves only for a claimed, approved, live task  *)
(* that was reviewed under the policy generation in force, which still      *)
(* allows it, durably audited, in slot order, with the gate held.           *)
THEOREM DispatchesAuthorized == Spec => DispatchAuthorized
<1>1. Sound /\ Core /\ [Next]_vars =>
      [\A x \in wire' \ wire :
          /\ records[x[1]].state = "Running"
          /\ records[x[1]].approved_at # Ledger!None
          /\ policy.gen \in reviewed[x[1]]
          /\ policy.allowed
          /\ audit[x] = "durable"
          /\ GateHolds
          /\ \A s \in Slot : s < x[2] => SlotState(<<x[1], s>>) = "ApiAccepted"]_vars
  <2> SUFFICES ASSUME Sound, Core, [Next]_vars, NEW x \in wire' \ wire
               PROVE  /\ records[x[1]].state = "Running"
                      /\ records[x[1]].approved_at # Ledger!None
                      /\ policy.gen \in reviewed[x[1]]
                      /\ policy.allowed
                      /\ audit[x] = "durable"
                      /\ GateHolds
                      /\ \A s \in Slot : s < x[2] => SlotState(<<x[1], s>>) = "ApiAccepted"
    OBVIOUS
  <2>1. PICK w \in Run, now \in Time : Fence(w, now)
    BY OnlyFenceSends
  <2> DEFINE t == run[w].task
             s == run[w].slot
             q == run[w].request
             r == Ledger!Loaded(t, now)
  <2>2. /\ run[w].pc = "fence" /\ SameGeneration(w) /\ GateHolds
        /\ Ledger!CanDispatch(r, s, q, now) /\ x = <<t, s>>
    BY <2>1 DEF Fence, SlotOf
  <2>3. Working(run[w])
    BY <2>2 DEF Working
  <2>4. /\ t \in Task /\ s \in Slot
        /\ RunOK(run[w], records[t], prompts[t], effects, wire)
        /\ AuthorityOK(run[w], reviewed[t], audit)
    BY <2>3, RunFacts
  <2>5. /\ r.approved_at = records[t].approved_at
        /\ r.state = records[t].state \/ r.state = "Expired"
    BY <2>4, LoadedFacts DEF Sound
  <2>6. r.state = "Running" /\ r.approved_at # Ledger!None
    BY <2>2 DEF Ledger!CanDispatch
  <2>7. policy.gen \in reviewed[t] /\ policy.allowed /\ audit[<<t, s>>] = "durable"
    BY <2>2, <2>4 DEF AuthorityOK, Approved, Charged, Unsent, SameGeneration
  <2>8. \A i \in Slot : i < s => records[t].slots[i].state = "ApiAccepted"
    BY <2>2, <2>4 DEF RunOK
  <2>9. x[1] = t /\ x[2] = s
    BY <2>2
  <2> HIDE DEF t, s, q, r
  <2>10. \A i \in Slot : SlotState(<<t, i>>) = records[t].slots[i].state
    BY DEF SlotState
  <2> QED
    BY <2>2, <2>5, <2>6, <2>7, <2>8, <2>9, <2>10
<1> QED
  BY <1>1, AlwaysSound, AlwaysCore, PTL DEF Spec, DispatchAuthorized
=============================================================================
