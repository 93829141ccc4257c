--------------------------- MODULE TaskStoreProofs ---------------------------
(* Theorems about TaskStore, for any sets of tasks, slots and requests, any *)
(* greatest timestamp and any lifetime.                                     *)
EXTENDS TaskStore, TLAPS

-----------------------------------------------------------------------------
(* What the operators return is a row of the right shape. *)

(* Expiring a row in place keeps its shape (refresh_expiry). *)
LEMMA RefreshType ==
    ASSUME NEW r \in TaskRecord, NEW now \in Time
    PROVE  RefreshExpiry(r, now) \in TaskRecord
BY DEF TaskRecord, RefreshExpiry, TaskState

(* The slot create writes has the shape of a slot. *)
LEMMA PendingType == PendingSlot \in SlotRecord
BY DEF PendingSlot, SlotRecord, SlotState, OptTime

(* The absent row has the shape of a row. *)
LEMMA NoRecordType == NoRecord \in TaskRecord
BY PendingType DEF NoRecord, TaskRecord, OptTime

(* The row create inserts has the shape of a row. *)
LEMMA NewRecordType ==
    ASSUME NEW now \in Time, now + Lifetime <= MaxTime
    PROVE  NewRecord(now) \in TaskRecord
BY PendingType, TimeAssumption
   DEF NewRecord, TaskRecord, TaskState, Time, OptTime

(* claim keeps the shape of a row. *)
LEMMA ClaimType ==
    ASSUME NEW r \in TaskRecord
    PROVE  AfterClaim(r) \in TaskRecord
BY DEF AfterClaim, TaskRecord, TaskState

(* approve_with_receipt keeps the shape of a row. *)
LEMMA ApproveType ==
    ASSUME NEW r \in TaskRecord, NEW now \in Time, NEW mode \in ApprovalMode,
           NEW receipt
    PROVE  AfterApprove(r, mode, receipt, now) \in TaskRecord
BY DEF AfterApprove, TaskRecord, OptTime

(* reserve_slot keeps the shape of a row. *)
LEMMA ReserveType ==
    ASSUME NEW r \in TaskRecord, NEW now \in Time, NEW s \in Slot,
           NEW q \in Request
    PROVE  AfterReserve(r, s, q, now) \in TaskRecord
<1> DEFINE slot == [r.slots[s] EXCEPT !.state = "Reserved", !.request_id = q,
                                      !.reserved_at = now]
<1>0. r.slots[s] \in SlotRecord
  BY DEF TaskRecord
<1>1. slot \in SlotRecord
  BY <1>0 DEF SlotRecord, SlotState, OptTime
<1>2. AfterReserve(r, s, q, now) = [r EXCEPT !.slots = [r.slots EXCEPT ![s] = slot]]
  BY DEF AfterReserve, TaskRecord
<1> QED
  BY <1>1, <1>2 DEF TaskRecord

(* finalize_slot keeps the shape of a row, whatever outcome it is given. *)
LEMMA FinalizeType ==
    ASSUME NEW r \in TaskRecord, NEW now \in Time, NEW s \in Slot,
           NEW o \in Outcome
    PROVE  AfterFinalize(r, s, o, now) \in TaskRecord
<1> DEFINE slot == [r.slots[s] EXCEPT !.state = OutcomeState(o),
                                      !.finished_at = now, !.outcome = o]
           slots == [r.slots EXCEPT ![s] = slot]
<1>0. r.slots[s] \in SlotRecord /\ OutcomeState(o) \in SlotState
  BY DEF TaskRecord, OutcomeState, SlotState, Terminal
<1>1. slot \in SlotRecord
  BY <1>0 DEF SlotRecord, OptTime
<1>2. slots \in [Slot -> SlotRecord]
  BY <1>1 DEF TaskRecord
<1> HIDE DEF slots
<1> QED
  BY <1>2 DEF AfterFinalize, TaskRecord, TaskState, ClosingState, slots

(* Sealing a slot as interrupted keeps the shape of a slot. *)
LEMMA InterruptedType ==
    ASSUME NEW slot \in SlotRecord, NEW finished \in OptTime
    PROVE  Interrupted(slot, finished) \in SlotRecord
BY DEF Interrupted, SlotRecord, SlotState, Terminal, Outcome

(* finish_run keeps the shape of a row. *)
LEMMA FinishRunType ==
    ASSUME NEW r \in TaskRecord, NEW now \in Time
    PROVE  AfterFinishRun(r, now) \in TaskRecord
<1> DEFINE later(slot) == IF now >= slot.reserved_at THEN now
                          ELSE slot.reserved_at
           slots == [s \in Slot |-> Interrupted(r.slots[s], later(r.slots[s]))]
<1>1. \A s \in Slot : r.slots[s] \in SlotRecord /\ later(r.slots[s]) \in OptTime
  BY DEF TaskRecord, SlotRecord, OptTime
<1>2. slots \in [Slot -> SlotRecord]
  BY <1>1, InterruptedType
<1> HIDE DEF slots
<1> QED
  BY <1>2 DEF AfterFinishRun, TaskRecord, TaskState, ClosingState, slots

(* Recovery at open keeps the shape of a row. *)
LEMMA RecoveredType ==
    ASSUME NEW r \in TaskRecord
    PROVE  Recovered(r) \in TaskRecord
<1> DEFINE slots == [s \in Slot |-> Interrupted(r.slots[s], None)]
<1>1. slots \in [Slot -> SlotRecord]
  BY InterruptedType DEF TaskRecord, OptTime
<1> HIDE DEF slots
<1> QED
  BY <1>1 DEF Recovered, TaskRecord, TaskState, slots

(* revoke keeps the shape of a row. *)
LEMMA RevokeType ==
    ASSUME NEW r \in TaskRecord
    PROVE  AfterRevoke(r) \in TaskRecord
BY DEF AfterRevoke, TaskRecord, TaskState

-----------------------------------------------------------------------------
(* A call through mutate keeps the types when what it may store has them. *)
LEMMA MutateType ==
    ASSUME TypeOK, NEW t \in Task, NEW before \in TaskRecord, NEW ok, NEW after,
           ok => after \in TaskRecord,
           Mutate(t, before, ok, after)
    PROVE  TypeOK'
BY DEF Mutate, TypeOK

(* Type correctness: every row of the ledger has the shape TaskRecord. *)
THEOREM TypeCorrect == Spec => []TypeOK
<1>1. Init => TypeOK
  BY NoRecordType DEF Init, TypeOK
<1>2. TypeOK /\ [Next]_vars => TypeOK'
  <2> SUFFICES ASSUME TypeOK, [Next]_vars PROVE TypeOK'
    OBVIOUS
  <2>1. ASSUME NEW t \in Task, NEW now \in Time, TaskNext(t, now)
        PROVE  TypeOK'
    <3> DEFINE r == Loaded(t, now)
    <3>0. r \in TaskRecord
      BY RefreshType DEF TypeOK, Loaded
    <3> HIDE DEF r
    <3>1. CASE Create(t, now)
      BY <3>1, NewRecordType DEF Create, TypeOK
    <3>2. CASE Get(t, now)
      BY <3>0, <3>2, MutateType DEF Get, r
    <3>3. CASE Claim(t, now)
      BY <3>0, <3>3, ClaimType, MutateType DEF Claim, r
    <3>4. ASSUME NEW mode \in ApprovalMode, NEW receipt \in Receipt,
                 ApproveWithReceipt(t, mode, receipt, now)
          PROVE  TypeOK'
      BY <3>0, <3>4, ApproveType, MutateType DEF ApproveWithReceipt, r
    <3>5. ASSUME NEW s \in Slot, NEW q \in Request, ReserveSlot(t, s, q, now)
          PROVE  TypeOK'
      BY <3>0, <3>5, ReserveType, MutateType DEF ReserveSlot, r
    <3>6. ASSUME NEW s \in Slot, NEW q \in Request,
                 AuthorizeDispatch(t, s, q, now)
          PROVE  TypeOK'
      BY <3>0, <3>6, MutateType DEF AuthorizeDispatch, r
    <3>7. ASSUME NEW s \in Slot, NEW q \in Request, NEW o \in Outcome,
                 FinalizeSlot(t, s, q, o, now)
          PROVE  TypeOK'
      BY <3>0, <3>7, FinalizeType, MutateType DEF FinalizeSlot, r
    <3>8. CASE FinishRun(t, now)
      BY <3>0, <3>8, FinishRunType, MutateType DEF FinishRun, r
    <3>9. CASE Revoke(t, now)
      BY <3>0, <3>9, RevokeType, MutateType DEF Revoke, r
    <3> QED
      BY <2>1, <3>1, <3>2, <3>3, <3>4, <3>5, <3>6, <3>7, <3>8, <3>9 DEF TaskNext
  <2>2. ASSUME NEW page \in SUBSET Task, NEW now \in Time, ListPage(page, now)
        PROVE  TypeOK'
    BY <2>2, RefreshType DEF ListPage, Loaded, TypeOK
  <2>3. CASE Close
    BY <2>3 DEF Close, TypeOK
  <2>4. CASE Open
    BY <2>4, RecoveredType DEF Open, TypeOK
  <2>5. CASE UNCHANGED vars
    BY <2>5 DEF vars, TypeOK
  <2> QED
    BY <2>1, <2>2, <2>3, <2>4, <2>5 DEF Next
<1> QED
  BY <1>1, <1>2, PTL DEF Spec

-----------------------------------------------------------------------------
(* Every operator maps a row that verify_record accepts to one it accepts. *)

(* A closed state puts no new demand on a row: only its Reserved slots or   *)
(* unaccepted slots can, and Revoked and Expired ask nothing.               *)
LEMMA StateChangeValid ==
    ASSUME NEW r \in TaskRecord, VerifyRecord(r),
           NEW st \in {"Running", "Revoked", "Expired"}
    PROVE  VerifyRecord([r EXCEPT !.state = st])
BY DEF VerifyRecord, VerifyApproval, VerifySlot, VerifyState, TaskRecord

(* Expiring a row in place leaves it verifiable (refresh_expiry). *)
LEMMA RefreshValid ==
    ASSUME NEW r \in TaskRecord, NEW now \in Time, VerifyRecord(r)
    PROVE  VerifyRecord(RefreshExpiry(r, now))
BY StateChangeValid DEF RefreshExpiry

(* The row create inserts passes verify_record. *)
LEMMA NewRecordValid ==
    ASSUME NEW now \in Time
    PROVE  VerifyRecord(NewRecord(now))
BY TimeAssumption
   DEF NewRecord, VerifyRecord, VerifyApproval, VerifySlot, VerifyState,
       PendingSlot, None, Time

(* What RefreshExpiry leaves Planned or Running has not expired at now. *)
LEMMA RefreshLive ==
    ASSUME NEW r \in TaskRecord, NEW now \in Time,
           RefreshExpiry(r, now).state = "Running"
    PROVE  now < RefreshExpiry(r, now).expires_at
BY DEF RefreshExpiry, TaskRecord, Time, OptTime, None

(* An admitted approval leaves the row verifiable: it is timed before expiry. *)
LEMMA ApproveValid ==
    ASSUME NEW r \in TaskRecord, NEW now \in Time, NEW mode \in ApprovalMode,
           NEW receipt, VerifyRecord(r), CanApprove(r, mode, receipt, now),
           now < r.expires_at
    PROVE  VerifyRecord(AfterApprove(r, mode, receipt, now))
<1> DEFINE new == AfterApprove(r, mode, receipt, now)
<1>1. new.slots = r.slots /\ new.state = r.state /\ new.created_at = r.created_at
      /\ new.expires_at = r.expires_at /\ new.approved_at = now
      /\ new.approval_mode = mode
      /\ new.workstation_receipt = (receipt # "none")
  BY DEF AfterApprove, TaskRecord
<1>2. now # None
  BY DEF Time, None
<1>3. VerifyApproval(new)
  BY <1>1, <1>2 DEF VerifyApproval, VerifyRecord, CanApprove
<1>4. \A s \in Slot : VerifySlot(new, new.slots[s])
  BY <1>1 DEF VerifyRecord, VerifySlot, CanApprove
<1>5. VerifyState(new)
  BY <1>1 DEF CanApprove, VerifyState
<1> QED
  BY <1>3, <1>4, <1>5 DEF VerifyRecord

(* Changing one slot of a running row: the row is valid when that slot is. *)
LEMMA SlotChangeValid ==
    ASSUME NEW r \in TaskRecord, VerifyRecord(r), NEW s \in Slot, NEW slot,
           VerifySlot(r, slot), NEW new,
           new.slots = [r.slots EXCEPT ![s] = slot],
           new.created_at = r.created_at, new.expires_at = r.expires_at,
           new.approved_at = r.approved_at,
           new.approval_mode = r.approval_mode,
           new.workstation_receipt = r.workstation_receipt,
           VerifyState(new)
    PROVE  VerifyRecord(new)
<1>1. VerifyApproval(new)
  BY DEF VerifyRecord, VerifyApproval
<1>2. ASSUME NEW i \in Slot PROVE VerifySlot(new, new.slots[i])
  <2>1. VerifySlot(r, new.slots[i])
    BY DEF VerifyRecord, TaskRecord
  <2> QED
    BY <2>1 DEF VerifySlot
<1> QED
  BY <1>1, <1>2 DEF VerifyRecord

(* An admitted reservation leaves the row verifiable. *)
LEMMA ReserveValid ==
    ASSUME NEW r \in TaskRecord, NEW now \in Time, NEW s \in Slot,
           NEW q \in Request, VerifyRecord(r), CanReserve(r, s, now),
           now < r.expires_at
    PROVE  VerifyRecord(AfterReserve(r, s, q, now))
<1> DEFINE slot == [r.slots[s] EXCEPT !.state = "Reserved", !.request_id = q,
                                      !.reserved_at = now]
           new == AfterReserve(r, s, q, now)
<1>1. r.slots[s] = PendingSlot
  BY DEF VerifyRecord, VerifySlot, CanReserve
<1>2. VerifySlot(r, slot)
  BY <1>1, RequestAssumption
     DEF VerifySlot, CanReserve, PendingSlot, Time, None
<1>3. new = [r EXCEPT !.slots = [r.slots EXCEPT ![s] = slot]]
  BY DEF AfterReserve, TaskRecord
<1> HIDE DEF slot, new
<1>4. VerifyState(new)
  BY <1>3 DEF VerifyState, CanReserve, TaskRecord
<1> QED
  BY <1>2, <1>3, <1>4, SlotChangeValid DEF TaskRecord, new

(* An admitted final outcome leaves the row verifiable, even when the clock receded. *)
LEMMA FinalizeValid ==
    ASSUME NEW r \in TaskRecord, NEW now \in Time, NEW s \in Slot,
           NEW q \in Request, NEW o \in Outcome, VerifyRecord(r),
           CanFinalize(r, s, q, now)
    PROVE  VerifyRecord(AfterFinalize(r, s, o, now))
<1> DEFINE slot == [r.slots[s] EXCEPT !.state = OutcomeState(o),
                                      !.finished_at = now, !.outcome = o]
           slots == [r.slots EXCEPT ![s] = slot]
           new == AfterFinalize(r, s, o, now)
<1>0. r.slots[s] \in SlotRecord
  BY DEF TaskRecord
<1>1. OutcomeState(o) \in Terminal /\ o # "none"
  BY DEF OutcomeState, Terminal, Outcome
<1>2. slot.state = OutcomeState(o) /\ slot.finished_at = now /\ slot.outcome = o
      /\ slot.request_id = r.slots[s].request_id
      /\ slot.reserved_at = r.slots[s].reserved_at
  BY <1>0 DEF SlotRecord
<1> HIDE DEF slot
<1>3. VerifySlot(r, slot)
  <2>1. VerifySlot(r, r.slots[s]) /\ r.slots[s].state = "Reserved"
        /\ now >= r.slots[s].reserved_at
    BY DEF VerifyRecord, CanFinalize, HoldsReservation
  <2>2. slot.state # "Pending" /\ slot.state # "Reserved"
    BY <1>1, <1>2 DEF Terminal
  <2>3. now # None
    BY DEF Time, None
  <2> QED
    BY <1>1, <1>2, <2>1, <2>2, <2>3 DEF VerifySlot
<1>4. new = [r EXCEPT !.slots = slots,
                      !.state = IF /\ r.state = "Running"
                                   /\ \A i \in Slot : slots[i].state \in Terminal
                                THEN ClosingState(slots) ELSE r.state]
  BY DEF AfterFinalize, slot
<1>5. new.slots = slots /\ new.created_at = r.created_at
      /\ new.expires_at = r.expires_at /\ new.approved_at = r.approved_at
      /\ new.approval_mode = r.approval_mode
      /\ new.workstation_receipt = r.workstation_receipt
      /\ new.state = IF /\ r.state = "Running"
                        /\ \A i \in Slot : slots[i].state \in Terminal
                     THEN ClosingState(slots) ELSE r.state
  BY <1>4 DEF TaskRecord
<1> HIDE DEF new
<1>6. VerifyState(new)
  <2>1. r.state \notin {"Planned", "Completed", "Partial"}
    BY DEF VerifyRecord, VerifyState, CanFinalize, HoldsReservation
  <2>2. CASE new.state = r.state
    BY <2>1, <2>2 DEF VerifyState
  <2>3. CASE /\ \A i \in Slot : slots[i].state \in Terminal
             /\ new.state = ClosingState(slots)
    BY <1>5, <2>3 DEF VerifyState, ClosingState, Terminal
  <2> HIDE DEF slots
  <2> QED
    BY <1>5, <2>2, <2>3
<1> QED
  BY <1>3, <1>5, <1>6, SlotChangeValid DEF new

(* Sealing a reservation as interrupted, with a time not before it or none. *)
LEMMA InterruptedValid ==
    ASSUME NEW r \in TaskRecord, NEW slot \in SlotRecord, VerifySlot(r, slot),
           NEW finished \in OptTime,
           slot.state = "Reserved" /\ finished # None
              => slot.reserved_at <= finished
    PROVE  /\ VerifySlot(r, Interrupted(slot, finished))
           /\ Interrupted(slot, finished).state # "Reserved"
           /\ slot.state # "Reserved" => Interrupted(slot, finished) = slot
           /\ Interrupted(slot, finished).state = "Pending"
                 => slot.state = "Pending"
<1>1. CASE slot.state # "Reserved"
  BY <1>1 DEF Interrupted
<1>2. CASE slot.state = "Reserved"
  <2> DEFINE new == Interrupted(slot, finished)
  <2>1. new.state = "Unknown" /\ new.finished_at = finished
        /\ new.outcome = "interrupted" /\ new.request_id = slot.request_id
        /\ new.reserved_at = slot.reserved_at
    BY <1>2 DEF Interrupted, SlotRecord
  <2> HIDE DEF new
  <2>2. VerifySlot(r, new)
    BY <1>2, <2>1 DEF VerifySlot, OutcomeState
  <2> QED
    BY <1>2, <2>1, <2>2 DEF new
<1> QED
  BY <1>1, <1>2

(* Sealing every reservation of a row and closing it. *)
LEMMA SealValid ==
    ASSUME NEW r \in TaskRecord, VerifyRecord(r), NEW new, NEW finished,
           \A s \in Slot : finished[s] \in OptTime,
           \A s \in Slot : r.slots[s].state = "Reserved" /\ finished[s] # None
              => r.slots[s].reserved_at <= finished[s],
           new.slots = [s \in Slot |-> Interrupted(r.slots[s], finished[s])],
           new.created_at = r.created_at, new.expires_at = r.expires_at,
           new.approved_at = r.approved_at,
           new.approval_mode = r.approval_mode,
           new.workstation_receipt = r.workstation_receipt,
           \/ new.state = r.state
           \/ new.state = "Partial"
           \/ new.state = ClosingState(new.slots)
    PROVE  VerifyRecord(new)
<1>1. \A s \in Slot : /\ VerifySlot(r, new.slots[s])
                      /\ new.slots[s].state # "Reserved"
                      /\ r.slots[s].state # "Reserved"
                            => new.slots[s] = r.slots[s]
  BY InterruptedValid DEF TaskRecord, VerifyRecord
<1>2. VerifyApproval(new)
  BY DEF VerifyRecord, VerifyApproval
<1>3. \A s \in Slot : VerifySlot(new, new.slots[s])
  BY <1>1 DEF VerifySlot
<1>4. VerifyState(new)
  <2>1. CASE new.state = r.state
    BY <1>1, <2>1 DEF VerifyRecord, VerifyState
  <2>2. CASE new.state # r.state
    BY <1>1, <2>2 DEF VerifyState, ClosingState
  <2> QED
    BY <2>1, <2>2
<1> QED
  BY <1>2, <1>3, <1>4 DEF VerifyRecord

(* Closing a run leaves the row verifiable. *)
LEMMA FinishRunValid ==
    ASSUME NEW r \in TaskRecord, NEW now \in Time, VerifyRecord(r)
    PROVE  VerifyRecord(AfterFinishRun(r, now))
<1> DEFINE later(slot) == IF now >= slot.reserved_at THEN now
                          ELSE slot.reserved_at
           finished == [s \in Slot |-> later(r.slots[s])]
           new == AfterFinishRun(r, now)
<1>1. \A s \in Slot : /\ finished[s] \in OptTime
                      /\ r.slots[s].reserved_at <= finished[s]
  BY DEF TaskRecord, SlotRecord, OptTime, Time, None
<1>2. /\ new.slots = [s \in Slot |-> Interrupted(r.slots[s], finished[s])]
      /\ new.created_at = r.created_at /\ new.expires_at = r.expires_at
      /\ new.approved_at = r.approved_at /\ new.approval_mode = r.approval_mode
      /\ new.workstation_receipt = r.workstation_receipt
      /\ new.state = r.state \/ new.state = ClosingState(new.slots)
  BY DEF AfterFinishRun, TaskRecord
<1> HIDE DEF new, finished
<1> QED
  BY <1>1, <1>2, SealValid DEF new

(* Recovery at open leaves the row verifiable at any reading of the clock. *)
LEMMA RecoveredValid ==
    ASSUME NEW r \in TaskRecord, VerifyRecord(r)
    PROVE  VerifyRecord(Recovered(r))
<1> DEFINE finished == [s \in Slot |-> None]
           new == Recovered(r)
<1>1. \A s \in Slot : finished[s] \in OptTime /\ finished[s] = None
  BY DEF OptTime
<1>2. /\ new.slots = [s \in Slot |-> Interrupted(r.slots[s], finished[s])]
      /\ new.created_at = r.created_at /\ new.expires_at = r.expires_at
      /\ new.approved_at = r.approved_at /\ new.approval_mode = r.approval_mode
      /\ new.workstation_receipt = r.workstation_receipt
      /\ new.state = r.state \/ new.state = "Partial"
  BY DEF Recovered, TaskRecord
<1> HIDE DEF new, finished
<1> QED
  BY <1>1, <1>2, SealValid DEF new

(* revoke leaves the row verifiable. *)
LEMMA RevokeValid ==
    ASSUME NEW r \in TaskRecord, VerifyRecord(r)
    PROVE  VerifyRecord(AfterRevoke(r))
BY StateChangeValid DEF AfterRevoke

(* Loading a row keeps its shape and validity. *)
LEMMA LoadedValid ==
    ASSUME TypeOK, NeverCorrupt, NEW t \in Task, NEW now \in Time, Exists(t)
    PROVE  /\ Loaded(t, now) \in TaskRecord
           /\ VerifyRecord(Loaded(t, now))
           /\ Loaded(t, now).state # "Absent"
           /\ Loaded(t, now).state = "Running" => now < Loaded(t, now).expires_at
<1>1. records[t] \in TaskRecord /\ VerifyRecord(records[t])
  BY DEF TypeOK, NeverCorrupt
<1>2. Loaded(t, now).state # "Absent"
  BY <1>1 DEF Loaded, RefreshExpiry, Exists, TaskRecord
<1> QED
  BY <1>1, <1>2, RefreshType, RefreshValid, RefreshLive DEF Loaded

(* A call through mutate never answers Corrupt when what it stores verifies. *)
LEMMA MutateValid ==
    ASSUME TypeOK, NeverCorrupt, NEW t \in Task, NEW before, NEW ok, NEW after,
           VerifyRecord(before), ok => VerifyRecord(after),
           Mutate(t, before, ok, after)
    PROVE  NeverCorrupt'
BY DEF Mutate, NeverCorrupt, TypeOK, Exists

(* The ledger never writes, keeps or refuses a row that verify_record       *)
(* rejects, whatever the wall clock of each call and however often the      *)
(* daemon restarts (task_store.rs: mutate, save_record, open_for_tenant).   *)
THEOREM LedgerNeverCorrupt == Spec => []NeverCorrupt
<1>1. Init => NeverCorrupt
  BY DEF Init, NeverCorrupt, Exists, NoRecord
<1>2. TypeOK /\ NeverCorrupt /\ [Next]_vars => NeverCorrupt'
  <2> SUFFICES ASSUME TypeOK, NeverCorrupt, [Next]_vars PROVE NeverCorrupt'
    OBVIOUS
  <2>1. ASSUME NEW t \in Task, NEW now \in Time, TaskNext(t, now)
        PROVE  NeverCorrupt'
    <3>1. CASE Create(t, now)
      BY <3>1, NewRecordValid DEF Create, NeverCorrupt, TypeOK, Exists
    <3>2. CASE ~Create(t, now)
      <4> DEFINE r == Loaded(t, now)
      <4>0. /\ r \in TaskRecord /\ VerifyRecord(r)
            /\ r.state = "Running" => now < r.expires_at
        <5>1. Exists(t)
          BY <2>1, <3>2 DEF TaskNext, Get, Claim, ApproveWithReceipt,
             ReserveSlot, AuthorizeDispatch, FinalizeSlot, FinishRun, Revoke,
             Mutate
        <5> QED
          BY <5>1, LoadedValid
      <4> HIDE DEF r
      <4>1. CASE Get(t, now)
        BY <4>0, <4>1, MutateValid DEF Get, r
      <4>2. CASE Claim(t, now)
        BY <4>0, <4>2, StateChangeValid, MutateValid DEF Claim, AfterClaim, r
      <4>3. ASSUME NEW mode \in ApprovalMode, NEW receipt \in Receipt,
                   ApproveWithReceipt(t, mode, receipt, now)
            PROVE  NeverCorrupt'
        <5>1. CanApprove(r, mode, receipt, now)
                 => VerifyRecord(AfterApprove(r, mode, receipt, now))
          BY <4>0, ApproveValid DEF CanApprove
        <5> QED
          BY <4>0, <4>3, <5>1, MutateValid DEF ApproveWithReceipt, r
      <4>4. ASSUME NEW s \in Slot, NEW q \in Request, ReserveSlot(t, s, q, now)
            PROVE  NeverCorrupt'
        <5>1. CanReserve(r, s, now) => VerifyRecord(AfterReserve(r, s, q, now))
          BY <4>0, ReserveValid DEF CanReserve
        <5> QED
          BY <4>0, <4>4, <5>1, MutateValid DEF ReserveSlot, r
      <4>5. ASSUME NEW s \in Slot, NEW q \in Request,
                   AuthorizeDispatch(t, s, q, now)
            PROVE  NeverCorrupt'
        BY <4>0, <4>5, MutateValid DEF AuthorizeDispatch, r
      <4>6. ASSUME NEW s \in Slot, NEW q \in Request, NEW o \in Outcome,
                   FinalizeSlot(t, s, q, o, now)
            PROVE  NeverCorrupt'
        BY <4>0, <4>6, FinalizeValid, MutateValid DEF FinalizeSlot, r
      <4>7. CASE FinishRun(t, now)
        BY <4>0, <4>7, FinishRunValid, MutateValid DEF FinishRun, r
      <4>8. CASE Revoke(t, now)
        BY <4>0, <4>8, RevokeValid, MutateValid DEF Revoke, r
      <4> QED
        BY <2>1, <3>2, <4>1, <4>2, <4>3, <4>4, <4>5, <4>6, <4>7, <4>8
           DEF TaskNext
    <3> QED
      BY <3>1, <3>2
  <2>2. ASSUME NEW page \in SUBSET Task, NEW now \in Time, ListPage(page, now)
        PROVE  NeverCorrupt'
    <3>1. \A t \in page : /\ VerifyRecord(records[t])
                          /\ VerifyRecord(Loaded(t, now))
      BY <2>2, LoadedValid DEF ListPage, NeverCorrupt
    <3>2. \A t \in Task : records'[t] = IF t \in page THEN Loaded(t, now)
                                        ELSE records[t]
      BY <2>2, <3>1 DEF ListPage
    <3> QED
      BY <2>2, <3>1, <3>2 DEF ListPage, NeverCorrupt, Exists
  <2>3. CASE Close
    BY <2>3 DEF Close, NeverCorrupt, Exists
  <2>4. CASE Open
    <3>1. \A t \in Task : Exists(t) => /\ VerifyRecord(records[t])
                                       /\ VerifyRecord(Recovered(records[t]))
      BY RecoveredValid DEF NeverCorrupt, TypeOK
    <3>2. \A t \in Task : records'[t] = IF Exists(t) THEN Recovered(records[t])
                                        ELSE records[t]
      BY <2>4, <3>1 DEF Open
    <3> QED
      BY <2>4, <3>1, <3>2 DEF Open, NeverCorrupt, Exists
  <2>5. CASE UNCHANGED vars
    BY <2>5 DEF vars, NeverCorrupt, Exists
  <2> QED
    BY <2>1, <2>2, <2>3, <2>4, <2>5 DEF Next
<1> QED
  BY <1>1, <1>2, TypeCorrect, PTL DEF Spec

-----------------------------------------------------------------------------
(* What a call may do to a row.  An absent row is blank, so that create     *)
(* cannot be taken for a change of slots that were there before.            *)

RowStep(old, new) ==
    /\ ChargeStep(old, new)
    /\ AuthorityStep(old, new)
    /\ new.state # "Absent"

AbsentBlank == \A t \in Task : Exists(t) \/ records[t] = NoRecord

(* A refused call keeps the row it loaded. *)
LEMMA SameStep ==
    ASSUME NEW r \in TaskRecord, r.state # "Absent"
    PROVE  RowStep(r, r)
BY DEF RowStep, ChargeStep, SlotStep, AuthorityStep, TaskRecord, Closed

(* create fills a blank row. *)
LEMMA CreateStep ==
    ASSUME NEW now \in Time
    PROVE  RowStep(NoRecord, NewRecord(now))
BY DEF RowStep, ChargeStep, SlotStep, AuthorityStep, NoRecord, NewRecord, Closed

(* What is allowed to the row after refresh_expiry is allowed before it. *)
LEMMA RefreshStep ==
    ASSUME NEW r \in TaskRecord, NEW now \in Time, NEW new,
           RowStep(RefreshExpiry(r, now), new)
    PROVE  RowStep(r, new)
<1>1. CASE RefreshExpiry(r, now) = r
  BY <1>1
<1>2. CASE RefreshExpiry(r, now) # r
  <2> DEFINE e == [r EXCEPT !.state = "Expired"]
  <2>1. RefreshExpiry(r, now) = e /\ r.state \in {"Planned", "Running"}
    BY <1>2 DEF RefreshExpiry
  <2>2. /\ e.slots = r.slots /\ e.state = "Expired"
        /\ e.approved_at = r.approved_at /\ e.approval_mode = r.approval_mode
        /\ e.workstation_receipt = r.workstation_receipt
    BY DEF TaskRecord
  <2>3. RowStep(e, new)
    BY <2>1
  <2> HIDE DEF e
  <2> QED
    BY <2>1, <2>2, <2>3 DEF RowStep, ChargeStep, AuthorityStep, Closed
<1> QED
  BY <1>1, <1>2

(* claim moves a planned row to Running and touches nothing else. *)
LEMMA ClaimStep ==
    ASSUME NEW r \in TaskRecord, CanClaim(r)
    PROVE  RowStep(r, AfterClaim(r))
BY DEF RowStep, ChargeStep, SlotStep, AuthorityStep, TaskRecord, Closed,
       CanClaim, AfterClaim

(* approve_with_receipt writes the approval of a running row, once. *)
LEMMA ApproveStep ==
    ASSUME NEW r \in TaskRecord, NEW mode, NEW receipt, NEW now \in Time,
           CanApprove(r, mode, receipt, now)
    PROVE  RowStep(r, AfterApprove(r, mode, receipt, now))
BY DEF RowStep, ChargeStep, SlotStep, AuthorityStep, TaskRecord, Closed,
       CanApprove, AfterApprove

(* reserve_slot charges a pending slot of an approved, running row. *)
LEMMA ReserveStep ==
    ASSUME NEW r \in TaskRecord, NEW s \in Slot, NEW q, NEW now \in Time,
           CanReserve(r, s, now)
    PROVE  RowStep(r, AfterReserve(r, s, q, now))
<1> DEFINE new == AfterReserve(r, s, q, now)
<1>1. /\ new.state = r.state /\ new.approved_at = r.approved_at
      /\ new.approval_mode = r.approval_mode
      /\ new.workstation_receipt = r.workstation_receipt
  BY DEF AfterReserve, TaskRecord
<1>2. /\ \A i \in Slot \ {s} : new.slots[i] = r.slots[i]
      /\ new.slots[s].state = "Reserved"
  BY DEF AfterReserve, TaskRecord, SlotRecord
<1> HIDE DEF new
<1>3. ChargeStep(r, new)
  BY <1>2 DEF ChargeStep, SlotStep, CanReserve
<1> QED
  BY <1>1, <1>3 DEF RowStep, AuthorityStep, CanReserve, Closed, new

(* finalize_slot settles a charged slot under the request that charged it. *)
LEMMA FinalizeStep ==
    ASSUME NEW r \in TaskRecord, r.state # "Absent", NEW s \in Slot, NEW q,
           NEW o \in Outcome, NEW now \in Time, CanFinalize(r, s, q, now)
    PROVE  RowStep(r, AfterFinalize(r, s, o, now))
<1> DEFINE new == AfterFinalize(r, s, o, now)
<1>0. OutcomeState(o) \in Terminal
  BY DEF OutcomeState, Terminal
<1>1. /\ new.approved_at = r.approved_at
      /\ new.approval_mode = r.approval_mode
      /\ new.workstation_receipt = r.workstation_receipt
      /\ \/ new.state = r.state
         \/ r.state = "Running" /\ new.state \in {"Completed", "Partial"}
  BY DEF AfterFinalize, ClosingState, TaskRecord
<1>2. /\ \A i \in Slot \ {s} : new.slots[i] = r.slots[i]
      /\ new.slots[s].state \in Terminal
      /\ new.slots[s].request_id = r.slots[s].request_id
      /\ new.slots[s].reserved_at = r.slots[s].reserved_at
  BY <1>0 DEF AfterFinalize, TaskRecord, SlotRecord
<1> HIDE DEF new
<1>3. ChargeStep(r, new)
  BY <1>2 DEF ChargeStep, SlotStep, CanFinalize, HoldsReservation
<1> QED
  BY <1>1, <1>3 DEF RowStep, AuthorityStep, Closed, new

(* Sealing settles charged slots and leaves the others alone. *)
LEMMA InterruptedStep ==
    ASSUME NEW slot \in SlotRecord, NEW finished
    PROVE  /\ SlotStep(slot, Interrupted(slot, finished))
           /\ slot.state = "Pending" => Interrupted(slot, finished) = slot
BY DEF SlotStep, Interrupted, SlotRecord, Terminal

(* finish_run seals the row and closes it if it is still running. *)
LEMMA FinishRunStep ==
    ASSUME NEW r \in TaskRecord, r.state # "Absent", NEW now \in Time
    PROVE  RowStep(r, AfterFinishRun(r, now))
<1> DEFINE new == AfterFinishRun(r, now)
<1>1. /\ new.approved_at = r.approved_at
      /\ new.approval_mode = r.approval_mode
      /\ new.workstation_receipt = r.workstation_receipt
      /\ \/ new.state = r.state
         \/ r.state = "Running" /\ new.state \in {"Completed", "Partial"}
  BY DEF AfterFinishRun, ClosingState, TaskRecord
<1>2. \A s \in Slot : \E f : new.slots[s] = Interrupted(r.slots[s], f)
  BY DEF AfterFinishRun, TaskRecord
<1> HIDE DEF new
<1>3. ChargeStep(r, new)
  BY <1>2, InterruptedStep DEF ChargeStep, TaskRecord
<1> QED
  BY <1>1, <1>3 DEF RowStep, AuthorityStep, Closed, new

(* The recovery at open does the same. *)
LEMMA RecoveredStep ==
    ASSUME NEW r \in TaskRecord, r.state # "Absent"
    PROVE  RowStep(r, Recovered(r))
<1> DEFINE new == Recovered(r)
<1>1. /\ new.approved_at = r.approved_at
      /\ new.approval_mode = r.approval_mode
      /\ new.workstation_receipt = r.workstation_receipt
      /\ \/ new.state = r.state
         \/ r.state = "Running" /\ new.state = "Partial"
  BY DEF Recovered, TaskRecord
<1>2. \A s \in Slot : \E f : new.slots[s] = Interrupted(r.slots[s], f)
  BY DEF Recovered, TaskRecord
<1> HIDE DEF new
<1>3. ChargeStep(r, new)
  BY <1>2, InterruptedStep DEF ChargeStep, TaskRecord
<1> QED
  BY <1>1, <1>3 DEF RowStep, AuthorityStep, Closed, new

(* revoke ends a planned or running row. *)
LEMMA RevokeStep ==
    ASSUME NEW r \in TaskRecord, r.state # "Absent"
    PROVE  RowStep(r, AfterRevoke(r))
BY DEF RowStep, ChargeStep, SlotStep, AuthorityStep, TaskRecord, Closed,
       AfterRevoke

(* A call on one row changes no other, and this one only as allowed. *)
LEMMA MutateStep ==
    ASSUME TypeOK, NEW t \in Task, NEW now \in Time, NEW ok, NEW after,
           ok => RowStep(Loaded(t, now), after),
           Mutate(t, Loaded(t, now), ok, after)
    PROVE  \A u \in Task : records'[u] = records[u] \/ RowStep(records[u], records'[u])
<1> DEFINE r == Loaded(t, now)
           new == IF ok THEN after ELSE r
<1>1. Exists(t) /\ records[t] \in TaskRecord
  BY DEF Mutate, TypeOK
<1>2. r \in TaskRecord /\ r.state # "Absent"
  BY <1>1, RefreshType DEF Loaded, RefreshExpiry, Exists, TaskRecord
<1>3. RowStep(r, new)
  BY <1>2, SameStep
<1>4. RowStep(records[t], new)
  BY <1>1, <1>3, RefreshStep DEF Loaded
<1>5. records' = records \/ records' = [records EXCEPT ![t] = new]
  BY DEF Mutate
<1> HIDE DEF new
<1> QED
  BY <1>4, <1>5 DEF TypeOK

(* Every step of the ledger keeps or advances each row. *)
LEMMA NextStep ==
    ASSUME TypeOK, AbsentBlank, [Next]_vars
    PROVE  \A u \in Task : records'[u] = records[u] \/ RowStep(records[u], records'[u])
<1> DEFINE Goal == \A u \in Task :
                      records'[u] = records[u] \/ RowStep(records[u], records'[u])
<1>1. ASSUME NEW t \in Task, NEW now \in Time, TaskNext(t, now)
      PROVE  Goal
  <2> DEFINE r == Loaded(t, now)
  <2>1. CASE Create(t, now)
    <3>1. records[t] = NoRecord /\ records' = [records EXCEPT ![t] = NewRecord(now)]
      BY <2>1 DEF Create, AbsentBlank
    <3> QED
      BY <3>1, CreateStep DEF TypeOK
  <2>2. CASE ~Create(t, now)
    <3>0. r \in TaskRecord /\ r.state # "Absent"
      <4>1. Exists(t) /\ records[t] \in TaskRecord
        BY <1>1, <2>2 DEF TaskNext, Get, Claim, ApproveWithReceipt, ReserveSlot,
           AuthorizeDispatch, FinalizeSlot, FinishRun, Revoke, Mutate, TypeOK
      <4> QED
        BY <4>1, RefreshType DEF Loaded, RefreshExpiry, Exists, TaskRecord
    <3> HIDE DEF r
    <3>1. CASE Get(t, now)
      BY <3>0, <3>1, SameStep, MutateStep DEF Get, r
    <3>2. CASE Claim(t, now)
      BY <3>0, <3>2, ClaimStep, MutateStep DEF Claim, r
    <3>3. ASSUME NEW mode \in ApprovalMode, NEW receipt \in Receipt,
                 ApproveWithReceipt(t, mode, receipt, now)
          PROVE  Goal
      BY <3>0, <3>3, ApproveStep, MutateStep DEF ApproveWithReceipt, r
    <3>4. ASSUME NEW s \in Slot, NEW q \in Request, ReserveSlot(t, s, q, now)
          PROVE  Goal
      BY <3>0, <3>4, ReserveStep, MutateStep DEF ReserveSlot, r
    <3>5. ASSUME NEW s \in Slot, NEW q \in Request, AuthorizeDispatch(t, s, q, now)
          PROVE  Goal
      BY <3>0, <3>5, SameStep, MutateStep DEF AuthorizeDispatch, r
    <3>6. ASSUME NEW s \in Slot, NEW q \in Request, NEW o \in Outcome,
                 FinalizeSlot(t, s, q, o, now)
          PROVE  Goal
      BY <3>0, <3>6, FinalizeStep, MutateStep DEF FinalizeSlot, r
    <3>7. CASE FinishRun(t, now)
      BY <3>0, <3>7, FinishRunStep, MutateStep DEF FinishRun, r
    <3>8. CASE Revoke(t, now)
      BY <3>0, <3>8, RevokeStep, MutateStep DEF Revoke, r
    <3> QED
      BY <1>1, <2>2, <3>1, <3>2, <3>3, <3>4, <3>5, <3>6, <3>7, <3>8 DEF TaskNext
  <2> QED
    BY <2>1, <2>2
<1>2. ASSUME NEW page \in SUBSET Task, NEW now \in Time, ListPage(page, now)
      PROVE  Goal
  <2>1. ASSUME NEW u \in page
        PROVE  RowStep(records[u], Loaded(u, now))
    <3>1. records[u] \in TaskRecord /\ records[u].state # "Absent"
      BY <1>2 DEF ListPage, Exists, TypeOK
    <3>2. Loaded(u, now) \in TaskRecord /\ Loaded(u, now).state # "Absent"
      BY <3>1, RefreshType DEF Loaded, RefreshExpiry, TaskRecord
    <3> QED
      BY <3>1, <3>2, SameStep, RefreshStep DEF Loaded
  <2>2. \/ records' = records
        \/ records' = [t \in Task |-> IF t \in page THEN Loaded(t, now)
                                       ELSE records[t]]
    BY <1>2 DEF ListPage
  <2> QED
    BY <2>1, <2>2
<1>3. CASE Close
  BY <1>3 DEF Close
<1>4. CASE Open
  <2>1. \A u \in Task : Exists(u) => RowStep(records[u], Recovered(records[u]))
    BY RecoveredStep DEF Exists, TypeOK
  <2>2. \/ records' = records
        \/ records' = [t \in Task |-> IF Exists(t) THEN Recovered(records[t])
                                       ELSE records[t]]
    BY <1>4 DEF Open
  <2> QED
    BY <2>1, <2>2
<1>5. CASE UNCHANGED vars
  BY <1>5 DEF vars
<1> QED
  BY <1>1, <1>2, <1>3, <1>4, <1>5 DEF Next

(* No row is half-filled before create, and none is emptied. *)
LEMMA AbsentRowsBlank == Spec => []AbsentBlank
<1>1. Init => AbsentBlank
  BY DEF Init, AbsentBlank
<1>2. TypeOK /\ AbsentBlank /\ [Next]_vars => AbsentBlank'
  BY NextStep DEF AbsentBlank, Exists, RowStep
<1> QED
  BY <1>1, <1>2, TypeCorrect, PTL DEF Spec

(* A charge is never refunded, moved to another request or settled twice,   *)
(* and only an approved, running task is charged (task_store.rs:            *)
(* reserve_slot, finalize_slot, finish_run, open_for_tenant).               *)
THEOREM ChargesIrreversible == Spec => ChargeIrreversible
<1>1. TypeOK /\ AbsentBlank /\ [Next]_vars
         => \A t \in Task : ChargeStep(records[t], records'[t])
  <2> SUFFICES ASSUME TypeOK, AbsentBlank, [Next]_vars, NEW t \in Task
               PROVE  ChargeStep(records[t], records'[t])
    OBVIOUS
  <2>1. CASE records'[t] = records[t]
    BY <2>1 DEF ChargeStep, SlotStep
  <2>2. CASE RowStep(records[t], records'[t])
    BY <2>2 DEF RowStep
  <2> QED
    BY <2>1, <2>2, NextStep
<1> QED
  BY <1>1, TypeCorrect, AbsentRowsBlank, PTL DEF Spec, ChargeIrreversible

(* A closed task stays closed whatever the clock says later, a claimed one  *)
(* is never claimable again, and an approval is written once                *)
(* (task_store.rs: claim, approve_with_receipt, revoke, refresh_expiry).    *)
THEOREM AuthorityOnlyShrinks == Spec => AuthorityShrinks
<1>1. TypeOK /\ AbsentBlank /\ [Next]_vars
         => \A t \in Task : AuthorityStep(records[t], records'[t])
  <2> SUFFICES ASSUME TypeOK, AbsentBlank, [Next]_vars, NEW t \in Task
               PROVE  AuthorityStep(records[t], records'[t])
    OBVIOUS
  <2>1. CASE records'[t] = records[t]
    BY <2>1 DEF AuthorityStep, Closed
  <2>2. CASE RowStep(records[t], records'[t])
    BY <2>2 DEF RowStep
  <2> QED
    BY <2>1, <2>2, NextStep
<1> QED
  BY <1>1, TypeCorrect, AbsentRowsBlank, PTL DEF Spec, AuthorityShrinks
=============================================================================
