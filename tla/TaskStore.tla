------------------------------ MODULE TaskStore ------------------------------
(***************************************************************************)
(* The durable, single-writer authority ledger for bounded tasks           *)
(* (crates/opaque-bounded-work/src/task_store.rs).                         *)
(*                                                                         *)
(* Every public method of TaskStore is one action.  A method runs inside   *)
(* one immediate SQLite transaction under the process-wide mutex, so it is *)
(* atomic here.  `now' is the caller's wall clock: nothing makes it        *)
(* monotonic, so every call may carry any time the clock can show.         *)
(*                                                                         *)
(* A call by a principal that does not own the task, or with malformed     *)
(* input, returns before it writes anything: it is a stuttering step and   *)
(* needs no action.  A call refused by its own conditions still persists   *)
(* a newly observed expiry (mutate).                                       *)
(***************************************************************************)
EXTENDS Integers, FiniteSets

CONSTANTS
    Task,       \* task ids, fresh UUIDs chosen by create
    Slot,       \* the slots of a task: one per action of its manifest
    Request,    \* request ids a run charges slots with
    NoRequest,  \* request_id: None
    MaxTime,    \* the greatest timestamp, i64::MAX in the code
    Lifetime    \* manifest.expires_in_secs

ASSUME SlotAssumption == IsFiniteSet(Slot) /\ Slot # {}
ASSUME RequestAssumption == NoRequest \notin Request
ASSUME TimeAssumption == MaxTime \in Nat /\ Lifetime \in Nat \ {0}

VARIABLES
    records,    \* the bounded_tasks table
    open,       \* a daemon holds the writer lock and serves the ledger
    corrupt     \* some load, save or open has answered TaskStoreError::Corrupt

vars == <<records, open, corrupt>>

-----------------------------------------------------------------------------
(* Data.  None is an absent timestamp: validate_now refuses negatives.     *)

None == -1

Time == 0 .. MaxTime

OptTime == Time \cup {None}

TaskState ==
    {"Planned", "Running", "Completed", "Partial", "Revoked", "Expired"}

Terminal == {"ApiAccepted", "Rejected", "Unknown"}

SlotState == {"Pending", "Reserved"} \cup Terminal

(* An outcome is reduced to its code; SlotOutcome::validate ties each code *)
(* to one state.  "rejected" and "uncertain" stand for the other codes.    *)
Outcome == {"api_accepted", "rejected", "uncertain", "interrupted"}

OutcomeState(o) ==
    CASE o = "api_accepted" -> "ApiAccepted"
      [] o = "rejected"     -> "Rejected"
      [] OTHER              -> "Unknown"

ApprovalMode == {"factor", "paired_workstation"}

SlotRecord ==
    [state : SlotState, request_id : Request \cup {NoRequest},
     reserved_at : OptTime, finished_at : OptTime, outcome : Outcome \cup {"none"}]

TaskRecord ==
    [state : TaskState \cup {"Absent"}, created_at : OptTime,
     expires_at : OptTime, approved_at : OptTime,
     approval_mode : ApprovalMode \cup {"none"}, workstation_receipt : BOOLEAN,
     slots : [Slot -> SlotRecord]]

PendingSlot ==
    [state |-> "Pending", request_id |-> NoRequest, reserved_at |-> None,
     finished_at |-> None, outcome |-> "none"]

NewRecord(now) ==
    [state |-> "Planned", created_at |-> now, expires_at |-> now + Lifetime,
     approved_at |-> None, approval_mode |-> "none",
     workstation_receipt |-> FALSE, slots |-> [s \in Slot |-> PendingSlot]]

(* No row with this id. *)
NoRecord ==
    [state |-> "Absent", created_at |-> None, expires_at |-> None,
     approved_at |-> None, approval_mode |-> "none",
     workstation_receipt |-> FALSE, slots |-> [s \in Slot |-> PendingSlot]]

Exists(t) == records[t].state # "Absent"

-----------------------------------------------------------------------------
(* verify_record: the structural check of every row that is read or saved. *)

VerifyApproval(r) ==
    /\ r.workstation_receipt => /\ r.approved_at # None
                                /\ r.approval_mode = "paired_workstation"
    /\ r.created_at # None
    /\ r.expires_at = r.created_at + Lifetime
    /\ r.approved_at = None => r.approval_mode = "none"
    /\ r.approved_at # None => /\ r.created_at <= r.approved_at
                               /\ r.approved_at < r.expires_at

VerifySlot(r, slot) ==
    IF slot.state = "Pending"
    THEN slot = PendingSlot
    ELSE /\ r.approved_at # None
         /\ slot.reserved_at # None
         /\ r.approved_at <= slot.reserved_at
         /\ slot.reserved_at < r.expires_at
         /\ slot.request_id # NoRequest
         /\ slot.finished_at # None => slot.reserved_at <= slot.finished_at
         /\ IF slot.state = "Reserved"
            THEN slot.outcome = "none" /\ slot.finished_at = None
            ELSE /\ slot.outcome # "none"
                 /\ OutcomeState(slot.outcome) = slot.state
                 /\ slot.finished_at = None => slot.outcome = "interrupted"

VerifyState(r) ==
    /\ r.state = "Planned" => /\ r.approved_at = None
                              /\ \A s \in Slot : r.slots[s].state = "Pending"
    /\ r.state = "Completed" =>
          \A s \in Slot : r.slots[s].state = "ApiAccepted"
    /\ r.state = "Partial" =>
          \A s \in Slot : r.slots[s].state # "Reserved"

VerifyRecord(r) ==
    /\ VerifyApproval(r)
    /\ \A s \in Slot : VerifySlot(r, r.slots[s])
    /\ VerifyState(r)

-----------------------------------------------------------------------------
(* mutate: load, observe expiry, run the operation, save, commit.          *)

RefreshExpiry(r, now) ==
    IF now >= r.expires_at /\ r.state \in {"Planned", "Running"}
    THEN [r EXCEPT !.state = "Expired"]
    ELSE r

CheckActive(r) == r.state \notin {"Expired", "Revoked"}

(* The record an operation works on. *)
Loaded(t, now) == RefreshExpiry(records[t], now)

(* Mutant: a failed operation rolls back the expiry it has observed, too.  *)
MutateRolledBack(t, before, ok, after) ==
    LET persisted == IF ok THEN after ELSE records[t]
    IN  /\ open
        /\ Exists(t)
        /\ IF VerifyRecord(records[t]) /\ VerifyRecord(persisted)
           THEN /\ records' = [records EXCEPT ![t] = persisted]
                /\ UNCHANGED corrupt
           ELSE /\ corrupt' = TRUE
                /\ UNCHANGED records
        /\ UNCHANGED open

(* An operation that fails (~ok) leaves `before', its edits rolled back;   *)
(* a row that does not verify, read or to be saved, fails the whole call.  *)
Mutate(t, before, ok, after) ==
    LET persisted == IF ok THEN after ELSE before
    IN  /\ open
        /\ Exists(t)
        /\ IF VerifyRecord(records[t]) /\ VerifyRecord(persisted)
           THEN /\ records' = [records EXCEPT ![t] = persisted]
                /\ UNCHANGED corrupt
           ELSE /\ corrupt' = TRUE
                /\ UNCHANGED records
        /\ UNCHANGED open

(* Mutant: a task with a slot left stays open for it. *)
ClosingWaiting(slots) ==
    IF \A s \in Slot : slots[s].state = "ApiAccepted" THEN "Completed"
    ELSE IF \E s \in Slot : slots[s].state = "Pending" THEN "Running" ELSE "Partial"

(* Completed only when the provider accepted every slot. *)
ClosingState(slots) ==
    IF \A s \in Slot : slots[s].state = "ApiAccepted"
    THEN "Completed" ELSE "Partial"

-----------------------------------------------------------------------------
(* Operations.  CanX(r, ...) is the condition under which X succeeds on    *)
(* the loaded record, AfterX what it then stores.                          *)

(* Mutant: the expiry overflows instead of being refused. *)
CreateUnchecked(t, now) ==
    /\ open
    /\ ~Exists(t)
    /\ records' = [records EXCEPT ![t] = NewRecord(now)]
    /\ UNCHANGED <<open, corrupt>>

(* create: the expiry is a checked addition. *)
Create(t, now) ==
    /\ open
    /\ ~Exists(t)
    /\ now + Lifetime <= MaxTime
    /\ VerifyRecord(NewRecord(now))
    /\ records' = [records EXCEPT ![t] = NewRecord(now)]
    /\ UNCHANGED <<open, corrupt>>

(* get, and the effect of every call that its own conditions refuse. *)
Get(t, now) == LET r == Loaded(t, now) IN Mutate(t, r, TRUE, r)

(* Mutant: a running task can be claimed by a second run. *)
CanClaimAgain(r) == CheckActive(r) /\ r.state \in {"Planned", "Running"}

CanClaim(r) == CheckActive(r) /\ r.state = "Planned"

AfterClaim(r) == [r EXCEPT !.state = "Running"]

Claim(t, now) ==
    LET r == Loaded(t, now) IN Mutate(t, r, CanClaim(r), AfterClaim(r))

(* Mutant: an approval may carry a time before the task existed. *)
CanApproveEarly(r, mode, receipt, now) ==
    /\ CheckActive(r)
    /\ r.state = "Running"
    /\ r.approved_at = None
    /\ receipt # "none" => receipt = "bound" /\ mode = "paired_workstation"

(* receipt: "none", or the signed workstation decision: "bound" when it    *)
(* verifies, approves this task and manifest, and is accepted and not yet  *)
(* expired at now; "unbound" otherwise.                                    *)
CanApprove(r, mode, receipt, now) ==
    /\ CheckActive(r)
    /\ r.state = "Running"
    /\ r.approved_at = None
    /\ now >= r.created_at
    /\ receipt # "none" => receipt = "bound" /\ mode = "paired_workstation"

AfterApprove(r, mode, receipt, now) ==
    [r EXCEPT !.approved_at = now, !.approval_mode = mode,
              !.workstation_receipt = (receipt # "none")]

ApproveWithReceipt(t, mode, receipt, now) ==
    LET r == Loaded(t, now)
    IN  Mutate(t, r, CanApprove(r, mode, receipt, now),
               AfterApprove(r, mode, receipt, now))

CanReserve(r, s, now) ==
    /\ CheckActive(r)
    /\ r.state = "Running"
    /\ r.approved_at # None
    /\ now >= r.approved_at
    /\ r.slots[s].state = "Pending"

AfterReserve(r, s, q, now) ==
    [r EXCEPT !.slots[s] =
        [@ EXCEPT !.state = "Reserved", !.request_id = q, !.reserved_at = now]]

ReserveSlot(t, s, q, now) ==
    LET r == Loaded(t, now)
    IN  Mutate(t, r, CanReserve(r, s, now), AfterReserve(r, s, q, now))

(* The reservation of slot s is held by request q, and now is not before it. *)
HoldsReservation(r, s, q, now) ==
    /\ r.slots[s].state = "Reserved"
    /\ r.slots[s].request_id = q
    /\ now >= r.slots[s].reserved_at

(* No check_active: revocation cannot erase the result of a charged slot. *)
CanFinalize(r, s, q, now) == HoldsReservation(r, s, q, now)

AfterFinalize(r, s, o, now) ==
    LET slots == [r.slots EXCEPT ![s] =
                    [@ EXCEPT !.state = OutcomeState(o), !.finished_at = now,
                              !.outcome = o]]
    IN  [r EXCEPT !.slots = slots,
                  !.state = IF /\ r.state = "Running"
                               /\ \A i \in Slot : slots[i].state \in Terminal
                            THEN ClosingState(slots) ELSE r.state]

FinalizeSlot(t, s, q, o, now) ==
    LET r == Loaded(t, now)
    IN  Mutate(t, r, CanFinalize(r, s, q, now), AfterFinalize(r, s, o, now))

(* The last authority fence before a provider write. *)
CanDispatch(r, s, q, now) ==
    /\ CheckActive(r)
    /\ r.state = "Running"
    /\ r.approved_at # None
    /\ HoldsReservation(r, s, q, now)

AuthorizeDispatch(t, s, q, now) ==
    LET r == Loaded(t, now) IN Mutate(t, r, CanDispatch(r, s, q, now), r)

(* Mutants: an interrupted charge is refunded; it is reported as rejected. *)
InterruptedRefunded(slot, finished) ==
    IF slot.state = "Reserved" THEN PendingSlot ELSE slot

InterruptedRejected(slot, finished) ==
    IF slot.state = "Reserved"
    THEN [slot EXCEPT !.state = "Rejected", !.outcome = "rejected",
                      !.finished_at = slot.reserved_at]
    ELSE slot

(* A reservation whose result is not known. *)
Interrupted(slot, finished) ==
    IF slot.state = "Reserved"
    THEN [slot EXCEPT !.state = "Unknown", !.finished_at = finished,
                      !.outcome = "interrupted"]
    ELSE slot

CanFinishRun(r) == r.state # "Planned"

AfterFinishRun(r, now) ==
    LET later(slot) == IF now >= slot.reserved_at THEN now ELSE slot.reserved_at
        slots == [s \in Slot |-> Interrupted(r.slots[s], later(r.slots[s]))]
    IN  [r EXCEPT !.slots = slots,
                  !.state = IF r.state = "Running" THEN ClosingState(slots)
                            ELSE r.state]

FinishRun(t, now) ==
    LET r == Loaded(t, now)
    IN  Mutate(t, r, CanFinishRun(r), AfterFinishRun(r, now))

(* Mutant: revocation overwrites the closing state. *)
AfterRevokeAny(r) == [r EXCEPT !.state = "Revoked"]

AfterRevoke(r) ==
    IF r.state \in {"Planned", "Running"}
    THEN [r EXCEPT !.state = "Revoked"] ELSE r

Revoke(t, now) ==
    LET r == Loaded(t, now) IN Mutate(t, r, TRUE, AfterRevoke(r))

(* list_page: the expiries observed on one page, saved together.  Which    *)
(* rows share a page depends on row limit, byte budget and cursor: any set *)
(* of rows here.                                                           *)
ListPage(page, now) ==
    /\ open
    /\ \A t \in page : Exists(t)
    /\ IF \A t \in page : /\ VerifyRecord(records[t])
                          /\ VerifyRecord(Loaded(t, now))
       THEN /\ records' = [t \in Task |-> IF t \in page THEN Loaded(t, now)
                                          ELSE records[t]]
            /\ UNCHANGED corrupt
       ELSE corrupt' = TRUE /\ UNCHANGED records
    /\ UNCHANGED open

-----------------------------------------------------------------------------
(* The daemon stops or crashes: the table is durable, the lock is gone.    *)
Close == open /\ open' = FALSE /\ UNCHANGED <<records, corrupt>>

(* open_for_tenant's recovery of one row: the interruption time is not     *)
(* knowable, so finished_at stays absent.                                  *)
Recovered(r) ==
    [r EXCEPT !.slots = [s \in Slot |-> Interrupted(r.slots[s], None)],
              !.state = IF r.state = "Running" THEN "Partial" ELSE r.state]

(* Rows are validated, then recovered, in one transaction; one bad row and *)
(* no ledger is opened.                                                    *)
Open ==
    LET verified == \A t \in Task : Exists(t) =>
                        /\ VerifyRecord(records[t])
                        /\ VerifyRecord(Recovered(records[t]))
    IN  /\ ~open
        /\ IF verified
           THEN /\ records' = [t \in Task |-> IF Exists(t)
                                              THEN Recovered(records[t])
                                              ELSE records[t]]
                /\ open' = TRUE
                /\ UNCHANGED corrupt
           ELSE corrupt' = TRUE /\ UNCHANGED <<records, open>>

-----------------------------------------------------------------------------
Init ==
    /\ records = [t \in Task |-> NoRecord]
    /\ open = TRUE
    /\ corrupt = FALSE

Receipt == {"none", "bound", "unbound"}

TaskNext(t, now) ==
    \/ Create(t, now)
    \/ Get(t, now)
    \/ Claim(t, now)
    \/ \E mode \in ApprovalMode, receipt \in Receipt :
          ApproveWithReceipt(t, mode, receipt, now)
    \/ \E s \in Slot, q \in Request :
          \/ ReserveSlot(t, s, q, now)
          \/ AuthorizeDispatch(t, s, q, now)
          \/ \E o \in Outcome : FinalizeSlot(t, s, q, o, now)
    \/ FinishRun(t, now)
    \/ Revoke(t, now)

Next ==
    \/ \E t \in Task, now \in Time : TaskNext(t, now)
    \/ \E page \in SUBSET Task, now \in Time : ListPage(page, now)
    \/ Close
    \/ Open

Spec == Init /\ [][Next]_vars

-----------------------------------------------------------------------------
(* Properties. *)

(* Every row has the shape TaskRecord, and the flags are Booleans. *)
TypeOK ==
    /\ records \in [Task -> TaskRecord]
    /\ open \in BOOLEAN
    /\ corrupt \in BOOLEAN

(* No sequence of calls, wall clock readings (forwards or backwards) and   *)
(* restarts makes the ledger write, keep or refuse to write a row that     *)
(* verify_record rejects: load_record, save_record and open_for_tenant     *)
(* never answer Corrupt, so the daemon can always start again.             *)
NeverCorrupt ==
    /\ ~corrupt
    /\ \A t \in Task : Exists(t) => VerifyRecord(records[t])

(* A charge is irreversible and settled once (reserve_slot, finalize_slot, *)
(* finish_run, open): a slot leaves Pending only to be Reserved by a live  *)
(* approved run, never returns, keeps the request and time it was charged  *)
(* with, and a settled slot never changes again.                           *)
SlotStep(old, new) ==
    \/ new = old
    \/ /\ old.state = "Pending"
       /\ new.state = "Reserved"
    \/ /\ old.state = "Reserved"
       /\ new.state \in Terminal
       /\ new.request_id = old.request_id
       /\ new.reserved_at = old.reserved_at

ChargeStep(old, new) ==
    \A s \in Slot :
       /\ SlotStep(old.slots[s], new.slots[s])
       /\ new.slots[s] # old.slots[s] /\ old.slots[s].state = "Pending"
          => old.state = "Running" /\ old.approved_at # None

ChargeIrreversible == [][\A t \in Task : ChargeStep(records[t], records'[t])]_vars

(* Authority only shrinks (claim, revoke, refresh_expiry, finish_run,      *)
(* open): a task that is no longer Planned is never claimable again, one   *)
(* that is closed keeps its state whatever the clock says later, and an    *)
(* approval is recorded once, for the claimed run, and never altered.      *)
Closed == {"Completed", "Partial", "Revoked", "Expired"}

AuthorityStep(old, new) ==
    /\ old.state \in Closed => new.state = old.state
    /\ old.state = "Running" => new.state \in {"Running"} \cup Closed
    /\ old.approved_at # new.approved_at =>
          /\ old.approved_at = None
          /\ old.state = "Running"
          /\ new.state = "Running"
    /\ old.approved_at # None =>
          /\ new.approval_mode = old.approval_mode
          /\ new.workstation_receipt = old.workstation_receipt

AuthorityShrinks == [][\A t \in Task : AuthorityStep(records[t], records'[t])]_vars
=============================================================================
