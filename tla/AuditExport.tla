------------------------------ MODULE AuditExport ------------------------------
(***************************************************************************)
(* The export pump of crates/opaque-federation-runtime/src/export.rs over  *)
(* the audit log: transports with a persisted cursor each, and the         *)
(* approval detector (export/detector.rs), whose findings go through a     *)
(* persisted outbox back into the log it reads.                            *)
(*                                                                         *)
(* One request is followed, all of whose records carry the same action and *)
(* approval; mismatched lineage and evictions at DETECTOR_CAP are left     *)
(* out, and so is the first run over cursors of an older release.          *)
(***************************************************************************)
EXTENDS AuditLog, FiniteSets

CONSTANTS
    Transport,      \* configured transports
    BatchSize,      \* records per delivery
    Pump            \* the pump as a caller of flush

ASSUME BatchAssumption == BatchSize \in Nat \ {0}

VARIABLES
    saved,          \* export.cursor
    pump,           \* run_once under way
    delivered       \* history: what reached each transport

pumpVars == <<saved, pump, delivered>>
vars == <<logVars, pumpVars>>

-----------------------------------------------------------------------------
NoCursors == [at |-> [t \in Transport |-> 0], detector |-> 0, last_sequence |-> -1,
              pending |-> "none", outbox |-> <<>>, failed |-> {}]

NoCycle == [phase |-> "Idle", file |-> NoCursors, left |-> {}, failing |-> {}, todo |-> <<>>]

(* read_rows_after: the first rows beyond a rowid. *)
RowsAfter(rowid) ==
    LET n == CHOOSE n \in 0 .. Len(rows) :
                \A i \in DOMAIN rows : rows[i].rowid > rowid <=> i > n
    IN  SubSeq(rows, n + 1, IF Len(rows) < n + BatchSize THEN Len(rows) ELSE n + BatchSize)

KindOf(r) == r.event[1]

(* Finding::new and event_id: the same finding is always the same event. *)
Finding(rule, r) == [rule |-> rule, sequence |-> r.sequence, source |-> r.event]
AlertOf(f) == <<"alert", f.rule, f.source>>

(* observe_findings: state after one record, findings last.  A lease hit   *)
(* proves neither a grant nor its absence, and a failure ends the round.   *)
Observe(d, r) ==
    LET gap == d.last_sequence # -1 /\ ~(r.sequence = d.last_sequence + 1
                                         /\ r.rowid = d.detector + 1)
        pending == IF gap THEN "none" ELSE d.pending
        found == (IF gap THEN <<Finding("evidence_gap", r)>> ELSE <<>>)
              \o (IF KindOf(r) = "dropped" THEN <<Finding("audit_loss_recorded", r)>>
                  ELSE <<>>)
              \o (IF KindOf(r) = "succeeded" /\ pending = "required"
                  THEN <<Finding("approval_missing", r)>> ELSE <<>>)
    IN  [d EXCEPT !.detector = r.rowid, !.last_sequence = r.sequence,
                  !.outbox = @ \o found,
                  !.pending = CASE KindOf(r) = "required" -> "required"
                                [] KindOf(r) = "granted" /\ pending # "none" -> "granted"
                                [] KindOf(r) = "lease_hit" /\ pending = "required" -> "indeterminate"
                                [] KindOf(r) \in {"succeeded", "failed"} -> "none"
                                [] OTHER -> pending]

(* Transports that start to fail are findings anchored at the last record. *)
Failures(file, failing, seen) ==
    LET anchor == IF seen # <<>> THEN <<Last(seen)>>
                  ELSE SelectSeq(rows, LAMBDA r : r.rowid >= file.detector)
        started == SetToSeq(failing \ file.failed)
    IN  IF anchor = <<>> THEN <<>>
        ELSE [i \in DOMAIN started |-> Finding(started[i], IF seen # <<>> THEN Last(seen)
                                                           ELSE Head(anchor))]

Idle == pump' = NoCycle

(* save_cursors: atomic, but an error may come before or after the rename. *)
SaveFails(file) == saved' \in {saved, file} /\ Idle

-----------------------------------------------------------------------------
(* run_once: the cursors are loaded; what an earlier cycle left in the     *)
(* outbox is raised after the deliveries.                                  *)
CycleStart ==
    /\ Alive
    /\ pump.phase = "Idle"
    /\ pump' = [NoCycle EXCEPT !.phase = "Replay", !.file = saved, !.left = Transport,
                               !.todo = saved.outbox]
    /\ UNCHANGED <<logVars, saved, delivered>>

(* One transport; a failed delivery counts as not arrived. *)
Deliver(t) ==
    LET ahead == RowsAfter(pump.file.at[t])
        records == {ahead[i].event : i \in DOMAIN ahead}
    IN  /\ Alive
        /\ pump.phase = "Replay" /\ t \in pump.left
        /\ \/ /\ pump' = [pump EXCEPT !.left = @ \ {t},
                             !.file.at[t] = IF ahead = <<>> THEN @ ELSE Last(ahead).rowid]
              /\ delivered' = [delivered EXCEPT ![t] = @ \cup records]
              /\ UNCHANGED faults
           \/ /\ ahead # <<>>
              /\ faults < MaxFaults
              /\ faults' = faults + 1
              /\ pump' = [pump EXCEPT !.left = @ \ {t}, !.failing = @ \cup {t}]
              /\ UNCHANGED delivered
        /\ UNCHANGED <<database, sink, batch, flushes, issued, emitted, log, lost, opens, saved>>

Emitting == pump.phase \in {"Replay", "Alert"} /\ pump.left = {}

(* Mutant: a finding is raised again whatever became of its evidence. *)
RaiseUnproven ==
    LET f == Head(pump.todo)
        events == {rows[i].event : i \in DOMAIN rows}
    IN  /\ Alive
        /\ Emitting /\ pump.todo # <<>>
        /\ \/ /\ AlertOf(f) \in events
              /\ pump' = [pump EXCEPT !.todo = Tail(@)]
              /\ UNCHANGED logVars
           \/ /\ AlertOf(f) \notin events
              /\ EmitEvent(AlertOf(f))
              /\ pump' = [pump EXCEPT !.todo = Tail(@)]
              /\ UNCHANGED <<database, batch, flushes, issued, log, lost, faults, opens>>
        /\ UNCHANGED <<saved, delivered>>

(* deliver_findings, one finding: skipped when its alert is in the log,    *)
(* refused when its evidence is not, emitted otherwise.                    *)
Raise ==
    LET f == Head(pump.todo)
        events == {rows[i].event : i \in DOMAIN rows}
        retained == \E i \in DOMAIN rows : rows[i].sequence = f.sequence
    IN  /\ Alive
        /\ Emitting /\ pump.todo # <<>>
        /\ \/ /\ AlertOf(f) \in events
              /\ pump' = [pump EXCEPT !.todo = Tail(@)]
              /\ UNCHANGED logVars
           \/ /\ AlertOf(f) \notin events /\ ~retained
              /\ Idle
              /\ UNCHANGED logVars
           \/ /\ AlertOf(f) \notin events /\ retained
              /\ EmitEvent(AlertOf(f))
              /\ pump' = [pump EXCEPT !.todo = Tail(@)]
              /\ UNCHANGED <<database, batch, flushes, issued, log, lost, faults, opens>>
        /\ UNCHANGED <<saved, delivered>>

(* and the flush that acknowledges them. *)
AckStart ==
    /\ Emitting /\ pump.todo = <<>> /\ pump.file.outbox # <<>>
    /\ FlushStart(Pump)
    /\ pump' = [pump EXCEPT !.phase = IF @ = "Replay" THEN "Replayed" ELSE "Alerted"]
    /\ UNCHANGED <<saved, delivered>>

AckEnd ==
    /\ pump.phase \in {"Replayed", "Alerted"}
    /\ FlushEnd(Pump)
    /\ IF FlushOk(Pump)
       THEN pump' = [pump EXCEPT !.phase = IF @ = "Replayed" THEN "Observe" ELSE "Ack",
                                 !.file.outbox = <<>>]
       ELSE Idle
    /\ UNCHANGED <<saved, delivered>>

(* The detector sees the new records; frontier, pending state and findings *)
(* are saved as one before anything is raised.                             *)
ObserveBatch ==
    LET seen == RowsAfter(pump.file.detector)
        observed == FoldLeft(Observe, pump.file, seen)
        file == [pump.file EXCEPT
                    !.detector = observed.detector, !.last_sequence = observed.last_sequence,
                    !.pending = observed.pending, !.failed = pump.failing,
                    !.outbox = observed.outbox \o Failures(pump.file, pump.failing, seen)]
    IN  /\ Alive
        /\ \/ pump.phase = "Observe"
           \/ Emitting /\ pump.phase = "Replay" /\ pump.file.outbox = <<>>
        /\ \/ /\ saved' = file
              /\ IF file.outbox = <<>> THEN Idle
                 ELSE pump' = [NoCycle EXCEPT !.phase = "Alert", !.file = file,
                                              !.todo = file.outbox]
           \/ file # saved /\ SaveFails(file)
        /\ UNCHANGED <<logVars, delivered>>

(* The outbox is acknowledged. *)
Acknowledge ==
    /\ Alive
    /\ pump.phase = "Ack"
    /\ \/ saved' = pump.file /\ Idle
       \/ SaveFails(pump.file)
    /\ UNCHANGED <<logVars, delivered>>

PumpNext ==
    \/ CycleStart \/ Raise \/ AckStart \/ AckEnd \/ ObserveBatch \/ Acknowledge
    \/ \E t \in Transport : Deliver(t)

(* The whole process ends; the pump's memory is gone too. *)
Stop == Down /\ Idle /\ UNCHANGED <<saved, delivered>>

Init ==
    /\ LogInit({Pump})
    /\ saved = NoCursors
    /\ pump = NoCycle
    /\ delivered = [t \in Transport |-> {}]

Next ==
    \/ LogNext /\ UNCHANGED pumpVars
    \/ PumpNext
    \/ Stop

Spec == Init /\ [][Next]_vars

-----------------------------------------------------------------------------
(* Properties. *)

(* A flush that returns Ok is a durability barrier (flush, enqueue_event,  *)
(* writer_loop): everything emitted before it began, whoever emitted it    *)
(* and whether or not it was accepted, is committed.                       *)
FlushHonest ==
    [][pump.phase \in {"Replayed", "Alerted"} /\ pump'.phase \in {"Observe", "Ack"} =>
          flushes[Pump].covers \subseteq Committed]_vars

(* Delivery is at least once (run_once, insert_batch): whatever fails,     *)
(* crashes or is pruned, a record still in the log that a transport's      *)
(* saved cursor has passed did reach that transport.                       *)
ExportComplete ==
    \A t \in Transport, i \in DOMAIN rows :
       rows[i].rowid <= saved.at[t] => rows[i].event \in delivered[t]

(* Record i of a log is a success after a requirement and nothing that     *)
(* answers or ends it, in an unbroken stretch.                             *)
Ungranted(s, i) ==
    /\ KindOf(s[i]) = "succeeded"
    /\ \E k \in 1 .. i - 1 :
          /\ KindOf(s[k]) = "required"
          /\ s[i].rowid - s[k].rowid = i - k /\ s[i].sequence - s[k].sequence = i - k
          /\ \A m \in k + 1 .. i - 1 : KindOf(s[m]) \notin {"granted", "lease_hit", "succeeded", "failed"}

MissingAlert(r) == AlertOf(Finding("approval_missing", r))

(* Alerts are exact across crashes, failed flushes, failed saves, pruning  *)
(* and replays (run_once, deliver_findings, observe_findings): an          *)
(* ungranted success that the detector has passed has its alert in the log *)
(* or its finding in the saved outbox; an alert in the log is about a      *)
(* success no grant preceded; and no alert is recorded twice, not even     *)
(* after its first record was pruned.                                      *)
AlertsExact ==
    /\ \A i \in DOMAIN rows :
          Ungranted(rows, i) /\ rows[i].rowid <= saved.detector =>
             \/ MissingAlert(rows[i]) \in Committed
             \/ Finding("approval_missing", rows[i]) \in Range(saved.outbox)
    /\ \A i \in DOMAIN log : MissingAlert(log[i]) \in Committed => Ungranted(log, i)
    /\ \A i, j \in DOMAIN log :
          KindOf(log[i]) = "alert" /\ log[i].event = log[j].event => i = j

(* "Replay-safe alert outbox" (deliver_findings): raising a finding again  *)
(* never costs the log an event; an accepted event is lost only when the   *)
(* storage fails or the process ends.                                      *)
ReplaySafe == lost = {}
=============================================================================
