------------------------------- MODULE AuditLog -------------------------------
(***************************************************************************)
(* The durable audit sink (crates/opaque-core/src/audit.rs): emitters that *)
(* never block, a bounded queue, one writer thread that commits batches    *)
(* into the hash chain, flush as the durability barrier, drop reports,     *)
(* retention of an expired prefix, orderly close, crash and reopening.     *)
(*                                                                         *)
(* A keyed hash stands for everything it covers: the sequence of records   *)
(* from the genesis on.  Timestamps are left out: the expired prefix is    *)
(* any prefix, within what MayExpire allows.  Migration of older schemas   *)
(* is left out.                                                            *)
(***************************************************************************)
EXTENDS Integers, Sequences, SequencesExt

CONSTANTS
    Earlier,        \* kinds of the events an earlier process committed
    Request,        \* the kinds its next event may have, for each event of a request
    Capacity,       \* capacity of the queue
    BatchMax,       \* events the writer takes at once, 256 in the code
    MaxSequence,    \* bound on sequence numbers
    MaxFaults,      \* bound on faults of the storage and of the export
    MaxOpens        \* bound on openings of the sink

ASSUME LimitsAssumption == {Capacity, BatchMax} \subseteq Nat \ {0}
ASSUME EarlierAssumption == Earlier \in Seq(STRING)

VARIABLES
    rows,           \* audit_events in the order of their rowids
    boundary,       \* retention_boundary
    head,           \* chain_head
    sink,           \* WriterState, dropped_count and the writer's last_hash
    batch,          \* events in the writer's hands
    flushes,        \* flush calls
    issued,         \* events of the request emitted
    emitted,        \* history: events emitted by this process and not committed
    log,            \* history: every record ever committed
    lost,           \* history: accepted events whose batch failed without a fault
    faults, opens   \* history: faults and openings

database == <<rows, boundary, head>>
logVars == <<database, sink, batch, flushes, issued, emitted, log, lost, faults, opens>>

-----------------------------------------------------------------------------
Genesis == <<>>
NoBoundary == [hash |-> Genesis, sequence |-> -1, high |-> -1, rowid |-> 0]
NoFlush == [phase |-> "Idle", target |-> 0, covers |-> {}]

Greater(a, b) == IF a > b THEN a ELSE b

Alive == sink.phase # "down"
Accepts == sink.phase = "up" /\ Len(sink.queue) < Capacity

(* Mutant: a full queue is only counted. *)
EnqueuedForgiving(id) ==
    IF Accepts
    THEN [sink EXCEPT !.queue = Append(@, [event |-> id, sequence |-> sink.next_sequence]),
                      !.next_sequence = @ + 1, !.accepted = @ + 1]
    ELSE [sink EXCEPT !.failure = @ \/ sink.phase # "up"]

(* enqueue_event: a sequence number for an accepted event; the first       *)
(* refusal is a failure every later flush reports.                         *)
Enqueued(id) ==
    IF Accepts
    THEN [sink EXCEPT !.queue = Append(@, [event |-> id, sequence |-> sink.next_sequence]),
                      !.next_sequence = @ + 1, !.accepted = @ + 1]
    ELSE [sink EXCEPT !.failure = TRUE]

(* emit: what does not fit is dropped and counted (whether any, here). *)
EmitEvent(id) ==
    LET full == sink.phase = "up" /\ ~Accepts
    IN  /\ Alive
        /\ sink.next_sequence < MaxSequence
        /\ sink' = [Enqueued(id) EXCEPT !.dropped = @ \/ full]
        /\ emitted' = emitted \cup {id}

(* The daemon's events, each with an id of its own. *)
Emit(kind) ==
    /\ issued < Len(Request)
    /\ kind \in Request[issued + 1]
    /\ EmitEvent(<<kind, issued>>)
    /\ issued' = issued + 1
    /\ UNCHANGED <<database, batch, flushes, log, lost, faults, opens>>

(* report_drops by the drop monitor; a report that is not queued leaves    *)
(* the count as it was.                                                    *)
ReportDrops ==
    LET report == <<"dropped", sink.next_sequence>>
    IN  /\ sink.phase = "up"
        /\ sink.dropped
        /\ sink.next_sequence < MaxSequence
        /\ sink' = [Enqueued(report) EXCEPT !.dropped = ~Accepts]
        /\ emitted' = IF Accepts THEN emitted \cup {report} ELSE emitted
        /\ UNCHANGED <<database, batch, flushes, issued, log, lost, faults, opens>>

-----------------------------------------------------------------------------
(* The writer thread. *)

WriterTake ==
    LET n == IF Len(sink.queue) < BatchMax THEN Len(sink.queue) ELSE BatchMax
    IN  /\ sink.phase \in {"up", "closing"}
        /\ batch = <<>> /\ n > 0
        /\ batch' = SubSeq(sink.queue, 1, n)
        /\ sink' = [sink EXCEPT !.queue = SubSeq(@, n + 1, Len(@))]
        /\ UNCHANGED <<database, flushes, issued, emitted, log, lost, faults, opens>>

(* Mutant: the pruned prefix is forgotten. *)
SurvivingRowid == IF rows = <<>> THEN 0 ELSE Last(rows).rowid

(* Rows are numbered beyond the pruned prefix and the surviving tail. *)
LastRowid == Greater(boundary.rowid, IF rows = <<>> THEN 0 ELSE Last(rows).rowid)

(* Every accepted event needs a row of its own. *)
Insertable ==
    /\ \A i, j \in DOMAIN batch : batch[i].event = batch[j].event => i = j
    /\ \A i \in DOMAIN batch, k \in DOMAIN rows : batch[i].event # rows[k].event

Chained(i) == sink.last_hash \o SubSeq(batch, 1, i)

Inserted == [i \in DOMAIN batch |->
               [event |-> batch[i].event, sequence |-> batch[i].sequence,
                rowid |-> LastRowid + i, hash |-> Chained(i)]]

(* Mutant: the writer's hash runs ahead of what is committed. *)
BatchFailedAhead ==
    [sink EXCEPT !.settled = @ + Len(batch), !.failure = TRUE,
                 !.last_hash = Chained(Len(batch))]

BatchFailed == [sink EXCEPT !.settled = @ + Len(batch), !.failure = TRUE]

(* insert_batch: all of it or nothing; then the batch is settled. *)
WriterCommit ==
    /\ Alive /\ batch # <<>>
    /\ \/ /\ Insertable
          /\ rows' = rows \o Inserted
          /\ head' = [hash |-> Chained(Len(batch)), sequence |-> Last(batch).sequence]
          /\ log' = log \o Inserted
          /\ sink' = [sink EXCEPT !.settled = @ + Len(batch),
                                  !.last_hash = Chained(Len(batch))]
          /\ emitted' = emitted \ {batch[i].event : i \in DOMAIN batch}
          /\ UNCHANGED <<lost, faults>>
       \/ /\ ~Insertable
          /\ sink' = BatchFailed
          /\ lost' = lost \cup {batch[i].event : i \in DOMAIN batch}
          /\ UNCHANGED <<rows, head, log, emitted, faults>>
       \/ /\ faults < MaxFaults
          /\ faults' = faults + 1
          /\ sink' = BatchFailed
          /\ UNCHANGED <<rows, head, log, emitted, lost>>
    /\ batch' = <<>>
    /\ UNCHANGED <<boundary, flushes, issued, opens>>

(* verify_audit_connection *)
ChainValid ==
    /\ \A i \in DOMAIN rows :
          rows[i].hash = Append(IF i = 1 THEN boundary.hash ELSE rows[i - 1].hash,
                                [event |-> rows[i].event, sequence |-> rows[i].sequence])
    /\ head = IF rows = <<>> THEN [hash |-> boundary.hash, sequence |-> boundary.sequence]
              ELSE [hash |-> Last(rows).hash, sequence |-> Last(rows).sequence]

(* prune_verified_prefix of n rows. *)
Pruned(n) ==
    LET high == Max({boundary.high} \cup {rows[i].sequence : i \in 1 .. n})
    IN  /\ rows' = SubSeq(rows, n + 1, Len(rows))
        /\ boundary' = IF n = 0 THEN boundary
                       ELSE [hash |-> rows[n].hash, sequence |-> rows[n].sequence,
                             high |-> high, rowid |-> rows[n].rowid]

(* An age of days outlasts any stay in the queue: while something is queued *)
(* only records of an earlier process may have expired.  This leaves out    *)
(* the old rows of a daemon that is itself up for days.                     *)
MayExpire(n) ==
    sink.queue # <<>> =>
       \A i \in 1 .. n : rows[i].sequence < sink.next_sequence - sink.accepted

(* run_retention_cleanup, between two batches, also while a closed queue is *)
(* drained.                                                                *)
Retention(n) ==
    /\ sink.phase \in {"up", "closing"} /\ batch = <<>>
    /\ MayExpire(n)
    /\ ChainValid        \* require_valid_chain: a failure otherwise, which ChainHolds excludes
    /\ n > 0 /\ Pruned(n)
    /\ UNCHANGED <<head, sink, batch, flushes, issued, emitted, log, lost, faults, opens>>

(* It fails, by storage, and every later flush reports it. *)
RetentionFails ==
    /\ sink.phase \in {"up", "closing"} /\ batch = <<>>
    /\ faults < MaxFaults
    /\ faults' = faults + 1
    /\ sink' = [sink EXCEPT !.failure = TRUE]
    /\ UNCHANGED <<database, batch, flushes, issued, emitted, log, lost, opens>>

-----------------------------------------------------------------------------
(* flush by caller c, in two steps: what is accepted by now, *)
FlushStart(c) ==
    /\ Alive
    /\ flushes[c].phase # "Waiting"
    /\ flushes' = [flushes EXCEPT ![c] = [phase |-> "Waiting", target |-> sink.accepted,
                                          covers |-> emitted]]
    /\ UNCHANGED <<database, sink, batch, issued, emitted, log, lost, faults, opens>>

(* and how it ended: settled, stopped or timed out. *)
FlushOk(c) == sink.settled >= flushes[c].target /\ ~sink.failure

FlushEnd(c) ==
    /\ Alive
    /\ flushes[c].phase = "Waiting"
    /\ flushes' = [flushes EXCEPT ![c] = NoFlush]
    /\ UNCHANGED <<database, sink, batch, issued, emitted, log, lost, faults, opens>>

-----------------------------------------------------------------------------
(* close: the monitor is joined, the sender is taken, *)
Close ==
    /\ sink.phase = "up"
    /\ sink' = [sink EXCEPT !.phase = "closing"]
    /\ UNCHANGED <<database, batch, flushes, issued, emitted, log, lost, faults, opens>>

(* the writer drains the queue and stops, *)
WriterStops ==
    /\ sink.phase = "closing" /\ sink.queue = <<>> /\ batch = <<>>
    /\ sink' = [sink EXCEPT !.phase = "stopped"]
    /\ UNCHANGED <<database, batch, flushes, issued, emitted, log, lost, faults, opens>>

(* and the process ends, in order or by a crash. *)
Down ==
    /\ Alive
    /\ sink' = [phase |-> "down", queue |-> <<>>, next_sequence |-> 0, accepted |-> 0,
                settled |-> 0, failure |-> FALSE, dropped |-> FALSE, last_hash |-> Genesis]
    /\ batch' = <<>>
    /\ flushes' = [c \in DOMAIN flushes |-> NoFlush]
    /\ emitted' = {}
    /\ UNCHANGED <<database, issued, log, lost, faults, opens>>

(* SqliteAuditSink::new: verifies, prunes, then resumes the numbering. *)
Open(n) ==
    LET top == Max({rows[i].sequence : i \in DOMAIN rows} \cup {head.sequence, boundary.high})
    IN  /\ sink.phase = "down"
        /\ opens < MaxOpens
        /\ opens' = opens + 1
        /\ ChainValid
        /\ Pruned(n)
        /\ sink' = [sink EXCEPT !.phase = "up", !.next_sequence = top + 1,
                                !.last_hash = head.hash]
        /\ UNCHANGED <<head, batch, flushes, issued, emitted, log, lost, faults>>

(* The log an earlier process left, opened. *)
EarlierRows ==
    LET record(i) == [event |-> <<Earlier[i], -i>>, sequence |-> i - 1]
    IN  [i \in DOMAIN Earlier |->
           [event |-> record(i).event, sequence |-> record(i).sequence, rowid |-> i,
            hash |-> [j \in 1 .. i |-> record(j)]]]

LogInit(callers) ==
    /\ rows = EarlierRows /\ log = EarlierRows
    /\ boundary = NoBoundary
    /\ head = [hash |-> IF rows = <<>> THEN Genesis ELSE Last(rows).hash,
               sequence |-> Len(rows) - 1]
    /\ sink = [phase |-> "up", queue |-> <<>>, next_sequence |-> Len(rows), accepted |-> 0,
               settled |-> 0, failure |-> FALSE, dropped |-> FALSE, last_hash |-> head.hash]
    /\ batch = <<>>
    /\ flushes = [c \in callers |-> NoFlush]
    /\ issued = 0 /\ emitted = {} /\ lost = {}
    /\ faults = 0 /\ opens = 1

LogNext ==
    \/ \E kind \in UNION Range(Request) : Emit(kind)
    \/ ReportDrops \/ WriterTake \/ WriterCommit \/ RetentionFails \/ Close \/ WriterStops
    \/ \E n \in 0 .. Len(rows) : Retention(n) \/ Open(n)

-----------------------------------------------------------------------------
(* Properties. *)

Committed == {log[i].event : i \in DOMAIN log}

(* Whatever batches fail, whatever is pruned and wherever the daemon       *)
(* crashes, the chain verifies, so neither the next start nor retention    *)
(* ever refuses the log (insert_batch, prune_verified_prefix), and no      *)
(* sequence number is ever committed twice, as checkpoints require.        *)
ChainHolds ==
    /\ ChainValid
    /\ \A i, j \in DOMAIN log : i < j => log[i].sequence < log[j].sequence
=============================================================================
