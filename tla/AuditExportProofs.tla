--------------------------- MODULE AuditExportProofs ---------------------------
(***************************************************************************)
(* Proofs about the audit log and its export, for any capacity, batch      *)
(* sizes, events, transports, faults and restarts.                         *)
(*                                                                         *)
(* The argument: rowids are positions in the log of everything ever        *)
(* committed, the surviving rows are its tail beyond the boundary, and a   *)
(* hash is what was committed up to its row.  What is accepted and not yet *)
(* settled is one pipeline, the batch before the queue, numbered upwards   *)
(* and beyond the head.                                                    *)
(***************************************************************************)
EXTENDS AuditExport, SequenceTheorems, TLAPS

-----------------------------------------------------------------------------
(* The inductive invariant. *)

IsSeq(s) == s \in Seq(Range(s))

(* What a hash covers, and the sequence number before a row. *)
Hash(s, n) == [j \in 1 .. n |-> [event |-> s[j].event, sequence |-> s[j].sequence]]
NumberAt(s, n) == IF n = 0 THEN -1 ELSE s[n].sequence

(* Everything ever committed: positions, hashes, growing numbers. *)
Chain(s) ==
    /\ IsSeq(s)
    /\ \A i \in 1 .. Len(s) :
          /\ s[i].rowid = i /\ s[i].sequence \in Int /\ s[i].sequence > -1
          /\ s[i].hash = Hash(s, i)
          /\ \A j \in 1 .. Len(s) : i < j => s[i].sequence < s[j].sequence

(* The rows are the tail of it. *)
Rest(s, r, b) ==
    /\ IsSeq(r)
    /\ b \in Nat /\ Len(s) = b + Len(r)
    /\ \A i \in 1 .. Len(r) : r[i] = s[b + i]

Database ==
    /\ Chain(log)
    /\ Rest(log, rows, boundary.rowid)
    /\ boundary = [hash |-> Hash(log, boundary.rowid), sequence |-> NumberAt(log, boundary.rowid),
                   high |-> boundary.high, rowid |-> boundary.rowid]
    /\ boundary.high \in Int
    /\ head = [hash |-> Hash(log, Len(log)), sequence |-> NumberAt(log, Len(log))]

SinkShape ==
    sink \in [phase : {"up", "closing", "stopped", "down"}, queue : {sink.queue},
              next_sequence : Int, accepted : Nat, settled : Nat, failure : BOOLEAN,
              dropped : BOOLEAN, last_hash : {sink.last_hash}]

(* Accepted and not settled. *)
Pipe == batch \o sink.queue

Numbered(p, low, high) ==
    /\ IsSeq(p)
    /\ \A i \in 1 .. Len(p) :
          /\ p[i] = [event |-> p[i].event, sequence |-> p[i].sequence]
          /\ p[i].sequence \in Int /\ low < p[i].sequence /\ p[i].sequence < high
          /\ \A j \in 1 .. Len(p) : i < j => p[i].sequence < p[j].sequence

Writer ==
    /\ SinkShape /\ IsSeq(batch) /\ IsSeq(sink.queue)
    /\ Alive => sink.last_hash = head.hash /\ head.sequence < sink.next_sequence
    /\ Numbered(Pipe, head.sequence, sink.next_sequence)
    /\ ~Alive => Pipe = <<>>

(* Without a failure, what was emitted is committed or in the pipeline, and *)
(* what a flush covers is in the part of it that the flush waits for.       *)
InPipe(e, n) == \E k \in 1 .. Len(Pipe) : k <= n /\ Pipe[k].event = e

Barrier ==
    /\ flushes = [c \in {Pump} |-> flushes[Pump]] /\ flushes[Pump].target \in Nat
    /\ sink.accepted = sink.settled + Len(Pipe)
    /\ ~sink.failure =>
          /\ \A e \in emitted : InPipe(e, Len(Pipe))
          /\ flushes[Pump].phase = "Waiting" =>
                \A e \in flushes[Pump].covers :
                   e \in Committed \/ InPipe(e, flushes[Pump].target - sink.settled)

(* Cursors name rows, and what they passed was delivered or is pruned. *)
File(f) ==
    f \in [at : [Transport -> Nat], detector : {f.detector}, last_sequence : {f.last_sequence},
           pending : {f.pending}, outbox : {f.outbox}, failed : {f.failed}]

Passed(f) ==
    \A t \in Transport :
       /\ f.at[t] <= Len(log)
       /\ \A i \in 1 .. Len(log) :
             boundary.rowid < i /\ i <= f.at[t] => log[i].event \in delivered[t]

Cycle ==
    pump \in [phase : {"Idle", "Replay", "Replayed", "Observe", "Alert", "Alerted", "Ack"},
              file : {pump.file}, left : {pump.left}, failing : {pump.failing}, todo : {pump.todo}]

Export ==
    /\ Cycle /\ File(saved) /\ File(pump.file)
    /\ delivered = [t \in Transport |-> delivered[t]]
    /\ Passed(saved) /\ Passed(pump.file)

IInv == Database /\ Writer /\ Barrier /\ Export

-----------------------------------------------------------------------------
(* Sequences. *)

(* A sequence is one over its own elements. *)
LEMMA SeqIs == ASSUME NEW S, NEW s \in Seq(S) PROVE IsSeq(s)
<1>1. Len(s) \in Nat /\ s \in [1 .. Len(s) -> S] /\ DOMAIN s = 1 .. Len(s)
  OBVIOUS
<1>2. s \in [1 .. Len(s) -> Range(s)]
  BY <1>1 DEF Range
<1> QED
  BY <1>1, <1>2 DEF IsSeq

(* A function on an initial interval is a sequence. *)
LEMMA FunIs ==
    ASSUME NEW n \in Nat, NEW f, f = [i \in 1 .. n |-> f[i]]
    PROVE  IsSeq(f) /\ Len(f) = n
<1> DEFINE S == {f[i] : i \in 1 .. n}
<1>1. f \in [1 .. n -> S]
  OBVIOUS
<1>2. f \in Seq(S) /\ Len(f) = n
  BY <1>1
<1> HIDE DEF S
<1> QED
  BY <1>2, SeqIs

(* Domain and length. *)
LEMMA SeqDomain ==
    ASSUME NEW s, IsSeq(s)
    PROVE  Len(s) \in Nat /\ DOMAIN s = 1 .. Len(s) /\ s = [i \in 1 .. Len(s) |-> s[i]]
BY DEF IsSeq

(* Sequences with the same elements. *)
LEMMA SameSeq ==
    ASSUME NEW s, NEW t, IsSeq(s), IsSeq(t), Len(s) = Len(t),
           \A i \in 1 .. Len(s) : s[i] = t[i]
    PROVE  s = t
<1> DEFINE S == Range(s) \cup Range(t)
<1>1. s \in Seq(S) /\ t \in Seq(S)
  BY DEF IsSeq
<1> HIDE DEF S
<1> QED
  BY <1>1, SeqEqual

(* Concatenation. *)
LEMMA CatIs ==
    ASSUME NEW s, NEW t, IsSeq(s), IsSeq(t)
    PROVE  /\ IsSeq(s \o t) /\ Len(s \o t) = Len(s) + Len(t)
           /\ \A i \in 1 .. Len(s) : (s \o t)[i] = s[i]
           /\ \A i \in 1 .. Len(t) : (s \o t)[Len(s) + i] = t[i]
           /\ \A i \in 1 .. Len(s \o t) : i > Len(s) => (s \o t)[i] = t[i - Len(s)]
<1> DEFINE S == Range(s) \cup Range(t)
<1>1. s \in Seq(S) /\ t \in Seq(S)
  BY DEF IsSeq
<1> HIDE DEF S
<1>2. s \o t \in Seq(S)
  BY <1>1
<1>3. IsSeq(s \o t)
  BY <1>2, SeqIs
<1> QED
  BY <1>1, <1>3

(* A part. *)
LEMMA SubIs ==
    ASSUME NEW s, IsSeq(s), NEW m \in Nat \ {0}, NEW n \in Nat, m <= n + 1, n <= Len(s)
    PROVE  /\ IsSeq(SubSeq(s, m, n)) /\ Len(SubSeq(s, m, n)) = n - m + 1
           /\ \A i \in 1 .. n - m + 1 : SubSeq(s, m, n)[i] = s[m + i - 1]
<1>1. s \in Seq(Range(s))
  BY DEF IsSeq
<1>2. SubSeq(s, m, n) \in Seq(Range(s))
  BY <1>1
<1>3. IsSeq(SubSeq(s, m, n))
  BY <1>2, SeqIs
<1> QED
  BY <1>1, <1>3

(* One more. *)
LEMMA AppendIs ==
    ASSUME NEW s, IsSeq(s), NEW x
    PROVE  /\ IsSeq(Append(s, x)) /\ Len(Append(s, x)) = Len(s) + 1
           /\ \A i \in 1 .. Len(s) : Append(s, x)[i] = s[i]
           /\ Append(s, x)[Len(s) + 1] = x
<1> DEFINE S == Range(s) \cup {x}
<1>1. s \in Seq(S) /\ x \in S
  BY DEF IsSeq
<1> HIDE DEF S
<1>2. Append(s, x) \in Seq(S)
  BY <1>1
<1>3. IsSeq(Append(s, x))
  BY <1>2, SeqIs
<1> QED
  BY <1>1, <1>3

(* Nothing. *)
LEMMA EmptyIs == IsSeq(<<>>) /\ Len(<<>>) = 0 /\ (\A s : IsSeq(s) /\ Len(s) = 0 => s = <<>>)
<1>1. <<>> \in Seq({})
  OBVIOUS
<1>2. IsSeq(<<>>)
  BY <1>1, SeqIs
<1>3. ASSUME NEW s, IsSeq(s), Len(s) = 0 PROVE s = <<>>
  BY <1>2, <1>3, SameSeq
<1> QED
  BY <1>2, <1>3

(* Empty before or after something. *)
LEMMA CatEmpty ==
    ASSUME NEW s, IsSeq(s)
    PROVE  s \o <<>> = s /\ <<>> \o s = s
<1>1. s \in Seq(Range(s))
  BY DEF IsSeq
<1> QED
  BY <1>1

-----------------------------------------------------------------------------
(* What a step leaves alone. *)

(* The database is judged by its tables and the log alone. *)
LEMMA DatabaseStays ==
    ASSUME Database, UNCHANGED <<rows, boundary, head, log>>
    PROVE  Database'
BY DEF Database

(* The writer is judged by its state and the head. *)
LEMMA WriterStays ==
    ASSUME Writer, UNCHANGED <<sink, batch, head>>
    PROVE  Writer'
BY DEF Writer, SinkShape, Alive, Pipe

(* A flush is judged by the writer, what was emitted and what is committed. *)
LEMMA BarrierStays ==
    ASSUME Barrier, UNCHANGED <<sink, batch, flushes, emitted, log>>
    PROVE  Barrier'
BY DEF Barrier, InPipe, Pipe, Committed

(* What a cursor passed stays passed while rows are only added, pruned or   *)
(* delivered.                                                               *)
LEMMA PassedStays ==
    ASSUME NEW f, Passed(f), IsSeq(log), IsSeq(log)', Len(log) <= Len(log)',
           File(f), boundary.rowid \in Nat, boundary'.rowid \in Nat,
           boundary.rowid <= boundary'.rowid,
           \A i \in 1 .. Len(log) : log'[i] = log[i],
           \A t \in Transport : delivered[t] \subseteq delivered'[t]
    PROVE  \A t \in Transport :
              /\ f.at[t] <= Len(log)'
              /\ \A i \in 1 .. Len(log)' :
                    boundary'.rowid < i /\ i <= f.at[t] => log'[i].event \in delivered'[t]
<1>1. Len(log) \in Nat /\ Len(log') \in Nat
  BY SeqDomain
<1> SUFFICES ASSUME NEW t \in Transport
             PROVE  /\ f.at[t] <= Len(log')
                    /\ \A i \in 1 .. Len(log') :
                          boundary'.rowid < i /\ i <= f.at[t] => log'[i].event \in delivered'[t]
  OBVIOUS
<1>2. f.at[t] \in Nat /\ f.at[t] <= Len(log)
  BY DEF File, Passed
<1>3. ASSUME NEW i \in 1 .. Len(log'), boundary'.rowid < i, i <= f.at[t]
      PROVE  log'[i].event \in delivered'[t]
  <2>1. i \in 1 .. Len(log) /\ boundary.rowid < i
    BY <1>1, <1>2, <1>3
  <2> QED
    BY <1>3, <2>1 DEF Passed
<1> QED
  BY <1>1, <1>2, <1>3

(* A step that leaves the pump alone. *)
LEMMA ExportStays ==
    ASSUME Export, Database, IsSeq(log)', Len(log) <= Len(log)', boundary'.rowid \in Nat,
           boundary.rowid <= boundary'.rowid,
           \A i \in 1 .. Len(log) : log'[i] = log[i], UNCHANGED <<saved, pump, delivered>>
    PROVE  Export'
<1>1. IsSeq(log) /\ boundary.rowid \in Nat
  BY DEF Database, Chain, Rest
<1>2. Passed(saved)' /\ Passed(pump.file)'
  BY <1>1, PassedStays DEF Export, Passed
<1> QED
  BY <1>2 DEF Export, Cycle, File

(* Nor the log. *)
LEMMA ExportSame ==
    ASSUME Export, UNCHANGED <<log, boundary, saved, pump, delivered>>
    PROVE  Export'
BY DEF Export, Cycle, File, Passed

-----------------------------------------------------------------------------
(* The pipeline. *)

(* Its parts are sequences. *)
LEMMA PipeFacts ==
    ASSUME Writer
    PROVE  /\ Len(batch) \in Nat /\ Len(sink.queue) \in Nat
           /\ IsSeq(Pipe) /\ Len(Pipe) = Len(batch) + Len(sink.queue)
           /\ \A i \in 1 .. Len(batch) : Pipe[i] = batch[i]
           /\ \A i \in 1 .. Len(sink.queue) : Pipe[Len(batch) + i] = sink.queue[i]
           /\ \A i \in 1 .. Len(Pipe) : i > Len(batch) => Pipe[i] = sink.queue[i - Len(batch)]
BY CatIs, SeqDomain DEF Writer, Pipe

(* A state of the sink with the same pipeline. *)
LEMMA SinkMoves ==
    ASSUME Writer, SinkShape', UNCHANGED <<head, batch>>, sink'.queue = sink.queue,
           sink'.next_sequence = sink.next_sequence, sink'.last_hash = sink.last_hash,
           Alive, sink'.phase # "down"
    PROVE  Writer' /\ Pipe' = Pipe
<1>1. Pipe' = Pipe
  BY DEF Pipe
<1> QED
  BY <1>1 DEF Writer, Alive

(* A barrier over the same pipeline, where only a failure may be new. *)
LEMMA BarrierMoves ==
    ASSUME Barrier, Pipe' = Pipe, sink'.accepted = sink.accepted, sink'.settled = sink.settled,
           sink'.failure = FALSE => sink.failure = FALSE, sink'.failure \in BOOLEAN,
           UNCHANGED <<flushes, emitted, log>>
    PROVE  Barrier'
<1>1. \A e, n : InPipe(e, n)' <=> InPipe(e, n)
  BY DEF InPipe
<1> QED
  BY <1>1 DEF Barrier, Committed, InPipe

(* An event is accepted: the pipeline is one longer. *)
LEMMA PipeGrows ==
    ASSUME Writer, NEW x, UNCHANGED batch, sink'.queue = Append(sink.queue, x)
    PROVE  /\ IsSeq(sink'.queue) /\ IsSeq(Pipe') /\ Len(Pipe') = Len(Pipe) + 1
           /\ \A i \in 1 .. Len(Pipe) : Pipe'[i] = Pipe[i]
           /\ Pipe'[Len(Pipe) + 1] = x
<1>1. IsSeq(batch) /\ IsSeq(sink.queue) /\ Len(batch) \in Nat /\ Len(sink.queue) \in Nat
  BY SeqDomain DEF Writer
<1>2. PICK q : q = Append(sink.queue, x)
  OBVIOUS
<1>3. /\ IsSeq(q) /\ Len(q) = Len(sink.queue) + 1 /\ q[Len(sink.queue) + 1] = x
      /\ \A i \in 1 .. Len(sink.queue) : q[i] = sink.queue[i]
  BY <1>1, <1>2, AppendIs
<1>4. Pipe' = batch \o q
  BY <1>2 DEF Pipe
<1>5. PICK p : p = batch \o q
  OBVIOUS
<1>6. /\ IsSeq(p) /\ Len(p) = Len(batch) + Len(q)
      /\ \A i \in 1 .. Len(batch) : p[i] = batch[i]
      /\ \A i \in 1 .. Len(q) : p[Len(batch) + i] = q[i]
      /\ \A i \in 1 .. Len(p) : i > Len(batch) => p[i] = q[i - Len(batch)]
  <2>1. IsSeq(batch) /\ IsSeq(q)
    BY <1>1, <1>3
  <2> QED
    BY <1>5, <2>1, CatIs
<1>7. ASSUME NEW i \in 1 .. Len(Pipe) PROVE p[i] = Pipe[i]
  <2>1. CASE i <= Len(batch)
    <3>1. i \in 1 .. Len(batch)
      BY <1>1, <2>1
    <3> QED
      BY <1>6, <3>1, PipeFacts
  <2>2. CASE i > Len(batch)
    <3>1. i \in 1 .. Len(p) /\ i - Len(batch) \in 1 .. Len(sink.queue)
      BY <1>1, <1>3, <1>6, <2>2, PipeFacts
    <3> QED
      BY <1>3, <1>6, <2>2, <3>1, PipeFacts
  <2> QED
    BY <1>1, <2>1, <2>2, PipeFacts
<1>8. Len(p) = Len(Pipe) + 1 /\ p[Len(Pipe) + 1] = x
  <2>1. Len(q) \in 1 .. Len(q)
    BY <1>1, <1>3
  <2>2. Len(Pipe) + 1 = Len(batch) + Len(q)
    <3>1. Len(Pipe) = Len(batch) + Len(sink.queue)
      BY PipeFacts
    <3> QED
      BY <1>1, <1>3, <3>1
  <2>3. p[Len(batch) + Len(q)] = q[Len(q)]
    BY <1>6, <2>1
  <2> QED
    BY <1>3, <1>6, <2>2, <2>3
<1> QED
  BY <1>2, <1>3, <1>4, <1>5, <1>6, <1>7, <1>8

(* enqueue_event keeps the numbering, and a flush under way covers no more. *)
LEMMA EnqueueStep ==
    ASSUME Database, Writer, Barrier, Alive, NEW id, NEW d \in BOOLEAN,
           sink' = [Enqueued(id) EXCEPT !.dropped = d],
           UNCHANGED <<batch, head, log, flushes>>, emitted' \subseteq emitted \cup {id}
    PROVE  Writer' /\ Barrier'
<1>0. SinkShape
  BY DEF Writer
<1>1. CASE ~Accepts
  <2>1. sink' = [[sink EXCEPT !.failure = TRUE] EXCEPT !.dropped = d]
    BY <1>1 DEF Enqueued
  <2>2. /\ SinkShape' /\ sink'.queue = sink.queue /\ sink'.next_sequence = sink.next_sequence
        /\ sink'.last_hash = sink.last_hash /\ sink'.phase = sink.phase
        /\ sink'.accepted = sink.accepted /\ sink'.settled = sink.settled /\ sink'.failure = TRUE
    BY <1>0, <2>1 DEF SinkShape
  <2>3. Writer' /\ Pipe' = Pipe
    BY <2>2, SinkMoves DEF Alive
  <2>4. Barrier'
    BY <2>2, <2>3 DEF Barrier
  <2> QED
    BY <2>3, <2>4
<1>2. CASE Accepts
  <2> DEFINE x == [event |-> id, sequence |-> sink.next_sequence]
  <2>1. sink' = [[sink EXCEPT !.queue = Append(@, x), !.next_sequence = @ + 1, !.accepted = @ + 1]
                   EXCEPT !.dropped = d]
    BY <1>2 DEF Enqueued
  <2>2. /\ sink'.queue = Append(sink.queue, x) /\ sink'.next_sequence = sink.next_sequence + 1
        /\ sink'.last_hash = sink.last_hash /\ sink'.phase = sink.phase
        /\ sink'.accepted = sink.accepted + 1 /\ sink'.settled = sink.settled
        /\ sink'.failure = sink.failure
    BY <1>0, <2>1 DEF SinkShape
  <2>3. sink.next_sequence \in Int /\ sink.accepted \in Nat /\ sink.settled \in Nat
    BY <1>0 DEF SinkShape
  <2>4. sink.next_sequence + 1 \in Int /\ sink.accepted + 1 \in Nat
    BY <2>3
  <2>5. SinkShape' /\ sink.next_sequence \in Int /\ sink.accepted \in Nat /\ sink.settled \in Nat
    BY <1>0, <2>1, <2>3, <2>4 DEF SinkShape
  <2>6. /\ x = [event |-> x.event, sequence |-> x.sequence] /\ x.sequence = sink.next_sequence
        /\ x.event = id
    OBVIOUS
  <2> HIDE DEF x
  <2>7. /\ IsSeq(sink'.queue) /\ IsSeq(Pipe') /\ Len(Pipe') = Len(Pipe) + 1
        /\ \A i \in 1 .. Len(Pipe) : Pipe'[i] = Pipe[i]
        /\ Pipe'[Len(Pipe) + 1] = x
    BY <2>2, PipeGrows
  <2>8. Len(Pipe) \in Nat
    BY PipeFacts
  <2>9. Numbered(Pipe, head.sequence, sink.next_sequence) /\ head.sequence < sink.next_sequence
    BY DEF Writer
  <2>10. head.sequence \in Int
    BY SeqDomain DEF Database, Chain, NumberAt
  <2>11. Numbered(Pipe', head.sequence, sink.next_sequence + 1)
    <3>1. ASSUME NEW i \in 1 .. Len(Pipe')
          PROVE  /\ Pipe'[i] = [event |-> Pipe'[i].event, sequence |-> Pipe'[i].sequence]
                 /\ Pipe'[i].sequence \in Int /\ head.sequence < Pipe'[i].sequence
                 /\ Pipe'[i].sequence < sink.next_sequence + 1
                 /\ \A j \in 1 .. Len(Pipe') : i < j => Pipe'[i].sequence < Pipe'[j].sequence
      <4>1. CASE i = Len(Pipe) + 1
        BY <2>5, <2>6, <2>7, <2>8, <2>9, <2>10, <4>1
      <4>2. CASE i \in 1 .. Len(Pipe)
        <5>1. /\ Pipe[i] = [event |-> Pipe[i].event, sequence |-> Pipe[i].sequence]
              /\ Pipe[i].sequence \in Int /\ head.sequence < Pipe[i].sequence
              /\ Pipe[i].sequence < sink.next_sequence
              /\ \A j \in 1 .. Len(Pipe) : i < j => Pipe[i].sequence < Pipe[j].sequence
          BY <2>9, <4>2 DEF Numbered
        <5>2. Pipe'[i] = Pipe[i]
          BY <2>7, <4>2
        <5>3. \A j \in 1 .. Len(Pipe') : j \in 1 .. Len(Pipe) \/ j = Len(Pipe) + 1
          BY <2>7, <2>8
        <5>4. ASSUME NEW j \in 1 .. Len(Pipe'), i < j
              PROVE  Pipe'[i].sequence < Pipe'[j].sequence
          <6>1. CASE j \in 1 .. Len(Pipe)
            BY <2>7, <5>1, <5>2, <5>4, <6>1
          <6>2. CASE j = Len(Pipe) + 1
            <7>1. Pipe'[j].sequence = sink.next_sequence
              BY <2>6, <2>7, <6>2
            <7> QED
              BY <5>1, <5>2, <7>1
          <6> QED
            BY <5>3, <6>1, <6>2
        <5>5. Pipe'[i].sequence < sink.next_sequence + 1
          BY <2>3, <5>1, <5>2
        <5> QED
          BY <5>1, <5>2, <5>4, <5>5
      <4> QED
        BY <2>7, <2>8, <4>1, <4>2
    <3> QED
      BY <2>7, <3>1 DEF Numbered
  <2>12. Writer'
    BY <2>2, <2>5, <2>7, <2>9, <2>10, <2>11 DEF Writer, Alive
  <2>13. \A e : InPipe(e, Len(Pipe)) => InPipe(e, Len(Pipe))'
    <3>1. Len(Pipe') = Len(Pipe) + 1
      BY <2>7
    <3> QED
      BY <2>7, <2>8, <3>1 DEF InPipe
  <2>14. InPipe(id, Len(Pipe))'
    BY <2>6, <2>7, <2>8 DEF InPipe
  <2>15. Barrier'
    <3>1. sink'.accepted = sink'.settled + Len(Pipe')
      <4>1. sink.accepted = sink.settled + Len(Pipe)
        BY DEF Barrier
      <4>2. Len(Pipe') = Len(Pipe) + 1
        BY <2>7
      <4>3. sink'.accepted = sink.accepted + 1 /\ sink'.settled = sink.settled
        BY <2>2
      <4> QED
        BY <2>3, <2>8, <4>1, <4>2, <4>3
    <3>2. ASSUME ~sink.failure
          PROVE  \A e \in emitted' : InPipe(e, Len(Pipe))'
      BY <2>13, <2>14, <3>2 DEF Barrier
    <3>3. ASSUME ~sink.failure, flushes[Pump].phase = "Waiting", NEW e \in flushes[Pump].covers
          PROVE  e \in Committed' \/ InPipe(e, flushes[Pump].target - sink.settled)'
      <4>1. e \in Committed \/ InPipe(e, flushes[Pump].target - sink.settled)
        BY <3>3 DEF Barrier
      <4>2. Committed' = Committed
        BY DEF Committed
      <4>3. InPipe(e, flushes[Pump].target - sink.settled)
              => InPipe(e, flushes[Pump].target - sink.settled)'
        <5>1. UNCHANGED <<flushes, sink.settled>>
          BY <2>2
        <5> QED
          BY <2>7, <2>8, <5>1 DEF InPipe
      <4> QED
        BY <4>1, <4>2, <4>3
    <3> QED
      BY <2>2, <3>1, <3>2, <3>3 DEF Barrier
  <2> QED
    BY <2>12, <2>15
<1> QED
  BY <1>1, <1>2

(* The writer takes a batch: the pipeline is the same. *)
LEMMA TakeStep ==
    ASSUME Writer, Barrier, WriterTake
    PROVE  Writer' /\ Barrier'
<1>1. PICK n : /\ n = IF Len(sink.queue) < BatchMax THEN Len(sink.queue) ELSE BatchMax
               /\ sink.phase \in {"up", "closing"} /\ batch = <<>> /\ n > 0
               /\ batch' = SubSeq(sink.queue, 1, n)
               /\ sink' = [sink EXCEPT !.queue = SubSeq(@, n + 1, Len(@))]
               /\ UNCHANGED <<head, flushes, emitted, log>>
  BY DEF WriterTake, database
<1>2. SinkShape /\ IsSeq(sink.queue) /\ Len(sink.queue) \in Nat
  BY SeqDomain DEF Writer
<1>3. BatchMax \in Nat
  BY LimitsAssumption
<1>4. n \in Nat \ {0} /\ n <= Len(sink.queue)
  BY <1>1, <1>2, <1>3
<1>5. /\ SinkShape' /\ sink'.queue = SubSeq(sink.queue, n + 1, Len(sink.queue))
      /\ sink'.next_sequence = sink.next_sequence
      /\ sink'.last_hash = sink.last_hash /\ sink'.phase = sink.phase
      /\ sink'.accepted = sink.accepted /\ sink'.settled = sink.settled
      /\ sink'.failure = sink.failure
  BY <1>1, <1>2 DEF SinkShape
<1>6. IsSeq(batch')
  <2>1. 1 \in Nat \ {0} /\ n \in Nat /\ 1 <= n + 1
    BY <1>4
  <2>2. IsSeq(SubSeq(sink.queue, 1, n))
    BY <1>2, <1>4, <2>1, SubIs
  <2> QED
    BY <1>1, <2>2
<1>7. IsSeq(sink'.queue)
  <2>1. n + 1 \in Nat \ {0} /\ n + 1 <= Len(sink.queue) + 1
    BY <1>2, <1>4
  <2>2. IsSeq(SubSeq(sink.queue, n + 1, Len(sink.queue)))
    BY <1>2, <2>1, SubIs
  <2> QED
    BY <1>5, <2>2
<1>8. Pipe' = sink.queue
  <2>1. SubSeq(sink.queue, 1, n) \o SubSeq(sink.queue, n + 1, Len(sink.queue)) = sink.queue
    <3>1. sink.queue \in Seq(Range(sink.queue))
      BY <1>2 DEF IsSeq
    <3>2. /\ 1 \in 1 .. Len(sink.queue) + 1 /\ n \in 0 .. Len(sink.queue)
          /\ Len(sink.queue) \in n .. Len(sink.queue)
      BY <1>2, <1>4
    <3>3. SubSeq(sink.queue, 1, Len(sink.queue)) = sink.queue
      BY <3>1, SubSeqFull
    <3>4. n \in 1 - 1 .. Len(sink.queue)
      BY <3>2
    <3>5. SubSeq(sink.queue, 1, n) \o SubSeq(sink.queue, n + 1, Len(sink.queue))
            = SubSeq(sink.queue, 1, Len(sink.queue))
      BY <3>1, <3>2, <3>4, ConcatAdjacentSubSeq
    <3> QED
      BY <3>3, <3>5
  <2> QED
    BY <1>1, <1>5, <2>1 DEF Pipe
<1>9. Pipe = sink.queue
  BY <1>1, <1>2, CatEmpty DEF Pipe
<1>10. Pipe' = Pipe
  BY <1>8, <1>9
<1>11. Writer'
  BY <1>1, <1>5, <1>6, <1>7, <1>10 DEF Writer, Alive
<1>12. sink'.failure \in BOOLEAN
  BY <1>5 DEF SinkShape
<1>13. Barrier'
  BY <1>1, <1>5, <1>10, <1>12, BarrierMoves
<1> QED
  BY <1>11, <1>13

(* The queue alone, numbered beyond the head or beyond the batch. *)
LEMMA QueueNumbered ==
    ASSUME Database, Writer, NEW low,
           low = head.sequence \/ (batch # <<>> /\ low = batch[Len(batch)].sequence)
    PROVE  Numbered(sink.queue, low, sink.next_sequence)
<1>0. /\ IsSeq(sink.queue) /\ IsSeq(batch)
      /\ Numbered(Pipe, head.sequence, sink.next_sequence)
  BY DEF Writer
<1>1. Len(batch) \in Nat /\ Len(sink.queue) \in Nat /\ Len(Pipe) = Len(batch) + Len(sink.queue)
  BY PipeFacts
<1>2. \A i \in 1 .. Len(batch) : Pipe[i] = batch[i]
  BY PipeFacts
<1>3. \A i \in 1 .. Len(sink.queue) : Pipe[Len(batch) + i] = sink.queue[i]
  BY PipeFacts
<1>4. ASSUME NEW i \in 1 .. Len(sink.queue)
      PROVE  /\ Len(batch) + i \in 1 .. Len(Pipe)
             /\ sink.queue[i] = [event |-> sink.queue[i].event, sequence |-> sink.queue[i].sequence]
             /\ sink.queue[i].sequence \in Int /\ head.sequence < sink.queue[i].sequence
             /\ sink.queue[i].sequence < sink.next_sequence
             /\ \A j \in 1 .. Len(Pipe) : Len(batch) + i < j => Pipe[Len(batch) + i].sequence < Pipe[j].sequence
  <2>1. Len(batch) + i \in 1 .. Len(Pipe)
    BY <1>1
  <2> QED
    BY <1>0, <1>3, <2>1 DEF Numbered
<1>5. ASSUME NEW i \in 1 .. Len(sink.queue), NEW j \in 1 .. Len(sink.queue), i < j
      PROVE  sink.queue[i].sequence < sink.queue[j].sequence
  <2>1. Len(batch) + j \in 1 .. Len(Pipe) /\ Len(batch) + i < Len(batch) + j
    BY <1>1, <1>5
  <2> QED
    BY <1>3, <1>4, <2>1
<1>6. ASSUME NEW i \in 1 .. Len(sink.queue) PROVE low < sink.queue[i].sequence
  <2>1. CASE low = head.sequence
    BY <1>4, <2>1
  <2>2. CASE batch # <<>> /\ low = batch[Len(batch)].sequence
    <3>1. Len(batch) # 0
      BY <1>0, <2>2, EmptyIs
    <3>2. Len(batch) \in 1 .. Len(batch) /\ Len(batch) \in 1 .. Len(Pipe) /\ Len(batch) < Len(batch) + i
      BY <1>1, <3>1
    <3>3. Pipe[Len(batch)].sequence < Pipe[Len(batch) + i].sequence
      BY <1>0, <1>4, <3>2 DEF Numbered
    <3> QED
      BY <1>2, <1>3, <2>2, <3>2, <3>3
  <2> QED
    BY <2>1, <2>2
<1> QED
  BY <1>0, <1>4, <1>5, <1>6 DEF Numbered

(* A batch lost is settled, and failed. *)
LEMMA FailStep ==
    ASSUME Database, Writer, Barrier, Alive, sink' = BatchFailed, batch' = <<>>,
           UNCHANGED <<head, flushes>>
    PROVE  Writer' /\ Barrier'
<1>1. SinkShape /\ IsSeq(sink.queue) /\ Len(sink.queue) \in Nat /\ Len(batch) \in Nat
  BY SeqDomain DEF Writer
<1>2. sink' = [sink EXCEPT !.settled = @ + Len(batch), !.failure = TRUE]
  BY DEF BatchFailed
<1>3. sink.settled \in Nat /\ sink.settled + Len(batch) \in Nat
  BY <1>1 DEF SinkShape
<1>4. /\ SinkShape' /\ sink'.queue = sink.queue /\ sink'.next_sequence = sink.next_sequence
      /\ sink'.last_hash = sink.last_hash /\ sink'.phase = sink.phase
      /\ sink'.accepted = sink.accepted /\ sink'.settled = sink.settled + Len(batch)
      /\ sink'.failure = TRUE
  BY <1>1, <1>2, <1>3 DEF SinkShape
<1>5. Pipe' = sink.queue
  BY <1>1, <1>4, CatEmpty DEF Pipe
<1>6. Numbered(Pipe', head.sequence, sink.next_sequence)
  BY <1>5, QueueNumbered
<1>7. Writer'
  BY <1>1, <1>4, <1>6, EmptyIs DEF Writer, Alive
<1>8. Len(Pipe) = Len(batch) + Len(sink.queue)
  BY PipeFacts
<1>9. sink.accepted = sink.settled + Len(Pipe)
  BY DEF Barrier
<1>10. sink'.accepted = sink'.settled + Len(Pipe')
  BY <1>1, <1>3, <1>4, <1>5, <1>8, <1>9
<1>11. Barrier'
  BY <1>4, <1>10 DEF Barrier
<1> QED
  BY <1>7, <1>11

-----------------------------------------------------------------------------
(* A committed batch. *)

(* The log, its tail and its end. *)
LEMMA LogFacts ==
    ASSUME Database
    PROVE  /\ IsSeq(log) /\ IsSeq(rows) /\ Len(log) \in Nat /\ Len(rows) \in Nat
           /\ boundary.rowid \in Nat /\ Len(log) = boundary.rowid + Len(rows)
           /\ \A i \in 1 .. Len(rows) : boundary.rowid + i \in 1 .. Len(log) /\ rows[i] = log[boundary.rowid + i]
           /\ head.sequence \in Int
           /\ \A i \in 1 .. Len(log) : log[i].sequence \in Int /\ log[i].sequence <= head.sequence
           /\ LastRowid = Len(log)
<1>1. /\ IsSeq(log) /\ IsSeq(rows) /\ Len(log) \in Nat /\ Len(rows) \in Nat
      /\ boundary.rowid \in Nat /\ Len(log) = boundary.rowid + Len(rows)
      /\ \A i \in 1 .. Len(rows) : rows[i] = log[boundary.rowid + i]
  BY SeqDomain DEF Database, Chain, Rest
<1>2. ASSUME NEW i \in 1 .. Len(rows) PROVE boundary.rowid + i \in 1 .. Len(log)
  BY <1>1
<1>3. head.sequence = NumberAt(log, Len(log))
  BY DEF Database
<1>4. head.sequence \in Int
  BY <1>1, <1>3 DEF Database, Chain, NumberAt
<1>5. ASSUME NEW i \in 1 .. Len(log)
      PROVE  log[i].sequence \in Int /\ log[i].sequence <= head.sequence
  <2>1. Len(log) \in 1 .. Len(log) /\ Len(log) # 0
    BY <1>1
  <2>2. /\ log[i].sequence \in Int /\ log[Len(log)].sequence \in Int
        /\ i < Len(log) => log[i].sequence < log[Len(log)].sequence
    BY <2>1 DEF Database, Chain
  <2>3. head.sequence = log[Len(log)].sequence
    BY <1>3, <2>1 DEF NumberAt
  <2>4. CASE i = Len(log)
    BY <2>2, <2>3, <2>4
  <2>5. CASE i < Len(log)
    BY <2>2, <2>3, <2>5
  <2> QED
    BY <1>1, <2>4, <2>5
<1>6. LastRowid = Len(log)
  <2>1. CASE rows = <<>>
    <3>1. Len(rows) = 0
      BY <2>1, EmptyIs
    <3> QED
      BY <1>1, <2>1, <3>1 DEF LastRowid, Greater
  <2>2. CASE rows # <<>>
    <3>1. Len(rows) # 0
      BY <1>1, <2>2, EmptyIs
    <3>2. Len(rows) \in 1 .. Len(rows) /\ Len(log) \in 1 .. Len(log)
      BY <1>1, <3>1
    <3>3. Last(rows) = log[Len(log)]
      BY <1>1, <3>2 DEF Last
    <3>4. Last(rows).rowid = Len(log)
      BY <3>2, <3>3 DEF Database, Chain
    <3> QED
      BY <1>1, <2>2, <3>4 DEF LastRowid, Greater
  <2> QED
    BY <2>1, <2>2
<1> QED
  BY <1>1, <1>2, <1>4, <1>5, <1>6

(* What insert_batch adds. *)
LEMMA InsertedFacts ==
    ASSUME Database, Writer
    PROVE  /\ IsSeq(Inserted) /\ Len(Inserted) = Len(batch)
           /\ \A i \in 1 .. Len(batch) :
                 Inserted[i] = [event |-> batch[i].event, sequence |-> batch[i].sequence,
                                rowid |-> Len(log) + i, hash |-> Chained(i)]
<1>1. IsSeq(batch) /\ Len(batch) \in Nat /\ DOMAIN batch = 1 .. Len(batch)
  BY SeqDomain DEF Writer
<1>2. LastRowid = Len(log)
  BY LogFacts
<1> DEFINE Item(i) == [event |-> batch[i].event, sequence |-> batch[i].sequence,
                       rowid |-> Len(log) + i, hash |-> Chained(i)]
<1>3. Inserted = [i \in 1 .. Len(batch) |-> Item(i)]
  BY <1>1, <1>2 DEF Inserted
<1> HIDE DEF Item
<1>4. \A i \in 1 .. Len(batch) : Inserted[i] = Item(i)
  BY <1>3
<1>5. Inserted = [i \in 1 .. Len(batch) |-> Inserted[i]]
  BY <1>3
<1>6. IsSeq(Inserted) /\ Len(Inserted) = Len(batch)
  BY <1>1, <1>5, FunIs
<1> QED
  BY <1>4, <1>6 DEF Item

(* The keyed hash over a sequence is one. *)
LEMMA HashIs ==
    ASSUME NEW s, NEW n \in Nat
    PROVE  /\ IsSeq(Hash(s, n)) /\ Len(Hash(s, n)) = n
           /\ \A j \in 1 .. n : Hash(s, n)[j] = [event |-> s[j].event, sequence |-> s[j].sequence]
<1> DEFINE rec(j) == [event |-> s[j].event, sequence |-> s[j].sequence]
<1>1. PICK h : h = [j \in 1 .. n |-> rec(j)]
  OBVIOUS
<1> HIDE DEF rec
<1>2. \A j \in 1 .. n : h[j] = rec(j)
  BY <1>1
<1>3. h = [j \in 1 .. n |-> h[j]]
  BY <1>1
<1>4. IsSeq(h) /\ Len(h) = n
  BY <1>3, FunIs
<1> QED
  BY <1>1, <1>2, <1>4 DEF Hash, rec

(* It depends on what it covers. *)
LEMMA HashSame ==
    ASSUME NEW s, NEW t, NEW n \in Nat,
           \A j \in 1 .. n : s[j].event = t[j].event /\ s[j].sequence = t[j].sequence
    PROVE  Hash(s, n) = Hash(t, n)
BY DEF Hash

(* One more record. *)
LEMMA HashNext ==
    ASSUME NEW s, NEW n \in Nat
    PROVE  Hash(s, n + 1) = Append(Hash(s, n), [event |-> s[n + 1].event, sequence |-> s[n + 1].sequence])
<1> DEFINE x == [event |-> s[n + 1].event, sequence |-> s[n + 1].sequence]
<1>1. PICK h : h = Hash(s, n)
  OBVIOUS
<1>2. PICK g : g = Hash(s, n + 1)
  OBVIOUS
<1>3. /\ IsSeq(h) /\ Len(h) = n
      /\ \A j \in 1 .. n : h[j] = [event |-> s[j].event, sequence |-> s[j].sequence]
  BY <1>1, HashIs
<1>4. n + 1 \in Nat
  OBVIOUS
<1>5. /\ IsSeq(g) /\ Len(g) = n + 1
      /\ \A j \in 1 .. n + 1 : g[j] = [event |-> s[j].event, sequence |-> s[j].sequence]
  BY <1>2, <1>4, HashIs
<1>6. g[n + 1] = x
  BY <1>5
<1> HIDE DEF x
<1>7. PICK a : a = Append(h, x)
  OBVIOUS
<1>8. IsSeq(a) /\ Len(a) = n + 1 /\ (\A j \in 1 .. n : a[j] = h[j]) /\ a[n + 1] = x
  BY <1>3, <1>7, AppendIs
<1>9. \A j \in 1 .. n + 1 : g[j] = a[j]
  BY <1>3, <1>5, <1>6, <1>8
<1>10. g = a
  BY <1>5, <1>8, <1>9, SameSeq
<1> QED
  BY <1>1, <1>2, <1>7, <1>10 DEF x

Commits ==
    /\ batch # <<>> /\ batch' = <<>>
    /\ rows' = rows \o Inserted /\ log' = log \o Inserted
    /\ head' = [hash |-> Chained(Len(batch)), sequence |-> Last(batch).sequence]
    /\ sink' = [sink EXCEPT !.settled = @ + Len(batch), !.last_hash = Chained(Len(batch))]
    /\ emitted' = emitted \ {batch[i].event : i \in DOMAIN batch}
    /\ UNCHANGED <<boundary, flushes>>

(* The log after a commit: as before, and then the batch. *)
LEMMA CommitLog ==
    ASSUME Database, Writer, Alive, Commits
    PROVE  /\ IsSeq(log') /\ Len(log') = Len(log) + Len(batch) /\ Len(batch) \in Nat \ {0}
           /\ \A i \in 1 .. Len(log) : log'[i] = log[i]
           /\ \A i \in 1 .. Len(batch) :
                 /\ log'[Len(log) + i].event = batch[i].event
                 /\ log'[Len(log) + i].sequence = batch[i].sequence
                 /\ log'[Len(log) + i].rowid = Len(log) + i
                 /\ log'[Len(log) + i].hash = Chained(i)
                 /\ Chained(i) = Hash(log', Len(log) + i)
<1>1. /\ IsSeq(batch) /\ Len(batch) \in Nat \ {0} /\ IsSeq(log) /\ Len(log) \in Nat
      /\ log' = log \o Inserted
  BY SeqDomain, EmptyIs, LogFacts DEF Writer, Commits
<1>2. IsSeq(Inserted) /\ Len(Inserted) = Len(batch)
  BY InsertedFacts
<1>3. /\ IsSeq(log') /\ Len(log') = Len(log) + Len(batch)
      /\ \A i \in 1 .. Len(log) : log'[i] = log[i]
      /\ \A i \in 1 .. Len(batch) : log'[Len(log) + i] = Inserted[i]
  <2>1. PICK x : x = Inserted
    OBVIOUS
  <2>2. IsSeq(log) /\ IsSeq(x) /\ Len(x) = Len(batch)
    BY <1>1, <1>2, <2>1
  <2>3. /\ IsSeq(log \o x) /\ Len(log \o x) = Len(log) + Len(x)
        /\ \A i \in 1 .. Len(log) : (log \o x)[i] = log[i]
        /\ \A i \in 1 .. Len(x) : (log \o x)[Len(log) + i] = x[i]
    BY <2>2, CatIs
  <2>4. log' = log \o x
    BY <1>1, <2>1
  <2>5. /\ IsSeq(log') /\ Len(log') = Len(log) + Len(x)
        /\ \A i \in 1 .. Len(log) : log'[i] = log[i]
        /\ \A i \in 1 .. Len(x) : log'[Len(log) + i] = x[i]
    BY <2>3, <2>4
  <2> QED
    BY <2>1, <2>2, <2>5
<1>4. ASSUME NEW i \in 1 .. Len(batch)
      PROVE  /\ log'[Len(log) + i].event = batch[i].event
             /\ log'[Len(log) + i].sequence = batch[i].sequence
             /\ log'[Len(log) + i].rowid = Len(log) + i
             /\ log'[Len(log) + i].hash = Chained(i)
  <2>1. log'[Len(log) + i] = Inserted[i]
    BY <1>3
  <2>2. Inserted[i] = [event |-> batch[i].event, sequence |-> batch[i].sequence,
                       rowid |-> Len(log) + i, hash |-> Chained(i)]
    BY InsertedFacts
  <2> QED
    BY <2>1, <2>2
<1>5. ASSUME NEW i \in 1 .. Len(batch)
      PROVE  Chained(i) = Hash(log', Len(log) + i)
  <2>1. PICK h : h = Hash(log, Len(log))
    OBVIOUS
  <2>2. sink.last_hash = h
    BY <2>1 DEF Writer, Database
  <2>3. /\ IsSeq(h) /\ Len(h) = Len(log)
        /\ \A j \in 1 .. Len(log) : h[j] = [event |-> log[j].event, sequence |-> log[j].sequence]
    BY <1>1, <2>1, HashIs
  <2>4. PICK b : b = SubSeq(batch, 1, i)
    OBVIOUS
  <2>5. i \in Nat /\ i <= Len(batch)
    BY <1>1
  <2>6. IsSeq(b) /\ Len(b) = i /\ \A j \in 1 .. i : b[j] = batch[j]
    <3>1. 1 \in Nat \ {0} /\ 1 <= i + 1
      BY <2>5
    <3>2. /\ IsSeq(SubSeq(batch, 1, i)) /\ Len(SubSeq(batch, 1, i)) = i - 1 + 1
          /\ \A j \in 1 .. i - 1 + 1 : SubSeq(batch, 1, i)[j] = batch[1 + j - 1]
      BY <1>1, <2>5, <3>1, SubIs
    <3>3. i - 1 + 1 = i /\ \A j \in 1 .. i : 1 + j - 1 = j
      BY <2>5
    <3> QED
      BY <2>4, <3>2, <3>3
  <2>7. PICK c : c = h \o b
    OBVIOUS
  <2>8. /\ IsSeq(c) /\ Len(c) = Len(log) + i
        /\ \A j \in 1 .. Len(log) : c[j] = h[j]
        /\ \A j \in 1 .. i : c[Len(log) + j] = b[j]
    <3>1. IsSeq(h) /\ IsSeq(b)
      BY <2>3, <2>6
    <3>2. /\ IsSeq(c) /\ Len(c) = Len(h) + Len(b)
          /\ \A j \in 1 .. Len(h) : c[j] = h[j]
          /\ \A j \in 1 .. Len(b) : c[Len(h) + j] = b[j]
      BY <2>7, <3>1, CatIs
    <3> QED
      BY <2>3, <2>6, <3>2
  <2>9. PICK g : g = Hash(log', Len(log) + i)
    OBVIOUS
  <2>10. /\ IsSeq(g) /\ Len(g) = Len(log) + i
         /\ \A j \in 1 .. Len(log) + i :
               g[j] = [event |-> log'[j].event, sequence |-> log'[j].sequence]
    <3>1. Len(log) + i \in Nat
      BY <1>1, <2>5
    <3> QED
      BY <2>9, <3>1, HashIs
  <2>11. ASSUME NEW j \in 1 .. Len(log) PROVE c[j] = g[j]
    <3>1. j \in 1 .. Len(log) + i
      BY <1>1, <2>5
    <3>2. g[j] = [event |-> log[j].event, sequence |-> log[j].sequence]
      BY <1>3, <2>10, <3>1
    <3> QED
      BY <2>3, <2>8, <3>2
  <2>12. ASSUME NEW k \in 1 .. i PROVE c[Len(log) + k] = g[Len(log) + k]
    <3>1. Len(log) + k \in 1 .. Len(log) + i /\ k \in 1 .. Len(batch)
      BY <1>1, <2>5
    <3>2. g[Len(log) + k] = [event |-> batch[k].event, sequence |-> batch[k].sequence]
      BY <1>4, <2>10, <3>1
    <3>3. batch[k] = [event |-> batch[k].event, sequence |-> batch[k].sequence]
      <4>1. k \in 1 .. Len(Pipe) /\ Pipe[k] = batch[k]
        BY <3>1, PipeFacts
      <4> QED
        BY <4>1 DEF Writer, Numbered
    <3> QED
      BY <2>6, <2>8, <3>2, <3>3
  <2>13. \A j \in 1 .. Len(c) : c[j] = g[j]
    <3> SUFFICES ASSUME NEW j \in 1 .. Len(c) PROVE c[j] = g[j]
      OBVIOUS
    <3>1. CASE j <= Len(log)
      BY <1>1, <2>8, <2>11, <3>1
    <3>2. CASE j > Len(log)
      <4>1. j - Len(log) \in 1 .. i /\ Len(log) + (j - Len(log)) = j
        BY <1>1, <2>5, <2>8, <3>2
      <4> QED
        BY <2>12, <4>1
    <3> QED
      BY <1>1, <2>5, <2>8, <3>1, <3>2
  <2>14. c = g
    BY <2>8, <2>10, <2>13, SameSeq
  <2> QED
    BY <2>2, <2>4, <2>7, <2>9, <2>14 DEF Chained
<1> QED
  BY <1>1, <1>3, <1>4, <1>5

(* The chain goes on. *)
LEMMA CommitChain ==
    ASSUME Database, Writer, Alive, Commits
    PROVE  Chain(log')
<1>1. /\ IsSeq(log') /\ Len(log') = Len(log) + Len(batch) /\ Len(batch) \in Nat \ {0}
      /\ \A i \in 1 .. Len(log) : log'[i] = log[i]
  BY CommitLog
<1>2. /\ Len(log) \in Nat /\ head.sequence \in Int
      /\ \A i \in 1 .. Len(log) : log[i].sequence \in Int /\ log[i].sequence <= head.sequence
  BY LogFacts
<1>3. ASSUME NEW i \in 1 .. Len(batch)
      PROVE  /\ batch[i].sequence \in Int /\ head.sequence < batch[i].sequence
             /\ \A j \in 1 .. Len(batch) : i < j => batch[i].sequence < batch[j].sequence
  <2>1. \A k \in 1 .. Len(batch) : k \in 1 .. Len(Pipe) /\ Pipe[k] = batch[k]
    BY <1>1, PipeFacts
  <2>2. Numbered(Pipe, head.sequence, sink.next_sequence)
    BY DEF Writer
  <2>3. i \in 1 .. Len(Pipe) /\ Pipe[i] = batch[i]
    BY <2>1
  <2>4. /\ Pipe[i].sequence \in Int /\ head.sequence < Pipe[i].sequence
        /\ \A j \in 1 .. Len(Pipe) : i < j => Pipe[i].sequence < Pipe[j].sequence
    BY <2>2, <2>3 DEF Numbered
  <2> QED
    BY <2>1, <2>3, <2>4
<1>4. head.sequence >= -1
  BY <1>2, LogFacts DEF Database, Chain, NumberAt
<1>5. ASSUME NEW i \in 1 .. Len(log)
      PROVE  /\ log'[i].rowid = i /\ log'[i].sequence \in Int /\ log'[i].sequence > -1
             /\ log'[i].hash = Hash(log', i)
             /\ \A j \in 1 .. Len(log) : i < j => log'[i].sequence < log'[j].sequence
             /\ log'[i].sequence <= head.sequence
  <2>1. /\ log[i].rowid = i /\ log[i].sequence \in Int /\ log[i].sequence > -1
        /\ log[i].hash = Hash(log, i)
        /\ \A j \in 1 .. Len(log) : i < j => log[i].sequence < log[j].sequence
    BY DEF Database, Chain
  <2>2. Hash(log, i) = Hash(log', i)
    <3>1. i \in Nat /\ \A j \in 1 .. i : j \in 1 .. Len(log)
      BY <1>2
    <3> QED
      BY <1>1, <3>1, HashSame
  <2> QED
    BY <1>1, <1>2, <2>1, <2>2
<1>6. ASSUME NEW k \in 1 .. Len(batch)
      PROVE  LET i == Len(log) + k
             IN  /\ log'[i].rowid = i /\ log'[i].sequence \in Int /\ log'[i].sequence > -1
                 /\ log'[i].hash = Hash(log', i)
                 /\ log'[i].sequence = batch[k].sequence
                 /\ log'[i].sequence > head.sequence
  BY <1>2, <1>3, <1>4, CommitLog
<1>7. ASSUME NEW i \in 1 .. Len(log')
      PROVE  i \in 1 .. Len(log) \/ \E k \in 1 .. Len(batch) : i = Len(log) + k
  <2>1. CASE i <= Len(log)
    BY <1>2, <2>1
  <2>2. CASE i > Len(log)
    <3>1. i - Len(log) \in 1 .. Len(batch) /\ i = Len(log) + (i - Len(log))
      BY <1>1, <1>2, <2>2
    <3> QED
      BY <3>1
  <2> QED
    BY <1>1, <1>2, <2>1, <2>2
<1>8. ASSUME NEW i \in 1 .. Len(log')
      PROVE  /\ log'[i].rowid = i /\ log'[i].sequence \in Int /\ log'[i].sequence > -1
             /\ log'[i].hash = Hash(log', i)
  BY <1>5, <1>6, <1>7
<1>9. ASSUME NEW i \in 1 .. Len(log'), NEW j \in 1 .. Len(log'), i < j
      PROVE  log'[i].sequence < log'[j].sequence
  <2>1. CASE j \in 1 .. Len(log)
    <3>1. i \in 1 .. Len(log)
      BY <1>2, <1>9, <2>1
    <3> QED
      BY <1>5, <1>9, <2>1, <3>1
  <2>2. ASSUME NEW m \in 1 .. Len(batch), j = Len(log) + m
        PROVE  log'[i].sequence < log'[j].sequence
    <3>1. log'[j].sequence > head.sequence /\ log'[j].sequence = batch[m].sequence
          /\ log'[j].sequence \in Int
      BY <1>6, <2>2
    <3>2. CASE i \in 1 .. Len(log)
      BY <1>2, <1>5, <3>1, <3>2
    <3>3. ASSUME NEW k \in 1 .. Len(batch), i = Len(log) + k
          PROVE  log'[i].sequence < log'[j].sequence
      <4>1. k < m /\ log'[i].sequence = batch[k].sequence
        BY <1>2, <1>6, <1>9, <2>2, <3>3
      <4> QED
        BY <1>3, <3>1, <4>1
    <3> QED
      BY <1>7, <3>2, <3>3
  <2> QED
    BY <1>7, <2>1, <2>2
<1> QED
  BY <1>1, <1>8, <1>9 DEF Chain

(* The tables after a commit. *)
LEMMA CommitDatabase ==
    ASSUME Database, Writer, Alive, Commits
    PROVE  Database'
<1>1. /\ IsSeq(log') /\ Len(log') = Len(log) + Len(batch) /\ Len(batch) \in Nat \ {0}
      /\ \A i \in 1 .. Len(log) : log'[i] = log[i]
  BY CommitLog
<1>2. /\ IsSeq(rows) /\ Len(log) \in Nat /\ Len(rows) \in Nat
      /\ boundary.rowid \in Nat /\ Len(log) = boundary.rowid + Len(rows)
      /\ \A i \in 1 .. Len(rows) : boundary.rowid + i \in 1 .. Len(log) /\ rows[i] = log[boundary.rowid + i]
  BY LogFacts
<1>3. PICK x : x = Inserted
  OBVIOUS
<1>4. IsSeq(x) /\ Len(x) = Len(batch) /\ log' = log \o x /\ rows' = rows \o x
  BY <1>3, InsertedFacts DEF Commits
<1>5. /\ IsSeq(rows') /\ Len(rows') = Len(rows) + Len(x)
      /\ \A i \in 1 .. Len(rows) : rows'[i] = rows[i]
      /\ \A i \in 1 .. Len(rows') : i > Len(rows) => rows'[i] = x[i - Len(rows)]
  <2>1. IsSeq(rows) /\ IsSeq(x)
    BY <1>2, <1>4
  <2>2. /\ IsSeq(rows \o x) /\ Len(rows \o x) = Len(rows) + Len(x)
        /\ \A i \in 1 .. Len(rows) : (rows \o x)[i] = rows[i]
        /\ \A i \in 1 .. Len(rows \o x) : i > Len(rows) => (rows \o x)[i] = x[i - Len(rows)]
    BY <2>1, CatIs
  <2> QED
    BY <1>4, <2>2
<1>6. \A i \in 1 .. Len(x) : log'[Len(log) + i] = x[i]
  <2>1. IsSeq(log) /\ IsSeq(x)
    BY <1>4, LogFacts
  <2>2. \A i \in 1 .. Len(x) : (log \o x)[Len(log) + i] = x[i]
    BY <2>1, CatIs
  <2> QED
    BY <1>4, <2>2
<1>7. ASSUME NEW i \in 1 .. Len(rows') PROVE rows'[i] = log'[boundary.rowid + i]
  <2>1. CASE i <= Len(rows)
    <3>1. i \in 1 .. Len(rows)
      BY <1>2, <2>1
    <3> QED
      BY <1>1, <1>2, <1>5, <3>1
  <2>2. CASE i > Len(rows)
    <3>1. i - Len(rows) \in 1 .. Len(x) /\ Len(log) + (i - Len(rows)) = boundary.rowid + i
      BY <1>1, <1>2, <1>4, <1>5, <2>2
    <3> QED
      BY <1>5, <1>6, <2>2, <3>1
  <2>3. i \in Int /\ Len(rows) \in Int
    BY <1>2
  <2> QED
    BY <2>1, <2>2, <2>3
<1>8. Len(log') = boundary.rowid + Len(rows')
  BY <1>1, <1>2, <1>4, <1>5
<1>9. boundary' = boundary
  BY DEF Commits
<1>10. Rest(log', rows', boundary'.rowid)
  BY <1>2, <1>5, <1>7, <1>8, <1>9 DEF Rest
<1>11. /\ Hash(log', boundary.rowid) = Hash(log, boundary.rowid)
       /\ NumberAt(log', boundary.rowid) = NumberAt(log, boundary.rowid)
  <2>1. \A j \in 1 .. boundary.rowid : j \in 1 .. Len(log)
    BY <1>2
  <2>2. \A j \in 1 .. boundary.rowid : log'[j] = log[j]
    BY <1>1, <2>1
  <2>3. boundary.rowid # 0 => boundary.rowid \in 1 .. boundary.rowid
    BY <1>2
  <2> QED
    BY <1>2, <2>2, <2>3, HashSame DEF NumberAt
<1>12. /\ boundary' = [hash |-> Hash(log', boundary'.rowid), sequence |-> NumberAt(log', boundary'.rowid),
                       high |-> boundary'.high, rowid |-> boundary'.rowid]
       /\ boundary'.high \in Int
  <2>1. /\ boundary = [hash |-> Hash(log, boundary.rowid), sequence |-> NumberAt(log, boundary.rowid),
                       high |-> boundary.high, rowid |-> boundary.rowid]
        /\ boundary.high \in Int
    BY DEF Database
  <2> QED
    BY <1>9, <1>11, <2>1
<1>13. head' = [hash |-> Hash(log', Len(log')), sequence |-> NumberAt(log', Len(log'))]
  <2>1. Len(batch) \in 1 .. Len(batch)
    BY <1>1
  <2>2. Chained(Len(batch)) = Hash(log', Len(log')) /\ log'[Len(log')].sequence = batch[Len(batch)].sequence
    BY <1>1, <2>1, CommitLog
  <2>3. Len(log') # 0
    BY <1>1, <1>2
  <2>4. head' = [hash |-> Chained(Len(batch)), sequence |-> batch[Len(batch)].sequence]
    BY DEF Commits, Last
  <2> QED
    BY <2>2, <2>3, <2>4 DEF NumberAt
<1> QED
  BY <1>10, <1>12, <1>13, CommitChain DEF Database

(* The writer and the barrier after a commit. *)
LEMMA CommitWriter ==
    ASSUME Database, Writer, Barrier, Alive, Commits
    PROVE  Writer' /\ Barrier'
<1>1. /\ SinkShape /\ IsSeq(sink.queue) /\ Len(sink.queue) \in Nat /\ Len(batch) \in Nat
      /\ DOMAIN batch = 1 .. Len(batch)
  BY SeqDomain DEF Writer
<1>2. sink' = [sink EXCEPT !.settled = @ + Len(batch), !.last_hash = Chained(Len(batch))]
  BY DEF Commits
<1>3. sink.settled \in Nat /\ sink.settled + Len(batch) \in Nat
  BY <1>1 DEF SinkShape
<1>4. /\ SinkShape' /\ sink'.queue = sink.queue /\ sink'.next_sequence = sink.next_sequence
      /\ sink'.last_hash = Chained(Len(batch)) /\ sink'.phase = sink.phase
      /\ sink'.accepted = sink.accepted /\ sink'.settled = sink.settled + Len(batch)
      /\ sink'.failure = sink.failure
  BY <1>1, <1>2, <1>3 DEF SinkShape
<1>5. batch' = <<>> /\ batch # <<>>
  BY DEF Commits
<1>6. Pipe' = sink.queue
  BY <1>1, <1>4, <1>5, CatEmpty DEF Pipe
<1>7. /\ head'.hash = Chained(Len(batch)) /\ head'.sequence = batch[Len(batch)].sequence
  BY DEF Commits, Last
<1>8. Numbered(Pipe', head'.sequence, sink'.next_sequence)
  BY <1>4, <1>5, <1>6, <1>7, QueueNumbered
<1>9. head'.sequence < sink'.next_sequence
  <2>1. Len(batch) # 0
    BY <1>1, <1>5, EmptyIs DEF Writer
  <2>2. Len(batch) \in 1 .. Len(batch) /\ Len(batch) \in 1 .. Len(Pipe)
    BY <1>1, <2>1, PipeFacts
  <2>3. Pipe[Len(batch)] = batch[Len(batch)]
    BY <2>2, PipeFacts
  <2>4. Pipe[Len(batch)].sequence < sink.next_sequence
    BY <2>2 DEF Writer, Numbered
  <2> QED
    BY <1>4, <1>7, <2>3, <2>4
<1>10. Writer'
  BY <1>1, <1>4, <1>5, <1>6, <1>7, <1>8, <1>9, EmptyIs DEF Writer, Alive
<1>11. Len(Pipe) = Len(batch) + Len(sink.queue)
  BY PipeFacts
<1>12. sink.accepted = sink.settled + Len(Pipe) /\ flushes' = flushes
  BY DEF Barrier, Commits
<1>13. sink'.accepted = sink'.settled + Len(Pipe')
  BY <1>1, <1>3, <1>4, <1>6, <1>11, <1>12
<1>14. \A e \in Committed : e \in Committed'
  <2>1. ASSUME NEW i \in DOMAIN log PROVE i \in DOMAIN log' /\ log'[i] = log[i]
    <3>1. /\ IsSeq(log') /\ Len(log') = Len(log) + Len(batch)
          /\ \A k \in 1 .. Len(log) : log'[k] = log[k]
      BY CommitLog
    <3>2. IsSeq(log) /\ DOMAIN log = 1 .. Len(log) /\ Len(log) \in Nat /\ DOMAIN log' = 1 .. Len(log')
      BY <3>1, SeqDomain, LogFacts
    <3> QED
      BY <1>1, <3>1, <3>2
  <2> QED
    BY <2>1 DEF Committed
<1>15. ASSUME NEW k \in 1 .. Len(batch) PROVE batch[k].event \in Committed'
  <2>1. /\ IsSeq(log') /\ Len(log') = Len(log) + Len(batch)
        /\ log'[Len(log) + k].event = batch[k].event
    BY CommitLog
  <2>2. Len(log) \in Nat /\ DOMAIN log' = 1 .. Len(log')
    BY <2>1, SeqDomain, LogFacts
  <2>3. Len(log) + k \in DOMAIN log'
    BY <1>1, <2>1, <2>2
  <2> QED
    BY <2>1, <2>3 DEF Committed
<1>16. ASSUME NEW e, NEW n \in Int, NEW m, m = n - Len(batch), InPipe(e, n)
       PROVE  \/ \E k \in 1 .. Len(batch) : batch[k].event = e
              \/ InPipe(e, m)'
  <2>1. PICK k \in 1 .. Len(Pipe) : k <= n /\ Pipe[k].event = e
    BY <1>16 DEF InPipe
  <2>2. CASE k <= Len(batch)
    <3>1. k \in 1 .. Len(batch)
      BY <1>1, <2>2
    <3>2. Pipe[k] = batch[k]
      BY <3>1, PipeFacts
    <3> QED
      BY <2>1, <3>1, <3>2
  <2>3. CASE k > Len(batch)
    <3>1. Pipe[k] = sink.queue[k - Len(batch)]
      BY <2>3, PipeFacts
    <3>2. k - Len(batch) \in 1 .. Len(sink.queue) /\ k - Len(batch) <= m
      BY <1>1, <1>11, <1>16, <2>1, <2>3
    <3> QED
      BY <1>6, <2>1, <3>1, <3>2 DEF InPipe
  <2>4. k \in Int /\ Len(batch) \in Int
    BY <1>1
  <2> QED
    BY <2>2, <2>3, <2>4
<1>17. ASSUME NEW e \in emitted', sink.failure = FALSE PROVE InPipe(e, Len(Pipe))'
  <2>1. e \in emitted /\ \A k \in 1 .. Len(batch) : batch[k].event # e
    BY <1>1, <1>17 DEF Commits
  <2>2. InPipe(e, Len(Pipe))
    BY <1>17, <2>1 DEF Barrier
  <2>3. Len(Pipe) \in Int /\ Len(Pipe') = Len(Pipe) - Len(batch)
    BY <1>1, <1>6, <1>11
  <2>4. PICK m : m = Len(Pipe) - Len(batch)
    OBVIOUS
  <2>5. InPipe(e, m)'
    BY <1>16, <2>1, <2>2, <2>3, <2>4
  <2> QED
    BY <2>3, <2>4, <2>5 DEF InPipe
<1>18. ASSUME flushes[Pump].phase = "Waiting", sink.failure = FALSE, NEW e \in flushes[Pump].covers
       PROVE  e \in Committed' \/ InPipe(e, flushes[Pump].target - sink.settled)'
  <2>1. e \in Committed \/ InPipe(e, flushes[Pump].target - sink.settled)
    BY <1>18 DEF Barrier
  <2>2. flushes[Pump].target \in Nat
    BY DEF Barrier
  <2>3. PICK m : m = (flushes[Pump].target - sink.settled) - Len(batch)
    OBVIOUS
  <2>4. (flushes[Pump].target - sink.settled)' = m
    BY <1>1, <1>3, <1>4, <1>12, <2>2, <2>3
  <2>5. flushes[Pump].target - sink.settled \in Int
    BY <1>3, <2>2
  <2>6. CASE InPipe(e, flushes[Pump].target - sink.settled)
    <3>1. (\E k \in 1 .. Len(batch) : batch[k].event = e) \/ InPipe(e, m)'
      BY <1>16, <2>3, <2>5, <2>6
    <3> QED
      BY <1>15, <2>4, <3>1 DEF InPipe
  <2> QED
    BY <1>14, <2>1, <2>6
<1>19. sink.failure \in BOOLEAN
  BY <1>1 DEF SinkShape
<1>20. Barrier'
  BY <1>4, <1>12, <1>13, <1>17, <1>18, <1>19 DEF Barrier
<1> QED
  BY <1>10, <1>20

-----------------------------------------------------------------------------
(* Retention, and opening. *)

(* A set with a greatest element has it as its maximum. *)
LEMMA MaxIs ==
    ASSUME NEW S, NEW m \in S, \A y \in S : m >= y
    PROVE  Max(S) \in S /\ \A y \in S : Max(S) >= y
BY DEF Max

(* The boundary moves up to a row, and the rows beyond it stay. *)
LEMMA PrunedDatabase ==
    ASSUME Database, NEW n \in 0 .. Len(rows), Pruned(n), UNCHANGED <<head, log>>
    PROVE  Database' /\ boundary'.rowid \in Nat /\ boundary.rowid <= boundary'.rowid
<1>1. /\ IsSeq(log) /\ IsSeq(rows) /\ Len(log) \in Nat /\ Len(rows) \in Nat
      /\ boundary.rowid \in Nat /\ Len(log) = boundary.rowid + Len(rows)
      /\ \A i \in 1 .. Len(rows) : boundary.rowid + i \in 1 .. Len(log) /\ rows[i] = log[boundary.rowid + i]
      /\ \A i \in 1 .. Len(log) : log[i].sequence \in Int /\ log[i].sequence <= head.sequence
  BY LogFacts
<1>2. rows' = SubSeq(rows, n + 1, Len(rows))
  BY DEF Pruned
<1>3. /\ IsSeq(rows') /\ Len(rows') = Len(rows) - n
      /\ \A i \in 1 .. Len(rows) - n : rows'[i] = rows[n + i]
  <2>1. n + 1 \in Nat \ {0} /\ n + 1 <= Len(rows) + 1
    BY <1>1
  <2>2. /\ IsSeq(SubSeq(rows, n + 1, Len(rows)))
        /\ Len(SubSeq(rows, n + 1, Len(rows))) = Len(rows) - (n + 1) + 1
        /\ \A i \in 1 .. Len(rows) - (n + 1) + 1 : SubSeq(rows, n + 1, Len(rows))[i] = rows[(n + 1) + i - 1]
    BY <1>1, <2>1, SubIs
  <2>3. Len(rows) - (n + 1) + 1 = Len(rows) - n /\ \A i \in 1 .. Len(rows) - n : (n + 1) + i - 1 = n + i
    BY <1>1
  <2> QED
    BY <1>2, <2>2, <2>3
<1>4. CASE n = 0
  <2>1. boundary' = boundary
    BY <1>4 DEF Pruned
  <2>2. rows' = rows
    <3>1. Len(rows') = Len(rows) /\ \A i \in 1 .. Len(rows') : rows'[i] = rows[i]
      BY <1>1, <1>3, <1>4
    <3> QED
      BY <1>1, <1>3, <3>1, SameSeq
  <2> QED
    BY <1>1, <2>1, <2>2, DatabaseStays
<1>5. CASE n # 0
  <2> DEFINE S == {boundary.high} \cup {rows[i].sequence : i \in 1 .. n}
  <2>1. boundary' = [hash |-> rows[n].hash, sequence |-> rows[n].sequence,
                     high |-> Max(S), rowid |-> rows[n].rowid]
    BY <1>5 DEF Pruned
  <2>2. n \in 1 .. Len(rows) /\ boundary.rowid + n \in 1 .. Len(log) /\ rows[n] = log[boundary.rowid + n]
    BY <1>1, <1>5
  <2>3. /\ rows[n].hash = Hash(log, boundary.rowid + n) /\ rows[n].rowid = boundary.rowid + n
        /\ rows[n].sequence \in Int
    BY <2>2 DEF Database, Chain
  <2>4. Max(S) \in Int
    <3>1. boundary.high \in Int
      BY DEF Database
    <3>2. ASSUME NEW i \in 1 .. n PROVE rows[i].sequence \in Int /\ rows[i].sequence <= rows[n].sequence
      <4>1. /\ i \in 1 .. Len(rows) /\ boundary.rowid + i \in 1 .. Len(log)
            /\ rows[i] = log[boundary.rowid + i]
        BY <1>1
      <4>2. CASE i = n
        BY <2>3, <4>2
      <4>3. CASE i # n
        <5>1. boundary.rowid + i < boundary.rowid + n
          BY <1>1, <4>3
        <5>2. log[boundary.rowid + i].sequence < log[boundary.rowid + n].sequence
          BY <2>2, <4>1, <5>1 DEF Database, Chain
        <5>3. log[boundary.rowid + i].sequence \in Int
          BY <1>1, <4>1
        <5>4. rows[i].sequence < rows[n].sequence
          BY <2>2, <4>1, <5>2
        <5> QED
          BY <2>3, <4>1, <5>3, <5>4
      <4> QED
        BY <4>2, <4>3
    <3>3. S \subseteq Int
      BY <3>1, <3>2
    <3>4. \E m \in S : \A y \in S : m >= y
      <4>1. CASE boundary.high >= rows[n].sequence
        <5>1. \A y \in S : boundary.high >= y
          BY <2>3, <3>1, <3>2, <4>1
        <5> QED
          BY <5>1
      <4>2. CASE boundary.high < rows[n].sequence
        <5>1. \A y \in S : rows[n].sequence >= y
          BY <2>3, <3>1, <3>2, <4>2
        <5>2. rows[n].sequence \in S
          BY <1>1, <1>5
        <5> QED
          BY <5>1, <5>2
      <4>3. boundary.high >= rows[n].sequence \/ boundary.high < rows[n].sequence
        BY <2>3, <3>1
      <4> HIDE DEF S
      <4> QED
        BY <4>1, <4>2, <4>3
    <3> HIDE DEF S
    <3> QED
      BY <3>3, <3>4, MaxIs
  <2> HIDE DEF S
  <2>5. boundary'.rowid = boundary.rowid + n /\ boundary'.high = Max(S)
    BY <2>1, <2>3
  <2>6. NumberAt(log, boundary.rowid + n) = rows[n].sequence
    BY <1>1, <2>2 DEF NumberAt
  <2>7. boundary' = [hash |-> Hash(log, boundary'.rowid), sequence |-> NumberAt(log, boundary'.rowid),
                     high |-> boundary'.high, rowid |-> boundary'.rowid]
    BY <2>1, <2>3, <2>5, <2>6
  <2>8. Rest(log, rows', boundary'.rowid)
    <3>1. ASSUME NEW i \in 1 .. Len(rows') PROVE rows'[i] = log[boundary'.rowid + i]
      <4>1. n + i \in 1 .. Len(rows) /\ boundary.rowid + (n + i) = boundary'.rowid + i
        BY <1>1, <1>3, <2>5
      <4> QED
        BY <1>1, <1>3, <4>1
    <3>2. boundary'.rowid \in Nat /\ Len(log) = boundary'.rowid + Len(rows')
      BY <1>1, <1>3, <2>5
    <3> QED
      BY <1>3, <3>1, <3>2 DEF Rest
  <2>9. Database'
    BY <2>4, <2>5, <2>7, <2>8 DEF Database
  <2> QED
    BY <1>1, <2>5, <2>9
<1> QED
  BY <1>4, <1>5

(* SqliteAuditSink::new resumes beyond the head. *)
LEMMA OpenWriter ==
    ASSUME Database, Writer, Barrier, NEW n \in 0 .. Len(rows), Open(n)
    PROVE  Writer' /\ Barrier'
<1> DEFINE S == {rows[i].sequence : i \in DOMAIN rows} \cup {head.sequence, boundary.high}
<1>1. /\ sink.phase = "down"
      /\ sink' = [sink EXCEPT !.phase = "up", !.next_sequence = Max(S) + 1, !.last_hash = head.hash]
      /\ UNCHANGED <<head, batch, flushes, emitted, log>>
  BY DEF Open
<1>2. /\ IsSeq(rows) /\ Len(rows) \in Nat /\ head.sequence \in Int /\ boundary.high \in Int
      /\ DOMAIN rows = 1 .. Len(rows)
      /\ \A i \in 1 .. Len(rows) : rows[i].sequence \in Int /\ rows[i].sequence <= head.sequence
  BY LogFacts, SeqDomain DEF Database
<1>3. Max(S) \in Int /\ head.sequence <= Max(S)
  <2>1. S \subseteq Int /\ head.sequence \in S
    BY <1>2
  <2>2. \E m \in S : \A y \in S : m >= y
    <3>1. CASE boundary.high >= head.sequence
      <4>1. \A y \in S : boundary.high >= y
        BY <1>2, <3>1
      <4> QED
        BY <4>1
    <3>2. CASE boundary.high < head.sequence
      <4>1. \A y \in S : head.sequence >= y
        BY <1>2, <3>2
      <4> QED
        BY <4>1
    <3> QED
      BY <1>2, <3>1, <3>2
  <2> HIDE DEF S
  <2>3. Max(S) \in S /\ Max(S) >= head.sequence
    BY <2>1, <2>2, MaxIs
  <2> QED
    BY <1>2, <2>1, <2>3
<1> HIDE DEF S
<1>4. SinkShape
  BY DEF Writer
<1>5. /\ SinkShape' /\ sink'.queue = sink.queue /\ sink'.next_sequence = Max(S) + 1
      /\ sink'.last_hash = head.hash /\ sink'.phase = "up"
      /\ sink'.accepted = sink.accepted /\ sink'.settled = sink.settled
      /\ sink'.failure = sink.failure /\ sink'.failure \in BOOLEAN
  <2>1. Max(S) + 1 \in Int
    BY <1>3
  <2> QED
    BY <1>1, <1>4, <2>1 DEF SinkShape
<1>6. Pipe' = Pipe /\ Pipe = <<>>
  BY <1>1, <1>5 DEF Pipe, Writer, Alive
<1>7. Numbered(<<>>, head.sequence, Max(S) + 1)
  BY EmptyIs DEF Numbered
<1>8. head.sequence < Max(S) + 1
  BY <1>2, <1>3
<1>9. Writer'
  BY <1>1, <1>5, <1>6, <1>7, <1>8 DEF Writer, Alive
<1>10. Barrier'
  BY <1>1, <1>5, <1>6, BarrierMoves
<1> QED
  BY <1>9, <1>10

-----------------------------------------------------------------------------
(* Steps of the sink. *)

Untouched == /\ UNCHANGED <<saved, pump, delivered>>

(* A step that writes neither the tables nor the pump's state. *)
LEMMA SinkOnly ==
    ASSUME IInv, UNCHANGED <<rows, boundary, head, log, saved, pump, delivered>>, Writer', Barrier'
    PROVE  IInv'
BY DatabaseStays, ExportSame DEF IInv

(* emit *)
LEMMA EmitStep ==
    ASSUME IInv, NEW kind, Emit(kind), Untouched
    PROVE  IInv'
<1> DEFINE id == <<kind, issued>>
           full == sink.phase = "up" /\ ~Accepts
           d == Enqueued(id).dropped \/ full
<1>1. /\ sink' = [Enqueued(id) EXCEPT !.dropped = d] /\ emitted' = emitted \cup {id}
      /\ Alive /\ UNCHANGED <<rows, boundary, head, batch, flushes, log>>
  BY DEF Emit, EmitEvent, database
<1>2. d \in BOOLEAN
  OBVIOUS
<1> HIDE DEF id, d
<1>3. Writer' /\ Barrier'
  BY <1>1, <1>2, EnqueueStep DEF IInv
<1> QED
  BY <1>1, <1>3, SinkOnly DEF Untouched

(* report_drops *)
LEMMA ReportStep ==
    ASSUME IInv, ReportDrops, Untouched
    PROVE  IInv'
<1> DEFINE id == <<"dropped", sink.next_sequence>>
           d == ~Accepts
<1>1. /\ sink' = [Enqueued(id) EXCEPT !.dropped = d]
      /\ emitted' = IF Accepts THEN emitted \cup {id} ELSE emitted
      /\ Alive /\ UNCHANGED <<rows, boundary, head, batch, flushes, log>>
  BY DEF ReportDrops, database, Alive
<1>2. d \in BOOLEAN /\ emitted' \subseteq emitted \cup {id}
  BY <1>1
<1> HIDE DEF id, d
<1>3. Writer' /\ Barrier'
  BY <1>1, <1>2, EnqueueStep DEF IInv
<1> QED
  BY <1>1, <1>3, SinkOnly DEF Untouched

(* The writer takes a batch. *)
LEMMA WriterTakeStep ==
    ASSUME IInv, WriterTake, Untouched
    PROVE  IInv'
<1>1. UNCHANGED <<rows, boundary, head, log>>
  BY DEF WriterTake, database
<1> QED
  BY <1>1, TakeStep, SinkOnly DEF IInv, Untouched

(* A batch is committed, or lost. *)
LEMMA WriterCommitStep ==
    ASSUME IInv, WriterCommit, Untouched
    PROVE  IInv'
<1>1. CASE Commits
  <2>1. Alive
    BY DEF WriterCommit
  <2>2. Database' /\ Writer' /\ Barrier'
    BY <1>1, <2>1, CommitDatabase, CommitWriter DEF IInv
  <2>3. /\ IsSeq(log') /\ Len(log') = Len(log) + Len(batch) /\ Len(batch) \in Nat
        /\ \A i \in 1 .. Len(log) : log'[i] = log[i]
    BY <1>1, <2>1, CommitLog DEF IInv
  <2>4. Len(log) \in Nat /\ boundary.rowid \in Nat
    BY LogFacts DEF IInv
  <2>5. boundary' = boundary
    BY <1>1 DEF Commits
  <2>6. Len(log) <= Len(log') /\ boundary.rowid <= boundary.rowid
    BY <2>3, <2>4
  <2>7. Export'
    BY <2>3, <2>4, <2>5, <2>6, ExportStays DEF IInv, Untouched
  <2> QED
    BY <2>2, <2>7 DEF IInv
<1>2. CASE sink' = BatchFailed /\ UNCHANGED <<rows, head, log>>
  <2>1. Alive /\ batch' = <<>> /\ UNCHANGED <<boundary, flushes>>
    BY DEF WriterCommit
  <2>2. Writer' /\ Barrier'
    BY <1>2, <2>1, FailStep DEF IInv
  <2> QED
    BY <1>2, <2>1, <2>2, SinkOnly DEF Untouched
<1> QED
  BY <1>1, <1>2 DEF WriterCommit, Commits

(* The sink changes its phase, or remembers a failure. *)
LEMMA PhaseStep ==
    ASSUME IInv, RetentionFails \/ Close \/ WriterStops, Untouched
    PROVE  IInv'
<1>0. SinkShape
  BY DEF IInv, Writer
<1>1. /\ Alive /\ UNCHANGED <<rows, boundary, head, batch, flushes, emitted, log>>
      /\ \/ sink' = [sink EXCEPT !.failure = TRUE]
         \/ sink' = [sink EXCEPT !.phase = "closing"]
         \/ sink' = [sink EXCEPT !.phase = "stopped"]
  BY DEF RetentionFails, Close, WriterStops, database, Alive
<1>2. /\ SinkShape' /\ sink'.queue = sink.queue /\ sink'.next_sequence = sink.next_sequence
      /\ sink'.last_hash = sink.last_hash /\ sink'.phase # "down"
      /\ sink'.accepted = sink.accepted /\ sink'.settled = sink.settled
      /\ sink'.failure = FALSE => sink.failure = FALSE
  BY <1>0, <1>1 DEF SinkShape, Alive
<1>3. sink'.failure \in BOOLEAN
  BY <1>2 DEF SinkShape
<1>4. Writer' /\ Pipe' = Pipe
  BY <1>1, <1>2, SinkMoves DEF IInv
<1>5. Barrier'
  BY <1>1, <1>2, <1>3, <1>4, BarrierMoves DEF IInv
<1> QED
  BY <1>1, <1>4, <1>5, SinkOnly DEF Untouched

(* run_retention_cleanup *)
LEMMA RetentionStep ==
    ASSUME IInv, NEW n \in 0 .. Len(rows), Retention(n), Untouched
    PROVE  IInv'
<1>1. Pruned(n) /\ UNCHANGED <<head, sink, batch, flushes, emitted, log>>
  BY DEF Retention
<1>2. Database' /\ boundary'.rowid \in Nat /\ boundary.rowid <= boundary'.rowid
  BY <1>1, PrunedDatabase DEF IInv
<1>3. IsSeq(log) /\ Len(log) \in Nat
  BY LogFacts DEF IInv
<1>4. Export'
  BY <1>1, <1>2, <1>3, ExportStays DEF IInv, Untouched
<1> QED
  BY <1>1, <1>2, <1>4, WriterStays, BarrierStays DEF IInv

(* SqliteAuditSink::new *)
LEMMA OpenStep ==
    ASSUME IInv, NEW n \in 0 .. Len(rows), Open(n), Untouched
    PROVE  IInv'
<1>1. Pruned(n) /\ UNCHANGED <<head, log>>
  BY DEF Open
<1>2. Database' /\ boundary'.rowid \in Nat /\ boundary.rowid <= boundary'.rowid
  BY <1>1, PrunedDatabase DEF IInv
<1>3. IsSeq(log) /\ Len(log) \in Nat
  BY LogFacts DEF IInv
<1>4. Export'
  BY <1>1, <1>2, <1>3, ExportStays DEF IInv, Untouched
<1> QED
  BY <1>2, <1>4, OpenWriter DEF IInv

(* The process ends. *)
LEMMA StopStep ==
    ASSUME IInv, Stop
    PROVE  IInv'
<1>1. /\ sink' = [phase |-> "down", queue |-> <<>>, next_sequence |-> 0, accepted |-> 0,
                  settled |-> 0, failure |-> FALSE, dropped |-> FALSE, last_hash |-> Genesis]
      /\ batch' = <<>> /\ flushes' = [c \in DOMAIN flushes |-> NoFlush] /\ emitted' = {}
      /\ pump' = NoCycle /\ UNCHANGED <<rows, boundary, head, log, saved, delivered>>
  BY DEF Stop, Down, Idle, database
<1>2. /\ SinkShape' /\ sink'.queue = <<>> /\ sink'.phase = "down"
      /\ sink'.accepted = 0 /\ sink'.settled = 0 /\ sink'.failure = FALSE
  BY <1>1 DEF SinkShape
<1>3. Pipe' = <<>> /\ IsSeq(<<>>) /\ Len(<<>>) = 0
  BY <1>1, <1>2, EmptyIs, CatEmpty DEF Pipe
<1>4. Numbered(Pipe', head'.sequence, sink'.next_sequence)
  BY <1>3 DEF Numbered
<1>5. Writer'
  BY <1>1, <1>2, <1>3, <1>4 DEF Writer, Alive
<1>6. Barrier'
  <2>1. flushes' = [c \in {Pump} |-> NoFlush]
    BY <1>1 DEF IInv, Barrier
  <2>2. flushes'[Pump] = NoFlush
    BY <2>1
  <2>3. NoFlush.target \in Nat /\ NoFlush.phase # "Waiting"
    BY DEF NoFlush
  <2>4. flushes' = [c \in {Pump} |-> flushes'[Pump]] /\ sink'.accepted = sink'.settled + Len(Pipe')
    BY <1>2, <1>3, <2>1, <2>2
  <2> QED
    BY <1>1, <2>2, <2>3, <2>4 DEF Barrier
<1>7. Export'
  <2>1. pump'.file = NoCursors /\ Cycle'
    BY <1>1 DEF NoCycle, Cycle
  <2>2. File(NoCursors) /\ \A t \in Transport : NoCursors.at[t] = 0
    BY DEF File, NoCursors
  <2>3. Len(log) \in Nat
    BY LogFacts DEF IInv
  <2>4. Passed(NoCursors)'
    BY <1>1, <2>2, <2>3 DEF Passed
  <2>5. Passed(saved)' /\ File(saved)' /\ (delivered = [t \in Transport |-> delivered[t]])'
    BY <1>1 DEF IInv, Export, Passed, File
  <2> QED
    BY <2>1, <2>2, <2>4, <2>5 DEF Export, Passed
<1> QED
  BY <1>1, <1>5, <1>6, <1>7, DatabaseStays DEF IInv

-----------------------------------------------------------------------------
(* Steps of the pump. *)

(* Cursors no further than those of either file. *)
LEMMA FilesStep ==
    ASSUME IInv, UNCHANGED <<log, boundary, delivered>>, Cycle', File(saved'), File(pump'.file),
           saved'.at \in {saved.at, pump.file.at},
           pump'.file.at \in {saved.at, pump.file.at, NoCursors.at}
    PROVE  Export'
<1>1. Len(log) \in Nat /\ \A t \in Transport : NoCursors.at[t] = 0
  BY LogFacts DEF IInv, NoCursors
<1>2. ASSUME NEW f, f.at \in {saved.at, pump.file.at, NoCursors.at} PROVE Passed(f)'
  <2>1. CASE f.at \in {saved.at, pump.file.at}
    BY <2>1 DEF IInv, Export, Passed
  <2>2. CASE f.at = NoCursors.at
    BY <1>1, <2>2 DEF Passed
  <2> QED
    BY <1>2, <2>1, <2>2
<1>3. \A f : f.at \in {saved.at, pump.file.at, NoCursors.at} => Passed(f)'
  BY <1>2
<1>4. Passed(saved)'
  <2>1. PICK f : f = saved'
    OBVIOUS
  <2>2. Passed(f)'
    BY <1>3, <2>1
  <2> QED
    BY <2>1, <2>2 DEF Passed
<1>5. Passed(pump.file)'
  <2>1. PICK f : f = pump'.file
    OBVIOUS
  <2>2. Passed(f)'
    BY <1>3, <2>1
  <2> QED
    BY <2>1, <2>2 DEF Passed
<1>6. (delivered = [t \in Transport |-> delivered[t]])'
  BY DEF IInv, Export
<1> QED
  BY <1>4, <1>5, <1>6 DEF Export, File

(* A step of the pump that leaves the log and the sink alone. *)
LEMMA PumpOnly ==
    ASSUME IInv, Export', UNCHANGED logVars
    PROVE  IInv'
<1>1. UNCHANGED <<rows, boundary, head, sink, batch, flushes, emitted, log>>
  BY DEF logVars, database
<1> QED
  BY <1>1, DatabaseStays, WriterStays, BarrierStays DEF IInv

(* A cycle begins. *)
LEMMA CycleStep ==
    ASSUME IInv, CycleStart
    PROVE  IInv'
<1>1. /\ pump' = [NoCycle EXCEPT !.phase = "Replay", !.file = saved, !.left = Transport,
                                 !.todo = saved.outbox]
      /\ UNCHANGED <<logVars, saved, delivered>>
  BY DEF CycleStart
<1>2. Cycle' /\ pump'.file = saved
  BY <1>1 DEF NoCycle, Cycle
<1>3. File(saved)
  BY DEF IInv, Export
<1>4. UNCHANGED <<log, boundary>>
  BY <1>1 DEF logVars, database
<1>5. Export'
  BY <1>1, <1>2, <1>3, <1>4, FilesStep
<1> QED
  BY <1>1, <1>5, PumpOnly

(* The outbox is acknowledged. *)
LEMMA AcknowledgeStep ==
    ASSUME IInv, Acknowledge
    PROVE  IInv'
<1>1. saved' \in {saved, pump.file} /\ pump' = NoCycle /\ UNCHANGED <<logVars, delivered>>
  BY DEF Acknowledge, SaveFails, Idle
<1>2. Cycle' /\ pump'.file = NoCursors
  BY <1>1 DEF NoCycle, Cycle
<1>3. File(saved') /\ File(NoCursors)
  BY <1>1 DEF IInv, Export, File, NoCursors
<1>4. UNCHANGED <<log, boundary>>
  BY <1>1 DEF logVars, database
<1>5. Export'
  BY <1>1, <1>2, <1>3, <1>4, FilesStep
<1> QED
  BY <1>1, <1>5, PumpOnly

(* The detector's file keeps the cursors of the transports. *)
LEMMA ObserveStep ==
    ASSUME IInv, ObserveBatch
    PROVE  IInv'
<1>1. PICK seen, observed, file :
        /\ file = [pump.file EXCEPT
                      !.detector = observed.detector, !.last_sequence = observed.last_sequence,
                      !.pending = observed.pending, !.failed = pump.failing,
                      !.outbox = observed.outbox \o Failures(pump.file, pump.failing, seen)]
        /\ \/ /\ saved' = file
              /\ IF file.outbox = <<>> THEN Idle
                 ELSE pump' = [NoCycle EXCEPT !.phase = "Alert", !.file = file,
                                              !.todo = file.outbox]
           \/ file # saved /\ SaveFails(file)
        /\ UNCHANGED <<logVars, delivered>>
  BY DEF ObserveBatch
<1>2. File(pump.file)
  BY DEF IInv, Export
<1>3. File(file) /\ file.at = pump.file.at
  BY <1>1, <1>2 DEF File
<1>4. /\ saved' \in {saved, file} /\ UNCHANGED <<logVars, delivered>>
      /\ \/ pump' = NoCycle
         \/ pump' = [NoCycle EXCEPT !.phase = "Alert", !.file = file, !.todo = file.outbox]
  BY <1>1 DEF SaveFails, Idle
<1>5. Cycle' /\ pump'.file \in {NoCursors, file}
  <2>1. CASE pump' = NoCycle
    BY <2>1 DEF NoCycle, Cycle
  <2>2. CASE pump' = [NoCycle EXCEPT !.phase = "Alert", !.file = file, !.todo = file.outbox]
    BY <2>2 DEF NoCycle, Cycle
  <2> QED
    BY <1>4, <2>1, <2>2
<1>6. File(saved') /\ File(pump'.file)
  <2>1. File(NoCursors)
    BY DEF File, NoCursors
  <2> QED
    BY <1>3, <1>4, <1>5, <2>1 DEF IInv, Export
<1>7. UNCHANGED <<log, boundary>>
  BY <1>4 DEF logVars, database
<1>8. saved'.at \in {saved.at, pump.file.at} /\ pump'.file.at \in {saved.at, pump.file.at, NoCursors.at}
  BY <1>3, <1>4, <1>5
<1>9. Export'
  BY <1>4, <1>5, <1>6, <1>7, <1>8, FilesStep
<1> QED
  BY <1>4, <1>9, PumpOnly

(* read_rows_after: a stretch of rows from the first one beyond the cursor. *)
LEMMA RowsAfterFacts ==
    ASSUME Database, NEW r \in Nat, r <= Len(log)
    PROVE  \E n \in 0 .. Len(rows) : \E m \in n .. Len(rows) :
              /\ RowsAfter(r) = SubSeq(rows, n + 1, m)
              /\ \A i \in 1 .. Len(rows) : i <= n => boundary.rowid + i <= r
<1>1. /\ IsSeq(rows) /\ Len(rows) \in Nat /\ boundary.rowid \in Nat
      /\ Len(log) = boundary.rowid + Len(rows) /\ DOMAIN rows = 1 .. Len(rows)
      /\ \A i \in 1 .. Len(rows) : boundary.rowid + i \in 1 .. Len(log) /\ rows[i] = log[boundary.rowid + i]
  BY LogFacts, SeqDomain
<1>2. \A i \in 1 .. Len(rows) : rows[i].rowid = boundary.rowid + i
  BY <1>1 DEF Database, Chain
<1> DEFINE P(n) == \A i \in DOMAIN rows : rows[i].rowid > r <=> i > n
           n == CHOOSE n \in 0 .. Len(rows) : P(n)
<1>3. \E k \in 0 .. Len(rows) : P(k)
  <2>1. CASE r <= boundary.rowid
    <3>1. P(0)
      BY <1>1, <1>2, <2>1
    <3>2. 0 \in 0 .. Len(rows)
      BY <1>1
    <3> HIDE DEF P
    <3> QED
      BY <3>1, <3>2
  <2>2. CASE r > boundary.rowid
    <3>1. r - boundary.rowid \in 0 .. Len(rows)
      BY <1>1, <2>2
    <3>2. P(r - boundary.rowid)
      BY <1>1, <1>2, <2>2
    <3> HIDE DEF P
    <3> QED
      BY <3>1, <3>2
  <2> QED
    BY <1>1, <2>1, <2>2
<1>4. n \in 0 .. Len(rows) /\ P(n)
  <2> HIDE DEF P
  <2> QED
    BY <1>3
<1>5. BatchSize \in Nat
  BY BatchAssumption
<1> DEFINE m == IF Len(rows) < n + BatchSize THEN Len(rows) ELSE n + BatchSize
<1>6. RowsAfter(r) = SubSeq(rows, n + 1, m)
  BY DEF RowsAfter
<1>7. ASSUME NEW i \in 1 .. Len(rows), i <= n PROVE boundary.rowid + i <= r
  BY <1>1, <1>2, <1>4, <1>7
<1> HIDE DEF n
<1>8. m \in n .. Len(rows)
  BY <1>1, <1>4, <1>5
<1> HIDE DEF m
<1> QED
  BY <1>4, <1>6, <1>7, <1>8

(* A delivery arrived: the cursor passes exactly what was read. *)
LEMMA DeliverStep ==
    ASSUME IInv, NEW t \in Transport, Deliver(t)
    PROVE  IInv'
<1>0. /\ Cycle /\ File(saved) /\ File(pump.file) /\ Passed(saved) /\ Passed(pump.file)
      /\ delivered = [u \in Transport |-> delivered[u]] /\ Database
  BY DEF IInv, Export
<1> DEFINE ahead == RowsAfter(pump.file.at[t])
           records == {ahead[i].event : i \in DOMAIN ahead}
           to == IF ahead = <<>> THEN pump.file.at[t] ELSE Last(ahead).rowid
<1>1. UNCHANGED <<rows, boundary, head, sink, batch, flushes, emitted, log, saved>>
  BY DEF Deliver, database
<1>2. \/ /\ pump' = [pump EXCEPT !.left = @ \ {t}, !.file.at[t] = to]
         /\ delivered' = [delivered EXCEPT ![t] = @ \cup records]
      \/ /\ pump' = [pump EXCEPT !.left = @ \ {t}, !.failing = @ \cup {t}]
         /\ delivered' = delivered
  BY DEF Deliver
<1>3. /\ IsSeq(rows) /\ Len(rows) \in Nat /\ boundary.rowid \in Nat /\ IsSeq(log) /\ Len(log) \in Nat
      /\ Len(log) = boundary.rowid + Len(rows)
      /\ \A i \in 1 .. Len(rows) : boundary.rowid + i \in 1 .. Len(log) /\ rows[i] = log[boundary.rowid + i]
  BY <1>0, LogFacts
<1>4. pump.file.at \in [Transport -> Nat] /\ pump.file.at[t] \in Nat /\ pump.file.at[t] <= Len(log)
  BY <1>0 DEF File, Passed
<1>5. PICK n \in 0 .. Len(rows) : \E m \in n .. Len(rows) :
         /\ ahead = SubSeq(rows, n + 1, m)
         /\ \A i \in 1 .. Len(rows) : i <= n => boundary.rowid + i <= pump.file.at[t]
  BY <1>0, <1>4, RowsAfterFacts
<1>6. PICK m \in n .. Len(rows) :
         /\ ahead = SubSeq(rows, n + 1, m)
         /\ \A i \in 1 .. Len(rows) : i <= n => boundary.rowid + i <= pump.file.at[t]
  BY <1>5
<1>7. IsSeq(ahead) /\ Len(ahead) = m - n /\ \A i \in 1 .. m - n : ahead[i] = rows[n + i]
  <2>1. n + 1 \in Nat \ {0} /\ m \in Nat /\ n + 1 <= m + 1 /\ m <= Len(rows)
    BY <1>3
  <2>2. /\ IsSeq(SubSeq(rows, n + 1, m)) /\ Len(SubSeq(rows, n + 1, m)) = m - (n + 1) + 1
        /\ \A i \in 1 .. m - (n + 1) + 1 : SubSeq(rows, n + 1, m)[i] = rows[(n + 1) + i - 1]
    BY <1>3, <2>1, SubIs
  <2>3. m - (n + 1) + 1 = m - n /\ \A i \in 1 .. m - n : (n + 1) + i - 1 = n + i
    BY <1>3
  <2> HIDE DEF ahead
  <2> QED
    BY <1>6, <2>2, <2>3
<1> HIDE DEF ahead
<1>8. /\ to \in Nat /\ to <= Len(log)
      /\ \A i \in 1 .. Len(log) :
            boundary.rowid < i /\ i <= to => log[i].event \in delivered[t] \cup records
  <2>1. CASE ahead = <<>>
    BY <1>0, <1>4, <2>1 DEF Passed
  <2>2. CASE ahead # <<>>
    <3>1. m - n # 0
      BY <1>7, <2>2, EmptyIs
    <3>2. m - n \in 1 .. m - n /\ m \in 1 .. Len(rows) /\ n + (m - n) = m
      BY <1>3, <3>1
    <3>3. Last(ahead) = rows[m]
      BY <1>7, <3>2 DEF Last
    <3>4. rows[m].rowid = boundary.rowid + m
      BY <1>0, <1>3, <3>2 DEF Database, Chain
    <3>5. to = boundary.rowid + m
      BY <2>2, <3>3, <3>4
    <3>6. ASSUME NEW i \in 1 .. Len(log), boundary.rowid < i, i <= to
          PROVE  log[i].event \in delivered[t] \cup records
      <4> DEFINE k == i - boundary.rowid
      <4>0. i <= boundary.rowid + m /\ m \in Nat /\ n \in Nat /\ m <= Len(rows) /\ i \in Int
        BY <1>3, <3>5, <3>6
      <4>1. k \in 1 .. m /\ k \in 1 .. Len(rows) /\ boundary.rowid + k = i
        <5> HIDE DEF to, records
        <5> QED
          BY <1>3, <3>6, <4>0
      <4>2. CASE k <= n
        <5>1. i <= pump.file.at[t]
          BY <1>6, <4>1, <4>2
        <5> QED
          BY <1>0, <3>6, <5>1 DEF Passed
      <4>3. CASE k > n
        <5>1. k - n \in 1 .. m - n /\ n + (k - n) = k
          <6> HIDE DEF k
          <6> QED
            BY <4>0, <4>1, <4>3
        <5>2. ahead[k - n] = rows[k] /\ k - n \in DOMAIN ahead
          BY <1>7, <5>1, SeqDomain
        <5>3. rows[k] = log[i]
          BY <1>3, <4>1
        <5> QED
          BY <5>2, <5>3
      <4> QED
        BY <1>3, <4>1, <4>2, <4>3
    <3> QED
      BY <1>3, <3>2, <3>5, <3>6
  <2> QED
    BY <2>1, <2>2
<1> HIDE DEF to, records
<1>9. CASE pump' = [pump EXCEPT !.left = @ \ {t}, !.failing = @ \cup {t}] /\ delivered' = delivered
  <2>1. Cycle' /\ pump'.file = pump.file
    BY <1>0, <1>9 DEF Cycle
  <2>2. Export'
    BY <1>0, <1>1, <1>9, <2>1, FilesStep
  <2> QED
    BY <1>1, <2>2, DatabaseStays, WriterStays, BarrierStays DEF IInv
<1>10. CASE /\ pump' = [pump EXCEPT !.left = @ \ {t}, !.file.at[t] = to]
            /\ delivered' = [delivered EXCEPT ![t] = @ \cup records]
  <2>1. pump'.file = [pump.file EXCEPT !.at[t] = to] /\ Cycle'
    BY <1>0, <1>10 DEF Cycle
  <2>2. pump'.file.at = [pump.file.at EXCEPT ![t] = to] /\ File(pump'.file)
    <3>1. [pump.file.at EXCEPT ![t] = to] \in [Transport -> Nat]
      BY <1>4, <1>8
    <3> QED
      BY <1>0, <2>1, <3>1 DEF File
  <2>3. \A u \in Transport : delivered'[u] = IF u = t THEN delivered[u] \cup records ELSE delivered[u]
    BY <1>0, <1>10
  <2>4. delivered' = [u \in Transport |-> delivered'[u]]
    BY <1>0, <1>10
  <2>5. \A u \in Transport : pump'.file.at[u] = IF u = t THEN to ELSE pump.file.at[u]
    BY <1>4, <2>2
  <2>6. Passed(saved)'
    BY <1>0, <1>1, <2>3 DEF Passed
  <2>7. Passed(pump.file)'
    <3>1. ASSUME NEW u \in Transport
          PROVE  /\ pump'.file.at[u] <= Len(log)
                 /\ \A i \in 1 .. Len(log) : boundary.rowid < i /\ i <= pump'.file.at[u]
                       => log[i].event \in delivered'[u]
      <4>1. CASE u = t
        BY <1>8, <2>3, <2>5, <4>1
      <4>2. CASE u # t
        BY <1>0, <2>3, <2>5, <4>2 DEF Passed
      <4> QED
        BY <4>1, <4>2
    <3> QED
      BY <1>1, <3>1 DEF Passed
  <2>8. Export'
    BY <1>0, <1>1, <2>1, <2>2, <2>4, <2>6, <2>7 DEF Export, File
  <2> QED
    BY <1>1, <2>8, DatabaseStays, WriterStays, BarrierStays DEF IInv
<1> QED
  BY <1>2, <1>9, <1>10

(* The pump's own state moves along, its file stays. *)
LEMMA PumpMoves ==
    ASSUME IInv, UNCHANGED <<log, boundary, saved, delivered>>,
           \/ pump' = NoCycle
           \/ pump' = [pump EXCEPT !.todo = Tail(@)]
           \/ pump' = [pump EXCEPT !.phase = IF @ = "Replay" THEN "Replayed" ELSE "Alerted"]
           \/ pump' = [pump EXCEPT !.phase = IF @ = "Replayed" THEN "Observe" ELSE "Ack",
                                   !.file.outbox = <<>>]
    PROVE  Export'
<1>0. Cycle /\ File(saved) /\ File(pump.file)
  BY DEF IInv, Export
<1>1. File(NoCursors)
  BY DEF File, NoCursors
<1>2. CASE pump' = NoCycle
  <2>1. Cycle' /\ pump'.file = NoCursors
    BY <1>2 DEF NoCycle, Cycle
  <2> QED
    BY <1>0, <1>1, <2>1, FilesStep
<1>3. CASE pump' = [pump EXCEPT !.todo = Tail(@)]
  <2>1. Cycle' /\ pump'.file = pump.file
    BY <1>0, <1>3 DEF Cycle
  <2> QED
    BY <1>0, <2>1, FilesStep
<1>4. CASE pump' = [pump EXCEPT !.phase = IF @ = "Replay" THEN "Replayed" ELSE "Alerted"]
  <2>1. Cycle' /\ pump'.file = pump.file
    BY <1>0, <1>4 DEF Cycle
  <2> QED
    BY <1>0, <2>1, FilesStep
<1>5. CASE pump' = [pump EXCEPT !.phase = IF @ = "Replayed" THEN "Observe" ELSE "Ack",
                                !.file.outbox = <<>>]
  <2>1. Cycle' /\ pump'.file = [pump.file EXCEPT !.outbox = <<>>]
    BY <1>0, <1>5 DEF Cycle
  <2>2. File(pump'.file) /\ pump'.file.at = pump.file.at
    BY <1>0, <2>1 DEF File
  <2> QED
    BY <1>0, <2>1, <2>2, FilesStep
<1> QED
  BY <1>2, <1>3, <1>4, <1>5

(* deliver_findings, one finding. *)
LEMMA RaiseStep ==
    ASSUME IInv, Raise
    PROVE  IInv'
<1>0. /\ pump' = NoCycle \/ pump' = [pump EXCEPT !.todo = Tail(@)]
      /\ UNCHANGED <<rows, boundary, head, log, saved, delivered>>
  BY DEF Raise, Idle, logVars, database
<1>1. Export'
  BY <1>0, PumpMoves
<1>2. CASE UNCHANGED logVars
  BY <1>1, <1>2, PumpOnly
<1>3. CASE ~UNCHANGED logVars
  <2> DEFINE id == AlertOf(Head(pump.todo))
             full == sink.phase = "up" /\ ~Accepts
             d == Enqueued(id).dropped \/ full
  <2>1. /\ sink' = [Enqueued(id) EXCEPT !.dropped = d] /\ emitted' = emitted \cup {id}
        /\ Alive /\ UNCHANGED <<rows, boundary, head, batch, flushes, log>>
    BY <1>3 DEF Raise, EmitEvent, database
  <2>2. d \in BOOLEAN
    OBVIOUS
  <2> HIDE DEF id, d
  <2>3. Writer' /\ Barrier'
    BY <2>1, <2>2, EnqueueStep DEF IInv
  <2> QED
    BY <1>1, <2>1, <2>3, DatabaseStays DEF IInv
<1> QED
  BY <1>2, <1>3

(* A flush begins, and covers what was emitted. *)
LEMMA AckStartStep ==
    ASSUME IInv, AckStart
    PROVE  IInv'
<1>1. /\ flushes' = [flushes EXCEPT ![Pump] = [phase |-> "Waiting", target |-> sink.accepted,
                                               covers |-> emitted]]
      /\ pump' = [pump EXCEPT !.phase = IF @ = "Replay" THEN "Replayed" ELSE "Alerted"]
      /\ UNCHANGED <<rows, boundary, head, sink, batch, emitted, log, saved, delivered>>
  BY DEF AckStart, FlushStart, database
<1>2. Export'
  BY <1>1, PumpMoves
<1>3. Database' /\ Writer'
  BY <1>1, DatabaseStays, WriterStays DEF IInv
<1>4. flushes = [c \in {Pump} |-> flushes[Pump]]
  BY DEF IInv, Barrier
<1>5. PICK f : f = [phase |-> "Waiting", target |-> sink.accepted, covers |-> emitted]
  OBVIOUS
<1>6. flushes' = [c \in {Pump} |-> f] /\ flushes'[Pump] = f
  BY <1>1, <1>4, <1>5
<1>7. f.phase = "Waiting" /\ f.target = sink.accepted /\ f.covers = emitted
  BY <1>5
<1>8. sink.accepted \in Nat /\ sink.settled \in Nat
  BY DEF IInv, Writer, SinkShape
<1>9. sink.accepted = sink.settled + Len(Pipe) /\ Len(Pipe) \in Nat
  BY PipeFacts DEF IInv, Barrier
<1>10. sink.accepted - sink.settled = Len(Pipe)
  BY <1>8, <1>9
<1>11. Pipe' = Pipe
  BY <1>1 DEF Pipe
<1>12. ~sink.failure => \A e \in emitted : InPipe(e, Len(Pipe))
  BY DEF IInv, Barrier
<1>13. ~sink'.failure => /\ \A e \in emitted' : InPipe(e, Len(Pipe))'
                         /\ \A e \in f.covers : InPipe(e, f.target - sink.settled)'
  BY <1>1, <1>7, <1>10, <1>11, <1>12 DEF InPipe
<1>14. Barrier'
  <2>1. (flushes = [c \in {Pump} |-> flushes[Pump]] /\ flushes[Pump].target \in Nat)'
    BY <1>6, <1>7, <1>8
  <2>2. (sink.accepted = sink.settled + Len(Pipe))'
    BY <1>1, <1>9, <1>11
  <2>3. ~sink'.failure => \A e \in flushes'[Pump].covers :
           InPipe(e, flushes[Pump].target - sink.settled)'
    BY <1>6, <1>13 DEF InPipe
  <2> QED
    BY <1>13, <2>1, <2>2, <2>3 DEF Barrier
<1> QED
  BY <1>2, <1>3, <1>14 DEF IInv

(* It ends. *)
LEMMA AckEndStep ==
    ASSUME IInv, AckEnd
    PROVE  IInv'
<1>1. /\ flushes' = [flushes EXCEPT ![Pump] = NoFlush]
      /\ \/ pump' = NoCycle
         \/ pump' = [pump EXCEPT !.phase = IF @ = "Replayed" THEN "Observe" ELSE "Ack",
                                 !.file.outbox = <<>>]
      /\ UNCHANGED <<rows, boundary, head, sink, batch, emitted, log, saved, delivered>>
  BY DEF AckEnd, FlushEnd, Idle, database
<1>2. Export'
  BY <1>1, PumpMoves
<1>3. Database' /\ Writer'
  BY <1>1, DatabaseStays, WriterStays DEF IInv
<1>4. flushes = [c \in {Pump} |-> flushes[Pump]]
  BY DEF IInv, Barrier
<1>5. PICK f : f = NoFlush
  OBVIOUS
<1>6. flushes' = [c \in {Pump} |-> f] /\ flushes'[Pump] = f
  BY <1>1, <1>4, <1>5
<1>7. f.phase # "Waiting" /\ f.target \in Nat
  BY <1>5 DEF NoFlush
<1>8. Pipe' = Pipe
  BY <1>1 DEF Pipe
<1>9. /\ sink.accepted = sink.settled + Len(Pipe)
      /\ ~sink.failure => \A e \in emitted : InPipe(e, Len(Pipe))
  BY DEF IInv, Barrier
<1>10. /\ (sink.accepted = sink.settled + Len(Pipe))'
       /\ ~sink'.failure => \A e \in emitted' : InPipe(e, Len(Pipe))'
  BY <1>1, <1>8, <1>9 DEF InPipe
<1>11. (flushes = [c \in {Pump} |-> flushes[Pump]])'
  BY <1>6
<1>12. Barrier'
  BY <1>6, <1>7, <1>10, <1>11 DEF Barrier
<1> QED
  BY <1>2, <1>3, <1>12 DEF IInv

-----------------------------------------------------------------------------
(* The theorems. *)

(* The log an earlier process left is a chain (insert_batch). *)
LEMMA EarlierChain ==
    /\ Chain(EarlierRows) /\ Len(EarlierRows) = Len(Earlier) /\ Len(Earlier) \in Nat
    /\ \A i \in 1 .. Len(Earlier) :
          /\ EarlierRows[i].sequence = i - 1
          /\ EarlierRows[i].hash = Hash(EarlierRows, i)
<1> DEFINE e == EarlierRows
<1>1. Len(Earlier) \in Nat /\ DOMAIN Earlier = 1 .. Len(Earlier)
  BY EarlierAssumption
<1>2. /\ e = [i \in 1 .. Len(Earlier) |-> e[i]]
      /\ \A i \in 1 .. Len(Earlier) :
            /\ e[i].event = <<Earlier[i], -i>> /\ e[i].sequence = i - 1 /\ e[i].rowid = i
            /\ e[i].hash = [j \in 1 .. i |-> [event |-> <<Earlier[j], -j>>, sequence |-> j - 1]]
  BY <1>1, Zenon DEF EarlierRows
<1> HIDE DEF e
<1>3. \A i \in 1 .. Len(Earlier) : e[i].sequence = i - 1 /\ e[i].rowid = i
  BY <1>2, Zenon
<1>4. \A i \in 1 .. Len(Earlier) :
         e[i].hash = [j \in 1 .. i |-> [event |-> <<Earlier[j], -j>>, sequence |-> j - 1]]
  BY <1>2, Zenon
<1>5. IsSeq(e) /\ Len(e) = Len(Earlier)
  BY <1>1, <1>2, FunIs
<1>6. ASSUME NEW i \in 1 .. Len(Earlier)
      PROVE  e[i].hash = Hash(e, i)
  <2>1. \A j \in 1 .. i : j \in 1 .. Len(Earlier)
    BY <1>1
  <2>2. \A j \in 1 .. i : [event |-> <<Earlier[j], -j>>, sequence |-> j - 1]
                        = [event |-> e[j].event, sequence |-> e[j].sequence]
    BY <2>1, <1>2
  <2>3. [j \in 1 .. i |-> [event |-> <<Earlier[j], -j>>, sequence |-> j - 1]] = Hash(e, i)
    BY <2>2, Zenon DEF Hash
  <2> QED
    BY <1>4, <2>3, Zenon
<1>7. Chain(e)
  <2>1. \A i \in 1 .. Len(e) : e[i].rowid = i /\ e[i].sequence \in Int /\ e[i].sequence > -1
    BY <1>1, <1>3, <1>5
  <2>2. \A i, j \in 1 .. Len(e) : i < j => e[i].sequence < e[j].sequence
    BY <1>1, <1>3, <1>5
  <2> QED
    BY <1>5, <1>6, <2>1, <2>2 DEF Chain
<1> QED
  BY <1>1, <1>2, <1>5, <1>6, <1>7 DEF e

(* It holds initially. *)
LEMMA InitIInv == Init => IInv
<1> SUFFICES ASSUME Init PROVE IInv
  OBVIOUS
<1>1. /\ rows = EarlierRows /\ log = rows /\ boundary = NoBoundary
      /\ head = [hash |-> IF rows = <<>> THEN Genesis ELSE Last(rows).hash,
                 sequence |-> Len(rows) - 1]
      /\ sink = [phase |-> "up", queue |-> <<>>, next_sequence |-> Len(rows), accepted |-> 0,
                 settled |-> 0, failure |-> FALSE, dropped |-> FALSE, last_hash |-> head.hash]
      /\ batch = <<>> /\ flushes = [c \in {Pump} |-> NoFlush] /\ emitted = {}
      /\ saved = NoCursors /\ pump = NoCycle /\ delivered = [t \in Transport |-> {}]
  BY DEF Init, LogInit
<1>2. /\ Chain(log) /\ Len(rows) \in Nat /\ IsSeq(rows) /\ Len(log) = Len(rows)
      /\ \A i \in 1 .. Len(rows) : rows[i].sequence = i - 1 /\ rows[i].hash = Hash(rows, i)
  BY <1>1, EarlierChain DEF Chain
<1>3. head = [hash |-> Hash(log, Len(log)), sequence |-> NumberAt(log, Len(log))]
  <2>1. CASE rows = <<>>
    <3>1. Len(rows) = 0
      BY <2>1, EmptyIs
    <3>2. Hash(log, 0) = <<>>
      BY HashIs, EmptyIs
    <3> QED
      BY <1>1, <2>1, <3>1, <3>2 DEF Genesis, NumberAt
  <2>2. CASE rows # <<>>
    <3>1. Len(rows) # 0
      BY <2>2, <1>2, EmptyIs
    <3>2. Last(rows) = rows[Len(rows)]
      BY DEF Last
    <3>3. rows[Len(rows)].sequence = Len(rows) - 1 /\ rows[Len(rows)].hash = Hash(rows, Len(rows))
      BY <3>1, <1>2
    <3> QED
      BY <1>1, <2>2, <3>1, <3>2, <3>3 DEF NumberAt
  <2> QED
    BY <2>1, <2>2
<1>4. Database
  <2>1. Rest(log, rows, boundary.rowid)
    BY <1>1, <1>2 DEF Rest, NoBoundary
  <2>2. Hash(log, 0) = <<>>
    BY HashIs, EmptyIs
  <2>3. boundary = [hash |-> Hash(log, boundary.rowid), sequence |-> NumberAt(log, boundary.rowid),
                    high |-> boundary.high, rowid |-> boundary.rowid] /\ boundary.high \in Int
    BY <1>1, <2>2 DEF NoBoundary, Genesis, NumberAt
  <2> QED
    BY <1>2, <1>3, <2>1, <2>3 DEF Database
<1>5. Pipe = <<>> /\ Len(Pipe) = 0
  BY <1>1, EmptyIs, CatEmpty DEF Pipe
<1>6. Writer
  <2>1. SinkShape /\ IsSeq(batch) /\ IsSeq(sink.queue)
    BY <1>1, <1>2, EmptyIs DEF SinkShape
  <2>2. sink.last_hash = head.hash /\ head.sequence < sink.next_sequence /\ Alive
    BY <1>1, <1>2 DEF Alive
  <2>3. Numbered(Pipe, head.sequence, sink.next_sequence)
    BY <1>5, EmptyIs DEF Numbered
  <2> QED
    BY <2>1, <2>2, <2>3 DEF Writer
<1>7. Barrier
  BY <1>1, <1>5 DEF Barrier, NoFlush
<1>8. Export
  <2>1. Cycle /\ File(saved) /\ File(pump.file)
    BY <1>1 DEF Cycle, File, NoCycle, NoCursors
  <2>2. delivered = [t \in Transport |-> delivered[t]]
    BY <1>1
  <2>3. \A t \in Transport : saved.at[t] = 0 /\ pump.file.at[t] = 0
    BY <1>1 DEF NoCycle, NoCursors
  <2>4. Passed(saved) /\ Passed(pump.file)
    BY <2>3, <1>2 DEF Passed
  <2> QED
    BY <2>1, <2>2, <2>4 DEF Export
<1> QED
  BY <1>4, <1>6, <1>7, <1>8 DEF IInv

(* A step that changes nothing. *)
LEMMA StutterStep == ASSUME IInv, UNCHANGED vars PROVE IInv'
<1>1. UNCHANGED <<rows, boundary, head, log, saved, pump, delivered>>
  BY DEF vars, logVars, pumpVars, database
<1>2. UNCHANGED <<sink, batch, head, flushes, emitted, log>>
  BY DEF vars, logVars, pumpVars, database
<1>3. Writer' /\ Barrier'
  BY <1>2, WriterStays, BarrierStays DEF IInv
<1> QED
  BY <1>1, <1>3, SinkOnly

(* Every step of the log and of the pump preserves it. *)
LEMMA NextIInv == IInv /\ [Next]_vars => IInv'
<1> SUFFICES ASSUME IInv, [Next]_vars PROVE IInv'
  OBVIOUS
<1>1. CASE LogNext /\ UNCHANGED pumpVars
  <2>1. Untouched
    BY <1>1 DEF Untouched, pumpVars
  <2>2. CASE \E kind \in UNION Range(Request) : Emit(kind)
    BY <2>1, <2>2, EmitStep
  <2>3. CASE ReportDrops
    BY <2>1, <2>3, ReportStep
  <2>4. CASE WriterTake
    BY <2>1, <2>4, WriterTakeStep
  <2>5. CASE WriterCommit
    BY <2>1, <2>5, WriterCommitStep
  <2>6. CASE RetentionFails \/ Close \/ WriterStops
    BY <2>1, <2>6, PhaseStep
  <2>7. CASE \E n \in 0 .. Len(rows) : Retention(n)
    BY <2>1, <2>7, RetentionStep
  <2>8. CASE \E n \in 0 .. Len(rows) : Open(n)
    BY <2>1, <2>8, OpenStep
  <2> QED
    BY <1>1, <2>2, <2>3, <2>4, <2>5, <2>6, <2>7, <2>8 DEF LogNext
<1>2. CASE PumpNext
  BY <1>2, CycleStep, RaiseStep, AckStartStep, AckEndStep, ObserveStep, AcknowledgeStep,
     DeliverStep DEF PumpNext
<1>3. CASE Stop
  BY <1>3, StopStep
<1>4. CASE UNCHANGED vars
  BY <1>4, StutterStep
<1> QED
  BY <1>1, <1>2, <1>3, <1>4 DEF Next

(* The invariant holds throughout. *)
LEMMA Invariant == Spec => []IInv
BY InitIInv, NextIInv, PTL DEF Spec

(* Whatever batches fail, whatever is pruned and wherever the daemon       *)
(* stops, the chain verifies and no sequence number is committed twice     *)
(* (insert_batch, prune_verified_prefix, SqliteAuditSink::new).            *)
THEOREM ChainAlwaysHolds == Spec => []ChainHolds
<1>1. ASSUME IInv PROVE ChainHolds
  <2>1. Database
    BY <1>1 DEF IInv
  <2>2. /\ IsSeq(log) /\ IsSeq(rows) /\ Len(log) \in Nat /\ Len(rows) \in Nat
        /\ boundary.rowid \in Nat /\ Len(log) = boundary.rowid + Len(rows)
        /\ \A i \in 1 .. Len(rows) : boundary.rowid + i \in 1 .. Len(log)
                                     /\ rows[i] = log[boundary.rowid + i]
    BY <2>1, LogFacts
  <2>3. DOMAIN rows = 1 .. Len(rows) /\ DOMAIN log = 1 .. Len(log)
    BY <2>2, SeqDomain
  <2>4. \A k \in 1 .. Len(log) : log[k].hash = Hash(log, k)
    BY <2>1 DEF Database, Chain
  <2>5. ASSUME NEW i \in DOMAIN rows
        PROVE  rows[i].hash = Append(IF i = 1 THEN boundary.hash ELSE rows[i - 1].hash,
                                     [event |-> rows[i].event, sequence |-> rows[i].sequence])
    <3> DEFINE n == boundary.rowid + i - 1
    <3>1. n \in Nat /\ n + 1 = boundary.rowid + i /\ n + 1 \in 1 .. Len(log) /\ i \in 1 .. Len(rows)
      BY <2>2, <2>3
    <3>2. rows[i] = log[n + 1] /\ rows[i].hash = Hash(log, n + 1)
      BY <3>1, <2>2, <2>4
    <3>3. Hash(log, n) = IF i = 1 THEN boundary.hash ELSE rows[i - 1].hash
      <4>1. CASE i = 1
        <5>1. n = boundary.rowid
          BY <4>1, <2>2
        <5>2. boundary.hash = Hash(log, boundary.rowid)
          BY <2>1 DEF Database
        <5> QED
          BY <4>1, <5>1, <5>2
      <4>2. CASE i # 1
        <5>1. i - 1 \in 1 .. Len(rows) /\ n = boundary.rowid + (i - 1)
          BY <4>2, <3>1, <2>2
        <5>2. rows[i - 1] = log[n] /\ n \in 1 .. Len(log)
          BY <5>1, <2>2
        <5> QED
          BY <4>2, <5>2, <2>4
      <4> QED
        BY <4>1, <4>2
    <3> HIDE DEF n
    <3>4. Hash(log, n + 1) = Append(Hash(log, n), [event |-> log[n + 1].event,
                                                   sequence |-> log[n + 1].sequence])
      BY <3>1, HashNext
    <3> QED
      BY <3>2, <3>3, <3>4
  <2>6. head = IF rows = <<>> THEN [hash |-> boundary.hash, sequence |-> boundary.sequence]
               ELSE [hash |-> Last(rows).hash, sequence |-> Last(rows).sequence]
    <3>1. /\ head = [hash |-> Hash(log, Len(log)), sequence |-> NumberAt(log, Len(log))]
          /\ boundary.hash = Hash(log, boundary.rowid)
          /\ boundary.sequence = NumberAt(log, boundary.rowid)
      BY <2>1 DEF Database
    <3>2. CASE rows = <<>>
      <4>1. Len(log) = boundary.rowid
        BY <3>2, <2>2, EmptyIs
      <4> QED
        BY <3>1, <3>2, <4>1
    <3>3. CASE rows # <<>>
      <4>1. Len(rows) # 0
        BY <3>3, <2>2, EmptyIs
      <4>2. Last(rows) = rows[Len(rows)]
        BY DEF Last
      <4>3. rows[Len(rows)] = log[Len(log)] /\ Len(log) \in 1 .. Len(log)
        BY <4>1, <2>2
      <4>4. log[Len(log)].hash = Hash(log, Len(log))
            /\ log[Len(log)].sequence = NumberAt(log, Len(log))
        BY <4>3, <2>4 DEF NumberAt
      <4> QED
        BY <3>1, <3>3, <4>2, <4>3, <4>4
    <3> QED
      BY <3>2, <3>3
  <2>7. \A i, j \in DOMAIN log : i < j => log[i].sequence < log[j].sequence
    BY <2>1, <2>3 DEF Database, Chain
  <2> QED
    BY <2>5, <2>6, <2>7 DEF ChainHolds, ChainValid
<1> QED
  BY <1>1, Invariant, PTL

(* Delivery is at least once (run_once, read_rows_after): a record still   *)
(* in the log that a transport's saved cursor has passed did reach that    *)
(* transport.                                                              *)
THEOREM DeliveredAtLeastOnce == Spec => []ExportComplete
<1>1. ASSUME IInv PROVE ExportComplete
  <2>1. Database /\ Passed(saved) /\ File(saved)
    BY <1>1 DEF IInv, Export
  <2>2. /\ IsSeq(rows) /\ Len(log) \in Nat /\ Len(rows) \in Nat
        /\ boundary.rowid \in Nat
        /\ \A i \in 1 .. Len(rows) : boundary.rowid + i \in 1 .. Len(log)
                                     /\ rows[i] = log[boundary.rowid + i]
    BY <2>1, LogFacts
  <2>3. ASSUME NEW t \in Transport, NEW i \in DOMAIN rows, rows[i].rowid <= saved.at[t]
        PROVE  rows[i].event \in delivered[t]
    <3> DEFINE k == boundary.rowid + i
    <3>1. i \in 1 .. Len(rows)
      BY <2>2, SeqDomain
    <3>2. k \in 1 .. Len(log) /\ rows[i] = log[k] /\ boundary.rowid < k
      BY <3>1, <2>2
    <3> HIDE DEF k
    <3>3. log[k].rowid = k
      BY <2>1, <3>2 DEF Database, Chain
    <3> QED
      BY <2>1, <2>3, <3>2, <3>3 DEF Passed
  <2> QED
    BY <2>3 DEF ExportComplete
<1> QED
  BY <1>1, Invariant, PTL

(* A flush that returns Ok is a durability barrier (flush, enqueue_event,  *)
(* writer_loop): what was emitted before it began is committed.            *)
THEOREM FlushesHonest == Spec => FlushHonest
<1> DEFINE Honest == pump.phase \in {"Replayed", "Alerted"} /\ pump'.phase \in {"Observe", "Ack"} =>
                        flushes[Pump].covers \subseteq Committed
<1>1. ASSUME IInv, [Next]_vars PROVE [Honest]_vars
  <2> SUFFICES ASSUME pump.phase \in {"Replayed", "Alerted"}, pump'.phase \in {"Observe", "Ack"}
               PROVE  flushes[Pump].covers \subseteq Committed
    OBVIOUS
  <2>1. AckEnd /\ FlushOk(Pump)
    <3>1. pump' # pump
      OBVIOUS
    <3>2. PumpNext \/ Stop
      BY <1>1, <3>1 DEF Next, vars, pumpVars
    <3>3. ~Idle
      BY DEF Idle, NoCycle
    <3>4. ~Stop
      BY <3>3 DEF Stop
    <3>5. ~CycleStart /\ ~Acknowledge /\ ~ObserveBatch
      BY <3>3 DEF CycleStart, Acknowledge, ObserveBatch, Emitting
    <3>6. ~Raise /\ ~AckStart
      BY DEF Raise, AckStart, Emitting
    <3>7. \A t \in Transport : ~Deliver(t)
      BY DEF Deliver
    <3>8. AckEnd
      BY <3>2, <3>4, <3>5, <3>6, <3>7 DEF PumpNext
    <3> QED
      BY <3>3, <3>8 DEF AckEnd
  <2>2. /\ flushes[Pump].phase = "Waiting" /\ sink.settled >= flushes[Pump].target
        /\ ~sink.failure
    BY <2>1 DEF AckEnd, FlushEnd, FlushOk
  <2>3. /\ Barrier /\ sink.settled \in Nat /\ flushes[Pump].target \in Nat
    BY <1>1 DEF IInv, Barrier, Writer, SinkShape
  <2>4. \A e \in flushes[Pump].covers :
           e \in Committed \/ InPipe(e, flushes[Pump].target - sink.settled)
    BY <2>2, <2>3 DEF Barrier
  <2>5. \A e : ~InPipe(e, flushes[Pump].target - sink.settled)
    BY <2>2, <2>3 DEF InPipe
  <2> QED
    BY <2>4, <2>5
<1> QED
  BY <1>1, Invariant, PTL DEF Spec, FlushHonest
=============================================================================
