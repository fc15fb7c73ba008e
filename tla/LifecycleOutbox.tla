-------------------------- MODULE LifecycleOutbox --------------------------
(***************************************************************************)
(* The lifecycle event outbox of crates/hooks/src/lifecycle_outbox.rs: a   *)
(* bounded queue per process, one writer task that batches, numbers and    *)
(* appends the events to a JSONL file, and a bounded fan-out of webhook    *)
(* posts that a flush waits for.                                           *)
(*                                                                         *)
(* Several processes may append to one file.  An event is the number of    *)
(* its acceptance in its process; its envelope and payload are left out.   *)
(* The file is the sequence of the pieces appended to it: a whole piece is *)
(* a record with its newline, any other is the part of a record that was   *)
(* on disk when the write failed or the process died.  The tail window of  *)
(* the recovery scan always holds the last complete line.                  *)
(***************************************************************************)
EXTENDS Integers, Sequences, FiniteSets, SequencesExt, FiniteSetsExt,
        Subsequences

CONSTANTS
    Procs,        \* processes configured with this outbox file
    Capacity,     \* OUTBOX_QUEUE_CAPACITY
    MaxBatch,     \* OUTBOX_MAX_BATCH
    MaxInflight,  \* WEBHOOK_MAX_INFLIGHT
    Webhook,      \* a webhook_url is configured
    MaxEmits,     \* emit calls per process
    MaxFlushes,   \* flush calls per process
    MaxGen,       \* incarnations of each process
    MaxFaults     \* failed or interrupted file operations

ASSUME OutboxAssumption ==
    /\ Capacity \in Nat \ {0}
    /\ MaxBatch \in Nat \ {0}
    /\ MaxInflight \in Nat \ {0}
    /\ Webhook \in BOOLEAN
    /\ MaxEmits \in Nat
    /\ MaxFlushes \in Nat
    /\ MaxGen \in Nat \ {0}
    /\ MaxFaults \in Nat

VARIABLES
    file,       \* the pieces appended to the outbox file
    gen,        \* per process: its incarnation
    queue,      \* per process: the channel from emit sites to the writer
    writer,     \* per process: where its writer task is
    batch,      \* per process: events of the batch in delivery
    replies,    \* per process: flushes of the batch in delivery
    records,    \* per process: numbered records still to append
    posts,      \* per process: events still to post
    inflight,   \* per process: webhook posts not yet joined
    nextSeq,    \* per process: next seq to assign, 0 before recovery
    flushes,    \* per process and flush: where the flush call is
    faults,     \* failed or interrupted file operations so far
    emits,      \* per process: emit calls
    accepted,   \* per process: events accepted
    born,       \* per process: events accepted by earlier incarnations
    covers,     \* per process and flush: events accepted before it
    attempted   \* per process: events whose append was attempted

taskVars == <<writer, batch, replies, records, posts, inflight, nextSeq>>
callVars == <<emits, accepted, born, covers>>
vars == <<file, gen, queue, writer, batch, replies, records, posts, inflight,
          nextSeq, flushes, faults, emits, accepted, born, covers, attempted>>

Flushes == 1..MaxFlushes
EventCommand(n) == [kind |-> "event", id |-> n]
FlushCommand(f) == [kind |-> "flush", id |-> f]

\* Where the commands of one kind are.
Places(cmds, kind) == {i \in DOMAIN cmds : cmds[i].kind = kind}

\* What run sorts a batch into: the events in their order, and the replies.
EventsOf(cmds) ==
    LET events == AtPlaces(cmds, Places(cmds, "event"))
    IN  [k \in DOMAIN events |-> events[k].id]

RepliesOf(cmds) == {cmds[i].id : i \in Places(cmds, "flush")}

-----------------------------------------------------------------------------
(* Reading the file. *)

WholeAt == {i \in DOMAIN file : file[i].whole}

\* A line ends with a whole piece; it is a record of its own unless a torn
\* piece stands before that record.
IsRecord(i) == i \in WholeAt /\ i - 1 \in WholeAt \cup {0}

\* The last newline-terminated line, 0 if there is none; what follows it is
\* ignored.
LastLine == Max(WholeAt \cup {0})

\* Mutant: the seq of the last line is used again.
RecoverLastSeq_Same == IF LastLine = 0 THEN 1 ELSE file[LastLine].seq

RecoverLastSeq == IF LastLine = 0 THEN 1 ELSE file[LastLine].seq + 1

RecoveryParses == LastLine = 0 \/ IsRecord(LastLine)

Fault == faults < MaxFaults /\ faults' = faults + 1

-----------------------------------------------------------------------------
Init ==
    /\ file = <<>>
    /\ gen = [p \in Procs |-> 1]
    /\ queue = [p \in Procs |-> <<>>]
    /\ writer = [p \in Procs |-> "none"]
    /\ batch = [p \in Procs |-> <<>>]
    /\ replies = [p \in Procs |-> {}]
    /\ records = [p \in Procs |-> <<>>]
    /\ posts = [p \in Procs |-> <<>>]
    /\ inflight = [p \in Procs |-> {}]
    /\ nextSeq = [p \in Procs |-> 0]
    /\ flushes = [p \in Procs |-> [f \in Flushes |-> "unused"]]
    /\ faults = 0
    /\ emits = [p \in Procs |-> 0]
    /\ accepted = [p \in Procs |-> 0]
    /\ born = [p \in Procs |-> 0]
    /\ covers = [p \in Procs |-> [f \in Flushes |-> {}]]
    /\ attempted = [p \in Procs |-> {}]

-----------------------------------------------------------------------------
(* Emit and flush, from any thread of the process.                          *)

\* ensure_writer_spawned: the first call made on a runtime takes the
\* receiver; without a runtime the command stays queued.
EnsureWriterSpawned(p) ==
    \/ writer[p] = "none" /\ writer' = [writer EXCEPT ![p] = "idle"]
    \/ writer' = writer

\* Mutant: a full queue still takes the event.
HasRoom_Always(p) == TRUE

HasRoom(p) == Len(queue[p]) < Capacity

\* The channel is closed once the writer task is gone; a full queue drops an
\* event with a warning.
Emit(p) ==
    /\ emits[p] < MaxEmits
    /\ emits' = [emits EXCEPT ![p] = @ + 1]
    /\ IF writer[p] # "gone" /\ HasRoom(p)
       THEN /\ accepted' = [accepted EXCEPT ![p] = @ + 1]
            /\ queue' = [queue EXCEPT ![p] =
                            Append(@, EventCommand(accepted[p] + 1))]
       ELSE UNCHANGED <<accepted, queue>>
    /\ EnsureWriterSpawned(p)
    /\ UNCHANGED <<file, gen, batch, replies, records, posts, inflight, nextSeq,
                   flushes, faults, born, covers, attempted>>

\* A full queue rejects a flush before the writer is looked for.
Flush(p, f) ==
    /\ flushes[p][f] = "unused"
    /\ IF writer[p] # "gone" /\ HasRoom(p)
       THEN /\ queue' = [queue EXCEPT ![p] = Append(@, FlushCommand(f))]
            /\ flushes' = [flushes EXCEPT ![p][f] = "waiting"]
            /\ covers' = [covers EXCEPT ![p][f] = (born[p] + 1)..accepted[p]]
            /\ EnsureWriterSpawned(p)
       ELSE /\ flushes' = [flushes EXCEPT ![p][f] = "failed"]
            /\ UNCHANGED <<queue, covers, writer>>
    /\ UNCHANGED <<file, gen, batch, replies, records, posts, inflight, nextSeq,
                   faults, emits, accepted, born, attempted>>

FlushTimesOut(p, f) ==
    /\ flushes[p][f] = "waiting"
    /\ flushes' = [flushes EXCEPT ![p][f] = "failed"]
    /\ UNCHANGED <<file, gen, queue, taskVars, callVars, faults, attempted>>

-----------------------------------------------------------------------------
(* The writer task.                                                         *)

\* recv_many takes what is queued, up to a batch.
Receive(p) ==
    /\ writer[p] = "idle"
    /\ queue[p] # <<>>
    /\ LET n == IF Len(queue[p]) < MaxBatch THEN Len(queue[p]) ELSE MaxBatch
           cmds == SubSeq(queue[p], 1, n)
       IN  /\ queue' = [queue EXCEPT ![p] = SubSeq(@, n + 1, Len(@))]
           /\ batch' = [batch EXCEPT ![p] = EventsOf(cmds)]
           /\ replies' = [replies EXCEPT ![p] = RepliesOf(cmds)]
           /\ writer' = [writer EXCEPT ![p] =
                            IF Places(cmds, "event") = {} THEN "barrier" ELSE "deliver"]
    /\ UNCHANGED <<file, gen, records, posts, inflight, nextSeq, flushes, faults,
                   callVars, attempted>>

\* Number the batch, recovering the seq before the first one.
Deliver(p) ==
    /\ writer[p] = "deliver"
    /\ nextSeq[p] # 0 \/ RecoveryParses
    /\ LET first == IF nextSeq[p] # 0 THEN nextSeq[p] ELSE RecoverLastSeq
       IN  /\ records' = [records EXCEPT ![p] =
                 [i \in DOMAIN batch[p] |->
                     [proc |-> p, event |-> batch[p][i], seq |-> first + i - 1]]]
           /\ nextSeq' = [nextSeq EXCEPT ![p] = first + Len(batch[p])]
    /\ posts' = [posts EXCEPT ![p] = IF Webhook THEN batch[p] ELSE <<>>]
    /\ writer' = [writer EXCEPT ![p] = "append"]
    /\ UNCHANGED <<file, gen, queue, batch, replies, inflight, flushes, faults,
                   callVars, attempted>>

\* The scan fails, or the last line does not parse: the batch is dropped
\* without posts, and the next batch scans again.
RecoveryFails(p) ==
    /\ writer[p] = "deliver"
    /\ nextSeq[p] = 0
    /\ \/ ~RecoveryParses /\ UNCHANGED faults
       \/ Fault
    /\ attempted' = [attempted EXCEPT ![p] = @ \cup ToSet(batch[p])]
    /\ writer' = [writer EXCEPT ![p] = "barrier"]
    /\ UNCHANGED <<file, gen, queue, batch, replies, records, posts, inflight,
                   nextSeq, flushes, callVars>>

Whole(r) == [proc |-> r.proc, event |-> r.event, seq |-> r.seq, whole |-> TRUE]
Torn(r) == [proc |-> r.proc, event |-> r.event, seq |-> r.seq, whole |-> FALSE]

\* One record and its newline in a single append.
AppendRecord(p) ==
    /\ writer[p] = "append"
    /\ file' = Append(file, Whole(Head(records[p])))
    /\ records' = [records EXCEPT ![p] = Tail(@)]
    /\ attempted' = [attempted EXCEPT ![p] = @ \cup {Head(records[p]).event}]
    /\ writer' = [writer EXCEPT ![p] =
                     IF Len(records[p]) = 1 THEN "posts" ELSE "append"]
    /\ UNCHANGED <<gen, queue, batch, replies, posts, inflight, nextSeq, flushes,
                   faults, callVars>>

\* The open or a write fails, the write perhaps after a part of the record:
\* the rest of the batch is given up.
AppendFails(p) ==
    /\ writer[p] = "append"
    /\ Fault
    /\ file' \in {file, Append(file, Torn(Head(records[p])))}
    /\ attempted' = [attempted EXCEPT ![p] = @ \cup ToSet(batch[p])]
    /\ records' = [records EXCEPT ![p] = <<>>]
    /\ writer' = [writer EXCEPT ![p] = "posts"]
    /\ UNCHANGED <<gen, queue, batch, replies, posts, inflight, nextSeq, flushes,
                   callVars>>

\* Mutant: one slot of the fan-out is never used.
Post_OffByOne(p) ==
    /\ writer[p] = "posts"
    /\ posts[p] # <<>>
    /\ Cardinality(inflight[p]) < MaxInflight - 1
    /\ inflight' = [inflight EXCEPT ![p] = @ \cup {Head(posts[p])}]
    /\ posts' = [posts EXCEPT ![p] = Tail(@)]
    /\ UNCHANGED <<file, gen, queue, writer, batch, replies, records, nextSeq,
                   flushes, faults, callVars, attempted>>

\* The writer waits here while the fan-out is full.
Post(p) ==
    /\ writer[p] = "posts"
    /\ posts[p] # <<>>
    /\ Cardinality(inflight[p]) < MaxInflight
    /\ inflight' = [inflight EXCEPT ![p] = @ \cup {Head(posts[p])}]
    /\ posts' = [posts EXCEPT ![p] = Tail(@)]
    /\ UNCHANGED <<file, gen, queue, writer, batch, replies, records, nextSeq,
                   flushes, faults, callVars, attempted>>

PostsSpawned(p) ==
    /\ writer[p] = "posts"
    /\ posts[p] = <<>>
    /\ writer' = [writer EXCEPT ![p] = "barrier"]
    /\ UNCHANGED <<file, gen, queue, batch, replies, records, posts, inflight,
                   nextSeq, flushes, faults, callVars, attempted>>

\* post_payload returns: delivered, or given up after its retries.
PostEnds(p) ==
    /\ \E e \in inflight[p] : inflight' = [inflight EXCEPT ![p] = @ \ {e}]
    /\ UNCHANGED <<file, gen, queue, writer, batch, replies, records, posts,
                   nextSeq, flushes, faults, callVars, attempted>>

Answered(p) ==
    [f \in Flushes |-> IF f \in replies[p] /\ flushes[p][f] = "waiting"
                       THEN "done" ELSE flushes[p][f]]

\* Mutant: a flush is answered without joining the posts.
Barrier_NoJoin(p) ==
    /\ writer[p] = "barrier"
    /\ flushes' = [flushes EXCEPT ![p] = Answered(p)]
    /\ batch' = [batch EXCEPT ![p] = <<>>]
    /\ replies' = [replies EXCEPT ![p] = {}]
    /\ writer' = [writer EXCEPT ![p] = "idle"]
    /\ UNCHANGED <<file, gen, queue, records, posts, inflight, nextSeq, faults,
                   callVars, attempted>>

\* A batch with flushes ends when all posts are joined; the callers that
\* still wait are answered.
Barrier(p) ==
    /\ writer[p] = "barrier"
    /\ replies[p] = {} \/ inflight[p] = {}
    /\ flushes' = [flushes EXCEPT ![p] = Answered(p)]
    /\ batch' = [batch EXCEPT ![p] = <<>>]
    /\ replies' = [replies EXCEPT ![p] = {}]
    /\ writer' = [writer EXCEPT ![p] = "idle"]
    /\ UNCHANGED <<file, gen, queue, records, posts, inflight, nextSeq, faults,
                   callVars, attempted>>

-----------------------------------------------------------------------------
(* The runtime that ran the writer, and the process, may end at any point.  *)

\* Where the writer is, its queue and the flushes that wait for it are lost.
TaskLost(p, state) ==
    /\ writer' = [writer EXCEPT ![p] = state]
    /\ queue' = [queue EXCEPT ![p] = <<>>]
    /\ batch' = [batch EXCEPT ![p] = <<>>]
    /\ replies' = [replies EXCEPT ![p] = {}]
    /\ records' = [records EXCEPT ![p] = <<>>]
    /\ posts' = [posts EXCEPT ![p] = <<>>]
    /\ inflight' = [inflight EXCEPT ![p] = {}]
    /\ nextSeq' = [nextSeq EXCEPT ![p] = 0]
    /\ flushes' = [flushes EXCEPT ![p] = [f \in Flushes |->
                      IF @[f] = "waiting" THEN "failed" ELSE @[f]]]

\* A write under way ends or never begins, unless the machine fails in it.
WriterLost(p, state) ==
    /\ TaskLost(p, state)
    /\ \/ UNCHANGED <<file, faults>>
       \/ /\ writer[p] = "append"
          /\ Fault
          /\ file' = Append(file, Torn(Head(records[p])))

RuntimeStops(p) ==
    /\ writer[p] \notin {"none", "gone"}
    /\ WriterLost(p, "gone")
    /\ UNCHANGED <<gen, callVars, attempted>>

\* The process ends or dies, and a later one is given the same file.
Restart(p) ==
    /\ gen[p] < MaxGen
    /\ gen' = [gen EXCEPT ![p] = @ + 1]
    /\ WriterLost(p, "none")
    /\ born' = [born EXCEPT ![p] = accepted[p]]
    /\ UNCHANGED <<emits, accepted, covers, attempted>>

-----------------------------------------------------------------------------
WriterStep(p) ==
    \/ Receive(p) \/ Deliver(p) \/ RecoveryFails(p)
    \/ AppendRecord(p) \/ AppendFails(p)
    \/ Post(p) \/ PostsSpawned(p) \/ Barrier(p)

Next ==
    \E p \in Procs :
        \/ Emit(p)
        \/ \E f \in Flushes : Flush(p, f) \/ FlushTimesOut(p, f)
        \/ WriterStep(p)
        \/ PostEnds(p)
        \/ RuntimeStops(p)
        \/ Restart(p)

Spec == Init /\ [][Next]_vars

\* The runtime polls the writer task; a stalled post may never return.
StalledSpec == Spec /\ \A p \in Procs : WF_vars(WriterStep(p))

\* Each post has a request timeout and a bounded number of retries.
FairSpec == StalledSpec /\ \A p \in Procs : WF_vars(PostEnds(p))

-----------------------------------------------------------------------------
(* Properties. *)

Record == [proc : Procs, event : 1..MaxEmits, seq : Nat \ {0}]
Piece == [proc : Procs, event : 1..MaxEmits, seq : Nat \ {0}, whole : BOOLEAN]
Command == [kind : {"event"}, id : 1..MaxEmits] \cup [kind : {"flush"}, id : Flushes]

WriterOK(p) ==
    /\ Len(queue[p]) <= Capacity /\ Len(batch[p]) <= MaxBatch
    /\ IsFiniteSet(inflight[p]) /\ Cardinality(inflight[p]) <= MaxInflight
    /\ records[p] # <<>> <=> writer[p] = "append"
    /\ writer[p] \notin {"append", "posts"} => posts[p] = <<>>
    /\ ToSet(posts[p]) \subseteq ToSet(batch[p])
    /\ writer[p] = "deliver" => batch[p] # <<>>
    /\ writer[p] \in {"none", "idle", "gone"} => batch[p] = <<>> /\ replies[p] = {}
    /\ writer[p] = "gone" => queue[p] = <<>>
    /\ born[p] <= accepted[p] /\ accepted[p] <= emits[p]

\* The type invariant, with the bounds of the queue, the batch and the
\* fan-out.
OutboxTypeOK ==
    /\ file \in Seq(Piece)
    /\ gen \in [Procs -> 1..MaxGen]
    /\ queue \in [Procs -> Seq(Command)]
    /\ writer \in [Procs -> {"none", "idle", "deliver", "append", "posts", "barrier", "gone"}]
    /\ batch \in [Procs -> Seq(1..MaxEmits)]
    /\ replies \in [Procs -> SUBSET Flushes]
    /\ records \in [Procs -> Seq(Record)]
    /\ posts \in [Procs -> Seq(1..MaxEmits)]
    /\ inflight \in [Procs -> SUBSET (1..MaxEmits)]
    /\ nextSeq \in [Procs -> Nat]
    /\ flushes \in [Procs -> [Flushes -> {"unused", "waiting", "done", "failed"}]]
    /\ emits \in [Procs -> 0..MaxEmits]
    /\ accepted \in [Procs -> 0..MaxEmits]
    /\ born \in [Procs -> 0..MaxEmits]
    /\ covers \in [Procs -> [Flushes -> SUBSET (1..MaxEmits)]]
    /\ attempted \in [Procs -> SUBSET (1..MaxEmits)]
    /\ faults \in 0..MaxFaults
    /\ \A p \in Procs : WriterOK(p)

\* The events of a process that are queued, and those that its writer has taken
\* and not yet tried to append.
Queued(p) == {queue[p][i].id : i \in Places(queue[p], "event")}
Underway(p) ==
    IF writer[p] = "deliver" THEN ToSet(batch[p])
    ELSE {records[p][i].event : i \in DOMAIN records[p]}

\* What a flush has still to wait for is ahead of it.
FlushQueued(p, i) ==
    LET f == queue[p][i].id
        ahead == {queue[p][j].id : j \in {k \in Places(queue[p], "event") : k < i}}
    IN  /\ flushes[p][f] # "unused"
        /\ covers[p][f] \subseteq attempted[p] \cup Underway(p) \cup ahead
        /\ \A j \in Places(queue[p], "event") : i < j => queue[p][j].id \notin covers[p][f]

FlushTaken(p, f) ==
    /\ flushes[p][f] # "unused"
    /\ covers[p][f] \subseteq attempted[p] \cup Underway(p)
    /\ covers[p][f] \cap Queued(p) = {}

FlushDone(p, f) ==
    /\ covers[p][f] \subseteq attempted[p]
    /\ covers[p][f] \cap
          (inflight[p] \cup ToSet(posts[p]) \cup ToSet(batch[p]) \cup Queued(p)) = {}

\* No event that a writer may still take is lost sight of.
NoneLost(p) ==
    writer[p] # "gone" =>
        (born[p] + 1)..accepted[p] \subseteq attempted[p] \cup Underway(p) \cup Queued(p)

\* A flush that returns success covers every event queued before it: each
\* append was attempted, and none of their posts is under way or still to come
\* (LifecycleOutbox::flush, WriterState::run).
FlushBarrier ==
    \A p \in Procs :
        /\ NoneLost(p)
        /\ \A i \in Places(queue[p], "flush") : FlushQueued(p, i)
        /\ \A f \in replies[p] : FlushTaken(p, f)
        /\ \A f \in Flushes :
              /\ covers[p][f] \subseteq 1..accepted[p]
              /\ flushes[p][f] = "done" => FlushDone(p, f)

\* The line in which the events of a process stand: file, records or batch in
\* delivery, queue.
InLine(p) ==
    /\ \A i, j \in Places(queue[p], "event") : i < j => queue[p][i].id < queue[p][j].id
    /\ \A n \in Queued(p) : born[p] < n /\ n <= accepted[p]
    /\ \A i, j \in DOMAIN batch[p] : i < j => batch[p][i] < batch[p][j]
    /\ \A n \in ToSet(batch[p]) : n <= accepted[p] /\ \A m \in Queued(p) : n < m
    /\ \A i, j \in DOMAIN records[p] : i < j => records[p][i].event < records[p][j].event
    /\ \A i \in DOMAIN records[p] : records[p][i].proc = p /\ records[p][i].event \in ToSet(batch[p])
    /\ \A i \in DOMAIN file : file[i].proc = p =>
          /\ file[i].event <= accepted[p]
          /\ \A n \in Underway(p) \cup Queued(p) : file[i].event < n

\* The numbers given to records still to append are the last ones given, and
\* the records in the file have smaller ones.
Numbered(p) ==
    /\ records[p] # <<>> => nextSeq[p] # 0
    /\ \A i \in DOMAIN records[p] : records[p][i].seq + Len(records[p]) + 1 = nextSeq[p] + i
    /\ nextSeq[p] # 0 => \A i \in DOMAIN file : IsRecord(i) => file[i].seq + Len(records[p]) < nextSeq[p]

\* There is one process at a time.
Alone == \A p, q \in Procs : p = q

\* The events of a process are in the file in the order they were accepted,
\* none of them twice, not even in part, whatever failed and however they were
\* batched; and with one process at a time seq grows from record to record, over
\* restarts, torn lines and failed batches (OutboxInner::enqueue,
\* WriterState::append_lines, recover_last_seq).
RecordOrder ==
    /\ \A p \in Procs : InLine(p) /\ (Alone => Numbered(p))
    /\ \A i, j \in DOMAIN file : i < j =>
          /\ file[i].proc = file[j].proc => file[i].event < file[j].event
          /\ Alone /\ IsRecord(i) /\ IsRecord(j) => file[i].seq < file[j].seq

\* "A partial trailing line from a crash mid-write is ignored": the scan of a
\* writer that has still to recover its seq finds a line that parses.
TornLineIgnored ==
    \A p \in Procs : writer[p] = "deliver" /\ nextSeq[p] = 0 => RecoveryParses

\* Every event the queue of a running writer took is delivered to the file or
\* its append fails, unless the writer is lost.  Under StalledSpec this is "a
\* stalled webhook delays only its own event, never the appends of later
\* events"; under FairSpec no combination of full queue, full fan-out, failed
\* batches and flushes wedges the writer.
AppendsGoOn ==
    \A p \in Procs, n \in 1..MaxEmits :
        (born[p] < n /\ n <= accepted[p] /\ writer[p] \notin {"none", "gone"})
            ~> (n \in attempted[p] \/ writer[p] \in {"none", "gone"})
=============================================================================
