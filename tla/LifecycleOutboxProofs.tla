----------------------- MODULE LifecycleOutboxProofs -----------------------
(***************************************************************************)
(* Proofs about LifecycleOutbox for any processes, capacities, numbers of  *)
(* calls, incarnations and faults.                                         *)
(*                                                                         *)
(* OutboxTypeOK, RecordOrder and FlushBarrier are inductive together.  The *)
(* events of a process stand in one line, file, records in delivery,       *)
(* queue, and every step keeps a prefix of that line in front of the rest. *)
(***************************************************************************)
EXTENDS LifecycleOutbox, SubsequenceProofs, FiniteSetTheorems,
        SequenceTheorems, TLAPS

OutboxInv == OutboxTypeOK /\ FlushBarrier /\ RecordOrder

-----------------------------------------------------------------------------
(* Sorting a batch. *)

LEMMA PlacesType ==
  ASSUME NEW S, NEW cmds \in Seq(S), NEW kind
  PROVE  Places(cmds, kind) \subseteq 1..Len(cmds) /\ Len(cmds) \in Nat
BY DEF Places

\* The events of a batch are all of its events, in their order.
LEMMA EventsSorted ==
  ASSUME NEW cmds \in Seq(Command)
  PROVE  /\ EventsOf(cmds) \in Seq(1..MaxEmits) /\ Len(EventsOf(cmds)) <= Len(cmds)
         /\ EventsOf(cmds) = <<>> <=> Places(cmds, "event") = {}
         /\ ToSet(EventsOf(cmds)) = {cmds[i].id : i \in Places(cmds, "event")}
         /\ (\A i, j \in Places(cmds, "event") : i < j => cmds[i].id < cmds[j].id)
              => \A k, l \in DOMAIN EventsOf(cmds) : k < l => EventsOf(cmds)[k] < EventsOf(cmds)[l]
<1>1. PICK places : places = Places(cmds, "event")
  OBVIOUS
<1>2. PICK n : n = Len(cmds)
  OBVIOUS
<1>3. (\A i \in places : i \in 1..n) /\ n \in Nat /\ \A i \in places : cmds[i].id \in 1..MaxEmits
  BY <1>1, <1>2 DEF Places, Command
<1>4. PICK c : c = Cardinality(places)
  OBVIOUS
<1>5. c \in 0..n /\ IsFiniteSet(places)
  BY <1>3, <1>4, RankType
<1>6. PICK at \in [1..c -> places] :
           /\ AtPlaces(cmds, places) = [k \in 1..c |-> cmds[at[k]]]
           /\ \A k, l \in 1..c : k < l => at[k] < at[l]
           /\ \A i \in places : \E k \in 1..c : at[k] = i
  BY <1>2, <1>3, <1>4, PlacesInOrder
<1>7. PICK e : e = EventsOf(cmds)
  OBVIOUS
<1>8. e = [k \in 1..c |-> cmds[at[k]].id]
  BY <1>1, <1>6, <1>7 DEF EventsOf
<1>9. /\ e \in Seq(1..MaxEmits) /\ Len(e) = c /\ DOMAIN e = 1..c
  <2>1. \A k \in 1..c : cmds[at[k]].id \in 1..MaxEmits
    BY <1>3, <1>6
  <2> QED
    BY <1>5, <1>8, <2>1
<1>10. e = <<>> <=> places = {}
  <2>1. c = 0 <=> places = {}
    BY <1>4, <1>5, FS_EmptySet
  <2> QED
    BY <1>9, <2>1
<1>11. ToSet(e) = {cmds[i].id : i \in places}
  BY <1>6, <1>8, <1>9 DEF ToSet
<1>12. (\A i, j \in places : i < j => cmds[i].id < cmds[j].id)
         => \A k, l \in DOMAIN e : k < l => e[k] < e[l]
  BY <1>6, <1>8, <1>9
<1> QED
  BY <1>1, <1>2, <1>5, <1>7, <1>9, <1>10, <1>11, <1>12

LEMMA SeqParts ==
  ASSUME NEW S, NEW s \in Seq(S)
  PROVE  Len(s) \in Nat /\ DOMAIN s = 1..Len(s) /\ \A i \in 1..Len(s) : s[i] \in S
OBVIOUS

LEMMA ToSetType ==
  ASSUME NEW S, NEW s \in Seq(S)
  PROVE  \A x \in ToSet(s) : x \in S
BY DEF ToSet

-----------------------------------------------------------------------------
(* A step of one process. *)

Types ==
    /\ file \in Seq(Piece)
    /\ gen \in [Procs -> 1..MaxGen]
    /\ queue \in [Procs -> Seq(Command)]
    /\ writer \in [Procs -> {"none", "idle", "deliver", "append", "posts", "barrier", "gone"}]
    /\ batch \in [Procs -> Seq(1..MaxEmits)]
    /\ replies \in [Procs -> SUBSET Flushes]
    /\ records \in [Procs -> Seq(Record)]
    /\ posts \in [Procs -> Seq(1..MaxEmits)]
    /\ inflight \in [Procs -> SUBSET (1..MaxEmits)]
    /\ nextSeq \in [Procs -> Nat]
    /\ flushes \in [Procs -> [Flushes -> {"unused", "waiting", "done", "failed"}]]
    /\ emits \in [Procs -> 0..MaxEmits]
    /\ accepted \in [Procs -> 0..MaxEmits]
    /\ born \in [Procs -> 0..MaxEmits]
    /\ covers \in [Procs -> [Flushes -> SUBSET (1..MaxEmits)]]
    /\ attempted \in [Procs -> SUBSET (1..MaxEmits)]
    /\ faults \in 0..MaxFaults

FlushesOK(p) ==
    /\ \A i \in Places(queue[p], "flush") : FlushQueued(p, i)
    /\ \A f \in replies[p] : FlushTaken(p, f)
    /\ \A f \in Flushes :
          /\ covers[p][f] \subseteq 1..accepted[p]
          /\ flushes[p][f] = "done" => FlushDone(p, f)

\* The invariant as far as it is about one process.
Own(p) ==
    /\ WriterOK(p) /\ NoneLost(p) /\ FlushesOK(p) /\ InLine(p)
    /\ Alone => Numbered(p)

FileOrder ==
    \A i, j \in DOMAIN file : i < j =>
        /\ file[i].proc = file[j].proc => file[i].event < file[j].event
        /\ Alone /\ IsRecord(i) /\ IsRecord(j) => file[i].seq < file[j].seq

LEMMA InvParts == OutboxInv <=> Types /\ FileOrder /\ \A p \in Procs : Own(p)
<1>1. OutboxTypeOK <=> Types /\ \A p \in Procs : WriterOK(p)
  BY DEF OutboxTypeOK, Types
<1>2. FlushBarrier <=> \A p \in Procs : NoneLost(p) /\ FlushesOK(p)
  BY DEF FlushBarrier, FlushesOK
<1>3. RecordOrder <=> FileOrder /\ \A p \in Procs : InLine(p) /\ (Alone => Numbered(p))
  BY DEF RecordOrder, FileOrder
<1> QED
  BY <1>1, <1>2, <1>3 DEF OutboxInv, Own

\* The other processes are as they were.
OthersStay(p) ==
    \A q \in Procs \ {p} :
        /\ queue'[q] = queue[q] /\ writer'[q] = writer[q] /\ batch'[q] = batch[q]
        /\ replies'[q] = replies[q] /\ records'[q] = records[q] /\ posts'[q] = posts[q]
        /\ inflight'[q] = inflight[q] /\ nextSeq'[q] = nextSeq[q]
        /\ flushes'[q] = flushes[q] /\ emits'[q] = emits[q]
        /\ accepted'[q] = accepted[q] /\ born'[q] = born[q]
        /\ covers'[q] = covers[q] /\ attempted'[q] = attempted[q]

\* The file is as it was, or p has appended to it.
FileOf(p) ==
    \/ file' = file
    \/ \E x \in Piece : x.proc = p /\ file' = Append(file, x)

LEMMA OthersOwn ==
  ASSUME OutboxInv, NEW p \in Procs, OthersStay(p), FileOf(p), NEW q \in Procs, q # p
  PROVE  Own(q)'
<1>1. /\ queue'[q] = queue[q] /\ writer'[q] = writer[q] /\ batch'[q] = batch[q]
      /\ replies'[q] = replies[q] /\ records'[q] = records[q] /\ posts'[q] = posts[q]
      /\ inflight'[q] = inflight[q] /\ nextSeq'[q] = nextSeq[q]
      /\ flushes'[q] = flushes[q] /\ emits'[q] = emits[q]
      /\ accepted'[q] = accepted[q] /\ born'[q] = born[q]
      /\ covers'[q] = covers[q] /\ attempted'[q] = attempted[q]
  BY DEF OthersStay
<1>2. Own(q) /\ Types
  BY InvParts
<1>3. Queued(q)' = Queued(q) /\ Underway(q)' = Underway(q)
  BY <1>1 DEF Queued, Underway, Places
<1>4. WriterOK(q)'
  BY <1>1, <1>2 DEF Own, WriterOK
<1>5. NoneLost(q)'
  BY <1>1, <1>2, <1>3 DEF Own, NoneLost
<1>6. FlushesOK(q)'
  BY <1>1, <1>2, <1>3 DEF Own, FlushesOK, FlushQueued, FlushTaken, FlushDone, Places
<1>7. \A i \in DOMAIN file' : file'[i].proc = q => i \in DOMAIN file /\ file'[i] = file[i]
  <2>1. CASE file' = file
    BY <2>1
  <2>2. ASSUME NEW x \in Piece, x.proc = p, file' = Append(file, x)
        PROVE  \A i \in DOMAIN file' : file'[i].proc = q => i \in DOMAIN file /\ file'[i] = file[i]
    <3>1. file \in Seq(Piece)
      BY <1>2 DEF Types
    <3>2. \A i \in DOMAIN file' : (i \in DOMAIN file /\ file'[i] = file[i]) \/ file'[i] = x
      BY <2>2, <3>1
    <3> QED
      BY <2>2, <3>2
  <2> QED
    BY <2>1, <2>2 DEF FileOf
<1>8. InLine(q)'
  BY <1>1, <1>2, <1>3, <1>7 DEF Own, InLine, Places
<1>9. ~Alone
  BY DEF Alone
<1> QED
  BY <1>4, <1>5, <1>6, <1>8, <1>9 DEF Own, Alone

LEMMA StepParts ==
  ASSUME OutboxInv, NEW p \in Procs, Types', FileOrder', OthersStay(p), FileOf(p), Own(p)'
  PROVE  OutboxInv'
<1>1. \A q \in Procs : Own(q)'
  BY OthersOwn
<1>2. OutboxTypeOK'
  BY <1>1 DEF OutboxTypeOK, Types, Own
<1>3. FlushBarrier'
  BY <1>1 DEF FlushBarrier, FlushesOK, Own
<1>4. RecordOrder'
  BY <1>1 DEF RecordOrder, FileOrder, Own
<1> QED
  BY <1>2, <1>3, <1>4 DEF OutboxInv

-----------------------------------------------------------------------------
(* What stays when parts of a process stay. *)

LEMMA Facts ==
  ASSUME OutboxInv, NEW p \in Procs
  PROVE  /\ Types /\ FileOrder /\ WriterOK(p) /\ NoneLost(p) /\ FlushesOK(p) /\ InLine(p)
         /\ Alone => Numbered(p)
         /\ file \in Seq(Piece) /\ queue[p] \in Seq(Command) /\ batch[p] \in Seq(1..MaxEmits)
         /\ records[p] \in Seq(Record) /\ posts[p] \in Seq(1..MaxEmits)
         /\ replies[p] \subseteq Flushes /\ inflight[p] \subseteq 1..MaxEmits
         /\ nextSeq[p] \in Nat /\ accepted[p] \in 0..MaxEmits /\ born[p] \in 0..MaxEmits
         /\ emits[p] \in 0..MaxEmits /\ attempted[p] \subseteq 1..MaxEmits
         /\ flushes[p] \in [Flushes -> {"unused", "waiting", "done", "failed"}]
         /\ covers[p] \in [Flushes -> SUBSET (1..MaxEmits)]
<1>1. Types /\ FileOrder /\ Own(p)
  BY InvParts
<1> QED
  BY <1>1 DEF Own, Types

LEMMA FileStays ==
  ASSUME OutboxInv, NEW p \in Procs, UNCHANGED file
  PROVE  FileOrder' /\ FileOf(p)
BY Facts DEF FileOrder, FileOf, IsRecord, WholeAt, Alone

LEMMA NumbersStay ==
  ASSUME OutboxInv, NEW p \in Procs, UNCHANGED file, records'[p] = records[p],
         nextSeq'[p] = nextSeq[p]
  PROVE  (Alone => Numbered(p))'
BY Facts DEF Numbered, IsRecord, WholeAt, Alone

LEMMA LineStays ==
  ASSUME OutboxInv, NEW p \in Procs, UNCHANGED file, queue'[p] = queue[p],
         batch'[p] = batch[p] \/ (batch'[p] = <<>> /\ records'[p] = <<>>),
         records'[p] = records[p] \/ records'[p] = <<>>,
         accepted'[p] = accepted[p], born'[p] = born[p],
         Underway(p)' \subseteq Underway(p)
  PROVE  InLine(p)'
<1>1. Queued(p)' = Queued(p) /\ Places(queue[p], "event")' = Places(queue[p], "event")
  BY DEF Queued, Places
<1>2. InLine(p)
  BY Facts
<1>3. ToSet(batch[p])' \subseteq ToSet(batch[p])
  BY DEF ToSet
<1> QED
  BY <1>1, <1>2, <1>3 DEF InLine

Delivering(p) == inflight[p] \cup ToSet(posts[p]) \cup ToSet(batch[p])

LEMMA FlushesStay ==
  ASSUME OutboxInv, NEW p \in Procs, queue'[p] = queue[p], replies'[p] \subseteq replies[p],
         covers'[p] = covers[p], accepted'[p] = accepted[p], attempted[p] \subseteq attempted'[p],
         Underway(p) \subseteq attempted'[p] \cup Underway(p)',
         Delivering(p)' \subseteq Delivering(p),
         \A f \in Flushes : flushes[p][f] # "unused" => flushes'[p][f] # "unused",
         \A f \in Flushes : flushes'[p][f] = "done" => flushes[p][f] = "done" \/ FlushDone(p, f)'
  PROVE  FlushesOK(p)'
<1>1. /\ Queued(p)' = Queued(p) /\ Places(queue[p], "event")' = Places(queue[p], "event")
      /\ Places(queue[p], "flush")' = Places(queue[p], "flush")
  BY DEF Queued, Places
<1>2. FlushesOK(p) /\ replies[p] \subseteq Flushes
  BY Facts
<1>3. ASSUME NEW i \in Places(queue[p], "flush")
      PROVE  FlushQueued(p, i)'
  <2>1. queue[p][i].id \in Flushes /\ FlushQueued(p, i)
    BY <1>2, Facts DEF FlushesOK, Places, Command
  <2> QED
    BY <1>1, <2>1 DEF FlushQueued
<1>4. ASSUME NEW f \in replies'[p]
      PROVE  FlushTaken(p, f)'
  <2>1. FlushTaken(p, f) /\ f \in Flushes
    BY <1>2 DEF FlushesOK
  <2> QED
    BY <1>1, <2>1 DEF FlushTaken
<1>5. ASSUME NEW f \in Flushes, flushes'[p][f] = "done"
      PROVE  FlushDone(p, f)'
  <2>1. CASE flushes[p][f] = "done"
    <3>1. FlushDone(p, f)
      BY <1>2, <2>1 DEF FlushesOK
    <3> QED
      BY <1>1, <3>1 DEF FlushDone, Delivering
  <2> QED
    BY <1>5, <2>1
<1>6. \A f \in Flushes : covers'[p][f] \subseteq 1..accepted'[p]
  BY <1>2 DEF FlushesOK
<1> QED
  BY <1>1, <1>3, <1>4, <1>5, <1>6 DEF FlushesOK

LEMMA NoneLostStays ==
  ASSUME OutboxInv, NEW p \in Procs, queue'[p] = queue[p], accepted'[p] = accepted[p],
         born'[p] = born[p], attempted[p] \subseteq attempted'[p],
         Underway(p) \subseteq attempted'[p] \cup Underway(p)', writer[p] # "gone"
  PROVE  NoneLost(p)'
<1>1. Queued(p)' = Queued(p)
  BY DEF Queued, Places
<1>2. NoneLost(p)
  BY Facts
<1> QED
  BY <1>1, <1>2 DEF NoneLost

-----------------------------------------------------------------------------
(* Steps that leave the queue and the file alone. *)

LEMMA FlushTimesOutOK ==
  ASSUME OutboxInv, NEW p \in Procs, NEW f \in Flushes, FlushTimesOut(p, f)
  PROVE  OutboxInv'
<1>1. /\ UNCHANGED <<file, gen, queue, writer, batch, replies, records, posts, inflight,
                     nextSeq, faults, emits, accepted, born, covers, attempted>>
      /\ flushes' = [flushes EXCEPT ![p][f] = "failed"]
  BY DEF FlushTimesOut, taskVars, callVars
<1>2. Types /\ WriterOK(p) /\ NoneLost(p)
  BY Facts
<1>3. Types' /\ OthersStay(p)
  BY <1>1, <1>2 DEF Types, OthersStay
<1>4. Underway(p)' = Underway(p) /\ Delivering(p)' = Delivering(p)
  BY <1>1 DEF Underway, Delivering
<1>5. WriterOK(p)' /\ NoneLost(p)'
  BY <1>1, <1>2, <1>4 DEF WriterOK, NoneLost, Queued, Places
<1>6. \A g \in Flushes : flushes'[p][g] = IF g = f THEN "failed" ELSE flushes[p][g]
  BY <1>1, <1>2 DEF Types
<1>7. FlushesOK(p)'
  <2>1. /\ queue'[p] = queue[p] /\ replies'[p] \subseteq replies[p] /\ covers'[p] = covers[p]
        /\ accepted'[p] = accepted[p] /\ attempted[p] \subseteq attempted'[p]
    BY <1>1
  <2>2. \A g \in Flushes : /\ flushes[p][g] # "unused" => flushes'[p][g] # "unused"
                           /\ flushes'[p][g] = "done" => flushes[p][g] = "done"
    BY <1>6
  <2> QED
    BY <1>4, <2>1, <2>2, FlushesStay
<1> QED
  <2>1. InLine(p)'
    <3>1. Underway(p)' \subseteq Underway(p)
      BY <1>4
    <3>2. /\ queue'[p] = queue[p] /\ batch'[p] = batch[p] /\ records'[p] = records[p]
          /\ accepted'[p] = accepted[p] /\ born'[p] = born[p] /\ UNCHANGED file
      BY <1>1
    <3> QED
      BY <3>1, <3>2, LineStays
  <2>2. FileOrder' /\ FileOf(p) /\ (Alone => Numbered(p))'
    BY <1>1, FileStays, NumbersStay
  <2> QED
    BY <1>3, <1>5, <1>7, <2>1, <2>2, StepParts DEF Own

LEMMA RecoveryFailsOK ==
  ASSUME OutboxInv, NEW p \in Procs, RecoveryFails(p)
  PROVE  OutboxInv'
<1>1. /\ UNCHANGED <<file, gen, queue, batch, replies, records, posts, inflight,
                     nextSeq, flushes, emits, accepted, born, covers>>
      /\ writer[p] = "deliver" /\ writer' = [writer EXCEPT ![p] = "barrier"]
      /\ attempted' = [attempted EXCEPT ![p] = attempted[p] \cup ToSet(batch[p])]
      /\ faults' = faults \/ (faults < MaxFaults /\ faults' = faults + 1)
  BY DEF RecoveryFails, callVars, Fault
<1>2. Types /\ WriterOK(p) /\ batch[p] \in Seq(1..MaxEmits) /\ attempted[p] \subseteq 1..MaxEmits
  BY Facts
<1>3. writer'[p] = "barrier" /\ attempted'[p] = attempted[p] \cup ToSet(batch[p])
  <2>1. p \in DOMAIN writer /\ p \in DOMAIN attempted
    BY <1>2 DEF Types
  <2> QED
    BY <1>1, <2>1, Zenon
<1>4. ToSet(batch[p]) \subseteq 1..MaxEmits
  BY <1>2, ToSetType
<1>5. Types' /\ OthersStay(p)
  <2>1. faults' \in 0..MaxFaults
    BY <1>1, <1>2, OutboxAssumption, SMTT(30) DEF Types
  <2>2. attempted' \in [Procs -> SUBSET (1..MaxEmits)]
    BY <1>1, <1>2, <1>4 DEF Types
  <2> QED
    BY <1>1, <1>2, <2>1, <2>2 DEF Types, OthersStay
<1>6. /\ Underway(p) = ToSet(batch[p]) /\ records[p] = <<>> /\ Underway(p)' = {}
      /\ Delivering(p)' = Delivering(p)
  BY <1>1, <1>2, <1>3 DEF Underway, Delivering, WriterOK
<1>7. WriterOK(p)'
  BY <1>1, <1>2, <1>3 DEF WriterOK
<1>8. FlushesOK(p)' /\ NoneLost(p)'
  BY <1>1, <1>3, <1>6, FlushesStay, NoneLostStays
<1> QED
  <2>1. InLine(p)'
    BY <1>1, <1>6, LineStays
  <2>2. FileOrder' /\ FileOf(p) /\ (Alone => Numbered(p))'
    BY <1>1, FileStays, NumbersStay
  <2> QED
    BY <1>5, <1>7, <1>8, <2>1, <2>2, StepParts DEF Own

LEMMA HeadTail ==
  ASSUME NEW S, NEW s \in Seq(S), s # <<>>
  PROVE  /\ Head(s) \in S /\ Head(s) = s[1] /\ 1 \in DOMAIN s /\ Head(s) \in ToSet(s)
         /\ Tail(s) \in Seq(S) /\ Len(Tail(s)) = Len(s) - 1 /\ Len(s) \in Nat /\ Len(s) > 0
         /\ \A i \in DOMAIN Tail(s) : i + 1 \in DOMAIN s /\ Tail(s)[i] = s[i + 1]
         /\ \A x \in ToSet(Tail(s)) : x \in ToSet(s)
<1>1. /\ Head(s) \in S /\ Head(s) = s[1] /\ 1 \in DOMAIN s /\ Tail(s) \in Seq(S)
      /\ Len(Tail(s)) = Len(s) - 1 /\ Len(s) \in Nat /\ Len(s) > 0
      /\ \A i \in DOMAIN Tail(s) : i + 1 \in DOMAIN s /\ Tail(s)[i] = s[i + 1]
  OBVIOUS
<1> QED
  BY <1>1 DEF ToSet

LEMMA PostOK ==
  ASSUME OutboxInv, NEW p \in Procs, Post(p)
  PROVE  OutboxInv'
<1>1. /\ UNCHANGED <<file, gen, queue, writer, batch, replies, records, nextSeq, flushes,
                     faults, emits, accepted, born, covers, attempted>>
      /\ writer[p] = "posts" /\ posts[p] # <<>> /\ Cardinality(inflight[p]) < MaxInflight
      /\ inflight' = [inflight EXCEPT ![p] = inflight[p] \cup {Head(posts[p])}]
      /\ posts' = [posts EXCEPT ![p] = Tail(posts[p])]
  BY DEF Post, callVars
<1>2. /\ Types /\ WriterOK(p) /\ posts[p] \in Seq(1..MaxEmits)
      /\ inflight[p] \subseteq 1..MaxEmits
  BY Facts
<1>3. /\ Head(posts[p]) \in 1..MaxEmits /\ Tail(posts[p]) \in Seq(1..MaxEmits)
      /\ Head(posts[p]) \in ToSet(posts[p])
      /\ \A x \in ToSet(Tail(posts[p])) : x \in ToSet(posts[p])
  BY <1>1, <1>2, HeadTail
<1>4. inflight'[p] = inflight[p] \cup {Head(posts[p])} /\ posts'[p] = Tail(posts[p])
  <2>1. p \in DOMAIN inflight /\ p \in DOMAIN posts
    BY <1>2 DEF Types
  <2> QED
    BY <1>1, <2>1, Zenon
<1>5. Types' /\ OthersStay(p)
  <2>1. inflight' \in [Procs -> SUBSET (1..MaxEmits)] /\ posts' \in [Procs -> Seq(1..MaxEmits)]
    BY <1>1, <1>2, <1>3 DEF Types
  <2> QED
    BY <1>1, <1>2, <2>1 DEF Types, OthersStay
<1>6. Underway(p)' = Underway(p) /\ Delivering(p)' \subseteq Delivering(p)
  BY <1>1, <1>3, <1>4 DEF Underway, Delivering
<1>7. WriterOK(p)'
  <2>1. IsFiniteSet(inflight[p]) /\ Cardinality(inflight[p]) \in Nat
    BY <1>2, FS_CardinalityType DEF WriterOK
  <2>2. /\ IsFiniteSet(inflight[p] \cup {Head(posts[p])})
        /\ \/ Cardinality(inflight[p] \cup {Head(posts[p])}) = Cardinality(inflight[p])
           \/ Cardinality(inflight[p] \cup {Head(posts[p])}) = Cardinality(inflight[p]) + 1
    BY <2>1, FS_AddElement
  <2>3. IsFiniteSet(inflight'[p]) /\ Cardinality(inflight'[p]) <= MaxInflight
    <3>1. PICK c : c = Cardinality(inflight[p] \cup {Head(posts[p])})
      OBVIOUS
    <3>2. PICK d : d = Cardinality(inflight[p])
      OBVIOUS
    <3>3. c <= MaxInflight
      <4>1. d \in Nat /\ d < MaxInflight /\ (c = d \/ c = d + 1)
        BY <1>1, <2>1, <2>2, <3>1, <3>2, Zenon
      <4> QED
        BY <4>1, OutboxAssumption
    <3> QED
      BY <1>4, <2>2, <3>1, <3>3, Zenon
  <2>4. ToSet(posts'[p]) \subseteq ToSet(batch[p])
    BY <1>2, <1>3, <1>4 DEF WriterOK
  <2> QED
    BY <1>1, <1>2, <2>3, <2>4 DEF WriterOK
<1>8. FlushesOK(p)'
  BY <1>1, <1>6, FlushesStay
<1>9. NoneLost(p)'
  BY <1>1, <1>6, NoneLostStays
<1>10. InLine(p)'
  BY <1>1, <1>6, LineStays
<1>11. FileOrder' /\ FileOf(p) /\ (Alone => Numbered(p))'
  BY <1>1, FileStays, NumbersStay
<1> QED
  BY <1>5, <1>7, <1>8, <1>9, <1>10, <1>11, StepParts DEF Own

LEMMA PostsSpawnedOK ==
  ASSUME OutboxInv, NEW p \in Procs, PostsSpawned(p)
  PROVE  OutboxInv'
<1>1. /\ UNCHANGED <<file, gen, queue, batch, replies, records, posts, inflight, nextSeq,
                     flushes, faults, emits, accepted, born, covers, attempted>>
      /\ writer[p] = "posts" /\ posts[p] = <<>> /\ writer' = [writer EXCEPT ![p] = "barrier"]
  BY DEF PostsSpawned, callVars
<1>2. Types /\ WriterOK(p)
  BY Facts
<1>3. Types' /\ OthersStay(p) /\ writer'[p] = "barrier"
  BY <1>1, <1>2 DEF Types, OthersStay
<1>4. Underway(p)' = Underway(p) /\ Delivering(p)' = Delivering(p)
  BY <1>1, <1>3 DEF Underway, Delivering
<1>5. WriterOK(p)'
  BY <1>1, <1>2, <1>3 DEF WriterOK
<1>6. FlushesOK(p)'
  BY <1>1, <1>4, FlushesStay
<1>7. NoneLost(p)'
  BY <1>1, <1>4, NoneLostStays
<1>8. InLine(p)'
  BY <1>1, <1>4, LineStays
<1>9. FileOrder' /\ FileOf(p) /\ (Alone => Numbered(p))'
  BY <1>1, FileStays, NumbersStay
<1> QED
  BY <1>3, <1>5, <1>6, <1>7, <1>8, <1>9, StepParts DEF Own

LEMMA PostEndsOK ==
  ASSUME OutboxInv, NEW p \in Procs, PostEnds(p)
  PROVE  OutboxInv'
<1>1. /\ UNCHANGED <<file, gen, queue, writer, batch, replies, records, posts, nextSeq,
                     flushes, faults, emits, accepted, born, covers, attempted>>
      /\ \E e \in inflight[p] : inflight' = [inflight EXCEPT ![p] = inflight[p] \ {e}]
  BY DEF PostEnds, callVars
<1>2. PICK e \in inflight[p] : inflight' = [inflight EXCEPT ![p] = inflight[p] \ {e}]
  BY <1>1
<1>3. Types /\ WriterOK(p) /\ NoneLost(p) /\ inflight[p] \subseteq 1..MaxEmits
  BY Facts
<1>4. Types' /\ OthersStay(p) /\ inflight'[p] = inflight[p] \ {e}
  BY <1>1, <1>2, <1>3 DEF Types, OthersStay
<1>5. Underway(p)' = Underway(p) /\ Delivering(p)' \subseteq Delivering(p)
  BY <1>1, <1>4 DEF Underway, Delivering
<1>6. WriterOK(p)'
  <2>1. IsFiniteSet(inflight[p]) /\ Cardinality(inflight[p]) \in Nat
    BY <1>3, FS_CardinalityType DEF WriterOK
  <2>2. IsFiniteSet(inflight[p] \ {e}) /\ Cardinality(inflight[p] \ {e}) = Cardinality(inflight[p]) - 1
    BY <1>2, <2>1, FS_RemoveElement
  <2>3. IsFiniteSet(inflight'[p]) /\ Cardinality(inflight'[p]) <= MaxInflight
    BY <1>3, <1>4, <2>1, <2>2, OutboxAssumption DEF WriterOK
  <2> QED
    BY <1>1, <1>3, <2>3 DEF WriterOK
<1>7. FlushesOK(p)'
  BY <1>1, <1>5, FlushesStay
<1>8. NoneLost(p)'
  BY <1>1, <1>3, <1>5 DEF NoneLost, Queued, Places
<1>9. InLine(p)'
  BY <1>1, <1>5, LineStays
<1>10. FileOrder' /\ FileOf(p) /\ (Alone => Numbered(p))'
  BY <1>1, FileStays, NumbersStay
<1> QED
  BY <1>4, <1>6, <1>7, <1>8, <1>9, <1>10, StepParts DEF Own

LEMMA BarrierOK ==
  ASSUME OutboxInv, NEW p \in Procs, Barrier(p)
  PROVE  OutboxInv'
<1>1. /\ UNCHANGED <<file, gen, queue, records, posts, inflight, nextSeq, faults,
                     emits, accepted, born, covers, attempted>>
      /\ writer[p] = "barrier" /\ (replies[p] = {} \/ inflight[p] = {})
      /\ flushes' = [flushes EXCEPT ![p] = Answered(p)]
      /\ batch' = [batch EXCEPT ![p] = <<>>]
      /\ replies' = [replies EXCEPT ![p] = {}]
      /\ writer' = [writer EXCEPT ![p] = "idle"]
  BY DEF Barrier, callVars
<1>2. /\ Types /\ WriterOK(p) /\ FlushesOK(p)
      /\ flushes[p] \in [Flushes -> {"unused", "waiting", "done", "failed"}]
  BY Facts
<1>3. /\ Answered(p) \in [Flushes -> {"unused", "waiting", "done", "failed"}]
      /\ \A f \in Flushes : Answered(p)[f] = IF f \in replies[p] /\ flushes[p][f] = "waiting"
                                             THEN "done" ELSE flushes[p][f]
  BY <1>2 DEF Answered
<1>4. batch'[p] = <<>> /\ replies'[p] = {} /\ writer'[p] = "idle" /\ flushes'[p] = Answered(p)
  <2>1. p \in DOMAIN batch /\ p \in DOMAIN replies /\ p \in DOMAIN writer /\ p \in DOMAIN flushes
    BY <1>2 DEF Types
  <2> QED
    BY <1>1, <2>1, Zenon
<1>5. Types' /\ OthersStay(p)
  <2>1. /\ flushes' \in [Procs -> [Flushes -> {"unused", "waiting", "done", "failed"}]]
        /\ batch' \in [Procs -> Seq(1..MaxEmits)]
    BY <1>1, <1>2, <1>3 DEF Types
  <2> QED
    BY <1>1, <1>2, <2>1 DEF Types, OthersStay
<1>6. records[p] = <<>> /\ posts[p] = <<>>
  BY <1>1, <1>2 DEF WriterOK
<1>7. /\ Underway(p) = {} /\ Underway(p)' = {} /\ Delivering(p)' \subseteq Delivering(p)
      /\ ToSet(batch[p])' = {} /\ ToSet(posts[p])' = {}
  BY <1>1, <1>4, <1>6 DEF Underway, Delivering, ToSet
<1>8. WriterOK(p)'
  BY <1>1, <1>2, <1>4, <1>6, <1>7, OutboxAssumption DEF WriterOK
<1>9. ASSUME NEW f \in Flushes, flushes'[p][f] = "done", flushes[p][f] # "done"
      PROVE  FlushDone(p, f)'
  <2>1. f \in replies[p]
    BY <1>3, <1>4, <1>9
  <2>2. FlushTaken(p, f) /\ inflight[p] = {}
    BY <1>1, <1>2, <2>1 DEF FlushesOK
  <2>3. Queued(p)' = Queued(p)
    BY <1>1 DEF Queued, Places
  <2> QED
    BY <1>1, <1>7, <2>2, <2>3 DEF FlushTaken, FlushDone
<1>10. \A f \in Flushes : flushes[p][f] # "unused" => flushes'[p][f] # "unused"
  BY <1>3, <1>4
<1>11. FlushesOK(p)'
  BY <1>1, <1>4, <1>7, <1>9, <1>10, FlushesStay
<1>12. NoneLost(p)'
  BY <1>1, <1>7, NoneLostStays
<1>13. InLine(p)'
  BY <1>1, <1>4, <1>6, <1>7, LineStays
<1>14. FileOrder' /\ FileOf(p) /\ (Alone => Numbered(p))'
  BY <1>1, FileStays, NumbersStay
<1> QED
  BY <1>5, <1>8, <1>11, <1>12, <1>13, <1>14, StepParts DEF Own

-----------------------------------------------------------------------------
(* Steps that append to the file. *)

\* The first record still to append follows all pieces of its process, and its
\* number all numbers in the file.
LEMMA FileGrows ==
  ASSUME OutboxInv, NEW p \in Procs, writer[p] = "append",
         NEW x, x \in {Whole(Head(records[p])), Torn(Head(records[p]))}, file' = Append(file, x)
  PROVE  /\ x \in Piece /\ x.proc = p /\ x.event = records[p][1].event
         /\ x.seq = records[p][1].seq
         /\ file' \in Seq(Piece) /\ FileOf(p) /\ FileOrder' /\ Len(file) \in Nat
         /\ DOMAIN file = 1..Len(file) /\ DOMAIN file' = 1..(Len(file) + 1)
         /\ file'[Len(file) + 1] = x /\ \A i \in DOMAIN file : file'[i] = file[i]
         /\ \A i \in DOMAIN file : IsRecord(i)' => IsRecord(i)
         /\ IsRecord(Len(file) + 1)' => x.whole
<1>1. /\ records[p] \in Seq(Record) /\ file \in Seq(Piece) /\ WriterOK(p) /\ InLine(p)
      /\ FileOrder /\ (Alone => Numbered(p))
  BY Facts
<1>2. records[p] # <<>>
  BY <1>1 DEF WriterOK
<1>3. PICK r : r = Head(records[p])
  OBVIOUS
<1>4. r \in Record /\ r = records[p][1] /\ 1 \in DOMAIN records[p]
  BY <1>1, <1>2, <1>3, HeadTail
<1>5. r.proc = p
  BY <1>1, <1>4 DEF InLine
<1>6. x \in Piece /\ x.proc = p /\ x.event = r.event /\ x.seq = r.seq
  <2>1. r.event \in 1..MaxEmits /\ r.seq \in Nat \ {0}
    BY <1>4 DEF Record
  <2>2. PICK w \in BOOLEAN : x = [proc |-> p, event |-> r.event, seq |-> r.seq, whole |-> w]
    BY <1>3, <1>5 DEF Whole, Torn
  <2> QED
    BY <2>1, <2>2 DEF Piece
<1>7. /\ file' \in Seq(Piece) /\ Len(file) \in Nat
      /\ DOMAIN file = 1..Len(file) /\ DOMAIN file' = 1..(Len(file) + 1)
      /\ file'[Len(file) + 1] = x /\ \A i \in DOMAIN file : file'[i] = file[i]
  BY <1>1, <1>6
<1>8. FileOf(p)
  BY <1>6 DEF FileOf
<1>9. \A i \in DOMAIN file : IsRecord(i)' => IsRecord(i)
  BY <1>7 DEF IsRecord, WholeAt
<1>10. IsRecord(Len(file) + 1)' => x.whole
  BY <1>7 DEF IsRecord, WholeAt
<1>11. ASSUME NEW i \in DOMAIN file
       PROVE  /\ file[i].proc = p => file[i].event < x.event
              /\ Alone /\ IsRecord(i) => file[i].seq < x.seq
  <2>1. file[i].proc = p => file[i].event < x.event
    <3>1. r.event \in Underway(p)
      BY <1>4 DEF Underway
    <3> QED
      BY <1>1, <1>6, <3>1 DEF InLine
  <2>2. ASSUME Alone, IsRecord(i)
        PROVE  file[i].seq < x.seq
    <3>1. PICK n : n = Len(records[p])
      OBVIOUS
    <3>2. PICK m : m = nextSeq[p]
      OBVIOUS
    <3>3. n \in Nat /\ m \in Nat /\ r.seq \in Nat /\ file[i].seq \in Nat
      <4>1. n \in Nat /\ m \in Nat
        BY <1>1, <3>1, <3>2, Facts
      <4>2. file[i] \in Piece
        BY <1>1
      <4> QED
        BY <1>4, <4>1, <4>2 DEF Record, Piece
    <3>4. r.seq + n + 1 = m + 1 /\ m # 0 /\ file[i].seq + n < m
      BY <1>1, <1>2, <1>4, <2>2, <3>1, <3>2 DEF Numbered
    <3> QED
      BY <1>6, <3>3, <3>4
  <2> QED
    BY <2>1, <2>2
<1>12. FileOrder'
  <2> SUFFICES ASSUME NEW i \in DOMAIN file', NEW j \in DOMAIN file', i < j
               PROVE  /\ file'[i].proc = file'[j].proc => file'[i].event < file'[j].event
                      /\ Alone /\ IsRecord(i)' /\ IsRecord(j)' => file'[i].seq < file'[j].seq
    BY DEF FileOrder, Alone
  <2>1. CASE j \in DOMAIN file
    <3>1. i \in DOMAIN file
      BY <1>7, <2>1
    <3>2. /\ file[i].proc = file[j].proc => file[i].event < file[j].event
          /\ Alone /\ IsRecord(i) /\ IsRecord(j) => file[i].seq < file[j].seq
      BY <1>1, <2>1, <3>1 DEF FileOrder
    <3> QED
      BY <1>7, <1>9, <2>1, <3>1, <3>2
  <2>2. CASE j \notin DOMAIN file
    <3>1. j = Len(file) + 1 /\ i \in DOMAIN file
      BY <1>7, <2>2
    <3>2. file'[j] = x /\ file'[i] = file[i]
      BY <1>7, <3>1
    <3> QED
      BY <1>6, <1>9, <1>11, <3>1, <3>2
  <2> QED
    BY <2>1, <2>2
<1> QED
  BY <1>3, <1>4, <1>6, <1>7, <1>8, <1>9, <1>10, <1>12

\* A process whose writer or itself ends has nothing in line any more.
LEMMA LostOK ==
  ASSUME OutboxInv, NEW p \in Procs, NEW state \in {"none", "gone"}, WriterLost(p, state),
         gen' \in [Procs -> 1..MaxGen], UNCHANGED <<emits, accepted, covers, attempted>>,
         NEW b, born' = [born EXCEPT ![p] = b],
         (state = "gone" /\ b = born[p]) \/ (state = "none" /\ b = accepted[p])
  PROVE  OutboxInv'
<1>1. /\ writer' = [writer EXCEPT ![p] = state]
      /\ queue' = [queue EXCEPT ![p] = <<>>]
      /\ batch' = [batch EXCEPT ![p] = <<>>]
      /\ replies' = [replies EXCEPT ![p] = {}]
      /\ records' = [records EXCEPT ![p] = <<>>]
      /\ posts' = [posts EXCEPT ![p] = <<>>]
      /\ inflight' = [inflight EXCEPT ![p] = {}]
      /\ nextSeq' = [nextSeq EXCEPT ![p] = 0]
      /\ flushes' = [flushes EXCEPT ![p] = [f \in Flushes |->
                        IF flushes[p][f] = "waiting" THEN "failed" ELSE flushes[p][f]]]
  BY DEF WriterLost, TaskLost
<1>2. /\ Types /\ WriterOK(p) /\ FlushesOK(p) /\ InLine(p) /\ file \in Seq(Piece)
      /\ flushes[p] \in [Flushes -> {"unused", "waiting", "done", "failed"}]
      /\ accepted[p] \in 0..MaxEmits /\ born[p] \in 0..MaxEmits /\ emits[p] \in 0..MaxEmits
  BY Facts
<1>3. /\ writer'[p] = state /\ queue'[p] = <<>> /\ batch'[p] = <<>> /\ replies'[p] = {}
      /\ records'[p] = <<>> /\ posts'[p] = <<>> /\ inflight'[p] = {} /\ nextSeq'[p] = 0
      /\ born'[p] = b
  <2>1. /\ p \in DOMAIN writer /\ p \in DOMAIN queue /\ p \in DOMAIN batch
        /\ p \in DOMAIN replies /\ p \in DOMAIN records /\ p \in DOMAIN posts
        /\ p \in DOMAIN inflight /\ p \in DOMAIN nextSeq /\ p \in DOMAIN born
    BY <1>2 DEF Types
  <2> QED
    BY <1>1, <2>1, Zenon
<1>4. /\ flushes'[p] \in [Flushes -> {"unused", "waiting", "done", "failed"}]
      /\ \A f \in Flushes : flushes'[p][f] = "done" => flushes[p][f] = "done"
      /\ flushes' \in [Procs -> [Flushes -> {"unused", "waiting", "done", "failed"}]]
  <2> DEFINE g == [f \in Flushes |-> IF flushes[p][f] = "waiting" THEN "failed" ELSE flushes[p][f]]
  <2>1. /\ g \in [Flushes -> {"unused", "waiting", "done", "failed"}]
        /\ \A f \in Flushes : g[f] = "done" => flushes[p][f] = "done"
    BY <1>2
  <2>2. flushes' = [flushes EXCEPT ![p] = g]
    BY <1>1
  <2> HIDE DEF g
  <2>3. flushes \in [Procs -> [Flushes -> {"unused", "waiting", "done", "failed"}]]
    BY <1>2 DEF Types
  <2>4. flushes'[p] = g
    BY <2>2, <2>3
  <2> QED
    BY <2>1, <2>2, <2>3, <2>4
<1>5. b \in 0..MaxEmits /\ b <= accepted[p] /\ accepted[p] <= emits[p]
  BY <1>2 DEF WriterOK
<1>6. FileOf(p) /\ FileOrder' /\ file' \in Seq(Piece) /\ faults' \in 0..MaxFaults
      /\ \A i \in DOMAIN file' : file'[i].proc = p => file'[i].event <= accepted[p]
  <2>1. CASE UNCHANGED <<file, faults>>
    BY <1>2, <2>1, FileStays DEF Types, InLine
  <2>2. CASE writer[p] = "append" /\ Fault /\ file' = Append(file, Torn(Head(records[p])))
    <3>1. PICK x : x = Torn(Head(records[p]))
      OBVIOUS
    <3>2. /\ x \in Piece /\ x.event = records[p][1].event
          /\ file' \in Seq(Piece) /\ FileOf(p) /\ FileOrder' /\ Len(file) \in Nat
          /\ DOMAIN file = 1..Len(file) /\ DOMAIN file' = 1..(Len(file) + 1)
          /\ file'[Len(file) + 1] = x /\ \A i \in DOMAIN file : file'[i] = file[i]
      BY <2>2, <3>1, FileGrows
    <3>3. records[p] \in Seq(Record) /\ records[p] # <<>>
      BY <1>2, <2>2, Facts DEF WriterOK
    <3>4. 1 \in DOMAIN records[p]
      BY <3>3
    <3>5. x.event <= accepted[p]
      BY <1>2, <3>2, <3>4 DEF InLine
    <3>6. faults' \in 0..MaxFaults
      BY <1>2, <2>2, OutboxAssumption DEF Types, Fault
    <3>7. \A i \in DOMAIN file' : (i \in DOMAIN file /\ file'[i] = file[i]) \/ file'[i] = x
      BY <3>2
    <3> QED
      BY <1>2, <3>2, <3>5, <3>6, <3>7 DEF InLine
  <2> QED
    BY <2>1, <2>2 DEF WriterLost
<1>7. Types' /\ OthersStay(p)
  <2>1. /\ queue' \in [Procs -> Seq(Command)] /\ batch' \in [Procs -> Seq(1..MaxEmits)]
        /\ records' \in [Procs -> Seq(Record)] /\ posts' \in [Procs -> Seq(1..MaxEmits)]
    BY <1>1, <1>2 DEF Types
  <2>2. /\ writer' \in [Procs -> {"none", "idle", "deliver", "append", "posts", "barrier", "gone"}]
        /\ replies' \in [Procs -> SUBSET Flushes] /\ inflight' \in [Procs -> SUBSET (1..MaxEmits)]
        /\ nextSeq' \in [Procs -> Nat] /\ born' \in [Procs -> 0..MaxEmits]
    BY <1>1, <1>2, <1>5 DEF Types
  <2>3. Types'
    BY <1>2, <1>4, <1>6, <2>1, <2>2 DEF Types
  <2>4. OthersStay(p)
    BY <1>1, <1>2 DEF Types, OthersStay
  <2> QED
    BY <2>3, <2>4
<1>8. /\ Queued(p)' = {} /\ Underway(p)' = {} /\ ToSet(batch[p])' = {} /\ ToSet(posts[p])' = {}
      /\ Places(queue[p], "event")' = {} /\ Places(queue[p], "flush")' = {}
  BY <1>3 DEF Queued, Underway, ToSet, Places
<1>9. WriterOK(p)'
  <2>1. IsFiniteSet(inflight'[p]) /\ Cardinality(inflight'[p]) <= MaxInflight
    BY <1>3, FS_EmptySet, OutboxAssumption
  <2>2. Len(queue'[p]) <= Capacity /\ Len(batch'[p]) <= MaxBatch
    BY <1>3, OutboxAssumption
  <2> QED
    BY <1>3, <1>5, <1>8, <2>1, <2>2 DEF WriterOK
<1>10. NoneLost(p)'
  <2>1. state # "gone" => (b + 1)..accepted[p] = {}
    BY <1>2
  <2> QED
    BY <1>3, <2>1 DEF NoneLost
<1>11. FlushesOK(p)'
  <2>1. ASSUME NEW f \in Flushes
        PROVE  /\ covers'[p][f] \subseteq 1..accepted'[p]
               /\ flushes'[p][f] = "done" => FlushDone(p, f)'
    BY <1>2, <1>3, <1>4, <1>8 DEF FlushesOK, FlushDone
  <2> QED
    BY <1>3, <1>8, <2>1 DEF FlushesOK
<1>12. InLine(p)'
  <2>1. DOMAIN batch'[p] = {} /\ DOMAIN records'[p] = {}
    BY <1>3
  <2> QED
    BY <1>6, <1>8, <2>1 DEF InLine
<1>13. Numbered(p)'
  <2>1. DOMAIN records'[p] = {}
    BY <1>3
  <2> QED
    BY <1>3, <2>1 DEF Numbered
<1> QED
  BY <1>6, <1>7, <1>9, <1>10, <1>11, <1>12, <1>13, StepParts DEF Own

LEMMA RuntimeStopsOK ==
  ASSUME OutboxInv, NEW p \in Procs, RuntimeStops(p)
  PROVE  OutboxInv'
<1>1. /\ WriterLost(p, "gone") /\ UNCHANGED <<emits, accepted, covers, attempted>>
      /\ gen' = gen /\ born' = born
  BY DEF RuntimeStops, callVars
<1>2. gen' \in [Procs -> 1..MaxGen] /\ born' = [born EXCEPT ![p] = born[p]]
  BY <1>1, Facts DEF Types
<1> QED
  BY <1>1, <1>2, LostOK

LEMMA RestartOK ==
  ASSUME OutboxInv, NEW p \in Procs, Restart(p)
  PROVE  OutboxInv'
<1>1. /\ WriterLost(p, "none") /\ UNCHANGED <<emits, accepted, covers, attempted>>
      /\ born' = [born EXCEPT ![p] = accepted[p]]
  BY DEF Restart
<1>2. gen' \in [Procs -> 1..MaxGen]
  BY OutboxAssumption, Facts DEF Types, Restart
<1> QED
  BY <1>1, <1>2, LostOK

LEMMA AppendRecordOK ==
  ASSUME OutboxInv, NEW p \in Procs, AppendRecord(p)
  PROVE  OutboxInv'
<1>1. /\ UNCHANGED <<gen, queue, batch, replies, posts, inflight, nextSeq, flushes, faults,
                     emits, accepted, born, covers>>
      /\ writer[p] = "append" /\ file' = Append(file, Whole(Head(records[p])))
      /\ records' = [records EXCEPT ![p] = Tail(records[p])]
      /\ attempted' = [attempted EXCEPT ![p] = attempted[p] \cup {Head(records[p]).event}]
      /\ writer' = [writer EXCEPT ![p] = IF Len(records[p]) = 1 THEN "posts" ELSE "append"]
  BY DEF AppendRecord, callVars
<1>2. /\ Types /\ WriterOK(p) /\ InLine(p) /\ (Alone => Numbered(p))
      /\ records[p] \in Seq(Record) /\ file \in Seq(Piece) /\ nextSeq[p] \in Nat
      /\ attempted[p] \subseteq 1..MaxEmits /\ batch[p] \in Seq(1..MaxEmits)
  BY Facts
<1>3. records[p] # <<>>
  BY <1>1, <1>2 DEF WriterOK
<1>4. PICK rs : rs = records[p]
  OBVIOUS
<1>5. PICK r : r = rs[1]
  OBVIOUS
<1>6. /\ r = Head(rs) /\ r \in Record /\ 1 \in DOMAIN rs /\ rs \in Seq(Record)
      /\ Tail(rs) \in Seq(Record) /\ Len(Tail(rs)) = Len(rs) - 1 /\ Len(rs) \in Nat /\ Len(rs) > 0
      /\ \A i \in DOMAIN Tail(rs) : i + 1 \in DOMAIN rs /\ Tail(rs)[i] = rs[i + 1]
  BY <1>2, <1>3, <1>4, <1>5, HeadTail
<1>7. /\ records'[p] = Tail(rs) /\ attempted'[p] = attempted[p] \cup {r.event}
      /\ writer'[p] = IF Len(rs) = 1 THEN "posts" ELSE "append"
  <2>1. p \in DOMAIN records /\ p \in DOMAIN attempted /\ p \in DOMAIN writer
    BY <1>2 DEF Types
  <2> QED
    BY <1>1, <1>4, <1>6, <2>1, Zenon
<1>8. PICK x : x = Whole(Head(records[p]))
  OBVIOUS
<1>9. /\ x.proc = p /\ x.event = r.event /\ x.seq = r.seq
      /\ file' \in Seq(Piece) /\ FileOf(p) /\ FileOrder' /\ Len(file) \in Nat
      /\ DOMAIN file = 1..Len(file) /\ DOMAIN file' = 1..(Len(file) + 1)
      /\ file'[Len(file) + 1] = x /\ \A i \in DOMAIN file : file'[i] = file[i]
      /\ \A i \in DOMAIN file : IsRecord(i)' => IsRecord(i)
  BY <1>1, <1>4, <1>5, <1>8, FileGrows
<1>10. r.event \in 1..MaxEmits /\ r.event \in ToSet(batch[p]) /\ r.event <= accepted[p]
  BY <1>2, <1>4, <1>5, <1>6 DEF InLine, Record
<1>11. Types' /\ OthersStay(p)
  <2>1. records' \in [Procs -> Seq(Record)]
    BY <1>1, <1>2, <1>4, <1>6 DEF Types
  <2>2. attempted' \in [Procs -> SUBSET (1..MaxEmits)]
    <3>1. attempted[p] \cup {Head(records[p]).event} \in SUBSET (1..MaxEmits)
      BY <1>2, <1>4, <1>6, <1>10
    <3> QED
      BY <1>1, <1>2, <3>1 DEF Types
  <2>3. writer' \in [Procs -> {"none", "idle", "deliver", "append", "posts", "barrier", "gone"}]
    BY <1>1, <1>2 DEF Types
  <2>4. Types'
    BY <1>1, <1>2, <1>9, <2>1, <2>2, <2>3 DEF Types
  <2>5. OthersStay(p)
    BY <1>1, <1>2 DEF Types, OthersStay
  <2> QED
    BY <2>4, <2>5
<1>12. /\ Underway(p) = {rs[i].event : i \in DOMAIN rs}
       /\ Underway(p)' = {Tail(rs)[i].event : i \in DOMAIN Tail(rs)}
       /\ Delivering(p)' = Delivering(p)
  <2>1. writer[p] # "deliver" /\ writer'[p] # "deliver"
    BY <1>1, <1>7
  <2>2. Delivering(p)' = Delivering(p)
    BY <1>1 DEF Delivering
  <2> QED
    BY <1>4, <1>7, <2>1, <2>2 DEF Underway
<1>13. /\ Underway(p) \subseteq attempted'[p] \cup Underway(p)'
       /\ \A n \in Underway(p)' : n \in Underway(p) /\ r.event < n
  <2>1. \A i \in DOMAIN rs : i = 1 \/ (i - 1 \in DOMAIN Tail(rs) /\ Tail(rs)[i - 1] = rs[i])
    BY <1>6
  <2>2. Underway(p) \subseteq attempted'[p] \cup Underway(p)'
    BY <1>5, <1>7, <1>12, <2>1
  <2>3. \A i \in DOMAIN Tail(rs) : r.event < Tail(rs)[i].event
    <3> SUFFICES ASSUME NEW i \in DOMAIN Tail(rs)
                 PROVE  r.event < Tail(rs)[i].event
      OBVIOUS
    <3>1. 1 < i + 1 /\ i + 1 \in DOMAIN rs
      BY <1>6
    <3> QED
      BY <1>2, <1>4, <1>5, <1>6, <3>1 DEF InLine
  <2> QED
    BY <1>6, <1>12, <2>2, <2>3
<1>14. WriterOK(p)'
  <2>1. records'[p] # <<>> <=> writer'[p] = "append"
    BY <1>6, <1>7
  <2>2. writer'[p] \in {"append", "posts"}
    BY <1>7
  <2> QED
    BY <1>1, <1>2, <2>1, <2>2 DEF WriterOK
<1>15. FlushesOK(p)'
  BY <1>1, <1>7, <1>12, <1>13, FlushesStay
<1>16. NoneLost(p)'
  BY <1>1, <1>7, <1>13, NoneLostStays
<1>17. InLine(p)'
  <2>1. Queued(p)' = Queued(p) /\ Places(queue[p], "event")' = Places(queue[p], "event")
    BY <1>1 DEF Queued, Places
  <2>2. ASSUME NEW i \in DOMAIN file', file'[i].proc = p
        PROVE  /\ file'[i].event <= accepted[p]
               /\ \A n \in Underway(p)' \cup Queued(p) : file'[i].event < n
    <3>1. CASE i \in DOMAIN file
      <4>1. file[i].event <= accepted[p] /\ \A n \in Underway(p) \cup Queued(p) : file[i].event < n
        BY <1>2, <1>9, <2>2, <3>1 DEF InLine
      <4> QED
        BY <1>9, <1>13, <3>1, <4>1
    <3>2. CASE i \notin DOMAIN file
      <4>1. file'[i].event = r.event
        BY <1>9, <3>2
      <4>2. \A n \in Queued(p) : r.event < n
        BY <1>2, <1>10 DEF InLine
      <4> QED
        BY <1>10, <1>13, <4>1, <4>2
    <3> QED
      BY <3>1, <3>2
  <2>3. \A i, j \in DOMAIN Tail(rs) : i < j => Tail(rs)[i].event < Tail(rs)[j].event
    <3> SUFFICES ASSUME NEW i \in DOMAIN Tail(rs), NEW j \in DOMAIN Tail(rs), i < j
                 PROVE  Tail(rs)[i].event < Tail(rs)[j].event
      OBVIOUS
    <3>1. i + 1 < j + 1 /\ i + 1 \in DOMAIN rs /\ j + 1 \in DOMAIN rs
      BY <1>6
    <3> QED
      BY <1>2, <1>4, <1>6, <3>1 DEF InLine
  <2>4. \A i \in DOMAIN Tail(rs) : Tail(rs)[i].proc = p /\ Tail(rs)[i].event \in ToSet(batch[p])
    BY <1>2, <1>4, <1>6 DEF InLine
  <2> QED
    BY <1>1, <1>2, <1>7, <2>1, <2>2, <2>3, <2>4 DEF InLine
<1>18. ASSUME Alone
       PROVE  Numbered(p)'
  <2>1. PICK n : n = Len(rs)
    OBVIOUS
  <2>2. PICK m : m = nextSeq[p]
    OBVIOUS
  <2>3. /\ n \in Nat /\ m \in Nat /\ m # 0 /\ Len(Tail(rs)) = n - 1
        /\ \A i \in DOMAIN rs : rs[i].seq + n + 1 = m + i
        /\ \A i \in DOMAIN file : IsRecord(i) => file[i].seq + n < m
    BY <1>2, <1>3, <1>4, <1>6, <1>18, <2>1, <2>2 DEF Numbered
  <2>4. ASSUME NEW i \in DOMAIN Tail(rs)
        PROVE  Tail(rs)[i].seq + (n - 1) + 1 = m + i
    <3>1. i \in Nat /\ i + 1 \in DOMAIN rs /\ Tail(rs)[i] = rs[i + 1] /\ rs[i + 1] \in Record
      BY <1>6
    <3>2. rs[i + 1].seq \in Nat
      BY <3>1 DEF Record
    <3>3. rs[i + 1].seq + n + 1 = m + (i + 1)
      BY <2>3, <3>1
    <3> QED
      <4>1. PICK k : k = rs[i + 1].seq
        OBVIOUS
      <4>2. k \in Nat /\ k + n + 1 = m + (i + 1) /\ i \in Nat /\ n \in Nat /\ m \in Nat
        BY <2>3, <3>1, <3>2, <3>3, <4>1
      <4>3. k + (n - 1) + 1 = m + i
        BY <4>2
      <4> QED
        BY <3>1, <4>1, <4>3
  <2>5. ASSUME NEW i \in DOMAIN file', IsRecord(i)'
        PROVE  file'[i].seq + (n - 1) < m
    <3>1. CASE i \in DOMAIN file
      <4>1. file[i].seq + n < m /\ file'[i] = file[i]
        BY <1>9, <2>3, <2>5, <3>1
      <4>2. file[i].seq \in Nat
        <5>1. file[i] \in Piece
          BY <1>2, <3>1
        <5> QED
          BY <5>1 DEF Piece
      <4> QED
        BY <2>3, <4>1, <4>2
    <3>2. CASE i \notin DOMAIN file
      <4>1. file'[i].seq = r.seq /\ r.seq \in Nat
        BY <1>6, <1>9, <3>2 DEF Record
      <4>2. r.seq + n + 1 = m + 1
        BY <1>5, <1>6, <2>3
      <4> QED
        BY <2>3, <4>1, <4>2
    <3> QED
      BY <3>1, <3>2
  <2> QED
    BY <1>1, <1>7, <2>2, <2>3, <2>4, <2>5 DEF Numbered
<1>19. (Alone => Numbered(p))'
  BY <1>18 DEF Alone
<1> QED
  BY <1>9, <1>11, <1>14, <1>15, <1>16, <1>17, <1>19, StepParts DEF Own

LEMMA AppendFailsOK ==
  ASSUME OutboxInv, NEW p \in Procs, AppendFails(p)
  PROVE  OutboxInv'
<1>1. /\ UNCHANGED <<gen, queue, batch, replies, posts, inflight, nextSeq, flushes,
                     emits, accepted, born, covers>>
      /\ writer[p] = "append" /\ faults < MaxFaults /\ faults' = faults + 1
      /\ file' = file \/ file' = Append(file, Torn(Head(records[p])))
      /\ records' = [records EXCEPT ![p] = <<>>]
      /\ attempted' = [attempted EXCEPT ![p] = attempted[p] \cup ToSet(batch[p])]
      /\ writer' = [writer EXCEPT ![p] = "posts"]
  BY DEF AppendFails, callVars, Fault
<1>2. /\ Types /\ WriterOK(p) /\ InLine(p) /\ (Alone => Numbered(p))
      /\ records[p] \in Seq(Record) /\ file \in Seq(Piece) /\ nextSeq[p] \in Nat
      /\ attempted[p] \subseteq 1..MaxEmits /\ batch[p] \in Seq(1..MaxEmits)
  BY Facts
<1>3. records[p] # <<>>
  BY <1>1, <1>2 DEF WriterOK
<1>4. 1 \in DOMAIN records[p]
  BY <1>2, <1>3
<1>5. records'[p] = <<>> /\ writer'[p] = "posts" /\ attempted'[p] = attempted[p] \cup ToSet(batch[p])
  <2>1. p \in DOMAIN records /\ p \in DOMAIN attempted /\ p \in DOMAIN writer
    BY <1>2 DEF Types
  <2> QED
    BY <1>1, <2>1, Zenon
<1>6. /\ file' \in Seq(Piece) /\ FileOf(p) /\ FileOrder'
      /\ \A i \in DOMAIN file' : \/ i \in DOMAIN file /\ file'[i] = file[i]
                                 \/ file'[i].event = records[p][1].event /\ ~IsRecord(i)'
      /\ \A i \in DOMAIN file : IsRecord(i)' => IsRecord(i)
  <2>1. CASE file' = file
    BY <1>2, <2>1, FileStays DEF IsRecord, WholeAt
  <2>2. CASE file' = Append(file, Torn(Head(records[p])))
    <3>1. PICK x : x = Torn(Head(records[p]))
      OBVIOUS
    <3>2. /\ x.event = records[p][1].event
          /\ file' \in Seq(Piece) /\ FileOf(p) /\ FileOrder' /\ Len(file) \in Nat
          /\ DOMAIN file = 1..Len(file) /\ DOMAIN file' = 1..(Len(file) + 1)
          /\ file'[Len(file) + 1] = x /\ \A i \in DOMAIN file : file'[i] = file[i]
          /\ \A i \in DOMAIN file : IsRecord(i)' => IsRecord(i)
          /\ IsRecord(Len(file) + 1)' => x.whole
      BY <1>1, <2>2, <3>1, FileGrows
    <3>3. ~x.whole
      BY <3>1 DEF Torn
    <3>4. \A i \in DOMAIN file' : i \in DOMAIN file \/ i = Len(file) + 1
      BY <3>2
    <3>5. ASSUME NEW i \in DOMAIN file', i \notin DOMAIN file
          PROVE  file'[i].event = records[p][1].event /\ ~IsRecord(i)'
      <4>1. file'[i] = x
        BY <3>2, <3>4, <3>5
      <4> QED
        BY <3>2, <3>3, <4>1 DEF IsRecord, WholeAt
    <3> QED
      BY <3>2, <3>5
  <2> QED
    BY <1>1, <2>1, <2>2
<1>7. Types' /\ OthersStay(p)
  <2>1. records' \in [Procs -> Seq(Record)]
    BY <1>1, <1>2 DEF Types
  <2>2. attempted' \in [Procs -> SUBSET (1..MaxEmits)]
    <3>1. attempted[p] \cup ToSet(batch[p]) \in SUBSET (1..MaxEmits)
      BY <1>2, ToSetType
    <3> QED
      BY <1>1, <1>2, <3>1 DEF Types
  <2>3. writer' \in [Procs -> {"none", "idle", "deliver", "append", "posts", "barrier", "gone"}]
    BY <1>1, <1>2 DEF Types
  <2>4. faults' \in 0..MaxFaults
    BY <1>1, <1>2, OutboxAssumption DEF Types
  <2>5. Types'
    BY <1>1, <1>2, <1>6, <2>1, <2>2, <2>3, <2>4 DEF Types
  <2>6. OthersStay(p)
    BY <1>1, <1>2 DEF Types, OthersStay
  <2> QED
    BY <2>5, <2>6
<1>8. Underway(p)' = {} /\ Delivering(p)' = Delivering(p)
  BY <1>1, <1>5 DEF Underway, Delivering
<1>9. Underway(p) \subseteq ToSet(batch[p])
  BY <1>1, <1>2 DEF Underway, InLine
<1>10. WriterOK(p)'
  BY <1>1, <1>2, <1>5 DEF WriterOK
<1>11. FlushesOK(p)'
  BY <1>1, <1>5, <1>8, <1>9, FlushesStay
<1>12. NoneLost(p)'
  BY <1>1, <1>5, <1>8, <1>9, NoneLostStays
<1>13. InLine(p)'
  <2>1. Queued(p)' = Queued(p) /\ Places(queue[p], "event")' = Places(queue[p], "event")
    BY <1>1 DEF Queued, Places
  <2>2. /\ records[p][1].event <= accepted[p]
        /\ \A n \in Queued(p) : records[p][1].event < n
    BY <1>2, <1>4 DEF InLine
  <2>3. \A i \in DOMAIN file' : file'[i].proc = p =>
           /\ file'[i].event <= accepted[p]
           /\ \A n \in Queued(p) : file'[i].event < n
    BY <1>2, <1>6, <2>2 DEF InLine
  <2>4. DOMAIN records'[p] = {}
    BY <1>5
  <2> QED
    BY <1>1, <1>2, <1>8, <2>1, <2>3, <2>4 DEF InLine
<1>14. ASSUME Alone
       PROVE  Numbered(p)'
  <2>1. Len(records'[p]) = 0 /\ DOMAIN records'[p] = {}
    BY <1>5
  <2>2. ASSUME NEW i \in DOMAIN file', IsRecord(i)', nextSeq[p] # 0
        PROVE  file'[i].seq + 0 < nextSeq[p]
    <3>1. i \in DOMAIN file /\ file'[i] = file[i] /\ IsRecord(i)
      BY <1>6, <2>2
    <3>2. file[i].seq + Len(records[p]) < nextSeq[p]
      BY <1>2, <1>14, <2>2, <3>1 DEF Numbered
    <3>3. file[i] \in Piece /\ Len(records[p]) \in Nat
      BY <1>2, <3>1
    <3>4. file[i].seq \in Nat
      BY <3>3 DEF Piece
    <3> QED
      BY <1>2, <3>1, <3>2, <3>3, <3>4
  <2> QED
    BY <1>1, <1>5, <2>1, <2>2 DEF Numbered
<1>15. (Alone => Numbered(p))'
  BY <1>14 DEF Alone
<1> QED
  BY <1>6, <1>7, <1>10, <1>11, <1>12, <1>13, <1>15, StepParts DEF Own

-----------------------------------------------------------------------------
(* Numbering a batch. *)

LEMMA MaxOf ==
  ASSUME NEW n \in Nat, NEW S, \A y \in S : y \in 0..n, S # {}
  PROVE  Max(S) \in S /\ \A y \in S : Max(S) >= y
<1> DEFINE T == {n - y : y \in S}
<1>1. PICK t \in T : \A u \in T : t <= u
  <2>1. T \subseteq Nat /\ T # {}
    OBVIOUS
  <2> QED
    BY <2>1, Smallest
<1>2. PICK x \in S : t = n - x
  OBVIOUS
<1>3. \A y \in S : x >= y
  <2>1. \A y \in S : n - x <= n - y
    BY <1>1, <1>2
  <2>2. \A y \in S : y \in Int
    OBVIOUS
  <2> QED
    BY <2>1, <2>2
<1>4. \E z \in S : \A y \in S : z >= y
  BY <1>3
<1> QED
  BY <1>4, Zenon DEF Max

\* The number the scan recovers is above all numbers in the file.
LEMMA Recovered ==
  ASSUME OutboxInv, RecoveryParses
  PROVE  /\ RecoverLastSeq \in Nat \ {0}
         /\ Alone => \A i \in DOMAIN file : IsRecord(i) => file[i].seq < RecoverLastSeq
<1>1. file \in Seq(Piece) /\ FileOrder
  BY InvParts DEF Types
<1>2. PICK l : l = LastLine
  OBVIOUS
<1>3. l \in WholeAt \cup {0} /\ \A i \in WholeAt : l >= i
  <2>1. \A y \in WholeAt \cup {0} : y \in 0..Len(file)
    BY <1>1 DEF WholeAt
  <2>2. Len(file) \in Nat /\ WholeAt \cup {0} # {}
    BY <1>1
  <2>3. Max(WholeAt \cup {0}) \in WholeAt \cup {0} /\ \A y \in WholeAt \cup {0} : Max(WholeAt \cup {0}) >= y
    BY <2>1, <2>2, MaxOf
  <2> QED
    BY <1>2, <2>3 DEF LastLine
<1>4. CASE l = 0
  <2>1. RecoverLastSeq = 1
    BY <1>2, <1>4 DEF RecoverLastSeq
  <2>2. \A i \in DOMAIN file : ~IsRecord(i)
    BY <1>1, <1>3, <1>4 DEF IsRecord, WholeAt
  <2> QED
    BY <2>1, <2>2
<1>5. CASE l # 0
  <2>1. l \in DOMAIN file /\ IsRecord(l) /\ RecoverLastSeq = file[l].seq + 1
    BY <1>2, <1>3, <1>5 DEF RecoverLastSeq, RecoveryParses, WholeAt
  <2>2. \A i \in DOMAIN file : file[i].seq \in Nat
    <3>1. \A i \in DOMAIN file : file[i] \in Piece
      BY <1>1
    <3> QED
      BY <3>1 DEF Piece
  <2>3. ASSUME Alone, NEW i \in DOMAIN file, IsRecord(i)
        PROVE  file[i].seq <= file[l].seq
    <3>1. i \in WholeAt
      BY <2>3 DEF IsRecord
    <3>2. i <= l /\ i \in Nat /\ l \in Nat
      BY <1>1, <1>3, <2>1, <3>1
    <3>3. CASE i = l
      BY <2>2, <3>3
    <3>4. CASE i < l
      <4>1. file[i].seq < file[l].seq
        BY <1>1, <2>1, <2>3, <3>4 DEF FileOrder
      <4> QED
        BY <2>1, <2>2, <4>1
    <3> QED
      BY <3>2, <3>3, <3>4
  <2> QED
    BY <2>1, <2>2, <2>3
<1> QED
  BY <1>4, <1>5

LEMMA DeliverOK ==
  ASSUME OutboxInv, NEW p \in Procs, Deliver(p)
  PROVE  OutboxInv'
<1>1. PICK first : first = IF nextSeq[p] # 0 THEN nextSeq[p] ELSE RecoverLastSeq
  OBVIOUS
<1>2. PICK bs : bs = batch[p]
  OBVIOUS
<1>3. PICK rs : rs = [i \in DOMAIN bs |-> [proc |-> p, event |-> bs[i], seq |-> first + i - 1]]
  OBVIOUS
<1>4. /\ UNCHANGED <<file, gen, queue, batch, replies, inflight, flushes, faults,
                     emits, accepted, born, covers, attempted>>
      /\ writer[p] = "deliver" /\ (nextSeq[p] # 0 \/ RecoveryParses)
      /\ records' = [records EXCEPT ![p] = rs]
      /\ nextSeq' = [nextSeq EXCEPT ![p] = first + Len(bs)]
      /\ posts' = [posts EXCEPT ![p] = IF Webhook THEN bs ELSE <<>>]
      /\ writer' = [writer EXCEPT ![p] = "append"]
  BY <1>1, <1>2, <1>3 DEF Deliver, callVars
<1>5. /\ Types /\ WriterOK(p) /\ InLine(p) /\ (Alone => Numbered(p))
      /\ bs \in Seq(1..MaxEmits) /\ nextSeq[p] \in Nat
  BY <1>2, Facts
<1>6. bs # <<>> /\ records[p] = <<>>
  BY <1>2, <1>4, <1>5 DEF WriterOK
<1>7. PICK n : n = Len(bs)
  OBVIOUS
<1>8. n \in Nat /\ n > 0 /\ DOMAIN bs = 1..n /\ \A i \in 1..n : bs[i] \in 1..MaxEmits
  <2>1. bs \in Seq(1..MaxEmits)
    BY <1>5
  <2>2. n \in Nat /\ DOMAIN bs = 1..n /\ \A i \in 1..n : bs[i] \in 1..MaxEmits
    BY <1>7, <2>1, SeqParts
  <2>3. n # 0
    BY <1>6, <1>7, <2>1
  <2> QED
    BY <2>2, <2>3
<1>9. /\ first \in Nat \ {0}
      /\ Alone => \A i \in DOMAIN file : IsRecord(i) => file[i].seq < first
  <2>1. CASE nextSeq[p] # 0
    <3>1. Len(records[p]) = 0
      BY <1>6
    <3>2. ASSUME Alone, NEW i \in DOMAIN file, IsRecord(i)
          PROVE  file[i].seq < nextSeq[p]
      <4>1. file[i] \in Piece
        BY <1>5 DEF Types
      <4>2. file[i].seq \in Nat
        BY <4>1 DEF Piece
      <4>3. file[i].seq + 0 < nextSeq[p]
        BY <1>5, <2>1, <3>1, <3>2 DEF Numbered
      <4> QED
        BY <4>2, <4>3
    <3> QED
      BY <1>1, <1>5, <2>1, <3>2
  <2>2. CASE nextSeq[p] = 0
    <3>1. first = RecoverLastSeq /\ RecoveryParses
      BY <1>1, <1>4, <2>2
    <3> QED
      BY <3>1, Recovered
  <2> QED
    BY <2>1, <2>2
<1>10. /\ rs \in Seq(Record) /\ Len(rs) = n /\ DOMAIN rs = 1..n
       /\ \A i \in 1..n : rs[i].proc = p /\ rs[i].event = bs[i] /\ rs[i].seq = first + i - 1
  <2>1. \A i \in 1..n : [proc |-> p, event |-> bs[i], seq |-> first + i - 1] \in Record
    <3> SUFFICES ASSUME NEW i \in 1..n
                 PROVE  [proc |-> p, event |-> bs[i], seq |-> first + i - 1] \in Record
      OBVIOUS
    <3>1. first + i - 1 \in Nat \ {0} /\ bs[i] \in 1..MaxEmits
      BY <1>8, <1>9
    <3> QED
      BY <3>1 DEF Record
  <2>2. rs = [i \in 1..n |-> [proc |-> p, event |-> bs[i], seq |-> first + i - 1]]
    BY <1>3, <1>8
  <2>3. rs \in Seq(Record)
    BY <1>8, <2>1, <2>2
  <2>4. DOMAIN rs = 1..n
    BY <2>2
  <2>5. Len(rs) = n
    BY <1>8, <2>3, <2>4
  <2>6. \A i \in 1..n : rs[i] = [proc |-> p, event |-> bs[i], seq |-> first + i - 1]
    BY <2>2
  <2> QED
    BY <2>3, <2>4, <2>5, <2>6
<1>11. /\ records'[p] = rs /\ nextSeq'[p] = first + n /\ writer'[p] = "append"
       /\ posts'[p] = IF Webhook THEN bs ELSE <<>>
  <2>1. p \in DOMAIN records /\ p \in DOMAIN nextSeq /\ p \in DOMAIN writer /\ p \in DOMAIN posts
    BY <1>5 DEF Types
  <2> QED
    BY <1>4, <1>7, <2>1, Zenon
<1>12. Types' /\ OthersStay(p)
  <2>1. records' \in [Procs -> Seq(Record)]
    BY <1>4, <1>5, <1>10 DEF Types
  <2>2. nextSeq' \in [Procs -> Nat]
    <3>1. first + Len(bs) \in Nat
      BY <1>7, <1>8, <1>9
    <3> QED
      BY <1>4, <1>5, <3>1 DEF Types
  <2>3. posts' \in [Procs -> Seq(1..MaxEmits)]
    <3>1. (IF Webhook THEN bs ELSE <<>>) \in Seq(1..MaxEmits)
      <4>1. bs \in Seq(1..MaxEmits) /\ <<>> \in Seq(1..MaxEmits)
        BY <1>5
      <4> QED
        BY <4>1, Zenon
    <3> QED
      BY <1>4, <1>5, <3>1 DEF Types
  <2>4. writer' \in [Procs -> {"none", "idle", "deliver", "append", "posts", "barrier", "gone"}]
    BY <1>4, <1>5 DEF Types
  <2>5. Types'
    BY <1>4, <1>5, <2>1, <2>2, <2>3, <2>4 DEF Types
  <2>6. OthersStay(p)
    BY <1>4, <1>5 DEF Types, OthersStay
  <2> QED
    BY <2>5, <2>6
<1>13. \A m \in ToSet(posts'[p]) : m \in ToSet(bs)
  BY <1>11 DEF ToSet
<1>14. /\ Underway(p) = ToSet(bs) /\ Underway(p)' = ToSet(bs)
       /\ Delivering(p)' \subseteq Delivering(p)
  <2>1. Underway(p) = ToSet(bs)
    BY <1>2, <1>4 DEF Underway
  <2>2. Underway(p)' = {rs[i].event : i \in DOMAIN rs}
    BY <1>11 DEF Underway
  <2>3. {rs[i].event : i \in DOMAIN rs} = ToSet(bs)
    BY <1>8, <1>10 DEF ToSet
  <2>4. Delivering(p)' \subseteq Delivering(p)
    BY <1>2, <1>4, <1>13 DEF Delivering
  <2> QED
    BY <2>1, <2>2, <2>3, <2>4
<1>15. WriterOK(p)'
  <2>1. records'[p] # <<>>
    BY <1>8, <1>10, <1>11
  <2>2. ToSet(posts'[p]) \subseteq ToSet(batch'[p])
    BY <1>2, <1>4, <1>13
  <2> QED
    BY <1>4, <1>5, <1>11, <2>1, <2>2 DEF WriterOK
<1>16. FlushesOK(p)'
  BY <1>4, <1>14, FlushesStay
<1>17. NoneLost(p)'
  BY <1>4, <1>14, NoneLostStays
<1>18. InLine(p)'
  <2>1. Queued(p)' = Queued(p) /\ Places(queue[p], "event")' = Places(queue[p], "event")
    BY <1>4 DEF Queued, Places
  <2>2. \A i, j \in DOMAIN rs : i < j => rs[i].event < rs[j].event
    BY <1>2, <1>5, <1>8, <1>10 DEF InLine
  <2>3. \A i \in DOMAIN rs : rs[i].proc = p /\ rs[i].event \in ToSet(bs)
    BY <1>8, <1>10 DEF ToSet
  <2> QED
    BY <1>2, <1>4, <1>5, <1>11, <1>14, <2>1, <2>2, <2>3 DEF InLine
<1>19. ASSUME Alone
       PROVE  Numbered(p)'
  <2>1. first + n # 0
    BY <1>8, <1>9
  <2>2. \A i \in DOMAIN rs : rs[i].seq + Len(rs) + 1 = first + n + i
    BY <1>8, <1>9, <1>10
  <2>3. ASSUME NEW i \in DOMAIN file, IsRecord(i)
        PROVE  file[i].seq + Len(rs) < first + n
    <3>1. file[i].seq < first /\ file[i] \in Piece
      BY <1>5, <1>9, <1>19, <2>3 DEF Types
    <3>2. file[i].seq \in Nat
      BY <3>1 DEF Piece
    <3> QED
      BY <1>8, <1>9, <1>10, <3>1, <3>2
  <2>4. \A i : IsRecord(i)' = IsRecord(i)
    BY <1>4 DEF IsRecord, WholeAt
  <2> QED
    BY <1>4, <1>11, <2>1, <2>2, <2>3, <2>4 DEF Numbered
<1>20. (Alone => Numbered(p))'
  BY <1>19 DEF Alone
<1>21. FileOrder' /\ FileOf(p)
  BY <1>4, FileStays
<1> QED
  BY <1>12, <1>15, <1>16, <1>17, <1>18, <1>20, <1>21, StepParts DEF Own

-----------------------------------------------------------------------------
(* Emit and flush calls. *)

IdsIn(q) == {q[i].id : i \in Places(q, "event")}
Ahead(q, i) == {q[j].id : j \in {k \in Places(q, "event") : k < i}}

\* Queue a is queue q with command c at its end.
Extended(a, q, c) ==
    /\ a \in Seq(Command) /\ Len(q) \in Nat /\ Len(a) = Len(q) + 1
    /\ DOMAIN q = 1..Len(q) /\ a[Len(q) + 1] = c /\ \A i \in DOMAIN q : a[i] = q[i]
    /\ \A kind : Places(q, kind) \subseteq DOMAIN q
    /\ \A kind : c.kind = kind => Places(a, kind) = Places(q, kind) \cup {Len(q) + 1}
    /\ \A kind : c.kind # kind => Places(a, kind) = Places(q, kind)
    /\ \A i \in DOMAIN q : Ahead(a, i) = Ahead(q, i)
    /\ Ahead(a, Len(q) + 1) = IdsIn(q)
    /\ c.kind = "event" => IdsIn(a) = IdsIn(q) \cup {c.id}
    /\ c.kind # "event" => IdsIn(a) = IdsIn(q)

LEMMA Appended ==
  ASSUME NEW q \in Seq(Command), NEW c \in Command
  PROVE  Extended(Append(q, c), q, c)
<1>0. PICK a : a = Append(q, c)
  OBVIOUS
<1>1. PICK n : n = Len(q)
  OBVIOUS
<1>2. /\ a \in Seq(Command) /\ n \in Nat /\ Len(a) = n + 1 /\ DOMAIN q = 1..n
      /\ DOMAIN a = 1..(n + 1) /\ a[n + 1] = c /\ \A i \in 1..n : a[i] = q[i]
  BY <1>0, <1>1
<1>3. \A i : i \in DOMAIN a <=> i \in 1..n \/ i = n + 1
  BY <1>2
<1>4. \A kind : Places(q, kind) \subseteq 1..n
  BY <1>2 DEF Places
<1>5. \A kind : c.kind = kind => Places(a, kind) = Places(q, kind) \cup {n + 1}
  BY <1>2, <1>3 DEF Places
<1>6. \A kind : c.kind # kind => Places(a, kind) = Places(q, kind)
  BY <1>2, <1>3 DEF Places
<1>7. ASSUME NEW i \in 1..(n + 1)
      PROVE  {k \in Places(a, "event") : k < i} = {k \in Places(q, "event") : k < i}
  <2>1. ~(n + 1 < i)
    BY <1>2
  <2> QED
    BY <1>5, <1>6, <2>1
<1>8. ASSUME NEW i \in 1..(n + 1)
      PROVE  Ahead(a, i) = Ahead(q, i)
  <2>1. \A k \in {k \in Places(q, "event") : k < i} : a[k].id = q[k].id
    BY <1>2, <1>4
  <2> QED
    BY <1>7, <1>8, <2>1 DEF Ahead
<1>9. Ahead(q, n + 1) = IdsIn(q)
  <2>1. {k \in Places(q, "event") : k < n + 1} = Places(q, "event")
    BY <1>2, <1>4
  <2> QED
    BY <2>1 DEF Ahead, IdsIn
<1>10. /\ c.kind = "event" => IdsIn(a) = IdsIn(q) \cup {c.id}
       /\ c.kind # "event" => IdsIn(a) = IdsIn(q)
  <2>1. \A k \in Places(q, "event") : a[k].id = q[k].id
    BY <1>2, <1>4
  <2>2. CASE c.kind = "event"
    <3>1. Places(a, "event") = Places(q, "event") \cup {n + 1} /\ a[n + 1] = c
      BY <1>2, <1>5, <2>2
    <3>2. ASSUME NEW x \in IdsIn(a)
          PROVE  x \in IdsIn(q) \cup {c.id}
      <4>1. PICK i \in Places(a, "event") : x = a[i].id
        BY DEF IdsIn
      <4> QED
        BY <2>1, <3>1, <4>1 DEF IdsIn
    <3>3. ASSUME NEW i \in Places(q, "event")
          PROVE  q[i].id \in IdsIn(a)
      BY <2>1, <3>1 DEF IdsIn
    <3>4. c.id \in IdsIn(a)
      BY <3>1 DEF IdsIn
    <3>5. \A x \in IdsIn(q) : x \in IdsIn(a)
      BY <3>3 DEF IdsIn
    <3> QED
      BY <2>2, <3>2, <3>4, <3>5
  <2>3. CASE c.kind # "event"
    <3>1. Places(a, "event") = Places(q, "event")
      BY <1>6, <2>3
    <3> QED
      BY <2>1, <2>3, <3>1 DEF IdsIn
  <2> QED
    BY <2>2, <2>3
<1>11. \A i \in 1..n : i \in 1..(n + 1)
  BY <1>2
<1>12. n + 1 \in 1..(n + 1)
  BY <1>2
<1> QED
  BY <1>0, <1>1, <1>2, <1>4, <1>5, <1>6, <1>8, <1>9, <1>10, <1>11, <1>12 DEF Extended

LEMMA Spawned ==
  ASSUME OutboxInv, NEW p \in Procs, EnsureWriterSpawned(p)
  PROVE  /\ writer' \in [Procs -> {"none", "idle", "deliver", "append", "posts", "barrier", "gone"}]
         /\ \A q \in Procs \ {p} : writer'[q] = writer[q]
         /\ writer'[p] = writer[p] \/ (writer[p] = "none" /\ writer'[p] = "idle")
<1>1. writer \in [Procs -> {"none", "idle", "deliver", "append", "posts", "barrier", "gone"}]
  BY Facts DEF Types
<1> QED
  BY <1>1 DEF EnsureWriterSpawned

\* An event at the end of the queue is behind all flushes.
LEMMA EmitOK ==
  ASSUME OutboxInv, NEW p \in Procs, Emit(p)
  PROVE  OutboxInv'
<1>1. /\ UNCHANGED <<file, gen, batch, replies, records, posts, inflight, nextSeq, flushes,
                     faults, born, covers, attempted>>
      /\ emits[p] < MaxEmits /\ emits' = [emits EXCEPT ![p] = emits[p] + 1]
      /\ EnsureWriterSpawned(p)
  BY DEF Emit
<1>2. /\ Types /\ WriterOK(p) /\ NoneLost(p) /\ FlushesOK(p) /\ InLine(p)
      /\ queue[p] \in Seq(Command) /\ accepted[p] \in 0..MaxEmits /\ emits[p] \in 0..MaxEmits
      /\ born[p] \in 0..MaxEmits /\ accepted[p] <= emits[p] /\ born[p] <= accepted[p]
      /\ replies[p] \subseteq Flushes
  BY Facts DEF WriterOK
<1>3. /\ writer' \in [Procs -> {"none", "idle", "deliver", "append", "posts", "barrier", "gone"}]
      /\ \A q \in Procs \ {p} : writer'[q] = writer[q]
      /\ writer'[p] = writer[p] \/ (writer[p] = "none" /\ writer'[p] = "idle")
  BY <1>1, Spawned
<1>4. emits'[p] = emits[p] + 1 /\ emits' \in [Procs -> 0..MaxEmits]
  <2>1. emits[p] + 1 \in 0..MaxEmits
    BY <1>1, <1>2, OutboxAssumption
  <2> QED
    BY <1>1, <1>2, <2>1 DEF Types
<1>5. Underway(p)' = Underway(p) /\ Delivering(p)' = Delivering(p)
  BY <1>1, <1>3 DEF Underway, Delivering
<1>6. FileOrder' /\ FileOf(p) /\ (Alone => Numbered(p))'
  BY <1>1, FileStays, NumbersStay
<1>7. CASE UNCHANGED <<accepted, queue>>
  <2>1. Types'
    BY <1>1, <1>2, <1>3, <1>4, <1>7 DEF Types
  <2>2. OthersStay(p)
    BY <1>1, <1>2, <1>3, <1>7 DEF Types, OthersStay
  <2>3. WriterOK(p)'
    <3>1. accepted'[p] <= emits'[p]
      BY <1>2, <1>4, <1>7
    <3> QED
      BY <1>1, <1>2, <1>3, <1>7, <3>1 DEF WriterOK
  <2>4. FlushesOK(p)'
    BY <1>1, <1>5, <1>7, FlushesStay
  <2>5. NoneLost(p)'
    <3>1. CASE writer[p] = "gone"
      BY <1>3, <3>1 DEF NoneLost
    <3>2. CASE writer[p] # "gone"
      BY <1>1, <1>5, <1>7, <3>2, NoneLostStays
    <3> QED
      BY <3>1, <3>2
  <2>6. InLine(p)'
    BY <1>1, <1>5, <1>7, LineStays
  <2> QED
    BY <1>6, <2>1, <2>2, <2>3, <2>4, <2>5, <2>6, StepParts DEF Own
<1>8. CASE /\ writer[p] # "gone" /\ HasRoom(p)
           /\ accepted' = [accepted EXCEPT ![p] = accepted[p] + 1]
           /\ queue' = [queue EXCEPT ![p] = Append(queue[p], EventCommand(accepted[p] + 1))]
  <2>1. PICK n : n = accepted[p] + 1
    OBVIOUS
  <2>2. n \in 1..MaxEmits /\ n = accepted[p] + 1 /\ n <= emits[p] + 1
    BY <1>1, <1>2, <2>1, OutboxAssumption
  <2>3. PICK c : c = EventCommand(n)
    OBVIOUS
  <2>4. c \in Command /\ c.kind = "event" /\ c.id = n
    BY <2>2, <2>3 DEF EventCommand, Command
  <2>5. PICK q : q = queue[p]
    OBVIOUS
  <2>6. PICK a : a = Append(q, c)
    OBVIOUS
  <2>7. /\ a \in Seq(Command) /\ Len(q) \in Nat /\ Len(a) = Len(q) + 1
        /\ DOMAIN q = 1..Len(q) /\ a[Len(q) + 1] = c /\ \A i \in DOMAIN q : a[i] = q[i]
        /\ Places(q, "event") \subseteq DOMAIN q /\ Places(q, "flush") \subseteq DOMAIN q
        /\ Places(a, "event") = Places(q, "event") \cup {Len(q) + 1}
        /\ Places(a, "flush") = Places(q, "flush")
        /\ \A i \in DOMAIN q : Ahead(a, i) = Ahead(q, i)
        /\ IdsIn(a) = IdsIn(q) \cup {n}
    <3>1. q \in Seq(Command)
      BY <1>2, <2>5
    <3>2. c.kind # "flush"
      BY <2>4
    <3>9. Extended(a, q, c)
      BY <2>4, <2>6, <3>1, Appended
    <3>3. /\ \A kind : Places(q, kind) \subseteq DOMAIN q
          /\ \A kind : c.kind = kind => Places(a, kind) = Places(q, kind) \cup {Len(q) + 1}
          /\ \A kind : c.kind # kind => Places(a, kind) = Places(q, kind)
          /\ c.kind = "event" => IdsIn(a) = IdsIn(q) \cup {c.id}
      BY <3>9 DEF Extended
    <3>4. /\ a \in Seq(Command) /\ Len(q) \in Nat /\ Len(a) = Len(q) + 1
          /\ DOMAIN q = 1..Len(q) /\ a[Len(q) + 1] = c /\ \A i \in DOMAIN q : a[i] = q[i]
          /\ \A i \in DOMAIN q : Ahead(a, i) = Ahead(q, i)
      BY <3>9 DEF Extended
    <3>5. /\ Places(q, "event") \subseteq DOMAIN q /\ Places(q, "flush") \subseteq DOMAIN q
          /\ Places(a, "event") = Places(q, "event") \cup {Len(q) + 1}
          /\ Places(a, "flush") = Places(q, "flush") /\ IdsIn(a) = IdsIn(q) \cup {n}
      BY <2>4, <3>2, <3>3, Zenon
    <3> QED
      BY <3>4, <3>5
  <2>8. accepted'[p] = n /\ queue'[p] = a /\ accepted' \in [Procs -> 0..MaxEmits]
        /\ queue' \in [Procs -> Seq(Command)]
    <3>1. p \in DOMAIN accepted /\ p \in DOMAIN queue
      BY <1>2 DEF Types
    <3>2. accepted'[p] = n /\ queue'[p] = a
      BY <1>8, <2>1, <2>3, <2>5, <2>6, <3>1, Zenon
    <3>3. accepted' \in [Procs -> 0..MaxEmits]
      <4>1. accepted[p] + 1 \in 0..MaxEmits
        BY <2>2
      <4> QED
        BY <1>2, <1>8, <4>1 DEF Types
    <3>4. queue' \in [Procs -> Seq(Command)]
      <4>1. queue' = [queue EXCEPT ![p] = a]
        BY <1>8, <2>1, <2>3, <2>5, <2>6, Zenon
      <4> QED
        BY <1>2, <2>7, <4>1 DEF Types
    <3> QED
      BY <3>2, <3>3, <3>4
  <2>9. Queued(p)' = Queued(p) \cup {n} /\ Queued(p) = IdsIn(q)
    <3>1. Queued(p) = IdsIn(q)
      BY <2>5 DEF Queued, IdsIn
    <3>2. Queued(p)' = IdsIn(a)
      BY <2>8 DEF Queued, IdsIn
    <3> QED
      BY <2>7, <3>1, <3>2
  <2>10. Types'
    BY <1>1, <1>2, <1>3, <1>4, <2>8 DEF Types
  <2>11. OthersStay(p)
    BY <1>1, <1>2, <1>3, <1>8 DEF Types, OthersStay
  <2>12. WriterOK(p)'
    <3>1. Len(queue'[p]) <= Capacity
      BY <1>8, <2>5, <2>7, <2>8, OutboxAssumption DEF HasRoom
    <3>2. born[p] <= n /\ n <= emits'[p]
      BY <1>2, <1>4, <2>2
    <3>3. writer'[p] # "gone"
      BY <1>3, <1>8
    <3> QED
      BY <1>1, <1>2, <1>3, <2>8, <3>1, <3>2, <3>3 DEF WriterOK
  <2>13. NoneLost(p)'
    <3>1. \A x \in (born[p] + 1)..n : x \in (born[p] + 1)..accepted[p] \/ x = n
      BY <1>2, <2>2
    <3>2. (born[p] + 1)..accepted[p] \subseteq attempted[p] \cup Underway(p) \cup Queued(p)
      BY <1>2, <1>8 DEF NoneLost
    <3> QED
      BY <1>1, <1>5, <2>8, <2>9, <3>1, <3>2 DEF NoneLost
  <2>14. \A f \in Flushes : n \notin covers[p][f] /\ covers[p][f] \subseteq 1..n
    <3>1. \A f \in Flushes : covers[p][f] \subseteq 1..accepted[p]
      BY <1>2 DEF FlushesOK
    <3>2. n \notin 1..accepted[p] /\ 1..accepted[p] \subseteq 1..n
      BY <1>2, <2>2
    <3> QED
      BY <3>1, <3>2
  <2>15. FlushesOK(p)'
    <3>1. ASSUME NEW i \in Places(q, "flush")
          PROVE  FlushQueued(p, i)'
      <4>1. i \in DOMAIN q /\ i \in Places(queue[p], "flush") /\ a[i] = q[i]
        BY <2>5, <2>7
      <4>2. PICK f : f = q[i].id
        OBVIOUS
      <4>3. f \in Flushes
        BY <1>2, <2>5, <4>1, <4>2 DEF Places, Command
      <4>4. /\ flushes[p][f] # "unused"
            /\ covers[p][f] \subseteq attempted[p] \cup Underway(p) \cup Ahead(q, i)
            /\ \A j \in Places(q, "event") : i < j => q[j].id \notin covers[p][f]
        <5>1. FlushQueued(p, i)
          BY <1>2, <4>1 DEF FlushesOK
        <5> QED
          BY <2>5, <4>2, <5>1 DEF FlushQueued, Ahead
      <4>5. \A j \in Places(a, "event") : i < j => a[j].id \notin covers[p][f]
        BY <2>4, <2>7, <2>14, <4>3, <4>4
      <4>6. covers[p][f] \subseteq attempted[p] \cup Underway(p) \cup Ahead(a, i)
        BY <2>7, <4>1, <4>4
      <4> QED
        BY <1>1, <1>5, <2>8, <4>1, <4>2, <4>4, <4>5, <4>6 DEF FlushQueued, Ahead
    <3>2. ASSUME NEW f \in replies[p]
          PROVE  FlushTaken(p, f)'
      <4>1. FlushTaken(p, f) /\ n \notin covers[p][f]
        BY <1>2, <2>14 DEF FlushesOK
      <4> QED
        BY <1>1, <1>5, <2>9, <4>1 DEF FlushTaken
    <3>3. ASSUME NEW f \in Flushes, flushes[p][f] = "done"
          PROVE  FlushDone(p, f)'
      <4>1. FlushDone(p, f) /\ n \notin covers[p][f]
        BY <1>2, <2>14, <3>3 DEF FlushesOK
      <4> QED
        BY <1>1, <2>9, <4>1 DEF FlushDone
    <3> QED
      BY <1>1, <2>7, <2>8, <2>14, <3>1, <3>2, <3>3 DEF FlushesOK
  <2>16. InLine(p)'
    <3>1. \A m \in Queued(p) \cup ToSet(batch[p]) : m < n
      <4>1. \A m \in Queued(p) \cup ToSet(batch[p]) : m <= accepted[p] /\ m \in Int
        <5>1. \A m \in Queued(p) : m \in Int
          BY <1>2 DEF Queued, Places, Command
        <5>2. \A m \in ToSet(batch[p]) : m \in Int
          <6>1. \A m \in ToSet(batch[p]) : m \in 1..MaxEmits
            BY Facts, ToSetType
          <6> QED
            BY <6>1
        <5> QED
          BY <1>2, <5>1, <5>2 DEF InLine
      <4> QED
        BY <1>2, <2>2, <4>1
    <3>2. \A i, j \in Places(a, "event") : i < j => a[i].id < a[j].id
      <4> SUFFICES ASSUME NEW i \in Places(a, "event"), NEW j \in Places(a, "event"), i < j
                   PROVE  a[i].id < a[j].id
        OBVIOUS
      <4>1. i \in Places(q, "event") /\ i \in DOMAIN q
        BY <2>7
      <4>2. CASE j \in Places(q, "event")
        BY <1>2, <2>5, <2>7, <4>1, <4>2 DEF InLine
      <4>3. CASE j = Len(q) + 1
        <5>1. a[i].id \in Queued(p) /\ a[j].id = n
          BY <2>4, <2>7, <2>9, <4>1, <4>3 DEF IdsIn
        <5> QED
          BY <3>1, <5>1
      <4> QED
        BY <2>7, <4>2, <4>3
    <3>3. \A m \in Queued(p)' : born[p] < m /\ m <= n
      <4>1. \A m \in Queued(p) : born[p] < m /\ m <= n
        <5>1. \A m \in Queued(p) : m \in Int
          BY <1>2 DEF Queued, Places, Command
        <5> QED
          BY <1>2, <2>2, <3>1, <5>1 DEF InLine
      <4>2. born[p] < n /\ n <= n
        BY <1>2, <2>2
      <4> QED
        BY <2>9, <4>1, <4>2
    <3>4. \A m \in ToSet(batch[p]) : m <= n /\ \A k \in Queued(p)' : m < k
      <4>1. \A m \in ToSet(batch[p]) : m \in 1..MaxEmits
        BY Facts, ToSetType
      <4> QED
        BY <1>2, <2>2, <2>9, <3>1, <4>1 DEF InLine
    <3>5. \A i \in DOMAIN file : file[i].proc = p =>
             /\ file[i].event <= n /\ \A k \in Underway(p) \cup Queued(p)' : file[i].event < k
      <4> SUFFICES ASSUME NEW i \in DOMAIN file, file[i].proc = p
                   PROVE  /\ file[i].event <= n
                          /\ \A k \in Underway(p) \cup Queued(p)' : file[i].event < k
        OBVIOUS
      <4>1. /\ file[i].event <= accepted[p]
            /\ \A k \in Underway(p) \cup Queued(p) : file[i].event < k
        BY <1>2 DEF InLine
      <4>2. file[i] \in Piece
        BY Facts
      <4>3. file[i].event \in Int
        BY <4>2 DEF Piece
      <4>4. file[i].event < n /\ file[i].event <= n
        BY <1>2, <2>2, <4>1, <4>3
      <4> QED
        BY <2>9, <4>1, <4>4
    <3>6. /\ \A i, j \in DOMAIN batch[p] : i < j => batch[p][i] < batch[p][j]
          /\ \A i, j \in DOMAIN records[p] : i < j => records[p][i].event < records[p][j].event
          /\ \A i \in DOMAIN records[p] : records[p][i].proc = p /\ records[p][i].event \in ToSet(batch[p])
      BY <1>2 DEF InLine
    <3> QED
      BY <1>1, <1>5, <2>8, <3>2, <3>3, <3>4, <3>5, <3>6 DEF InLine
  <2> QED
    BY <1>6, <2>10, <2>11, <2>12, <2>13, <2>15, <2>16, StepParts DEF Own
<1> QED
  BY <1>7, <1>8 DEF Emit

\* A flush at the end of the queue has all events that are not yet tried ahead
\* of it or under way.
LEMMA FlushOK ==
  ASSUME OutboxInv, NEW p \in Procs, NEW f \in Flushes, Flush(p, f)
  PROVE  OutboxInv'
<1>1. /\ UNCHANGED <<file, gen, batch, replies, records, posts, inflight, nextSeq, faults,
                     emits, accepted, born, attempted>>
      /\ flushes[p][f] = "unused"
  BY DEF Flush
<1>2. /\ Types /\ WriterOK(p) /\ NoneLost(p) /\ FlushesOK(p) /\ InLine(p)
      /\ queue[p] \in Seq(Command) /\ replies[p] \subseteq Flushes
      /\ accepted[p] \in 0..MaxEmits /\ born[p] \in 0..MaxEmits
  BY Facts
<1>3. FileOrder' /\ FileOf(p) /\ (Alone => Numbered(p))'
  BY <1>1, FileStays, NumbersStay
<1>4. CASE UNCHANGED <<queue, covers, writer>> /\ flushes' = [flushes EXCEPT ![p][f] = "failed"]
  <2>1. \A g \in Flushes : flushes'[p][g] = IF g = f THEN "failed" ELSE flushes[p][g]
    BY <1>2, <1>4 DEF Types
  <2>2. Types' /\ OthersStay(p)
    BY <1>1, <1>2, <1>4 DEF Types, OthersStay
  <2>3. Underway(p)' = Underway(p) /\ Delivering(p)' = Delivering(p)
    BY <1>1, <1>4 DEF Underway, Delivering
  <2>4. WriterOK(p)' /\ NoneLost(p)'
    BY <1>1, <1>2, <1>4, <2>3 DEF WriterOK, NoneLost, Queued, Places
  <2>5. FlushesOK(p)'
    <3>1. /\ queue'[p] = queue[p] /\ replies'[p] \subseteq replies[p] /\ covers'[p] = covers[p]
          /\ accepted'[p] = accepted[p] /\ attempted[p] \subseteq attempted'[p]
      BY <1>1, <1>4
    <3>2. \A g \in Flushes : /\ flushes[p][g] # "unused" => flushes'[p][g] # "unused"
                             /\ flushes'[p][g] = "done" => flushes[p][g] = "done"
      BY <2>1
    <3> QED
      BY <2>3, <3>1, <3>2, FlushesStay
  <2>6. InLine(p)'
    BY <1>1, <1>4, <2>3, LineStays
  <2> QED
    BY <1>3, <2>2, <2>4, <2>5, <2>6, StepParts DEF Own
<1>5. CASE /\ writer[p] # "gone" /\ HasRoom(p) /\ EnsureWriterSpawned(p)
           /\ queue' = [queue EXCEPT ![p] = Append(queue[p], FlushCommand(f))]
           /\ flushes' = [flushes EXCEPT ![p][f] = "waiting"]
           /\ covers' = [covers EXCEPT ![p][f] = (born[p] + 1)..accepted[p]]
  <2>1. /\ writer' \in [Procs -> {"none", "idle", "deliver", "append", "posts", "barrier", "gone"}]
        /\ \A q \in Procs \ {p} : writer'[q] = writer[q]
        /\ writer'[p] = writer[p] \/ (writer[p] = "none" /\ writer'[p] = "idle")
    BY <1>5, Spawned
  <2>2. Underway(p)' = Underway(p)
    BY <1>1, <2>1 DEF Underway
  <2>3. PICK c : c = FlushCommand(f)
    OBVIOUS
  <2>4. c \in Command /\ c.kind = "flush" /\ c.id = f
    BY <2>3 DEF FlushCommand, Command
  <2>5. PICK q : q = queue[p]
    OBVIOUS
  <2>6. PICK a : a = Append(q, c)
    OBVIOUS
  <2>7. PICK new : new = (born[p] + 1)..accepted[p]
    OBVIOUS
  <2>8. /\ a \in Seq(Command) /\ Len(q) \in Nat /\ Len(a) = Len(q) + 1
        /\ DOMAIN q = 1..Len(q) /\ a[Len(q) + 1] = c /\ (\A i \in DOMAIN q : a[i] = q[i])
        /\ Places(q, "event") \subseteq DOMAIN q /\ Places(q, "flush") \subseteq DOMAIN q
        /\ Places(a, "flush") = Places(q, "flush") \cup {Len(q) + 1}
        /\ Places(a, "event") = Places(q, "event")
        /\ (\A i \in DOMAIN q : Ahead(a, i) = Ahead(q, i))
        /\ Ahead(a, Len(q) + 1) = IdsIn(q) /\ IdsIn(a) = IdsIn(q)
    <3>1. q \in Seq(Command)
      BY <1>2, <2>5
    <3>2. Extended(a, q, c)
      BY <2>4, <2>6, <3>1, Appended
    <3>3. /\ \A kind : Places(q, kind) \subseteq DOMAIN q
          /\ \A kind : c.kind = kind => Places(a, kind) = Places(q, kind) \cup {Len(q) + 1}
          /\ \A kind : c.kind # kind => Places(a, kind) = Places(q, kind)
          /\ c.kind # "event" => IdsIn(a) = IdsIn(q)
      BY <3>2 DEF Extended
    <3>4. /\ a \in Seq(Command) /\ Len(q) \in Nat /\ Len(a) = Len(q) + 1
          /\ DOMAIN q = 1..Len(q) /\ a[Len(q) + 1] = c /\ \A i \in DOMAIN q : a[i] = q[i]
          /\ \A i \in DOMAIN q : Ahead(a, i) = Ahead(q, i)
          /\ Ahead(a, Len(q) + 1) = IdsIn(q)
      BY <3>2 DEF Extended
    <3>5. c.kind # "event"
      BY <2>4
    <3>6. /\ Places(q, "event") \subseteq DOMAIN q /\ Places(q, "flush") \subseteq DOMAIN q
          /\ Places(a, "flush") = Places(q, "flush") \cup {Len(q) + 1}
          /\ Places(a, "event") = Places(q, "event") /\ IdsIn(a) = IdsIn(q)
      BY <2>4, <3>3, <3>5, Zenon
    <3> QED
      BY <3>4, <3>6
  <2>9. queue'[p] = a /\ queue' \in [Procs -> Seq(Command)]
    <3>1. queue' = [queue EXCEPT ![p] = a]
      BY <1>5, <2>3, <2>5, <2>6, Zenon
    <3> QED
      BY <1>2, <2>8, <3>1 DEF Types
  <2>10. /\ flushes' \in [Procs -> [Flushes -> {"unused", "waiting", "done", "failed"}]]
         /\ \A g \in Flushes : flushes'[p][g] = IF g = f THEN "waiting" ELSE flushes[p][g]
    BY <1>2, <1>5 DEF Types
  <2>11. \A x \in new : x \in 1..MaxEmits /\ x \in 1..accepted[p]
    <3>1. accepted[p] \in 0..MaxEmits /\ born[p] \in 0..MaxEmits
      BY <1>2
    <3> QED
      BY <2>7, <3>1, OutboxAssumption
  <2>12. /\ covers' \in [Procs -> [Flushes -> SUBSET (1..MaxEmits)]]
         /\ \A g \in Flushes : covers'[p][g] = IF g = f THEN new ELSE covers[p][g]
    <3>1. new \in SUBSET (1..MaxEmits)
      BY <2>11
    <3>2. covers' = [covers EXCEPT ![p][f] = new]
      BY <1>5, <2>7, Zenon
    <3> QED
      BY <1>2, <3>1, <3>2 DEF Types
  <2>13. Queued(p)' = Queued(p) /\ Queued(p) = IdsIn(q)
    <3>1. Queued(p) = IdsIn(q)
      BY <2>5 DEF Queued, IdsIn
    <3>2. Queued(p)' = IdsIn(a)
      BY <2>9 DEF Queued, IdsIn
    <3> QED
      BY <2>8, <3>1, <3>2
  <2>14. Types'
    BY <1>1, <1>2, <2>1, <2>9, <2>10, <2>12 DEF Types
  <2>15. OthersStay(p)
    BY <1>1, <1>2, <1>5, <2>1 DEF Types, OthersStay
  <2>16. WriterOK(p)'
    <3>1. Len(queue'[p]) <= Capacity
      BY <1>5, <2>5, <2>8, <2>9, OutboxAssumption DEF HasRoom
    <3>2. writer'[p] # "gone"
      BY <1>5, <2>1
    <3> QED
      BY <1>1, <1>2, <2>1, <3>1, <3>2 DEF WriterOK
  <2>17. new \subseteq attempted[p] \cup Underway(p) \cup Queued(p)
    BY <1>2, <1>5, <2>7 DEF NoneLost
  <2>18. NoneLost(p)'
    BY <1>1, <2>2, <2>7, <2>13, <2>17 DEF NoneLost
  <2>19. FlushesOK(p)'
    <3>1. ASSUME NEW i \in Places(q, "flush")
          PROVE  FlushQueued(p, i)'
      <4>1. i \in DOMAIN q /\ i \in Places(queue[p], "flush") /\ a[i] = q[i]
        BY <2>5, <2>8
      <4>2. PICK g : g = q[i].id
        OBVIOUS
      <4>3. g \in Flushes
        BY <1>2, <2>5, <4>1, <4>2 DEF Places, Command
      <4>4. /\ flushes[p][g] # "unused"
            /\ covers[p][g] \subseteq attempted[p] \cup Underway(p) \cup Ahead(q, i)
            /\ \A j \in Places(q, "event") : i < j => q[j].id \notin covers[p][g]
        <5>1. FlushQueued(p, i)
          BY <1>2, <4>1 DEF FlushesOK
        <5> QED
          BY <2>5, <4>2, <5>1 DEF FlushQueued, Ahead
      <4>5. covers'[p][g] = covers[p][g] /\ flushes'[p][g] # "unused"
        BY <1>1, <2>10, <2>12, <4>3, <4>4
      <4>6. \A j \in Places(a, "event") : i < j => a[j].id \notin covers[p][g]
        BY <2>8, <4>4
      <4>7. covers[p][g] \subseteq attempted[p] \cup Underway(p) \cup Ahead(a, i)
        BY <2>8, <4>1, <4>4
      <4> QED
        BY <1>1, <2>2, <2>9, <4>1, <4>2, <4>5, <4>6, <4>7 DEF FlushQueued, Ahead
    <3>2. FlushQueued(p, Len(q) + 1)'
      <4>1. PICK i : i = Len(q) + 1
        OBVIOUS
      <4>2. a[i].id = f /\ covers'[p][f] = new /\ flushes'[p][f] # "unused"
        BY <2>4, <2>8, <2>10, <2>12, <4>1
      <4>3. \A j \in Places(a, "event") : ~(i < j)
        BY <2>8, <4>1
      <4>4. new \subseteq attempted[p] \cup Underway(p) \cup Ahead(a, i)
        BY <2>8, <2>13, <2>17, <4>1
      <4>5. FlushQueued(p, i)'
        BY <1>1, <2>2, <2>9, <4>2, <4>3, <4>4 DEF FlushQueued, Ahead
      <4> QED
        BY <4>1, <4>5
    <3>3. ASSUME NEW g \in replies[p]
          PROVE  FlushTaken(p, g)'
      <4>1. FlushTaken(p, g) /\ g \in Flushes
        BY <1>2 DEF FlushesOK
      <4>2. g # f
        BY <1>1, <4>1 DEF FlushTaken
      <4>3. covers'[p][g] = covers[p][g] /\ flushes'[p][g] = flushes[p][g]
        BY <2>10, <2>12, <4>1, <4>2
      <4> QED
        BY <1>1, <2>2, <2>13, <4>1, <4>3 DEF FlushTaken
    <3>4. ASSUME NEW g \in Flushes, flushes'[p][g] = "done"
          PROVE  FlushDone(p, g)'
      <4>1. g # f /\ flushes[p][g] = "done"
        BY <2>10, <3>4
      <4>2. covers'[p][g] = covers[p][g]
        BY <2>12, <4>1
      <4>3. FlushDone(p, g)
        BY <1>2, <4>1 DEF FlushesOK
      <4> QED
        BY <1>1, <2>13, <4>2, <4>3 DEF FlushDone
    <3>5. \A g \in Flushes : covers'[p][g] \subseteq 1..accepted'[p]
      BY <1>1, <1>2, <2>11, <2>12 DEF FlushesOK
    <3> QED
      BY <1>1, <2>8, <2>9, <3>1, <3>2, <3>3, <3>4, <3>5 DEF FlushesOK
  <2>20. InLine(p)'
    <3>1. \A i, j \in Places(a, "event") : i < j => a[i].id < a[j].id
      BY <1>2, <2>5, <2>8 DEF InLine
    <3> QED
      BY <1>1, <1>2, <2>2, <2>9, <2>13, <3>1 DEF InLine
  <2> QED
    BY <1>3, <2>14, <2>15, <2>16, <2>18, <2>19, <2>20, StepParts DEF Own
<1> QED
  BY <1>4, <1>5 DEF Flush

-----------------------------------------------------------------------------
(* Taking a batch. *)

LEMMA Cut ==
  ASSUME NEW q \in Seq(Command), NEW n \in 1..Len(q), NEW h, NEW t,
         h = SubSeq(q, 1, n), t = SubSeq(q, n + 1, Len(q))
  PROVE  /\ h \in Seq(Command) /\ Len(h) = n /\ t \in Seq(Command) /\ Len(t) = Len(q) - n
         /\ DOMAIN h = 1..n /\ DOMAIN t = 1..(Len(q) - n)
         /\ \A i \in 1..n : h[i] = q[i]
         /\ \A i \in 1..(Len(q) - n) : t[i] = q[i + n]
<1>1. Len(q) \in Nat /\ n \in Nat /\ n >= 1 /\ n <= Len(q)
  OBVIOUS
<1>2. /\ h \in Seq(Command) /\ Len(h) = n /\ DOMAIN h = 1..n /\ \A i \in 1..n : h[i] = q[i]
  BY <1>1, SubSeqProperties
<1>3. /\ t \in Seq(Command) /\ Len(t) = Len(q) - n
      /\ \A i \in 1..(Len(q) - n) : t[i] = q[i + n]
  BY <1>1, SubSeqProperties
<1>4. DOMAIN t = 1..(Len(q) - n)
  BY <1>3
<1> QED
  BY <1>2, <1>3, <1>4

LEMMA ReceiveOK ==
  ASSUME OutboxInv, NEW p \in Procs, Receive(p)
  PROVE  OutboxInv'
<1>1. PICK q : q = queue[p]
  OBVIOUS
<1>2. PICK n : n = IF Len(q) < MaxBatch THEN Len(q) ELSE MaxBatch
  OBVIOUS
<1>3. PICK h : h = SubSeq(q, 1, n)
  OBVIOUS
<1>4. PICK t : t = SubSeq(q, n + 1, Len(q))
  OBVIOUS
<1>5. PICK es : es = EventsOf(h)
  OBVIOUS
<1>6. /\ UNCHANGED <<file, gen, records, posts, inflight, nextSeq, flushes, faults,
                     emits, accepted, born, covers, attempted>>
      /\ writer[p] = "idle" /\ q # <<>>
      /\ queue' = [queue EXCEPT ![p] = t]
      /\ batch' = [batch EXCEPT ![p] = es]
      /\ replies' = [replies EXCEPT ![p] = RepliesOf(h)]
      /\ writer' = [writer EXCEPT ![p] = IF Places(h, "event") = {} THEN "barrier" ELSE "deliver"]
  BY <1>1, <1>2, <1>3, <1>4, <1>5 DEF Receive, callVars
<1>7. /\ Types /\ WriterOK(p) /\ NoneLost(p) /\ FlushesOK(p) /\ InLine(p)
      /\ q \in Seq(Command) /\ Len(q) <= Capacity
  BY <1>1, Facts DEF WriterOK
<1>8. Len(q) \in Nat /\ n \in 1..Len(q) /\ n <= MaxBatch /\ n \in Nat
  <2>1. Len(q) \in Nat /\ Len(q) # 0
    <3>1. q \in Seq(Command)
      BY <1>7
    <3> QED
      BY <1>6, <3>1
  <2> QED
    BY <1>2, <2>1, OutboxAssumption
<1>9. /\ h \in Seq(Command) /\ Len(h) = n /\ t \in Seq(Command) /\ Len(t) = Len(q) - n
      /\ DOMAIN h = 1..n /\ DOMAIN t = 1..(Len(q) - n)
      /\ \A i \in 1..n : h[i] = q[i]
      /\ \A i \in 1..(Len(q) - n) : t[i] = q[i + n]
  <2>1. q \in Seq(Command)
    BY <1>7
  <2> QED
    BY <1>3, <1>4, <1>8, <2>1, Cut
<1>10. DOMAIN q = 1..Len(q)
  BY <1>7
<1>11. \A kind, i : i \in Places(h, kind) <=> i \in Places(q, kind) /\ i <= n
  BY <1>8, <1>9, <1>10 DEF Places
<1>12. /\ \A kind : \A i \in Places(t, kind) : i \in Nat /\ i + n \in Places(q, kind) /\ t[i] = q[i + n]
       /\ \A kind : \A i \in Places(q, kind) : i > n => i - n \in Places(t, kind) /\ t[i - n] = q[i]
       /\ \A kind : \A i \in Places(q, kind) : i \in Nat
  <2>1. ASSUME NEW kind, NEW i \in Places(t, kind)
        PROVE  i \in Nat /\ i + n \in Places(q, kind) /\ t[i] = q[i + n]
    <3>1. i \in 1..(Len(q) - n) /\ t[i].kind = kind
      BY <1>9 DEF Places
    <3>2. i + n \in 1..Len(q) /\ t[i] = q[i + n] /\ i \in Nat
      BY <1>8, <1>9, <3>1
    <3> QED
      BY <1>10, <3>1, <3>2 DEF Places
  <2>2. ASSUME NEW kind, NEW i \in Places(q, kind)
        PROVE  i \in Nat /\ (i > n => i - n \in Places(t, kind) /\ t[i - n] = q[i])
    <3>1. i \in 1..Len(q) /\ q[i].kind = kind
      BY <1>10 DEF Places
    <3>2. ASSUME i > n
          PROVE  i - n \in Places(t, kind) /\ t[i - n] = q[i]
      <4>1. i - n \in 1..(Len(q) - n) /\ (i - n) + n = i
        BY <1>8, <3>1, <3>2
      <4>2. t[i - n] = q[i]
        BY <1>9, <4>1
      <4> QED
        BY <1>9, <3>1, <4>1, <4>2 DEF Places
    <3> QED
      BY <3>1, <3>2
  <2> QED
    BY <2>1, <2>2
<1>13. /\ es \in Seq(1..MaxEmits) /\ Len(es) <= Len(h)
       /\ es = <<>> <=> Places(h, "event") = {}
       /\ ToSet(es) = {h[i].id : i \in Places(h, "event")}
       /\ (\A i, j \in Places(h, "event") : i < j => h[i].id < h[j].id)
            => \A k, l \in DOMAIN es : k < l => es[k] < es[l]
  BY <1>5, <1>9, EventsSorted
<1>14. /\ \A x \in ToSet(es) : \E i \in Places(q, "event") : i <= n /\ x = q[i].id
       /\ \A i \in Places(q, "event") : i <= n => q[i].id \in ToSet(es)
  <2>1. \A i \in Places(h, "event") : h[i] = q[i]
    BY <1>9 DEF Places
  <2> QED
    BY <1>11, <1>13, <2>1
<1>15. /\ queue'[p] = t /\ batch'[p] = es /\ replies'[p] = RepliesOf(h)
       /\ writer'[p] = IF Places(h, "event") = {} THEN "barrier" ELSE "deliver"
  <2>1. p \in DOMAIN queue /\ p \in DOMAIN batch /\ p \in DOMAIN replies /\ p \in DOMAIN writer
    BY <1>7 DEF Types
  <2> QED
    BY <1>6, <2>1, Zenon
<1>16. Queued(p) = IdsIn(q) /\ Queued(p)' = IdsIn(t)
  BY <1>1, <1>15 DEF Queued, IdsIn
<1>17. /\ \A x \in Queued(p)' : \E i \in Places(q, "event") : i > n /\ x = q[i].id
       /\ \A i \in Places(q, "event") : i > n => q[i].id \in Queued(p)'
       /\ \A x \in Queued(p) : \E i \in Places(q, "event") : x = q[i].id
       /\ \A i \in Places(q, "event") : q[i].id \in Queued(p)
  <2>1. ASSUME NEW x \in IdsIn(t)
        PROVE  \E i \in Places(q, "event") : i > n /\ x = q[i].id
    <3>1. PICK i \in Places(t, "event") : x = t[i].id
      BY DEF IdsIn
    <3>2. i \in Nat /\ i + n \in Places(q, "event") /\ t[i] = q[i + n] /\ i # 0
      <4>1. i \in DOMAIN t
        BY DEF Places
      <4> QED
        BY <1>9, <1>12, <4>1
    <3>3. i + n > n
      BY <1>8, <3>2
    <3> QED
      BY <3>1, <3>2, <3>3
  <2>2. ASSUME NEW i \in Places(q, "event"), i > n
        PROVE  q[i].id \in IdsIn(t)
    BY <1>12, <2>2 DEF IdsIn
  <2>3. /\ \A x \in IdsIn(q) : \E i \in Places(q, "event") : x = q[i].id
        /\ \A i \in Places(q, "event") : q[i].id \in IdsIn(q)
    BY DEF IdsIn
  <2> QED
    BY <1>16, <2>1, <2>2, <2>3
<1>18. /\ \A x \in ToSet(es) : x \in Queued(p)
       /\ \A x \in Queued(p)' : x \in Queued(p)
       /\ \A x \in Queued(p) : x \in ToSet(es) \/ x \in Queued(p)'
  <2>1. /\ \A x \in ToSet(es) : x \in Queued(p)
        /\ \A x \in Queued(p)' : x \in Queued(p)
    BY <1>14, <1>17
  <2>2. ASSUME NEW x \in Queued(p)
        PROVE  x \in ToSet(es) \/ x \in Queued(p)'
    <3>1. PICK i \in Places(q, "event") : x = q[i].id
      BY <1>17
    <3>2. i <= n \/ i > n
      BY <1>8, <1>12
    <3> QED
      BY <1>14, <1>17, <3>1, <3>2
  <2> QED
    BY <2>1, <2>2
<1>19. /\ records[p] = <<>> /\ posts[p] = <<>> /\ Underway(p) = {} /\ Underway(p)' = ToSet(es)
  <2>1. records[p] = <<>> /\ posts[p] = <<>>
    BY <1>6, <1>7 DEF WriterOK
  <2>2. Underway(p) = {}
    BY <1>6, <2>1 DEF Underway
  <2>3. CASE Places(h, "event") = {}
    <3>1. writer'[p] = "barrier" /\ records'[p] = <<>> /\ es = <<>>
      BY <1>6, <1>13, <1>15, <2>1, <2>3
    <3> QED
      <4>1. ToSet(es) = {}
        BY <3>1 DEF ToSet
      <4>2. Underway(p)' = {}
        BY <3>1 DEF Underway
      <4> QED
        BY <2>1, <2>2, <4>1, <4>2
  <2>4. CASE Places(h, "event") # {}
    <3>1. writer'[p] = "deliver"
      BY <1>15, <2>4
    <3> QED
      BY <1>15, <2>1, <2>2, <3>1 DEF Underway
  <2> QED
    BY <2>3, <2>4
<1>20. \A g \in RepliesOf(h) : \E i \in Places(q, "flush") : i <= n /\ g = q[i].id
  <2>1. \A i \in Places(h, "flush") : h[i] = q[i]
    BY <1>9 DEF Places
  <2> QED
    BY <1>11, <2>1 DEF RepliesOf
<1>21. Types' /\ OthersStay(p)
  <2>1. queue' \in [Procs -> Seq(Command)]
    BY <1>6, <1>7, <1>9 DEF Types
  <2>2. batch' \in [Procs -> Seq(1..MaxEmits)]
    BY <1>6, <1>7, <1>13 DEF Types
  <2>3. replies' \in [Procs -> SUBSET Flushes]
    <3>1. \A i \in Places(q, "flush") : q[i].id \in Flushes
      BY <1>7 DEF Places, Command
    <3>2. RepliesOf(h) \in SUBSET Flushes
      BY <1>20, <3>1
    <3> QED
      BY <1>6, <1>7, <3>2 DEF Types
  <2>4. writer' \in [Procs -> {"none", "idle", "deliver", "append", "posts", "barrier", "gone"}]
    BY <1>6, <1>7 DEF Types
  <2>5. Types'
    BY <1>6, <1>7, <2>1, <2>2, <2>3, <2>4 DEF Types
  <2>6. OthersStay(p)
    BY <1>6, <1>7 DEF Types, OthersStay
  <2> QED
    BY <2>5, <2>6
<1>22. WriterOK(p)'
  <2>1. Len(queue'[p]) <= Capacity
    BY <1>7, <1>8, <1>9, <1>15, OutboxAssumption
  <2>2. Len(batch'[p]) <= MaxBatch
    <3>1. Len(es) \in Nat /\ Len(es) <= n
      BY <1>9, <1>13
    <3> QED
      BY <1>8, <1>15, <3>1, OutboxAssumption
  <2>3. writer'[p] \in {"barrier", "deliver"} /\ (writer'[p] = "deliver" => batch'[p] # <<>>)
    BY <1>13, <1>15
  <2>4. ToSet(posts'[p]) = {}
    BY <1>6, <1>19 DEF ToSet
  <2> QED
    BY <1>6, <1>7, <1>19, <2>1, <2>2, <2>3, <2>4 DEF WriterOK
<1>23. NoneLost(p)'
  <2>1. (born[p] + 1)..accepted[p] \subseteq attempted[p] \cup Queued(p)
    BY <1>6, <1>7, <1>19 DEF NoneLost
  <2> QED
    BY <1>6, <1>18, <1>19, <2>1 DEF NoneLost
<1>24. ASSUME NEW i \in Places(q, "flush")
       PROVE  /\ q[i].id \in Flushes /\ flushes[p][q[i].id] # "unused"
              /\ covers[p][q[i].id] \subseteq attempted[p] \cup Ahead(q, i)
              /\ \A j \in Places(q, "event") : i < j => q[j].id \notin covers[p][q[i].id]
  <2>1. FlushQueued(p, i)
    BY <1>1, <1>7 DEF FlushesOK
  <2>2. q[i].id \in Flushes
    BY <1>7 DEF Places, Command
  <2> QED
    BY <1>1, <1>19, <2>1, <2>2 DEF FlushQueued, Ahead
<1>25. FlushesOK(p)'
  <2>1. ASSUME NEW i \in Places(t, "flush")
        PROVE  FlushQueued(p, i)'
    <3>1. PICK j : j = i + n
      OBVIOUS
    <3>2. i \in Nat /\ j \in Places(q, "flush") /\ t[i] = q[j] /\ j \in Nat
      BY <1>8, <1>12, <3>1
    <3>3. PICK g : g = q[j].id
      OBVIOUS
    <3>4. /\ flushes[p][g] # "unused" /\ covers[p][g] \subseteq attempted[p] \cup Ahead(q, j)
          /\ \A k \in Places(q, "event") : j < k => q[k].id \notin covers[p][g]
      BY <1>24, <3>2, <3>3
    <3>5. \A x \in Ahead(q, j) : x \in ToSet(es) \/ x \in Ahead(t, i)
      <4> SUFFICES ASSUME NEW x \in Ahead(q, j)
                   PROVE  x \in ToSet(es) \/ x \in Ahead(t, i)
        OBVIOUS
      <4>1. PICK k \in Places(q, "event") : k < j /\ x = q[k].id
        BY DEF Ahead
      <4>2. CASE k <= n
        BY <1>14, <4>1, <4>2
      <4>3. CASE k > n
        <5>1. k - n \in Places(t, "event") /\ t[k - n] = q[k] /\ k \in Nat
          BY <1>12, <4>3
        <5>2. k - n < i
          BY <1>8, <3>1, <3>2, <4>1, <5>1
        <5> QED
          BY <4>1, <5>1, <5>2 DEF Ahead
      <4>4. k \in Nat
        BY <1>12
      <4> QED
        BY <1>8, <4>2, <4>3, <4>4
    <3>6. \A k \in Places(t, "event") : i < k => t[k].id \notin covers[p][g]
      <4> SUFFICES ASSUME NEW k \in Places(t, "event"), i < k
                   PROVE  t[k].id \notin covers[p][g]
        OBVIOUS
      <4>1. k \in Nat /\ k + n \in Places(q, "event") /\ t[k] = q[k + n]
        BY <1>12
      <4>2. j < k + n
        BY <1>8, <3>1, <3>2, <4>1
      <4> QED
        BY <3>4, <4>1, <4>2
    <3>7. covers[p][g] \subseteq attempted[p] \cup ToSet(es) \cup Ahead(t, i)
      BY <3>4, <3>5
    <3> QED
      BY <1>6, <1>15, <1>19, <3>2, <3>3, <3>4, <3>6, <3>7 DEF FlushQueued, Ahead
  <2>2. ASSUME NEW g \in RepliesOf(h)
        PROVE  FlushTaken(p, g)'
    <3>1. PICK i \in Places(q, "flush") : i <= n /\ g = q[i].id
      BY <1>20
    <3>2. /\ flushes[p][g] # "unused" /\ covers[p][g] \subseteq attempted[p] \cup Ahead(q, i)
          /\ \A k \in Places(q, "event") : i < k => q[k].id \notin covers[p][g]
      BY <1>24, <3>1
    <3>3. i \in Nat
      BY <1>12
    <3>4. \A x \in Ahead(q, i) : x \in ToSet(es)
      <4> SUFFICES ASSUME NEW x \in Ahead(q, i)
                   PROVE  x \in ToSet(es)
        OBVIOUS
      <4>1. PICK k \in Places(q, "event") : k < i /\ x = q[k].id
        BY DEF Ahead
      <4>2. k <= n
        BY <1>8, <1>12, <3>1, <3>3, <4>1
      <4> QED
        BY <1>14, <4>1, <4>2
    <3>5. \A x \in Queued(p)' : x \notin covers[p][g]
      <4> SUFFICES ASSUME NEW x \in Queued(p)'
                   PROVE  x \notin covers[p][g]
        OBVIOUS
      <4>1. PICK k \in Places(q, "event") : k > n /\ x = q[k].id
        BY <1>17
      <4>2. i < k
        BY <1>8, <1>12, <3>1, <3>3, <4>1
      <4> QED
        BY <3>2, <4>1, <4>2
    <3> QED
      BY <1>6, <1>19, <3>2, <3>4, <3>5 DEF FlushTaken
  <2>3. ASSUME NEW g \in Flushes, flushes[p][g] = "done"
        PROVE  FlushDone(p, g)'
    <3>1. FlushDone(p, g)
      BY <1>7, <2>3 DEF FlushesOK
    <3> QED
      BY <1>6, <1>15, <1>18, <3>1 DEF FlushDone
  <2>4. \A g \in Flushes : covers[p][g] \subseteq 1..accepted[p]
    BY <1>7 DEF FlushesOK
  <2> QED
    BY <1>6, <1>15, <2>1, <2>2, <2>3, <2>4 DEF FlushesOK
<1>26. InLine(p)'
  <2>1. \A i, j \in Places(q, "event") : i < j => q[i].id < q[j].id
    BY <1>1, <1>7 DEF InLine
  <2>2. \A i, j \in Places(t, "event") : i < j => t[i].id < t[j].id
    <3> SUFFICES ASSUME NEW i \in Places(t, "event"), NEW j \in Places(t, "event"), i < j
                 PROVE  t[i].id < t[j].id
      OBVIOUS
    <3>1. /\ i \in Nat /\ i + n \in Places(q, "event") /\ t[i] = q[i + n]
          /\ j \in Nat /\ j + n \in Places(q, "event") /\ t[j] = q[j + n]
      BY <1>12
    <3>2. i + n < j + n
      BY <1>8, <3>1
    <3> QED
      BY <2>1, <3>1, <3>2
  <2>3. \A k, l \in DOMAIN es : k < l => es[k] < es[l]
    <3>1. \A i, j \in Places(h, "event") : i < j => h[i].id < h[j].id
      <4>1. \A i \in Places(h, "event") : h[i] = q[i] /\ i \in Places(q, "event")
        BY <1>9, <1>11 DEF Places
      <4> QED
        BY <2>1, <4>1
    <3> QED
      BY <1>13, <3>1
  <2>4. \A x \in ToSet(es) : x <= accepted[p] /\ \A y \in Queued(p)' : x < y
    <3> SUFFICES ASSUME NEW x \in ToSet(es)
                 PROVE  x <= accepted[p] /\ \A y \in Queued(p)' : x < y
      OBVIOUS
    <3>1. x <= accepted[p]
      BY <1>7, <1>18 DEF InLine
    <3>2. ASSUME NEW y \in Queued(p)'
          PROVE  x < y
      <4>1. PICK i \in Places(q, "event") : i <= n /\ x = q[i].id
        BY <1>14
      <4>2. PICK j \in Places(q, "event") : j > n /\ y = q[j].id
        BY <1>17
      <4>3. i < j
        BY <1>8, <1>12, <4>1, <4>2
      <4> QED
        BY <2>1, <4>1, <4>2, <4>3
    <3> QED
      BY <3>1, <3>2
  <2>5. \A x \in Queued(p)' : born[p] < x /\ x <= accepted[p]
    BY <1>7, <1>18 DEF InLine
  <2>6. \A i \in DOMAIN file : file[i].proc = p =>
           /\ file[i].event <= accepted[p]
           /\ \A x \in ToSet(es) \cup Queued(p)' : file[i].event < x
    BY <1>7, <1>18 DEF InLine
  <2>7. DOMAIN records'[p] = {}
    BY <1>6, <1>19
  <2> QED
    BY <1>6, <1>15, <1>19, <2>2, <2>3, <2>4, <2>5, <2>6, <2>7 DEF InLine
<1>27. FileOrder' /\ FileOf(p) /\ (Alone => Numbered(p))'
  BY <1>6, FileStays, NumbersStay
<1> QED
  BY <1>21, <1>22, <1>23, <1>25, <1>26, <1>27, StepParts DEF Own

-----------------------------------------------------------------------------
(* The theorems. *)

LEMMA InitOK == Init => OutboxInv
<1> SUFFICES ASSUME Init
             PROVE  OutboxInv
  OBVIOUS
<1>1. file = <<>> /\ DOMAIN file = {}
  BY DEF Init
<1>2. Types
  BY OutboxAssumption DEF Init, Types
<1>3. FileOrder
  BY <1>1 DEF FileOrder
<1>4. ASSUME NEW p \in Procs
      PROVE  Own(p)
  <2>1. /\ queue[p] = <<>> /\ writer[p] = "none" /\ batch[p] = <<>> /\ replies[p] = {}
        /\ records[p] = <<>> /\ posts[p] = <<>> /\ inflight[p] = {} /\ nextSeq[p] = 0
        /\ emits[p] = 0 /\ accepted[p] = 0 /\ born[p] = 0 /\ attempted[p] = {}
        /\ \A f \in Flushes : flushes[p][f] = "unused" /\ covers[p][f] = {}
    BY DEF Init
  <2>2. /\ Queued(p) = {} /\ ToSet(batch[p]) = {} /\ ToSet(posts[p]) = {}
        /\ Places(queue[p], "event") = {} /\ Places(queue[p], "flush") = {}
        /\ DOMAIN batch[p] = {} /\ DOMAIN records[p] = {}
    BY <2>1 DEF Queued, ToSet, Places
  <2>3. WriterOK(p)
    BY <2>1, <2>2, FS_EmptySet, OutboxAssumption DEF WriterOK
  <2>4. NoneLost(p)
    <3>1. (0 + 1)..0 = {}
      OBVIOUS
    <3> QED
      BY <2>1, <3>1 DEF NoneLost
  <2>5. FlushesOK(p)
    BY <2>1, <2>2 DEF FlushesOK
  <2>6. InLine(p)
    BY <1>1, <2>2 DEF InLine
  <2>7. Numbered(p)
    BY <2>1, <2>2 DEF Numbered
  <2> QED
    BY <2>3, <2>4, <2>5, <2>6, <2>7 DEF Own
<1> QED
  BY <1>2, <1>3, <1>4, InvParts

LEMMA NextOK == OutboxInv /\ [Next]_vars => OutboxInv'
<1> SUFFICES ASSUME OutboxInv, [Next]_vars
             PROVE  OutboxInv'
  OBVIOUS
<1>1. CASE UNCHANGED vars
  <2>1. OutboxTypeOK'
    BY <1>1 DEF vars, OutboxInv, OutboxTypeOK, WriterOK
  <2>2. /\ \A p \in Procs : Queued(p)' = Queued(p) /\ Underway(p)' = Underway(p)
        /\ \A i : IsRecord(i)' = IsRecord(i)
    BY <1>1 DEF vars, Queued, Underway, Places, IsRecord, WholeAt
  <2>3. FlushBarrier'
    BY <1>1, <2>2 DEF vars, OutboxInv, FlushBarrier, NoneLost, FlushQueued, FlushTaken,
           FlushDone, Places
  <2>4. RecordOrder'
    BY <1>1, <2>2 DEF vars, OutboxInv, RecordOrder, InLine, Numbered, Places, Alone
  <2> QED
    BY <2>1, <2>3, <2>4 DEF OutboxInv
<1>2. ASSUME NEW p \in Procs, WriterStep(p)
      PROVE  OutboxInv'
  BY <1>2, ReceiveOK, DeliverOK, RecoveryFailsOK, AppendRecordOK, AppendFailsOK,
     PostOK, PostsSpawnedOK, BarrierOK DEF WriterStep
<1>3. ASSUME NEW p \in Procs, NEW f \in Flushes, Flush(p, f) \/ FlushTimesOut(p, f)
      PROVE  OutboxInv'
  BY <1>3, FlushOK, FlushTimesOutOK
<1>4. ASSUME NEW p \in Procs, Emit(p) \/ PostEnds(p) \/ RuntimeStops(p) \/ Restart(p)
      PROVE  OutboxInv'
  BY <1>4, EmitOK, PostEndsOK, RuntimeStopsOK, RestartOK
<1> QED
  BY <1>1, <1>2, <1>3, <1>4 DEF Next

LEMMA OutboxInvariant == Spec => []OutboxInv
BY InitOK, NextOK, PTL DEF Spec

\* The queue, the batch and the fan-out stay within their bounds, and the parts
\* of the writer's state agree with where its loop is, whatever is emitted,
\* flushed, dropped, failed or restarted (OUTBOX_QUEUE_CAPACITY, OUTBOX_MAX_BATCH,
\* WEBHOOK_MAX_INFLIGHT in lifecycle_outbox.rs).
THEOREM OutboxTyped == Spec => []OutboxTypeOK
<1>1. OutboxInv => OutboxTypeOK
  BY DEF OutboxInv
<1> QED
  BY <1>1, OutboxInvariant, PTL

\* A flush that returned success covers every event its process had accepted
\* before it: each append was attempted, and no post of one is under way or
\* still to come (LifecycleOutbox::flush, WriterState::run).
THEOREM FlushesCover == Spec => []FlushBarrier
<1>1. OutboxInv => FlushBarrier
  BY DEF OutboxInv
<1> QED
  BY <1>1, OutboxInvariant, PTL

\* Events of a process are in the file in the order they were accepted, none
\* twice, for any number of processes; with one process seq grows from record
\* to record over restarts, torn lines and failed batches (WriterState::deliver,
\* append_lines, recover_last_seq).
THEOREM RecordsOrdered == Spec => []RecordOrder
<1>1. OutboxInv => RecordOrder
  BY DEF OutboxInv
<1> QED
  BY <1>1, OutboxInvariant, PTL
=============================================================================
