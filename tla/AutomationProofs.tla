-------------------------- MODULE AutomationProofs --------------------------
(***************************************************************************)
(* Proofs about AutomationManager for any scopes, automations, triggers,   *)
(* tasks, times and numbers of faults.                                     *)
(*                                                                         *)
(* AutomationInv is inductive.  Nothing but a receipt takes the status of  *)
(* a run from unsettled to settled, only the holder of dispatch.lock       *)
(* writes receipts, and deletion spares unsettled runs: so what the holder *)
(* listed or has in hand is still unsettled when it comes back from a      *)
(* wait, and what it read of the task store can only have become "lost"    *)
(* where it was an end.                                                    *)
(***************************************************************************)
EXTENDS AutomationManager, TLAPS

\* At most one scheduled run of an automation is unsettled.
OneUnsettled ==
    \A t, u \in Tasks :
        /\ Unsettled(t) /\ Unsettled(u)
        /\ run[t].slot # 0 /\ run[u].slot # 0
        /\ run[t].auto = run[u].auto
        => t = u

AutomationInv == AutomationTypeOK /\ ReceiptTrue /\ OneUnsettled

StepOK == AutomationInv' /\ KeepsOwed

-----------------------------------------------------------------------------
(* Definitions. *)

\* A slot computed from now is none or lies ahead.
LEMMA NextAfterOK ==
  ASSUME NEW rule, NEW t \in Nat
  PROVE  NextAfter(rule, t) \in Nat /\ (NextAfter(rule, t) = 0 \/ NextAfter(rule, t) > t)
BY AutomationAssumption DEF NextAfter

\* The fields of a definition have their types.
LEMMA Fields ==
  ASSUME NEW d \in Definition
  PROVE  /\ d = [status |-> d.status, scope |-> d.scope, rule |-> d.rule,
                 next |-> d.next, stamp |-> d.stamp]
         /\ d.status \in {"none", "active", "paused"} /\ d.scope \in Scopes \cup {None}
         /\ d.rule \in Rules /\ d.next \in Nat /\ d.stamp \in Nat /\ d.stamp + 1 \in Nat
BY DEF Definition

\* A definition that is given another status and slot.
LEMMA ReslottedOK ==
  ASSUME NEW d \in Definition, NEW next \in Nat
  PROVE  /\ Reslotted(d, next) \in Definition /\ Reslotted(d, next).next = next
         /\ d.status # "none" => Reslotted(d, next).status # "none"
<1> DEFINE status == IF next = 0 THEN "paused" ELSE d.status
<1>1. Reslotted(d, next) = [status |-> status, scope |-> d.scope, rule |-> d.rule,
                            next |-> next, stamp |-> d.stamp + 1]
  BY Fields, ZenonT(30) DEF Definition, Reslotted
<1>2. status \in {"none", "active", "paused"} /\ (d.status # "none" => status # "none")
  BY Fields
<1> HIDE DEF status
<1> QED
  BY <1>1, <1>2, Fields DEF Definition

\* What a definition turns into is a definition and exists if it did, and its
\* slot, if it is new, has not passed.
Sound(d, e) ==
    /\ e \in Definition
    /\ d.status # "none" => e.status # "none"
    /\ e.next # d.next => e.next = 0 \/ e.next > now

LEMMA AdvancedOK ==
  ASSUME NEW d \in Definition, NEW slot \in Nat, now \in Nat
  PROVE  Sound(d, Advanced(d, slot))
<1> DEFINE next == NextUnskippedSlot(d.rule, slot)
<1>1. next \in Nat /\ (next = 0 \/ next > now)
  <2> DEFINE from == IF slot > now THEN slot ELSE now
  <2>1. from \in Nat /\ from >= now
    OBVIOUS
  <2> HIDE DEF from
  <2>2. NextAfter(d.rule, from) \in Nat
        /\ (NextAfter(d.rule, from) = 0 \/ NextAfter(d.rule, from) > from)
    BY <2>1, NextAfterOK
  <2>3. next = IF d.rule = "once" THEN 0 ELSE NextAfter(d.rule, from)
    BY DEF NextUnskippedSlot, from
  <2> QED
    BY <2>1, <2>2, <2>3
<1>2. Advanced(d, slot) = Reslotted(d, next)
  BY DEF Advanced
<1> HIDE DEF next
<1> QED
  BY <1>1, <1>2, ReslottedOK DEF Sound

LEMMA RescheduledOK ==
  ASSUME NEW d \in Definition, now \in Nat
  PROVE  Sound(d, Rescheduled(d))
<1> DEFINE next == NextAfter(d.rule, now)
<1>1. next \in Nat /\ (next = 0 \/ next > now)
  BY NextAfterOK
<1>2. Rescheduled(d) = Reslotted(d, next)
  BY DEF Rescheduled
<1> HIDE DEF next
<1> QED
  BY <1>1, <1>2, ReslottedOK DEF Sound

LEMMA AdoptedOK ==
  ASSUME NEW d \in Definition, now \in Nat, NEW p \in Scopes
  PROVE  Sound(d, Adopted(p, d))
<1>1. CASE d.scope = p
  BY <1>1 DEF Adopted, Sound
<1>2. CASE d.scope # p /\ d.status = "active"
  <2>1. Adopted(p, d) = [Rescheduled(d) EXCEPT !.scope = p]
    BY <1>2 DEF Adopted
  <2> QED
    BY <2>1, RescheduledOK DEF Sound, Definition
<1>3. CASE d.scope # p /\ d.status # "active"
  <2>1. Adopted(p, d) = [[d EXCEPT !.stamp = @ + 1] EXCEPT !.scope = p]
    BY <1>3 DEF Adopted
  <2>2. Adopted(p, d) = [status |-> d.status, scope |-> p, rule |-> d.rule,
                         next |-> d.next, stamp |-> d.stamp + 1]
    BY <2>1, Fields
  <2> QED
    BY <2>2, Fields DEF Sound, Definition
<1> QED
  BY <1>1, <1>2, <1>3

LEMMA UpdatedOK ==
  ASSUME NEW d \in Definition, d.status # "none", now \in Nat, NEW p \in Scopes,
         NEW rule \in Rules \cup {Keep}, NEW status \in {"active", "paused", Keep}
  PROVE  Sound(d, Updated(p, d, status, rule))
<1> DEFINE adopting == d.scope = None /\ status # "paused"
           edited == [d EXCEPT !.scope = IF adopting THEN p ELSE @,
                               !.rule = IF rule = Keep THEN @ ELSE rule,
                               !.status = IF status = Keep THEN @ ELSE status,
                               !.stamp = @ + 1]
           changed == adopting \/ status # Keep \/ rule # Keep
           next == IF edited.status = "paused" THEN 0 ELSE NextAfter(edited.rule, now)
<1>1. Updated(p, d, status, rule) = IF changed THEN [edited EXCEPT !.next = next] ELSE edited
  BY DEF Updated
<1>2. edited \in Definition /\ edited.status # "none" /\ edited.next = d.next
  <2> DEFINE sc == IF adopting THEN p ELSE d.scope
             ru == IF rule = Keep THEN d.rule ELSE rule
             st == IF status = Keep THEN d.status ELSE status
  <2>1. edited = [status |-> st, scope |-> sc, rule |-> ru, next |-> d.next,
                  stamp |-> d.stamp + 1]
    <3>1. edited = [d EXCEPT !.scope = sc, !.rule = ru, !.status = st,
                             !.stamp = d.stamp + 1]
      BY Zenon DEF edited
    <3> HIDE DEF sc, ru, st, edited
    <3> QED
      BY <3>1, Fields DEF Definition
  <2>2. sc \in Scopes \cup {None} /\ ru \in Rules /\ st \in {"active", "paused"}
    BY Fields DEF Keep
  <2> HIDE DEF sc, ru, st, edited
  <2> QED
    BY <2>1, <2>2, Fields DEF Definition
<1> HIDE DEF adopting, edited, changed
<1>3. next \in Nat /\ (next = 0 \/ next > now)
  BY NextAfterOK
<1> HIDE DEF next
<1> QED
  BY <1>1, <1>2, <1>3 DEF Sound, Definition

-----------------------------------------------------------------------------
(* What a step leaves alone. *)

\* An end is final but for the loss of the record.
Progress(t) ==
    \/ life'[t] = life[t]
    \/ life'[t] = "lost"
    \/ life[t] \notin Ends \cup {"lost"} /\ life'[t] # "none"

\* A run that has a definition names one.
LEMMA NamedRun ==
  ASSUME FilesOK, RunsOK, NEW t \in Tasks, run[t].status # "none"
  PROVE  run[t].auto \in Automations
<1>1. run[t].auto \in Automations \cup {None}
  BY DEF FilesOK, RunRecord
<1>2. run[t].auto # None
  BY DEF RunsOK, NoRun
<1> QED
  BY <1>1, <1>2

\* A step that writes no run keeps all that is said of runs.
LEMMA RunsKept ==
  ASSUME AutomationInv, UNCHANGED <<run, archive>>,
         \A t \in Tasks : Progress(t),
         \A a \in Automations : Exists(a) => Exists(a)'
  PROVE  RunsOK' /\ (\A t \in Tasks : HonestRun(t)') /\ OneUnsettled'
<1>1. RunsOK'
  BY NamedRun DEF AutomationInv, AutomationTypeOK, RunsOK, NoRun, Active
<1>2. ASSUME NEW t \in Tasks PROVE HonestRun(t)'
  BY DEF AutomationInv, ReceiptTrue, HonestRun, EndedAs, Progress, Ends
<1>3. OneUnsettled'
  BY DEF AutomationInv, OneUnsettled, Unsettled
<1> QED
  BY <1>1, <1>2, <1>3

\* What the holder has in memory stays true while others work.
LEMMA DispatchKept ==
  ASSUME AutomationInv, UNCHANGED disp, disp.proc \in up' \cup {None},
         \A t \in Tasks : Unsettled(t) => Unsettled(t)',
         \A g \in Triggers : trig[g].status = "dispatching" => trig'[g] = trig[g],
         \A t \in Tasks : Progress(t)
  PROVE  DispatchOK' /\ AnswerTrue'
<1>1. DispatchOK'
  <2> USE DEF AutomationInv, AutomationTypeOK, DispatchOK
  <2>1. (disp \in Dispatch)' /\ (disp.proc \in up \cup {None})'
        /\ (\A d \in disp.due : d.seen.status = "active" /\ d.seen.next # 0)'
    OBVIOUS
  <2>2. (\A t \in disp.runs : run[t].status \in Active)'
    BY DEF Unsettled, Dispatch
  <2>3. ASSUME disp.pc # "next"
        PROVE  /\ disp.id \in Tasks
               /\ (IF disp.op = "triggers"
                  THEN \E g \in Triggers : /\ trig[g].status = "dispatching"
                                           /\ trig[g].task = disp.id
                  ELSE disp.id \notin disp.runs /\ run[disp.id].status \in Active)'
    BY <2>3 DEF Unsettled
  <2> QED
    BY <2>1, <2>2, <2>3
<1>2. AnswerTrue'
  <2>1. AnswerTrue /\ (disp.pc = "save" => disp.id \in Tasks)
    BY DEF AutomationInv, AutomationTypeOK, DispatchOK, ReceiptTrue
  <2> QED
    BY <2>1 DEF AnswerTrue, EndedAs, Progress, Ends
<1> QED
  BY <1>1, <1>2

\* The parts of the invariant together.
LEMMA StepParts ==
  ASSUME FilesOK', RunsOK', TriggersOK', DispatchOK', AnswerTrue',
         \A t \in Tasks : HonestRun(t)', OneUnsettled', KeepsOwed
  PROVE  StepOK
BY DEF StepOK, AutomationInv, AutomationTypeOK, ReceiptTrue

-----------------------------------------------------------------------------
(* Operators. *)

\* One definition is changed in a sound way and no other file is.
LEMMA DefinitionStep ==
  ASSUME AutomationInv, NEW a \in Automations, NEW e,
         auto' = [auto EXCEPT ![a] = e], Sound(auto[a], e),
         UNCHANGED <<life, run, trig, archive, up, turn, now>>
  PROVE  /\ FilesOK' /\ RunsOK' /\ TriggersOK' /\ OneUnsettled'
         /\ \A t \in Tasks : HonestRun(t)'
         /\ \A b \in Automations : auto'[b].next # auto[b].next =>
               b = a /\ (auto'[b].next = 0 \/ auto'[b].next > now)
<1>1. /\ auto \in [Automations -> Definition]
      /\ auto' = [auto EXCEPT ![a] = e] /\ e \in Definition
  BY DEF AutomationInv, AutomationTypeOK, FilesOK, Sound
<1>2. auto' \in [Automations -> Definition] /\ auto'[a] = e
      /\ \A b \in Automations : b # a => auto'[b] = auto[b]
  BY <1>1
<1>3. \A b \in Automations : Exists(b) => Exists(b)'
  BY <1>2 DEF Exists, Sound
<1>4. \A t \in Tasks : Progress(t)
  BY DEF Progress
<1>5. RunsOK' /\ (\A t \in Tasks : HonestRun(t)') /\ OneUnsettled'
  BY <1>3, <1>4, RunsKept
<1>6. FilesOK' /\ TriggersOK'
  BY <1>2 DEF AutomationInv, AutomationTypeOK, FilesOK, TriggersOK
<1> QED
  BY <1>2, <1>5, <1>6 DEF Sound

\* The same while the holder of dispatch.lock is elsewhere.
LEMMA EditStep ==
  ASSUME AutomationInv, NEW a \in Automations, NEW e,
         auto' = [auto EXCEPT ![a] = e], Sound(auto[a], e),
         UNCHANGED <<life, run, trig, archive, up, turn, now, disp>>
  PROVE  StepOK
<1>1. /\ FilesOK' /\ RunsOK' /\ TriggersOK' /\ OneUnsettled'
      /\ \A t \in Tasks : HonestRun(t)'
      /\ \A b \in Automations : auto'[b].next # auto[b].next =>
            b = a /\ (auto'[b].next = 0 \/ auto'[b].next > now)
  BY DefinitionStep
<1>2. \A t \in Tasks : Progress(t) /\ (Unsettled(t) => Unsettled(t)')
  BY DEF Progress, Unsettled
<1>3. DispatchOK' /\ AnswerTrue'
  <2>1. disp.proc \in up' \cup {None}
    BY DEF AutomationInv, AutomationTypeOK, DispatchOK
  <2> QED
    BY <1>2, <2>1, DispatchKept
<1>4. KeepsOwed
  BY <1>1 DEF KeepsOwed, TakenWithRun
<1> QED
  BY <1>1, <1>3, <1>4, StepParts

LEMMA CreateAutomationOK ==
  ASSUME AutomationInv, NEW p \in Scopes, NEW a \in Automations, NEW rule \in Rules,
         NEW status \in {"active", "paused"}, CreateAutomation(p, a, rule, status)
  PROVE  StepOK
<1> DEFINE next == IF status = "active" THEN NextAfter(rule, now) ELSE 0
           e == [status |-> status, scope |-> p, rule |-> rule, stamp |-> 1, next |-> next]
<1>1. next \in Nat /\ (next = 0 \/ next > now)
  <2>1. now \in Nat
    BY DEF AutomationInv, AutomationTypeOK, FilesOK
  <2> QED
    BY <2>1, NextAfterOK
<1>2. auto' = [auto EXCEPT ![a] = e]
      /\ UNCHANGED <<life, run, trig, archive, up, turn, now, disp>>
  BY DEF CreateAutomation, lifecycleVars
<1> HIDE DEF next
<1>3. Sound(auto[a], e)
  BY <1>1 DEF Sound, Definition
<1> HIDE DEF e
<1> QED
  BY <1>2, <1>3, EditStep

LEMMA UpdateAutomationOK ==
  ASSUME AutomationInv, NEW p \in Scopes, NEW a \in Automations,
         NEW rule \in Rules \cup {Keep}, NEW status \in {"active", "paused", Keep},
         UpdateAutomation(p, a, status, rule)
  PROVE  StepOK
<1> DEFINE e == Updated(p, auto[a], status, rule)
<1>1. auto[a] \in Definition /\ auto[a].status # "none" /\ now \in Nat
  BY DEF UpdateAutomation, Exists, AutomationInv, AutomationTypeOK, FilesOK
<1>2. auto' = [auto EXCEPT ![a] = e]
      /\ UNCHANGED <<life, run, trig, archive, up, turn, now, disp>>
  BY DEF UpdateAutomation, lifecycleVars
<1>3. Sound(auto[a], e)
  BY <1>1, UpdatedOK
<1> HIDE DEF e
<1> QED
  BY <1>2, <1>3, EditStep

\* Settled runs are archived and removed.
LEMMA ForgetStep ==
  ASSUME AutomationInv, NEW a \in Automations, Deletable(a),
         NEW gone \in SUBSET RunsOf(a), run' = Forget(gone),
         archive' \subseteq archive \cup RunsOf(a), UNCHANGED life
  PROVE  /\ \A t \in Tasks : Unsettled(t)' <=> Unsettled(t)
         /\ \A t \in Tasks : run'[t].auto = run[t].auto /\ run'[t].slot = run[t].slot
         /\ \A t \in Tasks : HonestRun(t)'
         /\ \A t \in Tasks : run[t].auto = None => run'[t] = NoRun
         /\ \A t \in Tasks : Unsettled(t) => run[t].auto # a
         /\ run' \in [Tasks -> RunRecord] /\ archive' \subseteq Tasks
<1>1. run \in [Tasks -> RunRecord] /\ RunsOK /\ archive \subseteq Tasks
      /\ \A t \in Tasks : HonestRun(t)
  BY DEF AutomationInv, AutomationTypeOK, FilesOK, ReceiptTrue
<1>2. RunsOf(a) \subseteq Tasks
      /\ \A t \in RunsOf(a) : run[t].status \in Ends /\ run[t].auto = a
  BY <1>1 DEF RunsOf, Deletable, RunRecord
<1>3. ASSUME NEW t \in Tasks, t \notin gone
      PROVE  run'[t] = run[t]
  BY <1>3 DEF Forget
<1>4. ASSUME NEW t \in Tasks, t \in gone
      PROVE  /\ run'[t] \in RunRecord /\ run'[t].status = "none"
             /\ run'[t].auto = run[t].auto /\ run'[t].slot = run[t].slot
             /\ run'[t].accepted = run[t].accepted
  <2>1. ASSUME NEW r \in RunRecord, NEW s, s = [r EXCEPT !.status = "none"]
        PROVE  /\ s \in RunRecord /\ s.status = "none"
               /\ s.auto = r.auto /\ s.slot = r.slot /\ s.accepted = r.accepted
    BY <2>1 DEF RunRecord
  <2>2. run'[t] = [run[t] EXCEPT !.status = "none"] /\ run[t] \in RunRecord
    BY <1>1, <1>4 DEF Forget
  <2> HIDE DEF Forget
  <2> QED
    BY <2>1, <2>2
<1>5. run' \in [Tasks -> RunRecord]
  <2>1. run' = [t \in Tasks |-> run'[t]]
    BY DEF Forget
  <2>2. ASSUME NEW t \in Tasks PROVE run'[t] \in RunRecord
    BY <1>1, <1>3, <1>4
  <2> QED
    BY <2>1, <2>2
<1>6. \A t \in Tasks : t \in RunsOf(a) => life[t] \in Ends \cup {"lost"}
  BY <1>1, <1>2 DEF HonestRun, EndedAs
<1>7. ASSUME NEW t \in Tasks PROVE HonestRun(t)'
  <2>1. CASE t \notin gone
    BY <1>1, <1>3, <1>6, <2>1 DEF HonestRun, EndedAs
  <2>2. CASE t \in gone
    BY <1>1, <1>4, <1>6, <2>2 DEF HonestRun, EndedAs, Ends
  <2> QED
    BY <2>1, <2>2
<1>8. ASSUME NEW t \in Tasks
      PROVE  /\ Unsettled(t)' <=> Unsettled(t)
             /\ run[t].auto = None => run'[t] = NoRun
             /\ Unsettled(t) => run[t].auto # a
  <2>1. Unsettled(t)' <=> Unsettled(t)
    BY <1>2, <1>3, <1>4 DEF Unsettled, Active, Ends
  <2>2. run[t].auto = None => run'[t] = NoRun
    BY <1>1, <1>2, <1>3, AutomationAssumption DEF RunsOK
  <2>3. Unsettled(t) => run[t].auto # a
    BY <1>2 DEF Unsettled, RunsOf, Active, Ends
  <2> QED
    BY <2>1, <2>2, <2>3
<1> QED
  BY <1>1, <1>2, <1>3, <1>4, <1>5, <1>7, <1>8

LEMMA DeleteAutomationOK ==
  ASSUME AutomationInv, NEW p \in Scopes, NEW a \in Automations, DeleteAutomation(p, a)
  PROVE  StepOK
<1>1. /\ Deletable(a) /\ UNCHANGED <<life, trig, up, turn, now, disp>>
      /\ archive' \in Retained(archive \cup RunsOf(a))
      /\ \E gone \in SUBSET RunsOf(a) : run' = Forget(gone)
      /\ auto' = auto \/ auto' = [auto EXCEPT ![a].status = "none"]
  BY DEF DeleteAutomation, lifecycleVars
<1>2. PICK gone \in SUBSET RunsOf(a) : run' = Forget(gone)
  BY <1>1
<1>3. archive' \subseteq archive \cup RunsOf(a)
  BY <1>1 DEF Retained
<1>4. /\ \A t \in Tasks : Unsettled(t)' <=> Unsettled(t)
      /\ \A t \in Tasks : run'[t].auto = run[t].auto /\ run'[t].slot = run[t].slot
      /\ \A t \in Tasks : HonestRun(t)'
      /\ \A t \in Tasks : run[t].auto = None => run'[t] = NoRun
      /\ \A t \in Tasks : Unsettled(t) => run[t].auto # a
      /\ run' \in [Tasks -> RunRecord] /\ archive' \subseteq Tasks
  BY <1>1, <1>2, <1>3, ForgetStep
<1>5. /\ auto' \in [Automations -> Definition]
      /\ \A b \in Automations : auto'[b].next = auto[b].next
      /\ \A b \in Automations : b # a => auto'[b] = auto[b]
  <2>1. auto \in [Automations -> Definition]
    BY DEF AutomationInv, AutomationTypeOK, FilesOK
  <2>2. CASE auto' = auto
    BY <2>1, <2>2
  <2>3. CASE auto' = [auto EXCEPT ![a].status = "none"]
    <3> DEFINE e == [auto[a] EXCEPT !.status = "none"]
    <3>1. e \in Definition /\ e.next = auto[a].next
      <4>1. ASSUME NEW d \in Definition, NEW x, x = [d EXCEPT !.status = "none"]
            PROVE  x \in Definition /\ x.next = d.next
        BY <4>1 DEF Definition
      <4> QED
        BY <2>1, <4>1
    <3>2. auto' = [auto EXCEPT ![a] = e]
      BY <2>3
    <3> HIDE DEF e
    <3> QED
      BY <2>1, <3>1, <3>2
  <2> QED
    BY <1>1, <2>2, <2>3
<1>6. FilesOK' /\ TriggersOK'
  BY <1>1, <1>4, <1>5 DEF AutomationInv, AutomationTypeOK, FilesOK, TriggersOK
<1>7. RunsOK'
  <2>1. ASSUME NEW t \in Tasks
        PROVE  /\ run'[t].auto = None => run'[t] = NoRun
               /\ Unsettled(t)' => Exists(run[t].auto)'
    <3>1. run'[t].auto = None => run'[t] = NoRun
      BY <1>4
    <3>2. ASSUME Unsettled(t)' PROVE auto'[run'[t].auto].status # "none"
      <4>1. Unsettled(t) /\ run[t].auto # a
        BY <1>4, <3>2
      <4>2. run[t].auto \in Automations /\ Exists(run[t].auto)
        BY <4>1, NamedRun DEF AutomationInv, AutomationTypeOK, RunsOK, Unsettled, Active
      <4> QED
        BY <1>4, <1>5, <4>1, <4>2 DEF Exists
    <3> QED
      BY <3>1, <3>2 DEF Exists
  <2> QED
    BY <2>1 DEF RunsOK, Unsettled
<1>8. OneUnsettled'
  BY <1>4 DEF OneUnsettled, AutomationInv
<1>9. DispatchOK' /\ AnswerTrue'
  <2>1. disp.proc \in up' \cup {None} /\ \A t \in Tasks : Progress(t)
    BY <1>1 DEF AutomationInv, AutomationTypeOK, DispatchOK, Progress
  <2> QED
    BY <1>1, <1>4, <2>1, DispatchKept
<1>10. KeepsOwed
  BY <1>5 DEF KeepsOwed
<1> QED
  BY <1>4, <1>6, <1>7, <1>8, <1>9, <1>10, StepParts

\* A step that writes triggers only.
LEMMA TriggerStep ==
  ASSUME AutomationInv, NEW g \in Triggers, NEW e \in Trigger,
         trig' = [trig EXCEPT ![g] = e],
         trig[g].status # "dispatching",
         e.task \in Tasks <=> e.status \in {"dispatching", "fired"},
         UNCHANGED <<life, auto, run, archive, up, turn, now>>
  PROVE  /\ FilesOK' /\ RunsOK' /\ TriggersOK' /\ OneUnsettled' /\ KeepsOwed
         /\ \A t \in Tasks : HonestRun(t)'
         /\ \A h \in Triggers : trig[h].status = "dispatching" => trig'[h] = trig[h]
<1>1. /\ trig \in [Triggers -> Trigger] /\ TriggersOK
  BY DEF AutomationInv, AutomationTypeOK, FilesOK
<1>2. /\ trig' \in [Triggers -> Trigger] /\ trig'[g] = e
      /\ \A h \in Triggers : h # g => trig'[h] = trig[h]
  BY <1>1
<1>3. TriggersOK'
  BY <1>1, <1>2 DEF TriggersOK
<1>4. FilesOK'
  BY <1>2 DEF AutomationInv, AutomationTypeOK, FilesOK
<1>5. \A t \in Tasks : Progress(t)
  BY DEF Progress
<1>6. \A a \in Automations : Exists(a) => Exists(a)'
  BY DEF Exists
<1>7. RunsOK' /\ (\A t \in Tasks : HonestRun(t)') /\ OneUnsettled'
  BY <1>5, <1>6, RunsKept
<1>8. KeepsOwed
  BY DEF KeepsOwed
<1> QED
  BY <1>2, <1>3, <1>4, <1>7, <1>8

LEMMA CreateTriggerOK ==
  ASSUME AutomationInv, NEW p \in Scopes, NEW g \in Triggers, NEW at \in 1..MaxTime,
         NEW owned \in BOOLEAN, CreateTrigger(p, g, at, owned)
  PROVE  StepOK
<1> DEFINE e == [status |-> "pending", scope |-> p, at |-> at, owned |-> owned,
                 task |-> None]
<1>1. e \in Trigger /\ e.task \notin Tasks /\ e.status \notin {"dispatching", "fired"}
  BY AutomationAssumption DEF Trigger
<1>2. /\ trig' = [trig EXCEPT ![g] = e] /\ trig[g] = NoTrigger
      /\ UNCHANGED <<life, auto, run, archive, up, turn, now, disp>>
  BY DEF CreateTrigger, lifecycleVars
<1>3. trig[g].status # "dispatching"
  BY <1>2 DEF NoTrigger
<1> HIDE DEF e
<1>4. /\ FilesOK' /\ RunsOK' /\ TriggersOK' /\ OneUnsettled' /\ KeepsOwed
      /\ \A t \in Tasks : HonestRun(t)'
      /\ \A h \in Triggers : trig[h].status = "dispatching" => trig'[h] = trig[h]
  BY <1>1, <1>2, <1>3, TriggerStep
<1>5. DispatchOK' /\ AnswerTrue'
  <2>1. disp.proc \in up' \cup {None}
        /\ \A t \in Tasks : Progress(t) /\ (Unsettled(t) => Unsettled(t)')
    BY <1>2 DEF AutomationInv, AutomationTypeOK, DispatchOK, Progress, Unsettled
  <2> QED
    BY <1>2, <1>4, <2>1, DispatchKept
<1> QED
  BY <1>4, <1>5, StepParts

LEMMA CancelTriggerOK ==
  ASSUME AutomationInv, NEW g \in Triggers, CancelTrigger(g)
  PROVE  StepOK
<1> DEFINE e == [trig[g] EXCEPT !.status = "canceled"]
<1>1. trig \in [Triggers -> Trigger] /\ trig[g].status = "pending" /\ trig[g].task = None
  BY DEF AutomationInv, AutomationTypeOK, FilesOK, CancelTrigger, Cancelable
<1>2. e \in Trigger /\ e.task = None /\ e.status = "canceled"
  <2>1. ASSUME NEW d \in Trigger, NEW x, x = [d EXCEPT !.status = "canceled"]
        PROVE  x \in Trigger /\ x.task = d.task /\ x.status = "canceled"
    BY <2>1 DEF Trigger
  <2> QED
    BY <1>1, <2>1
<1>3. /\ trig' = [trig EXCEPT ![g] = e]
      /\ UNCHANGED <<life, auto, run, archive, up, turn, now, disp>>
  BY DEF CancelTrigger, lifecycleVars
<1> HIDE DEF e
<1>4. e.task \in Tasks <=> e.status \in {"dispatching", "fired"}
  BY <1>2, AutomationAssumption
<1>5. /\ FilesOK' /\ RunsOK' /\ TriggersOK' /\ OneUnsettled' /\ KeepsOwed
      /\ \A t \in Tasks : HonestRun(t)'
      /\ \A h \in Triggers : trig[h].status = "dispatching" => trig'[h] = trig[h]
  BY <1>1, <1>2, <1>3, <1>4, TriggerStep
<1>6. DispatchOK' /\ AnswerTrue'
  <2>1. disp.proc \in up' \cup {None}
        /\ \A t \in Tasks : Progress(t) /\ (Unsettled(t) => Unsettled(t)')
    BY <1>3 DEF AutomationInv, AutomationTypeOK, DispatchOK, Progress, Unsettled
  <2> QED
    BY <1>3, <1>5, <2>1, DispatchKept
<1> QED
  BY <1>5, <1>6, StepParts

-----------------------------------------------------------------------------
(* Dispatchers. *)

\* A free lock.
LEMMA NoDispatchOK ==
  ASSUME disp' = NoDispatch
  PROVE  DispatchOK' /\ AnswerTrue'
BY DEF DispatchOK, AnswerTrue, NoDispatch, Dispatch

\* A step that writes no file and leaves the task store alone.
LEMMA MemoryStep ==
  ASSUME AutomationInv, UNCHANGED <<life, auto, run, trig, archive, now>>,
         up' \subseteq Scopes,
         turn' \in [Scopes -> {"recover", "reconcile", "triggers"}],
         DispatchOK', AnswerTrue'
  PROVE  StepOK
<1>1. FilesOK' /\ TriggersOK'
  BY DEF AutomationInv, AutomationTypeOK, FilesOK, TriggersOK
<1>2. (\A t \in Tasks : Progress(t)) /\ (\A a \in Automations : Exists(a) => Exists(a)')
  BY DEF Progress, Exists
<1>3. RunsOK' /\ (\A t \in Tasks : HonestRun(t)') /\ OneUnsettled'
  BY <1>2, RunsKept
<1>4. KeepsOwed
  BY DEF KeepsOwed
<1> QED
  BY <1>1, <1>3, <1>4, StepParts

LEMMA FollowingOK ==
  ASSUME NEW op \in {"recover", "reconcile", "triggers"}
  PROVE  Following[op] \in {"recover", "reconcile", "triggers"}
BY DEF Following

LEMMA BeginPassOK ==
  ASSUME AutomationInv, NEW p \in Scopes, BeginPass(p)
  PROVE  StepOK
<1> DEFINE rs == {t \in Tasks : /\ turn[p] # "triggers"
                                /\ run[t].status \in Active
                                /\ run[t].scope = p
                                /\ turn[p] = "recover" => ~run[t].accepted}
           gs == {g \in Triggers : turn[p] = "triggers" /\ DueTrigger(p, g)}
<1>1. /\ p \in up /\ turn' = [turn EXCEPT ![p] = Following[turn[p]]]
      /\ disp' = [NoDispatch EXCEPT !.proc = p, !.op = turn[p], !.runs = rs, !.trigs = gs]
      /\ UNCHANGED <<life, auto, run, trig, archive, up, now>>
  BY DEF BeginPass, lifecycleVars, files
<1>2. rs \subseteq Tasks /\ gs \subseteq Triggers
      /\ \A t \in rs : run[t].status \in Active
  OBVIOUS
<1>3. turn \in [Scopes -> {"recover", "reconcile", "triggers"}] /\ up \subseteq Scopes
  BY DEF AutomationInv, AutomationTypeOK, FilesOK
<1>4. turn' \in [Scopes -> {"recover", "reconcile", "triggers"}] /\ up' \subseteq Scopes
  BY <1>1, <1>3, FollowingOK
<1> HIDE DEF rs, gs
<1>5. disp' = [proc |-> p, op |-> turn[p], pc |-> "next", runs |-> rs, due |-> {},
               trigs |-> gs, id |-> None, saw |-> "none"]
  BY <1>1 DEF NoDispatch
<1>6. DispatchOK'
  <2>1. turn[p] \in {"recover", "reconcile", "triggers"} /\ p \in up'
    BY <1>1, <1>3
  <2>2. disp' \in Dispatch
    BY <1>2, <1>5, <2>1 DEF Dispatch
  <2>3. disp'.due = {} /\ disp'.pc = "next" /\ disp'.proc = p /\ disp'.runs = rs
    BY <1>5
  <2> QED
    BY <1>1, <1>2, <2>1, <2>2, <2>3 DEF DispatchOK
<1>7. AnswerTrue'
  BY <1>5 DEF AnswerTrue
<1> QED
  BY <1>1, <1>4, <1>6, <1>7, MemoryStep

\* The holder and everything it knows stay as they are.
LEMMA IdleStep ==
  ASSUME AutomationInv, UNCHANGED <<life, auto, run, trig, archive, now, disp>>,
         up' \subseteq Scopes, up \subseteq up',
         turn' \in [Scopes -> {"recover", "reconcile", "triggers"}]
  PROVE  StepOK
<1>1. disp.proc \in up' \cup {None}
      /\ \A t \in Tasks : Progress(t) /\ (Unsettled(t) => Unsettled(t)')
  BY DEF AutomationInv, AutomationTypeOK, DispatchOK, Progress, Unsettled
<1>2. DispatchOK' /\ AnswerTrue'
  BY <1>1, DispatchKept
<1> QED
  BY <1>2, MemoryStep

LEMMA SkipPassOK ==
  ASSUME AutomationInv, NEW p \in Scopes, SkipPass(p)
  PROVE  StepOK
<1>1. /\ turn' = [turn EXCEPT ![p] = Following[turn[p]]]
      /\ UNCHANGED <<life, auto, run, trig, archive, up, now, disp>>
  BY DEF SkipPass, lifecycleVars, files
<1>2. turn \in [Scopes -> {"recover", "reconcile", "triggers"}] /\ up \subseteq Scopes
  BY DEF AutomationInv, AutomationTypeOK, FilesOK
<1>3. turn' \in [Scopes -> {"recover", "reconcile", "triggers"}]
  BY <1>1, <1>2, FollowingOK
<1> QED
  BY <1>1, <1>2, <1>3, IdleStep

\* What a pass has still to do: every listed run is unsettled.
LEMMA Memory ==
  ASSUME AutomationInv
  PROVE  /\ disp.proc \in Scopes \cup {None} /\ disp.proc \in up \cup {None}
         /\ disp.op \in {"none", "recover", "reconcile", "triggers", "claim", "run_now"}
         /\ disp.runs \subseteq Tasks /\ disp.trigs \subseteq Triggers
         /\ disp.due \subseteq [auto : Automations, seen : Definition]
         /\ \A t \in disp.runs : run[t].status \in Active
         /\ \A d \in disp.due : d.seen.status = "active" /\ d.seen.next # 0
         /\ disp = [proc |-> disp.proc, op |-> disp.op, pc |-> disp.pc,
                    runs |-> disp.runs, due |-> disp.due, trigs |-> disp.trigs,
                    id |-> disp.id, saw |-> disp.saw]
BY DEF AutomationInv, AutomationTypeOK, DispatchOK, Dispatch

LEMMA ReconcileReadOK ==
  ASSUME AutomationInv, NEW p \in Scopes, ReconcileRead(p)
  PROVE  StepOK
<1>1. PICK t \in disp.runs :
         disp' = [disp EXCEPT !.runs = @ \ {t}, !.id = t, !.saw = life[t], !.pc = "save"]
  BY DEF ReconcileRead
<1>2. disp.op = "reconcile" /\ UNCHANGED <<life, auto, run, trig, archive, up, turn, now>>
  BY DEF ReconcileRead, Holds, lifecycleVars, files
<1>3. disp' = [proc |-> disp.proc, op |-> disp.op, pc |-> "save", runs |-> disp.runs \ {t},
               due |-> disp.due, trigs |-> disp.trigs, id |-> t, saw |-> life[t]]
  BY <1>1, Memory
<1>4. t \in Tasks /\ life[t] \in {"none", "lost"} \cup Active \cup Ends
      /\ up \subseteq Scopes
      /\ turn \in [Scopes -> {"recover", "reconcile", "triggers"}]
  BY Memory DEF AutomationInv, AutomationTypeOK, FilesOK
<1>5. DispatchOK'
  BY <1>2, <1>3, <1>4, Memory DEF DispatchOK, Dispatch
<1>6. AnswerTrue'
  BY <1>2, <1>3, <1>4 DEF AnswerTrue, EndedAs, Active, Ends
<1> QED
  BY <1>2, <1>4, <1>5, <1>6, MemoryStep

LEMMA ReleaseOK ==
  ASSUME AutomationInv, NEW p \in Scopes, Release(p)
  PROVE  StepOK
<1>1. disp' = NoDispatch /\ UNCHANGED <<life, auto, run, trig, archive, up, turn, now>>
  BY DEF Release, lifecycleVars, files
<1>2. up \subseteq Scopes /\ turn \in [Scopes -> {"recover", "reconcile", "triggers"}]
  BY DEF AutomationInv, AutomationTypeOK, FilesOK
<1> QED
  BY <1>1, <1>2, NoDispatchOK, MemoryStep

LEMMA CrashOK ==
  ASSUME AutomationInv, NEW p \in Scopes, Crash(p)
  PROVE  StepOK
<1>1. /\ up' = up \ {p} /\ turn' = [turn EXCEPT ![p] = "recover"]
      /\ disp' = IF disp.proc = p THEN NoDispatch ELSE disp
      /\ UNCHANGED <<life, auto, run, trig, archive, now>>
  BY DEF Crash, lifecycleVars, files
<1>2. up \subseteq Scopes /\ turn \in [Scopes -> {"recover", "reconcile", "triggers"}]
  BY DEF AutomationInv, AutomationTypeOK, FilesOK
<1>3. up' \subseteq Scopes /\ turn' \in [Scopes -> {"recover", "reconcile", "triggers"}]
  BY <1>1, <1>2
<1>4. CASE disp.proc = p
  BY <1>1, <1>3, <1>4, NoDispatchOK, MemoryStep
<1>5. CASE disp.proc # p
  <2>1. UNCHANGED disp /\ disp.proc \in up' \cup {None}
        /\ \A t \in Tasks : Progress(t) /\ (Unsettled(t) => Unsettled(t)')
    BY <1>1, <1>5, Memory DEF Progress, Unsettled
  <2>2. DispatchOK' /\ AnswerTrue'
    BY <1>1, <2>1, DispatchKept
  <2> QED
    BY <1>1, <1>3, <2>2, MemoryStep
<1> QED
  BY <1>4, <1>5

LEMMA RestartOK ==
  ASSUME AutomationInv, NEW p \in Scopes, Restart(p)
  PROVE  StepOK
<1>1. up' = up \cup {p} /\ UNCHANGED <<life, auto, run, trig, archive, now, disp, turn>>
  BY DEF Restart, lifecycleVars, files
<1>2. up \subseteq Scopes /\ turn \in [Scopes -> {"recover", "reconcile", "triggers"}]
  BY DEF AutomationInv, AutomationTypeOK, FilesOK
<1> QED
  BY <1>1, <1>2, IdleStep

-----------------------------------------------------------------------------
(* The task store. *)

States == {"none", "lost"} \cup Active \cup Ends

\* A step of the task store.
LEMMA LifeStep ==
  ASSUME AutomationInv, life' \in [Tasks -> States], \A t \in Tasks : Progress(t),
         UNCHANGED <<auto, run, trig, archive, up, turn, now>>, DispatchOK', AnswerTrue'
  PROVE  StepOK
<1>1. FilesOK' /\ TriggersOK'
  BY DEF AutomationInv, AutomationTypeOK, FilesOK, TriggersOK, States
<1>2. \A a \in Automations : Exists(a) => Exists(a)'
  BY DEF Exists
<1>3. RunsOK' /\ (\A t \in Tasks : HonestRun(t)') /\ OneUnsettled'
  BY <1>2, RunsKept
<1>4. KeepsOwed
  BY DEF KeepsOwed
<1> QED
  BY <1>1, <1>3, <1>4, StepParts

\* One task goes on from a state that is no end, or is lost.
LEMMA OneLife ==
  ASSUME AutomationInv, NEW t \in Tasks, NEW v \in States \ {"none"},
         life' = [life EXCEPT ![t] = v],
         life[t] \notin Ends \cup {"lost"} \/ v = "lost"
  PROVE  life' \in [Tasks -> States] /\ \A u \in Tasks : Progress(u)
<1>1. life \in [Tasks -> States]
  BY DEF AutomationInv, AutomationTypeOK, FilesOK, States
<1>2. life' \in [Tasks -> States] /\ life'[t] = v
      /\ \A u \in Tasks : u # t => life'[u] = life[u]
  BY <1>1
<1> QED
  BY <1>2 DEF Progress

\* Likewise while nobody else moves.
LEMMA TaskStep ==
  ASSUME AutomationInv, NEW t \in Tasks, NEW v \in States \ {"none"},
         life' = [life EXCEPT ![t] = v],
         life[t] \notin Ends \cup {"lost"} \/ v = "lost",
         UNCHANGED <<auto, run, trig, archive, up, turn, now, disp>>
  PROVE  StepOK
<1>1. life' \in [Tasks -> States] /\ \A u \in Tasks : Progress(u)
  BY OneLife
<1>2. disp.proc \in up' \cup {None} /\ \A u \in Tasks : Unsettled(u) => Unsettled(u)'
  BY Memory DEF Unsettled
<1>3. DispatchOK' /\ AnswerTrue'
  BY <1>1, <1>2, DispatchKept
<1> QED
  BY <1>1, <1>3, LifeStep

LEMMA TurnOK ==
  ASSUME AutomationInv
  PROVE  up \subseteq Scopes /\ turn \in [Scopes -> {"recover", "reconcile", "triggers"}]
BY DEF AutomationInv, AutomationTypeOK, FilesOK

LEMMA ProceedOK ==
  ASSUME AutomationInv, NEW t \in Tasks, Proceed(t)
  PROVE  StepOK
<1>1. UNCHANGED <<auto, run, trig, archive, up, turn, now, disp>>
  BY DEF Proceed, files
<1>2. CASE Take(t)
  <2>1. life' = [life EXCEPT ![t] = "running"] /\ life[t] \notin Ends \cup {"lost"}
        /\ "running" \in States \ {"none"}
    BY <1>2 DEF Take, Ends, States, Active
  <2> QED
    BY <1>1, <2>1, TaskStep
<1>3. CASE Execute(t)
  <2>1. UNCHANGED life
    BY <1>3 DEF Execute
  <2> QED
    BY <1>1, <2>1, TurnOK, IdleStep
<1>4. ASSUME NEW how \in Ends, End(t, how) PROVE StepOK
  <2>1. life' = [life EXCEPT ![t] = how] /\ life[t] \notin Ends \cup {"lost"}
        /\ how \in States \ {"none"}
    BY <1>4 DEF End, Ends, States
  <2> QED
    BY <1>1, <2>1, TaskStep
<1> QED
  BY <1>2, <1>3, <1>4 DEF Proceed, Ends

LEMMA CancelTaskOK ==
  ASSUME AutomationInv, NEW t \in Tasks, CancelTask(t)
  PROVE  StepOK
<1>1. /\ life' = [life EXCEPT ![t] = "canceled"] /\ life[t] \notin Ends \cup {"lost"}
      /\ "canceled" \in States \ {"none"}
      /\ UNCHANGED <<auto, run, trig, archive, up, turn, now, disp>>
  BY DEF CancelTask, Cancel, Ends, States, files
<1> QED
  BY <1>1, TaskStep

LEMMA LoseOK ==
  ASSUME AutomationInv, NEW t \in Tasks, Lose(t)
  PROVE  StepOK
<1>1. /\ life' = [life EXCEPT ![t] = "lost"] /\ "lost" \in States \ {"none"}
      /\ UNCHANGED <<auto, run, trig, archive, up, turn, now, disp>>
  BY DEF Lose, States, files
<1> QED
  BY <1>1, TaskStep

LEMMA ClockOK ==
  ASSUME AutomationInv, Clock
  PROVE  StepOK
<1>1. now' = now + 1 /\ UNCHANGED <<life, auto, run, trig, archive, up, turn, disp>>
  BY DEF Clock, lifecycleVars, files
<1>2. FilesOK' /\ TriggersOK'
  BY <1>1 DEF AutomationInv, AutomationTypeOK, FilesOK, TriggersOK
<1>3. /\ disp.proc \in up' \cup {None}
      /\ \A t \in Tasks : Progress(t) /\ (Unsettled(t) => Unsettled(t)')
      /\ \A a \in Automations : Exists(a) => Exists(a)'
  BY <1>1, Memory DEF Progress, Unsettled, Exists
<1>4. RunsOK' /\ (\A t \in Tasks : HonestRun(t)') /\ OneUnsettled'
  BY <1>1, <1>3, RunsKept
<1>5. DispatchOK' /\ AnswerTrue'
  BY <1>1, <1>3, DispatchKept
<1>6. KeepsOwed
  BY <1>1 DEF KeepsOwed
<1> QED
  BY <1>2, <1>4, <1>5, <1>6, StepParts

\* The answer of the task store is what it holds at that moment.
LEMMA AdmitOK ==
  ASSUME AutomationInv, NEW p \in Scopes, Admit(p)
  PROVE  StepOK
<1> DEFINE t == disp.id
<1>1. disp.pc = "admit" /\ UNCHANGED <<auto, run, trig, archive, up, turn, now>>
  BY DEF Admit, files
<1>2. /\ t \in Tasks
      /\ IF disp.op = "triggers"
         THEN \E g \in Triggers : trig[g].status = "dispatching" /\ trig[g].task = t
         ELSE t \notin disp.runs /\ run[t].status \in Active
  BY <1>1 DEF AutomationInv, AutomationTypeOK, DispatchOK
<1>3. PICK saw \in {life'[t], "error"} :
         /\ disp' = [disp EXCEPT !.saw = saw, !.pc = "save"]
         /\ saw = "error" \/ life'[t] # "none"
         /\ Accept(t) \/ UNCHANGED life
  <2>1. CASE /\ Accept(t) \/ (life[t] # "none" /\ UNCHANGED lifecycleVars)
             /\ disp' = [disp EXCEPT !.saw = life'[t], !.pc = "save"]
    <3>1. life \in [Tasks -> States]
      BY DEF AutomationInv, AutomationTypeOK, FilesOK, States
    <3>2. life'[t] # "none"
      BY <1>2, <2>1, <3>1 DEF Accept, lifecycleVars
    <3> QED
      BY <2>1, <3>2 DEF lifecycleVars
  <2>2. CASE /\ Accept(t) \/ UNCHANGED lifecycleVars
             /\ disp' = [disp EXCEPT !.saw = "error", !.pc = "save"]
    BY <2>2 DEF lifecycleVars
  <2> QED
    BY <2>1, <2>2 DEF Admit
<1>4. life' \in [Tasks -> States] /\ \A u \in Tasks : Progress(u)
  <2>1. CASE Accept(t)
    <3>1. life' = [life EXCEPT ![t] = "queued"] /\ life[t] \notin Ends \cup {"lost"}
          /\ "queued" \in States \ {"none"}
      BY <2>1 DEF Accept, Ends, States, Active
    <3> QED
      BY <1>2, <3>1, OneLife
  <2>2. CASE UNCHANGED life
    BY <2>2 DEF Progress, AutomationInv, AutomationTypeOK, FilesOK, States
  <2> QED
    BY <1>3, <2>1, <2>2
<1> HIDE DEF t
<1>5. disp' = [proc |-> disp.proc, op |-> disp.op, pc |-> "save", runs |-> disp.runs,
               due |-> disp.due, trigs |-> disp.trigs, id |-> t, saw |-> saw]
  BY <1>3, Memory DEF t
<1>6. saw \in States \cup {"error"}
  BY <1>2, <1>3, <1>4
<1>7. DispatchOK'
  <2>1. disp' \in Dispatch
    BY <1>2, <1>5, <1>6, Memory DEF Dispatch, States
  <2>2. /\ disp'.id = t /\ disp'.op = disp.op /\ disp'.runs = disp.runs
        /\ disp'.due = disp.due /\ disp'.proc = disp.proc
    BY <1>5
  <2> QED
    BY <1>1, <1>2, <2>1, <2>2, Memory DEF DispatchOK
<1>8. AnswerTrue'
  <2>1. disp'.id = t /\ disp'.saw = saw
    BY <1>5
  <2>2. saw \in Ends \cup {"lost"} => life'[t] \in {saw, "lost"}
    BY <1>3 DEF Ends
  <2>3. saw \in Active => life'[t] # "none"
    BY <1>3 DEF Active
  <2> QED
    BY <2>1, <2>2, <2>3 DEF AnswerTrue, EndedAs
<1> QED
  BY <1>1, <1>4, <1>7, <1>8, LifeStep

-----------------------------------------------------------------------------
(* The tick, its reconciliation and its triggers. *)

\* A pass goes on: it drops entries of its lists or takes one in hand.
LEMMA MemoryOK ==
  ASSUME AutomationInv, UNCHANGED up, disp' \in Dispatch,
         disp'.proc = disp.proc \/ disp'.proc \in up,
         disp'.due \subseteq disp.due,
         \A t \in disp'.runs : Unsettled(t)', disp'.pc # "save",
         disp'.pc = "next" \/ /\ disp'.id \in Tasks
                              /\ \/ /\ disp'.op # "triggers"
                                    /\ disp'.id \notin disp'.runs
                                    /\ run'[disp'.id].status \in Active
                                 \/ /\ disp'.op = "triggers"
                                    /\ \E g \in Triggers :
                                          /\ trig'[g].status = "dispatching"
                                          /\ trig'[g].task = disp'.id
  PROVE  DispatchOK' /\ AnswerTrue'
<1>1. DispatchOK'
  <2>1. disp'.proc \in up' \cup {None}
        /\ \A d \in disp'.due : d.seen.status = "active" /\ d.seen.next # 0
    BY Memory
  <2> QED
    BY <2>1 DEF DispatchOK, Unsettled
<1>2. AnswerTrue'
  BY DEF AnswerTrue
<1> QED
  BY <1>1, <1>2

LEMMA RecoverOK ==
  ASSUME AutomationInv, NEW p \in Scopes, Recover(p)
  PROVE  StepOK
<1>1. disp.op = "recover" /\ UNCHANGED <<life, run, trig, archive, up, turn, now>>
  BY DEF Recover, Holds, lifecycleVars
<1>2. PICK t \in disp.runs :
         \/ /\ auto' = IF TornAdvance(t)
                       THEN [auto EXCEPT ![run[t].auto] = Advanced(@, run[t].slot)]
                       ELSE auto
            /\ disp' = [disp EXCEPT !.runs = @ \ {t}, !.id = t, !.pc = "admit"]
         \/ /\ disp' = [disp EXCEPT !.runs = @ \ {t}]
            /\ UNCHANGED auto
  BY DEF Recover
<1>3. t \in Tasks /\ run[t].status \in Active /\ disp.runs \ {t} \subseteq Tasks
      /\ \A u \in disp.runs \ {t} : Unsettled(u)'
  BY <1>1, Memory DEF Unsettled
<1>4. /\ DispatchOK' /\ AnswerTrue'
  <2>0. disp.id \in Tasks \cup {None} /\ disp.saw \in {"error"} \cup States
        /\ disp.pc = "next"
    BY DEF AutomationInv, AutomationTypeOK, DispatchOK, Dispatch, States, Recover, Holds
  <2>1. CASE disp' = [disp EXCEPT !.runs = @ \ {t}, !.id = t, !.pc = "admit"]
    <3>1. disp' = [proc |-> disp.proc, op |-> disp.op, pc |-> "admit",
                   runs |-> disp.runs \ {t}, due |-> disp.due, trigs |-> disp.trigs,
                   id |-> t, saw |-> disp.saw]
      BY <2>1, Memory
    <3>2. disp' \in Dispatch
      BY <1>3, <2>0, <3>1, Memory DEF Dispatch, States
    <3>3. disp'.runs = disp.runs \ {t} /\ disp'.id = t /\ disp'.op = "recover"
          /\ disp'.proc = disp.proc /\ disp'.due = disp.due /\ disp'.pc = "admit"
      BY <1>1, <3>1
    <3> QED
      BY <1>1, <1>3, <3>2, <3>3, MemoryOK
  <2>2. CASE disp' = [disp EXCEPT !.runs = @ \ {t}]
    <3>1. disp' = [proc |-> disp.proc, op |-> disp.op, pc |-> disp.pc,
                   runs |-> disp.runs \ {t}, due |-> disp.due, trigs |-> disp.trigs,
                   id |-> disp.id, saw |-> disp.saw]
      BY <2>2, Memory
    <3>2. disp' \in Dispatch
      BY <1>3, <2>0, <3>1, Memory DEF Dispatch, States
    <3>3. disp'.runs = disp.runs \ {t}
          /\ disp'.proc = disp.proc /\ disp'.due = disp.due /\ disp'.pc = "next"
      BY <2>0, <3>1
    <3> QED
      BY <1>1, <1>3, <3>2, <3>3, MemoryOK
  <2> QED
    BY <1>2, <2>1, <2>2
<1>5. CASE UNCHANGED auto
  BY <1>1, <1>4, <1>5, TurnOK, MemoryStep
<1>6. CASE auto' # auto
  <2> DEFINE a == run[t].auto
             e == Advanced(auto[a], run[t].slot)
  <2>1. a \in Automations
    BY <1>3, NamedRun DEF AutomationInv, AutomationTypeOK, Active
  <2>2. auto' = [auto EXCEPT ![a] = e] /\ auto[a].next = run[t].slot
    BY <1>2, <1>6 DEF TornAdvance
  <2>3. auto[a] \in Definition /\ run[t].slot \in Nat /\ now \in Nat
    BY <1>3, <2>1 DEF AutomationInv, AutomationTypeOK, FilesOK, RunRecord
  <2>4. Sound(auto[a], e)
    BY <2>3, AdvancedOK
  <2> HIDE DEF a, e
  <2>5. /\ FilesOK' /\ RunsOK' /\ TriggersOK' /\ OneUnsettled'
        /\ \A u \in Tasks : HonestRun(u)'
        /\ \A b \in Automations : auto'[b].next # auto[b].next =>
              b = a /\ (auto'[b].next = 0 \/ auto'[b].next > now)
    BY <1>1, <2>1, <2>2, <2>4, DefinitionStep
  <2>6. run'[t].auto = a /\ run'[t].slot = auto[a].next
    BY <1>1, <2>2 DEF a
  <2>7. KeepsOwed
    BY <1>3, <2>5, <2>6 DEF KeepsOwed, TakenWithRun
  <2> QED
    BY <1>4, <2>5, <2>7, StepParts
<1> QED
  BY <1>5, <1>6

LEMMA CollectOK ==
  ASSUME AutomationInv, NEW p \in Scopes, Collect(p)
  PROVE  StepOK
<1> DEFINE own == {a \in Automations : auto[a].status = "active" /\ auto[a].scope = p}
           due == {[auto |-> a, seen |-> auto[a]] :
                     a \in {b \in own : auto[b].next \in 1..now}}
<1>1. /\ disp.runs = {} /\ disp.pc = "next"
      /\ UNCHANGED <<life, run, trig, archive, up, turn, now>>
  BY DEF Collect, Holds, lifecycleVars
<1>2. \/ /\ auto' = [a \in Automations |-> IF a \in own /\ auto[a].next = 0
                                           THEN Rescheduled(auto[a]) ELSE auto[a]]
         /\ disp' = [disp EXCEPT !.op = "claim", !.due = due]
      \/ disp' = NoDispatch /\ UNCHANGED auto
  BY DEF Collect
<1>3. CASE disp' = NoDispatch /\ UNCHANGED auto
  BY <1>1, <1>3, NoDispatchOK, TurnOK, MemoryStep
<1>4. CASE /\ auto' = [a \in Automations |-> IF a \in own /\ auto[a].next = 0
                                             THEN Rescheduled(auto[a]) ELSE auto[a]]
           /\ disp' = [disp EXCEPT !.op = "claim", !.due = due]
  <2>1. auto \in [Automations -> Definition] /\ now \in Nat
    BY DEF AutomationInv, AutomationTypeOK, FilesOK
  <2>2. ASSUME NEW a \in Automations
        PROVE  Sound(auto[a], auto'[a])
               /\ (auto'[a].next # auto[a].next => auto[a].next = 0)
    <3>1. CASE a \in own /\ auto[a].next = 0
      BY <1>4, <2>1, <3>1, RescheduledOK
    <3>2. CASE ~(a \in own /\ auto[a].next = 0)
      BY <1>4, <2>1, <3>2 DEF Sound
    <3> QED
      BY <3>1, <3>2
  <2>3. auto' = [a \in Automations |-> auto'[a]]
    BY <1>4
  <2>4. auto' \in [Automations -> Definition]
        /\ \A a \in Automations : Exists(a) => Exists(a)'
    BY <2>2, <2>3 DEF Sound, Exists
  <2>5. due \subseteq [auto : Automations, seen : Definition]
        /\ \A d \in due : d.seen.status = "active" /\ d.seen.next # 0
    BY <2>1
  <2> HIDE DEF own, due
  <2>6. DispatchOK' /\ AnswerTrue'
    <3>0. disp.id \in Tasks \cup {None} /\ disp.saw \in {"error"} \cup States
      BY DEF AutomationInv, AutomationTypeOK, DispatchOK, Dispatch, States
    <3>1. disp' = [proc |-> disp.proc, op |-> "claim", pc |-> "next", runs |-> {},
                   due |-> due, trigs |-> disp.trigs, id |-> disp.id, saw |-> disp.saw]
      BY <1>1, <1>4, Memory
    <3>2. disp' \in Dispatch
      BY <2>5, <3>0, <3>1, Memory DEF Dispatch, States
    <3>3. disp'.runs = {} /\ disp'.pc = "next" /\ disp'.due = due /\ disp'.proc = disp.proc
      BY <3>1
    <3> QED
      BY <1>1, <2>5, <3>2, <3>3, Memory DEF DispatchOK, AnswerTrue
  <2>7. FilesOK' /\ TriggersOK' /\ \A t \in Tasks : Progress(t)
    BY <1>1, <2>4 DEF AutomationInv, AutomationTypeOK, FilesOK, TriggersOK, Progress
  <2>8. RunsOK' /\ (\A t \in Tasks : HonestRun(t)') /\ OneUnsettled'
    BY <1>1, <2>4, <2>7, RunsKept
  <2>9. KeepsOwed
    BY <2>2 DEF KeepsOwed, TakenWithRun, Sound
  <2> QED
    BY <2>6, <2>7, <2>8, <2>9, StepParts
<1> QED
  BY <1>2, <1>3, <1>4

\* new_task_id is bound to nothing yet.
LEMMA NewTask ==
  ASSUME CanBind
  PROVE  NewTaskId \in Tasks /\ Unbound(NewTaskId)
<1> DEFINE P(t) == Unbound(t)
<1>1. \E t \in Tasks : P(t)
  BY DEF CanBind
<1>2. NewTaskId = CHOOSE t \in Tasks : P(t)
  BY DEF NewTaskId
<1> HIDE DEF P
<1>3. NewTaskId \in Tasks /\ P(NewTaskId)
  BY <1>1, <1>2
<1> QED
  BY <1>3 DEF P

\* bind_run_dispatch: a run is bound to a new id, a scheduled one only when its
\* automation has no unsettled run.
LEMMA BindStep ==
  ASSUME AutomationInv, NEW n \in Tasks, run[n].auto = None, NEW a \in Automations,
         NEW r \in RunRecord, r.status = "queued", r.auto = a, ~r.accepted,
         run' = [run EXCEPT ![n] = r], UNCHANGED <<life, archive>>,
         \A b \in Automations : Exists(b) => Exists(b)', Exists(a)',
         r.slot = 0 \/ ~Occupied(a)
  PROVE  /\ RunsOK' /\ (\A t \in Tasks : HonestRun(t)') /\ OneUnsettled'
         /\ run' \in [Tasks -> RunRecord] /\ run'[n] = r /\ n \notin disp.runs
         /\ \A t \in Tasks : Unsettled(t) => Unsettled(t)'
<1>1. run \in [Tasks -> RunRecord] /\ RunsOK
      /\ (\A t \in Tasks : HonestRun(t)) /\ OneUnsettled /\ FilesOK
  BY DEF AutomationInv, AutomationTypeOK, FilesOK, ReceiptTrue
<1>2. /\ run' \in [Tasks -> RunRecord] /\ run'[n] = r
      /\ \A t \in Tasks : t # n => run'[t] = run[t]
  BY <1>1
<1>3. run[n].status = "none"
  BY <1>1 DEF RunsOK, NoRun
<1>4. n \notin disp.runs
  BY <1>3, Memory DEF Active
<1>5. \A t \in Tasks : Unsettled(t) => Unsettled(t)'
  BY <1>2 DEF Unsettled, Active
<1>6. ASSUME NEW t \in Tasks
      PROVE  /\ run'[t].auto = None => run'[t] = NoRun
             /\ run'[t].status \in Active => auto'[run'[t].auto].status # "none"
             /\ HonestRun(t)'
  <2>1. CASE t = n
    <3>1. a # None
      BY AutomationAssumption
    <3> QED
      BY <1>1, <1>2, <2>1, <3>1 DEF HonestRun, Exists, Ends
  <2>2. CASE t # n
    <3>1. HonestRun(t)'
      BY <1>1, <1>2, <2>2 DEF HonestRun, EndedAs
    <3>2. run[t].status \in Active => run[t].auto \in Automations /\ Exists(run[t].auto)
      BY <1>1, NamedRun DEF RunsOK, Active
    <3> QED
      BY <1>1, <1>2, <2>2, <3>1, <3>2 DEF RunsOK, Exists
  <2> QED
    BY <2>1, <2>2
<1>7. RunsOK'
  BY <1>6 DEF RunsOK, Exists
<1>8. OneUnsettled'
  <2>1. ASSUME NEW u \in Tasks, u # n, Unsettled(u), run[u].auto = a
        PROVE  Occupied(a)
    BY <2>1 DEF Occupied, RunsOf, Unsettled, Active
  <2>2. ASSUME NEW t \in Tasks, NEW u \in Tasks, Unsettled(t)', Unsettled(u)',
               run'[t].slot # 0, run'[u].slot # 0, run'[t].auto = run'[u].auto
        PROVE  t = u
    <3>1. CASE t # n /\ u # n
      BY <1>1, <1>2, <2>2, <3>1 DEF OneUnsettled, Unsettled
    <3>2. CASE t = n /\ u # n
      BY <1>2, <2>1, <2>2, <3>2 DEF Unsettled
    <3>3. CASE t # n /\ u = n
      BY <1>2, <2>1, <2>2, <3>3 DEF Unsettled
    <3> QED
      BY <3>1, <3>2, <3>3
  <2> QED
    BY <2>2 DEF OneUnsettled
<1> QED
  BY <1>2, <1>4, <1>5, <1>6, <1>7, <1>8

\* A tick goes on to the next due definition, with a run in hand or without.
LEMMA ClaimMemory ==
  ASSUME AutomationInv, disp.op = "claim", disp.pc = "next", NEW d \in disp.due,
         UNCHANGED up,
         \A t \in Tasks : Unsettled(t) => Unsettled(t)',
         \/ disp' = [disp EXCEPT !.due = @ \ {d}]
         \/ \E n \in Tasks \ disp.runs :
               /\ disp' = [[disp EXCEPT !.due = @ \ {d}] EXCEPT !.id = n, !.pc = "admit"]
               /\ run'[n].status \in Active
  PROVE  DispatchOK' /\ AnswerTrue'
<1>0. /\ disp.id \in Tasks \cup {None} /\ disp.saw \in {"error"} \cup States
      /\ disp.due \ {d} \in SUBSET [auto : Automations, seen : Definition]
  BY Memory DEF AutomationInv, AutomationTypeOK, DispatchOK, Dispatch, States
<1>1. \A t \in disp.runs : Unsettled(t)'
  BY Memory DEF Unsettled
<1>2. CASE disp' = [disp EXCEPT !.due = @ \ {d}]
  <2>1. disp' = [proc |-> disp.proc, op |-> "claim", pc |-> "next", runs |-> disp.runs,
                 due |-> disp.due \ {d}, trigs |-> disp.trigs, id |-> disp.id,
                 saw |-> disp.saw]
    BY <1>2, Memory
  <2>2. disp' \in Dispatch
    BY <1>0, <2>1, Memory DEF Dispatch, States
  <2>3. disp'.runs = disp.runs /\ disp'.pc = "next" /\ disp'.due = disp.due \ {d}
        /\ disp'.proc = disp.proc
    BY <2>1
  <2> QED
    BY <1>1, <2>2, <2>3, MemoryOK
<1>3. ASSUME NEW n \in Tasks \ disp.runs, run'[n].status \in Active,
             disp' = [[disp EXCEPT !.due = @ \ {d}] EXCEPT !.id = n, !.pc = "admit"]
      PROVE  DispatchOK' /\ AnswerTrue'
  <2>1. disp' = [proc |-> disp.proc, op |-> "claim", pc |-> "admit", runs |-> disp.runs,
                 due |-> disp.due \ {d}, trigs |-> disp.trigs, id |-> n,
                 saw |-> disp.saw]
    BY <1>3, Memory
  <2>2. disp' \in Dispatch
    BY <1>0, <2>1, Memory DEF Dispatch, States
  <2>3. disp'.runs = disp.runs /\ disp'.pc = "admit" /\ disp'.due = disp.due \ {d}
        /\ disp'.proc = disp.proc /\ disp'.id = n /\ disp'.op = "claim"
    BY <2>1
  <2> QED
    BY <1>1, <1>3, <2>2, <2>3, MemoryOK
<1> QED
  BY <1>2, <1>3

\* A bound run is a run record.
LEMMA BoundRunOK ==
  ASSUME AutomationInv, NEW p \in Scopes, NEW a \in Automations, NEW slot \in Nat
  PROVE  /\ BoundRun(p, a, slot) \in RunRecord
         /\ BoundRun(p, a, slot).status = "queued" /\ BoundRun(p, a, slot).auto = a
         /\ BoundRun(p, a, slot).slot = slot /\ ~BoundRun(p, a, slot).accepted
<1>1. auto[a] \in Definition
  BY DEF AutomationInv, AutomationTypeOK, FilesOK
<1>2. auto[a].stamp \in Nat
  BY <1>1, Fields
<1> QED
  BY <1>2 DEF BoundRun, RunRecord, Active

LEMMA ClaimOK ==
  ASSUME AutomationInv, NEW p \in Scopes, Claim(p)
  PROVE  StepOK
<1>1. /\ disp.op = "claim" /\ disp.pc = "next"
      /\ UNCHANGED <<life, trig, archive, up, turn, now>>
  BY DEF Claim, Holds, lifecycleVars
<1>2. PICK d \in disp.due :
         LET a == d.auto
             slot == d.seen.next
             advanced == [auto EXCEPT ![a] = Advanced(@, slot)]
             rest == [disp EXCEPT !.due = @ \ {d}]
             bound == [run EXCEPT ![NewTaskId] = BoundRun(p, a, slot)]
             claimable == /\ auto[a] = d.seen
                          /\ ~SlotTaken(a, slot)
                          /\ ~Occupied(a)
                          /\ CanBind
         IN  \/ /\ disp' = rest
                /\ UNCHANGED <<auto, run>>
             \/ /\ auto[a] = d.seen
                /\ SlotTaken(a, slot)
                /\ auto' = advanced
                /\ disp' = rest
                /\ UNCHANGED run
             \/ /\ claimable
                /\ run' = bound
                /\ auto' = advanced
                /\ disp' = [rest EXCEPT !.id = NewTaskId, !.pc = "admit"]
             \/ /\ claimable
                /\ run' = bound
                /\ disp' = rest
                /\ UNCHANGED auto
  BY DEF Claim
<1> DEFINE a == d.auto
           slot == d.seen.next
           e == Advanced(auto[a], slot)
           r == BoundRun(p, a, slot)
           n == NewTaskId
           rest == [disp EXCEPT !.due = @ \ {d}]
<1>3. a \in Automations /\ slot \in Nat /\ d.seen.status = "active"
  <2>1. d \in [auto : Automations, seen : Definition] /\ d.seen.status = "active"
    BY Memory
  <2> QED
    BY <2>1 DEF Definition
<1>4. auto \in [Automations -> Definition] /\ now \in Nat /\ run \in [Tasks -> RunRecord]
  BY DEF AutomationInv, AutomationTypeOK, FilesOK
<1>5. Sound(auto[a], e)
  BY <1>3, <1>4, AdvancedOK
<1>6. /\ r \in RunRecord /\ r.status = "queued" /\ r.auto = a /\ r.slot = slot
      /\ ~r.accepted
  BY <1>3, BoundRunOK
<1>7. CASE disp' = rest /\ UNCHANGED <<auto, run>>
  <2>1. \A t \in Tasks : Unsettled(t) => Unsettled(t)'
    BY <1>7 DEF Unsettled
  <2>2. DispatchOK' /\ AnswerTrue'
    BY <1>1, <1>7, <2>1, ClaimMemory
  <2> QED
    BY <1>1, <1>7, <2>2, TurnOK, MemoryStep
<1>8. CASE /\ auto[a] = d.seen /\ SlotTaken(a, slot) /\ auto' = [auto EXCEPT ![a] = e]
           /\ disp' = rest /\ UNCHANGED run
  <2>1. \A t \in Tasks : Unsettled(t) => Unsettled(t)'
    BY <1>8 DEF Unsettled
  <2>2. DispatchOK' /\ AnswerTrue'
    BY <1>1, <1>8, <2>1, ClaimMemory
  <2>3. \E t \in Tasks : run'[t].auto = a /\ run'[t].slot = auto[a].next
    BY <1>8 DEF SlotTaken, RunsOf
  <2> HIDE DEF a, slot, e, r, n, rest
  <2>4. /\ FilesOK' /\ RunsOK' /\ TriggersOK' /\ OneUnsettled'
        /\ \A t \in Tasks : HonestRun(t)'
        /\ \A b \in Automations : auto'[b].next # auto[b].next =>
              b = a /\ (auto'[b].next = 0 \/ auto'[b].next > now)
    BY <1>1, <1>3, <1>5, <1>8, DefinitionStep
  <2>5. KeepsOwed
    BY <2>3, <2>4 DEF KeepsOwed, TakenWithRun
  <2> QED
    BY <2>2, <2>4, <2>5, StepParts
<1>9. CASE /\ auto[a] = d.seen /\ ~Occupied(a) /\ CanBind
           /\ run' = [run EXCEPT ![n] = r]
           /\ auto' = auto \/ auto' = [auto EXCEPT ![a] = e]
           /\ disp' = rest \/ disp' = [rest EXCEPT !.id = n, !.pc = "admit"]
  <2>1. n \in Tasks /\ run[n].auto = None
    BY <1>9, NewTask DEF Unbound
  <2>2. auto[a].next = slot /\ auto[a].status # "none"
    BY <1>3, <1>9
  <2> HIDE DEF a, slot, e, r, n
  <2>3. /\ auto' \in [Automations -> Definition]
        /\ \A b \in Automations : Exists(b) => Exists(b)'
        /\ \A b \in Automations : auto'[b].next # auto[b].next =>
              b = a /\ (auto'[b].next = 0 \/ auto'[b].next > now)
    <3>1. CASE auto' = auto
      BY <1>4, <3>1 DEF Exists
    <3>2. CASE auto' = [auto EXCEPT ![a] = e]
      <4>1. /\ auto'[a] = e /\ e \in Definition /\ auto' \in [Automations -> Definition]
            /\ \A b \in Automations : b # a => auto'[b] = auto[b]
        BY <1>3, <1>4, <1>5, <3>2 DEF Sound
      <4> QED
        BY <1>5, <4>1 DEF Sound, Exists
    <3> QED
      BY <1>9, <3>1, <3>2
  <2>4. Exists(a)'
    BY <1>3, <2>2, <2>3 DEF Exists
  <2>5. /\ RunsOK' /\ (\A t \in Tasks : HonestRun(t)') /\ OneUnsettled'
        /\ run' \in [Tasks -> RunRecord] /\ run'[n] = r /\ n \notin disp.runs
        /\ \A t \in Tasks : Unsettled(t) => Unsettled(t)'
    BY <1>1, <1>3, <1>6, <1>9, <2>1, <2>3, <2>4, BindStep
  <2>6. DispatchOK' /\ AnswerTrue'
    <3>1. run'[n].status \in Active /\ n \in Tasks \ disp.runs
      BY <1>6, <2>1, <2>5 DEF Active
    <3> QED
      BY <1>1, <1>9, <2>5, <3>1, ClaimMemory
  <2>7. FilesOK' /\ TriggersOK'
    BY <1>1, <2>3, <2>5 DEF AutomationInv, AutomationTypeOK, FilesOK, TriggersOK
  <2>8. KeepsOwed
    BY <1>6, <2>1, <2>2, <2>3, <2>5 DEF KeepsOwed, TakenWithRun
  <2> QED
    BY <2>5, <2>6, <2>7, <2>8, StepParts
<1>10. \/ disp' = rest /\ UNCHANGED <<auto, run>>
       \/ /\ auto[a] = d.seen /\ SlotTaken(a, slot) /\ auto' = [auto EXCEPT ![a] = e]
          /\ disp' = rest /\ UNCHANGED run
       \/ /\ auto[a] = d.seen /\ ~Occupied(a) /\ CanBind
          /\ run' = [run EXCEPT ![n] = r]
          /\ auto' = auto \/ auto' = [auto EXCEPT ![a] = e]
          /\ disp' = rest \/ disp' = [rest EXCEPT !.id = n, !.pc = "admit"]
  BY <1>2
<1> HIDE DEF a, slot, e, r, n, rest
<1> QED
  BY <1>7, <1>8, <1>9, <1>10

LEMMA RunNowOK ==
  ASSUME AutomationInv, NEW p \in Scopes, NEW a \in Automations, RunNow(p, a)
  PROVE  StepOK
<1> DEFINE e == Adopted(p, auto[a])
           r == [BoundRun(p, a, 0) EXCEPT !.stamp = 0]
           n == NewTaskId
<1>1. /\ p \in up /\ disp = NoDispatch /\ Exists(a) /\ CanBind
      /\ auto' = [auto EXCEPT ![a] = e]
      /\ \/ /\ run' = [run EXCEPT ![n] = r]
            /\ disp' = [NoDispatch EXCEPT !.proc = p, !.op = "run_now",
                                          !.pc = "admit", !.id = n]
         \/ UNCHANGED <<run, disp>>
      /\ UNCHANGED <<life, trig, archive, up, turn, now>>
  BY DEF RunNow, lifecycleVars
<1>2. auto \in [Automations -> Definition] /\ now \in Nat /\ run \in [Tasks -> RunRecord]
  BY DEF AutomationInv, AutomationTypeOK, FilesOK
<1>3. Sound(auto[a], e)
  BY <1>2, AdoptedOK
<1>4. n \in Tasks /\ run[n].auto = None
  BY <1>1, NewTask DEF Unbound
<1>5. /\ r \in RunRecord /\ r.status = "queued" /\ r.auto = a /\ r.slot = 0
      /\ ~r.accepted
  <2>1. ASSUME NEW q \in RunRecord, NEW s, s = [q EXCEPT !.stamp = 0]
        PROVE  /\ s \in RunRecord /\ s.status = q.status /\ s.auto = q.auto
               /\ s.slot = q.slot /\ (s.accepted <=> q.accepted)
    BY <2>1 DEF RunRecord
  <2> QED
    BY <2>1, BoundRunOK
<1> HIDE DEF e, r, n
<1>6. CASE UNCHANGED <<run, disp>>
  BY <1>1, <1>3, <1>6, EditStep
<1>7. CASE /\ run' = [run EXCEPT ![n] = r]
           /\ disp' = [NoDispatch EXCEPT !.proc = p, !.op = "run_now",
                                         !.pc = "admit", !.id = n]
  <2>1. /\ auto'[a] = e /\ e \in Definition /\ auto' \in [Automations -> Definition]
        /\ \A b \in Automations : b # a => auto'[b] = auto[b]
    BY <1>1, <1>2, <1>3 DEF Sound
  <2>2. /\ \A b \in Automations : Exists(b) => Exists(b)'
        /\ \A b \in Automations : auto'[b].next # auto[b].next =>
              b = a /\ (auto'[b].next = 0 \/ auto'[b].next > now)
    BY <1>3, <2>1 DEF Sound, Exists
  <2>3. Exists(a)'
    BY <1>1, <2>2
  <2>4. /\ RunsOK' /\ (\A t \in Tasks : HonestRun(t)') /\ OneUnsettled'
        /\ run' \in [Tasks -> RunRecord] /\ run'[n] = r
    BY <1>1, <1>4, <1>5, <1>7, <2>2, <2>3, BindStep
  <2>5. disp' = [proc |-> p, op |-> "run_now", pc |-> "admit", runs |-> {},
                 due |-> {}, trigs |-> {}, id |-> n, saw |-> "none"]
    BY <1>7 DEF NoDispatch
  <2>6. DispatchOK' /\ AnswerTrue'
    <3>1. disp' \in Dispatch
      BY <1>4, <2>5 DEF Dispatch
    <3>2. disp'.runs = {} /\ disp'.due = {} /\ disp'.proc = p /\ disp'.pc = "admit"
          /\ disp'.op = "run_now" /\ disp'.id = n
      BY <2>5
    <3>3. run'[n].status \in Active
      BY <1>5, <2>4 DEF Active
    <3> QED
      BY <1>1, <1>4, <3>1, <3>2, <3>3, MemoryOK
  <2>7. FilesOK' /\ TriggersOK'
    BY <1>1, <2>1, <2>4 DEF AutomationInv, AutomationTypeOK, FilesOK, TriggersOK
  <2>8. KeepsOwed
    BY <1>1, <2>2 DEF KeepsOwed, TakenWithRun, NoDispatch
  <2> QED
    BY <2>4, <2>6, <2>7, <2>8, StepParts
<1> QED
  BY <1>1, <1>6, <1>7

LEMMA TrigClaimOK ==
  ASSUME AutomationInv, NEW p \in Scopes, TrigClaim(p)
  PROVE  StepOK
<1>1. /\ disp.op = "triggers" /\ disp.pc = "next"
      /\ UNCHANGED <<life, auto, run, archive, up, turn, now>>
  BY DEF TrigClaim, Holds, lifecycleVars
<1>2. PICK g \in disp.trigs :
         LET rest == [disp EXCEPT !.trigs = @ \ {g}]
         IN  \/ disp' = rest /\ UNCHANGED trig
             \/ /\ trig[g].status = "dispatching"
                /\ disp' = [rest EXCEPT !.id = trig[g].task, !.pc = "admit"]
                /\ UNCHANGED trig
             \/ /\ trig[g].status = "pending"
                /\ CanBind
                /\ trig' = [trig EXCEPT ![g].status = "dispatching",
                                        ![g].task = NewTaskId]
                /\ disp' = [rest EXCEPT !.id = NewTaskId, !.pc = "admit"]
  BY DEF TrigClaim
<1>3. g \in Triggers /\ trig \in [Triggers -> Trigger] /\ TriggersOK
      /\ disp.id \in Tasks \cup {None} /\ disp.saw \in {"error"} \cup States
  BY Memory DEF AutomationInv, AutomationTypeOK, FilesOK, DispatchOK, Dispatch, States
<1>4. \A t \in disp.runs : Unsettled(t)'
  BY <1>1, Memory DEF Unsettled
<1>5. CASE disp' = [disp EXCEPT !.trigs = @ \ {g}] /\ UNCHANGED trig
  <2>1. disp' = [proc |-> disp.proc, op |-> disp.op, pc |-> "next", runs |-> disp.runs,
                 due |-> disp.due, trigs |-> disp.trigs \ {g}, id |-> disp.id,
                 saw |-> disp.saw]
    BY <1>1, <1>5, Memory
  <2>2. disp' \in Dispatch
    <3>1. disp.trigs \ {g} \in SUBSET Triggers
      BY Memory
    <3> QED
      BY <1>3, <2>1, <3>1, Memory DEF Dispatch, States
  <2>3. disp'.runs = disp.runs /\ disp'.pc = "next" /\ disp'.due = disp.due
        /\ disp'.proc = disp.proc
    BY <2>1
  <2>4. DispatchOK' /\ AnswerTrue'
    BY <1>1, <1>4, <2>2, <2>3, MemoryOK
  <2> QED
    BY <1>1, <1>5, <2>4, TurnOK, MemoryStep
<1>6. ASSUME NEW n \in Tasks,
             disp' = [[disp EXCEPT !.trigs = @ \ {g}] EXCEPT !.id = n, !.pc = "admit"],
             trig'[g].status = "dispatching", trig'[g].task = n
      PROVE  DispatchOK' /\ AnswerTrue'
  <2>1. disp' = [proc |-> disp.proc, op |-> "triggers", pc |-> "admit", runs |-> disp.runs,
                 due |-> disp.due, trigs |-> disp.trigs \ {g}, id |-> n, saw |-> disp.saw]
    BY <1>1, <1>6, Memory
  <2>2. disp' \in Dispatch
    <3>1. disp.trigs \ {g} \in SUBSET Triggers
      BY Memory
    <3> QED
      BY <1>3, <2>1, <3>1, Memory DEF Dispatch, States
  <2>3. disp'.runs = disp.runs /\ disp'.pc = "admit" /\ disp'.due = disp.due
        /\ disp'.proc = disp.proc /\ disp'.id = n /\ disp'.op = "triggers"
    BY <2>1
  <2> QED
    BY <1>1, <1>3, <1>4, <1>6, <2>2, <2>3, MemoryOK
<1>7. CASE /\ trig[g].status = "dispatching"
           /\ disp' = [[disp EXCEPT !.trigs = @ \ {g}] EXCEPT !.id = trig[g].task, !.pc = "admit"]
           /\ UNCHANGED trig
  <2>1. trig[g].task \in Tasks
    BY <1>3, <1>7 DEF TriggersOK
  <2>2. DispatchOK' /\ AnswerTrue'
    BY <1>6, <1>7, <2>1
  <2> QED
    BY <1>1, <1>7, <2>2, TurnOK, MemoryStep
<1>8. CASE /\ trig[g].status = "pending" /\ CanBind
           /\ trig' = [trig EXCEPT ![g].status = "dispatching", ![g].task = NewTaskId]
           /\ disp' = [[disp EXCEPT !.trigs = @ \ {g}] EXCEPT !.id = NewTaskId, !.pc = "admit"]
  <2> DEFINE n == NewTaskId
             e == [trig[g] EXCEPT !.status = "dispatching", !.task = n]
  <2>1. n \in Tasks
    BY <1>8, NewTask
  <2>2. trig' = [trig EXCEPT ![g] = e]
    BY <1>8
  <2> HIDE DEF n
  <2>3. e \in Trigger /\ e.status = "dispatching" /\ e.task = n
    <3>1. ASSUME NEW d \in Trigger, NEW x,
                 x = [d EXCEPT !.status = "dispatching", !.task = n]
          PROVE  x \in Trigger /\ x.status = "dispatching" /\ x.task = n
      BY <2>1, <3>1 DEF Trigger
    <3> QED
      BY <1>3, <3>1
  <2> HIDE DEF e
  <2>4. /\ FilesOK' /\ RunsOK' /\ TriggersOK' /\ OneUnsettled' /\ KeepsOwed
        /\ \A t \in Tasks : HonestRun(t)'
    BY <1>1, <1>3, <1>8, <2>1, <2>2, <2>3, TriggerStep
  <2>5. trig'[g] = e
    BY <1>3, <2>2
  <2>6. DispatchOK' /\ AnswerTrue'
    BY <1>6, <1>8, <2>1, <2>3, <2>5 DEF n
  <2> QED
    BY <2>4, <2>6, StepParts
<1> QED
  BY <1>2, <1>5, <1>7, <1>8

\* What is written about a run in hand is what became of its task, whether
\* admission or reconciliation asked.
LEMMA ReceiptOK ==
  ASSUME AutomationInv, disp.pc = "save", disp.op # "triggers", NEW t, t = disp.id
  PROVE  LET s == Receipt(run[t], disp.saw)
         IN  /\ t \in Tasks /\ run[t].status \in Active /\ t \notin disp.runs
             /\ s \in RunRecord /\ s.auto = run[t].auto /\ s.slot = run[t].slot
             /\ s.status # "none"
             /\ s.status \in Ends => EndedAs(t, s.status)
             /\ s.accepted => life[t] # "none"
<1> DEFINE saw == disp.saw
           r == run[t]
           s == Receipt(r, saw)
<1>1. /\ t \in Tasks /\ r.status \in Active /\ t \notin disp.runs
      /\ saw \in {"none", "error", "lost"} \cup Active \cup Ends
      /\ r \in RunRecord
  BY DEF AutomationInv, AutomationTypeOK, DispatchOK, Dispatch, FilesOK
<1>2. /\ saw \in Ends \cup {"lost"} => life[t] \in {saw, "lost"}
      /\ saw \in Active => life[t] # "none"
  BY DEF AutomationInv, ReceiptTrue, AnswerTrue, EndedAs
<1>3. r.accepted => life[t] # "none"
  BY <1>1 DEF AutomationInv, ReceiptTrue, HonestRun
<1>4. r.status # "none" /\ r.status \notin Ends
  BY <1>1 DEF Active, Ends
<1>5. CASE s = r
  BY <1>1, <1>3, <1>4, <1>5
<1>6. CASE saw = "lost" /\ s = [r EXCEPT !.status = "failed"]
  <2>1. ASSUME NEW q \in RunRecord, NEW x, x = [q EXCEPT !.status = "failed"]
        PROVE  /\ x \in RunRecord /\ x.auto = q.auto /\ x.slot = q.slot
               /\ x.status = "failed" /\ (x.accepted <=> q.accepted)
    BY <2>1 DEF RunRecord, Ends
  <2>2. /\ s \in RunRecord /\ s.auto = r.auto /\ s.slot = r.slot
        /\ s.status = "failed" /\ (s.accepted <=> r.accepted)
    BY <1>1, <1>6, <2>1
  <2>3. life[t] = "lost"
    BY <1>2, <1>6
  <2> HIDE DEF s, r, saw
  <2>4. s.status \in Ends => EndedAs(t, s.status)
    BY <2>3 DEF EndedAs
  <2>5. s.accepted => life[t] # "none"
    BY <2>3
  <2> QED
    BY <1>1, <2>2, <2>4, <2>5 DEF s, r, saw
<1>7. CASE saw \in Active \cup Ends /\ s = [r EXCEPT !.status = saw, !.accepted = TRUE]
  <2>2. s \in RunRecord /\ s.auto = r.auto /\ s.slot = r.slot /\ s.status = saw
    <3> HIDE DEF s, r, saw
    <3> QED
      BY <1>1, <1>7 DEF RunRecord
  <2>3. saw # "none" /\ life[t] # "none"
    BY <1>2, <1>7 DEF Active, Ends
  <2>4. saw \in Ends => EndedAs(t, saw)
    BY <1>2 DEF EndedAs
  <2> HIDE DEF s, r, saw
  <2> QED
    BY <1>1, <2>2, <2>3, <2>4 DEF s, r, saw
<1>8. \/ s = r
      \/ saw = "lost" /\ s = [r EXCEPT !.status = "failed"]
      \/ saw \in Active \cup Ends /\ s = [r EXCEPT !.status = saw, !.accepted = TRUE]
  BY <1>1 DEF Receipt
<1> QED
  BY <1>5, <1>6, <1>7, <1>8

\* The holder is done with a run or a trigger.
LEMMA SaveMemory ==
  ASSUME AutomationInv, UNCHANGED up,
         disp' = IF disp.op = "run_now" THEN NoDispatch
                 ELSE [disp EXCEPT !.id = None, !.saw = "none", !.pc = "next"],
         \A t \in disp.runs : Unsettled(t)'
  PROVE  DispatchOK' /\ AnswerTrue'
<1>1. CASE disp' = NoDispatch
  BY <1>1, NoDispatchOK
<1>2. CASE disp' = [disp EXCEPT !.id = None, !.saw = "none", !.pc = "next"]
  <2>1. disp' = [proc |-> disp.proc, op |-> disp.op, pc |-> "next", runs |-> disp.runs,
                 due |-> disp.due, trigs |-> disp.trigs, id |-> None, saw |-> "none"]
    BY <1>2, Memory
  <2>2. disp' \in Dispatch
    BY <2>1, Memory DEF Dispatch
  <2>3. disp'.runs = disp.runs /\ disp'.pc = "next" /\ disp'.due = disp.due
        /\ disp'.proc = disp.proc
    BY <2>1
  <2> QED
    BY <2>2, <2>3, MemoryOK
<1> QED
  BY <1>1, <1>2

LEMMA SaveOK ==
  ASSUME AutomationInv, NEW p \in Scopes, Save(p)
  PROVE  StepOK
<1>1. /\ disp.pc = "save" /\ UNCHANGED <<life, auto, archive, up, turn, now>>
      /\ disp' = IF disp.op = "run_now" THEN NoDispatch
                 ELSE [disp EXCEPT !.id = None, !.saw = "none", !.pc = "next"]
  BY DEF Save, lifecycleVars
<1>2. \/ /\ disp.op # "triggers" /\ UNCHANGED trig
         /\ run' = [run EXCEPT ![disp.id] = Receipt(@, disp.saw)]
      \/ /\ disp.op = "triggers" /\ UNCHANGED run
         /\ trig' = [g \in Triggers |->
                       IF trig[g].task = disp.id /\ disp.saw # "error"
                       THEN [trig[g] EXCEPT !.status = "fired"] ELSE trig[g]]
      \/ UNCHANGED <<run, trig>>
  BY DEF Save
<1>3. KeepsOwed
  BY <1>1 DEF KeepsOwed
<1>4. (\A t \in Tasks : Progress(t)) /\ (\A a \in Automations : Exists(a) => Exists(a)')
  BY <1>1 DEF Progress, Exists
<1>5. CASE UNCHANGED <<run, trig>>
  <2>1. \A t \in disp.runs : Unsettled(t)'
    BY <1>5, Memory DEF Unsettled
  <2>2. DispatchOK' /\ AnswerTrue'
    BY <1>1, <2>1, SaveMemory
  <2> QED
    BY <1>1, <1>5, <2>2, TurnOK, MemoryStep
<1>6. CASE /\ disp.op # "triggers" /\ UNCHANGED trig
           /\ run' = [run EXCEPT ![disp.id] = Receipt(@, disp.saw)]
  <2> DEFINE s == Receipt(run[disp.id], disp.saw)
  <2>0. PICK t : t = disp.id
    OBVIOUS
  <2>1. /\ t \in Tasks /\ run[t].status \in Active /\ t \notin disp.runs
        /\ s \in RunRecord /\ s.auto = run[t].auto /\ s.slot = run[t].slot
        /\ s.status # "none"
        /\ s.status \in Ends => EndedAs(t, s.status)
        /\ s.accepted => life[t] # "none"
    BY <1>1, <1>6, <2>0, ReceiptOK
  <2>2. run' = [run EXCEPT ![t] = s]
    BY <1>6, <2>0
  <2> HIDE DEF s
  <2>3. run \in [Tasks -> RunRecord] /\ RunsOK /\ FilesOK /\ OneUnsettled
        /\ \A u \in Tasks : HonestRun(u)
    BY DEF AutomationInv, AutomationTypeOK, FilesOK, ReceiptTrue
  <2>4. /\ run' \in [Tasks -> RunRecord] /\ run'[t] = s
        /\ \A u \in Tasks : u # t => run'[u] = run[u]
    BY <2>1, <2>2, <2>3
  <2>5. ASSUME NEW u \in Tasks
        PROVE  /\ run'[u].auto = None => run'[u] = NoRun
               /\ run'[u].status \in Active => Exists(run[u].auto) /\ run'[u].auto = run[u].auto
               /\ HonestRun(u)'
    <3>1. CASE u = t
      <4>1. run[t].auto # None /\ Exists(run[t].auto)
        BY <2>1, <2>3, NamedRun, AutomationAssumption DEF RunsOK, Active
      <4>2. HonestRun(t)'
        <5>1. t \in archive => life[t] \in Ends \cup {"lost"}
          BY <2>1, <2>3 DEF HonestRun
        <5> QED
          BY <1>1, <2>1, <2>4, <5>1 DEF HonestRun, EndedAs
      <4> QED
        BY <2>1, <2>4, <3>1, <4>1, <4>2
    <3>2. CASE u # t
      <4>1. HonestRun(u)'
        BY <1>1, <2>3, <2>4, <3>2 DEF HonestRun, EndedAs
      <4> QED
        BY <2>3, <2>4, <3>2, <4>1 DEF RunsOK
    <3> QED
      BY <3>1, <3>2
  <2>6. RunsOK'
    BY <1>1, <2>5 DEF RunsOK, Exists
  <2>7. OneUnsettled'
    <3>1. \A u \in Tasks : /\ Unsettled(u)' => Unsettled(u)
                           /\ run'[u].slot = run[u].slot /\ run'[u].auto = run[u].auto
      BY <2>1, <2>4 DEF Unsettled
    <3> QED
      BY <2>3, <3>1 DEF OneUnsettled
  <2>8. \A u \in disp.runs : Unsettled(u)'
    BY <2>1, <2>4, Memory DEF Unsettled
  <2>9. DispatchOK' /\ AnswerTrue'
    BY <1>1, <2>8, SaveMemory
  <2>10. FilesOK' /\ TriggersOK'
    BY <1>1, <1>6, <2>4 DEF AutomationInv, AutomationTypeOK, FilesOK, TriggersOK
  <2> QED
    BY <1>3, <2>5, <2>6, <2>7, <2>9, <2>10, StepParts
<1>7. CASE /\ disp.op = "triggers" /\ UNCHANGED run
           /\ trig' = [g \in Triggers |->
                         IF trig[g].task = disp.id /\ disp.saw # "error"
                         THEN [trig[g] EXCEPT !.status = "fired"] ELSE trig[g]]
  <2>1. trig \in [Triggers -> Trigger] /\ TriggersOK /\ disp.id \in Tasks
    BY <1>1 DEF AutomationInv, AutomationTypeOK, FilesOK, DispatchOK
  <2>2. ASSUME NEW g \in Triggers
        PROVE  /\ trig'[g] \in Trigger
               /\ trig'[g].task \in Tasks <=> trig'[g].status \in {"dispatching", "fired"}
    <3>1. CASE trig'[g] = trig[g]
      BY <2>1, <3>1 DEF TriggersOK
    <3>2. CASE trig[g].task = disp.id /\ trig'[g] = [trig[g] EXCEPT !.status = "fired"]
      <4>1. ASSUME NEW d \in Trigger, NEW x, x = [d EXCEPT !.status = "fired"]
            PROVE  x \in Trigger /\ x.task = d.task /\ x.status = "fired"
        BY <4>1 DEF Trigger
      <4>2. trig'[g] \in Trigger /\ trig'[g].task = trig[g].task /\ trig'[g].status = "fired"
        BY <2>1, <3>2, <4>1
      <4> QED
        BY <2>1, <3>2, <4>2
    <3> QED
      BY <1>7, <3>1, <3>2
  <2>3. trig' \in [Triggers -> Trigger]
    <3>1. trig' = [g \in Triggers |-> trig'[g]]
      BY <1>7
    <3> QED
      BY <2>2, <3>1
  <2>4. TriggersOK'
    BY <2>2 DEF TriggersOK
  <2>5. FilesOK'
    BY <1>1, <1>7, <2>3 DEF AutomationInv, AutomationTypeOK, FilesOK
  <2>6. RunsOK' /\ (\A t \in Tasks : HonestRun(t)') /\ OneUnsettled'
    BY <1>1, <1>4, <1>7, RunsKept
  <2>7. \A t \in disp.runs : Unsettled(t)'
    BY <1>7, Memory DEF Unsettled
  <2>8. DispatchOK' /\ AnswerTrue'
    BY <1>1, <2>7, SaveMemory
  <2> QED
    BY <1>3, <2>4, <2>5, <2>6, <2>8, StepParts
<1> QED
  BY <1>2, <1>5, <1>6, <1>7

-----------------------------------------------------------------------------
(* The invariant. *)

\* A store of an earlier session satisfies the invariant.
LEMMA InitOK == Init => AutomationInv
<1> SUFFICES ASSUME Init PROVE AutomationInv
  OBVIOUS
<1>1. \A a \in Automations : auto[a] \in Definition
  <2>1. NoAutomation \in Definition
    BY DEF NoAutomation, Definition, Rules
  <2>2. ASSUME NEW s \in Scopes \cup {None}
        PROVE  [NoAutomation EXCEPT !.status = "active", !.scope = s, !.rule = "hourly"]
                  \in Definition
    BY DEF NoAutomation, Definition, Rules
  <2>3. auto \in [Automations ->
          {NoAutomation} \cup
          {[NoAutomation EXCEPT !.status = "active", !.scope = s,
                                !.rule = "hourly"] : s \in Scopes \cup {None}}]
    BY DEF Init
  <2>4. ASSUME NEW a \in Automations PROVE auto[a] \in Definition
    <3>1. CASE auto[a] = NoAutomation
      BY <2>1, <3>1
    <3>2. CASE \E s \in Scopes \cup {None} :
                 auto[a] = [NoAutomation EXCEPT !.status = "active", !.scope = s,
                                                !.rule = "hourly"]
      BY <2>2, <3>2
    <3> QED
      BY <2>3, <3>1, <3>2
  <2> QED
    BY <2>4
<1>2. \A g \in Triggers : trig[g] \in Trigger /\ trig[g].task = None
                          /\ trig[g].status \in {"none", "pending"}
  <2>1. NoTrigger \in Trigger /\ NoTrigger.task = None /\ NoTrigger.status = "none"
    BY DEF NoTrigger, Trigger
  <2>2. ASSUME NEW s \in Scopes, NEW x,
               x = [NoTrigger EXCEPT !.status = "pending", !.scope = s, !.at = 1, !.owned = TRUE]
        PROVE  x \in Trigger /\ x.task = None /\ x.status = "pending"
    BY <2>2 DEF NoTrigger, Trigger
  <2>3. trig \in [Triggers ->
          {NoTrigger} \cup
          {[NoTrigger EXCEPT !.status = "pending", !.scope = s, !.at = 1,
                             !.owned = TRUE] : s \in Scopes}]
    BY DEF Init
  <2>4. ASSUME NEW g \in Triggers
        PROVE  trig[g] \in Trigger /\ trig[g].task = None
               /\ trig[g].status \in {"none", "pending"}
    <3>1. CASE trig[g] = NoTrigger
      BY <2>1, <3>1
    <3>2. CASE \E s \in Scopes :
                 trig[g] = [NoTrigger EXCEPT !.status = "pending", !.scope = s, !.at = 1,
                                             !.owned = TRUE]
      BY <2>2, <3>2
    <3> QED
      BY <2>3, <3>1, <3>2
  <2> QED
    BY <2>4
<1>3. NoRun \in RunRecord
  BY DEF NoRun, RunRecord
<1>4. /\ life = [t \in Tasks |-> "none"] /\ run = [t \in Tasks |-> NoRun]
      /\ archive = {} /\ up = Scopes /\ disp = NoDispatch
      /\ turn = [p \in Scopes |-> "recover"] /\ now = 0
      /\ auto = [a \in Automations |-> auto[a]] /\ trig = [g \in Triggers |-> trig[g]]
  BY DEF Init, LifecycleInit
<1>5. FilesOK
  BY <1>1, <1>2, <1>3, <1>4 DEF FilesOK
<1>6. RunsOK /\ OneUnsettled /\ \A t \in Tasks : HonestRun(t)
  BY <1>4 DEF RunsOK, OneUnsettled, Unsettled, HonestRun, NoRun, Active, Ends
<1>7. TriggersOK
  BY <1>2, AutomationAssumption DEF TriggersOK
<1>8. DispatchOK /\ AnswerTrue
  BY <1>4 DEF DispatchOK, AnswerTrue, NoDispatch, Dispatch
<1> QED
  BY <1>5, <1>6, <1>7, <1>8 DEF AutomationInv, AutomationTypeOK, ReceiptTrue

\* Every step keeps the invariant and takes no owed slot without its run.
LEMMA NextOK == AutomationInv /\ [Next]_automationVars => StepOK
<1> SUFFICES ASSUME AutomationInv, [Next]_automationVars PROVE StepOK
  OBVIOUS
<1>1. ASSUME NEW p \in Scopes, Pass(p) PROVE StepOK
  BY <1>1, RecoverOK, CollectOK, ClaimOK, TrigClaimOK, AdmitOK, ReconcileReadOK,
     SaveOK, ReleaseOK DEF Pass
<1>2. ASSUME NEW p \in Scopes, Operator(p) PROVE StepOK
  BY <1>2, CreateAutomationOK, UpdateAutomationOK, DeleteAutomationOK, RunNowOK,
     CreateTriggerOK, CancelTriggerOK DEF Operator
<1>3. ASSUME NEW p \in Scopes, BeginPass(p) PROVE StepOK
  BY <1>3, BeginPassOK
<1>4. ASSUME NEW p \in Scopes, SkipPass(p) PROVE StepOK
  BY <1>4, SkipPassOK
<1>5. ASSUME NEW p \in Scopes, Crash(p) \/ Restart(p) PROVE StepOK
  BY <1>5, CrashOK, RestartOK
<1>6. ASSUME NEW t \in Tasks, Proceed(t) \/ CancelTask(t) \/ Lose(t) PROVE StepOK
  BY <1>6, ProceedOK, CancelTaskOK, LoseOK
<1>7. CASE Clock
  BY <1>7, ClockOK
<1>8. CASE UNCHANGED automationVars
  <2>1. UNCHANGED <<life, auto, run, trig, archive, up, turn, now, disp>>
    BY <1>8 DEF automationVars, lifecycleVars, files
  <2> QED
    BY <2>1, TurnOK, IdleStep
<1> QED
  BY <1>1, <1>2, <1>3, <1>4, <1>5, <1>6, <1>7, <1>8 DEF Next

\* The inductive invariant of the automations' files and of the holder of
\* dispatch.lock.
THEOREM AutomationInvariant == Spec => []AutomationInv
<1>1. AutomationInv /\ [Next]_automationVars => AutomationInv'
  BY NextOK DEF StepOK
<1> QED
  BY InitOK, <1>1, PTL DEF Spec

\* Types hold, an unsettled run has its definition, and what the holder of the
\* lock admits or reports is on disk, whatever operators do meanwhile.
THEOREM AutomationTyped == Spec => []AutomationTypeOK
<1>1. AutomationInv => AutomationTypeOK
  BY DEF AutomationInv
<1> QED
  BY AutomationInvariant, <1>1, PTL

\* Receipts are true for any number of failed writes, lost answers, lost tasks
\* and crashes.
THEOREM ReceiptsTrue == Spec => []ReceiptTrue
<1>1. AutomationInv => ReceiptTrue
  BY DEF AutomationInv
<1> QED
  BY AutomationInvariant, <1>1, PTL

\* Occurrences of one schedule never overlap: a live task of a scheduled run
\* has an unsettled receipt, since a settled or removed one means an end.
THEOREM OccurrencesApart == Spec => []NoOverlap
<1>1. AutomationInv => NoOverlap
  <2> SUFFICES ASSUME AutomationInv, NEW t \in Tasks, NEW u \in Tasks,
                      (Live(t) /\ Live(u)) \/ (Unsettled(t) /\ Unsettled(u)),
                      run[t].slot # 0, run[u].slot # 0, run[t].auto = run[u].auto
               PROVE  t = u
    BY DEF NoOverlap
  <2>1. ASSUME NEW v \in Tasks, Live(v), run[v].slot # 0 PROVE Unsettled(v)
    <3>1. run[v].status \in {"none"} \cup Active \cup Ends
      BY DEF AutomationInv, AutomationTypeOK, FilesOK, RunRecord
    <3>2. life[v] \notin Ends \cup {"lost"}
      BY <2>1 DEF Live, Active, Ends
    <3>3. HonestRun(v) /\ (run[v].auto = None => run[v] = NoRun)
      BY DEF AutomationInv, AutomationTypeOK, RunsOK, ReceiptTrue
    <3>4. run[v].auto # None
      BY <2>1, <3>3 DEF NoRun
    <3> QED
      BY <3>1, <3>2, <3>3, <3>4 DEF HonestRun, EndedAs, Unsettled
  <2>2. Unsettled(t) /\ Unsettled(u)
    BY <2>1
  <2> QED
    BY <2>2 DEF AutomationInv, OneUnsettled
<1> QED
  BY AutomationInvariant, <1>1, PTL

\* A canceled trigger has never been given a task.
THEOREM CanceledStays == Spec => []CanceledNeverFires
<1>1. AutomationInv => CanceledNeverFires
  <2> SUFFICES ASSUME AutomationInv, NEW g \in Triggers, trig[g].status = "canceled"
               PROVE  trig[g].task = None
    BY DEF CanceledNeverFires
  <2>1. trig[g].task \in Tasks \cup {None} /\ trig[g].task \notin Tasks
    BY DEF AutomationInv, AutomationTypeOK, FilesOK, Trigger, TriggersOK
  <2> QED
    BY <2>1
<1> QED
  BY AutomationInvariant, <1>1, PTL

\* No step takes an owed slot off a definition without its run, and no new slot
\* lies in the past.
THEOREM SlotsKept == Spec => OwedSlotKept
<1>1. AutomationInv /\ [Next]_automationVars => [KeepsOwed]_automationVars
  BY NextOK DEF StepOK
<1> QED
  BY AutomationInvariant, <1>1, PTL DEF Spec, OwedSlotKept

-----------------------------------------------------------------------------
(* Slots.  A slot is claimed once it has passed, and a definition's slot only *)
(* changes to one that has not.                                              *)

DuePassed == \A d \in disp.due : d.seen.next <= now

SlotInv == SlotOnce /\ DuePassed

\* A run with a slot names an automation.
LEMMA SlotNamed ==
  ASSUME AutomationInv, NEW t \in Tasks, run[t].slot # 0
  PROVE  run[t].auto \in Automations /\ run[t].slot \in Nat
BY DEF AutomationInv, AutomationTypeOK, RunsOK, FilesOK, RunRecord, NoRun

\* A step after which a definition has its old slot, none or a future one.
LEMMA NextAhead ==
  ASSUME AutomationInv, StepOK, NEW a \in Automations
  PROVE  /\ auto[a].next \in Nat /\ auto'[a].next \in Nat /\ now \in Nat
         /\ auto'[a].next = auto[a].next \/ auto'[a].next = 0 \/ auto'[a].next > now
<1>1. auto[a] \in Definition /\ auto'[a] \in Definition /\ now \in Nat
  BY DEF StepOK, AutomationInv, AutomationTypeOK, FilesOK
<1>2. auto'[a].next = auto[a].next \/ auto'[a].next = 0 \/ auto'[a].next > now
  BY DEF StepOK, KeepsOwed, TakenWithRun
<1> QED
  BY <1>1, <1>2, Fields

\* Steps that bind no run and add nothing to the due definitions.
LEMMA SlotStep ==
  ASSUME AutomationInv, SlotInv, StepOK, now' \in {now, now + 1},
         \A t \in Tasks : /\ run'[t].auto = run[t].auto /\ run'[t].slot = run[t].slot
                          /\ run[t].status = "none" => run'[t].status = "none",
         \A d \in disp'.due : d \in disp.due \/ d.seen.next <= now
  PROVE  SlotInv'
<1>0. now \in Nat
  BY DEF AutomationInv, AutomationTypeOK, FilesOK
<1>1. DuePassed'
  <2>1. ASSUME NEW d \in disp'.due PROVE d.seen.next <= now'
    <3>1. d.seen.next <= now
      BY <2>1 DEF SlotInv, DuePassed
    <3>2. d.seen \in Definition
      BY <2>1 DEF StepOK, AutomationInv, AutomationTypeOK, DispatchOK, Dispatch
    <3>3. d.seen.next \in Nat
      BY <3>2, Fields
    <3> QED
      BY <1>0, <3>1, <3>3
  <2> QED
    BY <2>1 DEF DuePassed
<1>2. ASSUME NEW t \in Tasks, run'[t].slot # 0
      PROVE  /\ run'[t].slot <= now'
             /\ auto'[run'[t].auto].next = 0 \/ auto'[run'[t].auto].next >= run'[t].slot
  <2> DEFINE a == run[t].auto
             s == run[t].slot
             x == auto[a].next
             y == auto'[a].next
  <2>1. a \in Automations /\ s \in Nat
    BY <1>2, SlotNamed
  <2>2. s <= now /\ (x = 0 \/ x >= s)
    BY <1>2 DEF SlotInv, SlotOnce
  <2>3. x \in Nat /\ y \in Nat /\ (y = x \/ y = 0 \/ y > now)
    BY <2>1, NextAhead
  <2>4. run'[t].auto = a /\ run'[t].slot = s
    OBVIOUS
  <2> HIDE DEF a, s, x, y
  <2>5. s <= now' /\ (y = 0 \/ y >= s)
    BY <1>0, <2>1, <2>2, <2>3
  <2> QED
    BY <2>4, <2>5 DEF y
<1>3. ASSUME NEW t \in Tasks, NEW u \in Tasks, Recorded(t)', Recorded(u)',
             run'[t].slot # 0, run'[t].slot = run'[u].slot, run'[t].auto = run'[u].auto
      PROVE  t = u
  BY <1>3 DEF SlotInv, SlotOnce, Recorded
<1>4. SlotOnce'
  BY <1>2, <1>3 DEF SlotOnce
<1> QED
  BY <1>1, <1>4 DEF SlotInv

\* Steps that write no run.
LEMMA QuietStep ==
  ASSUME AutomationInv, SlotInv, StepOK, UNCHANGED run, now' \in {now, now + 1},
         \A d \in disp'.due : d \in disp.due \/ d.seen.next <= now
  PROVE  SlotInv'
BY SlotStep

\* A run is bound to a slot that has passed and has no run on record.
LEMMA BindSlot ==
  ASSUME AutomationInv, SlotInv, StepOK, NEW n \in Tasks, run[n].auto = None,
         NEW a \in Automations, NEW r \in RunRecord, r.auto = a,
         run' = [run EXCEPT ![n] = r], UNCHANGED now,
         r.slot # 0 => /\ r.slot <= now /\ r.slot = auto[a].next
                       /\ ~SlotTaken(a, r.slot),
         disp'.due \subseteq disp.due
  PROVE  SlotInv'
<1>0. now \in Nat /\ run \in [Tasks -> RunRecord] /\ r.slot \in Nat
  BY DEF AutomationInv, AutomationTypeOK, FilesOK, RunRecord
<1>1. run'[n] = r /\ \A t \in Tasks : t # n => run'[t] = run[t]
  BY <1>0
<1>2. DuePassed'
  BY DEF SlotInv, DuePassed
<1>3. ASSUME NEW t \in Tasks, run'[t].slot # 0
      PROVE  /\ run'[t].slot <= now'
             /\ auto'[run'[t].auto].next = 0 \/ auto'[run'[t].auto].next >= run'[t].slot
  <2>1. CASE t = n
    <3>1. /\ auto[a].next \in Nat /\ auto'[a].next \in Nat
          /\ auto'[a].next = auto[a].next \/ auto'[a].next = 0 \/ auto'[a].next > now
      BY NextAhead
    <3> DEFINE x == auto[a].next
               y == auto'[a].next
    <3>2. r.slot <= now /\ r.slot = x
      BY <1>1, <1>3, <2>1
    <3> HIDE DEF x, y
    <3>3. y = 0 \/ y >= r.slot
      BY <1>0, <3>1, <3>2 DEF x, y
    <3> QED
      BY <1>1, <2>1, <3>2, <3>3 DEF y
  <2>2. CASE t # n
    <3> DEFINE b == run[t].auto
               s == run[t].slot
               x == auto[b].next
               y == auto'[b].next
    <3>1. run'[t] = run[t]
      BY <1>1, <2>2
    <3>2. b \in Automations /\ s \in Nat
      BY <1>3, <3>1, SlotNamed
    <3>3. s <= now /\ (x = 0 \/ x >= s)
      BY <1>3, <3>1 DEF SlotInv, SlotOnce
    <3>4. x \in Nat /\ y \in Nat /\ (y = x \/ y = 0 \/ y > now)
      BY <3>2, NextAhead
    <3> HIDE DEF b, s, x, y
    <3>5. y = 0 \/ y >= s
      BY <1>0, <3>2, <3>3, <3>4
    <3> QED
      BY <3>1, <3>3, <3>5 DEF b, s, y
  <2> QED
    BY <2>1, <2>2
<1>4. ASSUME NEW u \in Tasks, u # n, Recorded(u), run[u].auto = a
      PROVE  SlotTaken(a, run[u].slot)
  BY <1>4 DEF SlotTaken, RunsOf, Recorded
<1>5. ASSUME NEW t \in Tasks, NEW u \in Tasks, Recorded(t)', Recorded(u)',
             run'[t].slot # 0, run'[t].slot = run'[u].slot, run'[t].auto = run'[u].auto
      PROVE  t = u
  <2>1. CASE t # n /\ u # n
    BY <1>1, <1>5, <2>1 DEF SlotInv, SlotOnce, Recorded
  <2>2. CASE t = n /\ u # n
    BY <1>1, <1>4, <1>5, <2>2 DEF Recorded
  <2>3. CASE t # n /\ u = n
    BY <1>1, <1>4, <1>5, <2>3 DEF Recorded
  <2> QED
    BY <2>1, <2>2, <2>3
<1>6. SlotOnce'
  BY <1>3, <1>5 DEF SlotOnce
<1> QED
  BY <1>2, <1>6 DEF SlotInv

LEMMA DeleteSlots ==
  ASSUME AutomationInv, SlotInv, StepOK, NEW p \in Scopes, NEW a \in Automations,
         DeleteAutomation(p, a)
  PROVE  SlotInv'
<1>1. /\ UNCHANGED <<now, disp>> /\ Deletable(a)
      /\ \E gone \in SUBSET RunsOf(a) : run' = Forget(gone)
  BY DEF DeleteAutomation
<1>2. PICK gone \in SUBSET RunsOf(a) : run' = Forget(gone)
  BY <1>1
<1>3. run \in [Tasks -> RunRecord]
  BY DEF AutomationInv, AutomationTypeOK, FilesOK
<1>4. ASSUME NEW t \in Tasks
      PROVE  /\ run'[t].auto = run[t].auto /\ run'[t].slot = run[t].slot
             /\ run[t].status = "none" => run'[t].status = "none"
  <2>1. ASSUME NEW r \in RunRecord, NEW s, s = [r EXCEPT !.status = "none"]
        PROVE  s.status = "none" /\ s.auto = r.auto /\ s.slot = r.slot
    BY <2>1 DEF RunRecord
  <2>2. run'[t] = run[t] \/ run'[t] = [run[t] EXCEPT !.status = "none"]
    BY <1>2 DEF Forget
  <2> QED
    BY <1>3, <2>1, <2>2
<1> QED
  BY <1>1, <1>4, SlotStep

LEMMA SaveSlots ==
  ASSUME AutomationInv, SlotInv, StepOK, NEW p \in Scopes, Save(p)
  PROVE  SlotInv'
<1>1. /\ disp.pc = "save" /\ UNCHANGED now
      /\ disp' = IF disp.op = "run_now" THEN NoDispatch
                 ELSE [disp EXCEPT !.id = None, !.saw = "none", !.pc = "next"]
  BY DEF Save
<1>2. disp'.due \subseteq disp.due
  <2>1. CASE disp' = NoDispatch
    BY <2>1 DEF NoDispatch
  <2>2. CASE disp' = [disp EXCEPT !.id = None, !.saw = "none", !.pc = "next"]
    BY <2>2, Memory
  <2> QED
    BY <1>1, <2>1, <2>2
<1>3. CASE UNCHANGED run
  BY <1>1, <1>2, <1>3, QuietStep
<1>4. CASE /\ disp.op # "triggers"
           /\ run' = [run EXCEPT ![disp.id] = Receipt(@, disp.saw)]
  <2> DEFINE s == Receipt(run[disp.id], disp.saw)
  <2>1. PICK t : t = disp.id
    OBVIOUS
  <2>2. /\ t \in Tasks /\ run[t].status \in Active
        /\ s.auto = run[t].auto /\ s.slot = run[t].slot
    BY <1>1, <1>4, <2>1, ReceiptOK
  <2>3. run' = [run EXCEPT ![t] = s] /\ run \in [Tasks -> RunRecord]
    BY <1>4, <2>1 DEF AutomationInv, AutomationTypeOK, FilesOK
  <2> HIDE DEF s
  <2>4. \A u \in Tasks : /\ run'[u].auto = run[u].auto /\ run'[u].slot = run[u].slot
                         /\ run[u].status = "none" => run'[u].status = "none"
    BY <2>2, <2>3 DEF Active
  <2> QED
    BY <1>1, <1>2, <2>4, SlotStep
<1> QED
  BY <1>3, <1>4 DEF Save

LEMMA ClaimSlots ==
  ASSUME AutomationInv, SlotInv, StepOK, NEW p \in Scopes, Claim(p)
  PROVE  SlotInv'
<1>1. PICK d \in disp.due :
         /\ \/ UNCHANGED run
            \/ /\ run' = [run EXCEPT ![NewTaskId] = BoundRun(p, d.auto, d.seen.next)]
               /\ auto[d.auto] = d.seen
               /\ ~SlotTaken(d.auto, d.seen.next)
               /\ CanBind
         /\ \/ disp' = [disp EXCEPT !.due = @ \ {d}]
            \/ disp' = [[disp EXCEPT !.due = @ \ {d}] EXCEPT !.id = NewTaskId, !.pc = "admit"]
  BY DEF Claim
<1>2. UNCHANGED now
  BY DEF Claim
<1>3. disp'.due \subseteq disp.due
  BY <1>1, Memory
<1>4. CASE UNCHANGED run
  BY <1>2, <1>3, <1>4, QuietStep
<1>5. CASE /\ run' = [run EXCEPT ![NewTaskId] = BoundRun(p, d.auto, d.seen.next)]
           /\ auto[d.auto] = d.seen
           /\ ~SlotTaken(d.auto, d.seen.next)
           /\ CanBind
  <2> DEFINE n == NewTaskId
             a == d.auto
             r == BoundRun(p, d.auto, d.seen.next)
  <2>1. a \in Automations /\ d.seen.next \in Nat
    <3>1. d \in [auto : Automations, seen : Definition]
      BY Memory
    <3> QED
      BY <3>1 DEF Definition
  <2>2. r \in RunRecord /\ r.auto = a /\ r.slot = d.seen.next
    BY <2>1, BoundRunOK
  <2>3. n \in Tasks /\ run[n].auto = None
    BY <1>5, NewTask DEF Unbound
  <2>4. r.slot <= now /\ r.slot = auto[a].next /\ ~SlotTaken(a, r.slot)
    BY <1>5, <2>2 DEF SlotInv, DuePassed
  <2>5. run' = [run EXCEPT ![n] = r]
    BY <1>5
  <2> HIDE DEF n, a, r
  <2> QED
    BY <1>2, <1>3, <2>1, <2>2, <2>3, <2>4, <2>5, BindSlot
<1> QED
  BY <1>1, <1>4, <1>5

LEMMA RunNowSlots ==
  ASSUME AutomationInv, SlotInv, StepOK, NEW p \in Scopes, NEW a \in Automations,
         RunNow(p, a)
  PROVE  SlotInv'
<1> DEFINE r == [BoundRun(p, a, 0) EXCEPT !.stamp = 0]
           n == NewTaskId
<1>1. /\ UNCHANGED now /\ CanBind /\ disp = NoDispatch
      /\ \/ /\ run' = [run EXCEPT ![n] = r]
            /\ disp' = [NoDispatch EXCEPT !.proc = p, !.op = "run_now",
                                          !.pc = "admit", !.id = n]
         \/ UNCHANGED <<run, disp>>
  BY DEF RunNow
<1>2. CASE UNCHANGED <<run, disp>>
  BY <1>1, <1>2, QuietStep
<1>3. CASE /\ run' = [run EXCEPT ![n] = r]
           /\ disp' = [NoDispatch EXCEPT !.proc = p, !.op = "run_now",
                                         !.pc = "admit", !.id = n]
  <2>1. r \in RunRecord /\ r.auto = a /\ r.slot = 0
    <3>1. ASSUME NEW q \in RunRecord, NEW s, s = [q EXCEPT !.stamp = 0]
          PROVE  s \in RunRecord /\ s.auto = q.auto /\ s.slot = q.slot
      BY <3>1 DEF RunRecord
    <3> QED
      BY <3>1, BoundRunOK
  <2>2. n \in Tasks /\ run[n].auto = None
    BY <1>1, NewTask DEF Unbound
  <2> HIDE DEF r, n
  <2>3. disp'.due = {}
    BY <1>3 DEF NoDispatch
  <2> QED
    BY <1>1, <1>3, <2>1, <2>2, <2>3, BindSlot
<1> QED
  BY <1>1, <1>2, <1>3

LEMMA CollectSlots ==
  ASSUME AutomationInv, SlotInv, StepOK, NEW p \in Scopes, Collect(p)
  PROVE  SlotInv'
<1> DEFINE own == {a \in Automations : auto[a].status = "active" /\ auto[a].scope = p}
           due == {[auto |-> a, seen |-> auto[a]] :
                     a \in {b \in own : auto[b].next \in 1..now}}
<1>1. /\ UNCHANGED <<run, now>>
      /\ disp' = [disp EXCEPT !.op = "claim", !.due = due] \/ disp' = NoDispatch
  BY DEF Collect
<1>2. \A d \in due : d.seen.next <= now
  <2>1. now \in Nat
    BY DEF AutomationInv, AutomationTypeOK, FilesOK
  <2> QED
    BY <2>1
<1> HIDE DEF due
<1>3. disp'.due = due \/ disp'.due = {}
  <2>1. CASE disp' = NoDispatch
    BY <2>1 DEF NoDispatch
  <2>2. CASE disp' = [disp EXCEPT !.op = "claim", !.due = due]
    BY <2>2, Memory
  <2> QED
    BY <1>1, <2>1, <2>2
<1> QED
  BY <1>1, <1>2, <1>3, QuietStep

\* Steps of the holder that write no run and list nothing new.
LEMMA PassSlots ==
  ASSUME AutomationInv, SlotInv, StepOK, NEW p \in Scopes,
         \/ Recover(p) \/ TrigClaim(p) \/ Admit(p) \/ ReconcileRead(p) \/ Release(p)
         \/ BeginPass(p) \/ Crash(p)
  PROVE  SlotInv'
<1>1. UNCHANGED <<run, now>>
  BY DEF Recover, TrigClaim, Admit, ReconcileRead, Release, BeginPass, Crash, files
<1>2. disp'.due \subseteq disp.due
  <2>1. CASE Recover(p)
    BY <2>1, Memory DEF Recover
  <2>2. CASE TrigClaim(p)
    BY <2>2, Memory DEF TrigClaim
  <2>3. CASE Admit(p)
    BY <2>3, Memory DEF Admit
  <2>4. CASE ReconcileRead(p)
    BY <2>4, Memory DEF ReconcileRead
  <2>5. CASE Release(p) \/ BeginPass(p)
    <3>1. CASE Release(p)
      BY <3>1 DEF Release, NoDispatch
    <3>2. CASE BeginPass(p)
      <4>1. PICK op, rs, gs :
               disp' = [NoDispatch EXCEPT !.proc = p, !.op = op, !.runs = rs, !.trigs = gs]
        BY <3>2, Zenon DEF BeginPass
      <4> QED
        BY <4>1 DEF NoDispatch
    <3> QED
      BY <2>5, <3>1, <3>2
  <2>6. CASE Crash(p)
    BY <2>6 DEF Crash, NoDispatch
  <2> QED
    BY <2>1, <2>2, <2>3, <2>4, <2>5, <2>6
<1> QED
  BY <1>1, <1>2, QuietStep

LEMMA SlotsNext == AutomationInv /\ SlotInv /\ [Next]_automationVars => SlotInv'
<1> SUFFICES ASSUME AutomationInv, SlotInv, [Next]_automationVars PROVE SlotInv'
  OBVIOUS
<1>0. StepOK
  BY NextOK
<1>1. ASSUME NEW p \in Scopes, Pass(p) \/ BeginPass(p) \/ Crash(p) PROVE SlotInv'
  BY <1>0, <1>1, PassSlots, CollectSlots, ClaimSlots, SaveSlots DEF Pass
<1>2. ASSUME NEW p \in Scopes, NEW a \in Automations,
             DeleteAutomation(p, a) \/ RunNow(p, a)
      PROVE  SlotInv'
  BY <1>0, <1>2, DeleteSlots, RunNowSlots
<1>3. CASE UNCHANGED <<run, disp>> /\ now' \in {now, now + 1}
  BY <1>0, <1>3, QuietStep
<1>4. ASSUME NEW p \in Scopes, Operator(p)
      PROVE  SlotInv'
  BY <1>2, <1>3, <1>4
  DEF Operator, CreateAutomation, UpdateAutomation, CreateTrigger, CancelTrigger
<1>5. ASSUME NEW p \in Scopes, SkipPass(p) \/ Restart(p) PROVE SlotInv'
  BY <1>3, <1>5 DEF SkipPass, Restart, files
<1>6. ASSUME NEW t \in Tasks, Proceed(t) \/ CancelTask(t) \/ Lose(t) PROVE SlotInv'
  BY <1>3, <1>6 DEF Proceed, CancelTask, Lose, files
<1>7. CASE Clock \/ UNCHANGED automationVars
  BY <1>3, <1>7 DEF Clock, automationVars, files
<1> QED
  BY <1>1, <1>4, <1>5, <1>6, <1>7 DEF Next

\* No slot has two runs on record and no schedule goes back, for any number of
\* edits, failed writes and crashes.
THEOREM SlotsRunOnce == Spec => []SlotOnce
<1>1. Init => SlotInv
  <2> SUFFICES ASSUME Init PROVE SlotInv
    OBVIOUS
  <2>1. run = [t \in Tasks |-> NoRun] /\ disp = NoDispatch
    BY DEF Init
  <2>2. \A t \in Tasks : run[t].slot = 0
    BY <2>1 DEF NoRun
  <2>3. disp.due = {}
    BY <2>1 DEF NoDispatch
  <2> QED
    BY <2>2, <2>3 DEF SlotInv, SlotOnce, DuePassed
<1>2. AutomationInv /\ SlotInv /\ [Next]_automationVars => SlotInv'
  BY SlotsNext
<1>3. SlotInv => SlotOnce
  BY DEF SlotInv
<1> QED
  BY AutomationInvariant, <1>1, <1>2, <1>3, PTL DEF Spec

=============================================================================
