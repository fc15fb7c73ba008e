------------------------ MODULE LaunchGovernorProofs ------------------------
(***************************************************************************)
(* Proofs about LaunchGovernor for any children, owners, thresholds and    *)
(* concurrencies.                                                          *)
(*                                                                         *)
(* GovernorTypeOK and SlotsCounted are inductive together.  The heart of   *)
(* the argument is wake_locked: it serves as many waiters as there is      *)
(* room for, from the front of the queue, and stops short of the room only *)
(* when the queue is empty.  That a prefix of the queue with this property *)
(* exists is an induction over its length, done here with the least        *)
(* element of a set of naturals.                                           *)
(***************************************************************************)
EXTENDS LaunchGovernor, FiniteSetTheorems, SequenceTheorems,
        WellFoundedInduction, TLAPS

-----------------------------------------------------------------------------
(* Numbers and finite sets. *)

\* A set of naturals that is not empty has a least element.
LEMMA LeastNat ==
  ASSUME NEW T, T \subseteq Nat, T # {}
  PROVE  \E x \in T : \A y \in T : x <= y
<1> DEFINE R == {ss \in Nat \X Nat : ss[1] < ss[2]}
<1>1. IsWellFoundedOn(R, Nat)
  BY NatLessThanWellFounded, Zenon DEF OpToRel
<1>2. \A x, y \in Nat : y < x => <<y, x>> \in R
  OBVIOUS
<1> HIDE DEF R
<1>3. PICK x \in T : \A y \in T : ~(<<y, x>> \in R)
  BY <1>1, WFMin
<1>4. \A y \in T : ~(y < x)
  BY <1>2, <1>3
<1> QED
  BY <1>4

\* A set of children is finite and no larger than all of them.
LEMMA SomeChildren ==
  ASSUME NEW T, T \subseteq Children
  PROVE  /\ IsFiniteSet(T)
         /\ Cardinality(T) \in 0..Cardinality(Children)
<1>1. IsFiniteSet(Children)
  BY GovernorAssumption
<1>2. IsFiniteSet(T) /\ Cardinality(T) <= Cardinality(Children)
  BY <1>1, FS_Subset
<1>3. Cardinality(T) \in Nat /\ Cardinality(Children) \in Nat
  BY <1>1, <1>2, FS_CardinalityType
<1> QED
  BY <1>2, <1>3

\* The widest concurrency bounds every other one, and one at least when some
\* configuration asks for more than none.
LEMMA WidestConcurrency ==
  /\ MaxConcurrency \in Concurrency
  /\ MaxConcurrency \in Nat
  /\ \A m \in Concurrency : m \in Nat /\ m <= MaxConcurrency
BY GovernorAssumption DEF MaxConcurrency

-----------------------------------------------------------------------------
(* wake_locked. *)

\* A gate as wake_locked finds it.
Unwoken == [capacity : Nat, active : Nat, waiters : Seq(Children)]

\* One more queue entry serves at most one more child.
LEMMA ServedGrows ==
  ASSUME NEW g \in Gates, NEW gt \in Unwoken
  PROVE  /\ Served(g, gt, 0) = 0
         /\ \A k \in 0..Len(gt.waiters) :
               IsFiniteSet(WaitingIn(gt.waiters, g, k)) /\ Served(g, gt, k) \in Nat
         /\ \A k \in 1..Len(gt.waiters) :
               Served(g, gt, k) <= Served(g, gt, k - 1) + 1
<1> DEFINE W(k) == WaitingIn(gt.waiters, g, k)
<1>0. Len(gt.waiters) \in Nat
  BY DEF Unwoken
<1>1. ASSUME NEW k \in 0..Len(gt.waiters)
      PROVE  IsFiniteSet(W(k)) /\ Cardinality(W(k)) \in Nat
  <2>1. W(k) \in SUBSET (1..k)
    BY DEF WaitingIn
  <2>2. IsFiniteSet(1..k)
    BY <1>0, FS_Interval
  <2> QED
    BY <2>1, <2>2, FS_Subset, FS_CardinalityType
<1>2. W(0) = {}
  BY DEF WaitingIn
<1>3. ASSUME NEW k \in 1..Len(gt.waiters)
      PROVE  Cardinality(W(k)) <= Cardinality(W(k - 1)) + 1
  <2>1. k - 1 \in 0..Len(gt.waiters)
    BY <1>0
  <2>2. W(k) = W(k - 1) \cup {k} \/ W(k) = W(k - 1)
    <3>1. 1..k = (1..(k - 1)) \cup {k}
      BY <1>0
    <3> QED
      BY <3>1 DEF WaitingIn
  <2>3. /\ IsFiniteSet(W(k - 1)) /\ Cardinality(W(k - 1)) \in Nat
        /\ Cardinality(W(k - 1) \cup {k}) <= Cardinality(W(k - 1)) + 1
    <3> HIDE DEF W
    <3>1. IsFiniteSet(W(k - 1)) /\ Cardinality(W(k - 1)) \in Nat
      BY <1>1, <2>1
    <3>2. Cardinality(W(k - 1) \cup {k}) =
            IF k \in W(k - 1) THEN Cardinality(W(k - 1)) ELSE Cardinality(W(k - 1)) + 1
      BY <3>1, FS_AddElement
    <3> QED
      BY <3>1, <3>2
  <2> HIDE DEF W
  <2>4. CASE W(k) = W(k - 1) \cup {k}
    BY <2>3, <2>4
  <2>5. CASE W(k) = W(k - 1)
    BY <2>3, <2>5
  <2> QED
    BY <2>2, <2>4, <2>5
<1> QED
  BY <1>1, <1>2, <1>3, FS_EmptySet DEF Served

\* wake_locked serves no more than the room, and less only when it has emptied
\* the queue.
LEMMA WokenStops ==
  ASSUME NEW g \in Gates, NEW gt \in Unwoken
  PROVE  /\ Woken(g, gt) \in 0..Len(gt.waiters)
         /\ \/ Served(g, gt, Woken(g, gt)) = Room(gt)
            \/ /\ Woken(g, gt) = Len(gt.waiters)
               /\ Served(g, gt, Woken(g, gt)) < Room(gt)
<1> DEFINE n == Len(gt.waiters)
           S(k) == Served(g, gt, k)
           r == Room(gt)
           Stop(k) == /\ S(k) = r \/ (k = n /\ S(k) < r)
                      /\ \A j \in 0..(k - 1) : S(j) < r
<1>1. n \in Nat
  BY DEF Unwoken
<1>2. r \in Nat
  BY DEF Unwoken, Room
<1>3. /\ S(0) = 0
      /\ \A k \in 0..n : S(k) \in Nat
      /\ \A k \in 1..n : S(k) <= S(k - 1) + 1
  BY ServedGrows
<1>4. \E k \in 0..n : Stop(k)
  <2> DEFINE T == {k \in 0..n : S(k) >= r}
  <2>1. CASE T = {}
    <3> HIDE DEF n, S, r
    <3>1. \A k \in 0..n : S(k) < r
      BY <2>1, <1>2, <1>3
    <3>2. n \in 0..n /\ \A j \in 0..(n - 1) : j \in 0..n
      BY <1>1
    <3> QED
      BY <3>1, <3>2
  <2>2. CASE T # {}
    <3>0. T \subseteq 0..n /\ T \subseteq Nat
      OBVIOUS
    <3> HIDE DEF n, S, r
    <3>1. PICK k \in T : \A y \in T : k <= y
      <4> HIDE DEF T
      <4> QED
        BY <2>2, <3>0, LeastNat
    <3>2. \A j \in 0..(k - 1) : S(j) < r
      <4>1. SUFFICES ASSUME NEW j \in 0..(k - 1) PROVE S(j) < r
        OBVIOUS
      <4>2. j \in 0..n /\ ~(k <= j)
        BY <1>1
      <4>3. j \notin T
        BY <4>2, <3>1
      <4> QED
        BY <4>2, <4>3, <1>2, <1>3
    <3>3. S(k) = r
      <4>1. CASE k = 0
        BY <4>1, <1>2, <1>3
      <4>2. CASE k # 0
        <5>1. k \in 1..n /\ k - 1 \in 0..(k - 1) /\ k - 1 \in 0..n
          BY <4>2, <1>1
        <5> QED
          BY <5>1, <3>2, <1>2, <1>3
      <4> QED
        BY <4>1, <4>2
    <3> QED
      BY <3>2, <3>3
  <2> QED
    BY <2>1, <2>2
<1>5. Woken(g, gt) = CHOOSE k \in 0..n : Stop(k)
  BY DEF Woken
<1> HIDE DEF Stop, n
<1>6. Woken(g, gt) \in 0..n /\ Stop(Woken(g, gt))
  BY <1>4, <1>5
<1> QED
  BY <1>6 DEF Stop, n

\* As many children are lucky as queue entries were served: a child is queued
\* once.
LEMMA LuckyCount ==
  ASSUME NEW g \in Gates, NEW gt \in Unwoken,
         \A i, j \in DOMAIN gt.waiters : gt.waiters[i] = gt.waiters[j] => i = j
  PROVE  /\ Lucky(g, gt) \subseteq Children
         /\ Cardinality(Lucky(g, gt)) = Served(g, gt, Woken(g, gt))
<1> DEFINE W == WaitingIn(gt.waiters, g, Woken(g, gt))
           f == [i \in W |-> gt.waiters[i]]
<1>1. Woken(g, gt) \in 0..Len(gt.waiters)
  BY WokenStops
<1>2. W \subseteq DOMAIN gt.waiters /\ gt.waiters \in Seq(Children)
  BY <1>1 DEF WaitingIn, Unwoken
<1>3. Lucky(g, gt) \subseteq Children
  BY <1>2 DEF Lucky
<1>4. f \in Surjection(W, Lucky(g, gt))
  BY DEF Surjection, Lucky
<1>5. f \in Injection(W, Lucky(g, gt))
  BY <1>2 DEF Injection, IsInjective, Lucky
<1>6. IsFiniteSet(W)
  BY <1>1, ServedGrows
<1> HIDE DEF W, f
<1>7. Cardinality(Lucky(g, gt)) = Cardinality(W)
  BY <1>4, <1>5, <1>6, FS_Surjection
<1> QED
  BY <1>3, <1>7 DEF W, Served

\* What the callers of wake_locked (release, set_capacity) see to: gt counts the
\* permits of kids, and what else changes is a child that waits at no gate.
WakeReady(g, gt, kids) ==
    /\ gt \in Gate
    /\ gt.waiters = gate[g].waiters
    /\ kids \in [Children -> Child]
    /\ \A c \in Children :
          /\ PermitsFit(c, kids[c])
          /\ \A h \in Gates :
                Waits(c, h) <=> kids[c].pc = "wait" /\ kids[c].at = h /\ kids[c].granted = None
          /\ child[c].pc = "end" => kids[c].pc = "end"
    /\ gt.active = Cardinality({c \in Children : Permit(kids[c], g)})
    /\ \A h \in Gates \ {g}, c \in Children :
          Permit(kids[c], h) <=> HasPermit(c, h)

\* wake_locked serves waiters of its gate only, each from the queue's front, and
\* leaves the others where they are.
LEMMA WokeServes ==
  ASSUME LaunchOK, SlotsCounted, NEW g \in Gates, NEW gt, NEW kids,
         WakeReady(g, gt, kids), Woke(g, gt, kids)
  PROVE  /\ gt \in Unwoken
         /\ Lucky(g, gt) \subseteq Children
         /\ \A c \in Lucky(g, gt) :
               /\ Waits(c, g)
               /\ child'[c] = [kids[c] EXCEPT !.granted = g]
               /\ \E i \in 1..Woken(g, gt) : i \in DOMAIN gt.waiters /\ gt.waiters[i] = c
         /\ \A c \in Children \ Lucky(g, gt) : child'[c] = kids[c]
         /\ \A c \in Children \ Lucky(g, gt) : Waits(c, g) =>
               \E j \in DOMAIN gt.waiters : j > Woken(g, gt) /\ gt.waiters[j] = c
<1> DEFINE n == Woken(g, gt)
           q == gt.waiters
<1>1. gt \in Unwoken
  BY WidestConcurrency, SomeChildren DEF WakeReady, Gate, Unwoken
<1>2. QueueHonest(g) /\ q = gate[g].waiters
  BY DEF SlotsCounted, WakeReady
<1>3. /\ \A i, j \in DOMAIN q : q[i] = q[j] => i = j
      /\ \A c \in Children : Waits(c, g) => \E i \in DOMAIN q : q[i] = c
  BY <1>2 DEF QueueHonest
<1>4. n \in 0..Len(q)
  BY <1>1, WokenStops
<1>5. Lucky(g, gt) \subseteq Children
  BY <1>1, <1>3, LuckyCount
<1>6. q \in Seq(Children) /\ DOMAIN q = 1..Len(q) /\ Len(q) \in Nat
  BY <1>1 DEF Unwoken
<1>7. ASSUME NEW c \in Lucky(g, gt)
      PROVE  /\ Waits(c, g)
             /\ \E i \in 1..n : i \in DOMAIN q /\ q[i] = c
  BY <1>4, <1>6 DEF Lucky, WaitingIn
<1>8. ASSUME NEW c \in Children \ Lucky(g, gt), Waits(c, g)
      PROVE  \E j \in DOMAIN q : j > n /\ q[j] = c
  <2>1. PICK j \in DOMAIN q : q[j] = c
    BY <1>3, <1>8
  <2>2. ~(j \in 1..n)
    BY <2>1, <1>8 DEF Lucky, WaitingIn
  <2> QED
    BY <2>1, <2>2, <1>4, <1>6
<1>9. \A c \in Children : child'[c] = IF c \in Lucky(g, gt)
                                     THEN [kids[c] EXCEPT !.granted = g] ELSE kids[c]
  BY DEF Woke
<1> QED
  BY <1>1, <1>5, <1>7, <1>8, <1>9

\* After wake_locked the gates and the children are well formed, every permit
\* is counted and no waiter is left with a free slot.
LEMMA WokeKeeps ==
  ASSUME LaunchOK, SlotsCounted, NEW g \in Gates, NEW gt, NEW kids,
         WakeReady(g, gt, kids), Woke(g, gt, kids)
  PROVE  /\ gate' \in [Gates -> Gate]
         /\ gate'[g].capacity = gt.capacity
         /\ \A h \in Gates \ {g} : gate'[h] = gate[h]
         /\ child' \in [Children -> Child]
         /\ \A c \in Children : PermitsFit(c, child'[c])
         /\ \A c \in Children : child'[c].calling = kids[c].calling
         /\ SlotsCounted'
<1> DEFINE n == Woken(g, gt)
           q == gt.waiters
           L == Lucky(g, gt)
           P(h) == {c \in Children : Permit(kids[c], h)}
<1>1. /\ gt \in Unwoken
      /\ L \subseteq Children
      /\ \A c \in L :
            /\ Waits(c, g)
            /\ child'[c] = [kids[c] EXCEPT !.granted = g]
            /\ \E i \in 1..n : i \in DOMAIN q /\ q[i] = c
      /\ \A c \in Children \ L : child'[c] = kids[c]
      /\ \A c \in Children \ L : Waits(c, g) => \E j \in DOMAIN q : j > n /\ q[j] = c
  BY WokeServes
<1>2. /\ kids \in [Children -> Child]
      /\ q = gate[g].waiters
      /\ gt \in Gate
      /\ gt.active = Cardinality(P(g))
      /\ gate \in [Gates -> Gate]
  BY DEF WakeReady, LaunchOK
<1>3. /\ \A i, j \in DOMAIN q : q[i] = q[j] => i = j
      /\ \A i \in DOMAIN q : Waits(q[i], g) \/ child[q[i]].pc = "end"
  BY <1>2, ZenonT(30) DEF SlotsCounted, QueueHonest
<1>4. n \in 0..Len(q) /\ q \in Seq(Children) /\ DOMAIN q = 1..Len(q) /\ Len(q) \in Nat
  BY <1>1, WokenStops DEF Unwoken
<1>5. ASSUME NEW c \in L
      PROVE  /\ kids[c].pc = "wait" /\ kids[c].at = g /\ kids[c].granted = None
             /\ g \notin kids[c].held
             /\ kids[c] \in Child
  <2>1. Waits(c, g) /\ c \in Children
    BY <1>1
  <2>2. /\ kids[c].pc = "wait" /\ kids[c].at = g /\ kids[c].granted = None
        /\ kids[c] \in Child
        /\ PermitsFit(c, kids[c])
    BY <2>1, <1>2 DEF WakeReady
  <2> QED
    BY <2>2, <2>1, GovernorAssumption DEF PermitsFit, OwnPermit, Gates
<1> HIDE DEF L
<1>15. ASSUME NEW c \in L
       PROVE  /\ child'[c] \in Child
              /\ child'[c].pc = "wait" /\ child'[c].at = g /\ child'[c].granted = g
              /\ child'[c].held = kids[c].held /\ child'[c].calling = kids[c].calling
  <2>1. child'[c] = [kids[c] EXCEPT !.granted = g]
    BY <1>1
  <2>2. kids[c] \in Child /\ kids[c].pc = "wait" /\ kids[c].at = g
    BY <1>5
  <2>3. ASSUME NEW r \in Child, NEW s, s = [r EXCEPT !.granted = g]
        PROVE  /\ s \in Child
               /\ s.pc = r.pc /\ s.at = r.at /\ s.granted = g
               /\ s.held = r.held /\ s.calling = r.calling
    BY <2>3 DEF Child
  <2> QED
    BY <2>1, <2>2, <2>3
<1>6. child' \in [Children -> Child]
  <2>1. \A c \in Children : child'[c] \in Child
    <3>1. SUFFICES ASSUME NEW c \in Children PROVE child'[c] \in Child
      OBVIOUS
    <3>2. CASE c \in L
      BY <3>2, <1>15
    <3>3. CASE c \notin L
      <4>1. child'[c] = kids[c]
        BY <3>3, <1>1
      <4> QED
        BY <4>1, <1>2
    <3> QED
      BY <3>2, <3>3
  <2>2. child' = [c \in Children |-> child'[c]]
    BY DEF Woke
  <2> QED
    BY <2>1, <2>2
<1>7. ASSUME NEW c \in Children
      PROVE  PermitsFit(c, child'[c]) /\ child'[c].calling = kids[c].calling
  <2>1. PermitsFit(c, kids[c])
    BY DEF WakeReady
  <2>2. CASE c \in L
    BY <1>15, <2>1, <2>2, <1>5 DEF PermitsFit
  <2>3. CASE c \notin L
    BY <1>1, <2>1, <2>3
  <2> QED
    BY <2>2, <2>3
<1>8. /\ L \cap P(g) = {}
      /\ {c \in Children : Permit(child'[c], g)} = P(g) \cup L
      /\ \A h \in Gates \ {g}, c \in Children : Permit(child'[c], h) <=> Permit(kids[c], h)
  <2>1. None \notin Gates
    BY GovernorAssumption DEF Gates
  <2>2. L \cap P(g) = {}
    BY <1>5, <2>1 DEF Permit
  <2>3. ASSUME NEW c \in L, NEW h \in Gates
        PROVE  Permit(child'[c], h) <=> (h = g \/ Permit(kids[c], h))
    BY <1>15, <1>5, <2>1 DEF Permit
  <2>4. ASSUME NEW c \in Children \ L, NEW h \in Gates
        PROVE  Permit(child'[c], h) <=> Permit(kids[c], h)
    BY <1>1
  <2> QED
    BY <2>2, <2>3, <2>4, <1>1
<1>9. /\ IsFiniteSet(L) /\ Cardinality(L) \in Nat
      /\ Cardinality(P(g) \cup L) = gt.active + Cardinality(L)
      /\ Cardinality(P(g) \cup L) \in 0..Cardinality(Children)
  <2>1. /\ IsFiniteSet(L) /\ Cardinality(L) \in Nat
        /\ IsFiniteSet(P(g)) /\ Cardinality(P(g)) \in Nat
        /\ Cardinality(P(g) \cup L) \in 0..Cardinality(Children)
    BY <1>1, SomeChildren
  <2>2. Cardinality(P(g) \cup L) = Cardinality(P(g)) + Cardinality(L) - Cardinality(P(g) \cap L)
    BY <2>1, FS_Union
  <2>3. P(g) \cap L = {}
    BY <1>8
  <2>4. Cardinality(P(g) \cap L) = 0
    BY <2>3, FS_EmptySet
  <2> HIDE DEF P, L
  <2> QED
    BY <2>1, <2>2, <2>4, <1>2
<1>10. /\ gate'[g] = [gt EXCEPT !.active = @ + Cardinality(L), !.waiters = SubSeq(@, n + 1, Len(@))]
       /\ gate' = [h \in Gates |-> gate'[h]]
       /\ \A h \in Gates \ {g} : gate'[h] = gate[h]
  BY <1>2 DEF Woke, L
<1> DEFINE rest == SubSeq(q, n + 1, Len(q))
<1>11. /\ rest \in Seq(Children)
       /\ Len(rest) = Len(q) - n
       /\ \A i \in 1..(Len(q) - n) : rest[i] = q[n + i]
  <2>1. \A i \in (n + 1)..Len(q) : q[i] \in Children
    BY <1>4
  <2>2. /\ rest \in Seq(Children)
        /\ Len(rest) = IF n + 1 <= Len(q) THEN Len(q) - (n + 1) + 1 ELSE 0
        /\ \A i \in 1..(Len(q) - (n + 1) + 1) : rest[i] = q[(n + 1) + i - 1]
    BY <2>1, <1>4, SubSeqProperties
  <2> HIDE DEF n, q, rest
  <2>3. Len(q) - (n + 1) + 1 = Len(q) - n
    BY <1>4
  <2>4. Len(rest) = Len(q) - n
    <3>1. \A a \in Nat : \A b \in 0..a :
             (IF b + 1 <= a THEN a - (b + 1) + 1 ELSE 0) = a - b
      OBVIOUS
    <3> QED
      BY <2>2, <1>4, <3>1
  <2>5. ASSUME NEW i \in 1..(Len(q) - n)
        PROVE  rest[i] = q[n + i]
    <3>1. (n + 1) + i - 1 = n + i
      BY <1>4
    <3> QED
      BY <2>2, <2>3, <3>1
  <2> QED
    BY <2>2, <2>4, <2>5
<1>12. /\ gate'[g].capacity = gt.capacity
       /\ gate'[g].active = gt.active + Cardinality(L)
       /\ gate'[g].waiters = rest
       /\ gate'[g] \in Gate
  <2>1. gate'[g] = [gt EXCEPT !.active = gt.active + Cardinality(L), !.waiters = rest]
    BY <1>10
  <2> HIDE DEF rest
  <2>2. ASSUME NEW a \in 0..Cardinality(Children), NEW r,
               r = [gt EXCEPT !.active = a, !.waiters = rest]
        PROVE  r \in Gate /\ r.capacity = gt.capacity /\ r.active = a /\ r.waiters = rest
    BY <2>2, <1>2, <1>11 DEF Gate
  <2>3. gt.active + Cardinality(L) \in 0..Cardinality(Children)
    BY <1>9
  <2> QED
    BY <2>1, <2>2, <2>3, ZenonT(30)
<1>13. gate' \in [Gates -> Gate]
  <2>1. \A h \in Gates : gate'[h] \in Gate
    BY <1>2, <1>10, <1>12
  <2> QED
    BY <2>1, <1>10
<1>14. SlotsCounted'
  <2>1. gate'[g].active = Cardinality({c \in Children : Permit(child'[c], g)})
    BY <1>8, <1>9, <1>12
  <2>2. gate'[g].active < gate'[g].capacity => gate'[g].waiters = <<>>
    <3>1. Cardinality(L) = Served(g, gt, n)
      BY <1>1, <1>3, LuckyCount DEF L
    <3>2. Served(g, gt, n) = Room(gt) \/ n = Len(q)
      BY <1>1, WokenStops
    <3>3. n = Len(q) => rest = <<>>
      BY <1>4, SubSeqEmpty
    <3> HIDE DEF n, q, rest
    <3>4. Cardinality(L) = Room(gt) => ~(gate'[g].active < gate'[g].capacity)
      BY <1>12, <1>1 DEF Room, Unwoken
    <3> QED
      BY <3>1, <3>2, <3>3, <3>4, <1>12
  <2>5. ASSUME NEW c \in Children, NEW h \in Gates
        PROVE  Waits(c, h)' <=> Waits(c, h) /\ ~(c \in L)
    <3>1. Waits(c, h) <=> kids[c].pc = "wait" /\ kids[c].at = h /\ kids[c].granted = None
      BY DEF WakeReady
    <3>2. CASE c \in L
      BY <3>2, <1>15, GovernorAssumption DEF Waits, Gates
    <3>3. CASE c \notin L
      BY <3>1, <3>3, <1>1 DEF Waits
    <3> QED
      BY <3>2, <3>3
  <2>6. ASSUME NEW c \in Children, child[c].pc = "end"
        PROVE  child'[c].pc = "end"
    <3>1. kids[c].pc = "end"
      BY <2>6 DEF WakeReady
    <3> QED
      BY <3>1, <1>1, <1>5
  <2>3. QueueHonest(g)'
    <3> HIDE DEF rest
    <3>0. DOMAIN rest = 1..(Len(q) - n)
      BY <1>11
    <3>1. ASSUME NEW i \in DOMAIN rest
          PROVE  n + i \in DOMAIN q /\ n + i > n /\ rest[i] = q[n + i] /\ rest[i] \in Children
      BY <1>4, <1>11, <3>0
    <3>2. ASSUME NEW i \in DOMAIN rest, NEW j \in DOMAIN rest, rest[i] = rest[j]
          PROVE  i = j
      <4>1. n + i = n + j
        BY <3>1, <3>2, <1>3
      <4> QED
        BY <4>1, <1>4, <3>0
    <3>3. ASSUME NEW i \in DOMAIN rest, NEW c \in Children, c = rest[i]
          PROVE  Waits(c, g)' \/ child'[c].pc = "end"
      <4>1. rest[i] \notin L
        <5>1. SUFFICES ASSUME rest[i] \in L PROVE FALSE
          OBVIOUS
        <5>2. PICK k \in 1..n : k \in DOMAIN q /\ q[k] = rest[i]
          BY <5>1, <1>1
        <5>3. k = n + i
          BY <5>2, <3>1, <1>3
        <5> QED
          BY <5>3, <3>1, <1>4
      <4>2. Waits(rest[i], g) \/ child[rest[i]].pc = "end"
        BY <3>1, <1>3
      <4> QED
        BY <4>1, <4>2, <2>5, <2>6, <3>3
    <3>4. ASSUME NEW c \in Children, Waits(c, g)'
          PROVE  \E i \in DOMAIN rest : rest[i] = c
      <4>1. Waits(c, g) /\ c \notin L
        BY <3>4, <2>5
      <4>2. PICK j \in DOMAIN q : j > n /\ q[j] = c
        BY <4>1, <1>1
      <4>3. j - n \in DOMAIN rest /\ n + (j - n) = j
        BY <4>2, <1>4, <3>0
      <4> QED
        BY <4>2, <4>3, <3>1
    <3>5. \A i \in DOMAIN rest :
             Waits(gate[g].waiters[i], g)' \/ child'[gate'[g].waiters[i]].pc = "end"
      BY <3>1, <3>3, <1>12 DEF Waits
    <3> QED
      BY <3>2, <3>4, <3>5, <1>12 DEF QueueHonest
  <2>4. ASSUME NEW h \in Gates \ {g}
        PROVE  /\ gate'[h].active = Cardinality({c \in Children : Permit(child'[c], h)})
               /\ gate'[h].active < gate'[h].capacity => gate'[h].waiters = <<>>
               /\ QueueHonest(h)'
    <3>1. gate'[h] = gate[h] /\ gate[h].waiters \in Seq(Children)
      BY <1>2, <1>10 DEF Gate
    <3>2. {c \in Children : Permit(child'[c], h)} = {c \in Children : HasPermit(c, h)}
      BY <1>8 DEF WakeReady
    <3>3. /\ gate[h].active = Cardinality({c \in Children : HasPermit(c, h)})
          /\ gate[h].active < gate[h].capacity => gate[h].waiters = <<>>
          /\ QueueHonest(h)
      BY DEF SlotsCounted, HasSlot
    <3>4. \A c \in Children : Waits(c, h)' <=> Waits(c, h)
      <4>1. \A c \in L : ~Waits(c, h)
        BY <1>1 DEF Waits
      <4> QED
        BY <4>1, <2>5
    <3>5. QueueHonest(h)'
      <4>1. \A i \in DOMAIN gate[h].waiters : gate[h].waiters[i] \in Children
        BY <3>1
      <4> QED
        BY <3>1, <3>3, <3>4, <4>1, <2>6 DEF QueueHonest
    <3> QED
      BY <3>1, <3>2, <3>3, <3>5
  <2> QED
    BY <2>1, <2>2, <2>3, <2>4 DEF SlotsCounted, HasSlot, HasPermit
<1> QED
  BY <1>6, <1>7, <1>10, <1>12, <1>13, <1>14

-----------------------------------------------------------------------------
(* The steps of wake_locked's callers. *)

\* No child of kids has a permit it has not now.
GainsNothing(kids) ==
    \A c \in Children, h \in Gates : Permit(kids[c], h) => HasPermit(c, h)

\* wake_locked gives permits of its own gate only, none when the capacity is
\* nought, and to children queued before all that still wait.
LEMMA WokeAdmits ==
  ASSUME LaunchOK, SlotsCounted, NEW g \in Gates, NEW gt, NEW kids,
         WakeReady(g, gt, kids), GainsNothing(kids), Woke(g, gt, kids)
  PROVE  /\ InOrder
         /\ \A d \in Children, h \in Gates :
               HasPermit(d, h)' /\ ~HasPermit(d, h) => h = g /\ gt.capacity # 0
<1> DEFINE L == Lucky(g, gt)
           q == gt.waiters
<1>1. /\ gt \in Unwoken
      /\ L \subseteq Children
      /\ \A c \in L :
            /\ Waits(c, g)
            /\ child'[c] = [kids[c] EXCEPT !.granted = g]
            /\ \E i \in 1..Woken(g, gt) : i \in DOMAIN q /\ q[i] = c
      /\ \A c \in Children \ L : child'[c] = kids[c]
      /\ \A c \in Children \ L : Waits(c, g) =>
            \E j \in DOMAIN q : j > Woken(g, gt) /\ q[j] = c
  BY WokeServes
<1>2. q = gate[g].waiters /\ kids \in [Children -> Child] /\ None \notin Gates
  BY GovernorAssumption DEF WakeReady, Gates
<1>3. Woken(g, gt) \in Nat /\ \A i \in DOMAIN q : i \in Nat
  BY <1>1, WokenStops DEF Unwoken
<1>4. gt.capacity = 0 => L = {}
  <2>1. QueueHonest(g)
    BY DEF SlotsCounted
  <2>2. Cardinality(L) = Served(g, gt, Woken(g, gt))
    BY <1>1, <1>2, <2>1, LuckyCount DEF QueueHonest
  <2>3. gt.capacity = 0 => Room(gt) = 0
    BY <1>1 DEF Room, Unwoken
  <2>4. Served(g, gt, Woken(g, gt)) <= Room(gt)
    BY <1>1, WokenStops, ServedGrows DEF Room, Unwoken
  <2>5. Served(g, gt, Woken(g, gt)) \in Nat
    BY <1>1, WokenStops, ServedGrows
  <2>6. gt.capacity = 0 => Cardinality(L) = 0
    BY <2>2, <2>3, <2>4, <2>5
  <2>7. IsFiniteSet(L)
    BY <1>1, SomeChildren
  <2> QED
    BY <2>6, <2>7, FS_EmptySet
<1> HIDE DEF L, q
<1>5. ASSUME NEW d \in Children, NEW h \in Gates, HasPermit(d, h)', ~HasPermit(d, h)
      PROVE  h = g /\ d \in L
  <2>1. ~Permit(kids[d], h)
    BY <1>5 DEF GainsNothing
  <2>2. d \in L
    BY <1>1, <1>5, <2>1 DEF HasPermit
  <2>3. child'[d].held = kids[d].held /\ child'[d].granted = g
    <3>1. child'[d] = [kids[d] EXCEPT !.granted = g] /\ kids[d] \in Child
      BY <1>1, <1>2, <2>2
    <3> QED
      BY <3>1 DEF Child
  <2> QED
    BY <1>5, <2>1, <2>2, <2>3 DEF HasPermit, Permit
<1>6. ASSUME NEW c \in Children, Waits(c, g), Waits(c, g)'
      PROVE  c \notin L
  <2>1. SUFFICES ASSUME c \in L PROVE FALSE
    OBVIOUS
  <2>2. child'[c] = [kids[c] EXCEPT !.granted = g] /\ kids[c] \in Child
    BY <1>1, <1>2, <2>1
  <2>3. child'[c].granted = g
    BY <2>2 DEF Child
  <2> QED
    BY <2>3, <1>6, <1>2 DEF Waits
<1>7. InOrder
  <2>1. SUFFICES ASSUME NEW h \in Gates, NEW c \in Children, NEW d \in Children,
                        Waits(c, h), Waits(c, h)', ~HasPermit(d, h), HasPermit(d, h)'
                 PROVE  \E i, j \in DOMAIN gate[h].waiters :
                           i < j /\ gate[h].waiters[i] = d /\ gate[h].waiters[j] = c
    BY DEF InOrder
  <2>2. h = g /\ d \in L
    BY <2>1, <1>5
  <2>3. c \notin L
    BY <2>1, <2>2, <1>6
  <2>4. PICK i \in 1..Woken(g, gt) : i \in DOMAIN q /\ q[i] = d
    BY <2>2, <1>1
  <2>5. PICK j \in DOMAIN q : j > Woken(g, gt) /\ q[j] = c
    BY <2>1, <2>2, <2>3, <1>1
  <2>6. i < j
    BY <2>4, <2>5, <1>3
  <2> QED
    BY <2>2, <2>4, <2>5, <2>6, <1>2
<1> QED
  BY <1>4, <1>5, <1>7

\* What wake_locked keeps and gives, together.
LEMMA WokeStep ==
  ASSUME LaunchOK, SlotsCounted, NEW g \in Gates, NEW gt, NEW kids,
         WakeReady(g, gt, kids), GainsNothing(kids), Woke(g, gt, kids)
  PROVE  /\ LaunchOK' /\ SlotsCounted' /\ InOrder
         /\ gate'[g].capacity = gt.capacity
         /\ \A h \in Gates \ {g} : gate'[h] = gate[h]
         /\ \A c \in Children : child'[c].calling = kids[c].calling
         /\ \A d \in Children, h \in Gates :
               HasPermit(d, h)' /\ ~HasPermit(d, h) => h = g /\ gt.capacity # 0
BY WokeKeeps, WokeAdmits DEF LaunchOK

\* A release finds the permit counted, so the count it leaves is right.
LEMMA ReleaseReady ==
  ASSUME LaunchOK, SlotsCounted, NEW g \in Gates, NEW c \in Children, NEW r \in Child,
         HasPermit(c, g), PermitsFit(c, r), r.pc = "end",
         \A h \in Gates : ~Waits(c, h),
         \A h \in Gates : Permit(r, h) <=> h # g /\ HasPermit(c, h),
         NEW kids, kids = [child EXCEPT ![c] = r],
         NEW gt, gt = [gate[g] EXCEPT !.active = IF @ > 0 THEN @ - 1 ELSE 0]
  PROVE  WakeReady(g, gt, kids) /\ GainsNothing(kids) /\ gt.capacity = gate[g].capacity
<1> DEFINE P == {d \in Children : HasPermit(d, g)}
<1>1. /\ child \in [Children -> Child] /\ gate[g] \in Gate
      /\ \A d \in Children : PermitsFit(d, child[d])
  BY DEF LaunchOK
<1>2. kids[c] = r /\ \A d \in Children \ {c} : kids[d] = child[d]
  BY <1>1
<1>3. kids \in [Children -> Child]
  BY <1>1
<1>4. ASSUME NEW d \in Children
      PROVE  /\ PermitsFit(d, kids[d])
             /\ \A h \in Gates :
                   Waits(d, h) <=> kids[d].pc = "wait" /\ kids[d].at = h /\ kids[d].granted = None
             /\ child[d].pc = "end" => kids[d].pc = "end"
  <2>1. CASE d = c
    BY <2>1, <1>2
  <2>2. CASE d # c
    BY <2>2, <1>1, <1>2 DEF Waits
  <2> QED
    BY <2>1, <2>2
<1>5. ASSUME NEW d \in Children, NEW h \in Gates
      PROVE  Permit(kids[d], h) <=> HasPermit(d, h) /\ ~(d = c /\ h = g)
  <2>1. CASE d = c
    BY <2>1, <1>2
  <2>2. CASE d # c
    BY <2>2, <1>2 DEF HasPermit
  <2> QED
    BY <2>1, <2>2
<1>6. {d \in Children : Permit(kids[d], g)} = P \ {c} /\ c \in P
  BY <1>5
<1>7. gate[g].active = Cardinality(P)
  BY DEF SlotsCounted
<1>8. IsFiniteSet(P) /\ Cardinality(P) \in 0..Cardinality(Children)
      /\ Cardinality(Children) \in Nat
  BY SomeChildren
<1>9. Cardinality(P \ {c}) = Cardinality(P) - 1
  BY <1>6, <1>8, FS_RemoveElement
<1>10. Cardinality(P \ {c}) \in 0..Cardinality(Children)
  BY SomeChildren
<1> HIDE DEF P
<1>11. /\ gt.active = Cardinality(P \ {c})
       /\ gt \in Gate /\ gt.waiters = gate[g].waiters /\ gt.capacity = gate[g].capacity
  <2>1. (IF gate[g].active > 0 THEN gate[g].active - 1 ELSE 0) = Cardinality(P \ {c})
    BY <1>7, <1>8, <1>9, <1>10
  <2>2. gt = [gate[g] EXCEPT !.active = Cardinality(P \ {c})]
    BY <2>1
  <2> QED
    BY <2>2, <1>1, <1>10 DEF Gate
<1> QED
  BY <1>3, <1>4, <1>5, <1>6, <1>11 DEF WakeReady, GainsNothing

\* A change of capacity touches no permit and no waiter; of the children at most
\* the end of a model call is new.
LEMMA CapacityReady ==
  ASSUME LaunchOK, SlotsCounted, NEW g \in Gates, NEW n \in 0..MaxConcurrency,
         NEW kids \in [Children -> Child],
         \A c \in Children :
            /\ kids[c].pc = child[c].pc /\ kids[c].at = child[c].at
            /\ kids[c].held = child[c].held /\ kids[c].granted = child[c].granted
            /\ kids[c].calling => child[c].calling,
         NEW gt, gt = [gate[g] EXCEPT !.capacity = n]
  PROVE  WakeReady(g, gt, kids) /\ GainsNothing(kids) /\ gt.capacity = n
<1>1. gate[g] \in Gate /\ \A d \in Children : PermitsFit(d, child[d])
  BY DEF LaunchOK
<1>2. gt \in Gate /\ gt.capacity = n /\ gt.active = gate[g].active
      /\ gt.waiters = gate[g].waiters
  BY <1>1 DEF Gate
<1>3. \A d \in Children : PermitsFit(d, kids[d])
  BY <1>1 DEF PermitsFit
<1>4. \A d \in Children, h \in Gates : Permit(kids[d], h) <=> HasPermit(d, h)
  BY DEF Permit, HasPermit
<1>5. gt.active = Cardinality({d \in Children : Permit(kids[d], g)})
  <2>1. {d \in Children : Permit(kids[d], g)} = {d \in Children : HasPermit(d, g)}
    BY <1>4
  <2> QED
    BY <2>1, <1>2 DEF SlotsCounted
<1>6. \A d \in Children, h \in Gates :
        Waits(d, h) <=> kids[d].pc = "wait" /\ kids[d].at = h /\ kids[d].granted = None
  BY DEF Waits
<1> QED
  BY <1>2, <1>3, <1>4, <1>5, <1>6 DEF WakeReady, GainsNothing

\* A model call that ends changes nothing else of the child.
LEMMA AnsweredKeeps ==
  ASSUME LaunchOK, NEW c \in Children
  PROVE  /\ Answered(c) \in [Children -> Child]
         /\ \A d \in Children :
               /\ Answered(c)[d].pc = child[d].pc /\ Answered(c)[d].at = child[d].at
               /\ Answered(c)[d].held = child[d].held
               /\ Answered(c)[d].granted = child[d].granted
               /\ Answered(c)[d].calling <=> d # c /\ child[d].calling
<1>1. child \in [Children -> Child]
  BY DEF LaunchOK
<1> QED
  BY <1>1 DEF Answered, Child

-----------------------------------------------------------------------------
(* The steps of one child. *)

Waiting(r, h) == r.pc = "wait" /\ r.at = h /\ r.granted = None

\* One child becomes r: the others keep permits and places in the queues.
LEMMA OneChild ==
  ASSUME LaunchOK, NEW c \in Children, NEW r \in Child, PermitsFit(c, r),
         child' = [child EXCEPT ![c] = r]
  PROVE  /\ child' \in [Children -> Child]
         /\ \A d \in Children : PermitsFit(d, child'[d])
         /\ child'[c] = r
         /\ \A d \in Children \ {c} :
               /\ child'[d] = child[d]
               /\ \A h \in Gates : Waits(d, h)' <=> Waits(d, h)
               /\ \A h \in Gates : HasPermit(d, h)' <=> HasPermit(d, h)
         /\ \A h \in Gates : Waits(c, h)' <=> Waiting(r, h)
         /\ \A h \in Gates : HasPermit(c, h)' <=> Permit(r, h)
<1>1. child \in [Children -> Child] /\ \A d \in Children : PermitsFit(d, child[d])
  BY DEF LaunchOK
<1>2. child'[c] = r /\ \A d \in Children \ {c} : child'[d] = child[d]
  BY <1>1
<1>3. child' \in [Children -> Child]
  BY <1>1
<1> QED
  BY <1>1, <1>2, <1>3 DEF Waits, Waiting, HasPermit

\* A queue stays honest when nobody joins it and whoever leaves it is done.
LEMMA QueueKept ==
  ASSUME LaunchOK, SlotsCounted, NEW h \in Gates,
         gate'[h].waiters = gate[h].waiters,
         \A d \in Children :
            /\ Waits(d, h)' => Waits(d, h)
            /\ Waits(d, h) => Waits(d, h)' \/ child'[d].pc = "end"
            /\ child[d].pc = "end" => child'[d].pc = "end"
  PROVE  QueueHonest(h)'
<1> DEFINE q == gate[h].waiters
<1>1. QueueHonest(h) /\ q \in Seq(Children)
  BY DEF SlotsCounted, LaunchOK, Gate
<1>2. \A i \in DOMAIN q : q[i] \in Children
  BY <1>1
<1>3. ASSUME NEW i \in DOMAIN q, NEW c \in Children, c = q[i]
      PROVE  Waits(c, h)' \/ child'[c].pc = "end"
  BY <1>1, <1>3 DEF QueueHonest
<1>4. \A i \in DOMAIN q :
        Waits(gate[h].waiters[i], h)' \/ child'[gate'[h].waiters[i]].pc = "end"
  BY <1>2, <1>3 DEF Waits
<1>5. \A c \in Children : Waits(c, h)' => \E i \in DOMAIN q : q[i] = c
  BY <1>1 DEF QueueHonest
<1> QED
  BY <1>1, <1>4, <1>5 DEF QueueHonest

\* A step of one child at no gate's counter: the permits it has stay what they
\* are, in the channel or in its hands.
LEMMA ChildStep ==
  ASSUME LaunchOK, SlotsCounted, NEW c \in Children, NEW r \in Child, PermitsFit(c, r),
         child' = [child EXCEPT ![c] = r], gate' = gate,
         \A h \in Gates : Permit(r, h) <=> HasPermit(c, h),
         \A h \in Gates : Waiting(r, h) => Waits(c, h),
         \A h \in Gates : Waits(c, h) => Waiting(r, h) \/ r.pc = "end",
         child[c].pc = "end" => r.pc = "end"
  PROVE  /\ LaunchOK' /\ SlotsCounted' /\ InOrder
         /\ \A d \in Children, h \in Gates : HasPermit(d, h)' <=> HasPermit(d, h)
<1>1. \A d \in Children, h \in Gates : HasPermit(d, h)' <=> HasPermit(d, h)
  BY OneChild
<1>2. LaunchOK'
  BY OneChild DEF LaunchOK
<1>3. ASSUME NEW h \in Gates
      PROVE  QueueHonest(h)'
  <2>1. \A d \in Children :
          /\ Waits(d, h)' => Waits(d, h)
          /\ Waits(d, h) => Waits(d, h)' \/ child'[d].pc = "end"
          /\ child[d].pc = "end" => child'[d].pc = "end"
    BY OneChild
  <2> QED
    BY <2>1, QueueKept
<1>4. ASSUME NEW h \in Gates
      PROVE  /\ (gate[h].active)' = Cardinality({d \in Children : HasPermit(d, h)'})
             /\ HasSlot(h)' => gate'[h].waiters = <<>>
  <2>1. {d \in Children : HasPermit(d, h)'} = {d \in Children : HasPermit(d, h)}
    BY <1>1
  <2> QED
    BY <2>1 DEF SlotsCounted, HasSlot
<1>5. SlotsCounted'
  BY <1>3, <1>4 DEF SlotsCounted
<1>6. InOrder
  BY <1>1 DEF InOrder
<1> QED
  BY <1>1, <1>2, <1>5, <1>6

\* A free slot is taken: the queue is empty, so nobody is overtaken, and the
\* gate counts the permit.
LEMMA TakeSlotStep ==
  ASSUME LaunchOK, SlotsCounted, NEW c \in Children,
         child[c].pc \in {"try", "acquire"}, NEW g, g = child[c].at, HasSlot(g), TakeSlot(c)
  PROVE  /\ LaunchOK' /\ SlotsCounted' /\ InOrder
         /\ \A h \in Gates : gate'[h].capacity = gate[h].capacity
         /\ \A d \in Children : child'[d].calling = child[d].calling
         /\ \A d \in Children, h \in Gates :
               HasPermit(d, h)' /\ ~HasPermit(d, h) => h = g /\ HasSlot(h)
<1> DEFINE r == Passed(c)
           P == {d \in Children : HasPermit(d, g)}
<1>1. /\ child \in [Children -> Child] /\ gate \in [Gates -> Gate]
      /\ child[c] \in Child /\ g \in Gates /\ gate[g] \in Gate
      /\ PermitsFit(c, child[c])
      /\ None \notin Gates /\ Fleet \in Gates
  BY GovernorAssumption DEF LaunchOK, Child, Gates
<1>2. /\ r \in Child
      /\ r.held = child[c].held \cup {g} /\ r.granted = None
      /\ r.pc = IF g = Fleet THEN "run" ELSE "try"
      /\ r.at = Fleet /\ r.calling = child[c].calling
  BY <1>1 DEF Passed, Child
<1>3. child[c].granted = None /\ ~child[c].calling /\ g \notin child[c].held
  BY <1>1, GovernorAssumption DEF PermitsFit, OwnPermit, Gates
<1>4. PermitsFit(c, r)
  <2>1. g = Fleet => r.held = OwnPermit(c) \cup {Fleet}
    BY <1>1, <1>2, GovernorAssumption DEF PermitsFit, OwnPermit, Gates
  <2>2. g # Fleet => r.held = OwnPermit(c)
    BY <1>1, <1>2, GovernorAssumption DEF PermitsFit, OwnPermit, Gates
  <2> QED
    BY <1>2, <1>3, <2>1, <2>2 DEF PermitsFit
<1>5. child' = [child EXCEPT ![c] = r]
  BY DEF TakeSlot
<1>6. /\ gate' = [gate EXCEPT ![g].active = @ + 1]
      /\ gate'[g].active = gate[g].active + 1
      /\ \A h \in Gates : gate'[h].capacity = gate[h].capacity
      /\ \A h \in Gates : gate'[h].waiters = gate[h].waiters
      /\ \A h \in Gates \ {g} : gate'[h] = gate[h]
  BY <1>1 DEF TakeSlot, Gate
<1>7. ASSUME NEW d \in Children, NEW h \in Gates
      PROVE  HasPermit(d, h)' <=> HasPermit(d, h) \/ (d = c /\ h = g)
  <2> HIDE DEF r
  <2>1. CASE d = c
    <3>1. HasPermit(c, h)' <=> Permit(r, h)
      BY <1>2, <1>4, <1>5, OneChild
    <3>2. Permit(r, h) <=> HasPermit(c, h) \/ h = g
      BY <1>1, <1>2, <1>3 DEF Permit, HasPermit
    <3> QED
      BY <2>1, <3>1, <3>2
  <2>2. CASE d # c
    BY <2>2, <1>2, <1>4, <1>5, OneChild
  <2> QED
    BY <2>1, <2>2
<1>8. gate[g].active = Cardinality(P) /\ gate[g].waiters = <<>>
  BY <1>1 DEF SlotsCounted
<1>9. c \notin P
  BY <1>1, <1>3 DEF HasPermit, Permit
<1>10. Cardinality(P \cup {c}) = Cardinality(P) + 1
       /\ Cardinality(P \cup {c}) \in 0..Cardinality(Children)
  <2>1. IsFiniteSet(P)
    BY SomeChildren
  <2> HIDE DEF P
  <2>2. P \subseteq Children
    BY DEF P
  <2> QED
    BY <2>1, <2>2, <1>9, FS_AddElement, SomeChildren
<1>11. {d \in Children : HasPermit(d, g)'} = P \cup {c}
  BY <1>1, <1>7
<1>12. gate' \in [Gates -> Gate]
  <2>1. gate'[g] \in Gate
    <3>1. gate'[g] = [gate[g] EXCEPT !.active = @ + 1]
      BY <1>1, <1>6
    <3>2. gate[g].active + 1 \in 0..Cardinality(Children)
      BY <1>8, <1>10
    <3> QED
      BY <3>1, <3>2, <1>1 DEF Gate
  <2>2. gate' = [h \in Gates |-> gate'[h]]
    BY <1>1, <1>6
  <2>3. \A h \in Gates : gate'[h] \in Gate
    BY <2>1, <1>1, <1>6
  <2> QED
    BY <2>2, <2>3
<1>13. LaunchOK'
  <2> HIDE DEF r
  <2> QED
    BY <1>2, <1>4, <1>5, <1>12, OneChild DEF LaunchOK
<1>14. ASSUME NEW h \in Gates
       PROVE  QueueHonest(h)'
  <2> HIDE DEF r
  <2>1. ~Waits(c, h) /\ ~Waiting(r, h) /\ child[c].pc # "end"
    BY <1>2 DEF Waits, Waiting
  <2>2. \A d \in Children :
          /\ Waits(d, h)' => Waits(d, h)
          /\ Waits(d, h) => Waits(d, h)' \/ child'[d].pc = "end"
          /\ child[d].pc = "end" => child'[d].pc = "end"
    BY <2>1, <1>2, <1>4, <1>5, OneChild
  <2> QED
    BY <2>2, <1>6, QueueKept
<1>15. ASSUME NEW h \in Gates
       PROVE  /\ gate'[h].active = Cardinality({d \in Children : HasPermit(d, h)'})
              /\ HasSlot(h)' => gate'[h].waiters = <<>>
  <2>1. CASE h = g
    <3>1. gate'[g].active = Cardinality({d \in Children : HasPermit(d, g)'})
      BY <1>6, <1>8, <1>10, <1>11
    <3>2. gate'[g].waiters = <<>>
      BY <1>1, <1>6, <1>8
    <3> QED
      BY <2>1, <3>1, <3>2
  <2>2. CASE h # g
    <3>1. {d \in Children : HasPermit(d, h)'} = {d \in Children : HasPermit(d, h)}
      BY <2>2, <1>7
    <3> QED
      BY <3>1, <2>2, <1>6 DEF SlotsCounted, HasSlot
  <2> QED
    BY <2>1, <2>2
<1>16. SlotsCounted'
  BY <1>14, <1>15 DEF SlotsCounted
<1>17. InOrder
  <2>1. \A d \in Children : ~Waits(d, g)
    BY <1>1, <1>8 DEF SlotsCounted, QueueHonest
  <2> QED
    BY <2>1, <1>7 DEF InOrder
<1>18. \A d \in Children : child'[d].calling = child[d].calling
  <2> HIDE DEF r
  <2> QED
    BY <1>2, <1>4, <1>5, OneChild
<1> QED
  BY <1>6, <1>7, <1>13, <1>16, <1>17, <1>18

\* A child that found no slot joins the queue at its end, once.
LEMMA JoinQueueStep ==
  ASSUME LaunchOK, SlotsCounted, NEW c \in Children, child[c].pc = "acquire",
         NEW g, g = child[c].at, ~HasSlot(g), JoinQueue(c)
  PROVE  /\ LaunchOK' /\ SlotsCounted' /\ InOrder
         /\ \A h \in Gates : gate'[h].capacity = gate[h].capacity
         /\ \A d \in Children : child'[d].calling = child[d].calling
         /\ \A d \in Children, h \in Gates : HasPermit(d, h)' <=> HasPermit(d, h)
<1> DEFINE r == [child[c] EXCEPT !.pc = "wait"]
           q == gate[g].waiters
           n == Len(q)
           w == Append(q, c)
<1>1. /\ child \in [Children -> Child] /\ gate \in [Gates -> Gate]
      /\ child[c] \in Child /\ g \in Gates /\ gate[g] \in Gate
      /\ PermitsFit(c, child[c])
  BY DEF LaunchOK, Child
<1>2. /\ r \in Child
      /\ r.held = child[c].held /\ r.granted = child[c].granted
      /\ r.pc = "wait" /\ r.at = g /\ r.calling = child[c].calling
  BY <1>1 DEF Child
<1>3. child[c].granted = None
  BY <1>1 DEF PermitsFit
<1>4. PermitsFit(c, r)
  BY <1>1, <1>2, <1>3 DEF PermitsFit
<1>5. child' = [child EXCEPT ![c] = r]
  BY DEF JoinQueue
<1> HIDE DEF r
<1>6. /\ q \in Seq(Children) /\ n \in Nat /\ DOMAIN q = 1..n
      /\ w \in Seq(Children)
      /\ DOMAIN w = 1..(n + 1)
      /\ \A i \in 1..n : w[i] = q[i]
      /\ w[n + 1] = c
  BY <1>1, AppendProperties DEF Gate
<1> HIDE DEF w
<1>7. /\ gate'[g] = [gate[g] EXCEPT !.waiters = w]
      /\ \A h \in Gates \ {g} : gate'[h] = gate[h]
      /\ gate' = [h \in Gates |-> gate'[h]]
  BY <1>1 DEF w, JoinQueue
<1>8. /\ gate'[g] \in Gate /\ gate'[g].waiters = w
      /\ gate'[g].capacity = gate[g].capacity /\ gate'[g].active = gate[g].active
  <2>1. ASSUME NEW y, y = [gate[g] EXCEPT !.waiters = w]
        PROVE  /\ y \in Gate /\ y.waiters = w
               /\ y.capacity = gate[g].capacity /\ y.active = gate[g].active
    BY <2>1, <1>1, <1>6 DEF Gate
  <2> QED
    BY <2>1, <1>7
<1> HIDE DEF q, n
<1>9. gate' \in [Gates -> Gate]
  <2>1. \A h \in Gates : gate'[h] \in Gate
    BY <1>1, <1>7, <1>8
  <2> QED
    BY <2>1, <1>7
<1>10. LaunchOK'
  BY <1>2, <1>4, <1>5, <1>9, OneChild DEF LaunchOK
<1>11. ASSUME NEW d \in Children, NEW h \in Gates
       PROVE  HasPermit(d, h)' <=> HasPermit(d, h)
  <2>1. CASE d = c
    BY <2>1, <1>2, <1>4, <1>5, OneChild DEF HasPermit, Permit
  <2>2. CASE d # c
    BY <2>2, <1>2, <1>4, <1>5, OneChild
  <2> QED
    BY <2>1, <2>2
<1>12. \A h \in Gates : ~Waits(c, h)
  BY DEF Waits
<1>13. \A h \in Gates : Waits(c, h)' <=> h = g
  <2>1. \A h \in Gates : Waits(c, h)' <=> Waiting(r, h)
    BY <1>2, <1>4, <1>5, OneChild
  <2> QED
    BY <2>1, <1>2, <1>3 DEF Waiting
<1>14. ASSUME NEW d \in Children \ {c}, NEW h \in Gates
       PROVE  (Waits(d, h)' <=> Waits(d, h)) /\ child'[d].pc = child[d].pc
  BY <1>2, <1>4, <1>5, OneChild
<1>15. QueueHonest(g)'
  <2>1. QueueHonest(g)
    BY <1>1 DEF SlotsCounted
  <2>2. \A i \in 1..n : q[i] \in Children /\ q[i] # c
    <3>1. \A i \in 1..n : q[i] \in Children /\ (Waits(q[i], g) \/ child[q[i]].pc = "end")
      BY <2>1, <1>6 DEF QueueHonest, q
    <3>2. ~Waits(c, g) /\ child[c].pc # "end"
      BY <1>1, <1>12
    <3> QED
      BY <3>1, <3>2
  <2>3. ASSUME NEW i \in DOMAIN w, NEW j \in DOMAIN w, w[i] = w[j]
        PROVE  i = j
    <3>1. \A k \in DOMAIN w : k \in 1..n \/ k = n + 1
      BY <1>6
    <3>2. \A k, l \in 1..n : q[k] = q[l] => k = l
      BY <2>1, <1>6 DEF QueueHonest, q
    <3> QED
      BY <3>1, <3>2, <2>2, <2>3, <1>6
  <2>4. ASSUME NEW i \in DOMAIN w, NEW d, d = w[i]
        PROVE  Waits(d, g)' \/ child'[d].pc = "end"
    <3>1. CASE i = n + 1
      BY <3>1, <2>4, <1>1, <1>6, <1>13
    <3>2. CASE i \in 1..n
      <4>1. d = q[i] /\ d \in Children \ {c}
        BY <3>2, <2>2, <2>4, <1>6
      <4>2. Waits(d, g) \/ child[d].pc = "end"
        BY <4>1, <3>2, <2>1, <1>6 DEF QueueHonest, q
      <4> QED
        BY <4>1, <4>2, <1>1, <1>14
    <3> QED
      BY <3>1, <3>2, <1>6
  <2>5. ASSUME NEW d \in Children, Waits(d, g)'
        PROVE  \E i \in DOMAIN w : w[i] = d
    <3>1. CASE d = c
      <4>1. n + 1 \in DOMAIN w
        BY <1>6
      <4> QED
        BY <3>1, <4>1, <1>6
    <3>2. CASE d # c
      <4>1. PICK i \in 1..n : q[i] = d
        BY <3>2, <2>5, <2>1, <1>1, <1>6, <1>14 DEF QueueHonest, q
      <4>2. i \in DOMAIN w
        BY <1>6
      <4> QED
        BY <4>1, <4>2, <1>6
    <3> QED
      BY <3>1, <3>2
  <2>6. gate'[g].waiters = w
    BY <1>8
  <2>7. \A i \in DOMAIN w :
          Waits(gate[g].waiters[i], g)' \/ child'[gate'[g].waiters[i]].pc = "end"
    BY <2>4, <2>6 DEF Waits
  <2>8. \A i, j \in DOMAIN w : w[i] = w[j] => i = j
    BY <2>3
  <2>9. \A d \in Children : Waits(d, g)' => \E i \in DOMAIN w : w[i] = d
    BY <2>5
  <2> QED
    BY <2>6, <2>7, <2>8, <2>9 DEF QueueHonest
<1>16. ASSUME NEW h \in Gates \ {g}
       PROVE  QueueHonest(h)'
  <2>1. \A d \in Children :
          /\ Waits(d, h)' => Waits(d, h)
          /\ Waits(d, h) => Waits(d, h)' \/ child'[d].pc = "end"
          /\ child[d].pc = "end" => child'[d].pc = "end"
    BY <1>12, <1>13, <1>14
  <2> QED
    BY <2>1, <1>7, QueueKept
<1>17. ASSUME NEW h \in Gates
       PROVE  /\ gate'[h].active = Cardinality({d \in Children : HasPermit(d, h)'})
              /\ HasSlot(h)' => gate'[h].waiters = <<>>
  <2>1. {d \in Children : HasPermit(d, h)'} = {d \in Children : HasPermit(d, h)}
    BY <1>11
  <2>2. gate'[h].active = gate[h].active /\ gate'[h].capacity = gate[h].capacity
    BY <1>7, <1>8
  <2>3. HasSlot(h)' => h # g /\ HasSlot(h)
    BY <2>2 DEF HasSlot
  <2> QED
    BY <2>1, <2>2, <2>3, <1>7 DEF SlotsCounted
<1>18. SlotsCounted'
  BY <1>15, <1>16, <1>17 DEF SlotsCounted
<1>19. InOrder
  BY <1>11 DEF InOrder
<1>20. \A d \in Children : child'[d].calling = child[d].calling
  BY <1>2, <1>4, <1>5, OneChild
<1> QED
  BY <1>7, <1>8, <1>10, <1>11, <1>18, <1>19, <1>20

\* The governor's callers move the fleet gate to n, or leave it when it is there.
LEMMA MovedStep ==
  ASSUME LaunchOK, SlotsCounted, NEW n \in 0..MaxConcurrency, NEW c \in Children,
         child[c].calling, Moved(n, Answered(c))
  PROVE  /\ LaunchOK' /\ SlotsCounted' /\ InOrder
         /\ gate'[Fleet].capacity = n
         /\ \A d \in Children : child'[d].calling <=> d # c /\ child[d].calling
         /\ \A d \in Children, h \in Gates :
               HasPermit(d, h)' /\ ~HasPermit(d, h) => h = Fleet /\ n # 0
<1> DEFINE kids == Answered(c)
<1>1. Fleet \in Gates
  BY DEF Gates
<1>2. /\ kids \in [Children -> Child]
      /\ \A d \in Children :
            /\ kids[d].pc = child[d].pc /\ kids[d].at = child[d].at
            /\ kids[d].held = child[d].held /\ kids[d].granted = child[d].granted
            /\ kids[d].calling <=> d # c /\ child[d].calling
  BY AnsweredKeeps
<1>3. CASE n = gate[Fleet].capacity
  <2>1. child' = kids /\ gate' = gate
    BY <1>3 DEF Moved
  <2>2. child' = [child EXCEPT ![c] = kids[c]]
    BY <2>1 DEF Answered, LaunchOK
  <2> HIDE DEF kids
  <2>3. kids[c] \in Child /\ PermitsFit(c, kids[c])
    BY <1>2 DEF LaunchOK, PermitsFit
  <2>4. /\ \A h \in Gates : Permit(kids[c], h) <=> HasPermit(c, h)
        /\ \A h \in Gates : Waiting(kids[c], h) <=> Waits(c, h)
        /\ child[c].pc = "end" => kids[c].pc = "end"
    BY <1>2 DEF Permit, HasPermit, Waiting, Waits
  <2>5. /\ LaunchOK' /\ SlotsCounted' /\ InOrder
        /\ \A d \in Children, h \in Gates : HasPermit(d, h)' <=> HasPermit(d, h)
    BY <2>1, <2>2, <2>3, <2>4, ChildStep
  <2> QED
    BY <2>1, <2>5, <1>2, <1>3
<1>4. CASE n # gate[Fleet].capacity
  <2> DEFINE gt == [gate[Fleet] EXCEPT !.capacity = n]
  <2>1. Woke(Fleet, gt, kids)
    BY <1>4 DEF Moved
  <2> HIDE DEF kids
  <2>2. WakeReady(Fleet, gt, kids) /\ GainsNothing(kids) /\ gt.capacity = n
    BY <1>1, <1>2, CapacityReady
  <2> HIDE DEF gt
  <2> QED
    BY <1>1, <1>2, <2>1, <2>2, WokeStep
<1> QED
  BY <1>3, <1>4

-----------------------------------------------------------------------------
(* Every step keeps the invariant, admits in order and admits nobody in a   *)
(* pause.                                                                   *)

GovernorInv == GovernorTypeOK /\ SlotsCounted

StepOK == GovernorInv' /\ InOrder /\ AdmitsNobody

\* The calls that are out are counted no more than once.
LEMMA CallingShrinks ==
  ASSUME \A c \in Children : child'[c].calling => child[c].calling
  PROVE  /\ Cardinality({c \in Children : child'[c].calling}) \in Nat
         /\ Cardinality({c \in Children : child[c].calling}) \in Nat
         /\ Cardinality({c \in Children : child'[c].calling})
              <= Cardinality({c \in Children : child[c].calling})
<1> DEFINE K == {c \in Children : child[c].calling}
           N == {c \in Children : child'[c].calling}
<1>1. N \in SUBSET K
  OBVIOUS
<1>2. IsFiniteSet(K) /\ Cardinality(K) \in Nat /\ Cardinality(N) \in Nat
  BY SomeChildren
<1> HIDE DEF K, N
<1>3. Cardinality(N) <= Cardinality(K)
  BY <1>1, <1>2, FS_Subset
<1> QED
  BY <1>2, <1>3 DEF K, N

\* A step that reports nothing keeps the counters.
LEMMA CountersKept ==
  ASSUME CountersOK, UNCHANGED <<limited, attempts, calls>>,
         successes' \in 0..SuccessStep,
         \A c \in Children : child'[c].calling => child[c].calling
  PROVE  CountersOK'
<1> DEFINE a == Cardinality({c \in Children : child[c].calling})
           b == Cardinality({c \in Children : child'[c].calling})
<1>1. a \in Nat /\ b \in Nat /\ b <= a
  BY CallingShrinks
<1>2. /\ calls \in 0..MaxCalls /\ MaxCalls \in Nat
      /\ limited \in [Ages -> 0..MaxCalls]
      /\ \A k \in Ages : limited[k] + a <= calls
  BY GovernorAssumption DEF CountersOK
<1> HIDE DEF a, b
<1>3. \A k \in Ages : limited[k] + b <= calls
  BY <1>1, <1>2
<1> QED
  BY <1>3 DEF CountersOK, b

\* A step of a launch: the governor's state and the fleet gate's capacity stay.
LEMMA LaunchStep ==
  ASSUME GovernorInv, LaunchOK', SlotsCounted', InOrder,
         UNCHANGED <<governorVars, calls>>,
         gate'[Fleet].capacity = gate[Fleet].capacity,
         \A c \in Children : child'[c].calling => child[c].calling,
         \A c \in Children :
            HasPermit(c, Fleet)' /\ ~HasPermit(c, Fleet) => gate[Fleet].capacity # 0
  PROVE  StepOK
<1>1. LaunchOK /\ CountersOK /\ CapacityOK
  BY DEF GovernorInv, GovernorTypeOK
<1>2. CountersOK'
  BY <1>1, CountersKept DEF governorVars, CountersOK
<1>3. CapacityOK'
  BY <1>1 DEF CapacityOK, governorVars
<1>4. AdmitsNobody
  BY <1>1 DEF CapacityOK, AdmitsNobody
<1> QED
  BY <1>2, <1>3, <1>4 DEF StepOK, GovernorInv, GovernorTypeOK

\* A first try takes a free slot or finds none and waits its turn.
LEMMA TryAcquireOK ==
  ASSUME GovernorInv, NEW c \in Children, TryAcquire(c)
  PROVE  StepOK
<1>1. LaunchOK /\ SlotsCounted /\ UNCHANGED <<governorVars, calls>> /\ Fleet \in Gates
  BY DEF GovernorInv, GovernorTypeOK, TryAcquire, Gates
<1>2. CASE HasSlot(child[c].at) /\ TakeSlot(c)
  <2>1. /\ LaunchOK' /\ SlotsCounted' /\ InOrder
        /\ \A h \in Gates : gate'[h].capacity = gate[h].capacity
        /\ \A d \in Children : child'[d].calling = child[d].calling
        /\ \A d \in Children, h \in Gates :
              HasPermit(d, h)' /\ ~HasPermit(d, h) => HasSlot(h)
    BY <1>1, <1>2, TakeSlotStep DEF TryAcquire
  <2>2. HasSlot(Fleet) => gate[Fleet].capacity # 0
    BY <1>1, SomeChildren DEF HasSlot, LaunchOK, Gate
  <2> QED
    BY <1>1, <2>1, <2>2, LaunchStep
<1>3. CASE child' = [child EXCEPT ![c].pc = "acquire"] /\ gate' = gate
  <2> DEFINE r == [child[c] EXCEPT !.pc = "acquire"]
  <2>1. child[c] \in Child /\ PermitsFit(c, child[c]) /\ child[c].pc = "try"
    BY <1>1 DEF LaunchOK, TryAcquire
  <2>2. /\ r \in Child /\ r.pc = "acquire" /\ r.at = child[c].at /\ r.held = child[c].held
        /\ r.granted = child[c].granted /\ r.calling = child[c].calling
    BY <2>1 DEF Child
  <2>3. child' = [child EXCEPT ![c] = r]
    BY <1>3
  <2> HIDE DEF r
  <2>4. PermitsFit(c, r)
    BY <2>1, <2>2 DEF PermitsFit
  <2>5. /\ \A h \in Gates : Permit(r, h) <=> HasPermit(c, h)
        /\ \A h \in Gates : ~Waiting(r, h) /\ ~Waits(c, h)
    BY <2>1, <2>2 DEF Permit, HasPermit, Waiting, Waits
  <2>6. /\ LaunchOK' /\ SlotsCounted' /\ InOrder
        /\ \A d \in Children, h \in Gates : HasPermit(d, h)' <=> HasPermit(d, h)
    BY <1>1, <1>3, <2>1, <2>2, <2>3, <2>4, <2>5, ChildStep
  <2>7. \A d \in Children : child'[d].calling = child[d].calling
    BY <1>1, <2>2, <2>3, <2>4, OneChild
  <2> QED
    BY <1>1, <1>3, <2>6, <2>7, LaunchStep
<1> QED
  BY <1>2, <1>3 DEF TryAcquire

\* The second look takes a slot or joins the queue, in one critical section.
LEMMA AcquireOK ==
  ASSUME GovernorInv, NEW c \in Children, Acquire(c)
  PROVE  StepOK
<1>1. LaunchOK /\ SlotsCounted /\ UNCHANGED <<governorVars, calls>> /\ Fleet \in Gates
  BY DEF GovernorInv, GovernorTypeOK, Acquire, Gates
<1>2. CASE HasSlot(child[c].at) /\ TakeSlot(c)
  <2>1. /\ LaunchOK' /\ SlotsCounted' /\ InOrder
        /\ \A h \in Gates : gate'[h].capacity = gate[h].capacity
        /\ \A d \in Children : child'[d].calling = child[d].calling
        /\ \A d \in Children, h \in Gates :
              HasPermit(d, h)' /\ ~HasPermit(d, h) => HasSlot(h)
    BY <1>1, <1>2, TakeSlotStep DEF Acquire
  <2>2. HasSlot(Fleet) => gate[Fleet].capacity # 0
    BY <1>1, SomeChildren DEF HasSlot, LaunchOK, Gate
  <2> QED
    BY <1>1, <2>1, <2>2, LaunchStep
<1>3. CASE ~HasSlot(child[c].at) /\ JoinQueue(c)
  <2>1. /\ LaunchOK' /\ SlotsCounted' /\ InOrder
        /\ \A h \in Gates : gate'[h].capacity = gate[h].capacity
        /\ \A d \in Children : child'[d].calling = child[d].calling
        /\ \A d \in Children, h \in Gates : HasPermit(d, h)' <=> HasPermit(d, h)
    BY <1>1, <1>3, JoinQueueStep DEF Acquire
  <2> QED
    BY <1>1, <2>1, LaunchStep
<1> QED
  BY <1>2, <1>3 DEF Acquire

\* A permit taken from the channel is the same permit.
LEMMA ReceiveOK ==
  ASSUME GovernorInv, NEW c \in Children, Receive(c)
  PROVE  StepOK
<1> DEFINE r == Passed(c)
           g == child[c].at
<1>1. LaunchOK /\ SlotsCounted /\ UNCHANGED <<gate, governorVars, calls>> /\ Fleet \in Gates
  BY DEF GovernorInv, GovernorTypeOK, Receive, Gates
<1>2. /\ child[c] \in Child /\ PermitsFit(c, child[c]) /\ child[c].granted # None
      /\ child[c].pc = "wait" /\ child[c].granted = g /\ g \in Gates
      /\ ~child[c].calling /\ None \notin Gates
  BY <1>1, GovernorAssumption DEF LaunchOK, Receive, PermitsFit, Child, Gates
<1>3. /\ r \in Child
      /\ r.held = child[c].held \cup {g} /\ r.granted = None
      /\ r.pc = IF g = Fleet THEN "run" ELSE "try"
      /\ r.at = Fleet /\ r.calling = child[c].calling
  BY <1>1, <1>2 DEF Passed, Child
<1>4. child' = [child EXCEPT ![c] = r]
  BY DEF Receive
<1> HIDE DEF r
<1>5. PermitsFit(c, r)
  <2>1. g = Fleet => r.held = OwnPermit(c) \cup {Fleet}
    BY <1>2, <1>3, GovernorAssumption DEF PermitsFit, OwnPermit, Gates
  <2>2. g # Fleet => r.held = OwnPermit(c)
    BY <1>2, <1>3, GovernorAssumption DEF PermitsFit, OwnPermit, Gates
  <2> QED
    BY <1>2, <1>3, <2>1, <2>2 DEF PermitsFit
<1>6. /\ \A h \in Gates : Permit(r, h) <=> HasPermit(c, h)
      /\ \A h \in Gates : ~Waiting(r, h) /\ ~Waits(c, h)
  BY <1>2, <1>3 DEF Permit, HasPermit, Waiting, Waits
<1>7. /\ LaunchOK' /\ SlotsCounted' /\ InOrder
      /\ \A d \in Children, h \in Gates : HasPermit(d, h)' <=> HasPermit(d, h)
  BY <1>1, <1>2, <1>3, <1>4, <1>5, <1>6, ChildStep
<1>8. \A d \in Children : child'[d].calling = child[d].calling
  BY <1>1, <1>3, <1>4, <1>5, OneChild
<1> QED
  BY <1>1, <1>7, <1>8, LaunchStep

\* Release of a permit of gate g by child c, which is r afterwards.
LEMMA ReleaseOK ==
  ASSUME GovernorInv, NEW g \in Gates, NEW c \in Children, NEW r \in Child,
         HasPermit(c, g), PermitsFit(c, r), r.pc = "end",
         \A h \in Gates : ~Waits(c, h),
         \A h \in Gates : Permit(r, h) <=> h # g /\ HasPermit(c, h),
         r.calling => child[c].calling,
         Release(g, [child EXCEPT ![c] = r]), UNCHANGED <<governorVars, calls>>
  PROVE  StepOK
<1> DEFINE kids == [child EXCEPT ![c] = r]
           gt == [gate[g] EXCEPT !.active = IF @ > 0 THEN @ - 1 ELSE 0]
<1>1. LaunchOK /\ SlotsCounted /\ Fleet \in Gates
  BY DEF GovernorInv, GovernorTypeOK, Gates
<1>2. Woke(g, gt, kids)
  BY DEF Release
<1>3. \A d \in Children : kids[d].calling => child[d].calling
  BY <1>1 DEF LaunchOK
<1>4. WakeReady(g, gt, kids) /\ GainsNothing(kids) /\ gt.capacity = gate[g].capacity
  <2>1. kids = [child EXCEPT ![c] = r]
        /\ gt = [gate[g] EXCEPT !.active = IF @ > 0 THEN @ - 1 ELSE 0]
    OBVIOUS
  <2> HIDE DEF kids, gt
  <2> QED
    BY <1>1, <2>1, ReleaseReady
<1> HIDE DEF kids, gt
<1>5. /\ LaunchOK' /\ SlotsCounted' /\ InOrder
      /\ gate'[g].capacity = gt.capacity
      /\ \A h \in Gates \ {g} : gate'[h] = gate[h]
      /\ \A d \in Children : child'[d].calling = kids[d].calling
      /\ \A d \in Children, h \in Gates :
            HasPermit(d, h)' /\ ~HasPermit(d, h) => h = g /\ gt.capacity # 0
  BY <1>1, <1>2, <1>4, WokeStep
<1>6. gate'[Fleet].capacity = gate[Fleet].capacity
  BY <1>1, <1>4, <1>5
<1>7. \A d \in Children :
        HasPermit(d, Fleet)' /\ ~HasPermit(d, Fleet) => gate[Fleet].capacity # 0
  BY <1>1, <1>4, <1>5
<1>8. \A d \in Children : child'[d].calling => child[d].calling
  BY <1>3, <1>5
<1> QED
  BY <1>5, <1>6, <1>7, <1>8, LaunchStep

\* A child that stops waiting gives back the permit that is in its channel.
LEMMA StopWaitingOK ==
  ASSUME GovernorInv, NEW c \in Children, StopWaiting(c)
  PROVE  StepOK
<1> DEFINE r == [child[c] EXCEPT !.pc = "end", !.granted = None]
<1>1. LaunchOK /\ SlotsCounted /\ UNCHANGED <<governorVars, calls>>
  BY DEF GovernorInv, GovernorTypeOK, StopWaiting
<1>2. /\ child[c] \in Child /\ PermitsFit(c, child[c])
      /\ child[c].pc \in {"acquire", "wait"} /\ None \notin Gates
  BY <1>1, GovernorAssumption DEF LaunchOK, StopWaiting, Gates
<1>3. /\ r \in Child /\ r.pc = "end" /\ r.granted = None
      /\ r.held = child[c].held /\ r.calling = child[c].calling
  BY <1>2 DEF Child
<1>4. [child EXCEPT ![c].pc = "end", ![c].granted = None] = [child EXCEPT ![c] = r]
  BY <1>1 DEF LaunchOK
<1>5. CASE child[c].granted # None
  <2>1. Release(child[c].granted, [child EXCEPT ![c] = r])
    <3>1. LeaveQueue(c)
      BY DEF StopWaiting
    <3> QED
      BY <3>1, <1>4, <1>5 DEF LeaveQueue
  <2> HIDE DEF r
  <2>2. PICK g \in Gates : g = child[c].granted
    BY <1>2, <1>5 DEF Child
  <2>3. g = child[c].at /\ g \notin child[c].held
    BY <2>2, <1>2, <1>5, GovernorAssumption DEF PermitsFit, OwnPermit, Gates
  <2>4. PermitsFit(c, r) /\ HasPermit(c, g) /\ \A h \in Gates : ~Waits(c, h)
    BY <2>2, <1>2, <1>3, <1>5 DEF PermitsFit, HasPermit, Permit, Waits
  <2>5. \A h \in Gates : Permit(r, h) <=> h # g /\ HasPermit(c, h)
    BY <2>2, <2>3, <1>2, <1>3 DEF HasPermit, Permit
  <2> QED
    BY <2>1, <2>2, <2>4, <2>5, <1>1, <1>3, ReleaseOK
<1>6. CASE child[c].granted = None
  <2>1. child' = [child EXCEPT ![c] = r] /\ gate' = gate
    <3>1. LeaveQueue(c)
      BY DEF StopWaiting
    <3> QED
      BY <3>1, <1>4, <1>6 DEF LeaveQueue
  <2> HIDE DEF r
  <2>2. PermitsFit(c, r) /\ \A h \in Gates : ~Waiting(r, h)
    BY <1>2, <1>3 DEF PermitsFit, Waiting
  <2>3. \A h \in Gates : Permit(r, h) <=> HasPermit(c, h)
    BY <1>2, <1>3, <1>6 DEF HasPermit, Permit
  <2>4. /\ LaunchOK' /\ SlotsCounted' /\ InOrder
        /\ \A d \in Children, h \in Gates : HasPermit(d, h)' <=> HasPermit(d, h)
    BY <1>1, <1>3, <2>1, <2>2, <2>3, ChildStep
  <2>5. \A d \in Children : child'[d].calling = child[d].calling
    BY <1>1, <1>3, <2>1, <2>2, OneChild
  <2>6. Fleet \in Gates
    BY DEF Gates
  <2> QED
    BY <1>1, <2>1, <2>4, <2>5, <2>6, LaunchStep
<1> QED
  BY <1>5, <1>6

\* The end of a run drops nothing yet.
LEMMA FinishOK ==
  ASSUME GovernorInv, NEW c \in Children, Finish(c)
  PROVE  StepOK
<1> DEFINE r == [child[c] EXCEPT !.pc = "end"]
<1>1. LaunchOK /\ SlotsCounted /\ UNCHANGED <<gate, governorVars, calls>> /\ Fleet \in Gates
  BY DEF GovernorInv, GovernorTypeOK, Finish, Gates
<1>2. /\ child[c] \in Child /\ PermitsFit(c, child[c])
      /\ child[c].pc = "run" /\ ~child[c].calling
  BY <1>1 DEF LaunchOK, Finish
<1>3. /\ r \in Child /\ r.pc = "end" /\ r.granted = child[c].granted
      /\ r.held = child[c].held /\ r.calling = child[c].calling
  BY <1>2 DEF Child
<1>4. child' = [child EXCEPT ![c] = r]
  BY DEF Finish
<1> HIDE DEF r
<1>5. PermitsFit(c, r)
  BY <1>2, <1>3 DEF PermitsFit
<1>6. /\ \A h \in Gates : Permit(r, h) <=> HasPermit(c, h)
      /\ \A h \in Gates : ~Waiting(r, h) /\ ~Waits(c, h)
  BY <1>2, <1>3 DEF Permit, HasPermit, Waiting, Waits
<1>7. /\ LaunchOK' /\ SlotsCounted' /\ InOrder
      /\ \A d \in Children, h \in Gates : HasPermit(d, h)' <=> HasPermit(d, h)
  BY <1>1, <1>3, <1>4, <1>5, <1>6, ChildStep
<1>8. \A d \in Children : child'[d].calling = child[d].calling
  BY <1>1, <1>3, <1>4, <1>5, OneChild
<1> QED
  BY <1>1, <1>7, <1>8, LaunchStep

\* Each permit of an ended child is returned once.
LEMMA DropPermitOK ==
  ASSUME GovernorInv, NEW c \in Children, DropPermit(c)
  PROVE  StepOK
<1>1. LaunchOK /\ SlotsCounted /\ UNCHANGED <<governorVars, calls>>
  BY DEF GovernorInv, GovernorTypeOK, DropPermit
<1>2. PICK g : /\ g = IF child[c].held = {Fleet} THEN Fleet ELSE OwnerOf[c]
               /\ Release(g, [child EXCEPT ![c].held = @ \ {g}])
               /\ child[c].pc = "end" /\ child[c].held # {}
  BY DEF DropPermit
<1> DEFINE r == [child[c] EXCEPT !.held = @ \ {g}]
<1>3. child[c] \in Child /\ PermitsFit(c, child[c])
  BY <1>1 DEF LaunchOK
<1>4. g \in child[c].held /\ g \in Gates
  BY <1>2, <1>3 DEF PermitsFit, OwnPermit, Child
<1>5. /\ r \in Child /\ r.pc = "end" /\ r.granted = child[c].granted
      /\ r.held = child[c].held \ {g} /\ r.calling = child[c].calling
  BY <1>2, <1>3 DEF Child
<1>6. Release(g, [child EXCEPT ![c] = r])
  BY <1>2
<1> HIDE DEF r
<1>7. child[c].granted = None /\ None \notin Gates
  BY <1>2, <1>3, GovernorAssumption DEF PermitsFit, Gates
<1>8. PermitsFit(c, r) /\ HasPermit(c, g) /\ \A h \in Gates : ~Waits(c, h)
  BY <1>2, <1>3, <1>4, <1>5, <1>7 DEF PermitsFit, HasPermit, Permit, Waits
<1>9. \A h \in Gates : Permit(r, h) <=> h # g /\ HasPermit(c, h)
  BY <1>5, <1>7 DEF HasPermit, Permit
<1> QED
  BY <1>1, <1>4, <1>5, <1>6, <1>8, <1>9, ReleaseOK

\* A step that moves the fleet gate: what it admits needs a capacity, and a
\* pause has none.
LEMMA GovernorStep ==
  ASSUME LaunchOK', SlotsCounted', InOrder, CountersOK', CapacityOK',
         \A c \in Children :
            HasPermit(c, Fleet)' /\ ~HasPermit(c, Fleet) => gate'[Fleet].capacity # 0
  PROVE  StepOK
<1>1. AdmitsNobody
  BY DEF CapacityOK, AdmitsNobody
<1> QED
  BY <1>1 DEF StepOK, GovernorInv, GovernorTypeOK

\* The arithmetic of the capacities.
LEMMA CapacitySteps ==
  ASSUME NEW n \in Nat
  PROVE  /\ AtLeastOne(n) \in Nat /\ AtLeastOne(n) >= 1
         /\ \A m \in Nat : m >= 1 /\ n <= m => AtLeastOne(n) <= m
         /\ n >= 1 => Halved(n) \in 1..n /\ AtLeastOne(n \div 4) \in 1..n
BY DEF AtLeastOne, Halved

\* A dispatched request is one call more, one attempt more and one answer owed.
LEMMA RecordAttemptOK ==
  ASSUME GovernorInv, NEW c \in Children, RecordAttempt(c)
  PROVE  StepOK
<1> DEFINE r == [child[c] EXCEPT !.calling = TRUE]
           K == {d \in Children : child[d].calling}
<1>1. LaunchOK /\ SlotsCounted /\ CountersOK /\ CapacityOK /\ Fleet \in Gates
  BY DEF GovernorInv, GovernorTypeOK, Gates
<1>2. /\ child[c] \in Child /\ PermitsFit(c, child[c])
      /\ child[c].pc = "run" /\ ~child[c].calling
      /\ UNCHANGED <<gate, maxCap, paused, limited, successes>>
      /\ calls < MaxCalls /\ calls' = calls + 1 /\ attempts' = Reported(attempts)
  BY <1>1 DEF LaunchOK, RecordAttempt
<1>3. /\ r \in Child /\ r.pc = "run" /\ r.granted = child[c].granted /\ r.at = child[c].at
      /\ r.held = child[c].held /\ r.calling
  BY <1>2 DEF Child
<1>4. child' = [child EXCEPT ![c] = r]
  BY DEF RecordAttempt
<1> HIDE DEF r
<1>5. PermitsFit(c, r)
  BY <1>2, <1>3 DEF PermitsFit
<1>6. /\ \A h \in Gates : Permit(r, h) <=> HasPermit(c, h)
      /\ \A h \in Gates : ~Waiting(r, h) /\ ~Waits(c, h)
  BY <1>2, <1>3 DEF Permit, HasPermit, Waiting, Waits
<1>7. /\ LaunchOK' /\ SlotsCounted' /\ InOrder
      /\ \A d \in Children, h \in Gates : HasPermit(d, h)' <=> HasPermit(d, h)
  BY <1>1, <1>2, <1>3, <1>4, <1>5, <1>6, ChildStep
<1>8. {d \in Children : child'[d].calling} = K \cup {c} /\ c \notin K
  BY <1>1, <1>2, <1>3, <1>4, <1>5, OneChild
<1>9. /\ Cardinality(K) \in Nat
      /\ Cardinality({d \in Children : child'[d].calling}) = Cardinality(K) + 1
  <2>1. IsFiniteSet(K) /\ Cardinality(K) \in Nat
    BY SomeChildren
  <2> HIDE DEF K
  <2> QED
    BY <2>1, <1>8, FS_AddElement
<1>10. CountersOK'
  <2>1. /\ calls \in 0..MaxCalls /\ MaxCalls \in Nat /\ 0 \in Ages
        /\ limited \in [Ages -> 0..MaxCalls] /\ attempts \in [Ages -> 0..MaxCalls]
        /\ \A k \in Ages : attempts[k] <= calls /\ limited[k] + Cardinality(K) <= calls
    <3>1. 0 \in Ages /\ MaxCalls \in Nat
      BY GovernorAssumption DEF Ages
    <3> QED
      BY <1>1, <3>1 DEF CountersOK
  <2> HIDE DEF K
  <2>2. calls' \in 0..MaxCalls
    BY <1>2, <2>1
  <2>3. \A k \in Ages : limited[k] + (Cardinality(K) + 1) <= calls'
    BY <1>2, <1>9, <2>1
  <2>4. attempts' = [attempts EXCEPT ![0] = @ + 1]
    BY <1>2 DEF Reported
  <2>5. \A k \in Ages : attempts'[k] \in Nat /\ attempts'[k] <= calls'
    <3>1. SUFFICES ASSUME NEW k \in Ages
                   PROVE  attempts'[k] \in Nat /\ attempts'[k] <= calls'
      OBVIOUS
    <3>2. attempts[k] \in Nat /\ attempts[k] <= calls
      BY <2>1
    <3>3. attempts'[k] = attempts[k] + 1 \/ attempts'[k] = attempts[k]
      BY <2>1, <2>4
    <3> QED
      BY <1>2, <2>1, <3>2, <3>3
  <2>6. attempts' \in [Ages -> 0..MaxCalls]
    BY <1>2, <2>1, <2>2, <2>4, <2>5
  <2> QED
    BY <1>1, <1>2, <1>9, <2>2, <2>3, <2>5, <2>6 DEF CountersOK
<1>11. CapacityOK'
  BY <1>1, <1>2 DEF CapacityOK
<1> QED
  BY <1>1, <1>7, <1>10, <1>11, GovernorStep

\* An answer that is not reported moves nothing.
LEMMA RecordNothingOK ==
  ASSUME GovernorInv, NEW c \in Children, RecordNothing(c)
  PROVE  StepOK
<1>1. LaunchOK /\ SlotsCounted /\ CapacityOK /\ UNCHANGED <<gate, governorVars, calls>>
  BY DEF GovernorInv, GovernorTypeOK, RecordNothing
<1>2. Moved(gate[Fleet].capacity, Answered(c)) /\ child[c].calling
  BY <1>1 DEF RecordNothing, Moved
<1>3. gate[Fleet].capacity \in 0..MaxConcurrency
  BY <1>1 DEF LaunchOK, Gates, Gate
<1>4. /\ LaunchOK' /\ SlotsCounted' /\ InOrder
      /\ \A d \in Children : child'[d].calling <=> d # c /\ child[d].calling
      /\ \A d \in Children, h \in Gates :
            HasPermit(d, h)' /\ ~HasPermit(d, h) => h = Fleet /\ gate[Fleet].capacity # 0
  BY <1>1, <1>2, <1>3, MovedStep
<1>5. Fleet \in Gates
  BY DEF Gates
<1> QED
  BY <1>1, <1>4, <1>5, LaunchStep

\* A rate-limited answer is one report more and one answer owed less; the gate
\* closes, narrows or stays.
LEMMA RecordRateLimitedOK ==
  ASSUME GovernorInv, NEW c \in Children, RecordRateLimited(c)
  PROVE  StepOK
<1> DEFINE K == {d \in Children : child[d].calling}
           cap == gate[Fleet].capacity
           high == Size(limited) + 1 >= ThrottleEvents \/ RatioHigh(Size(limited) + 1)
           n == IF paused' THEN 0 ELSE IF high THEN Halved(cap) ELSE cap
<1>1. LaunchOK /\ SlotsCounted /\ CountersOK /\ CapacityOK /\ Fleet \in Gates
  BY DEF GovernorInv, GovernorTypeOK, Gates
<1>2. /\ child[c].calling
      /\ limited' = Reported(limited) /\ successes' = 0
      /\ paused' = (paused \/ Size(limited) + 1 >= PauseEvents)
      /\ Moved(n, Answered(c))
      /\ UNCHANGED <<maxCap, attempts, calls>>
  BY DEF RecordRateLimited
<1>3. /\ paused \in BOOLEAN /\ paused' \in BOOLEAN
      /\ paused => paused'
  BY <1>1, <1>2 DEF CapacityOK
<1> HIDE DEF high
<1>4. /\ maxCap \in 1..MaxConcurrency /\ MaxConcurrency \in Nat
      /\ ~paused' => cap \in 1..maxCap
  BY <1>1, <1>3, WidestConcurrency DEF CapacityOK
<1>5. n \in 0..MaxConcurrency /\ n \in IF paused' THEN {0} ELSE 1..maxCap
  <2> HIDE DEF cap
  <2>1. ~paused' => Halved(cap) \in 1..cap
    BY <1>4, CapacitySteps
  <2> QED
    BY <1>4, <2>1
<1> HIDE DEF n
<1>6. /\ LaunchOK' /\ SlotsCounted' /\ InOrder
      /\ gate'[Fleet].capacity = n
      /\ \A d \in Children : child'[d].calling <=> d # c /\ child[d].calling
      /\ \A d \in Children, h \in Gates :
            HasPermit(d, h)' /\ ~HasPermit(d, h) => h = Fleet /\ n # 0
  BY <1>1, <1>2, <1>5, MovedStep
<1>7. CapacityOK'
  BY <1>2, <1>3, <1>4, <1>5, <1>6 DEF CapacityOK
<1>8. {d \in Children : child'[d].calling} = K \ {c} /\ c \in K
  BY <1>2, <1>6
<1>9. /\ Cardinality(K) \in Nat
      /\ Cardinality({d \in Children : child'[d].calling}) = Cardinality(K) - 1
  <2>1. IsFiniteSet(K) /\ Cardinality(K) \in Nat
    BY SomeChildren
  <2> HIDE DEF K
  <2> QED
    BY <2>1, <1>8, FS_RemoveElement
<1>10. CountersOK'
  <2>1. /\ calls \in 0..MaxCalls /\ MaxCalls \in Nat /\ 0 \in Ages
        /\ limited \in [Ages -> 0..MaxCalls] /\ attempts \in [Ages -> 0..MaxCalls]
        /\ \A k \in Ages : attempts[k] <= calls /\ limited[k] + Cardinality(K) <= calls
        /\ 0 \in 0..SuccessStep
    BY <1>1, GovernorAssumption DEF CountersOK, Ages
  <2>2. limited' = [limited EXCEPT ![0] = @ + 1]
    BY <1>2 DEF Reported
  <2>3. Cardinality(K) - 1 \in Nat
    BY <1>8, <1>9, SomeChildren
  <2> HIDE DEF K
  <2>4. \A k \in Ages : limited'[k] \in Nat /\ limited'[k] + (Cardinality(K) - 1) <= calls
    BY <1>9, <2>1, <2>2
  <2>5. limited' \in [Ages -> 0..MaxCalls]
    BY <1>9, <2>1, <2>2, <2>3, <2>4
  <2> QED
    BY <1>1, <1>2, <1>9, <2>1, <2>4, <2>5 DEF CountersOK
<1> QED
  BY <1>1, <1>6, <1>7, <1>10, GovernorStep

\* A success may lift a pause or widen the gate by one, within the ceiling.
LEMMA RecordSuccessOK ==
  ASSUME GovernorInv, NEW c \in Children, RecordSuccess(c)
  PROVE  StepOK
<1> DEFINE cap == IF Resumes THEN Quarter ELSE gate[Fleet].capacity
           steps == ~(paused /\ ~Resumes) /\ successes + 1 >= SuccessStep
                    /\ Increased(cap) # cap
           n == IF steps THEN Increased(cap) ELSE cap
<1>1. LaunchOK /\ SlotsCounted /\ CountersOK /\ CapacityOK /\ Fleet \in Gates
  BY DEF GovernorInv, GovernorTypeOK, Gates
<1>2. /\ child[c].calling
      /\ paused' = (paused /\ ~Resumes)
      /\ successes' = IF steps THEN 0
                      ELSE IF successes < SuccessStep THEN successes + 1 ELSE successes
      /\ Moved(n, Answered(c))
      /\ UNCHANGED <<maxCap, limited, attempts, calls>>
  BY DEF RecordSuccess
<1>3. paused \in BOOLEAN /\ paused' \in BOOLEAN
  BY <1>1, <1>2 DEF CapacityOK
<1>4. maxCap \in 1..MaxConcurrency /\ MaxConcurrency \in Nat
  BY <1>1, WidestConcurrency DEF CapacityOK
<1>5. cap \in IF paused' THEN {0} ELSE 1..maxCap
  <2>1. Quarter \in 1..maxCap
    BY <1>4, CapacitySteps DEF Quarter
  <2>2. Resumes => ~paused'
    BY <1>2
  <2>3. ~Resumes => paused' = paused
    BY <1>2, <1>3
  <2> HIDE DEF cap
  <2>4. cap = IF Resumes THEN Quarter ELSE gate[Fleet].capacity
    BY DEF cap
  <2>5. gate[Fleet].capacity \in IF paused THEN {0} ELSE 1..maxCap
    BY <1>1 DEF CapacityOK
  <2>6. CASE Resumes
    BY <2>1, <2>2, <2>4, <2>6
  <2>7. CASE ~Resumes
    BY <2>3, <2>4, <2>5, <2>7
  <2> QED
    BY <2>6, <2>7
<1> HIDE DEF cap
<1>6. n \in 0..MaxConcurrency /\ n \in IF paused' THEN {0} ELSE 1..maxCap
  <2>1. steps => ~paused'
    BY <1>2
  <2>2. ~paused' => Increased(cap) \in 1..maxCap
    BY <1>4, <1>5 DEF Increased
  <2> HIDE DEF steps
  <2> QED
    BY <1>4, <1>5, <2>1, <2>2
<1> HIDE DEF n, steps
<1>7. /\ LaunchOK' /\ SlotsCounted' /\ InOrder
      /\ gate'[Fleet].capacity = n
      /\ \A d \in Children : child'[d].calling <=> d # c /\ child[d].calling
      /\ \A d \in Children, h \in Gates :
            HasPermit(d, h)' /\ ~HasPermit(d, h) => h = Fleet /\ n # 0
  BY <1>1, <1>2, <1>6, MovedStep
<1>8. CapacityOK'
  BY <1>2, <1>3, <1>4, <1>6, <1>7 DEF CapacityOK
<1>9. CountersOK'
  <2>1. successes' \in 0..SuccessStep
    BY <1>1, <1>2, GovernorAssumption DEF CountersOK
  <2> QED
    BY <1>1, <1>2, <1>7, <2>1, CountersKept
<1> QED
  BY <1>1, <1>7, <1>8, <1>9, GovernorStep

\* What set_capacity does to a gate, with no child changed before it.
LEMMA SetCapacityStep ==
  ASSUME LaunchOK, SlotsCounted, NEW g \in Gates, NEW n \in 0..MaxConcurrency,
         Woke(g, [gate[g] EXCEPT !.capacity = n], child)
  PROVE  /\ LaunchOK' /\ SlotsCounted' /\ InOrder
         /\ gate'[g].capacity = n
         /\ \A h \in Gates \ {g} : gate'[h] = gate[h]
         /\ \A d \in Children : child'[d].calling = child[d].calling
         /\ \A d \in Children, h \in Gates :
               HasPermit(d, h)' /\ ~HasPermit(d, h) => h = g /\ n # 0
<1> DEFINE gt == [gate[g] EXCEPT !.capacity = n]
<1>1. child \in [Children -> Child]
  BY DEF LaunchOK
<1>2. WakeReady(g, gt, child) /\ GainsNothing(child) /\ gt.capacity = n
  BY <1>1, CapacityReady
<1>3. Woke(g, gt, child)
  OBVIOUS
<1> HIDE DEF gt
<1> QED
  BY <1>2, <1>3, WokeStep

\* The probe resumes at a quarter.
LEMMA ProbeOK ==
  ASSUME GovernorInv, NEW c \in Children, Probe(c)
  PROVE  StepOK
<1>1. LaunchOK /\ SlotsCounted /\ CountersOK /\ CapacityOK /\ Fleet \in Gates
  BY DEF GovernorInv, GovernorTypeOK, Gates
<1>2. /\ Woke(Fleet, [gate[Fleet] EXCEPT !.capacity = Quarter], child)
      /\ paused' = FALSE /\ UNCHANGED <<maxCap, limited, attempts, successes, calls>>
  BY DEF Probe, SetCapacity
<1>3. maxCap \in 1..MaxConcurrency /\ MaxConcurrency \in Nat
  BY <1>1, WidestConcurrency DEF CapacityOK
<1>4. Quarter \in 1..maxCap /\ Quarter \in 0..MaxConcurrency
  BY <1>3, CapacitySteps DEF Quarter
<1>5. /\ LaunchOK' /\ SlotsCounted' /\ InOrder
      /\ gate'[Fleet].capacity = Quarter
      /\ \A d \in Children : child'[d].calling = child[d].calling
  BY <1>1, <1>2, <1>4, SetCapacityStep
<1>6. CapacityOK'
  BY <1>2, <1>3, <1>4, <1>5 DEF CapacityOK
<1>7. CountersOK'
  BY <1>1, <1>2, <1>5, CountersKept DEF CountersOK
<1>8. gate'[Fleet].capacity # 0
  BY <1>3, <1>4, <1>5
<1> QED
  BY <1>5, <1>6, <1>7, <1>8, GovernorStep

\* A step that touches neither gates nor children admits nobody.
LEMMA LaunchKept ==
  ASSUME LaunchOK, SlotsCounted, UNCHANGED <<gate, child>>
  PROVE  /\ LaunchOK' /\ SlotsCounted' /\ InOrder
         /\ \A d \in Children, h \in Gates : HasPermit(d, h)' <=> HasPermit(d, h)
<1>1. \A d \in Children, h \in Gates : HasPermit(d, h)' <=> HasPermit(d, h)
  BY DEF HasPermit
<1>2. LaunchOK'
  BY DEF LaunchOK
<1>3. ASSUME NEW h \in Gates
      PROVE  /\ gate'[h].active = Cardinality({d \in Children : HasPermit(d, h)'})
             /\ HasSlot(h)' => gate'[h].waiters = <<>>
             /\ QueueHonest(h)'
  <2>1. {d \in Children : HasPermit(d, h)'} = {d \in Children : HasPermit(d, h)}
    BY <1>1
  <2>2. QueueHonest(h)'
    <3>1. \A d \in Children : Waits(d, h)' <=> Waits(d, h)
      BY DEF Waits
    <3> QED
      BY <3>1, QueueKept
  <2> QED
    BY <2>1, <2>2 DEF SlotsCounted, HasSlot
<1>4. SlotsCounted'
  BY <1>3 DEF SlotsCounted
<1> QED
  BY <1>1, <1>2, <1>4 DEF InOrder

\* A new ceiling takes effect at once, or after the pause.
LEMMA ConfigureOK ==
  ASSUME GovernorInv, NEW n \in Concurrency, Configure(n)
  PROVE  StepOK
<1> DEFINE m == AtLeastOne(n)
<1>1. LaunchOK /\ SlotsCounted /\ CountersOK /\ CapacityOK /\ Fleet \in Gates
  BY DEF GovernorInv, GovernorTypeOK, Gates
<1>2. /\ maxCap' = m
      /\ IF paused THEN UNCHANGED <<gate, child>>
         ELSE Woke(Fleet, [gate[Fleet] EXCEPT !.capacity = m], child)
      /\ UNCHANGED <<paused, limited, attempts, successes, calls>>
  BY DEF Configure, SetMaxCapacity, SetCapacity
<1>3. maxCap \in 1..MaxConcurrency /\ MaxConcurrency \in Nat /\ n \in Nat /\ n <= MaxConcurrency
  BY <1>1, WidestConcurrency DEF CapacityOK
<1>4. m \in 1..MaxConcurrency /\ m \in 0..MaxConcurrency
  BY <1>3, CapacitySteps
<1> HIDE DEF m
<1>5. CASE paused
  <2>1. UNCHANGED <<gate, child>>
    BY <1>2, <1>5
  <2>2. /\ LaunchOK' /\ SlotsCounted' /\ InOrder
        /\ \A d \in Children, h \in Gates : HasPermit(d, h)' <=> HasPermit(d, h)
    BY <1>1, <2>1, LaunchKept
  <2>3. CapacityOK'
    BY <1>1, <1>2, <1>4, <1>5, <2>1 DEF CapacityOK
  <2>4. CountersOK'
    BY <1>1, <1>2, <2>1, CountersKept DEF CountersOK
  <2> QED
    BY <1>1, <2>2, <2>3, <2>4, GovernorStep
<1>6. CASE ~paused
  <2>1. /\ LaunchOK' /\ SlotsCounted' /\ InOrder
        /\ gate'[Fleet].capacity = m
        /\ \A d \in Children : child'[d].calling = child[d].calling
    BY <1>1, <1>2, <1>4, <1>6, SetCapacityStep
  <2>2. CapacityOK'
    BY <1>1, <1>2, <1>3, <1>4, <1>6, <2>1 DEF CapacityOK
  <2>3. CountersOK'
    BY <1>1, <1>2, <2>1, CountersKept DEF CountersOK
  <2>4. gate'[Fleet].capacity # 0
    BY <1>3, <1>4, <2>1
  <2> QED
    BY <2>1, <2>2, <2>3, <2>4, GovernorStep
<1> QED
  BY <1>5, <1>6

\* An owner's limit moves the owner's gate only.
LEMMA ConfigureOwnerOK ==
  ASSUME GovernorInv, NEW n \in Concurrency, NEW o \in Owners, ConfigureOwner(o, n)
  PROVE  StepOK
<1> DEFINE m == AtLeastOne(n)
<1>1. LaunchOK /\ SlotsCounted /\ CountersOK /\ CapacityOK
  BY DEF GovernorInv, GovernorTypeOK
<1>2. o \in Gates /\ Fleet \in Gates /\ o # Fleet
  BY GovernorAssumption DEF Gates
<1>3. maxCap \in 1..MaxConcurrency /\ MaxConcurrency \in Nat /\ n \in Nat /\ n <= MaxConcurrency
  BY <1>1, WidestConcurrency DEF CapacityOK
<1>4. m \in 0..MaxConcurrency
  BY <1>3, CapacitySteps
<1>5. /\ Woke(o, [gate[o] EXCEPT !.capacity = m], child)
      /\ UNCHANGED <<governorVars, calls>>
  BY DEF ConfigureOwner
<1> HIDE DEF m
<1>6. /\ LaunchOK' /\ SlotsCounted' /\ InOrder
      /\ gate'[Fleet] = gate[Fleet]
      /\ \A d \in Children : child'[d].calling = child[d].calling
      /\ \A d \in Children : ~(HasPermit(d, Fleet)' /\ ~HasPermit(d, Fleet))
  BY <1>1, <1>2, <1>4, <1>5, SetCapacityStep
<1> QED
  BY <1>5, <1>6, LaunchStep

\* Time moves the reports one age on and the oldest out of the window.
LEMMA ClockOK ==
  ASSUME GovernorInv, Clock
  PROVE  StepOK
<1>1. LaunchOK /\ SlotsCounted /\ CountersOK /\ CapacityOK /\ Fleet \in Gates
  BY DEF GovernorInv, GovernorTypeOK, Gates
<1>2. /\ attempts' = Older(attempts) /\ limited' = Older(limited)
      /\ UNCHANGED <<gate, child, maxCap, paused, successes, calls>>
  BY DEF Clock
<1>3. /\ LaunchOK' /\ SlotsCounted' /\ InOrder
      /\ \A d \in Children, h \in Gates : HasPermit(d, h)' <=> HasPermit(d, h)
  BY <1>1, <1>2, LaunchKept
<1>5. CapacityOK'
  BY <1>1, <1>2 DEF CapacityOK
<1>4. CountersOK'
  <2> DEFINE a == Cardinality({c \in Children : child[c].calling})
  <2>1. /\ calls \in 0..MaxCalls /\ MaxCalls \in Nat /\ Window \in Nat
        /\ limited \in [Ages -> 0..MaxCalls] /\ attempts \in [Ages -> 0..MaxCalls]
        /\ \A k \in Ages : attempts[k] <= calls /\ limited[k] + a <= calls
        /\ a \in Nat
    BY <1>1, GovernorAssumption, SomeChildren DEF CountersOK
  <2> HIDE DEF a
  <2>2. 0 \in Ages /\ \A k \in Ages : k # 0 => k - 1 \in Ages
    BY <2>1 DEF Ages
  <2>3. ASSUME NEW k \in Ages
        PROVE  /\ Older(attempts)[k] \in 0..MaxCalls /\ Older(attempts)[k] <= calls
               /\ Older(limited)[k] \in 0..MaxCalls /\ Older(limited)[k] + a <= calls
    <3>1. a <= calls
      BY <2>1, <2>2
    <3>2. CASE k = 0
      BY <2>1, <3>1, <3>2 DEF Older
    <3>3. CASE k # 0
      BY <2>1, <2>2, <3>3 DEF Older
    <3> QED
      BY <3>2, <3>3
  <2>4. /\ Older(attempts) \in [Ages -> 0..MaxCalls]
        /\ Older(limited) \in [Ages -> 0..MaxCalls]
    BY <2>3 DEF Older
  <2> QED
    BY <1>1, <1>2, <2>3, <2>4 DEF CountersOK, a
<1> QED
  BY <1>1, <1>3, <1>4, <1>5, GovernorStep

-----------------------------------------------------------------------------
(* The theorems. *)

\* A governor starts with open gates, empty queues and no permit out.
LEMMA InitOK == Init => GovernorInv
<1> SUFFICES ASSUME Init PROVE GovernorInv
  OBVIOUS
<1>1. PICK n \in Concurrency \ {0} : gate = [g \in Gates |-> NewGate(n)] /\ maxCap = n
  BY DEF Init
<1>2. /\ n \in 1..MaxConcurrency /\ MaxConcurrency \in Nat
      /\ Fleet \in Gates /\ None \notin Gates
  BY WidestConcurrency, GovernorAssumption DEF Gates
<1>3. Cardinality(Children) \in Nat
  BY SomeChildren
<1>4. \A g \in Gates : /\ gate[g].capacity = n /\ gate[g].active = 0
                       /\ gate[g].waiters = <<>> /\ gate[g] \in Gate
  BY <1>1, <1>2, <1>3 DEF NewGate, Gate
<1>5. \A c \in Children :
        /\ child[c] \in Child /\ child[c].pc = "try" /\ child[c].held = {}
        /\ child[c].granted = None /\ ~child[c].calling
        /\ child[c].at = IF OwnerOf[c] = None THEN Fleet ELSE OwnerOf[c]
  BY GovernorAssumption DEF Init, NewChild, Child, Gates
<1>6. LaunchOK
  <2>1. gate \in [Gates -> Gate]
    BY <1>1, <1>4
  <2>2. child \in [Children -> Child]
    BY <1>5 DEF Init
  <2>3. \A c \in Children : PermitsFit(c, child[c])
    BY <1>5 DEF PermitsFit, OwnPermit
  <2> QED
    BY <2>1, <2>2, <2>3 DEF LaunchOK
<1>7. CountersOK
  <2>1. {c \in Children : child[c].calling} = {}
    BY <1>5
  <2>2. Cardinality({c \in Children : child[c].calling}) = 0
    BY <2>1, FS_EmptySet
  <2>3. MaxCalls \in Nat /\ SuccessStep \in Nat
    BY GovernorAssumption
  <2>4. /\ calls = 0 /\ successes = 0
        /\ limited = [k \in Ages |-> 0] /\ attempts = [k \in Ages |-> 0]
    BY DEF Init
  <2> DEFINE a == Cardinality({c \in Children : child[c].calling})
  <2>5. a = 0
    BY <2>2
  <2> HIDE DEF a
  <2>6. \A k \in Ages : attempts[k] <= calls /\ limited[k] + a <= calls
    BY <2>4, <2>5
  <2>7. /\ calls \in 0..MaxCalls /\ successes \in 0..SuccessStep
        /\ limited \in [Ages -> 0..MaxCalls] /\ attempts \in [Ages -> 0..MaxCalls]
    BY <2>3, <2>4
  <2> QED
    BY <2>6, <2>7 DEF CountersOK, a
<1>8. CapacityOK
  <2>1. paused \in BOOLEAN /\ ~paused
    BY DEF Init
  <2>2. maxCap \in 1..MaxConcurrency /\ gate[Fleet].capacity \in 1..maxCap
    BY <1>1, <1>2, <1>4
  <2> QED
    BY <2>1, <2>2 DEF CapacityOK
<1>9. SlotsCounted
  <2>1. ASSUME NEW g \in Gates PROVE {c \in Children : HasPermit(c, g)} = {}
    BY <1>2, <1>5 DEF HasPermit, Permit
  <2>2. ASSUME NEW g \in Gates
        PROVE  gate[g].active = Cardinality({c \in Children : HasPermit(c, g)})
    BY <2>1, <1>4, FS_EmptySet
  <2>3. ASSUME NEW g \in Gates PROVE QueueHonest(g)
    BY <1>4, <1>5 DEF QueueHonest, Waits
  <2> QED
    BY <1>4, <2>2, <2>3 DEF SlotsCounted
<1> QED
  BY <1>6, <1>7, <1>8, <1>9 DEF GovernorInv, GovernorTypeOK

\* Every step of the launch path and of the governor is sound.
LEMMA NextOK == GovernorInv /\ [Next]_launchVars => StepOK
<1> SUFFICES ASSUME GovernorInv, [Next]_launchVars PROVE StepOK
  OBVIOUS
<1>1. ASSUME NEW c \in Children, Launch(c) PROVE StepOK
  BY <1>1, TryAcquireOK, AcquireOK, ReceiveOK DEF Launch
<1>2. ASSUME NEW c \in Children, StopWaiting(c) PROVE StepOK
  BY <1>2, StopWaitingOK
<1>3. ASSUME NEW c \in Children, RecordAttempt(c) PROVE StepOK
  BY <1>3, RecordAttemptOK
<1>4. ASSUME NEW c \in Children, Answer(c) PROVE StepOK
  BY <1>4, RecordRateLimitedOK, RecordSuccessOK, RecordNothingOK DEF Answer
<1>5. ASSUME NEW c \in Children, Finish(c) PROVE StepOK
  BY <1>5, FinishOK
<1>6. ASSUME NEW c \in Children, DropPermit(c) PROVE StepOK
  BY <1>6, DropPermitOK
<1>7. ASSUME NEW c \in Children, Probe(c) PROVE StepOK
  BY <1>7, ProbeOK
<1>8. ASSUME NEW n \in Concurrency, Configure(n) PROVE StepOK
  BY <1>8, ConfigureOK
<1>9. ASSUME NEW n \in Concurrency, NEW o \in Owners, ConfigureOwner(o, n) PROVE StepOK
  BY <1>9, ConfigureOwnerOK
<1>10. CASE Clock
  BY <1>10, ClockOK
<1>11. CASE UNCHANGED launchVars
  <2>1. LaunchOK /\ SlotsCounted
        /\ UNCHANGED <<gate, child, governorVars, calls>> /\ Fleet \in Gates
    BY <1>11 DEF GovernorInv, GovernorTypeOK, launchVars, Gates
  <2>2. /\ LaunchOK' /\ SlotsCounted' /\ InOrder
        /\ \A d \in Children, h \in Gates : HasPermit(d, h)' <=> HasPermit(d, h)
    BY <2>1, LaunchKept
  <2> QED
    BY <2>1, <2>2, LaunchStep
<1> QED
  BY <1>1, <1>2, <1>3, <1>4, <1>5, <1>6, <1>7, <1>8, <1>9, <1>10, <1>11 DEF Next

\* The inductive invariant of gates and governor.
THEOREM GovernorInvariant == Spec => []GovernorInv
<1>1. GovernorInv /\ [Next]_launchVars => GovernorInv'
  BY NextOK DEF StepOK
<1> QED
  BY InitOK, <1>1, PTL DEF Spec

\* Types hold, the fleet gate is closed in a pause and else within the ceiling,
\* and a child has the permits its place in the launch calls for.
THEOREM GovernorTyped == Spec => []GovernorTypeOK
<1>1. GovernorInv => GovernorTypeOK
  BY DEF GovernorInv
<1> QED
  BY GovernorInvariant, <1>1, PTL

\* Every gate counts exactly the permits that exist, loses no waiter and keeps
\* none waiting beside a free slot, for any number of children and owners.
THEOREM PermitsCounted == Spec => []SlotsCounted
<1>1. GovernorInv => SlotsCounted
  BY DEF GovernorInv
<1> QED
  BY GovernorInvariant, <1>1, PTL

\* Nobody overtakes a child that waits at the same gate.
THEOREM GateIsFair == Spec => NoOvertaking
<1>1. GovernorInv /\ [Next]_launchVars => [InOrder]_launchVars
  BY NextOK DEF StepOK
<1> QED
  BY GovernorInvariant, <1>1, PTL DEF Spec, NoOvertaking

\* No child gets a permit of the fleet gate during a pause.
THEOREM PauseHolds == Spec => PauseAdmitsNobody
<1>1. GovernorInv /\ [Next]_launchVars => [AdmitsNobody]_launchVars
  BY NextOK DEF StepOK
<1> QED
  BY GovernorInvariant, <1>1, PTL DEF Spec, PauseAdmitsNobody

=============================================================================
