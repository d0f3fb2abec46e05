---------------------------- MODULE SpscRingProofs ----------------------------
(* What holds of SpscRing for every number of slots that divides the size  *)
(* of the index type, so for every power of two below 2^32.                *)
EXTENDS SpscRing, SequenceTheorems, ClockLemmas

Indices == 0 .. Wrap - 1

(* Index arithmetic without remainders. *)
LEMMA Successor == \A i \in Indices : (i + 1) % Wrap = IF i + 1 = Wrap THEN 0 ELSE i + 1
<1> SUFFICES ASSUME NEW i \in Indices
             PROVE  (i + 1) % Wrap = IF i + 1 = Wrap THEN 0 ELSE i + 1
  OBVIOUS
<1>1. CASE i + 1 = Wrap
  <2>1. i + 1 = Wrap * 1 + 0 /\ 0 \in 0 .. Wrap - 1
    BY <1>1, SlotAssumption
  <2> QED
    BY <1>1, <2>1, ModUnique, SlotAssumption
<1>2. CASE i + 1 # Wrap
  <2>1. i + 1 = Wrap * 0 + (i + 1) /\ i + 1 \in 0 .. Wrap - 1
    BY <1>2, SlotAssumption DEF Indices
  <2> QED
    BY <1>2, <2>1, ModUnique, SlotAssumption
<1> QED
  BY <1>1, <1>2

LEMMA Distance ==
  \A i, j \in Indices : (i - j) % Wrap = IF i >= j THEN i - j ELSE i - j + Wrap
<1> SUFFICES ASSUME NEW i \in Indices, NEW j \in Indices
             PROVE  (i - j) % Wrap = IF i >= j THEN i - j ELSE i - j + Wrap
  OBVIOUS
<1>1. CASE i >= j
  <2>1. i - j = Wrap * 0 + (i - j) /\ i - j \in 0 .. Wrap - 1
    BY <1>1, SlotAssumption DEF Indices
  <2> QED
    BY <1>1, <2>1, ModUnique, SlotAssumption
<1>2. CASE i < j
  <2>1. i - j = Wrap * (-1) + (i - j + Wrap) /\ i - j + Wrap \in 0 .. Wrap - 1
    BY <1>2, SlotAssumption DEF Indices
  <2> QED
    BY <1>2, <2>1, ModUnique, SlotAssumption DEF Indices
<1> QED
  BY <1>1, <1>2 DEF Indices

(* The slots: an index and its wrapped form name the same slot, and fewer  *)
(* than N indices in a row name different ones.                            *)
LEMMA SlotType == \A i \in Int : Slot(i) \in 0 .. N - 1
  BY DivMod, SlotAssumption DEF Slot

LEMMA SlotWrap == \A i \in Int : Slot(i + Wrap) = Slot(i) /\ Slot(i - Wrap) = Slot(i)
<1>1. PICK k \in Int : Wrap = N * k
  <2>1. Wrap \div N \in Int /\ Wrap = N * (Wrap \div N)
    BY DivMod, SlotAssumption
  <2> QED
    BY <2>1
<1> SUFFICES ASSUME NEW i \in Int
             PROVE  (i + Wrap) % N = i % N /\ (i - Wrap) % N = i % N
  BY DEF Slot
<1>2. (i + N * k) % N = i % N
  BY ModShift, SlotAssumption
<1>3. (i + N * (-k)) % N = i % N
  <2>1. -k \in Int /\ N \in Nat \ {0}
    BY SlotAssumption
  <2> QED
    BY <2>1, ModShift
<1>4. i - Wrap = i + N * (-k)
  BY <1>1, SlotAssumption
<1> QED
  BY <1>1, <1>2, <1>3, <1>4

LEMMA SlotsDiffer ==
  \A i, j \in Int : i < j /\ j - i < N => Slot(i) # Slot(j)
<1> SUFFICES ASSUME NEW i \in Int, NEW j \in Int, i < j, j - i < N, i % N = j % N
             PROVE  FALSE
  BY DEF Slot
<1> DEFINE k == (j \div N) - (i \div N)
<1>1. k \in Int /\ j - i = N * k
  BY DivMod, SlotAssumption
<1>2. CASE k >= 1
  BY <1>1, <1>2, SlotAssumption
<1>3. CASE k <= 0
  BY <1>1, <1>3, SlotAssumption
<1> QED
  BY <1>1, <1>2, <1>3

(* How many indices lie from t up to h, counting round the end.            *)
Count(h, t) == (h - t) % Wrap

LEMMA CountType == \A h, t \in Indices : Count(h, t) \in Indices /\ (Count(h, t) = 0 <=> h = t)
  BY Distance, SlotAssumption DEF Count, Indices

LEMMA SuccessorType == \A i \in Indices : (i + 1) % Wrap \in Indices
  BY Successor, SlotAssumption DEF Indices

LEMMA CountUp ==
  \A h, t \in Indices : Count(h, t) < N => Count((h + 1) % Wrap, t) = Count(h, t) + 1
<1> SUFFICES ASSUME NEW h \in Indices, NEW t \in Indices, Count(h, t) < N
             PROVE  Count((h + 1) % Wrap, t) = Count(h, t) + 1
  OBVIOUS
<1>1. Count(h, t) = IF h >= t THEN h - t ELSE h - t + Wrap
  BY Distance DEF Count
<1>2. (h + 1) % Wrap \in Indices
  BY SuccessorType
<1>3. Count((h + 1) % Wrap, t) = IF (h + 1) % Wrap >= t THEN ((h + 1) % Wrap) - t
                                 ELSE ((h + 1) % Wrap) - t + Wrap
  BY <1>2, Distance DEF Count
<1>4. (h + 1) % Wrap = IF h + 1 = Wrap THEN 0 ELSE h + 1
  BY Successor
<1> QED
  BY <1>1, <1>3, <1>4, SlotAssumption DEF Indices

LEMMA CountDown ==
  \A h, t \in Indices : h # t => Count(h, (t + 1) % Wrap) = Count(h, t) - 1
<1> SUFFICES ASSUME NEW h \in Indices, NEW t \in Indices, h # t
             PROVE  Count(h, (t + 1) % Wrap) = Count(h, t) - 1
  OBVIOUS
<1>1. Count(h, t) = IF h >= t THEN h - t ELSE h - t + Wrap
  BY Distance DEF Count
<1>2. (t + 1) % Wrap \in Indices
  BY SuccessorType
<1>3. Count(h, (t + 1) % Wrap) = IF h >= (t + 1) % Wrap THEN h - ((t + 1) % Wrap)
                                 ELSE h - ((t + 1) % Wrap) + Wrap
  BY <1>2, Distance DEF Count
<1>4. (t + 1) % Wrap = IF t + 1 = Wrap THEN 0 ELSE t + 1
  BY Successor
<1> QED
  BY <1>1, <1>3, <1>4, SlotAssumption DEF Indices

(* The slot at the head is the one after the slots in use.                 *)
LEMMA HeadSlot == \A h, t \in Indices : Slot(t + Count(h, t)) = Slot(h)
<1> SUFFICES ASSUME NEW h \in Indices, NEW t \in Indices
             PROVE  Slot(t + Count(h, t)) = Slot(h)
  OBVIOUS
<1>1. t + Count(h, t) = h \/ t + Count(h, t) = h + Wrap
  BY Distance, SlotAssumption DEF Count, Indices
<1>2. Slot(h + Wrap) = Slot(h)
  BY SlotWrap DEF Indices
<1> QED
  BY <1>1, <1>2

LEMMA TailSlot == \A t \in Indices, i \in Int : Slot(((t + 1) % Wrap) + i) = Slot(t + (i + 1))
<1> SUFFICES ASSUME NEW t \in Indices, NEW i \in Int
             PROVE  Slot(((t + 1) % Wrap) + i) = Slot(t + (i + 1))
  OBVIOUS
<1>1. ((t + 1) % Wrap) + i = t + (i + 1) \/ ((t + 1) % Wrap) + i = (t + (i + 1)) - Wrap
  BY Successor, SlotAssumption DEF Indices
<1>2. t + (i + 1) \in Int
  BY SlotAssumption DEF Indices
<1>3. Slot((t + (i + 1)) - Wrap) = Slot(t + (i + 1))
  BY <1>2, SlotWrap
<1> QED
  BY <1>1, <1>3

-----------------------------------------------------------------------------
(* The inductive invariant: SpscRing's own, with what each task relies on  *)
(* between its steps.                                                      *)
IndexOK ==
  /\ items \in [0 .. N - 1 -> Items \union {Torn, Nothing}]
  /\ head \in Indices /\ tail \in Indices
  /\ Count(head, tail) <= N

InUse == \A i \in 0 .. Count(head, tail) - 1 : items[Slot(tail + i)] \in Items

PushOK ==
  /\ push_pc \in {"idle", "write", "written", "publish"}
  /\ push_pc # "idle" => push_item \in Items /\ Count(head, tail) < N
  /\ push_pc = "publish" => items[Slot(head)] = push_item

PopOK ==
  /\ pop_pc \in {"idle", "copy", "copied", "release"}
  /\ pop_pc # "idle" => tail # head
  /\ pop_pc \in {"copied", "release"} => pop_item = items[Slot(tail)]

RingInv == IndexOK /\ InUse /\ PushOK /\ PopOK

(* While there is room the slot being written is none of those in use.     *)
LEMMA FreeSlot ==
  ASSUME IndexOK, Count(head, tail) < N
  PROVE  /\ \A i \in 0 .. Count(head, tail) - 1 : Slot(tail + i) # Slot(head)
         /\ tail # head => Slot(tail) # Slot(head)
<1> DEFINE used == Count(head, tail)
<1>1. used \in Nat /\ used < N /\ (used = 0 <=> head = tail) /\ tail \in Int
  BY CountType DEF IndexOK, Indices
<1>2. Slot(tail + used) = Slot(head)
  BY HeadSlot DEF IndexOK
<1> HIDE DEF used
<1>3. ASSUME NEW i \in 0 .. used - 1
      PROVE  Slot(tail + i) # Slot(head)
  <2>1. tail + i \in Int /\ tail + used \in Int
        /\ tail + i < tail + used /\ (tail + used) - (tail + i) < N
    BY <1>1, SlotAssumption
  <2> QED
    BY <1>2, <2>1, SlotsDiffer
<1>4. ASSUME tail # head
      PROVE  Slot(tail) # Slot(head)
  <2>1. 0 \in 0 .. used - 1 /\ tail + 0 = tail
    BY <1>1, <1>4
  <2> QED
    BY <1>3, <2>1
<1> QED
  BY <1>3, <1>4 DEF used

LEMMA InitRing == Init => RingInv
<1> SUFFICES ASSUME Init PROVE RingInv
  OBVIOUS
<1>1. 0 \in Indices
  BY SlotAssumption DEF Indices
<1>2. Count(0, 0) = 0
  BY <1>1, CountType
<1> QED
  BY <1>1, <1>2, SlotAssumption DEF Init, RingInv, IndexOK, InUse, PushOK, PopOK

(* A write to the free slot leaves the slots in use alone.                 *)
LEMMA WriteFree ==
  ASSUME RingInv, push_pc # "idle", NEW x \in Items \union {Torn},
         items' = [items EXCEPT ![Slot(head)] = x], UNCHANGED <<head, tail>>
  PROVE  /\ IndexOK' /\ InUse' /\ items'[Slot(head)] = x
         /\ \A i \in 0 .. Count(head, tail) - 1 : items'[Slot(tail + i)] = items[Slot(tail + i)]
         /\ tail # head => items'[Slot(tail)] = items[Slot(tail)]
<1>1. IndexOK /\ Count(head, tail) < N
  BY DEF RingInv, PushOK
<1>2. Slot(head) \in 0 .. N - 1
  BY <1>1, SlotType DEF IndexOK, Indices
<1>3. \A i \in 0 .. Count(head, tail) - 1 :
        /\ Slot(tail + i) \in 0 .. N - 1 /\ Slot(tail + i) # Slot(head)
  <2>1. Count(head, tail) \in Int /\ tail \in Int
    BY <1>1, CountType, SlotAssumption DEF IndexOK, Indices
  <2>2. \A i \in 0 .. Count(head, tail) - 1 : tail + i \in Int
    BY <2>1
  <2> QED
    BY <1>1, <2>2, FreeSlot, SlotType
<1>4. tail # head => Slot(tail) # Slot(head) /\ Slot(tail) \in 0 .. N - 1
  BY <1>1, FreeSlot, SlotType DEF IndexOK, Indices
<1>5. Count(head, tail)' = Count(head, tail) /\ Indices' = Indices
  BY DEF Count, Indices
<1>6. items' \in [0 .. N - 1 -> Items \union {Torn, Nothing}]
  BY <1>1, <1>2 DEF IndexOK
<1>7. \A i \in 0 .. Count(head, tail) - 1 : items'[Slot(tail + i)] = items[Slot(tail + i)]
  BY <1>1, <1>3 DEF IndexOK
<1>8. InUse'
  BY <1>5, <1>7 DEF RingInv, InUse, Slot
<1> QED
  BY <1>1, <1>2, <1>4, <1>5, <1>6, <1>7, <1>8 DEF IndexOK

LEMMA StepRing == RingInv /\ [Next]_vars => RingInv'
<1> SUFFICES ASSUME RingInv, [Next]_vars PROVE RingInv'
  OBVIOUS
<1> USE DEF RingInv
<1>1. ASSUME NEW item \in Items, BeginPush(item)
      PROVE  RingInv'
  <2>1. IndexOK' /\ InUse' /\ PopOK'
    BY <1>1 DEF BeginPush, consumerVars, IndexOK, InUse, PopOK, Indices, Count, Slot
  <2>2. CASE IsFull /\ UNCHANGED <<push_pc, push_item>>
    BY <1>1, <2>1, <2>2 DEF BeginPush, PushOK, Count, Slot
  <2>3. CASE ~IsFull /\ push_pc' = "write" /\ push_item' = item
    <3>1. Count(head, tail)' < N
      <4>1. Count(head, tail) \in Int /\ ~(Count(head, tail) >= N)
        BY <2>3, CountType DEF IsFull, Used, Count, IndexOK, Indices
      <4>2. Count(head, tail)' = Count(head, tail)
        BY <1>1 DEF BeginPush, Count
      <4> QED
        BY <4>1, <4>2, SlotAssumption
    <3> QED
      BY <2>1, <2>3, <3>1 DEF PushOK
  <2> QED
    BY <1>1, <2>1, <2>2, <2>3 DEF BeginPush
<1>2. CASE StartWrite
  <2>1. push_pc # "idle" /\ Torn \in Items \union {Torn}
    BY <1>2 DEF StartWrite
  <2>2. IndexOK' /\ InUse' /\ (tail # head => items'[Slot(tail)] = items[Slot(tail)])
    BY <1>2, <2>1, WriteFree DEF StartWrite
  <2>3. PushOK'
    BY <1>2 DEF StartWrite, PushOK, Count
  <2>4. PopOK'
    BY <1>2, <2>2 DEF StartWrite, PopOK, consumerVars, Slot
  <2> QED
    BY <2>2, <2>3, <2>4
<1>3. CASE FinishWrite
  <2>1. push_pc # "idle" /\ push_item \in Items \union {Torn}
    BY <1>3 DEF FinishWrite, PushOK
  <2>2. /\ IndexOK' /\ InUse' /\ items'[Slot(head)] = push_item
        /\ tail # head => items'[Slot(tail)] = items[Slot(tail)]
    BY <1>3, <2>1, WriteFree DEF FinishWrite
  <2>3. PushOK'
    BY <1>3, <2>2 DEF FinishWrite, PushOK, Count, Slot
  <2>4. PopOK'
    BY <1>3, <2>2 DEF FinishWrite, PopOK, consumerVars, Slot
  <2> QED
    BY <2>2, <2>3, <2>4
<1>4. CASE Publish
  <2>1. /\ push_item \in Items /\ Count(head, tail) < N
        /\ items[Slot(head)] = push_item /\ Count(head, tail) \in Int
    BY <1>4, CountType DEF Publish, PushOK, IndexOK, Indices
  <2>2. Count(head, tail)' = Count(head, tail) + 1
    BY <1>4, <2>1, CountUp DEF Publish, IndexOK, Count
  <2>3. IndexOK'
    <3>1. head' \in Indices
      BY <1>4, SuccessorType DEF Publish, IndexOK
    <3>2. Count(head, tail)' <= N
      BY <2>1, <2>2, SlotAssumption
    <3> QED
      BY <1>4, <3>1, <3>2 DEF Publish, IndexOK, Indices
  <2>4. InUse'
    <3>1. items[Slot(tail + Count(head, tail))] \in Items
      BY <2>1, HeadSlot DEF IndexOK
    <3>2. \A i \in 0 .. Count(head, tail) : items[Slot(tail + i)] \in Items
      BY <2>1, <3>1 DEF InUse
    <3> QED
      BY <1>4, <2>1, <2>2, <3>2 DEF Publish, InUse, Slot
  <2>5. PushOK'
    BY <1>4 DEF Publish, PushOK
  <2>6. PopOK'
    <3>1. Count(head, tail)' # 0
      BY <2>1, <2>2, CountType DEF IndexOK, Indices
    <3>2. tail' # head'
      BY <2>3, <3>1, CountType DEF IndexOK, Count, Indices
    <3> QED
      BY <1>4, <3>2 DEF Publish, PopOK, consumerVars, Slot
  <2> QED
    BY <2>3, <2>4, <2>5, <2>6
<1>5. CASE BeginPop
  BY <1>5 DEF BeginPop, producerVars, IndexOK, InUse, PushOK, PopOK, Indices, Count, Slot
<1>6. CASE StartCopy
  BY <1>6 DEF StartCopy, producerVars, IndexOK, InUse, PushOK, PopOK, Indices, Count, Slot
<1>7. CASE FinishCopy
  BY <1>7 DEF FinishCopy, producerVars, IndexOK, InUse, PushOK, PopOK, Indices, Count, Slot
<1>8. CASE Release
  <2>1. tail # head /\ Count(head, tail) \in Int
    BY <1>8, CountType DEF Release, PopOK, IndexOK, Indices
  <2>2. Count(head, tail)' = Count(head, tail) - 1
    BY <1>8, <2>1, CountDown DEF Release, IndexOK, Count
  <2>3. IndexOK'
    <3>1. tail' \in Indices
      BY <1>8, SuccessorType DEF Release, IndexOK
    <3>2. Count(head, tail)' <= N
      BY <2>1, <2>2, SlotAssumption DEF IndexOK
    <3> QED
      BY <1>8, <3>1, <3>2 DEF Release, IndexOK, Indices
  <2>4. InUse'
    <3> SUFFICES ASSUME NEW i \in 0 .. Count(head, tail) - 2
                 PROVE  items[Slot(tail' + i)] \in Items
      BY <1>8, <2>1, <2>2 DEF Release, InUse, Slot
    <3>1. i \in Int /\ i + 1 \in 0 .. Count(head, tail) - 1
      BY <2>1
    <3>2. Slot(tail' + i) = Slot(tail + (i + 1))
      BY <1>8, <3>1, TailSlot DEF Release, IndexOK
    <3> QED
      BY <3>1, <3>2 DEF InUse
  <2>5. PushOK'
    <3>1. Count(head, tail) < N => Count(head, tail)' < N
      BY <2>1, <2>2, SlotAssumption
    <3> QED
      BY <1>8, <3>1 DEF Release, PushOK, producerVars, Slot
  <2>6. PopOK'
    BY <1>8 DEF Release, PopOK
  <2> QED
    BY <2>3, <2>4, <2>5, <2>6
<1>9. CASE UNCHANGED vars
  BY <1>9 DEF vars, producerVars, consumerVars, IndexOK, InUse, PushOK, PopOK, Indices, Count, Slot
<1> QED
  BY <1>1, <1>2, <1>3, <1>4, <1>5, <1>6, <1>7, <1>8, <1>9 DEF Next, Push, Pop

THEOREM RingInvariant == Spec => []RingInv
  BY InitRing, StepRing, PTL DEF Spec

(* No more slots are in use than there are, and every slot in use holds a  *)
(* whole item: a frame half written by the WiFi task is never in the queue. *)
THEOREM RingTypeCorrect == Spec => []RingTypeOK
<1>1. RingInv => RingTypeOK
  BY DEF RingInv, IndexOK, InUse, PushOK, PopOK, RingTypeOK, Indices, Count, Used
<1> QED
  BY <1>1, RingInvariant, PTL

(* push and pop never touch one slot at the same time, whatever the        *)
(* interleaving and however often the indices have wrapped.                *)
THEOREM SlotsNeverShared == Spec => []SlotsExclusive
<1>1. RingInv => SlotsExclusive
  <2> SUFFICES ASSUME RingInv, push_pc # "idle", pop_pc # "idle"
               PROVE  Slot(head) # Slot(tail)
    BY DEF SlotsExclusive
  <2>1. IndexOK /\ Count(head, tail) < N /\ tail # head
    BY DEF RingInv, PushOK, PopOK
  <2> QED
    BY <2>1, FreeSlot
<1> QED
  BY <1>1, RingInvariant, PTL

-----------------------------------------------------------------------------
(* The queue the ring stands for, and how each step of the ring moves it.  *)
Queue == [i \in 1 .. Used |-> items[Slot(tail + i - 1)]]

LEMMA QueueSeq ==
  ASSUME RingInv
  PROVE  Used \in Nat /\ Used <= N /\ (Used = 0 <=> head = tail)
         /\ Queue \in Seq(Items) /\ Len(Queue) = Used
<1>1. Used \in Nat /\ Used <= N /\ (Used = 0 <=> head = tail)
  BY CountType DEF RingInv, IndexOK, Used, Count, Indices
<1>2. ASSUME NEW i \in 1 .. Used
      PROVE  items[Slot(tail + i - 1)] \in Items
  <2>1. i - 1 \in 0 .. Used - 1
    BY <1>1
  <2> QED
    BY <2>1 DEF RingInv, InUse, Used, Count
<1>3. Queue \in [1 .. Used -> Items]
  BY <1>2 DEF Queue
<1> QED
  BY <1>1, <1>3

LEMMA SameQueue ==
  ASSUME Used' = Used, tail' = tail,
         \A i \in 0 .. Used - 1 : items'[Slot(tail + i)] = items[Slot(tail + i)], Used \in Nat
  PROVE  Queue' = Queue
<1>1. \A i \in 1 .. Used : items'[Slot(tail + i - 1)] = items[Slot(tail + i - 1)]
  <2> SUFFICES ASSUME NEW i \in 1 .. Used
               PROVE  items'[Slot(tail + i - 1)] = items[Slot(tail + i - 1)]
    OBVIOUS
  <2>1. i - 1 \in 0 .. Used - 1
    OBVIOUS
  <2> QED
    BY <2>1
<1> QED
  BY <1>1 DEF Queue, Slot

LEMMA PublishAppends ==
  ASSUME RingInv, Publish
  PROVE  Queue' = Append(Queue, push_item) /\ push_item \in Items /\ Used < N
<1>1. /\ push_item \in Items /\ Used < N /\ items[Slot(head)] = push_item
  BY DEF RingInv, PushOK, Publish, Used, Count
<1>2. Used' = Used + 1
  BY <1>1, CountUp DEF Publish, RingInv, IndexOK, Count, Used
<1>3. items[Slot(tail + Used)] = push_item
  BY <1>1, HeadSlot DEF RingInv, IndexOK, Used, Count
<1>4. Queue' = [i \in 1 .. Used + 1 |-> items[Slot(tail + i - 1)]]
  BY <1>2 DEF Queue, Publish, Slot
<1>5. Used \in Nat /\ Queue \in Seq(Items) /\ Len(Queue) = Used
  BY QueueSeq
<1>6. ASSUME NEW i \in 1 .. Used + 1
      PROVE  items[Slot(tail + i - 1)] = IF i = Used + 1 THEN push_item ELSE Queue[i]
  <2>1. CASE i = Used + 1
    <3>1. i - 1 = Used
      BY <1>5, <2>1
    <3> QED
      BY <1>3, <2>1, <3>1
  <2>2. CASE i # Used + 1
    <3>1. i \in 1 .. Used
      BY <1>5, <2>2
    <3> QED
      BY <2>2, <3>1 DEF Queue
  <2> QED
    BY <2>1, <2>2
<1>7. Queue' \in Seq(Items) /\ Len(Queue') = Used + 1
  <2>1. \A i \in 1 .. Used + 1 : items[Slot(tail + i - 1)] \in Items
    <3> SUFFICES ASSUME NEW i \in 1 .. Used + 1
                 PROVE  (IF i = Used + 1 THEN push_item ELSE Queue[i]) \in Items
      BY <1>6
    <3>1. CASE i # Used + 1
      <4>1. i \in 1 .. Len(Queue)
        BY <1>5, <3>1
      <4>2. Queue[i] \in Items
        BY <1>5, <4>1, ElementOfSeq
      <4> QED
        BY <3>1, <4>2
    <3> QED
      BY <1>1, <3>1
  <2>2. Queue' \in [1 .. Used + 1 -> Items] /\ Used + 1 \in Nat
    BY <1>4, <1>5, <2>1
  <2> QED
    BY <2>2
<1>8. /\ Append(Queue, push_item) \in Seq(Items)
      /\ Len(Append(Queue, push_item)) = Used + 1
      /\ \A i \in 1 .. Used : Append(Queue, push_item)[i] = Queue[i]
      /\ Append(Queue, push_item)[Used + 1] = push_item
  BY <1>1, <1>5, AppendProperties
<1>9. \A i \in 1 .. Len(Queue') : Queue'[i] = Append(Queue, push_item)[i]
  BY <1>4, <1>5, <1>6, <1>7, <1>8
<1>10. Queue' = Append(Queue, push_item)
  BY <1>7, <1>8, <1>9, SeqEqual
<1> QED
  BY <1>1, <1>10

LEMMA ReleaseTakes ==
  ASSUME RingInv, Release
  PROVE  Queue # <<>> /\ popped' = Head(Queue) /\ Queue' = Tail(Queue)
<1>1. tail # head /\ pop_item = items[Slot(tail)] /\ tail \in Indices /\ tail \in Int
  BY SlotAssumption DEF RingInv, IndexOK, Indices, PopOK, Release
<1>2. Used \in Nat /\ Used # 0 /\ Queue \in Seq(Items) /\ Len(Queue) = Used
  BY <1>1, QueueSeq
<1>3. Used' = Used - 1
  BY <1>1, CountDown DEF Release, RingInv, IndexOK, Count, Used
<1>4. Queue[1] = items[Slot(tail)]
  <2>1. 1 \in 1 .. Used /\ tail + 1 - 1 = tail
    BY <1>1, <1>2
  <2> QED
    BY <2>1 DEF Queue
<1>5. Queue' = [i \in 1 .. Used - 1 |-> items[Slot(tail' + i - 1)]]
  BY <1>3 DEF Queue, Release, Slot
<1>6. Queue # <<>> /\ Head(Queue) = Queue[1]
  BY <1>2
<1>7. /\ Tail(Queue) \in Seq(Items) /\ Len(Tail(Queue)) = Used - 1
      /\ \A i \in 1 .. Used - 1 : Tail(Queue)[i] = Queue[i + 1]
  BY <1>2, <1>6, HeadTailProperties
<1>8. ASSUME NEW i \in 1 .. Used - 1
      PROVE  items[Slot(tail' + i - 1)] = Queue[i + 1] /\ Queue[i + 1] \in Items
  <2>1. i \in Int /\ i - 1 \in Int /\ i + 1 \in 1 .. Used /\ (i - 1) + 1 = (i + 1) - 1
    BY <1>2
  <2>2. Slot(tail' + (i - 1)) = Slot(tail + ((i - 1) + 1))
    BY <1>1, <2>1, TailSlot DEF Release
  <2>3. Queue[i + 1] = items[Slot(tail + ((i + 1) - 1))]
    BY <2>1 DEF Queue
  <2> QED
    BY <1>2, <2>1, <2>2, <2>3
<1>9. Queue' \in Seq(Items) /\ Len(Queue') = Used - 1
  BY <1>2, <1>5, <1>8
<1>10. Queue' = Tail(Queue)
  <2>1. \A i \in 1 .. Len(Queue') : Queue'[i] = Tail(Queue)[i]
    BY <1>5, <1>7, <1>8, <1>9
  <2> QED
    BY <1>7, <1>9, <2>1, SeqEqual
<1> QED
  BY <1>1, <1>4, <1>6, <1>10 DEF Release

(* The ring is the bounded queue: what is pushed is popped once, in order, *)
(* and a frame is dropped only when all N slots are in use.                *)
THEOREM RingIsFifo == Spec => ImplementsFifo
<1>1. Init => Fifo!FifoInit
  <2> SUFFICES ASSUME Init PROVE Queue = <<>>
    BY DEF Init, Fifo!FifoInit, Queue
  <2>1. Used = 0
    BY InitRing, QueueSeq DEF Init
  <2>2. Queue = [i \in 1 .. 0 |-> items[Slot(tail + i - 1)]]
    BY <2>1 DEF Queue
  <2> QED
    BY <2>2
<1>2. RingInv /\ RingInv' /\ [Next]_vars => [Fifo!FifoNext]_Fifo!fifoVars
  <2> SUFFICES ASSUME RingInv, RingInv', [Next]_vars
               PROVE  \/ \E item \in Items : /\ Len(Queue) < N /\ Queue' = Append(Queue, item)
                                             /\ pushed' = TRUE /\ popped' = popped
                      \/ /\ Len(Queue) = N /\ pushed' = FALSE /\ Queue' = Queue
                         /\ popped' = popped
                      \/ /\ Queue # <<>> /\ popped' = Head(Queue) /\ Queue' = Tail(Queue)
                         /\ pushed' = pushed
                      \/ /\ Queue = <<>> /\ popped' = Nothing /\ Queue' = Queue
                         /\ pushed' = pushed
                      \/ Queue' = Queue /\ pushed' = pushed /\ popped' = popped
    BY DEF Queue, Fifo!FifoNext, Fifo!Put, Fifo!Drop, Fifo!Take, Fifo!TakeNothing, Fifo!fifoVars
  <2>1. /\ Used \in Nat /\ Used <= N /\ (Used = 0 <=> head = tail)
        /\ Queue \in Seq(Items) /\ Len(Queue) = Used
    BY QueueSeq
  <2>2. UNCHANGED <<items, head, tail>> => Queue' = Queue
    BY DEF Queue, Used, Slot
  <2>3. ASSUME NEW item \in Items, BeginPush(item)
        PROVE  /\ Queue' = Queue /\ popped' = popped
               /\ pushed' = pushed \/ (pushed' = FALSE /\ Len(Queue) = N)
    BY <2>1, <2>2, <2>3, SlotAssumption DEF BeginPush, IsFull, consumerVars
  <2>4. ASSUME NEW x \in Items \union {Torn}, push_pc # "idle",
               items' = [items EXCEPT ![Slot(head)] = x], UNCHANGED <<head, tail>>
        PROVE  Queue' = Queue
    <3>1. \A i \in 0 .. Used - 1 : items'[Slot(tail + i)] = items[Slot(tail + i)]
      BY <2>4, WriteFree DEF Used, Count
    <3> QED
      BY <2>1, <2>4, <3>1, SameQueue DEF Used
  <2>5. CASE StartWrite
    BY <2>4, <2>5 DEF StartWrite, consumerVars
  <2>6. CASE FinishWrite
    BY <2>4, <2>6 DEF FinishWrite, consumerVars, RingInv, PushOK
  <2>7. CASE Publish
    BY <2>1, <2>7, PublishAppends DEF Publish, consumerVars
  <2>8. CASE BeginPop
    BY <2>1, <2>2, <2>8 DEF BeginPop, producerVars
  <2>9. CASE StartCopy \/ FinishCopy
    BY <2>2, <2>9 DEF StartCopy, FinishCopy, producerVars
  <2>10. CASE Release
    BY <2>10, ReleaseTakes DEF Release, producerVars
  <2>11. CASE UNCHANGED vars
    BY <2>2, <2>11 DEF vars, producerVars, consumerVars
  <2> QED
    BY <2>3, <2>5, <2>6, <2>7, <2>8, <2>9, <2>10, <2>11 DEF Next, Push, Pop
<1> QED
  BY <1>1, <1>2, RingInvariant, PTL DEF Spec, ImplementsFifo, Fifo!FifoSpec
=============================================================================
