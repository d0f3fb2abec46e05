------------------------------- MODULE SpscRing -------------------------------
(***************************************************************************)
(* The lock-free ring between the WiFi task, whose receive callback        *)
(* pushes frames, and the loop task, which pops them.  Each operation is   *)
(* split at its atomic accesses; storing and copying an item are not       *)
(* atomic, so each is two steps, and an item read while it is written is   *)
(* Torn.  The loads and stores of head_ and tail_ are acquire/release: an  *)
(* index that is seen brings everything written before it.                 *)
(***************************************************************************)
EXTENDS Integers, Sequences

CONSTANTS
  N,        (* number of slots, a power of two *)
  Wrap,     (* size of the index type: 2^32 in the code *)
  Items, Torn, Nothing

ASSUME SlotAssumption ==
  /\ N \in Nat \ {0, 1} /\ Wrap \in Nat \ {0}
  /\ Wrap % N = 0 /\ Wrap > N

VARIABLES
  items, head, tail,
  push_pc, push_item,   (* where push() is, and its argument *)
  pop_pc, pop_item,     (* where pop() is, and what it copied *)
  pushed, popped        (* what they returned last *)

producerVars == <<push_pc, push_item, pushed>>
consumerVars == <<pop_pc, pop_item, popped>>
vars == <<items, head, tail, producerVars, consumerVars>>

Slot(index) == index % N
Used == (head - tail) % Wrap

Init ==
  /\ items \in [0 .. N - 1 -> {Nothing}]
  /\ head = 0 /\ tail = 0
  /\ push_pc = "idle" /\ push_item = Nothing /\ pushed = TRUE
  /\ pop_pc = "idle" /\ pop_item = Nothing /\ popped = Nothing

FaultyIsFull == Used > N
FaultyIsFullEarly == Used >= N - 1
IsFull == Used >= N

-----------------------------------------------------------------------------
(* push(item): load tail_; full means the item is dropped. *)
BeginPush(item) ==
  /\ push_pc = "idle"
  /\ \/ IsFull /\ pushed' = FALSE /\ UNCHANGED <<push_pc, push_item>>
     \/ ~IsFull /\ push_pc' = "write" /\ push_item' = item /\ UNCHANGED pushed
  /\ UNCHANGED <<items, head, tail, consumerVars>>

StartWrite ==
  /\ push_pc = "write"
  /\ items' = [items EXCEPT ![Slot(head)] = Torn]
  /\ push_pc' = "written"
  /\ UNCHANGED <<head, tail, push_item, pushed, consumerVars>>

FinishWrite ==
  /\ push_pc = "written"
  /\ items' = [items EXCEPT ![Slot(head)] = push_item]
  /\ push_pc' = "publish"
  /\ UNCHANGED <<head, tail, push_item, pushed, consumerVars>>

(* The release store of head_. *)
Publish ==
  /\ push_pc = "publish"
  /\ head' = (head + 1) % Wrap
  /\ push_pc' = "idle" /\ push_item' = Nothing /\ pushed' = TRUE
  /\ UNCHANGED <<items, tail, consumerVars>>

(* pop(item): load head_; equal to tail_ means there is none. *)
BeginPop ==
  /\ pop_pc = "idle"
  /\ \/ tail = head /\ popped' = Nothing /\ UNCHANGED pop_pc
     \/ tail # head /\ pop_pc' = "copy" /\ UNCHANGED popped
  /\ UNCHANGED <<items, head, tail, pop_item, producerVars>>

StartCopy ==
  /\ pop_pc = "copy"
  /\ pop_item' = items[Slot(tail)]
  /\ pop_pc' = "copied"
  /\ UNCHANGED <<items, head, tail, popped, producerVars>>

FinishCopy ==
  /\ pop_pc = "copied"
  /\ pop_item' = IF items[Slot(tail)] = pop_item THEN pop_item ELSE Torn
  /\ pop_pc' = "release"
  /\ UNCHANGED <<items, head, tail, popped, producerVars>>

(* The release store of tail_, after which the slot may be reused. *)
Release ==
  /\ pop_pc = "release"
  /\ tail' = (tail + 1) % Wrap
  /\ pop_pc' = "idle" /\ pop_item' = Nothing /\ popped' = pop_item
  /\ UNCHANGED <<items, head, producerVars>>

Push == (\E item \in Items : BeginPush(item)) \/ StartWrite \/ FinishWrite \/ Publish
Pop == BeginPop \/ StartCopy \/ FinishCopy \/ Release
Next == Push \/ Pop

Spec == Init /\ [][Next]_vars

-----------------------------------------------------------------------------
(* Types; no more slots are in use than there are, and those in use hold   *)
(* whole items.                                                            *)
RingTypeOK ==
  /\ head \in 0 .. Wrap - 1 /\ tail \in 0 .. Wrap - 1 /\ Used <= N
  /\ push_pc \in {"idle", "write", "written", "publish"}
  /\ pop_pc \in {"idle", "copy", "copied", "release"}
  /\ \A i \in 0 .. Used - 1 : items[Slot(tail + i)] \in Items

(* The two tasks never touch one slot at the same time. *)
SlotsExclusive ==
  push_pc \in {"write", "written", "publish"} /\ pop_pc \in {"copy", "copied", "release"}
    => Slot(head) # Slot(tail)

(* A push takes effect where head_ is stored and a pop where tail_ is; a   *)
(* push that fails, where tail_ is loaded, and a pop that finds nothing,   *)
(* where head_ is.  So read, the ring is the bounded queue.                *)
Fifo == INSTANCE BoundedFifo WITH
          Size <- N, queue <- [i \in 1 .. Used |-> items[Slot(tail + i - 1)]]

ImplementsFifo == Fifo!FifoSpec
=============================================================================
