-------------------------- MODULE WorkStealingDeque --------------------------
(* async/work_stealing_deque.hpp: the Chase-Lev deque every worker of the   *)
(* pool owns.  The owner pushes and pops at the bottom, any other thread    *)
(* steals at the top.  Every atomic access that another thread can observe  *)
(* is a step of its own; the steps interleave sequentially consistently,    *)
(* which is what the fences of the code are there to provide.  The n-th     *)
(* value pushed is the number n, so a value names the push it came from.    *)
EXTENDS Naturals, Integers, Sequences

CONSTANTS
  Thieves,        \* the threads that steal
  Capacity,       \* template parameter Capacity: slots of the ring
  MaxPush         \* bound: how many values the owner ever pushes

ASSUME CapacityAssumption == Capacity \in Nat \ {0}
ASSUME MaxPushAssumption == MaxPush \in Nat

VARIABLES
  top, bottom,    \* _top and _bottom
  buffer,         \* _buffer; 0 is a slot never written
  owner_pc, owner_top, owner_value,
  thief_pc, thief_top, thief_value,
  pushed,         \* history: how many pushes returned true
  takes           \* history: how often each value was returned to a caller

vars == <<top, bottom, buffer, owner_pc, owner_top, owner_value,
          thief_pc, thief_top, thief_value, pushed, takes>>
owner_vars == <<owner_pc, owner_top, owner_value>>
thief_vars == <<thief_pc, thief_top, thief_value>>

Item == 1..MaxPush
Value == 0..MaxPush
OwnerPc == {"idle", "push_store", "push_publish", "pop_read", "pop_cas", "pop_restore"}
ThiefPc == {"idle", "read_bottom", "read_value", "cas"}

Slot(index) == index % Capacity

Init ==
  /\ top = 0 /\ bottom = 0
  /\ buffer = [s \in 0..(Capacity - 1) |-> 0]
  /\ owner_pc = "idle" /\ owner_top = 0 /\ owner_value = 0
  /\ thief_pc = [t \in Thieves |-> "idle"]
  /\ thief_top = [t \in Thieves |-> 0]
  /\ thief_value = [t \in Thieves |-> 0]
  /\ pushed = 0
  /\ takes = [i \in Item |-> 0]

-----------------------------------------------------------------------------
(* Seeded faults: operations of this module with one plausible bug each.    *)
(* Every property is checked to fail when its operation is so replaced.     *)
\* push() admits one element more than the ring has slots.
PushCheckOneTooMany ==
  /\ owner_pc = "idle"
  /\ pushed < MaxPush
  /\ bottom - top <= Capacity
  /\ owner_pc' = "push_store"
  /\ UNCHANGED <<top, bottom, buffer, owner_top, owner_value, thief_vars, pushed, takes>>

\* pop() takes the last element without the compare-exchange.
PopSeveralOrLast ==
  /\ owner_pc = "pop_read"
  /\ top <= bottom
  /\ takes' = [takes EXCEPT ![buffer[Slot(bottom)]] = @ + 1]
  /\ owner_pc' = "idle"
  /\ UNCHANGED <<top, bottom, buffer, owner_top, owner_value, thief_vars, pushed>>

\* pop() leaves the bottom lowered when the deque is empty.
PopNotRestored ==
  /\ owner_pc = "pop_restore"
  /\ owner_pc' = "idle"
  /\ UNCHANGED <<top, bottom, buffer, owner_top, owner_value, thief_vars, pushed, takes>>

\* steal() takes top = bottom for a deque with one element.
StealReadBottomLate(t) ==
  /\ thief_pc[t] = "read_bottom"
  /\ thief_pc' = [thief_pc EXCEPT ![t] = IF thief_top[t] > bottom THEN "idle" ELSE "read_value"]
  /\ UNCHANGED <<top, bottom, buffer, owner_vars, thief_top, thief_value, pushed, takes>>

\* steal() stores the top instead of exchanging it.
StealUnconditionally(t) ==
  /\ thief_pc[t] = "cas"
  /\ top' = thief_top[t] + 1
  /\ takes' = [takes EXCEPT ![thief_value[t]] = @ + 1]
  /\ thief_pc' = [thief_pc EXCEPT ![t] = "idle"]
  /\ UNCHANGED <<bottom, buffer, owner_vars, thief_top, thief_value, pushed>>

-----------------------------------------------------------------------------
(* push(): a full ring is refused, and the caller goes elsewhere with the   *)
(* value, so only a push that finds room is a step.                         *)
PushCheck ==
  /\ owner_pc = "idle"
  /\ pushed < MaxPush
  /\ bottom - top < Capacity
  /\ owner_pc' = "push_store"
  /\ UNCHANGED <<top, bottom, buffer, owner_top, owner_value, thief_vars, pushed, takes>>

PushStore ==
  /\ owner_pc = "push_store"
  /\ buffer' = [buffer EXCEPT ![Slot(bottom)] = pushed + 1]
  /\ owner_pc' = "push_publish"
  /\ UNCHANGED <<top, bottom, owner_top, owner_value, thief_vars, pushed, takes>>

PushPublish ==
  /\ owner_pc = "push_publish"
  /\ bottom' = bottom + 1
  /\ pushed' = pushed + 1
  /\ owner_pc' = "idle"
  /\ UNCHANGED <<top, buffer, owner_top, owner_value, thief_vars, takes>>

(* pop(): the bottom is lowered first, so that thieves see the reservation  *)
(* before the owner looks at the top.                                       *)
PopReserve ==
  /\ owner_pc = "idle"
  /\ bottom' = bottom - 1
  /\ owner_pc' = "pop_read"
  /\ UNCHANGED <<top, buffer, owner_top, owner_value, thief_vars, pushed, takes>>

PopEmpty ==
  /\ owner_pc = "pop_read"
  /\ top > bottom
  /\ owner_pc' = "pop_restore"
  /\ UNCHANGED <<top, bottom, buffer, owner_top, owner_value, thief_vars, pushed, takes>>

PopSeveral ==
  /\ owner_pc = "pop_read"
  /\ top < bottom
  /\ takes' = [takes EXCEPT ![buffer[Slot(bottom)]] = @ + 1]
  /\ owner_pc' = "idle"
  /\ UNCHANGED <<top, bottom, buffer, owner_top, owner_value, thief_vars, pushed>>

PopLast ==
  /\ owner_pc = "pop_read"
  /\ top = bottom
  /\ owner_top' = top
  /\ owner_value' = buffer[Slot(bottom)]
  /\ owner_pc' = "pop_cas"
  /\ UNCHANGED <<top, bottom, buffer, thief_vars, pushed, takes>>

(* The compare-exchange on the last element; the value counts as taken when *)
(* it succeeds, the bottom is put back by the next step either way.         *)
PopCas ==
  /\ owner_pc = "pop_cas"
  /\ IF top = owner_top
       THEN /\ top' = owner_top + 1
            /\ takes' = [takes EXCEPT ![owner_value] = @ + 1]
       ELSE UNCHANGED <<top, takes>>
  /\ owner_pc' = "pop_restore"
  /\ UNCHANGED <<bottom, buffer, owner_top, owner_value, thief_vars, pushed>>

PopRestore ==
  /\ owner_pc = "pop_restore"
  /\ bottom' = bottom + 1
  /\ owner_pc' = "idle"
  /\ UNCHANGED <<top, buffer, owner_top, owner_value, thief_vars, pushed, takes>>

-----------------------------------------------------------------------------
(* steal(): the top is read before the bottom, the value before the         *)
(* compare-exchange that decides whether it was ours to read.               *)
StealReadTop(t) ==
  /\ thief_pc[t] = "idle"
  /\ thief_top' = [thief_top EXCEPT ![t] = top]
  /\ thief_pc' = [thief_pc EXCEPT ![t] = "read_bottom"]
  /\ UNCHANGED <<top, bottom, buffer, owner_vars, thief_value, pushed, takes>>

StealReadBottom(t) ==
  /\ thief_pc[t] = "read_bottom"
  /\ thief_pc' = [thief_pc EXCEPT ![t] = IF thief_top[t] >= bottom THEN "idle" ELSE "read_value"]
  /\ UNCHANGED <<top, bottom, buffer, owner_vars, thief_top, thief_value, pushed, takes>>

StealReadValue(t) ==
  /\ thief_pc[t] = "read_value"
  /\ thief_value' = [thief_value EXCEPT ![t] = buffer[Slot(thief_top[t])]]
  /\ thief_pc' = [thief_pc EXCEPT ![t] = "cas"]
  /\ UNCHANGED <<top, bottom, buffer, owner_vars, thief_top, pushed, takes>>

StealCas(t) ==
  /\ thief_pc[t] = "cas"
  /\ IF top = thief_top[t]
       THEN /\ top' = thief_top[t] + 1
            /\ takes' = [takes EXCEPT ![thief_value[t]] = @ + 1]
       ELSE UNCHANGED <<top, takes>>
  /\ thief_pc' = [thief_pc EXCEPT ![t] = "idle"]
  /\ UNCHANGED <<bottom, buffer, owner_vars, thief_top, thief_value, pushed>>

-----------------------------------------------------------------------------
OwnerStep ==
  \/ PushCheck \/ PushStore \/ PushPublish
  \/ PopReserve \/ PopEmpty \/ PopSeveral \/ PopLast \/ PopCas \/ PopRestore

ThiefStep(t) ==
  \/ StealReadTop(t) \/ StealReadBottom(t) \/ StealReadValue(t) \/ StealCas(t)

Next == OwnerStep \/ \E t \in Thieves : ThiefStep(t)

Spec == Init /\ [][Next]_vars

-----------------------------------------------------------------------------
(* While the owner pops it has lowered the bottom by one, and the element   *)
(* it reserved is still in the deque until it takes it.                     *)
Popping == owner_pc \in {"pop_read", "pop_cas", "pop_restore"}
Limit == IF Popping THEN bottom + 1 ELSE bottom

(* The indices of the elements the deque logically holds.                   *)
Live == top..(Limit - 1)

(* Every variable has its type; the indices never go negative beyond the    *)
(* one the owner subtracts while it pops.                                   *)
TypeOK ==
  /\ top \in Nat
  /\ bottom \in Int /\ bottom >= -1
  /\ buffer \in [0..(Capacity - 1) -> Value]
  /\ owner_pc \in OwnerPc /\ owner_top \in Nat /\ owner_value \in Value
  /\ thief_pc \in [Thieves -> ThiefPc]
  /\ thief_top \in [Thieves -> Nat]
  /\ thief_value \in [Thieves -> Value]
  /\ pushed \in 0..MaxPush
  /\ takes \in [Item -> Nat]

(* No value is handed to two callers, whichever of pop() and steal() race   *)
(* for it: a job run twice would decrement its counter twice.               *)
TakenAtMostOnce == \A i \in Item : takes[i] <= 1

(* No pushed value disappears: at every moment it is in the deque or was    *)
(* handed out, so a lost job cannot leave a waiter spinning for ever.       *)
NothingLost ==
  \A i \in 1..pushed : takes[i] = 0 => \E k \in Live : buffer[Slot(k)] = i

(* The ring never wraps onto an element that is still in it.                *)
WindowFits == top <= Limit /\ Limit - top <= Capacity

-----------------------------------------------------------------------------
(* The inductive invariant behind the properties above.                     *)

(* What each program counter of the owner implies about the two indices.    *)
OwnerInv ==
  /\ owner_pc \in {"push_store", "push_publish"} => bottom - top < Capacity /\ pushed < MaxPush
  /\ owner_pc = "push_publish" => buffer[Slot(bottom)] = pushed + 1
  /\ owner_pc = "pop_cas" => /\ owner_top = bottom
                             /\ top >= bottom
                             /\ top = bottom => owner_value = buffer[Slot(bottom)]
  /\ owner_pc = "pop_restore" => top = Limit

(* A thief holds a top that was once current; while it still is, that       *)
(* element is in the deque and the value the thief read is its value.       *)
ThiefInv ==
  \A t \in Thieves :
    /\ thief_top[t] <= top
    /\ thief_pc[t] \in {"read_value", "cas"} /\ thief_top[t] = top =>
         /\ top < Limit
         /\ thief_pc[t] = "cas" => thief_value[t] = buffer[Slot(top)]

(* The live elements are pushed values nobody was handed, in push order.    *)
LiveFresh == \A k \in Live : buffer[Slot(k)] \in 1..pushed /\ takes[buffer[Slot(k)]] = 0
LiveOrdered == \A j, k \in Live : j < k => buffer[Slot(j)] < buffer[Slot(k)]
UnpushedUntaken == \A i \in Item : i > pushed => takes[i] = 0

IInv ==
  /\ TypeOK /\ WindowFits /\ OwnerInv /\ ThiefInv
  /\ LiveFresh /\ LiveOrdered /\ UnpushedUntaken
  /\ TakenAtMostOnce /\ NothingLost

-----------------------------------------------------------------------------
(* push and pop are LIFO, steal is FIFO, each taking effect in one step:    *)
(* push when the bottom is published, pop when it reads a top below its     *)
(* reservation or wins the compare-exchange, steal when it wins it.         *)
Contract == INSTANCE JobDeque WITH
  held <- [n \in 1..(Limit - top) |-> buffer[Slot(top + n - 1)]],
  put <- pushed

DequeContract == Contract!Spec
=============================================================================
