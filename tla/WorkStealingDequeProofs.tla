----------------------- MODULE WorkStealingDequeProofs -----------------------
(* The inductive invariant of the deque, for every set of thieves, every    *)
(* capacity and every number of pushes.                                     *)
EXTENDS WorkStealingDeque, TLAPS

-----------------------------------------------------------------------------
(* Arithmetic of the ring.                                                  *)

(* A slot is an index into the buffer.                                      *)
LEMMA SlotType == ASSUME NEW i \in Int PROVE Slot(i) \in 0..(Capacity - 1)
BY CapacityAssumption, SMT DEF Slot

(* Division with remainder by the capacity.                                 *)
LEMMA SlotDivision ==
  ASSUME NEW i \in Int
  PROVE  /\ i \div Capacity \in Int
         /\ i = Capacity * (i \div Capacity) + Slot(i)
BY CapacityAssumption, SMT DEF Slot

(* Two different indices less than a capacity apart have different slots.   *)
LEMMA SlotDistinct ==
  ASSUME NEW i \in Int, NEW j \in Int, i < j, j - i < Capacity
  PROVE  Slot(i) # Slot(j)
<1>1. SUFFICES ASSUME Slot(i) = Slot(j) PROVE FALSE
  OBVIOUS
<1>2. PICK a \in Int : a = i \div Capacity
  BY SlotDivision
<1>3. PICK b \in Int : b = j \div Capacity
  BY SlotDivision
<1>4. i = Capacity * a + Slot(i)
  BY <1>2, SlotDivision
<1>5. j = Capacity * b + Slot(j)
  BY <1>3, SlotDivision
<1>6. /\ Slot(i) \in Int /\ Capacity \in Nat \ {0}
      /\ Capacity * a \in Int /\ Capacity * b \in Int
  BY SlotType, CapacityAssumption, SMT
<1>7. j - i = Capacity * b - Capacity * a
  BY <1>1, <1>4, <1>5, <1>6
<1>8. j - i = Capacity * (b - a)
  BY <1>6, <1>7, SMT
<1>9. CASE b - a > 0
  <2>1. Capacity * (b - a) >= Capacity
    BY <1>6, <1>9, SMT
  <2> QED
    BY <1>6, <1>8, <2>1
<1>10. CASE b - a <= 0
  <2>1. Capacity * (b - a) <= 0
    BY <1>6, <1>10, SMT
  <2> QED
    BY <1>8, <2>1
<1> QED
  BY <1>9, <1>10

-----------------------------------------------------------------------------
(* The part of the invariant about which values are where.                  *)
DataInv ==
  /\ WindowFits /\ LiveFresh /\ LiveOrdered
  /\ UnpushedUntaken /\ TakenAtMostOnce /\ NothingLost

(* Counting one more take keeps the counters typed.                         *)
LEMMA TakesType ==
  ASSUME takes \in [Item -> Nat], NEW v
  PROVE  [takes EXCEPT ![v] = @ + 1] \in [Item -> Nat]
<1> DEFINE f == [i \in Item |-> IF i = v THEN takes[v] + 1 ELSE takes[i]]
<1>1. [takes EXCEPT ![v] = @ + 1] = f
  OBVIOUS
<1>2. ASSUME NEW i \in Item PROVE f[i] \in Nat
  OBVIOUS
<1>3. f \in [Item -> Nat]
  BY <1>2
<1> QED
  BY <1>1, <1>3

(* A step that leaves the ring, its window and the histories alone.         *)
LEMMA FrameStep ==
  ASSUME DataInv, UNCHANGED <<top, buffer, pushed, takes>>, Limit' = Limit
  PROVE  DataInv'
BY DEF DataInv, WindowFits, LiveFresh, LiveOrdered, UnpushedUntaken,
       TakenAtMostOnce, NothingLost, Live, Slot

(* Taking the element at one end of the window: the rest of the window      *)
(* stays fresh and ordered, and only the value taken gains a take.          *)
LEMMA TakeStep ==
  ASSUME DataInv, TypeOK, TypeOK',
         NEW k \in Live, k = top \/ k = Limit - 1,
         Live' = Live \ {k}, WindowFits',
         takes' = [takes EXCEPT ![buffer[Slot(k)]] = @ + 1],
         UNCHANGED <<buffer, pushed>>
  PROVE  DataInv'
<1> DEFINE v == buffer[Slot(k)]
<1> USE DEF DataInv
<1>1. /\ top \in Nat /\ Limit \in Int /\ pushed \in 0..MaxPush
      /\ takes \in [Item -> Nat] /\ MaxPush \in Nat
  BY MaxPushAssumption DEF TypeOK, Limit
<1>2. v \in 1..pushed /\ v \in Item /\ takes[v] = 0
  BY <1>1 DEF LiveFresh, Item
<1>3. /\ takes'[v] = 1
      /\ \A i \in Item : i # v => takes'[i] = takes[i]
  BY <1>1, <1>2
<1>4. \A j \in Live : j # k => buffer[Slot(j)] # v
  BY <1>1, <1>2 DEF LiveOrdered, LiveFresh, Live
<1>5. LiveFresh'
  <2>1. SUFFICES ASSUME NEW j \in Live, j # k
                 PROVE  buffer[Slot(j)] \in 1..pushed /\ takes'[buffer[Slot(j)]] = 0
    BY DEF LiveFresh, Slot
  <2>2. buffer[Slot(j)] \in 1..pushed /\ takes[buffer[Slot(j)]] = 0
    BY DEF LiveFresh
  <2>3. buffer[Slot(j)] \in Item
    BY <1>1, <2>2 DEF Item
  <2> QED
    BY <1>3, <1>4, <2>1, <2>2, <2>3
<1>6. LiveOrdered'
  BY DEF LiveOrdered, Slot
<1>7. UnpushedUntaken'
  BY <1>1, <1>2, <1>3 DEF UnpushedUntaken, Item
<1>8. TakenAtMostOnce'
  BY <1>1, <1>2, <1>3 DEF TakenAtMostOnce, Item
<1>9. NothingLost'
  <2>1. SUFFICES ASSUME NEW i \in 1..pushed, takes'[i] = 0
                 PROVE  \E j \in Live \ {k} : buffer[Slot(j)] = i
    BY DEF NothingLost, Slot
  <2>2. i \in Item /\ i # v
    BY <1>1, <1>3, <2>1 DEF Item
  <2>3. takes[i] = 0
    BY <1>3, <2>1, <2>2
  <2>4. PICK j \in Live : buffer[Slot(j)] = i
    BY <2>3 DEF NothingLost
  <2> QED
    BY <2>2, <2>4
<1> QED
  BY <1>5, <1>6, <1>7, <1>8, <1>9

(* Storing into the slot at the bottom while it is outside the window.      *)
LEMMA StoreStep ==
  ASSUME DataInv, TypeOK, ~Popping, bottom - top < Capacity,
         NEW v, buffer' = [buffer EXCEPT ![Slot(bottom)] = v],
         UNCHANGED <<top, pushed, takes>>, Limit' = Limit
  PROVE  DataInv'
<1> USE DEF DataInv
<1>1. /\ top \in Nat /\ bottom \in Int /\ Limit = bottom /\ Capacity \in Nat
      /\ buffer \in [0..(Capacity - 1) -> Value]
  BY CapacityAssumption DEF TypeOK, Limit
<1>2. ASSUME NEW k \in Live PROVE Slot(k) # Slot(bottom) /\ Slot(k) \in 0..(Capacity - 1)
  <2>1. k \in Int /\ k < bottom /\ bottom - k < Capacity
    BY <1>1, <1>2 DEF Live
  <2> QED
    BY <1>1, <2>1, SlotDistinct, SlotType
<1>3. \A k \in Live : buffer'[Slot(k)] = buffer[Slot(k)]
  BY <1>1, <1>2
<1>4. Live' = Live
  BY DEF Live
<1>5. WindowFits'
  BY DEF WindowFits
<1>6. LiveFresh'
  BY <1>3, <1>4 DEF LiveFresh, Slot
<1>7. LiveOrdered'
  BY <1>3, <1>4 DEF LiveOrdered, Slot
<1>8. UnpushedUntaken' /\ TakenAtMostOnce'
  BY DEF UnpushedUntaken, TakenAtMostOnce
<1>9. NothingLost'
  BY <1>3, <1>4 DEF NothingLost, Slot
<1> QED
  BY <1>5, <1>6, <1>7, <1>8, <1>9

(* Publishing the value stored at the bottom extends the window by it.      *)
LEMMA PublishStep ==
  ASSUME DataInv, TypeOK, owner_pc = "push_publish", OwnerInv, PushPublish
  PROVE  DataInv'
<1> USE DEF DataInv
<1>1. /\ top \in Nat /\ bottom \in Int /\ Capacity \in Nat /\ MaxPush \in Nat
      /\ pushed \in 0..MaxPush /\ takes \in [Item -> Nat]
      /\ Limit = bottom /\ Limit' = bottom + 1 /\ top <= bottom
  BY CapacityAssumption, MaxPushAssumption
     DEF TypeOK, Limit, Popping, PushPublish, WindowFits
<1>2. /\ bottom - top < Capacity /\ pushed < MaxPush
      /\ buffer[Slot(bottom)] = pushed + 1
      /\ top' = top /\ buffer' = buffer /\ takes' = takes /\ pushed' = pushed + 1
  BY DEF OwnerInv, PushPublish
<1>3. Live' = Live \cup {bottom} /\ Live \subseteq Int /\ \A k \in Live : k < bottom
  BY <1>1, <1>2 DEF Live
<1>4. takes[pushed + 1] = 0 /\ pushed + 1 \in Item
  BY <1>1, <1>2 DEF UnpushedUntaken, Item
<1>5. WindowFits'
  BY <1>1, <1>2 DEF WindowFits
<1>6. LiveFresh'
  BY <1>1, <1>2, <1>3, <1>4 DEF LiveFresh, Slot
<1>7. LiveOrdered'
  <2>1. SUFFICES ASSUME NEW j \in Live', NEW k \in Live', j < k
                 PROVE  buffer[Slot(j)] < buffer[Slot(k)]
    BY <1>2 DEF LiveOrdered, Slot
  <2>2. j \in Live
    BY <1>1, <1>3, <2>1
  <2>3. CASE k = bottom
    BY <1>1, <1>2, <2>2, <2>3 DEF LiveFresh
  <2>4. CASE k \in Live
    BY <2>1, <2>2, <2>4 DEF LiveOrdered
  <2> QED
    BY <1>3, <2>1, <2>3, <2>4
<1>8. UnpushedUntaken' /\ TakenAtMostOnce'
  BY <1>1, <1>2 DEF UnpushedUntaken, TakenAtMostOnce, Item
<1>9. NothingLost'
  <2>1. SUFFICES ASSUME NEW i \in 1..(pushed + 1), takes[i] = 0
                 PROVE  \E k \in Live \cup {bottom} : buffer[Slot(k)] = i
    BY <1>2, <1>3 DEF NothingLost, Slot
  <2>2. CASE i = pushed + 1
    BY <1>2, <2>2
  <2>3. CASE i \in 1..pushed
    BY <2>1, <2>3 DEF NothingLost
  <2> QED
    BY <1>1, <2>2, <2>3
<1> QED
  BY <1>5, <1>6, <1>7, <1>8, <1>9

-----------------------------------------------------------------------------
(* The initial state satisfies the invariant: an empty ring, nothing taken. *)
LEMMA InitInv == Init => IInv
BY CapacityAssumption, MaxPushAssumption, SMT
   DEF Init, IInv, TypeOK, WindowFits, OwnerInv, ThiefInv, LiveFresh, LiveOrdered,
       UnpushedUntaken, TakenAtMostOnce, NothingLost, Live, Limit, Popping, Item, Value,
       OwnerPc, ThiefPc

(* Every step of the owner or of a thief keeps the invariant.               *)
LEMMA StepInv == IInv /\ [Next]_vars => IInv'
<1> SUFFICES ASSUME IInv, [Next]_vars PROVE IInv'
  OBVIOUS
<1> USE CapacityAssumption, MaxPushAssumption
<1>0. DataInv /\ TypeOK /\ OwnerInv /\ ThiefInv /\ WindowFits
  BY DEF IInv, DataInv
<1>g. SUFFICES DataInv' /\ TypeOK' /\ OwnerInv' /\ ThiefInv'
  BY DEF IInv, DataInv
<1>t. /\ top \in Nat /\ bottom \in Int /\ Capacity \in Nat \ {0} /\ MaxPush \in Nat
      /\ pushed \in 0..MaxPush /\ owner_top \in Nat
  BY <1>0 DEF TypeOK
<1>1. CASE PushCheck
  <2>1. Limit' = Limit
    BY <1>1 DEF PushCheck, Limit, Popping
  <2>2. DataInv'
    BY <1>0, <1>1, <2>1, FrameStep DEF PushCheck
  <2>3. TypeOK'
    BY <1>0, <1>1 DEF TypeOK, PushCheck, thief_vars, OwnerPc
  <2>4. OwnerInv'
    BY <1>0, <1>1, <2>1 DEF OwnerInv, PushCheck, Slot
  <2>5. ThiefInv'
    BY <1>0, <1>1, <2>1 DEF ThiefInv, PushCheck, thief_vars, Slot
  <2> QED
    BY <2>2, <2>3, <2>4, <2>5
<1>2. CASE PushStore
  <2>1. /\ Limit' = Limit /\ ~Popping /\ bottom - top < Capacity /\ Limit = bottom
        /\ pushed < MaxPush
    BY <1>0, <1>2 DEF PushStore, Limit, Popping, OwnerInv
  <2>2. DataInv'
    BY <1>0, <1>2, <2>1, StoreStep DEF PushStore
  <2>3. TypeOK'
    <3>1. pushed + 1 \in Value
      BY <1>t, <2>1 DEF Value
    <3>2. buffer' \in [0..(Capacity - 1) -> Value]
      BY <1>0, <1>2, <3>1 DEF TypeOK, PushStore
    <3> QED
      BY <1>0, <1>2, <3>2 DEF TypeOK, PushStore, thief_vars, OwnerPc
  <2>4. OwnerInv'
    <3>1. buffer'[Slot(bottom)] = pushed + 1
      BY <1>0, <1>t, <1>2, SlotType DEF TypeOK, PushStore
    <3> QED
      BY <1>2, <2>1, <3>1 DEF OwnerInv, PushStore, Slot
  <2>5. ThiefInv'
    <3>1. top < Limit => buffer'[Slot(top)] = buffer[Slot(top)]
      <4>1. top < Limit => Slot(top) # Slot(bottom)
        BY <1>t, <2>1, SlotDistinct
      <4> QED
        BY <1>0, <1>t, <1>2, <4>1, SlotType DEF TypeOK, PushStore
    <3> QED
      BY <1>0, <1>2, <2>1, <3>1 DEF ThiefInv, PushStore, thief_vars, Slot
  <2> QED
    BY <2>2, <2>3, <2>4, <2>5
<1>3. CASE PushPublish
  <2>1. Limit' = Limit + 1 /\ Limit \in Int
    BY <1>t, <1>3 DEF PushPublish, Limit, Popping
  <2>2. DataInv'
    BY <1>0, <1>3, PublishStep DEF PushPublish
  <2>3. TypeOK'
    BY <1>0, <1>t, <1>3 DEF TypeOK, PushPublish, OwnerInv, thief_vars, OwnerPc
  <2>4. OwnerInv'
    BY <1>3 DEF OwnerInv, PushPublish
  <2>5. ThiefInv'
    BY <1>0, <1>t, <1>3, <2>1 DEF ThiefInv, PushPublish, thief_vars, Slot
  <2> QED
    BY <2>2, <2>3, <2>4, <2>5
<1>4. CASE PopReserve
  <2>1. Limit' = Limit
    BY <1>t, <1>4 DEF PopReserve, Limit, Popping
  <2>2. DataInv'
    BY <1>0, <1>4, <2>1, FrameStep DEF PopReserve
  <2>3. TypeOK'
    <3>1. bottom >= 0
      BY <1>0, <1>t, <1>4 DEF WindowFits, Limit, Popping, PopReserve
    <3> QED
      BY <1>0, <1>t, <1>4, <3>1 DEF TypeOK, PopReserve, thief_vars, OwnerPc
  <2>4. OwnerInv'
    BY <1>4 DEF OwnerInv, PopReserve
  <2>5. ThiefInv'
    BY <1>0, <1>4, <2>1 DEF ThiefInv, PopReserve, thief_vars, Slot
  <2> QED
    BY <2>2, <2>3, <2>4, <2>5
<1>5. CASE PopEmpty
  <2>1. Limit' = Limit /\ top = Limit
    BY <1>0, <1>t, <1>5 DEF PopEmpty, Limit, Popping, WindowFits
  <2>2. DataInv'
    BY <1>0, <1>5, <2>1, FrameStep DEF PopEmpty
  <2>3. TypeOK'
    BY <1>0, <1>5 DEF TypeOK, PopEmpty, thief_vars, OwnerPc
  <2>4. OwnerInv'
    BY <1>5, <2>1 DEF OwnerInv, PopEmpty
  <2>5. ThiefInv'
    BY <1>0, <1>5, <2>1 DEF ThiefInv, PopEmpty, thief_vars, Slot
  <2> QED
    BY <2>2, <2>3, <2>4, <2>5
<1>6. CASE PopSeveral
  <2>1. Limit = bottom + 1 /\ Limit' = bottom /\ top < bottom
    BY <1>6 DEF PopSeveral, Limit, Popping
  <2>2. TypeOK'
    <3>1. takes' \in [Item -> Nat]
      BY <1>0, <1>6, TakesType DEF TypeOK, PopSeveral
    <3> QED
      BY <1>0, <1>6, <3>1 DEF TypeOK, PopSeveral, thief_vars, OwnerPc
  <2>3. WindowFits'
    BY <1>0, <1>t, <1>6, <2>1 DEF WindowFits, PopSeveral
  <2>4. bottom \in Live /\ Live' = Live \ {bottom} /\ bottom = Limit - 1
    BY <1>t, <1>6, <2>1 DEF Live, PopSeveral
  <2>5. DataInv'
    BY <1>0, <1>6, <2>2, <2>3, <2>4, TakeStep DEF PopSeveral
  <2>6. OwnerInv'
    BY <1>6 DEF OwnerInv, PopSeveral
  <2>7. ThiefInv'
    BY <1>0, <1>6, <2>1 DEF ThiefInv, PopSeveral, thief_vars, Slot
  <2> QED
    BY <2>2, <2>5, <2>6, <2>7
<1>7. CASE PopLast
  <2>1. Limit' = Limit /\ Limit = bottom + 1 /\ top = bottom
    BY <1>7 DEF PopLast, Limit, Popping
  <2>2. DataInv'
    BY <1>0, <1>7, <2>1, FrameStep DEF PopLast
  <2>3. TypeOK'
    <3>1. buffer[Slot(bottom)] \in Value
      BY <1>0, <1>t, SlotType DEF TypeOK
    <3> QED
      BY <1>0, <1>7, <3>1 DEF TypeOK, PopLast, thief_vars, OwnerPc
  <2>4. OwnerInv'
    BY <1>t, <1>7, <2>1 DEF OwnerInv, PopLast, Slot
  <2>5. ThiefInv'
    BY <1>0, <1>7, <2>1 DEF ThiefInv, PopLast, thief_vars, Slot
  <2> QED
    BY <2>2, <2>3, <2>4, <2>5
<1>8. CASE PopCas
  <2>1. Limit' = Limit /\ Limit = bottom + 1 /\ owner_top = bottom /\ top >= bottom
    BY <1>0, <1>8 DEF PopCas, Limit, Popping, OwnerInv
  <2>2. top' = Limit /\ owner_pc' = "pop_restore" /\ TypeOK'
    <3>1. top' = Limit /\ top' \in Nat
      BY <1>0, <1>t, <1>8, <2>1 DEF PopCas, WindowFits
    <3>2. takes' \in [Item -> Nat]
      BY <1>0, <1>8, TakesType DEF PopCas, TypeOK
    <3> QED
      BY <1>0, <1>8, <3>1, <3>2 DEF PopCas, TypeOK, thief_vars, OwnerPc
  <2>3. DataInv'
    <3>1. CASE top = owner_top
      <4>1. top \in Live /\ Live' = Live \ {top}
        BY <1>t, <2>1, <2>2, <3>1 DEF Live
      <4>2. WindowFits'
        BY <1>t, <2>1, <2>2 DEF WindowFits
      <4>3. takes' = [takes EXCEPT ![buffer[Slot(top)]] = @ + 1]
        BY <1>0, <1>8, <2>1, <3>1 DEF PopCas, OwnerInv
      <4> QED
        BY <1>0, <1>8, <2>2, <4>1, <4>2, <4>3, TakeStep DEF PopCas
    <3>2. CASE top # owner_top
      BY <1>0, <1>8, <2>1, <3>2, FrameStep DEF PopCas
    <3> QED
      BY <3>1, <3>2
  <2>4. OwnerInv'
    BY <2>1, <2>2 DEF OwnerInv
  <2>5. ThiefInv'
    BY <1>0, <1>t, <1>8, <2>1, <2>2 DEF ThiefInv, PopCas, thief_vars, TypeOK
  <2> QED
    BY <2>2, <2>3, <2>4, <2>5
<1>9. CASE PopRestore
  <2>1. Limit' = Limit
    BY <1>t, <1>9 DEF PopRestore, Limit, Popping
  <2>2. DataInv'
    BY <1>0, <1>9, <2>1, FrameStep DEF PopRestore
  <2>3. TypeOK'
    BY <1>0, <1>t, <1>9 DEF TypeOK, PopRestore, thief_vars, OwnerPc
  <2>4. OwnerInv'
    BY <1>9 DEF OwnerInv, PopRestore
  <2>5. ThiefInv'
    BY <1>0, <1>9, <2>1 DEF ThiefInv, PopRestore, thief_vars, Slot
  <2> QED
    BY <2>2, <2>3, <2>4, <2>5
<1>10. ASSUME NEW t \in Thieves, StealReadTop(t) PROVE DataInv' /\ TypeOK' /\ OwnerInv' /\ ThiefInv'
  <2>1. Limit' = Limit /\ owner_pc' = owner_pc
    BY <1>10 DEF StealReadTop, Limit, Popping, owner_vars
  <2>2. DataInv'
    BY <1>0, <1>10, <2>1, FrameStep DEF StealReadTop
  <2>3. TypeOK'
    BY <1>0, <1>10 DEF TypeOK, StealReadTop, owner_vars, ThiefPc
  <2>4. OwnerInv'
    BY <1>0, <1>10, <2>1 DEF OwnerInv, StealReadTop, owner_vars, Slot
  <2>5. ThiefInv'
    BY <1>0, <1>t, <1>10, <2>1 DEF ThiefInv, StealReadTop, TypeOK, Slot
  <2> QED
    BY <2>2, <2>3, <2>4, <2>5
<1>11. ASSUME NEW t \in Thieves, StealReadBottom(t) PROVE DataInv' /\ TypeOK' /\ OwnerInv' /\ ThiefInv'
  <2>1. Limit' = Limit /\ owner_pc' = owner_pc /\ bottom <= Limit
    BY <1>t, <1>11 DEF StealReadBottom, Limit, Popping, owner_vars
  <2>2. DataInv'
    BY <1>0, <1>11, <2>1, FrameStep DEF StealReadBottom
  <2>3. TypeOK'
    BY <1>0, <1>11 DEF TypeOK, StealReadBottom, owner_vars, ThiefPc
  <2>4. OwnerInv'
    BY <1>0, <1>11, <2>1 DEF OwnerInv, StealReadBottom, owner_vars, Slot
  <2>5. ThiefInv'
    <3>1. thief_top[t] = top /\ thief_pc'[t] = "read_value" => top < Limit
      <4>1. Limit \in Int
        BY <1>t DEF Limit
      <4> QED
        BY <1>0, <1>t, <1>11, <2>1, <4>1 DEF StealReadBottom, TypeOK
    <3> QED
      BY <1>0, <1>11, <2>1, <3>1 DEF ThiefInv, StealReadBottom, TypeOK, Slot
  <2> QED
    BY <2>2, <2>3, <2>4, <2>5
<1>12. ASSUME NEW t \in Thieves, StealReadValue(t) PROVE DataInv' /\ TypeOK' /\ OwnerInv' /\ ThiefInv'
  <2>1. Limit' = Limit /\ owner_pc' = owner_pc
    BY <1>12 DEF StealReadValue, Limit, Popping, owner_vars
  <2>2. DataInv'
    BY <1>0, <1>12, <2>1, FrameStep DEF StealReadValue
  <2>3. TypeOK'
    <3>1. buffer[Slot(thief_top[t])] \in Value
      BY <1>0, SlotType DEF TypeOK
    <3> QED
      BY <1>0, <1>12, <3>1 DEF TypeOK, StealReadValue, owner_vars, ThiefPc
  <2>4. OwnerInv'
    BY <1>0, <1>12, <2>1 DEF OwnerInv, StealReadValue, owner_vars, Slot
  <2>5. ThiefInv'
    BY <1>0, <1>12, <2>1 DEF ThiefInv, StealReadValue, TypeOK, Slot
  <2> QED
    BY <2>2, <2>3, <2>4, <2>5
<1>13. ASSUME NEW t \in Thieves, StealCas(t) PROVE DataInv' /\ TypeOK' /\ OwnerInv' /\ ThiefInv'
  <2>1. Limit' = Limit /\ owner_pc' = owner_pc /\ Limit \in Int /\ bottom' = bottom
    BY <1>t, <1>13 DEF StealCas, Limit, Popping, owner_vars
  <2>2. TypeOK'
    BY <1>0, <1>13 DEF TypeOK, StealCas, owner_vars, ThiefPc
  <2>3. CASE thief_top[t] = top
    <3>1. top < Limit /\ thief_value[t] = buffer[Slot(top)] /\ top' = top + 1
      BY <1>0, <1>13, <2>3 DEF ThiefInv, StealCas
    <3>2. top \in Live /\ Live' = Live \ {top}
      BY <1>t, <2>1, <3>1 DEF Live
    <3>3. WindowFits'
      BY <1>0, <1>t, <2>1, <3>1 DEF WindowFits
    <3>4. DataInv'
      BY <1>0, <1>13, <2>2, <2>3, <3>1, <3>2, <3>3, TakeStep DEF StealCas
    <3>5. OwnerInv'
      <4>1. owner_pc # "pop_restore"
        BY <1>0, <1>t, <2>1, <3>1 DEF OwnerInv
      <4> QED
        BY <1>0, <1>t, <1>13, <2>1, <3>1, <4>1 DEF OwnerInv, StealCas, owner_vars, Slot
    <3>6. ThiefInv'
      BY <1>0, <1>t, <1>13, <2>1, <3>1 DEF ThiefInv, StealCas, TypeOK
    <3> QED
      BY <2>2, <3>4, <3>5, <3>6
  <2>4. CASE thief_top[t] # top
    <3>1. DataInv'
      BY <1>0, <1>13, <2>1, <2>4, FrameStep DEF StealCas
    <3>2. OwnerInv'
      BY <1>0, <1>13, <2>1, <2>4 DEF OwnerInv, StealCas, owner_vars, Slot
    <3>3. ThiefInv'
      BY <1>0, <1>13, <2>1, <2>4 DEF ThiefInv, StealCas, TypeOK, Slot
    <3> QED
      BY <2>2, <3>1, <3>2, <3>3
  <2> QED
    BY <2>3, <2>4
<1>14. CASE UNCHANGED vars
  <2>1. Limit' = Limit
    BY <1>14 DEF vars, Limit, Popping
  <2>2. DataInv'
    BY <1>0, <1>14, <2>1, FrameStep DEF vars
  <2>3. TypeOK' /\ OwnerInv' /\ ThiefInv'
    BY <1>0, <1>14, <2>1 DEF vars, TypeOK, OwnerInv, ThiefInv, Slot
  <2> QED
    BY <2>2, <2>3
<1> QED
  BY <1>1, <1>2, <1>3, <1>4, <1>5, <1>6, <1>7, <1>8, <1>9, <1>10, <1>11, <1>12, <1>13, <1>14
     DEF Next, OwnerStep, ThiefStep

-----------------------------------------------------------------------------
(* The invariant holds in every reachable state.                            *)
THEOREM Invariance == Spec => []IInv
BY InitInv, StepInv, PTL DEF Spec

(* Every variable has its type.                                             *)
THEOREM TypeCorrect == Spec => []TypeOK
<1>1. IInv => TypeOK
  BY DEF IInv
<1> QED
  BY <1>1, Invariance, PTL

(* No value pushed is handed out twice, however pop() and steal() race.     *)
THEOREM ExactlyOnce == Spec => []TakenAtMostOnce
<1>1. IInv => TakenAtMostOnce
  BY DEF IInv
<1> QED
  BY <1>1, Invariance, PTL

(* No value pushed is lost: it is in the ring until it is handed out.       *)
THEOREM Conservation == Spec => []NothingLost
<1>1. IInv => NothingLost
  BY DEF IInv
<1> QED
  BY <1>1, Invariance, PTL

-----------------------------------------------------------------------------
(* The deque implements its contract.                                       *)

(* The sequence of the values in the window.                                *)
Held == [n \in 1..(Limit - top) |-> buffer[Slot(top + n - 1)]]

(* It is a sequence of pushed values, as long as the window.                *)
LEMMA HeldType ==
  ASSUME IInv
  PROVE  /\ Held \in Seq(Value) /\ Len(Held) = Limit - top /\ Limit - top \in Nat
         /\ DOMAIN Held = 1..(Limit - top)
         /\ \A n \in 1..(Limit - top) : Held[n] = buffer[Slot(top + n - 1)]
<1>1. top \in Nat /\ Limit \in Int /\ top <= Limit /\ buffer \in [0..(Capacity - 1) -> Value]
  BY DEF IInv, TypeOK, Limit, WindowFits
<1>2. \A n \in 1..(Limit - top) : Slot(top + n - 1) \in 0..(Capacity - 1)
  BY <1>1, SlotType
<1>3. Held \in [1..(Limit - top) -> Value]
  BY <1>1, <1>2 DEF Held
<1>4. Limit - top \in Nat
  BY <1>1
<1> HIDE DEF Held
<1>5. Held \in Seq(Value) /\ Len(Held) = Limit - top
  BY <1>3, <1>4
<1> QED
  BY <1>3, <1>4, <1>5 DEF Held

(* What neither moves the window nor writes into it is no step of the contract. *)
LEMMA HeldUnchanged ==
  ASSUME IInv, top' = top, Limit' = Limit,
         \A k \in Live : buffer'[Slot(k)] = buffer[Slot(k)]
  PROVE  Held' = Held
<1>1. top \in Nat /\ Limit \in Int
  BY DEF IInv, TypeOK, Limit
<1>2. \A n \in 1..(Limit - top) : top + n - 1 \in Live
  BY <1>1 DEF Live
<1>3. Held' = [n \in 1..(Limit - top) |-> buffer'[Slot(top + n - 1)]]
  BY DEF Held, Slot
<1> QED
  BY <1>2, <1>3 DEF Held

(* Publishing appends the pushed value.                                     *)
LEMMA PublishPuts ==
  ASSUME IInv, IInv', PushPublish
  PROVE  Contract!Put
<1>1. /\ top \in Nat /\ bottom \in Int /\ Limit = bottom /\ Limit' = bottom + 1 /\ top <= bottom
      /\ bottom - top < Capacity /\ pushed < MaxPush /\ buffer[Slot(bottom)] = pushed + 1
      /\ UNCHANGED <<top, buffer, takes>> /\ pushed' = pushed + 1
  BY DEF IInv, TypeOK, Limit, Popping, WindowFits, OwnerInv, PushPublish
<1>2. /\ Held \in Seq(Value) /\ Len(Held) = Limit - top /\ DOMAIN Held = 1..(Limit - top)
      /\ \A n \in 1..(Limit - top) : Held[n] = buffer[Slot(top + n - 1)]
  BY HeldType
<1>3. Held' = [n \in 1..(Limit - top + 1) |-> buffer[Slot(top + n - 1)]]
  <2>1. Limit' - top' = Limit - top + 1
    BY <1>1
  <2> QED
    BY <1>1, <2>1 DEF Held, Slot
<1>4. Append(Held, pushed + 1) = [n \in 1..(Limit - top + 1) |->
                                    IF n = Limit - top + 1 THEN pushed + 1 ELSE Held[n]]
  <2> HIDE DEF Held
  <2> QED
    BY <1>1, <1>2
<1>5. ASSUME NEW n \in 1..(Limit - top + 1)
      PROVE  buffer[Slot(top + n - 1)] = IF n = Limit - top + 1 THEN pushed + 1 ELSE Held[n]
  <2>1. CASE n = Limit - top + 1
    <3>1. top + n - 1 = bottom
      BY <1>1, <2>1
    <3> QED
      BY <1>1, <2>1, <3>1
  <2>2. CASE n # Limit - top + 1
    BY <1>1, <1>2, <2>2
  <2> QED
    BY <2>1, <2>2
<1>6. Held' = Append(Held, pushed + 1)
  BY <1>3, <1>4, <1>5
<1> QED
  BY <1>1, <1>2, <1>6 DEF Contract!Put, Held

(* Narrowing the window at the bottom takes the newest value.               *)
LEMMA NarrowTakesNewest ==
  ASSUME IInv, top < Limit, Limit' = Limit - 1, UNCHANGED <<top, buffer, pushed>>,
         takes' = [takes EXCEPT ![buffer[Slot(Limit - 1)]] = @ + 1]
  PROVE  Contract!TakeNewest
<1>1. top \in Nat /\ Limit \in Int
  BY DEF IInv, TypeOK, Limit
<1>2. /\ Held \in Seq(Value) /\ Len(Held) = Limit - top /\ DOMAIN Held = 1..(Limit - top)
      /\ \A n \in 1..(Limit - top) : Held[n] = buffer[Slot(top + n - 1)]
  BY HeldType
<1>3. Held' = [n \in 1..(Limit - top - 1) |-> buffer[Slot(top + n - 1)]]
  <2>1. Limit' - top' = Limit - top - 1
    BY <1>1
  <2> QED
    BY <2>1 DEF Held, Slot
<1>4. Held[Len(Held)] = buffer[Slot(Limit - 1)] /\ Held # << >>
  <2>1. Limit - top \in 1..(Limit - top) /\ top + (Limit - top) - 1 = Limit - 1
    BY <1>1
  <2>2. Held[Limit - top] = buffer[Slot(Limit - 1)]
    BY <1>2, <2>1
  <2> HIDE DEF Held
  <2> QED
    BY <1>1, <1>2, <2>2
<1>5. SubSeq(Held, 1, Len(Held) - 1) = [n \in 1..(Limit - top - 1) |-> Held[n]]
  <2> HIDE DEF Held
  <2> QED
    BY <1>1, <1>2
<1>6. \A n \in 1..(Limit - top - 1) : Held[n] = buffer[Slot(top + n - 1)]
  BY <1>1, <1>2
<1>7. Held' = SubSeq(Held, 1, Len(Held) - 1)
  BY <1>3, <1>5, <1>6
<1> QED
  BY <1>4, <1>7 DEF Contract!TakeNewest, Held

(* Moving its top takes the oldest one.                                     *)
LEMMA NarrowTakesOldest ==
  ASSUME IInv, top < Limit, Limit' = Limit, top' = top + 1, UNCHANGED <<buffer, pushed>>,
         takes' = [takes EXCEPT ![buffer[Slot(top)]] = @ + 1]
  PROVE  Contract!TakeOldest
<1>1. top \in Nat /\ Limit \in Int
  BY DEF IInv, TypeOK, Limit
<1>2. /\ Held \in Seq(Value) /\ Len(Held) = Limit - top /\ DOMAIN Held = 1..(Limit - top)
      /\ \A n \in 1..(Limit - top) : Held[n] = buffer[Slot(top + n - 1)]
  BY HeldType
<1>3. Held' = [n \in 1..(Limit - top - 1) |-> buffer[Slot(top + 1 + n - 1)]]
  <2>1. Limit' - top' = Limit - top - 1
    BY <1>1
  <2> QED
    BY <2>1 DEF Held, Slot
<1>4. Held[1] = buffer[Slot(top)] /\ Held # << >>
  <2>1. 1 \in 1..(Limit - top) /\ top + 1 - 1 = top
    BY <1>1
  <2>2. Held[1] = buffer[Slot(top)]
    BY <1>2, <2>1
  <2> HIDE DEF Held
  <2> QED
    BY <1>1, <1>2, <2>2
<1>5. Tail(Held) = [n \in 1..(Limit - top - 1) |-> Held[n + 1]]
  <2> HIDE DEF Held
  <2>1. /\ Tail(Held) \in Seq(Value) /\ Len(Tail(Held)) = Limit - top - 1
        /\ DOMAIN Tail(Held) = 1..(Limit - top - 1)
        /\ \A n \in 1..(Limit - top - 1) : Tail(Held)[n] = Held[n + 1]
    BY <1>1, <1>2, <1>4
  <2>2. \A q \in Seq(Value) : q = [n \in 1..Len(q) |-> q[n]]
    OBVIOUS
  <2> QED
    BY <2>1, <2>2
<1>6. ASSUME NEW n \in 1..(Limit - top - 1) PROVE Held[n + 1] = buffer[Slot(top + 1 + n - 1)]
  <2>1. n + 1 \in 1..(Limit - top) /\ top + (n + 1) - 1 = top + 1 + n - 1
    BY <1>1
  <2> QED
    BY <1>2, <2>1
<1>7. Held' = Tail(Held)
  BY <1>3, <1>5, <1>6
<1> QED
  BY <1>4, <1>7 DEF Contract!TakeOldest, Held

(* Every step is a step of the contract or leaves what it promises alone.   *)
LEMMA StepRefines ==
  ASSUME IInv, IInv', [Next]_vars
  PROVE  [Contract!Next]_(Contract!vars)
<1> USE CapacityAssumption, MaxPushAssumption
<1>t. /\ top \in Nat /\ bottom \in Int /\ Limit \in Int /\ top <= Limit
      /\ buffer \in [0..(Capacity - 1) -> Value]
  BY DEF IInv, TypeOK, Limit, WindowFits
<1>s. ASSUME Limit' = Limit, \A k \in Live : buffer'[Slot(k)] = buffer[Slot(k)],
             UNCHANGED <<top, pushed, takes>>
      PROVE  UNCHANGED Contract!vars
  <2>1. Held' = Held
    BY <1>s, HeldUnchanged
  <2> QED
    BY <1>s, <2>1 DEF Contract!vars, Held
<1>1. CASE PushPublish
  BY <1>1, PublishPuts DEF Contract!Next
<1>2. CASE PopSeveral
  <2>1. /\ Limit = bottom + 1 /\ Limit' = bottom /\ top < Limit
        /\ UNCHANGED <<top, buffer, pushed>>
        /\ takes' = [takes EXCEPT ![buffer[Slot(bottom)]] = @ + 1]
    BY <1>t, <1>2 DEF PopSeveral, Limit, Popping
  <2>2. Limit' = Limit - 1 /\ bottom = Limit - 1
    BY <1>t, <2>1
  <2> QED
    BY <2>1, <2>2, NarrowTakesNewest DEF Contract!Next
<1>3. CASE PopCas
  <2>1. /\ Limit' = Limit /\ Limit = bottom + 1 /\ owner_top = bottom /\ UNCHANGED <<buffer, pushed>>
    BY <1>3 DEF PopCas, Limit, Popping, IInv, OwnerInv
  <2>2. CASE top = owner_top
    <3>1. /\ top' = top + 1 /\ top < Limit
          /\ takes' = [takes EXCEPT ![buffer[Slot(top)]] = @ + 1]
      BY <1>t, <1>3, <2>1, <2>2 DEF PopCas, IInv, OwnerInv
    <3> QED
      BY <2>1, <3>1, NarrowTakesOldest DEF Contract!Next
  <2>3. CASE top # owner_top
    BY <1>s, <1>3, <2>1, <2>3 DEF PopCas
  <2> QED
    BY <2>2, <2>3
<1>4. ASSUME NEW t \in Thieves, StealCas(t) PROVE [Contract!Next]_(Contract!vars)
  <2>1. Limit' = Limit /\ UNCHANGED <<buffer, pushed>>
    BY <1>4 DEF StealCas, Limit, Popping, owner_vars
  <2>2. CASE top = thief_top[t]
    <3>1. /\ top' = top + 1 /\ top < Limit
          /\ takes' = [takes EXCEPT ![buffer[Slot(top)]] = @ + 1]
      BY <1>4, <2>2 DEF StealCas, IInv, ThiefInv
    <3> QED
      BY <2>1, <3>1, NarrowTakesOldest DEF Contract!Next
  <2>3. CASE top # thief_top[t]
    BY <1>s, <1>4, <2>1, <2>3 DEF StealCas
  <2> QED
    BY <2>2, <2>3
<1>5. CASE PushStore
  <2>1. /\ Limit' = Limit /\ Limit = bottom /\ bottom - top < Capacity
        /\ buffer' = [buffer EXCEPT ![Slot(bottom)] = pushed + 1] /\ UNCHANGED <<top, pushed, takes>>
    BY <1>5 DEF PushStore, Limit, Popping, IInv, OwnerInv
  <2>2. ASSUME NEW k \in Live PROVE buffer'[Slot(k)] = buffer[Slot(k)]
    <3>1. k \in Int /\ k < bottom /\ bottom - k < Capacity
      BY <1>t, <2>1 DEF Live
    <3>2. Slot(k) # Slot(bottom) /\ Slot(k) \in 0..(Capacity - 1)
      BY <1>t, <3>1, SlotDistinct, SlotType
    <3> QED
      BY <1>t, <2>1, <3>2
  <2> QED
    BY <1>s, <2>1, <2>2
<1>6. CASE PushCheck \/ PopReserve \/ PopEmpty \/ PopLast \/ PopRestore
  <2>1. Limit' = Limit
    BY <1>t, <1>6 DEF PushCheck, PopReserve, PopEmpty, PopLast, PopRestore, Limit, Popping
  <2>2. UNCHANGED <<top, buffer, pushed, takes>>
    BY <1>6 DEF PushCheck, PopReserve, PopEmpty, PopLast, PopRestore
  <2> QED
    BY <1>s, <2>1, <2>2
<1>7. ASSUME NEW t \in Thieves, StealReadTop(t) \/ StealReadBottom(t) \/ StealReadValue(t)
      PROVE  [Contract!Next]_(Contract!vars)
  <2>1. Limit' = Limit /\ UNCHANGED <<top, buffer, pushed, takes>>
    BY <1>7 DEF StealReadTop, StealReadBottom, StealReadValue, owner_vars, Limit, Popping
  <2> QED
    BY <1>s, <2>1
<1>8. CASE UNCHANGED vars
  <2>1. Limit' = Limit /\ UNCHANGED <<top, buffer, pushed, takes>>
    BY <1>8 DEF vars, Limit, Popping
  <2> QED
    BY <1>s, <2>1
<1> QED
  BY <1>1, <1>2, <1>3, <1>4, <1>5, <1>6, <1>7, <1>8 DEF Next, OwnerStep, ThiefStep

(* The two indices and the ring are a deque: every push, pop and steal takes *)
(* effect in one step, LIFO for the owner and FIFO for the thieves.          *)
THEOREM Implementation == Spec => DequeContract
<1>1. Init => Contract!Init
  <2> SUFFICES ASSUME Init PROVE Contract!Init
    OBVIOUS
  <2>1. IInv /\ top = 0 /\ Limit = 0 /\ pushed = 0 /\ takes = [i \in Item |-> 0]
    BY InitInv DEF Init, Limit, Popping
  <2>2. Held \in Seq(Value) /\ Len(Held) = 0
    BY <2>1, HeldType
  <2>3. Held = << >>
    <3> HIDE DEF Held
    <3> QED
      BY <2>2
  <2> QED
    BY <2>1, <2>3 DEF Contract!Init, Held, Contract!Item, Item
<1>2. IInv /\ IInv' /\ [Next]_vars => [Contract!Next]_(Contract!vars)
  BY StepRefines
<1> QED
  BY <1>1, <1>2, Invariance, PTL DEF Spec, DequeContract, Contract!Spec
=============================================================================
