----------------------------- MODULE SignalsProofs -----------------------------
(* Theorems about Signals, for any threads, slots and depth of emissions.   *)
EXTENDS Signals, FiniteSetTheorems, TLAPS

(* Who holds the mutex, and what the threads are about to change.           *)
LockInv ==
  /\ \A t \in Threads : pc[t] \in {"copy", "write"} <=> mutex = t
  /\ \A t \in Threads : pc[t] \in {"lock", "copy", "write"} <=> op[t].kind # "none"
  /\ \A t \in Threads : pc[t] \in {"lock", "copy"} => op[t].at = 1
  /\ \A t \in Threads : Len(stack[t]) <= MaxDepth
  /\ \A t \in Threads : pc[t] = "reference" => Len(stack[t]) < MaxDepth
OpInv ==
  /\ \A t \in Threads : op[t].kind \in {"add", "clean"} => \E s \in Slots : op[t].slots = {s}
  /\ \A t \in Threads : op[t].kind = "add" => op[t].slots \subseteq born \ wanted
  /\ \A t, u \in Threads :
       t # u /\ op[t].kind = "add" /\ op[u].kind = "add" => op[t].slots \cap op[u].slots = {}
  /\ wanted \subseteq born

(* The list and the indices; disconnect_if is the one that takes steps.     *)
ListInv ==
  /\ \A i \in DOMAIN SlotList : index[SlotList[i]] = i
  /\ ToSet(SlotList) \subseteq wanted
  /\ \A s \in wanted \ ToSet(SlotList) :
       \E t \in Threads : pc[t] = "write" /\ op[t].kind = "match" /\ s \in op[t].slots
  /\ \A t \in Threads : pc[t] = "write" /\ op[t].kind = "match" =>
       \A i \in DOMAIN SlotList : i < op[t].at => SlotList[i] \notin op[t].slots

(* A writer is alone with the list it writes.                               *)
HeapInv ==
  /\ CountsAreHolders
  /\ \A t \in Threads : pc[t] = "write" => heap[current].count = 1

(* An emission has a list that does not change, and called what it passed.  *)
Passed(f, m) == m < f.at \/ (f.step = "called" /\ m = f.at)
Replay(f) ==
  /\ f.step = "called" => f.at <= Len(f.first)
  /\ \A i \in DOMAIN f.called : \E m \in DOMAIN f.first : Passed(f, m) /\ f.first[m] = f.called[i]
  /\ CallsInOrder(f)
  /\ \A m \in DOMAIN f.first : Passed(f, m) /\ f.first[m] \in f.stable => f.first[m] \in ToSet(f.called)
  /\ f.stable \subseteq ToSet(f.first)
FrameOK(f) ==
  heap[f.payload].slots = f.first /\ Replay(f) /\ \A s \in f.stable : connected[s]
FramesInv == \A t \in Threads : \A i \in DOMAIN stack[t] : FrameOK(stack[t][i])

IInv == TypeOK /\ LockInv /\ OpInv /\ ListInv /\ HeapInv /\ FramesInv

-----------------------------------------------------------------------------
(* Facts about sequences.                                                   *)
LEMMA FrontFacts ==
  ASSUME NEW S, NEW l \in Seq(S), l # <<>>
  PROVE  /\ Front(l) \in Seq(S) /\ Len(Front(l)) = Len(l) - 1 /\ Len(l) \in Nat \ {0}
         /\ DOMAIN l = 1..Len(l) /\ DOMAIN Front(l) = 1..(Len(l) - 1)
         /\ \A i \in 1..(Len(l) - 1) : Front(l)[i] = l[i]
<1>1. Len(l) \in Nat \ {0} /\ DOMAIN l = 1..Len(l) /\ Len(l) - 1 \in 0..Len(l)
  OBVIOUS
<1> DEFINE n == Len(l) - 1
<1>2. n \in 0..Len(l)
  BY <1>1
<1> HIDE DEF n
<1>3. /\ SubSeq(l, 1, n) \in Seq(S) /\ Len(SubSeq(l, 1, n)) = n
      /\ \A i \in 1..n : SubSeq(l, 1, n)[i] = l[i]
  BY <1>1, <1>2
<1>4. Front(l) = SubSeq(l, 1, n)
  BY DEF Front, n
<1>5. DOMAIN Front(l) = 1..n
  BY <1>2, <1>3, <1>4
<1> QED
  BY <1>1, <1>3, <1>4, <1>5 DEF n

LEMMA WithoutAtFacts ==
  ASSUME NEW S, NEW l \in Seq(S), NEW i \in DOMAIN l
  PROVE  /\ WithoutAt(l, i) \in Seq(S) /\ DOMAIN l = 1..Len(l) /\ Len(l) \in Nat \ {0}
         /\ DOMAIN WithoutAt(l, i) = 1..(Len(l) - 1)
         /\ \A j \in 1..(Len(l) - 1) : WithoutAt(l, i)[j] = IF j = i THEN Last(l) ELSE l[j]
<1> DEFINE m == [l EXCEPT ![i] = Last(l)]
<1>1. l # <<>> /\ Last(l) \in S /\ Len(l) \in Nat \ {0} /\ DOMAIN l = 1..Len(l)
  BY DEF Last
<1>2. m \in Seq(S) /\ Len(m) = Len(l) /\ m # <<>> /\ \A j \in 1..Len(l) : m[j] = IF j = i THEN Last(l) ELSE l[j]
  BY <1>1
<1> HIDE DEF m
<1>3. WithoutAt(l, i) = Front(m)
  BY DEF WithoutAt, m
<1> QED
  BY <1>1, <1>2, <1>3, FrontFacts

(* A record with other fields.                                              *)
LEMMA FrameAt ==
  ASSUME NEW f \in Frame, NEW n \in Nat \ {0}, NEW step \in {"next", "called"}
  PROVE  [f EXCEPT !.step = step, !.at = n] \in Frame /\ [f EXCEPT !.at = n] \in Frame
BY DEF Frame

LEMMA FrameCalled ==
  ASSUME NEW f \in Frame, NEW called \in Seq(Slots)
  PROVE  [f EXCEPT !.step = "called", !.called = called] \in Frame
BY DEF Frame

LEMMA PayloadCount ==
  ASSUME NEW p \in Payload, NEW n \in Nat
  PROVE  /\ [p EXCEPT !.count = n] \in Payload
         /\ [p EXCEPT !.count = n].slots = p.slots /\ [p EXCEPT !.count = n].count = n
BY DEF Payload

(* The payload ids.                                                         *)
LEMMA PayloadIds == 1 \in Payloads
<1>1. Cardinality(Threads) \in Nat /\ MaxDepth \in Nat
  BY FS_CardinalityType, BoundsAssumption
<1>2. Cardinality(Threads) * MaxDepth \in Nat
  BY <1>1
<1> QED
  BY <1>2 DEF Payloads

(* The frame on top, and what replaces it.                                  *)
LEMMA TopFacts ==
  ASSUME TypeOK, NEW t \in Threads, stack[t] # <<>>
  PROVE  /\ Len(stack[t]) \in Nat \ {0} /\ DOMAIN stack[t] = 1..Len(stack[t])
         /\ Top(t) = stack[t][Len(stack[t])] /\ Top(t) \in Frame
         /\ Emitted(t) \in Seq(Slots)
<1>1. stack[t] \in Seq(Frame) /\ heap \in [Payloads -> Payload]
  BY DEF TypeOK
<1>2. Len(stack[t]) \in Nat \ {0} /\ DOMAIN stack[t] = 1..Len(stack[t])
  BY <1>1
<1>3. Top(t) = stack[t][Len(stack[t])] /\ Top(t) \in Frame
  BY <1>1, <1>2 DEF Top, Last
<1>4. heap[Top(t).payload] \in Payload
  BY <1>1, <1>3 DEF Frame
<1> QED
  BY <1>2, <1>3, <1>4 DEF Emitted, Payload

(* Type correctness is inductive by itself.                                 *)
LEMMA TypeInv == TypeOK /\ Next => TypeOK'
<1> SUFFICES ASSUME TypeOK, Next PROVE TypeOK'
  OBVIOUS
<1> USE DEF list, counters
<1>a. SlotList \in Seq(Slots) /\ \A p \in Payloads : heap[p].count \in Nat /\ heap[p].slots \in Seq(Slots)
  BY DEF TypeOK, Payload, SlotList
<1>b. ASSUME NEW t \in Threads, NEW kind \in {"add", "clean", "match", "clear"}, NEW S \in SUBSET Slots,
             Begins(t, kind, S)
      PROVE  pc' \in [Threads -> {"user", "lock", "copy", "write", "reference"}] /\ op' \in [Threads -> Change]
  BY <1>b DEF Begins, TypeOK, Change
<1>c. ASSUME NEW S PROVE Unstable(S) \in [Threads -> Seq(Frame)]
  <2> SUFFICES ASSUME NEW t \in Threads
               PROVE  [i \in DOMAIN stack[t] |-> [stack[t][i] EXCEPT !.stable = @ \ S]] \in Seq(Frame)
    BY DEF Unstable
  <2> DEFINE r(i) == [stack[t][i] EXCEPT !.stable = @ \ S]
  <2>1. stack[t] \in Seq(Frame) /\ Len(stack[t]) \in Nat /\ DOMAIN stack[t] = 1..Len(stack[t])
    BY DEF TypeOK
  <2>2. ASSUME NEW i \in DOMAIN stack[t] PROVE r(i) \in Frame
    <3>1. stack[t][i] \in Frame
      BY <2>1
    <3>2. stack[t][i].stable \ S \in SUBSET Slots
      BY <3>1 DEF Frame
    <3> QED
      BY <3>1, <3>2 DEF Frame
  <2> HIDE DEF r
  <2>3. [i \in 1..Len(stack[t]) |-> r(i)] \in Seq(Frame)
    BY <2>1, <2>2
  <2> QED
    BY <2>1, <2>3 DEF r
<1>d. ASSUME NEW l \in Seq(Slots), Writes(l) PROVE heap' \in [Payloads -> Payload]
  BY <1>d DEF Writes, TypeOK, Payload
<1>e. ASSUME NEW t \in Threads, Unlocks(t)
      PROVE  /\ pc' \in [Threads -> {"user", "lock", "copy", "write", "reference"}]
             /\ op' \in [Threads -> Change] /\ mutex' \in Threads \cup {NoThread}
  BY <1>e DEF Unlocks, TypeOK, Change, Nothing
<1>f. ASSUME NEW t \in Threads, NEW f \in Frame, stack[t] # <<>>
      PROVE  Replaced(t, f) \in [Threads -> Seq(Frame)]
  <2>1. stack[t] \in Seq(Frame) /\ Len(stack[t]) \in DOMAIN stack[t]
    BY <1>f DEF TypeOK
  <2>2. [stack[t] EXCEPT ![Len(stack[t])] = f] \in Seq(Frame)
    BY <2>1
  <2>3. Replaced(t, f) = [stack EXCEPT ![t] = [stack[t] EXCEPT ![Len(stack[t])] = f]]
    BY DEF Replaced, TypeOK
  <2> QED
    BY <2>2, <2>3 DEF TypeOK
<1>g. ASSUME NEW p \in Payloads PROVE Released(heap, p) \in [Payloads -> Payload]
  <2>1. Deleted \in Payload /\ heap[p].count \in Nat
    BY <1>a DEF Deleted, Payload
  <2>2. heap[p].count > 1 => [count |-> heap[p].count - 1, slots |-> heap[p].slots] \in Payload
    BY <1>a, <2>1 DEF Payload
  <2> QED
    BY <2>1, <2>2 DEF Released, TypeOK
<1>1. ASSUME NEW t \in Threads, NEW s \in Slots, Connect(t, s) PROVE TypeOK'
  BY <1>1, <1>b DEF Connect, TypeOK
<1>2. ASSUME NEW t \in Threads, NEW s \in Slots, Disconnect(t, s) PROVE TypeOK'
  BY <1>2, <1>b, <1>c DEF Disconnect, TypeOK
<1>3. ASSUME NEW t \in Threads, NEW S \in Conditions, DisconnectIf(t, S) PROVE TypeOK'
  <2>1. S \in SUBSET Slots
    BY BoundsAssumption
  <2> QED
    BY <1>3, <2>1, <1>b, <1>c, BoundsAssumption DEF DisconnectIf, TypeOK
<1>4. ASSUME NEW t \in Threads, DisconnectAll(t) PROVE TypeOK'
  BY <1>4, <1>b, <1>c, BoundsAssumption DEF DisconnectAll, TypeOK
<1>5. ASSUME NEW t \in Threads, Emit(t) PROVE TypeOK'
  BY <1>5, BoundsAssumption DEF Emit, TypeOK
<1>6. ASSUME NEW t \in Threads, LockWrite(t) PROVE TypeOK'
  BY <1>6 DEF LockWrite, TypeOK
<1>7. ASSUME NEW t \in Threads, CopyList(t) PROVE TypeOK'
  <2>1. Fresh \in Payloads
    BY <1>7 DEF CopyList, Fresh
  <2>2. [count |-> 1, slots |-> heap[current].slots] \in Payload
    BY <1>a DEF Payload, SlotList
  <2>3. Released(heap, current) \in [Payloads -> Payload]
    BY <1>g DEF TypeOK
  <2>4. heap' \in [Payloads -> Payload]
    BY <1>7, <2>2, <2>3 DEF CopyList
  <2> QED
    BY <1>7, <2>1, <2>4 DEF CopyList, TypeOK
<1>8. ASSUME NEW t \in Threads, AddSlot(t) PROVE TypeOK'
  <2>1. PICK s \in op[t].slots : /\ index' = [index EXCEPT ![s] = Len(SlotList) + 1]
                                 /\ Writes(Append(SlotList, s))
    BY <1>8 DEF AddSlot
  <2>2. s \in Slots /\ op[t].slots \subseteq Slots
    BY DEF TypeOK, Change
  <2>a. Append(SlotList, s) \in Seq(Slots) /\ Len(SlotList) + 1 \in Nat \ {0}
    BY <1>a, <2>2
  <2>3. heap' \in [Payloads -> Payload] /\ index' \in [Slots -> Nat \ {0}]
    BY <1>d, <2>a, <2>1, <2>2 DEF TypeOK
  <2> QED
    BY <1>8, <1>e, <2>2, <2>3 DEF AddSlot, TypeOK
<1>9. ASSUME NEW t \in Threads, CleanSlot(t) PROVE TypeOK'
  <2>1. PICK s \in op[t].slots :
          IF index[s] <= Len(SlotList) /\ SlotList[index[s]] = s
            THEN /\ index' = [index EXCEPT ![Last(SlotList)] = index[s]]
                 /\ Writes(WithoutAt(SlotList, index[s]))
            ELSE UNCHANGED <<heap, index>>
    BY <1>9 DEF CleanSlot
  <2>2. s \in Slots
    BY DEF TypeOK, Change
  <2>3. heap' \in [Payloads -> Payload] /\ index' \in [Slots -> Nat \ {0}]
    <3>1. CASE index[s] <= Len(SlotList) /\ SlotList[index[s]] = s
      <4>1. index[s] \in DOMAIN SlotList
        BY <1>a, <2>2, <3>1 DEF TypeOK
      <4> QED
        BY <1>a, <1>d, <2>1, <2>2, <3>1, <4>1, WithoutAtFacts DEF TypeOK
    <3>2. CASE ~(index[s] <= Len(SlotList) /\ SlotList[index[s]] = s)
      BY <2>1, <3>2 DEF TypeOK
    <3> QED
      BY <3>1, <3>2
  <2> QED
    BY <1>9, <1>e, <2>3 DEF CleanSlot, TypeOK
<1>10. ASSUME NEW t \in Threads, MatchSlot(t) PROVE TypeOK'
  <2>1. op[t].at \in Nat \ {0} /\ op[t] \in Change
    BY DEF TypeOK, Change
  <2>2. CASE SlotList[op[t].at] \in op[t].slots
    <3>1. op[t].at \in DOMAIN SlotList
      BY <1>10, <1>a, <2>1 DEF MatchSlot
    <3>2. heap' \in [Payloads -> Payload] /\ index' \in [Slots -> Nat \ {0}]
      BY <1>10, <1>a, <1>d, <2>1, <2>2, <3>1, WithoutAtFacts DEF MatchSlot, TypeOK
    <3> QED
      BY <1>10, <2>2, <3>2 DEF MatchSlot, TypeOK
  <2>3. CASE SlotList[op[t].at] \notin op[t].slots
    <3> DEFINE n == op[t].at + 1
    <3>0. n \in Nat \ {0} /\ op' = [op EXCEPT ![t] = [op[t] EXCEPT !.at = n]]
      BY <1>10, <2>1, <2>3 DEF MatchSlot, TypeOK
    <3> HIDE DEF n
    <3>a. [op[t] EXCEPT !.at = n] \in Change
      BY <3>0, <2>1 DEF Change
    <3>1. op' \in [Threads -> Change]
      BY <3>0, <3>a DEF TypeOK
    <3> QED
      BY <1>10, <2>3, <3>1 DEF MatchSlot, TypeOK
  <2> QED
    BY <2>2, <2>3
<1>11. ASSUME NEW t \in Threads, MatchEnd(t) PROVE TypeOK'
  BY <1>11, <1>e DEF MatchEnd, TypeOK
<1>12. ASSUME NEW t \in Threads, ClearSlots(t) PROVE TypeOK'
  <2>1. <<>> \in Seq(Slots)
    OBVIOUS
  <2>2. heap' \in [Payloads -> Payload]
    BY <1>12, <1>d, <2>1 DEF ClearSlots
  <2> QED
    BY <1>12, <1>e, <2>2 DEF ClearSlots, TypeOK
<1>13. ASSUME NEW t \in Threads, EmitReference(t) PROVE TypeOK'
  <2>1. EmissionFrame \in Frame
    BY <1>a DEF EmissionFrame, Frame, ToSet, TypeOK
  <2>2. stack' \in [Threads -> Seq(Frame)]
    BY <1>13, <2>1 DEF EmitReference, TypeOK
  <2>3. heap' \in [Payloads -> Payload]
    <3>1. /\ heap[current].count + 1 \in Nat /\ heap[current] \in Payload
          /\ heap' = [heap EXCEPT ![current] = [heap[current] EXCEPT !.count = heap[current].count + 1]]
      BY <1>13, <1>a DEF EmitReference, TypeOK
    <3> QED
      BY <3>1, PayloadCount DEF TypeOK
  <2> QED
    BY <1>13, <2>2, <2>3 DEF EmitReference, TypeOK
<1>14. ASSUME NEW t \in Threads, CallSlot(t) PROVE TypeOK'
  <2>1. /\ stack[t] # <<>> /\ Top(t) \in Frame /\ Top(t).at \in DOMAIN Emitted(t)
        /\ Emitted(t)[Top(t).at] \in Slots
    BY <1>14, TopFacts DEF CallSlot, InEmission, Frame
  <2>2. PICK f \in Frame : stack' = Replaced(t, f)
    <3>1. Top(t).at + 1 \in Nat \ {0} /\ Append(Top(t).called, Emitted(t)[Top(t).at]) \in Seq(Slots)
      BY <2>1 DEF Frame
    <3>2. /\ [Top(t) EXCEPT !.step = "called", !.called = Append(Top(t).called, Emitted(t)[Top(t).at])] \in Frame
          /\ [Top(t) EXCEPT !.at = Top(t).at + 1] \in Frame
      BY <2>1, <3>1, FrameAt, FrameCalled
    <3> QED
      BY <1>14, <3>2 DEF CallSlot
  <2> QED
    BY <1>14, <1>f, <2>1, <2>2 DEF CallSlot, TypeOK
<1>15. ASSUME NEW t \in Threads, SlotReturns(t) PROVE TypeOK'
  <2>1. stack[t] # <<>> /\ Top(t) \in Frame
    BY <1>15, TopFacts DEF SlotReturns, InEmission
  <2>a. Top(t).at + 1 \in Nat \ {0}
    BY <2>1 DEF Frame
  <2>2. [Top(t) EXCEPT !.step = "next", !.at = Top(t).at + 1] \in Frame
    BY <2>1, <2>a, FrameAt
  <2> QED
    BY <1>15, <1>f, <2>1, <2>2 DEF SlotReturns, TypeOK
<1>16. ASSUME NEW t \in Threads, EmitEnd(t) PROVE TypeOK'
  <2>1. stack[t] # <<>> /\ Top(t).payload \in Payloads
    BY <1>16, TopFacts DEF EmitEnd, InEmission, Frame
  <2>2. stack[t] \in Seq(Frame)
    BY DEF TypeOK
  <2>3. stack' \in [Threads -> Seq(Frame)]
    BY <1>16, <2>1, <2>2, FrontFacts DEF EmitEnd, TypeOK
  <2> QED
    BY <1>16, <1>g, <2>1, <2>3 DEF EmitEnd, TypeOK
<1> QED
  BY <1>1, <1>2, <1>3, <1>4, <1>5, <1>6, <1>7, <1>8, <1>9, <1>10, <1>11, <1>12, <1>13, <1>14, <1>15,
     <1>16 DEF Next, UserCalls, SignalRuns

-----------------------------------------------------------------------------
(* What the actions do to the emissions: all but EmitReference and EmitEnd  *)
(* leave their number and their payloads alone.                             *)
SameFrames == \A t \in Threads :
  /\ Len(stack'[t]) = Len(stack[t]) /\ DOMAIN stack'[t] = DOMAIN stack[t]
  /\ \A i \in DOMAIN stack[t] : stack'[t][i].payload = stack[t][i].payload

LEMMA UnstableFrames ==
  ASSUME TypeOK, NEW S, stack' = Unstable(S)
  PROVE  SameFrames
<1> SUFFICES ASSUME NEW t \in Threads
             PROVE  /\ Len(stack'[t]) = Len(stack[t]) /\ DOMAIN stack'[t] = DOMAIN stack[t]
                    /\ \A i \in DOMAIN stack[t] : stack'[t][i].payload = stack[t][i].payload
  BY DEF SameFrames
<1> DEFINE r(i) == [stack[t][i] EXCEPT !.stable = @ \ S]
<1>1. stack[t] \in Seq(Frame) /\ Len(stack[t]) \in Nat /\ DOMAIN stack[t] = 1..Len(stack[t])
  BY DEF TypeOK
<1>2. ASSUME NEW i \in DOMAIN stack[t] PROVE r(i).payload = stack[t][i].payload
  <2>1. stack[t][i] \in Frame
    BY <1>1
  <2> QED
    BY <2>1 DEF Frame
<1>3. stack'[t] = [i \in DOMAIN stack[t] |-> r(i)]
  BY DEF Unstable
<1> HIDE DEF r
<1>4. Len([i \in 1..Len(stack[t]) |-> r(i)]) = Len(stack[t])
  BY <1>1
<1> QED
  BY <1>1, <1>2, <1>3, <1>4

LEMMA ReplacedFrames ==
  ASSUME TypeOK, NEW t \in Threads, stack[t] # <<>>, NEW f \in Frame,
         f.payload = Top(t).payload, stack' = Replaced(t, f)
  PROVE  /\ SameFrames
         /\ \A u \in Threads : \A i \in DOMAIN stack[u] :
              stack'[u][i] = IF u = t /\ i = Len(stack[t]) THEN f ELSE stack[u][i]
<1> DEFINE n == Len(stack[t])
<1>1. /\ stack[t] \in Seq(Frame) /\ n \in DOMAIN stack[t] /\ Top(t) = stack[t][n]
      /\ stack' = [stack EXCEPT ![t] = [stack[t] EXCEPT ![n] = f]]
  BY TopFacts DEF TypeOK, Replaced
<1>2. \A u \in Threads \ {t} : stack'[u] = stack[u]
  BY <1>1 DEF TypeOK
<1>3. stack'[t] = [stack[t] EXCEPT ![n] = f]
  BY <1>1 DEF TypeOK
<1>4. /\ Len(stack'[t]) = Len(stack[t]) /\ DOMAIN stack'[t] = DOMAIN stack[t]
      /\ \A i \in DOMAIN stack[t] : stack'[t][i] = IF i = n THEN f ELSE stack[t][i]
  BY <1>1, <1>3
<1> QED
  BY <1>1, <1>2, <1>4 DEF SameFrames

(* The frame a call or a return leaves on top.                              *)
LEMMA CallFrame ==
  ASSUME TypeOK, NEW t \in Threads, CallSlot(t)
  PROVE  LET s == Emitted(t)[Top(t).at] IN
         /\ stack[t] # <<>> /\ Top(t) \in Frame /\ Top(t).step = "next"
         /\ Top(t).at \in DOMAIN Emitted(t) /\ s \in Slots
         /\ \E f \in Frame :
              /\ stack' = Replaced(t, f)
              /\ f.payload = Top(t).payload /\ f.first = Top(t).first /\ f.stable = Top(t).stable
              /\ connected[s] => /\ f.at = Top(t).at /\ f.step = "called"
                                 /\ f.called = Append(Top(t).called, s)
              /\ ~connected[s] => /\ f.at = Top(t).at + 1 /\ f.step = "next"
                                  /\ f.called = Top(t).called
<1> DEFINE s == Emitted(t)[Top(t).at]
<1>1. /\ stack[t] # <<>> /\ Top(t) \in Frame /\ Top(t).step = "next"
      /\ Top(t).at \in DOMAIN Emitted(t) /\ s \in Slots
  BY TopFacts DEF CallSlot, InEmission, Frame
<1>2. Top(t).at + 1 \in Nat \ {0} /\ Append(Top(t).called, s) \in Seq(Slots)
  BY <1>1 DEF Frame
<1> HIDE DEF s
<1>3. CASE connected[s]
  <2> DEFINE f == [Top(t) EXCEPT !.step = "called", !.called = Append(Top(t).called, s)]
  <2>1. stack' = Replaced(t, f)
    BY <1>3 DEF CallSlot, s
  <2>2. f \in Frame
    BY <1>1, <1>2, FrameCalled
  <2>3. /\ f.payload = Top(t).payload /\ f.first = Top(t).first /\ f.stable = Top(t).stable
        /\ f.at = Top(t).at /\ f.step = "called" /\ f.called = Append(Top(t).called, s)
    BY <1>1 DEF Frame
  <2> QED
    BY <1>1, <1>3, <2>1, <2>2, <2>3 DEF s
<1>4. CASE ~connected[s]
  <2> DEFINE f == [Top(t) EXCEPT !.at = Top(t).at + 1]
  <2>1. stack' = Replaced(t, f)
    BY <1>4 DEF CallSlot, s
  <2>2. f \in Frame
    BY <1>1, <1>2, FrameAt
  <2>3. /\ f.payload = Top(t).payload /\ f.first = Top(t).first /\ f.stable = Top(t).stable
        /\ f.at = Top(t).at + 1 /\ f.step = "next" /\ f.called = Top(t).called
    BY <1>1 DEF Frame
  <2> QED
    BY <1>1, <1>4, <2>1, <2>2, <2>3 DEF s
<1> QED
  BY <1>3, <1>4

LEMMA ReturnFrame ==
  ASSUME TypeOK, NEW t \in Threads, SlotReturns(t)
  PROVE  /\ stack[t] # <<>> /\ Top(t) \in Frame /\ Top(t).step = "called"
         /\ \E f \in Frame :
              /\ stack' = Replaced(t, f)
              /\ f.payload = Top(t).payload /\ f.first = Top(t).first /\ f.stable = Top(t).stable
              /\ f.at = Top(t).at + 1 /\ f.step = "next" /\ f.called = Top(t).called
<1>1. stack[t] # <<>> /\ Top(t) \in Frame /\ Top(t).step = "called" /\ Top(t).at + 1 \in Nat \ {0}
  BY TopFacts DEF SlotReturns, InEmission, Frame
<1> DEFINE f == [Top(t) EXCEPT !.step = "next", !.at = Top(t).at + 1]
<1>2. stack' = Replaced(t, f)
  BY DEF SlotReturns
<1>3. f \in Frame
  BY <1>1, FrameAt
<1>4. /\ f.payload = Top(t).payload /\ f.first = Top(t).first /\ f.stable = Top(t).stable
      /\ f.at = Top(t).at + 1 /\ f.step = "next" /\ f.called = Top(t).called
  BY <1>1 DEF Frame
<1> QED
  BY <1>1, <1>2, <1>3, <1>4

(* Who is where with the mutex, and in how many emissions.                  *)
LEMMA LockStep == TypeOK /\ LockInv /\ Next => LockInv'
<1> SUFFICES ASSUME TypeOK, LockInv, Next PROVE LockInv'
  OBVIOUS
<1> USE DEF list, counters
<1>a. \A t \in Threads : stack[t] \in Seq(Frame) /\ Len(stack[t]) \in Nat
  BY DEF TypeOK
<1>b. ASSUME NEW t \in Threads, NEW kind \in {"add", "clean", "match", "clear"}, NEW S,
             Begins(t, kind, S), SameFrames, mutex' = mutex
      PROVE  LockInv'
  BY <1>b DEF Begins, UserRuns, LockInv, SameFrames, TypeOK
<1>c. UNCHANGED stack => SameFrames
  BY DEF SameFrames
<1>1. ASSUME NEW t \in Threads, NEW s \in Slots, Connect(t, s) \/ Disconnect(t, s) PROVE LockInv'
  BY <1>1, <1>b, <1>c, UnstableFrames DEF Connect, Disconnect
<1>2. ASSUME NEW t \in Threads, NEW S, DisconnectIf(t, S) PROVE LockInv'
  BY <1>2, <1>b, UnstableFrames DEF DisconnectIf
<1>3. ASSUME NEW t \in Threads, DisconnectAll(t) PROVE LockInv'
  BY <1>3, <1>b, UnstableFrames DEF DisconnectAll
<1>4. ASSUME NEW t \in Threads, Emit(t) PROVE LockInv'
  BY <1>4, <1>a DEF Emit, UserRuns, LockInv, TypeOK
<1>5. ASSUME NEW t \in Threads, LockWrite(t) \/ CopyList(t) PROVE LockInv'
  BY <1>5, BoundsAssumption DEF LockWrite, CopyList, LockInv, TypeOK
<1>6. ASSUME NEW t \in Threads, pc[t] = "write", Unlocks(t), UNCHANGED stack PROVE LockInv'
  BY <1>6, BoundsAssumption DEF Unlocks, Nothing, LockInv, TypeOK
<1>7. ASSUME NEW t \in Threads, AddSlot(t) \/ CleanSlot(t) \/ MatchEnd(t) \/ ClearSlots(t) PROVE LockInv'
  BY <1>6, <1>7 DEF AddSlot, CleanSlot, MatchEnd, ClearSlots
<1>8. ASSUME NEW t \in Threads, MatchSlot(t) PROVE LockInv'
  <2>1. \A u \in Threads : op'[u].kind = op[u].kind /\ (u # t => op'[u] = op[u])
    BY <1>8 DEF MatchSlot, TypeOK, Change
  <2> QED
    BY <1>8, <2>1 DEF MatchSlot, LockInv
<1>9. ASSUME NEW t \in Threads, EmitReference(t) PROVE LockInv'
  <2>1. Len(stack'[t]) = Len(stack[t]) + 1 /\ \A u \in Threads \ {t} : stack'[u] = stack[u]
    BY <1>9, <1>a DEF EmitReference, TypeOK
  <2> QED
    BY <1>9, <1>a, <2>1, BoundsAssumption DEF EmitReference, LockInv, TypeOK
<1>10. ASSUME NEW t \in Threads, CallSlot(t) \/ SlotReturns(t) PROVE LockInv'
  <2>1. SameFrames
    BY <1>10, CallFrame, ReturnFrame, ReplacedFrames
  <2> QED
    BY <1>10, <2>1 DEF CallSlot, SlotReturns, LockInv, SameFrames
<1>11. ASSUME NEW t \in Threads, EmitEnd(t) PROVE LockInv'
  <2>1. stack[t] # <<>> /\ stack' = [stack EXCEPT ![t] = Front(stack[t])]
    BY <1>11 DEF EmitEnd, InEmission
  <2>2. Len(stack'[t]) = Len(stack[t]) - 1 /\ \A u \in Threads \ {t} : stack'[u] = stack[u]
    BY <2>1, <1>a, FrontFacts DEF TypeOK
  <2> QED
    BY <1>11, <1>a, <2>2, BoundsAssumption DEF EmitEnd, InEmission, LockInv
<1> QED
  BY <1>1, <1>2, <1>3, <1>4, <1>5, <1>7, <1>8, <1>9, <1>10, <1>11 DEF Next, UserCalls, SignalRuns

-----------------------------------------------------------------------------
(* What the threads are about to add or to clean.                           *)
LEMMA OpStep == TypeOK /\ LockInv /\ OpInv /\ Next => OpInv'
<1> SUFFICES ASSUME TypeOK, LockInv, OpInv, Next PROVE OpInv'
  OBVIOUS
<1> USE DEF list, counters
<1>a. ASSUME NEW t \in Threads, NEW kind \in {"clean", "match", "clear"}, NEW S, Begins(t, kind, S),
             kind = "clean" => \E s \in Slots : S = {s}, UNCHANGED <<born, wanted>>
      PROVE  OpInv'
  BY <1>a DEF Begins, OpInv, TypeOK
<1>b. ASSUME NEW t \in Threads, Unlocks(t), wanted' \subseteq wanted, UNCHANGED born PROVE OpInv'
  BY <1>b DEF Unlocks, Nothing, OpInv, TypeOK
<1>1. ASSUME NEW t \in Threads, NEW s \in Slots, Connect(t, s) PROVE OpInv'
  BY <1>1 DEF Connect, Begins, OpInv, TypeOK
<1>2. ASSUME NEW t \in Threads, NEW s \in Slots, Disconnect(t, s) PROVE OpInv'
  BY <1>2, <1>a DEF Disconnect
<1>3. ASSUME NEW t \in Threads, NEW S, DisconnectIf(t, S) PROVE OpInv'
  BY <1>3, <1>a DEF DisconnectIf
<1>4. ASSUME NEW t \in Threads, DisconnectAll(t) PROVE OpInv'
  BY <1>4, <1>a DEF DisconnectAll
<1>5. ASSUME NEW t \in Threads,
             \/ Emit(t) \/ LockWrite(t) \/ CopyList(t) \/ EmitReference(t) \/ CallSlot(t)
             \/ SlotReturns(t) \/ EmitEnd(t)
      PROVE  OpInv'
  <2>1. UNCHANGED <<op, born, wanted>>
    BY <1>5 DEF Emit, LockWrite, CopyList, EmitReference, CallSlot, SlotReturns, EmitEnd
  <2> QED
    BY <2>1 DEF OpInv
<1>6. ASSUME NEW t \in Threads, AddSlot(t) PROVE OpInv'
  <2>1. op[t].kind = "add" /\ wanted' = wanted \cup op[t].slots /\ op[t].slots \subseteq born
    BY <1>6 DEF AddSlot, OpInv
  <2>2. born' = born /\ op' = [op EXCEPT ![t] = Nothing]
    BY <1>6 DEF AddSlot, Unlocks
  <2>3. \A u \in Threads \ {t} : op[u].kind = "add" => op[u].slots \subseteq born \ wanted'
    BY <2>1 DEF OpInv
  <2> QED
    BY <2>1, <2>2, <2>3 DEF OpInv, Nothing, TypeOK
<1>7. ASSUME NEW t \in Threads, CleanSlot(t) \/ MatchEnd(t) \/ ClearSlots(t) PROVE OpInv'
  BY <1>7, <1>b DEF CleanSlot, MatchEnd, ClearSlots
<1>8. ASSUME NEW t \in Threads, MatchSlot(t) PROVE OpInv'
  <2>1. \A u \in Threads : op'[u].kind = op[u].kind /\ op'[u].slots = op[u].slots
    <3>1. op' = op \/ op' = [op EXCEPT ![t] = [op[t] EXCEPT !.at = op[t].at + 1]]
      BY <1>8 DEF MatchSlot, TypeOK
    <3>2. op[t] \in Change /\ op \in [Threads -> Change]
      BY DEF TypeOK
    <3>3. /\ [op[t] EXCEPT !.at = op[t].at + 1].kind = op[t].kind
          /\ [op[t] EXCEPT !.at = op[t].at + 1].slots = op[t].slots
      BY <3>2 DEF Change
    <3> QED
      BY <3>1, <3>2, <3>3
  <2> QED
    BY <1>8, <2>1 DEF MatchSlot, OpInv
<1> QED
  BY <1>1, <1>2, <1>3, <1>4, <1>5, <1>6, <1>7, <1>8 DEF Next, UserCalls, SignalRuns

(* Memory: the references of an emission are counted.                       *)
LEMMA HoldersFinite ==
  ASSUME NEW p
  PROVE  /\ IsFiniteSet(Holders(p)) /\ Cardinality(Holders(p)) \in Nat
         /\ Cardinality(Holders(p)) = 0 <=> Holders(p) = {}
<1>0. IsFiniteSet(1..MaxDepth)
  BY FS_Interval, BoundsAssumption
<1>1. IsFiniteSet(Threads \X (1..MaxDepth))
  BY <1>0, FS_Product, BoundsAssumption
<1>2. IsFiniteSet(Holders(p))
  BY <1>1, FS_Subset DEF Holders
<1> QED
  BY <1>2, FS_CardinalityType, FS_EmptySet

LEMMA SameHolders ==
  ASSUME SameFrames, NEW p
  PROVE  Holders(p)' = Holders(p)
BY DEF SameFrames, Holders

(* The list of an emission, or the signal's, has at least that reference.   *)
LEMMA HeldCount ==
  ASSUME TypeOK, LockInv, HeapInv
  PROVE  /\ heap[current].count >= 1
         /\ heap[current].count = 1 => Holders(current) = {}
         /\ \A t \in Threads : \A i \in DOMAIN stack[t] :
              LET p == stack[t][i].payload IN
                /\ p \in Payloads /\ <<t, i>> \in Holders(p) /\ heap[p].count >= 1
                /\ p = current => heap[p].count >= 2
<1>1. current \in Payloads /\ heap[current].count = Cardinality(Holders(current)) + 1
  BY DEF TypeOK, HeapInv, CountsAreHolders
<1>2. ASSUME NEW t \in Threads, NEW i \in DOMAIN stack[t]
      PROVE  LET p == stack[t][i].payload IN
                /\ p \in Payloads /\ <<t, i>> \in Holders(p) /\ heap[p].count >= 1
                /\ p = current => heap[p].count >= 2
  <2> DEFINE p == stack[t][i].payload
  <2>1. stack[t] \in Seq(Frame) /\ Len(stack[t]) <= MaxDepth
    BY DEF TypeOK, LockInv
  <2>2. i \in 1..MaxDepth /\ stack[t][i] \in Frame
    BY <2>1, BoundsAssumption
  <2>3. p \in Payloads /\ <<t, i>> \in Holders(p)
    BY <2>2 DEF Frame, Holders
  <2>4. Cardinality(Holders(p)) \in Nat \ {0}
    BY <2>3, HoldersFinite
  <2> HIDE DEF p
  <2>5. heap[p].count = Cardinality(Holders(p)) + (IF p = current THEN 1 ELSE 0)
    BY <2>3 DEF HeapInv, CountsAreHolders
  <2>6. heap[p].count >= 1 /\ (p = current => heap[p].count >= 2)
    BY <2>4, <2>5
  <2> QED
    BY <2>3, <2>6 DEF p
<1> QED
  BY <1>1, <1>2, HoldersFinite

(* The lists that stay as they are.                                         *)
LEMMA ListsKept ==
  ASSUME TypeOK, LockInv, HeapInv, NEW t \in Threads,
         \/ LockWrite(t) \/ CopyList(t) \/ EmitReference(t) \/ EmitEnd(t)
  PROVE  /\ SlotList' = SlotList
         /\ \A u \in Threads : \A i \in DOMAIN stack[u] :
              LET p == stack[u][i].payload IN
                heap'[p].slots = heap[p].slots \/ (EmitEnd(t) /\ u = t /\ i = Len(stack[t]))
<1> USE DEF list, counters
<1>a. heap \in [Payloads -> Payload] /\ current \in Payloads
  BY DEF TypeOK
<1>1. CASE LockWrite(t)
  BY <1>1 DEF LockWrite, SlotList
<1>2. CASE CopyList(t)
  <2>1. Fresh \in Payloads /\ heap[Fresh].count = 0 /\ current' = Fresh
    BY <1>2 DEF CopyList, Fresh
  <2>2. Fresh # current
    BY <2>1, HeldCount, <1>a DEF Payload
  <2>3. heap'[Fresh].slots = heap[current].slots
    BY <1>2, <2>1, <1>a DEF CopyList, Released
  <2>4. \A p \in Payloads \ {Fresh} : heap[p].count >= 2 \/ p # current => heap'[p].slots = heap[p].slots
    BY <1>2, <2>1, <2>2, <1>a DEF CopyList, Released, Payload
  <2>5. ASSUME NEW u \in Threads, NEW i \in DOMAIN stack[u]
        PROVE  heap'[stack[u][i].payload].slots = heap[stack[u][i].payload].slots
    <3> DEFINE p == stack[u][i].payload
    <3>1. p \in Payloads /\ heap[p].count >= 1 /\ (p = current => heap[p].count >= 2)
      BY HeldCount
    <3> HIDE DEF p
    <3>2. p \in Payloads \ {Fresh}
      BY <2>1, <3>1
    <3>3. heap'[p].slots = heap[p].slots
      BY <2>4, <3>1, <3>2
    <3> QED
      BY <3>3 DEF p
  <2> QED
    BY <2>1, <2>3, <2>5 DEF SlotList
<1>3. CASE EmitReference(t)
  <2>1. \A p \in Payloads : heap'[p].slots = heap[p].slots
    BY <1>3, <1>a DEF EmitReference, Payload
  <2> QED
    BY <1>3, <1>a, <2>1, HeldCount DEF EmitReference, SlotList
<1>4. CASE EmitEnd(t)
  <2> DEFINE q == Top(t).payload
  <2>1. stack[t] # <<>> /\ q \in Payloads /\ Len(stack[t]) \in DOMAIN stack[t]
        /\ q = stack[t][Len(stack[t])].payload /\ UNCHANGED current
    BY <1>4, TopFacts DEF EmitEnd, InEmission, Frame
  <2>2. heap' = Released(heap, q)
    BY <1>4 DEF EmitEnd
  <2> HIDE DEF q
  <2>3. \A p \in Payloads : p # q \/ heap[p].count > 1 => heap'[p].slots = heap[p].slots
    BY <2>1, <2>2, <1>a DEF Released, Payload
  <2>4. heap'[current].slots = heap[current].slots
    <3>1. current = q => heap[current].count >= 2
      BY <2>1, HeldCount
    <3>2. heap[current].count \in Nat
      BY <1>a DEF Payload
    <3> QED
      BY <1>a, <2>3, <3>1, <3>2
  <2>5. ASSUME NEW u \in Threads, NEW i \in DOMAIN stack[u], u # t \/ i # Len(stack[t])
        PROVE  heap'[stack[u][i].payload].slots = heap[stack[u][i].payload].slots
    <3>1. CASE stack[u][i].payload # q
      BY <2>3, <3>1, HeldCount
    <3>2. CASE stack[u][i].payload = q
      <4>1. <<u, i>> \in Holders(q) /\ <<t, Len(stack[t])>> \in Holders(q)
        BY <3>2, <2>1, HeldCount
      <4>2. <<u, i>> # <<t, Len(stack[t])>>
        BY <2>5
      <4>3. Cardinality(Holders(q) \ {<<u, i>>}) = Cardinality(Holders(q)) - 1
            /\ IsFiniteSet(Holders(q) \ {<<u, i>>})
        BY <4>1, HoldersFinite, FS_RemoveElement
      <4>a. Holders(q) \ {<<u, i>>} # {}
        BY <4>1, <4>2
      <4>b. Cardinality(Holders(q) \ {<<u, i>>}) # 0
        BY <4>3, <4>a, FS_EmptySet
      <4>c. Cardinality(Holders(q) \ {<<u, i>>}) \in Nat
        BY <4>3, FS_CardinalityType
      <4>4. Cardinality(Holders(q) \ {<<u, i>>}) # 0 /\ Cardinality(Holders(q) \ {<<u, i>>}) \in Nat
        BY <4>b, <4>c
      <4>5. Cardinality(Holders(q)) >= 2
        BY <4>3, <4>4, HoldersFinite
      <4>6. heap[q].count = Cardinality(Holders(q)) + (IF q = current THEN 1 ELSE 0)
        BY <2>1 DEF HeapInv, CountsAreHolders
      <4>7. heap[q].count > 1
        BY <4>5, <4>6, HoldersFinite
      <4> QED
        BY <4>7, <3>2, <2>1, <2>3
    <3> QED
      BY <3>1, <3>2
  <2> QED
    BY <1>4, <2>1, <2>4, <2>5 DEF SlotList
<1> QED
  BY <1>1, <1>2, <1>3, <1>4

LEMMA SameCounts ==
  ASSUME TypeOK, HeapInv, SameFrames, current' = current,
         \A p \in Payloads : heap'[p].count = heap[p].count,
         \A t \in Threads : pc'[t] = "write" => heap[current].count = 1
  PROVE  HeapInv'
<1>1. current \in Payloads
  BY DEF TypeOK
<1>2. CountsAreHolders'
  BY SameHolders DEF HeapInv, CountsAreHolders
<1> QED
  BY <1>1, <1>2 DEF HeapInv

LEMMA WriteFacts ==
  ASSUME TypeOK, NEW l, Writes(l)
  PROVE  /\ \A p \in Payloads : heap'[p].count = heap[p].count
         /\ heap'[current].slots = l
         /\ \A p \in Payloads \ {current} : heap'[p] = heap[p]
<1>1. heap \in [Payloads -> Payload] /\ current \in Payloads
  BY DEF TypeOK
<1>2. heap' = [heap EXCEPT ![current] = [heap[current] EXCEPT !.slots = l]]
  BY DEF Writes
<1>3. [heap[current] EXCEPT !.slots = l].count = heap[current].count
      /\ [heap[current] EXCEPT !.slots = l].slots = l
  BY <1>1 DEF Payload
<1> QED
  BY <1>1, <1>2, <1>3

(* Every change of the signal's own list is such a write.                   *)
LEMMA ListWrites ==
  ASSUME TypeOK, NEW t \in Threads,
         AddSlot(t) \/ CleanSlot(t) \/ MatchSlot(t) \/ MatchEnd(t) \/ ClearSlots(t)
  PROVE  /\ \A p \in Payloads : heap'[p].count = heap[p].count
         /\ \A p \in Payloads \ {current} : heap'[p] = heap[p]
         /\ current' = current /\ pc[t] = "write" /\ UNCHANGED <<stack, connected>>
         /\ \A u \in Threads : pc'[u] = "write" => pc[u] = "write"
         /\ SlotList' = heap'[current].slots
<1> USE DEF counters
<1>1. (\E l : Writes(l)) \/ UNCHANGED heap
  BY DEF AddSlot, CleanSlot, MatchSlot, MatchEnd, ClearSlots
<1>2. current' = current /\ pc[t] = "write" /\ UNCHANGED <<stack, connected>>
  BY DEF AddSlot, CleanSlot, MatchSlot, MatchEnd, ClearSlots
<1>3. \A u \in Threads : pc'[u] = "write" => pc[u] = "write"
  BY DEF AddSlot, CleanSlot, MatchSlot, MatchEnd, ClearSlots, Unlocks, TypeOK
<1>4. SlotList' = heap'[current].slots
  BY <1>2 DEF SlotList
<1> QED
  BY <1>1, <1>2, <1>3, <1>4, WriteFacts

(* A count follows the references, step by step.                            *)
LEMMA HeapStep == TypeOK /\ LockInv /\ HeapInv /\ Next => HeapInv'
<1> SUFFICES ASSUME TypeOK, LockInv, HeapInv, Next PROVE HeapInv'
  OBVIOUS
<1> USE DEF list, counters
<1>a. heap \in [Payloads -> Payload] /\ current \in Payloads /\ \A p \in Payloads : heap[p].count \in Nat
  BY DEF TypeOK, Payload
<1>b. UNCHANGED stack => SameFrames
  BY DEF SameFrames
<1>c. \A p \in Payloads : heap[p].count = Cardinality(Holders(p)) + (IF p = current THEN 1 ELSE 0)
  BY DEF HeapInv, CountsAreHolders
<1>1. ASSUME NEW t \in Threads, UserCalls(t) PROVE HeapInv'
  <2>1. UNCHANGED <<heap, current>> /\ \A u \in Threads : pc'[u] = "write" => pc[u] = "write"
    BY <1>1 DEF UserCalls, Connect, Disconnect, DisconnectIf, DisconnectAll, Emit, Begins, TypeOK
  <2>2. SameFrames
    BY <1>1, <1>b, UnstableFrames DEF UserCalls, Connect, Disconnect, DisconnectIf, DisconnectAll, Emit
  <2> QED
    BY <2>1, <2>2, SameCounts DEF HeapInv
<1>2. ASSUME NEW t \in Threads, LockWrite(t) PROVE HeapInv'
  <2>1. \A u \in Threads : pc'[u] = "write" => heap[current].count = 1
    BY <1>2, BoundsAssumption DEF LockWrite, LockInv, TypeOK
  <2> QED
    BY <1>2, <1>b, <2>1, SameCounts DEF LockWrite
<1>3. ASSUME NEW t \in Threads,
             AddSlot(t) \/ CleanSlot(t) \/ MatchSlot(t) \/ MatchEnd(t) \/ ClearSlots(t)
      PROVE  HeapInv'
  BY <1>3, <1>b, ListWrites, SameCounts DEF HeapInv
<1>4. ASSUME NEW t \in Threads, CallSlot(t) \/ SlotReturns(t) PROVE HeapInv'
  <2>1. SameFrames
    BY <1>4, CallFrame, ReturnFrame, ReplacedFrames
  <2> QED
    BY <1>4, <2>1, SameCounts DEF CallSlot, SlotReturns, HeapInv
<1>5. ASSUME NEW t \in Threads, CopyList(t) PROVE HeapInv'
  <2>1. Fresh \in Payloads /\ heap[Fresh].count = 0 /\ current' = Fresh /\ UNCHANGED stack
    BY <1>5 DEF CopyList, Fresh
  <2>2. Fresh # current /\ heap[current].count >= 1
    BY <2>1, HeldCount
  <2>3. heap' = [Released(heap, current) EXCEPT ![Fresh] = [count |-> 1, slots |-> heap[current].slots]]
    BY <1>5 DEF CopyList
  <2>4. /\ heap'[Fresh].count = 1 /\ heap'[current].count = heap[current].count - 1
        /\ \A p \in Payloads \ {current, Fresh} : heap'[p].count = heap[p].count
    BY <2>1, <2>2, <2>3, <1>a DEF Released, Deleted
  <2>5. \A p : Holders(p)' = Holders(p)
    BY <2>1, <1>b, SameHolders
  <2>6. Cardinality(Holders(Fresh)) = 0
    BY <2>1, <2>2, <1>c, HoldersFinite
  <2>7. CountsAreHolders'
    <3> SUFFICES ASSUME NEW p \in Payloads
                 PROVE  heap'[p].count = Cardinality(Holders(p)) + (IF p = Fresh THEN 1 ELSE 0)
      BY <2>1, <2>5 DEF CountsAreHolders
    <3> QED
      BY <2>2, <2>4, <2>6, <1>a, <1>c, HoldersFinite
  <2>8. \A u \in Threads : pc'[u] = "write" => heap'[current'].count = 1
    BY <2>1, <2>4
  <2> QED
    BY <2>7, <2>8 DEF HeapInv
<1>6. ASSUME NEW t \in Threads, EmitReference(t) PROVE HeapInv'
  <2> DEFINE h == <<t, Len(stack[t]) + 1>>
  <2>1. /\ stack[t] \in Seq(Frame) /\ Len(stack[t]) + 1 \in 1..MaxDepth /\ Len(stack[t]) \in Nat
        /\ stack' = [stack EXCEPT ![t] = Append(stack[t], EmissionFrame)] /\ current' = current
        /\ EmissionFrame.payload = current
    BY <1>6, BoundsAssumption DEF EmitReference, LockInv, TypeOK, EmissionFrame
  <2> HIDE DEF EmissionFrame
  <2>2. /\ heap'[current].count = heap[current].count + 1
        /\ \A p \in Payloads \ {current} : heap'[p].count = heap[p].count
    BY <1>6, <1>a DEF EmitReference, Payload
  <2>3. /\ DOMAIN stack'[t] = 1..(Len(stack[t]) + 1) /\ DOMAIN stack[t] = 1..Len(stack[t])
        /\ stack'[t][Len(stack[t]) + 1] = EmissionFrame
        /\ \A i \in 1..Len(stack[t]) : stack'[t][i] = stack[t][i]
        /\ \A u \in Threads \ {t} : stack'[u] = stack[u]
    BY <2>1 DEF TypeOK
  <2>4. ASSUME NEW p \in Payloads, p = current
        PROVE  Holders(p)' = Holders(p) \cup {h} /\ h \notin Holders(p)
    BY <2>1, <2>3, <2>4 DEF Holders
  <2>5. ASSUME NEW p \in Payloads, p # current
        PROVE  Holders(p)' = Holders(p)
    BY <2>1, <2>3, <2>5 DEF Holders
  <2>7. CountsAreHolders'
    <3> SUFFICES ASSUME NEW p \in Payloads
                 PROVE  heap'[p].count = Cardinality(Holders(p)') + (IF p = current THEN 1 ELSE 0)
      BY <2>1 DEF CountsAreHolders
    <3>1. CASE p = current
      <4>1. Cardinality(Holders(p)') = Cardinality(Holders(p)) + 1
        BY <3>1, <2>4, HoldersFinite, FS_AddElement
      <4> QED
        BY <3>1, <4>1, <2>2, <1>a, <1>c, HoldersFinite
    <3>2. CASE p # current
      BY <3>2, <2>2, <2>5, <1>a, <1>c, HoldersFinite
    <3> QED
      BY <3>1, <3>2
  <2>8. \A u \in Threads : pc'[u] # "write"
    BY <1>6, BoundsAssumption DEF EmitReference, LockInv, TypeOK
  <2> QED
    BY <2>7, <2>8 DEF HeapInv
<1>7. ASSUME NEW t \in Threads, EmitEnd(t) PROVE HeapInv'
  <2>0. /\ stack[t] # <<>> /\ stack[t] \in Seq(Frame) /\ Len(stack[t]) \in Nat \ {0}
        /\ Top(t).payload \in Payloads /\ Top(t).payload = stack[t][Len(stack[t])].payload
    BY <1>7, TopFacts DEF EmitEnd, InEmission, Frame, TypeOK
  <2> PICK n \in Nat \ {0}, q \in Payloads : n = Len(stack[t]) /\ q = Top(t).payload
    BY <2>0
  <2> DEFINE h == <<t, n>>
  <2>1. /\ stack[t] # <<>> /\ DOMAIN stack[t] = 1..n /\ q = stack[t][n].payload
        /\ stack' = [stack EXCEPT ![t] = Front(stack[t])] /\ UNCHANGED <<current, pc>>
    BY <1>7, <2>0 DEF EmitEnd
  <2>2. heap' = Released(heap, q)
    BY <1>7 DEF EmitEnd
  <2>3. h \in Holders(q) /\ heap[q].count >= 1 /\ (q = current => heap[q].count >= 2)
    BY <2>1, HeldCount
  <2>4. /\ heap'[q].count = heap[q].count - 1
        /\ \A p \in Payloads \ {q} : heap'[p].count = heap[p].count
    BY <2>1, <2>2, <2>3, <1>a DEF Released, Deleted
  <2>5. /\ DOMAIN stack'[t] = 1..(n - 1) /\ \A i \in 1..(n - 1) : stack'[t][i] = stack[t][i]
        /\ \A u \in Threads \ {t} : stack'[u] = stack[u]
    BY <2>0, <2>1, FrontFacts DEF TypeOK
  <2>6. ASSUME NEW p \in Payloads, NEW x \in Threads \X (1..MaxDepth)
        PROVE  x \in Holders(p)' <=> x \in Holders(p) /\ x # h
    <3>1. x[1] \in Threads /\ x[2] \in Nat /\ (x # h <=> (x[1] # t \/ x[2] # n))
      OBVIOUS
    <3>2. CASE x[1] # t
      BY <3>1, <3>2, <2>5 DEF Holders
    <3>3. CASE x[1] = t
      BY <3>1, <3>3, <2>1, <2>5 DEF Holders
    <3> QED
      BY <3>2, <3>3
  <2>7. ASSUME NEW p \in Payloads PROVE Holders(p)' = Holders(p) \ {h}
    <3>1. /\ Holders(p) \subseteq Threads \X (1..MaxDepth)
          /\ Holders(p)' \subseteq Threads \X (1..MaxDepth)
      BY DEF Holders
    <3> QED
      BY <3>1, <2>6
  <2>8. ASSUME NEW p \in Payloads, p # q PROVE h \notin Holders(p)
    BY <2>1, <2>8 DEF Holders
  <2>9. CountsAreHolders'
    <3> SUFFICES ASSUME NEW p \in Payloads
                 PROVE  heap'[p].count = Cardinality(Holders(p)') + (IF p = current THEN 1 ELSE 0)
      BY <2>1 DEF CountsAreHolders
    <3>1. CASE p = q
      <4>1. Cardinality(Holders(p)') = Cardinality(Holders(p)) - 1
        BY <3>1, <2>3, <2>7, HoldersFinite, FS_RemoveElement
      <4> QED
        BY <3>1, <4>1, <2>4, <1>a, <1>c, HoldersFinite
    <3>2. CASE p # q
      <4>1. Holders(p)' = Holders(p)
        BY <3>2, <2>7, <2>8
      <4> QED
        BY <3>2, <4>1, <2>4, <1>a, <1>c, HoldersFinite
    <3> QED
      BY <3>1, <3>2
  <2>10. \A u \in Threads : pc'[u] = "write" => heap'[current'].count = 1
    BY <2>1, <2>3, <2>4, <1>a DEF HeapInv
  <2> QED
    BY <2>9, <2>10 DEF HeapInv
<1> QED
  BY <1>1, <1>2, <1>3, <1>4, <1>5, <1>6, <1>7 DEF Next, SignalRuns

-----------------------------------------------------------------------------
(* Swap-and-pop takes out that slot and no other, and corrects the index.   *)
LEMMA SwapAndPop ==
  ASSUME NEW l \in Seq(Slots), NEW x \in [Slots -> Nat \ {0}], \A k \in DOMAIN l : x[l[k]] = k,
         NEW i \in DOMAIN l
  PROVE  /\ \A k \in DOMAIN WithoutAt(l, i) : [x EXCEPT ![Last(l)] = i][WithoutAt(l, i)[k]] = k
         /\ ToSet(WithoutAt(l, i)) = ToSet(l) \ {l[i]}
         /\ \A k \in DOMAIN WithoutAt(l, i) : k < i => WithoutAt(l, i)[k] = l[k]
<1> DEFINE w == WithoutAt(l, i)
           n == Len(l)
<1>1. /\ n \in Nat \ {0} /\ DOMAIN l = 1..n /\ DOMAIN w = 1..(n - 1) /\ Last(l) = l[n]
      /\ \A k \in 1..(n - 1) : w[k] = IF k = i THEN l[n] ELSE l[k]
      /\ \A k \in 1..n : l[k] \in Slots
  BY WithoutAtFacts DEF Last
<1> HIDE DEF w, n
<1>2. \A j, k \in 1..n : l[j] = l[k] => j = k
  BY <1>1
<1>3. \A k \in DOMAIN w : [x EXCEPT ![Last(l)] = i][w[k]] = k
  <2> SUFFICES ASSUME NEW k \in 1..(n - 1) PROVE [x EXCEPT ![l[n]] = i][w[k]] = k
    BY <1>1
  <2>1. CASE k = i
    BY <2>1, <1>1
  <2>2. CASE k # i
    BY <2>2, <1>1, <1>2
  <2> QED
    BY <2>1, <2>2
<1>4. ASSUME NEW s PROVE s \in ToSet(w) <=> s \in ToSet(l) /\ s # l[i]
  <2>1. ASSUME NEW k \in 1..(n - 1), s = w[k] PROVE s \in ToSet(l) /\ s # l[i]
    BY <2>1, <1>1, <1>2 DEF ToSet
  <2>2. ASSUME NEW k \in 1..n, s = l[k], s # l[i] PROVE s \in ToSet(w)
    <3>1. CASE k = n
      BY <3>1, <2>2, <1>1 DEF ToSet
    <3>2. CASE k # n
      BY <3>2, <2>2, <1>1 DEF ToSet
    <3> QED
      BY <3>1, <3>2
  <2> QED
    BY <2>1, <2>2, <1>1 DEF ToSet
<1> QED
  BY <1>1, <1>3, <1>4 DEF w

(* The list loses and gains what the calls say.                             *)
LEMMA ListStep == TypeOK /\ LockInv /\ OpInv /\ HeapInv /\ ListInv /\ Next => ListInv'
<1> SUFFICES ASSUME TypeOK, LockInv, OpInv, HeapInv, ListInv, Next PROVE ListInv'
  OBVIOUS
<1> USE DEF list, counters
<1>a. /\ SlotList \in Seq(Slots) /\ DOMAIN SlotList = 1..Len(SlotList) /\ Len(SlotList) \in Nat
      /\ index \in [Slots -> Nat \ {0}] /\ \A i \in DOMAIN SlotList : SlotList[i] \in Slots
      /\ \A k \in DOMAIN SlotList : index[SlotList[k]] = k
  <2>1. heap[current] \in Payload
    BY DEF TypeOK
  <2>2. SlotList \in Seq(Slots)
    BY <2>1 DEF SlotList, Payload
  <2> QED
    BY <2>2 DEF TypeOK, ListInv
<1>1. ASSUME NEW t \in Threads, UserCalls(t) PROVE ListInv'
  <2>1. UNCHANGED <<SlotList, index, wanted>>
    BY <1>1 DEF UserCalls, Connect, Disconnect, DisconnectIf, DisconnectAll, Emit, SlotList
  <2>2. \A u \in Threads : /\ pc'[u] = "write" <=> pc[u] = "write"
                           /\ pc[u] = "write" => op'[u] = op[u]
    BY <1>1 DEF UserCalls, Connect, Disconnect, DisconnectIf, DisconnectAll, Emit, Begins, UserRuns,
                TypeOK
  <2> QED
    BY <2>1, <2>2 DEF ListInv
<1>2. ASSUME NEW t \in Threads, LockWrite(t) \/ CopyList(t) PROVE ListInv'
  <2>1. SlotList' = SlotList /\ UNCHANGED <<index, wanted, op>>
    BY <1>2, ListsKept DEF LockWrite, CopyList
  <2>2. /\ op[t].at = 1 /\ pc[t] # "write"
        /\ \A u \in Threads \ {t} : pc'[u] = pc[u]
    BY <1>2 DEF LockWrite, CopyList, LockInv, TypeOK
  <2> QED
    BY <2>1, <2>2, <1>a DEF ListInv
<1>3. ASSUME NEW t \in Threads, EmitReference(t) \/ EmitEnd(t) \/ CallSlot(t) \/ SlotReturns(t)
      PROVE  ListInv'
  <2>1. SlotList' = SlotList /\ UNCHANGED <<index, wanted, op>>
    BY <1>3, ListsKept DEF EmitReference, EmitEnd, CallSlot, SlotReturns, SlotList
  <2>2. \A u \in Threads : pc'[u] = "write" <=> pc[u] = "write"
    BY <1>3 DEF EmitReference, EmitEnd, CallSlot, SlotReturns, TypeOK
  <2> QED
    BY <2>1, <2>2 DEF ListInv
<1>b. ASSUME NEW t \in Threads, pc[t] = "write" PROVE \A u \in Threads : pc[u] = "write" => u = t
  BY <1>b DEF LockInv
<1>c. ASSUME NEW t \in Threads, pc[t] = "write", Unlocks(t) PROVE \A u \in Threads : pc'[u] # "write"
  BY <1>c, <1>b DEF Unlocks, TypeOK
<1>d. ASSUME NEW t \in Threads, pc[t] = "write", op[t].kind # "match" PROVE wanted = ToSet(SlotList)
  BY <1>d, <1>b DEF ListInv
<1>4. ASSUME NEW t \in Threads, AddSlot(t) PROVE ListInv'
  <2>1. PICK s \in Slots : op[t].slots = {s}
    BY <1>4 DEF AddSlot, OpInv
  <2>2. /\ index' = [index EXCEPT ![s] = Len(SlotList) + 1] /\ Writes(Append(SlotList, s))
        /\ wanted' = wanted \cup {s} /\ pc[t] = "write" /\ op[t].kind = "add" /\ Unlocks(t)
        /\ current' = current
    BY <1>4, <2>1 DEF AddSlot
  <2>3. SlotList' = Append(SlotList, s)
    BY <2>2, WriteFacts DEF SlotList
  <2>4. s \notin ToSet(SlotList)
    BY <2>1, <2>2 DEF OpInv, ListInv
  <2>5. /\ DOMAIN SlotList' = 1..(Len(SlotList) + 1) /\ SlotList'[Len(SlotList) + 1] = s
        /\ \A i \in DOMAIN SlotList : SlotList'[i] = SlotList[i]
    BY <2>3, <1>a
  <2>6. \A i \in DOMAIN SlotList' : index'[SlotList'[i]] = i
    BY <2>2, <2>4, <2>5, <1>a DEF ToSet
  <2>7. ToSet(SlotList') = ToSet(SlotList) \cup {s}
    BY <2>5, <1>a DEF ToSet
  <2> QED
    BY <2>2, <2>6, <2>7, <1>c, <1>d DEF ListInv
<1>5. ASSUME NEW t \in Threads, CleanSlot(t) PROVE ListInv'
  <2>1. PICK s \in Slots : op[t].slots = {s}
    BY <1>5 DEF CleanSlot, OpInv
  <2>2. /\ wanted' = wanted \ {s} /\ pc[t] = "write" /\ op[t].kind = "clean" /\ Unlocks(t)
        /\ current' = current
    BY <1>5, <2>1 DEF CleanSlot
  <2>3. CASE index[s] <= Len(SlotList) /\ SlotList[index[s]] = s
    <3> PICK k \in DOMAIN SlotList : k = index[s]
      BY <2>3, <1>a
    <3>1. index' = [index EXCEPT ![Last(SlotList)] = k] /\ Writes(WithoutAt(SlotList, k))
      BY <1>5, <2>1, <2>3 DEF CleanSlot
    <3>2. SlotList' = WithoutAt(SlotList, k)
      BY <2>2, <3>1, <1>a, WriteFacts DEF SlotList
    <3>3. /\ \A i \in DOMAIN SlotList' : index'[SlotList'[i]] = i
          /\ ToSet(SlotList') = ToSet(SlotList) \ {s}
      <4>1. SlotList[k] = s
        BY <2>3
      <4>2. /\ \A i \in DOMAIN WithoutAt(SlotList, k) :
                 [index EXCEPT ![Last(SlotList)] = k][WithoutAt(SlotList, k)[i]] = i
            /\ ToSet(WithoutAt(SlotList, k)) = ToSet(SlotList) \ {SlotList[k]}
        BY <1>a, SwapAndPop
      <4> QED
        BY <3>1, <3>2, <4>1, <4>2
    <3> QED
      BY <2>2, <3>3, <1>c, <1>d DEF ListInv
  <2>4. CASE ~(index[s] <= Len(SlotList) /\ SlotList[index[s]] = s)
    <3>1. UNCHANGED <<SlotList, index>>
      BY <1>5, <2>1, <2>4 DEF CleanSlot, SlotList
    <3>2. s \notin ToSet(SlotList)
      BY <2>4, <1>a DEF ToSet
    <3> QED
      BY <2>2, <3>1, <3>2, <1>c, <1>d DEF ListInv
  <2> QED
    BY <2>3, <2>4
<1>6. ASSUME NEW t \in Threads, MatchSlot(t) PROVE ListInv'
  <2> DEFINE i == op[t].at
  <2>1. /\ pc[t] = "write" /\ op[t].kind = "match" /\ i \in DOMAIN SlotList
        /\ UNCHANGED <<pc, wanted, current>> /\ op[t] \in Change
    BY <1>6, <1>a DEF MatchSlot, TypeOK, Change
  <2>2. CASE SlotList[i] \in op[t].slots
    <3>1. /\ index' = [index EXCEPT ![Last(SlotList)] = i] /\ Writes(WithoutAt(SlotList, i))
          /\ UNCHANGED op
      BY <1>6, <2>2 DEF MatchSlot
    <3>2. SlotList' = WithoutAt(SlotList, i)
      BY <2>1, <3>1, WriteFacts DEF SlotList
    <3>3. /\ \A k \in DOMAIN SlotList' : index'[SlotList'[k]] = k
          /\ ToSet(SlotList') = ToSet(SlotList) \ {SlotList[i]}
          /\ \A k \in DOMAIN SlotList' : k < i => SlotList'[k] = SlotList[k]
      BY <2>1, <3>1, <3>2, <1>a, SwapAndPop
    <3>4. DOMAIN SlotList' \subseteq DOMAIN SlotList
      BY <2>1, <3>2, <1>a, WithoutAtFacts
    <3> QED
      BY <2>1, <2>2, <3>1, <3>3, <3>4, <1>b DEF ListInv
  <2>3. CASE SlotList[i] \notin op[t].slots
    <3>1. UNCHANGED <<SlotList, index>> /\ op' = [op EXCEPT ![t] = [op[t] EXCEPT !.at = op[t].at + 1]]
      BY <1>6, <2>3 DEF MatchSlot, SlotList, TypeOK
    <3>2. /\ \A u \in Threads : op'[u].kind = op[u].kind /\ op'[u].slots = op[u].slots
          /\ op'[t].at = i + 1
      <4>1. op \in [Threads -> Change] /\ op'[t] = [op[t] EXCEPT !.at = op[t].at + 1]
        BY <3>1 DEF TypeOK
      <4>2. /\ [op[t] EXCEPT !.at = op[t].at + 1].kind = op[t].kind
            /\ [op[t] EXCEPT !.at = op[t].at + 1].slots = op[t].slots
            /\ [op[t] EXCEPT !.at = op[t].at + 1].at = op[t].at + 1
        BY <2>1 DEF Change
      <4> QED
        BY <3>1, <4>1, <4>2
    <3> QED
      BY <2>1, <2>3, <3>1, <3>2, <1>a, <1>b DEF ListInv
  <2> QED
    BY <2>2, <2>3
<1>7. ASSUME NEW t \in Threads, MatchEnd(t) PROVE ListInv'
  <2>1. /\ pc[t] = "write" /\ op[t].kind = "match" /\ op[t].at > Len(SlotList) /\ op[t].at \in Nat
        /\ wanted' = wanted \ op[t].slots /\ Unlocks(t) /\ UNCHANGED <<SlotList, index>>
    BY <1>7 DEF MatchEnd, SlotList, TypeOK, Change
  <2>2. \A i \in DOMAIN SlotList : SlotList[i] \notin op[t].slots
    BY <2>1, <1>a DEF ListInv
  <2>3. wanted \ ToSet(SlotList) \subseteq op[t].slots
    BY <2>1, <1>b DEF ListInv
  <2>4. ToSet(SlotList) = wanted'
    BY <2>1, <2>2, <2>3 DEF ToSet, ListInv
  <2> QED
    BY <2>1, <2>4, <1>c DEF ListInv
<1>8. ASSUME NEW t \in Threads, ClearSlots(t) PROVE ListInv'
  <2>1. SlotList' = <<>> /\ wanted' = {} /\ pc[t] = "write" /\ Unlocks(t)
    BY <1>8, WriteFacts DEF ClearSlots, SlotList
  <2> QED
    BY <2>1, <1>c DEF ListInv, ToSet
<1> QED
  BY <1>1, <1>2, <1>3, <1>4, <1>5, <1>6, <1>7, <1>8 DEF Next, SignalRuns

-----------------------------------------------------------------------------
(* An emission replays its list: it begins, calls, skips and goes on.       *)
LEMMA ReplayBegins ==
  ASSUME NEW f \in Frame, f.at = 1, f.step = "next", f.called = <<>>, f.stable \subseteq ToSet(f.first)
  PROVE  Replay(f)
<1>1. DOMAIN f.first \subseteq Nat \ {0} /\ DOMAIN f.called = {} /\ ToSet(f.called) = {}
  BY DEF Frame, ToSet
<1> QED
  BY <1>1 DEF Replay, Passed, CallsInOrder

LEMMA ReplayShrinks ==
  ASSUME NEW f \in Frame, Replay(f), NEW g \in Frame, g.first = f.first, g.at = f.at, g.step = f.step,
         g.called = f.called, g.stable \subseteq f.stable
  PROVE  Replay(g)
BY DEF Replay, Passed, CallsInOrder

LEMMA ReplayCall ==
  ASSUME NEW f \in Frame, Replay(f), f.step = "next", f.at \in DOMAIN f.first,
         NEW g \in Frame, g.first = f.first, g.at = f.at, g.step = "called",
         g.called = Append(f.called, f.first[f.at]), g.stable = f.stable
  PROVE  Replay(g)
<1> PICK n \in Nat : n = Len(f.called)
  BY DEF Frame
<1>1. /\ f.called \in Seq(Slots) /\ f.first \in Seq(Slots) /\ f.at \in Nat
      /\ DOMAIN f.first = 1..Len(f.first) /\ Len(f.first) \in Nat /\ DOMAIN f.called = 1..n
  BY DEF Frame
<1>2. /\ DOMAIN g.called = 1..(n + 1) /\ g.called[n + 1] = f.first[f.at]
      /\ \A i \in 1..n : g.called[i] = f.called[i]
  BY <1>1
<1>3. \A m \in DOMAIN f.first : Passed(g, m) <=> Passed(f, m) \/ m = f.at
  BY DEF Passed
<1>4. \A i \in 1..n : \E m \in DOMAIN f.first : m < f.at /\ f.first[m] = f.called[i]
  BY <1>1 DEF Replay, Passed
<1>5. \A i \in DOMAIN g.called : \E m \in DOMAIN g.first : Passed(g, m) /\ g.first[m] = g.called[i]
  BY <1>1, <1>2, <1>3, <1>4 DEF Passed
<1>6. ToSet(g.called) = ToSet(f.called) \cup {f.first[f.at]}
  BY <1>1, <1>2 DEF ToSet
<1>7. CallsInOrder(g)
  <2>1. ToSet(g.called) \subseteq ToSet(g.first)
    BY <1>1, <1>5 DEF ToSet
  <2>2. ASSUME NEW i \in DOMAIN g.called, NEW j \in DOMAIN g.called, i < j
        PROVE  \E m, k \in DOMAIN g.first : m < k /\ g.first[m] = g.called[i] /\ g.first[k] = g.called[j]
    <3>1. i \in 1..n
      BY <1>2, <2>2
    <3>2. CASE j \in 1..n
      <4>1. /\ i \in DOMAIN f.called /\ j \in DOMAIN f.called
            /\ g.called[i] = f.called[i] /\ g.called[j] = f.called[j]
        BY <1>1, <1>2, <3>1, <3>2
      <4>2. \E m, k \in DOMAIN f.first : m < k /\ f.first[m] = f.called[i] /\ f.first[k] = f.called[j]
        BY <2>2, <4>1 DEF Replay, CallsInOrder
      <4> QED
        BY <4>1, <4>2
    <3>3. CASE j = n + 1
      BY <1>2, <1>4, <3>1, <3>3
    <3> QED
      BY <1>2, <3>2, <3>3
  <2> QED
    BY <2>1, <2>2 DEF CallsInOrder
<1>8. \A m \in DOMAIN g.first : Passed(g, m) /\ g.first[m] \in g.stable => g.first[m] \in ToSet(g.called)
  BY <1>3, <1>6 DEF Replay
<1> QED
  BY <1>1, <1>5, <1>7, <1>8 DEF Replay

(* A slot it skips was disconnected; after a handler it is at the next one. *)
LEMMA ReplayGoesOn ==
  ASSUME NEW f \in Frame, Replay(f), NEW g \in Frame, g.first = f.first, g.at = f.at + 1,
         g.step = "next", g.called = f.called, g.stable = f.stable,
         f.step = "called" \/ (f.at \in DOMAIN f.first /\ f.first[f.at] \notin f.stable)
  PROVE  Replay(g)
<1>1. f.at \in Nat /\ DOMAIN f.first \subseteq Nat /\ f.step \in {"next", "called"}
  BY DEF Frame
<1>2. \A m \in DOMAIN f.first : Passed(g, m) <=> m < f.at \/ m = f.at
  BY <1>1 DEF Passed
<1> QED
  BY <1>1, <1>2 DEF Replay, Passed, CallsInOrder

-----------------------------------------------------------------------------
(* What an emission owes, and what it called, survives every step.          *)
LEMMA FramesFrom ==
  ASSUME \A t \in Threads : \A i \in DOMAIN stack'[t] :
           /\ heap'[stack'[t][i].payload].slots = stack'[t][i].first
           /\ Replay(stack'[t][i])
           /\ \A s \in stack'[t][i].stable : connected'[s]
  PROVE  FramesInv'
BY DEF FramesInv, FrameOK

LEMMA UnstableFrame ==
  ASSUME TypeOK, FramesInv, NEW S, stack' = Unstable(S), UNCHANGED heap,
         \A s \in Slots \ S : connected[s] => connected'[s]
  PROVE  FramesInv'
<1> SUFFICES ASSUME NEW t \in Threads, NEW i \in DOMAIN stack'[t]
             PROVE  /\ heap'[stack'[t][i].payload].slots = stack'[t][i].first
                    /\ Replay(stack'[t][i])
                    /\ \A s \in stack'[t][i].stable : connected'[s]
  BY FramesFrom
<1>1. i \in DOMAIN stack[t] /\ stack'[t] = [k \in DOMAIN stack[t] |-> [stack[t][k] EXCEPT !.stable = @ \ S]]
  BY UnstableFrames DEF SameFrames, Unstable
<1>2. stack[t][i] \in Frame /\ FrameOK(stack[t][i])
  BY <1>1 DEF TypeOK, FramesInv
<1> PICK f \in Frame : f = stack[t][i]
  BY <1>2
<1> DEFINE g == [f EXCEPT !.stable = f.stable \ S]
<1>3. stack'[t][i] = g
  BY <1>1
<1>4. /\ g \in Frame /\ g.payload = f.payload /\ g.first = f.first /\ g.at = f.at /\ g.step = f.step
      /\ g.called = f.called /\ g.stable = f.stable \ S /\ f.stable \subseteq Slots
  BY DEF Frame
<1>5. heap[f.payload].slots = f.first /\ Replay(f) /\ \A s \in f.stable : connected[s]
  BY <1>2 DEF FrameOK
<1> HIDE DEF g
<1>6. Replay(g)
  BY <1>4, <1>5, ReplayShrinks
<1> QED
  BY <1>3, <1>4, <1>5, <1>6

LEMMA FrameStep == TypeOK /\ LockInv /\ HeapInv /\ FramesInv /\ Next => FramesInv'
<1> SUFFICES ASSUME TypeOK, LockInv, HeapInv, FramesInv, Next PROVE FramesInv'
  OBVIOUS
<1> USE DEF list, counters
<1>a. ASSUME NEW t \in Threads, NEW i \in DOMAIN stack[t]
      PROVE  /\ stack[t][i] \in Frame /\ heap[stack[t][i].payload].slots = stack[t][i].first
             /\ Replay(stack[t][i]) /\ \A s \in stack[t][i].stable : connected[s]
  BY DEF TypeOK, FramesInv, FrameOK
<1>1. ASSUME NEW t \in Threads, NEW s \in Slots, Connect(t, s) PROVE FramesInv'
  <2>1. UNCHANGED <<heap, stack>> /\ \A r \in Slots : connected[r] => connected'[r]
    BY <1>1 DEF Connect, TypeOK
  <2>2. \A u \in Threads : \A i \in DOMAIN stack[u] : stack[u][i].stable \subseteq Slots
    BY <1>a DEF Frame
  <2> QED
    BY <2>1, <2>2, <1>a, FramesFrom
<1>2. ASSUME NEW t \in Threads, NEW s \in Slots, Disconnect(t, s) PROVE FramesInv'
  BY <1>2, UnstableFrame DEF Disconnect, TypeOK
<1>3. ASSUME NEW t \in Threads, NEW S, DisconnectIf(t, S) PROVE FramesInv'
  BY <1>3, UnstableFrame DEF DisconnectIf
<1>4. ASSUME NEW t \in Threads, DisconnectAll(t) PROVE FramesInv'
  BY <1>4, UnstableFrame DEF DisconnectAll
<1>5. ASSUME NEW t \in Threads, Emit(t) PROVE FramesInv'
  <2>1. UNCHANGED <<heap, stack, connected>>
    BY <1>5 DEF Emit
  <2> QED
    BY <2>1, <1>a, FramesFrom
<1>6. ASSUME NEW t \in Threads, LockWrite(t) \/ CopyList(t) PROVE FramesInv'
  <2>1. UNCHANGED <<stack, connected>>
    BY <1>6 DEF LockWrite, CopyList
  <2>2. ~EmitEnd(t)
    BY <1>6 DEF LockWrite, CopyList, EmitEnd, InEmission
  <2>3. \A u \in Threads : \A i \in DOMAIN stack[u] :
          heap'[stack[u][i].payload].slots = heap[stack[u][i].payload].slots
    BY <1>6, <2>2, ListsKept
  <2> QED
    BY <2>1, <2>3, <1>a, FramesFrom
<1>7. ASSUME NEW t \in Threads,
             AddSlot(t) \/ CleanSlot(t) \/ MatchSlot(t) \/ MatchEnd(t) \/ ClearSlots(t)
      PROVE  FramesInv'
  <2>1. /\ \A p \in Payloads \ {current} : heap'[p] = heap[p]
        /\ heap[current].count = 1 /\ UNCHANGED <<stack, connected>>
    BY <1>7, ListWrites DEF HeapInv
  <2>2. \A u \in Threads : \A i \in DOMAIN stack[u] : stack[u][i].payload \in Payloads \ {current}
    BY <2>1, HeldCount
  <2> QED
    BY <2>1, <2>2, <1>a, FramesFrom
<1>8. ASSUME NEW t \in Threads, EmitReference(t) PROVE FramesInv'
  <2>1. /\ SlotList' = SlotList /\ current' = current /\ UNCHANGED connected /\ ~EmitEnd(t)
        /\ stack' = [stack EXCEPT ![t] = Append(stack[t], EmissionFrame)]
    BY <1>8, ListsKept DEF EmitReference, EmitEnd, InEmission
  <2>2. \A u \in Threads : \A i \in DOMAIN stack[u] :
          heap'[stack[u][i].payload].slots = heap[stack[u][i].payload].slots
    BY <1>8, <2>1, ListsKept
  <2>3. heap[current] \in Payload /\ current \in Payloads
    BY DEF TypeOK
  <2>4. PICK f \in Frame : f = EmissionFrame
    <3>1. SlotList \in Seq(Slots)
      BY <2>3 DEF SlotList, Payload
    <3>2. EmissionFrame \in Frame
      BY <2>3, <3>1 DEF EmissionFrame, Frame, ToSet
    <3> QED
      BY <3>2
  <2>5. /\ f.at = 1 /\ f.step = "next" /\ f.called = <<>> /\ f.stable \subseteq ToSet(f.first)
        /\ f.payload = current /\ f.first = SlotList /\ \A s \in f.stable : connected[s]
    BY <2>4 DEF EmissionFrame
  <2>6. Replay(f) /\ heap'[f.payload].slots = f.first
    BY <2>1, <2>5, ReplayBegins DEF SlotList
  <2>7. /\ \A u \in Threads \ {t} : stack'[u] = stack[u]
        /\ \A i \in DOMAIN stack'[t] : (i \in DOMAIN stack[t] /\ stack'[t][i] = stack[t][i]) \/ stack'[t][i] = f
    <3>1. stack[t] \in Seq(Frame)
      BY DEF TypeOK
    <3>2. stack'[t] = Append(stack[t], f) /\ \A u \in Threads \ {t} : stack'[u] = stack[u]
      BY <2>1, <2>4 DEF TypeOK
    <3> QED
      BY <3>1, <3>2
  <2> QED
    BY <2>1, <2>2, <2>5, <2>6, <2>7, <1>a, FramesFrom
<1>b. ASSUME NEW t \in Threads, stack[t] # <<>>, NEW f \in Frame, stack' = Replaced(t, f),
             f.payload = Top(t).payload, f.first = Top(t).first, f.stable = Top(t).stable, Replay(f),
             UNCHANGED <<heap, connected>>
      PROVE  FramesInv'
  <2>1. Len(stack[t]) \in DOMAIN stack[t] /\ Top(t) = stack[t][Len(stack[t])]
    BY <1>b, TopFacts
  <2>2. \A u \in Threads : DOMAIN stack'[u] = DOMAIN stack[u]
    BY <1>b, ReplacedFrames DEF SameFrames
  <2>3. \A u \in Threads : \A i \in DOMAIN stack[u] : stack'[u][i] = f \/ stack'[u][i] = stack[u][i]
    BY <1>b, ReplacedFrames
  <2>4. heap[f.payload].slots = f.first /\ \A s \in f.stable : connected[s]
    BY <1>a, <1>b, <2>1
  <2> QED
    BY <1>a, <1>b, <2>2, <2>3, <2>4, FramesFrom
<1>c. ASSUME NEW t \in Threads, stack[t] # <<>>
      PROVE  /\ Replay(Top(t)) /\ Emitted(t) = Top(t).first /\ \A s \in Top(t).stable : connected[s]
  <2>1. Len(stack[t]) \in DOMAIN stack[t] /\ Top(t) = stack[t][Len(stack[t])]
    BY <1>c, TopFacts
  <2> QED
    BY <1>a, <2>1 DEF Emitted
<1>9. ASSUME NEW t \in Threads, CallSlot(t) PROVE FramesInv'
  <2>1. /\ stack[t] # <<>> /\ Top(t) \in Frame /\ Top(t).step = "next"
        /\ Top(t).at \in DOMAIN Emitted(t) /\ UNCHANGED <<heap, connected>>
    BY <1>9, CallFrame DEF CallSlot
  <2> PICK g \in Frame : g = Top(t)
    BY <2>1
  <2> PICK s : s = Emitted(t)[Top(t).at]
    OBVIOUS
  <2>2. PICK f \in Frame :
          /\ stack' = Replaced(t, f)
          /\ f.payload = g.payload /\ f.first = g.first /\ f.stable = g.stable
          /\ connected[s] => f.at = g.at /\ f.step = "called" /\ f.called = Append(g.called, s)
          /\ ~connected[s] => f.at = g.at + 1 /\ f.step = "next" /\ f.called = g.called
    BY <1>9, CallFrame
  <2>3. Replay(g) /\ g.at \in DOMAIN g.first /\ s = g.first[g.at] /\ \A r \in g.stable : connected[r]
    BY <2>1, <1>c
  <2>4. Replay(f)
    <3>1. CASE connected[s]
      BY <2>1, <2>2, <2>3, <3>1, ReplayCall
    <3>2. CASE ~connected[s]
      BY <2>1, <2>2, <2>3, <3>2, ReplayGoesOn
    <3> QED
      BY <3>1, <3>2
  <2> QED
    BY <1>b, <2>1, <2>2, <2>4
<1>10. ASSUME NEW t \in Threads, SlotReturns(t) PROVE FramesInv'
  <2>1. /\ stack[t] # <<>> /\ Top(t) \in Frame /\ Top(t).step = "called" /\ UNCHANGED <<heap, connected>>
    BY <1>10, ReturnFrame DEF SlotReturns
  <2>2. PICK f \in Frame :
          /\ stack' = Replaced(t, f)
          /\ f.payload = Top(t).payload /\ f.first = Top(t).first /\ f.stable = Top(t).stable
          /\ f.at = Top(t).at + 1 /\ f.step = "next" /\ f.called = Top(t).called
    BY <1>10, ReturnFrame
  <2>3. Replay(f)
    BY <2>1, <2>2, <1>c, ReplayGoesOn
  <2> QED
    BY <1>b, <2>1, <2>2, <2>3
<1>11. ASSUME NEW t \in Threads, EmitEnd(t) PROVE FramesInv'
  <2>1. /\ stack[t] # <<>> /\ stack[t] \in Seq(Frame) /\ UNCHANGED connected
        /\ stack' = [stack EXCEPT ![t] = Front(stack[t])]
    BY <1>11 DEF EmitEnd, InEmission, TypeOK
  <2>2. /\ \A u \in Threads \ {t} : stack'[u] = stack[u]
        /\ \A i \in DOMAIN stack'[t] : /\ i \in DOMAIN stack[t] /\ i # Len(stack[t])
                                      /\ stack'[t][i] = stack[t][i]
    BY <2>1, FrontFacts DEF TypeOK
  <2>3. \A u \in Threads : \A i \in DOMAIN stack[u] : u # t \/ i # Len(stack[t]) =>
          heap'[stack[u][i].payload].slots = heap[stack[u][i].payload].slots
    BY <1>11, ListsKept
  <2> QED
    BY <2>1, <2>2, <2>3, <1>a, FramesFrom
<1> QED
  BY <1>1, <1>2, <1>3, <1>4, <1>5, <1>6, <1>7, <1>8, <1>9, <1>10, <1>11 DEF Next, UserCalls, SignalRuns

-----------------------------------------------------------------------------
(* In the beginning the list holds the slots of AtStart in some order.      *)
LEMMA InitInv == Init => IInv
<1> SUFFICES ASSUME Init PROVE IInv
  OBVIOUS
<1> PICK l \in SetToSeqs(AtStart) :
       /\ heap = [p \in Payloads |-> IF p = 1 THEN [count |-> 1, slots |-> l] ELSE Deleted]
       /\ index = [s \in Slots |-> IF s \in ToSet(l) THEN CHOOSE i \in DOMAIN l : l[i] = s ELSE 1]
       /\ connected = [s \in Slots |-> s \in ToSet(l)]
       /\ born = ToSet(l) /\ wanted = ToSet(l)
  BY DEF Init
<1>1. /\ l \in [1..Cardinality(AtStart) -> AtStart] /\ Cardinality(AtStart) \in Nat
      /\ \A i, j \in DOMAIN l : i # j => l[i] # l[j]
  BY FS_CardinalityType, BoundsAssumption DEF SetToSeqs, IsInjective
<1>2. l \in Seq(Slots) /\ DOMAIN l \subseteq Nat \ {0} /\ ToSet(l) \subseteq Slots
  BY <1>1, BoundsAssumption DEF ToSet
<1>3. SlotList = l /\ current = 1 /\ 1 \in Payloads /\ heap[1].count = 1
  BY PayloadIds DEF Init, SlotList
<1>4. \A i \in DOMAIN l : index[l[i]] = i
  <2> SUFFICES ASSUME NEW i \in DOMAIN l PROVE index[l[i]] = i
    OBVIOUS
  <2>1. index[l[i]] = CHOOSE j \in DOMAIN l : l[j] = l[i]
    BY <1>2 DEF ToSet
  <2>2. \A j \in DOMAIN l : l[j] = l[i] => j = i
    BY <1>1
  <2> QED
    BY <2>1, <2>2
<1>5. index \in [Slots -> Nat \ {0}]
  <2> SUFFICES ASSUME NEW s \in Slots PROVE index[s] \in Nat \ {0}
    OBVIOUS
  <2>1. CASE s \in ToSet(l)
    BY <2>1, <1>2, <1>4 DEF ToSet
  <2>2. CASE s \notin ToSet(l)
    BY <2>2
  <2> QED
    BY <2>1, <2>2
<1>6. TypeOK
  <2>1. heap \in [Payloads -> Payload]
    BY <1>2 DEF Payload, Deleted
  <2>2. /\ pc \in [Threads -> {"user", "lock", "copy", "write", "reference"}]
        /\ op \in [Threads -> Change] /\ stack \in [Threads -> Seq(Frame)]
    BY DEF Init, Nothing, Change
  <2> QED
    BY <1>2, <1>3, <1>5, <2>1, <2>2, BoundsAssumption DEF Init, TypeOK
<1>7. LockInv /\ OpInv
  BY <1>3, BoundsAssumption DEF Init, LockInv, OpInv, Nothing
<1>8. ListInv
  BY <1>3, <1>4 DEF Init, ListInv
<1>9. HeapInv
  <2>1. \A p : Holders(p) = {}
    BY DEF Init, Holders
  <2>2. \A p : Cardinality(Holders(p)) = 0
    BY <2>1, FS_EmptySet
  <2> QED
    BY <1>3, <2>2 DEF Init, HeapInv, CountsAreHolders, Deleted
<1>10. FramesInv
  BY DEF Init, FramesInv
<1> QED
  BY <1>6, <1>7, <1>8, <1>9, <1>10 DEF IInv

(* The conjuncts of the invariant are preserved together.                   *)
LEMMA StepInv == IInv /\ [Next]_vars => IInv'
<1> SUFFICES ASSUME IInv, [Next]_vars PROVE IInv'
  OBVIOUS
<1>1. CASE Next
  BY <1>1, TypeInv, LockStep, OpStep, ListStep, HeapStep, FrameStep DEF IInv
<1>2. CASE UNCHANGED vars
  <2> USE <1>2 DEF vars, counters
  <2>1. TypeOK' /\ LockInv' /\ OpInv'
    BY DEF IInv, TypeOK, LockInv, OpInv
  <2>2. ListInv'
    BY DEF IInv, ListInv, SlotList
  <2>3. HeapInv'
    BY DEF IInv, HeapInv, CountsAreHolders, Holders
  <2>4. FramesInv'
    BY FramesFrom DEF IInv, FramesInv, FrameOK
  <2> QED
    BY <2>1, <2>2, <2>3, <2>4 DEF IInv
<1> QED
  BY <1>1, <1>2

(* The inductive invariant holds in every state.                            *)
THEOREM Invariance == Spec => []IInv
<1> QED
  BY InitInv, StepInv, PTL DEF Spec

(* Every variable has its type.                                             *)
THEOREM TypeCorrect == Spec => []TypeOK
<1>1. IInv => TypeOK
  BY DEF IInv
<1> QED
  BY <1>1, Invariance, PTL

(* The lists that are alive are the signal's own and those that emissions   *)
(* hold, one each.                                                          *)
Alive == {p \in Payloads : heap[p].count # 0}
LEMMA AliveAreHeld ==
  ASSUME IInv
  PROVE  IsFiniteSet(Alive) /\ Cardinality(Alive) <= Cardinality(Threads) * MaxDepth + 1
<1> DEFINE places == Threads \X (1..MaxDepth)
           held == {h \in places : h[2] \in DOMAIN stack[h[1]]}
           f == [h \in held |-> stack[h[1]][h[2]].payload]
           lists == {stack[h[1]][h[2]].payload : h \in held}
<1>1. IsFiniteSet(1..MaxDepth) /\ Cardinality(1..MaxDepth) = MaxDepth
  BY FS_Interval, BoundsAssumption
<1>2. IsFiniteSet(places) /\ Cardinality(places) = Cardinality(Threads) * MaxDepth
  BY <1>1, FS_Product, BoundsAssumption
<1>3. held \in SUBSET places
  OBVIOUS
<1>4. IsFiniteSet(held) /\ Cardinality(held) <= Cardinality(places)
  BY <1>2, <1>3, FS_Subset
<1>5. f \in Surjection(held, lists)
  BY DEF Surjection
<1>6. IsFiniteSet(lists) /\ Cardinality(lists) <= Cardinality(held)
  BY <1>4, <1>5, FS_Surjection
<1>7. Alive \in SUBSET (lists \cup {current})
  <2>1. ASSUME NEW p \in Alive, p # current PROVE p \in lists
    <3>1. heap[p].count = Cardinality(Holders(p)) + 0 /\ heap[p].count # 0
      BY <2>1 DEF IInv, HeapInv, CountsAreHolders, Alive
    <3>2. PICK h \in Holders(p) : TRUE
      BY <3>1, HoldersFinite
    <3> QED
      BY <3>2 DEF Holders
  <2> QED
    BY <2>1
<1> HIDE DEF lists, held, places
<1>8. /\ IsFiniteSet(lists \cup {current})
      /\ Cardinality(lists \cup {current})
           = IF current \in lists THEN Cardinality(lists) ELSE Cardinality(lists) + 1
  BY <1>6, FS_AddElement
<1>9. IsFiniteSet(Alive) /\ Cardinality(Alive) <= Cardinality(lists \cup {current})
  BY <1>7, <1>8, FS_Subset
<1>10. /\ Cardinality(Alive) \in Nat /\ Cardinality(lists) \in Nat /\ Cardinality(held) \in Nat
       /\ Cardinality(places) \in Nat
  BY <1>2, <1>4, <1>6, <1>9, FS_CardinalityType
<1> QED
  BY <1>2, <1>4, <1>6, <1>8, <1>9, <1>10

(* A writer that needs a copy gets one: no more lists are alive than the    *)
(* signal and the emissions under way refer to, so CopyList, which takes    *)
(* the place of an allocation (copy_on_write.hpp:88-99), never waits.       *)
CopyIsMade == \A t \in Threads : pc[t] = "copy" => \E p \in Payloads : heap[p].count = 0
THEOREM CopiesAreMade == Spec => []CopyIsMade
<1>1. ASSUME IInv PROVE CopyIsMade
  <2> DEFINE n == Cardinality(Threads) * MaxDepth
  <2>1. IsFiniteSet(Alive) /\ Cardinality(Alive) <= n + 1
    BY <1>1, AliveAreHeld
  <2>2. n \in Nat
    BY FS_CardinalityType, BoundsAssumption
  <2>3. Payloads = 1..(2 + n)
    BY DEF Payloads
  <2> HIDE DEF n
  <2>4. Cardinality(Payloads) = 2 + n
    BY <2>2, <2>3, FS_Interval
  <2>5. Cardinality(Alive) \in Nat
    BY <2>1, FS_CardinalityType
  <2>6. Alive # Payloads
    BY <2>1, <2>2, <2>4, <2>5
  <2>7. \E p \in Payloads : heap[p].count = 0
    BY <2>6 DEF Alive
  <2> QED
    BY <2>7 DEF CopyIsMade
<1> QED
  BY <1>1, Invariance, PTL

(* A slot list has as many references as it counts, whatever threads and    *)
(* nested emissions hold it: copy_on_write.hpp:43-55, 83-99.                *)
THEOREM Counted == Spec => []CountsAreHolders
<1>1. IInv => CountsAreHolders
  BY DEF IInv, HeapInv
<1> QED
  BY <1>1, Invariance, PTL

(* Outside of the mutex the list is what was connected and not disconnected *)
(* since, and the indices are right: signal.hpp:196-215, 226-284.           *)
THEOREM Exact == Spec => []ListIsExact
<1>1. ASSUME IInv PROVE ListIsExact
  <2> SUFFICES ASSUME mutex = NoThread
               PROVE  ToSet(SlotList) = wanted /\ \A i \in DOMAIN SlotList : index[SlotList[i]] = i
    BY DEF ListIsExact
  <2>1. \A t \in Threads : pc[t] # "write"
    BY <1>1, BoundsAssumption DEF IInv, LockInv
  <2> QED
    BY <1>1, <2>1 DEF IInv, ListInv
<1> QED
  BY <1>1, Invariance, PTL

(* An emission calls what was connected when it began and is not            *)
(* disconnected meanwhile, in order and once: signal.hpp:78-91.             *)
THEOREM Snapshot == Spec => []SnapshotIsCalled
<1>1. ASSUME IInv PROVE SnapshotIsCalled
  <2> SUFFICES ASSUME NEW t \in Threads, NEW i \in DOMAIN stack[t]
               PROVE  CallsInOrder(stack[t][i]) /\ CallsAll(stack[t][i])
    BY DEF SnapshotIsCalled
  <2> PICK f : f = stack[t][i]
    OBVIOUS
  <2>1. f \in Frame /\ heap[f.payload].slots = f.first /\ Replay(f)
    BY <1>1 DEF IInv, TypeOK, FramesInv, FrameOK
  <2>2. CallsAll(f)
    <3> SUFFICES ASSUME f.at > Len(f.first) PROVE f.stable \subseteq ToSet(f.called)
      BY <2>1 DEF CallsAll
    <3>1. f.at \in Nat /\ Len(f.first) \in Nat /\ DOMAIN f.first = 1..Len(f.first)
      BY <2>1 DEF Frame
    <3>2. \A m \in DOMAIN f.first : Passed(f, m)
      BY <3>1 DEF Passed
    <3> QED
      BY <2>1, <3>2 DEF Replay, ToSet
  <2> QED
    BY <2>1, <2>2 DEF Replay
<1> QED
  BY <1>1, Invariance, PTL
=============================================================================
