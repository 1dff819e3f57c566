-------------------------------- MODULE Signals --------------------------------
(* A thread-safe signal (signals/signal.hpp with std::mutex): threads        *)
(* connect slots, disconnect them and emit; handlers do so as well, in the   *)
(* middle of an emission.  The slot list is copy_on_write: an emission holds *)
(* a reference to the list it began with and iterates it without the lock,   *)
(* a writer copies the list first unless nobody else refers to it.           *)
(* Abstracted: one group of slots (nobody uses another), no blocking of      *)
(* slots or of the signal; the arguments of an emission.                     *)
EXTENDS Naturals, Sequences, SequencesExt, FiniteSets

CONSTANTS
  Threads,
  Slots,             \* slots, each connected at most once
  AtStart,           \* those connected before the threads begin
  Conditions,        \* the sets of slots that match: those of one callable or object
  MaxEmissions,      \* bound: emissions, the nested ones included
  MaxDepth,          \* bound: emissions one thread is in the middle of
  MaxMatches         \* bound: disconnections by condition

NoThread == "none"
ASSUME BoundsAssumption ==
  /\ IsFiniteSet(Threads) /\ IsFiniteSet(AtStart) /\ NoThread \notin Threads
  /\ MaxEmissions \in Nat /\ MaxDepth \in Nat /\ MaxMatches \in Nat
  /\ AtStart \subseteq Slots /\ Conditions \subseteq SUBSET Slots

VARIABLES
  heap, current,     \* the payloads in memory; _slots, the signal's own reference
  index, connected,  \* slot_state::_index (from 1 here) and _is_connected
  mutex,             \* the thread that holds _mutex, or NoThread
  pc, op,            \* where each thread is, and the change it is making
  stack,             \* the emissions each thread is in the middle of
  born,              \* the slots whose connect has begun
  wanted,            \* history: the slots connected and not disconnected since
  emissions, matches \* counters for the bounds

list == <<heap, current, index, mutex>>
counters == <<emissions, matches>>
vars == <<heap, current, index, connected, mutex, pc, op, stack, born, wanted, counters>>

(* The references there can be at once: the signal's, one per emission, and *)
(* the copy a writer makes.  A payload nobody refers to is deleted.         *)
Payloads == 1..(2 + Cardinality(Threads) * MaxDepth)
Deleted == [count |-> 0, slots |-> <<>>]
Fresh == CHOOSE p \in Payloads : heap[p].count = 0
Released(h, p) ==
  [h EXCEPT ![p] = IF h[p].count <= 1 THEN Deleted
                     ELSE [count |-> h[p].count - 1, slots |-> h[p].slots]]

Nothing == [kind |-> "none", slots |-> {}, at |-> 1]
Top(t) == Last(stack[t])

\* Code of the user runs: outside of the signal, or in a handler it called.
UserRuns(t) == pc[t] = "user" /\ (stack[t] # <<>> => Top(t).step = "called")

(* The slots some thread is about to take out of the list.                  *)
Leaving == UNION {op[t].slots : t \in {u \in Threads : op[u].kind \in {"clean", "match", "clear"}}}

(* From here on an emission owes the slots of S no call.                    *)
Unstable(S) ==
  [t \in Threads |-> [i \in DOMAIN stack[t] |-> [stack[t][i] EXCEPT !.stable = @ \ S]]]

Init ==
  /\ \E l \in SetToSeqs(AtStart) :
       /\ heap = [p \in Payloads |-> IF p = 1 THEN [count |-> 1, slots |-> l] ELSE Deleted]
       /\ index = [s \in Slots |-> IF s \in ToSet(l) THEN CHOOSE i \in DOMAIN l : l[i] = s ELSE 1]
       /\ connected = [s \in Slots |-> s \in ToSet(l)]
       /\ born = ToSet(l) /\ wanted = ToSet(l)
  /\ current = 1
  /\ mutex = NoThread
  /\ pc = [t \in Threads |-> "user"] /\ op = [t \in Threads |-> Nothing]
  /\ stack = [t \in Threads |-> <<>>]
  /\ emissions = 0 /\ matches = 0

-----------------------------------------------------------------------------
(* Calls of the user's code.  A change of the list waits for the mutex.     *)
Begins(t, kind, S) ==
  /\ UserRuns(t)
  /\ pc' = [pc EXCEPT ![t] = "lock"]
  /\ op' = [op EXCEPT ![t] = [kind |-> kind, slots |-> S, at |-> 1]]

Connect(t, s) ==
  /\ s \notin born /\ Begins(t, "add", {s})
  /\ born' = born \cup {s}
  /\ connected' = [connected EXCEPT ![s] = TRUE]
  /\ UNCHANGED <<list, stack, wanted, counters>>

(* connection::disconnect: only who takes the flag down cleans up; there is *)
(* a slot as long as some list has it.                                      *)
Disconnect(t, s) ==
  /\ connected[s] /\ \E p \in Payloads : s \in ToSet(heap[p].slots)
  /\ Begins(t, "clean", {s})
  /\ connected' = [connected EXCEPT ![s] = FALSE]
  /\ stack' = Unstable({s})
  /\ UNCHANGED <<list, born, wanted, counters>>

\* disconnect(callable), disconnect(object): disconnect_if with a condition.
DisconnectIf(t, S) ==
  /\ matches < MaxMatches /\ Begins(t, "match", S)
  /\ stack' = Unstable(S)
  /\ matches' = matches + 1
  /\ UNCHANGED <<list, connected, born, wanted, emissions>>

DisconnectAll(t) ==
  /\ matches < MaxMatches /\ Begins(t, "clear", Slots)
  /\ stack' = Unstable(Slots)
  /\ matches' = matches + 1
  /\ UNCHANGED <<list, connected, born, wanted, emissions>>

Emit(t) ==
  /\ UserRuns(t) /\ Len(stack[t]) < MaxDepth /\ emissions < MaxEmissions
  /\ pc' = [pc EXCEPT ![t] = "reference"]
  /\ emissions' = emissions + 1
  /\ UNCHANGED <<list, connected, op, stack, born, wanted, matches>>

-----------------------------------------------------------------------------
(* A change of the list, under the mutex.                                   *)
\* Fault: write() hands out the shared list.
LockWriteShared(t) ==
  /\ pc[t] = "lock" /\ mutex = NoThread
  /\ mutex' = t
  /\ pc' = [pc EXCEPT ![t] = "write"]
  /\ UNCHANGED <<heap, current, index, connected, op, stack, born, wanted, counters>>

\* cow_write(_slots): is the signal the only one to refer to the list?
LockWrite(t) ==
  /\ pc[t] = "lock" /\ mutex = NoThread
  /\ mutex' = t
  /\ pc' = [pc EXCEPT ![t] = IF heap[current].count = 1 THEN "write" ELSE "copy"]
  /\ UNCHANGED <<heap, current, index, connected, op, stack, born, wanted, counters>>

\* If not, it refers to a copy from now on; the old list may be gone by now.
CopyList(t) ==
  /\ pc[t] = "copy" /\ \E p \in Payloads : heap[p].count = 0
  /\ current' = Fresh
  /\ heap' = [Released(heap, current) EXCEPT
                ![Fresh] = [count |-> 1, slots |-> heap[current].slots]]
  /\ pc' = [pc EXCEPT ![t] = "write"]
  /\ UNCHANGED <<index, connected, mutex, op, stack, born, wanted, counters>>

SlotList == heap[current].slots
Writes(l) == heap' = [heap EXCEPT ![current].slots = l]
Unlocks(t) ==
  /\ mutex' = NoThread
  /\ pc' = [pc EXCEPT ![t] = "user"] /\ op' = [op EXCEPT ![t] = Nothing]

\* The slot at position i is swapped with the last one and popped.
WithoutAt(l, i) == Front([l EXCEPT ![i] = Last(l)])

AddSlot(t) ==
  /\ pc[t] = "write" /\ op[t].kind = "add"
  /\ \E s \in op[t].slots :
       /\ index' = [index EXCEPT ![s] = Len(SlotList) + 1]
       /\ Writes(Append(SlotList, s))
  /\ wanted' = wanted \cup op[t].slots
  /\ Unlocks(t)
  /\ UNCHANGED <<current, connected, stack, born, counters>>

\* Fault: the slot that was swapped keeps its old index.
CleanSlotKeepsIndex(t) ==
  /\ pc[t] = "write" /\ op[t].kind = "clean"
  /\ \E s \in op[t].slots :
       IF index[s] <= Len(SlotList) /\ SlotList[index[s]] = s
         THEN Writes(WithoutAt(SlotList, index[s]))
         ELSE UNCHANGED heap
  /\ wanted' = wanted \ op[t].slots
  /\ Unlocks(t)
  /\ UNCHANGED <<current, index, connected, stack, born, counters>>

\* clean(): the slot may have left the list already, its index then is stale.
CleanSlot(t) ==
  /\ pc[t] = "write" /\ op[t].kind = "clean"
  /\ \E s \in op[t].slots :
       IF index[s] <= Len(SlotList) /\ SlotList[index[s]] = s
         THEN /\ index' = [index EXCEPT ![Last(SlotList)] = index[s]]
              /\ Writes(WithoutAt(SlotList, index[s]))
         ELSE UNCHANGED <<heap, index>>
  /\ wanted' = wanted \ op[t].slots
  /\ Unlocks(t)
  /\ UNCHANGED <<current, connected, stack, born, counters>>

(* disconnect_if() looks at the same position again after a removal, and    *)
(* leaves _is_connected alone.                                              *)
MatchSlot(t) ==
  /\ pc[t] = "write" /\ op[t].kind = "match" /\ op[t].at <= Len(SlotList)
  /\ IF SlotList[op[t].at] \in op[t].slots
       THEN /\ index' = [index EXCEPT ![Last(SlotList)] = op[t].at]
            /\ Writes(WithoutAt(SlotList, op[t].at))
            /\ UNCHANGED op
       ELSE /\ op' = [op EXCEPT ![t].at = @ + 1]
            /\ UNCHANGED <<heap, index>>
  /\ UNCHANGED <<current, connected, mutex, pc, stack, born, wanted, counters>>

MatchEnd(t) ==
  /\ pc[t] = "write" /\ op[t].kind = "match" /\ op[t].at > Len(SlotList)
  /\ wanted' = wanted \ op[t].slots
  /\ Unlocks(t)
  /\ UNCHANGED <<heap, current, index, connected, stack, born, counters>>

ClearSlots(t) ==
  /\ pc[t] = "write" /\ op[t].kind = "clear"
  /\ Writes(<<>>)
  /\ wanted' = {}
  /\ Unlocks(t)
  /\ UNCHANGED <<current, index, connected, stack, born, counters>>

-----------------------------------------------------------------------------
(* An emission.  first, called and stable are history: the list it began    *)
(* with, the slots it called, and those nobody disconnected meanwhile.      *)
EmissionFrame ==
  [payload |-> current, at |-> 1, step |-> "next", first |-> SlotList, called |-> <<>>,
   stable |-> {s \in ToSet(SlotList) : connected[s]} \ Leaving]

\* Fault: the reference is taken without counting it.
EmitReferenceUncounted(t) ==
  /\ pc[t] = "reference" /\ mutex = NoThread
  /\ stack' = [stack EXCEPT ![t] = Append(@, EmissionFrame)]
  /\ pc' = [pc EXCEPT ![t] = "user"]
  /\ UNCHANGED <<list, connected, op, born, wanted, counters>>

\* Fault: the mutex is held while the slots are called.
EmitReferenceLocked(t) ==
  /\ pc[t] = "reference" /\ mutex = NoThread
  /\ heap' = [heap EXCEPT ![current].count = @ + 1]
  /\ stack' = [stack EXCEPT ![t] = Append(@, EmissionFrame)]
  /\ mutex' = t
  /\ pc' = [pc EXCEPT ![t] = "user"]
  /\ UNCHANGED <<current, index, connected, op, born, wanted, counters>>

\* _slots_reference(): the copy is taken, and the count raised, under the mutex.
EmitReference(t) ==
  /\ pc[t] = "reference" /\ mutex = NoThread
  /\ heap' = [heap EXCEPT ![current].count = @ + 1]
  /\ stack' = [stack EXCEPT ![t] = Append(@, EmissionFrame)]
  /\ pc' = [pc EXCEPT ![t] = "user"]
  /\ UNCHANGED <<current, index, connected, mutex, op, born, wanted, counters>>

InEmission(t, step) == pc[t] = "user" /\ stack[t] # <<>> /\ Top(t).step = step
Emitted(t) == heap[Top(t).payload].slots
Replaced(t, frame) == [stack EXCEPT ![t][Len(stack[t])] = frame]

CallSlot(t) ==
  /\ InEmission(t, "next") /\ Top(t).at <= Len(Emitted(t))
  /\ LET s == Emitted(t)[Top(t).at] IN
       stack' = Replaced(t, IF connected[s]
                              THEN [Top(t) EXCEPT !.step = "called", !.called = Append(@, s)]
                              ELSE [Top(t) EXCEPT !.at = @ + 1])
  /\ UNCHANGED <<list, connected, pc, op, born, wanted, counters>>

SlotReturns(t) ==
  /\ InEmission(t, "called")
  /\ stack' = Replaced(t, [Top(t) EXCEPT !.step = "next", !.at = @ + 1])
  /\ UNCHANGED <<list, connected, pc, op, born, wanted, counters>>

EmitEnd(t) ==
  /\ InEmission(t, "next") /\ Top(t).at > Len(Emitted(t))
  /\ heap' = Released(heap, Top(t).payload)
  /\ stack' = [stack EXCEPT ![t] = Front(@)]
  /\ UNCHANGED <<current, index, connected, mutex, pc, op, born, wanted, counters>>

-----------------------------------------------------------------------------
UserCalls(t) ==
  \/ \E s \in Slots : Connect(t, s) \/ Disconnect(t, s)
  \/ \E S \in Conditions : DisconnectIf(t, S)
  \/ DisconnectAll(t) \/ Emit(t)

SignalRuns(t) ==
  \/ LockWrite(t) \/ CopyList(t)
  \/ AddSlot(t) \/ CleanSlot(t) \/ MatchSlot(t) \/ MatchEnd(t) \/ ClearSlots(t)
  \/ EmitReference(t) \/ CallSlot(t) \/ SlotReturns(t) \/ EmitEnd(t)

Next == \E t \in Threads : UserCalls(t) \/ SignalRuns(t)

(* Threads go on, and handlers return in the end; nobody has to call.       *)
Fairness == \A t \in Threads : WF_vars(SignalRuns(t))

Spec == Init /\ [][Next]_vars /\ Fairness

-----------------------------------------------------------------------------
(* Every variable has its type.                                             *)
Payload == [count : Nat, slots : Seq(Slots)]
Change == [kind : {"none", "add", "clean", "match", "clear"}, slots : SUBSET Slots, at : Nat \ {0}]
Frame == [payload : Payloads, at : Nat \ {0}, step : {"next", "called"}, first : Seq(Slots),
          called : Seq(Slots), stable : SUBSET Slots]
TypeOK ==
  /\ heap \in [Payloads -> Payload]
  /\ current \in Payloads
  /\ index \in [Slots -> Nat \ {0}] /\ connected \in [Slots -> BOOLEAN]
  /\ mutex \in Threads \cup {NoThread}
  /\ pc \in [Threads -> {"user", "lock", "copy", "write", "reference"}]
  /\ op \in [Threads -> Change]
  /\ stack \in [Threads -> Seq(Frame)]
  /\ born \subseteq Slots /\ wanted \subseteq Slots
  /\ emissions \in 0..MaxEmissions /\ matches \in 0..MaxMatches

(* A list has as many references as it counts: none is deleted under an     *)
(* emission, and none is left behind when the last holder is gone.          *)
Holders(p) == {h \in Threads \X (1..MaxDepth) :
  h[2] \in DOMAIN stack[h[1]] /\ stack[h[1]][h[2]].payload = p}
CountsAreHolders == \A p \in Payloads :
  heap[p].count = Cardinality(Holders(p)) + (IF p = current THEN 1 ELSE 0)

(* While nobody changes the list, it holds every slot that was connected    *)
(* and not disconnected since, once, and every one of them knows where.     *)
ListIsExact == mutex = NoThread =>
  /\ ToSet(SlotList) = wanted
  /\ \A i \in DOMAIN SlotList : index[SlotList[i]] = i

(* An emission calls slots of the list it began with, in its order and none *)
(* twice, and in the end all that nobody disconnected: whatever handlers    *)
(* and other threads connect and disconnect meanwhile.                      *)
CallsInOrder(f) ==
  /\ ToSet(f.called) \subseteq ToSet(f.first)
  /\ \A i, j \in DOMAIN f.called : i < j =>
       \E m, n \in DOMAIN f.first : m < n /\ f.first[m] = f.called[i] /\ f.first[n] = f.called[j]
CallsAll(f) ==
  f.step = "next" /\ f.at > Len(heap[f.payload].slots) => f.stable \subseteq ToSet(f.called)
SnapshotIsCalled == \A t \in Threads : \A i \in DOMAIN stack[t] :
  CallsInOrder(stack[t][i]) /\ CallsAll(stack[t][i])

(* Every call on the signal returns, also one made from a handler: nobody   *)
(* waits for a mutex that a handler's caller holds.  (The bounds let all    *)
(* threads come to rest, so one formula speaks of all calls.)               *)
InCall(t) == pc[t] # "user" \/ stack[t] # <<>>
CallsReturn == (\E t \in Threads : InCall(t)) ~> (\A t \in Threads : ~InCall(t))
=============================================================================
