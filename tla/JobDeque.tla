------------------------------ MODULE JobDeque ------------------------------
(* What a work-stealing deque promises its users, with every operation in   *)
(* one step: values are put at the back, the owner takes the most recently  *)
(* put one, thieves take the oldest one, and at most Capacity are held.     *)
(* WorkStealingDeque implements this with its two atomic indices.           *)
EXTENDS Naturals, Sequences

CONSTANTS
  Capacity,       \* how many values the deque holds
  MaxPush         \* bound: how many values are ever put

VARIABLES
  held,           \* the values in the deque, oldest first
  put,            \* how many values have been put; the n-th value is n
  takes           \* how often each value was handed out

vars == <<held, put, takes>>

Item == 1..MaxPush

Init ==
  /\ held = <<>>
  /\ put = 0
  /\ takes = [i \in Item |-> 0]

Put ==
  /\ put < MaxPush
  /\ Len(held) < Capacity
  /\ put' = put + 1
  /\ held' = Append(held, put + 1)
  /\ UNCHANGED takes

TakeNewest ==
  /\ held # <<>>
  /\ held' = SubSeq(held, 1, Len(held) - 1)
  /\ takes' = [takes EXCEPT ![held[Len(held)]] = @ + 1]
  /\ UNCHANGED put

TakeOldest ==
  /\ held # <<>>
  /\ held' = Tail(held)
  /\ takes' = [takes EXCEPT ![held[1]] = @ + 1]
  /\ UNCHANGED put

Next == Put \/ TakeNewest \/ TakeOldest

Spec == Init /\ [][Next]_vars
=============================================================================
