------------------------------- MODULE Outbox -------------------------------
(***************************************************************************)
(* What the webhook deliveries and the queued mails promise to whoever     *)
(* hands an item over: at-least-once delivery. An item is accepted into a  *)
(* table, tried again and again, and reported done only if the receiver    *)
(* took it, given up only after MaxAttempts tries. Nothing is promised     *)
(* about how often a receiver sees an item, nor that a verdict is final:   *)
(* a copy that is still in flight may put the item back.                   *)
(***************************************************************************)
EXTENDS Naturals

CONSTANTS Item, MaxAttempts

VARIABLES
  status,    \* "none", "pending", "done" or "given_up"
  tries,     \* hand-overs to the receiver, counted up to MaxAttempts
  taken      \* the receiver took the item at least once

vars == <<status, tries, taken>>

Init ==
  /\ status = [i \in Item |-> "none"]
  /\ tries = [i \in Item |-> 0]
  /\ taken = [i \in Item |-> FALSE]

Accept(i) ==
  /\ status[i] = "none"
  /\ status' = [status EXCEPT ![i] = "pending"]
  /\ UNCHANGED <<tries, taken>>

Try(i) ==
  /\ status[i] # "none"
  /\ tries' = [tries EXCEPT ![i] = IF @ < MaxAttempts THEN @ + 1 ELSE @]
  /\ \E took \in BOOLEAN : taken' = [taken EXCEPT ![i] = @ \/ took]
  /\ UNCHANGED status

Record(i, verdict) ==
  /\ status[i] # "none"
  /\ \/ verdict = "pending"
     \/ verdict = "done" /\ taken[i]
     \/ verdict = "given_up" /\ tries[i] = MaxAttempts
  /\ status' = [status EXCEPT ![i] = verdict]
  /\ UNCHANGED <<tries, taken>>

Next ==
  \E i \in Item :
    Accept(i) \/ Try(i) \/ \E v \in {"pending", "done", "given_up"} : Record(i, v)

Spec == Init /\ [][Next]_vars
=============================================================================
