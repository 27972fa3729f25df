--------------------------- MODULE TokenIssuance ---------------------------
(***************************************************************************)
(* What a holder of BST relies on, without the contract's entry points:    *)
(* tokens appear only under the cap, move between two holders without      *)
(* loss, and disappear only into the record of what was burned.            *)
(***************************************************************************)
EXTENDS Integers, FiniteSetsExt

CONSTANTS Holder, Cap

VARIABLES holdings, retired, outstanding

TotalOf(h) == MapThenSumSet(LAMBDA a : h[a], Holder)

Others(S) == \A a \in Holder \ S : holdings'[a] = holdings[a]

Init ==
  /\ holdings = [a \in Holder |-> 0]
  /\ retired = 0
  /\ outstanding = 0

\* New tokens for one holder, within the cap.
Grant(a) ==
  /\ holdings'[a] > holdings[a]
  /\ Others({a})
  /\ outstanding' = TotalOf(holdings')
  /\ outstanding' <= Cap
  /\ retired' = retired

\* Tokens of one holder are taken out of circulation for good.
Retire(a) ==
  /\ holdings'[a] < holdings[a]
  /\ Others({a})
  /\ outstanding' = TotalOf(holdings')
  /\ retired' = retired + (holdings[a] - holdings'[a])

\* Tokens change hands.
Exchange(a, b) ==
  /\ holdings'[a] + holdings'[b] = holdings[a] + holdings[b]
  /\ holdings'[a] >= 0 /\ holdings'[b] >= 0
  /\ Others({a, b})
  /\ UNCHANGED <<retired, outstanding>>

Next ==
  \E a \in Holder :
    \/ Grant(a)
    \/ Retire(a)
    \/ \E b \in Holder \ {a} : Exchange(a, b)

Spec == Init /\ [][Next]_<<holdings, retired, outstanding>>
============================================================================
