------------------------------ MODULE Services ------------------------------
(***************************************************************************)
(* Services of the backend that share neither a row nor a call in what is  *)
(* modelled of them: a behaviour exercises one, its focus.                 *)
(***************************************************************************)
EXTENDS LedgerCalls, Accounts, Commerce, Community

VARIABLE focus

vars == <<focus, ledgerVars, accountVars, commerceVars, communityVars>>

ServicesTypeOK == LedgerCallTypeOK /\ AccountTypeOK /\ CommerceTypeOK /\ CommunityTypeOK

Init ==
  /\ focus \in {"ledger", "accounts", "coupons", "payouts", "subscriptions", "forum", "assignments"}
  /\ LedgerCallInit /\ AccountInit /\ CommerceInit /\ CommunityInit

Next ==
  /\ UNCHANGED focus
  /\ \/ focus = "ledger" /\ LedgerCallNext /\ UNCHANGED <<accountVars, commerceVars, communityVars>>
     \/ focus = "accounts" /\ AccountNext /\ UNCHANGED <<ledgerVars, commerceVars, communityVars>>
     \/ /\ \/ focus = "coupons" /\ CouponNext
           \/ focus = "payouts" /\ PayoutNext
           \/ focus = "subscriptions" /\ SubscriptionNext
        /\ UNCHANGED <<ledgerVars, accountVars, communityVars>>
     \/ /\ \/ focus = "forum" /\ ForumNext
           \/ focus = "assignments" /\ AssignmentNext
        /\ UNCHANGED <<ledgerVars, accountVars, commerceVars>>

Spec == Init /\ [][Next]_vars
=============================================================================
