------------------------------- MODULE Grants -------------------------------
(***************************************************************************)
(* The grants contract (contracts/grants/src/lib.rs). Its payments are     *)
(* transfer_from calls on the token contract, from the admin's balance by  *)
(* the allowance that initialize gave the contract: treasury is what those *)
(* two allow, and others change it (external). A payment that is refused   *)
(* reverts the whole invocation.                                           *)
(*                                                                         *)
(* A milestone is paid by the admin's release or by the applicant's report *)
(* on it, whichever comes first; the admin may set it anew at any time.    *)
(***************************************************************************)
EXTENDS Integers, FiniteSetsExt

CONSTANTS
  Grant,         \* ids of grants
  Milestone,     \* milestone_idx, the same for all grants
  GrantAmount,   \* amounts the admin sets
  MaxTreasury,   \* bound
  MaxSettings    \* bound: set_milestone calls per grant

ASSUME GrantsAssumption ==
  /\ Milestone \subseteq Nat /\ IsFiniteSet(Milestone)  \* milestone_idx is a u32
  /\ GrantAmount \subseteq Nat \ {0}
  /\ {MaxTreasury, MaxSettings} \subseteq Nat

Unset == [amount |-> 0, released |-> FALSE]

VARIABLES
  status,        \* GrantRecord.status, "none" before the application
  milestone,     \* DataKey::GrantMilestone(grant, idx)
  treasury,
  promised,      \* history: amounts the admin has set, per grant
  settings,      \* history: set_milestone calls, per grant
  paid           \* history: what the applicant got

grantVars == <<status, milestone, treasury, promised, settings, paid>>

GrantTypeOK ==
  /\ status \in [Grant -> {"none", "pending", "approved", "rejected", "active", "completed"}]
  /\ milestone \in [Grant -> [Milestone -> [amount : GrantAmount \cup {0}, released : BOOLEAN]]]
  /\ treasury \in 0..MaxTreasury /\ settings \in [Grant -> 0..MaxSettings]
  /\ promised \in [Grant -> Nat] /\ paid \in [Grant -> Nat]

GrantInit ==
  /\ status = [g \in Grant |-> "none"]
  /\ milestone = [g \in Grant |-> [m \in Milestone |-> Unset]]
  /\ treasury = 0
  /\ promised = [g \in Grant |-> 0] /\ settings = [g \in Grant |-> 0] /\ paid = [g \in Grant |-> 0]

----------------------------------------------------------------------------
\* apply_for_grant, approve_grant and reject_grant.
Decide(g, from, to) ==
  /\ status[g] = from /\ status' = [status EXCEPT ![g] = to]
  /\ UNCHANGED <<milestone, treasury, promised, settings, paid>>

ApplyForGrant(g) == Decide(g, "none", "pending")
ApproveGrant(g) == Decide(g, "pending", "approved")
RejectGrant(g) == Decide(g, "pending", "rejected")

\* set_milestone asks neither for the status nor for what was released.
SetMilestone(g, m, amount) ==
  /\ status[g] # "none" /\ settings[g] < MaxSettings
  /\ milestone' = [milestone EXCEPT ![g][m] = [amount |-> amount, released |-> FALSE]]
  /\ promised' = [promised EXCEPT ![g] = @ + amount]
  /\ settings' = [settings EXCEPT ![g] = @ + 1]
  /\ UNCHANGED <<status, treasury, paid>>

\* Faulty variant of Release: the milestone is not noted as released.
ReleaseUnnoted(g, m) == UNCHANGED milestone

Release(g, m) == milestone' = [milestone EXCEPT ![g][m].released = TRUE]

\* What release_milestone_funds and submit_report share. The loop over the
\* milestones ends at the first that is not released, and panics at one that
\* was never set.
Pay(g, m) ==
  LET amount == milestone[g][m].amount
      released == {k \in Milestone : milestone[g][k].released} \cup {m}
      open == Milestone \ released
  IN  /\ amount > 0 /\ ~milestone[g][m].released /\ amount <= treasury
      /\ open # {} => milestone[g][Min(open)].amount > 0
      /\ Release(g, m)
      /\ status' = [status EXCEPT ![g] = IF open = {} THEN "completed" ELSE "active"]
      /\ treasury' = treasury - amount
      /\ paid' = [paid EXCEPT ![g] = @ + amount]
      /\ UNCHANGED <<promised, settings>>

ReleaseMilestoneFunds(g, m) == status[g] = "approved" /\ Pay(g, m)
SubmitReport(g, m) == status[g] \in {"approved", "active"} /\ Pay(g, m)

\* The admin's balance and allowance change.
Refund == treasury' \in 0..MaxTreasury /\ UNCHANGED <<status, milestone, promised, settings, paid>>

GrantNext ==
  \/ \E g \in Grant : ApplyForGrant(g) \/ ApproveGrant(g) \/ RejectGrant(g)
  \/ \E g \in Grant, m \in Milestone :
       \/ ReleaseMilestoneFunds(g, m) \/ SubmitReport(g, m)
       \/ \E n \in GrantAmount : SetMilestone(g, m, n)
  \/ Refund

----------------------------------------------------------------------------
\* What the open milestones of a grant still promise.
Due(g) == [m \in Milestone |-> IF milestone[g][m].released THEN 0 ELSE milestone[g][m].amount]

\* What a grant has been paid and what its open milestones still promise is
\* never more than what the admin has set, however often milestones are set
\* anew, reported on and released; and only a grant that was approved is paid.
GrantsPayWhatWasSet ==
  \A g \in Grant :
    /\ paid[g] + MapThenSumSet(LAMBDA m : Due(g)[m], Milestone) <= promised[g]
    /\ paid[g] > 0 <=> status[g] \in {"active", "completed"}
=============================================================================
