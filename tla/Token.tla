------------------------------- MODULE Token -------------------------------
(***************************************************************************)
(* The whole BST token contract: the ledger of TokenLedger together with   *)
(* the two generations of vesting schedules (contracts/token/src/lib.rs)   *)
(* and the airdrop campaigns (contracts/token/src/airdrop.rs), which issue *)
(* tokens against the ledger sequence number.                              *)
(***************************************************************************)
EXTENDS TokenLedger

CONSTANTS
  None,          \* an absent storage entry
  Beneficiary,   \* bound: addresses that are ever granted a schedule
  StepCount,     \* bound: the step_count values the admin passes
  MaxLedger,     \* bound: last ledger sequence number
  MaxSchedules,  \* bound: create_vesting_v2 calls per beneficiary
  MaxCampaigns   \* bound: create_airdrop calls

Ledger == 0..MaxLedger
ScheduleId == 0..(MaxSchedules - 1)
CampaignId == 0..(MaxCampaigns - 1)
Linear == 0
Step == 1

VestingSchedule ==
  [total_amount : Nat, start_ledger : Ledger, cliff_ledger : Ledger,
   end_ledger : Ledger, claimed : Nat]

VestingScheduleV2 ==
  [total_amount : Nat, start_ledger : Ledger, cliff_ledger : Ledger,
   end_ledger : Ledger, claimed : Nat,
   vesting_type : {Linear, Step}, step_count : Nat]

AirdropCampaign ==
  [total_amount : Nat, claimed_amount : Nat, expiry_ledger : Ledger]

ASSUME TokenAssumption ==
  /\ None \notin VestingSchedule \cup VestingScheduleV2 \cup AirdropCampaign
  /\ Beneficiary \subseteq Address
  /\ StepCount \subseteq Nat
  /\ MaxLedger \in Nat
  /\ MaxSchedules \in Nat
  /\ MaxCampaigns \in Nat

VARIABLES
  ledger,          \* env.ledger().sequence()
  vesting,         \* DataKey::Vesting(beneficiary)
  vestingV2,       \* DataKey::VestingV2(beneficiary, schedule_id)
  scheduleCount,   \* DataKey::VestingScheduleCount(beneficiary)
  campaign,        \* airdrop DataKey::AirdropCampaign(id)
  campaignCount,   \* airdrop DataKey::AirdropCampaignCount
  airdropClaimed,  \* airdrop DataKey::AirdropClaimed(id, recipient)
  recovered        \* the ("airdrop", "recovered") events: <<id, unclaimed>>

vestingVars == <<vesting, vestingV2, scheduleCount>>
airdropVars == <<campaign, campaignCount, airdropClaimed, recovered>>
vars == <<ledgerVars, ledger, vestingVars, airdropVars>>

TypeOK ==
  /\ LedgerTypeOK
  /\ ledger \in Ledger
  /\ vesting \in [Address -> VestingSchedule \cup {None}]
  /\ vestingV2 \in [Address \X ScheduleId -> VestingScheduleV2 \cup {None}]
  /\ scheduleCount \in [Address -> 0..MaxSchedules]
  /\ campaign \in [CampaignId -> AirdropCampaign \cup {None}]
  /\ campaignCount \in 0..MaxCampaigns
  /\ airdropClaimed \subseteq CampaignId \X Address
  /\ recovered \subseteq CampaignId \X Int

EmptyContract ==
  /\ EmptyLedger
  /\ ledger = 0
  /\ vesting = [a \in Address |-> None]
  /\ vestingV2 = [k \in Address \X ScheduleId |-> None]
  /\ scheduleCount = [a \in Address |-> 0]
  /\ campaign = [c \in CampaignId |-> None]
  /\ campaignCount = 0
  /\ airdropClaimed = {}
  /\ recovered = {}

\* A contract that was deployed and never called.
Init == admin = NoAdmin /\ EmptyContract

\* The contract as its operator hands it over: deployed, then initialised.
DeployedInit == admin \in Address /\ EmptyContract

----------------------------------------------------------------------------
Elapsed(s, now) == now - s.start_ledger
Duration(s) == s.end_ledger - s.start_ledger

\* Faulty variants of Vested: the jump to the total, or the cliff, is missing.
VestedWithoutEnd(s, now, part, whole) ==
  IF now < s.cliff_ledger THEN 0 ELSE (s.total_amount * part) \div whole

VestedWithoutCliff(s, now, part, whole) ==
  IF now >= s.end_ledger THEN s.total_amount ELSE (s.total_amount * part) \div whole

\* Nothing before the cliff, everything from the end on, in between the part
\* of the whole that has passed, rounded down.
Vested(s, now, part, whole) ==
  CASE now < s.cliff_ledger -> 0
    [] now >= s.cliff_ledger /\ now >= s.end_ledger -> s.total_amount
    [] now >= s.cliff_ledger /\ now < s.end_ledger ->
         (s.total_amount * part) \div whole

\* vested_amount.
VestedAmount(s, now) == Vested(s, now, Elapsed(s, now), Duration(s))

\* Faulty variant of StepsCompleted: a rounded-down step_duration may let
\* more steps pass than there are.
StepsUnclamped(s, now) ==
  LET stepDuration == Duration(s) \div s.step_count
  IN  IF stepDuration = 0 THEN 0 ELSE Elapsed(s, now) \div stepDuration

\* steps_completed: step_duration rounds down and may be zero, in which case
\* checked_div gives None and no step counts as completed.
StepsCompleted(s, now) ==
  LET stepDuration == Duration(s) \div s.step_count
      steps == IF stepDuration = 0 THEN 0 ELSE Elapsed(s, now) \div stepDuration
  IN  IF steps < s.step_count THEN steps ELSE s.step_count

\* vested_amount_v2. Step vesting without steps is a cliff for everything.
VestedAmountV2(s, now) ==
  CASE s.vesting_type = Linear -> VestedAmount(s, now)
    [] s.vesting_type = Step /\ s.step_count > 0 ->
         Vested(s, now, StepsCompleted(s, now), s.step_count)
    [] s.vesting_type = Step /\ s.step_count = 0 ->
         IF now < s.cliff_ledger THEN 0 ELSE s.total_amount

\* checked_mul: the products of vested_amount and vested_amount_v2 fit i128.
ProductFits(s, now, part) ==
  s.cliff_ledger <= now /\ now < s.end_ledger => s.total_amount * part <= I128Max

ProductFitsV2(s, now) ==
  CASE s.vesting_type = Linear -> ProductFits(s, now, Elapsed(s, now))
    [] s.vesting_type = Step /\ s.step_count > 0 ->
         ProductFits(s, now, StepsCompleted(s, now))
    [] s.vesting_type = Step /\ s.step_count = 0 -> TRUE

\* The assertions create_vesting and create_vesting_v2 make of a grant.
GrantAllowed(total, cliff, end) ==
  /\ admin # NoAdmin
  /\ total > 0
  /\ cliff >= ledger
  /\ end > cliff

----------------------------------------------------------------------------
\* create_vesting keeps one schedule per beneficiary and replaces it.
CreateVesting(b, total, cliff, end) ==
  /\ GrantAllowed(total, cliff, end)
  /\ vesting' = [vesting EXCEPT ![b] =
                   [total_amount |-> total, start_ledger |-> ledger,
                    cliff_ledger |-> cliff, end_ledger |-> end, claimed |-> 0]]
  /\ UNCHANGED <<ledgerVars, ledger, vestingV2, scheduleCount, airdropVars>>

ClaimVesting(b) ==
  /\ vesting[b] # None
  /\ ProductFits(vesting[b], ledger, Elapsed(vesting[b], ledger))
  /\ LET claimable == VestedAmount(vesting[b], ledger) - vesting[b].claimed
     IN  /\ claimable > 0
         /\ vesting' = [vesting EXCEPT ![b].claimed = @ + claimable]
         /\ Issue(b, claimable)
  /\ UNCHANGED <<admin, allowance, burnStats, locked,
                 ledger, vestingV2, scheduleCount, airdropVars>>

\* Faulty variant of CreateVestingV2: the schedule counter stays behind.
CreateVestingV2Uncounted(b, total, cliff, end, type, steps) ==
  /\ GrantAllowed(total, cliff, end)
  /\ scheduleCount[b] < MaxSchedules
  /\ vestingV2' = [vestingV2 EXCEPT ![<<b, scheduleCount[b]>>] =
                     [total_amount |-> total, start_ledger |-> ledger,
                      cliff_ledger |-> cliff, end_ledger |-> end, claimed |-> 0,
                      vesting_type |-> type, step_count |-> steps]]
  /\ UNCHANGED <<ledgerVars, ledger, vesting, scheduleCount, airdropVars>>

CreateVestingV2(b, total, cliff, end, type, steps) ==
  /\ GrantAllowed(total, cliff, end)
  /\ scheduleCount[b] < MaxSchedules
  /\ vestingV2' = [vestingV2 EXCEPT ![<<b, scheduleCount[b]>>] =
                     [total_amount |-> total, start_ledger |-> ledger,
                      cliff_ledger |-> cliff, end_ledger |-> end, claimed |-> 0,
                      vesting_type |-> type, step_count |-> steps]]
  /\ scheduleCount' = [scheduleCount EXCEPT ![b] = @ + 1]
  /\ UNCHANGED <<ledgerVars, ledger, vesting, airdropVars>>

ClaimVestingV2(b, id) ==
  LET key == <<b, id>>
      claimable == VestedAmountV2(vestingV2[key], ledger) - vestingV2[key].claimed
  IN  /\ vestingV2[key] # None
      /\ ProductFitsV2(vestingV2[key], ledger)
      /\ claimable > 0
      /\ vestingV2' = [vestingV2 EXCEPT ![key].claimed = @ + claimable]
      /\ Issue(b, claimable)
      /\ UNCHANGED <<admin, allowance, burnStats, locked,
                     ledger, vesting, scheduleCount, airdropVars>>

\* The new end may lie in the past, or so far ahead that more is already
\* claimed than is vested now.
ModifyVestingV2(b, id, newEnd) ==
  /\ admin # NoAdmin
  /\ vestingV2[<<b, id>>] # None
  /\ newEnd > vestingV2[<<b, id>>].cliff_ledger
  /\ vestingV2' = [vestingV2 EXCEPT ![<<b, id>>].end_ledger = newEnd]
  /\ UNCHANGED <<ledgerVars, ledger, vesting, scheduleCount, airdropVars>>

----------------------------------------------------------------------------
\* create_airdrop takes whoever authorises the call for an admin.
CreateAirdrop(total, expiry) ==
  /\ total > 0
  /\ expiry > ledger
  /\ campaignCount < MaxCampaigns
  /\ campaign' = [campaign EXCEPT ![campaignCount] =
                    [total_amount |-> total, claimed_amount |-> 0,
                     expiry_ledger |-> expiry]]
  /\ campaignCount' = campaignCount + 1
  /\ UNCHANGED <<ledgerVars, ledger, vestingVars, airdropClaimed, recovered>>

\* Faulty variant of CampaignCovers: what was claimed before is forgotten.
CampaignCoversOne(id, amount) == amount <= campaign[id].total_amount

CampaignCovers(id, amount) ==
  campaign[id].claimed_amount + amount <= campaign[id].total_amount

\* The Merkle root is abstracted away: any (recipient, amount) may be a leaf of
\* the campaign's tree, so that the proof check restricts no claim here.
ClaimAirdrop(id, recipient, amount) ==
  /\ amount > 0
  /\ campaign[id] # None
  /\ ledger <= campaign[id].expiry_ledger
  /\ <<id, recipient>> \notin airdropClaimed
  /\ CampaignCovers(id, amount)
  /\ campaign' = [campaign EXCEPT ![id].claimed_amount = @ + amount]
  /\ airdropClaimed' = airdropClaimed \cup {<<id, recipient>>}
  /\ Issue(recipient, amount)
  /\ UNCHANGED <<admin, allowance, burnStats, locked,
                 ledger, vestingVars, campaignCount, recovered>>

\* Faulty variant of Recoverable: the expiry ledger itself counts as over.
RecoverableAtExpiry(id) == campaign[id] # None /\ ledger >= campaign[id].expiry_ledger

Recoverable(id) == campaign[id] # None /\ ledger > campaign[id].expiry_ledger

\* recover_unclaimed writes no storage: it reports, as often as it is called.
RecoverUnclaimed(id) ==
  /\ Recoverable(id)
  /\ recovered' = recovered \cup
       {<<id, campaign[id].total_amount - campaign[id].claimed_amount>>}
  /\ UNCHANGED <<ledgerVars, ledger, vestingVars,
                 campaign, campaignCount, airdropClaimed>>

\* The network closes a ledger.
CloseLedger ==
  /\ ledger < MaxLedger
  /\ ledger' = ledger + 1
  /\ UNCHANGED <<ledgerVars, vestingVars, airdropVars>>

----------------------------------------------------------------------------
VestingNext ==
  \E b \in Beneficiary :
    \/ ClaimVesting(b)
    \/ \E id \in ScheduleId :
         \/ ClaimVestingV2(b, id)
         \/ \E end \in Ledger : ModifyVestingV2(b, id, end)
    \/ \E total \in Amount, cliff \in Ledger, end \in Ledger :
         \/ CreateVesting(b, total, cliff, end)
         \/ \E type \in {Linear, Step}, steps \in StepCount :
              CreateVestingV2(b, total, cliff, end, type, steps)

AirdropNext ==
  \/ \E total \in Amount, expiry \in Ledger : CreateAirdrop(total, expiry)
  \/ \E id \in CampaignId :
       \/ RecoverUnclaimed(id)
       \/ \E a \in Address, n \in Amount : ClaimAirdrop(id, a, n)

Next ==
  \/ LedgerNext /\ UNCHANGED <<ledger, vestingVars, airdropVars>>
  \/ VestingNext
  \/ AirdropNext
  \/ CloseLedger

Spec == Init /\ [][Next]_vars

DeployedSpec == DeployedInit /\ [][Next]_vars

----------------------------------------------------------------------------
\* Vesting never issues more than a grant promised, in either generation,
\* whatever the admin does to the end of a schedule between two claims.
ClaimedWithinGrant ==
  /\ \A a \in Address :
       vesting[a] # None => vesting[a].claimed <= vesting[a].total_amount
  /\ \A k \in Address \X ScheduleId :
       vestingV2[k] # None => vestingV2[k].claimed <= vestingV2[k].total_amount

\* Nobody is paid from a schedule before its cliff, even when the schedule
\* was modified after it was granted.
NothingBeforeCliff ==
  /\ \A a \in Address :
       vesting[a] # None /\ vesting[a].claimed > 0 => ledger >= vesting[a].cliff_ledger
  /\ \A k \in Address \X ScheduleId :
       vestingV2[k] # None /\ vestingV2[k].claimed > 0
         => ledger >= vestingV2[k].cliff_ledger

\* The id counter and the schedule table of create_vesting_v2 agree: the
\* schedules of a beneficiary are exactly those below its counter, so a new
\* schedule can never replace one that still owes tokens.
CounterMatchesSchedules ==
  \A a \in Address, id \in ScheduleId :
    vestingV2[<<a, id>>] # None <=> id < scheduleCount[a]

\* What a second-generation schedule owes is settled when it is granted: a
\* later call may move its end and add to what is claimed, nothing else.
GrantKept(k) ==
  vestingV2[k] # None =>
    /\ vestingV2'[k] # None
    /\ vestingV2'[k].claimed >= vestingV2[k].claimed
    /\ vestingV2'[k] = [vestingV2[k] EXCEPT !.end_ledger = vestingV2'[k].end_ledger,
                                            !.claimed = vestingV2'[k].claimed]

GrantsAreKept == [][\A k \in Address \X ScheduleId : GrantKept(k)]_vars

\* Waiting never costs a beneficiary anything: as long as the schedule is not
\* modified, what is vested at one ledger is still vested at the next, over
\* the cliff, the rounded steps and the jump to the total at the end.
VestingIsMonotonic ==
  \A k \in Address \X ScheduleId, now \in Ledger :
    vestingV2[k] # None /\ vestingV2[k].start_ledger <= now /\ now < MaxLedger =>
      VestedAmountV2(vestingV2[k], now) <= VestedAmountV2(vestingV2[k], now + 1)

\* A campaign never gives away more than its total, however many recipients
\* claim from it.
AirdropWithinTotal ==
  \A c \in CampaignId :
    campaign[c] # None => campaign[c].claimed_amount <= campaign[c].total_amount

\* The amount recover_unclaimed reports is final: recipients are paid up to
\* and including the expiry ledger, recovery comes strictly after it, so what
\* was reported as unclaimed is never claimed later.
RecoveryIsFinal ==
  \A r \in recovered :
    campaign[r[1]].claimed_amount + r[2] = campaign[r[1]].total_amount
============================================================================
