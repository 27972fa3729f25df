---------------------------- MODULE TokenProofs ----------------------------
(***************************************************************************)
(* Safety of the BST token contract for every set of addresses, every      *)
(* amount and every number of ledgers, schedules and campaigns.            *)
(*                                                                         *)
(* None of the properties is inductive alone. That a claim stays within    *)
(* the grant needs the vested amount to stay within it, hence schedules    *)
(* whose cliff precedes their end (SchedulesWellFormed); that a recovery   *)
(* is final needs every recovered campaign to have expired and no later    *)
(* campaign to reuse its id (RecoveredExpired, CampaignsBelowCounter).     *)
(***************************************************************************)
EXTENDS TokenRefinement, Sums, TLAPS

Schedule == VestingSchedule \cup VestingScheduleV2

WellFormed(s) ==
  /\ s.start_ledger <= s.cliff_ledger
  /\ s.cliff_ledger < s.end_ledger

SchedulesWellFormed ==
  /\ \A a \in Address : vesting[a] # None => WellFormed(vesting[a])
  /\ \A k \in Address \X ScheduleId :
       vestingV2[k] # None => WellFormed(vestingV2[k])

CampaignsBelowCounter ==
  \A c \in CampaignId : campaign[c] # None => c < campaignCount

RecoveredExpired ==
  \A r \in recovered :
    campaign[r[1]] # None /\ ledger > campaign[r[1]].expiry_ledger

VestingInv ==
  /\ SchedulesWellFormed
  /\ ClaimedWithinGrant
  /\ NothingBeforeCliff
  /\ CounterMatchesSchedules

AirdropInv ==
  /\ CampaignsBelowCounter
  /\ AirdropWithinTotal
  /\ RecoveredExpired
  /\ RecoveryIsFinal

IInv == TypeOK /\ VestingInv /\ AirdropInv

----------------------------------------------------------------------------
(* Arithmetic of the vested share, which SMT does not find unaided.        *)

\* A share of t, rounded down, is at most t.
LEMMA ShareBound ==
  ASSUME NEW t \in Nat, NEW p \in Nat, NEW w \in Nat \ {0}, p <= w
  PROVE  (t * p) \div w \in 0..t
<1> DEFINE q == (t * p) \div w
<1>1. q \in Int /\ q * w <= t * p /\ t * p < q * w + w
  BY SMTT(30)
<1>2. t * p <= t * w
  BY SMTT(30)
<1>3. q >= 0
  <2> SUFFICES ASSUME q <= -1 PROVE FALSE
    BY <1>1
  <2>1. q * w <= (-1) * w
    BY <1>1, SMTT(30)
  <2> QED
    BY <1>1, <2>1, SMTT(30)
<1>4. q <= t
  <2> SUFFICES ASSUME q >= t + 1 PROVE FALSE
    BY <1>1
  <2>1. q * w >= (t + 1) * w
    BY <1>1, SMTT(30)
  <2>2. (t + 1) * w = t * w + w
    BY SMTT(30)
  <2> QED
    BY <1>1, <1>2, <2>1, <2>2, SMTT(30)
<1> QED
  BY <1>1, <1>3, <1>4

\* A larger part of t gives a share at least as large.
LEMMA ShareMonotone ==
  ASSUME NEW t \in Nat, NEW p \in Nat, NEW r \in Nat, NEW w \in Nat \ {0}, p <= r
  PROVE  (t * p) \div w <= (t * r) \div w
<1> DEFINE q == (t * p) \div w
           u == (t * r) \div w
<1>1. q \in Int /\ q * w <= t * p
  BY SMTT(30)
<1>2. u \in Int /\ t * r < u * w + w
  BY SMTT(30)
<1>3. t * p <= t * r
  BY SMTT(30)
<1> SUFFICES ASSUME q >= u + 1 PROVE FALSE
  BY <1>1, <1>2
<1>4. q * w >= (u + 1) * w
  BY <1>1, <1>2, SMTT(30)
<1>5. (u + 1) * w = u * w + w
  BY <1>2, SMTT(30)
<1> QED
  BY <1>1, <1>2, <1>3, <1>4, <1>5, SMTT(30)

\* A quotient of naturals is a natural and grows with its dividend.
LEMMA QuotientMonotone ==
  ASSUME NEW m \in Nat, NEW n \in Nat, NEW w \in Nat \ {0}, m <= n
  PROVE  m \div w \in Nat /\ n \div w \in Nat /\ m \div w <= n \div w
<1>1. 1 * m = m /\ 1 * n = n
  OBVIOUS
<1>2. m \div w <= n \div w
  BY <1>1, ShareMonotone, 1 \in Nat
<1>3. m \div w \in Nat /\ n \div w \in Nat
  BY SMTT(30)
<1> QED
  BY <1>2, <1>3

----------------------------------------------------------------------------
(* What a schedule has vested.                                             *)

LEMMA FieldTypes ==
  ASSUME NEW s \in Schedule
  PROVE  /\ s.total_amount \in Nat
         /\ s.start_ledger \in Nat
         /\ s.cliff_ledger \in Nat
         /\ s.end_ledger \in Nat
         /\ s.claimed \in Nat
BY TokenAssumption DEF Schedule, VestingSchedule, VestingScheduleV2, Ledger

\* vested_amount returns between nothing and everything, and nothing before
\* the cliff.
LEMMA VestedAmountBound ==
  ASSUME NEW s \in Schedule, WellFormed(s), NEW now \in Nat
  PROVE  /\ VestedAmount(s, now) \in 0..s.total_amount
         /\ now < s.cliff_ledger => VestedAmount(s, now) = 0
<1>1. CASE now < s.cliff_ledger
  BY <1>1, FieldTypes DEF VestedAmount, Vested
<1>2. CASE now >= s.cliff_ledger /\ now >= s.end_ledger
  BY <1>2, FieldTypes DEF VestedAmount, Vested
<1>3. CASE now >= s.cliff_ledger /\ now < s.end_ledger
  <2>1. Elapsed(s, now) \in Nat /\ Duration(s) \in Nat \ {0}
        /\ Elapsed(s, now) <= Duration(s)
    BY <1>3, FieldTypes DEF WellFormed, Elapsed, Duration
  <2>2. (s.total_amount * Elapsed(s, now)) \div Duration(s) \in 0..s.total_amount
    BY <2>1, ShareBound, FieldTypes
  <2>3. VestedAmount(s, now) = (s.total_amount * Elapsed(s, now)) \div Duration(s)
    BY <1>3, FieldTypes DEF VestedAmount, Vested
  <2> QED
    BY <1>3, <2>2, <2>3, FieldTypes
<1> QED
  BY <1>1, <1>2, <1>3, FieldTypes

\* Completed steps are counted up to step_count and never uncounted.
LEMMA StepsBound ==
  ASSUME NEW s \in VestingScheduleV2, WellFormed(s), s.step_count > 0,
         NEW now \in Nat, now >= s.start_ledger
  PROVE  /\ StepsCompleted(s, now) \in 0..s.step_count
         /\ StepsCompleted(s, now) <= StepsCompleted(s, now + 1)
         /\ StepsCompleted(s, now + 1) \in 0..s.step_count
<1> DEFINE d == Duration(s) \div s.step_count
<1>1. s.step_count \in Nat \ {0}
  BY DEF VestingScheduleV2
<1>2. Duration(s) \in Nat /\ Elapsed(s, now) \in Nat
      /\ Elapsed(s, now + 1) \in Nat /\ Elapsed(s, now) <= Elapsed(s, now + 1)
  BY FieldTypes DEF Schedule, WellFormed, Duration, Elapsed
<1>3. d \in Nat
  BY <1>1, <1>2, QuotientMonotone
<1>4. CASE d = 0
  BY <1>1, <1>4 DEF StepsCompleted
<1>5. CASE d # 0
  <2>1. /\ Elapsed(s, now) \div d \in Nat
        /\ Elapsed(s, now + 1) \div d \in Nat
        /\ Elapsed(s, now) \div d <= Elapsed(s, now + 1) \div d
    BY <1>2, <1>3, <1>5, QuotientMonotone
  <2> QED
    BY <1>1, <1>5, <2>1 DEF StepsCompleted
<1> QED
  BY <1>4, <1>5

\* The same bounds for vested_amount_v2.
LEMMA VestedAmountV2Bound ==
  ASSUME NEW s \in VestingScheduleV2, WellFormed(s), NEW now \in Nat
  PROVE  /\ VestedAmountV2(s, now) \in 0..s.total_amount
         /\ now < s.cliff_ledger => VestedAmountV2(s, now) = 0
<1> USE FieldTypes DEF Schedule
<1>1. CASE s.vesting_type = Linear
  BY <1>1, VestedAmountBound DEF VestedAmountV2, Linear, Step
<1>2. CASE s.vesting_type = Step /\ s.step_count > 0
  <2>1. VestedAmountV2(s, now) = Vested(s, now, StepsCompleted(s, now), s.step_count)
    BY <1>2 DEF VestedAmountV2, Linear, Step
  <2>2. CASE now < s.cliff_ledger
    BY <2>1, <2>2 DEF Vested
  <2>3. CASE now >= s.cliff_ledger /\ now >= s.end_ledger
    BY <2>1, <2>3 DEF Vested
  <2>4. CASE now >= s.cliff_ledger /\ now < s.end_ledger
    <3>1. now >= s.start_ledger
      BY <2>4 DEF WellFormed
    <3>2. StepsCompleted(s, now) \in 0..s.step_count /\ s.step_count \in Nat \ {0}
      BY <1>2, <3>1, StepsBound DEF VestingScheduleV2
    <3>3. (s.total_amount * StepsCompleted(s, now)) \div s.step_count \in 0..s.total_amount
      BY <3>2, ShareBound
    <3> QED
      BY <2>1, <2>4, <3>3 DEF Vested
  <2> QED
    BY <2>2, <2>3, <2>4
<1>3. CASE s.vesting_type = Step /\ s.step_count = 0
  BY <1>3 DEF VestedAmountV2, Linear, Step
<1> QED
  BY <1>1, <1>2, <1>3 DEF VestingScheduleV2

\* What is vested at one ledger is vested at the next.
LEMMA VestedAmountV2Monotone ==
  ASSUME NEW s \in VestingScheduleV2, WellFormed(s),
         NEW now \in Nat, now >= s.start_ledger
  PROVE  VestedAmountV2(s, now) <= VestedAmountV2(s, now + 1)
<1> USE FieldTypes DEF Schedule
<1>1. /\ VestedAmountV2(s, now) \in 0..s.total_amount
      /\ VestedAmountV2(s, now + 1) \in 0..s.total_amount
      /\ now < s.cliff_ledger => VestedAmountV2(s, now) = 0
  BY VestedAmountV2Bound, now + 1 \in Nat
<1>2. CASE now < s.cliff_ledger
  BY <1>1, <1>2
<1>3. CASE now + 1 >= s.end_ledger /\ now >= s.cliff_ledger
  <2>1. VestedAmountV2(s, now + 1) = s.total_amount
    <3>1. CASE s.vesting_type = Linear
      BY <1>3, <3>1 DEF VestedAmountV2, VestedAmount, Vested, Linear, Step
    <3>2. CASE s.vesting_type = Step /\ s.step_count > 0
      BY <1>3, <3>2 DEF VestedAmountV2, Vested, Linear, Step
    <3>3. CASE s.vesting_type = Step /\ s.step_count = 0
      BY <1>3, <3>3 DEF VestedAmountV2, Linear, Step
    <3> QED
      BY <3>1, <3>2, <3>3 DEF VestingScheduleV2
  <2> QED
    BY <1>1, <2>1
<1>4. CASE now >= s.cliff_ledger /\ now + 1 < s.end_ledger
  <2>1. CASE s.vesting_type = Linear
    <3>1. /\ VestedAmountV2(s, now) = (s.total_amount * Elapsed(s, now)) \div Duration(s)
          /\ VestedAmountV2(s, now + 1)
               = (s.total_amount * Elapsed(s, now + 1)) \div Duration(s)
      BY <1>4, <2>1 DEF VestedAmountV2, VestedAmount, Vested, Linear, Step
    <3>2. /\ Elapsed(s, now) \in Nat /\ Elapsed(s, now + 1) \in Nat
          /\ Elapsed(s, now) <= Elapsed(s, now + 1)
          /\ Duration(s) \in Nat \ {0}
      BY DEF Elapsed, Duration, WellFormed
    <3> QED
      BY <3>1, <3>2, ShareMonotone
  <2>2. CASE s.vesting_type = Step /\ s.step_count > 0
    <3>1. /\ VestedAmountV2(s, now)
               = (s.total_amount * StepsCompleted(s, now)) \div s.step_count
          /\ VestedAmountV2(s, now + 1)
               = (s.total_amount * StepsCompleted(s, now + 1)) \div s.step_count
      BY <1>4, <2>2 DEF VestedAmountV2, Vested, Linear, Step
    <3>2. /\ StepsCompleted(s, now) \in Nat /\ StepsCompleted(s, now + 1) \in Nat
          /\ StepsCompleted(s, now) <= StepsCompleted(s, now + 1)
          /\ s.step_count \in Nat \ {0}
      BY <2>2, StepsBound DEF VestingScheduleV2
    <3> QED
      BY <3>1, <3>2, ShareMonotone
  <2>3. CASE s.vesting_type = Step /\ s.step_count = 0
    BY <1>4, <2>3 DEF VestedAmountV2, Linear, Step
  <2> QED
    BY <2>1, <2>2, <2>3 DEF VestingScheduleV2
<1> QED
  BY <1>2, <1>3, <1>4

----------------------------------------------------------------------------
(* The inductive invariant.                                                *)

\* It holds in a fresh contract, initialised or not.
LEMMA InitialIInv ==
  ASSUME EmptyContract, admin \in Address \cup {NoAdmin}
  PROVE  IInv
<1> USE LedgerAssumption, TokenAssumption DEF EmptyContract, EmptyLedger
<1>1. LedgerTypeOK
  <2>1. [a \in Address |-> [s \in Address |-> 0]] \in [Address -> [Address -> Nat]]
    OBVIOUS
  <2>2. balance \in [Address -> Nat]
    OBVIOUS
  <2>3. 0 \in 0..I128Max
    OBVIOUS
  <2>4. burnStats \in [total_burned : 0..I128Max, burn_count : Nat]
    BY <2>3
  <2>5. allowance \in [Address -> [Address -> Nat]]
    BY <2>1
  <2>6. totalSupply \in Int
    OBVIOUS
  <2>7. locked \in BOOLEAN
    OBVIOUS
  <2> HIDE DEF EmptyContract, EmptyLedger
  <2> QED
    BY <2>2, <2>4, <2>5, <2>6, <2>7 DEF LedgerTypeOK
<1>2. TypeOK
  BY <1>1 DEF TypeOK, Ledger, ScheduleId, CampaignId
<1>3. VestingInv
  BY DEF VestingInv, SchedulesWellFormed, ClaimedWithinGrant, NothingBeforeCliff,
         CounterMatchesSchedules, ScheduleId
<1>4. AirdropInv
  BY DEF AirdropInv, CampaignsBelowCounter, AirdropWithinTotal, RecoveredExpired,
         RecoveryIsFinal
<1> QED
  BY <1>2, <1>3, <1>4 DEF IInv

\* Issuing tokens keeps the ledger well typed.
LEMMA IssueType ==
  ASSUME LedgerTypeOK, NEW to \in Address, NEW n \in Nat, Issue(to, n),
         UNCHANGED <<admin, allowance, burnStats, locked>>
  PROVE  LedgerTypeOK'
BY DEF LedgerTypeOK, Issue

\* The entry points of the ledger keep it well typed.
LEMMA LedgerStep ==
  ASSUME LedgerTypeOK, LedgerNext
  PROVE  LedgerTypeOK'
<1> USE LedgerAssumption DEF LedgerTypeOK
<1>0. \A n \in Amount : n \in Int
  OBVIOUS
<1>1. ASSUME NEW a \in Address, Initialize(a) PROVE LedgerTypeOK'
  BY <1>1 DEF Initialize
<1>2. ASSUME NEW a \in Address, NEW n \in Amount, Mint(a, n) PROVE LedgerTypeOK'
  BY <1>0, <1>2, IssueType DEF Mint
<1>3. ASSUME NEW a \in Address, NEW n \in Amount, Burn(a, n) PROVE LedgerTypeOK'
  BY <1>0, <1>3 DEF Burn, Destroy
<1>4. ASSUME NEW a \in Address, NEW b \in Address, NEW n \in Amount, Transfer(a, b, n)
      PROVE  LedgerTypeOK'
  BY <1>0, <1>4 DEF Transfer, Move
<1>5. ASSUME NEW a \in Address, NEW b \in Address, NEW n \in Amount, MintReward(a, b, n)
      PROVE  LedgerTypeOK'
  BY <1>0, <1>5 DEF MintReward, Issue
<1>6. ASSUME NEW a \in Address, NEW s \in Spender, NEW n \in Amount, Approve(a, s, n)
      PROVE  LedgerTypeOK'
  BY <1>0, <1>6 DEF Approve
<1>7. ASSUME NEW a \in Address, NEW s \in Spender, NEW n \in Amount, BurnFrom(s, a, n)
      PROVE  LedgerTypeOK'
  BY <1>0, <1>7 DEF BurnFrom, UseAllowance, Destroy
<1>8. ASSUME NEW a \in Address, NEW b \in Address, NEW s \in Spender, NEW n \in Amount,
             TransferFrom(s, a, b, n)
      PROVE  LedgerTypeOK'
  BY <1>0, <1>8 DEF TransferFrom, UseAllowance, Move
<1> QED
  BY <1>1, <1>2, <1>3, <1>4, <1>5, <1>6, <1>7, <1>8 DEF LedgerNext

\* What an action leaves alone stays as good as it was.
LEMMA VestingFrame ==
  ASSUME VestingInv, UNCHANGED <<ledger, vestingVars>>
  PROVE  VestingInv'
BY DEF VestingInv, SchedulesWellFormed, ClaimedWithinGrant, NothingBeforeCliff,
       CounterMatchesSchedules, vestingVars

LEMMA AirdropFrame ==
  ASSUME AirdropInv, UNCHANGED <<ledger, airdropVars>>
  PROVE  AirdropInv'
BY DEF AirdropInv, CampaignsBelowCounter, AirdropWithinTotal, RecoveredExpired,
       RecoveryIsFinal, airdropVars

\* Replacing one first-generation schedule by one that is well formed, within
\* its grant and past its cliff if anything is claimed.
LEMMA VestingUpdate ==
  ASSUME IInv, NEW b \in Address, NEW s \in VestingSchedule,
         WellFormed(s), s.claimed <= s.total_amount,
         s.claimed > 0 => ledger >= s.cliff_ledger,
         vesting' = [vesting EXCEPT ![b] = s],
         LedgerTypeOK',
         UNCHANGED <<ledger, vestingV2, scheduleCount, airdropVars>>
  PROVE  IInv'
<1>1. vesting \in [Address -> VestingSchedule \cup {None}]
  BY DEF IInv, TypeOK
<1>2. \A a \in Address : vesting'[a] = IF a = b THEN s ELSE vesting[a]
  BY <1>1
<1>3. TypeOK'
  BY <1>1 DEF IInv, TypeOK, airdropVars
<1>4. VestingInv'
  BY <1>2 DEF IInv, VestingInv, SchedulesWellFormed, ClaimedWithinGrant,
              NothingBeforeCliff, CounterMatchesSchedules
<1>5. AirdropInv'
  BY AirdropFrame DEF IInv
<1> QED
  BY <1>3, <1>4, <1>5 DEF IInv

LEMMA CreateVestingStep ==
  ASSUME IInv, NEW b \in Address, NEW total \in Amount, NEW cliff \in Ledger,
         NEW end \in Ledger, CreateVesting(b, total, cliff, end)
  PROVE  IInv'
<1> DEFINE s == [total_amount |-> total, start_ledger |-> ledger,
                 cliff_ledger |-> cliff, end_ledger |-> end, claimed |-> 0]
<1>1. total \in Nat /\ ledger \in Ledger /\ ledger <= cliff /\ cliff < end
  BY LedgerAssumption, TokenAssumption
     DEF CreateVesting, GrantAllowed, IInv, TypeOK, Ledger
<1>2. s \in VestingSchedule /\ WellFormed(s) /\ s.claimed <= s.total_amount
  BY <1>1 DEF VestingSchedule, WellFormed
<1>3. LedgerTypeOK'
  BY DEF IInv, TypeOK, LedgerTypeOK, CreateVesting, ledgerVars
<1>4. /\ vesting' = [vesting EXCEPT ![b] = s]
      /\ UNCHANGED <<ledger, vestingV2, scheduleCount, airdropVars>>
  BY DEF CreateVesting
<1> HIDE DEF s
<1>5. s.claimed > 0 => ledger >= s.cliff_ledger
  BY DEF s
<1> QED
  BY <1>2, <1>3, <1>4, <1>5, VestingUpdate

LEMMA ClaimVestingStep ==
  ASSUME IInv, NEW b \in Address, ClaimVesting(b)
  PROVE  IInv'
<1> DEFINE old == vesting[b]
           due == VestedAmount(old, ledger) - old.claimed
           s   == [old EXCEPT !.claimed = @ + due]
<1>1. old \in VestingSchedule /\ WellFormed(old) /\ ledger \in Nat
  BY TokenAssumption
     DEF ClaimVesting, IInv, TypeOK, VestingInv, SchedulesWellFormed, Ledger
<1>2. /\ due > 0
      /\ vesting' = [vesting EXCEPT ![b].claimed = @ + due]
      /\ Issue(b, due)
      /\ UNCHANGED <<admin, allowance, burnStats, locked>>
      /\ UNCHANGED <<ledger, vestingV2, scheduleCount, airdropVars>>
  BY DEF ClaimVesting
<1>3. /\ VestedAmount(old, ledger) \in 0..old.total_amount
      /\ ledger < old.cliff_ledger => VestedAmount(old, ledger) = 0
  BY <1>1, VestedAmountBound DEF Schedule
<1>4. /\ old.total_amount \in Nat /\ old.claimed \in Nat
      /\ old.cliff_ledger \in Nat
  BY <1>1, FieldTypes DEF Schedule
<1>5. s \in VestingSchedule /\ s.claimed = VestedAmount(old, ledger)
  BY <1>1, <1>3, <1>4 DEF VestingSchedule
<1>6. WellFormed(s) /\ s.claimed <= s.total_amount
  BY <1>1, <1>3, <1>4, <1>5 DEF VestingSchedule, WellFormed
<1>7. s.claimed > 0 => ledger >= s.cliff_ledger
  BY <1>1, <1>3, <1>4, <1>5 DEF VestingSchedule
<1>8. due \in Nat
  BY <1>2, <1>3, <1>4
<1>9. LedgerTypeOK'
  <2> HIDE DEF due
  <2> QED
    BY <1>2, <1>8, IssueType DEF IInv, TypeOK
<1>10. vesting' = [vesting EXCEPT ![b] = s]
  BY <1>2
<1> HIDE DEF s
<1> QED
  BY <1>2, <1>5, <1>6, <1>7, <1>9, <1>10, VestingUpdate

\* Replacing one second-generation schedule below the new counter.
LEMMA VestingV2Update ==
  ASSUME IInv, NEW b \in Address, NEW id \in ScheduleId, NEW s \in VestingScheduleV2,
         WellFormed(s), s.claimed <= s.total_amount,
         s.claimed > 0 => ledger >= s.cliff_ledger,
         vestingV2' = [vestingV2 EXCEPT ![<<b, id>>] = s],
         scheduleCount' \in [Address -> 0..MaxSchedules],
         \A a \in Address : a # b => scheduleCount'[a] = scheduleCount[a],
         \A i \in ScheduleId :
           i < scheduleCount'[b] <=> (i < scheduleCount[b] \/ i = id),
         LedgerTypeOK',
         UNCHANGED <<ledger, vesting, airdropVars>>
  PROVE  IInv'
<1>1. vestingV2 \in [Address \X ScheduleId -> VestingScheduleV2 \cup {None}]
  BY DEF IInv, TypeOK
<1>2. \A k \in Address \X ScheduleId :
        vestingV2'[k] = IF k = <<b, id>> THEN s ELSE vestingV2[k]
  BY <1>1
<1>3. s # None
  BY TokenAssumption
<1>4. TypeOK'
  BY <1>1 DEF IInv, TypeOK, airdropVars
<1>5. CounterMatchesSchedules'
  <2> SUFFICES ASSUME NEW a \in Address, NEW i \in ScheduleId
               PROVE  vestingV2'[<<a, i>>] # None <=> i < scheduleCount'[a]
    BY DEF CounterMatchesSchedules
  <2>1. vestingV2[<<a, i>>] # None <=> i < scheduleCount[a]
    BY DEF IInv, VestingInv, CounterMatchesSchedules
  <2>2. vestingV2'[<<a, i>>] = IF a = b /\ i = id THEN s ELSE vestingV2[<<a, i>>]
    BY <1>2
  <2> QED
    BY <1>3, <2>1, <2>2
<1>6. SchedulesWellFormed' /\ ClaimedWithinGrant' /\ NothingBeforeCliff'
  BY <1>2 DEF IInv, VestingInv, SchedulesWellFormed, ClaimedWithinGrant,
              NothingBeforeCliff
<1>7. AirdropInv'
  BY AirdropFrame DEF IInv
<1> QED
  BY <1>4, <1>5, <1>6, <1>7 DEF IInv, VestingInv

LEMMA CreateVestingV2Step ==
  ASSUME IInv, NEW b \in Address, NEW total \in Amount, NEW cliff \in Ledger,
         NEW end \in Ledger, NEW type \in {Linear, Step}, NEW steps \in StepCount,
         CreateVestingV2(b, total, cliff, end, type, steps)
  PROVE  IInv'
<1> DEFINE id == scheduleCount[b]
           s == [total_amount |-> total, start_ledger |-> ledger,
                 cliff_ledger |-> cliff, end_ledger |-> end, claimed |-> 0,
                 vesting_type |-> type, step_count |-> steps]
<1>1. /\ total \in Nat /\ ledger \in Ledger /\ ledger <= cliff /\ cliff < end
      /\ steps \in Nat
  BY LedgerAssumption, TokenAssumption
     DEF CreateVestingV2, GrantAllowed, IInv, TypeOK, Ledger
<1>2. s \in VestingScheduleV2 /\ WellFormed(s) /\ s.claimed <= s.total_amount
  BY <1>1 DEF VestingScheduleV2, WellFormed
<1>3. s.claimed > 0 => ledger >= s.cliff_ledger
  OBVIOUS
<1>4. LedgerTypeOK'
  BY DEF IInv, TypeOK, LedgerTypeOK, CreateVestingV2, ledgerVars
<1>5. /\ scheduleCount \in [Address -> 0..MaxSchedules] /\ MaxSchedules \in Nat
      /\ scheduleCount[b] < MaxSchedules
      /\ scheduleCount' = [scheduleCount EXCEPT ![b] = @ + 1]
  BY TokenAssumption DEF IInv, TypeOK, CreateVestingV2
<1>6. id \in ScheduleId
  BY <1>5 DEF ScheduleId
<1>7. /\ scheduleCount' \in [Address -> 0..MaxSchedules]
      /\ \A a \in Address : a # b => scheduleCount'[a] = scheduleCount[a]
      /\ \A i \in ScheduleId : i < scheduleCount'[b] <=> (i < scheduleCount[b] \/ i = id)
  BY <1>5 DEF ScheduleId
<1>8. /\ vestingV2' = [vestingV2 EXCEPT ![<<b, id>>] = s]
      /\ UNCHANGED <<ledger, vesting, airdropVars>>
  BY DEF CreateVestingV2
<1> HIDE DEF s, id
<1> QED
  BY <1>2, <1>3, <1>4, <1>6, <1>7, <1>8, VestingV2Update

\* The counter's side of VestingV2Update for a schedule that already exists.
LEMMA ExistingSchedule ==
  ASSUME IInv, NEW b \in Address, NEW id \in ScheduleId, vestingV2[<<b, id>>] # None,
         UNCHANGED scheduleCount
  PROVE  /\ scheduleCount' \in [Address -> 0..MaxSchedules]
         /\ \A a \in Address : a # b => scheduleCount'[a] = scheduleCount[a]
         /\ \A i \in ScheduleId :
              i < scheduleCount'[b] <=> (i < scheduleCount[b] \/ i = id)
         /\ vestingV2[<<b, id>>] \in VestingScheduleV2
         /\ WellFormed(vestingV2[<<b, id>>])
         /\ vestingV2[<<b, id>>].claimed <= vestingV2[<<b, id>>].total_amount
         /\ vestingV2[<<b, id>>].claimed > 0
              => ledger >= vestingV2[<<b, id>>].cliff_ledger
<1>1. id < scheduleCount[b]
  BY DEF IInv, VestingInv, CounterMatchesSchedules
<1> QED
  BY <1>1 DEF IInv, TypeOK, VestingInv, SchedulesWellFormed, ClaimedWithinGrant,
              NothingBeforeCliff

LEMMA ClaimVestingV2Step ==
  ASSUME IInv, NEW b \in Address, NEW id \in ScheduleId, ClaimVestingV2(b, id)
  PROVE  IInv'
<1> DEFINE old == vestingV2[<<b, id>>]
           due == VestedAmountV2(old, ledger) - old.claimed
           s   == [old EXCEPT !.claimed = @ + due]
<1>1. /\ vestingV2[<<b, id>>] # None
      /\ due > 0
      /\ vestingV2' = [vestingV2 EXCEPT ![<<b, id>>].claimed = @ + due]
      /\ Issue(b, due)
      /\ UNCHANGED <<admin, allowance, burnStats, locked>>
      /\ UNCHANGED scheduleCount
      /\ UNCHANGED <<ledger, vesting, airdropVars>>
  BY DEF ClaimVestingV2
<1>2. /\ scheduleCount' \in [Address -> 0..MaxSchedules]
      /\ \A a \in Address : a # b => scheduleCount'[a] = scheduleCount[a]
      /\ \A i \in ScheduleId :
           i < scheduleCount'[b] <=> (i < scheduleCount[b] \/ i = id)
      /\ old \in VestingScheduleV2
      /\ WellFormed(old)
  BY <1>1, ExistingSchedule
<1>3. ledger \in Nat
  BY TokenAssumption DEF IInv, TypeOK, Ledger
<1>4. /\ VestedAmountV2(old, ledger) \in 0..old.total_amount
      /\ ledger < old.cliff_ledger => VestedAmountV2(old, ledger) = 0
  BY <1>2, <1>3, VestedAmountV2Bound
<1>5. /\ old.total_amount \in Nat /\ old.claimed \in Nat
      /\ old.cliff_ledger \in Nat
  BY <1>2, FieldTypes DEF Schedule
<1>6. s \in VestingScheduleV2 /\ s.claimed = VestedAmountV2(old, ledger)
  BY <1>2, <1>4, <1>5 DEF VestingScheduleV2
<1>7. WellFormed(s) /\ s.claimed <= s.total_amount
  BY <1>2, <1>4, <1>5, <1>6 DEF VestingScheduleV2, WellFormed
<1>8. s.claimed > 0 => ledger >= s.cliff_ledger
  BY <1>2, <1>3, <1>4, <1>5, <1>6 DEF VestingScheduleV2
<1>9. LedgerTypeOK'
  <2>1. due \in Nat
    BY <1>1, <1>4, <1>5
  <2> HIDE DEF due
  <2> QED
    BY <1>1, <2>1, IssueType DEF IInv, TypeOK
<1>10. vestingV2' = [vestingV2 EXCEPT ![<<b, id>>] = s]
  BY <1>1
<1> HIDE DEF s
<1> QED
  BY <1>1, <1>2, <1>6, <1>7, <1>8, <1>9, <1>10, VestingV2Update

LEMMA ModifyVestingV2Step ==
  ASSUME IInv, NEW b \in Address, NEW id \in ScheduleId, NEW newEnd \in Ledger,
         ModifyVestingV2(b, id, newEnd)
  PROVE  IInv'
<1> DEFINE old == vestingV2[<<b, id>>]
           s   == [old EXCEPT !.end_ledger = newEnd]
<1>1. /\ vestingV2[<<b, id>>] # None
      /\ newEnd > old.cliff_ledger
      /\ vestingV2' = [vestingV2 EXCEPT ![<<b, id>>].end_ledger = newEnd]
      /\ UNCHANGED scheduleCount
      /\ UNCHANGED <<ledger, vesting, airdropVars>>
  BY DEF ModifyVestingV2
<1>2. /\ scheduleCount' \in [Address -> 0..MaxSchedules]
      /\ \A a \in Address : a # b => scheduleCount'[a] = scheduleCount[a]
      /\ \A i \in ScheduleId :
           i < scheduleCount'[b] <=> (i < scheduleCount[b] \/ i = id)
      /\ old \in VestingScheduleV2
      /\ WellFormed(old)
      /\ old.claimed <= old.total_amount
      /\ old.claimed > 0 => ledger >= old.cliff_ledger
  BY <1>1, ExistingSchedule
<1>3. newEnd \in Nat /\ old.cliff_ledger \in Nat
  BY <1>2, TokenAssumption, FieldTypes DEF Ledger, Schedule
<1>4. s \in VestingScheduleV2
  BY <1>2 DEF VestingScheduleV2
<1>5. WellFormed(s) /\ s.claimed <= s.total_amount
  BY <1>1, <1>2, <1>3 DEF VestingScheduleV2, WellFormed
<1>6. s.claimed > 0 => ledger >= s.cliff_ledger
  BY <1>2 DEF VestingScheduleV2
<1>7. LedgerTypeOK'
  BY DEF IInv, TypeOK, LedgerTypeOK, ModifyVestingV2, ledgerVars
<1>8. vestingV2' = [vestingV2 EXCEPT ![<<b, id>>] = s]
  BY <1>1
<1> HIDE DEF s
<1> QED
  BY <1>1, <1>2, <1>4, <1>5, <1>6, <1>7, <1>8, VestingV2Update

LEMMA CreateAirdropStep ==
  ASSUME IInv, NEW total \in Amount, NEW expiry \in Ledger, CreateAirdrop(total, expiry)
  PROVE  IInv'
<1> DEFINE c == [total_amount |-> total, claimed_amount |-> 0, expiry_ledger |-> expiry]
<1>1. total \in Nat /\ c \in AirdropCampaign /\ c # None
  BY LedgerAssumption, TokenAssumption DEF CreateAirdrop, AirdropCampaign
<1>2. /\ campaignCount \in 0..MaxCampaigns /\ MaxCampaigns \in Nat
      /\ campaignCount < MaxCampaigns
      /\ campaign \in [CampaignId -> AirdropCampaign \cup {None}]
      /\ campaign' = [campaign EXCEPT ![campaignCount] = c]
      /\ campaignCount' = campaignCount + 1
      /\ UNCHANGED <<ledgerVars, ledger, vestingVars, airdropClaimed, recovered>>
  BY TokenAssumption DEF IInv, TypeOK, CreateAirdrop
<1>3. campaignCount \in CampaignId /\ campaign[campaignCount] = None
  BY <1>2 DEF CampaignId, IInv, AirdropInv, CampaignsBelowCounter
<1> HIDE DEF c
<1>4. \A i \in CampaignId :
        campaign'[i] = IF i = campaignCount THEN c ELSE campaign[i]
  BY <1>2, <1>3
<1>5. TypeOK'
  <2>1. campaign' \in [CampaignId -> AirdropCampaign \cup {None}]
    BY <1>1, <1>2
  <2>2. campaignCount' \in 0..MaxCampaigns
    BY <1>2
  <2>3. LedgerTypeOK'
    BY <1>2 DEF IInv, TypeOK, LedgerTypeOK, ledgerVars
  <2> QED
    BY <1>2, <2>1, <2>2, <2>3 DEF IInv, TypeOK, vestingVars
<1>6. VestingInv'
  BY <1>2, VestingFrame DEF IInv
<1>7. CampaignsBelowCounter'
  BY <1>2, <1>4 DEF IInv, AirdropInv, CampaignsBelowCounter, CampaignId
<1>8. AirdropWithinTotal'
  BY <1>1, <1>4 DEF c, IInv, AirdropInv, AirdropWithinTotal
<1>9. \A r \in recovered : campaign'[r[1]] = campaign[r[1]]
  BY <1>2, <1>3, <1>4 DEF IInv, TypeOK, AirdropInv, RecoveredExpired
<1>10. RecoveredExpired' /\ RecoveryIsFinal'
  BY <1>2, <1>9 DEF IInv, AirdropInv, RecoveredExpired, RecoveryIsFinal
<1> QED
  BY <1>5, <1>6, <1>7, <1>8, <1>10 DEF IInv, AirdropInv

\* A claim touches no campaign that was recovered: that one has expired.
LEMMA ClaimAirdropStep ==
  ASSUME IInv, NEW id \in CampaignId, NEW to \in Address, NEW n \in Amount,
         ClaimAirdrop(id, to, n)
  PROVE  IInv'
<1> DEFINE old == campaign[id]
           c   == [old EXCEPT !.claimed_amount = @ + n]
<1>1. /\ n > 0 /\ old # None
      /\ ledger <= old.expiry_ledger
      /\ old.claimed_amount + n <= old.total_amount
      /\ campaign' = [campaign EXCEPT ![id].claimed_amount = @ + n]
      /\ airdropClaimed' = airdropClaimed \cup {<<id, to>>}
      /\ Issue(to, n)
      /\ UNCHANGED <<admin, allowance, burnStats, locked>>
      /\ UNCHANGED <<ledger, vestingVars, campaignCount, recovered>>
  BY DEF ClaimAirdrop, CampaignCovers
<1>2. n \in Nat
  BY <1>1, LedgerAssumption
<1>3. campaign \in [CampaignId -> AirdropCampaign \cup {None}] /\ old \in AirdropCampaign
  BY <1>1 DEF IInv, TypeOK
<1>4. c \in AirdropCampaign /\ c # None /\ c.claimed_amount <= c.total_amount
  BY <1>1, <1>2, <1>3, TokenAssumption DEF AirdropCampaign
<1>5. campaign' = [campaign EXCEPT ![id] = c]
  BY <1>1
<1> HIDE DEF c
<1>6. \A i \in CampaignId : campaign'[i] = IF i = id THEN c ELSE campaign[i]
  BY <1>3, <1>5
<1>7. LedgerTypeOK'
  BY <1>1, <1>2, IssueType DEF IInv, TypeOK
<1>8. TypeOK'
  <2>1. campaign' \in [CampaignId -> AirdropCampaign \cup {None}]
    BY <1>3, <1>4, <1>5
  <2>2. airdropClaimed' \subseteq CampaignId \X Address
    BY <1>1 DEF IInv, TypeOK
  <2> QED
    BY <1>1, <1>7, <2>1, <2>2 DEF IInv, TypeOK, vestingVars
<1>9. VestingInv'
  BY <1>1, VestingFrame DEF IInv
<1>10. CampaignsBelowCounter'
  BY <1>1, <1>6 DEF IInv, AirdropInv, CampaignsBelowCounter
<1>11. AirdropWithinTotal'
  BY <1>4, <1>6 DEF IInv, AirdropInv, AirdropWithinTotal
<1>12. \A r \in recovered : campaign'[r[1]] = campaign[r[1]]
  <2> SUFFICES ASSUME NEW r \in recovered
               PROVE  campaign'[r[1]] = campaign[r[1]]
    OBVIOUS
  <2>1. r[1] \in CampaignId
    BY DEF IInv, TypeOK
  <2>2. ledger > campaign[r[1]].expiry_ledger
    BY DEF IInv, AirdropInv, RecoveredExpired
  <2>3. ledger \in Nat /\ old.expiry_ledger \in Nat
    BY <1>3, TokenAssumption DEF IInv, TypeOK, Ledger, AirdropCampaign
  <2>4. r[1] # id
    BY <1>1, <2>2, <2>3
  <2> QED
    BY <1>6, <2>1, <2>4
<1>13. RecoveredExpired' /\ RecoveryIsFinal'
  BY <1>1, <1>12 DEF IInv, AirdropInv, RecoveredExpired, RecoveryIsFinal
<1> QED
  BY <1>8, <1>9, <1>10, <1>11, <1>13 DEF IInv, AirdropInv

LEMMA RecoverUnclaimedStep ==
  ASSUME IInv, NEW id \in CampaignId, RecoverUnclaimed(id)
  PROVE  IInv'
<1> DEFINE report == <<id, campaign[id].total_amount - campaign[id].claimed_amount>>
<1>1. /\ campaign[id] # None /\ ledger > campaign[id].expiry_ledger
      /\ recovered' = recovered \cup {report}
      /\ UNCHANGED <<ledgerVars, ledger, vestingVars>>
      /\ UNCHANGED <<campaign, campaignCount, airdropClaimed>>
  BY DEF RecoverUnclaimed, Recoverable
<1>2. campaign[id].total_amount \in Nat /\ campaign[id].claimed_amount \in Nat
  BY <1>1 DEF IInv, TypeOK, AirdropCampaign
<1>3. TypeOK'
  <2>1. LedgerTypeOK'
    BY <1>1 DEF IInv, TypeOK, LedgerTypeOK, ledgerVars
  <2>2. report \in CampaignId \X Int
    BY <1>2
  <2> QED
    BY <1>1, <2>1, <2>2 DEF IInv, TypeOK, vestingVars
<1>4. VestingInv'
  BY <1>1, VestingFrame DEF IInv
<1>5. AirdropInv'
  BY <1>1, <1>2 DEF IInv, AirdropInv, CampaignsBelowCounter, AirdropWithinTotal,
                    RecoveredExpired, RecoveryIsFinal
<1> QED
  BY <1>3, <1>4, <1>5 DEF IInv

LEMMA CloseLedgerStep ==
  ASSUME IInv, CloseLedger
  PROVE  IInv'
<1>1. /\ ledger \in Ledger /\ ledger' \in Ledger /\ ledger' > ledger
      /\ UNCHANGED <<ledgerVars, vestingVars, airdropVars>>
  BY TokenAssumption DEF IInv, TypeOK, CloseLedger, Ledger
<1>2. TypeOK'
  BY <1>1 DEF IInv, TypeOK, LedgerTypeOK, ledgerVars, vestingVars, airdropVars
<1>3. VestingInv'
  <2>1. SchedulesWellFormed' /\ ClaimedWithinGrant' /\ CounterMatchesSchedules'
    BY <1>1 DEF IInv, VestingInv, SchedulesWellFormed, ClaimedWithinGrant,
                CounterMatchesSchedules, vestingVars
  <2>2. NothingBeforeCliff'
    <3>1. ASSUME NEW s \in Schedule, ledger >= s.cliff_ledger
          PROVE  ledger' >= s.cliff_ledger
      BY <1>1, <3>1, FieldTypes, TokenAssumption DEF Ledger
    <3>2. /\ \A a \in Address : vesting[a] # None => vesting[a] \in Schedule
          /\ \A k \in Address \X ScheduleId :
               vestingV2[k] # None => vestingV2[k] \in Schedule
      BY DEF IInv, TypeOK, Schedule
    <3>3. vesting' = vesting /\ vestingV2' = vestingV2
      BY <1>1 DEF vestingVars
    <3> QED
      BY <3>1, <3>2, <3>3 DEF IInv, VestingInv, NothingBeforeCliff
  <2> QED
    BY <2>1, <2>2 DEF VestingInv
<1>4. AirdropInv'
  <2>1. CampaignsBelowCounter' /\ AirdropWithinTotal' /\ RecoveryIsFinal'
    BY <1>1 DEF IInv, AirdropInv, CampaignsBelowCounter, AirdropWithinTotal,
                RecoveryIsFinal, airdropVars
  <2>2. RecoveredExpired'
    <3> SUFFICES ASSUME NEW r \in recovered
                 PROVE  campaign[r[1]] # None /\ ledger' > campaign[r[1]].expiry_ledger
      BY <1>1 DEF RecoveredExpired, airdropVars
    <3>1. campaign[r[1]] # None /\ ledger > campaign[r[1]].expiry_ledger
      BY DEF IInv, AirdropInv, RecoveredExpired
    <3>2. r[1] \in CampaignId
      BY DEF IInv, TypeOK
    <3>3. campaign[r[1]].expiry_ledger \in Nat
      BY <3>1, <3>2, TokenAssumption DEF IInv, TypeOK, AirdropCampaign, Ledger
    <3> QED
      BY <1>1, <3>1, <3>3, TokenAssumption DEF Ledger
  <2> QED
    BY <2>1, <2>2 DEF AirdropInv
<1> QED
  BY <1>2, <1>3, <1>4 DEF IInv

\* Every step of the contract keeps the inductive invariant.
LEMMA IInvStep ==
  ASSUME IInv, [Next]_vars
  PROVE  IInv'
<1>1. CASE LedgerNext /\ UNCHANGED <<ledger, vestingVars, airdropVars>>
  <2>1. LedgerTypeOK'
    BY <1>1, LedgerStep DEF IInv, TypeOK
  <2>2. TypeOK'
    BY <1>1, <2>1 DEF IInv, TypeOK, vestingVars, airdropVars
  <2> QED
    BY <1>1, <2>2, VestingFrame, AirdropFrame DEF IInv
<1>2. CASE VestingNext
  <2> USE TokenAssumption
  <2>1. PICK b \in Beneficiary :
          \/ ClaimVesting(b)
          \/ \E id \in ScheduleId :
               ClaimVestingV2(b, id) \/ \E end \in Ledger : ModifyVestingV2(b, id, end)
          \/ \E total \in Amount, cliff \in Ledger, end \in Ledger :
               \/ CreateVesting(b, total, cliff, end)
               \/ \E type \in {Linear, Step}, steps \in StepCount :
                    CreateVestingV2(b, total, cliff, end, type, steps)
    BY <1>2 DEF VestingNext
  <2>2. b \in Address
    OBVIOUS
  <2> QED
    BY <2>1, <2>2, CreateVestingStep, ClaimVestingStep, CreateVestingV2Step,
       ClaimVestingV2Step, ModifyVestingV2Step
<1>3. CASE AirdropNext
  BY <1>3, CreateAirdropStep, ClaimAirdropStep, RecoverUnclaimedStep DEF AirdropNext
<1>4. CASE CloseLedger
  BY <1>4, CloseLedgerStep
<1>5. CASE UNCHANGED vars
  <2>1. LedgerTypeOK'
    BY <1>5 DEF IInv, TypeOK, LedgerTypeOK, vars, ledgerVars
  <2>2. TypeOK'
    BY <1>5, <2>1 DEF IInv, TypeOK, vars, vestingVars, airdropVars
  <2> QED
    BY <1>5, <2>2, VestingFrame, AirdropFrame DEF IInv, vars
<1> QED
  BY <1>1, <1>2, <1>3, <1>4, <1>5 DEF Next

----------------------------------------------------------------------------
(* The theorems. Spec starts in a contract that was just deployed,         *)
(* DeployedSpec in one that was initialised.                               *)

\* The inductive invariant holds in every reachable state.
THEOREM Correct == Spec => []IInv
<1>1. Init => IInv
  BY InitialIInv DEF Init
<1>2. IInv /\ [Next]_vars => IInv'
  BY IInvStep
<1> QED
  BY <1>1, <1>2, PTL DEF Spec

THEOREM DeployedCorrect == DeployedSpec => []IInv
<1>1. DeployedInit => IInv
  BY InitialIInv DEF DeployedInit
<1>2. IInv /\ [Next]_vars => IInv'
  BY IInvStep
<1> QED
  BY <1>1, <1>2, PTL DEF DeployedSpec

\* The storage of the contract is well typed; in particular no balance, no
\* allowance and no claimed amount is ever negative.
THEOREM TypeCorrect == Spec \/ DeployedSpec => []TypeOK
<1>1. IInv => TypeOK
  BY DEF IInv
<1> QED
  BY <1>1, Correct, DeployedCorrect, PTL

\* claim_vesting and claim_vesting_v2 never mint more than the grant, however
\* modify_vesting_v2 moves the end of a schedule.
THEOREM VestingNeverOverpays == Spec => []ClaimedWithinGrant
<1>1. IInv => ClaimedWithinGrant
  BY DEF IInv, VestingInv
<1> QED
  BY <1>1, Correct, PTL

\* No claim succeeds before the cliff of its schedule.
THEOREM CliffIsRespected == Spec => []NothingBeforeCliff
<1>1. IInv => NothingBeforeCliff
  BY DEF IInv, VestingInv
<1> QED
  BY <1>1, Correct, PTL

\* create_vesting_v2 numbers the schedules of a beneficiary without gaps.
THEOREM SchedulesAreNumbered == Spec => []CounterMatchesSchedules
<1>1. IInv => CounterMatchesSchedules
  BY DEF IInv, VestingInv
<1> QED
  BY <1>1, Correct, PTL

\* Between two ledgers the vested amount of a stored schedule never shrinks,
\* for linear and for step vesting, rounding included.
THEOREM VestingNeverShrinks == Spec => []VestingIsMonotonic
<1>1. IInv => VestingIsMonotonic
  <2> SUFFICES ASSUME IInv, NEW k \in Address \X ScheduleId, NEW now \in Ledger,
                      vestingV2[k] # None, vestingV2[k].start_ledger <= now
               PROVE  VestedAmountV2(vestingV2[k], now)
                        <= VestedAmountV2(vestingV2[k], now + 1)
    BY DEF VestingIsMonotonic
  <2>1. vestingV2[k] \in VestingScheduleV2 /\ WellFormed(vestingV2[k])
    BY DEF IInv, TypeOK, VestingInv, SchedulesWellFormed
  <2>2. now \in Nat /\ vestingV2[k].start_ledger \in Nat
    BY <2>1, FieldTypes, TokenAssumption DEF Ledger, Schedule
  <2> QED
    BY <2>1, <2>2, VestedAmountV2Monotone
<1> QED
  BY <1>1, Correct, PTL

\* The recipients of a campaign together never claim more than its total.
THEOREM AirdropNeverOverpays == Spec \/ DeployedSpec => []AirdropWithinTotal
<1>1. IInv => AirdropWithinTotal
  BY DEF IInv, AirdropInv
<1> QED
  BY <1>1, Correct, DeployedCorrect, PTL

\* What recover_unclaimed reported is never claimed afterwards.
THEOREM RecoveryIsSettled == Spec \/ DeployedSpec => []RecoveryIsFinal
<1>1. IInv => RecoveryIsFinal
  BY DEF IInv, AirdropInv
<1> QED
  BY <1>1, Correct, DeployedCorrect, PTL

\* A schedule that no step touches is kept.
LEMMA UntouchedGrant ==
  ASSUME IInv, NEW k \in Address \X ScheduleId, vestingV2'[k] = vestingV2[k]
  PROVE  GrantKept(k)
<1> SUFFICES ASSUME vestingV2[k] # None PROVE GrantKept(k)
  BY DEF GrantKept
<1>1. vestingV2[k] \in VestingScheduleV2
  BY DEF IInv, TypeOK
<1>2. vestingV2[k].claimed \in Nat
  BY <1>1, FieldTypes DEF Schedule
<1>3. vestingV2[k] = [vestingV2[k] EXCEPT !.end_ledger = vestingV2[k].end_ledger,
                                          !.claimed = vestingV2[k].claimed]
  BY <1>1 DEF VestingScheduleV2
<1> QED
  BY <1>2, <1>3 DEF GrantKept

\* No entry point takes back or rewrites a second-generation grant: the number
\* create_vesting_v2 picks is free, claims only add, modifications only move
\* the end.
THEOREM GrantsAreNeverLost == Spec => GrantsAreKept
<1>1. ASSUME IInv, Next, NEW k \in Address \X ScheduleId
      PROVE  GrantKept(k)
  <2>1. CASE UNCHANGED vestingV2
    BY <1>1, <2>1, UntouchedGrant
  <2>2. ASSUME NEW b \in Address, NEW total \in Amount, NEW cliff \in Ledger,
               NEW end \in Ledger, NEW type \in {Linear, Step}, NEW steps \in StepCount,
               CreateVestingV2(b, total, cliff, end, type, steps)
        PROVE  GrantKept(k)
    <3>1. CASE k = <<b, scheduleCount[b]>>
      <4>1. scheduleCount[b] \in ScheduleId
        BY <1>1, <3>1
      <4>2. scheduleCount[b] \in Nat
        BY <1>1, TokenAssumption DEF IInv, TypeOK
      <4>3. vestingV2[k] = None
        BY <1>1, <3>1, <4>1, <4>2 DEF IInv, VestingInv, CounterMatchesSchedules
      <4> QED
        BY <4>3 DEF GrantKept
    <3>2. CASE k # <<b, scheduleCount[b]>>
      <4>1. vestingV2'[k] = vestingV2[k]
        BY <1>1, <2>2, <3>2 DEF IInv, TypeOK, CreateVestingV2
      <4> QED
        BY <1>1, <4>1, UntouchedGrant
    <3> QED
      BY <3>1, <3>2
  <2>3. ASSUME NEW b \in Address, NEW id \in ScheduleId, ClaimVestingV2(b, id)
        PROVE  GrantKept(k)
    <3> DEFINE due == VestedAmountV2(vestingV2[k], ledger) - vestingV2[k].claimed
    <3>1. CASE k = <<b, id>>
      <4>1. /\ vestingV2[k] \in VestingScheduleV2 /\ vestingV2[k] # None
            /\ WellFormed(vestingV2[k]) /\ ledger \in Nat
        BY <1>1, <2>3, <3>1, TokenAssumption
           DEF ClaimVestingV2, IInv, TypeOK, VestingInv, SchedulesWellFormed, Ledger
      <4>2. vestingV2[k].claimed \in Nat /\ VestedAmountV2(vestingV2[k], ledger) \in Int
        BY <4>1, VestedAmountV2Bound, FieldTypes DEF Schedule
      <4>3. due \in Nat /\ vestingV2'[k] = [vestingV2[k] EXCEPT !.claimed = @ + due]
        BY <1>1, <2>3, <3>1, <4>2 DEF ClaimVestingV2, IInv, TypeOK
      <4>4. vestingV2[k].claimed + due \in Nat
        BY <4>2, <4>3
      <4> HIDE DEF due
      <4>5. vestingV2'[k] \in VestingScheduleV2
        BY <4>1, <4>3, <4>4 DEF VestingScheduleV2
      <4>6. vestingV2'[k].claimed = vestingV2[k].claimed + due
        BY <4>1, <4>3 DEF VestingScheduleV2
      <4>7. vestingV2'[k] = [vestingV2[k] EXCEPT !.end_ledger = vestingV2'[k].end_ledger,
                                                 !.claimed = vestingV2'[k].claimed]
        BY <4>1, <4>3, <4>6 DEF VestingScheduleV2
      <4>8. vestingV2'[k] # None
        BY <4>5, TokenAssumption
      <4> QED
        BY <4>2, <4>3, <4>6, <4>7, <4>8 DEF GrantKept
    <3>2. CASE k # <<b, id>>
      <4>1. vestingV2'[k] = vestingV2[k]
        BY <1>1, <2>3, <3>2 DEF IInv, TypeOK, ClaimVestingV2
      <4> QED
        BY <1>1, <4>1, UntouchedGrant
    <3> QED
      BY <3>1, <3>2
  <2>4. ASSUME NEW b \in Address, NEW id \in ScheduleId, NEW newEnd \in Ledger,
               ModifyVestingV2(b, id, newEnd)
        PROVE  GrantKept(k)
    <3>1. CASE k = <<b, id>>
      <4>1. /\ vestingV2[k] \in VestingScheduleV2
            /\ vestingV2'[k] = [vestingV2[k] EXCEPT !.end_ledger = newEnd]
        BY <1>1, <2>4, <3>1 DEF ModifyVestingV2, IInv, TypeOK
      <4>2. vestingV2'[k] \in VestingScheduleV2
        BY <4>1 DEF VestingScheduleV2
      <4>3. vestingV2'[k].claimed = vestingV2[k].claimed /\ vestingV2[k].claimed \in Nat
        BY <4>1, FieldTypes DEF VestingScheduleV2, Schedule
      <4>4. vestingV2'[k] = [vestingV2[k] EXCEPT !.end_ledger = vestingV2'[k].end_ledger,
                                                 !.claimed = vestingV2'[k].claimed]
        BY <4>1, <4>3 DEF VestingScheduleV2
      <4> QED
        BY <4>2, <4>3, <4>4, TokenAssumption DEF GrantKept
    <3>2. CASE k # <<b, id>>
      <4>1. vestingV2'[k] = vestingV2[k]
        BY <1>1, <2>4, <3>2 DEF IInv, TypeOK, ModifyVestingV2
      <4> QED
        BY <1>1, <4>1, UntouchedGrant
    <3> QED
      BY <3>1, <3>2
  <2>5. CASE LedgerNext /\ UNCHANGED <<ledger, vestingVars, airdropVars>>
    BY <2>1, <2>5 DEF vestingVars
  <2>6. CASE VestingNext
    <3>1. ASSUME NEW b \in Beneficiary, ClaimVesting(b) PROVE GrantKept(k)
      BY <2>1, <3>1 DEF ClaimVesting
    <3>2. ASSUME NEW b \in Beneficiary, NEW total \in Amount, NEW cliff \in Ledger,
                 NEW end \in Ledger, CreateVesting(b, total, cliff, end)
          PROVE  GrantKept(k)
      BY <2>1, <3>2 DEF CreateVesting
    <3> QED
      BY <2>2, <2>3, <2>4, <2>6, <3>1, <3>2, TokenAssumption DEF VestingNext
  <2>7. CASE AirdropNext
    BY <2>1, <2>7 DEF AirdropNext, CreateAirdrop, ClaimAirdrop, RecoverUnclaimed, vestingVars
  <2>8. CASE CloseLedger
    BY <2>1, <2>8 DEF CloseLedger, vestingVars
  <2> QED
    BY <1>1, <2>5, <2>6, <2>7, <2>8 DEF Next
<1>2. IInv /\ [Next]_vars => [\A k \in Address \X ScheduleId : GrantKept(k)]_vars
  BY <1>1
<1> QED
  BY <1>2, Correct, PTL DEF Spec, GrantsAreKept

----------------------------------------------------------------------------
(* The contract implements TokenIssuance, from its initialisation on.      *)

\* Nobody can call initialize a second time.
IsInitialised == admin \in Address

LEMMA TotalIsSum ==
  /\ Issuance!TotalOf(balance) = Sum(balance, Address)
  /\ Issuance!TotalOf(balance)' = Sum(balance', Address)
BY DEF Issuance!TotalOf, Issuance!MapThenSumSet, Issuance!MapThenFoldSet,
       Sum, MapThenSumSet, MapThenFoldSet

\* What a holder sees of the contract, and the steps a holder was promised.
Seen == <<balance, burnStats.total_burned, totalSupply>>

Promised == SupplyIsBacked' /\ [Issuance!Next]_Seen

\* Tokens appear for one holder: mint, mint_reward and the claims.
LEMMA IssueIsGrant ==
  ASSUME LedgerTypeOK, LedgerTypeOK', SupplyIsBacked,
         NEW to \in Address, NEW n \in Int, n > 0, Issue(to, n), UNCHANGED burnStats
  PROVE  Promised
<1> USE LedgerAssumption, AddressAssumption
<1>1. balance \in [Address -> Int] /\ balance' \in [Address -> Int] /\ totalSupply \in Int
  BY DEF LedgerTypeOK
<1>2. /\ balance'[to] = balance[to] + n
      /\ \A a \in Address \ {to} : balance'[a] = balance[a]
      /\ totalSupply' = totalSupply + n /\ totalSupply + n <= MaxSupply
  BY <1>1 DEF Issue
<1>3. Sum(balance', Address) = Sum(balance, Address) + (balance'[to] - balance[to])
  BY <1>1, <1>2, SumChanges
<1>4. totalSupply = Sum(balance, Address)
  BY TotalIsSum DEF SupplyIsBacked
<1>5. totalSupply' = Sum(balance', Address)
  BY <1>1, <1>2, <1>3, <1>4
<1>6. SupplyIsBacked' /\ totalSupply' = Issuance!TotalOf(balance)'
  BY <1>5, TotalIsSum DEF SupplyIsBacked
<1>7. balance'[to] > balance[to]
  BY <1>1, <1>2
<1>8. Issuance!Grant(to)
  BY <1>1, <1>2, <1>6, <1>7 DEF Issuance!Grant, Issuance!Others
<1> QED
  BY <1>6, <1>8 DEF Promised, Issuance!Next

\* Tokens disappear into the record of what was burned: burn and burn_from.
LEMMA DestroyIsRetirement ==
  ASSUME LedgerTypeOK, LedgerTypeOK', SupplyIsBacked,
         NEW from \in Address, NEW n \in Int, n > 0, Destroy(from, n)
  PROVE  Promised
<1> USE LedgerAssumption, AddressAssumption
<1>1. /\ balance \in [Address -> Int] /\ balance' \in [Address -> Int] /\ totalSupply \in Int
      /\ burnStats.total_burned \in Int
  BY DEF LedgerTypeOK
<1>2. /\ balance'[from] = balance[from] - n
      /\ \A a \in Address \ {from} : balance'[a] = balance[a]
      /\ totalSupply' = totalSupply - n
      /\ burnStats'.total_burned = burnStats.total_burned + n
  BY <1>1 DEF Destroy
<1>3. Sum(balance', Address) = Sum(balance, Address) + (balance'[from] - balance[from])
  BY <1>1, <1>2, SumChanges
<1>4. totalSupply = Sum(balance, Address)
  BY TotalIsSum DEF SupplyIsBacked
<1>5. totalSupply' = Sum(balance', Address)
  BY <1>1, <1>2, <1>3, <1>4
<1>6. SupplyIsBacked' /\ totalSupply' = Issuance!TotalOf(balance)'
  BY <1>5, TotalIsSum DEF SupplyIsBacked
<1>7. /\ balance'[from] < balance[from]
      /\ burnStats'.total_burned = burnStats.total_burned + (balance[from] - balance'[from])
  BY <1>1, <1>2
<1>8. Issuance!Retire(from)
  BY <1>1, <1>2, <1>6, <1>7 DEF Issuance!Retire, Issuance!Others
<1> QED
  BY <1>6, <1>8 DEF Promised, Issuance!Next

\* Tokens change hands, or stay where they are: transfer and transfer_from.
LEMMA MoveIsExchange ==
  ASSUME LedgerTypeOK, LedgerTypeOK', SupplyIsBacked,
         NEW from \in Address, NEW to \in Address, NEW n \in Int, Move(from, to, n),
         UNCHANGED <<totalSupply, burnStats>>
  PROVE  Promised
<1> USE LedgerAssumption, AddressAssumption
<1>1. /\ balance \in [Address -> Int] /\ balance' \in [Address -> Int]
      /\ \A a \in Address : balance'[a] >= 0
  BY DEF LedgerTypeOK
<1>2. CASE from = to
  <2>1. balance' = balance
    BY <1>1, <1>2 DEF Move
  <2> QED
    BY <2>1 DEF Promised, Seen, SupplyIsBacked, Issuance!TotalOf,
       Issuance!MapThenSumSet, Issuance!MapThenFoldSet
<1>3. CASE from # to
  <2>1. /\ balance'[from] = balance[from] - n /\ balance'[to] = balance[to] + n
        /\ \A a \in Address \ {from, to} : balance'[a] = balance[a]
    BY <1>1, <1>3 DEF Move
  <2>2. balance'[from] + balance'[to] = balance[from] + balance[to]
    BY <1>1, <2>1
  <2>3. Sum(balance', Address) = Sum(balance, Address)
    BY <1>1, <1>3, <2>1, <2>2, SumKept
  <2>4. SupplyIsBacked'
    BY <2>3, TotalIsSum DEF SupplyIsBacked
  <2>5. Issuance!Exchange(from, to)
    BY <1>1, <2>1, <2>2 DEF Issuance!Exchange, Issuance!Others
  <2> QED
    BY <1>3, <2>4, <2>5 DEF Promised, Issuance!Next
<1> QED
  BY <1>2, <1>3

\* The other entry points change nothing a holder sees.
LEMMA NothingSeen ==
  ASSUME SupplyIsBacked, UNCHANGED <<balance, totalSupply, burnStats>>
  PROVE  Promised
<1>1. SupplyIsBacked'
  BY TotalIsSum DEF SupplyIsBacked
<1> QED
  BY <1>1 DEF Promised, Seen

\* The entry points of the ledger, of a contract that has an admin.
LEMMA LedgerKeepsPromise ==
  ASSUME LedgerTypeOK, SupplyIsBacked, IsInitialised, LedgerNext
  PROVE  Promised /\ admin' = admin
<1> USE LedgerAssumption
<1>0. LedgerTypeOK' /\ \A n \in Amount : n \in Int
  BY LedgerStep
<1>1. ASSUME NEW a \in Address, Initialize(a) PROVE FALSE
  BY <1>1 DEF Initialize, IsInitialised
<1>2. ASSUME NEW a \in Address, NEW n \in Amount, Mint(a, n) PROVE Promised /\ admin' = admin
  BY <1>0, <1>2, IssueIsGrant DEF Mint
<1>3. ASSUME NEW a \in Address, NEW n \in Amount, Burn(a, n) PROVE Promised /\ admin' = admin
  BY <1>0, <1>3, DestroyIsRetirement DEF Burn
<1>4. ASSUME NEW a \in Address, NEW b \in Address, NEW n \in Amount, Transfer(a, b, n)
      PROVE  Promised /\ admin' = admin
  BY <1>0, <1>4, MoveIsExchange DEF Transfer
<1>5. ASSUME NEW a \in Address, NEW b \in Address, NEW n \in Amount, MintReward(a, b, n)
      PROVE  Promised /\ admin' = admin
  BY <1>0, <1>5, IssueIsGrant DEF MintReward
<1>6. ASSUME NEW a \in Address, NEW s \in Spender, NEW n \in Amount, Approve(a, s, n)
      PROVE  Promised /\ admin' = admin
  BY <1>6, NothingSeen DEF Approve
<1>7. ASSUME NEW a \in Address, NEW s \in Spender, NEW n \in Amount, BurnFrom(s, a, n)
      PROVE  Promised /\ admin' = admin
  BY <1>0, <1>7, DestroyIsRetirement DEF BurnFrom
<1>8. ASSUME NEW a \in Address, NEW b \in Address, NEW s \in Spender, NEW n \in Amount,
             TransferFrom(s, a, b, n)
      PROVE  Promised /\ admin' = admin
  BY <1>0, <1>8, MoveIsExchange DEF TransferFrom
<1> QED
  BY <1>1, <1>2, <1>3, <1>4, <1>5, <1>6, <1>7, <1>8 DEF LedgerNext

\* The claims of both generations of schedules.
LEMMA VestingKeepsPromise ==
  ASSUME IInv, IInv', SupplyIsBacked, NEW b \in Address,
         ClaimVesting(b) \/ \E id \in ScheduleId : ClaimVestingV2(b, id)
  PROVE  Promised /\ admin' = admin
<1>0. LedgerTypeOK /\ LedgerTypeOK' /\ ledger \in Nat
  BY TokenAssumption DEF IInv, TypeOK, Ledger
<1>1. CASE ClaimVesting(b)
  <2> DEFINE old == vesting[b]
             due == VestedAmount(old, ledger) - old.claimed
  <2>1. old \in VestingSchedule /\ WellFormed(old)
    BY <1>1 DEF ClaimVesting, IInv, TypeOK, VestingInv, SchedulesWellFormed
  <2>2. VestedAmount(old, ledger) \in Int /\ old.claimed \in Int
    BY <1>0, <2>1, VestedAmountBound, FieldTypes DEF Schedule
  <2>3. due \in Int /\ due > 0 /\ Issue(b, due) /\ UNCHANGED <<admin, burnStats>>
    BY <1>1, <2>2 DEF ClaimVesting
  <2> HIDE DEF due
  <2> QED
    BY <1>0, <2>3, IssueIsGrant
<1>2. ASSUME NEW id \in ScheduleId, ClaimVestingV2(b, id)
      PROVE  Promised /\ admin' = admin
  <2> DEFINE old == vestingV2[<<b, id>>]
             due == VestedAmountV2(old, ledger) - old.claimed
  <2>1. /\ vestingV2[<<b, id>>] # None /\ UNCHANGED scheduleCount
        /\ due > 0 /\ Issue(b, due) /\ UNCHANGED <<admin, burnStats>>
    BY <1>2 DEF ClaimVestingV2
  <2>2. old \in VestingScheduleV2 /\ WellFormed(old)
    BY <2>1, ExistingSchedule
  <2>3. VestedAmountV2(old, ledger) \in Int /\ old.claimed \in Int
    BY <1>0, <2>2, VestedAmountV2Bound, FieldTypes DEF Schedule
  <2>4. due \in Int
    BY <2>3
  <2> HIDE DEF due
  <2> QED
    BY <1>0, <2>1, <2>4, IssueIsGrant
<1> QED
  BY <1>1, <1>2

LEMMA SupplyStep ==
  ASSUME IInv, SupplyIsBacked, IsInitialised, [Next]_vars
  PROVE  Promised /\ IsInitialised'
<1> SUFFICES Promised /\ admin' = admin
  BY DEF IsInitialised
<1>0. IInv' /\ LedgerTypeOK /\ LedgerTypeOK'
  BY IInvStep DEF IInv, TypeOK
<1>1. CASE UNCHANGED vars
  BY <1>1, NothingSeen DEF vars, ledgerVars
<1>2. CASE LedgerNext /\ UNCHANGED <<ledger, vestingVars, airdropVars>>
  BY <1>0, <1>2, LedgerKeepsPromise
<1>3. CASE CloseLedger
  BY <1>3, NothingSeen DEF CloseLedger, ledgerVars
<1>4. ASSUME NEW b \in Beneficiary,
             ClaimVesting(b) \/ \E id \in ScheduleId : ClaimVestingV2(b, id)
      PROVE  Promised /\ admin' = admin
  BY <1>0, <1>4, VestingKeepsPromise, TokenAssumption
<1>5. ASSUME NEW b \in Beneficiary, NEW id \in ScheduleId, NEW end \in Ledger,
             ModifyVestingV2(b, id, end)
      PROVE  Promised /\ admin' = admin
  BY <1>5, NothingSeen DEF ModifyVestingV2, ledgerVars
<1>6. ASSUME NEW b \in Beneficiary, NEW total \in Amount, NEW cliff \in Ledger, NEW end \in Ledger,
             \/ CreateVesting(b, total, cliff, end)
             \/ \E type \in {Linear, Step}, steps \in StepCount :
                  CreateVestingV2(b, total, cliff, end, type, steps)
      PROVE  Promised /\ admin' = admin
  BY <1>6, NothingSeen DEF CreateVesting, CreateVestingV2, ledgerVars
<1>7. ASSUME NEW total \in Amount, NEW expiry \in Ledger, CreateAirdrop(total, expiry)
      PROVE  Promised /\ admin' = admin
  BY <1>7, NothingSeen DEF CreateAirdrop, ledgerVars
<1>8. ASSUME NEW id \in CampaignId, RecoverUnclaimed(id) PROVE Promised /\ admin' = admin
  BY <1>8, NothingSeen DEF RecoverUnclaimed, ledgerVars
<1>9. ASSUME NEW id \in CampaignId, NEW a \in Address, NEW n \in Amount, ClaimAirdrop(id, a, n)
      PROVE  Promised /\ admin' = admin
  <2>1. n \in Int /\ n > 0 /\ Issue(a, n) /\ UNCHANGED <<admin, burnStats>>
    BY <1>9, LedgerAssumption DEF ClaimAirdrop
  <2> QED
    BY <1>0, <2>1, IssueIsGrant
<1>10. CASE VestingNext
  BY <1>4, <1>5, <1>6, <1>10 DEF VestingNext
<1>11. CASE AirdropNext
  BY <1>7, <1>8, <1>9, <1>11 DEF AirdropNext
<1> QED
  BY <1>1, <1>2, <1>3, <1>10, <1>11 DEF Next

\* An initialised contract that was never used has issued nothing.
LEMMA SupplyInit ==
  ASSUME DeployedInit
  PROVE  SupplyIsBacked /\ IsInitialised /\ Issuance!Init
<1>1. /\ balance = [a \in Address |-> 0] /\ totalSupply = 0
      /\ burnStats = [total_burned |-> 0, burn_count |-> 0] /\ admin \in Address
  BY DEF DeployedInit, EmptyContract, EmptyLedger
<1>2. Sum(balance, Address) = 0
  BY <1>1, SumOfZeros, AddressAssumption
<1> QED
  BY <1>1, <1>2, TotalIsSum DEF SupplyIsBacked, IsInitialised, Issuance!Init

\* total_supply() is the sum of all balances, through mints, burns, rewards,
\* transfers to oneself, vesting claims and airdrop claims in any order.
THEOREM SupplyStaysBacked == DeployedSpec => []SupplyIsBacked
<1>1. DeployedInit => SupplyIsBacked /\ IsInitialised
  BY SupplyInit
<1>2. IInv /\ (SupplyIsBacked /\ IsInitialised) /\ [Next]_vars
        => (SupplyIsBacked /\ IsInitialised)'
  BY SupplyStep DEF Promised
<1> QED
  BY <1>1, <1>2, DeployedCorrect, PTL DEF DeployedSpec

\* Every entry point of an initialised contract is a step that a holder was
\* promised: a grant under the cap, a retirement into the burn statistics or
\* an exchange without loss; or it changes nothing a holder sees.
THEOREM ImplementsIssuanceSpec == DeployedSpec => ImplementsIssuance
<1>1. DeployedInit => Issuance!Init /\ SupplyIsBacked /\ IsInitialised
  BY SupplyInit
<1>2. IInv /\ (SupplyIsBacked /\ IsInitialised) /\ [Next]_vars
        => (SupplyIsBacked /\ IsInitialised)' /\ [Issuance!Next]_Seen
  BY SupplyStep DEF Promised
<1> QED
  BY <1>1, <1>2, DeployedCorrect, PTL DEF DeployedSpec, ImplementsIssuance, Issuance!Spec, Seen
=============================================================================
