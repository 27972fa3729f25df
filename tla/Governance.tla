----------------------------- MODULE Governance -----------------------------
(***************************************************************************)
(* The governance contract (contracts/governance/src/lib.rs) beside the    *)
(* token contract whose balances are its voting power and the contracts it *)
(* upgrades (Upgradable).                                                  *)
(*                                                                         *)
(* A vote weighs what the voter's balance is when the vote is cast, so the *)
(* ledger of TokenLedger runs on between the votes. Proposals and upgrade  *)
(* proposals are stored under keys of their own, but take their ids from   *)
(* one counter and record their voters under one kind of key.              *)
(***************************************************************************)
EXTENDS TokenLedger, Upgradable, FiniteSets

CONSTANTS
  Delay,       \* the timelock_ledgers values passed to initialize
  MaxLedger,   \* bound: last ledger sequence number
  MaxItems     \* bound: create_proposal and propose_upgrade calls together

ASSUME GovernanceAssumption ==
  /\ Delay \subseteq Nat
  /\ MaxLedger \in Nat
  /\ MaxItems \in Nat

Ledger == 0..MaxLedger
Id == 1..MaxItems

ProposalRecord ==
  [voting_end_ledger : Ledger, votes_for : Nat, votes_against : Nat,
   executed : BOOLEAN]

UpgradeProposalRecord ==
  [contract_address : Target, new_wasm_hash : Wasm,
   voting_end_ledger : Ledger, votes_for : Nat, votes_against : Nat,
   approved : BOOLEAN, executed : BOOLEAN, timelock_ledger : Ledger]

VARIABLES
  ledger,           \* env.ledger().sequence()
  timelockLedgers,  \* DataKey::TimelockLedgers, 0 before initialize
  nextProposalId,   \* DataKey::NextProposalId, 0 before initialize
  proposal,         \* DataKey::Proposal(id): a function on the ids in use
  upgrade,          \* DataKey::UpgradeProposal(id): likewise
  vote,             \* DataKey::Vote(id, voter): a function on <<id, voter>>
  timelockExpiry    \* DataKey::TimelockExpiry(id): a function on ids

governanceVars ==
  <<timelockLedgers, nextProposalId, proposal, upgrade, vote, timelockExpiry>>
vars == <<ledgerVars, ledger, governanceVars, targetVars>>

TypeOK ==
  /\ LedgerTypeOK
  /\ ledger \in Ledger
  /\ timelockLedgers \in Delay \cup {0}
  /\ nextProposalId \in 0..(MaxItems + 1)
  /\ DOMAIN proposal \subseteq Id
  /\ \A i \in DOMAIN proposal : proposal[i] \in ProposalRecord
  /\ DOMAIN upgrade \subseteq Id
  /\ \A i \in DOMAIN upgrade : upgrade[i] \in UpgradeProposalRecord
  /\ DOMAIN vote \subseteq Id \X Address
  /\ \A k \in DOMAIN vote : vote[k] \in BOOLEAN
  /\ DOMAIN timelockExpiry \subseteq Id
  /\ \A i \in DOMAIN timelockExpiry : timelockExpiry[i] \in Ledger
  /\ TargetTypeOK

\* storage().set: the function f with key mapped to value, new or not.
Put(f, key, value) == [k \in DOMAIN f \cup {key} |-> IF k = key THEN value ELSE f[k]]

NoEntries == [k \in {} |-> 0]

Init ==
  /\ admin = NoAdmin
  /\ EmptyLedger
  /\ ledger = 0
  /\ timelockLedgers = 0
  /\ nextProposalId = 0
  /\ proposal = NoEntries
  /\ upgrade = NoEntries
  /\ vote = NoEntries
  /\ timelockExpiry = NoEntries
  /\ TargetInit

----------------------------------------------------------------------------
GovernanceInitialize(timelock_ledgers) ==
  /\ nextProposalId = 0
  /\ timelock_ledgers > 0
  /\ timelockLedgers' = timelock_ledgers
  /\ nextProposalId' = 1
  /\ UNCHANGED <<ledgerVars, ledger, proposal, upgrade, vote, timelockExpiry, targetVars>>

CreateProposal(voting_end_ledger) ==
  /\ nextProposalId \in Id
  /\ voting_end_ledger > ledger
  /\ proposal' = Put(proposal, nextProposalId,
                     [voting_end_ledger |-> voting_end_ledger,
                      votes_for |-> 0, votes_against |-> 0, executed |-> FALSE])
  /\ nextProposalId' = nextProposalId + 1
  /\ UNCHANGED <<ledgerVars, ledger, timelockLedgers, upgrade, vote,
                 timelockExpiry, targetVars>>

ProposeUpgrade(contract_address, new_wasm_hash, voting_end_ledger, timelock_ledger) ==
  /\ nextProposalId \in Id
  /\ voting_end_ledger > ledger
  /\ timelock_ledger > voting_end_ledger
  /\ upgrade' = Put(upgrade, nextProposalId,
                    [contract_address |-> contract_address,
                     new_wasm_hash |-> new_wasm_hash,
                     voting_end_ledger |-> voting_end_ledger,
                     votes_for |-> 0, votes_against |-> 0,
                     approved |-> FALSE, executed |-> FALSE,
                     timelock_ledger |-> timelock_ledger])
  /\ nextProposalId' = nextProposalId + 1
  /\ UNCHANGED <<ledgerVars, ledger, timelockLedgers, proposal, vote,
                 timelockExpiry, targetVars>>

\* Faulty variants of MayVote: without the "Already voted" assertion, and
\* with the voting end still open.
MayVoteAgain(voter, id, record) ==
  /\ ledger < record.voting_end_ledger
  /\ ~record.executed
  /\ balance[voter] > 0

MayVoteAtEnd(voter, id, record) ==
  /\ ledger <= record.voting_end_ledger
  /\ ~record.executed
  /\ <<id, voter>> \notin DOMAIN vote
  /\ balance[voter] > 0

\* The assertions of vote and vote_upgrade, for the record read from storage.
MayVote(voter, id, record) ==
  /\ ledger < record.voting_end_ledger
  /\ ~record.executed
  /\ <<id, voter>> \notin DOMAIN vote
  /\ balance[voter] > 0

\* Faulty variant of Tallied: a net count of the votes.
TalliedNet(record, voter, support) ==
  [record EXCEPT !.votes_for = IF support THEN @ + balance[voter] ELSE @ - balance[voter]]

\* The record with the voter's balance added to the side it supports.
Tallied(record, voter, support) ==
  IF support THEN [record EXCEPT !.votes_for = @ + balance[voter]]
             ELSE [record EXCEPT !.votes_against = @ + balance[voter]]

Vote(voter, id, support) ==
  /\ id \in DOMAIN proposal
  /\ MayVote(voter, id, proposal[id])
  /\ vote' = Put(vote, <<id, voter>>, support)
  /\ proposal' = Put(proposal, id, Tallied(proposal[id], voter, support))
  /\ UNCHANGED <<ledgerVars, ledger, timelockLedgers, nextProposalId, upgrade,
                 timelockExpiry, targetVars>>

VoteUpgrade(voter, id, support) ==
  /\ id \in DOMAIN upgrade
  /\ MayVote(voter, id, upgrade[id])
  /\ vote' = Put(vote, <<id, voter>>, support)
  /\ upgrade' = Put(upgrade, id, Tallied(upgrade[id], voter, support))
  /\ UNCHANGED <<ledgerVars, ledger, timelockLedgers, nextProposalId, proposal,
                 timelockExpiry, targetVars>>

\* Faulty variant of HasPassed: a lead is enough while the vote goes on.
HasLead(record) ==
  /\ ~record.executed
  /\ record.votes_for > record.votes_against

\* The assertions of execute_proposal and approve_upgrade.
HasPassed(record) ==
  /\ ledger >= record.voting_end_ledger
  /\ ~record.executed
  /\ record.votes_for > record.votes_against

ExecuteProposal(id) ==
  /\ id \in DOMAIN proposal
  /\ HasPassed(proposal[id])
  /\ proposal' = [proposal EXCEPT ![id].executed = TRUE]
  /\ UNCHANGED <<ledgerVars, ledger, timelockLedgers, nextProposalId, upgrade, vote,
                 timelockExpiry, targetVars>>

ApproveUpgrade(id) ==
  /\ id \in DOMAIN upgrade
  /\ HasPassed(upgrade[id])
  /\ upgrade' = [upgrade EXCEPT ![id].approved = TRUE]
  /\ timelockExpiry' = Put(timelockExpiry, id, upgrade[id].timelock_ledger)
  /\ UNCHANGED <<ledgerVars, ledger, timelockLedgers, nextProposalId, proposal, vote,
                 targetVars>>

\* The call into the target is the last step; if it fails the whole
\* invocation is reverted and the upgrade is as it was.
ExecuteUpgrade(id) ==
  /\ id \in DOMAIN upgrade
  /\ upgrade[id].approved
  /\ ~upgrade[id].executed
  /\ id \in DOMAIN timelockExpiry
  /\ ledger >= timelockExpiry[id]
  /\ upgrade' = [upgrade EXCEPT ![id].executed = TRUE]
  /\ GovernedUpgrade(upgrade[id].contract_address, upgrade[id].new_wasm_hash)
  /\ UNCHANGED <<ledgerVars, ledger, timelockLedgers, nextProposalId, proposal, vote,
                 timelockExpiry>>

CloseLedger ==
  /\ ledger < MaxLedger
  /\ ledger' = ledger + 1
  /\ UNCHANGED <<ledgerVars, governanceVars, targetVars>>

Next ==
  \/ LedgerNext /\ UNCHANGED <<ledger, governanceVars, targetVars>>
  \/ CloseLedger
  \/ \E d \in Delay : GovernanceInitialize(d)
  \/ \E end \in Ledger : CreateProposal(end)
  \/ \E end, expiry \in Ledger, c \in Target, w \in Wasm : ProposeUpgrade(c, w, end, expiry)
  \/ \E a \in Address, i \in Id, support \in BOOLEAN :
       \/ Vote(a, i, support)
       \/ VoteUpgrade(a, i, support)
  \/ \E i \in Id :
       \/ ExecuteProposal(i)
       \/ ApproveUpgrade(i)
       \/ ExecuteUpgrade(i)
  \/ TargetNext /\ UNCHANGED <<ledgerVars, ledger, governanceVars>>

Spec == Init /\ [][Next]_vars

----------------------------------------------------------------------------
Ballots(id, support) == {a \in Address : <<id, a>> \in DOMAIN vote /\ vote[<<id, a>>] = support}

\* A side of a vote weighs at least one token per address recorded on it,
\* and nothing if there is none.
TallyFits(id, record) ==
  /\ record.votes_for >= Cardinality(Ballots(id, TRUE))
  /\ record.votes_against >= Cardinality(Ballots(id, FALSE))
  /\ record.votes_for > 0 => Ballots(id, TRUE) # {}
  /\ record.votes_against > 0 => Ballots(id, FALSE) # {}

\* The tallies of a proposal, and of an upgrade, belong to the voters
\* recorded under its id: although both kinds share the counter and the Vote
\* keys, no vote on the one is ever taken for a vote on the other.
TalliesMatchBallots ==
  /\ \A i \in DOMAIN proposal : TallyFits(i, proposal[i])
  /\ \A i \in DOMAIN upgrade : TallyFits(i, upgrade[i])
  /\ \A k \in DOMAIN vote : k[1] \in DOMAIN proposal \cup DOMAIN upgrade

Won(record) ==
  /\ ledger >= record.voting_end_ledger
  /\ record.votes_for > record.votes_against

\* execute_proposal, approve_upgrade and execute_upgrade act on a majority
\* that still stands: whatever has been executed or approved had more votes
\* for than against after its voting end, and still has, and executed
\* upgrades were approved and have waited for their timelock ledger.
OnlyMajoritiesTakeEffect ==
  /\ \A i \in DOMAIN proposal : proposal[i].executed => Won(proposal[i])
  /\ \A i \in DOMAIN upgrade :
       /\ upgrade[i].approved => Won(upgrade[i])
       /\ upgrade[i].executed => /\ upgrade[i].approved
                                 /\ ledger >= upgrade[i].timelock_ledger
                                 /\ upgrade[i].timelock_ledger > upgrade[i].voting_end_ledger

\* execute_upgrade installs every upgrade at most once. What else changes a
\* target is accounted for: the version never falls behind the executed
\* upgrades unless the target was initialised again, and counts exactly those
\* unless another governance address was named; without one the rollback
\* history has an entry per executed upgrade; the code the target was deployed
\* with stays at the bottom of the history, through other upgrades, rollbacks
\* and initialisations, unless the admin replaced code without history; and
\* with none of these the target runs what was voted for. No intervention
\* makes migrate run ahead of the version.
UpgradesInstallOnce ==
  \A c \in Target :
    LET executed == {i \in DOMAIN upgrade : /\ upgrade[i].executed
                                            /\ upgrade[i].contract_address = c}
    IN  /\ code[c].migrated <= code[c].version
        /\ "reset" \notin touched[c] => code[c].version >= 1 + Cardinality(executed)
        /\ touched[c] \cap {"reset", "moved"} = {} => code[c].version = 1 + Cardinality(executed)
        /\ "moved" \notin touched[c] => Len(code[c].history) = Cardinality(executed)
        /\ "patched" \notin touched[c] => Head(Append(code[c].history, code[c].wasm)) = Genesis
        /\ touched[c] \cap {"moved", "patched"} = {} =>
             code[c].wasm \in {upgrade[i].new_wasm_hash : i \in executed} \cup {Genesis}

Decided(old, new) ==
  ledger >= old.voting_end_ledger =>
    /\ new.votes_for = old.votes_for
    /\ new.votes_against = old.votes_against
    /\ old.executed => new.executed

\* Once the voting end of an item is reached its result is final: no step
\* removes it, changes a tally or takes an execution or approval back,
\* whatever the voters do with their tokens.
VerdictIsFinal ==
  [][/\ \A i \in DOMAIN proposal :
          i \in DOMAIN proposal' /\ Decided(proposal[i], proposal'[i])
     /\ \A i \in DOMAIN upgrade :
          /\ i \in DOMAIN upgrade' /\ Decided(upgrade[i], upgrade'[i])
          /\ upgrade[i].approved => upgrade'[i].approved]_vars

\* contracts/governance/README.md (39) sets the earliest execution of an
\* approved upgrade to current_ledger + timelock_ledgers. Approval comes no
\* earlier than the voting end, so that much must lie between the two.
TimelockLastsAsConfigured ==
  \A i \in DOMAIN timelockExpiry :
    timelockExpiry[i] >= upgrade[i].voting_end_ledger + timelockLedgers
=============================================================================
