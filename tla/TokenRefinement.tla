-------------------------- MODULE TokenRefinement --------------------------
(***************************************************************************)
(* The token contract implements TokenIssuance: the balances are the       *)
(* holdings, total_supply() is what is outstanding and                     *)
(* get_burn_stats().total_burned is what was retired.                      *)
(***************************************************************************)
EXTENDS Token, FiniteSetsExt

\* An address is a public key or a contract id of 32 bytes: there are finitely
\* many, so that the sum of all balances is one.
ASSUME AddressAssumption == IsFiniteSet(Address)

Issuance == INSTANCE TokenIssuance WITH
  Holder <- Address,
  Cap <- MaxSupply,
  holdings <- balance,
  retired <- burnStats.total_burned,
  outstanding <- totalSupply

\* From the moment the contract is initialised, each of its entry points is
\* one of the steps a holder was promised, or changes nothing they see.
ImplementsIssuance == Issuance!Spec

\* total_supply() is the sum of all balances, through mints, burns, rewards,
\* vesting claims and airdrop claims in any order.
SupplyIsBacked == totalSupply = Issuance!TotalOf(balance)
============================================================================
