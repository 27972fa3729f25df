---------------------------- MODULE TokenLedger ----------------------------
(***************************************************************************)
(* The SEP-41 core of the BST token contract                               *)
(* (contracts/token/src/lib.rs): balances, allowances, the supply counter, *)
(* the burn statistics and the re-entrancy flag.                           *)
(*                                                                         *)
(* A Soroban invocation is atomic: an assertion that fails, a missing      *)
(* authorisation or an arithmetic overflow reverts all of its writes.      *)
(* Every entry point is therefore one action, whose guards are the         *)
(* assertions of the function, wherever in its body they stand.            *)
(*                                                                         *)
(* require_auth(a) lets address a act for itself: an operation that        *)
(* authorises a is enabled for every a, one that authorises the stored     *)
(* admin is enabled only once there is one.                                *)
(***************************************************************************)
EXTENDS Integers

CONSTANTS
  Address,      \* accounts and contracts
  NoAdmin,      \* the Admin key is absent from storage
  Amount,       \* the amounts callers pass
  Spender,      \* bound: addresses that are ever given an allowance
  MaxSupply,    \* MAX_SUPPLY
  I128Max       \* i128::MAX

ASSUME LedgerAssumption ==
  /\ NoAdmin \notin Address
  /\ Spender \subseteq Address
  /\ MaxSupply \in Nat
  /\ I128Max \in Nat
  /\ Amount \subseteq -(I128Max + 1)..I128Max
  /\ MaxSupply <= I128Max

VARIABLES
  admin,        \* DataKey::Admin
  balance,      \* DataKey::Balance(address)
  allowance,    \* DataKey::Allowance(owner, spender)
  totalSupply,  \* DataKey::TotalSupply
  burnStats,    \* DataKey::BurnStats
  locked        \* DataKey::Locked

ledgerVars == <<admin, balance, allowance, totalSupply, burnStats, locked>>

LedgerTypeOK ==
  /\ admin \in Address \cup {NoAdmin}
  /\ balance \in [Address -> Nat]
  /\ allowance \in [Address -> [Address -> Nat]]
  /\ totalSupply \in Int
  /\ burnStats \in [total_burned : 0..I128Max, burn_count : Nat]
  /\ locked \in BOOLEAN

\* Nothing was ever issued.
EmptyLedger ==
  /\ balance = [a \in Address |-> 0]
  /\ allowance = [a \in Address |-> [s \in Address |-> 0]]
  /\ totalSupply = 0
  /\ burnStats = [total_burned |-> 0, burn_count |-> 0]
  /\ locked = FALSE

----------------------------------------------------------------------------
\* Faulty variant of Issue: the assertion on MAX_SUPPLY is missing.
IssueUncapped(to, amount) ==
  /\ balance[to] + amount <= I128Max
  /\ balance' = [balance EXCEPT ![to] = @ + amount]
  /\ totalSupply' = totalSupply + amount

\* add_balance followed by add_supply: new tokens for one address.
Issue(to, amount) ==
  /\ balance[to] + amount <= I128Max
  /\ totalSupply + amount <= MaxSupply
  /\ balance' = [balance EXCEPT ![to] = @ + amount]
  /\ totalSupply' = totalSupply + amount

\* Faulty variant of Move: both balances are read before either is written.
MoveFromSnapshot(from, to, amount) ==
  balance' = [balance EXCEPT ![from] = balance[from] - amount,
                             ![to] = balance[to] + amount]

\* sub_balance followed by add_balance. They read storage one after the
\* other, so a transfer to oneself leaves the balance as it was.
Move(from, to, amount) ==
  LET debited == [balance EXCEPT ![from] = @ - amount]
  IN  balance' = [debited EXCEPT ![to] = @ + amount]

\* sub_balance, sub_supply and the update of the burn statistics.
Destroy(from, amount) ==
  /\ burnStats.total_burned + amount <= I128Max
  /\ balance' = [balance EXCEPT ![from] = @ - amount]
  /\ totalSupply' = totalSupply - amount
  /\ burnStats' = [total_burned |-> burnStats.total_burned + amount,
                   burn_count   |-> burnStats.burn_count + 1]

\* Faulty variant of UseAllowance: the allowance is spent unchecked.
UseAllowanceUnchecked(owner, spender, amount) ==
  allowance' = [allowance EXCEPT ![owner][spender] = @ - amount]

\* The allowance check and deduction of burn_from and transfer_from.
UseAllowance(owner, spender, amount) ==
  /\ allowance[owner][spender] >= amount
  /\ allowance' = [allowance EXCEPT ![owner][spender] = @ - amount]

----------------------------------------------------------------------------
\* initialize resets the supply counter, whatever was issued before it.
Initialize(a) ==
  /\ admin = NoAdmin
  /\ admin' = a
  /\ totalSupply' = 0
  /\ UNCHANGED <<balance, allowance, burnStats, locked>>

Mint(to, amount) ==
  /\ amount > 0
  /\ admin # NoAdmin
  /\ Issue(to, amount)
  /\ UNCHANGED <<admin, allowance, burnStats, locked>>

Burn(from, amount) ==
  /\ amount > 0
  /\ balance[from] >= amount
  /\ Destroy(from, amount)
  /\ UNCHANGED <<admin, allowance, locked>>

BurnFrom(spender, from, amount) ==
  /\ amount > 0
  /\ UseAllowance(from, spender, amount)
  /\ balance[from] >= amount
  /\ Destroy(from, amount)
  /\ UNCHANGED <<admin, locked>>

Transfer(from, to, amount) ==
  /\ amount > 0
  /\ balance[from] >= amount
  /\ Move(from, to, amount)
  /\ UNCHANGED <<admin, allowance, totalSupply, burnStats, locked>>

Approve(owner, spender, amount) ==
  /\ amount >= 0
  /\ allowance' = [allowance EXCEPT ![owner][spender] = amount]
  /\ UNCHANGED <<admin, balance, totalSupply, burnStats, locked>>

TransferFrom(spender, from, to, amount) ==
  /\ amount > 0
  /\ UseAllowance(from, spender, amount)
  /\ balance[from] >= amount
  /\ Move(from, to, amount)
  /\ UNCHANGED <<admin, totalSupply, burnStats, locked>>

\* mint_reward takes the lock; nothing in the contract gives it back.
MintReward(caller, recipient, amount) ==
  /\ ~locked
  /\ locked' = TRUE
  /\ admin # NoAdmin
  /\ caller = admin
  /\ amount > 0
  /\ Issue(recipient, amount)
  /\ UNCHANGED <<admin, allowance, burnStats>>

LedgerNext ==
  \/ \E a \in Address : Initialize(a)
  \/ \E a \in Address, n \in Amount :
       \/ Mint(a, n)
       \/ Burn(a, n)
       \/ \E b \in Address :
            \/ Transfer(a, b, n)
            \/ MintReward(a, b, n)
       \/ \E s \in Spender :
            \/ Approve(a, s, n)
            \/ BurnFrom(s, a, n)
            \/ \E b \in Address : TransferFrom(s, a, b, n)

----------------------------------------------------------------------------
\* docs/smart-contract-interaction-guide.md (778) says of the "reentrant
\* call" panic that "This should not happen in normal usage": an invocation
\* that has returned leaves the flag clear. MintReward leaves it set.
LockFreeBetweenCalls == ~locked
============================================================================
