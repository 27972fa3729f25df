----------------------------- MODULE Upgradable -----------------------------
(***************************************************************************)
(* The upgrades of a contract that follows contracts/shared/src/lib.rs:    *)
(* its code, the history for rollbacks, the versions and whom it obeys.    *)
(*                                                                         *)
(* A contract is deployed and initialised under the governance contract.   *)
(* From then on others intervene: initialize does not ask whether it ran   *)
(* before, so anyone may run it again and become the admin; the admin may  *)
(* name another governance address, which then upgrades and rolls back by  *)
(* itself, and may replace the code by the upgrade of two arguments, which *)
(* keeps no history. Who the admin is makes no difference to the states    *)
(* reached: there always is one.                                           *)
(***************************************************************************)
EXTENDS Integers, Sequences

CONSTANTS
  Target,           \* contracts that can be upgraded
  Wasm,             \* hashes of contract code
  Genesis,          \* the code every target is deployed with
  MaxInterventions  \* bound: interventions of others than the governance contract

ASSUME UpgradableAssumption == Genesis \in Wasm /\ MaxInterventions \in Nat

VARIABLES
  code,          \* per target: its code, WasmHistory, versions and Governance
  touched,       \* history: per target, the kinds of interventions so far
  interventions  \* history: their number, for the bound

targetVars == <<code, touched, interventions>>

\* What DataKey::Governance names: the governance contract or another address.
Governor == {"contract", "other"}

\* Re-initialised; another governance address named; code replaced by the admin.
Touch == {"reset", "moved", "patched"}

CodeRecord ==
  [wasm : Wasm, history : Seq(Wasm), version : Nat, migrated : Nat, governance : Governor]

TargetTypeOK ==
  /\ code \in [Target -> CodeRecord]
  /\ touched \in [Target -> SUBSET Touch]
  /\ interventions \in 0..MaxInterventions

TargetInit ==
  /\ code = [c \in Target |-> [wasm |-> Genesis, history |-> <<>>, version |-> 1,
                               migrated |-> 1, governance |-> "contract"]]
  /\ touched = [c \in Target |-> {}]
  /\ interventions = 0

----------------------------------------------------------------------------
\* Faulty variant of Upgraded: the new code is remembered, not the old.
UpgradedForgetful(r, new_wasm_hash) ==
  [r EXCEPT !.wasm = new_wasm_hash,
            !.history = Append(@, new_wasm_hash),
            !.version = @ + 1]

\* What upgrade of one argument makes of a target.
Upgraded(r, new_wasm_hash) ==
  [r EXCEPT !.wasm = new_wasm_hash,
            !.history = Append(@, r.wasm),
            !.version = @ + 1]

\* What rollback makes of it: the version counts on.
RolledBack(r) ==
  [r EXCEPT !.wasm = r.history[Len(r.history)],
            !.history = SubSeq(@, 1, Len(@) - 1),
            !.version = @ + 1]

\* What initialize makes of it: the code and its history stay.
Initialized(r, governance) ==
  [r EXCEPT !.governance = governance, !.version = 1, !.migrated = 1]

\* upgrade wants the authorisation of the governance: the governance contract
\* succeeds as long as the target obeys it.
GovernedUpgrade(target, new_wasm_hash) ==
  /\ code[target].governance = "contract"
  /\ code' = [code EXCEPT ![target] = Upgraded(@, new_wasm_hash)]
  /\ UNCHANGED <<touched, interventions>>

\* migrate, called by the admin.
MigrateTarget(target) ==
  /\ code[target].version > code[target].migrated
  /\ code' = [code EXCEPT ![target].migrated = code[target].version]
  /\ UNCHANGED <<touched, interventions>>

Intervene(target, kinds) ==
  /\ interventions < MaxInterventions
  /\ interventions' = interventions + 1
  /\ touched' = [touched EXCEPT ![target] = @ \cup kinds]

Moves(governance) == IF governance = "other" THEN {"moved"} ELSE {}

\* initialize once more.
Reinitialize(target, governance) ==
  /\ code' = [code EXCEPT ![target] = Initialized(@, governance)]
  /\ Intervene(target, {"reset"} \cup Moves(governance))

SetGovernance(target, governance) ==
  /\ code' = [code EXCEPT ![target].governance = governance]
  /\ Intervene(target, Moves(governance))

\* upgrade of one argument, authorised by another governance address.
UpgradeByOther(target, new_wasm_hash) ==
  /\ code[target].governance = "other"
  /\ code' = [code EXCEPT ![target] = Upgraded(@, new_wasm_hash)]
  /\ Intervene(target, {})

\* rollback. The governance contract has no entry point that calls it.
Rollback(target) ==
  /\ code[target].governance = "other"
  /\ code[target].history # <<>>
  /\ code' = [code EXCEPT ![target] = RolledBack(@)]
  /\ Intervene(target, {})

\* upgrade of two arguments, by the admin.
UpgradeByAdmin(target, new_wasm_hash) ==
  /\ code' = [code EXCEPT ![target].wasm = new_wasm_hash]
  /\ Intervene(target, {"patched"})

TargetNext ==
  \E c \in Target :
    \/ MigrateTarget(c)
    \/ \E g \in Governor : Reinitialize(c, g) \/ SetGovernance(c, g)
    \/ \E w \in Wasm : UpgradeByOther(c, w) \/ UpgradeByAdmin(c, w)
    \/ Rollback(c)
=============================================================================
