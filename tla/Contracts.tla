----------------------------- MODULE Contracts -----------------------------
(***************************************************************************)
(* The contracts beside the token that keep state over many calls: the     *)
(* governance contract, the liquidity pool and the grants contract. They   *)
(* share no storage, so a behaviour exercises one of them, its focus.      *)
(***************************************************************************)
EXTENDS Governance, LiquidityPool, Grants

VARIABLE focus

contractVars == <<focus, vars, poolVars, grantVars>>

ContractsTypeOK == TypeOK /\ PoolTypeOK /\ GrantTypeOK

ContractsInit ==
  /\ focus \in {"governance", "pool", "grants"}
  /\ Init /\ PoolInit /\ GrantInit

ContractsNext ==
  /\ UNCHANGED focus
  /\ \/ focus = "governance" /\ Next /\ UNCHANGED <<poolVars, grantVars>>
     \/ focus = "pool" /\ PoolNext /\ UNCHANGED <<vars, grantVars>>
     \/ focus = "grants" /\ GrantNext /\ UNCHANGED <<vars, poolVars>>

ContractsSpec == ContractsInit /\ [][ContractsNext]_contractVars
=============================================================================
