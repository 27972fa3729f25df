---------------------------- MODULE LiquidityPool ----------------------------
(***************************************************************************)
(* The liquidity pool contract (contracts/liquidity_pool/src/lib.rs). The  *)
(* contract keeps the books and moves no tokens yet. Its configuration     *)
(* never changes: the fee is what initialize sets, and nothing is disabled.*)
(* The swap history, which is only appended to, and the mining rewards,    *)
(* which are computed and forgotten, are left out.                         *)
(*                                                                         *)
(* The minima a caller asks for only refuse: every step is one for a       *)
(* caller who asks for none. Only swap looks at the sign of an amount. Two *)
(* negative amounts have a positive product, hence a root: a first         *)
(* provision of them mints shares and takes from the reserves, and shares  *)
(* may then be withdrawn in negative numbers too.                          *)
(***************************************************************************)
EXTENDS Integers, FiniteSets

CONSTANTS
  Provider,
  PoolAmount,        \* the amounts callers pass, of either sign
  MinimumLiquidity,  \* MINIMUM_LIQUIDITY
  FeeNumerator, FeeDenominator,
  MaxReserve         \* bound: what a reserve, on either side, and the shares grow to

ASSUME PoolAssumption ==
  /\ IsFiniteSet(Provider)  \* of 32-byte addresses
  /\ PoolAmount \subseteq Int
  /\ {MinimumLiquidity, FeeNumerator, FeeDenominator, MaxReserve} \subseteq Nat
  /\ FeeNumerator < FeeDenominator

VARIABLES
  reserveA, reserveB,  \* DataKey::ReserveA, ReserveB
  totalLiquidity,      \* DataKey::TotalLiquidity
  liquidity,           \* DataKey::Liquidity(provider)
  borrowers            \* history: the providers of negative amounts

poolVars == <<reserveA, reserveB, totalLiquidity, liquidity, borrowers>>

Reserve == -MaxReserve..MaxReserve

PoolTypeOK ==
  /\ {reserveA, reserveB} \subseteq Reserve
  /\ totalLiquidity \in 0..MaxReserve /\ liquidity \in [Provider -> 0..MaxReserve]
  /\ borrowers \subseteq Provider

PoolInit ==
  /\ reserveA = 0 /\ reserveB = 0 /\ totalLiquidity = 0
  /\ liquidity = [p \in Provider |-> 0]
  /\ borrowers = {}

----------------------------------------------------------------------------
\* sqrt: Newton's iteration, from z = (x + 1) / 2 as long as it falls.
Sqrt(x) ==
  LET fall[y \in Nat, z \in Nat] == IF z < y THEN fall[z, (x \div z + z) \div 2] ELSE y
  IN  IF x <= 1 THEN x ELSE fall[x, (x + 1) \div 2]

\* What it computes.
IsRoot(r, x) == r * r <= x /\ x < (r + 1) * (r + 1)

\* Division of i128 rounds towards zero.
Quotient(x, y) ==
  LET Size(n) == IF n < 0 THEN -n ELSE n
  IN  IF (x < 0) = (y < 0) THEN Size(x) \div Size(y) ELSE -(Size(x) \div Size(y))

Quote(amount, from, to) == Quotient(amount * to, from)

\* The shares minted are the caller's; MINIMUM_LIQUIDITY is noted under
\* another key and not part of the total.
Provide(p, a, b, minted) ==
  /\ minted > 0
  /\ reserveA' = reserveA + a /\ reserveB' = reserveB + b
  /\ totalLiquidity' = totalLiquidity + minted
  /\ liquidity' = [liquidity EXCEPT ![p] = @ + minted]
  /\ borrowers' = borrowers \cup {q \in {p} : a < 0 \/ b < 0}

\* A product below zero has no root: sqrt returns it as it is, and no shares
\* are minted for it.
ProvideFirst(p, a, b) ==
  /\ totalLiquidity = 0
  /\ \E r \in 0..(a * b) : IsRoot(r, a * b) /\ Provide(p, a, b, r - MinimumLiquidity)

\* Faulty variant of Minted: what both amounts are worth on average.
MintedOnAverage(a, b) ==
  Quotient(Quotient(a * totalLiquidity, reserveA) + Quotient(b * totalLiquidity, reserveB) + 1, 2)

\* The lesser of what the two amounts are worth.
Minted(a, b) ==
  LET forA == Quotient(a * totalLiquidity, reserveA)
      forB == Quotient(b * totalLiquidity, reserveB)
  IN  IF forA <= forB THEN forA ELSE forB

\* The ratio of the reserves is kept: one of the two amounts is reduced.
ProvideMore(p, a, b) ==
  /\ totalLiquidity # 0 /\ reserveA > 0 /\ reserveB > 0
  /\ LET forA == Quote(a, reserveA, reserveB)
         forB == Quote(b, reserveB, reserveA)
     IN  \/ forA <= b /\ Provide(p, a, forA, Minted(a, forA))
         \/ forA > b /\ forB <= a /\ Provide(p, forB, b, Minted(forB, b))

RemoveLiquidity(p, shares) ==
  LET a == Quotient(shares * reserveA, totalLiquidity)
      b == Quotient(shares * reserveB, totalLiquidity)
  IN  /\ totalLiquidity # 0 /\ liquidity[p] >= shares
      /\ a > 0 /\ b > 0
      /\ reserveA' = reserveA - a /\ reserveB' = reserveB - b
      /\ totalLiquidity' = totalLiquidity - shares
      /\ liquidity' = [liquidity EXCEPT ![p] = @ - shares]
      /\ UNCHANGED borrowers

WithFee(amount) == amount * (FeeDenominator - FeeNumerator)

AmountOut(amount, from, to) ==
  Quotient(WithFee(amount) * to, from * FeeDenominator + WithFee(amount))

\* The division fails when a reserve below zero and the amount cancel out.
CanSwap(amount, from, to) ==
  /\ amount > 0 /\ from * FeeDenominator + WithFee(amount) # 0
  /\ AmountOut(amount, from, to) <= to

SwapBstForXlm(amount) ==
  /\ CanSwap(amount, reserveA, reserveB)
  /\ reserveA' = reserveA + amount
  /\ reserveB' = reserveB - AmountOut(amount, reserveA, reserveB)
  /\ UNCHANGED <<totalLiquidity, liquidity, borrowers>>

SwapXlmForBst(amount) ==
  /\ CanSwap(amount, reserveB, reserveA)
  /\ reserveB' = reserveB + amount
  /\ reserveA' = reserveA - AmountOut(amount, reserveB, reserveA)
  /\ UNCHANGED <<totalLiquidity, liquidity, borrowers>>

\* The bound on what is enumerated: the numbers of the contract have 128 bits.
Bounded == {reserveA', reserveB'} \subseteq Reserve /\ totalLiquidity' <= MaxReserve

PoolNext ==
  /\ \/ \E p \in Provider, a, b \in PoolAmount : ProvideFirst(p, a, b) \/ ProvideMore(p, a, b)
     \/ \E p \in Provider, n \in PoolAmount : RemoveLiquidity(p, n)
     \/ \E n \in PoolAmount : SwapBstForXlm(n) \/ SwapXlmForBst(n)
  /\ Bounded

PoolSpec == PoolInit /\ [][PoolNext]_poolVars

----------------------------------------------------------------------------
\* As long as nobody provided a negative amount, no reserve behind shares is
\* ever empty. And behind reserves above zero, however they came about, the
\* reserves behind a share never shrink: for x shares before and y after a
\* step, the product of the reserves is worth at least as much per squared
\* share as before, whatever is rounded in provisions, withdrawals and swaps,
\* and whatever the sign of what is asked for.
SharesKeepTheirValue ==
  [][/\ totalLiquidity' > 0 /\ borrowers' = {} => reserveA' > 0 /\ reserveB' > 0
     /\ totalLiquidity > 0 /\ totalLiquidity' > 0 /\ reserveA > 0 /\ reserveB > 0 =>
          /\ reserveA' > 0 /\ reserveB' > 0
          /\ (reserveA' * reserveB') * (totalLiquidity * totalLiquidity)
               >= (reserveA * reserveB) * (totalLiquidity' * totalLiquidity')]_poolVars
=============================================================================
