--------------------------- MODULE ContractProofs ---------------------------
(***************************************************************************)
(* Safety of the liquidity pool and of the grants, for every fee, minimum  *)
(* and amount, and with GovernanceProofs the types of all three contracts. *)
(*                                                                         *)
(* The reserves behind a share never shrink (SharesKeepTheirValue). The    *)
(* argument is about roundings: each entry point divides once per amount,  *)
(* towards zero, and what it rounds off stays in the pool. The products    *)
(* are taken apart in the lemmas. As long as nobody provided a negative    *)
(* amount the total of the shares stays under the geometric mean of the    *)
(* reserves (Solid); the shares add up to it whatever is asked for.        *)
(*                                                                         *)
(* A grant is never paid more than was set (GrantsPayWhatWasSet): a step   *)
(* changes one milestone, hence one summand of what is due.                *)
(***************************************************************************)
EXTENDS GovernanceProofs, Sums

USE PoolAssumption

----------------------------------------------------------------------------
(* Integers.                                                               *)

\* Division rounds down.
LEMMA RoundedDown ==
  ASSUME NEW n \in Int, NEW d \in Int, d > 0
  PROVE  n \div d \in Int /\ (n \div d) * d <= n
  OBVIOUS

\* A number that is not negative stays so when divided.
LEMMA NaturalQuotient ==
  ASSUME NEW n \in Int, NEW d \in Int, d > 0, n >= 0
  PROVE  n \div d \in Int /\ n \div d >= 0
  OBVIOUS

\* Products of numbers with a sign.
LEMMA Signs ==
  ASSUME NEW x \in Int, NEW y \in Int
  PROVE  /\ x * y \in Int
         /\ x > 0 /\ y > 0 => x * y > 0
         /\ x >= 0 /\ y >= 0 => x * y >= 0
         /\ x > 0 /\ y < 0 => x * y < 0
  OBVIOUS

\* Multiplication by a number that is not negative keeps an order.
LEMMA Monotone ==
  ASSUME NEW x \in Int, NEW y \in Int, NEW z \in Int, x <= y, z >= 0
  PROVE  x * z <= y * z
  OBVIOUS

\* A positive factor cancels.
LEMMA Cancel ==
  ASSUME NEW x \in Int, NEW y \in Int, NEW z \in Int, x * z <= y * z, z > 0
  PROVE  x <= y
  OBVIOUS

\* Two comparisons multiplied.
LEMMA Multiplied ==
  ASSUME NEW x \in Int, NEW y \in Int, NEW u \in Int, NEW v \in Int,
         x >= y, y >= 0, u >= v, v >= 0
  PROVE  x * u >= y * v
<1>1. y * u <= x * u
  BY Monotone
<1>2. v * y <= u * y
  BY Monotone
<1> QED
  BY <1>1, <1>2

----------------------------------------------------------------------------
(* What one share stands for.                                              *)

\* If each reserve keeps up with the shares, so does their product.
LEMMA BothKeepUp ==
  ASSUME NEW A \in Int, NEW B \in Int, NEW T \in Int,
         NEW A2 \in Int, NEW B2 \in Int, NEW T2 \in Int,
         A >= 0, B >= 0, T2 >= 0, A2 * T >= A * T2, B2 * T >= B * T2
  PROVE  (A2 * B2) * (T * T) >= (A * B) * (T2 * T2)
<1>1. A * T2 >= 0 /\ B * T2 >= 0
  BY Signs
<1>2. A2 * T \in Int /\ A * T2 \in Int /\ B2 * T \in Int /\ B * T2 \in Int
  OBVIOUS
<1>3. (A2 * T) * (B2 * T) >= (A * T2) * (B * T2)
  BY <1>1, <1>2, Multiplied
<1>4. (A2 * T) * (B2 * T) = (A2 * B2) * (T * T)
  OBVIOUS
<1>5. (A * T2) * (B * T2) = (A * B) * (T2 * T2)
  OBVIOUS
<1> QED
  BY <1>3, <1>4, <1>5

\* A provision: no more shares are minted than either amount is worth.
LEMMA Provided ==
  ASSUME NEW R \in Int, NEW T \in Int, NEW a \in Int, NEW m \in Int,
         R > 0, m <= (a * T) \div R
  PROVE  (R + a) * T >= R * (T + m)
<1>1. a * T \in Int
  OBVIOUS
<1>2. (a * T) \div R \in Int /\ ((a * T) \div R) * R <= a * T
  BY <1>1, RoundedDown
<1>3. m * R <= ((a * T) \div R) * R
  BY <1>2, Monotone
<1>4. m * R <= a * T
  BY <1>2, <1>3, <1>1
<1> QED
  BY <1>4

\* A withdrawal: no more is paid out than the shares are worth.
LEMMA Withdrawn ==
  ASSUME NEW R \in Int, NEW T \in Int, NEW s \in Int, T > 0
  PROVE  /\ (s * R) \div T \in Int
         /\ (R - (s * R) \div T) * T >= R * (T - s)
<1>1. s * R \in Int
  OBVIOUS
<1> DEFINE q == (s * R) \div T
<1>2. q \in Int /\ q * T <= s * R
  BY <1>1, RoundedDown
<1> HIDE DEF q
<1>3. (R - q) * T >= R * (T - s)
  BY <1>2
<1> QED
  BY <1>2, <1>3 DEF q

\* The quotient of the contract by a number above zero.
LEMMA QuotientOf ==
  ASSUME NEW x \in Int, NEW y \in Int, y > 0
  PROVE  /\ Quotient(x, y) \in Int
         /\ x >= 0 => Quotient(x, y) = x \div y /\ Quotient(x, y) >= 0
         /\ x <= 0 => Quotient(x, y) <= 0
<1>1. CASE x >= 0
  <2>1. Quotient(x, y) = x \div y
    BY <1>1 DEF Quotient
  <2>2. x = 0 => x \div y = 0
    OBVIOUS
  <2> QED
    BY <1>1, <2>1, <2>2, NaturalQuotient
<1>2. CASE x < 0
  <2>1. Quotient(x, y) = -((-x) \div y)
    BY <1>2 DEF Quotient
  <2>2. (-x) \div y \in Int /\ (-x) \div y >= 0
    <3>1. -x \in Int /\ -x >= 0
      BY <1>2
    <3> QED
      BY <3>1, NaturalQuotient
  <2> HIDE DEF Quotient
  <2> QED
    BY <1>2, <2>1, <2>2
<1> QED
  BY <1>1, <1>2

\* A swap: the product of the reserves does not fall.
LEMMA Swapped ==
  ASSUME NEW A \in Int, NEW B \in Int, NEW x \in Int, A >= 0, B >= 0, CanSwap(x, A, B)
  PROVE  /\ x > 0 /\ AmountOut(x, A, B) \in Int
         /\ 0 <= AmountOut(x, A, B) /\ AmountOut(x, A, B) <= B
         /\ (A + x) * (B - AmountOut(x, A, B)) >= A * B
<1> DEFINE D == FeeDenominator
           w == WithFee(x)
<1>0. x > 0 /\ AmountOut(x, A, B) <= B
  BY DEF CanSwap
<1>1. D \in Int /\ D > 0 /\ FeeNumerator \in Int /\ FeeNumerator >= 0 /\ D - FeeNumerator > 0
  OBVIOUS
<1>2. w \in Int /\ w > 0
  BY <1>0, <1>1, Signs DEF WithFee
<1>3. w <= x * D
  <2>1. D - FeeNumerator <= D
    BY <1>1
  <2>2. (D - FeeNumerator) * x <= D * x
    BY <2>1, <1>0, <1>1, Monotone
  <2> QED
    BY <2>2, <1>1 DEF WithFee
<1>4. A * D \in Int /\ A * D >= 0
  BY <1>1, Signs
<1>5. w * B \in Int /\ w * B >= 0 /\ A * D + w \in Int /\ A * D + w > 0
  BY <1>2, <1>4, Signs
<1>6. PICK out \in Int : out = AmountOut(x, A, B) /\ out >= 0 /\ out * (A * D + w) <= w * B
  <2>1. AmountOut(x, A, B) = Quotient(w * B, A * D + w)
    BY DEF AmountOut
  <2> HIDE DEF w
  <2> QED
    BY <2>1, <1>5, RoundedDown, QuotientOf
<1> HIDE DEF w, D
<1>7. (out * A) * D <= w * (B - out)
  <2>1. out * (A * D + w) = (out * A) * D + w * out
    BY <1>1, <1>2
  <2>2. w * (B - out) = w * B - w * out
    BY <1>2
  <2> QED
    BY <1>6, <2>1, <2>2, <1>1, <1>2
<1>8. w * (B - out) <= (x * D) * (B - out)
  BY <1>0, <1>3, <1>1, <1>2, <1>6, Monotone
<1>9. (out * A) * D <= (x * (B - out)) * D
  <2>1. (x * D) * (B - out) = (x * (B - out)) * D
    BY <1>1
  <2> QED
    BY <1>7, <1>8, <2>1, <1>1, <1>2
<1>10. out * A <= x * (B - out)
  BY <1>9, <1>1, Cancel
<1>11. (A + x) * (B - out) >= A * B
  BY <1>10
<1> QED
  BY <1>0, <1>6, <1>11

\* The square of the total keeps under the product of the reserves.
LEMMA UnderTheMean ==
  ASSUME NEW A \in Nat, NEW B \in Nat, NEW T \in Nat, NEW A2 \in Int, NEW B2 \in Int, NEW T2 \in Int,
         T > 0, T * T <= A * B, (A2 * B2) * (T * T) >= (A * B) * (T2 * T2)
  PROVE  T2 * T2 <= A2 * B2
<1>1. T * T \in Int /\ T * T > 0 /\ T2 * T2 \in Int /\ A * B \in Int /\ A2 * B2 \in Int
  BY Signs
<1>2. T2 * T2 >= 0
  <2>1. CASE T2 >= 0
    BY <2>1, Signs
  <2>2. CASE T2 < 0
    <3>1. -T2 \in Int /\ -T2 > 0
      BY <2>2
    <3>2. (-T2) * (-T2) > 0
      BY <3>1, Signs
    <3> QED
      BY <3>2
  <2> QED
    BY <2>1, <2>2
<1>3. (T * T) * (T2 * T2) <= (A * B) * (T2 * T2)
  BY <1>1, <1>2, Monotone
<1> DEFINE u == T * T
           v == T2 * T2
           w == A * B
           z == A2 * B2
<1>4. u * v <= w * v /\ z * u >= w * v /\ u \in Int /\ v \in Int /\ w \in Int /\ z \in Int /\ u > 0
  BY <1>1, <1>3
<1> HIDE DEF u, v, w, z
<1>5. v * u <= z * u
  BY <1>4
<1>6. v <= z
  BY <1>4, <1>5, Cancel
<1> QED
  BY <1>6 DEF v, z

----------------------------------------------------------------------------
(* The invariant of the pool.                                              *)

\* The shares of the providers add up to the total.
SharesAddUp == PoolTypeOK /\ totalLiquidity = Sum(liquidity, Provider)

\* What stands behind the shares, as long as nobody provided what is negative.
Solid ==
  borrowers = {} =>
    /\ reserveA >= 0 /\ reserveB >= 0
    /\ totalLiquidity > 0 => reserveA > 0 /\ reserveB > 0
    /\ totalLiquidity * totalLiquidity <= reserveA * reserveB

PoolBooks == SharesAddUp /\ Solid

\* What a step may do to the reserves and the shares.
Kept ==
  totalLiquidity > 0 /\ totalLiquidity' > 0 /\ reserveA > 0 /\ reserveB > 0 =>
    /\ reserveA' > 0 /\ reserveB' > 0
    /\ (reserveA' * reserveB') * (totalLiquidity * totalLiquidity)
         >= (reserveA * reserveB) * (totalLiquidity' * totalLiquidity')

LEMMA PoolTypes ==
  ASSUME PoolBooks
  PROVE  /\ reserveA \in Int /\ reserveB \in Int /\ totalLiquidity \in Nat
         /\ liquidity \in [Provider -> Nat] /\ borrowers \subseteq Provider
         /\ MaxReserve \in Nat /\ IsFiniteSet(Provider)
BY PoolAssumption DEF PoolBooks, SharesAddUp, PoolTypeOK, Reserve

\* A step that moves shares changes one provider's as it changes the total.
LEMMA SharesMove ==
  ASSUME PoolBooks, Bounded, NEW p \in Provider, NEW d \in Int,
         totalLiquidity' = totalLiquidity + d,
         liquidity' = [liquidity EXCEPT ![p] = @ + d],
         liquidity[p] + d >= 0,
         borrowers' \subseteq Provider
  PROVE  SharesAddUp'
<1>1. MaxReserve \in Nat /\ IsFiniteSet(Provider)
  BY PoolAssumption
<1>2. PICK f : f = liquidity'
  OBVIOUS
<1>3. /\ liquidity \in [Provider -> Nat] /\ f \in [Provider -> Nat]
      /\ f[p] = liquidity[p] + d /\ \A x \in Provider \ {p} : f[x] = liquidity[x]
  <2>1. liquidity \in [Provider -> Nat]
    BY PoolTypes
  <2>2. liquidity[p] + d \in Nat
    BY <2>1
  <2> QED
    BY <1>2, <2>1, <2>2
<1>4. Sum(f, Provider) = Sum(liquidity, Provider) + d
  <2>1. liquidity \in [Provider -> Int] /\ f \in [Provider -> Int]
    BY <1>3
  <2>2. Sum(f, Provider) = Sum(liquidity, Provider) + (f[p] - liquidity[p])
    BY <1>1, <1>3, <2>1, SumChanges
  <2>3. f[p] - liquidity[p] = d
    BY <1>3
  <2> QED
    BY <2>2, <2>3
<1>5. totalLiquidity' = Sum(f, Provider) /\ Sum(f, Provider) \in Nat
  BY <1>1, <1>3, <1>4, SumIsNatural DEF PoolBooks, SharesAddUp
<1>6. totalLiquidity' <= MaxReserve
  BY DEF Bounded
<1>7. liquidity' \in [Provider -> 0..MaxReserve]
  <2>1. \A x \in Provider : f[x] <= Sum(f, Provider)
    BY <1>1, <1>3, SumCovers
  <2>2. \A x \in Provider : f[x] \in 0..MaxReserve
    BY <1>1, <1>3, <1>5, <1>6, <2>1
  <2> QED
    BY <1>2, <1>3, <2>2
<1>8. PoolTypeOK'
  BY <1>1, <1>5, <1>6, <1>7 DEF PoolTypeOK, Bounded, Reserve
<1> QED
  BY <1>2, <1>5, <1>8 DEF SharesAddUp

\* What stands behind the shares stays as solid as it is.
LEMMA StaysSolid ==
  ASSUME PoolBooks, SharesAddUp', Kept, totalLiquidity > 0,
         borrowers' = {} => borrowers = {} /\ reserveA' >= 0 /\ reserveB' >= 0
  PROVE  Solid'
<1> SUFFICES ASSUME borrowers' = {}
             PROVE  /\ reserveA' >= 0 /\ reserveB' >= 0
                    /\ totalLiquidity' > 0 => reserveA' > 0 /\ reserveB' > 0
                    /\ totalLiquidity' * totalLiquidity' <= reserveA' * reserveB'
  BY DEF Solid
<1>1. /\ reserveA \in Nat /\ reserveB \in Nat /\ totalLiquidity \in Nat
      /\ reserveA > 0 /\ reserveB > 0 /\ totalLiquidity * totalLiquidity <= reserveA * reserveB
  BY PoolTypes DEF PoolBooks, Solid
<1>2. PICK A2 \in Int, B2 \in Int, T2 \in Nat :
        A2 = reserveA' /\ B2 = reserveB' /\ T2 = totalLiquidity'
  BY PoolAssumption DEF SharesAddUp, PoolTypeOK, Reserve
<1>3. A2 >= 0 /\ B2 >= 0
  BY <1>2
<1>4. CASE T2 > 0
  <2>1. /\ A2 > 0 /\ B2 > 0
        /\ (A2 * B2) * (totalLiquidity * totalLiquidity) >= (reserveA * reserveB) * (T2 * T2)
    BY <1>1, <1>2, <1>4 DEF Kept
  <2>2. T2 * T2 <= A2 * B2
    BY <1>1, <2>1, UnderTheMean
  <2> QED
    BY <1>2, <2>1, <2>2
<1>5. CASE T2 = 0
  <2>1. A2 * B2 >= 0 /\ T2 * T2 = 0
    BY <1>3, <1>5, Signs
  <2>2. T2 * T2 <= A2 * B2
    BY <2>1
  <2>3. totalLiquidity' * totalLiquidity' <= reserveA' * reserveB'
    BY <1>2, <2>2
  <2>4. totalLiquidity' = 0 /\ reserveA' >= 0 /\ reserveB' >= 0
    BY <1>2, <1>3, <1>5
  <2>5. ~(totalLiquidity' > 0)
    BY <2>4
  <2> QED
    BY <2>3, <2>4, <2>5, Zenon
<1> QED
  BY <1>4, <1>5

----------------------------------------------------------------------------
(* Provisions.                                                             *)

LEMMA ProvideFirstKeeps ==
  ASSUME PoolBooks, Bounded, NEW p \in Provider, NEW a \in PoolAmount, NEW b \in PoolAmount,
         ProvideFirst(p, a, b)
  PROVE  PoolBooks' /\ Kept
<1>1. PICK r \in 0..(a * b) : IsRoot(r, a * b) /\ Provide(p, a, b, r - MinimumLiquidity)
  BY DEF ProvideFirst
<1>2. totalLiquidity = 0
  BY DEF ProvideFirst
<1>3. a \in Int /\ b \in Int /\ MinimumLiquidity \in Nat
  BY PoolAssumption
<1>4. a * b \in Int /\ r \in Int
  BY <1>3
<1>5. PICK m \in Int : m = r - MinimumLiquidity
  BY <1>3, <1>4
<1>6. reserveA \in Int /\ reserveB \in Int /\ liquidity[p] \in Nat /\ borrowers \subseteq Provider
  BY PoolTypes
<1>7. /\ m > 0
      /\ reserveA' = reserveA + a /\ reserveB' = reserveB + b
      /\ totalLiquidity' = m
      /\ totalLiquidity' = totalLiquidity + m
      /\ liquidity' = [liquidity EXCEPT ![p] = @ + m]
      /\ borrowers' = borrowers \cup {q \in {p} : a < 0 \/ b < 0}
  BY <1>1, <1>2, <1>5 DEF Provide
<1>8. SharesAddUp'
  <2>1. borrowers' \subseteq Provider /\ liquidity[p] + m >= 0
    BY <1>6, <1>7
  <2> QED
    BY <1>7, <2>1, SharesMove
<1>9. m * m <= r * r /\ r * r <= a * b
  <2>1. r >= m
    BY <1>3, <1>4, <1>5
  <2>2. m * m <= r * r
    BY <1>4, <1>7, <2>1, Multiplied
  <2> QED
    BY <1>1, <2>2 DEF IsRoot
<1>10. a * b > 0
  <2>1. m * m \in Int /\ m * m > 0 /\ r * r \in Int
    BY <1>4, <1>7, Signs
  <2> QED
    BY <1>4, <1>9, <2>1
<1>11. Solid'
  <2> SUFFICES ASSUME borrowers' = {}
               PROVE  /\ reserveA' > 0 /\ reserveB' > 0
                      /\ totalLiquidity' * totalLiquidity' <= reserveA' * reserveB'
    BY <1>3, <1>6, <1>7 DEF Solid
  <2>1. borrowers = {} /\ ~(a < 0 \/ b < 0)
    BY <1>7
  <2>2. reserveA >= 0 /\ reserveB >= 0
    BY <2>1 DEF PoolBooks, Solid
  <2>3. a > 0 /\ b > 0
    <3>1. a # 0 /\ b # 0
      BY <1>3, <1>10
    <3> QED
      BY <1>3, <2>1, <3>1
  <2>4. a * b <= (reserveA + a) * (reserveB + b)
    <3>1. reserveA + a \in Int /\ reserveB + b \in Int /\ reserveA + a >= a /\ reserveB + b >= b
      BY <1>3, <1>6, <2>2
    <3> QED
      BY <1>3, <2>3, <3>1, Multiplied
  <2>5. m * m <= (reserveA + a) * (reserveB + b)
    <3>1. m * m \in Int /\ r * r \in Int /\ (reserveA + a) * (reserveB + b) \in Int
      BY <1>3, <1>4, <1>6
    <3> QED
      BY <1>4, <1>9, <2>4, <3>1
  <2> QED
    BY <1>3, <1>6, <1>7, <2>2, <2>3, <2>5
<1> QED
  BY <1>2, <1>8, <1>11 DEF PoolBooks, Kept

\* No shares are minted for an amount that is not above zero.
LEMMA Worth ==
  ASSUME NEW R \in Int, NEW T \in Int, NEW a \in Int, NEW m \in Int,
         R > 0, T > 0, m > 0, m <= Quotient(a * T, R)
  PROVE  a > 0 /\ m <= (a * T) \div R
<1>1. PICK x \in Int : x = a * T
  OBVIOUS
<1>2. x > 0
  <2>1. Quotient(x, R) \in Int /\ (x <= 0 => Quotient(x, R) <= 0)
    BY QuotientOf
  <2>2. m <= Quotient(x, R)
    BY <1>1
  <2> QED
    BY <2>1, <2>2
<1>3. a > 0
  <2> SUFFICES ASSUME a <= 0 PROVE FALSE
    OBVIOUS
  <2>1. a * T <= 0 * T
    BY Monotone
  <2> QED
    BY <1>1, <1>2, <2>1
<1> QED
  BY <1>1, <1>2, <1>3, QuotientOf

LEMMA ProvideMoreKeeps ==
  ASSUME PoolBooks, Bounded, NEW p \in Provider, NEW a0 \in PoolAmount, NEW b0 \in PoolAmount,
         ProvideMore(p, a0, b0)
  PROVE  PoolBooks' /\ Kept
<1> DEFINE A == reserveA
           B == reserveB
           T == totalLiquidity
<1>1. /\ A \in Int /\ B \in Int /\ T \in Int /\ A > 0 /\ B > 0 /\ T > 0
      /\ liquidity[p] \in Nat /\ borrowers \subseteq Provider
  BY PoolTypes DEF ProvideMore
<1>2. PICK a \in Int, b \in Int : Provide(p, a, b, Minted(a, b))
  <2>1. a0 \in Int /\ b0 \in Int
    BY PoolAssumption
  <2>2. Quote(a0, A, B) \in Int /\ Quote(b0, B, A) \in Int
    <3>1. a0 * B \in Int /\ b0 * A \in Int
      BY <1>1, <2>1
    <3> QED
      BY <1>1, <3>1, QuotientOf DEF Quote
  <2> QED
    BY <2>1, <2>2 DEF ProvideMore
<1>3. PICK m : m = Minted(a, b)
  OBVIOUS
<1>4. /\ m > 0 /\ T' = T + m /\ A' = A + a /\ B' = B + b
      /\ liquidity' = [liquidity EXCEPT ![p] = @ + m]
      /\ borrowers' = borrowers \cup {q \in {p} : a < 0 \/ b < 0}
  BY <1>2, <1>3 DEF Provide
<1>5. m \in Int /\ m <= Quotient(a * T, A) /\ m <= Quotient(b * T, B)
  <2>1. a * T \in Int /\ b * T \in Int
    BY <1>1
  <2>2. Quotient(a * T, A) \in Int /\ Quotient(b * T, B) \in Int
    BY <1>1, <2>1, QuotientOf
  <2> QED
    BY <1>3, <2>2 DEF Minted
<1> HIDE DEF A, B, T
<1>6. /\ a > 0 /\ m <= (a * T) \div A
      /\ b > 0 /\ m <= (b * T) \div B
  BY <1>1, <1>4, <1>5, Worth
<1>7. (A + a) * T >= A * (T + m) /\ (B + b) * T >= B * (T + m)
  BY <1>1, <1>5, <1>6, Provided
<1>8. ((A + a) * (B + b)) * (T * T) >= (A * B) * ((T + m) * (T + m))
  <2>1. /\ A + a \in Int /\ B + b \in Int /\ T + m \in Int /\ T + m >= 0
        /\ A >= 0 /\ B >= 0
    BY <1>1, <1>4, <1>5
  <2> QED
    BY <2>1, <1>1, <1>7, BothKeepUp
<1>9. Kept
  BY <1>1, <1>4, <1>6, <1>8 DEF Kept, A, B, T
<1>10. SharesAddUp'
  <2>1. borrowers' \subseteq Provider /\ liquidity[p] + m >= 0
    BY <1>1, <1>4, <1>5
  <2> QED
    BY <1>4, <1>5, <2>1, SharesMove DEF T
<1>11. Solid'
  <2>1. borrowers' = {} => borrowers = {} /\ A' >= 0 /\ B' >= 0
    BY <1>1, <1>4, <1>6
  <2> QED
    BY <1>1, <1>9, <1>10, <2>1, StaysSolid DEF A, B, T
<1> QED
  BY <1>9, <1>10, <1>11 DEF PoolBooks

----------------------------------------------------------------------------
(* Withdrawals.                                                            *)

\* Nothing above zero is paid out of a reserve above zero for less than a share.
LEMMA PaidOut ==
  ASSUME NEW R \in Int, NEW T \in Int, NEW s \in Int, R > 0, T > 0, Quotient(s * R, T) > 0
  PROVE  s > 0 /\ Quotient(s * R, T) = (s * R) \div T
<1>1. PICK x \in Int : x = s * R
  OBVIOUS
<1>2. x > 0
  <2>1. x <= 0 => Quotient(x, T) <= 0
    BY QuotientOf
  <2>2. Quotient(x, T) > 0
    BY <1>1
  <2>3. Quotient(x, T) \in Int
    BY QuotientOf
  <2> QED
    BY <2>1, <2>2, <2>3
<1>3. s > 0
  <2> SUFFICES ASSUME s <= 0 PROVE FALSE
    OBVIOUS
  <2>1. s * R <= 0 * R
    BY Monotone
  <2> QED
    BY <1>1, <1>2, <2>1
<1> QED
  BY <1>1, <1>2, <1>3, QuotientOf

\* What is left of a reserve above zero when s of T shares are withdrawn.
LEMMA Left ==
  ASSUME NEW R \in Int, NEW T \in Int, NEW s \in Int, R > 0, T > 0, s <= T,
         Quotient(s * R, T) > 0
  PROVE  /\ Quotient(s * R, T) \in Int
         /\ R - Quotient(s * R, T) >= 0
         /\ s < T => R - Quotient(s * R, T) > 0
         /\ (R - Quotient(s * R, T)) * T >= R * (T - s)
<1> DEFINE q == Quotient(s * R, T)
<1>1. s * R \in Int
  OBVIOUS
<1>2. q \in Int
  BY <1>1, QuotientOf
<1>3. (R - q) * T >= R * (T - s)
  BY PaidOut, Withdrawn
<1> HIDE DEF q
<1>4. R - q >= 0
  <2>1. R * (T - s) >= 0 * T
    BY Signs
  <2>2. 0 * T <= (R - q) * T
    BY <1>2, <1>3, <2>1
  <2> QED
    BY <2>2, <1>2, Cancel
<1>5. s < T => R - q > 0
  <2> SUFFICES ASSUME s < T PROVE R - q # 0
    BY <1>2, <1>4
  <2>1. R * (T - s) > 0
    BY Signs
  <2> QED
    BY <1>2, <1>3, <2>1
<1> QED
  BY <1>2, <1>3, <1>4, <1>5 DEF q

LEMMA RemoveLiquidityKeeps ==
  ASSUME PoolBooks, Bounded, NEW p \in Provider, NEW s \in PoolAmount, RemoveLiquidity(p, s)
  PROVE  PoolBooks' /\ Kept
<1> DEFINE A == reserveA
           B == reserveB
           T == totalLiquidity
           a == Quotient(s * A, T)
           b == Quotient(s * B, T)
<1>1. /\ A \in Int /\ B \in Int /\ T \in Int /\ T > 0 /\ s \in Int
      /\ liquidity \in [Provider -> Nat] /\ borrowers \subseteq Provider /\ IsFiniteSet(Provider)
  BY PoolTypes, PoolAssumption DEF RemoveLiquidity
<1>2. /\ liquidity[p] >= s /\ a > 0 /\ b > 0
      /\ A' = A - a /\ B' = B - b /\ T' = T - s
      /\ liquidity' = [liquidity EXCEPT ![p] = @ - s]
      /\ borrowers' = borrowers
  BY DEF RemoveLiquidity
<1>3. s <= T
  <2>1. liquidity[p] <= Sum(liquidity, Provider) /\ liquidity[p] \in Nat
    BY <1>1, SumCovers
  <2>2. T = Sum(liquidity, Provider)
    BY DEF PoolBooks, SharesAddUp
  <2> QED
    BY <1>1, <1>2, <2>1, <2>2
<1>4. ASSUME A > 0
      PROVE  a \in Int /\ A - a >= 0 /\ (s < T => A - a > 0) /\ (A - a) * T >= A * (T - s)
  BY <1>1, <1>2, <1>3, <1>4, Left
<1>5. ASSUME B > 0
      PROVE  b \in Int /\ B - b >= 0 /\ (s < T => B - b > 0) /\ (B - b) * T >= B * (T - s)
  BY <1>1, <1>2, <1>3, <1>5, Left
<1> HIDE DEF a, b, A, B, T
<1>6. Kept
  <2>1. SUFFICES ASSUME T - s > 0, A > 0, B > 0
                 PROVE  /\ A - a > 0 /\ B - b > 0
                        /\ ((A - a) * (B - b)) * (T * T) >= (A * B) * ((T - s) * (T - s))
    BY <1>2 DEF Kept, A, B, T
  <2>2. /\ A - a \in Int /\ B - b \in Int /\ T - s \in Int
        /\ (A - a) * T >= A * (T - s) /\ (B - b) * T >= B * (T - s)
    BY <1>1, <1>4, <1>5, <2>1
  <2>3. ((A - a) * (B - b)) * (T * T) >= (A * B) * ((T - s) * (T - s))
    BY <2>1, <2>2, <1>1, BothKeepUp
  <2> QED
    BY <1>1, <1>4, <1>5, <2>1, <2>3
<1>7. SharesAddUp'
  <2>1. -s \in Int /\ T' = T + (-s) /\ liquidity[p] + (-s) >= 0
    <3>1. liquidity[p] \in Nat
      BY <1>1
    <3> QED
      BY <1>1, <1>2, <3>1
  <2>2. liquidity' = [liquidity EXCEPT ![p] = @ + (-s)]
    <3>1. liquidity[p] - s = liquidity[p] + (-s)
      BY <1>1
    <3> QED
      BY <1>2, <3>1
  <2> QED
    BY <1>1, <1>2, <2>1, <2>2, SharesMove DEF T
<1>8. Solid'
  <2>1. ASSUME borrowers' = {} PROVE borrowers = {} /\ A' >= 0 /\ B' >= 0
    <3>1. A > 0 /\ B > 0
      BY <1>1, <1>2, <2>1 DEF PoolBooks, Solid, A, B, T
    <3> QED
      BY <1>2, <1>4, <1>5, <2>1, <3>1
  <2> QED
    BY <1>1, <1>6, <1>7, <2>1, StaysSolid DEF A, B, T
<1> QED
  BY <1>6, <1>7, <1>8 DEF PoolBooks

----------------------------------------------------------------------------
(* Swaps.                                                                  *)

\* A swap leaves the shares alone.
LEMMA SwapAddsUp ==
  ASSUME PoolBooks, Bounded, UNCHANGED <<totalLiquidity, liquidity, borrowers>>
  PROVE  SharesAddUp'
BY DEF PoolBooks, SharesAddUp, PoolTypeOK, Bounded

\* A swap, from the reserve X to the reserve Y, both above zero.
LEMMA SwapBetween ==
  ASSUME NEW X \in Int, NEW Y \in Int, NEW n \in Int, X > 0, Y > 0, CanSwap(n, X, Y)
  PROVE  /\ X + n > 0 /\ Y - AmountOut(n, X, Y) > 0
         /\ (X + n) * (Y - AmountOut(n, X, Y)) >= X * Y
<1>1. PICK out \in Int : out = AmountOut(n, X, Y) /\ 0 <= out /\ out <= Y
  BY Swapped
<1>2. n > 0 /\ (X + n) * (Y - out) >= X * Y
  BY <1>1, Swapped
<1>3. X * Y > 0
  BY Signs
<1>4. Y - out # 0
  <2>1. SUFFICES ASSUME Y - out = 0 PROVE FALSE
    OBVIOUS
  <2>2. (X + n) * (Y - out) = 0
    BY <2>1, <1>1
  <2> QED
    BY <2>2, <1>2, <1>3
<1> QED
  BY <1>1, <1>2, <1>4

\* The same for the pool, whichever reserve is X.
LEMMA SwapKeeps ==
  ASSUME PoolBooks, Bounded, UNCHANGED <<totalLiquidity, liquidity, borrowers>>,
         NEW X \in Int, NEW Y \in Int, NEW n \in PoolAmount, CanSwap(n, X, Y),
         \/ /\ X = reserveA /\ Y = reserveB
            /\ reserveA' = X + n /\ reserveB' = Y - AmountOut(n, X, Y)
         \/ /\ X = reserveB /\ Y = reserveA
            /\ reserveB' = X + n /\ reserveA' = Y - AmountOut(n, X, Y)
  PROVE  PoolBooks' /\ Kept
<1>1. n \in Int /\ totalLiquidity \in Nat
  BY PoolTypes, PoolAssumption
<1>2. PICK out : out = AmountOut(n, X, Y)
  OBVIOUS
<1>3. ASSUME X >= 0, Y >= 0
      PROVE  n > 0 /\ out \in Int /\ out >= 0 /\ out <= Y
  BY <1>1, <1>2, <1>3, Swapped
<1>4. ASSUME X > 0, Y > 0
      PROVE  X + n > 0 /\ Y - out > 0 /\ (X + n) * (Y - out) >= X * Y
  BY <1>1, <1>2, <1>4, SwapBetween
<1>5. Kept
  <2> SUFFICES ASSUME totalLiquidity > 0, reserveA > 0, reserveB > 0
               PROVE  /\ reserveA' > 0 /\ reserveB' > 0
                      /\ (reserveA' * reserveB') * (totalLiquidity * totalLiquidity)
                           >= (reserveA * reserveB) * (totalLiquidity * totalLiquidity)
    BY DEF Kept
  <2>1. X > 0 /\ Y > 0
    OBVIOUS
  <2>2. PICK z \in Int : z = Y - out
    BY <1>3, <2>1
  <2>3. X + n > 0 /\ z > 0 /\ (X + n) * z >= X * Y
    BY <1>4, <2>1, <2>2
  <2>4. totalLiquidity * totalLiquidity \in Int /\ totalLiquidity * totalLiquidity >= 0
    BY <1>1, Signs
  <2>5. (X + n) * z \in Int /\ X * Y \in Int
    BY <1>1
  <2>6. ((X + n) * z) * (totalLiquidity * totalLiquidity) >= (X * Y) * (totalLiquidity * totalLiquidity)
    BY <2>3, <2>4, <2>5, Monotone
  <2>7. CASE X = reserveA /\ Y = reserveB /\ reserveA' = X + n /\ reserveB' = z
    BY <2>3, <2>6, <2>7
  <2>8. CASE X = reserveB /\ Y = reserveA /\ reserveB' = X + n /\ reserveA' = z
    <3>1. reserveA' * reserveB' = (X + n) * z /\ reserveA * reserveB = X * Y
      BY <2>8, <1>1
    <3> QED
      BY <2>3, <2>6, <2>8, <3>1
  <2> QED
    BY <1>2, <2>2, <2>7, <2>8
<1>6. SharesAddUp'
  BY SwapAddsUp
<1>7. ASSUME borrowers' = {} PROVE borrowers = {} /\ reserveA' >= 0 /\ reserveB' >= 0
  <2>1. X >= 0 /\ Y >= 0
    BY <1>7 DEF PoolBooks, Solid
  <2> QED
    BY <1>1, <1>2, <1>3, <1>7, <2>1
<1>8. Solid'
  <2>1. CASE totalLiquidity > 0
    BY <1>5, <1>6, <1>7, <2>1, StaysSolid
  <2>2. CASE totalLiquidity = 0
    <3> SUFFICES ASSUME borrowers' = {}
                 PROVE  /\ reserveA' >= 0 /\ reserveB' >= 0
                        /\ totalLiquidity' * totalLiquidity' <= reserveA' * reserveB'
      BY <2>2 DEF Solid
    <3>1. PICK A2 \in Int, B2 \in Int : A2 = reserveA' /\ B2 = reserveB'
      BY <1>6 DEF SharesAddUp, PoolTypeOK, Reserve
    <3>2. A2 >= 0 /\ B2 >= 0
      BY <1>7, <3>1
    <3>3. A2 * B2 >= 0
      BY <3>2, Signs
    <3>4. totalLiquidity' * totalLiquidity' = 0
      BY <2>2
    <3> QED
      BY <3>1, <3>2, <3>3, <3>4
  <2> QED
    BY <1>1, <2>1, <2>2
<1> QED
  BY <1>5, <1>6, <1>8 DEF PoolBooks

----------------------------------------------------------------------------
LEMMA PoolStep ==
  PoolBooks /\ [PoolNext]_poolVars => PoolBooks' /\ [Kept]_poolVars
<1> SUFFICES ASSUME PoolBooks, [PoolNext]_poolVars
             PROVE  PoolBooks' /\ [Kept]_poolVars
  OBVIOUS
<1>1. CASE UNCHANGED poolVars
  BY <1>1 DEF poolVars, PoolBooks, SharesAddUp, Solid, PoolTypeOK
<1>2. ASSUME Bounded, NEW p \in Provider, NEW a \in PoolAmount, NEW b \in PoolAmount,
             ProvideFirst(p, a, b) \/ ProvideMore(p, a, b)
      PROVE  PoolBooks' /\ Kept
  BY <1>2, ProvideFirstKeeps, ProvideMoreKeeps
<1>3. ASSUME Bounded, NEW p \in Provider, NEW n \in PoolAmount, RemoveLiquidity(p, n)
      PROVE  PoolBooks' /\ Kept
  BY <1>3, RemoveLiquidityKeeps
<1>4. ASSUME Bounded, NEW n \in PoolAmount, SwapBstForXlm(n) \/ SwapXlmForBst(n)
      PROVE  PoolBooks' /\ Kept
  <2>1. reserveA \in Int /\ reserveB \in Int
    BY PoolTypes
  <2>2. CASE SwapBstForXlm(n)
    BY <1>4, <2>1, <2>2, SwapKeeps DEF SwapBstForXlm
  <2>3. CASE SwapXlmForBst(n)
    BY <1>4, <2>1, <2>3, SwapKeeps DEF SwapXlmForBst
  <2> QED
    BY <1>4, <2>2, <2>3
<1> QED
  BY <1>1, <1>2, <1>3, <1>4 DEF PoolNext

LEMMA PoolStart == PoolInit => PoolBooks
<1> SUFFICES ASSUME PoolInit PROVE PoolBooks
  OBVIOUS
<1>1. MaxReserve \in Nat /\ IsFiniteSet(Provider)
  BY PoolAssumption
<1>2. Sum(liquidity, Provider) = 0
  BY <1>1, SumOfZeros DEF PoolInit
<1>3. SharesAddUp
  BY <1>1, <1>2 DEF PoolInit, PoolTypeOK, SharesAddUp, Reserve
<1>4. Solid
  BY DEF PoolInit, Solid
<1> QED
  BY <1>3, <1>4 DEF PoolBooks

\* The shares of the providers always add up to the total, whatever the sign
\* of what is asked for. As long as nobody provided a negative amount the
\* total never exceeds the geometric mean of the reserves: no withdrawal can
\* fail because others have taken what stands behind the shares.
THEOREM BooksBalance == PoolSpec => []PoolBooks
BY PoolStart, PoolStep, PTL DEF PoolSpec

\* The pool is never worth less per share than before: whatever the fee, the
\* minimum, the providers and the amounts, of either sign, no sequence of
\* provisions, withdrawals and swaps, all of which round, takes from reserves
\* above zero what the shares of others stand for; and as long as nobody
\* provided a negative amount, the reserves behind shares are above zero.
THEOREM SharesAreSafe == PoolSpec => SharesKeepTheirValue
<1>1. PoolBooks' /\ [Kept]_poolVars =>
        [/\ totalLiquidity' > 0 /\ borrowers' = {} => reserveA' > 0 /\ reserveB' > 0
         /\ Kept]_poolVars
  BY DEF PoolBooks, Solid
<1> QED
  BY <1>1, PoolStart, PoolStep, PTL DEF PoolSpec, SharesKeepTheirValue, Kept

\* A behaviour of the contracts is one of the pool.
LEMMA PoolAmong == ContractsSpec => PoolSpec
<1>1. ContractsInit => PoolInit
  BY DEF ContractsInit
<1>2. [ContractsNext]_contractVars => [PoolNext]_poolVars
  BY DEF ContractsNext, contractVars, poolVars
<1> QED
  BY <1>1, <1>2, PTL DEF ContractsSpec, PoolSpec

\* The same of the pool beside the other contracts.
THEOREM PoolAmongContracts == ContractsSpec => SharesKeepTheirValue
BY PoolAmong, SharesAreSafe, PTL

----------------------------------------------------------------------------
(* Grants.                                                                 *)

GrantInv == GrantTypeOK /\ GrantsPayWhatWasSet

Paid == {"active", "completed"}

\* The two halves of GrantsPayWhatWasSet, with the sum as one of Sums.
Within(g) == paid[g] + Sum(Due(g), Milestone) <= promised[g]
PaidIfActive(g) == paid[g] > 0 <=> status[g] \in Paid

LEMMA GrantsForm == GrantsPayWhatWasSet <=> \A g \in Grant : Within(g) /\ PaidIfActive(g)
BY DEF GrantsPayWhatWasSet, Within, PaidIfActive, Paid, Sum, MapThenSumSet, MapThenFoldSet

MilestoneRecord == [amount : GrantAmount \cup {0}, released : BOOLEAN]

\* An open milestone promises its amount, a released one nothing.
LEMMA DueEntry ==
  ASSUME NEW r \in MilestoneRecord
  PROVE  (IF r.released THEN 0 ELSE r.amount) \in Nat
<1>1. r.amount \in GrantAmount \cup {0}
  BY DEF MilestoneRecord
<1>2. GrantAmount \cup {0} \subseteq Nat
  BY GrantsAssumption
<1>3. 0 \in Nat /\ r.amount \in Nat
  BY <1>1, <1>2
<1>4. CASE r.released
  BY <1>3, <1>4, Zenon
<1>5. CASE ~r.released
  BY <1>3, <1>5, Zenon
<1> QED
  BY <1>4, <1>5

\* A release changes one field of one milestone.
LEMMA ReleasedRecord ==
  ASSUME NEW r \in MilestoneRecord
  PROVE  [r EXCEPT !.released = TRUE] \in MilestoneRecord
BY DEF MilestoneRecord

LEMMA DueType ==
  ASSUME GrantTypeOK, NEW g \in Grant
  PROVE  Due(g) \in [Milestone -> Nat] /\ Sum(Due(g), Milestone) \in Nat
<1>1. \A m \in Milestone : milestone[g][m] \in MilestoneRecord
  BY DEF GrantTypeOK, MilestoneRecord
<1>2. Due(g) \in [Milestone -> Nat]
  BY <1>1, DueEntry DEF Due
<1> QED
  BY <1>2, SumIsNatural, GrantsAssumption

\* What changes no milestone of a grant leaves what it is due.
LEMMA DueStays ==
  ASSUME NEW g \in Grant, milestone'[g] = milestone[g]
  PROVE  Due(g)' = Due(g)
BY DEF Due

\* One milestone of a grant changes.
LEMMA DueChanges ==
  ASSUME GrantTypeOK, GrantTypeOK', NEW g \in Grant, NEW m \in Milestone,
         \A k \in Milestone \ {m} : milestone'[g][k] = milestone[g][k]
  PROVE  Sum(Due(g), Milestone)' = Sum(Due(g), Milestone) + (Due(g)[m]' - Due(g)[m])
<1> DEFINE f == Due(g)
<1>1. f \in [Milestone -> Int] /\ Due(g)' \in [Milestone -> Int]
  <2>1. \A k \in Milestone : milestone'[g][k] \in MilestoneRecord
    BY DEF GrantTypeOK, MilestoneRecord
  <2>2. Due(g)' \in [Milestone -> Int]
    BY <2>1, DueEntry DEF Due
  <2> QED
    BY <2>2, DueType
<1>2. \A k \in Milestone \ {m} : Due(g)'[k] = f[k]
  BY DEF Due
<1> HIDE DEF f
<1>3. PICK h \in [Milestone -> Int] : h = Due(g)'
  BY <1>1
<1>4. Sum(h, Milestone) = Sum(f, Milestone) + (h[m] - f[m])
  <2>1. \A k \in Milestone \ {m} : h[k] = f[k]
    BY <1>2, <1>3
  <2>2. IsFiniteSet(Milestone)
    BY GrantsAssumption
  <2> QED
    BY <1>1, <2>1, <2>2, SumChanges
<1>5. Sum(Due(g), Milestone)' = Sum(h, Milestone)
  BY <1>3
<1> QED
  BY <1>3, <1>4, <1>5 DEF f

\* A grant whose books do not change keeps them in order.
LEMMA UntouchedGrant ==
  ASSUME GrantInv, NEW g \in Grant,
         milestone'[g] = milestone[g], paid'[g] = paid[g], promised'[g] = promised[g],
         status'[g] = status[g] \/ {status[g], status'[g]} \cap Paid = {}
  PROVE  (Within(g) /\ PaidIfActive(g))'
<1>1. Within(g) /\ PaidIfActive(g)
  BY GrantsForm DEF GrantInv
<1>2. Due(g)' = Due(g)
  BY DueStays
<1>3. Sum(Due(g), Milestone)' = Sum(Due(g), Milestone)
  BY <1>2
<1>4. PaidIfActive(g)'
  BY <1>1 DEF PaidIfActive
<1> QED
  BY <1>1, <1>3, <1>4 DEF Within

LEMMA GrantFinish ==
  ASSUME GrantTypeOK', \A g \in Grant : (Within(g) /\ PaidIfActive(g))'
  PROVE  GrantInv'
<1>1. GrantsPayWhatWasSet'
  BY DEF GrantsPayWhatWasSet, Within, PaidIfActive, Paid, Sum, MapThenSumSet, MapThenFoldSet
<1> QED
  BY <1>1 DEF GrantInv

LEMMA DecideStep ==
  ASSUME GrantInv, NEW g \in Grant,
         ApplyForGrant(g) \/ ApproveGrant(g) \/ RejectGrant(g)
  PROVE  GrantInv'
<1>1. GrantTypeOK
  BY DEF GrantInv
<1>2. PICK to \in {"pending", "approved", "rejected"} :
        /\ status[g] \in {"none", "pending"}
        /\ status' = [status EXCEPT ![g] = to]
        /\ UNCHANGED <<milestone, treasury, promised, settings, paid>>
  BY DEF ApplyForGrant, ApproveGrant, RejectGrant, Decide
<1>3. GrantTypeOK'
  BY <1>1, <1>2 DEF GrantTypeOK
<1>4. ASSUME NEW h \in Grant PROVE (Within(h) /\ PaidIfActive(h))'
  <2>1. status'[h] = status[h] \/ {status[h], status'[h]} \cap Paid = {}
    BY <1>1, <1>2 DEF GrantTypeOK, Paid
  <2> QED
    BY <1>2, <2>1, UntouchedGrant
<1> QED
  BY <1>3, <1>4, GrantFinish

LEMMA SetMilestoneStep ==
  ASSUME GrantInv, NEW g \in Grant, NEW m \in Milestone, NEW n \in GrantAmount,
         SetMilestone(g, m, n)
  PROVE  GrantInv'
<1>1. GrantTypeOK
  BY DEF GrantInv
<1> DEFINE new == [amount |-> n, released |-> FALSE]
<1>2. /\ milestone' = [milestone EXCEPT ![g][m] = new]
      /\ promised' = [promised EXCEPT ![g] = @ + n]
      /\ settings[g] < MaxSettings /\ settings' = [settings EXCEPT ![g] = @ + 1]
      /\ UNCHANGED <<status, treasury, paid>>
  BY DEF SetMilestone
<1>3. n \in Nat /\ MaxSettings \in Nat
  BY GrantsAssumption
<1>4. GrantTypeOK'
  <2>1. milestone' \in [Grant -> [Milestone -> [amount : GrantAmount \cup {0}, released : BOOLEAN]]]
    BY <1>1, <1>2 DEF GrantTypeOK
  <2>2. promised' \in [Grant -> Nat]
    BY <1>1, <1>2, <1>3 DEF GrantTypeOK
  <2>3. settings' \in [Grant -> 0..MaxSettings]
    BY <1>1, <1>2, <1>3 DEF GrantTypeOK
  <2> QED
    BY <1>1, <1>2, <2>1, <2>2, <2>3 DEF GrantTypeOK
<1>5. ASSUME NEW h \in Grant, h # g PROVE (Within(h) /\ PaidIfActive(h))'
  <2>1. milestone'[h] = milestone[h] /\ promised'[h] = promised[h]
    BY <1>1, <1>2, <1>5 DEF GrantTypeOK
  <2> QED
    BY <1>2, <2>1, UntouchedGrant
<1>6. (Within(g) /\ PaidIfActive(g))'
  <2>1. milestone'[g] = [milestone[g] EXCEPT ![m] = new]
    BY <1>1, <1>2 DEF GrantTypeOK
  <2>2. /\ \A k \in Milestone \ {m} : milestone'[g][k] = milestone[g][k]
        /\ milestone'[g][m] = new
    BY <1>1, <2>1 DEF GrantTypeOK
  <2>3. Sum(Due(g), Milestone)' = Sum(Due(g), Milestone) + (Due(g)[m]' - Due(g)[m])
    BY <1>1, <1>4, <2>2, DueChanges
  <2>4. Due(g)[m]' = n
    BY <2>2 DEF Due
  <2>5. Due(g)[m] \in Nat /\ Sum(Due(g), Milestone) \in Nat
    BY <1>1, DueType
  <2>6. Within(g) /\ PaidIfActive(g)
    BY GrantsForm DEF GrantInv
  <2>7. PaidIfActive(g)'
    BY <1>2, <2>6 DEF PaidIfActive
  <2>8. paid'[g] = paid[g] /\ promised'[g] = promised[g] + n
        /\ paid[g] \in Nat /\ promised[g] \in Nat
    BY <1>1, <1>2 DEF GrantTypeOK
  <2>9. Within(g)'
    BY <1>3, <2>3, <2>4, <2>5, <2>6, <2>8 DEF Within
  <2> QED
    BY <2>7, <2>9
<1> QED
  BY <1>4, <1>5, <1>6, GrantFinish

LEMMA PayStep ==
  ASSUME GrantInv, NEW g \in Grant, NEW m \in Milestone, Pay(g, m),
         status[g] \in {"approved", "active"}
  PROVE  GrantInv'
<1>1. GrantTypeOK
  BY DEF GrantInv
<1>2. PICK n : n = milestone[g][m].amount
  OBVIOUS
<1>3. PICK to \in Paid : status' = [status EXCEPT ![g] = to]
  BY DEF Pay, Paid
<1>4. /\ n > 0 /\ ~milestone[g][m].released /\ n <= treasury
      /\ milestone' = [milestone EXCEPT ![g][m].released = TRUE]
      /\ treasury' = treasury - n
      /\ paid' = [paid EXCEPT ![g] = @ + n]
      /\ UNCHANGED <<promised, settings>>
  BY <1>2 DEF Pay, Release
<1>5. n \in Nat /\ MaxTreasury \in Nat
  BY <1>1, <1>2, GrantsAssumption DEF GrantTypeOK
<1>6. GrantTypeOK'
  <2>1. milestone' \in [Grant -> [Milestone -> [amount : GrantAmount \cup {0}, released : BOOLEAN]]]
    <3>1. milestone \in [Grant -> [Milestone -> MilestoneRecord]]
      BY <1>1 DEF GrantTypeOK, MilestoneRecord
    <3>2. PICK r \in MilestoneRecord : r = [milestone[g][m] EXCEPT !.released = TRUE]
      BY <3>1, ReleasedRecord
    <3>3. milestone' = [milestone EXCEPT ![g][m] = r]
      BY <1>4, <3>2, Zenon
    <3>4. milestone' \in [Grant -> [Milestone -> MilestoneRecord]]
      BY <3>1, <3>3
    <3> QED
      BY <3>4 DEF MilestoneRecord
  <2>2. paid' \in [Grant -> Nat]
    BY <1>1, <1>4, <1>5 DEF GrantTypeOK
  <2>3. treasury' \in 0..MaxTreasury
    BY <1>1, <1>4, <1>5 DEF GrantTypeOK
  <2>4. status' \in [Grant -> {"none", "pending", "approved", "rejected", "active", "completed"}]
    BY <1>1, <1>3 DEF GrantTypeOK, Paid
  <2> QED
    BY <1>1, <1>4, <2>1, <2>2, <2>3, <2>4 DEF GrantTypeOK
<1>7. ASSUME NEW h \in Grant, h # g PROVE (Within(h) /\ PaidIfActive(h))'
  <2>1. milestone'[h] = milestone[h] /\ paid'[h] = paid[h] /\ status'[h] = status[h]
    BY <1>1, <1>3, <1>4, <1>7 DEF GrantTypeOK
  <2> QED
    BY <1>4, <2>1, UntouchedGrant
<1>8. (Within(g) /\ PaidIfActive(g))'
  <2>1. milestone'[g] = [milestone[g] EXCEPT ![m].released = TRUE]
    BY <1>1, <1>4 DEF GrantTypeOK
  <2>2. /\ \A k \in Milestone \ {m} : milestone'[g][k] = milestone[g][k]
        /\ milestone'[g][m].released = TRUE
    BY <1>1, <2>1 DEF GrantTypeOK
  <2>3. Sum(Due(g), Milestone)' = Sum(Due(g), Milestone) + (Due(g)[m]' - Due(g)[m])
    BY <1>1, <1>6, <2>2, DueChanges
  <2>4. Due(g)[m]' = 0 /\ Due(g)[m] = n
    BY <1>2, <1>4, <2>2 DEF Due
  <2>5. Sum(Due(g), Milestone) \in Nat
    BY <1>1, DueType
  <2>6. Within(g)
    BY GrantsForm DEF GrantInv
  <2>7. paid'[g] = paid[g] + n /\ promised'[g] = promised[g]
        /\ paid[g] \in Nat /\ promised[g] \in Nat
    BY <1>1, <1>4 DEF GrantTypeOK
  <2>8. PaidIfActive(g)'
    <3>1. status'[g] \in Paid
      BY <1>1, <1>3 DEF GrantTypeOK
    <3>2. paid'[g] > 0
      BY <1>4, <1>5, <2>7
    <3> QED
      BY <3>1, <3>2 DEF PaidIfActive
  <2>9. Within(g)'
    BY <1>5, <2>3, <2>4, <2>5, <2>6, <2>7 DEF Within
  <2> QED
    BY <2>8, <2>9
<1> QED
  BY <1>6, <1>7, <1>8, GrantFinish

LEMMA GrantStep == GrantInv /\ [GrantNext]_grantVars => GrantInv'
<1> SUFFICES ASSUME GrantInv, [GrantNext]_grantVars PROVE GrantInv'
  OBVIOUS
<1>1. CASE UNCHANGED <<milestone, promised, settings, paid, status>> /\ treasury' \in 0..MaxTreasury
  <2>1. GrantTypeOK'
    BY <1>1 DEF GrantInv, GrantTypeOK
  <2>2. \A g \in Grant : (Within(g) /\ PaidIfActive(g))'
    BY <1>1, UntouchedGrant
  <2> QED
    BY <2>1, <2>2, GrantFinish
<1>2. CASE UNCHANGED grantVars
  BY <1>1, <1>2 DEF grantVars, GrantInv, GrantTypeOK
<1>3. CASE Refund
  BY <1>1, <1>3 DEF Refund
<1>4. ASSUME NEW g \in Grant, ApplyForGrant(g) \/ ApproveGrant(g) \/ RejectGrant(g)
      PROVE  GrantInv'
  BY <1>4, DecideStep
<1>5. ASSUME NEW g \in Grant, NEW m \in Milestone,
             ReleaseMilestoneFunds(g, m) \/ SubmitReport(g, m)
      PROVE  GrantInv'
  BY <1>5, PayStep DEF ReleaseMilestoneFunds, SubmitReport
<1>6. ASSUME NEW g \in Grant, NEW m \in Milestone, NEW n \in GrantAmount, SetMilestone(g, m, n)
      PROVE  GrantInv'
  BY <1>6, SetMilestoneStep
<1> QED
  BY <1>2, <1>3, <1>4, <1>5, <1>6 DEF GrantNext

LEMMA GrantStart == GrantInit => GrantInv
<1> SUFFICES ASSUME GrantInit PROVE GrantInv
  OBVIOUS
<1>1. GrantTypeOK
  BY GrantsAssumption DEF GrantInit, GrantTypeOK, Unset
<1>2. ASSUME NEW g \in Grant PROVE Within(g) /\ PaidIfActive(g)
  <2>1. Due(g) = [m \in Milestone |-> 0]
    BY DEF GrantInit, Due, Unset
  <2>2. Sum(Due(g), Milestone) = 0
    BY <2>1, SumOfZeros, GrantsAssumption
  <2>3. paid[g] = 0 /\ promised[g] = 0 /\ status[g] = "none"
    BY DEF GrantInit
  <2> QED
    BY <2>2, <2>3 DEF Within, PaidIfActive, Paid
<1> QED
  BY <1>1, <1>2, GrantsForm DEF GrantInv

LEMMA GrantsAmong == ContractsSpec => []GrantInv
<1>1. ContractsInit => GrantInv
  BY GrantStart DEF ContractsInit
<1>2. [ContractsNext]_contractVars => [GrantNext]_grantVars
  BY DEF ContractsNext, contractVars, grantVars
<1> QED
  BY <1>1, <1>2, GrantStep, PTL DEF ContractsSpec

\* What a grant has been paid and what its open milestones still promise is
\* never more than what the admin has set, for any number of grants and
\* milestones, and only approved grants are paid.
THEOREM GrantsAreCovered == ContractsSpec => []GrantsPayWhatWasSet
<1>1. GrantInv => GrantsPayWhatWasSet
  BY DEF GrantInv
<1> QED
  BY <1>1, GrantsAmong, PTL

\* The three contracts keep their types: no tally, reserve, share or treasury
\* leaves its range.
THEOREM ContractsAreTyped == ContractsSpec => []ContractsTypeOK
<1>1. IInv => TypeOK
  BY DEF IInv
<1>2. PoolBooks => PoolTypeOK
  BY DEF PoolBooks, SharesAddUp
<1>3. GrantInv => GrantTypeOK
  BY DEF GrantInv
<1>4. ContractsTypeOK <=> TypeOK /\ PoolTypeOK /\ GrantTypeOK
  BY DEF ContractsTypeOK
<1> QED
  BY <1>1, <1>2, <1>3, <1>4, GovernanceCorrect, GovernanceAmongContracts, PoolAmong,
     BooksBalance, GrantsAmong, PTL
=============================================================================
