------------------------ MODULE FinanceRules_proofs ------------------------
(***************************************************************************)
(* What the arithmetic of FinanceRules guarantees for every amount: no     *)
(* split creates or loses a hundredth, and no part exceeds the share it is *)
(* taken from.  The guards REFUND_ALLOCATION (wallet.service.js:373) and   *)
(* INVALID_DISPUTE_ALLOCATION (ledger.service.js:217) can never fire.  The *)
(* last section is about sums of amounts over a finite set.                *)
(***************************************************************************)
EXTENDS FinanceRules, FiniteSetTheorems, TLAPS

(* Integer division as the two inequalities that characterise it. *)
LEMMA DivBounds ==
  ASSUME NEW a \in Nat, NEW b \in Nat, b > 0
  PROVE  /\ a \div b \in Nat
         /\ b * (a \div b) <= a
         /\ a < b * (a \div b) + b
  OBVIOUS

(* RoundHalfUp(n, d) is within half a unit of n / d. *)
LEMMA RoundBounds ==
  ASSUME NEW n \in Nat, NEW d \in Nat, d > 0
  PROVE  /\ RoundHalfUp(n, d) \in Nat
         /\ (2 * d) * RoundHalfUp(n, d) <= 2 * n + d
         /\ 2 * n + d < (2 * d) * RoundHalfUp(n, d) + 2 * d
<1>1. 2 * n + d \in Nat /\ 2 * d \in Nat /\ 2 * d > 0
  OBVIOUS
<1> QED
  BY <1>1, DivBounds DEF RoundHalfUp

(* Rounding part * x / whole never exceeds x when part <= whole. *)
LEMMA RoundShareAtMost ==
  ASSUME NEW x \in Nat, NEW part \in Nat, NEW whole \in Nat, whole > 0,
         part <= whole
  PROVE  RoundHalfUp(x * part, whole) \in 0 .. x
<1> DEFINE q == RoundHalfUp(x * part, whole)
<1>1. x * part \in Nat /\ x * part <= x * whole
  OBVIOUS
<1>2. q \in Nat /\ (2 * whole) * q <= 2 * (x * part) + whole
  BY <1>1, RoundBounds
<1>3. (2 * whole) * q <= 2 * (x * whole) + whole
  BY <1>1, <1>2
<1>4. ASSUME q >= x + 1
      PROVE  FALSE
  <2>1. (2 * whole) * q >= (2 * whole) * (x + 1)
    BY <1>2, <1>4
  <2>2. (2 * whole) * (x + 1) = 2 * (x * whole) + 2 * whole
    OBVIOUS
  <2> QED
    BY <1>2, <1>3, <2>1, <2>2
<1> QED
  BY <1>2, <1>4

(* calculateCollaborationFinance (finance.rules.js:51-55): what the        *)
(* business pays is exactly what the creator and the platform receive.     *)
THEOREM FundingSplitIsExact ==
  ASSUME NEW terms \in [kind : {"PAID", "BARTER", "HYBRID"}, cash : Nat],
         NEW rate \in 0 .. 100, NEW barterFee \in Nat
  PROVE  LET f == CollaborationFinance(terms, rate, barterFee)
         IN  /\ f \in [payable : Nat, creator : Nat, fee : Nat]
             /\ f.payable = f.creator + f.fee
<1>1. RoundHalfUp(terms.cash * rate, 100) \in 0 .. terms.cash
  BY RoundShareAtMost
<1> QED
  BY <1>1 DEF CollaborationFinance

(* wallet.service.js:368-375: the creator's and the platform's parts of a  *)
(* refund each fit what is still pending for them.                         *)
THEOREM RefundSplitFits ==
  ASSUME NEW creator \in Nat, NEW platform \in Nat,
         NEW amount \in 1 .. (creator + platform)
  PROVE  LET share == RefundCreatorShare(creator, amount, creator + platform)
         IN  share \in 0 .. creator /\ amount - share \in 0 .. platform
<1> DEFINE r == creator + platform
           q == RoundHalfUp(creator * amount, r)
<1>1. CASE amount = r
  BY <1>1 DEF RefundCreatorShare
<1>2. CASE amount # r
  <2>1. RefundCreatorShare(creator, amount, r) = q
    BY <1>2 DEF RefundCreatorShare
  <2>2. r \in Nat /\ r > 0 /\ amount \in Nat /\ amount <= r
    OBVIOUS
  <2>3. q \in 0 .. creator
    BY <2>2, RoundShareAtMost
  <2>4. q <= amount
    <3>1. creator * amount = amount * creator
      OBVIOUS
    <3> QED
      BY <2>2, <3>1, RoundShareAtMost
  <2>5. ASSUME q <= amount - platform - 1
        PROVE  FALSE
    <3>1. 2 * (creator * amount) + r < (2 * r) * q + 2 * r
      BY <2>2, RoundBounds
    <3>2. (2 * r) * q <= (2 * r) * (amount - platform - 1)
      BY <2>2, <2>3, <2>5
    <3>3. (2 * r) * (amount - platform - 1)
            = 2 * (r * amount) - 2 * (r * platform) - 2 * r
      BY <2>2
    <3>4. r * amount = creator * amount + platform * amount
      BY <2>2
    <3>5. platform * amount <= r * platform
      BY <2>2
    <3> HIDE DEF r, q
    <3>6. /\ creator * amount \in Int /\ platform * amount \in Int
          /\ r * platform \in Int /\ r * amount \in Int /\ (2 * r) * q \in Int
      BY <2>2, <2>3
    <3> QED
      BY <2>2, <3>1, <3>2, <3>3, <3>4, <3>5, <3>6
  <2> QED
    BY <2>1, <2>3, <2>4, <2>5
<1> QED
  BY <1>1, <1>2

(* dispute.service.js:19-29 with ledger.service.js:183-219: an award gives *)
(* neither side more than its pending share, and what it takes from the    *)
(* two shares is what the business gets back.                              *)
THEOREM DisputeAwardBalances ==
  ASSUME NEW total \in Nat, total > 0, NEW fee \in 0 .. total,
         NEW percent \in 0 .. 100
  PROVE  LET a == DisputeAward(total, fee, percent)
         IN  /\ a.creator \in 0 .. (total - fee)
             /\ a.fee \in 0 .. fee
             /\ a.business \in 0 .. total
             /\ a.creator + a.fee + a.business = total
<1> DEFINE g == RoundHalfUp(total * percent, 100)
           f == RoundHalfUp(g * fee, total)
<1>1. g \in 0 .. total
  <2>1. 100 \in Nat /\ 100 > 0 /\ percent \in Nat /\ percent <= 100
    OBVIOUS
  <2> QED
    BY <2>1, RoundShareAtMost
<1>2. f \in 0 .. g
  BY <1>1, RoundShareAtMost
<1>3. f <= fee
  <2>1. g * fee = fee * g
    BY <1>1
  <2> QED
    BY <1>1, <2>1, RoundShareAtMost
<1>4. ASSUME g - f >= total - fee + 1
      PROVE  FALSE
  <2>1. 2 * (g * fee) + total < (2 * total) * f + 2 * total
    <3>1. g * fee \in Nat
      BY <1>1
    <3> QED
      BY <3>1, RoundBounds
  <2>2. f <= fee - (total - g) - 1
    BY <1>1, <1>2, <1>4
  <2>3. (2 * total) * f <= (2 * total) * (fee - (total - g) - 1)
    BY <1>1, <1>2, <2>2
  <2>4. (2 * total) * (fee - (total - g) - 1)
          = 2 * (total * fee) - 2 * (total * (total - g)) - 2 * total
    BY <1>1
  <2>5. g * fee = total * fee - fee * (total - g)
    BY <1>1
  <2>6. fee * (total - g) <= total * (total - g)
    BY <1>1
  <2> HIDE DEF g, f
  <2>7. /\ g * fee \in Int /\ total * fee \in Int /\ (2 * total) * f \in Int
        /\ fee * (total - g) \in Int /\ total * (total - g) \in Int
    BY <1>1, <1>2
  <2> QED
    BY <2>1, <2>3, <2>4, <2>5, <2>6, <2>7
<1> QED
  BY <1>1, <1>2, <1>3, <1>4 DEF DisputeAward
-----------------------------------------------------------------------------
(* The function that SumFunctionOnSet builds: the sum of f over each subset  *)
(* of S, one element at a time.                                            *)
IsSum(g, f, S) ==
  g = [s \in SUBSET S |-> IF s = {} THEN 0
        ELSE f[CHOOSE x \in s : TRUE] + g[s \ {CHOOSE x \in s : TRUE}]]

LEMMA SumUnfolded ==
  ASSUME NEW f, NEW S
  PROVE  SumFunctionOnSet(f, S) = (CHOOSE g : IsSum(g, f, S))[S]
BY DEF SumFunctionOnSet, FoldFunctionOnSet, MapThenFoldSet, IsSum

(* Induction, stated of a set of numbers rather than of a predicate. *)
LEMMA NatSetInduction ==
  ASSUME NEW T, 0 \in T, \A n \in Nat : n \in T => n + 1 \in T
  PROVE  Nat \subseteq T
<1> SUFFICES ASSUME Nat \ T # {} PROVE FALSE
  OBVIOUS
<1> DEFINE R == OpToRel(<, Nat)
<1>1. IsWellFoundedOn(R, Nat)
  BY NatLessThanWellFounded
<1>4. \A i, j \in Nat : i < j => <<i, j>> \in R
  BY DEF OpToRel
<1> HIDE DEF R
<1>2. Nat \ T \subseteq Nat
  OBVIOUS
<1>3. PICK x \in Nat \ T : \A y \in Nat \ T : ~(<<y, x>> \in R)
  BY <1>1, <1>2, WFMin
<1>5. x # 0 /\ x - 1 \in Nat /\ x - 1 < x /\ (x - 1) + 1 = x
  BY <1>3
<1>6. x - 1 \in T
  BY <1>3, <1>4, <1>5
<1> QED
  BY <1>3, <1>5, <1>6
(* There is such a function on the subsets with at most n elements. *)
Sums(f, n, S) ==
  \E g : g = [s \in {s \in SUBSET S : Cardinality(s) <= n} |->
                IF s = {} THEN 0
                ELSE f[CHOOSE x \in s : TRUE] + g[s \ {CHOOSE x \in s : TRUE}]]

LEMMA SubsetSize ==
  ASSUME NEW S, IsFiniteSet(S), NEW s \in SUBSET S
  PROVE  Cardinality(s) \in Nat /\ (s = {} <=> Cardinality(s) = 0)
BY FS_Subset, FS_CardinalityType, FS_EmptySet

(* The element that the sum takes first leaves a smaller set. *)
LEMMA SmallerSet ==
  ASSUME NEW S, IsFiniteSet(S), NEW s \in SUBSET S
  PROVE  /\ Cardinality(s) \in Nat
         /\ s # {} => /\ (CHOOSE x \in s : TRUE) \in s
                      /\ s \ {CHOOSE x \in s : TRUE} \in SUBSET S
                      /\ Cardinality(s \ {CHOOSE x \in s : TRUE}) = Cardinality(s) - 1
         /\ s = {} <=> Cardinality(s) = 0
<1>1. IsFiniteSet(s)
  BY FS_Subset
<1>2. Cardinality(s) \in Nat
  BY <1>1, FS_CardinalityType
<1>3. s # {} => (CHOOSE x \in s : TRUE) \in s
  OBVIOUS
<1>4. s = {} <=> Cardinality(s) = 0
  BY <1>1, FS_EmptySet
<1>5. ASSUME NEW x \in s
      PROVE  Cardinality(s \ {x}) = Cardinality(s) - 1
  BY <1>1, FS_RemoveElement
<1> QED
  BY <1>2, <1>3, <1>4, <1>5

(* The recursion is well defined: by induction on the size of the subsets. *)
LEMMA SumExists ==
  ASSUME NEW f, NEW S, IsFiniteSet(S)
  PROVE  \E g : IsSum(g, f, S)
<1> DEFINE T == {n \in Nat : Sums(f, n, S)}
           Upto(n) == {s \in SUBSET S : Cardinality(s) <= n}
           Least(s) == CHOOSE x \in s : TRUE
<1>1. 0 \in T
  <2> DEFINE g == [s \in Upto(0) |-> 0]
  <2>1. \A s \in Upto(0) : s = {}
    <3> SUFFICES ASSUME NEW s \in SUBSET S, Cardinality(s) <= 0
                 PROVE  s = {}
      OBVIOUS
    <3>1. Cardinality(s) \in Nat /\ (s = {} <=> Cardinality(s) = 0)
      BY SubsetSize
    <3> QED
      BY <3>1
  <2>2. g = [s \in Upto(0) |-> IF s = {} THEN 0 ELSE f[Least(s)] + g[s \ {Least(s)}]]
    BY <2>1
  <2> QED
    BY <2>2 DEF Sums
<1>2. ASSUME NEW n \in Nat, n \in T
      PROVE  n + 1 \in T
  <2>1. PICK g : g = [s \in Upto(n) |-> IF s = {} THEN 0 ELSE f[Least(s)] + g[s \ {Least(s)}]]
    BY <1>2 DEF Sums
  <2> DEFINE h == [s \in Upto(n + 1) |-> IF s = {} THEN 0 ELSE f[Least(s)] + g[s \ {Least(s)}]]
  <2>2. ASSUME NEW s \in Upto(n)
        PROVE  h[s] = g[s]
    <3>1. s \in Upto(n + 1)
      <4>1. s \in SUBSET S /\ Cardinality(s) <= n
        OBVIOUS
      <4>2. Cardinality(s) \in Nat
        BY <4>1, SubsetSize
      <4> QED
        BY <4>1, <4>2
    <3> QED
      BY <2>1, <3>1
  <2>3. ASSUME NEW s \in Upto(n + 1), s # {}
        PROVE  s \ {Least(s)} \in Upto(n)
    <3>1. /\ Cardinality(s) \in Nat /\ Cardinality(s) <= n + 1
          /\ s \ {Least(s)} \in SUBSET S
          /\ Cardinality(s \ {Least(s)}) = Cardinality(s) - 1
      BY <2>3, SmallerSet
    <3> QED
      BY <3>1
  <2>4. ASSUME NEW s \in Upto(n + 1)
        PROVE  h[s] = IF s = {} THEN 0 ELSE f[Least(s)] + h[s \ {Least(s)}]
    <3>1. h[s] = IF s = {} THEN 0 ELSE f[Least(s)] + g[s \ {Least(s)}]
      OBVIOUS
    <3>2. s # {} => h[s \ {Least(s)}] = g[s \ {Least(s)}]
      BY <2>2, <2>3
    <3> HIDE DEF h, Least
    <3> QED
      BY <3>1, <3>2
  <2>5. h = [s \in Upto(n + 1) |-> IF s = {} THEN 0 ELSE f[Least(s)] + h[s \ {Least(s)}]]
    <3> DEFINE k == [s \in Upto(n + 1) |-> IF s = {} THEN 0 ELSE f[Least(s)] + h[s \ {Least(s)}]]
    <3>1. \A s \in Upto(n + 1) : h[s] = k[s]
      BY <2>4
    <3>2. h = [s \in Upto(n + 1) |-> h[s]] /\ k = [s \in Upto(n + 1) |-> k[s]]
      OBVIOUS
    <3> HIDE DEF h, k
    <3>3. h = k
      BY <3>1, <3>2
    <3> QED
      BY <3>3 DEF k
  <2>6. Sums(f, n + 1, S)
    <3> HIDE DEF h
    <3> QED
      BY <2>5 DEF Sums
  <2> QED
    BY <2>6
<1>3. Cardinality(S) \in Nat
  BY FS_CardinalityType
<1>4. Sums(f, Cardinality(S), S)
  <2> HIDE DEF T
  <2>1. Nat \subseteq T
    BY <1>1, <1>2, NatSetInduction
  <2> QED
    BY <1>3, <2>1 DEF T
<1>5. Upto(Cardinality(S)) = SUBSET S
  BY FS_Subset
<1> QED
  BY <1>4, <1>5 DEF Sums, IsSum

LEMMA SumEquation ==
  ASSUME NEW f, NEW S, IsFiniteSet(S)
  PROVE  \E g : /\ IsSum(g, f, S)
                /\ SumFunctionOnSet(f, S) = g[S]
BY SumExists, SumUnfolded

(* Before anything is funded the sum is zero. *)
LEMMA SumOfZeros ==
  ASSUME NEW f, NEW S, IsFiniteSet(S), \A x \in S : f[x] = 0
  PROVE  SumFunctionOnSet(f, S) = 0
<1>1. PICK g : /\ IsSum(g, f, S)
               /\ SumFunctionOnSet(f, S) = g[S]
  BY SumEquation
<1> DEFINE T == {n \in Nat : \A s \in SUBSET S : Cardinality(s) = n => g[s] = 0}
<1>2. 0 \in T
  BY <1>1, SmallerSet DEF IsSum
<1>3. ASSUME NEW n \in Nat, n \in T
      PROVE  n + 1 \in T
  <2> SUFFICES ASSUME NEW s \in SUBSET S, Cardinality(s) = n + 1
               PROVE  g[s] = 0
    OBVIOUS
  <2> DEFINE x == CHOOSE x \in s : TRUE
  <2>1. s # {} /\ x \in s /\ s \ {x} \in SUBSET S /\ Cardinality(s \ {x}) = n
    BY SmallerSet
  <2>2. g[s] = f[x] + g[s \ {x}]
    BY <1>1, <2>1 DEF IsSum
  <2> HIDE DEF x
  <2> QED
    BY <1>3, <2>1, <2>2
<1>4. Cardinality(S) \in Nat
  BY FS_CardinalityType
<1> HIDE DEF T
<1>5. Cardinality(S) \in T
  BY <1>2, <1>3, <1>4, NatSetInduction
<1> QED
  BY <1>1, <1>5 DEF T

(* One account of the sum changes: the sum changes by as much, whichever   *)
(* order it is taken in.                                                   *)
LEMMA SumChange ==
  ASSUME NEW f, NEW h, NEW S, IsFiniteSet(S), NEW c,
         \A x \in S : f[x] \in Int /\ h[x] \in Int,
         \A x \in S \ {c} : h[x] = f[x]
  PROVE  /\ SumFunctionOnSet(f, S) \in Int
         /\ SumFunctionOnSet(h, S) =
              SumFunctionOnSet(f, S) + (IF c \in S THEN h[c] - f[c] ELSE 0)
<1>1. PICK g : /\ IsSum(g, f, S)
               /\ SumFunctionOnSet(f, S) = g[S]
  BY SumEquation
<1>2. PICK k : /\ IsSum(k, h, S)
               /\ SumFunctionOnSet(h, S) = k[S]
  BY SumEquation
<1> DEFINE Changed(s) == /\ g[s] \in Int
                         /\ k[s] = g[s] + (IF c \in s THEN h[c] - f[c] ELSE 0)
           T == {n \in Nat : \A s \in SUBSET S : Cardinality(s) = n => Changed(s)}
<1>3. 0 \in T
  BY <1>1, <1>2, SmallerSet DEF IsSum
<1>4. ASSUME NEW n \in Nat, n \in T
      PROVE  n + 1 \in T
  <2> SUFFICES ASSUME NEW s \in SUBSET S, Cardinality(s) = n + 1
               PROVE  Changed(s)
    OBVIOUS
  <2> DEFINE x == CHOOSE x \in s : TRUE
             r == s \ {x}
  <2>1. s # {} /\ x \in s /\ r \in SUBSET S /\ Cardinality(r) = n
    BY SmallerSet
  <2>2. g[s] = f[x] + g[r] /\ k[s] = h[x] + k[r]
    BY <1>1, <1>2, <2>1 DEF IsSum
  <2>3. Changed(r)
    BY <1>4, <2>1
  <2>4. c \in r <=> c \in s /\ c # x
    OBVIOUS
  <2>5. x \in S /\ f[x] \in Int /\ h[x] \in Int
    BY <2>1
  <2> HIDE DEF x, r
  <2>6. CASE c = x
    BY <2>1, <2>2, <2>3, <2>4, <2>5, <2>6
  <2>7. CASE c # x /\ c \in s
    <3>1. h[x] = f[x] /\ f[c] \in Int /\ h[c] \in Int
      BY <2>5, <2>7
    <3> QED
      BY <2>2, <2>3, <2>4, <2>5, <2>7, <3>1
  <2>8. CASE c # x /\ c \notin s
    <3>1. h[x] = f[x]
      BY <2>5, <2>8
    <3> QED
      BY <2>2, <2>3, <2>4, <2>5, <2>8, <3>1
  <2> QED
    BY <2>6, <2>7, <2>8
<1>5. Cardinality(S) \in Nat
  BY FS_CardinalityType
<1>6. Cardinality(S) \in T
  <2> HIDE DEF T
  <2> QED BY <1>3, <1>4, <1>5, NatSetInduction
<1> QED
  BY <1>1, <1>2, <1>6
=============================================================================
