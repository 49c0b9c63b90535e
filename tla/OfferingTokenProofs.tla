------------------------- MODULE OfferingTokenProofs -------------------------
(* Proof that the sale conserves payment tokens, for every finite set of     *)
(* token accounts.  A sum over a finite set is a recursive function on its   *)
(* subsets: what holds of it is proved from a smallest subset for which it   *)
(* would not hold, one element taken away at a time.                         *)
EXTENDS OfferingProofs

-----------------------------------------------------------------------------
(* Sums over finite sets *)

\* The sum of what f gives the elements of S, as the properties write it.
Total(f, S) == MapThenSumSet(LAMBDA w : f[w], S)

\* The element a sum over s takes first.
Pick(s) == CHOOSE x \in s : TRUE

IsRunningSum(g, f, S) ==
  g = [s \in SUBSET S |-> IF s = {} THEN 0 ELSE f[Pick(s)] + g[s \ {Pick(s)}]]

LEMMA TotalUnfolds ==
  ASSUME NEW f, NEW S
  PROVE  Total(f, S) = (CHOOSE g : IsRunningSum(g, f, S))[S]
BY DEF Total, MapThenSumSet, MapThenFoldSet, IsRunningSum, Pick

\* A set of subsets of a finite set has a smallest one.
LEMMA SmallestSubset ==
  ASSUME NEW S, IsFiniteSet(S), NEW T, T \subseteq SUBSET S, T # {}
  PROVE  \E x \in T : \A y \in T : y \subseteq x => y = x
<1>1. FiniteSubsetsOf(S) = SUBSET S
  BY FS_FiniteSubsetsOfFinite
<1>2. IsWellFoundedOn(StrictSubsetOrdering(S), SUBSET S)
  BY <1>1, FS_StrictSubsetOrderingWellFounded
<1>3. \E x \in T : \A y \in T : <<y, x>> \notin StrictSubsetOrdering(S)
  BY <1>2, WFMin
<1>4. PICK x \in T : \A y \in T : <<y, x>> \notin StrictSubsetOrdering(S)
  BY <1>3
<1>5. ASSUME NEW y \in T, y \subseteq x PROVE y = x
  <2>1. x \in SUBSET S /\ y \in SUBSET S /\ <<y, x>> \notin StrictSubsetOrdering(S)
    BY <1>4
  <2>2. <<y, x>> \in (SUBSET S) \X (SUBSET S)
    BY <2>1
  <2> QED
    BY <1>5, <2>1, <2>2 DEF StrictSubsetOrdering
<1> QED
  BY <1>5

\* g adds f up over the subsets of u, taking one element after the other.
AddsUp(g, f, u) ==
  /\ g[{}] = 0
  /\ \A s \in SUBSET u : s # {} => g[s] = f[Pick(s)] + g[s \ {Pick(s)}]

LEMMA Picked ==
  ASSUME NEW s, s # {}
  PROVE  Pick(s) \in s /\ s \ {Pick(s)} \subseteq s /\ s \ {Pick(s)} # s
BY DEF Pick

\* There is one way to add up.
LEMMA AddsUpOnce ==
  ASSUME NEW S, IsFiniteSet(S), NEW f, NEW u \in SUBSET S, NEW v \in SUBSET S,
         NEW g, NEW h, AddsUp(g, f, u), AddsUp(h, f, v)
  PROVE  \A s \in SUBSET (u \cap v) : g[s] = h[s]
<1> DEFINE T == {s \in SUBSET (u \cap v) : g[s] # h[s]}
<1> SUFFICES ASSUME T # {} PROVE FALSE
  OBVIOUS
<1>1. T \subseteq SUBSET S
  OBVIOUS
<1>2. PICK s \in T : \A r \in T : r \subseteq s => r = s
  <2> HIDE DEF T
  <2> QED
    BY <1>1, SmallestSubset
<1>3. s # {} /\ s \in SUBSET u /\ s \in SUBSET v /\ g[s] # h[s]
  BY <1>2 DEF AddsUp
<1> DEFINE r == s \ {Pick(s)}
<1>4. r \subseteq s /\ r # s
  BY <1>3, Picked
<1>5. g[s] = f[Pick(s)] + g[r] /\ h[s] = f[Pick(s)] + h[r]
  BY <1>3 DEF AddsUp
<1>6. g[r] = h[r]
  BY <1>2, <1>3, <1>4
<1> QED
  BY <1>3, <1>5, <1>6

\* Numbers can be added up.
LEMMA SumExists ==
  ASSUME NEW S, IsFiniteSet(S), NEW f \in [S -> Int]
  PROVE  \E g \in [SUBSET S -> Int] : AddsUp(g, f, S)
<1> DEFINE Good(u) == \E g \in [SUBSET u -> Int] : AddsUp(g, f, u)
           T == {u \in SUBSET S : ~ Good(u)}
<1> SUFFICES ASSUME T # {} PROVE FALSE
  OBVIOUS
<1>1. T \subseteq SUBSET S
  OBVIOUS
<1>2. PICK u \in T : \A r \in T : r \subseteq u => r = u
  <2> HIDE DEF T
  <2> QED
    BY <1>1, SmallestSubset
<1>3. u \in SUBSET S /\ ~ Good(u)
  BY <1>2
<1>4. \A v \in SUBSET u : v # u => Good(v)
  BY <1>2
<1> HIDE DEF T
<1>5. u # {}
  <2>1. Good({})
    <3> DEFINE z == [s \in SUBSET {} |-> 0]
    <3>1. z \in [SUBSET {} -> Int] /\ AddsUp(z, f, {})
      BY DEF AddsUp
    <3> QED
      BY <3>1
  <2> QED
    BY <1>3, <2>1
<1> DEFINE sum(v) == CHOOSE g \in [SUBSET v -> Int] : AddsUp(g, f, v)
           last == f[Pick(u)] + sum(u \ {Pick(u)})[u \ {Pick(u)}]
           all == [v \in SUBSET u |-> IF v = u THEN last ELSE sum(v)[v]]
<1>6. ASSUME NEW v \in SUBSET u, v # u
      PROVE  sum(v) \in [SUBSET v -> Int] /\ AddsUp(sum(v), f, v)
  BY <1>4, <1>6
<1> HIDE DEF Good
<1> HIDE DEF sum
<1>7. Pick(u) \in S /\ u \ {Pick(u)} \in SUBSET u /\ u \ {Pick(u)} # u
  BY <1>3, <1>5, Picked
<1>8. last \in Int
  <2>1. sum(u \ {Pick(u)})[u \ {Pick(u)}] \in Int
    BY <1>6, <1>7
  <2>2. f[Pick(u)] \in Int
    BY <1>7
  <2> QED
    BY <2>1, <2>2
<1>9. ASSUME NEW v \in SUBSET u, v # u PROVE sum(v)[v] \in Int
  BY <1>6, <1>9
<1>10. all \in [SUBSET u -> Int]
  <2> HIDE DEF last
  <2> QED
    BY <1>8, <1>9
<1>11. all[{}] = 0
  BY <1>5, <1>6 DEF AddsUp
<1>12. ASSUME NEW s \in SUBSET u, s # {}
       PROVE  all[s] = f[Pick(s)] + all[s \ {Pick(s)}]
  <2> DEFINE r == s \ {Pick(s)}
  <2>1. r \in SUBSET s /\ r # s /\ r \in SUBSET u /\ r # u
    BY <1>12, Picked
  <2>2. all[r] = sum(r)[r]
    BY <2>1
  <2>3. CASE s = u
    BY <2>2, <2>3
  <2>4. CASE s # u
    <3>1. all[s] = sum(s)[s] /\ AddsUp(sum(s), f, s) /\ AddsUp(sum(r), f, r)
      BY <1>6, <2>1, <2>4
    <3>2. sum(s)[s] = f[Pick(s)] + sum(s)[r]
      BY <1>12, <3>1 DEF AddsUp
    <3>3. s \in SUBSET S /\ r \in SUBSET S /\ r \in SUBSET (s \cap r)
      BY <1>3, <2>1
    <3>4. sum(s)[r] = sum(r)[r]
      <4> HIDE DEF r
      <4> QED
        BY <3>1, <3>3, AddsUpOnce
    <3> QED
      BY <2>2, <3>1, <3>2, <3>4
  <2> QED
    BY <2>3, <2>4
<1> HIDE DEF all
<1>13. AddsUp(all, f, u)
  BY <1>11, <1>12 DEF AddsUp
<1> QED
  BY <1>3, <1>10, <1>13 DEF Good

\* A total is what adding up arrives at.
LEMMA TotalAddsUp ==
  ASSUME NEW S, IsFiniteSet(S), NEW f \in [S -> Int]
  PROVE  \E g \in [SUBSET S -> Int] : AddsUp(g, f, S) /\ Total(f, S) = g[S]
<1>1. PICK g \in [SUBSET S -> Int] : AddsUp(g, f, S)
  BY SumExists
<1>2. IsRunningSum(g, f, S)
  <2>1. ASSUME NEW s \in SUBSET S
        PROVE  g[s] = IF s = {} THEN 0 ELSE f[Pick(s)] + g[s \ {Pick(s)}]
    BY <1>1 DEF AddsUp
  <2>2. DOMAIN g = SUBSET S /\ g = [s \in SUBSET S |-> g[s]]
    OBVIOUS
  <2> QED
    BY <2>1, <2>2 DEF IsRunningSum
<1> DEFINE c == CHOOSE h : IsRunningSum(h, f, S)
<1>3. IsRunningSum(c, f, S)
  BY <1>2
<1>4. Total(f, S) = c[S]
  BY TotalUnfolds
<1> HIDE DEF c
<1>5. AddsUp(c, f, S)
  <2>1. ASSUME NEW s \in SUBSET S
        PROVE  c[s] = IF s = {} THEN 0 ELSE f[Pick(s)] + c[s \ {Pick(s)}]
    BY <1>3 DEF IsRunningSum
  <2> QED
    BY <2>1 DEF AddsUp
<1>6. c[S] = g[S]
  <2>1. S \in SUBSET S /\ S \in SUBSET (S \cap S)
    OBVIOUS
  <2> QED
    BY <1>1, <1>5, <2>1, AddsUpOnce
<1> QED
  BY <1>1, <1>4, <1>6

\* Taking an amount from one element takes it from the total.
LEMMA TotalAfterDebit ==
  ASSUME NEW S, IsFiniteSet(S), NEW f \in [S -> Int], NEW b \in S, NEW amount \in Int
  PROVE  /\ Total(f, S) \in Int
         /\ Total([f EXCEPT ![b] = f[b] - amount], S) = Total(f, S) - amount
<1> DEFINE e == [f EXCEPT ![b] = f[b] - amount]
<1>1. /\ e \in [S -> Int] /\ e[b] = f[b] - amount
      /\ \A x \in S : x # b => e[x] = f[x]
  OBVIOUS
<1> HIDE DEF e
<1>2. PICK g \in [SUBSET S -> Int] : AddsUp(g, f, S) /\ Total(f, S) = g[S]
  BY TotalAddsUp
<1>3. PICK h \in [SUBSET S -> Int] : AddsUp(h, e, S) /\ Total(e, S) = h[S]
  BY <1>1, TotalAddsUp
<1> DEFINE Right(s) == h[s] = IF b \in s THEN g[s] - amount ELSE g[s]
           T == {s \in SUBSET S : ~ Right(s)}
<1>4. T = {}
  <2> SUFFICES ASSUME T # {} PROVE FALSE
    OBVIOUS
  <2>1. T \subseteq SUBSET S
    OBVIOUS
  <2>2. PICK s \in T : \A r \in T : r \subseteq s => r = s
    <3> HIDE DEF T
    <3> QED
      BY <2>1, SmallestSubset
  <2>3. s \in SUBSET S /\ ~ Right(s) /\ \A r \in SUBSET s : r # s => Right(r)
    BY <2>2
  <2> HIDE DEF T
  <2>4. s # {}
    BY <1>2, <1>3, <2>3 DEF AddsUp
  <2> DEFINE x == Pick(s)
             r == s \ {x}
  <2>5. x \in s /\ r \in SUBSET s /\ r # s
    BY <2>4, Picked
  <2>6. Right(r)
    BY <2>3, <2>5
  <2>7. g[s] = f[x] + g[r] /\ h[s] = e[x] + h[r]
    BY <1>2, <1>3, <2>3, <2>4 DEF AddsUp
  <2> HIDE DEF x
  <2>8. CASE x = b
    <3>1. b \in s /\ b \notin r
      BY <2>5, <2>8
    <3>2. h[r] = g[r] /\ e[x] = f[x] - amount
      BY <1>1, <2>6, <2>8, <3>1
    <3>3. f[x] \in Int /\ g[r] \in Int
      BY <2>3, <2>5
    <3>4. h[s] = g[s] - amount
      <4> HIDE DEF r
      <4> QED
        BY <2>7, <3>2, <3>3
    <3> QED
      BY <2>3, <3>1, <3>4
  <2>9. CASE x # b
    <3>1. b \in r <=> b \in s
      BY <2>9
    <3>2. h[r] = (IF b \in s THEN g[r] - amount ELSE g[r]) /\ e[x] = f[x]
      BY <1>1, <2>3, <2>5, <2>6, <2>9, <3>1
    <3>3. f[x] \in Int /\ g[r] \in Int
      BY <2>3, <2>5
    <3>4. h[s] = IF b \in s THEN g[s] - amount ELSE g[s]
      <4> HIDE DEF r
      <4> QED
        BY <2>7, <3>2, <3>3
    <3> QED
      BY <2>3, <3>4
  <2> QED
    BY <2>8, <2>9
<1>5. Right(S)
  BY <1>4
<1> QED
  BY <1>2, <1>3, <1>5 DEF e

-----------------------------------------------------------------------------
(* Conservation *)

\* What buyers' token accounts and the offering's payments account hold adds up
\* to what the buyers started with, whoever buys how much and in which order.
THEOREM TokensAlwaysConserved == Spec => []TokensConserved
<1> DEFINE Balanced == payments + Total(tokens, Wallets) = Total(Funds, Wallets)
<1>1. Funds \in [Wallets -> Int]
  BY InputsAssumption DEF InputsAssumption
<1>2. IsFiniteSet(Wallets)
  BY WalletsAssumption DEF WalletsAssumption
<1>3. Total(Funds, Wallets) \in Int
  <2>1. PICK g \in [SUBSET Wallets -> Int] : Total(Funds, Wallets) = g[Wallets]
    BY <1>1, <1>2, TotalAddsUp
  <2> QED
    BY <2>1
<1>4. Init => Balanced
  BY <1>3 DEF Init
<1>5. ASSUME TypeOK, Balanced, [Next]_vars
      PROVE  Balanced'
  <2>1. ASSUME NEW buyer \in Wallets, NEW beneficiary \in Wallets, NEW mint \in Mints,
               NEW shares \in 0..U16Max, NEW index \in 1..U16Max,
               PurchaseShares(buyer, shares, beneficiary, mint, index)
        PROVE  Balanced'
    <3>1. Payment(shares) \in Nat
      BY <1>5, <2>1, PurchaseTypes
    <3>2. /\ tokens' = [tokens EXCEPT ![buyer] = tokens[buyer] - Payment(shares)]
          /\ payments' = payments + Payment(shares)
      BY <2>1 DEF PurchaseShares, Debit
    <3>3. tokens \in [Wallets -> Int] /\ payments \in Nat
      BY <1>5 DEF TypeOK
    <3>4. /\ Total(tokens, Wallets) \in Int
          /\ Total(tokens', Wallets) = Total(tokens, Wallets) - Payment(shares)
      <4> DEFINE paid == Payment(shares)
      <4>1. paid \in Int
        BY <3>1
      <4> HIDE DEF paid
      <4>2. /\ Total(tokens, Wallets) \in Int
            /\ Total([tokens EXCEPT ![buyer] = tokens[buyer] - paid], Wallets)
                 = Total(tokens, Wallets) - paid
        BY <1>2, <3>3, <4>1, TotalAfterDebit, ZenonT(60)
      <4> QED
        BY <3>2, <4>2 DEF paid
    <3> QED
      BY <1>3, <1>5, <3>1, <3>2, <3>3, <3>4
  <2>2. ASSUME UNCHANGED <<tokens, payments>> PROVE Balanced'
    BY <1>5, <2>2
  <2> QED
    BY <1>5, <2>1, <2>2 DEF Next, SaleStep, InitNewOffering, UpdateOffering, Tick, vars
<1>6. Balanced <=> TokensConserved
  BY DEF TokensConserved, Total
<1> HIDE DEF Balanced
<1> QED
  BY <1>4, <1>5, <1>6, TypeCorrect, PTL DEF Spec
=============================================================================
