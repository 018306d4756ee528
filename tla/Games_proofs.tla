---------------------------- MODULE Games_proofs ----------------------------
(***************************************************************************)
(* Slots, thanks and the rate limiter for any members, chats, grids,       *)
(* limits, clocks and faults.                                              *)
(*                                                                         *)
(* Two parts are about functions without state.  A sum over a set, as the  *)
(* folds of the library compute it, is a number and does not depend on the *)
(* order; with it the payouts are numbers.  And the single pass over a     *)
(* line pays what the best of all its runs pays.                           *)
(*                                                                         *)
(* Domains gives every handler under way the data of its step.  Over it,   *)
(* each property has an invariant that says what the rows, which are       *)
(* written one after the other, mean in between:                           *)
(*   - Balanced: the books agree once the bets and wins that the handlers  *)
(*     under way have not recorded yet are added up over the chats;        *)
(*   - Cooled: what the handler found out about the thanks it returns      *)
(*     stays true until it rewards, because no other gives thanks;         *)
(*   - Limited: a thanks under way that passed the look at the limit finds *)
(*     room on the day it was looked up for and on every later day;        *)
(*   - Remembers: each message of a window that is not over has its row.   *)
(* The thanks are proved for every distance between the bot's clock and    *)
(* the database's: each statement says how much of the limit or of the     *)
(* cooldown that distance leaves.                                          *)
(***************************************************************************)
EXTENDS Games, FiniteSetTheorems, WellFoundedInduction, TLAPS

-----------------------------------------------------------------------------
(* Sums.                                                                   *)

\* The subsets of S with at most n elements.
Small(S, n) == {s \in SUBSET S : Cardinality(s) <= n}

\* The element a fold takes first, and what is left.
Picked(s) == CHOOSE x \in s : TRUE
Rest(s) == s \ {Picked(s)}

\* The function it adds up w over the sets D, which are closed under Rest.
Adds(it, w, D) == it = [s \in D |-> IF s = {} THEN 0 ELSE w[Picked(s)] + it[Rest(s)]]

LEMMA RestIsSmaller ==
    ASSUME NEW S, IsFiniteSet(S), NEW s \in SUBSET S, s # {}
    PROVE  /\ Picked(s) \in s /\ Rest(s) \in SUBSET S
           /\ Cardinality(s) \in Nat /\ Cardinality(Rest(s)) = Cardinality(s) - 1
           /\ Cardinality(Rest(s)) \in Nat
<1>1. IsFiniteSet(s) /\ Cardinality(s) \in Nat
  BY FS_Subset, FS_CardinalityType
<1>2. Picked(s) \in s
  BY DEF Picked
<1>3. Cardinality(Rest(s)) = Cardinality(s) - 1 /\ IsFiniteSet(Rest(s))
  BY <1>1, <1>2, FS_RemoveElement DEF Rest
<1>4. Cardinality(Rest(s)) \in Nat
  BY <1>3, FS_CardinalityType
<1>5. QED
  BY <1>1, <1>2, <1>3, <1>4 DEF Rest

\* A set of numbers has a least one: the induction of this module.
LEMMA LeastOf ==
    ASSUME NEW Bad \in SUBSET Nat, Bad # {}
    PROVE  \E n \in Bad : \A m \in Nat : m < n => m \notin Bad
<1>1. \E n \in Bad : \A m \in Bad : <<m, n>> \notin OpToRel(<, Nat)
  BY NatLessThanWellFounded, WFMin
<1>2. QED
  BY <1>1 DEF OpToRel

\* The sums of the small subsets exist, and with them those of the next larger ones.
LEMMA SumOfSmall ==
    ASSUME NEW S, IsFiniteSet(S), NEW w \in [S -> Nat], NEW n \in Nat
    PROVE  \E it : Adds(it, w, Small(S, n)) /\ it \in [Small(S, n) -> Nat]
<1> DEFINE Summable(k) == \E it : Adds(it, w, Small(S, k)) /\ it \in [Small(S, k) -> Nat]
           Bad == {k \in Nat : ~Summable(k)}
<1>1. SUFFICES ASSUME Bad # {} PROVE FALSE
  OBVIOUS
<1>2. PICK k \in Bad : \A m \in Nat : m < k => m \notin Bad
  <2> HIDE DEF Bad
  <2>1. Bad \in SUBSET Nat
    BY DEF Bad
  <2>2. QED
    BY <1>1, <2>1, LeastOf
<1>3. CASE k = 0
  <2> DEFINE it == [s \in Small(S, 0) |-> 0]
  <2>1. \A s \in Small(S, 0) : s = {}
    <3> TAKE s \in Small(S, 0)
    <3>1. s # {} => Cardinality(Rest(s)) = Cardinality(s) - 1
            /\ Cardinality(Rest(s)) \in Nat /\ Cardinality(s) \in Nat
      BY RestIsSmaller DEF Small
    <3>2. QED
      BY <3>1 DEF Small
  <2>2. Adds(it, w, Small(S, 0)) /\ it \in [Small(S, 0) -> Nat]
    BY <2>1 DEF Adds
  <2>3. QED
    BY <1>2, <1>3, <2>2
<1>4. CASE k # 0
  <2>1. k - 1 \in Nat /\ k \in Nat
    BY <1>2, <1>4
  <2>2. PICK less : Adds(less, w, Small(S, k - 1)) /\ less \in [Small(S, k - 1) -> Nat]
    BY <1>2, <2>1
  <2> DEFINE it == [s \in Small(S, k) |-> IF s = {} THEN 0 ELSE w[Picked(s)] + less[Rest(s)]]
  <2>3. \A s \in Small(S, k - 1) : s \in Small(S, k) /\ it[s] = less[s]
    <3>1. Small(S, k - 1) \subseteq Small(S, k)
      <4> SUFFICES ASSUME NEW s \in Small(S, k - 1) PROVE s \in Small(S, k)
        OBVIOUS
      <4>1. Cardinality(s) \in Nat
        BY FS_Subset, FS_CardinalityType DEF Small
      <4>2. QED
        BY <2>1, <4>1 DEF Small
    <3>2. QED
      BY <2>2, <3>1 DEF Adds
  <2>4. \A s \in Small(S, k) : s # {} => Rest(s) \in Small(S, k - 1) /\ Picked(s) \in S
    <3> SUFFICES ASSUME NEW s \in Small(S, k), s # {}
                 PROVE  Rest(s) \in Small(S, k - 1) /\ Picked(s) \in S
      OBVIOUS
    <3>1. Cardinality(s) <= k /\ s \in SUBSET S
      BY DEF Small
    <3>2. Picked(s) \in s /\ Rest(s) \in SUBSET S /\ Cardinality(s) \in Nat
            /\ Cardinality(Rest(s)) = Cardinality(s) - 1
      BY <3>1, RestIsSmaller
    <3>3. QED
      BY <2>1, <3>1, <3>2 DEF Small
  <2>5. it \in [Small(S, k) -> Nat]
    <3> SUFFICES ASSUME NEW s \in Small(S, k), s # {} PROVE w[Picked(s)] + less[Rest(s)] \in Nat
      OBVIOUS
    <3>1. w[Picked(s)] \in Nat /\ less[Rest(s)] \in Nat
      BY <2>2, <2>4
    <3>2. QED
      BY <3>1
  <2>6. Adds(it, w, Small(S, k))
    <3>1. \A s \in Small(S, k) : s # {} => less[Rest(s)] = it[Rest(s)]
      BY <2>3, <2>4
    <3>2. QED
      BY <3>1 DEF Adds
  <2>7. QED
    BY <1>2, <2>5, <2>6
<1>5. QED
  BY <1>3, <1>4

LEMMA SumExists ==
    ASSUME NEW S, IsFiniteSet(S), NEW w \in [S -> Nat]
    PROVE  \E it : Adds(it, w, SUBSET S)
<1>1. Cardinality(S) \in Nat
  BY FS_CardinalityType
<1>2. Small(S, Cardinality(S)) = SUBSET S
  BY FS_Subset DEF Small
<1>3. \E it : Adds(it, w, Small(S, Cardinality(S)))
  BY <1>1, SumOfSmall
<1>4. QED
  BY <1>2, <1>3

\* A sum is a number.
LEMMA SumIsNumber ==
    ASSUME NEW S, IsFiniteSet(S), NEW w \in [S -> Nat], NEW it, Adds(it, w, SUBSET S)
    PROVE  it \in [SUBSET S -> Nat]
<1> DEFINE Bad == {Cardinality(s) : s \in {t \in SUBSET S : it[t] \notin Nat}}
<1>1. SUFFICES ASSUME NEW t \in SUBSET S, it[t] \notin Nat PROVE FALSE
  BY DEF Adds
<1>2. Bad \in SUBSET Nat /\ Bad # {}
  BY <1>1, FS_Subset, FS_CardinalityType
<1>3. PICK n \in Bad : \A m \in Nat : m < n => m \notin Bad
  <2> HIDE DEF Bad
  <2> QED BY <1>2, LeastOf
<1>4. PICK s \in SUBSET S : it[s] \notin Nat /\ n = Cardinality(s)
  BY <1>3
<1>5. s # {} /\ it[s] = w[Picked(s)] + it[Rest(s)]
  BY <1>4 DEF Adds
<1>6. Picked(s) \in s /\ Rest(s) \in SUBSET S /\ Cardinality(Rest(s)) = n - 1
        /\ n \in Nat /\ n - 1 \in Nat
  BY <1>4, <1>5, RestIsSmaller
<1>7. n - 1 \notin Bad
  BY <1>3, <1>6
<1>8. it[Rest(s)] \in Nat /\ w[Picked(s)] \in Nat
  BY <1>6, <1>7
<1>9. QED
  BY <1>4, <1>5, <1>8

LEMMA EverySumIsNumber ==
    ASSUME NEW S, IsFiniteSet(S), NEW w \in [S -> Nat], NEW it, Adds(it, w, SUBSET S)
    PROVE  \A T : T \subseteq S => it[T] \in Nat
<1>1. it \in [SUBSET S -> Nat]
  BY SumIsNumber
<1> HIDE DEF Adds
<1>2. QED
  BY <1>1

\* Any element may be added last.
LEMMA SumInAnyOrder ==
    ASSUME NEW S, IsFiniteSet(S), NEW w \in [S -> Nat], NEW it, Adds(it, w, SUBSET S),
           NEW s \in SUBSET S, NEW x \in s
    PROVE  it[s] = w[x] + it[s \ {x}]
<1> DEFINE Wrong == {t \in SUBSET S : \E y \in t : it[t] # w[y] + it[t \ {y}]}
           Bad == {Cardinality(t) : t \in Wrong}
<1>1. SUFFICES ASSUME Wrong # {} PROVE FALSE
  OBVIOUS
<1>2. Bad \in SUBSET Nat /\ Bad # {}
  <2>1. \A t \in Wrong : Cardinality(t) \in Nat
    BY FS_Subset, FS_CardinalityType
  <2> HIDE DEF Wrong
  <2>2. QED
    BY <1>1, <2>1
<1>3. PICK n \in Bad : \A m \in Nat : m < n => m \notin Bad
  <2> HIDE DEF Bad
  <2> QED BY <1>2, LeastOf
<1>4. PICK t \in Wrong : n = Cardinality(t)
  BY <1>3
<1>5. PICK y \in t : it[t] # w[y] + it[t \ {y}]
  BY <1>4
<1>6. t \in SUBSET S /\ t # {} /\ it[t] = w[Picked(t)] + it[Rest(t)]
  BY <1>4, <1>5 DEF Adds
<1>7. Picked(t) \in t /\ Rest(t) \in SUBSET S /\ Cardinality(Rest(t)) = n - 1
        /\ n \in Nat /\ n - 1 \in Nat
  BY <1>4, <1>6, RestIsSmaller
<1>8. y # Picked(t)
  BY <1>5, <1>6 DEF Rest
<1>9. \A r \in Wrong : Cardinality(r) # n - 1
  <2>1. n - 1 \notin Bad
    <3> HIDE DEF Bad
    <3>1. QED
      BY <1>3, <1>7
  <2> HIDE DEF Wrong
  <2>2. QED
    BY <2>1
<1>10. it[Rest(t)] = w[y] + it[Rest(t) \ {y}]
  <2>1. Rest(t) \notin Wrong
    <3> HIDE DEF Wrong
    <3>1. QED
      BY <1>7, <1>9
  <2>2. y \in Rest(t)
    BY <1>5, <1>8 DEF Rest
  <2>3. QED
    BY <1>7, <2>1, <2>2
<1>11. t \ {y} \in SUBSET S /\ Picked(t) \in t \ {y} /\ Cardinality(t \ {y}) = n - 1
  <2>1. IsFiniteSet(t)
    BY <1>6, FS_Subset
  <2>2. QED
    BY <1>4, <1>5, <1>6, <1>7, <1>8, <2>1, FS_RemoveElement
<1>12. t \ {y} \notin Wrong
  <2> HIDE DEF Wrong
  <2>1. QED
    BY <1>9, <1>11
<1>13. it[t \ {y}] = w[Picked(t)] + it[(t \ {y}) \ {Picked(t)}]
  BY <1>11, <1>12
<1>14. (t \ {y}) \ {Picked(t)} = Rest(t) \ {y}
  BY DEF Rest
<1>15. it \in [SUBSET S -> Nat]
  BY SumIsNumber
<1>16. it[Rest(t) \ {y}] \in Nat /\ w[y] \in Nat /\ w[Picked(t)] \in Nat
  BY <1>5, <1>6, <1>7, <1>15
<1>17. it[t] = w[Picked(t)] + (w[y] + it[Rest(t) \ {y}])
  BY <1>6, <1>10
<1>18. it[t \ {y}] = w[Picked(t)] + it[Rest(t) \ {y}]
  BY <1>13, <1>14
<1>19. it[t] = w[y] + it[t \ {y}]
  BY <1>16, <1>17, <1>18
<1>20. QED
  BY <1>5, <1>19

\* The same of every set of summands.
Splits(it, w, S) == \A s : s \subseteq S => \A x \in s : it[s] = w[x] + it[s \ {x}]

LEMMA SumSplits ==
    ASSUME NEW S, IsFiniteSet(S), NEW w \in [S -> Nat], NEW it, Adds(it, w, SUBSET S)
    PROVE  Splits(it, w, S)
<1> SUFFICES ASSUME NEW s \in SUBSET S, NEW x \in s PROVE it[s] = w[x] + it[s \ {x}]
  BY DEF Splits
<1> HIDE DEF Adds
<1> QED
  BY SumInAnyOrder

LEMMA OneMoreIsFinite == ASSUME NEW S, IsFiniteSet(S), NEW x PROVE IsFiniteSet(S \cup {x})
  BY FS_AddElement

LEMMA ThreeAreFinite == ASSUME NEW a, NEW b, NEW c PROVE IsFiniteSet({a, b, c})
<1>1. IsFiniteSet({} \cup {a})
  BY FS_EmptySet, OneMoreIsFinite
<1>2. IsFiniteSet(({} \cup {a}) \cup {b})
  BY <1>1, OneMoreIsFinite
<1>3. IsFiniteSet((({} \cup {a}) \cup {b}) \cup {c})
  BY <1>2, OneMoreIsFinite
<1>4. (({} \cup {a}) \cup {b}) \cup {c} = {a, b, c}
  OBVIOUS
<1>5. QED
  BY <1>3, <1>4

LEMMA LinePayoutIsNumber == ASSUME NEW line PROVE LinePayout(line) \in Nat
  BY DEF LinePayout, calculateLinePayout, PayoutTable

LEMMA PaylinesFinite == IsFiniteSet(Paylines)
<1> DEFINE rows == {<<r, r, r, r, r>> : r \in Rows}
           A == {<<0, 1, 2, 1, 0>>, <<5, 4, 3, 4, 5>>, <<1, 0, 1, 0, 1>>}
           B == {<<4, 5, 4, 5, 4>>, <<0, 1, 2, 3, 4>>, <<4, 3, 2, 1, 0>>}
           C == {<<1, 2, 3, 4, 5>>, <<5, 4, 3, 2, 1>>, <<2, 1, 0, 1, 2>>}
           D == {<<3, 4, 5, 4, 3>>, <<0, 0, 1, 2, 2>>, <<5, 5, 4, 3, 3>>}
           E == {<<1, 2, 1, 2, 1>>, <<3, 2, 3, 2, 3>>, <<3, 2, 3, 2, 3>>}
<1>1. IsFiniteSet(rows)
  <2>1. rows = {<<0, 0, 0, 0, 0>>, <<1, 1, 1, 1, 1>>, <<2, 2, 2, 2, 2>>}
               \cup {<<3, 3, 3, 3, 3>>, <<4, 4, 4, 4, 4>>, <<5, 5, 5, 5, 5>>}
    <3>1. Rows = {0, 1, 2, 3, 4, 5}
      BY DEF Rows
    <3>2. QED
      BY <3>1
  <2>2. IsFiniteSet({<<0, 0, 0, 0, 0>>, <<1, 1, 1, 1, 1>>, <<2, 2, 2, 2, 2>>})
        /\ IsFiniteSet({<<3, 3, 3, 3, 3>>, <<4, 4, 4, 4, 4>>, <<5, 5, 5, 5, 5>>})
    BY ThreeAreFinite
  <2> HIDE DEF rows
  <2>3. QED
    BY <2>1, <2>2, FS_Union, Zenon
<1>2. IsFiniteSet(A) /\ IsFiniteSet(B) /\ IsFiniteSet(C) /\ IsFiniteSet(D) /\ IsFiniteSet(E)
  BY ThreeAreFinite
<1>3. Paylines = ((((rows \cup A) \cup B) \cup C) \cup D) \cup E
  <2>1. A \cup B \cup C \cup D \cup E =
      {<<0, 1, 2, 1, 0>>, <<5, 4, 3, 4, 5>>, <<1, 0, 1, 0, 1>>, <<4, 5, 4, 5, 4>>,
       <<0, 1, 2, 3, 4>>, <<4, 3, 2, 1, 0>>, <<1, 2, 3, 4, 5>>, <<5, 4, 3, 2, 1>>,
       <<2, 1, 0, 1, 2>>, <<3, 4, 5, 4, 3>>, <<0, 0, 1, 2, 2>>, <<5, 5, 4, 3, 3>>,
       <<1, 2, 1, 2, 1>>, <<3, 2, 3, 2, 3>>}
    BY Zenon
  <2>2. QED
    BY <2>1, Zenon DEF Paylines
<1> HIDE DEF rows, A, B, C, D, E
<1>4. IsFiniteSet((rows \cup A) \cup B)
  BY <1>1, <1>2, FS_Union
<1>5. IsFiniteSet((((rows \cup A) \cup B) \cup C) \cup D)
  BY <1>2, <1>4, FS_Union
<1>6. QED
  BY <1>2, <1>3, <1>5, FS_Union

\* Whatever the grid, its lines pay a number of bets.
LEMMA CheckPaylinesIsNumber == ASSUME NEW grid PROVE CheckPaylines(grid) \in Nat
<1> DEFINE w == [p \in Paylines |-> LinePayout([i \in Reels |-> grid[i][p[i]]])]
           Adding(f) == f = [s \in SUBSET Paylines |->
                   IF s = {} THEN 0
                    ELSE LinePayout([i \in Reels |-> grid[i][(CHOOSE x \in s : TRUE)[i]]])
                           + f[s \ {CHOOSE x \in s : TRUE}]]
           it == CHOOSE iter : Adding(iter)
<1>1. CheckPaylines(grid) = it[Paylines]
  BY DEF CheckPaylines, MapThenSumSet, MapThenFoldSet
<1>2. w \in [Paylines -> Nat]
  BY LinePayoutIsNumber
<1>3. \E f : Adds(f, w, SUBSET Paylines)
  <2> HIDE DEF w
  <2> QED BY <1>2, PaylinesFinite, SumExists
<1>4. Adds(it, w, SUBSET Paylines)
  <2>1. \A s \in SUBSET Paylines : s # {} =>
           w[Picked(s)] = LinePayout([i \in Reels |-> grid[i][Picked(s)[i]]])
    BY DEF Picked
  <2>2. ASSUME NEW f PROVE Adds(f, w, SUBSET Paylines) <=> Adding(f)
    <3> HIDE DEF w
    <3>1. [s \in SUBSET Paylines |->
              IF s = {} THEN 0 ELSE w[Picked(s)] + f[Rest(s)]]
          = [s \in SUBSET Paylines |->
              IF s = {} THEN 0
              ELSE LinePayout([i \in Reels |-> grid[i][Picked(s)[i]]]) + f[Rest(s)]]
      BY <2>1
    <3> QED BY <3>1 DEF Adds, Picked, Rest
  <2> HIDE DEF Adding, w
  <2>3. QED
    BY <1>3, <2>2
<1>5. QED
  <2> HIDE DEF it, w
  <2>1. \A T : T \subseteq Paylines => it[T] \in Nat
    BY <1>2, <1>4, PaylinesFinite, EverySumIsNumber
  <2> QED BY <1>1, <2>1

\* The payout of a grid and its free spins is a number.
LEMMA TotalPayoutIsNumber ==
    ASSUME NEW bet \in Nat, NEW grid, NEW n \in Nat, NEW free, DOMAIN free = 1 .. n
    PROVE  TotalPayout(bet, grid, free) \in Nat
<1> DEFINE Pays(g) == bet * CheckPaylines(g) + CalculateScatterBonus(CountScatters(g)).bonus
           w == [i \in DOMAIN free |-> Pays(free[i])]
           Adding(f) == f = [s \in SUBSET DOMAIN free |->
                   IF s = {} THEN 0
                    ELSE Pays(free[CHOOSE x \in s : TRUE]) + f[s \ {CHOOSE x \in s : TRUE}]]
           it == CHOOSE f : Adding(f)
<1>1. TotalPayout(bet, grid, free) = Pays(grid) + it[DOMAIN free]
  BY DEF TotalPayout, MapThenSumSet, MapThenFoldSet
<1>2. ASSUME NEW g PROVE Pays(g) \in Nat
  <2>1. CalculateScatterBonus(CountScatters(g)).bonus \in Nat
    BY DEF CalculateScatterBonus
  <2>2. bet * CheckPaylines(g) \in Nat
    BY CheckPaylinesIsNumber
  <2>3. QED
    BY <2>1, <2>2
<1> HIDE DEF Pays
<1>3. w \in [DOMAIN free -> Nat]
  BY <1>2
<1>4. IsFiniteSet(DOMAIN free)
  BY FS_Interval
<1>5. \E f : Adds(f, w, SUBSET DOMAIN free)
  <2> HIDE DEF w
  <2> QED BY <1>3, <1>4, SumExists
<1>6. Adds(it, w, SUBSET DOMAIN free)
  <2>1. \A s \in SUBSET DOMAIN free : s # {} => w[Picked(s)] = Pays(free[Picked(s)])
    BY DEF Picked
  <2>2. ASSUME NEW f PROVE Adds(f, w, SUBSET DOMAIN free) <=> Adding(f)
    <3> HIDE DEF w
    <3>1. [s \in SUBSET DOMAIN free |->
              IF s = {} THEN 0 ELSE w[Picked(s)] + f[Rest(s)]]
          = [s \in SUBSET DOMAIN free |->
              IF s = {} THEN 0 ELSE Pays(free[Picked(s)]) + f[Rest(s)]]
      BY <2>1
    <3> QED BY <3>1 DEF Adds, Picked, Rest
  <2> HIDE DEF Adding, w
  <2>3. QED
    BY <1>5, <2>2
<1>7. it[DOMAIN free] \in Nat
  <2> HIDE DEF it, w
  <2>1. it \in [SUBSET DOMAIN free -> Nat]
    BY <1>3, <1>4, <1>6, SumIsNumber
  <2>2. QED
    BY <2>1
<1>8. Pays(grid) \in Nat
  BY <1>2
<1> HIDE DEF it
<1>9. QED
  BY <1>1, <1>7, <1>8

-----------------------------------------------------------------------------
(* The line.                                                               *)

LEMMA LeastIndex ==
    ASSUME NEW I \in SUBSET Reels, I # {}
    PROVE  Min(I) \in I /\ \A i \in I : Min(I) <= i
<1>1. I \in SUBSET Nat
  BY DEF Reels
<1>2. PICK n \in I : \A m \in Nat : m < n => m \notin I
  BY <1>1, LeastOf
<1>3. \A i \in I : n <= i
  BY <1>1, <1>2
<1>4. QED
  BY <1>3 DEF Min

LEMMA GreatestIs ==
    ASSUME NEW S \in SUBSET Nat, NEW x \in S, \A y \in S : y <= x
    PROVE  Max(S) = x
<1>1. Max(S) \in S /\ \A y \in S : Max(S) >= y
  BY DEF Max
<1>2. Max(S) \in Nat /\ x \in Nat /\ x <= Max(S) /\ Max(S) <= x
  BY <1>1
<1>3. QED
  BY <1>2

\* The base symbol is one of the line or wild; before its first place there are only
\* wilds and scatters.
LEMMA BaseIs ==
    ASSUME NEW line \in [Reels -> Symbols]
    PROVE  /\ BaseSymbol(line) \in {line[i] : i \in Reels} \cup {"Wild"}
           /\ BaseSymbol(line) # "Scatter"
           /\ BaseSymbol(line) = "Wild" => \A i \in Reels : line[i] \in {"Wild", "Scatter"}
           /\ BaseSymbol(line) # "Wild" => \E m \in Reels :
                 line[m] = BaseSymbol(line) /\ \A i \in Reels : i < m => line[i] \in {"Wild", "Scatter"}
<1> DEFINE plain == {i \in Reels : line[i] \notin {"Wild", "Scatter"}}
<1>1. CASE plain = {}
  BY <1>1 DEF BaseSymbol
<1>2. CASE plain # {}
  <2>1. BaseSymbol(line) = line[Min(plain)]
    BY <1>2 DEF BaseSymbol
  <2>2. Min(plain) \in plain /\ \A i \in plain : Min(plain) <= i
    BY <1>2, LeastIndex
  <2>3. \A i \in Reels : i < Min(plain) => i \notin plain
    <3> HIDE DEF plain
    <3>1. (\A i \in Reels : i \in Int) /\ Min(plain) \in Int
      BY <2>2 DEF plain, Reels
    <3> QED BY <2>2, <3>1
  <2>4. QED
    BY <2>1, <2>2, <2>3
<1>3. QED
  BY <1>1, <1>2

\* The match count is the longest run of the base symbol from the left.
LEMMA MatchCountIs ==
    ASSUME NEW line
    PROVE  /\ MatchCount(line) \in 0 .. 5
           /\ \A i \in Reels : i <= MatchCount(line) => line[i] \in {BaseSymbol(line), "Wild"}
           /\ MatchCount(line) < 5 => line[MatchCount(line) + 1] \notin {BaseSymbol(line), "Wild"}
<1> DEFINE others == {i \in Reels : line[i] \notin {BaseSymbol(line), "Wild"}}
<1>1. CASE others = {}
  BY <1>1 DEF MatchCount, Reels
<1>2. CASE others # {}
  <2>1. MatchCount(line) = Min(others) - 1
    BY <1>2 DEF MatchCount
  <2>2. Min(others) \in others /\ \A i \in others : Min(others) <= i
    BY <1>2, LeastIndex
  <2>3. Min(others) \in 1 .. 5
    BY <2>2 DEF Reels
  <2>4. \A i \in Reels : i < Min(others) => i \notin others
    <3> HIDE DEF others
    <3>1. \A i \in Reels : i \in Int
      BY DEF Reels
    <3> QED BY <2>2, <2>3, <3>1
  <2>5. \A i \in Reels : i <= MatchCount(line) => i \notin others
    <3> HIDE DEF others
    <3>1. \A i \in Reels : i \in Int
      BY DEF Reels
    <3> QED BY <2>1, <2>3, <2>4, <3>1
  <2>6. MatchCount(line) + 1 \in others
    <3> HIDE DEF others
    <3> QED BY <2>1, <2>2, <2>3
  <2>7. QED
    BY <2>1, <2>3, <2>5, <2>6
<1>3. QED
  BY <1>1, <1>2

\* A longer run pays no less, and below five all symbols pay the same.
LEMMA LongerPaysMore ==
    ASSUME NEW s, NEW b, NEW k \in 3 .. 5, NEW n \in 0 .. 5, k <= n, s = b \/ k < 5
    PROVE  calculateLinePayout(s, k) <= calculateLinePayout(b, n)
  BY DEF calculateLinePayout, PayoutTable

\* No run pays more than the line: a run of another symbol is one of wilds alone.
LEMMA RunsPayLess ==
    ASSUME NEW line \in [Reels -> Symbols], NEW r \in Runs(line)
    PROVE  calculateLinePayout(r[2], r[1]) <= LinePayout(line)
<1> DEFINE b == BaseSymbol(line)  n == MatchCount(line)  k == r[1]  s == r[2]
<1>1. /\ k \in 3 .. 5 /\ s \in {line[i] : i \in Reels} \cup {"Wild"} /\ s # "Scatter"
      /\ \A i \in 1 .. k : line[i] \in {s, "Wild"}
  BY DEF Runs
<1>2. /\ n \in 0 .. 5
      /\ n < 5 => line[n + 1] \notin {b, "Wild"}
  BY MatchCountIs
<1> HIDE DEF n, k, s
<1>3. CASE s = b
  <2>1. k <= n
    BY <1>1, <1>2, <1>3
  <2>2. QED
    BY <1>1, <1>2, <1>3, <2>1, LongerPaysMore DEF LinePayout, b, n, k, s
<1>4. CASE s # b
  <2>1. b # "Wild"
    <3>1. b = "Wild" => \A i \in Reels : line[i] \in {"Wild", "Scatter"}
      BY BaseIs
    <3> HIDE DEF b
    <3>2. QED
      BY <1>1, <1>4, <3>1
  <2>2. PICK m \in Reels : line[m] = b /\ \A i \in Reels : i < m => line[i] \in {"Wild", "Scatter"}
    BY <2>1, BaseIs
  <2> HIDE DEF b
  <2>3. m \in 1 .. 5 /\ Reels = 1 .. 5
    BY DEF Reels
  <2>4. k < m
    BY <1>1, <1>4, <2>1, <2>2, <2>3
  <2>5. \A i \in 1 .. k : line[i] = "Wild"
    BY <1>1, <2>2, <2>3, <2>4
  <2>6. k <= n
    BY <1>1, <1>2, <2>5
  <2>7. k < 5
    BY <1>1, <2>3, <2>4
  <2>8. QED
    BY <1>1, <1>2, <2>6, <2>7, LongerPaysMore DEF LinePayout, b, n, k, s
<1>5. QED
  BY <1>3, <1>4

\* A line that pays is a run.
LEMMA LineIsRun ==
    ASSUME NEW line \in [Reels -> Symbols]
    PROVE  LinePayout(line) \in {calculateLinePayout(r[2], r[1]) : r \in Runs(line)} \cup {0}
<1> DEFINE b == BaseSymbol(line)  n == MatchCount(line)
<1>1. n \in 0 .. 5 /\ \A i \in Reels : i <= n => line[i] \in {b, "Wild"}
  BY MatchCountIs
<1>2. b \in {line[i] : i \in Reels} \cup {"Wild"} /\ b # "Scatter"
  BY BaseIs
<1>3. CASE n >= 3
  <2>1. <<n, b>> \in Runs(line)
    <3> HIDE DEF n, b
    <3>1. n \in 3 .. 5 /\ \A i \in 1 .. n : i \in Reels /\ i <= n
      BY <1>1, <1>3 DEF Reels
    <3>2. QED
      BY <1>1, <1>2, <3>1 DEF Runs
  <2>2. QED
    BY <2>1 DEF LinePayout
<1>4. CASE n < 3
  BY <1>1, <1>4 DEF LinePayout, calculateLinePayout, PayoutTable
<1>5. QED
  BY <1>1, <1>3, <1>4

\* What a line pays by the single pass over it is what the best of its runs pays, for
\* every line of the nine symbols.
THEOREM PaysBestRun ==
    \A line \in [Reels -> Symbols] :
        LinePayout(line) = Max({calculateLinePayout(r[2], r[1]) : r \in Runs(line)} \cup {0})
<1> SUFFICES ASSUME NEW line \in [Reels -> Symbols]
             PROVE  LinePayout(line) =
                       Max({calculateLinePayout(r[2], r[1]) : r \in Runs(line)} \cup {0})
  OBVIOUS
<1> DEFINE pays == {calculateLinePayout(r[2], r[1]) : r \in Runs(line)} \cup {0}
<1>1. pays \in SUBSET Nat
  BY DEF calculateLinePayout, PayoutTable
<1>2. LinePayout(line) \in pays
  BY LineIsRun
<1>3. \A y \in pays : y <= LinePayout(line)
  BY RunsPayLess, LinePayoutIsNumber
<1>4. Max(pays) = LinePayout(line)
  <2> HIDE DEF pays
  <2> QED BY <1>1, <1>2, <1>3, GreatestIs
<1>5. QED
  BY <1>4

\* CheckPaylines: whenever a grid is drawn, every line of the kinds the
\* property looks at pays what its best run pays (LinePaysBestRun).
THEOREM LinePaysBestRunCorrect == Spec => []LinePaysBestRun
<1>1. Kinds \subseteq Symbols
  BY DEF Kinds, Symbols, DefaultWeights
<1>2. BestRunsArePaid
  <2>1. ASSUME NEW line \in [Reels -> Kinds] PROVE line \in [Reels -> Symbols]
    BY <1>1
  <2>2. QED
    BY <2>1, PaysBestRun DEF BestRunsArePaid
<1>3. LinePaysBestRun
  BY <1>2 DEF LinePaysBestRun
<1>4. QED
  BY <1>3, PTL

-----------------------------------------------------------------------------
(* The domains.                                                            *)

\* The settings as numbers.
LEMMA Settings ==
    /\ Bet \in Nat /\ Bet > 0 /\ MinRTP \in Nat /\ MaxRTP \in Nat /\ ThanksReward \in Nat
    /\ SourceChat \in Chats /\ Limit \in Nat /\ Cooldown \in Nat /\ Zone \in Nat /\ Day \in Nat /\ Day > 0
    /\ Requests \in Nat /\ Requests > 0 /\ Window \in Nat /\ Window > 0
  BY CasinoAssumption, ThanksAssumption, LimiterAssumption

Lucks == {"fair", "high", "low"}
SpinSteps == {"bet", "draw", "refund", "pay", "stats", "rtp", "save"}
SpinJobs == [step : SpinSteps, user : Users, payout : Nat]
ThanksJobs == [step : {"thanks", "reward"}, from : Users, to : Users]

\* A handler under way is of what the behaviour is about.
Jobs == {Idle} \cup (IF play = "slots" THEN SpinJobs ELSE {})
               \cup (IF play = "thanks" THEN ThanksJobs ELSE {})

GameSums == [bet : Nat, won : Nat]
ThanksRows == [from : Users, to : Users, at : Nat]

Domains ==
    /\ balance \in [Users -> Nat]
    /\ games \in [Users -> GameSums]
    /\ weights \in [Users -> Lucks \cup {"none"}]
    /\ job \in [Chats -> Jobs]
    /\ now \in Nat
    /\ log \in Seq(ThanksRows)

\* What a chat is doing tells the kind of its job.
LEMMA JobAt ==
    ASSUME Domains, NEW c \in Chats
    PROVE  /\ \A s \in SpinSteps : At(c, s) => play = "slots" /\ job[c] \in SpinJobs
           /\ \A s \in {"thanks", "reward"} : At(c, s) => play = "thanks" /\ job[c] \in ThanksJobs
<1>1. job[c] \in Jobs
  BY DEF Domains
<1>2. Idle.step = "idle"
  BY DEF Idle
<1>3. \A j \in SpinJobs : j.step \in SpinSteps
  BY DEF SpinJobs
<1>4. \A j \in ThanksJobs : j.step \in {"thanks", "reward"}
  BY DEF ThanksJobs
<1>5. QED
  BY <1>1, <1>2, <1>3, <1>4 DEF At, Jobs, SpinSteps

LEMMA GotoJob ==
    ASSUME Domains, NEW c \in Chats, NEW s, Goto(c, s)
    PROVE  /\ job' = [job EXCEPT ![c] = [job[c] EXCEPT !.step = s]]
           /\ job[c] \in SpinJobs /\ s \in SpinSteps => job'[c] \in SpinJobs
           /\ job[c] \in ThanksJobs /\ s \in {"thanks", "reward"} => job'[c] \in ThanksJobs
<1>1. job' = [job EXCEPT ![c] = [job[c] EXCEPT !.step = s]] /\ job'[c] = [job[c] EXCEPT !.step = s]
  BY DEF Goto, Domains
<1>2. QED
  BY <1>1 DEF SpinJobs, ThanksJobs

LEMMA DomainsInit == Init => Domains
<1> SUFFICES ASSUME Init PROVE Domains
  OBVIOUS
<1>1. NoGames \in GameSums
  BY DEF NoGames, GameSums
<1>2. QED
  BY <1>1, CasinoAssumption DEF Init, InitCasino, InitThanks, Domains, Jobs

\* A handler's step leaves a job of the domain.
LEMMA JobStays ==
    ASSUME Domains, play' = play, NEW c \in Chats, NEW j \in Jobs, job' = [job EXCEPT ![c] = j]
    PROVE  job' \in [Chats -> Jobs']
<1>1. Jobs' = Jobs
  BY DEF Jobs
<1>2. QED
  BY <1>1 DEF Domains

LEMMA CasinoKeepsDomains ==
    ASSUME Domains, CasinoNext, UNCHANGED thanks PROVE Domains'
<1> USE Settings
<1>1. play' = play /\ now' = now /\ log' = log
  BY DEF CasinoNext, thanks, PlaySlots, DeductBet, Draw, Refund, PayWin, UpdateStats, AdjustRTP, SaveGame
<1>2. ASSUME NEW c \in Chats, NEW u \in Users, PlaySlots(c, u) PROVE Domains'
  <2> DEFINE j == [step |-> "bet", user |-> u, payout |-> 0]
  <2>1. j \in Jobs
    BY <1>2 DEF PlaySlots, Jobs, SpinJobs, SpinSteps
  <2>2. job' = [job EXCEPT ![c] = j]
    BY <1>2 DEF PlaySlots
  <2> HIDE DEF j
  <2>3. job' \in [Chats -> Jobs']
    BY <1>1, <2>1, <2>2, JobStays
  <2>4. QED
    BY <1>1, <1>2, <2>3 DEF Domains, PlaySlots
<1>3. ASSUME NEW c \in Chats, NEW s \in SpinSteps, play = "slots", job[c] \in SpinJobs, Goto(c, s)
      PROVE  job' \in [Chats -> Jobs']
  <2>1. job' = [job EXCEPT ![c] = [job[c] EXCEPT !.step = s]]
    BY <1>3, GotoJob
  <2>2. [job[c] EXCEPT !.step = s] \in Jobs
    BY <1>3 DEF Jobs, SpinJobs
  <2>3. QED
    BY <1>1, <2>1, <2>2, JobStays
<1>4. ASSUME NEW c \in Chats, Return(c) PROVE job' \in [Chats -> Jobs']
  <2>1. Idle \in Jobs
    BY DEF Jobs
  <2>2. QED
    BY <1>1, <1>4, <2>1, JobStays DEF Return
<1>5. ASSUME NEW c \in Chats, NEW s \in SpinSteps, At(c, s)
      PROVE  /\ play = "slots" /\ job[c] \in SpinJobs
             /\ job[c].user \in Users /\ job[c].payout \in Nat
  <2>1. play = "slots" /\ job[c] \in SpinJobs
    BY <1>5, JobAt
  <2>2. QED
    BY <2>1 DEF SpinJobs
<1>6. ASSUME NEW c \in Chats, DeductBet(c) PROVE Domains'
  <2>1. At(c, "bet") /\ "draw" \in SpinSteps
    BY <1>6 DEF DeductBet, SpinSteps
  <2>2. play = "slots" /\ job[c] \in SpinJobs /\ job[c].user \in Users
    BY <1>5, <2>1 DEF SpinSteps
  <2>3. job' \in [Chats -> Jobs']
    <3>1. Goto(c, "draw") \/ Return(c)
      BY <1>6 DEF DeductBet
    <3>2. QED
      BY <1>3, <1>4, <2>1, <2>2, <3>1
  <2>4. balance' \in [Users -> Nat]
    <3> DEFINE u == job[c].user
    <3>1. \/ balance' = balance
          \/ balance[u] >= Bet /\ balance' = [balance EXCEPT ![u] = @ - Bet]
      BY <1>6 DEF DeductBet
    <3>2. balance \in [Users -> Nat] /\ u \in Users
      BY <2>2 DEF Domains
    <3> HIDE DEF u
    <3>3. balance[u] >= Bet => balance[u] - Bet \in Nat
      BY <3>2
    <3>4. QED
      BY <3>1, <3>2, <3>3
  <2>5. QED
    BY <1>1, <1>6, <2>3, <2>4 DEF Domains, DeductBet, casino
<1>7. ASSUME NEW c \in Chats, Draw(c) PROVE Domains'
  <2>1. At(c, "draw") /\ "refund" \in SpinSteps
    BY <1>7 DEF Draw, SpinSteps
  <2>2. play = "slots" /\ job[c] \in SpinJobs
    BY <1>5, <2>1 DEF SpinSteps
  <2>3. ASSUME NEW p \in Nat, job' = [job EXCEPT ![c].step = "pay", ![c].payout = p]
        PROVE  job' \in [Chats -> Jobs']
    <3> DEFINE j == [job[c] EXCEPT !.step = "pay", !.payout = p]
    <3>1. j \in Jobs
      BY <2>2 DEF Jobs, SpinJobs, SpinSteps
    <3>2. job' = [job EXCEPT ![c] = j]
      BY <2>3 DEF Domains
    <3> HIDE DEF j
    <3>3. QED
      BY <1>1, <3>1, <3>2, JobStays
  <2>4. ASSUME NEW grid, NEW k \in Nat, NEW free \in [1 .. k -> Grids]
        PROVE  TotalPayout(Bet, grid, free) \in Nat
    BY TotalPayoutIsNumber
  <2>5. \/ \E p \in Nat : job' = [job EXCEPT ![c].step = "pay", ![c].payout = p]
        \/ Goto(c, "refund")
    <3>1. SUFFICES ASSUME ~Goto(c, "refund")
                   PROVE  \E p \in Nat : job' = [job EXCEPT ![c].step = "pay", ![c].payout = p]
      OBVIOUS
    <3>2. PICK grid \in Grids :
             LET n == CalculateScatterBonus(CountScatters(grid)).freeSpins
             IN  \E k \in 0 .. n : \E free \in [1 .. k -> Grids] :
                    job' = [job EXCEPT ![c].step = "pay",
                                       ![c].payout = TotalPayout(Bet, grid, free)]
      BY <1>7, <3>1 DEF Draw
    <3> DEFINE n == CalculateScatterBonus(CountScatters(grid)).freeSpins
    <3>3. PICK k \in 0 .. n : \E free \in [1 .. k -> Grids] :
             job' = [job EXCEPT ![c].step = "pay", ![c].payout = TotalPayout(Bet, grid, free)]
      BY <3>2
    <3>4. PICK free \in [1 .. k -> Grids] :
             job' = [job EXCEPT ![c].step = "pay", ![c].payout = TotalPayout(Bet, grid, free)]
      BY <3>3
    <3> HIDE DEF n
    <3>5. k \in Nat
      <4>1. n \in Nat
        BY DEF n, CalculateScatterBonus
      <4>2. QED
        BY <3>3, <4>1
    <3>6. QED
      BY <2>4, <3>4, <3>5
  <2>7. job' \in [Chats -> Jobs']
    BY <1>3, <2>1, <2>2, <2>3, <2>5
  <2>8. QED
    BY <1>1, <1>7, <2>7 DEF Domains, Draw, casino
<1>8. ASSUME NEW c \in Chats, Refund(c) PROVE Domains'
  <2>1. At(c, "refund")
    BY <1>8 DEF Refund
  <2>2. job[c].user \in Users
    BY <1>5, <2>1 DEF SpinSteps
  <2>3. job' \in [Chats -> Jobs']
    BY <1>4, <1>8 DEF Refund
  <2>4. balance' \in [Users -> Nat]
    BY <1>8, <2>2 DEF Domains, Refund, Logged
  <2>5. QED
    BY <1>1, <1>8, <2>3, <2>4 DEF Domains, Refund
<1>9. ASSUME NEW c \in Chats, PayWin(c) PROVE Domains'
  <2>1. At(c, "pay") /\ Goto(c, "stats") /\ "stats" \in SpinSteps
    BY <1>9 DEF PayWin, SpinSteps
  <2>2. play = "slots" /\ job[c] \in SpinJobs /\ job[c].user \in Users /\ job[c].payout \in Nat
    BY <1>5, <2>1 DEF SpinSteps
  <2>3. job' \in [Chats -> Jobs']
    BY <1>3, <2>1, <2>2
  <2>4. balance' \in [Users -> Nat]
    <3>1. \/ balance' = balance
          \/ balance' = [balance EXCEPT ![job[c].user] = @ + job[c].payout]
      BY <1>9 DEF PayWin, Logged
    <3>2. balance \in [Users -> Nat]
      BY DEF Domains
    <3>3. QED
      BY <2>2, <3>1, <3>2
  <2>5. QED
    BY <1>1, <1>9, <2>3, <2>4 DEF Domains, PayWin
<1>10. ASSUME NEW c \in Chats, UpdateStats(c) PROVE Domains'
  <2>1. At(c, "stats") /\ Goto(c, "rtp") /\ "rtp" \in SpinSteps
    BY <1>10 DEF UpdateStats, SpinSteps
  <2>2. play = "slots" /\ job[c] \in SpinJobs /\ job[c].user \in Users /\ job[c].payout \in Nat
    BY <1>5, <2>1 DEF SpinSteps
  <2>3. job' \in [Chats -> Jobs']
    BY <1>3, <2>1, <2>2
  <2>4. QED
    BY <1>1, <1>10, <2>3 DEF Domains, UpdateStats, casino
<1>11. ASSUME NEW c \in Chats, AdjustRTP(c) PROVE Domains'
  <2>1. At(c, "rtp") /\ Goto(c, "save") /\ "save" \in SpinSteps
    BY <1>11 DEF AdjustRTP, SpinSteps
  <2>2. play = "slots" /\ job[c] \in SpinJobs /\ job[c].user \in Users
    BY <1>5, <2>1 DEF SpinSteps
  <2>3. job' \in [Chats -> Jobs']
    BY <1>3, <2>1, <2>2
  <2>4. weights' \in [Users -> Lucks \cup {"none"}]
    <3>1. Luck(GetStatsOrDefault) \in Lucks
      BY DEF Luck, Lucks
    <3>2. QED
      BY <1>11, <2>2, <3>1 DEF Domains, AdjustRTP
  <2>5. QED
    BY <1>1, <1>11, <2>3, <2>4 DEF Domains, AdjustRTP
<1>12. ASSUME NEW c \in Chats, SaveGame(c) PROVE Domains'
  <2>1. At(c, "save")
    BY <1>12 DEF SaveGame
  <2>2. job[c].user \in Users /\ job[c].payout \in Nat
    BY <1>5, <2>1 DEF SpinSteps
  <2>3. job' \in [Chats -> Jobs']
    BY <1>4, <1>12 DEF SaveGame
  <2>4. games' \in [Users -> GameSums]
    <3> DEFINE u == job[c].user
               sums == [bet |-> games[u].bet + Bet, won |-> games[u].won + job[c].payout]
    <3>1. games' = games \/ games' = [games EXCEPT ![u] = sums]
      BY <1>12 DEF SaveGame, Logged
    <3>2. sums \in GameSums
      BY <2>2 DEF Domains, GameSums
    <3> HIDE DEF sums
    <3>3. QED
      BY <3>1, <3>2 DEF Domains
  <2>5. QED
    BY <1>1, <1>12, <2>3, <2>4 DEF Domains, SaveGame
<1>13. QED
  BY <1>2, <1>6, <1>7, <1>8, <1>9, <1>10, <1>11, <1>12 DEF CasinoNext

LEMMA ThanksKeepDomains ==
    ASSUME Domains, ThanksNext PROVE Domains'
<1> USE Settings
<1>1. play' = play /\ now' = now /\ UNCHANGED casino
  BY DEF ThanksNext, GiveThanks, Reciprocal, AddReward, thanks
<1> DEFINE c == SourceChat
<1>0. c \in Chats
  OBVIOUS
<1> HIDE DEF c
<1>2. ASSUME NEW from \in Users, NEW to \in Users, GiveThanks(from, to)
      PROVE  Domains'
  <2> DEFINE j == [step |-> "thanks", from |-> from, to |-> to]
  <2>1. j \in Jobs
    BY <1>2 DEF GiveThanks, Jobs, ThanksJobs
  <2>2. job' = [job EXCEPT ![c] = j]
    BY <1>2 DEF GiveThanks, c
  <2> HIDE DEF j
  <2>3. job' \in [Chats -> Jobs']
    BY <1>1, <1>0, <2>1, <2>2, JobStays
  <2>4. QED
    BY <1>2, <2>3 DEF Domains, GiveThanks, casino, thanks
<1>3. ASSUME Return(c) PROVE job' \in [Chats -> Jobs']
  <2>1. Idle \in Jobs
    BY DEF Jobs
  <2>2. QED
    BY <1>1, <1>0, <1>3, <2>1, JobStays DEF Return
<1>4. ASSUME Reciprocal PROVE Domains'
  <2>1. At(c, "thanks") /\ (Return(c) \/ Goto(c, "reward"))
    BY <1>4 DEF Reciprocal, c
  <2>2. play = "thanks" /\ job[c] \in ThanksJobs
    BY <1>0, <2>1, JobAt
  <2>3. Goto(c, "reward") => job' \in [Chats -> Jobs']
    <3>1. [job[c] EXCEPT !.step = "reward"] \in Jobs
      BY <2>2 DEF Jobs, ThanksJobs
    <3>2. Goto(c, "reward") => job' = [job EXCEPT ![c] = [job[c] EXCEPT !.step = "reward"]]
      BY <1>0, GotoJob
    <3>3. QED
      BY <1>1, <1>0, <3>1, <3>2, JobStays
  <2>4. QED
    BY <1>3, <1>4, <2>1, <2>3 DEF Domains, Reciprocal, casino, thanks
<1>5. ASSUME AddReward PROVE Domains'
  <2>1. At(c, "reward")
    BY <1>5 DEF AddReward, c
  <2>2. job[c] \in ThanksJobs
    BY <1>0, <2>1, JobAt
  <2>3. job[c].to \in Users /\ job[c].from \in Users
    BY <2>2 DEF ThanksJobs
  <2>4. job' \in [Chats -> Jobs']
    BY <1>3, <1>5 DEF AddReward, c
  <2>5. balance' \in [Users -> Nat]
    <3>1. \/ balance' = balance
          \/ balance' = [balance EXCEPT ![job[c].to] = @ + ThanksReward]
      BY <1>5 DEF AddReward, c
    <3>2. balance \in [Users -> Nat]
      BY DEF Domains
    <3>3. QED
      BY <2>3, <3>1, <3>2
  <2>6. log' \in Seq(ThanksRows)
    <3>1. [from |-> job[c].from, to |-> job[c].to, at |-> now] \in ThanksRows
      BY <2>3 DEF Domains, ThanksRows
    <3>2. \/ log' = log
          \/ log' = Append(log, [from |-> job[c].from, to |-> job[c].to, at |-> now])
      BY <1>5 DEF AddReward, c
    <3>3. log \in Seq(ThanksRows)
      BY DEF Domains
    <3>4. QED
      BY <3>1, <3>2, <3>3
  <2>7. QED
    BY <1>1, <1>5, <2>4, <2>5, <2>6 DEF Domains, AddReward, casino
<1>6. QED
  BY <1>2, <1>4, <1>5 DEF ThanksNext

LEMMA DomainsStep == Domains /\ [Next]_vars => Domains'
<1> SUFFICES ASSUME Domains, [Next]_vars PROVE Domains'
  OBVIOUS
<1>1. CASE CasinoNext /\ UNCHANGED <<thanks, requests, passed>>
  BY <1>1, CasinoKeepsDomains
<1>2. CASE ThanksNext /\ UNCHANGED <<requests, passed>>
  BY <1>2, ThanksKeepDomains
<1>3. CASE LimiterNext
  BY <1>3 DEF LimiterNext, Domains, Jobs, desk, casino, thanks
<1>4. CASE TimePasses
  BY <1>4 DEF TimePasses, Domains, Jobs, desk, casino
<1>5. CASE Crash
  BY <1>5 DEF Crash, Domains, Jobs, thanks
<1>6. CASE UNCHANGED vars
  BY <1>6 DEF vars, Domains, Jobs, desk, casino, thanks
<1>7. QED
  BY <1>1, <1>2, <1>3, <1>4, <1>5, <1>6 DEF Next

\* Every balance, row and handler stays in its domain; in particular no spin, refund or
\* thanks makes a balance negative, and a handler of slots meets none of thanks.
THEOREM DomainsCorrect == Spec => []Domains
  BY DomainsInit, DomainsStep, PTL DEF Spec

-----------------------------------------------------------------------------
(* What the chats are worth together.                                      *)

\* The sum of w over all chats.
Together(w) == (CHOOSE it : Adds(it, w, SUBSET Chats))[Chats]

LEMMA ChatsFinite == IsFiniteSet(Chats)
  BY CasinoAssumption

LEMMA TogetherIsNumber ==
    ASSUME NEW w \in [Chats -> Nat] PROVE Together(w) \in Nat
<1> DEFINE it == CHOOSE f : Adds(f, w, SUBSET Chats)
<1>1. Adds(it, w, SUBSET Chats)
  BY ChatsFinite, SumExists
<1>2. it[Chats] \in Nat
  <2> HIDE DEF it
  <2>1. \A T : T \subseteq Chats => it[T] \in Nat
    BY <1>1, ChatsFinite, EverySumIsNumber
  <2> QED BY <2>1
<1>3. QED
  BY <1>2 DEF Together

Agree(a, v, b, w, S) == \A T \in SUBSET S : (\A x \in T : v[x] = w[x]) => a[T] = b[T]

\* Sums of functions that agree on a set agree.
LEMMA SumsAgree ==
    ASSUME NEW S, IsFiniteSet(S), NEW v \in [S -> Nat], NEW w \in [S -> Nat],
           NEW a, Adds(a, v, SUBSET S), NEW b, Adds(b, w, SUBSET S)
    PROVE  Agree(a, v, b, w, S)
<1> SUFFICES ASSUME NEW T \in SUBSET S, \A x \in T : v[x] = w[x] PROVE a[T] = b[T]
  BY DEF Agree
<1> DEFINE Wrong == {t \in SUBSET T : a[t] # b[t]}
           Bad == {Cardinality(t) : t \in Wrong}
<1>1. SUFFICES ASSUME Wrong # {} PROVE FALSE
  OBVIOUS
<1>2. Bad \in SUBSET Nat /\ Bad # {}
  <2>1. \A t \in Wrong : Cardinality(t) \in Nat
    BY FS_Subset, FS_CardinalityType
  <2> HIDE DEF Wrong
  <2>2. QED
    BY <1>1, <2>1
<1>3. PICK n \in Bad : \A m \in Nat : m < n => m \notin Bad
  <2> HIDE DEF Bad
  <2> QED BY <1>2, LeastOf
<1>4. PICK t \in Wrong : n = Cardinality(t)
  BY <1>3
<1>5. t \in SUBSET S /\ t \in SUBSET T /\ a[t] # b[t]
  BY <1>4
<1>6. t # {} /\ a[t] = v[Picked(t)] + a[Rest(t)] /\ b[t] = w[Picked(t)] + b[Rest(t)]
  BY <1>5 DEF Adds
<1>7. Picked(t) \in t /\ Rest(t) \in SUBSET S /\ Cardinality(Rest(t)) = n - 1
        /\ n \in Nat /\ n - 1 \in Nat
  BY <1>4, <1>5, <1>6, RestIsSmaller
<1>8. Rest(t) \in SUBSET T /\ v[Picked(t)] = w[Picked(t)]
  BY <1>5, <1>7 DEF Rest
<1>9. Rest(t) \notin Wrong
  BY <1>3, <1>7
<1>10. QED
  BY <1>5, <1>6, <1>8, <1>9

\* A change of one summand changes the sum by as much.
LEMMA TogetherChanges ==
    ASSUME NEW v \in [Chats -> Nat], NEW w \in [Chats -> Nat], NEW c \in Chats,
           \A d \in Chats : d # c => v[d] = w[d]
    PROVE  Together(w) + v[c] = Together(v) + w[c]
<1> DEFINE a == CHOOSE f : Adds(f, v, SUBSET Chats)
           b == CHOOSE f : Adds(f, w, SUBSET Chats)
<1>1. Adds(a, v, SUBSET Chats) /\ Adds(b, w, SUBSET Chats)
  BY ChatsFinite, SumExists
<1>2. Together(v) = a[Chats] /\ Together(w) = b[Chats]
  BY DEF Together
<1> HIDE DEF a, b
<1>3. a[Chats] = v[c] + a[Chats \ {c}]
  <2>1. Adds(a, v, SUBSET Chats)
    BY <1>1
  <2>2. Splits(a, v, Chats)
    BY <2>1, ChatsFinite, SumSplits
  <2>3. QED
    BY <2>2 DEF Splits
<1>4. b[Chats] = w[c] + b[Chats \ {c}]
  <2>1. Adds(b, w, SUBSET Chats)
    BY <1>1
  <2>2. Splits(b, w, Chats)
    BY <2>1, ChatsFinite, SumSplits
  <2>3. QED
    BY <2>2 DEF Splits
<1>5. a[Chats \ {c}] = b[Chats \ {c}]
  <2>1. Chats \ {c} \in SUBSET Chats /\ \A d \in Chats \ {c} : v[d] = w[d]
    OBVIOUS
  <2>2. Agree(a, v, b, w, Chats)
    BY <1>1, ChatsFinite, SumsAgree
  <2>3. QED
    BY <2>1, <2>2 DEF Agree
<1>6. a[Chats \ {c}] \in Nat
  <2>1. \A T : T \subseteq Chats => a[T] \in Nat
    BY <1>1, ChatsFinite, EverySumIsNumber
  <2>2. QED
    BY <2>1
<1>7. v[c] \in Nat /\ w[c] \in Nat
  OBVIOUS
<1>8. QED
  BY <1>2, <1>3, <1>4, <1>5, <1>6, <1>7

\* Nothing adds up to nothing.
LEMMA TogetherNothing ==
    ASSUME NEW w \in [Chats -> Nat], \A c \in Chats : w[c] = 0
    PROVE  Together(w) = 0
<1> DEFINE zero == [s \in SUBSET Chats |-> 0]
           a == CHOOSE f : Adds(f, w, SUBSET Chats)
<1>1. Adds(zero, w, SUBSET Chats)
  <2>1. \A s \in SUBSET Chats : s # {} => Picked(s) \in s /\ Rest(s) \in SUBSET Chats
    BY DEF Picked, Rest
  <2>2. \A s \in SUBSET Chats : s # {} => w[Picked(s)] + zero[Rest(s)] = 0
    BY <2>1
  <2>3. QED
    BY <2>2 DEF Adds
<1>2. Adds(a, w, SUBSET Chats)
  BY ChatsFinite, SumExists
<1>3. a[Chats] = zero[Chats]
  <2>1. zero = [s \in SUBSET Chats |-> 0] /\ Chats \in SUBSET Chats
    OBVIOUS
  <2> HIDE DEF a, zero
  <2>2. Agree(a, w, zero, w, Chats)
    BY <1>1, <1>2, ChatsFinite, SumsAgree
  <2> QED
    BY <2>1, <2>2 DEF Agree
<1>4. QED
  BY <1>3 DEF Together

-----------------------------------------------------------------------------
(* The books.                                                              *)

\* The bet a handler has taken and not recorded, and the win it has paid and not
\* recorded.
Owed(j, u) == IF j.step \in SpinSteps \ {"bet"} /\ j.user = u THEN Bet ELSE 0
Prize(j, u) == IF j.step \in {"stats", "rtp", "save"} /\ j.user = u THEN j.payout ELSE 0

OwedTo(u) == Together([c \in Chats |-> Owed(job[c], u)])
PrizeOf(u) == Together([c \in Chats |-> Prize(job[c], u)])

BooksOf(u) ==
    balance[u] + games[u].bet + OwedTo(u)
        = Funds[u] + games[u].won + ThanksReward * Received(u) + PrizeOf(u)

Balanced == \A u \in Users \ dented : BooksOf(u)

LEMMA JobNumbers ==
    ASSUME Domains, NEW c \in Chats, NEW u
    PROVE  Owed(job[c], u) \in Nat /\ Prize(job[c], u) \in Nat
<1>1. job[c].step \in {"stats", "rtp", "save"} => job[c].payout \in Nat
  <2>1. \A s \in {"stats", "rtp", "save"} : At(c, s) => job[c] \in SpinJobs
    BY JobAt DEF SpinSteps
  <2>2. QED
    BY <2>1 DEF At, SpinJobs
<1>2. QED
  BY <1>1, Settings DEF Owed, Prize

LEMMA SumsAreNumbers ==
    ASSUME Domains, NEW u PROVE OwedTo(u) \in Nat /\ PrizeOf(u) \in Nat
<1>1. /\ [c \in Chats |-> Owed(job[c], u)] \in [Chats -> Nat]
      /\ [c \in Chats |-> Prize(job[c], u)] \in [Chats -> Nat]
  BY JobNumbers
<1>2. QED
  BY <1>1, TogetherIsNumber DEF OwedTo, PrizeOf

\* A handler's step changes the sums by its own share.
LEMMA SumsChange ==
    ASSUME Domains, Domains', NEW c \in Chats, NEW u, \A d \in Chats : d # c => job'[d] = job[d]
    PROVE  /\ OwedTo(u)' + Owed(job[c], u) = OwedTo(u) + Owed(job'[c], u)
           /\ PrizeOf(u)' + Prize(job[c], u) = PrizeOf(u) + Prize(job'[c], u)
           /\ OwedTo(u)' \in Nat /\ PrizeOf(u)' \in Nat
           /\ Owed(job'[c], u) \in Nat /\ Prize(job'[c], u) \in Nat
<1> DEFINE a == [d \in Chats |-> Owed(job[d], u)]    a1 == [d \in Chats |-> Owed(job'[d], u)]
           b == [d \in Chats |-> Prize(job[d], u)]   b1 == [d \in Chats |-> Prize(job'[d], u)]
<1>1. a \in [Chats -> Nat] /\ b \in [Chats -> Nat]
  BY JobNumbers
<1>2. ASSUME NEW d \in Chats
      PROVE  Owed(job'[d], u) \in Nat /\ Prize(job'[d], u) \in Nat
  <2>1. job'[d].step \in {"stats", "rtp", "save"} => (job[d] \in SpinJobs)'
    <3>1. (job[d] \in Jobs)'
      BY DEF Domains
    <3>2. QED
      BY <3>1 DEF Jobs, Idle, ThanksJobs
  <2>2. QED
    BY <2>1, Settings DEF SpinJobs, Owed, Prize
<1>3. a1 \in [Chats -> Nat] /\ b1 \in [Chats -> Nat]
  BY <1>2
<1>4. \A d \in Chats : d # c => a[d] = a1[d] /\ b[d] = b1[d]
  OBVIOUS
<1>5. OwedTo(u) = Together(a) /\ OwedTo(u)' = Together(a1)
  BY DEF OwedTo
<1>6. PrizeOf(u) = Together(b) /\ PrizeOf(u)' = Together(b1)
  BY DEF PrizeOf
<1>7. /\ a[c] = Owed(job[c], u) /\ a1[c] = Owed(job'[c], u)
      /\ b[c] = Prize(job[c], u) /\ b1[c] = Prize(job'[c], u)
  OBVIOUS
<1> HIDE DEF a, a1, b, b1
<1>8. Together(a1) + a[c] = Together(a) + a1[c]
  BY <1>1, <1>3, <1>4, TogetherChanges
<1>9. Together(b1) + b[c] = Together(b) + b1[c]
  BY <1>1, <1>3, <1>4, TogetherChanges
<1>10. Together(a1) \in Nat /\ Together(b1) \in Nat
  BY <1>3, TogetherIsNumber
<1>11. QED
  BY <1>2, <1>5, <1>6, <1>7, <1>8, <1>9, <1>10

LEMMA ReceivedIsNumber == ASSUME Domains, NEW u PROVE Received(u) \in Nat
<1>1. IsFiniteSet(DOMAIN log)
  BY FS_Interval DEF Domains
<1>2. QED
  BY <1>1, FS_Subset, FS_CardinalityType DEF Received

LEMMA ReceivedGrows ==
    ASSUME Domains, NEW u, NEW row, log' = Append(log, row)
    PROVE  Received(u)' = IF row.to = u THEN Received(u) + 1 ELSE Received(u)
<1> DEFINE I == {i \in DOMAIN log : log[i].to = u}
           I1 == {i \in DOMAIN log' : log'[i].to = u}
<1>1. log \in Seq(ThanksRows) /\ Len(log) \in Nat /\ DOMAIN log = 1 .. Len(log)
  BY DEF Domains
<1>2. /\ DOMAIN log' = 1 .. (Len(log) + 1)
      /\ \A i \in DOMAIN log : log'[i] = log[i]
      /\ log'[Len(log) + 1] = row
  BY <1>1
<1>3. I1 = IF row.to = u THEN I \cup {Len(log) + 1} ELSE I
  BY <1>1, <1>2
<1>4. IsFiniteSet(I) /\ Len(log) + 1 \notin I
  <2>1. IsFiniteSet(1 .. Len(log)) /\ I \subseteq 1 .. Len(log)
    BY <1>1, FS_Interval
  <2>2. QED
    BY <1>1, <2>1, FS_Subset
<1>5. Received(u) = Cardinality(I) /\ Received(u)' = Cardinality(I1)
  BY DEF Received
<1> HIDE DEF I, I1
<1>6. Cardinality(I \cup {Len(log) + 1}) = Cardinality(I) + 1
  BY <1>4, FS_AddElement
<1>7. QED
  BY <1>3, <1>5, <1>6

\* What a player has and what the rows of his games say, in Domains.
LEMMA PlayerNumbers ==
    ASSUME Domains, NEW u \in Users
    PROVE  balance[u] \in Nat /\ games[u].bet \in Nat /\ games[u].won \in Nat
  BY DEF Domains, GameSums

\* The books of a player are kept by a handler whose numbers add up.
LEMMA BooksKept ==
    ASSUME Domains, Domains', NEW c \in Chats, NEW u \in Users, BooksOf(u),
           \A d \in Chats : d # c => job'[d] = job[d],
           Received(u)' = Received(u),
           balance'[u] + games'[u].bet + Owed(job'[c], u) + games[u].won + Prize(job[c], u)
             = balance[u] + games[u].bet + Owed(job[c], u) + games'[u].won + Prize(job'[c], u)
    PROVE  BooksOf(u)'
<1>1. /\ OwedTo(u)' + Owed(job[c], u) = OwedTo(u) + Owed(job'[c], u)
      /\ PrizeOf(u)' + Prize(job[c], u) = PrizeOf(u) + Prize(job'[c], u)
      /\ OwedTo(u)' \in Nat /\ PrizeOf(u)' \in Nat
      /\ Owed(job'[c], u) \in Nat /\ Prize(job'[c], u) \in Nat
  BY SumsChange
<1>2. /\ OwedTo(u) \in Nat /\ PrizeOf(u) \in Nat
      /\ Owed(job[c], u) \in Nat /\ Prize(job[c], u) \in Nat
  BY SumsAreNumbers, JobNumbers
<1>3. balance[u] \in Nat /\ games[u].bet \in Nat /\ games[u].won \in Nat
  BY PlayerNumbers
<1>4. balance'[u] \in Nat /\ games'[u].bet \in Nat /\ games'[u].won \in Nat
  BY DEF Domains, GameSums
<1> DEFINE earned == ThanksReward * Received(u)
           fund == Funds[u]
           bal == balance[u]         bal1 == balance'[u]
           bet == games[u].bet       bet1 == games'[u].bet
           won == games[u].won       won1 == games'[u].won
           o == Owed(job[c], u)      o1 == Owed(job'[c], u)
           p == Prize(job[c], u)     p1 == Prize(job'[c], u)
           O == OwedTo(u)            O1 == OwedTo(u)'
           P == PrizeOf(u)           P1 == PrizeOf(u)'
<1>5. earned \in Nat /\ fund \in Nat
  BY ReceivedIsNumber, Settings, CasinoAssumption
<1>6. bal + bet + O = fund + won + earned + P
  BY DEF BooksOf
<1>7. bal1 + bet1 + o1 + won + p = bal + bet + o + won1 + p1
  OBVIOUS
<1>8. O1 + o = O + o1 /\ P1 + p = P + p1
  BY <1>1
<1>9. /\ O \in Nat /\ P \in Nat /\ o \in Nat /\ p \in Nat
      /\ O1 \in Nat /\ P1 \in Nat /\ o1 \in Nat /\ p1 \in Nat
      /\ bal \in Nat /\ bet \in Nat /\ won \in Nat
      /\ bal1 \in Nat /\ bet1 \in Nat /\ won1 \in Nat
  BY <1>1, <1>2, <1>3, <1>4
<1>10. ThanksReward * Received(u)' = earned
  OBVIOUS
<1>11. bal1 + bet1 + O1 = fund + won1 + earned + P1
  <2> HIDE DEF earned, fund, bal, bal1, bet, bet1, won, won1, o, o1, p, p1, O, O1, P, P1
  <2> QED BY <1>5, <1>6, <1>7, <1>8, <1>9
<1> HIDE DEF earned
<1>12. QED
  BY <1>10, <1>11 DEF BooksOf

\* One thanks more.
LEMMA OneMore == ASSUME NEW a \in Nat, NEW n \in Nat PROVE a * (n + 1) = a * n + a
  OBVIOUS

\* A player whose job is another's has no share in it.
LEMMA NoShare ==
    ASSUME NEW j, NEW u, j.user # u \/ j.step \in {"idle", "thanks", "reward", "bet"}
    PROVE  Owed(j, u) = 0 /\ Prize(j, u) = 0
  BY DEF Owed, Prize, SpinSteps

\* The steps of a handler on the job of its chat.
LEMMA JobMoves ==
    ASSUME Domains, NEW c \in Chats
    PROVE  /\ \A s : Goto(c, s) => /\ \A d \in Chats : d # c => job'[d] = job[d]
                                   /\ job'[c] = [job[c] EXCEPT !.step = s]
           /\ Return(c) => (\A d \in Chats : d # c => job'[d] = job[d]) /\ job'[c] = Idle
  BY DEF Goto, Return, Domains

LEMMA SpinAt ==
    ASSUME Domains, NEW c \in Chats, NEW s \in SpinSteps, At(c, s)
    PROVE  /\ job[c].step = s /\ job[c].user \in Users /\ job[c].payout \in Nat
           /\ play = "slots" /\ job[c] \in SpinJobs
           /\ \A t : LET j == [job[c] EXCEPT !.step = t]
                     IN j.step = t /\ j.user = job[c].user /\ j.payout = job[c].payout
<1>1. job[c] \in SpinJobs /\ play = "slots"
  BY JobAt
<1>2. QED
  BY <1>1 DEF SpinJobs, At

\* An action of a spin changes only its own player's rows, and keeps his books.
SpinKeeps(c) ==
    /\ \A d \in Chats : d # c => job'[d] = job[d]
    /\ \A u \in Users : u # job[c].user =>
          balance'[u] = balance[u] /\ games'[u] = games[u]
              /\ (job'[c] = Idle \/ job'[c].user # u)
    /\ LET u == job[c].user IN u \notin dented' =>
          balance'[u] + games'[u].bet + Owed(job'[c], u) + games[u].won + Prize(job[c], u)
          = balance[u] + games[u].bet + Owed(job[c], u) + games'[u].won + Prize(job'[c], u)

LEMMA SpinKeepsBooks ==
    ASSUME Domains, Domains', Balanced, NEW c \in Chats, job[c].user \in Users, SpinKeeps(c),
           log' = log, dented \subseteq dented'
    PROVE  Balanced'
<1> SUFFICES ASSUME NEW u \in Users, u \notin dented' PROVE BooksOf(u)'
  BY DEF Balanced
<1>1. BooksOf(u)
  BY DEF Balanced
<1>2. Received(u)' = Received(u)
  BY DEF Received
<1>3. \A d \in Chats : d # c => job'[d] = job[d]
  BY DEF SpinKeeps
<1>4. CASE u # job[c].user
  <2>1. Owed(job[c], u) = 0 /\ Prize(job[c], u) = 0
    BY <1>4, NoShare
  <2>2. job'[c] = Idle \/ job'[c].user # u
    BY <1>4 DEF SpinKeeps
  <2>3. Owed(job'[c], u) = 0 /\ Prize(job'[c], u) = 0
    BY <2>2, NoShare DEF Idle
  <2>4. balance'[u] = balance[u] /\ games'[u] = games[u]
    BY <1>4 DEF SpinKeeps
  <2>5. QED
    BY <1>1, <1>2, <1>3, <2>1, <2>3, <2>4, BooksKept
<1>5. CASE u = job[c].user
  BY <1>1, <1>2, <1>3, <1>5, BooksKept DEF SpinKeeps
<1>6. QED
  BY <1>4, <1>5

\* Only its own player's numbers, and these add up; a lost COMMIT dents him.
LEMMA DeductBetKeeps ==
    ASSUME Domains, NEW c \in Chats, DeductBet(c) PROVE SpinKeeps(c)
<1> DEFINE u == job[c].user
<1>1. /\ job[c].step = "bet" /\ u \in Users
      /\ [job[c] EXCEPT !.step = "draw"].step = "draw" /\ [job[c] EXCEPT !.step = "draw"].user = u
  BY SpinAt DEF DeductBet, SpinSteps
<1>2. games' = games
  BY DEF DeductBet
<1>3. \/ balance[u] >= Bet /\ balance' = [balance EXCEPT ![u] = @ - Bet] /\ Goto(c, "draw")
      \/ balance' = [balance EXCEPT ![u] = @ - Bet] /\ Return(c) /\ u \in dented'
      \/ balance' = balance /\ Return(c)
  BY DEF DeductBet
<1>4. balance \in [Users -> Nat] /\ Bet \in Nat
  BY Settings DEF Domains
<1>5. Owed(job[c], u) = 0 /\ Prize(job[c], u) = 0
  BY <1>1, NoShare
<1>6. games[u].bet \in Nat /\ games[u].won \in Nat
  BY <1>1, PlayerNumbers
<1>7. CASE balance[u] >= Bet /\ balance' = [balance EXCEPT ![u] = @ - Bet] /\ Goto(c, "draw")
  <2>1. (\A d \in Chats : d # c => job'[d] = job[d]) /\ job'[c] = [job[c] EXCEPT !.step = "draw"]
    BY <1>7, JobMoves
  <2>2. Owed(job'[c], u) = Bet /\ Prize(job'[c], u) = 0
    BY <1>1, <2>1 DEF Owed, Prize, SpinSteps
  <2>3. balance[u] \in Nat /\ balance'[u] = balance[u] - Bet
        /\ \A v \in Users : v # u => balance'[v] = balance[v]
    BY <1>1, <1>4, <1>7
  <2>4. job'[c].user = u
    BY <1>1, <2>1
  <2> HIDE DEF u
  <2>5. balance'[u] + games'[u].bet + Owed(job'[c], u) + games[u].won + Prize(job[c], u)
           = balance[u] + games[u].bet + Owed(job[c], u) + games'[u].won + Prize(job'[c], u)
    BY <1>2, <1>4, <1>5, <1>6, <2>2, <2>3
  <2>6. QED
    BY <1>2, <2>1, <2>3, <2>4, <2>5 DEF SpinKeeps, u
<1>8. CASE balance' = [balance EXCEPT ![u] = @ - Bet] /\ Return(c) /\ u \in dented'
  <2>1. (\A d \in Chats : d # c => job'[d] = job[d]) /\ job'[c] = Idle
    BY <1>8, JobMoves
  <2>2. \A v \in Users : v # u => balance'[v] = balance[v]
    BY <1>4, <1>8
  <2>3. QED
    BY <1>2, <1>8, <2>1, <2>2 DEF SpinKeeps
<1>9. CASE balance' = balance /\ Return(c)
  <2>1. (\A d \in Chats : d # c => job'[d] = job[d]) /\ job'[c] = Idle
    BY <1>9, JobMoves
  <2>2. Owed(job'[c], u) = 0 /\ Prize(job'[c], u) = 0
    BY <2>1, NoShare DEF Idle
  <2>3. QED
    BY <1>2, <1>5, <1>9, <2>1, <2>2 DEF SpinKeeps
<1>10. QED
  BY <1>3, <1>7, <1>8, <1>9

LEMMA DrawKeeps ==
    ASSUME Domains, NEW c \in Chats, Draw(c) PROVE SpinKeeps(c)
<1> DEFINE u == job[c].user
<1>1. job[c].step = "draw" /\ job[c] \in SpinJobs
  BY SpinAt DEF Draw, SpinSteps
<1>2. balance' = balance /\ games' = games
  BY DEF Draw, casino
<1>3. PICK s \in {"pay", "refund"} : \E p :
         job' = [job EXCEPT ![c] = [job[c] EXCEPT !.step = s, !.payout = p]]
  <2>1. \/ \E p : job' = [job EXCEPT ![c].step = "pay", ![c].payout = p]
        \/ Goto(c, "refund")
    BY DEF Draw
  <2>2. ASSUME NEW p, job' = [job EXCEPT ![c].step = "pay", ![c].payout = p]
        PROVE  job' = [job EXCEPT ![c] = [job[c] EXCEPT !.step = "pay", !.payout = p]]
    BY <2>2 DEF Domains
  <2>3. Goto(c, "refund") =>
           job' = [job EXCEPT ![c] = [job[c] EXCEPT !.step = "refund", !.payout = job[c].payout]]
    BY <1>1 DEF Goto, Domains, SpinJobs
  <2>4. QED
    BY <2>1, <2>2, <2>3
<1>4. PICK p : job' = [job EXCEPT ![c] = [job[c] EXCEPT !.step = s, !.payout = p]]
  BY <1>3
<1>5. /\ \A d \in Chats : d # c => job'[d] = job[d]
      /\ job'[c] = [job[c] EXCEPT !.step = s, !.payout = p]
  BY <1>4 DEF Domains
<1>6. job'[c].step = s /\ job'[c].user = u
  BY <1>1, <1>5 DEF SpinJobs
<1>7. Owed(job'[c], u) = Owed(job[c], u) /\ Prize(job'[c], u) = Prize(job[c], u)
  BY <1>1, <1>6 DEF Owed, Prize, SpinSteps
<1>8. QED
  BY <1>2, <1>5, <1>6, <1>7 DEF SpinKeeps

\* A refund that was refused dents the player.
LEMMA RefundKeeps ==
    ASSUME Domains, NEW c \in Chats, Refund(c) PROVE SpinKeeps(c)
<1> DEFINE u == job[c].user
<1>1. job[c].step = "refund" /\ u \in Users
  BY SpinAt DEF Refund, SpinSteps
<1>2. /\ games' = games
      /\ \/ balance' = [balance EXCEPT ![u] = @ + Bet]
         \/ balance' = balance /\ u \in dented'
  BY DEF Refund, Logged
<1>3. (\A d \in Chats : d # c => job'[d] = job[d]) /\ job'[c] = Idle
  BY JobMoves DEF Refund
<1>4. Owed(job[c], u) = Bet /\ Prize(job[c], u) = 0
  BY <1>1 DEF Owed, Prize, SpinSteps
<1>5. Owed(job'[c], u) = 0 /\ Prize(job'[c], u) = 0
  BY <1>3, NoShare DEF Idle
<1>6. /\ balance[u] \in Nat /\ Bet \in Nat /\ (u \in dented' \/ balance'[u] = balance[u] + Bet)
      /\ \A v \in Users : v # u => balance'[v] = balance[v]
  BY <1>1, <1>2, Settings DEF Domains
<1>7. games[u].bet \in Nat /\ games[u].won \in Nat
  BY <1>1, PlayerNumbers
<1> HIDE DEF u
<1>8. u \notin dented' =>
         balance'[u] + games'[u].bet + Owed(job'[c], u) + games[u].won + Prize(job[c], u)
         = balance[u] + games[u].bet + Owed(job[c], u) + games'[u].won + Prize(job'[c], u)
  BY <1>2, <1>4, <1>5, <1>6, <1>7
<1>9. QED
  BY <1>2, <1>3, <1>6, <1>8 DEF SpinKeeps, u

LEMMA PayWinKeeps ==
    ASSUME Domains, NEW c \in Chats, PayWin(c) PROVE SpinKeeps(c)
<1> DEFINE u == job[c].user
<1>1. /\ job[c].step = "pay" /\ u \in Users /\ job[c].payout \in Nat
      /\ [job[c] EXCEPT !.step = "stats"].step = "stats" /\ [job[c] EXCEPT !.step = "stats"].user = u
      /\ [job[c] EXCEPT !.step = "stats"].payout = job[c].payout
  BY SpinAt DEF PayWin, SpinSteps
<1>2. /\ games' = games
      /\ \/ balance' = [balance EXCEPT ![u] = @ + job[c].payout]
         \/ balance' = balance /\ u \in dented'
  BY DEF PayWin, Logged
<1>3. (\A d \in Chats : d # c => job'[d] = job[d]) /\ job'[c] = [job[c] EXCEPT !.step = "stats"]
  BY JobMoves DEF PayWin
<1>4. Owed(job[c], u) = Bet /\ Prize(job[c], u) = 0
  BY <1>1 DEF Owed, Prize, SpinSteps
<1>5. Owed(job'[c], u) = Bet /\ Prize(job'[c], u) = job[c].payout /\ job'[c].user = u
  BY <1>1, <1>3 DEF Owed, Prize, SpinSteps
<1>6. /\ balance[u] \in Nat /\ (u \in dented' \/ balance'[u] = balance[u] + job[c].payout)
      /\ \A v \in Users : v # u => balance'[v] = balance[v]
  BY <1>1, <1>2 DEF Domains
<1>7. games[u].bet \in Nat /\ games[u].won \in Nat
  BY <1>1, PlayerNumbers
<1> HIDE DEF u
<1>8. u \notin dented' =>
         balance'[u] + games'[u].bet + Owed(job'[c], u) + games[u].won + Prize(job[c], u)
         = balance[u] + games[u].bet + Owed(job[c], u) + games'[u].won + Prize(job'[c], u)
  BY <1>1, <1>2, <1>4, <1>5, <1>6, <1>7, Settings
<1>9. QED
  BY <1>2, <1>3, <1>5, <1>6, <1>8 DEF SpinKeeps, u

\* The statistics and the weights are no part of the books.
LEMMA AdjustKeeps ==
    ASSUME Domains, NEW c \in Chats, UpdateStats(c) \/ AdjustRTP(c) PROVE SpinKeeps(c)
<1> DEFINE u == job[c].user
<1>1. /\ job[c].step \in {"stats", "rtp"} /\ u \in Users
      /\ \A t : LET j == [job[c] EXCEPT !.step = t]
                IN  j.step = t /\ j.user = u /\ j.payout = job[c].payout
  <2>1. (At(c, "stats") \/ At(c, "rtp")) /\ {"stats", "rtp"} \subseteq SpinSteps
    BY DEF UpdateStats, AdjustRTP, SpinSteps
  <2>2. QED
    BY <2>1, SpinAt
<1>2. balance' = balance /\ games' = games
  BY DEF UpdateStats, AdjustRTP, casino
<1>3. PICK s \in {"rtp", "save"} : (\A d \in Chats : d # c => job'[d] = job[d])
                                     /\ job'[c] = [job[c] EXCEPT !.step = s]
  BY JobMoves DEF UpdateStats, AdjustRTP
<1>4. job'[c].step = s /\ job'[c].user = u /\ job'[c].payout = job[c].payout
  BY <1>1, <1>3
<1>5. Owed(job'[c], u) = Owed(job[c], u) /\ Prize(job'[c], u) = Prize(job[c], u)
  BY <1>1, <1>4 DEF Owed, Prize, SpinSteps
<1>6. QED
  BY <1>2, <1>3, <1>4, <1>5 DEF SpinKeeps

LEMMA SaveGameKeeps ==
    ASSUME Domains, NEW c \in Chats, SaveGame(c) PROVE SpinKeeps(c)
<1> DEFINE u == job[c].user
           p == job[c].payout
<1>1. job[c].step = "save" /\ u \in Users /\ p \in Nat
  BY SpinAt DEF SaveGame, SpinSteps
<1>2. /\ balance' = balance
      /\ \/ games' = [games EXCEPT ![u] = [bet |-> games[u].bet + Bet, won |-> games[u].won + p]]
         \/ games' = games /\ u \in dented'
  BY DEF SaveGame, Logged
<1>3. (\A d \in Chats : d # c => job'[d] = job[d]) /\ job'[c] = Idle
  BY JobMoves DEF SaveGame
<1>4. Owed(job[c], u) = Bet /\ Prize(job[c], u) = p
  BY <1>1 DEF Owed, Prize, SpinSteps
<1>5. Owed(job'[c], u) = 0 /\ Prize(job'[c], u) = 0
  BY <1>3, NoShare DEF Idle
<1>6. /\ u \in dented' \/ (games'[u].bet = games[u].bet + Bet /\ games'[u].won = games[u].won + p)
      /\ \A v \in Users : v # u => games'[v] = games[v]
  BY <1>1, <1>2 DEF Domains
<1>7. balance[u] \in Nat /\ games[u].bet \in Nat /\ games[u].won \in Nat
  BY <1>1, PlayerNumbers
<1> HIDE DEF u, p
<1>8. u \notin dented' =>
         balance'[u] + games'[u].bet + Owed(job'[c], u) + games[u].won + Prize(job[c], u)
         = balance[u] + games[u].bet + Owed(job[c], u) + games'[u].won + Prize(job'[c], u)
  BY <1>1, <1>2, <1>4, <1>5, <1>6, <1>7, Settings
<1>9. QED
  BY <1>2, <1>3, <1>6, <1>8 DEF SpinKeeps, u

LEMMA CasinoKeepsBooks ==
    ASSUME Domains, Domains', Balanced, CasinoNext, UNCHANGED thanks PROVE Balanced'
<1>1. log' = log
  BY DEF thanks
<1>2. ASSUME NEW c \in Chats, NEW u \in Users, PlaySlots(c, u) PROVE Balanced'
  <2>1. balance' = balance /\ games' = games /\ dented' = dented
    BY <1>2 DEF PlaySlots
  <2>2. job[c] = Idle /\ job'[c].step = "bet" /\ \A d \in Chats : d # c => job'[d] = job[d]
    BY <1>2 DEF PlaySlots, Domains
  <2>3. SUFFICES ASSUME NEW v \in Users, v \notin dented' PROVE BooksOf(v)'
    BY DEF Balanced
  <2>4. /\ Owed(job[c], v) = 0 /\ Prize(job[c], v) = 0
        /\ Owed(job'[c], v) = 0 /\ Prize(job'[c], v) = 0
    BY <2>2, NoShare DEF Idle
  <2>5. BooksOf(v)
    BY <2>1, <2>3 DEF Balanced
  <2>6. Received(v)' = Received(v)
    BY <1>1 DEF Received
  <2>7. QED
    BY <2>1, <2>2, <2>4, <2>5, <2>6, BooksKept
<1>3. ASSUME NEW c \in Chats, SpinKeeps(c), NEW s \in SpinSteps, At(c, s), dented \subseteq dented'
      PROVE  Balanced'
  <2>1. job[c].user \in Users
    BY <1>3, SpinAt
  <2>2. QED
    BY <1>1, <1>3, <2>1, SpinKeepsBooks
<1>4. ASSUME NEW c \in Chats
      PROVE  /\ DeductBet(c) => At(c, "bet") /\ dented \subseteq dented'
             /\ Draw(c) => At(c, "draw") /\ dented \subseteq dented'
             /\ Refund(c) => At(c, "refund") /\ dented \subseteq dented'
             /\ PayWin(c) => At(c, "pay") /\ dented \subseteq dented'
             /\ UpdateStats(c) => At(c, "stats") /\ dented \subseteq dented'
             /\ AdjustRTP(c) => At(c, "rtp") /\ dented \subseteq dented'
             /\ SaveGame(c) => At(c, "save") /\ dented \subseteq dented'
  BY DEF DeductBet, Draw, Refund, PayWin, UpdateStats, AdjustRTP, SaveGame, Logged, casino
<1>5. {"bet", "draw", "refund", "pay", "stats", "rtp", "save"} \subseteq SpinSteps
  BY DEF SpinSteps
<1>6. ASSUME NEW c \in Chats, DeductBet(c) \/ Draw(c) \/ Refund(c) PROVE Balanced'
  BY <1>3, <1>4, <1>5, <1>6, DeductBetKeeps, DrawKeeps, RefundKeeps
<1>7. ASSUME NEW c \in Chats, PayWin(c) \/ UpdateStats(c) PROVE Balanced'
  BY <1>3, <1>4, <1>5, <1>7, PayWinKeeps, AdjustKeeps
<1>8. ASSUME NEW c \in Chats, AdjustRTP(c) \/ SaveGame(c) PROVE Balanced'
  BY <1>3, <1>4, <1>5, <1>8, AdjustKeeps, SaveGameKeeps
<1>9. QED
  BY <1>2, <1>6, <1>7, <1>8 DEF CasinoNext

\* Who has no spin under way has nothing in the hands of a handler.
LEMMA NothingOwed ==
    ASSUME Domains, NEW u \in Users, SpinsOf(u) = {}
    PROVE  OwedTo(u) = 0 /\ PrizeOf(u) = 0
<1>1. ASSUME NEW c \in Chats
      PROVE  Owed(job[c], u) = 0 /\ Prize(job[c], u) = 0
  <2>1. job[c] \in Jobs
    BY DEF Domains
  <2>2. CASE job[c] \in {Idle} \cup ThanksJobs
    BY <2>2, NoShare DEF Idle, ThanksJobs
  <2>3. CASE play = "slots" /\ job[c] \in SpinJobs
    <3>1. job[c] # Idle
      BY <2>3 DEF SpinJobs, SpinSteps, Idle
    <3>2. job[c].user # u
      BY <2>3, <3>1 DEF SpinsOf
    <3>3. QED
      BY <3>2, NoShare
  <2>4. QED
    BY <2>1, <2>2, <2>3 DEF Jobs
<1> DEFINE a == [c \in Chats |-> Owed(job[c], u)]
           b == [c \in Chats |-> Prize(job[c], u)]
<1>2. /\ a \in [Chats -> Nat] /\ b \in [Chats -> Nat]
      /\ \A c \in Chats : a[c] = 0 /\ b[c] = 0
  BY <1>1
<1>3. Together(a) = 0 /\ Together(b) = 0
  <2> HIDE DEF a, b
  <2> QED BY <1>2, TogetherNothing
<1>4. QED
  BY <1>3 DEF OwedTo, PrizeOf

LEMMA BooksInit == Init => Balanced
<1> SUFFICES ASSUME Init, NEW u \in Users PROVE BooksOf(u)
  BY DEF Balanced
<1>1. Domains
  BY DomainsInit
<1>2. SpinsOf(u) = {}
  BY DEF Init, InitCasino, SpinsOf
<1>3. OwedTo(u) = 0 /\ PrizeOf(u) = 0
  BY <1>1, <1>2, NothingOwed
<1>4. Received(u) = 0
  <2>1. {i \in DOMAIN log : log[i].to = u} = {}
    BY DEF Init, InitThanks
  <2>2. QED
    BY <2>1, FS_EmptySet DEF Received
<1>5. games[u].bet = 0 /\ games[u].won = 0 /\ balance[u] = Funds[u]
  BY DEF Init, InitCasino, NoGames
<1>6. Funds[u] \in Nat /\ ThanksReward * 0 = 0
  BY Settings, CasinoAssumption
<1>7. QED
  BY <1>3, <1>4, <1>5, <1>6 DEF BooksOf

\* The steps of a thanks.
LEMMA ThanksMoves ==
    ASSUME Domains, ThanksNext
    PROVE  /\ job[SourceChat].step \in {"idle", "thanks", "reward"}
           /\ job'[SourceChat].step \in {"idle", "thanks", "reward"}
           /\ \A d \in Chats : d # SourceChat => job'[d] = job[d]
<1> DEFINE c == SourceChat
<1>0. c \in Chats
  BY Settings
<1> HIDE DEF c
<1>1. CASE \E from, to \in Users : GiveThanks(from, to)
  BY <1>0, <1>1 DEF GiveThanks, Domains, Idle, c
<1>2. CASE Reciprocal
  <2>1. job[c].step = "thanks" /\ job[c] \in ThanksJobs /\ (Return(c) \/ Goto(c, "reward"))
    BY <1>0, <1>2, JobAt DEF Reciprocal, At, c
  <2>2. [job[c] EXCEPT !.step = "reward"].step = "reward"
    BY <2>1 DEF ThanksJobs
  <2>3. CASE Return(c)
    BY <1>0, <2>1, <2>3, JobMoves DEF Idle, c
  <2>4. CASE Goto(c, "reward")
    BY <1>0, <2>1, <2>2, <2>4, JobMoves DEF c
  <2>5. QED
    BY <2>1, <2>3, <2>4
<1>3. CASE AddReward
  BY <1>0, <1>3, JobMoves DEF AddReward, At, Idle, c
<1>4. QED
  BY <1>1, <1>2, <1>3 DEF ThanksNext

LEMMA ThanksKeepBooks ==
    ASSUME Domains, Domains', Balanced, ThanksNext PROVE Balanced'
<1> DEFINE c == SourceChat
<1>0. c \in Chats
  BY Settings
<1>1. games' = games /\ dented' = dented
  BY DEF ThanksNext, GiveThanks, Reciprocal, AddReward, casino
<1>2. SUFFICES ASSUME NEW u \in Users, u \notin dented' PROVE BooksOf(u)'
  BY DEF Balanced
<1>3. BooksOf(u)
  BY <1>1, <1>2 DEF Balanced
<1>5. /\ job[c].step \in {"idle", "thanks", "reward"}
      /\ job'[c].step \in {"idle", "thanks", "reward"}
      /\ \A d \in Chats : d # c => job'[d] = job[d]
  BY ThanksMoves
<1> HIDE DEF c
<1>6. /\ Owed(job[c], u) = 0 /\ Prize(job[c], u) = 0
      /\ Owed(job'[c], u) = 0 /\ Prize(job'[c], u) = 0
  BY <1>5, NoShare
<1>7. CASE balance' = balance /\ log' = log
  <2>1. Received(u)' = Received(u)
    BY <1>7 DEF Received
  <2>2. QED
    BY <1>0, <1>1, <1>3, <1>5, <1>6, <1>7, <2>1, BooksKept
<1>8. CASE /\ balance' = [balance EXCEPT ![job[c].to] = @ + ThanksReward]
           /\ log' = Append(log, [from |-> job[c].from, to |-> job[c].to, at |-> now])
           /\ job[c] \in ThanksJobs
  <2> DEFINE got == Received(u)
  <2>1. Received(u)' = IF job[c].to = u THEN got + 1 ELSE got
    <3> DEFINE row == [from |-> job[c].from, to |-> job[c].to, at |-> now]
    <3>1. row.to = job[c].to /\ log' = Append(log, row)
      BY <1>8
    <3> HIDE DEF row
    <3>2. QED
      BY <3>1, ReceivedGrows
  <2>2. got \in Nat /\ ThanksReward \in Nat /\ Funds[u] \in Nat
    BY ReceivedIsNumber, Settings, CasinoAssumption
  <2>3. balance'[u] = IF job[c].to = u THEN balance[u] + ThanksReward ELSE balance[u]
    BY <1>8 DEF Domains
  <2>4. ThanksReward * Received(u)' =
           IF job[c].to = u THEN ThanksReward * got + ThanksReward ELSE ThanksReward * got
    BY <2>1, <2>2, OneMore
  <2>5. /\ OwedTo(u)' + Owed(job[c], u) = OwedTo(u) + Owed(job'[c], u)
        /\ PrizeOf(u)' + Prize(job[c], u) = PrizeOf(u) + Prize(job'[c], u)
        /\ OwedTo(u)' \in Nat /\ PrizeOf(u)' \in Nat
    BY <1>0, <1>5, SumsChange
  <2>6. OwedTo(u) \in Nat /\ PrizeOf(u) \in Nat
    BY SumsAreNumbers
  <2>7. OwedTo(u)' = OwedTo(u) /\ PrizeOf(u)' = PrizeOf(u)
    BY <1>6, <2>5, <2>6
  <2>8. balance[u] \in Nat /\ games[u].bet \in Nat /\ games[u].won \in Nat
    BY PlayerNumbers
  <2> DEFINE earned == ThanksReward * got
             b == balance[u]  w == games[u].bet  v == games[u].won  o == OwedTo(u)  p == PrizeOf(u)
  <2>9. earned \in Nat
    BY <2>2
  <2>10. b + w + o = Funds[u] + v + earned + p
    BY <1>3 DEF BooksOf
  <2> HIDE DEF earned, b, w, v, o, p
  <2>11. (b + ThanksReward) + w + o = Funds[u] + v + (earned + ThanksReward) + p
    <3>1. b \in Nat /\ w \in Nat /\ v \in Nat /\ o \in Nat /\ p \in Nat
      BY <2>6, <2>8 DEF b, w, v, o, p
    <3> DEFINE f == Funds[u]
    <3>2. f \in Nat
      BY <2>2
    <3> HIDE DEF f
    <3>3. b + w + o = f + v + earned + p =>
            (b + ThanksReward) + w + o = f + v + (earned + ThanksReward) + p
      BY <2>2, <2>9, <3>1, <3>2
    <3>4. QED
      BY <2>10, <3>3 DEF f
  <2>12. balance'[u] + w + o = Funds[u] + v + ThanksReward * Received(u)' + p
    BY <2>3, <2>4, <2>10, <2>11 DEF b, earned
  <2>13. QED
    BY <1>1, <2>7, <2>12 DEF BooksOf, w, v, o, p
<1>9. QED
  <2>1. CASE \E from, to \in Users : GiveThanks(from, to)
    BY <1>7, <2>1 DEF GiveThanks, thanks
  <2>2. CASE Reciprocal
    BY <1>7, <2>2 DEF Reciprocal, thanks
  <2>3. CASE AddReward
    <3>1. job[c] \in ThanksJobs
      BY <1>0, <2>3, JobAt DEF AddReward, c
    <3>2. QED
      BY <1>7, <1>8, <2>3, <3>1 DEF AddReward, c
  <2>4. QED
    BY <2>1, <2>2, <2>3 DEF ThanksNext

LEMMA CrashKeepsBooks ==
    ASSUME Domains, Domains', Balanced, Crash PROVE Balanced'
<1> SUFFICES ASSUME NEW u \in Users, u \notin dented' PROVE BooksOf(u)'
  BY DEF Balanced
<1>1. u \notin dented /\ SpinsOf(u) = {}
  BY DEF Crash
<1>2. BooksOf(u)
  BY <1>1 DEF Balanced
<1>3. OwedTo(u) = 0 /\ PrizeOf(u) = 0
  BY <1>1, NothingOwed
<1>4. balance' = balance /\ games' = games /\ log' = log
      /\ job' = [c \in Chats |-> Idle]
  BY DEF Crash, thanks
<1>5. OwedTo(u)' = 0 /\ PrizeOf(u)' = 0
  <2> DEFINE zero == [c \in Chats |-> 0]
  <2>1. \A c \in Chats : job'[c].step = "idle"
    BY <1>4 DEF Idle
  <2>2. /\ [c \in Chats |-> Owed(job'[c], u)] = zero
        /\ [c \in Chats |-> Prize(job'[c], u)] = zero
    BY <2>1, NoShare
  <2>3. Together(zero) = 0
    <3>1. zero \in [Chats -> Nat] /\ \A c \in Chats : zero[c] = 0
      OBVIOUS
    <3> HIDE DEF zero
    <3>2. QED
      BY <3>1, TogetherNothing
  <2> HIDE DEF zero
  <2>4. QED
    BY <2>2, <2>3 DEF OwedTo, PrizeOf
<1>6. Received(u)' = Received(u)
  BY <1>4 DEF Received
<1>7. QED
  BY <1>2, <1>3, <1>4, <1>5, <1>6 DEF BooksOf

LEMMA BooksStep == Domains /\ Domains' /\ Balanced /\ [Next]_vars => Balanced'
<1> SUFFICES ASSUME Domains, Domains', Balanced, [Next]_vars PROVE Balanced'
  OBVIOUS
<1>1. CASE CasinoNext /\ UNCHANGED <<thanks, requests, passed>>
  BY <1>1, CasinoKeepsBooks DEF thanks
<1>2. CASE ThanksNext /\ UNCHANGED <<requests, passed>>
  BY <1>2, ThanksKeepBooks
<1>3. ASSUME UNCHANGED <<job, balance, games, dented, log>> PROVE Balanced'
  BY <1>3 DEF Balanced, BooksOf, OwedTo, PrizeOf, Received
<1>4. CASE LimiterNext \/ TimePasses \/ UNCHANGED vars
  BY <1>3, <1>4 DEF LimiterNext, TimePasses, vars, desk, casino, thanks
<1>5. CASE Crash
  BY <1>5, CrashKeepsBooks
<1>6. QED
  BY <1>1, <1>2, <1>4, <1>5 DEF Next

LEMMA BalancedBooks == Domains /\ Balanced => BooksAgree
<1> SUFFICES ASSUME Domains, Balanced PROVE BooksAgree
  OBVIOUS
<1>1. ASSUME NEW u \in Users PROVE balance[u] >= 0
  BY DEF Domains
<1>2. ASSUME NEW u \in Users \ dented, SpinsOf(u) = {}
      PROVE  balance[u] = Funds[u] - games[u].bet + games[u].won + ThanksReward * Received(u)
  <2>1. BooksOf(u) /\ OwedTo(u) = 0 /\ PrizeOf(u) = 0
    BY <1>2, NothingOwed DEF Balanced
  <2> DEFINE b == balance[u]  w == games[u].bet  v == games[u].won  f == Funds[u]
             earned == ThanksReward * Received(u)
  <2>2. b \in Nat /\ w \in Nat /\ v \in Nat /\ f \in Nat /\ earned \in Nat
    BY PlayerNumbers, ReceivedIsNumber, Settings, CasinoAssumption
  <2>3. b + w + 0 = f + v + earned + 0
    BY <2>1 DEF BooksOf
  <2>4. b = f - w + v + earned
    <3> HIDE DEF b, w, v, f, earned
    <3> QED BY <2>2, <2>3
  <2>5. QED
    BY <2>4
<1>3. QED
  BY <1>1, <1>2 DEF BooksAgree

\* PlaySlots and GiveThanks: the balance of a player whom no error met and no spin of
\* whom was cut short is what his recorded games and thanks make it (BooksAgree), for
\* any number of chats, any grids and payouts, and with spins of one player in several
\* chats at once.
THEOREM BooksAgreeCorrect == Spec => []BooksAgree
<1>1. Init => Domains /\ Balanced
  BY DomainsInit, BooksInit
<1>2. Domains /\ Balanced /\ [Next]_vars => (Domains /\ Balanced)'
  BY DomainsStep, BooksStep
<1>3. QED
  BY <1>1, <1>2, BalancedBooks, PTL DEF Spec

-----------------------------------------------------------------------------
(* The thanks.                                                             *)

LEMMA LogIs ==
    ASSUME Domains
    PROVE  /\ log \in Seq(ThanksRows) /\ Len(log) \in Nat /\ DOMAIN log = 1 .. Len(log)
           /\ \A i \in DOMAIN log : log[i] \in ThanksRows /\ log[i].at \in Nat /\ i \in Nat
           /\ now \in Nat
<1>1. log \in Seq(ThanksRows) /\ now \in Nat
  BY DEF Domains
<1>2. Len(log) \in Nat /\ DOMAIN log = 1 .. Len(log)
        /\ \A i \in DOMAIN log : log[i] \in ThanksRows /\ i \in Nat
  BY <1>1
<1>3. \A row \in ThanksRows : row.at \in Nat
  BY DEF ThanksRows
<1>4. QED
  BY <1>1, <1>2, <1>3

\* A row more.
LEMMA LogGrows ==
    ASSUME Domains, NEW row, log' = Append(log, row)
    PROVE  /\ DOMAIN log' = 1 .. (Len(log) + 1) /\ Len(log) + 1 \notin DOMAIN log
           /\ DOMAIN log' = DOMAIN log \cup {Len(log) + 1}
           /\ \A i \in DOMAIN log : log'[i] = log[i]
           /\ log'[Len(log) + 1] = row
<1>1. log \in Seq(ThanksRows) /\ Len(log) \in Nat /\ DOMAIN log = 1 .. Len(log)
  BY LogIs
<1>2. DOMAIN log' = 1 .. (Len(log) + 1)
  BY <1>1
<1>3. QED
  BY <1>1, <1>2

\* A step of the thanks, as what it does to the job of the source chat j and to the
\* rows: one is begun, goes on, ends without a row or ends with one.
Begins(j, from, to) ==
    /\ job[SourceChat] = Idle /\ j = [step |-> "thanks", from |-> from, to |-> to]
    /\ CountSentSince(from, dayStart(WallClock)) < Limit
    /\ log' = log
GoesOn(j) ==
    /\ job[SourceChat] \in ThanksJobs /\ job[SourceChat].step = "thanks"
    /\ j = [job[SourceChat] EXCEPT !.step = "reward"]
    /\ ~HasReciprocalSince(job[SourceChat].to, job[SourceChat].from, WallClock - Cooldown)
    /\ log' = log
Ends(j) == j = Idle /\ log' = log
Rewards(j) ==
    /\ job[SourceChat] \in ThanksJobs /\ job[SourceChat].step = "reward" /\ j = Idle
    /\ log' = Append(log, [from |-> job[SourceChat].from, to |-> job[SourceChat].to, at |-> now])

LEMMA ThanksStep ==
    ASSUME Domains, ThanksNext
    PROVE  /\ now' = now
           /\ LET j == job'[SourceChat]
              IN  \/ \E from, to \in Users : Begins(j, from, to)
                  \/ GoesOn(j) \/ Ends(j) \/ Rewards(j)
<1> DEFINE c == SourceChat
<1>0. c \in Chats
  BY Settings
<1>1. now' = now
  BY DEF ThanksNext, GiveThanks, Reciprocal, AddReward, thanks
<1> HIDE DEF c
<1>2. ASSUME NEW from \in Users, NEW to \in Users, GiveThanks(from, to)
      PROVE  Begins(job'[c], from, to)
  BY <1>0, <1>2 DEF GiveThanks, Begins, Domains, thanks, c
<1>3. ASSUME Reciprocal PROVE GoesOn(job'[c]) \/ Ends(job'[c])
  <2>1. At(c, "thanks") /\ log' = log
    BY <1>3 DEF Reciprocal, thanks, c
  <2>2. job[c] \in ThanksJobs /\ job[c].step = "thanks"
    BY <1>0, <2>1, JobAt DEF At
  <2>3. \/ Return(c)
        \/ ~HasReciprocalSince(job[c].to, job[c].from, WallClock - Cooldown) /\ Goto(c, "reward")
    BY <1>3 DEF Reciprocal, c
  <2>4. (Return(c) => job'[c] = Idle)
        /\ (Goto(c, "reward") => job'[c] = [job[c] EXCEPT !.step = "reward"])
    BY <1>0, JobMoves
  <2>5. QED
    BY <2>1, <2>2, <2>3, <2>4 DEF GoesOn, Ends, c
<1>4. ASSUME AddReward PROVE Ends(job'[c]) \/ Rewards(job'[c])
  <2>1. At(c, "reward") /\ Return(c)
    BY <1>4 DEF AddReward, c
  <2>2. job[c] \in ThanksJobs /\ job[c].step = "reward" /\ job'[c] = Idle
    BY <1>0, <2>1, JobAt, JobMoves DEF At
  <2>3. \/ log' = log
        \/ log' = Append(log, [from |-> job[c].from, to |-> job[c].to, at |-> now])
    BY <1>4 DEF AddReward, c
  <2>4. QED
    BY <2>2, <2>3 DEF Ends, Rewards, c
<1>5. QED
  BY <1>1, <1>2, <1>3, <1>4 DEF ThanksNext, c

\* No other step gives thanks: the rows stay, and the source chat keeps its job or is
\* left without a thanks under way.
LEMMA OtherSteps ==
    ASSUME Domains, Domains', [Next]_vars, ~ThanksNext
    PROVE  /\ log' = log
           /\ now' = now \/ (now' = now + 1 /\ job' = job)
           /\ job'[SourceChat] = job[SourceChat]
              \/ job'[SourceChat].step \notin {"thanks", "reward"}
<1> DEFINE c == SourceChat
<1>0. c \in Chats
  BY Settings
<1> HIDE DEF c
<1>1. CASE CasinoNext /\ UNCHANGED <<thanks, requests, passed>>
  <2>1. play' = "slots"
    <3>1. ASSUME NEW d \in Chats
          PROVE  /\ DeductBet(d) => At(d, "bet")
                 /\ Draw(d) => At(d, "draw")
                 /\ Refund(d) => At(d, "refund")
                 /\ PayWin(d) => At(d, "pay")
                 /\ UpdateStats(d) => At(d, "stats")
                 /\ AdjustRTP(d) => At(d, "rtp")
                 /\ SaveGame(d) => At(d, "save")
                 /\ \A u \in Users : PlaySlots(d, u) => play = "slots"
      BY DEF DeductBet, Draw, Refund, PayWin, UpdateStats, AdjustRTP, SaveGame, PlaySlots
    <3>2. play = "slots"
      BY <1>1, <3>1, JobAt DEF CasinoNext, SpinSteps
    <3>3. QED
      BY <1>1, <3>2
         DEF CasinoNext, PlaySlots, DeductBet, Draw, Refund, PayWin, UpdateStats, AdjustRTP, SaveGame
  <2>2. job'[c] \in {Idle} \cup SpinJobs
    BY <1>0, <2>1 DEF Domains, Jobs
  <2>3. job'[c].step \notin {"thanks", "reward"}
    BY <2>2 DEF Idle, SpinJobs, SpinSteps
  <2>4. QED
    BY <1>1, <2>3 DEF thanks, c
<1>2. CASE LimiterNext \/ TimePasses \/ UNCHANGED vars
  BY <1>2 DEF LimiterNext, TimePasses, vars, desk, thanks
<1>3. CASE Crash
  <2>1. job'[c] = Idle /\ log' = log /\ now' = now
    BY <1>0, <1>3 DEF Crash, thanks
  <2>2. QED
    BY <2>1 DEF Idle, c
<1>4. QED
  BY <1>1, <1>2, <1>3 DEF Next

\* No thanks is from the future.
Past == \A i \in DOMAIN log : log[i].at <= now

\* The thanks that job j returns are older than what is left of the cooldown.
Cool(j) ==
    j.step = "reward" =>
        \A i \in DOMAIN log : log[i].from = j.to /\ log[i].to = j.from
                                 => now - log[i].at > Cooldown - Zone

Cooled == Cool(job[SourceChat])

CoolInv == Past /\ Cooled /\ CooldownHolds

LEMMA CoolRewards ==
    ASSUME Domains, Domains', CoolInv, now' = now, Rewards(job'[SourceChat]) PROVE CoolInv'
<1> DEFINE k == job[SourceChat]
           row == [from |-> k.from, to |-> k.to, at |-> now]
           n == Len(log) + 1
<1>1. row.from = k.from /\ row.to = k.to /\ row.at = now
  OBVIOUS
<1>2. log' = Append(log, row) /\ k.step = "reward" /\ job'[SourceChat] = Idle
  BY DEF Rewards
<1>3. Cool(k)
  BY DEF CoolInv, Cooled
<1> HIDE DEF row, k
<1>4. /\ DOMAIN log' = DOMAIN log \cup {n}
      /\ \A i \in DOMAIN log : log'[i] = log[i]
      /\ log'[n] = row
  BY <1>2, LogGrows
<1>5. now \in Nat /\ Cooldown \in Nat /\ Zone \in Nat /\ n \in Nat
      /\ \A i \in DOMAIN log : log[i].at \in Nat /\ i < n /\ i \in Nat
  BY LogIs, Settings
<1> HIDE DEF n
<1>6. Past'
  BY <1>1, <1>4, <1>5 DEF CoolInv, Past
<1>7. CooldownHolds'
  <2>1. SUFFICES ASSUME NEW i \in DOMAIN log', NEW j \in DOMAIN log', i < j,
                        log'[i].from = log'[j].to, log'[i].to = log'[j].from
                 PROVE  log'[j].at - log'[i].at > Cooldown - Zone
    BY DEF CooldownHolds
  <2>2. CASE j # n
    <3>1. i \in DOMAIN log /\ j \in DOMAIN log
      BY <1>4, <1>5, <2>1, <2>2
    <3>2. QED
      BY <1>4, <2>1, <3>1 DEF CoolInv, CooldownHolds
  <2>3. CASE j = n
    <3>1. i \in DOMAIN log
      BY <1>4, <1>5, <2>1, <2>3
    <3>2. now - log[i].at > Cooldown - Zone
      BY <1>1, <1>2, <1>3, <1>4, <2>1, <2>3, <3>1 DEF Cool
    <3>3. QED
      BY <1>1, <1>4, <2>3, <3>1, <3>2
  <2>4. QED
    BY <2>2, <2>3
<1>8. Cooled'
  BY <1>2 DEF Cooled, Cool, Idle
<1>9. QED
  BY <1>6, <1>7, <1>8 DEF CoolInv

LEMMA CoolStep ==
    ASSUME Domains, Domains', CoolInv, [Next]_vars PROVE CoolInv'
<1> DEFINE k == job[SourceChat]
<1>1. now \in Nat /\ Cooldown \in Nat /\ Zone \in Nat /\ \A i \in DOMAIN log : log[i].at \in Nat
  BY LogIs, Settings
<1>2. ASSUME log' = log, now' \in {now, now + 1}, k' = k \/ k'.step # "reward" PROVE CoolInv'
  <2>1. Past' /\ CooldownHolds'
    BY <1>1, <1>2 DEF CoolInv, Past, CooldownHolds
  <2>2. Cooled'
    <3>1. CASE k' = k
      <4>1. SUFFICES ASSUME k.step = "reward", NEW i \in DOMAIN log,
                            log[i].from = k.to, log[i].to = k.from
                     PROVE  now' - log[i].at > Cooldown - Zone
        BY <1>2, <3>1 DEF Cooled, Cool
      <4>2. now - log[i].at > Cooldown - Zone
        BY <4>1 DEF CoolInv, Cooled, Cool
      <4>3. QED
        BY <1>1, <1>2, <4>2
    <3>2. CASE k'.step # "reward"
      BY <3>2 DEF Cooled, Cool
    <3>3. QED
      BY <1>2, <3>1, <3>2
  <2>3. QED
    BY <2>1, <2>2 DEF CoolInv
<1>3. CASE ThanksNext
  <2>1. /\ now' = now
        /\ \/ \E from, to \in Users : Begins(k', from, to)
           \/ GoesOn(k') \/ Ends(k') \/ Rewards(k')
    BY <1>3, ThanksStep
  <2>2. ASSUME NEW from \in Users, NEW to \in Users, Begins(k', from, to) PROVE CoolInv'
    <3>1. k' = [step |-> "thanks", from |-> from, to |-> to] /\ log' = log
      BY <2>2 DEF Begins
    <3>2. k'.step # "reward"
      BY <3>1
    <3>3. QED
      BY <1>2, <2>1, <3>1, <3>2
  <2>3. CASE GoesOn(k')
    <3>1. /\ k \in ThanksJobs /\ k' = [k EXCEPT !.step = "reward"] /\ log' = log
          /\ ~HasReciprocalSince(k.to, k.from, WallClock - Cooldown)
      BY <2>3 DEF GoesOn
    <3>2. k'.to = k.to /\ k'.from = k.from
      BY <3>1 DEF ThanksJobs
    <3>3. Past' /\ CooldownHolds'
      BY <2>1, <3>1 DEF CoolInv, Past, CooldownHolds
    <3>4. ASSUME NEW i \in DOMAIN log, log[i].from = k.to, log[i].to = k.from
          PROVE  now - log[i].at > Cooldown - Zone
      <4>1. ~(log[i].at >= (now + Zone) - Cooldown)
        BY <3>1, <3>4 DEF HasReciprocalSince, WallClock
      <4>2. QED
        BY <1>1, <4>1
    <3>5. Cooled'
      BY <2>1, <3>1, <3>2, <3>4 DEF Cooled, Cool
    <3>6. QED
      BY <3>3, <3>5 DEF CoolInv
  <2>4. CASE Rewards(k')
    BY <2>1, <2>4, CoolRewards
  <2>5. CASE Ends(k')
    BY <1>2, <2>1, <2>5 DEF Ends, Idle
  <2>6. QED
    BY <2>1, <2>2, <2>3, <2>4, <2>5
<1>4. CASE ~ThanksNext
  BY <1>2, <1>4, OtherSteps
<1>5. QED
  BY <1>3, <1>4

LEMMA CoolInit == Init => CoolInv
<1> SUFFICES ASSUME Init PROVE CoolInv
  OBVIOUS
<1>1. log = <<>> /\ job[SourceChat] = Idle
  BY Settings DEF Init, InitCasino, InitThanks
<1>2. QED
  BY <1>1 DEF CoolInv, Past, Cooled, Cool, CooldownHolds, Idle

\* HasReciprocalSince: no thanks is returned before what the distance of the clocks
\* leaves of the cooldown is over (CooldownHolds), whatever that distance.
THEOREM CooldownHoldsCorrect == Spec => []CooldownHolds
<1>1. Init => Domains /\ CoolInv
  BY CoolInit, DomainsInit
<1>2. Domains /\ CoolInv /\ [Next]_vars => (Domains /\ CoolInv)'
  BY DomainsStep, CoolStep
<1>3. Domains /\ CoolInv => CooldownHolds
  BY DEF CoolInv
<1>4. QED
  BY <1>1, <1>2, <1>3, PTL DEF Spec

\* The day of a moment.
LEMMA DayIs ==
    ASSUME NEW t \in Nat
    PROVE  t \div Day \in Nat /\ (t \div Day) * Day <= t /\ t < (t \div Day) * Day + Day
<1>1. Day \in Nat /\ Day > 0
  BY Settings
<1>2. QED
  BY <1>1

LEMMA TimesMore ==
    ASSUME NEW q \in Nat, NEW r \in Nat, r < q, NEW k \in Nat PROVE r * k + k <= q * k
<1>1. PICK e \in Nat : q = r + 1 + e
  <2>1. q - r - 1 \in Nat /\ q = r + 1 + (q - r - 1)
    OBVIOUS
  <2>2. QED
    BY <2>1
<1>2. q * k = r * k + k + e * k
  BY <1>1
<1>3. e * k \in Nat /\ r * k \in Nat
  OBVIOUS
<1>4. QED
  BY <1>2, <1>3

LEMMA DaysFollow ==
    ASSUME NEW t \in Nat, NEW v \in Nat, t <= v PROVE t \div Day <= v \div Day
<1> DEFINE q == t \div Day  r == v \div Day
<1>1. q \in Nat /\ r \in Nat /\ q * Day <= t /\ v < r * Day + Day
  BY DayIs
<1> HIDE DEF q, r
<1>2. SUFFICES ASSUME r < q PROVE FALSE
  BY <1>1 DEF q, r
<1>3. r * Day + Day <= q * Day
  BY <1>1, <1>2, TimesMore, Settings
<1>4. r * Day \in Nat /\ q * Day \in Nat /\ Day \in Nat
  BY <1>1, Settings
<1>5. QED
  BY <1>1, <1>3, <1>4

\* The thanks member u gave on day d that the database dates to that day too.
Dated(u, d) == {i \in Given(u, d) : log[i].at \div Day = d}

\* Of those there are at most Limit on any day; and a thanks under way, which was
\* looked up on this day or an earlier one, finds room on this day and all later ones.
WithinLimit == \A u \in Users : \A d \in Nat : Cardinality(Dated(u, d)) <= Limit
Room(j) ==
    j.step \in {"thanks", "reward"} =>
        \A d \in Nat : LocalDay(now) <= d => Cardinality(Dated(j.from, d)) < Limit

Limited == WithinLimit /\ Room(job[SourceChat])

LimitInv == Past /\ Limited

LEMMA DatedFinite ==
    ASSUME Domains, NEW u, NEW d
    PROVE  IsFiniteSet(Dated(u, d)) /\ Cardinality(Dated(u, d)) \in Nat
<1>1. IsFiniteSet(DOMAIN log)
  BY LogIs, FS_Interval
<1>2. Dated(u, d) \subseteq DOMAIN log
  BY DEF Dated, Given
<1>3. QED
  BY <1>1, <1>2, FS_Subset, FS_CardinalityType

\* What the look at the limit counts is at least what is dated to the day of the bot's
\* clock, and of later days there is nothing yet.
LEMMA LookedUp ==
    ASSUME Domains, Past, NEW u, CountSentSince(u, dayStart(WallClock)) < Limit,
           NEW d \in Nat, LocalDay(now) <= d
    PROVE  Cardinality(Dated(u, d)) < Limit
<1> DEFINE since == dayStart(WallClock)
           sent == {i \in DOMAIN log : log[i].from = u /\ log[i].at >= since}
           today == LocalDay(now)
<1>1. since = today * Day /\ today \in Nat /\ Limit \in Nat /\ now \in Nat /\ now + Zone \in Nat
  <2>1. now \in Nat /\ Zone \in Nat /\ Limit \in Nat
    BY LogIs, Settings
  <2>2. (now + Zone) \div Day \in Nat
    BY <2>1, DayIs
  <2>3. QED
    BY <2>1, <2>2 DEF dayStart, WallClock, LocalDay
<1>2. Cardinality(sent) < Limit
  BY DEF CountSentSince
<1>3. IsFiniteSet(sent)
  <2>1. IsFiniteSet(DOMAIN log) /\ sent \subseteq DOMAIN log
    BY LogIs, FS_Interval
  <2> HIDE DEF sent
  <2>2. QED
    BY <2>1, FS_Subset
<1>4. Cardinality(sent) \in Nat
  <2> HIDE DEF sent
  <2> QED BY <1>3, FS_CardinalityType
<1>5. CASE d = today
  <2>1. ASSUME NEW i \in Dated(u, d) PROVE i \in sent
    <3>1. i \in DOMAIN log /\ log[i].from = u /\ log[i].at \in Nat /\ log[i].at \div Day = d
      BY LogIs DEF Dated, Given
    <3>2. (log[i].at \div Day) * Day <= log[i].at
      BY <3>1, DayIs
    <3>3. log[i].at >= since
      <4> HIDE DEF since, today
      <4> QED BY <1>1, <1>5, <3>1, <3>2, Settings
    <3>4. QED
      BY <3>1, <3>3
  <2> HIDE DEF sent, since, today
  <2>2. Cardinality(Dated(u, d)) <= Cardinality(sent)
    BY <1>3, <2>1, FS_Subset
  <2>3. QED
    BY <1>1, <1>2, <1>4, <2>2, DatedFinite
<1>6. CASE d # today
  <2>1. ASSUME NEW i \in Dated(u, d) PROVE FALSE
    <3>1. i \in DOMAIN log /\ log[i].at \in Nat /\ log[i].at <= now /\ (log[i].at + Zone) \div Day = d
      BY LogIs DEF Dated, Given, LocalDay, Past
    <3>2. log[i].at + Zone \in Nat /\ log[i].at + Zone <= now + Zone
      BY <1>1, <3>1, Settings
    <3>3. (log[i].at + Zone) \div Day <= today
      BY <1>1, <3>2, DaysFollow DEF LocalDay
    <3> HIDE DEF today
    <3>4. QED
      BY <1>1, <1>6, <3>1, <3>3 DEF today
  <2>2. Cardinality(Dated(u, d)) = 0
    BY <2>1, FS_EmptySet
  <2> HIDE DEF sent, since, today
  <2>3. QED
    BY <1>1, <1>2, <1>4, <2>2
<1>7. QED
  BY <1>5, <1>6

LEMMA DatedGrows ==
    ASSUME Domains, NEW row, log' = Append(log, row), NEW u, NEW d
    PROVE  \/ Cardinality(Dated(u, d)') = Cardinality(Dated(u, d))
           \/ /\ row.from = u /\ LocalDay(row.at) = d
              /\ Cardinality(Dated(u, d)') = Cardinality(Dated(u, d)) + 1
<1> DEFINE n == Len(log) + 1
           more == row.from = u /\ LocalDay(row.at) = d /\ row.at \div Day = d
<1>1. /\ DOMAIN log' = DOMAIN log \cup {n} /\ n \notin DOMAIN log
      /\ \A i \in DOMAIN log : log'[i] = log[i]
      /\ log'[n] = row
  BY LogGrows
<1> HIDE DEF n
<1>2. Dated(u, d)' = IF more THEN Dated(u, d) \cup {n} ELSE Dated(u, d)
  BY <1>1 DEF Dated, Given, LocalDay
<1>3. IsFiniteSet(Dated(u, d)) /\ n \notin Dated(u, d)
  BY <1>1, DatedFinite DEF Dated, Given
<1>4. Cardinality(Dated(u, d) \cup {n}) = Cardinality(Dated(u, d)) + 1
  BY <1>3, FS_AddElement
<1>5. QED
  BY <1>2, <1>4

LEMMA LimitRewards ==
    ASSUME Domains, Domains', LimitInv, now' = now, Rewards(job'[SourceChat]) PROVE LimitInv'
<1> DEFINE k == job[SourceChat]
           row == [from |-> k.from, to |-> k.to, at |-> now]
<1>1. row.from = k.from /\ row.at = now
  OBVIOUS
<1>2. log' = Append(log, row) /\ k.step = "reward" /\ job'[SourceChat] = Idle
  BY DEF Rewards
<1> HIDE DEF row, k
<1>3. Past'
  <2>1. now \in Nat
    BY LogIs
  <2>2. QED
    BY <1>1, <1>2, <2>1, LogGrows DEF LimitInv, Past
<1>4. WithinLimit'
  <2>1. SUFFICES ASSUME NEW u \in Users, NEW d \in Nat PROVE Cardinality(Dated(u, d)') <= Limit
    BY DEF WithinLimit
  <2>2. Cardinality(Dated(u, d)) <= Limit /\ Cardinality(Dated(u, d)) \in Nat /\ Limit \in Nat
    BY DatedFinite, Settings DEF LimitInv, Limited, WithinLimit
  <2>3. CASE Cardinality(Dated(u, d)') = Cardinality(Dated(u, d))
    BY <2>2, <2>3
  <2>4. CASE /\ row.from = u /\ LocalDay(row.at) = d
             /\ Cardinality(Dated(u, d)') = Cardinality(Dated(u, d)) + 1
    <3>1. Room(k)
      BY DEF LimitInv, Limited, k
    <3>2. Cardinality(Dated(u, d)) < Limit
      BY <1>1, <1>2, <2>4, <3>1 DEF Room
    <3>3. QED
      BY <2>2, <2>4, <3>2
  <2>5. QED
    BY <1>2, <2>3, <2>4, DatedGrows
<1>5. Room(job[SourceChat])'
  BY <1>2 DEF Room, Idle
<1>6. QED
  BY <1>3, <1>4, <1>5 DEF LimitInv, Limited

LEMMA LimitStep ==
    ASSUME Domains, Domains', LimitInv, [Next]_vars PROVE LimitInv'
<1> DEFINE k == job[SourceChat]
<1>0. now \in Nat /\ Zone \in Nat
  BY LogIs, Settings
<1>1. ASSUME log' = log, now' \in {now, now + 1}
      PROVE  /\ Past' /\ WithinLimit' /\ \A u, d : Dated(u, d)' = Dated(u, d)
             /\ \A d \in Nat : LocalDay(now)' <= d => LocalDay(now) <= d
  <2>1. \A u, d : Dated(u, d)' = Dated(u, d)
    BY <1>1 DEF Dated, Given, LocalDay
  <2>2. WithinLimit'
    BY <2>1 DEF LimitInv, Limited, WithinLimit
  <2>3. Past'
    <3>1. \A i \in DOMAIN log : log[i].at \in Nat
      BY LogIs
    <3>2. QED
      BY <1>0, <1>1, <3>1 DEF LimitInv, Past
  <2>4. LocalDay(now) <= LocalDay(now)' /\ LocalDay(now) \in Nat /\ LocalDay(now)' \in Nat
    <3> DEFINE new == now'
    <3>0. new = now \/ new = now + 1
      BY <1>1
    <3> HIDE DEF new
    <3>1. now + Zone \in Nat /\ new + Zone \in Nat /\ now + Zone <= new + Zone
      BY <1>0, <3>0
    <3> USE DEF new
    <3>2. QED
      BY <3>1, DaysFollow, DayIs DEF LocalDay
  <2>5. \A d \in Nat : LocalDay(now)' <= d => LocalDay(now) <= d
    BY <2>4
  <2>6. QED
    BY <2>1, <2>2, <2>3, <2>5
<1>2. ASSUME log' = log, now' \in {now, now + 1},
             \/ k' = k
             \/ k'.step \notin {"thanks", "reward"}
             \/ k.step \in {"thanks", "reward"} /\ k'.from = k.from
      PROVE  LimitInv'
  <2>1. /\ Past' /\ WithinLimit' /\ \A u, d : Dated(u, d)' = Dated(u, d)
        /\ \A d \in Nat : LocalDay(now)' <= d => LocalDay(now) <= d
    BY <1>1, <1>2
  <2>2. Room(k)
    BY DEF LimitInv, Limited
  <2> HIDE DEF k
  <2>3. ASSUME k'.step \in {"thanks", "reward"}, NEW d \in Nat, LocalDay(now)' <= d
        PROVE  Cardinality(Dated(k.from, d))' < Limit
    <3>1. k.step \in {"thanks", "reward"} /\ k'.from = k.from
      BY <1>2, <2>3
    <3>2. Cardinality(Dated(k.from, d)) < Limit
      BY <2>1, <2>2, <2>3, <3>1 DEF Room
    <3>3. Dated(k.from, d)' = Dated(k.from, d)
      BY <1>2, <3>1 DEF Dated, Given, LocalDay
    <3>4. QED
      BY <3>2, <3>3
  <2>4. Room(k)'
    BY <2>3 DEF Room
  <2>5. QED
    BY <2>1, <2>4 DEF LimitInv, Limited, k
<1>3. CASE ThanksNext
  <2>1. /\ now' = now
        /\ \/ \E from, to \in Users : Begins(k', from, to)
           \/ GoesOn(k') \/ Ends(k') \/ Rewards(k')
    BY <1>3, ThanksStep
  <2>2. ASSUME NEW from \in Users, NEW to \in Users, Begins(k', from, to) PROVE LimitInv'
    <3>1. /\ k' = [step |-> "thanks", from |-> from, to |-> to]
          /\ CountSentSince(from, dayStart(WallClock)) < Limit /\ log' = log
      BY <2>2 DEF Begins
    <3>2. /\ Past' /\ WithinLimit' /\ \A u, d : Dated(u, d)' = Dated(u, d)
          /\ \A d \in Nat : LocalDay(now)' <= d => LocalDay(now) <= d
      BY <1>1, <2>1, <3>1
    <3>3. ASSUME NEW d \in Nat, LocalDay(now)' <= d
          PROVE  Cardinality(Dated(from, d)') < Limit
      <4>1. Cardinality(Dated(from, d)) < Limit
        BY <3>1, <3>2, <3>3, LookedUp DEF LimitInv
      <4>2. QED
        BY <3>2, <4>1
    <3>4. Room(k)'
      BY <3>1, <3>3 DEF Room
    <3>5. QED
      BY <3>2, <3>4 DEF LimitInv, Limited
  <2>3. CASE GoesOn(k')
    <3>1. k \in ThanksJobs /\ k.step = "thanks" /\ k' = [k EXCEPT !.step = "reward"] /\ log' = log
      BY <2>3 DEF GoesOn
    <3>2. k'.from = k.from
      BY <3>1 DEF ThanksJobs
    <3>3. QED
      BY <1>2, <2>1, <3>1, <3>2
  <2>4. CASE Ends(k')
    BY <1>2, <2>1, <2>4 DEF Ends, Idle
  <2>5. CASE Rewards(k')
    BY <2>1, <2>5, LimitRewards
  <2>6. QED
    BY <2>1, <2>2, <2>3, <2>4, <2>5
<1>4. CASE ~ThanksNext
  BY <1>2, <1>4, OtherSteps
<1>5. QED
  BY <1>3, <1>4

LEMMA LimitInit == Init => LimitInv
<1> SUFFICES ASSUME Init PROVE LimitInv
  OBVIOUS
<1>1. log = <<>> /\ job[SourceChat] = Idle
  BY Settings DEF Init, InitCasino, InitThanks
<1>2. \A u, d : Cardinality(Dated(u, d)) = 0
  <2>1. \A u, d : Dated(u, d) = {}
    BY <1>1 DEF Dated, Given
  <2>2. QED
    BY <2>1, FS_EmptySet
<1>3. QED
  BY <1>1, <1>2, Settings DEF LimitInv, Past, Limited, WithinLimit, Room, Idle

LEMMA LimitHolds == Domains /\ LimitInv => DatedThanksWithinLimit
<1> SUFFICES ASSUME Domains, LimitInv, NEW u \in Users, NEW i \in DOMAIN log
             PROVE  Cardinality(Dated(u, LocalDay(log[i].at))) <= Limit
  BY DEF DatedThanksWithinLimit, Dated
<1>1. LocalDay(log[i].at) \in Nat
  <2>1. log[i].at + Zone \in Nat
    BY LogIs, Settings
  <2>2. QED
    BY <2>1, DayIs DEF LocalDay
<1>2. QED
  BY <1>1 DEF LimitInv, Limited, WithinLimit

\* CountSentSince and AddReward: of the thanks that a member gave on a day and that the
\* database dates to it there are never more than the limit (DatedThanksWithinLimit),
\* whatever the distance of the clocks, the limit and the length of the day, and even
\* when midnight comes between the look at the limit and the row.
THEOREM DatedThanksWithinLimitCorrect == Spec => []DatedThanksWithinLimit
<1>1. Init => Domains /\ LimitInv
  BY DomainsInit, LimitInit
<1>2. Domains /\ LimitInv /\ [Next]_vars => (Domains /\ LimitInv)'
  BY DomainsStep, LimitStep
<1>3. QED
  BY <1>1, <1>2, LimitHolds, PTL DEF Spec

-----------------------------------------------------------------------------
(* The rate limiter.                                                       *)

\* The messages of p in the window that ends at t, and the rows of the
\* messages that a window ending at n still counts.
InWindow(p, t) == {i \in DOMAIN p : p[i] \in (t - Window + 1) .. t}
MessagesKept(p, n) == {[no |-> i, at |-> p[i]] : i \in {k \in DOMAIN p : p[k] > n - Window}}

\* The limiter remembers in r what it needs to know of the messages p it let
\* through until n, and no window so far holds too many of them.
Remembers(p, r, n) ==
    /\ p \in Seq(Nat) /\ \A i \in DOMAIN p : p[i] <= n
    /\ IsFiniteSet(r) /\ MessagesKept(p, n) \subseteq r
    /\ \A t \in 0 .. n : Cardinality(InWindow(p, t)) <= Requests

LEMMA SentIs ==
    ASSUME NEW p \in Seq(Nat)
    PROVE  /\ Len(p) \in Nat /\ DOMAIN p = 1 .. Len(p) /\ IsFiniteSet(DOMAIN p)
           /\ \A i \in DOMAIN p : p[i] \in Nat
<1>1. Len(p) \in Nat /\ DOMAIN p = 1 .. Len(p) /\ \A i \in DOMAIN p : p[i] \in Nat
  OBVIOUS
<1>2. QED
  BY <1>1, FS_Interval

LEMMA WindowFinite ==
    ASSUME NEW p \in Seq(Nat), NEW t
    PROVE  IsFiniteSet(InWindow(p, t)) /\ Cardinality(InWindow(p, t)) \in Nat
<1>1. InWindow(p, t) \subseteq DOMAIN p
  BY DEF InWindow
<1>2. QED
  BY <1>1, SentIs, FS_Subset, FS_CardinalityType

LEMMA RemembersLater ==
    ASSUME NEW p, NEW r, NEW n \in Nat, Remembers(p, r, n)
    PROVE  Remembers(p, r, n + 1)
<1>1. p \in Seq(Nat) /\ (\A i \in DOMAIN p : p[i] <= n /\ p[i] \in Nat) /\ Window \in Nat /\ Window > 0
  BY SentIs, Settings DEF Remembers
<1>2. MessagesKept(p, n + 1) \subseteq MessagesKept(p, n)
  BY <1>1 DEF MessagesKept
<1>3. Cardinality(InWindow(p, n + 1)) <= Requests
  <2>1. InWindow(p, n + 1) \subseteq InWindow(p, n)
    BY <1>1 DEF InWindow
  <2>2. Cardinality(InWindow(p, n + 1)) <= Cardinality(InWindow(p, n))
    BY <1>1, <2>1, WindowFinite, FS_Subset
  <2>3. Cardinality(InWindow(p, n)) <= Requests
    BY DEF Remembers
  <2>4. QED
    BY <1>1, <2>2, <2>3, WindowFinite, Settings
<1>4. ASSUME NEW t \in 0 .. (n + 1) PROVE Cardinality(InWindow(p, t)) <= Requests
  <2>1. t \in 0 .. n \/ t = n + 1
    OBVIOUS
  <2>2. QED
    BY <1>3, <2>1 DEF Remembers
<1>5. \A i \in DOMAIN p : p[i] <= n + 1
  BY <1>1
<1>6. QED
  BY <1>1, <1>2, <1>4, <1>5 DEF Remembers

LEMMA RemembersPruned ==
    ASSUME NEW p, NEW r, NEW n \in Nat, Remembers(p, r, n)
    PROVE  Remembers(p, {request \in r : request.at > n - Window}, n)
<1> DEFINE kept == {request \in r : request.at > n - Window}
<1>1. IsFiniteSet(kept)
  <2>1. IsFiniteSet(r) /\ kept \subseteq r
    BY DEF Remembers
  <2> HIDE DEF kept
  <2>2. QED
    BY <2>1, FS_Subset
<1>2. MessagesKept(p, n) \subseteq kept
  BY DEF Remembers, MessagesKept
<1> HIDE DEF kept
<1>3. Remembers(p, kept, n)
  BY <1>1, <1>2 DEF Remembers
<1>4. QED
  BY <1>3 DEF kept

\* One row for each message in the window.
LEMMA WindowIsRemembered ==
    ASSUME NEW p, NEW r, NEW n \in Nat, Remembers(p, r, n)
    PROVE  Cardinality(InWindow(p, n)) <= Cardinality(r)
<1> DEFINE I == InWindow(p, n)
           f == [i \in I |-> [no |-> i, at |-> p[i]]]
<1>1. \A i \in I : [no |-> i, at |-> p[i]] \in r
  <2>1. \A i \in I : i \in DOMAIN p /\ p[i] > n - Window
    BY SentIs, Settings DEF InWindow, Remembers
  <2>2. QED
    BY <2>1 DEF Remembers, MessagesKept
<1>2. f \in Injection(I, r)
  BY <1>1 DEF Injection, IsInjective
<1>3. QED
  <2> HIDE DEF f
  <2>1. Cardinality(I) <= Cardinality(r)
    BY <1>2, FS_Injection DEF Remembers
  <2>2. QED
    BY <2>1

\* A message is let through when fewer than Requests are remembered.
LEMMA RemembersPassed ==
    ASSUME NEW p, NEW r, NEW n \in Nat, Remembers(p, r, n), Cardinality(r) < Requests
    PROVE  Remembers(Append(p, n), r \cup {[no |-> Len(p) + 1, at |-> n]}, n)
<1> DEFINE q == Append(p, n)
           new == Len(p) + 1
           s == r \cup {[no |-> new, at |-> n]}
<1>1. /\ p \in Seq(Nat) /\ Len(p) \in Nat /\ DOMAIN p = 1 .. Len(p) /\ IsFiniteSet(r)
      /\ \A i \in DOMAIN p : p[i] \in Nat /\ p[i] <= n
  BY SentIs DEF Remembers
<1>2. /\ q \in Seq(Nat) /\ DOMAIN q = DOMAIN p \cup {new} /\ new \notin DOMAIN p
      /\ q[new] = n /\ \A i \in DOMAIN p : q[i] = p[i]
  BY <1>1
<1> HIDE DEF q, new
<1>3. \A i \in DOMAIN q : q[i] <= n
  BY <1>1, <1>2
<1>4. IsFiniteSet(s)
  BY <1>1, FS_AddElement
<1>5. MessagesKept(q, n) \subseteq s
  <2>1. SUFFICES ASSUME NEW i \in DOMAIN q, q[i] > n - Window PROVE [no |-> i, at |-> q[i]] \in s
    BY DEF MessagesKept
  <2>2. CASE i = new
    BY <1>2, <2>2
  <2>3. CASE i \in DOMAIN p
    BY <1>2, <2>1, <2>3 DEF Remembers, MessagesKept
  <2>4. QED
    BY <1>2, <2>2, <2>3
<1>6. ASSUME NEW t \in 0 .. n PROVE Cardinality(InWindow(q, t)) <= Requests
  <2>1. Window \in Nat /\ Window > 0 /\ Requests \in Nat
    BY Settings
  <2>2. CASE t < n
    <3>1. InWindow(q, t) = InWindow(p, t)
      BY <1>1, <1>2, <2>1, <2>2 DEF InWindow
    <3>2. QED
      BY <3>1 DEF Remembers
  <2>3. CASE t = n
    <3>1. InWindow(q, n) = InWindow(p, n) \cup {new}
      BY <1>1, <1>2, <2>1 DEF InWindow
    <3>2. new \notin InWindow(p, n) /\ IsFiniteSet(InWindow(p, n))
      BY <1>1, <1>2, WindowFinite DEF InWindow
    <3>3. Cardinality(InWindow(q, n)) = Cardinality(InWindow(p, n)) + 1
      BY <3>1, <3>2, FS_AddElement
    <3>4. Cardinality(InWindow(p, n)) <= Cardinality(r) /\ Cardinality(InWindow(p, n)) \in Nat
          /\ Cardinality(r) \in Nat
      BY <1>1, WindowIsRemembered, WindowFinite, FS_CardinalityType
    <3>5. QED
      BY <2>1, <2>3, <3>3, <3>4
  <2>4. QED
    BY <2>2, <2>3
<1>7. Remembers(q, s, n)
  BY <1>2, <1>3, <1>4, <1>5, <1>6 DEF Remembers
<1>8. QED
  BY <1>7 DEF q, new

LEMMA RemembersNothing ==
    ASSUME NEW n \in Nat PROVE Remembers(<<>>, {}, n)
<1>1. \A t : InWindow(<<>>, t) = {}
  BY DEF InWindow
<1>2. MessagesKept(<<>>, n) = {}
  BY DEF MessagesKept
<1>3. <<>> \in Seq(Nat) /\ IsFiniteSet({}) /\ Cardinality({}) = 0 /\ Requests \in Nat
  BY FS_EmptySet, Settings
<1>4. ASSUME NEW t \in 0 .. n PROVE Cardinality(InWindow(<<>>, t)) <= Requests
  <2>1. InWindow(<<>>, t) = {}
    BY <1>1
  <2>2. Cardinality(InWindow(<<>>, t)) = 0
    BY <2>1, FS_EmptySet, Zenon
  <2>3. 0 <= Requests
    BY Settings
  <2>4. QED
    BY <2>2, <2>3
<1>5. QED
  BY <1>2, <1>3, <1>4 DEF Remembers

\* In every process.
LimiterInv ==
    /\ now \in Nat
    /\ passed = [u \in Users |-> passed[u]] /\ requests = [u \in Users |-> requests[u]]
    /\ \A u \in Users : Remembers(passed[u], requests[u], now)

LEMMA LimiterInit == Init => LimiterInv
<1> SUFFICES ASSUME Init PROVE LimiterInv
  OBVIOUS
<1>1. now = 0 /\ passed = [u \in Users |-> <<>>] /\ requests = [u \in Users |-> {}]
  BY DEF Init, InitThanks, InitLimiter
<1>2. Remembers(<<>>, {}, 0)
  BY RemembersNothing
<1>3. QED
  BY <1>1, <1>2 DEF LimiterInv

LEMMA LimiterStep == LimiterInv /\ [Next]_vars => LimiterInv'
<1> SUFFICES ASSUME LimiterInv, [Next]_vars PROVE LimiterInv'
  OBVIOUS
<1>1. now \in Nat
  BY DEF LimiterInv
<1>2. ASSUME UNCHANGED <<now, requests, passed>> PROVE LimiterInv'
  BY <1>2 DEF LimiterInv
<1>3. CASE \/ CasinoNext /\ UNCHANGED <<thanks, requests, passed>>
           \/ UNCHANGED vars
  BY <1>2, <1>3 DEF thanks, vars
<1>4. CASE ThanksNext /\ UNCHANGED <<requests, passed>>
  BY <1>2, <1>4 DEF ThanksNext, GiveThanks, Reciprocal, AddReward, thanks
<1>5. CASE TimePasses
  <2>1. now' = now + 1 /\ UNCHANGED <<requests, passed>>
    BY <1>5 DEF TimePasses
  <2>2. \A u \in Users : Remembers(passed[u], requests[u], now + 1)
    BY <1>1, RemembersLater DEF LimiterInv
  <2>3. QED
    BY <1>1, <2>1, <2>2 DEF LimiterInv
<1>6. CASE Crash
  <2>1. now' = now /\ passed' = [u \in Users |-> <<>>] /\ requests' = [u \in Users |-> {}]
    BY <1>6 DEF Crash, thanks
  <2>2. Remembers(<<>>, {}, now)
    BY <1>1, RemembersNothing
  <2>3. QED
    BY <1>1, <2>1, <2>2 DEF LimiterInv
<1>7. CASE LimiterNext
  <2>1. now' = now
    BY <1>7 DEF LimiterNext, thanks
  <2>2. CASE cleanup
    <3>1. requests' = [u \in Users |-> {request \in requests[u] : request.at > now - Window}]
            /\ passed' = passed
      BY <2>2 DEF cleanup, Prune
    <3>2. \A u \in Users :
            Remembers(passed[u], {request \in requests[u] : request.at > now - Window}, now)
      BY <1>1, RemembersPruned DEF LimiterInv
    <3>3. QED
      BY <1>1, <2>1, <3>1, <3>2 DEF LimiterInv
  <2>3. ASSUME NEW u \in Users, Allow(u) PROVE LimiterInv'
    <3> DEFINE recent == Prune(requests[u])
               row == [no |-> Len(passed[u]) + 1, at |-> now]
    <3>1. Remembers(passed[u], recent, now)
      BY <1>1, RemembersPruned DEF LimiterInv, Prune
    <3>2. \/ requests' = [requests EXCEPT ![u] = recent] /\ passed' = passed
          \/ /\ ~(Cardinality(recent) >= Requests)
             /\ requests' = [requests EXCEPT ![u] = recent \cup {row}]
             /\ passed' = [passed EXCEPT ![u] = Append(@, now)]
      BY <2>3 DEF Allow
    <3> HIDE DEF recent
    <3>3. CASE requests' = [requests EXCEPT ![u] = recent] /\ passed' = passed
      <4>1. /\ \A v \in Users : v # u => requests'[v] = requests[v]
            /\ requests'[u] = recent /\ requests' = [v \in Users |-> requests'[v]]
        BY <3>3 DEF LimiterInv
      <4>2. QED
        BY <2>1, <3>1, <3>3, <4>1 DEF LimiterInv
    <3>4. CASE /\ ~(Cardinality(recent) >= Requests)
               /\ requests' = [requests EXCEPT ![u] = recent \cup {row}]
               /\ passed' = [passed EXCEPT ![u] = Append(@, now)]
      <4>1. Cardinality(recent) < Requests
        BY <3>1, <3>4, FS_CardinalityType, Settings DEF Remembers
      <4>2. Remembers(Append(passed[u], now), recent \cup {row}, now)
        BY <1>1, <3>1, <4>1, RemembersPassed
      <4> HIDE DEF row
      <4>3. /\ \A v \in Users : v # u => requests'[v] = requests[v] /\ passed'[v] = passed[v]
            /\ requests'[u] = recent \cup {row} /\ passed'[u] = Append(passed[u], now)
            /\ requests' = [v \in Users |-> requests'[v]] /\ passed' = [v \in Users |-> passed'[v]]
        BY <3>4 DEF LimiterInv
      <4>4. QED
        BY <2>1, <4>2, <4>3 DEF LimiterInv
    <3>5. QED
      BY <3>2, <3>3, <3>4
  <2>4. QED
    BY <1>7, <2>2, <2>3 DEF LimiterNext
<1>8. QED
  BY <1>3, <1>4, <1>5, <1>6, <1>7 DEF Next

\* Allow: whatever the cleanup forgets, no window lets more messages of a user
\* through than the quota (BurstIsBounded), for any number of messages and any
\* length of the window.
THEOREM BurstIsBoundedCorrect == Spec => []BurstIsBounded
<1>1. LimiterInv => BurstIsBounded
  BY DEF LimiterInv, Remembers, InWindow, BurstIsBounded
<1>2. QED
  BY <1>1, LimiterInit, LimiterStep, PTL DEF Spec
=============================================================================
