--------------------------- MODULE LossRailProofs ---------------------------
(***************************************************************************)
(* Proofs about LossRail, for every set of ticks and of fills: a summing   *)
(* tick that goes on from a checkpoint computes what a replay of the whole *)
(* bus would, although exits are matched to entries in the order of their  *)
(* stamps, and not of the bus, and although the checkpoint was written by  *)
(* any other tick, any number of ticks ago, before or after any reset.     *)
(* And no unit is lost or closed twice on the way: the lots that are open  *)
(* come to the position.                                                   *)
(***************************************************************************)
EXTENDS LossRail, FiniteSetTheorems, SequenceTheorems, TLAPS

-----------------------------------------------------------------------------
(***************************************************************************)
(* Recursion over the subsets of a finite set.  A claim about all of them  *)
(* is proved by looking at a smallest subset for which it fails.           *)
(***************************************************************************)
\* Some set of a collection has no other below it.
LEMMA SmallestSet ==
  ASSUME NEW S, IsFiniteSet(S), NEW C \in SUBSET SUBSET S, C # {}
  PROVE  \E x \in C : \A y \in C : y \subseteq x => y = x
<1>1. IsWellFoundedOn(StrictSubsetOrdering(S), SUBSET S)
  BY FS_StrictSubsetOrderingWellFounded, FS_FiniteSubsetsOfFinite
<1>2. \E x \in C : \A y \in C : <<y, x>> \notin StrictSubsetOrdering(S)
  BY <1>1, WFMin
<1> QED
  BY <1>2 DEF StrictSubsetOrdering

\* last picks an element of every non-empty subset of T, and f is defined on
\* the subsets of T by recursion.
Picks(last, T) == \A U \in SUBSET T : U # {} => last[U] \in U

Rec(f, T, b, last, step) ==
  \A U \in SUBSET T : f[U] = IF U = {} THEN b ELSE step[U][f[U \ {last[U]}]]

\* It is determined.
LEMMA RecUnique ==
  ASSUME NEW W, IsFiniteSet(W), NEW b, NEW step, NEW last, Picks(last, W),
         NEW f, NEW g, Rec(f, W, b, last, step), Rec(g, W, b, last, step)
  PROVE  f[W] = g[W]
<1> DEFINE C == {U \in SUBSET W : f[U] # g[U]}
<1> SUFFICES ASSUME C # {} PROVE FALSE
  OBVIOUS
<1>1. C \in SUBSET SUBSET W
  OBVIOUS
<1>2. PICK U \in C : \A y \in C : y \subseteq U => y = U
  <2> HIDE DEF C
  <2> QED
    BY <1>1, SmallestSet
<1>3. U # {}
  BY <1>2 DEF Rec
<1>4. f[U \ {last[U]}] = g[U \ {last[U]}]
  BY <1>2, <1>3 DEF Picks
<1> QED
  BY <1>2, <1>3, <1>4 DEF Rec

\* There is a function so defined.
LEMMA Recursion ==
  ASSUME NEW S, IsFiniteSet(S), NEW V, NEW b \in V, NEW last, Picks(last, S),
         NEW step \in [SUBSET S -> [V -> V]]
  PROVE  \E f \in [SUBSET S -> V] : Rec(f, S, b, last, step)
<1> DEFINE Has(T, f) == f \in [SUBSET T -> V] /\ Rec(f, T, b, last, step)
<1> DEFINE C == {T \in SUBSET S : ~ \E f : Has(T, f)}
<1> SUFFICES ASSUME C # {} PROVE FALSE
  OBVIOUS
<1>1. C \in SUBSET SUBSET S
  OBVIOUS
<1>2. PICK T \in C : \A y \in C : y \subseteq T => y = T
  <2> HIDE DEF C
  <2> QED
    BY <1>1, SmallestSet
<1> DEFINE of[U \in SUBSET T] == CHOOSE f : Has(U, f)
<1>3. \A U \in SUBSET T : U # T => Has(U, of[U])
  <2> HIDE DEF Has
  <2> QED
    BY <1>2
<1> DEFINE at(U) == IF U = {} THEN b ELSE step[U][of[U \ {last[U]}][U \ {last[U]}]]
<1>4. ASSUME NEW U \in SUBSET T, U # {}
      PROVE  /\ U \ {last[U]} \in SUBSET T /\ U \ {last[U]} # T
             /\ U \ {last[U]} \in SUBSET U /\ U \ {last[U]} # U
  BY <1>4 DEF Picks
<1>5. \A U \in SUBSET T : at(U) \in V
  <2> HIDE DEF of
  <2> SUFFICES ASSUME NEW U \in SUBSET T, U # {} PROVE at(U) \in V
    OBVIOUS
  <2>1. of[U \ {last[U]}][U \ {last[U]}] \in V
    <3> DEFINE W == U \ {last[U]}
    <3>1. of[W] \in [SUBSET W -> V]
      BY <1>3, <1>4
    <3> QED
      BY <3>1
  <2> QED
    BY <2>1
<1>6. \A U \in SUBSET T : U # T => of[U][U] = at(U)
  <2> HIDE DEF of
  <2> SUFFICES ASSUME NEW U \in SUBSET T, U # T PROVE of[U][U] = at(U)
    OBVIOUS
  <2>0. Rec(of[U], U, b, last, step)
    BY <1>3
  <2>1. CASE U = {}
    BY <2>0, <2>1 DEF Rec
  <2>2. CASE U # {}
    <3> DEFINE W == U \ {last[U]}
    <3>1. Rec(of[W], W, b, last, step)
      BY <1>3, <1>4, <2>2
    <3>2. Rec(of[U], W, b, last, step)
      BY <2>0 DEF Rec
    <3>3. IsFiniteSet(W) /\ Picks(last, W)
      BY FS_Subset DEF Picks
    <3>4. of[U][W] = of[W][W]
      <4> HIDE DEF W
      <4> QED
        BY ONLY <3>1, <3>2, <3>3, RecUnique
    <3>5. of[U][U] = step[U][of[U][W]]
      BY <2>0, <2>2 DEF Rec
    <3> QED
      BY <2>2, <3>4, <3>5
  <2> QED
    BY <2>1, <2>2
<1> DEFINE f == [U \in SUBSET T |-> at(U)]
<1>7. f \in [SUBSET T -> V]
  <2> HIDE DEF at
  <2> QED
    BY <1>5
<1>8. Rec(f, T, b, last, step)
  <2> HIDE DEF of
  <2> SUFFICES ASSUME NEW U \in SUBSET T
      PROVE f[U] = IF U = {} THEN b ELSE step[U][f[U \ {last[U]}]]
    BY Zenon DEF Rec
  <2>1. CASE U = {}
    BY <2>1
  <2>2. CASE U # {}
    <3>1. f[U \ {last[U]}] = of[U \ {last[U]}][U \ {last[U]}]
      BY <1>4, <1>6, <2>2
    <3>2. f[U] = step[U][of[U \ {last[U]}][U \ {last[U]}]]
      BY <2>2
    <3> HIDE DEF f
    <3> QED
      BY <2>2, <3>1, <3>2
  <2> QED
    BY <2>1, <2>2, Zenon
<1> QED
  <2> HIDE DEF f
  <2> QED
    BY <1>2, <1>7, <1>8

-----------------------------------------------------------------------------
(***************************************************************************)
(* One trade, whatever the number of its units.                            *)
(***************************************************************************)
LEMMA SmallestNat ==
  ASSUME NEW T \in SUBSET Nat, T # {}
  PROVE  \E x \in T : \A y \in T : x <= y
<1> DEFINE R == OpToRel(<, Nat)
<1>1. \A x, y \in Nat : <<y, x>> \in R <=> y < x
  BY DEF OpToRel
<1>2. IsWellFoundedOn(R, Nat)
  BY NatLessThanWellFounded
<1> HIDE DEF R
<1>3. PICK x \in T : \A y \in T : <<y, x>> \notin R
  BY <1>2, WFMin
<1>4. ASSUME NEW y \in T PROVE x <= y
  <2>1. x \in Nat /\ y \in Nat
    OBVIOUS
  <2>2. ~ (y < x)
    BY <1>1, <1>3, <2>1
  <2> QED
    BY ONLY <2>1, <2>2
<1> QED
  BY <1>4

LEMMA UnitType ==
  ASSUME NEW book \in Book, NEW side \in {-1, 1}, NEW price \in Nat \ {0}
  PROVE  Unit(side, price)[book] \in Book
<1> DEFINE open  == [side |-> side, lots |-> Append(book.lots, price), sum |-> book.sum]
           close == [side |-> IF Len(book.lots) = 1 THEN 0 ELSE book.side,
                     lots |-> Tail(book.lots),
                     sum  |-> book.sum + Return(book.side, Head(book.lots), price)]
<1>1. Unit(side, price)[book] = IF book.lots = <<>> \/ book.side = side THEN open ELSE close
  BY DEF Unit
<1>2. book.side \in {-1, 0, 1} /\ book.lots \in Seq(Nat \ {0}) /\ book.sum \in Int
  BY DEF Book
<1>3. open \in Book
  BY <1>2 DEF Book
<1>4. ASSUME book.lots # <<>> PROVE close \in Book
  <2>1. Tail(book.lots) \in Seq(Nat \ {0}) /\ Head(book.lots) \in Nat \ {0}
    BY <1>2, <1>4
  <2>2. Return(book.side, Head(book.lots), price) \in Int
    <3>1. PICK e \in Nat \ {0} : e = Head(book.lots)
      BY <2>1
    <3>2. Scale * (price - e) \in Int
      BY LossRailAssumption
    <3>3. (Scale * (price - e)) \div e \in Int
      BY <3>1, <3>2
    <3>4. Return(book.side, e, price) \in Int
      <4>1. book.side \in Int
        BY <1>2
      <4> QED
        BY ONLY <3>3, <4>1 DEF Return
    <3> QED
      BY ONLY <3>1, <3>4
  <2> QED
    BY <1>2, <2>1, <2>2 DEF Book
<1> QED
  BY <1>1, <1>3, <1>4

Units(g, k, book, side, price) ==
  g = [n \in 0 .. k |-> IF n = 0 THEN book ELSE Unit(side, price)[g[n - 1]]]

LEMMA UnitsExist ==
  ASSUME NEW k \in Nat, NEW book, NEW side, NEW price
  PROVE  \E g : Units(g, k, book, side, price)
<1> DEFINE T == {n \in Nat : ~ \E g : Units(g, n, book, side, price)}
<1> SUFFICES ASSUME T # {} PROVE FALSE
  OBVIOUS
<1>1. PICK x \in T : \A y \in T : x <= y
  <2>1. T \in SUBSET Nat
    OBVIOUS
  <2> HIDE DEF T
  <2> QED
    BY <2>1, SmallestNat
<1>2. CASE x = 0
  <2>1. Units([n \in 0 .. 0 |-> book], 0, book, side, price)
    BY DEF Units
  <2> QED
    BY <1>1, <1>2, <2>1
<1>3. CASE x # 0
  <2>1. x - 1 \in Nat /\ x - 1 \notin T
    BY <1>1, <1>3
  <2>2. PICK g : Units(g, x - 1, book, side, price)
    BY <2>1
  <2> DEFINE h == [n \in 0 .. x |-> IF n = x THEN Unit(side, price)[g[x - 1]] ELSE g[n]]
  <2>3. Units(h, x, book, side, price)
    <3>1. \A n \in 0 .. x - 1 : g[n] = IF n = 0 THEN book ELSE Unit(side, price)[g[n - 1]]
      BY <2>2 DEF Units
    <3>2. \A n \in 0 .. x : n # x => h[n] = g[n] /\ n \in 0 .. x - 1
      BY <1>1
    <3>3. ASSUME NEW n \in 0 .. x
          PROVE  h[n] = IF n = 0 THEN book ELSE Unit(side, price)[h[n - 1]]
      <4>1. CASE n = 0
        BY <1>1, <1>3, <3>1, <3>2, <4>1
      <4>2. CASE n # 0
        <5>1. n - 1 \in 0 .. x /\ n - 1 # x
          BY <1>1, <4>2
        <5>2. h[n - 1] = g[n - 1]
          BY <3>2, <5>1
        <5>3. h[n] = Unit(side, price)[g[n - 1]]
          <6>1. CASE n = x
            BY <6>1
          <6>2. CASE n # x
            BY <3>1, <3>2, <4>2, <6>2
          <6> QED
            BY <6>1, <6>2
        <5> QED
          BY <4>2, <5>2, <5>3
      <4> QED
        BY <4>1, <4>2
    <3>4. h = [n \in 0 .. x |-> IF n = 0 THEN book ELSE Unit(side, price)[h[n - 1]]]
      <4> HIDE DEF h
      <4> DEFINE at(n) == IF n = 0 THEN book ELSE Unit(side, price)[h[n - 1]]
      <4>1. h = [n \in 0 .. x |-> h[n]]
        BY DEF h
      <4>2. \A n \in 0 .. x : h[n] = at(n)
        BY <3>3
      <4> HIDE DEF at
      <4>3. h = [n \in 0 .. x |-> at(n)]
        BY <4>1, <4>2
      <4> QED
        BY <4>3 DEF at
    <3> QED
      BY <3>4 DEF Units
  <2> QED
    BY <1>1, <2>3
<1> QED
  BY <1>2, <1>3

\* What a trade is made of.
LEMMA TradeIs ==
  ASSUME NEW book \in Book, NEW delta \in Int, NEW price \in Nat \ {0}
  PROVE  LET side == IF delta > 0 THEN 1 ELSE -1
             k    == IF delta > 0 THEN delta ELSE -delta
         IN  \E g : /\ Trade(book, delta, price) = g[k]
                    /\ \A n \in 0 .. k :
                         /\ g[n] \in Book
                         /\ g[n] = IF n = 0 THEN book ELSE Unit(side, price)[g[n - 1]]
<1> DEFINE side == IF delta > 0 THEN 1 ELSE -1
           k    == IF delta > 0 THEN delta ELSE -delta
           g    == CHOOSE f : Units(f, k, book, side, price)
<1>1. Trade(book, delta, price) = g[k]
  BY DEF Trade, Units
<1>2. k \in Nat /\ side \in {-1, 1}
  OBVIOUS
<1>3. Units(g, k, book, side, price)
  <2> HIDE DEF k, side
  <2> QED
    BY <1>2, UnitsExist
<1> HIDE DEF g, k, side
<1>4. \A n \in 0 .. k : g[n] = IF n = 0 THEN book ELSE Unit(side, price)[g[n - 1]]
  BY <1>3 DEF Units
<1> DEFINE T == {n \in 0 .. k : g[n] \notin Book}
<1>5. ASSUME T # {} PROVE FALSE
  <2>1. T \in SUBSET Nat
    BY <1>2
  <2>2. PICK x \in T : \A y \in T : x <= y
    <3> HIDE DEF T
    <3> QED
      BY <1>5, <2>1, SmallestNat
  <2>3. x # 0
    BY <1>4, <2>2
  <2>4. x - 1 \in 0 .. k /\ x - 1 \notin T
    BY <1>2, <2>2, <2>3
  <2>5. Unit(side, price)[g[x - 1]] \in Book
    BY <1>2, <2>4, UnitType
  <2> QED
    BY <1>4, <2>2, <2>3, <2>5
<1> QED
  BY <1>1, <1>4, <1>5 DEF k, side

LEMMA TradeType ==
  ASSUME NEW book \in Book, NEW delta \in Int, NEW price \in Nat \ {0}
  PROVE  Trade(book, delta, price) \in Book
<1> DEFINE k == IF delta > 0 THEN delta ELSE -delta
<1>1. k \in 0 .. k
  OBVIOUS
<1> QED
  BY <1>1, TradeIs

-----------------------------------------------------------------------------
(***************************************************************************)
(* The order of the records: a finite set of them has one last.            *)
(***************************************************************************)
Well(recs, S) ==
  /\ IsFiniteSet(S)
  /\ \A n \in S : n \in Nat /\ recs[n].asof \in Nat /\ recs[n].size \in Int
                  /\ recs[n].price \in Nat \ {0}

LEMMA WellPart ==
  ASSUME NEW recs, NEW S, Well(recs, S), NEW T \in SUBSET S
  PROVE  Well(recs, T)
BY FS_Subset DEF Well

LEMMA LastIs ==
  ASSUME NEW recs, NEW S, Well(recs, S), S # {}
  PROVE  Last(recs, S) \in S /\ \A m \in S : Precedes(recs, m, Last(recs, S))
<1> DEFINE Has(U) == \E n \in U : \A m \in U : Precedes(recs, m, n)
           C == {U \in SUBSET S : U # {} /\ ~ Has(U)}
<1>1. ASSUME C # {} PROVE FALSE
  <2>1. C \in SUBSET SUBSET S /\ IsFiniteSet(S)
    BY DEF Well
  <2>2. PICK U \in C : \A y \in C : y \subseteq U => y = U
    <3> HIDE DEF C
    <3> QED
      BY <1>1, <2>1, SmallestSet
  <2>3. PICK x \in U : TRUE
    BY <2>2
  <2>4. \A m \in U : m \in Nat /\ recs[m].asof \in Nat
    BY <2>2 DEF Well
  <2>5. Precedes(recs, x, x)
    BY <2>3, <2>4 DEF Precedes
  <2>6. U \ {x} # {}
    BY <2>2, <2>3, <2>5
  <2>7. U \ {x} \in SUBSET S /\ U \ {x} # U
    BY <2>2, <2>3
  <2>8. PICK n \in U \ {x} : \A m \in U \ {x} : Precedes(recs, m, n)
    BY <2>2, <2>6, <2>7
  <2>9. CASE Precedes(recs, x, n)
    BY <2>2, <2>8, <2>9
  <2>10. CASE ~ Precedes(recs, x, n)
    <3>1. \A m \in U : Precedes(recs, m, x)
      BY <2>3, <2>4, <2>8, <2>10 DEF Precedes
    <3> QED
      BY <2>2, <2>3, <3>1
  <2> QED
    BY <2>9, <2>10
<1>2. Has(S)
  BY <1>1
<1> QED
  BY <1>2 DEF Last

LEMMA LastUnique ==
  ASSUME NEW recs, NEW S, Well(recs, S), NEW n \in S, \A m \in S : Precedes(recs, m, n)
  PROVE  Last(recs, S) = n
<1>1. Precedes(recs, Last(recs, S), n) /\ Precedes(recs, n, Last(recs, S))
      /\ Last(recs, S) \in S
  BY LastIs
<1> QED
  BY <1>1 DEF Precedes, Well

LEMMA LatestIs ==
  ASSUME NEW floor \in Nat, NEW S, Well(bus, S)
  PROVE  /\ LatestOf(S, floor) \in Nat
         /\ LatestOf(S, floor) >= floor
         /\ \A n \in S : LatestOf(S, floor) >= bus[n].asof
<1> DEFINE stamps == {floor} \cup {bus[n].asof : n \in S}
<1>1. stamps \in SUBSET Nat
  BY DEF Well
<1>2. \E x \in stamps : \A y \in stamps : x >= y
  <2>1. CASE S = {}
    BY <2>1
  <2>2. CASE S # {}
    <3>1. PICK n \in S : \A m \in S : Precedes(bus, m, n)
      BY <2>2, LastIs
    <3>2. \A m \in S : bus[n].asof >= bus[m].asof
      BY <3>1 DEF Precedes, Well
    <3>3. CASE floor >= bus[n].asof
      <4>1. \A y \in stamps : floor >= y
        BY <3>1, <3>2, <3>3 DEF Well
      <4> QED
        BY <4>1
    <3>4. CASE ~(floor >= bus[n].asof)
      <4>1. \A y \in stamps : bus[n].asof >= y
        BY <3>1, <3>2, <3>4 DEF Well
      <4> QED
        BY <3>1, <4>1
    <3> QED
      BY <3>3, <3>4
  <2> QED
    BY <2>1, <2>2
<1>3. LatestOf(S, floor) \in stamps /\ \A y \in stamps : LatestOf(S, floor) >= y
  BY <1>2 DEF LatestOf, Max
<1> QED
  BY <1>1, <1>3

-----------------------------------------------------------------------------
(***************************************************************************)
(* Join, whose recursion takes out the last record first.                  *)
(***************************************************************************)
LEMMA TradedType ==
  ASSUME NEW recs, NEW S, Well(recs, S), S # {}, NEW normalized \in BOOLEAN
  PROVE  Traded(recs, S, normalized) \in Int
<1> DEFINE before == S \ {Last(recs, S)}
<1>1. recs[Last(recs, S)].size \in Int
  BY LastIs DEF Well
<1>2. before # {} => recs[Last(recs, before)].size \in Int
  <2>1. Well(recs, before)
    BY WellPart
  <2> HIDE DEF before
  <2> QED
    BY <2>1, LastIs DEF Well
<1> QED
  BY <1>1, <1>2 DEF Traded

\* g is the function by which Join is defined.
Joined(g, recs, U, book, normalized) ==
  IF U = {} THEN book
  ELSE Trade(g[U \ {Last(recs, U)}], Traded(recs, U, normalized),
             recs[Last(recs, U)].price)

Joins(g, recs, S, book, normalized) ==
  /\ g \in [SUBSET S -> Book]
  /\ \A U \in SUBSET S : g[U] = Joined(g, recs, U, book, normalized)

LEMMA JoinByRecursion ==
  ASSUME NEW recs, NEW S, Well(recs, S), NEW book \in Book, NEW normalized \in BOOLEAN
  PROVE  \E g : Joins(g, recs, S, book, normalized)
<1> DEFINE trade(U, v) == Trade(v, Traded(recs, U, normalized), recs[Last(recs, U)].price)
           last == [U \in SUBSET S |-> Last(recs, U)]
           step == [U \in SUBSET S |-> [v \in Book |-> IF U = {} THEN v ELSE trade(U, v)]]
<1>1. ASSUME NEW U \in SUBSET S, U # {}
      PROVE  /\ Last(recs, U) \in U
             /\ Traded(recs, U, normalized) \in Int
             /\ recs[Last(recs, U)].price \in Nat \ {0}
  <2>1. Well(recs, U)
    BY WellPart
  <2> QED
    BY <1>1, <2>1, LastIs, TradedType DEF Well
<1>2. Picks(last, S)
  BY <1>1 DEF Picks
<1>3. \A U \in SUBSET S : \A v \in Book : U # {} => trade(U, v) \in Book
  BY <1>1, TradeType
<1>4. step \in [SUBSET S -> [Book -> Book]]
  <2> HIDE DEF trade
  <2> QED
    BY <1>3
<1>5. PICK g \in [SUBSET S -> Book] : Rec(g, S, book, last, step)
  <2>1. IsFiniteSet(S)
    BY DEF Well
  <2> HIDE DEF last, step
  <2> QED
    BY ONLY <1>2, <1>4, <2>1, Recursion, book \in Book
<1>6. ASSUME NEW U \in SUBSET S
      PROVE  g[U] = Joined(g, recs, U, book, normalized)
  <2>1. g[U \ {Last(recs, U)}] \in Book
    OBVIOUS
  <2>2. U # {} => step[U][g[U \ {Last(recs, U)}]] = trade(U, g[U \ {Last(recs, U)}])
    <3> HIDE DEF trade
    <3> QED
      BY <2>1
  <2>3. g[U] = IF U = {} THEN book ELSE step[U][g[U \ {Last(recs, U)}]]
    <3>1. last[U] = Last(recs, U)
      OBVIOUS
    <3> HIDE DEF last, step
    <3> QED
      BY <1>5, <3>1 DEF Rec
  <2> HIDE DEF step
  <2> QED
    BY <2>2, <2>3 DEF Joined
<1> QED
  BY <1>6 DEF Joins

LEMMA JoinIs ==
  ASSUME NEW recs, NEW S, Well(recs, S), NEW book, NEW normalized, NEW g,
         Joins(g, recs, S, book, normalized)
  PROVE  \A T \in SUBSET S : Join(recs, T, book, normalized) = g[T]
<1> SUFFICES ASSUME NEW T \in SUBSET S
             PROVE  Join(recs, T, book, normalized) = g[T]
  OBVIOUS
<1> DEFINE ByRec(k) == k = [U \in SUBSET T |-> Joined(k, recs, U, book, normalized)]
           h == CHOOSE k : ByRec(k)
<1>1. Join(recs, T, book, normalized) = h[T]
  BY DEF Join, Joined
<1>2. \A U \in SUBSET T : U # {} => Last(recs, U) \in U
  <2>1. \A U \in SUBSET T : Well(recs, U)
    BY WellPart
  <2> QED
    BY <2>1, LastIs
<1>3. ByRec(h)
  <2> DEFINE k == [U \in SUBSET T |-> g[U]]
  <2>1. \A U \in SUBSET T : Joined(g, recs, U, book, normalized)
                            = Joined(k, recs, U, book, normalized)
    <3>1. \A U \in SUBSET T : k[U \ {Last(recs, U)}] = g[U \ {Last(recs, U)}]
      OBVIOUS
    <3> HIDE DEF k
    <3> QED
      BY <3>1 DEF Joined
  <2>2. ByRec(k)
    <3>1. k = [U \in SUBSET T |-> Joined(g, recs, U, book, normalized)]
      BY DEF Joins
    <3> HIDE DEF k
    <3> QED
      BY <2>1, <3>1
  <2> HIDE DEF ByRec, k
  <2> QED
    BY <2>2
<1>4. \A U \in SUBSET T : h[U] = Joined(h, recs, U, book, normalized)
  <2> HIDE DEF h
  <2> QED
    BY <1>3
<1> HIDE DEF h
<1> DEFINE C == {U \in SUBSET T : h[U] # g[U]}
<1>5. ASSUME C # {} PROVE FALSE
  <2>1. C \in SUBSET SUBSET T /\ IsFiniteSet(T)
    BY FS_Subset DEF Well
  <2>2. PICK U \in C : \A y \in C : y \subseteq U => y = U
    <3> HIDE DEF C
    <3> QED
      BY <1>5, <2>1, SmallestSet
  <2>3. U \in SUBSET S /\ g[U] = Joined(g, recs, U, book, normalized)
    BY <2>2 DEF Joins
  <2>4. h[U] = Joined(h, recs, U, book, normalized)
    BY <1>4, <2>2
  <2>5. U # {} => h[U \ {Last(recs, U)}] = g[U \ {Last(recs, U)}]
    BY <1>2, <2>2
  <2> QED
    BY <2>2, <2>3, <2>4, <2>5 DEF Joined
<1> QED
  BY <1>1, <1>5

\* It is a book, and the last record may be taken out of it.
LEMMA JoinStep ==
  ASSUME NEW recs, NEW S, Well(recs, S), NEW book \in Book, NEW normalized \in BOOLEAN
  PROVE  /\ Join(recs, S, book, normalized) \in Book
         /\ S = {} => Join(recs, S, book, normalized) = book
         /\ S # {} => Join(recs, S, book, normalized)
                      = Trade(Join(recs, S \ {Last(recs, S)}, book, normalized),
                              Traded(recs, S, normalized), recs[Last(recs, S)].price)
<1>1. PICK g : Joins(g, recs, S, book, normalized)
  BY JoinByRecursion
<1>2. \A T \in SUBSET S : Join(recs, T, book, normalized) = g[T]
  BY <1>1, JoinIs
<1>3. g[S] \in Book /\ g[S] = Joined(g, recs, S, book, normalized)
  BY <1>1 DEF Joins
<1>4. Join(recs, S, book, normalized) = g[S]
      /\ Join(recs, S \ {Last(recs, S)}, book, normalized) = g[S \ {Last(recs, S)}]
  BY <1>2
<1> QED
  BY <1>3, <1>4 DEF Joined

LEMMA FlatType == Flat \in Book
<1>1. <<>> \in Seq(Nat \ {0})
  OBVIOUS
<1> QED
  BY <1>1 DEF Flat, Book

\* Where sizes are summed, what a record trades is its size.
Summed(recs, S, book) == Join(recs, S, book, FALSE)

LEMMA SummedStep ==
  ASSUME NEW recs, NEW S, Well(recs, S), NEW book \in Book
  PROVE  /\ Summed(recs, S, book) \in Book
         /\ S = {} => Summed(recs, S, book) = book
         /\ S # {} => Summed(recs, S, book)
                      = Trade(Summed(recs, S \ {Last(recs, S)}, book),
                              recs[Last(recs, S)].size, recs[Last(recs, S)].price)
<1>1. \A normalized \in BOOLEAN :
        /\ Join(recs, S, book, normalized) \in Book
        /\ S = {} => Join(recs, S, book, normalized) = book
        /\ S # {} => Join(recs, S, book, normalized)
                     = Trade(Join(recs, S \ {Last(recs, S)}, book, normalized),
                             Traded(recs, S, normalized), recs[Last(recs, S)].price)
  BY JoinStep
<1>2. /\ Join(recs, S, book, FALSE) \in Book
      /\ S = {} => Join(recs, S, book, FALSE) = book
      /\ S # {} => Join(recs, S, book, FALSE)
                   = Trade(Join(recs, S \ {Last(recs, S)}, book, FALSE),
                           Traded(recs, S, FALSE), recs[Last(recs, S)].price)
  BY <1>1
<1>3. Traded(recs, S, FALSE) = recs[Last(recs, S)].size
  BY DEF Traded
<1> QED
  BY ONLY <1>2, <1>3 DEF Summed

\* It looks at the records that it joins, and at no other.
LEMMA SummedAgree ==
  ASSUME NEW recs, NEW S, Well(recs, S), NEW book \in Book,
         NEW other, \A n \in S : other[n] = recs[n]
  PROVE  Summed(other, S, book) = Summed(recs, S, book)
<1> DEFINE C == {U \in SUBSET S : Summed(other, U, book) # Summed(recs, U, book)}
<1> SUFFICES ASSUME C # {} PROVE FALSE
  OBVIOUS
<1>1. C \in SUBSET SUBSET S /\ IsFiniteSet(S)
  BY DEF Well
<1>2. PICK U \in C : \A y \in C : y \subseteq U => y = U
  <2> HIDE DEF C
  <2> QED
    BY <1>1, SmallestSet
<1>3. Well(recs, U)
  BY <1>2, WellPart
<1>4. Well(other, U)
  BY <1>2, <1>3 DEF Well
<1>5. U # {}
  BY <1>2, <1>3, <1>4, SummedStep
<1>6. Last(recs, U) \in U /\ \A m \in U : Precedes(recs, m, Last(recs, U))
  BY <1>3, <1>5, LastIs
<1>7. Last(other, U) = Last(recs, U)
  <2>1. \A m \in U : Precedes(other, m, Last(recs, U))
    BY <1>2, <1>6 DEF Precedes
  <2> QED
    BY <1>4, <1>6, <2>1, LastUnique
<1>8. Summed(other, U \ {Last(recs, U)}, book) = Summed(recs, U \ {Last(recs, U)}, book)
  <2> DEFINE V == U \ {Last(recs, U)}
  <2>1. V \in SUBSET S /\ V \subseteq U /\ V # U
    BY <1>2, <1>6
  <2>2. Summed(other, V, book) = Summed(recs, V, book)
    <3> HIDE DEF V
    <3> QED
      BY <1>2, <2>1
  <2> QED
    BY <2>2
<1>9. Summed(recs, U, book)
      = Trade(Summed(recs, U \ {Last(recs, U)}, book),
              recs[Last(recs, U)].size, recs[Last(recs, U)].price)
  BY <1>3, <1>5, SummedStep
<1>10. Summed(other, U, book)
       = Trade(Summed(other, U \ {Last(other, U)}, book),
               other[Last(other, U)].size, other[Last(other, U)].price)
  BY <1>4, <1>5, SummedStep
<1>11. other[Last(recs, U)] = recs[Last(recs, U)]
  BY <1>2, <1>6
<1>12. Summed(other, U, book) # Summed(recs, U, book)
  BY <1>2
<1> QED
  BY ONLY <1>7, <1>8, <1>9, <1>10, <1>11, <1>12

\* Where sizes are summed, records that come after others may be joined later,
\* to the book that those have made.
LEMMA SummedSplit ==
  ASSUME NEW recs, NEW P, NEW Q, Well(recs, P \cup Q), NEW book \in Book,
         \A p \in P, q \in Q : p # q /\ Precedes(recs, p, q)
  PROVE  Summed(recs, P \cup Q, book)
         = Summed(recs, Q, Summed(recs, P, book))
<1> DEFINE b == Summed(recs, P, book)
           C == {U \in SUBSET Q : Summed(recs, P \cup U, book) # Summed(recs, U, b)}
<1> SUFFICES ASSUME C # {} PROVE FALSE
  OBVIOUS
<1>1. b \in Book
  <2>1. Well(recs, P)
    BY WellPart
  <2> QED
    BY <2>1, SummedStep
<1>2. PICK U \in C : \A y \in C : y \subseteq U => y = U
  <2>1. C \in SUBSET SUBSET Q /\ IsFiniteSet(Q)
    BY FS_Subset DEF Well
  <2> HIDE DEF C
  <2> QED
    BY <2>1, SmallestSet
<1>3. Well(recs, U) /\ Well(recs, P \cup U)
  <2>1. P \cup U \in SUBSET (P \cup Q) /\ U \in SUBSET (P \cup Q)
    BY <1>2
  <2> QED
    BY <2>1, WellPart
<1>4. U # {}
  <2>1. ASSUME U = {} PROVE FALSE
    <3>1. P \cup U = P
      BY <2>1
    <3>2. Summed(recs, U, b) = b
      <4> HIDE DEF b
      <4> QED
        BY <1>1, <1>3, <2>1, SummedStep
    <3>3. Summed(recs, P \cup U, book) # Summed(recs, U, b)
      BY <1>2
    <3> QED
      BY ONLY <3>1, <3>2, <3>3
  <2> QED
    BY <2>1
<1> DEFINE x == Last(recs, U)
           V == U \ {x}
<1>5. x \in U /\ \A m \in U : Precedes(recs, m, x)
  BY <1>3, <1>4, LastIs
<1>6. Last(recs, P \cup U) = x
  <2>1. x \in P \cup U /\ \A m \in P \cup U : Precedes(recs, m, x)
    <3> HIDE DEF x
    <3> QED
      BY <1>2, <1>5
  <2> HIDE DEF x
  <2> QED
    BY <1>3, <2>1, LastUnique
<1>7. (P \cup U) \ {x} = P \cup V
  <2> HIDE DEF x
  <2> QED
    BY <1>2, <1>5
<1>8. Summed(recs, P \cup V, book) = Summed(recs, V, b)
  <2>1. V \in SUBSET Q /\ V \subseteq U /\ V # U
    <3> HIDE DEF x
    <3> QED
      BY <1>2, <1>5
  <2> HIDE DEF V, x, b
  <2> QED
    BY <1>2, <2>1
<1>9. Summed(recs, U, b) = Trade(Summed(recs, V, b), recs[x].size, recs[x].price)
  <2> HIDE DEF b
  <2> QED
    BY <1>1, <1>3, <1>4, SummedStep
<1>10. Summed(recs, P \cup U, book)
       = Trade(Summed(recs, P \cup V, book), recs[x].size, recs[x].price)
  <2> DEFINE W == P \cup U
  <2>1. Well(recs, W) /\ W # {} /\ Last(recs, W) = x /\ W \ {x} = P \cup V
    BY <1>3, <1>4, <1>6, <1>7
  <2> HIDE DEF W, x, V
  <2>2. Summed(recs, W, book)
        = Trade(Summed(recs, W \ {Last(recs, W)}, book), recs[Last(recs, W)].size,
                recs[Last(recs, W)].price)
    BY <2>1, SummedStep
  <2>3. Summed(recs, W, book)
        = Trade(Summed(recs, P \cup V, book), recs[x].size, recs[x].price)
    BY ONLY <2>1, <2>2
  <2> QED
    BY <2>3 DEF W
<1>11. Summed(recs, P \cup U, book) # Summed(recs, U, b)
  BY <1>2
<1> HIDE DEF x, V, b
<1> QED
  BY ONLY <1>8, <1>9, <1>10, <1>11

-----------------------------------------------------------------------------
(***************************************************************************)
(* The lots that are open, taken together.  The order in which records are *)
(* joined decides which lots are left, and not what they come to.          *)
(***************************************************************************)
Net(book) == book.side * Len(book.lots)

\* "Each real bucket holds exactly one direction", or no lot and none.
OneSided(book) == book.lots = <<>> <=> book.side = 0

\* Opening a lot leaves one lot more, taking the oldest lot one fewer.
LEMMA OneMore ==
  ASSUME NEW s \in Seq(Nat \ {0}), NEW e \in Nat \ {0}
  PROVE  Len(Append(s, e)) = Len(s) + 1 /\ Append(s, e) # <<>>
BY AppendProperties

LEMMA OneFewer ==
  ASSUME NEW s \in Seq(Nat), s # <<>>
  PROVE  /\ Len(s) \in Nat /\ Len(Tail(s)) = Len(s) - 1
         /\ Tail(s) = <<>> <=> Len(s) = 1
<1>1. Len(s) \in Nat /\ Tail(s) \in Seq(Nat) /\ Len(Tail(s)) = Len(s) - 1
  BY HeadTailProperties, LenProperties
<1>2. Tail(s) = <<>> <=> Len(Tail(s)) = 0
  BY <1>1, EmptySeq
<1>3. ASSUME NEW m \in Nat, NEW k \in Int, k = m - 1
      PROVE  k = 0 <=> m = 1
  BY ONLY <1>3
<1>4. Len(Tail(s)) \in Int
  BY <1>1, LenProperties
<1>5. Len(Tail(s)) = 0 <=> Len(s) = 1
  BY ONLY <1>1, <1>3, <1>4
<1> QED
  BY ONLY <1>1, <1>2, <1>5

LEMMA UnitNet ==
  ASSUME NEW book \in Book, OneSided(book), NEW side \in {-1, 1}, NEW price \in Nat \ {0}
  PROVE  /\ OneSided(Unit(side, price)[book])
         /\ Net(Unit(side, price)[book]) = Net(book) + side
<1> DEFINE open  == [side |-> side, lots |-> Append(book.lots, price), sum |-> book.sum]
           close == [side |-> IF Len(book.lots) = 1 THEN 0 ELSE book.side,
                     lots |-> Tail(book.lots),
                     sum  |-> book.sum + Return(book.side, Head(book.lots), price)]
           k     == Len(book.lots)
<1>1. Unit(side, price)[book] = IF book.lots = <<>> \/ book.side = side THEN open ELSE close
  BY DEF Unit
<1>2. /\ book.side \in {-1, 0, 1} /\ book.lots \in Seq(Nat \ {0})
      /\ k \in Nat /\ (k = 0 <=> book.lots = <<>>)
  BY DEF Book
<1>3. CASE book.lots = <<>> \/ book.side = side
  <2>1. Len(Append(book.lots, price)) = k + 1 /\ Append(book.lots, price) # <<>>
    <3>1. book.lots \in Seq(Nat \ {0}) /\ price \in Nat \ {0}
      BY <1>2
    <3> QED
      BY ONLY <3>1, OneMore
  <2>2. book.side = side \/ k = 0
    BY <1>2, <1>3
  <2>3. Net(book) = IF k = 0 THEN 0 ELSE IF side = 1 THEN k ELSE -k
    BY <1>2, <2>2 DEF Net
  <2>4. Net(open) = IF side = 1 THEN k + 1 ELSE -(k + 1)
    BY <1>2, <2>1 DEF Net
  <2>5. OneSided(open)
    BY <2>1 DEF OneSided
  <2> QED
    BY <1>1, <1>2, <1>3, <2>3, <2>4, <2>5
<1>4. CASE book.lots # <<>> /\ book.side # side
  <2>1. Len(Tail(book.lots)) = k - 1 /\ (Tail(book.lots) = <<>> <=> k = 1)
    <3>1. book.lots \in Seq(Nat) /\ book.lots # <<>>
      BY <1>2, <1>4
    <3> QED
      BY <3>1, OneFewer
  <2>2. \/ side = 1 /\ book.side = -1
        \/ side = -1 /\ book.side = 1
    BY <1>2, <1>4 DEF OneSided
  <2>3. Net(book) = IF side = 1 THEN -k ELSE k
    <3>1. Net(book) = book.side * k
      BY DEF Net
    <3> HIDE DEF k
    <3> QED
      BY <1>2, <2>2, <3>1
  <2>4. Net(close) = IF side = 1 THEN -(k - 1) ELSE k - 1
    <3>1. Net(close) = (IF k = 1 THEN 0 ELSE book.side) * (k - 1)
      <4>1. close.side = (IF k = 1 THEN 0 ELSE book.side) /\ Len(close.lots) = k - 1
        BY <2>1
      <4> QED
        BY <4>1 DEF Net
    <3> HIDE DEF k, close
    <3> QED
      BY <1>2, <2>2, <3>1
  <2>5. OneSided(close)
    BY <2>1, <2>2 DEF OneSided
  <2>6. Unit(side, price)[book] = close
    BY ONLY <1>1, <1>4
  <2> HIDE DEF k, close
  <2>7. Net(close) = Net(book) + side
    BY ONLY <1>2, <2>2, <2>3, <2>4
  <2> QED
    BY ONLY <2>5, <2>6, <2>7
<1> QED
  BY <1>3, <1>4

LEMMA TradeNet ==
  ASSUME NEW book \in Book, OneSided(book), NEW delta \in Int, NEW price \in Nat \ {0}
  PROVE  /\ OneSided(Trade(book, delta, price))
         /\ Net(Trade(book, delta, price)) = Net(book) + delta
<1> DEFINE side == IF delta > 0 THEN 1 ELSE -1
           k    == IF delta > 0 THEN delta ELSE -delta
<1>1. k \in Nat /\ side \in {-1, 1} /\ side * k = delta /\ Net(book) \in Int
  BY DEF Net, Book
<1>2. PICK g : /\ Trade(book, delta, price) = g[k]
               /\ \A n \in 0 .. k :
                    /\ g[n] \in Book
                    /\ g[n] = IF n = 0 THEN book ELSE Unit(side, price)[g[n - 1]]
  BY TradeIs
<1> HIDE DEF k, side
<1> DEFINE Right(n) == OneSided(g[n]) /\ Net(g[n]) = Net(book) + side * n
           T == {n \in 0 .. k : ~ Right(n)}
<1>3. ASSUME T # {} PROVE FALSE
  <2>1. T \in SUBSET Nat
    BY <1>1
  <2>2. PICK x \in T : \A y \in T : x <= y
    <3> HIDE DEF T
    <3> QED
      BY <1>3, <2>1, SmallestNat
  <2>3. x # 0
    BY <1>1, <1>2, <2>2
  <2>4. x - 1 \in 0 .. k /\ x \in 0 .. k /\ x - 1 \notin T
    BY <1>1, <2>2, <2>3
  <2>5. g[x - 1] \in Book /\ OneSided(g[x - 1]) /\ Net(g[x - 1]) = Net(book) + side * (x - 1)
    BY <1>2, <2>4
  <2>6. OneSided(g[x]) /\ Net(g[x]) = Net(g[x - 1]) + side
    <3>1. g[x] = Unit(side, price)[g[x - 1]]
      BY <1>2, <2>3, <2>4
    <3> QED
      BY <1>1, <2>5, <3>1, UnitNet
  <2>7. side * (x - 1) + side = side * x
    BY <1>1, <2>4
  <2>8. Net(g[x]) = Net(book) + side * x
    <3>1. side * (x - 1) \in Int /\ side * x \in Int /\ side \in Int
      BY <1>1, <2>4
    <3> QED
      BY ONLY <1>1, <2>5, <2>6, <2>7, <3>1
  <2> QED
    BY <2>2, <2>6, <2>8
<1>4. Right(k)
  BY <1>1, <1>3
<1> QED
  BY <1>1, <1>2, <1>4

LEMMA SummedNet ==
  ASSUME NEW recs, NEW S, Well(recs, S)
  PROVE  /\ Summed(recs, S, Flat) \in Book /\ OneSided(Summed(recs, S, Flat))
         /\ S # {} => Net(Summed(recs, S, Flat))
                      = Net(Summed(recs, S \ {Last(recs, S)}, Flat)) + recs[Last(recs, S)].size
<1> DEFINE b(U) == Summed(recs, U, Flat)
           C == {U \in SUBSET S : ~ OneSided(b(U))}
<1>1. ASSUME NEW U \in SUBSET S
      PROVE  /\ Well(recs, U) /\ b(U) \in Book
             /\ U = {} => b(U) = Flat
             /\ U # {} => /\ Last(recs, U) \in U /\ recs[Last(recs, U)].size \in Int
                          /\ recs[Last(recs, U)].price \in Nat \ {0}
                          /\ b(U) = Trade(b(U \ {Last(recs, U)}),
                                          recs[Last(recs, U)].size, recs[Last(recs, U)].price)
  <2>1. Well(recs, U)
    BY WellPart
  <2> QED
    BY <2>1, SummedStep, FlatType, LastIs DEF Well
<1> HIDE DEF b
<1>2. ASSUME NEW U \in SUBSET S, U # {}, OneSided(b(U \ {Last(recs, U)}))
      PROVE  /\ OneSided(b(U))
             /\ Net(b(U)) = Net(b(U \ {Last(recs, U)})) + recs[Last(recs, U)].size
  <2>1. b(U \ {Last(recs, U)}) \in Book
    BY <1>1
  <2> QED
    BY <1>1, <1>2, <2>1, TradeNet
<1>3. ASSUME C # {} PROVE FALSE
  <2>1. C \in SUBSET SUBSET S /\ IsFiniteSet(S)
    BY DEF Well
  <2>2. PICK U \in C : \A y \in C : y \subseteq U => y = U
    <3> HIDE DEF C
    <3> QED
      BY <1>3, <2>1, SmallestSet
  <2>3. U # {}
    BY <1>1, <2>2 DEF OneSided, Flat
  <2>4. OneSided(b(U \ {Last(recs, U)}))
    <3> DEFINE V == U \ {Last(recs, U)}
    <3>1. V \in SUBSET S /\ V \subseteq U /\ V # U
      BY <1>1, <2>2, <2>3
    <3>2. OneSided(b(V))
      <4> HIDE DEF V
      <4> QED
        BY <2>2, <3>1
    <3> QED
      BY <3>2
  <2> QED
    BY <1>2, <2>2, <2>3, <2>4
<1>4. \A U \in SUBSET S : OneSided(b(U))
  BY <1>3
<1>5. S # {} => Net(b(S)) = Net(b(S \ {Last(recs, S)})) + recs[Last(recs, S)].size
  BY <1>2, <1>4
<1> QED
  BY <1>1, <1>4, <1>5 DEF b

\* Any of the records may be taken out, and not only the last.
LEMMA NetElement ==
  ASSUME NEW recs, NEW S, Well(recs, S), NEW n \in S
  PROVE  Net(Summed(recs, S, Flat)) = Net(Summed(recs, S \ {n}, Flat)) + recs[n].size
<1> DEFINE net(U) == Net(Summed(recs, U, Flat))
           C == {U \in SUBSET S : \E x \in U : net(U) # net(U \ {x}) + recs[x].size}
<1>1. ASSUME NEW U \in SUBSET S
      PROVE  /\ net(U) \in Int
             /\ U # {} => /\ Last(recs, U) \in U
                          /\ net(U) = net(U \ {Last(recs, U)}) + recs[Last(recs, U)].size
  <2>1. Well(recs, U)
    BY WellPart
  <2>2. Summed(recs, U, Flat) \in Book
    BY <2>1, SummedNet
  <2>3. net(U) \in Int
    BY <2>2 DEF Net, Book
  <2> QED
    BY <2>1, <2>3, SummedNet, LastIs
<1> HIDE DEF net
<1>2. ASSUME C # {} PROVE FALSE
  <2>1. C \in SUBSET SUBSET S /\ IsFiniteSet(S)
    BY DEF Well
  <2>2. PICK U \in C : \A y \in C : y \subseteq U => y = U
    <3> HIDE DEF C
    <3> QED
      BY <1>2, <2>1, SmallestSet
  <2>3. PICK x \in U : net(U) # net(U \ {x}) + recs[x].size
    BY <2>2
  <2>4. PICK y \in U : y = Last(recs, U) /\ net(U) = net(U \ {y}) + recs[y].size
    BY <1>1, <2>2, <2>3
  <2>5. x # y
    BY <2>3, <2>4
  <2>6. \A V \in SUBSET U : V # U => \A z \in V : net(V) = net(V \ {z}) + recs[z].size
    BY <2>2
  <2>7. net(U \ {y}) = net((U \ {y}) \ {x}) + recs[x].size
    BY <2>3, <2>4, <2>5, <2>6
  <2>8. net(U \ {x}) = net((U \ {x}) \ {y}) + recs[y].size
    BY <2>3, <2>4, <2>5, <2>6
  <2>9. PICK v \in Int : v = net((U \ {x}) \ {y}) /\ v = net((U \ {y}) \ {x})
    <3>1. (U \ {y}) \ {x} = (U \ {x}) \ {y}
      OBVIOUS
    <3>2. (U \ {x}) \ {y} \in SUBSET S
      BY <2>2
    <3> QED
      BY <1>1, <3>1, <3>2
  <2>10. recs[x].size \in Int /\ recs[y].size \in Int
    BY <2>2 DEF Well
  <2>11. net(U) = net(U \ {x}) + recs[x].size
    BY ONLY <2>4, <2>7, <2>8, <2>9, <2>10
  <2> QED
    BY <2>3, <2>11
<1>3. net(S) = net(S \ {n}) + recs[n].size
  BY <1>2
<1> QED
  BY <1>3 DEF net

-----------------------------------------------------------------------------
(***************************************************************************)
(* The invariant.  A checkpoint that is of the bus of today consumed a     *)
(* prefix of it, knows a stamp that no record of it is past and, where     *)
(* sizes are summed, holds the book of that prefix.  That is so wherever   *)
(* the checkpoint is: in its file, or in the hands of a tick.              *)
(***************************************************************************)
Sound(c, recs, gone) ==
  c # NoCheckpoint =>
    /\ c.archived <= gone
    /\ c.archived = gone =>
         /\ c.offset <= Len(recs)
         /\ \A n \in 1 .. c.offset : recs[n].asof <= c.latest
         /\ ~ c.normalized => BookOf(c) = Summed(recs, 1 .. c.offset, Flat)

SoundInv == /\ Sound(ckpt, bus, archived)
            /\ \A t \in Ticks : Sound(work[t], bus, archived)

\* A tick holds a checkpoint of its own flag, and one that it has made is of
\* the bus of today, because the book is not reset while a tick runs, and says
\* what the tick decides on.
WorkInv == \A t \in Ticks :
  /\ pc[t] \in {"compute", "checkpoint"} /\ work[t] # NoCheckpoint =>
       (work[t].normalized <=> t \in Normalized)
  /\ pc[t] = "checkpoint" => /\ work[t] # NoCheckpoint /\ work[t].archived = archived
                             /\ value[t] = work[t].sum

IInv == TypeOK /\ WorkInv /\ SoundInv

-----------------------------------------------------------------------------
(***************************************************************************)
(* The bus as far as the proofs look at it.                                *)
(***************************************************************************)
LEMMA BusWell ==
  ASSUME TypeOK
  PROVE  /\ Len(bus) \in Nat /\ DOMAIN bus = 1 .. Len(bus)
         /\ \A m, n \in Nat : n <= Len(bus) => Well(bus, m + 1 .. n)
<1>1. bus \in Seq(Fills)
  BY DEF TypeOK
<1>2. Len(bus) \in Nat /\ DOMAIN bus = 1 .. Len(bus)
  BY <1>1
<1>3. ASSUME NEW n \in 1 .. Len(bus)
      PROVE  n \in Nat /\ bus[n].asof \in Nat /\ bus[n].size \in Int /\ bus[n].price \in Nat \ {0}
  <2>1. bus[n] \in Fills
    BY <1>1, <1>2
  <2>2. bus[n] \in [asof : Nat, size : Int, price : Nat \ {0}]
    BY <2>1, LossRailAssumption
  <2> QED
    BY <2>2
<1>4. ASSUME NEW m \in Nat, NEW n \in Nat, n <= Len(bus)
      PROVE  Well(bus, m + 1 .. n)
  <2>1. IsFiniteSet(m + 1 .. n)
    BY FS_Interval
  <2>2. m + 1 .. n \subseteq 1 .. Len(bus)
    BY <1>2, <1>4
  <2> QED
    BY <1>3, <2>1, <2>2 DEF Well
<1> QED
  BY <1>2, <1>4

\* What a tick settles: the places it joins, and to which book.
Goes(t)   == Continues(work[t]) /\ InSequence(work[t])
Start(t)  == IF Goes(t) THEN work[t].offset ELSE 0
New(t)    == Start(t) + 1 .. Len(bus)
Before(t) == IF Goes(t) THEN BookOf(work[t]) ELSE Flat
After(t)  == Join(bus, New(t), Before(t), t \in Normalized)

Made(t) ==
  [offset |-> Len(bus), archived |-> archived, normalized |-> t \in Normalized,
   sum |-> After(t).sum, side |-> After(t).side, lots |-> After(t).lots,
   latest |-> LatestOf(New(t), IF Goes(t) THEN work[t].latest ELSE 0)]

LEMMA ComputeIs ==
  ASSUME NEW t \in Ticks, ComputePnl(t)
  PROVE  /\ pc[t] = "compute"
         /\ UNCHANGED <<bus, archived, files>>
         /\ \/ /\ ~ Goes(t)
               /\ pc'    = [pc EXCEPT ![t] = "decide"]
               /\ work'  = [work EXCEPT ![t] = NoCheckpoint]
               /\ value' = [value EXCEPT ![t] = 0]
            \/ /\ pc'    = [pc EXCEPT ![t] = "checkpoint"]
               /\ value' = [value EXCEPT ![t] = After(t).sum]
               /\ work'  = [work EXCEPT ![t] = Made(t)]
BY DEF ComputePnl, Goes, Start, New, Before, After, Made

LEMMA MadeIs ==
  ASSUME TypeOK, SoundInv, NEW t \in Ticks
  PROVE  /\ Before(t) \in Book /\ After(t) \in Book
         /\ Made(t) \in Checkpoint
         /\ \A n \in 1 .. Len(bus) : bus[n].asof <= Made(t).latest
<1> DEFINE floor == IF Goes(t) THEN work[t].latest ELSE 0
<1>1. Len(bus) \in Nat /\ archived \in Nat /\ work[t] \in Checkpoint \cup {NoCheckpoint}
  BY BusWell DEF TypeOK
<1>2. Goes(t) => /\ work[t] \in Checkpoint /\ work[t].archived = archived
                 /\ work[t].offset <= Len(bus)
  BY <1>1 DEF Goes, Continues
<1>3. Start(t) \in Nat /\ Start(t) <= Len(bus) /\ floor \in Nat /\ Before(t) \in Book
  <2>1. CASE Goes(t)
    <3>1. work[t] \in Checkpoint
      BY <1>2, <2>1
    <3> QED
      BY <1>2, <2>1, <3>1 DEF Start, Before, BookOf, Book, Checkpoint
  <2>2. CASE ~ Goes(t)
    BY <1>1, <2>2, FlatType DEF Start, Before
  <2> QED
    BY <2>1, <2>2
<1>4. Well(bus, New(t))
  BY <1>1, <1>3, BusWell DEF New
<1>5. After(t) \in Book
  <2>1. (t \in Normalized) \in BOOLEAN
    OBVIOUS
  <2>2. \A b \in BOOLEAN : Join(bus, New(t), Before(t), b) \in Book
    BY <1>3, <1>4, JoinStep
  <2> QED
    BY <2>1, <2>2, Zenon DEF After
<1>6. /\ LatestOf(New(t), floor) \in Nat
      /\ LatestOf(New(t), floor) >= floor
      /\ \A n \in New(t) : LatestOf(New(t), floor) >= bus[n].asof
  <2> HIDE DEF floor
  <2> QED
    BY <1>3, <1>4, LatestIs
<1>7. Made(t).latest = LatestOf(New(t), floor)
  BY DEF Made
<1>8. Made(t) \in Checkpoint
  BY <1>1, <1>5, <1>6 DEF Made, Checkpoint, Book
<1>9. ASSUME NEW n \in 1 .. Len(bus) PROVE bus[n].asof <= Made(t).latest
  <2>1. bus[n].asof \in Nat
    <3>1. Well(bus, 0 + 1 .. Len(bus))
      BY <1>1, BusWell
    <3> QED
      BY <3>1 DEF Well
  <2>2. CASE n \in New(t)
    BY <1>6, <1>7, <2>1, <2>2
  <2>3. CASE n \notin New(t)
    <3>1. n <= Start(t)
      BY <1>1, <1>3, <2>3 DEF New
    <3>2. Goes(t) /\ n \in 1 .. work[t].offset
      BY <1>1, <1>3, <3>1 DEF Start
    <3>3. Sound(work[t], bus, archived) /\ work[t] # NoCheckpoint
      BY <3>2 DEF SoundInv, Goes, Continues
    <3>4. bus[n].asof <= work[t].latest
      BY <1>2, <3>2, <3>3 DEF Sound
    <3>5. floor = work[t].latest
      BY <3>2
    <3> HIDE DEF floor
    <3> QED
      BY <1>3, <1>6, <1>7, <2>1, <3>4, <3>5
  <2> QED
    BY <2>2, <2>3
<1> QED
  BY <1>3, <1>5, <1>8, <1>9

\* A summing tick has made the book of the whole bus.
LEMMA MadeSums ==
  ASSUME TypeOK, SoundInv, WorkInv, NEW t \in Ticks, pc[t] = "compute", t \notin Normalized
  PROVE  BookOf(Made(t)) = Summed(bus, 1 .. Len(bus), Flat)
<1>1. Len(bus) \in Nat /\ work[t] \in Checkpoint \cup {NoCheckpoint}
  BY BusWell DEF TypeOK
<1>2. BookOf(Made(t)) = After(t)
  BY MadeIs DEF BookOf, Made, Book
<1>3. After(t) = Summed(bus, New(t), Before(t))
  <2>1. (t \in Normalized) = FALSE
    OBVIOUS
  <2> QED
    BY <2>1 DEF After, Summed
<1>4. CASE ~ Goes(t)
  <2>1. New(t) = 1 .. Len(bus) /\ Before(t) = Flat
    BY <1>1, <1>4 DEF New, Start, Before
  <2> QED
    BY <1>2, <1>3, <2>1
<1>5. CASE Goes(t)
  <2> DEFINE c == work[t]
             old == 1 .. c.offset
             all == 1 .. Len(bus)
  <2>1. c \in Checkpoint /\ c.archived = archived /\ c.offset <= Len(bus)
    BY <1>1, <1>5 DEF Goes, Continues
  <2>2. c.offset \in Nat /\ c.latest \in Nat
    BY <2>1 DEF Checkpoint
  <2>3. ~ c.normalized
    BY <1>5 DEF WorkInv, Goes, Continues
  <2>4. /\ Before(t) = Summed(bus, old, Flat)
        /\ \A m \in old : bus[m].asof <= c.latest
    BY <1>5, <2>1, <2>3 DEF SoundInv, Sound, Before, Goes, Continues
  <2>5. \A n \in New(t) : bus[n].asof >= c.latest
    BY <1>5 DEF Goes, InSequence, New, Start
  <2>6. New(t) = c.offset + 1 .. Len(bus)
    BY <1>5 DEF New, Start
  <2>7. Well(bus, all)
    <3>1. Well(bus, 0 + 1 .. Len(bus))
      BY <1>1, BusWell
    <3> QED
      BY <3>1
  <2>8. all = old \cup New(t)
    BY <1>1, <2>1, <2>2, <2>6
  <2>9. \A m \in old, n \in New(t) : m # n /\ Precedes(bus, m, n)
    <3> SUFFICES ASSUME NEW m \in old, NEW n \in New(t)
                 PROVE  m # n /\ Precedes(bus, m, n)
      OBVIOUS
    <3>1. m < n
      BY <1>1, <2>2, <2>6
    <3>2. m \in Nat /\ n \in Nat /\ bus[m].asof \in Nat /\ bus[n].asof \in Nat
      BY <2>7, <2>8 DEF Well
    <3>3. bus[m].asof <= bus[n].asof
      BY <2>2, <2>4, <2>5, <3>2
    <3> QED
      BY ONLY <3>1, <3>2, <3>3 DEF Precedes
  <2> HIDE DEF c, old, all
  <2>10. Summed(bus, old \cup New(t), Flat) = Summed(bus, New(t), Summed(bus, old, Flat))
    BY <2>7, <2>8, <2>9, SummedSplit, FlatType
  <2>11. Summed(bus, all, Flat) = After(t)
    BY <1>3, <2>4, <2>8, <2>10
  <2> QED
    BY <1>2, <2>11 DEF all
<1> QED
  BY <1>4, <1>5

-----------------------------------------------------------------------------
(***************************************************************************)
(* Its parts are kept.                                                     *)
(***************************************************************************)
\* A step of a tick that computes nothing and moves no checkpoint.
Other(t) == \/ Begin(t) \/ ComputeFails(t) \/ PersistLastKnown(t) \/ Trip(t) \/ Pass(t)
            \/ Crash(t)

LEMMA Cases ==
  ASSUME Next
  PROVE  \/ \E t \in Ticks : ComputePnl(t) \/ PersistCheckpoint(t) \/ Other(t)
         \/ \E r \in Fills : AppendFill(r)
         \/ ResetBook \/ ResetKillSwitch
BY DEF Next, Proceed, Other

LEMMA OtherIs ==
  ASSUME TypeOK, NEW t \in Ticks, Other(t)
  PROVE  /\ UNCHANGED <<bus, archived, ckpt>>
         /\ lastKnown' \in Int \cup {NoValue} /\ tripped' \in BOOLEAN
         /\ value' \in [Ticks -> Int] /\ \A u \in Ticks \ {t} : value'[u] = value[u]
         /\ pc[t] # "checkpoint" \/ pc'[t] = "idle"
         /\ \E at \in {"idle", "compute", "remember", "decide"} : pc' = [pc EXCEPT ![t] = at]
         /\ \/ work' = work /\ pc'[t] # "compute"
            \/ work' = [work EXCEPT ![t] = NoCheckpoint]
            \/ /\ work' = [work EXCEPT ![t] = ckpt]
               /\ ckpt # NoCheckpoint => (ckpt.normalized <=> t \in Normalized)
<1>1. CASE Begin(t)
  BY <1>1 DEF TypeOK, Begin, Step, files
<1>2. CASE ComputeFails(t)
  BY <1>2 DEF TypeOK, ComputeFails, Step, files
<1>3. CASE PersistLastKnown(t)
  BY <1>3 DEF TypeOK, PersistLastKnown, Step
<1>4. CASE Trip(t)
  BY <1>4 DEF TypeOK, Trip, Step
<1>5. CASE Pass(t)
  BY <1>5 DEF TypeOK, Pass, Step, files
<1>6. CASE Crash(t)
  BY <1>6 DEF TypeOK, Crash, files
<1> QED
  BY <1>1, <1>2, <1>3, <1>4, <1>5, <1>6 DEF Other

\* ... so that the other ticks stay where they are, and this one has read a
\* checkpoint of its own flag, if any.
LEMMA OtherKeeps ==
  ASSUME TypeOK, NEW t \in Ticks, Other(t)
  PROVE  /\ \A u \in Ticks \ {t} : pc'[u] = pc[u] /\ work'[u] = work[u]
         /\ pc'[t] = "compute" /\ work'[t] # NoCheckpoint
              => (work'[t].normalized <=> t \in Normalized)
<1>1. DOMAIN pc = Ticks /\ DOMAIN work = Ticks
  BY DEF TypeOK
<1>2. PICK at : pc' = [pc EXCEPT ![t] = at]
  BY OtherIs
<1>3. \/ work' = work /\ pc'[t] # "compute"
      \/ work' = [work EXCEPT ![t] = NoCheckpoint]
      \/ /\ work' = [work EXCEPT ![t] = ckpt]
         /\ ckpt # NoCheckpoint => (ckpt.normalized <=> t \in Normalized)
  BY OtherIs
<1>4. \A u \in Ticks \ {t} : pc'[u] = pc[u] /\ work'[u] = work[u]
  BY ONLY <1>1, <1>2, <1>3
<1>5. \/ pc'[t] # "compute"
      \/ work'[t] = NoCheckpoint
      \/ /\ work'[t] = ckpt
         /\ ckpt # NoCheckpoint => (ckpt.normalized <=> t \in Normalized)
  BY ONLY <1>1, <1>3
<1> QED
  BY ONLY <1>4, <1>5

LEMMA PersistIs ==
  ASSUME TypeOK, WorkInv, NEW t \in Ticks, PersistCheckpoint(t)
  PROVE  /\ UNCHANGED <<bus, archived, lastKnown, tripped, value>>
         /\ pc' = [pc EXCEPT ![t] = "remember"]
         /\ work[t] \in Checkpoint
         /\ ckpt' \in {work[t], ckpt, NoCheckpoint}
         /\ work' = [work EXCEPT ![t] = NoCheckpoint]
<1>1. work[t] \in Checkpoint /\ work[t].archived = archived
  BY DEF PersistCheckpoint, Step, WorkInv, TypeOK
<1>2. [work[t] EXCEPT !.archived = archived] = work[t]
  BY <1>1 DEF Checkpoint
<1> QED
  BY <1>1, <1>2 DEF PersistCheckpoint, Step

LEMMA AppendIs ==
  ASSUME TypeOK, NEW r \in Fills
  PROVE  /\ Append(bus, r) \in Seq(Fills)
         /\ Len(Append(bus, r)) = Len(bus) + 1
         /\ \A n \in 1 .. Len(bus) : Append(bus, r)[n] = bus[n]
BY DEF TypeOK

LEMMA TypeStep ==
  ASSUME IInv, [Next]_vars
  PROVE  TypeOK'
<1> USE DEF IInv
<1>1. CASE UNCHANGED vars
  BY <1>1 DEF TypeOK, vars, files
<1>2. ASSUME NEW t \in Ticks, ComputePnl(t) PROVE TypeOK'
  <2>1. UNCHANGED <<bus, archived, ckpt, lastKnown, tripped>>
    BY <1>2, ComputeIs DEF files
  <2>2. After(t).sum \in Int /\ Made(t) \in Checkpoint
    BY MadeIs DEF Book
  <2>3. /\ \E at \in {"checkpoint", "decide"} : pc' = [pc EXCEPT ![t] = at]
        /\ \E v \in Int : value' = [value EXCEPT ![t] = v]
        /\ \E c \in Checkpoint \cup {NoCheckpoint} : work' = [work EXCEPT ![t] = c]
    BY <1>2, <2>2, ComputeIs
  <2> QED
    BY <2>1, <2>3 DEF TypeOK
<1>3. ASSUME NEW t \in Ticks, PersistCheckpoint(t) PROVE TypeOK'
  BY <1>3, PersistIs DEF TypeOK
<1>4. ASSUME NEW t \in Ticks, Other(t) PROVE TypeOK'
  <2>1. /\ UNCHANGED <<bus, archived, ckpt>>
        /\ lastKnown' \in Int \cup {NoValue} /\ tripped' \in BOOLEAN
        /\ value' \in [Ticks -> Int]
    BY <1>4, OtherIs
  <2>2. pc' \in [Ticks -> {"idle", "compute", "checkpoint", "remember", "decide"}]
    BY <1>4, OtherIs DEF TypeOK
  <2>3. work' \in [Ticks -> Checkpoint \cup {NoCheckpoint}]
    <3>1. ckpt \in Checkpoint \cup {NoCheckpoint}
      BY DEF TypeOK
    <3>2. \/ work' = work
          \/ work' = [work EXCEPT ![t] = NoCheckpoint]
          \/ work' = [work EXCEPT ![t] = ckpt]
      BY <1>4, OtherIs
    <3> QED
      BY <3>1, <3>2 DEF TypeOK
  <2> QED
    BY <2>1, <2>2, <2>3 DEF TypeOK
<1>5. ASSUME NEW r \in Fills, AppendFill(r) PROVE TypeOK'
  BY <1>5, AppendIs DEF AppendFill, TypeOK, files
<1>6. CASE ResetBook
  BY <1>6, BusWell DEF ResetBook, TypeOK, files
<1>7. CASE ResetKillSwitch
  BY <1>7 DEF ResetKillSwitch, TypeOK
<1> QED
  BY <1>1, <1>2, <1>3, <1>4, <1>5, <1>6, <1>7, Cases

LEMMA WorkStep ==
  ASSUME IInv, [Next]_vars
  PROVE  WorkInv'
<1> USE DEF IInv
<1>1. CASE UNCHANGED vars
  BY <1>1 DEF WorkInv, vars
<1>2. ASSUME NEW t \in Ticks, ComputePnl(t) PROVE WorkInv'
  <2>1. archived' = archived
    BY <1>2, ComputeIs
  <2>2. /\ Made(t) \in Checkpoint /\ Made(t) # NoCheckpoint
        /\ Made(t).archived = archived
        /\ (Made(t).normalized <=> t \in Normalized)
        /\ After(t).sum = Made(t).sum
    BY MadeIs, LossRailAssumption DEF Made
  <2>3. CASE /\ pc' = [pc EXCEPT ![t] = "decide"]
             /\ work' = [work EXCEPT ![t] = NoCheckpoint]
             /\ value' = [value EXCEPT ![t] = 0]
    BY <2>1, <2>3 DEF WorkInv, TypeOK
  <2>4. CASE /\ pc' = [pc EXCEPT ![t] = "checkpoint"]
             /\ work' = [work EXCEPT ![t] = Made(t)]
             /\ value' = [value EXCEPT ![t] = After(t).sum]
    BY <2>1, <2>2, <2>4 DEF WorkInv, TypeOK
  <2> QED
    BY <1>2, <2>3, <2>4, ComputeIs
<1>3. ASSUME NEW t \in Ticks, PersistCheckpoint(t) PROVE WorkInv'
  <2>1. /\ archived' = archived /\ value' = value
        /\ pc' = [pc EXCEPT ![t] = "remember"]
        /\ work' = [work EXCEPT ![t] = NoCheckpoint]
    BY <1>3, PersistIs
  <2>2. DOMAIN pc = Ticks /\ DOMAIN work = Ticks
    BY DEF TypeOK
  <2>3. pc'[t] = "remember" /\ \A u \in Ticks \ {t} : pc'[u] = pc[u] /\ work'[u] = work[u]
    BY ONLY <2>1, <2>2
  <2> QED
    BY <2>1, <2>3 DEF WorkInv
<1>4. ASSUME NEW t \in Ticks, Other(t) PROVE WorkInv'
  <2>1. archived' = archived /\ pc'[t] # "checkpoint"
    BY <1>4, OtherIs DEF TypeOK
  <2>2. \A u \in Ticks \ {t} : /\ pc'[u] = pc[u] /\ work'[u] = work[u]
                            /\ value'[u] = value[u]
    BY <1>4, OtherIs, OtherKeeps
  <2>3. pc'[t] = "compute" /\ work'[t] # NoCheckpoint
          => (work'[t].normalized <=> t \in Normalized)
    BY <1>4, OtherKeeps
  <2> QED
    BY <2>1, <2>2, <2>3 DEF WorkInv
<1>5. ASSUME NEW r \in Fills, AppendFill(r) PROVE WorkInv'
  BY <1>5 DEF AppendFill, WorkInv
<1>6. CASE ResetBook
  BY <1>6 DEF ResetBook, WorkInv
<1>7. CASE ResetKillSwitch
  BY <1>7 DEF ResetKillSwitch, WorkInv
<1> QED
  BY <1>1, <1>2, <1>3, <1>4, <1>5, <1>6, <1>7, Cases

\* A checkpoint is sound of a bus that has grown, and of one that was reset.
LEMMA SoundGrown ==
  ASSUME TypeOK, NEW r \in Fills, NEW c \in Checkpoint \cup {NoCheckpoint},
         Sound(c, bus, archived)
  PROVE  Sound(c, Append(bus, r), archived)
<1> SUFFICES ASSUME c # NoCheckpoint, c.archived = archived
             PROVE  /\ c.offset <= Len(Append(bus, r))
                    /\ \A n \in 1 .. c.offset : Append(bus, r)[n].asof <= c.latest
                    /\ ~ c.normalized =>
                         BookOf(c) = Summed(Append(bus, r), 1 .. c.offset, Flat)
  BY DEF Sound
<1>1. c.offset \in Nat /\ Len(bus) \in Nat
  BY BusWell DEF Checkpoint
<1>2. /\ c.offset <= Len(bus)
      /\ \A n \in 1 .. c.offset : bus[n].asof <= c.latest
      /\ ~ c.normalized => BookOf(c) = Summed(bus, 1 .. c.offset, Flat)
  BY DEF Sound
<1>3. \A n \in 1 .. c.offset : Append(bus, r)[n] = bus[n]
  BY <1>1, <1>2, AppendIs
<1>4. Well(bus, 1 .. c.offset)
  <2>1. Well(bus, 0 + 1 .. c.offset)
    BY <1>1, <1>2, BusWell
  <2> QED
    BY <2>1
<1>5. Summed(Append(bus, r), 1 .. c.offset, Flat) = Summed(bus, 1 .. c.offset, Flat)
  <2> DEFINE S == 1 .. c.offset
             grown == Append(bus, r)
  <2>1. Well(bus, S) /\ \A n \in S : grown[n] = bus[n]
    BY <1>3, <1>4
  <2> HIDE DEF S, grown
  <2>2. Summed(grown, S, Flat) = Summed(bus, S, Flat)
    BY <2>1, SummedAgree, FlatType
  <2> QED
    BY <2>2 DEF S, grown
<1> QED
  BY <1>1, <1>2, <1>3, <1>5, AppendIs

LEMMA SoundReset ==
  ASSUME TypeOK, bus # <<>>, NEW c \in Checkpoint \cup {NoCheckpoint},
         Sound(c, bus, archived)
  PROVE  Sound(c, <<>>, archived + Len(bus))
<1>1. Len(bus) \in Nat /\ Len(bus) > 0 /\ archived \in Nat
  BY BusWell DEF TypeOK
<1>2. c # NoCheckpoint => c.archived \in Nat /\ c.archived <= archived
  BY DEF Sound, Checkpoint
<1> QED
  BY <1>1, <1>2 DEF Sound

\* And so is the one that a tick makes.
LEMMA SoundMade ==
  ASSUME IInv, NEW t \in Ticks, pc[t] = "compute"
  PROVE  Sound(Made(t), bus, archived)
<1>1. TypeOK /\ SoundInv /\ WorkInv
  BY DEF IInv
<1>2. Made(t).archived = archived /\ Made(t).offset = Len(bus)
      /\ (Made(t).normalized <=> t \in Normalized)
  BY DEF Made
<1>3. Len(bus) \in Nat /\ archived \in Nat
  BY <1>1, BusWell DEF TypeOK
<1>4. \A n \in 1 .. Len(bus) : bus[n].asof <= Made(t).latest
  BY <1>1, MadeIs
<1>5. t \notin Normalized => BookOf(Made(t)) = Summed(bus, 1 .. Len(bus), Flat)
  BY <1>1, MadeSums
<1> QED
  BY <1>2, <1>3, <1>4, <1>5 DEF Sound

LEMMA SoundStep ==
  ASSUME IInv, [Next]_vars
  PROVE  SoundInv'
<1> USE DEF IInv
<1>1. SUFFICES /\ Sound(ckpt', bus', archived')
               /\ \A u \in Ticks : Sound(work'[u], bus', archived')
  BY DEF SoundInv
<1>2. Sound(NoCheckpoint, bus', archived')
  BY DEF Sound
<1>3. CASE UNCHANGED <<bus, archived, ckpt>> /\ work' = work
  BY <1>3 DEF SoundInv
<1>4. ASSUME NEW t \in Ticks, ComputePnl(t)
      PROVE  /\ Sound(ckpt', bus', archived')
             /\ \A u \in Ticks : Sound(work'[u], bus', archived')
  <2>1. UNCHANGED <<bus, archived, ckpt>> /\ pc[t] = "compute"
    BY <1>4, ComputeIs DEF files
  <2>2. Sound(Made(t), bus, archived)
    BY <2>1, SoundMade
  <2>3. work' = [work EXCEPT ![t] = NoCheckpoint] \/ work' = [work EXCEPT ![t] = Made(t)]
    BY <1>4, ComputeIs
  <2> QED
    BY <1>2, <2>1, <2>2, <2>3 DEF SoundInv, TypeOK
<1>5. ASSUME NEW t \in Ticks, PersistCheckpoint(t)
      PROVE  /\ Sound(ckpt', bus', archived')
             /\ \A u \in Ticks : Sound(work'[u], bus', archived')
  <2>1. /\ UNCHANGED <<bus, archived>>
        /\ ckpt' \in {work[t], ckpt, NoCheckpoint}
        /\ work' = [work EXCEPT ![t] = NoCheckpoint]
    BY <1>5, PersistIs
  <2>2. Sound(ckpt, bus, archived) /\ \A u \in Ticks : Sound(work[u], bus, archived)
    BY DEF SoundInv
  <2>3. \A u \in Ticks : work'[u] = work[u] \/ work'[u] = NoCheckpoint
    BY <2>1 DEF TypeOK
  <2> QED
    BY ONLY <1>2, <2>1, <2>2, <2>3
<1>6. ASSUME NEW t \in Ticks, Other(t)
      PROVE  /\ Sound(ckpt', bus', archived')
             /\ \A u \in Ticks : Sound(work'[u], bus', archived')
  <2>1. UNCHANGED <<bus, archived, ckpt>>
    BY <1>6, OtherIs
  <2>2. \/ work' = work
        \/ work' = [work EXCEPT ![t] = NoCheckpoint]
        \/ work' = [work EXCEPT ![t] = ckpt]
    BY <1>6, OtherIs
  <2> QED
    BY <1>2, <2>1, <2>2 DEF SoundInv, TypeOK
<1>7. ASSUME NEW r \in Fills, AppendFill(r)
      PROVE  /\ Sound(ckpt', bus', archived')
             /\ \A u \in Ticks : Sound(work'[u], bus', archived')
  <2>1. bus' = Append(bus, r) /\ archived' = archived /\ ckpt' = ckpt /\ work' = work
    BY <1>7 DEF AppendFill, files
  <2>2. ckpt \in Checkpoint \cup {NoCheckpoint}
        /\ \A u \in Ticks : work[u] \in Checkpoint \cup {NoCheckpoint}
    BY DEF TypeOK
  <2> QED
    BY <2>1, <2>2, SoundGrown DEF SoundInv
<1>8. CASE ResetBook
  <2>1. bus # <<>> /\ bus' = <<>> /\ archived' = archived + Len(bus)
        /\ ckpt' = ckpt /\ work' = work
    BY <1>8 DEF ResetBook, files
  <2>2. ckpt \in Checkpoint \cup {NoCheckpoint}
        /\ \A u \in Ticks : work[u] \in Checkpoint \cup {NoCheckpoint}
    BY DEF TypeOK
  <2> QED
    BY <2>1, <2>2, SoundReset DEF SoundInv
<1>9. UNCHANGED vars \/ ResetKillSwitch => UNCHANGED <<bus, archived, ckpt>> /\ work' = work
  BY DEF vars, files, ResetKillSwitch
<1> QED
  BY <1>3, <1>4, <1>5, <1>6, <1>7, <1>8, <1>9, Cases

-----------------------------------------------------------------------------
(***************************************************************************)
(* The theorems.                                                           *)
(***************************************************************************)
LEMMA InitHolds == Init => IInv
<1> SUFFICES ASSUME Init PROVE IInv
  OBVIOUS
<1>1. TypeOK
  <2>1. bus \in Seq(Fills)
    BY DEF Init
  <2>2. /\ archived \in Nat /\ ckpt \in Checkpoint \cup {NoCheckpoint}
        /\ lastKnown \in Int \cup {NoValue} /\ tripped \in BOOLEAN
    BY DEF Init
  <2>3. /\ pc \in [Ticks -> {"idle", "compute", "checkpoint", "remember", "decide"}]
        /\ work \in [Ticks -> Checkpoint \cup {NoCheckpoint}]
        /\ value \in [Ticks -> Int]
    BY DEF Init
  <2> QED
    BY <2>1, <2>2, <2>3 DEF TypeOK
<1>2. WorkInv /\ SoundInv
  BY DEF Init, WorkInv, SoundInv, Sound
<1> QED
  BY <1>1, <1>2 DEF IInv

\* The invariant holds in every reachable state: ComputePnl makes sound
\* checkpoints out of sound ones, and no append, reset, crash or tick of the
\* other flag makes one unsound.
THEOREM Inductive == Spec => []IInv
<1>1. IInv /\ [Next]_vars => IInv'
  BY TypeStep, WorkStep, SoundStep DEF IInv
<1> QED
  BY <1>1, InitHolds, PTL DEF Spec

\* Every variable keeps its type: whatever a tick finds on the bus and in the
\* files, what it writes to them is a checkpoint, and an integer.
THEOREM TypeCorrect == Spec => []TypeOK
<1>1. IInv => TypeOK
  BY DEF IInv
<1> QED
  BY <1>1, Inductive, PTL

\* What a summing tick computes past a checkpoint, the sum and the open lots,
\* is what it would have computed from the whole bus: any number of ticks
\* after the first, whatever the order in which fills were appended, whoever
\* wrote the checkpoint.
THEOREM SummedReplay == Spec => []SummedIsReplay
<1>1. IInv => SummedIsReplay
  <2> SUFFICES ASSUME IInv, NEW t \in Ticks \ Normalized, pc[t] = "checkpoint"
               PROVE  EqualsReplay(work[t], FALSE) /\ value[t] = work[t].sum
    BY DEF SummedIsReplay
  <2> DEFINE c == work[t]
  <2>1. c # NoCheckpoint /\ c.archived = archived /\ ~ c.normalized /\ value[t] = c.sum
    BY DEF IInv, WorkInv
  <2>2. BookOf(c) = Summed(bus, 1 .. c.offset, Flat)
    BY <2>1 DEF IInv, SoundInv, Sound
  <2> QED
    BY <2>1, <2>2 DEF EqualsReplay, Summed
<1> QED
  BY <1>1, Inductive, PTL

\* The sum that a summing tick goes on with, from a checkpoint or without one,
\* is what the whole bus has realised at the moment the tick reads it: no round
\* trip is counted twice, and none that is there is left out.
ComputesRealised ==
  \A t \in Ticks \ Normalized : ComputePnl(t) => value'[t] = Realised

THEOREM FreshIsRealised == Spec => [][ComputesRealised]_vars
<1>1. IInv => ComputesRealised
  <2> SUFFICES ASSUME IInv, NEW t \in Ticks \ Normalized, ComputePnl(t)
               PROVE  value'[t] = Realised
    BY DEF ComputesRealised
  <2>0. TypeOK /\ SoundInv /\ WorkInv
    BY DEF IInv
  <2>1. Len(bus) \in Nat /\ DOMAIN bus = 1 .. Len(bus)
    BY <2>0, BusWell
  <2>2. Realised = Summed(bus, 1 .. Len(bus), Flat).sum
    BY ONLY <2>1 DEF Realised, Summed
  <2>3. value \in [Ticks -> Int] /\ pc[t] = "compute" /\ t \in Ticks
    BY <2>0 DEF TypeOK, ComputePnl
  <2>4. CASE ~ Goes(t) /\ bus = <<>>
    <3>1. value'[t] = 0
      BY <2>3, <2>4 DEF ComputePnl, Goes
    <3>2. Well(bus, 1 .. Len(bus))
      <4>1. Well(bus, 0 + 1 .. Len(bus))
        BY ONLY <2>0, <2>1, BusWell
      <4> QED
        BY ONLY <4>1
    <3>3. 1 .. Len(bus) = {}
      BY <2>4
    <3>4. Summed(bus, 1 .. Len(bus), Flat) = Flat
      BY ONLY <3>2, <3>3, SummedStep, FlatType
    <3> QED
      BY ONLY <2>2, <3>1, <3>4 DEF Flat
  <2>5. CASE ~ (~ Goes(t) /\ bus = <<>>)
    <3>1. value'[t] = After(t).sum
      BY <2>3, <2>5 DEF ComputePnl, Goes, After, New, Start, Before
    <3>2. BookOf(Made(t)) = Summed(bus, 1 .. Len(bus), Flat)
      BY ONLY <2>0, <2>3, MadeSums, t \in Ticks \ Normalized
    <3>3. BookOf(Made(t)).sum = After(t).sum
      BY DEF BookOf, Made
    <3> QED
      BY ONLY <2>2, <3>1, <3>2, <3>3
  <2> QED
    BY <2>4, <2>5
<1> QED
  BY <1>1, Inductive, PTL

\* The net of the sizes of the first n records of the bus.
Position(pos, n) == /\ pos[0] = 0
                    /\ \A m \in 1 .. n : pos[m] = pos[m - 1] + bus[m].size

\* The lots that a summing tick leaves open come to what the fills of the bus
\* come to, in whatever order join_exit_fills has matched them: none is lost
\* or closed twice, however many checkpoints ago it was opened.
LotsArePosition ==
  \A t \in Ticks \ Normalized : pc[t] = "checkpoint" =>
    /\ work[t].offset \in Nat
    /\ \E pos \in [0 .. work[t].offset -> Int] :
         /\ Position(pos, work[t].offset)
         /\ work[t].side * Len(work[t].lots) = pos[work[t].offset]

\* ... in every reachable state.
THEOREM LotsConserved == Spec => []LotsArePosition
<1>1. IInv => LotsArePosition
  <2> SUFFICES ASSUME IInv, NEW t \in Ticks \ Normalized, pc[t] = "checkpoint"
               PROVE  /\ work[t].offset \in Nat
                      /\ \E pos \in [0 .. work[t].offset -> Int] :
                           /\ Position(pos, work[t].offset)
                           /\ work[t].side * Len(work[t].lots) = pos[work[t].offset]
    BY DEF LotsArePosition
  <2> DEFINE c == work[t]
             k == c.offset
             pos == [n \in 0 .. k |-> Net(Summed(bus, 1 .. n, Flat))]
  <2>1. c # NoCheckpoint /\ c.archived = archived /\ ~ c.normalized
    BY DEF IInv, WorkInv
  <2>2. c \in Checkpoint /\ k \in Nat
    BY <2>1 DEF IInv, TypeOK, Checkpoint
  <2>3. k <= Len(bus) /\ BookOf(c) = Summed(bus, 1 .. k, Flat)
    BY <2>1 DEF IInv, SoundInv, Sound
  <2>4. ASSUME NEW n \in 0 .. k
        PROVE  Well(bus, 1 .. n) /\ Net(Summed(bus, 1 .. n, Flat)) \in Int
    <3>1. n \in Nat /\ n <= Len(bus)
      BY <2>2, <2>3, BusWell DEF IInv
    <3>2. Well(bus, 0 + 1 .. n)
      BY <3>1, BusWell DEF IInv
    <3>3. Well(bus, 1 .. n)
      BY <3>2
    <3>4. Summed(bus, 1 .. n, Flat) \in Book
      BY <3>3, SummedNet
    <3> QED
      BY <3>3, <3>4 DEF Net, Book
  <2>5. pos \in [0 .. k -> Int]
    BY <2>4
  <2>6. pos[0] = 0
    <3>1. Summed(bus, 1 .. 0, Flat) = Flat
      <4>1. Well(bus, 1 .. 0) /\ 1 .. 0 = {}
        BY <2>2, <2>4
      <4> QED
        BY <4>1, SummedStep, FlatType
    <3> QED
      BY <2>2, <3>1 DEF Net, Flat
  <2>7. ASSUME NEW m \in 1 .. k PROVE pos[m] = pos[m - 1] + bus[m].size
    <3>1. m \in 0 .. k /\ m - 1 \in 0 .. k /\ m \in 1 .. m /\ (1 .. m) \ {m} = 1 .. m - 1
      BY <2>2
    <3>2. Well(bus, 1 .. m)
      BY <2>4, <3>1
    <3>3. Net(Summed(bus, 1 .. m, Flat))
            = Net(Summed(bus, (1 .. m) \ {m}, Flat)) + bus[m].size
      BY <3>1, <3>2, NetElement
    <3> QED
      BY <3>1, <3>3
  <2>8. c.side * Len(c.lots) = pos[k]
    <3>1. Net(BookOf(c)) = c.side * Len(c.lots)
      BY DEF Net, BookOf
    <3> QED
      BY <2>2, <2>3, <3>1
  <2> HIDE DEF pos
  <2> QED
    BY <2>2, <2>5, <2>6, <2>7, <2>8 DEF Position
<1> QED
  BY <1>1, Inductive, PTL
=============================================================================
