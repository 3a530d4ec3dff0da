--------------------------- MODULE LedgerProofs ---------------------------
(***************************************************************************)
(* Proofs about Ledger, for every set of processes, every finite set of    *)
(* symbols and any number of fills.  The book that is kept up to date one  *)
(* record at a time agrees with the one rebuilt from the bus: where sizes  *)
(* are summed because a record is added once and a sum has no order, where *)
(* they are absolute targets because the symbol lock makes append and      *)
(* apply one step as far as the symbol's other records can tell.  And the  *)
(* cap that is read in one step and spent in another holds, where the      *)
(* account lock keeps the book as it was read.                             *)
(*                                                                         *)
(* Each part of the invariant says itself for which deployments it holds.  *)
(***************************************************************************)
EXTENDS Ledger, FiniteSetTheorems, TLAPS

-----------------------------------------------------------------------------
(***************************************************************************)
(* Recursion over the subsets of a finite set.  A claim about all of them  *)
(* is proved by looking at a smallest subset for which it fails.           *)
(***************************************************************************)
\* Some set of a collection has no other below it.
LEMMA SmallestSet ==
  ASSUME NEW S, IsFiniteSet(S), NEW C \in SUBSET SUBSET S, C # {}
  PROVE  \E x \in C : \A y \in C : y \subseteq x => y = x
<1>1. IsWellFoundedOn(StrictSubsetOrdering(S), SUBSET S)
  BY FS_StrictSubsetOrderingWellFounded, FS_FiniteSubsetsOfFinite
<1>2. \E x \in C : \A y \in C : <<y, x>> \notin StrictSubsetOrdering(S)
  BY <1>1, WFMin
<1> QED
  BY <1>2 DEF StrictSubsetOrdering

\* last picks an element of every non-empty subset of T, and f is defined on
\* the subsets of T by recursion.
Picks(last, T) == \A U \in SUBSET T : U # {} => last[U] \in U

Rec(f, T, b, last, step) ==
  \A U \in SUBSET T : f[U] = IF U = {} THEN b ELSE step[U][f[U \ {last[U]}]]

\* It is determined.
LEMMA RecUnique ==
  ASSUME NEW W, IsFiniteSet(W), NEW b, NEW step, NEW last, Picks(last, W),
         NEW f, NEW g, Rec(f, W, b, last, step), Rec(g, W, b, last, step)
  PROVE  f[W] = g[W]
<1> DEFINE C == {U \in SUBSET W : f[U] # g[U]}
<1> SUFFICES ASSUME C # {} PROVE FALSE
  OBVIOUS
<1>1. C \in SUBSET SUBSET W
  OBVIOUS
<1>2. PICK U \in C : \A y \in C : y \subseteq U => y = U
  <2> HIDE DEF C
  <2> QED
    BY <1>1, SmallestSet
<1>3. U # {}
  BY <1>2 DEF Rec
<1>4. f[U \ {last[U]}] = g[U \ {last[U]}]
  BY <1>2, <1>3 DEF Picks
<1> QED
  BY <1>2, <1>3, <1>4 DEF Rec

\* There is a function so defined.
LEMMA Recursion ==
  ASSUME NEW S, IsFiniteSet(S), NEW V, NEW b \in V, NEW last, Picks(last, S),
         NEW step \in [SUBSET S -> [V -> V]]
  PROVE  \E f \in [SUBSET S -> V] : Rec(f, S, b, last, step)
<1> DEFINE Has(T, f) == f \in [SUBSET T -> V] /\ Rec(f, T, b, last, step)
<1> DEFINE C == {T \in SUBSET S : ~ \E f : Has(T, f)}
<1> SUFFICES ASSUME C # {} PROVE FALSE
  OBVIOUS
<1>1. C \in SUBSET SUBSET S
  OBVIOUS
<1>2. PICK T \in C : \A y \in C : y \subseteq T => y = T
  <2> HIDE DEF C
  <2> QED
    BY <1>1, SmallestSet
<1> DEFINE of[U \in SUBSET T] == CHOOSE f : Has(U, f)
<1>3. \A U \in SUBSET T : U # T => Has(U, of[U])
  <2> HIDE DEF Has
  <2> QED
    BY <1>2
<1> DEFINE at(U) == IF U = {} THEN b ELSE step[U][of[U \ {last[U]}][U \ {last[U]}]]
<1>4. ASSUME NEW U \in SUBSET T, U # {}
      PROVE  /\ U \ {last[U]} \in SUBSET T /\ U \ {last[U]} # T
             /\ U \ {last[U]} \in SUBSET U /\ U \ {last[U]} # U
  BY <1>4 DEF Picks
<1>5. \A U \in SUBSET T : at(U) \in V
  <2> HIDE DEF of
  <2> SUFFICES ASSUME NEW U \in SUBSET T, U # {} PROVE at(U) \in V
    OBVIOUS
  <2>1. of[U \ {last[U]}][U \ {last[U]}] \in V
    <3> DEFINE W == U \ {last[U]}
    <3>1. of[W] \in [SUBSET W -> V]
      BY <1>3, <1>4
    <3> QED
      BY <3>1
  <2> QED
    BY <2>1
<1>6. \A U \in SUBSET T : U # T => of[U][U] = at(U)
  <2> HIDE DEF of
  <2> SUFFICES ASSUME NEW U \in SUBSET T, U # T PROVE of[U][U] = at(U)
    OBVIOUS
  <2>0. Rec(of[U], U, b, last, step)
    BY <1>3
  <2>1. CASE U = {}
    BY <2>0, <2>1 DEF Rec
  <2>2. CASE U # {}
    <3> DEFINE W == U \ {last[U]}
    <3>1. Rec(of[W], W, b, last, step)
      BY <1>3, <1>4, <2>2
    <3>2. Rec(of[U], W, b, last, step)
      BY <2>0 DEF Rec
    <3>3. IsFiniteSet(W) /\ Picks(last, W)
      BY FS_Subset DEF Picks
    <3>4. of[U][W] = of[W][W]
      <4> HIDE DEF W
      <4> QED
        BY ONLY <3>1, <3>2, <3>3, RecUnique
    <3>5. of[U][U] = step[U][of[U][W]]
      BY <2>0, <2>2 DEF Rec
    <3> QED
      BY <2>2, <3>4, <3>5
  <2> QED
    BY <2>1, <2>2
<1> DEFINE f == [U \in SUBSET T |-> at(U)]
<1>7. f \in [SUBSET T -> V]
  <2> HIDE DEF at
  <2> QED
    BY <1>5
<1>8. Rec(f, T, b, last, step)
  <2> HIDE DEF of
  <2> SUFFICES ASSUME NEW U \in SUBSET T
      PROVE f[U] = IF U = {} THEN b ELSE step[U][f[U \ {last[U]}]]
    BY Zenon DEF Rec
  <2>1. CASE U = {}
    BY <2>1
  <2>2. CASE U # {}
    <3>1. f[U \ {last[U]}] = of[U \ {last[U]}][U \ {last[U]}]
      BY <1>4, <1>6, <2>2
    <3>2. f[U] = step[U][of[U \ {last[U]}][U \ {last[U]}]]
      BY <2>2
    <3> HIDE DEF f
    <3> QED
      BY <2>2, <3>1, <3>2
  <2> QED
    BY <2>1, <2>2, Zenon
<1> QED
  <2> HIDE DEF f
  <2> QED
    BY <1>2, <1>7, <1>8

-----------------------------------------------------------------------------
(***************************************************************************)
(* Sums over finite sets: what SumFunctionOnSet, which takes the elements  *)
(* in an order of its own, has to do with the elements.                    *)
(***************************************************************************)
AnyOf(U) == CHOOSE x \in U : TRUE

IntOn(f, S) == \A x \in S : f[x] \in Int

\* g is the function by which SumFunctionOnSet is defined.
Sums(g, f, S) ==
  /\ g \in [SUBSET S -> Int]
  /\ \A U \in SUBSET S : g[U] = IF U = {} THEN 0 ELSE f[AnyOf(U)] + g[U \ {AnyOf(U)}]

LEMMA SumByRecursion ==
  ASSUME NEW S, IsFiniteSet(S), NEW f, IntOn(f, S)
  PROVE  \E g : Sums(g, f, S)
<1> DEFINE last == [U \in SUBSET S |-> AnyOf(U)]
           step == [U \in SUBSET S |-> [v \in Int |-> IF U = {} THEN 0 ELSE f[AnyOf(U)] + v]]
<1>1. Picks(last, S)
  BY DEF Picks, AnyOf
<1>2. step \in [SUBSET S -> [Int -> Int]]
  BY DEF AnyOf, IntOn
<1>3. PICK g \in [SUBSET S -> Int] : Rec(g, S, 0, last, step)
  <2> HIDE DEF last, step
  <2>1. 0 \in Int
    OBVIOUS
  <2> QED
    BY ONLY <1>1, <1>2, <2>1, Recursion, IsFiniteSet(S)
<1>4. ASSUME NEW U \in SUBSET S
      PROVE  g[U] = IF U = {} THEN 0 ELSE f[AnyOf(U)] + g[U \ {AnyOf(U)}]
  <2>1. U \ {AnyOf(U)} \in SUBSET S
    OBVIOUS
  <2>2. g[U \ {AnyOf(U)}] \in Int
    BY <2>1
  <2>3. U # {} => step[U][g[U \ {AnyOf(U)}]] = f[AnyOf(U)] + g[U \ {AnyOf(U)}]
    BY <2>2
  <2>4. g[U] = IF U = {} THEN 0 ELSE step[U][g[U \ {AnyOf(U)}]]
    BY <1>3 DEF Rec
  <2> QED
    BY ONLY <2>3, <2>4
<1> QED
  BY <1>4 DEF Sums

LEMMA SumIs ==
  ASSUME NEW S, IsFiniteSet(S), NEW f, NEW g, Sums(g, f, S)
  PROVE  \A T \in SUBSET S : SumFunctionOnSet(f, T) = g[T]
<1> SUFFICES ASSUME NEW T \in SUBSET S PROVE SumFunctionOnSet(f, T) = g[T]
  OBVIOUS
<1> DEFINE SumRec(h) ==
      h = [U \in SUBSET T |-> IF U = {} THEN 0 ELSE f[AnyOf(U)] + h[U \ {AnyOf(U)}]]
    h == CHOOSE k : SumRec(k)
<1>1. SumFunctionOnSet(f, T) = h[T]
  BY DEF SumFunctionOnSet, FoldFunctionOnSet, MapThenFoldSet, AnyOf
<1>2. SumRec(h)
  <2>1. SumRec([U \in SUBSET T |-> g[U]])
    <3>1. \A U \in SUBSET T : U \ {AnyOf(U)} \in SUBSET T
      OBVIOUS
    <3> QED
      BY <3>1 DEF Sums
  <2> HIDE DEF SumRec
  <2> QED
    BY <2>1
<1>3. \A U \in SUBSET T : h[U] = IF U = {} THEN 0 ELSE f[AnyOf(U)] + h[U \ {AnyOf(U)}]
  <2> HIDE DEF h
  <2> QED
    BY <1>2
<1> HIDE DEF h
<1> DEFINE C == {U \in SUBSET T : h[U] # g[U]}
<1>4. ASSUME C # {} PROVE FALSE
  <2>1. C \in SUBSET SUBSET T /\ IsFiniteSet(T)
    BY FS_Subset
  <2>2. PICK U \in C : \A y \in C : y \subseteq U => y = U
    <3> HIDE DEF C
    <3> QED
      BY <1>4, <2>1, SmallestSet
  <2>3. U \in SUBSET S /\ U # {}
    BY <1>3, <2>2 DEF Sums
  <2>4. h[U \ {AnyOf(U)}] = g[U \ {AnyOf(U)}]
    BY <2>2, <2>3 DEF AnyOf
  <2> QED
    BY <1>3, <2>2, <2>3, <2>4 DEF Sums
<1> QED
  BY <1>1, <1>4

\* The sum over no element; a sum of integers is one; any element may be
\* taken out of it.
LEMMA SumEmpty == ASSUME NEW f PROVE SumFunctionOnSet(f, {}) = 0
<1>1. PICK g : Sums(g, f, {})
  BY SumByRecursion, FS_EmptySet DEF IntOn
<1>2. \A T \in SUBSET {} : SumFunctionOnSet(f, T) = g[T]
  BY <1>1, SumIs, FS_EmptySet
<1>3. g[{}] = 0
  BY <1>1 DEF Sums
<1> QED
  BY <1>2, <1>3

LEMMA SumElement ==
  ASSUME NEW S, IsFiniteSet(S), NEW f, IntOn(f, S)
  PROVE  /\ SumFunctionOnSet(f, S) \in Int
         /\ \A x \in S : /\ SumFunctionOnSet(f, S \ {x}) \in Int
                         /\ SumFunctionOnSet(f, S) = f[x] + SumFunctionOnSet(f, S \ {x})
<1>1. PICK g : Sums(g, f, S)
  BY SumByRecursion
<1> DEFINE C == {U \in SUBSET S : \E x \in U : g[U] # f[x] + g[U \ {x}]}
<1>2. ASSUME C # {} PROVE FALSE
  <2>1. C \in SUBSET SUBSET S
    OBVIOUS
  <2>2. PICK U \in C : \A y \in C : y \subseteq U => y = U
    <3> HIDE DEF C
    <3> QED
      BY <1>2, <2>1, SmallestSet
  <2>3. PICK x \in U : g[U] # f[x] + g[U \ {x}]
    BY <2>2
  <2>4. PICK y \in U : g[U] = f[y] + g[U \ {y}]
    <3>1. AnyOf(U) \in U
      BY <2>3 DEF AnyOf
    <3> QED
      BY <1>1, <2>2, <3>1 DEF Sums
  <2>5. x # y
    BY <2>3, <2>4
  <2>6. \A V \in SUBSET U : V # U => \A z \in V : g[V] = f[z] + g[V \ {z}]
    BY <2>2
  <2>7. g[U \ {y}] = f[x] + g[(U \ {y}) \ {x}]
    BY <2>3, <2>4, <2>5, <2>6
  <2>8. g[U \ {x}] = f[y] + g[(U \ {x}) \ {y}]
    BY <2>3, <2>4, <2>5, <2>6
  <2>9. PICK v \in Int : v = g[(U \ {x}) \ {y}] /\ v = g[(U \ {y}) \ {x}]
    <3>1. (U \ {y}) \ {x} = (U \ {x}) \ {y}
      OBVIOUS
    <3>2. (U \ {x}) \ {y} \in SUBSET S
      BY <2>2
    <3> QED
      BY <1>1, <3>1, <3>2 DEF Sums
  <2>10. f[x] \in Int /\ f[y] \in Int
    BY <2>2 DEF IntOn
  <2>11. g[U] = f[x] + g[U \ {x}]
    BY ONLY <2>4, <2>7, <2>8, <2>9, <2>10
  <2> QED
    BY <2>3, <2>11
<1>3. \A x \in S : g[S] = f[x] + g[S \ {x}]
  BY <1>2
<1>4. \A T \in SUBSET S : SumFunctionOnSet(f, T) = g[T]
  BY <1>1, SumIs
<1>5. \A T \in SUBSET S : g[T] \in Int
  BY <1>1 DEF Sums
<1> QED
  BY <1>3, <1>4, <1>5

\* Sums of functions that agree on the set are equal.
LEMMA SumAgree ==
  ASSUME NEW S, IsFiniteSet(S), NEW f, IntOn(f, S), NEW g, \A x \in S : g[x] = f[x]
  PROVE  SumFunctionOnSet(g, S) = SumFunctionOnSet(f, S)
<1> DEFINE C == {U \in SUBSET S : SumFunctionOnSet(g, U) # SumFunctionOnSet(f, U)}
<1> SUFFICES ASSUME C # {} PROVE FALSE
  OBVIOUS
<1>1. C \in SUBSET SUBSET S
  OBVIOUS
<1>2. PICK U \in C : \A y \in C : y \subseteq U => y = U
  <2> HIDE DEF C
  <2> QED
    BY <1>1, SmallestSet
<1>3. IsFiniteSet(U) /\ U \in SUBSET S /\ IntOn(f, U) /\ IntOn(g, U)
  BY FS_Subset DEF IntOn
<1>4. PICK x \in U : TRUE
  BY <1>2, SumEmpty
<1>5. SumFunctionOnSet(g, U \ {x}) = SumFunctionOnSet(f, U \ {x})
  BY <1>2, <1>4
<1>6. SumFunctionOnSet(f, U) = f[x] + SumFunctionOnSet(f, U \ {x})
  BY <1>3, <1>4, SumElement
<1>7. SumFunctionOnSet(g, U) = g[x] + SumFunctionOnSet(g, U \ {x})
  BY <1>3, <1>4, SumElement
<1> QED
  BY <1>2, <1>3, <1>4, <1>5, <1>6, <1>7

LEMMA SumOfZeros ==
  ASSUME NEW S, IsFiniteSet(S), NEW f, \A x \in S : f[x] = 0
  PROVE  SumFunctionOnSet(f, S) = 0
<1> DEFINE C == {U \in SUBSET S : SumFunctionOnSet(f, U) # 0}
<1> SUFFICES ASSUME C # {} PROVE FALSE
  OBVIOUS
<1>1. C \in SUBSET SUBSET S
  OBVIOUS
<1>2. PICK U \in C : \A y \in C : y \subseteq U => y = U
  <2> HIDE DEF C
  <2> QED
    BY <1>1, SmallestSet
<1>3. IsFiniteSet(U) /\ U \in SUBSET S /\ IntOn(f, U)
  BY FS_Subset DEF IntOn
<1>4. PICK x \in U : TRUE
  BY <1>2, SumEmpty
<1>5. SumFunctionOnSet(f, U \ {x}) = 0
  BY <1>2, <1>4
<1>6. SumFunctionOnSet(f, U) = f[x] + SumFunctionOnSet(f, U \ {x})
  BY <1>3, <1>4, SumElement
<1> QED
  BY <1>2, <1>3, <1>4, <1>5, <1>6

-----------------------------------------------------------------------------
(***************************************************************************)
(* The inductive invariant.                                                *)
(***************************************************************************)
Inside == {"cap", "append", "apply"}

Fire == Inside \cup {"symbol"}

FillInv ==
  \A q \in Procs :
    /\ pc[q] # "idle" => fill[q] \in Fill
    /\ pc[q] \in {"account", "symbol", "cap"} => fill[q].size = fill[q].want

\* Where the lock files work, whoever is past a lock, and nobody else, holds
\* it.
HeldInv ==
  ~setup.lockFaults => \A q \in Procs :
    /\ pc[q] \in Inside <=> "symbol" \in held[q]
    /\ setup.accountLock => (pc[q] \in Fire <=> "account" \in held[q])

\* The locks exclude: one fire of a symbol, or one fire of the account.
OnePerSymbol ==
  ~setup.lockFaults => \A q, r \in Procs :
    pc[q] \in Inside /\ pc[r] \in Inside /\ fill[q].symbol = fill[r].symbol => q = r

OnePerAccount ==
  setup.accountLock /\ ~setup.lockFaults => \A q, r \in Procs :
    pc[q] \in Fire /\ pc[r] \in Fire => q = r

\* Sizes are summed, and nothing is rebuilt while records are being applied.
Summing == ~setup.normalizer /\ setup.rebuild # "online"

\* The record that a process is about to apply is in the bus, has not been
\* applied and belongs to that process alone; where the lock files work it is
\* the last of its symbol; where sizes are summed no rebuild has folded it.
ApplyInv ==
  \A q \in Procs : pc[q] = "apply" =>
    /\ fill[q].place \in DOMAIN bus /\ fill[q].place \notin processed
    /\ bus[fill[q].place].symbol = fill[q].symbol
    /\ bus[fill[q].place].size = fill[q].size
    /\ \A r \in Procs : pc[r] = "apply" /\ fill[r].place = fill[q].place => r = q
    /\ ~setup.lockFaults => \A m \in Of(fill[q].symbol, DOMAIN bus) : m <= fill[q].place
    /\ Summing => fill[q].place \in unfolded

IsLatest(n, places) == n \in places /\ \A m \in places : Before(m, n)

\* Among the records of a symbol there is a latest one.
LatestInv ==
  \A s \in Symbols : Of(s, DOMAIN bus) # {} => \E n \in DOMAIN bus : IsLatest(n, Of(s, DOMAIN bus))

\* The position of a symbol is the target of its latest folded record.
FoldedIs(s, v) ==
  \/ Of(s, DOMAIN bus \ unfolded) = {} /\ v = 0
  \/ \E n \in DOMAIN bus : IsLatest(n, Of(s, DOMAIN bus \ unfolded)) /\ v = bus[n].size

FoldedInv ==
  setup.normalizer /\ ~setup.lockFaults =>
    \A s \in Symbols : InOrder(s) => FoldedIs(s, positions[s])

\* Where sizes are summed, it is the sum of the folded records.
Sum(s, places) == SumFunctionOnSet([n \in DOMAIN bus |-> bus[n].size], Of(s, places))

SummedInv == Summing => \A s \in Symbols : positions[s] = Sum(s, DOMAIN bus \ unfolded)

\* The cap is enforced on absolute targets, one fire of the account at a
\* time, and no rebuild brings back a record that its fire failed to apply.
CapGuarded ==
  /\ setup.caps /\ setup.normalizer /\ setup.accountLock /\ ~setup.lockFaults
  /\ setup.rebuild = "never"

\* A fill fits: it is no larger than the position it replaces, or no larger
\* than the room that the book leaves.
Fits(f) == \/ Abs(f.size) <= Abs(positions[f.symbol])
           \/ Abs(f.size) <= GrossCap - Gross(positions)

\* On its way into the book it fits the book still as it was read.
CapInv ==
  CapGuarded =>
    /\ Gross(positions) <= GrossCap
    /\ \A q \in Procs : pc[q] \in {"append", "apply"} => Fits(fill[q])

IInv ==
  /\ TypeOK /\ FillInv /\ HeldInv /\ OnePerSymbol /\ OnePerAccount
  /\ ApplyInv /\ LatestInv /\ FoldedInv /\ SummedInv /\ CapInv
-----------------------------------------------------------------------------
(***************************************************************************)
(* The two folds.                                                          *)
(***************************************************************************)
USE LedgerAssumption

LEMMA BusTypes ==
  ASSUME TypeOK
  PROVE  /\ DOMAIN bus = 1 .. Len(bus) /\ Len(bus) \in Nat /\ IsFiniteSet(DOMAIN bus)
         /\ \A m \in DOMAIN bus : m \in Nat /\ bus[m] \in Record /\ bus[m].asof \in Nat
                                 /\ bus[m].size \in Int
<1>1. bus \in Seq(Record)
  BY DEF TypeOK
<1>2. DOMAIN bus = 1 .. Len(bus) /\ Len(bus) \in Nat
  BY <1>1
<1>3. \A m \in DOMAIN bus : bus[m] \in Record
  BY <1>1
<1>4. IsFiniteSet(DOMAIN bus)
  BY <1>2, FS_Interval
<1> QED
  BY <1>2, <1>3, <1>4 DEF Record

\* The latest record of a set is the one that Latest names.
LEMMA LatestIs ==
  ASSUME TypeOK, NEW places \in SUBSET DOMAIN bus, NEW n, IsLatest(n, places)
  PROVE  Latest(places) = n
<1>1. \A m \in places : m \in Nat /\ bus[m].asof \in Nat
  BY BusTypes
<1>2. \A k \in places : (\A m \in places : Before(m, k)) => k = n
  BY <1>1 DEF IsLatest, Before
<1> QED
  BY <1>2 DEF Latest, IsLatest

\* The fold of absolute targets is the size of the latest record.
LEMMA FoldIs ==
  ASSUME TypeOK, setup.normalizer, NEW s \in Symbols, NEW places \in SUBSET DOMAIN bus
  PROVE  /\ Of(s, places) = {} => Fold(s, places) = 0
         /\ \A n : IsLatest(n, Of(s, places)) => Fold(s, places) = bus[n].size
<1>1. Of(s, places) \in SUBSET DOMAIN bus
  BY DEF Of
<1>2. ASSUME NEW n, IsLatest(n, Of(s, places)) PROVE Fold(s, places) = bus[n].size
  <2>1. Of(s, places) # {}
    BY <1>2 DEF IsLatest
  <2>2. Latest(Of(s, places)) = n
    BY <1>1, <1>2, LatestIs
  <2> QED
    BY <2>1, <2>2 DEF Fold
<1> QED
  BY <1>2 DEF Fold

\* The sum over places is an integer, and a record of the symbol may be taken
\* out of it.
LEMMA SumOf ==
  ASSUME TypeOK, NEW s, NEW places \in SUBSET DOMAIN bus
  PROVE  /\ Sum(s, places) \in Int
         /\ \A n \in places :
              Sum(s, places) = Sum(s, places \ {n}) + IF bus[n].symbol = s THEN bus[n].size ELSE 0
<1> DEFINE f == [n \in DOMAIN bus |-> bus[n].size]
<1>1. IsFiniteSet(Of(s, places))
  <2>1. Of(s, places) \in SUBSET DOMAIN bus
    BY DEF Of
  <2> QED
    BY <2>1, BusTypes, FS_Subset
<1>2. IntOn(f, Of(s, places))
  BY BusTypes DEF IntOn, Of
<1>3. Sum(s, places) = SumFunctionOnSet(f, Of(s, places))
  BY DEF Sum
<1>4. ASSUME NEW n \in places
      PROVE  Sum(s, places) = Sum(s, places \ {n}) + IF bus[n].symbol = s THEN bus[n].size ELSE 0
  <2>1. Sum(s, places \ {n}) = SumFunctionOnSet(f, Of(s, places \ {n}))
    BY DEF Sum
  <2>2. CASE bus[n].symbol = s
    <3>1. n \in Of(s, places) /\ Of(s, places \ {n}) = Of(s, places) \ {n}
      BY <2>2 DEF Of
    <3>2. f[n] = bus[n].size /\ bus[n].size \in Int
      BY BusTypes
    <3> HIDE DEF f
    <3>3. /\ SumFunctionOnSet(f, Of(s, places) \ {n}) \in Int
          /\ SumFunctionOnSet(f, Of(s, places)) = f[n] + SumFunctionOnSet(f, Of(s, places) \ {n})
      BY <1>1, <1>2, <3>1, SumElement
    <3>4. Sum(s, places) = bus[n].size + Sum(s, places \ {n}) /\ Sum(s, places \ {n}) \in Int
      BY ONLY <1>3, <2>1, <3>1, <3>2, <3>3
    <3> QED
      BY ONLY <2>2, <3>2, <3>4
  <2>3. CASE bus[n].symbol # s
    <3>1. Of(s, places \ {n}) = Of(s, places)
      BY <2>3 DEF Of
    <3> HIDE DEF f
    <3>2. SumFunctionOnSet(f, Of(s, places)) \in Int
      BY <1>1, <1>2, SumElement
    <3> QED
      BY <1>3, <2>1, <2>3, <3>1, <3>2
  <2> QED
    BY <2>2, <2>3
<1>5. Sum(s, places) \in Int
  <2> HIDE DEF f
  <2> QED
    BY <1>1, <1>2, <1>3, SumElement
<1> QED
  BY <1>4, <1>5

\* It does not depend on the records elsewhere in the bus.
LEMMA SumGrows ==
  ASSUME TypeOK, NEW s, NEW places \in SUBSET DOMAIN bus, DOMAIN bus \subseteq DOMAIN bus',
         \A n \in DOMAIN bus : bus'[n] = bus[n]
  PROVE  SumFunctionOnSet([n \in DOMAIN bus' |-> bus'[n].size], {n \in places : bus'[n].symbol = s})
         = Sum(s, places)
<1> DEFINE f == [n \in DOMAIN bus |-> bus[n].size]
           g == [n \in DOMAIN bus' |-> bus'[n].size]
           P == {n \in places : bus'[n].symbol = s}
<1>1. P = Of(s, places) /\ P \in SUBSET DOMAIN bus
  BY DEF Of
<1>2. Sum(s, places) = SumFunctionOnSet(f, P)
  BY <1>1 DEF Sum
<1>3. IsFiniteSet(P)
  BY <1>1, BusTypes, FS_Subset
<1>4. IntOn(f, P) /\ \A n \in P : g[n] = f[n]
  BY <1>1, BusTypes DEF IntOn
<1>5. SumFunctionOnSet(g, P) = SumFunctionOnSet(f, P)
  <2> HIDE DEF f, g, P
  <2> QED
    BY <1>3, <1>4, SumAgree
<1> QED
  BY <1>2, <1>5

LEMMA FoldType ==
  ASSUME TypeOK, LatestInv, NEW s \in Symbols
  PROVE  Fold(s, DOMAIN bus) \in Int
<1>1. CASE ~setup.normalizer
  BY <1>1, SumOf DEF Fold, Sum
<1>2. CASE setup.normalizer /\ Of(s, DOMAIN bus) = {}
  BY <1>2, FoldIs
<1>3. ASSUME setup.normalizer, NEW n \in DOMAIN bus, IsLatest(n, Of(s, DOMAIN bus))
      PROVE  Fold(s, DOMAIN bus) \in Int
  BY <1>3, FoldIs, BusTypes
<1> QED
  BY <1>1, <1>2, <1>3 DEF LatestInv

-----------------------------------------------------------------------------
(***************************************************************************)
(* The gross of the book.                                                  *)
(***************************************************************************)
LEMMA GrossType ==
  ASSUME NEW p \in [Symbols -> Int]
  PROVE  Gross(p) \in Int
<1> DEFINE f == [s \in Symbols |-> Abs(p[s])]
<1>1. IntOn(f, Symbols) /\ DOMAIN f = Symbols
  BY DEF IntOn, Abs
<1>2. Gross(p) = SumFunctionOnSet(f, Symbols)
  BY <1>1 DEF Gross, SumFunction
<1> HIDE DEF f
<1> QED
  BY <1>1, <1>2, SumElement

\* One position changes.
LEMMA GrossChange ==
  ASSUME NEW p \in [Symbols -> Int], NEW s \in Symbols, NEW v \in Int
  PROVE  Gross([p EXCEPT ![s] = v]) = Gross(p) - Abs(p[s]) + Abs(v)
<1> DEFINE r == [p EXCEPT ![s] = v]
           f == [t \in Symbols |-> Abs(p[t])]
           g == [t \in Symbols |-> Abs(r[t])]
           Others == Symbols \ {s}
<1>1. /\ IntOn(f, Symbols) /\ IntOn(g, Symbols) /\ IntOn(f, Others)
      /\ DOMAIN f = Symbols /\ DOMAIN g = Symbols
  BY DEF IntOn, Abs
<1>2. Gross(p) = SumFunctionOnSet(f, Symbols) /\ Gross(r) = SumFunctionOnSet(g, Symbols)
  BY <1>1 DEF Gross, SumFunction
<1>3. f[s] = Abs(p[s]) /\ g[s] = Abs(v) /\ \A t \in Others : g[t] = f[t]
  OBVIOUS
<1>4. Abs(p[s]) \in Int /\ Abs(v) \in Int /\ IsFiniteSet(Others)
  BY FS_RemoveElement DEF Abs
<1> HIDE DEF f, g, r
<1>5. SumFunctionOnSet(g, Others) = SumFunctionOnSet(f, Others)
  <2> HIDE DEF Others
  <2> QED
    BY <1>1, <1>3, <1>4, SumAgree
<1>6. /\ SumFunctionOnSet(f, Others) \in Int
      /\ SumFunctionOnSet(f, Symbols) = f[s] + SumFunctionOnSet(f, Others)
  BY <1>1, SumElement
<1>7. SumFunctionOnSet(g, Symbols) = g[s] + SumFunctionOnSet(g, Others)
  BY <1>1, SumElement
<1>8. Gross(r) = Gross(p) - Abs(p[s]) + Abs(v)
  <2> HIDE DEF Others
  <2> QED
    BY ONLY <1>2, <1>3, <1>4, <1>5, <1>6, <1>7
<1> QED
  BY <1>8 DEF r

-----------------------------------------------------------------------------
(***************************************************************************)
(* The steps, as far as the proofs tell them apart.                        *)
(***************************************************************************)
Locks == {"account", "symbol"}

LEMMA Steps ==
  ASSUME [Next]_vars
  PROVE  \/ \E q \in Procs :
              \/ \E s \in Symbols, w \in Sizes : Execute(q, s, w)
              \/ \E lock \in Locks : AcquireLock(q, lock) \/ LockFailsOpen(q, lock)
              \/ CapRead(q) \/ AppendRecord(q) \/ ApplyExecution(q)
              \/ Leave(q) /\ pc[q] # "idle" /\ UNCHANGED <<bus, clock, setup, book>>
         \/ UNCHANGED <<local, bus, setup>> /\ (Reconstruct \/ UNCHANGED book)
<1>1. ASSUME NEW q \in Procs, NEW lock \in Locks, LockContended(q, lock)
      PROVE  Leave(q) /\ pc[q] # "idle" /\ UNCHANGED <<bus, clock, setup, book>>
  BY <1>1 DEF LockContended, Locks
<1> QED
  BY <1>1 DEF Next, Locking, Crash, Reconstruct, Tick, vars, book, Locks

LEMMA ClipFits ==
  ASSUME NEW want \in Int, NEW room \in Int, room > 0
  PROVE  Clip(want, room) \in Int /\ Abs(Clip(want, room)) <= room
BY DEF Clip, Abs

\* The cap lets the fill through, clipped or not, or ends the fire.
LEMMA CapIs ==
  ASSUME TypeOK, FillInv, NEW q \in Procs, CapRead(q)
  PROVE  /\ pc[q] = "cap" /\ UNCHANGED <<bus, clock, setup, book>>
         /\ \/ Leave(q)
            \/ /\ pc' = [pc EXCEPT ![q] = "append"] /\ held' = held
               /\ fill'[q] \in Fill /\ fill'[q].symbol = fill[q].symbol
               /\ fill' = [fill EXCEPT ![q] = fill'[q]]
               /\ setup.caps => Fits(fill'[q])
<1> DEFINE room == GrossCap - Gross(positions)
           want == fill[q].want
<1>1. /\ pc[q] = "cap" /\ UNCHANGED <<bus, clock, setup, book>>
      /\ fill[q] \in Fill /\ fill[q].size = want /\ want \in Int /\ fill[q].symbol \in Symbols
  BY DEF CapRead, Step, FillInv, Fill
<1>2. room \in Int /\ fill \in [Procs -> Fill \cup {NoFill}]
  BY GrossType DEF TypeOK
<1>3. CASE /\ ~setup.caps \/ Abs(want) <= Abs(positions[fill[q].symbol])
           /\ Step(q, "cap", "append") /\ UNCHANGED <<fill, held>>
  BY <1>1, <1>2, <1>3 DEF Step, Fits
<1>4. CASE /\ setup.caps /\ room > 0 /\ Step(q, "cap", "append") /\ UNCHANGED held
           /\ fill' = [fill EXCEPT ![q].size = Clip(want, room)]
  <2>1. Clip(want, room) \in Int /\ Abs(Clip(want, room)) <= room
    <3> HIDE DEF room, want
    <3> QED
      BY <1>1, <1>2, <1>4, ClipFits
  <2> DEFINE z == Clip(want, room)
             f == [fill[q] EXCEPT !.size = z]
  <2> HIDE DEF z
  <2>2. z \in Int /\ Abs(z) <= room
    BY <2>1 DEF z
  <2>3. f \in Fill /\ f.symbol = fill[q].symbol /\ f.size = z
    BY <1>1, <2>2 DEF Fill
  <2>4. fill' = [fill EXCEPT ![q] = f]
    BY <1>4 DEF z
  <2> HIDE DEF f
  <2>5. fill'[q] = f
    BY <1>2, <2>4
  <2>6. Fits(f) /\ positions' = positions
    BY <1>1, <2>2, <2>3 DEF Fits, book
  <2> QED
    BY <1>1, <1>4, <2>3, <2>4, <2>5, <2>6 DEF Step
<1>5. CASE Leave(q)
  BY <1>1, <1>5
<1> QED
  BY <1>3, <1>4, <1>5 DEF CapRead

\* What an append does to the bus.
End == Len(bus) + 1

LEMMA AppendIs ==
  ASSUME TypeOK, FillInv, NEW q \in Procs, AppendRecord(q)
  PROVE  /\ pc[q] = "append" /\ fill[q] \in Fill /\ End \notin DOMAIN bus /\ End \in Nat
         /\ bus' \in Seq(Record) /\ DOMAIN bus' = DOMAIN bus \cup {End}
         /\ \A m \in DOMAIN bus : bus'[m] = bus[m] /\ m < End /\ m \in Nat
         /\ bus'[End].symbol = fill[q].symbol /\ bus'[End].size = fill[q].size
         /\ bus'[End].asof = fill[q].asof
         /\ fill'[q] \in Fill /\ fill'[q].place = End
         /\ fill'[q].symbol = fill[q].symbol /\ fill'[q].size = fill[q].size
         /\ fill' = [fill EXCEPT ![q] = fill'[q]]
         /\ pc' = [pc EXCEPT ![q] = "apply"]
         /\ unfolded' = unfolded \cup {End}
         /\ UNCHANGED <<positions, processed, setup, held, clock>>
<1>1. /\ bus \in Seq(Record) /\ pc[q] = "append" /\ fill[q] \in Fill
      /\ fill \in [Procs -> Fill \cup {NoFill}]
  BY DEF AppendRecord, Step, TypeOK, FillInv
<1> DEFINE r == [symbol |-> fill[q].symbol, size |-> fill[q].size, asof |-> fill[q].asof]
           f == [fill[q] EXCEPT !.place = End]
<1>2. bus' = Append(bus, r) /\ fill' = [fill EXCEPT ![q] = f]
  BY DEF AppendRecord, End
<1>3. r.symbol = fill[q].symbol /\ r.size = fill[q].size /\ r.asof = fill[q].asof /\ r \in Record
  BY <1>1 DEF Record, Fill
<1>4. End \in Nat
  BY <1>1 DEF End
<1>5. f \in Fill /\ f.place = End /\ f.symbol = fill[q].symbol /\ f.size = fill[q].size
  BY <1>1, <1>4 DEF Fill
<1> HIDE DEF r, f
<1>6. /\ bus' \in Seq(Record) /\ DOMAIN bus' = DOMAIN bus \cup {End} /\ End \notin DOMAIN bus
      /\ \A m \in DOMAIN bus : bus'[m] = bus[m] /\ m < End /\ m \in Nat
      /\ bus'[End] = r
  BY <1>1, <1>2, <1>3, BusTypes DEF End
<1>7. fill'[q] = f
  BY <1>1, <1>2
<1>8. /\ pc' = [pc EXCEPT ![q] = "apply"] /\ unfolded' = unfolded \cup {End}
      /\ UNCHANGED <<positions, processed, setup, held, clock>>
  BY DEF AppendRecord, Step, End
<1> QED
  BY ONLY <1>1, <1>2, <1>3, <1>4, <1>5, <1>6, <1>7, <1>8

\* An apply adds what it trades to one position, and leaves the others alone.
LEMMA ApplyIs ==
  ASSUME TypeOK, FillInv, ApplyInv, NEW q \in Procs, ApplyExecution(q)
  PROVE  /\ pc[q] = "apply" /\ fill[q] \in Fill /\ Delta(q) \in Int
         /\ positions' = [positions EXCEPT ![fill[q].symbol] = positions[fill[q].symbol] + Delta(q)]
         /\ processed' = processed \cup {fill[q].place}
         /\ unfolded' = unfolded \ {fill[q].place}
         /\ Leave(q) /\ UNCHANGED <<bus, clock, setup>>
<1>1. pc[q] = "apply" /\ fill[q] \in Fill /\ fill[q].place \notin processed
  BY DEF ApplyExecution, FillInv, ApplyInv
<1>2. Delta(q) \in Int
  BY <1>1 DEF Delta, Fill, TypeOK
<1> QED
  BY <1>1, <1>2 DEF ApplyExecution

-----------------------------------------------------------------------------
(***************************************************************************)
(* Each part of the invariant is preserved.                                *)
(***************************************************************************)
LEMMA TypeStep ==
  ASSUME TypeOK, FillInv, ApplyInv, LatestInv, [Next]_vars
  PROVE  TypeOK'
<1> USE DEF TypeOK, Step, local, book
<1>1. ASSUME NEW q \in Procs, NEW s \in Symbols, NEW w \in Sizes, Execute(q, s, w)
      PROVE  TypeOK'
  BY <1>1 DEF Execute, Fill
<1>2. ASSUME NEW q \in Procs, NEW lock \in Locks, AcquireLock(q, lock) \/ LockFailsOpen(q, lock)
      PROVE  TypeOK'
  BY <1>2 DEF AcquireLock, LockFailsOpen, Following, Locks
<1>3. ASSUME NEW q \in Procs, Leave(q), UNCHANGED <<bus, clock, setup, book>>
      PROVE  TypeOK'
  BY <1>3 DEF Leave
<1>4. ASSUME NEW q \in Procs, CapRead(q) PROVE TypeOK'
  <2>1. CASE Leave(q)
    BY <1>3, <1>4, <2>1, CapIs
  <2>2. CASE /\ pc' = [pc EXCEPT ![q] = "append"] /\ held' = held /\ fill'[q] \in Fill
             /\ fill' = [fill EXCEPT ![q] = fill'[q]]
    <3>1. UNCHANGED <<bus, clock, setup, book>>
      BY <1>4, CapIs
    <3> QED
      BY <2>2, <3>1
  <2> QED
    BY <1>4, <2>1, <2>2, CapIs
<1>5. ASSUME NEW q \in Procs, AppendRecord(q) PROVE TypeOK'
  <2>1. /\ bus' \in Seq(Record) /\ DOMAIN bus' = DOMAIN bus \cup {End} /\ fill'[q] \in Fill
        /\ fill' = [fill EXCEPT ![q] = fill'[q]] /\ pc' = [pc EXCEPT ![q] = "apply"]
        /\ unfolded' = unfolded \cup {End}
        /\ UNCHANGED <<positions, processed, setup, held, clock>>
    BY <1>5, AppendIs
  <2>2. fill' \in [Procs -> Fill \cup {NoFill}]
    BY <2>1
  <2> QED
    BY <2>1, <2>2
<1>6. ASSUME NEW q \in Procs, ApplyExecution(q) PROVE TypeOK'
  <2>1. /\ fill[q].symbol \in Symbols /\ Delta(q) \in Int /\ fill[q].place \in DOMAIN bus
        /\ positions' = [positions EXCEPT ![fill[q].symbol] = positions[fill[q].symbol] + Delta(q)]
        /\ processed' = processed \cup {fill[q].place}
        /\ unfolded' = unfolded \ {fill[q].place}
        /\ Leave(q) /\ UNCHANGED <<bus, clock, setup>>
    BY <1>6, ApplyIs DEF Fill, ApplyInv
  <2>2. positions' \in [Symbols -> Int]
    BY <2>1
  <2> QED
    BY <2>1, <2>2 DEF Leave
<1>7. CASE Reconstruct
  <2>1. positions' \in [Symbols -> Int]
    BY <1>7, FoldType DEF Reconstruct
  <2> QED
    BY <1>7, <2>1 DEF Reconstruct
<1>8. CASE Tick
  BY <1>8 DEF Tick
<1>9. CASE UNCHANGED vars
  BY <1>9 DEF vars
<1>10. clock' = clock \/ Tick
  BY DEF Next, Locking, Crash, Execute, AcquireLock, LockFailsOpen, LockContended, CapRead,
         AppendRecord, ApplyExecution, Reconstruct, vars
<1>11. CASE clock' = clock /\ UNCHANGED <<local, bus, setup, book>>
  BY <1>11
<1> QED
  BY Steps, <1>1, <1>2, <1>3, <1>4, <1>5, <1>6, <1>7, <1>8, <1>10, <1>11

LEMMA ControlStep ==
  ASSUME TypeOK, FillInv, HeldInv, OnePerSymbol, OnePerAccount, [Next]_vars
  PROVE  FillInv' /\ HeldInv' /\ OnePerSymbol' /\ OnePerAccount'
<1> USE DEF TypeOK, FillInv, HeldInv, OnePerSymbol, OnePerAccount, Inside, Fire
<1> DEFINE Control == FillInv /\ HeldInv /\ OnePerSymbol /\ OnePerAccount
<1>1. ASSUME NEW q \in Procs, NEW s \in Symbols, NEW w \in Sizes, Execute(q, s, w)
      PROVE  Control'
  BY <1>1 DEF Execute, Fill, Step
<1>2. ASSUME NEW q \in Procs, AcquireLock(q, "account")
      PROVE  Control'
  <2>1. /\ pc[q] = "account" /\ pc' = [pc EXCEPT ![q] = "symbol"] /\ fill' = fill /\ setup' = setup
        /\ held' = [held EXCEPT ![q] = held[q] \cup {"account"}]
    BY <1>2 DEF AcquireLock, Following, Step
  <2>2. \A r \in Procs \ {q} : "account" \notin held[r]
    BY <1>2 DEF AcquireLock, Free
  <2> QED
    BY <2>1, <2>2
<1>3. ASSUME NEW q \in Procs, AcquireLock(q, "symbol")
      PROVE  Control'
  <2>1. /\ pc[q] = "symbol" /\ pc' = [pc EXCEPT ![q] = "cap"] /\ fill' = fill /\ setup' = setup
        /\ held' = [held EXCEPT ![q] = held[q] \cup {"symbol"}]
    BY <1>3 DEF AcquireLock, Following, Step
  <2>2. \A r \in Procs \ {q} : "symbol" \in held[r] => fill[r].symbol # fill[q].symbol
    BY <1>3 DEF AcquireLock, Free
  <2> QED
    BY <2>1, <2>2
<1>4. ASSUME NEW q \in Procs, NEW lock \in Locks, LockFailsOpen(q, lock)
      PROVE  Control'
  <2>1. /\ pc[q] = lock /\ pc' = [pc EXCEPT ![q] = Following[lock]] /\ fill' = fill
        /\ setup' = setup /\ setup.lockFaults
    BY <1>4 DEF LockFailsOpen, Step
  <2> QED
    BY <2>1 DEF Locks, Following
<1>5. ASSUME NEW q \in Procs, Leave(q), setup' = setup PROVE Control'
  BY <1>5 DEF Leave
<1>6. ASSUME NEW q \in Procs, CapRead(q) PROVE Control'
  <2>1. CASE Leave(q)
    BY <1>5, <1>6, <2>1, CapIs
  <2>2. CASE /\ pc' = [pc EXCEPT ![q] = "append"] /\ held' = held
             /\ fill'[q] \in Fill /\ fill'[q].symbol = fill[q].symbol
             /\ fill' = [fill EXCEPT ![q] = fill'[q]]
    <3>1. pc[q] = "cap" /\ setup' = setup
      BY <1>6, CapIs
    <3> QED
      BY <2>2, <3>1
  <2> QED
    BY <1>6, <2>1, <2>2, CapIs
<1>7. ASSUME NEW q \in Procs, AppendRecord(q) PROVE Control'
  <2>1. /\ pc[q] = "append" /\ pc' = [pc EXCEPT ![q] = "apply"] /\ held' = held /\ setup' = setup
        /\ fill'[q] \in Fill /\ fill'[q].symbol = fill[q].symbol
        /\ fill' = [fill EXCEPT ![q] = fill'[q]]
    BY <1>7, AppendIs
  <2> QED
    BY <2>1
<1>8. ASSUME NEW q \in Procs, ApplyExecution(q) PROVE Leave(q) /\ setup' = setup
  BY <1>8 DEF ApplyExecution
<1>9. CASE UNCHANGED local /\ setup' = setup
  BY <1>9 DEF local
<1> QED
  BY Steps, <1>1, <1>2, <1>3, <1>4, <1>5, <1>6, <1>7, <1>8, <1>9 DEF Locks

LEMMA ApplyStep ==
  ASSUME TypeOK, FillInv, HeldInv, OnePerSymbol, ApplyInv, [Next]_vars
  PROVE  ApplyInv'
<1>1. ASSUME NEW q \in Procs, AppendRecord(q) PROVE ApplyInv'
  <2>0. PICK e \in Nat : e = End
    BY <1>1, AppendIs
  <2>1. /\ pc[q] = "append" /\ e \notin DOMAIN bus
        /\ DOMAIN bus' = DOMAIN bus \cup {e}
        /\ \A m \in DOMAIN bus : bus'[m] = bus[m] /\ m < e /\ m \in Nat
        /\ bus'[e].symbol = fill[q].symbol /\ bus'[e].size = fill[q].size
        /\ fill'[q].place = e /\ fill'[q].symbol = fill[q].symbol
        /\ fill'[q].size = fill[q].size
        /\ unfolded' = unfolded \cup {e}
        /\ processed' = processed /\ setup' = setup
    BY <1>1, <2>0, AppendIs
  <2>2. /\ pc'[q] = "apply"
        /\ \A r \in Procs \ {q} : fill'[r] = fill[r] /\ pc'[r] = pc[r]
    BY <1>1, AppendIs DEF TypeOK
  <2>3. processed \subseteq DOMAIN bus
    BY DEF TypeOK
  <2> SUFFICES ASSUME NEW r \in Procs, pc'[r] = "apply"
      PROVE  /\ fill'[r].place \in DOMAIN bus' /\ fill'[r].place \notin processed'
             /\ bus'[fill'[r].place].symbol = fill'[r].symbol
             /\ bus'[fill'[r].place].size = fill'[r].size
             /\ \A p \in Procs : pc'[p] = "apply" /\ fill'[p].place = fill'[r].place => p = r
             /\ ~setup'.lockFaults => \A m \in DOMAIN bus' :
                                       bus'[m].symbol = fill'[r].symbol => m <= fill'[r].place
             /\ Summing' => fill'[r].place \in unfolded'
    BY DEF ApplyInv, Of
  <2>4. \A p \in Procs \ {q} : pc'[p] = "apply" =>
          /\ fill[p].place \in DOMAIN bus /\ fill[p].place \notin processed
          /\ bus[fill[p].place].symbol = fill[p].symbol
          /\ bus[fill[p].place].size = fill[p].size
          /\ \A x \in Procs : pc[x] = "apply" /\ fill[x].place = fill[p].place => x = p
          /\ ~setup.lockFaults => \A m \in DOMAIN bus :
                                       bus[m].symbol = fill[p].symbol => m <= fill[p].place
          /\ Summing => fill[p].place \in unfolded
    BY <2>2 DEF ApplyInv, Of
  <2>5. Summing' = Summing
    BY <2>1 DEF Summing
  <2>6. CASE r = q
    BY ONLY <2>1, <2>2, <2>3, <2>4, <2>5, <2>6
  <2>7. CASE r # q
    <3>1. ~setup.lockFaults => fill[r].symbol # fill[q].symbol
      BY <2>1, <2>2, <2>7 DEF OnePerSymbol, Inside
    <3> QED
      BY ONLY <2>1, <2>2, <2>4, <2>5, <2>7, <3>1, pc'[r] = "apply"
  <2> QED
    BY <2>6, <2>7
<1>2. ASSUME NEW q \in Procs, ApplyExecution(q) PROVE ApplyInv'
  <2>1. /\ pc[q] = "apply" /\ bus' = bus /\ setup' = setup
        /\ processed' = processed \cup {fill[q].place} /\ unfolded' = unfolded \ {fill[q].place}
        /\ \A r \in Procs : pc'[r] = "apply" => r # q /\ pc[r] = "apply" /\ fill'[r] = fill[r]
    BY <1>2, ApplyIs DEF Leave, TypeOK
  <2>2. \A r \in Procs : pc'[r] = "apply" => fill[r].place # fill[q].place
    BY <2>1 DEF ApplyInv
  <2> QED
    BY <2>1, <2>2 DEF ApplyInv, Of, Summing
<1>3. ASSUME /\ bus' = bus /\ processed' = processed /\ setup' = setup
             /\ \A q \in Procs : pc'[q] = "apply" =>
                  /\ pc[q] = "apply" /\ fill'[q] = fill[q]
                  /\ Summing /\ fill[q].place \in unfolded => fill[q].place \in unfolded'
      PROVE  ApplyInv'
  BY <1>3 DEF ApplyInv, Of, Summing
<1>4. ASSUME NEW q \in Procs, NEW s \in Symbols, NEW w \in Sizes, Execute(q, s, w)
      PROVE  ApplyInv'
  BY <1>3, <1>4 DEF Execute, TypeOK, Step, book
<1>5. ASSUME NEW q \in Procs, NEW lock \in Locks, AcquireLock(q, lock) \/ LockFailsOpen(q, lock)
      PROVE  ApplyInv'
  BY <1>3, <1>5 DEF AcquireLock, LockFailsOpen, Following, TypeOK, Step, Locks, book
<1>6. ASSUME NEW q \in Procs, Leave(q), UNCHANGED <<bus, setup, book>> PROVE ApplyInv'
  BY <1>3, <1>6 DEF Leave, TypeOK, book
<1>7. ASSUME NEW q \in Procs, CapRead(q) PROVE ApplyInv'
  <2>1. CASE pc' = [pc EXCEPT ![q] = "append"] /\ fill' = [fill EXCEPT ![q] = fill'[q]]
    <3>1. \A r \in Procs : pc'[r] = "apply" => pc[r] = "apply" /\ fill'[r] = fill[r]
      BY <2>1 DEF TypeOK
    <3> QED
      BY <1>3, <1>7, <3>1, CapIs DEF book
  <2> QED
    BY <1>6, <1>7, <2>1, CapIs
<1>8. CASE UNCHANGED <<local, bus, setup>> /\ UNCHANGED book
  BY <1>3, <1>8 DEF book, local
<1>9. CASE UNCHANGED <<local, bus, setup>> /\ Reconstruct
  <2>1. \A q \in Procs : Summing => pc[q] # "apply"
    BY <1>9 DEF Reconstruct, Summing, TypeOK, Setup
  <2> QED
    BY <1>3, <1>9, <2>1 DEF Reconstruct, local
<1> QED
  BY Steps, <1>1, <1>2, <1>4, <1>5, <1>6, <1>7, <1>8, <1>9

LEMMA LatestStep ==
  ASSUME TypeOK, TypeOK', FillInv, LatestInv, [Next]_vars
  PROVE  LatestInv'
<1>1. ASSUME NEW q \in Procs, AppendRecord(q) PROVE LatestInv'
  <2> SUFFICES ASSUME NEW s \in Symbols, Of(s, DOMAIN bus)' # {}
      PROVE  \E n \in DOMAIN bus' : IsLatest(n, Of(s, DOMAIN bus))'
    BY DEF LatestInv
  <2>0. PICK e \in Nat : e = End
    BY <1>1, AppendIs
  <2>1. /\ DOMAIN bus' = DOMAIN bus \cup {e} /\ e \in Nat
        /\ \A m \in DOMAIN bus : bus'[m] = bus[m] /\ m < e /\ m \in Nat
    BY <1>1, <2>0, AppendIs
  <2>2. \A m \in DOMAIN bus' : bus'[m].asof \in Nat
    <3>1. bus' \in Seq(Record)
      BY DEF TypeOK
    <3>2. \A m \in DOMAIN bus' : bus'[m] \in Record
      BY <3>1
    <3> QED
      BY <3>2 DEF Record
  <2>3. Of(s, DOMAIN bus)' = {m \in DOMAIN bus : bus[m].symbol = s}
                              \cup {m \in {e} : bus'[m].symbol = s}
    BY <2>1 DEF Of
  <2>4. CASE bus'[e].symbol # s
    <3>1. Of(s, DOMAIN bus)' = Of(s, DOMAIN bus)
      BY <2>3, <2>4 DEF Of
    <3>2. PICK n \in DOMAIN bus : IsLatest(n, Of(s, DOMAIN bus))
      BY <3>1 DEF LatestInv
    <3>3. IsLatest(n, Of(s, DOMAIN bus))'
      BY <2>1, <3>1, <3>2 DEF IsLatest, Before, Of
    <3> QED
      BY <2>1, <3>3
  <2>5. CASE bus'[e].symbol = s /\ Of(s, DOMAIN bus) = {}
    <3>1. Of(s, DOMAIN bus)' = {e}
      BY <2>3, <2>5 DEF Of
    <3>2. Before(e, e)'
      BY ONLY <2>1, <2>2 DEF Before
    <3> QED
      BY <2>1, <3>1, <3>2 DEF IsLatest
  <2>6. CASE bus'[e].symbol = s /\ Of(s, DOMAIN bus) # {}
    <3>1. Of(s, DOMAIN bus)' = Of(s, DOMAIN bus) \cup {e}
      BY <2>3, <2>6 DEF Of
    <3>2. PICK n \in DOMAIN bus : IsLatest(n, Of(s, DOMAIN bus))
      BY <2>6 DEF LatestInv
    <3>3. \A m \in Of(s, DOMAIN bus) : Before(m, n)' /\ m \in DOMAIN bus
      BY <2>1, <3>2 DEF IsLatest, Before, Of
    <3>4. CASE bus'[n].asof <= bus'[e].asof
      <4>1. \A m \in Of(s, DOMAIN bus) \cup {e} : Before(m, e)'
        BY ONLY <2>1, <2>2, <3>2, <3>3, <3>4 DEF Before
      <4> QED
        BY <2>1, <3>1, <4>1 DEF IsLatest, Before
    <3>5. CASE bus'[n].asof > bus'[e].asof
      <4>1. \A m \in Of(s, DOMAIN bus) \cup {e} : Before(m, n)'
        BY ONLY <2>1, <2>2, <3>2, <3>3, <3>5 DEF Before
      <4>2. n \in Of(s, DOMAIN bus)
        BY <3>2 DEF IsLatest
      <4> QED
        BY <2>1, <3>1, <4>1, <4>2 DEF IsLatest, Before
    <3>6. bus'[n].asof <= bus'[e].asof \/ bus'[n].asof > bus'[e].asof
      BY ONLY <2>1, <2>2, <3>2
    <3> QED
      BY ONLY <3>4, <3>5, <3>6
  <2> QED
    BY <2>4, <2>5, <2>6
<1>2. CASE bus' = bus
  BY <1>2 DEF LatestInv, IsLatest, Of, Before
<1>3. ASSUME NEW q \in Procs,
             \/ \E s \in Symbols, w \in Sizes : Execute(q, s, w)
             \/ \E lock \in Locks : AcquireLock(q, lock) \/ LockFailsOpen(q, lock)
             \/ CapRead(q) \/ ApplyExecution(q)
      PROVE  bus' = bus
  BY <1>3 DEF Execute, AcquireLock, LockFailsOpen, CapRead, ApplyExecution
<1> QED
  BY Steps, <1>1, <1>2, <1>3

LEMMA FoldedStep ==
  ASSUME TypeOK, FillInv, ApplyInv, LatestInv, FoldedInv, [Next]_vars
  PROVE  FoldedInv'
<1> SUFFICES ASSUME setup'.normalizer, ~setup'.lockFaults
    PROVE  \A s \in Symbols : InOrder(s)' => FoldedIs(s, positions[s])'
  BY DEF FoldedInv
<1>0. setup' = setup
  BY DEF Next, Locking, Crash, Execute, AcquireLock, LockFailsOpen, LockContended, CapRead,
         AppendRecord, ApplyExecution, Reconstruct, Tick, vars
<1>a. \A s \in Symbols : InOrder(s) => FoldedIs(s, positions[s])
  BY <1>0 DEF FoldedInv
<1> DEFINE Goal == \A s \in Symbols : InOrder(s)' => FoldedIs(s, positions[s])'
<1>1. ASSUME NEW q \in Procs, AppendRecord(q) PROVE Goal
  <2> SUFFICES ASSUME NEW s \in Symbols, InOrder(s)' PROVE FoldedIs(s, positions[s])'
    OBVIOUS
  <2>1. /\ End \notin DOMAIN bus /\ DOMAIN bus' = DOMAIN bus \cup {End}
        /\ \A m \in DOMAIN bus : bus'[m] = bus[m]
        /\ unfolded' = unfolded \cup {End} /\ positions' = positions
    BY <1>1, AppendIs
  <2>2. InOrder(s)
    BY <2>1 DEF InOrder, Of
  <2>3. DOMAIN bus' \ unfolded' = DOMAIN bus \ unfolded
    BY <2>1
  <2>4. Of(s, DOMAIN bus \ unfolded)' = Of(s, DOMAIN bus \ unfolded)
    BY <2>1, <2>3 DEF Of
  <2>5. CASE Of(s, DOMAIN bus \ unfolded) = {} /\ positions[s] = 0
    BY <2>1, <2>4, <2>5 DEF FoldedIs
  <2>6. ASSUME NEW n \in DOMAIN bus, IsLatest(n, Of(s, DOMAIN bus \ unfolded)),
               positions[s] = bus[n].size
        PROVE  FoldedIs(s, positions[s])'
    <3>1. IsLatest(n, Of(s, DOMAIN bus \ unfolded))'
      BY <2>1, <2>4, <2>6 DEF IsLatest, Before, Of
    <3> QED
      BY <2>1, <2>6, <3>1 DEF FoldedIs
  <2> QED
    BY <1>a, <2>2, <2>5, <2>6 DEF FoldedIs
<1>2. ASSUME NEW q \in Procs, ApplyExecution(q) PROVE Goal
  <2> SUFFICES ASSUME NEW s \in Symbols, InOrder(s)' PROVE FoldedIs(s, positions[s])'
    OBVIOUS
  <2>1. /\ pc[q] = "apply" /\ fill[q] \in Fill /\ fill[q].symbol \in Symbols
        /\ bus' = bus /\ setup' = setup /\ unfolded' = unfolded \ {fill[q].place}
    BY <1>2, ApplyIs DEF Fill
  <2>2. PICK n \in DOMAIN bus :
          /\ n = fill[q].place /\ n \notin processed
          /\ bus[n].symbol = fill[q].symbol /\ bus[n].size = fill[q].size
          /\ \A m \in Of(fill[q].symbol, DOMAIN bus) : m <= n
    BY <1>0, <2>1 DEF ApplyInv
  <2>3. positions' = [positions EXCEPT ![fill[q].symbol] = positions[fill[q].symbol] + Delta(q)]
    BY <1>2, ApplyIs
  <2>4. InOrder(s)
    BY <2>1 DEF InOrder, Of
  <2>5. CASE fill[q].symbol = s
    <3>1. positions'[s] = bus[n].size
      <4>1. positions[s] \in Int /\ bus[n].size \in Int
        BY BusTypes DEF TypeOK
      <4>2. Delta(q) = bus[n].size - positions[s]
        BY <1>0, <2>2, <2>5 DEF Delta
      <4>3. positions'[s] = positions[s] + Delta(q)
        BY <2>3, <2>5 DEF TypeOK
      <4> QED
        BY ONLY <4>1, <4>2, <4>3
    <3>2. \A m \in Of(s, DOMAIN bus) : Before(m, n)
      <4>1. n \in Of(s, DOMAIN bus)
        BY <2>2, <2>5 DEF Of
      <4>2. \A m \in Of(s, DOMAIN bus) : m <= n /\ bus[m].asof <= bus[n].asof
        BY <2>2, <2>4, <2>5, <4>1 DEF InOrder
      <4>3. \A m \in Of(s, DOMAIN bus) : bus[m].asof \in Nat
        BY BusTypes DEF Of
      <4>4. bus[n].asof \in Nat
        BY BusTypes
      <4> QED
        BY ONLY <4>2, <4>3, <4>4 DEF Before
    <3>3. IsLatest(n, Of(s, DOMAIN bus \ unfolded))'
      BY <2>1, <2>2, <2>5, <3>2 DEF IsLatest, Before, Of
    <3> QED
      BY <2>1, <3>1, <3>3 DEF FoldedIs
  <2>6. CASE fill[q].symbol # s
    <3>1. positions'[s] = positions[s]
      BY <2>3, <2>6 DEF TypeOK
    <3>2. Of(s, DOMAIN bus \ unfolded)' = Of(s, DOMAIN bus \ unfolded)
      BY <2>1, <2>2, <2>6 DEF Of
    <3> QED
      BY <1>a, <2>1, <2>4, <3>1, <3>2 DEF FoldedIs, IsLatest, Before
  <2> QED
    BY <2>5, <2>6
<1>3. CASE Reconstruct
  <2> SUFFICES ASSUME NEW s \in Symbols PROVE FoldedIs(s, positions[s])'
    OBVIOUS
  <2>1. bus' = bus /\ unfolded' = {} /\ positions'[s] = Fold(s, DOMAIN bus)
    BY <1>3 DEF Reconstruct
  <2>2. Of(s, DOMAIN bus \ unfolded)' = Of(s, DOMAIN bus)
    BY <2>1 DEF Of
  <2>3. CASE Of(s, DOMAIN bus) = {}
    BY <1>0, <2>1, <2>2, <2>3, FoldIs DEF FoldedIs
  <2>4. ASSUME NEW n \in DOMAIN bus, IsLatest(n, Of(s, DOMAIN bus))
        PROVE  FoldedIs(s, positions[s])'
    <3>1. positions'[s] = bus'[n].size
      BY <1>0, <2>1, <2>4, FoldIs
    <3>2. IsLatest(n, Of(s, DOMAIN bus \ unfolded))'
      BY <2>1, <2>2, <2>4 DEF IsLatest, Before
    <3> QED
      BY <2>1, <3>1, <3>2 DEF FoldedIs
  <2> QED
    BY <2>3, <2>4 DEF LatestInv
<1>4. CASE UNCHANGED <<bus, book>>
  BY <1>a, <1>4 DEF book, FoldedIs, InOrder, IsLatest, Of, Before
<1>5. ASSUME NEW q \in Procs,
             \/ \E s \in Symbols, w \in Sizes : Execute(q, s, w)
             \/ \E lock \in Locks : AcquireLock(q, lock) \/ LockFailsOpen(q, lock)
             \/ CapRead(q)
      PROVE  UNCHANGED <<bus, book>>
  BY <1>5 DEF Execute, AcquireLock, LockFailsOpen, CapRead
<1> QED
  BY Steps, <1>1, <1>2, <1>3, <1>4, <1>5

\* The sum is kept: an append and its record are left out of it together, an
\* apply adds one record to both, and a rebuild starts from all.
LEMMA SummedStep ==
  ASSUME TypeOK, FillInv, ApplyInv, SummedInv, [Next]_vars
  PROVE  SummedInv'
<1> SUFFICES ASSUME Summing' PROVE \A s \in Symbols : positions'[s] = Sum(s, DOMAIN bus \ unfolded)'
  BY DEF SummedInv
<1>1. setup' = setup /\ Summing
  <2>1. setup' = setup
    BY DEF Next, Locking, Crash, Execute, AcquireLock, LockFailsOpen, LockContended, CapRead,
           AppendRecord, ApplyExecution, Reconstruct, Tick, vars
  <2> QED
    BY <2>1 DEF Summing
<1>2. \A s \in Symbols : positions[s] = Sum(s, DOMAIN bus \ unfolded)
  BY <1>1 DEF SummedInv
<1> DEFINE Kept == \A s \in Symbols : positions'[s] = Sum(s, DOMAIN bus \ unfolded)'
<1>3. ASSUME NEW q \in Procs, AppendRecord(q) PROVE Kept
  <2>1. /\ End \notin DOMAIN bus /\ DOMAIN bus' = DOMAIN bus \cup {End}
        /\ \A m \in DOMAIN bus : bus'[m] = bus[m]
        /\ unfolded' = unfolded \cup {End} /\ positions' = positions
    BY <1>3, AppendIs
  <2> DEFINE P == DOMAIN bus \ unfolded
  <2>2. (DOMAIN bus \ unfolded)' = P /\ P \in SUBSET DOMAIN bus
    BY <2>1
  <2> SUFFICES ASSUME NEW s \in Symbols PROVE positions'[s] = Sum(s, DOMAIN bus \ unfolded)'
    OBVIOUS
  <2>3. DOMAIN bus \subseteq DOMAIN bus'
    BY <2>1
  <2>4. Sum(s, DOMAIN bus \ unfolded)' = SumFunctionOnSet([n \in DOMAIN bus' |-> bus'[n].size],
                                                         {n \in P : bus'[n].symbol = s})
    BY <2>2 DEF Sum, Of
  <2>5. SumFunctionOnSet([n \in DOMAIN bus' |-> bus'[n].size], {n \in P : bus'[n].symbol = s})
        = Sum(s, P)
    <3>1. P \in SUBSET DOMAIN bus
      BY <2>2
    <3> HIDE DEF P
    <3> QED
      BY <2>1, <2>3, <3>1, SumGrows
  <2> QED
    BY <1>2, <2>1, <2>4, <2>5
<1>4. ASSUME NEW q \in Procs, ApplyExecution(q) PROVE Kept
  <2>1. /\ pc[q] = "apply" /\ fill[q] \in Fill /\ Delta(q) = fill[q].size
        /\ positions' = [positions EXCEPT ![fill[q].symbol] = positions[fill[q].symbol] + Delta(q)]
        /\ unfolded' = unfolded \ {fill[q].place} /\ bus' = bus
    BY <1>1, <1>4, ApplyIs DEF Delta, Summing
  <2>2. PICK n \in DOMAIN bus : /\ n = fill[q].place /\ n \in unfolded
                                /\ bus[n].symbol = fill[q].symbol /\ bus[n].size = fill[q].size
    BY <1>1, <2>1 DEF ApplyInv
  <2> DEFINE P == DOMAIN bus \ unfolded
  <2>3. DOMAIN bus' \ unfolded' = P \cup {n} /\ (P \cup {n}) \ {n} = P
    BY <2>1, <2>2
  <2> SUFFICES ASSUME NEW s \in Symbols PROVE positions'[s] = Sum(s, DOMAIN bus \ unfolded)'
    OBVIOUS
  <2>4. Sum(s, DOMAIN bus \ unfolded)' = Sum(s, P \cup {n})
    BY <2>1, <2>3 DEF Sum, Of
  <2>5. Sum(s, P \cup {n})
        = Sum(s, (P \cup {n}) \ {n}) + IF bus[n].symbol = s THEN bus[n].size ELSE 0
    <3>1. P \cup {n} \in SUBSET DOMAIN bus /\ n \in P \cup {n}
      BY <2>2
    <3> HIDE DEF P
    <3> QED
      BY <3>1, SumOf
  <2>6. Sum(s, (P \cup {n}) \ {n}) = positions[s] /\ positions[s] \in Int /\ bus[n].size \in Int
    BY <1>2, <2>3, BusTypes DEF TypeOK
  <2>7. positions'[s] = IF fill[q].symbol = s THEN positions[s] + fill[q].size ELSE positions[s]
    BY <2>1 DEF TypeOK, Fill
  <2> QED
    BY ONLY <2>2, <2>4, <2>5, <2>6, <2>7
<1>5. CASE Reconstruct
  BY <1>1, <1>5 DEF Reconstruct, Fold, Sum, Of, Summing
<1>6. CASE UNCHANGED <<bus, book>>
  BY <1>2, <1>6 DEF book, Sum, Of
<1>7. ASSUME NEW q \in Procs,
             \/ \E s \in Symbols, w \in Sizes : Execute(q, s, w)
             \/ \E lock \in Locks : AcquireLock(q, lock) \/ LockFailsOpen(q, lock)
             \/ CapRead(q)
      PROVE  UNCHANGED <<bus, book>>
  BY <1>7 DEF Execute, AcquireLock, LockFailsOpen, CapRead
<1> QED
  BY Steps, <1>3, <1>4, <1>5, <1>6, <1>7

\* What was read under the account lock is still so when it is spent.
LEMMA CapStep ==
  ASSUME TypeOK, FillInv, OnePerAccount, ApplyInv, CapInv, [Next]_vars
  PROVE  CapInv'
<1> SUFFICES ASSUME CapGuarded'
    PROVE  /\ Gross(positions') <= GrossCap
           /\ \A q \in Procs : pc'[q] \in {"append", "apply"} => Fits(fill[q])'
  BY DEF CapInv, Gross
<1> DEFINE Goal == /\ Gross(positions') <= GrossCap
                   /\ \A q \in Procs : pc'[q] \in {"append", "apply"} => Fits(fill[q])'
<1>1. setup' = setup
  BY DEF Next, Locking, Crash, Execute, AcquireLock, LockFailsOpen, LockContended, CapRead,
         AppendRecord, ApplyExecution, Reconstruct, Tick, vars
<1>2. /\ setup.caps /\ setup.normalizer /\ setup.accountLock /\ ~setup.lockFaults
      /\ setup.rebuild = "never"
  BY <1>1 DEF CapGuarded
<1>3. /\ Gross(positions) <= GrossCap
      /\ \A q \in Procs : pc[q] \in {"append", "apply"} => Fits(fill[q])
  BY <1>2 DEF CapInv, CapGuarded
<1>4. ASSUME /\ positions' = positions
             /\ \A q \in Procs : pc'[q] \in {"append", "apply"} =>
                  /\ pc[q] \in {"append", "apply"}
                  /\ fill'[q].size = fill[q].size /\ fill'[q].symbol = fill[q].symbol
      PROVE  Goal
  BY <1>3, <1>4 DEF Fits, Gross
<1>5. ASSUME NEW q \in Procs, ApplyExecution(q) PROVE Goal
  <2>1. /\ pc[q] = "apply" /\ fill[q] \in Fill
        /\ Delta(q) = fill[q].size - positions[fill[q].symbol]
        /\ positions' = [positions EXCEPT ![fill[q].symbol] = positions[fill[q].symbol] + Delta(q)]
        /\ \A r \in Procs : pc'[r] \in {"append", "apply"} => r # q /\ pc[r] \in {"append", "apply"}
    BY <1>2, <1>5, ApplyIs DEF Delta, Leave, TypeOK
  <2>2. \A r \in Procs : pc'[r] \notin {"append", "apply"}
    BY <1>2, <2>1 DEF OnePerAccount, Fire, Inside
  <2>3. PICK s \in Symbols, v \in Int, o \in Int :
          /\ s = fill[q].symbol /\ v = fill[q].size /\ o = positions[s]
    BY <2>1 DEF Fill, TypeOK
  <2>4. positions' = [positions EXCEPT ![s] = v]
    <3>1. o + (v - o) = v
      OBVIOUS
    <3> QED
      BY <2>1, <2>3, <3>1
  <2>5. Gross(positions') = Gross(positions) - Abs(o) + Abs(v)
    <3>1. positions \in [Symbols -> Int]
      BY DEF TypeOK
    <3>2. Gross([positions EXCEPT ![s] = v]) = Gross(positions) - Abs(positions[s]) + Abs(v)
      BY <3>1, GrossChange
    <3> QED
      BY <2>3, <2>4, <3>2
  <2>6. Gross(positions) \in Int /\ Abs(o) \in Nat /\ Abs(v) \in Nat
    BY GrossType DEF TypeOK, Abs
  <2>7. Abs(v) <= Abs(o) \/ Abs(v) <= GrossCap - Gross(positions)
    BY <1>3, <2>1, <2>3 DEF Fits
  <2>8. Gross(positions') <= GrossCap
    BY ONLY LedgerAssumption, <1>3, <2>5, <2>6, <2>7 DEF LedgerAssumption
  <2> QED
    BY <2>2, <2>8
<1>6. ASSUME NEW q \in Procs, CapRead(q) PROVE Goal
  <2>1. CASE Leave(q)
    BY <1>4, <1>6, <2>1, CapIs DEF Leave, TypeOK, book
  <2>2. CASE /\ pc' = [pc EXCEPT ![q] = "append"] /\ Fits(fill'[q])
             /\ fill' = [fill EXCEPT ![q] = fill'[q]]
    <3>1. positions' = positions
      BY <1>6, CapIs DEF book
    <3>2. \A r \in Procs \ {q} : pc'[r] = pc[r] /\ fill'[r] = fill[r]
      BY <2>2 DEF TypeOK
    <3>3. \A r \in Procs : pc'[r] \in {"append", "apply"} => Fits(fill'[r])
      BY <1>3, <2>2, <3>2
    <3> QED
      BY <1>3, <3>1, <3>3 DEF Fits, Gross
  <2> QED
    BY <1>2, <1>6, <2>1, <2>2, CapIs
<1>7. ASSUME NEW q \in Procs, AppendRecord(q) PROVE Goal
  <2>1. /\ pc[q] = "append" /\ pc' = [pc EXCEPT ![q] = "apply"] /\ positions' = positions
        /\ fill' = [fill EXCEPT ![q] = fill'[q]]
        /\ fill'[q].symbol = fill[q].symbol /\ fill'[q].size = fill[q].size
    BY <1>7, AppendIs
  <2> QED
    BY <1>4, <2>1 DEF TypeOK
<1>8. ASSUME NEW q \in Procs, NEW s \in Symbols, NEW w \in Sizes, Execute(q, s, w) PROVE Goal
  BY <1>2, <1>4, <1>8 DEF Execute, Step, TypeOK, book
<1>9. ASSUME NEW q \in Procs, NEW lock \in Locks, AcquireLock(q, lock) \/ LockFailsOpen(q, lock)
      PROVE  Goal
  BY <1>4, <1>9 DEF AcquireLock, LockFailsOpen, Following, Locks, Step, TypeOK, book
<1>10. ASSUME NEW q \in Procs, Leave(q), UNCHANGED book PROVE Goal
  BY <1>4, <1>10 DEF Leave, TypeOK, book
<1>11. CASE UNCHANGED local /\ UNCHANGED book
  BY <1>4, <1>11 DEF local, book
<1>12. ~Reconstruct
  BY <1>2 DEF Reconstruct
<1> QED
  BY Steps, <1>5, <1>6, <1>7, <1>8, <1>9, <1>10, <1>11, <1>12

-----------------------------------------------------------------------------
(***************************************************************************)
(* The theorems.                                                           *)
(***************************************************************************)
LEMMA InitHolds == Init => IInv
<1> SUFFICES ASSUME Init PROVE IInv
  OBVIOUS
<1>1. TypeOK
  BY DEF Init, TypeOK
<1>2. FillInv /\ HeldInv /\ OnePerSymbol /\ OnePerAccount /\ ApplyInv
  BY DEF Init, FillInv, HeldInv, OnePerSymbol, OnePerAccount, ApplyInv, Inside, Fire
<1>3. DOMAIN bus = {}
  BY DEF Init
<1>4. LatestInv /\ FoldedInv
  BY <1>3 DEF Init, LatestInv, FoldedInv, FoldedIs, Of
<1>5. SummedInv
  <2> SUFFICES ASSUME NEW s \in Symbols PROVE positions[s] = Sum(s, DOMAIN bus \ unfolded)
    BY DEF SummedInv
  <2>1. Of(s, DOMAIN bus \ unfolded) = {}
    BY <1>3 DEF Of
  <2>2. Sum(s, DOMAIN bus \ unfolded) = 0
    BY <2>1, SumEmpty DEF Sum
  <2> QED
    BY <2>2 DEF Init
<1>6. CapInv
  <2> DEFINE f == [s \in Symbols |-> Abs(positions[s])]
  <2>1. \A s \in Symbols : f[s] = 0
    BY DEF Init, Abs
  <2>2. Gross(positions) = SumFunctionOnSet(f, Symbols)
    BY DEF Gross, SumFunction
  <2> HIDE DEF f
  <2>3. Gross(positions) = 0
    BY <2>1, <2>2, SumOfZeros
  <2> QED
    BY <2>3 DEF Init, CapInv
<1> QED
  BY <1>1, <1>2, <1>4, <1>5, <1>6 DEF IInv

\* The strengthened invariant holds in every reachable state.
THEOREM Inductive == Spec => []IInv
<1>1. IInv /\ [Next]_vars => IInv'
  <2> SUFFICES ASSUME IInv, [Next]_vars PROVE IInv'
    OBVIOUS
  <2>1. TypeOK'
    BY TypeStep DEF IInv
  <2>2. FillInv' /\ HeldInv' /\ OnePerSymbol' /\ OnePerAccount'
    BY ControlStep DEF IInv
  <2>3. ApplyInv'
    BY ApplyStep DEF IInv
  <2>4. LatestInv'
    BY <2>1, LatestStep DEF IInv
  <2>5. FoldedInv' /\ SummedInv' /\ CapInv'
    BY FoldedStep, SummedStep, CapStep DEF IInv
  <2> QED
    BY <2>1, <2>2, <2>3, <2>4, <2>5 DEF IInv
<1> QED
  BY InitHolds, <1>1, PTL DEF Spec

\* Every variable keeps its type, in every deployment.
THEOREM TypeCorrect == Spec => []TypeOK
<1>1. IInv => TypeOK
  BY DEF IInv
<1> QED
  BY <1>1, Inductive, PTL

\* Where the lock files work, two processes are never between the symbol lock
\* and the end of a fire on the same symbol, nor, with the account lock on,
\* on any two symbols.
THEOREM LocksExclude == Spec => [](OnePerSymbol /\ OnePerAccount)
<1>1. IInv => OnePerSymbol /\ OnePerAccount
  BY DEF IInv
<1> QED
  BY <1>1, Inductive, PTL

\* The deployments in which the book can be trusted: sizes are summed and no
\* rebuild runs beside a fire, or they are targets and the lock files work.
Reliable ==
  \A d \in Setups : IF d.normalizer THEN ~d.lockFaults ELSE d.rebuild # "online"

\* In them the book agrees with the bus: what apply_execution and
\* reconstruct_from have left is the fold of the records they have seen; with
\* targets, for every symbol whose records are in the order of their stamps.
THEOREM BookParity == ASSUME Reliable PROVE Spec => []Parity
<1>1. IInv => Parity
  <2> SUFFICES ASSUME IInv, NEW s \in Symbols, setup.normalizer => InOrder(s)
      PROVE  positions[s] = Fold(s, DOMAIN bus \ unfolded)
    BY DEF Parity
  <2>1. setup \in Setups
    BY DEF IInv, TypeOK
  <2>2. CASE ~setup.normalizer
    BY <2>1, <2>2 DEF IInv, SummedInv, Summing, Reliable, Fold, Sum
  <2>3. CASE setup.normalizer
    <3>1. FoldedIs(s, positions[s])
      BY <2>1, <2>3 DEF IInv, FoldedInv, Reliable
    <3>2. TypeOK /\ (DOMAIN bus \ unfolded) \in SUBSET DOMAIN bus
      BY DEF IInv
    <3> QED
      BY <2>3, <3>1, <3>2, FoldIs DEF FoldedIs
  <2> QED
    BY <2>2, <2>3
<1> QED
  BY <1>1, Inductive, PTL

\* The deployments that use the cap do so on targets, with both locks, and
\* without a rebuild.
CapsGuarded ==
  \A d \in Setups : d.caps =>
    d.normalizer /\ d.accountLock /\ ~d.lockFaults /\ d.rebuild = "never"

\* In them the gross of the book stays within the cap.
THEOREM CapHolds == ASSUME CapsGuarded PROVE Spec => []GrossWithinCap
<1>1. IInv => GrossWithinCap
  BY DEF IInv, TypeOK, CapInv, CapGuarded, CapsGuarded, GrossWithinCap
<1> QED
  BY <1>1, Inductive, PTL
=============================================================================
