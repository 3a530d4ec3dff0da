--------------------------- MODULE AutoTickProofs ---------------------------
(***************************************************************************)
(* Proofs about AutoTick, for any symbols, ticks, rails and deployments.   *)
(***************************************************************************)
EXTENDS AutoTick, FiniteSetTheorems, TLAPS

-----------------------------------------------------------------------------
(* The inductive invariant.                                                *)

\* The entries of the watchlist that a tick has passed.
Passed(t) == {setup.watch[i] : i \in {j \in DOMAIN setup.watch : j < tick[t].next}}

\* What a tick with the lock knows of a book that only it writes to: its count
\* is of the base, it adds a symbol only while the rails leave room, and what it
\* has added are at most as many symbols as it has fired.
Room(t) ==
  LET k == tick[t]
  IN  /\ rail = t
      /\ k.start \subseteq k.base \cup Passed(t)
      /\ k.failed \/ (k.base \subseteq k.start /\ k.counted = Cardinality(k.base))
      /\ \/ open \subseteq k.base
         \/ ~k.failed /\ Cardinality(open \cup k.base) <= MaxConcurrent
      /\ Cardinality(open \ k.base) <= k.fires

Counted(t) == tick[t].at \in {"sweep", "loop"}

RoomInv    == \A t \in Ticks : Counted(t) /\ tick[t].calm => Room(t)
StoppedInv == \A t \in Ticks : tick[t].stopped = {}

IInv == TypeOK /\ StoppedInv /\ RoomInv

-----------------------------------------------------------------------------
(* Finite sets of symbols.                                                 *)

LEMMA Symbolic ==
  \A S \in SUBSET Symbols : /\ IsFiniteSet(S) /\ Cardinality(S) \in Nat
                            /\ Cardinality(S) <= Cardinality(Symbols)
                            /\ \A T \in SUBSET S : Cardinality(T) <= Cardinality(S)
<1> TAKE S \in SUBSET Symbols
<1>1. IsFiniteSet(S) /\ Cardinality(S) <= Cardinality(Symbols)
  BY AutoTickAssumption, FS_Subset
<1> QED
  BY <1>1, FS_CardinalityType, FS_Subset

LEMMA SymbolsFinite == Cardinality(Symbols) \in Nat /\ IsFiniteSet({}) /\ Cardinality({}) = 0
BY AutoTickAssumption, FS_CardinalityType, FS_EmptySet

LEMMA SetupIs ==
  ASSUME TypeOK
  PROVE  /\ setup.watch \in Seq(Symbols) /\ NoRepeats(setup.watch)
         /\ setup.held \subseteq Symbols /\ setup.others \subseteq Symbols
BY AutoTickAssumption DEF TypeOK

-----------------------------------------------------------------------------
(* What each action does to the ticks.                                     *)

\* Tick t becomes k; the others stay, or learn that the book was written to.
Becomes(t, k) ==
  /\ tick' \in [Ticks -> Tick] /\ tick'[t] = k
  /\ \A u \in Ticks \ {t} :
       \/ tick'[u] = tick[u]
       \/ ~tick'[u].calm /\ tick'[u].stopped = tick[u].stopped

LEMMA BecomesIs ==
  ASSUME TypeOK, NEW t \in Ticks, NEW k \in Tick, tick' = [tick EXCEPT ![t] = k]
  PROVE  Becomes(t, k) /\ \A u \in Ticks \ {t} : tick'[u] = tick[u]
BY DEF Becomes, TypeOK

LEMMA UpsetIs ==
  \A k \in Tick : /\ Upset(k) \in Tick /\ ~Upset(k).calm
                  /\ Upset(k).stopped = k.stopped /\ Upset(k).at = k.at
BY DEF Upset, Tick

LEMMA IdleIs == /\ Idle \in Tick /\ Idle.at = "idle" /\ Idle.stopped = {}
                /\ Idle.fires = 0 /\ Idle.next = 1
BY SymbolsFinite, AutoTickAssumption DEF Idle, Tick, Steps

LEMMA GoesIs ==
  ASSUME TypeOK, NEW t \in Ticks, NEW l \in Steps, Goes(t, l)
  PROVE  \E k \in Tick : /\ k.at = l /\ k.stopped = tick[t].stopped
                         /\ tick' = [tick EXCEPT ![t] = k]
<1> DEFINE k == [tick[t] EXCEPT !.at = l]
<1>1. k \in Tick /\ k.at = l /\ k.stopped = tick[t].stopped
  BY DEF Tick, TypeOK
<1>2. tick' = [tick EXCEPT ![t] = k]
  BY DEF Goes
<1> HIDE DEF k
<1> QED
  BY <1>1, <1>2

\* The locals of a tick.
LEMMA Locals ==
  ASSUME TypeOK, StoppedInv, NEW t \in Ticks
  PROVE  tick[t] \in Tick /\ tick[t].stopped = {}
BY DEF TypeOK, StoppedInv

LEMMA CountIs ==
  ASSUME TypeOK, NEW t \in Ticks, NEW failed \in BOOLEAN, Count(t, failed)
  PROVE  \E k \in Tick :
           /\ tick' = [tick EXCEPT ![t] = k]
           /\ k.at = "sweep" /\ k.stopped = {} /\ k.fires = 0 /\ k.next = 1
           /\ k.calm = Guarded(t) /\ k.failed = failed
           /\ k.start \in IF failed THEN {{}, open} ELSE {open}
           /\ k.counted = Cardinality(k.start)
           /\ k.base = IF Guarded(t) THEN open ELSE {}
<1>1. PICK got \in (IF failed THEN {{}, open} ELSE {open}) :
        tick' = [tick EXCEPT ![t] =
          [Idle EXCEPT !.at = "sweep", !.start = got,
             !.counted = Cardinality(got), !.failed = failed,
             !.calm = Guarded(t), !.base = IF Guarded(t) THEN open ELSE {},
             !.sweep = IF setup.stop /\ ~failed THEN open ELSE {}]]
  BY DEF Count
<1>2. got \subseteq Symbols /\ Cardinality(got) \in 0..Cardinality(Symbols)
  BY Symbolic, SymbolsFinite DEF TypeOK
<1> DEFINE b == IF Guarded(t) THEN open ELSE {}
           w == IF setup.stop /\ ~failed THEN open ELSE {}
           g == Guarded(t)
           n == Cardinality(got)
           k == [Idle EXCEPT !.at = "sweep", !.start = got,
                   !.counted = n, !.failed = failed,
                   !.calm = g, !.base = b, !.sweep = w]
<1>3. b \subseteq Symbols /\ w \subseteq Symbols /\ g \in BOOLEAN
      /\ n \in 0..Cardinality(Symbols)
  BY <1>2 DEF TypeOK, Guarded
<1>4. tick' = [tick EXCEPT ![t] = k]
  BY <1>1
<1> HIDE DEF b, w, g, n
<1>5. /\ k \in Tick /\ k.at = "sweep" /\ k.stopped = {} /\ k.fires = 0 /\ k.next = 1
      /\ k.calm = g /\ k.failed = failed /\ k.start = got
      /\ k.counted = n /\ k.base = b
  <2>1. failed \in BOOLEAN /\ "sweep" \in Steps
    BY DEF Steps
  <2>2. k \in Tick
    <3>1. PICK j \in Tick : j = Idle
      BY IdleIs
    <3>2. [j EXCEPT !.at = "sweep", !.start = got, !.counted = n, !.failed = failed,
                    !.calm = g, !.base = b, !.sweep = w] \in Tick
      BY ONLY <1>2, <1>3, <2>1, <3>1 DEF Tick
    <3> QED
      BY ONLY <3>1, <3>2
  <2>3. k.at = "sweep" /\ k.stopped = {} /\ k.fires = 0 /\ k.next = 1
    BY ONLY IdleIs DEF Tick
  <2>4. k.calm = g /\ k.failed = failed /\ k.start = got /\ k.counted = n /\ k.base = b
    BY ONLY IdleIs DEF Tick
  <2> HIDE DEF k
  <2> QED
    BY ONLY <2>2, <2>3, <2>4
<1> HIDE DEF k
<1> QED
  BY <1>1, <1>4, <1>5 DEF b, g, n

\* What a step within the locked region leaves as it is.
Keeps(k, j) == /\ k.counted = j.counted /\ k.failed = j.failed /\ k.stopped = {}
               /\ k.base = j.base /\ k.calm = j.calm

LEMMA HoldIs ==
  ASSUME TypeOK, StoppedInv, NEW t \in Ticks, NEW s \in Symbols, Hold(t, s)
  PROVE  \E k \in Tick : /\ tick' = [tick EXCEPT ![t] = k] /\ Keeps(k, tick[t])
                         /\ k.at = "sweep" /\ k.start = tick[t].start
                         /\ k.fires = tick[t].fires /\ k.next = tick[t].next
<1> DEFINE k == [tick[t] EXCEPT !.sweep = tick[t].sweep \ {s}]
<1>1. /\ k \in Tick /\ Keeps(k, tick[t]) /\ k.at = tick[t].at /\ k.start = tick[t].start
      /\ k.fires = tick[t].fires /\ k.next = tick[t].next
  BY DEF Tick, TypeOK, StoppedInv, Keeps
<1>2. tick' = [tick EXCEPT ![t] = k] /\ tick[t].at = "sweep"
  BY DEF Hold, At
<1> HIDE DEF k
<1> QED
  BY <1>1, <1>2

LEMMA EndSweepIs ==
  ASSUME TypeOK, StoppedInv, NEW t \in Ticks, EndSweep(t)
  PROVE  \E k \in Tick : /\ tick' = [tick EXCEPT ![t] = k] /\ Keeps(k, tick[t])
                         /\ k.at = "loop" /\ k.start = tick[t].start
                         /\ k.fires = tick[t].fires /\ k.next = tick[t].next
<1> DEFINE freed == tick[t].stopped \cap tick[t].start
           k == [tick[t] EXCEPT !.at = "loop", !.start = tick[t].start \ freed,
                                !.counted = tick[t].counted - Cardinality(freed)]
<1>1. tick' = [tick EXCEPT ![t] = k]
  BY DEF EndSweep
<1>2. freed = {} /\ Cardinality(freed) = 0
  BY SymbolsFinite DEF StoppedInv
<1>3. tick[t].start \ freed = tick[t].start /\ tick[t].counted - Cardinality(freed) = tick[t].counted
  BY <1>2, SymbolsFinite DEF TypeOK, Tick
<1> HIDE DEF freed
<1>4. /\ k \in Tick /\ Keeps(k, tick[t]) /\ k.at = "loop" /\ k.start = tick[t].start
      /\ k.fires = tick[t].fires /\ k.next = tick[t].next
  <2>1. tick[t] \in Tick /\ tick[t].stopped = {} /\ "loop" \in Steps
    BY Locals DEF Steps
  <2> QED
    BY ONLY <1>3, <2>1 DEF Tick, Keeps
<1> HIDE DEF k
<1> QED
  BY <1>1, <1>4

LEMMA PassIs ==
  ASSUME TypeOK, StoppedInv, NEW t \in Ticks, Pass(t)
  PROVE  \E k \in Tick : /\ tick' = [tick EXCEPT ![t] = k] /\ Keeps(k, tick[t])
                         /\ k.at = "loop" /\ k.start = tick[t].start
                         /\ k.fires = tick[t].fires /\ k.next = tick[t].next + 1
<1> DEFINE k == [tick[t] EXCEPT !.next = tick[t].next + 1]
<1>1. /\ k \in Tick /\ Keeps(k, tick[t]) /\ k.at = tick[t].at /\ k.start = tick[t].start
      /\ k.fires = tick[t].fires /\ k.next = tick[t].next + 1
  BY DEF Tick, TypeOK, StoppedInv, Keeps
<1>2. tick' = [tick EXCEPT ![t] = k] /\ tick[t].at = "loop"
  BY DEF Pass, Looking, At
<1> HIDE DEF k
<1> QED
  BY <1>1, <1>2

LEMMA OriginateIs ==
  ASSUME TypeOK, StoppedInv, NEW t \in Ticks, Originate(t)
  PROVE  \E k \in Tick : /\ tick' = [tick EXCEPT ![t] = k] /\ Keeps(k, tick[t])
                         /\ k.at = "loop" /\ k.start = tick[t].start \cup {Entry(t)}
                         /\ k.fires = tick[t].fires + 1 /\ k.next = tick[t].next + 1
<1> DEFINE f == tick[t].fires + 1
           n == tick[t].next + 1
           b == tick[t].start \cup {Entry(t)}
           k == [tick[t] EXCEPT !.fires = f, !.next = n, !.start = b]
<1>0. tick[t] \in Tick /\ tick[t].stopped = {}
  BY Locals
<1>1. Entry(t) \in Symbols /\ tick[t].at = "loop" /\ tick[t].fires < MaxOpens
  BY SetupIs DEF Originate, Looking, At, Entry, WithinTick
<1>2. f \in 0..MaxOpens /\ n \in Nat /\ b \subseteq Symbols
  BY <1>1, AutoTickAssumption DEF TypeOK, Tick
<1>3. tick' = [tick EXCEPT ![t] = k]
  BY DEF Originate
<1> HIDE DEF f, n, b
<1>4. /\ k \in Tick /\ Keeps(k, tick[t]) /\ k.at = tick[t].at
      /\ k.start = b /\ k.fires = f /\ k.next = n
  BY ONLY <1>2, <1>0 DEF Tick, Keeps
<1> HIDE DEF k
<1> QED
  BY <1>1, <1>3, <1>4 DEF f, n, b

\* Whoever writes to the book without the lock upsets those who have counted.
LEMMA DisturbedIs ==
  ASSUME TypeOK, NEW t \in Ticks, NEW k \in Tick, tick' = [Disturbed(t) EXCEPT ![t] = k]
  PROVE  /\ Becomes(t, k)
         /\ \A u \in Ticks \ {t} : \/ Guarded(t) /\ tick'[u] = tick[u]
                                   \/ tick'[u] = tick[u] /\ ~Counted(u)
                                   \/ ~tick'[u].calm
<1>1. Disturbed(t) \in [Ticks -> Tick]
  BY UpsetIs DEF Disturbed, TypeOK
<1>2. \A u \in Ticks \ {t} : \/ Guarded(t) /\ Disturbed(t)[u] = tick[u]
                             \/ Disturbed(t)[u] = tick[u] /\ ~Counted(u)
                             \/ Disturbed(t)[u] = Upset(tick[u])
  BY DEF Disturbed, Counted
<1>3. \A u \in Ticks \ {t} : tick'[u] = Disturbed(t)[u]
  OBVIOUS
<1>4. tick' \in [Ticks -> Tick] /\ tick'[t] = k
  BY <1>1
<1>5. \A u \in Ticks : tick[u] \in Tick
  BY DEF TypeOK
<1> QED
  BY <1>2, <1>3, <1>4, <1>5, UpsetIs DEF Becomes

LEMMA StopIs ==
  ASSUME TypeOK, StoppedInv, NEW t \in Ticks, NEW s \in Symbols, NEW a \in Answers, Stop(t, s, a)
  PROVE  \E k \in Tick : /\ tick' = [Disturbed(t) EXCEPT ![t] = k] /\ Keeps(k, tick[t])
                         /\ k.at = "sweep" /\ k.start = tick[t].start
                         /\ k.fires = tick[t].fires /\ k.next = tick[t].next
<1> DEFINE f == IF a = "moved" THEN tick[t].flattened \cup {s} ELSE tick[t].flattened
           k == [tick[t] EXCEPT !.sweep = tick[t].sweep \ {s},
                                !.stopped = tick[t].stopped, !.flattened = f]
<1>0. tick[t] \in Tick /\ tick[t].stopped = {}
  BY Locals
<1>1. ~Fired(0, a)
  BY DEF Fired, Nofill
<1>2. Disturbed(t)[t] = tick[t] /\ DOMAIN Disturbed(t) = Ticks
  BY DEF Disturbed
<1>3. tick' = [Disturbed(t) EXCEPT ![t] = k] /\ tick[t].at = "sweep"
  BY <1>1, <1>2 DEF Stop, At
<1>4. f \subseteq Symbols
  BY DEF TypeOK, Tick
<1> HIDE DEF f
<1>5. /\ k \in Tick /\ Keeps(k, tick[t]) /\ k.at = tick[t].at /\ k.start = tick[t].start
      /\ k.fires = tick[t].fires /\ k.next = tick[t].next
  BY ONLY <1>0, <1>4 DEF Tick, Keeps
<1> HIDE DEF k
<1> QED
  BY <1>3, <1>5

LEMMA FireIs ==
  ASSUME TypeOK, StoppedInv, NEW t \in Ticks, NEW target \in {0, 1}, NEW a \in Answers,
         Fire(t, target, a)
  PROVE  \E k \in Tick : /\ tick' = [Disturbed(t) EXCEPT ![t] = k] /\ Keeps(k, tick[t])
                         /\ k.at = "loop" /\ k.start = tick[t].start
                         /\ k.fires = (IF Fired(target, a) THEN tick[t].fires + 1
                                                           ELSE tick[t].fires)
                         /\ k.next = tick[t].next + 1
<1> DEFINE f == IF Fired(target, a) THEN tick[t].fires + 1 ELSE tick[t].fires
           n == tick[t].next + 1
           k == [tick[t] EXCEPT !.next = n, !.fires = f]
<1>0. tick[t] \in Tick /\ tick[t].stopped = {}
  BY Locals
<1>1. Disturbed(t)[t] = tick[t] /\ DOMAIN Disturbed(t) = Ticks
  BY DEF Disturbed
<1>2. tick' = [Disturbed(t) EXCEPT ![t] = k] /\ tick[t].at = "loop"
  BY <1>1 DEF Fire, Looking, At
<1>3. f \in 0..MaxOpens /\ n \in Nat
  <2>1. tick[t].fires \in 0..MaxOpens /\ tick[t].fires < MaxOpens /\ tick[t].next \in Nat
    BY <1>0 DEF Fire, WithinTick, Tick
  <2> QED
    BY <2>1, AutoTickAssumption
<1> HIDE DEF f, n
<1>4. /\ k \in Tick /\ Keeps(k, tick[t]) /\ k.at = tick[t].at /\ k.start = tick[t].start
      /\ k.fires = f /\ k.next = n
  BY ONLY <1>0, <1>3 DEF Tick, Keeps
<1> HIDE DEF k
<1> QED
  BY <1>2, <1>4 DEF f, n

-----------------------------------------------------------------------------
(* The rails.                                                              *)

LEMMA OthersKept ==
  ASSUME RoomInv, UNCHANGED <<setup, open>>, NEW u \in Ticks, tick'[u] = tick[u],
         rail = u => rail' = u
  PROVE  Counted(u)' /\ tick'[u].calm => Room(u)'
<1>1. Passed(u)' = Passed(u)
  BY DEF Passed
<1> QED
  BY <1>1 DEF RoomInv, Room, Counted

\* A step within the region that opens nothing.
LEMMA RoomKept ==
  ASSUME TypeOK, RoomInv, UNCHANGED <<setup, rail>>, NEW t \in Ticks, NEW k \in Tick,
         Counted(t), tick'[t] = k, Keeps(k, tick[t]),
         tick[t].start \subseteq k.start, k.start \subseteq tick[t].start \cup Passed(t)',
         tick[t].next <= k.next, tick[t].fires <= k.fires, open' \subseteq open
  PROVE  tick'[t].calm => Room(t)'
<1> SUFFICES ASSUME tick'[t].calm PROVE Room(t)'
  OBVIOUS
<1> DEFINE j == tick[t]
<1>1. Room(t) /\ j \in Tick
  BY DEF RoomInv, Keeps, TypeOK
<1>2. /\ k.base = j.base /\ k.failed = j.failed /\ k.counted = j.counted
      /\ j.base \subseteq Symbols /\ open \subseteq Symbols
      /\ j.fires \in Nat /\ k.fires \in Nat /\ j.next \in Nat /\ k.next \in Nat
  BY <1>1 DEF Keeps, TypeOK, Tick
<1>3. Passed(t) \subseteq Passed(t)'
  <2>1. \A i \in DOMAIN setup.watch : i < j.next => i < k.next
    BY <1>2, SetupIs
  <2> QED
    BY <2>1 DEF Passed
<1>4. /\ Cardinality(open' \ j.base) <= Cardinality(open \ j.base)
      /\ Cardinality(open' \cup j.base) <= Cardinality(open \cup j.base)
  <2>1. open \ j.base \in SUBSET Symbols /\ open \cup j.base \in SUBSET Symbols
    BY <1>2
  <2>2. open' \ j.base \in SUBSET (open \ j.base)
        /\ open' \cup j.base \in SUBSET (open \cup j.base)
    OBVIOUS
  <2> QED
    BY <2>1, <2>2, Symbolic
<1>5. /\ Cardinality(open' \ j.base) \in Nat /\ Cardinality(open \ j.base) \in Nat
      /\ Cardinality(open' \cup j.base) \in Nat /\ Cardinality(open \cup j.base) \in Nat
  BY <1>2, Symbolic
<1>6. /\ rail' = t
      /\ k.start \subseteq k.base \cup Passed(t)'
      /\ k.failed \/ (k.base \subseteq k.start /\ k.counted = Cardinality(k.base))
  BY <1>1, <1>2, <1>3 DEF Room
<1>7. \/ open' \subseteq k.base
      \/ ~k.failed /\ Cardinality(open' \cup k.base) <= MaxConcurrent
  BY <1>1, <1>2, <1>4, <1>5, AutoTickAssumption DEF Room
<1>8. Cardinality(open' \ k.base) <= k.fires
  BY <1>1, <1>2, <1>4, <1>5 DEF Room
<1> QED
  BY <1>6, <1>7, <1>8 DEF Room

\* A fire that opens a position.  One that was in the base is exempt from the
\* rail; any other is new, for no entry of the watchlist comes twice, and the
\* rail was asked.
LEMMA RoomFired ==
  ASSUME TypeOK, RoomInv, UNCHANGED <<setup, rail>>, NEW t \in Ticks, NEW k \in Tick,
         Looking(t), tick'[t] = k, Keeps(k, tick[t]), k.start = tick[t].start,
         k.next = tick[t].next + 1, k.fires = tick[t].fires + 1,
         Entry(t) \in tick[t].start \/ WithinBook(t), open' = open \cup {Entry(t)}
  PROVE  tick'[t].calm => Room(t)'
<1> SUFFICES ASSUME tick'[t].calm PROVE Room(t)'
  OBVIOUS
<1> DEFINE j == tick[t]
           s == Entry(t)
           new == open \ j.base
<1>1. Room(t) /\ j \in Tick
  BY DEF RoomInv, Keeps, TypeOK, Looking, At, Counted
<1>2. /\ k.base = j.base /\ k.failed = j.failed /\ k.counted = j.counted
      /\ j.base \subseteq Symbols /\ open \subseteq Symbols
      /\ j.fires \in Nat /\ j.next \in Nat
  BY <1>1 DEF Keeps, TypeOK, Tick
<1>3. Passed(t) \subseteq Passed(t)'
  <2>1. \A i \in DOMAIN setup.watch : i < j.next => i < j.next + 1
    BY <1>2, SetupIs
  <2> QED
    BY <2>1 DEF Passed
<1>4. s \in Symbols /\ s \notin Passed(t)
  <2>1. j.next \in DOMAIN setup.watch
    BY DEF Looking
  <2>2. ASSUME NEW i \in DOMAIN setup.watch, i < j.next PROVE setup.watch[i] # s
    BY <1>2, <2>1, <2>2, SetupIs DEF NoRepeats, Entry
  <2> QED
    BY <2>1, <2>2, SetupIs DEF Passed, Entry
<1>5. /\ IsFiniteSet(new) /\ Cardinality(new) \in Nat
      /\ IsFiniteSet(j.base) /\ Cardinality(j.base) \in Nat
  BY <1>2, Symbolic
<1>6. /\ rail' = t
      /\ k.start \subseteq k.base \cup Passed(t)'
      /\ k.failed \/ (k.base \subseteq k.start /\ k.counted = Cardinality(k.base))
  BY <1>1, <1>2, <1>3 DEF Room
<1>7. CASE s \in j.base
  <2>1. open' \ j.base = new /\ open' \cup j.base = open \cup j.base
    BY <1>7
  <2>2. open \subseteq j.base => open' \subseteq j.base
    BY <1>7
  <2>3. Cardinality(new) <= j.fires + 1
    BY <1>1, <1>2, <1>5 DEF Room
  <2> QED
    BY <1>1, <1>2, <1>6, <2>1, <2>2, <2>3 DEF Room
<1>8. CASE s \notin j.base
  <2>1. ~j.failed /\ j.counted + j.fires < MaxConcurrent
    BY <1>1, <1>4, <1>8 DEF Room, WithinBook
  <2>2. open' \ j.base = new \cup {s} /\ open' \cup j.base = j.base \cup (new \cup {s})
    BY <1>8
  <2>3. /\ IsFiniteSet(new \cup {s}) /\ Cardinality(new \cup {s}) \in Nat
        /\ Cardinality(new \cup {s}) <= Cardinality(new) + 1
    <3>1. /\ IsFiniteSet(new \cup {s})
          /\ Cardinality(new \cup {s}) = IF s \in new THEN Cardinality(new)
                                                     ELSE Cardinality(new) + 1
      BY <1>5, FS_AddElement
    <3> HIDE DEF new
    <3> QED
      BY <1>5, <3>1
  <2>4. Cardinality(new \cup {s}) <= j.fires + 1
    <3>1. Cardinality(new) <= j.fires
      BY <1>1 DEF Room
    <3> HIDE DEF new, j
    <3> QED
      BY <1>2, <1>5, <2>3, <3>1
  <2>5. Cardinality(j.base \cup (new \cup {s})) <= MaxConcurrent
    <3>1. j.counted = Cardinality(j.base)
      BY <1>1, <2>1 DEF Room
    <3> HIDE DEF new, j
    <3> DEFINE n == new \cup {s}
    <3>2. Cardinality(j.base \cup n) = Cardinality(j.base) + Cardinality(n)
                                       - Cardinality(j.base \cap n)
      BY <1>5, <2>3, FS_Union
    <3>3. Cardinality(j.base \cap n) \in Nat
      BY <1>5, FS_Intersection, FS_CardinalityType
    <3> HIDE DEF n
    <3>4. Cardinality(n) \in Nat /\ Cardinality(n) <= j.fires + 1
      BY <2>3, <2>4 DEF n
    <3>5. Cardinality(j.base \cup n) <= MaxConcurrent
      BY <1>2, <1>5, <2>1, <3>1, <3>2, <3>3, <3>4, AutoTickAssumption
    <3> QED
      BY <3>5 DEF n
  <2> HIDE DEF new
  <2> QED
    BY <1>2, <1>6, <2>1, <2>2, <2>4, <2>5 DEF Room
<1> QED
  BY <1>7, <1>8

-----------------------------------------------------------------------------
(* The invariant is inductive.                                             *)

\* A step of tick t that touches no other tick, and the book not at all.
LEMMA Alone ==
  ASSUME IInv, NEW t \in Ticks, NEW k \in Tick, tick' = [tick EXCEPT ![t] = k],
         k.stopped = {}, UNCHANGED <<setup, open, losing>>, tripped' \in BOOLEAN,
         rail' \in Ticks \cup {Nobody}, \A u \in Ticks \ {t} : rail = u => rail' = u,
         k.at \in {"sweep", "loop"} /\ k.calm => Room(t)'
  PROVE  IInv'
<1>1. Becomes(t, k) /\ \A u \in Ticks \ {t} : tick'[u] = tick[u]
  BY BecomesIs DEF IInv
<1>2. TypeOK'
  BY <1>1 DEF IInv, TypeOK, Becomes
<1>3. StoppedInv'
  BY <1>1 DEF IInv, StoppedInv, Becomes
<1>4. RoomInv'
  <2>1. ASSUME NEW u \in Ticks \ {t} PROVE Counted(u)' /\ tick'[u].calm => Room(u)'
    BY <1>1, OthersKept DEF IInv
  <2>2. Counted(t)' /\ tick'[t].calm => Room(t)'
    BY <1>1 DEF Counted, Becomes
  <2> QED
    BY <2>1, <2>2 DEF RoomInv
<1> QED
  BY <1>2, <1>3, <1>4 DEF IInv

\* A step of tick t that may write to the book: whoever else has counted does
\* not hold the lock, or learns of it.
LEMMA Writes ==
  ASSUME IInv, NEW t \in Ticks, NEW k \in Tick, tick' = [Disturbed(t) EXCEPT ![t] = k],
         k.stopped = {}, UNCHANGED <<setup, losing, tripped, rail>>, open' \subseteq Symbols,
         tick'[t].calm => Room(t)'
  PROVE  IInv'
<1>1. /\ Becomes(t, k)
      /\ \A u \in Ticks \ {t} : \/ Guarded(t) /\ tick'[u] = tick[u]
                                \/ tick'[u] = tick[u] /\ ~Counted(u)
                                \/ ~tick'[u].calm
  BY DisturbedIs DEF IInv
<1>2. TypeOK'
  BY <1>1 DEF IInv, TypeOK, Becomes
<1>3. StoppedInv'
  BY <1>1 DEF IInv, StoppedInv, Becomes
<1>4. RoomInv'
  <2>1. ASSUME NEW u \in Ticks \ {t} PROVE ~(Counted(u)' /\ tick'[u].calm)
    BY <1>1 DEF IInv, RoomInv, Room, Counted, Guarded
  <2> QED
    BY <2>1 DEF RoomInv
<1> QED
  BY <1>2, <1>3, <1>4 DEF IInv

LEMMA MovedIs ==
  ASSUME TypeOK, NEW s \in Symbols, NEW target \in {0, 1}, NEW a \in Answers
  PROVE  /\ Moved(s, target, a) \subseteq Symbols
         /\ target = 0 \/ a # "moved" => Moved(s, target, a) \subseteq open
         /\ target = 1 /\ a = "moved" => Moved(s, target, a) = open \cup {s} /\ Fired(target, a)
BY DEF Moved, TypeOK, Fired, Nofill

LEMMA TickKeeps ==
  ASSUME IInv, NEW t \in Ticks, TickStep(t) \/ Begin(t, TRUE) \/ Crash(t)
  PROVE  IInv'
<1>0. TypeOK /\ StoppedInv /\ RoomInv
  BY DEF IInv
<1>a. /\ tick[t] \in Tick /\ tick[t].stopped = {} /\ tick[t].fires \in Nat
      /\ tick[t].next \in Nat /\ tripped \in BOOLEAN /\ rail \in Ticks \cup {Nobody}
      /\ tick[t].start \subseteq Symbols
  BY <1>0 DEF TypeOK, StoppedInv, Tick
<1>1. ASSUME NEW breached \in BOOLEAN, Begin(t, breached) PROVE IInv'
  <2>1. UNCHANGED <<setup, open, losing, rail>> /\ tripped' \in BOOLEAN
    BY <1>1 DEF Begin
  <2>2. CASE UNCHANGED tick
    <3>1. TypeOK' /\ StoppedInv'
      BY <1>0, <2>1, <2>2 DEF TypeOK, StoppedInv
    <3>2. RoomInv'
      BY <1>0, <2>1, <2>2, OthersKept DEF RoomInv
    <3> QED
      BY <3>1, <3>2 DEF IInv
  <2>3. CASE Goes(t, "wait")
    <3>1. PICK k \in Tick : /\ k.at = "wait" /\ k.stopped = tick[t].stopped
                            /\ tick' = [tick EXCEPT ![t] = k]
      BY <1>0, <2>3, GoesIs DEF Steps
    <3> QED
      BY <1>a, <2>1, <3>1, Alone
  <2> QED
    BY <1>1, <2>2, <2>3 DEF Begin
<1>2. ASSUME Acquire(t) \/ Unguarded(t) \/ Skip(t) PROVE IInv'
  <2>1. PICK l \in {"count", "idle"} : Goes(t, l)
    BY <1>2 DEF Acquire, Unguarded, Skip
  <2>2. PICK k \in Tick : /\ k.at = l /\ k.stopped = tick[t].stopped
                          /\ tick' = [tick EXCEPT ![t] = k]
    BY <1>0, <2>1, GoesIs DEF Steps
  <2>3. /\ UNCHANGED <<setup, open, losing, tripped>> /\ rail' \in Ticks \cup {Nobody}
        /\ \A u \in Ticks \ {t} : rail = u => rail' = u
    BY <1>2, <1>a, AutoTickAssumption DEF Acquire, Unguarded, Skip
  <2> QED
    BY <1>a, <2>2, <2>3, Alone
<1>3. ASSUME NEW failed \in BOOLEAN, Count(t, failed) PROVE IInv'
  <2>1. PICK k \in Tick :
           /\ tick' = [tick EXCEPT ![t] = k]
           /\ k.at = "sweep" /\ k.stopped = {} /\ k.fires = 0 /\ k.next = 1
           /\ k.calm = Guarded(t) /\ k.failed = failed
           /\ k.start \in IF failed THEN {{}, open} ELSE {open}
           /\ k.counted = Cardinality(k.start)
           /\ k.base = IF Guarded(t) THEN open ELSE {}
    BY <1>0, <1>3, CountIs
  <2>2. UNCHANGED <<setup, open, losing, tripped, rail>> /\ tick'[t] = k
    BY <1>0, <1>3, <2>1 DEF Count, TypeOK
  <2>3. k.calm => Room(t)'
    <3> SUFFICES ASSUME k.calm PROVE Room(t)'
      OBVIOUS
    <3>1. rail' = t /\ k.base = open /\ k.start \subseteq open
      BY <2>1, <2>2 DEF Guarded
    <3>2. Cardinality(open' \ k.base) = 0
      <4>1. open' \ k.base = {}
        BY <2>2, <3>1
      <4> QED
        BY <4>1, SymbolsFinite
    <3>3. k.failed \/ (k.base \subseteq k.start /\ k.counted = Cardinality(k.base))
      BY <2>1, <3>1
    <3>4. /\ rail' = t /\ k.start \subseteq k.base /\ open' \subseteq k.base
          /\ Cardinality(open' \ k.base) <= k.fires /\ tick'[t] = k
      BY <2>1, <2>2, <3>1, <3>2
    <3> QED
      BY <3>3, <3>4 DEF Room
  <2> QED
    BY <1>a, <2>1, <2>2, <2>3, Alone
<1>4. ASSUME (\E s \in Symbols : Hold(t, s)) \/ EndSweep(t) \/ Pass(t) \/ Originate(t)
      PROVE  IInv'
  <2>1. PICK k \in Tick :
           /\ tick' = [tick EXCEPT ![t] = k] /\ Keeps(k, tick[t]) /\ k.stopped = {}
           /\ tick[t].start \subseteq k.start
           /\ \/ k.start = tick[t].start
              \/ /\ k.start = tick[t].start \cup {Entry(t)} /\ k.next = tick[t].next + 1
                 /\ Looking(t)
           /\ tick[t].next <= k.next /\ tick[t].fires <= k.fires
    <3>1. CASE \E s \in Symbols : Hold(t, s)
      <4>1. PICK s \in Symbols : Hold(t, s)
        BY <3>1
      <4> QED
        BY <1>0, <1>a, <4>1, HoldIs DEF Keeps
    <3>2. CASE EndSweep(t)
      BY <1>0, <1>a, <3>2, EndSweepIs DEF Keeps
    <3>3. CASE Pass(t)
      BY <1>0, <1>a, <3>3, PassIs DEF Keeps
    <3>4. CASE Originate(t)
      <4>1. Looking(t)
        BY <3>4 DEF Originate
      <4>2. PICK k \in Tick :
              /\ tick' = [tick EXCEPT ![t] = k] /\ Keeps(k, tick[t])
              /\ k.at = "loop" /\ k.start = tick[t].start \cup {Entry(t)}
              /\ k.fires = tick[t].fires + 1 /\ k.next = tick[t].next + 1
        BY <1>0, <3>4, OriginateIs
      <4>3. tick[t].next <= k.next /\ tick[t].fires <= k.fires
            /\ tick[t].start \subseteq k.start /\ k.stopped = {}
        BY <1>a, <4>2 DEF Keeps
      <4> QED
        BY <4>1, <4>2, <4>3
    <3> QED
      BY <1>4, <3>1, <3>2, <3>3, <3>4
  <2>2. /\ UNCHANGED <<setup, open, losing, tripped, rail>> /\ Counted(t)
        /\ tick'[t] = k
    BY <1>0, <1>4, <2>1
       DEF Hold, EndSweep, Pass, Originate, Looking, At, Counted, TypeOK
  <2>3. k.start \subseteq tick[t].start \cup Passed(t)'
    <3>1. CASE k.start = tick[t].start
      BY <3>1
    <3>2. CASE /\ k.start = tick[t].start \cup {Entry(t)} /\ k.next = tick[t].next + 1
               /\ Looking(t)
      <4>1. tick[t].next < k.next /\ tick[t].next \in DOMAIN setup.watch
        BY <1>a, <3>2 DEF Looking
      <4>2. Entry(t) \in Passed(t)'
        BY <2>2, <4>1 DEF Passed, Entry
      <4> QED
        BY <3>2, <4>2
    <3> QED
      BY <2>1, <3>1, <3>2
  <2>4. tick'[t].calm => Room(t)'
    BY <1>0, <2>1, <2>2, <2>3, RoomKept
  <2> QED
    BY <1>a, <2>1, <2>2, <2>4, Alone
<1>5. ASSUME NEW s \in Symbols, NEW a \in Answers, Stop(t, s, a) PROVE IInv'
  <2>1. PICK k \in Tick : /\ tick' = [Disturbed(t) EXCEPT ![t] = k] /\ Keeps(k, tick[t])
                          /\ k.at = "sweep" /\ k.start = tick[t].start
                          /\ k.fires = tick[t].fires /\ k.next = tick[t].next
    BY <1>0, <1>5, StopIs
  <2>2. /\ UNCHANGED <<setup, losing, tripped, rail>> /\ Counted(t)
        /\ open' \subseteq open /\ open' \subseteq Symbols
    BY <1>0, <1>5, MovedIs DEF Stop, At, Counted
  <2>3. tick'[t] = k
    BY <1>0, <2>1, DisturbedIs DEF Becomes
  <2>4. tick'[t].calm => Room(t)'
    BY <1>0, <1>a, <2>1, <2>2, <2>3, RoomKept
  <2> QED
    BY <2>1, <2>2, <2>4, Writes DEF Keeps
<1>6. ASSUME NEW target \in {0, 1}, NEW a \in Answers, Fire(t, target, a) PROVE IInv'
  <2>1. PICK k \in Tick : /\ tick' = [Disturbed(t) EXCEPT ![t] = k] /\ Keeps(k, tick[t])
                          /\ k.at = "loop" /\ k.start = tick[t].start
                          /\ k.fires = (IF Fired(target, a) THEN tick[t].fires + 1
                                                            ELSE tick[t].fires)
                          /\ k.next = tick[t].next + 1
    BY <1>0, <1>6, FireIs
  <2>2. /\ UNCHANGED <<setup, losing, tripped, rail>> /\ Looking(t) /\ Counted(t)
        /\ open' = Moved(Entry(t), target, a)
        /\ Entry(t) \in tick[t].start \/ WithinBook(t)
    BY <1>6 DEF Fire, Looking, At, Counted
  <2>3. Entry(t) \in Symbols
    BY <1>0, <2>2, SetupIs DEF Looking, Entry
  <2>4. tick'[t] = k
    BY <1>0, <2>1, DisturbedIs DEF Becomes
  <2>5. open' \subseteq Symbols
    BY <1>0, <2>2, <2>3, MovedIs
  <2>6. tick[t].next <= k.next /\ tick[t].fires <= k.fires
    BY <1>a, <2>1
  <2>7. CASE target = 0 \/ a # "moved"
    <3>1. open' \subseteq open
      BY <1>0, <2>2, <2>3, <2>7, MovedIs
    <3>2. tick'[t].calm => Room(t)'
      BY <1>0, <1>a, <2>1, <2>2, <2>4, <2>6, <3>1, RoomKept
    <3> QED
      BY <2>1, <2>2, <2>5, <3>2, Writes DEF Keeps
  <2>8. CASE target = 1 /\ a = "moved"
    <3>1. open' = open \cup {Entry(t)} /\ k.fires = tick[t].fires + 1
      BY <1>0, <2>1, <2>2, <2>3, <2>8, MovedIs
    <3>2. tick'[t].calm => Room(t)'
      BY <1>0, <2>1, <2>2, <2>4, <3>1, RoomFired
    <3> QED
      BY <2>1, <2>2, <2>5, <3>2, Writes DEF Keeps
  <2> QED
    BY <2>7, <2>8
<1>7. ASSUME End(t) \/ Crash(t) PROVE IInv'
  <2>1. /\ tick' = [tick EXCEPT ![t] = Idle]
        /\ UNCHANGED <<setup, open, losing, tripped>>
        /\ rail' \in Ticks \cup {Nobody} /\ \A u \in Ticks \ {t} : rail = u => rail' = u
    BY <1>7, <1>a DEF End, Crash, Leave
  <2> QED
    BY <1>a, <2>1, IdleIs, Alone
<1> QED
  BY <1>1, <1>2, <1>3, <1>4, <1>5, <1>6, <1>7 DEF TickStep

LEMMA StepKeeps == IInv /\ [Next]_vars => IInv'
<1> SUFFICES ASSUME IInv, [Next]_vars PROVE IInv'
  OBVIOUS
<1>0. TypeOK /\ StoppedInv /\ RoomInv
  BY DEF IInv
<1>1. ASSUME NEW s \in Symbols, NEW target \in {0, 1}, Approve(s, target) PROVE IInv'
  <2>1. /\ \A u \in Ticks : \/ tick'[u] = Upset(tick[u])
                            \/ tick'[u] = tick[u] /\ ~Counted(u)
        /\ tick' = [u \in Ticks |-> tick'[u]]
        /\ UNCHANGED <<setup, losing, tripped, rail>>
    BY <1>1 DEF Approve, Counted, InRegion, At
  <2>2. \A u \in Ticks : tick[u] \in Tick
    BY <1>0 DEF TypeOK
  <2>3. \A u \in Ticks : /\ tick'[u] \in Tick /\ tick'[u].stopped = tick[u].stopped
                         /\ ~(Counted(u)' /\ tick'[u].calm)
    BY <2>1, <2>2, UpsetIs DEF Counted
  <2>4. open' \subseteq Symbols
    BY <1>0, <1>1, MovedIs DEF Approve, Answers
  <2>5. TypeOK'
    BY <1>0, <2>1, <2>3, <2>4 DEF TypeOK
  <2> QED
    BY <1>0, <2>3, <2>5 DEF IInv, StoppedInv, RoomInv
<1>2. ASSUME NEW s \in Symbols, Market(s) PROVE IInv'
  <2>1. TypeOK' /\ StoppedInv'
    BY <1>0, <1>2 DEF Market, TypeOK, StoppedInv
  <2>2. UNCHANGED <<setup, open, rail, tick>>
    BY <1>2 DEF Market
  <2>3. RoomInv'
    BY <1>0, <2>2, OthersKept DEF RoomInv
  <2> QED
    BY <2>1, <2>3 DEF IInv
<1>3. ASSUME Switch \/ UNCHANGED vars PROVE IInv'
  <2>1. TypeOK' /\ StoppedInv'
    BY <1>0, <1>3 DEF Switch, vars, TypeOK, StoppedInv
  <2>2. UNCHANGED <<setup, open, rail, tick>>
    BY <1>3 DEF Switch, vars
  <2>3. RoomInv'
    BY <1>0, <2>2, OthersKept DEF RoomInv
  <2> QED
    BY <2>1, <2>3 DEF IInv
<1> QED
  BY <1>0, <1>1, <1>2, <1>3, TickKeeps, SetupIs DEF Next

LEMMA InitHolds == Init => IInv
<1> SUFFICES ASSUME Init PROVE IInv
  OBVIOUS
<1>1. \A t \in Ticks : tick[t] = Idle
  BY DEF Init
<1>2. TypeOK
  <2>1. setup.held \subseteq Symbols
    BY AutoTickAssumption DEF Init
  <2> QED
    BY <2>1, IdleIs DEF Init, TypeOK
<1>3. StoppedInv /\ RoomInv
  BY <1>1, IdleIs DEF StoppedInv, RoomInv, Counted
<1> QED
  BY <1>2, <1>3 DEF IInv

-----------------------------------------------------------------------------
(* What follows.                                                           *)

THEOREM Invariant == Spec => []IInv
BY InitHolds, StepKeeps, PTL DEF Spec

(* Type correctness; and no tick fires more often than max_per_tick_opens     *)
(* (autonomous.py, tick).                                                     *)
THEOREM TypeCorrect == Spec => []TypeOK
BY Invariant, PTL DEF IInv

(* A tick that holds the rail lock keeps the concurrent-positions rail, and   *)
(* adds no symbol after a count that failed, while nobody outside the lock    *)
(* writes to the book (autonomous.py, tick).                                  *)
THEOREM LockedTickKeepsRails == Spec => []RailsHold
<1>1. IInv => RailsHold
  <2> SUFFICES ASSUME IInv, NEW t \in Ticks, At(t, "loop"), tick[t].calm
               PROVE  /\ \/ Cardinality(open) <= MaxConcurrent
                         \/ Cardinality(open) <= Cardinality(tick[t].base)
                      /\ tick[t].failed => open \subseteq tick[t].base
    BY DEF RailsHold
  <2> DEFINE base == tick[t].base
  <2>1. /\ \/ open \subseteq base
           \/ ~tick[t].failed /\ Cardinality(open \cup base) <= MaxConcurrent
        /\ open \subseteq Symbols /\ base \subseteq Symbols
    BY DEF IInv, RoomInv, Room, Counted, At, TypeOK, Tick
  <2> HIDE DEF base
  <2>2. CASE open \subseteq base
    BY <2>1, <2>2, Symbolic DEF base
  <2>3. CASE ~tick[t].failed /\ Cardinality(open \cup base) <= MaxConcurrent
    <3>1. /\ Cardinality(open) <= Cardinality(open \cup base)
          /\ Cardinality(open) \in Nat /\ Cardinality(open \cup base) \in Nat
      BY <2>1, Symbolic
    <3> QED
      BY <2>3, <3>1, AutoTickAssumption
  <2> QED
    BY <2>1, <2>2, <2>3
<1> QED
  BY <1>1, Invariant, PTL

(* No stop exit ever counts: the answer to a flat target is taken for a       *)
(* no-fill, whatever it says, so the tick keeps the slot of a position that   *)
(* it has closed and may open it again (autonomous.py, tick).                 *)
THEOREM NoStopCounts == Spec => [](\A t \in Ticks : tick[t].stopped = {})
BY Invariant, PTL DEF IInv, StoppedInv

-----------------------------------------------------------------------------
(***************************************************************************)
(* How long a tick is.  Every step of a tick uses up a part of it, and     *)
(* nothing gives it back before the next one begins: neither the writes of *)
(* others to the book, nor the market, nor the switch.                     *)
(***************************************************************************)
\* What is left of a tick at k, with l entries in the watchlist: of the loop the
\* entries, of the sweep its positions too, and before them the count and the wait.
RankOf(k, l) ==
  LET n == l + 2
  IN  IF k.at = "loop"  THEN n - k.next ELSE
      IF k.at = "sweep" THEN n + Cardinality(k.sweep) ELSE
      IF k.at = "count" THEN n + Cardinality(Symbols) + 1 ELSE
      IF k.at = "wait"  THEN n + Cardinality(Symbols) + 2 ELSE 0

Rank(t) == RankOf(tick[t], Len(setup.watch))

\* A tick is over when nothing is left of it; each of its steps leaves less, and
\* a step of anybody else, or its death, no more.
Shortens ==
  \A t \in Ticks : /\ Rank(t) \in 0 .. Len(setup.watch) + Cardinality(Symbols) + 4
                   /\ Rank(t) = 0 <=> At(t, "idle")
                   /\ TickStep(t) /\ ~At(t, "idle") => Rank(t)' < Rank(t)
                   /\ At(t, "idle") \/ Rank(t)' <= Rank(t)

\* The loop stays within the watchlist.
Within(k, l) == k.at \in {"sweep", "loop"} => k.next \in 1 .. l + 1
NextInv == \A t \in Ticks : Within(tick[t], Len(setup.watch))

\* A step of t leaves the place of every other tick.
OthersStay(t) == \A u \in Ticks \ {t} : /\ tick'[u].at = tick[u].at
                                        /\ tick'[u].next = tick[u].next
                                        /\ tick'[u].sweep = tick[u].sweep

\* The ways in which a tick at j goes on to k.
Advances(j, k, l) ==
  \/ k.at = "idle"
  \/ j.at = "wait" /\ k.at = "count"
  \/ j.at = "count" /\ k.at = "sweep" /\ k.next = 1
  \/ /\ j.at = "sweep" /\ k.at = "sweep" /\ k.next = j.next
     /\ \E s \in j.sweep : k.sweep = j.sweep \ {s}
  \/ j.at = "sweep" /\ k.at = "loop" /\ k.next = j.next
  \/ j.at = "loop" /\ k.at = "loop" /\ k.next = j.next + 1 /\ j.next \in 1 .. l

LEMMA DisturbedStays ==
  ASSUME TypeOK, NEW t \in Ticks
  PROVE  /\ DOMAIN Disturbed(t) = Ticks /\ Disturbed(t)[t] = tick[t]
         /\ \A u \in Ticks : /\ Disturbed(t)[u].at = tick[u].at
                             /\ Disturbed(t)[u].next = tick[u].next
                             /\ Disturbed(t)[u].sweep = tick[u].sweep
<1>1. \A u \in Ticks : tick[u] \in Tick
  BY DEF TypeOK
<1>2. \A k \in Tick : /\ Upset(k).at = k.at /\ Upset(k).next = k.next
                      /\ Upset(k).sweep = k.sweep
  BY DEF Upset, Tick
<1> QED
  BY <1>1, <1>2 DEF Disturbed

LEMMA TickAdvances ==
  ASSUME TypeOK, NEW t \in Ticks, TickStep(t), ~At(t, "idle")
  PROVE  OthersStay(t) /\ UNCHANGED setup /\ Advances(tick[t], tick'[t], Len(setup.watch))
<1> DEFINE j == tick[t]
           Good == OthersStay(t) /\ UNCHANGED setup /\ Advances(j, tick'[t], Len(setup.watch))
<1>0. /\ j \in Tick /\ tick \in [Ticks -> Tick]
      /\ DOMAIN setup.watch = 1 .. Len(setup.watch)
  BY SetupIs DEF TypeOK
<1> SUFFICES Good
  OBVIOUS
<1>1. CASE Acquire(t) \/ Unguarded(t) \/ Skip(t)
  <2>1. PICK l \in {"count", "idle"} : Goes(t, l) /\ j.at = "wait" /\ UNCHANGED setup
    BY <1>1 DEF Acquire, Unguarded, Skip, At
  <2>2. OthersStay(t) /\ tick'[t].at = l
    BY <1>0, <2>1 DEF OthersStay, Goes, Tick
  <2> QED
    BY <2>1, <2>2 DEF Advances
<1>2. ASSUME NEW failed \in BOOLEAN, Count(t, failed) PROVE Good
  <2>1. PICK k \in Tick : /\ tick' = [tick EXCEPT ![t] = k]
                          /\ k.at = "sweep" /\ k.next = 1
    BY <1>2, CountIs
  <2>2. j.at = "count" /\ UNCHANGED setup
    BY <1>2 DEF Count, At
  <2>3. tick'[t] = k /\ OthersStay(t)
    BY <1>0, <2>1 DEF OthersStay
  <2> QED
    BY <2>1, <2>2, <2>3 DEF Advances
<1>3. ASSUME NEW s \in Symbols, Hold(t, s) PROVE Good
  <2>1. j.at = "sweep" /\ s \in j.sweep /\ UNCHANGED setup
        /\ tick' = [tick EXCEPT ![t].sweep = @ \ {s}]
    BY <1>3 DEF Hold, At
  <2>2. tick'[t].at = j.at /\ tick'[t].next = j.next /\ tick'[t].sweep = j.sweep \ {s}
    BY <1>0, <2>1 DEF Tick
  <2>3. OthersStay(t)
    BY <1>0, <2>1 DEF OthersStay
  <2> QED
    BY <2>1, <2>2, <2>3 DEF Advances
<1>4. ASSUME NEW s \in Symbols, NEW a \in Answers, Stop(t, s, a) PROVE Good
  <2> DEFINE d == Disturbed(t)
             x == IF Fired(0, a) THEN j.stopped \cup {s} ELSE j.stopped
             y == IF a = "moved" THEN j.flattened \cup {s} ELSE j.flattened
  <2>1. j.at = "sweep" /\ s \in j.sweep /\ UNCHANGED setup
        /\ tick' = [d EXCEPT ![t] = [j EXCEPT !.sweep = j.sweep \ {s},
                                              !.stopped = x, !.flattened = y]]
    BY <1>4, DisturbedStays DEF Stop, At
  <2> HIDE DEF d, x, y
  <2>2. tick'[t].at = j.at /\ tick'[t].next = j.next /\ tick'[t].sweep = j.sweep \ {s}
    BY <1>0, <2>1, DisturbedStays DEF Tick, d
  <2>3. OthersStay(t)
    BY <2>1, DisturbedStays DEF OthersStay, d
  <2> QED
    BY <2>1, <2>2, <2>3 DEF Advances
<1>5. CASE EndSweep(t)
  <2> DEFINE freed == j.stopped \cap j.start
  <2>1. j.at = "sweep" /\ UNCHANGED setup
        /\ tick' = [tick EXCEPT ![t] = [j EXCEPT !.at = "loop", !.start = j.start \ freed,
                                          !.counted = j.counted - Cardinality(freed)]]
    BY <1>5 DEF EndSweep, At
  <2> HIDE DEF freed
  <2>2. tick'[t].at = "loop" /\ tick'[t].next = j.next
    BY <1>0, <2>1 DEF Tick
  <2>3. OthersStay(t)
    BY <1>0, <2>1 DEF OthersStay
  <2> QED
    BY <2>1, <2>2, <2>3 DEF Advances
<1>6. CASE Pass(t) \/ Originate(t)
  <2>1. PICK k : /\ tick' = [tick EXCEPT ![t] = k]
                 /\ k.at = j.at /\ k.next = j.next + 1
    <3>1. CASE Pass(t)
      <4> DEFINE k == [j EXCEPT !.next = j.next + 1]
      <4>1. tick' = [tick EXCEPT ![t] = k]
        BY <3>1 DEF Pass
      <4>2. k.at = j.at /\ k.next = j.next + 1
        BY ONLY <1>0 DEF Tick
      <4> HIDE DEF k
      <4> QED
        BY <4>1, <4>2
    <3>2. CASE Originate(t)
      <4> DEFINE k == [j EXCEPT !.fires = j.fires + 1, !.next = j.next + 1,
                                !.start = j.start \cup {Entry(t)}]
      <4>1. tick' = [tick EXCEPT ![t] = k]
        BY <3>2 DEF Originate
      <4>2. k.at = j.at /\ k.next = j.next + 1
        BY ONLY <1>0 DEF Tick
      <4> HIDE DEF k
      <4> QED
        BY <4>1, <4>2
    <3> QED
      BY <1>6, <3>1, <3>2
  <2>2. j.at = "loop" /\ UNCHANGED setup /\ j.next \in 1 .. Len(setup.watch)
    BY <1>0, <1>6 DEF Pass, Originate, Looking, At
  <2>3. tick'[t] = k /\ OthersStay(t)
    BY <1>0, <2>1 DEF OthersStay
  <2> QED
    BY <2>1, <2>2, <2>3 DEF Advances
<1>7. ASSUME NEW target \in {0, 1}, NEW a \in Answers, Fire(t, target, a) PROVE Good
  <2> DEFINE d == Disturbed(t)
             x == IF Fired(target, a) THEN j.fires + 1 ELSE j.fires
  <2>1. j.at = "loop" /\ UNCHANGED setup /\ j.next \in 1 .. Len(setup.watch)
        /\ tick' = [d EXCEPT ![t] = [j EXCEPT !.next = j.next + 1, !.fires = x]]
    BY <1>0, <1>7, DisturbedStays DEF Fire, Looking, At
  <2> HIDE DEF d, x
  <2>2. tick'[t].at = j.at /\ tick'[t].next = j.next + 1
    BY <1>0, <2>1, DisturbedStays DEF Tick, d
  <2>3. OthersStay(t)
    BY <2>1, DisturbedStays DEF OthersStay, d
  <2> QED
    BY <2>1, <2>2, <2>3 DEF Advances
<1>8. CASE End(t)
  <2>1. tick' = [tick EXCEPT ![t] = Idle] /\ UNCHANGED setup
    BY <1>8 DEF End, Leave
  <2>2. tick'[t].at = "idle" /\ OthersStay(t)
    BY <1>0, <2>1, IdleIs DEF OthersStay
  <2> QED
    BY <2>1, <2>2 DEF Advances
<1>9. ~Begin(t, FALSE)
  BY DEF Begin
<1> QED
  BY <1>1, <1>2, <1>3, <1>4, <1>5, <1>6, <1>7, <1>8, <1>9 DEF TickStep

\* A tick that has not begun begins.
LEMMA IdleBegins ==
  ASSUME NEW t \in Ticks, TickStep(t), At(t, "idle")
  PROVE  Begin(t, FALSE)
BY Zenon DEF TickStep, At, Acquire, Unguarded, Skip, Count, Hold, Stop, EndSweep, Pass,
             Originate, Fire, Looking, End

\* The ways in which anything else goes on, while t has begun.
LEMMA OthersLeave ==
  ASSUME TypeOK, [Next]_vars, NEW t \in Ticks, ~TickStep(t)
  PROVE  /\ UNCHANGED setup
         /\ \/ tick'[t].at = tick[t].at /\ tick'[t].next = tick[t].next
               /\ tick'[t].sweep = tick[t].sweep
            \/ tick'[t].at = "idle"
            \/ At(t, "idle") /\ tick'[t].at = "wait"
<1> DEFINE Stays(u) == tick'[u].at = tick[u].at /\ tick'[u].next = tick[u].next
                       /\ tick'[u].sweep = tick[u].sweep
           Good == /\ UNCHANGED setup
                   /\ \/ Stays(t) \/ tick'[t].at = "idle"
                      \/ At(t, "idle") /\ tick'[t].at = "wait"
<1>0. tick \in [Ticks -> Tick] /\ \A u \in Ticks : tick[u] \in Tick
  BY DEF TypeOK
<1> SUFFICES Good
  OBVIOUS
<1>1. ASSUME NEW u \in Ticks \ {t}, TickStep(u), ~At(u, "idle") PROVE Good
  BY <1>1, TickAdvances DEF OthersStay
<1>2. ASSUME NEW u \in Ticks, NEW b \in BOOLEAN, Begin(u, b) PROVE Good
  <2>1. UNCHANGED setup /\ At(u, "idle") /\ (UNCHANGED tick \/ Goes(u, "wait"))
    BY <1>2 DEF Begin
  <2>2. CASE u = t
    BY <1>0, <2>1, <2>2 DEF Goes, Tick, At
  <2>3. CASE u # t
    BY <1>0, <2>1, <2>3 DEF Goes
  <2> QED
    BY <2>2, <2>3
<1>3. ASSUME NEW u \in Ticks, Crash(u) PROVE Good
  <2>1. UNCHANGED setup /\ tick' = [tick EXCEPT ![u] = Idle]
    BY <1>3 DEF Crash, Leave
  <2> QED
    BY <1>0, <2>1, IdleIs
<1>4. ASSUME NEW s \in Symbols, NEW target \in {0, 1}, Approve(s, target) PROVE Good
  <2>1. tick'[t] = tick[t] \/ tick'[t] = Upset(tick[t])
    BY <1>4 DEF Approve
  <2>2. UNCHANGED setup
    BY <1>4 DEF Approve
  <2>3. \A k \in Tick : /\ Upset(k).at = k.at /\ Upset(k).next = k.next
                        /\ Upset(k).sweep = k.sweep
    BY DEF Upset, Tick
  <2> QED
    BY <1>0, <2>1, <2>2, <2>3
<1>5. ASSUME (\E s \in Symbols : Market(s)) \/ Switch \/ UNCHANGED vars PROVE Good
  <2>1. UNCHANGED <<setup, tick>>
    BY ONLY <1>5 DEF Market, Switch, vars
  <2> QED
    BY ONLY <2>1
<1>6. ASSUME NEW u \in Ticks, TickStep(u), At(u, "idle") PROVE Begin(u, FALSE)
  BY <1>6, IdleBegins
<1>7. setup.others \subseteq Symbols
  BY SetupIs
<1> QED
  BY <1>1, <1>2, <1>3, <1>4, <1>5, <1>6, <1>7 DEF Next

\* What the ranks of the places are, and in which order.
LEMMA RankIs ==
  ASSUME NEW l \in Nat, NEW k \in Tick, Within(k, l)
  PROVE  LET r == RankOf(k, l)
             c == Cardinality(Symbols)
             n == Cardinality(k.sweep)
         IN  /\ c \in Nat
             /\ \/ k.at = "idle" /\ r = 0
                \/ k.at = "loop" /\ r = l + 2 - k.next /\ k.next \in 1 .. l + 1
                \/ k.at = "sweep" /\ r = l + 2 + n /\ n \in 0 .. c
                \/ k.at = "count" /\ r = l + c + 3
                \/ k.at = "wait" /\ r = l + c + 4
<1>1. k.at \in Steps /\ k.sweep \in SUBSET Symbols
  BY DEF Tick
<1>2. Cardinality(k.sweep) \in 0 .. Cardinality(Symbols) /\ Cardinality(Symbols) \in Nat
  BY <1>1, Symbolic, SymbolsFinite
<1> QED
  BY ONLY l \in Nat, Within(k, l), <1>1, <1>2 DEF RankOf, Within, Steps

LEMMA RankBounds ==
  ASSUME NEW l \in Nat, NEW k \in Tick, Within(k, l)
  PROVE  /\ RankOf(k, l) \in 0 .. l + Cardinality(Symbols) + 4 /\ RankOf(k, l) \in Nat
         /\ RankOf(k, l) = 0 <=> k.at = "idle"
<1> DEFINE r == RankOf(k, l)
           c == Cardinality(Symbols)
           n == Cardinality(k.sweep)
<1>1. /\ c \in Nat
      /\ \/ k.at = "idle" /\ r = 0
         \/ k.at = "loop" /\ r = l + 2 - k.next /\ k.next \in 1 .. l + 1
         \/ k.at = "sweep" /\ r = l + 2 + n /\ n \in 0 .. c
         \/ k.at = "count" /\ r = l + c + 3
         \/ k.at = "wait" /\ r = l + c + 4
  BY RankIs
<1> HIDE DEF r, c, n
<1>2. r \in 0 .. l + c + 4 /\ r \in Nat /\ (r = 0 <=> k.at = "idle")
  BY ONLY l \in Nat, <1>1
<1> QED
  BY <1>2 DEF r, c

\* A tick that advances stays within the watchlist, and has less to do.
LEMMA RankFalls ==
  ASSUME NEW l \in Nat, NEW j \in Tick, NEW k \in Tick, Within(j, l), j.at # "idle",
         Advances(j, k, l)
  PROVE  Within(k, l) /\ RankOf(k, l) < RankOf(j, l)
<1> DEFINE r == RankOf(j, l)
           q == RankOf(k, l)
           c == Cardinality(Symbols)
           a == Cardinality(j.sweep)
           b == Cardinality(k.sweep)
<1>1. Within(k, l)
  BY DEF Within, Advances
<1>2. /\ c \in Nat
      /\ \/ j.at = "loop" /\ r = l + 2 - j.next /\ j.next \in 1 .. l + 1
         \/ j.at = "sweep" /\ r = l + 2 + a /\ a \in 0 .. c
         \/ j.at = "count" /\ r = l + c + 3
         \/ j.at = "wait" /\ r = l + c + 4
  BY RankIs
<1>3. \/ k.at = "idle" /\ q = 0
      \/ k.at = "loop" /\ q = l + 2 - k.next /\ k.next \in 1 .. l + 1
      \/ k.at = "sweep" /\ q = l + 2 + b /\ b \in 0 .. c
      \/ k.at = "count" /\ q = l + c + 3
      \/ k.at = "wait" /\ q = l + c + 4
  BY <1>1, RankIs
<1>4. ASSUME NEW s \in j.sweep, k.sweep = j.sweep \ {s} PROVE b = a - 1
  <2>1. j.sweep \in SUBSET Symbols
    BY DEF Tick
  <2>2. IsFiniteSet(j.sweep)
    BY <2>1, Symbolic
  <2> QED
    BY ONLY <1>4, <2>2, FS_RemoveElement
<1>5. \/ k.at = "idle"
      \/ j.at = "wait" /\ k.at = "count"
      \/ j.at = "count" /\ k.at = "sweep"
      \/ j.at = "sweep" /\ k.at = "sweep" /\ b = a - 1
      \/ j.at = "sweep" /\ k.at = "loop"
      \/ j.at = "loop" /\ k.at = "loop" /\ k.next = j.next + 1
  <2> HIDE DEF a, b
  <2> QED
    BY <1>4 DEF Advances
<1> HIDE DEF r, q, c, a, b
<1>6. q < r
  BY ONLY l \in Nat, j.at # "idle", <1>2, <1>3, <1>5
<1> QED
  BY <1>1, <1>6 DEF q, r

LEMMA NextShortens ==
  ASSUME IInv, NextInv, [Next]_vars
  PROVE  NextInv' /\ Shortens
<1>0. TypeOK /\ TypeOK'
  BY StepKeeps DEF IInv
<1> DEFINE l == Len(setup.watch)
<1>1. l \in Nat /\ Cardinality(Symbols) \in Nat
  BY <1>0, SetupIs, SymbolsFinite
<1> SUFFICES ASSUME NEW t \in Ticks
             PROVE  /\ Within(tick[t], l)'
                    /\ RankOf(tick[t], l) \in 0 .. l + Cardinality(Symbols) + 4
                    /\ RankOf(tick[t], l) = 0 <=> At(t, "idle")
                    /\ TickStep(t) /\ ~At(t, "idle")
                         => RankOf(tick[t], l)' < RankOf(tick[t], l)
                    /\ At(t, "idle") \/ RankOf(tick[t], l)' <= RankOf(tick[t], l)
  BY DEF NextInv, Shortens, Rank
<1> DEFINE j == tick[t]
           k == tick'[t]
           r == RankOf(j, l)
           q == RankOf(k, l)
<1>2. j \in Tick /\ k \in Tick /\ Within(j, l)
  BY <1>0 DEF TypeOK, NextInv
<1>3. r \in 0 .. l + Cardinality(Symbols) + 4 /\ r \in Nat /\ (r = 0 <=> j.at = "idle")
  BY <1>1, <1>2, RankBounds
<1>4. setup' = setup
  BY <1>0, OthersLeave, TickAdvances, IdleBegins DEF Begin
<1>5. RankOf(tick[t], l)' = q /\ Within(tick[t], l)' = Within(k, l)
  BY <1>4
<1>6. CASE TickStep(t) /\ j.at # "idle"
  <2>1. Within(k, l) /\ q < r
    BY <1>0, <1>1, <1>2, <1>6, TickAdvances, RankFalls DEF At
  <2>2. q \in Nat
    BY <1>1, <1>2, <2>1, RankBounds
  <2> HIDE DEF j, k, l, q, r
  <2>3. q <= r
    BY ONLY <1>3, <2>1, <2>2
  <2> USE DEF j, k, l, q, r
  <2> QED
    BY <1>3, <1>5, <2>1, <2>3 DEF At
<1>7. CASE ~TickStep(t) \/ j.at = "idle"
  <2>1. \/ k.at = j.at /\ k.next = j.next /\ k.sweep = j.sweep
        \/ k.at = "idle"
        \/ j.at = "idle" /\ k.at = "wait"
    <3>1. CASE ~TickStep(t)
      BY <1>0, <3>1, OthersLeave DEF At
    <3>2. CASE TickStep(t) /\ j.at = "idle"
      <4>1. UNCHANGED tick \/ Goes(t, "wait")
        BY <3>2, IdleBegins DEF At, Begin
      <4> QED
        BY <1>0, <1>2, <3>2, <4>1 DEF Goes, TypeOK, Tick
    <3> QED
      BY <1>7, <3>1, <3>2
  <2>2. Within(k, l)
    BY <1>2, <2>1 DEF Within
  <2>3. j.at = "idle" \/ q <= r
    <3>1. q = r \/ q = 0 \/ j.at = "idle"
      BY <2>1 DEF RankOf
    <3> HIDE DEF q, r
    <3> QED
      BY ONLY <1>3, <3>1
  <2> QED
    BY <1>3, <1>5, <1>7, <2>2, <2>3 DEF At
<1> QED
  BY <1>6, <1>7

\* A tick ends after at most Len(watch) + Cardinality(Symbols) + 4 steps of its
\* own once it has begun, whatever other ticks, approvals, the market and the
\* switch do in between (autonomous.py, tick).
THEOREM TicksAreBounded == Spec => [][Shortens]_vars
<1>1. Init => NextInv
  BY IdleIs DEF Init, NextInv, Within
<1>2. IInv /\ NextInv /\ [Next]_vars => NextInv' /\ [Shortens]_vars
  BY NextShortens
<1> QED
  BY <1>1, <1>2, Invariant, PTL DEF Spec

=============================================================================
