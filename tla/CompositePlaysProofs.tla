------------------------ MODULE CompositePlaysProofs ------------------------
(***************************************************************************)
(* Proofs about CompositePlays, for any plays, underlyings, ticks and      *)
(* deployments.                                                            *)
(***************************************************************************)
EXTENDS CompositePlays, FiniteSets, FiniteSetTheorems, TLAPS

-----------------------------------------------------------------------------
(* The inductive invariant.                                                *)

\* TypeOK but for the bound on the openings.
TypeInv ==
  /\ setup \in Setups
  /\ proposal \in [Plays -> {"none", "pending", "approved"}]
  /\ row \in [Plays -> RowStates]
  /\ approval \in [Plays -> Stages \cup {"none"}]
  /\ records \in [Ids -> Nat]
  /\ met \subseteq Ids
  /\ position \in [Plays -> Int]
  /\ due \in [Plays -> {"no", "stop", "gain"}]
  /\ tick \in [Ticks -> Tick]

\* Between its executes a tick is ready to scan; the rail lock, where it can be
\* used, lets one tick run.
TickInv ==
  /\ \A t \in Ticks : tick[t].at \notin Firing => tick[t].stage = "scan"
  /\ ~setup.infra => \A t, u \in Ticks : t = u \/ At(t, "idle") \/ At(u, "idle")

\* A play is fired by one tick, once, and by the approvals of its copy one after
\* another until one has recorded it: what is recorded, and who may still do it.
ByTick(p) == proposal[p] = "none" \/ \E t \in Ticks : At(t, "fire") /\ Play(t) = p
ByApproval(p) == proposal[p] # "approved" \/ approval[p] # "none"
One(b) == IF b THEN 1 ELSE 0

OpeningInv ==
  /\ \A t \in Ticks : At(t, "fire") => /\ proposal[Play(t)] # "none"
                                       /\ \A u \in Ticks \ {t} :
                                            ~(At(u, "fire") /\ Play(u) = Play(t))
  /\ \A p \in Plays : /\ approval[p] # "none" => proposal[p] = "approved"
                      /\ records[OpenId(p)] + One(ByTick(p)) + One(ByApproval(p)) <= 2

\* Who executes, and who is past the scan of id.
Parties == ({"tick"} \X Ticks) \cup ({"approval"} \X Plays)

On(x, id) ==
  \/ /\ x[1] = "tick" /\ tick[x[2]].at \in Firing /\ tick[x[2]].stage \in Past
     /\ Target(x[2]) = id
  \/ x[1] = "approval" /\ approval[x[2]] \in Past /\ OpenId(x[2]) = id

\* Unless two executes of an identifier met, it is recorded once at most, one of
\* them at most is past its scan, and while it is there is no record.
Apart(id) ==
  /\ records[id] <= 1
  /\ \A x \in Parties : On(x, id) => /\ records[id] = 0
                                     /\ \A y \in Parties \ {x} : ~On(y, id)

\* The closes, which ticks alone execute, meet only without the rail lock.
MetInv ==
  /\ \A id \in Ids \ met : Apart(id)
  /\ ~setup.infra => \A p \in Plays : CloseId(p) \notin met

\* A play is held as often as the records say, and beyond that for each leg
\* operation that executed its opening intents again; none is closed before it was
\* opened.
Extra(p) == position[p] - records[OpenId(p)] + records[CloseId(p)]

BookInv ==
  \A p \in Plays :
    /\ records[CloseId(p)] > 0 => records[OpenId(p)] > 0
    /\ 0 <= Extra(p) /\ Extra(p) <= records[LegOpId(p)]
    /\ ~setup.legops => Extra(p) = 0

\* A row, a sweep's list and a close speak of plays that were opened.
Acting == {"persist", "legop", "transition", "stop_close", "gain_close"}
Opened(p) == records[OpenId(p)] > 0

OpenedInv ==
  /\ \A p \in Plays : row[p] # "absent" => Opened(p)
  /\ \A t \in Ticks :
       /\ tick[t].at \in Acting => Opened(tick[t].play)
       /\ \A p \in tick[t].todo : Opened(p)
       /\ tick[t].at \in {"legop", "transition"} => setup.legops

IInv == TypeInv /\ TickInv /\ OpeningInv /\ MetInv /\ BookInv /\ OpenedInv

-----------------------------------------------------------------------------
LEMMA IdsApart ==
  \A p, q \in Plays :
    /\ OpenId(p) \in Ids /\ CloseId(p) \in Ids /\ LegOpId(p) \in Ids
    /\ OpenId(p) # CloseId(q) /\ OpenId(p) # LegOpId(q) /\ CloseId(p) # LegOpId(q)
    /\ OpenId(p) = OpenId(q) => p = q
    /\ CloseId(p) = CloseId(q) => p = q
BY DEF Ids, OpenId, CloseId, LegOpId

\* A play has been opened twice at most.
LEMMA OpenedTwice == IInv => \A p \in Plays : records[OpenId(p)] <= 2
<1> SUFFICES ASSUME IInv, NEW p \in Plays PROVE records[OpenId(p)] <= 2
  OBVIOUS
<1>1. records[OpenId(p)] + One(ByTick(p)) + One(ByApproval(p)) <= 2
  BY DEF IInv, OpeningInv
<1>2. records[OpenId(p)] \in Nat
  BY IdsApart DEF IInv, TypeInv
<1> QED
  BY <1>1, <1>2 DEF One

LEMMA IdleIs == Idle \in Tick /\ Idle.at = "idle" /\ Idle.stage = "scan" /\ Idle.todo = {}
<1>1. (CHOOSE p \in Plays : TRUE) \in Plays
  BY CompositePlaysAssumption
<1> QED
  BY <1>1 DEF Idle, Tick, Steps, Stages

\* An execute appends its record, once, and moves the position, or does nothing.
LEMMA Executes ==
  ASSUME TypeInv, NEW p \in Plays, NEW id \in Ids, NEW d \in Int, NEW stage,
         NEW a \in Answers, Execute(id, p, d, stage, a)
  PROVE  /\ records' \in [Ids -> Nat] /\ position' \in [Plays -> Int]
         /\ \A i \in Ids : records[i] <= records'[i]
         /\ a = "filled" => records'[id] > 0
         /\ \/ UNCHANGED bus
            \/ /\ a = "filled" /\ stage = "append"
               /\ records'[id] = records[id] + 1
               /\ \A i \in Ids \ {id} : records'[i] = records[i]
               /\ position'[p] = position[p] + d
               /\ \A q \in Plays \ {p} : position'[q] = position[q]
<1>0. records \in [Ids -> Nat] /\ position \in [Plays -> Int]
  BY DEF TypeInv
<1>1. CASE UNCHANGED bus
  <2>1. a = "filled" => records[id] > 0 \/ records'[id] = records[id] + 1
    BY <1>0 DEF Execute
  <2> QED
    BY <1>0, <1>1, <2>1 DEF bus
<1>2. CASE /\ a = "filled" /\ stage = "append"
           /\ records' = [records EXCEPT ![id] = @ + 1]
           /\ position' = [position EXCEPT ![p] = @ + d]
  BY <1>0, <1>2
<1> QED
  BY <1>1, <1>2 DEF Execute

-----------------------------------------------------------------------------
(* What a step of a tick does to the ticks.                                *)

\* Tick t moves on, and no other.
Moves(t, at, play, todo) ==
  /\ tick' \in [Ticks -> Tick]
  /\ tick'[t].at = at /\ tick'[t].stage = "scan"
  /\ tick'[t].play = play /\ tick'[t].todo = todo
  /\ \A u \in Ticks \ {t} : tick'[u] = tick[u]

LEMMA MovesTo ==
  ASSUME tick \in [Ticks -> Tick], NEW t \in Ticks, NEW k \in Tick, k.stage = "scan",
         tick' = [tick EXCEPT ![t] = k]
  PROVE  Moves(t, k.at, k.play, k.todo)
BY DEF Moves

LEMMA ToIdle ==
  ASSUME tick \in [Ticks -> Tick], NEW t \in Ticks, tick' = [tick EXCEPT ![t] = Idle]
  PROVE  Moves(t, "idle", Idle.play, {})
BY MovesTo, IdleIs DEF Moves

LEMMA GoesTo ==
  ASSUME tick \in [Ticks -> Tick], NEW t \in Ticks, NEW l \in Steps, Goes(t, l)
  PROVE  Moves(t, l, tick[t].play, tick[t].todo)
<1> DEFINE k == [tick[t] EXCEPT !.at = l, !.stage = "scan"]
<1>1. /\ k \in Tick /\ k.at = l /\ k.stage = "scan"
      /\ k.play = tick[t].play /\ k.todo = tick[t].todo
  BY DEF Tick, Stages
<1>2. tick' = [tick EXCEPT ![t] = k]
  BY DEF Goes
<1> HIDE DEF k
<1> QED
  BY <1>1, <1>2, MovesTo DEF Moves

\* Tick t is back from a play, which joins what this sweep closed, or not.
LEMMA BackTo ==
  ASSUME tick \in [Ticks -> Tick], NEW t \in Ticks, NEW l \in Steps, NEW b \in BOOLEAN,
         Back(t, l, b)
  PROVE  Moves(t, l, tick[t].play, tick[t].todo)
<1> DEFINE c == IF b THEN tick[t].closed \cup {tick[t].play} ELSE tick[t].closed
           k == [tick[t] EXCEPT !.at = l, !.stage = "scan", !.closed = c]
<1>1. c \in SUBSET Plays
  BY DEF Tick
<1>2. tick' = [tick EXCEPT ![t] = k]
  BY DEF Back, Play
<1> HIDE DEF c
<1>3. /\ k \in Tick /\ k.at = l /\ k.stage = "scan"
      /\ k.play = tick[t].play /\ k.todo = tick[t].todo
  BY <1>1 DEF Tick, Stages
<1> HIDE DEF k
<1> QED
  BY <1>2, <1>3, MovesTo DEF Moves

\* Tick t, which executes nothing, takes up a play of its list.
LEMMA TakesUp ==
  ASSUME TypeInv, TickInv, NEW t \in Ticks, NEW l \in Steps, NEW p \in Plays,
         tick[t].at \notin Firing,
         tick' = [tick EXCEPT ![t].at = l, ![t].play = p, ![t].todo = @ \ {p}]
  PROVE  Moves(t, l, p, tick[t].todo \ {p})
<1> DEFINE k == [tick[t] EXCEPT !.at = l, !.play = p, !.todo = tick[t].todo \ {p}]
<1>0. tick[t] \in Tick /\ tick[t].stage = "scan"
  BY DEF TypeInv, TickInv
<1>1. /\ k \in Tick /\ k.at = l /\ k.stage = "scan"
      /\ k.play = p /\ k.todo = tick[t].todo \ {p}
  BY <1>0 DEF Tick
<1>2. tick' = [tick EXCEPT ![t] = k]
  OBVIOUS
<1> HIDE DEF k
<1> QED
  BY <1>1, <1>2, MovesTo DEF Moves, TypeInv

LEMMA OriginateMoves ==
  ASSUME TypeInv, TickInv, NEW t \in Ticks, NEW p \in Plays, Originate(t, p)
  PROVE  Moves(t, "fire", p, tick[t].todo)
<1> DEFINE k == [tick[t] EXCEPT !.at = "fire", !.play = p]
<1>1. tick[t] \in Tick /\ tick[t].stage = "scan" /\ "fire" \in Steps
  BY DEF Originate, TypeInv, TickInv, At, Firing, Steps
<1>2. k \in Tick /\ k.at = "fire" /\ k.stage = "scan" /\ k.play = p /\ k.todo = tick[t].todo
  BY <1>1 DEF Tick
<1>3. tick' = [tick EXCEPT ![t] = k]
  BY DEF Originate
<1> HIDE DEF k
<1> QED
  BY <1>2, <1>3, MovesTo DEF Moves, TypeInv

LEMMA SweepMoves ==
  ASSUME TypeInv, NEW t \in Ticks, BeginSweep(t)
  PROVE  Moves(t, "stop", Idle.play, ListOpen)
<1> DEFINE k == [Idle EXCEPT !.at = "stop", !.todo = ListOpen]
<1>1. /\ k \in Tick /\ k.at = "stop" /\ k.stage = "scan"
      /\ k.play = Idle.play /\ k.todo = ListOpen
  BY IdleIs DEF Idle, Tick, Steps, ListOpen
<1>2. tick' = [tick EXCEPT ![t] = k]
  BY DEF BeginSweep
<1> HIDE DEF k
<1> QED
  BY <1>1, <1>2, MovesTo DEF Moves, TypeInv

LEMMA HoldMoves ==
  ASSUME TypeInv, TickInv, NEW t \in Ticks, NEW p \in Plays, Hold(t, p)
  PROVE  Moves(t, tick[t].at, tick[t].play, tick[t].todo \ {p})
<1> DEFINE k == [tick[t] EXCEPT !.todo = tick[t].todo \ {p}]
<1>1. tick[t].stage = "scan"
  BY DEF Hold, TickInv, At, Firing
<1>2. /\ k \in Tick /\ k.at = tick[t].at /\ k.stage = "scan"
      /\ k.play = tick[t].play /\ k.todo = tick[t].todo \ {p}
  BY <1>1 DEF Tick, TypeInv
<1>3. tick' = [tick EXCEPT ![t] = k]
  BY DEF Hold
<1> HIDE DEF k
<1> QED
  BY <1>2, <1>3, MovesTo DEF Moves, TypeInv

LEMMA EndStopMoves ==
  ASSUME TypeInv, TickInv, NEW t \in Ticks, EndStop(t)
  PROVE  \/ Moves(t, "gain", tick[t].play, ListOpen \ tick[t].closed)
         \/ Moves(t, "idle", Idle.play, {})
<1> USE DEF TypeInv
<1> DEFINE k == [tick[t] EXCEPT !.at = "gain", !.todo = ListOpen \ tick[t].closed]
<1>1. /\ tick[t] \in Tick /\ tick[t].stage = "scan" /\ "gain" \in Steps
      /\ ListOpen \ tick[t].closed \in SUBSET Plays
  BY DEF EndStop, TickInv, At, Firing, Steps, ListOpen
<1>2. /\ k \in Tick /\ k.at = "gain" /\ k.stage = "scan"
      /\ k.play = tick[t].play /\ k.todo = ListOpen \ tick[t].closed
  BY <1>1 DEF Tick
<1>3. tick' = [tick EXCEPT ![t] = k] \/ tick' = [tick EXCEPT ![t] = Idle]
  BY DEF EndStop
<1> HIDE DEF k
<1> QED
  BY <1>2, <1>3, MovesTo, ToIdle DEF Moves

\* A tick that goes on with its execute goes through its stages.
LEMMA StagesGo ==
  ASSUME TypeInv, NEW t \in Ticks, GoesOn(t)
  PROVE  /\ tick' \in [Ticks -> Tick] /\ tick[t].at \in Firing
         /\ <<tick[t].stage, tick'[t].stage>> \in {<<"scan", "fill">>, <<"fill", "append">>}
         /\ tick'[t].at = tick[t].at /\ tick'[t].play = tick[t].play
         /\ tick'[t].todo = tick[t].todo
         /\ \A u \in Ticks \ {t} : tick'[u] = tick[u]
<1>1. PICK next \in Past : /\ Advances(Target(t), tick[t].stage, next)
                           /\ tick' = [tick EXCEPT ![t].stage = next]
  BY DEF GoesOn
<1>2. tick[t].at \in Firing /\ next \in Stages
  BY DEF GoesOn, Past, Stages
<1>3. <<tick[t].stage, next>> \in {<<"scan", "fill">>, <<"fill", "append">>}
  BY <1>1 DEF Advances
<1> DEFINE k == [tick[t] EXCEPT !.stage = next]
<1>4. /\ k \in Tick /\ k.at = tick[t].at /\ k.stage = next
      /\ k.play = tick[t].play /\ k.todo = tick[t].todo
  BY <1>2 DEF TypeInv, Tick
<1>5. tick' = [tick EXCEPT ![t] = k]
  BY <1>1
<1> HIDE DEF k
<1>6. tick \in [Ticks -> Tick]
  BY DEF TypeInv
<1> QED
  BY <1>2, <1>3, <1>4, <1>5, <1>6

-----------------------------------------------------------------------------
(* The parts of the invariant.                                             *)

LEMMA TickKept ==
  ASSUME TypeInv, TickInv, UNCHANGED setup, NEW t \in Ticks, NEW at, NEW play, NEW todo,
         Moves(t, at, play, todo), at = "idle" \/ ~At(t, "idle") \/ Admitted(t)
  PROVE  TickInv'
<1>1. \A u \in Ticks : tick'[u].at \notin Firing => tick'[u].stage = "scan"
  BY DEF TickInv, Moves
<1>2. ASSUME ~setup.infra, NEW u \in Ticks, NEW v \in Ticks, u # v
      PROVE  tick'[u].at = "idle" \/ tick'[v].at = "idle"
  <2>1. CASE u # t /\ v # t
    BY <1>2, <2>1 DEF TickInv, Moves, At
  <2>2. CASE u = t \/ v = t
    <3>1. \A w \in Ticks \ {t} : at = "idle" \/ At(w, "idle")
      BY <1>2 DEF TickInv, Admitted
    <3> QED
      BY <1>2, <2>2, <3>1 DEF Moves, At
  <2> QED
    BY <2>1, <2>2
<1> QED
  BY <1>1, <1>2 DEF TickInv, At

\* A tick that does not go to fire leaves the openings as they are, or appends the
\* record of the one that it has fired.
LEMMA OpeningKept ==
  ASSUME TypeInv, OpeningInv, UNCHANGED <<proposal, approval>>,
         NEW t \in Ticks, NEW at, NEW play, NEW todo, Moves(t, at, play, todo), at # "fire",
         \A p \in Plays :
           \/ records'[OpenId(p)] = records[OpenId(p)]
           \/ At(t, "fire") /\ Play(t) = p /\ records'[OpenId(p)] = records[OpenId(p)] + 1
  PROVE  OpeningInv'
<1>1. \A u \in Ticks : At(u, "fire")' => u # t /\ At(u, "fire") /\ Play(u)' = Play(u)
  BY DEF Moves, At, Play
<1>2. ASSUME NEW p \in Plays
      PROVE  /\ ByTick(p)' => ByTick(p)
             /\ At(t, "fire") /\ Play(t) = p => ByTick(p) /\ ~ByTick(p)'
  BY <1>1 DEF ByTick, OpeningInv
<1>3. ASSUME NEW p \in Plays
      PROVE  records'[OpenId(p)] + One(ByTick(p)') + One(ByApproval(p)') <= 2
  <2>1. ByApproval(p)' = ByApproval(p)
    BY DEF ByApproval
  <2>2. records[OpenId(p)] + One(ByTick(p)) + One(ByApproval(p)) <= 2 /\ records[OpenId(p)] \in Nat
    BY IdsApart DEF OpeningInv, TypeInv
  <2>3. One(ByApproval(p)) \in {0, 1}
    BY DEF One
  <2>4. CASE records'[OpenId(p)] = records[OpenId(p)]
    BY <1>2, <2>1, <2>2, <2>3, <2>4 DEF One
  <2>5. CASE /\ At(t, "fire") /\ Play(t) = p
             /\ records'[OpenId(p)] = records[OpenId(p)] + 1
    BY <1>2, <2>1, <2>2, <2>3, <2>5 DEF One
  <2> QED
    BY <2>4, <2>5
<1>4. \A u \in Ticks : At(u, "fire")' =>
        /\ proposal'[Play(u)'] # "none"
        /\ \A v \in Ticks \ {u} : ~(At(v, "fire")' /\ Play(v)' = Play(u)')
  BY <1>1 DEF OpeningInv
<1>5. \A p \in Plays : approval'[p] # "none" => proposal'[p] = "approved"
  BY DEF OpeningInv
<1> QED
  BY <1>3, <1>4, <1>5 DEF OpeningInv, One

LEMMA UnderWayIs ==
  ASSUME NEW id, NEW x \in Parties, On(x, id)
  PROVE  UnderWay(id)
BY DEF On, UnderWay, Parties

LEMMA TargetIs ==
  ASSUME TypeInv, NEW t \in Ticks
  PROVE  /\ Play(t) \in Plays /\ Target(t) \in Ids
         /\ tick[t].at \in Firing =>
              \/ At(t, "fire") /\ Target(t) = OpenId(Play(t))
              \/ At(t, "legop") /\ Target(t) = LegOpId(Play(t))
              \/ (At(t, "stop_close") \/ At(t, "gain_close")) /\ Target(t) = CloseId(Play(t))
<1>1. Play(t) \in Plays
  BY DEF TypeInv, Tick, Play
<1> QED
  BY <1>1, IdsApart DEF Target, At, Firing

\* While one tick moves the others execute what they did, and so do the approvals.
LEMMA OthersOfTick ==
  ASSUME NEW t \in Ticks, UNCHANGED approval, \A u \in Ticks \ {t} : tick'[u] = tick[u]
  PROVE  /\ <<"tick", t>> \in Parties
         /\ \A y \in Parties \ {<<"tick", t>>}, id \in Ids : On(y, id)' => On(y, id)
<1>1. <<"tick", t>> \in Parties
  BY DEF Parties
<1>2. ASSUME NEW y \in Parties \ {<<"tick", t>>}, NEW id \in Ids, On(y, id)'
      PROVE  On(y, id)
  <2>1. CASE y[1] = "tick"
    <3>1. y[2] \in Ticks \ {t}
      BY <2>1 DEF Parties
    <3>2. tick'[y[2]] = tick[y[2]]
      BY <3>1
    <3> QED
      BY <1>2, <2>1, <3>2 DEF On, Target, At, Play
  <2>2. CASE y[1] # "tick"
    BY <1>2, <2>2 DEF On
  <2> QED
    BY <2>1, <2>2
<1> QED
  BY <1>1, <1>2

LEMMA OthersOfApproval ==
  ASSUME NEW p \in Plays, UNCHANGED tick, \A q \in Plays \ {p} : approval'[q] = approval[q]
  PROVE  /\ <<"approval", p>> \in Parties
         /\ \A y \in Parties \ {<<"approval", p>>}, id \in Ids : On(y, id)' => On(y, id)
<1>1. <<"approval", p>> \in Parties
  BY DEF Parties
<1>2. ASSUME NEW y \in Parties \ {<<"approval", p>>}, NEW id \in Ids, On(y, id)'
      PROVE  On(y, id)
  <2>1. CASE y[1] = "approval"
    <3>1. y[2] \in Plays \ {p}
      BY <2>1 DEF Parties
    <3> QED
      BY <1>2, <2>1, <3>1 DEF On
  <2>2. CASE y[1] # "approval"
    BY <1>2, <2>2 DEF On, Target, At, Play
  <2> QED
    BY <2>1, <2>2
<1> QED
  BY <1>1, <1>2

\* Nobody new is past a scan, and nothing is recorded.
LEMMA MetStays ==
  ASSUME MetInv, UNCHANGED <<setup, met, records>>,
         \A x \in Parties, id \in Ids : On(x, id)' => On(x, id)
  PROVE  MetInv'
<1>1. ASSUME NEW id \in Ids \ met PROVE Apart(id)'
  <2>1. Apart(id)
    BY DEF MetInv
  <2> QED
    BY <2>1 DEF Apart
<1> QED
  BY <1>1 DEF MetInv

\* An execute of k by x is over.
LEMMA MetEnds ==
  ASSUME TypeInv, MetInv, UNCHANGED <<setup, met>>, NEW x \in Parties, NEW k \in Ids,
         NEW p \in Plays, NEW d \in Int, NEW stage, NEW a \in Answers,
         Execute(k, p, d, stage, a), stage = "append" => On(x, k),
         \A id \in Ids : ~On(x, id)',
         \A y \in Parties \ {x}, id \in Ids : On(y, id)' => On(y, id)
  PROVE  MetInv'
<1>1. CASE UNCHANGED bus
  BY <1>1, MetStays DEF bus
<1>2. CASE /\ On(x, k) /\ records'[k] = records[k] + 1
           /\ \A i \in Ids \ {k} : records'[i] = records[i]
  <2>1. ASSUME NEW id \in Ids \ met PROVE Apart(id)'
    <3>1. Apart(id)
      BY DEF MetInv
    <3>2. CASE id = k
      <4>1. records[k] = 0 /\ \A y \in Parties \ {x} : ~On(y, k)
        BY <1>2, <3>1, <3>2 DEF Apart
      <4>2. \A y \in Parties : ~On(y, k)'
        BY <4>1
      <4>3. records'[k] = 1
        BY <1>2, <4>1
      <4> QED
        BY <3>2, <4>2, <4>3 DEF Apart
    <3>3. CASE id # k
      <4>1. records'[id] = records[id] /\ \A y \in Parties : On(y, id)' => On(y, id)
        BY <1>2, <3>3
      <4> QED
        BY <3>1, <4>1 DEF Apart
    <3> QED
      BY <3>2, <3>3
  <2> QED
    BY <2>1 DEF MetInv
<1> QED
  BY <1>1, <1>2, Executes

\* An execute of k by x goes on.
LEMMA MetGoes ==
  ASSUME TypeInv, MetInv, UNCHANGED <<setup, records>>, NEW x \in Parties, NEW k \in Ids,
         NEW stage, NEW next, Advances(k, stage, next), stage = "fill" => On(x, k),
         \A id \in Ids \ {k} : ~On(x, id)',
         \A y \in Parties \ {x}, id \in Ids : On(y, id)' => On(y, id),
         ~setup.infra /\ UnderWay(k) => stage # "scan" \/ \A p \in Plays : k # CloseId(p)
  PROVE  MetInv'
<1>1. CASE stage = "fill" /\ UNCHANGED met
  <2>1. \A y \in Parties, id \in Ids : On(y, id)' => On(y, id)
    BY <1>1
  <2> QED
    BY <1>1, <2>1, MetStays
<1>2. CASE /\ stage = "scan" /\ records[k] = 0
           /\ met' = IF UnderWay(k) THEN met \cup {k} ELSE met
  <2>1. ASSUME NEW id \in Ids \ met' PROVE Apart(id)'
    <3>1. Apart(id)
      BY <1>2, <2>1 DEF MetInv
    <3>2. CASE id = k
      <4>1. ~UnderWay(k)
        BY <1>2, <2>1, <3>2
      <4>2. \A y \in Parties \ {x} : ~On(y, k)'
        BY <4>1, UnderWayIs
      <4> QED
        BY <1>2, <3>2, <4>2 DEF Apart
    <3>3. CASE id # k
      <4>1. \A y \in Parties : On(y, id)' => On(y, id)
        BY <3>3
      <4> QED
        BY <3>1, <4>1 DEF Apart
    <3> QED
      BY <3>2, <3>3
  <2>2. ASSUME ~setup.infra, NEW p \in Plays PROVE CloseId(p) \notin met'
    BY <1>2, <2>2 DEF MetInv
  <2> QED
    BY <2>1, <2>2 DEF MetInv
<1> QED
  BY <1>1, <1>2 DEF Advances, Scan

\* Tick t moves on: it is past no scan.
LEMMA NotPast ==
  ASSUME NEW t \in Ticks, NEW at, NEW play, NEW todo, Moves(t, at, play, todo)
  PROVE  \A id : ~On(<<"tick", t>>, id)'
BY DEF On, Moves, Past

-----------------------------------------------------------------------------
(* The book.                                                               *)

LEMMA BookKept ==
  ASSUME BookInv, UNCHANGED setup, UNCHANGED bus
  PROVE  BookInv'
BY DEF BookInv, Extra, bus

\* The record of a play that nobody executes stays.
LEMMA BookTypes ==
  ASSUME TypeInv, NEW p \in Plays
  PROVE  /\ position[p] \in Int /\ records[OpenId(p)] \in Nat
         /\ records[CloseId(p)] \in Nat /\ records[LegOpId(p)] \in Nat
BY IdsApart DEF TypeInv

LEMMA BookOpens ==
  ASSUME TypeInv, BookInv, NEW p \in Plays, NEW stage, NEW a \in Answers, UNCHANGED setup,
         Execute(OpenId(p), p, 1, stage, a)
  PROVE  BookInv'
<1>1. CASE UNCHANGED bus
  BY <1>1, BookKept
<1>2. CASE /\ records'[OpenId(p)] = records[OpenId(p)] + 1
           /\ \A i \in Ids \ {OpenId(p)} : records'[i] = records[i]
           /\ position'[p] = position[p] + 1
           /\ \A q \in Plays \ {p} : position'[q] = position[q]
  <2>1. \A q \in Plays : /\ records'[CloseId(q)] = records[CloseId(q)]
                         /\ records'[LegOpId(q)] = records[LegOpId(q)]
                         /\ records'[OpenId(q)] = IF q = p THEN records[OpenId(q)] + 1
                                                           ELSE records[OpenId(q)]
                         /\ position'[q] = IF q = p THEN position[q] + 1 ELSE position[q]
    BY <1>2, IdsApart
  <2>2. \A q \in Plays : Extra(q)' = Extra(q)
    BY <2>1, BookTypes DEF Extra
  <2> QED
    BY <2>1, <2>2, BookTypes DEF BookInv
<1> QED
  BY <1>1, <1>2, Executes, IdsApart

LEMMA BookCloses ==
  ASSUME TypeInv, BookInv, NEW p \in Plays, NEW stage, NEW a \in Answers, UNCHANGED setup,
         Opened(p), Execute(CloseId(p), p, -1, stage, a)
  PROVE  BookInv'
<1>1. CASE UNCHANGED bus
  BY <1>1, BookKept
<1>2. CASE /\ records'[CloseId(p)] = records[CloseId(p)] + 1
           /\ \A i \in Ids \ {CloseId(p)} : records'[i] = records[i]
           /\ position'[p] = position[p] + (-1)
           /\ \A q \in Plays \ {p} : position'[q] = position[q]
  <2>1. \A q \in Plays : /\ records'[OpenId(q)] = records[OpenId(q)]
                         /\ records'[LegOpId(q)] = records[LegOpId(q)]
                         /\ records'[CloseId(q)] = IF q = p THEN records[CloseId(q)] + 1
                                                            ELSE records[CloseId(q)]
                         /\ position'[q] = IF q = p THEN position[q] - 1 ELSE position[q]
    BY <1>2, IdsApart, BookTypes
  <2>2. \A q \in Plays : Extra(q)' = Extra(q)
    BY <2>1, BookTypes DEF Extra
  <2> QED
    BY <2>1, <2>2, BookTypes DEF BookInv, Opened
<1> QED
  BY <1>1, <1>2, Executes, IdsApart

LEMMA BookLegs ==
  ASSUME TypeInv, BookInv, NEW p \in Plays, NEW stage, NEW a \in Answers, UNCHANGED setup,
         setup.legops, Execute(LegOpId(p), p, 1, stage, a)
  PROVE  BookInv'
<1>1. CASE UNCHANGED bus
  BY <1>1, BookKept
<1>2. CASE /\ records'[LegOpId(p)] = records[LegOpId(p)] + 1
           /\ \A i \in Ids \ {LegOpId(p)} : records'[i] = records[i]
           /\ position'[p] = position[p] + 1
           /\ \A q \in Plays \ {p} : position'[q] = position[q]
  <2>1. \A q \in Plays : /\ records'[OpenId(q)] = records[OpenId(q)]
                         /\ records'[CloseId(q)] = records[CloseId(q)]
                         /\ records'[LegOpId(q)] = IF LegOpId(q) = LegOpId(p)
                              THEN records[LegOpId(q)] + 1 ELSE records[LegOpId(q)]
                         /\ position'[q] = IF q = p THEN position[q] + 1 ELSE position[q]
    BY <1>2, IdsApart
  <2>2. \A q \in Plays : Extra(q)' = IF q = p THEN Extra(q) + 1 ELSE Extra(q)
    BY <2>1, BookTypes DEF Extra
  <2>3. \A q \in Plays : Extra(q) \in Int
    BY BookTypes DEF Extra
  <2> QED
    BY <2>1, <2>2, <2>3, BookTypes DEF BookInv
<1> QED
  BY <1>1, <1>2, Executes, IdsApart

-----------------------------------------------------------------------------
(* The invariant is inductive.                                             *)

\* What was opened stays so: a step that touches no row and moves one tick on.
LEMMA OpenedKept ==
  ASSUME OpenedInv, \A p \in Plays : Opened(p) => Opened(p)', UNCHANGED <<setup, row>>,
         NEW t \in Ticks, NEW at, NEW play \in Plays, NEW todo \in SUBSET Plays,
         Moves(t, at, play, todo), \A u \in Ticks : tick[u] \in Tick,
         at \in Acting => Opened(play)',
         \A p \in todo : Opened(p)',
         at \in {"legop", "transition"} => setup.legops
  PROVE  OpenedInv'
<1>1. \A p \in Plays : row'[p] # "absent" => Opened(p)'
  BY DEF OpenedInv
<1>2. \A u \in Ticks \ {t} : /\ tick'[u] = tick[u] /\ tick[u].play \in Plays
                             /\ tick[u].todo \in SUBSET Plays
  BY DEF Moves, Tick
<1>3. /\ tick'[t].at = at /\ tick'[t].play = play /\ tick'[t].todo = todo
  BY DEF Moves
<1>4. ASSUME NEW u \in Ticks
      PROVE  /\ tick'[u].at \in Acting => records'[OpenId(tick'[u].play)] > 0
             /\ \A p \in tick'[u].todo : records'[OpenId(p)] > 0
             /\ tick'[u].at \in {"legop", "transition"} => setup'.legops
  <2>1. CASE u = t
    BY <1>3, <2>1 DEF Opened
  <2>2. CASE u # t
    BY <1>2, <2>2 DEF OpenedInv, Opened
  <2> QED
    BY <2>1, <2>2
<1> QED
  BY <1>1, <1>4 DEF OpenedInv, Opened

\* A step that moves one tick on and executes nothing.
LEMMA QuietKeeps ==
  ASSUME IInv, UNCHANGED <<setup, proposal, approval, met>>, UNCHANGED bus,
         NEW t \in Ticks, NEW at, NEW play, NEW todo, Moves(t, at, play, todo), at # "fire",
         at = "idle" \/ ~At(t, "idle") \/ Admitted(t)
  PROVE  TickInv' /\ OpeningInv' /\ MetInv' /\ BookInv'
<1> USE DEF IInv
<1>1. TickInv'
  BY TickKept
<1>2. OpeningInv'
  BY OpeningKept DEF bus
<1>3. \A x \in Parties, id \in Ids : On(x, id)' => On(x, id)
  BY OthersOfTick, NotPast DEF Moves
<1>4. MetInv'
  BY <1>3, MetStays DEF bus
<1> QED
  BY <1>1, <1>2, <1>4, BookKept

\* A step that ends the execute of a tick.
LEMMA FiringKeeps ==
  ASSUME IInv, UNCHANGED <<setup, proposal, approval, met>>,
         NEW t \in Ticks, tick[t].at \in Firing, NEW d \in Int, NEW a \in Answers,
         Execute(Target(t), Play(t), d, tick[t].stage, a),
         NEW at, NEW play, NEW todo, Moves(t, at, play, todo), at # "fire"
  PROVE  /\ TickInv' /\ OpeningInv' /\ MetInv'
         /\ records' \in [Ids -> Nat] /\ position' \in [Plays -> Int]
         /\ \A p \in Plays : Opened(p) => Opened(p)'
         /\ a = "filled" => records'[Target(t)] > 0
<1> USE DEF IInv
<1>1. TickInv'
  BY TickKept DEF At, Firing
<1>2. Play(t) \in Plays /\ Target(t) \in Ids
  BY TargetIs
<1>3. /\ records' \in [Ids -> Nat] /\ position' \in [Plays -> Int]
      /\ \A i \in Ids : records[i] <= records'[i]
      /\ a = "filled" => records'[Target(t)] > 0
      /\ \/ UNCHANGED bus
         \/ /\ records'[Target(t)] = records[Target(t)] + 1
            /\ \A i \in Ids \ {Target(t)} : records'[i] = records[i]
  BY <1>2, Executes
<1>4. \A p \in Plays :
        \/ records'[OpenId(p)] = records[OpenId(p)]
        \/ At(t, "fire") /\ Play(t) = p /\ records'[OpenId(p)] = records[OpenId(p)] + 1
  <2> TAKE p \in Plays
  <2>1. Target(t) = OpenId(p) => At(t, "fire") /\ Play(t) = p
    BY <1>2, TargetIs, IdsApart
  <2> QED
    BY <1>3, <2>1, IdsApart DEF bus
<1>5. OpeningInv'
  BY <1>4, OpeningKept
<1>6. tick[t].stage = "append" => On(<<"tick", t>>, Target(t))
  BY DEF On, Past
<1>7. MetInv'
  BY <1>2, <1>6, MetEnds, OthersOfTick, NotPast DEF Moves
<1>8. \A p \in Plays : Opened(p) => Opened(p)'
  BY <1>3, BookTypes, IdsApart DEF Opened
<1> QED
  BY <1>1, <1>3, <1>5, <1>7, <1>8

LEMMA StepKeeps == IInv /\ [Next]_vars => IInv'
<1> SUFFICES ASSUME IInv, [Next]_vars PROVE IInv'
  OBVIOUS
<1> DEFINE Others == UNCHANGED <<setup, proposal, approval, met>> /\ UNCHANGED bus
           Parts == TickInv' /\ OpeningInv' /\ MetInv' /\ BookInv'
<1>a. TypeInv /\ TickInv /\ OpeningInv /\ MetInv /\ BookInv /\ OpenedInv
  BY DEF IInv
<1>b. \A t \in Ticks : /\ tick[t] \in Tick /\ tick[t].at \in Steps /\ tick[t].stage \in Stages
                       /\ tick[t].play \in Plays /\ tick[t].todo \in SUBSET Plays
  BY <1>a DEF TypeInv, Tick
<1>c. ListOpen \in SUBSET Plays /\ \A p \in ListOpen : Opened(p)
  BY <1>a DEF ListOpen, OpenedInv
<1>d. tick \in [Ticks -> Tick]
  BY <1>a DEF TypeInv
<1>e. Idle.play \in Plays
  BY IdleIs DEF Tick
<1>f. UNCHANGED bus => UNCHANGED records /\ UNCHANGED position
  BY DEF bus
<1>g. UNCHANGED records => \A p \in Plays : Opened(p) => Opened(p)'
  BY DEF Opened
\* A step of a tick that executes nothing and writes no row.
<1>q. ASSUME NEW t \in Ticks, NEW at, NEW play \in Plays, NEW todo \in SUBSET Plays,
             Moves(t, at, play, todo), Others, UNCHANGED <<row, due>>, at # "fire",
             at = "idle" \/ ~At(t, "idle") \/ Admitted(t),
             at \in Acting => Opened(play), \A p \in todo : Opened(p),
             at \in {"legop", "transition"} => setup.legops
      PROVE  IInv'
  <2>1. Parts
    BY <1>q, QuietKeeps
  <2>2. TypeInv'
    BY <1>a, <1>f, <1>q DEF TypeInv, Moves
  <2>3. OpenedInv'
    <3>1. /\ \A p \in Plays : Opened(p) => Opened(p)'
          /\ at \in Acting => Opened(play)'
          /\ \A p \in todo : Opened(p)'
      BY <1>f, <1>g, <1>q
    <3> QED
      BY <1>a, <1>b, <1>q, <3>1, OpenedKept
  <2> QED
    BY <2>1, <2>2, <2>3 DEF IInv
\* A step of a tick that ends an execute.
<1>x. ASSUME NEW t \in Ticks, tick[t].at \in Firing, NEW d \in Int, NEW a \in Answers,
             Execute(Target(t), Play(t), d, tick[t].stage, a), BookInv',
             UNCHANGED <<setup, proposal, row, approval, met, due>>,
             NEW at, NEW play \in Plays, Moves(t, at, play, {}) \/ Moves(t, at, play, tick[t].todo),
             at # "fire",
             at \in Acting => records'[OpenId(play)] > 0,
             at \in {"legop", "transition"} => setup.legops
      PROVE  IInv'
  <2>1. PICK todo \in {{}, tick[t].todo} : Moves(t, at, play, todo)
    BY <1>x
  <2>2. /\ TickInv' /\ OpeningInv' /\ MetInv'
        /\ records' \in [Ids -> Nat] /\ position' \in [Plays -> Int]
        /\ \A p \in Plays : Opened(p) => Opened(p)'
    BY <1>x, <2>1, FiringKeeps
  <2>3. TypeInv'
    BY <1>a, <1>x, <2>1, <2>2 DEF TypeInv, Moves
  <2>4. OpenedInv'
    <3>1. /\ todo \in SUBSET Plays /\ \A p \in todo : Opened(p)'
      BY <1>a, <1>b, <2>2 DEF OpenedInv
    <3>2. at \in Acting => Opened(play)'
      BY <1>x DEF Opened
    <3> QED
      BY <1>a, <1>b, <1>x, <2>1, <2>2, <3>1, <3>2, OpenedKept
  <2> QED
    BY <1>x, <2>2, <2>3, <2>4 DEF IInv
<1>1. ASSUME NEW t \in Ticks, NEW p \in Plays, Originate(t, p) PROVE IInv'
  <2>1. Moves(t, "fire", p, tick[t].todo)
    BY <1>a, <1>1, OriginateMoves
  <2>2. /\ UNCHANGED <<setup, row, approval, met, due>> /\ UNCHANGED bus
        /\ proposal[p] = "none" /\ proposal' = [proposal EXCEPT ![p] = "pending"]
        /\ At(t, "idle") /\ Admitted(t)
    BY <1>1 DEF Originate
  <2>3. TypeInv'
    BY <1>a, <1>f, <2>1, <2>2 DEF TypeInv, Moves
  <2>4. TickInv'
    BY <1>a, <2>1, <2>2, TickKept
  <2>5. OpeningInv'
    <3>1. /\ proposal'[p] = "pending" /\ \A q \in Plays \ {p} : proposal'[q] = proposal[q]
      BY <1>a, <2>2 DEF TypeInv
    <3>2. /\ At(t, "fire")' /\ Play(t)' = p
          /\ \A u \in Ticks \ {t} : At(u, "fire")' = At(u, "fire") /\ Play(u)' = Play(u)
      BY <2>1 DEF Moves, At, Play
    <3>3. ~At(t, "fire")
      BY <2>2 DEF At
    <3>4. \A u \in Ticks : ~(At(u, "fire") /\ Play(u) = p)
      BY <1>a, <2>2 DEF OpeningInv
    <3>5. \A q \in Plays : ByTick(q)' = ByTick(q) /\ ByApproval(q)' = ByApproval(q)
      <4> TAKE q \in Plays
      <4>1. CASE q = p
        BY <2>2, <3>1, <3>2, <4>1 DEF ByTick, ByApproval
      <4>2. CASE q # p
        <5>1. \A u \in Ticks : At(u, "fire")' /\ Play(u)' = q <=> At(u, "fire") /\ Play(u) = q
          BY <3>2, <3>3, <4>2
        <5> QED
          BY <2>2, <3>1, <4>2, <5>1 DEF ByTick, ByApproval
      <4> QED
        BY <4>1, <4>2
    <3>6. \A q \in Plays : /\ approval'[q] # "none" => proposal'[q] = "approved"
                           /\ records'[OpenId(q)] + One(ByTick(q)') + One(ByApproval(q)') <= 2
      BY <1>a, <1>f, <2>2, <3>1, <3>5 DEF OpeningInv
    <3>7. \A u \in Ticks : At(u, "fire")' =>
            /\ proposal'[Play(u)'] # "none"
            /\ \A v \in Ticks \ {u} : ~(At(v, "fire")' /\ Play(v)' = Play(u)')
      <4> TAKE u \in Ticks
      <4>1. CASE u = t
        BY <3>1, <3>2, <3>4, <4>1
      <4>2. CASE u # t
        <5>1. \A w \in Ticks : Play(w) \in Plays
          BY <1>b DEF Play
        <5> QED
          BY <1>a, <3>1, <3>2, <3>4, <4>2, <5>1 DEF OpeningInv
      <4> QED
        BY <4>1, <4>2
    <3> QED
      BY <3>6, <3>7 DEF OpeningInv, One
  <2>6. MetInv'
    <3>1. \A x \in Parties, id \in Ids : On(x, id)' => On(x, id)
      BY <2>1, <2>2, OthersOfTick, NotPast DEF Moves
    <3> QED
      BY <1>a, <1>f, <2>2, <3>1, MetStays
  <2>7. OpenedInv'
    <3>1. \A q \in tick[t].todo : Opened(q)'
      BY <1>a, <1>b, <1>f, <1>g, <2>2 DEF OpenedInv
    <3> QED
      BY <1>a, <1>b, <1>f, <1>g, <2>1, <2>2, <3>1, OpenedKept DEF Acting
  <2> QED
    BY <1>a, <2>2, <2>3, <2>4, <2>5, <2>6, <2>7, BookKept DEF IInv
<1>2. ASSUME NEW t \in Ticks, NEW a \in Answers, FireOpen(t, a) PROVE IInv'
  <2>1. /\ At(t, "fire") /\ tick[t].at \in Firing /\ Target(t) = OpenId(Play(t))
        /\ Play(t) = tick[t].play /\ Play(t) \in Plays
        /\ Execute(OpenId(Play(t)), Play(t), 1, tick[t].stage, a)
        /\ Execute(Target(t), Play(t), 1, tick[t].stage, a) /\ 1 \in Int
        /\ UNCHANGED <<setup, proposal, row, approval, met, due>>
    BY <1>b, <1>2 DEF FireOpen, Play, At, Firing, Target
  <2>2. BookInv'
    BY <1>a, <2>1, BookOpens
  <2>3. a = "filled" => records'[OpenId(Play(t))] > 0
    BY <1>a, <2>1, Executes, IdsApart
  <2>4. \/ a = "filled" /\ Moves(t, "persist", Play(t), tick[t].todo)
        \/ Moves(t, "idle", Idle.play, {})
    BY <1>2, <1>d, <2>1, GoesTo, ToIdle DEF FireOpen, Steps
  <2>5. CASE a = "filled" /\ Moves(t, "persist", Play(t), tick[t].todo)
    <3>1. records'[OpenId(Play(t))] > 0
      BY <2>3, <2>5
    <3>2. tick[t].todo \in SUBSET Plays /\ "persist" \notin {"fire", "legop", "transition"}
      BY <1>b
    <3> QED
      BY ONLY <1>x, <2>1, <2>2, <2>5, <3>1, <3>2, t \in Ticks, a \in Answers
  <2>6. CASE Moves(t, "idle", Idle.play, {})
    BY <1>e, <1>x, <2>1, <2>2, <2>6 DEF Acting
  <2> QED
    BY <2>4, <2>5, <2>6
<1>3. ASSUME NEW t \in Ticks, NEW written \in BOOLEAN, Persist(t, written) PROVE IInv'
  <2> DEFINE p == tick[t].play
  <2>1. p \in Plays /\ Opened(p)
    BY <1>a, <1>b, <1>3 DEF Persist, At, OpenedInv, Acting
  <2>2. Others /\ UNCHANGED due /\ Moves(t, "idle", Idle.play, {})
    BY <1>3, <1>d, ToIdle DEF Persist
  <2>3. row' = row \/ row' = [row EXCEPT ![p] = "open"]
    BY <1>3 DEF Persist, Play
  <2> HIDE DEF p
  <2>4. row' \in [Plays -> RowStates] /\ \A q \in Plays \ {p} : row'[q] = row[q]
    BY <1>a, <2>1, <2>3 DEF TypeInv, RowStates, Written
  <2>5. TypeInv'
    BY <1>a, <1>f, <2>2, <2>4 DEF TypeInv, Moves
  <2>6. OpenedInv'
    BY <1>a, <1>f, <2>1, <2>2, <2>4 DEF OpenedInv, Moves, Acting, Opened
  <2> QED
    BY <2>2, <2>5, <2>6, QuietKeeps DEF IInv
<1>4. ASSUME NEW p \in Plays, Claim(p) PROVE IInv'
  <2>1. /\ UNCHANGED <<setup, row, met, due, tick>> /\ UNCHANGED bus
        /\ proposal[p] = "pending"
        /\ proposal' = [proposal EXCEPT ![p] = "approved"]
        /\ approval' = [approval EXCEPT ![p] = "scan"]
    BY <1>4 DEF Claim
  <2>2. /\ \A q \in Plays \ {p} : approval'[q] = approval[q] /\ proposal'[q] = proposal[q]
        /\ approval'[p] = "scan" /\ proposal'[p] = "approved"
    BY <1>a, <2>1 DEF TypeInv
  <2>3. TypeInv'
    BY <1>a, <1>f, <2>1 DEF TypeInv, Stages
  <2>4. OpeningInv'
    <3>1. \A q \in Plays : ByApproval(q)' = ByApproval(q) /\ ByTick(q)' = ByTick(q)
      BY <2>1, <2>2 DEF ByApproval, ByTick, At, Play
    <3>2. \A t \in Ticks : proposal[Play(t)] # "none" => proposal'[Play(t)] # "none"
      BY <1>b, <2>2 DEF Play
    <3> QED
      BY <1>a, <1>f, <2>1, <2>2, <3>1, <3>2 DEF OpeningInv, At, Play, One
  <2>5. MetInv'
    <3>1. \A id \in Ids : ~On(<<"approval", p>>, id)'
      BY <2>2 DEF On, Past
    <3> QED
      BY <1>a, <1>f, <2>1, <2>2, <3>1, OthersOfApproval, MetStays
  <2> QED
    BY <1>a, <1>f, <2>1, <2>3, <2>4, <2>5, BookKept DEF IInv, TickInv, OpenedInv, Opened, At
<1>5. ASSUME NEW p \in Plays, ApprovalGoesOn(p) PROVE IInv'
  <2>1. UNCHANGED <<setup, proposal, row, due, tick>> /\ UNCHANGED bus
    BY <1>5 DEF ApprovalGoesOn
  <2>2. PICK next \in Past : /\ Advances(OpenId(p), approval[p], next)
                             /\ approval' = [approval EXCEPT ![p] = next]
    BY <1>5 DEF ApprovalGoesOn
  <2>3. /\ \A q \in Plays \ {p} : approval'[q] = approval[q]
        /\ approval'[p] = next /\ approval[p] # "none" /\ next # "none" /\ next \in Stages
    BY <1>a, <2>2 DEF TypeInv, Advances, Past, Stages
  <2>4. TypeInv'
    <3>1. met' \subseteq Ids
      BY <1>a, <2>2, IdsApart DEF TypeInv, Advances, Scan
    <3>2. approval' \in [Plays -> Stages \cup {"none"}]
      BY <1>a, <2>2, <2>3 DEF TypeInv
    <3> QED
      BY <1>a, <1>f, <2>1, <3>1, <3>2 DEF TypeInv
  <2>5. OpeningInv'
    <3>1. \A q \in Plays : ByApproval(q)' = ByApproval(q) /\ ByTick(q)' = ByTick(q)
      BY <2>1, <2>3 DEF ByApproval, ByTick, At, Play
    <3> QED
      BY <1>a, <1>f, <2>1, <2>3, <3>1 DEF OpeningInv, At, Play, One
  <2>6. MetInv'
    <3> DEFINE x == <<"approval", p>>
    <3>1. approval[p] = "fill" => On(x, OpenId(p))
      BY DEF On, Past
    <3>2. \A id \in Ids \ {OpenId(p)} : ~On(x, id)'
      BY DEF On
    <3>3. /\ x \in Parties
          /\ \A y \in Parties \ {x}, id \in Ids : On(y, id)' => On(y, id)
      BY <2>1, <2>3, OthersOfApproval
    <3>4. OpenId(p) \in Ids /\ \A q \in Plays : OpenId(p) # CloseId(q)
      BY IdsApart
    <3>5. UNCHANGED setup /\ UNCHANGED records
      BY <1>f, <2>1
    <3> HIDE DEF x
    <3> QED
      BY <1>a, <2>2, <3>1, <3>2, <3>3, <3>4, <3>5, MetGoes
  <2> QED
    BY <1>a, <1>f, <2>1, <2>4, <2>5, <2>6, BookKept DEF IInv, TickInv, OpenedInv, Opened, At
<1>6. ASSUME NEW p \in Plays, (\E a \in Answers : Approved(p, a)) \/ ApprovalDies(p) PROVE IInv'
  <2>1. /\ UNCHANGED <<setup, row, met, due, tick>>
        /\ approval[p] # "none" /\ approval' = [approval EXCEPT ![p] = "none"]
    BY <1>6 DEF Approved, ApprovalDies
  <2>2. PICK a \in Answers :
          /\ Execute(OpenId(p), p, 1, approval[p], a)
          /\ \/ UNCHANGED proposal
             \/ a # "filled" /\ proposal' = [proposal EXCEPT ![p] = "pending"]
    <3>1. CASE \E a \in Answers : Approved(p, a)
      BY <3>1 DEF Approved
    <3>2. CASE ApprovalDies(p)
      BY <3>2 DEF ApprovalDies, Execute, Answers
    <3> QED
      BY <1>6, <3>1, <3>2
  <2>3. /\ \A q \in Plays \ {p} : approval'[q] = approval[q] /\ proposal'[q] = proposal[q]
        /\ approval'[p] = "none" /\ proposal[p] = "approved"
        /\ proposal'[p] \in {"pending", "approved"} /\ (a = "filled" => proposal'[p] = "approved")
        /\ proposal' \in [Plays -> {"none", "pending", "approved"}]
        /\ approval' \in [Plays -> Stages \cup {"none"}]
    BY <1>a, <2>1, <2>2 DEF TypeInv, OpeningInv
  <2>4. /\ records' \in [Ids -> Nat] /\ position' \in [Plays -> Int]
        /\ \A i \in Ids : records[i] <= records'[i]
        /\ \/ UNCHANGED bus
           \/ /\ a = "filled" /\ records'[OpenId(p)] = records[OpenId(p)] + 1
              /\ \A i \in Ids \ {OpenId(p)} : records'[i] = records[i]
    BY <1>a, <2>2, Executes, IdsApart
  <2>5. TypeInv'
    BY <1>a, <2>1, <2>3, <2>4 DEF TypeInv
  <2>6. OpeningInv'
    <3>1. \A q \in Plays : ByTick(q)' = ByTick(q)
      BY <2>1, <2>3 DEF ByTick, At, Play
    <3>2. ASSUME NEW q \in Plays
          PROVE  /\ approval'[q] # "none" => proposal'[q] = "approved"
                 /\ records'[OpenId(q)] + One(ByTick(q)') + One(ByApproval(q)') <= 2
      <4>1. /\ records[OpenId(q)] + One(ByTick(q)) + One(ByApproval(q)) <= 2
            /\ records[OpenId(q)] \in Nat /\ One(ByTick(q)) \in {0, 1}
            /\ One(ByTick(q)') = One(ByTick(q))
        BY <1>a, <3>1, BookTypes DEF OpeningInv, One
      <4>2. CASE q # p
        <5>1. records'[OpenId(q)] = records[OpenId(q)] /\ ByApproval(q)' = ByApproval(q)
          BY <1>f, <2>3, <2>4, <4>2, IdsApart DEF ByApproval
        <5> QED
          BY <1>a, <2>3, <4>1, <4>2, <5>1 DEF OpeningInv, One
      <4>3. CASE q = p
        <5>1. One(ByApproval(p)) = 1
          BY <2>1 DEF ByApproval, One
        <5>2. \/ records'[OpenId(p)] = records[OpenId(p)]
              \/ records'[OpenId(p)] = records[OpenId(p)] + 1 /\ ~ByApproval(p)'
          BY <1>f, <2>3, <2>4 DEF ByApproval
        <5>3. /\ One(ByApproval(p)') \in {0, 1}
              /\ ~ByApproval(p)' => One(ByApproval(p)') = 0
          BY DEF One
        <5> QED
          BY <2>3, <4>1, <4>3, <5>1, <5>2, <5>3
      <4> QED
        BY <4>2, <4>3
    <3>3. \A t \in Ticks : proposal[Play(t)] # "none" => proposal'[Play(t)] # "none"
      BY <1>b, <2>3 DEF Play
    <3> QED
      BY <1>a, <2>1, <3>2, <3>3 DEF OpeningInv, At, Play, One
  <2>7. MetInv'
    <3> DEFINE x == <<"approval", p>>
    <3>1. approval[p] = "append" => On(x, OpenId(p))
      BY DEF On, Past
    <3>2. \A id \in Ids : ~On(x, id)'
      BY <2>3 DEF On, Past
    <3>3. /\ x \in Parties
          /\ \A y \in Parties \ {x}, id \in Ids : On(y, id)' => On(y, id)
      BY <2>1, <2>3, OthersOfApproval
    <3>4. OpenId(p) \in Ids /\ UNCHANGED <<setup, met>> /\ 1 \in Int
      BY <2>1, IdsApart
    <3> HIDE DEF x
    <3> QED
      BY <1>a, <2>2, <3>1, <3>2, <3>3, <3>4, MetEnds
  <2>8. BookInv'
    BY <1>a, <2>1, <2>2, BookOpens
  <2>9. OpenedInv'
    <3>1. \A q \in Plays : Opened(q) => Opened(q)'
      BY <2>4, BookTypes, IdsApart, <1>a DEF Opened
    <3> QED
      BY <1>a, <1>b, <2>1, <3>1 DEF OpenedInv
  <2> QED
    BY <1>a, <2>1, <2>5, <2>6, <2>7, <2>8, <2>9 DEF IInv, TickInv, At
<1>7. ASSUME NEW p \in Plays, Operator(p) PROVE IInv'
  <2>1. Others /\ UNCHANGED <<due, tick>>
    BY <1>7 DEF Operator
  <2>2. PICK to \in RowStates : row[p] # "absent" /\ row' = [row EXCEPT ![p] = to]
    BY <1>7 DEF Operator, TransitionState, RecordLegClose, Legal, LegCloseTarget, RowStates, Written
  <2>3. TypeInv' /\ OpenedInv'
    BY <1>a, <1>f, <2>1, <2>2 DEF TypeInv, OpenedInv, Opened
  <2>4. TickInv' /\ OpeningInv' /\ MetInv'
    BY <1>a, <1>f, <2>1, MetStays DEF TickInv, OpeningInv, ByTick, ByApproval, At, Play, One, On, Target
  <2> QED
    BY <1>a, <2>1, <2>3, <2>4, BookKept DEF IInv
<1>8. ASSUME NEW t \in Ticks, BeginSweep(t) PROVE IInv'
  <2>1. Moves(t, "stop", Idle.play, ListOpen) /\ Others /\ UNCHANGED <<row, due>> /\ Admitted(t)
    BY <1>a, <1>8, SweepMoves DEF BeginSweep
  <2> QED
    BY <1>c, <1>e, <1>q, <2>1 DEF Acting
<1>9. ASSUME NEW t \in Ticks, NEW p \in Plays, Hold(t, p) PROVE IInv'
  <2>1. /\ Moves(t, tick[t].at, tick[t].play, tick[t].todo \ {p})
        /\ Others /\ UNCHANGED <<row, due>> /\ tick[t].at \in {"stop", "gain"}
    BY <1>a, <1>9, HoldMoves DEF Hold, At
  <2>2. /\ tick[t].todo \ {p} \in SUBSET Plays
        /\ \A q \in tick[t].todo \ {p} : Opened(q)
    BY <1>a, <1>b DEF OpenedInv
  <2>3. tick[t].at # "fire" /\ ~At(t, "idle") /\ tick[t].at \notin Acting
    BY <2>1 DEF At, Acting
  <2> QED
    BY <1>b, <1>q, <2>1, <2>2, <2>3 DEF Acting
<1>10. ASSUME NEW t \in Ticks, NEW p \in Plays, Breach(t, p) \/ Captured(t, p) PROVE IInv'
  <2>1. /\ Others /\ UNCHANGED <<row, due>> /\ p \in tick[t].todo
        /\ tick[t].at \in {"stop", "gain"} /\ ~At(t, "idle") /\ tick[t].at \notin Firing
    BY <1>10 DEF Breach, Captured, At, Firing
  <2>2. PICK l \in {"legop", "stop_close", "gain_close"} :
          /\ Moves(t, l, p, tick[t].todo \ {p})
          /\ l = "legop" => setup.legops
    <3>1. CASE Breach(t, p)
      BY <1>a, <2>1, <3>1, TakesUp DEF Breach, Steps
    <3>2. CASE Captured(t, p)
      BY <1>a, <2>1, <3>2, TakesUp DEF Captured, Steps
    <3> QED
      BY <1>10, <3>1, <3>2
  <2>3. /\ tick[t].todo \ {p} \in SUBSET Plays /\ Opened(p)
        /\ \A q \in tick[t].todo \ {p} : Opened(q)
    BY <1>a, <1>b, <2>1 DEF OpenedInv
  <2> QED
    BY <1>q, <2>1, <2>2, <2>3
<1>11. ASSUME NEW t \in Ticks, NEW a \in Answers, LegOp(t, a) PROVE IInv'
  <2>1. /\ At(t, "legop") /\ tick[t].at \in Firing /\ Target(t) = LegOpId(Play(t))
        /\ Play(t) = tick[t].play /\ Play(t) \in Plays
        /\ Execute(LegOpId(Play(t)), Play(t), 1, tick[t].stage, a)
        /\ Execute(Target(t), Play(t), 1, tick[t].stage, a) /\ 1 \in Int
        /\ UNCHANGED <<setup, proposal, row, approval, met, due>>
        /\ setup.legops /\ Opened(Play(t))
    BY <1>a, <1>b, <1>11 DEF LegOp, Play, At, Firing, Target, OpenedInv, Acting
  <2>2. PICK l \in {"stop", "stop_close", "transition"} : Moves(t, l, Play(t), tick[t].todo)
    <3>1. Goes(t, "transition") \/ Goes(t, "stop_close") \/ Back(t, "stop", TRUE)
      BY <1>11 DEF LegOp
    <3> QED
      BY <1>d, <2>1, <3>1, GoesTo, BackTo DEF Steps
  <2>3. BookInv'
    BY <1>a, <2>1, BookLegs
  <2>4. records'[OpenId(Play(t))] > 0
    <3>1. records[OpenId(Play(t))] <= records'[OpenId(Play(t))]
      BY <1>a, <2>1, Executes, IdsApart
    <3>2. /\ records[OpenId(Play(t))] > 0 /\ records[OpenId(Play(t))] \in Nat
          /\ records'[OpenId(Play(t))] \in Nat
      BY <1>a, <2>1, BookTypes, Executes, IdsApart DEF Opened
    <3> QED
      BY <3>1, <3>2
  <2> QED
    BY <1>x, <2>1, <2>2, <2>3, <2>4
<1>12. ASSUME NEW t \in Ticks, Transition(t) PROVE IInv'
  <2> DEFINE p == tick[t].play
  <2>1. /\ p \in Plays /\ Opened(p) /\ Others /\ UNCHANGED due /\ ~At(t, "idle")
    BY <1>a, <1>b, <1>12 DEF Transition, At, OpenedInv, Acting
  <2>2. PICK l \in {"stop", "stop_close"} : Moves(t, l, p, tick[t].todo)
    <3>1. Goes(t, "stop_close") \/ Back(t, "stop", TRUE)
      BY <1>12 DEF Transition
    <3> QED
      BY <1>d, <3>1, GoesTo, BackTo DEF Steps
  <2>3. row' = row \/ row' = [row EXCEPT ![p] = "decomposed"]
    BY <1>12 DEF Transition, TransitionState, Play
  <2> HIDE DEF p
  <2>4. row' \in [Plays -> RowStates] /\ \A q \in Plays \ {p} : row'[q] = row[q]
    BY <1>a, <2>1, <2>3 DEF TypeInv, RowStates, Written
  <2>5. TypeInv'
    BY <1>a, <1>f, <2>1, <2>2, <2>4 DEF TypeInv, Moves
  <2>6. OpenedInv'
    BY <1>a, <1>b, <1>f, <2>1, <2>2, <2>4 DEF OpenedInv, Moves, Opened
  <2> QED
    BY <2>1, <2>2, <2>5, <2>6, QuietKeeps DEF IInv
<1>13. ASSUME NEW t \in Ticks, NEW a \in Answers, Close(t, a) PROVE IInv'
  <2>1. /\ tick[t].at \in Firing /\ Target(t) = CloseId(Play(t))
        /\ Play(t) = tick[t].play /\ Play(t) \in Plays
        /\ Execute(CloseId(Play(t)), Play(t), -1, tick[t].stage, a)
        /\ UNCHANGED <<setup, proposal, row, approval, met, due>> /\ Opened(Play(t))
    BY <1>a, <1>b, <1>13 DEF Close, Play, At, Firing, Target, OpenedInv, Acting
  <2>2. PICK l \in {"stop", "gain"} : Moves(t, l, Play(t), tick[t].todo)
    <3>1. \E l \in {"stop", "gain"}, b \in BOOLEAN : Back(t, l, b)
      BY <1>13 DEF Close
    <3> QED
      BY <1>d, <2>1, <3>1, BackTo DEF Steps
  <2>3. BookInv'
    BY <1>a, <2>1, BookCloses
  <2>4. l \notin Acting /\ l \notin {"fire", "legop", "transition"}
    BY DEF Acting
  <2> QED
    BY ONLY <1>x, <2>1, <2>2, <2>3, <2>4, -1 \in Int, t \in Ticks, a \in Answers
<1>14. ASSUME NEW t \in Ticks, EndStop(t) \/ EndGain(t) \/ Crash(t) PROVE IInv'
  <2>1. \/ Moves(t, "gain", tick[t].play, ListOpen \ tick[t].closed)
        \/ Moves(t, "idle", Idle.play, {})
    BY <1>a, <1>d, <1>14, EndStopMoves, ToIdle DEF EndGain, Crash
  <2>2. Others /\ UNCHANGED <<row, due>> /\ ~At(t, "idle")
    BY <1>14 DEF EndStop, EndGain, Crash, At
  <2>3. CASE Moves(t, "gain", tick[t].play, ListOpen \ tick[t].closed)
    BY <1>b, <1>c, <1>q, <2>2, <2>3 DEF Acting
  <2>4. CASE Moves(t, "idle", Idle.play, {})
    BY <1>e, <1>q, <2>2, <2>4 DEF Acting
  <2> QED
    BY <2>1, <2>3, <2>4
<1>15. ASSUME NEW t \in Ticks, GoesOn(t) PROVE IInv'
  <2>1. /\ tick' \in [Ticks -> Tick] /\ tick[t].at \in Firing
        /\ tick'[t].at = tick[t].at /\ tick'[t].play = tick[t].play
        /\ tick'[t].todo = tick[t].todo
        /\ \A u \in Ticks \ {t} : tick'[u] = tick[u]
    BY <1>a, <1>15, StagesGo
  <2>2. \A u \in Ticks : /\ tick'[u].at = tick[u].at /\ tick'[u].play = tick[u].play
                         /\ tick'[u].todo = tick[u].todo
    BY <2>1
  <2>3. UNCHANGED <<setup, proposal, row, approval, due>> /\ UNCHANGED bus
    BY <1>15 DEF GoesOn
  <2>4. PICK next \in Past : Advances(Target(t), tick[t].stage, next)
    BY <1>15 DEF GoesOn
  <2>5. Target(t) \in Ids
    BY <1>a, TargetIs
  <2>6. TypeInv'
    <3>1. met' \subseteq Ids
      BY <1>a, <2>4, <2>5 DEF TypeInv, Advances, Scan
    <3> QED
      BY <1>a, <1>f, <2>1, <2>3, <3>1 DEF TypeInv
  <2>7. TickInv'
    <3>1. \A u \in Ticks : tick'[u].at \notin Firing => tick'[u].stage = "scan"
      BY <1>a, <2>1 DEF TickInv
    <3> QED
      BY <1>a, <2>2, <2>3, <3>1 DEF TickInv, At
  <2>8. OpeningInv'
    <3>1. \A u \in Ticks : At(u, "fire")' = At(u, "fire") /\ Play(u)' = Play(u)
      BY <2>2 DEF At, Play
    <3>2. \A p \in Plays : ByTick(p)' = ByTick(p) /\ ByApproval(p)' = ByApproval(p)
      BY <2>3, <3>1 DEF ByTick, ByApproval
    <3> QED
      BY <1>a, <1>f, <2>3, <3>1, <3>2 DEF OpeningInv, One
  <2>9. MetInv'
    <3> DEFINE x == <<"tick", t>>
    <3>1. tick[t].stage = "fill" => On(x, Target(t))
      BY <2>1 DEF On, Past
    <3>2. \A id \in Ids \ {Target(t)} : ~On(x, id)'
      BY <2>2 DEF On, Target, At, Play
    <3>3. /\ x \in Parties
          /\ \A y \in Parties \ {x}, id \in Ids : On(y, id)' => On(y, id)
      BY <2>1, <2>3, OthersOfTick
    <3>4. UNCHANGED setup /\ UNCHANGED records
      BY <1>f, <2>3
    <3>5. ~setup.infra /\ UnderWay(Target(t)) =>
            tick[t].stage # "scan" \/ \A p \in Plays : Target(t) # CloseId(p)
      <4> SUFFICES ASSUME ~setup.infra, tick[t].stage = "scan", NEW p \in Plays,
                          Target(t) = CloseId(p), UnderWay(Target(t))
                   PROVE  FALSE
        OBVIOUS
      <4>1. \A u \in Ticks \ {t} : At(u, "idle")
        BY <1>a, <2>1 DEF TickInv, At, Firing
      <4>2. \A u \in Ticks : ~(tick[u].at \in Firing /\ tick[u].stage \in Past)
        BY <4>1 DEF At, Firing, Past
      <4> QED
        BY <4>2, IdsApart DEF UnderWay
    <3> HIDE DEF x
    <3> QED
      BY <1>a, <2>4, <2>5, <3>1, <3>2, <3>3, <3>4, <3>5, MetGoes
  <2>10. OpenedInv'
    BY <1>a, <1>f, <2>2, <2>3 DEF OpenedInv, Opened
  <2> QED
    BY <1>a, <2>3, <2>6, <2>7, <2>8, <2>9, <2>10, BookKept DEF IInv
<1>16. ASSUME (\E p \in Plays : Market(p)) \/ UNCHANGED vars PROVE IInv'
  <2>1. Others /\ UNCHANGED <<row, tick>>
    BY <1>16 DEF Market, vars, bus
  <2>2. due' \in [Plays -> {"no", "stop", "gain"}]
    BY <1>a, <1>16 DEF Market, TypeInv, vars
  <2>3. TypeInv' /\ OpenedInv'
    BY <1>a, <1>f, <2>1, <2>2 DEF TypeInv, OpenedInv, Opened
  <2>4. TickInv' /\ OpeningInv' /\ MetInv'
    BY <1>a, <1>f, <2>1, MetStays DEF TickInv, OpeningInv, ByTick, ByApproval, At, Play, One, On, Target
  <2> QED
    BY <1>a, <2>1, <2>3, <2>4, BookKept DEF IInv
<1> QED
  BY <1>1, <1>2, <1>3, <1>4, <1>5, <1>6, <1>7, <1>8, <1>9, <1>10, <1>11, <1>12, <1>13,
     <1>14, <1>15, <1>16 DEF Next, TickStep, ApprovalStep

-----------------------------------------------------------------------------
(* The invariant, and what follows.                                        *)

LEMMA InitHolds == Init => IInv
<1> SUFFICES ASSUME Init PROVE IInv
  OBVIOUS
<1>0. \A t \in Ticks : tick[t] = Idle
  BY DEF Init
<1>a. Idle.at = "idle" /\ Idle.stage = "scan" /\ Idle.todo = {}
  BY IdleIs
<1>b. \A p \in Plays : /\ records[OpenId(p)] = 0 /\ records[CloseId(p)] = 0
                       /\ records[LegOpId(p)] = 0
  BY IdsApart DEF Init
<1>1. TypeInv
  BY IdleIs DEF Init, TypeInv, RowStates
<1>2. TickInv
  BY <1>0, <1>a DEF Init, TickInv, At
<1>3. OpeningInv
  BY <1>0, <1>a, <1>b DEF Init, OpeningInv, At, One
<1>4. MetInv
  <2>1. ASSUME NEW x \in Parties, NEW id PROVE ~On(x, id)
    <3>1. \A t \in Ticks : tick[t].at \notin Firing
      BY <1>0, <1>a DEF Firing
    <3>2. \A p \in Plays : approval[p] \notin Past
      BY DEF Init, Past
    <3> QED
      BY <3>1, <3>2 DEF On, Parties
  <2> QED
    BY <2>1 DEF Init, MetInv, Apart
<1>5. BookInv
  BY <1>b DEF Init, BookInv, Extra
<1>6. OpenedInv
  BY <1>0, <1>a DEF Init, OpenedInv, Acting
<1> QED
  BY <1>1, <1>2, <1>3, <1>4, <1>5, <1>6 DEF IInv

THEOREM Invariant == Spec => []IInv
BY InitHolds, StepKeeps, PTL DEF Spec

(* Type correctness: the rows, the records, the executes and the ticks keep   *)
(* their types, and the opening of a play is recorded twice at most, however  *)
(* often its copy is approved, refused and approved again (the compare-and-   *)
(* set of proposals.claim_for_approval and the one tick that persisted it).   *)
THEOREM TypeCorrect == Spec => []TypeOK
<1>1. IInv => TypeOK
  BY OpenedTwice DEF IInv, TypeInv, TypeOK
<1> QED
  BY <1>1, Invariant, PTL

(* Without leg operations a play is held at most once and never sold beyond   *)
(* nothing, unless two executes of its opening, or of its closing, were past  *)
(* their scan (MultiLegPaperReactor._existing_parent) at once; and under the  *)
(* rail lock its closing is recorded once at most and it is never sold beyond *)
(* nothing even if a tick and an approval opened it twice.                    *)
THEOREM PlaysHeldOnce == Spec => []HeldOnce
<1>1. IInv => HeldOnce
  <2> SUFFICES ASSUME IInv, ~setup.legops, NEW p \in Plays
               PROVE  /\ {OpenId(p), CloseId(p)} \cap met = {} => position[p] \in {0, 1}
                      /\ ~setup.infra => position[p] >= 0 /\ records[CloseId(p)] <= 1
    BY DEF HeldOnce
  <2> DEFINE held == position[p]
             opens == records[OpenId(p)]
             closes == records[CloseId(p)]
  <2>1. held \in Int /\ opens \in Nat /\ closes \in Nat
    BY BookTypes DEF IInv
  <2>2. (closes > 0 => opens > 0) /\ held - opens + closes = 0
    BY DEF IInv, BookInv, Extra
  <2>3. /\ OpenId(p) \notin met => opens <= 1
        /\ CloseId(p) \notin met => closes <= 1
        /\ ~setup.infra => CloseId(p) \notin met
    BY IdsApart DEF IInv, MetInv, Apart
  <2> HIDE DEF held, opens, closes
  <2>4. closes <= 1 => held >= 0
    BY ONLY <2>1, <2>2
  <2>5. opens <= 1 /\ closes <= 1 => held \in {0, 1}
    BY ONLY <2>1, <2>2
  <2> QED
    BY <2>3, <2>4, <2>5 DEF held, closes
<1> QED
  BY <1>1, Invariant, PTL

(* A terminal row stays, and a partial one never reopens                      *)
(* (composite_plays._LEGAL_TRANSITIONS).                                      *)
THEOREM RowsObeyTheLaw == Spec => RowLaw
<1> DEFINE Law == \A p \in Plays :
             /\ row[p] \in {"closed", "decomposed"} => row'[p] = row[p]
             /\ row[p] = "partial" => row'[p] # "open"
<1>1. ASSUME IInv, [Next]_vars PROVE Law
  <2>1. row \in [Plays -> RowStates]
    BY <1>1 DEF IInv, TypeInv
  <2>2. CASE UNCHANGED row
    BY <2>2
  <2>3. ASSUME NEW t \in Ticks, NEW written \in BOOLEAN, Persist(t, written) PROVE Law
    BY <2>1, <2>3 DEF Persist
  <2>4. ASSUME NEW p \in Plays, Operator(p) PROVE Law
    BY <2>1, <2>4 DEF Operator, TransitionState, RecordLegClose, Legal, LegCloseTarget
  <2>5. ASSUME NEW t \in Ticks, Transition(t) PROVE Law
    BY <2>1, <2>5 DEF Transition, TransitionState, Legal
  <2>6. ASSUME NEW t \in Ticks, NEW p \in Plays,
               Originate(t, p) \/ Hold(t, p) \/ Breach(t, p) \/ Captured(t, p)
        PROVE  UNCHANGED row
    BY <2>6 DEF Originate, Hold, Breach, Captured
  <2>7. ASSUME NEW t \in Ticks, NEW a \in Answers, FireOpen(t, a) \/ LegOp(t, a) \/ Close(t, a)
        PROVE  UNCHANGED row
    BY <2>7 DEF FireOpen, LegOp, Close
  <2>8. ASSUME NEW t \in Ticks,
               GoesOn(t) \/ BeginSweep(t) \/ EndStop(t) \/ EndGain(t) \/ Crash(t)
        PROVE  UNCHANGED row
    BY <2>8 DEF GoesOn, BeginSweep, EndStop, EndGain, Crash
  <2>9. ASSUME NEW p \in Plays, Market(p) \/ ApprovalStep(p)
        PROVE  UNCHANGED row
    BY <2>9 DEF Market, ApprovalStep, Claim, ApprovalGoesOn, ApprovalDies, Approved
  <2>10. UNCHANGED vars => UNCHANGED row
    BY DEF vars
  <2> HIDE DEF Law
  <2> QED
    BY <1>1, <2>2, <2>3, <2>4, <2>5, <2>6, <2>7, <2>8, <2>9, <2>10 DEF Next, TickStep
<1>2. IInv /\ [Next]_vars => [Law]_vars
  BY <1>1
<1> QED
  BY <1>2, Invariant, PTL DEF Spec, RowLaw

-----------------------------------------------------------------------------
(***************************************************************************)
(* How long a tick is.  Each of its steps uses up a part of it, through a  *)
(* decompose that is refused and the close that it falls back to, and      *)
(* nobody gives it back: a row that is opened or an approval in between is *)
(* left to the next sweep.                                                 *)
(***************************************************************************)
\* What is left of a tick at k: of the stop sweep each row of its list with a
\* leg operation, its transition and a close, and the take-profit sweep after
\* it; of that each row of its list with a close; of an execute its stages.
StagesOf(k) == IF k.stage = "scan" THEN 2 ELSE IF k.stage = "fill" THEN 1 ELSE 0

RankOf(k) ==
  LET n == Cardinality(k.todo)
      g == 4 * Cardinality(Plays) + 2
      s == StagesOf(k)
  IN  IF k.at = "fire"       THEN 2 + s ELSE
      IF k.at = "persist"    THEN 1 ELSE
      IF k.at = "stop"       THEN g + 8 * n ELSE
      IF k.at = "legop"      THEN g + 8 * n + 5 + s ELSE
      IF k.at = "transition" THEN g + 8 * n + 4 ELSE
      IF k.at = "stop_close" THEN g + 8 * n + 1 + s ELSE
      IF k.at = "gain"       THEN 4 * n + 1 ELSE
      IF k.at = "gain_close" THEN 4 * n + 2 + s ELSE 0

Rank(t) == RankOf(tick[t])

\* A tick is over when nothing is left of it; each of its steps leaves less, and
\* a step of anybody else, or its death, no more.
Shortens ==
  \A t \in Ticks : /\ Rank(t) \in 0 .. 12 * Cardinality(Plays) + 9
                   /\ Rank(t) = 0 <=> At(t, "idle")
                   /\ TickStep(t) /\ ~At(t, "idle") => Rank(t)' < Rank(t)
                   /\ At(t, "idle") \/ Rank(t)' <= Rank(t)

\* The ways in which a tick at j goes on to k: with its list, with one row of it
\* taken up, or to the second sweep.
Answered ==
  {<<"legop", "transition">>, <<"legop", "stop_close">>, <<"legop", "stop">>,
   <<"transition", "stop_close">>, <<"transition", "stop">>,
   <<"stop_close", "stop">>, <<"gain_close", "gain">>}
TakenUp ==
  {<<"stop", "stop">>, <<"stop", "legop">>, <<"stop", "stop_close">>,
   <<"gain", "gain">>, <<"gain", "gain_close">>}

Shrinks(j, k) ==
  \/ k.at = "idle"
  \/ j.at = "fire" /\ k.at = "persist"
  \/ j.at = "stop" /\ k.at = "gain"
  \/ <<j.at, k.at>> \in Answered /\ k.todo = j.todo
  \/ <<j.at, k.at>> \in TakenUp /\ \E p \in j.todo : k.todo = j.todo \ {p}
  \/ /\ j.at \in Firing /\ k.at = j.at /\ k.todo = j.todo
     /\ <<j.stage, k.stage>> \in {<<"scan", "fill">>, <<"fill", "append">>}

LEMMA TickShrinks ==
  ASSUME TypeInv, TickInv, NEW t \in Ticks, TickStep(t), ~At(t, "idle")
  PROVE  Shrinks(tick[t], tick'[t]) /\ \A u \in Ticks \ {t} : tick'[u] = tick[u]
<1> DEFINE j == tick[t]
           k == tick'[t]
           Good == Shrinks(j, k) /\ \A u \in Ticks \ {t} : tick'[u] = tick[u]
<1> SUFFICES Good
  OBVIOUS
<1>0. /\ tick \in [Ticks -> Tick] /\ j.play \in Plays /\ j.closed \in SUBSET Plays
      /\ j.closed \cup {j.play} \in SUBSET Plays
  BY DEF TypeInv, Tick
<1>a. ASSUME NEW l, NEW q, NEW w, Moves(t, l, q, w)
      PROVE  k.at = l /\ k.todo = w /\ \A u \in Ticks \ {t} : tick'[u] = tick[u]
  BY <1>a DEF Moves
<1>b. ASSUME NEW q, NEW w, Moves(t, "idle", q, w) PROVE Good
  BY <1>a, <1>b DEF Shrinks
<1>1. ASSUME NEW a \in Answers, FireOpen(t, a) PROVE Good
  <2>1. j.at = "fire" /\ (Goes(t, "persist") \/ tick' = [tick EXCEPT ![t] = Idle])
    BY <1>1 DEF FireOpen, At
  <2>2. CASE Goes(t, "persist")
    <3>1. Moves(t, "persist", j.play, j.todo)
      BY <1>0, <2>2, GoesTo DEF Steps
    <3> QED
      BY <1>a, <2>1, <3>1 DEF Shrinks
  <2>3. CASE tick' = [tick EXCEPT ![t] = Idle]
    BY <1>0, <1>b, <2>3, ToIdle
  <2> QED
    BY <2>1, <2>2, <2>3
<1>2. ASSUME \/ \E written \in BOOLEAN : Persist(t, written)
             \/ EndGain(t)
      PROVE  Good
  <2>1. tick' = [tick EXCEPT ![t] = Idle]
    BY <1>2 DEF Persist, EndGain
  <2> QED
    BY <1>0, <1>b, <2>1, ToIdle
<1>3. ASSUME NEW p \in Plays, Hold(t, p) PROVE Good
  <2>1. /\ j.at \in {"stop", "gain"} /\ p \in j.todo
        /\ Moves(t, j.at, j.play, j.todo \ {p})
    BY <1>3, HoldMoves DEF Hold, At
  <2>2. <<j.at, j.at>> \in TakenUp
    BY <2>1 DEF TakenUp
  <2> QED
    BY <1>a, <2>1, <2>2 DEF Shrinks
<1>4. ASSUME NEW p \in Plays, Breach(t, p) \/ Captured(t, p) PROVE Good
  <2>1. PICK l \in {"legop", "stop_close", "gain_close"} :
          Moves(t, l, p, j.todo \ {p}) /\ p \in j.todo /\ <<j.at, l>> \in TakenUp
    <3>1. CASE Breach(t, p)
      BY <1>0, <3>1, TakesUp DEF Breach, At, Steps, Firing, TakenUp
    <3>2. CASE Captured(t, p)
      BY <1>0, <3>2, TakesUp DEF Captured, At, Steps, Firing, TakenUp
    <3> QED
      BY <1>4, <3>1, <3>2
  <2> QED
    BY <1>a, <2>1 DEF Shrinks
<1>5. ASSUME \/ \E a \in Answers : LegOp(t, a) \/ Close(t, a)
             \/ Transition(t)
      PROVE  Good
  <2>1. PICK l \in {"stop", "stop_close", "transition", "gain"} :
          Moves(t, l, j.play, j.todo) /\ <<j.at, l>> \in Answered
    <3>1. CASE \E a \in Answers : LegOp(t, a)
      <4>1. /\ j.at = "legop"
            /\ Goes(t, "transition") \/ Goes(t, "stop_close") \/ Back(t, "stop", TRUE)
        BY <1>0, <3>1 DEF LegOp, At
      <4> QED
        BY <1>0, <4>1, GoesTo, BackTo DEF Steps, Answered
    <3>2. CASE Transition(t)
      <4>1. /\ j.at = "transition"
            /\ Goes(t, "stop_close") \/ Back(t, "stop", TRUE)
        BY <1>0, <3>2 DEF Transition, At
      <4> QED
        BY <1>0, <4>1, GoesTo, BackTo DEF Steps, Answered
    <3>3. ASSUME NEW a \in Answers, Close(t, a)
          PROVE  \E l \in {"stop", "gain"} :
                   Moves(t, l, j.play, j.todo) /\ <<j.at, l>> \in Answered
      <4>1. PICK l \in {"stop", "gain"}, b \in BOOLEAN :
              Back(t, l, b) /\ <<j.at, l>> \in Answered
        BY <1>0, <3>3 DEF Close, At, Answered
      <4> QED
        BY <1>0, <4>1, BackTo DEF Steps
    <3> QED
      BY <1>5, <3>1, <3>2, <3>3
  <2> QED
    BY <1>a, <2>1 DEF Shrinks
<1>6. CASE EndStop(t)
  <2>1. j.at = "stop"
    BY <1>6 DEF EndStop, At
  <2>2. CASE Moves(t, "gain", j.play, ListOpen \ j.closed)
    BY <1>a, <2>1, <2>2 DEF Shrinks
  <2> QED
    BY <1>6, <1>b, <2>2, EndStopMoves
<1>7. CASE GoesOn(t)
  BY <1>7, StagesGo DEF Shrinks
<1>8. ~BeginSweep(t) /\ \A p \in Plays : ~Originate(t, p)
  BY DEF BeginSweep, Originate
<1> HIDE DEF Good
<1> QED
  BY <1>1, <1>2, <1>3, <1>4, <1>5, <1>6, <1>7, <1>8 DEF TickStep

LEMMA TodoIs ==
  ASSUME IsFiniteSet(Plays), NEW k \in Tick
  PROVE  /\ Cardinality(Plays) \in Nat /\ IsFiniteSet(k.todo)
         /\ Cardinality(k.todo) \in 0 .. Cardinality(Plays)
         /\ k.at \in Steps
<1>1. k.todo \in SUBSET Plays /\ k.at \in Steps
  BY DEF Tick
<1>2. IsFiniteSet(k.todo) /\ Cardinality(k.todo) <= Cardinality(Plays)
  BY <1>1, FS_Subset
<1>3. Cardinality(Plays) \in Nat /\ Cardinality(k.todo) \in Nat
  BY <1>2, FS_CardinalityType
<1> QED
  BY <1>1, <1>2, <1>3

LEMMA RankBounds ==
  ASSUME IsFiniteSet(Plays), NEW k \in Tick
  PROVE  /\ RankOf(k) \in 0 .. 12 * Cardinality(Plays) + 9 /\ RankOf(k) \in Nat
         /\ RankOf(k) = 0 <=> k.at = "idle"
<1> DEFINE c == Cardinality(Plays)
           n == Cardinality(k.todo)
           s == StagesOf(k)
           g == 4 * c + 2
           r == RankOf(k)
<1>0. s \in 0 .. 2
  BY DEF StagesOf
<1>1. c \in Nat /\ n \in 0 .. c /\ k.at \in Steps
  BY TodoIs
<1>2. \/ k.at = "idle" /\ r = 0
      \/ /\ k.at # "idle"
         /\ r \in {2 + s, 1, g + 8 * n, g + 8 * n + 5 + s, g + 8 * n + 4,
                   g + 8 * n + 1 + s, 4 * n + 1, 4 * n + 2 + s}
  BY ONLY <1>1 DEF RankOf, Steps
<1> HIDE DEF c, n, s, r
<1>3. r \in 0 .. 12 * c + 9 /\ r \in Nat /\ (r = 0 <=> k.at = "idle")
  BY ONLY <1>0, <1>1, <1>2
<1> QED
  BY <1>3 DEF r, c

\* A tick that advances has less to do.
LEMMA RankFalls ==
  ASSUME IsFiniteSet(Plays), NEW j \in Tick, NEW k \in Tick, j.at # "idle", Shrinks(j, k)
  PROVE  RankOf(k) < RankOf(j)
<1> DEFINE c == Cardinality(Plays)
           a == Cardinality(j.todo)
           b == Cardinality(k.todo)
           s == StagesOf(j)
           r == StagesOf(k)
           g == 4 * c + 2
<1>0. s \in 0 .. 2 /\ r \in 0 .. 2
  BY DEF StagesOf
<1>1. c \in Nat /\ a \in 0 .. c /\ b \in 0 .. c /\ j.at \in Steps
  BY TodoIs
<1>2. ASSUME NEW p \in j.todo, k.todo = j.todo \ {p} PROVE b = a - 1
  <2>1. IsFiniteSet(j.todo)
    BY TodoIs
  <2> QED
    BY ONLY <1>2, <2>1, FS_RemoveElement
<1>3. \/ k.at = "idle"
      \/ j.at = "fire" /\ k.at = "persist"
      \/ j.at = "stop" /\ k.at = "gain"
      \/ <<j.at, k.at>> \in Answered /\ b = a
      \/ <<j.at, k.at>> \in TakenUp /\ b = a - 1
      \/ j.at \in Firing /\ k.at = j.at /\ b = a /\ r = s - 1
  <2>1. <<j.stage, k.stage>> \in {<<"scan", "fill">>, <<"fill", "append">>} => r = s - 1
    BY DEF StagesOf
  <2> HIDE DEF a, b, s, r
  <2>2. k.todo = j.todo => b = a
    BY DEF a, b
  <2> QED
    BY <1>2, <2>1, <2>2 DEF Shrinks
<1>4. CASE k.at = "idle"
  <2>1. RankOf(k) = 0 /\ RankOf(j) \in Nat /\ RankOf(j) # 0
    BY <1>4, RankBounds
  <2> HIDE DEF a, b, c
  <2> QED
    BY ONLY <2>1
<1>5. CASE j.at = "fire" /\ k.at = "persist"
  <2>1. RankOf(j) = 2 + s /\ RankOf(k) = 1
    BY ONLY <1>5 DEF RankOf
  <2> HIDE DEF s
  <2> QED
    BY ONLY <1>0, <2>1
<1>6. CASE j.at = "stop" /\ k.at = "gain"
  <2>1. RankOf(j) = g + 8 * a /\ RankOf(k) = 4 * b + 1
    BY ONLY <1>6 DEF RankOf
  <2> HIDE DEF a, b, c
  <2> QED
    BY ONLY <1>1, <2>1
<1>7. CASE <<j.at, k.at>> \in Answered /\ b = a
  <2>1. \/ /\ RankOf(j) = g + 8 * a + 5 + s
           /\ RankOf(k) \in {g + 8 * b + 4, g + 8 * b + 1 + r, g + 8 * b}
        \/ /\ RankOf(j) = g + 8 * a + 4
           /\ RankOf(k) \in {g + 8 * b + 1 + r, g + 8 * b}
        \/ RankOf(j) = g + 8 * a + 1 + s /\ RankOf(k) = g + 8 * b
        \/ RankOf(j) = 4 * a + 2 + s /\ RankOf(k) = 4 * b + 1
    BY ONLY <1>7 DEF RankOf, Answered
  <2> HIDE DEF a, b, c, s, r
  <2> QED
    BY ONLY <1>0, <1>1, <1>7, <2>1
<1>8. CASE <<j.at, k.at>> \in TakenUp /\ b = a - 1
  <2>1. \/ /\ RankOf(j) = g + 8 * a
           /\ RankOf(k) \in {g + 8 * b, g + 8 * b + 5 + r, g + 8 * b + 1 + r}
        \/ /\ RankOf(j) = 4 * a + 1
           /\ RankOf(k) \in {4 * b + 1, 4 * b + 2 + r}
    BY ONLY <1>8 DEF RankOf, TakenUp
  <2> HIDE DEF a, b, c, s, r
  <2> QED
    BY ONLY <1>0, <1>1, <1>8, <2>1
<1>9. CASE j.at \in Firing /\ k.at = j.at /\ b = a /\ r = s - 1
  <2>1. \/ RankOf(j) = 2 + s /\ RankOf(k) = 2 + r
        \/ RankOf(j) = g + 8 * a + 5 + s /\ RankOf(k) = g + 8 * b + 5 + r
        \/ RankOf(j) = g + 8 * a + 1 + s /\ RankOf(k) = g + 8 * b + 1 + r
        \/ RankOf(j) = 4 * a + 2 + s /\ RankOf(k) = 4 * b + 2 + r
    BY ONLY <1>9 DEF RankOf, Firing
  <2> HIDE DEF a, b, c, s, r
  <2> QED
    BY ONLY <1>0, <1>1, <1>9, <2>1
<1> QED
  BY ONLY <1>3, <1>4, <1>5, <1>6, <1>7, <1>8, <1>9

LEMMA NextShortens ==
  ASSUME IsFiniteSet(Plays), IInv, [Next]_vars
  PROVE  Shortens
<1>0. TypeInv /\ TickInv /\ TypeInv'
  BY StepKeeps DEF IInv
<1> SUFFICES ASSUME NEW t \in Ticks
             PROVE  /\ Rank(t) \in 0 .. 12 * Cardinality(Plays) + 9
                    /\ Rank(t) = 0 <=> At(t, "idle")
                    /\ TickStep(t) /\ ~At(t, "idle") => Rank(t)' < Rank(t)
                    /\ At(t, "idle") \/ Rank(t)' <= Rank(t)
  BY DEF Shortens
<1>1. tick[t] \in Tick /\ tick'[t] \in Tick
  BY <1>0 DEF TypeInv
<1>2. /\ Rank(t) \in 0 .. 12 * Cardinality(Plays) + 9 /\ (Rank(t) = 0 <=> At(t, "idle"))
      /\ Rank(t) \in Nat /\ Rank(t)' \in Nat
  BY <1>1, RankBounds DEF Rank, At
<1>3. ASSUME TickStep(t), ~At(t, "idle") PROVE Rank(t)' < Rank(t)
  BY <1>0, <1>1, <1>3, TickShrinks, RankFalls DEF Rank, At
<1>4. CASE tick'[t] = tick[t]
  <2>1. Rank(t)' = Rank(t)
    BY <1>4 DEF Rank
  <2> QED
    BY <1>2, <1>3, <2>1
<1>5. ASSUME NEW u \in Ticks \ {t}, TickStep(u), ~At(u, "idle") PROVE tick'[t] = tick[t]
  BY <1>0, <1>5, TickShrinks
<1>6. ASSUME NEW u \in Ticks \ {t}, TickStep(u), At(u, "idle") PROVE tick'[t] = tick[t]
  <2>1. BeginSweep(u) \/ \E p \in Plays : Originate(u, p)
    BY Zenon, <1>6 DEF TickStep, At, Hold, Breach, Captured, FireOpen, LegOp, Close, Persist,
                       GoesOn, Firing, Transition, EndStop, EndGain
  <2> QED
    BY <1>0, <2>1, OriginateMoves, SweepMoves DEF Moves
<1>7. CASE \E u \in Ticks : Crash(u)
  <2>1. PICK u \in Ticks : tick' = [tick EXCEPT ![u] = Idle]
    BY <1>7 DEF Crash
  <2>2. CASE u # t
    BY <1>0, <1>4, <2>1, <2>2 DEF TypeInv
  <2>3. CASE u = t
    <3>1. tick'[t] = Idle
      BY <1>0, <2>1, <2>3 DEF TypeInv
    <3>2. Rank(t)' = 0
      BY <3>1, IdleIs DEF Rank, RankOf
    <3> QED
      BY <1>2, <1>3, <3>2
  <2> QED
    BY <2>2, <2>3
<1>8. ASSUME \/ \E p \in Plays : Operator(p) \/ Market(p) \/ ApprovalStep(p)
             \/ UNCHANGED vars
      PROVE  tick'[t] = tick[t]
  BY <1>8 DEF Operator, Market, ApprovalStep, Claim, ApprovalGoesOn, ApprovalDies, Approved,
             vars
<1>9. CASE TickStep(t)
  <2>1. At(t, "idle") \/ Rank(t)' <= Rank(t)
    BY <1>2, <1>3, <1>9
  <2> QED
    BY <1>2, <1>3, <2>1
<1> QED
  BY <1>2, <1>4, <1>5, <1>6, <1>7, <1>8, <1>9 DEF Next

(* A tick ends after at most 12 * Cardinality(Plays) + 9 steps of its own     *)
(* once it has begun, whatever other ticks, approvals, rows written by hand   *)
(* and the market do in between (the stop and take-profit sweeps of           *)
(* autonomous.py).                                                            *)
THEOREM TicksAreBounded == ASSUME IsFiniteSet(Plays) PROVE Spec => [][Shortens]_vars
<1>1. IInv /\ [Next]_vars => [Shortens]_vars
  BY NextShortens
<1> QED
  BY <1>1, Invariant, PTL DEF Spec
=============================================================================
