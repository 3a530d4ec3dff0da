--------------------------- MODULE CompositePlays ---------------------------
(***************************************************************************)
(* Options plays of the autonomous tick: origination, the lifecycle rows   *)
(* of state/composite_plays.py, and the stop and take-profit sweep over    *)
(* them, with and without HERMES_QUANT_COMPOSITE_LEG_OPS (autonomous.py,   *)
(* options/leg_ops.py).                                                    *)
(*                                                                         *)
(* A play is fired by the multi-leg reactor under an identifier, on the     *)
(* deterministic backend, the default everywhere (Reactors has the orders  *)
(* at a broker).  An execute scans the bus for the record of the           *)
(* identifier, has the backend fill, which reserves nothing and refuses no *)
(* identifier, and appends the record; nothing spans the three, so that    *)
(* two executes of one identifier may both miss the record.  position      *)
(* counts the structures held, as the records say.                         *)
(***************************************************************************)
EXTENDS Integers, FiniteSets

CONSTANTS
  Plays,      \* proposals of multi-leg plays
  Under,      \* [Plays -> underlyings]
  Ticks,      \* processes that run a tick
  Setups      \* deployments, see Setup

\* legops, takeProfit: the flags.  infra: the rail lock may be unusable, so that
\* two ticks run at once.  operator: rows are changed by hand through the store.
\* plays: those that the market offers.
Setup == [legops : BOOLEAN, takeProfit : BOOLEAN, infra : BOOLEAN,
          operator : BOOLEAN, plays : SUBSET Plays]

ASSUME CompositePlaysAssumption ==
  /\ Setups \subseteq Setup
  /\ Plays # {} /\ DOMAIN Under = Plays

VARIABLES
  setup,      \* the deployment, chosen once
  proposal,   \* [Plays -> ...], the HITL store's copy of the proposal
  row,        \* [Plays -> RowStates], composite_plays
  approval,   \* [Plays -> ...], where quant_approve is with the pending copy
  records,    \* [Ids -> Nat], parent records on the executions bus
  met,        \* identifiers with two executes past their scan at once (history)
  position,   \* [Plays -> Int], structures held
  due,        \* [Plays -> ...], what the marks of the legs say
  tick        \* [Ticks -> Tick]

vars == <<setup, proposal, row, approval, records, met, position, due, tick>>
bus  == <<records, position>>

Written   == {"open", "partial", "closed", "decomposed"}
RowStates == Written \cup {"absent"}
Steps     == {"idle", "fire", "persist", "stop", "legop", "transition",
              "stop_close", "gain", "gain_close"}

\* What an execute is about to do.
Stages == {"scan", "fill", "append"}
Past   == {"fill", "append"}

\* play: the one being fired or closed, stage: how far.  todo: rows read by
\* list_open and not yet looked at.  closed: what this sweep closed.
Tick == [at : Steps, stage : Stages, play : Plays, todo : SUBSET Plays,
         closed : SUBSET Plays]
Idle == [at |-> "idle", stage |-> "scan", play |-> CHOOSE p \in Plays : TRUE,
         todo |-> {}, closed |-> {}]

OpenId(p)  == <<p, "open">>
CloseId(p) == <<p, "close">>
LegOpId(p) == <<Under[p], "leg_op">>
Ids == UNION {{OpenId(p), CloseId(p), LegOpId(p)} : p \in Plays}

(* The types; the opening of a play is recorded twice at most, by the one tick *)
(* that fires it and by one approval.                                          *)
TypeOK ==
  /\ setup \in Setups
  /\ proposal \in [Plays -> {"none", "pending", "approved"}]
  /\ row \in [Plays -> RowStates]
  /\ approval \in [Plays -> Stages \cup {"none"}]
  /\ records \in [Ids -> Nat] /\ \A p \in Plays : records[OpenId(p)] <= 2
  /\ met \subseteq Ids
  /\ position \in [Plays -> Int]
  /\ due \in [Plays -> {"no", "stop", "gain"}]
  /\ tick \in [Ticks -> Tick]

Init ==
  /\ setup \in Setups
  /\ proposal = [p \in Plays |-> "none"]
  /\ row = [p \in Plays |-> "absent"]
  /\ approval = [p \in Plays |-> "none"]
  /\ records = [id \in Ids |-> 0]
  /\ met = {}
  /\ position = [p \in Plays |-> 0]
  /\ due = [p \in Plays |-> "no"]
  /\ tick = [t \in Ticks |-> Idle]

-----------------------------------------------------------------------------
At(t, l)   == tick[t].at = l
Play(t)    == tick[t].play
Goes(t, l) == tick' = [tick EXCEPT ![t].at = l, ![t].stage = "scan"]

\* The rail lock: one tick at a time, unless it cannot be used.
Admitted(t) == setup.infra \/ \A u \in Ticks \ {t} : At(u, "idle")

-----------------------------------------------------------------------------
(* An execute of the multi-leg reactor. *)

Firing == {"fire", "legop", "stop_close", "gain_close"}

\* The identifier a tick at one of these steps executes.
Target(t) == IF At(t, "fire") THEN OpenId(Play(t))
             ELSE IF At(t, "legop") THEN LegOpId(Play(t)) ELSE CloseId(Play(t))

\* Somebody has found no record of id and has not appended one yet.
UnderWay(id) ==
  \/ \E t \in Ticks : tick[t].at \in Firing /\ tick[t].stage \in Past /\ Target(t) = id
  \/ \E p \in Plays : approval[p] \in Past /\ OpenId(p) = id

\* Mutant: nobody looks for the record.
Scan_Blind(id) == met' = IF UnderWay(id) THEN met \cup {id} ELSE met

\* _existing_parent finds no record.
Scan(id) ==
  /\ records[id] = 0
  /\ met' = IF UnderWay(id) THEN met \cup {id} ELSE met

\* An execute of id goes on: it finds no record, and then the backend fills.
Advances(id, stage, next) ==
  \/ stage = "scan" /\ next = "fill" /\ Scan(id)
  \/ stage = "fill" /\ next = "append" /\ UNCHANGED met

Answers == {"raised", "unfilled", "filled"}

\* It is over.  It may raise before every step (disabled, an amiss proposal, a bus
\* that cannot be written); what does not fill, or is silenced by the cap, leaves
\* no record; a record that is found is returned as it is; and the append, which
\* looks at nothing again, moves the position by d of the structures of p.
Execute(id, p, d, stage, a) ==
  \/ a = "raised" /\ UNCHANGED bus
  \/ a = "unfilled" /\ stage = "fill" /\ UNCHANGED bus
  \/ a = "filled" /\ stage = "scan" /\ records[id] > 0 /\ UNCHANGED bus
  \/ /\ a = "filled" /\ stage = "append"
     /\ records' = [records EXCEPT ![id] = @ + 1]
     /\ position' = [position EXCEPT ![p] = @ + d]

\* An execute of a tick.
GoesOn(t) ==
  /\ tick[t].at \in Firing
  /\ \E next \in Past : /\ Advances(Target(t), tick[t].stage, next)
                        /\ tick' = [tick EXCEPT ![t].stage = next]
  /\ UNCHANGED <<setup, proposal, row, approval, bus, due>>

-----------------------------------------------------------------------------
(* Origination. *)

\* Mutant: a play is proposed again under the identifier it had.
Originate_Again(t, p) ==
  /\ At(t, "idle") /\ Admitted(t) /\ p \in setup.plays
  /\ proposal' = [proposal EXCEPT ![p] = "pending"]
  /\ tick' = [tick EXCEPT ![t].at = "fire", ![t].play = p]
  /\ UNCHANGED <<setup, row, approval, bus, met, due>>

\* build_and_persist_multi_leg: the gate admits the structure and the proposal is
\* written to the HITL store, pending, before the tick fires it.
Originate(t, p) ==
  /\ At(t, "idle") /\ Admitted(t) /\ p \in setup.plays /\ proposal[p] = "none"
  /\ proposal' = [proposal EXCEPT ![p] = "pending"]
  /\ tick' = [tick EXCEPT ![t].at = "fire", ![t].play = p]
  /\ UNCHANGED <<setup, row, approval, bus, met, due>>

\* The tick claims nothing.  A fire that does not fill is an abstention; one that
\* does gets its row.
FireOpen(t, a) ==
  /\ At(t, "fire")
  /\ Execute(OpenId(Play(t)), Play(t), 1, tick[t].stage, a)
  /\ IF a = "filled" THEN Goes(t, "persist") ELSE tick' = [tick EXCEPT ![t] = Idle]
  /\ UNCHANGED <<setup, proposal, row, approval, met, due>>

\* open_composite.  A row that cannot be written is logged, and the fire stands.
Persist(t, written) ==
  /\ At(t, "persist")
  /\ row' = IF written /\ row[Play(t)] = "absent"
            THEN [row EXCEPT ![Play(t)] = "open"] ELSE row
  /\ tick' = [tick EXCEPT ![t] = Idle]
  /\ UNCHANGED <<setup, proposal, approval, bus, met, due>>

-----------------------------------------------------------------------------
(* quant_approve of the pending copy, without the rail lock. *)

\* claim_for_approval: the compare-and-set lets one approval through.
Claim(p) ==
  /\ proposal[p] = "pending"
  /\ proposal' = [proposal EXCEPT ![p] = "approved"]
  /\ approval' = [approval EXCEPT ![p] = "scan"]
  /\ UNCHANGED <<setup, row, bus, met, due, tick>>

ApprovalGoesOn(p) ==
  /\ \E next \in Past : /\ Advances(OpenId(p), approval[p], next)
                        /\ approval' = [approval EXCEPT ![p] = next]
  /\ UNCHANGED <<setup, proposal, row, bus, due, tick>>

\* What did not fill is handed back to be approved again; after an exception it
\* stays claimed, but for the refusal of the size, which comes before the scan.
Approved(p, a) ==
  /\ approval[p] # "none"
  /\ Execute(OpenId(p), p, 1, approval[p], a)
  /\ \/ a \in {"raised", "filled"} /\ UNCHANGED proposal
     \/ /\ a = "unfilled" \/ (a = "raised" /\ approval[p] = "scan")
        /\ proposal' = [proposal EXCEPT ![p] = "pending"]
  /\ approval' = [approval EXCEPT ![p] = "none"]
  /\ UNCHANGED <<setup, row, met, due, tick>>

ApprovalDies(p) ==
  /\ approval[p] # "none"
  /\ approval' = [approval EXCEPT ![p] = "none"]
  /\ UNCHANGED <<setup, proposal, row, bus, met, due, tick>>

-----------------------------------------------------------------------------
(* The rows. *)

\* Mutant: any state may follow.
Legal_Any(from, to) == from # "absent" /\ to \in Written

\* _LEGAL_TRANSITIONS: closed and decomposed are terminal, nothing reopens.
Legal(from, to) == /\ from \in {"open", "partial"}
                   /\ to \in {"partial", "closed", "decomposed"}

\* transition_state: read, checked and written in one immediate transaction.
TransitionState(p, to) ==
  /\ Legal(row[p], to)
  /\ row' = [row EXCEPT ![p] = to]

\* _compute_target_state: the first leg of a decompose makes the row partial, and
\* a partial row is closed only by the one that says no leg remains.
LegCloseTarget(from, decompose, last) ==
  IF from = "open" THEN (IF decompose THEN "partial" ELSE "closed")
                   ELSE (IF last THEN "closed" ELSE "partial")

RecordLegClose(p, decompose, last) ==
  /\ row[p] # "absent"
  /\ Legal(row[p], LegCloseTarget(row[p], decompose, last))
  /\ row' = [row EXCEPT ![p] = LegCloseTarget(row[p], decompose, last)]

\* Someone uses the store by hand.
Operator(p) ==
  /\ setup.operator
  /\ \/ \E to \in Written : TransitionState(p, to)
     \/ \E decompose, last \in BOOLEAN : RecordLegClose(p, decompose, last)
  /\ UNCHANGED <<setup, proposal, approval, bus, met, due, tick>>

-----------------------------------------------------------------------------
(* The sweep. *)

ListOpen == {p \in Plays : row[p] = "open"}

BeginSweep(t) ==
  /\ At(t, "idle") /\ Admitted(t)
  /\ tick' = [tick EXCEPT ![t] = [Idle EXCEPT !.at = "stop", !.todo = ListOpen]]
  /\ UNCHANGED <<setup, proposal, row, approval, bus, met, due>>

\* Not due, or a leg without a mark: held.
Hold(t, p) ==
  /\ (At(t, "stop") \/ At(t, "gain")) /\ p \in tick[t].todo
  /\ tick' = [tick EXCEPT ![t].todo = @ \ {p}]
  /\ UNCHANGED <<setup, proposal, row, approval, bus, met, due>>

\* A play of the list is dealt with; what was closed is remembered.
Back(t, l, closed) ==
  tick' = [tick EXCEPT ![t].at = l, ![t].stage = "scan",
                       ![t].closed = IF closed THEN @ \cup {Play(t)} ELSE @]

\* Past its stop: decomposed if leg operations are on, else closed whole.
Breach(t, p) ==
  /\ At(t, "stop") /\ p \in tick[t].todo /\ due[p] = "stop"
  /\ tick' = [tick EXCEPT ![t].at = IF setup.legops THEN "legop" ELSE "stop_close",
                          ![t].play = p, ![t].todo = @ \ {p}]
  /\ UNCHANGED <<setup, proposal, row, approval, bus, met, due>>

\* _apply_decompose_live: the stored legs, with the intents they were opened with,
\* are executed under the identifier of the underlying.  The record is not looked
\* at; only an exception leaves the composite whole.
LegOp(t, a) ==
  /\ At(t, "legop")
  /\ Execute(LegOpId(Play(t)), Play(t), 1, tick[t].stage, a)
  /\ IF a # "raised" THEN Goes(t, "transition")
     ELSE IF row[Play(t)] = "decomposed" THEN Back(t, "stop", TRUE)
     ELSE Goes(t, "stop_close")
  /\ UNCHANGED <<setup, proposal, row, approval, met, due>>

\* apply_decompose; a transition that is refused falls back to the full close.
Transition(t) ==
  /\ At(t, "transition")
  /\ \/ TransitionState(Play(t), "decomposed") /\ Back(t, "stop", TRUE)
     \/ /\ ~Legal(row[Play(t)], "decomposed")
        /\ Goes(t, "stop_close") /\ UNCHANGED row
  /\ UNCHANGED <<setup, proposal, approval, bus, met, due>>

\* Mutant: the row is closed before the answer is known.
Close_RowFirst(t, a) ==
  /\ At(t, "stop_close") \/ At(t, "gain_close")
  /\ Execute(CloseId(Play(t)), Play(t), -1, tick[t].stage, a)
  /\ row' = [row EXCEPT ![Play(t)] = IF @ = "open" THEN "closed" ELSE @]
  /\ Back(t, IF At(t, "stop_close") THEN "stop" ELSE "gain", a = "filled")
  /\ UNCHANGED <<setup, proposal, approval, met, due>>

\* _fire_options_close.  The row is left as it is.
Close(t, a) ==
  /\ At(t, "stop_close") \/ At(t, "gain_close")
  /\ Execute(CloseId(Play(t)), Play(t), -1, tick[t].stage, a)
  /\ Back(t, IF At(t, "stop_close") THEN "stop" ELSE "gain", a = "filled")
  /\ UNCHANGED <<setup, proposal, row, approval, met, due>>

\* The take-profit sweep lists the open rows again, and skips what the stop closed.
EndStop(t) ==
  /\ At(t, "stop") /\ tick[t].todo = {}
  /\ tick' = [tick EXCEPT ![t] =
       IF setup.takeProfit
       THEN [@ EXCEPT !.at = "gain", !.todo = ListOpen \ tick[t].closed]
       ELSE Idle]
  /\ UNCHANGED <<setup, proposal, row, approval, bus, met, due>>

Captured(t, p) ==
  /\ At(t, "gain") /\ p \in tick[t].todo /\ due[p] = "gain"
  /\ tick' = [tick EXCEPT ![t].at = "gain_close", ![t].play = p,
                          ![t].todo = @ \ {p}]
  /\ UNCHANGED <<setup, proposal, row, approval, bus, met, due>>

EndGain(t) ==
  /\ At(t, "gain") /\ tick[t].todo = {}
  /\ tick' = [tick EXCEPT ![t] = Idle]
  /\ UNCHANGED <<setup, proposal, row, approval, bus, met, due>>

Crash(t) ==
  /\ ~At(t, "idle")
  /\ tick' = [tick EXCEPT ![t] = Idle]
  /\ UNCHANGED <<setup, proposal, row, approval, bus, met, due>>

\* The marks of the legs move; a gain matters to the take-profit sweep only.
Market(p) ==
  /\ row[p] = "open"
  /\ \E d \in {"no", "stop", "gain"} \ {due[p]} :
       /\ d = "gain" => setup.takeProfit
       /\ due' = [due EXCEPT ![p] = d]
  /\ UNCHANGED <<setup, proposal, row, approval, bus, met, tick>>

TickStep(t) ==
  \/ \E p \in Plays : Originate(t, p) \/ Hold(t, p) \/ Breach(t, p) \/ Captured(t, p)
  \/ \E a \in Answers : FireOpen(t, a) \/ LegOp(t, a) \/ Close(t, a)
  \/ \E written \in BOOLEAN : Persist(t, written)
  \/ GoesOn(t) \/ BeginSweep(t) \/ Transition(t) \/ EndStop(t) \/ EndGain(t)

ApprovalStep(p) ==
  Claim(p) \/ ApprovalGoesOn(p) \/ ApprovalDies(p) \/ \E a \in Answers : Approved(p, a)

Next ==
  \/ \E t \in Ticks : TickStep(t) \/ Crash(t)
  \/ \E p \in Plays : Operator(p) \/ Market(p) \/ ApprovalStep(p)

\* A tick closes a play, and has come to this stage.
ClosesAt(t, stage) ==
  (At(t, "stop_close") \/ At(t, "gain_close")) /\ tick[t].stage = stage

\* Ticks come back for ever and go on; a play whose marks stay past the stop is
\* looked at some time; and of the closes tried again and again, whichever play they
\* are of, some get past the scan, some are filled, and some are recorded.
Fairness ==
  /\ WF_vars(\E t \in Ticks : TickStep(t))
  /\ \A p \in Plays : SF_vars(\E t \in Ticks : Breach(t, p))
  /\ SF_vars(\E t \in Ticks : ClosesAt(t, "scan") /\ GoesOn(t))
  /\ SF_vars(\E t \in Ticks : ClosesAt(t, "fill") /\ GoesOn(t))
  /\ SF_vars(\E t \in Ticks : ClosesAt(t, "append") /\ Close(t, "filled"))

Spec     == Init /\ [][Next]_vars
FairSpec == Spec /\ Fairness

-----------------------------------------------------------------------------
(* The tick never claims the copy it fires, an approval takes no rail lock, a  *)
(* close leaves the row open for every later tick, and all of them may die     *)
(* anywhere.  Still a play is held at most once and never sold beyond nothing, *)
(* unless two executes of its opening or of its closing were past their scan   *)
(* at once; and the rail lock keeps the closes apart, so that under it no play *)
(* is sold twice even then.                                                    *)
HeldOnce ==
  ~setup.legops => \A p \in Plays :
    /\ {OpenId(p), CloseId(p)} \cap met = {} => position[p] \in {0, 1}
    /\ ~setup.infra => position[p] >= 0 /\ records[CloseId(p)] <= 1

(* Whoever writes the rows, by hand or from a sweep whose list is old: one     *)
(* that is closed or decomposed stays so, and a partial one never reopens.     *)
RowLaw ==
  [][\A p \in Plays :
       /\ row[p] \in {"closed", "decomposed"} => row'[p] = row[p]
       /\ row[p] = "partial" => row'[p] # "open"]_vars

(* A play with a row, past its stop, is closed at last whatever fills fail.    *)
(* One that was opened twice is excepted: its close sells it once.             *)
LosersClose ==
  ~(setup.legops \/ setup.operator) => \A p \in Plays :
    (row[p] = "open" /\ position[p] = 1 /\ due[p] = "stop")
       ~> (position[p] = 0 \/ due[p] # "stop" \/ records[OpenId(p)] = 2)
=============================================================================
