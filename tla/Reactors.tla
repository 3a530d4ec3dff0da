------------------------------ MODULE Reactors ------------------------------
(***************************************************************************)
(* The reactors that fill through a backend (react/alpaca_paper.py,        *)
(* react/deterministic_equity.py, react/multileg.py), from the claimed     *)
(* proposal to the record on the executions bus and its apply to the book. *)
(*                                                                         *)
(* A proposal has at most three orders: the structure itself (main), the   *)
(* stock that covers a short option, and the sale that unwinds that cover. *)
(* At Alpaca an order is one of AlpacaOrder; the deterministic backend     *)
(* fills at once if the cash of the book allows.  A fire may die anywhere; *)
(* whoever finds its claim may fire the proposal again.                    *)
(***************************************************************************)
EXTENDS AlpacaOrder, Integers, Sequences, FiniteSets, Functions

CONSTANTS
  Props,       \* proposals
  Kind,        \* [Props -> {"equity", "single", "covered", "mleg"}]
  Setups       \* deployments, see Setup

Legs         == {"main", "cover", "unwind"}
OrderOf      == {o \in Props \X Legs : o[2] = "main" \/ Kind[o[1]] = "covered"}
ComboOf      == {<<p, "main">> : p \in {q \in Props : Kind[q] = "mleg"}}

\* backend: where orders go.  caps: the portfolio cap is armed.  active: the
\* proposals that are fired, each at most maxFires times (bound of the runs).
\* cash: what the deterministic book may spend.
Setup == [backend : {"alpaca", "deterministic"}, caps : BOOLEAN,
          active : SUBSET Props, maxFires : Nat, cash : Nat]

ASSUME ReactorsAssumption ==
  /\ Kind \in [Props -> {"equity", "single", "covered", "mleg"}]
  /\ Setups \subseteq Setup
  /\ Orders = OrderOf /\ Combos = ComboOf

VARIABLES
  setup,         \* the deployment, chosen once
  fire,          \* [Props -> Fire], where the fire of a proposal stands
  outcome,       \* [Props -> Outcomes], what the fire told its caller
  fires,         \* [Props -> 0..setup.maxFires]
  bus,           \* [Props -> Seq(Family)], records on the executions bus
  book,          \* [Props -> Family], units in the book
  gaps           \* proposals of which an apply was lost

vars == <<broker, call, setup, fire, outcome, fires, bus, book, gaps>>

\* Units per leg.  A no-fill record has none.
Family   == [main : 0..Qty, cover : 0..Qty]
Nothing  == [main |-> 0, cover |-> 0]
Leaves   == {"main", "cover"}

Steps    == {"idle", "scan", "clip", "main", "cover", "unwind", "cap", "write",
             "apply"}
Fire     == [at : Steps, family : Family, left : SUBSET Leaves]
Outcomes == {"new", "firing", "filled", "handed_back", "held", "crashed"}
Idle     == [at |-> "idle", family |-> Nothing, left |-> {}]

TypeOK ==
  /\ OrderTypeOK
  /\ setup \in Setups
  /\ fire \in [Props -> Fire]
  /\ outcome \in [Props -> Outcomes]
  /\ fires \in [Props -> 0..setup.maxFires]
  /\ bus \in [Props -> Seq(Family)]
  /\ book \in [Props -> Family]
  /\ gaps \subseteq Props

Init ==
  /\ OrderInit
  /\ setup \in Setups
  /\ fire = [p \in Props |-> Idle]
  /\ outcome = [p \in Props |-> "new"]
  /\ fires = [p \in Props |-> 0]
  /\ bus = [p \in Props |-> <<>>]
  /\ book = [p \in Props |-> Nothing]
  /\ gaps = {}

-----------------------------------------------------------------------------
Alpaca    == setup.backend = "alpaca"
At(p, l)  == fire[p].at = l
Goes(p, l) == fire' = [fire EXCEPT ![p].at = l]

\* execute returns or raises, and the handler ends with outcome r.
Finish(p, r) == /\ fire' = [fire EXCEPT ![p] = Idle]
               /\ outcome' = [outcome EXCEPT ![p] = r]

records == <<bus, book, gaps>>
deploy  == <<setup, fires>>

\* Mutant: the short option first.
FirstLeg_Short(p) == "main"

\* The first leg is the cover of a covered structure.
FirstLeg(p) == IF Kind[p] = "covered" THEN "cover" ELSE "main"

\* A record that moved capital.
Capital(f) == f.main + f.cover > 0

\* quant_approve claims and calls the reactor.  A proposal that was handed back
\* is approved again; one whose fire died is fired again by whoever frees it.
Fires(p) ==
  /\ p \in setup.active
  /\ outcome[p] \in {"new", "handed_back", "held", "crashed"}
  /\ fires[p] < setup.maxFires
  /\ fires' = [fires EXCEPT ![p] = @ + 1]
  /\ fire' = [fire EXCEPT ![p] = [Idle EXCEPT !.at = "scan"]]
  /\ outcome' = [outcome EXCEPT ![p] = "firing"]
  /\ call' = [o \in Orders |-> IF o[1] = p THEN NoCall ELSE call[o]]
  /\ UNCHANGED <<broker, setup, records>>

\* Mutant: nobody looks at the bus.
Recorded_Never(p) == FALSE

\* A family of this proposal on the bus (_existing_parent), or an actual fill
\* (_existing_fill): returned as it is.  AlpacaPaperReactor does not look.
Recorded(p) == /\ ~(Alpaca /\ Kind[p] = "equity")
               /\ \E i \in 1..Len(bus[p]) : Capital(bus[p][i])

Scan(p) ==
  /\ At(p, "scan")
  /\ IF Recorded(p) THEN Finish(p, "filled")
     ELSE Goes(p, IF Kind[p] = "equity" /\ ~Alpaca THEN "clip" ELSE FirstLeg(p))
          /\ UNCHANGED outcome
  /\ UNCHANGED <<broker, call, deploy, records>>

\* Refused before any order: the gate did not pass, no price, no equity, not
\* admissible, too small.  The reactor raises, or returns a no-fill record, of
\* which only some reach the bus.
Refuse(p) ==
  /\ At(p, "scan") /\ ~Recorded(p)
  /\ \/ Finish(p, "held") /\ UNCHANGED bus
     \/ /\ Finish(p, "handed_back")
        /\ bus' \in {bus, [bus EXCEPT ![p] = Append(@, Nothing)]}
  /\ UNCHANGED <<broker, call, deploy, book, gaps>>

\* _portfolio_cap_clip of the deterministic equity reactor, before the submit:
\* the size is cut, of which the choice of size in SubmitLeg is a model, or
\* the fire is silenced.
Clip(p) ==
  /\ At(p, "clip")
  /\ \/ Goes(p, "main") /\ UNCHANGED outcome
     \/ setup.caps /\ Finish(p, "handed_back")
  /\ UNCHANGED <<broker, call, deploy, records>>

-----------------------------------------------------------------------------
(***************************************************************************)
(* Orders.                                                                 *)
(***************************************************************************)
Order(p) == <<p, fire[p].at>>
Ordering(p) == fire[p].at \in Legs

\* The short option covers what the cover asked for; the unwind sells what the
\* cover filled.
Sizes(p) ==
  CASE At(p, "unwind") -> {fire[p].family.cover}
    [] At(p, "main") /\ Kind[p] = "covered" -> {Qty}
    [] At(p, "cover") -> {Qty}
    [] OTHER -> 1..Qty

\* What a family costs: a short option and a cash-secured put bring cash.
Debit(p) == Kind[p] \in {"equity", "mleg"}
Cost(p, f) == f.cover + IF Debit(p) THEN f.main ELSE 0

\* What the book has spent, and whether an order is a purchase.
Spent   == SumFunction([p \in Props |-> Cost(p, book[p])])
Buys(p) == At(p, "cover") \/ (At(p, "main") /\ Debit(p))

\* The deterministic backend: filled whole, unless it is a purchase that the
\* cash of the book does not cover, or the book cannot be read.
FillAtOnce(o, n) ==
  /\ broker' = [broker EXCEPT ![o] = [status |-> "filled", size |-> n, filled |-> n]]
  /\ Ends(o, Filled(broker'[o]))

SubmitAtDeterministic(p, n) ==
  /\ call[Order(p)].at = "idle"
  /\ \/ (Buys(p) => Spent + n <= setup.cash) /\ FillAtOnce(Order(p), n)
     \/ Ends(Order(p), Raised) /\ UNCHANGED broker

SubmitLeg(p) ==
  /\ Ordering(p)
  /\ \E n \in Sizes(p) : IF Alpaca THEN Submit(Order(p), n)
                         ELSE SubmitAtDeterministic(p, n)
  /\ UNCHANGED <<deploy, fire, outcome, records>>

\* The poll, the cancel and the read after it.
SettleLeg(p) ==
  /\ Ordering(p)
  /\ ClientStep(Order(p))
  /\ UNCHANGED <<deploy, fire, outcome, records>>

Answer(p)  == call[Order(p)].result
Answered(p) == Ordering(p) /\ call[Order(p)].at = "done"

\* FillResult.is_fill, _guard_result: what is left of a closed order is none, nor
\* is the part of one that is read as pending_* after its cancel.
IsFill(r) == r.kind = "fill" /\ r.status \in {"filled", "partial"}

-----------------------------------------------------------------------------
(***************************************************************************)
(* What the answer makes of the fire.                                      *)
(***************************************************************************)
Takes(p, f, next) ==
  fire' = [fire EXCEPT ![p] = [at |-> next, family |-> f, left |-> {}]]

\* Mutant: what was ordered is recorded, not what was filled.
EquityAtAlpaca_AsOrdered(p) ==
  /\ Alpaca /\ Kind[p] = "equity" /\ Answered(p)
  /\ IF Answer(p).kind = "raised" THEN Finish(p, "held")
     ELSE /\ Takes(p, [Nothing EXCEPT !.main = broker[Order(p)].size], "write")
          /\ UNCHANGED outcome
  /\ UNCHANGED <<broker, call, deploy, records>>

\* AlpacaPaperReactor: a fill, partial or not, is recorded; an unfilled order is
\* recorded as such; an exception leaves the proposal approved.
EquityAtAlpaca(p) ==
  /\ Alpaca /\ Kind[p] = "equity" /\ Answered(p)
  /\ IF Answer(p).kind = "raised" THEN Finish(p, "held")
     ELSE /\ Takes(p, [Nothing EXCEPT !.main = Answer(p).qty], "write")
          /\ UNCHANGED outcome
  /\ UNCHANGED <<broker, call, deploy, records>>

\* DeterministicEquityReactor: whatever is no fill is a no-fill record.
EquityAtDeterministic(p) ==
  /\ ~Alpaca /\ Kind[p] = "equity" /\ Answered(p)
  /\ Takes(p, [Nothing EXCEPT !.main = IF IsFill(Answer(p)) THEN Answer(p).qty
                                       ELSE 0], "write")
  /\ UNCHANGED <<broker, call, deploy, outcome, records>>

\* MultiLegPaperReactor, the whole structure in one order: a fill goes to the
\* cap, anything else is handed back without a record.
Structure(p) ==
  /\ Kind[p] \in {"single", "mleg"} /\ Answered(p)
  /\ IF IsFill(Answer(p))
     THEN Takes(p, [Nothing EXCEPT !.main = Answer(p).qty], "cap") /\ UNCHANGED outcome
     ELSE Finish(p, "handed_back")
  /\ UNCHANGED <<broker, call, deploy, records>>

\* The cover first: the short is ordered under a filled cover only.
CoverAnswered(p) ==
  /\ Kind[p] = "covered" /\ At(p, "cover") /\ Answered(p)
  /\ IF IsFill(Answer(p))
     THEN /\ fire' = [fire EXCEPT ![p].at = "main",
                                  ![p].family.cover = Answer(p).qty]
          /\ UNCHANGED outcome
     ELSE Finish(p, "handed_back")
  /\ UNCHANGED <<broker, call, deploy, records>>

\* The short: both legs are filled, or the cover is unwound.
ShortAnswered(p) ==
  /\ Kind[p] = "covered" /\ At(p, "main") /\ Answered(p)
  /\ IF IsFill(Answer(p))
     THEN Takes(p, [fire[p].family EXCEPT !.main = Answer(p).qty], "cap")
     ELSE Goes(p, "unwind")
  /\ UNCHANGED <<broker, call, deploy, outcome, records>>

\* Mutant: a failed unwind is no fill either.
UnwindAnswered_Hidden(p) ==
  /\ At(p, "unwind") /\ Answered(p)
  /\ Finish(p, "handed_back")
  /\ UNCHANGED <<broker, call, deploy, records>>

\* The unwind: nothing stands, or the cover alone is written (cover_unwind_failed),
\* and the cap is not asked.
UnwindAnswered(p) ==
  /\ At(p, "unwind") /\ Answered(p)
  /\ IF IsFill(Answer(p)) THEN Finish(p, "handed_back")
     ELSE Takes(p, fire[p].family, "write") /\ UNCHANGED outcome
  /\ UNCHANGED <<broker, call, deploy, records>>

\* _portfolio_cap_silence: the family fits, or it is silenced as a whole.
Cap(p) ==
  /\ At(p, "cap")
  /\ \/ Goes(p, "write") /\ UNCHANGED outcome
     \/ setup.caps /\ Finish(p, "handed_back")
  /\ UNCHANGED <<broker, call, deploy, records>>

-----------------------------------------------------------------------------
(***************************************************************************)
(* The record and the book.                                                *)
(***************************************************************************)
Moved(f) == {l \in Leaves : f[l] > 0}

\* Parent and children in one append.  A no-fill record ends the fire.
WriteFamily(p) ==
  /\ At(p, "write")
  /\ bus' = [bus EXCEPT ![p] = Append(@, fire[p].family)]
  /\ IF Capital(fire[p].family)
     THEN /\ fire' = [fire EXCEPT ![p].at = "apply",
                                  ![p].left = Moved(fire[p].family)]
          /\ UNCHANGED outcome
     ELSE Finish(p, "handed_back")
  /\ UNCHANGED <<broker, call, deploy, book, gaps>>

\* _reconcile_state: the children one by one, options before stock.  The first
\* that fails ends the loop, and the fire is a fill all the same.
NextChild(p) == IF "main" \in fire[p].left THEN "main" ELSE "cover"

ApplyChild(p) ==
  /\ At(p, "apply") /\ fire[p].left # {}
  /\ \/ /\ book' = [book EXCEPT ![p][NextChild(p)] = fire[p].family[NextChild(p)]]
        /\ fire' = [fire EXCEPT ![p].left = @ \ {NextChild(p)}]
        /\ UNCHANGED gaps
     \/ /\ gaps' = gaps \cup {p}
        /\ fire' = [fire EXCEPT ![p].left = {}]
        /\ UNCHANGED book
  /\ UNCHANGED <<broker, call, deploy, outcome, bus>>

Returns(p) ==
  /\ At(p, "apply") /\ fire[p].left = {}
  /\ Finish(p, "filled")
  /\ UNCHANGED <<broker, call, deploy, records>>

\* The process dies; an apply that did not happen will not.
Crash(p) ==
  /\ ~At(p, "idle")
  /\ Finish(p, "crashed")
  /\ gaps' = IF fire[p].left # {} THEN gaps \cup {p} ELSE gaps
  /\ UNCHANGED <<broker, call, deploy, bus, book>>

-----------------------------------------------------------------------------
ReactorStep(p) ==
  \/ Scan(p) \/ Refuse(p) \/ Clip(p) \/ SubmitLeg(p) \/ SettleLeg(p)
  \/ EquityAtAlpaca(p) \/ EquityAtDeterministic(p) \/ Structure(p)
  \/ CoverAnswered(p) \/ ShortAnswered(p) \/ UnwindAnswered(p) \/ Cap(p)
  \/ WriteFamily(p) \/ ApplyChild(p) \/ Returns(p)

BrokerActs == \E o \in Orders : /\ BrokerStep(o)
                                /\ UNCHANGED <<deploy, fire, outcome, records>>

Next == (\E p \in Props : Fires(p) \/ ReactorStep(p) \/ Crash(p)) \/ BrokerActs

Spec == Init /\ [][Next]_vars

\* A fire that is not killed goes on: every call to the broker is bounded by a
\* time limit, and the poll by its deadline.
FairSpec == Spec /\ \A p \in Props : WF_vars(ReactorStep(p))

-----------------------------------------------------------------------------
(***************************************************************************)
(* Properties.                                                             *)
(***************************************************************************)
\* A record on the bus is a fill of the broker, leg by leg, and what the book
\* holds is on the bus; it is all of it unless an apply was lost.  A proposal
\* that was handed back, to be approved again, has moved nothing, where the
\* reactor looks at the bus.
Backed ==
  \A p \in Props :
    /\ \A i \in 1..Len(bus[p]) : \A l \in Moved(bus[p][i]) :
         bus[p][i][l] <= broker[<<p, l>>].filled
    /\ book[p] # Nothing =>
         \E i \in 1..Len(bus[p]) : \A l \in Leaves : book[p][l] <= bus[p][i][l]
    /\ outcome[p] = "filled" /\ p \notin gaps =>
         \E i \in 1..Len(bus[p]) : bus[p][i] = book[p] /\ Capital(book[p])
    /\ outcome[p] = "handed_back" /\ ~(Alpaca /\ Kind[p] = "equity") =>
         \A i \in 1..Len(bus[p]) : ~Capital(bus[p][i])

\* However often a proposal is fired, and wherever a fire dies, it moves
\* capital on the bus once (F-1, P2-A, the scan for a parent).
FamilyOnce ==
  \A p \in Props :
    Cardinality({i \in 1..Len(bus[p]) : Capital(bus[p][i])}) <= 1

\* e572: the short option of a covered structure is at the broker only when
\* its cover has filled, at least in part.
CoverFirst ==
  \A p \in Props :
    Kind[p] = "covered" /\ broker[<<p, "main">>].status # "unknown"
      => broker[<<p, "cover">>].filled > 0

\* A cover that was taken for a fill is on the bus, or its unwind was taken for
\* a fill, or the cap has silenced the family, whenever the handler has returned.
CoverAccounted ==
  \A p \in Props :
    /\ outcome[p] \in {"filled", "handed_back"} /\ Kind[p] = "covered"
    /\ IsFill(call[<<p, "cover">>].result)
    => \/ \E i \in 1..Len(bus[p]) : bus[p][i].cover > 0
       \/ IsFill(call[<<p, "unwind">>].result)
       \/ setup.caps /\ IsFill(call[<<p, "main">>].result)

\* A fire comes to an end, however the broker answers.
EveryFireReturns ==
  \A p \in Props : outcome[p] = "firing" ~> outcome[p] # "firing"

(***************************************************************************)
(* What the documents say, and the code does not keep.                     *)
(***************************************************************************)
\* "A naked short is now structurally impossible": the units of the short are
\* covered by stock that was bought and not sold.
NoNakedShort ==
  \A p \in Props :
    Kind[p] = "covered"
      => broker[<<p, "main">>].filled
           <= broker[<<p, "cover">>].filled - broker[<<p, "unwind">>].filled
=============================================================================
