------------------------------ MODULE AutoTick ------------------------------
(***************************************************************************)
(* The autonomous tick (autonomous.py): the cron and the agent's tool call *)
(* both run it, so two ticks may overlap.  A tick reads the kill switch,   *)
(* takes the rail lock of the account, counts the open book, runs the stop *)
(* sweep over it and walks the watchlist, firing within the rails.  The    *)
(* HITL approvals write to the same book and never take the lock.          *)
(*                                                                         *)
(* open is what the executions bus says is held: the symbols whose latest  *)
(* target is not zero (a multi-leg record has target zero, so the book     *)
(* that the tick counts holds no options play).  A reactor is one step:    *)
(* Reactors and Ledger hold what happens inside.  A dry run takes the same *)
(* path with no reactor call, and is left out.                             *)
(***************************************************************************)
EXTENDS Integers, Sequences, FiniteSets

CONSTANTS
  Symbols,         \* symbols that may be held
  Ticks,           \* processes that run a tick: the cron, the tool
  Nobody,          \* the rail lock is free
  MaxConcurrent,   \* max_concurrent_positions
  MaxOpens,        \* max_per_tick_opens
  Setups           \* deployments, see Setup

NoRepeats(w) == \A i, j \in DOMAIN w : w[i] = w[j] => i = j

\* watch: the watchlist.  stop: HERMES_QUANT_PER_POSITION_STOP.  options:
\* HERMES_QUANT_AUTONOMOUS_OPTIONS.  infra: the lock file may be unusable.
\* held: the book at the start.  others: the symbols that the market and the
\* approvals move (a bound of the runs).
Setup == [watch : {w \in Seq(Symbols) : NoRepeats(w)}, stop : BOOLEAN,
          options : BOOLEAN, infra : BOOLEAN, held : SUBSET Symbols,
          others : SUBSET Symbols]

ASSUME AutoTickAssumption ==
  /\ IsFiniteSet(Symbols) /\ Nobody \notin Ticks
  /\ MaxConcurrent \in Nat /\ MaxOpens \in Nat
  /\ \A s \in Setups :
       /\ DOMAIN s = {"watch", "stop", "options", "infra", "held", "others"}
       /\ s.watch \in Seq(Symbols) /\ NoRepeats(s.watch)
       /\ {s.stop, s.options, s.infra} \subseteq BOOLEAN
       /\ s.held \subseteq Symbols /\ s.others \subseteq Symbols

VARIABLES
  setup,     \* the deployment, chosen once
  open,      \* symbols held, by the executions bus
  losing,    \* held or not, the symbols whose mark is past the stop
  tripped,   \* kill_switch.json says tripped
  rail,      \* who holds the rail lock
  tick       \* [Ticks -> Tick]

vars == <<setup, open, losing, tripped, rail, tick>>

Steps == {"idle", "wait", "count", "sweep", "loop"}

\* start, counted, failed, fires, stopped, next: the locals of tick().  sweep:
\* positions the sweep has still to look at.  Three histories: calm says that the
\* tick holds the lock and that since its count only ticks under the lock wrote to
\* the book, base is the book at that count while calm, flattened are the symbols
\* whose position this sweep closed.
Tick == [at : Steps, start : SUBSET Symbols, counted : 0..Cardinality(Symbols),
         failed : BOOLEAN, fires : 0..MaxOpens, stopped : SUBSET Symbols,
         sweep : SUBSET Symbols, next : Nat, base : SUBSET Symbols,
         calm : BOOLEAN, flattened : SUBSET Symbols]

Idle == [at |-> "idle", start |-> {}, counted |-> 0, failed |-> FALSE,
         fires |-> 0, stopped |-> {}, sweep |-> {}, next |-> 1, base |-> {},
         calm |-> TRUE, flattened |-> {}]

(* The types; and no tick fires more often than its rail allows. *)
TypeOK ==
  /\ setup \in Setups
  /\ open \subseteq Symbols
  /\ losing \subseteq Symbols
  /\ tripped \in BOOLEAN
  /\ rail \in Ticks \cup {Nobody}
  /\ tick \in [Ticks -> Tick]

Init ==
  /\ setup \in Setups
  /\ open = setup.held
  /\ losing = {}
  /\ tripped = FALSE
  /\ rail = Nobody
  /\ tick = [t \in Ticks |-> Idle]

-----------------------------------------------------------------------------
At(t, l)      == tick[t].at = l
InRegion(t)   == tick[t].at \in {"count", "sweep", "loop"}
Guarded(t)    == rail = t
Goes(t, l)    == tick' = [tick EXCEPT ![t].at = l]

\* Leaving the locked region, or dying in it: the kernel drops the lock.
Leave(t) == /\ tick' = [tick EXCEPT ![t] = Idle]
            /\ rail' = IF rail = t THEN Nobody ELSE rail

\* Mutant: the stored trip is not read.
Begin_NoSwitch(t, breached) ==
  /\ At(t, "idle")
  /\ tripped' = (tripped \/ breached)
  /\ IF breached \/ (setup.watch = <<>> /\ ~setup.stop)
     THEN UNCHANGED tick ELSE Goes(t, "wait")
  /\ UNCHANGED <<setup, open, losing, rail>>

\* Mutant: an empty watchlist always ends the tick.
Begin_NothingToWatch(t, breached) ==
  /\ At(t, "idle") /\ ~tripped
  /\ tripped' = breached
  /\ IF breached \/ setup.watch = <<>> THEN UNCHANGED tick ELSE Goes(t, "wait")
  /\ UNCHANGED <<setup, open, losing, rail>>

\* The mode gate is open.  A stored trip halts the tick; so does a realised loss
\* past the threshold, which is written down first.  With nothing to watch there
\* is work only for the stop sweep.
Begin(t, breached) ==
  /\ At(t, "idle") /\ ~tripped
  /\ tripped' = breached
  /\ IF breached \/ (setup.watch = <<>> /\ ~setup.stop)
     THEN UNCHANGED tick ELSE Goes(t, "wait")
  /\ UNCHANGED <<setup, open, losing, rail>>

\* Mutant: two ticks share the lock.
Acquire_Shared(t) ==
  /\ At(t, "wait")
  /\ rail' = t
  /\ Goes(t, "count")
  /\ UNCHANGED <<setup, open, losing, tripped>>

\* _account_rail_lock: the flock is taken within the time limit.
Acquire(t) ==
  /\ At(t, "wait") /\ rail = Nobody
  /\ rail' = t
  /\ Goes(t, "count")
  /\ UNCHANGED <<setup, open, losing, tripped>>

\* The lock file cannot be opened or locked at all: the tick runs unguarded.
Unguarded(t) ==
  /\ At(t, "wait") /\ setup.infra
  /\ Goes(t, "count")
  /\ UNCHANGED <<setup, open, losing, tripped, rail>>

\* Contended for the whole time limit: this tick is skipped.
Skip(t) ==
  /\ At(t, "wait") /\ rail # Nobody
  /\ Goes(t, "idle")
  /\ UNCHANGED <<setup, open, losing, tripped, rail>>

\* The count of the open book.  A read that raises leaves the book of the sweep
\* empty and sets rail_read_failed; the symbols are those read before it raised.
Count(t, failed) ==
  /\ At(t, "count")
  /\ \E got \in (IF failed THEN {{}, open} ELSE {open}) :
       tick' = [tick EXCEPT ![t] =
         [Idle EXCEPT !.at = "sweep", !.start = got,
            !.counted = Cardinality(got), !.failed = failed,
            !.calm = Guarded(t), !.base = IF Guarded(t) THEN open ELSE {},
            !.sweep = IF setup.stop /\ ~failed THEN open ELSE {}]]
  /\ UNCHANGED <<setup, open, losing, tripped, rail>>

-----------------------------------------------------------------------------
(* Reactor calls.  A call raises, answers that nothing was filled, or moves   *)
(* the position of s to an absolute target, 0 or not.                         *)

Answers == {"raised", "unfilled", "moved"}

Moved(s, target, a) == IF a # "moved" THEN open
                       ELSE IF target = 0 THEN open \ {s} ELSE open \cup {s}

\* _reactor_record_is_nofill: a size of zero is a no-fill, a flat target's too.
Nofill(target, a) == a = "unfilled" \/ target = 0

\* _react returns an execution, and not None.
Fired(target, a) == a # "raised" /\ ~Nofill(target, a)

\* A write to the book by someone who does not hold the lock is seen by the
\* histories of the ticks that have counted.
Upset(k)     == [k EXCEPT !.calm = FALSE, !.base = {}]
Disturbed(t) == [u \in Ticks |-> IF u = t \/ Guarded(t) \/ tick[u].at \in {"idle", "wait", "count"}
                                 THEN tick[u] ELSE Upset(tick[u])]

\* The sweep looks at a position.  One that is not past its stop, or that has no
\* mark or no entry price, is held.
Hold(t, s) ==
  /\ At(t, "sweep") /\ s \in tick[t].sweep
  /\ tick' = [tick EXCEPT ![t].sweep = @ \ {s}]
  /\ UNCHANGED <<setup, open, losing, tripped, rail>>

\* It is past its stop: _react(..., 0.0).  The symbol joins stopped if that fired.
Stop(t, s, a) ==
  /\ At(t, "sweep") /\ s \in tick[t].sweep /\ s \in losing
  /\ open' = Moved(s, 0, a)
  /\ tick' = [Disturbed(t) EXCEPT
       ![t].sweep = @ \ {s},
       ![t].stopped = IF Fired(0, a) THEN @ \cup {s} ELSE @,
       ![t].flattened = IF a = "moved" THEN @ \cup {s} ELSE @]
  /\ UNCHANGED <<setup, losing, tripped, rail>>

\* The slots of the stopped symbols are freed, and the watchlist loop begins.
EndSweep(t) ==
  /\ At(t, "sweep") /\ tick[t].sweep = {}
  /\ LET freed == tick[t].stopped \cap tick[t].start
     IN  tick' = [tick EXCEPT ![t].at = "loop", ![t].start = @ \ freed,
                              ![t].counted = @ - Cardinality(freed)]
  /\ UNCHANGED <<setup, open, losing, tripped, rail>>

Entry(t)   == setup.watch[tick[t].next]
Looking(t) == At(t, "loop") /\ tick[t].next \in DOMAIN setup.watch

\* The symbol was stopped, its advice failed, a gate silenced it, or a rail did.
Pass(t) ==
  /\ Looking(t)
  /\ tick' = [tick EXCEPT ![t].next = @ + 1]
  /\ UNCHANGED <<setup, open, losing, tripped, rail>>

\* Mutant: no cap on the fires of a tick.
WithinTick_Any(t) == tick[t].fires <= MaxOpens

\* The per-tick cap.
WithinTick(t) == tick[t].fires < MaxOpens

\* The concurrent-positions cap, asked for a new symbol only.
WithinBook(t) == ~tick[t].failed /\ tick[t].counted + tick[t].fires < MaxConcurrent

\* An options play is originated and fills: it takes a slot of the tick and the
\* symbol's equity path is not taken.  Only the per-tick cap is asked.
Originate(t) ==
  /\ Looking(t) /\ setup.options /\ Entry(t) \notin tick[t].stopped
  /\ WithinTick(t)
  /\ tick' = [tick EXCEPT ![t].fires = @ + 1, ![t].next = @ + 1,
                          ![t].start = @ \cup {Entry(t)}]
  /\ UNCHANGED <<setup, open, losing, tripped, rail>>

\* The gates let the signal through: _react with the size they leave, which is
\* zero when the advisor's size is not a number.
Fire(t, target, a) ==
  /\ Looking(t) /\ Entry(t) \notin tick[t].stopped
  /\ WithinTick(t)
  /\ Entry(t) \in tick[t].start \/ WithinBook(t)
  /\ open' = Moved(Entry(t), target, a)
  /\ tick' = [Disturbed(t) EXCEPT
       ![t].next = @ + 1,
       ![t].fires = IF Fired(target, a) THEN @ + 1 ELSE @]
  /\ UNCHANGED <<setup, losing, tripped, rail>>

End(t) ==
  /\ At(t, "loop") /\ ~Looking(t)
  /\ Leave(t)
  /\ UNCHANGED <<setup, open, losing, tripped>>

\* The process of a tick dies.
Crash(t) ==
  /\ ~At(t, "idle")
  /\ Leave(t)
  /\ UNCHANGED <<setup, open, losing, tripped>>

-----------------------------------------------------------------------------
(* Everyone else. *)

\* quant_approve executes a proposal on s; it asks no rail and takes no lock.
Approve(s, target) ==
  /\ open' = Moved(s, target, "moved")
  /\ tick' = [t \in Ticks |-> IF InRegion(t) /\ ~At(t, "count") THEN Upset(tick[t])
                                                              ELSE tick[t]]
  /\ UNCHANGED <<setup, losing, tripped, rail>>

\* A mark passes the stop or comes back; only the sweep looks.
Market(s) ==
  /\ setup.stop
  /\ losing' = IF s \in losing THEN losing \ {s} ELSE losing \cup {s}
  /\ UNCHANGED <<setup, open, tripped, rail, tick>>

\* trip_kill_switch and reset_kill_switch, by the operator.
Switch ==
  /\ tripped' = ~tripped
  /\ UNCHANGED <<setup, open, losing, rail, tick>>

TickStep(t) ==
  \/ Begin(t, FALSE) \/ Acquire(t) \/ Unguarded(t) \/ Skip(t)
  \/ \E failed \in BOOLEAN : Count(t, failed)
  \/ \E s \in Symbols : Hold(t, s) \/ (\E a \in Answers : Stop(t, s, a))
  \/ EndSweep(t) \/ Pass(t) \/ Originate(t)
  \/ \E target \in {0, 1}, a \in Answers : Fire(t, target, a)
  \/ End(t)

Next ==
  \/ \E t \in Ticks : TickStep(t) \/ Begin(t, TRUE) \/ Crash(t)
  \/ \E s \in setup.others : Market(s) \/ (\E target \in {0, 1} : Approve(s, target))
  \/ Switch

\* The cron starts ticks for ever and every step of a tick ends.  Not every tick
\* dies or is skipped while it waits; a read of the book and a flattening that are
\* tried again and again succeed at some time.
Fairness ==
  /\ \A t \in Ticks : WF_vars(TickStep(t))
  /\ SF_vars(\E t \in Ticks : Acquire(t))
  /\ SF_vars(\E t \in Ticks : Count(t, FALSE))
  /\ \A s \in Symbols : SF_vars(\E t \in Ticks : Stop(t, s, "moved"))

Spec     == Init /\ [][Next]_vars
FairSpec == Spec /\ Fairness

-----------------------------------------------------------------------------
(* The rails of a tick that holds the lock: as long as nobody outside the     *)
(* lock writes to the book, the tick leaves at most max_concurrent_positions  *)
(* of them, or what there was when it counted; and if the count failed, it    *)
(* adds no symbol at all.                                                     *)
RailsHold ==
  \A t \in Ticks : At(t, "loop") /\ tick[t].calm =>
    /\ \/ Cardinality(open) <= MaxConcurrent
       \/ Cardinality(open) <= Cardinality(tick[t].base)
    /\ tick[t].failed => open \subseteq tick[t].base

(* A trip that is not reset quiets the system: the ticks that had read the    *)
(* switch before it run out, and after them no tick touches the book.         *)
TickWrites == \E t \in Ticks : InRegion(t) /\ tick'[t] # tick[t] /\ open' # open
TripQuiets == <>[]tripped => <>[][~TickWrites]_vars

(* A position past its stop is closed at last, unless its mark recovers or    *)
(* the switch trips, with an empty watchlist too.                             *)
LosersExit ==
  setup.stop => \A s \in Symbols :
    (s \in open /\ s \in losing) ~> (s \notin open \/ s \notin losing \/ tripped)

(* What the comment at the slot accounting of the sweep says: a position the  *)
(* sweep closed is not opened again by the same tick.                         *)
StoppedNotReopened ==
  [][\A t \in Ticks : At(t, "loop") /\ tick'[t].next # tick[t].next =>
       (open' \ open) \cap tick[t].flattened = {}]_vars
=============================================================================
