------------------------------ MODULE LossRail ------------------------------
(***************************************************************************)
(* The loss rail of the autonomous tick (autonomous.py): every cron tick   *)
(* adds up the profit and loss that the executions bus has realised, by    *)
(* matching exits to entries first in, first out (join_exit_fills of       *)
(* daemon/settlement_loop.py), and trips a durable kill switch when it     *)
(* falls to the threshold.  A tick does not read the whole bus: a          *)
(* checkpoint file keeps how far the last one came, the sum so far and the *)
(* lots still open, and is ignored when the bus or the interpretation of   *)
(* its sizes is not the one it was made from.                              *)
(*                                                                         *)
(* One instrument of one account, without fees.  Sizes are integers, units *)
(* of net asset value; a lot of n units is n lots of one unit.  The bus    *)
(* holds whole records: a line still being written is not consumed.        *)
(***************************************************************************)
EXTENDS Integers, Sequences, FiniteSetsExt

CONSTANTS
  Ticks,
  Normalized,      \* the ticks with HERMES_QUANT_DELTA_NORMALIZER=1
  Fills,           \* the records that reactors append
  Scale,           \* makes the return of every pair of prices an integer
  Threshold,       \* kill_switch_pct, in units of 1/Scale
  MaxFills,        \* bound of the runs, on the records ever appended
  NoCheckpoint, NoValue

Checkpoint == [offset : Nat, archived : Nat, normalized : BOOLEAN, sum : Int,
               side : {-1, 0, 1}, lots : Seq(Nat \ {0}), latest : Nat]

ASSUME LossRailAssumption ==
  /\ Normalized \subseteq Ticks
  /\ Fills \subseteq [asof : Nat, size : Int, price : Nat \ {0}]
  /\ Scale \in Nat \ {0}
  /\ \A e, x \in Fills : (Scale * (x.price - e.price)) % e.price = 0
  /\ Threshold \in Nat \ {0} /\ MaxFills \in Nat
  /\ NoCheckpoint \notin Checkpoint

VARIABLES
  bus,         \* executions.jsonl: sequence of records, in file order
  archived,    \* how many records resets have taken off the bus: no two
               \* records are the same, so it is what the fingerprint of a
               \* prefix of the bus tells
  ckpt,        \* executions.jsonl.killswitch_cum_pnl_ckpt.json
  lastKnown,   \* autonomous_cum_pnl_last_known.json
  tripped,     \* autonomous_kill_switch.json is there
  pc,          \* where each tick stands
  work,        \* the checkpoint a tick has read, then the one it will write
  value        \* the cumulative profit and loss a tick has computed

files == <<ckpt, lastKnown, tripped>>
vars  == <<bus, archived, files, pc, work, value>>

TypeOK ==
  /\ bus \in Seq(Fills)
  /\ archived \in Nat
  /\ ckpt \in Checkpoint \cup {NoCheckpoint}
  /\ lastKnown \in Int \cup {NoValue}
  /\ tripped \in BOOLEAN
  /\ pc \in [Ticks -> {"idle", "compute", "checkpoint", "remember", "decide"}]
  /\ work \in [Ticks -> Checkpoint \cup {NoCheckpoint}]
  /\ value \in [Ticks -> Int]

Init ==
  /\ bus = <<>> /\ archived = 0
  /\ ckpt = NoCheckpoint /\ lastKnown = NoValue /\ tripped = FALSE
  /\ pc    = [t \in Ticks |-> "idle"]
  /\ work  = [t \in Ticks |-> NoCheckpoint]
  /\ value = [t \in Ticks |-> 0]

-----------------------------------------------------------------------------
(***************************************************************************)
(* join_exit_fills and the sum over its round trips.  A queue of open lots *)
(* has one side; a fill of that side is added to it, one of the other side *)
(* closes the oldest lots and opens what is left of it.                    *)
(***************************************************************************)
Book == [side : {-1, 0, 1}, lots : Seq(Nat \ {0}), sum : Int]

Flat == [side |-> 0, lots |-> <<>>, sum |-> 0]

\* The book that a checkpoint carries.
BookOf(c) == [side |-> c.side, lots |-> c.lots, sum |-> c.sum]

Return(side, entry, exit) == side * ((Scale * (exit - entry)) \div entry)

Unit(side, price) == [book \in Book |->
  IF book.lots = <<>> \/ book.side = side
  THEN [side |-> side, lots |-> Append(book.lots, price), sum |-> book.sum]
  ELSE [side |-> IF Len(book.lots) = 1 THEN 0 ELSE book.side,
        lots |-> Tail(book.lots),
        sum  |-> book.sum + Return(book.side, Head(book.lots), price)]]

Trade(book, delta, price) ==
  LET side  == IF delta > 0 THEN 1 ELSE -1
      units == IF delta > 0 THEN delta ELSE -delta
      after[n \in 0 .. units] == IF n = 0 THEN book ELSE Unit(side, price)[after[n - 1]]
  IN  after[units]

\* The order of the records: by asof, ties in bus order.
Precedes(recs, m, n) == \/ recs[m].asof < recs[n].asof
                        \/ recs[m].asof = recs[n].asof /\ m <= n

Last(recs, todo) == CHOOSE n \in todo : \A m \in todo : Precedes(recs, m, n)

\* What the last of them trades.  Under the normalizer a size is the target
\* after the fill, and the fill is the difference to the target before, which
\* is 0 for the first record: every call makes its own normalizer.
Traded(recs, todo, normalized) ==
  LET size   == recs[Last(recs, todo)].size
      before == todo \ {Last(recs, todo)}
  IN  IF ~normalized \/ before = {} THEN size ELSE size - recs[Last(recs, before)].size

\* The records at some places of the bus, joined to a book.
Join(recs, places, book, normalized) ==
  LET after[todo \in SUBSET places] ==
        IF todo = {} THEN book
        ELSE Trade(after[todo \ {Last(recs, todo)}], Traded(recs, todo, normalized),
                   recs[Last(recs, todo)].price)
  IN  after[places]

\* What the fills of the bus, as sizes to be summed, have realised.
Realised == Join(bus, DOMAIN bus, Flat, FALSE).sum

LatestOf(places, floor) == Max({floor} \cup {bus[n].asof : n \in places})

-----------------------------------------------------------------------------
(***************************************************************************)
(* One tick, up to its decision.                                           *)
(***************************************************************************)
Step(t, from, to) == pc[t] = from /\ pc' = [pc EXCEPT ![t] = to]

\* Mutant: a checkpoint made under the other flag is taken.
Begin_AnyFlag(t) ==
  /\ ~tripped
  /\ Step(t, "idle", "compute")
  /\ work' = [work EXCEPT ![t] = ckpt]
  /\ UNCHANGED <<bus, archived, files, value>>

\* The stored switch halts the tick before anything is computed, then the
\* checkpoint is read: a trip in between is one that comes just after.
Begin(t) ==
  /\ ~tripped
  /\ Step(t, "idle", "compute")
  /\ work' = [work EXCEPT ![t] =
       IF ckpt # NoCheckpoint /\ ckpt.normalized # (t \in Normalized)
       THEN NoCheckpoint ELSE ckpt]
  /\ UNCHANGED <<bus, archived, files, value>>

\* Mutants: only a bus that shrank is noticed; a late record is joined to
\* what is settled already.
Continues_SizeOnly(c) == c # NoCheckpoint /\ c.offset <= Len(bus)

InSequence_Any(c) == TRUE

\* The bus still begins with the records that the checkpoint consumed.
Continues(c) ==
  /\ c # NoCheckpoint
  /\ c.offset <= Len(bus)
  /\ c.archived = archived

\* No new record is older than one that is consumed: the round trips it
\* would have changed are gone.
InSequence(c) == \A n \in c.offset + 1 .. Len(bus) : bus[n].asof >= c.latest

\* The bus is read and settled, past the checkpoint or from its beginning.
ComputePnl(t) ==
  LET incremental == Continues(work[t]) /\ InSequence(work[t])
      start  == IF incremental THEN work[t].offset ELSE 0
      new    == start + 1 .. Len(bus)
      before == IF incremental THEN BookOf(work[t]) ELSE Flat
      after  == Join(bus, new, before, t \in Normalized)
  IN  /\ pc[t] = "compute"
      /\ IF ~incremental /\ bus = <<>>
         THEN /\ pc'    = [pc EXCEPT ![t] = "decide"]
              /\ work'  = [work EXCEPT ![t] = NoCheckpoint]
              /\ value' = [value EXCEPT ![t] = 0]
         ELSE /\ pc'    = [pc EXCEPT ![t] = "checkpoint"]
              /\ value' = [value EXCEPT ![t] = after.sum]
              /\ work'  = [work EXCEPT ![t] =
                   [offset |-> Len(bus), archived |-> archived,
                    normalized |-> t \in Normalized,
                    sum |-> after.sum, side |-> after.side, lots |-> after.lots,
                    latest |-> LatestOf(new, IF incremental THEN work[t].latest ELSE 0)]]
      /\ UNCHANGED <<bus, archived, files>>

\* Mutant: the last known value is taken although there is none.
ComputeFails_NoDefault(t) ==
  /\ Step(t, "compute", "decide")
  /\ work'  = [work EXCEPT ![t] = NoCheckpoint]
  /\ value' = [value EXCEPT ![t] = lastKnown]
  /\ UNCHANGED <<bus, archived, files>>

\* The bus cannot be read or settled: the last known value stands in.
ComputeFails(t) ==
  /\ Step(t, "compute", "decide")
  /\ work'  = [work EXCEPT ![t] = NoCheckpoint]
  /\ value' = [value EXCEPT ![t] = IF lastKnown = NoValue THEN 0 ELSE lastKnown]
  /\ UNCHANGED <<bus, archived, files>>

\* Best effort: the file may stay as it was, or be left unreadable by two
\* ticks that write it through one temporary file.  An unreadable checkpoint
\* is none.
PersistCheckpoint(t) ==
  /\ Step(t, "checkpoint", "remember")
  /\ ckpt' \in {[work[t] EXCEPT !.archived = archived], ckpt, NoCheckpoint}
  /\ work' = [work EXCEPT ![t] = NoCheckpoint]
  /\ UNCHANGED <<bus, archived, lastKnown, tripped, value>>

PersistLastKnown(t) ==
  /\ Step(t, "remember", "decide")
  /\ lastKnown' \in {value[t], lastKnown}
  /\ UNCHANGED <<bus, archived, ckpt, tripped, work, value>>

\* Mutant: a loss of exactly the threshold is let through.
Breaches_Below(v) == v < -Threshold

Breaches(v) == v <= -Threshold

\* trip_kill_switch, or on to the advisor and the fires.
Trip(t) ==
  /\ Breaches(value[t])
  /\ Step(t, "decide", "idle")
  /\ tripped' = TRUE
  /\ value' = [value EXCEPT ![t] = 0]
  /\ UNCHANGED <<bus, archived, ckpt, lastKnown, work>>

Pass(t) ==
  /\ ~Breaches(value[t])
  /\ Step(t, "decide", "idle")
  /\ value' = [value EXCEPT ![t] = 0]
  /\ UNCHANGED <<bus, archived, files, work>>

Crash(t) ==
  /\ pc[t] # "idle"
  /\ pc'    = [pc EXCEPT ![t] = "idle"]
  /\ work'  = [work EXCEPT ![t] = NoCheckpoint]
  /\ value' = [value EXCEPT ![t] = 0]
  /\ UNCHANGED <<bus, archived, files>>

-----------------------------------------------------------------------------
\* A reactor appends a fill, of this tick or of any other process.  Fills are
\* stamped before their locks are waited for (module Ledger), so in no order.
AppendFill(r) ==
  /\ archived + Len(bus) < MaxFills
  /\ bus' = Append(bus, r)
  /\ UNCHANGED <<archived, files, pc, work, value>>

\* quant-reset-paper-book.py: the bus is archived and truncated in place.  It
\* is a tool for a deployment whose crons are stopped.
ResetBook ==
  /\ bus # <<>>
  /\ \A t \in Ticks : pc[t] = "idle"
  /\ bus' = <<>>
  /\ archived' = archived + Len(bus)
  /\ UNCHANGED <<files, pc, work, value>>

ResetKillSwitch ==
  /\ tripped
  /\ tripped' = FALSE
  /\ UNCHANGED <<bus, archived, ckpt, lastKnown, pc, work, value>>

Proceed(t) ==
  \/ Begin(t) \/ ComputePnl(t) \/ ComputeFails(t)
  \/ PersistCheckpoint(t) \/ PersistLastKnown(t) \/ Trip(t) \/ Pass(t)

Next ==
  \/ \E t \in Ticks : Proceed(t) \/ Crash(t)
  \/ \E r \in Fills : AppendFill(r)
  \/ ResetBook \/ ResetKillSwitch

Spec == Init /\ [][Next]_vars

\* Cron starts a tick again and again, and it is not killed, or unable to
\* read the bus, at the same place every time.
Fairness ==
  \A t \in Ticks \ Normalized :
    /\ WF_vars(Begin(t) \/ Pass(t))
    /\ SF_vars(ComputePnl(t))
    /\ SF_vars(PersistCheckpoint(t)) /\ SF_vars(PersistLastKnown(t))
    /\ SF_vars(Trip(t))

FairSpec == Spec /\ Fairness

-----------------------------------------------------------------------------
(***************************************************************************)
(* Properties.                                                             *)
(***************************************************************************)
\* What a tick computes past a checkpoint, any number of ticks after the
\* first, is what it would have computed from the whole bus, and so is what
\* the checkpoint says: the sum, and the lots that are still open.
EqualsReplay(c, normalized) ==
  BookOf(c) = Join(bus, 1 .. c.offset, Flat, normalized)

\* ... for a tick that sums the sizes, whatever ticks of the other flag did
\* to the checkpoint in between; and that sum is what the tick will decide on.
SummedIsReplay ==
  \A t \in Ticks \ Normalized : pc[t] = "checkpoint" =>
    EqualsReplay(work[t], FALSE) /\ value[t] = work[t].sum

\* A book that has lost the threshold trips the switch, unless it recovers or
\* is reset first, in spite of crashes, checkpoints that are lost, and ticks
\* that take the sizes for targets.
Breached == Realised <= -Threshold

LossTrips == Breached ~> (tripped \/ ~Breached)
=============================================================================
