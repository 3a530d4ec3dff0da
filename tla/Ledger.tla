------------------------------- MODULE Ledger -------------------------------
(***************************************************************************)
(* The execution ledger: PaperReactor.execute (react/paper.py) under the   *)
(* per-symbol and per-account tick locks (daemon/tick_lock.py), the        *)
(* append-only executions bus, and the portfolio book derived from it      *)
(* (state/portfolio_state.py, state/fill_delta_normalizer.py), kept up to  *)
(* date one record at a time by apply_execution and rebuilt from the bus   *)
(* by reconstruct_from.                                                    *)
(*                                                                         *)
(* Several armed crons and operator tools fire at once.  A process stamps  *)
(* its fill, takes the locks, reads the book to clip the fill to the cap,  *)
(* appends the record and then applies it to the book; the bus and the     *)
(* book are two files, so a process may die between the two.  Sizes are    *)
(* signed integers, units of net asset value.  A record is identified by   *)
(* its place in the bus: proposal identifiers are fresh, and a proposal    *)
(* fires at most once (module Proposals).                                  *)
(***************************************************************************)
EXTENDS Integers, Sequences, FiniteSetsExt

CONSTANTS
  Procs, Symbols,
  Sizes,        \* the fill sizes that may be asked for
  Setups,       \* the deployments considered, see Setup
  GrossCap,     \* the smaller of the gross cap and one minus the cash reserve
  MaxFills, MaxClock,    \* bounds of the runs
  NoFill

\* A deployment: the environment variables HERMES_QUANT_DELTA_NORMALIZER
\* (sizes are absolute targets), HERMES_QUANT_PORTFOLIO_CAPS and
\* HERMES_QUANT_ACCOUNT_LOCK, whether lock files may be unusable (the locks
\* then fail open), and when the book is rebuilt.
Setup == [normalizer : BOOLEAN, caps : BOOLEAN, accountLock : BOOLEAN,
          lockFaults : BOOLEAN, rebuild : {"never", "quiet", "online"}]

ASSUME LedgerAssumption ==
  /\ IsFiniteSet(Symbols)
  /\ Sizes \subseteq Int \ {0}
  /\ Setups \subseteq Setup
  /\ GrossCap \in Nat /\ MaxFills \in Nat /\ MaxClock \in Nat

VARIABLES
  setup,      \* the deployment, fixed in every behaviour
  bus,        \* executions.jsonl: sequence of records, in file order
  positions,  \* [Symbols -> Int], the positions table of state.db
  processed,  \* places in the bus of the records in processed_fills
  clock,      \* wall clock, in the seconds of asof_execution
  pc,         \* where each process stands in execute
  fill,       \* the fill each process is executing
  held,       \* the tick locks each process holds
  unfolded    \* history: places of the records that neither an apply nor a
              \* rebuild has folded into the book yet

local == <<pc, fill, held>>
book  == <<positions, processed, unfolded>>
vars  == <<setup, bus, clock, local, book>>

\* want is the size asked for, size what is left of it after the cap.
Record == [symbol : Symbols, size : Int, asof : Nat]
Fill   == [symbol : Symbols, want : Int, size : Int, asof : Nat, place : Nat]

TypeOK ==
  /\ setup \in Setups
  /\ bus \in Seq(Record)
  /\ positions \in [Symbols -> Int]
  /\ processed \subseteq DOMAIN bus /\ unfolded \subseteq DOMAIN bus
  /\ clock \in Nat
  /\ pc \in [Procs -> {"idle", "account", "symbol", "cap", "append", "apply"}]
  /\ fill \in [Procs -> Fill \cup {NoFill}]
  /\ held \in [Procs -> SUBSET {"account", "symbol"}]

Init ==
  /\ setup \in Setups
  /\ bus = <<>>
  /\ positions = [s \in Symbols |-> 0]
  /\ processed = {} /\ unfolded = {}
  /\ clock = 0
  /\ pc   = [q \in Procs |-> "idle"]
  /\ fill = [q \in Procs |-> NoFill]
  /\ held = [q \in Procs |-> {}]

-----------------------------------------------------------------------------
(***************************************************************************)
(* The fold of a set of records (their places) for one symbol, as          *)
(* reconstruct_from computes it: raw sizes are summed in file order; under *)
(* the normalizer the records are sorted by asof, ties in file order, each *)
(* is the difference to the one before, and the last target remains.       *)
(***************************************************************************)
Of(s, places) == {n \in places : bus[n].symbol = s}

Before(m, n) == \/ bus[m].asof < bus[n].asof
                \/ bus[m].asof = bus[n].asof /\ m <= n

Latest(places) == CHOOSE n \in places : \A m \in places : Before(m, n)

Fold(s, places) ==
  IF ~setup.normalizer
  THEN SumFunctionOnSet([n \in DOMAIN bus |-> bus[n].size], Of(s, places))
  ELSE IF Of(s, places) = {} THEN 0
  ELSE bus[Latest(Of(s, places))].size

Abs(n) == IF n < 0 THEN -n ELSE n

Gross(p) == SumFunction([s \in Symbols |-> Abs(p[s])])

-----------------------------------------------------------------------------
(***************************************************************************)
(* One call of PaperReactor.execute.                                       *)
(***************************************************************************)
Step(q, from, to) == pc[q] = from /\ pc' = [pc EXCEPT ![q] = to]

\* Return, killed or not: the operating system drops the locks with the file
\* descriptors.
Leave(q) ==
  /\ pc'   = [pc EXCEPT ![q] = "idle"]
  /\ fill' = [fill EXCEPT ![q] = NoFill]
  /\ held' = [held EXCEPT ![q] = {}]

\* Mutants: the fire sequence entered without the symbol lock; the stamp of
\* the second before.
Execute_NoLock(q, s, w) ==
  /\ Step(q, "idle", "cap")
  /\ Len(bus) < MaxFills
  /\ fill' = [fill EXCEPT ![q] =
       [symbol |-> s, want |-> w, size |-> w, asof |-> clock, place |-> 0]]
  /\ UNCHANGED <<held, bus, clock, setup, book>>

Execute_StaleStamp(q, s, w) ==
  /\ Step(q, "idle", "symbol")
  /\ Len(bus) < MaxFills
  /\ fill' = [fill EXCEPT ![q] =
       [symbol |-> s, want |-> w, size |-> w, asof |-> clock - 1, place |-> 0]]
  /\ UNCHANGED <<held, bus, clock, setup, book>>

\* asof_execution is stamped on entry, before any lock is asked for.
Execute(q, s, w) ==
  /\ Step(q, "idle", IF setup.accountLock THEN "account" ELSE "symbol")
  /\ Len(bus) < MaxFills
  /\ fill' = [fill EXCEPT ![q] =
       [symbol |-> s, want |-> w, size |-> w, asof |-> clock, place |-> 0]]
  /\ UNCHANGED <<held, bus, clock, setup, book>>

Free(q, lock) ==
  \A r \in Procs \ {q} :
    lock \in held[r] => lock = "symbol" /\ fill[r].symbol # fill[q].symbol

Following == [account |-> "symbol", symbol |-> "cap"]

\* Mutant: a lock that never excludes anyone.
AcquireLock_Shared(q, lock) ==
  /\ Step(q, lock, Following[lock])
  /\ held' = [held EXCEPT ![q] = @ \cup {lock}]
  /\ UNCHANGED <<fill, bus, clock, setup, book>>

AcquireLock(q, lock) ==
  /\ Step(q, lock, Following[lock])
  /\ Free(q, lock)
  /\ held' = [held EXCEPT ![q] = @ \cup {lock}]
  /\ UNCHANGED <<fill, bus, clock, setup, book>>

\* Held by someone else until the deadline: the fire is skipped.
LockContended(q, lock) ==
  /\ pc[q] = lock
  /\ ~Free(q, lock)
  /\ Leave(q)
  /\ UNCHANGED <<bus, clock, setup, book>>

\* The lock file cannot be opened or locked: the fire goes on without it.
LockFailsOpen(q, lock) ==
  /\ setup.lockFaults
  /\ Step(q, lock, Following[lock])
  /\ UNCHANGED <<fill, held, bus, clock, setup, book>>

\* clip_one_to_remaining_headroom.  The standard net cap never binds before
\* the cash reserve does, so it is left out.
Clip(want, room) ==
  IF Abs(want) <= room THEN want ELSE IF want > 0 THEN room ELSE -room

\* _portfolio_cap_clip.  A fill no larger than the position it replaces is
\* taken for a reduction and passes.
CapRead(q) ==
  /\ pc[q] = "cap"
  /\ LET want == fill[q].want
         room == GrossCap - Gross(positions)
     IN  \/ /\ ~setup.caps \/ Abs(want) <= Abs(positions[fill[q].symbol])
            /\ Step(q, "cap", "append")
            /\ UNCHANGED <<fill, held>>
         \/ /\ setup.caps /\ Abs(want) > Abs(positions[fill[q].symbol]) /\ room > 0
            /\ Step(q, "cap", "append")
            /\ fill' = [fill EXCEPT ![q].size = Clip(want, room)]
            /\ UNCHANGED held
         \/ /\ setup.caps /\ Abs(want) > Abs(positions[fill[q].symbol]) /\ room <= 0
            /\ Leave(q)
  /\ UNCHANGED <<bus, clock, setup, book>>

AppendRecord(q) ==
  /\ Step(q, "append", "apply")
  /\ bus' = Append(bus, [symbol |-> fill[q].symbol, size |-> fill[q].size,
                         asof |-> fill[q].asof])
  /\ fill' = [fill EXCEPT ![q].place = Len(bus) + 1]
  /\ unfolded' = unfolded \cup {Len(bus) + 1}
  /\ UNCHANGED <<held, clock, setup, positions, processed>>

\* Under the normalizer the traded delta is the target minus the quantity
\* found in the book.
Delta(q) == IF setup.normalizer THEN fill[q].size - positions[fill[q].symbol]
                          ELSE fill[q].size

\* apply_execution, one BEGIN IMMEDIATE transaction, and the return that
\* gives the locks back.
ApplyExecution(q) ==
  /\ pc[q] = "apply"
  /\ positions' = IF fill[q].place \in processed THEN positions
                  ELSE [positions EXCEPT ![fill[q].symbol] = @ + Delta(q)]
  /\ processed' = processed \cup {fill[q].place}
  /\ unfolded'  = unfolded \ {fill[q].place}
  /\ Leave(q)
  /\ UNCHANGED <<bus, clock, setup>>

\* A crash anywhere.  At "apply" this is also an apply that failed, which is
\* logged and swallowed: the record stays in the bus and not in the book.
Crash(q) ==
  /\ pc[q] # "idle"
  /\ Leave(q)
  /\ UNCHANGED <<bus, clock, setup, book>>

-----------------------------------------------------------------------------
\* Mutant: the derived tables are not cleared first.
Reconstruct_NoClear ==
  /\ setup.rebuild # "never"
  /\ setup.rebuild = "quiet" => \A q \in Procs : pc[q] = "idle"
  /\ positions' = [s \in Symbols |-> positions[s] + Fold(s, DOMAIN bus)]
  /\ unfolded' = {}
  /\ UNCHANGED <<bus, clock, setup, local, processed>>

\* reconstruct_from, atomic: the bus is read under the write lock.  It does
\* not touch processed_fills.
Reconstruct ==
  /\ setup.rebuild # "never"
  /\ setup.rebuild = "quiet" => \A q \in Procs : pc[q] = "idle"
  /\ positions' = [s \in Symbols |-> Fold(s, DOMAIN bus)]
  /\ unfolded' = {}
  /\ UNCHANGED <<bus, clock, setup, local, processed>>

Tick ==
  /\ clock < MaxClock
  /\ clock' = clock + 1
  /\ UNCHANGED <<bus, setup, local, book>>

Locking(q) == \E lock \in {"account", "symbol"} :
                \/ AcquireLock(q, lock) \/ LockContended(q, lock)
                \/ LockFailsOpen(q, lock)

Next ==
  \/ \E q \in Procs :
       \/ \E s \in Symbols, w \in Sizes : Execute(q, s, w)
       \/ Locking(q) \/ CapRead(q) \/ AppendRecord(q) \/ ApplyExecution(q)
       \/ Crash(q)
  \/ Reconstruct \/ Tick

Spec == Init /\ [][Next]_vars

-----------------------------------------------------------------------------
(***************************************************************************)
(* Properties.                                                             *)
(***************************************************************************)
\* The book is the fold of the bus: of the records that were applied, or
\* were there at the last rebuild.  The two ways of folding agree, whatever
\* was interleaved, lost and rebuilt in between; with absolute targets, for
\* every symbol whose records reached the bus in the order of their stamps.
InOrder(s) == \A m, n \in Of(s, DOMAIN bus) : m <= n => bus[m].asof <= bus[n].asof

Parity ==
  \A s \in Symbols :
    (setup.normalizer => InOrder(s)) => positions[s] = Fold(s, DOMAIN bus \ unfolded)

\* The portfolio cap holds of the book although it is read, clipped against
\* and written in separate steps, and different symbols fire at once.
GrossWithinCap == setup.caps => Gross(positions) <= GrossCap
=============================================================================
