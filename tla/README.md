# hermes-quant in TLA+

hermes-quant recommends trades, keeps a human-in-the-loop store of proposals,
fires approved proposals and autonomous decisions at a paper or broker reactor,
and derives a portfolio book from an append-only bus of executions. Everything
runs as separate processes (cron jobs, operator commands, plugin tools) that
share SQLite files, JSONL files and small JSON files under `~/.hermes/quant`.
There is no server: what keeps the system correct is the order in which each
process reads, commits, appends and renames. That is what is modelled here.

Paths below are relative to the repository; `proposals.py:334` stands for
`hermes_quant/proposals.py`, line 334.

## The system

| Part | State it keeps | Operations | Meets |
|---|---|---|---|
| HITL proposal store (`proposals.py`) | a SQLite row per proposal, and the events of `proposals.jsonl`, of which the last per proposal counts | propose, claim, record execution, release, approve, reject, expire, sweep, rebuild of the index | tool handlers, TTL watchdog |
| Tool handlers (`tools.py`) | none | `quant_propose`, `quant_approve`, `quant_reject` | store, reactors |
| Paper reactor (`react/paper.py`) with tick locks (`daemon/tick_lock.py`) and cap (`risk/portfolio_normalize.py`) | lock files; the executions bus | stamp, lock, clip, append, apply | book |
| Portfolio book (`state/portfolio_state.py`, `fill_delta_normalizer.py`) | positions, processed fills | apply one execution, rebuild from the bus | reactors, operator scripts |
| Alpaca orders (`react/_alpaca_exec.py`, `react/backends/alpaca_backend.py`) | orders at the broker | submit, poll, cancel at the deadline, read once more | broker |
| Alpaca, equity and multi-leg reactors (`react/alpaca_paper.py`, `react/deterministic_equity.py`, `react/multileg.py`) | bus, book | scan, clip, order the legs, unwind, cap, write, apply | store, Alpaca orders, book |
| Composite plays (`state/composite_plays.py`, `options/leg_ops.py`) | table of composites | open, transition, leg close, decompose | tick, multi-leg reactor |
| Autonomous tick (`autonomous.py`, `ops/scripts/quant-autonomous-tick.py`) | kill-switch file, loss checkpoint, last known loss, rail lock | halt check, loss rail, stop and take-profit sweeps, concurrent-positions rail, fires | halts, reactors, bus, plays |
| Halt registry (`daemon/halt_state.py`, `cli/halts.py`) | table of halts; JSON mirror | halt, resume, expire, emergency stop | ticks, freqtrade consumer |
| Governance (`governance/kill_switch.py`, `approvals.py`, `audit_log.py`, `promotion.py`) | state file, token log, audit log | fire, clear, grant, consume, evaluate a promotion | command line |
| Settlement (`daemon/settlement_loop.py`) | none of its own | join exits to entries, make outcomes | loss rail |
| Budget guard (`agents/llm_budget.py`) | a counter file | check, record | agents |
| Advisor, analysts, gate, sizing, options mathematics, regime, learning, data, reporting, backtests | configuration, caches, posteriors | one synchronous computation each | everything reads them, nothing waits for them |

The last two rows and the rest of the inventory are components of `PROJECT.json`
with status `not_modelled` and the reason: real-valued computation with no
protocol between actors, network I/O, rendering, or a guard that is off by
default.

How they interact. A proposal is minted by `quant_propose`, claimed and fired by
`quant_approve`, and the reactor's answer decides between *record* (filled),
*release* (nothing was filled, provably) and *leave claimed* (who knows). A fire
orders one leg or several, at the broker or at the deterministic backend, appends
to the bus and then applies the record to the book; an operator may rebuild the
book from the bus. A tick asks the halt mirror, the kill switch and the loss rail
whether it may run, takes the rail lock, counts the book, closes what is past its
stop and then fires like an approval does, which takes no lock. The loss rail and
the count of the book read the same bus. The governance halt is a second, separate
halt: no fire asks it, only the promotion evaluator sees that it was fired.

What is hard, and which property answers it, is the list `hazards` of
`PROJECT.json`; in short:

* two stores with no common transaction (row and JSONL; bus and book; table and
  mirror; token store and state file), and processes that die in between;
* decisions on a row, a book, a mirror or a switch read earlier;
* compare-and-set next to unconditional writes, locks next to writers that do not
  take them;
* answers of a broker that are lost, late or not yet the last word;
* operator repairs (rebuilds, resets) that run while something is in flight;
* a partial line that a dead writer left at the end of an append-only file;
* order: stamps taken before locks, renames against reads, late fills against
  what is settled already, caps asked after the order.

## Modules

| Module | Models | Lines |
|---|---|---|
| `ProposalLifecycle` | what the proposal store promises: the life cycle of a proposal, without storage | 31 |
| `Proposals` | the store and the handlers, step by step | 524 |
| `Ledger` | paper reactor, tick locks, bus and book | 279 |
| `AlpacaOrder` | one order at the broker and the client's call for it | 190 |
| `Reactors` | the reactors that fill through a backend; EXTENDS `AlpacaOrder`, of which each leg is an order | 393 |
| `AutoTick` | switch, rail lock, rails, stop sweep and fires of the tick, next to approvals | 329 |
| `CompositePlays` | options plays of the tick: rows, sweeps, executes and approvals, leg operations | 397 |
| `LossRail` | loss rail of the tick, with its checkpoint | 305 |
| `Halts` | halt table, mirror, ticks that read it, approvals that do not | 321 |
| `Governance` | governance halt, tokens, audit log, promotion evaluator | 366 |
| `ProposalsProofs` | proofs about `Proposals`, and that it implements `ProposalLifecycle` | 1813 |
| `LedgerProofs`, `LossRailProofs`, `HaltsProofs` | proofs about the module of that name | 1442, 1735, 743 |
| `ReactorsProofs` | proofs about `AlpacaOrder` and `Reactors` | 2339 |
| `AutoTickProofs`, `CompositePlaysProofs`, `GovernanceProofs` | proofs about the module of that name | 1205, 1664, 1409 |
| `MCProposals`, `MCLedger`, `MCReactors`, `MCAutoTick`, `MCCompositePlays`, `MCLossRail`, `MCHalts`, `MCGovernance` | finite instances for TLC | 6 to 23 |

Definitions named `X_Something` right above `X` are faults somebody might make
in `X`; each property is checked to fail when one of them takes the place of `X`.

A deployment (the environment variables, and who runs at all) is a record `setup`
that the initial state chooses and no step changes, so that one run covers
several. The theorems hold for every set of deployments, but for two about
`Ledger` that say which deployments they need.

The modules meet at their edges. What `Proposals` calls a reactor, one step, has
its inside in `Ledger` (paper) and `Reactors` (the others); the bus that `Reactors`
writes is what `AutoTick` counts, `LossRail` settles and `CompositePlays` scans,
each at the grain its questions need; `Halts` has the check that precedes a tick,
`LossRail` and `AutoTick` what follows. A single composed state space would be
out of TLC's reach. A neighbour appears in a module as an atomic step or a free
choice; what depends on several modules at once, such as a loss rail whose bus a
half-applied family is on, is not checked.

### Proposals

`index[p]` is the SQLite row, `logged[p]` the last readable event of
`proposals.jsonl`, `tail` how that file ends (whole line, partial line of a dead
writer, a line glued to one, damage in the middle). A row is a state and whether
an execution is attached. A process runs one operation (`kind`) and stands before
its next access to shared state (`pc`): a *read* of the row, the *compare-and-set*
(`_cas_from_pending`), the *append* of the event, the *upsert*, the *call of the
reactor*. Between any two of these other processes move, time passes
(`TtlElapses`), and the process may die (`Crash`), even with half a line written
(`CrashMidAppend`).

| Action | Code |
|---|---|
| `Propose`, `AppendAudit`, `Upsert` | `propose`, `_persist`: event first, row second |
| `QuantApprove`, `Get`, `ReadForClaim`, `CasFromPending`, `AppendAudit` | `quant_approve` → `get` → `claim_for_approval`: row first, event second |
| `FireFilled`, `FireRefused`, `FireAmbiguous` | the branches of `quant_approve` on what the reactor does; a fill counts in `fires` |
| `ReadForRecord`, `ReadForRelease` | `record_execution`, `release_claim`: read, then written back unconditionally |
| `QuantReject`, `LegacyApprove`, `ReadForClose`, `ReadAfterLoss` | `reject`, `approve` and the second read for the error message |
| `SweepExpired`, `ReadForExpire`, `ExpireNothing` | `expire_one`, called by the sweep, by `get` and by every operation that meets an overdue row |
| `ReconcileRead`, `ReconcileWrite` | `_reconcile_index`: the file is read before the transaction begins |

`Reconcile` says who rebuilds the index: nobody, an operator with everything else
stopped, or anybody at any time. `_reconcile_index` has no caller in production;
the second is what its use as a recovery tool amounts to, and the runs have the
first two.

`ImplementsLifecycle` maps a proposal to *filled* when it has fired, to the closed
state that is in the file, and otherwise to what the row says. A rejection counts
once it is in the file: a process that dies before that leaves a proposal which a
rebuild shows as pending, and the code promises no more.

### Ledger

One process is one `PaperReactor.execute`: `Execute` stamps, `AcquireLock` /
`LockContended` / `LockFailsOpen` are the account lock (if on) and the symbol
lock, `CapRead` the clip, `AppendRecord` the bus, `ApplyExecution` the
transaction on the book; `Reconstruct` is `reconstruct_from`. Sizes are small
integers; under the normalizer they are absolute targets, otherwise increments.
The environment variables of a deployment are a record, `setup`, chosen in the
initial state, so that one run covers several deployments. `Fold` is the meaning
of a set of records; `unfolded` (history) the records no apply or rebuild has
seen. A rebuild says nothing of a record whose stamp is out of order with the
bus under the normalizer, because the incremental and the full fold then differ:
the rebuild sorts by stamp, and stamps precede the locks. `Parity` states that
condition (`InOrder`) instead of hiding it.

### AlpacaOrder

`broker[o]` is the order as the broker has it, `call[o]` the client's call for it.
The broker fills unit by unit and closes (rejects, expires, cancels) in its own
time. `Submit` is `submit_order`: refused, accepted, or accepted with the answer
lost; `Poll` is a read before the deadline, `Cancel` the cancel at the deadline,
answered or not, `Reread` the one read after it. `Terminal`, `Reported` and
`Settled` are the verdicts of `_alpaca_exec.py` on a snapshot, with what differs
for the parent of a multi-leg order. An identifier is accepted once.
An order that is filled in part and still works is *partial*, which the multi-leg
reactors take for a fill (`Reactors!IsFill`) and the poll of an equity does not.

### Reactors

A fire of a proposal stands at one of the steps *scan, clip, main, cover, unwind,
cap, write, apply*; `main`, `cover` and `unwind` are orders.

| Action | Code |
|---|---|
| `Fires` | `quant_approve` after its claim; also of a proposal that was handed back, or whose fire died |
| `Scan`, `Refuse` | `_existing_parent`, `_existing_fill`; the checks before any order |
| `Clip` | `_portfolio_cap_clip` of the equity reactor |
| `SubmitLeg`, `SettleLeg` | the calls of `AlpacaOrder`, or the deterministic backend with its cash check |
| `EquityAtAlpaca`, `EquityAtDeterministic`, `Structure` | what the answer makes of the fire |
| `CoverAnswered`, `ShortAnswered`, `UnwindAnswered` | `_fill` of a covered structure: cover first, then the short, or the sale of the cover |
| `Cap` | `_portfolio_cap_silence`, after the fill |
| `WriteFamily` | parent and children in one append |
| `ApplyChild`, `Returns` | `_reconcile_state`; the first failure ends it and is in `gaps` |
| `Crash` | the process dies, anywhere |

`outcome` is what the caller is told: *filled, handed_back* (released) or *held*
(an exception, left claimed). `Backed` ties it to the bus: what is told filled
is there, and, at the reactors that look at the bus before they order, what is
handed back has moved no capital.

### AutoTick

Two processes run the tick: the cron and the tool. `open` is what the bus says is
held. `Begin` reads the switch; `Acquire`, `Skip` and `Unguarded` are
`_account_rail_lock`; `Count` reads the book once; `Stop`, `Hold` and `EndSweep`
are the stop sweep and the accounting of the slots it frees; `Pass`, `Originate`
and `Fire` are one entry of the watchlist each, with the rails as guards
(`WithinTick`, `WithinBook`); `End` leaves the lock. `Approve` writes to the book
without it, `Market` moves marks, `Switch` is the operator. The fields `calm`,
`base` and `flattened` of a tick are histories that the properties speak of.
Targets are absolute, zero or not; `Nofill` is `_reactor_record_is_nofill`, which
takes a flat target for no fill.

### CompositePlays

`row` is the table, `records` counts the parent records of each identifier on the
bus, `position` the structures held. An execute of the multi-leg reactor is three
steps, since nothing spans them in the code: `Scan` looks for the record of the
identifier, then the backend fills (`Advances`), then the record is appended, which
looks at nothing again (`Execute`, which also has the other ends: it may raise before
every step, fail to fill, or find the record). The backend is the deterministic one,
which refuses no identifier. `met` (history) holds the identifiers that two executes
were past the scan of at once.

| Action | Code |
|---|---|
| `Originate`, `FireOpen`, `Persist` | `_originate_mleg_proposal`: the proposal is written, pending, and fired without a claim; then its row |
| `Claim`, `ApprovalGoesOn`, `Approved`, `ApprovalDies` | `quant_approve` of that pending copy, without the rail lock: claim, execute, hand back or leave claimed |
| `GoesOn` | scan and fill of an execute of a tick |
| `BeginSweep`, `Hold`, `Breach`, `LegOp`, `Transition`, `Close`, `EndStop`, `Captured`, `EndGain` | the two sweeps |
| `Operator` | the store used by hand, with `Legal` and `LegCloseTarget` the state machine of the rows |
| `Crash`, `ApprovalDies` | a tick or an approval dies, at any step |

A close leaves the row open, and so the next tick closes again, under the same
identifier. `Setup.plays` says which plays the market of a deployment offers.

### Halts

`halts` is the table, one transaction per change. `mirror` is what a reader finds
in `halt_state.json`; writing it takes the steps of `_write_mirror` and
`_write_atomic_json`: read the active halts, open the temporary file (which
empties it, whoever else has it open), write, rename. All processes share the
temporary file's name, so a writer's bytes may land in a file that has become the
mirror (`file`), and a rename may find nothing. A tick passes its check when the
mirror can be read and lists no halt, and fires until it ends; an approval asks
nobody (`ApprovalFires`), which is how the code is, and no property denies it.
`announced` holds the halts whose command has returned; `sound` says that since
the last mirror written by a writer that was alone, no two writers have met and
none has died.

### LossRail

One tick is one start of `tick()` up to its decision: `Begin` (stored switch,
checkpoint), `ComputePnl` or `ComputeFails`, `PersistCheckpoint`,
`PersistLastKnown`, `Trip` or `Pass`. `Join` is `join_exit_fills` with a lot of n
units written as n lots of one; it is used for the part of the bus past the
checkpoint and, in the properties, for the whole. Returns are integers by the
choice of prices (`LossRailAssumption`). `SummedIsReplay` compares the whole
checkpoint with the replay, the sum and the lots still open, and with the value
that the tick will decide on. `archived` stands for the fingerprint of
the consumed prefix: records carry identifiers, so no two prefixes agree. The
guard against late records makes deferred exits unreachable here, and they are
left out. Multi-leg weights, fees and other accounts are too. A reset of the book
happens with the ticks stopped, as its documentation asks for.

### Governance

`state` and `tmp` are `state.json` and its temporary file, with a content that is
*mangled* when two processes wrote over each other; `rows` is the token store in
file order, `audit` the events the evaluator looks at. `Fire`, `OpenTmp`,
`WriteTmp`, `Rename`, `Note` are `fire`; `GrantClear`, `ClearHalt`, `ClearWith`,
`Require`, `ReadPrior`, `Consume` and the same write are the grants and `clear`.
`Mutex` is `_fire_lock`, which is of one process: with `oneProcess` FALSE the
actors are processes and it excludes nobody. `Evaluate`, `Collect`, `Decided` are
`evaluate`, `Promotes` its conditions over the windows `Short` and `Long`; the
settled round trips are a free choice. `owed`, `reported` and `lifts` are
histories: a halt that was reported, the events whose producers returned, and how
often each token lifted the halt.

## Runs

| Run | Instance | Distinct states | Shows |
|---|---|---|---|
| `proposals_never` | 2 processes, 2 proposals, torn writes | 946,496 | at most one fire; a closed row is final |
| `proposals_offline` | 2 processes, 2 proposals, rebuilds with the others stopped | 176,624 | a fired proposal stays approved; an execution means a fill; a fire holds a claim in both stores; the file is never ahead of the index; the closed stays closed through rebuilds; the life cycle is implemented; an overdue proposal does not stay pending |
| `ledger` | 2 processes, 2 symbols, 3 records, 3 deployments | 1,029,706 | the book is the fold of the bus; the cap holds |
| `reactors` | 5 proposals of 4 kinds, 6 deployments | 372,898 | a polled fill is final; what is recorded was filled, and what is handed back is not recorded; capital moves once per proposal; the cover comes first and is never lost; every fire returns |
| `reactors_naked` | 1 covered structure | violated | a lost answer leaves a short option whose cover was sold |
| `autotick` | 2 ticks, 3 symbols, 6 deployments | 21,346 | the rails hold under the lock; a trip quiets the system; losers exit |
| `autotick_stop` | 1 tick, 1 symbol | violated | a symbol the sweep flattened is opened again by the same tick |
| `plays` | 2 plays on one underlying, 2 ticks, approvals, 4 deployments | 114,387 | a play is held at most once unless two executes of it met, and is never sold twice under the rail lock; terminal rows stay; losers close |
| `lossrail` | 2 ticks (one per flag), 3 records, resets | 150,597 | what a tick that sums sizes computes past a checkpoint, sum and lots, is the full replay; a lasting loss trips |
| `halts_registry` | 2 writers, 2 scopes, 2 halts, 1 tick, crashes | 215,962 | one active halt per scope; history is append-only; the mirror is right while writers do not meet, and made right by the next one alone |
| `governance` | 2 actors, 2 tokens, 4 days, 3 deployments | 4,280,759 | a token is spent once; a reported halt stays until one is spent; what was reported blocks a promotion |
| `governance_clear` | 1 operator, 2 tokens | violated | clear-halt is refused because of grant-clear |

The bounds. Most hazards need two actors: one that read and one that wrote
meanwhile; a third only repeats what the second did. Two proposals are
there for the rebuild, which touches all of them at once, and for the sweeper
that goes from one to the next. Three records give an opening, a closing and one
that is late or of another symbol; two halts give two scopes, or one scope halted
twice. `MaxFills`, `MaxClock`, `MaxHalts`, `MaxReads`, `maxFires`, `MaxDay` and
`maxEvents` are the bounds on counters, and they sit in the guards.

* `reactors`: orders of at most two units, so that a fill may be partial; one read
  within the poll, since a second says what the first may; two fires per proposal,
  one for the covered structure at Alpaca (which has three orders). Proposals at
  the broker do not meet, so each deployment activates one kind; at the
  deterministic backend two equities share the cash of the book.
* `autotick`: three symbols with room for two, so that the cap binds with one held
  and one fired; two fires per tick, so that both rails can be the one that stops.
* `plays`: two plays on one underlying under the default flags, where the fires and
  sweeps of one tick go from one to the other; one play where ticks overlap, where
  leg operations are on, and where rows are written by hand, since two plays share
  nothing there but the identifier of a leg operation, which a tick that died after
  its leg operation meets again with one play too. `records` needs no bound: an
  identifier has as many executes past its scan as there are ticks and approvals, and
  none passes after one is recorded.
* `governance`: windows of one and two days in four days, so that events lie in
  both, in the long one only, and outside. Two tokens give the wrong first one.

Symmetry is used where no liveness is checked. `ledger.cfg`, `reactors.cfg` and
`reactors_naked.cfg` switch the deadlock check off: there is a last record, and a
last fire.

Violations are disagreements between the code and what its own comments or help
texts say; `findings` quotes both. In `reactors_naked` the broker accepts the short
option, the answer is lost, the reactor takes it for refused and sells the cover.
In `autotick_stop` the flattening is recorded with size zero, which is taken for
no fill, so that the symbol never joins `stopped`. In `governance_clear` the token
that clear-halt has just minted is not the first live one of the file.

## Fairness

`Proposals!LiveSpec`: a process that is not dead goes on (weak fairness of its
steps); the TTL sweep is a cron job that is started again and again and does not
die at the same point every time (strong fairness of its steps on each
proposal). Operators owe nothing: no approval, rejection or rebuild is fair.

`Reactors!FairSpec`: a fire that is not killed goes on (weak fairness of the
reactor's steps per proposal): calls to the broker have time limits and the poll a
deadline. The broker owes nothing, nor does whoever might fire again.

`AutoTick!Fairness`: the cron starts ticks for ever and their steps end (weak);
not every tick is skipped or dies while it waits for the lock, and a read of the
book, or a flattening, that is tried by tick after tick succeeds at some time
(strong).

`CompositePlays!Fairness`: ticks are started for ever and go on (weak: some tick
takes some step); a play whose marks stay past the stop is looked at at some time
(strong, per play); and of the closes that are tried again and again some get past
the scan, some are filled and some are recorded (strong, one for each of the three,
jointly for all ticks and plays). Approvals owe nothing.

`LossRail!FairSpec`: cron starts a tick again and again; it is not killed, and
the bus is not unreadable, at the same place every time (strong fairness of the
steps of a tick that sums sizes). Nothing is assumed of fills, resets, or of
ticks under the other flag.

`Ledger`, `Halts` and `Governance` are checked for safety only, without fairness:
nothing in them has to happen.

## What is proved

`ProposalsProofs`, for every set of processes and of proposals:

| Theorem | States |
|---|---|
| `TypeCorrect` | `TypeOK`, without further assumption |
| `Inductive` | the invariant `IInv` |
| `FiresOnce` | `AtMostOneFire` |
| `FiredApproved` | `FiredStaysApproved` |
| `ExecutionFilled` | `ExecutionMeansFill` |
| `DurableClaim`, `LogBehind` | `FireUnderDurableClaim`, `LogNeverAhead`, with whole-line appends and offline rebuilds |
| `IndexFinal` | `IndexClosedIsFinal`, when nobody rebuilds |

All but the first assume `SafeConfig`: nobody rebuilds the index, or rebuilds
happen with everything stopped and no partial lines. Neither half can be dropped:
a rebuild in flight reads a file in which a claim is still missing, and a partial
line swallows the claim appended after it; in both a rebuilt row is pending again.

At most one fire is not inductive. What makes it so is ownership: a process
*owns* a proposal from the compare-and-set it won until it has recorded or
released (`Owns`); no two processes own one proposal (`SingleOwner`); while it is
owned its row is what the owner made it, and it has fired only if the owner is
recording (`OwnerInv`); a fired proposal is approved in the index and, where
rebuilds occur, in the file (`FireInv`), so neither a compare-and-set nor a
rebuild can give it to another. `ControlInv` and `RowInv` say where an operation
can stand and what record it carries, `CreateInv` that identifiers are minted
once, `LogInv` and `RebuildInv` that a rebuild finds a file that agrees with the
index. `TypeStep`, `ControlStep`, `RowStep`, `OwnerStep`, `SingleStep`,
`CreateStep`, `FireStep`, `LogStep` and `RebuildStep` prove one conjunct each,
with one step per action.

And, when lines are written whole and rebuilds are run offline
(`WholeLines`, which admits the behaviours without rebuilds):

| Theorem | States |
|---|---|
| `FileInductive` | the invariant `LInv` |
| `ClosedStays` | `ClosedIsFinal` |
| `Implements` | `ImplementsLifecycle`, the refinement of `ProposalLifecycle` |

`LInv` adds to `IInv` what the file does not say yet (`UnsaidInv`: the outcome an
operation is about to append) and that it knows of every proposal in the index
(`KnownInv`, without which a rebuild would lose one). `Follows` is one proposal's
share of a step; each kind of write has a lemma that it follows the life cycle.

`HaltsProofs`, for every set of instruments, scopes, writers and ticks, with
crashes and with no bound on the halts:

| Theorem | States |
|---|---|
| `TypeCorrect`, `Inductive` | `TypeOK`; the invariant `IInv` |
| `OneActive` | `OneActivePerScope` |
| `AppendOnly` | `HistoryIsAppendOnly` |
| `Mirrored`, `Settled` | `InForceIsMirrored`, `MirrorSettled` |
| `Honoured` | `TicksHonourHalts`, with one writer that does not die (`OneWriter`) |

The mirror is right after each step only because of what the writer did before:
`StageInv` says how far a writer that is alone has come (what it read is still
the set of active halts, the temporary file is its own, and holds that set once
it is written), `LoneInv` that in a sound registry whoever is at work is alone.
`TableInv` carries a maximum epoch per scope, so that `LastEpoch` is one without
induction over the table. The lemmas `Installs` and `Clears` say what each change
does to the table; `Changes` is all that the mirror's invariants need of it.
`OneWriter` is needed: two writers of the mirror may leave it without a halt that
is in force, and a tick then fires under it.

`LedgerProofs`, for every set of processes, every finite set of symbols, any
number of fills, crashes between append and apply, and every set of deployments:

| Theorem | States |
|---|---|
| `Inductive`, `TypeCorrect` | the invariant `IInv`; `TypeOK` |
| `LocksExclude` | two processes are never inside the symbol lock on one symbol, nor, with the account lock, on any two |
| `BookParity` | `Parity`, where `Reliable` |
| `CapHolds` | `GrossWithinCap`, where `CapsGuarded` |

Each part of `IInv` says itself for which deployments it holds, and so covers
those that a run mixes. `Reliable` asks of a deployment with absolute targets
that its lock files work, and of one that sums sizes that nobody rebuilds the
book while a fire runs: with it the record between append and apply would count
twice. `CapsGuarded` asks of a deployment with caps for absolute targets, the
account lock, lock files that work, and no rebuild. All three deployments of the
run `ledger` satisfy both; without them the code does not promise the properties.

With targets, `Parity` follows from the lock: a record that is about to be applied
is the last of its symbol in the bus (`ApplyInv`), hence, where stamps are in
order, the latest, which is what a rebuild leaves too. `FoldedInv` says this
without `CHOOSE` or priming a fold; `LatestInv` that a latest record exists. With
summed sizes it follows from arithmetic: an apply moves one record from those to
come to those done, and a sum over a set grows by what one element adds, whichever
it is (`SummedInv`, lemma `SumElement`). The cap is read in one step and spent two
steps later. `CapInv` says what a process that has read it still may add: what is
held on all other symbols, plus what it was granted, is within the cap, and stays
so until it applies since `HeldInv` and `OnePerAccount` keep the others out.

The sums are those of the community modules, defined by recursion over the subsets
of a set. Their laws (`SumElement`, `SumAgree`, `SumOfZeros`) are proved without an
induction theorem: a claim about all subsets of a finite set is refuted at a smallest
one (`SmallestSet`), which is a first-order argument. `Recursion` and `RecUnique` say
once that the recursive functions exist and what they are.

`LossRailProofs`, for every set of ticks of either flag and of fills, a bus of any
length, crashes anywhere, checkpoints that are lost or older than what they replace,
resets of the book and of the switch:

| Theorem | States |
|---|---|
| `Inductive`, `TypeCorrect` | the invariant `IInv`; `TypeOK` |
| `SummedReplay` | `SummedIsReplay` |
| `FreshIsRealised` | `ComputesRealised`: the sum a summing tick computes is what the whole bus has realised at that moment |
| `LotsConserved` | `LotsArePosition`: the lots a summing tick leaves open come to the sum of all the sizes on the bus |

A checkpoint is *sound* for a bus (`Sound`) if it is of a bus that is gone, or else
reaches no further than the bus, is stamped no earlier than what it has consumed,
and, unless it was made under the other flag, is the replay of what it has consumed.
`SoundInv` says this of the file and of what every tick holds: an append keeps a
checkpoint sound (`SoundGrown`), a reset makes it one of a bus that is gone
(`SoundReset`), and what `ComputePnl` makes out of a sound one is sound (`SoundMade`).
The last is the heart. Exits are matched in the order of stamps, and the bus is in
the order of appends; `SummedSplit` says that joining a set of records is joining
a part of it and then the rest, when no record of the rest precedes one of the
part, which is what the guard against late records (`InSequence`) establishes.
`SummedAgree` says that the join looks at the records of its set only. Under the
normalizer none of this holds, since every call of the join makes its own, and
nothing is claimed. `SummedReplay` speaks of a checkpoint and the prefix it consumed,
`FreshIsRealised` of the step that makes it: at that moment the prefix is the whole
bus, so what the rail decides on is the loss `LossTrips` speaks of, unless more is
appended, or the bus could not be read. `LotsConserved` does not follow from the
replay: it says that the matching itself neither loses nor repeats a unit (`UnitNet`, `TradeNet`), in
whatever order (`NetElement`).

`ReactorsProofs`, for every set of proposals of any kinds, any deployments,
quantities, and lengths of the poll; every behaviour of the broker, and fires that
die and are repeated:

| Theorem | States |
|---|---|
| `Invariant`, `TypeCorrect` | the invariant `IInv`; `TypeOK` |
| `PolledIsFinal` | `PolledFillIsFinal` |
| `RecordsAreBacked` | `Backed` |
| `OneFamily` | `FamilyOnce` |
| `CoverBeforeShort`, `NoCoverIsLost` | `CoverFirst`, `CoverAccounted` |
| `FiresAreBounded` | `Shortens`: a fire has at most `8 * (MaxReads + 4)` steps left, each of its steps lowers that number, and nothing but a new fire raises it |

`IInv` is one statement about each order and one about each proposal. `OrderOK`:
an order at work has not filled whole, a fill that was reported is there, and one
reported before any cancel is all of it; the lemmas `BrokerKeeps`, `ClientKeeps` and
`SubmitIs` keep it. For a proposal, `Stands` and `Calls` say what a fire carries at
each step and what its orders have come to; `MayWrite` who may still write: a fire
that saw the bus without a record, or, at Alpaca, where nobody looks, one whose
order the broker took as new: the identifier is accepted once, which is what keeps
a repeated fire from recording twice. `BusInv`, `BookInv` and `CoverInv` are the
properties with what a fire in flight still owes. `Frame` and `OwnKeeps` reduce a
step to its own proposal; `GoKeeps` and `EndKeeps` are the steps that only move on
or return. `FiresAreBounded` is the half of `EveryFireReturns` that needs no fairness:
the rank of a fire is the stage it is at, then what is left of its call or of its
apply (`Rank`, `RankFalls`, `CallShortens`). That some step is always possible is the
other half, and is left to TLC.

`AutoTickProofs`, for any symbols (finitely many), ticks, rails and deployments:

| Theorem | States |
|---|---|
| `Invariant`, `TypeCorrect` | the invariant `IInv`; `TypeOK`, with the per-tick cap |
| `LockedTickKeepsRails` | `RailsHold` |
| `NoStopCounts` | no stop exit ever counts: `stopped` is empty in every tick |
| `TicksAreBounded` | `Shortens`: a tick ends after at most `Len(watch) + Cardinality(Symbols) + 4` steps of its own |

`RoomInv` says what a tick with the lock knows of a book that only it writes to: its
count is of the base, and it has added at most as many symbols as it has fired,
so that count and fires together bound the book. `StoppedInv` is `NoStopCounts`:
`stopped` is always empty, because a flattening never counts as a fire. The code that
frees slots is dead, which is the general form of what `autotick_stop` shows on one
symbol. The rank of `TicksAreBounded` is the place of the tick, then the symbols left
to sweep and the entries left to scan (`RankOf`); a step of another actor leaves
the place of the tick (`OthersLeave`), and its own lowers the rank, also where it fires
nothing, skips or dies (`RankFalls`). `RailsHold` speaks of a
tick that has been alone since its count; approvals, and a tick without the lock,
may exceed the cap, since neither takes the lock.

`CompositePlaysProofs`, for any plays, underlyings, ticks and deployments:

| Theorem | States |
|---|---|
| `Invariant`, `TypeCorrect` | the invariant `IInv`; `TypeOK` |
| `PlaysHeldOnce` | `HeldOnce` |
| `RowsObeyTheLaw` | `RowLaw` |
| `TicksAreBounded` | `Shortens`, for finitely many plays: a tick ends after at most `12 * Cardinality(Plays) + 9` steps of its own |

`MetInv` is what `HeldOnce` rests on: of the executes of one identifier that is not
in `met`, one at most is past its scan, and none once the identifier is recorded
(`Apart`); it is never said of all identifiers, since a tick and the approval of its
copy may meet on the opening of a play in every deployment. Under the rail lock one
tick is at work (`TickInv`), so closes never meet. `OpeningInv` bounds what two that
met can do: the tick fires a play once, `proposal` lets one approval through at a time, and
what is handed back has recorded nothing, so that an opening is recorded twice at most. `BookInv`: what is held is what the records of open and close add up to, and
more only by a leg operation (`Extra`); none is closed before it was opened. The
last half needs `OpenedInv`: a row, the list of a sweep and a close in flight speak
of plays that were opened. The lemmas `MetStays`, `MetEnds`, `MetGoes` and `BookOpens`,
`BookCloses`, `BookLegs` are one step of one actor each; `QuietKeeps` and
`FiringKeeps` are the steps of a tick that execute nothing and those that go on with
an execute. The rank of a tick counts, for each of the two sweeps, the plays on its list,
and the steps left of the execute it is at (`RankBounds`, `RankFalls`): a sweep takes
its list once, and rows that others write meanwhile do not lengthen it.

`GovernanceProofs`, for any number of actors, tokens, days and events, in one
process or several:

| Theorem | States |
|---|---|
| `Invariant`, `TypeCorrect` | the invariant `IInv`; `TypeOK` |
| `OneShot` | `SpentOnce` |
| `HaltStays` | `HaltHolds` |
| `NothingReportedIsMissed` | `ReportedBlocks` |
| `RefusedForAReason` | `RefusedBehind`: a token is refused only if it is spent, expired, or not the first that was granted |

`SpendInv`: a token that is being spent has its row and has lifted nothing yet, and
one actor carries it (`CarryInv` says where a token can be). `OneInv`: in one process
one change runs at a time (`Alone`), and what it has written is what it finds
(`Written`), so that no halt is lost in the temporary file. `LogInv`: what was
reported is in the log, and what an evaluation knows was reported before it began.
`RefusedForAReason` is what holds in place of `ClearHaltClears`. Its invariant is that
who asks holds a granted token (`AsksInv`); the store only grows (`Grows`), so a reason
to refuse stays one; and the first live grant is before any other live one
(`RefusesBehind`, which needs that a set of places has a smallest, `SmallestNat`). So
a token that clear-halt has just minted is refused because of an older grant, or
because it was spent or ran out in between, and for nothing else.

Only model-checked: the liveness properties `OverdueIsClosed`, `EveryFireReturns`,
`TripQuiets`, `LosersExit`, `LosersClose` and `LossTrips` (fairness and `ENABLED`
are out of the prover's reach). For fires and for both kinds of tick the half that
needs neither is proved: they are bounded, for any constants (`FiresAreBounded`,
`TicksAreBounded`); that they are never stuck is left to TLC. Every invariant and
every action property that a passing run checks is a theorem. Of the three violated
properties two have a theorem that says what holds instead (`NoStopCounts`,
`RefusedForAReason`). `FiresOnce` and the other theorems about `Proposals` that assume
`SafeConfig` are not claimed for rebuilds next to running processes.

## What is not modelled

Components with status `not_modelled` in `PROJECT.json` say why, one by one.
Inside the modelled parts: payloads, prices, cash and averages (but for the cash
check of the deterministic backend), slippage, the wording of refusals, the
reflection hook, schema migrations; multi-leg children and true units in the book
of `Ledger`; the regime stamp of the book; damage by partial lines to the bus, the
token store and the audit log (it is modelled for the proposal file); `convert` and
`risk-adjust` of the leg operations, which nothing calls; options plays of a tick at a
real broker, which refuses a repeated identifier (`Reactors` has its orders, for
proposals whose fires do not overlap); the gates in front of
the rails of a tick, which can only refuse; dry runs.

What the models show beside the runs above. Each of these is a behaviour of the
modules, found while they were written, and allowed by the properties as stated:

* A rebuild of the proposal index that is in flight (`Reconcile = "online"`), or one
  after a partial line and an append, lets a proposal fire twice. This is why
  `SafeConfig` has two halves. `_reconcile_index` has no caller in production.
* With summed sizes, a rebuild of the book between an append and its apply counts
  the record twice (`rebuild = "online"` with the normalizer off).
* Two writers of the halt mirror, or one that dies, may leave a halt that is in
  force out of it. Approvals ask no halt at all.
* A proposal that was handed back because its order was cancelled may have filled
  after all: a confirmed cancel whose re-read fails is taken for no fill. A second
  approval does not order again, since the identifier is taken.
* `decompose` executes the stored legs with their opening intents, which adds to the
  position instead of taking from it; a second decompose on one underlying finds
  the identifier recorded and does nothing. Both are behind
  `HERMES_QUANT_COMPOSITE_LEG_OPS`, and `HeldOnce` excludes it.
* A tick fires the copy of an options proposal that it has written as pending, and
  claims nothing; an approval that claims that copy takes no rail lock. Both may scan
  the bus before either appends, both fill at the deterministic backend, and the play
  is held twice, although the docstring of `_existing_parent` (`react/multileg.py:347`)
  speaks of an "exactly-once no-op". Its close then sells it once. Two ticks that run
  at once because the lock file cannot be used may sell it twice in the same way, and
  are short of what they never held. `HeldOnce` excepts exactly these.
* A close leaves the row of the play open; later ticks close again, and only the
  identifier, with the rail lock, keeps them from selling twice.
* A family that the portfolio cap silences has filled at a real broker already, and is
  on no bus (`CoverAccounted` excepts it).
* With absolute targets, a fire that goes on without its lock file may leave an older
  target in the book (`Reliable`).
* A tick that waits for the rail lock while the switch is tripped still fires once
  (`TripQuiets` says that this ends).
* With two processes, a governance halt that is fired while another process clears may
  be lost (`HaltHolds` speaks of one process).
* A size that is not a number becomes zero and flattens what is held.
* The origination of an options play asks the per-tick cap only.
* A tripped switch also stops the stop sweep: `LosersExit` ends where `tripped` begins.
* A promotion is possible while a governance halt that was fired before the short
  window is still in force: the evaluator looks at the event, not at the state.
* A clear-halt with no halt to lift leaves its token live, and every refused one
  leaves another, each in the way of the next.

Known from reading: a claim whose process died stays approved and unfired until an
operator acts, as the code says (`proposals.py:318-323`); `auto_clear_expired` and
`kill_switch.fire` have no caller; an emergency stop whose mirror rename fails ends
before its bus signal (`cli/halts.py:158-170`); the reactor exception of a tick is
not counted by the concurrent-positions rail (`autonomous.py:4081`); on a row that
does not exist, `transition_state` and `record_leg_close` roll back twice, and the
second error hides the first.

## What is left

In this order:

1. The budget guard (`agents/llm_budget.py`): check, call and record by concurrent
   callers; by how much the ceiling can be exceeded, as a function of their number.
2. Lines of the token store that are cut short (`approvals.py:120`), as `Proposals`
   has them, and what a glued line does to a grant.
3. A reader of the halt mirror and of the governance halt in one tick, composed with
   approvals that would ask them.
4. Weighted legs and several instruments in `LossRail`; the book of `Ledger` with
   true units and multi-leg children.
5. Proofs: under which answers of the broker no short option is left naked; ranks like
   that of `Reactors` for the operations of `Proposals` and the ticks of `LossRail`.
