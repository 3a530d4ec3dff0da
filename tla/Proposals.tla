----------------------------- MODULE Proposals -----------------------------
(***************************************************************************)
(* The human-in-the-loop proposal store (hermes_quant/proposals.py) and    *)
(* the handlers that drive it (quant_propose, quant_approve, quant_reject, *)
(* the TTL sweep; hermes_quant/tools.py).                                  *)
(*                                                                         *)
(* A proposal lives in two stores that no transaction spans: a row of a    *)
(* SQLite table (index) and the events of an append-only JSONL file, of    *)
(* which only the latest per proposal matters (logged).  Each process runs *)
(* one store operation at a time (the in-process lock); processes          *)
(* interleave at every read, commit, append and reactor call, and a        *)
(* process may crash at any of these points, even in the middle of an      *)
(* append.                                                                 *)
(*                                                                         *)
(* A process is described by the operation it runs (kind), where it stands *)
(* in it (pc), the proposal (tgt) and the record it is about to write      *)
(* (row), which it built from the row it read earlier.                     *)
(***************************************************************************)
EXTENDS Naturals

CONSTANTS
  Procs,        \* processes: operator tools, cron ticks, the TTL sweeper
  ProposalIds,  \* identifiers that may be minted
  TornWrites,   \* BOOLEAN: may a crash leave a partial line in the JSONL file?
  Reconcile,    \* who may rebuild the index: "never", "offline", "online"
  Sweeper,      \* the process of the TTL sweep, for liveness only
  NoProposal    \* not an identifier

ASSUME ProposalsAssumption ==
  /\ NoProposal \notin ProposalIds
  /\ Sweeper \in Procs
  /\ TornWrites \in BOOLEAN
  /\ Reconcile \in {"never", "offline", "online"}

VARIABLES
  index,   \* [ProposalIds -> Row], the SQLite row
  logged,  \* [ProposalIds -> Row], the latest readable event of the JSONL file
  tail,    \* how the JSONL file ends
  due,     \* proposals whose expires_at has passed
  fires,   \* [ProposalIds -> Nat], fills put on the executions bus
  pc, kind, tgt, row, after,
  snap     \* the log as the rebuilding process read it

store    == <<index, logged, tail>>
world    == <<due, fires>>
local    == <<pc, kind, tgt, row, after>>
vars     == <<store, world, local, snap>>

(***************************************************************************)
(* Rows.  execution abstracts the execution payload to "attached or not".  *)
(***************************************************************************)
States == {"absent", "pending", "approved", "rejected", "expired"}
Row    == [state : States, execution : BOOLEAN]

NoRow      == [state |-> "absent", execution |-> FALSE]
PendingRow == [state |-> "pending", execution |-> FALSE]

(***************************************************************************)
(* The end of the JSONL file: it ends with a whole line; with the partial  *)
(* line of a crashed writer; with a line in which a later append was glued *)
(* to that partial line (malformed, and still the last one); or it has a   *)
(* malformed line with whole lines after it.                               *)
(***************************************************************************)
Tails == {"clean", "partial", "glued", "corrupt"}

Kinds == {"none", "create", "claim", "approve", "reject", "expire",
          "record", "release", "rebuild"}
PCs   == {"idle", "get", "read", "cas", "lost", "log", "upsert", "fire",
          "rebuild"}

TypeOK ==
  /\ index \in [ProposalIds -> Row]
  /\ logged \in [ProposalIds -> Row]
  /\ tail \in Tails
  /\ due \subseteq ProposalIds
  /\ fires \in [ProposalIds -> Nat]
  /\ pc \in [Procs -> PCs]
  /\ kind \in [Procs -> Kinds]
  /\ tgt \in [Procs -> ProposalIds \cup {NoProposal}]
  /\ row \in [Procs -> Row]
  /\ after \in [Procs -> {"return", "claim"}]
  /\ snap \in [ProposalIds -> Row]

Init ==
  /\ index  = [p \in ProposalIds |-> NoRow]
  /\ logged = [p \in ProposalIds |-> NoRow]
  /\ tail   = "clean"
  /\ due    = {}
  /\ fires  = [p \in ProposalIds |-> 0]
  /\ pc     = [q \in Procs |-> "idle"]
  /\ kind   = [q \in Procs |-> "none"]
  /\ tgt    = [q \in Procs |-> NoProposal]
  /\ row    = [q \in Procs |-> NoRow]
  /\ after  = [q \in Procs |-> "return"]
  /\ snap   = [p \in ProposalIds |-> NoRow]

-----------------------------------------------------------------------------
(***************************************************************************)
(* Control of one process.                                                 *)
(***************************************************************************)
At(q, label) == pc[q] = label

Move(q, label) ==
  /\ pc' = [pc EXCEPT ![q] = label]
  /\ UNCHANGED <<kind, tgt, row, after>>

Carry(q, r, label) ==
  /\ pc'  = [pc EXCEPT ![q] = label]
  /\ row' = [row EXCEPT ![q] = r]
  /\ UNCHANGED <<kind, tgt, after>>

Return(q) ==
  /\ pc'    = [pc EXCEPT ![q] = "idle"]
  /\ kind'  = [kind EXCEPT ![q] = "none"]
  /\ tgt'   = [tgt EXCEPT ![q] = NoProposal]
  /\ row'   = [row EXCEPT ![q] = NoRow]
  /\ after' = [after EXCEPT ![q] = "return"]

Call(q, k, p, r, label, next) ==
  /\ pc'    = [pc EXCEPT ![q] = label]
  /\ kind'  = [kind EXCEPT ![q] = k]
  /\ tgt'   = [tgt EXCEPT ![q] = p]
  /\ row'   = [row EXCEPT ![q] = r]
  /\ after' = [after EXCEPT ![q] = next]

\* An offline rebuild is run with every other process stopped.
MayStart(q) == /\ At(q, "idle")
               /\ \/ Reconcile = "online"
                  \/ \A r \in Procs : ~At(r, "rebuild")

\* expire_one(p), called by an operation that then returns or goes on to claim.
CallExpire(q, next) == Call(q, "expire", tgt[q], NoRow, "read", next)

Overdue(p) == index[p].state = "pending" /\ p \in due

-----------------------------------------------------------------------------
(***************************************************************************)
(* Operations start.                                                       *)
(***************************************************************************)
\* propose / propose_multi_leg: identifiers are fresh.
Propose(q, p) ==
  /\ MayStart(q)
  /\ index[p] = NoRow /\ logged[p] = NoRow /\ p \notin due
  /\ \A r \in Procs : tgt[r] # p
  /\ Call(q, "create", p, PendingRow, "log", "return")
  /\ UNCHANGED <<store, world, snap>>

QuantApprove(q, p) ==
  /\ MayStart(q)
  /\ Call(q, "claim", p, NoRow, "get", "return")
  /\ UNCHANGED <<store, world, snap>>

QuantReject(q, p) ==
  /\ MayStart(q)
  /\ Call(q, "reject", p, NoRow, "read", "return")
  /\ UNCHANGED <<store, world, snap>>

\* The transition that does not fire, kept for direct callers.
LegacyApprove(q, p) ==
  /\ MayStart(q)
  /\ Call(q, "approve", p, NoRow, "read", "return")
  /\ UNCHANGED <<store, world, snap>>

\* One proposal of a TTL sweep, or the lazy expiry of a lookup: the row was
\* seen pending and past its TTL.
SweepExpired(q, p) ==
  /\ MayStart(q)
  /\ Overdue(p)
  /\ Call(q, "expire", p, NoRow, "read", "return")
  /\ UNCHANGED <<store, world, snap>>

-----------------------------------------------------------------------------
(***************************************************************************)
(* Reads.                                                                  *)
(***************************************************************************)
\* quant_approve looks the proposal up first; an overdue one is expired.
Get(q) ==
  /\ At(q, "get")
  /\ \/ /\ index[tgt[q]].state # "pending"
        /\ Return(q)
     \/ /\ Overdue(tgt[q])
        /\ CallExpire(q, "claim")
     \/ /\ index[tgt[q]].state = "pending" /\ tgt[q] \notin due
        /\ Move(q, "read")
  /\ UNCHANGED <<store, world, snap>>

\* claim_for_approval builds the approved record from whatever row it reads:
\* only the compare-and-set looks at the state.
ReadForClaim(q) ==
  /\ At(q, "read") /\ kind[q] = "claim"
  /\ \/ /\ index[tgt[q]].state = "absent"
        /\ Return(q)
     \/ /\ Overdue(tgt[q])
        /\ CallExpire(q, "return")
     \/ /\ index[tgt[q]].state # "absent" /\ ~Overdue(tgt[q])
        /\ Carry(q, [index[tgt[q]] EXCEPT !.state = "approved"], "cas")
  /\ UNCHANGED <<store, world, snap>>

Closing == [reject |-> "rejected", approve |-> "approved"]

\* Mutant: the unconditional write the compare-and-set replaced.
ReadForClose_Unguarded(q) ==
  /\ At(q, "read") /\ kind[q] \in DOMAIN Closing
  /\ IF index[tgt[q]].state # "pending"
       THEN Return(q)
       ELSE Carry(q, [index[tgt[q]] EXCEPT !.state = Closing[kind[q]]], "log")
  /\ UNCHANGED <<store, world, snap>>

ReadForClose(q) ==
  /\ At(q, "read") /\ kind[q] \in DOMAIN Closing
  /\ \/ /\ index[tgt[q]].state # "pending"
        /\ Return(q)
     \/ /\ Overdue(tgt[q])
        /\ CallExpire(q, "return")
     \/ /\ index[tgt[q]].state = "pending" /\ tgt[q] \notin due
        /\ Carry(q, [index[tgt[q]] EXCEPT !.state = Closing[kind[q]]], "cas")
  /\ UNCHANGED <<store, world, snap>>

\* expire_one returned None.  A lookup made by quant_approve then hands the
\* pending record it read before back, and the approval goes on with it.
ExpireNothing(q) ==
  \/ /\ after[q] = "return"
     /\ Return(q)
  \/ /\ after[q] = "claim"
     /\ Call(q, "claim", tgt[q], NoRow, "read", "return")

\* Mutants: a state the row type does not have; the audit line without the
\* index update.
ReadForExpire_BadState(q) ==
  /\ At(q, "read") /\ kind[q] = "expire"
  /\ IF index[tgt[q]].state # "pending"
       THEN ExpireNothing(q)
       ELSE Carry(q, [index[tgt[q]] EXCEPT !.state = "timed_out"], "cas")
  /\ UNCHANGED <<store, world, snap>>

ReadForExpire_LogOnly(q) ==
  /\ At(q, "read") /\ kind[q] = "expire"
  /\ IF index[tgt[q]].state # "pending"
       THEN ExpireNothing(q)
       ELSE Carry(q, [index[tgt[q]] EXCEPT !.state = "expired"], "log")
  /\ UNCHANGED <<store, world, snap>>

ReadForExpire(q) ==
  /\ At(q, "read") /\ kind[q] = "expire"
  /\ \/ /\ index[tgt[q]].state # "pending"
        /\ ExpireNothing(q)
     \/ /\ index[tgt[q]].state = "pending"
        /\ Carry(q, [index[tgt[q]] EXCEPT !.state = "expired"], "cas")
  /\ UNCHANGED <<store, world, snap>>

\* record_execution does not look at the state.
ReadForRecord(q) ==
  /\ At(q, "read") /\ kind[q] = "record"
  /\ \/ /\ index[tgt[q]].state = "absent"
        /\ Return(q)
     \/ /\ index[tgt[q]].state # "absent"
        /\ Carry(q, [index[tgt[q]] EXCEPT !.execution = TRUE], "log")
  /\ UNCHANGED <<store, world, snap>>

ReadForRelease(q) ==
  /\ At(q, "read") /\ kind[q] = "release"
  /\ \/ /\ index[tgt[q]].state # "approved" \/ index[tgt[q]].execution
        /\ Return(q)
     \/ /\ index[tgt[q]].state = "approved" /\ ~index[tgt[q]].execution
        /\ Carry(q, PendingRow, "log")
  /\ UNCHANGED <<store, world, snap>>

-----------------------------------------------------------------------------
(***************************************************************************)
(* Writes.                                                                 *)
(***************************************************************************)
\* Mutants: no WHERE clause; the reactor called before the audit line.
CasFromPending_Unguarded(q) ==
  /\ At(q, "cas")
  /\ index' = [index EXCEPT ![tgt[q]] = row[q]]
  /\ Move(q, "log")
  /\ UNCHANGED <<logged, tail, world, snap>>

CasFromPending_FireFirst(q) ==
  /\ At(q, "cas")
  /\ IF index[tgt[q]].state = "pending"
       THEN /\ index' = [index EXCEPT ![tgt[q]] = row[q]]
            /\ Move(q, IF kind[q] = "claim" THEN "fire" ELSE "log")
       ELSE Return(q) /\ UNCHANGED index
  /\ UNCHANGED <<logged, tail, world, snap>>

\* UPDATE ... WHERE state = 'pending', in a transaction of its own.
CasFromPending(q) ==
  /\ At(q, "cas")
  /\ \/ /\ index[tgt[q]].state = "pending"
        /\ index' = [index EXCEPT ![tgt[q]] = row[q]]
        /\ Move(q, "log")
     \/ /\ index[tgt[q]].state # "pending"
        /\ IF kind[q] = "expire" THEN ExpireNothing(q) ELSE Move(q, "lost")
        /\ UNCHANGED index
  /\ UNCHANGED <<logged, tail, world, snap>>

\* The loser reads the row again for its error message, which may expire it.
ReadAfterLoss(q) ==
  /\ At(q, "lost")
  /\ IF Overdue(tgt[q]) THEN CallExpire(q, "return") ELSE Return(q)
  /\ UNCHANGED <<store, world, snap>>

\* A whole line reaches the file.  Glued to a partial line it is lost to
\* every reader; the line after that one makes the damage mid-file.
Append(p, r) ==
  /\ tail' = CASE tail = "partial" -> "glued"
               [] tail = "glued"   -> "corrupt"
               [] OTHER            -> tail
  /\ logged' = IF tail = "partial" THEN logged ELSE [logged EXCEPT ![p] = r]

AppendAudit(q) ==
  /\ At(q, "log")
  /\ Append(tgt[q], row[q])
  /\ \/ kind[q] = "claim" /\ Move(q, "fire")
     \/ kind[q] \in {"create", "record", "release"} /\ Move(q, "upsert")
     \/ kind[q] \in {"approve", "reject", "expire"} /\ Return(q)
  /\ UNCHANGED <<index, world, snap>>

\* The second half of _persist: INSERT ... ON CONFLICT DO UPDATE, whatever
\* the row holds.
Upsert(q) ==
  /\ At(q, "upsert")
  /\ index' = [index EXCEPT ![tgt[q]] = row[q]]
  /\ Return(q)
  /\ UNCHANGED <<logged, tail, world, snap>>

-----------------------------------------------------------------------------
(***************************************************************************)
(* The reactor is called once the claim is in both stores.                 *)
(***************************************************************************)
FireFilled(q) ==
  /\ At(q, "fire")
  /\ fires' = [fires EXCEPT ![tgt[q]] = @ + 1]
  /\ Call(q, "record", tgt[q], NoRow, "read", "return")
  /\ UNCHANGED <<store, due, snap>>

\* Mutant: a refusal reported as a fill.
FireRefused_Recorded(q) ==
  /\ At(q, "fire")
  /\ Call(q, "record", tgt[q], NoRow, "read", "return")
  /\ UNCHANGED <<store, world, snap>>

\* Fill-size invariant, admissibility, silence or no-fill: no capital moved.
FireRefused(q) ==
  /\ At(q, "fire")
  /\ Call(q, "release", tgt[q], NoRow, "read", "return")
  /\ UNCHANGED <<store, world, snap>>

\* Mutant: every exception taken for a proof that nothing was filled.
FireAmbiguous_Released(q) ==
  /\ At(q, "fire")
  /\ fires' \in {fires, [fires EXCEPT ![tgt[q]] = @ + 1]}
  /\ Call(q, "release", tgt[q], NoRow, "read", "return")
  /\ UNCHANGED <<store, due, snap>>

\* Any other exception: the fill may or may not have reached the bus, and
\* the proposal is left claimed.
FireAmbiguous(q) ==
  /\ At(q, "fire")
  /\ fires' \in {fires, [fires EXCEPT ![tgt[q]] = @ + 1]}
  /\ Return(q)
  /\ UNCHANGED <<store, due, snap>>

-----------------------------------------------------------------------------
(***************************************************************************)
(* _reconcile_index: the file is read first, the index replaced later.  A  *)
(* malformed last line is skipped; one with lines after it stops the       *)
(* rebuild.                                                                *)
(***************************************************************************)
\* Mutant: nobody stops the other processes.
ReconcileRead_Online(q) ==
  /\ At(q, "idle") /\ \A r \in Procs : ~At(r, "rebuild")
  /\ tail # "corrupt"
  /\ snap' = logged
  /\ Call(q, "rebuild", NoProposal, NoRow, "rebuild", "return")
  /\ UNCHANGED <<store, world>>

ReconcileRead(q) ==
  /\ Reconcile # "never"
  /\ MayStart(q)
  /\ \A r \in Procs : ~At(r, "rebuild") /\ (Reconcile = "offline" => At(r, "idle"))
  /\ tail # "corrupt"
  /\ snap' = logged
  /\ Call(q, "rebuild", NoProposal, NoRow, "rebuild", "return")
  /\ UNCHANGED <<store, world>>

ReconcileWrite(q) ==
  /\ At(q, "rebuild")
  /\ index' = snap
  /\ snap' = [p \in ProposalIds |-> NoRow]
  /\ Return(q)
  /\ UNCHANGED <<logged, tail, world>>

-----------------------------------------------------------------------------
(***************************************************************************)
(* The environment: time passes, processes die.                            *)
(***************************************************************************)
TtlElapses(p) ==
  /\ index[p] # NoRow
  /\ p \notin due
  /\ due' = due \cup {p}
  /\ UNCHANGED <<store, fires, local, snap>>

Crash(q) ==
  /\ ~At(q, "idle")
  /\ Return(q)
  /\ snap' = IF At(q, "rebuild") THEN [p \in ProposalIds |-> NoRow] ELSE snap
  /\ UNCHANGED <<store, world>>

CrashMidAppend(q) ==
  /\ TornWrites
  /\ At(q, "log")
  /\ tail' = IF tail \in {"clean", "partial"} THEN "partial" ELSE "corrupt"
  /\ Return(q)
  /\ UNCHANGED <<index, logged, world, snap>>

Read(q) == \/ Get(q) \/ ReadForClaim(q) \/ ReadForClose(q) \/ ReadForExpire(q)
           \/ ReadForRecord(q) \/ ReadForRelease(q) \/ ReadAfterLoss(q)

Write(q) == CasFromPending(q) \/ AppendAudit(q) \/ Upsert(q)

Fire(q) == FireFilled(q) \/ FireRefused(q) \/ FireAmbiguous(q)

Start(q) == \E p \in ProposalIds :
              \/ Propose(q, p) \/ QuantApprove(q, p) \/ QuantReject(q, p)
              \/ LegacyApprove(q, p) \/ SweepExpired(q, p)

Next ==
  \/ \E q \in Procs : \/ Start(q) \/ Read(q) \/ Write(q) \/ Fire(q)
                      \/ ReconcileRead(q) \/ ReconcileWrite(q)
                      \/ Crash(q) \/ CrashMidAppend(q)
  \/ \E p \in ProposalIds : TtlElapses(p)

Spec == Init /\ [][Next]_vars

-----------------------------------------------------------------------------
(***************************************************************************)
(* Safety.                                                                 *)
(***************************************************************************)
\* "Exactly ONE concurrent caller wins": whatever the interleaving of
\* approvals, rejections, expiries, releases and crashes, a proposal moves
\* capital at most once.
AtMostOneFire == \A p \in ProposalIds : fires[p] <= 1

\* A proposal whose fill is on the bus is never shown, nor offered again, as
\* pending, rejected or expired: no stale reader overwrites the fired row.
FiredStaysApproved ==
  \A p \in ProposalIds : fires[p] > 0 => index[p].state = "approved"

\* The execution is attached only to the proposal that was filled: a claim,
\* a release or a rebuild never carries one over from a stale row.
ExecutionMeansFill ==
  \A p \in ProposalIds :
    index[p].execution => fires[p] = 1 /\ index[p].state = "approved"

\* When the reactor is called, the claim is in both stores and is this
\* caller's alone, so that neither a crash nor a rebuild can hand the
\* proposal to someone else.
FireUnderDurableClaim ==
  \A q \in Procs : At(q, "fire") =>
    /\ index[tgt[q]].state = "approved" /\ logged[tgt[q]].state = "approved"
    /\ \A r \in Procs \ {q} : ~(tgt[r] = tgt[q] /\ kind[r] \in {"record", "release"})
    /\ \A r \in Procs \ {q} : ~(tgt[r] = tgt[q] /\ At(r, "fire"))

\* Losers leave no phantom event: the file never says that a proposal is
\* closed, or executed, when the index, which arbitrates, says otherwise.
LogNeverAhead ==
  \A p \in ProposalIds :
    logged[p].state \in {"approved", "rejected", "expired"} =>
      index[p].state = logged[p].state

\* What the file records as rejected or expired, or as executed, stays so in
\* both stores, through crashes and rebuilds.
ClosedIsFinal ==
  [][\A p \in ProposalIds :
       logged[p].state \in {"rejected", "expired"} \/ logged[p].execution =>
         logged'[p] = logged[p] /\ index'[p].state = logged[p].state]_vars

\* The index alone closes a proposal for good while no one rebuilds it,
\* whatever happens to the file.
IndexClosedIsFinal ==
  [][\A p \in ProposalIds :
       index[p].state \in {"rejected", "expired"} => index'[p] = index[p]]_index

(***************************************************************************)
(* The store implements the life cycle.  A rejection or an expiry counts   *)
(* once it is in the file: a process that dies before leaves a proposal    *)
(* that a rebuild shows as pending.                                        *)
(***************************************************************************)
StatusOf(p) ==
  IF fires[p] = 1 THEN "filled"
  ELSE IF logged[p].state \in {"rejected", "expired"} THEN logged[p].state
  ELSE CASE index[p].state = "approved" -> "claimed"
         [] index[p].state = "absent"   -> "absent"
         [] OTHER                       -> "pending"

Lifecycle == INSTANCE ProposalLifecycle
               WITH status <- [p \in ProposalIds |-> StatusOf(p)]

ImplementsLifecycle == Lifecycle!Spec

-----------------------------------------------------------------------------
(***************************************************************************)
(* Liveness.  A process that is not dead goes on with its operation.  The  *)
(* sweep is a cron job: while a proposal is overdue it is started again    *)
(* and again, and not every run of it dies at the same point, so its two   *)
(* steps on a proposal are strongly fair.  Operators owe us nothing.       *)
(***************************************************************************)
Proceed(q) == Read(q) \/ Write(q) \/ Fire(q) \/ ReconcileWrite(q)

LiveSpec ==
  /\ Spec
  /\ \A q \in Procs : WF_vars(Proceed(q))
  /\ \A p \in ProposalIds :
       /\ SF_vars(SweepExpired(Sweeper, p))
       /\ SF_vars(tgt[Sweeper] = p /\ ReadForExpire(Sweeper))
       /\ SF_vars(tgt[Sweeper] = p /\ CasFromPending(Sweeper))

\* A proposal that outlives its time to live does not stay approvable: it
\* leaves the pending state, even one that was claimed, refused by the
\* reactor and handed back after its time had passed.
OverdueIsClosed == \A p \in ProposalIds : Overdue(p) ~> ~Overdue(p)
=============================================================================
