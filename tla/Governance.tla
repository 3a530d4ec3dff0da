----------------------------- MODULE Governance -----------------------------
(***************************************************************************)
(* The governance halt (governance/kill_switch.py), the tokens that lift   *)
(* it (governance/approvals.py, the commands grant-clear and clear-halt of *)
(* cli/__init__.py), the audit log (governance/audit_log.py) and the       *)
(* promotion evaluator that reads it (governance/promotion.py).            *)
(*                                                                         *)
(* The halt is a flag in state.json, written through one temporary file;   *)
(* the mutex around its changes is of one process.  Tokens and audit       *)
(* events are lines of append-only files.  Actors are the callers of these *)
(* functions: threads of one process, or processes, as the setup says.     *)
(***************************************************************************)
EXTENDS Integers, Sequences

CONSTANTS
  Actors,
  Tokens,      \* identifiers that may be minted
  NoToken,
  Setups,      \* what may happen: see Setup
  MaxDay,      \* bound on the days
  Short, Long  \* the windows of the evaluator, 14 and 30 days in the code

\* The actors share a process; actors die; tokens that operators mint; the
\* evaluator runs, and days pass; the bound on the lines of the audit log.
Setup == [oneProcess : BOOLEAN, crashes : BOOLEAN, tokens : SUBSET Tokens,
          evaluates : BOOLEAN, maxEvents : Nat]

ASSUME GovernanceAssumption ==
  /\ NoToken \notin Tokens
  /\ Setups \subseteq Setup
  /\ {MaxDay, Short, Long} \subseteq Nat

VARIABLES
  setup,
  day,
  state,    \* state.json, as a reader finds it
  tmp,      \* state.json.tmp
  rows,     \* the rows of the token store, in the order of the file
  expired,  \* tokens whose time to live has passed
  audit,    \* the events of the audit log that the evaluator looks at
  actor,    \* where each caller stands, and what it carries
  owed,     \* history: a fire has returned, and no token was spent since
  reported, \* history: the events whose producers have returned
  lifts     \* history: how often the halt was lifted with each token

files   == <<state, tmp>>
store   == <<rows, expired>>
history == <<owed, reported, lifts>>
vars    == <<setup, day, files, store, audit, actor, history>>

\* What state.json says.  A file that is empty, or is not there, is a state
\* without a halt; text that is no JSON raises in whoever reads it.
Content == {"none", "halted", "cleared", "mangled"}
NoFile  == "none"

Row   == [type : {"grant", "consumed"}, token : Tokens]
Kinds == {"fired", "breach", "degraded", "strong", "weak", "ready"}
Event == [kind : Kinds, asof : Nat]

Idle == [at |-> "idle", token |-> NoToken, writes |-> "none", file |-> "none",
         asof |-> 0, known |-> {}]

TypeOK ==
  /\ setup \in Setups
  /\ day \in 0..MaxDay
  /\ state \in Content
  /\ tmp \in Content \cup {"absent"}
  /\ rows \in Seq(Row)
  /\ expired \subseteq Tokens
  /\ audit \in Seq(Event)
  /\ actor \in [Actors -> [
       at : {"idle", "require", "refused", "prior", "consume", "open", "write",
             "rename", "note", "collect", "promoted", "blocked"},
       token : Tokens \cup {NoToken}, writes : {"none", "halted", "cleared"},
       file : {"none", "tmp", "state", "gone"},
       asof : Nat, known : SUBSET Event]]
  /\ owed \in BOOLEAN
  /\ reported \subseteq Event
  /\ lifts \in [Tokens -> Nat]

Init ==
  /\ setup \in Setups
  /\ day = 0
  /\ state = NoFile /\ tmp = "absent"
  /\ rows = <<>> /\ expired = {}
  /\ audit = <<>>
  /\ actor = [q \in Actors |-> Idle]
  /\ owed = FALSE /\ reported = {}
  /\ lifts = [t \in Tokens |-> 0]

-----------------------------------------------------------------------------
At(q, label) == actor[q].at = label
Goes(q, label) == actor' = [actor EXCEPT ![q].at = label]
Return(q) == actor' = [actor EXCEPT ![q] = Idle]

Changing == {"consume", "open", "write", "rename", "note"}

\* _fire_lock is free: it is of one process, and held over a whole change.
Mutex(q) ==
  setup.oneProcess => \A r \in Actors \ {q} : actor[r].at \notin Changing

Halted == state = "halted"

-----------------------------------------------------------------------------
(* fire and the write of state.json.                                        *)

\* Mutant: the flag is read before the mutex is taken.
Fire_Unlocked(q) ==
  /\ At(q, "idle") /\ state # "mangled" /\ Len(audit) < setup.maxEvents
  /\ IF Halted THEN owed' = TRUE /\ UNCHANGED actor
     ELSE /\ actor' = [actor EXCEPT ![q] = [Idle EXCEPT !.at = "open",
                         !.writes = "halted", !.asof = day]]
          /\ UNCHANGED owed
  /\ UNCHANGED <<setup, day, files, store, audit, reported, lifts>>

\* A halt that is there already is left as it is, with no event.
Fire(q) ==
  /\ At(q, "idle") /\ Mutex(q) /\ state # "mangled" /\ Len(audit) < setup.maxEvents
  /\ IF Halted THEN owed' = TRUE /\ UNCHANGED actor
     ELSE /\ actor' = [actor EXCEPT ![q] = [Idle EXCEPT !.at = "open",
                         !.writes = "halted", !.asof = day]]
          /\ UNCHANGED owed
  /\ UNCHANGED <<setup, day, files, store, audit, reported, lifts>>

\* open(tmp, "w") empties what another process has there.
OpenTmp(q) ==
  /\ At(q, "open")
  /\ tmp' = "none"
  /\ actor' = [actor EXCEPT ![q].at = "write", ![q].file = "tmp"]
  /\ UNCHANGED <<setup, day, state, store, audit, history>>

\* Bytes over those of another process, in a file that both have open: the
\* longer text shows beyond the end of the shorter.
Overwrite(old, new) == IF old = "none" THEN {new} ELSE {new, "mangled"}

WriteTmp(q) ==
  /\ At(q, "write")
  /\ \/ /\ actor[q].file = "tmp"
        /\ tmp' \in Overwrite(tmp, actor[q].writes) /\ UNCHANGED state
     \/ /\ actor[q].file = "state"
        /\ state' \in Overwrite(state, actor[q].writes) /\ UNCHANGED tmp
     \/ /\ actor[q].file = "gone" /\ UNCHANGED files
  /\ Goes(q, "rename")
  /\ UNCHANGED <<setup, day, store, audit, history>>

Renamed(file) == IF file = "tmp" THEN "state" ELSE
                 IF file = "state" THEN "gone" ELSE file

\* Mutant: the file that is not there any more is taken for written.
Rename_Blind(q) ==
  /\ At(q, "rename")
  /\ state' = tmp /\ tmp' = "absent"
  /\ Return(q)
  /\ UNCHANGED <<setup, day, store, audit, history>>

\* os.replace, after an fsync.  It raises when another process has renamed the
\* file; a fire goes on to its event, a clear returns.
Rename(q) ==
  /\ At(q, "rename")
  /\ IF tmp = "absent" THEN Return(q) /\ UNCHANGED <<files, history>>
     ELSE /\ state' = tmp /\ tmp' = "absent"
          /\ actor' = [r \in Actors |->
               IF r # q THEN [actor[r] EXCEPT !.file = Renamed(@)]
               ELSE IF actor[q].writes = "halted"
               THEN [actor[q] EXCEPT !.at = "note", !.file = "none"] ELSE Idle]
          /\ lifts' = IF actor[q].writes = "cleared"
                      THEN [lifts EXCEPT ![actor[q].token] = @ + 1] ELSE lifts
          /\ UNCHANGED <<owed, reported>>
  /\ UNCHANGED <<setup, day, store, audit>>

\* The event of a fire, of the day the fire began; then the fire returns.
Note(q) ==
  LET e == [kind |-> "fired", asof |-> actor[q].asof]
  IN  /\ At(q, "note")
      /\ audit' = Append(audit, e)
      /\ reported' = reported \cup {e}
      /\ owed' = TRUE
      /\ Return(q)
      /\ UNCHANGED <<setup, day, files, store, lifts>>

-----------------------------------------------------------------------------
(* Tokens.                                                                  *)

Granted  == {rows[i].token : i \in {i \in DOMAIN rows : rows[i].type = "grant"}}
Consumed == {rows[i].token : i \in {i \in DOMAIN rows : rows[i].type = "consumed"}}

Grant(t) ==
  /\ t \in setup.tokens \ Granted
  /\ rows' = Append(rows, [type |-> "grant", token |-> t])

\* grant-clear: the operator is given the token.
GrantClear(q, t) ==
  /\ At(q, "idle") /\ Grant(t)
  /\ UNCHANGED <<setup, day, files, expired, audit, actor, history>>

\* clear-halt: a token of its own, and clear with it.
ClearHalt(q, t) ==
  /\ At(q, "idle") /\ Grant(t)
  /\ actor' = [actor EXCEPT ![q] = [Idle EXCEPT !.at = "require", !.token = t]]
  /\ UNCHANGED <<setup, day, files, expired, audit, history>>

\* kill_switch.clear with a token that was granted earlier, or once before.
ClearWith(q, t) ==
  /\ At(q, "idle") /\ t \in Granted
  /\ actor' = [actor EXCEPT ![q] = [Idle EXCEPT !.at = "require", !.token = t]]
  /\ UNCHANGED <<setup, day, files, store, audit, history>>

Expire(t) ==
  /\ t \in Granted \ expired
  /\ expired' = expired \cup {t}
  /\ UNCHANGED <<setup, day, files, rows, audit, actor, history>>

\* require_human_token: the first grant of the file that is neither spent nor
\* expired, or none.
FirstLive ==
  LET live == {i \in DOMAIN rows : /\ rows[i].type = "grant"
                                   /\ rows[i].token \notin Consumed \cup expired}
  IN  IF live = {} THEN NoToken
      ELSE rows[CHOOSE i \in live : \A j \in live : i <= j].token

\* The token that was passed has to be that one.
Require(q) ==
  /\ At(q, "require")
  /\ Goes(q, IF actor[q].token = FirstLive THEN "prior" ELSE "refused")
  /\ UNCHANGED <<setup, day, files, store, audit, history>>

Refused(q) ==
  /\ At(q, "refused")
  /\ Return(q)
  /\ UNCHANGED <<setup, day, files, store, audit, history>>

\* With no halt to lift, clear returns and leaves the token unspent.
ReadPrior(q) ==
  /\ At(q, "prior") /\ Mutex(q)
  /\ IF Halted THEN Goes(q, "consume") ELSE Return(q)
  /\ UNCHANGED <<setup, day, files, store, audit, history>>

\* Mutant: the token is marked as spent whatever the store says of it.
Consume_Unchecked(q) ==
  /\ At(q, "consume")
  /\ rows' = Append(rows, [type |-> "consumed", token |-> actor[q].token])
  /\ actor' = [actor EXCEPT ![q].at = "open", ![q].writes = "cleared"]
  /\ owed' = FALSE
  /\ UNCHANGED <<setup, day, files, expired, audit, reported, lifts>>

\* consume_token holds a file lock from its check to its row, so this is one
\* step; a token that is spent already raises.  It does not look at the time.
Consume(q) ==
  /\ At(q, "consume")
  /\ IF actor[q].token \in Consumed
     THEN Return(q) /\ UNCHANGED <<rows, owed>>
     ELSE /\ rows' = Append(rows, [type |-> "consumed", token |-> actor[q].token])
          /\ actor' = [actor EXCEPT ![q].at = "open", ![q].writes = "cleared"]
          /\ owed' = FALSE
  /\ UNCHANGED <<setup, day, files, expired, audit, reported, lifts>>

\* An actor dies: with it all the threads of its process.
Crash(q) ==
  /\ setup.crashes /\ ~At(q, "idle")
  /\ actor' = IF setup.oneProcess THEN [r \in Actors |-> Idle]
              ELSE [actor EXCEPT ![q] = Idle]
  /\ UNCHANGED <<setup, day, files, store, audit, history>>

-----------------------------------------------------------------------------
(* The audit log and the promotion evaluator.                               *)

\* The gate rejects under an immutable rule, a snapshot of drift, drawdown or
\* Sharpe is written, the weekly review says ready, add_halt installs a halt.
Emit(kind) ==
  LET e == [kind |-> kind, asof |-> day]
  IN  /\ setup.evaluates /\ Len(audit) < setup.maxEvents
      /\ audit' = Append(audit, e)
      /\ reported' = reported \cup {e}
      /\ UNCHANGED <<setup, day, files, store, actor, owed, lifts>>

Evaluate(q) ==
  /\ setup.evaluates /\ At(q, "idle")
  /\ actor' = [actor EXCEPT ![q] = [Idle EXCEPT !.at = "collect", !.asof = day,
                                                !.known = reported]]
  /\ UNCHANGED <<setup, day, files, store, audit, history>>

\* Mutant: the oldest day of a window left out.
Recent_Open(e, window, asof) == e.asof + window > asof

Recent(e, window, asof) == e.asof + window >= asof

\* The floor on the Sharpe ratio looks at the snapshot with the latest day, and
\* of those at the last of the file, not at the best; without a snapshot, at
\* the bound derived from the settled round trips.
StrongSharpe(asof, settled) ==
  LET shots == {i \in DOMAIN audit : /\ audit[i].kind \in {"strong", "weak"}
                                     /\ Recent(audit[i], Long, asof)}
      Before(i, j) == \/ audit[i].asof < audit[j].asof
                      \/ audit[i].asof = audit[j].asof /\ i <= j
  IN  IF shots = {} THEN settled
      ELSE \E j \in shots : /\ \A i \in shots : Before(i, j)
                            /\ audit[j].kind = "strong"

\* enough: the settled round trips are as many as the threshold asks for.
Promotes(asof, enough, settled) ==
  LET Seen(kind, window) ==
        \E i \in DOMAIN audit : audit[i].kind = kind /\ Recent(audit[i], window, asof)
  IN  /\ enough
      /\ StrongSharpe(asof, settled)
      /\ ~Seen("fired", Short)
      /\ ~Seen("breach", Long) /\ ~Seen("degraded", Long)
      /\ Seen("ready", Long)

\* The log is read after the day of the evaluation was fixed.
Collect(q) ==
  /\ At(q, "collect")
  /\ \E enough, settled \in BOOLEAN :
       Goes(q, IF Promotes(actor[q].asof, enough, settled) THEN "promoted"
               ELSE "blocked")
  /\ UNCHANGED <<setup, day, files, store, audit, history>>

\* The event of the evaluation says nothing that a later one looks at.
Decided(q) ==
  /\ At(q, "promoted") \/ At(q, "blocked")
  /\ Return(q)
  /\ UNCHANGED <<setup, day, files, store, audit, history>>

NextDay ==
  /\ setup.evaluates /\ day < MaxDay
  /\ day' = day + 1
  /\ UNCHANGED <<setup, files, store, audit, actor, history>>

Next ==
  \/ \E q \in Actors :
       \/ Fire(q) \/ OpenTmp(q) \/ WriteTmp(q) \/ Rename(q) \/ Note(q)
       \/ \E t \in Tokens : GrantClear(q, t) \/ ClearHalt(q, t) \/ ClearWith(q, t)
       \/ Require(q) \/ Refused(q) \/ ReadPrior(q) \/ Consume(q) \/ Crash(q)
       \/ Evaluate(q) \/ Collect(q) \/ Decided(q)
  \/ \E t \in Tokens : Expire(t)
  \/ \E kind \in Kinds : Emit(kind)
  \/ NextDay

Spec == Init /\ [][Next]_vars

-----------------------------------------------------------------------------
(* A token lifts the halt at most once, whoever holds it and however many      *)
(* processes clear with it at the same time (one-shot, ADR-0031 D3).           *)
SpentOnce == \A t \in Tokens : lifts[t] <= 1

(* In one process, a halt that was reported stays in force until a token is    *)
(* spent on it, whatever fires, clears and deaths come in between.             *)
HaltHolds == setup.oneProcess /\ owed => Halted

(* What a producer had reported before an evaluation began blocks it: a halt   *)
(* in the short window, a breach in the long one, a last snapshot below the    *)
(* floor.                                                                      *)
ReportedBlocks ==
  \A q \in Actors : At(q, "promoted") =>
    \A e \in actor[q].known :
      LET age == actor[q].asof - e.asof
      IN  /\ e.kind = "fired" => age > Short
          /\ e.kind \in {"breach", "degraded"} => age > Long
          /\ e.kind = "weak" => \/ age > Long
                                \/ \E i \in DOMAIN audit :
                                     audit[i].kind = "strong" /\ audit[i].asof >= e.asof

(* What the help of the command says: clear-halt mints a token and clears the  *)
(* halt in one step; it is not refused for a token just minted.                *)
ClearHaltClears ==
  \A q \in Actors : At(q, "refused") /\ Halted => actor[q].token \in Consumed \cup expired
=============================================================================
