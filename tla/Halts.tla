------------------------------- MODULE Halts -------------------------------
(***************************************************************************)
(* The halt registry (daemon/halt_state.py): a SQLite table of halts and a *)
(* JSON mirror of the active ones, written after every change, outside the *)
(* transaction, through one temporary file that all processes share.       *)
(* Operators install and lift halts from the command line (cli/halts.py).  *)
(* Cron ticks read the mirror, never the table, when they start, and abort *)
(* when it lists a halt or cannot be read; human approvals read neither.   *)
(*                                                                         *)
(* The scope (account, asset class, asset), with its wildcards, is the set *)
(* of instruments that it covers.                                          *)
(***************************************************************************)
EXTENDS Naturals, FiniteSetsExt

CONSTANTS
  Instruments,
  Scopes,      \* the scopes operators halt, sets of instruments
  Writers,     \* processes that change the registry
  Ticks,       \* cron jobs that fire
  Approvals,   \* BOOLEAN: do operators approve proposals?
  Crashes,     \* BOOLEAN: may a writer die between two steps?
  MaxHalts,    \* bound on the halts ever installed
  NoHalt

ASSUME HaltsAssumption ==
  /\ Scopes \subseteq SUBSET Instruments
  /\ {Approvals, Crashes} \subseteq BOOLEAN
  /\ MaxHalts \in Nat

VARIABLES
  halts,     \* the rows of the halts table
  mirror,    \* halt_state.json, as a reader finds it
  tmp,       \* halt_state.json.tmp
  pc,        \* where each writer stands
  mine,      \* the halt each writer is installing
  snap,      \* the active halts, as each writer read them back
  file,      \* where the file that a writer has open is found now
  armed,     \* the ticks that have passed their halt check
  lone,      \* history: the writer at work has been the only one since it began
  sound,     \* history: no two writers have met, and none died at work, since
             \* the last mirror written by one that was alone
  announced, \* history: the halts whose installation was reported as done
  seen,      \* history: the halts in force when a tick passed its check
  overHalt   \* history: who has fired an instrument under a halt in force

registry == <<halts, mine, announced>>
files    == <<mirror, tmp, file>>
order    == <<lone, sound>>
firing   == <<armed, seen, overHalt>>
vars     == <<registry, files, pc, snap, order, firing>>

Halt == [scope : Scopes, epoch : Nat \ {0}, timed : BOOLEAN]
Row  == [halt : Halt, active : BOOLEAN]

\* What a file holds: the JSON text of a list of halts, nothing, or text that
\* is no JSON.  A reader takes a file that is not there for an empty list.
Content  == [text : {"json", "empty", "mangled"}, halts : SUBSET Halt]
Says(hs) == [text |-> "json", halts |-> hs]
Empty    == [text |-> "empty", halts |-> {}]
Mangled  == [text |-> "mangled", halts |-> {}]
NoFile   == Says({})

Readable == mirror.text = "json"

Active == {r.halt : r \in {r \in halts : r.active}}

\* The halts that an operator has been told are installed.
InForce == Active \cap announced

TypeOK ==
  /\ halts \subseteq Row
  /\ mirror \in Content
  /\ tmp \in [exists : BOOLEAN, content : Content]
  /\ pc \in [Writers -> {"idle", "read", "open", "write", "rename", "error"}]
  /\ mine \in [Writers -> Halt \cup {NoHalt}]
  /\ {lone, sound} \subseteq BOOLEAN
  /\ announced \subseteq Halt
  /\ snap \in [Writers -> SUBSET Halt]
  /\ file \in [Writers -> {"none", "tmp", "mirror", "gone"}]
  /\ armed \subseteq Ticks
  /\ seen \in [Ticks -> SUBSET Halt]
  /\ overHalt \subseteq {"tick", "approval"}

Init ==
  /\ halts = {}
  /\ mirror = NoFile
  /\ tmp = [exists |-> FALSE, content |-> NoFile]
  /\ pc   = [q \in Writers |-> "idle"]
  /\ mine = [q \in Writers |-> NoHalt]
  /\ snap = [q \in Writers |-> {}]
  /\ file = [q \in Writers |-> "none"]
  /\ lone = FALSE /\ sound = TRUE
  /\ announced = {}
  /\ armed = {} /\ seen = [t \in Ticks |-> {}] /\ overHalt = {}

-----------------------------------------------------------------------------
(***************************************************************************)
(* Changes of the table, each one transaction.                             *)
(***************************************************************************)
Go(q, from, to) == pc[q] = from /\ pc' = [pc EXCEPT ![q] = to]

\* A writer has changed the table and has the mirror to write.
Begin(q) ==
  /\ Go(q, "idle", "read")
  /\ lone'  = (\A r \in Writers \ {q} : pc[r] = "idle")
  /\ sound' = (sound /\ lone')

Epochs(s) == {r.halt.epoch : r \in {r \in halts : r.halt.scope = s}}

LastEpoch(s) == Max({0} \cup Epochs(s))

Insert(q, s, timed, epoch) ==
  LET h == [scope |-> s, epoch |-> epoch, timed |-> timed]
  IN  /\ Begin(q)
      /\ Cardinality(halts) < MaxHalts
      /\ halts' = halts \cup {[halt |-> h, active |-> TRUE]}
      /\ mine'  = [mine EXCEPT ![q] = h]
      /\ UNCHANGED <<announced, files, snap, firing>>

\* Mutants: the check for an active halt left out; the epoch not increased.
AddHalt_Unchecked(q, s, timed) == Insert(q, s, timed, LastEpoch(s) + 1)

AddHalt_SameEpoch(q, s, timed) ==
  /\ \A h \in Active : h.scope # s
  /\ Insert(q, s, timed, LastEpoch(s))

\* add_halt at a scope with no active halt.  At one that has an active halt
\* it raises, and neither the table nor the mirror is written; an emergency
\* stop goes on to its bus signal.
AddHalt(q, s, timed) ==
  /\ \A h \in Active : h.scope # s
  /\ Insert(q, s, timed, LastEpoch(s) + 1)

Clear(hs) == {[r EXCEPT !.active = @ /\ r.halt \notin hs] : r \in halts}

\* Mutants: the row is deleted instead of being marked as cleared; the mirror
\* is not written.
ClearHalt_Delete(q, s) ==
  /\ Begin(q)
  /\ \E h \in Active : h.scope = s
  /\ halts' = {r \in halts : r.halt.scope # s \/ ~r.active}
  /\ UNCHANGED <<mine, announced, files, snap, firing>>

ClearHalt_NoMirror(q, s) ==
  /\ Go(q, "idle", "idle")
  /\ \E h \in Active : h.scope = s
  /\ halts' = Clear({h \in Active : h.scope = s})
  /\ UNCHANGED <<mine, announced, files, snap, order, firing>>

ClearHalt(q, s) ==
  /\ Begin(q)
  /\ \E h \in Active : h.scope = s
  /\ halts' = Clear({h \in Active : h.scope = s})
  /\ UNCHANGED <<mine, announced, files, snap, firing>>

\* auto_clear_expired, whatever the halts whose time has passed.
AutoClearExpired(q) ==
  /\ Begin(q)
  /\ \E passed \in SUBSET {h \in Active : h.timed} :
       passed # {} /\ halts' = Clear(passed)
  /\ UNCHANGED <<mine, announced, files, snap, firing>>

-----------------------------------------------------------------------------
(***************************************************************************)
(* _write_mirror, after the commit and outside the lock: read the active   *)
(* halts back, open the temporary file, write it, rename it.               *)
(***************************************************************************)
ReadActive(q) ==
  /\ Go(q, "read", "open")
  /\ snap' = [snap EXCEPT ![q] = Active]
  /\ UNCHANGED <<registry, files, order, firing>>

\* open(tmp, "w") empties the file if another writer has it there already.
OpenTmp(q) ==
  /\ Go(q, "open", "write")
  /\ tmp' = [exists |-> TRUE, content |-> Empty]
  /\ file' = [file EXCEPT ![q] = "tmp"]
  /\ UNCHANGED <<registry, mirror, snap, order, firing>>

\* The bytes go to the file that was opened, under whatever name it has now.
\* The longer text of another writer shows beyond their end; which of two
\* lists of the same size is longer depends on the reasons in them.
Shorter(gs, hs) == gs # hs /\ Cardinality(gs) <= Cardinality(hs)

Overwrite(old, q) ==
  {c \in {Says(snap[q]), Mangled} :
     /\ c = Mangled => old.text = "mangled" \/ Shorter(snap[q], old.halts)
     /\ c # Mangled => Cardinality(snap[q]) >= Cardinality(old.halts)}

WriteTmp(q) ==
  /\ Go(q, "write", "rename")
  /\ \/ /\ file[q] = "tmp"
        /\ \E c \in Overwrite(tmp.content, q) : tmp' = [tmp EXCEPT !.content = c]
        /\ UNCHANGED mirror
     \/ /\ file[q] = "mirror"
        /\ mirror' \in Overwrite(mirror, q)
        /\ UNCHANGED tmp
     \/ /\ file[q] = "gone"
        /\ UNCHANGED <<mirror, tmp>>
  /\ UNCHANGED <<registry, file, snap, order, firing>>

Renamed == [tmp |-> "mirror", mirror |-> "gone", gone |-> "gone", none |-> "none"]

Finish(q) ==
  /\ mine' = [mine EXCEPT ![q] = NoHalt]
  /\ snap' = [snap EXCEPT ![q] = {}]

\* Mutant: the mirror is left as it was.
Rename_Skipped(q) ==
  /\ Go(q, "rename", "idle")
  /\ announced' = announced \cup ({mine[q]} \ {NoHalt})
  /\ Finish(q)
  /\ file' = [file EXCEPT ![q] = "none"]
  /\ sound' = (sound \/ lone)
  /\ UNCHANGED <<halts, mirror, tmp, lone, firing>>

\* os.replace.  It raises when another writer has renamed the file already,
\* and nothing up to the command line catches that.
Rename(q) ==
  \/ /\ tmp.exists
     /\ Go(q, "rename", "idle")
     /\ mirror' = tmp.content
     /\ tmp'    = [exists |-> FALSE, content |-> NoFile]
     /\ file'   = [r \in Writers |-> IF r = q THEN "none" ELSE Renamed[file[r]]]
     /\ announced' = announced \cup ({mine[q]} \ {NoHalt})
     /\ sound' = (sound \/ lone)
     /\ Finish(q)
     /\ UNCHANGED <<halts, lone, firing>>
  \/ /\ ~tmp.exists
     /\ Go(q, "rename", "error")
     /\ file' = [file EXCEPT ![q] = "none"]
     /\ UNCHANGED <<registry, mirror, tmp, snap, order, firing>>

Die(q) ==
  /\ pc[q] = "error" \/ (Crashes /\ pc[q] # "idle")
  /\ pc'   = [pc EXCEPT ![q] = "idle"]
  /\ file' = [file EXCEPT ![q] = "none"]
  /\ lone' = FALSE /\ sound' = FALSE
  /\ Finish(q)
  /\ UNCHANGED <<halts, announced, mirror, tmp, firing>>

-----------------------------------------------------------------------------
(***************************************************************************)
(* The readers.                                                            *)
(***************************************************************************)
\* A tick goes on past its halt check.
TickStarts(t) ==
  /\ t \notin armed
  /\ Readable /\ mirror.halts = {}
  /\ armed' = armed \cup {t}
  /\ seen'  = [seen EXCEPT ![t] = InForce]
  /\ UNCHANGED <<registry, files, pc, snap, order, overHalt>>

TickAborts(t) ==
  /\ t \notin armed
  /\ ~Readable \/ mirror.halts # {}
  /\ UNCHANGED vars

Covered(hs, i) == \E h \in hs : i \in h.scope

\* A tick fires any number of instruments on the strength of one check.
TickFires(t, i) ==
  /\ t \in armed
  /\ overHalt' = IF Covered(seen[t] \cap Active, i) THEN overHalt \cup {"tick"}
                 ELSE overHalt
  /\ UNCHANGED <<registry, files, pc, snap, order, armed, seen>>

TickEnds(t) ==
  /\ t \in armed
  /\ armed' = armed \ {t}
  /\ seen'  = [seen EXCEPT ![t] = {}]
  /\ UNCHANGED <<registry, files, pc, snap, order, overHalt>>

\* quant_approve and PaperReactor.execute: no halt check on the way.
ApprovalFires(i) ==
  /\ Approvals
  /\ overHalt' = IF Covered(InForce, i) THEN overHalt \cup {"approval"}
                 ELSE overHalt
  /\ UNCHANGED <<registry, files, pc, snap, order, armed, seen>>

Next ==
  \/ \E q \in Writers :
       \/ \E s \in Scopes : \/ \E timed \in BOOLEAN : AddHalt(q, s, timed)
                            \/ ClearHalt(q, s)
       \/ AutoClearExpired(q)
       \/ ReadActive(q) \/ OpenTmp(q) \/ WriteTmp(q) \/ Rename(q) \/ Die(q)
  \/ \E t \in Ticks : \/ TickStarts(t) \/ TickAborts(t) \/ TickEnds(t)
                      \/ \E i \in Instruments : TickFires(t, i)
  \/ \E i \in Instruments : ApprovalFires(i)

Spec == Init /\ [][Next]_vars

-----------------------------------------------------------------------------
(***************************************************************************)
(* Properties.                                                             *)
(***************************************************************************)
\* One active halt per scope, so that lifting it lifts the halt.
OneActivePerScope == \A g, h \in Active : g.scope = h.scope => g = h

\* The table is a history: no halt disappears from it, a lifted one is never
\* in force again, and a new one has a higher epoch than all those before it.
HistoryIsAppendOnly ==
  [][/\ \A r \in halts : \E n \in halts' : n.halt = r.halt /\ (n.active => r.active)
     /\ \A n \in halts' : (\A r \in halts : r.halt # n.halt) =>
          \A r \in halts : r.halt.scope = n.halt.scope => r.halt.epoch < n.halt.epoch]_halts

\* Unless two writers met or one died, a tick that looks at the mirror, even
\* while somebody is changing the registry, finds there every halt that an
\* operator was told is installed; and the next writer that works alone, after
\* whatever happened before, makes it so again.
InForceIsMirrored == sound => Readable /\ InForce \subseteq mirror.halts

\* Under the same condition the mirror lists exactly the active halts once no
\* writer is at work on it: a lifted halt does not stop anybody any more.
MirrorSettled ==
  sound /\ (\A q \in Writers : pc[q] = "idle") => mirror = Says(Active)

\* A tick never fires an instrument under a halt that was in force when the
\* tick began: what the operator was told is installed stops the next tick.
TicksHonourHalts == "tick" \notin overHalt
=============================================================================
