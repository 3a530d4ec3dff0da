-------------------------- MODULE GovernanceProofs --------------------------
(***************************************************************************)
(* Proofs about Governance, for any number of actors, tokens, days and     *)
(* events, in one process or in several.                                   *)
(***************************************************************************)
EXTENDS Governance, WellFoundedInduction, TLAPS

-----------------------------------------------------------------------------
(* The inductive invariant.                                                *)

Places  == {"idle", "require", "refused", "prior", "consume", "open", "write",
            "rename", "note", "collect", "promoted", "blocked"}
Caller  == [at : Places, token : Tokens \cup {NoToken},
            writes : {"none", "halted", "cleared"},
            file : {"none", "tmp", "state", "gone"},
            asof : Nat, known : SUBSET Event]

Writing     == {"open", "write", "rename"}
Clearing(q) == actor[q].writes = "cleared"

\* Whoever clears carries a token, from the check to the end of the write.
CarryInv ==
  \A q \in Actors :
    /\ actor[q].at \in {"require", "refused", "prior", "consume"}
         => actor[q].token \in Tokens /\ actor[q].writes = "none"
    /\ Clearing(q) => actor[q].token \in Tokens /\ actor[q].at \in Writing
    /\ actor[q].at \in Writing => actor[q].writes # "none"

\* A token that is being spent, or was, has its row in the store; it is spent
\* by one actor, who has not lifted the halt with it yet.
SpendInv ==
  /\ \A t \in Tokens : lifts[t] = 0 \/ (lifts[t] = 1 /\ t \in Consumed)
  /\ \A q \in Actors : Clearing(q) =>
       actor[q].token \in Consumed /\ lifts[actor[q].token] = 0
  /\ \A q, r \in Actors :
       Clearing(q) /\ Clearing(r) /\ actor[q].token = actor[r].token => q = r

\* In one process a change runs alone, and what it has written is there.
Alone ==
  \A q, r \in Actors : actor[q].at \in Changing /\ actor[r].at \in Changing => q = r
Written ==
  \A q \in Actors :
    /\ actor[q].at = "write"  => actor[q].file = "tmp" /\ tmp = "none"
    /\ actor[q].at = "rename" => tmp = actor[q].writes
    /\ actor[q].at = "note"   => Halted
    /\ Clearing(q) => ~owed
OneInv == setup.oneProcess => Alone /\ Written

\* What was reported is in the log, and an evaluation began after what it knows.
LogInv ==
  /\ reported \subseteq {audit[i] : i \in DOMAIN audit}
  /\ \A q \in Actors : actor[q].at \in {"collect", "promoted"} =>
       actor[q].known \subseteq reported

IInv == TypeOK /\ CarryInv /\ SpendInv /\ OneInv /\ HaltHolds /\ LogInv /\ ReportedBlocks

-----------------------------------------------------------------------------
LEMMA TypeOfActor == TypeOK <=>
  /\ setup \in Setups /\ day \in 0..MaxDay
  /\ state \in Content /\ tmp \in Content \cup {"absent"}
  /\ rows \in Seq(Row) /\ expired \subseteq Tokens /\ audit \in Seq(Event)
  /\ actor \in [Actors -> Caller]
  /\ owed \in BOOLEAN /\ reported \subseteq Event /\ lifts \in [Tokens -> Nat]
BY DEF TypeOK, Caller, Places

LEMMA AppendKeeps ==
  ASSUME NEW S, NEW s \in Seq(S), NEW e \in S
  PROVE  /\ Append(s, e) \in Seq(S)
         /\ DOMAIN s \subseteq DOMAIN Append(s, e)
         /\ \A i \in DOMAIN s : Append(s, e)[i] = s[i]
         /\ Len(s) + 1 \in DOMAIN Append(s, e)
         /\ Append(s, e)[Len(s) + 1] = e
         /\ \A i \in DOMAIN Append(s, e) : i \in DOMAIN s \/ i = Len(s) + 1
OBVIOUS

\* The row of a token that is spent is its token's alone.
LEMMA ConsumedGrows ==
  ASSUME NEW r \in Row, rows \in Seq(Row), rows' = Append(rows, r)
  PROVE  Consumed' = IF r.type = "consumed" THEN Consumed \cup {r.token} ELSE Consumed
<1>1. /\ DOMAIN rows' = DOMAIN rows \cup {Len(rows) + 1}
      /\ Len(rows) + 1 \notin DOMAIN rows
      /\ rows'[Len(rows) + 1] = r
      /\ \A i \in DOMAIN rows : rows'[i] = rows[i]
  OBVIOUS
<1> QED
  BY <1>1 DEF Consumed

-----------------------------------------------------------------------------
(* What each action does to the callers.                                   *)

\* Caller q moves on, and nobody else.
Moves(q, at, token, writes, file) ==
  /\ actor' \in [Actors -> Caller]
  /\ actor'[q].at = at /\ actor'[q].token = token
  /\ actor'[q].writes = writes /\ actor'[q].file = file
  /\ \A r \in Actors \ {q} : actor'[r] = actor[r]

LEMMA MovesTo ==
  ASSUME actor \in [Actors -> Caller], NEW q \in Actors, NEW c \in Caller,
         actor' = [actor EXCEPT ![q] = c]
  PROVE  Moves(q, c.at, c.token, c.writes, c.file) /\ actor'[q] = c
BY DEF Moves

LEMMA IdleIs == /\ Idle \in Caller /\ Idle.at = "idle" /\ Idle.token = NoToken
                /\ Idle.writes = "none" /\ Idle.file = "none"
BY DEF Idle, Caller, Places

LEMMA Returns ==
  ASSUME actor \in [Actors -> Caller], NEW q \in Actors, Return(q)
  PROVE  Moves(q, "idle", NoToken, "none", "none")
BY MovesTo, IdleIs DEF Return, Moves

LEMMA GoesTo ==
  ASSUME actor \in [Actors -> Caller], NEW q \in Actors, NEW label \in Places, Goes(q, label)
  PROVE  /\ Moves(q, label, actor[q].token, actor[q].writes, actor[q].file)
         /\ actor'[q].known = actor[q].known /\ actor'[q].asof = actor[q].asof
<1> DEFINE c == [actor[q] EXCEPT !.at = label]
<1>1. c \in Caller /\ c.at = label /\ c.token = actor[q].token
      /\ c.writes = actor[q].writes /\ c.file = actor[q].file
      /\ c.known = actor[q].known /\ c.asof = actor[q].asof
  BY DEF Caller
<1>2. actor' = [actor EXCEPT ![q] = c]
  BY DEF Goes
<1> HIDE DEF c
<1> QED
  BY <1>1, <1>2, MovesTo DEF Moves

LEMMA FireMoves ==
  ASSUME TypeOK, NEW q \in Actors, Fire(q)
  PROVE  \/ Halted /\ owed' /\ UNCHANGED actor
         \/ UNCHANGED owed /\ Moves(q, "open", NoToken, "halted", "none")
<1> DEFINE c == [Idle EXCEPT !.at = "open", !.writes = "halted", !.asof = day]
<1> USE TypeOfActor
<1>1. c \in Caller /\ c.at = "open" /\ c.token = NoToken /\ c.writes = "halted" /\ c.file = "none"
  <2> day \in Nat
    BY GovernanceAssumption
  <2> QED
    BY DEF Idle, Caller, Places
<1> HIDE DEF c
<1> QED
  BY <1>1, MovesTo DEF Fire, c, Moves

LEMMA OpenTmpMoves ==
  ASSUME TypeOK, NEW q \in Actors, OpenTmp(q)
  PROVE  Moves(q, "write", actor[q].token, actor[q].writes, "tmp")
<1> DEFINE c == [actor[q] EXCEPT !.at = "write", !.file = "tmp"]
<1> USE TypeOfActor
<1>1. c \in Caller /\ c.at = "write" /\ c.token = actor[q].token
      /\ c.writes = actor[q].writes /\ c.file = "tmp"
  <2> "write" \in Places
    BY DEF Places
  <2> QED
    BY DEF Caller
<1>2. actor' = [actor EXCEPT ![q] = c]
  BY DEF OpenTmp
<1> HIDE DEF c
<1> QED
  BY <1>1, <1>2, MovesTo DEF Moves

\* clear-halt and clear with a token.
LEMMA RequireMoves ==
  ASSUME TypeOK, NEW q \in Actors, NEW t \in Tokens, ClearHalt(q, t) \/ ClearWith(q, t)
  PROVE  Moves(q, "require", t, "none", "none")
<1> DEFINE c == [Idle EXCEPT !.at = "require", !.token = t]
<1> USE TypeOfActor
<1>1. c \in Caller /\ c.at = "require" /\ c.token = t /\ c.writes = "none" /\ c.file = "none"
  BY DEF Idle, Caller, Places
<1>2. actor' = [actor EXCEPT ![q] = c]
  BY DEF ClearHalt, ClearWith
<1> HIDE DEF c
<1> QED
  BY <1>1, <1>2, MovesTo DEF Moves

LEMMA EvaluateMoves ==
  ASSUME TypeOK, NEW q \in Actors, Evaluate(q)
  PROVE  Moves(q, "collect", NoToken, "none", "none") /\ actor'[q].known = reported
<1> DEFINE c == [Idle EXCEPT !.at = "collect", !.asof = day, !.known = reported]
<1> USE TypeOfActor
<1>1. c \in Caller /\ c.at = "collect" /\ c.token = NoToken /\ c.writes = "none"
      /\ c.file = "none" /\ c.known = reported
  <2> day \in Nat
    BY GovernanceAssumption
  <2> QED
    BY DEF Idle, Caller, Places
<1>2. actor' = [actor EXCEPT ![q] = c]
  BY DEF Evaluate
<1> HIDE DEF c
<1> QED
  BY <1>1, <1>2, MovesTo DEF Moves

LEMMA ConsumeMoves ==
  ASSUME TypeOK, NEW q \in Actors, actor[q].token \in Tokens, Consume(q)
  PROVE  \/ Moves(q, "idle", NoToken, "none", "none") /\ UNCHANGED <<rows, owed>>
         \/ /\ actor[q].token \notin Consumed
            /\ Consumed' = Consumed \cup {actor[q].token}
            /\ rows' \in Seq(Row) /\ ~owed'
            /\ Moves(q, "open", actor[q].token, "cleared", actor[q].file)
<1> DEFINE c == [actor[q] EXCEPT !.at = "open", !.writes = "cleared"]
           w == [type |-> "consumed", token |-> actor[q].token]
<1> USE TypeOfActor
<1>1. CASE actor[q].token \in Consumed
  BY <1>1, Returns DEF Consume
<1>2. CASE actor[q].token \notin Consumed
  <2>1. c \in Caller /\ c.at = "open" /\ c.token = actor[q].token
        /\ c.writes = "cleared" /\ c.file = actor[q].file
    <3> "open" \in Places
      BY DEF Places
    <3> QED
      BY DEF Caller
  <2>2. w \in Row /\ w.type = "consumed" /\ w.token = actor[q].token
    BY DEF Row
  <2>3. actor' = [actor EXCEPT ![q] = c] /\ rows' = Append(rows, w) /\ owed' = FALSE
    BY <1>2 DEF Consume
  <2> HIDE DEF c, w
  <2>4. Consumed' = Consumed \cup {actor[q].token} /\ rows' \in Seq(Row)
    BY <2>2, <2>3, ConsumedGrows, AppendKeeps
  <2> QED
    BY <1>2, <2>1, <2>3, <2>4, MovesTo DEF Moves
<1> QED
  BY <1>1, <1>2

LEMMA Grants ==
  ASSUME TypeOK, NEW t \in Tokens, Grant(t)
  PROVE  rows' \in Seq(Row) /\ Consumed' = Consumed
<1> DEFINE w == [type |-> "grant", token |-> t]
<1>1. w \in Row /\ w.type = "grant"
  BY DEF Row
<1>2. rows \in Seq(Row) /\ rows' = Append(rows, w)
  BY DEF TypeOK, Grant
<1> HIDE DEF w
<1> QED
  BY ONLY <1>1, <1>2, ConsumedGrows, AppendKeeps

\* The one who renames moves on; whoever has the file open keeps it.
LEMMA RenameMoves ==
  ASSUME TypeOK, NEW q \in Actors, Rename(q)
  PROVE  /\ actor' \in [Actors -> Caller]
         /\ \A r \in Actors \ {q} :
              /\ actor'[r].at = actor[r].at /\ actor'[r].token = actor[r].token
              /\ actor'[r].writes = actor[r].writes
              /\ actor'[r].asof = actor[r].asof /\ actor'[r].known = actor[r].known
              /\ actor[r].file = "none" => actor'[r].file = "none"
         /\ actor'[q].file = "none"
         /\ \/ actor'[q] = Idle
            \/ /\ tmp # "absent" /\ actor[q].writes = "halted"
               /\ actor'[q].at = "note" /\ actor'[q].token = actor[q].token
               /\ actor'[q].writes = actor[q].writes
<1> USE TypeOfActor
<1>1. CASE tmp = "absent"
  BY <1>1, MovesTo, IdleIs DEF Rename, Return, Moves
<1>2. CASE tmp # "absent"
  <2> DEFINE n == [actor[q] EXCEPT !.at = "note", !.file = "none"]
             k(r) == [actor[r] EXCEPT !.file = Renamed(actor[r].file)]
  <2>1. n \in Caller /\ n.at = "note" /\ n.file = "none" /\ n.token = actor[q].token
        /\ n.writes = actor[q].writes
    <3> "note" \in Places
      BY DEF Places
    <3> QED
      BY DEF Caller
  <2>2. \A r \in Actors :
          /\ k(r) \in Caller /\ k(r).at = actor[r].at /\ k(r).token = actor[r].token
          /\ k(r).writes = actor[r].writes /\ k(r).asof = actor[r].asof
          /\ k(r).known = actor[r].known
          /\ actor[r].file = "none" => k(r).file = "none"
    <3> DEFINE F == {"none", "tmp", "state", "gone"}
    <3>1. \A f \in F : Renamed(f) \in F /\ (f = "none" => Renamed(f) = "none")
      BY DEF Renamed
    <3> SUFFICES ASSUME NEW r \in Actors
                 PROVE  /\ k(r) \in Caller /\ k(r).at = actor[r].at
                        /\ k(r).token = actor[r].token /\ k(r).writes = actor[r].writes
                        /\ k(r).asof = actor[r].asof /\ k(r).known = actor[r].known
                        /\ actor[r].file = "none" => k(r).file = "none"
      OBVIOUS
    <3>2. actor[r] \in Caller /\ actor[r].file \in F
      BY DEF Caller
    <3> HIDE DEF F
    <3>3. Renamed(actor[r].file) \in F
          /\ (actor[r].file = "none" => Renamed(actor[r].file) = "none")
      BY <3>1, <3>2
    <3>4. PICK f \in F : f = Renamed(actor[r].file)
      BY <3>3
    <3>5. k(r) = [actor[r] EXCEPT !.file = f]
      BY <3>4
    <3> HIDE DEF k
    <3> QED
      BY ONLY <3>2, <3>3, <3>4, <3>5 DEF Caller, F
  <2>3. actor' = [r \in Actors |-> IF r # q THEN k(r)
                                   ELSE IF actor[q].writes = "halted" THEN n ELSE Idle]
    BY <1>2 DEF Rename
  <2> HIDE DEF n, k
  <2> QED
    BY <1>2, <2>1, <2>2, <2>3, IdleIs
<1> QED
  BY <1>1, <1>2

\* Every other action of a caller moves it along, or leaves it.
LEMMA CrashMoves ==
  ASSUME TypeOK, NEW q \in Actors, Crash(q)
  PROVE  /\ actor' \in [Actors -> Caller]
         /\ \A r \in Actors : actor'[r] = actor[r] \/ actor'[r] = Idle
BY TypeOfActor, IdleIs DEF Crash

-----------------------------------------------------------------------------
(* Every variable keeps its type; whoever clears carries a token.          *)

\* A caller that moves on carries what it has to.
LEMMA CarryMoves ==
  ASSUME CarryInv, NEW q \in Actors, NEW at, NEW token, NEW writes, NEW file,
         Moves(q, at, token, writes, file),
         at \in {"require", "refused", "prior", "consume"} => token \in Tokens /\ writes = "none",
         writes = "cleared" => token \in Tokens /\ at \in Writing,
         at \in Writing => writes # "none"
  PROVE  actor' \in [Actors -> Caller] /\ CarryInv'
BY DEF Moves, CarryInv, Clearing

LEMMA TypeStep ==
  ASSUME TypeOK, CarryInv, [Next]_vars
  PROVE  TypeOK' /\ CarryInv'
<1> DEFINE Files == state' \in Content /\ tmp' \in Content \cup {"absent"}
           Store == rows' \in Seq(Row) /\ expired' \subseteq Tokens
           Log == audit' \in Seq(Event) /\ reported' \subseteq Event
           Rest == setup' \in Setups /\ day' \in 0..MaxDay /\ owed' \in BOOLEAN
                   /\ lifts' \in [Tokens -> Nat]
           Callers == actor' \in [Actors -> Caller]
           Others == Files /\ Store /\ Log /\ Rest
           Good == Others /\ Callers /\ CarryInv'
<1> SUFFICES Good
  BY DEF TypeOK, Caller, Places
<1> USE TypeOfActor DEF files, store, history
<1> USE DEF CarryInv, Clearing, Writing
<1>1. ASSUME NEW q \in Actors, Fire(q) PROVE Good
  <2>1. Others
    BY <1>1 DEF Fire
  <2>2. CASE UNCHANGED actor
    BY <2>1, <2>2
  <2>3. CASE Moves(q, "open", NoToken, "halted", "none")
    BY <2>1, <2>3, CarryMoves
  <2> QED
    BY <1>1, <2>2, <2>3, FireMoves
<1>2. ASSUME NEW q \in Actors, OpenTmp(q) PROVE Good
  <2>1. Files /\ Store /\ Log /\ Rest
    BY <1>2 DEF OpenTmp, Content
  <2>2. Callers /\ CarryInv'
    <3>1. actor[q].at = "open" /\ Moves(q, "write", actor[q].token, actor[q].writes, "tmp")
      BY <1>2, OpenTmpMoves DEF OpenTmp, At
    <3>2. actor[q].writes = "cleared" => actor[q].token \in Tokens
      OBVIOUS
    <3>3. actor[q].writes # "none"
      BY <3>1
    <3>4. "write" \in Writing /\ "write" \notin {"require", "refused", "prior", "consume"}
      OBVIOUS
    <3> QED
      BY ONLY CarryInv, <1>2, <3>1, <3>2, <3>3, <3>4, CarryMoves
  <2> QED
    BY <2>1, <2>2
<1>3. ASSUME NEW q \in Actors, WriteTmp(q) PROVE Good
  <2>1. Moves(q, "rename", actor[q].token, actor[q].writes, actor[q].file)
    BY <1>3, GoesTo DEF WriteTmp, Places
  <2>2. actor[q].writes \in Content
    BY <1>3 DEF WriteTmp, At, Content, Caller
  <2>3. Files
    BY <1>3, <2>2 DEF WriteTmp, Overwrite, Content
  <2>4. Store /\ Log /\ Rest
    BY <1>3 DEF WriteTmp
  <2>5. Callers /\ CarryInv'
    <3>1. actor[q].at = "write"
      BY <1>3 DEF WriteTmp, At
    <3>2. actor[q].writes = "cleared" => actor[q].token \in Tokens
      OBVIOUS
    <3>3. actor[q].writes # "none"
      BY <3>1
    <3>4. "rename" \in Writing /\ "rename" \notin {"require", "refused", "prior", "consume"}
      OBVIOUS
    <3> QED
      BY ONLY CarryInv, <1>3, <2>1, <3>2, <3>3, <3>4, CarryMoves
  <2> QED
    BY <2>3, <2>4, <2>5
<1>4. ASSUME NEW q \in Actors, Rename(q) PROVE Good
  <2>1. Files /\ Store /\ Log /\ Callers
    <3>1. Files
      BY <1>4 DEF Rename, Content
    <3>2. Store /\ Log
      BY <1>4 DEF Rename
    <3>3. Callers
      BY ONLY TypeOK, <1>4, RenameMoves
    <3> QED
      BY ONLY <3>1, <3>2, <3>3
  <2>2. Rest
    <3>1. actor[q].writes = "cleared" => actor[q].token \in Tokens
      OBVIOUS
    <3>2. lifts' \in [Tokens -> Nat]
      BY <1>4, <3>1 DEF Rename
    <3> QED
      BY <1>4, <3>2 DEF Rename
  <2>3. CarryInv'
    <3>1. At(q, "rename") /\ Callers
      BY <2>1, <1>4 DEF Rename
    <3>2. CASE actor'[q] = Idle
      BY <1>4, <3>2, RenameMoves, IdleIs
    <3>3. CASE actor[q].writes = "halted" /\ actor'[q].at = "note"
               /\ actor'[q].writes = actor[q].writes
      BY <1>4, <3>3, RenameMoves
    <3> QED
      BY <1>4, <3>2, <3>3, RenameMoves
  <2>4. Others
    BY ONLY <2>1, <2>2
  <2> QED
    BY ONLY <2>1, <2>3, <2>4
<1>5. ASSUME NEW q \in Actors, Note(q) PROVE Good
  <2>1. [kind |-> "fired", asof |-> actor[q].asof] \in Event
    BY DEF Event, Kinds, Caller
  <2>2. Log
    BY <1>5, <2>1, AppendKeeps DEF Note
  <2>3. Callers /\ CarryInv'
    <3>1. Moves(q, "idle", NoToken, "none", "none")
      BY <1>5, Returns DEF Note
    <3> QED
      BY <3>1, CarryMoves
  <2> QED
    BY <1>5, <2>2, <2>3 DEF Note
<1>6. ASSUME NEW q \in Actors, NEW t \in Tokens,
             GrantClear(q, t) \/ ClearHalt(q, t) \/ ClearWith(q, t)
      PROVE  Good
  <2>1. CASE GrantClear(q, t)
    BY <2>1, Grants DEF GrantClear
  <2>2. CASE ClearHalt(q, t)
    <3>1. Others
      BY <2>2, Grants DEF ClearHalt
    <3>2. Moves(q, "require", t, "none", "none")
      BY <2>2, RequireMoves
    <3> QED
      BY <3>1, <3>2, CarryMoves
  <2>3. CASE ClearWith(q, t)
    <3>1. Others
      BY <2>3 DEF ClearWith
    <3>2. Moves(q, "require", t, "none", "none")
      BY <2>3, RequireMoves
    <3> QED
      BY <3>1, <3>2, CarryMoves
  <2> QED
    BY <1>6, <2>1, <2>2, <2>3
<1>7. ASSUME NEW q \in Actors, Require(q) PROVE Good
  <2>1. Others
    BY <1>7 DEF Require
  <2>2. actor[q].at = "require" /\ \E l \in {"prior", "refused"} : Goes(q, l)
    BY <1>7 DEF Require, At
  <2>3. PICK l \in {"prior", "refused"} : Goes(q, l)
    BY <2>2
  <2>4. Moves(q, l, actor[q].token, actor[q].writes, actor[q].file)
    BY <2>3, GoesTo DEF Places
  <2>5. actor[q].token \in Tokens /\ actor[q].writes = "none"
    BY <2>2
  <2>6. l \notin Writing
    BY <2>3
  <2>7. Callers /\ CarryInv'
    BY ONLY CarryInv, <1>7, <2>4, <2>5, <2>6, CarryMoves
  <2> QED
    BY ONLY <2>1, <2>7
<1>8. ASSUME NEW q \in Actors, Refused(q) \/ Decided(q) PROVE Good
  BY <1>8, Returns DEF Refused, Decided, Moves
<1>9. ASSUME NEW q \in Actors, ReadPrior(q) PROVE Good
  BY <1>9, GoesTo, Returns DEF ReadPrior, At, Moves, Places
<1>10. ASSUME NEW q \in Actors, Consume(q) PROVE Good
  <2>1. actor[q].token \in Tokens
    BY <1>10 DEF Consume, At
  <2>2. Others
    BY <1>10, <2>1, ConsumeMoves DEF Consume
  <2>3. CASE Moves(q, "idle", NoToken, "none", "none")
    BY <2>2, <2>3, CarryMoves
  <2>4. CASE Moves(q, "open", actor[q].token, "cleared", actor[q].file)
    <3>1. "open" \in Writing /\ "open" \notin {"require", "refused", "prior", "consume"}
      OBVIOUS
    <3>2. Callers /\ CarryInv'
      BY ONLY CarryInv, <1>10, <2>1, <2>4, <3>1, CarryMoves
    <3> QED
      BY ONLY <2>2, <3>2
  <2> QED
    BY <1>10, <2>1, <2>3, <2>4, ConsumeMoves
<1>11. ASSUME NEW q \in Actors, Crash(q) PROVE Good
  BY <1>11, CrashMoves, IdleIs DEF Crash
<1>12. ASSUME NEW q \in Actors, Evaluate(q) PROVE Good
  <2>1. Others
    BY <1>12 DEF Evaluate
  <2>2. Moves(q, "collect", NoToken, "none", "none")
    BY <1>12, EvaluateMoves
  <2> QED
    BY <2>1, <2>2, CarryMoves
<1>13. ASSUME NEW q \in Actors, Collect(q) PROVE Good
  <2>1. Others
    BY <1>13 DEF Collect
  <2>2. actor[q].at = "collect" /\ \E l \in {"promoted", "blocked"} : Goes(q, l)
    BY <1>13 DEF Collect, At
  <2>3. PICK l \in {"promoted", "blocked"} : Goes(q, l)
    BY <2>2
  <2>4. Moves(q, l, actor[q].token, actor[q].writes, actor[q].file)
    BY <2>3, GoesTo DEF Places
  <2>5. actor[q].writes # "cleared"
    BY <2>2
  <2>6. l \notin {"require", "refused", "prior", "consume"} /\ l \notin Writing
    BY <2>3
  <2>7. Callers /\ CarryInv'
    BY ONLY CarryInv, <1>13, <2>4, <2>5, <2>6, CarryMoves
  <2> QED
    BY ONLY <2>1, <2>7
<1>14. ASSUME NEW t \in Tokens, Expire(t) PROVE Good
  BY <1>14 DEF Expire
<1>15. ASSUME NEW kind \in Kinds, Emit(kind) PROVE Good
  <2>1. [kind |-> kind, asof |-> day] \in Event
    BY GovernanceAssumption DEF Event
  <2> QED
    BY <1>15, <2>1, AppendKeeps DEF Emit
<1>16. ASSUME NextDay PROVE Good
  BY <1>16, GovernanceAssumption DEF NextDay
<1>17. ASSUME UNCHANGED vars PROVE Good
  BY <1>17 DEF vars
<1> QED
  BY <1>1, <1>2, <1>3, <1>4, <1>5, <1>6, <1>7, <1>8, <1>9, <1>10, <1>11, <1>12,
     <1>13, <1>14, <1>15, <1>16, <1>17 DEF Next

-----------------------------------------------------------------------------
(* A token is spent by one actor, and lifts the halt once.                 *)

\* Whoever clears now cleared before, with the same token, or has just spent a
\* token that nobody had spent.
LEMMA SpendKept ==
  ASSUME CarryInv, SpendInv, Consumed \subseteq Consumed', UNCHANGED lifts,
         \A r \in Actors : Clearing(r)' =>
           Clearing(r) /\ actor'[r].token = actor[r].token
  PROVE  SpendInv'
BY DEF SpendInv, CarryInv, Clearing

LEMMA SpendStep ==
  ASSUME TypeOK, CarryInv, SpendInv, [Next]_vars
  PROVE  SpendInv'
<1> USE TypeOfActor
<1> DEFINE Kept == /\ Consumed \subseteq Consumed' /\ UNCHANGED lifts
                   /\ \A r \in Actors : Clearing(r)' =>
                        Clearing(r) /\ actor'[r].token = actor[r].token
<1>0. (UNCHANGED rows) => Consumed' = Consumed
  BY DEF Consumed
<1>k. Kept => SpendInv'
  BY SpendKept
<1>1. ASSUME NEW q \in Actors, Fire(q) PROVE Kept
  BY <1>1, <1>0, FireMoves DEF Fire, Moves, Clearing, store
<1>2. ASSUME NEW q \in Actors, OpenTmp(q) PROVE Kept
  <2>1. Consumed' = Consumed /\ UNCHANGED lifts
    BY <1>2, <1>0 DEF OpenTmp, store, history
  <2>2. Moves(q, "write", actor[q].token, actor[q].writes, "tmp")
    BY <1>2, OpenTmpMoves
  <2> QED
    BY <2>1, <2>2 DEF Moves, Clearing
<1>3. ASSUME NEW q \in Actors, WriteTmp(q) PROVE Kept
  BY <1>3, <1>0, GoesTo DEF WriteTmp, Moves, Places, Clearing, store, history
<1>4. ASSUME NEW q \in Actors, Rename(q) PROVE SpendInv'
  <2>1. Consumed' = Consumed /\ At(q, "rename")
    BY <1>4, <1>0 DEF Rename, store
  <2>2. \A r \in Actors : Clearing(r)' =>
          r # q /\ Clearing(r) /\ actor'[r].token = actor[r].token
    BY <1>4, RenameMoves, IdleIs DEF Clearing
  <2>3. CASE UNCHANGED lifts
    BY <2>1, <2>2, <2>3, SpendKept
  <2>4. CASE Clearing(q) /\ lifts' = [lifts EXCEPT ![actor[q].token] = @ + 1]
    <3> DEFINE t == actor[q].token
    <3>1. t \in Tokens /\ t \in Consumed /\ lifts[t] = 0
      BY <2>4 DEF CarryInv, SpendInv
    <3>2. lifts'[t] = 1 /\ \A u \in Tokens \ {t} : lifts'[u] = lifts[u]
      BY <2>4, <3>1
    <3>3. \A r \in Actors : Clearing(r)' => actor'[r].token # t /\ actor[r].token \in Tokens
      BY <2>2, <2>4 DEF SpendInv, CarryInv
    <3> HIDE DEF t
    <3> QED
      BY <2>1, <2>2, <3>1, <3>2, <3>3 DEF SpendInv, Clearing
  <2> QED
    BY <1>4, <2>3, <2>4 DEF Rename, history, Clearing
<1>5. ASSUME NEW q \in Actors, Note(q) PROVE Kept
  BY <1>5, <1>0, Returns DEF Note, Moves, Clearing, store
<1>6. ASSUME NEW q \in Actors, NEW t \in Tokens,
             GrantClear(q, t) \/ ClearHalt(q, t) \/ ClearWith(q, t)
      PROVE  Kept
  <2>1. CASE GrantClear(q, t)
    BY <2>1, Grants DEF GrantClear, history, Clearing
  <2>2. CASE ClearHalt(q, t)
    BY <2>2, Grants, RequireMoves DEF ClearHalt, Moves, history, Clearing
  <2>3. CASE ClearWith(q, t)
    BY <2>3, <1>0, RequireMoves DEF ClearWith, Moves, store, history, Clearing
  <2> QED
    BY <1>6, <2>1, <2>2, <2>3
<1>7. ASSUME NEW q \in Actors, Require(q) \/ Refused(q) \/ Decided(q) PROVE Kept
  BY <1>7, <1>0, GoesTo, Returns
     DEF Require, Refused, Decided, Moves, Places, Clearing, store, history
<1>8. ASSUME NEW q \in Actors, ReadPrior(q) PROVE Kept
  BY <1>8, <1>0, GoesTo, Returns DEF ReadPrior, Moves, Places, Clearing, store, history
<1>9. ASSUME NEW q \in Actors, Consume(q) PROVE SpendInv'
  <2>1. actor[q].token \in Tokens /\ ~Clearing(q) /\ UNCHANGED lifts
    BY <1>9 DEF Consume, At, CarryInv, Clearing, Writing
  <2>2. CASE Moves(q, "idle", NoToken, "none", "none") /\ UNCHANGED <<rows, owed>>
    BY <2>1, <2>2, <1>0, SpendKept DEF Moves, Clearing
  <2>3. CASE /\ actor[q].token \notin Consumed
             /\ Consumed' = Consumed \cup {actor[q].token}
             /\ Moves(q, "open", actor[q].token, "cleared", actor[q].file)
    <3> DEFINE t == actor[q].token
    <3>1. \A r \in Actors \ {q} : actor'[r] = actor[r]
      BY <2>3 DEF Moves
    <3>2. actor'[q].token = t
      BY <2>3 DEF Moves
    <3>3. t \in Tokens /\ t \notin Consumed /\ lifts[t] = 0 /\ t \in Consumed'
          /\ Consumed \subseteq Consumed'
      BY <2>1, <2>3 DEF SpendInv
    <3>4. \A r \in Actors \ {q} : Clearing(r)' =>
            /\ Clearing(r) /\ actor'[r].token = actor[r].token
            /\ actor[r].token \in Consumed /\ actor[r].token # t
      BY <3>1, <3>3 DEF SpendInv, Clearing
    <3> HIDE DEF t
    <3>5. /\ \A u \in Tokens : lifts'[u] = 0 \/ (lifts'[u] = 1 /\ u \in Consumed')
          /\ \A r \in Actors : Clearing(r)' =>
               actor'[r].token \in Consumed' /\ lifts'[actor'[r].token] = 0
      BY <2>1, <3>2, <3>3, <3>4 DEF SpendInv
    <3>6. \A r, u \in Actors :
            Clearing(r)' /\ Clearing(u)' /\ actor'[r].token = actor'[u].token => r = u
      BY <3>2, <3>4 DEF SpendInv
    <3> QED
      BY <3>5, <3>6 DEF SpendInv, Clearing
  <2> QED
    BY <1>9, <2>1, <2>2, <2>3, ConsumeMoves
<1>10. ASSUME NEW q \in Actors, Crash(q) PROVE Kept
  BY <1>10, <1>0, CrashMoves, IdleIs DEF Crash, store, history, Clearing
<1>11. ASSUME NEW q \in Actors, Evaluate(q) PROVE Kept
  BY <1>11, <1>0, EvaluateMoves DEF Evaluate, Moves, Clearing, store, history
<1>12. ASSUME NEW q \in Actors, Collect(q) PROVE Kept
  BY <1>12, <1>0, GoesTo DEF Collect, Moves, Places, Clearing, store, history
<1>13. ASSUME \/ \E t \in Tokens : Expire(t)
              \/ \E kind \in Kinds : Emit(kind)
              \/ NextDay \/ UNCHANGED vars
       PROVE  Kept
  BY <1>13, <1>0 DEF Expire, Emit, NextDay, vars, store, history, Clearing
<1> QED
  BY <1>k, <1>1, <1>2, <1>3, <1>4, <1>5, <1>6, <1>7, <1>8, <1>9, <1>10, <1>11, <1>12,
     <1>13 DEF Next

-----------------------------------------------------------------------------
(* In one process a reported halt stays until a token is spent on it.      *)

\* A step outside a change: nobody enters one, and the files stay.
LEMMA OutsideKept ==
  ASSUME CarryInv, Alone, Written, UNCHANGED <<state, tmp, owed>>,
         \A r \in Actors : actor'[r].at \in Changing \/ Clearing(r)' => actor'[r] = actor[r]
  PROVE  Alone' /\ Written'
BY DEF Alone, Written, Clearing, Changing, Halted

\* Caller q changes, and is alone with it before and after the step.
LEMMA AloneStays ==
  ASSUME Alone, CarryInv, NEW q \in Actors,
         actor[q].at \in Changing \/ \A r \in Actors \ {q} : actor[r].at \notin Changing,
         \A r \in Actors \ {q} : actor'[r].at = actor[r].at /\ actor'[r].writes = actor[r].writes
  PROVE  /\ Alone'
         /\ \A r \in Actors \ {q} : actor'[r].at \notin Changing /\ ~Clearing(r)'
BY DEF Alone, CarryInv, Clearing, Writing, Changing

\* What may happen does not change.
LEMMA SetupStays ==
  ASSUME [Next]_vars
  PROVE  UNCHANGED setup
<1>1. ASSUME NEW q \in Actors, Fire(q) \/ OpenTmp(q) \/ WriteTmp(q) \/ Rename(q) \/ Note(q)
      PROVE  UNCHANGED setup
  BY <1>1 DEF Fire, OpenTmp, WriteTmp, Rename, Note
<1>2. ASSUME NEW q \in Actors, NEW t \in Tokens,
             GrantClear(q, t) \/ ClearHalt(q, t) \/ ClearWith(q, t)
      PROVE  UNCHANGED setup
  BY <1>2 DEF GrantClear, ClearHalt, ClearWith
<1>3. ASSUME NEW q \in Actors, Require(q) \/ Refused(q) \/ ReadPrior(q) \/ Consume(q) \/ Crash(q)
      PROVE  UNCHANGED setup
  BY <1>3 DEF Require, Refused, ReadPrior, Consume, Crash
<1>4. ASSUME NEW q \in Actors, Evaluate(q) \/ Collect(q) \/ Decided(q)
      PROVE  UNCHANGED setup
  BY <1>4 DEF Evaluate, Collect, Decided
<1>5. ASSUME \/ \E t \in Tokens : Expire(t)
             \/ \E kind \in Kinds : Emit(kind)
             \/ NextDay \/ UNCHANGED vars
      PROVE  UNCHANGED setup
  BY <1>5 DEF Expire, Emit, NextDay, vars
<1> QED
  BY <1>1, <1>2, <1>3, <1>4, <1>5 DEF Next

LEMMA OneStep ==
  ASSUME TypeOK, CarryInv, OneInv, HaltHolds, [Next]_vars
  PROVE  OneInv' /\ HaltHolds'
<1> DEFINE Good == Alone' /\ Written' /\ (owed' => Halted')
<1>0. UNCHANGED setup
  BY SetupStays
<1> SUFFICES ASSUME setup.oneProcess PROVE Good
  BY <1>0 DEF OneInv, HaltHolds
<1>a. Alone /\ Written /\ (owed => Halted)
  BY DEF OneInv, HaltHolds
<1> USE TypeOfActor
<1> DEFINE Outside == /\ UNCHANGED <<state, tmp, owed>>
                      /\ \A r \in Actors : actor'[r].at \in Changing \/ Clearing(r)'
                                            => actor'[r] = actor[r]
<1>b. Outside => Good
  BY <1>a, OutsideKept DEF Halted
<1>1. ASSUME NEW q \in Actors, Fire(q) PROVE Good
  <2>1. UNCHANGED <<state, tmp>> /\ \A r \in Actors \ {q} : actor[r].at \notin Changing
    BY <1>1 DEF Fire, Mutex, files
  <2>2. CASE Halted /\ owed' /\ UNCHANGED actor
    BY <1>1, <1>a, <2>1, <2>2
       DEF Fire, At, Alone, Written, Halted, Clearing, Changing, CarryInv, Writing
  <2>3. CASE UNCHANGED owed /\ Moves(q, "open", NoToken, "halted", "none")
    <3>1. Alone' /\ \A r \in Actors \ {q} : actor'[r].at \notin Changing /\ ~Clearing(r)'
      BY <1>a, <2>1, <2>3, AloneStays DEF Moves
    <3> QED
      BY <1>a, <2>1, <2>3, <3>1 DEF Moves, Written, Clearing, Changing, Halted
  <2> QED
    BY <1>1, <2>2, <2>3, FireMoves
<1>2. ASSUME NEW q \in Actors, OpenTmp(q) PROVE Good
  <2>1. /\ actor[q].at = "open" /\ tmp' = "none" /\ UNCHANGED <<state, owed>>
        /\ Moves(q, "write", actor[q].token, actor[q].writes, "tmp")
    BY <1>2, OpenTmpMoves DEF OpenTmp, At, history
  <2>2. Alone' /\ \A r \in Actors \ {q} : actor'[r].at \notin Changing /\ ~Clearing(r)'
    <3>1. actor[q].at \in Changing
      BY <2>1 DEF Changing
    <3>2. \A r \in Actors \ {q} : actor'[r] = actor[r]
      BY <2>1 DEF Moves
    <3> QED
      BY <1>a, <3>1, <3>2, AloneStays
  <2> QED
    BY <1>a, <2>1, <2>2 DEF Moves, Written, Clearing, Changing, Halted
<1>3. ASSUME NEW q \in Actors, WriteTmp(q) PROVE Good
  <2>1. /\ actor[q].at = "write" /\ tmp' = actor[q].writes /\ UNCHANGED <<state, owed>>
        /\ Moves(q, "rename", actor[q].token, actor[q].writes, actor[q].file)
    BY <1>3, <1>a, GoesTo DEF WriteTmp, At, history, Overwrite, Written, Places
  <2>2. Alone' /\ \A r \in Actors \ {q} : actor'[r].at \notin Changing /\ ~Clearing(r)'
    <3>1. actor[q].at \in Changing
      BY <2>1 DEF Changing
    <3>2. \A r \in Actors \ {q} : actor'[r] = actor[r]
      BY <2>1 DEF Moves
    <3> QED
      BY <1>a, <3>1, <3>2, AloneStays
  <2> QED
    BY <1>a, <2>1, <2>2 DEF Moves, Written, Clearing, Changing, Halted
<1>4. ASSUME NEW q \in Actors, Rename(q) PROVE Good
  <2>1. actor[q].at = "rename" /\ tmp = actor[q].writes /\ tmp \in {"halted", "cleared"}
    BY <1>4, <1>a DEF Rename, At, Written, CarryInv, Writing, Caller
  <2>2. state' = actor[q].writes /\ UNCHANGED owed
    BY <1>4, <2>1 DEF Rename
  <2>3. Alone' /\ \A r \in Actors \ {q} : actor'[r].at \notin Changing /\ ~Clearing(r)'
    BY <1>a, <1>4, <2>1, AloneStays, RenameMoves DEF Changing
  <2>4. owed' => Halted'
    BY <1>a, <2>1, <2>2 DEF Written, Clearing, Halted
  <2>5. actor'[q].at # "idle" => actor'[q].at = "note" /\ ~Clearing(q)' /\ Halted'
    BY <1>4, <2>2, RenameMoves, IdleIs DEF Clearing, Halted
  <2>6. actor'[q].at = "idle" => ~Clearing(q)'
    BY <1>4, RenameMoves, IdleIs DEF Clearing
  <2> QED
    BY <2>3, <2>4, <2>5, <2>6 DEF Written, Changing
<1>5. ASSUME NEW q \in Actors, Note(q) PROVE Good
  <2>1. /\ actor[q].at = "note" /\ UNCHANGED <<state, tmp>>
        /\ Moves(q, "idle", NoToken, "none", "none")
    BY <1>5, Returns DEF Note, At, files
  <2>2. Alone' /\ \A r \in Actors \ {q} : actor'[r].at \notin Changing /\ ~Clearing(r)'
    <3>1. actor[q].at \in Changing
      BY <2>1 DEF Changing
    <3>2. \A r \in Actors \ {q} : actor'[r] = actor[r]
      BY <2>1 DEF Moves
    <3> QED
      BY <1>a, <3>1, <3>2, AloneStays
  <2> QED
    BY <1>a, <2>1, <2>2 DEF Moves, Written, Clearing, Changing, Halted
<1>6. ASSUME NEW q \in Actors, NEW t \in Tokens,
             GrantClear(q, t) \/ ClearHalt(q, t) \/ ClearWith(q, t)
      PROVE  Outside
  <2>1. CASE GrantClear(q, t)
    BY <2>1 DEF GrantClear, history, files
  <2>2. CASE ClearHalt(q, t) \/ ClearWith(q, t)
    BY <2>2, RequireMoves DEF ClearHalt, ClearWith, Moves, files, history, Clearing, Changing
  <2> QED
    BY <1>6, <2>1, <2>2
<1>7. ASSUME NEW q \in Actors, Require(q) PROVE Good
  <2>1. /\ actor[q].at = "require" /\ UNCHANGED <<state, tmp, owed>>
        /\ actor[q].writes = "none"
        /\ \E l \in {"prior", "refused"} :
             Moves(q, l, actor[q].token, actor[q].writes, actor[q].file)
    BY <1>7, GoesTo DEF Require, At, files, history, CarryInv, Places
  <2>2. Outside
    BY <2>1 DEF Moves, Changing, Clearing
  <2> QED
    BY <1>b, <2>2
<1>8. ASSUME NEW q \in Actors, Refused(q) \/ Decided(q) PROVE Outside
  BY <1>8, Returns DEF Refused, Decided, Moves, files, history, Clearing, Changing
<1>9. ASSUME NEW q \in Actors, ReadPrior(q) PROVE Good
  <2>1. /\ actor[q].at = "prior" /\ actor[q].writes = "none"
        /\ UNCHANGED <<state, tmp, owed>>
        /\ \A r \in Actors \ {q} : actor[r].at \notin Changing
    BY <1>9 DEF ReadPrior, At, Mutex, files, history, CarryInv
  <2>2. /\ actor'[q].at \in {"consume", "idle"} /\ actor'[q].writes = "none"
        /\ \A r \in Actors \ {q} : actor'[r] = actor[r]
    BY <1>9, <2>1, GoesTo, Returns DEF ReadPrior, Moves, Places
  <2>3. Alone' /\ \A r \in Actors \ {q} : actor'[r].at \notin Changing /\ ~Clearing(r)'
    BY <1>a, <2>1, <2>2, AloneStays
  <2> QED
    BY <1>a, <2>1, <2>2, <2>3 DEF Written, Clearing, Changing, Halted
<1>10. ASSUME NEW q \in Actors, Consume(q) PROVE Good
  <2>1. actor[q].at = "consume" /\ actor[q].token \in Tokens /\ UNCHANGED <<state, tmp>>
    BY <1>10 DEF Consume, At, files, CarryInv
  <2>2. \/ Moves(q, "idle", NoToken, "none", "none") /\ UNCHANGED owed
        \/ ~owed' /\ Moves(q, "open", actor[q].token, "cleared", actor[q].file)
    BY <1>10, <2>1, ConsumeMoves
  <2>3. Alone' /\ \A r \in Actors \ {q} : actor'[r].at \notin Changing /\ ~Clearing(r)'
    BY <1>a, <2>1, <2>2, AloneStays DEF Moves, Changing
  <2> QED
    BY <1>a, <2>1, <2>2, <2>3 DEF Moves, Written, Clearing, Changing, Halted
<1>11. ASSUME NEW q \in Actors, Crash(q) PROVE Outside
  BY <1>11, CrashMoves, IdleIs DEF Crash, files, history, Clearing, Changing
<1>12. ASSUME NEW q \in Actors, Evaluate(q) PROVE Outside
  BY <1>12, EvaluateMoves DEF Evaluate, Moves, files, history, Clearing, Changing
<1>13. ASSUME NEW q \in Actors, Collect(q) PROVE Outside
  <2>1. /\ actor[q].at = "collect" /\ UNCHANGED <<state, tmp, owed>>
        /\ \E l \in {"promoted", "blocked"} :
             Moves(q, l, actor[q].token, actor[q].writes, actor[q].file)
    BY <1>13, GoesTo DEF Collect, At, files, history, Places
  <2>2. ~Clearing(q)
    BY <2>1 DEF CarryInv, Writing
  <2> QED
    BY <2>1, <2>2 DEF Moves, Changing, Clearing
<1>14. ASSUME \/ \E t \in Tokens : Expire(t)
              \/ \E kind \in Kinds : Emit(kind)
              \/ NextDay \/ UNCHANGED vars
       PROVE  Outside
  BY <1>14 DEF Expire, Emit, NextDay, vars, files, history
<1> QED
  BY <1>b, <1>1, <1>2, <1>3, <1>4, <1>5, <1>6, <1>7, <1>8, <1>9, <1>10, <1>11, <1>12,
     <1>13, <1>14 DEF Next

-----------------------------------------------------------------------------
(* What was reported before an evaluation began blocks it.                 *)

\* The log grows by events that are reported, and nobody begins to evaluate.
LEMMA LogKept ==
  ASSUME audit \in Seq(Event), LogInv, ReportedBlocks, NEW E,
         \/ E = {} /\ UNCHANGED audit
         \/ \E e \in Event : E = {e} /\ audit' = Append(audit, e),
         reported' = reported \cup E,
         \A r \in Actors : actor'[r].at \in {"collect", "promoted"} =>
           /\ actor'[r].at = actor[r].at
           /\ actor'[r].known = actor[r].known /\ actor'[r].asof = actor[r].asof
  PROVE  LogInv' /\ ReportedBlocks'
<1>1. /\ DOMAIN audit \subseteq DOMAIN audit'
      /\ \A i \in DOMAIN audit : audit'[i] = audit[i]
      /\ \A e \in E : \E i \in DOMAIN audit' : audit'[i] = e
  BY AppendKeeps
<1>2. LogInv'
  BY <1>1 DEF LogInv
<1>3. ReportedBlocks'
  BY <1>1 DEF ReportedBlocks, At
<1> QED
  BY <1>2, <1>3

\* The decision itself: each event that is known stands in the log, where the
\* evaluator looks.
LEMMA PromotesOnlyUnblocked ==
  ASSUME audit \in Seq(Event), NEW asof \in Nat, NEW enough, NEW settled,
         Promotes(asof, enough, settled),
         NEW i \in DOMAIN audit
  PROVE  LET age == asof - audit[i].asof
         IN  /\ audit[i].kind = "fired" => age > Short
             /\ audit[i].kind \in {"breach", "degraded"} => age > Long
             /\ audit[i].kind = "weak" =>
                  \/ age > Long
                  \/ \E j \in DOMAIN audit :
                       audit[j].kind = "strong" /\ audit[j].asof >= audit[i].asof
<1> Short \in Nat /\ Long \in Nat
  BY GovernanceAssumption
<1>0. \A j \in DOMAIN audit : audit[j] \in Event /\ audit[j].asof \in Nat
  <2>1. \A j \in DOMAIN audit : audit[j] \in Event
    OBVIOUS
  <2> QED
    BY <2>1 DEF Event
<1>r. \A kind, window : ~(\E j \in DOMAIN audit : audit[j].kind = kind
                                                   /\ Recent(audit[j], window, asof))
        /\ window \in Nat /\ audit[i].kind = kind => asof - audit[i].asof > window
  BY <1>0 DEF Recent
<1>1. audit[i].kind = "fired" => asof - audit[i].asof > Short
  <2>1. ~ \E j \in DOMAIN audit : audit[j].kind = "fired" /\ Recent(audit[j], Short, asof)
    BY DEF Promotes
  <2> QED
    BY <1>r, <2>1
<1>2. audit[i].kind \in {"breach", "degraded"} => asof - audit[i].asof > Long
  <2>1. /\ ~ \E j \in DOMAIN audit : audit[j].kind = "breach" /\ Recent(audit[j], Long, asof)
        /\ ~ \E j \in DOMAIN audit : audit[j].kind = "degraded" /\ Recent(audit[j], Long, asof)
    BY DEF Promotes
  <2> QED
    BY <1>r, <2>1
<1>3. ASSUME audit[i].kind = "weak", ~(asof - audit[i].asof > Long)
      PROVE  \E j \in DOMAIN audit :
               audit[j].kind = "strong" /\ audit[j].asof >= audit[i].asof
  <2> DEFINE shots == {k \in DOMAIN audit : /\ audit[k].kind \in {"strong", "weak"}
                                            /\ Recent(audit[k], Long, asof)}
             Before(k, j) == \/ audit[k].asof < audit[j].asof
                             \/ audit[k].asof = audit[j].asof /\ k <= j
  <2>1. i \in shots
    BY <1>0, <1>3 DEF Recent
  <2>2. StrongSharpe(asof, settled)
    BY DEF Promotes
  <2>3. PICK j \in shots : (\A k \in shots : Before(k, j)) /\ audit[j].kind = "strong"
    BY <2>1, <2>2 DEF StrongSharpe
  <2>4. j \in DOMAIN audit /\ audit[j].asof >= audit[i].asof
    BY <1>0, <2>1, <2>3
  <2> QED
    BY <2>3, <2>4
<1> QED
  BY <1>1, <1>2, <1>3

LEMMA LogStep ==
  ASSUME TypeOK, LogInv, ReportedBlocks, [Next]_vars
  PROVE  LogInv' /\ ReportedBlocks'
<1> USE TypeOfActor
<1> DEFINE Good == LogInv' /\ ReportedBlocks'
           Stay(r) == actor'[r].at \in {"collect", "promoted"} =>
             /\ actor'[r].at = actor[r].at
             /\ actor'[r].known = actor[r].known /\ actor'[r].asof = actor[r].asof
           Quiet == UNCHANGED <<audit, reported>> /\ \A r \in Actors : Stay(r)
<1>a. Quiet => Good
  <2> SUFFICES ASSUME Quiet PROVE Good
    OBVIOUS
  <2>1. reported' = reported \cup {} /\ UNCHANGED audit
    OBVIOUS
  <2>2. \A r \in Actors : Stay(r)
    OBVIOUS
  <2> HIDE DEF Quiet, Good
  <2>3. LogInv' /\ ReportedBlocks'
    BY <2>1, <2>2, LogKept
  <2> QED
    BY <2>3 DEF Good
<1>1. ASSUME NEW q \in Actors, Fire(q) PROVE Quiet
  BY <1>1, FireMoves DEF Fire, Moves
<1>2. ASSUME NEW q \in Actors, OpenTmp(q) PROVE Quiet
  BY <1>2, OpenTmpMoves DEF OpenTmp, Moves, history
<1>3. ASSUME NEW q \in Actors, WriteTmp(q) PROVE Quiet
  BY <1>3, GoesTo DEF WriteTmp, Moves, Places, history
<1>4. ASSUME NEW q \in Actors, Rename(q) PROVE Quiet
  <2>1. UNCHANGED <<audit, reported>>
    BY <1>4 DEF Rename, history
  <2>2. actor'[q].at \in {"idle", "note"}
    BY <1>4, RenameMoves, IdleIs
  <2> QED
    BY <1>4, <2>1, <2>2, RenameMoves
<1>5. ASSUME NEW q \in Actors, Note(q) PROVE Good
  <2> DEFINE e == [kind |-> "fired", asof |-> actor[q].asof]
  <2>1. e \in Event
    BY DEF Event, Kinds, Caller
  <2>2. \A r \in Actors : Stay(r)
    BY <1>5, Returns DEF Note, Moves
  <2>3. audit' = Append(audit, e) /\ reported' = reported \cup {e}
    BY <1>5 DEF Note
  <2> HIDE DEF e
  <2> QED
    BY <2>1, <2>2, <2>3, LogKept
<1>6. ASSUME NEW q \in Actors, NEW t \in Tokens,
             GrantClear(q, t) \/ ClearHalt(q, t) \/ ClearWith(q, t)
      PROVE  Quiet
  <2>1. CASE GrantClear(q, t)
    BY <2>1 DEF GrantClear, history
  <2>2. CASE ClearHalt(q, t) \/ ClearWith(q, t)
    BY <2>2, RequireMoves DEF ClearHalt, ClearWith, Moves, history
  <2> QED
    BY <1>6, <2>1, <2>2
<1>7. ASSUME NEW q \in Actors, Require(q) \/ Refused(q) \/ Decided(q) PROVE Quiet
  BY <1>7, GoesTo, Returns DEF Require, Refused, Decided, Moves, Places, history
<1>8. ASSUME NEW q \in Actors, ReadPrior(q) PROVE Quiet
  BY <1>8, GoesTo, Returns DEF ReadPrior, Moves, Places, history
<1>9. ASSUME NEW q \in Actors, Consume(q) PROVE Quiet
  <2>1. CASE actor[q].token \in Consumed
    BY <1>9, <2>1, Returns DEF Consume, Moves
  <2>2. CASE actor[q].token \notin Consumed
    <3>1. actor' = [actor EXCEPT ![q] = [actor[q] EXCEPT !.at = "open", !.writes = "cleared"]]
      BY <1>9, <2>2 DEF Consume
    <3>2. actor'[q].at = "open" /\ \A r \in Actors \ {q} : actor'[r] = actor[r]
      BY <3>1 DEF Caller
    <3> QED
      BY <1>9, <3>2 DEF Consume
  <2> QED
    BY <2>1, <2>2
<1>10. ASSUME NEW q \in Actors, Crash(q) PROVE Quiet
  BY <1>10, CrashMoves, IdleIs DEF Crash, history
<1>11. ASSUME NEW q \in Actors, Evaluate(q) PROVE Good
  <2>1. /\ UNCHANGED <<audit, reported>>
        /\ actor'[q].at = "collect" /\ actor'[q].known = reported
        /\ \A r \in Actors \ {q} : actor'[r] = actor[r]
    BY <1>11, EvaluateMoves DEF Evaluate, Moves, history
  <2> QED
    BY <2>1 DEF LogInv, ReportedBlocks, At
<1>12. ASSUME NEW q \in Actors, Collect(q) PROVE Good
  <2>1. PICK enough, settled \in BOOLEAN :
          Goes(q, IF Promotes(actor[q].asof, enough, settled) THEN "promoted" ELSE "blocked")
    BY <1>12 DEF Collect
  <2>2. /\ UNCHANGED <<audit, reported>> /\ actor[q].at = "collect"
    BY <1>12 DEF Collect, At, history
  <2>3. /\ actor'[q].known = actor[q].known /\ actor'[q].asof = actor[q].asof
        /\ actor'[q].at \in {"promoted", "blocked"}
        /\ actor'[q].at = "promoted" => Promotes(actor[q].asof, enough, settled)
        /\ \A r \in Actors \ {q} : actor'[r] = actor[r]
    BY <2>1, GoesTo DEF Moves, Places
  <2>4. LogInv'
    BY <2>2, <2>3 DEF LogInv
  <2>5. ASSUME actor'[q].at = "promoted", NEW e \in actor[q].known
        PROVE  \E i \in DOMAIN audit : audit[i] = e
    BY <2>2 DEF LogInv
  <2>6. actor[q].asof \in Nat
    BY DEF Caller
  <2>7. ReportedBlocks'
    BY <2>2, <2>3, <2>5, <2>6, PromotesOnlyUnblocked DEF ReportedBlocks, At
  <2> QED
    BY <2>4, <2>7
<1>13. ASSUME NEW kind \in Kinds, Emit(kind) PROVE Good
  <2> DEFINE e == [kind |-> kind, asof |-> day]
  <2>1. e \in Event
    BY GovernanceAssumption DEF Event
  <2>2. audit' = Append(audit, e) /\ reported' = reported \cup {e} /\ UNCHANGED actor
    BY <1>13 DEF Emit
  <2> HIDE DEF e
  <2> QED
    BY <2>1, <2>2, LogKept
<1>14. ASSUME (\E t \in Tokens : Expire(t)) \/ NextDay \/ UNCHANGED vars PROVE Quiet
  BY <1>14 DEF Expire, NextDay, vars, history
<1> QED
  BY <1>a, <1>1, <1>2, <1>3, <1>4, <1>5, <1>6, <1>7, <1>8, <1>9, <1>10, <1>11, <1>12,
     <1>13, <1>14 DEF Next

-----------------------------------------------------------------------------
(* The invariant, and what follows.                                        *)

LEMMA InitHolds == Init => IInv
<1> SUFFICES ASSUME Init PROVE IInv
  OBVIOUS
<1>1. \A q \in Actors : actor[q] = Idle
  BY DEF Init
<1>2. TypeOK
  <2>1. actor \in [Actors -> Caller]
    BY IdleIs DEF Init
  <2>2. lifts \in [Tokens -> Nat] /\ rows \in Seq(Row) /\ audit \in Seq(Event)
    BY DEF Init
  <2>3. day \in 0..MaxDay
    BY GovernanceAssumption DEF Init
  <2>4. /\ setup \in Setups
        /\ state \in Content /\ tmp \in Content \cup {"absent"}
        /\ expired \subseteq Tokens /\ owed \in BOOLEAN /\ reported \subseteq Event
    BY DEF Init, Content, NoFile
  <2> QED
    BY <2>1, <2>2, <2>3, <2>4, TypeOfActor
<1>3. CarryInv /\ OneInv
  BY <1>1, IdleIs DEF CarryInv, OneInv, Alone, Written, Clearing, Writing, Changing
<1>4. SpendInv
  BY <1>1, IdleIs DEF Init, SpendInv, Clearing
<1>5. HaltHolds /\ LogInv /\ ReportedBlocks
  BY <1>1, IdleIs DEF Init, HaltHolds, LogInv, ReportedBlocks, At
<1> QED
  BY <1>2, <1>3, <1>4, <1>5 DEF IInv

THEOREM Invariant == Spec => []IInv
<1>1. IInv /\ [Next]_vars => IInv'
  BY TypeStep, SpendStep, OneStep, LogStep DEF IInv
<1> QED
  BY <1>1, InitHolds, PTL DEF Spec

(* Type correctness of the halt, its file, the tokens and the audit log.      *)
THEOREM TypeCorrect == Spec => []TypeOK
BY Invariant, PTL DEF IInv

(* A token lifts the halt at most once (kill_switch.clear, consume_token).    *)
THEOREM OneShot == Spec => []SpentOnce
<1>1. IInv => SpentOnce
  BY DEF IInv, SpendInv, SpentOnce
<1> QED
  BY <1>1, Invariant, PTL

(* In one process a reported halt stays in force until a token is spent.      *)
THEOREM HaltStays == Spec => []HaltHolds
BY Invariant, PTL DEF IInv

(* No strategy is promoted over a halt, a breach, a drift or a weak Sharpe    *)
(* ratio that was reported before the evaluation began (promotion.py).        *)
THEOREM NothingReportedIsMissed == Spec => []ReportedBlocks
BY Invariant, PTL DEF IInv

-----------------------------------------------------------------------------
(***************************************************************************)
(* What holds of clear-halt, which ClearHaltClears does not: a token is    *)
(* refused for a reason that is in the store.                              *)
(***************************************************************************)
\* The tokens that are spent or expired, or were granted after another one.
Behind ==
  {t \in Tokens : \/ t \in Consumed \cup expired
                  \/ \E i, j \in DOMAIN rows :
                       /\ i < j /\ rows[i].type = "grant" /\ rows[j].type = "grant"
                       /\ rows[j].token = t /\ rows[i].token # t}

\* The token of a caller that is refused is spent, expired or not the first.
RefusedBehind == \A q \in Actors : At(q, "refused") => actor[q].token \in Behind

\* The token of a caller that asks was granted.
AsksInv == \A q \in Actors : At(q, "require") => actor[q].token \in Granted

\* The store only grows.
Grows == /\ DOMAIN rows \subseteq DOMAIN rows' /\ expired \subseteq expired'
         /\ \A i \in DOMAIN rows : rows'[i] = rows[i]

LEMMA GrowsOn ==
  ASSUME Grows
  PROVE  Granted \subseteq Granted' /\ Behind \subseteq Behind'
<1>1. Granted \subseteq Granted' /\ Consumed \subseteq Consumed'
  BY DEF Grows, Granted, Consumed
<1>2. ASSUME NEW t \in Behind PROVE t \in Behind'
  <2>1. CASE t \in Consumed \cup expired
    BY <1>1, <2>1 DEF Grows, Behind
  <2>2. CASE t \notin Consumed \cup expired
    <3>1. PICK i, j \in DOMAIN rows :
            /\ i < j /\ rows[i].type = "grant" /\ rows[j].type = "grant"
            /\ rows[j].token = t /\ rows[i].token # t
      BY <2>2 DEF Behind
    <3>2. i \in DOMAIN rows' /\ j \in DOMAIN rows' /\ rows'[i] = rows[i] /\ rows'[j] = rows[j]
      BY DEF Grows
    <3> QED
      BY <3>1, <3>2 DEF Behind
  <2> QED
    BY <2>1, <2>2
<1> QED
  BY <1>1, <1>2

LEMMA AppendGrows ==
  ASSUME rows \in Seq(Row), NEW w \in Row, rows' = Append(rows, w), expired' = expired
  PROVE  Grows
BY AppendKeeps DEF Grows

LEMMA StoreGrows ==
  ASSUME TypeOK, CarryInv, [Next]_vars
  PROVE  Grows
<1>0. rows \in Seq(Row)
  BY DEF TypeOK
<1>1. ASSUME NEW t \in Tokens, Grant(t), expired' = expired PROVE Grows
  <2> DEFINE w == [type |-> "grant", token |-> t]
  <2>1. w \in Row /\ rows' = Append(rows, w)
    BY <1>1 DEF Row, Grant
  <2> HIDE DEF w
  <2> QED
    BY ONLY <1>0, <1>1, <2>1, AppendGrows
<1>2. ASSUME NEW q \in Actors, Consume(q) PROVE Grows
  <2> DEFINE w == [type |-> "consumed", token |-> actor[q].token]
  <2>1. w \in Row /\ expired' = expired
    BY <1>2 DEF Row, Consume, At, CarryInv
  <2>2. rows' = rows \/ rows' = Append(rows, w)
    BY <1>2 DEF Consume
  <2> HIDE DEF w
  <2>3. CASE rows' = rows
    BY ONLY <2>1, <2>3 DEF Grows
  <2>4. CASE rows' = Append(rows, w)
    BY ONLY <1>0, <2>1, <2>4, AppendGrows
  <2> QED
    BY <2>2, <2>3, <2>4
<1>3. ASSUME NEW q \in Actors, NEW t \in Tokens,
             GrantClear(q, t) \/ ClearHalt(q, t) \/ ClearWith(q, t)
      PROVE  Grows
  BY <1>1, <1>3 DEF GrantClear, ClearHalt, ClearWith, store, Grows
<1>4. ASSUME NEW q \in Actors,
             \/ Fire(q) \/ OpenTmp(q) \/ WriteTmp(q) \/ Rename(q) \/ Note(q)
             \/ Require(q) \/ Refused(q) \/ ReadPrior(q) \/ Crash(q)
             \/ Evaluate(q) \/ Collect(q) \/ Decided(q)
      PROVE  UNCHANGED store
  BY Zenon, <1>4 DEF Fire, OpenTmp, WriteTmp, Rename, Note, Require, Refused, ReadPrior, Crash,
                     Evaluate, Collect, Decided
<1>5. ASSUME \/ \E t \in Tokens : Expire(t)
             \/ \E kind \in Kinds : Emit(kind)
             \/ NextDay \/ UNCHANGED vars
      PROVE  Grows
  BY <1>5 DEF Expire, Emit, NextDay, vars, store, Grows
<1>6. UNCHANGED store => Grows
  BY DEF store, Grows
<1> QED
  BY <1>2, <1>3, <1>4, <1>5, <1>6 DEF Next

\* A set of numbers that has a member has a smallest one.
LEMMA SmallestNat ==
  ASSUME NEW T \in SUBSET Nat, T # {}
  PROVE  \E x \in T : \A y \in T : x <= y
<1> DEFINE R == OpToRel(<, Nat)
<1>1. \A x, y \in Nat : <<y, x>> \in R <=> y < x
  BY DEF OpToRel
<1>2. IsWellFoundedOn(R, Nat)
  BY NatLessThanWellFounded
<1> HIDE DEF R
<1>3. PICK x \in T : \A y \in T : <<y, x>> \notin R
  BY <1>2, WFMin
<1>4. ASSUME NEW y \in T PROVE x <= y
  <2>1. x \in Nat /\ y \in Nat
    OBVIOUS
  <2>2. ~ (y < x)
    BY <1>1, <1>3, <2>1
  <2> QED
    BY ONLY <2>1, <2>2
<1> QED
  BY <1>4

\* A granted token that is not the first live one is refused for a reason.
LEMMA RefusesBehind ==
  ASSUME TypeOK, NEW token \in Granted, token # FirstLive
  PROVE  token \in Behind
<1> DEFINE live == {i \in DOMAIN rows : /\ rows[i].type = "grant"
                                        /\ rows[i].token \notin Consumed \cup expired}
<1>1. PICK j \in DOMAIN rows : rows[j].type = "grant" /\ rows[j].token = token
  BY DEF Granted
<1>2. DOMAIN rows \subseteq Nat /\ \A k \in DOMAIN rows : rows[k] \in Row
  BY DEF TypeOK
<1>3. token \in Tokens
  BY <1>1, <1>2 DEF Row
<1> SUFFICES ASSUME token \notin Consumed \cup expired PROVE token \in Behind
  BY <1>3 DEF Behind
<1>4. j \in live /\ live \in SUBSET Nat /\ live \subseteq DOMAIN rows
  BY <1>1, <1>2
<1> DEFINE i == CHOOSE i \in live : \A k \in live : i <= k
<1>5. FirstLive = rows[i].token
  BY <1>4 DEF FirstLive
<1>6. rows[i].type = "grant" \/ i \notin live
  OBVIOUS
<1>7. i \in live /\ \A k \in live : i <= k
  <2>1. \E x \in live : \A k \in live : x <= k
    <3> HIDE DEF live
    <3> QED
      BY ONLY <1>4, SmallestNat
  <2> HIDE DEF live
  <2> QED
    BY ONLY <2>1 DEF i
<1> HIDE DEF i, live
<1>8. i <= j /\ i # j /\ i \in Nat /\ j \in Nat
  BY <1>1, <1>4, <1>5, <1>7
<1>9. i < j
  BY ONLY <1>8
<1>10. rows[i].type = "grant" /\ rows[i].token # token /\ i \in DOMAIN rows
  BY <1>4, <1>5, <1>6, <1>7
<1> QED
  BY ONLY <1>1, <1>3, <1>9, <1>10 DEF Behind

\* A caller that moves on asks with a granted token, or is refused for a reason.
LEMMA AsksMoves ==
  ASSUME AsksInv, RefusedBehind, Grows, NEW q \in Actors, NEW at, NEW token, NEW writes,
         NEW file, Moves(q, at, token, writes, file),
         at = "require" => token \in Granted', at = "refused" => token \in Behind'
  PROVE  AsksInv' /\ RefusedBehind'
<1>1. Granted \subseteq Granted' /\ Behind \subseteq Behind'
  BY GrowsOn
<1>2. ASSUME NEW r \in Actors
      PROVE  /\ actor'[r].at = "require" => actor'[r].token \in Granted'
             /\ actor'[r].at = "refused" => actor'[r].token \in Behind'
  <2>1. CASE r = q
    BY <2>1 DEF Moves
  <2>2. CASE r # q
    BY <1>1, <2>2 DEF Moves, AsksInv, RefusedBehind, At
  <2> QED
    BY <2>1, <2>2
<1> QED
  BY ONLY <1>2 DEF AsksInv, RefusedBehind, At

\* Callers that stay, or stop, ask and are refused as before.
LEMMA AsksStay ==
  ASSUME AsksInv, RefusedBehind, Grows,
         \A r \in Actors : \/ actor'[r].at = actor[r].at /\ actor'[r].token = actor[r].token
                           \/ actor'[r].at \notin {"require", "refused"}
  PROVE  AsksInv' /\ RefusedBehind'
<1>1. Granted \subseteq Granted' /\ Behind \subseteq Behind'
  BY GrowsOn
<1> QED
  BY <1>1 DEF AsksInv, RefusedBehind, At

LEMMA AsksStep ==
  ASSUME TypeOK, CarryInv, AsksInv, RefusedBehind, [Next]_vars
  PROVE  AsksInv' /\ RefusedBehind'
<1> DEFINE Good == AsksInv' /\ RefusedBehind'
<1>0. Grows
  BY StoreGrows
<1>1. actor \in [Actors -> Caller]
  BY TypeOfActor
<1>2. ASSUME NEW q \in Actors, NEW at, NEW token, NEW writes, NEW file,
             Moves(q, at, token, writes, file), at \notin {"require", "refused"}
      PROVE  Good
  BY ONLY <1>0, <1>2, AsksInv, RefusedBehind, AsksMoves
<1>3. UNCHANGED actor => Good
  BY ONLY <1>0, AsksInv, RefusedBehind, AsksStay
<1>4. ASSUME NEW q \in Actors, Fire(q) PROVE Good
  <2>1. UNCHANGED actor \/ Moves(q, "open", NoToken, "halted", "none")
    BY <1>4, FireMoves
  <2>2. "open" \notin {"require", "refused"}
    OBVIOUS
  <2> QED
    BY ONLY <1>2, <1>3, <2>1, <2>2, q \in Actors
<1>5. ASSUME NEW q \in Actors, OpenTmp(q) PROVE Good
  <2>1. Moves(q, "write", actor[q].token, actor[q].writes, "tmp")
    BY <1>5, OpenTmpMoves
  <2> QED
    BY ONLY <1>2, <2>1, q \in Actors
<1>6. ASSUME NEW q \in Actors, NEW label \in Places \ {"require", "refused"}, Goes(q, label)
      PROVE  Good
  BY ONLY <1>1, <1>2, <1>6, GoesTo
<1>7. ASSUME NEW q \in Actors, Return(q) PROVE Good
  <2>1. Moves(q, "idle", NoToken, "none", "none")
    BY <1>1, <1>7, Returns
  <2> QED
    BY ONLY <1>2, <2>1, q \in Actors
<1>8. ASSUME NEW q \in Actors, WriteTmp(q) PROVE Good
  BY <1>6, <1>8 DEF WriteTmp, Places
<1>9. ASSUME NEW q \in Actors, Rename(q) PROVE Good
  <2>1. \A r \in Actors : \/ actor'[r].at = actor[r].at /\ actor'[r].token = actor[r].token
                          \/ actor'[r].at \notin {"require", "refused"}
    BY <1>9, RenameMoves, IdleIs
  <2> QED
    BY ONLY <1>0, <2>1, AsksInv, RefusedBehind, AsksStay
<1>10. ASSUME NEW q \in Actors, Note(q) \/ Refused(q) \/ Decided(q) PROVE Good
  BY <1>7, <1>10 DEF Note, Refused, Decided
<1>11. ASSUME NEW q \in Actors, NEW t \in Tokens, GrantClear(q, t) PROVE Good
  BY <1>3, <1>11 DEF GrantClear
<1>12. ASSUME NEW q \in Actors, NEW t \in Tokens, ClearHalt(q, t) \/ ClearWith(q, t)
       PROVE  Good
  <2>1. Moves(q, "require", t, "none", "none")
    BY <1>12, RequireMoves
  <2>2. t \in Granted'
    <3>1. CASE ClearHalt(q, t)
      <4> DEFINE w == [type |-> "grant", token |-> t]
      <4>1. w \in Row /\ w.type = "grant" /\ w.token = t /\ rows' = Append(rows, w)
        BY <3>1 DEF Row, ClearHalt, Grant
      <4> HIDE DEF w
      <4>2. Len(rows) + 1 \in DOMAIN rows' /\ rows'[Len(rows) + 1] = w
        BY <4>1, AppendKeeps DEF TypeOK
      <4> QED
        BY ONLY <4>1, <4>2 DEF Granted
    <3>2. CASE ClearWith(q, t)
      BY <1>0, <3>2, GrowsOn DEF ClearWith
    <3> QED
      BY <1>12, <3>1, <3>2
  <2>3. "require" # "refused"
    OBVIOUS
  <2> QED
    BY ONLY <1>0, <2>1, <2>2, <2>3, q \in Actors, AsksInv, RefusedBehind, AsksMoves
<1>13. ASSUME NEW q \in Actors, Require(q) PROVE Good
  <2>1. CASE actor[q].token = FirstLive
    BY <1>6, <1>13, <2>1 DEF Require, Places
  <2>2. CASE actor[q].token # FirstLive
    <3>1. Moves(q, "refused", actor[q].token, actor[q].writes, actor[q].file)
      BY <1>1, <1>13, <2>2, GoesTo DEF Require, Places
    <3>2. actor[q].token \in Granted
      BY <1>13 DEF Require, AsksInv
    <3>3. actor[q].token \in Behind
      BY ONLY TypeOK, <2>2, <3>2, RefusesBehind
    <3>4. actor[q].token \in Behind'
      BY ONLY <1>0, <3>3, GrowsOn
    <3>5. "refused" # "require"
      OBVIOUS
    <3> QED
      BY ONLY <1>0, <3>1, <3>4, <3>5, q \in Actors, AsksInv, RefusedBehind, AsksMoves
  <2> QED
    BY <2>1, <2>2
<1>14. ASSUME NEW q \in Actors, ReadPrior(q) PROVE Good
  BY <1>6, <1>7, <1>14 DEF ReadPrior, Places
<1>15. ASSUME NEW q \in Actors, Consume(q) PROVE Good
  <2>1. actor[q].token \in Tokens
    BY <1>15 DEF Consume, At, CarryInv
  <2>2. \/ Moves(q, "idle", NoToken, "none", "none")
        \/ Moves(q, "open", actor[q].token, "cleared", actor[q].file)
    BY ONLY TypeOK, <1>15, <2>1, ConsumeMoves
  <2> QED
    BY ONLY <1>2, <2>2, q \in Actors
<1>16. ASSUME NEW q \in Actors, Crash(q) PROVE Good
  <2>1. \A r \in Actors : \/ actor'[r].at = actor[r].at /\ actor'[r].token = actor[r].token
                          \/ actor'[r].at \notin {"require", "refused"}
    BY <1>16, CrashMoves, IdleIs
  <2> QED
    BY ONLY <1>0, <2>1, AsksInv, RefusedBehind, AsksStay
<1>17. ASSUME NEW q \in Actors, Evaluate(q) PROVE Good
  <2>1. Moves(q, "collect", NoToken, "none", "none")
    BY <1>17, EvaluateMoves
  <2> QED
    BY ONLY <1>2, <2>1, q \in Actors
<1>18. ASSUME NEW q \in Actors, Collect(q) PROVE Good
  BY <1>6, <1>18 DEF Collect, Places
<1>19. ASSUME \/ \E t \in Tokens : Expire(t)
              \/ \E kind \in Kinds : Emit(kind)
              \/ NextDay \/ UNCHANGED vars
       PROVE  Good
  BY <1>3, <1>19 DEF Expire, Emit, NextDay, vars
<1> HIDE DEF Good
<1>20. Good
  BY <1>4, <1>5, <1>8, <1>9, <1>10, <1>11, <1>12, <1>13, <1>14, <1>15, <1>16, <1>17, <1>18,
     <1>19 DEF Next
<1> QED
  BY <1>20 DEF Good

(* What holds in place of ClearHaltClears: a caller of clear that is refused   *)
(* carries a token that was spent or has expired, or that was granted after    *)
(* another one.  So the token clear-halt has just minted is refused only for   *)
(* a grant that is older in the store (require_human_token takes the first).   *)
THEOREM RefusedForAReason == Spec => []RefusedBehind
<1>1. Init => TypeOK /\ CarryInv /\ AsksInv /\ RefusedBehind
  <2>1. Init => IInv
    BY InitHolds
  <2>2. Init => AsksInv /\ RefusedBehind
    BY DEF Init, Idle, AsksInv, RefusedBehind, At
  <2> QED
    BY <2>1, <2>2 DEF IInv
<1>2. TypeOK /\ CarryInv /\ AsksInv /\ RefusedBehind /\ [Next]_vars
        => (TypeOK /\ CarryInv /\ AsksInv /\ RefusedBehind)'
  BY TypeStep, AsksStep
<1> QED
  BY <1>1, <1>2, PTL DEF Spec

=============================================================================
