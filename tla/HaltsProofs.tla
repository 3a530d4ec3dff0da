---------------------------- MODULE HaltsProofs ----------------------------
(***************************************************************************)
(* Proofs about Halts, for every set of instruments, scopes, writers and   *)
(* ticks, and with no bound on the halts installed.                        *)
(***************************************************************************)
EXTENDS Halts, FiniteSetTheorems, TLAPS

-----------------------------------------------------------------------------
(***************************************************************************)
(* The inductive invariant.                                                *)
(***************************************************************************)
Installed == {r.halt : r \in halts}

Busy(q) == pc[q] # "idle"

\* The epochs of a scope have a maximum, and the table is finite.
TableInv ==
  /\ IsFiniteSet(Installed)
  /\ \A s \in Scopes : \E m \in {0} \cup Epochs(s) :
       \A e \in {0} \cup Epochs(s) : m >= e
  /\ announced \subseteq Installed
  /\ \A q \in Writers : mine[q] # NoHalt => mine[q] \in Installed

\* While the registry is sound, whoever is at work is alone; and one who is
\* alone is the only one at work.
LoneInv ==
  /\ sound => \A q \in Writers : Busy(q) => lone
  /\ lone  => \A q, r \in Writers : Busy(q) /\ Busy(r) => q = r

\* What a writer that is alone has done so far of writing the mirror.
StageInv ==
  /\ \A q \in Writers : pc[q] \in {"idle", "read", "open"} => file[q] = "none"
  /\ \A q \in Writers : lone /\ Busy(q) =>
       /\ pc[q] # "error"
       /\ pc[q] \in {"open", "write", "rename"} => snap[q] = Active
       /\ pc[q] = "write"  => file[q] = "tmp" /\ tmp.exists /\ tmp.content = Empty
       /\ pc[q] = "rename" => tmp.exists /\ tmp.content = Says(Active)

IInv ==
  /\ TypeOK /\ TableInv /\ OneActivePerScope /\ LoneInv /\ StageInv
  /\ InForceIsMirrored /\ MirrorSettled

-----------------------------------------------------------------------------
(***************************************************************************)
(* The table: every change of it is an installation or a clearing.         *)
(***************************************************************************)
LEMMA MaxOf ==
  ASSUME NEW S, \E m \in S : \A e \in S : m >= e
  PROVE  Max(S) \in S /\ \A e \in S : Max(S) >= e
BY DEF Max

\* The epoch that an installation takes is above all those of its scope.
LEMMA NextEpoch ==
  ASSUME TypeOK, TableInv, NEW s \in Scopes
  PROVE  LastEpoch(s) \in Nat /\ \A r \in halts : r.halt.scope = s => r.halt.epoch <= LastEpoch(s)
<1> DEFINE S == {0} \cup Epochs(s)
<1>1. S \subseteq Nat
  BY DEF TypeOK, Row, Halt, Epochs
<1>2. Max(S) \in S /\ \A e \in S : Max(S) >= e
  <2> \E m \in S : \A e \in S : m >= e
    BY DEF TableInv
  <2> QED
    BY MaxOf
<1>3. \A r \in halts : r.halt.scope = s => r.halt.epoch \in S
  BY DEF Epochs
<1> QED
  BY <1>1, <1>2, <1>3 DEF LastEpoch

NewHalt(s, timed) == [scope |-> s, epoch |-> LastEpoch(s) + 1, timed |-> timed]

\* What an installation does to the table.
LEMMA Installs ==
  ASSUME TypeOK, TableInv, NEW q \in Writers, NEW s \in Scopes, NEW timed \in BOOLEAN,
         AddHalt(q, s, timed)
  PROVE  LET h == NewHalt(s, timed)
         IN  /\ h \in Halt /\ h \notin Installed
             /\ halts' = halts \cup {[halt |-> h, active |-> TRUE]}
             /\ Active' = Active \cup {h}
             /\ Installed' = Installed \cup {h}
             /\ \A g \in Active : g.scope # s
             /\ \A r \in halts : r.halt.scope = s => r.halt.epoch < h.epoch
<1> DEFINE h == NewHalt(s, timed)
           n == [halt |-> h, active |-> TRUE]
<1>1. h \in Halt /\ h.scope = s /\ h.epoch = LastEpoch(s) + 1
  BY NextEpoch DEF NewHalt, Halt
<1>2. \A r \in halts : r.halt.scope = s => r.halt.epoch < h.epoch
  BY NextEpoch, <1>1 DEF TypeOK, Row, Halt
<1>3. h \notin Installed
  <2> SUFFICES ASSUME NEW r \in halts, r.halt = h PROVE FALSE
    BY DEF Installed
  <2> QED
    BY <1>1, <1>2, NextEpoch
<1>4. halts' = halts \cup {n} /\ \A g \in Active : g.scope # s
  BY DEF AddHalt, Insert, NewHalt
<1>5. n.halt = h /\ n.active
  OBVIOUS
<1> HIDE DEF n, h
<1>6. Active' = Active \cup {h}
  BY <1>4, <1>5 DEF Active
<1>7. Installed' = Installed \cup {h}
  BY <1>4, <1>5 DEF Installed
<1> QED
  BY <1>1, <1>2, <1>3, <1>4, <1>6, <1>7 DEF h, n

Lifts(q) ==
  \/ \E s \in Scopes : ClearHalt(q, s)
  \/ AutoClearExpired(q)

\* What a clearing does to the table.
LEMMA Clears ==
  ASSUME TypeOK, NEW hs, halts' = Clear(hs)
  PROVE  /\ halts' \subseteq Row
         /\ \A n \in halts' : \E r \in halts : n.halt = r.halt /\ (n.active => r.active)
         /\ \A r \in halts : \E n \in halts' : n.halt = r.halt /\ (n.active => r.active)
         /\ Active' = Active \ hs
         /\ Installed' = Installed
<1> DEFINE cl(r) == [r EXCEPT !.active = r.active /\ r.halt \notin hs]
<1>1. halts' = {cl(r) : r \in halts}
  BY DEF Clear
<1>2. ASSUME NEW r \in halts
      PROVE  cl(r) \in Row /\ cl(r).halt = r.halt
             /\ (cl(r).active <=> r.active /\ r.halt \notin hs)
  <2>1. r \in Row /\ r.active \in BOOLEAN
    BY DEF TypeOK, Row
  <2>2. (r.active /\ r.halt \notin hs) \in BOOLEAN
    OBVIOUS
  <2> QED
    BY <2>1, <2>2, Zenon DEF Row
<1> HIDE DEF cl
<1>3. Active' = {n.halt : n \in {n \in halts' : n.active}}
  BY DEF Active
<1>4. Active' = Active \ hs
  BY <1>1, <1>2, <1>3 DEF Active
<1>5. Installed' = Installed
  BY <1>1, <1>2 DEF Installed
<1> QED
  BY <1>1, <1>2, <1>4, <1>5

-----------------------------------------------------------------------------
(***************************************************************************)
(* The steps, told apart by what they change.                              *)
(***************************************************************************)
Reads ==
  \/ \E t \in Ticks : \/ TickStarts(t) \/ TickAborts(t) \/ TickEnds(t)
                      \/ \E i \in Instruments : TickFires(t, i)
  \/ \E i \in Instruments : ApprovalFires(i)

LEMMA Steps ==
  ASSUME [Next]_vars
  PROVE  \/ \E q \in Writers, s \in Scopes, timed \in BOOLEAN : AddHalt(q, s, timed)
         \/ \E q \in Writers : Lifts(q)
         \/ \E q \in Writers : ReadActive(q)
         \/ \E q \in Writers : OpenTmp(q)
         \/ \E q \in Writers : WriteTmp(q)
         \/ \E q \in Writers : Rename(q)
         \/ \E q \in Writers : Die(q)
         \/ Reads
         \/ UNCHANGED vars
BY DEF Next, Lifts, Reads

\* The readers leave the registry and its mirror alone.
LEMMA ReadsOnly ==
  ASSUME Reads \/ UNCHANGED vars
  PROVE  UNCHANGED <<registry, files, pc, snap, order>>
BY DEF Reads, TickStarts, TickAborts, TickEnds, TickFires, ApprovalFires, vars

\* What a clearing changes beside the table.
LEMMA LiftsFrame ==
  ASSUME NEW q \in Writers, Lifts(q)
  PROVE  /\ Begin(q)
         /\ \E hs : halts' = Clear(hs)
         /\ UNCHANGED <<mine, announced, files, snap, firing>>
BY DEF Lifts, ClearHalt, AutoClearExpired

LEMMA AddFrame ==
  ASSUME NEW q \in Writers, NEW s \in Scopes, NEW timed \in BOOLEAN, AddHalt(q, s, timed)
  PROVE  /\ Begin(q)
         /\ mine' = [mine EXCEPT ![q] = NewHalt(s, timed)]
         /\ UNCHANGED <<announced, files, snap, firing>>
BY DEF AddHalt, Insert, NewHalt

\* An installation or a clearing, seen by the mirror: nothing that was
\* announced comes into force, and the writer has the mirror to write.
Changes(q) ==
  /\ Begin(q)
  /\ Active' \cap announced \subseteq Active
  /\ UNCHANGED <<announced, files, snap>>

LEMMA TableChanges ==
  ASSUME TypeOK, TableInv, NEW q \in Writers,
         Lifts(q) \/ \E s \in Scopes, timed \in BOOLEAN : AddHalt(q, s, timed)
  PROVE  Changes(q)
<1>1. CASE Lifts(q)
  BY <1>1, LiftsFrame, Clears DEF Changes
<1>2. ASSUME NEW s \in Scopes, NEW timed \in BOOLEAN, AddHalt(q, s, timed)
      PROVE  Changes(q)
  <2>1. NewHalt(s, timed) \notin announced
    BY <1>2, Installs DEF TableInv
  <2>2. Active' = Active \cup {NewHalt(s, timed)}
    BY <1>2, Installs
  <2> QED
    BY <1>2, <2>1, <2>2, AddFrame DEF Changes
<1> QED
  BY <1>1, <1>2

-----------------------------------------------------------------------------
(***************************************************************************)
(* Each conjunct of the invariant is preserved.                            *)
(***************************************************************************)
LEMMA TypeStep == ASSUME TypeOK, TableInv, [Next]_vars PROVE TypeOK'
<1> USE DEF registry, files, order
<1>1. ASSUME NEW q \in Writers, Begin(q),
             UNCHANGED <<announced, files, snap, firing>>,
             halts' \subseteq Row, mine' \in [Writers -> Halt \cup {NoHalt}]
      PROVE  TypeOK'
  <2>1. {lone', sound'} \subseteq BOOLEAN
    BY <1>1, Zenon DEF Begin, TypeOK
  <2>2. pc' \in [Writers -> {"idle", "read", "open", "write", "rename", "error"}]
    BY <1>1 DEF Begin, Go, TypeOK
  <2> QED
    BY <1>1, <2>1, <2>2 DEF TypeOK, firing
<1>2. ASSUME NEW q \in Writers, NEW s \in Scopes, NEW timed \in BOOLEAN, AddHalt(q, s, timed)
      PROVE  TypeOK'
  <2>1. NewHalt(s, timed) \in Halt
    BY <1>2, Installs
  <2>2. halts' \subseteq Row
    <3>1. [halt |-> NewHalt(s, timed), active |-> TRUE] \in Row
      BY <2>1 DEF Row
    <3>2. halts' = halts \cup {[halt |-> NewHalt(s, timed), active |-> TRUE]}
      BY <1>2, Installs
    <3> QED
      BY <3>1, <3>2 DEF TypeOK
  <2>3. mine' \in [Writers -> Halt \cup {NoHalt}]
    BY <1>2, <2>1, AddFrame DEF TypeOK
  <2> QED
    BY <1>1, <1>2, <2>2, <2>3, AddFrame
<1>3. ASSUME NEW q \in Writers, Lifts(q) PROVE TypeOK'
  <2>1. halts' \subseteq Row
    BY <1>3, LiftsFrame, Clears
  <2> QED
    BY <1>1, <1>3, <2>1, LiftsFrame DEF TypeOK
<1>4. ASSUME NEW q \in Writers, ReadActive(q) PROVE TypeOK'
  <2>1. Active \subseteq Halt
    BY DEF Active, TypeOK, Row
  <2> QED
    BY <1>4, <2>1 DEF ReadActive, Go, TypeOK, firing
<1>5. ASSUME NEW q \in Writers, OpenTmp(q) PROVE TypeOK'
  BY <1>5 DEF OpenTmp, Go, TypeOK, firing, Content, Empty
<1>6. ASSUME NEW q \in Writers, WriteTmp(q) PROVE TypeOK'
  <2>1. \A old : Overwrite(old, q) \subseteq Content
    BY DEF Overwrite, Says, Mangled, Content, TypeOK
  <2>2. mirror' \in Content /\ tmp' \in [exists : BOOLEAN, content : Content]
    BY <1>6, <2>1 DEF WriteTmp, TypeOK
  <2> QED
    BY <1>6, <2>2 DEF WriteTmp, Go, TypeOK, firing
<1>7. ASSUME NEW q \in Writers, Rename(q) PROVE TypeOK'
  <2>1. NoFile \in Content
    BY DEF NoFile, Says, Content
  <2>2. file' \in [Writers -> {"none", "tmp", "mirror", "gone"}]
    BY <1>7 DEF Rename, Renamed, TypeOK
  <2>3. sound' \in BOOLEAN /\ lone' \in BOOLEAN
    BY <1>7, Zenon DEF Rename, TypeOK
  <2>4. pc' \in [Writers -> {"idle", "read", "open", "write", "rename", "error"}]
    BY <1>7 DEF Rename, Go, TypeOK
  <2>5. /\ mine' \in [Writers -> Halt \cup {NoHalt}] /\ announced' \subseteq Halt
        /\ snap' \in [Writers -> SUBSET Halt]
    BY <1>7 DEF Rename, Finish, TypeOK
  <2>6. mirror' \in Content /\ tmp' \in [exists : BOOLEAN, content : Content]
    <3>1. tmp \in [exists : BOOLEAN, content : Content] /\ mirror \in Content
      BY DEF TypeOK
    <3>2. \/ mirror' = tmp.content /\ tmp' = [exists |-> FALSE, content |-> NoFile]
          \/ UNCHANGED <<mirror, tmp>>
      BY <1>7 DEF Rename
    <3>3. tmp.content \in Content
      BY <3>1
    <3>4. [exists |-> FALSE, content |-> NoFile] \in [exists : BOOLEAN, content : Content]
      BY <2>1
    <3> QED
      BY <3>1, <3>2, <3>3, <3>4, Zenon
  <2>7. UNCHANGED <<halts, firing>>
    BY <1>7 DEF Rename
  <2> QED
    BY <2>2, <2>3, <2>4, <2>5, <2>6, <2>7 DEF TypeOK, firing
<1>8. ASSUME NEW q \in Writers, Die(q) PROVE TypeOK'
  BY <1>8 DEF Die, Finish, TypeOK, firing
<1>9. ASSUME NEW t \in Ticks, TickStarts(t) \/ TickAborts(t) \/ TickEnds(t) PROVE TypeOK'
  <2>1. InForce \subseteq Halt
    BY DEF InForce, TypeOK
  <2> QED
    BY <1>9, <2>1 DEF TickStarts, TickAborts, TickEnds, TypeOK, vars, firing
<1>10. ASSUME NEW t \in Ticks, NEW i \in Instruments, TickFires(t, i) PROVE TypeOK'
  BY <1>10 DEF TickFires, TypeOK
<1>11. ASSUME NEW i \in Instruments, ApprovalFires(i) PROVE TypeOK'
  BY <1>11 DEF ApprovalFires, TypeOK
<1>12. CASE UNCHANGED vars
  BY <1>12 DEF vars, TypeOK, firing
<1> QED
  BY Steps, <1>2, <1>3, <1>4, <1>5, <1>6, <1>7, <1>8, <1>9, <1>10, <1>11, <1>12 DEF Reads

LEMMA TableStep == ASSUME TypeOK, TableInv, [Next]_vars PROVE TableInv'
<1>1. ASSUME NEW q \in Writers, NEW s \in Scopes, NEW timed \in BOOLEAN, AddHalt(q, s, timed)
      PROVE  TableInv'
  <2> DEFINE h == NewHalt(s, timed)
             n == [halt |-> h, active |-> TRUE]
  <2>1. halts' = halts \cup {n} /\ Installed' = Installed \cup {h}
    BY <1>1, Installs
  <2>2. h.scope = s /\ h.epoch = LastEpoch(s) + 1 /\ n.halt = h
    BY DEF NewHalt
  <2>3. IsFiniteSet(Installed')
    BY <2>1, FS_AddElement DEF TableInv
  <2>4. announced' \subseteq Installed'
    BY <1>1, <2>1, AddFrame DEF TableInv
  <2>5. \A r \in Writers : mine'[r] # NoHalt => mine'[r] \in Installed'
    BY <1>1, <2>1, AddFrame DEF TableInv, TypeOK
  <2> HIDE DEF n, h
  <2>6. ASSUME NEW u \in Scopes, u # s PROVE Epochs(u)' = Epochs(u)
    BY <2>1, <2>2, <2>6 DEF Epochs
  <2>7. Epochs(s)' = Epochs(s) \cup {h.epoch}
    BY <2>1, <2>2 DEF Epochs
  <2>8. \A e \in {0} \cup Epochs(s) : h.epoch >= e
    BY <2>2, NextEpoch DEF Epochs, TypeOK, Row, Halt
  <2>9. h.epoch >= h.epoch
    BY <2>2, NextEpoch
  <2>10. \A u \in Scopes : \E m \in {0} \cup Epochs(u)' : \A e \in {0} \cup Epochs(u)' : m >= e
    BY <2>6, <2>7, <2>8, <2>9 DEF TableInv
  <2> QED
    BY <2>3, <2>4, <2>5, <2>10 DEF TableInv
<1>2. ASSUME NEW q \in Writers, Lifts(q) PROVE TableInv'
  <2>1. Installed' = Installed
    BY <1>2, LiftsFrame, Clears
  <2>2. ASSUME NEW u \in Scopes PROVE Epochs(u) = {g.epoch : g \in {g \in Installed : g.scope = u}}
    BY DEF Epochs, Installed
  <2>3. ASSUME NEW u \in Scopes PROVE Epochs(u)' = {g.epoch : g \in {g \in Installed' : g.scope = u}}
    BY DEF Epochs, Installed
  <2> QED
    BY <1>2, <2>1, <2>2, <2>3, LiftsFrame DEF TableInv
<1>3. CASE halts' = halts /\ announced' = announced
           /\ \A q \in Writers : mine'[q] \in {mine[q], NoHalt}
  BY <1>3 DEF TableInv, Installed, Epochs
<1>4. ASSUME NEW q \in Writers, ReadActive(q) \/ OpenTmp(q) \/ WriteTmp(q) PROVE TableInv'
  BY <1>3, <1>4 DEF ReadActive, OpenTmp, WriteTmp, registry
<1>5. ASSUME NEW q \in Writers, Die(q) PROVE TableInv'
  BY <1>3, <1>5 DEF Die, Finish, TypeOK
<1>6. ASSUME NEW q \in Writers, Rename(q) PROVE TableInv'
  <2>1. UNCHANGED halts /\ announced' \subseteq announced \cup ({mine[q]} \ {NoHalt})
        /\ \A r \in Writers : mine'[r] \in {mine[r], NoHalt}
    BY <1>6 DEF Rename, Finish, registry, TypeOK
  <2> QED
    BY <2>1 DEF TableInv, Installed, Epochs
<1>7. CASE Reads \/ UNCHANGED vars
  BY <1>3, <1>7, ReadsOnly DEF registry
<1> QED
  BY Steps, <1>1, <1>2, <1>4, <1>5, <1>6, <1>7

\* A step that installs nothing and clears nothing leaves the table as it is.
LEMMA SameTable ==
  ASSUME \/ \E q \in Writers : ReadActive(q) \/ OpenTmp(q) \/ WriteTmp(q) \/ Rename(q) \/ Die(q)
         \/ Reads \/ UNCHANGED vars
  PROVE  halts' = halts /\ Active' = Active
<1>1. halts' = halts
  BY ReadsOnly DEF ReadActive, OpenTmp, WriteTmp, Rename, Die, registry
<1> QED
  BY <1>1 DEF Active

LEMMA ScopeStep ==
  ASSUME TypeOK, TableInv, OneActivePerScope, [Next]_vars
  PROVE  OneActivePerScope'
<1>1. ASSUME NEW q \in Writers, NEW s \in Scopes, NEW timed \in BOOLEAN, AddHalt(q, s, timed)
      PROVE  OneActivePerScope'
  <2>1. Active' = Active \cup {NewHalt(s, timed)} /\ \A g \in Active : g.scope # s
    BY <1>1, Installs
  <2>2. NewHalt(s, timed).scope = s
    BY DEF NewHalt
  <2> QED
    BY <2>1, <2>2 DEF OneActivePerScope
<1>2. ASSUME NEW q \in Writers, Lifts(q) PROVE OneActivePerScope'
  <2>1. Active' \subseteq Active
    BY <1>2, LiftsFrame, Clears
  <2> QED
    BY <2>1 DEF OneActivePerScope
<1>3. CASE Active' = Active
  BY <1>3 DEF OneActivePerScope
<1> QED
  BY Steps, SameTable, <1>1, <1>2, <1>3

LEMMA LoneStep == ASSUME TypeOK, TableInv, LoneInv, [Next]_vars PROVE LoneInv'
<1>1. ASSUME NEW q \in Writers, Begin(q) PROVE LoneInv'
  <2>1. \A r \in Writers : r # q => pc'[r] = pc[r]
    BY <1>1 DEF Begin, Go, TypeOK
  <2>2. /\ lone' <=> \A r \in Writers \ {q} : pc[r] = "idle"
        /\ sound' => lone'
    BY <1>1, Zenon DEF Begin
  <2> QED
    BY <2>1, <2>2 DEF LoneInv, Busy
<1>2. ASSUME NEW q \in Writers,
             ReadActive(q) \/ OpenTmp(q) \/ WriteTmp(q) \/ (Rename(q) /\ ~tmp.exists)
      PROVE  LoneInv'
  <2>1. pc[q] # "idle" /\ \A r \in Writers : r # q => pc'[r] = pc[r]
    BY <1>2 DEF ReadActive, OpenTmp, WriteTmp, Rename, Go, TypeOK
  <2>2. UNCHANGED <<lone, sound>>
    BY <1>2 DEF ReadActive, OpenTmp, WriteTmp, Rename, order
  <2> QED
    BY <2>1, <2>2 DEF LoneInv, Busy
<1>3. ASSUME NEW q \in Writers, Rename(q), tmp.exists PROVE LoneInv'
  <2>1. /\ pc[q] # "idle" /\ pc'[q] = "idle" /\ lone' = lone
        /\ \A r \in Writers : r # q => pc'[r] = pc[r]
    BY <1>3 DEF Rename, Go, TypeOK
  <2>2. sound' => sound \/ lone
    BY <1>3, Zenon DEF Rename
  <2> QED
    BY <2>1, <2>2 DEF LoneInv, Busy
<1>4. ASSUME NEW q \in Writers, Die(q) PROVE LoneInv'
  BY <1>4 DEF Die, LoneInv
<1>5. CASE UNCHANGED <<pc, order>>
  BY <1>5 DEF LoneInv, Busy, order
<1>6. \A q \in Writers :
        Lifts(q) \/ (\E s \in Scopes, timed \in BOOLEAN : AddHalt(q, s, timed)) => Begin(q)
  BY TableChanges DEF Changes
<1> QED
  BY Steps, ReadsOnly, <1>1, <1>2, <1>3, <1>4, <1>5, <1>6

LEMMA StageStep ==
  ASSUME TypeOK, TableInv, LoneInv, StageInv, [Next]_vars
  PROVE  StageInv'
<1> USE DEF Busy
<1>1. ASSUME NEW q \in Writers, Changes(q) PROVE StageInv'
  <2>1. /\ pc[q] = "idle" /\ pc'[q] = "read"
        /\ \A r \in Writers : r # q => pc'[r] = pc[r]
        /\ file' = file
    BY <1>1 DEF Changes, Begin, Go, TypeOK, files
  <2>2. lone' => \A r \in Writers \ {q} : pc[r] = "idle"
    BY <1>1, Zenon DEF Changes, Begin
  <2>3. \A r \in Writers : lone' /\ pc'[r] # "idle" => r = q
    BY <2>1, <2>2
  <2> QED
    BY <2>1, <2>3 DEF StageInv
<1>2. ASSUME NEW q \in Writers, ReadActive(q) PROVE StageInv'
  <2>1. /\ pc[q] = "read" /\ pc'[q] = "open" /\ snap'[q] = Active
        /\ \A r \in Writers : r # q => pc'[r] = pc[r]
        /\ UNCHANGED <<file, tmp, lone>>
    BY <1>2 DEF ReadActive, Go, TypeOK, files, order
  <2>2. \A r \in Writers : lone /\ pc'[r] # "idle" => r = q
    BY <2>1 DEF LoneInv
  <2>3. Active' = Active
    BY <1>2, SameTable
  <2> QED
    BY <2>1, <2>2, <2>3 DEF StageInv
<1>3. ASSUME NEW q \in Writers, OpenTmp(q) PROVE StageInv'
  <2>1. /\ pc[q] = "open" /\ pc'[q] = "write" /\ file'[q] = "tmp"
        /\ tmp' = [exists |-> TRUE, content |-> Empty]
        /\ \A r \in Writers : r # q => pc'[r] = pc[r] /\ file'[r] = file[r]
        /\ UNCHANGED <<snap, lone>>
    BY <1>3 DEF OpenTmp, Go, TypeOK, order
  <2>2. \A r \in Writers : lone /\ pc'[r] # "idle" => r = q
    BY <2>1 DEF LoneInv
  <2>3. Active' = Active
    BY <1>3, SameTable
  <2> QED
    BY <2>1, <2>2, <2>3 DEF StageInv, Empty
<1>4. ASSUME NEW q \in Writers, WriteTmp(q) PROVE StageInv'
  <2>1. /\ pc[q] = "write" /\ pc'[q] = "rename"
        /\ \A r \in Writers : r # q => pc'[r] = pc[r]
        /\ UNCHANGED <<snap, file, lone>>
    BY <1>4 DEF WriteTmp, Go, TypeOK, order
  <2>2. \A r \in Writers : lone /\ pc'[r] # "idle" => r = q
    BY <2>1 DEF LoneInv
  <2>3. Active' = Active
    BY <1>4, SameTable
  <2>4. ASSUME lone PROVE tmp'.exists /\ tmp'.content = Says(Active) /\ snap[q] = Active
    <3>1. file[q] = "tmp" /\ tmp.exists /\ tmp.content = Empty /\ snap[q] = Active
      BY <2>1, <2>4 DEF StageInv
    <3>2. IsFiniteSet(Active)
      BY FS_Subset DEF TableInv, Installed, Active
    <3>3. ~Shorter(snap[q], {})
      <4>1. Cardinality(Active) \in Nat
        BY <3>2, FS_CardinalityType
      <4>2. Cardinality(Active) = 0 => Active = {}
        BY <3>2, FS_EmptySet
      <4> QED
        BY <3>1, <4>1, <4>2, FS_EmptySet DEF Shorter
    <3>4. Overwrite(Empty, q) \subseteq {Says(Active)}
      BY <3>1, <3>3 DEF Overwrite, Empty, Mangled
    <3>5. \E c \in Overwrite(Empty, q) : tmp' = [tmp EXCEPT !.content = c]
      BY <1>4, <3>1 DEF WriteTmp
    <3> QED
      BY <3>1, <3>4, <3>5 DEF TypeOK
  <2> QED
    BY <2>1, <2>2, <2>3, <2>4 DEF StageInv
<1>5. ASSUME NEW q \in Writers, Rename(q) PROVE StageInv'
  <2>1. /\ pc[q] = "rename" /\ pc'[q] \in {"idle", "error"}
        /\ pc'[q] = "error" => ~tmp.exists
        /\ \A r \in Writers : r # q => pc'[r] = pc[r]
        /\ lone' = lone /\ file'[q] = "none"
    BY <1>5 DEF Rename, Go, TypeOK, order
  <2>2. \A r \in Writers : lone /\ pc[r] # "idle" => r = q
    BY <2>1 DEF LoneInv
  <2>3. lone => tmp.exists
    BY <2>1 DEF StageInv
  <2>4. \A r \in Writers : file[r] = "none" => file'[r] = "none"
    BY <1>5 DEF Rename, Renamed, TypeOK
  <2>5. \A r \in Writers : ~(lone' /\ pc'[r] # "idle")
    BY <2>1, <2>2, <2>3
  <2> QED
    BY <2>1, <2>4, <2>5 DEF StageInv
<1>6. ASSUME NEW q \in Writers, Die(q) PROVE StageInv'
  BY <1>6 DEF Die, StageInv, TypeOK
<1>7. CASE Reads \/ UNCHANGED vars
  BY <1>7, ReadsOnly, SameTable DEF StageInv, files, order
<1> QED
  BY Steps, TableChanges, <1>1, <1>2, <1>3, <1>4, <1>5, <1>6, <1>7

\* What a rename by a writer that is alone leaves in the mirror.
LEMMA LoneRename ==
  ASSUME LoneInv, StageInv, NEW q \in Writers, Rename(q), sound'
  PROVE  mirror' = Says(Active)
<1>1. pc[q] = "rename"
  BY DEF Rename, Go
<1>2. sound => lone
  BY <1>1 DEF LoneInv, Busy
<1>3. sound' => sound \/ lone
  BY Zenon DEF Rename, order
<1>4. lone
  BY <1>2, <1>3
<1>5. tmp.exists /\ tmp.content = Says(Active)
  BY <1>1, <1>4 DEF StageInv, Busy
<1> QED
  BY <1>5 DEF Rename

\* In a sound registry the writer at work is alone, and the file it writes is
\* still the temporary one.
LEMMA SoundWrite ==
  ASSUME TypeOK, LoneInv, StageInv, NEW q \in Writers,
         ReadActive(q) \/ OpenTmp(q) \/ WriteTmp(q), sound'
  PROVE  sound /\ mirror' = mirror /\ announced' = announced /\ pc'[q] # "idle"
<1>1. sound /\ announced' = announced
  BY DEF ReadActive, OpenTmp, WriteTmp, order, registry
<1>2. pc'[q] # "idle"
  BY DEF ReadActive, OpenTmp, WriteTmp, Go, TypeOK
<1>3. ASSUME WriteTmp(q) PROVE mirror' = mirror
  <2>1. pc[q] = "write"
    BY <1>3 DEF WriteTmp, Go
  <2>2. file[q] = "tmp"
    BY <1>1, <2>1 DEF StageInv, LoneInv, Busy
  <2> QED
    BY <1>3, <2>2 DEF WriteTmp
<1>4. ASSUME ReadActive(q) \/ OpenTmp(q) PROVE mirror' = mirror
  BY <1>4 DEF ReadActive, OpenTmp, files
<1> QED
  BY <1>1, <1>2, <1>3, <1>4

LEMMA MirrorStep ==
  ASSUME TypeOK, TableInv, LoneInv, StageInv, InForceIsMirrored, [Next]_vars
  PROVE  InForceIsMirrored'
<1> USE DEF InForceIsMirrored, InForce, Readable
<1>1. ASSUME NEW q \in Writers, Changes(q) PROVE InForceIsMirrored'
  BY <1>1 DEF Changes, Begin, files
<1>2. ASSUME NEW q \in Writers, ReadActive(q) \/ OpenTmp(q) \/ WriteTmp(q)
      PROVE  InForceIsMirrored'
  BY <1>2, SoundWrite, SameTable
<1>3. ASSUME NEW q \in Writers, Rename(q) PROVE InForceIsMirrored'
  BY <1>3, LoneRename, SameTable DEF Says
<1>4. ASSUME NEW q \in Writers, Die(q) PROVE InForceIsMirrored'
  BY <1>4 DEF Die
<1>5. CASE Reads \/ UNCHANGED vars
  BY <1>5, ReadsOnly, SameTable DEF registry, files, order
<1> QED
  BY Steps, TableChanges, <1>1, <1>2, <1>3, <1>4, <1>5

LEMMA SettledStep ==
  ASSUME TypeOK, TableInv, LoneInv, StageInv, MirrorSettled, [Next]_vars
  PROVE  MirrorSettled'
<1> USE DEF MirrorSettled
<1>1. ASSUME NEW q \in Writers, Changes(q) PROVE MirrorSettled'
  BY <1>1 DEF Changes, Begin, Go, TypeOK
<1>2. ASSUME NEW q \in Writers, ReadActive(q) \/ OpenTmp(q) \/ WriteTmp(q)
      PROVE  MirrorSettled'
  BY <1>2, SoundWrite
<1>3. ASSUME NEW q \in Writers, Rename(q) PROVE MirrorSettled'
  BY <1>3, LoneRename, SameTable DEF Says
<1>4. ASSUME NEW q \in Writers, Die(q) PROVE MirrorSettled'
  BY <1>4 DEF Die
<1>5. CASE Reads \/ UNCHANGED vars
  BY <1>5, ReadsOnly, SameTable DEF files, order, Says
<1> QED
  BY Steps, TableChanges, <1>1, <1>2, <1>3, <1>4, <1>5

-----------------------------------------------------------------------------
(***************************************************************************)
(* The theorems.                                                           *)
(***************************************************************************)
LEMMA InitHolds == Init => IInv
<1> SUFFICES ASSUME Init PROVE IInv
  OBVIOUS
<1>1. Active = {} /\ Installed = {} /\ \A s \in Scopes : Epochs(s) = {}
  BY DEF Init, Active, Installed, Epochs
<1>2. TypeOK
  BY DEF Init, TypeOK, NoFile, Says, Content
<1>3. TableInv
  BY <1>1, FS_EmptySet DEF Init, TableInv
<1>4. LoneInv /\ StageInv
  BY DEF Init, LoneInv, StageInv, Busy
<1>5. OneActivePerScope /\ InForceIsMirrored /\ MirrorSettled
  BY <1>1 DEF Init, OneActivePerScope, InForceIsMirrored, MirrorSettled, InForce,
     Readable, NoFile, Says
<1> QED
  BY <1>2, <1>3, <1>4, <1>5 DEF IInv

\* The strengthened invariant holds in every reachable state.
THEOREM Inductive == Spec => []IInv
<1>1. IInv /\ [Next]_vars => IInv'
  BY TypeStep, TableStep, ScopeStep, LoneStep, StageStep, MirrorStep, SettledStep DEF IInv
<1> QED
  BY InitHolds, <1>1, PTL DEF Spec

\* Every variable keeps its type.
THEOREM TypeCorrect == Spec => []TypeOK
<1>1. IInv => TypeOK
  BY DEF IInv
<1> QED
  BY <1>1, Inductive, PTL

\* add_halt refuses a second halt at a scope, so lifting the one that is
\* there lifts every halt of the scope.
THEOREM OneActive == Spec => []OneActivePerScope
<1>1. IInv => OneActivePerScope
  BY DEF IInv
<1> QED
  BY <1>1, Inductive, PTL

\* However many writers there are, a tick that looks at the mirror while the
\* registry is sound finds every halt that was reported as installed.
THEOREM Mirrored == Spec => []InForceIsMirrored
<1>1. IInv => InForceIsMirrored
  BY DEF IInv
<1> QED
  BY <1>1, Inductive, PTL

\* In a sound registry the mirror lists exactly the active halts whenever no
\* writer is at work.
THEOREM Settled == Spec => []MirrorSettled
<1>1. IInv => MirrorSettled
  BY DEF IInv
<1> QED
  BY <1>1, Inductive, PTL

\* The halts table only grows, its rows only change from active to lifted,
\* and a new epoch is above all those of its scope.
THEOREM AppendOnly == Spec => HistoryIsAppendOnly
<1> DEFINE Step ==
      /\ \A r \in halts : \E n \in halts' : n.halt = r.halt /\ (n.active => r.active)
      /\ \A n \in halts' : (\A r \in halts : r.halt # n.halt) =>
           \A r \in halts : r.halt.scope = n.halt.scope => r.halt.epoch < n.halt.epoch
<1>1. IInv /\ [Next]_vars => [Step]_halts
  <2> SUFFICES ASSUME TypeOK, TableInv, [Next]_vars PROVE Step \/ halts' = halts
    BY DEF IInv
  <2>1. ASSUME NEW q \in Writers, NEW s \in Scopes, NEW timed \in BOOLEAN, AddHalt(q, s, timed)
        PROVE  Step
    <3>1. /\ halts' = halts \cup {[halt |-> NewHalt(s, timed), active |-> TRUE]}
          /\ \A r \in halts : r.halt.scope = s => r.halt.epoch < NewHalt(s, timed).epoch
      BY <2>1, Installs
    <3>2. NewHalt(s, timed).scope = s
      BY DEF NewHalt
    <3> QED
      BY <3>1, <3>2
  <2>2. ASSUME NEW q \in Writers, Lifts(q) PROVE Step
    BY <2>2, LiftsFrame, Clears
  <2> QED
    BY Steps, SameTable, <2>1, <2>2
<1> QED
  BY <1>1, Inductive, PTL DEF Spec, HistoryIsAppendOnly

-----------------------------------------------------------------------------
(***************************************************************************)
(* When the registry is always sound: one writer that does not die.        *)
(***************************************************************************)
OneWriter == ~Crashes /\ \A q, r \in Writers : q = r

HonestInv ==
  /\ IInv /\ sound
  /\ \A t \in Ticks : seen[t] = {}
  /\ TicksHonourHalts

LEMMA HonestStep == ASSUME OneWriter, HonestInv, [Next]_vars PROVE HonestInv'
<1> USE DEF HonestInv
<1>1. IInv'
  BY TypeStep, TableStep, ScopeStep, LoneStep, StageStep, MirrorStep, SettledStep DEF IInv
<1>2. sound'
  <2>1. ASSUME NEW q \in Writers, Begin(q) PROVE sound'
    BY <2>1 DEF Begin, OneWriter
  <2>2. ASSUME NEW q \in Writers, Die(q) PROVE sound'
    BY <2>2 DEF Die, OneWriter, IInv, StageInv, LoneInv, Busy
  <2>3. ASSUME NEW q \in Writers, ReadActive(q) \/ OpenTmp(q) \/ WriteTmp(q) \/ Rename(q)
        PROVE  sound'
    BY <2>3 DEF ReadActive, OpenTmp, WriteTmp, Rename, order
  <2>4. \A q \in Writers :
          Lifts(q) \/ (\E s \in Scopes, timed \in BOOLEAN : AddHalt(q, s, timed)) => Begin(q)
    BY TableChanges DEF Changes, IInv
  <2> QED
    BY Steps, ReadsOnly, <2>1, <2>2, <2>3, <2>4 DEF order
<1>3. (\A t \in Ticks : seen'[t] = {}) /\ TicksHonourHalts'
  <2>1. CASE UNCHANGED firing
    BY <2>1 DEF firing, TicksHonourHalts
  <2>2. ASSUME NEW t \in Ticks, TickStarts(t)
        PROVE  (\A u \in Ticks : seen'[u] = {}) /\ TicksHonourHalts'
    <3>1. InForce = {}
      BY <2>2 DEF TickStarts, IInv, InForceIsMirrored
    <3> QED
      BY <2>2, <3>1 DEF TickStarts, TicksHonourHalts, IInv, TypeOK
  <2>3. ASSUME NEW t \in Ticks, NEW i \in Instruments, TickFires(t, i)
        PROVE  (\A u \in Ticks : seen'[u] = {}) /\ TicksHonourHalts'
    BY <2>3 DEF TickFires, Covered, TicksHonourHalts
  <2>4. ASSUME NEW t \in Ticks, TickEnds(t)
        PROVE  (\A u \in Ticks : seen'[u] = {}) /\ TicksHonourHalts'
    BY <2>4 DEF TickEnds, TicksHonourHalts, IInv, TypeOK
  <2>5. ASSUME NEW i \in Instruments, ApprovalFires(i)
        PROVE  (\A u \in Ticks : seen'[u] = {}) /\ TicksHonourHalts'
    BY <2>5 DEF ApprovalFires, TicksHonourHalts
  <2>6. ASSUME NEW t \in Ticks, TickAborts(t) PROVE UNCHANGED firing
    BY <2>6 DEF TickAborts, vars
  <2>7. ASSUME NEW q \in Writers,
               ReadActive(q) \/ OpenTmp(q) \/ WriteTmp(q) \/ Rename(q) \/ Die(q) \/ Lifts(q)
               \/ \E s \in Scopes, timed \in BOOLEAN : AddHalt(q, s, timed)
        PROVE  UNCHANGED firing
    BY <2>7, LiftsFrame, AddFrame DEF ReadActive, OpenTmp, WriteTmp, Rename, Die
  <2>8. UNCHANGED vars => UNCHANGED firing
    BY DEF vars
  <2> QED
    BY Steps, <2>1, <2>2, <2>3, <2>4, <2>5, <2>6, <2>7, <2>8 DEF Reads
<1> QED
  BY <1>1, <1>2, <1>3

\* With a single writer that does not die, no tick ever fires under a halt
\* that was in force when the tick began.
THEOREM Honoured == ASSUME OneWriter PROVE Spec => []TicksHonourHalts
<1>1. Init => HonestInv
  BY InitHolds DEF Init, HonestInv, TicksHonourHalts
<1>2. HonestInv /\ [Next]_vars => HonestInv'
  BY HonestStep
<1>3. HonestInv => TicksHonourHalts
  BY DEF HonestInv
<1> QED
  BY <1>1, <1>2, <1>3, PTL DEF Spec
=============================================================================
