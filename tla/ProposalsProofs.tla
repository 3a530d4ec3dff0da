-------------------------- MODULE ProposalsProofs --------------------------
(***************************************************************************)
(* Proofs about Proposals, for every set of processes and of proposals.    *)
(*                                                                         *)
(* They hold when the index is never rebuilt, and when it is rebuilt with  *)
(* the other processes stopped from a file that holds whole lines only.    *)
(* The last section is about what the file says: that a proposal it calls  *)
(* closed stays so, and that the store implements ProposalLifecycle.       *)
(***************************************************************************)
EXTENDS Proposals, TLAPS

SafeConfig == \/ Reconcile = "never"
              \/ Reconcile = "offline" /\ ~TornWrites

Offline == Reconcile = "offline"

-----------------------------------------------------------------------------
(***************************************************************************)
(* The inductive invariant.                                                *)
(***************************************************************************)
CloseKinds == {"claim", "approve", "reject", "expire"}

\* Where each kind of operation can stand.
LabelsOf == [none |-> {"idle"}, create |-> {"log", "upsert"},
             claim |-> {"get", "read", "cas", "lost", "log", "fire"},
             approve |-> {"read", "cas", "lost", "log"},
             reject |-> {"read", "cas", "lost", "log"},
             expire |-> {"read", "cas", "log"},
             record |-> {"read", "log", "upsert"},
             release |-> {"read", "log", "upsert"},
             rebuild |-> {"rebuild"}]

\* The state of the record an operation is about to write.
Writes == [create |-> "pending", claim |-> "approved", approve |-> "approved",
           reject |-> "rejected", expire |-> "expired", record |-> "approved",
           release |-> "pending"]

ControlInv ==
  \A q \in Procs :
    /\ pc[q] \in LabelsOf[kind[q]]
    /\ pc[q] \notin {"idle", "rebuild"} => tgt[q] \in ProposalIds
    /\ pc[q] \in {"idle", "rebuild"} => tgt[q] = NoProposal

RowInv ==
  \A q \in Procs :
    /\ pc[q] \in {"cas", "log", "upsert"} => row[q].state = Writes[kind[q]]
    /\ row[q].execution => tgt[q] \in ProposalIds /\ fires[tgt[q]] = 1

\* q won the compare-and-set on p and has not finished with it.
Owns(q, p) ==
  /\ tgt[q] = p
  /\ \/ pc[q] = "log" /\ kind[q] \in CloseKinds
     \/ pc[q] = "fire"
     \/ kind[q] \in {"record", "release"}

OwnerInv ==
  \A q \in Procs, p \in ProposalIds : Owns(q, p) =>
    /\ index[p].state = IF kind[q] \in CloseKinds THEN Writes[kind[q]] ELSE "approved"
    /\ fires[p] = IF kind[q] = "record" THEN 1 ELSE 0
    /\ pc[q] = "fire" \/ kind[q] = "record" => (Offline => logged[p].state = "approved")
    /\ kind[q] = "release" /\ pc[q] = "upsert" => (Offline => logged[p].state = "pending")

SingleOwner ==
  \A q, r \in Procs, p \in ProposalIds : Owns(q, p) /\ Owns(r, p) => q = r

\* Identifiers are minted once.
CreateInv ==
  /\ \A q \in Procs : kind[q] = "create" => index[tgt[q]].state = "absent"
  /\ \A q, r \in Procs :
       kind[q] = "create" /\ kind[r] = "create" /\ tgt[q] = tgt[r] => q = r

FireInv ==
  \A p \in ProposalIds :
    /\ fires[p] \in {0, 1}
    /\ fires[p] = 1 => /\ index[p].state = "approved"
                       /\ Offline => logged[p].state = "approved"
    /\ index[p].execution => fires[p] = 1
    /\ Offline /\ logged[p].execution => fires[p] = 1

LogInv ==
  Offline =>
    /\ tail = "clean"
    /\ \A p \in ProposalIds :
         logged[p].state \in {"approved", "rejected", "expired"} =>
           index[p].state = logged[p].state

RebuildInv ==
  \A q \in Procs : pc[q] = "rebuild" =>
    Offline /\ snap = logged /\ \A r \in Procs \ {q} : pc[r] = "idle"

IInv == /\ TypeOK /\ ControlInv /\ RowInv /\ OwnerInv /\ SingleOwner
        /\ CreateInv /\ FireInv /\ LogInv /\ RebuildInv

\* q is about to fire: the claim on an unfilled proposal, in both stores unless
\* a crash may tear the file.
Ready(q) ==
  /\ tgt[q] \in ProposalIds /\ kind[q] = "claim" /\ fires[tgt[q]] = 0
  /\ index[tgt[q]].state = "approved"
  /\ Offline => logged[tgt[q]].state = "approved"

-----------------------------------------------------------------------------
USE ProposalsAssumption

\* Rows and their updates are rows.
LEMMA RowTypes == NoRow \in Row /\ PendingRow \in Row
  BY DEF NoRow, PendingRow, Row, States

\* Setting one field of a row leaves a row.
LEMMA RowUpdates ==
  ASSUME NEW r \in Row
  PROVE  /\ \A s \in States : [r EXCEPT !.state = s] \in Row
         /\ [r EXCEPT !.execution = TRUE] \in Row
  BY DEF Row

LEMMA StoreSteps ==
  ASSUME [Next]_vars
  PROVE  \/ UNCHANGED <<store, fires>>
         \/ \E q \in Procs :
              \/ CasFromPending(q) \/ AppendAudit(q) \/ Upsert(q)
              \/ FireFilled(q) \/ FireAmbiguous(q)
              \/ ReconcileWrite(q) \/ CrashMidAppend(q)
<1>1. CASE \E q \in Procs : Start(q)
  BY <1>1 DEF Start, Propose, QuantApprove, QuantReject, LegacyApprove, SweepExpired,
     world
<1>2. CASE \E q \in Procs : Read(q)
  BY <1>2 DEF Read, Get, ReadForClaim, ReadForClose, ReadForExpire, ReadForRecord,
              ReadForRelease, ReadAfterLoss, world
<1>3. CASE \E q \in Procs : ReconcileRead(q) \/ Crash(q)
  BY <1>3 DEF ReconcileRead, Crash, world
<1>4. CASE \E q \in Procs : Write(q) \/ Fire(q) \/ ReconcileWrite(q) \/ CrashMidAppend(q)
  BY <1>4 DEF Write, Fire, FireRefused, world
<1>5. CASE \E p \in ProposalIds : TtlElapses(p)
  BY <1>5 DEF TtlElapses
<1>6. CASE UNCHANGED vars
  BY <1>6 DEF vars, world
<1>7. QED
  BY <1>1, <1>2, <1>3, <1>4, <1>5, <1>6 DEF Next

\* What an operation is, from where it stands.
LEMMA ControlFacts ==
  ASSUME TypeOK, ControlInv, NEW q \in Procs
  PROVE  /\ pc[q] = "cas" => kind[q] \in CloseKinds
         /\ pc[q] = "log" => kind[q] \in CloseKinds \cup {"create", "record", "release"}
         /\ pc[q] = "upsert" => kind[q] \in {"create", "record", "release"}
         /\ pc[q] \notin {"idle", "rebuild"} => tgt[q] \in ProposalIds
  BY DEF TypeOK, ControlInv, LabelsOf, Kinds, CloseKinds

\* A caller about to fire holds a claim nobody has filled.
LEMMA FireFacts ==
  ASSUME IInv, NEW q \in Procs, pc[q] = "fire"
  PROVE  Ready(q)
<1>1. tgt[q] \in ProposalIds /\ kind[q] = "claim"
  BY DEF IInv, TypeOK, ControlInv, LabelsOf, Kinds
<1>2. Owns(q, tgt[q])
  BY <1>1 DEF Owns
<1>3. QED
  BY <1>1, <1>2 DEF IInv, OwnerInv, CloseKinds, Writes, Ready

\* Taking the row that was read on to the next label keeps the types.
LEMMA CarryTypes ==
  ASSUME TypeOK, NEW q \in Procs, NEW r \in Row, NEW label \in PCs,
         Carry(q, r, label), UNCHANGED <<store, world, snap>>
  PROVE  TypeOK'
<1>1. UNCHANGED <<index, logged, tail, due, fires, kind, tgt, after, snap>>
  BY DEF Carry, store, world
<1>2. pc' \in [Procs -> PCs]
  BY DEF Carry, TypeOK
<1>3. row' \in [Procs -> Row]
  BY DEF Carry, TypeOK
<1>4. QED
  BY ONLY TypeOK, <1>1, <1>2, <1>3 DEF TypeOK

\* Every step keeps the types; the control invariant says which proposal is written.
LEMMA TypeStep ==
  ASSUME TypeOK, ControlInv, [Next]_vars
  PROVE  TypeOK'
<1> USE RowTypes DEF TypeOK, PCs, Kinds, Tails, At, Move, Carry, Call, Return, store,
            world, local
<1>1. ASSUME NEW q \in Procs, NEW p \in ProposalIds, Propose(q, p) PROVE TypeOK'
      BY <1>1 DEF Propose, MayStart
<1>2. ASSUME NEW q \in Procs, NEW p \in ProposalIds, QuantApprove(q, p) PROVE TypeOK'
      BY <1>2 DEF QuantApprove, MayStart
<1>3. ASSUME NEW q \in Procs, NEW p \in ProposalIds, QuantReject(q, p) PROVE TypeOK'
      BY <1>3 DEF QuantReject, MayStart
<1>4. ASSUME NEW q \in Procs, NEW p \in ProposalIds, LegacyApprove(q, p) PROVE TypeOK'
      BY <1>4 DEF LegacyApprove, MayStart
<1>5. ASSUME NEW q \in Procs, NEW p \in ProposalIds, SweepExpired(q, p) PROVE TypeOK'
      BY <1>5 DEF SweepExpired, MayStart, Overdue
<1>6. ASSUME NEW q \in Procs, Get(q) PROVE TypeOK'
      BY <1>6 DEF Get, Overdue, CallExpire
<1>7. ASSUME NEW q \in Procs, ReadForClaim(q) PROVE TypeOK'
  <2>1. CASE index[tgt[q]].state = "absent"
        BY <1>7, <2>1 DEF ReadForClaim, Overdue, CallExpire
  <2>2. CASE Overdue(tgt[q])
        BY <1>7, <2>2 DEF ReadForClaim, Overdue, CallExpire
  <2>3. CASE index[tgt[q]].state # "absent" /\ ~Overdue(tgt[q])
    <3>1. index[tgt[q]] \in Row
          BY <1>7 DEF ControlInv, LabelsOf, ReadForClaim, Overdue, CallExpire
    <3>2. [index[tgt[q]] EXCEPT !.state = "approved"] \in Row
          BY ONLY <1>7, <3>1, RowUpdates DEF States, ReadForClaim, Overdue, CallExpire
    <3>3. QED
      <4>1. /\ Carry(q, [index[tgt[q]] EXCEPT !.state = "approved"], "cas")
            /\ UNCHANGED <<store, world, snap>> /\ "cas" \in PCs
            BY ONLY <1>7, <2>3 DEF ReadForClaim, PCs
      <4>2. QED
            BY ONLY TypeOK, <1>7, <3>2, <4>1, CarryTypes
  <2>c. \/ (index[tgt[q]].state = "absent")
        \/ (Overdue(tgt[q]))
        \/ (index[tgt[q]].state # "absent" /\ ~Overdue(tgt[q]))
        BY <1>7, ControlFacts DEF ReadForClaim, CloseKinds
  <2>q. QED
        BY ONLY <2>c, <2>1, <2>2, <2>3
<1>8. ASSUME NEW q \in Procs, ReadForClose(q) PROVE TypeOK'
  <2>1. CASE index[tgt[q]].state # "pending"
        BY <1>8, <2>1 DEF ReadForClose, Overdue, CallExpire, Closing
  <2>2. CASE index[tgt[q]].state = "pending" /\ tgt[q] \in due
        BY <1>8, <2>2 DEF ReadForClose, Overdue, CallExpire, Closing
  <2>3. CASE index[tgt[q]].state = "pending" /\ tgt[q] \notin due
    <3>1. index[tgt[q]] \in Row
          BY <1>8 DEF ControlInv, LabelsOf, ReadForClose, Overdue, CallExpire, Closing
    <3>2. Closing[kind[q]] \in States
          BY ONLY <1>8 DEF States, ReadForClose, Closing
    <3>3. [index[tgt[q]] EXCEPT !.state = Closing[kind[q]]] \in Row
          BY ONLY <3>1, <3>2, RowUpdates
    <3>4. QED
      <4>1. /\ Carry(q, [index[tgt[q]] EXCEPT !.state = Closing[kind[q]]], "cas")
            /\ UNCHANGED <<store, world, snap>> /\ "cas" \in PCs
            BY ONLY <1>8, <2>3 DEF ReadForClose, Overdue, PCs
      <4>2. QED
            BY ONLY TypeOK, <1>8, <3>3, <4>1, CarryTypes
  <2>c. \/ (index[tgt[q]].state # "pending")
        \/ (index[tgt[q]].state = "pending" /\ tgt[q] \in due)
        \/ (index[tgt[q]].state = "pending" /\ tgt[q] \notin due)
        BY <1>8, ControlFacts DEF ReadForClose, CloseKinds
  <2>q. QED
        BY ONLY <2>c, <2>1, <2>2, <2>3
<1>9. ASSUME NEW q \in Procs, ReadForExpire(q) PROVE TypeOK'
  <2>1. CASE index[tgt[q]].state # "pending" /\ after[q] = "return"
        BY <1>9, <2>1 DEF ReadForExpire, ExpireNothing
  <2>2. CASE index[tgt[q]].state # "pending" /\ after[q] = "claim"
        BY <1>9, <2>2 DEF ReadForExpire, ExpireNothing
  <2>3. CASE index[tgt[q]].state = "pending"
    <3>1. index[tgt[q]] \in Row
          BY <1>9 DEF ControlInv, LabelsOf, ReadForExpire, ExpireNothing
    <3>2. [index[tgt[q]] EXCEPT !.state = "expired"] \in Row
          BY ONLY <1>9, <3>1, RowUpdates DEF States, ReadForExpire, ExpireNothing
    <3>3. QED
      <4>1. /\ Carry(q, [index[tgt[q]] EXCEPT !.state = "expired"], "cas")
            /\ UNCHANGED <<store, world, snap>> /\ "cas" \in PCs
            BY ONLY <1>9, <2>3 DEF ReadForExpire, PCs
      <4>2. QED
            BY ONLY TypeOK, <1>9, <3>2, <4>1, CarryTypes
  <2>c. \/ (index[tgt[q]].state # "pending" /\ after[q] = "return")
        \/ (index[tgt[q]].state # "pending" /\ after[q] = "claim")
        \/ (index[tgt[q]].state = "pending")
        BY <1>9, ControlFacts DEF ReadForExpire, CloseKinds
  <2>q. QED
        BY ONLY <2>c, <2>1, <2>2, <2>3
<1>10. ASSUME NEW q \in Procs, ReadForRecord(q) PROVE TypeOK'
  <2>1. CASE index[tgt[q]].state = "absent"
        BY <1>10, <2>1 DEF ReadForRecord
  <2>2. CASE index[tgt[q]].state # "absent"
    <3>1. index[tgt[q]] \in Row
          BY <1>10 DEF ControlInv, LabelsOf, ReadForRecord
    <3>2. [index[tgt[q]] EXCEPT !.execution = TRUE] \in Row
          BY ONLY <1>10, <3>1, RowUpdates DEF States, ReadForRecord
    <3>3. QED
      <4>1. /\ Carry(q, [index[tgt[q]] EXCEPT !.execution = TRUE], "log")
            /\ UNCHANGED <<store, world, snap>> /\ "log" \in PCs
            BY ONLY <1>10, <2>2 DEF ReadForRecord, PCs
      <4>2. QED
            BY ONLY TypeOK, <1>10, <3>2, <4>1, CarryTypes
  <2>c. \/ (index[tgt[q]].state = "absent") \/ (index[tgt[q]].state # "absent")
        BY <1>10, ControlFacts DEF ReadForRecord, CloseKinds
  <2>q. QED
        BY ONLY <2>c, <2>1, <2>2
<1>11. ASSUME NEW q \in Procs, ReadForRelease(q) PROVE TypeOK'
      BY <1>11 DEF ReadForRelease
<1>12. ASSUME NEW q \in Procs, ReadAfterLoss(q) PROVE TypeOK'
      BY <1>12 DEF ReadAfterLoss, Overdue, CallExpire
<1>13. ASSUME NEW q \in Procs, CasFromPending(q) PROVE TypeOK'
      BY <1>13 DEF CasFromPending, ExpireNothing
<1>14. ASSUME NEW q \in Procs, AppendAudit(q) PROVE TypeOK'
  <2>0. tgt[q] \in ProposalIds
        BY SMTT(30), <1>14 DEF ControlInv, LabelsOf, AppendAudit
  <2>1. CASE kind[q] = "claim"
        BY SMTT(30), <1>14, <2>1, <2>0 DEF AppendAudit, Append
  <2>2. CASE kind[q] \in {"create", "record", "release"}
        BY SMTT(30), <1>14, <2>2, <2>0 DEF AppendAudit, Append
  <2>3. CASE kind[q] \in {"approve", "reject", "expire"}
        BY SMTT(30), <1>14, <2>3, <2>0 DEF AppendAudit, Append
  <2>c. \/ (kind[q] = "claim")
        \/ (kind[q] \in {"create", "record", "release"})
        \/ (kind[q] \in {"approve", "reject", "expire"})
        BY <1>14, <2>0, ControlFacts DEF AppendAudit, CloseKinds
  <2>q. QED
        BY ONLY <2>c, <2>1, <2>2, <2>3
<1>15. ASSUME NEW q \in Procs, Upsert(q) PROVE TypeOK'
  <2>0. tgt[q] \in ProposalIds /\ row[q] \in Row
        BY <1>15, ControlFacts DEF Upsert
  <2>q. QED
        BY <1>15, <2>0 DEF Upsert
<1>16. ASSUME NEW q \in Procs, FireFilled(q) PROVE TypeOK'
  <2>0. tgt[q] \in ProposalIds /\ fires[tgt[q]] + 1 \in Nat
        BY <1>16 DEF ControlInv, LabelsOf, FireFilled
  <2>q. QED
        BY <1>16, <2>0 DEF FireFilled
<1>17. ASSUME NEW q \in Procs, FireRefused(q) PROVE TypeOK'
      BY <1>17 DEF FireRefused
<1>18. ASSUME NEW q \in Procs, FireAmbiguous(q) PROVE TypeOK'
  <2>0. tgt[q] \in ProposalIds /\ fires[tgt[q]] + 1 \in Nat
        BY <1>18 DEF ControlInv, LabelsOf, FireAmbiguous
  <2>1. CASE fires' = fires
        BY <1>18, <2>1, <2>0 DEF FireAmbiguous
  <2>2. CASE fires' = [fires EXCEPT ![tgt[q]] = @ + 1]
        BY <1>18, <2>2, <2>0 DEF FireAmbiguous
  <2>c. \/ (fires' = fires) \/ (fires' = [fires EXCEPT ![tgt[q]] = @ + 1])
        BY <1>18, <2>0, ControlFacts DEF FireAmbiguous, CloseKinds
  <2>q. QED
        BY ONLY <2>c, <2>1, <2>2
<1>19. ASSUME NEW q \in Procs, ReconcileRead(q) PROVE TypeOK'
      BY <1>19 DEF ReconcileRead, MayStart
<1>20. ASSUME NEW q \in Procs, ReconcileWrite(q) PROVE TypeOK'
      BY <1>20 DEF ReconcileWrite
<1>21. ASSUME NEW q \in Procs, Crash(q) PROVE TypeOK'
      BY <1>21 DEF Crash
<1>22. ASSUME NEW q \in Procs, CrashMidAppend(q) PROVE TypeOK'
      BY <1>22 DEF CrashMidAppend
<1>23. ASSUME NEW p \in ProposalIds, TtlElapses(p) PROVE TypeOK'
      BY <1>23 DEF TtlElapses
<1>24. CASE UNCHANGED vars
      BY <1>24 DEF vars
<1>q. QED
      BY ONLY [Next]_vars, <1>1, <1>2, <1>3, <1>4, <1>5, <1>6, <1>7, <1>8, <1>9, <1>10,
         <1>11, <1>12, <1>13, <1>14, <1>15, <1>16, <1>17, <1>18, <1>19, <1>20, <1>21,
         <1>22, <1>23, <1>24 DEF Next, Start, Read, Write, Fire

\* Every operation stands where its code can be, on a proposal unless idle.
LEMMA ControlStep ==
  ASSUME TypeOK, ControlInv, [Next]_vars
  PROVE  ControlInv'
<1> USE DEF TypeOK, ControlInv, PCs, Kinds, LabelsOf, At, Move, Carry, Call, Return,
            store, world, local
<1>1. ASSUME NEW q \in Procs, NEW p \in ProposalIds, Propose(q, p) PROVE ControlInv'
      BY <1>1 DEF Propose, MayStart
<1>2. ASSUME NEW q \in Procs, NEW p \in ProposalIds, QuantApprove(q, p) PROVE ControlInv'
      BY <1>2 DEF QuantApprove, MayStart
<1>3. ASSUME NEW q \in Procs, NEW p \in ProposalIds, QuantReject(q, p) PROVE ControlInv'
      BY <1>3 DEF QuantReject, MayStart
<1>4. ASSUME NEW q \in Procs, NEW p \in ProposalIds, LegacyApprove(q, p) PROVE ControlInv'
      BY <1>4 DEF LegacyApprove, MayStart
<1>5. ASSUME NEW q \in Procs, NEW p \in ProposalIds, SweepExpired(q, p) PROVE ControlInv'
      BY <1>5 DEF SweepExpired, MayStart, Overdue
<1>6. ASSUME NEW q \in Procs, Get(q) PROVE ControlInv'
      BY <1>6 DEF Get, Overdue, CallExpire
<1>7. ASSUME NEW q \in Procs, ReadForClaim(q) PROVE ControlInv'
      BY <1>7 DEF ReadForClaim, Overdue, CallExpire
<1>8. ASSUME NEW q \in Procs, ReadForClose(q) PROVE ControlInv'
      BY <1>8 DEF ReadForClose, Overdue, CallExpire, Closing
<1>9. ASSUME NEW q \in Procs, ReadForExpire(q) PROVE ControlInv'
      BY <1>9 DEF ReadForExpire, ExpireNothing
<1>10. ASSUME NEW q \in Procs, ReadForRecord(q) PROVE ControlInv'
      BY <1>10 DEF ReadForRecord
<1>11. ASSUME NEW q \in Procs, ReadForRelease(q) PROVE ControlInv'
      BY <1>11 DEF ReadForRelease
<1>12. ASSUME NEW q \in Procs, ReadAfterLoss(q) PROVE ControlInv'
      BY <1>12 DEF ReadAfterLoss, Overdue, CallExpire
<1>13. ASSUME NEW q \in Procs, CasFromPending(q) PROVE ControlInv'
      BY <1>13 DEF CasFromPending, ExpireNothing
<1>14. ASSUME NEW q \in Procs, AppendAudit(q) PROVE ControlInv'
      BY <1>14 DEF AppendAudit, Append
<1>15. ASSUME NEW q \in Procs, Upsert(q) PROVE ControlInv'
      BY <1>15 DEF Upsert
<1>16. ASSUME NEW q \in Procs, FireFilled(q) PROVE ControlInv'
      BY <1>16 DEF FireFilled
<1>17. ASSUME NEW q \in Procs, FireRefused(q) PROVE ControlInv'
      BY <1>17 DEF FireRefused
<1>18. ASSUME NEW q \in Procs, FireAmbiguous(q) PROVE ControlInv'
      BY <1>18 DEF FireAmbiguous
<1>19. ASSUME NEW q \in Procs, ReconcileRead(q) PROVE ControlInv'
      BY <1>19 DEF ReconcileRead, MayStart
<1>20. ASSUME NEW q \in Procs, ReconcileWrite(q) PROVE ControlInv'
      BY <1>20 DEF ReconcileWrite
<1>21. ASSUME NEW q \in Procs, Crash(q) PROVE ControlInv'
      BY <1>21 DEF Crash
<1>22. ASSUME NEW q \in Procs, CrashMidAppend(q) PROVE ControlInv'
      BY <1>22 DEF CrashMidAppend
<1>23. ASSUME NEW p \in ProposalIds, TtlElapses(p) PROVE ControlInv'
      BY <1>23 DEF TtlElapses
<1>24. CASE UNCHANGED vars
      BY <1>24 DEF vars
<1>q. QED
      BY ONLY [Next]_vars, <1>1, <1>2, <1>3, <1>4, <1>5, <1>6, <1>7, <1>8, <1>9, <1>10,
         <1>11, <1>12, <1>13, <1>14, <1>15, <1>16, <1>17, <1>18, <1>19, <1>20, <1>21,
         <1>22, <1>23, <1>24 DEF Next, Start, Read, Write, Fire

\* What an operation carries is what its kind writes, and an execution only
\* for a proposal that was filled.
LEMMA RowStep ==
  ASSUME IInv, SafeConfig, [Next]_vars
  PROVE  RowInv'
<1> USE DEF IInv, TypeOK, RowInv, NoRow, PendingRow, Writes, At, Move, Carry, Call,
            Return, store, world, local
<1>1. ASSUME NEW q \in Procs, NEW p \in ProposalIds, Propose(q, p) PROVE RowInv'
      BY <1>1 DEF Propose, MayStart
<1>2. ASSUME NEW q \in Procs, NEW p \in ProposalIds, QuantApprove(q, p) PROVE RowInv'
      BY <1>2 DEF QuantApprove, MayStart
<1>3. ASSUME NEW q \in Procs, NEW p \in ProposalIds, QuantReject(q, p) PROVE RowInv'
      BY <1>3 DEF QuantReject, MayStart
<1>4. ASSUME NEW q \in Procs, NEW p \in ProposalIds, LegacyApprove(q, p) PROVE RowInv'
      BY <1>4 DEF LegacyApprove, MayStart
<1>5. ASSUME NEW q \in Procs, NEW p \in ProposalIds, SweepExpired(q, p) PROVE RowInv'
      BY <1>5 DEF SweepExpired, MayStart, Overdue
<1>6. ASSUME NEW q \in Procs, Get(q) PROVE RowInv'
      BY <1>6 DEF Get, Overdue, CallExpire
<1>7. ASSUME NEW q \in Procs, ReadForClaim(q) PROVE RowInv'
  <2>0. tgt[q] \in ProposalIds /\ index[tgt[q]] \in Row /\ (index[tgt[q]].execution => fires[tgt[q]] = 1)
        BY <1>7, ControlFacts DEF ReadForClaim, FireInv
  <2>1. CASE index[tgt[q]].state = "absent"
        BY <1>7, <2>1, <2>0 DEF ReadForClaim, Overdue, CallExpire
  <2>2. CASE Overdue(tgt[q])
        BY <1>7, <2>2, <2>0 DEF ReadForClaim, Overdue, CallExpire
  <2>3. CASE index[tgt[q]].state # "absent" /\ ~Overdue(tgt[q])
    <3> DEFINE r == [index[tgt[q]] EXCEPT !.state = "approved"]
    <3>1. r.state = Writes[kind[q]] /\ r.execution = index[tgt[q]].execution
          BY ONLY <1>7, <2>0 DEF Row, Writes, ReadForClaim
    <3>2. /\ pc' = [pc EXCEPT ![q] = "cas"] /\ row' = [row EXCEPT ![q] = r]
          /\ UNCHANGED <<kind, tgt, fires>>
          BY <1>7, <2>3 DEF ReadForClaim, Overdue, CallExpire
    <3> HIDE DEF r
    <3>3. QED
          BY <2>0, <3>1, <3>2
  <2>c. \/ (index[tgt[q]].state = "absent")
        \/ (Overdue(tgt[q]))
        \/ (index[tgt[q]].state # "absent" /\ ~Overdue(tgt[q]))
        BY <1>7, <2>0, ControlFacts DEF ReadForClaim, CloseKinds
  <2>q. QED
        BY ONLY <2>c, <2>1, <2>2, <2>3
<1>8. ASSUME NEW q \in Procs, ReadForClose(q) PROVE RowInv'
  <2>0. tgt[q] \in ProposalIds /\ index[tgt[q]] \in Row /\ (index[tgt[q]].execution => fires[tgt[q]] = 1)
        BY <1>8, ControlFacts DEF ReadForClose, FireInv
  <2>1. CASE index[tgt[q]].state # "pending"
        BY <1>8, <2>1, <2>0 DEF ReadForClose, Overdue, CallExpire, Closing
  <2>2. CASE index[tgt[q]].state = "pending" /\ tgt[q] \in due
        BY <1>8, <2>2, <2>0 DEF ReadForClose, Overdue, CallExpire, Closing
  <2>3. CASE index[tgt[q]].state = "pending" /\ tgt[q] \notin due
    <3> DEFINE r == [index[tgt[q]] EXCEPT !.state = Closing[kind[q]]]
    <3>1. r.state = Writes[kind[q]] /\ r.execution = index[tgt[q]].execution
          BY ONLY <1>8, <2>0 DEF Row, Writes, ReadForClose, Closing
    <3>2. /\ pc' = [pc EXCEPT ![q] = "cas"] /\ row' = [row EXCEPT ![q] = r]
          /\ UNCHANGED <<kind, tgt, fires>>
          BY <1>8, <2>3 DEF ReadForClose, Overdue, CallExpire, Closing
    <3> HIDE DEF r
    <3>3. QED
          BY <2>0, <3>1, <3>2
  <2>c. \/ (index[tgt[q]].state # "pending")
        \/ (index[tgt[q]].state = "pending" /\ tgt[q] \in due)
        \/ (index[tgt[q]].state = "pending" /\ tgt[q] \notin due)
        BY <1>8, <2>0, ControlFacts DEF ReadForClose, CloseKinds
  <2>q. QED
        BY ONLY <2>c, <2>1, <2>2, <2>3
<1>9. ASSUME NEW q \in Procs, ReadForExpire(q) PROVE RowInv'
  <2>0. tgt[q] \in ProposalIds /\ index[tgt[q]] \in Row /\ (index[tgt[q]].execution => fires[tgt[q]] = 1)
        BY <1>9, ControlFacts DEF ReadForExpire, FireInv
  <2>1. CASE index[tgt[q]].state # "pending" /\ after[q] = "return"
        BY <1>9, <2>1, <2>0 DEF ReadForExpire, ExpireNothing
  <2>2. CASE index[tgt[q]].state # "pending" /\ after[q] = "claim"
        BY <1>9, <2>2, <2>0 DEF ReadForExpire, ExpireNothing
  <2>3. CASE index[tgt[q]].state = "pending"
    <3> DEFINE r == [index[tgt[q]] EXCEPT !.state = "expired"]
    <3>1. r.state = Writes[kind[q]] /\ r.execution = index[tgt[q]].execution
          BY ONLY <1>9, <2>0 DEF Row, Writes, ReadForExpire
    <3>2. /\ pc' = [pc EXCEPT ![q] = "cas"] /\ row' = [row EXCEPT ![q] = r]
          /\ UNCHANGED <<kind, tgt, fires>>
          BY <1>9, <2>3 DEF ReadForExpire, ExpireNothing
    <3> HIDE DEF r
    <3>3. QED
          BY <2>0, <3>1, <3>2
  <2>c. \/ (index[tgt[q]].state # "pending" /\ after[q] = "return")
        \/ (index[tgt[q]].state # "pending" /\ after[q] = "claim")
        \/ (index[tgt[q]].state = "pending")
        BY <1>9, <2>0, ControlFacts DEF ReadForExpire, CloseKinds
  <2>q. QED
        BY ONLY <2>c, <2>1, <2>2, <2>3
<1>10. ASSUME NEW q \in Procs, ReadForRecord(q) PROVE RowInv'
  <2>0. tgt[q] \in ProposalIds /\ index[tgt[q]] \in Row /\ index[tgt[q]].state = "approved" /\ fires[tgt[q]] = 1
        BY <1>10, ControlFacts DEF ReadForRecord, OwnerInv, Owns, CloseKinds
  <2>1. CASE index[tgt[q]].state = "absent"
        BY <1>10, <2>1, <2>0 DEF ReadForRecord
  <2>2. CASE index[tgt[q]].state # "absent"
    <3> DEFINE r == [index[tgt[q]] EXCEPT !.execution = TRUE]
    <3>1. r.state = Writes[kind[q]] /\ r.execution
          BY ONLY <1>10, <2>0 DEF Row, Writes, ReadForRecord
    <3>2. /\ pc' = [pc EXCEPT ![q] = "log"] /\ row' = [row EXCEPT ![q] = r]
          /\ UNCHANGED <<kind, tgt, fires>>
          BY <1>10, <2>2 DEF ReadForRecord
    <3> HIDE DEF r
    <3>3. QED
          BY <2>0, <3>1, <3>2
  <2>c. \/ (index[tgt[q]].state = "absent") \/ (index[tgt[q]].state # "absent")
        BY <1>10, <2>0, ControlFacts DEF ReadForRecord, CloseKinds
  <2>q. QED
        BY ONLY <2>c, <2>1, <2>2
<1>11. ASSUME NEW q \in Procs, ReadForRelease(q) PROVE RowInv'
      BY <1>11 DEF ReadForRelease
<1>12. ASSUME NEW q \in Procs, ReadAfterLoss(q) PROVE RowInv'
      BY <1>12 DEF ReadAfterLoss, Overdue, CallExpire
<1>13. ASSUME NEW q \in Procs, CasFromPending(q) PROVE RowInv'
  <2>0. kind[q] \in CloseKinds
        BY <1>13, ControlFacts DEF CasFromPending
  <2>1. CASE index[tgt[q]].state = "pending"
        BY <1>13, <2>1, <2>0 DEF CasFromPending, ExpireNothing, CloseKinds
  <2>2. CASE index[tgt[q]].state # "pending" /\ kind[q] # "expire"
        BY <1>13, <2>2, <2>0 DEF CasFromPending, ExpireNothing, CloseKinds
  <2>3. CASE index[tgt[q]].state # "pending" /\ kind[q] = "expire"
        BY <1>13, <2>3, <2>0 DEF CasFromPending, ExpireNothing, CloseKinds
  <2>c. \/ (index[tgt[q]].state = "pending")
        \/ (index[tgt[q]].state # "pending" /\ kind[q] # "expire")
        \/ (index[tgt[q]].state # "pending" /\ kind[q] = "expire")
        BY <1>13, <2>0, ControlFacts DEF CasFromPending, CloseKinds
  <2>q. QED
        BY ONLY <2>c, <2>1, <2>2, <2>3
<1>14. ASSUME NEW q \in Procs, AppendAudit(q) PROVE RowInv'
      BY SMTT(30), <1>14 DEF AppendAudit, Append, ControlInv, LabelsOf, Kinds
<1>15. ASSUME NEW q \in Procs, Upsert(q) PROVE RowInv'
      BY <1>15 DEF Upsert
<1>16. ASSUME NEW q \in Procs, FireFilled(q) PROVE RowInv'
  <2>0. Ready(q)
        BY <1>16, FireFacts DEF FireFilled
  <2>q. QED
        BY <1>16, <2>0 DEF FireFilled, Ready
<1>17. ASSUME NEW q \in Procs, FireRefused(q) PROVE RowInv'
      BY <1>17 DEF FireRefused
<1>18. ASSUME NEW q \in Procs, FireAmbiguous(q) PROVE RowInv'
  <2>0. Ready(q)
        BY <1>18, FireFacts DEF FireAmbiguous
  <2>1. CASE fires' = fires
        BY <1>18, <2>1, <2>0 DEF FireAmbiguous, Ready
  <2>2. CASE fires' = [fires EXCEPT ![tgt[q]] = @ + 1]
        BY <1>18, <2>2, <2>0 DEF FireAmbiguous, Ready
  <2>c. \/ (fires' = fires) \/ (fires' = [fires EXCEPT ![tgt[q]] = @ + 1])
        BY <1>18, <2>0, ControlFacts DEF FireAmbiguous, CloseKinds
  <2>q. QED
        BY ONLY <2>c, <2>1, <2>2
<1>19. ASSUME NEW q \in Procs, ReconcileRead(q) PROVE RowInv'
      BY <1>19 DEF ReconcileRead, MayStart
<1>20. ASSUME NEW q \in Procs, ReconcileWrite(q) PROVE RowInv'
      BY <1>20 DEF ReconcileWrite
<1>21. ASSUME NEW q \in Procs, Crash(q) PROVE RowInv'
      BY <1>21 DEF Crash
<1>22. ASSUME NEW q \in Procs, CrashMidAppend(q) PROVE RowInv'
      BY <1>22 DEF CrashMidAppend
<1>23. ASSUME NEW p \in ProposalIds, TtlElapses(p) PROVE RowInv'
      BY <1>23 DEF TtlElapses
<1>24. CASE UNCHANGED vars
      BY <1>24 DEF vars
<1>q. QED
      BY ONLY [Next]_vars, <1>1, <1>2, <1>3, <1>4, <1>5, <1>6, <1>7, <1>8, <1>9, <1>10,
         <1>11, <1>12, <1>13, <1>14, <1>15, <1>16, <1>17, <1>18, <1>19, <1>20, <1>21,
         <1>22, <1>23, <1>24 DEF Next, Start, Read, Write, Fire

\* The compare-and-set makes one owner, and only an owner hands over to itself.
LEMMA SingleStep ==
  ASSUME IInv, SafeConfig, [Next]_vars
  PROVE  SingleOwner'
<1> USE DEF IInv, TypeOK, SingleOwner, Owns, CloseKinds, At, Move, Carry, Call, Return,
            store, world, local
<1>1. ASSUME NEW q \in Procs, NEW p \in ProposalIds, Propose(q, p) PROVE SingleOwner'
      BY <1>1 DEF Propose, MayStart, ControlInv, LabelsOf, Kinds
<1>2. ASSUME NEW q \in Procs, NEW p \in ProposalIds, QuantApprove(q, p) PROVE SingleOwner'
      BY <1>2 DEF QuantApprove, MayStart
<1>3. ASSUME NEW q \in Procs, NEW p \in ProposalIds, QuantReject(q, p) PROVE SingleOwner'
      BY <1>3 DEF QuantReject, MayStart
<1>4. ASSUME NEW q \in Procs, NEW p \in ProposalIds, LegacyApprove(q, p) PROVE SingleOwner'
      BY <1>4 DEF LegacyApprove, MayStart
<1>5. ASSUME NEW q \in Procs, NEW p \in ProposalIds, SweepExpired(q, p) PROVE SingleOwner'
      BY <1>5 DEF SweepExpired, MayStart, Overdue
<1>6. ASSUME NEW q \in Procs, Get(q) PROVE SingleOwner'
      BY <1>6 DEF Get, Overdue, CallExpire
<1>7. ASSUME NEW q \in Procs, ReadForClaim(q) PROVE SingleOwner'
      BY <1>7 DEF ReadForClaim, Overdue, CallExpire
<1>8. ASSUME NEW q \in Procs, ReadForClose(q) PROVE SingleOwner'
      BY <1>8 DEF ReadForClose, Overdue, CallExpire, Closing
<1>9. ASSUME NEW q \in Procs, ReadForExpire(q) PROVE SingleOwner'
      BY <1>9 DEF ReadForExpire, ExpireNothing
<1>10. ASSUME NEW q \in Procs, ReadForRecord(q) PROVE SingleOwner'
      BY <1>10 DEF ReadForRecord, ControlInv, LabelsOf, Kinds
<1>11. ASSUME NEW q \in Procs, ReadForRelease(q) PROVE SingleOwner'
      BY <1>11 DEF ReadForRelease, ControlInv, LabelsOf, Kinds
<1>12. ASSUME NEW q \in Procs, ReadAfterLoss(q) PROVE SingleOwner'
      BY <1>12 DEF ReadAfterLoss, Overdue, CallExpire
<1>13. ASSUME NEW q \in Procs, CasFromPending(q) PROVE SingleOwner'
  <2>1. CASE index[tgt[q]].state = "pending" /\ tgt[q] \in ProposalIds
        BY <1>13, <2>1 DEF CasFromPending, ExpireNothing, OwnerInv, Writes
  <2>2. CASE index[tgt[q]].state # "pending" /\ kind[q] # "expire"
        BY <1>13, <2>2 DEF CasFromPending, ExpireNothing, OwnerInv, Writes
  <2>3. CASE index[tgt[q]].state # "pending" /\ kind[q] = "expire"
        BY <1>13, <2>3 DEF CasFromPending, ExpireNothing, OwnerInv, Writes
  <2>c. \/ (index[tgt[q]].state = "pending" /\ tgt[q] \in ProposalIds)
        \/ (index[tgt[q]].state # "pending" /\ kind[q] # "expire")
        \/ (index[tgt[q]].state # "pending" /\ kind[q] = "expire")
        BY <1>13, ControlFacts DEF CasFromPending, CloseKinds
  <2>q. QED
        BY ONLY <2>c, <2>1, <2>2, <2>3
<1>14. ASSUME NEW q \in Procs, AppendAudit(q) PROVE SingleOwner'
      BY <1>14 DEF AppendAudit, Append, ControlInv, LabelsOf, Kinds
<1>15. ASSUME NEW q \in Procs, Upsert(q) PROVE SingleOwner'
      BY <1>15 DEF Upsert
<1>16. ASSUME NEW q \in Procs, FireFilled(q) PROVE SingleOwner'
      BY <1>16 DEF FireFilled, ControlInv, LabelsOf, Kinds
<1>17. ASSUME NEW q \in Procs, FireRefused(q) PROVE SingleOwner'
      BY <1>17 DEF FireRefused, ControlInv, LabelsOf, Kinds
<1>18. ASSUME NEW q \in Procs, FireAmbiguous(q) PROVE SingleOwner'
      BY <1>18 DEF FireAmbiguous, ControlInv, LabelsOf, Kinds
<1>19. ASSUME NEW q \in Procs, ReconcileRead(q) PROVE SingleOwner'
      BY <1>19 DEF ReconcileRead, MayStart
<1>20. ASSUME NEW q \in Procs, ReconcileWrite(q) PROVE SingleOwner'
      BY <1>20 DEF ReconcileWrite
<1>21. ASSUME NEW q \in Procs, Crash(q) PROVE SingleOwner'
      BY <1>21 DEF Crash
<1>22. ASSUME NEW q \in Procs, CrashMidAppend(q) PROVE SingleOwner'
      BY <1>22 DEF CrashMidAppend
<1>23. ASSUME NEW p \in ProposalIds, TtlElapses(p) PROVE SingleOwner'
      BY <1>23 DEF TtlElapses
<1>24. CASE UNCHANGED vars
      BY <1>24 DEF vars
<1>q. QED
      BY ONLY [Next]_vars, <1>1, <1>2, <1>3, <1>4, <1>5, <1>6, <1>7, <1>8, <1>9, <1>10,
         <1>11, <1>12, <1>13, <1>14, <1>15, <1>16, <1>17, <1>18, <1>19, <1>20, <1>21,
         <1>22, <1>23, <1>24 DEF Next, Start, Read, Write, Fire

\* While a claim is owned, nobody else moves its row, its event or its fills.
LEMMA OwnerStep ==
  ASSUME IInv, SafeConfig, [Next]_vars
  PROVE  OwnerInv'
<1> USE DEF IInv, TypeOK, OwnerInv, Owns, CloseKinds, At, Move, Carry, Call, Return,
            store, world, local
<1>1. ASSUME NEW q \in Procs, NEW p \in ProposalIds, Propose(q, p) PROVE OwnerInv'
      BY <1>1 DEF Propose, MayStart, ControlInv, LabelsOf, Kinds
<1>2. ASSUME NEW q \in Procs, NEW p \in ProposalIds, QuantApprove(q, p) PROVE OwnerInv'
      BY <1>2 DEF QuantApprove, MayStart
<1>3. ASSUME NEW q \in Procs, NEW p \in ProposalIds, QuantReject(q, p) PROVE OwnerInv'
      BY <1>3 DEF QuantReject, MayStart
<1>4. ASSUME NEW q \in Procs, NEW p \in ProposalIds, LegacyApprove(q, p) PROVE OwnerInv'
      BY <1>4 DEF LegacyApprove, MayStart
<1>5. ASSUME NEW q \in Procs, NEW p \in ProposalIds, SweepExpired(q, p) PROVE OwnerInv'
      BY <1>5 DEF SweepExpired, MayStart, Overdue
<1>6. ASSUME NEW q \in Procs, Get(q) PROVE OwnerInv'
      BY <1>6 DEF Get, Overdue, CallExpire
<1>7. ASSUME NEW q \in Procs, ReadForClaim(q) PROVE OwnerInv'
      BY <1>7 DEF ReadForClaim, Overdue, CallExpire
<1>8. ASSUME NEW q \in Procs, ReadForClose(q) PROVE OwnerInv'
      BY <1>8 DEF ReadForClose, Overdue, CallExpire, Closing
<1>9. ASSUME NEW q \in Procs, ReadForExpire(q) PROVE OwnerInv'
      BY <1>9 DEF ReadForExpire, ExpireNothing
<1>10. ASSUME NEW q \in Procs, ReadForRecord(q) PROVE OwnerInv'
      BY <1>10 DEF ReadForRecord, ControlInv, LabelsOf, Kinds
<1>11. ASSUME NEW q \in Procs, ReadForRelease(q) PROVE OwnerInv'
      BY <1>11 DEF ReadForRelease, ControlInv, LabelsOf, Kinds
<1>12. ASSUME NEW q \in Procs, ReadAfterLoss(q) PROVE OwnerInv'
      BY <1>12 DEF ReadAfterLoss, Overdue, CallExpire
<1>13. ASSUME NEW q \in Procs, CasFromPending(q) PROVE OwnerInv'
  <2>1. CASE index[tgt[q]].state = "pending" /\ tgt[q] \in ProposalIds
        BY <1>13, <2>1 DEF CasFromPending, ExpireNothing, ControlInv, LabelsOf, Kinds,
           RowInv, FireInv, Writes
  <2>2. CASE index[tgt[q]].state # "pending" /\ kind[q] # "expire"
        BY <1>13, <2>2 DEF CasFromPending, ExpireNothing, ControlInv, LabelsOf, Kinds,
           RowInv, FireInv, Writes
  <2>3. CASE index[tgt[q]].state # "pending" /\ kind[q] = "expire"
        BY <1>13, <2>3 DEF CasFromPending, ExpireNothing, ControlInv, LabelsOf, Kinds,
           RowInv, FireInv, Writes
  <2>c. \/ (index[tgt[q]].state = "pending" /\ tgt[q] \in ProposalIds)
        \/ (index[tgt[q]].state # "pending" /\ kind[q] # "expire")
        \/ (index[tgt[q]].state # "pending" /\ kind[q] = "expire")
        BY <1>13, ControlFacts DEF CasFromPending, CloseKinds
  <2>q. QED
        BY ONLY <2>c, <2>1, <2>2, <2>3
<1>14. ASSUME NEW q \in Procs, AppendAudit(q) PROVE OwnerInv'
  <2>1. CASE kind[q] = "claim"
        BY <1>14, <2>1 DEF AppendAudit, Append, ControlInv, LabelsOf, Kinds,
           SingleOwner, CreateInv, RowInv, LogInv, Writes
  <2>2. CASE kind[q] \in {"approve", "reject", "expire"}
        BY <1>14, <2>2 DEF AppendAudit, Append, ControlInv, LabelsOf, Kinds,
           SingleOwner, CreateInv, RowInv, LogInv, Writes
  <2>3. CASE kind[q] = "create"
        BY <1>14, <2>3 DEF AppendAudit, Append, ControlInv, LabelsOf, Kinds,
           SingleOwner, CreateInv, RowInv, LogInv, Writes
  <2>4. CASE kind[q] = "record"
        BY <1>14, <2>4 DEF AppendAudit, Append, ControlInv, LabelsOf, Kinds,
           SingleOwner, CreateInv, RowInv, LogInv, Writes
  <2>5. CASE kind[q] = "release"
        BY <1>14, <2>5 DEF AppendAudit, Append, ControlInv, LabelsOf, Kinds,
           SingleOwner, CreateInv, RowInv, LogInv, Writes
  <2>c. \/ (kind[q] = "claim")
        \/ (kind[q] \in {"approve", "reject", "expire"})
        \/ (kind[q] = "create")
        \/ (kind[q] = "record")
        \/ (kind[q] = "release")
        BY <1>14, ControlFacts DEF AppendAudit, CloseKinds
  <2>q. QED
        BY ONLY <2>c, <2>1, <2>2, <2>3, <2>4, <2>5
<1>15. ASSUME NEW q \in Procs, Upsert(q) PROVE OwnerInv'
  <2>1. CASE kind[q] = "create"
        BY <1>15, <2>1 DEF Upsert, ControlInv, LabelsOf, Kinds, SingleOwner, CreateInv,
           Writes
  <2>2. CASE kind[q] = "record"
        BY <1>15, <2>2 DEF Upsert, ControlInv, LabelsOf, Kinds, SingleOwner, CreateInv,
           Writes
  <2>3. CASE kind[q] = "release"
        BY <1>15, <2>3 DEF Upsert, ControlInv, LabelsOf, Kinds, SingleOwner, CreateInv,
           Writes
  <2>c. \/ (kind[q] = "create") \/ (kind[q] = "record") \/ (kind[q] = "release")
        BY <1>15, ControlFacts DEF Upsert, CloseKinds
  <2>q. QED
        BY ONLY <2>c, <2>1, <2>2, <2>3
<1>16. ASSUME NEW q \in Procs, FireFilled(q) PROVE OwnerInv'
  <2>0. Ready(q)
        BY <1>16, FireFacts DEF FireFilled
  <2>q. QED
        BY <1>16, <2>0 DEF FireFilled, SingleOwner, Writes, Ready
<1>17. ASSUME NEW q \in Procs, FireRefused(q) PROVE OwnerInv'
  <2>0. Ready(q)
        BY <1>17, FireFacts DEF FireRefused
  <2>q. QED
        BY <1>17, <2>0 DEF FireRefused, SingleOwner, Writes, Ready
<1>18. ASSUME NEW q \in Procs, FireAmbiguous(q) PROVE OwnerInv'
  <2>0. Ready(q)
        BY <1>18, FireFacts DEF FireAmbiguous
  <2>1. CASE fires' = fires
        BY <1>18, <2>1, <2>0 DEF FireAmbiguous, SingleOwner, Writes, Ready
  <2>2. CASE fires' = [fires EXCEPT ![tgt[q]] = @ + 1]
        BY <1>18, <2>2, <2>0 DEF FireAmbiguous, SingleOwner, Writes, Ready
  <2>c. \/ (fires' = fires) \/ (fires' = [fires EXCEPT ![tgt[q]] = @ + 1])
        BY <1>18, <2>0, ControlFacts DEF FireAmbiguous, CloseKinds
  <2>q. QED
        BY ONLY <2>c, <2>1, <2>2
<1>19. ASSUME NEW q \in Procs, ReconcileRead(q) PROVE OwnerInv'
      BY <1>19 DEF ReconcileRead, MayStart
<1>20. ASSUME NEW q \in Procs, ReconcileWrite(q) PROVE OwnerInv'
      BY <1>20 DEF ReconcileWrite, ControlInv, LabelsOf, Kinds, RebuildInv
<1>21. ASSUME NEW q \in Procs, Crash(q) PROVE OwnerInv'
      BY <1>21 DEF Crash
<1>22. ASSUME NEW q \in Procs, CrashMidAppend(q) PROVE OwnerInv'
      BY <1>22 DEF CrashMidAppend
<1>23. ASSUME NEW p \in ProposalIds, TtlElapses(p) PROVE OwnerInv'
      BY <1>23 DEF TtlElapses
<1>24. CASE UNCHANGED vars
      BY <1>24 DEF vars
<1>q. QED
      BY ONLY [Next]_vars, <1>1, <1>2, <1>3, <1>4, <1>5, <1>6, <1>7, <1>8, <1>9, <1>10,
         <1>11, <1>12, <1>13, <1>14, <1>15, <1>16, <1>17, <1>18, <1>19, <1>20, <1>21,
         <1>22, <1>23, <1>24 DEF Next, Start, Read, Write, Fire

\* A step that mints nothing and writes no row that is being created.
LEMMA CreateKept ==
  ASSUME CreateInv,
         \A r \in Procs : kind'[r] = "create" => /\ kind[r] = "create" /\ tgt'[r] = tgt[r]
                                                /\ index'[tgt[r]] = index[tgt[r]]
  PROVE  CreateInv'
BY DEF CreateInv

\* A proposal that is being created is in nobody else's hands.
LEMMA CreateStep ==
  ASSUME IInv, SafeConfig, [Next]_vars
  PROVE  CreateInv'
<1> USE DEF IInv, TypeOK, CreateInv, PCs, At, Move, Carry, Call, Return, store, world,
            local
<1>1. ASSUME NEW q \in Procs, NEW p \in ProposalIds, Propose(q, p) PROVE CreateInv'
      BY <1>1 DEF Propose, MayStart, NoRow
<1>2. ASSUME NEW q \in Procs, NEW p \in ProposalIds, QuantApprove(q, p) PROVE CreateInv'
      BY <1>2 DEF QuantApprove, MayStart
<1>3. ASSUME NEW q \in Procs, NEW p \in ProposalIds, QuantReject(q, p) PROVE CreateInv'
      BY <1>3 DEF QuantReject, MayStart
<1>4. ASSUME NEW q \in Procs, NEW p \in ProposalIds, LegacyApprove(q, p) PROVE CreateInv'
      BY <1>4 DEF LegacyApprove, MayStart
<1>5. ASSUME NEW q \in Procs, NEW p \in ProposalIds, SweepExpired(q, p) PROVE CreateInv'
      BY <1>5 DEF SweepExpired, MayStart, Overdue
<1>6. ASSUME NEW q \in Procs, Get(q) PROVE CreateInv'
  <2>1. /\ index' = index
        /\ \A r \in Procs : kind'[r] = "create" => kind[r] = "create" /\ tgt'[r] = tgt[r]
        BY <1>6 DEF Get, Overdue, CallExpire
  <2>q. QED
        BY ONLY CreateInv, <2>1, CreateKept
<1>7. ASSUME NEW q \in Procs, ReadForClaim(q) PROVE CreateInv'
  <2>1. /\ index' = index
        /\ \A r \in Procs : kind'[r] = "create" => kind[r] = "create" /\ tgt'[r] = tgt[r]
        BY <1>7 DEF ReadForClaim, Overdue, CallExpire
  <2>q. QED
        BY ONLY CreateInv, <2>1, CreateKept
<1>8. ASSUME NEW q \in Procs, ReadForClose(q) PROVE CreateInv'
      BY <1>8 DEF ReadForClose, Overdue, CallExpire, Closing
<1>9. ASSUME NEW q \in Procs, ReadForExpire(q) PROVE CreateInv'
      BY <1>9 DEF ReadForExpire, ExpireNothing
<1>10. ASSUME NEW q \in Procs, ReadForRecord(q) PROVE CreateInv'
  <2>1. /\ index' = index
        /\ \A r \in Procs : kind'[r] = "create" => kind[r] = "create" /\ tgt'[r] = tgt[r]
        BY <1>10 DEF ReadForRecord
  <2>q. QED
        BY ONLY CreateInv, <2>1, CreateKept
<1>11. ASSUME NEW q \in Procs, ReadForRelease(q) PROVE CreateInv'
  <2>1. /\ index' = index
        /\ \A r \in Procs : kind'[r] = "create" => kind[r] = "create" /\ tgt'[r] = tgt[r]
        BY <1>11 DEF ReadForRelease
  <2>q. QED
        BY ONLY CreateInv, <2>1, CreateKept
<1>12. ASSUME NEW q \in Procs, ReadAfterLoss(q) PROVE CreateInv'
      BY <1>12 DEF ReadAfterLoss, Overdue, CallExpire
<1>13. ASSUME NEW q \in Procs, CasFromPending(q) PROVE CreateInv'
  <2>1. CASE index[tgt[q]].state = "pending" /\ tgt[q] \in ProposalIds
        BY <1>13, <2>1 DEF CasFromPending, ExpireNothing, ControlInv, LabelsOf
  <2>2. CASE index[tgt[q]].state # "pending" /\ kind[q] # "expire"
        BY <1>13, <2>2 DEF CasFromPending, ExpireNothing, ControlInv, LabelsOf
  <2>3. CASE index[tgt[q]].state # "pending" /\ kind[q] = "expire"
        BY SMTT(30), <1>13, <2>3 DEF CasFromPending, ExpireNothing, ControlInv, LabelsOf
  <2>c. \/ (index[tgt[q]].state = "pending" /\ tgt[q] \in ProposalIds)
        \/ (index[tgt[q]].state # "pending" /\ kind[q] # "expire")
        \/ (index[tgt[q]].state # "pending" /\ kind[q] = "expire")
        BY <1>13, ControlFacts DEF CasFromPending, CloseKinds
  <2>q. QED
        BY ONLY <2>c, <2>1, <2>2, <2>3
<1>14. ASSUME NEW q \in Procs, AppendAudit(q) PROVE CreateInv'
      BY <1>14 DEF AppendAudit, Append
<1>15. ASSUME NEW q \in Procs, Upsert(q) PROVE CreateInv'
  <2>1. CASE kind[q] = "create"
        BY <1>15, <2>1 DEF Upsert, Kinds, OwnerInv, Owns, ControlInv, LabelsOf,
           CloseKinds
  <2>2. CASE kind[q] # "create"
    <3>1. kind[q] \in {"record", "release"} /\ tgt[q] \in ProposalIds
          BY <1>15, <2>2, ControlFacts DEF Upsert
    <3>2. index[tgt[q]].state = "approved"
          BY <3>1 DEF OwnerInv, Owns, CloseKinds
    <3>3. \A r \in Procs : kind[r] = "create" => tgt[r] # tgt[q]
          BY <3>2
    <3>4. \A r \in Procs : kind'[r] = "create" =>
            /\ kind[r] = "create" /\ tgt'[r] = tgt[r]
            /\ index'[tgt[r]] = index[tgt[r]]
      <4>1. /\ index' = [index EXCEPT ![tgt[q]] = row[q]]
            /\ kind' = [kind EXCEPT ![q] = "none"]
            /\ tgt' = [tgt EXCEPT ![q] = NoProposal]
            BY <1>15 DEF Upsert
      <4>2. DOMAIN index = ProposalIds /\ DOMAIN kind = Procs /\ DOMAIN tgt = Procs
            OBVIOUS
      <4>3. \A r \in Procs : kind'[r] = "create" =>
              r # q /\ kind[r] = "create" /\ tgt'[r] = tgt[r]
            BY ONLY <4>1, <4>2
      <4>4. \A p : p # tgt[q] => index'[p] = index[p]
            BY ONLY <4>1, <4>2
      <4>5. QED
            BY ONLY <3>3, <4>3, <4>4
    <3>5. QED
          BY ONLY CreateInv, <3>4, CreateKept
  <2>c. \/ (kind[q] = "create") \/ (kind[q] # "create")
        BY <1>15, ControlFacts DEF Upsert, CloseKinds
  <2>q. QED
        BY ONLY <2>c, <2>1, <2>2
<1>16. ASSUME NEW q \in Procs, FireFilled(q) PROVE CreateInv'
      BY <1>16 DEF FireFilled
<1>17. ASSUME NEW q \in Procs, FireRefused(q) PROVE CreateInv'
      BY <1>17 DEF FireRefused
<1>18. ASSUME NEW q \in Procs, FireAmbiguous(q) PROVE CreateInv'
      BY <1>18 DEF FireAmbiguous
<1>19. ASSUME NEW q \in Procs, ReconcileRead(q) PROVE CreateInv'
      BY <1>19 DEF ReconcileRead, MayStart
<1>20. ASSUME NEW q \in Procs, ReconcileWrite(q) PROVE CreateInv'
      BY SMTT(30), <1>20 DEF ReconcileWrite, RebuildInv, ControlInv, LabelsOf, Kinds
<1>21. ASSUME NEW q \in Procs, Crash(q) PROVE CreateInv'
      BY <1>21 DEF Crash
<1>22. ASSUME NEW q \in Procs, CrashMidAppend(q) PROVE CreateInv'
      BY <1>22 DEF CrashMidAppend
<1>23. ASSUME NEW p \in ProposalIds, TtlElapses(p) PROVE CreateInv'
      BY <1>23 DEF TtlElapses
<1>24. CASE UNCHANGED vars
      BY <1>24 DEF vars
<1>q. QED
      BY ONLY [Next]_vars, <1>1, <1>2, <1>3, <1>4, <1>5, <1>6, <1>7, <1>8, <1>9, <1>10,
         <1>11, <1>12, <1>13, <1>14, <1>15, <1>16, <1>17, <1>18, <1>19, <1>20, <1>21,
         <1>22, <1>23, <1>24 DEF Next, Start, Read, Write, Fire

\* A filled proposal was filled once and stays approved in every store.
LEMMA FireStep ==
  ASSUME IInv, SafeConfig, [Next]_vars
  PROVE  FireInv'
<1> USE DEF IInv, TypeOK, FireInv, At, Move, Carry, Call, Return, store, world, local
<1>1. ASSUME NEW q \in Procs, CasFromPending(q) PROVE FireInv'
  <2>1. CASE index[tgt[q]].state = "pending" /\ tgt[q] \in ProposalIds
        BY <1>1, <2>1 DEF CasFromPending, ExpireNothing, ControlInv, LabelsOf, Kinds,
           RowInv, Row
  <2>2. CASE index[tgt[q]].state # "pending" /\ kind[q] # "expire"
        BY <1>1, <2>2 DEF CasFromPending, ExpireNothing, ControlInv, LabelsOf, Kinds,
           RowInv, Row
  <2>3. CASE index[tgt[q]].state # "pending" /\ kind[q] = "expire"
        BY <1>1, <2>3 DEF CasFromPending, ExpireNothing, ControlInv, LabelsOf, Kinds,
           RowInv, Row
  <2>c. \/ (index[tgt[q]].state = "pending" /\ tgt[q] \in ProposalIds)
        \/ (index[tgt[q]].state # "pending" /\ kind[q] # "expire")
        \/ (index[tgt[q]].state # "pending" /\ kind[q] = "expire")
        BY <1>1, ControlFacts DEF CasFromPending, CloseKinds
  <2>q. QED
        BY ONLY <2>c, <2>1, <2>2, <2>3
<1>2. ASSUME NEW q \in Procs, AppendAudit(q) PROVE FireInv'
  <2>1. CASE kind[q] \in CloseKinds
        BY <1>2, <2>1 DEF AppendAudit, Append, ControlInv, LabelsOf, Kinds, RowInv, Row,
           OwnerInv, Owns, CreateInv, Writes, CloseKinds, LogInv
  <2>2. CASE kind[q] = "create"
        BY <1>2, <2>2 DEF AppendAudit, Append, ControlInv, LabelsOf, Kinds, RowInv, Row,
           OwnerInv, Owns, CreateInv, Writes, CloseKinds, LogInv
  <2>3. CASE kind[q] = "record"
        BY <1>2, <2>3 DEF AppendAudit, Append, ControlInv, LabelsOf, Kinds, RowInv, Row,
           OwnerInv, Owns, CreateInv, Writes, CloseKinds, LogInv
  <2>4. CASE kind[q] = "release"
        BY <1>2, <2>4 DEF AppendAudit, Append, ControlInv, LabelsOf, Kinds, RowInv, Row,
           OwnerInv, Owns, CreateInv, Writes, CloseKinds, LogInv
  <2>c. \/ (kind[q] \in CloseKinds)
        \/ (kind[q] = "create")
        \/ (kind[q] = "record")
        \/ (kind[q] = "release")
        BY <1>2, ControlFacts DEF AppendAudit, CloseKinds
  <2>q. QED
        BY ONLY <2>c, <2>1, <2>2, <2>3, <2>4
<1>3. ASSUME NEW q \in Procs, Upsert(q) PROVE FireInv'
  <2>1. CASE kind[q] = "create"
        BY <1>3, <2>1 DEF Upsert, ControlInv, LabelsOf, Kinds, RowInv, Row, OwnerInv,
           Owns, CreateInv, Writes
  <2>2. CASE kind[q] = "record"
        BY <1>3, <2>2 DEF Upsert, ControlInv, LabelsOf, Kinds, RowInv, Row, OwnerInv,
           Owns, CreateInv, Writes
  <2>3. CASE kind[q] = "release"
        BY <1>3, <2>3 DEF Upsert, ControlInv, LabelsOf, Kinds, RowInv, Row, OwnerInv,
           Owns, CreateInv, Writes
  <2>c. \/ (kind[q] = "create") \/ (kind[q] = "record") \/ (kind[q] = "release")
        BY <1>3, ControlFacts DEF Upsert, CloseKinds
  <2>q. QED
        BY ONLY <2>c, <2>1, <2>2, <2>3
<1>4. ASSUME NEW q \in Procs, FireFilled(q) PROVE FireInv'
  <2>0. Ready(q)
        BY <1>4, FireFacts DEF FireFilled
  <2>q. QED
        BY <1>4, <2>0 DEF FireFilled, Ready
<1>5. ASSUME NEW q \in Procs, FireAmbiguous(q) PROVE FireInv'
  <2>0. Ready(q)
        BY <1>5, FireFacts DEF FireAmbiguous
  <2>1. CASE fires' = fires
        BY <1>5, <2>1, <2>0 DEF FireAmbiguous, Ready
  <2>2. CASE fires' = [fires EXCEPT ![tgt[q]] = @ + 1]
        BY <1>5, <2>2, <2>0 DEF FireAmbiguous, Ready
  <2>c. \/ (fires' = fires) \/ (fires' = [fires EXCEPT ![tgt[q]] = @ + 1])
        BY <1>5, <2>0, ControlFacts DEF FireAmbiguous, CloseKinds
  <2>q. QED
        BY ONLY <2>c, <2>1, <2>2
<1>6. ASSUME NEW q \in Procs, ReconcileWrite(q) PROVE FireInv'
      BY <1>6 DEF ReconcileWrite, RebuildInv
<1>7. ASSUME NEW q \in Procs, CrashMidAppend(q) PROVE FireInv'
      BY <1>7 DEF CrashMidAppend
<1>8. CASE UNCHANGED <<store, fires>>
      BY <1>8
<1>q. QED
      BY ONLY StoreSteps, [Next]_vars, <1>1, <1>2, <1>3, <1>4, <1>5, <1>6, <1>7, <1>8

\* The file never runs ahead of the index.
LEMMA LogStep ==
  ASSUME IInv, SafeConfig, [Next]_vars
  PROVE  LogInv'
<1> USE DEF IInv, TypeOK, LogInv, At, Move, Carry, Call, Return, store, world, local
<1>1. ASSUME NEW q \in Procs, CasFromPending(q) PROVE LogInv'
  <2>1. CASE index[tgt[q]].state = "pending" /\ tgt[q] \in ProposalIds
        BY <1>1, <2>1 DEF CasFromPending, ExpireNothing, ControlInv, LabelsOf, Kinds
  <2>2. CASE index[tgt[q]].state # "pending" /\ kind[q] # "expire"
        BY <1>1, <2>2 DEF CasFromPending, ExpireNothing, ControlInv, LabelsOf, Kinds
  <2>3. CASE index[tgt[q]].state # "pending" /\ kind[q] = "expire"
        BY <1>1, <2>3 DEF CasFromPending, ExpireNothing, ControlInv, LabelsOf, Kinds
  <2>c. \/ (index[tgt[q]].state = "pending" /\ tgt[q] \in ProposalIds)
        \/ (index[tgt[q]].state # "pending" /\ kind[q] # "expire")
        \/ (index[tgt[q]].state # "pending" /\ kind[q] = "expire")
        BY <1>1, ControlFacts DEF CasFromPending, CloseKinds
  <2>q. QED
        BY ONLY <2>c, <2>1, <2>2, <2>3
<1>2. ASSUME NEW q \in Procs, AppendAudit(q) PROVE LogInv'
  <2>1. CASE kind[q] \in CloseKinds
        BY <1>2, <2>1 DEF AppendAudit, Append, ControlInv, LabelsOf, Kinds, RowInv,
           OwnerInv, Owns, CreateInv, Writes, CloseKinds
  <2>2. CASE kind[q] = "create"
        BY <1>2, <2>2 DEF AppendAudit, Append, ControlInv, LabelsOf, Kinds, RowInv,
           OwnerInv, Owns, CreateInv, Writes, CloseKinds
  <2>3. CASE kind[q] = "record"
        BY <1>2, <2>3 DEF AppendAudit, Append, ControlInv, LabelsOf, Kinds, RowInv,
           OwnerInv, Owns, CreateInv, Writes, CloseKinds
  <2>4. CASE kind[q] = "release"
        BY <1>2, <2>4 DEF AppendAudit, Append, ControlInv, LabelsOf, Kinds, RowInv,
           OwnerInv, Owns, CreateInv, Writes, CloseKinds
  <2>c. \/ (kind[q] \in CloseKinds)
        \/ (kind[q] = "create")
        \/ (kind[q] = "record")
        \/ (kind[q] = "release")
        BY <1>2, ControlFacts DEF AppendAudit, CloseKinds
  <2>q. QED
        BY ONLY <2>c, <2>1, <2>2, <2>3, <2>4
<1>3. ASSUME NEW q \in Procs, Upsert(q) PROVE LogInv'
  <2>1. CASE kind[q] = "create"
        BY <1>3, <2>1 DEF Upsert, ControlInv, LabelsOf, Kinds, RowInv, OwnerInv, Owns,
           CreateInv, Writes, CloseKinds
  <2>2. CASE kind[q] = "record"
        BY <1>3, <2>2 DEF Upsert, ControlInv, LabelsOf, Kinds, RowInv, OwnerInv, Owns,
           CreateInv, Writes, CloseKinds
  <2>3. CASE kind[q] = "release"
        BY <1>3, <2>3 DEF Upsert, ControlInv, LabelsOf, Kinds, RowInv, OwnerInv, Owns,
           CreateInv, Writes, CloseKinds
  <2>c. \/ (kind[q] = "create") \/ (kind[q] = "record") \/ (kind[q] = "release")
        BY <1>3, ControlFacts DEF Upsert, CloseKinds
  <2>q. QED
        BY ONLY <2>c, <2>1, <2>2, <2>3
<1>4. ASSUME NEW q \in Procs, FireFilled(q) PROVE LogInv'
      BY <1>4 DEF FireFilled
<1>5. ASSUME NEW q \in Procs, FireAmbiguous(q) PROVE LogInv'
      BY <1>5 DEF FireAmbiguous
<1>6. ASSUME NEW q \in Procs, ReconcileWrite(q) PROVE LogInv'
      BY <1>6 DEF ReconcileWrite, RebuildInv
<1>7. ASSUME NEW q \in Procs, CrashMidAppend(q) PROVE LogInv'
      BY <1>7 DEF CrashMidAppend, SafeConfig, Offline
<1>8. CASE UNCHANGED <<store, fires>>
      BY <1>8
<1>q. QED
      BY ONLY StoreSteps, [Next]_vars, <1>1, <1>2, <1>3, <1>4, <1>5, <1>6, <1>7, <1>8

\* A rebuild runs alone, on the file as it is.
LEMMA RebuildStep ==
  ASSUME IInv, SafeConfig, [Next]_vars
  PROVE  RebuildInv'
<1> USE DEF IInv, TypeOK, ControlInv, RebuildInv, LabelsOf, SafeConfig, Offline, At,
            Move, Carry, Call, Return, store, world, local
<1>1. ASSUME NEW q \in Procs, NEW p \in ProposalIds, Propose(q, p) PROVE RebuildInv'
      BY <1>1 DEF Propose, MayStart
<1>2. ASSUME NEW q \in Procs, NEW p \in ProposalIds, QuantApprove(q, p) PROVE RebuildInv'
      BY <1>2 DEF QuantApprove, MayStart
<1>3. ASSUME NEW q \in Procs, NEW p \in ProposalIds, QuantReject(q, p) PROVE RebuildInv'
      BY <1>3 DEF QuantReject, MayStart
<1>4. ASSUME NEW q \in Procs, NEW p \in ProposalIds, LegacyApprove(q, p) PROVE RebuildInv'
      BY <1>4 DEF LegacyApprove, MayStart
<1>5. ASSUME NEW q \in Procs, NEW p \in ProposalIds, SweepExpired(q, p) PROVE RebuildInv'
      BY <1>5 DEF SweepExpired, MayStart, Overdue
<1>6. ASSUME NEW q \in Procs, Get(q) PROVE RebuildInv'
      BY <1>6 DEF Get, Overdue, CallExpire
<1>7. ASSUME NEW q \in Procs, ReadForClaim(q) PROVE RebuildInv'
      BY <1>7 DEF ReadForClaim, Overdue, CallExpire
<1>8. ASSUME NEW q \in Procs, ReadForClose(q) PROVE RebuildInv'
      BY <1>8 DEF ReadForClose, Overdue, CallExpire, Closing
<1>9. ASSUME NEW q \in Procs, ReadForExpire(q) PROVE RebuildInv'
      BY <1>9 DEF ReadForExpire, ExpireNothing
<1>10. ASSUME NEW q \in Procs, ReadForRecord(q) PROVE RebuildInv'
      BY <1>10 DEF ReadForRecord
<1>11. ASSUME NEW q \in Procs, ReadForRelease(q) PROVE RebuildInv'
      BY <1>11 DEF ReadForRelease
<1>12. ASSUME NEW q \in Procs, ReadAfterLoss(q) PROVE RebuildInv'
      BY <1>12 DEF ReadAfterLoss, Overdue, CallExpire
<1>13. ASSUME NEW q \in Procs, CasFromPending(q) PROVE RebuildInv'
      BY <1>13 DEF CasFromPending, ExpireNothing
<1>14. ASSUME NEW q \in Procs, AppendAudit(q) PROVE RebuildInv'
      BY <1>14 DEF AppendAudit, Append
<1>15. ASSUME NEW q \in Procs, Upsert(q) PROVE RebuildInv'
      BY <1>15 DEF Upsert
<1>16. ASSUME NEW q \in Procs, FireFilled(q) PROVE RebuildInv'
      BY <1>16 DEF FireFilled
<1>17. ASSUME NEW q \in Procs, FireRefused(q) PROVE RebuildInv'
      BY <1>17 DEF FireRefused
<1>18. ASSUME NEW q \in Procs, FireAmbiguous(q) PROVE RebuildInv'
      BY <1>18 DEF FireAmbiguous
<1>19. ASSUME NEW q \in Procs, ReconcileRead(q) PROVE RebuildInv'
      BY <1>19 DEF ReconcileRead, MayStart
<1>20. ASSUME NEW q \in Procs, ReconcileWrite(q) PROVE RebuildInv'
      BY <1>20 DEF ReconcileWrite
<1>21. ASSUME NEW q \in Procs, Crash(q) PROVE RebuildInv'
      BY <1>21 DEF Crash
<1>22. ASSUME NEW q \in Procs, CrashMidAppend(q) PROVE RebuildInv'
      BY <1>22 DEF CrashMidAppend
<1>23. ASSUME NEW p \in ProposalIds, TtlElapses(p) PROVE RebuildInv'
      BY <1>23 DEF TtlElapses
<1>24. CASE UNCHANGED vars
      BY <1>24 DEF vars
<1>q. QED
      BY ONLY [Next]_vars, <1>1, <1>2, <1>3, <1>4, <1>5, <1>6, <1>7, <1>8, <1>9, <1>10,
         <1>11, <1>12, <1>13, <1>14, <1>15, <1>16, <1>17, <1>18, <1>19, <1>20, <1>21,
         <1>22, <1>23, <1>24 DEF Next, Start, Read, Write, Fire

\* The initial states satisfy the invariant: nothing exists, nobody works.
LEMMA InitIInv == Init => IInv
<1> SUFFICES ASSUME Init PROVE IInv
  OBVIOUS
<1> USE DEF Init
<1>1. TypeOK
  BY DEF TypeOK, Row, States, NoRow, PCs, Kinds, Tails
<1>2. ControlInv /\ RowInv /\ RebuildInv
  BY DEF ControlInv, RowInv, RebuildInv, LabelsOf, NoRow
<1>3. OwnerInv /\ SingleOwner /\ CreateInv
  BY DEF OwnerInv, SingleOwner, CreateInv, Owns, CloseKinds
<1>4. FireInv /\ LogInv
  BY DEF FireInv, LogInv, NoRow
<1>5. QED
  BY <1>1, <1>2, <1>3, <1>4 DEF IInv

-----------------------------------------------------------------------------
(***************************************************************************)
(* The theorems.                                                           *)
(***************************************************************************)
\* Types and control hold in every configuration, torn writes and rebuilds
\* next to running processes included.
THEOREM TypeCorrect == Spec => []TypeOK
<1>1. Init => TypeOK /\ ControlInv
  BY InitIInv DEF IInv
<1>2. TypeOK /\ ControlInv /\ [Next]_vars => TypeOK' /\ ControlInv'
  BY TypeStep, ControlStep
<1>3. QED
  BY <1>1, <1>2, PTL DEF Spec

\* The invariant is inductive when the index is never rebuilt, or rebuilt
\* offline from whole lines.
THEOREM Inductive == ASSUME SafeConfig PROVE Spec => []IInv
<1>1. IInv /\ [Next]_vars => IInv'
  <2> SUFFICES ASSUME IInv, [Next]_vars PROVE IInv'
    OBVIOUS
  <2>1. TypeOK' /\ ControlInv'
    BY TypeStep, ControlStep DEF IInv
  <2>2. RowInv' /\ OwnerInv' /\ SingleOwner' /\ CreateInv'
    BY RowStep, OwnerStep, SingleStep, CreateStep
  <2>3. FireInv' /\ LogInv' /\ RebuildInv'
    BY FireStep, LogStep, RebuildStep
  <2>4. QED
    BY <2>1, <2>2, <2>3 DEF IInv
<1>2. QED
  BY InitIInv, <1>1, PTL DEF Spec

\* No interleaving of approvals, rejections, expiries, releases and crashes
\* moves capital twice for one proposal.
THEOREM FiresOnce == ASSUME SafeConfig PROVE Spec => []AtMostOneFire
<1>1. IInv => AtMostOneFire
  BY DEF IInv, FireInv, AtMostOneFire
<1>2. QED
  BY <1>1, Inductive, PTL

\* A fired proposal is never again shown as open or closed unfired.
THEOREM FiredApproved == ASSUME SafeConfig PROVE Spec => []FiredStaysApproved
<1>1. IInv => FiredStaysApproved
  BY DEF IInv, FireInv, FiredStaysApproved
<1>2. QED
  BY <1>1, Inductive, PTL

\* An execution is attached only to the proposal that was filled.
THEOREM ExecutionFilled == ASSUME SafeConfig PROVE Spec => []ExecutionMeansFill
<1>1. IInv => ExecutionMeansFill
  BY DEF IInv, FireInv, ExecutionMeansFill
<1>2. QED
  BY <1>1, Inductive, PTL

\* With whole lines and offline rebuilds, the reactor is called under a claim
\* that is in both stores and in no other caller's hands.
THEOREM DurableClaim ==
  ASSUME SafeConfig, Offline PROVE Spec => []FireUnderDurableClaim
<1>1. IInv => FireUnderDurableClaim
  <2> SUFFICES ASSUME IInv, NEW q \in Procs, At(q, "fire")
               PROVE  /\ index[tgt[q]].state = "approved"
                      /\ logged[tgt[q]].state = "approved"
                      /\ \A r \in Procs \ {q} :
                           ~(tgt[r] = tgt[q] /\ kind[r] \in {"record", "release"})
                      /\ \A r \in Procs \ {q} : ~(tgt[r] = tgt[q] /\ At(r, "fire"))
    BY DEF FireUnderDurableClaim
  <2>1. tgt[q] \in ProposalIds /\ Owns(q, tgt[q])
    BY FireFacts DEF Owns, At, Ready
  <2>2. \A r \in Procs : tgt[r] = tgt[q] /\ (kind[r] \in {"record", "release"} \/ At(r, "fire"))
          => r = q
    BY <2>1 DEF IInv, SingleOwner, Owns, At
  <2>3. QED
    BY <2>2, FireFacts DEF At, Ready
<1>2. QED
  BY <1>1, Inductive, PTL

\* With whole lines and offline rebuilds, a losing writer leaves no event
\* that the index does not confirm.
THEOREM LogBehind == ASSUME SafeConfig, Offline PROVE Spec => []LogNeverAhead
<1>1. IInv => LogNeverAhead
  BY DEF IInv, LogInv, LogNeverAhead
<1>2. QED
  BY <1>1, Inductive, PTL

\* A rejected or expired row is final in an index that is never rebuilt,
\* whatever a crash leaves in the file.
THEOREM IndexFinal == ASSUME Reconcile = "never" PROVE Spec => IndexClosedIsFinal
<1> DEFINE Step == \A p \in ProposalIds :
               index[p].state \in {"rejected", "expired"} => index'[p] = index[p]
<1>1. SafeConfig
  BY DEF SafeConfig
<1>2. IInv /\ [Next]_vars => [Step]_index
  <2> SUFFICES ASSUME IInv, [Next]_vars, NEW p \in ProposalIds,
                      index[p].state \in {"rejected", "expired"}
               PROVE  index'[p] = index[p]
    OBVIOUS
  <2>1. CASE UNCHANGED <<store, fires>>
    BY <2>1 DEF store
  <2>2. ASSUME NEW q \in Procs, CasFromPending(q) PROVE index'[p] = index[p]
    BY <2>2 DEF CasFromPending, IInv, TypeOK
  <2>3. ASSUME NEW q \in Procs, Upsert(q) PROVE index'[p] = index[p]
    <3>1. pc[q] = "upsert" /\ kind[q] \in {"create", "record", "release"}
      BY <2>3, ControlFacts DEF IInv, Upsert, At
    <3>2. tgt[q] # p
      BY <3>1 DEF IInv, CreateInv, OwnerInv, Owns, CloseKinds
    <3>3. QED
      BY <2>3, <3>2 DEF Upsert, IInv, TypeOK
  <2>4. ASSUME NEW q \in Procs, FireFilled(q) \/ FireAmbiguous(q) PROVE index'[p] = index[p]
    BY <2>4 DEF FireFilled, FireAmbiguous, store
  <2>5. ASSUME NEW q \in Procs, AppendAudit(q) \/ CrashMidAppend(q) PROVE index'[p] = index[p]
    BY <2>5 DEF AppendAudit, CrashMidAppend
  <2>6. ASSUME NEW q \in Procs, ReconcileWrite(q) PROVE index'[p] = index[p]
    BY <2>6 DEF ReconcileWrite, At, IInv, RebuildInv, Offline
  <2>7. QED
    BY ONLY StoreSteps, [Next]_vars, <2>1, <2>2, <2>3, <2>4, <2>5, <2>6
<1>3. QED
  BY <1>1, <1>2, Inductive, PTL DEF Spec, IndexClosedIsFinal


-----------------------------------------------------------------------------
(***************************************************************************)
(* What the file says.  The store implements ProposalLifecycle, and what   *)
(* its file says is closed stays closed, when lines are written whole and  *)
(* rebuilds are run with the other processes stopped.                      *)
(***************************************************************************)
WholeLines == Offline /\ ~TornWrites

Closed == {"rejected", "expired"}

\* What the file does not say yet: the outcome that an operation is about to
\* append to it.
UnsaidInv ==
  \A q \in Procs :
    /\ pc[q] = "log" /\ kind[q] \in CloseKinds => logged[tgt[q]].state \notin Closed
    /\ kind[q] = "record" /\ pc[q] \in {"read", "log"} => ~logged[tgt[q]].execution

\* What it does say: the existence of every proposal in the index.
KnownInv ==
  /\ \A p \in ProposalIds : index[p].state # "absent" => logged[p].state # "absent"
  /\ \A q \in Procs : pc[q] = "upsert" => logged[tgt[q]].state # "absent"

LInv == IInv /\ UnsaidInv /\ KnownInv

-----------------------------------------------------------------------------
(***************************************************************************)
(* How an operation gets to the point where it appends, or updates.        *)
(***************************************************************************)
Entered(q) ==
  /\ pc'[q] = "log" /\ kind'[q] \in CloseKinds =>
       /\ tgt'[q] = tgt[q]
       /\ \/ pc[q] = "log" /\ kind[q] = kind'[q]
          \/ CasFromPending(q) /\ index[tgt[q]].state = "pending"
  /\ kind'[q] = "record" /\ pc'[q] \in {"read", "log"} =>
       /\ tgt'[q] = tgt[q]
       /\ \/ kind[q] = "record" /\ pc[q] \in {"read", pc'[q]}
          \/ FireFilled(q)
  /\ pc'[q] = "upsert" =>
       /\ tgt'[q] = tgt[q]
       /\ pc[q] = "upsert" \/ AppendAudit(q)

LEMMA Entering ==
  ASSUME TypeOK, ControlInv, [Next]_vars, NEW q \in Procs
  PROVE  Entered(q)
<1> USE DEF TypeOK, ControlInv, PCs, Kinds, LabelsOf, CloseKinds, At, Move, Carry, Call,
            Return, Entered, store, world, local
<1>1. ASSUME NEW r \in Procs, NEW p \in ProposalIds,
             \/ Propose(r, p) \/ QuantApprove(r, p) \/ QuantReject(r, p)
             \/ LegacyApprove(r, p) \/ SweepExpired(r, p)
      PROVE  Entered(q)
  BY <1>1 DEF Propose, QuantApprove, QuantReject, LegacyApprove, SweepExpired, MayStart
<1>2. ASSUME NEW r \in Procs, Get(r) PROVE Entered(q)
  BY <1>2 DEF Get, CallExpire
<1>3. ASSUME NEW r \in Procs, ReadForClaim(r) PROVE Entered(q)
  BY <1>3 DEF ReadForClaim, CallExpire
<1>4. ASSUME NEW r \in Procs, ReadForClose(r) PROVE Entered(q)
  BY <1>4 DEF ReadForClose, CallExpire
<1>5. ASSUME NEW r \in Procs, ReadForExpire(r) PROVE Entered(q)
  BY <1>5 DEF ReadForExpire, ExpireNothing
<1>6. ASSUME NEW r \in Procs, ReadForRecord(r) PROVE Entered(q)
  BY <1>6 DEF ReadForRecord
<1>7. ASSUME NEW r \in Procs, ReadForRelease(r) PROVE Entered(q)
  BY <1>7 DEF ReadForRelease
<1>8. ASSUME NEW r \in Procs, ReadAfterLoss(r) PROVE Entered(q)
  BY <1>8 DEF ReadAfterLoss, CallExpire
<1>9. ASSUME NEW r \in Procs, CasFromPending(r) PROVE Entered(q)
  BY <1>9 DEF CasFromPending, ExpireNothing
<1>10. ASSUME NEW r \in Procs, AppendAudit(r) PROVE Entered(q)
  BY <1>10 DEF AppendAudit
<1>11. ASSUME NEW r \in Procs, Upsert(r) PROVE Entered(q)
  BY <1>11 DEF Upsert
<1>12. ASSUME NEW r \in Procs, FireFilled(r) \/ FireRefused(r) \/ FireAmbiguous(r)
       PROVE  Entered(q)
  BY <1>12 DEF FireFilled, FireRefused, FireAmbiguous
<1>13. ASSUME NEW r \in Procs,
              \/ ReconcileRead(r) \/ ReconcileWrite(r)
              \/ Crash(r) \/ CrashMidAppend(r)
       PROVE  Entered(q)
  BY <1>13 DEF ReconcileRead, ReconcileWrite, Crash, CrashMidAppend, MayStart
<1>14. ASSUME NEW p \in ProposalIds, TtlElapses(p) PROVE Entered(q)
  BY <1>14 DEF TtlElapses
<1>15. CASE UNCHANGED vars
  BY <1>15 DEF vars
<1> QED
  BY ONLY [Next]_vars, <1>1, <1>2, <1>3, <1>4, <1>5, <1>6, <1>7, <1>8, <1>9, <1>10,
     <1>11, <1>12, <1>13, <1>14, <1>15 DEF Next, Start, Read, Write, Fire

\* What an append does to the file, and to whom.
LEMMA Appends ==
  ASSUME IInv, WholeLines, NEW q \in Procs, AppendAudit(q)
  PROVE  /\ tgt[q] \in ProposalIds /\ pc[q] = "log" /\ pc'[q] # "log"
         /\ logged' = [logged EXCEPT ![tgt[q]] = row[q]]
         /\ index' = index /\ fires' = fires
         /\ row[q] \in Row /\ row[q].state = Writes[kind[q]]
         /\ kind[q] \in CloseKinds \cup {"create", "record", "release"}
<1>1. /\ tgt[q] \in ProposalIds /\ pc[q] = "log" /\ row[q] \in Row
      /\ kind[q] \in CloseKinds \cup {"create", "record", "release"}
  BY ControlFacts DEF IInv, TypeOK, AppendAudit, At
<1>2. pc'[q] # "log"
  BY DEF AppendAudit, Move, Return, IInv, TypeOK
<1>3. tail = "clean"
  BY DEF IInv, LogInv, WholeLines
<1> QED
  BY <1>1, <1>2, <1>3 DEF AppendAudit, Append, world, IInv, RowInv

LEMMA FileSteps ==
  ASSUME [Next]_vars
  PROVE  logged' = logged \/ \E q \in Procs : AppendAudit(q)
BY StoreSteps DEF store, world, CasFromPending, Upsert, FireFilled, FireAmbiguous,
   ReconcileWrite, CrashMidAppend

\* Nobody else appends to a proposal that an operation owns.
LEMMA AppendsElsewhere ==
  ASSUME IInv, WholeLines, NEW q \in Procs, tgt[q] \in ProposalIds, Owns(q, tgt[q]),
         NEW r \in Procs, r # q, AppendAudit(r)
  PROVE  tgt[r] # tgt[q]
<1>1. pc[r] = "log" /\ kind[r] \in CloseKinds \cup {"create", "record", "release"}
  BY Appends
<1>2. CASE kind[r] = "create"
  <2>1. index[tgt[r]].state = "absent"
    BY <1>2 DEF IInv, CreateInv
  <2>2. index[tgt[q]].state # "absent"
    BY DEF IInv, OwnerInv, Writes, CloseKinds
  <2> QED
    BY <2>1, <2>2
<1>3. CASE kind[r] # "create"
  BY <1>1, <1>3 DEF IInv, SingleOwner, Owns
<1> QED
  BY <1>2, <1>3

-----------------------------------------------------------------------------
(***************************************************************************)
(* The two conjuncts are preserved.                                        *)
(***************************************************************************)
LEMMA UnsaidStep ==
  ASSUME IInv, WholeLines, UnsaidInv, [Next]_vars
  PROVE  UnsaidInv'
<1> SUFFICES ASSUME NEW q \in Procs
    PROVE  /\ pc'[q] = "log" /\ kind'[q] \in CloseKinds => logged'[tgt'[q]].state \notin Closed
           /\ kind'[q] = "record" /\ pc'[q] \in {"read", "log"} =>
                ~logged'[tgt'[q]].execution
  BY DEF UnsaidInv
<1>1. Entered(q)
  BY Entering DEF IInv
<1>2. ASSUME tgt[q] \in ProposalIds, Owns(q, tgt[q]), pc'[q] \in {"log", "read"},
             pc[q] = "log" => pc'[q] = "log"
      PROVE  logged'[tgt[q]] = logged[tgt[q]]
  <2>1. ASSUME NEW r \in Procs, AppendAudit(r) PROVE logged'[tgt[q]] = logged[tgt[q]]
    <3>1. r # q
      BY <1>2, <2>1, Appends
    <3> QED
      BY <1>2, <2>1, <3>1, AppendsElsewhere, Appends DEF IInv, TypeOK
  <2> QED
    BY <2>1, FileSteps
<1>3. ASSUME pc'[q] = "log", kind'[q] \in CloseKinds
      PROVE  logged'[tgt'[q]].state \notin Closed
  <2>1. CASE pc[q] = "log" /\ kind[q] = kind'[q]
    <3>1. tgt[q] \in ProposalIds
      BY <2>1, ControlFacts DEF IInv
    <3>2. Owns(q, tgt[q])
      BY <1>3, <2>1 DEF Owns
    <3> QED
      BY <1>1, <1>2, <1>3, <2>1, <3>1, <3>2 DEF Entered, UnsaidInv
  <2>2. CASE CasFromPending(q) /\ index[tgt[q]].state = "pending"
    <3>1. tgt[q] \in ProposalIds /\ logged' = logged
      BY <2>2, ControlFacts DEF CasFromPending, At, IInv
    <3>2. logged[tgt[q]].state \notin Closed
      BY <2>2, <3>1 DEF IInv, LogInv, WholeLines, Closed
    <3> QED
      BY <1>1, <1>3, <3>1, <3>2 DEF Entered
  <2> QED
    BY <1>1, <1>3, <2>1, <2>2 DEF Entered
<1>4. ASSUME kind'[q] = "record", pc'[q] \in {"read", "log"}
      PROVE  ~logged'[tgt'[q]].execution
  <2>1. CASE FireFilled(q)
    <3>1. pc[q] = "fire" /\ logged' = logged
      BY <2>1 DEF FireFilled, At, store
    <3>2. tgt[q] \in ProposalIds /\ fires[tgt[q]] = 0
      BY <3>1, FireFacts DEF Ready
    <3>3. ~logged[tgt[q]].execution
      BY <3>2 DEF IInv, FireInv, WholeLines
    <3> QED
      BY <1>1, <1>4, <3>1, <3>3 DEF Entered
  <2>2. CASE kind[q] = "record" /\ pc[q] \in {"read", pc'[q]}
    <3>1. tgt[q] \in ProposalIds /\ Owns(q, tgt[q])
      BY <1>4, <2>2, ControlFacts DEF IInv, Owns
    <3> QED
      BY <1>1, <1>2, <1>4, <2>2, <3>1 DEF Entered, UnsaidInv
  <2> QED
    BY <1>1, <1>4, <2>1, <2>2 DEF Entered
<1> QED
  BY <1>3, <1>4

LEMMA KnownStep ==
  ASSUME IInv, WholeLines, KnownInv, [Next]_vars
  PROVE  KnownInv'
<1>1. ASSUME NEW p \in ProposalIds, logged[p].state # "absent"
      PROVE  logged'[p].state # "absent"
  <2>1. ASSUME NEW r \in Procs, AppendAudit(r) PROVE logged'[p].state # "absent"
    <3>1. row[r].state # "absent"
      BY <2>1, Appends DEF Writes, CloseKinds
    <3> QED
      BY <1>1, <2>1, <3>1, Appends DEF IInv, TypeOK
  <2> QED
    BY <1>1, <2>1, FileSteps
<1>2. ASSUME NEW q \in Procs, pc'[q] = "upsert" PROVE logged'[tgt'[q]].state # "absent"
  <2>1. tgt'[q] = tgt[q] /\ (pc[q] = "upsert" \/ AppendAudit(q))
    BY <1>2, Entering DEF IInv, Entered
  <2>2. CASE pc[q] = "upsert"
    <3>1. tgt[q] \in ProposalIds /\ logged[tgt[q]].state # "absent"
      BY <2>2, ControlFacts DEF IInv, KnownInv
    <3> QED
      BY <1>1, <2>1, <3>1
  <2>3. CASE AppendAudit(q)
    <3>1. row[q].state # "absent"
      BY <2>3, Appends DEF Writes, CloseKinds
    <3> QED
      BY <2>1, <2>3, <3>1, Appends DEF IInv, TypeOK
  <2> QED
    BY <2>1, <2>2, <2>3
<1>3. ASSUME NEW p \in ProposalIds, index'[p].state # "absent"
      PROVE  logged'[p].state # "absent"
  <2>1. CASE index[p].state # "absent"
    BY <1>1, <2>1 DEF KnownInv
  <2>2. CASE index' = index
    BY <1>3, <2>1, <2>2
  <2>3. ASSUME NEW q \in Procs, CasFromPending(q), index[p].state = "absent"
        PROVE  index'[p] = index[p]
    BY <2>3, ControlFacts DEF CasFromPending, IInv, TypeOK
  <2>4. ASSUME NEW q \in Procs, Upsert(q) PROVE logged'[p].state # "absent"
    <3>1. CASE tgt[q] = p
      BY <1>1, <2>4, <3>1 DEF Upsert, At, KnownInv
    <3>2. CASE tgt[q] # p
      <4>1. index'[p] = index[p]
        BY <2>4, <3>2 DEF Upsert, IInv, TypeOK
      <4> QED
        BY <1>3, <2>1, <4>1
    <3> QED
      BY <3>1, <3>2
  <2>5. ASSUME NEW q \in Procs, ReconcileWrite(q) PROVE logged'[p].state # "absent"
    <3>1. index' = logged
      BY <2>5 DEF ReconcileWrite, At, IInv, RebuildInv
    <3> QED
      BY <1>1, <1>3, <3>1
  <2>6. ASSUME NEW q \in Procs,
               AppendAudit(q) \/ FireFilled(q) \/ FireAmbiguous(q) \/ CrashMidAppend(q)
        PROVE  index' = index
    BY <2>6 DEF AppendAudit, FireFilled, FireAmbiguous, CrashMidAppend, store
  <2>7. UNCHANGED <<store, fires>> => index' = index
    BY DEF store
  <2> QED
    BY <1>3, StoreSteps, <2>1, <2>2, <2>3, <2>4, <2>5, <2>6, <2>7
<1> QED
  BY <1>1, <1>2, <1>3 DEF KnownInv

\* The invariant of this module holds in every reachable state.
THEOREM FileInductive == ASSUME WholeLines PROVE Spec => []LInv
<1>1. SafeConfig
  BY DEF WholeLines, SafeConfig, Offline
<1>2. Init => UnsaidInv /\ KnownInv
  BY DEF Init, UnsaidInv, KnownInv
<1>3. IInv /\ UnsaidInv /\ KnownInv /\ [Next]_vars => UnsaidInv' /\ KnownInv'
  BY UnsaidStep, KnownStep
<1> QED
  BY <1>1, <1>2, <1>3, Inductive, PTL DEF Spec, LInv

-----------------------------------------------------------------------------
(***************************************************************************)
(* What the file says is closed.                                           *)
(***************************************************************************)
Final(p) == logged[p].state \in Closed \/ logged[p].execution

LEMMA FinalState ==
  ASSUME IInv, WholeLines, NEW p \in ProposalIds, Final(p)
  PROVE  index[p].state = logged[p].state /\ index[p].state \notin {"pending", "absent"}
BY DEF Final, Closed, IInv, LogInv, FireInv, WholeLines

\* Nothing is appended for a proposal that the file says is closed or executed.
LEMMA FinalNotAppended ==
  ASSUME LInv, WholeLines, NEW p \in ProposalIds, Final(p), NEW q \in Procs, AppendAudit(q)
  PROVE  tgt[q] # p
<1> SUFFICES ASSUME tgt[q] = p PROVE FALSE
  OBVIOUS
<1>1. pc[q] = "log" /\ kind[q] \in CloseKinds \cup {"create", "record", "release"}
  BY Appends DEF LInv
<1>2. index[p].state = logged[p].state /\ index[p].state \notin {"pending", "absent"}
  BY FinalState DEF LInv
<1>3. CASE kind[q] \in CloseKinds
  <2>1. logged[p].state \notin Closed
    BY <1>1, <1>3 DEF LInv, UnsaidInv
  <2>2. fires[p] = 0
    BY <1>1, <1>3 DEF LInv, IInv, OwnerInv, Owns, CloseKinds
  <2> QED
    BY <2>1, <2>2 DEF Final, LInv, IInv, FireInv, WholeLines
<1>4. CASE kind[q] = "create"
  BY <1>2, <1>4 DEF LInv, IInv, CreateInv
<1>5. CASE kind[q] = "record"
  <2>1. ~logged[p].execution
    BY <1>1, <1>5 DEF LInv, UnsaidInv
  <2>2. index[p].state = "approved"
    BY <1>5 DEF LInv, IInv, OwnerInv, Owns, CloseKinds
  <2> QED
    BY <1>2, <2>1, <2>2 DEF Final, Closed
<1>6. CASE kind[q] = "release"
  <2>1. index[p].state = "approved" /\ fires[p] = 0
    BY <1>6 DEF LInv, IInv, OwnerInv, Owns, CloseKinds
  <2> QED
    BY <1>2, <2>1 DEF Final, Closed, LInv, IInv, FireInv, WholeLines
<1> QED
  BY <1>1, <1>3, <1>4, <1>5, <1>6

\* Once the file records a proposal as rejected, expired or executed, no
\* operation, crash or rebuild changes what the two stores say of it.
THEOREM ClosedStays == ASSUME WholeLines PROVE Spec => ClosedIsFinal
<1> DEFINE Step == \A p \in ProposalIds :
               logged[p].state \in {"rejected", "expired"} \/ logged[p].execution =>
                 logged'[p] = logged[p] /\ index'[p].state = logged[p].state
<1>1. LInv /\ [Next]_vars => [Step]_vars
  <2> SUFFICES ASSUME LInv, [Next]_vars, NEW p \in ProposalIds, Final(p)
               PROVE  logged'[p] = logged[p] /\ index'[p].state = logged[p].state
    BY DEF Final, Closed
  <2>1. IInv /\ index[p].state = logged[p].state /\ index[p].state \notin {"pending", "absent"}
    BY FinalState DEF LInv
  <2>2. logged'[p] = logged[p]
    <3>1. ASSUME NEW q \in Procs, AppendAudit(q) PROVE logged'[p] = logged[p]
      BY <3>1, <2>1, FinalNotAppended, Appends DEF IInv, TypeOK
    <3> QED
      BY <3>1, FileSteps
  <2>3. ASSUME NEW q \in Procs, CasFromPending(q) PROVE index'[p] = index[p]
    BY <2>1, <2>3, ControlFacts DEF CasFromPending, IInv, TypeOK
  <2>4. ASSUME NEW q \in Procs, Upsert(q) PROVE index'[p].state = index[p].state
    <3>1. CASE tgt[q] # p
      BY <2>1, <2>4, <3>1 DEF Upsert, IInv, TypeOK
    <3>2. CASE tgt[q] = p
      <4>1. pc[q] = "upsert" /\ kind[q] \in {"create", "record", "release"}
        BY <2>1, <2>4, ControlFacts DEF IInv, Upsert, At
      <4>2. kind[q] # "create"
        BY <2>1, <3>2 DEF IInv, CreateInv
      <4>3. kind[q] # "release"
        <5>1. ASSUME kind[q] = "release" PROVE logged[p].state = "pending"
          BY <2>1, <3>2, <4>1, <5>1 DEF IInv, OwnerInv, Owns, WholeLines
        <5> QED
          BY <2>1, <5>1
      <4>4. index[p].state = "approved" /\ row[q].state = "approved"
        BY <2>1, <3>2, <4>1, <4>2, <4>3
           DEF IInv, OwnerInv, Owns, CloseKinds, RowInv, Writes
      <4> QED
        BY <2>1, <2>4, <3>2, <4>4 DEF Upsert, IInv, TypeOK
    <3> QED
      BY <3>1, <3>2
  <2>5. ASSUME NEW q \in Procs, ReconcileWrite(q) PROVE index'[p] = logged[p]
    BY <2>1, <2>5 DEF ReconcileWrite, At, IInv, RebuildInv
  <2>6. ASSUME NEW q \in Procs,
               AppendAudit(q) \/ FireFilled(q) \/ FireAmbiguous(q) \/ CrashMidAppend(q)
        PROVE  index' = index
    BY <2>6 DEF AppendAudit, FireFilled, FireAmbiguous, CrashMidAppend, store
  <2>7. UNCHANGED <<store, fires>> => index' = index
    BY DEF store
  <2> QED
    BY StoreSteps, <2>1, <2>2, <2>3, <2>4, <2>5, <2>6, <2>7
<1> QED
  BY <1>1, FileInductive, PTL DEF Spec, ClosedIsFinal

-----------------------------------------------------------------------------
(***************************************************************************)
(* The refinement.                                                         *)
(***************************************************************************)
\* The status of a proposal, case by case.
LEMMA Statuses ==
  ASSUME IInv, NEW p \in ProposalIds
  PROVE  /\ StatusOf(p) \in Lifecycle!Status
         /\ fires[p] = 1 <=> StatusOf(p) = "filled"
         /\ fires[p] = 0 /\ logged[p].state \in Closed => StatusOf(p) = logged[p].state
         /\ fires[p] = 0 /\ logged[p].state \notin Closed =>
              /\ index[p].state = "approved" => StatusOf(p) = "claimed"
              /\ index[p].state = "absent" => StatusOf(p) = "absent"
              /\ index[p].state \in {"pending", "rejected", "expired"} => StatusOf(p) = "pending"
<1>1. fires[p] \in {0, 1} /\ index[p].state \in States
  BY DEF IInv, FireInv, TypeOK, Row
<1> QED
  BY <1>1 DEF StatusOf, Closed, States, Lifecycle!Status

\* A proposal follows the life cycle from one state to the next.
Follows(p) ==
  StatusOf(p)' # StatusOf(p) => <<StatusOf(p), StatusOf(p)'>> \in Lifecycle!Transitions

\* A compare-and-set claims a pending proposal, or closes it in the index only.
LEMMA CasFollows ==
  ASSUME LInv, WholeLines, NEW p \in ProposalIds, NEW q \in Procs, CasFromPending(q)
  PROVE  Follows(p)
<1>1. logged' = logged /\ fires' = fires /\ tgt[q] \in ProposalIds
      /\ kind[q] \in CloseKinds /\ row[q].state = Writes[kind[q]]
  BY ControlFacts DEF CasFromPending, At, world, LInv, IInv, RowInv
<1>2. CASE index'[p] = index[p]
  BY <1>1, <1>2 DEF Follows, StatusOf
<1>3. CASE index'[p] # index[p]
  <2>1. p = tgt[q] /\ index[p].state = "pending" /\ index'[p] = row[q]
    BY <1>1, <1>3 DEF CasFromPending, LInv, IInv, TypeOK
  <2>2. fires[p] = 0 /\ logged[p].state \notin Closed
    BY <2>1 DEF LInv, IInv, FireInv, LogInv, Closed, WholeLines
  <2>3. index'[p].state \in {"approved", "rejected", "expired"}
    BY <1>1, <2>1 DEF Writes, CloseKinds
  <2>4. StatusOf(p) = "pending"
    BY <2>1, <2>2, Statuses DEF LInv
  <2>5. StatusOf(p)' \in {"claimed", "pending"}
    BY <1>1, <2>2, <2>3 DEF StatusOf, Closed
  <2> QED
    BY <2>4, <2>5 DEF Follows, Lifecycle!Transitions
<1> QED
  BY <1>2, <1>3

\* An append closes a rejected or expired proposal, and changes no other.
LEMMA AppendFollows ==
  ASSUME LInv, WholeLines, NEW p \in ProposalIds, NEW q \in Procs, AppendAudit(q)
  PROVE  Follows(p)
<1>1. /\ tgt[q] \in ProposalIds /\ pc[q] = "log"
      /\ logged' = [logged EXCEPT ![tgt[q]] = row[q]]
      /\ index' = index /\ fires' = fires
      /\ row[q].state = Writes[kind[q]]
      /\ kind[q] \in CloseKinds \cup {"create", "record", "release"}
  BY Appends DEF LInv
<1>2. CASE tgt[q] # p
  <2>1. logged'[p] = logged[p]
    BY <1>1, <1>2 DEF LInv, IInv, TypeOK
  <2> QED
    BY <1>1, <2>1 DEF Follows, StatusOf
<1>3. CASE tgt[q] = p
  <2>1. logged'[p] = row[q]
    BY <1>1, <1>3 DEF LInv, IInv, TypeOK
  <2>2. CASE kind[q] \in CloseKinds
    <3>1. index[p].state = Writes[kind[q]] /\ fires[p] = 0
      BY <1>1, <1>3, <2>2 DEF LInv, IInv, OwnerInv, Owns, CloseKinds
    <3>2. logged[p].state \notin Closed
      BY <1>1, <1>3, <2>2 DEF LInv, UnsaidInv
    <3>3. CASE index[p].state = "approved"
      BY <1>1, <2>1, <3>1, <3>2, <3>3 DEF Follows, StatusOf, Closed
    <3>4. CASE index[p].state \in Closed
      <4>1. StatusOf(p) = "pending"
        BY <3>1, <3>2, <3>4, Statuses DEF LInv, Closed
      <4>2. StatusOf(p)' \in Closed
        BY <1>1, <2>1, <3>1, <3>4 DEF StatusOf, Closed
      <4> QED
        BY <4>1, <4>2 DEF Follows, Closed, Lifecycle!Transitions
    <3> QED
      BY <2>2, <3>1, <3>3, <3>4 DEF Writes, CloseKinds, Closed
  <2>3. CASE kind[q] \in {"create", "release"}
    <3>1. index[p].state \in {"absent", "approved"} /\ row[q].state = "pending"
      BY <1>1, <1>3, <2>3 DEF LInv, IInv, CreateInv, OwnerInv, Owns, CloseKinds, Writes
    <3>2. logged[p].state \notin Closed
      BY <3>1 DEF LInv, IInv, LogInv, Closed, WholeLines
    <3> QED
      BY <1>1, <2>1, <3>1, <3>2 DEF Follows, StatusOf, Closed
  <2>4. CASE kind[q] = "record"
    <3>1. fires[p] = 1
      BY <1>3, <2>4 DEF LInv, IInv, OwnerInv, Owns
    <3> QED
      BY <1>1, <3>1 DEF Follows, StatusOf
  <2> QED
    BY <1>1, <2>2, <2>3, <2>4
<1> QED
  BY <1>2, <1>3

\* An update makes a new proposal pending, or hands a claimed one back.
LEMMA UpsertFollows ==
  ASSUME LInv, WholeLines, NEW p \in ProposalIds, NEW q \in Procs, Upsert(q)
  PROVE  Follows(p)
<1>1. /\ tgt[q] \in ProposalIds /\ pc[q] = "upsert"
      /\ kind[q] \in {"create", "record", "release"}
      /\ row[q].state = Writes[kind[q]]
      /\ logged' = logged /\ fires' = fires
      /\ index' = [index EXCEPT ![tgt[q]] = row[q]]
  BY ControlFacts DEF LInv, IInv, Upsert, At, RowInv, world
<1>2. CASE tgt[q] # p
  <2>1. index'[p] = index[p]
    BY <1>1, <1>2 DEF LInv, IInv, TypeOK
  <2> QED
    BY <1>1, <2>1 DEF Follows, StatusOf
<1>3. CASE tgt[q] = p
  <2>1. index'[p] = row[q]
    BY <1>1, <1>3 DEF LInv, IInv, TypeOK
  <2>2. CASE kind[q] = "record"
    <3>1. fires[p] = 1
      BY <1>3, <2>2 DEF LInv, IInv, OwnerInv, Owns
    <3> QED
      BY <1>1, <3>1 DEF Follows, StatusOf
  <2>3. CASE kind[q] \in {"create", "release"}
    <3>1. /\ index[p].state \in {"absent", "approved"}
          /\ fires[p] = 0 /\ logged[p].state \notin Closed
      <4>1. index[p].state = (IF kind[q] = "create" THEN "absent" ELSE "approved")
        BY <1>3, <2>3 DEF LInv, IInv, CreateInv, OwnerInv, Owns, CloseKinds
      <4>2. fires[p] = 0
        BY <1>3, <2>3, <4>1 DEF LInv, IInv, FireInv, OwnerInv, Owns
      <4> QED
        BY <4>1, <4>2 DEF LInv, IInv, LogInv, Closed, WholeLines
    <3>2. StatusOf(p) \in {"absent", "claimed"}
      BY <3>1, Statuses DEF LInv
    <3>3. StatusOf(p)' = "pending"
      BY <1>1, <2>1, <2>3, <3>1 DEF StatusOf, Closed, Writes
    <3> QED
      BY <3>2, <3>3 DEF Follows, Lifecycle!Transitions
  <2> QED
    BY <1>1, <2>2, <2>3
<1> QED
  BY <1>2, <1>3

\* A fire fills a claimed proposal, or leaves it claimed.
LEMMA FireFollows ==
  ASSUME LInv, WholeLines, NEW p \in ProposalIds, NEW q \in Procs,
         FireFilled(q) \/ FireAmbiguous(q)
  PROVE  Follows(p)
<1>1. pc[q] = "fire" /\ index' = index /\ logged' = logged
  BY DEF FireFilled, FireAmbiguous, At, store
<1>2. Ready(q)
  BY <1>1, FireFacts DEF LInv
<1>3. fires' = fires \/ fires' = [fires EXCEPT ![tgt[q]] = @ + 1]
  BY DEF FireFilled, FireAmbiguous
<1>4. CASE fires'[p] = fires[p]
  BY <1>1, <1>4 DEF Follows, StatusOf
<1>5. CASE fires'[p] # fires[p]
  <2>1. p = tgt[q] /\ fires[p] = 0 /\ fires'[p] = 1
    BY <1>2, <1>3, <1>5 DEF Ready, LInv, IInv, TypeOK
  <2>2. StatusOf(p) = "claimed"
    <3>1. index[p].state = "approved" /\ logged[p].state = "approved"
      BY <1>2, <2>1 DEF Ready, WholeLines
    <3> QED
      BY <2>1, <3>1, Statuses DEF LInv, Closed
  <2>3. StatusOf(p)' = "filled"
    BY <2>1 DEF StatusOf
  <2> QED
    BY <2>2, <2>3 DEF Follows, Lifecycle!Transitions
<1> QED
  BY <1>4, <1>5

\* A rebuild shows a claim that never reached the file as pending again, and
\* a proposal that had reached nothing but the file as pending.
LEMMA RebuildFollows ==
  ASSUME LInv, WholeLines, NEW p \in ProposalIds, NEW q \in Procs, ReconcileWrite(q)
  PROVE  Follows(p)
<1>1. index' = logged /\ logged' = logged /\ fires' = fires
  BY DEF ReconcileWrite, At, world, LInv, IInv, RebuildInv
<1>2. fires[p] \in {0, 1} /\ index[p].state \in States /\ logged[p].state \in States
  BY DEF LInv, IInv, FireInv, TypeOK, Row
<1>3. CASE fires[p] = 1 \/ logged[p].state \in Closed
  BY <1>1, <1>3 DEF Follows, StatusOf, Closed
<1>4. CASE fires[p] = 0 /\ logged[p].state = "approved"
  <2>1. index[p].state = "approved"
    BY <1>4 DEF LInv, IInv, LogInv, WholeLines
  <2> QED
    BY <1>1, <1>4, <2>1 DEF Follows, StatusOf
<1>5. CASE fires[p] = 0 /\ logged[p].state = "absent"
  <2>1. index[p].state = "absent"
    BY <1>5 DEF LInv, KnownInv
  <2> QED
    BY <1>1, <1>5, <2>1 DEF Follows, StatusOf
<1>6. CASE fires[p] = 0 /\ logged[p].state = "pending"
  <2>1. StatusOf(p) \in {"absent", "claimed", "pending"}
    BY <1>2, <1>6, Statuses DEF LInv, States, Closed
  <2>2. StatusOf(p)' = "pending"
    BY <1>1, <1>6 DEF StatusOf
  <2> QED
    BY <2>1, <2>2 DEF Follows, Lifecycle!Transitions
<1> QED
  BY <1>2, <1>3, <1>4, <1>5, <1>6 DEF States, Closed

\* The store, with its processes, crashes and rebuilds, implements the life
\* cycle of a proposal.
THEOREM Implements == ASSUME WholeLines PROVE Spec => ImplementsLifecycle
<1>1. Init => Lifecycle!Init
  <2> SUFFICES ASSUME Init PROVE \A p \in ProposalIds : StatusOf(p) = "absent"
    BY DEF Lifecycle!Init
  <2> QED
    BY DEF Init, StatusOf, NoRow
<1>2. LInv /\ LInv' /\ [Next]_vars => [Lifecycle!Next]_([p \in ProposalIds |-> StatusOf(p)])
  <2> SUFFICES ASSUME LInv, LInv', [Next]_vars PROVE Lifecycle!Next
    OBVIOUS
  <2>1. \A p \in ProposalIds : StatusOf(p)' \in Lifecycle!Status
    <3> SUFFICES ASSUME NEW p \in ProposalIds PROVE StatusOf(p)' \in Lifecycle!Status
      OBVIOUS
    <3>1. index'[p].state \in States /\ logged'[p].state \in States
      BY DEF LInv, IInv, TypeOK, Row
    <3> QED
      BY <3>1 DEF StatusOf, States, Lifecycle!Status
  <2>2. \A p \in ProposalIds : Follows(p)
    <3> SUFFICES ASSUME NEW p \in ProposalIds PROVE Follows(p)
      OBVIOUS
    <3>1. CASE UNCHANGED <<store, fires>>
      BY <3>1 DEF Follows, StatusOf, store
    <3>2. ASSUME NEW q \in Procs, CrashMidAppend(q) PROVE FALSE
      BY <3>2 DEF CrashMidAppend, WholeLines
    <3> QED
      BY StoreSteps, <3>1, <3>2, CasFollows, AppendFollows, UpsertFollows, FireFollows,
         RebuildFollows DEF LInv
  <2> QED
    BY <2>1, <2>2 DEF Follows, Lifecycle!Next
<1> QED
  BY <1>1, <1>2, FileInductive, PTL DEF Spec, ImplementsLifecycle, Lifecycle!Spec
=============================================================================
