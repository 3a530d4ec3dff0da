--------------------------- MODULE ReactorsProofs ---------------------------
(***************************************************************************)
(* Proofs about Reactors and the orders it sends, for any proposals, kinds *)
(* and deployments, any quantity and any length of the poll.               *)
(***************************************************************************)
EXTENDS Reactors, FiniteSetTheorems, TLAPS

-----------------------------------------------------------------------------
(* One order.                                                              *)

\* What holds of an order b at the broker and the call c that made it: a call
\* that waits has an order; a fill it reports is there; one reported without a
\* cancel is all there will be.
OrderOK(b, c) ==
  /\ b.status = "unknown" => b.filled = 0
  /\ b.status = "working" => b.filled < b.size
  /\ c.at \in {"poll", "reread"} => b.status # "unknown" /\ c.result.kind = "pending"
  /\ c.at = "poll" => c.cancel = "no"
  /\ c.at = "reread" => c.cancel # "no"
  /\ c.at = "idle" => c.result.kind = "pending" /\ c.cancel = "no"
  /\ c.result.kind # "fill" => c.result.qty = 0
  /\ c.result.kind = "fill" =>
       /\ 0 < c.result.qty /\ c.result.qty <= b.filled
       /\ c.cancel = "no" => b.status # "working" /\ c.result.qty = b.filled

OrderInv == \A o \in Orders : OrderOK(broker[o], call[o])

LEMMA ConstantsAre == Qty \in Nat \ {0} /\ MaxReads \in Nat
BY OrderAssumption

LEMMA ResultsAre ==
  /\ Raised \in Result /\ Unfilled \in Result /\ Pending \in Result
  /\ Raised.kind = "raised" /\ Unfilled.kind = "unfilled" /\ Pending.kind = "pending"
  /\ Raised.qty = 0 /\ Unfilled.qty = 0 /\ Pending.qty = 0
  /\ NoCall \in Call /\ NoCall.at = "idle" /\ NoCall.cancel = "no" /\ NoCall.result = Pending
<1>1. 0 \in 0..Qty /\ 0 \in 0..MaxReads
  BY ConstantsAre
<1> QED
  BY <1>1 DEF Raised, Unfilled, Pending, NoCall, Result, Call

\* What a snapshot of the order may be.
Shows(s, b) == /\ s \in Snapshot
               /\ s.status = b.status \/ (s.status = "partial" /\ b.status = "working")
               /\ s.filled = b.filled \/ s.filled = 0

LEMMA AnswersShow ==
  ASSUME OrderTypeOK, NEW o \in Orders, broker[o].status # "unknown", NEW s \in Answers(o)
  PROVE  Shows(s, broker[o])
<1>1. broker[o] \in BrokerOrder
  BY DEF OrderTypeOK
<1> DEFINE st == broker[o].status
           n == broker[o].filled
           u == [status |-> st, filled |-> n]
<1>2. st \in {"working", "filled", "closed"} /\ n \in 0..Qty /\ 0 \in 0..Qty
  BY <1>1, ConstantsAre DEF BrokerOrder
<1>3. \/ s = u \/ s = [u EXCEPT !.filled = 0]
      \/ st = "working" /\ s = [u EXCEPT !.status = "partial"]
  BY DEF Answers, Working
<1> HIDE DEF st, n
<1>4. /\ s \in Snapshot /\ (s.filled = n \/ s.filled = 0)
      /\ s.status = st \/ (s.status = "partial" /\ st = "working")
  BY <1>2, <1>3 DEF Snapshot
<1> QED
  BY <1>4 DEF Shows, st, n

\* A report is a result; a fill of it is what the snapshot shows.
LEMMA ReportIs ==
  ASSUME NEW o, NEW s \in Snapshot
  PROVE  /\ Reported(o, s) \in Result /\ Settled(o, s) \in Result
         /\ Reported(o, s).kind \in {"fill", "raised"}
         /\ Settled(o, s).kind \in {"fill", "raised", "unfilled"}
         /\ \A r \in {Reported(o, s), Settled(o, s)} :
              /\ r.kind = "fill" => r.qty = s.filled /\ 0 < r.qty /\ r.status = s.status
              /\ r.kind # "fill" => r.qty = 0
<1>1. Filled(s) \in Result /\ Filled(s).kind = "fill" /\ Filled(s).qty = s.filled
      /\ Filled(s).status = s.status
  BY DEF Filled, Result, Snapshot
<1>2. s.filled \in Nat
  BY ConstantsAre DEF Snapshot
<1>3. Reported(o, s) = Raised \/ (Reported(o, s) = Filled(s) /\ s.filled > 0)
  BY DEF Reported
<1>4. Settled(o, s) = Unfilled \/ Settled(o, s) = Reported(o, s)
  BY DEF Settled
<1> QED
  BY <1>1, <1>2, <1>3, <1>4, ResultsAre

\* The call of o becomes c.
CallIs(o, c) == /\ c \in Call /\ call' \in [Orders -> Call] /\ call'[o] = c
                /\ \A q \in Orders \ {o} : call'[q] = call[q]

LEMMA EndsIs ==
  ASSUME OrderTypeOK, NEW o \in Orders, NEW r \in Result, Ends(o, r)
  PROVE  \E c \in Call : /\ CallIs(o, c) /\ c.at = "done" /\ c.result = r
                         /\ c.cancel = call[o].cancel
<1> DEFINE c == [call[o] EXCEPT !.at = "done", !.result = r]
<1>1. c \in Call /\ c.at = "done" /\ c.result = r /\ c.cancel = call[o].cancel
  BY DEF OrderTypeOK, Call
<1>2. call' = [call EXCEPT ![o] = c]
  BY DEF Ends
<1> HIDE DEF c
<1> QED
  BY <1>1, <1>2 DEF CallIs, OrderTypeOK

LEMMA JudgeIs ==
  ASSUME OrderTypeOK, NEW o \in Orders, NEW s \in Snapshot, NEW n \in 0..MaxReads,
         Judge(o, s, n)
  PROVE  \E c \in Call :
           /\ CallIs(o, c) /\ c.cancel = call[o].cancel
           /\ \/ c.at = "done" /\ Terminal(o, s) /\ c.result = Reported(o, s)
              \/ c.at = "poll" /\ c.result = call[o].result
<1>1. CASE Terminal(o, s)
  BY <1>1, EndsIs, ReportIs DEF Judge
<1>2. CASE ~Terminal(o, s)
  <2> DEFINE c == [call[o] EXCEPT !.at = "poll", !.reads = n]
  <2>1. c \in Call /\ c.at = "poll" /\ c.result = call[o].result /\ c.cancel = call[o].cancel
    BY DEF OrderTypeOK, Call
  <2>2. call' = [call EXCEPT ![o] = c]
    BY <1>2 DEF Judge
  <2> HIDE DEF c
  <2> QED
    BY <2>1, <2>2 DEF CallIs, OrderTypeOK
<1> QED
  BY <1>1, <1>2

\* The broker moves on, and no call.
LEMMA BrokerKeeps ==
  ASSUME OrderTypeOK, OrderInv, NEW o \in Orders, BrokerStep(o)
  PROVE  /\ OrderTypeOK' /\ OrderInv' /\ UNCHANGED call
         /\ \A q \in Orders : /\ broker[q].filled <= broker'[q].filled
                              /\ (broker'[q].status = "unknown") = (broker[q].status = "unknown")
<1> DEFINE b == broker[o]
<1>1. b \in BrokerOrder /\ b.status = "working" /\ OrderOK(b, call[o]) /\ UNCHANGED call
  BY DEF BrokerStep, BrokerFills, BrokerCloses, Working, OrderInv, OrderTypeOK
<1>2. b.filled \in Nat /\ b.size \in 0..Qty /\ b.filled < b.size
  BY <1>1, ConstantsAre DEF OrderOK, BrokerOrder
<1>3. \A q \in Orders : broker[q].filled \in Nat
  BY ConstantsAre DEF OrderTypeOK, BrokerOrder
<1>4. PICK e \in BrokerOrder :
        /\ broker' = [broker EXCEPT ![o] = e] /\ e.size = b.size
        /\ e.status # "unknown" /\ b.filled <= e.filled
        /\ e.status = "working" => e.filled < e.size
  <2>1. CASE BrokerFills(o)
    <3> DEFINE n == b.filled + 1
               st == IF n = b.size THEN "filled" ELSE "working"
               e == [b EXCEPT !.filled = n, !.status = st]
    <3>1. broker' = [broker EXCEPT ![o] = e]
      BY <2>1 DEF BrokerFills
    <3>2. n \in 0..Qty /\ b.filled <= n /\ (st = "working" => n < b.size)
          /\ st \in {"filled", "working"}
      BY <1>2, ConstantsAre
    <3> HIDE DEF n, st
    <3>3. e \in BrokerOrder /\ e.size = b.size /\ e.status = st /\ e.filled = n
      BY <1>1, <3>2 DEF BrokerOrder
    <3> HIDE DEF e
    <3> QED
      BY <3>1, <3>2, <3>3
  <2>2. CASE BrokerCloses(o)
    <3> DEFINE e == [b EXCEPT !.status = "closed"]
    <3>1. broker' = [broker EXCEPT ![o] = e]
      BY <2>2 DEF BrokerCloses
    <3>2. e \in BrokerOrder /\ e.size = b.size /\ e.status = "closed" /\ e.filled = b.filled
      BY <1>1 DEF BrokerOrder
    <3>3. e.status # "unknown" /\ b.filled <= e.filled /\ e.status # "working"
      BY <1>2, <3>2
    <3> HIDE DEF e
    <3> QED
      BY <3>1, <3>2, <3>3
  <2> QED
    BY <2>1, <2>2 DEF BrokerStep
<1>5. broker' \in [Orders -> BrokerOrder] /\ broker'[o] = e
      /\ \A q \in Orders \ {o} : broker'[q] = broker[q]
  BY <1>4 DEF OrderTypeOK
<1>6. call[o] \in Call /\ call[o].result.qty \in Nat /\ e.filled \in Nat
  BY ConstantsAre DEF OrderTypeOK, Call, Result, BrokerOrder
<1>7. OrderOK(e, call[o])
  BY <1>1, <1>2, <1>4, <1>6 DEF OrderOK
<1>8. OrderTypeOK'
  BY <1>1, <1>5 DEF OrderTypeOK
<1>9. OrderInv'
  BY <1>1, <1>5, <1>7 DEF OrderInv
<1>10. \A q \in Orders : /\ broker[q].filled <= broker'[q].filled
                         /\ (broker'[q].status = "unknown") = (broker[q].status = "unknown")
  BY <1>1, <1>3, <1>4, <1>5
<1> QED
  BY <1>1, <1>8, <1>9, <1>10

\* The client goes on with its call, and the broker does not.
LEMMA ClientKeeps ==
  ASSUME OrderTypeOK, OrderInv, NEW o \in Orders, ClientStep(o)
  PROVE  /\ OrderTypeOK' /\ OrderInv' /\ UNCHANGED broker
         /\ \E c \in Call : CallIs(o, c) /\ c.at # "idle"
         /\ call[o].at \in {"poll", "reread"}
<1> DEFINE b == broker[o]
           k == call[o]
<1>1. b \in BrokerOrder /\ k \in Call /\ OrderOK(b, k)
      /\ k.at \in {"poll", "reread"} /\ UNCHANGED broker
  BY DEF ClientStep, Poll, Cancel, Reread, OrderInv, OrderTypeOK
<1>2. /\ b.status # "unknown" /\ k.result.kind = "pending"
      /\ \A s \in Answers(o) : Shows(s, b)
  BY <1>1, AnswersShow DEF OrderOK
<1>3. b.filled \in Nat
  BY <1>1, ConstantsAre DEF BrokerOrder
<1>4. \E c \in Call : CallIs(o, c) /\ c.at # "idle" /\ OrderOK(b, c)
  <2>1. CASE Poll(o)
    <3>1. k.at = "poll" /\ k.cancel = "no" /\ k.reads + 1 \in 0..MaxReads
      BY <1>1, <2>1, ConstantsAre DEF Poll, OrderOK, Call
    <3>2. CASE Ends(o, Raised)
      BY <1>1, <1>2, <3>2, EndsIs, ResultsAre DEF OrderOK
    <3>3. CASE \E s \in Answers(o) : Judge(o, s, k.reads + 1)
      <4>1. PICK s \in Answers(o) : Judge(o, s, k.reads + 1)
        BY <3>3
      <4>2. Shows(s, b)
        BY <1>2
      <4>3. PICK c \in Call :
              /\ CallIs(o, c) /\ c.cancel = k.cancel
              /\ \/ c.at = "done" /\ Terminal(o, s) /\ c.result = Reported(o, s)
                 \/ c.at = "poll" /\ c.result = k.result
        BY <3>1, <4>1, <4>2, JudgeIs DEF Shows
      <4>4. CASE c.at = "poll" /\ c.result = k.result
        BY <1>1, <1>2, <3>1, <4>3, <4>4 DEF OrderOK
      <4>5. CASE c.at = "done" /\ Terminal(o, s) /\ c.result = Reported(o, s)
        <5>1. c.result.kind = "fill" => /\ 0 < c.result.qty /\ c.result.qty = b.filled
                                        /\ b.status # "working"
          BY <1>3, <4>2, <4>5, ReportIs DEF Shows, Terminal
        <5>2. c.result.kind # "pending" /\ (c.result.kind # "fill" => c.result.qty = 0)
          BY <4>2, <4>5, ReportIs DEF Shows
        <5> QED
          BY <1>1, <1>2, <1>3, <4>3, <4>5, <5>1, <5>2 DEF OrderOK
      <4> QED
        BY <4>3, <4>4, <4>5
    <3> QED
      BY <2>1, <3>2, <3>3 DEF Poll
  <2>2. CASE Cancel(o)
    <3>1. PICK a \in {"confirmed", "failed"} :
            call' = [call EXCEPT ![o].at = "reread", ![o].cancel = a]
      BY <2>2 DEF Cancel
    <3> DEFINE c == [k EXCEPT !.at = "reread", !.cancel = a]
    <3>2. call' = [call EXCEPT ![o] = c]
      BY <3>1
    <3>3. c \in Call /\ c.at = "reread" /\ c.cancel = a /\ c.result = k.result
      BY <1>1 DEF Call
    <3> HIDE DEF c
    <3>4. CallIs(o, c)
      BY <3>2, <3>3 DEF CallIs, OrderTypeOK
    <3> QED
      BY <1>1, <1>2, <3>3, <3>4 DEF OrderOK
  <2>3. CASE Reread(o)
    <3>1. k.cancel # "no"
      BY <1>1, <2>3 DEF Reread, OrderOK
    <3>2. PICK r \in Result :
            /\ Ends(o, r) /\ r.kind # "pending"
            /\ r.kind = "fill" => 0 < r.qty /\ r.qty <= b.filled
            /\ r.kind # "fill" => r.qty = 0
      <4>1. CASE \E s \in Answers(o) : Ends(o, Settled(o, s))
        <5>1. PICK s \in Answers(o) : Ends(o, Settled(o, s))
          BY <4>1
        <5>2. Shows(s, b)
          BY <1>2
        <5> QED
          BY <1>3, <5>1, <5>2, ReportIs DEF Shows
      <4>2. CASE Ends(o, IF call[o].cancel = "confirmed" THEN Unfilled ELSE Raised)
        BY <4>2, ResultsAre
      <4> QED
        BY <2>3, <4>1, <4>2 DEF Reread
    <3>3. PICK c \in Call : CallIs(o, c) /\ c.at = "done" /\ c.result = r
                            /\ c.cancel = k.cancel
      BY <3>2, EndsIs
    <3> QED
      BY <1>1, <3>1, <3>2, <3>3 DEF OrderOK
  <2> QED
    BY <2>1, <2>2, <2>3 DEF ClientStep
<1>5. PICK c \in Call : CallIs(o, c) /\ c.at # "idle" /\ OrderOK(b, c)
  BY <1>4
<1>6. OrderTypeOK'
  BY <1>1, <1>5 DEF CallIs, OrderTypeOK
<1>7. OrderInv'
  BY <1>1, <1>5 DEF CallIs, OrderInv
<1> QED
  BY <1>1, <1>5, <1>6, <1>7

\* The order of o becomes b.
BrokerIs(o, b) == /\ b \in BrokerOrder /\ broker' \in [Orders -> BrokerOrder]
                  /\ broker'[o] = b
                  /\ \A q \in Orders \ {o} : broker'[q] = broker[q]

LEMMA OrderKeeps ==
  ASSUME OrderTypeOK, OrderInv, NEW o \in Orders, NEW b, NEW c,
         BrokerIs(o, b), CallIs(o, c), OrderOK(b, c)
  PROVE  OrderTypeOK' /\ OrderInv'
BY DEF OrderTypeOK, OrderInv, BrokerIs, CallIs

LEMMA BrokerStays ==
  ASSUME OrderTypeOK, UNCHANGED broker, NEW o \in Orders
  PROVE  BrokerIs(o, broker[o])
BY DEF OrderTypeOK, BrokerIs

\* An order of n units is sent: it is refused, or new at the broker.
LEMMA SubmitIs ==
  ASSUME OrderTypeOK, OrderInv, NEW o \in Orders, NEW n \in 1..Qty, Submit(o, n)
  PROVE  /\ OrderTypeOK' /\ OrderInv' /\ call[o].at = "idle"
         /\ \E b, c : /\ BrokerIs(o, b) /\ CallIs(o, c)
                      /\ \/ b = broker[o] /\ c.at = "done" /\ c.result.kind = "raised"
                         \/ broker[o].status = "unknown" /\ b.status # "unknown"
<1>1. /\ broker[o] \in BrokerOrder /\ call[o] \in Call /\ call[o].at = "idle"
      /\ OrderOK(broker[o], call[o]) /\ call[o].cancel = "no"
      /\ call[o].result.kind = "pending" /\ call[o].result.qty = 0
  BY DEF Submit, OrderTypeOK, OrderInv, OrderOK
<1>2. n \in 0..Qty /\ 0 \in 0..Qty /\ 0 \in 0..MaxReads /\ 0 < n
  BY ConstantsAre
<1> SUFFICES \E b, c : /\ BrokerIs(o, b) /\ CallIs(o, c) /\ OrderOK(b, c)
                      /\ \/ b = broker[o] /\ c.at = "done" /\ c.result.kind = "raised"
                         \/ broker[o].status = "unknown" /\ b.status # "unknown"
  BY <1>1, OrderKeeps
<1>3. CASE Ends(o, Raised) /\ UNCHANGED broker
  <2>1. PICK c \in Call : CallIs(o, c) /\ c.at = "done" /\ c.result = Raised
                         /\ c.cancel = call[o].cancel
    BY <1>3, EndsIs, ResultsAre
  <2>2. OrderOK(broker[o], c)
    BY <1>1, <2>1, ResultsAre DEF OrderOK
  <2> QED
    BY <1>3, <2>1, <2>2, BrokerStays, ResultsAre
<1>4. CASE /\ broker[o].status = "unknown"
           /\ \E s \in Accepted(n) :
                /\ broker' = [broker EXCEPT ![o] = [status |-> s.status, size |-> n,
                                                   filled |-> s.filled]]
                /\ Judge(o, s, 0) \/ Ends(o, Raised)
  <2>1. PICK s \in Accepted(n) :
          /\ broker' = [broker EXCEPT ![o] = [status |-> s.status, size |-> n,
                                             filled |-> s.filled]]
          /\ Judge(o, s, 0) \/ Ends(o, Raised)
    BY <1>4
  <2>2. /\ s \in Snapshot /\ s.status # "partial" /\ s.filled \in 0..Qty
        /\ s.status = "working" => s.filled = 0
    BY <1>2 DEF Accepted, Snapshot
  <2> DEFINE b == [status |-> s.status, size |-> n, filled |-> s.filled]
  <2>3. b \in BrokerOrder /\ b.status = s.status /\ b.filled = s.filled /\ b.size = n
    BY <1>2, <2>2 DEF BrokerOrder, Snapshot
  <2>4. broker' = [broker EXCEPT ![o] = b]
    BY <2>1
  <2> HIDE DEF b
  <2>5. BrokerIs(o, b) /\ b.status # "unknown"
    BY <2>2, <2>3, <2>4 DEF BrokerIs, OrderTypeOK, Snapshot
  <2>6. \E c : CallIs(o, c) /\ OrderOK(b, c)
    <3>1. CASE Ends(o, Raised)
      <4>1. PICK c \in Call : CallIs(o, c) /\ c.at = "done" /\ c.result = Raised
                             /\ c.cancel = call[o].cancel
        BY <3>1, EndsIs, ResultsAre
      <4>2. OrderOK(b, c)
        BY <1>1, <1>2, <2>2, <2>3, <2>5, <4>1, ResultsAre DEF OrderOK
      <4> QED
        BY <4>1, <4>2
    <3>2. CASE Judge(o, s, 0)
      <4>1. PICK c \in Call :
              /\ CallIs(o, c) /\ c.cancel = call[o].cancel
              /\ \/ c.at = "done" /\ Terminal(o, s) /\ c.result = Reported(o, s)
                 \/ c.at = "poll" /\ c.result = call[o].result
        BY <1>2, <2>2, <3>2, JudgeIs
      <4>2. CASE c.at = "poll" /\ c.result = call[o].result
        BY <1>1, <1>2, <2>2, <2>3, <2>5, <4>1, <4>2 DEF OrderOK
      <4>3. CASE c.at = "done" /\ Terminal(o, s) /\ c.result = Reported(o, s)
        <5>1. /\ c.result.kind # "pending" /\ (c.result.kind # "fill" => c.result.qty = 0)
              /\ c.result.kind = "fill" => /\ 0 < c.result.qty /\ c.result.qty = b.filled
                                           /\ b.status # "working"
          BY <1>2, <2>2, <2>3, <4>3, ReportIs
        <5>2. b.filled <= b.filled /\ (b.status = "working" => b.filled < b.size)
          BY <1>2, <2>2, <2>3, ConstantsAre
        <5> QED
          BY <1>1, <2>5, <4>1, <4>3, <5>1, <5>2 DEF OrderOK
      <4> QED
        BY <4>1, <4>2, <4>3
    <3> QED
      BY <2>1, <3>1, <3>2
  <2> QED
    BY <1>4, <2>5, <2>6
<1> QED
  BY <1>3, <1>4 DEF Submit

\* The deterministic backend answers at once.
LEMMA FilledAtOnceIs ==
  ASSUME OrderTypeOK, OrderInv, NEW o \in Orders, NEW n \in 1..Qty,
         call[o].at = "idle", FillAtOnce(o, n) \/ (Ends(o, Raised) /\ UNCHANGED broker)
  PROVE  /\ OrderTypeOK' /\ OrderInv'
         /\ \E b, c : /\ BrokerIs(o, b) /\ CallIs(o, c)
                      /\ \/ b = broker[o] /\ c.at = "done" /\ c.result.kind = "raised"
                         \/ b.status # "unknown" /\ b.filled = n
<1>1. /\ call[o] \in Call /\ OrderOK(broker[o], call[o]) /\ call[o].cancel = "no"
  BY DEF OrderTypeOK, OrderInv, OrderOK
<1>2. n \in 0..Qty /\ 0 < n
  BY ConstantsAre
<1> SUFFICES \E b, c : /\ BrokerIs(o, b) /\ CallIs(o, c) /\ OrderOK(b, c)
                      /\ \/ b = broker[o] /\ c.at = "done" /\ c.result.kind = "raised"
                         \/ b.status # "unknown" /\ b.filled = n
  BY OrderKeeps
<1>3. CASE Ends(o, Raised) /\ UNCHANGED broker
  <2>1. PICK c \in Call : CallIs(o, c) /\ c.at = "done" /\ c.result = Raised
                         /\ c.cancel = call[o].cancel
    BY <1>3, EndsIs, ResultsAre
  <2>2. OrderOK(broker[o], c)
    BY <1>1, <2>1, ResultsAre DEF OrderOK
  <2> QED
    BY <1>3, <2>1, <2>2, BrokerStays, ResultsAre
<1>4. CASE FillAtOnce(o, n)
  <2> DEFINE b == [status |-> "filled", size |-> n, filled |-> n]
  <2>1. b \in BrokerOrder /\ b.status = "filled" /\ b.filled = n /\ b.size = n
    BY <1>2 DEF BrokerOrder
  <2>2. broker' = [broker EXCEPT ![o] = b] /\ Ends(o, Filled(broker'[o]))
    BY <1>4 DEF FillAtOnce
  <2> HIDE DEF b
  <2>3. BrokerIs(o, b)
    BY <2>1, <2>2 DEF BrokerIs, OrderTypeOK
  <2>4. Filled(b) \in Result /\ Filled(b).kind = "fill" /\ Filled(b).qty = n
    BY <1>2, <2>1 DEF Filled, Result
  <2>5. PICK c \in Call : CallIs(o, c) /\ c.at = "done" /\ c.result = Filled(b)
                         /\ c.cancel = call[o].cancel
    BY <2>2, <2>3, <2>4, EndsIs DEF BrokerIs
  <2>6. OrderOK(b, c)
    BY <1>1, <1>2, <2>1, <2>4, <2>5 DEF OrderOK
  <2> QED
    BY <2>1, <2>3, <2>5, <2>6
<1> QED
  BY <1>3, <1>4

-----------------------------------------------------------------------------
(* One proposal.                                                           *)

NoCapital(p) == \A i \in 1..Len(bus[p]) : ~Capital(bus[p][i])

\* The equity reactor at Alpaca, which does not look at the bus.
Unscanned(p) == Alpaca /\ Kind[p] = "equity"

\* The units of family f were filled by the orders of p.
FilledFor(p, f) ==
  \A l \in Leaves : f[l] > 0 => <<p, l>> \in Orders /\ f[l] <= broker[<<p, l>>].filled

\* Where a fire g of p can stand, and what it carries there.
Stands(p, g) ==
  /\ g.at \in {"cover", "unwind"} => Kind[p] = "covered"
  /\ g.at = "clip" => Kind[p] = "equity"
  /\ g.at = "cap" => Kind[p] # "equity"
  /\ g.at \in {"idle", "scan", "clip", "cover"} => g.family = Nothing
  /\ g.at \in {"main", "unwind"} => g.family.main = 0
  /\ Kind[p] = "covered" /\ g.at \in {"main", "unwind", "cap", "write", "apply"}
       => g.family.cover > 0
  /\ g.at = "apply" => Capital(g.family)
  /\ g.left \subseteq Moved(g.family) /\ (g.at # "apply" => g.left = {})
  /\ FilledFor(p, g.family)

\* What its calls have come to.
Calls(p, g) ==
  /\ g.at \in {"scan", "clip"} => \A o \in Orders : o[1] = p => call[o] = NoCall
  /\ g.at = "cap" /\ Kind[p] = "covered" => IsFill(call[<<p, "main">>].result)

\* Who may still write a family that moved capital: one that has seen the bus
\* without any, or one whose order the broker took as new.
MayWrite(p, g) ==
  /\ ~Unscanned(p) /\ g.at \in {"clip", "main", "cover", "unwind", "cap", "write"}
       => NoCapital(p)
  /\ Unscanned(p) /\ g.at = "main"
     /\ (call[<<p, "main">>].at \in {"poll", "reread"}
         \/ call[<<p, "main">>].result.kind = "fill")
       => NoCapital(p)
  /\ Unscanned(p) /\ g.at = "write" /\ Capital(g.family) => NoCapital(p)

FireInv(p) == /\ (outcome[p] = "firing") <=> (fire[p].at # "idle")
              /\ Stands(p, fire[p])
              /\ Calls(p, fire[p])
              /\ MayWrite(p, fire[p])

\* Capital is moved once on the bus, and filled; a fire that applies has written.
BusInv(p) ==
  /\ \A i \in 1..Len(bus[p]) : FilledFor(p, bus[p][i])
  /\ \A i, j \in 1..Len(bus[p]) :
       Capital(bus[p][i]) /\ Capital(bus[p][j]) => i = j
  /\ fire[p].at = "apply" => \E i \in 1..Len(bus[p]) : bus[p][i] = fire[p].family

\* The book holds what the bus says, or nothing of it yet, and so does the
\* caller know.
BookInv(p) ==
  /\ book[p] # Nothing => ~NoCapital(p)
  /\ outcome[p] = "filled" => ~NoCapital(p)
  /\ outcome[p] = "handed_back" /\ ~Unscanned(p) => NoCapital(p)
  /\ \A i \in 1..Len(bus[p]) : Capital(bus[p][i]) =>
       \A l \in Leaves :
         /\ book[p][l] = 0 \/ book[p][l] = bus[p][i][l]
         /\ p \in gaps \/ l \in fire[p].left \/ book[p][l] = bus[p][i][l]

CoveredFirst(p) ==
  Kind[p] = "covered" /\ broker[<<p, "main">>].status # "unknown"
    => broker[<<p, "cover">>].filled > 0

\* The cover of p is not lost.
Accounted(p) ==
  /\ Kind[p] = "covered" /\ IsFill(call[<<p, "cover">>].result)
  => \/ \E i \in 1..Len(bus[p]) : bus[p][i].cover > 0
     \/ IsFill(call[<<p, "unwind">>].result)
     \/ setup.caps /\ IsFill(call[<<p, "main">>].result)

CoverInv(p) == CoveredFirst(p)
               /\ (outcome[p] \in {"filled", "handed_back"} => Accounted(p))

PInv(p) == FireInv(p) /\ BusInv(p) /\ BookInv(p) /\ CoverInv(p)

IInv == TypeOK /\ OrderInv /\ \A p \in Props : PInv(p)

LEMMA OrdersAre ==
  /\ \A p \in Props : <<p, "main">> \in Orders
  /\ \A p \in Props : Kind[p] = "covered" =>
       <<p, "cover">> \in Orders /\ <<p, "unwind">> \in Orders
  /\ \A o \in Orders : /\ o[1] \in Props /\ o[2] \in Legs /\ o = <<o[1], o[2]>>
                       /\ o[2] = "main" \/ Kind[o[1]] = "covered"
BY ReactorsAssumption DEF OrderOf, Legs

LEMMA FamiliesAre ==
  /\ Nothing \in Family /\ ~Capital(Nothing) /\ Moved(Nothing) = {}
  /\ \A f \in Family :
       /\ f.main \in Nat /\ f.cover \in Nat /\ f["main"] = f.main /\ f["cover"] = f.cover
       /\ f.main <= Qty /\ f.cover <= Qty
       /\ Capital(f) <=> (f.main > 0 \/ f.cover > 0)
       /\ Moved(f) # {} <=> Capital(f)
       /\ f = [main |-> f.main, cover |-> f.cover]
       /\ Capital(f) <=> f # Nothing
<1>1. Nothing \in Family /\ Nothing.main = 0 /\ Nothing.cover = 0
      /\ Nothing["main"] = 0 /\ Nothing["cover"] = 0
  BY ConstantsAre DEF Nothing, Family
<1>2. ASSUME NEW f \in Family
      PROVE  /\ f.main \in Nat /\ f.cover \in Nat /\ f["main"] = f.main /\ f["cover"] = f.cover
             /\ f.main <= Qty /\ f.cover <= Qty
             /\ f = [main |-> f.main, cover |-> f.cover]
  BY ConstantsAre DEF Family
<1>3. ASSUME NEW f \in Family
      PROVE  /\ Capital(f) <=> (f.main > 0 \/ f.cover > 0)
             /\ Moved(f) # {} <=> Capital(f)
  BY <1>2 DEF Capital, Moved, Leaves
<1>4. ASSUME NEW f \in Family
      PROVE  Capital(f) <=> f # Nothing
  BY <1>1, <1>2, <1>3 DEF Nothing
<1> QED
  BY <1>1, <1>2, <1>3, <1>4 DEF Moved, Leaves

\* Nothing of p changes but how far the broker has come.
LEMMA Frame ==
  ASSUME IInv, NEW p \in Props, UNCHANGED setup,
         fire'[p] = fire[p], outcome'[p] = outcome[p], bus'[p] = bus[p],
         book'[p] = book[p], (p \in gaps') = (p \in gaps),
         \A o \in Orders : o[1] = p =>
           /\ call'[o] = call[o] /\ broker[o].filled <= broker'[o].filled
           /\ (broker'[o].status = "unknown") = (broker[o].status = "unknown"),
         OrderTypeOK'
  PROVE  PInv(p)'
<1>1. /\ \A o \in Orders : broker[o].filled \in Nat /\ broker'[o].filled \in Nat
      /\ PInv(p)
  BY ConstantsAre DEF IInv, TypeOK, OrderTypeOK, BrokerOrder
<1>2. ASSUME NEW f \in Family, FilledFor(p, f)
      PROVE  FilledFor(p, f)'
  BY <1>1, <1>2, OrdersAre, FamiliesAre DEF FilledFor, Leaves
<1>3. fire[p].family \in Family /\ \A i \in 1..Len(bus[p]) : bus[p][i] \in Family
  BY DEF IInv, TypeOK, Fire
<1>4. NoCapital(p)' = NoCapital(p) /\ Unscanned(p)' = Unscanned(p)
  BY DEF NoCapital, Unscanned, Alpaca
<1>5. FireInv(p)'
  <2>1. Stands(p, fire[p])'
    BY <1>1, <1>2, <1>3 DEF PInv, FireInv, Stands
  <2>2. Calls(p, fire[p])' /\ MayWrite(p, fire[p])'
    BY <1>1, <1>4, OrdersAre DEF PInv, FireInv, Calls, MayWrite
  <2> QED
    BY <1>1, <2>1, <2>2 DEF PInv, FireInv
<1>6. BusInv(p)'
  BY <1>1, <1>2, <1>3 DEF PInv, BusInv
<1>7. BookInv(p)'
  BY <1>1, <1>4 DEF PInv, BookInv
<1>8. CoverInv(p)'
  BY <1>1, OrdersAre DEF PInv, CoverInv, CoveredFirst, Accounted
<1> QED
  BY <1>5, <1>6, <1>7, <1>8 DEF PInv

\* A step of p leaves the other proposals alone.
Own(p) ==
  /\ UNCHANGED setup
  /\ \A q \in Props \ {p} :
       /\ fire'[q] = fire[q] /\ outcome'[q] = outcome[q] /\ bus'[q] = bus[q]
       /\ book'[q] = book[q] /\ (q \in gaps') = (q \in gaps)
  /\ \A o \in Orders : o[1] # p => broker'[o] = broker[o] /\ call'[o] = call[o]

LEMMA OwnKeeps ==
  ASSUME IInv, NEW p \in Props, Own(p), TypeOK', OrderInv', PInv(p)'
  PROVE  IInv'
<1>1. ASSUME NEW q \in Props \ {p} PROVE PInv(q)'
  <2>1. \A o \in Orders : broker[o].filled \in Nat
    BY ConstantsAre DEF IInv, TypeOK, OrderTypeOK, BrokerOrder
  <2>2. \A o \in Orders : o[1] = q =>
          /\ call'[o] = call[o] /\ broker[o].filled <= broker'[o].filled
          /\ (broker'[o].status = "unknown") = (broker[o].status = "unknown")
    BY <2>1 DEF Own
  <2> QED
    BY <2>2, Frame DEF Own, TypeOK
<1> QED
  BY <1>1 DEF IInv

LEMMA IdleIs ==
  /\ Idle \in Fire /\ Idle.at = "idle" /\ Idle.family = Nothing /\ Idle.left = {}
<1>1. Idle \in Fire
  BY FamiliesAre DEF Idle, Fire, Steps, Leaves
<1> QED
  BY <1>1 DEF Idle

LEMMA FinishIs ==
  ASSUME TypeOK, NEW p \in Props, NEW r \in Outcomes, Finish(p, r)
  PROVE  /\ fire' \in [Props -> Fire] /\ outcome' \in [Props -> Outcomes]
         /\ fire'[p] = Idle /\ outcome'[p] = r
         /\ \A q \in Props \ {p} : fire'[q] = fire[q] /\ outcome'[q] = outcome[q]
BY IdleIs DEF TypeOK, Finish

\* One more record of p on the bus.
LEMMA BusIs ==
  ASSUME TypeOK, NEW p \in Props, NEW e \in Family,
         bus' = [bus EXCEPT ![p] = Append(@, e)]
  PROVE  /\ bus' \in [Props -> Seq(Family)]
         /\ Len(bus'[p]) = Len(bus[p]) + 1 /\ Len(bus[p]) \in Nat
         /\ \A i \in 1..Len(bus[p]) : bus'[p][i] = bus[p][i] /\ bus[p][i] \in Family
         /\ bus'[p][Len(bus[p]) + 1] = e
         /\ \A i \in 1..Len(bus'[p]) : i \in 1..Len(bus[p]) \/ i = Len(bus[p]) + 1
         /\ \A q \in Props \ {p} : bus'[q] = bus[q]
<1> DEFINE s == bus[p]
<1>1. s \in Seq(Family) /\ bus'[p] = Append(s, e)
  BY DEF TypeOK
<1>2. bus' \in [Props -> Seq(Family)] /\ \A q \in Props \ {p} : bus'[q] = bus[q]
  BY <1>1 DEF TypeOK
<1> HIDE DEF s
<1>3. /\ Len(Append(s, e)) = Len(s) + 1 /\ Len(s) \in Nat
      /\ \A i \in 1..Len(s) : Append(s, e)[i] = s[i] /\ s[i] \in Family
      /\ Append(s, e)[Len(s) + 1] = e
  BY <1>1
<1> QED
  BY <1>1, <1>2, <1>3 DEF s

\* A fire ends, with no order and at most a record of nothing.
LEMMA EndKeeps ==
  ASSUME IInv, NEW p \in Props, NEW r \in Outcomes \ {"firing"}, Finish(p, r),
         UNCHANGED <<broker, call, deploy, book>>,
         bus' = bus \/ bus' = [bus EXCEPT ![p] = Append(@, Nothing)],
         gaps' = gaps \/ gaps' = gaps \cup {p},
         fire[p].left # {} => p \in gaps',
         r = "filled" => ~NoCapital(p),
         r = "handed_back" /\ ~Unscanned(p) => NoCapital(p),
         r \in {"filled", "handed_back"} => Accounted(p)
  PROVE  IInv'
<1>1. TypeOK /\ OrderInv /\ PInv(p)
  BY DEF IInv
<1>2. /\ fire' \in [Props -> Fire] /\ outcome' \in [Props -> Outcomes]
      /\ fire'[p] = Idle /\ outcome'[p] = r
      /\ \A q \in Props \ {p} : fire'[q] = fire[q] /\ outcome'[q] = outcome[q]
  BY <1>1, FinishIs
<1>3. /\ bus' \in [Props -> Seq(Family)]
      /\ Len(bus[p]) \in Nat /\ Len(bus'[p]) \in Nat /\ Len(bus[p]) <= Len(bus'[p])
      /\ \A i \in 1..Len(bus[p]) : bus'[p][i] = bus[p][i]
      /\ \A i \in 1..Len(bus'[p]) : i \in 1..Len(bus[p]) \/ bus'[p][i] = Nothing
      /\ \A q \in Props \ {p} : bus'[q] = bus[q]
  <2>1. CASE bus' = bus
    BY <1>1, <2>1 DEF TypeOK
  <2>2. CASE bus' = [bus EXCEPT ![p] = Append(@, Nothing)]
    <3>1. /\ bus' \in [Props -> Seq(Family)]
          /\ Len(bus'[p]) = Len(bus[p]) + 1 /\ Len(bus[p]) \in Nat
          /\ \A i \in 1..Len(bus[p]) : bus'[p][i] = bus[p][i]
          /\ bus'[p][Len(bus[p]) + 1] = Nothing
          /\ \A i \in 1..Len(bus'[p]) : i \in 1..Len(bus[p]) \/ i = Len(bus[p]) + 1
          /\ \A q \in Props \ {p} : bus'[q] = bus[q]
      BY <1>1, <2>2, BusIs, FamiliesAre
    <3>2. Len(bus'[p]) \in Nat /\ Len(bus[p]) <= Len(bus'[p])
      BY <3>1
    <3> QED
      BY <3>1, <3>2
  <2> QED
    BY <2>1, <2>2
<1>4. TypeOK' /\ OrderInv'
  BY <1>1, <1>2, <1>3 DEF TypeOK, OrderTypeOK, OrderInv, deploy
<1>5. Own(p)
  BY <1>2, <1>3 DEF Own, deploy
<1>6. NoCapital(p)' = NoCapital(p)
  <2>1. ASSUME NoCapital(p) PROVE NoCapital(p)'
    BY <1>3, <2>1, FamiliesAre DEF NoCapital
  <2>2. ASSUME NoCapital(p)' PROVE NoCapital(p)
    BY <1>3, <2>2 DEF NoCapital
  <2> QED
    BY <2>1, <2>2 DEF NoCapital
<1>7. FireInv(p)'
  <2>1. FilledFor(p, Nothing)'
    BY DEF FilledFor, Nothing, Leaves
  <2>2. Stands(p, fire[p])'
    BY <1>2, <2>1, IdleIs, FamiliesAre DEF Stands
  <2> QED
    BY <1>2, <2>2, IdleIs DEF FireInv, Calls, MayWrite
<1>8. BusInv(p)'
  <2>1. \A i \in 1..Len(bus'[p]) : FilledFor(p, bus[p][i])'
    <3> TAKE i \in 1..Len(bus'[p])
    <3>1. CASE i \in 1..Len(bus[p])
      BY <1>1, <1>3, <3>1 DEF PInv, BusInv, FilledFor
    <3>2. CASE bus'[p][i] = Nothing
      BY <3>2 DEF FilledFor, Nothing, Leaves
    <3> QED
      BY <1>3, <3>1, <3>2
  <2>2. \A i, j \in 1..Len(bus'[p]) :
          Capital(bus'[p][i]) /\ Capital(bus'[p][j]) => i = j
    <3>1. \A i \in 1..Len(bus'[p]) : Capital(bus'[p][i]) =>
            i \in 1..Len(bus[p]) /\ Capital(bus[p][i])
      BY <1>3, FamiliesAre
    <3> QED
      BY <1>1, <3>1 DEF PInv, BusInv
  <2> QED
    BY <1>2, <2>1, <2>2, IdleIs DEF BusInv, Capital
<1>9. BookInv(p)'
  <2>1. book[p] # Nothing => ~NoCapital(p)'
    BY <1>1, <1>6 DEF PInv, BookInv
  <2>2. outcome'[p] = "filled" => ~NoCapital(p)'
    BY <1>2, <1>6
  <2>3. outcome'[p] = "handed_back" /\ ~Unscanned(p)' => NoCapital(p)'
    BY <1>2, <1>6 DEF Unscanned, Alpaca, deploy
  <2>4. ASSUME NEW i \in 1..Len(bus'[p]), Capital(bus'[p][i]), NEW l \in Leaves
        PROVE  /\ book[p][l] = 0 \/ book[p][l] = bus'[p][i][l]
               /\ p \in gaps' \/ book[p][l] = bus'[p][i][l]
    <3>1. i \in 1..Len(bus[p]) /\ bus'[p][i] = bus[p][i]
      BY <1>3, <2>4, FamiliesAre
    <3> QED
      BY <1>1, <2>4, <3>1 DEF PInv, BookInv
  <2> QED
    BY <2>1, <2>2, <2>3, <2>4 DEF BookInv, Capital
<1>10. CoverInv(p)'
  <2>1. CoveredFirst(p)'
    BY <1>1 DEF PInv, CoverInv, CoveredFirst
  <2>2. ASSUME Accounted(p) PROVE Accounted(p)'
    <3>1. setup' = setup /\ call' = call
      BY DEF deploy
    <3>2. (\E i \in 1..Len(bus[p]) : bus[p][i].cover > 0)
            => \E i \in 1..Len(bus'[p]) : bus'[p][i].cover > 0
      BY <1>3
    <3> QED
      BY ONLY <2>2, <3>1, <3>2 DEF Accounted, IsFill
  <2> QED
    BY <1>2, <2>1, <2>2 DEF CoverInv
<1> QED
  BY <1>4, <1>5, <1>7, <1>8, <1>9, <1>10, OwnKeeps DEF PInv

\* A fire goes on, with no order and no record.
LEMMA GoKeeps ==
  ASSUME IInv, NEW p \in Props, NEW g \in Fire, fire' = [fire EXCEPT ![p] = g],
         fire[p].at \notin {"idle", "apply"}, g.at \notin {"idle", "apply"},
         UNCHANGED <<broker, call, deploy, outcome, records>>,
         Stands(p, g), Calls(p, g), MayWrite(p, g)
  PROVE  IInv'
<1>1. TypeOK /\ OrderInv /\ PInv(p)
  BY DEF IInv
<1>2. /\ fire' \in [Props -> Fire] /\ fire'[p] = g
      /\ \A q \in Props \ {p} : fire'[q] = fire[q]
  BY <1>1 DEF TypeOK
<1>3. TypeOK' /\ OrderInv'
  BY <1>1, <1>2 DEF TypeOK, OrderTypeOK, OrderInv, deploy, records
<1>4. Own(p)
  BY <1>2 DEF Own, deploy, records
<1>5. FireInv(p)'
  <2>1. outcome'[p] = "firing"
    BY <1>1 DEF PInv, FireInv
  <2>2. Stands(p, fire[p])'
    BY <1>2 DEF Stands, FilledFor
  <2>3. Calls(p, fire[p])' /\ MayWrite(p, fire[p])'
    BY <1>2 DEF Calls, MayWrite, Unscanned, Alpaca, NoCapital, deploy, records
  <2> QED
    BY <1>2, <2>1, <2>2, <2>3 DEF FireInv
<1>6. BusInv(p)'
  BY <1>1, <1>2 DEF PInv, BusInv, FilledFor, records
<1>7. BookInv(p)'
  BY <1>1, <1>2 DEF PInv, FireInv, Stands, BookInv, NoCapital, records
<1>8. CoverInv(p)'
  BY <1>1 DEF PInv, CoverInv, CoveredFirst, Accounted, deploy, records
<1> QED
  BY <1>3, <1>4, <1>5, <1>6, <1>7, <1>8, OwnKeeps DEF PInv

\* Where the fire of p is.
LEMMA FireIs ==
  ASSUME IInv, NEW p \in Props
  PROVE  /\ fire[p] \in Fire /\ fire[p].family \in Family /\ fire[p].at \in Steps
         /\ fire[p].left \subseteq Leaves /\ PInv(p) /\ TypeOK /\ OrderInv
         /\ outcome[p] \in Outcomes /\ Kind[p] \in {"equity", "single", "covered", "mleg"}
         /\ \A i \in 1..Len(bus[p]) : bus[p][i] \in Family
         /\ book[p] \in Family /\ bus[p] \in Seq(Family)
BY ReactorsAssumption DEF IInv, TypeOK, Fire

LEMMA FirePartsAre ==
  ASSUME NEW a \in Steps, NEW f \in Family
  PROVE  LET g == [at |-> a, family |-> f, left |-> {}] IN
         g \in Fire /\ g.at = a /\ g.family = f /\ g.left = {}
BY DEF Fire

\* A fire that goes to a with the family it has.
LEMMA GoesIs ==
  ASSUME IInv, NEW p \in Props, NEW a \in Steps, Goes(p, a), fire[p].at # "apply"
  PROVE  fire' = [fire EXCEPT ![p] = [at |-> a, family |-> fire[p].family, left |-> {}]]
<1> DEFINE g == [fire[p] EXCEPT !.at = a]
<1>1. fire' = [fire EXCEPT ![p] = g]
  BY DEF Goes
<1>2. fire[p] \in Fire /\ fire[p].left = {}
  BY FireIs DEF PInv, FireInv, Stands
<1>3. g = [at |-> a, family |-> fire[p].family, left |-> {}]
  BY <1>2 DEF Fire
<1> QED
  BY <1>1, <1>3

\* No call of a fire that has sent no order came to a fill.
LEMMA NoCallsYet ==
  ASSUME IInv, NEW p \in Props, fire[p].at \in {"scan", "clip"}
  PROVE  /\ Accounted(p) /\ fire[p].family = Nothing /\ fire[p].left = {}
         /\ call[<<p, "main">>] = NoCall
         /\ \A o \in Orders : o[1] = p => call[o] = NoCall
<1>1. \A o \in Orders : o[1] = p => call[o] = NoCall
  BY FireIs DEF PInv, FireInv, Calls
<1>2. <<p, "main">> \in Orders /\ (Kind[p] = "covered" => <<p, "cover">> \in Orders)
  BY OrdersAre
<1>3. Accounted(p)
  BY <1>1, <1>2, ResultsAre DEF Accounted, IsFill
<1> QED
  BY <1>1, <1>2, <1>3, FireIs DEF PInv, FireInv, Stands

LEMMA ScanKeeps ==
  ASSUME IInv, NEW p \in Props, Scan(p)
  PROVE  IInv'
<1>1. fire[p].at = "scan"
  BY DEF Scan, At
<1>2. /\ Accounted(p) /\ fire[p].family = Nothing /\ fire[p].left = {}
      /\ call[<<p, "main">>] = NoCall /\ \A o \in Orders : o[1] = p => call[o] = NoCall
  BY <1>1, NoCallsYet
<1>3. CASE Recorded(p)
  <2>1. ~NoCapital(p) /\ Finish(p, "filled")
    BY <1>3 DEF Scan, Recorded, NoCapital
  <2> QED
    BY <1>1, <1>2, <2>1, EndKeeps DEF Scan, Outcomes, records
<1>4. CASE ~Recorded(p)
  <2> DEFINE a == IF Kind[p] = "equity" /\ ~Alpaca THEN "clip" ELSE FirstLeg(p)
             g == [at |-> a, family |-> Nothing, left |-> {}]
  <2>1. Goes(p, a) /\ UNCHANGED <<broker, call, deploy, outcome, records>>
    BY <1>4 DEF Scan
  <2>2. /\ a \in Steps /\ a \in {"clip", "main", "cover"}
        /\ a = "cover" => Kind[p] = "covered"
        /\ a = "main" => Kind[p] # "covered"
        /\ a = "clip" => Kind[p] = "equity"
    BY DEF FirstLeg, Steps
  <2> HIDE DEF a
  <2>3. fire' = [fire EXCEPT ![p] = g]
    BY <1>1, <1>2, <2>1, <2>2, GoesIs
  <2>4. g \in Fire /\ g.at = a /\ g.family = Nothing /\ g.left = {}
    BY <2>2, FirePartsAre, FamiliesAre
  <2> HIDE DEF g
  <2>5. Stands(p, g)
    BY <2>2, <2>4, FamiliesAre DEF Stands, FilledFor, Nothing, Leaves
  <2>6. Calls(p, g)
    BY <1>2, <2>2, <2>4 DEF Calls
  <2>7. MayWrite(p, g)
    BY <1>2, <1>4, <2>2, <2>4, ResultsAre DEF MayWrite, Unscanned, Recorded, NoCapital
  <2> QED
    BY <1>1, <2>1, <2>2, <2>3, <2>4, <2>5, <2>6, <2>7, GoKeeps
<1> QED
  BY <1>3, <1>4

\* A fire that has looked at the bus, and has not written, hands back nothing
\* that moved capital.
LEMMA Unmoved ==
  ASSUME IInv, NEW p \in Props,
         fire[p].at \in {"clip", "main", "cover", "unwind", "cap", "write"}
  PROVE  ~Unscanned(p) => NoCapital(p)
BY FireIs DEF PInv, FireInv, MayWrite

LEMMA RefuseKeeps ==
  ASSUME IInv, NEW p \in Props, Refuse(p)
  PROVE  IInv'
<1>1. Accounted(p) /\ fire[p].left = {}
  BY NoCallsYet DEF Refuse, At
<1>2. PICK r \in {"held", "handed_back"} :
        /\ Finish(p, r) /\ bus' \in {bus, [bus EXCEPT ![p] = Append(@, Nothing)]}
  BY DEF Refuse
<1>3. UNCHANGED <<broker, call, deploy, book>> /\ gaps' = gaps
  BY DEF Refuse
<1>4. ~Unscanned(p) => NoCapital(p)
  BY DEF Refuse, Recorded, Unscanned, NoCapital
<1> QED
  BY <1>1, <1>2, <1>3, <1>4, EndKeeps DEF Outcomes

LEMMA ClipKeeps ==
  ASSUME IInv, NEW p \in Props, Clip(p)
  PROVE  IInv'
<1>1. fire[p].at = "clip" /\ UNCHANGED <<broker, call, deploy, records>>
  BY DEF Clip, At
<1>2. /\ Accounted(p) /\ fire[p].family = Nothing /\ fire[p].left = {}
      /\ call[<<p, "main">>] = NoCall
  BY <1>1, NoCallsYet
<1>3. CASE Finish(p, "handed_back")
  BY <1>1, <1>2, <1>3, Unmoved, EndKeeps DEF Outcomes, records
<1>4. CASE Goes(p, "main") /\ UNCHANGED outcome
  <2> DEFINE g == [at |-> "main", family |-> Nothing, left |-> {}]
  <2>1. fire' = [fire EXCEPT ![p] = g]
    BY <1>1, <1>2, <1>4, GoesIs DEF Steps
  <2>2. g \in Fire /\ g.at = "main" /\ g.family = Nothing /\ g.left = {}
    BY FirePartsAre, FamiliesAre DEF Steps
  <2> HIDE DEF g
  <2>3. Kind[p] = "equity" /\ MayWrite(p, fire[p])
    BY <1>1, FireIs DEF PInv, FireInv, Stands
  <2>4. Stands(p, g)
    BY <2>2, <2>3, FamiliesAre DEF Stands, FilledFor, Nothing, Leaves
  <2>5. Calls(p, g) /\ MayWrite(p, g)
    BY <1>1, <1>2, <2>2, <2>3, ResultsAre DEF Calls, MayWrite
  <2> QED
    BY <1>1, <1>4, <2>1, <2>2, <2>4, <2>5, GoKeeps
<1> QED
  BY <1>3, <1>4 DEF Clip

LEMMA FamilyWith ==
  ASSUME NEW f \in Family, NEW n \in 0..Qty
  PROVE  /\ [f EXCEPT !.main = n] \in Family /\ [f EXCEPT !.cover = n] \in Family
         /\ [f EXCEPT !.main = n].main = n /\ [f EXCEPT !.main = n].cover = f.cover
         /\ [f EXCEPT !.cover = n].cover = n /\ [f EXCEPT !.cover = n].main = f.main
BY DEF Family

\* A family filled by the orders of p, part by part.
LEMMA FilledForIs ==
  ASSUME NEW p \in Props, NEW f \in Family
  PROVE  FilledFor(p, f) <=>
           /\ f.main > 0 => f.main <= broker[<<p, "main">>].filled
           /\ f.cover > 0 => /\ <<p, "cover">> \in Orders
                             /\ f.cover <= broker[<<p, "cover">>].filled
BY OrdersAre DEF FilledFor, Leaves

\* The broker has answered the order of p.
LEMMA AnswerIs ==
  ASSUME IInv, NEW p \in Props, Answered(p)
  PROVE  /\ fire[p].at \in Legs /\ <<p, fire[p].at>> \in Orders /\ fire[p].left = {}
         /\ Answer(p) = call[<<p, fire[p].at>>].result
         /\ Answer(p).qty \in 0..Qty
         /\ broker[<<p, fire[p].at>>].filled \in Nat
         /\ Answer(p).kind = "fill" => /\ 0 < Answer(p).qty
                                       /\ Answer(p).qty <= broker[<<p, fire[p].at>>].filled
         /\ Answer(p).kind # "fill" => Answer(p).qty = 0
<1>1. fire[p].at \in Legs /\ Stands(p, fire[p])
  BY FireIs DEF Answered, Ordering, PInv, FireInv
<1>2. <<p, fire[p].at>> \in Orders
  BY <1>1, OrdersAre DEF Stands, Legs
<1>3. /\ OrderOK(broker[<<p, fire[p].at>>], call[<<p, fire[p].at>>])
      /\ call[<<p, fire[p].at>>] \in Call /\ broker[<<p, fire[p].at>>] \in BrokerOrder
  BY <1>2 DEF IInv, OrderInv, TypeOK, OrderTypeOK
<1>4. fire[p].left = {}
  BY <1>1 DEF Stands, Legs
<1> QED
  BY <1>1, <1>2, <1>3, <1>4, ConstantsAre
     DEF OrderOK, Answer, Order, Call, Result, BrokerOrder

\* What the fire of p takes from its only order.
LEMMA TakenIs ==
  ASSUME IInv, NEW p \in Props, Answered(p), fire[p].at = "main",
         NEW n \in {0, Answer(p).qty}
  PROVE  LET f == [Nothing EXCEPT !.main = n] IN
         /\ f \in Family /\ f.main = n /\ f.cover = 0 /\ FilledFor(p, f)
         /\ Capital(f) => Answer(p).kind = "fill"
<1> DEFINE f == [Nothing EXCEPT !.main = n]
<1> DEFINE q == Answer(p).qty
<1>0. /\ q \in 0..Qty /\ broker[<<p, "main">>].filled \in Nat
      /\ Answer(p).kind = "fill" => q <= broker[<<p, "main">>].filled
      /\ Answer(p).kind # "fill" => q = 0
  BY AnswerIs
<1>1. /\ n \in 0..Qty /\ Nothing.cover = 0 /\ Nothing \in Family
      /\ n = 0 \/ n = q
  <2> HIDE DEF q
  <2> QED
    BY <1>0, ConstantsAre, FamiliesAre DEF Nothing, q
<1>2. f \in Family /\ f.main = n /\ f.cover = 0
  BY ONLY <1>1, FamilyWith
<1> HIDE DEF f
<1>3. /\ n > 0 => Answer(p).kind = "fill" /\ n <= broker[<<p, "main">>].filled
  BY <1>0, <1>1, ConstantsAre
<1>4. FilledFor(p, f)
  <2>1. ~(f.cover > 0) /\ (f.main > 0 => f.main <= broker[<<p, "main">>].filled)
    BY <1>1, <1>2, <1>3
  <2> QED
    BY <1>2, <2>1, FilledForIs
<1>5. Capital(f) => n > 0
  BY <1>1, <1>2 DEF Capital
<1> QED
  BY <1>2, <1>3, <1>4, <1>5 DEF f

\* A structure of one order, taken to the cap or to the record.
LEMMA TakesKeeps ==
  ASSUME IInv, NEW p \in Props, Answered(p), Kind[p] # "covered",
         NEW n \in {0, Answer(p).qty}, NEW a \in {"cap", "write"},
         a = "cap" => Kind[p] # "equity",
         Takes(p, [Nothing EXCEPT !.main = n], a),
         UNCHANGED <<broker, call, deploy, outcome, records>>
  PROVE  IInv'
<1> DEFINE f == [Nothing EXCEPT !.main = n]
           g == [at |-> a, family |-> f, left |-> {}]
<1>1. fire[p].at = "main" /\ Stands(p, fire[p]) /\ MayWrite(p, fire[p])
  BY AnswerIs, FireIs DEF PInv, FireInv, Stands, Legs
<1>2. /\ f \in Family /\ f.cover = 0 /\ FilledFor(p, f)
      /\ Capital(f) => Answer(p).kind = "fill"
  BY <1>1, TakenIs
<1>3. fire' = [fire EXCEPT ![p] = g]
  BY DEF Takes
<1> HIDE DEF f
<1>4. g \in Fire /\ g.at = a /\ g.family = f /\ g.left = {}
  BY <1>2, FirePartsAre DEF Steps
<1> HIDE DEF g
<1>5. Stands(p, g)
  BY <1>2, <1>4 DEF Stands
<1>6. Calls(p, g)
  BY <1>4 DEF Calls
<1>7. MayWrite(p, g)
  <2>1. CASE Unscanned(p)
    <3>1. Capital(f) => NoCapital(p)
      BY <1>1, <1>2, <2>1, AnswerIs DEF MayWrite
    <3> QED
      BY <1>4, <2>1, <3>1 DEF MayWrite
  <2>2. CASE ~Unscanned(p)
    BY <1>1, <1>4, <2>2 DEF MayWrite
  <2> QED
    BY <2>1, <2>2
<1> QED
  BY <1>1, <1>3, <1>4, <1>5, <1>6, <1>7, GoKeeps

LEMMA EquityKeeps ==
  ASSUME IInv, NEW p \in Props, EquityAtAlpaca(p) \/ EquityAtDeterministic(p)
  PROVE  IInv'
<1>1. Kind[p] # "covered" /\ Answered(p) /\ UNCHANGED <<broker, call, deploy, records>>
  BY DEF EquityAtAlpaca, EquityAtDeterministic
<1>2. fire[p].left = {}
  BY <1>1, AnswerIs
<1>3. CASE Finish(p, "held")
  BY <1>1, <1>2, <1>3, EndKeeps DEF Outcomes, records
<1>4. CASE /\ \E n \in {0, Answer(p).qty} : Takes(p, [Nothing EXCEPT !.main = n], "write")
           /\ UNCHANGED outcome
  BY <1>1, <1>4, TakesKeeps
<1> QED
  BY <1>3, <1>4 DEF EquityAtAlpaca, EquityAtDeterministic

LEMMA StructureKeeps ==
  ASSUME IInv, NEW p \in Props, Structure(p)
  PROVE  IInv'
<1>1. /\ Kind[p] \notin {"covered", "equity"} /\ Answered(p)
      /\ UNCHANGED <<broker, call, deploy, records>>
  BY DEF Structure
<1>2. fire[p].left = {}
  BY <1>1, AnswerIs
<1>5. ~Unscanned(p) => NoCapital(p)
  BY <1>1, Unmoved DEF Answered, Ordering, Legs
<1>3. CASE Finish(p, "handed_back")
  BY <1>1, <1>2, <1>3, <1>5, EndKeeps DEF Outcomes, records, Accounted
<1>4. CASE /\ Takes(p, [Nothing EXCEPT !.main = Answer(p).qty], "cap")
           /\ UNCHANGED outcome
  BY <1>1, <1>4, TakesKeeps
<1> QED
  BY <1>3, <1>4 DEF Structure

LEMMA CoverKeeps ==
  ASSUME IInv, NEW p \in Props, CoverAnswered(p)
  PROVE  IInv'
<1>1. /\ Kind[p] = "covered" /\ fire[p].at = "cover" /\ Answered(p)
      /\ UNCHANGED <<broker, call, deploy, records>>
  BY DEF CoverAnswered, At
<1> DEFINE q == Answer(p).qty
           f == [Nothing EXCEPT !.cover = q]
           g == [at |-> "main", family |-> f, left |-> {}]
<1>2. /\ <<p, "cover">> \in Orders /\ fire[p].left = {} /\ q \in 0..Qty
      /\ Answer(p) = call[<<p, "cover">>].result
      /\ Answer(p).kind = "fill" => 0 < q /\ q <= broker[<<p, "cover">>].filled
  BY <1>1, AnswerIs
<1>5. ~Unscanned(p) => NoCapital(p)
  BY <1>1, Unmoved DEF Answered, Ordering, Legs
<1>3. CASE Finish(p, "handed_back") /\ ~IsFill(Answer(p))
  BY <1>1, <1>2, <1>3, <1>5, EndKeeps DEF Outcomes, records, Accounted
<1>4. CASE /\ fire' = [fire EXCEPT ![p].at = "main", ![p].family.cover = q]
           /\ IsFill(Answer(p)) /\ UNCHANGED outcome
  <2>1. 0 < q /\ q <= broker[<<p, "cover">>].filled
    BY <1>2, <1>4 DEF IsFill
  <2>2. f \in Family /\ f.main = 0 /\ f.cover = q
    BY <1>2, FamilyWith, FamiliesAre DEF Nothing
  <2>3. fire' = [fire EXCEPT ![p] = g]
    <3>1. fire[p] \in Fire /\ fire[p].family = Nothing /\ fire \in [Props -> Fire]
      BY <1>1, FireIs DEF PInv, FireInv, Stands, TypeOK
    <3> DEFINE x == fire[p]
    <3>2. x = [at |-> x.at, family |-> Nothing, left |-> {}]
      BY <1>2, <3>1 DEF Fire
    <3> HIDE DEF x, q
    <3> DEFINE y == [x EXCEPT !.at = "main", !.family.cover = q]
    <3>4. DOMAIN x = {"at", "family", "left"} /\ x.family = Nothing /\ x.left = {}
      BY <3>2
    <3>5. DOMAIN y = {"at", "family", "left"}
      BY <3>4
    <3>6. y.at = "main" /\ y.family = [x.family EXCEPT !.cover = q] /\ y.left = x.left
      BY <3>4
    <3>7. y = [z \in {"at", "family", "left"} |-> y[z]]
      BY <3>5
    <3>8. y.family = f
      BY <3>4, <3>6
    <3> HIDE DEF y, f
    <3>3. y = g
      BY <3>4, <3>6, <3>7, <3>8
    <3> USE DEF y, f
    <3> USE DEF x, q
    <3> QED
      BY <1>4, <3>1, <3>3
  <2> HIDE DEF f, q
  <2>4. g \in Fire /\ g.at = "main" /\ g.family = f /\ g.left = {}
    BY <2>2, FirePartsAre DEF Steps
  <2> HIDE DEF g
  <2>5. FilledFor(p, f)
    <3>1. ~(f.main > 0) /\ f.cover <= broker[<<p, "cover">>].filled
      BY <2>1, <2>2
    <3> QED
      BY <1>2, <2>2, <3>1, FilledForIs
  <2>6. Stands(p, g)
    BY <1>1, <2>1, <2>2, <2>4, <2>5 DEF Stands
  <2>7. Calls(p, g) /\ MayWrite(p, g)
    BY <1>1, <2>4, FireIs DEF Calls, MayWrite, PInv, FireInv, Unscanned
  <2> QED
    BY <1>1, <1>4, <2>3, <2>4, <2>6, <2>7, GoKeeps
<1> QED
  BY <1>3, <1>4 DEF CoverAnswered

LEMMA ShortKeeps ==
  ASSUME IInv, NEW p \in Props, ShortAnswered(p)
  PROVE  IInv'
<1>1. /\ Kind[p] = "covered" /\ fire[p].at = "main" /\ Answered(p)
      /\ UNCHANGED <<broker, call, deploy, outcome, records>>
  BY DEF ShortAnswered, At
<1> DEFINE q == Answer(p).qty
           f == fire[p].family
<1>2. /\ fire[p].left = {} /\ q \in 0..Qty /\ broker[<<p, "main">>].filled \in Nat
      /\ Answer(p) = call[<<p, "main">>].result
      /\ Answer(p).kind = "fill" => 0 < q /\ q <= broker[<<p, "main">>].filled
  BY <1>1, AnswerIs
<1>3. f \in Family /\ f.main = 0 /\ f.cover > 0 /\ FilledFor(p, f)
  BY <1>1, FireIs DEF PInv, FireInv, Stands
<1>4. ~Unscanned(p) /\ NoCapital(p)
  BY <1>1, FireIs DEF PInv, FireInv, MayWrite, Unscanned
<1>5. CASE Goes(p, "unwind")
  <2> DEFINE g == [at |-> "unwind", family |-> f, left |-> {}]
  <2>1. fire' = [fire EXCEPT ![p] = g]
    BY <1>1, <1>5, GoesIs DEF Steps
  <2>2. g \in Fire /\ g.at = "unwind" /\ g.family = f /\ g.left = {}
    BY <1>3, FirePartsAre DEF Steps
  <2> HIDE DEF g
  <2>3. Stands(p, g) /\ Calls(p, g) /\ MayWrite(p, g)
    BY <1>1, <1>3, <1>4, <2>2 DEF Stands, Calls, MayWrite
  <2> QED
    BY <1>1, <2>1, <2>2, <2>3, GoKeeps
<1>6. CASE IsFill(Answer(p)) /\ Takes(p, [f EXCEPT !.main = q], "cap")
  <2> DEFINE h == [f EXCEPT !.main = q]
             g == [at |-> "cap", family |-> h, left |-> {}]
  <2>1. fire' = [fire EXCEPT ![p] = g]
    BY <1>6 DEF Takes
  <2>2. h \in Family /\ h.main = q /\ h.cover = f.cover
    BY ONLY <1>2, <1>3, FamilyWith
  <2> HIDE DEF h
  <2>3. g \in Fire /\ g.at = "cap" /\ g.family = h /\ g.left = {}
    BY <2>2, FirePartsAre DEF Steps
  <2> HIDE DEF g
  <2>4. FilledFor(p, h)
    <3>1. h.main <= broker[<<p, "main">>].filled
      BY <1>2, <1>6, <2>2 DEF IsFill
    <3> QED
      BY <1>3, <2>2, <3>1, FilledForIs
  <2>5. Stands(p, g) /\ Calls(p, g) /\ MayWrite(p, g)
    BY <1>1, <1>2, <1>3, <1>4, <1>6, <2>2, <2>3, <2>4 DEF Stands, Calls, MayWrite
  <2> QED
    BY <1>1, <2>1, <2>3, <2>5, GoKeeps
<1> QED
  BY <1>5, <1>6 DEF ShortAnswered

LEMMA UnwindKeeps ==
  ASSUME IInv, NEW p \in Props, UnwindAnswered(p)
  PROVE  IInv'
<1>1. /\ fire[p].at = "unwind" /\ Answered(p)
      /\ UNCHANGED <<broker, call, deploy, records>>
  BY DEF UnwindAnswered, At
<1>2. fire[p].left = {} /\ Answer(p) = call[<<p, "unwind">>].result
  BY <1>1, AnswerIs
<1>5. ~Unscanned(p) => NoCapital(p)
  BY <1>1, Unmoved DEF Answered, Ordering, Legs
<1>3. CASE IsFill(Answer(p)) /\ Finish(p, "handed_back")
  BY <1>1, <1>2, <1>3, <1>5, EndKeeps DEF Outcomes, records, Accounted
<1>4. CASE Takes(p, fire[p].family, "write") /\ UNCHANGED outcome
  <2> DEFINE f == fire[p].family
             g == [at |-> "write", family |-> f, left |-> {}]
  <2>1. f \in Family /\ Stands(p, fire[p]) /\ MayWrite(p, fire[p])
    BY FireIs DEF PInv, FireInv
  <2>2. fire' = [fire EXCEPT ![p] = g]
    BY <1>4 DEF Takes
  <2>3. g \in Fire /\ g.at = "write" /\ g.family = f /\ g.left = {}
    BY <2>1, FirePartsAre DEF Steps
  <2> HIDE DEF g
  <2>4. Stands(p, g) /\ Calls(p, g) /\ MayWrite(p, g)
    BY <1>1, <2>1, <2>3 DEF Stands, Calls, MayWrite, Unscanned
  <2> QED
    BY <1>1, <1>4, <2>2, <2>3, <2>4, GoKeeps
<1> QED
  BY <1>3, <1>4 DEF UnwindAnswered

LEMMA CapKeeps ==
  ASSUME IInv, NEW p \in Props, Cap(p)
  PROVE  IInv'
<1>1. fire[p].at = "cap" /\ UNCHANGED <<broker, call, deploy, records>>
  BY DEF Cap, At
<1>2. /\ fire[p].family \in Family /\ Stands(p, fire[p]) /\ Calls(p, fire[p])
      /\ MayWrite(p, fire[p]) /\ fire[p].left = {}
  BY <1>1, FireIs DEF PInv, FireInv, Stands
<1>3. CASE setup.caps /\ Finish(p, "handed_back")
  <2>1. Accounted(p)
    BY <1>1, <1>2, <1>3 DEF Calls, Accounted
  <2> QED
    BY <1>1, <1>2, <1>3, <2>1, Unmoved, EndKeeps DEF Outcomes, records
<1>4. CASE Goes(p, "write") /\ UNCHANGED outcome
  <2> DEFINE f == fire[p].family
             g == [at |-> "write", family |-> f, left |-> {}]
  <2>1. fire' = [fire EXCEPT ![p] = g]
    BY <1>1, <1>4, GoesIs DEF Steps
  <2>2. g \in Fire /\ g.at = "write" /\ g.family = f /\ g.left = {}
    BY <1>2, FirePartsAre DEF Steps
  <2> HIDE DEF g
  <2>3. Stands(p, g) /\ Calls(p, g) /\ MayWrite(p, g)
    BY <1>1, <1>2, <2>2 DEF Stands, Calls, MayWrite, Unscanned
  <2> QED
    BY <1>1, <1>4, <2>1, <2>2, <2>3, GoKeeps
<1> QED
  BY <1>3, <1>4 DEF Cap

\* A family that moved capital is written where there was none.
LEMMA WriteKeeps ==
  ASSUME IInv, NEW p \in Props, WriteFamily(p)
  PROVE  IInv'
<1> DEFINE f == fire[p].family
           n == Len(bus[p])
<1>1. /\ fire[p].at = "write" /\ bus' = [bus EXCEPT ![p] = Append(@, f)]
      /\ UNCHANGED <<broker, call, deploy, book, gaps>>
  BY DEF WriteFamily, At
<1>2. /\ TypeOK /\ OrderInv /\ PInv(p) /\ f \in Family /\ Stands(p, fire[p])
      /\ MayWrite(p, fire[p]) /\ fire[p].left = {} /\ FilledFor(p, f)
      /\ fire[p] \in Fire
  BY <1>1, FireIs DEF PInv, FireInv, Stands
<1>3. CASE ~Capital(f)
  <2>1. f = Nothing /\ Finish(p, "handed_back") /\ Kind[p] # "covered"
    BY <1>1, <1>2, <1>3, FamiliesAre DEF WriteFamily, Stands
  <2>2. Accounted(p)
    BY <2>1 DEF Accounted
  <2> QED
    BY <1>1, <1>2, <2>1, <2>2, Unmoved, EndKeeps DEF Outcomes
<1>4. CASE Capital(f)
  <2> DEFINE g == [fire[p] EXCEPT !.at = "apply", !.left = Moved(f)]
  <2>1. fire' = [fire EXCEPT ![p] = g] /\ UNCHANGED outcome
    BY <1>4 DEF WriteFamily
  <2>2. g \in Fire /\ g.at = "apply" /\ g.family = f /\ g.left = Moved(f)
    BY <1>2 DEF Fire, Steps, Moved
  <2> HIDE DEF g
  <2>3. /\ fire' \in [Props -> Fire] /\ fire'[p] = g
        /\ \A q \in Props \ {p} : fire'[q] = fire[q]
    BY <1>2, <2>1, <2>2 DEF TypeOK
  <2>4. /\ bus' \in [Props -> Seq(Family)]
        /\ Len(bus'[p]) = n + 1 /\ n \in Nat
        /\ \A i \in 1..n : bus'[p][i] = bus[p][i] /\ bus[p][i] \in Family
        /\ bus'[p][n + 1] = f
        /\ \A i \in 1..Len(bus'[p]) : i \in 1..n \/ i = n + 1
        /\ \A q \in Props \ {p} : bus'[q] = bus[q]
    BY <1>1, <1>2, BusIs
  <2>5. NoCapital(p) /\ book[p] = Nothing
    BY <1>1, <1>2, <1>4 DEF MayWrite, PInv, BookInv
  <2>6. TypeOK' /\ OrderInv'
    BY <1>1, <1>2, <2>1, <2>3, <2>4 DEF TypeOK, OrderTypeOK, OrderInv, deploy
  <2>7. Own(p)
    BY <1>1, <2>1, <2>3, <2>4 DEF Own, deploy
  <2> HIDE DEF f, n
  <2>8. /\ n + 1 \in 1..Len(bus'[p]) /\ Capital(bus'[p][n + 1])
        /\ \A i \in 1..Len(bus'[p]) : Capital(bus'[p][i]) => i = n + 1
    <3>1. Capital(f)
      BY <1>4 DEF f
    <3>2. \A i \in 1..n : ~ Capital(bus[p][i])
      BY <2>5 DEF NoCapital, n
    <3> QED
      BY ONLY <2>4, <3>1, <3>2
  <2>9. FireInv(p)'
    <3>1. Stands(p, fire[p])' /\ outcome'[p] = "firing"
      BY <1>1, <1>2, <1>4, <2>1, <2>2, <2>3 DEF Stands, PInv, FireInv, FilledFor, f
    <3>2. Calls(p, fire[p])' /\ MayWrite(p, fire[p])'
      BY <2>2, <2>3 DEF Calls, MayWrite
    <3> QED
      BY <2>2, <2>3, <3>1, <3>2 DEF FireInv
  <2>10. BusInv(p)'
    <3>1. ASSUME NEW i \in 1..Len(bus'[p]) PROVE FilledFor(p, bus[p][i])'
      <4>1. FilledFor(p, bus'[p][i])
        BY <1>2, <2>4 DEF PInv, BusInv, n, f
      <4> QED
        BY <1>1, <4>1 DEF FilledFor
    <3> QED
      BY <2>2, <2>3, <2>4, <2>8, <3>1 DEF BusInv
  <2>11. BookInv(p)'
    <3>1. ~NoCapital(p)'
      BY <2>8 DEF NoCapital
    <3>2. \A l \in Leaves : book[p][l] = 0 /\ (l \in g.left \/ book[p][l] = f[l])
      BY <1>2, <2>2, <2>5, FamiliesAre DEF Moved, Leaves, Nothing
    <3>3. \A i \in 1..Len(bus'[p]) : Capital(bus'[p][i]) => bus'[p][i] = f
      BY <2>4, <2>8
    <3>4. outcome'[p] = "firing"
      BY <1>1, <1>2, <2>1 DEF PInv, FireInv
    <3> QED
      BY <1>1, <2>3, <3>1, <3>2, <3>3, <3>4 DEF BookInv
  <2>12. CoverInv(p)'
    BY <1>1, <1>2, <2>1 DEF PInv, FireInv, CoverInv, CoveredFirst
  <2> QED
    BY <2>6, <2>7, <2>9, <2>10, <2>11, <2>12, OwnKeeps DEF PInv
<1> QED
  BY <1>3, <1>4

\* One child reaches the book, or an apply fails.
LEMMA ApplyKeeps ==
  ASSUME IInv, NEW p \in Props, ApplyChild(p)
  PROVE  IInv'
<1> DEFINE f == fire[p].family
           c == NextChild(p)
<1>1. /\ fire[p].at = "apply" /\ fire[p].left # {}
      /\ UNCHANGED <<broker, call, deploy, outcome, bus>>
  BY DEF ApplyChild, At
<1>2. /\ TypeOK /\ OrderInv /\ PInv(p) /\ f \in Family /\ Stands(p, fire[p])
      /\ fire[p] \in Fire /\ outcome[p] = "firing"
  BY <1>1, FireIs DEF PInv, FireInv
<1>3. c \in fire[p].left /\ c \in Leaves /\ f[c] \in 0..Qty
  BY <1>1, <1>2 DEF NextChild, Leaves, Fire, Family
<1>4. PICK left, k, lost :
        /\ fire' = [fire EXCEPT ![p].left = left] /\ left \subseteq fire[p].left
        /\ book' = [book EXCEPT ![p] = k] /\ k \in Family
        /\ gaps' = gaps \cup lost /\ lost \subseteq {p}
        /\ \/ lost = {p} /\ k = book[p]
           \/ lost = {} /\ left = fire[p].left \ {c} /\ k = [book[p] EXCEPT ![c] = f[c]]
  <2>1. CASE /\ book' = [book EXCEPT ![p][c] = f[c]]
             /\ fire' = [fire EXCEPT ![p].left = @ \ {c}]
             /\ UNCHANGED gaps
    <3> DEFINE k == [book[p] EXCEPT ![c] = f[c]]
               r == fire[p].left \ {c}
    <3>1. book[p] \in Family
      BY FireIs
    <3>2. k \in Family
      BY <1>3, <3>1 DEF Leaves, Family
    <3>3. book' = [book EXCEPT ![p] = k] /\ fire' = [fire EXCEPT ![p].left = r]
          /\ gaps' = gaps \cup {} /\ r \subseteq fire[p].left
      BY <2>1
    <3> WITNESS r, k, {}
    <3> QED
      BY <3>2, <3>3
  <2>2. CASE /\ gaps' = gaps \cup {p}
             /\ fire' = [fire EXCEPT ![p].left = {}]
             /\ UNCHANGED book
    <3>1. book = [book EXCEPT ![p] = book[p]] /\ book[p] \in Family
      BY <1>2 DEF TypeOK
    <3> DEFINE k == book[p]
               r == {}
               lost == {p}
    <3>2. /\ fire' = [fire EXCEPT ![p].left = r] /\ r \subseteq fire[p].left
          /\ book' = [book EXCEPT ![p] = k] /\ k \in Family
          /\ gaps' = gaps \cup lost /\ lost \subseteq {p}
          /\ lost = {p} /\ k = book[p]
      BY <2>2, <3>1
    <3> HIDE DEF k, r, lost
    <3> QED
      BY <3>2
  <2> QED
    BY <2>1, <2>2 DEF ApplyChild
<1> DEFINE g == [fire[p] EXCEPT !.left = left]
<1>5. g \in Fire /\ g.at = "apply" /\ g.family = f /\ g.left = left
  BY <1>1, <1>2, <1>4 DEF Fire
<1>6. fire' = [fire EXCEPT ![p] = g]
  BY <1>4
<1> HIDE DEF g, f, c
<1>7. /\ fire' \in [Props -> Fire] /\ fire'[p] = g /\ book' \in [Props -> Family]
      /\ book'[p] = k
      /\ \A q \in Props \ {p} : fire'[q] = fire[q] /\ book'[q] = book[q]
  <2>1. fire \in [Props -> Fire] /\ book \in [Props -> Family] /\ p \in Props
    BY <1>2 DEF TypeOK
  <2>2. book' = [book EXCEPT ![p] = k] /\ k \in Family
    BY <1>4
  <2>3. fire' \in [Props -> Fire] /\ fire'[p] = g /\ \A q \in Props \ {p} : fire'[q] = fire[q]
    BY ONLY <1>5, <1>6, <2>1
  <2>4. book' \in [Props -> Family] /\ book'[p] = k
        /\ \A q \in Props \ {p} : book'[q] = book[q]
    BY ONLY <2>1, <2>2
  <2> QED
    BY <2>3, <2>4
<1>8. TypeOK' /\ OrderInv'
  BY <1>1, <1>2, <1>4, <1>7 DEF TypeOK, OrderTypeOK, OrderInv, deploy
<1>9. Own(p)
  BY <1>1, <1>4, <1>7 DEF Own, deploy
<1>10. FireInv(p)'
  <2>1. Stands(p, fire[p])'
    BY <1>1, <1>2, <1>4, <1>5, <1>7 DEF Stands, FilledFor, f
  <2>2. Calls(p, fire[p])' /\ MayWrite(p, fire[p])'
    BY <1>5, <1>7 DEF Calls, MayWrite
  <2> QED
    BY <1>1, <1>2, <1>5, <1>7, <2>1, <2>2 DEF FireInv
<1>11. BusInv(p)'
  BY <1>1, <1>2, <1>5, <1>7 DEF PInv, BusInv, FilledFor, f
<1>12. BookInv(p)'
  <2>1. ~NoCapital(p) /\ NoCapital(p)' = NoCapital(p)
    BY <1>1, <1>2 DEF PInv, BusInv, NoCapital, Stands
  <2>2. ASSUME NEW i \in 1..Len(bus[p]), Capital(bus[p][i]), NEW l \in Leaves
        PROVE  /\ k[l] = 0 \/ k[l] = bus[p][i][l]
               /\ p \in gaps' \/ l \in left \/ k[l] = bus[p][i][l]
    <3>1. bus[p][i] = f
      BY <1>1, <1>2, <2>2 DEF PInv, BusInv, Stands, f
    <3>2. /\ book[p][l] = 0 \/ book[p][l] = bus[p][i][l]
          /\ p \in gaps \/ l \in fire[p].left \/ book[p][l] = bus[p][i][l]
      BY <1>2, <2>2 DEF PInv, BookInv
    <3>3. book[p] \in Family
      BY FireIs
    <3>4. CASE lost = {p} /\ k = book[p]
      BY <1>4, <3>2, <3>4
    <3>5. CASE /\ lost = {} /\ left = fire[p].left \ {c}
               /\ k = [book[p] EXCEPT ![c] = f[c]]
      BY <1>3, <1>4, <3>1, <3>2, <3>3, <3>5 DEF Family, Leaves
    <3> QED
      BY <1>4, <3>4, <3>5
  <2>3. outcome'[p] = "firing"
    BY <1>1, <1>2 DEF PInv, FireInv
  <2> QED
    BY <1>1, <1>5, <1>7, <2>1, <2>2, <2>3 DEF BookInv, Capital
<1>13. CoverInv(p)'
  BY <1>1, <1>2 DEF PInv, CoverInv, CoveredFirst
<1> QED
  BY <1>8, <1>9, <1>10, <1>11, <1>12, <1>13, OwnKeeps DEF PInv

LEMMA ReturnKeeps ==
  ASSUME IInv, NEW p \in Props, Returns(p)
  PROVE  IInv'
<1>1. /\ fire[p].at = "apply" /\ fire[p].left = {} /\ Finish(p, "filled")
      /\ UNCHANGED <<broker, call, deploy, records>>
  BY DEF Returns, At
<1>2. PICK i \in 1..Len(bus[p]) : bus[p][i] = fire[p].family
  BY <1>1, FireIs DEF PInv, BusInv
<1>3. Stands(p, fire[p])
  BY FireIs DEF PInv, FireInv
<1>4. ~NoCapital(p) /\ Accounted(p)
  BY <1>1, <1>2, <1>3 DEF Stands, NoCapital, Accounted
<1> QED
  BY <1>1, <1>4, EndKeeps DEF Outcomes, records

LEMMA CrashKeeps ==
  ASSUME IInv, NEW p \in Props, Crash(p)
  PROVE  IInv'
BY EndKeeps DEF Crash, Outcomes

\* A proposal is fired: its calls are forgotten, its orders are not.
LEMMA FiresKeeps ==
  ASSUME IInv, NEW p \in Props, Fires(p)
  PROVE  IInv'
<1> DEFINE g == [Idle EXCEPT !.at = "scan"]
<1>1. /\ TypeOK /\ OrderInv /\ PInv(p) /\ fires[p] < setup.maxFires
      /\ fire' = [fire EXCEPT ![p] = g] /\ outcome' = [outcome EXCEPT ![p] = "firing"]
      /\ fires' = [fires EXCEPT ![p] = @ + 1]
      /\ call' = [o \in Orders |-> IF o[1] = p THEN NoCall ELSE call[o]]
      /\ UNCHANGED <<broker, setup, records>>
  BY FireIs DEF Fires
<1>2. fire[p].at = "idle" /\ fire[p].left = {}
  BY <1>1 DEF Fires, PInv, FireInv, Stands
<1>3. g \in Fire /\ g.at = "scan" /\ g.family = Nothing /\ g.left = {}
  BY FamiliesAre DEF Idle, Fire, Steps, Leaves
<1> HIDE DEF g
<1>4. /\ fire' \in [Props -> Fire] /\ fire'[p] = g
      /\ outcome' \in [Props -> Outcomes] /\ outcome'[p] = "firing"
      /\ \A q \in Props \ {p} : fire'[q] = fire[q] /\ outcome'[q] = outcome[q]
  BY <1>1, <1>3 DEF TypeOK, Outcomes
<1>5. TypeOK'
  <2>1. setup.maxFires \in Nat
    BY <1>1, ReactorsAssumption DEF TypeOK, Setup
  <2>2. fires[p] \in 0..setup.maxFires /\ fires \in [Props -> 0..setup.maxFires]
    BY <1>1 DEF TypeOK
  <2>3. fires[p] + 1 \in 0..setup.maxFires
    BY <1>1, <2>1, <2>2
  <2>4. fires' \in [Props -> 0..setup.maxFires]
    BY <1>1, <2>2, <2>3
  <2>5. call' \in [Orders -> Call]
    BY <1>1, ResultsAre DEF TypeOK, OrderTypeOK
  <2> QED
    BY <1>1, <1>4, <2>4, <2>5 DEF TypeOK, OrderTypeOK, records
<1>6. OrderInv'
  <2> SUFFICES ASSUME NEW o \in Orders PROVE OrderOK(broker[o], call'[o])
    BY <1>1 DEF OrderInv
  <2>1. OrderOK(broker[o], call[o])
    BY <1>1 DEF OrderInv
  <2>2. OrderOK(broker[o], NoCall)
    BY <2>1, ResultsAre DEF OrderOK
  <2> QED
    BY <1>1, <2>1, <2>2
<1>7. Own(p)
  BY <1>1, <1>4 DEF Own, records
<1>8. FireInv(p)'
  <2>1. Stands(p, fire[p])'
    BY <1>3, <1>4, FamiliesAre DEF Stands, FilledFor, Nothing, Leaves
  <2>2. Calls(p, fire[p])' /\ MayWrite(p, fire[p])'
    BY <1>1, <1>3, <1>4 DEF Calls, MayWrite
  <2> QED
    BY <1>3, <1>4, <2>1, <2>2 DEF FireInv
<1>9. BusInv(p)'
  BY <1>1, <1>3, <1>4 DEF PInv, BusInv, FilledFor, records
<1>10. BookInv(p)'
  BY <1>1, <1>2, <1>3, <1>4 DEF PInv, BookInv, NoCapital, records
<1>11. CoverInv(p)'
  BY <1>1, <1>4 DEF PInv, CoverInv, CoveredFirst
<1> QED
  BY <1>5, <1>6, <1>7, <1>8, <1>9, <1>10, <1>11, OwnKeeps DEF PInv

\* The three ways an order of n units may be answered.
LEMMA SentIs ==
  ASSUME IInv, NEW p \in Props, SubmitLeg(p)
  PROVE  LET o == <<p, fire[p].at>> IN
         /\ fire[p].at \in Legs /\ o \in Orders /\ OrderTypeOK' /\ OrderInv'
         /\ UNCHANGED <<deploy, fire, outcome, records>>
         /\ \E b, c :
              /\ BrokerIs(o, b) /\ CallIs(o, c)
              /\ \/ b = broker[o] /\ c.at = "done" /\ c.result.kind = "raised"
                 \/ broker[o].status = "unknown"
                 \/ ~Alpaca /\ b.filled \in Nat /\ b.filled > 0
<1> DEFINE o == <<p, fire[p].at>>
<1>1. /\ fire[p].at \in Legs /\ Stands(p, fire[p]) /\ OrderTypeOK /\ OrderInv
      /\ fire[p].family \in Family /\ Order(p) = o
  BY FireIs DEF SubmitLeg, Ordering, PInv, FireInv, TypeOK, Order
<1>2. o \in Orders
  BY <1>1, OrdersAre DEF Stands, Legs
<1>3. UNCHANGED <<deploy, fire, outcome, records>>
  BY DEF SubmitLeg
<1>4. PICK n \in Sizes(p) : IF Alpaca THEN Submit(o, n) ELSE SubmitAtDeterministic(p, n)
  BY <1>1 DEF SubmitLeg
<1>5. n \in 1..Qty
  <2>1. CASE fire[p].at = "unwind"
    <3>1. n = fire[p].family.cover /\ n > 0
      BY <1>1, <1>4, <2>1 DEF Sizes, At, Stands
    <3> QED
      BY <1>1, <3>1, ConstantsAre, FamiliesAre
  <2>2. CASE fire[p].at # "unwind"
    <3>1. n = Qty \/ n \in 1..Qty
      BY <1>4, <2>2 DEF Sizes, At
    <3> QED
      BY <3>1, ConstantsAre
  <2> QED
    BY <2>1, <2>2
<1>6. CASE Alpaca
  BY <1>1, <1>2, <1>3, <1>4, <1>5, <1>6, SubmitIs
<1>7. CASE ~Alpaca
  <2>1. /\ call[o].at = "idle"
        /\ FillAtOnce(o, n) \/ (Ends(o, Raised) /\ UNCHANGED broker)
    BY <1>1, <1>4, <1>7 DEF SubmitAtDeterministic
  <2>2. n \in Nat /\ n > 0
    BY <1>5, ConstantsAre
  <2> HIDE DEF o
  <2>3. /\ OrderTypeOK' /\ OrderInv'
        /\ \E b, c : /\ BrokerIs(o, b) /\ CallIs(o, c)
                     /\ \/ b = broker[o] /\ c.at = "done" /\ c.result.kind = "raised"
                        \/ b.status # "unknown" /\ b.filled = n
    BY <1>1, <1>2, <1>5, <2>1, FilledAtOnceIs
  <2> QED
    BY <1>1, <1>2, <1>3, <1>7, <2>2, <2>3 DEF o
<1> QED
  BY <1>6, <1>7

LEMMA SubmitKeeps ==
  ASSUME IInv, NEW p \in Props, SubmitLeg(p)
  PROVE  IInv'
<1> DEFINE l == fire[p].at
           o == <<p, l>>
           f == fire[p].family
<1>1. /\ l \in Legs /\ o \in Orders /\ OrderTypeOK' /\ OrderInv'
      /\ UNCHANGED <<deploy, fire, outcome, records>>
  BY SentIs
<1>2. PICK b, c :
        /\ BrokerIs(o, b) /\ CallIs(o, c)
        /\ \/ b = broker[o] /\ c.at = "done" /\ c.result.kind = "raised"
           \/ broker[o].status = "unknown"
           \/ ~Alpaca /\ b.filled \in Nat /\ b.filled > 0
  BY SentIs
<1>3. /\ TypeOK /\ OrderInv /\ PInv(p) /\ f \in Family /\ Stands(p, fire[p])
      /\ MayWrite(p, fire[p]) /\ outcome[p] = "firing" /\ FilledFor(p, f)
      /\ \A i \in 1..Len(bus[p]) : bus[p][i] \in Family
  BY <1>1, FireIs DEF PInv, FireInv, Stands, Legs
<1>4. /\ b.filled \in Nat /\ broker[o].filled \in Nat
      /\ broker[o].status = "unknown" => broker[o].filled = 0
  BY <1>1, <1>2, <1>3, ConstantsAre
     DEF BrokerIs, BrokerOrder, OrderInv, OrderOK, TypeOK, OrderTypeOK
<1>5. /\ broker'[o] = b /\ call'[o] = c
      /\ \A q \in Orders \ {o} : broker'[q] = broker[q] /\ call'[q] = call[q]
  BY <1>2 DEF BrokerIs, CallIs
<1>6. TypeOK'
  BY <1>1, <1>3 DEF TypeOK, deploy, records
<1>7. Own(p)
  BY <1>1, <1>5 DEF Own, deploy, records
<1>8. ASSUME NEW h \in Family, FilledFor(p, h), broker[o].filled <= b.filled \/ l \notin Leaves
                                                \/ h[l] = 0
      PROVE  \A k \in Leaves :
               h[k] > 0 => <<p, k>> \in Orders /\ h[k] <= broker'[<<p, k>>].filled
  <2> SUFFICES ASSUME NEW k \in Leaves, h[k] > 0
               PROVE  <<p, k>> \in Orders /\ h[k] <= broker'[<<p, k>>].filled
    OBVIOUS
  <2>1. <<p, k>> \in Orders /\ h[k] <= broker[<<p, k>>].filled /\ h[k] \in Nat
    BY <1>8, FamiliesAre DEF FilledFor, Leaves
  <2>2. CASE k # l
    BY <1>5, <2>1, <2>2
  <2>3. CASE k = l
    BY <1>4, <1>5, <1>8, <2>1, <2>3
  <2> QED
    BY <2>2, <2>3
<1>9. FilledFor(p, f)'
  <2>1. l \notin Leaves \/ f[l] = 0
    BY <1>1, <1>3, FamiliesAre DEF Stands, Legs, Leaves, Nothing
  <2> QED
    BY <1>1, <1>3, <1>8, <2>1 DEF FilledFor
<1>10. \A i \in 1..Len(bus[p]) : FilledFor(p, bus[p][i])'
  <2> TAKE i \in 1..Len(bus[p])
  <2>1. FilledFor(p, bus[p][i]) /\ bus[p][i] \in Family
    BY <1>3 DEF PInv, BusInv
  <2>2. broker[o].filled <= b.filled \/ l \notin Leaves \/ bus[p][i][l] = 0
    <3>1. CASE ~Alpaca
      <4>1. ~Capital(bus[p][i])
        BY <1>1, <1>3, <3>1 DEF MayWrite, Unscanned, NoCapital, Legs
      <4> QED
        BY <2>1, <4>1, FamiliesAre DEF Leaves, Nothing
    <3>2. CASE Alpaca
      BY <1>2, <1>4, <3>2
    <3> QED
      BY <3>1, <3>2
  <2> QED
    BY <1>1, <1>8, <2>1, <2>2 DEF FilledFor, records
<1>11. NoCapital(p)' = NoCapital(p) /\ Unscanned(p)' = Unscanned(p)
  BY <1>1 DEF NoCapital, Unscanned, Alpaca, deploy, records
<1>12. FireInv(p)'
  <2>1. Stands(p, fire[p])'
    BY <1>1, <1>3, <1>9 DEF Stands
  <2>2. Calls(p, fire[p])'
    BY <1>1 DEF Calls, Legs
  <2>3. MayWrite(p, fire[p])'
    <3>1. ASSUME Unscanned(p), l = "main", broker[o].status = "unknown"
          PROVE  NoCapital(p)
      <4>1. Kind[p] = "equity" /\ <<p, "cover">> \notin Orders
        BY <3>1, OrdersAre DEF Unscanned
      <4>2. ASSUME NEW i \in 1..Len(bus[p]) PROVE ~Capital(bus[p][i])
        <5>1. FilledFor(p, bus[p][i]) /\ bus[p][i] \in Family
          BY <1>3 DEF PInv, BusInv
        <5>2. ~(bus[p][i].main > 0) /\ ~(bus[p][i].cover > 0)
          BY <1>4, <3>1, <4>1, <5>1, FilledForIs, FamiliesAre
        <5> QED
          BY <5>1, <5>2, FamiliesAre
      <4> QED
        BY <4>2 DEF NoCapital
    <3>2. ASSUME Unscanned(p), l = "main",
                 c.at \in {"poll", "reread"} \/ c.result.kind = "fill"
          PROVE  NoCapital(p)
      BY <1>2, <3>1, <3>2 DEF Unscanned
    <3> QED
      BY <1>1, <1>3, <1>5, <1>11, <3>2 DEF MayWrite, Legs
  <2> QED
    BY <1>1, <1>3, <2>1, <2>2, <2>3 DEF PInv, FireInv
<1>13. BusInv(p)'
  BY <1>1, <1>3, <1>10 DEF PInv, BusInv, records
<1>14. BookInv(p)'
  BY <1>1, <1>3, <1>11 DEF PInv, BookInv, records
<1>15. CoverInv(p)'
  <2>1. CoveredFirst(p)'
    <3> SUFFICES ASSUME Kind[p] = "covered", broker'[<<p, "main">>].status # "unknown"
                 PROVE  broker'[<<p, "cover">>].filled > 0
      BY DEF CoveredFirst
    <3>0. <<p, "main">> \in Orders /\ <<p, "cover">> \in Orders
      BY OrdersAre
    <3>1. /\ <<p, "main">> \in Orders /\ <<p, "cover">> \in Orders
          /\ broker[<<p, "cover">>].filled \in Nat
          /\ broker[<<p, "main">>].status # "unknown" => broker[<<p, "cover">>].filled > 0
      <4>1. broker[<<p, "cover">>].filled \in Nat
        BY <1>3, <3>0, ConstantsAre DEF TypeOK, OrderTypeOK, BrokerOrder
      <4> QED
        BY <1>3, <3>0, <4>1 DEF PInv, CoverInv, CoveredFirst
    <3>2. CASE l = "main"
      <4>1. f.cover > 0 /\ f.cover <= broker[<<p, "cover">>].filled
        BY <1>3, <3>2, FilledForIs DEF Stands
      <4> QED
        BY <1>3, <1>5, <3>1, <3>2, <4>1, FamiliesAre
    <3>3. CASE l = "cover"
      <4>1. broker[o].filled > 0
        BY <1>5, <3>1, <3>3
      <4>2. b.filled > 0
        BY <1>2, <1>4, <4>1
      <4> QED
        BY <1>5, <3>3, <4>2
    <3>4. CASE l = "unwind"
      BY <1>5, <3>1, <3>4
    <3> QED
      BY <1>1, <3>2, <3>3, <3>4 DEF Legs
  <2> QED
    BY <1>1, <1>3, <2>1 DEF CoverInv
<1> QED
  BY <1>1, <1>6, <1>7, <1>12, <1>13, <1>14, <1>15, OwnKeeps DEF PInv

LEMMA SettleKeeps ==
  ASSUME IInv, NEW p \in Props, SettleLeg(p)
  PROVE  IInv'
<1> DEFINE l == fire[p].at
           o == <<p, l>>
<1>1. /\ l \in Legs /\ ClientStep(o) /\ UNCHANGED <<deploy, fire, outcome, records>>
  BY DEF SettleLeg, Ordering, Order
<1>2. /\ TypeOK /\ OrderInv /\ PInv(p) /\ Stands(p, fire[p]) /\ MayWrite(p, fire[p])
      /\ outcome[p] = "firing" /\ OrderTypeOK
  BY <1>1, FireIs DEF PInv, FireInv, TypeOK, Legs
<1>3. o \in Orders
  BY <1>1, <1>2, OrdersAre DEF Stands, Legs
<1>4. /\ OrderTypeOK' /\ OrderInv' /\ UNCHANGED broker
      /\ \E c \in Call : CallIs(o, c) /\ c.at # "idle"
      /\ call[o].at \in {"poll", "reread"}
  <2> HIDE DEF o
  <2> QED
    BY <1>1, <1>2, <1>3, ClientKeeps
<1>5. \A q \in Orders \ {o} : call'[q] = call[q]
  BY <1>4 DEF CallIs
<1>6. TypeOK' /\ Own(p)
  BY <1>1, <1>2, <1>4, <1>5 DEF TypeOK, Own, deploy, records
<1>7. FireInv(p)'
  <2>1. Stands(p, fire[p])' /\ Calls(p, fire[p])'
    BY <1>1, <1>2, <1>4 DEF Stands, Calls, FilledFor, Legs
  <2>2. Unscanned(p) /\ l = "main" => NoCapital(p)
    BY <1>2, <1>4 DEF MayWrite
  <2>3. MayWrite(p, fire[p])'
    BY <1>1, <1>2, <2>2
       DEF MayWrite, Legs, Unscanned, Alpaca, NoCapital, deploy, records
  <2> QED
    BY <1>1, <1>2, <2>1, <2>3 DEF PInv, FireInv
<1>8. BusInv(p)' /\ BookInv(p)' /\ CoverInv(p)'
  BY <1>1, <1>2, <1>4
     DEF PInv, BusInv, BookInv, CoverInv, CoveredFirst, FilledFor, NoCapital, records
<1> QED
  BY <1>4, <1>6, <1>7, <1>8, OwnKeeps DEF PInv

LEMMA BrokerActsKeep ==
  ASSUME IInv, BrokerActs
  PROVE  IInv'
<1>1. PICK o \in Orders : BrokerStep(o) /\ UNCHANGED <<deploy, fire, outcome, records>>
  BY DEF BrokerActs
<1>2. /\ OrderTypeOK' /\ OrderInv' /\ UNCHANGED call
      /\ \A q \in Orders : /\ broker[q].filled <= broker'[q].filled
                           /\ (broker'[q].status = "unknown") = (broker[q].status = "unknown")
  BY <1>1, BrokerKeeps DEF IInv, TypeOK
<1>3. TypeOK'
  BY <1>1, <1>2 DEF IInv, TypeOK, deploy, records
<1>4. \A p \in Props : PInv(p)'
  BY <1>1, <1>2, Frame DEF deploy, records
<1> QED
  BY <1>2, <1>3, <1>4 DEF IInv

LEMMA InitHolds == Init => IInv
<1> SUFFICES ASSUME Init PROVE IInv
  OBVIOUS
<1>1. OrderTypeOK /\ OrderInv
  <2>1. Unknown \in BrokerOrder /\ Unknown.status = "unknown" /\ Unknown.filled = 0
    BY ConstantsAre DEF Unknown, BrokerOrder
  <2>2. OrderOK(Unknown, NoCall)
    BY <2>1, ResultsAre DEF OrderOK
  <2> QED
    BY <2>1, <2>2, ResultsAre DEF Init, OrderInit, OrderTypeOK, OrderInv
<1>2. TypeOK
  <2>1. setup.maxFires \in Nat
    BY ReactorsAssumption DEF Init, Setup
  <2> QED
    BY <1>1, <2>1, IdleIs, FamiliesAre DEF Init, TypeOK, Outcomes
<1>3. ASSUME NEW p \in Props PROVE PInv(p)
  <2>1. /\ fire[p] = Idle /\ outcome[p] = "new" /\ bus[p] = <<>> /\ book[p] = Nothing
        /\ \A o \in Orders : broker[o].status = "unknown" /\ call[o] = NoCall
    BY DEF Init, OrderInit, Unknown
  <2>2. FireInv(p)
    BY <2>1, IdleIs, FamiliesAre
       DEF FireInv, Stands, Calls, MayWrite, FilledFor, Nothing, Leaves
  <2>3. BusInv(p) /\ BookInv(p)
    BY <2>1, IdleIs DEF BusInv, BookInv
  <2>4. CoverInv(p)
    BY <2>1, OrdersAre DEF CoverInv, CoveredFirst
  <2> QED
    BY <2>2, <2>3, <2>4 DEF PInv
<1> QED
  BY <1>1, <1>2, <1>3 DEF IInv

LEMMA AtMostOne ==
  ASSUME NEW S, \A i, j \in S : i = j
  PROVE  Cardinality(S) <= 1
<1>1. CASE S = {}
  <2>1. Cardinality(S) = 0
    BY <1>1, FS_EmptySet
  <2> QED
    BY <2>1
<1>2. CASE S # {}
  <2>1. PICK i \in S : S = {i}
    BY <1>2
  <2>2. Cardinality(S) = 1
    BY <2>1, FS_Singleton
  <2> QED
    BY <2>2
<1> QED
  BY <1>1, <1>2

LEMMA NextKeeps ==
  ASSUME IInv, [Next]_vars
  PROVE  IInv'
<1>1. ASSUME NEW p \in Props, ReactorStep(p) PROVE IInv'
  BY <1>1, ScanKeeps, RefuseKeeps, ClipKeeps, SubmitKeeps, SettleKeeps, EquityKeeps,
     StructureKeeps, CoverKeeps, ShortKeeps, UnwindKeeps, CapKeeps, WriteKeeps,
     ApplyKeeps, ReturnKeeps DEF ReactorStep
<1>2. CASE UNCHANGED vars
  <2>1. TypeOK' /\ OrderInv'
    BY <1>2 DEF vars, IInv, TypeOK, OrderTypeOK, OrderInv
  <2>2. \A o \in Orders : broker[o].filled <= broker[o].filled
    BY ConstantsAre DEF IInv, TypeOK, OrderTypeOK, BrokerOrder
  <2>3. \A p \in Props : PInv(p)'
    BY <1>2, <2>1, <2>2, Frame DEF vars, TypeOK
  <2> QED
    BY <2>1, <2>3 DEF IInv
<1> QED
  BY <1>1, <1>2, FiresKeeps, CrashKeeps, BrokerActsKeep DEF Next

\* What the proofs rest on: the types, the orders, and for each proposal where
\* its fire stands, what the bus and the book have of it, and its cover.
THEOREM Invariant == Spec => []IInv
<1>1. IInv /\ [Next]_vars => IInv'
  BY NextKeeps
<1> QED
  BY <1>1, InitHolds, PTL DEF Spec

\* Every variable keeps its type: no book holds more units of a leg than an
\* order may ask for, and no proposal is fired beyond its bound.
THEOREM TypeCorrect == Spec => []TypeOK
<1>1. IInv => TypeOK
  BY DEF IInv
<1> QED
  BY <1>1, Invariant, PTL

\* P1-D: what the poll reports as filled before its deadline is final.
THEOREM PolledIsFinal == Spec => []PolledFillIsFinal
<1>1. IInv => PolledFillIsFinal
  BY DEF IInv, OrderInv, OrderOK, PolledFillIsFinal, Working
<1> QED
  BY <1>1, Invariant, PTL

\* What the bus records was filled, what the book holds is on the bus, and a
\* proposal that was handed back has moved nothing, where the reactor looks at
\* the bus.
THEOREM RecordsAreBacked == Spec => []Backed
<1>1. IInv => Backed
  <2> SUFFICES ASSUME IInv, NEW p \in Props
               PROVE  /\ \A i \in 1..Len(bus[p]) : \A l \in Moved(bus[p][i]) :
                           bus[p][i][l] <= broker[<<p, l>>].filled
                      /\ book[p] # Nothing =>
                           \E i \in 1..Len(bus[p]) : \A l \in Leaves : book[p][l] <= bus[p][i][l]
                      /\ outcome[p] = "filled" /\ p \notin gaps =>
                           \E i \in 1..Len(bus[p]) : bus[p][i] = book[p] /\ Capital(book[p])
                      /\ outcome[p] = "handed_back" /\ ~Unscanned(p) => NoCapital(p)
    BY DEF Backed, Unscanned, NoCapital
  <2>1. /\ PInv(p) /\ book[p] \in Family
        /\ \A i \in 1..Len(bus[p]) : bus[p][i] \in Family
    BY FireIs
  <2>2. \A i \in 1..Len(bus[p]) : \A l \in Moved(bus[p][i]) :
          bus[p][i][l] <= broker[<<p, l>>].filled
    BY <2>1 DEF PInv, BusInv, FilledFor, Moved
  <2>3. ASSUME book[p] # Nothing
        PROVE  \E i \in 1..Len(bus[p]) : \A l \in Leaves : book[p][l] <= bus[p][i][l]
    <3>1. PICK i \in 1..Len(bus[p]) : Capital(bus[p][i])
      BY <2>1, <2>3 DEF PInv, BookInv, NoCapital
    <3>2. \A l \in Leaves : book[p][l] = 0 \/ book[p][l] = bus[p][i][l]
      BY <2>1, <3>1 DEF PInv, BookInv
    <3>3. \A l \in Leaves : bus[p][i][l] \in Nat
      BY <2>1, FamiliesAre DEF Leaves
    <3> QED
      BY <3>2, <3>3
  <2>4. ASSUME outcome[p] = "filled", p \notin gaps
        PROVE  \E i \in 1..Len(bus[p]) : bus[p][i] = book[p] /\ Capital(book[p])
    <3>1. PICK i \in 1..Len(bus[p]) : Capital(bus[p][i])
      BY <2>1, <2>4 DEF PInv, BookInv, NoCapital
    <3>2. fire[p].left = {}
      BY <2>1, <2>4 DEF PInv, FireInv, Stands
    <3>3. \A l \in Leaves : book[p][l] = bus[p][i][l]
      BY <2>1, <2>4, <3>1, <3>2 DEF PInv, BookInv
    <3>4. book[p].main = bus[p][i].main /\ book[p].cover = bus[p][i].cover
      BY <2>1, <3>3, FamiliesAre DEF Leaves
    <3>5. book[p] = bus[p][i]
      BY <2>1, <3>4, FamiliesAre
    <3> QED
      BY <3>1, <3>5
  <2>5. outcome[p] = "handed_back" /\ ~Unscanned(p) => NoCapital(p)
    BY <2>1 DEF PInv, BookInv
  <2> QED
    BY <2>2, <2>3, <2>4, <2>5
<1> QED
  BY <1>1, Invariant, PTL

\* A proposal moves capital on the bus once, fired and crashed as often as it may.
THEOREM OneFamily == Spec => []FamilyOnce
<1>1. IInv => FamilyOnce
  <2> SUFFICES ASSUME IInv, NEW p \in Props
               PROVE  Cardinality({i \in 1..Len(bus[p]) : Capital(bus[p][i])}) <= 1
    BY DEF FamilyOnce
  <2> DEFINE S == {i \in 1..Len(bus[p]) : Capital(bus[p][i])}
  <2>1. \A i, j \in S : i = j
    BY FireIs DEF PInv, BusInv
  <2> QED
    BY <2>1, AtMostOne
<1> QED
  BY <1>1, Invariant, PTL

\* The short option is never at the broker before its cover has filled.
THEOREM CoverBeforeShort == Spec => []CoverFirst
<1>1. IInv => CoverFirst
  BY DEF IInv, PInv, CoverInv, CoveredFirst, CoverFirst
<1> QED
  BY <1>1, Invariant, PTL

\* A cover that was taken for a fill is never lost.
THEOREM NoCoverIsLost == Spec => []CoverAccounted
<1>1. IInv => CoverAccounted
  BY DEF IInv, PInv, CoverInv, Accounted, CoverAccounted
<1> QED
  BY <1>1, Invariant, PTL


-----------------------------------------------------------------------------
(***************************************************************************)
(* How long a fire is.  Every step of the reactor uses up a part of it,    *)
(* and nothing but a new fire gives it back: neither the broker, which may *)
(* fill, close or stay silent at any moment, nor the fire of another       *)
(* proposal.  So a fire that goes on returns.                              *)
(***************************************************************************)
\* The steps in their order.
Stage(at) ==
  IF at = "scan" THEN 8 ELSE IF at = "clip"   THEN 7 ELSE IF at = "cover" THEN 6 ELSE
  IF at = "main" THEN 5 ELSE IF at = "unwind" THEN 4 ELSE IF at = "cap"   THEN 3 ELSE
  IF at = "write" THEN 2 ELSE IF at = "apply" THEN 1 ELSE 0

\* What is left of a call: the submit, the reads, the cancel and the re-read.
LeftOfCall(c) ==
  IF c.at = "idle" THEN MaxReads + 3 ELSE IF c.at = "poll" THEN MaxReads + 2 - c.reads
  ELSE IF c.at = "reread" THEN 1 ELSE 0

\* What is left of a step: of an order its call, of the apply its children.
LeftOfStep(f, c) ==
  IF f.at \in Legs THEN LeftOfCall(c)
  ELSE IF f.at # "apply" \/ f.left = {} THEN 0
  ELSE IF "main" \in f.left THEN 2 ELSE 1

RankOf(f, c) == Stage(f.at) * (MaxReads + 4) + LeftOfStep(f, c)

Rank(p) == RankOf(fire[p], call[Order(p)])

\* A fire is over when nothing is left of it; each step of its reactor leaves
\* less, and a step of anybody else, or a crash, no more.
Shortens ==
  \A p \in Props : /\ Rank(p) \in 0 .. 8 * (MaxReads + 4)
                   /\ Rank(p) = 0 <=> outcome[p] # "firing"
                   /\ ReactorStep(p) => Rank(p)' < Rank(p)
                   /\ Fires(p) \/ Rank(p)' <= Rank(p)

\* A fire at f, with the call c if it has one.
Standing(f, c) == f \in Fire /\ (f.at \in Legs => c \in Call)

LEMMA LeftIs ==
  ASSUME NEW f, NEW c, Standing(f, c)
  PROVE  /\ Stage(f.at) \in 0 .. 8 /\ (Stage(f.at) = 0 <=> f.at = "idle")
         /\ LeftOfStep(f, c) \in 0 .. MaxReads + 3
         /\ Stage(f.at) \in {0, 8} => LeftOfStep(f, c) = 0
<1>1. Stage(f.at) \in 0 .. 8 /\ (Stage(f.at) = 0 <=> f.at = "idle")
  BY DEF Standing, Fire, Steps, Stage
<1>2. CASE f.at \in Legs
  <2>1. LeftOfCall(c) \in 0 .. MaxReads + 3
    BY <1>2, ConstantsAre DEF Standing, Call, LeftOfCall
  <2>2. Stage(f.at) \notin {0, 8}
    BY <1>2 DEF Legs, Stage
  <2> QED
    BY <1>1, <1>2, <2>1, <2>2 DEF LeftOfStep
<1>3. CASE f.at \notin Legs
  <2>1. f.at # "apply" => LeftOfStep(f, c) = 0
    BY <1>3 DEF LeftOfStep
  <2>2. f.at = "apply" => Stage(f.at) = 1 /\ LeftOfStep(f, c) \in 0 .. 2
    BY <1>3 DEF LeftOfStep, Stage
  <2> QED
    BY <1>1, <2>1, <2>2, ConstantsAre
<1> QED
  BY <1>2, <1>3

LEMMA RankIs ==
  ASSUME NEW f, NEW c, Standing(f, c)
  PROVE  RankOf(f, c) \in 0 .. 8 * (MaxReads + 4) /\ (RankOf(f, c) = 0 <=> f.at = "idle")
<1> DEFINE s == Stage(f.at)
           w == LeftOfStep(f, c)
<1>1. /\ s \in 0 .. 8 /\ (s = 0 <=> f.at = "idle")
      /\ w \in 0 .. MaxReads + 3 /\ (s \in {0, 8} => w = 0)
  BY LeftIs
<1>2. RankOf(f, c) = s * (MaxReads + 4) + w
  BY DEF RankOf
<1> HIDE DEF s, w
<1>3. s * (MaxReads + 4) + w \in 0 .. 8 * (MaxReads + 4)
  BY <1>1, ConstantsAre
<1>4. s * (MaxReads + 4) + w = 0 <=> s = 0
  BY <1>1, ConstantsAre
<1> QED
  BY <1>1, <1>2, <1>3, <1>4

\* A later step is less, whatever is left of it, and so is less of a step.
LEMMA RankFalls ==
  ASSUME NEW f, NEW c, Standing(f, c), NEW g, NEW d, Standing(g, d),
         \/ Stage(g.at) < Stage(f.at)
         \/ g.at = f.at /\ LeftOfStep(g, d) < LeftOfStep(f, c)
  PROVE  RankOf(g, d) < RankOf(f, c)
<1> DEFINE s == Stage(f.at)
           r == Stage(g.at)
           w == LeftOfStep(f, c)
           v == LeftOfStep(g, d)
<1>1. /\ s \in 0 .. 8 /\ w \in 0 .. MaxReads + 3
      /\ r \in 0 .. 8 /\ v \in 0 .. MaxReads + 3
  BY LeftIs
<1>2. RankOf(f, c) = s * (MaxReads + 4) + w /\ RankOf(g, d) = r * (MaxReads + 4) + v
  BY DEF RankOf
<1>3. r < s \/ (r = s /\ v < w)
  OBVIOUS
<1> HIDE DEF s, r, v, w
<1>4. r * (MaxReads + 4) + v < s * (MaxReads + 4) + w
  BY <1>1, <1>3, ConstantsAre
<1> QED
  BY <1>2, <1>4

\* Where a fire stands, and its call if it has one.
LEMMA StandsAt ==
  ASSUME IInv, NEW p \in Props
  PROVE  /\ Standing(fire[p], call[Order(p)])
         /\ fire[p].at \in Legs => Order(p) \in Orders
         /\ (fire[p].at = "idle") <=> (outcome[p] # "firing")
<1>1. fire[p] \in Fire /\ FireInv(p)
  BY DEF IInv, TypeOK, PInv
<1>2. fire[p].at \in Legs => Order(p) \in Orders
  BY <1>1, OrdersAre DEF FireInv, Stands, Legs, Order
<1> QED
  BY <1>1, <1>2 DEF Standing, FireInv, IInv, TypeOK, OrderTypeOK

\* Where a fire stands after a step.
LEMMA StandsNext ==
  ASSUME IInv', NEW p \in Props
  PROVE  Standing(fire'[p], call'[<<p, fire'[p].at>>])
<1>1. fire'[p] \in Fire /\ (fire'[p].at \in {"cover", "unwind"} => Kind[p] = "covered")
  BY DEF IInv, TypeOK, PInv, FireInv, Stands
<1>2. fire'[p].at \in Legs => <<p, fire'[p].at>> \in Orders
  BY <1>1, OrdersAre DEF Legs
<1>3. call' \in [Orders -> Call]
  BY DEF IInv, TypeOK, OrderTypeOK
<1> QED
  BY <1>1, <1>2, <1>3 DEF Standing

\* An order is submitted, polled, cancelled and re-read, in that order.
LEMMA CallShortens ==
  ASSUME TypeOK, NEW p \in Props, Order(p) \in Orders, SubmitLeg(p) \/ SettleLeg(p)
  PROVE  LeftOfCall(call'[Order(p)]) < LeftOfCall(call[Order(p)])
<1> DEFINE o == Order(p)
<1>1. call[o] \in Call /\ call \in [Orders -> Call] /\ o \in Orders
  BY DEF TypeOK, OrderTypeOK
<1> SUFFICES LeftOfCall(call'[o]) < LeftOfCall(call[o])
  OBVIOUS
<1> HIDE DEF o
<1>2. ASSUME call[o].at # "done", NEW r, Ends(o, r)
      PROVE  LeftOfCall(call'[o]) < LeftOfCall(call[o])
  <2>1. call'[o].at = "done"
    BY <1>1, <1>2 DEF Ends, Call
  <2> QED
    BY <1>1, <1>2, <2>1, ConstantsAre DEF LeftOfCall, Call
<1>3. ASSUME NEW s, NEW n \in 0 .. MaxReads, Judge(o, s, n),
             call[o].at = "idle" \/ (call[o].at = "poll" /\ call[o].reads < n)
      PROVE  LeftOfCall(call'[o]) < LeftOfCall(call[o])
  <2>1. CASE Terminal(o, s)
    BY <1>2, <1>3, <2>1 DEF Judge
  <2>2. CASE ~Terminal(o, s)
    <3>1. call'[o].at = "poll" /\ call'[o].reads = n
      BY <1>1, <1>3, <2>2 DEF Judge, Call
    <3> QED
      BY <1>1, <1>3, <3>1, ConstantsAre DEF LeftOfCall, Call
  <2> QED
    BY <2>1, <2>2
<1>4. CASE SubmitLeg(p)
  <2>1. PICK n : IF Alpaca THEN Submit(o, n) ELSE SubmitAtDeterministic(p, n)
    BY <1>4 DEF SubmitLeg, o
  <2>2. CASE Alpaca
    <3>1. /\ call[o].at = "idle" /\ 0 \in 0 .. MaxReads
          /\ (\E r : Ends(o, r)) \/ (\E s : Judge(o, s, 0))
      BY <2>1, <2>2, ConstantsAre DEF Submit
    <3>2. CASE \E r : Ends(o, r)
      BY <1>2, <3>1, <3>2
    <3>3. CASE \E s : Judge(o, s, 0)
      BY <1>3, <3>1, <3>3
    <3> QED
      BY <3>1, <3>2, <3>3
  <2>3. CASE ~Alpaca
    <3>1. call[o].at = "idle" /\ \E r : Ends(o, r)
      BY <2>1, <2>3 DEF SubmitAtDeterministic, FillAtOnce, o
    <3>2. PICK r : Ends(o, r)
      BY <3>1
    <3>3. call[o].at # "done"
      BY <3>1
    <3> QED
      BY <1>2, <3>2, <3>3
  <2> QED
    BY <2>2, <2>3
<1>5. CASE SettleLeg(p)
  <2>1. CASE Poll(o)
    <3> DEFINE n == call[o].reads + 1
    <3>1. call[o].at = "poll" /\ n \in 0 .. MaxReads /\ call[o].reads < n
      BY <1>1, <2>1, ConstantsAre DEF Poll, Call
    <3>2. (\E r : Ends(o, r)) \/ (\E s : Judge(o, s, n))
      BY <2>1 DEF Poll
    <3> HIDE DEF n
    <3>3. CASE \E r : Ends(o, r)
      BY <1>2, <3>1, <3>3
    <3>4. CASE \E s : Judge(o, s, n)
      BY <1>3, <3>1, <3>4
    <3> QED
      BY <3>2, <3>3, <3>4
  <2>2. CASE Cancel(o)
    <3>1. call[o].at = "poll" /\ call'[o].at = "reread"
      BY <1>1, <2>2 DEF Cancel, Call
    <3> QED
      BY <1>1, <3>1, ConstantsAre DEF LeftOfCall, Call
  <2>3. CASE Reread(o)
    <3>1. call[o].at # "done" /\ \E r : Ends(o, r)
      BY <2>3 DEF Reread
    <3> QED
      BY <1>2, <3>1
  <2> QED
    BY <1>5, <2>1, <2>2, <2>3 DEF SettleLeg, ClientStep, o
<1> QED
  BY <1>4, <1>5

\* Each step of the reactor goes to a later step, or on with the one it is at.
LEMMA StepShortens ==
  ASSUME IInv, IInv', NEW p \in Props, ReactorStep(p)
  PROVE  Rank(p)' < Rank(p)
<1> DEFINE f == fire[p]
           c == call[Order(p)]
           g == fire'[p]
           d == call'[<<p, fire'[p].at>>]
<1>1. Standing(f, c) /\ (f.at \in Legs => Order(p) \in Orders)
  BY StandsAt
<1>2. Standing(g, d)
  BY StandsNext
<1>3. Rank(p) = RankOf(f, c) /\ Rank(p)' = RankOf(g, d)
  BY DEF Rank, Order
<1>4. fire \in [Props -> Fire]
  BY DEF IInv, TypeOK
<1>5. ASSUME NEW r, Finish(p, r), f.at # "idle"
      PROVE  Stage(g.at) < Stage(f.at)
  <2>1. g.at = "idle" /\ f.at \in Steps
    BY <1>4, <1>5 DEF Finish, Idle, Fire
  <2> QED
    BY <1>5, <2>1 DEF Stage, Steps
<1>6. ASSUME NEW l \in Steps, Goes(p, l)
      PROVE  g.at = l
  BY <1>4, <1>6 DEF Goes, Fire
<1>7. ASSUME NEW h, NEW l, Takes(p, h, l)
      PROVE  g.at = l
  BY <1>4, <1>7 DEF Takes
<1>8. CASE \/ Scan(p) \/ Refuse(p) \/ Clip(p) \/ EquityAtAlpaca(p) \/ EquityAtDeterministic(p)
           \/ Structure(p) \/ CoverAnswered(p) \/ ShortAnswered(p) \/ UnwindAnswered(p)
           \/ Cap(p) \/ WriteFamily(p) \/ Returns(p)
  <2>1. Stage(g.at) < Stage(f.at)
    <3>1. CASE Scan(p) \/ Refuse(p) \/ Clip(p) \/ Cap(p) \/ Returns(p)
      BY <1>5, <1>6, <3>1 DEF Scan, Refuse, Clip, Cap, Returns, At, FirstLeg, Steps, Stage
    <3>2. CASE EquityAtAlpaca(p) \/ EquityAtDeterministic(p) \/ Structure(p)
      <4>1. f.at = "main"
        BY <1>1, <3>2, OrdersAre DEF EquityAtAlpaca, EquityAtDeterministic, Structure,
           Answered, Ordering, Order, Legs
      <4> QED
        BY <1>5, <1>7, <3>2, <4>1
        DEF EquityAtAlpaca, EquityAtDeterministic, Structure, Stage
    <3>3. CASE CoverAnswered(p)
      <4>1. f.at = "cover" /\ (g.at = "main" \/ \E r : Finish(p, r))
        BY <1>4, <3>3 DEF CoverAnswered, At, Fire
      <4> QED
        BY <1>5, <4>1 DEF Stage
    <3>4. CASE ShortAnswered(p)
      BY <1>6, <1>7, <3>4 DEF ShortAnswered, At, Steps, Stage
    <3>5. CASE UnwindAnswered(p)
      BY <1>5, <1>7, <3>5 DEF UnwindAnswered, At, Stage
    <3>6. CASE WriteFamily(p)
      <4>1. f.at = "write" /\ (g.at = "apply" \/ \E r : Finish(p, r))
        BY <1>4, <3>6 DEF WriteFamily, At, Fire
      <4> QED
        BY <1>5, <4>1 DEF Stage
    <3> QED
      BY <1>8, <3>1, <3>2, <3>3, <3>4, <3>5, <3>6
  <2> QED
    BY <1>1, <1>2, <1>3, <2>1, RankFalls
<1>9. CASE SubmitLeg(p) \/ SettleLeg(p)
  <2>1. f.at \in Legs /\ g = f
    BY <1>9 DEF SubmitLeg, SettleLeg, Ordering
  <2>2. LeftOfCall(d) < LeftOfCall(c)
    BY <1>1, <1>9, <2>1, CallShortens DEF Order, IInv
  <2>3. LeftOfStep(g, d) < LeftOfStep(f, c)
    BY <2>1, <2>2 DEF LeftOfStep
  <2> QED
    BY <1>1, <1>2, <1>3, <2>1, <2>3, RankFalls
<1>10. CASE ApplyChild(p)
  <2>1. f.at = "apply" /\ g.at = "apply" /\ f.left # {} /\ f.left \subseteq Leaves
    BY <1>4, <1>10 DEF ApplyChild, At, Fire
  <2>2. g.left = {} \/ g.left = f.left \ {NextChild(p)}
    BY <1>4, <1>10 DEF ApplyChild, Fire
  <2>3. LeftOfStep(g, d) < LeftOfStep(f, c)
    BY <2>1, <2>2 DEF LeftOfStep, NextChild, Leaves, Legs
  <2> QED
    BY <1>1, <1>2, <1>3, <2>1, <2>3, RankFalls
<1> QED
  BY <1>8, <1>9, <1>10 DEF ReactorStep

\* A step that is not of the fire leaves its rank.
LEMMA OthersLeave ==
  ASSUME IInv, NEW p \in Props, fire'[p] = fire[p],
         \A o \in Orders : o[1] = p => call'[o] = call[o]
  PROVE  Rank(p)' = Rank(p)
<1>1. fire[p].at \in Legs => Order(p) \in Orders /\ Order(p)[1] = p
  BY StandsAt DEF Order
<1>2. CASE fire[p].at \in Legs
  BY <1>1, <1>2 DEF Rank, Order
<1>3. CASE fire[p].at \notin Legs
  BY <1>3 DEF Rank, RankOf, LeftOfStep
<1> QED
  BY <1>2, <1>3

\* An action on one order leaves the calls of the others.
LEMMA CallsOfOthers ==
  ASSUME OrderTypeOK, NEW o \in Orders, NEW q \in Orders \ {o},
         \/ \E n : Submit(o, n)
         \/ ClientStep(o)
         \/ \E r : Ends(o, r)
  PROVE  call'[q] = call[q]
BY DEF OrderTypeOK, Submit, ClientStep, Poll, Cancel, Reread, Judge, Ends

\* A step of the fire of one proposal leaves the fires and calls of another.
LEMMA StepOfOther ==
  ASSUME IInv, NEW p \in Props, NEW q \in Props \ {p},
         Fires(q) \/ Crash(q) \/ ReactorStep(q)
  PROVE  fire'[p] = fire[p] /\ \A o \in Orders : o[1] = p => call'[o] = call[o]
<1>1. fire \in [Props -> Fire] /\ OrderTypeOK
  BY DEF IInv, TypeOK
<1>2. ASSUME NEW r, Finish(q, r) PROVE fire'[p] = fire[p]
  BY <1>1, <1>2 DEF Finish
<1>3. ASSUME NEW l, Goes(q, l) PROVE fire'[p] = fire[p]
  BY <1>1, <1>3 DEF Goes
<1>4. ASSUME NEW h, NEW l, Takes(q, h, l) PROVE fire'[p] = fire[p]
  BY <1>1, <1>4 DEF Takes
<1>5. CASE Fires(q)
  BY <1>1, <1>5 DEF Fires, OrderTypeOK
<1>6. CASE SubmitLeg(q) \/ SettleLeg(q)
  <2>1. fire' = fire /\ Order(q) \in Orders
    BY <1>6, StandsAt DEF SubmitLeg, SettleLeg, Ordering
  <2>2. \/ \E n : Submit(Order(q), n)
        \/ ClientStep(Order(q))
        \/ \E r : Ends(Order(q), r)
    BY <1>6 DEF SubmitLeg, SettleLeg, SubmitAtDeterministic, FillAtOnce
  <2>3. \A o \in Orders : o[1] = p => o \in Orders \ {Order(q)}
    BY DEF Order
  <2> QED
    BY <1>1, <2>1, <2>2, <2>3, CallsOfOthers
<1>7. CASE \/ Scan(q) \/ Refuse(q) \/ Clip(q) \/ EquityAtAlpaca(q) \/ EquityAtDeterministic(q)
           \/ Structure(q) \/ CoverAnswered(q) \/ ShortAnswered(q) \/ UnwindAnswered(q)
           \/ Cap(q) \/ WriteFamily(q) \/ ApplyChild(q) \/ Returns(q) \/ Crash(q)
  <2>1. call' = call
    BY <1>7 DEF Scan, Refuse, Clip, EquityAtAlpaca, EquityAtDeterministic, Structure,
       CoverAnswered, ShortAnswered, UnwindAnswered, Cap, WriteFamily, ApplyChild,
       Returns, Crash
  <2>2. fire'[p] = fire[p]
    <3>1. CASE Scan(q) \/ Refuse(q) \/ Clip(q) \/ Cap(q) \/ Returns(q) \/ Crash(q)
      BY <1>2, <1>3, <3>1 DEF Scan, Refuse, Clip, Cap, Returns, Crash
    <3>2. CASE EquityAtAlpaca(q) \/ EquityAtDeterministic(q) \/ Structure(q)
      BY <1>2, <1>4, <3>2 DEF EquityAtAlpaca, EquityAtDeterministic, Structure
    <3>3. CASE ShortAnswered(q) \/ UnwindAnswered(q)
      BY <1>2, <1>3, <1>4, <3>3 DEF ShortAnswered, UnwindAnswered
    <3>4. CASE CoverAnswered(q) \/ WriteFamily(q) \/ ApplyChild(q)
      BY <1>1, <1>2, <3>4 DEF CoverAnswered, WriteFamily, ApplyChild
    <3> QED
      BY <1>7, <3>1, <3>2, <3>3, <3>4
  <2> QED
    BY <2>1, <2>2
<1> QED
  BY <1>5, <1>6, <1>7 DEF ReactorStep

LEMMA NextShortens ==
  ASSUME IInv, IInv', Next
  PROVE  Shortens
<1> SUFFICES ASSUME NEW p \in Props
             PROVE  /\ Rank(p) \in 0 .. 8 * (MaxReads + 4)
                    /\ Rank(p) = 0 <=> outcome[p] # "firing"
                    /\ ReactorStep(p) => Rank(p)' < Rank(p)
                    /\ Fires(p) \/ Rank(p)' <= Rank(p)
  BY DEF Shortens
<1>1. /\ Rank(p) \in 0 .. 8 * (MaxReads + 4)
      /\ Rank(p) = 0 <=> outcome[p] # "firing"
  BY StandsAt, RankIs DEF Rank
<1>2. Rank(p)' \in Int
  <2>1. Standing(fire'[p], call'[<<p, fire'[p].at>>])
    BY StandsNext
  <2> QED
    BY <2>1, RankIs, ConstantsAre DEF Rank, Order
<1>3. CASE Rank(p)' = Rank(p)
  BY <1>1, <1>3, StepShortens, ConstantsAre
<1>4. ASSUME fire'[p] = fire[p], \A o \in Orders : o[1] = p => call'[o] = call[o]
      PROVE  Rank(p)' = Rank(p)
  BY <1>4, OthersLeave
<1>5. CASE ReactorStep(p)
  BY <1>1, <1>2, <1>5, StepShortens
<1>6. CASE Fires(p)
  BY <1>1, <1>6, StepShortens
<1>7. CASE Crash(p)
  <2>1. fire'[p] = Idle
    BY <1>7 DEF Crash, Finish, IInv, TypeOK
  <2>2. Rank(p)' = 0
    BY <2>1, ConstantsAre DEF Rank, RankOf, Stage, LeftOfStep, Idle, Legs
  <2> QED
    BY <1>1, <2>2, StepShortens, ConstantsAre
<1>8. ASSUME NEW q \in Props \ {p}, Fires(q) \/ Crash(q) \/ ReactorStep(q)
      PROVE  Rank(p)' = Rank(p)
  BY <1>8, StepOfOther, <1>4
<1>9. CASE BrokerActs
  <2>1. UNCHANGED <<call, fire>>
    BY <1>9 DEF BrokerActs, BrokerStep, BrokerFills, BrokerCloses
  <2> QED
    BY <2>1, <1>3, <1>4
<1> QED
  <2>1. ASSUME NEW q \in Props, Fires(q) \/ Crash(q) \/ ReactorStep(q)
        PROVE  (ReactorStep(p) => Rank(p)' < Rank(p)) /\ (Fires(p) \/ Rank(p)' <= Rank(p))
    BY <2>1, <1>3, <1>5, <1>6, <1>7, <1>8
  <2> QED
    BY <1>1, <1>9, <2>1 DEF Next

\* A fire ends after at most 8 * (MaxReads + 4) steps of its own, in any
\* deployment, whatever the broker, the other fires and the crashes do in
\* between: no step of the reactor leads back, and nothing else prolongs it.
THEOREM FiresAreBounded == Spec => [][Shortens]_vars
<1>1. IInv /\ IInv' /\ [Next]_vars => [Shortens]_vars
  BY NextShortens
<1> QED
  BY <1>1, Invariant, PTL DEF Spec
=============================================================================
