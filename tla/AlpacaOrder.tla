---------------------------- MODULE AlpacaOrder ----------------------------
(***************************************************************************)
(* One order at the Alpaca broker: submit, poll until terminal, cancel at  *)
(* the deadline, read once more (react/_alpaca_exec.py; the variant for    *)
(* the parent of a multi-leg order in react/backends/alpaca_backend.py).   *)
(*                                                                         *)
(* The client sees the broker only through calls that may fail, or whose   *)
(* answer may be lost after they took effect.  The broker fills, closes    *)
(* and cancels in its own time: a cancel that is accepted takes effect     *)
(* later, and fills may come first.  An order is named by its client order *)
(* identifier, which the broker accepts once.                              *)
(***************************************************************************)
EXTENDS Naturals

CONSTANTS
  Orders,     \* client order identifiers
  Combos,     \* those of multi-leg orders
  Qty,        \* the most units an order may ask for
  MaxReads    \* reads that fit into the poll budget (bound of the runs)

ASSUME OrderAssumption ==
  /\ Combos \subseteq Orders
  /\ Qty \in Nat \ {0}
  /\ MaxReads \in Nat

VARIABLES
  broker,   \* [Orders -> BrokerOrder], what the broker holds
  call      \* [Orders -> Call], the client's call for that order

\* "closed" stands for REJECT_STATUSES (rejected, canceled, expired, done_for_day).
\* An order at work is read as "partial" (partially_filled) or as "working" (new,
\* accepted, pending_*), the latter after a partial fill too.
BrokerOrder == [status : {"unknown", "working", "filled", "closed"},
                size : 0..Qty, filled : 0..Qty]

Snapshot == [status : {"working", "partial", "filled", "closed"}, filled : 0..Qty]

\* fill carries what is reported; unfilled is the None of cancel_and_settle;
\* raised is AlpacaSubmitError.
Result == [kind : {"pending", "fill", "unfilled", "raised"}, qty : 0..Qty,
           status : {"none", "working", "partial", "filled", "closed"}]

\* cancel says whether the deadline has passed, and what the cancel answered.
Call == [at : {"idle", "poll", "reread", "done"}, reads : 0..MaxReads,
         cancel : {"no", "confirmed", "failed"}, result : Result]

OrderTypeOK == /\ broker \in [Orders -> BrokerOrder]
               /\ call \in [Orders -> Call]

Unknown   == [status |-> "unknown", size |-> 0, filled |-> 0]
Pending   == [kind |-> "pending", qty |-> 0, status |-> "none"]
Unfilled  == [kind |-> "unfilled", qty |-> 0, status |-> "none"]
Raised    == [kind |-> "raised", qty |-> 0, status |-> "none"]
Filled(s) == [kind |-> "fill", qty |-> s.filled, status |-> s.status]
NoCall    == [at |-> "idle", reads |-> 0, cancel |-> "no", result |-> Pending]

OrderInit == /\ broker = [o \in Orders |-> Unknown]
             /\ call = [o \in Orders |-> NoCall]

-----------------------------------------------------------------------------
(***************************************************************************)
(* The broker.                                                             *)
(***************************************************************************)
Working(o) == broker[o].status = "working"

\* Another unit is filled; the last one fills the order.
BrokerFills(o) ==
  /\ Working(o)
  /\ LET n == broker[o].filled + 1 IN
     broker' = [broker EXCEPT ![o].filled = n,
                              ![o].status = IF n = broker[o].size THEN "filled"
                                            ELSE "working"]
  /\ UNCHANGED call

\* The order is rejected, expires, is done for the day, or a cancel takes effect.
BrokerCloses(o) ==
  /\ Working(o)
  /\ broker' = [broker EXCEPT ![o].status = "closed"]
  /\ UNCHANGED call

\* What get_order_by_id may answer.  The price and the quantity of a filled
\* order may not be there yet.
Answers(o) ==
  LET s == [status |-> broker[o].status, filled |-> broker[o].filled] IN
  {s} \cup {t \in {[s EXCEPT !.filled = 0]} : s.status = "filled"}
      \cup {t \in {[s EXCEPT !.status = "partial"]} : Working(o) /\ s.filled > 0}

-----------------------------------------------------------------------------
(***************************************************************************)
(* Verdicts on a snapshot.  An order of a combo is judged by the status of *)
(* its parent, and its fills are read from the legs.                       *)
(***************************************************************************)
\* Mutant: the first partial fill ends the poll.
Terminal_AnyFill(o, s) == s.status \in {"closed", "filled"} \/ s.filled > 0

\* The poll ends: closed, or filled with its price and quantity.
Terminal(o, s) == \/ s.status = "closed"
                  \/ s.status = "filled" /\ (s.filled > 0 \/ o \in Combos)

\* A fill, or what is left of a closed order.  The legs of a combo that was
\* closed are no fills (FillResult.is_fill), so that it is a rejection.
Reported(o, s) ==
  IF s.filled > 0 /\ ~(o \in Combos /\ s.status = "closed")
  THEN Filled(s) ELSE Raised

\* After the cancel: any fill counts, and nothing filled is unfilled.
Settled(o, s) ==
  IF s.filled > 0 \/ (o \in Combos /\ s.status \in {"filled", "closed"})
  THEN Reported(o, s) ELSE Unfilled

-----------------------------------------------------------------------------
(***************************************************************************)
(* The client.                                                             *)
(***************************************************************************)
Ends(o, r) == call' = [call EXCEPT ![o].at = "done", ![o].result = r]

Judge(o, s, reads) ==
  IF Terminal(o, s) THEN Ends(o, Reported(o, s))
  ELSE call' = [call EXCEPT ![o].at = "poll", ![o].reads = reads]

\* How an accepted order of n units stands when submit_order answers.
Accepted(n) == {[status |-> "working", filled |-> 0],
                [status |-> "filled",  filled |-> n],
                [status |-> "closed",  filled |-> 0]}

\* submit_order: refused, or a duplicate; accepted; accepted, and the answer
\* was lost or names no order.
Submit(o, n) ==
  /\ call[o].at = "idle"
  /\ \/ Ends(o, Raised) /\ UNCHANGED broker
     \/ /\ broker[o].status = "unknown"
        /\ \E s \in Accepted(n) :
             /\ broker' = [broker EXCEPT ![o] = [status |-> s.status, size |-> n,
                                                filled |-> s.filled]]
             /\ Judge(o, s, 0) \/ Ends(o, Raised)

\* Mutant: the poll budget does not end.
Poll_NoBudget(o) ==
  /\ call[o].at = "poll"
  /\ \/ \E s \in Answers(o) : Judge(o, s, call[o].reads + 1)
     \/ Ends(o, Raised)
  /\ UNCHANGED broker

\* get_order_by_id before the deadline.
Poll(o) ==
  /\ call[o].at = "poll"
  /\ call[o].reads < MaxReads
  /\ \/ \E s \in Answers(o) : Judge(o, s, call[o].reads + 1)
     \/ Ends(o, Raised)
  /\ UNCHANGED broker

\* Mutant: an order that has filled cannot be cancelled, and is polled for ever.
Cancel_OnlyWorking(o) ==
  /\ call[o].at = "poll" /\ Working(o)
  /\ \E answer \in {"confirmed", "failed"} :
       call' = [call EXCEPT ![o].at = "reread", ![o].cancel = answer]
  /\ UNCHANGED broker

\* The deadline: cancel_order_by_id is answered, or raises.  The order goes on
\* until the broker closes it, whatever was answered.
Cancel(o) ==
  /\ call[o].at = "poll"
  /\ \E answer \in {"confirmed", "failed"} :
       /\ answer = "confirmed" => Working(o)
       /\ call' = [call EXCEPT ![o].at = "reread", ![o].cancel = answer]
  /\ UNCHANGED broker

\* The one read after the cancel.
Reread(o) ==
  /\ call[o].at = "reread"
  /\ \/ \E s \in Answers(o) : Ends(o, Settled(o, s))
     \/ Ends(o, IF call[o].cancel = "confirmed" THEN Unfilled ELSE Raised)
  /\ UNCHANGED broker

ClientStep(o) == Poll(o) \/ Cancel(o) \/ Reread(o)
BrokerStep(o) == BrokerFills(o) \/ BrokerCloses(o)

-----------------------------------------------------------------------------
(***************************************************************************)
(* Properties.                                                             *)
(***************************************************************************)
\* P1-D: a fill that the poll reported before its deadline is all the order
\* will ever fill.  A partial fill of an order at work is no answer.
PolledFillIsFinal ==
  \A o \in Orders :
    call[o].result.kind = "fill" /\ call[o].cancel = "no"
      => /\ ~Working(o)
         /\ call[o].result.qty = broker[o].filled

=============================================================================
