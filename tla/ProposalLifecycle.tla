------------------------- MODULE ProposalLifecycle -------------------------
(***************************************************************************)
(* What the HITL proposal store promises its callers, with no storage, no  *)
(* processes and no crashes: a proposal is created pending; an approval    *)
(* first claims it, and a claimed proposal either moves capital, once, or  *)
(* is handed back because the reactor proved that no capital moved; a      *)
(* pending proposal may instead be rejected or expire.  Filled, rejected   *)
(* and expired are final.  Proposals are independent of one another.       *)
(* Module Proposals implements this specification.                         *)
(***************************************************************************)
CONSTANT ProposalIds

VARIABLE status

Status == {"absent", "pending", "claimed", "filled", "rejected", "expired"}

\* The transitions a single proposal may make.
Transitions == {<<"absent", "pending">>,  <<"pending", "claimed">>,
                <<"claimed", "pending">>, <<"claimed", "filled">>,
                <<"pending", "rejected">>, <<"pending", "expired">>}

Init == status = [p \in ProposalIds |-> "absent"]

\* Recovery rebuilds the whole index at once, so several proposals may move
\* in one step, each along its own transition.
Next == /\ status' \in [ProposalIds -> Status]
        /\ \A p \in ProposalIds :
              status'[p] # status[p] => <<status[p], status'[p]>> \in Transitions

Spec == Init /\ [][Next]_status
=============================================================================
