---------------------------- MODULE StatusMachine ----------------------------
(***************************************************************************)
(* What the status machine of the pipeline promises: a proposal starts out *)
(* pending and moves along the table of allowed moves only.  One           *)
(* transaction may move several proposals, each by one move.               *)
(* (.docs/11-pipeline-state-db.md, "Status machine"; status.go.)           *)
(***************************************************************************)
EXTENDS ProposalStatus

CONSTANT Proposals
VARIABLE status

Move(from, to) == (from = Absent /\ to = "pending") \/ CanTransition(from, to)

Init == status = [p \in Proposals |-> Absent]

Next ==
  /\ DOMAIN status' = Proposals
  /\ \A p \in Proposals : status'[p] # status[p] => Move(status[p], status'[p])

Spec == Init /\ [][Next]_status
=============================================================================
