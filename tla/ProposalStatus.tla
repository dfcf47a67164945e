---------------------------- MODULE ProposalStatus ----------------------------
(***************************************************************************)
(* The statuses of a proposal and the table of moves between them          *)
(* (internal/pipeline/status.go).  Absent stands for a row that has not    *)
(* been inserted yet.                                                      *)
(***************************************************************************)
Absent   == "absent"
Statuses == {"pending", "approved", "applying", "applied", "rejected", "expired", "failed"}

NextStatuses(from) ==
  CASE from = "pending"  -> {"approved", "rejected", "expired"}
    [] from = "approved" -> {"applying"}
    [] from = "applying" -> {"applied", "failed", "approved"}
    [] from = "failed"   -> {"approved"}
    [] OTHER             -> {}

CanTransition(from, to) == to \in NextStatuses(from)

\* The statuses that keep a target path from being proposed again.
OpenStatuses == {"pending", "approved", "applying"}

\* No move leaves these.
FinalStatuses == {s \in Statuses : NextStatuses(s) = {}}
=============================================================================
