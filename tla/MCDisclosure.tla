---------------------------- MODULE MCDisclosure -----------------------------
(***************************************************************************)
(* The selection of log contexts, then the projection of the evidence:     *)
(* every set of logs with a bundle that is refused at once, then every     *)
(* bundle after a selection that has nothing to do.                        *)
(***************************************************************************)
EXTENDS MCProjection, LogContext, MCLogs

NoLimits == [artifacts |-> 0, bytes |-> 2]

MCInit ==
  \/ evidence = Unmatched /\ profile = Narrow /\ approved = {"metadata"} /\ Init /\ SelectInit
  \/ artifacts = {} /\ limits = NoLimits /\ SelectInit /\ Init

MCNext ==
  \/ SelectNext /\ UNCHANGED vars
  \/ step = "done" /\ Next /\ UNCHANGED selectVars

MCSpec == MCInit /\ [][MCNext]_<<vars, selectVars>>
=============================================================================
