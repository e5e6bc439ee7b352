---------------------------- MODULE Registration ----------------------------
(***************************************************************************)
(* What the cluster state promises to the machines that call clusterize    *)
(* and clusterize_finalization, with no lease, no storage calls and no     *)
(* concurrency inside an operation: machines join a list one at a time,    *)
(* the one that completes it is told to form the cluster, and the list is  *)
(* then closed for good.                                                   *)
(***************************************************************************)
EXTENDS Naturals, Sequences

CONSTANTS VMs, InitialSize, ClusterizationTarget

VARIABLES instances, clusterized, elected

ledger == <<instances, clusterized, elected>>

Init == instances = <<>> /\ ~clusterized /\ elected = 0

\* A machine joins.  The one that completes the list is told so, unless the
\* answer of the store was lost on the way (elected then stays 0 for ever).
Register ==
  /\ ~clusterized
  /\ Len(instances) < InitialSize
  /\ \E v \in VMs : instances' = Append(instances, v)
  /\ elected' \in IF Len(instances') = ClusterizationTarget
                  THEN {elected, 1} ELSE {elected}
  /\ UNCHANGED clusterized

\* The machine that formed the cluster closes the list.
Finalize ==
  /\ elected = 1
  /\ instances' = <<>>
  /\ clusterized' = TRUE
  /\ UNCHANGED elected

Spec == Init /\ [][Register \/ Finalize]_ledger
=============================================================================
