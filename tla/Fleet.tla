------------------------------- MODULE Fleet --------------------------------
(***************************************************************************)
(* What the scale-down workflow promises about the machines, whatever its  *)
(* runs have read and when: a machine loses its protection or is deleted   *)
(* only under a sentence, passed on a machine that is sick or on one that  *)
(* is outside the weka cluster.  A machine sentenced as unneeded is still  *)
(* outside when the sentence is carried out, and no machine inherits the   *)
(* sentence of another.  There are no runs, no hosts lists and no grace    *)
(* time here.                                                              *)
(***************************************************************************)
CONSTANTS VMs, Statuses, Sick

VARIABLES
  vms, members, status, protected,
  sick,      \* the machines sentenced as sick
  unneeded   \* the machines sentenced as unneeded

machines == <<vms, members, status, protected>>

sentences == <<sick, unneeded>>

Init ==
  /\ vms = {} /\ members = {} /\ protected = {}
  /\ status = [v \in VMs |-> "running"]
  /\ sick = {} /\ unneeded = {}

Sentenced == sick \cup unneeded

Boot(v) ==
  /\ v \notin vms \cup members \cup Sentenced
  /\ vms' = vms \cup {v}
  /\ status' = [status EXCEPT ![v] = "running"]
  /\ UNCHANGED <<members, protected, sentences>>

Change(v) ==
  /\ v \in vms
  /\ \E s \in Statuses : status' = [status EXCEPT ![v] = s]
  /\ UNCHANGED <<vms, members, protected, sentences>>

Join(v) ==
  /\ v \in vms \ unneeded
  /\ members' = members \cup {v}
  /\ UNCHANGED <<vms, status, protected, sentences>>

Leave ==
  /\ \E R \in SUBSET members : members' = members \ R
  /\ UNCHANGED <<vms, status, protected, sentences>>

Protect(v) ==
  /\ v \in vms
  /\ protected' = protected \cup {v}
  /\ UNCHANGED <<vms, members, status, sentences>>

\* Sentences are passed, or dropped.
Judge ==
  /\ sick' \subseteq sick \cup {v \in vms : status[v] \in Sick}
  /\ unneeded' \subseteq unneeded \cup (VMs \ members)
  /\ UNCHANGED machines

Unprotect(v) ==
  /\ v \in Sentenced \cap vms
  /\ protected' = protected \ {v}
  /\ UNCHANGED <<vms, members, status, sentences>>

Delete(v) ==
  /\ v \in (Sentenced \cap vms) \ protected
  /\ vms' = vms \ {v}
  /\ sick' \subseteq sick /\ unneeded' \subseteq unneeded
  /\ UNCHANGED <<members, status, protected>>

Next ==
  \/ \E v \in VMs : \/ Boot(v) \/ Change(v) \/ Join(v) \/ Protect(v)
                    \/ Unprotect(v) \/ Delete(v)
  \/ Leave \/ Judge

Spec == Init /\ [][Next]_<<machines, sentences>>
=============================================================================
