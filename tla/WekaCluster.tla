---------------------------- MODULE WekaCluster ----------------------------
(***************************************************************************)
(* What the function app promises of the weka cluster it brings about: one *)
(* password is made up and never another, the cluster is formed once, with *)
(* that password and with as many machines as was asked for, it is only    *)
(* reported after that, and it never loses its last member.                *)
(***************************************************************************)
EXTENDS Naturals, FiniteSets

CONSTANTS VMs, ClusterizationTarget, None

VARIABLES
  secret,     \* the deployment password in the vault, None before there is one
  formed,     \* there is a cluster
  key,        \* the deployment password it was given
  members,    \* its machines
  reported    \* its formation has been reported

world == <<secret, formed, key, members, reported>>

Init == secret = None /\ ~formed /\ key = None /\ members = {} /\ ~reported

\* The machine that is to form the cluster makes up the password.
Generate ==
  /\ secret = None
  /\ secret' \in VMs
  /\ UNCHANGED <<formed, key, members, reported>>

Form ==
  /\ ~formed /\ secret # None
  /\ formed' = TRUE
  /\ key' = secret
  /\ members' \in SUBSET VMs /\ Cardinality(members') = ClusterizationTarget
  /\ UNCHANGED <<secret, reported>>

Report ==
  /\ formed /\ ~reported
  /\ reported' = TRUE
  /\ UNCHANGED <<secret, formed, key, members>>

Join ==
  /\ formed
  /\ \E m \in VMs : members' = members \cup {m}
  /\ UNCHANGED <<secret, formed, key, reported>>

Leave ==
  /\ \E m \in members : members' = members \ {m}
  /\ members' # {}
  /\ UNCHANGED <<secret, formed, key, reported>>

Next == Generate \/ Form \/ Report \/ Join \/ Leave

Spec == Init /\ [][Next]_world
=============================================================================
