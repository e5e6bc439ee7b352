--------------------------- MODULE Clusterization ---------------------------
(***************************************************************************)
(* How a cluster comes to be: the life of each backend from its first boot *)
(* to its place in the weka cluster, the list in the state blob that says  *)
(* which of them forms the cluster, and the handler that prepares the      *)
(* formation in the key vault and the network API.                         *)
(*                                                                         *)
(* A machine runs the init script, which asks deploy for a script until it *)
(* gets one; that script ends with a call of clusterize and runs what is   *)
(* answered: wait, form the cluster, join it, or shut down.  The contents  *)
(* of the scripts are weka/go-cloud-lib's and external; what the function  *)
(* app answers, from what state, and what it leaves behind is the code's.  *)
(* The blob is read and written in one step (StateStore has the lease).    *)
(***************************************************************************)
EXTENDS Naturals, Sequences, FiniteSets, Functions

CONSTANTS
  VMs,                    \* machine ids; an id may be used again
  InitialSize,            \* INITIAL_CLUSTER_SIZE
  ClusterizationTarget,   \* CLUSTERIZATION_TARGET
  MaxMishaps,             \* bound: failing machines and calls in a behaviour
  MaxRepeats,             \* bound: calls repeated because the answer was lost
  None

ASSUME ClusterizationAssumption ==
  /\ InitialSize \in Nat \ {0}
  /\ ClusterizationTarget \in 1..InitialSize
  /\ MaxMishaps \in Nat /\ MaxRepeats \in Nat
  /\ None \notin VMs

VARIABLES
  at,            \* where each machine is
  instances,     \* the state blob: the machines registered, in order
  clusterized,   \* the state blob: the cluster has been formed
  last,          \* the clusterize call that completed the list
  vault,         \* the two passwords in the key vault
  cluster,       \* the weka cluster: its members and its passwords
  mishaps,       \* how many machines and calls have failed
  repeats        \* how many calls were repeated

vars == <<at, instances, clusterized, last, vault, cluster, mishaps, repeats>>

\* A machine that is asking waits for the answer to the call that completed
\* the list; an idle one has no script left to run, whether it waits to be
\* taken into the cluster, is in it, or its script went wrong.
Positions ==
  {"gone", "booting", "deployed", "asking", "forming", "formed", "joining",
   "idle", "down"}

\* HandleLastClusterVm, by the call it makes next.
LastSteps == {"none", "obs", "admin", "deployment", "ips", "answer", "error", "done"}

\* A password stands for the machine whose call generated it.  None is the
\* empty secret that terraform creates.
Init ==
  /\ at = [m \in VMs |-> "gone"]
  /\ instances = <<>>
  /\ clusterized = FALSE
  /\ last = [vm |-> None, list |-> <<>>, step |-> "none", ips |-> {}]
  /\ vault = [admin |-> None, deployment |-> None]
  /\ cluster = [formed |-> FALSE, members |-> {}, admin |-> None, deployment |-> None]
  /\ mishaps = 0
  /\ repeats = 0

Present == {m \in VMs : at[m] # "gone"}
Up == {m \in Present : at[m] # "down"}

Mishap == mishaps < MaxMishaps /\ mishaps' = mishaps + 1

Move(m, p) == at' = [at EXCEPT ![m] = p]

-----------------------------------------------------------------------------
(* The scale set.                                                          *)

\* createVmss at first, ScaleUp afterwards.  Azure numbers machines anew; an
\* id is used again once nothing refers to it.
Grow(m) ==
  /\ at[m] = "gone"
  /\ Cardinality(Present) < InitialSize
  /\ m \notin Range(instances) \cup cluster.members
  /\ cluster.formed \/ m \notin Range(last.list)
  /\ Move(m, "booting")
  /\ UNCHANGED <<instances, clusterized, last, vault, cluster, mishaps, repeats>>

\* Mutant of Tidy: stopped machines are only replaced in a finished cluster.
TidyWhenFinished(m) ==
  /\ at[m] = "down" /\ clusterized
  /\ Move(m, "gone")
  /\ UNCHANGED <<instances, clusterized, last, vault, cluster, mishaps, repeats>>

\* handleProgressingClusterization deletes a machine that is unhealthy and
\* stopped.  If it was registered the list keeps it.
Tidy(m) ==
  /\ at[m] = "down" /\ ~clusterized
  /\ Move(m, "gone")
  /\ UNCHANGED <<instances, clusterized, last, vault, cluster, mishaps, repeats>>

\* The scale-down workflow (ScaleDown), which needs a cluster to talk to: the
\* stopped machines go, and those outside the cluster once past their grace,
\* which no script that still makes progress lasts for.  The cluster forgets
\* the ones that are not there.
Terminate(m) ==
  /\ cluster.members \cap Up # {}
  /\ \/ at[m] = "down"
     \/ at[m] = "idle" /\ m \notin cluster.members
     \/ at[m] = "gone" /\ m \in cluster.members
  /\ Move(m, "gone")
  /\ cluster' = [cluster EXCEPT !.members = @ \ {m}]
  /\ UNCHANGED <<instances, clusterized, last, vault, mishaps, repeats>>

MachineFails(m) ==
  /\ m \in Up
  /\ Mishap
  /\ Move(m, "down")
  /\ UNCHANGED <<instances, clusterized, last, vault, cluster, repeats>>

-----------------------------------------------------------------------------
(* deploy.                                                                 *)

\* Mutant of DeployScript: the script is chosen by whether the cluster lacks
\* machines in its list, which is empty again once it is formed.
DeploysByList(m) ==
  IF Len(instances) < InitialSize THEN "deployed"
  ELSE IF Present \ {m} # {} THEN "joining" ELSE "idle"

\* What a booting machine is given: the script that registers it, or the one
\* that joins the cluster through the other machines of the scale set.  With
\* no other machine it is an error.
DeployScript(m) ==
  IF ~clusterized THEN "deployed"
  ELSE IF Present \ {m} # {} THEN "joining" ELSE "idle"

\* The init script asks again while there is no answer, or an empty one
\* (getFunctionKey fails).
Deploy(m) ==
  /\ at[m] = "booting"
  /\ Move(m, DeployScript(m))
  /\ UNCHANGED <<instances, clusterized, last, vault, cluster, mishaps, repeats>>

\* Any other failure is answered with HTTP 200 and an error body, which the
\* init script saves, finds not to be empty, and runs.
DeployFails(m) ==
  /\ at[m] = "booting"
  /\ Mishap
  /\ Move(m, "idle")
  /\ UNCHANGED <<instances, clusterized, last, vault, cluster, repeats>>

-----------------------------------------------------------------------------
(* clusterize.                                                             *)

\* Mutant of Satisfied: the size of the list does not count.
SatisfiedWhenClosed == clusterized

\* AddInstanceToState has no place left: ShutdownRequired.
Satisfied == Len(instances) >= InitialSize \/ clusterized

\* Mutant of IsLast: any machine that finds the target reached.
IsLastOrLater(n) == n >= ClusterizationTarget

IsLast(n) == n = ClusterizationTarget

\* Mutant of Verdict: a machine that has to wait asks again.
AsksAgain(n) ==
  IF IsLast(n) THEN "asking"
  ELSE IF n < ClusterizationTarget THEN "deployed" ELSE "joining"

\* What the machine that became the n-th of the list goes on with: a script
\* that reports that it waits, the end of HandleLastClusterVm, or joining.
Verdict(n) ==
  IF IsLast(n) THEN "asking"
  ELSE IF n < ClusterizationTarget THEN "idle" ELSE "joining"

Register(m) ==
  /\ ~Satisfied
  /\ instances' = Append(instances, m)

\* The handler of the call that completes the list goes on.
Elect(m) ==
  last' = IF IsLast(Len(instances'))
          THEN [vm |-> m, list |-> instances', step |-> "obs", ips |-> {}]
          ELSE last

Clusterize(m) ==
  /\ at[m] = "deployed"
  /\ \/ /\ Satisfied
        /\ Move(m, "down")
        /\ UNCHANGED <<instances, last>>
     \/ /\ Register(m)
        /\ Elect(m)
        /\ Move(m, Verdict(Len(instances')))
  /\ UNCHANGED <<clusterized, vault, cluster, mishaps, repeats>>

\* A call of the handler fails and the machine is given an error script.  The
\* upload of the list may have taken effect; nobody is elected by it then.
ClusterizeFails(m) ==
  /\ at[m] = "deployed"
  /\ Mishap
  /\ UNCHANGED instances \/ Register(m)
  /\ Move(m, "idle")
  /\ UNCHANGED <<clusterized, last, vault, cluster, repeats>>

\* The handler does its work but the machine hears nothing, or is told of a
\* time-out by the gateway in front of it: curl --retry calls again.
AnswerLost(m) ==
  /\ repeats < MaxRepeats /\ repeats' = repeats + 1
  /\ \/ /\ at[m] = "deployed"
        /\ Register(m)
        /\ Elect(m)
     \/ /\ at[m] = "asking"
        /\ UNCHANGED <<instances, last>>
  /\ Move(m, "deployed")
  /\ UNCHANGED <<clusterized, vault, cluster, mishaps>>

-----------------------------------------------------------------------------
(* HandleLastClusterVm, for the machine that completed the list.           *)

Advance(from, to) == last.step = from /\ last' = [last EXCEPT !.step = to]

\* The bucket and its key, the latter with a minute's wait between up to ten
\* attempts.  Whatever goes wrong there the cluster is formed without it.
PrepareObs ==
  /\ Advance("obs", "admin")
  /\ UNCHANGED <<at, instances, clusterized, vault, cluster, mishaps, repeats>>

SetAdminPassword ==
  /\ Advance("admin", "deployment")
  /\ vault' = [vault EXCEPT !.admin = last.vm]
  /\ UNCHANGED <<at, instances, clusterized, cluster, mishaps, repeats>>

SetDeploymentPassword ==
  /\ Advance("deployment", "ips")
  /\ vault' = [vault EXCEPT !.deployment = last.vm]
  /\ UNCHANGED <<at, instances, clusterized, cluster, mishaps, repeats>>

\* The addresses of the machines there are now.
GetPrivateIps ==
  /\ last.step = "ips"
  /\ last' = [last EXCEPT !.step = "answer", !.ips = Present]
  /\ UNCHANGED <<at, instances, clusterized, vault, cluster, mishaps, repeats>>

\* A call to the vault, which may have stored the password, or to the network
\* API fails: an error script, and what was done before stays done.
LastFails ==
  /\ \/ /\ Advance("admin", "error")
        /\ vault' \in {vault, [vault EXCEPT !.admin = last.vm]}
     \/ /\ Advance("deployment", "error")
        /\ vault' \in {vault, [vault EXCEPT !.deployment = last.vm]}
     \/ Advance("ips", "error") /\ UNCHANGED vault
  /\ Mishap
  /\ UNCHANGED <<at, instances, clusterized, cluster, repeats>>

\* The answer reaches the machine if that still waits for it.
Answer ==
  /\ last.step \in {"answer", "error"}
  /\ last' = [last EXCEPT !.step = "done"]
  /\ IF at[last.vm] = "asking"
     THEN Move(last.vm, IF last.step = "answer" THEN "forming" ELSE "idle")
     ELSE UNCHANGED at
  /\ UNCHANGED <<instances, clusterized, vault, cluster, mishaps, repeats>>

LastStep ==
  PrepareObs \/ SetAdminPassword \/ SetDeploymentPassword \/ GetPrivateIps \/ Answer

-----------------------------------------------------------------------------
(* The clusterization and the join script.                                 *)

\* All the machines of the list have an address and run, and none is there
\* twice.
CanForm ==
  /\ IsInjective(last.list)
  /\ Range(last.list) \subseteq last.ips \cap Up

\* The script takes the passwords from the vault, through fetch.
FormCluster(m) ==
  /\ at[m] = "forming"
  /\ IF CanForm
     THEN /\ cluster' = [formed |-> TRUE, members |-> Range(last.list),
                         admin |-> vault.admin, deployment |-> vault.deployment]
          /\ Move(m, "formed")
     ELSE UNCHANGED cluster /\ Move(m, "idle")
  /\ UNCHANGED <<instances, clusterized, last, vault, mishaps, repeats>>

\* clusterize_finalization.
Finalize(m) ==
  /\ at[m] = "formed"
  /\ clusterized' = TRUE
  /\ instances' = <<>>
  /\ Move(m, "idle")
  /\ UNCHANGED <<last, vault, cluster, mishaps, repeats>>

\* Its errors are answered with HTTP 200 too: no failing call is repeated.
FinalizeFails(m) ==
  /\ at[m] = "formed"
  /\ Mishap
  /\ Move(m, "idle")
  /\ UNCHANGED <<instances, clusterized, last, vault, cluster, repeats>>

\* A join script waits until a member answers it.
Join(m) ==
  /\ at[m] = "joining"
  /\ cluster.members \cap Up # {}
  /\ cluster' = [cluster EXCEPT !.members = @ \cup {m}]
  /\ Move(m, "idle")
  /\ UNCHANGED <<instances, clusterized, last, vault, mishaps, repeats>>

ScriptFails(m) ==
  /\ at[m] \in {"deployed", "forming", "joining"}
  /\ Mishap
  /\ Move(m, "idle")
  /\ UNCHANGED <<instances, clusterized, last, vault, cluster, repeats>>

-----------------------------------------------------------------------------
Script(m) == Deploy(m) \/ Clusterize(m) \/ FormCluster(m) \/ Finalize(m) \/ Join(m)

Failure(m) ==
  \/ MachineFails(m) \/ ScriptFails(m)
  \/ DeployFails(m) \/ ClusterizeFails(m) \/ FinalizeFails(m)

Next ==
  \/ LastStep \/ LastFails
  \/ \E m \in VMs :
       Grow(m) \/ Tidy(m) \/ Terminate(m) \/ Script(m) \/ AnswerLost(m) \/ Failure(m)

Spec == Init /\ [][Next]_vars

\* A script that can go on goes on, the handler finishes, and scale_up and the
\* scale-down workflow come by every minute.
FairSpec ==
  /\ Spec
  /\ WF_vars(LastStep)
  /\ WF_vars(\E m \in VMs : Grow(m))
  /\ \A m \in VMs : WF_vars(Script(m)) /\ WF_vars(Tidy(m) \/ Terminate(m))

-----------------------------------------------------------------------------
(* Properties.                                                             *)

TypeOK ==
  /\ at \in [VMs -> Positions]
  /\ instances \in Seq(VMs) /\ Len(instances) <= InitialSize
  /\ clusterized \in BOOLEAN
  /\ last \in [vm : VMs \cup {None}, list : Seq(VMs), step : LastSteps, ips : SUBSET VMs]
  /\ last.step # "none" => last.vm \in VMs
  /\ vault \in [admin : VMs \cup {None}, deployment : VMs \cup {None}]
  /\ cluster \in [formed : BOOLEAN, members : SUBSET VMs,
                  admin : VMs \cup {None}, deployment : VMs \cup {None}]
  /\ mishaps \in 0..MaxMishaps
  /\ repeats \in 0..MaxRepeats

\* The list obeys the abstract registration, whatever becomes of the machines
\* on it and of the call that completes it: it grows one by one, and is only
\* closed after somebody was elected to form the cluster.
Atomic == INSTANCE Registration WITH elected <- IF last.vm = None THEN 0 ELSE 1

ImplementsRegistration == Atomic!Spec

\* Once there is a cluster it accepts the credentials the handlers take from
\* the vault (GetWekaClusterCredentials: the deployment password, or the
\* administrator's while there is none): no second formation stores other
\* passwords after the cluster was given the first ones.
CredentialsWork ==
  cluster.formed =>
    IF vault.deployment # None
    THEN cluster.deployment = vault.deployment
    ELSE vault.admin # None /\ cluster.admin = vault.admin

\* The entries of the list that the cluster is to be formed of.
Formers == {i \in DOMAIN instances : i <= ClusterizationTarget}

FormerLost ==
  \/ \E i \in Formers : instances[i] \notin Up
  \/ \E i, j \in Formers : i # j /\ instances[i] = instances[j]

NobodyForms ==
  /\ Len(instances) >= ClusterizationTarget
  /\ last.vm = None \/ at[last.vm] \notin {"asking", "forming"}

Unreported == cluster.formed /\ ~clusterized /\ at[last.vm] # "formed"

\* What the formation does not recover from: before it one of these machines
\* stopped or is listed twice, or nobody was elected, or the elected one no
\* longer has the script; after it, that machine is no longer about to report.
Beyond == (~cluster.formed /\ (FormerLost \/ NobodyForms)) \/ Unreported

\* These losses are final: no machine that fails, is replaced or calls again,
\* and no call, ever brings the formation back on its way.
LossIsFinal == [][Beyond => Beyond']_vars

\* Or there are too few machines left that may register, since the others
\* neither are listed nor stopped (the scale set only replaces what stopped).
TooFewLeft ==
  Cardinality({m \in Up : at[m] = "idle" /\ m \notin Range(instances)})
    > InitialSize - ClusterizationTarget

\* Everything else the code gets over: machines that stop before they are in
\* the list, an object store that could not be prepared, scripts that fail on
\* machines there are spares for.
FormationSurvives == <>clusterized \/ <>[](Beyond \/ TooFewLeft)

\* In a finished cluster with a member alive the scale set ends up complete
\* and every machine in it a member: those that registered too late and were
\* told to shut down, or whose script failed, are replaced by ones that join.
EveryoneJoins ==
  <>[](clusterized /\ cluster.members \cap Up # {} =>
         /\ Cardinality(Present) = InitialSize
         /\ Present = cluster.members
         /\ \A m \in Present : at[m] = "idle")

\* As long as no call was repeated every machine is listed once, also in the
\* list the cluster is formed of, and no machine that is listed, there or in the
\* cluster has still to register: the answer "shut down" only ever goes to one
\* that nobody counts on.
ListedOnce ==
  repeats = 0 =>
    /\ IsInjective(instances)
    /\ last.vm # None => IsInjective(last.list)
    /\ \A m \in VMs : at[m] \in {"booting", "deployed"} =>
         /\ m \notin Range(instances) \cup cluster.members
         /\ cluster.formed \/ m \notin Range(last.list)

\* Seen from the cluster all this is one password, one formation by exactly as
\* many machines as the target says, and then machines that come and go.
Whole == INSTANCE WekaCluster WITH
  secret <- vault.deployment, formed <- cluster.formed, key <- cluster.deployment,
  members <- cluster.members, reported <- clusterized

ImplementsCluster == Whole!Spec

\* clusterize.go:124, "This is the last instance in the cluster": the machine
\* told to form the cluster completes a list of as many machines as the
\* clusterization target says.
LastIsLast ==
  last.vm # None => Cardinality(Range(last.list)) = ClusterizationTarget

\* init_script.go:152, "Retry $retry: waiting for deploy script generation
\* success": a machine leaves that loop with a script only.
GenerationRetried ==
  [][\A m \in VMs : at[m] = "booting" /\ at'[m] # "booting" =>
       at'[m] \in {"deployed", "joining", "down"}]_vars

-----------------------------------------------------------------------------
(* Why the safety properties hold.                                         *)

\* There is one election: while the list is open after it, it stays as long
\* as the target, so that no append reaches the target again.  From then on a
\* machine only has the script that forms the cluster when the passwords are
\* stored, the cluster is closed only when it has been formed, and whoever
\* formed it got the password that is in the vault for good.
FormationInv ==
  /\ last.vm = None <=> last.step = "none"
  /\ last.vm # None /\ ~clusterized => Len(instances) >= ClusterizationTarget
  /\ last.step \in {"ips", "answer"} => vault.deployment = last.vm
  /\ \A m \in VMs :
       /\ at[m] = "forming" => last.step = "done" /\ vault.deployment = last.vm
       /\ at[m] = "formed" => cluster.formed
  /\ clusterized => cluster.formed
  /\ cluster.formed =>
       /\ last.step = "done"
       /\ vault.deployment = last.vm
       /\ cluster.deployment = vault.deployment

\* The list of the election is the part of the list that reached the target.
ElectedList ==
  last.vm # None =>
    /\ Len(last.list) = ClusterizationTarget
    /\ ~clusterized => \A i \in 1..ClusterizationTarget : last.list[i] = instances[i]

\* Only the elected machine is ever on the way to forming the cluster, and it is
\* past that once there is one.
ElectedRole == \A m \in VMs :
  /\ at[m] \in {"asking", "forming", "formed"} => m = last.vm
  /\ at[m] \in {"asking", "forming"} => ~cluster.formed
  /\ at[m] \in {"asking", "forming", "formed"} => ~clusterized

\* The password is made up once; a cluster has members, and there are none
\* without one.
ClusterShape ==
  /\ last.step \in {"none", "obs", "admin", "deployment"} => vault.deployment = None
  /\ cluster.formed => cluster.members # {}
  /\ ~cluster.formed => cluster.members = {} /\ cluster.deployment = None

ElectionInv == ElectedList /\ ElectedRole /\ ClusterShape
=============================================================================
