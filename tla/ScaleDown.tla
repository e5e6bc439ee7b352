----------------------------- MODULE ScaleDown ------------------------------
(***************************************************************************)
(* The scale-down workflow: every minute the logic app calls fetch,        *)
(* scale_down, terminate and transient, each with the body the one before  *)
(* answered (modules/logic_app/scale_down.json).  Nothing keeps a run from *)
(* overlapping the previous one.                                           *)
(*                                                                         *)
(* What happens to the machines in the meantime is the environment's: they *)
(* boot, age past the 30 minutes' grace, fall sick, join the weka cluster  *)
(* and are protected by join_finalization.  The scale_down library itself  *)
(* (weka/go-cloud-lib) is external: it may take machines out of the        *)
(* cluster, and reports the ones that are still in it.                     *)
(***************************************************************************)
EXTENDS Naturals, FiniteSets

CONSTANTS
  VMs,          \* machine ids of the scale set; an id may be used again
  Runs,         \* runs of the workflow that can overlap
  Statuses,     \* the health and power states this instance exercises
  Prompt,       \* machines join, and runs end, well within the grace time
  MaxFailures,  \* bound: calls that fail in one behaviour
  None

ASSUME ScaleDownAssumption ==
  /\ Prompt \in BOOLEAN /\ MaxFailures \in Nat
  /\ Statuses \subseteq {"running", "unhealthy", "failed", "off", "stopped"}
  /\ "running" \in Statuses
  /\ None \notin VMs

\* "unhealthy", "failed" and "off" report HealthState/unhealthy: the first is
\* running and provisioned, the second failed to provision, the third is
\* powered off.  "stopped" is powered off without a verdict on its health.
Doomed == {"failed", "off"}
Powered == {"running", "unhealthy", "failed"}

VARIABLES
  vms,        \* the machines of the scale set
  old,        \* those provisioned 30 minutes ago or earlier
  status,     \* health and power of each machine
  protected,  \* protection policy: protect from scale set actions
  members,    \* the machines in the weka cluster
  retired,    \* machines the library took out of the cluster
  run,        \* the state of each workflow run
  failures    \* how many calls have failed

vars == <<vms, old, status, protected, members, retired, run, failures>>

fleet == <<vms, old, status, protected>>

\* A run: the step it is at, whether every handler so far did its work, and
\* what the handlers have read.
NoRun ==
  [at |-> "fetch", ok |-> TRUE, fetched |-> {}, hosts |-> {}, toTerminate |-> {},
   listed |-> {}, aged |-> {}, powered |-> {}, delta |-> {},
   unprotected |-> {}, victims |-> {}, victim |-> None, surplus |-> FALSE]

Steps == {"fetch", "scale_down", "terminate", "delete", "protect", "transient"}

RunStates ==
  [at : Steps, ok : BOOLEAN, fetched : SUBSET VMs, hosts : SUBSET VMs,
   toTerminate : SUBSET VMs, listed : SUBSET VMs, aged : SUBSET VMs,
   powered : SUBSET VMs, delta : SUBSET VMs, unprotected : SUBSET VMs,
   victims : SUBSET VMs, victim : VMs \cup {None}, surplus : BOOLEAN]

Init ==
  /\ vms = {} /\ old = {} /\ protected = {} /\ members = {} /\ retired = {}
  /\ status = [v \in VMs |-> "running"]
  /\ run = [w \in Runs |-> NoRun]
  /\ failures = 0

-----------------------------------------------------------------------------
(* The environment.                                                        *)

\* Azure does not use an id twice; here one comes back when nobody has it any
\* more, so that a few of them stand for many machines.
Boot(v) ==
  /\ v \notin vms \cup members
  /\ \A w \in Runs : v \notin run[w].fetched \cup run[w].listed \cup run[w].delta
  /\ vms' = vms \cup {v}
  /\ status' = [status EXCEPT ![v] = "running"]
  /\ retired' = retired \ {v}
  /\ UNCHANGED <<old, protected, members, run, failures>>

\* Prompt: no machine uses up its grace between joining the cluster and the
\* end of a run that still has the list of hosts from before.
Age(v) ==
  /\ v \in vms \ old
  /\ Prompt => \A w \in Runs :
       run[w].at = "terminate" /\ v \in members => v \in run[w].hosts
  /\ old' = old \cup {v}
  /\ UNCHANGED <<vms, status, protected, members, retired, run, failures>>

Change(v) ==
  /\ v \in vms
  /\ \E s \in Statuses \ {status[v]} : status' = [status EXCEPT ![v] = s]
  /\ UNCHANGED <<vms, old, protected, members, retired, run, failures>>

\* The machine's join (or clusterize) script adds it to the cluster.
Join(v) ==
  /\ v \in vms \ (members \cup retired)
  /\ status[v] = "running"
  /\ Prompt => v \notin old
  /\ members' = members \cup {v}
  /\ UNCHANGED <<vms, old, status, protected, retired, run, failures>>

\* The join_finalization handler, called by the script of a machine that has
\* joined; if the call fails, or the machine never makes it, nothing happens.
JoinFinalization(v) ==
  /\ v \in (members \cap vms) \ protected
  /\ protected' = protected \cup {v}
  /\ UNCHANGED <<vms, old, status, members, retired, run, failures>>

-----------------------------------------------------------------------------
(* fetch and scale_down.                                                   *)

Goto(w, r) == run' = [run EXCEPT ![w] = r]

\* A handler returns an error.  WriteErrorResponse answers HTTP 200 whatever
\* the status it is given, so that the next step is called all the same, with
\* an error body in which it finds only zero values.
Fails(w, next) ==
  /\ failures < MaxFailures
  /\ failures' = failures + 1
  /\ Goto(w, [NoRun EXCEPT !.at = next, !.ok = FALSE])
  /\ UNCHANGED <<vms, old, status, protected, members, retired>>

Fetch(w) ==
  /\ run[w].at = "fetch"
  /\ \/ /\ Goto(w, [NoRun EXCEPT !.at = "scale_down", !.fetched = vms])
        /\ UNCHANGED <<fleet, members, retired, failures>>
     \/ Fails(w, "scale_down")

\* The library logs in to one of the machines that fetch listed: a member of
\* the cluster that is on.
Reachable(w) == {v \in members \cap vms \cap run[w].fetched : status[v] \in Powered}

\* It removes some machines from the cluster, never all of them, lists the
\* ones left and names the removed ones for termination.
ScaleDownOK(w) ==
  /\ run[w].ok
  /\ Reachable(w) # {}
  /\ \E R \in SUBSET members :
       /\ R # members
       /\ members' = members \ R
       /\ retired' = retired \cup (R \cap vms)
       /\ Goto(w, [run[w] EXCEPT !.at = "terminate", !.hosts = members \ R,
                                 !.toTerminate = R \cap run[w].fetched])
  /\ UNCHANGED <<fleet, failures>>

\* An empty or unusable request, or no member of a cluster that answers: the
\* library returns an error, in every run until there is one.
ScaleDownRefuses(w) ==
  /\ ~run[w].ok \/ Reachable(w) = {}
  /\ Goto(w, [NoRun EXCEPT !.at = "terminate", !.ok = FALSE])
  /\ UNCHANGED <<fleet, members, retired, failures>>

ScaleDownStep(w) ==
  /\ run[w].at = "scale_down"
  /\ ScaleDownOK(w) \/ ScaleDownRefuses(w) \/ Fails(w, "terminate")

-----------------------------------------------------------------------------
(* terminate.                                                              *)

\* Mutants of Acceptable: any body will do; nothing is done unless there is
\* something to terminate.
AcceptsAnything(r) == r.at = "terminate"

AcceptsRemovals(r) == r.toTerminate # {}

\* The version and the hosts of an error body are zero values, and terminate
\* has nothing else to tell such a body by.
Acceptable(r) == r.hosts # {}

TerminateRefuses(w) ==
  /\ ~Acceptable(run[w])
  /\ Goto(w, [NoRun EXCEPT !.at = "transient", !.ok = FALSE])
  /\ UNCHANGED <<fleet, members, retired, failures>>

\* The list of machines that the rest of the handler works on.  One that
\* failed to provision has no time of creation and is never past its grace.
ListVMs(w) ==
  /\ Acceptable(run[w])
  /\ Goto(w, [run[w] EXCEPT
       !.at = "delete", !.surplus = FALSE, !.listed = vms,
       !.aged = {v \in old : status[v] # "failed"},
       !.powered = {v \in vms : status[v] \in Powered},
       !.unprotected = vms \ protected,
       !.victims = {v \in vms : status[v] \in Doomed}])
  /\ UNCHANGED <<fleet, members, retired, failures>>

TerminateStep(w) ==
  /\ run[w].at = "terminate"
  /\ ListVMs(w) \/ TerminateRefuses(w) \/ Fails(w, "transient")

\* TerminateScaleSetInstances, for each victim: lift the protection, and go
\* on to the next victim if that fails; then delete.
Unprotect(w) ==
  LET r == run[w] IN
  /\ r.at = "delete" /\ r.victim = None
  /\ \E v \in r.victims :
       \/ /\ v \in vms
          /\ protected' = protected \ {v}
          /\ Goto(w, [r EXCEPT !.victims = @ \ {v}, !.victim = v])
          /\ UNCHANGED failures
       \/ /\ v \notin vms \/ failures < MaxFailures
          /\ failures' = IF v \in vms THEN failures + 1 ELSE failures
          /\ Goto(w, [r EXCEPT !.victims = @ \ {v}])
          /\ UNCHANGED protected
  /\ UNCHANGED <<vms, old, status, members, retired>>

\* Azure refuses to delete a machine that is protected (again), or gone.
Delete(w) ==
  LET r == run[w] IN
  LET v == r.victim IN
  /\ r.at = "delete" /\ v # None
  /\ \/ /\ v \in vms \ protected
        /\ vms' = vms \ {v}
        /\ old' = old \ {v}
        /\ UNCHANGED failures
     \/ /\ v \notin vms \ protected \/ failures < MaxFailures
        /\ failures' = IF v \in vms \ protected THEN failures + 1 ELSE failures
        /\ UNCHANGED <<vms, old>>
  /\ Goto(w, [r EXCEPT !.victim = None])
  /\ UNCHANGED <<status, protected, members, retired>>

\* The sick machines are done with: getDeltaInstancesIds lists the scale set
\* again and compares it with the hosts of the cluster.
Delta(w) ==
  LET r == run[w] IN
  /\ r.at = "delete" /\ ~r.surplus /\ r.victims = {} /\ r.victim = None
  /\ \/ /\ Goto(w, [r EXCEPT !.at = "protect", !.delta = vms \ r.hosts])
        /\ UNCHANGED <<fleet, members, retired, failures>>
     \/ Fails(w, "transient")

\* setDeletionProtection visits every listed machine that had no protection,
\* the ones about to be deleted included: the continue in terminate.go:132
\* only leaves the inner loop.
Protect(w) ==
  LET r == run[w] IN
  /\ r.at = "protect"
  /\ \E v \in r.unprotected :
       /\ \/ v \in vms /\ protected' = protected \cup {v} /\ UNCHANGED failures
          \/ v \notin vms /\ UNCHANGED <<protected, failures>>
          \/ /\ failures < MaxFailures /\ failures' = failures + 1
             /\ UNCHANGED protected
       /\ Goto(w, [r EXCEPT !.unprotected = @ \ {v}])
  /\ UNCHANGED <<vms, old, status, members, retired>>

\* Mutants of Unneeded: no grace time; only machines that were named; machines
\* without an id are not left out.
NoGrace(r) == r.listed \cap r.delta \cap r.powered

OnlyNamed(r) == {v \in r.listed \cap r.delta : v \in r.toTerminate /\ v \in r.powered}

WithBlanks(r) ==
  {None} \cup {v \in r.listed \cap r.delta :
                 (v \in r.toTerminate \/ v \in r.aged) /\ v \in r.powered}

\* Machines outside the cluster go when they were named or are past their
\* grace, and are powered on.
Unneeded(r) ==
  {v \in r.listed \cap r.delta :
     (v \in r.toTerminate \/ v \in r.aged) /\ v \in r.powered}

Choose(w) ==
  LET r == run[w] IN
  /\ r.at = "protect" /\ r.unprotected = {}
  /\ Goto(w, [r EXCEPT !.at = "delete", !.surplus = TRUE, !.victims = Unneeded(r)])
  /\ UNCHANGED <<fleet, members, retired, failures>>

Finish(w) ==
  LET r == run[w] IN
  /\ r.at = "delete" /\ r.surplus /\ r.victims = {} /\ r.victim = None
  /\ Goto(w, [NoRun EXCEPT !.at = "transient"])
  /\ UNCHANGED <<fleet, members, retired, failures>>

\* transient only looks at what terminate collected; the run is over.
Transient(w) ==
  /\ run[w].at = "transient"
  /\ Goto(w, NoRun)
  /\ UNCHANGED <<fleet, members, retired, failures>>

-----------------------------------------------------------------------------
RunStep(w) ==
  \/ Fetch(w) \/ ScaleDownStep(w) \/ TerminateStep(w)
  \/ Unprotect(w) \/ Delete(w) \/ Delta(w) \/ Protect(w) \/ Choose(w)
  \/ Finish(w) \/ Transient(w)

Environment ==
  \E v \in VMs : Boot(v) \/ Age(v) \/ Change(v) \/ Join(v) \/ JoinFinalization(v)

Next == Environment \/ \E w \in Runs : RunStep(w)

Spec == Init /\ [][Next]_vars

\* The recurrence trigger starts a run every minute and a run goes on until
\* its last action; time passes.
FairSpec ==
  /\ Spec
  /\ \A w \in Runs : WF_vars(RunStep(w))

-----------------------------------------------------------------------------
(* Properties.                                                             *)

TypeOK ==
  /\ vms \subseteq VMs /\ old \subseteq vms /\ protected \subseteq VMs
  /\ members \subseteq VMs /\ retired \subseteq VMs
  /\ status \in [VMs -> Statuses]
  /\ run \in [Runs -> RunStates]
  /\ failures \in 0..MaxFailures

\* The machines a run still means to delete.
Condemned(w) == run[w].victims \cup ({run[w].victim} \ {None})

\* Nothing that a run deletes as unneeded is in the weka cluster when it is
\* deleted, however stale the run's list of hosts has become by then: the
\* grace time covers the machines that joined in between.
UnneededAreOutside ==
  \A w \in Runs : run[w].surplus => Condemned(w) \cap members = {}

\* No machine is touched on account of an error body: a run only lifts a
\* protection or deletes when fetch and scale_down both did their work.
NoBlindTermination ==
  \A w \in Runs : run[w].at \in {"delete", "protect"} =>
    run[w].ok /\ run[w].hosts # {} /\ run[w].hosts \cap run[w].toTerminate = {}

\* There is a cluster to log in to.
ClusterUp == \E v \in members \cap vms : status[v] = "running"

\* While the cluster has a running member, a machine that stays in it, on or
\* off, ends up protected from scale set actions, even if join_finalization
\* never came through (the note at terminate.go:191).
MembersGetProtected ==
  \A v \in VMs :
    v \in vms \cap members /\ ClusterUp ~>
      v \in protected \/ v \notin vms \cap members \/ ~ClusterUp

\* While the cluster has a running member, a machine past its grace that is
\* not in the cluster is deleted.
UnneededGo ==
  \A v \in VMs :
    v \in old \ members /\ ClusterUp ~> v \notin vms \ members \/ ~ClusterUp

\* The runs carry out sentences on sick and on unneeded machines only, and the
\* delay between sentence and execution does not matter.
Sentenced(surplus) == UNION {Condemned(w) : w \in {x \in Runs : run[x].surplus = surplus}}

Machines == INSTANCE Fleet WITH
              Sick <- Doomed, sick <- Sentenced(FALSE), unneeded <- Sentenced(TRUE)
ImplementsFleet == Machines!Spec

\* scale_down.json: terminate runs after scale-down has SUCCEEDED, and
\* scale-down after fetch has.
ChainStops ==
  [][\A w \in Runs :
       run[w].at = "terminate" /\ run'[w].at # "terminate" => run[w].ok]_vars

\* terminate.go:131: "Instance %s is chosen for termination, no need to
\* protect": no machine outside the cluster is given protection by terminate.
ChosenNotProtected ==
  [][\A w \in Runs : \A v \in VMs :
       run[w].at = "protect" /\ v \in protected' \ protected
         /\ v \in run[w].unprotected \ run'[w].unprotected =>
         v \notin run[w].delta]_vars

-----------------------------------------------------------------------------
(* Why the safety properties hold.                                         *)

\* What a run may delete as unneeded: what the library named, and what had
\* aged outside the cluster when the run looked.
Deletable(r) == r.toTerminate \cup (r.aged \ r.hosts)

\* A machine that can never be in the cluster (again): it is gone, was taken
\* out of the cluster, or is past the age at which machines join.
Out(v) == v \notin members /\ (v \in vms => v \in retired \cup old)

\* A run deletes as unneeded only machines that are out of the cluster for
\* good: until it lists them every member past its grace is a known host, and
\* no id comes back while a run that has seen it goes on.
OutsideInv ==
  \A w \in Runs :
    LET r == run[w] IN
    /\ r.toTerminate \subseteq r.fetched /\ r.aged \subseteq r.listed
    /\ r.delta \cap r.hosts = {}
    /\ \A v \in Deletable(r) : Out(v)
    /\ r.at = "terminate" /\ r.ok => old \cap members \subseteq r.hosts
    /\ r.at \notin {"delete", "protect"} => r.aged = {} /\ r.delta = {} /\ ~r.surplus
    /\ r.at = "protect" => r.victim = None
    /\ r.surplus => Condemned(w) \subseteq Deletable(r)

\* Only a run whose first two steps did their work knows a host, and it goes on
\* from terminate only then.
BlindInv ==
  \A w \in Runs :
    LET r == run[w] IN
    /\ r.hosts # {} => r.ok
    /\ r.hosts \cap r.toTerminate = {}
    /\ r.at \in {"delete", "protect"} => r.hosts # {}
=============================================================================
