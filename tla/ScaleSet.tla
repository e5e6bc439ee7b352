------------------------------ MODULE ScaleSet ------------------------------
(***************************************************************************)
(* The scale set of the backends and the handlers that drive its capacity  *)
(* and its configuration: scale_up, which the logic app calls every minute *)
(* whether or not the last run has ended, and resize, which a user calls.  *)
(*                                                                         *)
(* Both work from what they have read: the desired size in the state blob, *)
(* the scale set, its capacity.  Each call to Azure is a step of its own,  *)
(* and none of them is conditional on what was read still being so.  What  *)
(* the blob itself suffers from concurrent writers is in StateStore; here  *)
(* it is one record, read and written in one step.                         *)
(***************************************************************************)
EXTENDS Naturals, FiniteSets

CONSTANTS
  Runs,          \* runs of scale_up that can overlap
  Resizes,       \* calls of resize that can overlap
  Sizes,         \* the sizes resize accepts
  InitialSize,   \* INITIAL_CLUSTER_SIZE
  Versions,      \* versions of the scale set's configuration
  Skus,          \* virtual machine types
  MaxEvents,     \* bound: failures and outside events in one behaviour
  None

ASSUME ScaleSetAssumption ==
  /\ InitialSize \in Nat \ {0}
  /\ Sizes \subseteq Nat \ {0}
  /\ MaxEvents \in Nat
  /\ Runs \cap Resizes = {}
  /\ None \notin [capacity : Nat, config : [version : Versions, sku : Skus]]

\* VMSS_CONFIG.  Its hash tells any two configurations apart.
Configs == [version : Versions, sku : Skus]

Handlers == Runs \cup Resizes

Clusters == [clusterized : BOOLEAN, registered : BOOLEAN, desired : Nat]

VARIABLES
  cluster,    \* the state blob: is the cluster formed, has any machine
              \* registered for it, how many machines it should have
  scaleSet,   \* capacity and configuration of the scale set, or None
  sick,       \* how many of its machines are unhealthy and stopped
  config,     \* the configuration the function app is deployed with
  job,        \* what each handler is doing
  events,     \* how many outside events there were
  asked       \* history: the desired sizes the state has had

vars == <<cluster, scaleSet, sick, config, job, events, asked>>

\* seen: the state a handler has read; config: the one its process started
\* with; size: the capacity it will ask for.
Idle(c) ==
  [at |-> "idle", seen |-> [clusterized |-> FALSE, registered |-> FALSE, desired |-> 0],
   config |-> c, size |-> 0]

Init ==
  /\ cluster = [clusterized |-> FALSE, registered |-> FALSE, desired |-> InitialSize]
  /\ scaleSet = None
  /\ sick = 0
  /\ config \in Configs
  /\ job = [h \in Handlers |-> Idle(config)]
  /\ events = 0
  /\ asked = {InitialSize}

Event == events < MaxEvents /\ events' = events + 1

Move(h, j) == job' = [job EXCEPT ![h] = j]

Stop(h) == Move(h, Idle(job[h].config))

\* Azure takes a new capacity; the machines over it are removed.
SetScaleSet(n, c) ==
  /\ scaleSet' = [capacity |-> n, config |-> c]
  /\ sick' = IF sick > n THEN n ELSE sick

-----------------------------------------------------------------------------
(* scale_up.                                                               *)

\* The trigger fires, ReadStateOrCreateNew.
StartRun(h) ==
  /\ h \in Runs /\ job[h].at = "idle"
  /\ Move(h, [Idle(config) EXCEPT !.at = "get", !.seen = cluster])
  /\ UNCHANGED <<cluster, asked, scaleSet, sick, config, events>>

\* Mutants of Decision: a missing scale set is always created; a difference
\* in the configuration is not looked at.
CreatesAlways(j, s) ==
  IF s = None THEN "put"
  ELSE IF ~j.seen.clusterized THEN "tidy"
  ELSE IF s.config.sku # j.config.sku THEN "fail"
  ELSE IF s.config # j.config THEN "put" ELSE "scale"

NeverUpdates(j, s) ==
  IF s = None
  THEN IF j.seen.clusterized \/ j.seen.registered THEN "fail" ELSE "put"
  ELSE IF j.seen.clusterized THEN "scale" ELSE "tidy"

\* What a run does about the scale set s after it has read the state.
Decision(j, s) ==
  CASE s = None /\ (j.seen.clusterized \/ j.seen.registered) -> "fail"
    [] s = None /\ ~(j.seen.clusterized \/ j.seen.registered) -> "put"
    [] s # None /\ ~j.seen.clusterized -> "tidy"
    [] s # None /\ j.seen.clusterized /\ s.config = j.config -> "scale"
    [] s # None /\ j.seen.clusterized /\ s.config # j.config ->
         IF s.config.sku = j.config.sku THEN "put" ELSE "fail"

\* Mutant of Wanted: an existing scale set is put back as it was read.
WantsWhatItRead(j, s) == IF s = None THEN InitialSize ELSE s.capacity

\* The capacity a run asks for: a new scale set has the initial size.
Wanted(j, s) == IF s = None THEN InitialSize ELSE j.seen.desired

GetScaleSet(h) ==
  LET next == Decision(job[h], scaleSet) IN
  /\ job[h].at = "get"
  /\ IF next = "fail" THEN Stop(h)
     ELSE Move(h, [job[h] EXCEPT !.at = next, !.size = Wanted(job[h], scaleSet)])
  /\ UNCHANGED <<cluster, asked, scaleSet, sick, config, events>>

\* Mutant of Tidy: machines whose deletion failed are taken for deleted.
TidyIgnoresFailures(h) ==
  /\ job[h].at = "tidy"
  /\ Move(h, [job[h] EXCEPT !.at = "scale"])
  /\ \/ sick' = 0 /\ UNCHANGED events
     \/ sick' \in 1..sick /\ Event
  /\ scaleSet' = IF scaleSet = None THEN None
                 ELSE [scaleSet EXCEPT !.capacity = @ - sick]
  /\ UNCHANGED <<cluster, asked, config>>

\* handleProgressingClusterization deletes the unhealthy machines, one call
\* for each; the ones that fail are only reported.
Tidy(h) ==
  /\ job[h].at = "tidy"
  /\ Move(h, [job[h] EXCEPT !.at = "scale"])
  /\ \/ sick' = 0 /\ UNCHANGED events
     \/ sick' \in 1..sick /\ Event
  /\ scaleSet' = IF scaleSet = None THEN None
                 ELSE [scaleSet EXCEPT !.capacity = @ - (sick - sick')]
  /\ UNCHANGED <<cluster, asked, config>>

\* CreateOrUpdateVmss puts the whole scale set, its capacity included.
Put(h) ==
  /\ job[h].at = "put"
  /\ SetScaleSet(job[h].size, job[h].config)
  /\ Stop(h)
  /\ UNCHANGED <<cluster, asked, config, events>>

-----------------------------------------------------------------------------
(* resize.                                                                 *)

\* A call with an accepted size; an unclusterized cluster answers an error.
StartResize(h) ==
  /\ h \in Resizes /\ job[h].at = "idle"
  /\ cluster.clusterized
  /\ Event
  /\ \E n \in Sizes :
       Move(h, [Idle(config) EXCEPT !.at = "write", !.seen = cluster, !.size = n])
  /\ UNCHANGED <<cluster, asked, scaleSet, sick, config>>

\* Only a larger size goes on to the scale set.
WriteDesired(h) ==
  LET j == job[h] IN
  /\ j.at = "write"
  /\ cluster' = [cluster EXCEPT !.desired = j.size]
  /\ asked' = asked \cup {j.size}
  /\ IF j.seen.desired < j.size THEN Move(h, [j EXCEPT !.at = "scale"]) ELSE Stop(h)
  /\ UNCHANGED <<scaleSet, sick, config, events>>

-----------------------------------------------------------------------------
(* ScaleUp, common to both: look at the capacity, then set it.             *)

\* Mutant of TooSmall: off by one.
TooSmallByTwo(s, n) == s.capacity + 1 < n

TooSmall(s, n) == s.capacity < n

GetCapacity(h) ==
  /\ job[h].at = "scale"
  /\ IF scaleSet # None /\ TooSmall(scaleSet, job[h].size)
     THEN Move(h, [job[h] EXCEPT !.at = "patch"]) ELSE Stop(h)
  /\ UNCHANGED <<cluster, asked, scaleSet, sick, config, events>>

SetCapacity(h) ==
  /\ job[h].at = "patch"
  /\ IF scaleSet # None THEN SetScaleSet(job[h].size, scaleSet.config)
                        ELSE UNCHANGED <<scaleSet, sick>>
  /\ Stop(h)
  /\ UNCHANGED <<cluster, asked, config, events>>

\* Any call may fail, and the process may stop: the handler goes no further.
Fail(h) ==
  /\ job[h].at # "idle"
  /\ Event
  /\ Stop(h)
  /\ UNCHANGED <<cluster, asked, scaleSet, sick, config>>

-----------------------------------------------------------------------------
(* Outside events.                                                         *)

\* clusterize registers a machine, clusterize_finalization ends the phase.
Register ==
  /\ scaleSet # None /\ ~cluster.clusterized /\ ~cluster.registered
  /\ cluster' = [cluster EXCEPT !.registered = TRUE]
  /\ UNCHANGED <<scaleSet, sick, config, job, events, asked>>

Clusterize ==
  /\ cluster.registered /\ ~cluster.clusterized
  /\ cluster' = [cluster EXCEPT !.clusterized = TRUE, !.registered = FALSE]
  /\ UNCHANGED <<scaleSet, sick, config, job, events, asked>>

\* terraform apply deploys another configuration.
Reconfigure ==
  /\ Event
  /\ config' \in Configs \ {config}
  /\ UNCHANGED <<cluster, asked, scaleSet, sick, job>>

Sicken ==
  /\ scaleSet # None /\ sick < scaleSet.capacity
  /\ Event
  /\ sick' = sick + 1
  /\ UNCHANGED <<cluster, asked, scaleSet, config, job>>

\* The scale-down workflow deletes a machine, sick or not needed by what
\* fetch read a while ago (module ScaleDown).
Terminate ==
  /\ cluster.clusterized /\ scaleSet # None /\ scaleSet.capacity > 1
  /\ Event
  /\ scaleSet' = [scaleSet EXCEPT !.capacity = @ - 1]
  /\ sick' = IF sick > 0 THEN sick - 1 ELSE 0
  /\ UNCHANGED <<cluster, asked, config, job>>

\* Somebody deletes the scale set, at a time when no handler runs.
DeleteScaleSet ==
  /\ scaleSet # None
  /\ \A h \in Handlers : job[h].at = "idle"
  /\ Event
  /\ scaleSet' = None
  /\ sick' = 0
  /\ UNCHANGED <<cluster, asked, config, job>>

-----------------------------------------------------------------------------
Step(h) ==
  \/ StartRun(h) \/ GetScaleSet(h) \/ Tidy(h) \/ Put(h)
  \/ WriteDesired(h) \/ GetCapacity(h) \/ SetCapacity(h)

Outside ==
  Register \/ Clusterize \/ Reconfigure \/ Sicken \/ Terminate \/ DeleteScaleSet

Next ==
  \/ \E h \in Handlers : Step(h) \/ StartResize(h) \/ Fail(h)
  \/ Outside

Spec == Init /\ [][Next]_vars

\* scale_up.json runs the handler every minute, and a handler that runs
\* keeps running.
FairSpec == Spec /\ \A h \in Handlers : WF_vars(Step(h))

-----------------------------------------------------------------------------
(* Properties.                                                             *)

Jobs ==
  [at : {"idle", "get", "tidy", "put", "write", "scale", "patch"},
   seen : Clusters, config : Configs, size : Nat]

TypeOK ==
  /\ cluster \in Clusters
  /\ scaleSet \in [capacity : Nat, config : Configs] \cup {None}
  /\ sick \in Nat
  /\ scaleSet # None => sick <= scaleSet.capacity
  /\ config \in Configs
  /\ job \in [Handlers -> Jobs]
  /\ events \in 0..MaxEvents
  /\ asked \subseteq Nat

\* A scale set that is gone is never replaced by a new one of the initial
\* size while the state still describes a cluster, or one being formed
\* (scale_up.go:114): its machines would join nothing.
NoBlindCreation ==
  [][scaleSet = None /\ scaleSet' # None =>
       ~cluster.clusterized /\ ~cluster.registered]_vars

\* No handler that sets a capacity removes machines by it: a run or a resize
\* only ever grows the scale set (ScaleUp skips when the capacity is
\* already there, common.go:1013).
ScaleUpGrows ==
  [][\A h \in Handlers :
       job[h].at \in {"put", "patch"} /\ job'[h].at = "idle"
         /\ scaleSet # None /\ scaleSet' # None =>
         scaleSet'.capacity >= scaleSet.capacity]_vars

\* What does hold, however the handlers overlap and whatever happens to the
\* scale set meanwhile: they set the capacity to a size that was asked for, and
\* machines are removed by it only where a larger size was asked for as well.
\* Without a resize to another size no run ever shrinks the scale set.
SetsWhatWasAsked ==
  [][\A h \in Handlers :
       job[h].at \in {"put", "patch"} /\ job'[h].at = "idle"
         /\ scaleSet' # scaleSet /\ scaleSet' # None =>
         /\ scaleSet'.capacity \in asked
         /\ scaleSet # None /\ scaleSet'.capacity < scaleSet.capacity =>
              \E n \in asked : n >= scaleSet.capacity]_vars

\* Once nothing more happens the scale set reaches the desired size, whatever
\* was lost on the way.  The exception is a configured machine type that
\* differs from the scale set's: every run then ends with the refusal of the
\* update (scale_up.go:262), before "Scale up latest vmss if needed".
CapacityReached ==
  <>[](scaleSet # None /\ scaleSet.config.sku = config.sku =>
         scaleSet.capacity >= cluster.desired)

\* And a cluster's scale set has the configuration that was deployed, unless
\* that asks for another machine type.
ConfigApplied ==
  <>[](scaleSet # None /\ cluster.clusterized /\ scaleSet.config.sku = config.sku =>
         scaleSet.config = config)

-----------------------------------------------------------------------------
(* Why the safety properties hold.                                         *)

\* While there is no scale set no machine can register, so that what a run
\* has read of the state still tells whether it may create one.
CreateInv ==
  scaleSet = None => \A h \in Handlers :
    /\ job[h].at = "get" =>
         ((job[h].seen.clusterized \/ job[h].seen.registered)
            <=> (cluster.clusterized \/ cluster.registered))
    /\ job[h].at = "put" => ~cluster.clusterized /\ ~cluster.registered

\* The scale set is never larger than a size that was asked for, and a run
\* works, until it ends, with a size that was asked for at some time.
AskedInv ==
  /\ cluster.desired \in asked /\ InitialSize \in asked
  /\ scaleSet # None => \E n \in asked : scaleSet.capacity <= n
  /\ \A h \in Handlers :
       /\ job[h].at = "get" => job[h].seen.desired \in asked
       /\ job[h].at \in {"tidy", "put", "scale", "patch"} => job[h].size \in asked
=============================================================================
