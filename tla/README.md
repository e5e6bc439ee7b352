# Verification of the WEKA function app on Azure

The Terraform code of this repository provisions a storage account, a key
vault, a function app and two logic apps. The function app (Go, under
`function-app/code`) then builds the WEKA cluster and keeps it at its size: the
machines of a scale set call it while they boot, and the logic apps call it
every minute. This directory models the parts of it that have state and
concurrency, checks them with TLC and proves the central results with TLAPS.
Paths below are relative to the repository; `common.go` is
`function-app/code/common/common.go`, and `x.go` is
`function-app/code/functions/x/x.go`.

## 1. The system

### State

| Where | What | Who changes it |
|---|---|---|
| state blob (`state` in the state container) | list of registered machines, `clusterized`, desired and initial size, target, progress reports, scale set updates | `clusterize`, `clusterize_finalization`, `report`, `resize`, `scale_up` |
| lease of the blob's container | the lock around read-modify-write cycles, 60 s, never renewed | every writer but `resize` and the creation of the blob |
| scale set of the backends | capacity, configuration (compared through a hash tag), machines with health, power and protection | `scale_up`, `resize`, `terminate`, `join_finalization`, Azure |
| weka cluster | the machines that joined | scripts on the machines, the `scale_down` library |
| key vault | admin, deployment and run passwords | `clusterize`, terraform |
| NFS state blob, NFS scale set | as above, for the NFS gateways | the same handlers |

Nothing is kept in the function app's memory between requests except the
configuration the process was started with.

### Components

| Component | Operations | What makes it correct |
|---|---|---|
| State store (`common.go` 133-498, 1626-1656) | `LockContainer`, `UnlockContainer`, `ReadState`, `WriteState`, `AddInstanceToState`, `UpdateClusterized`, `AddClusterUpdate`, `UpdateStateReporting`, `EnsureStateIsCreated` | no update is lost; a lease left behind comes free; a state in use is never created anew |
| clusterize, clusterize_finalization | register a machine; choose the one that forms the cluster; close the list | exactly one machine forms the cluster, with every machine that was registered; it is formed once |
| report | append a report or an error to the state | what was acknowledged stays |
| resize | write the desired size; grow the scale set | what was acknowledged stays; the scale set gets there |
| scale_up, `CreateOrUpdateVmss`, `ScaleUp` | create, update, repair and grow the scale set | never a new scale set for an existing cluster; never removes machines; reaches size and configuration |
| scale-down workflow: fetch, scale_down, terminate, transient (`modules/logic_app/scale_down.json`) | list machines, let the library shrink the cluster, delete sick and unneeded machines, protect the rest | nothing is deleted that is in the cluster or because a step failed; the others are deleted in the end; members end up protected |
| join_finalization | protect a machine that joined | as above |
| protect | never called: `functions_def.go:26` gives the scripts a function that prints "not implemented" | - |
| `HandleLastClusterVm` (`clusterize.go:122`) | prepare the object store, store two passwords, look up the addresses, generate the script that forms the cluster | the cluster gets the passwords that are in the vault; what it survives, and what it does not, is known |
| deploy | a script for a machine: register, or join | after `clusterized` a machine joins |
| init script | ask deploy until there is a script, run it | a machine runs a script or asks again |
| status, debug | read-only | - |
| Azure helpers | role assignments, key vault, storage accounts, private endpoints | idempotent |
| Terraform, logic app definitions | provisioning, triggers every minute | - |

The `scale_down` library, `protocol` types and the scripts come from
`weka/go-cloud-lib`, which is not in this repository. They are modelled by how
this repository uses them and are marked external in the map.

### Interactions

```
 machine boots ---> deploy --> script --> clusterize --(last one)--> forms the cluster
                                   |                                        |
                                   +--> report                clusterize_finalization
                                   +--> join_finalization --> protection
 scale_up trigger (1 min) ---> scale_up --> state (created if missing), scale set
 scale_down trigger (1 min) -> fetch -> scale_down -> terminate -> transient
 user ---> resize --> state (no lease), scale set
```

### What is hard

* Requests are served concurrently, by several instances of the function host,
  and the triggers do not wait for the previous run. Every Azure call is a point
  at which another request may run.
* The lease is the only lock. It does not cover `resize` nor the creation of the
  blob, it may expire under its holder, and it may be left behind.
* No write is conditional on what was read: not the blob's (no ETag, no lease
  id), not the scale set's (`CreateOrUpdateVmss`, `ScaleUp`).
* The scale-down steps each work from what an earlier one saw.
* A handler that fails answers HTTP 200 with an error body
  (`WriteErrorResponse`, `common.go:116`), and the workflow goes on.
* A script repeats a call up to ten times (`curl --retry 10`), also one that was
  carried out and whose answer was lost or came too late.
* The machine that completes the list is the only one that can form the cluster,
  and its handler makes several calls, each of which leaves something behind.

`PROJECT.json` lists the hazards one by one with the properties aimed at them.

## 2. The modules

| Module | What it is |
|---|---|
| `StateStore` | the blob, the lease and the handlers that use them, one step per storage call |
| `Registration` | abstract specification of the registration phase: atomic, no lease, no calls |
| `AtomicStore` | abstract specification of the store: a request takes effect at most once, in one step while it is served |
| `StateStoreProofs` | theorems about `StateStore`, among them that it implements `Registration` and `AtomicStore` |
| `ScaleSet` | `scale_up` and `resize` against the scale set's capacity and configuration |
| `ScaleSetProofs` | theorems about `ScaleSet` |
| `ScaleDown` | the scale-down workflow against the machines of the scale set and the cluster |
| `Fleet` | abstract specification of the workflow: machines go only under a sentence |
| `ScaleDownProofs` | theorems about `ScaleDown`, among them that it implements `Fleet` |
| `Clusterization` | machines from their first boot to their place in the cluster: init script, deploy, clusterize, `HandleLastClusterVm`, finalization, replacement |
| `WekaCluster` | abstract specification of the cluster: one password, one formation, a report, members that come and go |
| `ClusterizationProofs` | theorems about `Clusterization`, among them that it implements `Registration` too, and `WekaCluster` |
| `MCStateStore`, `MCScaleSet`, `MCScaleDown`, `MCClusterization` | symmetry sets for TLC |

`StateStore` and `Clusterization` look at the same list from two sides: the
former at the calls that read and write the blob, the latter at the machines on
it and at what becomes of the one that completes it. Both are shown to implement
`Registration`, so that what `Clusterization` takes for granted (the blob is read
and written in one step) is what `StateStore` establishes.

### StateStore

| Variable | Code |
|---|---|
| `exists`, `state` | the blob; `instances`, `clusterized`, `desired`, `reports`, `updates` are `Instances`, `Clusterized`, `DesiredSize`, `Progress`/`Errors`, `Updates` of `protocol.ClusterState` |
| `lease` | the container lease: `Free`, the handler that holds it, or `Orphaned` when its holder is gone without releasing it |
| `pc`, `call`, `snap`, `outcome` | one request being served: its position, what it was asked, the state it read, what it will answer |
| `acked`, `elected` | history: which requests were answered with success; how many times a caller was the one that completes the list |

| Action | Code |
|---|---|
| `Call` | a request arrives (`Handler`s of clusterize, clusterize_finalization, report, resize, scale_up), or `report` makes another attempt (`report.go:34`) |
| `Acquire`, `GiveUp` | `leaseContainerAcquire`: 999 attempts, a second apart; a conflict is tried again, any other error is returned |
| `Read`, `ReadFails` | `ReadState`, and the checks each operation makes on it (`Verdict`) |
| `CheckExists` | `EnsureStateIsCreated` / `blobExists` |
| `Write`, `WriteFails` | `WriteState` of the changed copy (`Applied`); a failed upload may have taken effect |
| `Return` | the deferred `UnlockContainer`, whose error is dropped, and the answer |
| `Crash` | the function host stops in the middle of a request |
| `Expire` | Azure ends the lease |

`Stalls` says whether a handler can be delayed past its 60 seconds. With
`Stalls = FALSE` a lease expires only when its holder is gone; this is the
assumption of most results, and it is an assumption: nothing in the code
enforces it.

`CanBeCalled` keeps out requests that cannot happen: no machine calls before the
scale set exists, which is only after the state was created, and
`clusterize_finalization` is only in the script given to the machine that forms
the cluster. Without `Stalls`, an overlapping `scale_up` run that found no blob
is assumed to write it before the machines of a scale set created meanwhile have
booted (minutes). This leaves the race between the question whether the blob exists
and its creation (`common.go:337-350`) out of every result with `~Stalls`; were it to
happen, the state would be reset under the machines that use it.

### Registration

`instances` grows by one machine at a time, never past `InitialSize`; the step
that reaches `ClusterizationTarget` elects its caller; `Finalize` empties and
closes the list. There is no lease, no copy and no failing call in it, so that
the refinement `ImplementsRegistration` says that the interleavings of
`StateStore` cannot be told from atomic operations by what they leave in the
blob. The election may be lost (the upload took effect and was reported as
failed); the abstract specification admits that, because the code does.

### AtomicStore

`Registration` is about the list. `AtomicStore` is about the callers: a handler
receives a request, `Serve` carries out its effect on the state in one step, and
`Answer` answers it with success; or the request fails (`Fail`), and if its
effect took place all the same it did so at once and will not later. The
property `ImplementsAtomicStore` maps the requests of `StateStore` that take the
lease to it: a request is there from its call until it is answered or has
failed, and it is done when its upload succeeded. The creation of the blob is a
stutter, because the blob it writes over has its initial content. `resize` is
left out: it writes without the lease, and with it the refinement does not hold
(first finding).

### ScaleSet

| Variable | Code |
|---|---|
| `cluster` | what `scale_up` and `resize` use of the state: `Clusterized`, whether `Instances` is non-empty, `DesiredSize` |
| `scaleSet` | the scale set: capacity and configuration, or `None` |
| `sick` | machines that `GetUnhealthyInstancesToTerminate` would return |
| `config` | `VMSS_CONFIG` of the deployed function app (its hash tells configurations apart) |
| `asked` | history: the desired sizes the state has had |
| `job` | one handler: position, the state it read, the configuration its process started with, the capacity it asks for |

| Action | Code |
|---|---|
| `StartRun`, `GetScaleSet` | `scale_up.go:89-171`; `Decision` is the chain of conditions on the state, the scale set and the two hashes |
| `Put` | `CreateOrUpdateVmss`, for a new scale set (`createVmss`) and for an update (`handleVmssUpdate`) |
| `Tidy` | `handleProgressingClusterization` |
| `GetCapacity`, `SetCapacity` | the two calls of `ScaleUp`, `common.go:991` |
| `StartResize`, `WriteDesired` | `updateDesiredClusterSize` |
| `Fail` | a call fails, or the process stops |
| `Register`, `Clusterize`, `Terminate`, `Reconfigure`, `Sicken`, `DeleteScaleSet` | what others do meanwhile: `clusterize`, `clusterize_finalization`, `terminate`, `terraform apply`, Azure, an operator |

The blob is one record here, read and written in one step: what concurrent
writers do to it is the subject of `StateStore`. The desired size `resize`
writes can therefore not be taken back in this module.

### ScaleDown

| Variable | Code |
|---|---|
| `vms`, `old`, `status`, `protected` | the machines as `GetUniformScaleSetInstances` lists them: present, provisioned more than 30 minutes ago, health and power, protection policy |
| `members`, `retired` | machines in the weka cluster; machines the library took out of it |
| `run` | one run of the logic app: the step it is at, the body handed from step to step, and what `terminate` has read |

| Action | Code |
|---|---|
| `Fetch` | `fetch.go` |
| `ScaleDownOK`, `ScaleDownRefuses` | `scale_down.go` and the library behind it |
| `ListVMs`, `TerminateRefuses` | `terminate.go:150-182`: the checks of the request and the list the handler works on |
| `Unprotect`, `Delete` | `TerminateScaleSetInstances`, one machine at a time, first for the sick machines, then for the unneeded ones |
| `Delta` | `getDeltaInstancesIds`, a second listing compared with the hosts of the cluster |
| `Protect` | `setDeletionProtection` |
| `Choose`, `Finish` | `terminateUnneededInstances` |
| `Transient` | `transient.go` |
| `Fails` | an error answer, with HTTP 200 |
| `JoinFinalization` | `join_finalization.go` |
| `Boot`, `Age`, `Change`, `Join` | Azure and the scripts |

The library is external. What is assumed of it: it logs in to a member of the
cluster that `fetch` listed and that is powered on (`Reachable`); it never removes
all members; and it lists the ones that are left. Without such a member the step
answers an error every minute and `terminate` refuses, so that nothing is
protected or deleted until one is on again. `MembersGetProtected` and `UnneededGo`
say so: both are stated for a cluster with a running member (`ClusterUp`).

A machine that failed to provision has no time of creation and is never past its
grace (`terminate.go:89-93`); it goes as a sick one, when its health is reported.

Time is kept out of the model: a machine ages by an action, and `Prompt` says
what the 30 minutes are for, that no machine uses up its grace between joining
the cluster and the end of a run that still has the list of hosts from before.

### Fleet

`Fleet` has the machines, the cluster and two sets of sentenced machines, and no
runs. A sentence is passed (`Judge`) on a machine that is sick, or as unneeded on
one that is no member; `Unprotect` and `Delete` are only possible under a
sentence; a machine sentenced as unneeded cannot join, and no machine boots with
the id of a sentenced one. In `ScaleDown` the sentences are what the runs have
collected and not yet deleted. The lists they were collected from are older than
the deletion, by minutes when calls are slow; `ImplementsFleet` says that this
does not matter.

### Clusterization

| Variable | Code |
|---|---|
| `at` | where a machine is: `gone`, `booting` (the loop of `init_script.go:151`), `deployed` (has the registering script), `asking` (its call completed the list, the handler has not answered), `forming`, `formed`, `joining`, `idle` (no script left to run), `down` |
| `instances`, `clusterized` | `Instances` and `Clusterized` of the state |
| `last` | the request that completed the list: its machine, the list it holds, the call it makes next, the addresses it got |
| `vault` | the secrets `weka-password` and `weka-deployment-password`; a password stands for the machine whose call generated it |
| `cluster` | the weka cluster: whether it was formed, its members, the passwords it was given |
| `mishaps`, `repeats` | bounds |

| Action | Code |
|---|---|
| `Grow`, `Tidy`, `Terminate` | machines created by the scale set, deleted by `handleProgressingClusterization` while the cluster is being formed and by the scale-down workflow afterwards |
| `Deploy`, `DeployFails` | `deploy.go`: the script by `state.Clusterized`; an error answer is saved and run as a script |
| `Clusterize`, `ClusterizeFails` | `Clusterize`, `doClusterize` with `AddInstanceToState`: wait, go on as the last one, join, shut down, or an error script |
| `AnswerLost` | the handler did its work and the machine calls again (`functions_def.go:49`) |
| `PrepareObs`, `SetAdminPassword`, `SetDeploymentPassword`, `GetPrivateIps`, `LastFails`, `Answer` | `HandleLastClusterVm`, one step per call; a failing call may have stored the password |
| `FormCluster` | the clusterization script: it succeeds when every listed machine runs, has an address and is listed once; it takes the passwords through `fetch` |
| `Finalize`, `FinalizeFails` | `clusterize_finalization` |
| `Join` | a join script reaches a member |
| `MachineFails`, `ScriptFails` | a machine stops; a script goes wrong |

The scripts are generated by `go-cloud-lib` and external. What is assumed of
them: the registering script ends with the call of clusterize and runs the
answer; forming a cluster needs every machine of the list; a join script waits
for a member. `Terminate` asks for a running member, because the workflow logs in
to the cluster first.

### WekaCluster

The result of all this as its users see it: `Generate` makes up the deployment
password, once; `Form` forms the cluster with it, once, and with as many machines
as the clusterization target says; `Report` follows, and machines join and leave,
never the last one. Machines, scripts, the list and the calls of
`HandleLastClusterVm` are gone.

## 3. The runs

| Run | Checks | Shows |
|---|---|---|
| `state_locked` | `TypeOK`, `FreshInSection`, `ReportsKept`, `UpdatesKept`, `ImplementsAtomicStore` | three handlers of the kinds that take the lease, the creation of the blob, failing calls and releases, crashes: inside the lease nobody writes from a stale copy, what was acknowledged stays, and each request takes effect atomically and at most once |
| `state_registration` | `SingleClusterizer`, `RegistrationsKept`, `RegistrationInv`, `StaysClusterized`, `ImplementsRegistration` | the registration phase with `resize` outside the lease and the blob being created: it behaves atomically and elects at most one machine |
| `state_stalling` | `NoOverfill`, `Answered`, `LeaseComesFree` | handlers that outlive their lease: what is still true, that nobody waits for ever, and that every way out of the section lets the lease go |
| `state_resize_undone` | `OnlyResizeResizes`, violated | see findings |
| `down_workflow` | `TypeOK`, `UnneededAreOutside`, `NoBlindTermination`, `ImplementsFleet`, `MembersGetProtected`, `UnneededGo` | runs one after another, machines being powered off, a failing call anywhere; the last two say what happens while the cluster has a running member |
| `down_chain`, `down_chosen` | `ChainStops`, `ChosenNotProtected`, violated | see findings |
| `set_settles` | `TypeOK`, `CreateInv`, `AskedInv`, `NoBlindCreation`, `SetsWhatWasAsked`, `CapacityReached`, `ConfigApplied` | two runs of `scale_up` and a `resize` with outside events: no blind creation, handlers only set sizes that were asked for and remove machines only below a larger one that was, and the scale set settles at what was asked for |
| `set_shrunk` | `ScaleUpGrows`, violated | see findings |
| `cluster_forms` | `TypeOK`, `FormationInv`, `CredentialsWork`, `ListedOnce`, `ElectionInv`, `ImplementsRegistration`, `ImplementsCluster`, `LossIsFinal`, `FormationSurvives`, `EveryoneJoins` | from the first boot to a complete cluster, with failing machines and calls and a repeated one |
| `cluster_repeated`, `cluster_deploy_error` | `LastIsLast`, `GenerationRetried`, violated | see findings |

`FormationSurvives` says that the cluster is formed and reported, or the formation
is `Beyond` help from some point on: one of the machines it is to be made of
stopped or is listed twice, nobody was elected although the list reached the
target, the elected machine no longer has the script, or the machine that formed
the cluster did not get to report it; or more machines than there are spares
neither registered nor stopped (`TooFewLeft`). Everything else, among it machines
that stop before they register and an object store that cannot be prepared, the
code gets over. `LossIsFinal` says that `Beyond` excuses nothing that a later step
repairs: no retry, no replacement and no repeated call brings such a formation
back on its way. `EveryoneJoins` says that a formed cluster with a running member
ends up with the whole scale set as its members. `ListedOnce` says what repeated
calls endanger: without them every machine is listed once, and none that is
listed, or a member, still has to register, so that nobody the cluster counts on
is told to shut down.

Every property of a passing run has a mutant: a change of one definition, the
kind of mistake that code invites (a missing lease, `>` for `>=`, a reset left
out, a guard dropped), with which TLC finds the property violated. The mutated
forms stand before the definitions they replace.

### Bounds

* `Handlers`: three in the safety runs of `StateStore`, which is one more than a
  pair that races, so that a third can take the lease between them; two in the
  run with liveness and stalls.
* `VMs`: two machines that may call again and again cover a first and a second
  registration, a repeated call and a machine too many; `InitialSize` 3 and
  target 2 in `state_registration` make the target differ from the size. The
  list may reach the target, pass it, and be full.
* `elected` counts to 2, the first value that is wrong.
* `MaxFailures`, `MaxEvents`: how many calls fail, or outside events happen, in
  one behaviour of the whole instance. `StateStore` has no such bound: its
  calls may fail any number of times. In `ScaleSet` three events allow, for
  example, a resize, a reconfiguration and a failure.
* `ScaleSet`: sizes 1 and 3 around an initial 2 are a resize down and up; two
  versions and two machine types are a change that can be applied and one that
  cannot.
* `ScaleDown`: two machines are the smallest fleet in which one can be in the
  cluster and one not; ids are used again when nobody has them any more, so that
  they stand for any number of machines. `down_workflow` has one run at a time
  (see the third finding); the safety properties are proved for overlapping
  runs as well.
* `Clusterization`: `InitialSize` 3 and target 2 leave one machine that joins the
  cluster after it was formed or finds the list full; the fourth id is a
  replacement while the third is still on the list. Two mishaps allow a failing
  machine and a failing call in one behaviour, or the loss of a replacement; one
  repeat is enough to list a machine twice.
* `DeleteScaleSet` happens only while no handler runs: an operator deleting the
  scale set in the seconds of a run is not in the model.

### Fairness

`StateStore!FairSpec` asks weak fairness of each handler's own steps (a request
that is being served goes on being served; whether a handler gets the lease is
not assumed, and `GiveUp` is one of its steps because the attempts are counted)
and of `Expire` for a lease whose holder is gone. Azure may end the lease of a
running handler as well (that is what `Stalls` allows), but no property counts on
it: `LeaseComesFree` therefore says that every handler in the section, whatever
fails there, gets to its release. Crashes and calls are never forced. `ScaleSet!FairSpec` and `ScaleDown!FairSpec` ask weak fairness of each
run: the recurrence triggers fire every minute, and a handler that runs goes on.
No fairness is asked of machines, users or Azure, and no run is assumed to
succeed: the bounds on failures end them. `Clusterization!FairSpec` asks weak
fairness of each machine's script steps (a script that can go on goes on), of the
handler of the last machine, and of `Grow`, `Tidy` and `Terminate`, which are runs
of the two workflows; mishaps and repeats are never forced.

## 4. The findings

* **resize writes outside the lease** (`state_resize_undone`). A report that read
  the state before `resize` wrote it writes the old desired size back. The other
  way round, `resize` removes a report that was acknowledged; `ReportsKept` and
  `UpdatesKept` are therefore checked without `resize`.
* **A failed step does not stop the workflow** (`down_chain`). `WriteResponse`
  ignores its status code, the answer is HTTP 200 with an error body, and the
  next step is called with it. `NoBlindTermination` shows that `terminate`
  refuses such a body.
* **Machines chosen for termination are protected** (`down_chosen`). The
  `continue` of `terminate.go:132` leaves the inner loop only. With runs that do
  not overlap the machine is unprotected again before it is deleted; with two
  overlapping runs each can protect again what the other is about to delete, and
  `UnneededGo` fails, which is why `down_workflow` has one run at a time.
* **An overtaken run shrinks the scale set** (`set_shrunk`). `ScaleUp` and
  `CreateOrUpdateVmss` set the capacity a run wanted when it started. A `resize`
  in between is undone for a while, and machines are removed; `CapacityReached`
  shows that a later run repairs the size.

* **A repeated clusterize call registers a machine twice** (`cluster_repeated`).
  `AddInstanceToState` appends without looking for the machine. With the second
  entry the list reaches the target while a machine is still missing; the script
  is then made for a list with a duplicate. A call that waits for the lease or
  for the object store's key can take longer than the gateway in front of it
  waits, which is when curl repeats it. `LastIsLastUnrepeated` proves that this is
  the only way: while no call has been repeated, the last machine is the last.
* **An error of deploy is run as the deploy script** (`cluster_deploy_error`). The
  init script asks again only while the answer is empty or the call itself
  failed. An error body comes with HTTP 200, so that it is saved and executed. The
  one failure that is repeated is the missing function key, where the handler
  answers nothing. `EveryoneJoins` shows that such a machine is replaced once
  there is a cluster; before that, it is one of the losses.

When the configured machine type changes, `scale_up` refuses the update and
returns before it scales (`scale_up.go:262`). `CapacityReached` and
`ConfigApplied` name that exception: until the type is changed back deleted
machines are not replaced.

## 5. The proofs

All are checked by TLAPS, for every value of the constants that satisfies the
assumptions of the modules. `StateStore` assumes `SizeAssumption` (the target is
within the initial size, which `functions.tf:29` and the validation of the
cluster size provide) and `ModelAssumption` (placeholders are no handlers and no
operations); `ScaleSet` assumes
`ScaleSetAssumption`, `ScaleDown` `ScaleDownAssumption`, `Clusterization`
`ClusterizationAssumption`. No theorem bounds the number of handlers, runs,
machines or failures.

| Theorem | Statement | Assumption |
|---|---|---|
| `StateStoreProofs!TypeCorrect` | `Spec => []TypeOK` | - |
| `RegistrationSafe` | `Spec => []RegistrationInv` | `~Stalls` |
| `OneClusterizer` | `Spec => []SingleClusterizer` | `~Stalls` |
| `RegistrationsStay` | `Spec => []RegistrationsKept` | `~Stalls` |
| `RegistrationRefined` | `Spec => ImplementsRegistration` | `~Stalls` |
| `ClusterizedForGood` | `Spec => StaysClusterized` | `~Stalls` |
| `NeverOverfilled` | `Spec => []NoOverfill` | - |
| `SectionFresh` | `Spec => []FreshInSection` | `~Stalls`, `"resize" \notin Ops` |
| `ReportsStay` | `Spec => []ReportsKept` | `~Stalls`, `"resize" \notin Ops` |
| `UpdatesStay` | `Spec => []UpdatesKept` | `~Stalls`, `"resize" \notin Ops` |
| `StoreRefined` | `Spec => ImplementsAtomicStore` | `~Stalls`, `"resize" \notin Ops` |
| `ScaleSetProofs!TypeCorrect` | `Spec => []TypeOK` | - |
| `NeverCreatedBlindly` | `Spec => NoBlindCreation` | - |
| `ReadStaysTrue` | `Spec => []CreateInv` | - |
| `SizesAsked` | `Spec => []AskedInv` | - |
| `OnlyAskedSizesSet` | `Spec => SetsWhatWasAsked` | - |
| `GrowsTillResize` | `Spec => [][GrowsIfOneSize]_vars` | - |
| `ScaleDownProofs!TypeCorrect` | `Spec => []TypeOK` | - |
| `NeverBlind` | `Spec => []NoBlindTermination` | - |
| `UnneededStayOutside` | `Spec => []UnneededAreOutside` | `Prompt` |
| `FleetRefined` | `Spec => ImplementsFleet` | `Prompt` |
| `ClusterizationProofs!TypeCorrect` | `Spec => []TypeOK` | - |
| `FormationSafe` | `Spec => []FormationInv` | - |
| `CredentialsAccepted` | `Spec => []CredentialsWork` | - |
| `ClusterizationProofs!RegistrationRefined` | `Spec => ImplementsRegistration` | - |
| `ElectionSafe` | `Spec => []ElectionInv` | - |
| `LostForGood` | `Spec => LossIsFinal` | - |
| `EveryoneListedOnce` | `Spec => []ListedOnce` | - |
| `LastIsLastUnrepeated` | `Spec => [](repeats = 0 => LastIsLast)` | - |
| `ClusterRefined` | `Spec => ImplementsCluster` | - |

**Registration.** `SingleClusterizer` is not inductive. `RegistrationInv` adds
why it holds, in named parts: the lease excludes (`LeaseInv`); so what a handler
is about to write agrees with the blob on the list and on whether it is closed
(`FreshInv`), which holds for `resize` too, because resize only runs after the
list was closed for good, when nobody changes it; so the list grows by one at a
time and passes the target once (`ElectedInv`); and what was acknowledged is in
it (`KeptInv`). `CallInv` says what a handler's position tells of its request, and
`CreateInv` that nobody has registered while the blob may still be created.
`UploadEffect` reduces every upload to three cases (a machine joins, the list is
closed, the list stays), and `RegistrationStep` goes through the actions.
`ClusterizedForGood` follows from the refinement: the abstract specification
never reopens the list.

**Overfill.** With stalls the lease excludes nobody, and `RegistrationInv`
fails. `NoOverfill` does not need it: `SizeInv` says that every copy a handler
may write is itself within the size, so it does not matter how old it is.

**Creation of the scale set.** `CreateInv` (checked in `set_settles`) says that while
there is no scale set, what a run has read of the state still tells whether it
may create one: machines register only when there is a scale set, and a run that
is about to create one has seen a state without a cluster.

**Sizes.** No lock keeps an overtaken run from setting the capacity it read
(fourth finding). What limits the damage is that every size on its way was asked
for once: `AskedInv` follows the sizes from the state into the runs and says that
the capacity is never above all of them. Both `Put` and `SetCapacity` then set a
size that was asked for, and where they remove machines a larger one was asked
for too (`SetsWhatWasAsked`). Where no other size than the initial one was ever
asked for no run removes a machine (`GrowsTillResize`); the finding needs a resize.

**Reports and updates.** Without `resize` every writer of an existing blob holds
the lease. `CopyInv` says that what such a handler has read is what the blob
holds, in every field, from its read to its write; an acknowledged report was
either written or is what the handler is about to write (`Recorded`), and no other
write can come in between. With `resize` the claim is false (first finding).

**The store is atomic.** From the same invariant follows that each step of a handler
is one of `AtomicStore` (`AtomicStep`, a step per action). Only an upload changes the
state, and since what was read is what the blob still holds, uploading the changed
copy is the effect of the request on the state (`UploadIsEffect`). `BlankInv` adds
that a blob that a late creation may still write over has its initial content, so
that nobody sees the creation, and that a handler about to write is going to answer
with success.

**The scale-down workflow.** `UnneededAreOutside` is about the machine a run is
about to delete, and speaks of lists read long before. `OutsideInv` follows them
backwards: whatever a run may still condemn (`Deletable`: what the library wants
removed, and what was past its grace when listed and is not among the hosts) is
out of the cluster for good (`Out`): no member, and retired or too old to join.
`Prompt` is what keeps the old machines out; the proof shows where it is needed
(`Age`). `BlindInv` says that a run past the check of the request has hosts, so
that an error body, which has none, never gets there.

**Sentences.** `FleetRefined` adds `SentenceInv`: a run means to delete something only
while it is at the deletions, and only machines it has listed. A machine that boots
is therefore under no sentence, and by `OutsideInv` a machine that joins is under none
as unneeded. Each step of a run either passes no sentence (`Lenient`), or lists the
machines (`ListingStep`), or chooses the unneeded ones (`ChoosingStep`); `RunFleet`
finds the step of `Fleet` for each action. Any number of runs may overlap.

**Formation.** `CredentialsWork` relates the vault to the cluster at all later
times, and a second election would break it. `FormationInv` says why there is
none: once somebody was elected the open list is at least as long as the target,
so that no append reaches the target again. The rest orders the steps: a machine
has the script that forms the cluster only when both passwords are stored and the
handler is done, and the cluster is closed only when it has been formed. A crash
of the elected machine, or an answer that is lost, only stops this chain.

**Election.** `ElectionInv` describes the elected machine and its list in full: the
list is the part of the open list that reached the target, only that machine asks,
forms and reports, and there are no members and no password of a cluster before it
is formed. It is inductive together with `FormationInv`.

**Losses.** `LossIsFinal` is proved disjunct by disjunct. A former that stopped is on
the list for good, because only `Finalize` changes its first entries, and an id on it is not
given to another machine; the elected machine never gets its script a
second time, since no call completes the list again; and only the machine that formed
the cluster reports it. A loss of one kind may turn into one of another kind, never
into none.

**Listed once.** A machine calls clusterize from the registering script, once unless the
call is repeated; so it is not on the list when it is appended to it. `ListedOnce` holds
only while `repeats = 0`, and so does what follows from it, that the list of the
election has as many machines as entries (`LastIsLastUnrepeated`).

**The cluster.** `ClusterRefined` maps each step to one of `WekaCluster`. `Form` has as
many machines as the target because the script succeeds only when every machine of the
list is listed once (a cardinality, from `ElectedList`); `Leave` never takes the last
member because `Terminate` needs a running one to log in to.

### Only model-checked

* Liveness: `Answered`, `LeaseComesFree`, `MembersGetProtected`, `UnneededGo`,
  `CapacityReached`, `ConfigApplied`, `FormationSurvives`, `EveryoneJoins` (temporal
  reasoning under fairness is out of the prover's reach).
* Every invariant, every action property and every refinement of the passing runs is
  proved. `ImplementsAtomicStore` and `ImplementsFleet` are checked with three handlers
  and with one run, and proved for any number.

## 6. Not modelled

* The NFS gateways: `doNFSClusterize`, the second half of `scale_up` and
  `terminate`, the tags. Their state blob and scale set go through the operations
  modelled here; how they relate to the hosts the scale-down step reports is up to
  the library, which is not in the repository.
* The scripts of the SMB and S3 gateways (`deploy.go`): text without state.
* `protect` and the loop of `RetrySetDeletionProtectionAndReport`: the scripts
  are given a function that does not call it (`functions_def.go:26`). The single
  attempt `terminate` makes is in `ScaleDown`.
* `status`, `debug`: they change nothing.
* `getGateway` (`deploy.go:279`): a carry over bytes that only a /32 network could
  reach, which Azure does not allow for a subnet.
* Azure helpers for role assignments and private endpoints; the shell text of
  the init script beyond its calls; Terraform.
* Names, formats, logging, the contents of credentials.
* Wall-clock time: leases and grace times are modelled by when they may end.

## 7. Plan

Done: `StateStore`, `ScaleDown`, `ScaleSet`, `Clusterization`, the abstract
specifications `Registration`, `AtomicStore`, `Fleet` and `WekaCluster`, and the proofs
about each. Left, in this order:

1. A composition of `StateStore` and `ScaleSet`: the lost resize of section 4
   together with the scale set, where `scale_up` works from a size that was taken
   back.
2. The NFS scale set as a second instance of `ScaleSet` and `ScaleDown`, with the
   operator-visible promise that NFS machines are not scaled down
   (`fetch.go:25`).
3. Liveness of `Clusterization` for a larger instance (`InitialSize` 4, target 3),
   if its state space allows.
