----------------------------- MODULE StateStore -----------------------------
(***************************************************************************)
(* The cluster state blob, the container lease that is meant to serialise  *)
(* its read-modify-write cycles, and the function-app handlers that run    *)
(* them concurrently (function-app/code/common/common.go).                 *)
(*                                                                         *)
(* One handler is one HTTP request being served.  Every call it makes to   *)
(* the storage service is a step of its own, so that the steps of several  *)
(* handlers interleave as Go's HTTP server lets them.  The lease is taken  *)
(* for 60 seconds and never renewed, and a blob write does not present it: *)
(* the constant Stalls says whether a handler may be delayed long enough,  *)
(* between two of its steps, to outlive the lease.                         *)
(***************************************************************************)
EXTENDS Naturals, Sequences

CONSTANTS
  Handlers,               \* the requests that can be served at one time
  VMs,                    \* the virtual machines that call clusterize
  Reports,                \* what the report endpoint is asked to record
  Updates,                \* what a scale set update leaves in the state
  Sizes,                  \* the values resize is called with
  InitialSize,            \* INITIAL_CLUSTER_SIZE
  ClusterizationTarget,   \* CLUSTERIZATION_TARGET
  Ops,                    \* the operations this instance exercises
  Stalls,                 \* a handler may stall past its lease
  Free, Orphaned, None

\* functions.tf:29 keeps the default target within the cluster's size.
ASSUME SizeAssumption ==
  /\ InitialSize \in Nat \ {0}
  /\ ClusterizationTarget \in 1..InitialSize
  /\ Sizes \subseteq Nat

LockedOps == {"clusterize", "finalize", "report", "update"}
UnlockedOps == {"resize", "create"}

ASSUME ModelAssumption ==
  /\ Ops \subseteq LockedOps \cup UnlockedOps
  /\ Stalls \in BOOLEAN
  /\ Free \notin Handlers /\ Orphaned \notin Handlers /\ Free # Orphaned
  /\ None \notin LockedOps \cup UnlockedOps

\* A request: the operation and its argument.
Calls ==
  { c \in  [op : {"clusterize"}, arg : VMs]
      \cup [op : {"report"}, arg : Reports]
      \cup [op : {"update"}, arg : Updates]
      \cup [op : {"resize"}, arg : Sizes]
      \cup [op : {"finalize", "create"}, arg : {None}] : c.op \in Ops }

ClusterStates ==
  [instances : Seq(VMs), clusterized : BOOLEAN, desired : Nat,
   reports : SUBSET Reports, updates : SUBSET Updates]

\* What terraform uploads, and what scale_up writes when there is no blob.
InitialState ==
  [instances |-> <<>>, clusterized |-> FALSE, desired |-> InitialSize,
   reports |-> {}, updates |-> {}]

VARIABLES
  exists,   \* the state blob exists
  state,    \* its content (InitialState while it does not exist)
  lease,    \* the handler holding the container lease, Free, or Orphaned
  pc,       \* where each handler is
  call,     \* the request each handler serves
  snap,     \* the state each handler has read
  outcome,  \* what the handler will answer: "ok", "shutdown" or "error"
  acked,    \* history: the requests that were answered with success
  elected   \* history: how often a caller became the one to form the cluster
            \* (2 stands for twice or more)

vars == <<exists, state, lease, pc, call, snap, outcome, acked, elected>>

NoCall == [op |-> None, arg |-> None]

Init ==
  /\ exists \in BOOLEAN /\ ("create" \notin Ops => exists)
  /\ state = InitialState
  /\ lease = Free
  /\ pc = [h \in Handlers |-> "idle"]
  /\ call = [h \in Handlers |-> NoCall]
  /\ snap = [h \in Handlers |-> InitialState]
  /\ outcome = [h \in Handlers |-> "ok"]
  /\ acked = {}
  /\ elected = 0

-----------------------------------------------------------------------------
(* Requests.                                                               *)

\* Clusterize, finalize and report come from the virtual machines, update
\* from a scale_up run after them: none of them comes before the scale set
\* exists, minutes after the run that creates the state has read it.  Only
\* the script handed to the last machine calls finalize.
CanBeCalled(c) ==
  /\ c.op \in LockedOps =>
       exists /\ (Stalls \/ \A g \in Handlers : pc[g] # "create")
  /\ c.op = "finalize" => elected > 0

\* Mutants of FirstStep: a report, or a registration, goes ahead without the
\* lease; the initial state is written without asking whether there is one.
ReportsUnlocked(c) ==
  IF c.op \in LockedOps \ {"report"} THEN "lock"
  ELSE IF c.op = "create" THEN "check" ELSE "read"

RegistersUnlocked(c) ==
  IF c.op \in LockedOps \ {"clusterize"} THEN "lock"
  ELSE IF c.op = "create" THEN "check" ELSE "read"

CreatesUnasked(c) ==
  IF c.op \in LockedOps THEN "lock"
  ELSE IF c.op = "create" THEN "create" ELSE "read"

FirstStep(c) ==
  IF c.op \in LockedOps THEN "lock"
  ELSE IF c.op = "create" THEN "check" ELSE "read"

Call(h) ==
  /\ pc[h] = "idle"
  /\ \E c \in Calls :
       /\ CanBeCalled(c)
       /\ call' = [call EXCEPT ![h] = c]
       /\ pc' = [pc EXCEPT ![h] = FirstStep(c)]
  /\ UNCHANGED <<exists, state, lease, snap, outcome, acked, elected>>

-----------------------------------------------------------------------------
(* The lease.                                                              *)

Acquire(h) ==
  /\ pc[h] = "lock"
  /\ lease = Free
  /\ lease' = h
  /\ pc' = [pc EXCEPT ![h] = "read"]
  /\ UNCHANGED <<exists, state, call, snap, outcome, acked, elected>>

\* Mutant of GiveUp: the attempts never run out.
KeepTrying(h) == pc[h] = "lock" /\ UNCHANGED vars

\* The attempts run out, or the service answers with another error: the
\* handler never held the lease and returns the error.
GiveUp(h) ==
  /\ pc[h] = "lock"
  /\ pc' = [pc EXCEPT ![h] = "idle"]
  /\ call' = [call EXCEPT ![h] = NoCall]
  /\ UNCHANGED <<exists, state, lease, snap, outcome, acked, elected>>

\* Azure frees a lease 60 seconds after it was taken.
Expire ==
  /\ \/ lease = Orphaned
     \/ Stalls /\ lease \in Handlers
  /\ lease' = Free
  /\ UNCHANGED <<exists, state, pc, call, snap, outcome, acked, elected>>

-----------------------------------------------------------------------------
(* Read-modify-write.                                                      *)

\* Mutant of Verdict: the check for a full cluster is off by one.
VerdictOffByOne(c, s) ==
  IF c.op = "clusterize" /\ (Len(s.instances) > InitialSize \/ s.clusterized)
  THEN "shutdown"
  ELSE IF c.op = "resize" /\ ~s.clusterized THEN "error" ELSE "ok"

\* Why a handler that has read s does not go on to write, or "ok".
Verdict(c, s) ==
  IF c.op = "clusterize" /\ (Len(s.instances) >= InitialSize \/ s.clusterized)
  THEN "shutdown"
  ELSE IF c.op = "resize" /\ ~s.clusterized THEN "error" ELSE "ok"

\* Mutants of Applied: the update goes to the wrong field; a report replaces
\* the others; the cluster is not marked as formed.
UpdateMisplaced(c, s) ==
  CASE c.op = "clusterize" -> [s EXCEPT !.instances = Append(@, c.arg)]
    [] c.op = "finalize"   -> [s EXCEPT !.instances = <<>>, !.clusterized = TRUE]
    [] c.op \in {"report", "update"} -> [s EXCEPT !.reports = @ \cup {c.arg}]
    [] c.op = "resize"     -> [s EXCEPT !.desired = c.arg]
    [] OTHER               -> InitialState

ReportReplaces(c, s) ==
  CASE c.op = "clusterize" -> [s EXCEPT !.instances = Append(@, c.arg)]
    [] c.op = "finalize"   -> [s EXCEPT !.instances = <<>>, !.clusterized = TRUE]
    [] c.op = "report"     -> [s EXCEPT !.reports = {c.arg}]
    [] c.op = "update"     -> [s EXCEPT !.updates = @ \cup {c.arg}]
    [] c.op = "resize"     -> [s EXCEPT !.desired = c.arg]
    [] OTHER               -> InitialState

StaysOpen(c, s) ==
  CASE c.op = "clusterize" -> [s EXCEPT !.instances = Append(@, c.arg)]
    [] c.op = "finalize"   -> [s EXCEPT !.instances = <<>>]
    [] c.op = "report"     -> [s EXCEPT !.reports = @ \cup {c.arg}]
    [] c.op = "update"     -> [s EXCEPT !.updates = @ \cup {c.arg}]
    [] c.op = "resize"     -> [s EXCEPT !.desired = c.arg]
    [] OTHER               -> InitialState

Applied(c, s) ==
  CASE c.op = "clusterize" -> [s EXCEPT !.instances = Append(@, c.arg)]
    [] c.op = "finalize"   -> [s EXCEPT !.instances = <<>>, !.clusterized = TRUE]
    [] c.op = "report"     -> [s EXCEPT !.reports = @ \cup {c.arg}]
    [] c.op = "update"     -> [s EXCEPT !.updates = @ \cup {c.arg}]
    [] c.op = "resize"     -> [s EXCEPT !.desired = c.arg]
    [] OTHER               -> InitialState

Read(h) ==
  /\ pc[h] = "read"
  /\ exists
  /\ snap' = [snap EXCEPT ![h] = state]
  /\ outcome' = [outcome EXCEPT ![h] = Verdict(call[h], state)]
  /\ pc' = [pc EXCEPT ![h] =
              IF Verdict(call[h], state) = "ok" THEN "write" ELSE "return"]
  /\ UNCHANGED <<exists, state, lease, call, acked, elected>>

\* The read fails, or there is no blob to read.
ReadFails(h) ==
  /\ pc[h] = "read"
  /\ outcome' = [outcome EXCEPT ![h] = "error"]
  /\ pc' = [pc EXCEPT ![h] = "return"]
  /\ UNCHANGED <<exists, state, lease, call, snap, acked, elected>>

\* EnsureStateIsCreated asks whether the blob exists; when it does not it
\* goes on to write the initial state, whatever has happened in between.
CheckExists(h) ==
  /\ pc[h] = "check"
  /\ outcome' = [outcome EXCEPT ![h] = "ok"]
  /\ pc' = [pc EXCEPT ![h] = IF exists THEN "return" ELSE "create"]
  /\ UNCHANGED <<exists, state, lease, call, snap, acked, elected>>

\* Mutant of IsLast: everyone from the target on forms the cluster.
IsLastOrLater(c, s) ==
  c.op = "clusterize" /\ Len(Applied(c, s).instances) >= ClusterizationTarget

\* The caller that brings the list to the target forms the cluster.
IsLast(c, s) ==
  c.op = "clusterize" /\ Len(Applied(c, s).instances) = ClusterizationTarget

Write(h) ==
  /\ pc[h] \in {"write", "create"}
  /\ exists' = TRUE
  /\ state' = Applied(call[h], snap[h])
  /\ elected' = IF IsLast(call[h], snap[h]) /\ elected < 2
                THEN elected + 1 ELSE elected
  /\ pc' = [pc EXCEPT ![h] = "return"]
  /\ UNCHANGED <<lease, call, snap, outcome, acked>>

\* The upload reports an error; it may have taken effect all the same.
WriteFails(h) ==
  /\ pc[h] \in {"write", "create"}
  /\ \/ UNCHANGED <<exists, state>>
     \/ exists' = TRUE /\ state' = Applied(call[h], snap[h])
  /\ outcome' = [outcome EXCEPT ![h] = "error"]
  /\ pc' = [pc EXCEPT ![h] = "return"]
  /\ UNCHANGED <<lease, call, snap, acked, elected>>

-----------------------------------------------------------------------------
(* The answer.  UnlockContainer is deferred and its error ignored: a lease *)
(* that was not released stays until it expires.                           *)

Done(h) ==
  /\ pc' = [pc EXCEPT ![h] = "idle"]
  /\ call' = [call EXCEPT ![h] = NoCall]
  /\ snap' = [snap EXCEPT ![h] = InitialState]
  /\ outcome' = [outcome EXCEPT ![h] = "ok"]
  /\ UNCHANGED <<exists, state, elected>>

\* Mutant of Return: the error path answers before the release is deferred.
KeepsOnError(h) ==
  /\ pc[h] = "return"
  /\ lease' \in IF lease = h /\ outcome[h] # "error" THEN {Free, Orphaned} ELSE {lease}
  /\ acked' = IF outcome[h] = "ok" THEN acked \cup {call[h]} ELSE acked
  /\ Done(h)

Return(h) ==
  /\ pc[h] = "return"
  /\ lease' \in IF lease = h THEN {Free, Orphaned} ELSE {lease}
  /\ acked' = IF outcome[h] = "ok" THEN acked \cup {call[h]} ELSE acked
  /\ Done(h)

\* The function host is restarted or the request times out: nothing is
\* released and nothing is answered.  The caller may well try again
\* (curl --retry 10 in functions_def.go), which is another Call.
Crash(h) ==
  /\ pc[h] # "idle"
  /\ lease' = IF lease = h THEN Orphaned ELSE lease
  /\ acked' = acked
  /\ Done(h)

-----------------------------------------------------------------------------
Step(h) ==
  \/ Acquire(h) \/ GiveUp(h)
  \/ Read(h) \/ ReadFails(h) \/ CheckExists(h)
  \/ Write(h) \/ WriteFails(h)
  \/ Return(h)

Next ==
  \/ \E h \in Handlers : Call(h) \/ Step(h) \/ Crash(h)
  \/ Expire

Spec == Init /\ [][Next]_vars

\* A handler that runs keeps running, and Azure ends a lease whose holder is
\* gone.  That it ends the lease of a running handler is possible, and not
\* counted on.
FairSpec ==
  /\ Spec
  /\ \A h \in Handlers : WF_vars(Step(h))
  /\ WF_vars(lease = Orphaned /\ Expire)

-----------------------------------------------------------------------------
(* Properties.                                                             *)

TypeOK ==
  /\ exists \in BOOLEAN
  /\ state \in ClusterStates
  /\ lease \in Handlers \cup {Free, Orphaned}
  /\ pc \in [Handlers -> {"idle", "lock", "check", "read", "write", "create", "return"}]
  /\ call \in [Handlers -> Calls \cup {NoCall}]
  /\ snap \in [Handlers -> ClusterStates]
  /\ outcome \in [Handlers -> {"ok", "shutdown", "error"}]
  /\ acked \subseteq Calls
  /\ elected \in 0..2
  /\ \A h \in Handlers : pc[h] # "idle" => call[h] \in Calls

\* At most one caller of clusterize is ever told that it is the last one and
\* forms the cluster (clusterize.go:329): two would build two clusters and
\* each would overwrite the other's passwords.
SingleClusterizer == elected <= 1

Registered(v) == \E i \in DOMAIN state.instances : state.instances[i] = v

\* A virtual machine whose registration was answered with success is in the
\* list the last one builds the cluster from, until the cluster is formed.
RegistrationsKept ==
  \A c \in acked :
    c.op = "clusterize" /\ ~state.clusterized => Registered(c.arg)

\* No more machines are registered than the cluster was sized for.
NoOverfill == Len(state.instances) <= InitialSize

\* Once clusterized, for good: no stale write brings the cluster back to the
\* registration phase (where new machines would be told to deploy afresh).
StaysClusterized == [][state.clusterized => state'.clusterized]_vars

\* The registration phase as its callers see it: whatever the interleaving of
\* storage calls, every handler adds its machine, or closes the phase, in one
\* atomic step.
Atomic == INSTANCE Registration WITH
            instances <- state.instances, clusterized <- state.clusterized
ImplementsRegistration == Atomic!Spec

\* A report answered "The report was added successfully" (report.go:119) is
\* in the state, and so is a recorded scale set update.
ReportsKept ==
  \A c \in acked : c.op = "report" => c.arg \in state.reports

UpdatesKept ==
  \A c \in acked : c.op = "update" => c.arg \in state.updates

\* The desired size moves only when a resize writes it: what resize answered
\* ("Updated the desired cluster size to %d successfully") is not undone by
\* a handler of another kind.
OnlyResizeResizes ==
  [][state'.desired # state.desired =>
       \E h \in Handlers : call[h].op = "resize" /\ pc[h] = "write"]_vars

\* The critical section: from acquiring the lease to releasing it.
InSection(h) == call[h].op \in LockedOps /\ pc[h] \in {"read", "write", "return"}

\* No handler works on a stale copy inside the critical section.
FreshInSection ==
  \A h \in Handlers : InSection(h) /\ pc[h] = "write" => snap[h] = state

\* What the handlers that take the lease promise together, resize left out: the
\* store looks as if each of their requests took effect in one atomic step
\* while it was served, once if it is answered with success and at most once
\* if it is not.  Creating the blob is not seen at all.
Serving(h) ==
  /\ call[h].op \in LockedOps
  /\ pc[h] \in {"lock", "read", "write"} \/ (pc[h] = "return" /\ outcome[h] = "ok")

Store == INSTANCE AtomicStore WITH
           Requests <- {c \in Calls : c.op \in LockedOps},
           NoRequest <- NoCall,
           instances <- state.instances, clusterized <- state.clusterized,
           reports <- state.reports, updates <- state.updates,
           request <- [h \in Handlers |-> IF Serving(h) THEN call[h] ELSE NoCall],
           done <- {h \in Handlers : Serving(h) /\ pc[h] = "return"},
           acked <- {c \in acked : c.op \in LockedOps}
ImplementsAtomicStore == Store!Spec

-----------------------------------------------------------------------------
(* Why the registration phase is safe when no handler stalls.              *)

\* What the position of a handler says about the request it serves.
CallInv ==
  \A h \in Handlers : pc[h] # "idle" =>
    /\ pc[h] = "lock" => call[h].op \in LockedOps
    /\ pc[h] \in {"check", "create"} => call[h].op = "create"
    /\ pc[h] \in {"read", "write"} => call[h].op # "create"
    /\ call[h].op = "finalize" => elected = 1

\* The lease is a mutual exclusion lock for the handlers that take it.
LeaseInv == \A h \in Handlers : pc[h] # "idle" /\ InSection(h) => lease = h

\* Every handler about to write, resize included, agrees with the blob on the
\* list and on whether it is closed, and still has the right to go on.
FreshInv ==
  \A h \in Handlers : pc[h] = "write" =>
    /\ snap[h].instances = state.instances
    /\ snap[h].clusterized = state.clusterized
    /\ Verdict(call[h], snap[h]) = "ok"

\* Until the blob has been created for the last time nobody registers.
CreateInv ==
  ~exists \/ (\E h \in Handlers : pc[h] = "create") =>
    /\ state.instances = <<>> /\ ~state.clusterized /\ elected = 0
    /\ \A h \in Handlers : pc[h] # "idle" => call[h].op \notin LockedOps

\* The list only passes the target once, because it is closed before it is
\* emptied.
ElectedInv ==
  /\ elected <= 1
  /\ elected = 1 =>
       state.clusterized \/ Len(state.instances) >= ClusterizationTarget
  /\ state.clusterized => elected = 1 /\ state.instances = <<>>

KeptInv ==
  ~state.clusterized =>
    /\ \A c \in acked : c.op = "clusterize" => Registered(c.arg)
    /\ \A h \in Handlers :
         pc[h] = "return" /\ outcome[h] = "ok" /\ call[h].op = "clusterize" =>
           Registered(call[h].arg)

RegistrationInv ==
  /\ CallInv /\ LeaseInv /\ FreshInv /\ CreateInv /\ ElectedInv /\ KeptInv

-----------------------------------------------------------------------------
(* Liveness.                                                               *)

\* Every request is answered, or lost with its handler.
Answered == \A h \in Handlers : pc[h] # "idle" ~> pc[h] = "idle"

\* The lease always comes free again, and not by running out under a handler:
\* whatever fails inside the section, every way out of it releases the lease
\* or leaves it to nobody (the deferred UnlockContainer, common.go:445).
LeaseComesFree == []<>(lease = Free)
=============================================================================
