-------------------------- MODULE ScaleDownProofs ---------------------------
(* What ScaleDown guarantees for any number of machines, of overlapping runs *)
(* and of failing calls.                                                     *)
EXTENDS ScaleDown, TLAPS

-----------------------------------------------------------------------------
(* Types.                                                                  *)

\* A run that goes to a state leaves every run in one.
LEMMA GotoType ==
  ASSUME TypeOK, NEW w \in Runs, NEW r \in RunStates, Goto(w, r)
  PROVE  run' \in [Runs -> RunStates]
BY DEF Goto, TypeOK

\* The state a run begins with is one.
LEMMA NoRunType == NoRun \in RunStates
  BY DEF NoRun, RunStates, Steps

\* So is what a failing handler leaves to the next step.
LEMMA FailedType ==
  ASSUME NEW next \in Steps
  PROVE  [NoRun EXCEPT !.at = next, !.ok = FALSE] \in RunStates
BY DEF NoRun, RunStates, Steps

\* A failing handler keeps the types.
LEMMA FailsType ==
  ASSUME TypeOK, NEW w \in Runs, NEW next \in Steps, Fails(w, next)
  PROVE  TypeOK'
<1>1. run' \in [Runs -> RunStates]
  BY FailedType, GotoType DEF Fails
<1>2. failures' \in 0..MaxFailures
  BY ScaleDownAssumption DEF Fails, TypeOK
<1> QED
  BY <1>1, <1>2 DEF Fails, TypeOK

\* A run that only goes on in a state keeps the types.
LEMMA GoesOnType ==
  ASSUME TypeOK, NEW w \in Runs, NEW r \in RunStates, Goto(w, r),
         UNCHANGED <<fleet, members, retired, failures>>
  PROVE  TypeOK'
<1>1. run' \in [Runs -> RunStates]
  BY GotoType
<1> QED
  BY <1>1 DEF fleet, TypeOK

\* The initial state is well typed.
LEMMA InitType == Init => TypeOK
<1> SUFFICES ASSUME Init PROVE TypeOK
  OBVIOUS
<1>1. run \in [Runs -> RunStates]
  BY NoRunType DEF Init
<1> QED
  BY <1>1, ScaleDownAssumption DEF Init, TypeOK

\* The environment keeps the types.
LEMMA EnvironmentType ==
  ASSUME TypeOK, NEW v \in VMs,
         Boot(v) \/ Age(v) \/ Change(v) \/ Join(v) \/ JoinFinalization(v)
  PROVE  TypeOK'
<1>1. CASE Boot(v)
  BY <1>1, ScaleDownAssumption DEF Boot, TypeOK
<1>2. CASE Age(v)
  BY <1>2 DEF Age, TypeOK
<1>3. CASE Change(v)
  BY <1>3 DEF Change, TypeOK
<1>4. CASE Join(v)
  BY <1>4 DEF Join, TypeOK
<1>5. CASE JoinFinalization(v)
  BY <1>5 DEF JoinFinalization, TypeOK
<1> QED
  BY <1>1, <1>2, <1>3, <1>4, <1>5

\* Every step of a run keeps the types.
LEMMA RunType ==
  ASSUME TypeOK, NEW w \in Runs, RunStep(w)
  PROVE  TypeOK'
<1> DEFINE r == run[w]
<1>a. r \in RunStates
  BY DEF TypeOK
<1>b. {"fetch", "scale_down", "terminate", "delete", "protect", "transient"} = Steps
  BY DEF Steps
<1>1. CASE Fetch(w)
  <2>1. [NoRun EXCEPT !.at = "scale_down", !.fetched = vms] \in RunStates
    BY DEF TypeOK, NoRun, RunStates, Steps
  <2> QED
    BY <1>1, <1>b, <2>1, GoesOnType, FailsType DEF Fetch
<1>2. CASE ScaleDownStep(w)
  <2>1. CASE ScaleDownOK(w)
    <3>1. PICK R \in SUBSET members :
            /\ members' = members \ R
            /\ retired' = retired \cup (R \cap vms)
            /\ Goto(w, [r EXCEPT !.at = "terminate", !.hosts = members \ R,
                                 !.toTerminate = R \cap r.fetched])
      BY <2>1 DEF ScaleDownOK
    <3>2. [r EXCEPT !.at = "terminate", !.hosts = members \ R,
                    !.toTerminate = R \cap r.fetched] \in RunStates
      BY <1>a DEF TypeOK, RunStates, Steps
    <3>3. run' \in [Runs -> RunStates]
      BY <3>1, <3>2, GotoType
    <3> QED
      BY <2>1, <3>1, <3>3 DEF ScaleDownOK, fleet, TypeOK
  <2>2. CASE ScaleDownRefuses(w)
    BY <1>b, <2>2, FailedType, GoesOnType DEF ScaleDownRefuses
  <2>3. CASE Fails(w, "terminate")
    BY <1>b, <2>3, FailsType
  <2> QED
    BY <1>2, <2>1, <2>2, <2>3 DEF ScaleDownStep
<1>3. CASE TerminateStep(w)
  <2>1. CASE ListVMs(w)
    <3>1. [r EXCEPT
             !.at = "delete", !.surplus = FALSE, !.listed = vms,
             !.aged = {v \in old : status[v] # "failed"},
             !.powered = {v \in vms : status[v] \in Powered},
             !.unprotected = vms \ protected,
             !.victims = {v \in vms : status[v] \in Doomed}] \in RunStates
      BY <1>a DEF TypeOK, RunStates, Steps
    <3> QED
      BY <2>1, <3>1, GoesOnType DEF ListVMs
  <2>2. CASE TerminateRefuses(w)
    BY <1>b, <2>2, FailedType, GoesOnType DEF TerminateRefuses
  <2>3. CASE Fails(w, "transient")
    BY <1>b, <2>3, FailsType
  <2> QED
    BY <1>3, <2>1, <2>2, <2>3 DEF TerminateStep
<1>4. CASE Unprotect(w)
  <2>1. PICK v \in r.victims :
          \/ /\ v \in vms
             /\ protected' = protected \ {v}
             /\ Goto(w, [r EXCEPT !.victims = @ \ {v}, !.victim = v])
             /\ UNCHANGED failures
          \/ /\ v \notin vms \/ failures < MaxFailures
             /\ failures' = IF v \in vms THEN failures + 1 ELSE failures
             /\ Goto(w, [r EXCEPT !.victims = @ \ {v}])
             /\ UNCHANGED protected
    BY <1>4 DEF Unprotect
  <2>2. /\ [r EXCEPT !.victims = @ \ {v}, !.victim = v] \in RunStates
        /\ [r EXCEPT !.victims = @ \ {v}] \in RunStates
    BY <1>a DEF RunStates
  <2>3. run' \in [Runs -> RunStates]
    BY <2>1, <2>2, GotoType
  <2>4. failures' \in 0..MaxFailures
    BY <2>1, ScaleDownAssumption DEF TypeOK
  <2> QED
    BY <1>4, <2>1, <2>3, <2>4 DEF Unprotect, TypeOK
<1>5. CASE Delete(w)
  <2>1. [r EXCEPT !.victim = None] \in RunStates
    BY <1>a DEF RunStates
  <2>2. run' \in [Runs -> RunStates]
    BY <1>5, <2>1, GotoType DEF Delete
  <2>3. failures' \in 0..MaxFailures
    BY <1>5, ScaleDownAssumption DEF Delete, TypeOK
  <2>4. vms' \subseteq VMs /\ old' \subseteq vms'
    BY <1>5 DEF Delete, TypeOK
  <2> QED
    BY <1>5, <2>2, <2>3, <2>4 DEF Delete, TypeOK
<1>6. CASE Delta(w)
  <2>1. [r EXCEPT !.at = "protect", !.delta = vms \ r.hosts] \in RunStates
    BY <1>a DEF TypeOK, RunStates, Steps
  <2> QED
    BY <1>6, <1>b, <2>1, GoesOnType, FailsType DEF Delta
<1>7. CASE Protect(w)
  <2>1. PICK v \in r.unprotected :
          /\ \/ v \in vms /\ protected' = protected \cup {v} /\ UNCHANGED failures
             \/ v \notin vms /\ UNCHANGED <<protected, failures>>
             \/ /\ failures < MaxFailures /\ failures' = failures + 1
                /\ UNCHANGED protected
          /\ Goto(w, [r EXCEPT !.unprotected = @ \ {v}])
    BY <1>7 DEF Protect
  <2>2. [r EXCEPT !.unprotected = @ \ {v}] \in RunStates
    BY <1>a DEF RunStates
  <2>3. run' \in [Runs -> RunStates]
    BY <2>1, <2>2, GotoType
  <2>4. failures' \in 0..MaxFailures /\ protected' \subseteq VMs
    BY <1>a, <2>1, ScaleDownAssumption DEF TypeOK, RunStates
  <2> QED
    BY <1>7, <2>3, <2>4 DEF Protect, TypeOK
<1>8. CASE Choose(w)
  <2>1. [r EXCEPT !.at = "delete", !.surplus = TRUE, !.victims = Unneeded(r)] \in RunStates
    BY <1>a DEF Unneeded, RunStates, Steps
  <2> QED
    BY <1>8, <2>1, GoesOnType DEF Choose
<1>9. CASE Finish(w)
  <2>1. [NoRun EXCEPT !.at = "transient"] \in RunStates
    BY DEF NoRun, RunStates, Steps
  <2> QED
    BY <1>9, <2>1, GoesOnType DEF Finish
<1>10. CASE Transient(w)
  BY <1>10, NoRunType, GoesOnType DEF Transient
<1> QED
  BY <1>1, <1>2, <1>3, <1>4, <1>5, <1>6, <1>7, <1>8, <1>9, <1>10 DEF RunStep

\* Every step keeps the types.
LEMMA NextType == TypeOK /\ [Next]_vars => TypeOK'
<1>1. TypeOK /\ UNCHANGED vars => TypeOK'
  BY DEF vars, TypeOK
<1> QED
  BY <1>1, EnvironmentType, RunType DEF Next, Environment

\* Every variable keeps its type: among the machines a run means to delete or
\* to protect there is never one that has no id.
THEOREM TypeCorrect == Spec => []TypeOK
<1> QED
  BY InitType, NextType, PTL DEF Spec

-----------------------------------------------------------------------------
(* Error bodies.                                                           *)

\* Only the run that goes on changes.
LEMMA GotoEffect ==
  ASSUME TypeOK, NEW w \in Runs, NEW r, Goto(w, r)
  PROVE  run'[w] = r /\ \A x \in Runs \ {w} : run'[x] = run[x]
BY DEF Goto, TypeOK

\* What BlindInv says of one run.
Sighted(r) ==
  /\ r.hosts # {} => r.ok
  /\ r.hosts \cap r.toTerminate = {}
  /\ r.at \in {"delete", "protect"} => r.hosts # {}

\* The state a run begins with, and what a failing handler leaves, know no host.
LEMMA FreshSighted ==
  /\ Sighted(NoRun)
  /\ \A next \in {"scale_down", "terminate", "transient"} :
       Sighted([NoRun EXCEPT !.at = next, !.ok = FALSE])
  /\ \A S : Sighted([NoRun EXCEPT !.at = "scale_down", !.fetched = S])
  /\ Sighted([NoRun EXCEPT !.at = "transient"])
  BY DEF Sighted, NoRun

\* A run that goes on keeps what BlindInv says of it.
LEMMA SightedStep ==
  ASSUME TypeOK, NEW w \in Runs, RunStep(w), Sighted(run[w])
  PROVE  Sighted(run'[w]) /\ \A x \in Runs \ {w} : run'[x] = run[x]
<1> DEFINE r == run[w]
<1>a. r \in RunStates
  BY DEF TypeOK
<1>b. ASSUME NEW next \in {"scale_down", "terminate", "transient"}, Fails(w, next)
      PROVE  Sighted(run'[w]) /\ \A x \in Runs \ {w} : run'[x] = run[x]
  BY <1>b, FreshSighted, GotoEffect DEF Fails
<1>1. CASE Fetch(w)
  BY <1>1, <1>b, FreshSighted, GotoEffect DEF Fetch
<1>2. CASE ScaleDownStep(w)
  <2>1. CASE ScaleDownOK(w)
    <3>1. PICK R \in SUBSET members :
            Goto(w, [r EXCEPT !.at = "terminate", !.hosts = members \ R,
                              !.toTerminate = R \cap r.fetched])
      BY <2>1 DEF ScaleDownOK
    <3>2. r.ok
      BY <2>1 DEF ScaleDownOK
    <3>3. Sighted([r EXCEPT !.at = "terminate", !.hosts = members \ R,
                            !.toTerminate = R \cap r.fetched])
      BY <1>a, <3>2 DEF Sighted, RunStates
    <3> QED
      BY <3>1, <3>3, GotoEffect
  <2>2. CASE ScaleDownRefuses(w)
    BY <2>2, FreshSighted, GotoEffect DEF ScaleDownRefuses
  <2> QED
    BY <1>2, <1>b, <2>1, <2>2 DEF ScaleDownStep
<1>3. CASE TerminateStep(w)
  <2>1. CASE ListVMs(w)
    <3> DEFINE q == [r EXCEPT
             !.at = "delete", !.surplus = FALSE, !.listed = vms,
             !.aged = {v \in old : status[v] # "failed"},
             !.powered = {v \in vms : status[v] \in Powered},
             !.unprotected = vms \ protected,
             !.victims = {v \in vms : status[v] \in Doomed}]
    <3>1. q.hosts = r.hosts /\ q.ok = r.ok /\ q.toTerminate = r.toTerminate
      BY <1>a DEF RunStates
    <3>2. r.hosts # {}
      BY <2>1 DEF ListVMs, Acceptable
    <3> HIDE DEF q
    <3>3. Sighted(q)
      BY <3>1, <3>2 DEF Sighted
    <3> QED
      BY <2>1, <3>3, GotoEffect DEF ListVMs, q
  <2>2. CASE TerminateRefuses(w)
    BY <2>2, FreshSighted, GotoEffect DEF TerminateRefuses
  <2> QED
    BY <1>3, <1>b, <2>1, <2>2 DEF TerminateStep
<1>4. CASE Unprotect(w)
  <2>1. PICK v \in r.victims :
          \/ Goto(w, [r EXCEPT !.victims = @ \ {v}, !.victim = v])
          \/ Goto(w, [r EXCEPT !.victims = @ \ {v}])
    BY <1>4 DEF Unprotect
  <2>2. /\ Sighted([r EXCEPT !.victims = @ \ {v}, !.victim = v])
        /\ Sighted([r EXCEPT !.victims = @ \ {v}])
    BY <1>a DEF Sighted, RunStates
  <2> QED
    BY <2>1, <2>2, GotoEffect
<1>5. CASE Delete(w)
  <2>1. Sighted([r EXCEPT !.victim = None])
    BY <1>a DEF Sighted, RunStates
  <2> QED
    BY <1>5, <2>1, GotoEffect DEF Delete
<1>6. CASE Delta(w)
  <2>1. r.at = "delete"
    BY <1>6 DEF Delta
  <2>2. Sighted([r EXCEPT !.at = "protect", !.delta = vms \ r.hosts])
    BY <1>a, <2>1 DEF Sighted, RunStates
  <2> QED
    BY <1>6, <1>b, <2>2, GotoEffect DEF Delta
<1>7. CASE Protect(w)
  <2>1. PICK v \in r.unprotected : Goto(w, [r EXCEPT !.unprotected = @ \ {v}])
    BY <1>7 DEF Protect
  <2>2. Sighted([r EXCEPT !.unprotected = @ \ {v}])
    BY <1>a DEF Sighted, RunStates
  <2> QED
    BY <2>1, <2>2, GotoEffect
<1>8. CASE Choose(w)
  <2>1. r.at = "protect"
    BY <1>8 DEF Choose
  <2>2. Sighted([r EXCEPT !.at = "delete", !.surplus = TRUE, !.victims = Unneeded(r)])
    BY <1>a, <2>1 DEF Sighted, RunStates
  <2> QED
    BY <1>8, <2>2, GotoEffect DEF Choose
<1>9. CASE Finish(w)
  BY <1>9, FreshSighted, GotoEffect DEF Finish
<1>10. CASE Transient(w)
  BY <1>10, FreshSighted, GotoEffect DEF Transient
<1> QED
  BY <1>1, <1>2, <1>3, <1>4, <1>5, <1>6, <1>7, <1>8, <1>9, <1>10 DEF RunStep

\* Every step keeps BlindInv.
LEMMA BlindStep == TypeOK /\ BlindInv /\ [Next]_vars => BlindInv'
<1> SUFFICES ASSUME TypeOK, BlindInv, [Next]_vars, NEW x \in Runs
             PROVE  Sighted(run'[x])
  BY DEF BlindInv, Sighted
<1>a. \A w \in Runs : Sighted(run[w])
  BY DEF BlindInv, Sighted
<1>1. CASE UNCHANGED run
  BY <1>1, <1>a
<1>2. ASSUME NEW w \in Runs, RunStep(w) PROVE Sighted(run'[x])
  BY <1>2, <1>a, SightedStep
<1> QED
  BY <1>1, <1>2 DEF Next, Environment, Boot, Age, Change, Join, JoinFinalization, vars

\* A machine is only unprotected or deleted by a run whose fetch and scale_down
\* both did their work, never on account of an error body (terminate.go:155).
THEOREM NeverBlind == Spec => []NoBlindTermination
<1>1. Init => BlindInv
  BY DEF Init, BlindInv, NoRun
<1>2. BlindInv => NoBlindTermination
  BY DEF BlindInv, NoBlindTermination
<1> QED
  BY <1>1, <1>2, BlindStep, TypeCorrect, PTL DEF Spec

-----------------------------------------------------------------------------
(* Members of the cluster.                                                 *)

\* What OutsideInv says of one run by itself, and of it and the machines.
Careful(r) ==
  /\ r.toTerminate \subseteq r.fetched /\ r.aged \subseteq r.listed
  /\ r.delta \cap r.hosts = {}
  /\ r.at \notin {"delete", "protect"} => r.aged = {} /\ r.delta = {} /\ ~r.surplus
  /\ r.at = "protect" => r.victim = None
  /\ r.surplus => r.victims \cup ({r.victim} \ {None}) \subseteq Deletable(r)

Informed(r) ==
  /\ \A v \in Deletable(r) : Out(v)
  /\ r.at = "terminate" /\ r.ok => old \cap members \subseteq r.hosts

\* The second of these of a run in the state r, after a step.
StillInformed(r) ==
  /\ \A v \in Deletable(r) : Out(v)'
  /\ r.at = "terminate" /\ r.ok => old' \cap members' \subseteq r.hosts

\* That is all it says.
LEMMA OutsideParts == OutsideInv <=> \A w \in Runs : Careful(run[w]) /\ Informed(run[w])
  BY DEF OutsideInv, Careful, Informed, Condemned

\* A run that knows nothing has nothing to delete.
LEMMA FreshCareful ==
  /\ Careful(NoRun) /\ StillInformed(NoRun)
  /\ \A next \in {"scale_down", "terminate", "transient"} :
       LET r == [NoRun EXCEPT !.at = next, !.ok = FALSE] IN Careful(r) /\ StillInformed(r)
  /\ \A S : LET r == [NoRun EXCEPT !.at = "scale_down", !.fetched = S] IN
       Careful(r) /\ StillInformed(r)
  /\ LET r == [NoRun EXCEPT !.at = "transient"] IN Careful(r) /\ StillInformed(r)
  BY DEF Careful, StillInformed, Deletable, NoRun

\* While runs go on, a machine that is out of the cluster stays out, and no
\* member comes of age.
LEMMA RunsKeepOut ==
  ASSUME TypeOK, NEW w \in Runs, RunStep(w)
  PROVE  /\ \A v \in VMs : Out(v) => Out(v)'
         /\ old' \cap members' \subseteq old \cap members
<1>1. CASE Fetch(w)
  BY <1>1 DEF Fetch, Fails, Out, fleet
<1>2. CASE ScaleDownStep(w)
  BY <1>2 DEF ScaleDownStep, ScaleDownOK, ScaleDownRefuses, Fails, Out, fleet
<1>3. CASE TerminateStep(w)
  BY <1>3 DEF TerminateStep, ListVMs, TerminateRefuses, Fails, Out, fleet
<1>4. CASE Unprotect(w)
  BY <1>4 DEF Unprotect, Out
<1>5. CASE Delete(w)
  BY <1>5 DEF Delete, Out
<1>6. CASE Delta(w)
  BY <1>6 DEF Delta, Fails, Out, fleet
<1>7. CASE Protect(w)
  BY <1>7 DEF Protect, Out
<1>8. CASE Choose(w) \/ Finish(w) \/ Transient(w)
  BY <1>8 DEF Choose, Finish, Transient, Out, fleet
<1> QED
  BY <1>1, <1>2, <1>3, <1>4, <1>5, <1>6, <1>7, <1>8 DEF RunStep

\* A run that goes on and still has nothing more to delete than before, and is
\* not about to list the machines, knows as much as it did.
LEMMA StaysInformed ==
  ASSUME TypeOK, NEW w \in Runs, RunStep(w), NEW r \in RunStates, NEW q \in RunStates,
         Informed(r), Deletable(q) \subseteq Deletable(r), q.at # "terminate"
  PROVE  StillInformed(q)
<1>1. Deletable(q) \subseteq VMs
  BY DEF Deletable, RunStates
<1>2. \A v \in Deletable(q) : Out(v)'
  BY <1>1, RunsKeepOut DEF Informed
<1> QED
  BY <1>2 DEF StillInformed, Deletable

\* A run that goes on keeps what OutsideInv says of it.
LEMMA CarefulStep ==
  ASSUME TypeOK, NEW w \in Runs, RunStep(w),
         Careful(run[w]), Informed(run[w]), Sighted(run[w])
  PROVE  /\ Careful(run'[w]) /\ StillInformed(run'[w])
         /\ \A x \in Runs \ {w} : run'[x] = run[x]
<1> DEFINE r == run[w]
           Goal == /\ Careful(run'[w]) /\ StillInformed(run'[w])
                   /\ \A x \in Runs \ {w} : run'[x] = run[x]
<1>a. r \in RunStates
  BY DEF TypeOK
<1>b. ASSUME NEW next \in {"scale_down", "terminate", "transient"}, Fails(w, next)
      PROVE  Goal
  BY <1>b, FreshCareful, GotoEffect DEF Fails
<1>c. ASSUME NEW q \in RunStates, Goto(w, q), Careful(q), q.at # "terminate",
             Deletable(q) \subseteq Deletable(r)
      PROVE  Goal
  <2>1. StillInformed(q)
    BY <1>a, <1>c, StaysInformed
  <2>2. run'[w] = q /\ \A x \in Runs \ {w} : run'[x] = run[x]
    BY <1>c, GotoEffect
  <2> QED
    BY <1>c, <2>1, <2>2
<1>1. CASE Fetch(w)
  <2> DEFINE q == [NoRun EXCEPT !.at = "scale_down", !.fetched = vms]
  <2>1. Careful(q) /\ StillInformed(q)
    BY FreshCareful
  <2>2. Goto(w, q) \/ Fails(w, "scale_down")
    BY <1>1 DEF Fetch
  <2> HIDE DEF q
  <2> QED
    BY <1>b, <2>1, <2>2, GotoEffect
<1>2. CASE ScaleDownStep(w)
  <2>1. CASE ScaleDownOK(w)
    <3>1. PICK R \in SUBSET members :
            /\ members' = members \ R
            /\ retired' = retired \cup (R \cap vms)
            /\ Goto(w, [r EXCEPT !.at = "terminate", !.hosts = members \ R,
                                 !.toTerminate = R \cap r.fetched])
      BY <2>1 DEF ScaleDownOK
    <3> DEFINE q == [r EXCEPT !.at = "terminate", !.hosts = members \ R,
                              !.toTerminate = R \cap r.fetched]
    <3>2. /\ q.at = "terminate" /\ q.hosts = members \ R
          /\ q.toTerminate = R \cap r.fetched /\ q.aged = r.aged
          /\ q.delta = r.delta /\ q.surplus = r.surplus /\ q.fetched = r.fetched
          /\ q.listed = r.listed
      BY <1>a DEF RunStates
    <3>3. r.aged = {} /\ r.delta = {} /\ ~r.surplus
      BY <1>2 DEF ScaleDownStep, Careful
    <3> HIDE DEF q
    <3>4. Careful(q)
      BY <3>2, <3>3 DEF Careful
    <3>5. \A v \in Deletable(q) : Out(v)'
      BY <2>1, <3>1, <3>2, <3>3 DEF ScaleDownOK, fleet, Deletable, Out
    <3>6. old' \cap members' \subseteq q.hosts
      BY <3>1, <3>2, RunsKeepOut
    <3>7. StillInformed(q)
      BY <3>5, <3>6 DEF StillInformed, Deletable
    <3>8. run'[w] = q /\ \A x \in Runs \ {w} : run'[x] = run[x]
      BY <3>1, GotoEffect DEF q
    <3> QED
      BY <3>4, <3>7, <3>8
  <2>2. CASE ScaleDownRefuses(w)
    BY <2>2, FreshCareful, GotoEffect DEF ScaleDownRefuses
  <2> QED
    BY <1>2, <1>b, <2>1, <2>2 DEF ScaleDownStep
<1>3. CASE TerminateStep(w)
  <2>1. CASE ListVMs(w)
    <3> DEFINE q == [r EXCEPT
             !.at = "delete", !.surplus = FALSE, !.listed = vms,
             !.aged = {v \in old : status[v] # "failed"},
             !.powered = {v \in vms : status[v] \in Powered},
             !.unprotected = vms \ protected,
             !.victims = {v \in vms : status[v] \in Doomed}]
    <3>1. /\ q.at = "delete" /\ ~q.surplus /\ q.listed = vms /\ q.aged \subseteq old
          /\ q.hosts = r.hosts /\ q.toTerminate = r.toTerminate
          /\ q.fetched = r.fetched /\ q.delta = r.delta
      BY <1>a DEF RunStates
    <3>2. r.at = "terminate" /\ r.ok
      BY <1>3, <2>1 DEF TerminateStep, ListVMs, Acceptable, Sighted
    <3>3. Goto(w, q) /\ UNCHANGED <<vms, old, members, retired>>
      BY <2>1 DEF ListVMs, fleet
    <3> HIDE DEF q
    <3>4. Careful(q)
      BY <3>1 DEF Careful, TypeOK
    <3>5. \A v \in Deletable(q) : Out(v)
      BY <3>1, <3>2 DEF Informed, Deletable, Out
    <3>6. StillInformed(q)
      BY <3>1, <3>3, <3>5 DEF Informed, StillInformed, Deletable, Out
    <3> QED
      BY <3>3, <3>4, <3>6, GotoEffect
  <2>2. CASE TerminateRefuses(w)
    BY <2>2, FreshCareful, GotoEffect DEF TerminateRefuses
  <2> QED
    BY <1>3, <1>b, <2>1, <2>2 DEF TerminateStep
<1>4. CASE Unprotect(w)
  <2>1. PICK v \in r.victims :
          \/ Goto(w, [r EXCEPT !.victims = @ \ {v}, !.victim = v])
          \/ Goto(w, [r EXCEPT !.victims = @ \ {v}])
    BY <1>4 DEF Unprotect
  <2> DEFINE p == [r EXCEPT !.victims = @ \ {v}, !.victim = v]
             q == [r EXCEPT !.victims = @ \ {v}]
  <2>2. r.at = "delete"
    BY <1>4 DEF Unprotect
  <2>3. /\ p \in RunStates /\ Careful(p) /\ p.at = "delete"
        /\ Deletable(p) = Deletable(r)
    BY <1>a, <2>2 DEF RunStates, Careful, Deletable
  <2>4. /\ q \in RunStates /\ Careful(q) /\ q.at = "delete"
        /\ Deletable(q) = Deletable(r)
    BY <1>a, <2>2 DEF RunStates, Careful, Deletable
  <2> HIDE DEF p, q
  <2>5. Goto(w, p) \/ Goto(w, q)
    BY <2>1 DEF p, q
  <2> QED
    BY <1>c, <2>3, <2>4, <2>5
<1>5. CASE Delete(w)
  <2> DEFINE q == [r EXCEPT !.victim = None]
  <2>1. /\ q \in RunStates /\ Careful(q) /\ q.at = "delete"
        /\ Deletable(q) = Deletable(r)
    BY <1>5, <1>a DEF Delete, RunStates, Careful, Deletable
  <2>2. Goto(w, q)
    BY <1>5 DEF Delete
  <2> QED
    BY <1>c, <2>1, <2>2
<1>6. CASE Delta(w)
  <2> DEFINE q == [r EXCEPT !.at = "protect", !.delta = vms \ r.hosts]
  <2>1. r.at = "delete" /\ ~r.surplus /\ r.victim = None
    BY <1>6 DEF Delta
  <2>2. /\ q.at = "protect" /\ q.delta = vms \ r.hosts /\ q.hosts = r.hosts
        /\ q.victim = None /\ ~q.surplus /\ q.toTerminate = r.toTerminate
        /\ q.aged = r.aged /\ q.fetched = r.fetched /\ q.listed = r.listed
    BY <1>a, <2>1 DEF RunStates
  <2>3. q \in RunStates
    BY <1>a DEF TypeOK, RunStates, Steps
  <2>4. Goto(w, q) \/ Fails(w, "transient")
    BY <1>6 DEF Delta
  <2> HIDE DEF q
  <2>5. Careful(q) /\ Deletable(q) = Deletable(r)
    BY <2>2 DEF Careful, Deletable
  <2> QED
    BY <1>b, <1>c, <2>2, <2>3, <2>4, <2>5
<1>7. CASE Protect(w)
  <2>1. PICK v \in r.unprotected : Goto(w, [r EXCEPT !.unprotected = @ \ {v}])
    BY <1>7 DEF Protect
  <2> DEFINE q == [r EXCEPT !.unprotected = @ \ {v}]
  <2>2. /\ q \in RunStates /\ Careful(q) /\ q.at = "protect"
        /\ Deletable(q) = Deletable(r)
    BY <1>7, <1>a DEF Protect, RunStates, Careful, Deletable
  <2> QED
    BY <1>c, <2>1, <2>2
<1>8. CASE Choose(w)
  <2> DEFINE q == [r EXCEPT !.at = "delete", !.surplus = TRUE, !.victims = Unneeded(r)]
  <2>1. r.at = "protect" /\ r.victim = None /\ Goto(w, q)
    BY <1>8 DEF Choose, Careful
  <2>2. /\ q.at = "delete" /\ q.victims = Unneeded(r) /\ q.victim = r.victim
        /\ q.toTerminate = r.toTerminate /\ q.aged = r.aged /\ q.hosts = r.hosts
        /\ q.fetched = r.fetched /\ q.listed = r.listed /\ q.delta = r.delta
    BY <1>a DEF RunStates
  <2>3. q \in RunStates
    BY <1>a DEF Unneeded, RunStates, Steps
  <2>4. Unneeded(r) \subseteq Deletable(r)
    BY DEF Unneeded, Deletable, Careful
  <2> HIDE DEF q
  <2>5. Deletable(q) = Deletable(r)
    BY <2>2 DEF Deletable
  <2>6. Careful(q)
    BY <2>1, <2>2, <2>4, <2>5 DEF Careful
  <2> QED
    BY <1>c, <2>1, <2>2, <2>3, <2>5, <2>6
<1>9. CASE Finish(w)
  BY <1>9, FreshCareful, GotoEffect DEF Finish
<1>10. CASE Transient(w)
  BY <1>10, FreshCareful, GotoEffect DEF Transient
<1> QED
  BY <1>1, <1>2, <1>3, <1>4, <1>5, <1>6, <1>7, <1>8, <1>9, <1>10 DEF RunStep

\* Nothing the environment does while Prompt holds disturbs OutsideInv: no id
\* comes back that a run has seen, and machines join before they come of age.
LEMMA EnvironmentInformed ==
  ASSUME TypeOK, Prompt, NEW w \in Runs, Careful(run[w]), Informed(run[w]),
         NEW v \in VMs,
         Boot(v) \/ Age(v) \/ Change(v) \/ Join(v) \/ JoinFinalization(v)
  PROVE  StillInformed(run[w])
<1>1. CASE Boot(v)
  <2>1. v \notin Deletable(run[w])
    BY <1>1 DEF Boot, Careful, Deletable
  <2> QED
    BY <1>1, <2>1 DEF Boot, Informed, StillInformed, Deletable, Out
<1>2. CASE Age(v)
  BY <1>2 DEF Age, Informed, StillInformed, Deletable, Out
<1>3. CASE Change(v)
  BY <1>3 DEF Change, Informed, StillInformed, Deletable, Out
<1>4. CASE Join(v)
  BY <1>4 DEF Join, Informed, StillInformed, Deletable, Out
<1>5. CASE JoinFinalization(v)
  BY <1>5 DEF JoinFinalization, Informed, StillInformed, Deletable, Out
<1> QED
  BY <1>1, <1>2, <1>3, <1>4, <1>5

\* Every step keeps OutsideInv.
LEMMA OutsideStep ==
  ASSUME Prompt, TypeOK, BlindInv, OutsideInv, [Next]_vars
  PROVE  OutsideInv'
<1>a. \A w \in Runs : Careful(run[w]) /\ Informed(run[w]) /\ Sighted(run[w])
  BY OutsideParts DEF BlindInv, Sighted
<1>1. ASSUME NEW x \in Runs PROVE Careful(run'[x]) /\ StillInformed(run'[x])
  <2>1. ASSUME NEW v \in VMs,
               Boot(v) \/ Age(v) \/ Change(v) \/ Join(v) \/ JoinFinalization(v)
        PROVE  Careful(run'[x]) /\ StillInformed(run'[x])
    <3>1. run' = run
      BY <2>1 DEF Boot, Age, Change, Join, JoinFinalization
    <3>2. StillInformed(run[x])
      BY <1>a, <2>1, EnvironmentInformed
    <3> QED
      BY <1>a, <3>1, <3>2
  <2>2. ASSUME NEW w \in Runs, RunStep(w)
        PROVE  Careful(run'[x]) /\ StillInformed(run'[x])
    <3>1. CASE x = w
      BY <1>a, <2>2, <3>1, CarefulStep
    <3>2. CASE x # w
      <4>1. run'[x] = run[x]
        BY <1>a, <2>2, <3>2, SightedStep
      <4>2. Deletable(run[x]) \subseteq VMs
        BY DEF TypeOK, Deletable, RunStates
      <4>3. Informed(run[x])
        BY <1>a
      <4>4. /\ \A v \in VMs : Out(v) => Out(v)'
            /\ old' \cap members' \subseteq old \cap members
        BY <2>2, RunsKeepOut
      <4>5. \A v \in Deletable(run[x]) : Out(v)'
        BY <4>2, <4>3, <4>4 DEF Informed
      <4>6. StillInformed(run'[x])
        BY <4>1, <4>3, <4>4, <4>5 DEF Informed, StillInformed, Deletable
      <4> QED
        BY <1>a, <4>1, <4>6
    <3> QED
      BY <3>1, <3>2
  <2>3. CASE UNCHANGED vars
    BY <1>a, <2>3 DEF vars, Informed, StillInformed, Deletable, Out
  <2> QED
    BY <2>1, <2>2, <2>3 DEF Next, Environment
<1> QED
  BY <1>1 DEF OutsideInv, Careful, StillInformed, Condemned, Deletable, Out

\* A run that finds nothing on its way knows nothing.
LEMMA InitOutside == Init => OutsideInv
  BY DEF Init, OutsideInv, NoRun, Deletable, Condemned

\* However many runs overlap, and however stale their lists of hosts, nothing
\* that is deleted as unneeded is in the weka cluster when it is deleted, as
\* long as the 30 minutes' grace covers the time a machine takes to join and a
\* run takes to get to its list (terminate.go:100).
THEOREM UnneededStayOutside ==
  ASSUME Prompt
  PROVE  Spec => []UnneededAreOutside
<1>1. OutsideInv => UnneededAreOutside
  BY DEF OutsideInv, UnneededAreOutside, Out
<1>2. Init => BlindInv
  BY DEF Init, BlindInv, NoRun
<1>3. TypeOK /\ BlindInv /\ OutsideInv /\ [Next]_vars => OutsideInv'
  BY OutsideStep
<1> QED
  BY <1>1, <1>2, <1>3, InitOutside, BlindStep, TypeCorrect, PTL DEF Spec

-----------------------------------------------------------------------------
(* Sentences.                                                              *)

\* What a run in the state r still means to delete.
Held(r) == r.victims \cup ({r.victim} \ {None})

\* A run holds machines only while it deletes, and only ones it has seen.
Ordered(r) ==
  /\ r.at # "delete" => Held(r) = {}
  /\ Held(r) \subseteq r.fetched \cup r.listed

SentenceInv == \A w \in Runs : Ordered(run[w])

\* A run that goes from r to q passes no sentence.
Lenient(r, q) == Held(q) = {} \/ (q.surplus = r.surplus /\ Held(q) \subseteq Held(r))

\* A run that begins, or whose handler failed, holds nothing.
LEMMA FreshOrdered ==
  /\ Ordered(NoRun) /\ Held(NoRun) = {}
  /\ \A next \in {"scale_down", "terminate", "transient"} :
       LET r == [NoRun EXCEPT !.at = next, !.ok = FALSE] IN Ordered(r) /\ Held(r) = {}
  /\ \A S : LET r == [NoRun EXCEPT !.at = "scale_down", !.fetched = S] IN
       Ordered(r) /\ Held(r) = {}
  /\ LET r == [NoRun EXCEPT !.at = "transient"] IN Ordered(r) /\ Held(r) = {}
  BY DEF Ordered, Held, NoRun

\* A failing handler holds nothing and touches no machine.
LEMMA FailsLenient ==
  ASSUME TypeOK, NEW w \in Runs, NEW next \in {"scale_down", "terminate", "transient"},
         Fails(w, next)
  PROVE  Ordered(run'[w]) /\ Lenient(run[w], run'[w])
BY FreshOrdered, GotoEffect DEF Fails, Lenient

\* A step of one run leaves the others where they are.
LEMMA OthersWait ==
  ASSUME TypeOK, NEW w \in Runs, RunStep(w), NEW x \in Runs \ {w}
  PROVE  run'[x] = run[x]
<1>1. ASSUME NEW r, Goto(w, r) PROVE run'[x] = run[x]
  BY <1>1, GotoEffect
<1>2. \E r : Goto(w, r)
  BY DEF RunStep, Fetch, ScaleDownStep, ScaleDownOK, ScaleDownRefuses, TerminateStep,
     ListVMs, TerminateRefuses, Unprotect, Delete, Delta, Protect, Choose, Finish,
     Transient, Fails
<1> QED
  BY <1>1, <1>2

\* A step of a run that neither lists the machines nor chooses the unneeded
\* ones passes no sentence.
LEMMA LenientStep ==
  ASSUME TypeOK, NEW w \in Runs, RunStep(w), Ordered(run[w]),
         ~(run[w].at = "terminate" /\ ListVMs(w)), ~Choose(w)
  PROVE  Ordered(run'[w]) /\ Lenient(run[w], run'[w])
<1> DEFINE r == run[w]
<1>a. r \in RunStates
  BY DEF TypeOK
<1>1. CASE Fetch(w)
  <2>1. CASE Goto(w, [NoRun EXCEPT !.at = "scale_down", !.fetched = vms])
    <3>1. run'[w] = [NoRun EXCEPT !.at = "scale_down", !.fetched = vms]
      BY <2>1, GotoEffect
    <3>2. Ordered(run'[w]) /\ Held(run'[w]) = {}
      BY <3>1, FreshOrdered
    <3> QED
      BY <3>2 DEF Lenient
  <2> QED
    BY <1>1, <2>1, FailsLenient DEF Fetch
<1>2. CASE ScaleDownStep(w)
  <2>1. CASE ScaleDownOK(w)
    <3>1. PICK R \in SUBSET members :
            Goto(w, [r EXCEPT !.at = "terminate", !.hosts = members \ R,
                              !.toTerminate = R \cap r.fetched])
      BY <2>1 DEF ScaleDownOK
    <3>2. Held(r) = {}
      BY <1>2 DEF ScaleDownStep, Ordered
    <3>3. LET q == [r EXCEPT !.at = "terminate", !.hosts = members \ R,
                             !.toTerminate = R \cap r.fetched]
          IN  Held(q) = Held(r)
      BY <1>a DEF Held, RunStates
    <3> QED
      BY <3>1, <3>2, <3>3, GotoEffect DEF Ordered, Lenient
  <2>2. CASE ScaleDownRefuses(w)
    BY <2>2, FreshOrdered, GotoEffect DEF ScaleDownRefuses, Lenient
  <2> QED
    BY <1>2, <2>1, <2>2, FailsLenient DEF ScaleDownStep
<1>3. CASE TerminateStep(w)
  <2>1. CASE TerminateRefuses(w)
    BY <2>1, FreshOrdered, GotoEffect DEF TerminateRefuses, Lenient
  <2> QED
    BY <1>3, <2>1, FailsLenient DEF TerminateStep
<1>4. CASE Unprotect(w)
  <2>1. PICK v \in r.victims :
          \/ Goto(w, [r EXCEPT !.victims = @ \ {v}, !.victim = v])
          \/ Goto(w, [r EXCEPT !.victims = @ \ {v}])
    BY <1>4 DEF Unprotect
  <2>2. r.at = "delete"
    BY <1>4 DEF Unprotect
  <2>3. ASSUME NEW q, \/ q = [r EXCEPT !.victims = @ \ {v}, !.victim = v]
                      \/ q = [r EXCEPT !.victims = @ \ {v}]
        PROVE  /\ Held(q) \subseteq Held(r) /\ q.surplus = r.surplus /\ q.at = r.at
               /\ q.fetched = r.fetched /\ q.listed = r.listed
    BY <1>a, <2>1, <2>3 DEF Held, RunStates
  <2> QED
    BY <2>1, <2>2, <2>3, GotoEffect DEF Ordered, Lenient
<1>5. CASE Delete(w)
  <2>1. r.at = "delete"
    BY <1>5 DEF Delete
  <2>2. LET q == [r EXCEPT !.victim = None]
        IN  /\ Held(q) \subseteq Held(r) /\ q.surplus = r.surplus /\ q.at = r.at
            /\ q.fetched = r.fetched /\ q.listed = r.listed
    BY <1>a DEF Held, RunStates
  <2> QED
    BY <1>5, <2>1, <2>2, GotoEffect DEF Delete, Ordered, Lenient
<1>6. CASE Delta(w)
  <2>1. CASE Goto(w, [r EXCEPT !.at = "protect", !.delta = vms \ r.hosts])
    <3>1. Held([r EXCEPT !.at = "protect", !.delta = vms \ r.hosts]) = {}
      BY <1>a, <1>6 DEF Delta, Held, RunStates
    <3> QED
      BY <2>1, <3>1, GotoEffect DEF Ordered, Lenient
  <2> QED
    BY <1>6, <2>1, FailsLenient DEF Delta
<1>7. CASE Protect(w)
  <2>1. PICK v \in r.unprotected : Goto(w, [r EXCEPT !.unprotected = @ \ {v}])
    BY <1>7 DEF Protect
  <2>2. Held(r) = {}
    BY <1>7 DEF Protect, Ordered
  <2>3. Held([r EXCEPT !.unprotected = @ \ {v}]) = Held(r)
    BY <1>a DEF Held, RunStates
  <2> QED
    BY <2>1, <2>2, <2>3, GotoEffect DEF Ordered, Lenient
<1>8. CASE Finish(w) \/ Transient(w)
  BY <1>8, FreshOrdered, GotoEffect DEF Finish, Transient, Lenient
<1> QED
  BY <1>1, <1>2, <1>3, <1>4, <1>5, <1>6, <1>7, <1>8 DEF RunStep, TerminateStep

\* Listing the machines sentences the sick ones there are.
LEMMA ListingStep ==
  ASSUME TypeOK, NEW w \in Runs, run[w].at = "terminate", ListVMs(w), Ordered(run[w])
  PROVE  /\ Ordered(run'[w]) /\ run'[w].surplus = FALSE
         /\ Held(run'[w]) = {v \in vms : status[v] \in Doomed}
<1> DEFINE r == run[w]
           q == [r EXCEPT
             !.at = "delete", !.surplus = FALSE, !.listed = vms,
             !.aged = {v \in old : status[v] # "failed"},
             !.powered = {v \in vms : status[v] \in Powered},
             !.unprotected = vms \ protected,
             !.victims = {v \in vms : status[v] \in Doomed}]
<1>1. r \in RunStates
  BY DEF TypeOK
<1>2. r.victim = None
  BY <1>1 DEF Ordered, Held
<1>3. /\ q.at = "delete" /\ q.surplus = FALSE /\ q.listed = vms /\ q.victim = None
      /\ q.victims = {v \in vms : status[v] \in Doomed}
  BY <1>1, <1>2 DEF RunStates
<1>4. run'[w] = q
  BY GotoEffect DEF ListVMs
<1> HIDE DEF q
<1> QED
  BY <1>3, <1>4 DEF Ordered, Held

\* Choosing sentences only machines that are out of the cluster.
LEMMA ChoosingStep ==
  ASSUME TypeOK, NEW w \in Runs, Choose(w), Ordered(run[w]),
         Careful(run[w]), Informed(run[w])
  PROVE  /\ Ordered(run'[w]) /\ run'[w].surplus = TRUE
         /\ Held(run'[w]) \subseteq VMs \ members
<1> DEFINE r == run[w]
           q == [r EXCEPT !.at = "delete", !.surplus = TRUE, !.victims = Unneeded(r)]
<1>1. r \in RunStates
  BY DEF TypeOK
<1>2. r.victim = None
  BY DEF Choose, Careful
<1>3. /\ q.at = "delete" /\ q.surplus = TRUE /\ q.listed = r.listed /\ q.victim = None
      /\ q.victims = Unneeded(r)
  BY <1>1, <1>2 DEF RunStates
<1>4. run'[w] = q
  BY GotoEffect DEF Choose
<1>5. Unneeded(r) \subseteq r.listed /\ Unneeded(r) \subseteq VMs
  BY <1>1 DEF Unneeded, RunStates
<1>6. Unneeded(r) \subseteq Deletable(r)
  BY DEF Unneeded, Deletable, Careful
<1>7. \A v \in Unneeded(r) : v \notin members
  BY <1>6 DEF Informed, Out
<1> HIDE DEF q
<1> QED
  BY <1>3, <1>4, <1>5, <1>7 DEF Ordered, Held

\* Every step keeps SentenceInv.
LEMMA SentenceStep ==
  ASSUME TypeOK, OutsideInv, SentenceInv, [Next]_vars
  PROVE  SentenceInv'
<1> SUFFICES ASSUME NEW x \in Runs PROVE Ordered(run'[x])
  BY DEF SentenceInv, Ordered, Held
<1>1. CASE UNCHANGED run
  BY <1>1 DEF SentenceInv
<1>2. ASSUME NEW w \in Runs, RunStep(w) PROVE Ordered(run'[x])
  <2>1. Ordered(run[w]) /\ Careful(run[w]) /\ Informed(run[w])
    BY OutsideParts DEF SentenceInv
  <2>2. Ordered(run'[w])
    <3>1. CASE run[w].at = "terminate" /\ ListVMs(w)
      BY <2>1, <3>1, ListingStep
    <3>2. CASE Choose(w)
      BY <2>1, <3>2, ChoosingStep
    <3>3. CASE ~Choose(w) /\ ~(run[w].at = "terminate" /\ ListVMs(w))
      BY <1>2, <2>1, <3>3, LenientStep
    <3> QED
      BY <1>2, <3>1, <3>2, <3>3
  <2>3. x # w => run'[x] = run[x]
    BY <1>2, OthersWait
  <2> QED
    BY <2>2, <2>3 DEF SentenceInv
<1> QED
  BY <1>1, <1>2 DEF Next, Environment, Boot, Age, Change, Join, JoinFinalization, vars

\* What is sentenced after a step of a run was so before, or is held by it.
LEMMA SentencesAfter ==
  ASSUME TypeOK, NEW w \in Runs, RunStep(w), NEW s \in BOOLEAN
  PROVE  /\ \A v \in Sentenced(s)' :
              v \in Sentenced(s) \/ (v \in Held(run'[w]) /\ run'[w].surplus = s)
         /\ Lenient(run[w], run'[w]) => Sentenced(s)' \subseteq Sentenced(s)
         /\ Held(run'[w]) = Held(run[w])
              /\ (Held(run[w]) = {} \/ run'[w].surplus = run[w].surplus) =>
              Sentenced(s)' = Sentenced(s)
<1> DEFINE S(v) == \E x \in Runs : run[x].surplus = s /\ v \in Held(run[x])
           T(v) == \E x \in Runs : run'[x].surplus = s /\ v \in Held(run'[x])
<1>1. \A v : v \in Sentenced(s) <=> S(v)
  BY DEF Sentenced, Condemned, Held
<1>2. \A v : v \in Sentenced(s)' <=> T(v)
  BY DEF Sentenced, Condemned, Held
<1>3. \A x \in Runs \ {w} : run'[x] = run[x]
  BY OthersWait
<1>4. \A v : T(v) => S(v) \/ (v \in Held(run'[w]) /\ run'[w].surplus = s)
  BY <1>3
<1>5. Lenient(run[w], run'[w]) => \A v : T(v) => S(v)
  BY <1>4 DEF Lenient
<1>6. Held(run'[w]) = Held(run[w])
        /\ (Held(run[w]) = {} \/ run'[w].surplus = run[w].surplus) =>
        \A v : T(v) <=> S(v)
  BY <1>3
<1> HIDE DEF S, T
<1> QED
  BY <1>1, <1>2, <1>4, <1>5, <1>6

\* The environment's steps are ones of the fleet: no id comes back while it is
\* sentenced, and no machine joins that is sentenced as unneeded.
LEMMA EnvironmentFleet ==
  ASSUME Prompt, TypeOK, OutsideInv, SentenceInv, NEW v \in VMs,
         Boot(v) \/ Age(v) \/ Change(v) \/ Join(v) \/ JoinFinalization(v)
  PROVE  Machines!Next \/ UNCHANGED <<Machines!machines, Machines!sentences>>
<1>1. /\ Sentenced(TRUE)' = Sentenced(TRUE) /\ Sentenced(FALSE)' = Sentenced(FALSE)
      /\ run' = run
  BY DEF Boot, Age, Change, Join, JoinFinalization, Sentenced, Condemned
<1>2. UNCHANGED Machines!sentences
  BY <1>1 DEF Machines!sentences
<1>3. CASE Boot(v)
  <2>1. \A w \in Runs : v \notin Condemned(w)
    BY <1>3 DEF Boot, SentenceInv, Ordered, Held, Condemned
  <2>2. v \notin Machines!Sentenced
    BY <2>1 DEF Machines!Sentenced, Sentenced
  <2>3. Machines!Boot(v)
    BY <1>2, <1>3, <2>2 DEF Boot, Machines!Boot
  <2> QED
    BY <2>3 DEF Machines!Next
<1>4. CASE Age(v)
  BY <1>2, <1>4 DEF Age, Machines!machines
<1>5. CASE Change(v)
  <2>1. Machines!Change(v)
    BY <1>2, <1>5 DEF Change, Machines!Change
  <2> QED
    BY <2>1 DEF Machines!Next
<1>6. CASE Join(v)
  <2>1. ~Out(v)
    BY <1>6 DEF Join, Out
  <2>2. \A w \in Runs : run[w].surplus => v \notin Condemned(w)
    BY <2>1 DEF OutsideInv
  <2>3. v \notin Sentenced(TRUE)
    BY <2>2 DEF Sentenced
  <2>4. Machines!Join(v)
    BY <1>2, <1>6, <2>3 DEF Join, Machines!Join
  <2> QED
    BY <2>4 DEF Machines!Next
<1>7. CASE JoinFinalization(v)
  <2>1. Machines!Protect(v)
    BY <1>2, <1>7 DEF JoinFinalization, Machines!Protect
  <2> QED
    BY <2>1 DEF Machines!Next
<1> QED
  BY <1>3, <1>4, <1>5, <1>6, <1>7

\* So are the steps of a run.
LEMMA RunFleet ==
  ASSUME TypeOK, NEW w \in Runs, RunStep(w),
         Ordered(run[w]), Careful(run[w]), Informed(run[w])
  PROVE  Machines!Next \/ UNCHANGED <<Machines!machines, Machines!sentences>>
<1> DEFINE r == run[w]
<1>a. r \in RunStates
  BY DEF TypeOK
<1>b. ASSUME Lenient(r, run'[w]), UNCHANGED <<vms, members, status, protected>>
      PROVE  Machines!Next
  <2>1. Sentenced(TRUE)' \subseteq Sentenced(TRUE) /\ Sentenced(FALSE)' \subseteq Sentenced(FALSE)
    BY <1>b, SentencesAfter
  <2>2. Machines!Judge
    BY <1>b, <2>1 DEF Machines!Judge, Machines!machines
  <2> QED
    BY <2>2 DEF Machines!Next
<1>c. ASSUME Held(run'[w]) = Held(r), Held(r) = {} \/ run'[w].surplus = r.surplus
      PROVE  UNCHANGED Machines!sentences
  BY <1>c, SentencesAfter DEF Machines!sentences
<1>1. CASE r.at = "terminate" /\ ListVMs(w)
  <2>1. /\ run'[w].surplus = FALSE
        /\ Held(run'[w]) = {v \in vms : status[v] \in Doomed}
    BY <1>1, ListingStep
  <2>2. /\ Sentenced(TRUE)' \subseteq Sentenced(TRUE)
        /\ Sentenced(FALSE)' \subseteq Sentenced(FALSE) \cup {v \in vms : status[v] \in Doomed}
    BY <2>1, SentencesAfter
  <2>3. Machines!Judge
    BY <1>1, <2>2 DEF ListVMs, fleet, Machines!Judge, Machines!machines
  <2> QED
    BY <2>3 DEF Machines!Next
<1>2. CASE Choose(w)
  <2>1. run'[w].surplus = TRUE /\ Held(run'[w]) \subseteq VMs \ members
    BY <1>2, ChoosingStep
  <2>2. /\ Sentenced(TRUE)' \subseteq Sentenced(TRUE) \cup (VMs \ members)
        /\ Sentenced(FALSE)' \subseteq Sentenced(FALSE)
    BY <2>1, SentencesAfter
  <2>3. Machines!Judge
    BY <1>2, <2>2 DEF Choose, fleet, Machines!Judge, Machines!machines
  <2> QED
    BY <2>3 DEF Machines!Next
<1>3. CASE ~(r.at = "terminate" /\ ListVMs(w)) /\ ~Choose(w)
  <2>1. Ordered(run'[w]) /\ Lenient(r, run'[w])
    BY <1>3, LenientStep
  <2>2. CASE UNCHANGED <<vms, members, status, protected>>
    BY <1>b, <2>1, <2>2
  <2>3. CASE ScaleDownStep(w) /\ ScaleDownOK(w)
    <3>1. PICK R \in SUBSET members :
            /\ members' = members \ R
            /\ Goto(w, [r EXCEPT !.at = "terminate", !.hosts = members \ R,
                                 !.toTerminate = R \cap r.fetched])
      BY <2>3 DEF ScaleDownOK
    <3>2. Held(r) = {}
      BY <2>3 DEF ScaleDownStep, Ordered
    <3>3. run'[w].at = "terminate"
      BY <1>a, <3>1, GotoEffect DEF RunStates
    <3>4. Held(run'[w]) = {}
      BY <2>1, <3>3 DEF Ordered
    <3>5. Machines!Leave
      BY <1>c, <2>3, <3>1, <3>2, <3>4 DEF ScaleDownOK, fleet, Machines!Leave
    <3> QED
      BY <3>5 DEF Machines!Next
  <2>4. CASE Unprotect(w)
    <3>1. PICK v \in r.victims :
            \/ /\ v \in vms /\ protected' = protected \ {v}
               /\ Goto(w, [r EXCEPT !.victims = @ \ {v}, !.victim = v])
            \/ UNCHANGED protected
      BY <2>4 DEF Unprotect
    <3>2. UNCHANGED <<vms, members, status>> /\ r.victim = None
      BY <2>4 DEF Unprotect
    <3>3. CASE UNCHANGED protected
      BY <2>2, <3>2, <3>3
    <3>4. CASE /\ v \in vms /\ protected' = protected \ {v}
               /\ Goto(w, [r EXCEPT !.victims = @ \ {v}, !.victim = v])
      <4>1. v \in VMs /\ v # None
        BY <1>a, ScaleDownAssumption DEF RunStates
      <4>2. LET q == [r EXCEPT !.victims = @ \ {v}, !.victim = v]
            IN  q.victims = r.victims \ {v} /\ q.victim = v /\ q.surplus = r.surplus
        BY <1>a DEF RunStates
      <4>3. Held(run'[w]) = Held(r) /\ run'[w].surplus = r.surplus
        BY <3>2, <3>4, <4>1, <4>2, GotoEffect DEF Held
      <4>4. v \in Condemned(w) /\ r.surplus \in BOOLEAN
        BY <1>a DEF Condemned, RunStates
      <4>5. v \in Machines!Sentenced
        BY <4>4 DEF Machines!Sentenced, Sentenced
      <4>6. Machines!Unprotect(v)
        BY <1>c, <3>2, <3>4, <4>3, <4>5 DEF Machines!Unprotect
      <4> QED
        BY <4>1, <4>6 DEF Machines!Next
    <3> QED
      BY <3>1, <3>3, <3>4
  <2>5. CASE Delete(w)
    <3>1. UNCHANGED <<members, status, protected>> /\ r.victim # None
      BY <2>5 DEF Delete
    <3>2. UNCHANGED vms \/ (r.victim \in vms \ protected /\ vms' = vms \ {r.victim})
      BY <2>5 DEF Delete
    <3>3. CASE UNCHANGED vms
      BY <2>2, <3>1, <3>3
    <3>4. CASE r.victim \in vms \ protected /\ vms' = vms \ {r.victim}
      <4>1. r.victim \in Condemned(w) /\ r.surplus \in BOOLEAN /\ r.victim \in VMs
        BY <1>a, <3>1 DEF Condemned, RunStates
      <4>2. r.victim \in Machines!Sentenced
        BY <4>1 DEF Machines!Sentenced, Sentenced
      <4>3. /\ Sentenced(TRUE)' \subseteq Sentenced(TRUE)
            /\ Sentenced(FALSE)' \subseteq Sentenced(FALSE)
        BY <2>1, SentencesAfter
      <4>4. Machines!Delete(r.victim)
        BY <3>1, <3>4, <4>2, <4>3 DEF Machines!Delete
      <4> QED
        BY <4>1, <4>4 DEF Machines!Next
    <3> QED
      BY <3>2, <3>3, <3>4
  <2>6. CASE Protect(w)
    <3>1. PICK v \in r.unprotected :
            /\ (v \in vms /\ protected' = protected \cup {v}) \/ UNCHANGED protected
            /\ Goto(w, [r EXCEPT !.unprotected = @ \ {v}])
      BY <2>6 DEF Protect
    <3>2. UNCHANGED <<vms, members, status>> /\ Held(r) = {}
      BY <2>6 DEF Protect, Ordered
    <3>3. CASE UNCHANGED protected
      BY <2>2, <3>2, <3>3
    <3>4. CASE v \in vms /\ protected' = protected \cup {v}
      <4>1. Held(run'[w]) = {}
        BY <2>1, <3>2 DEF Lenient
      <4>2. v \in VMs
        BY <1>a DEF RunStates
      <4>3. Machines!Protect(v)
        BY <1>c, <3>2, <3>4, <4>1 DEF Machines!Protect
      <4> QED
        BY <4>2, <4>3 DEF Machines!Next
    <3> QED
      BY <3>1, <3>3, <3>4
  <2>7. CASE \/ Fetch(w) \/ ScaleDownRefuses(w) \/ Fails(w, "terminate")
             \/ TerminateStep(w) \/ Delta(w) \/ Choose(w) \/ Finish(w) \/ Transient(w)
    <3>1. UNCHANGED <<vms, members, status, protected>>
      BY <2>7 DEF Fetch, ScaleDownRefuses, Fails, TerminateStep, ListVMs, TerminateRefuses,
         Delta, Choose, Finish, Transient, fleet
    <3> QED
      BY <2>2, <3>1
  <2> QED
    BY <2>3, <2>4, <2>5, <2>6, <2>7 DEF RunStep, ScaleDownStep
<1> QED
  BY <1>1, <1>2, <1>3

\* However many runs overlap, and whatever they have read, a machine is only
\* unprotected or deleted under a sentence passed on it as sick, or as outside
\* the cluster for good (terminate.go:80, terminate.go:185).
THEOREM FleetRefined ==
  ASSUME Prompt
  PROVE  Spec => ImplementsFleet
<1>0. Ordered(NoRun) /\ Held(NoRun) = {}
  BY FreshOrdered
<1>1. Init => SentenceInv /\ BlindInv
  <2>1. Init => SentenceInv
    BY <1>0 DEF Init, SentenceInv
  <2>2. Init => BlindInv
    BY DEF Init, BlindInv, NoRun
  <2> QED
    BY <2>1, <2>2
<1>2. Init => Machines!Init
  <2> SUFFICES ASSUME Init PROVE Machines!Init
    OBVIOUS
  <2>1. \A w \in Runs : Condemned(w) = {}
    BY <1>0 DEF Init, Condemned, Held
  <2>2. Sentenced(TRUE) = {} /\ Sentenced(FALSE) = {}
    BY <2>1 DEF Sentenced
  <2> QED
    BY <2>2 DEF Init, Machines!Init
<1>3. TypeOK /\ BlindInv /\ OutsideInv /\ [Next]_vars => OutsideInv'
  BY OutsideStep
<1>4. TypeOK /\ OutsideInv /\ SentenceInv /\ [Next]_vars => SentenceInv'
  BY SentenceStep
<1>5. TypeOK /\ OutsideInv /\ SentenceInv /\ [Next]_vars =>
        [Machines!Next]_(<<Machines!machines, Machines!sentences>>)
  <2> SUFFICES ASSUME TypeOK, OutsideInv, SentenceInv, [Next]_vars
               PROVE  Machines!Next \/ UNCHANGED <<Machines!machines, Machines!sentences>>
    OBVIOUS
  <2>1. CASE UNCHANGED vars
    BY <2>1 DEF vars, Machines!machines, Machines!sentences, Sentenced, Condemned
  <2>2. ASSUME NEW w \in Runs, RunStep(w)
        PROVE  Machines!Next \/ UNCHANGED <<Machines!machines, Machines!sentences>>
    <3>1. Ordered(run[w]) /\ Careful(run[w]) /\ Informed(run[w])
      BY OutsideParts DEF SentenceInv
    <3> QED
      BY <2>2, <3>1, RunFleet
  <2> QED
    BY <2>1, <2>2, EnvironmentFleet DEF Next, Environment
<1> QED
  BY <1>1, <1>2, <1>3, <1>4, <1>5, InitOutside, BlindStep, TypeCorrect, PTL
  DEF Spec, ImplementsFleet, Machines!Spec
=============================================================================
