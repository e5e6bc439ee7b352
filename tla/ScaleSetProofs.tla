--------------------------- MODULE ScaleSetProofs ---------------------------
(* What ScaleSet guarantees for any number of handlers, sizes and events.  *)
EXTENDS ScaleSet, TLAPS

\* The record a handler goes back to when it ends is a job.
LEMMA IdleType == \A c \in Configs : Idle(c) \in Jobs
  BY DEF Idle, Jobs, Clusters

\* A set capacity keeps the scale set and the count of the sick well typed.
LEMMA SetType ==
  ASSUME TypeOK, NEW n \in Nat, NEW c \in Configs, SetScaleSet(n, c)
  PROVE  /\ scaleSet' \in [capacity : Nat, config : Configs] \cup {None}
         /\ scaleSet' # None /\ scaleSet'.capacity = n
         /\ sick' \in Nat /\ sick' <= n
<1>1. scaleSet' \in [capacity : Nat, config : Configs]
  BY DEF SetScaleSet
<1>2. None \notin [capacity : Nat, config : Configs]
  BY ScaleSetAssumption DEF Configs
<1>3. sick' \in Nat /\ sick' <= n
  BY DEF SetScaleSet, TypeOK
<1> QED
  BY <1>1, <1>2, <1>3 DEF SetScaleSet

\* The initial state is well typed.
LEMMA InitType == Init => TypeOK
<1> SUFFICES ASSUME Init PROVE TypeOK
  OBVIOUS
<1>1. job \in [Handlers -> Jobs]
  BY IdleType DEF Init
<1>2. cluster \in Clusters
  BY ScaleSetAssumption DEF Init, Clusters
<1> QED
  BY <1>1, <1>2, ScaleSetAssumption DEF Init, TypeOK

\* A handler that moves to a job leaves every handler with a job.
LEMMA MoveType ==
  ASSUME TypeOK, NEW h \in Handlers, NEW j \in Jobs, Move(h, j)
  PROVE  job' \in [Handlers -> Jobs]
BY DEF Move, TypeOK

\* So does one that stops.
LEMMA StopType ==
  ASSUME TypeOK, NEW h \in Handlers, Stop(h)
  PROVE  job' \in [Handlers -> Jobs]
<1>1. job[h].config \in Configs
  BY DEF TypeOK, Jobs
<1> QED
  BY <1>1, IdleType, MoveType DEF Stop

\* Counting an event stays within the bound.
LEMMA EventType == TypeOK /\ Event => events' \in 0..MaxEvents
  BY ScaleSetAssumption DEF TypeOK, Event

\* Every step keeps the types.
LEMMA NextType == TypeOK /\ [Next]_vars => TypeOK'
<1> SUFFICES ASSUME TypeOK, [Next]_vars PROVE TypeOK'
  OBVIOUS
<1> USE ScaleSetAssumption
<1>0. \A h \in Handlers : job[h] \in Jobs
  BY DEF TypeOK
<1>1. ASSUME NEW h \in Handlers, StartRun(h) PROVE TypeOK'
  <2>1. [Idle(config) EXCEPT !.at = "get", !.seen = cluster] \in Jobs
    BY <1>1, IdleType DEF TypeOK, Idle, Jobs, Clusters
  <2> QED
    BY <1>1, <2>1, MoveType DEF StartRun, TypeOK
<1>2. ASSUME NEW h \in Handlers, GetScaleSet(h) PROVE TypeOK'
  <2> DEFINE j == job[h]
             next == Decision(j, scaleSet)
  <2>1. j \in Jobs
    BY <1>0 DEF Jobs, TypeOK
  <2>2. next \in {"fail", "put", "tidy", "scale"}
    BY DEF Decision
  <2>3. job' \in [Handlers -> Jobs]
    <3>1. CASE next = "fail"
      BY <1>2, <3>1, StopType DEF GetScaleSet
    <3>2. CASE next # "fail"
      <4> DEFINE n == Wanted(j, scaleSet)
      <4>1. n \in Nat
        BY <2>1, ScaleSetAssumption DEF Wanted, Jobs, Clusters
      <4>2. [j EXCEPT !.at = next, !.size = n] \in Jobs
        <5> HIDE DEF j, next, n
        <5> QED BY <2>1, <2>2, <3>2, <4>1 DEF Jobs
      <4> QED
        BY <1>2, <3>2, <4>2, MoveType DEF GetScaleSet
    <3> QED
      BY <3>1, <3>2
  <2> QED
    BY <1>2, <2>3 DEF GetScaleSet, TypeOK
<1>3. ASSUME NEW h \in Handlers, Tidy(h) PROVE TypeOK'
  <2>1. [job[h] EXCEPT !.at = "scale"] \in Jobs
    BY <1>0 DEF Jobs
  <2>2. sick' \in Nat /\ sick' <= sick /\ events' \in 0..MaxEvents
    BY <1>3, EventType DEF Tidy, TypeOK
  <2>3. CASE scaleSet = None
    BY <1>3, <2>1, <2>2, <2>3, MoveType DEF Tidy, TypeOK
  <2>4. CASE scaleSet # None
    <3>1. scaleSet \in [capacity : Nat, config : Configs] /\ sick <= scaleSet.capacity
      BY <2>4 DEF TypeOK
    <3>2. scaleSet.capacity - (sick - sick') \in Nat /\ sick' <= scaleSet.capacity - (sick - sick')
      BY <2>2, <3>1 DEF TypeOK
    <3>3. scaleSet' = [scaleSet EXCEPT !.capacity = @ - (sick - sick')]
      BY <1>3, <2>4 DEF Tidy
    <3>4. scaleSet' \in [capacity : Nat, config : Configs] /\ sick' <= scaleSet'.capacity
      BY <3>1, <3>2, <3>3
    <3> QED
      BY <1>3, <2>1, <2>2, <3>4, MoveType DEF Tidy, TypeOK
  <2> QED
    BY <2>3, <2>4
<1>4. ASSUME NEW h \in Handlers, Put(h) PROVE TypeOK'
  <2>1. job[h].size \in Nat /\ job[h].config \in Configs
    BY <1>0 DEF Jobs
  <2> QED
    BY <1>4, <2>1, SetType, StopType DEF Put, TypeOK
<1>5. ASSUME NEW h \in Handlers, StartResize(h) PROVE TypeOK'
  <2>1. ASSUME NEW n \in Sizes
        PROVE  [Idle(config) EXCEPT !.at = "write", !.seen = cluster, !.size = n] \in Jobs
    BY IdleType DEF TypeOK, Idle, Jobs, Clusters
  <2> QED
    BY <1>5, <2>1, MoveType, EventType DEF StartResize, TypeOK
<1>6. ASSUME NEW h \in Handlers, WriteDesired(h) PROVE TypeOK'
  <2>1. [job[h] EXCEPT !.at = "scale"] \in Jobs /\ job[h].size \in Nat
    BY <1>0 DEF Jobs
  <2>2. job' \in [Handlers -> Jobs]
    BY <1>6, <2>1, MoveType, StopType DEF WriteDesired
  <2>3. cluster' \in Clusters
    BY <1>6, <2>1 DEF WriteDesired, TypeOK, Clusters
  <2>4. asked' \subseteq Nat
    BY <1>6, <2>1 DEF WriteDesired, TypeOK
  <2>5. UNCHANGED <<scaleSet, sick, config, events>>
    BY <1>6 DEF WriteDesired
  <2> QED
    BY <2>2, <2>3, <2>4, <2>5 DEF TypeOK
<1>7. ASSUME NEW h \in Handlers, GetCapacity(h) PROVE TypeOK'
  <2>1. [job[h] EXCEPT !.at = "patch"] \in Jobs
    BY <1>0 DEF Jobs
  <2>2. job' \in [Handlers -> Jobs]
    BY <1>7, <2>1, MoveType, StopType DEF GetCapacity
  <2> QED
    BY <1>7, <2>2 DEF GetCapacity, TypeOK
<1>8. ASSUME NEW h \in Handlers, SetCapacity(h) PROVE TypeOK'
  <2>1. job[h].size \in Nat /\ (scaleSet # None => scaleSet.config \in Configs)
    BY <1>0 DEF Jobs, TypeOK
  <2>2. CASE scaleSet = None
    BY <1>8, <2>2, StopType DEF SetCapacity, TypeOK
  <2>3. CASE scaleSet # None
    BY <1>8, <2>1, <2>3, SetType, StopType DEF SetCapacity, TypeOK
  <2> QED
    BY <2>2, <2>3
<1>9. ASSUME NEW h \in Handlers, Fail(h) PROVE TypeOK'
  BY <1>9, StopType, EventType DEF Fail, TypeOK
<1>10. ASSUME Register \/ Clusterize PROVE TypeOK'
  BY <1>10 DEF Register, Clusterize, TypeOK, Clusters
<1>11. ASSUME Reconfigure \/ DeleteScaleSet PROVE TypeOK'
  <2>1. events' \in 0..MaxEvents
    BY <1>11, EventType DEF Reconfigure, DeleteScaleSet
  <2>2. CASE Reconfigure
    BY <2>1, <2>2 DEF Reconfigure, TypeOK
  <2>3. CASE DeleteScaleSet
    BY <2>1, <2>3 DEF DeleteScaleSet, TypeOK
  <2> QED
    BY <1>11, <2>2, <2>3
<1>12. ASSUME Sicken PROVE TypeOK'
  BY <1>12, EventType DEF Sicken, TypeOK
<1>13. ASSUME Terminate PROVE TypeOK'
  BY <1>13, EventType DEF Terminate, TypeOK
<1>14. ASSUME UNCHANGED vars PROVE TypeOK'
  BY <1>14 DEF vars, TypeOK
<1> QED
  BY <1>1, <1>2, <1>3, <1>4, <1>5, <1>6, <1>7, <1>8, <1>9, <1>10, <1>11, <1>12,
     <1>13, <1>14 DEF Next, Step, Outside

\* Every reachable state is well typed: no capacity is ever negative and no
\* machine is counted sick that the scale set no longer has.
THEOREM TypeCorrect == Spec => []TypeOK
BY InitType, NextType, PTL DEF Spec

-----------------------------------------------------------------------------
(* No blind creation.                                                      *)

\* A handler that moves leaves the other handlers where they were.
LEMMA MoveEffect ==
  ASSUME TypeOK, NEW h \in Handlers, NEW j, Move(h, j)
  PROVE  \A g \in Handlers : job'[g] = IF g = h THEN j ELSE job[g]
BY DEF Move, TypeOK

\* A handler that stops is idle.
LEMMA StopEffect ==
  ASSUME TypeOK, NEW h \in Handlers, Stop(h)
  PROVE  \A g \in Handlers : IF g = h THEN job'[g].at = "idle" ELSE job'[g] = job[g]
BY MoveEffect DEF Stop, Idle

\* Initially no handler has read anything.
LEMMA CreateInit == Init => CreateInv
BY DEF Init, CreateInv, Idle

\* A handler that stops, or moves to a job that neither has just read the
\* state nor creates a scale set, while state and scale set keep what
\* matters, does no harm.
LEMMA CreateKeeps ==
  ASSUME TypeOK, CreateInv, NEW h \in Handlers,
         \A g \in Handlers : g # h => job'[g] = job[g],
         job'[h].at \notin {"get", "put"},
         scaleSet' = None => scaleSet = None,
         scaleSet' = None => /\ cluster'.clusterized = cluster.clusterized
                             /\ cluster'.registered = cluster.registered
  PROVE  CreateInv'
BY DEF CreateInv

\* Every step keeps a run's idea of whether it may create the scale set true.
LEMMA CreateStep == TypeOK /\ CreateInv /\ [Next]_vars => CreateInv'
<1> SUFFICES ASSUME TypeOK, CreateInv, [Next]_vars PROVE CreateInv'
  OBVIOUS
<1>0. \A h \in Handlers : job[h] \in Jobs
  BY DEF TypeOK
<1>1. ASSUME NEW h \in Handlers, StartRun(h) PROVE CreateInv'
  <2>1. \A g \in Handlers :
          job'[g] = IF g = h THEN [Idle(config) EXCEPT !.at = "get", !.seen = cluster]
                    ELSE job[g]
    BY <1>1, MoveEffect DEF StartRun
  <2>2. job'[h].at = "get" /\ job'[h].seen = cluster
    BY <2>1 DEF Idle
  <2> QED
    BY <1>1, <2>1, <2>2 DEF StartRun, CreateInv
<1>2. ASSUME NEW h \in Handlers, GetScaleSet(h) PROVE CreateInv'
  <2> DEFINE j == job[h]
             next == Decision(j, scaleSet)
  <2>1. UNCHANGED <<cluster, scaleSet>> /\ job[h].at = "get"
    BY <1>2 DEF GetScaleSet
  <2>2. CASE next = "fail"
    BY <1>2, <2>1, <2>2, StopEffect, CreateKeeps DEF GetScaleSet
  <2>3. CASE next # "fail"
    <3> DEFINE n == Wanted(j, scaleSet)
               k == [j EXCEPT !.at = next, !.size = n]
    <3>1. \A g \in Handlers : job'[g] = IF g = h THEN k ELSE job[g]
      <4>1. Move(h, k)
        BY <1>2, <2>3 DEF GetScaleSet
      <4> HIDE DEF k
      <4> QED BY <4>1, MoveEffect
    <3>2. k.at = next
      BY <1>0 DEF Jobs
    <3>3. scaleSet = None /\ next = "put" => ~cluster.clusterized /\ ~cluster.registered
      <4>1. j.seen = job[h].seen
        BY <1>0 DEF Jobs
      <4>2. scaleSet = None /\ next = "put" =>
              ~(job[h].seen.clusterized \/ job[h].seen.registered)
        BY <4>1 DEF Decision
      <4> QED BY <2>1, <4>2 DEF CreateInv
    <3>4. next # "get"
      BY DEF Decision
    <3> HIDE DEF k, next, j, n
    <3> QED
      BY <2>1, <3>1, <3>2, <3>3, <3>4 DEF CreateInv
  <2> QED
    BY <2>2, <2>3
<1>3. ASSUME NEW h \in Handlers, Tidy(h) PROVE CreateInv'
  <2>1. [job[h] EXCEPT !.at = "scale"].at = "scale"
    BY <1>0 DEF Jobs
  <2>2. scaleSet' = None => scaleSet = None
    <3>1. CASE scaleSet # None
      <4>1. sick' \in Nat /\ sick' <= sick
        BY <1>3 DEF Tidy, TypeOK
      <4>2. scaleSet \in [capacity : Nat, config : Configs] /\ sick <= scaleSet.capacity
        BY <3>1 DEF TypeOK
      <4>3. scaleSet.capacity - (sick - sick') \in Nat
        BY <4>1, <4>2 DEF TypeOK
      <4>4. scaleSet' = [scaleSet EXCEPT !.capacity = @ - (sick - sick')]
        BY <1>3, <3>1 DEF Tidy
      <4>5. scaleSet' \in [capacity : Nat, config : Configs]
        BY <4>2, <4>3, <4>4
      <4> QED
        BY <4>5, ScaleSetAssumption DEF Configs
    <3> QED
      BY <3>1
  <2> QED
    BY <1>3, <2>1, <2>2, MoveEffect, CreateKeeps DEF Tidy
<1>4. ASSUME NEW h \in Handlers, Put(h) PROVE CreateInv'
  <2>1. scaleSet' # None
    BY <1>0, <1>4, SetType DEF Put, Jobs
  <2> QED
    BY <2>1 DEF CreateInv
<1>5. ASSUME NEW h \in Handlers, StartResize(h) PROVE CreateInv'
  <2>1. PICK n \in Sizes :
          Move(h, [Idle(config) EXCEPT !.at = "write", !.seen = cluster, !.size = n])
    BY <1>5 DEF StartResize
  <2>2. [Idle(config) EXCEPT !.at = "write", !.seen = cluster, !.size = n].at = "write"
    BY DEF Idle
  <2> QED
    BY <1>5, <2>1, <2>2, MoveEffect, CreateKeeps DEF StartResize
<1>6. ASSUME NEW h \in Handlers, WriteDesired(h) PROVE CreateInv'
  <2>1. [job[h] EXCEPT !.at = "scale"].at = "scale"
    BY <1>0 DEF Jobs
  <2>2. job'[h].at \notin {"get", "put"} /\ \A g \in Handlers : g # h => job'[g] = job[g]
    BY <1>6, <2>1, MoveEffect, StopEffect DEF WriteDesired
  <2>3. cluster'.clusterized = cluster.clusterized /\ cluster'.registered = cluster.registered
    BY <1>6 DEF WriteDesired, TypeOK, Clusters
  <2> QED
    BY <1>6, <2>2, <2>3, CreateKeeps DEF WriteDesired
<1>7. ASSUME NEW h \in Handlers, GetCapacity(h) PROVE CreateInv'
  <2>1. [job[h] EXCEPT !.at = "patch"].at = "patch"
    BY <1>0 DEF Jobs
  <2>2. job'[h].at \notin {"get", "put"} /\ \A g \in Handlers : g # h => job'[g] = job[g]
    BY <1>7, <2>1, MoveEffect, StopEffect DEF GetCapacity
  <2> QED
    BY <1>7, <2>2, CreateKeeps DEF GetCapacity
<1>8. ASSUME NEW h \in Handlers, SetCapacity(h) PROVE CreateInv'
  <2>1. scaleSet # None => scaleSet' # None
    BY <1>0, <1>8, SetType DEF SetCapacity, Jobs, TypeOK
  <2> QED
    BY <1>8, <2>1, StopEffect, CreateKeeps DEF SetCapacity
<1>9. ASSUME NEW h \in Handlers, Fail(h) PROVE CreateInv'
  BY <1>9, StopEffect, CreateKeeps DEF Fail
<1>10. CASE Register
  BY <1>10 DEF Register, CreateInv
<1>11. CASE Clusterize
  <2>1. /\ cluster'.clusterized \/ cluster'.registered
        /\ cluster.clusterized \/ cluster.registered
    BY <1>11 DEF Clusterize, TypeOK, Clusters
  <2> QED
    BY <1>11, <2>1 DEF Clusterize, CreateInv
<1>12. CASE Reconfigure \/ Sicken
  BY <1>12 DEF Reconfigure, Sicken, CreateInv
<1>13. CASE Terminate
  <2>1. scaleSet' # None
    BY <1>13, ScaleSetAssumption DEF Terminate, TypeOK, Configs
  <2> QED
    BY <2>1 DEF CreateInv
<1>14. CASE DeleteScaleSet
  BY <1>14 DEF DeleteScaleSet, CreateInv
<1>15. CASE UNCHANGED vars
  BY <1>15 DEF vars, CreateInv
<1> QED
  BY <1>1, <1>2, <1>3, <1>4, <1>5, <1>6, <1>7, <1>8, <1>9, <1>10, <1>11, <1>12,
     <1>13, <1>14, <1>15 DEF Next, Step, Outside

\* Only the put of a scale set makes one where there was none.
LEMMA OnlyPutCreates ==
  ASSUME TypeOK, CreateInv, [Next]_vars, scaleSet = None, scaleSet' # None
  PROVE  ~cluster.clusterized /\ ~cluster.registered
<1>1. PICK h \in Handlers : Put(h)
  BY DEF Next, Step, Outside, vars, StartRun, GetScaleSet, Tidy, StartResize,
     WriteDesired, GetCapacity, SetCapacity, Fail, Register, Clusterize,
     Reconfigure, Sicken, Terminate, DeleteScaleSet
<1> QED
  BY <1>1 DEF Put, CreateInv

\* What a run has read of the state still tells whether it may create a scale
\* set, as long as there is none: nothing can register before.
THEOREM ReadStaysTrue == Spec => []CreateInv
<1> QED
  BY InitType, NextType, CreateInit, CreateStep, PTL DEF Spec

\* The property: a scale set that is gone is not replaced by a new one of the
\* initial size while the state describes a cluster (scale_up.go:114).
THEOREM NeverCreatedBlindly == Spec => NoBlindCreation
<1>1. TypeOK /\ CreateInv /\ [Next]_vars =>
        [scaleSet = None /\ scaleSet' # None =>
           ~cluster.clusterized /\ ~cluster.registered]_vars
  BY OnlyPutCreates
<1> QED
  BY <1>1, InitType, NextType, CreateInit, CreateStep, PTL DEF Spec, NoBlindCreation

-----------------------------------------------------------------------------
(* The sizes that were asked for.                                          *)

\* Initially the scale set is still to be created, with the initial size.
LEMMA AskedInit == Init => AskedInv
BY DEF Init, AskedInv, Idle

\* A handler that stops, or moves to a job with a size that was asked for,
\* keeps AskedInv when the capacity stays within one.
LEMMA AskedKeeps ==
  ASSUME AskedInv, NEW h \in Handlers,
         \A g \in Handlers : g # h => job'[g] = job[g],
         asked \subseteq asked', cluster'.desired \in asked',
         job'[h].at = "get" => job'[h].seen.desired \in asked',
         job'[h].at \in {"tidy", "put", "scale", "patch"} => job'[h].size \in asked',
         scaleSet' # None => \E n \in asked' : scaleSet'.capacity <= n
  PROVE  AskedInv'
BY DEF AskedInv

\* Every step keeps AskedInv.
LEMMA AskedStep == TypeOK /\ AskedInv /\ [Next]_vars => AskedInv'
<1> SUFFICES ASSUME TypeOK, AskedInv, [Next]_vars PROVE AskedInv'
  OBVIOUS
<1>0. \A h \in Handlers : job[h] \in Jobs
  BY DEF TypeOK
<1>a. cluster.desired \in asked /\ (scaleSet # None => \E n \in asked : scaleSet.capacity <= n)
  BY DEF AskedInv
<1> USE ScaleSetAssumption
<1>1. ASSUME NEW h \in Handlers, StartRun(h) PROVE AskedInv'
  <2> DEFINE k == [Idle(config) EXCEPT !.at = "get", !.seen = cluster]
  <2>1. k.at = "get" /\ k.seen = cluster /\ Move(h, k)
    BY <1>1 DEF Idle, StartRun
  <2> HIDE DEF k
  <2>2. \A g \in Handlers : job'[g] = IF g = h THEN k ELSE job[g]
    BY <2>1, MoveEffect
  <2> QED
    BY <1>1, <1>a, <2>1, <2>2, AskedKeeps DEF StartRun
<1>2. ASSUME NEW h \in Handlers, GetScaleSet(h) PROVE AskedInv'
  <2> DEFINE j == job[h]
             next == Decision(j, scaleSet)
  <2>1. UNCHANGED <<cluster, scaleSet, asked>> /\ job[h].at = "get"
    BY <1>2 DEF GetScaleSet
  <2>3. CASE next = "fail"
    BY <1>2, <1>a, <2>1, <2>3, StopEffect, AskedKeeps DEF GetScaleSet
  <2>4. CASE next # "fail"
    <3> DEFINE n == Wanted(j, scaleSet)
               k == [j EXCEPT !.at = next, !.size = n]
    <3>1. \A g \in Handlers : job'[g] = IF g = h THEN k ELSE job[g]
      <4>1. Move(h, k)
        BY <1>2, <2>4 DEF GetScaleSet
      <4> HIDE DEF k
      <4> QED BY <4>1, MoveEffect
    <3>2. n \in asked
      BY <2>1 DEF Wanted, AskedInv
    <3>3. k.at = next /\ k.size = n
      BY <1>0 DEF Jobs
    <3>4. next # "get"
      BY DEF Decision
    <3> HIDE DEF k, next, j, n
    <3> QED
      BY <1>a, <2>1, <3>1, <3>2, <3>3, <3>4, AskedKeeps
  <2> QED
    BY <2>3, <2>4
<1>3. ASSUME NEW h \in Handlers, Tidy(h) PROVE AskedInv'
  <2> DEFINE k == [job[h] EXCEPT !.at = "scale"]
  <2>1. k.at = "scale" /\ k.size \in asked
    BY <1>0, <1>3 DEF Jobs, Tidy, AskedInv
  <2>2. \A g \in Handlers : job'[g] = IF g = h THEN k ELSE job[g]
    <3>1. Move(h, k)
      BY <1>3 DEF Tidy
    <3> HIDE DEF k
    <3> QED BY <3>1, MoveEffect
  <2>3. scaleSet' # None => \E n \in asked : scaleSet'.capacity <= n
    <3>1. CASE scaleSet # None
      <4>1. sick' \in Nat /\ sick' <= sick /\ sick \in Nat
        BY <1>3 DEF Tidy, TypeOK
      <4>2. scaleSet \in [capacity : Nat, config : Configs]
        BY <3>1 DEF TypeOK
      <4>3. PICK n \in asked : scaleSet.capacity <= n /\ n \in Nat
        BY <1>a, <3>1 DEF TypeOK
      <4>4. scaleSet' = [scaleSet EXCEPT !.capacity = @ - (sick - sick')]
        BY <1>3, <3>1 DEF Tidy
      <4>5. scaleSet'.capacity = scaleSet.capacity - (sick - sick')
        BY <4>2, <4>4
      <4> QED BY <4>1, <4>2, <4>3, <4>5
    <3> QED
      BY <1>3, <3>1 DEF Tidy
  <2> HIDE DEF k
  <2> QED
    BY <1>3, <1>a, <2>1, <2>2, <2>3, AskedKeeps DEF Tidy
<1>4. ASSUME NEW h \in Handlers, Put(h) PROVE AskedInv'
  <2>1. job[h].size \in asked /\ job[h].size \in Nat
    BY <1>4, <1>0 DEF Put, AskedInv, Jobs
  <2>2. scaleSet'.capacity = job[h].size
    BY <1>4 DEF Put, SetScaleSet
  <2> QED
    BY <1>4, <1>a, <2>1, <2>2, StopEffect, AskedKeeps DEF Put
<1>5. ASSUME NEW h \in Handlers, StartResize(h) PROVE AskedInv'
  <2>1. PICK n \in Sizes :
          Move(h, [Idle(config) EXCEPT !.at = "write", !.seen = cluster, !.size = n])
    BY <1>5 DEF StartResize
  <2> DEFINE k == [Idle(config) EXCEPT !.at = "write", !.seen = cluster, !.size = n]
  <2>2. k.at = "write"
    BY DEF Idle
  <2> HIDE DEF k
  <2>3. \A g \in Handlers : job'[g] = IF g = h THEN k ELSE job[g]
    BY <2>1, MoveEffect DEF k
  <2> QED
    BY <1>5, <1>a, <2>2, <2>3, AskedKeeps DEF StartResize
<1>6. ASSUME NEW h \in Handlers, WriteDesired(h) PROVE AskedInv'
  <2> DEFINE k == [job[h] EXCEPT !.at = "scale"]
  <2>1. k.at = "scale" /\ k.size = job[h].size
    BY <1>0 DEF Jobs
  <2>2. Move(h, k) \/ Stop(h)
    BY <1>6 DEF WriteDesired
  <2>3. /\ \A g \in Handlers : g # h => job'[g] = job[g]
        /\ job'[h] = k \/ job'[h].at = "idle"
    <3> HIDE DEF k
    <3> QED BY <2>2, MoveEffect, StopEffect
  <2>4. cluster'.desired = job[h].size /\ asked' = asked \cup {job[h].size}
    BY <1>6 DEF WriteDesired, TypeOK, Clusters
  <2>5. UNCHANGED scaleSet
    BY <1>6 DEF WriteDesired
  <2> HIDE DEF k
  <2> QED
    BY <1>a, <2>1, <2>3, <2>4, <2>5, AskedKeeps
<1>7. ASSUME NEW h \in Handlers, GetCapacity(h) PROVE AskedInv'
  <2> DEFINE k == [job[h] EXCEPT !.at = "patch"]
  <2>1. k.at = "patch" /\ k.size \in asked
    BY <1>0, <1>7 DEF Jobs, GetCapacity, AskedInv
  <2>2. Move(h, k) \/ Stop(h)
    BY <1>7 DEF GetCapacity
  <2>3. /\ \A g \in Handlers : g # h => job'[g] = job[g]
        /\ job'[h] = k \/ job'[h].at = "idle"
    <3> HIDE DEF k
    <3> QED BY <2>2, MoveEffect, StopEffect
  <2> HIDE DEF k
  <2> QED
    BY <1>7, <1>a, <2>1, <2>3, AskedKeeps DEF GetCapacity
<1>8. ASSUME NEW h \in Handlers, SetCapacity(h) PROVE AskedInv'
  <2>1. job[h].size \in asked /\ job[h].size \in Nat
    BY <1>0, <1>8 DEF SetCapacity, AskedInv, Jobs
  <2>2. scaleSet' # None => scaleSet'.capacity = job[h].size
    BY <1>8 DEF SetCapacity, SetScaleSet
  <2> QED
    BY <1>8, <1>a, <2>1, <2>2, StopEffect, AskedKeeps DEF SetCapacity
<1>9. ASSUME NEW h \in Handlers, Fail(h) PROVE AskedInv'
  BY <1>9, <1>a, StopEffect, AskedKeeps DEF Fail
<1>10. CASE Register \/ Clusterize
  <2>1. cluster'.desired = cluster.desired /\ UNCHANGED <<scaleSet, job, asked>>
    BY <1>10 DEF Register, Clusterize, TypeOK, Clusters
  <2> QED
    BY <2>1 DEF AskedInv
<1>11. CASE Reconfigure \/ Sicken
  BY <1>11 DEF Reconfigure, Sicken, AskedInv
<1>12. CASE Terminate
  <2>1. scaleSet \in [capacity : Nat, config : Configs] /\ scaleSet # None
    BY <1>12 DEF Terminate, TypeOK
  <2>2. scaleSet'.capacity = scaleSet.capacity - 1 /\ UNCHANGED <<cluster, job, asked>>
    BY <1>12, <2>1 DEF Terminate
  <2>3. PICK n \in asked : scaleSet.capacity <= n /\ n \in Nat
    BY <1>a, <2>1 DEF TypeOK
  <2>4. scaleSet'.capacity <= n
    BY <2>1, <2>2, <2>3
  <2> QED
    BY <2>2, <2>3, <2>4 DEF AskedInv
<1>13. CASE DeleteScaleSet
  BY <1>13 DEF DeleteScaleSet, AskedInv
<1>14. CASE UNCHANGED vars
  BY <1>14 DEF vars, AskedInv
<1> QED
  BY <1>1, <1>2, <1>3, <1>4, <1>5, <1>6, <1>7, <1>8, <1>9, <1>10, <1>11, <1>12,
     <1>13, <1>14 DEF Next, Step, Outside

\* A handler that ends with a put or a patch has set the capacity to its size,
\* or has failed and left the scale set alone.
LEMMA SetsItsSize ==
  ASSUME TypeOK, [Next]_vars, NEW h \in Handlers,
         job[h].at \in {"put", "patch"}, job'[h].at = "idle",
         scaleSet' # scaleSet, scaleSet' # None
  PROVE  scaleSet'.capacity = job[h].size
<1>1. job'[h] # job[h]
  OBVIOUS
<1>2. ASSUME NEW g \in Handlers, StartRun(g) \/ GetScaleSet(g) \/ StartResize(g)
               \/ WriteDesired(g) \/ GetCapacity(g) \/ Fail(g)
      PROVE  FALSE
  BY <1>2 DEF StartRun, GetScaleSet, StartResize, WriteDesired, GetCapacity, Fail
<1>3. ASSUME NEW g \in Handlers, Put(g) \/ SetCapacity(g)
      PROVE  scaleSet'.capacity = job[h].size
  <2>1. g = h
    BY <1>1, <1>3, StopEffect DEF Put, SetCapacity
  <2> QED
    BY <1>3, <2>1 DEF Put, SetCapacity, SetScaleSet
<1>4. ASSUME NEW g \in Handlers, Tidy(g) PROVE FALSE
  <2>1. g # h
    BY <1>4 DEF Tidy
  <2>2. job'[h] = job[h]
    BY <1>4, <2>1 DEF Tidy, Move, TypeOK
  <2> QED BY <1>1, <2>2
<1>5. ASSUME Outside \/ UNCHANGED vars PROVE FALSE
  BY <1>1, <1>5 DEF Outside, Register, Clusterize, Reconfigure, Sicken, Terminate,
    DeleteScaleSet, vars
<1> QED
  BY <1>2, <1>3, <1>4, <1>5 DEF Next, Step

\* The scale set is never larger than a size that was asked for, and no run
\* works with another size, however old its copy of the state is.
THEOREM SizesAsked == Spec => []AskedInv
BY TypeCorrect, AskedInit, AskedStep, PTL DEF Spec

\* No overlap of runs and resizes, with sick machines and new configurations
\* coming and going, sets a capacity nobody asked for, and one that removes
\* machines sets the smaller of two sizes that were asked for: this is what
\* ScaleUp's check (common.go:1013) achieves without a lock.
THEOREM OnlyAskedSizesSet == Spec => SetsWhatWasAsked
<1> DEFINE Sets ==
      \A h \in Handlers :
        job[h].at \in {"put", "patch"} /\ job'[h].at = "idle"
          /\ scaleSet' # scaleSet /\ scaleSet' # None =>
          /\ scaleSet'.capacity \in asked
          /\ scaleSet # None /\ scaleSet'.capacity < scaleSet.capacity =>
               \E n \in asked : n >= scaleSet.capacity
<1>1. ASSUME TypeOK, AskedInv, [Next]_vars PROVE Sets
  <2> SUFFICES ASSUME NEW h \in Handlers,
                      job[h].at \in {"put", "patch"}, job'[h].at = "idle",
                      scaleSet' # scaleSet, scaleSet' # None
               PROVE  /\ scaleSet'.capacity \in asked
                      /\ scaleSet # None => \E n \in asked : n >= scaleSet.capacity
    OBVIOUS
  <2>1. scaleSet'.capacity \in asked
    BY <1>1, SetsItsSize DEF AskedInv
  <2>2. ASSUME scaleSet # None PROVE \E n \in asked : n >= scaleSet.capacity
    <3>1. PICK n \in asked : scaleSet.capacity <= n
      BY <1>1, <2>2 DEF AskedInv
    <3>2. n \in Nat /\ scaleSet.capacity \in Nat
      BY <1>1, <2>2 DEF TypeOK
    <3> QED
      BY <3>1, <3>2
  <2> QED
    BY <2>1, <2>2
<1>2. TypeOK /\ AskedInv /\ [Next]_vars => [Sets]_vars
  BY <1>1
<1> QED
  BY <1>2, TypeCorrect, SizesAsked, PTL DEF Spec, SetsWhatWasAsked

\* What ScaleUpGrows asks of a step, as long as there was one size only.
GrowsIfOneSize ==
  asked = {InitialSize} => \A h \in Handlers :
    job[h].at \in {"put", "patch"} /\ job'[h].at = "idle"
      /\ scaleSet # None /\ scaleSet' # None =>
      scaleSet'.capacity >= scaleSet.capacity

\* Until a resize writes another size no overlap of scale_up runs makes one of
\* them shrink the scale set: it takes a resize to violate ScaleUpGrows.
THEOREM GrowsTillResize == Spec => [][GrowsIfOneSize]_vars
<1>1. ASSUME TypeOK, AskedInv, [Next]_vars PROVE GrowsIfOneSize
  <2> SUFFICES ASSUME asked = {InitialSize}, NEW h \in Handlers,
                      job[h].at \in {"put", "patch"}, job'[h].at = "idle",
                      scaleSet # None, scaleSet' # None
               PROVE  scaleSet'.capacity >= scaleSet.capacity
    BY DEF GrowsIfOneSize
  <2>1. scaleSet.capacity \in Nat /\ scaleSet.capacity <= InitialSize /\ InitialSize \in Nat
    BY <1>1, ScaleSetAssumption DEF TypeOK, AskedInv
  <2>2. scaleSet' = scaleSet \/ scaleSet'.capacity = InitialSize
    BY <1>1, SetsItsSize DEF AskedInv
  <2> QED
    BY <2>1, <2>2
<1>2. TypeOK /\ AskedInv /\ [Next]_vars => [GrowsIfOneSize]_vars
  BY <1>1
<1> QED
  BY <1>2, TypeCorrect, SizesAsked, PTL DEF Spec
=============================================================================
