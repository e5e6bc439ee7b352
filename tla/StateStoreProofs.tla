-------------------------- MODULE StateStoreProofs --------------------------
(***************************************************************************)
(* Proofs about StateStore, for any number of handlers, machines, reports, *)
(* updates and sizes.                                                      *)
(***************************************************************************)
EXTENDS StateStore, TLAPS

\* What an operation writes is a cluster state when what it read is one.
LEMMA AppliedType ==
  ASSUME NEW c \in Calls, NEW s \in ClusterStates
  PROVE  Applied(c, s) \in ClusterStates
<1>1. InitialState \in ClusterStates
  BY SizeAssumption DEF InitialState, ClusterStates
<1>2. CASE c.op = "clusterize"
  <2>1. c.arg \in VMs
    BY <1>2 DEF Calls
  <2>2. Append(s.instances, c.arg) \in Seq(VMs)
    BY <2>1 DEF ClusterStates
  <2>3. QED
    BY <1>2, <2>2 DEF Applied, ClusterStates
<1>3. CASE c.op = "finalize"
  <2>1. <<>> \in Seq(VMs)
    OBVIOUS
  <2>2. QED
    BY <1>3, <2>1 DEF Applied, ClusterStates
<1>4. CASE c.op = "report"
  BY <1>4 DEF Applied, ClusterStates, Calls
<1>5. CASE c.op = "update"
  BY <1>5 DEF Applied, ClusterStates, Calls
<1>6. CASE c.op = "resize"
  BY <1>6, SizeAssumption DEF Applied, ClusterStates, Calls
<1>7. CASE c.op = "create"
  BY <1>1, <1>7 DEF Applied
<1>8. QED
  BY <1>2, <1>3, <1>4, <1>5, <1>6, <1>7 DEF Calls

\* The initial state is well typed.
LEMMA InitType == Init => TypeOK
BY SizeAssumption, ModelAssumption DEF Init, TypeOK, InitialState, ClusterStates, NoCall

\* Every step of a handler, and the end of a lease, keeps the types.
LEMMA NextType == TypeOK /\ [Next]_vars => TypeOK'
<1> SUFFICES ASSUME TypeOK, [Next]_vars
             PROVE  TypeOK'
  OBVIOUS
<1> USE DEF TypeOK
<1>1. ASSUME NEW h \in Handlers, Call(h)
      PROVE  TypeOK'
  BY <1>1 DEF Call, FirstStep
<1>2. ASSUME NEW h \in Handlers, Acquire(h)
      PROVE  TypeOK'
  BY <1>2 DEF Acquire
<1>3. ASSUME NEW h \in Handlers, GiveUp(h)
      PROVE  TypeOK'
  BY <1>3 DEF GiveUp
<1>4. ASSUME NEW h \in Handlers, Read(h)
      PROVE  TypeOK'
  BY <1>4 DEF Read, Verdict
<1>5. ASSUME NEW h \in Handlers, ReadFails(h)
      PROVE  TypeOK'
  BY <1>5 DEF ReadFails
<1>6. ASSUME NEW h \in Handlers, CheckExists(h)
      PROVE  TypeOK'
  BY <1>6 DEF CheckExists
<1>7. ASSUME NEW h \in Handlers, Write(h)
      PROVE  TypeOK'
  <2>1. state' \in ClusterStates
    BY <1>7, AppliedType DEF Write
  <2>2. QED
    BY <1>7, <2>1 DEF Write
<1>8. ASSUME NEW h \in Handlers, WriteFails(h)
      PROVE  TypeOK'
  <2>1. state' \in ClusterStates
    BY <1>8, AppliedType DEF WriteFails
  <2>2. QED
    BY <1>8, <2>1 DEF WriteFails
<1>9. ASSUME NEW h \in Handlers, Return(h)
      PROVE  TypeOK'
  <2>1. InitialState \in ClusterStates
    BY SizeAssumption DEF InitialState, ClusterStates
  <2>2. QED
    BY <1>9, <2>1 DEF Return, Done
<1>10. ASSUME NEW h \in Handlers, Crash(h)
      PROVE  TypeOK'
  <2>1. InitialState \in ClusterStates
    BY SizeAssumption DEF InitialState, ClusterStates
  <2>2. QED
    BY <1>10, <2>1 DEF Crash, Done
<1>11. CASE Expire
  BY <1>11 DEF Expire
<1>12. CASE UNCHANGED vars
  BY <1>12 DEF vars
<1>13. QED
  BY <1>1, <1>2, <1>3, <1>4, <1>5, <1>6, <1>7, <1>8, <1>9, <1>10, <1>11, <1>12
  DEF Next, Step

\* The program's cluster state is well typed in every execution: however the
\* storage calls of the handlers interleave, fail or are cut short.
THEOREM TypeCorrect == Spec => []TypeOK
<1>1. QED
  BY InitType, NextType, PTL DEF Spec

-----------------------------------------------------------------------------
(* The registration phase.                                                 *)

\* What an upload does to the list of machines and to the clusterized flag.
Joins(h) ==
  /\ call[h].op = "clusterize"
  /\ ~state.clusterized /\ ~state'.clusterized
  /\ Len(state.instances) < InitialSize
  /\ state'.instances = Append(state.instances, call[h].arg)

Closes(h) ==
  /\ call[h].op = "finalize"
  /\ state'.instances = <<>>
  /\ state'.clusterized

Keeps ==
  /\ state'.instances = state.instances
  /\ state'.clusterized = state.clusterized

\* What an upload does to the list and to whether it is closed: a registration
\* appends, finalization empties and closes, everything else leaves both alone.
LEMMA UploadEffect ==
  ASSUME TypeOK, RegistrationInv, NEW h \in Handlers,
         pc[h] \in {"write", "create"},
         state' = Applied(call[h], snap[h])
  PROVE  /\ snap[h].instances = state.instances \/ pc[h] = "create"
         /\ Joins(h) \/ Closes(h) \/ (call[h].op \notin {"clusterize", "finalize"} /\ Keeps)
<1>1. /\ call[h] \in Calls
      /\ snap[h] \in ClusterStates
      /\ state \in ClusterStates
  BY DEF TypeOK
<1>2. CASE pc[h] = "create"
  <2>1. call[h].op = "create"
    BY <1>2 DEF RegistrationInv, CallInv
  <2>2. state.instances = <<>> /\ ~state.clusterized
    BY <1>2 DEF RegistrationInv, CreateInv
  <2>3. state' = InitialState
    BY <2>1 DEF Applied
  <2>4. state'.instances = <<>> /\ state'.clusterized = FALSE
    BY <2>3 DEF InitialState
  <2>5. state.clusterized = FALSE
    BY <1>1, <2>2 DEF ClusterStates
  <2>6. QED
    BY <1>2, <2>1, <2>2, <2>4, <2>5 DEF Keeps
<1>3. CASE pc[h] = "write"
  <2>1. /\ snap[h].instances = state.instances
        /\ snap[h].clusterized = state.clusterized
        /\ Verdict(call[h], snap[h]) = "ok"
    BY <1>3 DEF RegistrationInv, FreshInv
  <2>2. call[h].op # "create"
    BY <1>3 DEF RegistrationInv, CallInv
  <2>3. CASE call[h].op = "clusterize"
    <3>1. ~state.clusterized /\ ~(Len(state.instances) >= InitialSize)
      BY <2>1, <2>3 DEF Verdict
    <3>2. Len(state.instances) \in Nat
      BY <1>1 DEF ClusterStates
    <3>3. Len(state.instances) < InitialSize
      BY <3>1, <3>2, SizeAssumption
    <3>4. state' = [snap[h] EXCEPT !.instances = Append(@, call[h].arg)]
      BY <2>3 DEF Applied
    <3>5. /\ state'.instances = Append(snap[h].instances, call[h].arg)
          /\ state'.clusterized = snap[h].clusterized
      BY <1>1, <3>4 DEF ClusterStates
    <3>6. QED
      BY <2>1, <2>3, <3>1, <3>3, <3>5 DEF Joins
  <2>4. CASE call[h].op = "finalize"
    BY <1>1, <2>1, <2>4 DEF Applied, ClusterStates, Closes
  <2>5. CASE call[h].op = "report"
    BY <1>1, <2>1, <2>5 DEF Applied, ClusterStates, Keeps
  <2>6. CASE call[h].op = "update"
    BY <1>1, <2>1, <2>6 DEF Applied, ClusterStates, Keeps
  <2>7. CASE call[h].op = "resize"
    BY <1>1, <2>1, <2>7 DEF Applied, ClusterStates, Keeps
  <2>8. QED
    BY <1>1, <2>1, <2>2, <2>3, <2>4, <2>5, <2>6, <2>7 DEF Calls
<1>4. QED
  BY <1>2, <1>3

\* A machine that is registered stays so when another one joins.
LEMMA JoinRegisters ==
  ASSUME TypeOK, NEW h \in Handlers, call[h] \in Calls, Joins(h)
  PROVE  /\ \E i \in DOMAIN state'.instances : state'.instances[i] = call[h].arg
         /\ \A v : Registered(v) => Registered(v)'
         /\ Len(state'.instances) = Len(state.instances) + 1
<1> DEFINE L == state.instances
           m == call[h].arg
<1>1. L \in Seq(VMs) /\ m \in VMs
  BY DEF TypeOK, ClusterStates, Joins, Calls
<1>2. state'.instances = Append(L, m)
  BY DEF Joins
<1>3. /\ Len(Append(L, m)) = Len(L) + 1
      /\ DOMAIN Append(L, m) = 1..(Len(L) + 1)
      /\ Append(L, m)[Len(L) + 1] = m
      /\ \A i \in DOMAIN L : i \in DOMAIN Append(L, m) /\ Append(L, m)[i] = L[i]
  BY <1>1
<1>4. Len(L) + 1 \in DOMAIN Append(L, m)
  BY <1>1, <1>3
<1> HIDE DEF L, m
<1>5. \E i \in DOMAIN Append(L, m) : Append(L, m)[i] = m
  BY <1>3, <1>4
<1>6. \A v : (\E i \in DOMAIN L : L[i] = v)
             => \E i \in DOMAIN Append(L, m) : Append(L, m)[i] = v
  BY <1>3
<1>7. \E i \in DOMAIN state'.instances : state'.instances[i] = m
  BY <1>2, <1>5
<1>8. \A v : Registered(v) => Registered(v)'
  BY <1>2, <1>6 DEF Registered, L
<1>9. Len(state'.instances) = Len(L) + 1
  BY <1>2, <1>3
<1>10. QED
  BY <1>7, <1>8, <1>9 DEF L, m

\* An upload, acknowledged or not, keeps every conjunct that does not count
\* elections.
LEMMA UploadKeeps ==
  ASSUME TypeOK, TypeOK', RegistrationInv, NEW h \in Handlers,
         pc[h] \in {"write", "create"},
         state' = Applied(call[h], snap[h]), exists',
         pc' = [pc EXCEPT ![h] = "return"],
         UNCHANGED <<lease, call, snap, acked>>,
         \A g \in Handlers : g # h => outcome'[g] = outcome[g]
  PROVE  LeaseInv' /\ FreshInv' /\ KeptInv'
<1> USE DEF TypeOK, RegistrationInv
<1>1. \/ Joins(h) \/ Closes(h)
      \/ call[h].op \notin {"clusterize", "finalize"} /\ Keeps
  BY UploadEffect
<1>2. LeaseInv'
  BY DEF LeaseInv, InSection, CallInv, LockedOps
<1>3. FreshInv'
  <2> SUFFICES ASSUME NEW g \in Handlers, pc'[g] = "write"
               PROVE  /\ snap[g].instances = state'.instances
                      /\ snap[g].clusterized = state'.clusterized
                      /\ Verdict(call[g], snap[g]) = "ok"
    BY DEF FreshInv
  <2>1. /\ g # h /\ pc[g] = "write"
        /\ snap[g].instances = state.instances
        /\ snap[g].clusterized = state.clusterized
        /\ Verdict(call[g], snap[g]) = "ok"
    BY DEF FreshInv
  <2>2. CASE Keeps
    BY <2>1, <2>2 DEF Keeps
  <2>3. CASE Joins(h) \/ Closes(h)
    <3>1. pc[h] = "write" /\ call[h].op \in LockedOps
      BY <2>3 DEF Joins, Closes, CallInv, LockedOps
    <3>2. lease = h
      BY <3>1 DEF LeaseInv, InSection
    <3>3. call[g].op \notin LockedOps
      BY <2>1, <3>2 DEF LeaseInv, InSection
    <3>4. call[g].op = "resize"
      BY <2>1, <3>3 DEF CallInv, LockedOps, Calls
    <3>5. state.clusterized
      BY <2>1, <3>4 DEF Verdict
    <3>6. state.instances = <<>> /\ Closes(h)
      BY <2>3, <3>5 DEF ElectedInv, Joins
    <3>7. state.clusterized = TRUE /\ state'.clusterized = TRUE
      BY <3>5, <3>6 DEF Closes, ClusterStates
    <3>8. QED
      BY <2>1, <3>6, <3>7 DEF Closes
  <2>4. QED
    BY <1>1, <2>2, <2>3
<1>4. KeptInv'
  <2>1. CASE Joins(h)
    <3>1. /\ \E i \in DOMAIN state'.instances : state'.instances[i] = call[h].arg
          /\ \A v : Registered(v) => Registered(v)'
      BY <2>1, JoinRegisters
    <3>2. ~state.clusterized
      BY <2>1 DEF Joins
    <3>3. \A g \in Handlers :
            pc'[g] = "return" /\ outcome'[g] = "ok" /\ call[g].op = "clusterize" =>
              Registered(call[g].arg)'
      <4> SUFFICES ASSUME NEW g \in Handlers,
                          pc'[g] = "return", outcome'[g] = "ok",
                          call[g].op = "clusterize"
                   PROVE  \E i \in DOMAIN state'.instances :
                            state'.instances[i] = call[g].arg
        BY DEF Registered
      <4>1. CASE g = h
        BY <3>1, <4>1
      <4>2. CASE g # h
        <5>1. Registered(call[g].arg)
          BY <3>2, <4>2 DEF KeptInv
        <5>2. \A v : Registered(v) => \E i \in DOMAIN state'.instances :
                                        state'.instances[i] = v
          BY <3>1 DEF Registered
        <5>3. QED
          BY <5>1, <5>2
      <4>3. QED
        BY <4>1, <4>2
    <3>4. \A c \in acked : c.op = "clusterize" => Registered(c.arg)'
      BY <3>1, <3>2 DEF KeptInv
    <3>5. QED
      BY <3>3, <3>4 DEF KeptInv, Registered
  <2>2. CASE Closes(h)
    BY <2>2 DEF Closes, KeptInv
  <2>3. CASE call[h].op \notin {"clusterize", "finalize"} /\ Keeps
    BY <2>3 DEF Keeps, KeptInv, Registered
  <2>4. QED
    BY <1>1, <2>1, <2>2, <2>3
<1>5. QED
  BY <1>2, <1>3, <1>4

\* The strengthened invariant holds initially: nobody is registered.
LEMMA RegistrationInit == Init => RegistrationInv
BY SizeAssumption DEF Init, InitialState, NoCall, RegistrationInv, CallInv, LeaseInv,
   FreshInv, CreateInv, ElectedInv, KeptInv

\* Every step keeps the strengthened invariant when no handler outlives its
\* lease.
LEMMA RegistrationStep ==
  ASSUME ~Stalls, TypeOK, RegistrationInv, [Next]_vars
  PROVE  RegistrationInv'
<1> USE DEF TypeOK, RegistrationInv
<1>1. ASSUME NEW h \in Handlers, Call(h)
      PROVE  RegistrationInv'
  <2>1. PICK c \in Calls : /\ CanBeCalled(c)
                            /\ call' = [call EXCEPT ![h] = c]
                            /\ pc' = [pc EXCEPT ![h] = FirstStep(c)]
    BY <1>1 DEF Call
  <2>2. UNCHANGED <<exists, state, lease, snap, outcome, acked, elected>> /\ pc[h] = "idle"
    BY <1>1 DEF Call
  <2>3. CallInv'
    BY <2>1, <2>2 DEF CallInv, FirstStep, CanBeCalled, LockedOps, ElectedInv
  <2>4. LeaseInv'
    BY <2>1, <2>2 DEF LeaseInv, FirstStep, InSection, LockedOps
  <2>5. FreshInv'
    BY <2>1, <2>2 DEF FreshInv, FirstStep
  <2>6. CreateInv'
    BY <2>1, <2>2 DEF CreateInv, FirstStep, CanBeCalled, LockedOps
  <2>7. ElectedInv' /\ KeptInv'
    BY <2>1, <2>2 DEF ElectedInv, KeptInv, FirstStep, Registered
  <2>8. QED
    BY <2>3, <2>4, <2>5, <2>6, <2>7
<1>2. ASSUME NEW h \in Handlers, Acquire(h)
      PROVE  RegistrationInv'
  <2>1. CallInv'
    BY <1>2 DEF Acquire, CallInv, LockedOps
  <2>2. LeaseInv'
    BY <1>2, ModelAssumption DEF Acquire, LeaseInv, InSection
  <2>3. FreshInv' /\ CreateInv'
    BY <1>2 DEF Acquire, FreshInv, CreateInv
  <2>4. ElectedInv' /\ KeptInv'
    BY <1>2 DEF Acquire, ElectedInv, KeptInv, Registered
  <2>5. QED
    BY <2>1, <2>2, <2>3, <2>4
<1>3. ASSUME NEW h \in Handlers, GiveUp(h)
      PROVE  RegistrationInv'
  <2>1. CallInv' /\ LeaseInv'
    BY <1>3 DEF GiveUp, CallInv, LeaseInv, InSection
  <2>2. FreshInv' /\ CreateInv'
    BY <1>3 DEF GiveUp, FreshInv, CreateInv
  <2>3. ElectedInv' /\ KeptInv'
    BY <1>3 DEF GiveUp, ElectedInv, KeptInv, Registered
  <2>4. QED
    BY <2>1, <2>2, <2>3
<1>4. ASSUME NEW h \in Handlers, Read(h)
      PROVE  RegistrationInv'
  <2>1. CallInv' /\ LeaseInv'
    BY <1>4 DEF Read, CallInv, LeaseInv, InSection
  <2>2. FreshInv'
    BY <1>4 DEF Read, FreshInv
  <2>3. CreateInv' /\ ElectedInv'
    BY <1>4 DEF Read, CreateInv, ElectedInv
  <2>4. KeptInv'
    BY <1>4 DEF Read, KeptInv, Registered
  <2>5. QED
    BY <2>1, <2>2, <2>3, <2>4
<1>5. ASSUME NEW h \in Handlers, ReadFails(h)
      PROVE  RegistrationInv'
  <2>1. CallInv' /\ LeaseInv'
    BY <1>5 DEF ReadFails, CallInv, LeaseInv, InSection
  <2>2. FreshInv' /\ CreateInv' /\ ElectedInv'
    BY <1>5 DEF ReadFails, FreshInv, CreateInv, ElectedInv
  <2>3. KeptInv'
    BY <1>5 DEF ReadFails, KeptInv, Registered
  <2>4. QED
    BY <2>1, <2>2, <2>3
<1>6. ASSUME NEW h \in Handlers, CheckExists(h)
      PROVE  RegistrationInv'
  <2>1. CallInv' /\ LeaseInv'
    BY <1>6 DEF CheckExists, CallInv, LeaseInv, InSection, LockedOps
  <2>2. FreshInv' /\ CreateInv' /\ ElectedInv'
    BY <1>6 DEF CheckExists, FreshInv, CreateInv, ElectedInv
  <2>3. KeptInv'
    BY <1>6 DEF CheckExists, KeptInv, Registered, CallInv
  <2>4. QED
    BY <2>1, <2>2, <2>3
<1>7. ASSUME NEW h \in Handlers, Write(h)
      PROVE  RegistrationInv'
  <2>1. /\ pc[h] \in {"write", "create"}
        /\ state' = Applied(call[h], snap[h]) /\ exists'
        /\ pc' = [pc EXCEPT ![h] = "return"]
        /\ elected' = IF IsLast(call[h], snap[h]) /\ elected < 2
                      THEN elected + 1 ELSE elected
        /\ UNCHANGED <<lease, call, snap, outcome, acked>>
    BY <1>7 DEF Write
  <2>2. \/ Joins(h) \/ Closes(h)
        \/ call[h].op \notin {"clusterize", "finalize"} /\ Keeps
    BY <2>1, UploadEffect
  <2>3. LeaseInv' /\ FreshInv' /\ KeptInv'
    BY <2>1, NextType, UploadKeeps
  <2>4. ElectedInv'
    <3>1. CASE Joins(h)
      <4>1. /\ Len(state'.instances) = Len(state.instances) + 1
            /\ Len(state.instances) \in Nat
        <5>1. Len(state'.instances) = Len(state.instances) + 1
          BY <2>1, <3>1, JoinRegisters
        <5>2. QED
          BY <5>1 DEF ClusterStates
      <4>2. IsLast(call[h], snap[h])
              <=> Len(state.instances) + 1 = ClusterizationTarget
        BY <2>1, <3>1, <4>1 DEF IsLast, Joins
      <4>3. ~state.clusterized /\ ~state'.clusterized
        BY <3>1 DEF Joins
      <4>4. QED
        BY <2>1, <4>1, <4>2, <4>3, SizeAssumption DEF ElectedInv
    <3>2. CASE Closes(h)
      BY <2>1, <3>2 DEF Closes, CallInv, ElectedInv, IsLast
    <3>3. CASE call[h].op \notin {"clusterize", "finalize"} /\ Keeps
      BY <2>1, <3>3 DEF Keeps, ElectedInv, IsLast
    <3>4. QED
      BY <2>2, <3>1, <3>2, <3>3
  <2>5. elected' = elected \/ (elected = 0 /\ call[h].op = "clusterize")
    BY <2>1, <2>4 DEF ElectedInv, IsLast
  <2>6. CallInv'
    BY <2>1, <2>5 DEF CallInv
  <2>7. CreateInv'
    BY <2>1, <2>2, <2>5 DEF CreateInv, LockedOps, Joins, Closes, Keeps
  <2>8. QED
    BY <2>3, <2>4, <2>6, <2>7
<1>8. ASSUME NEW h \in Handlers, WriteFails(h)
      PROVE  RegistrationInv'
  <2>1. /\ pc[h] \in {"write", "create"}
        /\ pc' = [pc EXCEPT ![h] = "return"]
        /\ outcome' = [outcome EXCEPT ![h] = "error"]
        /\ UNCHANGED <<lease, call, snap, acked, elected>>
    BY <1>8 DEF WriteFails
  <2>2. CallInv'
    BY <2>1 DEF CallInv
  <2>3. CASE UNCHANGED <<exists, state>>
    <3>1. LeaseInv'
      BY <2>1 DEF LeaseInv, InSection, CallInv, LockedOps
    <3>2. FreshInv' /\ CreateInv' /\ ElectedInv'
      BY <2>1, <2>3 DEF FreshInv, CreateInv, ElectedInv
    <3>3. KeptInv'
      BY <2>1, <2>3 DEF KeptInv, Registered
    <3>4. QED
      BY <2>2, <3>1, <3>2, <3>3
  <2>4. CASE exists' /\ state' = Applied(call[h], snap[h])
    <3>1. \/ Joins(h) \/ Closes(h)
          \/ call[h].op \notin {"clusterize", "finalize"} /\ Keeps
      BY <2>1, <2>4, UploadEffect
    <3>2. \A g \in Handlers : g # h => outcome'[g] = outcome[g]
      BY <2>1
    <3>3. LeaseInv' /\ FreshInv' /\ KeptInv'
      BY <2>1, <2>4, <3>2, NextType, UploadKeeps
    <3>4. Joins(h) => /\ Len(state'.instances) = Len(state.instances) + 1
                      /\ Len(state.instances) \in Nat
      BY <2>1, JoinRegisters DEF ClusterStates
    <3>5. ElectedInv'
      BY <2>1, <3>1, <3>4, SizeAssumption
      DEF ElectedInv, Joins, Closes, Keeps, CallInv
    <3>6. CreateInv'
      BY <2>1, <2>4, <3>1 DEF CreateInv, LockedOps, Joins, Closes, Keeps
    <3>7. QED
      BY <2>2, <3>3, <3>5, <3>6
  <2>5. QED
    BY <1>8, <2>3, <2>4 DEF WriteFails
<1>9. ASSUME NEW h \in Handlers, Return(h)
      PROVE  RegistrationInv'
  <2>1. CallInv' /\ LeaseInv'
    BY <1>9, ModelAssumption DEF Return, Done, CallInv, LeaseInv, InSection
  <2>2. FreshInv' /\ CreateInv' /\ ElectedInv'
    BY <1>9 DEF Return, Done, FreshInv, CreateInv, ElectedInv
  <2>3. KeptInv'
    BY <1>9 DEF Return, Done, KeptInv, Registered
  <2>4. QED
    BY <2>1, <2>2, <2>3
<1>10. ASSUME NEW h \in Handlers, Crash(h)
      PROVE  RegistrationInv'
  <2>1. CallInv' /\ LeaseInv'
    BY <1>10, ModelAssumption DEF Crash, Done, CallInv, LeaseInv, InSection
  <2>2. FreshInv' /\ CreateInv' /\ ElectedInv'
    BY <1>10 DEF Crash, Done, FreshInv, CreateInv, ElectedInv
  <2>3. KeptInv'
    BY <1>10 DEF Crash, Done, KeptInv, Registered
  <2>4. QED
    BY <2>1, <2>2, <2>3
<1>11. CASE Expire
  <2>1. lease \notin Handlers /\ lease' = Free
    BY <1>11, ModelAssumption DEF Expire
  <2>2. UNCHANGED <<exists, state, pc, call, snap, outcome, acked, elected>>
    BY <1>11 DEF Expire
  <2>3. LeaseInv'
    BY <2>1, <2>2 DEF LeaseInv, InSection
  <2>4. QED
    BY <2>2, <2>3 DEF CallInv, FreshInv, CreateInv, ElectedInv, KeptInv, Registered
<1>12. CASE UNCHANGED vars
  BY <1>12 DEF vars, CallInv, LeaseInv, InSection, FreshInv, CreateInv, ElectedInv,
     KeptInv, Registered
<1>13. QED
  BY <1>1, <1>2, <1>3, <1>4, <1>5, <1>6, <1>7, <1>8, <1>9, <1>10, <1>11, <1>12
  DEF Next, Step

\* The strengthened invariant of the registration phase: the lease excludes,
\* what a handler is about to write agrees with the blob, and the list passes
\* the target once.
THEOREM RegistrationSafe == ASSUME ~Stalls PROVE Spec => []RegistrationInv
<1>1. RegistrationInv /\ TypeOK /\ [Next]_vars => RegistrationInv'
  BY RegistrationStep
<1>2. QED
  BY <1>1, RegistrationInit, TypeCorrect, PTL DEF Spec

\* At most one machine is ever told to form the cluster.
THEOREM OneClusterizer == ASSUME ~Stalls PROVE Spec => []SingleClusterizer
<1>1. RegistrationInv => SingleClusterizer
  BY DEF RegistrationInv, ElectedInv, SingleClusterizer
<1>2. QED
  BY <1>1, RegistrationSafe, PTL

\* An acknowledged registration is in the list until the cluster is formed.
THEOREM RegistrationsStay == ASSUME ~Stalls PROVE Spec => []RegistrationsKept
<1>1. RegistrationInv => RegistrationsKept
  BY DEF RegistrationInv, KeptInv, RegistrationsKept
<1>2. QED
  BY <1>1, RegistrationSafe, PTL

-----------------------------------------------------------------------------
(* The detailed specification implements the atomic one.                   *)

\* Initial states map to initial states of the atomic specification.
LEMMA SimulationInit == Init => Atomic!Init
BY DEF Init, InitialState, Atomic!Init

\* Every step maps to one registration, one finalization or a stutter.
LEMMA Simulation ==
  ASSUME ~Stalls, TypeOK, TypeOK', RegistrationInv, RegistrationInv', [Next]_vars
  PROVE  [Atomic!Register \/ Atomic!Finalize]_(Atomic!ledger)
<1> USE DEF Atomic!ledger
<1>1. ASSUME UNCHANGED <<state, elected>>
      PROVE  UNCHANGED Atomic!ledger
  BY <1>1
<1>2. ASSUME NEW h \in Handlers,
             pc[h] \in {"write", "create"},
             state' = Applied(call[h], snap[h]),
             elected' \in {elected, IF IsLast(call[h], snap[h]) /\ elected < 2
                                    THEN elected + 1 ELSE elected}
      PROVE  [Atomic!Register \/ Atomic!Finalize]_(Atomic!ledger)
  <2>1. call[h] \in Calls
    BY <1>2 DEF TypeOK
  <2>2. CASE Joins(h)
    <3>1. call[h].arg \in VMs
      BY <2>1, <2>2 DEF Joins, Calls
    <3>2. state.clusterized = FALSE /\ state'.clusterized = FALSE
      BY <2>2 DEF Joins, TypeOK, ClusterStates
    <3>3. IsLast(call[h], snap[h]) <=> Len(state'.instances) = ClusterizationTarget
      BY <1>2, <2>2 DEF Joins, IsLast
    <3>4. elected \in {0, 1} /\ elected' \in {0, 1}
      BY DEF RegistrationInv, ElectedInv, TypeOK
    <3>5. elected' \in IF Len(state'.instances) = ClusterizationTarget
                       THEN {elected, 1} ELSE {elected}
      BY <1>2, <3>3, <3>4
    <3>6. Atomic!Register
      BY <2>2, <3>1, <3>2, <3>5 DEF Atomic!Register, Joins
    <3>7. QED
      BY <3>6
  <2>3. CASE Closes(h)
    <3>1. elected = 1
      BY <1>2, <2>3 DEF Closes, RegistrationInv, CallInv
    <3>2. elected' = 1
      BY <1>2, <2>3, <3>1 DEF Closes, IsLast
    <3>3. state'.clusterized = TRUE
      BY <2>3 DEF Closes, TypeOK, ClusterStates
    <3>4. Atomic!Finalize
      BY <2>3, <3>1, <3>2, <3>3 DEF Closes, Atomic!Finalize
    <3>5. QED
      BY <3>4
  <2>4. CASE call[h].op \notin {"clusterize", "finalize"} /\ Keeps
    BY <1>2, <2>4 DEF Keeps, IsLast
  <2>5. QED
    BY <1>2, <2>2, <2>3, <2>4, UploadEffect
<1>3. ASSUME NEW h \in Handlers, Write(h)
      PROVE  [Atomic!Register \/ Atomic!Finalize]_(Atomic!ledger)
  BY <1>2, <1>3 DEF Write
<1>4. ASSUME NEW h \in Handlers, WriteFails(h)
      PROVE  [Atomic!Register \/ Atomic!Finalize]_(Atomic!ledger)
  BY <1>1, <1>2, <1>4 DEF WriteFails
<1>5. ASSUME NEW h \in Handlers,
             \/ Call(h) \/ Acquire(h) \/ GiveUp(h) \/ Read(h) \/ ReadFails(h)
             \/ CheckExists(h) \/ Return(h) \/ Crash(h)
      PROVE  UNCHANGED <<state, elected>>
  BY <1>5 DEF Call, Acquire, GiveUp, Read, ReadFails, CheckExists, Return, Crash, Done
<1>6. QED
  BY <1>1, <1>3, <1>4, <1>5 DEF Next, Step, Expire, vars

\* Every handler takes effect on the registration list in one atomic step,
\* or not at all.
THEOREM RegistrationRefined == ASSUME ~Stalls PROVE Spec => ImplementsRegistration
<1>1. TypeOK /\ TypeOK' /\ RegistrationInv /\ RegistrationInv' /\ [Next]_vars
        => [Atomic!Register \/ Atomic!Finalize]_(Atomic!ledger)
  BY Simulation
<1>2. QED
  BY <1>1, SimulationInit, TypeCorrect, RegistrationSafe, PTL
  DEF Spec, ImplementsRegistration, Atomic!Spec

\* Once formed, the cluster is never taken back to the registration phase.
THEOREM ClusterizedForGood == ASSUME ~Stalls PROVE Spec => StaysClusterized
<1>1. ASSUME state.clusterized, [Atomic!Register \/ Atomic!Finalize]_(Atomic!ledger)
      PROVE  state'.clusterized
  BY <1>1 DEF Atomic!Register, Atomic!Finalize, Atomic!ledger
<1>2. ASSUME TypeOK, TypeOK', RegistrationInv, RegistrationInv', [Next]_vars
      PROVE  [state.clusterized => state'.clusterized]_vars
  BY <1>1, <1>2, Simulation
<1>3. QED
  BY <1>2, TypeCorrect, RegistrationSafe, PTL DEF Spec, StaysClusterized

-----------------------------------------------------------------------------
(* The size of the list, with handlers that stall and leases that expire.  *)

SizeInv ==
  /\ Len(state.instances) <= InitialSize
  /\ \A h \in Handlers :
       /\ Len(snap[h].instances) <= InitialSize
       /\ pc[h] = "write" /\ call[h].op = "clusterize" =>
            Len(snap[h].instances) < InitialSize
       /\ pc[h] = "create" => call[h].op = "create"
       /\ pc[h] = "check" => call[h].op = "create"

\* No upload of what was read makes the list longer than the initial size.
LEMMA AppliedSize ==
  ASSUME TypeOK, SizeInv, NEW h \in Handlers, pc[h] \in {"write", "create"}
  PROVE  Len(Applied(call[h], snap[h]).instances) <= InitialSize
<1>1. call[h] \in Calls /\ snap[h] \in ClusterStates
  BY DEF TypeOK
<1>2. CASE call[h].op = "clusterize"
  <2>1. Len(snap[h].instances) < InitialSize /\ call[h].arg \in VMs
    BY <1>1, <1>2 DEF SizeInv, Calls
  <2>2. Applied(call[h], snap[h]).instances = Append(snap[h].instances, call[h].arg)
    BY <1>1, <1>2 DEF Applied, ClusterStates
  <2>3. QED
    BY <1>1, <2>1, <2>2, SizeAssumption DEF ClusterStates
<1>3. CASE call[h].op = "finalize"
  <2>1. Applied(call[h], snap[h]).instances = <<>>
    BY <1>1, <1>3 DEF Applied, ClusterStates
  <2>2. QED
    BY <2>1, SizeAssumption
<1>4. CASE call[h].op = "create"
  BY <1>4, SizeAssumption DEF Applied, InitialState
<1>5. CASE call[h].op \in {"report", "update", "resize"}
  <2>1. Applied(call[h], snap[h]).instances = snap[h].instances
    BY <1>1, <1>5 DEF Applied, ClusterStates
  <2>2. QED
    BY <2>1 DEF SizeInv
<1>6. QED
  BY <1>1, <1>2, <1>3, <1>4, <1>5 DEF Calls

\* Every step keeps the list, and every copy a handler has read, in size.
LEMMA SizeStep == TypeOK /\ SizeInv /\ [Next]_vars => SizeInv'
<1> SUFFICES ASSUME TypeOK, SizeInv, [Next]_vars
             PROVE  SizeInv'
  OBVIOUS
<1> USE DEF TypeOK, SizeInv
<1>1. ASSUME NEW h \in Handlers, Call(h)
      PROVE  SizeInv'
  BY <1>1 DEF Call, FirstStep
<1>2. ASSUME NEW h \in Handlers, Read(h)
      PROVE  SizeInv'
  <2>1. call[h].op = "clusterize" /\ pc'[h] = "write" =>
          Len(state.instances) < InitialSize
    <3>1. Len(state.instances) \in Nat
      BY DEF ClusterStates
    <3>2. QED
      BY <1>2, <3>1, SizeAssumption DEF Read, Verdict
  <2>2. QED
    BY <1>2, <2>1 DEF Read
<1>3. ASSUME NEW h \in Handlers, Write(h) \/ WriteFails(h)
      PROVE  SizeInv'
  BY <1>3, AppliedSize DEF Write, WriteFails
<1>4. ASSUME NEW h \in Handlers, Return(h) \/ Crash(h)
      PROVE  SizeInv'
  <2>1. Len(InitialState.instances) <= InitialSize
    BY SizeAssumption DEF InitialState
  <2>2. QED
    BY <1>4, <2>1 DEF Return, Crash, Done
<1>5. ASSUME NEW h \in Handlers,
             Acquire(h) \/ GiveUp(h) \/ ReadFails(h) \/ CheckExists(h)
      PROVE  SizeInv'
  BY <1>5 DEF Acquire, GiveUp, ReadFails, CheckExists
<1>6. CASE Expire \/ UNCHANGED vars
  BY <1>6 DEF Expire, vars
<1>7. QED
  BY <1>1, <1>2, <1>3, <1>4, <1>5, <1>6 DEF Next, Step

\* No more machines are registered than the cluster was sized for, whether
\* or not handlers outlive their lease.
THEOREM NeverOverfilled == Spec => []NoOverfill
<1>1. Init => SizeInv
  BY SizeAssumption DEF Init, InitialState, SizeInv
<1>2. SizeInv => NoOverfill
  BY DEF SizeInv, NoOverfill
<1>3. QED
  BY <1>1, <1>2, SizeStep, TypeCorrect, PTL DEF Spec

-----------------------------------------------------------------------------
(* The critical section, where nobody writes without the lease.            *)

\* What request c leaves in a state is in s.
Recorded(c, s) ==
  /\ c.op = "report" => c.arg \in s.reports
  /\ c.op = "update" => c.arg \in s.updates

\* A handler about to write has the blob as it is; what was answered with
\* success, or is about to be, is recorded in it; and nothing has been
\* answered that a late creation of the blob could undo.
CopyInv ==
  /\ \A h \in Handlers : pc[h] = "write" => snap[h] = state
  /\ \A c \in acked : Recorded(c, state)
  /\ \A h \in Handlers : pc[h] = "return" /\ outcome[h] = "ok" => Recorded(call[h], state)
  /\ ~exists \/ (\E h \in Handlers : pc[h] = "create") =>
       \A c \in acked : c.op \notin LockedOps

\* An upload records its own request and loses none, or is the creation of a
\* blob nobody has been answered about.
LEMMA UploadRecords ==
  ASSUME "resize" \notin Ops, TypeOK, RegistrationInv, CopyInv, NEW h \in Handlers,
         pc[h] \in {"write", "create"}, state' = Applied(call[h], snap[h])
  PROVE  /\ Recorded(call[h], state')
         /\ \A c \in acked : Recorded(c, state')
         /\ \A g \in Handlers : pc[g] = "return" /\ outcome[g] = "ok" =>
              Recorded(call[g], state')
<1>1. call[h] \in Calls /\ snap[h] \in ClusterStates /\ state \in ClusterStates
  BY DEF TypeOK
<1>2. CASE pc[h] = "create"
  <2>1. call[h].op = "create" /\ \A c \in acked : c.op \notin LockedOps
    BY <1>2 DEF RegistrationInv, CallInv, CopyInv
  <2>2. \A g \in Handlers : pc[g] # "idle" => call[g].op \notin LockedOps
    BY <1>2 DEF RegistrationInv, CreateInv
  <2> QED
    BY <2>1, <2>2 DEF Recorded, LockedOps
<1>3. CASE pc[h] = "write"
  <2>1. snap[h] = state /\ call[h].op \in LockedOps
    BY <1>1, <1>3 DEF CopyInv, RegistrationInv, CallInv, Calls, LockedOps
  <2>2. /\ state.reports \subseteq state'.reports
        /\ state.updates \subseteq state'.updates
        /\ Recorded(call[h], state')
    BY <1>1, <2>1 DEF Applied, Recorded, ClusterStates, LockedOps
  <2> QED
    BY <2>2 DEF CopyInv, Recorded
<1> QED
  BY <1>2, <1>3

\* While a handler writes no other one is about to.
LEMMA WritesAlone ==
  ASSUME "resize" \notin Ops, TypeOK, RegistrationInv, NEW h \in Handlers,
         pc[h] \in {"write", "create"}, NEW g \in Handlers, pc[g] = "write"
  PROVE  g = h
<1>1. call[g] \in Calls /\ call[g].op \in LockedOps
  BY DEF TypeOK, RegistrationInv, CallInv, Calls, LockedOps
<1>2. CASE pc[h] = "create"
  BY <1>1, <1>2 DEF RegistrationInv, CreateInv
<1>3. CASE pc[h] = "write"
  <2>1. call[h] \in Calls /\ call[h].op \in LockedOps
    BY <1>3 DEF TypeOK, RegistrationInv, CallInv, Calls, LockedOps
  <2> QED
    BY <1>1, <1>3, <2>1 DEF RegistrationInv, LeaseInv, InSection
<1> QED
  BY <1>2, <1>3

\* Every step keeps CopyInv when nobody resizes and no handler outlives its
\* lease.
LEMMA CopyStep ==
  ASSUME ~Stalls, "resize" \notin Ops, TypeOK, RegistrationInv, CopyInv, [Next]_vars
  PROVE  CopyInv'
<1> USE DEF TypeOK
<1>1. ASSUME NEW h \in Handlers, Call(h) PROVE CopyInv'
  <2>1. PICK c \in Calls : /\ CanBeCalled(c)
                            /\ call' = [call EXCEPT ![h] = c]
                            /\ pc' = [pc EXCEPT ![h] = FirstStep(c)]
    BY <1>1 DEF Call
  <2>2. UNCHANGED <<exists, state, lease, snap, outcome, acked, elected>> /\ pc[h] = "idle"
    BY <1>1 DEF Call
  <2>3. pc'[h] \in {"lock", "check", "read"} /\ \A g \in Handlers : g # h => pc'[g] = pc[g]
    BY <2>1 DEF FirstStep
  <2> QED
    BY <2>1, <2>2, <2>3 DEF CopyInv, Recorded
<1>2. ASSUME NEW h \in Handlers, Read(h) PROVE CopyInv'
  BY <1>2 DEF Read, Verdict, CopyInv, Recorded
<1>3. ASSUME NEW h \in Handlers, CheckExists(h) PROVE CopyInv'
  <2>1. call[h].op = "create"
    BY <1>3 DEF CheckExists, RegistrationInv, CallInv
  <2> QED
    BY <1>3, <2>1 DEF CheckExists, CopyInv, Recorded
<1>4. ASSUME NEW h \in Handlers, Write(h) \/ WriteFails(h) PROVE CopyInv'
  <2>1. /\ pc[h] \in {"write", "create"} /\ pc' = [pc EXCEPT ![h] = "return"]
        /\ UNCHANGED <<call, snap, acked>>
        /\ outcome' = outcome \/ outcome' = [outcome EXCEPT ![h] = "error"]
    BY <1>4 DEF Write, WriteFails
  <2>2. CASE exists' /\ state' = Applied(call[h], snap[h])
    <3>1. /\ Recorded(call[h], state')
          /\ \A c \in acked : Recorded(c, state')
          /\ \A g \in Handlers : pc[g] = "return" /\ outcome[g] = "ok" =>
               Recorded(call[g], state')
      BY <2>1, <2>2, UploadRecords
    <3>2. \A g \in Handlers : pc'[g] # "write"
      BY <2>1, WritesAlone
    <3>3. \A g \in Handlers : pc'[g] = "return" /\ outcome'[g] = "ok" =>
            Recorded(call'[g], state')
      BY <2>1, <3>1
    <3>4. (\E g \in Handlers : pc'[g] = "create") => \A c \in acked' : c.op \notin LockedOps
      BY <2>1 DEF CopyInv
    <3> QED
      BY <2>1, <2>2, <3>1, <3>2, <3>3, <3>4 DEF CopyInv
  <2>3. CASE UNCHANGED <<exists, state>> /\ outcome' = [outcome EXCEPT ![h] = "error"]
    BY <2>1, <2>3 DEF CopyInv, Recorded
  <2> QED
    BY <1>4, <2>2, <2>3 DEF Write, WriteFails
<1>5. ASSUME NEW h \in Handlers, Return(h) PROVE CopyInv'
  <2>1. /\ pc[h] = "return" /\ pc' = [pc EXCEPT ![h] = "idle"]
        /\ UNCHANGED <<exists, state>>
        /\ call' = [call EXCEPT ![h] = NoCall] /\ snap' = [snap EXCEPT ![h] = InitialState]
        /\ outcome' = [outcome EXCEPT ![h] = "ok"]
    BY <1>5 DEF Return, Done
  <2>2. \A c \in acked' : c \in acked \/ (c = call[h] /\ outcome[h] = "ok")
    BY <1>5 DEF Return
  <2>3. \A c \in acked' : Recorded(c, state)
    BY <2>1, <2>2 DEF CopyInv
  <2>4. ~exists \/ (\E g \in Handlers : pc[g] = "create") => call[h].op \notin LockedOps
    BY <2>1 DEF RegistrationInv, CreateInv
  <2>5. ~exists' \/ (\E g \in Handlers : pc'[g] = "create") =>
          \A c \in acked' : c.op \notin LockedOps
    BY <2>1, <2>2, <2>4 DEF CopyInv
  <2>6. \A g \in Handlers : pc'[g] = "write" => snap'[g] = state'
    BY <2>1 DEF CopyInv
  <2>7. \A g \in Handlers : pc'[g] = "return" /\ outcome'[g] = "ok" =>
          Recorded(call'[g], state')
    BY <2>1 DEF CopyInv, Recorded
  <2> QED
    BY <2>1, <2>3, <2>5, <2>6, <2>7 DEF CopyInv, Recorded
<1>6. ASSUME NEW h \in Handlers, Crash(h) PROVE CopyInv'
  BY <1>6 DEF Crash, Done, CopyInv, Recorded
<1>7. ASSUME NEW h \in Handlers, Acquire(h) \/ GiveUp(h) \/ ReadFails(h) PROVE CopyInv'
  BY <1>7 DEF Acquire, GiveUp, ReadFails, CopyInv, Recorded
<1>8. CASE Expire \/ UNCHANGED vars
  BY <1>8 DEF Expire, vars, CopyInv, Recorded
<1> QED
  BY <1>1, <1>2, <1>3, <1>4, <1>5, <1>6, <1>7, <1>8 DEF Next, Step

\* Without resize, the one handler that writes without the lease once there is
\* a state, CopyInv holds in every execution.
LEMMA CopySafe ==
  ASSUME ~Stalls, "resize" \notin Ops
  PROVE  Spec => []CopyInv
<1>1. Init => CopyInv
  BY DEF Init, CopyInv, Recorded, NoCall
<1>2. TypeOK /\ RegistrationInv /\ CopyInv /\ [Next]_vars => CopyInv'
  BY CopyStep
<1> QED
  BY <1>1, <1>2, TypeCorrect, RegistrationSafe, PTL DEF Spec

\* No handler that holds the lease writes back a stale copy.
THEOREM SectionFresh ==
  ASSUME ~Stalls, "resize" \notin Ops
  PROVE  Spec => []FreshInSection
<1>1. CopyInv => FreshInSection
  BY DEF CopyInv, FreshInSection
<1> QED
  BY <1>1, CopySafe, PTL

\* A report that was answered with success is in the state from then on
\* (report.go:119).
THEOREM ReportsStay ==
  ASSUME ~Stalls, "resize" \notin Ops
  PROVE  Spec => []ReportsKept
<1>1. CopyInv => ReportsKept
  BY DEF CopyInv, Recorded, ReportsKept
<1> QED
  BY <1>1, CopySafe, PTL

\* So is a scale set update that was recorded (scale_up.go:277).
THEOREM UpdatesStay ==
  ASSUME ~Stalls, "resize" \notin Ops
  PROVE  Spec => []UpdatesKept
<1>1. CopyInv => UpdatesKept
  BY DEF CopyInv, Recorded, UpdatesKept
<1> QED
  BY <1>1, CopySafe, PTL

-----------------------------------------------------------------------------
(* The store is atomic, as long as nobody resizes.                         *)

\* A handler about to write will answer with success, and the blob that a
\* late creation overwrites still has its initial content.
BlankInv ==
  /\ \A h \in Handlers : pc[h] \in {"write", "create"} => outcome[h] = "ok"
  /\ ~exists \/ (\E h \in Handlers : pc[h] = "create") => state = InitialState

\* Every step keeps BlankInv.
LEMMA BlankStep ==
  ASSUME "resize" \notin Ops, TypeOK, RegistrationInv, BlankInv, [Next]_vars
  PROVE  BlankInv'
<1> USE DEF TypeOK, BlankInv
<1>1. ASSUME NEW h \in Handlers, Call(h) PROVE BlankInv'
  BY <1>1 DEF Call, FirstStep
<1>2. ASSUME NEW h \in Handlers, Read(h) PROVE BlankInv'
  BY <1>2 DEF Read
<1>3. ASSUME NEW h \in Handlers, CheckExists(h) PROVE BlankInv'
  BY <1>3 DEF CheckExists
<1>4. ASSUME NEW h \in Handlers, Write(h) \/ WriteFails(h) PROVE BlankInv'
  <2>1. /\ pc[h] \in {"write", "create"} /\ pc' = [pc EXCEPT ![h] = "return"]
        /\ outcome' = outcome \/ outcome' = [outcome EXCEPT ![h] = "error"]
    BY <1>4 DEF Write, WriteFails
  <2>2. CASE UNCHANGED <<exists, state>>
    BY <2>1, <2>2
  <2>3. CASE exists' /\ state' = Applied(call[h], snap[h])
    <3>1. CASE pc[h] = "create"
      <4>1. state' = InitialState
        BY <2>3, <3>1 DEF RegistrationInv, CallInv, Applied
      <4> QED
        BY <2>1, <2>3, <4>1
    <3>2. CASE pc[h] = "write"
      <4>1. call[h] \in Calls /\ call[h].op \in LockedOps
        BY <3>2 DEF RegistrationInv, CallInv, Calls, LockedOps
      <4>2. \A g \in Handlers : pc[g] # "create"
        BY <3>2, <4>1 DEF RegistrationInv, CreateInv
      <4> QED
        BY <2>1, <2>3, <4>2
    <3> QED
      BY <2>1, <3>1, <3>2
  <2> QED
    BY <1>4, <2>2, <2>3 DEF Write, WriteFails
<1>5. ASSUME NEW h \in Handlers, Return(h) \/ Crash(h) PROVE BlankInv'
  BY <1>5 DEF Return, Crash, Done
<1>6. ASSUME NEW h \in Handlers, Acquire(h) \/ GiveUp(h) \/ ReadFails(h) PROVE BlankInv'
  BY <1>6 DEF Acquire, GiveUp, ReadFails
<1>7. CASE Expire \/ UNCHANGED vars
  BY <1>7 DEF Expire, vars
<1> QED
  BY <1>1, <1>2, <1>3, <1>4, <1>5, <1>6, <1>7 DEF Next, Step

\* The requests, the served request of each handler, and the handlers that are
\* done, as the atomic store sees them.
Locked == {c \in Calls : c.op \in LockedOps}

Request == [h \in Handlers |-> IF Serving(h) THEN call[h] ELSE NoCall]

Served == {h \in Handlers : Serving(h) /\ pc[h] = "return"}

Answers == {c \in acked : c.op \in LockedOps}

\* The call of a request is not the absence of one.
LEMMA NoCallApart == \A c \in Locked : c # NoCall
BY ModelAssumption DEF Locked, Calls, LockedOps, UnlockedOps, NoCall

\* A step of one handler leaves what the others serve alone.
LEMMA OthersServe ==
  ASSUME TypeOK, TypeOK', NEW h \in Handlers,
         \A g \in Handlers \ {h} :
           pc'[g] = pc[g] /\ call'[g] = call[g] /\ outcome'[g] = outcome[g]
  PROVE  /\ Serving(h)' => Request' = [Request EXCEPT ![h] = call'[h]]
         /\ ~Serving(h)' => Request' = [Request EXCEPT ![h] = NoCall]
         /\ Serving(h)' /\ pc'[h] = "return" => Served' = Served \cup {h}
         /\ ~(Serving(h)' /\ pc'[h] = "return") => Served' = Served \ {h}
<1>1. \A g \in Handlers \ {h} : Serving(g)' <=> Serving(g)
  BY DEF Serving
<1> QED
  BY <1>1 DEF Request, Served

\* A step that leaves alone how far each handler is with its request is not
\* seen by the callers.
LEMMA Unseen ==
  ASSUME TypeOK, TypeOK', NEW h \in Handlers,
         \A g \in Handlers \ {h} :
           pc'[g] = pc[g] /\ call'[g] = call[g] /\ outcome'[g] = outcome[g],
         Serving(h)' <=> Serving(h), Serving(h) => call'[h] = call[h],
         Serving(h) => (pc'[h] = "return" <=> pc[h] = "return"),
         UNCHANGED <<state, Answers>>
  PROVE  UNCHANGED Store!history
<1>1. \A g \in Handlers \ {h} : Serving(g)' <=> Serving(g)
  BY DEF Serving
<1>2. Request' = Request /\ Served' = Served
  BY <1>1 DEF Request, Served
<1> QED
  BY <1>2 DEF Store!history, Store!store, Request, Served, Answers

\* A handler that gives up its request fails, whether its upload took effect
\* or not.
LEMMA Failing ==
  ASSUME TypeOK, TypeOK', NEW h \in Handlers,
         \A g \in Handlers \ {h} :
           pc'[g] = pc[g] /\ call'[g] = call[g] /\ outcome'[g] = outcome[g],
         Serving(h), ~Serving(h)', UNCHANGED Answers,
         UNCHANGED state \/ (pc[h] # "return" /\ Store!Effect(call[h]))
  PROVE  Store!Fail(h)
<1>1. Request' = [Request EXCEPT ![h] = NoCall] /\ Served' = Served \ {h}
  BY OthersServe
<1>2. Request[h] = call[h] /\ call[h] \in Locked
  BY DEF Request, Serving, TypeOK, Locked
<1>3. call[h] # NoCall
  BY <1>2, NoCallApart
<1>4. h \in Served => pc[h] = "return"
  BY DEF Served
<1> QED
  BY <1>1, <1>2, <1>3, <1>4 DEF Store!Fail, Store!store, Request, Served, Answers

\* What a handler uploads after reading the blob is the effect of its request
\* on what the blob holds.
LEMMA UploadIsEffect ==
  ASSUME "resize" \notin Ops, TypeOK, RegistrationInv, CopyInv, NEW h \in Handlers,
         pc[h] = "write", state' = Applied(call[h], snap[h])
  PROVE  Store!Effect(call[h])
<1>1. /\ call[h] \in Calls /\ call[h].op \in LockedOps
      /\ snap[h] = state /\ state \in ClusterStates
      /\ Verdict(call[h], state) = "ok"
  BY DEF TypeOK, RegistrationInv, CallInv, FreshInv, CopyInv, Calls, LockedOps
<1>2. CASE call[h].op = "clusterize"
  <2>1. state' = [state EXCEPT !.instances = Append(@, call[h].arg)]
    BY <1>1, <1>2 DEF Applied
  <2>2. ~state.clusterized /\ Len(state.instances) < InitialSize
    <3>1. Len(state.instances) \in Nat
      BY <1>1 DEF ClusterStates
    <3> QED
      BY <1>1, <1>2, <3>1, SizeAssumption DEF Verdict
  <2>3. Store!Registers(call[h])
    BY <1>1, <1>2, <2>1, <2>2 DEF Store!Registers, ClusterStates
  <2> QED
    BY <2>3 DEF Store!Effect
<1>3. CASE call[h].op = "finalize"
  <2>1. Store!Closes(call[h])
    BY <1>1, <1>3 DEF Store!Closes, Applied, ClusterStates
  <2> QED
    BY <2>1 DEF Store!Effect
<1>4. CASE call[h].op \in {"report", "update"}
  <2>1. Store!Records(call[h])
    BY <1>1, <1>4 DEF Store!Records, Applied, ClusterStates
  <2> QED
    BY <2>1 DEF Store!Effect
<1> QED
  BY <1>1, <1>2, <1>3, <1>4 DEF LockedOps

\* Every step of the handlers is a step of the atomic store, or none at all.
LEMMA AtomicStep ==
  ASSUME ~Stalls, "resize" \notin Ops, TypeOK, TypeOK', RegistrationInv, CopyInv,
         BlankInv, [Next]_vars
  PROVE  [Store!Next]_(Store!history)
<1> USE DEF TypeOK
<1>0. \A h \in Handlers : Store!Receive(h) \/ Store!Serve(h) \/ Store!Fail(h)
                            \/ Store!Answer(h) => Store!Next
  BY DEF Store!Next
<1>1. ASSUME NEW h \in Handlers, Call(h) PROVE [Store!Next]_(Store!history)
  <2>1. PICK c \in Calls : /\ call' = [call EXCEPT ![h] = c]
                            /\ pc' = [pc EXCEPT ![h] = FirstStep(c)]
    BY <1>1 DEF Call
  <2>2. /\ pc[h] = "idle" /\ UNCHANGED <<state, outcome, acked>>
        /\ ~Serving(h) /\ UNCHANGED Answers
    BY <1>1 DEF Call, Serving, Answers
  <2>3. \A g \in Handlers \ {h} :
          pc'[g] = pc[g] /\ call'[g] = call[g] /\ outcome'[g] = outcome[g]
    BY <2>1, <2>2
  <2>4. CASE c.op \in LockedOps
    <3>1. Serving(h)' /\ pc'[h] # "return" /\ call'[h] = c
      BY <2>1, <2>4 DEF Serving, FirstStep
    <3>2. Request' = [Request EXCEPT ![h] = c] /\ Served' = Served \ {h} /\ h \notin Served
      BY <2>2, <2>3, <3>1, OthersServe DEF Served
    <3>3. Request[h] = NoCall /\ c \in Locked
      BY <2>2, <2>4 DEF Request, Locked
    <3>4. Store!Receive(h)
      BY <2>2, <3>2, <3>3
      DEF Store!Receive, Store!store, Request, Served, Answers, Locked
    <3> QED
      BY <1>0, <3>4
  <2>5. CASE c.op \notin LockedOps
    <3>1. ~Serving(h)'
      BY <2>1, <2>5 DEF Serving
    <3> QED
      BY <2>2, <2>3, <3>1, Unseen
  <2> QED
    BY <2>4, <2>5
<1>2. ASSUME NEW h \in Handlers, GiveUp(h) \/ ReadFails(h) PROVE [Store!Next]_(Store!history)
  <2>1. Serving(h) /\ ~Serving(h)'
    BY <1>2 DEF GiveUp, ReadFails, Serving, RegistrationInv, CallInv, Calls, LockedOps
  <2>2. Store!Fail(h)
    BY <1>2, <2>1, Failing DEF GiveUp, ReadFails, Answers
  <2> QED
    BY <1>0, <2>2
<1>3. ASSUME NEW h \in Handlers, Read(h) PROVE [Store!Next]_(Store!history)
  <2>1. Serving(h)
    BY <1>3 DEF Read, Serving, RegistrationInv, CallInv, Calls, LockedOps
  <2>2. CASE Verdict(call[h], state) = "ok"
    <3>1. Serving(h)'
      BY <1>3, <2>1, <2>2 DEF Read, Serving
    <3> QED
      BY <1>3, <2>1, <2>2, <3>1, Unseen DEF Read, Answers
  <2>3. CASE Verdict(call[h], state) # "ok"
    <3>1. ~Serving(h)'
      BY <1>3, <2>3 DEF Read, Serving
    <3>2. Store!Fail(h)
      BY <1>3, <2>1, <2>3, <3>1, Failing DEF Read, Answers
    <3> QED
      BY <1>0, <3>2
  <2> QED
    BY <2>2, <2>3
<1>4. ASSUME NEW h \in Handlers, CheckExists(h) PROVE [Store!Next]_(Store!history)
  <2>1. ~Serving(h) /\ ~Serving(h)'
    BY <1>4 DEF CheckExists, Serving, RegistrationInv, CallInv, LockedOps
  <2> QED
    BY <1>4, <2>1, Unseen DEF CheckExists, Answers
<1>5. ASSUME NEW h \in Handlers, Write(h) \/ WriteFails(h) PROVE [Store!Next]_(Store!history)
  <2>1. /\ pc' = [pc EXCEPT ![h] = "return"]
        /\ UNCHANGED <<call, Answers>>
        /\ \A g \in Handlers \ {h} :
             pc'[g] = pc[g] /\ call'[g] = call[g] /\ outcome'[g] = outcome[g]
    BY <1>5 DEF Write, WriteFails, Answers
  <2>2. CASE pc[h] = "create"
    <3>1. ~Serving(h) /\ ~Serving(h)'
      BY <2>1, <2>2 DEF Serving, RegistrationInv, CallInv, LockedOps
    <3>2. state' = state
      BY <1>5, <2>2 DEF Write, WriteFails, Applied, BlankInv, RegistrationInv, CallInv
    <3> QED
      BY <2>1, <3>1, <3>2, Unseen
  <2>3. CASE pc[h] = "write"
    <3>1. Serving(h) /\ call[h] \in Locked
      BY <2>3 DEF Serving, RegistrationInv, CallInv, Calls, LockedOps, Locked
    <3>2. CASE Write(h)
      <4>1. Serving(h)' /\ pc'[h] = "return" /\ Store!Effect(call[h])
        BY <2>1, <2>3, <3>1, <3>2, UploadIsEffect DEF Write, Serving, BlankInv
      <4>2. Request' = [Request EXCEPT ![h] = call[h]] /\ Served' = Served \cup {h}
        BY <2>1, <4>1, OthersServe
      <4>3. Request[h] = call[h] /\ Request' = Request /\ h \notin Served
        BY <2>3, <3>1, <4>2 DEF Request, Served
      <4>4. call[h] # NoCall
        BY <3>1, NoCallApart
      <4>5. Store!Serve(h)
        BY <2>1, <4>1, <4>2, <4>3, <4>4 DEF Store!Serve, Request, Served, Answers
      <4> QED
        BY <1>0, <4>5
    <3>3. CASE WriteFails(h)
      <4>1. ~Serving(h)'
        BY <2>1, <3>3 DEF WriteFails, Serving
      <4>2. UNCHANGED state \/ Store!Effect(call[h])
        BY <2>3, <3>3, UploadIsEffect DEF WriteFails
      <4>3. Store!Fail(h)
        BY <2>1, <2>3, <3>1, <4>1, <4>2, Failing
      <4> QED
        BY <1>0, <4>3
    <3> QED
      BY <1>5, <3>2, <3>3
  <2> QED
    BY <1>5, <2>2, <2>3 DEF Write, WriteFails
<1>6. ASSUME NEW h \in Handlers, Return(h) PROVE [Store!Next]_(Store!history)
  <2>1. /\ pc[h] = "return" /\ ~Serving(h)' /\ UNCHANGED state
        /\ \A g \in Handlers \ {h} :
             pc'[g] = pc[g] /\ call'[g] = call[g] /\ outcome'[g] = outcome[g]
    BY <1>6 DEF Return, Done, Serving
  <2>2. CASE Serving(h)
    <3>1. outcome[h] = "ok" /\ call[h] \in Locked
      BY <2>1, <2>2 DEF Serving, Locked
    <3>2. Answers' = Answers \cup {call[h]}
      BY <1>6, <3>1 DEF Return, Answers, Locked
    <3>3. Request' = [Request EXCEPT ![h] = NoCall] /\ Served' = Served \ {h}
      BY <2>1, OthersServe
    <3>4. Request[h] = call[h] /\ h \in Served
      BY <2>1, <2>2 DEF Request, Served
    <3>5. Store!Answer(h)
      BY <2>1, <3>2, <3>3, <3>4 DEF Store!Answer, Store!store, Request, Served, Answers
    <3> QED
      BY <1>0, <3>5
  <2>3. CASE ~Serving(h)
    <3>1. UNCHANGED Answers
      BY <1>6, <2>1, <2>3 DEF Return, Serving, Answers
    <3> QED
      BY <2>1, <2>3, <3>1, Unseen
  <2> QED
    BY <2>2, <2>3
<1>7. ASSUME NEW h \in Handlers, Crash(h) PROVE [Store!Next]_(Store!history)
  <2>1. /\ ~Serving(h)' /\ UNCHANGED <<state, Answers>>
        /\ \A g \in Handlers \ {h} :
             pc'[g] = pc[g] /\ call'[g] = call[g] /\ outcome'[g] = outcome[g]
    BY <1>7 DEF Crash, Done, Serving, Answers
  <2>2. CASE Serving(h)
    <3>1. Store!Fail(h)
      BY <2>1, <2>2, Failing
    <3> QED
      BY <1>0, <3>1
  <2>3. CASE ~Serving(h)
    BY <2>1, <2>3, Unseen
  <2> QED
    BY <2>2, <2>3
<1>8. ASSUME NEW h \in Handlers, Acquire(h) PROVE [Store!Next]_(Store!history)
  <2>1. Serving(h)' <=> Serving(h)
    BY <1>8 DEF Acquire, Serving
  <2> QED
    BY <1>8, <2>1, Unseen DEF Acquire, Answers
<1>9. CASE Expire \/ UNCHANGED vars
  BY <1>9 DEF Expire, vars, Store!history, Store!store, Serving
<1> QED
  BY <1>1, <1>2, <1>3, <1>4, <1>5, <1>6, <1>7, <1>8, <1>9 DEF Next, Step

\* The handlers that take the lease implement the atomic store: each request
\* takes effect at most once, in one step while it is served, and exactly once
\* if it is answered with success (common.go:449, common.go:477).
THEOREM StoreRefined ==
  ASSUME ~Stalls, "resize" \notin Ops
  PROVE  Spec => ImplementsAtomicStore
<1>1. Init => BlankInv
  BY DEF Init, BlankInv
<1>2. Init => Store!Init
  BY DEF Init, InitialState, Store!Init, Serving
<1>3. TypeOK /\ RegistrationInv /\ BlankInv /\ [Next]_vars => BlankInv'
  BY BlankStep
<1>4. TypeOK /\ TypeOK' /\ RegistrationInv /\ CopyInv /\ BlankInv /\ [Next]_vars
        => [Store!Next]_(Store!history)
  BY AtomicStep
<1> QED
  BY <1>1, <1>2, <1>3, <1>4, TypeCorrect, RegistrationSafe, CopySafe, PTL
  DEF Spec, ImplementsAtomicStore, Store!Spec
=============================================================================
