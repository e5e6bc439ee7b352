------------------------ MODULE ClusterizationProofs ------------------------
(* What Clusterization guarantees for any number of machines, any size and   *)
(* target of the cluster, and any number of failures and repeated calls.     *)
EXTENDS Clusterization, FiniteSetTheorems, TLAPS

-----------------------------------------------------------------------------
(* Types.                                                                  *)

\* The elements of a list of machines are machines.
LEMMA RangeType == \A s \in Seq(VMs) : Range(s) \subseteq VMs
  BY DEF Range

\* Appending a machine makes the list longer by one.
LEMMA AppendLength ==
  ASSUME NEW s \in Seq(VMs), NEW m \in VMs
  PROVE  Append(s, m) \in Seq(VMs) /\ Len(Append(s, m)) = Len(s) + 1
OBVIOUS

\* A machine that moves to a position leaves every machine with one.
LEMMA MoveType ==
  ASSUME TypeOK, NEW m \in VMs, NEW p \in Positions, Move(m, p)
  PROVE  at' \in [VMs -> Positions]
BY DEF Move, TypeOK

\* Counting a mishap stays within the bound.
LEMMA MishapType == TypeOK /\ Mishap => mishaps' \in 0..MaxMishaps
  BY ClusterizationAssumption DEF TypeOK, Mishap

\* A machine that finds a place in the list leaves it within the size.
LEMMA RegisterType ==
  ASSUME TypeOK, NEW m \in VMs, Register(m)
  PROVE  /\ instances' \in Seq(VMs)
         /\ Len(instances') = Len(instances) + 1
         /\ Len(instances') <= InitialSize
BY AppendLength, ClusterizationAssumption DEF TypeOK, Register, Satisfied

\* Electing the machine that completes the list, or nobody, keeps the record
\* of the call well typed.
LEMMA ElectType ==
  ASSUME TypeOK, NEW m \in VMs, instances' \in Seq(VMs), Elect(m)
  PROVE  /\ last' \in [vm : VMs \cup {None}, list : Seq(VMs),
                       step : LastSteps, ips : SUBSET VMs]
         /\ last'.step # "none" => last'.vm \in VMs
BY DEF TypeOK, Elect, LastSteps

\* What a registered machine goes on with is a position.
LEMMA VerdictType == \A n \in Nat : Verdict(n) \in Positions
  BY DEF Verdict, Positions

\* The initial state is well typed.
LEMMA InitType == Init => TypeOK
<1> SUFFICES ASSUME Init PROVE TypeOK
  OBVIOUS
<1>1. <<>> \in Seq(VMs) /\ Len(<<>>) = 0
  OBVIOUS
<1>2. at \in [VMs -> Positions]
  BY DEF Init, Positions
<1>3. instances \in Seq(VMs) /\ Len(instances) <= InitialSize
  BY <1>1, ClusterizationAssumption DEF Init
<1>4. last \in [vm : VMs \cup {None}, list : Seq(VMs), step : LastSteps, ips : SUBSET VMs]
  BY <1>1 DEF Init, LastSteps
<1>5. last.step = "none"
  BY DEF Init
<1>6. /\ vault \in [admin : VMs \cup {None}, deployment : VMs \cup {None}]
      /\ cluster \in [formed : BOOLEAN, members : SUBSET VMs,
                      admin : VMs \cup {None}, deployment : VMs \cup {None}]
  BY DEF Init
<1>7. mishaps \in 0..MaxMishaps /\ repeats \in 0..MaxRepeats
  BY ClusterizationAssumption DEF Init
<1> QED
  BY <1>2, <1>3, <1>4, <1>5, <1>6, <1>7 DEF Init, TypeOK

\* Every step keeps the types.
LEMMA NextType == TypeOK /\ [Next]_vars => TypeOK'
<1> SUFFICES ASSUME TypeOK, [Next]_vars PROVE TypeOK'
  OBVIOUS
<1> USE ClusterizationAssumption
<1>a. \A m \in VMs, p \in Positions : Move(m, p) => at' \in [VMs -> Positions]
  BY MoveType
<1>b. {"gone", "booting", "deployed", "asking", "forming", "formed", "joining",
       "idle", "down"} = Positions
  BY DEF Positions
<1>c. Present \subseteq VMs
  BY DEF Present
<1>1. ASSUME NEW m \in VMs, Grow(m) \/ Tidy(m) PROVE TypeOK'
  BY <1>1, <1>a, <1>b DEF Grow, Tidy, TypeOK
<1>2. ASSUME NEW m \in VMs, Terminate(m) PROVE TypeOK'
  BY <1>2, <1>a, <1>b DEF Terminate, TypeOK
<1>3. ASSUME NEW m \in VMs, MachineFails(m) \/ ScriptFails(m) \/ DeployFails(m) \/ FinalizeFails(m)
      PROVE TypeOK'
  BY <1>3, <1>a, <1>b, MishapType
  DEF MachineFails, ScriptFails, DeployFails, FinalizeFails, TypeOK
<1>4. ASSUME NEW m \in VMs, ClusterizeFails(m) PROVE TypeOK'
  <2>1. instances' \in Seq(VMs) /\ Len(instances') <= InitialSize
    BY <1>4, RegisterType DEF ClusterizeFails, TypeOK
  <2> QED
    BY <1>4, <2>1, <1>a, <1>b, MishapType DEF ClusterizeFails, TypeOK
<1>5. ASSUME NEW m \in VMs, Deploy(m) PROVE TypeOK'
  <2>1. DeployScript(m) \in Positions
    BY DEF DeployScript, Positions
  <2> QED
    BY <1>5, <2>1, <1>a DEF Deploy, TypeOK
<1>6. ASSUME NEW m \in VMs, Clusterize(m) PROVE TypeOK'
  <2>1. CASE Move(m, "down") /\ UNCHANGED <<instances, last>>
    BY <1>6, <2>1, <1>a, <1>b DEF Clusterize, TypeOK
  <2>2. CASE Register(m) /\ Elect(m) /\ Move(m, Verdict(Len(instances')))
    <3>1. instances' \in Seq(VMs) /\ Len(instances') <= InitialSize /\ Len(instances') \in Nat
      BY <2>2, RegisterType DEF TypeOK
    <3>2. at' \in [VMs -> Positions]
      BY <2>2, <3>1, <1>a, VerdictType
    <3> QED
      BY <1>6, <2>2, <3>1, <3>2, ElectType DEF Clusterize, TypeOK
  <2> QED
    BY <1>6, <2>1, <2>2 DEF Clusterize
<1>7. ASSUME NEW m \in VMs, AnswerLost(m) PROVE TypeOK'
  <2>1. at' \in [VMs -> Positions] /\ repeats' \in 0..MaxRepeats
    BY <1>7, <1>a, <1>b DEF AnswerLost, TypeOK
  <2>2. CASE Register(m) /\ Elect(m)
    <3>1. instances' \in Seq(VMs) /\ Len(instances') <= InitialSize
      BY <2>2, RegisterType
    <3> QED
      BY <1>7, <2>1, <2>2, <3>1, ElectType DEF AnswerLost, TypeOK
  <2>3. CASE UNCHANGED <<instances, last>>
    BY <1>7, <2>1, <2>3 DEF AnswerLost, TypeOK
  <2> QED
    BY <1>7, <2>2, <2>3 DEF AnswerLost
<1>d. ASSUME NEW from, NEW to \in LastSteps \ {"none"}, Advance(from, to), from # "none"
      PROVE /\ last' \in [vm : VMs \cup {None}, list : Seq(VMs), step : LastSteps,
                          ips : SUBSET VMs]
            /\ last'.vm \in VMs
            /\ last.vm \in VMs
  BY <1>d DEF Advance, TypeOK
<1>e. LastSteps \ {"none"} = {"obs", "admin", "deployment", "ips", "answer", "error", "done"}
  BY DEF LastSteps
<1>8. CASE PrepareObs \/ GetPrivateIps
  <2>1. CASE PrepareObs
    <3>1. last' \in [vm : VMs \cup {None}, list : Seq(VMs), step : LastSteps, ips : SUBSET VMs]
          /\ last'.vm \in VMs
      BY <2>1, <1>d, <1>e DEF PrepareObs
    <3> QED
      BY <2>1, <3>1 DEF PrepareObs, TypeOK
  <2>2. CASE GetPrivateIps
    <3>1. last' = [last EXCEPT !.step = "answer", !.ips = Present]
      BY <2>2 DEF GetPrivateIps
    <3>2. "answer" \in LastSteps /\ last.vm \in VMs
      BY <2>2 DEF GetPrivateIps, LastSteps, TypeOK
    <3>3. last' \in [vm : VMs \cup {None}, list : Seq(VMs), step : LastSteps, ips : SUBSET VMs]
          /\ last'.vm \in VMs
      BY <3>1, <3>2, <1>c DEF TypeOK
    <3> QED
      BY <2>2, <3>3 DEF GetPrivateIps, TypeOK
  <2> QED
    BY <1>8, <2>1, <2>2
<1>9. CASE SetAdminPassword \/ SetDeploymentPassword
  <2>1. last' \in [vm : VMs \cup {None}, list : Seq(VMs), step : LastSteps, ips : SUBSET VMs]
        /\ last'.vm \in VMs /\ last.vm \in VMs
    BY <1>9, <1>d, <1>e DEF SetAdminPassword, SetDeploymentPassword
  <2>2. vault' \in [admin : VMs \cup {None}, deployment : VMs \cup {None}]
    BY <1>9, <2>1 DEF SetAdminPassword, SetDeploymentPassword, TypeOK
  <2> QED
    BY <1>9, <2>1, <2>2 DEF SetAdminPassword, SetDeploymentPassword, TypeOK
<1>10. CASE LastFails
  <2>1. mishaps' \in 0..MaxMishaps
    BY <1>10, MishapType DEF LastFails
  <2>2. /\ last' \in [vm : VMs \cup {None}, list : Seq(VMs), step : LastSteps, ips : SUBSET VMs]
        /\ last'.vm \in VMs /\ last.vm \in VMs
    BY <1>10, <1>d, <1>e DEF LastFails
  <2>3. vault' \in [admin : VMs \cup {None}, deployment : VMs \cup {None}]
    BY <1>10, <2>2 DEF LastFails, TypeOK
  <2> QED
    BY <1>10, <2>1, <2>2, <2>3 DEF LastFails, TypeOK
<1>11. CASE Answer
  <2>1. last.vm \in VMs
    BY <1>11 DEF Answer, TypeOK
  <2>2. at' \in [VMs -> Positions]
    BY <1>11, <2>1, <1>a, <1>b DEF Answer, TypeOK
  <2> QED
    BY <1>11, <2>1, <2>2 DEF Answer, TypeOK, LastSteps
<1>12. ASSUME NEW m \in VMs, FormCluster(m) PROVE TypeOK'
  <2>1. Range(last.list) \subseteq VMs
    BY RangeType DEF TypeOK
  <2>2. at' \in [VMs -> Positions]
    BY <1>12, <1>a, <1>b DEF FormCluster
  <2>3. cluster' \in [formed : BOOLEAN, members : SUBSET VMs,
                      admin : VMs \cup {None}, deployment : VMs \cup {None}]
    <3>1. CASE CanForm
      <4>1. vault.admin \in VMs \cup {None} /\ vault.deployment \in VMs \cup {None}
        BY DEF TypeOK
      <4>2. cluster' = [formed |-> TRUE, members |-> Range(last.list),
                        admin |-> vault.admin, deployment |-> vault.deployment]
        BY <1>12, <3>1 DEF FormCluster
      <4> QED
        BY <2>1, <4>1, <4>2
    <3>2. CASE ~CanForm
      BY <1>12, <3>2 DEF FormCluster, TypeOK
    <3> QED
      BY <3>1, <3>2
  <2> QED
    BY <1>12, <2>2, <2>3 DEF FormCluster, TypeOK
<1>13. ASSUME NEW m \in VMs, Finalize(m) PROVE TypeOK'
  <2>1. <<>> \in Seq(VMs) /\ Len(<<>>) = 0
    OBVIOUS
  <2> QED
    BY <1>13, <2>1, <1>a, <1>b DEF Finalize, TypeOK
<1>14. ASSUME NEW m \in VMs, Join(m) PROVE TypeOK'
  BY <1>14, <1>a, <1>b DEF Join, TypeOK
<1>15. CASE UNCHANGED vars
  BY <1>15 DEF vars, TypeOK
<1> QED
  BY <1>1, <1>2, <1>3, <1>4, <1>5, <1>6, <1>7, <1>8, <1>9, <1>10, <1>11, <1>12,
     <1>13, <1>14, <1>15 DEF Next, Script, Failure, LastStep

\* Every variable keeps its type, and the list never outgrows the initial size
\* (AddInstanceToState), however many machines take the place of stopped ones.
THEOREM TypeCorrect == Spec => []TypeOK
<1> QED
  BY InitType, NextType, PTL DEF Spec

-----------------------------------------------------------------------------
(* The formation of the cluster.                                           *)

\* Only the machine that moves changes its position.
LEMMA MoveEffect ==
  ASSUME TypeOK, NEW m \in VMs, NEW p, Move(m, p)
  PROVE  at'[m] = p /\ \A n \in VMs \ {m} : at'[n] = at[n]
BY DEF Move, TypeOK

\* The initial state has no cluster and no election.
LEMMA FormationInit == Init => FormationInv
  BY DEF Init, FormationInv

\* A machine that registers is elected at most once in all: after an election
\* the list is already as long as the target.
LEMMA ElectedOnce ==
  ASSUME TypeOK, FormationInv, NEW m \in VMs, Register(m), Elect(m)
  PROVE  \/ last' = last /\ (last.vm # None => Len(instances') >= ClusterizationTarget)
         \/ /\ last.vm = None
            /\ last'.vm = m /\ last'.step = "obs"
            /\ Len(instances') >= ClusterizationTarget
<1>1. Len(instances) \in Nat /\ Len(instances') = Len(instances) + 1 /\ ~clusterized
  BY RegisterType DEF TypeOK, Register, Satisfied
<1>2. last.vm # None => Len(instances) >= ClusterizationTarget
  BY <1>1 DEF FormationInv
<1>3. CASE IsLast(Len(instances'))
  <2>1. last.vm = None
    BY <1>1, <1>2, <1>3, ClusterizationAssumption DEF IsLast
  <2> QED
    BY <1>1, <1>3, <2>1, ClusterizationAssumption DEF Elect, IsLast
<1>4. CASE ~IsLast(Len(instances'))
  BY <1>1, <1>2, <1>4, ClusterizationAssumption DEF Elect
<1> QED
  BY <1>3, <1>4

\* A machine that moves to a position other than forming and formed, while
\* the rest of what FormationInv is about stays, keeps it.
LEMMA MoveKeeps ==
  ASSUME TypeOK, FormationInv, NEW m \in VMs, NEW p, Move(m, p),
         p \notin {"forming", "formed"},
         UNCHANGED <<instances, clusterized, last, vault>>,
         cluster'.formed = cluster.formed, cluster'.deployment = cluster.deployment
  PROVE  FormationInv'
<1>1. \A n \in VMs : at'[n] \in {"forming", "formed"} => at'[n] = at[n]
  BY MoveEffect
<1> QED
  BY <1>1 DEF FormationInv

\* A machine that registers, elected or not, keeps it too.
LEMMA RegisterKeeps ==
  ASSUME TypeOK, FormationInv, NEW m \in VMs, NEW p, Move(m, p),
         p \notin {"forming", "formed"}, Register(m), Elect(m),
         UNCHANGED <<clusterized, vault, cluster>>
  PROVE  FormationInv'
<1>1. \A n \in VMs : at'[n] \in {"forming", "formed"} => at'[n] = at[n]
  BY MoveEffect
<1>2. CASE last' = last /\ (last.vm # None => Len(instances') >= ClusterizationTarget)
  BY <1>1, <1>2 DEF FormationInv
<1>3. CASE /\ last.vm = None
           /\ last'.vm = m /\ last'.step = "obs"
           /\ Len(instances') >= ClusterizationTarget
  <2>1. last.step = "none"
    BY <1>3 DEF FormationInv
  <2>2. m # None
    BY ClusterizationAssumption
  <2> QED
    BY <1>1, <1>3, <2>1, <2>2 DEF FormationInv
<1> QED
  BY <1>2, <1>3, ElectedOnce

\* Every step keeps FormationInv.
LEMMA FormationStep == TypeOK /\ FormationInv /\ [Next]_vars => FormationInv'
<1> SUFFICES ASSUME TypeOK, FormationInv, [Next]_vars PROVE FormationInv'
  OBVIOUS
<1>1. ASSUME NEW m \in VMs,
             \/ Grow(m) \/ Tidy(m) \/ Terminate(m) \/ Deploy(m) \/ Join(m)
             \/ MachineFails(m) \/ ScriptFails(m) \/ DeployFails(m) \/ FinalizeFails(m)
      PROVE FormationInv'
  <2> DEFINE p == at'[m]
  <2>1. p \notin {"forming", "formed"} /\ Move(m, p)
    <3>1. \A q \in Positions : Move(m, q) => at'[m] = q
      BY MoveEffect
    <3>2. DeployScript(m) \in {"deployed", "joining", "idle"}
      BY DEF DeployScript
    <3> QED
      BY <1>1, <3>1, <3>2
      DEF Grow, Tidy, Terminate, Deploy, Join, MachineFails, ScriptFails, DeployFails,
          FinalizeFails, Positions
  <2>2. /\ UNCHANGED <<instances, clusterized, last, vault>>
        /\ cluster'.formed = cluster.formed /\ cluster'.deployment = cluster.deployment
    BY <1>1
    DEF Grow, Tidy, Terminate, Deploy, Join, MachineFails, ScriptFails, DeployFails,
        FinalizeFails, TypeOK
  <2> QED
    BY <2>1, <2>2, MoveKeeps
<1>2. ASSUME NEW m \in VMs, ClusterizeFails(m) PROVE FormationInv'
  <2>1. \A n \in VMs : at'[n] \in {"forming", "formed"} => at'[n] = at[n]
    BY <1>2, MoveEffect DEF ClusterizeFails
  <2>2. Len(instances') >= Len(instances) /\ Len(instances) \in Nat /\ Len(instances') \in Nat
    BY <1>2, RegisterType DEF ClusterizeFails, TypeOK
  <2>3. last.vm # None /\ ~clusterized => Len(instances') >= ClusterizationTarget
    BY <2>2, ClusterizationAssumption DEF FormationInv
  <2> QED
    BY <1>2, <2>1, <2>3 DEF ClusterizeFails, FormationInv
<1>3. ASSUME NEW m \in VMs, Clusterize(m) PROVE FormationInv'
  <2>1. CASE Move(m, "down") /\ UNCHANGED <<instances, last>>
    BY <1>3, <2>1, MoveKeeps DEF Clusterize
  <2>2. CASE Register(m) /\ Elect(m) /\ Move(m, Verdict(Len(instances')))
    <3>1. Verdict(Len(instances')) \notin {"forming", "formed"}
      BY DEF Verdict
    <3> QED
      BY <1>3, <2>2, <3>1, RegisterKeeps DEF Clusterize
  <2> QED
    BY <1>3, <2>1, <2>2 DEF Clusterize
<1>4. ASSUME NEW m \in VMs, AnswerLost(m) PROVE FormationInv'
  <2>1. CASE Register(m) /\ Elect(m)
    BY <1>4, <2>1, RegisterKeeps DEF AnswerLost
  <2>2. CASE UNCHANGED <<instances, last>>
    BY <1>4, <2>2, MoveKeeps DEF AnswerLost
  <2> QED
    BY <1>4, <2>1, <2>2 DEF AnswerLost
<1>5. CASE PrepareObs \/ SetAdminPassword \/ SetDeploymentPassword \/ GetPrivateIps
  <2>1. /\ last.step \in {"obs", "admin", "deployment", "ips"}
        /\ last'.vm = last.vm /\ last'.step \in {"admin", "deployment", "ips", "answer"}
        /\ UNCHANGED <<at, instances, clusterized, cluster>>
    BY <1>5 DEF PrepareObs, SetAdminPassword, SetDeploymentPassword, GetPrivateIps,
                Advance, TypeOK
  <2>2. last'.step \in {"ips", "answer"} => vault'.deployment = last.vm
    BY <1>5 DEF PrepareObs, SetAdminPassword, SetDeploymentPassword, GetPrivateIps,
                Advance, TypeOK, FormationInv
  <2> QED
    BY <2>1, <2>2 DEF FormationInv
<1>6. CASE LastFails
  <2>1. /\ last.step \in {"admin", "deployment", "ips"}
        /\ last'.vm = last.vm /\ last'.step = "error"
        /\ UNCHANGED <<at, instances, clusterized, cluster>>
    BY <1>6 DEF LastFails, Advance, TypeOK
  <2> QED
    BY <2>1 DEF FormationInv
<1>7. CASE Answer
  <2>1. /\ last.step \in {"answer", "error"}
        /\ last'.vm = last.vm /\ last'.step = "done"
        /\ UNCHANGED <<instances, clusterized, vault, cluster>>
    BY <1>7 DEF Answer, TypeOK
  <2>2. last.vm \in VMs
    BY <2>1 DEF TypeOK
  <2>3. \A n \in VMs :
          \/ at'[n] = at[n]
          \/ at'[n] = "forming" /\ last.step = "answer"
          \/ at'[n] = "idle"
    BY <1>7, <2>2, MoveEffect DEF Answer
  <2> QED
    BY <2>1, <2>3 DEF FormationInv
<1>8. ASSUME NEW m \in VMs, FormCluster(m) PROVE FormationInv'
  <2>1. CASE CanForm
    <3>1. /\ cluster'.formed /\ cluster'.deployment = vault.deployment
          /\ UNCHANGED <<instances, clusterized, last, vault>>
      BY <1>8, <2>1 DEF FormCluster
    <3>2. last.step = "done" /\ vault.deployment = last.vm
      BY <1>8 DEF FormCluster, FormationInv
    <3>3. \A n \in VMs : at'[n] = "forming" => at[n] = "forming"
      BY <1>8, <2>1, MoveEffect DEF FormCluster
    <3> QED
      BY <3>1, <3>2, <3>3 DEF FormationInv
  <2>2. CASE ~CanForm
    BY <1>8, <2>2, MoveKeeps DEF FormCluster
  <2> QED
    BY <2>1, <2>2
<1>9. ASSUME NEW m \in VMs, Finalize(m) PROVE FormationInv'
  <2>1. cluster.formed
    BY <1>9 DEF Finalize, FormationInv
  <2>2. \A n \in VMs : at'[n] \in {"forming", "formed"} => at'[n] = at[n]
    BY <1>9, MoveEffect DEF Finalize
  <2> QED
    BY <1>9, <2>1, <2>2 DEF Finalize, FormationInv
<1>10. CASE UNCHANGED vars
  BY <1>10 DEF vars, FormationInv
<1> QED
  BY <1>1, <1>2, <1>3, <1>4, <1>5, <1>6, <1>7, <1>8, <1>9, <1>10
  DEF Next, Script, Failure, LastStep

\* The cluster is closed only after it was formed, by the one machine that was
\* elected and with the passwords that are in the vault: through failing
\* calls, repeated calls and machines that stop at any point.
THEOREM FormationSafe == Spec => []FormationInv
<1> QED
  BY FormationInit, FormationStep, TypeCorrect, PTL DEF Spec

\* The credentials in the vault are the formed cluster's.
THEOREM CredentialsAccepted == Spec => []CredentialsWork
<1>1. TypeOK /\ FormationInv => CredentialsWork
  BY ClusterizationAssumption DEF TypeOK, FormationInv, CredentialsWork
<1> QED
  BY <1>1, TypeCorrect, FormationSafe, PTL

-----------------------------------------------------------------------------
(* The refinement.                                                         *)

\* The initial state maps to one of Registration.
LEMMA SimulationInit == Init => Atomic!Init
  BY DEF Init, Atomic!Init

\* A machine that registers does so in Registration, its election included.
LEMMA RegisterSimulates ==
  ASSUME TypeOK, FormationInv, NEW m \in VMs, Register(m), UNCHANGED clusterized,
         Elect(m) \/ UNCHANGED last
  PROVE  Atomic!Register
<1>1. ~clusterized /\ Len(instances) < InitialSize /\ instances' = Append(instances, m)
  BY ClusterizationAssumption DEF Register, Satisfied, TypeOK
<1> DEFINE e == IF last.vm = None THEN 0 ELSE 1
<1>2. e' \in IF Len(instances') = ClusterizationTarget THEN {e, 1} ELSE {e}
  <2>1. CASE UNCHANGED last
    BY <2>1
  <2>2. CASE Elect(m)
    BY <2>2, ClusterizationAssumption DEF Elect, IsLast
  <2> QED
    BY <2>1, <2>2
<1> QED
  BY <1>1, <1>2 DEF Atomic!Register

\* Every step is one of Registration, or leaves what it is about alone.
LEMMA Simulation ==
  TypeOK /\ FormationInv /\ [Next]_vars
    => [Atomic!Register \/ Atomic!Finalize]_(Atomic!ledger)
<1> SUFFICES ASSUME TypeOK, FormationInv, [Next]_vars
             PROVE  [Atomic!Register \/ Atomic!Finalize]_(Atomic!ledger)
  OBVIOUS
<1>1. ASSUME NEW m \in VMs, ClusterizeFails(m) \/ Clusterize(m) \/ AnswerLost(m)
      PROVE [Atomic!Register \/ Atomic!Finalize]_(Atomic!ledger)
  <2>1. CASE UNCHANGED <<instances, last>>
    BY <1>1, <2>1 DEF ClusterizeFails, Clusterize, AnswerLost, Atomic!ledger
  <2>2. CASE Register(m) /\ (Elect(m) \/ UNCHANGED last)
    BY <1>1, <2>2, RegisterSimulates DEF ClusterizeFails, Clusterize, AnswerLost
  <2> QED
    BY <1>1, <2>1, <2>2 DEF ClusterizeFails, Clusterize, AnswerLost
<1>2. ASSUME NEW m \in VMs, Finalize(m)
      PROVE [Atomic!Register \/ Atomic!Finalize]_(Atomic!ledger)
  <2>1. last.vm # None
    BY <1>2 DEF Finalize, FormationInv
  <2> QED
    BY <1>2, <2>1 DEF Finalize, Atomic!Finalize
<1>3. ASSUME UNCHANGED <<instances, clusterized>>, last'.vm = last.vm
      PROVE [Atomic!Register \/ Atomic!Finalize]_(Atomic!ledger)
  BY <1>3 DEF Atomic!ledger
<1>4. CASE LastStep \/ LastFails
  BY <1>3, <1>4 DEF LastStep, LastFails, PrepareObs, SetAdminPassword,
    SetDeploymentPassword, GetPrivateIps, Answer, Advance, TypeOK
<1>5. ASSUME NEW m \in VMs,
             \/ Grow(m) \/ Tidy(m) \/ Terminate(m) \/ Deploy(m) \/ FormCluster(m) \/ Join(m)
             \/ MachineFails(m) \/ ScriptFails(m) \/ DeployFails(m) \/ FinalizeFails(m)
      PROVE [Atomic!Register \/ Atomic!Finalize]_(Atomic!ledger)
  BY <1>3, <1>5 DEF Grow, Tidy, Terminate, Deploy, FormCluster, Join, MachineFails,
    ScriptFails, DeployFails, FinalizeFails
<1> QED
  BY <1>1, <1>2, <1>3, <1>4, <1>5 DEF Next, Script, Failure, vars

\* The list obeys the abstract registration, with the machines on it coming and
\* going and the call that completes it failing anywhere.
THEOREM RegistrationRefined == Spec => ImplementsRegistration
<1> QED
  BY Simulation, SimulationInit, TypeCorrect, FormationSafe, PTL
  DEF Spec, ImplementsRegistration, Atomic!Spec

-----------------------------------------------------------------------------
(* The election.                                                           *)

\* A machine that registers is elected when the list reaches the target, which
\* nobody was before; in either case what the list had stays in its place.
LEMMA ElectEffect ==
  ASSUME TypeOK, FormationInv, NEW m \in VMs, Register(m), Elect(m)
  PROVE  /\ ~clusterized
         /\ \A i \in 1..Len(instances) : instances'[i] = instances[i]
         /\ \/ ~IsLast(Len(instances')) /\ last' = last
            \/ /\ IsLast(Len(instances')) /\ last.vm = None
               /\ last' = [vm |-> m, list |-> instances', step |-> "obs", ips |-> {}]
<1>1. Len(instances) \in Nat /\ Len(instances') = Len(instances) + 1 /\ ~clusterized
  BY RegisterType DEF TypeOK, Register, Satisfied
<1>2. \A i \in 1..Len(instances) : instances'[i] = instances[i]
  BY DEF TypeOK, Register
<1>3. IsLast(Len(instances')) => last.vm = None
  BY <1>1, ClusterizationAssumption DEF FormationInv, IsLast
<1> QED
  BY <1>1, <1>2, <1>3 DEF Elect

\* The initial state has no election.
LEMMA ElectionInit == Init => ElectionInv
  BY DEF Init, ElectionInv, ElectedList, ElectedRole, ClusterShape

\* A machine that moves, not to a place on the way to forming the cluster,
\* while the rest of what ElectionInv is about stays, keeps it.
LEMMA MoveKeepsElection ==
  ASSUME TypeOK, ElectionInv, NEW m \in VMs, NEW p, Move(m, p),
         p \notin {"asking", "forming", "formed"},
         UNCHANGED <<instances, clusterized, last, vault>>,
         cluster'.formed = cluster.formed, cluster'.deployment = cluster.deployment,
         cluster.formed <=> cluster'.members # {}
  PROVE  ElectionInv'
<1>1. \A n \in VMs : at'[n] \in {"asking", "forming", "formed"} => at'[n] = at[n]
  BY MoveEffect
<1>2. ElectedList'
  BY DEF ElectionInv, ElectedList
<1>3. ElectedRole'
  BY <1>1 DEF ElectionInv, ElectedRole
<1>4. ClusterShape'
  BY DEF ElectionInv, ClusterShape
<1> QED
  BY <1>2, <1>3, <1>4 DEF ElectionInv

\* A machine that registers and goes on as its place in the list says, or whose
\* answer is lost, keeps it.
LEMMA RegisterKeepsElection ==
  ASSUME TypeOK, FormationInv, ElectionInv, NEW m \in VMs, NEW p, Move(m, p),
         Register(m), Elect(m),
         p \notin {"forming", "formed"}, p = "asking" => IsLast(Len(instances')),
         UNCHANGED <<clusterized, vault, cluster>>
  PROVE  ElectionInv'
<1> USE ClusterizationAssumption
<1>1. Len(instances) \in Nat /\ Len(instances') = Len(instances) + 1
  BY RegisterType DEF TypeOK
<1>2. at'[m] = p /\ \A n \in VMs \ {m} : at'[n] = at[n]
  BY MoveEffect
<1>3. CASE ~IsLast(Len(instances')) /\ last' = last
  <2>1. ElectedList'
    <3>1. last.vm # None => ClusterizationTarget <= Len(instances)
      BY <1>3, ElectEffect DEF FormationInv
    <3>2. last.vm # None => \A i \in 1..ClusterizationTarget : instances'[i] = instances[i]
      BY <1>1, <3>1, ElectEffect
    <3> QED
      BY <1>3, <3>2 DEF ElectionInv, ElectedList
  <2>2. ElectedRole'
    BY <1>2, <1>3 DEF ElectionInv, ElectedRole
  <2>3. ClusterShape'
    BY <1>3 DEF ElectionInv, ClusterShape
  <2> QED
    BY <2>1, <2>2, <2>3 DEF ElectionInv
<1>4. CASE /\ IsLast(Len(instances')) /\ last.vm = None
           /\ last' = [vm |-> m, list |-> instances', step |-> "obs", ips |-> {}]
  <2>1. last.step = "none" /\ ~cluster.formed /\ ~clusterized
    BY <1>4 DEF FormationInv
  <2>2. ElectedList'
    BY <1>4 DEF ElectedList, IsLast
  <2>3. ElectedRole'
    BY <1>2, <1>4, <2>1 DEF ElectionInv, ElectedRole
  <2>4. ClusterShape'
    BY <1>4, <2>1 DEF ElectionInv, ClusterShape
  <2> QED
    BY <2>2, <2>3, <2>4 DEF ElectionInv
<1> QED
  BY <1>3, <1>4, ElectEffect

\* A step of HandleLastClusterVm before its answer keeps it: the password is
\* made up when the step of that name is left.
LEMMA PrepareKeepsElection ==
  ASSUME TypeOK, ElectionInv,
         PrepareObs \/ SetAdminPassword \/ SetDeploymentPassword \/ GetPrivateIps \/ LastFails
  PROVE  ElectionInv'
<1>1. /\ last'.vm = last.vm /\ last'.list = last.list
      /\ UNCHANGED <<at, instances, clusterized, cluster>>
  BY DEF PrepareObs, SetAdminPassword, SetDeploymentPassword, GetPrivateIps, LastFails,
         Advance, TypeOK
<1>2. last'.step \in {"none", "obs", "admin", "deployment"} =>
        /\ last.step \in {"none", "obs", "admin", "deployment"}
        /\ vault'.deployment = vault.deployment
  BY DEF PrepareObs, SetAdminPassword, SetDeploymentPassword, GetPrivateIps, LastFails,
         Advance, TypeOK
<1> QED
  BY <1>1, <1>2 DEF ElectionInv, ElectedList, ElectedRole, ClusterShape

\* Every step keeps ElectionInv.
LEMMA ElectionStep == TypeOK /\ FormationInv /\ ElectionInv /\ [Next]_vars => ElectionInv'
<1> SUFFICES ASSUME TypeOK, FormationInv, ElectionInv, [Next]_vars PROVE ElectionInv'
  OBVIOUS
<1>1. ASSUME NEW m \in VMs,
             \/ Grow(m) \/ Tidy(m) \/ Terminate(m) \/ Deploy(m) \/ Join(m)
             \/ MachineFails(m) \/ ScriptFails(m) \/ DeployFails(m) \/ FinalizeFails(m)
      PROVE ElectionInv'
  <2> DEFINE p == at'[m]
  <2>1. p \notin {"asking", "forming", "formed"} /\ Move(m, p)
    <3>1. \A q \in Positions : Move(m, q) => at'[m] = q
      BY MoveEffect
    <3>2. DeployScript(m) \in {"deployed", "joining", "idle"}
      BY DEF DeployScript
    <3> QED
      BY <1>1, <3>1, <3>2
      DEF Grow, Tidy, Terminate, Deploy, Join, MachineFails, ScriptFails, DeployFails,
          FinalizeFails, Positions
  <2>2. /\ UNCHANGED <<instances, clusterized, last, vault>>
        /\ cluster'.formed = cluster.formed /\ cluster'.deployment = cluster.deployment
    BY <1>1
    DEF Grow, Tidy, Terminate, Deploy, Join, MachineFails, ScriptFails, DeployFails,
        FinalizeFails, TypeOK
  <2>3. cluster.formed <=> cluster'.members # {}
    <3>1. CASE Terminate(m)
      <4>1. PICK n \in cluster.members \cap Up : TRUE
        BY <3>1 DEF Terminate
      <4>2. cluster.formed
        BY <4>1 DEF ElectionInv, ClusterShape
      <4>3. n # m \/ cluster'.members = cluster.members
        BY <3>1, <4>1 DEF Terminate, Up, Present, TypeOK
      <4>4. cluster'.members = cluster.members \ {m}
        BY <3>1 DEF Terminate, TypeOK
      <4> QED
        BY <4>1, <4>2, <4>3, <4>4
    <3>2. CASE Join(m)
      BY <3>2 DEF Join, TypeOK, ElectionInv, ClusterShape
    <3>3. CASE UNCHANGED cluster
      BY <3>3 DEF ElectionInv, ClusterShape
    <3> QED
      BY <1>1, <3>1, <3>2, <3>3
      DEF Grow, Tidy, Deploy, MachineFails, ScriptFails, DeployFails, FinalizeFails
  <2> QED
    BY <2>1, <2>2, <2>3, MoveKeepsElection
<1>2. ASSUME NEW m \in VMs, ClusterizeFails(m) PROVE ElectionInv'
  <2>1. \A n \in VMs : at'[n] \in {"asking", "forming", "formed"} => at'[n] = at[n]
    BY <1>2, MoveEffect DEF ClusterizeFails
  <2>2. \A i \in 1..Len(instances) : instances'[i] = instances[i]
    BY <1>2 DEF ClusterizeFails, Register, TypeOK
  <2>3. last.vm # None /\ ~clusterized =>
          \A i \in 1..ClusterizationTarget : instances'[i] = instances[i]
    BY <2>2, ClusterizationAssumption DEF FormationInv, TypeOK
  <2>4. UNCHANGED <<clusterized, vault, last, cluster>>
    BY <1>2 DEF ClusterizeFails
  <2> QED
    BY <2>1, <2>3, <2>4 DEF ElectionInv, ElectedList, ElectedRole, ClusterShape
<1>3. ASSUME NEW m \in VMs, Clusterize(m) PROVE ElectionInv'
  <2>1. CASE Move(m, "down") /\ UNCHANGED <<instances, last>>
    <3>1. cluster.formed <=> cluster'.members # {}
      BY <1>3 DEF Clusterize, ElectionInv, ClusterShape
    <3> QED
      BY <1>3, <2>1, <3>1, MoveKeepsElection DEF Clusterize
  <2>2. CASE Register(m) /\ Elect(m) /\ Move(m, Verdict(Len(instances')))
    <3>1. /\ Verdict(Len(instances')) \notin {"forming", "formed"}
          /\ Verdict(Len(instances')) = "asking" => IsLast(Len(instances'))
      BY DEF Verdict
    <3> QED
      BY <1>3, <2>2, <3>1, RegisterKeepsElection DEF Clusterize
  <2> QED
    BY <1>3, <2>1, <2>2 DEF Clusterize
<1>4. ASSUME NEW m \in VMs, AnswerLost(m) PROVE ElectionInv'
  <2>1. CASE Register(m) /\ Elect(m)
    BY <1>4, <2>1, RegisterKeepsElection DEF AnswerLost
  <2>2. CASE UNCHANGED <<instances, last>>
    <3>1. cluster.formed <=> cluster'.members # {}
      BY <1>4 DEF AnswerLost, ElectionInv, ClusterShape
    <3> QED
      BY <1>4, <2>2, <3>1, MoveKeepsElection DEF AnswerLost
  <2> QED
    BY <1>4, <2>1, <2>2 DEF AnswerLost
<1>5. CASE PrepareObs \/ SetAdminPassword \/ SetDeploymentPassword \/ GetPrivateIps \/ LastFails
  BY <1>5, PrepareKeepsElection
<1>6. CASE Answer
  <2>1. /\ last.step \in {"answer", "error"}
        /\ last'.vm = last.vm /\ last'.list = last.list /\ last'.step = "done"
        /\ UNCHANGED <<instances, clusterized, vault, cluster>>
    BY <1>6 DEF Answer, TypeOK
  <2>2. last.vm \in VMs
    BY <2>1 DEF TypeOK
  <2>3. \A n \in VMs :
          \/ at'[n] = at[n]
          \/ at'[n] = "forming" /\ at[n] = "asking" /\ n = last.vm
          \/ at'[n] = "idle"
    BY <1>6, <2>2, MoveEffect DEF Answer
  <2> QED
    BY <2>1, <2>3 DEF ElectionInv, ElectedList, ElectedRole, ClusterShape
<1>7. ASSUME NEW m \in VMs, FormCluster(m) PROVE ElectionInv'
  <2>1. CASE CanForm
    <3>1. /\ cluster'.formed /\ cluster'.members = Range(last.list)
          /\ UNCHANGED <<instances, clusterized, last, vault>>
      BY <1>7, <2>1 DEF FormCluster
    <3>2. last.step = "done" /\ m = last.vm /\ ~clusterized
      BY <1>7 DEF FormCluster, FormationInv, ElectionInv, ElectedRole
    <3>3. last.list[1] \in Range(last.list)
      BY <3>2, ClusterizationAssumption DEF ElectionInv, ElectedList, TypeOK, Range
    <3>4. \A n \in VMs :
            /\ at'[n] \in {"asking", "forming", "formed"} => n = m
            /\ at'[m] = "formed"
      BY <1>7, <2>1, <3>2, MoveEffect DEF FormCluster, ElectionInv, ElectedRole
    <3> QED
      BY <3>1, <3>2, <3>3, <3>4 DEF ElectionInv, ElectedList, ElectedRole, ClusterShape
  <2>2. CASE ~CanForm
    <3>1. cluster.formed <=> cluster'.members # {}
      BY <1>7, <2>2 DEF FormCluster, ElectionInv, ClusterShape
    <3> QED
      BY <1>7, <2>2, <3>1, MoveKeepsElection DEF FormCluster
  <2> QED
    BY <2>1, <2>2
<1>8. ASSUME NEW m \in VMs, Finalize(m) PROVE ElectionInv'
  <2>1. \A n \in VMs : at'[n] \notin {"asking", "forming", "formed"}
    BY <1>8, MoveEffect DEF Finalize, ElectionInv, ElectedRole
  <2> QED
    BY <1>8, <2>1 DEF Finalize, ElectionInv, ElectedList, ElectedRole, ClusterShape
<1>9. CASE UNCHANGED vars
  BY <1>9 DEF vars, ElectionInv, ElectedList, ElectedRole, ClusterShape
<1> QED
  BY <1>1, <1>2, <1>3, <1>4, <1>5, <1>6, <1>7, <1>8, <1>9
  DEF Next, Script, Failure, LastStep

\* The cluster is to be formed of the part of the list that reached the target,
\* by the elected machine and nobody else, whatever fails or is repeated.
THEOREM ElectionSafe == Spec => []ElectionInv
<1> QED
  BY ElectionInit, ElectionStep, TypeCorrect, FormationSafe, PTL DEF Spec

-----------------------------------------------------------------------------
(* Losses are final.                                                       *)

\* A machine gets the script that forms the cluster as the one that waits for
\* it, waits only if nobody was elected before, and one that is not up comes
\* back only as a new machine, which is not listed.
LEMMA PositionStep ==
  ASSUME TypeOK, FormationInv, [Next]_vars, NEW n \in VMs, at'[n] # at[n]
  PROVE  /\ at'[n] = "forming" => at[n] = "asking"
         /\ at'[n] = "asking" =>
              last.vm = None /\ Len(instances) < ClusterizationTarget
         /\ at'[n] = "formed" => at[n] = "forming"
         /\ at[n] \in {"gone", "down"} /\ at'[n] \notin {"gone", "down"} =>
              n \notin Range(instances)
<1>1. CASE LastStep \/ LastFails
  <2>1. Answer
    BY <1>1 DEF LastStep, LastFails, PrepareObs, SetAdminPassword, SetDeploymentPassword,
                GetPrivateIps
  <2>2. last.vm \in VMs /\ at[last.vm] = "asking"
    BY <2>1 DEF Answer, TypeOK
  <2>3. n = last.vm /\ at'[n] \in {"forming", "idle"}
    BY <2>1, <2>2, MoveEffect DEF Answer
  <2> QED
    BY <2>2, <2>3
<1>2. ASSUME NEW m \in VMs, NEW p, Move(m, p) PROVE m = n /\ at'[n] = p
  BY <1>2, MoveEffect
<1>3. ASSUME NEW m \in VMs,
             \/ Grow(m) \/ Tidy(m) \/ Terminate(m) \/ Deploy(m) \/ Join(m) \/ Finalize(m)
             \/ FormCluster(m) \/ AnswerLost(m) \/ Failure(m)
      PROVE /\ at'[n] \notin {"forming", "asking"}
            /\ at'[n] = "formed" => at[n] = "forming"
            /\ at[n] \in {"gone", "down"} /\ at'[n] \notin {"gone", "down"} =>
                 n \notin Range(instances)
  <2>1. DeployScript(m) \in {"deployed", "joining", "idle"}
    BY DEF DeployScript
  <2> QED
    BY <1>2, <1>3, <2>1
    DEF Grow, Tidy, Terminate, Deploy, Join, Finalize, FormCluster, AnswerLost, Failure,
        MachineFails, ScriptFails, DeployFails, ClusterizeFails, FinalizeFails
<1>4. ASSUME NEW m \in VMs, Clusterize(m)
      PROVE /\ at[n] = "deployed"
            /\ at'[n] \notin {"forming", "formed"}
            /\ at'[n] = "asking" =>
                 last.vm = None /\ Len(instances) < ClusterizationTarget
  <2>1. CASE Move(m, "down")
    BY <1>2, <1>4, <2>1 DEF Clusterize
  <2>2. CASE Register(m) /\ Elect(m) /\ Move(m, Verdict(Len(instances')))
    <3>1. at[n] = "deployed" /\ at'[n] = Verdict(Len(instances'))
      BY <1>2, <1>4, <2>2 DEF Clusterize
    <3>2. IsLast(Len(instances')) =>
            last.vm = None /\ Len(instances) < ClusterizationTarget
      BY <2>2, ElectEffect, RegisterType, ClusterizationAssumption DEF IsLast, TypeOK
    <3> QED
      BY <3>1, <3>2 DEF Verdict
  <2> QED
    BY <1>4, <2>1, <2>2 DEF Clusterize
<1> QED
  BY <1>1, <1>3, <1>4 DEF Next, Script, vars

\* Until the cluster is formed the list only gets longer, and the election
\* stays as it is once the list has reached the target.
LEMMA ListStep ==
  ASSUME TypeOK, FormationInv, [Next]_vars
  PROVE  /\ ~cluster.formed =>
              /\ Len(instances') >= Len(instances)
              /\ \A i \in 1..Len(instances) : instances'[i] = instances[i]
         /\ last.vm # None => last'.vm = last.vm
         /\ last.vm = None /\ Len(instances) >= ClusterizationTarget => last'.vm = None
<1> USE ClusterizationAssumption
<1>1. Len(instances) \in Nat
  BY DEF TypeOK
<1>2. ASSUME NEW m \in VMs, Register(m), Elect(m) \/ UNCHANGED last
      PROVE /\ Len(instances') >= Len(instances)
            /\ \A i \in 1..Len(instances) : instances'[i] = instances[i]
            /\ last.vm # None => last'.vm = last.vm
            /\ last.vm = None /\ Len(instances) >= ClusterizationTarget => last'.vm = None
  <2>1. Len(instances') = Len(instances) + 1
    BY <1>2, RegisterType
  <2>2. \A i \in 1..Len(instances) : instances'[i] = instances[i]
    BY <1>2 DEF Register, TypeOK
  <2>3. CASE Elect(m)
    BY <1>1, <1>2, <2>1, <2>2, <2>3, ElectEffect DEF IsLast
  <2> QED
    BY <1>1, <1>2, <2>1, <2>2, <2>3
<1>3. ASSUME NEW m \in VMs, Clusterize(m) \/ AnswerLost(m) \/ ClusterizeFails(m)
      PROVE UNCHANGED <<instances, last>> \/ (Register(m) /\ (Elect(m) \/ UNCHANGED last))
  BY <1>3 DEF Clusterize, AnswerLost, ClusterizeFails
<1>4. ASSUME NEW m \in VMs, Finalize(m) PROVE cluster.formed /\ UNCHANGED last
  BY <1>4 DEF Finalize, FormationInv
<1>5. CASE UNCHANGED instances /\ last'.vm = last.vm
  BY <1>1, <1>5
<1>6. CASE LastStep \/ LastFails
  <2>1. UNCHANGED instances /\ last'.vm = last.vm
    BY <1>6 DEF LastStep, LastFails, PrepareObs, SetAdminPassword, SetDeploymentPassword,
                GetPrivateIps, Answer, Advance, TypeOK
  <2> QED
    BY <1>5, <2>1
<1>7. ASSUME NEW m \in VMs,
             \/ Grow(m) \/ Tidy(m) \/ Terminate(m) \/ Deploy(m) \/ FormCluster(m) \/ Join(m)
             \/ MachineFails(m) \/ ScriptFails(m) \/ DeployFails(m) \/ FinalizeFails(m)
      PROVE UNCHANGED instances /\ last'.vm = last.vm
  BY <1>7 DEF Grow, Tidy, Terminate, Deploy, FormCluster, Join, MachineFails, ScriptFails,
              DeployFails, FinalizeFails
<1> QED
  BY <1>1, <1>2, <1>3, <1>4, <1>5, <1>6, <1>7 DEF Next, Script, Failure, vars

\* The cluster is formed by the elected machine, when all the machines it is
\* formed of are up and listed once, and is reported by that machine.
LEMMA ClusterStep ==
  ASSUME TypeOK, FormationInv, ElectionInv, [Next]_vars
  PROVE  /\ cluster.formed => cluster'.formed
         /\ ~cluster.formed /\ cluster'.formed =>
              last.vm \in VMs /\ at[last.vm] = "forming" /\ CanForm
         /\ ~clusterized /\ clusterized' => at[last.vm] = "formed"
<1>1. ASSUME NEW m \in VMs, FormCluster(m)
      PROVE /\ UNCHANGED clusterized
            /\ \/ UNCHANGED cluster
               \/ last.vm \in VMs /\ at[last.vm] = "forming" /\ CanForm /\ cluster'.formed
  BY <1>1 DEF FormCluster, ElectionInv, ElectedRole
<1>2. ASSUME NEW m \in VMs, Finalize(m)
      PROVE UNCHANGED cluster /\ at[last.vm] = "formed"
  BY <1>2 DEF Finalize, ElectionInv, ElectedRole
<1>3. ASSUME NEW m \in VMs,
             \/ Grow(m) \/ Tidy(m) \/ Terminate(m) \/ Deploy(m) \/ Clusterize(m) \/ Join(m)
             \/ AnswerLost(m) \/ Failure(m)
      PROVE UNCHANGED clusterized /\ cluster'.formed = cluster.formed
  BY <1>3 DEF Grow, Tidy, Terminate, Deploy, Clusterize, Join, AnswerLost, Failure,
              MachineFails, ScriptFails, DeployFails, ClusterizeFails, FinalizeFails, TypeOK
<1>4. CASE LastStep \/ LastFails \/ UNCHANGED vars
  BY <1>4 DEF LastStep, LastFails, PrepareObs, SetAdminPassword, SetDeploymentPassword,
              GetPrivateIps, Answer, vars
<1> QED
  BY <1>1, <1>2, <1>3, <1>4 DEF Next, Script

\* While one of the machines to form the cluster is lost no step finds all of
\* them up and listed once, and no step brings it back.
LEMMA FormerLostStays ==
  ASSUME TypeOK, FormationInv, ElectionInv, [Next]_vars, ~cluster.formed, FormerLost
  PROVE  ~cluster'.formed /\ FormerLost'
<1> USE ClusterizationAssumption
<1>1. ~clusterized
  BY DEF FormationInv
<1>2. ASSUME last.vm \in VMs, CanForm PROVE FALSE
  <2>1. \A i \in Formers :
          i \in DOMAIN last.list /\ last.list[i] = instances[i] /\ instances[i] \in Up
    BY <1>1, <1>2 DEF Formers, CanForm, Range, ElectionInv, ElectedList, TypeOK
  <2> QED
    BY <1>2, <2>1 DEF FormerLost, CanForm, IsInjective
<1>3. ~cluster'.formed
  BY <1>2, ClusterStep
<1>4. \A i \in Formers : i \in Formers' /\ instances'[i] = instances[i]
  <2>1. instances \in Seq(VMs) /\ instances' \in Seq(VMs)
    BY NextType DEF TypeOK
  <2>2. /\ Len(instances') >= Len(instances)
        /\ \A i \in 1..Len(instances) : instances'[i] = instances[i]
    BY ListStep
  <2> QED
    BY <2>1, <2>2 DEF Formers
<1>5. ASSUME NEW i \in Formers, instances[i] \notin Up PROVE instances'[i] \notin Up'
  <2>1. instances[i] \in VMs /\ instances[i] \in Range(instances)
    BY DEF Formers, TypeOK, Range
  <2>2. at'[instances[i]] \in {"gone", "down"}
    BY <1>5, <2>1, PositionStep DEF Up, Present
  <2> QED
    BY <1>4, <2>1, <2>2 DEF Up, Present
<1> QED
  BY <1>3, <1>4, <1>5 DEF FormerLost

\* Once there is nobody left to form the cluster nobody takes over.
LEMMA NobodyStays ==
  ASSUME TypeOK, FormationInv, ElectionInv, [Next]_vars, ~cluster.formed, NobodyForms
  PROVE  ~cluster'.formed /\ NobodyForms'
<1> USE ClusterizationAssumption
<1>1. ~cluster'.formed
  <2>1. SUFFICES ASSUME cluster'.formed PROVE FALSE
    OBVIOUS
  <2>2. last.vm \in VMs /\ at[last.vm] = "forming"
    BY <2>1, ClusterStep
  <2> QED
    BY <2>2 DEF NobodyForms
<1>2. Len(instances') >= ClusterizationTarget
  BY ListStep, NextType DEF NobodyForms, TypeOK
<1>3. CASE last.vm = None
  BY <1>1, <1>2, <1>3, ListStep DEF NobodyForms
<1>4. CASE last.vm # None
  <2>1. last.vm \in VMs /\ last'.vm = last.vm
    BY <1>4, ListStep DEF TypeOK
  <2>2. at'[last.vm] \notin {"asking", "forming"}
    BY <1>4, <2>1, PositionStep DEF NobodyForms
  <2> QED
    BY <1>1, <1>2, <2>1, <2>2 DEF NobodyForms
<1> QED
  BY <1>3, <1>4

\* A cluster whose machine will not report it is reported by none.
LEMMA UnreportedStays ==
  ASSUME TypeOK, FormationInv, ElectionInv, [Next]_vars, Unreported
  PROVE  Unreported'
<1>1. cluster'.formed /\ ~clusterized'
  BY ClusterStep, NextType DEF Unreported, TypeOK
<1>2. last.vm \in VMs /\ last'.vm = last.vm
  BY ListStep, ClusterizationAssumption DEF Unreported, FormationInv, TypeOK
<1>3. at[last.vm] # "forming"
  BY <1>2 DEF Unreported, ElectionInv, ElectedRole
<1>4. at'[last.vm] # "formed"
  BY <1>2, <1>3, PositionStep DEF Unreported
<1> QED
  BY <1>1, <1>2, <1>4 DEF Unreported

\* Nothing that fails, is replaced or is called again brings a lost formation
\* back on its way: FormationSurvives leaves out nothing the code repairs.
THEOREM LostForGood == Spec => LossIsFinal
<1>1. TypeOK /\ FormationInv /\ ElectionInv /\ [Next]_vars => (Beyond => Beyond')
  BY FormerLostStays, NobodyStays, UnreportedStays DEF Beyond
<1>2. TypeOK /\ FormationInv /\ ElectionInv /\ [Next]_vars => [Beyond => Beyond']_vars
  BY <1>1
<1> QED
  BY <1>2, TypeCorrect, FormationSafe, ElectionSafe, PTL DEF Spec, LossIsFinal

-----------------------------------------------------------------------------
(* Without repeated calls.                                                 *)

\* A machine that is not in a list can be appended without being there twice.
LEMMA AppendInjective ==
  ASSUME NEW s \in Seq(VMs), NEW m \in VMs, IsInjective(s), m \notin Range(s)
  PROVE  IsInjective(Append(s, m)) /\ Range(Append(s, m)) = Range(s) \cup {m}
<1> DEFINE t == Append(s, m)
<1>1. /\ DOMAIN s = 1..Len(s) /\ DOMAIN t = 1..Len(s) + 1 /\ Len(s) \in Nat
      /\ t[Len(s) + 1] = m
      /\ \A i \in 1..Len(s) : t[i] = s[i]
  OBVIOUS
<1>2. \A i \in DOMAIN t : i = Len(s) + 1 \/ i \in DOMAIN s
  BY <1>1
<1> HIDE DEF t
<1>3. IsInjective(t)
  BY <1>1, <1>2 DEF IsInjective, Range
<1>4. Range(t) = Range(s) \cup {m}
  BY <1>1, <1>2 DEF Range
<1> QED
  BY <1>3, <1>4 DEF t

\* A list without repetitions has as many machines as entries.
LEMMA ListCardinality ==
  ASSUME NEW s \in Seq(VMs), IsInjective(s)
  PROVE  Cardinality(Range(s)) = Len(s)
<1>1. s \in Bijection(1..Len(s), Range(s))
  BY DEF Bijection, Injection, Surjection, Range
<1>2. ExistsBijection(1..Len(s), Range(s))
  BY <1>1 DEF ExistsBijection
<1>3. Len(s) \in Nat
  OBVIOUS
<1>4. IsFiniteSet(1..Len(s)) /\ Cardinality(1..Len(s)) = Len(s)
  BY <1>3, FS_Interval
<1> QED
  BY <1>2, <1>4, FS_Bijection

\* What ListedOnce says of the lists, and of a machine that has to register.
Single == IsInjective(instances) /\ (last.vm # None => IsInjective(last.list))

Uncounted(m) ==
  /\ m \notin Range(instances) \cup cluster.members
  /\ cluster.formed \/ m \notin Range(last.list)

\* A machine that registers is listed once, and those that have yet to register
\* are not listed by it.
LEMMA RegisterOnce ==
  ASSUME TypeOK, NEW m \in VMs, Register(m), Elect(m) \/ UNCHANGED last,
         UNCHANGED cluster, Single, Uncounted(m)
  PROVE  Single' /\ \A n \in VMs \ {m} : Uncounted(n) => Uncounted(n)'
<1>1. /\ instances' = Append(instances, m)
      /\ IsInjective(instances') /\ Range(instances') = Range(instances) \cup {m}
  BY AppendInjective DEF TypeOK, Register, Single, Uncounted
<1>2. \/ last' = last
      \/ last' = [vm |-> m, list |-> instances', step |-> "obs", ips |-> {}]
  BY DEF Elect
<1>3. CASE last' = last
  BY <1>1, <1>3 DEF Single, Uncounted
<1>4. CASE last' = [vm |-> m, list |-> instances', step |-> "obs", ips |-> {}]
  BY <1>1, <1>4 DEF Single, Uncounted
<1> QED
  BY <1>2, <1>3, <1>4

\* Every step keeps ListedOnce.
LEMMA ListedOnceStep ==
  TypeOK /\ ElectionInv /\ ListedOnce /\ [Next]_vars => ListedOnce'
<1> SUFFICES ASSUME TypeOK, ElectionInv, ListedOnce, [Next]_vars, repeats' = 0
             PROVE  Single' /\ \A n \in VMs : at'[n] \in {"booting", "deployed"} => Uncounted(n)'
  BY DEF ListedOnce, Single, Uncounted
<1>1. repeats = 0
  BY DEF Next, LastStep, LastFails, PrepareObs, SetAdminPassword, SetDeploymentPassword,
         GetPrivateIps, Answer, Grow, Tidy, Terminate, Script, Deploy, Clusterize,
         FormCluster, Finalize, Join, AnswerLost, Failure, MachineFails, ScriptFails,
         DeployFails, ClusterizeFails, FinalizeFails, vars, TypeOK
<1>2. Single /\ \A n \in VMs : at[n] \in {"booting", "deployed"} => Uncounted(n)
  BY <1>1 DEF ListedOnce, Single, Uncounted
<1>3. ASSUME NEW m \in VMs, NEW q, Move(m, q), UNCHANGED <<instances, last>>,
             q \in {"booting", "deployed"} => Uncounted(m),
             cluster'.formed = cluster.formed,
             cluster'.members \subseteq cluster.members \cup {m},
             m \in cluster'.members \ cluster.members => q \notin {"booting", "deployed"}
      PROVE Single' /\ \A n \in VMs : at'[n] \in {"booting", "deployed"} => Uncounted(n)'
  BY <1>2, <1>3, MoveEffect DEF Single, Uncounted
<1>4. ASSUME NEW m \in VMs, Grow(m)
      PROVE Single' /\ \A n \in VMs : at'[n] \in {"booting", "deployed"} => Uncounted(n)'
  BY <1>3, <1>4 DEF Grow, Uncounted
<1>5. ASSUME NEW m \in VMs, Deploy(m)
      PROVE Single' /\ \A n \in VMs : at'[n] \in {"booting", "deployed"} => Uncounted(n)'
  BY <1>2, <1>3, <1>5 DEF Deploy
<1>6. ASSUME NEW m \in VMs,
             Tidy(m) \/ MachineFails(m) \/ ScriptFails(m) \/ DeployFails(m) \/ FinalizeFails(m)
      PROVE Single' /\ \A n \in VMs : at'[n] \in {"booting", "deployed"} => Uncounted(n)'
  BY <1>3, <1>6 DEF Tidy, MachineFails, ScriptFails, DeployFails, FinalizeFails
<1>7. ASSUME NEW m \in VMs, Terminate(m) \/ Join(m)
      PROVE Single' /\ \A n \in VMs : at'[n] \in {"booting", "deployed"} => Uncounted(n)'
  BY <1>3, <1>7 DEF Terminate, Join, TypeOK
<1>8. ASSUME NEW m \in VMs, NEW q, Move(m, q), q \notin {"booting", "deployed"},
             at[m] = "deployed", Register(m), Elect(m) \/ UNCHANGED last, UNCHANGED cluster
      PROVE Single' /\ \A n \in VMs : at'[n] \in {"booting", "deployed"} => Uncounted(n)'
  BY <1>2, <1>8, RegisterOnce, MoveEffect
<1>9. ASSUME NEW m \in VMs, Clusterize(m)
      PROVE Single' /\ \A n \in VMs : at'[n] \in {"booting", "deployed"} => Uncounted(n)'
  <2>1. CASE Move(m, "down") /\ UNCHANGED <<instances, last>>
    BY <1>3, <1>9, <2>1 DEF Clusterize
  <2>2. CASE Register(m) /\ Elect(m) /\ Move(m, Verdict(Len(instances')))
    <3>1. Verdict(Len(instances')) \notin {"booting", "deployed"}
      BY DEF Verdict
    <3> QED
      BY <1>8, <1>9, <2>2, <3>1 DEF Clusterize
  <2> QED
    BY <1>9, <2>1, <2>2 DEF Clusterize
<1>10. ASSUME NEW m \in VMs, ClusterizeFails(m)
      PROVE Single' /\ \A n \in VMs : at'[n] \in {"booting", "deployed"} => Uncounted(n)'
  BY <1>3, <1>8, <1>10 DEF ClusterizeFails
<1>11. ASSUME NEW m \in VMs, AnswerLost(m) PROVE FALSE
  BY <1>1, <1>11 DEF AnswerLost
<1>12. ASSUME NEW m \in VMs, FormCluster(m)
      PROVE Single' /\ \A n \in VMs : at'[n] \in {"booting", "deployed"} => Uncounted(n)'
  <2>1. CASE CanForm
    <3>1. ~cluster.formed
      BY <1>12 DEF FormCluster, ElectionInv, ElectedRole
    <3>2. /\ cluster'.formed /\ cluster'.members = Range(last.list)
          /\ UNCHANGED <<instances, last>> /\ Move(m, "formed")
      BY <1>12, <2>1 DEF FormCluster
    <3> QED
      BY <1>2, <3>1, <3>2, MoveEffect DEF Single, Uncounted
  <2>2. CASE ~CanForm
    BY <1>3, <1>12, <2>2 DEF FormCluster
  <2> QED
    BY <2>1, <2>2
<1>13. ASSUME NEW m \in VMs, Finalize(m)
      PROVE Single' /\ \A n \in VMs : at'[n] \in {"booting", "deployed"} => Uncounted(n)'
  <2>1. IsInjective(instances') /\ Range(instances') = {}
    BY <1>13 DEF Finalize, IsInjective, Range
  <2>2. UNCHANGED <<last, cluster>> /\ Move(m, "idle")
    BY <1>13 DEF Finalize
  <2> QED
    BY <1>2, <2>1, <2>2, MoveEffect DEF Single, Uncounted
<1>14. ASSUME LastStep \/ LastFails
      PROVE Single' /\ \A n \in VMs : at'[n] \in {"booting", "deployed"} => Uncounted(n)'
  <2>1. UNCHANGED <<instances, cluster>> /\ last'.vm = last.vm /\ last'.list = last.list
    BY <1>14 DEF LastStep, LastFails, PrepareObs, SetAdminPassword, SetDeploymentPassword,
                 GetPrivateIps, Answer, Advance, TypeOK
  <2>2. \A n \in VMs : at'[n] \in {"booting", "deployed"} => at'[n] = at[n]
    BY <1>14, MoveEffect
    DEF LastStep, LastFails, PrepareObs, SetAdminPassword, SetDeploymentPassword,
        GetPrivateIps, Answer, TypeOK
  <2> QED
    BY <1>2, <2>1, <2>2 DEF Single, Uncounted
<1>15. CASE UNCHANGED vars
  BY <1>2, <1>15 DEF vars, Single, Uncounted
<1> QED
  BY <1>4, <1>5, <1>6, <1>7, <1>9, <1>10, <1>11, <1>12, <1>13, <1>14, <1>15
  DEF Next, Script, Failure

\* As long as no call is repeated every machine is listed once, and a machine
\* that is told to shut down is not one the cluster counts on.
THEOREM EveryoneListedOnce == Spec => []ListedOnce
<1>1. Init => ListedOnce
  BY DEF Init, ListedOnce, IsInjective, Range
<1> QED
  BY <1>1, ListedOnceStep, TypeCorrect, ElectionSafe, PTL DEF Spec

\* A repeated call is the only way for the last machine not to be the last one
\* (clusterize.go:124): without one the cluster is to be formed of as many
\* machines as the target says.
THEOREM LastIsLastUnrepeated == Spec => [](repeats = 0 => LastIsLast)
<1>1. TypeOK /\ ElectionInv /\ ListedOnce => (repeats = 0 => LastIsLast)
  BY ListCardinality DEF TypeOK, ElectionInv, ElectedList, ListedOnce, LastIsLast
<1> QED
  BY <1>1, TypeCorrect, ElectionSafe, EveryoneListedOnce, PTL

-----------------------------------------------------------------------------
(* The cluster as a whole.                                                 *)

\* The initial state maps to one without a cluster.
LEMMA WholeInit == Init => Whole!Init
  BY DEF Init, Whole!Init

\* The machine that is to form the cluster makes up the password.
LEMMA GenerateSimulates ==
  ASSUME TypeOK, ElectionInv, NEW next, Advance("deployment", next),
         vault' = [vault EXCEPT !.deployment = last.vm], UNCHANGED <<clusterized, cluster>>
  PROVE  Whole!Generate
<1>1. last.vm \in VMs /\ vault.deployment = None
  BY DEF Advance, TypeOK, ElectionInv, ClusterShape
<1>2. vault'.deployment = last.vm
  BY DEF TypeOK
<1> QED
  BY <1>1, <1>2 DEF Whole!Generate

\* The script that forms the cluster forms it with that password, of as many
\* machines as the target says.
LEMMA FormSimulates ==
  ASSUME TypeOK, FormationInv, ElectionInv, NEW m \in VMs, FormCluster(m), CanForm
  PROVE  Whole!Form
<1> USE ClusterizationAssumption
<1>1. m = last.vm /\ ~cluster.formed /\ vault.deployment = last.vm
  BY DEF FormCluster, FormationInv, ElectionInv, ElectedRole
<1>2. /\ cluster' = [formed |-> TRUE, members |-> Range(last.list),
                     admin |-> vault.admin, deployment |-> vault.deployment]
      /\ UNCHANGED <<vault, clusterized>>
  BY DEF FormCluster
<1>3. last.list \in Seq(VMs) /\ Range(last.list) \in SUBSET VMs
  BY RangeType DEF TypeOK
<1>4. Cardinality(Range(last.list)) = ClusterizationTarget
  BY <1>1, <1>3, ListCardinality DEF CanForm, ElectionInv, ElectedList
<1> QED
  BY <1>1, <1>2, <1>3, <1>4 DEF Whole!Form, Whole!Cardinality, Cardinality

\* A machine that the scale-down workflow deletes leaves, if it was a member,
\* and a member that runs is left behind.
LEMMA LeaveSimulates ==
  ASSUME TypeOK, NEW m \in VMs, Terminate(m)
  PROVE  Whole!Leave \/ UNCHANGED Whole!world
<1>1. /\ cluster'.members = cluster.members \ {m}
      /\ cluster'.formed = cluster.formed /\ cluster'.deployment = cluster.deployment
      /\ UNCHANGED <<vault, clusterized>>
  BY DEF Terminate, TypeOK
<1>2. CASE m \in cluster.members
  <2>1. PICK n \in cluster.members : n \in Up
    BY DEF Terminate
  <2>2. n # m
    BY <1>2, <2>1 DEF Terminate, Up, Present
  <2> QED
    BY <1>1, <1>2, <2>1, <2>2 DEF Whole!Leave
<1>3. CASE m \notin cluster.members
  BY <1>1, <1>3 DEF Whole!world
<1> QED
  BY <1>2, <1>3

\* Every step is one of WekaCluster, or leaves what it is about alone.
LEMMA WholeSimulation ==
  TypeOK /\ FormationInv /\ ElectionInv /\ [Next]_vars => [Whole!Next]_(Whole!world)
<1> SUFFICES ASSUME TypeOK, FormationInv, ElectionInv, [Next]_vars
             PROVE  Whole!Next \/ UNCHANGED Whole!world
  OBVIOUS
<1>1. CASE SetDeploymentPassword \/ LastFails
  <2>1. UNCHANGED <<clusterized, cluster>>
    BY <1>1 DEF SetDeploymentPassword, LastFails
  <2>2. CASE vault' = [vault EXCEPT !.admin = last.vm] \/ UNCHANGED vault
    BY <2>1, <2>2 DEF TypeOK, Whole!world
  <2>3. ASSUME NEW next, Advance("deployment", next),
               vault' = [vault EXCEPT !.deployment = last.vm]
        PROVE Whole!Generate
    BY <2>1, <2>3, GenerateSimulates
  <2> QED
    BY <1>1, <2>2, <2>3 DEF SetDeploymentPassword, LastFails, Whole!Next
<1>2. CASE PrepareObs \/ SetAdminPassword \/ GetPrivateIps \/ Answer
  BY <1>2 DEF PrepareObs, SetAdminPassword, GetPrivateIps, Answer, TypeOK, Whole!world
<1>3. ASSUME NEW m \in VMs, FormCluster(m) PROVE Whole!Form \/ UNCHANGED Whole!world
  <2>1. CASE CanForm
    BY <1>3, <2>1, FormSimulates
  <2>2. CASE ~CanForm
    BY <1>3, <2>2 DEF FormCluster, Whole!world
  <2> QED
    BY <2>1, <2>2
<1>4. ASSUME NEW m \in VMs, Finalize(m) PROVE Whole!Report
  BY <1>4 DEF Finalize, FormationInv, ElectionInv, ElectedRole, Whole!Report
<1>5. ASSUME NEW m \in VMs, Join(m) PROVE Whole!Join
  <2>1. cluster.formed
    BY <1>5 DEF Join, ElectionInv, ClusterShape
  <2> QED
    BY <1>5, <2>1 DEF Join, TypeOK, Whole!Join
<1>6. ASSUME NEW m \in VMs, Terminate(m) PROVE Whole!Leave \/ UNCHANGED Whole!world
  BY <1>6, LeaveSimulates
<1>7. ASSUME NEW m \in VMs,
             \/ Grow(m) \/ Tidy(m) \/ Deploy(m) \/ Clusterize(m) \/ AnswerLost(m) \/ Failure(m)
      PROVE UNCHANGED Whole!world
  BY <1>7 DEF Grow, Tidy, Deploy, Clusterize, AnswerLost, Failure, MachineFails, ScriptFails,
              DeployFails, ClusterizeFails, FinalizeFails, Whole!world
<1>8. CASE UNCHANGED vars
  BY <1>8 DEF vars, Whole!world
<1> QED
  BY <1>1, <1>2, <1>3, <1>4, <1>5, <1>6, <1>7, <1>8 DEF Next, Script, LastStep, Whole!Next

\* There is one password, one formation by as many machines as the target says
\* with that password, a report only after it, and always a member left.
THEOREM ClusterRefined == Spec => ImplementsCluster
<1> QED
  BY WholeSimulation, WholeInit, TypeCorrect, FormationSafe, ElectionSafe, PTL
  DEF Spec, ImplementsCluster, Whole!Spec
=============================================================================
