---------------------------- MODULE DeployProofs ----------------------------
(***************************************************************************)
(* Proofs about module Deploy, for any number of deployments.              *)
(***************************************************************************)
EXTENDS Deploy, TLAPS

HostSteps == {"removeApp", "copyApp", "venv", "fillVenv", "pip", "enable", "create", "start", "chown"}

\* Which part of the script runs for which choices.
Control ==
  /\ pc # "idle" => gen # 0
  /\ pc \in {"mreview", "mstop", "mconfig", "mcompose"} => component # "worker"
  /\ pc \in {"review", "stopContainer", "stopService", "config", "compose"} \cup HostSteps
       => component # "master"
  /\ pc \in HostSteps => mode = "host"
  /\ pc = "compose" => mode = "container"

\* What the steps before this one have achieved, whatever was there before.
Achieved ==
  /\ pc \in HostSteps \cup {"compose"} => config = gen
  /\ pc \in HostSteps \ {"removeApp", "copyApp"} => app = gen
  /\ pc \in {"enable", "create", "start", "chown"} => venv = "ready"
  /\ pc \in {"start", "chown"} => enabled

\* What a user that is not root must own for the script to have come so far.
Owned ==
  /\ config = 0 => "config" \notin rootOwned
  /\ invoker # "sudo" =>
       /\ pc \in HostSteps => "config" \notin rootOwned
       /\ pc \in HostSteps \ {"removeApp"} => {"dir", "app"} \cap rootOwned = {}
       /\ pc \in {"enable", "create", "start", "chown"} => "venv" \notin rootOwned
       /\ pc \in {"create", "start", "chown"} => "bin" \notin rootOwned

DeployInv ==
  DeployTypeOK /\ Control /\ Achieved /\ Owned /\ SuccessIsComplete /\ UserCanManage

\* The initial state satisfies the invariant.
LEMMA DeployInitInv == DeployInit => DeployInv
<1> SUFFICES ASSUME DeployInit  PROVE DeployInv
  OBVIOUS
<1>1. enabled \in BOOLEAN
  BY DEF DeployInit
<1> QED
  BY <1>1, DeployAssumption
  DEF DeployInit, DeployInv, DeployTypeOK, Control, Achieved, Owned,
      SuccessIsComplete, UserCanManage, Deployed, Steps, HostSteps, WorkerFiles,
      Managed

\* The steps both components share, and those of the master.
LEMMA MasterStepInv ==
  ASSUME DeployInv,
         \/ \E c \in {"master", "worker", "both"}, m \in {"container", "host"},
               i \in Invokers : Begin(c, m, i)
         \/ Cancel \/ Confirm \/ Abort
         \/ StopMaster \/ WriteMasterConfig \/ ComposeMaster
  PROVE  DeployInv'
<1> USE DeployAssumption
    DEF DeployInv, DeployTypeOK, Control, Achieved, Owned, SuccessIsComplete,
        UserCanManage, Deployed, Steps, HostSteps, WorkerFiles, Managed, script,
        containers, host, Go, End
<1>1. ASSUME NEW c \in {"master", "worker", "both"}, NEW m \in {"container", "host"},
             NEW i \in Invokers, Begin(c, m, i)
      PROVE  DeployInv'
  BY <1>1 DEF Begin
<1>2. CASE Cancel  BY <1>2 DEF Cancel
<1>3. CASE Confirm  BY <1>3 DEF Confirm
<1>4. CASE Abort  BY <1>4 DEF Abort
<1>5. CASE StopMaster  BY <1>5 DEF StopMaster, Stopped
<1>6. CASE WriteMasterConfig  BY <1>6 DEF WriteMasterConfig, Made, NewHome
<1>7. CASE ComposeMaster  BY <1>7 DEF ComposeMaster
<1> QED  BY <1>1, <1>2, <1>3, <1>4, <1>5, <1>6, <1>7

\* The steps of the worker's deployment.
LEMMA WorkerStepInv ==
  ASSUME DeployInv,
         \/ StopContainer \/ StopService \/ WriteConfig \/ Compose
         \/ RemoveApp \/ CopyApp \/ MakeVenv \/ FillVenv \/ PipInstall
         \/ Enable \/ DeleteTask \/ CreateTask \/ StartNow \/ Chown
  PROVE  DeployInv'
<1> USE DEF DeployInv, DeployTypeOK, Control, Achieved, Owned, SuccessIsComplete,
            UserCanManage, Deployed, Steps, HostSteps, WorkerFiles, Managed, script,
            containers, host, Go, End, Writable, Made, GivenBack, Followed
<1>1. CASE StopContainer  BY <1>1 DEF StopContainer, Stopped
<1>2. CASE StopService  BY <1>2 DEF StopService
<1>3. CASE WriteConfig  BY <1>3 DEF WriteConfig, NewHome
<1>4. CASE Compose  BY <1>4 DEF Compose
<1>5. CASE RemoveApp  BY <1>5 DEF RemoveApp, Held
<1>6. CASE CopyApp  BY <1>6 DEF CopyApp
<1>7. CASE MakeVenv
  <2>1. pc = "venv" /\ pc' \in {"fillVenv", "pip"}  BY <1>7 DEF MakeVenv
  <2>2. rootOwned' \in {NewVenv, Made({"venv"})} /\ venv' \in {venv, "partial"}
    BY <1>7 DEF MakeVenv
  <2>3. UNCHANGED <<script, reported, containers, masterConfig, config, app, enabled, service>>
    BY <1>7 DEF MakeVenv
  <2> QED  BY <2>1, <2>2, <2>3 DEF NewVenv
<1>8. CASE FillVenv  BY <1>8 DEF FillVenv
<1>9. CASE PipInstall  BY <1>9 DEF PipInstall
<1>10. CASE Enable  BY <1>10 DEF Enable
<1>11. CASE StartNow  BY <1>11 DEF StartNow
<1>12. CASE Chown  BY <1>12 DEF Chown
<1>13. CASE DeleteTask
  <2>1. enabled' \in BOOLEAN  BY <1>13, Zenon DEF DeleteTask
  <2>2. pc = "enable" /\ pc' = "create" /\ Writable({"dir", "bin"})
    BY <1>13 DEF DeleteTask
  <2>3. UNCHANGED <<script, reported, containers, masterConfig, config, app, venv, service, rootOwned>>
    BY <1>13 DEF DeleteTask
  <2> QED  BY <2>1, <2>2, <2>3
<1>14. CASE CreateTask  BY <1>14 DEF CreateTask
<1> QED
  BY <1>1, <1>2, <1>3, <1>4, <1>5, <1>6, <1>7, <1>8, <1>9, <1>10, <1>11, <1>12,
     <1>13, <1>14

\* The service and the host.
LEMMA HostStepInv ==
  ASSUME DeployInv, ServiceRestarts \/ ServiceDies \/ Reboot
  PROVE  DeployInv'
<1> USE DEF DeployInv, DeployTypeOK, Control, Achieved, Owned, SuccessIsComplete,
            UserCanManage, Deployed, Steps, HostSteps, WorkerFiles, Managed, script, containers
<1>1. CASE ServiceRestarts  BY <1>1 DEF ServiceRestarts
<1>2. CASE ServiceDies  BY <1>2 DEF ServiceDies
<1>3. CASE Reboot  BY <1>3 DEF Reboot
<1> QED  BY <1>1, <1>2, <1>3

\* The invariant is inductive.
LEMMA DeployStepInv == DeployInv /\ [DeployNext]_deployVars => DeployInv'
<1> SUFFICES ASSUME DeployInv, [DeployNext]_deployVars  PROVE DeployInv'
  OBVIOUS
<1>1. CASE UNCHANGED deployVars
  BY <1>1
  DEF deployVars, script, containers, host, DeployInv, DeployTypeOK, Control,
      Achieved, Owned, SuccessIsComplete, UserCanManage, Deployed
<1>2. CASE DeployNext
  BY <1>2, MasterStepInv, WorkerStepInv, HostStepInv DEF DeployNext
<1> QED  BY <1>1, <1>2

LEMMA DeployAlways == DeploySpec => []DeployInv
  BY DeployInitInv, DeployStepInv, PTL DEF DeploySpec

\* Type correctness of the host and of the script's position.
THEOREM DeployTypeCorrect == DeploySpec => []DeployTypeOK
<1>1. DeployInv => DeployTypeOK  BY DEF DeployInv
<1> QED  BY <1>1, DeployAlways, PTL

\* A deployment that reports success is complete, whatever earlier ones that
\* failed half way have left.
THEOREM DeploySuccessIsComplete == DeploySpec => []SuccessIsComplete
<1>1. DeployInv => SuccessIsComplete  BY DEF DeployInv
<1> QED  BY <1>1, DeployAlways, PTL

\* After a successful host deployment by anybody the user can write all that
\* another deployment has to write: ~/.capown/worker, the config, the
\* application, the environment and the launcher.
THEOREM DeployUserCanManage == DeploySpec => []UserCanManage
<1>1. DeployInv => UserCanManage  BY DEF DeployInv
<1> QED  BY <1>1, DeployAlways, PTL
=============================================================================
