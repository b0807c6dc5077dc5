------------------------------- MODULE Deploy -------------------------------
(***************************************************************************)
(* A host on which deploy.py is run again and again: master and worker     *)
(* containers, and the worker as a systemd user service or as a scheduled  *)
(* task of Windows.                                                        *)
(*                                                                         *)
(* A deployment is a sequence of effects on the host, and may end before   *)
(* any of them: a command fails, an exception or Ctrl-C ends the script,   *)
(* or the user declines to stop something.  Meanwhile the service crashes  *)
(* and is restarted, and the host reboots.                                 *)
(*                                                                         *)
(* Who runs the script matters: "user" cannot talk to the Docker daemon,   *)
(* "docker" can, and "sudo" can but asks its own service manager, which    *)
(* does not know the user's service, and creates files that belong to      *)
(* root.  On Windows nobody is root, but a running task is never seen: a   *)
(* line "status: running" is looked for in what schtasks prints, which has *)
(* more blanks in it.                                                      *)
(***************************************************************************)
EXTENDS Naturals

CONSTANTS
  Invokers,     \* who may run the script
  MaxDeploys    \* bound: number of deployments

ASSUME DeployAssumption ==
  Invokers \subseteq {"user", "docker", "sudo"} /\ MaxDeploys \in Nat

VARIABLES
  system,     \* "linux" or "windows"
  pc,         \* the next effect of the script
  component, mode, invoker,   \* the choices of the current deployment
  gen,        \* its number
  reported,   \* how the last deployment ended
  masterConfig, config,   \* the deployment that wrote a config.toml, or 0
  master,     \* the master's container
  container,  \* the worker's container
  containerReads,  \* the config it was started with
  app,        \* the deployment that completed ~/.capown/worker/app, or 0
  venv,       \* "partial": without pip;  "bare": without the requirements
  enabled,    \* the unit is installed and enabled, or the task created
  service,    \* "restarting": waiting for RestartSec or a logon, so not active
  rootOwned   \* what belongs to root, which the user cannot write

script == <<system, component, mode, invoker, gen>>
containers == <<master, container, containerReads>>
host == <<masterConfig, config, app, venv, enabled, service, rootOwned>>
deployVars == <<pc, script, reported, containers, host>>

\* The directory ~/.capown/worker and what is written in it by a deployment;
\* links in the environment lead to the interpreter it was made with.
Managed == {"dir", "config", "app", "venv", "bin"}
WorkerFiles == Managed \cup {"links"}

Steps ==
  {"idle", "mreview", "mstop", "mconfig", "mcompose", "review", "stopContainer",
   "stopService", "config", "compose", "removeApp", "copyApp", "venv", "fillVenv",
   "pip", "enable", "create", "start", "chown"}

DeployTypeOK ==
  /\ system \in {"linux", "windows"}
  /\ pc \in Steps
  /\ component \in {"master", "worker", "both"}
  /\ mode \in {"container", "host"}
  /\ invoker \in {"user", "docker", "sudo"}
  /\ gen \in 0..MaxDeploys
  /\ reported \in {"none", "success", "failed", "cancelled"}
  /\ masterConfig \in 0..gen /\ config \in 0..gen /\ app \in 0..gen
  /\ containerReads \in 0..gen
  /\ {master, container} \subseteq {"absent", "stopped", "running"}
  /\ venv \in {"none", "partial", "bare", "ready"}
  /\ enabled \in BOOLEAN
  /\ service \in {"inactive", "active", "restarting"}
  /\ rootOwned \subseteq WorkerFiles \cup {"home", "master", "interpreter"}

DeployInit ==
  /\ system \in {"linux", "windows"}
  /\ pc = "idle" /\ component = "worker" /\ mode = "host" /\ invoker = "user"
  /\ gen = 0 /\ reported = "none"
  /\ masterConfig = 0 /\ config = 0 /\ app = 0 /\ containerReads = 0
  /\ master = "absent" /\ container = "absent"
  /\ venv = "none" /\ enabled = FALSE /\ service = "inactive"
  /\ rootOwned = {"interpreter"}

-----------------------------------------------------------------------------
SeesDocker == invoker # "user"
SeesService == system = "linux" /\ invoker # "sudo"

Writable(files) == invoker = "sudo" \/ rootOwned \cap files = {}

\* Files made under sudo belong to root until they are given to the user.
Made(files) == IF invoker = "sudo" THEN rootOwned \cup files ELSE rootOwned

\* chown() follows links: theirs is the interpreter that changes its owner.
Followed(files) == IF "venv" \in files THEN files \cup {"interpreter"} ELSE files

GivenBack(files) ==
  IF invoker = "sudo" THEN rootOwned \ Followed(files) ELSE rootOwned

Go(from, to) == pc = from /\ pc' = to

\* The script ends, or goes on with the worker after a master of "both".
End(result) ==
  IF component = "both" /\ pc \in {"mreview", "mcompose"}
  THEN pc' = "review" /\ UNCHANGED reported
  ELSE pc' = "idle" /\ reported' = result

Begin(c, m, i) ==
  /\ Go("idle", IF c = "worker" THEN "review" ELSE "mreview")
  /\ gen < MaxDeploys
  /\ i = "sudo" => system = "linux"
  /\ gen' = gen + 1
  /\ component' = c /\ mode' = m /\ invoker' = i
  /\ reported' = "none"
  /\ UNCHANGED <<system, containers, host>>

\* The review is not confirmed: exit status 0, so that "both" goes on.
Cancel ==
  /\ pc \in {"mreview", "review"}
  /\ End("cancelled")
  /\ UNCHANGED <<script, containers, host>>

Confirm ==
  /\ Go("mreview", "mstop") \/ Go("review", "stopContainer")
  /\ UNCHANGED <<script, reported, containers, host>>

\* A command fails, an exception or an interrupt ends the script, or the
\* user declines to stop what runs.
Abort ==
  /\ pc \notin {"idle", "mreview", "review"}
  /\ pc' = "idle"
  /\ reported' = "failed"
  /\ UNCHANGED <<script, containers, host>>

Stopped(state) == IF state = "running" /\ SeesDocker THEN "stopped" ELSE state

StopMaster ==
  /\ Go("mstop", "mconfig")
  /\ master' = Stopped(master)
  /\ UNCHANGED <<script, reported, container, containerReads, host>>

\* ~/.capown is made by the first deployment of either component.
NewHome == IF masterConfig = 0 /\ config = 0 THEN {"home"} ELSE {}

WriteMasterConfig ==
  /\ Go("mconfig", "mcompose")
  /\ Writable(IF masterConfig = 0 THEN {"home"} ELSE {"master"})
  /\ masterConfig' = gen
  /\ rootOwned' = Made(NewHome \cup IF masterConfig = 0 THEN {"master"} ELSE {})
  /\ UNCHANGED <<script, reported, containers, config, app, venv, enabled, service>>

ComposeMaster ==
  /\ pc = "mcompose"
  /\ SeesDocker
  /\ master' = "running"
  /\ End("success")
  /\ UNCHANGED <<script, container, containerReads, host>>

-----------------------------------------------------------------------------
\* The worker.

StopContainer ==
  /\ Go("stopContainer", "stopService")
  /\ container' = Stopped(container)
  /\ UNCHANGED <<script, reported, master, containerReads, host>>

\* Only an active service is stopped; it stays enabled.
StopService ==
  /\ Go("stopService", "config")
  /\ service' = IF service = "active" /\ SeesService THEN "inactive" ELSE service
  /\ UNCHANGED <<script, reported, containers, masterConfig, config, app, venv,
                 enabled, rootOwned>>

\* Host mode gives the file, but not its directory, to the user.
WriteConfig ==
  /\ Go("config", IF mode = "container" THEN "compose" ELSE "removeApp")
  /\ Writable(IF config = 0 THEN {"home"} ELSE {"config"})
  /\ config' = gen
  /\ rootOwned' = Made(NewHome \cup IF config = 0 THEN {"dir", "config"} ELSE {})
                    \ (IF mode = "host" THEN {"config"} ELSE {})
  /\ UNCHANGED <<script, reported, containers, masterConfig, app, venv, enabled, service>>

\* Mutant: the container is created and not started.
MutCompose ==
  /\ pc = "compose"
  /\ SeesDocker
  /\ container' = "created"
  /\ containerReads' = config
  /\ End("success")
  /\ UNCHANGED <<script, master, host>>

Compose ==
  /\ pc = "compose"
  /\ SeesDocker
  /\ container' = "running"
  /\ containerReads' = config
  /\ End("success")
  /\ UNCHANGED <<script, master, host>>

\* A directory that cannot be removed is emptied: on Windows one a process
\* works in, and on Linux one whose parent belongs to root.
Held == system # "linux" /\ service = "active"

RemoveApp ==
  /\ pc = "removeApp"
  /\ Writable({"app"})
  /\ IF Held \/ ~Writable({"dir"})
       THEN pc' = "idle" /\ reported' = "failed"
       ELSE pc' = "copyApp" /\ UNCHANGED reported
  /\ app' = 0
  /\ rootOwned' = Made({"app"})
  /\ UNCHANGED <<script, containers, masterConfig, config, venv, enabled, service>>

CopyApp ==
  /\ Go("copyApp", "venv")
  /\ app' = gen
  /\ rootOwned' = GivenBack({"app"})
  /\ UNCHANGED <<script, reported, containers, masterConfig, config, venv, enabled, service>>

\* The links of an old environment are removed with it.
NewVenv == Made({"venv", "links"}) \ (IF invoker = "sudo" THEN {} ELSE {"links"})

\* Mutant: the requirements are installed into a new environment only.
MutMakeVenv ==
  /\ Writable({"dir", "venv"})
  /\ IF venv \in {"none", "partial"}
     THEN Go("venv", "fillVenv") /\ venv' = "partial" /\ rootOwned' = NewVenv
     ELSE Go("venv", "enable") /\ UNCHANGED <<venv, rootOwned>>
  /\ UNCHANGED <<script, reported, containers, masterConfig, config, app, enabled, service>>

\* An environment without pip is made again; what pip adds to another one
\* belongs to root until the end of the installation.
MakeVenv ==
  /\ IF venv \in {"none", "partial"}
     THEN /\ Go("venv", "fillVenv")
          /\ Writable({"dir", "venv"})
          /\ venv' = "partial" /\ rootOwned' = NewVenv
     ELSE Go("venv", "pip") /\ rootOwned' = Made({"venv"}) /\ UNCHANGED venv
  /\ UNCHANGED <<script, reported, containers, masterConfig, config, app, enabled, service>>

FillVenv ==
  /\ Go("fillVenv", "pip")
  /\ venv' = "bare"
  /\ UNCHANGED <<script, reported, containers, masterConfig, config, app, enabled,
                 service, rootOwned>>

PipInstall ==
  /\ Go("pip", "enable")
  /\ Writable({"venv"})
  /\ venv' = "ready"
  /\ rootOwned' = GivenBack({"venv"})
  /\ UNCHANGED <<script, reported, containers, masterConfig, config, app, enabled, service>>

\* The launcher and the unit are written, and the unit is enabled.
Enable ==
  /\ Go("enable", "start")
  /\ system = "linux"
  /\ Writable({"dir", "bin"})
  /\ enabled' = TRUE
  /\ rootOwned' = Made(IF enabled THEN {} ELSE {"bin"})
  /\ UNCHANGED <<script, reported, containers, masterConfig, config, app, venv, service>>

\* The launcher is written and the task of an earlier deployment deleted,
\* which may fail; an instance of it that runs is left alone.
DeleteTask ==
  /\ Go("enable", "create")
  /\ system # "linux"
  /\ Writable({"dir", "bin"})
  /\ enabled' \in {FALSE, enabled}
  /\ UNCHANGED <<script, reported, containers, masterConfig, config, app, venv,
                 service, rootOwned>>

CreateTask ==
  /\ Go("create", "start")
  /\ enabled' = TRUE
  /\ UNCHANGED <<script, reported, containers, masterConfig, config, app, venv,
                 service, rootOwned>>

\* "--now" starts the unit, which does nothing if it is active; "/Run" starts
\* the task.
StartNow ==
  /\ Go("start", "chown")
  /\ service' = "active"
  /\ UNCHANGED <<script, reported, containers, masterConfig, config, app, venv,
                 enabled, rootOwned>>

\* Mutant: only the application copy is given to the user.
MutChown ==
  /\ pc = "chown"
  /\ rootOwned' = GivenBack({"app"})
  /\ End("success")
  /\ UNCHANGED <<script, containers, masterConfig, config, app, venv, enabled, service>>

\* At last ~/.capown/worker and what is below it is given to the user.
Chown ==
  /\ pc = "chown"
  /\ rootOwned' = GivenBack(Managed)
  /\ End("success")
  /\ UNCHANGED <<script, containers, masterConfig, config, app, venv, enabled, service>>

-----------------------------------------------------------------------------
\* The host.

\* The daemon needs its application, environment and config to start.
ServiceRestarts ==
  /\ service = "restarting"
  /\ app # 0 /\ venv = "ready" /\ config # 0
  /\ service' = "active"
  /\ UNCHANGED <<pc, script, reported, containers, masterConfig, config, app, venv,
                 enabled, rootOwned>>

\* The daemon dies, for instance because it cannot register.  A scheduled
\* task is not run again before the next logon.
ServiceDies ==
  /\ \/ service = "active" /\ system = "linux" /\ service' = "restarting"
     \/ service # "inactive" /\ system # "linux" /\ service' = "inactive"
  /\ UNCHANGED <<pc, script, reported, containers, masterConfig, config, app, venv,
                 enabled, rootOwned>>

\* Containers that were not stopped, enabled units and tasks come back.
Reboot ==
  /\ pc' = "idle"
  /\ reported' = IF pc = "idle" THEN reported ELSE "failed"
  /\ service' = IF enabled THEN "restarting" ELSE "inactive"
  /\ UNCHANGED <<script, containers, masterConfig, config, app, venv, enabled, rootOwned>>

DeployNext ==
  \/ \E c \in {"master", "worker", "both"}, m \in {"container", "host"},
        i \in Invokers : Begin(c, m, i)
  \/ Cancel \/ Confirm \/ Abort
  \/ StopMaster \/ WriteMasterConfig \/ ComposeMaster
  \/ StopContainer \/ StopService \/ WriteConfig \/ Compose
  \/ RemoveApp \/ CopyApp \/ MakeVenv \/ FillVenv \/ PipInstall
  \/ Enable \/ DeleteTask \/ CreateTask \/ StartNow \/ Chown
  \/ ServiceRestarts \/ ServiceDies \/ Reboot

DeploySpec == DeployInit /\ [][DeployNext]_deployVars

-----------------------------------------------------------------------------
Deployed(m) ==
  pc = "idle" /\ reported = "success" /\ component # "master" /\ mode = m

\* A deployment that reports success has left everything of its own: it
\* never builds on what an earlier, aborted one left half done, whoever ran
\* either, and later crashes and reboots do not undo it.
SuccessIsComplete ==
  /\ Deployed("host") => config = gen /\ app = gen /\ venv = "ready" /\ enabled
  /\ Deployed("container") =>
       config = gen /\ container = "running" /\ containerReads = gen

\* deploy.py's comment: ownership is fixed "so the real user can manage the
\* deployment (restart, upgrade, etc.)".  After a successful host deployment
\* the user may write all that another host deployment has to write, whatever
\* earlier ones left: its directory, and all in it except the links, which go
\* with the environment they are in.  (Links and ~/.capown stay root's, against
\* the same comment's "everything we wrote".)
UserCanManage == Deployed("host") => rootOwned \cap Managed = {}

\* _prepare_worker_deploy(): "Stop any existing Worker process, regardless of
\* deployment mode."
PreparedMeansStopped ==
  pc = "config" => service # "active" /\ container # "running"
=============================================================================
