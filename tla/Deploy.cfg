SPECIFICATION DeploySpec
CONSTANTS
  Invokers = {"user", "docker", "sudo"}
  MaxDeploys = 3
INVARIANTS
  DeployTypeOK
  SuccessIsComplete
  UserCanManage
