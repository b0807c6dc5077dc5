SPECIFICATION DeploySpec
CONSTANTS
  Invokers = {"docker", "sudo"}
  MaxDeploys = 3
INVARIANT PreparedMeansStopped
