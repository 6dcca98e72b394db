\* Three samples, a sync after every step: an interrupted sample that is never resumed.
SPECIFICATION Spec
CONSTANTS
  total_rollout_steps = 3
  pending_size = 9
  required_samples = 1
  trigger_parameter_sync_step = 1
  staleness_percent = 100
  concurrency = 2
  partial_rollout = TRUE
  MaxFailures = 0
\* The system stops: the training hangs.
CHECK_DEADLOCK FALSE
PROPERTY InterruptedResume
