\* Ten samples, one to a training step, a sync after every step: enough syncs for both
\* limits to be reached.
SPECIFICATION Spec
CONSTANTS
  total_rollout_steps = 10
  pending_size = 11
  required_samples = 1
  trigger_parameter_sync_step = 1
  staleness_percent = 100
  concurrency = 1
  partial_rollout = FALSE
  MaxFailures = 0
\* The system stops: the training has finished, or hangs.
CHECK_DEADLOCK FALSE
INVARIANTS BoundedLead BoundedStaleness
