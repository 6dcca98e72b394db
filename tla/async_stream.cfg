\* Six samples, three in pending_queue at most, two training steps to a sync, an
\* interruptible rollouter and a generation that may raise.
SPECIFICATION Spec
CONSTANTS
  total_rollout_steps = 6
  pending_size = 3
  required_samples = 1
  trigger_parameter_sync_step = 2
  staleness_percent = 50
  concurrency = 2
  partial_rollout = TRUE
  MaxFailures = 1
\* The system stops: the training has finished, or hangs.
CHECK_DEADLOCK FALSE
INVARIANTS TypeOK SamplesAccounted BoundedConcurrency QueueInVersionOrder
PROPERTY StreamEnds
