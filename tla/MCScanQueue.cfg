\* Four tasks for a channel of two: one in service, two queued, one refused.
SPECIFICATION FairQueueSpec
CONSTANTS
  Tasks = {t1, t2, t3, t4}
  Capacity = 2
  Retries = 3
  Idle = Idle
INVARIANTS
  NoScanDropped
PROPERTIES
  EveryScanSettles
  ServedInOrder
