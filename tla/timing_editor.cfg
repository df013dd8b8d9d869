SPECIFICATION FairSpec
CONSTANTS
  one = one
  other = other
  Queues <- MCQueues
  Times = {0, 1}
  Initial = 0
  Lease = 2
  Grace = 1
  Features = {"text", "power", "start", "apply", "stop", "storage"}
  MaxOps = 4
  None = None
INVARIANT TypeOK
PROPERTIES Fenced OverInTime EditEnds
