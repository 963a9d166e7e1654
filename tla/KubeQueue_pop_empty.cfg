CONSTANTS
  a = a  b = b  n1 = n1  n2 = n2  cpu = cpu  gpu = gpu
  q1 = q1  q2 = q2  g1 = g1  g2 = g2
  NoUnit = NoUnit
  Units = {a, b}
  Namespaces = {n1}
  Resources = {cpu}
  QueueObjects = {q1}
  Priorities = {0}
  Workers = {g1, g2}
  NsOf <- OneNs
  ConsumerNs <- OneNs
  Demand <- Two
  ResourceLists <- TwoOrNone
  Quotas <- Room3
  QueueNs <- OneQ
  QueuePriority <- OneQPri
  Limits <- Writes4
SPECIFICATION ReadySpec
INVARIANTS
  NoPanic
