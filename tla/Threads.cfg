SPECIFICATION FairSpec
CONSTANTS
  Programs = {"server", "pool", "printers", "sharing"}
  Workers = {w1, w2, w3}
  Main = main
  Clients = {c1, c2}
  REQUESTS_PER_CLIENT = 2
  QUEUE_SIZE = 2
  NUM_TASKS = 4
  MAX = 20
  ProducerIds = {1, 2}
  Consumers = {k1, k2, k3}
  ITEMS_PER_PRODUCER = 3
  BUFFER_CAPACITY = 2
INVARIANT
  TypeOK
  RequestsKept
  NoLostWakeup
  TakenOnce
PROPERTY
  IsFifo
  WorkIsDone
