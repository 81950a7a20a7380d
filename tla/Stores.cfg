\* Programs end: the simulations of page replacement with their last request,
\* the tracker and the stores with their menus, the tree with its last key; a
\* full pool may have nobody to free from it.
SPECIFICATION Spec
CONSTANTS
  Programs = {"lru", "blocks", "files", "strings", "pages", "tracker", "pool", "manager", "hash", "map", "skip", "avl", "bplus", "median", "arrays", "words", "mvcc", "kv", "wal"}
  Threads = {"t1", "t2"}
  Console = "console"
  MvKeys = {"x", "y"}
  Demos <- MCDemos
  MAX_OPS = 2
  MAX_LOGS = 8
  MaxNodes = 4
  MaxClock = 1
  Clients = {1, 2}
  KvKeys = {1, 2}
  KvValues = {7, 8}
  MAX_ITEMS <- MCItems
  WalKeys = {"a", "b"}
  WalValues = {1, 2, 3}
  WalPairs <- MCWalPairs
  OddPairs <- MCOddPairs
  ScannedPairs <- MCScanned
  MaxLog = 6
  MaxUnsynced = 2
  PcPages = {1, 2, 3, 4, 5}
  MAX_FRAMES = 2
  MAX_PAGES = 8
  MapThreads = {1, 2}
  MapKeys = {1, 2, 3}
  MapValues = {7, 8}
  NUM_BUCKETS = 2
  MapBucket <- MCMapBucket
  TableKeys = {1, 2, 3, 4}
  TableValues = {7, 8}
  TABLE_SIZE = 2
  TableBucket <- MCTableBucket
  Addresses = {1, 2}
  Sizes = {1, 2}
  MaxPtrs = 3
  MaxTracked = 3
  PoolSizes = {2, 9, 12}
  HEADER = 2
  Requests = {0, 1, 2, 3, 4}
  TOTAL_PAGES = 7
  BlockIds = {0, 1}
  BlockTexts = {"x", "y"}
  BlockBucket <- MCBlockBucket
  MAX_CACHE_SIZE = 3
  BUFFER_POOL_SIZE = 2
  FirstLengths = {0, 2}
  FileNames = {"a", "b", "c", "long"}
  StoredNames <- MCStoredNames
  FileBucket <- MCFileBucket
  POOL_SIZE = 3
  MaxTime = 2
  StringKeys = {1, 2, 3, 4}
  StringHash <- MCStringHash
  CACHE_SIZE = 3
  LruKeys = {0, 1, 2, 3}
  LruValues = {7, 8}
  LruCapacities = {0, 3}
  HASH_SIZE = 2
  LruNodes = 4
CHECK_DEADLOCK FALSE
INVARIANT
  TypeOK
  LinksSound
  ReadsRight
  BuffersKept
  PoliciesSound
  AllocatorsSound
  TreesSound
  AnswersRight
  MvccSound
  KvSound
  LogRecovers
PROPERTY
  Refines
  RollbackRestores
