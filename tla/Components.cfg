SPECIFICATION EverySpec
CONSTANTS
  Caller = {T1, T2}
  NativeCaller = {T2}
  Call = {T1, T2, T3}
  Abandoning = {T2}
  NativeCall = {T3}
  Worker = {W1, W2, W3}
  TotalTokens = 2
  Stop = Stop
  NoCall = Nobody
  PortalCall = {T1, T2}
  StartTask = {T2}
  NoPortalCall = Nobody
  Context = {T1, T2}
  User = {T1, T2, T3}
  NoUser = Nobody
  MaxPortals = 3
  MaxLeases = 8
  Request = {T1, T2, T3, T4}
  Cancellable = {T1, T3}
  Proc = {W1, W2}
  NoProc = Nobody
  ProcessTokens = 2
  Outputs = {T1, T2}
  MaxInput = 2
  MaxOutput = 2
  PipeSize = 1
  Reader = {T1}
  Writer = {T2}
  Closer = {T3}
  Chunks = {1, 3}
  MaxBytes = 3
  Delimiters <- MCDelimiters
  MaxBuffered = 5
  MaxLimit = 3
  RawReceiver = {T1}
  RawSender = {T2, T3}
  Pieces = 2
  MaxPieces = 4
  Acceptor = {T1, T2}
  ListenerCloser = {T3}
  MaxConnections = 2
  UdpReader = {T1, T2}
  UdpWriter = {T3}
  MaxQueue = 2
  MaxPackets = 4
  Waiter = {T1, T2, T3}
  Direction = {"reading", "writing"}
  NoWaiter = Nobody
  Addresses = 3
  MaxAddresses = 3
  TlsReader = {T1}
  TlsWriter = {T2}
  TlsCloser = T3
  MaxRecords = 4
  Receiver = {T1, T2}
  NoReceiver = Nobody
  MaxSignals = 4
  MaxCalls = 3
  MaxErrors = 2
  Scope = {T1, T2}
  MaxTime = 2
  MaxDelay = 1
  Resolution = 1
  Background = {T1, T2}
  MaxInterrupts = 3
  MaxRequests = 1
  Item = {T1, T2, T3}
  Backend = {"asyncio", "trio"}
  NoBackend = Nobody
  MaxRunners = 3
  MaxLevel = 3
  MaxLoops = 2
  Var = {"v", "w"}
  RunLoop = {T1, T2}
  Value = {1, 2}
  NoValue = Nobody
  MaxTokens = 3
INVARIANTS
  ExceptionsComeOut
  WorkersHold
  CallsShielded
  TimersFollowDeadlines
  SettingsKept
  ThreadsAnswered
  LeasesHold
  ProcessesInOnePlace
  BytesInOrder
  WaitersAreWoken
  PacketsKept
  SocketsHandedOn
  RecordsInOrder
CHECK_DEADLOCK FALSE
