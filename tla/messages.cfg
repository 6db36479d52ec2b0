CONSTANTS
  SzField = 2
  Normal = 4
  Fudge = 1
  Frames = 4
  Size <- MCSize
  Claim <- MCClaim
  Off <- MCOff
  Bad = {4}
  Conns = 2
  MaxRead = 7

  Hdr = 2
  Tp = 2
  D1 = 1
  CtxTr = 1
  MaxPlen = 2
  Ibm = 11
  Slack = 1
  Entries <- MCEntries
  Sizes = {5}
  Traces = {1, 4}
  Lens = {5}
  Timeouts <- MCTimeouts
  Spin = 2
  SpinZero = 1

  SymKeys <- MCSymKeys
  SymVals = {"v", "w"}
  SymSize = 2
  HashOf <- MCHashOf
  FirstAlloc = 2

  Atoms <- MCAtoms
  Starts <- MCStarts
  MyName <- MCMyName
  Interfaces <- MCInterfaces
  BindIf <- MCBindIf
  MaxAddrs = 2
  MaxFields = 4
  MaxSenders = 3
  MaxGroups = 3
  MaxToks = 3
  MaxEpGroup = 2

  Bytes = {"a"}
  MaxMeid = 2
  MaxXid = 2
  MaxSrc = 3
  SrcName <- MCSrcName
  SrcIp <- MCSrcIp
  MaxGiven = 3
  Lengths = {1, 256}

  Tries = 2
  MaxCallId = 3
  RingSize = 2
  MaxArrivals = 4
  Allow = 2
SPECIFICATION Spec
INVARIANTS  NothingHeldBack  PayloadFits  SymtabIsMap
  EntryAsWritten SameTable FieldsKept
   
\* the peer stops sending after its last frame; number 0 beside a name ends
\* the symbol table's behaviour
CHECK_DEADLOCK FALSE
