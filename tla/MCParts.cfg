SPECIFICATION PartsSpec
CONSTANTS
  Tools = {p, q, r}
  None = None
  Original = Original
  Byte <- MCByte
  PackedLength <- MCPackedLength
  Originals <- MCOriginals
  AnySizes <- MCAnySizes
  Sent <- MCSent
  Messages <- MCMessages
  MountPoint <- MCMountPoint
  HostName = "here"
  Environment <- MCEnvironment
  EndOfLine = 0
  InBlock = 3
  FileBuffer = 7
  IntLength = 2
  HeaderLength = 2
  SignatureLength = 1
  MaxFaults = 2
  Capacity = 2
  MaxTimeouts = 2
INVARIANTS
  Recovers
  DataSurvives
  LinesInOrder
  HashesPadded
  CodecAndDigestsRight
  EntryReadsBack
  
  
  
\* A job ends when it is done.
CHECK_DEADLOCK FALSE
