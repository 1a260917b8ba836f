SPECIFICATION MCSpec
CONSTANTS
  Main = Main
  Recorder <- BenchRecorder
  EventCap = 10
  NoSlot = NoSlot
  MaxFrames = 2
  IndependentTask = {"i1", "i2"}
  SlotCount = 3
  MaxSamples = 6
  Cap = 8
  PosMod = 16
  NoByte = NoByte
  Counts = {1, 3}
  FrameBytes = 4
  SampleMod = 8
  FrameSizes = {1, 2}
  Payloads = {1, 3}
  Chunk = 1
  MaxPackets = 4
  DecodedMod = 2
INVARIANTS
  FrameMemoryLive
  SamplesOnce
  SamplesInOrder
  PacketsInOrder
  FramesStay
PROPERTIES
  TraceWhole
  BenchVerdict
  ImplementsByteQueue
CHECK_DEADLOCK FALSE
