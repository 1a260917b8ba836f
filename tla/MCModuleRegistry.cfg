SPECIFICATION Spec
CONSTANTS
  core = core
  core2 = core2
  render = render
  audio = audio
  Module = {core, core2, render, audio}
  Name = {"core", "render", "audio", ""}
  NoName = ""
  NameOf <- Names
  KindOf <- Kinds
  Outcomes = {"ok", "fail", "throw"}
  Careful = TRUE
INVARIANTS
  OneRecordPerName
  OwnershipExact
  RunningTracked
  ReadyNeedsReady
  CallsComplete
PROPERTIES
  ShutdownOwed
  FailureHasCause
  StopsInReverse
  KeepsLifecycle
CHECK_DEADLOCK FALSE
