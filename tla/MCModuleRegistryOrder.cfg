SPECIFICATION Spec
CONSTANTS
  core = core
  core2 = core2
  render = render
  audio = audio
  Module = {core, core2, render, audio}
  Name = {"core", "render", "audio", ""}
  NoName = ""
  NameOf <- Names
  KindOf <- Kinds
  Outcomes = {"ok"}
  Careful = TRUE
PROPERTY StopsDependentsFirst
CHECK_DEADLOCK FALSE
