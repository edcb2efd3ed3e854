CONSTANTS
  core = core
  ext = ext
  obj = obj
  Plugins = {core, ext, obj}
  ModulePlugins = {ext}
  SystemPlugins = {core}
  ProtectedPlugins = {core}
  FlaggedPlugins = {obj}
  Deps <- MCDeps
  FeatureOn = {ext}
  FeatureOff = {obj}
  Calls = {c1, c2}
  Main = Main
  Ops <- RestOps
  NoJob = NoJob
SPECIFICATION RestSpec
INVARIANTS InitializedIsLive DisableHonoured SoftDisabledIsRefused
SYMMETRY Symmetry
