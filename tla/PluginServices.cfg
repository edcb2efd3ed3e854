CONSTANTS
  ext = ext
  obj = obj
  Plugins = {ext, obj}
  ModulePlugins = {ext}
  SystemPlugins = {obj}
  ProtectedPlugins = {}
  FlaggedPlugins = {}
  Deps <- GivenDeps
  FeatureOn = {ext}
  FeatureOff = {}
  Calls = {c1, c2}
  Main = Main
  Ops <- AllOps
  NoJob = NoJob
SPECIFICATION MCSpec
INVARIANTS NoOrphans ModuleDisableReversible
PROPERTIES BootFinishes LoadSettles
CHECK_DEADLOCK FALSE
