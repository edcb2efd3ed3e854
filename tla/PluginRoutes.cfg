CONSTANTS
  Plugins <- Names
  ModulePlugins = {}
  SystemPlugins <- SystemNames
  ProtectedPlugins <- ProtectedNames
  FlaggedPlugins = {}
  Deps <- Dependencies
  FeatureOn = {}
  FeatureOff = {}
  Calls = {c1}
  Main = Main
  Ops <- RestOps
  NoJob = NoJob
SPECIFICATION Spec
INVARIANT RoutesServed
