SPECIFICATION Spec
CONSTANTS
  Modules = {a, b}
  NoPdb = nopdb
  Unknown = unknown
  MaxCommands = 2
INVARIANT QuietMeansDone
PROPERTIES PresetsOnLoaded WindowReturns
