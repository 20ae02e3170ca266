SPECIFICATION Spec
CONSTANTS
  MaxCommands = 3
  MaxCrashes = 0
INVARIANTS SentAsCommanded
