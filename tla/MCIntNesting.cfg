SPECIFICATION LockSpec
CONSTANTS
  MaxLevel = 3
  MaxHeld = 2
INVARIANTS CriticalSections Reopened HandlerUndisturbed
