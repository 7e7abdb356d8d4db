SPECIFICATION FairSpec
CONSTANTS
  Callers = {c1, c2}
  Owner = owner
  Hooks = {h1, h2}
  NoHook = NoHook
INVARIANTS
  HookCalledAtMostOnce
  TypeOK
  NoCallAfterReset
  TerminalIsQuiescent
  NotSentMeansNotEntered
PROPERTIES
  ImplementsContract
  CallsReturn
