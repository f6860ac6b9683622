SPECIFICATION Spec
CONSTANTS
  p = p
  q = q
  Procs = {p, q}
  Hosts <- MCHosts
  Guess <- MCGuess
  Versions <- MCVersions
  Typed <- MCTyped
  Files <- MCFiles
  RcBefore <- MCBefore
  RcAfter <- MCAfter
  OptionSets <- MCOptions
  Quoted <- MCQuoted
  Edits <- MCEdits
  Shown = p
  MaxStarts = 2
  MaxCommands = 2
  MaxEdits = 1
  Commands <- MCCommands
  AliasNames <- MCNames
  Bodies <- MCBodies
  Lines <- MCLines
INVARIANTS PasswordAgreed RunsAsDocumented
PROPERTIES CreatedBesideOthers
CHECK_DEADLOCK FALSE
