\* Two calls at once, on a built-in filter and another one, and two jobs.  Nobody
\* has to ask for anything: the system may stop.
SPECIFICATION MCSpec
CHECK_DEADLOCK FALSE
CONSTANTS
  Filter = {b, f}
  Builtin = {b}
  FirstName <- BuiltinNames
  Name = {1, 2, 3}
  Unnamed = 3
  Job = {j1, j2}
  NoFilter = none
  Caller = {c1, c2}
  MaxRequests = 5
SYMMETRY Alike
INVARIANTS
  TypeOK
  UniqueNames
  OneRowPerFilter
  JobsAgree
PROPERTY RenamingKeeps
