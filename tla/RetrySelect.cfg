\* One task under any load of others of its type; at most four attempts over
\* three instances.
SPECIFICATION Spec
CONSTANTS
  Task = {t1}
  Key <- MCKey
  Specs <- MCSpecs
  Default <- MCDefault
  Concurrency = 2
  Emits = {"declared", "other"}
  Allowed = {"declared"}
  None = None
INVARIANTS
  RetryLands
  FailsWhenDue
