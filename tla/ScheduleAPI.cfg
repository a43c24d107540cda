\* Two concurrent requests on one task of each namespace.
SPECIFICATION Spec
CONSTANTS
  Requests = {r1, r2}
  Namespaces = {p1, system}
  ScheduleNs = system
  Ids = {a}
  Types = {"Deployment", "Namespace"}
  Data = {x, y}
  Nil = Nil
  MaxEdits = 1
  MaxFaults = 1
SYMMETRY Symmetry
INVARIANTS
  TypeOK
PROPERTIES
  OtherPartsSurvive
  UndisturbedModifyExact
  NoResurrection
  NotFoundIsTrue
  ImplementsTaskStore
CHECK_DEADLOCK FALSE
