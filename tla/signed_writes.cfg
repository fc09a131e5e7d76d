\* One ORCID iD and one agent on a machine where commands overlap as a careful
\* user's may and are killed, and one write at a time at the server.
SPECIFICATION Spec
CONSTANTS
  Processes = {p1, p2}
  Orcids = {alice}
  Handles = {bot}
  MaxSecrets = 3
  MaxCommands = 3
  Requests = {r1}
  Disciplined = TRUE
  Torn = Torn
  None = None
SYMMETRY Interchangeable
INVARIANTS LogoutClears HeldIsBound AcceptedWasGood
PROPERTIES OnlyOwnSlot
CHECK_DEADLOCK FALSE
