SPECIFICATION Spec
CONSTANTS
  Page = {p, q}
  MaxVisits = 2
  MaxEdits = 2
  MaxSubmits = 2
  MaxCommands = 2
SYMMETRY Pages
INVARIANTS
  FormIsRow
  OldProfileIsHinted
PROPERTIES
  SavesWhatIsTyped
CHECK_DEADLOCK FALSE
