\* What frames carry: the identity over restarts, and LLDP-MED.
SPECIFICATION Spec
CONSTANTS
  Addresses = {a1, a2}
  DevTypes = {"none", "class2"}
  CommandTlvs = {"mngAddr", "macPhyCfg", "medCap"}
  MaxHost = 2
  MaxCommands = 2
  MaxRestarts = 1
INVARIANTS MedComplete
PROPERTIES SameIdentity
CHECK_DEADLOCK FALSE
SYMMETRY Interchangeable
