\* A client at its prompt and one with a command; two faults: stops, late answers, signals.
SPECIFICATION FairSpec
CONSTANTS
  c1 = c1
  c2 = c2
  Clients = {c1, c2}
  Started <- MCStarted
  Root = {c1, c2}
  ErrorLimit = 1
  RoomFor = 2
  MaxFaults = 2
  MaxCommands = 1
INVARIANTS TakesOwnAnswer ViewsAgree 
PROPERTIES Reattaches
