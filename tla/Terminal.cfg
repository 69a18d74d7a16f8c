SPECIFICATION Spec
CONSTANTS
  Clients = {"Http", "Remote"}
  MaxDeltas = 2
  MaxInputs = 3
INVARIANTS ScreenInOrder ContextIsShown SavedIsPrefix InterruptedIsForgotten
CHECK_DEADLOCK FALSE
PROPERTIES EveryPromptIsAnswered
