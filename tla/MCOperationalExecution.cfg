SPECIFICATION Spec
CONSTANTS
  MaxCallers = 2
  MaxFaults = 2
INVARIANTS SubmittedOnce OutcomeMatchesConversation AbandonedOnlyIf
PROPERTIES EventuallySettled
CHECK_DEADLOCK FALSE
