SPECIFICATION Spec
CONSTANTS
 Panels <- Everything
 Tabs = {"target"}
 Parts <- PartsOf
 Contexts = 1
 MaxSelections = 2
 MaxEdits = 1
CHECK_DEADLOCK FALSE
INVARIANTS FrameInv StaleNotDisplayed NothingMissing ShowsItsExperiment AnswersThatWereAsked NeverWaitsInVain OnlySetUniformAsserts
PROPERTIES CloseEnds CallsCatchUp
