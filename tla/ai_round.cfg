SPECIFICATION AiSpec
CONSTANTS
  t1 = t1
  t2 = t2
  Tabs = {t1, t2}
  NumQuestions = 2
  AttemptCap = 2
  MaxTape = 2
  MaxDisturbances = 1
SYMMETRY Symmetry
INVARIANTS AnswersKept AudioKept SubmittedIsQueued NeverBlindTooSoon ReportOfSubmission ReportBilledWithinCap
PROPERTY ApprovedSetStands
CHECK_DEADLOCK FALSE
