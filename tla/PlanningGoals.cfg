\* Two online providers and ollama; quick, slow and absent answers.
\* Timeouts that are not set, and one that a simple goal would make negative.
CONSTANTS
  Online <- TwoOnline
  Score = {1, 4, 7}
  Base = {0, 3}
  Patience = {0, 3}
  Latency = {4, 13, 1000}
SPECIFICATION FairSpec
INVARIANTS TypeOK PlanFromFirstAnswer EvidenceOfLastAnswer QuickAnswersCount
PROPERTY PlanningEnds
CHECK_DEADLOCK FALSE
