\* Two modules that read or write, and three answers of the user.
CONSTANTS
  Tree <- MCTree
  Assistant = "campus"
  Messages <- MCMessages
  Answers <- MCAnswers
  ModelAssessments <- MCModelAssessments
  ModelPlans <- MCModelPlans
  MaxAnswers = 3
  Hits <- MCHits
  None = None
SPECIFICATION FairSpec
INVARIANTS
  TypeOK
  ReadBeforeWrite
  PlanIsFollowed
  LeavesSeeTheRequest
  TicketReported
  CitesEverySource
  FairShare
  CitesWhatWasRead
  ShownUnderItsModule
PROPERTY
  Settles
\* The user may have stopped answering.
CHECK_DEADLOCK FALSE
