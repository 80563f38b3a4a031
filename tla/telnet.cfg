CONSTANTS
  Greeting <- ShortGreeting
  AnswerLength = 4
  BufSize = 5
SPECIFICATION FairSpec
INVARIANT TypeOK
INVARIANT PrintsTheAnswer
PROPERTY NeverWaitsInVain
