\* Two calls of start that may fail anywhere, stops and closes between them,
\* and a request to any of the three services.
CONSTANTS
  Kinds <- MCKinds
  Declared <- MCDeclared
  Entry <- MCEntry
  Undeclared = "none"
  Requests = {r1}
  Arguments <- MCArguments
  Stubborn = {"get"}
  MaxStarts = 2
SPECIFICATION Spec
INVARIANT NothingLost
INVARIANT ListExact
PROPERTY ServingAnswers
PROPERTY RequestsAnswered
