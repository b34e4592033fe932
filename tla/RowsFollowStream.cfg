\* Two consumers of one iterator; its caller changes items and options.
CONSTANTS
  Consumers = {"outer", "inner"}
  Options = {"strict", "broken"}
  Columns = 1
  Encode <- Outcomes
  MaxItems = 2
SPECIFICATION Spec
INVARIANT TypeOK
PROPERTIES
  FollowsStream
  AnswersAsStream
