SPECIFICATION Spec
CONSTANTS
  Starts <- MCStarts
  SequenceLimit = 20
PROPERTIES
  BlocksWhenItMust
