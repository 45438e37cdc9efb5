SPECIFICATION FairSpec
CONSTANTS
  Sizes = {1}
  MaxAttempts = 5
PROPERTY ClientAuthorizes
CHECK_DEADLOCK FALSE
