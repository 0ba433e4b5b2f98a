SPECIFICATION LiveSpec
CONSTANTS
  NoFile = NoFile
  MaxCommits = 2
  MaxAsks = 2
  MaxSnaps = 2
  Settings <- Most
INVARIANTS TypeOK 
  
CHECK_DEADLOCK FALSE
