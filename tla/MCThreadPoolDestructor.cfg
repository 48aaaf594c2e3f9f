SPECIFICATION FairPoolSpec
CONSTANTS
  Workers = {w1, w2}
  Clients = {c1, c2}
  MaxTasks = 3
PROPERTY DestructorReturns
