SPECIFICATION FairSpec
CONSTANTS
  Users = {u1, u2, u3}
  Waiters = {m1, m2}
  NoOne = NoOne
INVARIANTS TypeOK CountExact WaitCoversItems
PROPERTY CloseReturns
\* Every worker has left and the closing thread has returned, or a CHECK has
\* ended the process.
CHECK_DEADLOCK FALSE
