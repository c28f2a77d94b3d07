SPECIFICATION Spec
CONSTANTS
  Users = {u1, u2}
  Waiters = {m1}
  NoOne = NoOne
INVARIANT CheckHolds
\* Every worker has left and the closing thread has returned, or a CHECK has
\* ended the process.
CHECK_DEADLOCK FALSE
