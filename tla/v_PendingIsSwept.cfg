CONSTANTS
  Mutations = {m1}
  Edits = {e1}
  Merges = {g1}
  Moves = {v1}
  Startup = s0
  Windows = {s0, w1}
  Committer = committer0
  Pusher = pusher0
  Nobody = nobody
  Capacity = 1
  MaxOthers = 1
  MaxFailures = 0
SPECIFICATION Spec
INVARIANT PendingIsSwept
CHECK_DEADLOCK FALSE
