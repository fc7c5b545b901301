SPECIFICATION Spec
CONSTANTS
  MAX_NODES = 6
  MAX_CHILDREN = 3
  MAX_PARENTS = 2
  GraphFiles <- LimitFiles
  Bsearch <- MCBsearch
  StackJunk <- Junk
  Pids = {1, 2}
  ForkErrnos = {"EAGAIN", "ENOSYS"}
  SigchldIgnored = {TRUE, FALSE}
INVARIANTS
  TypeOK
  DependencyOrder
  PidOwnership
  CleanSuccess
