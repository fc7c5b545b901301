SPECIFICATION Spec
CONSTANTS
  MAX_NODES = 5
  MAX_CHILDREN = 3
  MAX_PARENTS = 3
  GraphFiles <- UnsortedFiles
  Bsearch <- MCBsearch
  StackJunk <- NoJunk
  Pids = {1, 2, 3}
  ForkErrnos = {}
  SigchldIgnored = {FALSE}
INVARIANTS
  RunsAfterParents
