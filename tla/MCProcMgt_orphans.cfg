SPECIFICATION Spec
CONSTANTS
  MAX_NODES = 5
  MAX_CHILDREN = 3
  MAX_PARENTS = 3
  GraphFiles <- DagFiles
  Bsearch <- MCBsearch
  StackJunk <- NoJunk
  Pids = {1, 2, 3}
  ForkErrnos = {"EAGAIN"}
  SigchldIgnored = {FALSE}
INVARIANTS
  EndsAfterAll
