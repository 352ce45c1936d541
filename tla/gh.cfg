\* Two calls of a look; the second child may get the process id of the first.
SPECIFICATION FairSpec
CONSTANTS
  Calls = {c1, c2}
  Pids = {1, 2}
  NoPid = 0
INVARIANTS TypeOK OnlyOwnChild NoReaderLeftBehind DirectoryOutlivesChild
PROPERTIES DeadlineWins ChildIsReaped
\* A look whose calls are all over leaves nothing to do.
CHECK_DEADLOCK FALSE
