\* Two builds; the first is cancelled while one of its commands is under way.
SPECIFICATION Spec
CONSTANTS
  MaxBuild = 2
  Version = {1}
  Port = {1}
  MaxDeaths = 0
INVARIANT CompletionOriginates
CHECK_DEADLOCK FALSE
