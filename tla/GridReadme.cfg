SPECIFICATION ReadmeSpec
CONSTANTS
  Batch = 1
INVARIANTS
  FollowsReadme
\* The program ends after its last region.
CHECK_DEADLOCK FALSE
