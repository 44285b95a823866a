SPECIFICATION Spec
CONSTANTS
  View = 3
  MaxLines = 10
  Slack = 2
  Burst = 3
INVARIANTS
  Follows
