\* Does the switch count at startup only?
SPECIFICATION Spec
CONSTANTS
  Base <- MCBase
  ReadyTicks <- MCReadyTicks
  TokenTicks <- MCTokenTicks
INVARIANTS
  ModeFixedAtStartup
