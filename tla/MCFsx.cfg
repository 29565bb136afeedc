SPECIFICATION Spec
CONSTANTS
  Page = 2
  Slack = 0
  Options <- AllOptions
INVARIANTS
  ShadowIsImage
  NoFalseAlarm
  OkIsIntact
