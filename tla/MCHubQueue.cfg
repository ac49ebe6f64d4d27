SPECIFICATION FairSpec
CONSTANTS
  send1 = send1
  send2 = send2
  leave1 = leave1
  leave2 = leave2
  Caller = {send1, send2, leave1, leave2}
  Relay = {send1, send2}
  SelfSends <- SelfSendsValue
  Logging = TRUE
  Oversized <- OversizedValue
INVARIANTS TypeOK TokenInv
PROPERTIES ImplementsSerial CallersAnswered TakenFinished
CHECK_DEADLOCK FALSE
