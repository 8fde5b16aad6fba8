CONSTANTS
  Base = 3
  LengthFieldLen = 2
  ChannelId = 1
  MaxSent = 3
  MaxReceived = 3
  Payloads <- MCPayloads
  MaxPayloads = 3
SPECIFICATION Spec
INVARIANTS TypeOK DecodesWhatWasSent NothingIsStuck FailsOnlyIfTooLong
CHECK_DEADLOCK FALSE
