\* NewMNPRecord on every accepted form of an MSISDN.
CONSTANTS
  Digits <- MCDigits
  Separators = {" ", "-"}
  NationalLen = 2
  Networks = {"MTN", "GLO"}
  Inputs <- MCInputs
  Panic = Panic
  ErrInvalidMSISDN = ErrInvalidMSISDN
  NoRecord = NoRecord
SPECIFICATION MSpec
CHECK_DEADLOCK FALSE
INVARIANT AcceptedFormsRecorded
