SPECIFICATION Spec
CONSTANTS
  Suites = {"AES_128_GCM", "AES_256_GCM", "CHACHA20_POLY"}
  RecordLens = {16, 17, 18, 300, 16640, 16656, 16657, 65535}
  RecordTypes = {22, 23}
  Pads = {0, 1}
  Arrivals = {4, 5, 22, 23, 304, 305, 16645, 16661, 16662, 70000}
  BufSizes = {100, 8191}
  MaxSeq = 2
CHECK_DEADLOCK FALSE
INVARIANTS
  PeekShowsEverySuite
