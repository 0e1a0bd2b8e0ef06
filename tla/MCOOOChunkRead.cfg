SPECIFICATION OOOSpec
CONSTANTS
  OOOTimes = {1, 2, 3, 4}
  OOOValues = {a, b}
  oooCapMax = 3
  MaxMapped = 1
INVARIANT AcceptedReadable
