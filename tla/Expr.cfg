SPECIFICATION Spec
CONSTANTS
  Number <- MCNumber
  Ops = {"-", "*", "/", "==", "&&"}
  Modulus = 16
  MaxLen = 9
  AnyLen = 3
INVARIANTS ValuesAgree
CHECK_DEADLOCK FALSE
