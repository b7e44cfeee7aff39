CONSTANTS
  Letters = {"a"}
  Greys = {"home"}
  Fakes = {"print"}
  MAX_HELD = 3
  MAX_WIRE = 4
SPECIFICATION Spec
INVARIANTS PrefixPairs CtrlShiftTracked RightColumn
