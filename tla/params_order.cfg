SPECIFICATION Spec
CONSTANTS
  Objects <- NamesOf
  ParamObj <- KindOf
  Attributes <- AttributesOf
  Model <- ModelOf
  Offered <- OneBetween
  ParamOrder <- Order
  MaxParams = 3
INVARIANT FileOrderFree
CHECK_DEADLOCK FALSE
