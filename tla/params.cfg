SPECIFICATION Spec
CONSTANTS
  Objects <- NamesOf
  ParamObj <- KindOf
  Attributes <- AttributesOf
  Model <- ModelOf
  Offered <- Assignments
  ParamOrder <- Order
  MaxParams = 5
INVARIANT TypeOK
INVARIANT MoreNamesDecide
INVARIANT SortableOrderFree
CHECK_DEADLOCK FALSE
