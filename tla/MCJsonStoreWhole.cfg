SPECIFICATION Spec
CONSTANTS
  Word <- MCWord
  Numeral <- MCNumeral
  Canon <- MCCanon
  Precedes <- MCPrecedes
  ScalarType = {"string", "float64"}
  Scalar = {"x", "y"}
  Nil = Nil
  Road <- MCRoad
  Data <- MCData
  Template <- MCTemplate
CHECK_DEADLOCK FALSE
PROPERTIES
  WholeDocumentWritten
