SPECIFICATION FairKedaSpec
CONSTANTS
  i1 = i1
  l1 = l1
  a = a
  b = b
  NoAnn = NoAnn
  Nothing = Nothing
  Services <- MCServices
  KindOf <- MCKindOf
  Resources <- MCResources
  Annotated <- MCAnnotated
  Anns <- MCAnns
  Specs <- MCSpecs
  MaxKedaChanges = 3
CHECK_DEADLOCK FALSE
 
PROPERTIES KedaComesToRest
