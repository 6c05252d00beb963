\* ParseVersionRange on all short texts and on texts shaped like ranges.
CONSTANTS
  FieldMax = 1
  Texts <- MCTexts
SPECIFICATION Spec
INVARIANTS
  TypeOK
  OutputsOrdered
  RangeIsDenoted
