CONSTANTS
  Null = Null
  Whole = Whole
  MaxRows = 3
  MaxAbs = 2
  Copies <- MCCopies
  KeyOf <- MCKeyOf
  Value <- MCValues
SPECIFICATION Spec
INVARIANT SafeGroupsAreSmall
INVARIANT NonNullCounts
INVARIANT ResultIsAggregate
