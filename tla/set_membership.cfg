CONSTANTS
  A = A
  a = a
  B = B
  KA = KA
  KB = KB
  NoRow = NoRow
  Copies <- MCCopies
  Side <- MCSide
  Row <- MCRow
  Key <- MCKey
SPECIFICATION Spec
INVARIANT TypeOK
INVARIANT CountsAreSupport
INVARIANT RepresentativeIsLive
INVARIANT ResultIsTheSet
INVARIANT NeverRefused
