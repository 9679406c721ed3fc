SPECIFICATION Spec
CONSTANTS
  Sections <- TwoSections
  Keys <- FourKeys
  Profile <- DefaultProfile
  MaxLines = 4
INVARIANTS
  AccessKeyIsRead
