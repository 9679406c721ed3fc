SPECIFICATION Spec
CONSTANTS
  MaxLength = 2
  UserHeaders <- OneOfEach
  Texts <- TextsPosted
INVARIANTS
  SignedRequestVerifies
