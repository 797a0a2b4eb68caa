SPECIFICATION Spec
CONSTANTS
  None = None
  Companies = {1, 2}
  Kinds <- MCKinds
  MaxSteps = 9
INVARIANTS
  NeverStranded
PROPERTIES
  LiveSessionKept
  SignInAdmitted

