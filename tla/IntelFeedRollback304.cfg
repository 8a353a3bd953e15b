SPECIFICATION Spec
CONSTANTS
  s1 = s1
  s2 = s2
  u1 = u1
  u2 = u2
  A = A
  B = B
  S = S
  g1 = g1
  g2 = g2
  g3 = g3
  g4 = g4
  g5 = g5
  va = va
  vb = vb
  vc = vc
  vs = vs
  vt = vt
  None = None
  Sources = {s1}
  Urls = {u1}
  Contents = {A, B, S}
  GenIds = {g1, g2, g3, g4}
  Validators = {va, vb, vc, vs, vt}
  EntryCount <- MCEntryCount
  ValidatorOf <- MCValidatorOf
  Operations = {"rollback"}
  MaxPublishes = 2
  MaxCommands = 2
  MaxFetchErrors = 0
  MaxCrashes = 0
SYMMETRY GenerationSymmetry
INVARIANTS
  NotModifiedMeansValidatedPayload
