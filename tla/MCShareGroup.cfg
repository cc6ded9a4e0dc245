SPECIFICATION Spec
CONSTANTS
  c1 = c1  c2 = c2  GroupContexts = {c1, c2}
  ImageNames = 1  FbNames = 1  MaxImages = 3  GroupBudget = 5
  Sorts = {"texture", "attrib", "renderbuffer"}
SYMMETRY Alike
INVARIANTS
  GroupSound ReadsSound
CHECK_DEADLOCK FALSE
