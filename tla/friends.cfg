SPECIFICATION Spec
SYMMETRY Alike
CONSTANTS
  Nodes = {n1, n2, n3}
  Crashers = {n1}
  Lossy = TRUE
  MaxAsks = 2
  MaxAnswers = 2
  MaxCrashes = 1
  n1 = n1
  n2 = n2
  n3 = n3
  Torn = Torn
INVARIANTS
  TypeOK
  NeverFriendsUnasked
  SavedWhenQuiet
  HandshakeAgrees
CHECK_DEADLOCK FALSE
