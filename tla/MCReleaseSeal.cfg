CONSTANTS
  Source = {code, text, nested, line}
  Pinned = {code, line}
  PinCount = 1
  Required = {text}
  Namesakes = {nested}
  Splitting = {line}
  Content = {x, y}
  Directory <- MCDirectory
  Rank <- MCRank
  Sealer = {s1, s2}
  MaxEdits = 1
  Absent = Absent
  code = code
  text = text
  nested = nested
  line = line
SPECIFICATION Spec
CHECK_DEADLOCK FALSE
INVARIANTS
  SealTypeOK
  SealMeansVerified
SYMMETRY Symmetry
