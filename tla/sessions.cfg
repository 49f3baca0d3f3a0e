SPECIFICATION Spec
CONSTANTS
  w = w
  s1 = s1
  s2 = s2
  t1 = t1
  t2 = t2
  None = None
  Users = {w}
  Sessions = {s1, s2}
  Tabs = {t1, t2}
  Browser <- OneBrowser
  MaxVersion = 1
  Lapses = {"expired"}
  MaxTokens = 2
SYMMETRY Symmetry
INVARIANTS TypeOK TokensFormChain GrantedWasCurrent
PROPERTIES RefusedForGood
