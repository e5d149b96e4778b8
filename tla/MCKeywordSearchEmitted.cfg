CONSTANTS
  u1 = u1
  u2 = u2
  a = a
  b = b
  Urls = {u1, u2}
  Texts = {a, b}
  Blank = Blank
  NoText = NoText
  s1 = s1
  s2 = s2
  Searches = {s1, s2}
  NProviders = 2
  HitLists <- MCHitLists
SPECIFICATION Spec
INVARIANT AdmittedWasEmitted
CHECK_DEADLOCK FALSE
