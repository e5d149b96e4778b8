CONSTANTS
  u1 = u1
  a = a
  b = b
  r1 = r1
  r2 = r2
  r3 = r3
  f1 = f1
  s1 = s1
  Urls = {u1}
  Texts = {a, b}
  Blank = Blank
  NoText = NoText
  Requests = {r1, r2, r3}
  Focuses = {f1}
  NoFocus = NoFocus
  NoRequest = NoRequest
  UrlOf <- MCUrlOf
  FocusOf <- MCFocusOf
  FetchProviders = {p1}
  p1 = p1
  Searches = {s1}
  NProviders = 1
  HitLists <- MCHitLists
SPECIFICATION GatewayFairSpec
INVARIANTS BodiesVetted ServedIsChecked OneProviderBody CancellationIsScoped
PROPERTIES RecordsOnlyGrow UsesUrlLock RequestsEnd
CHECK_DEADLOCK FALSE
