CONSTANTS
  u1 = u1
  u2 = u2
  a = a
  b = b
  s1 = s1
  t1 = t1
  p1 = p1
  p2 = p2
  p3 = p3
  d1 = d1
  d2 = d2
  x = x
  y = y
  Urls = {u1, u2}
  Texts = {a, b}
  Blank = Blank
  NoText = NoText
  Searches = {s1}
  NProviders = 2
  HitLists <- MCHitLists
  TextSearches = {t1}
  Config <- MCConfig
  Names = {x, y}
  BlankName = BlankName
  NoName = NoName
  Papers = {p1, p2, p3}
  NoDoi = NoDoi
  PaperUrl <- MCPaperUrl
  PaperDoi <- MCPaperDoi
  WebReplies <- MCWebReplies
  PaperReplies <- MCPaperReplies
  HasResolver = TRUE
  HitPool <- MCHitPool
  MaxHits = 4
  Sources <- MCSources
  Generated = {"llm:m"}
  Priority <- MCPriority
  NoRank = NoRank
  NameOrder <- MCNameOrder
  Canon <- MCCanon
  NoYear = NoYear
SPECIFICATION MCSpec
INVARIANTS AdmissionAccounted RepliesJustified NoMixedCluster CandidatesPlaced NoFalseMerge ArrivalOrderIrrelevant RecordsFaithful
PROPERTY TextSearchesEnd
CHECK_DEADLOCK FALSE
