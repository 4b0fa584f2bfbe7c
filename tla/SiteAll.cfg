SPECIFICATION SiteSpec
CONSTANTS
  a1 = a1
  mem1 = mem1
  mem2 = mem2
  mail1 = mail1
  mail2 = mail2
  pass1 = pass1
  pass2 = pass2
  o1 = o1
  o2 = o2
  p1 = p1
  p2 = p2
  p3 = p3
  slug1 = slug1
  slug2 = slug2
  slug3 = slug3
  v1 = v1
  v2 = v2
  v3 = v3
  red = red
  small = small
  large = large
  cat1 = cat1
  cat2 = cat2
  i1 = i1
  i2 = i2
  i3 = i3
  d1 = d1
  d2 = d2
  d3 = d3
  d4 = d4
  q1 = q1
  s1 = s1
  s2 = s2
  s3 = s3
  s4 = s4
  Accounts = {a1}
  Places = {"home", "work"}
  Calls <- MCCalls
  Requests = {s1, s2, s3}
  Members = {mem1, mem2}
  Emails = {mail1, mail2}
  Passwords = {pass1, pass2}
  InitMembers <- MCInitMembers
  MemberPatches <- MCPatches
  SignSlots = {s1, s2}
  MaxMaking = 2
  Sockets = {"k1", "k2"}
  Gamers = {"u1"}
  Guest = "guest"
  Drops = {"d1"}
  HiddenCoupons = {"h1"}
  Skins = {"skin1"}
  NoSkin = "none"
  MaxClaims = 2
  Questions = 2
  MaxLosses = 1
  Sales = {o1, o2}
  InitSales <- MCInitSales
  Worth <- MCWorth
  MonthLength = 1
  TrendDays = 2
  UrgentDays = 1
  MaxNow = 3
  Managers = {s1, s2}
  Pushes = {1, 2, 3}
  Products = {p1, p2, p3}
  Slugs = {slug1, slug2, slug3}
  Variants = {v1, v2, v3}
  Colors = {red}
  Sizes = {small, large}
  Categories = {cat1, cat2}
  NoLabel = NoLabel
  InitCatalog <- MCInitCatalog
  CatalogCalls <- MCCatalogCalls
  CatalogSlots = {s1, s2, s3}
  MaxStamp = 5
  Pictures = {i1, i2, i3}
  Garments = {p1, p2}
  MaxImages = 2
  PictureCalls <- MCPictureCalls
  PictureSlots = {s1, s2, s3, s4}
  Designs = {d1, d2, d3, d4}
  InitLibraries <- MCInitLibraries
  Depths = {0, 2, 4}
  Searches = {q1}
  MaxEdits = 1
CHECK_DEADLOCK FALSE
INVARIANTS SiteTypeOK OneValidLink UsedByItsEffect CoinsAddUp GhostsOnlyFromRace FreshAtRest PiecesAddUp OneCategory DeletedUnused RelatedRight
PROPERTIES DefaultKept LostOnlyByOverlap ImagesKept LimitPassedByOverlap
