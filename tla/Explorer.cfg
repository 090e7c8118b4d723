SPECIFICATION FairSpec
CONSTANTS
  home = home
  list = list
  drifted = drifted
  rows = rows
  plain = plain
  form = form
  foreign = foreign
  target = target
  other = other
  None = None
  Pages <- MCPages
  TitleOf <- MCTitleOf
  StructOf <- MCStructOf
  AppOf <- MCAppOf
  Target = target
  Homes = {home}
  Leads <- MCLeads
  Offers <- MCOffers
  More = {2}
  Scrolls = {list}
  Gated = {plain}
  Stateful = {}
  Dialogs = {form}
  Unsafe = {foreign}
  Links <- MCLinks
  Budgeted <- MCBudgeted
  Options <- MCOptions
  Threshold = 1
  MaxPages = 3
  MaxSegments = 2
  ExternalLinkMaxDepth = 1
  MaxTaps = 3
INVARIANTS
  TypeOK
  StackIsPath
  NoCycle
  FirstTapOnPage
  TransitionsAccounted
  PagesWithinLimit
PROPERTIES
  Terminates
CHECK_DEADLOCK FALSE
