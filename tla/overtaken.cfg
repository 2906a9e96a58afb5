SPECIFICATION OrderSpec
CONSTANTS
  w1 = w1  w2 = w2
  e1 = e1  e3 = e3
  gx = gx  gr = gr
  None = None
  Workers = {w1, w2}
  Entities = {e1}
  Groups = {gx, gr}
  GroupOf <- OneTimer
  Exclusive = {gx}
  Early = {e1}
  MaxCalls = 3
  MaxSize = 2
  DropNewest = TRUE
  Removable = {}
  MayDestroyNode = FALSE
  MayShutdown = FALSE
CHECK_DEADLOCK FALSE
INVARIANTS
  AsideNotOvertaken
