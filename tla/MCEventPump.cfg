SPECIFICATION FairSpec
CONSTANTS
  main = main
  sub = sub
  bare = bare
  news = news
  alarm = alarm
  l1 = l1
  l2 = l2
  f1 = f1
  guest = guest
  Sessions <- MCSessions
  Main = main
  Subagents <- MCSubagents
  Bare <- MCBare
  Texts <- MCTexts
  MaxEvents = 1
  Loops <- MCLoops
  Fires <- MCFires
  Guests <- MCGuests
  MaxHandlers = 2
  MaxNotices = 2
  MaxTurns = 1
  MaxThrows = 1
CHECK_DEADLOCK FALSE
INVARIANTS
  TypeOK
  NoStrandedWake
  EventsBacked
PROPERTIES
  WakesServed
