CONSTANTS
  f1 = f1
  outer = outer
  Paths = {f1}
  Texts = {t1, t2}
  NoText = NoText
  NoSnapshot = NoSnapshot
  Handlers = {h1, h2}
  NoHandler = NoHandler
  Roots = {outer}
  Inside <- MCInside
  Walked <- MCWalked
  SQLFiles <- MCSQLFiles
  Versions <- MCVersions
  MaxDeliveries = 2

SPECIFICATION FairSpec

PROPERTY NotificationsFinish
