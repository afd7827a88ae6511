CONSTANTS
  f1 = f1
  f2 = f2
  outer = outer
  inner = inner
  Paths = {f1, f2}
  Texts = {t1, t2}
  NoText = NoText
  NoSnapshot = NoSnapshot
  Handlers = {h}
  NoHandler = NoHandler
  Roots = {outer, inner}
  Inside <- MCInside
  Walked <- MCWalked
  SQLFiles <- MCSQLFiles
  Versions <- MCVersions
  MaxDeliveries = 4
  Closed = Closed
  MaxVersion = 2

SPECIFICATION SessionSpec

INVARIANT ClosedFilesIndexed
