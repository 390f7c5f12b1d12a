SPECIFICATION SafeSpec
CONSTANTS
  Threads = {t1, t2}
  Clearers = {t1}
  ClearAlone = FALSE
  Nodes = {n1, n2}
  m_head = m_head
  Keys = {1, 2}
  LinkTowerHeight = 2
  ExpectedListSize = 2
  MaxVersion = 63
  MaxPushes = 3
  None = None
INVARIANTS PoppedOnce
CHECK_DEADLOCK FALSE
