SPECIFICATION Spec
CONSTANTS
  Threads = {t1, t2}
  Nodes = {n1, n2, n3}
  m_head = m_head
  Keys = {1, 2, 3}
  MaxKey = 9
  LinkTowerHeight = 2
  None = None
SYMMETRY Interchangeable
INVARIANTS ShortcutsLeadForward
PROPERTIES KeepsMap
CHECK_DEADLOCK FALSE
