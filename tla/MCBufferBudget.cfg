SPECIFICATION Spec
CONSTANTS
  Threads = {t1, t2}
  Observers = {o1, o2, o3}
  Limit = 5
  Requests = {0, 2, 3}
SYMMETRY Symmetry
INVARIANTS
  TypeOK
  AccountingExact
  StorageCovered
  NoObserverMissed
