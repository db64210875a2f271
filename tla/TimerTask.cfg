\* Three timers: one each before, under and behind the cursor.
CONSTANTS
  Id = {t1, t2, t3}
  NoId = NoId
  Cell = {c1, c2, c3}
  head = head
  tail = tail
SPECIFICATION Task
INVARIANTS OnTheList LooksAtAll
PROPERTIES Expires
