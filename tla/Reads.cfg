\* Three cursors, which can form cycles of one, two and three pages and lead back
\* into the middle of the walk; up to eight neighbors for two places.  And a listing
\* of three entries in four places, in pages of one or two, changed twice.
CONSTANTS
  Cursors = {c1, c2, c3}
  None = none
  CONCURRENT_REQUESTS = 2
  RequestTimeout = TRUE
  MaxItems = 2
  Keys = {1, 2, 3}
  Places = {1, 2, 3, 4}
  Limits = {0, 1, 4, nolimit}
  NoLimit = nolimit
  DEFAULT_PAGE_SIZE = 2
  max_page_size = 3
  MaxWrites = 2
  MaxCalls = 4
SPECIFICATION MCSpec
CHECK_DEADLOCK FALSE
INVARIANTS EachPageOnce InServerOrder ListsWhatStayed
PROPERTIES WalkEnds
