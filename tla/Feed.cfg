SPECIFICATION FairSpec
CONSTANTS
  t1 = t1
  t2 = t2
  a = a
  b = b
  Me = Me
  Threads = {t1}
  Authors = {a, b}
  WebAuthors = {b}
  Window = 1
  Cap = 2
  Earlier = 1
  MaxEvents = 3
  MaxPending = 2
INVARIANT TypeOK
INVARIANT PagingSkipsNothing
PROPERTY FeedSettles
