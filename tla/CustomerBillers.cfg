\* Two requests for two rows, two tabs, one seeder, three billers
CONSTANTS
  b1 = b1  b2 = b2  b3 = b3  c1 = c1  c2 = c2  w1 = w1  w2 = w2
  tab1 = tab1  tab2 = tab2  s1 = s1
  NoRow = NoRow  NoTab = NoTab
  Clients = {c1, c2}
  Billers = {b1, b2, b3}
  Rows = {w1, w2}
  Tabs = {tab1, tab2}
  Seeds = {b1, b2, b3}
  Seeders = {s1}
  BatchSize = 2
  ChunkSize = 1
SYMMETRY Symmetry
SPECIFICATION Spec
INVARIANTS DuplicatesAreBounded HydratedIsComplete
PROPERTIES DeletedStays
