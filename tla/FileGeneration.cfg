\* Three files, failures of disk and database, restarts
CONSTANTS
  f1 = f1  f2 = f2  f3 = f3
  NoFile = NoFile
  Files = {f1, f2, f3}
SPECIFICATION FairSpec
INVARIANTS TypeOK NothingForgotten FetchedIsWhole NotifiedIsWhole
PROPERTIES AnswersStay JobsEnd
