\* Two requests out of seven messages, over two seconds of two ticks
CONSTANTS
  home = home  guest = guest  n1 = n1  n2 = n2  t1 = t1  t2 = t2
  None = None  Earlier = Earlier
  r1 = r1  r2 = r2
  Requests = {r1, r2}
  Addresses = {guest}
  Private = {home}
  Messages <- MCMessages
  Second = 2
  Window = 1
  LastTick = 3
SPECIFICATION Spec
INVARIANTS AcceptancesAreApart CountersAgree AnswersAreLogged
SYMMETRY RequestSymmetry
