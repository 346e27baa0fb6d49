\* One client that logs in again and again, two requests, one restart
CONSTANTS
  root = root  adm = adm  cust = cust  staff = staff  s1 = s1
  k1 = k1  r1 = r1  r2 = r2
  None = None
  Requests = {r1, r2}
  Sessions = {s1}
  Names = {root, adm, cust, staff}
  Default <- MCDefault
  Spare <- MCSpare
  Asks <- MCAsks
  MaxStarts = 1
  ApiRoles = {"ADMIN"}
SPECIFICATION FairSpec
INVARIANTS RolesAreGranted OneKeyEach
PROPERTIES RolesBySuperAdmin AccessEnds
