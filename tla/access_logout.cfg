\* A sign-out between two steps of a request that creates or finds a family.
SPECIFICATION Spec
CONSTANTS
  Person = Person
  Subjects = {Person}
  Sids = {k1}
  SubOf <- MCSubOf
  Others = {o1}
  Browsers = {b}
  Requests = {r1, r2}
  Ids = {i1, i2}
  NoId = NoId
  NoSid = NoSid
  MaxActive = 2
  MaxRevoked = 1
  MaxFamilies = 3
  MaxFaults = 1
SYMMETRY Symmetry
PROPERTIES
  LogoutIsFinal
