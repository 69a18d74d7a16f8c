SPECIFICATION Spec
CONSTANTS
  r1 = r1
  r2 = r2
  a = a
  b = b
  Requests = {r1, r2}
  Ids = {a, b}
  IdOf <- OwnIds
  Clients = {c1}
  NoRequest = NoRequest
PROPERTY DenyModeDenies
