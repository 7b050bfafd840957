CONSTANTS
  u1 = u1  u2 = u2  u3 = u3
  r1 = r1  r2 = r2
  User = {u1, u2, u3}
  Ref = {r1, r2}
  NoUser = NoUser
  MaxCalls = 3
  PgUser = {u1, u2}
  MaxConns = 2
  Limit = 2
  MaxPgCalls = 3
  q1 = q1  q2 = q2  q3 = q3
  Req = {q1, q2, q3}
  Base = 2
  First = 13
  MaxClock = 2
  MaxRestarts = 2
CHECK_DEADLOCK FALSE
SPECIFICATION AllSpec
INVARIANTS
  ConnsAccountedFor
  RefsAreUnique
  AddressesAreUnique
PROPERTIES
  ImplementsTable
  PostgresImplementsTable
