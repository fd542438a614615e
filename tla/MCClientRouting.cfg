SPECIFICATION Spec
CONSTANTS
  a = a
  b = b
  d1 = d1
  d2 = d2
  Serials = {a, b}
  Domains = {d1, d2}
  CertDomains <- MCCertDomains
  Conns = {c1, c2}
  MaxSessions = 3
INVARIANTS TypeOK GrantsHonoured NoGhosts
PROPERTIES NoRevokedJoin RevokedLeave
CHECK_DEADLOCK FALSE
