SPECIFICATION Spec
CONSTANTS
  Issuers = {i}
  Revokers = {r}
  Domains = {d1}
  MaxSerial = 2
INVARIANTS TypeOK UniqueSerials OneValid FreedDomains
CHECK_DEADLOCK FALSE
