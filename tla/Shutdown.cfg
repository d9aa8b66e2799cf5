SPECIFICATION FairSpec
CONSTANTS
  wkd = wkd
  xmpp = xmpp
  http = http
  Main = Main
  Order <- MCOrder
  Fallible <- MCFallible
  Requests = {r1, r2}
INVARIANTS
  TypeOK
  NoRequestCut
  ErrorsReported
PROPERTIES
  EndsAfterInterrupt
