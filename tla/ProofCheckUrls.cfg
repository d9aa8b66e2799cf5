SPECIFICATION Spec
CONSTANTS
  base = base
  dnsUrl = dnsUrl
  xmppUrl = xmppUrl
  remote = remote
  None = None
  BaseUrl = base
  DnsUrl = dnsUrl
  XmppUrl = xmppUrl
  Remote = remote
  Uris <- MCUris
INVARIANTS
  OwnEndpointsConfigured
