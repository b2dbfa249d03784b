CONSTANTS
  NoProof = NoProof  None = None  ClientId = ClientId  Nobody = Nobody
  Empty = Empty  NoFile = NoFile  NoItem = NoItem
  Fail = Fail  Garbage = Garbage  NoUrl = NoUrl  NoSession = NoSession  NoCert = NoCert
  a1 = a1  a2 = a2  b1 = b1  s1 = s1  s2 = s2  p1 = p1  p2 = p2
  c1 = c1  c2 = c2  c3 = c3  d1 = d1  d2 = d2  d3 = d3  d4 = d4
  k1 = k1  k2 = k2  k3 = k3
  Accounts <- ManyAccounts
  Servers <- ManyServers
  ServerOf <- ServersOf
  Jobs <- ManyJobs
  DefaultConf <- DefaultConfOf
  Clients <- ThreeClients
  Daemons <- FourDaemons
  Copiers <- ThreeCopiers
  Askers <- TwoAskers
  Attachments <- SomeAttachments
  Shells <- OneShell
  Items <- SomeItems
  Moments <- SomeMoments
  IdentityAddresses <- SsoAddresses
  IdentityServer <- SsoServer
  Least = 10000
  Default = 60000
  Scopes <- AddressScopes
SPECIFICATION ScopedSpec
CHECK_DEADLOCK FALSE
INVARIANT CertificateGated
