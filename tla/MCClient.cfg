SPECIFICATION MCSpec
CONSTANTS
  Clients = {c1, c2}
  Hosts = {h1, h2}
  Reveals = {h1}
  Conns = {k1, k2}
  PullAttempts = 2
  MaxNesting = 2
  NoConn = NoConn
  Gone = Gone
  Unset = Unset
  Unpinned = Unpinned
  d = d
  w1 = w1
  w2 = w2
  Anonymous = Anonymous
  Calls <- MCCalls
  MaxOut = 3
  Codes = {0, 1}
  Threads = {w1, w2}
  Mirrors = {"mirror"}
  HubPrefixes <- MCHubPrefixes
  Helpers = {d}
  Configs <- MCConfigs
  Ttl = 1
  Slow = 1
  Tokens = {"mirror"}
CHECK_DEADLOCK FALSE
SYMMETRY Symmetry
INVARIANTS Types OwnAnswer NeverReplayed CallHonest ChunkingInvisible SecretsInPlace ArchiveTrue
