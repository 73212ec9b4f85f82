CONSTANTS
  Client = {"c1", "c2"}
  Killers = {{}, {"c2"}}
  Fingerprint <- MCFingerprint
  Daemon = {1, 2, 3}
  Retries = 2
  None = 0
SPECIFICATION Spec
INVARIANT RunAtMostOnce
PROPERTIES ClientsEnd NoStrayDaemon
CHECK_DEADLOCK FALSE
