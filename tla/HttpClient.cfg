CONSTANTS
  Threads = {t1, t2}
  NoThread = NoThread
  Host <- MCHost
  Certificates <- MCCertificates
  Settings <- MCSettings
  ProxyReplies = {"failed", "established", "challenge", "closing"}
  Statuses = {"ok", "redirect", "unauthorized"}
  ResponseFramings = {"none", "length", "close", "encoded", "chunked"}
  RedirectMaxCount = 1
  MaxAuthorizations = 1
  MaxCalls = 2
  MaxStops = 1
SPECIFICATION Spec
CHECK_DEADLOCK FALSE
INVARIANTS TypeOK ClosedOnlyByItsUser OkMeansWhole StopIsHonoured NothingLeftOpen ServerIsNamed
PROPERTIES FailedCallHasError CallEnds
