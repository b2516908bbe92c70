SPECIFICATION FairSpec
CONSTANTS
  t1 = t1  t2 = t2  b1 = b1  f1 = f1  f2 = f2
  Tabs = {t1, t2}
  Browsers = {b1}
  BrowserOf <- OneBrowser
  Workloads <- Everyday
  Files = {f1, f2}
  TTL = 1
  MaxTime = 2
  MaxSessions = 2
  MaxLogins = 1
INVARIANTS TypeOK NoRevival UploadStored
PROPERTIES SparesLive ExpiredReaped
