\* Two workers, of one site or of two, and a chat wake fight for one token.
CONSTANTS
  s1 = s1
  s2 = s2
  Sites <- TwoSites
  SemCap = 1
  MaxWorkers = 2
  MaxChats = 1
SPECIFICATION FairManagerSpec
INVARIANTS ManagerTypeOK NoStrayWorker TokensHeld
PROPERTIES StoppedWorkersExit
