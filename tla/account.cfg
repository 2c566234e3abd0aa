CONSTANTS
  Client = {"scheduler"}
  Raising = {"scheduler"}
  MaxStores = 2
  MaxWaiting = 2
  MaxAccounts = 2
  MaxPasswords = 2
  MaxAsked = 3
  MaxStarts = 2
  MaxGrants = 2
  Server = {"s1", "s2"}
  User = {"u1"}
  Nobody = "nobody"
SPECIFICATION AllSpec
INVARIANTS PartsTyped SavedOfAccount RequiredOnlyBy StaleOnlyByJoining NoneLeaked FinishedIsStoredInOrder
PROPERTIES OlderNeverReplaces LookupsEnd
  RevokedOnlyIfInterrupted StrandedOnlyBy
CHECK_DEADLOCK FALSE
