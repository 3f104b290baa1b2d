CONSTANTS
  u = u
  House = House
  Treasury = Treasury
  Pool = Pool
  Owners <- OneUser
  Sol <- SolKey
  Cluster = "mainnet"
  Opening <- Open
  TreasuryFunds = 2
  Fee = 1
  Reserve = 1
  Moves <- OneAllocation
  Arrivals = 1
  BookChanges <- OneLevel
  AlertAfter = 2
  MaxUnreadable = 1
  Recorded = {"n1", "n2"}
  Generated = {"g1", "g2"}
  Leasers = {"w1", "w2"}
  noncePoolSize = 2
  MaxProvisions = 2
  Roster <- Participants
  MaxSessions = 3
  MaxLost = 2
  ParticipantSeq <- Participants
  MIN_SIGNERS = 2
  SignBudget = 2
  Proofs <- Approvals
  MaxNonces = 2
SPECIFICATION CustodySpec
INVARIANTS ReportsAreRight LossIsAlerted PoolHoldsTarget AddressIsHeldByAll SigningIsSound
CHECK_DEADLOCK FALSE
