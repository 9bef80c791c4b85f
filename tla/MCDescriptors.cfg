SPECIFICATION FairSpec
CONSTANTS
  NPorts = 2
  Clients <- TwoClients
  Jobs <- TwoPortJobs
  Junk = {0, 3}
  Settings <- Small
INVARIANTS TypeOK OwnDescriptors OwnAnswers RoomForAll DeathNeedsStray
PROPERTIES ClientsAnswered
CHECK_DEADLOCK FALSE
