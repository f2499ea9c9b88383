\* The server and one peer.
SPECIFICATION FairSpec
CONSTANTS
  Server = server
  Peers = {ann}
  Horizon = 3
INVARIANTS AnswerCount LastSinceStart
PROPERTIES ProbeTrustsServer AdvertisedIsAnswered
