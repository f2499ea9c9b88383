\* Two rooms under either nick, one other person, and two generations.
SPECIFICATION FairSpec
CONSTANTS
  Rooms = {r1, r2}
  People = {ann}
  Nick = aleesa
  Alias = alice
  Channel = misc
  MaxPhrases = 1
  MaxGen = 2
INVARIANTS NoEcho OnlyAsked InPlace OncePerSubscription
PROPERTIES ImplementsExchange AskedIsAnswered
CHECK_DEADLOCK FALSE
