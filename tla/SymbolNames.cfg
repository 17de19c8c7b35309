CONSTANTS
  Bases = {btc, eth}
  SentAlone = {btc}
  NoBase = NoBase
SPECIFICATION FairSpec
INVARIANT NoEmptyServed
PROPERTIES PublishedWasAsked ListedIsServed
