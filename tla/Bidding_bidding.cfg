SPECIFICATION FairSpec
CONSTANTS
  m1 = m1
  m2 = m2
  Makers = {m1, m2}
  Configs <- SomeConfigs
  Offers <- SomeOffers
  Books <- SomeBooks
  Summaries <- SomeSummaries
  Word = 8
  MaxHeight = 1
  MaxSent = 2
  MaxBoots = 1
INVARIANTS
  TypeOK
  SavedAsSent
  PromiseKept
  PricesRuled
  AcknowledgedIsSaved
PROPERTIES
  
  PauseTakesEffect

CHECK_DEADLOCK FALSE
