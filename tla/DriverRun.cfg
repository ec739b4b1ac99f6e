SPECIFICATION FairSpec
CONSTANTS
  PassChoices <- MCPassChoices
  MaxTrouble = 2
INVARIANTS
  TypeOK
  SuccessMeansAReport
  CompareFindsDataset
  RunAllMeetsARefusal
PROPERTY
  EveryBenchGetsAnOutcome
