\* A short period, and a counter that starts again in the middle of one.
SPECIFICATION SelfTestSpec
CONSTANTS
  Period = 4
  Top = 10
  MaxCount = 2
  UpSets <- MCUpSets
  Dead = {1}
INVARIANTS
  PublishedInTime
  AnswerOrZeros
  TornAtMostOnce
  LinksAsDocumented
PROPERTIES
  PublishesAgain
