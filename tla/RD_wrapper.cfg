CONSTANTS
  a = a  b = b  short = short  long = long
  NoText = NoText  NoItem = NoItem  NoCall = NoCall  NoJob = NoJob
  Reports <- MCReports2
  Recipients <- MCRecipients2
  Texts <- MCTexts
  NChunks <- MCNChunks
  AllowedLists <- MCBoth
  Blocked <- MCNobody
  Limit = 1
  WrapperOnly = TRUE
  Automation = FALSE
  MaxOrphans = 0
SPECIFICATION FairSpec
INVARIANTS
  OneTextPerReport
  WrapperInv
  NoMessageAfterDelivery
  PromptInv
PROPERTIES
  RegisteredTextIsImmutable
  EveryReportSettles
  EveryReachableChatIsInformed
  DeliveredIsFinal
  KeepsPromise
