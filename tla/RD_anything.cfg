CONSTANTS
  a = a  b = b  short = short  long = long
  NoText = NoText  NoItem = NoItem  NoCall = NoCall  NoJob = NoJob
  Reports <- MCReports1
  Recipients <- MCRecipients2
  Texts <- MCTexts
  NChunks <- MCNChunks
  AllowedLists <- MCChanging
  Blocked <- MCNobody
  Limit = 2
  WrapperOnly = FALSE
  Automation = TRUE
  MaxOrphans = 1
SPECIFICATION Spec
INVARIANTS
  DeliveryInv
  DeliveredRowMeansInformed
  DeliveredReportMeansAllInformed
