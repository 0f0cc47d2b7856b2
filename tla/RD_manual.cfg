CONSTANTS
  a = a  b = b  short = short  long = long
  NoText = NoText  NoItem = NoItem  NoCall = NoCall  NoJob = NoJob
  Reports <- MCReports1
  Recipients <- MCRecipients2
  Texts <- MCTexts
  NChunks <- MCNChunks
  AllowedLists <- MCBoth
  Blocked <- MCNobody
  Limit = 1
  WrapperOnly = FALSE
  Automation = FALSE
  MaxOrphans = 0
SPECIFICATION Spec
INVARIANT OneTextPerReport
