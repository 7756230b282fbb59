\* Every document of up to four lines on two pages, some of them too long for
\* one chunk; every search over three chunks of two sources; three clicks on one
\* answer, whose thread is read again once; and one panel, of two conversations
\* with an answer each and a source's one document with two chunks. A behaviour ends with
\* its search or its panel: nobody is obliged to write, to click or to look again.
SPECIFICATION Spec
CONSTANTS
  Weight <- MCWeight
  MinTokens = 2
  MaxTokens = 3
  MaxPages = 2
  MaxLines = 4
  Source = {"notes", "code"}
  Chunk = {1, 2, 3}
  SourceOf <- MCSourceOf
  Dated = {1, 2}
  TopK = 2
  FetchK = 3
  MaxDateMatches = 1
  Unit = 238266
  Comment = {"why"}
  MaxPosts = 3
  MaxLoads = 1
  Turn = {1, 2}
  Document = {1}
  Passage = {1, 2}
  DocumentOf <- MCDocumentOf
  Origin = {"library"}
  OriginOf <- MCOriginOf
INVARIANTS
  LinesKept
  SizesRight
  SwitchedOffStaysOut
  FusionRespectsBoth
  DatesShareRoom
  RatingsSettle
  FiguresTrue
CHECK_DEADLOCK FALSE
