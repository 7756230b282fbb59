\* A question is asked in a new chat, which the user leaves and opens again
\* while the answer is being made.
SPECIFICATION Spec
CONSTANTS
  Parts = 1
  PageSize = 3
  MaxConversations = 2
  MaxSends = 2
  MaxLoads = 2
  Source = {1, 2}
  Synced = {1}
  Listing <- MCListing
  Pages = 2
  MaxCalls = 2
INVARIANTS
  NothingTwice
CHECK_DEADLOCK FALSE
