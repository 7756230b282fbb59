\* Two questions, two conversations opened, in a chat that may create two; two
\* sources, the second one never synced, and two syncs of each. The system may
\* stop: nobody is obliged to click.
SPECIFICATION Spec
CONSTANTS
  Parts = 1
  PageSize = 3
  MaxConversations = 2
  MaxSends = 2
  MaxLoads = 2
  Source = {1, 2}
  Synced = {1}
  Listing <- MCListing
  Pages = 2
  MaxCalls = 2
CONSTRAINT BreakOrReload
INVARIANTS
  StreamShownWhole
  PanesAgree
  FirstSyncIsShown
PROPERTIES
  ComposerReopens
CHECK_DEADLOCK FALSE
