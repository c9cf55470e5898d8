SPECIFICATION FairSpec
CONSTANTS
  Pages = {settings, signin, legal}
  Settings = settings
  Panel = panel
  None = none
  MaxViews = 3
INVARIANTS TypeOK LiveIsCurrent
PROPERTIES PanelsStartInCurrent CurrentIsDisplayed
CHECK_DEADLOCK FALSE
