SPECIFICATION Spec
CONSTANTS
  Pages = {settings, signin, legal}
  Settings = settings
  Panel = panel
  None = none
  MaxViews = 3
PROPERTY ReplacedIsNotWritten
CHECK_DEADLOCK FALSE
