\* The list pages in one window: two items, two requests of a pane at once, a
\* table of devices that is made up to twice.
SPECIFICATION PortalSpec
CONSTANTS
  Item = {x1, x2}
  NoItem = NoItem
  MaxAsks = 1
  MaxLists = 2
  MaxTicks = 2
  MaxPanels = 2
SYMMETRY Items
INVARIANTS
  PortalTypeOK
  CoveredForAnswer
  ButtonsActOnShown
  MarkIsTarget
  PaneShowsAsked
  SelectionIsOne
PROPERTY StaysSelected
CHECK_DEADLOCK FALSE
