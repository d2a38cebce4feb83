SPECIFICATION Spec
CONSTANTS
  Width = 2
  Height = 3
  TitleBar = 1
  Border = 1
  MaxWindows = 3
  Shapes <- TwoPlaces
  Moves <- Steps
  MaxId = 4
  MaxZ = 5
INVARIANTS TypeOK OneFocus DragKeepsGrip TitleBarReachable 
PROPERTIES FocusFollowsPress
