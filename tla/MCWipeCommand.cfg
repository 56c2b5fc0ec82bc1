SPECIFICATION Spec
CONSTANTS
  Procs = {p, q}
  Names = {sdb, sdc}
  Sticks = {a, b, disk}
  NoStick = nobody
  Fixed = {disk}
  Key <- MCKey
  Model <- MCModel
  Size <- MCSize
  MaxHotplug = 2
SYMMETRY MCSymmetry
INVARIANTS TypeOK WipesListedStick NeverFixed NeverOverMounted OneWriter HandleSizeIsRight
CHECK_DEADLOCK FALSE
