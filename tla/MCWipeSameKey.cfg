SPECIFICATION Spec
CONSTANTS
  Procs = {p}
  Names = {sdb, sdc}
  Sticks = {a, b}
  NoStick = nobody
  Fixed = {}
  Key <- MCSameKey
  Model <- MCModel
  Size <- MCSize
  MaxHotplug = 0
INVARIANTS IdIsStable
CHECK_DEADLOCK FALSE
