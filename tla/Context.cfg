SPECIFICATION Spec
VIEW View
CONSTANTS
  Proc = {p1, p2}
  First = p1
  Kernel = kernel
  Boot = boot
  Code = {0, 4}
  Entry = 0
  Value = {u, v}
  Top = 2
INVARIANTS
  TypeOK
  UserMode
  OwnStack
PROPERTY
  PrivateRegisters
