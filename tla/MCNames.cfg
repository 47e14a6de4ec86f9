SPECIFICATION Spec
CONSTANTS
  a = a
  b = b
  c = c
  lib = lib
  Scripts = {a, b, c, lib}
  Asked = a
  Libs <- MCLibs
  Families <- MCFamilies
  None = None
INVARIANTS
  AnswerHasCause
  HandlersAgree
  CrashHasCause
CHECK_DEADLOCK FALSE
