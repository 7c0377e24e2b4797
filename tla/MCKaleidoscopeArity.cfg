\* A definition after an extern of the same name, in the same module.
CONSTANTS
  Names = {f, g}
  Host = {}
  MaxOperands = 1
  MaxTimes = 2
  ParamLists <- MCParamLists
  Bodies <- MCBodies
SPECIFICATION Spec
INVARIANT CallsMatchDefinitions
\* ExitOnErr ends the program, a diverging evaluation never returns.
CHECK_DEADLOCK FALSE
