SPECIFICATION Spec
CONSTANTS
  none = none
  front = front
  Roles = {none, front}
  NoRole = none
  Pressures <- MCPressures
  Commands <- MCCommands
  Measured <- MCMeasured
  NoValue = NoValue
  NoCommand = NoCommand
INVARIANT
  ConfigurationStored
