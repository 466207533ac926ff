SPECIFICATION Spec
CONSTANTS
  NoBit = NoBit
  NoReading = NoReading
  Measurements <- MCMeasurements
  Disturbed <- MCDisturbed
  Times <- MCTimes
  Commands <- MCCommands
  Stored <- MCStored
INVARIANTS
  TypeOK
  PressureShown
  DisturbanceContained
  Page82Shown
  InvalidUntilRead
  ConfigurationShown
PROPERTY
  NeverBetterAtLowerVoltage
