SPECIFICATION ClocksSpec
CONSTANTS
  H7Settings <- MCH7Settings
  H5Settings <- MCH5Settings
  G0Settings <- MCG0Settings
  G4Settings <- MCG4Settings
  SpiRates <- MCSpiRates
CHECK_DEADLOCK FALSE
INVARIANTS ClocksAsClaimed WithinLimits I2cWithinMode
PROPERTY ConfigurationEnds
