CONSTANTS
  Kinds = {"iotlab", "iotlabm3", "rpi3", "no"}
  ProfileDicts <- MCProfiles
  Alim = "3.3V"
  Archi = "m3"
  Num = 381
  MaxLate = 1
  LateCommands = {"config_consumption_measure"}
SPECIFICATION Spec
INVARIANTS
  ZeroMeansDone
  PowerStateTracked
  AcceptedUnlessKnown
PROPERTIES
  ProfileKeepsPower
