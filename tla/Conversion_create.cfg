SPECIFICATION Spec
CONSTANTS
  MaxInt = 2047
  Mib = 4
  NoName = ""
  Config <- Configs
  VendorFlag <- Flags
  ChipWord <- ChipWordOf
  Lower <- LowerOf
  Manifest <- Manifests
  Device <- Devices
  MaxSizes = 2
INVARIANTS TypeOK ShareOfOwnMemory CoresCoverShare ManifestConverted UpdateKeepsPod
