SPECIFICATION LinkSpec
CONSTANTS
  Supported <- MCSupported
  Partners <- MCPartners
  Masks <- MCMasks
  CableChanges = 2
  Calls = 3
INVARIANTS MacMatches MaskedModeUnused
PROPERTIES LinkReported
