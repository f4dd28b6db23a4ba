CONSTANTS
  None = None
  Hosts <- MCHosts
  Images <- MCImages
  Specs <- MCSpecs
  fallbackTable <- MCTable
  secureFallbackTable <- MCSecureTable
  SizeOf <- MCSizeOf
  StoreOf <- MCStoreOf
  SecureCode = {"secboot4m", "secboot2m"}
  VendorVars = {"enrolled4m"}
  LegacySize = 64
  MaxFaults = 3
SPECIFICATION FairSpec
INVARIANTS
  FirmwareFits
  FirmwareFound
  SealedOpens
PROPERTIES
  MediaLast
  GuestStateKept
  VTPMInHand
  RetryBoots
