SPECIFICATION Spec
CONSTANTS
  ext = ext  mesh = mesh  cross = cross  upper = upper  bare = bare
  k1 = k1  k2 = k2
  Addresses <- MCAddresses
  DomainsOf <- MCDomainsOf
  Names <- MCNames
  Keys <- MCKeys
  NoKey = NoKey
  Configs <- MCConfigs
  Validators <- MCValidators
  KeyHolders <- MCKeyHolders
  Unusable = Unusable
  Absent = Absent
  KEY_CACHE_TTL = 2
INVARIANT CertificateIsReadable
