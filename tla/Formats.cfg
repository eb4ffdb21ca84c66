CONSTANTS
  SampleBytes <- Bytes
  SampleDigits <- SomeDigits
  Numbers <- SomeNumbers
  Encryptions <- Sealed
  Parts <- NameParts
  Packages <- Results
  Passphrases = {"p", "q"}
  Salts = {"s"}
  Undecodable = Undecodable
  EmptyHash = EmptyHash
  Uint8Max = 3
  Uint32Max = 15
  Memory = 8
  Time = 3
  Parallelism = 2
  Version = 19
  SaltLen = 1
  BoxLen = 1
  Forbidden = {"a/b"}
  TierParts = {"t0", "t1", "t7"}
  MaxBytes = 7
  MaxDigits = 8
  MaxPieces = 5
  MaxParts = 3
  MaxPackages = 5
SPECIFICATION Spec
INVARIANTS Base64RoundTrips Base64DecodeIsExact MatchMeansThisHash OnlyWholeCiphertextsOpen
  ListNamesTheKeys RenamingKeepsTheKeys CoverageIsOwn FailureIsReported
CHECK_DEADLOCK FALSE
