CONSTANTS
  h1 = h1
  h2 = h2
  Attempts <- MCAttempts
  Hosts <- MCHosts
  HostOf <- MCHostOf
  Certificates <- MCCertificates
  Behaviour <- DefaultVerifierBehaviour
  Workers = 2
  Hole = Hole
  None = None
  MaxCertificates = 2
  Modes <- RetrievalModes
  ServerHost = h1
  CertsOf <- MCCertsOf
SPECIFICATION FairSpec
INVARIANTS TypeOK TrustedWasConsented KnownIsRecognised UnloadableWasBrokenOff SavedIsRecognised
PROPERTIES AttemptsEnd
CHECK_DEADLOCK FALSE
