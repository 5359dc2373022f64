SPECIFICATION Spec
CONSTANTS
  Wallet = {w1, w2}
  Signer = {s1}
  MaxOwners = 2
  MaxWallets = 2
  Workers = 2
  Threaded = TRUE
INVARIANTS LeasesExact NotHandedOut NoStrayWorker
PROPERTIES OpensReturn
