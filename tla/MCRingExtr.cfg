CONSTANTS
  Certs <- MCCerts
  Holder <- MCHolder
  Addable = {"root", "bo", "junk"}
  Chain <- MCChain
  MaxRing = 2
  MaxDay = 2
  SignAndLose = FALSE
SPECIFICATION Spec
INVARIANTS
  ExtractsCertificate
