SPECIFICATION Spec
CONSTANTS
  Lang <- MCLang
  Py <- MCPy
  Writes <- MCWrites
  Reads <- MCReads
  Publishes <- MCPublishes
  Subscribes <- MCSubscribes
  Samples <- MCSamples
  MaxLength = 7
  Cuts = {0, 1, 5, 12}
INVARIANTS CdrTypeOK InStep WholeOrNothing StandardAlignment
