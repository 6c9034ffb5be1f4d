\* IDENTIFY of OS2 may poll for ever, so that the system can really stop.
CHECK_DEADLOCK FALSE
SPECIFICATION Spec
CONSTANTS
  Ports = {1}
  Lbas = {0, 1}
  Texts = {"t1"}
  Areas <- MCAreas
  Buffers <- MCBuffers
  CallerBuffers <- MCCallerBuffers
INVARIANTS TypeOK TrueMeansDone
PROPERTIES NoStrayWrite BoundedCallsEnd
