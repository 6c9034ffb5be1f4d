\* IDENTIFY of OS2 may poll for ever, so that the system can really stop.
CHECK_DEADLOCK FALSE
SPECIFICATION AnsweringSpec
CONSTANTS
  Ports = {0}
  Lbas = {0}
  Texts = {"t1"}
  Areas <- MCAreas
  Buffers <- MCBuffers
  CallerBuffers <- MCCallerBuffers
PROPERTIES BulletProof
