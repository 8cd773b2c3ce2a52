\* The 100 Hz loop and the arbiter against every sequence of transitions.
CONSTANT
  OutputTimeout = 2
SPECIFICATION Spec
INVARIANT FastTypeOK
PROPERTIES LateOutputIsOne OwnOutputSent
