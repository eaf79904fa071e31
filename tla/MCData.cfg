\* MCData: every input once.
SPECIFICATION Spec
INVARIANTS
  DecodingAgrees
  RequestsReadBack
  RecordsGuarded
  TimersSound
  StartsAsConfigured
\* Nothing follows an input.
CHECK_DEADLOCK FALSE
