CONSTANTS
  s1 = s1
  old = old
  alice = alice
  w1 = w1
  h1 = h1
  h2 = h2
  None = None
  Session = {s1, old}
  Legacy = {old}
  User = {alice}
  Handler = {h1, h2}
  Worker = {w1}
  Timeout = 1
  MaxTime = 1
SPECIFICATION WorkerSpec
INVARIANTS
  OpenWhileInUse
PROPERTIES
  SessionsEndForCause
  EndIsFinal
  IdleSessionsEnd
