CONSTANT
  MaxStarts = 3
SPECIFICATION WorkerSpec
INVARIANTS
  OneWorkerEach
  SessionWorkerWhileUp
