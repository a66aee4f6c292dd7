-------------------------- MODULE MCWorkerSupervisor --------------------------
\* Instances of WorkerSupervisor for TLC.
EXTENDS WorkerSupervisor

FourWorkers == 0 .. 3
=============================================================================
