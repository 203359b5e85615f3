--------------------------- MODULE MCWorkerProcess ---------------------------
(* One fault, so that a launch, the first cleanup or the watchdog fails and a
   Close has something left to release.  Two instants after the launch, so that
   the timer of one deadline can fire while the next one is being set, and both
   before and at the end of the lifetime. *)
EXTENDS WorkerProcess
=============================================================================
