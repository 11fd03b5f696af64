------------------------------- MODULE MCMutex -------------------------------
(* The instance of Mutex in which a time slice may end anywhere.           *)
EXTENDS Mutex

CONSTANTS t1, t2

TwoThreads == {t1, t2}

=============================================================================
