----------------------------- MODULE MCRingList -----------------------------
(* RingList and the constants of its run: four threads, so that a queue has *)
(* a first, a last and two in between, two queues and two ranks.            *)
EXTENDS RingList
CONSTANTS t1, t2, t3, t4, q1, q2
MCThread == {t1, t2, t3, t4}
MCQueue == {q1, q2}
MCRank == {1, 2}
=============================================================================
