---------------------------- MODULE MCPulseRing ----------------------------
(* Instances of PulseRing for TLC.                                         *)
EXTENDS PulseRing

CONSTANTS t1, t2

TwoThreads == {t1, t2}
TimerAndIRQ == {"timer", "irq"}
WithNMI == TimerAndIRQ \cup {"nmi"}

=============================================================================
