------------------------------- MODULE MCHeap -------------------------------
(* Heap and the constants of its runs.  Header, MinBlock and Slack are the  *)
(* real ones in units of two bytes; the bank is small, so that there are    *)
(* two boundaries between banks and few blocks around them.                *)
EXTENDS Heap
CONSTANTS p1, p2
TwoProcesses == {p1, p2}
OneProcess == {p1}
Same == Permutations(TwoProcesses)
\* The smallest block, and one that leaves a rest of every kind.
RequestSizes == {4, 13}
\* A block so large that what is left behind it can always be split off.
SizesBA == {20}
\* One that can be left with a rest too small to split off.
SizesSmallBA == {10, 11}
=============================================================================
