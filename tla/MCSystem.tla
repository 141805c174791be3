------------------------------ MODULE MCSystem ------------------------------
EXTENDS System, TLC

Symmetry == Permutations(Lines)

SizeAppend      == <<1>>
SizeAppendChunk == <<1, 2>>
SizeTwoAppends  == <<1, 1>>
SizeAppends     == <<2, 1>>
SizeChunkFirst  == <<3, 2, 2>>

\* Two lines, so that messages overtake one another, with one timeout; or one
\* line that is lost once, with one timeout.
OvertakeOrDrop ==
  {[lines |-> 2, overdue |-> 1, drops |-> 0], [lines |-> 1, overdue |-> 1, drops |-> 1]}
\* The same, or one line that is not lost, with two timeouts.
EveryFailure == OvertakeOrDrop \cup {[lines |-> 1, overdue |-> 2, drops |-> 0]}
NoFailure == {[lines |-> 1, overdue |-> 0, drops |-> 0]}
OneDrop   == {[lines |-> 1, overdue |-> 0, drops |-> 1]}
Timeouts  == {[lines |-> 1, overdue |-> 3, drops |-> 0]}
=============================================================================
