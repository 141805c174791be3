------------------------------ MODULE MCWatch ------------------------------
EXTENDS Watch

\* A file, a directory and a file in it.
FileDirFile   == <<0, 0, 2>>
BelowFileDir  == [d \in {0, 2} |-> IF d = 0 THEN 1..3 ELSE {2, 3}]

\* One file in the root.
OneFile      == <<0>>
BelowOneFile == [d \in {0} |-> {1}]
=============================================================================
