------------------------------ MODULE MCNacFlash ------------------------------
EXTENDS NacFlash

CONSTANT Lengths \* of the files

\* Files of i words that use all values of a word of two bits; with a number
\* of two words the images are 2, 3 and more words shorter.
FileOf(n) == [i \in 1 .. n |-> CASE i % 4 = 0 -> {} [] i % 4 = 1 -> {0}
                                 [] i % 4 = 2 -> {1} [] OTHER -> {0, 1}]
MCImages == {FileOf(n) : n \in Lengths}
MCSerial == <<{0}, {1}>>
MCOldCells == [a \in 0 .. 17 |-> IF a % 2 = 0 THEN {0} ELSE {1}]
=============================================================================
