--------------------------- MODULE MCMutiLevelAcc ---------------------------
EXTENDS MutiLevelAcc

CONSTANTS l1, l2, l3, l4, l5, l6, l7, l8, l9

\* Labels of nine files: with E = 2 they need a second parent, and its second
\* sub-accumulator overflows into a third one.
NineLabels == <<l1, l2, l3, l4, l5, l6, l7, l8, l9>>
SevenLabels == SubSeq(NineLabels, 1, 7)
FiveLabels == SubSeq(NineLabels, 1, 5)
FourLabels == SubSeq(NineLabels, 1, 4)
=============================================================================
