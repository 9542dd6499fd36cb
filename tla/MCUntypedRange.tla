--------------------------- MODULE MCUntypedRange ---------------------------
EXTENDS UntypedRange

\* Addresses of a 5-bit space: ctz(0) is taken as the word width.
MCStarts == 0..15
MCSizes == 0..17
=============================================================================
