\* Three compilations: what one leaves behind meets the next, and the one after
\* it.  All words of 11 bits, the most negative one (-1024) included; the buffer
\* is the smallest that holds four digits, a sign, the newline and the NUL, as
\* 64 bytes hold the nineteen digits of a 64-bit word with room to spare.
CONSTANTS
  MaxRuns = 3
  SignBit = 1024
  BufSize = 7
SPECIFICATION SystemSpec
INVARIANTS CompiledIsFresh PrintsDecimal
\* No compilation follows the last one.
CHECK_DEADLOCK FALSE
