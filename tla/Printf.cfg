\* Conversions of short numbers in short buffers.  The only state without a
\* step of its own is that of a call that returned (Done), so the search for
\* deadlocks shows that every call returns.
CONSTANTS
  NTOA_BUFFER_SIZE = 8
  FTOA_BUFFER_SIZE = 9
  DEFAULT_FLOAT_PRECISION = 2
  MAX_FLOAT = 1000
  MAX_PRECISION = 2
  UNLIMITED = 100
  EXPONENTS <- MCExponents
  ADAPT_EXP <- MCAdapt
  Bits <- MCBits
  Call <- MCCall
SPECIFICATION Spec
INVARIANTS TextAsSpecified FloatAsSpecified OutputContract
