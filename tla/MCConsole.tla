----------------------------- MODULE MCConsole ------------------------------
(* The console with characters of three bits, four clocks a baud.          *)
EXTENDS Console

MCPow2 == [i \in 0..DATA_BITS |-> 2^i]
SBICalls ==
  { [eid |-> "PUTCHAR",  fid |-> 0, chars |-> <<1>>],
    [eid |-> "SHUTDOWN", fid |-> 0, chars |-> <<>>],
    [eid |-> "SRST",     fid |-> 0, chars |-> <<>>],
    [eid |-> "SRST",     fid |-> 1, chars |-> <<>>],
    [eid |-> "DBCN",     fid |-> 0, chars |-> <<6, 5>>],
    [eid |-> "DBCN",     fid |-> 0, chars |-> <<>>],
    [eid |-> "DBCN",     fid |-> 1, chars |-> <<3>>],
    [eid |-> "DBCN",     fid |-> 2, chars |-> <<0>>],
    [eid |-> "OTHER",    fid |-> 0, chars |-> <<>>] }
=============================================================================
