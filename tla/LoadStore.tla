------------------------------ MODULE LoadStore ------------------------------
(***************************************************************************)
(* What the memory stage does with the double it has read                  *)
(* (MemoryUnit.v): loads, stores, atomics, LR and SC, and the reservation. *)
(* An access leaves the stage in the clock without M_busy_o; until then it *)
(* offers the same to the port, and one that reads does not come in behind *)
(* one that writes: Pipeline.tla.  Accesses are aligned; the double is the *)
(* only one of the memory, and its eight bytes have BASE values each.      *)
(***************************************************************************)
EXTENDS Integers

CONSTANTS BASE,                                          \* 256 in the source
          ByteXor(_, _), ByteOr(_, _), ByteAnd(_, _),    \* bit by bit, of two bytes
          Operand                                        \* values of rs2, as eight bytes

Byte0  == 0..BASE-1
Double == [0..7 -> Byte0]

ASSUME BaseAssumption ==
  /\ BASE \in Nat /\ BASE % 2 = 0 /\ BASE > 0 /\ Operand \subseteq Double
  /\ \A a, b \in Byte0 : {ByteXor(a, b), ByteOr(a, b), ByteAnd(a, b)} \subseteq Byte0

Sizes   == {1, 2, 4, 8}
AmoOp   == {"ADD", "SWAP", "XOR", "OR", "AND", "MIN", "MAX", "MINU", "MAXU"}
Aligned(n) == {a \in 0..7 : a % n = 0}

AccessOf(kinds, n, un, ops) ==
  [kind : kinds, size : {n}, unsigned : un, addr : Aligned(n), amo : ops, rs2 : Operand]
Access ==
  AccessOf({"AMO"}, 4, {FALSE}, AmoOp) \cup AccessOf({"LR", "SC"}, 4, {FALSE}, {"ADD"}) \cup
  UNION {AccessOf({"LOAD"}, n, BOOLEAN, {"ADD"}) \cup AccessOf({"STORE"}, n, {FALSE}, {"ADD"})
          : n \in Sizes}

Nop == [kind |-> "nop"]

VARIABLES
  EM_access,           \* the access in the stage
  DMem,                \* the double in memory, which DMemRData_i shows
  MM_reservedAddress, MM_reservedChanged,
  loaded               \* what the last LR has read, or NoWord: see Forget

loadStoreVars == <<EM_access, DMem, MM_reservedAddress, MM_reservedChanged, loaded>>
NoWord == <<>>

(* The two registers have no initial value; the builds start them at 0,    *)
(* which is a reservation of address 0.                                    *)
LoadStoreInit ==
  /\ EM_access = Nop
  /\ DMem \in Double /\ MM_reservedAddress = 0 /\ MM_reservedChanged = FALSE
  /\ loaded = [i \in 0..3 |-> DMem[i]]
-----------------------------------------------------------------------------
M_memWord(x) == [i \in 0..3 |-> IF x.addr >= 4     THEN DMem[4+i] ELSE DMem[i]]
M_memHalf(x) == [i \in 0..1 |-> M_memWord(x)[IF x.addr % 4 >= 2 THEN 2+i ELSE i]]
M_memByte(x) == M_memHalf(x)[x.addr % 2]

Top(b)  == b >= BASE \div 2
Fill(s) == IF s THEN BASE - 1 ELSE 0
SignOfHalf(x) == ~x.unsigned /\ Top(M_memHalf(x)[1])             \* mutant of M_loadSign
M_loadSign(x) == ~x.unsigned /\ IF x.size = 1 THEN Top(M_memByte(x)) ELSE Top(M_memHalf(x)[1])
M_Mdata(x) ==
  IF x.size = 8 THEN DMem
  ELSE [i \in 0..7 |->
         IF i >= 4 THEN BASE - 1
         ELSE IF x.size = 4 THEN M_memWord(x)[i]
         ELSE IF i < x.size THEN IF x.size = 1 THEN M_memByte(x) ELSE M_memHalf(x)[i]
         ELSE Fill(M_loadSign(x))]

Value(w)   == w[0] + BASE * (w[1] + BASE * (w[2] + BASE * w[3]))
Weight     == [i \in 0..3 |-> IF i = 0 THEN 1 ELSE IF i = 1 THEN BASE
                            ELSE IF i = 2 THEN BASE * BASE ELSE BASE * BASE * BASE]
Bytes(n)   == [i \in 0..3 |-> (n \div Weight[i]) % BASE]
Low(d)     == [i \in 0..3 |-> d[i]]
M_amoLTU(w, r) == Value(w) - Value(r) < 0
M_amoLT(w, r)  == IF Top(w[3]) # Top(r[3]) THEN Top(w[3]) ELSE M_amoLTU(w, r)
M_amoOut(x) ==
  LET w == M_memWord(x)
      r == Low(x.rs2)
  IN  IF x.amo = "ADD"  THEN Bytes(Value(w) + Value(r))
      ELSE IF x.amo = "SWAP" THEN r
      ELSE IF x.amo = "XOR"  THEN [i \in 0..3 |-> ByteXor(w[i], r[i])]
      ELSE IF x.amo = "OR"   THEN [i \in 0..3 |-> ByteOr(w[i], r[i])]
      ELSE IF x.amo = "AND"  THEN [i \in 0..3 |-> ByteAnd(w[i], r[i])]
      ELSE IF x.amo = "MIN"  THEN IF M_amoLT(w, r)   THEN w ELSE r
      ELSE IF x.amo = "MAX"  THEN IF ~M_amoLT(w, r)  THEN w ELSE r
      ELSE IF x.amo = "MINU" THEN IF M_amoLTU(w, r)  THEN w ELSE r
      ELSE IF ~M_amoLTU(w, r) THEN w ELSE r

(* The operand is repeated over the port as often as the address asks for, *)
(* not the size: a half at address 4 is repeated every four bytes.         *)
M_storeData(x) ==
  [i \in 0..7 |->
    IF x.kind = "AMO" THEN M_amoOut(x)[i % 4]
    ELSE IF x.addr % 2 = 1 THEN x.rs2[0]
    ELSE IF x.addr % 4 >= 2 THEN x.rs2[i % 2]
    ELSE IF x.addr >= 4 THEN x.rs2[i % 4]
    ELSE x.rs2[i]]
M_storeMask(x) ==
  IF x.size = 1 THEN {x.addr}
  ELSE IF x.size = 2 THEN {2 * (x.addr \div 2), 2 * (x.addr \div 2) + 1}
  ELSE IF x.size = 4 THEN IF x.addr >= 4 THEN 4..7 ELSE 0..3
  ELSE 0..7

M_addressReserved(x) == x.addr = MM_reservedAddress
M_scWriteable(x)     == M_addressReserved(x) /\ ~MM_reservedChanged
M_storeEnable(x)     == x.kind \in {"STORE", "AMO"} \/ (x.kind = "SC" /\ M_scWriteable(x))
DMemWMask(x)         == IF M_storeEnable(x) THEN M_storeMask(x) ELSE {}

Written(x) ==
  [i \in 0..7 |-> IF i \in DMemWMask(x) THEN M_storeData(x)[i] ELSE DMem[i]]
M_wbData(x) ==
  IF x.kind = "SC"
  THEN [i \in 0..7 |-> IF i >= 4 THEN BASE - 1 ELSE IF i = 0 /\ M_scWriteable(x) THEN 1 ELSE 0]
  ELSE M_Mdata(x)

PlainStores(x)  == x.kind = "STORE" /\ M_addressReserved(x)      \* mutant of BreaksIt
BreaksIt(x) == x.kind \in {"STORE", "AMO", "SC"} /\ M_addressReserved(x)

(* Not in the code: what the LR has read is kept until the reservation is  *)
(* gone, or an access of another size has changed the word from another    *)
(* address, which the comparison of the addresses does not see.            *)
ReservedWord == IF MM_reservedAddress >= 4 THEN 4..7 ELSE 0..3
Unseen(x) == DMemWMask(x) \cap ReservedWord # {} /\ ~M_addressReserved(x)
Forget(x) ==
  loaded' = IF x.kind = "LR" THEN M_memWord(x)
            ELSE IF MM_reservedChanged' \/ Unseen(x) THEN NoWord ELSE loaded

LeaveStage ==
  /\ EM_access.kind # "nop"
  /\ DMem' = Written(EM_access)
  /\ IF EM_access.kind = "LR" THEN MM_reservedAddress' = EM_access.addr /\ MM_reservedChanged' = FALSE
     ELSE /\ MM_reservedChanged' = (MM_reservedChanged \/ BreaksIt(EM_access))
          /\ UNCHANGED MM_reservedAddress
  /\ Forget(EM_access)
  /\ EM_access' = Nop
EnterStage ==
  /\ EM_access.kind = "nop" /\ EM_access' \in Access
  /\ UNCHANGED <<DMem, MM_reservedAddress, MM_reservedChanged, loaded>>

LoadStoreNext == EnterStage \/ LeaveStage
LoadStoreSpec == LoadStoreInit /\ [][LoadStoreNext]_loadStoreVars
-----------------------------------------------------------------------------
(* The instruction set: memory is bytes, the lowest first.                 *)
At(a, n) == [i \in 0..n-1 |-> DMem[a+i]]
SignedOf(w) == Value(w) - IF Top(w[3]) THEN BASE * (BASE * (BASE * BASE)) ELSE 0
AmoSpecified(op, w, r) ==
  IF op = "MIN"       THEN IF SignedOf(w) <= SignedOf(r) THEN w ELSE r
  ELSE IF op = "MAX"  THEN IF SignedOf(w) >= SignedOf(r) THEN w ELSE r
  ELSE IF op = "MINU" THEN IF Value(w) <= Value(r) THEN w ELSE r
  ELSE IF op = "MAXU" THEN IF Value(w) >= Value(r) THEN w ELSE r
  ELSE IF op = "ADD"  THEN Bytes(Value(w) + Value(r))
  ELSE IF op = "SWAP" THEN r
  ELSE IF op = "XOR"  THEN [i \in 0..3 |-> ByteXor(w[i], r[i])]
  ELSE IF op = "OR"   THEN [i \in 0..3 |-> ByteOr(w[i], r[i])]
  ELSE [i \in 0..3 |-> ByteAnd(w[i], r[i])]
MemorySpecified(x) ==
  LET new == IF x.kind = "AMO" THEN AmoSpecified(x.amo, At(x.addr, 4), Low(x.rs2)) ELSE x.rs2
  IN  [i \in 0..7 |-> IF M_storeEnable(x) /\ i - x.addr \in 0..x.size-1
                      THEN new[i - x.addr] ELSE DMem[i]]
LoadSpecified(x) ==
  LET read == At(x.addr, x.size) IN
  [i \in 0..7 |-> IF i < x.size THEN read[i]
                  ELSE IF i >= 4 THEN BASE - 1
                  ELSE Fill(~x.unsigned /\ Top(read[x.size-1]))]

(* Each access changes the bytes it names and no others, to what the       *)
(* instruction set says, and gives the register the bytes read, extended   *)
(* by their sign and to the width of the register file                     *)
(* (MemoryUnit.v 53-57, 84-190, 197-227).                                  *)
AccessExact ==
  /\ EM_access.kind # "nop" => Written(EM_access) = MemorySpecified(EM_access)
  /\ EM_access.kind \in {"LOAD", "LR", "AMO"} => M_wbData(EM_access) = LoadSpecified(EM_access)

(* An SC that succeeds finds the word as the LR has read it, unless an     *)
(* access that starts at another byte has changed it ("Store Conditional   *)
(* succeeds if the address is reserved and hasent been modified",          *)
(* MemoryUnit.v:66).                                                       *)
ScFindsLoaded ==
  EM_access.kind = "SC" /\ M_scWriteable(EM_access) => loaded \in {NoWord, M_memWord(EM_access)}
=============================================================================
