-------------------------- MODULE InstructionStream --------------------------
(***************************************************************************)
(* What the fetch unit promises to decode: one instruction of the program  *)
(* after another, each whole and each once, from the address it is told to *)
(* go on at.  Cache lines, misses and instructions that straddle two lines *)
(* are not visible.                                                        *)
(***************************************************************************)
CONSTANTS Address, ResetVector,
          InstrAt(_, _),    \* the instruction at an address of a memory
          Behind(_, _),     \* the address behind it
          Nothing,          \* decode holds no instruction
          Stay, Sequential  \* answers to decode: "the same again", "the next"

VARIABLES pc,       \* where the program goes on
          out,      \* what decode holds
          answer,   \* what was settled at the last edge: Stay, Sequential, or
                    \* the address of a jump
          code      \* main memory

isVars == <<pc, out, answer, code>>

Init == pc = ResetVector /\ out = Nothing /\ answer = Stay

(* Decode, or fetch itself, is not done. *)
Wait == answer' = Stay /\ UNCHANGED <<pc, out>>

(* Decode has passed its instruction on and gets the next one. *)
Deliver == /\ answer' = Sequential
           /\ out' = InstrAt(code, pc)
           /\ pc' = Behind(code, pc)

(* A prediction or a correction is followed at once; what was fetched in   *)
(* between is never seen.                                                  *)
Jump(target) == answer' = target /\ out' = Nothing /\ pc' = target

Reset == answer' = ResetVector /\ out' = Nothing /\ pc' = ResetVector

Next == /\ UNCHANGED code
        /\ Wait \/ Deliver \/ (\E target \in Address : Jump(target)) \/ Reset

Spec == Init /\ [][Next]_isVars
=============================================================================
