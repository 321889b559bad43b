------------------------------- MODULE Words -------------------------------
(***************************************************************************)
(* The unsigned integers of the program: uint32_t, which carries the       *)
(* sequence numbers and the counters of stats_c, and uint64_t, which       *)
(* carries the time stamps.  The widths are parameters so that TLC meets   *)
(* the wrap-around within a few messages; in the program M32 = 2^32 and    *)
(* M64 = 2^64.                                                             *)
(***************************************************************************)
EXTENDS Integers

CONSTANTS
    M32,    \* how many values a uint32_t has
    M64     \* how many values a uint64_t has

ASSUME WidthAssumption ==
    /\ M32 \in Nat /\ M32 > 2
    /\ M64 \in Nat /\ M64 > 1

U32 == 0 .. M32 - 1
U64 == 0 .. M64 - 1

(* A value of 0 .. 2 * M32 - 1 or of -M32 .. -1 back into the word: one    *)
(* addition or one subtraction of two words overshoots by at most M32.     *)
Wrap32(n) == IF n < 0 THEN n + M32 ELSE IF n < M32 THEN n ELSE n - M32
Wrap64(n) == IF n < 0 THEN n + M64 ELSE IF n < M64 THEN n ELSE n - M64

Add32(a, b) == Wrap32(a + b)
Sub32(a, b) == Wrap32(a - b)
Sub64(a, b) == Wrap64(a - b)

(* The conversion from unsigned long to uint32_t keeps the low 32 bits.    *)
ToU32(n) == n % M32
=============================================================================
