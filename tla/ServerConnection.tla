-------------------------- MODULE ServerConnection --------------------------
(***************************************************************************)
(* How the client finds the end of an answer (src/pc_course_client/Utils/  *)
(* ServerConnection.cpp, Read): TCP hands over the bytes in blocks of any  *)
(* size, each is appended to input_message, and the search for the         *)
(* delimiter goes on a little before the place where the block begins.     *)
(*                                                                         *)
(* An answer is Size bytes and the delimiter; what the bytes are does not  *)
(* matter here.  Positions count from 0, as in QByteArray.                 *)
(***************************************************************************)
EXTENDS Integers

CONSTANTS
    Size,           \* the bytes of an answer before its delimiter
    Word            \* how many values a std::size_t has

(* The delimiter is "\r\n".                                                *)
Delim == 2
Total == Size + Delim

ASSUME SizeAssumption == Size \in Nat \ {0}
ASSUME WordAssumption == Word \in Nat /\ Word > 2 * Total

(* The difference of two numbers of type std::size_t, and what it becomes  *)
(* as the int that indexOf takes.                                          *)
Minus(a, b) == IF a >= b THEN a - b ELSE a - b + Word
AsInt(n) == IF 2 * n >= Word THEN n - Word ELSE n

(* Mutant: the search begins where the new block begins.                   *)
SearchStartAtBlock(pre_size) == pre_size

(* Where the search begins when pre_size bytes were there already.         *)
SearchStart(pre_size) ==
    IF pre_size >= Delim - 1
      THEN AsInt(Minus(Minus(pre_size, Delim), 1))
      ELSE 0

(* QByteArray::indexOf over size bytes: a negative start counts from the   *)
(* end, and the delimiter must fit in behind the start.                    *)
IsFound(from, size) ==
    LET start == IF from < 0 THEN from + size ELSE from
    IN  start + Delim <= size /\ start <= Size /\ Total <= size

(* The slot of readyRead finds the end of the answer when the bytes grow   *)
(* from pre_size to size.                                                  *)
Complete(pre_size, size) == IsFound(SearchStart(pre_size), size)
=============================================================================
