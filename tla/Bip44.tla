------------------------------- MODULE Bip44 -------------------------------
(***************************************************************************)
(* buffer_read_and_validate_bip44 of src/common/bip44.c: the derivation    *)
(* path a command carries, checked level by level while it is copied into  *)
(* G_context.bip44_path.                                                   *)
(*                                                                         *)
(* A level is a 32-bit word; its top bit (hardened) and its low 31 bits    *)
(* are kept apart, so that every comparison of the code with a constant    *)
(* of the form 0x80000000 + n is one with the pair (TRUE, n).              *)
(***************************************************************************)
EXTENDS Naturals, Sequences

Word        == [hard : BOOLEAN, index : Nat]
Hardened(n) == [hard |-> TRUE,  index |-> n]
Plain(n)    == [hard |-> FALSE, index |-> n]

BIP44_PATH_LEN      == 5
BIP44_PURPOSE       == Hardened(44)
BIP44_COIN_TYPE_NEO == Hardened(888)

Levels   == 1 .. BIP44_PATH_LEN
Path     == [Levels -> Word]
ZeroPath == [i \in Levels |-> Plain(0)]

\* The range check of each level; `bip_level` is the word just read.
LevelAccepted(i, bip_level) ==
    \/ i = 1 /\ bip_level = BIP44_PURPOSE
    \/ i = 2 /\ bip_level = BIP44_COIN_TYPE_NEO
    \/ i = 3 /\ bip_level.hard /\ bip_level.index <= 16
    \/ i = 4 /\ ~bip_level.hard /\ bip_level.index \in {0, 1}
    \/ i = 5 /\ ~bip_level.hard /\ bip_level.index < 5000

\* A data field is the sequence of the whole words it holds.
LongEnough(data) == Len(data) >= BIP44_PATH_LEN

\* i is the first level that fails its check.
FirstRefused(data, i) ==
    /\ ~LevelAccepted(i, data[i])
    /\ \A j \in Levels : j < i => LevelAccepted(j, data[j])

PathAccepted(data) ==
    LongEnough(data) /\ \A i \in Levels : LevelAccepted(i, data[i])

LevelError(i, bip_level) ==
    CASE i = 1 -> "SW_BIP44_BAD_PURPOSE"
      [] i = 2 -> "SW_BIP44_BAD_COIN_TYPE"
      [] i = 3 -> IF bip_level.hard
                  THEN "SW_BIP44_BAD_ACCOUNT" ELSE "SW_BIP44_ACCOUNT_NOT_HARDENED"
      [] i = 4 -> "SW_BIP44_BAD_CHANGE"
      [] i = 5 -> "SW_BIP44_BAD_ADDRESS"

\* The status word the caller answers with when the path is refused.
PathError(data) ==
    IF LongEnough(data)
    THEN LET i == CHOOSE k \in Levels : FirstRefused(data, k) IN LevelError(i, data[i])
    ELSE "SWO_WRONG_DATA_LENGTH"

\* What is left in bip44path_out: the levels that passed before the first one
\* that did not, over the zeroes the caller put there.
PathRead(data) ==
    [i \in Levels |->
        IF LongEnough(data) /\ \A j \in 1 .. i : LevelAccepted(j, data[j])
        THEN data[i] ELSE ZeroPath[i]]
=============================================================================
