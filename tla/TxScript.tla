------------------------------ MODULE TxScript ------------------------------
(***************************************************************************)
(* What the two script matchers of src/transaction/tx_utils.c recognise in *)
(* the script of a transaction, and what they leave in the transaction     *)
(* when they give up on the way.                                           *)
(*                                                                         *)
(* A script is a sequence of bytes.  The lengths of its operands and the   *)
(* fixed byte sequences around them are constants, so that TLC may take    *)
(* short ones; amounts are kept as the bytes of a long integer, the least  *)
(* significant first.                                                      *)
(***************************************************************************)
EXTENDS Integers, Sequences

CONSTANTS
    UINT160_LEN,    \* 20
    ECPOINT_LEN,    \* 33
    IntWidths,      \* operands of PUSHINT8 to PUSHINT64: << 1, 2, 4, 8 >>
    TransferCall,   \* what calls 'transfer', up to the contract's hash
    VoteCall,       \* what calls 'vote', up to the contract's hash
    NeoHash,        \* neo_script_hash
    GasHash,        \* gas_script_hash
    SysCall         \* the system call that ends the script

Byte  == 0 .. 255
Bytes == Seq(Byte)

PUSHNULL  == 11
PUSHDATA1 == 12
PUSH0     == 16
PUSH16    == 32

\* The opcodes that push an operand begin at 0 and end before PUSHNULL; the hashes of
\* the two contracts are hashes, and not the same.
ASSUME ScriptAssumption ==
    /\ UINT160_LEN \in Nat \ {0}
    /\ ECPOINT_LEN \in Nat \ {0}
    /\ IntWidths \in Seq(Nat \ {0}) /\ Len(IntWidths) \in 1 .. PUSHNULL
    /\ \A s \in {TransferCall, VoteCall, NeoHash, GasHash, SysCall} : s \in Bytes /\ s # << >>
    /\ Len(NeoHash) = UINT160_LEN /\ Len(GasHash) = UINT160_LEN /\ NeoHash # GasHash

\* PUSHDATA1 of a script hash, and the two bytes in front of a vote's public key.
PushHash == << PUSHDATA1, 20 >>
PushKey  == << PUSHDATA1, 33 >>

\* The bytes at an offset, and whether given bytes are there.
At(s, offset, n)         == SubSeq(s, offset + 1, offset + n)
Has(s, offset, bytes)    == offset + Len(bytes) <= Len(s) /\ At(s, offset, Len(bytes)) = bytes
EndsWith(s, offset, end) == Has(s, offset, end) /\ offset + Len(end) = Len(s)

\* A script hash pushed at an offset.
HasHash(s, offset) == Has(s, offset, PushHash) /\ offset + 2 + UINT160_LEN <= Len(s)

---------------------------------------------------------------------------
(* try_parse_transfer_script                                               *)

LongLen == IntWidths[Len(IntWidths)]

\* A number of some bytes in a long integer, the new bytes all equal to `fill`.
Extend(bytes, fill)  == [k \in 1 .. LongLen |-> IF k <= Len(bytes) THEN bytes[k] ELSE fill]
IsNegative(bytes)    == bytes[Len(bytes)] >= 128
SignExtended(bytes)  == Extend(bytes, IF IsNegative(bytes) THEN 255 ELSE 0)
ZeroExtended(bytes)  == Extend(bytes, 0)

PushesSmall(s) == Len(s) >= 2 /\ s[2] \in PUSH0 .. PUSH16
CanReadInt(s)  == 2 + IntWidths[s[2] + 1] <= Len(s)
PushesInt(s)   == Len(s) >= 2 /\ s[2] < Len(IntWidths) /\ CanReadInt(s)

\* PUSHNULL, then the amount.
HasAmount(s) == Len(s) >= 1 /\ s[1] = PUSHNULL /\ (PushesSmall(s) \/ PushesInt(s))
AmountLen(s) == IF PushesSmall(s) THEN 0 ELSE IntWidths[s[2] + 1]

\* PUSHINT8 is read as a signed byte but taken as an unsigned one.
Amount(s) ==
    IF PushesSmall(s)
    THEN ZeroExtended(<< s[2] - PUSH0 >>)
    ELSE IF s[2] = 0
    THEN ZeroExtended(At(s, 2, AmountLen(s)))
    ELSE SignExtended(At(s, 2, AmountLen(s)))

\* The offsets of the destination, the source and the call.
DestinationAt(s) == 2 + AmountLen(s) + 2
SourceAt(s)      == DestinationAt(s) + UINT160_LEN + 2
TransferAt(s)    == SourceAt(s) + UINT160_LEN

HasDestination(s) == HasAmount(s) /\ HasHash(s, DestinationAt(s) - 2)
HasSource(s)      == HasDestination(s) /\ HasHash(s, SourceAt(s) - 2)
TransfersNeo(s)   == HasSource(s) /\ Has(s, TransferAt(s), TransferCall \o NeoHash)
IsTransferOf(s, asset) ==
    HasSource(s) /\ EndsWith(s, TransferAt(s), TransferCall \o asset \o SysCall)

MatchTransfer(s, t) ==
    [t EXCEPT !.amount = IF HasAmount(s) THEN Amount(s) ELSE @,
              !.dst = IF HasDestination(s) THEN At(s, DestinationAt(s), UINT160_LEN) ELSE @,
              !.is_neo = IF TransfersNeo(s) THEN TRUE ELSE @,
              !.is_system_asset_transfer =
                  IF IsTransferOf(s, NeoHash) \/ IsTransferOf(s, GasHash) THEN TRUE ELSE @]

---------------------------------------------------------------------------
(* try_parse_vote_script                                                   *)

\* PUSHNULL where the public key would be retracts a vote.
Retracts(s) == Len(s) >= 1 /\ s[1] = PUSHNULL
HasKey(s) ==
    /\ Has(s, 0, PushKey)
    /\ 2 + ECPOINT_LEN <= Len(s)
    /\ s[3] \in {2, 3}

VoterAt(s) == IF Retracts(s) THEN 3 ELSE 2 + ECPOINT_LEN + 2

IsVote(s) ==
    /\ Retracts(s) \/ HasKey(s)
    /\ HasHash(s, VoterAt(s) - 2)
    /\ EndsWith(s, VoterAt(s) + UINT160_LEN, VoteCall \o NeoHash \o SysCall)

MatchVote(s, t) ==
    [t EXCEPT !.is_remove_vote = IF Retracts(s) THEN TRUE ELSE IF HasKey(s) THEN FALSE ELSE @,
              !.vote_to = IF HasKey(s) THEN At(s, 2, ECPOINT_LEN) ELSE @,
              !.is_vote_script = IF IsVote(s) THEN TRUE ELSE @]

---------------------------------------------------------------------------

\* What transaction_deserialize does with a script: a vote is only looked for
\* when the transaction is not marked as a transfer.
MatchScript(s, t) ==
    LET t1 == MatchTransfer(s, t)
    IN  IF t1.is_system_asset_transfer THEN t1 ELSE MatchVote(s, t1)
=============================================================================
