---------------------------- MODULE Deserialize ----------------------------
(***************************************************************************)
(* transaction_deserialize (src/transaction/deserialize.c): the bytes of   *)
(* an upload are read one field at a time into a transaction that was not  *)
(* cleared before, and the accounts, contracts, groups and the script stay *)
(* where they are: the transaction points at them.                         *)
(*                                                                         *)
(* The parser runs to its end before anything else happens; a step here is *)
(* one field, so that what a failure leaves behind is there to be seen.    *)
(* A pointer is an offset into the upload, integers are kept as their      *)
(* bytes, and the codes of the errors are one but for that of an attribute *)
(* that is there twice.                                                    *)
(***************************************************************************)
EXTENDS TxScript

CONSTANTS
    IntLen,         \* 4, the bytes of an uint32_t
    MaxLen,         \* MAX_TRANSACTION_LEN
    MaxSigners,     \* MAX_TX_SIGNERS
    MaxContracts,   \* MAX_SIGNER_ALLOWED_CONTRACTS
    MaxGroups,      \* MAX_SIGNER_ALLOWED_GROUPS
    MaxAttributes   \* MAX_ATTRIBUTES

\* The sizes of a transaction are kept in bytes.
ASSUME LimitsAssumption ==
    /\ IntLen \in Nat \ {0} /\ MaxSigners \in Nat \ {0} /\ MaxAttributes \in Nat \ {0}
    /\ MaxLen \in Nat /\ MaxContracts \in Nat /\ MaxGroups \in Nat
    /\ \A limit \in {MaxSigners, MaxContracts, MaxGroups, MaxAttributes} : limit <= 255

HIGH_PRIORITY == 1

VARIABLES
    raw,        \* the upload, buf->ptr up to buf->size
    tx,         \* the transaction it is read into
    pc,         \* what to read next, or "done"
    offset,     \* buf->offset
    i,          \* the header field, the signer or the attribute
    list,       \* the list of the signer
    j,          \* the item of the list
    listed,     \* var_int_length: how many items it has
    status      \* what the last parse returned

parser == << pc, offset, i, list, j, listed, status >>

---------------------------------------------------------------------------
(* The fields.                                                             *)

HeaderFields == << "version", "nonce", "system_fee", "network_fee", "valid_until_block" >>
Width(f) ==
    IF f = "version" THEN 1 ELSE IF f \in {"system_fee", "network_fee"} THEN LongLen ELSE IntLen

\* Versions above 0 and negative fees are refused.
HeaderAccepted(f, bytes) ==
    /\ f = "version" => bytes = << 0 >>
    /\ f \in {"system_fee", "network_fee"} => ~IsNegative(bytes)

\* CUSTOM_CONTRACTS and CUSTOM_GROUPS; GLOBAL goes with no other flag.
HasFlag(l, scope)    == (scope \div (IF l = "contracts" THEN 16 ELSE 32)) % 2 = 1
ScopeAccepted(scope) == scope <= 128

\* allowed_contracts and allowed_groups of a signer.
Lists      == {"contracts", "groups"}
Limit(l)   == IF l = "contracts" THEN MaxContracts ELSE MaxGroups
ItemLen(l) == IF l = "contracts" THEN UINT160_LEN ELSE ECPOINT_LEN

EmptySigner ==
    [account |-> 0, scope |-> 0, size |-> [l \in Lists |-> 0],
     allowed |-> [l \in Lists |-> [k \in 1 .. Limit(l) |-> 0]]]
EmptyTx ==
    [header |-> [f \in {HeaderFields[k] : k \in DOMAIN HeaderFields} |-> << >>],
     signers |-> [s \in 1 .. MaxSigners |-> EmptySigner], signers_size |-> 0,
     attributes |-> [a \in 1 .. MaxAttributes |-> 0], attributes_size |-> 0,
     script |-> 0, script_size |-> 0, amount |-> << >>, dst |-> << >>, vote_to |-> << >>,
     is_system_asset_transfer |-> FALSE, is_neo |-> FALSE,
     is_vote_script |-> FALSE, is_remove_vote |-> FALSE]

---------------------------------------------------------------------------
(* Reading: app_buffer.c, and varint_read, which belongs to the SDK.       *)

CanRead(n) == offset + n <= Len(raw)
Ahead(n)   == At(raw, offset, n)
OneByte    == raw[offset + 1]

\* A number below 253 is its own byte; others are two, four or eight bytes behind
\* a mark, and so may small ones be.
VarIntLen == IF OneByte < 253 THEN 1 ELSE IF OneByte = 253 THEN 3 ELSE IF OneByte = 254 THEN 5 ELSE 9
HasVarInt == CanRead(1) /\ CanRead(VarIntLen)

\* Fault: a count is narrowed to a byte before it is compared with its limit.
VarIntNarrowed == IF VarIntLen = 1 THEN OneByte ELSE raw[offset + 2]

\* Numbers of more than two bytes are all alike to the parser.
TooBig == 65536
VarInt ==
    IF VarIntLen = 1
    THEN OneByte
    ELSE IF \E k \in 4 .. VarIntLen : raw[offset + k] # 0
    THEN TooBig
    ELSE raw[offset + 2] + 256 * raw[offset + 3]

---------------------------------------------------------------------------
(* The steps.  GoOn moves to the next thing to read, Return ends the parse *)
(* and the life of its local variables.                                    *)

GoOn(next, length) == pc' = next /\ offset' = offset + length /\ UNCHANGED << raw, status >>

NoItems == list' = "contracts" /\ j' = 0 /\ listed' = 0

Return(result) ==
    /\ pc' = "done" /\ status' = result
    /\ offset' = 0 /\ i' = 0 /\ NoItems
    /\ UNCHANGED raw

Fail == Return("error") /\ UNCHANGED tx

\* The parse of the upload `data` begins.
Begin(data) ==
    /\ raw' = data
    /\ pc' = "header" /\ status' = "none"
    /\ offset' = 0 /\ i' = 1 /\ NoItems
    /\ UNCHANGED tx

\* A number that is not there is stored as zero.
ReadHeader ==
    /\ pc = "header" /\ NoItems
    /\ LET f     == HeaderFields[i]
           bytes == IF CanRead(Width(f)) THEN Ahead(Width(f)) ELSE [k \in 1 .. Width(f) |-> 0]
       IN  /\ tx' = [tx EXCEPT !.header[f] = bytes]
           /\ IF ~CanRead(Width(f)) \/ ~HeaderAccepted(f, bytes)
              THEN Return("error")
              ELSE IF i = Len(HeaderFields)
              THEN GoOn("signers_length", Width(f)) /\ i' = 0
              ELSE GoOn("header", Width(f)) /\ i' = i + 1

\* Faults: one signer too many is let through, the last contract is not.
SignersAcceptedLoosely(n) == n \in 1 .. MaxSigners + 1
ListAcceptedStrictly(l, n) == n < Limit(l)

SignersAccepted(n) == n \in 1 .. MaxSigners
ListAccepted(l, n) == n <= Limit(l)
ScriptAccepted(n)  == n \in 1 .. 65535

ReadSignersLength ==
    /\ pc = "signers_length" /\ NoItems
    /\ IF HasVarInt /\ SignersAccepted(VarInt)
       THEN tx' = [tx EXCEPT !.signers_size = VarInt] /\ GoOn("account", VarIntLen) /\ i' = 1
       ELSE Fail

\* Among the signers that were read before this one.
AccountKnown(account) == \E s \in 1 .. i - 1 : At(raw, tx.signers[s].account, UINT160_LEN) = account

\* Fault: the pointer is taken when the account was passed.
ReadAccountPassed ==
    /\ pc = "account" /\ NoItems
    /\ tx' = [tx EXCEPT !.signers[i].account = offset + UINT160_LEN]
    /\ IF CanRead(UINT160_LEN) /\ ~AccountKnown(Ahead(UINT160_LEN))
       THEN GoOn("scope", UINT160_LEN) /\ UNCHANGED i
       ELSE Return("error")

ReadAccount ==
    /\ pc = "account" /\ NoItems
    /\ tx' = [tx EXCEPT !.signers[i].account = offset]
    /\ IF CanRead(UINT160_LEN) /\ ~AccountKnown(Ahead(UINT160_LEN))
       THEN GoOn("scope", UINT160_LEN) /\ UNCHANGED i
       ELSE Return("error")

ReadScope ==
    /\ pc = "scope" /\ NoItems
    /\ tx' = IF CanRead(1) THEN [tx EXCEPT !.signers[i].scope = OneByte] ELSE tx
    /\ IF CanRead(1) /\ ScopeAccepted(OneByte)
       THEN GoOn("list", 1) /\ UNCHANGED i
       ELSE Return("error")

\* Past the contracts come the groups, past the groups the next signer.
NextList(length) ==
    /\ j' = 0 /\ listed' = 0
    /\ IF list = "contracts"
       THEN list' = "groups" /\ GoOn("list", length) /\ UNCHANGED i
       ELSE /\ list' = "contracts"
            /\ IF i < tx.signers_size
               THEN GoOn("account", length) /\ i' = i + 1
               ELSE GoOn("attributes_length", length) /\ i' = 0

\* A list is only there, and its length only stored, if the scope has its flag.
ReadListLength ==
    /\ pc = "list"
    /\ IF ~HasFlag(list, tx.signers[i].scope)
       THEN NextList(0) /\ UNCHANGED tx
       ELSE IF HasVarInt /\ ListAccepted(list, VarInt)
       THEN /\ tx' = [tx EXCEPT !.signers[i].size[list] = VarInt]
            /\ IF VarInt = 0
               THEN NextList(VarIntLen)
               ELSE GoOn("item", VarIntLen) /\ j' = 1 /\ listed' = VarInt /\ UNCHANGED << i, list >>
       ELSE Fail

ReadItem ==
    /\ pc = "item"
    /\ tx' = [tx EXCEPT !.signers[i].allowed[list][j] = offset]
    /\ IF ~CanRead(ItemLen(list))
       THEN Return("error")
       ELSE IF j = listed
       THEN NextList(ItemLen(list))
       ELSE GoOn("item", ItemLen(list)) /\ j' = j + 1 /\ UNCHANGED << i, list, listed >>

ReadAttributesLength ==
    /\ pc = "attributes_length" /\ NoItems
    /\ IF HasVarInt /\ VarInt <= MaxAttributes
       THEN /\ tx' = [tx EXCEPT !.attributes_size = VarInt]
            /\ IF VarInt = 0
               THEN GoOn("script", VarIntLen) /\ i' = 0
               ELSE GoOn("attribute", VarIntLen) /\ i' = 1
       ELSE Fail

\* The attributes an earlier attempt left behind are looked at too.
AttributeKnown(type) == \E a \in 1 .. tx.attributes_size : tx.attributes[a] = type

ReadAttribute ==
    /\ pc = "attribute" /\ NoItems
    /\ IF ~CanRead(1) \/ Ahead(1) # << HIGH_PRIORITY >>
       THEN Fail
       ELSE IF AttributeKnown(HIGH_PRIORITY)
       THEN Return("ATTRIBUTES_DUPLICATE_TYPE") /\ UNCHANGED tx
       ELSE /\ tx' = [tx EXCEPT !.attributes[i] = HIGH_PRIORITY]
            /\ IF i = tx.attributes_size
               THEN GoOn("script", 1) /\ i' = 0
               ELSE GoOn("attribute", 1) /\ i' = i + 1

ReadScript ==
    /\ pc = "script" /\ NoItems
    /\ IF ~HasVarInt
       THEN Fail
       ELSE IF ScriptAccepted(VarInt) /\ CanRead(VarIntLen + VarInt)
       THEN /\ tx' = [tx EXCEPT !.script = offset + VarIntLen, !.script_size = VarInt]
            /\ GoOn("match", VarIntLen + VarInt) /\ UNCHANGED i
       ELSE tx' = [tx EXCEPT !.script = offset + VarIntLen] /\ Return("error")

\* Fault: bytes behind the script are let pass.
AnyLength == "PARSING_OK"

\* Whether all the upload was read is only looked at when the script was matched.
Result == IF offset = Len(raw) THEN "PARSING_OK" ELSE "error"

Match ==
    /\ pc = "match"
    /\ tx' = MatchScript(At(raw, tx.script, tx.script_size), tx)
    /\ Return(Result)

Read ==
    \/ ReadHeader
    \/ ReadSignersLength
    \/ ReadAccount
    \/ ReadScope
    \/ ReadListLength
    \/ ReadItem
    \/ ReadAttributesLength
    \/ ReadAttribute
    \/ ReadScript
    \/ Match
=============================================================================
