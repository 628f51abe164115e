------------------------------ MODULE TxFormat ------------------------------
(***************************************************************************)
(* What a NEO N3 transaction means, written down without looking at how    *)
(* the application reads it: the bytes that encode a transaction, and the  *)
(* pairs an owner has to see of it.                                        *)
(*                                                                         *)
(* A content is                                                            *)
(*   header      the bytes of each field                                   *)
(*   signers     a sequence of [account, scope, contracts, groups, widths] *)
(*   attributes  how many HIGH_PRIORITY attributes it has                  *)
(*   does        what its script does                                      *)
(*   widths      in how many bytes each count is written, which may be     *)
(*               more than it needs                                        *)
(* and a script                                                            *)
(*   [kind |-> "transfer", push, dst, src, asset]                          *)
(*   [kind |-> "vote", key, voter], where no key retracts the vote         *)
(*   [kind |-> "other", code]                                              *)
(* The amount of a transfer is what its push instruction pushes.           *)
(***************************************************************************)
EXTENDS NbglReview

\* A number below the limit, on its own or behind a mark that tells its width.
Widths            == {1, 3, 5, 9}
CountLimit(width) == IF width = 1 THEN 253 ELSE 65536
Mark(width)       == IF width = 3 THEN 253 ELSE IF width = 5 THEN 254 ELSE 255
Count(n, width)   ==
    IF width = 1 THEN << n >>
    ELSE << Mark(width), n % 256, n \div 256 >> \o [k \in 1 .. width - 3 |-> 0]

PushHashOf(hash) == PushHash \o hash

ScriptOf(does) ==
    CASE does.kind = "transfer" ->
            << PUSHNULL >> \o does.push \o PushHashOf(does.dst) \o PushHashOf(does.src)
                \o TransferCall \o (IF does.asset = "NEO" THEN NeoHash ELSE GasHash) \o SysCall
      [] does.kind = "vote" ->
            (IF does.key = << >> THEN << PUSHNULL >> ELSE PushKey \o does.key)
                \o PushHashOf(does.voter) \o VoteCall \o NeoHash \o SysCall
      [] does.kind = "other" -> does.code

Listed(s, l)    == IF l = "contracts" THEN s.contracts ELSE s.groups
ListBytes(s, l) ==
    IF HasFlag(l, s.scope) THEN Count(Len(Listed(s, l)), s.widths[l]) \o FlattenSeq(Listed(s, l)) ELSE << >>
SignerBytes(s)  == s.account \o << s.scope >> \o ListBytes(s, "contracts") \o ListBytes(s, "groups")

Encode(c) ==
    FlattenSeq([k \in DOMAIN HeaderFields |-> c.header[HeaderFields[k]]])
        \o Count(Len(c.signers), c.widths.signers)
        \o FlattenSeq([s \in DOMAIN c.signers |-> SignerBytes(c.signers[s])])
        \o Count(c.attributes, c.widths.attributes) \o [a \in 1 .. c.attributes |-> HIGH_PRIORITY]
        \o Count(Len(ScriptOf(c.does)), c.widths.script) \o ScriptOf(c.does)

\* What a content may be made of.
Hashes == [1 .. UINT160_LEN -> Byte]
Points == [1 .. ECPOINT_LEN -> Byte]
Pushes == {<< opcode >> : opcode \in PUSH0 .. PUSH16}
              \cup {push \in Bytes : /\ push # << >> /\ push[1] < Len(IntWidths)
                                     /\ Len(push) = 1 + IntWidths[push[1] + 1]}

Transfers == [kind : {"transfer"}, push : Pushes, dst : Hashes, src : Hashes, asset : {"NEO", "GAS"}]
Votes     == [kind : {"vote"}, key : {<< >>} \cup {key \in Points : key[1] \in {2, 3}}, voter : Hashes]

\* The transfers and votes whose operands can be found in a script.
FoundIn(code) ==
    LET operands == {SubSeq(code, from, to) : from \in 1 .. Len(code) + 1, to \in 0 .. Len(code)}
        hashes   == operands \cap Hashes
    IN  [kind : {"transfer"}, push : operands \cap Pushes, dst : hashes, src : hashes, asset : {"NEO", "GAS"}]
            \cup {vote \in [kind : {"vote"}, key : operands, voter : hashes] : vote \in Votes}
IsOther(does) ==
    does.kind = "other" /\ does.code \in Bytes /\ \A d \in FoundIn(does.code) : ScriptOf(d) # does.code

\* Counts fit the way they are written, and without the flag of a list there are no
\* items of it.
Fits(n, width) == n < CountLimit(width)
Signers == [account : Hashes, scope : Byte, contracts : Seq(Hashes), groups : Seq(Points),
            widths : [Lists -> Widths]]
IsSigner(s) ==
    /\ s \in Signers
    /\ \A l \in Lists : /\ Fits(Len(Listed(s, l)), s.widths[l])
                        /\ ~HasFlag(l, s.scope) => Listed(s, l) = << >>

IsContent(c) ==
    /\ DOMAIN c.header = {HeaderFields[k] : k \in DOMAIN HeaderFields}
    /\ \A f \in DOMAIN c.header : c.header[f] \in [1 .. Width(f) -> Byte]
    /\ c.signers \in Seq(Signers) /\ \A s \in DOMAIN c.signers : IsSigner(c.signers[s])
    /\ c.attributes \in Nat
    /\ c.does \in Transfers \cup Votes \/ IsOther(c.does)
    /\ c.widths \in [signers : Widths, attributes : Widths, script : Widths]
    /\ Fits(Len(c.signers), c.widths.signers) /\ Fits(c.attributes, c.widths.attributes)
    /\ Fits(Len(ScriptOf(c.does)), c.widths.script)

\* What the application says it signs: one or two distinct signers, few contracts
\* and groups, one attribute at most.
Supported(c) ==
    /\ \A f \in DOMAIN c.header : HeaderAccepted(f, c.header[f])
    /\ Len(c.signers) \in 1 .. MaxSigners
    /\ \A r, s \in DOMAIN c.signers : c.signers[r].account = c.signers[s].account => r = s
    /\ \A s \in DOMAIN c.signers :
          /\ c.signers[s].scope <= 128
          /\ Len(c.signers[s].contracts) <= MaxContracts
          /\ Len(c.signers[s].groups) <= MaxGroups
    /\ c.attributes <= 1
    /\ ScriptOf(c.does) # << >>

---------------------------------------------------------------------------
(* The review of a content.                                                *)

\* The virtual machine pushes signed numbers.
Pushed(push) ==
    IF push[1] >= PUSH0 THEN ZeroExtended(<< push[1] - PUSH0 >>) ELSE SignExtended(Tail(push))

ExpectedTitle(c) ==
    CASE c.does.kind = "vote"     -> IF c.does.key = << >> THEN "retract vote" ELSE "cast vote"
      [] c.does.kind = "transfer" -> IF c.does.asset = "NEO" THEN "send NEO" ELSE "send GAS"
      [] c.does.kind = "other"    -> "sign script"

ExpectedOfSigner(c, s) ==
    LET signer == c.signers[s]
        Items(name, items) ==
            [k \in DOMAIN items |-> Pair(<< name, k, Len(items) >>, items[k])]
    IN  << Pair(<< "Signer" >>, << s, Len(c.signers) >>),
           Pair(<< "Account" >>, signer.account),
           Pair(<< "Scope" >>, ScopeText(signer.scope)) >>
        \o Items("Contract", signer.contracts) \o Items("Group", signer.groups)

ExpectedPairs(c) ==
    (IF c.does.kind = "transfer"
     THEN << Pair(<< "To" >>, c.does.dst),
             Pair(<< "Token amount", c.does.asset = "NEO" >>, Pushed(c.does.push)) >>
     ELSE << >>)
    \o << Pair(<< "Target network" >>, << >>),
          Pair(<< "System fee" >>, c.header["system_fee"]),
          Pair(<< "Network fee" >>, c.header["network_fee"]),
          Pair(<< "Total fees" >>, c.header["network_fee"] \o c.header["system_fee"]),
          Pair(<< "Valid until height" >>, c.header["valid_until_block"]),
          Pair(<< "Script hash" >>, ScriptOf(c.does)) >>
    \o FlattenSeq([s \in DOMAIN c.signers |-> ExpectedOfSigner(c, s)])
=============================================================================
