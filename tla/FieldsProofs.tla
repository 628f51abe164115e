----------------------------- MODULE FieldsProofs -----------------------------
(***************************************************************************)
(* That a transaction under review is its upload, part by part and byte by *)
(* byte, and that nothing of it is left from an attempt to parse before:   *)
(* what such an attempt stored, this one has read again at the same place. *)
(***************************************************************************)
EXTENDS ReviewedOnceProofs

---------------------------------------------------------------------------
(* The shape of a transaction, with its pointers.                          *)

Headers == {HeaderFields[k] : k \in DOMAIN HeaderFields}

Shape(t) ==
    /\ IsTx(t)
    /\ DOMAIN t.header = Headers
    /\ \A s \in 1 .. MaxSigners :
          /\ t.signers[s].account \in Nat
          /\ DOMAIN t.signers[s].allowed = Lists
          /\ \A l \in Lists : t.signers[s].allowed[l] \in [1 .. Limit(l) -> Nat]
    /\ t.script \in Nat /\ t.script_size \in Nat

\* The transaction of a context that was just cleared.
LEMMA EmptyShape == Shape(EmptyTx)
<1>1. IsTx(EmptyTx)
  BY EmptyIsTx
<1>2. EmptyTx.header = [f \in Headers |-> << >>] /\ EmptyTx.script = 0 /\ EmptyTx.script_size = 0
  BY DEF EmptyTx, Headers
<1>3. EmptyTx.signers = [s \in 1 .. MaxSigners |-> EmptySigner]
  BY DEF EmptyTx
<1>4. EmptySigner.account = 0 /\ EmptySigner.allowed = [l \in Lists |-> [k \in 1 .. Limit(l) |-> 0]]
  BY DEF EmptySigner
<1> QED
  BY <1>1, <1>2, <1>3, <1>4 DEF Shape

\* From t to u only this field, or this field of this signer, was written.
OnlyField(t, u, f) == DOMAIN u = TxFields /\ \A g \in TxFields \ {f} : u[g] = t[g]
OnlySigner(t, u, s, f) ==
    /\ OnlyField(t, u, "signers")
    /\ DOMAIN u.signers = 1 .. MaxSigners /\ \A r \in 1 .. MaxSigners \ {s} : u.signers[r] = t.signers[r]
    /\ DOMAIN u.signers[s] = SignerFields
    /\ \A g \in SignerFields \ {f} : u.signers[s][g] = t.signers[s][g]

\* The shape stays if what was written has its own.
LEMMA FieldShape ==
    ASSUME NEW t, NEW u, NEW f \in TxFields \ {"signers"}, Shape(t), OnlyField(t, u, f),
           f = "header" => DOMAIN u.header = Headers,
           f = "signers_size" => u.signers_size \in 0 .. MaxSigners,
           f = "attributes_size" => u.attributes_size \in 0 .. MaxAttributes,
           f = "script" => u.script \in Nat,
           f = "script_size" => u.script_size \in Nat
    PROVE  Shape(u)
  BY DEF Shape, IsTx, TxFields, OnlyField

\* The same of a signer.
LEMMA SignerShape ==
    ASSUME NEW t, NEW u, NEW s \in 1 .. MaxSigners, NEW f \in SignerFields,
           Shape(t), OnlySigner(t, u, s, f),
           f = "account" => u.signers[s].account \in Nat,
           f = "size" => /\ DOMAIN u.signers[s].size = Lists
                         /\ \A l \in Lists : u.signers[s].size[l] \in 0 .. Limit(l),
           f = "allowed" => /\ DOMAIN u.signers[s].allowed = Lists
                            /\ \A l \in Lists : u.signers[s].allowed[l] \in [1 .. Limit(l) -> Nat]
    PROVE  Shape(u)
<1>1. {"header", "signers_size", "attributes_size", "script", "script_size"} \subseteq TxFields \ {"signers"}
      /\ {"account", "scope", "size", "allowed"} = SignerFields
  BY DEF TxFields, SignerFields
<1>2. ASSUME NEW r \in 1 .. MaxSigners
      PROVE  /\ DOMAIN u.signers[r] = SignerFields /\ DOMAIN u.signers[r].size = Lists
             /\ \A l \in Lists : u.signers[r].size[l] \in 0 .. Limit(l)
             /\ u.signers[r].account \in Nat
             /\ DOMAIN u.signers[r].allowed = Lists
             /\ \A l \in Lists : u.signers[r].allowed[l] \in [1 .. Limit(l) -> Nat]
  <2>1. CASE r # s
    BY <2>1 DEF Shape, IsTx, OnlySigner
  <2>2. CASE r = s
    BY <1>1, <2>2 DEF Shape, IsTx, OnlySigner
  <2> QED
    BY <2>1, <2>2
<1> QED
  BY <1>1, <1>2 DEF Shape, IsTx, OnlySigner, OnlyField

\* What the matchers write is no part of an upload.
LEMMA MatchWrites ==
    ASSUME NEW t, NEW script, Shape(t)
    PROVE  LET u == MatchScript(script, t)
           IN  Shape(u) /\ \A g \in TxFields \ MatchFields : u[g] = t[g]
<1>1. ASSUME NEW u, Shape(u), NEW v1, NEW v2, NEW v3, NEW v4
      PROVE  LET w == [u EXCEPT !.amount = v1, !.dst = v2, !.is_neo = v3, !.is_system_asset_transfer = v4]
             IN  DOMAIN w = TxFields /\ \A g \in TxFields \ MatchFields : w[g] = u[g]
  BY <1>1 DEF Shape, IsTx, TxFields, MatchFields
<1>2. ASSUME NEW u, DOMAIN u = TxFields, NEW v1, NEW v2, NEW v3
      PROVE  LET w == [u EXCEPT !.is_remove_vote = v1, !.vote_to = v2, !.is_vote_script = v3]
             IN  DOMAIN w = TxFields /\ \A g \in TxFields \ MatchFields : w[g] = u[g]
  BY <1>2 DEF TxFields, MatchFields
<1>3. /\ DOMAIN MatchTransfer(script, t) = TxFields
      /\ \A g \in TxFields \ MatchFields : MatchTransfer(script, t)[g] = t[g]
  BY <1>1, Zenon DEF MatchTransfer
<1>4. ASSUME NEW u, DOMAIN u = TxFields
      PROVE  \A g \in TxFields \ MatchFields : MatchVote(script, u)[g] = u[g]
  BY <1>2, <1>4, Zenon DEF MatchVote
<1>5. \A g \in TxFields \ MatchFields : MatchScript(script, t)[g] = t[g]
  BY <1>3, <1>4 DEF MatchScript
<1>6. IsTx(MatchScript(script, t))
  BY MatchIsTx DEF Shape
<1>7. {"header", "signers", "script", "script_size"} \subseteq TxFields \ MatchFields
  BY DEF TxFields, MatchFields
<1> QED
  BY <1>5, <1>6, <1>7 DEF Shape

---------------------------------------------------------------------------
(* What lies where depends on few fields.                                  *)

\* A number the parser has read is a count, if it is one it may take.
LEMMA CountRead ==
    ASSUME Inside, HasVarInt, VarInt < TooBig
    PROVE  IsCount(raw, VarInt, offset, offset + VarIntLen)
<1>1. raw \in Seq(Byte) /\ offset \in Nat /\ offset + 1 <= Len(raw) /\ OneByte = raw[offset + 1]
  BY DEF Inside, Bytes, HasVarInt, CanRead, OneByte
<1>2. OneByte \in 0 .. 255
  <2>1. offset + 1 \in 1 .. Len(raw)
    BY <1>1
  <2>2. OneByte \in Byte
    BY <1>1, <2>1
  <2> QED
    BY <2>2 DEF Byte
<1>3. CASE OneByte < 253
  BY <1>1, <1>3 DEF VarIntLen, VarInt, IsCount
<1>4. CASE OneByte >= 253
  <2>1. VarIntLen = IF OneByte = 253 THEN 3 ELSE IF OneByte = 254 THEN 5 ELSE 9
    BY <1>2, <1>4 DEF VarIntLen
  <2>2. /\ ~\E k \in 4 .. VarIntLen : raw[offset + k] # 0
        /\ VarInt = raw[offset + 2] + 256 * raw[offset + 3]
    BY <1>2, <2>1 DEF VarInt, TooBig
  <2>3. \A k \in offset + 4 .. offset + VarIntLen : raw[k] = 0
    <3> SUFFICES ASSUME NEW k \in offset + 4 .. offset + VarIntLen PROVE raw[k] = 0
      OBVIOUS
    <3>1. k - offset \in 4 .. VarIntLen /\ offset + (k - offset) = k
      BY <1>1, <2>1
    <3> QED
      BY <2>2, <3>1
  <2> QED
    BY <1>1, <1>4, <2>1, <2>2, <2>3 DEF IsCount
<1> QED
  BY <1>2, <1>3, <1>4

\* A list, on the scope, the size and the pointers of the list.
LEMMA ListKept ==
    ASSUME NEW data, NEW t, NEW u, NEW s, NEW l, NEW from, NEW to,
           u.signers[s].scope = t.signers[s].scope,
           u.signers[s].size[l] = t.signers[s].size[l],
           u.signers[s].allowed[l] = t.signers[s].allowed[l],
           ListLies(data, t, s, l, from, to)
    PROVE  ListLies(data, u, s, l, from, to)
  BY DEF ListLies, ItemsLie

\* A signer, on the signer.
LEMMA SignerKept ==
    ASSUME NEW data, NEW t, NEW u, NEW s, NEW to,
           u.signers[s] = t.signers[s], SignerLies(data, t, s, to)
    PROVE  SignerLies(data, u, s, to)
<1> DEFINE lists == t.signers[s].account + UINT160_LEN + 1
<1>1. PICK groups \in lists .. to :
          ListLies(data, t, s, "contracts", lists, groups) /\ ListLies(data, t, s, "groups", groups, to)
  BY DEF SignerLies
<1>2. ListLies(data, u, s, "contracts", lists, groups) /\ ListLies(data, u, s, "groups", groups, to)
  BY <1>1, ListKept
<1>3. u.signers[s].scope = data[lists] /\ u.signers[s].account = t.signers[s].account
  BY DEF SignerLies
<1> HIDE DEF lists
<1>4. lists = u.signers[s].account + UINT160_LEN + 1
  BY <1>3 DEF lists
<1> QED
  BY <1>1, <1>2, <1>3, <1>4 DEF SignerLies

\* What is in front of a signer, on the header and on the signers before.
LEMMA FrontKept ==
    ASSUME NEW data, NEW t, NEW u, NEW n \in Nat, NEW to,
           u.header = t.header, u.signers_size = t.signers_size,
           \A s \in 1 .. n : u.signers[s] = t.signers[s],
           FrontLies(data, t, n, to)
    PROVE  FrontLies(data, u, n, to)
<1>1. HeaderLies(data, u, Len(HeaderFields))
  BY DEF FrontLies, HeaderLies
<1>2. PICK first \in 0 .. to :
          IsCount(data, t.signers_size, HeaderAt[6], first) /\ SignersLie(data, t, n, first, to)
  BY DEF FrontLies
<1>3. first = IF n = 0 THEN to ELSE u.signers[1].account
  <2>1. n # 0 => 1 \in 1 .. n
    OBVIOUS
  <2> QED
    BY <1>2, <2>1 DEF SignersLie
<1>4. ASSUME NEW s \in 1 .. n
      PROVE  SignerLies(data, u, s, IF s = n THEN to ELSE u.signers[s + 1].account)
  <2> DEFINE end == IF s = n THEN to ELSE t.signers[s + 1].account
  <2>1. SignerLies(data, t, s, end)
    BY <1>2 DEF SignersLie
  <2>2. end = IF s = n THEN to ELSE u.signers[s + 1].account
    <3>1. s # n => s + 1 \in 1 .. n
      OBVIOUS
    <3> QED
      BY <3>1
  <2> HIDE DEF end
  <2>3. SignerLies(data, u, s, end)
    BY <2>1, SignerKept
  <2> QED
    BY <2>2, <2>3
<1> QED
  BY <1>1, <1>2, <1>3, <1>4 DEF FrontLies, SignersLie

\* One signer more.
LEMMA FrontMore ==
    ASSUME NEW data, NEW t, NEW n \in Nat, NEW to \in Nat,
           FrontLies(data, t, n, t.signers[n + 1].account),
           t.signers[n + 1].account \in 0 .. to,
           SignerLies(data, t, n + 1, to)
    PROVE  FrontLies(data, t, n + 1, to)
<1> DEFINE account == t.signers[n + 1].account
<1>1. PICK first \in 0 .. account :
          IsCount(data, t.signers_size, HeaderAt[6], first) /\ SignersLie(data, t, n, first, account)
  BY DEF FrontLies
<1>2. first \in 0 .. to
  BY <1>1
<1>3. first = t.signers[1].account
  BY <1>1 DEF SignersLie
<1>4. ASSUME NEW s \in 1 .. n + 1
      PROVE  SignerLies(data, t, s, IF s = n + 1 THEN to ELSE t.signers[s + 1].account)
  <2>1. CASE s = n + 1
    BY <2>1
  <2>2. CASE s \in 1 .. n
    <3>1. SignerLies(data, t, s, IF s = n THEN account ELSE t.signers[s + 1].account)
      BY <1>1, <2>2 DEF SignersLie
    <3>2. (IF s = n THEN account ELSE t.signers[s + 1].account) = t.signers[s + 1].account /\ s # n + 1
      BY <2>2
    <3> QED
      BY <3>1, <3>2
  <2> QED
    BY <2>1, <2>2
<1>5. SignersLie(data, t, n + 1, first, to)
  BY <1>3, <1>4 DEF SignersLie
<1> QED
  BY <1>1, <1>2, <1>5 DEF FrontLies

\* One item more.
LEMMA ItemsMore ==
    ASSUME NEW t, NEW u, NEW s, NEW l, NEW n \in Nat, NEW from, NEW at \in Nat,
           1 .. n + 1 \subseteq DOMAIN t.signers[s].allowed[l],
           u.signers[s].allowed[l] = [t.signers[s].allowed[l] EXCEPT ![n + 1] = at],
           ItemsLie(t, s, l, n, from, at)
    PROVE  ItemsLie(u, s, l, n + 1, from, at + ItemLen(l))
<1> DEFINE p == t.signers[s].allowed[l]
           q == u.signers[s].allowed[l]
<1>1. q[n + 1] = at /\ \A k \in 1 .. n : q[k] = p[k]
  OBVIOUS
<1>2. /\ from = IF n = 0 THEN at ELSE p[1]
      /\ \A k \in 1 .. n : p[k] + ItemLen(l) = IF k = n THEN at ELSE p[k + 1]
  BY DEF ItemsLie
<1> HIDE DEF p, q
<1>3. from = q[1]
  BY <1>1, <1>2
<1>4. ASSUME NEW k \in 1 .. n + 1
      PROVE  q[k] + ItemLen(l) = IF k = n + 1 THEN at + ItemLen(l) ELSE q[k + 1]
  <2>1. CASE k = n + 1
    BY <1>1, <2>1
  <2>2. CASE k \in 1 .. n
    <3>1. k + 1 \in 1 .. n + 1 /\ k # n + 1 /\ (k # n => k + 1 \in 1 .. n)
      BY <2>2
    <3> QED
      BY <1>1, <1>2, <2>2, <3>1
  <2> QED
    BY <2>1, <2>2
<1> QED
  BY <1>3, <1>4 DEF ItemsLie, q

---------------------------------------------------------------------------
(* How much of the upload lies in the transaction while it is parsed.      *)

\* A control that a parse of the data gets to, and the script read there.
TraceTo(data, c) == \E m \in Nat : \E f : Trace(data, m, f) /\ f[m] = c

ScriptEnd(data, c)  == c.offset + NumberLen(data, c.offset) + Number(data, c.offset)
ScriptRead(data, c) ==
    At(data, c.offset + NumberLen(data, c.offset), Number(data, c.offset))
IsScript(data, c)   ==
    /\ TraceTo(data, c) /\ c.pc = "script" /\ c.offset \in Nat
    /\ c.offset + NumberLen(data, c.offset) <= Len(data) /\ ScriptEnd(data, c) <= Len(data)

\* A list begins: the scope was read, and the contracts if it is that of the groups.
ListStarts(data, t, s, l, at) ==
    LET lists == t.signers[s].account + UINT160_LEN + 1
    IN  /\ t.signers[s].scope = data[lists]
        /\ at \in Nat /\ lists <= at
        /\ IF l = "contracts" THEN at = lists ELSE ListLies(data, t, s, "contracts", lists, at)

SoFar ==
    /\ pc = "header" => offset = HeaderAt[i] /\ HeaderLies(raw, tx, i - 1)
    /\ pc = "signers_length" => offset = HeaderAt[6] /\ HeaderLies(raw, tx, 5)
    /\ pc = "account" => FrontLies(raw, tx, i - 1, offset)
    /\ pc \in {"scope", "list", "item"} => FrontLies(raw, tx, i - 1, tx.signers[i].account)
    /\ pc = "scope" => offset = tx.signers[i].account + UINT160_LEN
    /\ pc = "list" => ListStarts(raw, tx, i, list, offset)
    /\ pc = "item" =>
          /\ HasFlag(list, tx.signers[i].scope)
          /\ \E from \in 0 .. offset :
                /\ ListStarts(raw, tx, i, list, from)
                /\ \E first \in from .. offset :
                      /\ IsCount(raw, tx.signers[i].size[list], from, first)
                      /\ ItemsLie(tx, i, list, j - 1, first, offset)
    /\ pc = "attributes_length" => FrontLies(raw, tx, tx.signers_size, offset)
    /\ pc = "attribute" =>
          \E from \in 0 .. offset :
             /\ FrontLies(raw, tx, tx.signers_size, from)
             /\ \E first \in from .. offset :
                   /\ IsCount(raw, tx.attributes_size, from, first)
                   /\ offset = first + i - 1
                   /\ \A k \in first + 1 .. offset : raw[k] = HIGH_PRIORITY
    /\ pc = "script" =>
          \E from \in 0 .. offset :
             FrontLies(raw, tx, tx.signers_size, from) /\ AttributesLie(raw, tx, from, offset)
    /\ pc = "match" =>
          /\ \E from \in 0 .. offset :
                /\ FrontLies(raw, tx, tx.signers_size, from)
                /\ \E to \in from .. offset :
                      AttributesLie(raw, tx, from, to) /\ IsCount(raw, tx.script_size, to, tx.script)
          /\ offset = tx.script + tx.script_size
          /\ \E c : IsScript(raw, c) /\ ScriptRead(raw, c) = At(raw, tx.script, tx.script_size)

\* Past a list.
LEMMA NextListLies ==
    ASSUME NEW n \in Nat, pc \in {"list", "item"}, list \in Lists, i \in 1 .. tx.signers_size,
           tx.signers_size \in Nat, offset \in Nat, raw' = raw, NextList(n),
           tx'.signers_size = tx.signers_size, tx'.signers[i].account \in Nat,
           FrontLies(raw, tx', i - 1, tx'.signers[i].account),
           NEW from \in 0 .. offset + n, ListStarts(raw, tx', i, list, from),
           ListLies(raw, tx', i, list, from, offset + n)
    PROVE  SoFar'
<1> DEFINE lists == tx'.signers[i].account + UINT160_LEN + 1
<1>1. offset' = offset + n /\ UINT160_LEN \in Nat
  BY ScriptAssumption DEF NextList, GoOn
<1>2. CASE list = "contracts"
  <2>1. pc' = "list" /\ list' = "groups" /\ i' = i
    BY <1>2 DEF NextList, GoOn
  <2>2. ListStarts(raw, tx', i, "groups", offset + n)
    BY <1>2 DEF ListStarts
  <2> QED
    BY <1>1, <2>1, <2>2 DEF SoFar
<1>3. CASE list = "groups"
  <2>1. from \in lists .. offset + n
    BY <1>1 DEF ListStarts
  <2>2. SignerLies(raw, tx', i, offset + n)
    BY <1>3, <2>1 DEF ListStarts, SignerLies
  <2>3. FrontLies(raw, tx', i, offset + n)
    <3>1. i - 1 \in Nat /\ i - 1 + 1 = i /\ offset + n \in Nat
      OBVIOUS
    <3>2. tx'.signers[i].account \in 0 .. offset + n
      <4> DEFINE account == tx'.signers[i].account
      <4>1. account \in Nat /\ lists = account + UINT160_LEN + 1
        OBVIOUS
      <4>2. lists <= from /\ from <= offset + n /\ from \in Int
        BY <2>1
      <4> HIDE DEF account, lists
      <4>3. account \in 0 .. offset + n
        BY <1>1, <4>1, <4>2
      <4> QED
        BY <4>3 DEF account
    <3> QED
      BY <2>2, <3>1, <3>2, FrontMore
  <2>4. CASE i < tx.signers_size
    <3>1. pc' = "account" /\ i' = i + 1 /\ i' - 1 = i
      BY <1>3, <2>4 DEF NextList, GoOn
    <3> QED
      BY <1>1, <2>3, <3>1 DEF SoFar
  <2>5. CASE ~(i < tx.signers_size)
    <3>1. pc' = "attributes_length"
      BY <1>3, <2>5 DEF NextList, GoOn
    <3>2. i = tx.signers_size
      BY <2>5
    <3> QED
      BY <1>1, <2>3, <3>1, <3>2 DEF SoFar
  <2> QED
    BY <2>4, <2>5
<1> QED
  BY <1>2, <1>3 DEF Lists

\* The limits fit a byte.
LEMMA Limits ==
    /\ MaxSigners \in Nat \ {0} /\ MaxAttributes \in Nat /\ \A l : Limit(l) \in Nat
    /\ MaxSigners <= 255 /\ MaxAttributes <= 255 /\ \A l : Limit(l) <= 255
<1>1. /\ MaxSigners <= 255 /\ MaxAttributes <= 255 /\ MaxContracts <= 255 /\ MaxGroups <= 255
      /\ MaxSigners \in Nat \ {0} /\ MaxAttributes \in Nat /\ MaxContracts \in Nat /\ MaxGroups \in Nat
  BY LimitsAssumption
<1> QED
  BY <1>1 DEF Limit

\* An attempt that is over has nothing under way.
LEMMA DoneSoFar == ASSUME pc' = "done" PROVE SoFar'
  BY DEF SoFar

\* Each field of the header ends where the next one begins, and they are all different.
LEMMA HeaderEnds ==
    /\ HeaderAt[1] = 0 /\ Len(HeaderFields) = 5 /\ DOMAIN HeaderFields = 1 .. 5
    /\ \A k \in 1 .. 5 : HeaderAt[k] + Width(HeaderFields[k]) = HeaderAt[k + 1]
    /\ \A k, l \in 1 .. 5 : HeaderFields[k] = HeaderFields[l] => k = l
<1> DEFINE long == LongLen
<1>1. long \in Nat
  BY ScriptAssumption DEF LongLen
<1>2. /\ Width("version") = 1 /\ Width("nonce") = IntLen /\ Width("system_fee") = long
      /\ Width("network_fee") = long /\ Width("valid_until_block") = IntLen
  BY DEF Width
<1>3. HeaderAt = << 0, 1, 1 + IntLen, 1 + IntLen + long, 1 + IntLen + 2 * long, 1 + 2 * IntLen + 2 * long >>
  BY DEF HeaderAt
<1> HIDE DEF long
<1>4. IntLen \in Nat
  BY LimitsAssumption
<1>5. /\ HeaderAt[1] = 0 /\ HeaderAt[2] = 1 /\ HeaderAt[3] = 1 + IntLen
      /\ HeaderAt[4] = 1 + IntLen + long /\ HeaderAt[5] = 1 + IntLen + 2 * long
      /\ HeaderAt[6] = 1 + 2 * IntLen + 2 * long
  BY <1>3
<1>6. /\ HeaderFields[1] = "version" /\ HeaderFields[2] = "nonce" /\ HeaderFields[3] = "system_fee"
      /\ HeaderFields[4] = "network_fee" /\ HeaderFields[5] = "valid_until_block"
  BY DEF HeaderFields
<1>7. ASSUME NEW k \in 1 .. 5 PROVE HeaderAt[k] + Width(HeaderFields[k]) = HeaderAt[k + 1]
  <2>1. k = 1 \/ k = 2 \/ k = 3 \/ k = 4 \/ k = 5
    OBVIOUS
  <2>2. 1 + 1 = 2 /\ 2 + 1 = 3 /\ 3 + 1 = 4 /\ 4 + 1 = 5 /\ 5 + 1 = 6
    OBVIOUS
  <2> QED
    BY <1>1, <1>2, <1>4, <1>5, <1>6, <2>1, <2>2
<1>8. ASSUME NEW k \in 1 .. 5, NEW l \in 1 .. 5, HeaderFields[k] = HeaderFields[l] PROVE k = l
  BY <1>6, <1>8
<1>9. Len(HeaderFields) = 5 /\ DOMAIN HeaderFields = 1 .. 5
  BY DEF HeaderFields
<1> QED
  BY <1>5, <1>7, <1>8, <1>9

\* The header.
LEMMA HeaderSoFar ==
    ASSUME Inside, Shape(tx), SoFar, ReadHeader
    PROVE  Shape(tx') /\ SoFar'
<1> DEFINE f     == HeaderFields[i]
           bytes == IF CanRead(Width(f)) THEN Ahead(Width(f)) ELSE [k \in 1 .. Width(f) |-> 0]
<1>1. /\ pc = "header" /\ i \in 1 .. 5 /\ f \in Headers /\ tx' = [tx EXCEPT !.header[f] = bytes]
      /\ offset = HeaderAt[i] /\ HeaderLies(raw, tx, i - 1)
  BY HeaderEnds DEF ReadHeader, Inside, Position, Headers, SoFar
<1>2. /\ Shape(tx') /\ tx'.header[f] = bytes
      /\ \A g \in Headers \ {f} : tx'.header[g] = tx.header[g]
  <2> HIDE DEF f, bytes
  <2>1. /\ OnlyField(tx, tx', "header") /\ DOMAIN tx'.header = Headers /\ tx'.header[f] = bytes
        /\ \A g \in Headers \ {f} : tx'.header[g] = tx.header[g]
    BY <1>1 DEF OnlyField, Shape, IsTx, TxFields
  <2>2. "header" \in TxFields \ {"signers"}
    BY DEF TxFields
  <2> QED
    BY <2>1, <2>2, FieldShape
<1>3. CASE pc' = "done"
  BY <1>2, <1>3, DoneSoFar
<1>4. CASE pc' # "done"
  <2>1. CanRead(Width(f)) /\ raw' = raw /\ offset' = offset + Width(f)
    BY <1>1, <1>4, HeaderEnds DEF ReadHeader, Return, GoOn
  <2>0. IF i = 5 THEN pc' = "signers_length" ELSE pc' = "header" /\ i' = i + 1
    BY <1>1, <1>4, HeaderEnds DEF ReadHeader, Return, GoOn
  <2>2. offset' = HeaderAt[i + 1]
    BY <1>1, <2>1, HeaderEnds
  <2>3. HeaderLies(raw', tx', i)
    <3> SUFFICES ASSUME NEW k \in 1 .. i
                 PROVE  tx'.header[HeaderFields[k]] = At(raw, HeaderAt[k], Width(HeaderFields[k]))
      BY <2>1 DEF HeaderLies
    <3>1. CASE k = i
      BY <1>1, <1>2, <2>1, <3>1 DEF Ahead
    <3>2. CASE k # i
      <4>1. k \in 1 .. 5 /\ k \in 1 .. i - 1
        BY <1>1, <3>2
      <4>2. HeaderFields[k] \in Headers \ {f}
        BY <1>1, <3>2, <4>1, HeaderEnds DEF Headers
      <4> QED
        BY <1>1, <1>2, <4>1, <4>2 DEF HeaderLies
    <3> QED
      BY <3>1, <3>2
  <2>4. CASE i = 5
    <3>1. pc' = "signers_length" /\ offset' = HeaderAt[6] /\ HeaderLies(raw', tx', 5)
      <4>1. i + 1 = 6
        BY <2>4
      <4>2. offset' = HeaderAt[6]
        BY <2>2, <4>1
      <4>3. HeaderLies(raw', tx', 5)
        BY <2>3, <2>4
      <4> QED
        BY <2>0, <2>4, <4>2, <4>3
    <3>2. SoFar'
      BY <3>1 DEF SoFar
    <3> QED
      BY <1>2, <3>2
  <2>5. CASE i # 5
    <3>1. pc' = "header" /\ i' = i + 1 /\ i' - 1 = i
      <4>1. i \in Int
        BY <1>1
      <4> QED
        BY <2>0, <2>5, <4>1
    <3>2. offset' = HeaderAt[i'] /\ HeaderLies(raw', tx', i' - 1)
      BY <2>2, <2>3, <3>1
    <3>3. SoFar'
      BY <3>1, <3>2 DEF SoFar
    <3> QED
      BY <1>2, <3>3
  <2> QED
    BY <2>4, <2>5
<1> QED
  BY <1>3, <1>4

\* The number of signers.
LEMMA SignersLengthSoFar ==
    ASSUME Inside, Shape(tx), SoFar, ReadSignersLength
    PROVE  Shape(tx') /\ SoFar'
<1>1. CASE Fail
  BY <1>1, DoneSoFar DEF Fail, Return
<1>2. CASE ~Fail
  <2>1. /\ pc = "signers_length" /\ HasVarInt /\ VarInt \in 1 .. MaxSigners /\ raw' = raw
        /\ tx' = [tx EXCEPT !["signers_size"] = VarInt]
        /\ pc' = "account" /\ offset' = offset + VarIntLen /\ i' = 1
        /\ offset = HeaderAt[6] /\ HeaderLies(raw, tx, 5)
    BY <1>2 DEF ReadSignersLength, SignersAccepted, GoOn, SoFar
  <2>2. VarInt \in 0 .. MaxSigners /\ VarInt < TooBig
    BY <2>1, Limits DEF TooBig
  <2>3. /\ Shape(tx') /\ tx'.signers_size = VarInt /\ tx'.header = tx.header
    <3>1. OnlyField(tx, tx', "signers_size") /\ tx'.signers_size = VarInt
      BY <2>1 DEF OnlyField, Shape, IsTx, TxFields
    <3>2. "signers_size" \in TxFields \ {"signers"} /\ "header" \in TxFields \ {"signers_size"}
      BY DEF TxFields
    <3>3. Shape(tx')
      BY <2>2, <3>1, <3>2, FieldShape
    <3> QED
      BY <3>1, <3>2, <3>3 DEF OnlyField
  <2>4. IsCount(raw, VarInt, HeaderAt[6], offset')
    BY <2>1, <2>2, CountRead
  <2>5. offset' \in Nat
    BY <2>1, VarIntType DEF Inside
  <2>6. FrontLies(raw, tx', 0, offset')
    <3>1. HeaderLies(raw, tx', 5)
      BY <2>1, <2>3 DEF HeaderLies
    <3>2. SignersLie(raw, tx', 0, offset', offset')
      BY DEF SignersLie
    <3>3. offset' \in 0 .. offset'
      BY <2>5
    <3> QED
      BY <2>3, <2>4, <3>1, <3>2, <3>3, HeaderEnds DEF FrontLies
  <2>7. i' - 1 = 0
    BY <2>1
  <2>8. SoFar'
    BY <2>1, <2>6, <2>7 DEF SoFar
  <2> QED
    BY <2>3, <2>8
<1> QED
  BY <1>1, <1>2

\* A signer that is being read is one of those that there is room for.
LEMMA SignerRead ==
    ASSUME Inside, pc \in {"account", "scope", "list", "item"}
    PROVE  i \in 1 .. MaxSigners /\ i \in 1 .. tx.signers_size /\ i - 1 \in Nat /\ tx.signers_size \in Nat
<1>1. i \in 1 .. tx.signers_size /\ tx.signers_size \in 0 .. MaxSigners
  BY DEF Inside, Position, IsTx
<1> QED
  BY <1>1, Limits

\* What is in front of the signer stays when something of the signer is written.
LEMMA FrontStays ==
    ASSUME Inside, pc \in {"account", "scope", "list", "item"}, NEW f, NEW to,
           OnlySigner(tx, tx', i, f), FrontLies(raw, tx, i - 1, to)
    PROVE  FrontLies(raw, tx', i - 1, to) /\ tx'.signers_size = tx.signers_size
<1>1. {"header", "signers_size"} \subseteq TxFields \ {"signers"}
  BY DEF TxFields
<1>2. tx'.header = tx.header /\ tx'.signers_size = tx.signers_size
  BY <1>1 DEF OnlySigner, OnlyField
<1>3. i \in 1 .. MaxSigners /\ i - 1 \in Nat
  BY SignerRead
<1>4. \A s \in 1 .. i - 1 : tx'.signers[s] = tx.signers[s]
  <2>1. \A s \in 1 .. i - 1 : s \in 1 .. MaxSigners \ {i}
    BY <1>3, Limits
  <2> QED
    BY <2>1 DEF OnlySigner
<1> QED
  BY <1>2, <1>3, <1>4, FrontKept

\* The account of a signer.
LEMMA AccountSoFar ==
    ASSUME Inside, Shape(tx), SoFar, ReadAccount
    PROVE  Shape(tx') /\ SoFar'
<1>1. /\ pc = "account" /\ tx' = [tx EXCEPT !.signers[i].account = offset]
      /\ offset \in Nat /\ FrontLies(raw, tx, i - 1, offset)
  <2>1. pc = "account" /\ tx' = [tx EXCEPT !.signers[i].account = offset]
    BY DEF ReadAccount
  <2> QED
    BY <2>1 DEF Inside, SoFar
<1>2. OnlySigner(tx, tx', i, "account") /\ tx'.signers[i].account = offset
  BY <1>1, SignerRead DEF OnlySigner, OnlyField, Shape, IsTx, TxFields, SignerFields
<1>3. Shape(tx')
  <2>1. "account" \in SignerFields /\ "account" # "size" /\ "account" # "allowed"
    BY DEF SignerFields
  <2>2. i \in 1 .. MaxSigners /\ tx'.signers[i].account \in Nat
    BY <1>1, <1>2, SignerRead
  <2> QED
    BY <1>2, <2>1, <2>2, SignerShape
<1>4. CASE pc' = "done"
  BY <1>3, <1>4, DoneSoFar
<1>5. CASE pc' # "done"
  <2>1. pc' = "scope" /\ i' = i /\ raw' = raw /\ offset' = offset + UINT160_LEN
    BY <1>5 DEF ReadAccount, Return, GoOn
  <2>2. FrontLies(raw, tx', i - 1, offset)
    BY <1>1, <1>2, FrontStays
  <2>3. FrontLies(raw', tx', i' - 1, tx'.signers[i'].account)
    BY <1>2, <2>1, <2>2
  <2>4. offset' = tx'.signers[i'].account + UINT160_LEN
    BY <1>2, <2>1
  <2>5. SoFar'
    BY <2>1, <2>3, <2>4 DEF SoFar
  <2> QED
    BY <1>3, <2>5
<1> QED
  BY <1>4, <1>5

\* The scope of a signer, behind which its lists begin.
LEMMA ScopeSoFar ==
    ASSUME Inside, Shape(tx), SoFar, ReadScope
    PROVE  Shape(tx') /\ SoFar'
<1>1. CASE ~CanRead(1)
  <2>1. tx' = tx /\ pc' = "done"
    BY <1>1 DEF ReadScope, Return
  <2> QED
    BY <2>1, DoneSoFar
<1>2. CASE CanRead(1)
  <2>1. pc = "scope" /\ tx' = [tx EXCEPT !.signers[i].scope = OneByte]
    BY <1>2 DEF ReadScope
  <2>2. /\ FrontLies(raw, tx, i - 1, tx.signers[i].account)
        /\ offset = tx.signers[i].account + UINT160_LEN /\ offset \in Nat
    BY <2>1 DEF SoFar, Inside
  <2>3. /\ OnlySigner(tx, tx', i, "scope") /\ tx'.signers[i].scope = OneByte
        /\ tx'.signers[i].account = tx.signers[i].account
    BY <2>1, SignerRead DEF OnlySigner, OnlyField, Shape, IsTx, TxFields, SignerFields
  <2>4. Shape(tx')
    <3>1. "scope" \in SignerFields
      BY DEF SignerFields
    <3> QED
      BY <2>1, <2>3, <3>1, SignerRead, SignerShape
  <2>5. CASE pc' = "done"
    BY <2>4, <2>5, DoneSoFar
  <2>6. CASE pc' # "done"
    <3>1. pc' = "list" /\ list' = "contracts" /\ i' = i /\ raw' = raw /\ offset' = offset + 1
      BY <2>6 DEF ReadScope, Return, GoOn, NoItems
    <3>2. FrontLies(raw, tx', i - 1, tx'.signers[i].account)
      BY <2>1, <2>2, <2>3, FrontStays
    <3>3. ListStarts(raw, tx', i, "contracts", offset')
      BY <2>2, <2>3, <3>1 DEF ListStarts, OneByte
    <3>4. FrontLies(raw', tx', i' - 1, tx'.signers[i'].account) /\ ListStarts(raw', tx', i', list', offset')
      BY <3>1, <3>2, <3>3
    <3>5. SoFar'
      BY <3>1, <3>4 DEF SoFar
    <3> QED
      BY <2>4, <3>5
  <2> QED
    BY <2>5, <2>6
<1> QED
  BY <1>1, <1>2

\* Where a list begins, on what is in front of it.
LEMMA StartsKept ==
    ASSUME NEW data, NEW t, NEW u, NEW s, NEW l, NEW at,
           u.signers[s].account = t.signers[s].account, u.signers[s].scope = t.signers[s].scope,
           l # "contracts" => /\ u.signers[s].size["contracts"] = t.signers[s].size["contracts"]
                              /\ u.signers[s].allowed["contracts"] = t.signers[s].allowed["contracts"],
           ListStarts(data, t, s, l, at)
    PROVE  ListStarts(data, u, s, l, at)
<1> DEFINE lists == t.signers[s].account + UINT160_LEN + 1
<1>1. CASE l = "contracts"
  BY <1>1 DEF ListStarts
<1>2. CASE l # "contracts"
  <2>1. ListLies(data, t, s, "contracts", lists, at)
    BY <1>2 DEF ListStarts
  <2> HIDE DEF lists
  <2>2. ListLies(data, u, s, "contracts", lists, at)
    BY <1>2, <2>1, ListKept
  <2> QED
    BY <1>2, <2>2 DEF ListStarts, lists
<1> QED
  BY <1>1, <1>2

\* The length of a list, of which there is none without a flag.
LEMMA ListLengthSoFar ==
    ASSUME Inside, Shape(tx), SoFar, ReadListLength,
           ~HasFlag(list, tx.signers[i].scope) => tx.signers[i].size[list] = 0
    PROVE  Shape(tx') /\ SoFar'
<1>1. /\ pc = "list" /\ list \in Lists /\ offset \in Nat
      /\ i \in 1 .. MaxSigners /\ i \in 1 .. tx.signers_size /\ tx.signers_size \in Nat
  <2>1. pc = "list"
    BY DEF ReadListLength
  <2>2. pc \in {"account", "scope", "list", "item"}
    BY <2>1
  <2> QED
    BY <2>1, <2>2, SignerRead DEF Inside, Position
<1>2. FrontLies(raw, tx, i - 1, tx.signers[i].account) /\ ListStarts(raw, tx, i, list, offset)
  BY <1>1 DEF SoFar
<1>3. tx.signers[i].account \in Nat
  BY <1>1 DEF Shape
<1>4. CASE Fail
  BY <1>4, DoneSoFar DEF Fail, Return
<1>5. CASE ~HasFlag(list, tx.signers[i].scope)
  <2>1. NextList(0) /\ tx' = tx /\ raw' = raw
    BY <1>5 DEF ReadListLength, NextList, GoOn
  <2>2. ListLies(raw, tx', i, list, offset, offset + 0)
    BY <1>1, <1>5, <2>1 DEF ListLies
  <2>3. offset \in 0 .. offset + 0 /\ 0 \in Nat /\ pc \in {"list", "item"}
    BY <1>1
  <2>4. /\ FrontLies(raw, tx', i - 1, tx'.signers[i].account) /\ ListStarts(raw, tx', i, list, offset)
        /\ tx'.signers_size = tx.signers_size /\ tx'.signers[i].account \in Nat
    BY <1>2, <1>3, <2>1
  <2>5. SoFar'
    BY <1>1, <2>1, <2>2, <2>3, <2>4, NextListLies
  <2> QED
    BY <2>1, <2>5
<1>6. CASE HasFlag(list, tx.signers[i].scope) /\ ~Fail
  <2>1. /\ HasVarInt /\ ListAccepted(list, VarInt)
        /\ tx' = [tx EXCEPT !.signers[i].size[list] = VarInt]
        /\ IF VarInt = 0
           THEN NextList(VarIntLen)
           ELSE GoOn("item", VarIntLen) /\ j' = 1 /\ i' = i /\ list' = list
    BY <1>6 DEF ReadListLength
  <2>2. VarInt \in 0 .. Limit(list) /\ VarInt < TooBig /\ VarIntLen \in Nat /\ VarInt \in Nat
    BY <2>1, VarIntType, Limits DEF Inside, ListAccepted, TooBig
  <2>3. /\ OnlySigner(tx, tx', i, "size")
        /\ DOMAIN tx'.signers[i].size = Lists /\ tx'.signers[i].size[list] = VarInt
        /\ \A l \in Lists \ {list} : tx'.signers[i].size[l] = tx.signers[i].size[l]
    BY <1>1, <2>1 DEF OnlySigner, OnlyField, Shape, IsTx, TxFields, SignerFields
  <2>4. \A l \in Lists : tx'.signers[i].size[l] \in 0 .. Limit(l)
    BY <1>1, <2>2, <2>3 DEF Shape, IsTx
  <2>5. Shape(tx')
    <3>1. "size" \in SignerFields /\ "size" # "account" /\ "size" # "allowed"
      BY DEF SignerFields
    <3> QED
      BY <1>1, <2>3, <2>4, <3>1, SignerShape
  <2>6. /\ tx'.signers[i].account = tx.signers[i].account /\ tx'.signers[i].scope = tx.signers[i].scope
        /\ tx'.signers[i].allowed = tx.signers[i].allowed
    <3>1. {"account", "scope", "allowed"} \subseteq SignerFields \ {"size"}
      BY DEF SignerFields
    <3> QED
      BY <2>3, <3>1 DEF OnlySigner
  <2>7. FrontLies(raw, tx', i - 1, tx'.signers[i].account) /\ tx'.signers_size = tx.signers_size
    <3>1. pc \in {"account", "scope", "list", "item"}
      BY <1>1
    <3> QED
      BY <1>2, <2>3, <2>6, <3>1, FrontStays
  <2>8. ListStarts(raw, tx', i, list, offset)
    <3>1. list # "contracts" => "contracts" \in Lists \ {list}
      BY DEF Lists
    <3> QED
      BY <1>2, <2>3, <2>6, <3>1, StartsKept
  <2>9. IsCount(raw, tx'.signers[i].size[list], offset, offset + VarIntLen)
    BY <2>1, <2>2, <2>3, CountRead
  <2>10. ItemsLie(tx', i, list, 0, offset + VarIntLen, offset + VarIntLen)
    BY DEF ItemsLie
  <2>11. offset \in 0 .. offset + VarIntLen /\ offset + VarIntLen \in offset .. offset + VarIntLen
    BY <1>1, <2>2
  <2>12. HasFlag(list, tx'.signers[i].scope)
    BY <1>6, <2>6
  <2>13. CASE VarInt = 0
    <3>1. ListLies(raw, tx', i, list, offset, offset + VarIntLen)
      BY <2>3, <2>9, <2>10, <2>11, <2>12, <2>13 DEF ListLies
    <3>2. NextList(VarIntLen) /\ raw' = raw /\ pc \in {"list", "item"} /\ tx'.signers[i].account \in Nat
      BY <1>1, <1>3, <2>1, <2>6, <2>13 DEF NextList, GoOn
    <3>3. SoFar'
      BY <1>1, <2>2, <2>7, <2>8, <2>11, <3>1, <3>2, NextListLies
    <3> QED
      BY <2>5, <3>3
  <2>14. CASE VarInt # 0
    <3>1. /\ pc' = "item" /\ j' = 1 /\ i' = i /\ list' = list /\ raw' = raw
          /\ offset' = offset + VarIntLen /\ j' - 1 = 0
      BY <2>1, <2>14 DEF GoOn
    <3>2. /\ FrontLies(raw', tx', i' - 1, tx'.signers[i'].account)
          /\ HasFlag(list', tx'.signers[i'].scope)
      BY <2>7, <2>12, <3>1
    <3>3. \E from \in 0 .. offset' :
             /\ ListStarts(raw', tx', i', list', from)
             /\ \E first \in from .. offset' :
                   /\ IsCount(raw', tx'.signers[i'].size[list'], from, first)
                   /\ ItemsLie(tx', i', list', j' - 1, first, offset')
      BY <2>8, <2>9, <2>10, <2>11, <3>1
    <3>4. SoFar'
      BY <3>1, <3>2, <3>3 DEF SoFar
    <3> QED
      BY <2>5, <3>4
  <2> QED
    BY <2>13, <2>14
<1> QED
  BY <1>4, <1>5, <1>6

\* An item, behind which comes the next one or what follows the list.
LEMMA ItemSoFar ==
    ASSUME Inside, Shape(tx), SoFar, ReadItem
    PROVE  Shape(tx') /\ SoFar'
<1>1. /\ pc = "item" /\ list \in Lists /\ offset \in Nat
      /\ i \in 1 .. MaxSigners /\ i \in 1 .. tx.signers_size /\ tx.signers_size \in Nat
      /\ listed = tx.signers[i].size[list] /\ j \in 1 .. listed
  <2>1. pc = "item"
    BY DEF ReadItem
  <2>2. pc \in {"account", "scope", "list", "item"}
    BY <2>1
  <2> QED
    BY <2>1, <2>2, SignerRead DEF Inside, Position
<1>2. FrontLies(raw, tx, i - 1, tx.signers[i].account) /\ HasFlag(list, tx.signers[i].scope)
  BY <1>1 DEF SoFar
<1>3. PICK from \in 0 .. offset :
         /\ ListStarts(raw, tx, i, list, from)
         /\ \E first \in from .. offset :
               /\ IsCount(raw, tx.signers[i].size[list], from, first)
               /\ ItemsLie(tx, i, list, j - 1, first, offset)
  BY <1>1 DEF SoFar
<1>4. PICK first \in from .. offset :
         /\ IsCount(raw, tx.signers[i].size[list], from, first)
         /\ ItemsLie(tx, i, list, j - 1, first, offset)
  BY <1>3
<1>5. /\ listed \in 0 .. Limit(list) /\ Limit(list) \in Nat /\ listed \in Nat
      /\ tx.signers[i].account \in Nat /\ tx.signers[i].allowed[list] \in [1 .. Limit(list) -> Nat]
      /\ ItemLen(list) \in Nat
  <2>1. listed \in 0 .. Limit(list) /\ Limit(list) \in Nat
    BY <1>1, Limits DEF Shape, IsTx
  <2>2. tx.signers[i].account \in Nat /\ tx.signers[i].allowed[list] \in [1 .. Limit(list) -> Nat]
    BY <1>1 DEF Shape
  <2>3. ItemLen(list) \in Nat
    BY ScriptAssumption DEF ItemLen
  <2> QED
    BY <2>1, <2>2, <2>3
<1>6. /\ OnlySigner(tx, tx', i, "allowed")
      /\ DOMAIN tx'.signers[i].allowed = Lists
      /\ tx'.signers[i].allowed[list] = [tx.signers[i].allowed[list] EXCEPT ![j] = offset]
      /\ \A l \in Lists \ {list} : tx'.signers[i].allowed[l] = tx.signers[i].allowed[l]
  <2>1. tx' = [tx EXCEPT !.signers[i].allowed[list][j] = offset]
    BY DEF ReadItem
  <2> DEFINE p == [tx.signers[i].allowed[list] EXCEPT ![j] = offset]
  <2>2. tx' = [tx EXCEPT !.signers[i].allowed[list] = p]
    BY <2>1
  <2> HIDE DEF p
  <2>3. /\ OnlySigner(tx, tx', i, "allowed")
        /\ DOMAIN tx'.signers[i].allowed = Lists
        /\ tx'.signers[i].allowed[list] = p
        /\ \A l \in Lists \ {list} : tx'.signers[i].allowed[l] = tx.signers[i].allowed[l]
    BY <1>1, <2>2 DEF OnlySigner, OnlyField, Shape, IsTx, TxFields, SignerFields
  <2> QED
    BY <2>3 DEF p
<1>7. tx'.signers[i].allowed[list] \in [1 .. Limit(list) -> Nat]
  BY <1>1, <1>5, <1>6
<1>8. Shape(tx')
  <2>1. "allowed" \in SignerFields /\ "allowed" # "account" /\ "allowed" # "size"
    BY DEF SignerFields
  <2>2. \A l \in Lists : tx'.signers[i].allowed[l] \in [1 .. Limit(l) -> Nat]
    BY <1>1, <1>6, <1>7 DEF Shape
  <2> QED
    BY <1>1, <1>6, <2>1, <2>2, SignerShape
<1>9. /\ tx'.signers[i].account = tx.signers[i].account /\ tx'.signers[i].scope = tx.signers[i].scope
      /\ tx'.signers[i].size = tx.signers[i].size
  <2>1. {"account", "scope", "size"} \subseteq SignerFields \ {"allowed"}
    BY DEF SignerFields
  <2> QED
    BY <1>6, <2>1 DEF OnlySigner
<1>10. FrontLies(raw, tx', i - 1, tx'.signers[i].account) /\ tx'.signers_size = tx.signers_size
  <2>1. pc \in {"account", "scope", "list", "item"}
    BY <1>1
  <2> QED
    BY <1>2, <1>6, <1>9, <2>1, FrontStays
<1>11. ListStarts(raw, tx', i, list, from)
  <2>1. list # "contracts" => "contracts" \in Lists \ {list}
    BY DEF Lists
  <2> QED
    BY <1>3, <1>6, <1>9, <2>1, StartsKept
<1>12. ItemsLie(tx', i, list, j, first, offset + ItemLen(list))
  <2> DEFINE n == j - 1
  <2>1. n \in Nat /\ n + 1 = j /\ 1 .. n + 1 \subseteq DOMAIN tx.signers[i].allowed[list]
    BY <1>1, <1>5
  <2>2. ItemsLie(tx, i, list, n, first, offset)
    BY <1>4
  <2>3. tx'.signers[i].allowed[list] = [tx.signers[i].allowed[list] EXCEPT ![n + 1] = offset]
    BY <1>6, <2>1
  <2> HIDE DEF n
  <2>4. ItemsLie(tx', i, list, n + 1, first, offset + ItemLen(list))
    BY <1>1, <2>1, <2>2, <2>3, ItemsMore
  <2> QED
    BY <2>1, <2>4
<1>13. /\ IsCount(raw, tx'.signers[i].size[list], from, first) /\ HasFlag(list, tx'.signers[i].scope)
       /\ from \in 0 .. offset + ItemLen(list) /\ first \in from .. offset + ItemLen(list)
  BY <1>1, <1>2, <1>4, <1>5, <1>9
<1>14. CASE ~CanRead(ItemLen(list))
  <2>1. pc' = "done"
    BY <1>14 DEF ReadItem, Return
  <2> QED
    BY <1>8, <2>1, DoneSoFar
<1>15. CASE CanRead(ItemLen(list)) /\ j = listed
  <2>1. NextList(ItemLen(list)) /\ raw' = raw
    BY <1>15 DEF ReadItem, NextList, GoOn
  <2>2. tx'.signers[i].size[list] = j
    BY <1>1, <1>9, <1>15
  <2>3. ListLies(raw, tx', i, list, from, offset + ItemLen(list))
    BY <1>12, <1>13, <2>2 DEF ListLies
  <2>4. pc \in {"list", "item"} /\ tx'.signers[i].account \in Nat
    BY <1>1, <1>5, <1>9
  <2>5. SoFar'
    BY <1>1, <1>5, <1>10, <1>11, <1>13, <2>1, <2>3, <2>4, NextListLies
  <2> QED
    BY <1>8, <2>5
<1>16. CASE CanRead(ItemLen(list)) /\ j # listed
  <2>1. /\ pc' = "item" /\ j' = j + 1 /\ i' = i /\ list' = list /\ raw' = raw
        /\ offset' = offset + ItemLen(list)
    BY <1>16 DEF ReadItem, GoOn
  <2>2. j' - 1 = j
    BY <1>1, <2>1
  <2>3. /\ FrontLies(raw', tx', i' - 1, tx'.signers[i'].account)
        /\ HasFlag(list', tx'.signers[i'].scope)
    BY <1>10, <1>13, <2>1
  <2>4. \E at \in 0 .. offset' :
           /\ ListStarts(raw', tx', i', list', at)
           /\ \E begin \in at .. offset' :
                 /\ IsCount(raw', tx'.signers[i'].size[list'], at, begin)
                 /\ ItemsLie(tx', i', list', j' - 1, begin, offset')
    BY <1>11, <1>12, <1>13, <2>1, <2>2
  <2>5. SoFar'
    BY <2>1, <2>3, <2>4 DEF SoFar
  <2> QED
    BY <1>8, <2>5
<1> QED
  BY <1>14, <1>15, <1>16

\* What is in front of the attributes stays when neither header nor signers are written.
LEMMA SignersStay ==
    ASSUME Shape(tx), NEW f \in TxFields \ {"header", "signers", "signers_size"},
           OnlyField(tx, tx', f), NEW to, FrontLies(raw, tx, tx.signers_size, to)
    PROVE  FrontLies(raw, tx', tx'.signers_size, to)
<1>1. {"header", "signers", "signers_size"} \subseteq TxFields \ {f}
  BY DEF TxFields
<1>2. tx'.header = tx.header /\ tx'.signers = tx.signers /\ tx'.signers_size = tx.signers_size
  BY <1>1 DEF OnlyField
<1>3. tx.signers_size \in Nat
  BY Limits DEF Shape, IsTx
<1> QED
  BY <1>2, <1>3, FrontKept

\* The number of attributes.
LEMMA AttributesLengthSoFar ==
    ASSUME Inside, Shape(tx), SoFar, ReadAttributesLength
    PROVE  Shape(tx') /\ SoFar'
<1>1. CASE Fail
  BY <1>1, DoneSoFar DEF Fail, Return
<1>2. CASE ~Fail
  <2>1. /\ pc = "attributes_length" /\ HasVarInt /\ VarInt <= MaxAttributes
        /\ tx' = [tx EXCEPT !.attributes_size = VarInt]
        /\ IF VarInt = 0 THEN GoOn("script", VarIntLen) ELSE GoOn("attribute", VarIntLen) /\ i' = 1
    BY <1>2 DEF ReadAttributesLength
  <2>2. FrontLies(raw, tx, tx.signers_size, offset) /\ offset \in Nat
    BY <2>1 DEF SoFar, Inside
  <2>3. VarInt \in 0 .. MaxAttributes /\ VarInt < TooBig /\ VarIntLen \in Nat /\ VarInt \in Nat
    BY <2>1, VarIntType, Limits DEF Inside, TooBig
  <2>4. OnlyField(tx, tx', "attributes_size") /\ tx'.attributes_size = VarInt
    BY <2>1 DEF OnlyField, Shape, IsTx, TxFields
  <2>5. "attributes_size" \in TxFields \ {"header", "signers", "signers_size"}
    BY DEF TxFields
  <2>6. Shape(tx')
    BY <2>3, <2>4, <2>5, FieldShape
  <2>7. FrontLies(raw, tx', tx'.signers_size, offset)
    BY <2>2, <2>4, <2>5, SignersStay
  <2>8. IsCount(raw, VarInt, offset, offset + VarIntLen)
    BY <2>1, <2>3, CountRead
  <2>9. offset' = offset + VarIntLen /\ raw' = raw /\ offset \in 0 .. offset'
    BY <2>1, <2>2, <2>3 DEF GoOn
  <2>10. CASE VarInt = 0
    <3>1. pc' = "script"
      BY <2>1, <2>10 DEF GoOn
    <3>2. offset' - tx'.attributes_size = offset + VarIntLen
      BY <2>2, <2>3, <2>4, <2>9, <2>10
    <3>3. AttributesLie(raw', tx', offset, offset')
      <4>1. \A k \in offset' - tx'.attributes_size + 1 .. offset' : raw'[k] = HIGH_PRIORITY
        BY <2>2, <2>3, <2>9, <3>2
      <4> QED
        BY <2>4, <2>8, <2>9, <3>2, <4>1 DEF AttributesLie
    <3>4. SoFar'
      BY <2>7, <2>9, <3>1, <3>3 DEF SoFar
    <3> QED
      BY <2>6, <3>4
  <2>11. CASE VarInt # 0
    <3>1. pc' = "attribute" /\ i' = 1
      BY <2>1, <2>11 DEF GoOn
    <3>2. /\ offset' \in offset .. offset' /\ offset' = offset' + i' - 1
          /\ \A k \in offset' + 1 .. offset' : raw'[k] = HIGH_PRIORITY
      BY <2>2, <2>3, <2>9, <3>1
    <3>3. IsCount(raw', tx'.attributes_size, offset, offset')
      BY <2>4, <2>8, <2>9
    <3>4. SoFar'
      BY <2>7, <2>9, <3>1, <3>2, <3>3 DEF SoFar
    <3> QED
      BY <2>6, <3>4
  <2> QED
    BY <2>10, <2>11
<1> QED
  BY <1>1, <1>2

\* An attribute.
LEMMA AttributeSoFar ==
    ASSUME Inside, Shape(tx), SoFar, ReadAttribute
    PROVE  Shape(tx') /\ SoFar'
<1>1. CASE pc' = "done"
  <2>1. tx' = tx
    BY <1>1 DEF ReadAttribute, Fail, GoOn
  <2> QED
    BY <1>1, <2>1, DoneSoFar
<1>2. CASE pc' # "done"
  <2>1. /\ pc = "attribute" /\ CanRead(1) /\ Ahead(1) = << HIGH_PRIORITY >>
        /\ tx' = [tx EXCEPT !.attributes[i] = HIGH_PRIORITY]
        /\ IF i = tx.attributes_size THEN GoOn("script", 1) ELSE GoOn("attribute", 1) /\ i' = i + 1
    BY <1>2 DEF ReadAttribute, Fail, Return
  <2>2. /\ offset \in Nat /\ i \in 1 .. tx.attributes_size /\ tx.attributes_size \in Nat
        /\ raw \in Seq(Byte) /\ offset + 1 <= Len(raw)
    BY <2>1, Limits DEF Inside, Position, IsTx, Bytes, CanRead
  <2>3. PICK from \in 0 .. offset :
           /\ FrontLies(raw, tx, tx.signers_size, from)
           /\ \E first \in from .. offset :
                 /\ IsCount(raw, tx.attributes_size, from, first)
                 /\ offset = first + i - 1
                 /\ \A k \in first + 1 .. offset : raw[k] = HIGH_PRIORITY
    BY <2>1 DEF SoFar
  <2>4. PICK first \in from .. offset :
           /\ IsCount(raw, tx.attributes_size, from, first)
           /\ offset = first + i - 1
           /\ \A k \in first + 1 .. offset : raw[k] = HIGH_PRIORITY
    BY <2>3
  <2>5. OnlyField(tx, tx', "attributes") /\ tx'.attributes_size = tx.attributes_size
    BY <2>1 DEF OnlyField, Shape, IsTx, TxFields
  <2>6. "attributes" \in TxFields \ {"header", "signers", "signers_size"}
    BY DEF TxFields
  <2>7. Shape(tx')
    <3>1. "attributes" \in TxFields \ {"signers"}
      BY DEF TxFields
    <3>2. /\ "attributes" # "header" /\ "attributes" # "signers_size" /\ "attributes" # "attributes_size"
          /\ "attributes" # "script" /\ "attributes" # "script_size"
      OBVIOUS
    <3> QED
      BY <2>5, <3>1, <3>2, FieldShape
  <2>8. FrontLies(raw, tx', tx'.signers_size, from)
    BY <2>3, <2>5, <2>6, SignersStay
  <2>9. offset' = offset + 1 /\ raw' = raw
    BY <2>1 DEF GoOn
  <2>10. raw[offset + 1] = HIGH_PRIORITY
    <3> DEFINE k == offset + 1
    <3>1. k \in 1 .. Len(raw) /\ k = offset + 1
      BY <2>2
    <3> HIDE DEF k
    <3>2. Ahead(1) = SubSeq(raw, k, k)
      BY <3>1 DEF Ahead, At
    <3>3. SubSeq(raw, k, k)[1] = raw[k]
      BY <2>2, <3>1
    <3> QED
      BY <2>1, <3>1, <3>2, <3>3
  <2>11. \A k \in first + 1 .. offset + 1 : raw[k] = HIGH_PRIORITY
    BY <2>2, <2>4, <2>10
  <2>12. from \in 0 .. offset' /\ first \in from .. offset'
    BY <2>2, <2>4, <2>9
  <2>13. CASE i = tx.attributes_size
    <3>1. pc' = "script"
      BY <2>1, <2>13 DEF GoOn
    <3>2. offset' - tx'.attributes_size = first
      <4>1. first \in Nat /\ i \in Nat /\ offset = first + i - 1
        <5>1. from \in Nat
          BY <2>2
        <5>2. first \in Nat
          BY <2>2, <5>1
        <5>3. i \in Nat
          BY <2>2
        <5> QED
          BY <2>4, <5>2, <5>3
      <4>2. offset + 1 - i = first
        BY <4>1
      <4>3. tx'.attributes_size = i /\ offset' = offset + 1
        BY <2>5, <2>9, <2>13
      <4>4. offset \in Nat
        BY <2>2
      <4> QED
        BY <4>1, <4>2, <4>3, <4>4
    <3>3. AttributesLie(raw', tx', from, offset')
      BY <2>4, <2>5, <2>9, <2>11, <3>2 DEF AttributesLie
    <3>4. SoFar'
      BY <2>8, <2>9, <2>12, <3>1, <3>3 DEF SoFar
    <3> QED
      BY <2>7, <3>4
  <2>14. CASE i # tx.attributes_size
    <3>1. pc' = "attribute" /\ i' = i + 1
      BY <2>1, <2>14 DEF GoOn
    <3>2. offset' = first + i' - 1
      BY <2>2, <2>4, <2>9, <3>1
    <3>3. /\ IsCount(raw', tx'.attributes_size, from, first)
          /\ \A k \in first + 1 .. offset' : raw'[k] = HIGH_PRIORITY
      BY <2>4, <2>5, <2>9, <2>11
    <3>4. SoFar'
      BY <2>8, <2>9, <2>12, <3>1, <3>2, <3>3 DEF SoFar
    <3> QED
      BY <2>7, <3>4
  <2> QED
    BY <2>13, <2>14
<1> QED
  BY <1>1, <1>2

\* The script, at the one place where a parse of the upload comes to a script.
LEMMA ScriptSoFar ==
    ASSUME Inside, Shape(tx), SoFar, Reached, ReadScript
    PROVE  Shape(tx') /\ SoFar'
<1>1. pc = "script" /\ offset \in Nat /\ raw \in Bytes /\ Len(raw) \in Nat
  BY DEF ReadScript, Inside, Bytes
<1>2. CASE ~HasVarInt
  BY <1>2, DoneSoFar DEF ReadScript, Fail, Return
<1>3. CASE HasVarInt
  <2>1. VarInt \in Nat /\ VarIntLen \in Nat
    BY <1>3, VarIntType DEF Inside
  <2>2. CASE ~(ScriptAccepted(VarInt) /\ CanRead(VarIntLen + VarInt))
    <3>1. tx' = [tx EXCEPT !.script = offset + VarIntLen] /\ pc' = "done"
      BY <1>3, <2>2 DEF ReadScript, Return
    <3>2. OnlyField(tx, tx', "script") /\ tx'.script = offset + VarIntLen /\ tx'.script \in Nat
      BY <1>1, <2>1, <3>1 DEF OnlyField, Shape, IsTx, TxFields
    <3>3. Shape(tx')
      <4>1. "script" \in TxFields \ {"signers"}
        BY DEF TxFields
      <4> QED
        BY <3>2, <4>1, FieldShape
    <3> QED
      BY <3>1, <3>3, DoneSoFar
  <2>3. CASE ScriptAccepted(VarInt) /\ CanRead(VarIntLen + VarInt)
    <3> DEFINE t == [tx EXCEPT !.script = offset + VarIntLen]
    <3>1. /\ tx' = [tx EXCEPT !.script = offset + VarIntLen, !.script_size = VarInt]
          /\ pc' = "match" /\ raw' = raw /\ offset' = offset + (VarIntLen + VarInt)
      BY <1>3, <2>3 DEF ReadScript, GoOn
    <3>2. /\ OnlyField(tx, t, "script") /\ t.script = offset + VarIntLen /\ t.script \in Nat
      BY <1>1, <2>1 DEF OnlyField, Shape, IsTx, TxFields
    <3>3. OnlyField(t, tx', "script_size") /\ tx'.script_size = VarInt
      BY <3>1 DEF OnlyField, Shape, IsTx, TxFields
    <3> HIDE DEF t
    <3>4. {"script", "script_size", "attributes_size"} \subseteq TxFields \ {"header", "signers", "signers_size"}
      BY DEF TxFields
    <3>5. Shape(t)
      BY <3>2, <3>4, FieldShape
    <3>6. Shape(tx')
      BY <2>1, <3>3, <3>4, <3>5, FieldShape
    <3>7. tx'.script = offset + VarIntLen /\ tx'.attributes_size = tx.attributes_size
      BY <3>2, <3>3, <3>4 DEF OnlyField
    <3>8. PICK from \in 0 .. offset :
             FrontLies(raw, tx, tx.signers_size, from) /\ AttributesLie(raw, tx, from, offset)
      BY <1>1 DEF SoFar
    <3>9. FrontLies(raw, tx', tx'.signers_size, from)
      <4>1. {"header", "signers", "signers_size"} \subseteq TxFields \ {"script", "script_size"}
        BY DEF TxFields
      <4>2. tx'.header = tx.header /\ tx'.signers = tx.signers /\ tx'.signers_size = tx.signers_size
        BY <3>2, <3>3, <4>1 DEF OnlyField
      <4>3. tx.signers_size \in Nat
        BY Limits DEF Shape, IsTx
      <4> QED
        BY <3>8, <4>2, <4>3, FrontKept
    <3>10. AttributesLie(raw, tx', from, offset)
      BY <3>7, <3>8 DEF AttributesLie
    <3>11. IsCount(raw, tx'.script_size, offset, tx'.script)
      <4>1. VarInt < TooBig
        BY <2>1, <2>3, SMTT(60) DEF ScriptAccepted, TooBig
      <4> QED
        BY <1>3, <3>3, <3>7, <4>1, CountRead
    <3>12. offset' = tx'.script + tx'.script_size
      BY <1>1, <2>1, <3>1, <3>3, <3>7
    <3>13. IsScript(raw, Control) /\ ScriptRead(raw, Control) = At(raw, tx'.script, tx'.script_size)
      <4>1. Control.pc = "script" /\ Control.offset = offset
        BY <1>1 DEF Control, Ctl
      <4>2. TraceTo(raw, Control)
        BY DEF Reached, TraceTo
      <4>3. NumberLen(raw, offset) = VarIntLen /\ Number(raw, offset) = VarInt
        BY NumberIsRead
      <4>4. /\ ScriptEnd(raw, Control) <= Len(raw)
            /\ Control.offset + NumberLen(raw, Control.offset) <= Len(raw) /\ Control.offset \in Nat
        BY <1>1, <1>3, <2>1, <2>3, <4>1, <4>3 DEF ScriptEnd, CanRead, HasVarInt
      <4> QED
        BY <3>3, <3>7, <4>1, <4>2, <4>3, <4>4 DEF IsScript, ScriptRead
    <3>14. from \in 0 .. offset' /\ offset \in from .. offset'
      BY <1>1, <2>1, <3>1
    <3>15. /\ \E from_ \in 0 .. offset' :
                 /\ FrontLies(raw', tx', tx'.signers_size, from_)
                 /\ \E to \in from_ .. offset' :
                       AttributesLie(raw', tx', from_, to) /\ IsCount(raw', tx'.script_size, to, tx'.script)
           /\ \E c : IsScript(raw', c) /\ ScriptRead(raw', c) = At(raw', tx'.script, tx'.script_size)
      BY <3>1, <3>9, <3>10, <3>11, <3>13, <3>14
    <3>16. SoFar'
      BY <3>1, <3>12, <3>15 DEF SoFar
    <3> QED
      BY <3>6, <3>16
  <2> QED
    BY <2>2, <2>3
<1> QED
  BY <1>2, <1>3

---------------------------------------------------------------------------
(* The places of a parse, each of which it comes to once.                  *)

\* More data leave the parse of what is there as it was.
LEMMA TraceGrows ==
    ASSUME NEW a \in Bytes, NEW b \in Bytes, Begins(a, b), NEW c, TraceTo(a, c)
    PROVE  TraceTo(b, c)
<1> PICK m \in Nat : \E f : Trace(a, m, f) /\ f[m] = c
  BY DEF TraceTo
<1>1. PICK f : Trace(a, m, f) /\ f[m] = c
  OBVIOUS
<1>2. ASSUME NEW k \in 1 .. m PROVE Steps(b, f[k - 1], f[k])
  <2>1. k - 1 \in 0 .. m
    OBVIOUS
  <2>2. f[k - 1].offset \in Nat
    BY <1>1, <2>1, TraceOffsets
  <2>3. Steps(a, f[k - 1], f[k])
    BY <1>1 DEF Trace
  <2> QED
    BY <2>2, <2>3, StepsKept
<1>3. Trace(b, m, f)
  BY <1>1, <1>2 DEF Trace
<1> QED
  BY <1>1, <1>3 DEF TraceTo

\* Numbers are natural ones.
LEMMA NumberType ==
    ASSUME NEW data \in Bytes, NEW o \in Nat, o + NumberLen(data, o) <= Len(data)
    PROVE  NumberLen(data, o) \in Nat \ {0} /\ Number(data, o) \in Nat
<1>1. NumberLen(data, o) \in {1, 3, 5, 9} /\ Len(data) \in Nat
  BY DEF NumberLen, Bytes
<1>2. \A k \in 1 .. Len(data) : data[k] \in Nat
  <2>1. data \in Seq(Byte) /\ Byte \subseteq Nat
    BY DEF Bytes, Byte
  <2>2. \A k \in 1 .. Len(data) : data[k] \in Byte
    BY <2>1, ElementOfSeq
  <2> QED
    BY <2>1, <2>2
<1>3. CASE NumberLen(data, o) = 1
  BY <1>1, <1>2, <1>3 DEF Number
<1>4. CASE NumberLen(data, o) # 1
  <2>1. data[o + 2] \in Nat /\ data[o + 3] \in Nat
    BY <1>1, <1>2, <1>4
  <2>2. Number(data, o) = TooBig \/ Number(data, o) = data[o + 2] + 256 * data[o + 3]
    BY <1>4 DEF Number
  <2>3. TooBig \in Nat /\ data[o + 2] + 256 * data[o + 3] \in Nat
    BY <2>1 DEF TooBig
  <2> QED
    BY <1>1, <2>2, <2>3
<1> QED
  BY <1>1, <1>3, <1>4

\* Nor do more data change the script that was read.
LEMMA ScriptGrows ==
    ASSUME NEW a \in Bytes, NEW b \in Bytes, Begins(a, b), NEW c, IsScript(a, c)
    PROVE  IsScript(b, c) /\ ScriptRead(b, c) = ScriptRead(a, c)
<1> DEFINE o == c.offset
           n == NumberLen(a, o)
           v == Number(a, o)
           p == o + n
<1>1. /\ o \in Nat /\ Len(a) \in Nat /\ Len(b) \in Nat /\ Len(a) <= Len(b)
      /\ o + n <= Len(a) /\ o + n + v <= Len(a) /\ c.pc = "script" /\ TraceTo(b, c)
  BY TraceGrows DEF IsScript, ScriptEnd, Bytes, Begins
<1>2. n \in Nat /\ v \in Nat
  BY <1>1, NumberType
<1>3. NumberLen(b, o) = n /\ Number(b, o) = v
  BY <1>1, NumbersAgree
<1>4. IsScript(b, c)
  BY <1>1, <1>2, <1>3 DEF IsScript, ScriptEnd
<1>5. p \in Nat /\ p + v <= Len(a)
  BY <1>1, <1>2
<1>6. ScriptRead(a, c) = SubSeq(a, p + 1, p + v) /\ ScriptRead(b, c) = SubSeq(b, p + 1, p + v)
  BY <1>3 DEF ScriptRead, At
<1>7. a \in Seq(Byte) /\ b \in Seq(Byte) /\ \A k \in 1 .. Len(a) : a[k] = b[k]
  BY DEF Bytes, Begins
<1> HIDE DEF o, n, v, p
<1>8. SubSeq(a, p + 1, p + v) = SubSeq(b, p + 1, p + v)
  BY <1>1, <1>2, <1>5, <1>7
<1> QED
  BY <1>4, <1>6, <1>8

\* A parse comes to one script.
LEMMA OneScript ==
    ASSUME NEW data \in Bytes, NEW c, NEW d, IsScript(data, c), IsScript(data, d)
    PROVE  c = d
<1>1. ASSUME NEW m \in Nat, NEW f, Trace(data, m, f), f[m].pc = "script",
             NEW n \in Nat, NEW g, Trace(data, n, g), g[n].pc = "script", m < n
      PROVE  FALSE
  <2>1. Begins(data, data)
    BY DEF Begins, Bytes
  <2>2. g[m].pc = "script"
    <3>1. \A k \in 0 .. m : k <= n => f[k] = g[k]
      BY <1>1, <2>1, TracesAgree
    <3> QED
      BY <1>1, <3>1
  <2>3. g[m + 1].pc = "match"
    <3>1. m + 1 \in 1 .. n /\ m + 1 - 1 = m
      BY <1>1
    <3>2. Steps(data, g[m], g[m + 1])
      BY <1>1, <3>1 DEF Trace
    <3> QED
      BY <2>2, <3>2 DEF Steps, Advance, Plain, Ctl
  <2>4. m + 1 < n
    BY <1>1, <2>3
  <2>5. Steps(data, g[m + 1], g[m + 2])
    <3>1. m + 2 \in 1 .. n /\ m + 2 - 1 = m + 1
      BY <2>4
    <3> QED
      BY <1>1, <3>1 DEF Trace
  <2> QED
    BY <2>3, <2>5 DEF Steps
<1> PICK m \in Nat : \E f : Trace(data, m, f) /\ f[m] = c
  BY DEF IsScript, TraceTo
<1>2. PICK f : Trace(data, m, f) /\ f[m] = c
  OBVIOUS
<1> PICK n \in Nat : \E g : Trace(data, n, g) /\ g[n] = d
  BY DEF IsScript, TraceTo
<1>3. PICK g : Trace(data, n, g) /\ g[n] = d
  OBVIOUS
<1>4. f[m].pc = "script" /\ g[n].pc = "script"
  BY <1>2, <1>3 DEF IsScript
<1>5. m = n
  <2>1. ~(m < n)
    BY <1>1, <1>2, <1>3, <1>4
  <2>2. ~(n < m)
    BY <1>1, <1>2, <1>3, <1>4
  <2> QED
    BY <2>1, <2>2
<1>6. f[m] = g[m]
  <2>1. Begins(data, data)
    BY DEF Begins, Bytes
  <2>2. \A k \in 0 .. m : k <= n => f[k] = g[k]
    BY <1>2, <1>3, <2>1, TracesAgree
  <2> QED
    BY <1>5, <2>2
<1> QED
  BY <1>2, <1>3, <1>5, <1>6

\* Behind the place where the list l of signer s begins.
Beyond(c, s, l) ==
    \/ c.pc \in {"attributes_length", "attribute", "script", "match"}
    \/ c.pc \in {"account", "scope", "list", "item"} /\ c.i \in Nat /\ c.i > s
    \/ c.pc \in {"list", "item"} /\ c.i = s /\ l = "contracts" /\ c.list = "groups"
    \/ c.pc = "item" /\ c.i = s /\ c.list = l

\* There is no way back.
LEMMA StaysBeyond ==
    ASSUME NEW data, NEW c, NEW d, NEW s \in Nat, NEW l \in Lists, Steps(data, c, d),
           (c.pc = "list" /\ c.i = s /\ c.list = l) \/ Beyond(c, s, l)
    PROVE  Beyond(d, s, l)
<1>1. d = Advance(data, c)
  BY DEF Steps
<1>2. ASSUME NEW n, c.pc \in {"list", "item"}, d = AfterList(c, n)
      PROVE  Beyond(d, s, l)
  <2>1. CASE c.list = "contracts"
    <3>1. d.pc = "list" /\ d.i = c.i /\ d.list = "groups"
      BY <1>2, <2>1 DEF AfterList, Ctl
    <3> QED
      BY <1>2, <2>1, <3>1 DEF Beyond, Lists
  <2>2. CASE c.list # "contracts"
    <3>1. \/ d.pc = "account" /\ d.i = c.i + 1
          \/ d.pc = "attributes_length"
      BY <1>2, <2>2 DEF AfterList, Ctl
    <3>2. c.i \in Nat /\ c.i >= s
      BY <1>2, <2>2 DEF Beyond
    <3> QED
      BY <3>1, <3>2 DEF Beyond
  <2> QED
    BY <2>1, <2>2
<1>3. CASE c.pc \in {"attributes_length", "attribute", "script"}
  <2>1. d.pc \in {"attribute", "script", "match"}
    BY <1>1, <1>3 DEF Advance, Ctl, Plain
  <2> QED
    BY <2>1 DEF Beyond
<1>4. CASE c.pc = "account" \/ c.pc = "scope"
  <2>1. d.pc \in {"scope", "list"} /\ d.i = c.i
    BY <1>1, <1>4 DEF Advance, Ctl
  <2> QED
    BY <1>4, <2>1 DEF Beyond
<1>5. CASE c.pc = "list"
  <2>1. \/ \E n : d = AfterList(c, n)
        \/ d.pc = "item" /\ d.i = c.i /\ d.list = c.list
    BY <1>1, <1>5 DEF Advance, Ctl
  <2> QED
    BY <1>2, <1>5, <2>1 DEF Beyond
<1>6. CASE c.pc = "item"
  <2>1. \/ \E n : d = AfterList(c, n)
        \/ d.pc = "item" /\ d.i = c.i /\ d.list = c.list
    BY <1>1, <1>6 DEF Advance, Ctl
  <2> QED
    BY <1>2, <1>6, <2>1 DEF Beyond
<1> QED
  BY <1>3, <1>4, <1>5, <1>6 DEF Steps, Beyond

\* A parse comes to one list of its kind of every signer.
LEMMA OneList ==
    ASSUME NEW data \in Bytes, NEW c, NEW d, TraceTo(data, c), TraceTo(data, d),
           NEW s \in Nat, NEW l \in Lists,
           c.pc = "list", c.i = s, c.list = l, d.pc = "list", d.i = s, d.list = l
    PROVE  c = d
<1> DEFINE Here(e) == e.pc = "list" /\ e.i = s /\ e.list = l
<1>1. ASSUME NEW m \in Nat, NEW f, Trace(data, m, f), Here(f[m]),
             NEW n \in Nat, NEW g, Trace(data, n, g), Here(g[n]), m < n
      PROVE  FALSE
  <2>1. Begins(data, data)
    BY DEF Begins, Bytes
  <2>2. g[m] = f[m]
    <3>1. \A k \in 0 .. m : k <= n => f[k] = g[k]
      BY <1>1, <2>1, TracesAgree
    <3> QED
      BY <1>1, <3>1
  <2> DEFINE T == {k \in m + 1 .. n : ~Beyond(g[k], s, l)}
  <2>3. n \in T
    <3>1. ~Beyond(g[n], s, l)
      BY <1>1 DEF Beyond
    <3> QED
      BY <1>1, <3>1
  <2>4. PICK k \in T : \A p \in T : k <= p
    <3>1. T \in SUBSET Nat /\ T # {}
      BY <2>3
    <3> QED
      BY <3>1, LeastNumber, Zenon
  <2>5. k \in m + 1 .. n /\ ~Beyond(g[k], s, l) /\ k - 1 \in Nat
    BY <2>4
  <2>6. Here(g[k - 1]) \/ Beyond(g[k - 1], s, l)
    <3>1. CASE k = m + 1
      <4>1. k - 1 = m
        BY <3>1
      <4> QED
        BY <1>1, <2>2, <4>1
    <3>2. CASE k # m + 1
      <4>1. k - 1 \in m + 1 .. n /\ ~(k <= k - 1)
        BY <2>5, <3>2
      <4> QED
        BY <2>4, <4>1
    <3> QED
      BY <3>1, <3>2
  <2>7. Steps(data, g[k - 1], g[k])
    <3>1. k \in 1 .. n
      BY <2>5
    <3> QED
      BY <1>1, <3>1 DEF Trace
  <2>8. Beyond(g[k], s, l)
    BY <2>6, <2>7, StaysBeyond
  <2> QED
    BY <2>5, <2>8
<1> PICK m \in Nat : \E f : Trace(data, m, f) /\ f[m] = c
  BY DEF TraceTo
<1>2. PICK f : Trace(data, m, f) /\ f[m] = c
  OBVIOUS
<1> PICK n \in Nat : \E g : Trace(data, n, g) /\ g[n] = d
  BY DEF TraceTo
<1>3. PICK g : Trace(data, n, g) /\ g[n] = d
  OBVIOUS
<1>4. Here(f[m]) /\ Here(g[n])
  BY <1>2, <1>3
<1> HIDE DEF Here
<1>5. m = n
  <2>1. ~(m < n)
    BY <1>1, <1>2, <1>3, <1>4
  <2>2. ~(n < m)
    BY <1>1, <1>2, <1>3, <1>4
  <2> QED
    BY <2>1, <2>2
<1>6. f[m] = g[m]
  <2>1. Begins(data, data)
    BY DEF Begins, Bytes
  <2>2. \A k \in 0 .. m : k <= n => f[k] = g[k]
    BY <1>2, <1>3, <2>1, TracesAgree
  <2> QED
    BY <1>5, <2>2
<1> QED
  BY <1>2, <1>3, <1>5, <1>6

---------------------------------------------------------------------------
(* What the matchers find, when they have looked at the same script before. *)

\* The fields they write, one by one.
LEMMA TransferFields ==
    ASSUME NEW S, NEW t, TxFields \subseteq DOMAIN t
    PROVE  LET u == MatchTransfer(S, t)
           IN  /\ u.amount = IF HasAmount(S) THEN Amount(S) ELSE t.amount
               /\ u.dst = IF HasDestination(S) THEN At(S, DestinationAt(S), UINT160_LEN) ELSE t.dst
               /\ u.is_neo = IF TransfersNeo(S) THEN TRUE ELSE t.is_neo
               /\ u.is_system_asset_transfer =
                     IF IsTransferOf(S, NeoHash) \/ IsTransferOf(S, GasHash) THEN TRUE
                     ELSE t.is_system_asset_transfer
               /\ u.is_remove_vote = t.is_remove_vote /\ u.vote_to = t.vote_to
               /\ u.is_vote_script = t.is_vote_script
               /\ TxFields \subseteq DOMAIN u
<1> DEFINE v1 == IF HasAmount(S) THEN Amount(S) ELSE t.amount
           v2 == IF HasDestination(S) THEN At(S, DestinationAt(S), UINT160_LEN) ELSE t.dst
           v3 == IF TransfersNeo(S) THEN TRUE ELSE t.is_neo
           v4 == IF IsTransferOf(S, NeoHash) \/ IsTransferOf(S, GasHash) THEN TRUE
                 ELSE t.is_system_asset_transfer
           u  == MatchTransfer(S, t)
<1>1. u = [t EXCEPT !.amount = v1, !.dst = v2, !.is_neo = v3, !.is_system_asset_transfer = v4]
  BY Zenon DEF MatchTransfer
<1>2. u.amount = v1 /\ u.dst = v2 /\ u.is_neo = v3 /\ u.is_system_asset_transfer = v4
  <2> HIDE DEF v1, v2, v3, v4, u
  <2> QED
    BY <1>1 DEF TxFields
<1>3. /\ u.is_remove_vote = t.is_remove_vote /\ u.vote_to = t.vote_to
      /\ u.is_vote_script = t.is_vote_script /\ TxFields \subseteq DOMAIN u
  <2> HIDE DEF v1, v2, v3, v4, u
  <2> QED
    BY <1>1 DEF TxFields
<1> QED
  BY <1>2, <1>3, Zenon

\* The same of votes.
LEMMA VoteFields ==
    ASSUME NEW S, NEW t, TxFields \subseteq DOMAIN t
    PROVE  LET u == MatchVote(S, t)
           IN  /\ u.is_remove_vote =
                     IF Retracts(S) THEN TRUE ELSE IF HasKey(S) THEN FALSE ELSE t.is_remove_vote
               /\ u.vote_to = IF HasKey(S) THEN At(S, 2, ECPOINT_LEN) ELSE t.vote_to
               /\ u.is_vote_script = IF IsVote(S) THEN TRUE ELSE t.is_vote_script
               /\ u.amount = t.amount /\ u.dst = t.dst /\ u.is_neo = t.is_neo
               /\ u.is_system_asset_transfer = t.is_system_asset_transfer
<1> DEFINE v1 == IF Retracts(S) THEN TRUE ELSE IF HasKey(S) THEN FALSE ELSE t.is_remove_vote
           v2 == IF HasKey(S) THEN At(S, 2, ECPOINT_LEN) ELSE t.vote_to
           v3 == IF IsVote(S) THEN TRUE ELSE t.is_vote_script
           u  == MatchVote(S, t)
<1>1. u = [t EXCEPT !.is_remove_vote = v1, !.vote_to = v2, !.is_vote_script = v3]
  BY Zenon DEF MatchVote
<1>2. u.is_remove_vote = v1 /\ u.vote_to = v2 /\ u.is_vote_script = v3
  <2> HIDE DEF v1, v2, v3, u
  <2> QED
    BY <1>1 DEF TxFields
<1>3. /\ u.amount = t.amount /\ u.dst = t.dst /\ u.is_neo = t.is_neo
      /\ u.is_system_asset_transfer = t.is_system_asset_transfer
  <2> HIDE DEF v1, v2, v3, u
  <2> QED
    BY <1>1 DEF TxFields
<1> QED
  BY <1>2, <1>3, Zenon

\* A transaction that holds nothing, or what is found in this script, comes to hold
\* what is found in this script.
LEMMA MatchTwice ==
    ASSUME NEW S, NEW t, Shape(t),
           (\A f \in MatchFields : t[f] = EmptyTx[f]) \/ MatchedAfresh(t, S)
    PROVE  MatchedAfresh(MatchScript(S, t), S)
<1> DEFINE e  == EmptyTx
           e1 == MatchTransfer(S, e)
           m  == MatchScript(S, e)
           t1 == MatchTransfer(S, t)
           u  == MatchScript(S, t)
<1>1. TxFields \subseteq DOMAIN t /\ TxFields \subseteq DOMAIN e
  BY EmptyShape DEF Shape, IsTx
<1>2. /\ t.amount = e.amount /\ t.dst = e.dst /\ t.is_neo = e.is_neo
      /\ t.is_system_asset_transfer = e.is_system_asset_transfer
      /\ t.is_remove_vote = e.is_remove_vote /\ t.vote_to = e.vote_to /\ t.is_vote_script = e.is_vote_script
      \/
      /\ t.amount = m.amount /\ t.dst = m.dst /\ t.is_neo = m.is_neo
      /\ t.is_system_asset_transfer = m.is_system_asset_transfer
      /\ t.is_remove_vote = m.is_remove_vote /\ t.vote_to = m.vote_to /\ t.is_vote_script = m.is_vote_script
  BY DEF MatchFields, MatchedAfresh
<1>3. m = IF e1.is_system_asset_transfer THEN e1 ELSE MatchVote(S, e1)
  BY DEF MatchScript
<1>4. u = IF t1.is_system_asset_transfer THEN t1 ELSE MatchVote(S, t1)
  BY DEF MatchScript
<1>5. /\ u.is_system_asset_transfer = t1.is_system_asset_transfer
      /\ m.is_system_asset_transfer = e1.is_system_asset_transfer
  <2>1. TxFields \subseteq DOMAIN t1 /\ TxFields \subseteq DOMAIN e1
    BY <1>1, TransferFields
  <2> HIDE DEF e, m, u, e1, t1
  <2>2. ASSUME NEW w, TxFields \subseteq DOMAIN w
        PROVE  MatchVote(S, w).is_system_asset_transfer = w.is_system_asset_transfer
    BY <2>2, VoteFields
  <2> QED
    BY <1>3, <1>4, <2>1, <2>2
<1>6. /\ m.amount = e1.amount /\ m.dst = e1.dst /\ m.is_neo = e1.is_neo
      /\ u.amount = t1.amount /\ u.dst = t1.dst /\ u.is_neo = t1.is_neo
  <2>1. TxFields \subseteq DOMAIN t1 /\ TxFields \subseteq DOMAIN e1
    BY <1>1, TransferFields
  <2> HIDE DEF e, m, u, e1, t1
  <2>2. ASSUME NEW w, TxFields \subseteq DOMAIN w
        PROVE  LET v == MatchVote(S, w) IN v.amount = w.amount /\ v.dst = w.dst /\ v.is_neo = w.is_neo
    BY <2>2, VoteFields
  <2> QED
    BY <1>3, <1>4, <2>1, <2>2
<1>7. t1.amount = e1.amount
  <2>1. /\ t1.amount = IF HasAmount(S) THEN Amount(S) ELSE t.amount
        /\ e1.amount = IF HasAmount(S) THEN Amount(S) ELSE e.amount
    BY <1>1, TransferFields
  <2> HIDE DEF e, m, u, e1, t1
  <2> QED
    BY <1>2, <1>6, <2>1
<1>8. t1.dst = e1.dst
  <2>1. /\ t1.dst = IF HasDestination(S) THEN At(S, DestinationAt(S), UINT160_LEN) ELSE t.dst
        /\ e1.dst = IF HasDestination(S) THEN At(S, DestinationAt(S), UINT160_LEN) ELSE e.dst
    BY <1>1, TransferFields
  <2> HIDE DEF e, m, u, e1, t1
  <2> QED
    BY <1>2, <1>6, <2>1
<1>9. t1.is_neo = e1.is_neo
  <2>1. /\ t1.is_neo = IF TransfersNeo(S) THEN TRUE ELSE t.is_neo
        /\ e1.is_neo = IF TransfersNeo(S) THEN TRUE ELSE e.is_neo
    BY <1>1, TransferFields
  <2> HIDE DEF e, m, u, e1, t1
  <2> QED
    BY <1>2, <1>6, <2>1
<1>10. t1.is_system_asset_transfer = e1.is_system_asset_transfer
  <2> DEFINE P == IsTransferOf(S, NeoHash) \/ IsTransferOf(S, GasHash)
  <2>1. /\ t1.is_system_asset_transfer = IF P THEN TRUE ELSE t.is_system_asset_transfer
        /\ e1.is_system_asset_transfer = IF P THEN TRUE ELSE e.is_system_asset_transfer
    BY <1>1, TransferFields
  <2> HIDE DEF e, m, u, e1, t1, P
  <2> QED
    BY <1>2, <1>5, <2>1
<1>11. /\ t1.is_remove_vote = t.is_remove_vote /\ t1.vote_to = t.vote_to
       /\ t1.is_vote_script = t.is_vote_script /\ TxFields \subseteq DOMAIN t1
       /\ e1.is_remove_vote = e.is_remove_vote /\ e1.vote_to = e.vote_to
       /\ e1.is_vote_script = e.is_vote_script /\ TxFields \subseteq DOMAIN e1
  BY <1>1, TransferFields
<1>12. u.is_remove_vote = m.is_remove_vote /\ u.vote_to = m.vote_to /\ u.is_vote_script = m.is_vote_script
  <2>1. CASE e1.is_system_asset_transfer
    <3>1. m = e1 /\ u = t1
      BY <1>3, <1>4, <1>10, <2>1
    <3> HIDE DEF e, m, u, e1, t1
    <3> QED
      BY <1>2, <1>11, <3>1
  <2>2. CASE ~e1.is_system_asset_transfer
    <3>1. m = MatchVote(S, e1) /\ u = MatchVote(S, t1)
      BY <1>3, <1>4, <1>10, <2>2
    <3>2. /\ u.is_remove_vote =
                IF Retracts(S) THEN TRUE ELSE IF HasKey(S) THEN FALSE ELSE t1.is_remove_vote
          /\ u.vote_to = IF HasKey(S) THEN At(S, 2, ECPOINT_LEN) ELSE t1.vote_to
          /\ u.is_vote_script = IF IsVote(S) THEN TRUE ELSE t1.is_vote_script
      <4>1. TxFields \subseteq DOMAIN t1
        BY <1>11
      <4>2. LET v == MatchVote(S, t1)
            IN  /\ v.is_remove_vote =
                      IF Retracts(S) THEN TRUE ELSE IF HasKey(S) THEN FALSE ELSE t1.is_remove_vote
                /\ v.vote_to = IF HasKey(S) THEN At(S, 2, ECPOINT_LEN) ELSE t1.vote_to
                /\ v.is_vote_script = IF IsVote(S) THEN TRUE ELSE t1.is_vote_script
        <5> HIDE DEF t1
        <5> QED
          BY <4>1, VoteFields
      <4> HIDE DEF e, m, u, e1, t1
      <4> QED
        BY <3>1, <4>2
    <3>3. /\ m.is_remove_vote =
                IF Retracts(S) THEN TRUE ELSE IF HasKey(S) THEN FALSE ELSE e1.is_remove_vote
          /\ m.vote_to = IF HasKey(S) THEN At(S, 2, ECPOINT_LEN) ELSE e1.vote_to
          /\ m.is_vote_script = IF IsVote(S) THEN TRUE ELSE e1.is_vote_script
      <4>1. TxFields \subseteq DOMAIN e1
        BY <1>11
      <4>2. LET v == MatchVote(S, e1)
            IN  /\ v.is_remove_vote =
                      IF Retracts(S) THEN TRUE ELSE IF HasKey(S) THEN FALSE ELSE e1.is_remove_vote
                /\ v.vote_to = IF HasKey(S) THEN At(S, 2, ECPOINT_LEN) ELSE e1.vote_to
                /\ v.is_vote_script = IF IsVote(S) THEN TRUE ELSE e1.is_vote_script
        <5> HIDE DEF e1
        <5> QED
          BY <4>1, VoteFields
      <4> HIDE DEF e, m, u, e1, t1
      <4> QED
        BY <3>1, <4>2
    <3> HIDE DEF e, m, u, e1, t1
    <3> QED
      BY <1>2, <1>11, <3>2, <3>3
  <2> QED
    BY <2>1, <2>2
<1> HIDE DEF e, e1, t1
<1>13. \A f \in MatchFields : u[f] = m[f]
  <2> HIDE DEF m, u
  <2> QED
    BY <1>5, <1>6, <1>7, <1>8, <1>9, <1>10, <1>12 DEF MatchFields
<1> QED
  BY <1>13 DEF MatchedAfresh, e

---------------------------------------------------------------------------
(* What an attempt leaves behind.                                          *)

\* A list that has items has them from where a parse of the upload comes to a list
\* with a flag, and what was found was found in the script it comes to.
ListLeft(data, t) ==
    \A s \in 1 .. MaxSigners, l \in Lists :
       t.signers[s].size[l] # 0 =>
          \E c : TraceTo(data, c) /\ c.pc = "list" /\ c.i = s /\ c.list = l /\ HasFlag(l, c.scope)
ScriptLeft(data, t) ==
    \/ \A f \in MatchFields : t[f] = EmptyTx[f]
    \/ \E c : IsScript(data, c) /\ MatchedAfresh(t, ScriptRead(data, c))

Left == ListLeft(raw, tx) /\ ScriptLeft(raw, tx)

\* What else is written or received does not matter.
SameLeft(t, u) ==
    /\ \A s \in 1 .. MaxSigners, l \in Lists : u.signers[s].size[l] = t.signers[s].size[l]
    /\ \A f \in MatchFields : u[f] = t[f]

LEMMA LeftKept ==
    ASSUME NEW data, NEW t, NEW u, SameLeft(t, u), ListLeft(data, t), ScriptLeft(data, t)
    PROVE  ListLeft(data, u) /\ ScriptLeft(data, u)
<1>1. ListLeft(data, u)
  BY DEF SameLeft, ListLeft
<1>2. ScriptLeft(data, u)
  BY DEF SameLeft, ScriptLeft, MatchedAfresh
<1> QED
  BY <1>1, <1>2

\* Nothing is left in a context that was just cleared.
LEMMA EmptyLeft == ASSUME NEW data PROVE ListLeft(data, EmptyTx) /\ ScriptLeft(data, EmptyTx)
<1>1. EmptyTx.signers = [s \in 1 .. MaxSigners |-> EmptySigner]
  BY DEF EmptyTx
<1>2. EmptySigner.size = [l \in Lists |-> 0]
  BY DEF EmptySigner
<1> QED
  BY <1>1, <1>2 DEF ListLeft, ScriptLeft

\* More data keep what is left in its place.
LEMMA LeftGrows ==
    ASSUME raw \in Bytes, raw' \in NextData, tx' = tx, Left
    PROVE  Left'
<1>1. /\ raw' \in Bytes /\ Len(raw') = Len(raw) + 1
      /\ \A n \in 0 .. Len(raw) : SubSeq(raw', 1, n) = SubSeq(raw, 1, n)
  BY NextDataAppends
<1>2. Begins(raw, raw')
  <2>1. raw \in Seq(Byte) /\ raw' \in Seq(Byte)
    BY <1>1 DEF Bytes
  <2>2. ASSUME NEW k \in 1 .. Len(raw) PROVE raw[k] = raw'[k]
    <3>1. SubSeq(raw', 1, k) = SubSeq(raw, 1, k)
      BY <1>1, <2>1
    <3>2. SubSeq(raw', 1, k)[k] = raw'[k] /\ SubSeq(raw, 1, k)[k] = raw[k]
      BY <1>1, <2>1
    <3> QED
      BY <3>1, <3>2
  <2> QED
    BY <1>1, <2>1, <2>2 DEF Begins
<1>3. ListLeft(raw', tx)
  BY <1>1, <1>2, TraceGrows DEF Left, ListLeft
<1>4. ScriptLeft(raw', tx)
  <2>1. CASE \A f \in MatchFields : tx[f] = EmptyTx[f]
    BY <2>1 DEF ScriptLeft
  <2>2. CASE \E c : IsScript(raw, c) /\ MatchedAfresh(tx, ScriptRead(raw, c))
    <3>1. PICK c : IsScript(raw, c) /\ MatchedAfresh(tx, ScriptRead(raw, c))
      BY <2>2
    <3>2. IsScript(raw', c) /\ ScriptRead(raw', c) = ScriptRead(raw, c)
      BY <1>1, <1>2, <3>1, ScriptGrows
    <3> QED
      BY <3>1, <3>2 DEF ScriptLeft
  <2> QED
    BY <2>1, <2>2 DEF Left, ScriptLeft
<1> QED
  BY <1>3, <1>4 DEF Left

\* Steps of the parser that write neither a size of a list nor what is found.
LEMMA ReadKeeps ==
    ASSUME Inside, Shape(tx), Read, ~ReadListLength, ~Match
    PROVE  SameLeft(tx, tx')
<1>1. MatchFields \subseteq TxFields \ {"header", "signers", "signers_size", "attributes",
                                         "attributes_size", "script", "script_size"}
  BY DEF MatchFields, TxFields
<1>2. ASSUME NEW f \in TxFields \ MatchFields, f # "signers", OnlyField(tx, tx', f)
      PROVE  SameLeft(tx, tx')
  <2>1. "signers" \in TxFields \ {f}
    BY <1>2 DEF TxFields
  <2> QED
    BY <1>1, <1>2, <2>1 DEF OnlyField, SameLeft
<1>3. ASSUME NEW f \in SignerFields, f # "size", i \in 1 .. MaxSigners, OnlySigner(tx, tx', i, f)
      PROVE  SameLeft(tx, tx')
  <2>1. "size" \in SignerFields \ {f}
    BY <1>3 DEF SignerFields
  <2>2. ASSUME NEW r \in 1 .. MaxSigners PROVE tx'.signers[r].size = tx.signers[r].size
    BY <1>3, <2>1 DEF OnlySigner
  <2> QED
    BY <1>1, <1>3, <2>2 DEF OnlySigner, OnlyField, SameLeft
<1>4. UNCHANGED tx => SameLeft(tx, tx')
  BY DEF SameLeft
<1>5. CASE ReadHeader
  <2>1. OnlyField(tx, tx', "header") /\ "header" \in TxFields \ MatchFields /\ "header" # "signers"
    BY <1>5 DEF ReadHeader, OnlyField, Shape, IsTx, TxFields, MatchFields
  <2> QED
    BY <1>2, <2>1
<1>6. CASE ReadSignersLength
  <2>1. "signers_size" \in TxFields \ MatchFields /\ "signers_size" # "signers"
    BY DEF TxFields, MatchFields
  <2>2. UNCHANGED tx \/ OnlyField(tx, tx', "signers_size")
    BY <1>6 DEF ReadSignersLength, Fail, OnlyField, Shape, IsTx, TxFields
  <2> QED
    BY <1>2, <1>4, <2>1, <2>2
<1>7. CASE ReadAttributesLength
  <2>1. "attributes_size" \in TxFields \ MatchFields /\ "attributes_size" # "signers"
    BY DEF TxFields, MatchFields
  <2>2. UNCHANGED tx \/ OnlyField(tx, tx', "attributes_size")
    BY <1>7 DEF ReadAttributesLength, Fail, OnlyField, Shape, IsTx, TxFields
  <2> QED
    BY <1>2, <1>4, <2>1, <2>2
<1>8. CASE ReadAttribute
  <2>1. "attributes" \in TxFields \ MatchFields /\ "attributes" # "signers"
    BY DEF TxFields, MatchFields
  <2>2. UNCHANGED tx \/ OnlyField(tx, tx', "attributes")
    BY <1>8 DEF ReadAttribute, Fail, OnlyField, Shape, IsTx, TxFields
  <2> QED
    BY <1>2, <1>4, <2>1, <2>2
<1>9. CASE ReadScript
  <2>1. ASSUME NEW v, NEW n, tx' = [tx EXCEPT !.script = v, !.script_size = n] \/ tx' = [tx EXCEPT !.script = v]
        PROVE  SameLeft(tx, tx')
    <3>1. tx'.signers = tx.signers /\ \A f \in MatchFields : tx'[f] = tx[f]
      BY <1>1, <2>1 DEF Shape, IsTx, TxFields
    <3> QED
      BY <3>1 DEF SameLeft
  <2>2. \/ UNCHANGED tx
        \/ tx' = [tx EXCEPT !.script = offset + VarIntLen, !.script_size = VarInt]
        \/ tx' = [tx EXCEPT !.script = offset + VarIntLen]
    BY <1>9, Zenon DEF ReadScript, Fail
  <2> QED
    BY <1>4, <2>1, <2>2
<1>10. CASE ReadAccount \/ ReadScope \/ ReadItem
  <2>1. i \in 1 .. MaxSigners /\ (ReadItem => list \in Lists /\ pc = "item")
    <3>1. pc \in {"account", "scope", "list", "item"}
      BY <1>10 DEF ReadAccount, ReadScope, ReadItem
    <3> QED
      BY <3>1, SignerRead DEF ReadItem, Inside, Position
  <2>2. {"account", "scope", "allowed"} \subseteq SignerFields \ {"size"}
    BY DEF SignerFields
  <2>3. CASE ReadAccount
    <3>1. OnlySigner(tx, tx', i, "account")
      BY <2>1, <2>3 DEF ReadAccount, OnlySigner, OnlyField, Shape, IsTx, TxFields, SignerFields
    <3> QED
      BY <1>3, <2>1, <2>2, <3>1
  <2>4. CASE ReadScope
    <3>1. UNCHANGED tx \/ OnlySigner(tx, tx', i, "scope")
      BY <2>1, <2>4 DEF ReadScope, OnlySigner, OnlyField, Shape, IsTx, TxFields, SignerFields
    <3> QED
      BY <1>3, <1>4, <2>1, <2>2, <3>1
  <2>5. CASE ReadItem
    <3> DEFINE v == [tx.signers[i].allowed EXCEPT ![list][j] = offset]
    <3>1. tx' = [tx EXCEPT !.signers[i].allowed = v]
      BY <2>5 DEF ReadItem
    <3> HIDE DEF v
    <3>2. OnlySigner(tx, tx', i, "allowed")
      BY <2>1, <3>1 DEF OnlySigner, OnlyField, Shape, IsTx, TxFields, SignerFields
    <3> QED
      BY <1>3, <2>1, <2>2, <3>2
  <2> QED
    BY <1>10, <2>3, <2>4, <2>5
<1> QED
  BY <1>5, <1>6, <1>7, <1>8, <1>9, <1>10 DEF Read

\* A list without a flag has no items: the one place where it could have got them is here.
LEMMA ListIsEmpty ==
    ASSUME Inside, Reached, ListLeft(raw, tx), pc = "list", ~HasFlag(list, tx.signers[i].scope)
    PROVE  tx.signers[i].size[list] = 0
<1>1. i \in 1 .. MaxSigners /\ list \in Lists /\ i \in Nat /\ raw \in Bytes
  <2>1. pc \in {"account", "scope", "list", "item"}
    OBVIOUS
  <2> QED
    BY <2>1, SignerRead, Limits DEF Inside, Position
<1> SUFFICES ASSUME tx.signers[i].size[list] # 0 PROVE FALSE
  OBVIOUS
<1>2. PICK c : TraceTo(raw, c) /\ c.pc = "list" /\ c.i = i /\ c.list = list /\ HasFlag(list, c.scope)
  BY <1>1 DEF ListLeft
<1>3. /\ Control.pc = "list" /\ Control.i = i /\ Control.list = list
      /\ Control.scope = tx.signers[i].scope
  BY DEF Control, Ctl
<1>4. TraceTo(raw, Control)
  BY DEF Reached, TraceTo
<1>5. c = Control
  <2> DEFINE d == Control
  <2>1. TraceTo(raw, d) /\ d.pc = "list" /\ d.i = i /\ d.list = list
    BY <1>3, <1>4
  <2> HIDE DEF d
  <2>2. c = d
    BY <1>1, <1>2, <2>1, OneList
  <2> QED
    BY <2>2 DEF d
<1> QED
  BY <1>2, <1>3, <1>5

\* The length of a list is written where a parse of the upload comes to it.
LEMMA ListLengthLeft ==
    ASSUME Inside, Shape(tx), Reached, ListLeft(raw, tx), ScriptLeft(raw, tx), ReadListLength
    PROVE  ListLeft(raw, tx') /\ ScriptLeft(raw, tx')
<1>1. pc = "list" /\ i \in 1 .. MaxSigners /\ list \in Lists
  <2>1. pc = "list" /\ pc \in {"account", "scope", "list", "item"}
    BY DEF ReadListLength
  <2> QED
    BY <2>1, SignerRead DEF Inside, Position
<1>2. CASE UNCHANGED tx
  BY <1>2
<1>3. CASE HasFlag(list, tx.signers[i].scope) /\ tx' = [tx EXCEPT !.signers[i].size[list] = VarInt]
  <2>1. /\ \A f \in MatchFields : tx'[f] = tx[f]
        /\ \A s \in 1 .. MaxSigners, l \in Lists :
              ~(s = i /\ l = list) => tx'.signers[s].size[l] = tx.signers[s].size[l]
    BY <1>1, <1>3 DEF Shape, IsTx, TxFields, SignerFields, MatchFields
  <2>2. ScriptLeft(raw, tx')
    BY <2>1 DEF ScriptLeft, MatchedAfresh
  <2>3. \E c : TraceTo(raw, c) /\ c.pc = "list" /\ c.i = i /\ c.list = list /\ HasFlag(list, c.scope)
    <3>1. /\ Control.pc = "list" /\ Control.i = i /\ Control.list = list
          /\ Control.scope = tx.signers[i].scope
      BY <1>1 DEF Control, Ctl
    <3>2. TraceTo(raw, Control)
      BY DEF Reached, TraceTo
    <3> QED
      BY <1>3, <3>1, <3>2
  <2>4. ListLeft(raw, tx')
    <3> SUFFICES ASSUME NEW s \in 1 .. MaxSigners, NEW l \in Lists, tx'.signers[s].size[l] # 0
                 PROVE  \E c : TraceTo(raw, c) /\ c.pc = "list" /\ c.i = s /\ c.list = l /\ HasFlag(l, c.scope)
      BY DEF ListLeft
    <3>1. CASE s = i /\ l = list
      BY <2>3, <3>1
    <3>2. CASE ~(s = i /\ l = list)
      <4>1. tx.signers[s].size[l] # 0
        BY <2>1, <3>2
      <4> QED
        BY <4>1 DEF ListLeft
    <3> QED
      BY <3>1, <3>2
  <2> QED
    BY <2>2, <2>4
<1> QED
  BY <1>2, <1>3 DEF ReadListLength, Fail

\* Where the parts of a transaction lie does not depend on what is found.
LEMMA CoversKept ==
    ASSUME NEW data, NEW t, NEW u, Shape(t), \A g \in TxFields \ MatchFields : u[g] = t[g], Covers(data, t)
    PROVE  Covers(data, u)
<1>1. {"header", "signers", "signers_size", "attributes_size", "script", "script_size"}
         \subseteq TxFields \ MatchFields
  BY DEF TxFields, MatchFields
<1>2. /\ u.header = t.header /\ u.signers = t.signers /\ u.signers_size = t.signers_size
      /\ u.attributes_size = t.attributes_size /\ u.script = t.script /\ u.script_size = t.script_size
  BY <1>1
<1>3. t.signers_size \in Nat
  BY Limits DEF Shape, IsTx
<1>4. PICK from \in 0 .. Len(data) :
         /\ FrontLies(data, t, t.signers_size, from)
         /\ \E to \in from .. Len(data) :
               AttributesLie(data, t, from, to) /\ IsCount(data, t.script_size, to, t.script)
  BY DEF Covers
<1>5. FrontLies(data, u, u.signers_size, from)
  BY <1>2, <1>3, <1>4, FrontKept
<1>6. PICK to \in from .. Len(data) :
         AttributesLie(data, t, from, to) /\ IsCount(data, t.script_size, to, t.script)
  BY <1>4
<1>7. AttributesLie(data, u, from, to) /\ IsCount(data, u.script_size, to, u.script)
  BY <1>2, <1>6 DEF AttributesLie
<1>8. u.script + u.script_size = Len(data)
  BY <1>2 DEF Covers
<1> QED
  BY <1>5, <1>7, <1>8 DEF Covers

\* The end: what is found is found in this script, and all was read if that is the result.
LEMMA MatchFresh ==
    ASSUME Inside, Shape(tx), SoFar, ScriptLeft(raw, tx), Match
    PROVE  /\ Shape(tx') /\ ScriptLeft(raw, tx')
           /\ \A s \in 1 .. MaxSigners : tx'.signers[s] = tx.signers[s]
           /\ status' = "PARSING_OK" =>
                 Covers(raw, tx') /\ MatchedAfresh(tx', At(raw, tx'.script, tx'.script_size))
<1> DEFINE S == At(raw, tx.script, tx.script_size)
<1>1. pc = "match" /\ tx' = MatchScript(S, tx) /\ status' = Result
  BY DEF Match, Return
<1>2. /\ \E from \in 0 .. offset :
            /\ FrontLies(raw, tx, tx.signers_size, from)
            /\ \E to \in from .. offset :
                  AttributesLie(raw, tx, from, to) /\ IsCount(raw, tx.script_size, to, tx.script)
      /\ offset = tx.script + tx.script_size
      /\ \E c : IsScript(raw, c) /\ ScriptRead(raw, c) = S
  BY <1>1 DEF SoFar
<1>3. PICK c : IsScript(raw, c) /\ ScriptRead(raw, c) = S
  BY <1>2
<1>4. (\A f \in MatchFields : tx[f] = EmptyTx[f]) \/ MatchedAfresh(tx, S)
  <2>1. CASE \E d : IsScript(raw, d) /\ MatchedAfresh(tx, ScriptRead(raw, d))
    <3>1. PICK d : IsScript(raw, d) /\ MatchedAfresh(tx, ScriptRead(raw, d))
      BY <2>1
    <3>2. c = d
      BY <1>3, <3>1, OneScript DEF Inside
    <3> QED
      BY <1>3, <3>1, <3>2
  <2> QED
    BY <2>1 DEF ScriptLeft
<1> HIDE DEF S
<1>5. MatchedAfresh(tx', S)
  BY <1>1, <1>4, MatchTwice
<1>6. Shape(tx') /\ \A g \in TxFields \ MatchFields : tx'[g] = tx[g]
  BY <1>1, MatchWrites
<1>7. tx'.signers = tx.signers /\ tx'.script = tx.script /\ tx'.script_size = tx.script_size
  <2>1. {"signers", "script", "script_size"} \subseteq TxFields \ MatchFields
    BY DEF TxFields, MatchFields
  <2> QED
    BY <1>6, <2>1
<1>8. ScriptLeft(raw, tx')
  BY <1>3, <1>5 DEF ScriptLeft
<1>9. ASSUME status' = "PARSING_OK" PROVE Covers(raw, tx')
  <2>1. offset = Len(raw)
    BY <1>1, <1>9 DEF Result
  <2>2. Covers(raw, tx)
    BY <1>2, <2>1 DEF Covers
  <2> QED
    BY <1>6, <2>2, CoversKept
<1>10. S = At(raw, tx'.script, tx'.script_size)
  BY <1>7 DEF S
<1> QED
  BY <1>5, <1>6, <1>7, <1>8, <1>9, <1>10

---------------------------------------------------------------------------
(* The invariant.                                                          *)

\* Nothing is sure once signing has written over the upload, up to the next chunk 0.
FieldsInv ==
    ~signed =>
        /\ Shape(tx)
        /\ pc # "done" => SoFar
        /\ Left
        /\ ((pc = "done" /\ status = "PARSING_OK") \/ IsOpen)
              => Covers(raw, tx) /\ MatchedAfresh(tx, At(raw, tx.script, tx.script_size))

\* The application starts with nothing read.
LEMMA FieldsInit == Init => FieldsInv
<1> SUFFICES ASSUME Init PROVE FieldsInv
  OBVIOUS
<1>1. tx = EmptyTx /\ pc = "done" /\ status = "none" /\ ~IsOpen
  BY DEF Init, IsOpen
<1> QED
  BY <1>1, EmptyShape, EmptyLeft DEF FieldsInv, Left

\* Every field that is read lies behind those before it.
LEMMA ReadSoFar ==
    ASSUME Inside, Shape(tx), SoFar, Reached, Read, ~Match, pc # "header" => ListLeft(raw, tx)
    PROVE  Shape(tx') /\ SoFar'
<1>1. CASE ReadListLength
  <2>1. pc = "list" /\ ListLeft(raw, tx)
    BY <1>1 DEF ReadListLength
  <2>2. ~HasFlag(list, tx.signers[i].scope) => tx.signers[i].size[list] = 0
    BY <2>1, ListIsEmpty
  <2> QED
    BY <1>1, <2>2, ListLengthSoFar
<1> QED
  BY <1>1, HeaderSoFar, SignersLengthSoFar, AccountSoFar, ScopeSoFar, ItemSoFar,
     AttributesLengthSoFar, AttributeSoFar, ScriptSoFar DEF Read

\* The parser.
LEMMA FieldsParse ==
    ASSUME OnceInv, FieldsInv, Parse
    PROVE  FieldsInv'
<1> SUFFICES ASSUME ~signed PROVE FieldsInv'
  BY DEF FieldsInv, Parse, history
<1>1. /\ Inside /\ Read /\ pc # "done" /\ raw' = raw
      /\ ~IsOpen' /\ SoFar /\ Reached
  BY ReadKeepsRaw DEF Parse, review, OnceInv, FieldsInv, IsOpen
<1>2. Shape(tx) /\ ListLeft(raw, tx) /\ ScriptLeft(raw, tx)
  BY DEF FieldsInv, Left
<1>3. ASSUME ~Match, pc' = "done" PROVE status' # "PARSING_OK"
  BY <1>1, <1>3 DEF Read, ReadHeader, ReadSignersLength, ReadAccount, ReadScope, ReadListLength, ReadItem,
         ReadAttributesLength, ReadAttribute, ReadScript, NextList, Fail, Return, GoOn
<1>4. CASE Match
  <2>1. pc' = "done"
    BY <1>4 DEF Match, Return
  <2>2. /\ Shape(tx') /\ ScriptLeft(raw, tx')
        /\ \A s \in 1 .. MaxSigners : tx'.signers[s] = tx.signers[s]
        /\ status' = "PARSING_OK" =>
              Covers(raw, tx') /\ MatchedAfresh(tx', At(raw, tx'.script, tx'.script_size))
    BY <1>1, <1>2, <1>4, MatchFresh
  <2>3. ListLeft(raw, tx')
    BY <1>2, <2>2 DEF ListLeft
  <2>4. Left'
    BY <1>1, <2>2, <2>3 DEF Left
  <2> QED
    BY <1>1, <2>1, <2>2, <2>4 DEF FieldsInv
<1>5. CASE ~Match
  <2>1. Shape(tx') /\ SoFar'
    BY <1>1, <1>2, <1>5, ReadSoFar
  <2>2. Left'
    <3>1. CASE ReadListLength
      <4>1. ListLeft(raw, tx') /\ ScriptLeft(raw, tx')
        BY <1>1, <1>2, <3>1, ListLengthLeft
      <4> QED
        BY <1>1, <4>1 DEF Left
    <3>2. CASE ~ReadListLength
      <4>1. SameLeft(tx, tx')
        BY <1>1, <1>2, <1>5, <3>2, ReadKeeps
      <4> QED
        BY <1>1, <1>2, <4>1, LeftKept DEF Left
    <3> QED
      BY <3>1, <3>2
  <2> QED
    BY <1>1, <1>3, <1>5, <2>1, <2>2 DEF FieldsInv
<1> QED
  BY <1>4, <1>5

\* Only an approval signs, and only chunk 0 forgets it.
LEMMA SignedKept ==
    ASSUME [Next]_vars, ~NewUpload, ~signed'
    PROVE  ~signed /\ ~Approve
<1>1. ~Approve
  BY DEF Approve
<1>2. signed' = signed
  BY <1>1 DEF Next, vars, history, ReceiveMore, ReceiveLast, Parse, ShowReview, Look, Reject
<1> QED
  BY <1>1, <1>2

\* The invariant, step by step.
LEMMA FieldsNext == OnceInv /\ FieldsInv /\ [Next]_vars => FieldsInv'
<1> SUFFICES ASSUME OnceInv, FieldsInv, [Next]_vars, ~signed' PROVE FieldsInv'
  BY DEF FieldsInv
<1>1. CASE NewUpload
  <2>1. tx' = EmptyTx /\ status' = "none" /\ pc' = "done" /\ ~IsOpen'
    BY <1>1 DEF NewUpload, HostMaySend, review, IsOpen
  <2> QED
    BY <2>1, EmptyShape, EmptyLeft DEF FieldsInv, Left
<1>2. CASE ~NewUpload
  <2>1. ~signed /\ ~Approve
    BY <1>2, SignedKept
  <2>2. Inside /\ raw \in Bytes /\ Shape(tx) /\ Left
    BY <2>1 DEF OnceInv, Inside, FieldsInv
  <2>3. CASE ReceiveMore
    <3>1. /\ pc' = "done" /\ status' # "PARSING_OK" /\ ~IsOpen' /\ tx' = tx /\ raw' \in NextData
      BY <2>3 DEF ReceiveMore, HostMaySend, parser, review, IsOpen
    <3>2. Left'
      BY <2>2, <3>1, LeftGrows
    <3> QED
      BY <2>2, <3>1, <3>2 DEF FieldsInv
  <2>4. CASE ReceiveLast
    <3>1. /\ raw' \in NextData /\ pc' = "header" /\ i' = 1 /\ offset' = 0 /\ tx' = tx /\ ~IsOpen'
      BY <2>4 DEF ReceiveLast, Begin, HostMaySend, review, IsOpen
    <3>2. Left'
      BY <2>2, <3>1, LeftGrows
    <3>3. SoFar'
      <4>1. offset' = HeaderAt[i']
        BY <3>1, HeaderEnds
      <4>2. HeaderLies(raw', tx', i' - 1)
        BY <3>1 DEF HeaderLies
      <4> QED
        BY <3>1, <4>1, <4>2 DEF SoFar
    <3> QED
      BY <2>2, <3>1, <3>2, <3>3 DEF FieldsInv
  <2>5. CASE Parse
    BY <2>5, FieldsParse
  <2>6. CASE ShowReview
    <3>1. raw' = raw /\ tx' = tx /\ pc = "done" /\ pc' = "done" /\ status = "PARSING_OK"
      BY <2>6 DEF ShowReview
    <3>2. Left' = Left
      BY <3>1 DEF Left
    <3>3. Covers(raw, tx) /\ MatchedAfresh(tx, At(raw, tx.script, tx.script_size))
      BY <2>1, <3>1 DEF FieldsInv
    <3> QED
      BY <2>2, <3>1, <3>2, <3>3 DEF FieldsInv
  <2>7. CASE Look \/ Reject \/ UNCHANGED vars
    <3>1. UNCHANGED << raw, tx, parser >> /\ (IsOpen' => IsOpen)
      BY <2>7 DEF Look, Measure, Draw, Swipe, Drawn, Reject, IsOpen, vars, review
    <3>2. SoFar' = SoFar /\ Left' = Left
      BY <3>1 DEF SoFar, Left, parser
    <3> QED
      BY <2>1, <2>2, <3>1, <3>2 DEF FieldsInv, parser
  <2> QED
    BY <1>2, <2>1, <2>3, <2>4, <2>5, <2>6, <2>7 DEF Next
<1> QED
  BY <1>1, <1>2

\* The invariant holds.
LEMMA FieldsHold == Spec => []FieldsInv
<1>1. Init => OnceInv /\ FieldsInv
  BY OnceInit, FieldsInit
<1>2. OnceInv /\ FieldsInv /\ [Next]_vars => OnceInv' /\ FieldsInv'
  BY OnceNext, FieldsNext
<1> QED
  BY <1>1, <1>2, PTL DEF Spec

---------------------------------------------------------------------------

\* Before a signature the transaction under review is its upload and nothing else,
\* whatever was uploaded, cut and parsed before: FieldsCoverUpload of Upload.
THEOREM FieldsTheorem == Spec => []FieldsCoverUpload
<1>1. FieldsInv => FieldsCoverUpload
  BY DEF FieldsInv, FieldsCoverUpload
<1> QED
  BY <1>1, FieldsHold, PTL

\* Before a signature what the review says the script does is what the matchers find in
\* that script on its own, whatever they found in attempts before: ScriptMatchedAfresh.
THEOREM ScriptTheorem == Spec => []ScriptMatchedAfresh
<1>1. FieldsInv => ScriptMatchedAfresh
  BY DEF FieldsInv, ScriptMatchedAfresh
<1> QED
  BY <1>1, FieldsHold, PTL
=============================================================================
