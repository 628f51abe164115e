----------------------------- MODULE UploadProofs -----------------------------
(***************************************************************************)
(* Theorems about Upload, for transactions of every shape, hashes and keys *)
(* of every length, and every limit.                                       *)
(***************************************************************************)
EXTENDS Upload, SequenceTheorems, WellFoundedInduction, NaturalsInduction, TLAPS

---------------------------------------------------------------------------
(* Numbers.                                                                *)

\* A set of numbers has a least one.
LEMMA LeastNumber ==
    ASSUME NEW T \in SUBSET Nat, T # {}
    PROVE  \E k \in T : \A l \in T : k <= l
<1> DEFINE below == {p \in Nat \X Nat : p[1] < p[2]}
<1>1. IsWellFoundedOn(below, Nat)
  BY NatLessThanWellFounded DEF OpToRel
<1>2. PICK k \in T : \A l \in T : ~(<< l, k >> \in below)
  BY <1>1, WFMin, Zenon
<1>3. ASSUME NEW l \in T PROVE k <= l
  <2>1. l \in Nat /\ k \in Nat
    OBVIOUS
  <2>2. << l, k >> \in below <=> l < k
    BY <2>1
  <2> QED
    BY <1>2, <2>1, <2>2
<1> QED
  BY <1>3

---------------------------------------------------------------------------
(* The shape of a transaction.                                             *)

TxFields ==
    {"header", "signers", "signers_size", "attributes", "attributes_size", "script",
     "script_size", "amount", "dst", "vote_to", "is_system_asset_transfer", "is_neo",
     "is_vote_script", "is_remove_vote"}
SignerFields == {"account", "scope", "size", "allowed"}

\* The fields are there, the signers are as many as there is room for, and no size
\* is more than there is room for.
IsTx(t) ==
    /\ DOMAIN t = TxFields
    /\ DOMAIN t.signers = 1 .. MaxSigners
    /\ \A s \in 1 .. MaxSigners :
          DOMAIN t.signers[s] = SignerFields /\ DOMAIN t.signers[s].size = Lists
    /\ t.signers_size \in 0 .. MaxSigners
    /\ t.attributes_size \in 0 .. MaxAttributes
    /\ \A s \in 1 .. MaxSigners, l \in Lists : t.signers[s].size[l] \in 0 .. Limit(l)

\* The transaction of a context that was just cleared.
LEMMA EmptyIsTx == IsTx(EmptyTx)
<1>1. DOMAIN EmptyTx = TxFields
  BY DEF EmptyTx, TxFields
<1>2. EmptyTx.signers = [s \in 1 .. MaxSigners |-> EmptySigner]
  BY DEF EmptyTx
<1>3. DOMAIN EmptySigner = SignerFields /\ EmptySigner.size = [l \in Lists |-> 0]
  BY DEF EmptySigner, SignerFields
<1>4. EmptyTx.signers_size = 0 /\ EmptyTx.attributes_size = 0
  BY DEF EmptyTx
<1>5. \A l \in Lists : Limit(l) \in Nat
  BY LimitsAssumption DEF Limit, Lists
<1> QED
  BY <1>1, <1>2, <1>3, <1>4, <1>5, LimitsAssumption DEF IsTx

\* Writing a field that is neither a size nor the signers.
LEMMA OtherField ==
    ASSUME NEW t, NEW f \in TxFields, NEW v, IsTx(t),
           f \notin {"signers", "signers_size", "attributes_size"}
    PROVE  /\ IsTx([t EXCEPT ![f] = v])
           /\ [t EXCEPT ![f] = v].signers = t.signers
           /\ [t EXCEPT ![f] = v].signers_size = t.signers_size
           /\ [t EXCEPT ![f] = v].attributes_size = t.attributes_size
  BY DEF IsTx, TxFields

\* Writing the number of the signers or of the attributes.
LEMMA SignersSizeField ==
    ASSUME NEW t, NEW n \in 0 .. MaxSigners, IsTx(t)
    PROVE  /\ IsTx([t EXCEPT !.signers_size = n])
           /\ [t EXCEPT !.signers_size = n].signers_size = n
  BY DEF IsTx, TxFields

\* The same for the number of attributes.
LEMMA AttributesSizeField ==
    ASSUME NEW t, NEW n \in 0 .. MaxAttributes, IsTx(t)
    PROVE  /\ IsTx([t EXCEPT !.attributes_size = n])
           /\ [t EXCEPT !.attributes_size = n].attributes_size = n
  BY DEF IsTx, TxFields

\* Writing a field of a signer, of the sizes one that there is room for.
LEMMA SignerField ==
    ASSUME NEW t, NEW s \in 1 .. MaxSigners, NEW f \in SignerFields, NEW v, IsTx(t),
           f = "size" => DOMAIN v = Lists /\ \A l \in Lists : v[l] \in 0 .. Limit(l)
    PROVE  LET u == [t EXCEPT !.signers[s][f] = v]
           IN  /\ IsTx(u)
               /\ u.signers_size = t.signers_size
               /\ u.signers[s].size = IF f = "size" THEN v ELSE t.signers[s].size
  BY DEF IsTx, TxFields, SignerFields

\* What a matcher recognises in a script touches none of the sizes.
LEMMA MatchIsTx ==
    ASSUME NEW s, NEW t, IsTx(t)
    PROVE  IsTx(MatchScript(s, t))
<1>1. ASSUME NEW u, IsTx(u), NEW v1, NEW v2, NEW v3, NEW v4
      PROVE  IsTx([u EXCEPT !.amount = v1, !.dst = v2, !.is_neo = v3,
                            !.is_system_asset_transfer = v4])
  BY <1>1 DEF IsTx, TxFields
<1>2. ASSUME NEW u, IsTx(u), NEW v1, NEW v2, NEW v3
      PROVE  IsTx([u EXCEPT !.is_remove_vote = v1, !.vote_to = v2, !.is_vote_script = v3])
  BY <1>2 DEF IsTx, TxFields
<1>3. IsTx(MatchTransfer(s, t))
  BY <1>1, Zenon DEF MatchTransfer
<1>4. ASSUME NEW u, IsTx(u)
      PROVE  IsTx(MatchVote(s, u))
  BY <1>2, <1>4, Zenon DEF MatchVote
<1> QED
  BY <1>3, <1>4 DEF MatchScript

---------------------------------------------------------------------------
(* The bytes of an upload.                                                 *)

\* A number ahead of the parser, once its bytes are known to be there.
LEMMA VarIntType ==
    ASSUME raw \in Bytes, offset \in 0 .. Len(raw), HasVarInt
    PROVE  /\ VarInt \in Nat
           /\ VarIntLen \in Nat \ {0}
           /\ offset + VarIntLen \in 0 .. Len(raw)
<1>1. VarIntLen \in {1, 3, 5, 9} /\ offset + VarIntLen <= Len(raw)
  BY DEF HasVarInt, CanRead, VarIntLen
<1>2. \A k \in 1 .. Len(raw) : raw[k] \in Nat
  <2>1. raw \in Seq(Byte) /\ Byte \subseteq Nat
    BY DEF Bytes, Byte
  <2>2. \A k \in 1 .. Len(raw) : raw[k] \in Byte
    BY <2>1, ElementOfSeq
  <2> QED
    BY <2>1, <2>2
<1>3. CASE VarIntLen = 1
  BY <1>1, <1>2, <1>3 DEF VarInt, OneByte
<1>4. CASE VarIntLen # 1
  <2>1. raw[offset + 2] \in Nat /\ raw[offset + 3] \in Nat
    BY <1>1, <1>2, <1>4
  <2> QED
    BY <1>1, <1>4, <2>1 DEF VarInt, TooBig
<1> QED
  BY <1>1, <1>3, <1>4

\* One byte more.
LEMMA NextDataType ==
    ASSUME raw \in Bytes, NEW data \in NextData
    PROVE  data \in Bytes /\ Len(data) <= MaxLen /\ Len(raw) <= Len(data)
<1>1. PICK u \in Uploads : Len(raw) < Len(u) /\ Len(raw) < MaxLen /\ data = Append(raw, u[Len(raw) + 1])
  BY DEF NextData, Begun
<1>2. u \in Bytes
  BY <1>1, UploadsAssumption DEF Uploads
<1>3. u[Len(raw) + 1] \in Byte
  BY <1>1, <1>2 DEF Bytes
<1> QED
  BY <1>1, <1>3, LimitsAssumption DEF Bytes

\* Signing writes over bytes that are there.
LEMMA AfterSigningType ==
    ASSUME NEW data \in Bytes, NEW front \in SigningFronts
    PROVE  AfterSigning(data, front) \in Bytes /\ Len(AfterSigning(data, front)) = Len(data)
<1> DEFINE n == Len(data)
<1>1. n \in Nat /\ DOMAIN data = 1 .. n
  BY DEF Bytes
<1>2. AfterSigning(data, front) \in [1 .. n -> Byte]
  BY <1>1, UploadsAssumption DEF AfterSigning, Bytes
<1> QED
  BY <1>1, <1>2 DEF Bytes

---------------------------------------------------------------------------
(* The parser.                                                             *)

\* What is under way fits what is being read.
Position ==
    /\ pc \in Places
    /\ pc = "done" => offset = 0
    /\ pc = "header" => i \in 1 .. 5
    /\ pc \in {"account", "scope", "list", "item"} => i \in 1 .. tx.signers_size
    /\ pc \in {"list", "item"} => list \in Lists
    /\ pc = "item" => listed = tx.signers[i].size[list] /\ j \in 1 .. listed
    /\ pc = "attribute" => i \in 1 .. tx.attributes_size

\* The invariant: the types, the shape of the transaction, and that the items to
\* be read are as many as was noted in the transaction.
Inside ==
    /\ raw \in Bytes /\ Len(raw) <= MaxLen
    /\ offset \in 0 .. Len(raw)
    /\ IsTx(tx)
    /\ Position

\* The invariant says all that TypeOK says.
LEMMA InsideIsTyped == Inside => TypeOK
<1>1. DOMAIN HeaderFields = 1 .. 5
  BY DEF HeaderFields
<1> QED
  BY <1>1 DEF Inside, Position, TypeOK, IsTx

\* An attempt to parse ends with nothing under way.
LEMMA ReturnInside ==
    ASSUME NEW result, Inside, IsTx(tx'), Return(result)
    PROVE  Inside'
<1>1. Len(raw) \in Nat
  BY DEF Inside, Bytes
<1>2. Position'
  BY DEF Return, Position, Places
<1>3. raw' = raw /\ offset' = 0
  BY DEF Return
<1> QED
  BY <1>1, <1>2, <1>3 DEF Inside

\* A header field is as long as a number that is one.
LEMMA WidthType == \A f : Width(f) \in Nat
  BY ScriptAssumption, LimitsAssumption DEF Width, LongLen

\* A successful read stays within the upload.
LEMMA GoOnInside ==
    ASSUME NEW next, NEW n \in Nat, Inside, CanRead(n), GoOn(next, n), IsTx(tx'), Position'
    PROVE  Inside'
<1>1. Len(raw) \in Nat /\ offset \in 0 .. Len(raw)
  BY DEF Inside, Bytes
<1>2. offset' \in 0 .. Len(raw) /\ raw' = raw
  BY <1>1 DEF GoOn, CanRead
<1> QED
  BY <1>2 DEF Inside

\* The fields of fixed size, the last of which hands over to the signers.
LEMMA ReadHeaderInside == Inside /\ ReadHeader => Inside'
<1> SUFFICES ASSUME Inside, ReadHeader PROVE Inside'
  OBVIOUS
<1> DEFINE f     == HeaderFields[i]
           bytes == IF CanRead(Width(f)) THEN Ahead(Width(f)) ELSE [k \in 1 .. Width(f) |-> 0]
<1>1. i \in 1 .. 5 /\ Len(HeaderFields) = 5
  BY DEF ReadHeader, Inside, Position, HeaderFields
<1>2. tx' = [tx EXCEPT !["header"] = [tx.header EXCEPT ![f] = bytes]]
  BY DEF ReadHeader
<1> HIDE DEF f
<1>3. IsTx(tx')
  BY <1>2, OtherField DEF Inside, TxFields
<1>4. CASE Return("error")
  BY <1>3, <1>4, ReturnInside
<1>5. ASSUME CanRead(Width(f)), i = 5, GoOn("signers_length", Width(f))
      PROVE  Inside'
  <2>1. Position'
    BY <1>5 DEF GoOn, Position, Places
  <2> QED
    BY <1>3, <1>5, <2>1, WidthType, GoOnInside
<1>6. ASSUME CanRead(Width(f)), i # 5, GoOn("header", Width(f)), i' = i + 1
      PROVE  Inside'
  <2>1. Position'
    BY <1>1, <1>6 DEF GoOn, Position, Places
  <2> QED
    BY <1>3, <1>6, <2>1, WidthType, GoOnInside
<1> QED
  BY <1>1, <1>4, <1>5, <1>6 DEF ReadHeader, f

\* A number of signers that is taken fits the array of signers.
LEMMA ReadSignersLengthInside == Inside /\ ReadSignersLength => Inside'
<1> SUFFICES ASSUME Inside, ReadSignersLength PROVE Inside'
  OBVIOUS
<1>1. CASE Fail
  BY <1>1, ReturnInside DEF Fail, Inside
<1>2. ASSUME HasVarInt, SignersAccepted(VarInt), tx' = [tx EXCEPT !.signers_size = VarInt],
             GoOn("account", VarIntLen), i' = 1
      PROVE  Inside'
  <2>1. VarInt \in 1 .. MaxSigners
    BY <1>2 DEF SignersAccepted
  <2>2. IsTx(tx') /\ tx'.signers_size = VarInt
    BY <1>2, <2>1, SignersSizeField, LimitsAssumption DEF Inside
  <2>3. VarIntLen \in Nat /\ CanRead(VarIntLen)
    BY <1>2, VarIntType DEF Inside, HasVarInt
  <2>4. Position'
    BY <1>2, <2>1, <2>2, LimitsAssumption DEF GoOn, Position, Places
  <2> QED
    BY <1>2, <2>2, <2>3, <2>4, GoOnInside
<1> QED
  BY <1>1, <1>2 DEF ReadSignersLength

\* The account of a signer moves the offset and no index.
LEMMA ReadAccountInside == Inside /\ ReadAccount => Inside'
<1> SUFFICES ASSUME Inside, ReadAccount PROVE Inside'
  OBVIOUS
<1>1. i \in 1 .. tx.signers_size /\ i \in 1 .. MaxSigners
  BY LimitsAssumption DEF ReadAccount, Inside, Position, IsTx
<1>2. tx' = [tx EXCEPT !.signers[i]["account"] = offset]
  BY DEF ReadAccount
<1>3. IsTx(tx') /\ tx'.signers_size = tx.signers_size
  <2>1. "account" \in SignerFields /\ "account" # "size" /\ IsTx(tx)
    BY DEF SignerFields, Inside
  <2> QED
    BY <1>1, <1>2, <2>1, SignerField
<1>4. CASE Return("error")
  BY <1>3, <1>4, ReturnInside
<1>5. ASSUME CanRead(UINT160_LEN), GoOn("scope", UINT160_LEN), UNCHANGED i
      PROVE  Inside'
  <2>1. Position'
    BY <1>1, <1>3, <1>5 DEF GoOn, Position, Places
  <2> QED
    BY <1>3, <1>5, <2>1, GoOnInside, ScriptAssumption
<1> QED
  BY <1>4, <1>5 DEF ReadAccount

\* The scope decides which lists follow, if any.
LEMMA ReadScopeInside == Inside /\ ReadScope => Inside'
<1> SUFFICES ASSUME Inside, ReadScope PROVE Inside'
  OBVIOUS
<1>1. i \in 1 .. tx.signers_size /\ i \in 1 .. MaxSigners
  BY LimitsAssumption DEF ReadScope, Inside, Position, IsTx
<1>2. tx' = tx \/ tx' = [tx EXCEPT !.signers[i]["scope"] = OneByte]
  BY DEF ReadScope
<1>3. IsTx(tx') /\ tx'.signers_size = tx.signers_size
  <2>1. "scope" \in SignerFields /\ "scope" # "size" /\ IsTx(tx)
    BY DEF SignerFields, Inside
  <2>2. CASE tx' = tx
    BY <2>1, <2>2
  <2>3. CASE tx' = [tx EXCEPT !.signers[i]["scope"] = OneByte]
    BY <1>1, <2>1, <2>3, SignerField
  <2> QED
    BY <1>2, <2>2, <2>3
<1>4. CASE Return("error")
  BY <1>3, <1>4, ReturnInside
<1>5. ASSUME CanRead(1), GoOn("list", 1), UNCHANGED i
      PROVE  Inside'
  <2>1. list' = "contracts"
    BY DEF ReadScope, NoItems
  <2>2. Position'
    BY <1>1, <1>3, <1>5, <2>1 DEF GoOn, Position, Places, Lists
  <2> QED
    BY <1>3, <1>5, <2>2, GoOnInside
<1> QED
  BY <1>4, <1>5 DEF ReadScope

\* On to the other list, the next signer or the attributes.
LEMMA NextListInside ==
    ASSUME NEW n \in Nat, Inside, pc \in {"list", "item"}, CanRead(n), NextList(n),
           IsTx(tx'), tx'.signers_size = tx.signers_size
    PROVE  Inside'
<1>1. i \in 1 .. tx.signers_size /\ tx.signers_size \in Nat
  BY LimitsAssumption DEF Inside, Position, IsTx
<1>2. CASE list = "contracts"
  <2>1. list' = "groups" /\ GoOn("list", n) /\ i' = i
    BY <1>2 DEF NextList
  <2>2. Position'
    BY <1>1, <2>1 DEF GoOn, Position, Places, Lists
  <2> QED
    BY <2>1, <2>2, GoOnInside
<1>3. CASE list # "contracts" /\ i < tx.signers_size
  <2>1. GoOn("account", n) /\ i' = i + 1
    BY <1>3 DEF NextList
  <2>2. Position'
    BY <1>1, <1>3, <2>1 DEF GoOn, Position, Places
  <2> QED
    BY <2>1, <2>2, GoOnInside
<1>4. CASE list # "contracts" /\ ~(i < tx.signers_size)
  <2>1. GoOn("attributes_length", n)
    BY <1>4 DEF NextList
  <2>2. Position'
    BY <2>1 DEF GoOn, Position, Places
  <2> QED
    BY <2>1, <2>2, GoOnInside
<1> QED
  BY <1>2, <1>3, <1>4

\* A length that is taken is within the limit of its list and noted twice.
LEMMA ReadListLengthInside == Inside /\ ReadListLength => Inside'
<1> SUFFICES ASSUME Inside, ReadListLength PROVE Inside'
  OBVIOUS
<1>1. /\ i \in 1 .. tx.signers_size /\ i \in 1 .. MaxSigners
      /\ list \in Lists /\ pc = "list" /\ IsTx(tx)
  BY LimitsAssumption DEF ReadListLength, Inside, Position, IsTx
<1>2. ASSUME NextList(0), UNCHANGED tx PROVE Inside'
  <2>1. CanRead(0)
    BY DEF CanRead, Inside, Bytes
  <2> QED
    BY <1>1, <1>2, <2>1, NextListInside
<1>3. ASSUME HasVarInt, ListAccepted(list, VarInt),
             tx' = [tx EXCEPT !.signers[i].size[list] = VarInt],
             \/ VarInt = 0 /\ NextList(VarIntLen)
             \/ VarInt # 0 /\ GoOn("item", VarIntLen) /\ j' = 1 /\ listed' = VarInt /\ UNCHANGED << i, list >>
      PROVE  Inside'
  <2> DEFINE sizes == [tx.signers[i].size EXCEPT ![list] = VarInt]
  <2>1. VarInt \in 0 .. Limit(list) /\ VarInt \in Nat /\ VarIntLen \in Nat /\ CanRead(VarIntLen)
    <3>1. VarInt \in Nat /\ VarIntLen \in Nat /\ CanRead(VarIntLen)
      BY <1>3, VarIntType DEF Inside, HasVarInt
    <3> QED
      BY <1>1, <1>3, <3>1, LimitsAssumption DEF ListAccepted, Limit, Lists
  <2>2. /\ DOMAIN sizes = Lists /\ sizes[list] = VarInt
        /\ \A l \in Lists : sizes[l] \in 0 .. Limit(l)
    BY <1>1, <2>1 DEF IsTx
  <2>3. tx' = [tx EXCEPT !.signers[i]["size"] = sizes]
    BY <1>3
  <2> HIDE DEF sizes
  <2>4. IsTx(tx') /\ tx'.signers_size = tx.signers_size /\ tx'.signers[i].size = sizes
    <3>1. "size" \in SignerFields
      BY DEF SignerFields
    <3> QED
      BY <1>1, <2>2, <2>3, <3>1, SignerField
  <2>5. CASE VarInt = 0
    BY <1>1, <1>3, <2>1, <2>4, <2>5, NextListInside
  <2>6. CASE VarInt # 0
    <3>1. GoOn("item", VarIntLen) /\ j' = 1 /\ listed' = VarInt /\ i' = i /\ list' = list
      BY <1>3, <2>6
    <3>2. Position'
      BY <1>1, <2>1, <2>2, <2>4, <2>6, <3>1 DEF GoOn, Position, Places
    <3> QED
      BY <2>1, <2>4, <3>1, <3>2, GoOnInside
  <2> QED
    BY <2>5, <2>6
<1>4. CASE Fail
  BY <1>1, <1>4, ReturnInside DEF Fail
<1> QED
  BY <1>2, <1>3, <1>4 DEF ReadListLength

\* An item leaves room for the next one or closes its list.
LEMMA ReadItemInside == Inside /\ ReadItem => Inside'
<1> SUFFICES ASSUME Inside, ReadItem PROVE Inside'
  OBVIOUS
<1>1. /\ i \in 1 .. tx.signers_size /\ i \in 1 .. MaxSigners
      /\ list \in Lists /\ pc = "item" /\ IsTx(tx)
      /\ listed = tx.signers[i].size[list] /\ j \in 1 .. listed /\ listed \in Nat
  <2>1. /\ i \in 1 .. tx.signers_size /\ list \in Lists /\ pc = "item" /\ IsTx(tx)
        /\ listed = tx.signers[i].size[list] /\ j \in 1 .. listed
    BY DEF ReadItem, Inside, Position
  <2>2. i \in 1 .. MaxSigners
    BY <2>1, LimitsAssumption DEF IsTx
  <2>3. tx.signers[i].size[list] \in 0 .. Limit(list)
    BY <2>1, <2>2 DEF IsTx
  <2>4. Limit(list) \in Nat
    BY LimitsAssumption DEF Limit
  <2> QED
    BY <2>1, <2>2, <2>3, <2>4
<1>2. /\ IsTx(tx') /\ tx'.signers_size = tx.signers_size
      /\ tx'.signers[i].size = tx.signers[i].size
  <2> DEFINE allowed == [tx.signers[i].allowed EXCEPT ![list][j] = offset]
  <2>1. tx' = [tx EXCEPT !.signers[i]["allowed"] = allowed]
    BY DEF ReadItem
  <2>2. "allowed" \in SignerFields /\ "allowed" # "size"
    BY DEF SignerFields
  <2> HIDE DEF allowed
  <2> QED
    BY <1>1, <2>1, <2>2, SignerField
<1>3. CASE Return("error")
  BY <1>2, <1>3, ReturnInside
<1>4. ASSUME CanRead(ItemLen(list)),
             \/ j = listed /\ NextList(ItemLen(list))
             \/ /\ j # listed /\ GoOn("item", ItemLen(list))
                /\ j' = j + 1 /\ UNCHANGED << i, list, listed >>
      PROVE  Inside'
  <2>1. ItemLen(list) \in Nat
    BY ScriptAssumption DEF ItemLen
  <2>2. CASE NextList(ItemLen(list))
    BY <1>1, <1>2, <1>4, <2>1, <2>2, NextListInside
  <2>3. CASE j # listed /\ GoOn("item", ItemLen(list)) /\ j' = j + 1 /\ UNCHANGED << i, list, listed >>
    <3>1. Position'
      BY <1>1, <1>2, <2>3 DEF GoOn, Position, Places
    <3> QED
      BY <1>2, <1>4, <2>1, <2>3, <3>1, GoOnInside
  <2> QED
    BY <1>4, <2>2, <2>3
<1> QED
  BY <1>3, <1>4 DEF ReadItem

\* A number of attributes that is taken fits the array of attributes.
LEMMA ReadAttributesLengthInside == Inside /\ ReadAttributesLength => Inside'
<1> SUFFICES ASSUME Inside, ReadAttributesLength PROVE Inside'
  OBVIOUS
<1>1. CASE Fail
  BY <1>1, ReturnInside DEF Fail, Inside
<1>2. ASSUME HasVarInt, VarInt <= MaxAttributes, tx' = [tx EXCEPT !.attributes_size = VarInt],
             \/ VarInt = 0 /\ GoOn("script", VarIntLen)
             \/ VarInt # 0 /\ GoOn("attribute", VarIntLen) /\ i' = 1
      PROVE  Inside'
  <2>1. VarInt \in Nat /\ VarInt \in 0 .. MaxAttributes /\ VarIntLen \in Nat /\ CanRead(VarIntLen)
    BY <1>2, VarIntType, LimitsAssumption DEF Inside, HasVarInt
  <2>2. IsTx(tx') /\ tx'.attributes_size = VarInt
    BY <1>2, <2>1, AttributesSizeField DEF Inside
  <2>3. CASE GoOn("script", VarIntLen)
    <3>1. Position'
      BY <2>3 DEF GoOn, Position, Places
    <3> QED
      BY <2>1, <2>2, <2>3, <3>1, GoOnInside
  <2>4. CASE VarInt # 0 /\ GoOn("attribute", VarIntLen) /\ i' = 1
    <3>1. Position'
      BY <2>1, <2>2, <2>4 DEF GoOn, Position, Places
    <3> QED
      BY <2>1, <2>2, <2>4, <3>1, GoOnInside
  <2> QED
    BY <1>2, <2>3, <2>4
<1> QED
  BY <1>1, <1>2 DEF ReadAttributesLength

\* An attribute is stored within its array.
LEMMA ReadAttributeInside == Inside /\ ReadAttribute => Inside'
<1> SUFFICES ASSUME Inside, ReadAttribute PROVE Inside'
  OBVIOUS
<1>1. i \in 1 .. tx.attributes_size /\ tx.attributes_size \in Nat /\ IsTx(tx)
  BY LimitsAssumption DEF ReadAttribute, Inside, Position, IsTx
<1>2. CASE Fail
  BY <1>1, <1>2, ReturnInside DEF Fail
<1>3. CASE Return("ATTRIBUTES_DUPLICATE_TYPE") /\ UNCHANGED tx
  BY <1>1, <1>3, ReturnInside
<1>4. ASSUME CanRead(1), tx' = [tx EXCEPT !.attributes[i] = HIGH_PRIORITY],
             \/ i = tx.attributes_size /\ GoOn("script", 1)
             \/ i # tx.attributes_size /\ GoOn("attribute", 1) /\ i' = i + 1
      PROVE  Inside'
  <2>1. tx' = [tx EXCEPT !["attributes"] = [tx.attributes EXCEPT ![i] = HIGH_PRIORITY]]
    BY <1>4
  <2> DEFINE v == [tx.attributes EXCEPT ![i] = HIGH_PRIORITY]
  <2> HIDE DEF v
  <2>a. tx' = [tx EXCEPT !["attributes"] = v]
    BY <2>1 DEF v
  <2>b. "attributes" \in TxFields
    BY DEF TxFields
  <2>2. IsTx(tx') /\ tx'.attributes_size = tx.attributes_size
    BY <1>1, <2>a, <2>b, OtherField
  <2>3. CASE GoOn("script", 1)
    <3>1. Position'
      BY <2>3 DEF GoOn, Position, Places
    <3> QED
      BY <1>4, <2>2, <2>3, <3>1, GoOnInside
  <2>4. CASE i # tx.attributes_size /\ GoOn("attribute", 1) /\ i' = i + 1
    <3>1. Position'
      BY <1>1, <2>2, <2>4 DEF GoOn, Position, Places
    <3> QED
      BY <1>4, <2>2, <2>4, <3>1, GoOnInside
  <2> QED
    BY <1>4, <2>3, <2>4
<1> QED
  BY <1>2, <1>3, <1>4 DEF ReadAttribute

\* The script is noted, with its length if it is within the upload.
LEMMA ScriptField ==
    ASSUME NEW t, NEW v, NEW n, IsTx(t)
    PROVE  IsTx([t EXCEPT !.script = v]) /\ IsTx([t EXCEPT !.script = v, !.script_size = n])
  BY DEF IsTx, TxFields

\* The script starts and ends within the upload.
LEMMA ReadScriptInside == Inside /\ ReadScript => Inside'
<1> SUFFICES ASSUME Inside, ReadScript PROVE Inside'
  OBVIOUS
<1>1. CASE ~HasVarInt
  <2>1. Fail
    BY <1>1 DEF ReadScript
  <2> QED
    BY <2>1, ReturnInside DEF Fail, Inside
<1>2. CASE HasVarInt /\ ScriptAccepted(VarInt) /\ CanRead(VarIntLen + VarInt)
  <2>1. IsTx(tx')
    <3>1. tx' = [tx EXCEPT !.script = offset + VarIntLen, !.script_size = VarInt]
      BY <1>2, Zenon DEF ReadScript
    <3>2. IsTx(tx)
      BY DEF Inside
    <3> QED
      BY <3>1, <3>2, ScriptField, Zenon
  <2>2. VarIntLen + VarInt \in Nat
    BY <1>2, VarIntType DEF Inside
  <2>3. GoOn("match", VarIntLen + VarInt)
    BY <1>2, Zenon DEF ReadScript
  <2>4. Position'
    BY <2>3 DEF GoOn, Position, Places
  <2> QED
    BY <1>2, <2>1, <2>2, <2>3, <2>4, GoOnInside
<1>3. CASE HasVarInt /\ ~(ScriptAccepted(VarInt) /\ CanRead(VarIntLen + VarInt))
  <2>1. IsTx(tx')
    <3>1. tx' = [tx EXCEPT !.script = offset + VarIntLen]
      BY <1>3, Zenon DEF ReadScript
    <3>2. IsTx(tx)
      BY DEF Inside
    <3> QED
      BY <3>1, <3>2, ScriptField, Zenon
  <2>2. Return("error")
    BY <1>3, Zenon DEF ReadScript
  <2> QED
    BY <2>1, <2>2, ReturnInside
<1> QED
  BY <1>1, <1>2, <1>3

\* The matchers write to no index and no size.
LEMMA MatchInside == Inside /\ Match => Inside'
  BY MatchIsTx, ReturnInside DEF Match, Inside

\* Every step of the parser.
LEMMA ReadInside == Inside /\ Read => Inside'
  BY ReadHeaderInside, ReadSignersLengthInside, ReadAccountInside, ReadScopeInside,
     ReadListLengthInside, ReadItemInside, ReadAttributesLengthInside, ReadAttributeInside,
     ReadScriptInside, MatchInside DEF Read

---------------------------------------------------------------------------
(* The host, the review, and the owner.                                    *)

\* The application starts with no parse under way.
LEMMA InsideInit == Init => Inside
<1> SUFFICES ASSUME Init PROVE Inside
  OBVIOUS
<1>1. raw \in Bytes /\ Len(raw) = 0
  BY DEF Init, Bytes
<1>2. IsTx(tx)
  BY EmptyIsTx DEF Init
<1>3. Position
  BY DEF Init, Position, Places
<1> QED
  BY <1>1, <1>2, <1>3, LimitsAssumption DEF Init, Inside

\* Nothing is under way, and the upload is another one of no smaller length.
LEMMA DoneInside ==
    ASSUME Inside, pc = "done", UNCHANGED << parser, tx >>,
           raw' \in Bytes, Len(raw') <= MaxLen, Len(raw) <= Len(raw')
    PROVE  Inside'
<1>1. Position'
  BY DEF parser, Inside, Position, Places
<1>2. offset' \in 0 .. Len(raw')
  BY DEF parser, Inside, Bytes
<1> QED
  BY <1>1, <1>2 DEF parser, Inside

\* Nothing the host or the owner does leads out of the upload or the arrays.
LEMMA InsideNext == Inside /\ [Next]_vars => Inside'
<1> SUFFICES ASSUME Inside, [Next]_vars PROVE Inside'
  OBVIOUS
<1>1. raw \in Bytes /\ Len(raw) \in Nat /\ Len(raw) <= MaxLen /\ IsTx(tx)
  BY DEF Inside, Bytes
<1>2. CASE NewUpload
  <2>1. raw' \in Bytes /\ Len(raw') = 0 /\ IsTx(tx') /\ offset' = 0
    BY <1>2, EmptyIsTx DEF NewUpload, HostMaySend, Inside, Position, Bytes
  <2>2. Position'
    BY <1>2 DEF NewUpload, HostMaySend, Inside, Position, Places
  <2> QED
    BY <2>1, <2>2, LimitsAssumption DEF Inside
<1>3. CASE ReceiveMore
  <2>1. raw' \in Bytes /\ Len(raw') <= MaxLen /\ Len(raw) <= Len(raw')
    BY <1>1, <1>3, NextDataType DEF ReceiveMore
  <2> QED
    BY <1>3, <2>1, DoneInside DEF ReceiveMore, HostMaySend
<1>4. CASE ReceiveLast
  <2>1. PICK data \in NextData : Begin(data)
    BY <1>4 DEF ReceiveLast
  <2>2. raw' \in Bytes /\ Len(raw') <= MaxLen /\ Len(raw') \in Nat
    BY <1>1, <2>1, NextDataType DEF Begin, Bytes
  <2>3. Position'
    BY <2>1 DEF Begin, Position, Places
  <2> QED
    BY <1>1, <2>1, <2>2, <2>3 DEF Begin, Inside
<1>5. CASE Parse
  BY <1>5, ReadInside DEF Parse
<1>6. CASE ShowReview
  <2>1. Position'
    BY <1>6 DEF ShowReview, Inside, Position, Places
  <2> QED
    BY <1>6, <2>1 DEF ShowReview, Inside
<1>7. CASE UNCHANGED << raw, tx, parser >>
  BY <1>7 DEF parser, Inside, Position
<1>8. CASE Approve
  <2>1. raw' \in Bytes /\ Len(raw') = Len(raw)
    BY <1>1, <1>8, AfterSigningType DEF Approve
  <2>2. Position'
    BY <1>8 DEF Approve, parser, Inside, Position
  <2> QED
    BY <1>8, <2>1, <2>2 DEF Approve, parser, Inside
<1>9. Look \/ Reject \/ UNCHANGED vars => UNCHANGED << raw, tx, parser >>
  BY DEF Look, Reject, vars
<1> QED
  BY <1>2, <1>3, <1>4, <1>5, <1>6, <1>7, <1>8, <1>9 DEF Next

---------------------------------------------------------------------------

\* The parser stays inside of the upload and of the arrays of the transaction, for
\* every limit and whatever the host sends: TypeOK of Upload.
THEOREM TypeTheorem == Spec => []TypeOK
<1>1. Spec => []Inside
  BY InsideInit, InsideNext, PTL DEF Spec
<1>2. Inside => TypeOK
  BY InsideIsTyped
<1> QED
  BY <1>1, <1>2, PTL
=============================================================================
