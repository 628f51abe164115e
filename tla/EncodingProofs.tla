---------------------------- MODULE EncodingProofs ----------------------------
(***************************************************************************)
(* That the review of an upload shows what the upload means: whatever is   *)
(* reviewed passed every check of the parser, an upload that begins with a *)
(* transaction the parser has read is the encoding of a content in one way *)
(* only, and the pairs of the review are the ones the content's owner has  *)
(* to see.  And that no encoding of a transaction within the limits is     *)
(* turned away.                                                            *)
(***************************************************************************)
EXTENDS FieldsProofs, NbglReviewProofs

---------------------------------------------------------------------------
(* What each step leaves alone.                                            *)

\* Every field of a transaction has the steps that write it.
LEMMA OthersKept ==
    ASSUME Shape(tx), Read
    PROVE  /\ pc # "header" => tx'.header = tx.header
           /\ pc # "signers_length" => tx'.signers_size = tx.signers_size
           /\ pc \notin {"account", "scope", "list", "item"} => tx'.signers = tx.signers
           /\ pc # "attributes_length" => tx'.attributes_size = tx.attributes_size
           /\ pc # "attribute" => tx'.attributes = tx.attributes
           /\ pc # "script" => tx'.script = tx.script /\ tx'.script_size = tx.script_size
<1>1. DOMAIN tx = TxFields
  BY DEF Shape, IsTx
<1>2. CASE ReadHeader
  BY <1>1, <1>2 DEF ReadHeader, TxFields
<1>3. CASE ReadSignersLength
  BY <1>1, <1>3 DEF ReadSignersLength, Fail, TxFields
<1>4. CASE ReadAccount
  BY <1>1, <1>4 DEF ReadAccount, TxFields
<1>5. CASE ReadScope
  <2>1. pc = "scope" /\ (tx' = tx \/ tx' = [tx EXCEPT !.signers[i].scope = OneByte])
    BY <1>5 DEF ReadScope
  <2> QED
    BY <1>1, <2>1 DEF TxFields
<1>6. CASE ReadListLength
  <2>1. pc = "list" /\ (tx' = tx \/ tx' = [tx EXCEPT !.signers[i].size[list] = VarInt])
    BY <1>6 DEF ReadListLength, Fail
  <2> QED
    BY <1>1, <2>1 DEF TxFields
<1>7. CASE ReadItem
  BY <1>1, <1>7 DEF ReadItem, TxFields
<1>8. CASE ReadAttributesLength
  BY <1>1, <1>8 DEF ReadAttributesLength, Fail, TxFields
<1>9. CASE ReadAttribute
  <2>1. pc = "attribute" /\ (tx' = tx \/ tx' = [tx EXCEPT !.attributes[i] = HIGH_PRIORITY])
    BY <1>9 DEF ReadAttribute, Fail
  <2> QED
    BY <1>1, <2>1 DEF TxFields
<1>10. CASE ReadScript
  <2>1. /\ pc = "script"
        /\ \/ tx' = tx
           \/ tx' = [tx EXCEPT !.script = offset + VarIntLen, !.script_size = VarInt]
           \/ tx' = [tx EXCEPT !.script = offset + VarIntLen]
    BY <1>10 DEF ReadScript, Fail
  <2> QED
    BY <1>1, <2>1 DEF TxFields
<1>11. CASE Match
  <2>1. pc = "match" /\ tx' = MatchScript(At(raw, tx.script, tx.script_size), tx)
    BY <1>11 DEF Match
  <2>2. \A f \in TxFields \ MatchFields : tx'[f] = tx[f]
    BY <2>1, MatchWrites
  <2>3. {"header", "signers_size", "signers", "attributes_size", "attributes", "script", "script_size"}
            \subseteq TxFields \ MatchFields
    BY DEF TxFields, MatchFields
  <2> QED
    BY <2>1, <2>2, <2>3
<1> QED
  BY <1>2, <1>3, <1>4, <1>5, <1>6, <1>7, <1>8, <1>9, <1>10, <1>11 DEF Read

---------------------------------------------------------------------------
(* The checks of the parser, all of them made when a review opens.         *)

HeaderPassed(t, n) == \A k \in 1 .. n : HeaderAccepted(HeaderFields[k], t.header[HeaderFields[k]])

Distinct(data, t, n) ==
    \A r, s \in 1 .. n :
       At(data, t.signers[r].account, UINT160_LEN) = At(data, t.signers[s].account, UINT160_LEN) => r = s
ScopesPassed(t, n)        == \A s \in 1 .. n : ScopeAccepted(t.signers[s].scope)
SignersPassed(data, t, n) == Distinct(data, t, n) /\ ScopesPassed(t, n)

Accepted(data, t) ==
    /\ HeaderPassed(t, 5)
    /\ t.signers_size # 0 /\ SignersPassed(data, t, t.signers_size)
    /\ t.attributes_size <= 1
    /\ t.script_size # 0

\* The invariant: what was checked so far.
Checked ==
    /\ DOMAIN tx.attributes = 1 .. MaxAttributes
    /\ pc = "header" => HeaderPassed(tx, i - 1)
    /\ pc \notin {"done", "header"} => HeaderPassed(tx, 5)
    /\ pc \notin {"done", "header", "signers_length"} => tx.signers_size # 0
    /\ pc \in {"account", "scope"} => SignersPassed(raw, tx, i - 1)
    /\ pc = "scope" => Distinct(raw, tx, i)
    /\ pc \in {"list", "item"} => SignersPassed(raw, tx, i)
    /\ pc \in {"attributes_length", "attribute", "script", "match"} => SignersPassed(raw, tx, tx.signers_size)
    /\ (pc = "attribute" /\ i > 1) => tx.attributes[1] = HIGH_PRIORITY
    /\ pc \in {"script", "match"} => tx.attributes_size <= 1
    /\ pc = "match" => tx.script_size # 0
    /\ ((pc = "done" /\ status = "PARSING_OK") \/ IsOpen) => Accepted(raw, tx)

\* An attempt that failed leaves nothing to be said.
LEMMA FailedChecked ==
    ASSUME pc' = "done", status' # "PARSING_OK", ~IsOpen', DOMAIN tx'.attributes = 1 .. MaxAttributes
    PROVE  Checked'
  BY DEF Checked

\* The header.
LEMMA HeaderChecked ==
    ASSUME Inside, Shape(tx), Checked, ReadHeader, ~IsOpen'
    PROVE  Checked'
<1> DEFINE f     == HeaderFields[i]
           bytes == IF CanRead(Width(f)) THEN Ahead(Width(f)) ELSE [k \in 1 .. Width(f) |-> 0]
<1>1. /\ pc = "header" /\ i \in 1 .. 5 /\ f \in Headers /\ tx' = [tx EXCEPT !.header[f] = bytes]
      /\ HeaderPassed(tx, i - 1) /\ DOMAIN tx.header = Headers
  BY HeaderEnds DEF ReadHeader, Inside, Position, Headers, Checked, Shape
<1>2. tx'.header[f] = bytes /\ \A g \in Headers \ {f} : tx'.header[g] = tx.header[g]
  <2> HIDE DEF f, bytes
  <2> QED
    BY <1>1 DEF Shape, IsTx, TxFields
<1>3. DOMAIN tx'.attributes = 1 .. MaxAttributes
  BY <1>1, OthersKept DEF Read, Checked
<1>4. CASE Return("error")
  BY <1>3, <1>4, FailedChecked DEF Return
<1>5. CASE ~Return("error")
  <2>1. HeaderAccepted(f, bytes) /\ IF i = 5 THEN pc' = "signers_length" ELSE pc' = "header" /\ i' = i + 1
    BY <1>1, <1>5, HeaderEnds DEF ReadHeader, GoOn
  <2> HIDE DEF bytes
  <2>2. HeaderPassed(tx', i)
    <3> SUFFICES ASSUME NEW k \in 1 .. i
                 PROVE  HeaderAccepted(HeaderFields[k], tx'.header[HeaderFields[k]])
      BY DEF HeaderPassed
    <3>1. CASE k = i
      BY <1>2, <2>1, <3>1
    <3>2. CASE k # i
      <4>1. k \in 1 .. 5 /\ k \in 1 .. i - 1
        BY <1>1, <3>2
      <4>2. HeaderFields[k] \in Headers \ {f}
        BY <1>1, <3>2, <4>1, HeaderEnds DEF Headers
      <4>3. tx'.header[HeaderFields[k]] = tx.header[HeaderFields[k]]
        BY <1>2, <4>2
      <4>4. HeaderAccepted(HeaderFields[k], tx.header[HeaderFields[k]])
        BY <1>1, <4>1 DEF HeaderPassed
      <4> QED
        BY <4>3, <4>4
    <3> QED
      BY <3>1, <3>2
  <2>3. CASE i = 5
    <3>1. pc' = "signers_length" /\ HeaderPassed(tx', 5)
      BY <2>1, <2>2, <2>3
    <3> QED
      BY <1>3, <3>1 DEF Checked
  <2>4. CASE i # 5
    <3>1. pc' = "header" /\ i' - 1 = i
      BY <1>1, <2>1, <2>4
    <3>2. HeaderPassed(tx', i' - 1)
      BY <2>2, <3>1
    <3> QED
      BY <1>3, <3>1, <3>2 DEF Checked
  <2> QED
    BY <2>3, <2>4
<1> QED
  BY <1>4, <1>5

\* Checks that were passed stay passed, as far as signers are kept.
LEMMA PassedKept ==
    ASSUME NEW data, NEW t, NEW u, NEW n \in Nat, SignersPassed(data, t, n),
           \A s \in 1 .. n : /\ u.signers[s].account = t.signers[s].account
                            /\ u.signers[s].scope = t.signers[s].scope
    PROVE  SignersPassed(data, u, n)
  BY DEF SignersPassed, Distinct, ScopesPassed

\* The number of signers.
LEMMA SignersLengthChecked ==
    ASSUME Inside, Shape(tx), Checked, ReadSignersLength, ~IsOpen'
    PROVE  Checked'
<1>1. /\ pc = "signers_length" /\ HeaderPassed(tx, 5)
      /\ tx'.header = tx.header /\ DOMAIN tx'.attributes = 1 .. MaxAttributes
  BY OthersKept DEF ReadSignersLength, Read, Checked
<1>2. CASE Fail
  BY <1>1, <1>2, FailedChecked DEF Fail, Return
<1>3. CASE ~Fail
  <2>1. /\ VarInt \in 1 .. MaxSigners /\ tx' = [tx EXCEPT !.signers_size = VarInt]
        /\ pc' = "account" /\ i' = 1
    BY <1>3 DEF ReadSignersLength, SignersAccepted, GoOn
  <2>2. tx'.signers_size # 0
    BY <2>1 DEF Shape, IsTx, TxFields
  <2>3. SignersPassed(raw', tx', i' - 1)
    BY <2>1 DEF SignersPassed, Distinct, ScopesPassed
  <2>4. HeaderPassed(tx', 5)
    BY <1>1 DEF HeaderPassed
  <2> QED
    BY <1>1, <2>1, <2>2, <2>3, <2>4 DEF Checked
<1> QED
  BY <1>2, <1>3

\* An account that no signer before has.
LEMMA AccountChecked ==
    ASSUME Inside, Shape(tx), Checked, ReadAccount, ~IsOpen'
    PROVE  Checked'
<1>1. /\ pc = "account" /\ HeaderPassed(tx, 5) /\ tx.signers_size # 0 /\ SignersPassed(raw, tx, i - 1)
      /\ i \in 1 .. MaxSigners /\ tx' = [tx EXCEPT !.signers[i].account = offset]
  <2>1. pc = "account" /\ tx' = [tx EXCEPT !.signers[i].account = offset]
    BY DEF ReadAccount
  <2> QED
    BY <2>1, SignerRead DEF Checked
<1>2. /\ tx'.header = tx.header /\ tx'.signers_size = tx.signers_size
      /\ DOMAIN tx'.attributes = 1 .. MaxAttributes
  BY <1>1, OthersKept DEF Read, Checked
<1>3. /\ tx'.signers[i].account = offset
      /\ \A s \in 1 .. i - 1 : /\ tx'.signers[s].account = tx.signers[s].account
                               /\ tx'.signers[s].scope = tx.signers[s].scope
  <2>1. \A s \in 1 .. i - 1 : s \in 1 .. MaxSigners /\ s # i
    BY <1>1, Limits
  <2> QED
    BY <1>1, <2>1 DEF Shape, IsTx, TxFields, SignerFields
<1>4. CASE Return("error")
  BY <1>2, <1>4, FailedChecked DEF Return
<1>5. CASE ~Return("error")
  <2>1. /\ ~AccountKnown(Ahead(UINT160_LEN)) /\ pc' = "scope" /\ i' = i /\ raw' = raw
    BY <1>5 DEF ReadAccount, GoOn
  <2>2. SignersPassed(raw, tx', i - 1)
    <3>1. i - 1 \in Nat
      BY <1>1, Limits
    <3> QED
      BY <1>1, <1>3 DEF SignersPassed, Distinct, ScopesPassed
  <2>3. Distinct(raw, tx', i)
    <3>1. \A s \in 1 .. i - 1 : At(raw, tx'.signers[s].account, UINT160_LEN) # At(raw, offset, UINT160_LEN)
      BY <1>3, <2>1 DEF AccountKnown, Ahead
    <3> SUFFICES ASSUME NEW r \in 1 .. i, NEW s \in 1 .. i, r # s,
                        At(raw, tx'.signers[r].account, UINT160_LEN) = At(raw, tx'.signers[s].account, UINT160_LEN)
                 PROVE  FALSE
      BY DEF Distinct
    <3>2. r \in 1 .. i - 1 \/ r = i
      BY <1>1
    <3>3. s \in 1 .. i - 1 \/ s = i
      BY <1>1
    <3>4. CASE r \in 1 .. i - 1 /\ s \in 1 .. i - 1
      BY <2>2, <3>4 DEF SignersPassed, Distinct
    <3>5. CASE r = i \/ s = i
      BY <1>3, <3>1, <3>2, <3>3, <3>5
    <3> QED
      BY <3>2, <3>3, <3>4, <3>5
  <2>4. HeaderPassed(tx', 5) /\ tx'.signers_size # 0
    BY <1>1, <1>2 DEF HeaderPassed
  <2> QED
    BY <1>2, <2>1, <2>2, <2>3, <2>4 DEF Checked
<1> QED
  BY <1>4, <1>5

\* A scope.
LEMMA ScopeChecked ==
    ASSUME Inside, Shape(tx), Checked, ReadScope, ~IsOpen'
    PROVE  Checked'
<1>1. /\ pc = "scope" /\ HeaderPassed(tx, 5) /\ tx.signers_size # 0
      /\ SignersPassed(raw, tx, i - 1) /\ Distinct(raw, tx, i) /\ i \in 1 .. MaxSigners
  <2>1. pc = "scope"
    BY DEF ReadScope
  <2> QED
    BY <2>1, SignerRead DEF Checked
<1>2. /\ tx'.header = tx.header /\ tx'.signers_size = tx.signers_size
      /\ DOMAIN tx'.attributes = 1 .. MaxAttributes
  BY <1>1, OthersKept DEF Read, Checked
<1>3. CASE Return("error")
  BY <1>2, <1>3, FailedChecked DEF Return
<1>4. CASE ~Return("error")
  <2>1. /\ tx' = [tx EXCEPT !.signers[i].scope = OneByte] /\ ScopeAccepted(OneByte)
        /\ pc' = "list" /\ i' = i /\ raw' = raw
    BY <1>4 DEF ReadScope, GoOn
  <2>2. /\ \A s \in 1 .. i : tx'.signers[s].account = tx.signers[s].account
        /\ \A s \in 1 .. i - 1 : tx'.signers[s].scope = tx.signers[s].scope
        /\ tx'.signers[i].scope = OneByte
    <3>1. /\ \A s \in 1 .. i : s \in 1 .. MaxSigners
          /\ \A s \in 1 .. i - 1 : s # i /\ s \in 1 .. i
      BY <1>1, Limits
    <3> QED
      BY <1>1, <2>1, <3>1 DEF Shape, IsTx, TxFields, SignerFields
  <2>3. Distinct(raw, tx', i)
    BY <1>1, <2>2 DEF Distinct
  <2>4. ScopesPassed(tx', i)
    <3>1. \A s \in 1 .. i : s \in 1 .. i - 1 \/ s = i
      BY <1>1
    <3> QED
      BY <1>1, <2>1, <2>2, <3>1 DEF SignersPassed, ScopesPassed
  <2>5. SignersPassed(raw', tx', i')
    BY <2>1, <2>3, <2>4 DEF SignersPassed
  <2>6. HeaderPassed(tx', 5) /\ tx'.signers_size # 0
    BY <1>1, <1>2 DEF HeaderPassed
  <2> QED
    BY <1>2, <2>1, <2>5, <2>6 DEF Checked
<1> QED
  BY <1>3, <1>4

\* Past a list.
LEMMA NextListChecked ==
    ASSUME NEW n, pc \in {"list", "item"}, i \in 1 .. tx.signers_size, tx.signers_size \in Nat,
           NextList(n), ~IsOpen', DOMAIN tx'.attributes = 1 .. MaxAttributes,
           HeaderPassed(tx', 5), tx'.signers_size = tx.signers_size, SignersPassed(raw, tx', i)
    PROVE  Checked'
<1>1. raw' = raw /\ tx'.signers_size # 0
  BY DEF NextList, GoOn
<1>2. CASE list = "contracts"
  <2>1. pc' = "list" /\ i' = i
    BY <1>2 DEF NextList, GoOn
  <2>2. SignersPassed(raw', tx', i')
    BY <1>1, <2>1
  <2> QED
    BY <1>1, <2>1, <2>2 DEF Checked
<1>3. CASE list # "contracts" /\ i < tx.signers_size
  <2>1. pc' = "account" /\ i' - 1 = i
    BY <1>3 DEF NextList, GoOn
  <2>2. SignersPassed(raw', tx', i' - 1)
    BY <1>1, <2>1
  <2> QED
    BY <1>1, <2>1, <2>2 DEF Checked
<1>4. CASE list # "contracts" /\ ~(i < tx.signers_size)
  <2>1. pc' = "attributes_length" /\ i = tx'.signers_size
    BY <1>4 DEF NextList, GoOn
  <2>2. SignersPassed(raw', tx', tx'.signers_size)
    BY <1>1, <2>1
  <2> QED
    BY <1>1, <2>1, <2>2 DEF Checked
<1> QED
  BY <1>2, <1>3, <1>4

\* The lists, of which the checks say nothing.
LEMMA ListsChecked ==
    ASSUME Inside, Shape(tx), Checked, ReadListLength \/ ReadItem, ~IsOpen'
    PROVE  Checked'
<1>1. /\ pc \in {"list", "item"} /\ HeaderPassed(tx, 5) /\ tx.signers_size # 0 /\ SignersPassed(raw, tx, i)
      /\ i \in 1 .. MaxSigners /\ i \in 1 .. tx.signers_size /\ tx.signers_size \in Nat
  <2>1. pc \in {"list", "item"}
    BY DEF ReadListLength, ReadItem
  <2> QED
    BY <2>1, SignerRead DEF Checked
<1>2. /\ tx'.header = tx.header /\ tx'.signers_size = tx.signers_size
      /\ DOMAIN tx'.attributes = 1 .. MaxAttributes
  BY <1>1, OthersKept DEF Read, Checked
<1>3. \/ tx' = tx \/ tx' = [tx EXCEPT !.signers[i].size[list] = VarInt]
      \/ tx' = [tx EXCEPT !.signers[i].allowed[list][j] = offset]
  BY DEF ReadListLength, ReadItem, Fail
<1>4. \A s \in 1 .. i : /\ tx'.signers[s].account = tx.signers[s].account
                        /\ tx'.signers[s].scope = tx.signers[s].scope
  <2>1. i \in Nat /\ \A s \in 1 .. i : s \in 1 .. MaxSigners
    BY <1>1, Limits
  <2>2. CASE tx' = [tx EXCEPT !.signers[i].size[list] = VarInt]
    BY <1>1, <2>1, <2>2 DEF Shape, IsTx, TxFields, SignerFields
  <2>3. CASE tx' = [tx EXCEPT !.signers[i].allowed[list][j] = offset]
    BY <1>1, <2>1, <2>3 DEF Shape, IsTx, TxFields, SignerFields
  <2> QED
    BY <1>3, <2>2, <2>3
<1>5. SignersPassed(raw, tx', i) /\ HeaderPassed(tx', 5)
  <2>1. i \in Nat
    BY <1>1, Limits
  <2> QED
    BY <1>1, <1>2, <1>4, <2>1, PassedKept DEF HeaderPassed
<1>6. CASE Return("error")
  BY <1>2, <1>6, FailedChecked DEF Return
<1>7. ASSUME NEW n, NextList(n) PROVE Checked'
  BY <1>1, <1>2, <1>5, <1>7, NextListChecked
<1>8. ASSUME NEW n, GoOn("item", n), i' = i PROVE Checked'
  <2>1. pc' = "item" /\ raw' = raw
    BY <1>8 DEF GoOn
  <2>2. SignersPassed(raw', tx', i')
    BY <1>5, <1>8, <2>1
  <2> QED
    BY <1>1, <1>2, <1>5, <2>1, <2>2 DEF Checked
<1> QED
  BY <1>6, <1>7, <1>8 DEF ReadListLength, ReadItem, Fail

\* The number of attributes.
LEMMA AttributesLengthChecked ==
    ASSUME Inside, Shape(tx), Checked, ReadAttributesLength, ~IsOpen'
    PROVE  Checked'
<1>1. /\ pc = "attributes_length" /\ HeaderPassed(tx, 5) /\ tx.signers_size # 0
      /\ SignersPassed(raw, tx, tx.signers_size)
  BY DEF ReadAttributesLength, Checked
<1>2. /\ tx'.header = tx.header /\ tx'.signers_size = tx.signers_size /\ tx'.signers = tx.signers
      /\ DOMAIN tx'.attributes = 1 .. MaxAttributes
  BY <1>1, OthersKept DEF Read, Checked
<1>3. CASE Fail
  BY <1>2, <1>3, FailedChecked DEF Fail, Return
<1>4. CASE ~Fail
  <2>1. /\ tx' = [tx EXCEPT !.attributes_size = VarInt] /\ raw' = raw
        /\ \/ VarInt = 0 /\ pc' = "script"
           \/ pc' = "attribute" /\ i' = 1
    BY <1>4 DEF ReadAttributesLength, GoOn
  <2>2. HeaderPassed(tx', 5) /\ SignersPassed(raw', tx', tx'.signers_size) /\ tx'.signers_size # 0
    BY <1>1, <1>2, <2>1 DEF HeaderPassed, SignersPassed, Distinct, ScopesPassed
  <2>3. tx'.attributes_size = VarInt
    BY <2>1 DEF Shape, IsTx, TxFields
  <2> QED
    BY <1>2, <2>1, <2>2, <2>3 DEF Checked
<1> QED
  BY <1>3, <1>4

\* An attribute: the second would be there twice.
LEMMA AttributeChecked ==
    ASSUME Inside, Shape(tx), Checked, ReadAttribute, ~IsOpen'
    PROVE  Checked'
<1>1. /\ pc = "attribute" /\ HeaderPassed(tx, 5) /\ tx.signers_size # 0
      /\ SignersPassed(raw, tx, tx.signers_size)
      /\ i \in 1 .. tx.attributes_size /\ tx.attributes_size \in 0 .. MaxAttributes
      /\ DOMAIN tx.attributes = 1 .. MaxAttributes
      /\ i > 1 => tx.attributes[1] = HIGH_PRIORITY
  <2>1. pc = "attribute"
    BY DEF ReadAttribute
  <2> QED
    BY <2>1 DEF Checked, Inside, Position, IsTx
<1>2. /\ tx'.header = tx.header /\ tx'.signers_size = tx.signers_size /\ tx'.signers = tx.signers
      /\ tx'.attributes_size = tx.attributes_size
  BY <1>1, OthersKept DEF Read
<1>3. CASE pc' = "done"
  <2>1. tx' = tx /\ status' # "PARSING_OK"
    BY <1>3 DEF ReadAttribute, Fail, Return, GoOn
  <2> QED
    BY <1>1, <1>3, <2>1, FailedChecked
<1>4. CASE pc' # "done"
  <2>1. /\ ~AttributeKnown(HIGH_PRIORITY) /\ tx' = [tx EXCEPT !.attributes[i] = HIGH_PRIORITY] /\ raw' = raw
        /\ IF i = tx.attributes_size THEN pc' = "script" ELSE pc' = "attribute" /\ i' = i + 1
    BY <1>4 DEF ReadAttribute, Fail, Return, GoOn
  <2>2. i = 1
    BY <1>1, <2>1, Limits DEF AttributeKnown
  <2>3. tx'.attributes[1] = HIGH_PRIORITY /\ DOMAIN tx'.attributes = 1 .. MaxAttributes
    BY <1>1, <2>1, <2>2, Limits DEF Shape, IsTx, TxFields
  <2>4. HeaderPassed(tx', 5) /\ SignersPassed(raw', tx', tx'.signers_size) /\ tx'.signers_size # 0
    BY <1>1, <1>2, <2>1 DEF HeaderPassed, SignersPassed, Distinct, ScopesPassed
  <2>5. pc' = "script" => tx'.attributes_size <= 1
    BY <1>2, <2>1, <2>2
  <2> QED
    BY <2>1, <2>3, <2>4, <2>5 DEF Checked
<1> QED
  BY <1>3, <1>4

\* No script that is let through is empty.
LEMMA ScriptNotEmpty == ASSUME NEW n, ScriptAccepted(n) PROVE n # 0
  BY Z3 DEF ScriptAccepted

\* The script.
LEMMA ScriptChecked ==
    ASSUME Inside, Shape(tx), Checked, ReadScript, ~IsOpen'
    PROVE  Checked'
<1>1. /\ pc = "script" /\ HeaderPassed(tx, 5) /\ tx.signers_size # 0
      /\ SignersPassed(raw, tx, tx.signers_size) /\ tx.attributes_size <= 1
  BY DEF ReadScript, Checked
<1>2. /\ tx'.header = tx.header /\ tx'.signers_size = tx.signers_size /\ tx'.signers = tx.signers
      /\ tx'.attributes_size = tx.attributes_size /\ DOMAIN tx'.attributes = 1 .. MaxAttributes
  BY <1>1, OthersKept DEF Read, Checked
<1>3. CASE Return("error")
  BY <1>2, <1>3, FailedChecked DEF Return
<1>4. CASE ~Return("error")
  <2>1. /\ ScriptAccepted(VarInt) /\ pc' = "match" /\ raw' = raw
        /\ tx' = [tx EXCEPT !.script = offset + VarIntLen, !.script_size = VarInt]
    BY <1>4 DEF ReadScript, Fail, GoOn
  <2>2. tx'.script_size # 0
    <3>1. tx'.script_size = VarInt
      <4> DEFINE t == [tx EXCEPT !.script = offset + VarIntLen]
      <4>1. DOMAIN t = TxFields /\ tx' = [t EXCEPT !.script_size = VarInt]
        BY <2>1 DEF Shape, IsTx
      <4> HIDE DEF t
      <4> QED
        BY <4>1 DEF TxFields
    <3>2. VarInt # 0
      BY <2>1, ScriptNotEmpty
    <3> QED
      BY <3>1, <3>2
  <2>3. HeaderPassed(tx', 5) /\ SignersPassed(raw', tx', tx'.signers_size) /\ tx'.signers_size # 0
    BY <1>1, <1>2, <2>1 DEF HeaderPassed, SignersPassed, Distinct, ScopesPassed
  <2> QED
    BY <1>1, <1>2, <2>1, <2>2, <2>3 DEF Checked
<1> QED
  BY <1>3, <1>4

\* The matchers, behind which nothing is left to check.
LEMMA MatchChecked ==
    ASSUME Inside, Shape(tx), Checked, Match, ~IsOpen'
    PROVE  Checked'
<1>1. /\ pc = "match" /\ HeaderPassed(tx, 5) /\ tx.signers_size # 0
      /\ SignersPassed(raw, tx, tx.signers_size) /\ tx.attributes_size <= 1 /\ tx.script_size # 0
  BY DEF Match, Checked
<1>2. /\ tx'.header = tx.header /\ tx'.signers_size = tx.signers_size /\ tx'.signers = tx.signers
      /\ tx'.attributes_size = tx.attributes_size /\ tx'.script_size = tx.script_size
      /\ DOMAIN tx'.attributes = 1 .. MaxAttributes
  BY <1>1, OthersKept DEF Read, Checked
<1>3. pc' = "done" /\ raw' = raw
  BY DEF Match, Return
<1>4. Accepted(raw', tx')
  BY <1>1, <1>2, <1>3 DEF Accepted, HeaderPassed, SignersPassed, Distinct, ScopesPassed
<1> QED
  BY <1>2, <1>3, <1>4 DEF Checked

\* The application starts with nothing to check.
LEMMA CheckedInit == Init => Checked
<1> SUFFICES ASSUME Init PROVE Checked
  OBVIOUS
<1>1. DOMAIN tx.attributes = 1 .. MaxAttributes
  BY DEF Init, EmptyTx
<1>2. pc = "done" /\ status = "none" /\ ~IsOpen
  BY DEF Init, IsOpen
<1> QED
  BY <1>1, <1>2 DEF Checked

\* The invariant, step by step.
LEMMA CheckedNext ==
    ASSUME OnceInv, FieldsInv, ~signed => Checked, [Next]_vars, ~signed'
    PROVE  Checked'
<1>1. CASE NewUpload
  <2>1. tx' = EmptyTx /\ status' # "PARSING_OK" /\ pc' = "done" /\ ~IsOpen'
    BY <1>1 DEF NewUpload, HostMaySend, review, IsOpen
  <2>2. DOMAIN tx'.attributes = 1 .. MaxAttributes
    BY <2>1 DEF EmptyTx
  <2> QED
    BY <2>1, <2>2, FailedChecked
<1>2. CASE ~NewUpload
  <2>1. ~signed /\ ~Approve /\ Checked
    BY <1>2, SignedKept
  <2>2. Inside /\ Shape(tx) /\ DOMAIN tx.attributes = 1 .. MaxAttributes
    BY <2>1 DEF OnceInv, FieldsInv, Checked
  <2>3. CASE ReceiveMore
    <3>1. pc' = "done" /\ status' # "PARSING_OK" /\ ~IsOpen' /\ tx' = tx
      BY <2>3 DEF ReceiveMore, HostMaySend, parser, review, IsOpen
    <3> QED
      BY <2>2, <3>1, FailedChecked
  <2>4. CASE ReceiveLast
    <3>1. pc' = "header" /\ i' = 1 /\ tx' = tx /\ ~IsOpen'
      BY <2>4 DEF ReceiveLast, Begin, HostMaySend, review, IsOpen
    <3>2. HeaderPassed(tx', i' - 1)
      BY <3>1 DEF HeaderPassed
    <3> QED
      BY <2>2, <3>1, <3>2 DEF Checked
  <2>5. CASE Parse
    <3>1. Read /\ page' = page
      BY <2>5 DEF Parse, review
    <3>2. pc # "done"
      BY <3>1 DEF Read, ReadHeader, ReadSignersLength, ReadAccount, ReadScope, ReadListLength, ReadItem,
           ReadAttributesLength, ReadAttribute, ReadScript, Match
    <3>3. ~IsOpen'
      BY <3>1, <3>2 DEF OnceInv, IsOpen
    <3> QED
      BY <2>1, <2>2, <3>1, <3>3, HeaderChecked, SignersLengthChecked, AccountChecked, ScopeChecked, ListsChecked,
         AttributesLengthChecked, AttributeChecked, ScriptChecked, MatchChecked DEF Read
  <2>6. CASE ShowReview
    <3>1. raw' = raw /\ tx' = tx /\ pc = "done" /\ pc' = "done" /\ status = "PARSING_OK"
      BY <2>6 DEF ShowReview
    <3> QED
      BY <2>1, <2>2, <3>1 DEF Checked
  <2>7. CASE Look \/ Reject \/ UNCHANGED vars
    <3>1. UNCHANGED << raw, tx, parser >> /\ (IsOpen' => IsOpen)
      BY <2>7 DEF Look, Measure, Draw, Swipe, Drawn, Reject, IsOpen, vars, review
    <3>2. UNCHANGED << raw, tx, pc, i, status >>
      BY <3>1 DEF parser
    <3> QED
      BY <2>1, <3>1, <3>2 DEF Checked
  <2> QED
    BY <1>2, <2>1, <2>3, <2>4, <2>5, <2>6, <2>7 DEF Next
<1> QED
  BY <1>1, <1>2

---------------------------------------------------------------------------
(* What lies where in an upload.                                           *)

\* A part of u lies at an offset.
Sits(u, o, part) == o + Len(part) <= Len(u) /\ \A k \in 1 .. Len(part) : u[o + k] = part[k]

\* What lies at the end of another part lies behind it.
LEMMA SitsSplit ==
    ASSUME NEW S, NEW u \in Seq(S), NEW o \in Nat, NEW a \in Seq(S), NEW b \in Seq(S), Sits(u, o, a \o b)
    PROVE  /\ Sits(u, o, a) /\ Sits(u, o + Len(a), b)
           /\ a \o b \in Seq(S) /\ Len(a \o b) = Len(a) + Len(b)
<1>1. /\ a \o b \in Seq(S) /\ Len(a \o b) = Len(a) + Len(b)
      /\ \A k \in 1 .. Len(a) + Len(b) : (a \o b)[k] = IF k <= Len(a) THEN a[k] ELSE b[k - Len(a)]
  BY ConcatProperties
<1>2. Len(a) \in Nat /\ Len(b) \in Nat /\ Len(u) \in Nat
  OBVIOUS
<1>3. /\ o + (Len(a) + Len(b)) <= Len(u)
      /\ \A k \in 1 .. Len(a) + Len(b) : u[o + k] = (a \o b)[k]
  BY <1>1 DEF Sits
<1>4. ASSUME NEW k \in 1 .. Len(a) PROVE u[o + k] = a[k]
  <2>1. k \in 1 .. Len(a) + Len(b) /\ k <= Len(a)
    BY <1>2
  <2> QED
    BY <1>1, <1>3, <2>1
<1>5. ASSUME NEW k \in 1 .. Len(b) PROVE u[o + Len(a) + k] = b[k]
  <2>1. /\ Len(a) + k \in 1 .. Len(a) + Len(b) /\ ~(Len(a) + k <= Len(a)) /\ (Len(a) + k) - Len(a) = k
        /\ o + Len(a) + k = o + (Len(a) + k)
    BY <1>2
  <2> QED
    BY <1>1, <1>3, <2>1
<1>6. o + Len(a) <= Len(u) /\ (o + Len(a)) + Len(b) <= Len(u)
  BY <1>2, <1>3
<1> QED
  BY <1>1, <1>4, <1>5, <1>6 DEF Sits

\* Parts one behind the other, the k-th of them at p[k].
Parts(u, o, ss, p) ==
    /\ p[1] = o /\ \A k \in 1 .. Len(ss) + 1 : p[k] \in Nat
    /\ \A k \in 1 .. Len(ss) : Sits(u, p[k], ss[k]) /\ p[k + 1] = p[k] + Len(ss[k])

\* FlattenSeq of no parts is nothing.
LEMMA FlattenEmpty ==
    ASSUME NEW ss, DOMAIN ss = {}, Len(ss) = 0
    PROVE  FlattenSeq(ss) = << >>
  BY DEF FlattenSeq

\* The parts of a sequence that was flattened.
LEMMA FlattenSits ==
    ASSUME NEW S, NEW n \in Nat, NEW ss \in [1 .. n -> Seq(S)], NEW u \in Seq(S), NEW o \in Nat,
           Sits(u, o, FlattenSeq(ss))
    PROVE  /\ FlattenSeq(ss) \in Seq(S)
           /\ \E p : Parts(u, o, ss, p) /\ p[n + 1] = o + Len(FlattenSeq(ss))
<1>1. Len(ss) = n /\ DOMAIN ss = 1 .. n
  OBVIOUS
<1>2. CASE n = 0
  <2>1. FlattenSeq(ss) = << >>
    BY <1>1, <1>2, FlattenEmpty
  <2> DEFINE p == << o >>
  <2>2. Len(FlattenSeq(ss)) = 0 /\ p[1] = o /\ 1 .. Len(ss) = {} /\ \A k \in 1 .. Len(ss) + 1 : k = 1
    BY <1>1, <1>2, <2>1
  <2>3. Parts(u, o, ss, p) /\ p[n + 1] = o + Len(FlattenSeq(ss))
    BY <1>2, <2>2 DEF Parts
  <2> QED
    BY <2>1, <2>3
<1>3. CASE n # 0
  <2>1. n \in Nat \ {0}
    BY <1>3
  <2>2. PICK h : Joins(ss, n, h) /\ FlattenSeq(ss) = h[n]
    BY <2>1, FlattenJoins
  <2>3. /\ h[1] = ss[1]
        /\ \A k \in 1 .. n : k < n => h[k + 1] = h[k] \o ss[k + 1]
        /\ \A k \in 1 .. n : h[k] \in Seq(S)
    BY <2>1, <2>2, JoinsSteps
  <2> DEFINE T == {m \in 1 .. n : Sits(u, o, h[n + 1 - m])}
  <2>4. 1 \in T
    <3>1. n + 1 - 1 = n /\ 1 \in 1 .. n
      BY <2>1
    <3> QED
      BY <2>2, <3>1
  <2>5. ASSUME NEW m \in 1 .. n, m < n, m \in T PROVE m + 1 \in T
    <3> DEFINE k == n - m
    <3>1. k \in 1 .. n /\ k < n /\ n + 1 - m = k + 1 /\ n + 1 - (m + 1) = k /\ m + 1 \in 1 .. n /\ k + 1 \in 1 .. n
      BY <2>5
    <3> HIDE DEF k
    <3>2. Sits(u, o, h[k] \o ss[k + 1])
      BY <2>3, <2>5, <3>1
    <3>3. h[k] \in Seq(S) /\ ss[k + 1] \in Seq(S)
      BY <2>3, <3>1
    <3>4. Sits(u, o, h[k])
      BY <3>2, <3>3, SitsSplit
    <3> QED
      BY <3>1, <3>4
  <2>6. 1 .. n \subseteq T
    <3> HIDE DEF T
    <3> QED
      BY <2>4, <2>5, UpTo
  <2>7. \A k \in 1 .. n : Sits(u, o, h[k])
    <3> TAKE k \in 1 .. n
    <3>1. n + 1 - k \in 1 .. n /\ n + 1 - (n + 1 - k) = k
      OBVIOUS
    <3>2. n + 1 - k \in T
      BY <2>6, <3>1
    <3> QED
      BY <3>1, <3>2
  <2> HIDE DEF T
  <2> DEFINE p == [k \in 1 .. n + 1 |-> IF k = 1 THEN o ELSE o + Len(h[k - 1])]
  <2>8. p[1] = o /\ \A k \in 1 .. n : p[k + 1] = o + Len(h[k])
    BY <2>1
  <2>9. ASSUME NEW k \in 1 .. n + 1 PROVE p[k] \in Nat
    <3>1. CASE k = 1
      BY <2>8, <3>1
    <3>2. CASE k # 1
      <4>1. k - 1 \in 1 .. n /\ (k - 1) + 1 = k
        BY <3>2
      <4>2. Len(h[k - 1]) \in Nat
        BY <2>3, <4>1
      <4>3. p[k] = o + Len(h[k - 1])
        BY <3>2
      <4> QED
        BY <4>2, <4>3
    <3> QED
      BY <3>1, <3>2
  <2>10. ASSUME NEW k \in 1 .. n PROVE Sits(u, p[k], ss[k]) /\ p[k + 1] = p[k] + Len(ss[k])
    <3>1. CASE k = 1
      BY <2>3, <2>7, <2>8, <3>1
    <3>2. CASE k # 1
      <4> DEFINE q == k - 1
      <4>1. q \in 1 .. n /\ q < n /\ q + 1 = k
        BY <3>2
      <4> HIDE DEF q
      <4>2. h[k] = h[q] \o ss[k] /\ h[q] \in Seq(S) /\ ss[k] \in Seq(S) /\ Sits(u, o, h[k])
        BY <2>3, <2>7, <4>1
      <4>3. Sits(u, o + Len(h[q]), ss[k]) /\ Len(h[k]) = Len(h[q]) + Len(ss[k])
        <5>1. Sits(u, o, h[q] \o ss[k])
          BY <4>2
        <5>2. h[q] \in Seq(S) /\ ss[k] \in Seq(S)
          BY <4>2
        <5>3. Sits(u, o + Len(h[q]), ss[k]) /\ Len(h[q] \o ss[k]) = Len(h[q]) + Len(ss[k])
          BY <5>1, <5>2, SitsSplit
        <5> QED
          BY <4>2, <5>3
      <4>4. p[k] = o + Len(h[q]) /\ p[k + 1] = o + Len(h[k])
        BY <2>8, <4>1
      <4>5. Len(h[q]) \in Nat /\ Len(ss[k]) \in Nat
        BY <4>2
      <4> HIDE DEF p
      <4> QED
        BY <4>3, <4>4, <4>5
    <3> QED
      BY <3>1, <3>2
  <2>11. p[n + 1] = o + Len(FlattenSeq(ss))
    BY <2>1, <2>2, <2>8
  <2> HIDE DEF p
  <2>12. Parts(u, o, ss, p)
    BY <1>1, <2>8, <2>9, <2>10 DEF Parts
  <2>13. FlattenSeq(ss) \in Seq(S)
    BY <2>1, <2>2, <2>3
  <2> QED
    BY <2>11, <2>12, <2>13
<1> QED
  BY <1>2, <1>3

\* What lies at an offset is read there, as far as there is data.
LEMMA SitsAt ==
    ASSUME NEW data \in Bytes, NEW u \in Bytes, Begins(data, u), NEW o \in Nat, NEW part \in Bytes,
           Sits(u, o, part), NEW n, n = Len(part), o + n <= Len(data)
    PROVE  At(data, o, n) = part
<1>1. data \in Seq(Byte) /\ u \in Seq(Byte) /\ part \in Seq(Byte)
  BY DEF Bytes
<1>2. n \in Nat /\ Len(data) \in Nat /\ n = Len(part) /\ o + n <= Len(data)
  BY <1>1
<1>3. \A k \in 1 .. n : o + k \in 1 .. Len(data)
  BY <1>2
<1>4. \A k \in 1 .. n : data[o + k] = part[k]
  BY <1>2, <1>3 DEF Begins, Sits
<1>5. \A k \in o + 1 .. o + n : data[k] \in Byte
  BY <1>1, <1>2, ElementOfSeq
<1>6. /\ SubSeq(data, o + 1, o + n) \in Seq(Byte)
      /\ Len(SubSeq(data, o + 1, o + n)) = n
      /\ \A k \in 1 .. n : SubSeq(data, o + 1, o + n)[k] = data[o + k]
  <2>1. (o + n) - (o + 1) + 1 = n /\ o + 1 \in Int /\ o + n \in Int
    BY <1>2
  <2>2. /\ SubSeq(data, o + 1, o + n) \in Seq(Byte)
        /\ Len(SubSeq(data, o + 1, o + n)) = IF o + 1 <= o + n THEN (o + n) - (o + 1) + 1 ELSE 0
        /\ \A k \in 1 .. (o + n) - (o + 1) + 1 : SubSeq(data, o + 1, o + n)[k] = data[(o + 1) + k - 1]
    BY <1>5, <2>1, SubSeqProperties
  <2>3. \A k \in 1 .. n : (o + 1) + k - 1 = o + k
    BY <1>2
  <2> QED
    BY <1>2, <2>1, <2>2, <2>3
<1>7. SubSeq(data, o + 1, o + n) = part
  BY <1>1, <1>2, <1>4, <1>6, SeqEqual
<1> QED
  BY <1>7 DEF At

---------------------------------------------------------------------------
(* Where an encoding has the parts of its content.                         *)

\* What is flattened is made of the elements of its parts.
LEMMA FlattenType ==
    ASSUME NEW S, NEW n \in Nat, NEW ss \in [1 .. n -> Seq(S)]
    PROVE  FlattenSeq(ss) \in Seq(S)
<1>1. CASE n = 0
  <2>1. DOMAIN ss = {} /\ Len(ss) = 0
    BY <1>1
  <2> QED
    BY <2>1, FlattenEmpty, EmptySeq
<1>2. CASE n # 0
  <2>1. n \in Nat \ {0} /\ n \in 1 .. n
    BY <1>2
  <2>2. PICK h : Joins(ss, n, h) /\ FlattenSeq(ss) = h[n]
    BY <2>1, FlattenJoins
  <2>3. \A k \in 1 .. n : h[k] \in Seq(S)
    BY <2>1, <2>2, JoinsSteps
  <2> QED
    BY <2>1, <2>2, <2>3
<1> QED
  BY <1>1, <1>2

\* A count as it is written.
LEMMA CountBytes ==
    ASSUME NEW n \in Nat, NEW width \in Widths, Fits(n, width)
    PROVE  /\ Count(n, width) \in Bytes /\ Len(Count(n, width)) = width /\ width \in {1, 3, 5, 9}
           /\ IF width = 1
              THEN Count(n, width)[1] = n /\ n < 253
              ELSE /\ Count(n, width)[1] = Mark(width)
                   /\ Count(n, width)[2] = n % 256 /\ Count(n, width)[3] = n \div 256
                   /\ n = (n % 256) + 256 * (n \div 256)
                   /\ \A k \in 4 .. width : Count(n, width)[k] = 0
<1>1. width \in {1, 3, 5, 9}
  BY DEF Widths
<1>2. CASE width = 1
  <2>1. n < 253 /\ n \in Byte
    BY <1>2 DEF Fits, CountLimit, Byte
  <2> QED
    BY <1>2, <2>1 DEF Count, Bytes
<1>3. CASE width # 1
  <2> DEFINE a == << Mark(width), n % 256, n \div 256 >>
             z == [k \in 1 .. width - 3 |-> 0]
  <2>1. n < 65536
    BY <1>3 DEF Fits, CountLimit
  <2>2. n % 256 \in Byte /\ n \div 256 \in Byte /\ n = (n % 256) + 256 * (n \div 256)
    BY <2>1, Z3 DEF Byte
  <2>3. Mark(width) \in Byte /\ 0 \in Byte
    BY DEF Mark, Byte
  <2>4. a \in Seq(Byte) /\ Len(a) = 3 /\ a[1] = Mark(width) /\ a[2] = n % 256 /\ a[3] = n \div 256
    BY <2>2, <2>3
  <2>5. width - 3 \in Nat
    BY <1>1, <1>3
  <2>6. z \in Seq(Byte) /\ Len(z) = width - 3 /\ \A k \in 1 .. width - 3 : z[k] = 0
    <3> DEFINE more == width - 3
    <3>1. more \in Nat
      BY <2>5
    <3> HIDE DEF more
    <3>2. [k \in 1 .. more |-> 0] \in Seq(Byte) /\ Len([k \in 1 .. more |-> 0]) = more
      BY <2>3, <3>1
    <3> QED
      BY <3>2 DEF more
  <2>7. Count(n, width) = a \o z
    BY <1>3 DEF Count
  <2> HIDE DEF a, z
  <2>8. /\ a \o z \in Seq(Byte) /\ Len(a \o z) = Len(a) + Len(z)
        /\ \A k \in 1 .. Len(a) + Len(z) : (a \o z)[k] = IF k <= Len(a) THEN a[k] ELSE z[k - Len(a)]
    <3>1. a \in Seq(Byte) /\ z \in Seq(Byte)
      BY <2>4, <2>6
    <3> QED
      BY <3>1, ConcatProperties, Zenon
  <2>9. Len(a) + Len(z) = width
    BY <1>1, <2>4, <2>6
  <2>10. /\ (a \o z)[1] = a[1] /\ (a \o z)[2] = a[2] /\ (a \o z)[3] = a[3]
         /\ \A k \in 4 .. width : (a \o z)[k] = 0
    <3>1. 1 \in 1 .. width /\ 2 \in 1 .. width /\ 3 \in 1 .. width
      BY <1>1, <1>3
    <3>2. ASSUME NEW k \in 4 .. width PROVE (a \o z)[k] = 0
      <4>1. k \in 1 .. width /\ ~(k <= 3) /\ k - 3 \in 1 .. width - 3
        BY <1>1
      <4> QED
        BY <2>4, <2>6, <2>8, <2>9, <4>1
    <3> QED
      BY <2>4, <2>8, <2>9, <3>1, <3>2
  <2> QED
    BY <1>1, <1>3, <2>2, <2>4, <2>7, <2>8, <2>9, <2>10 DEF Bytes
<1> QED
  BY <1>2, <1>3

\* A list that may be written.
IsList(s, l) ==
    /\ Listed(s, l) \in Seq([1 .. ItemLen(l) -> Byte])
    /\ s.widths[l] \in Widths /\ Fits(Len(Listed(s, l)), s.widths[l])
    /\ ~HasFlag(l, s.scope) => Listed(s, l) = << >>

\* The list, from its length on to where the signer goes on.
ListLaid(u, s, l, from, to) ==
    IF HasFlag(l, s.scope)
    THEN /\ Sits(u, from, Count(Len(Listed(s, l)), s.widths[l]))
         /\ \E q : /\ Parts(u, from + s.widths[l], Listed(s, l), q)
                   /\ to = q[Len(Listed(s, l)) + 1]
    ELSE to = from

\* The bytes are bytes.
LEMMA ListBytesType ==
    ASSUME NEW s, NEW l, IsList(s, l)
    PROVE  /\ ListBytes(s, l) \in Bytes
           /\ Len(Listed(s, l)) \in Nat
           /\ Listed(s, l) \in [1 .. Len(Listed(s, l)) -> Seq(Byte)]
           /\ FlattenSeq(Listed(s, l)) \in Seq(Byte)
<1> DEFINE items == Listed(s, l)
           n     == Len(items)
           width == s.widths[l]
<1>1. items \in Seq([1 .. ItemLen(l) -> Byte]) /\ width \in Widths /\ Fits(n, width)
  BY DEF IsList
<1>2. ItemLen(l) \in Nat
  BY ScriptAssumption DEF ItemLen
<1>3. n \in Nat /\ items \in [1 .. n -> [1 .. ItemLen(l) -> Byte]]
  BY <1>1, LenProperties
<1> HIDE DEF items, n, width
<1>4. [1 .. ItemLen(l) -> Byte] \subseteq Seq(Byte)
  BY <1>2
<1>5. items \in [1 .. n -> Seq(Byte)]
  BY <1>3, <1>4
<1>6. FlattenSeq(items) \in Seq(Byte)
  BY <1>3, <1>5, FlattenType
<1>7. Count(n, width) \in Seq(Byte)
  BY <1>1, <1>3, CountBytes DEF Bytes
<1>8. Count(n, width) \o FlattenSeq(items) \in Seq(Byte) /\ << >> \in Seq(Byte)
  BY <1>6, <1>7, ConcatProperties
<1> QED
  BY <1>3, <1>5, <1>6, <1>8 DEF ListBytes, Bytes, items, n, width

\* A list lies where its bytes do.
LEMMA ListBytesLaid ==
    ASSUME NEW s, NEW l, IsList(s, l), NEW u \in Bytes, NEW o \in Nat,
           Sits(u, o, ListBytes(s, l))
    PROVE  ListLaid(u, s, l, o, o + Len(ListBytes(s, l)))
<1>1. CASE HasFlag(l, s.scope)
  <2> DEFINE items == Listed(s, l)
             n     == Len(items)
             width == s.widths[l]
             b     == Count(n, width)
  <2>1. /\ n \in Nat /\ items \in [1 .. n -> Seq(Byte)] /\ FlattenSeq(items) \in Seq(Byte)
        /\ width \in Widths /\ Fits(n, width)
    BY ListBytesType DEF IsList
  <2>2. ListBytes(s, l) = b \o FlattenSeq(items)
    BY <1>1 DEF ListBytes
  <2> HIDE DEF items, n, width
  <2>3. b \in Seq(Byte) /\ Len(b) = width /\ Len(b) \in Nat
    BY <2>1, CountBytes DEF Bytes
  <2> HIDE DEF b
  <2>4. u \in Seq(Byte)
    BY DEF Bytes
  <2>5. Sits(u, o, b \o FlattenSeq(items))
    BY <2>2
  <2>6. /\ Sits(u, o, b) /\ Sits(u, o + Len(b), FlattenSeq(items))
        /\ Len(b \o FlattenSeq(items)) = Len(b) + Len(FlattenSeq(items))
    <3> DEFINE f == FlattenSeq(items)
    <3>1. f \in Seq(Byte) /\ b \in Seq(Byte) /\ Sits(u, o, b \o f)
      BY <2>1, <2>3, <2>5
    <3> HIDE DEF f
    <3>2. Sits(u, o, b) /\ Sits(u, o + Len(b), f) /\ Len(b \o f) = Len(b) + Len(f)
      BY <2>4, <3>1, SitsSplit
    <3> QED
      BY <3>2 DEF f
  <2>7. o + Len(b) \in Nat /\ Len(FlattenSeq(items)) \in Nat
    BY <2>1, <2>3
  <2>8. PICK q : Parts(u, o + Len(b), items, q) /\ q[n + 1] = (o + Len(b)) + Len(FlattenSeq(items))
    BY <2>1, <2>4, <2>6, <2>7, FlattenSits
  <2>9. q[n + 1] = o + Len(ListBytes(s, l))
    BY <2>2, <2>3, <2>6, <2>7, <2>8
  <2> QED
    BY <1>1, <2>3, <2>6, <2>8, <2>9 DEF ListLaid, items, n, b, width
<1>2. CASE ~HasFlag(l, s.scope)
  <2>1. ListBytes(s, l) = << >>
    BY <1>2 DEF ListBytes
  <2>2. o + Len(ListBytes(s, l)) = o
    BY <2>1
  <2> QED
    BY <1>2, <2>2 DEF ListLaid
<1> QED
  BY <1>1, <1>2

\* What a signer consists of.
LEMMA SignerParts ==
    ASSUME NEW s, IsSigner(s)
    PROVE  /\ s.account \in Hashes /\ s.scope \in Byte /\ \A l \in Lists : IsList(s, l)
           /\ IsList(s, "contracts") /\ IsList(s, "groups")
<1>1. /\ s.account \in Hashes /\ s.scope \in Byte
      /\ s.contracts \in Seq(Hashes) /\ s.groups \in Seq(Points) /\ s.widths \in [Lists -> Widths]
  BY DEF IsSigner, Signers
<1>2. ASSUME NEW l \in Lists PROVE IsList(s, l)
  <2>1. Listed(s, l) \in Seq([1 .. ItemLen(l) -> Byte]) /\ s.widths[l] \in Widths
    BY <1>1 DEF Lists, Listed, ItemLen, Hashes, Points
  <2> QED
    BY <2>1 DEF IsSigner, IsList
<1> QED
  BY <1>1, <1>2 DEF Lists

\* The signer, up to the next one.
SignerLaid(u, s, from, to) ==
    /\ Sits(u, from, s.account) /\ Sits(u, from + UINT160_LEN, << s.scope >>)
    /\ \E groups \in Nat :
          /\ ListLaid(u, s, "contracts", from + UINT160_LEN + 1, groups)
          /\ ListLaid(u, s, "groups", groups, to)

\* A hash has its length.
LEMMA HashBytes ==
    ASSUME NEW hash \in Hashes
    PROVE  hash \in Seq(Byte) /\ Len(hash) = UINT160_LEN /\ UINT160_LEN \in Nat \ {0}
<1>1. UINT160_LEN \in Nat \ {0}
  BY ScriptAssumption
<1> QED
  BY <1>1 DEF Hashes

\* The bytes of a signer are bytes, one part of it behind the other.
LEMMA SignerBytesType ==
    ASSUME NEW s, IsSigner(s)
    PROVE  LET contracts == ListBytes(s, "contracts")
               groups    == ListBytes(s, "groups")
           IN  /\ SignerBytes(s) = s.account \o << s.scope >> \o contracts \o groups
               /\ s.account \in Seq(Byte) /\ << s.scope >> \in Seq(Byte)
               /\ contracts \in Seq(Byte) /\ groups \in Seq(Byte)
               /\ s.account \o << s.scope >> \in Seq(Byte)
               /\ s.account \o << s.scope >> \o contracts \in Seq(Byte)
               /\ SignerBytes(s) \in Seq(Byte)
<1> DEFINE contracts == ListBytes(s, "contracts")
           groups    == ListBytes(s, "groups")
<1>1. SignerBytes(s) = s.account \o << s.scope >> \o contracts \o groups
  BY DEF SignerBytes
<1>2. contracts \in Seq(Byte) /\ groups \in Seq(Byte)
  <2>1. IsList(s, "contracts") /\ IsList(s, "groups")
    BY SignerParts
  <2> QED
    BY <2>1, ListBytesType DEF Bytes
<1>3. s.account \in Seq(Byte) /\ << s.scope >> \in Seq(Byte)
  BY HashBytes, SignerParts
<1> HIDE DEF contracts, groups
<1>4. s.account \o << s.scope >> \in Seq(Byte)
  BY <1>3, ConcatProperties
<1>5. s.account \o << s.scope >> \o contracts \in Seq(Byte)
  BY <1>2, <1>4, ConcatProperties
<1>6. s.account \o << s.scope >> \o contracts \o groups \in Seq(Byte)
  BY <1>2, <1>5, ConcatProperties
<1> QED
  BY <1>1, <1>2, <1>3, <1>4, <1>5, <1>6 DEF contracts, groups

\* A signer lies where its bytes do.
LEMMA SignerBytesLaid ==
    ASSUME NEW s, IsSigner(s), NEW u \in Bytes, NEW o \in Nat,
           Sits(u, o, SignerBytes(s))
    PROVE  SignerLaid(u, s, o, o + Len(SignerBytes(s)))
<1> DEFINE a == s.account
           b == << s.scope >>
           c == ListBytes(s, "contracts")
           g == ListBytes(s, "groups")
<1>1. /\ SignerBytes(s) = a \o b \o c \o g
      /\ a \in Seq(Byte) /\ b \in Seq(Byte) /\ c \in Seq(Byte) /\ g \in Seq(Byte)
      /\ a \o b \in Seq(Byte) /\ a \o b \o c \in Seq(Byte)
  BY SignerBytesType
<1>2. Len(a) = UINT160_LEN /\ UINT160_LEN \in Nat /\ Len(b) = 1
  BY HashBytes, SignerParts
<1>3. IsList(s, "contracts") /\ IsList(s, "groups")
  BY SignerParts
<1>4. u \in Seq(Byte)
  BY DEF Bytes
<1> HIDE DEF a, b, c, g
<1>5. Sits(u, o, (a \o b \o c) \o g)
  BY <1>1
<1>6. /\ Sits(u, o, (a \o b) \o c) /\ Sits(u, o + Len(a \o b \o c), g)
      /\ Len(a \o b \o c \o g) = Len(a \o b \o c) + Len(g)
  <2> DEFINE abc == a \o b \o c
  <2>1. abc \in Seq(Byte) /\ Sits(u, o, abc \o g)
    BY <1>1, <1>5
  <2> HIDE DEF abc
  <2>2. Sits(u, o, abc) /\ Sits(u, o + Len(abc), g) /\ Len(abc \o g) = Len(abc) + Len(g)
    BY <1>1, <1>4, <2>1, SitsSplit
  <2> QED
    BY <2>2 DEF abc
<1>7. /\ Sits(u, o, a \o b) /\ Sits(u, o + Len(a \o b), c) /\ Len(a \o b \o c) = Len(a \o b) + Len(c)
  <2> DEFINE ab == a \o b
  <2>1. ab \in Seq(Byte) /\ Sits(u, o, ab \o c)
    BY <1>1, <1>6
  <2> HIDE DEF ab
  <2>2. Sits(u, o, ab) /\ Sits(u, o + Len(ab), c) /\ Len(ab \o c) = Len(ab) + Len(c)
    BY <1>1, <1>4, <2>1, SitsSplit
  <2> QED
    BY <2>2 DEF ab
<1>8. Sits(u, o, a) /\ Sits(u, o + Len(a), b) /\ Len(a \o b) = Len(a) + Len(b)
  BY <1>1, <1>4, <1>7, SitsSplit
<1> DEFINE lists  == o + UINT160_LEN + 1
           groups == lists + Len(c)
<1>9. Len(c) \in Nat /\ Len(g) \in Nat
  BY <1>1
<1>10. /\ o + Len(a \o b) = lists /\ lists \in Nat
       /\ o + Len(a \o b \o c) = groups /\ groups \in Nat
       /\ o + Len(SignerBytes(s)) = groups + Len(g)
  BY <1>1, <1>2, <1>6, <1>7, <1>8, <1>9
<1> HIDE DEF lists, groups
<1>11. Sits(u, lists, c) /\ Sits(u, groups, g)
  BY <1>6, <1>7, <1>10
<1>12. ListLaid(u, s, "contracts", lists, groups)
  <2>1. ListLaid(u, s, "contracts", lists, lists + Len(ListBytes(s, "contracts")))
    BY <1>3, <1>10, <1>11, ListBytesLaid DEF c
  <2> QED
    BY <2>1 DEF groups, c
<1>13. ListLaid(u, s, "groups", groups, groups + Len(g))
  BY <1>3, <1>10, <1>11, ListBytesLaid DEF g
<1> QED
  BY <1>2, <1>8, <1>10, <1>12, <1>13 DEF SignerLaid, a, b, lists

\* A sequence is made of five parts, one behind the other.
IsFive(S, a, b, c, d, e, w) ==
    /\ w \in Seq(S) /\ Len(w) = Len(a) + Len(b) + Len(c) + Len(d) + Len(e)
    /\ \A u \in Seq(S), o \in Nat : Sits(u, o, w) =>
          /\ Sits(u, o, a) /\ Sits(u, o + Len(a), b) /\ Sits(u, o + Len(a) + Len(b), c)
          /\ Sits(u, o + Len(a) + Len(b) + Len(c), d)
          /\ Sits(u, o + Len(a) + Len(b) + Len(c) + Len(d), e)

\* It is when they are joined.
LEMMA FiveParts ==
    ASSUME NEW S, NEW a \in Seq(S), NEW b \in Seq(S), NEW c \in Seq(S), NEW d \in Seq(S), NEW e \in Seq(S),
           NEW w, w = a \o b \o c \o d \o e
    PROVE  IsFive(S, a, b, c, d, e, w)
<1> DEFINE ab   == a \o b
           abc  == ab \o c
           abcd == abc \o d
<1>0. w = abcd \o e
  OBVIOUS
<1>1. ab \in Seq(S) /\ Len(ab) = Len(a) + Len(b)
  BY ConcatProperties
<1>2. ASSUME NEW u \in Seq(S), NEW o \in Nat, Sits(u, o, ab)
      PROVE  Sits(u, o, a) /\ Sits(u, o + Len(a), b)
  BY <1>2, SitsSplit
<1> HIDE DEF ab
<1>3. abc \in Seq(S) /\ Len(abc) = Len(ab) + Len(c)
  BY <1>1, ConcatProperties
<1>4. ASSUME NEW u \in Seq(S), NEW o \in Nat, Sits(u, o, abc)
      PROVE  Sits(u, o, ab) /\ Sits(u, o + Len(ab), c)
  BY <1>1, <1>4, SitsSplit
<1> HIDE DEF abc
<1>5. abcd \in Seq(S) /\ Len(abcd) = Len(abc) + Len(d)
  BY <1>3, ConcatProperties
<1>6. ASSUME NEW u \in Seq(S), NEW o \in Nat, Sits(u, o, abcd)
      PROVE  Sits(u, o, abc) /\ Sits(u, o + Len(abc), d)
  BY <1>3, <1>6, SitsSplit
<1> HIDE DEF abcd
<1>7. w \in Seq(S) /\ Len(w) = Len(abcd) + Len(e)
  BY <1>0, <1>5, ConcatProperties
<1>8. ASSUME NEW u \in Seq(S), NEW o \in Nat, Sits(u, o, w)
      PROVE  Sits(u, o, abcd) /\ Sits(u, o + Len(abcd), e)
  <2>1. Sits(u, o, abcd \o e)
    BY <1>0, <1>8
  <2> QED
    BY <1>5, <2>1, SitsSplit
<1>9. Len(a) \in Nat /\ Len(b) \in Nat /\ Len(c) \in Nat /\ Len(d) \in Nat /\ Len(e) \in Nat
  OBVIOUS
<1>10. Len(w) = Len(a) + Len(b) + Len(c) + Len(d) + Len(e)
  BY <1>1, <1>3, <1>5, <1>7, <1>9
<1>11. ASSUME NEW u \in Seq(S), NEW o \in Nat, Sits(u, o, w)
       PROVE  /\ Sits(u, o, a) /\ Sits(u, o + Len(a), b) /\ Sits(u, o + Len(a) + Len(b), c)
              /\ Sits(u, o + Len(a) + Len(b) + Len(c), d)
              /\ Sits(u, o + Len(a) + Len(b) + Len(c) + Len(d), e)
  <2>1. Sits(u, o, abcd) /\ Sits(u, o + Len(abcd), e)
    BY <1>8, <1>11
  <2>2. Sits(u, o, abc) /\ Sits(u, o + Len(abc), d)
    BY <1>6, <2>1
  <2>3. Sits(u, o, ab) /\ Sits(u, o + Len(ab), c)
    BY <1>4, <2>2
  <2>4. Sits(u, o, a) /\ Sits(u, o + Len(a), b)
    BY <1>2, <2>3
  <2>5. /\ o + Len(ab) = o + Len(a) + Len(b)
        /\ o + Len(abc) = o + Len(a) + Len(b) + Len(c)
        /\ o + Len(abcd) = o + Len(a) + Len(b) + Len(c) + Len(d)
    BY <1>1, <1>3, <1>5, <1>9
  <2> QED
    BY <2>1, <2>2, <2>3, <2>4, <2>5
<1> QED
  BY <1>7, <1>10, <1>11 DEF IsFive

\* The same of seven parts.
IsSeven(S, a, b, c, d, e, f, g, w) ==
    /\ w \in Seq(S) /\ Len(w) = Len(a) + Len(b) + Len(c) + Len(d) + Len(e) + Len(f) + Len(g)
    /\ \A u \in Seq(S), o \in Nat : Sits(u, o, w) =>
          /\ Sits(u, o, a) /\ Sits(u, o + Len(a), b) /\ Sits(u, o + Len(a) + Len(b), c)
          /\ Sits(u, o + Len(a) + Len(b) + Len(c), d)
          /\ Sits(u, o + Len(a) + Len(b) + Len(c) + Len(d), e)
          /\ Sits(u, o + Len(a) + Len(b) + Len(c) + Len(d) + Len(e), f)
          /\ Sits(u, o + Len(a) + Len(b) + Len(c) + Len(d) + Len(e) + Len(f), g)

\* It is when they are joined.
LEMMA SevenParts ==
    ASSUME NEW S, NEW a \in Seq(S), NEW b \in Seq(S), NEW c \in Seq(S), NEW d \in Seq(S), NEW e \in Seq(S),
           NEW f \in Seq(S), NEW g \in Seq(S), NEW w, w = a \o b \o c \o d \o e \o f \o g
    PROVE  IsSeven(S, a, b, c, d, e, f, g, w)
<1> DEFINE five == a \o b \o c \o d \o e
           six  == five \o f
<1>0. w = six \o g
  OBVIOUS
<1>1. /\ five \in Seq(S) /\ Len(five) = Len(a) + Len(b) + Len(c) + Len(d) + Len(e)
      /\ \A u \in Seq(S), o \in Nat : Sits(u, o, five) =>
            /\ Sits(u, o, a) /\ Sits(u, o + Len(a), b) /\ Sits(u, o + Len(a) + Len(b), c)
            /\ Sits(u, o + Len(a) + Len(b) + Len(c), d)
            /\ Sits(u, o + Len(a) + Len(b) + Len(c) + Len(d), e)
  <2> HIDE DEF five
  <2>1. five = a \o b \o c \o d \o e
    BY DEF five
  <2>2. IsFive(S, a, b, c, d, e, five)
    BY <2>1, FiveParts
  <2> QED
    BY <2>2 DEF IsFive
<1> HIDE DEF five
<1>2. six \in Seq(S) /\ Len(six) = Len(five) + Len(f)
  BY <1>1, ConcatProperties
<1>3. ASSUME NEW u \in Seq(S), NEW o \in Nat, Sits(u, o, six)
      PROVE  Sits(u, o, five) /\ Sits(u, o + Len(five), f)
  <2>1. five \in Seq(S)
    BY <1>1
  <2> QED
    BY <1>3, <2>1, SitsSplit
<1> HIDE DEF six
<1>4. w \in Seq(S) /\ Len(w) = Len(six) + Len(g)
  BY <1>0, <1>2, ConcatProperties
<1>5. ASSUME NEW u \in Seq(S), NEW o \in Nat, Sits(u, o, w)
      PROVE  Sits(u, o, six) /\ Sits(u, o + Len(six), g)
  <2>1. Sits(u, o, six \o g)
    BY <1>0, <1>5
  <2> QED
    BY <1>2, <2>1, SitsSplit
<1>6. /\ Len(a) \in Nat /\ Len(b) \in Nat /\ Len(c) \in Nat /\ Len(d) \in Nat /\ Len(e) \in Nat
      /\ Len(f) \in Nat /\ Len(g) \in Nat
  OBVIOUS
<1>7. Len(w) = Len(a) + Len(b) + Len(c) + Len(d) + Len(e) + Len(f) + Len(g)
  BY <1>1, <1>2, <1>4, <1>6
<1>8. ASSUME NEW u \in Seq(S), NEW o \in Nat, Sits(u, o, w)
      PROVE  /\ Sits(u, o, a) /\ Sits(u, o + Len(a), b) /\ Sits(u, o + Len(a) + Len(b), c)
             /\ Sits(u, o + Len(a) + Len(b) + Len(c), d)
             /\ Sits(u, o + Len(a) + Len(b) + Len(c) + Len(d), e)
             /\ Sits(u, o + Len(a) + Len(b) + Len(c) + Len(d) + Len(e), f)
             /\ Sits(u, o + Len(a) + Len(b) + Len(c) + Len(d) + Len(e) + Len(f), g)
  <2>1. Sits(u, o, six) /\ Sits(u, o + Len(six), g)
    BY <1>5, <1>8
  <2>2. Sits(u, o, five) /\ Sits(u, o + Len(five), f)
    BY <1>3, <2>1
  <2>3. /\ o + Len(five) = o + Len(a) + Len(b) + Len(c) + Len(d) + Len(e)
        /\ o + Len(six) = o + Len(a) + Len(b) + Len(c) + Len(d) + Len(e) + Len(f)
    BY <1>1, <1>2, <1>6
  <2> QED
    BY <1>1, <2>1, <2>2, <2>3
<1> QED
  BY <1>4, <1>7, <1>8 DEF IsSeven

\* The fixed parts of a script are made of bytes.
LEMMA FixedBytes ==
    /\ TransferCall \in Seq(Byte) /\ VoteCall \in Seq(Byte) /\ SysCall \in Seq(Byte)
    /\ NeoHash \in Seq(Byte) /\ GasHash \in Seq(Byte)
    /\ Len(NeoHash) = UINT160_LEN /\ Len(GasHash) = UINT160_LEN
    /\ PushHash \in Seq(Byte) /\ Len(PushHash) = 2 /\ PushKey \in Seq(Byte) /\ Len(PushKey) = 2
    /\ << PUSHNULL >> \in Seq(Byte)
  BY ScriptAssumption DEF Bytes, PushHash, PushKey, PUSHDATA1, PUSHNULL, Byte

\* A script hash as it is pushed.
LEMMA PushHashBytes ==
    ASSUME NEW hash \in Hashes
    PROVE  PushHashOf(hash) \in Seq(Byte) /\ Len(PushHashOf(hash)) = 2 + UINT160_LEN
<1>1. hash \in Seq(Byte) /\ Len(hash) = UINT160_LEN /\ PushHash \in Seq(Byte) /\ Len(PushHash) = 2
  BY HashBytes, FixedBytes
<1>2. PushHash \o hash \in Seq(Byte) /\ Len(PushHash \o hash) = Len(PushHash) + Len(hash)
  BY <1>1, ConcatProperties
<1> QED
  BY <1>1, <1>2 DEF PushHashOf

\* The parts of a transfer.
AssetOf(does) == IF does.asset = "NEO" THEN NeoHash ELSE GasHash
LEMMA TransferParts ==
    ASSUME NEW does \in Transfers
    PROVE  /\ does.kind = "transfer" /\ does.dst \in Hashes /\ does.src \in Hashes /\ does.push \in Pushes
           /\ does.push \in Seq(Byte)
           /\ IsSeven(Byte, << PUSHNULL >>, does.push, PushHashOf(does.dst), PushHashOf(does.src),
                      TransferCall, AssetOf(does), SysCall, ScriptOf(does))
<1>1. does.kind = "transfer" /\ does.dst \in Hashes /\ does.src \in Hashes /\ does.push \in Pushes
  BY DEF Transfers
<1>2. does.push \in Seq(Byte)
  <2>1. ASSUME NEW opcode \in PUSH0 .. PUSH16 PROVE << opcode >> \in Seq(Byte)
    BY DEF PUSH0, PUSH16, Byte
  <2> QED
    BY <1>1, <2>1 DEF Pushes, Bytes
<1>3. AssetOf(does) \in Seq(Byte)
  BY FixedBytes DEF AssetOf
<1>4. PushHashOf(does.dst) \in Seq(Byte) /\ PushHashOf(does.src) \in Seq(Byte)
  BY <1>1, PushHashBytes
<1>5. ScriptOf(does) = << PUSHNULL >> \o does.push \o PushHashOf(does.dst) \o PushHashOf(does.src)
                          \o TransferCall \o AssetOf(does) \o SysCall
  BY <1>1 DEF ScriptOf, AssetOf
<1>6. IsSeven(Byte, << PUSHNULL >>, does.push, PushHashOf(does.dst), PushHashOf(does.src),
              TransferCall, AssetOf(does), SysCall, ScriptOf(does))
  BY <1>2, <1>3, <1>4, <1>5, FixedBytes, SevenParts
<1> QED
  BY <1>1, <1>2, <1>6

\* The parts of a vote.
KeyOf(does) == IF does.key = << >> THEN << PUSHNULL >> ELSE PushKey \o does.key
LEMMA VoteParts ==
    ASSUME NEW does \in Votes
    PROVE  /\ does.kind = "vote" /\ does.voter \in Hashes /\ does.key \in {<< >>} \cup Points
           /\ KeyOf(does) \in Seq(Byte)
           /\ IsFive(Byte, KeyOf(does), PushHashOf(does.voter), VoteCall, NeoHash, SysCall, ScriptOf(does))
<1>1. /\ does.kind = "vote" /\ does.voter \in Hashes
      /\ does.key = << >> \/ does.key \in Points
  BY DEF Votes
<1>2. ECPOINT_LEN \in Nat
  BY ScriptAssumption
<1>3. KeyOf(does) \in Seq(Byte)
  <2>1. CASE does.key = << >>
    BY <2>1, FixedBytes DEF KeyOf
  <2>2. CASE does.key # << >>
    <3>1. does.key \in Seq(Byte)
      BY <1>1, <1>2, <2>2 DEF Points
    <3>2. PushKey \o does.key \in Seq(Byte)
      BY <3>1, FixedBytes, ConcatProperties
    <3> QED
      BY <2>2, <3>2 DEF KeyOf
  <2> QED
    BY <2>1, <2>2
<1>4. PushHashOf(does.voter) \in Seq(Byte)
  BY <1>1, PushHashBytes
<1>5. ScriptOf(does) = KeyOf(does) \o PushHashOf(does.voter) \o VoteCall \o NeoHash \o SysCall
  BY <1>1 DEF ScriptOf, KeyOf
<1>6. IsFive(Byte, KeyOf(does), PushHashOf(does.voter), VoteCall, NeoHash, SysCall, ScriptOf(does))
  BY <1>3, <1>4, <1>5, FixedBytes, FiveParts
<1> QED
  BY <1>1, <1>3, <1>6

\* What a content consists of.
LEMMA ContentParts ==
    ASSUME NEW c, IsContent(c)
    PROVE  /\ DOMAIN c.header = Headers /\ \A f \in Headers : c.header[f] \in [1 .. Width(f) -> Byte]
           /\ c.widths.signers \in Widths /\ c.widths.attributes \in Widths /\ c.widths.script \in Widths
           /\ c.attributes \in Nat /\ Len(c.signers) \in Nat
           /\ \A s \in 1 .. Len(c.signers) : IsSigner(c.signers[s])
           /\ DOMAIN c.signers = 1 .. Len(c.signers)
           /\ ScriptOf(c.does) \in Seq(Byte)
           /\ Fits(Len(c.signers), c.widths.signers) /\ Fits(c.attributes, c.widths.attributes)
           /\ Fits(Len(ScriptOf(c.does)), c.widths.script)
<1>1. /\ DOMAIN c.header = Headers /\ \A f \in Headers : c.header[f] \in [1 .. Width(f) -> Byte]
      /\ c.attributes \in Nat /\ c.signers \in Seq(Signers)
      /\ c.does \in Transfers \cup Votes \/ IsOther(c.does)
  BY DEF IsContent, Headers
<1>2. c.widths.signers \in Widths /\ c.widths.attributes \in Widths /\ c.widths.script \in Widths
  BY DEF IsContent
<1>3. Len(c.signers) \in Nat /\ DOMAIN c.signers = 1 .. Len(c.signers)
  BY <1>1, LenProperties
<1>4. /\ \A s \in 1 .. Len(c.signers) : IsSigner(c.signers[s])
      /\ Fits(Len(c.signers), c.widths.signers) /\ Fits(c.attributes, c.widths.attributes)
      /\ Fits(Len(ScriptOf(c.does)), c.widths.script)
  BY <1>3 DEF IsContent
<1>5. ScriptOf(c.does) \in Seq(Byte)
  <2>1. CASE c.does \in Transfers
    BY <2>1, TransferParts DEF IsSeven
  <2>2. CASE c.does \in Votes
    BY <2>2, VoteParts DEF IsFive
  <2>3. CASE IsOther(c.does)
    BY <2>3 DEF IsOther, ScriptOf, Bytes
  <2> QED
    BY <1>1, <2>1, <2>2, <2>3
<1> QED
  BY <1>1, <1>2, <1>3, <1>4, <1>5

\* The bytes of the header, in front.
LEMMA HeaderLaid ==
    ASSUME NEW c, IsContent(c), NEW u \in Bytes
    PROVE  LET h == FlattenSeq([k \in DOMAIN HeaderFields |-> c.header[HeaderFields[k]]])
           IN  /\ h \in Seq(Byte)
               /\ Sits(u, 0, h) =>
                     /\ Len(h) = HeaderAt[6] /\ HeaderAt[6] \in Nat
                     /\ \A k \in 1 .. 5 : HeaderAt[k] \in Nat /\ Sits(u, HeaderAt[k], c.header[HeaderFields[k]])
<1> DEFINE ss == [k \in DOMAIN HeaderFields |-> c.header[HeaderFields[k]]]
           h  == FlattenSeq(ss)
<1>1. \A k \in 1 .. 5 : ss[k] \in Seq(Byte) /\ Len(ss[k]) = Width(HeaderFields[k]) /\ ss[k] = c.header[HeaderFields[k]]
  <2> TAKE k \in 1 .. 5
  <2>1. HeaderFields[k] \in Headers /\ ss[k] = c.header[HeaderFields[k]]
    BY HeaderEnds DEF Headers
  <2>2. ss[k] \in [1 .. Width(HeaderFields[k]) -> Byte]
    BY <2>1, ContentParts
  <2> QED
    BY <2>1, <2>2, WidthType
<1>2. ss \in [1 .. 5 -> Seq(Byte)] /\ Len(ss) = 5
  BY <1>1, HeaderEnds
<1> HIDE DEF ss
<1>3. h \in Seq(Byte) /\ u \in Seq(Byte)
  BY <1>2, FlattenType DEF Bytes
<1>4. ASSUME Sits(u, 0, h)
      PROVE  /\ Len(h) = HeaderAt[6] /\ HeaderAt[6] \in Nat
             /\ \A k \in 1 .. 5 : HeaderAt[k] \in Nat /\ Sits(u, HeaderAt[k], c.header[HeaderFields[k]])
  <2>1. PICK p : Parts(u, 0, ss, p) /\ p[5 + 1] = 0 + Len(h)
    <3>1. PICK n \in Nat : n = 5
      OBVIOUS
    <3>2. PICK o \in Nat : o = 0
      OBVIOUS
    <3>3. ss \in [1 .. n -> Seq(Byte)] /\ Sits(u, o, FlattenSeq(ss)) /\ u \in Seq(Byte)
      BY <1>2, <1>3, <1>4, <3>1, <3>2
    <3>4. \E p : Parts(u, o, ss, p) /\ p[n + 1] = o + Len(FlattenSeq(ss))
      BY <3>3, FlattenSits
    <3> QED
      BY <3>1, <3>2, <3>4
  <2>2. /\ p[1] = 0 /\ \A k \in 1 .. 5 + 1 : p[k] \in Nat
        /\ \A k \in 1 .. 5 : Sits(u, p[k], ss[k]) /\ p[k + 1] = p[k] + Len(ss[k])
    BY <1>2, <2>1 DEF Parts
  <2> DEFINE T == {k \in 1 .. 6 : p[k] = HeaderAt[k]}
  <2>3. 1 \in T
    BY <2>2, HeaderEnds
  <2>4. ASSUME NEW k \in 1 .. 6, k < 6, k \in T PROVE k + 1 \in T
    <3>1. k \in 1 .. 5 /\ k + 1 \in 1 .. 6 /\ p[k] = HeaderAt[k]
      BY <2>4
    <3>2. p[k + 1] = p[k] + Width(HeaderFields[k]) /\ HeaderAt[k] + Width(HeaderFields[k]) = HeaderAt[k + 1]
      BY <1>1, <2>2, <3>1, HeaderEnds
    <3> QED
      BY <3>1, <3>2
  <2>5. 1 .. 6 \subseteq T
    <3> HIDE DEF T
    <3> QED
      BY <2>3, <2>4, UpTo
  <2>6. \A k \in 1 .. 6 : p[k] = HeaderAt[k]
    BY <2>5
  <2>7. Len(h) \in Nat
    BY <1>3
  <2> HIDE DEF T, h
  <2>8. Len(h) = HeaderAt[6]
    <3>1. p[6] = HeaderAt[6] /\ p[6] = 0 + Len(h)
      BY <2>1, <2>6
    <3> QED
      BY <2>7, <3>1
  <2>9. ASSUME NEW k \in 1 .. 5 PROVE HeaderAt[k] \in Nat /\ Sits(u, HeaderAt[k], c.header[HeaderFields[k]])
    <3>1. k \in 1 .. 6 /\ k \in 1 .. 5 + 1
      OBVIOUS
    <3> QED
      BY <1>1, <2>2, <2>6, <3>1
  <2> QED
    BY <2>7, <2>8, <2>9
<1> QED
  BY <1>3, <1>4 DEF ss

\* u is the encoding of c, with its s-th signer at p[s] and the attributes at
\* p[Len(c.signers) + 1].
Laid(u, c, p) ==
    LET n          == Len(c.signers)
        attributes == p[n + 1] + c.widths.attributes
        script     == attributes + c.attributes + c.widths.script
    IN  /\ HeaderAt[6] \in Nat
        /\ \A k \in 1 .. 5 : HeaderAt[k] \in Nat /\ Sits(u, HeaderAt[k], c.header[HeaderFields[k]])
        /\ Sits(u, HeaderAt[6], Count(n, c.widths.signers))
        /\ p[1] = HeaderAt[6] + c.widths.signers /\ \A s \in 1 .. n + 1 : p[s] \in Nat
        /\ \A s \in 1 .. n : SignerLaid(u, c.signers[s], p[s], p[s + 1])
        /\ Sits(u, p[n + 1], Count(c.attributes, c.widths.attributes))
        /\ Sits(u, attributes, [a \in 1 .. c.attributes |-> HIGH_PRIORITY])
        /\ Sits(u, attributes + c.attributes, Count(Len(ScriptOf(c.does)), c.widths.script))
        /\ Sits(u, script, ScriptOf(c.does)) /\ Len(u) = script + Len(ScriptOf(c.does))

\* So is every encoding.
LEMMA EncodeLaid ==
    ASSUME NEW c, IsContent(c), Encode(c) \in Bytes
    PROVE  \E p : Laid(Encode(c), c, p)
<1> DEFINE n  == Len(c.signers)
           u  == Encode(c)
           h  == FlattenSeq([k \in DOMAIN HeaderFields |-> c.header[HeaderFields[k]]])
           c1 == Count(n, c.widths.signers)
           ss == [s \in DOMAIN c.signers |-> SignerBytes(c.signers[s])]
           s1 == FlattenSeq(ss)
           c2 == Count(c.attributes, c.widths.attributes)
           a1 == [a \in 1 .. c.attributes |-> HIGH_PRIORITY]
           c3 == Count(Len(ScriptOf(c.does)), c.widths.script)
           sc == ScriptOf(c.does)
<1>1. /\ c.widths.signers \in Widths /\ c.widths.attributes \in Widths /\ c.widths.script \in Widths
      /\ c.attributes \in Nat /\ n \in Nat
      /\ \A s \in 1 .. n : IsSigner(c.signers[s])
      /\ DOMAIN c.signers = 1 .. n /\ sc \in Seq(Byte)
      /\ Fits(n, c.widths.signers) /\ Fits(c.attributes, c.widths.attributes) /\ Fits(Len(sc), c.widths.script)
  BY ContentParts
<1>2. u = h \o c1 \o s1 \o c2 \o a1 \o c3 \o sc
  BY DEF Encode
<1>3. \A s \in 1 .. n : ss[s] = SignerBytes(c.signers[s]) /\ ss[s] \in Seq(Byte)
  BY <1>1, SignerBytesType
<1>4. ss \in [1 .. n -> Seq(Byte)] /\ Len(ss) = n
  <2>1. ss = [s \in 1 .. n |-> ss[s]]
    BY <1>1
  <2> HIDE DEF ss, n
  <2> QED
    BY <1>1, <1>3, <2>1
<1>5. a1 \in Seq(Byte) /\ Len(a1) = c.attributes
  BY <1>1 DEF HIGH_PRIORITY, Byte
<1>6. u \in Bytes /\ u \in Seq(Byte) /\ Sits(u, 0, u)
  BY DEF Bytes, Sits
<1>7. h \in Seq(Byte)
  BY <1>6, HeaderLaid
<1>8. Sits(u, 0, h) =>
          /\ Len(h) = HeaderAt[6] /\ HeaderAt[6] \in Nat
          /\ \A k \in 1 .. 5 : HeaderAt[k] \in Nat /\ Sits(u, HeaderAt[k], c.header[HeaderFields[k]])
  BY <1>6, HeaderLaid
<1> HIDE DEF u, h, ss, sc, a1, n
<1>9. s1 \in Seq(Byte)
  BY <1>1, <1>4, FlattenType
<1>10. Len(sc) \in Nat /\ Len(a1) \in Nat /\ Len(s1) \in Nat
  BY <1>1, <1>5, <1>9
<1> DEFINE w1 == c.widths.signers
           w2 == c.widths.attributes
           w3 == c.widths.script
<1>11. /\ c1 \in Seq(Byte) /\ Len(c1) = w1 /\ c2 \in Seq(Byte) /\ Len(c2) = w2
       /\ c3 \in Seq(Byte) /\ Len(c3) = w3
       /\ w1 \in Nat /\ w2 \in Nat /\ w3 \in Nat
  <2>1. c1 \in Seq(Byte) /\ Len(c1) = w1
    BY <1>1, CountBytes DEF Bytes
  <2>2. c2 \in Seq(Byte) /\ Len(c2) = w2
    BY <1>1, CountBytes DEF Bytes
  <2>3. c3 \in Seq(Byte) /\ Len(c3) = w3
    <3> DEFINE size == Len(sc)
    <3>1. size \in Nat /\ w3 \in Widths /\ Fits(size, w3) /\ c3 = Count(size, w3)
      BY <1>1, <1>10 DEF sc
    <3> HIDE DEF size, c3, w3
    <3>2. Count(size, w3) \in Bytes /\ Len(Count(size, w3)) = w3
      BY <3>1, CountBytes
    <3> QED
      BY <3>1, <3>2 DEF Bytes
  <2>4. w1 \in Nat /\ w2 \in Nat /\ w3 \in Nat
    BY <1>1 DEF Widths
  <2> QED
    BY <2>1, <2>2, <2>3, <2>4
<1> HIDE DEF c1, s1, c2, c3
<1>12. IsSeven(Byte, h, c1, s1, c2, a1, c3, sc, u)
  BY <1>1, <1>2, <1>5, <1>7, <1>9, <1>11, SevenParts
<1>13. /\ Len(u) = Len(h) + Len(c1) + Len(s1) + Len(c2) + Len(a1) + Len(c3) + Len(sc)
       /\ Sits(u, 0, h) /\ Sits(u, 0 + Len(h), c1) /\ Sits(u, 0 + Len(h) + Len(c1), s1)
       /\ Sits(u, 0 + Len(h) + Len(c1) + Len(s1), c2)
       /\ Sits(u, 0 + Len(h) + Len(c1) + Len(s1) + Len(c2), a1)
       /\ Sits(u, 0 + Len(h) + Len(c1) + Len(s1) + Len(c2) + Len(a1), c3)
       /\ Sits(u, 0 + Len(h) + Len(c1) + Len(s1) + Len(c2) + Len(a1) + Len(c3), sc)
  <2>1. 0 \in Nat
    OBVIOUS
  <2> QED
    BY <1>6, <1>12, <2>1, Zenon DEF IsSeven
<1> HIDE DEF w1, w2, w3
<1> DEFINE from == HeaderAt[6] + w1
<1>14. Len(h) = HeaderAt[6] /\ HeaderAt[6] \in Nat /\ from \in Nat /\ 0 + Len(h) + Len(c1) = from
  <2>1. Len(h) = HeaderAt[6] /\ HeaderAt[6] \in Nat
    BY <1>8, <1>13
  <2> QED
    BY <1>11, <2>1
<1> HIDE DEF from
<1>15. PICK p : Parts(u, from, ss, p) /\ p[n + 1] = from + Len(s1)
  <2>1. Sits(u, from, FlattenSeq(ss)) /\ n \in Nat /\ from \in Nat
    BY <1>1, <1>13, <1>14 DEF s1
  <2>2. \E p : Parts(u, from, ss, p) /\ p[n + 1] = from + Len(FlattenSeq(ss))
    BY <1>4, <1>6, <2>1, FlattenSits
  <2> QED
    BY <2>2 DEF s1
<1>16. /\ p[1] = from /\ \A k \in 1 .. n + 1 : p[k] \in Nat
       /\ \A k \in 1 .. n : Sits(u, p[k], ss[k]) /\ p[k + 1] = p[k] + Len(ss[k])
  BY <1>4, <1>15 DEF Parts
<1>17. ASSUME NEW s \in 1 .. n PROVE SignerLaid(u, c.signers[s], p[s], p[s + 1])
  <2>1. p[s] \in Nat /\ IsSigner(c.signers[s]) /\ Sits(u, p[s], SignerBytes(c.signers[s]))
    <3>1. s \in 1 .. n + 1
      BY <1>1
    <3>2. p[s] \in Nat /\ Sits(u, p[s], ss[s])
      BY <1>16, <3>1
    <3>3. IsSigner(c.signers[s]) /\ ss[s] = SignerBytes(c.signers[s])
      BY <1>1, <1>3
    <3> QED
      BY <3>2, <3>3
  <2>2. p[s + 1] = p[s] + Len(SignerBytes(c.signers[s]))
    BY <1>3, <1>16
  <2> QED
    BY <1>1, <1>6, <2>1, <2>2, SignerBytesLaid
<1>18. p[n + 1] \in Nat
  BY <1>1, <1>16
<1>19. /\ 0 + Len(h) = HeaderAt[6]
       /\ 0 + Len(h) + Len(c1) + Len(s1) = p[n + 1]
       /\ 0 + Len(h) + Len(c1) + Len(s1) + Len(c2) = p[n + 1] + w2
       /\ 0 + Len(h) + Len(c1) + Len(s1) + Len(c2) + Len(a1) = p[n + 1] + w2 + c.attributes
       /\ 0 + Len(h) + Len(c1) + Len(s1) + Len(c2) + Len(a1) + Len(c3) = p[n + 1] + w2 + c.attributes + w3
       /\ Len(u) = p[n + 1] + w2 + c.attributes + w3 + Len(sc)
  BY <1>1, <1>5, <1>10, <1>11, <1>13, <1>14, <1>15, <1>18
<1>20. /\ HeaderAt[6] \in Nat
       /\ \A k \in 1 .. 5 : HeaderAt[k] \in Nat /\ Sits(u, HeaderAt[k], c.header[HeaderFields[k]])
       /\ Sits(u, HeaderAt[6], c1) /\ Sits(u, p[n + 1], c2)
       /\ Sits(u, p[n + 1] + w2, a1) /\ Sits(u, p[n + 1] + w2 + c.attributes, c3)
       /\ Sits(u, p[n + 1] + w2 + c.attributes + w3, sc)
  BY <1>8, <1>13, <1>19
<1>21. Laid(u, c, p)
  BY <1>16, <1>17, <1>19, <1>20 DEF Laid, n, w1, w2, w3, from, c1, c2, c3, a1, sc
<1> QED
  BY <1>21 DEF u

---------------------------------------------------------------------------
(* What is read of an encoding, as far as there is data.                   *)

\* A byte of a part.
LEMMA SitsByte ==
    ASSUME NEW data \in Bytes, NEW u \in Bytes, Begins(data, u), NEW o \in Nat, NEW part, Sits(u, o, part),
           NEW k \in 1 .. Len(part), k \in Nat, o + k <= Len(data)
    PROVE  data[o + k] = part[k]
<1>1. o + k \in 1 .. Len(data)
  BY DEF Bytes
<1> QED
  BY <1>1 DEF Begins, Sits

\* A count is read as what was written, however it was.
LEMMA CountDecode ==
    ASSUME NEW data \in Bytes, NEW u \in Bytes, Begins(data, u), NEW o \in Nat,
           NEW n \in Nat, NEW width \in Widths, Fits(n, width), Sits(u, o, Count(n, width)),
           NEW m, NEW to \in Nat, to <= Len(data), IsCount(data, m, o, to)
    PROVE  m = n /\ to = o + width
<1> DEFINE b == Count(n, width)
<1>1. /\ Len(b) = width /\ width \in {1, 3, 5, 9}
      /\ IF width = 1
         THEN b[1] = n /\ n < 253
         ELSE /\ b[1] = Mark(width) /\ b[2] = n % 256 /\ b[3] = n \div 256
              /\ n = (n % 256) + 256 * (n \div 256)
  BY CountBytes
<1> HIDE DEF b
<1>2. \/ data[o + 1] < 253 /\ to = o + 1 /\ m = data[o + 1]
      \/ /\ data[o + 1] >= 253 /\ to = o + (IF data[o + 1] = 253 THEN 3 ELSE IF data[o + 1] = 254 THEN 5 ELSE 9)
         /\ m = data[o + 2] + 256 * data[o + 3]
  BY DEF IsCount
<1>3. o + 1 <= Len(data)
  BY <1>2 DEF Bytes
<1>4. data[o + 1] = b[1]
  <2>1. 1 \in 1 .. Len(b)
    BY <1>1
  <2> QED
    BY <1>3, <2>1, SitsByte DEF b
<1>5. CASE width # 1
  <2>1. data[o + 1] = Mark(width)
    BY <1>1, <1>4, <1>5, Zenon
  <2>2. to = o + width /\ m = data[o + 2] + 256 * data[o + 3]
    BY <1>1, <1>2, <1>5, <2>1 DEF Mark
  <2>3. 2 \in 1 .. Len(b) /\ 3 \in 1 .. Len(b) /\ o + 2 <= Len(data) /\ o + 3 <= Len(data)
    BY <1>1, <1>5, <2>2 DEF Bytes
  <2>4. data[o + 2] = b[2] /\ data[o + 3] = b[3]
    BY <2>3, SitsByte DEF b
  <2> QED
    BY <1>1, <1>5, <2>2, <2>4
<1>6. CASE width = 1
  BY <1>1, <1>2, <1>4, <1>6
<1> QED
  BY <1>5, <1>6

\* No part lies behind the end.
LEMMA PartsBelow ==
    ASSUME NEW u, NEW o, NEW ss, NEW p, NEW n \in Nat, n = Len(ss), Parts(u, o, ss, p),
           \A k \in 1 .. n : Len(ss[k]) \in Nat
    PROVE  \A k \in 1 .. n + 1 : p[k] \in Nat /\ p[k] <= p[n + 1]
<1>1. /\ \A k \in 1 .. n + 1 : p[k] \in Nat
      /\ \A k \in 1 .. n : p[k + 1] = p[k] + Len(ss[k])
  BY DEF Parts
<1> DEFINE T == {m \in 1 .. n + 1 : p[n + 2 - m] <= p[n + 1]}
<1>2. 1 \in T
  BY <1>1
<1>3. ASSUME NEW m \in 1 .. n + 1, m < n + 1, m \in T PROVE m + 1 \in T
  <2> DEFINE k == n + 1 - m
  <2>1. k \in 1 .. n /\ n + 2 - m = k + 1 /\ n + 2 - (m + 1) = k /\ m + 1 \in 1 .. n + 1
        /\ k \in 1 .. n + 1 /\ k + 1 \in 1 .. n + 1 /\ n + 1 \in 1 .. n + 1
    BY <1>3
  <2> HIDE DEF k
  <2>2. p[k + 1] <= p[n + 1]
    BY <1>3, <2>1
  <2>3. p[k + 1] = p[k] + Len(ss[k]) /\ Len(ss[k]) \in Nat /\ p[k] \in Nat /\ p[k + 1] \in Nat /\ p[n + 1] \in Nat
    BY <1>1, <2>1
  <2>4. p[k] <= p[n + 1]
    BY <2>2, <2>3
  <2> QED
    BY <2>1, <2>4
<1>4. 1 .. n + 1 \subseteq T
  <2> HIDE DEF T
  <2>1. n + 1 \in Nat
    OBVIOUS
  <2> QED
    BY <1>2, <1>3, <2>1, UpTo
<1>5. ASSUME NEW k \in 1 .. n + 1 PROVE p[k] <= p[n + 1]
  <2>1. n + 2 - k \in 1 .. n + 1 /\ n + 2 - (n + 2 - k) = k
    OBVIOUS
  <2>2. n + 2 - k \in T
    BY <1>4, <2>1
  <2> QED
    BY <2>1, <2>2
<1> QED
  BY <1>1, <1>5

\* The first m items of a list are at their places, and the last of them ends at `to`.
ItemsPlaced(t, r, l, m, q, to) == to = q[m + 1] /\ \A k \in 1 .. m : t.signers[r].allowed[l][k] = q[k]

\* So are the items of a list that was read.
LEMMA ItemsDecode ==
    ASSUME NEW u, NEW t, NEW r, NEW l, NEW first, NEW to, NEW ss, NEW q, Parts(u, first, ss, q),
           Len(ss) \in Nat, NEW m \in 0 .. Len(ss), \A k \in 1 .. Len(ss) : Len(ss[k]) = ItemLen(l),
           ItemsLie(t, r, l, m, first, to)
    PROVE  ItemsPlaced(t, r, l, m, q, to)
<1> DEFINE a == t.signers[r].allowed[l]
<1>1. /\ first = IF m = 0 THEN to ELSE a[1]
      /\ \A k \in 1 .. m : a[k] + ItemLen(l) = IF k = m THEN to ELSE a[k + 1]
  BY DEF ItemsLie
<1>2. /\ q[1] = first
      /\ \A k \in 1 .. m : q[k + 1] = q[k] + ItemLen(l)
  <2>1. q[1] = first /\ \A k \in 1 .. Len(ss) : q[k + 1] = q[k] + Len(ss[k])
    BY DEF Parts
  <2>2. \A k \in 1 .. m : k \in 1 .. Len(ss)
    OBVIOUS
  <2> QED
    BY <2>1, <2>2
<1> HIDE DEF a
<1>3. CASE m = 0
  BY <1>1, <1>2, <1>3 DEF ItemsPlaced
<1>4. CASE m # 0
  <2> DEFINE T == {k \in 1 .. m : a[k] = q[k]}
  <2>1. m \in Nat /\ 1 \in T
    BY <1>1, <1>2, <1>4
  <2>2. ASSUME NEW k \in 1 .. m, k < m, k \in T PROVE k + 1 \in T
    <3>1. k + 1 \in 1 .. m /\ k # m /\ a[k] = q[k]
      BY <2>2
    <3>2. a[k] + ItemLen(l) = a[k + 1]
      BY <1>1, <3>1
    <3> QED
      BY <1>2, <3>1, <3>2
  <2>3. 1 .. m \subseteq T
    <3> HIDE DEF T
    <3> QED
      BY <2>1, <2>2, UpTo
  <2>4. \A k \in 1 .. m : a[k] = q[k]
    BY <2>3
  <2>5. m \in 1 .. m
    BY <1>4
  <2>6. to = q[m + 1]
    BY <1>1, <1>2, <2>4, <2>5
  <2> QED
    BY <2>4, <2>6 DEF a, ItemsPlaced
<1> QED
  BY <1>3, <1>4

\* A list of a transaction is that of a content.
SameList(data, t, r, s, l) ==
    /\ t.signers[r].size[l] = Len(Listed(s, l))
    /\ \A k \in 1 .. Len(Listed(s, l)) :
          At(data, t.signers[r].allowed[l][k], ItemLen(l)) = Listed(s, l)[k]

\* The items of a list have the length of the list's items.
LEMMA ItemLens ==
    ASSUME NEW s, NEW l, IsList(s, l)
    PROVE  /\ Len(Listed(s, l)) \in Nat /\ ItemLen(l) \in Nat
           /\ \A k \in 1 .. Len(Listed(s, l)) : Listed(s, l)[k] \in Bytes /\ Len(Listed(s, l)[k]) = ItemLen(l)
<1>1. Listed(s, l) \in Seq([1 .. ItemLen(l) -> Byte])
  BY DEF IsList
<1>2. ItemLen(l) \in Nat
  BY ScriptAssumption DEF ItemLen
<1>3. \A k \in 1 .. Len(Listed(s, l)) : Listed(s, l)[k] \in [1 .. ItemLen(l) -> Byte]
  BY <1>1, ElementOfSeq
<1>4. \A item \in [1 .. ItemLen(l) -> Byte] : item \in Bytes /\ Len(item) = ItemLen(l)
  BY <1>2 DEF Bytes
<1> QED
  BY <1>1, <1>2, <1>3, <1>4

\* A list is read as what was written.
LEMMA ListDecode ==
    ASSUME NEW data \in Bytes, NEW u \in Bytes, Begins(data, u),
           NEW s, NEW l, IsList(s, l),
           NEW t, NEW r, t.signers[r].scope = s.scope,
           NEW from \in Nat, NEW next, ListLaid(u, s, l, from, next),
           NEW to \in Nat, to <= Len(data), ListLies(data, t, r, l, from, to)
    PROVE  to = next /\ SameList(data, t, r, s, l)
<1> DEFINE items == Listed(s, l)
           n     == Len(items)
           width == s.widths[l]
<1>1. /\ n \in Nat /\ width \in Widths /\ Fits(n, width) /\ ItemLen(l) \in Nat
      /\ \A k \in 1 .. n : items[k] \in Bytes /\ Len(items[k]) = ItemLen(l)
  BY ItemLens DEF IsList
<1>2. CASE HasFlag(l, s.scope)
  <2>1. PICK first \in from .. to :
           /\ IsCount(data, t.signers[r].size[l], from, first)
           /\ ItemsLie(t, r, l, t.signers[r].size[l], first, to)
    BY <1>2 DEF ListLies
  <2>2. Sits(u, from, Count(n, width)) /\ \E q : Parts(u, from + width, items, q) /\ next = q[n + 1]
    BY <1>2 DEF ListLaid
  <2> HIDE DEF items, n, width
  <2>3. first \in Nat /\ first <= Len(data)
    BY <2>1 DEF Bytes
  <2>4. t.signers[r].size[l] = n /\ first = from + width
    BY <1>1, <2>1, <2>2, <2>3, CountDecode
  <2>5. PICK q : Parts(u, first, items, q) /\ next = q[n + 1]
    BY <2>2, <2>4
  <2>6. ItemsLie(t, r, l, n, first, to) /\ n = Len(items) /\ n \in 0 .. Len(items) /\ Len(items) \in Nat
    BY <1>1, <2>1, <2>4 DEF n
  <2>7. to = q[n + 1] /\ \A k \in 1 .. n : t.signers[r].allowed[l][k] = q[k]
    <3>1. \A k \in 1 .. Len(items) : Len(items[k]) = ItemLen(l)
      BY <1>1, <2>6
    <3>2. Parts(u, first, items, q) /\ n \in 0 .. Len(items) /\ Len(items) \in Nat
      BY <2>5, <2>6
    <3>3. ItemsPlaced(t, r, l, n, q, to)
      BY <2>6, <3>1, <3>2, ItemsDecode
    <3> QED
      BY <3>3 DEF ItemsPlaced
  <2>8. \A k \in 1 .. n + 1 : q[k] \in Nat /\ q[k] <= q[n + 1]
    BY <1>1, <2>5, <2>6, PartsBelow
  <2>9. ASSUME NEW k \in 1 .. n PROVE At(data, t.signers[r].allowed[l][k], ItemLen(l)) = items[k]
    <3>1. k \in 1 .. n + 1 /\ k + 1 \in 1 .. n + 1
      BY <1>1
    <3>2. Sits(u, q[k], items[k]) /\ q[k + 1] = q[k] + ItemLen(l)
      BY <1>1, <2>5, <2>6 DEF Parts
    <3>3. q[k] \in Nat /\ q[k] + ItemLen(l) <= Len(data)
      BY <2>7, <2>8, <3>1, <3>2 DEF Bytes
    <3>4. items[k] \in Bytes /\ ItemLen(l) = Len(items[k])
      BY <1>1
    <3>5. At(data, q[k], ItemLen(l)) = items[k]
      BY <3>2, <3>3, <3>4, SitsAt
    <3> QED
      BY <2>7, <3>5
  <2> QED
    BY <2>4, <2>5, <2>7, <2>9 DEF SameList, items, n
<1>3. CASE ~HasFlag(l, s.scope)
  <2>1. t.signers[r].size[l] = 0 /\ to = from /\ next = from /\ items = << >>
    BY <1>3 DEF ListLies, ListLaid, IsList
  <2>2. Len(items) = 0 /\ 1 .. Len(items) = {}
    BY <2>1
  <2> QED
    BY <2>1, <2>2 DEF SameList
<1> QED
  BY <1>2, <1>3

\* A signer of a transaction is that of a content.
SameSigner(data, t, r, s) ==
    /\ At(data, t.signers[r].account, UINT160_LEN) = s.account
    /\ t.signers[r].scope = s.scope
    /\ \A l \in Lists : SameList(data, t, r, s, l)

\* A signer is read as what was written, and ends where it does.
LEMMA SignerDecode ==
    ASSUME NEW data \in Bytes, NEW u \in Bytes, Begins(data, u),
           NEW s, IsSigner(s),
           NEW t, NEW r, NEW from \in Nat, t.signers[r].account = from,
           NEW next, SignerLaid(u, s, from, next),
           NEW to \in Nat, to <= Len(data), SignerLies(data, t, r, to)
    PROVE  to = next /\ SameSigner(data, t, r, s)
<1> DEFINE scope == from + UINT160_LEN
           lists == scope + 1
<1>1. /\ Sits(u, from, s.account) /\ Sits(u, scope, << s.scope >>)
      /\ \E g \in Nat : /\ ListLaid(u, s, "contracts", lists, g)
                        /\ ListLaid(u, s, "groups", g, next)
  BY DEF SignerLaid
<1>2. /\ t.signers[r].scope = data[lists]
      /\ \E g \in lists .. to : /\ ListLies(data, t, r, "contracts", lists, g)
                                /\ ListLies(data, t, r, "groups", g, to)
  BY DEF SignerLies
<1>3. UINT160_LEN \in Nat /\ s.account \in Seq(Byte) /\ Len(s.account) = UINT160_LEN
  BY HashBytes, SignerParts
<1>4. scope \in Nat /\ lists \in Nat /\ Len(data) \in Nat /\ from + UINT160_LEN <= lists
  BY <1>3 DEF Bytes
<1>5. PICK read \in lists .. to : /\ ListLies(data, t, r, "contracts", lists, read)
                                  /\ ListLies(data, t, r, "groups", read, to)
  BY <1>2
<1>6. PICK laid \in Nat : /\ ListLaid(u, s, "contracts", lists, laid)
                          /\ ListLaid(u, s, "groups", laid, next)
  BY <1>1
<1>7. read \in Nat /\ read <= Len(data) /\ lists <= Len(data) /\ from + UINT160_LEN <= Len(data)
  BY <1>4, <1>5
<1> HIDE DEF scope
<1>8. data[lists] = s.scope
  <2> DEFINE part == << s.scope >>
  <2>1. 1 \in 1 .. Len(part) /\ 1 \in Nat /\ part[1] = s.scope /\ Sits(u, scope, part)
    BY <1>1
  <2>2. scope + 1 <= Len(data) /\ lists = scope + 1
    BY <1>7
  <2> HIDE DEF part, lists
  <2>3. data[scope + 1] = part[1]
    BY <1>4, <2>1, <2>2, SitsByte
  <2> QED
    BY <2>1, <2>2, <2>3
<1> HIDE DEF lists
<1>9. t.signers[r].scope = s.scope /\ IsList(s, "contracts") /\ IsList(s, "groups")
  BY <1>2, <1>8, SignerParts
<1>10. read = laid /\ SameList(data, t, r, s, "contracts")
  BY <1>4, <1>5, <1>6, <1>7, <1>9, ListDecode
<1>11. to = next /\ SameList(data, t, r, s, "groups")
  BY <1>5, <1>6, <1>7, <1>9, <1>10, ListDecode
<1>12. At(data, from, UINT160_LEN) = s.account
  BY <1>1, <1>3, <1>7, SitsAt DEF Bytes
<1> QED
  BY <1>9, <1>10, <1>11, <1>12 DEF SameSigner, Lists

\* The header ends where its last field does.
LEMMA HeaderBelow ==
    /\ \A k \in 1 .. 6 : HeaderAt[k] \in Nat /\ HeaderAt[k] <= HeaderAt[6]
    /\ \A k \in 1 .. 5 : HeaderAt[k] + Width(HeaderFields[k]) <= HeaderAt[6]
<1>1. HeaderAt[1] = 0 /\ \A k \in 1 .. 5 : HeaderAt[k] + Width(HeaderFields[k]) = HeaderAt[k + 1]
  BY HeaderEnds
<1>2. \A k \in 1 .. 5 : Width(HeaderFields[k]) \in Nat
  BY WidthType
<1> DEFINE T == {k \in 1 .. 6 : HeaderAt[k] \in Nat}
           D == {m \in 1 .. 6 : HeaderAt[7 - m] <= HeaderAt[6]}
<1>3. ASSUME NEW k \in 1 .. 6, k < 6, k \in T PROVE k + 1 \in T
  <2>1. k \in 1 .. 5 /\ k + 1 \in 1 .. 6 /\ HeaderAt[k] \in Nat
    BY <1>3
  <2>2. HeaderAt[k + 1] = HeaderAt[k] + Width(HeaderFields[k]) /\ Width(HeaderFields[k]) \in Nat
    BY <1>1, <1>2, <2>1
  <2> QED
    BY <2>1, <2>2
<1>4. \A k \in 1 .. 6 : HeaderAt[k] \in Nat
  <2>1. 1 \in T
    BY <1>1
  <2> HIDE DEF T
  <2>2. 1 .. 6 \subseteq T
    BY <1>3, <2>1, UpTo
  <2> QED
    BY <2>2 DEF T
<1>5. ASSUME NEW m \in 1 .. 6, m < 6, m \in D PROVE m + 1 \in D
  <2>1. 6 - m \in 1 .. 5 /\ 6 - m \in 1 .. 6 /\ (6 - m) + 1 = 7 - m /\ 7 - m \in 1 .. 6
        /\ 7 - (m + 1) = 6 - m /\ m + 1 \in 1 .. 6
    BY <1>5
  <2>2. HeaderAt[7 - m] <= HeaderAt[6]
    BY <1>5
  <2>3. HeaderAt[6 - m] + Width(HeaderFields[6 - m]) = HeaderAt[7 - m] /\ Width(HeaderFields[6 - m]) \in Nat
    BY <1>1, <1>2, <2>1
  <2>4. HeaderAt[6 - m] \in Nat /\ HeaderAt[7 - m] \in Nat /\ HeaderAt[6] \in Nat
    BY <1>4, <2>1
  <2>5. HeaderAt[6 - m] <= HeaderAt[6]
    BY <2>2, <2>3, <2>4
  <2> QED
    BY <2>1, <2>5
<1>6. \A k \in 1 .. 6 : HeaderAt[k] <= HeaderAt[6]
  <2>1. 1 \in D
    BY <1>4
  <2> HIDE DEF D
  <2>2. 1 .. 6 \subseteq D
    BY <1>5, <2>1, UpTo
  <2>3. ASSUME NEW k \in 1 .. 6 PROVE HeaderAt[k] <= HeaderAt[6]
    <3>1. 7 - k \in 1 .. 6 /\ 7 - (7 - k) = k
      OBVIOUS
    <3>2. 7 - k \in D
      BY <2>2, <3>1
    <3> QED
      BY <3>1, <3>2 DEF D
  <2> QED
    BY <2>3
<1>7. ASSUME NEW k \in 1 .. 5 PROVE HeaderAt[k] + Width(HeaderFields[k]) <= HeaderAt[6]
  <2>1. k + 1 \in 1 .. 6
    OBVIOUS
  <2> QED
    BY <1>1, <1>6, <2>1
<1> QED
  BY <1>4, <1>6, <1>7

\* The header of a transaction is read as what was written.
LEMMA HeaderDecode ==
    ASSUME NEW data \in Bytes, NEW u \in Bytes, Begins(data, u), NEW c, IsContent(c), NEW p, Laid(u, c, p),
           NEW k \in 1 .. 5, HeaderAt[k] + Width(HeaderFields[k]) <= Len(data)
    PROVE  At(data, HeaderAt[k], Width(HeaderFields[k])) = c.header[HeaderFields[k]]
<1> DEFINE bytes == c.header[HeaderFields[k]]
<1>1. HeaderFields[k] \in Headers
  BY HeaderEnds DEF Headers
<1>2. bytes \in [1 .. Width(HeaderFields[k]) -> Byte] /\ Width(HeaderFields[k]) \in Nat
  BY <1>1, ContentParts, WidthType
<1>3. bytes \in Bytes /\ Width(HeaderFields[k]) = Len(bytes)
  <2> DEFINE w == Width(HeaderFields[k])
  <2>1. bytes \in [1 .. w -> Byte] /\ w \in Nat
    BY <1>2
  <2> HIDE DEF bytes, w
  <2>2. bytes \in Bytes /\ w = Len(bytes)
    BY <2>1 DEF Bytes
  <2> QED
    BY <2>2 DEF w
<1>4. HeaderAt[k] \in Nat /\ Sits(u, HeaderAt[k], bytes)
  BY DEF Laid
<1> HIDE DEF bytes
<1>5. At(data, HeaderAt[k], Width(HeaderFields[k])) = bytes
  BY <1>3, <1>4, SitsAt
<1> QED
  BY <1>5 DEF bytes

\* Where each signer ends, if there are n of them up to `to`.
EndOf(t, n, s, to) == IF s = n THEN to ELSE t.signers[s + 1].account

\* No signer lies behind the end of the last.
LEMMA SignersBelow ==
    ASSUME NEW data, NEW t, Shape(t), NEW n \in 0 .. t.signers_size, NEW from, NEW to \in Nat,
           SignersLie(data, t, n, from, to)
    PROVE  \A s \in 1 .. n : /\ t.signers[s].account \in Nat /\ EndOf(t, n, s, to) \in Nat
                             /\ EndOf(t, n, s, to) <= to
<1>1. n \in Nat /\ \A s \in 1 .. n : s \in 1 .. MaxSigners
  BY Limits DEF Shape, IsTx
<1>2. \A s \in 1 .. n : t.signers[s].account \in Nat
  BY <1>1 DEF Shape
<1>3. UINT160_LEN \in Nat
  BY ScriptAssumption
<1>4. ASSUME NEW s \in 1 .. n PROVE EndOf(t, n, s, to) \in Nat /\ t.signers[s].account <= EndOf(t, n, s, to)
  <2>1. EndOf(t, n, s, to) \in Nat
    <3>1. s # n => s + 1 \in 1 .. n
      BY <1>1
    <3> QED
      BY <1>2, <3>1 DEF EndOf
  <2>2. SignerLies(data, t, s, EndOf(t, n, s, to))
    BY DEF SignersLie, EndOf
  <2>3. \E g \in t.signers[s].account + UINT160_LEN + 1 .. EndOf(t, n, s, to) : TRUE
    BY <2>2 DEF SignerLies
  <2> QED
    BY <1>2, <1>3, <2>1, <2>3
<1> DEFINE T == {m \in 1 .. n : EndOf(t, n, n + 1 - m, to) <= to}
<1>5. n >= 1 => 1 \in T
  <2>1. n + 1 - 1 = n
    BY <1>1
  <2> QED
    BY <1>1, <2>1 DEF EndOf
<1>6. ASSUME NEW m \in 1 .. n, m < n, m \in T PROVE m + 1 \in T
  <2>1. n - m \in 1 .. n /\ n - m # n /\ n + 1 - m = (n - m) + 1 /\ n + 1 - (m + 1) = n - m
        /\ m + 1 \in 1 .. n /\ n + 1 - m \in 1 .. n
    BY <1>1, <1>6
  <2>2. EndOf(t, n, n + 1 - m, to) <= to
    BY <1>6
  <2>3. EndOf(t, n, n - m, to) = t.signers[n + 1 - m].account
    BY <2>1 DEF EndOf
  <2>4. EndOf(t, n, n - m, to) <= to
    BY <1>2, <1>4, <2>1, <2>2, <2>3
  <2> QED
    BY <2>1, <2>4
<1>7. 1 .. n \subseteq T
  <2> HIDE DEF T
  <2> QED
    BY <1>1, <1>5, <1>6, UpTo
<1>8. ASSUME NEW s \in 1 .. n PROVE EndOf(t, n, s, to) <= to
  <2>1. n + 1 - s \in 1 .. n /\ n + 1 - (n + 1 - s) = s
    BY <1>1
  <2>2. n + 1 - s \in T
    BY <1>7, <2>1
  <2> QED
    BY <2>1, <2>2
<1> QED
  BY <1>2, <1>4, <1>8

\* All that a transaction has in front of `to` is that of the content, and the
\* signers are where it has them.
FrontIs(data, t, c, p, n) ==
    /\ \A k \in 1 .. 5 : t.header[HeaderFields[k]] = c.header[HeaderFields[k]]
    /\ t.signers_size = Len(c.signers)
    /\ \A s \in 1 .. n : t.signers[s].account = p[s] /\ SameSigner(data, t, s, c.signers[s])

\* The front is read as what was written.
LEMMA FrontDecode ==
    ASSUME NEW data \in Bytes, NEW u \in Bytes, Begins(data, u), NEW c, IsContent(c), NEW p, Laid(u, c, p),
           NEW t, Shape(t), NEW n \in 0 .. t.signers_size, NEW to \in Nat, to <= Len(data),
           FrontLies(data, t, n, to)
    PROVE  to = p[n + 1] /\ FrontIs(data, t, c, p, n)
<1>1. PICK first \in 0 .. to :
         IsCount(data, t.signers_size, HeaderAt[6], first) /\ SignersLie(data, t, n, first, to)
  BY DEF FrontLies
<1>2. \A k \in 1 .. 5 : t.header[HeaderFields[k]] = At(data, HeaderAt[k], Width(HeaderFields[k]))
  BY HeaderEnds DEF FrontLies, HeaderLies
<1>3. /\ HeaderAt[6] \in Nat /\ Sits(u, HeaderAt[6], Count(Len(c.signers), c.widths.signers))
      /\ p[1] = HeaderAt[6] + c.widths.signers /\ \A s \in 1 .. Len(c.signers) + 1 : p[s] \in Nat
      /\ \A s \in 1 .. Len(c.signers) : SignerLaid(u, c.signers[s], p[s], p[s + 1])
  BY DEF Laid
<1>4. /\ c.widths.signers \in Widths /\ Len(c.signers) \in Nat /\ Fits(Len(c.signers), c.widths.signers)
      /\ \A s \in 1 .. Len(c.signers) : IsSigner(c.signers[s])
  BY ContentParts
<1>5. first \in Nat /\ first <= Len(data) /\ Len(data) \in Nat
  BY <1>1 DEF Bytes
<1>6. t.signers_size = Len(c.signers) /\ first = p[1]
  BY <1>1, <1>3, <1>4, <1>5, CountDecode
<1>7. HeaderAt[6] <= Len(data)
  BY <1>1, <1>3, <1>5 DEF IsCount
<1>8. ASSUME NEW k \in 1 .. 5 PROVE t.header[HeaderFields[k]] = c.header[HeaderFields[k]]
  <2>1. HeaderAt[k] \in Nat /\ HeaderAt[k] + Width(HeaderFields[k]) <= HeaderAt[6] /\ Width(HeaderFields[k]) \in Nat
    <3>1. k \in 1 .. 6
      OBVIOUS
    <3> QED
      BY <3>1, HeaderBelow, WidthType
  <2>2. HeaderAt[k] + Width(HeaderFields[k]) <= Len(data)
    BY <1>3, <1>5, <1>7, <2>1
  <2> QED
    BY <1>2, <2>2, HeaderDecode
<1>9. n \in Nat /\ n <= Len(c.signers)
  BY <1>4, <1>6
<1>10. \A s \in 1 .. n : /\ t.signers[s].account \in Nat /\ EndOf(t, n, s, to) \in Nat
                         /\ EndOf(t, n, s, to) <= Len(data)
  <2>1. \A s \in 1 .. n : /\ t.signers[s].account \in Nat /\ EndOf(t, n, s, to) \in Nat
                           /\ EndOf(t, n, s, to) <= to
    BY <1>1, SignersBelow
  <2> QED
    BY <1>5, <2>1
<1>11. ASSUME NEW s \in 1 .. n, t.signers[s].account = p[s]
       PROVE  EndOf(t, n, s, to) = p[s + 1] /\ SameSigner(data, t, s, c.signers[s])
  <2>1. SignerLies(data, t, s, EndOf(t, n, s, to))
    BY <1>1 DEF SignersLie, EndOf
  <2>2. s \in 1 .. Len(c.signers)
    BY <1>4, <1>9
  <2> DEFINE end  == EndOf(t, n, s, to)
             sig  == c.signers[s]
             from == p[s]
             next == p[s + 1]
  <2>3. SignerLaid(u, sig, from, next) /\ IsSigner(sig) /\ from \in Nat
    <3>1. s \in 1 .. Len(c.signers) + 1
      BY <1>4, <2>2
    <3>2. from \in Nat
      BY <1>3, <3>1
    <3>3. IsSigner(sig)
      BY <1>4, <2>2
    <3>4. SignerLaid(u, sig, from, next)
      BY <1>3, <2>2
    <3> QED
      BY <3>2, <3>3, <3>4
  <2>4. end \in Nat /\ end <= Len(data) /\ SignerLies(data, t, s, end) /\ t.signers[s].account = from
    BY <1>10, <1>11, <2>1
  <2> HIDE DEF end, sig, from, next
  <2>5. end = next /\ SameSigner(data, t, s, sig)
    BY <2>3, <2>4, SignerDecode, SMTT(60)
  <2> QED
    BY <2>5 DEF end, next, sig
<1> DEFINE T == {s \in 1 .. n : t.signers[s].account = p[s]}
<1>12. n >= 1 => 1 \in T
  BY <1>1, <1>6, <1>9 DEF SignersLie
<1>13. ASSUME NEW s \in 1 .. n, s < n, s \in T PROVE s + 1 \in T
  <2>1. EndOf(t, n, s, to) = p[s + 1]
    BY <1>11, <1>13
  <2> QED
    BY <1>9, <1>13, <2>1 DEF EndOf
<1>14. 1 .. n \subseteq T
  <2> HIDE DEF T
  <2> QED
    BY <1>9, <1>12, <1>13, UpTo
<1>15. \A s \in 1 .. n : t.signers[s].account = p[s]
  BY <1>14
<1>16. to = p[n + 1]
  <2>1. CASE n = 0
    BY <1>1, <1>6, <2>1 DEF SignersLie
  <2>2. CASE n # 0
    <3>1. n \in 1 .. n
      BY <1>9, <2>2
    <3>2. EndOf(t, n, n, to) = p[n + 1]
      BY <1>11, <1>15, <3>1
    <3> QED
      BY <3>2 DEF EndOf
  <2> QED
    BY <2>1, <2>2
<1> QED
  BY <1>6, <1>8, <1>11, <1>15, <1>16 DEF FrontIs

\* A transaction is the content.
IsThat(data, t, c) ==
    /\ \A k \in 1 .. 5 : t.header[HeaderFields[k]] = c.header[HeaderFields[k]]
    /\ t.signers_size = Len(c.signers)
    /\ \A s \in 1 .. Len(c.signers) : SameSigner(data, t, s, c.signers[s])
    /\ t.attributes_size = c.attributes
    /\ At(data, t.script, t.script_size) = ScriptOf(c.does) /\ t.script_size = Len(ScriptOf(c.does))

\* What begins an encoding and has a transaction in it is all of the encoding, and
\* the transaction is the content.
LEMMA CoversDecode ==
    ASSUME NEW data \in Bytes, NEW u \in Bytes, Begins(data, u), NEW c, IsContent(c), NEW p, Laid(u, c, p),
           NEW t, Shape(t), Covers(data, t)
    PROVE  data = u /\ IsThat(data, t, c)
<1> DEFINE n     == Len(c.signers)
           w2    == c.widths.attributes
           w3    == c.widths.script
           sc    == ScriptOf(c.does)
           size  == Len(sc)
           start == p[n + 1] + w2
           next  == start + c.attributes
           last  == next + w3
<1>1. /\ n \in Nat /\ w2 \in Widths /\ w3 \in Widths /\ c.attributes \in Nat /\ sc \in Seq(Byte) /\ size \in Nat
      /\ Fits(c.attributes, w2) /\ Fits(size, w3)
  BY ContentParts
<1>2. /\ p[n + 1] \in Nat /\ Sits(u, p[n + 1], Count(c.attributes, w2))
      /\ Sits(u, next, Count(size, w3)) /\ Sits(u, last, sc) /\ Len(u) = last + size
  <2>1. n + 1 \in 1 .. n + 1
    BY <1>1
  <2> QED
    BY <2>1 DEF Laid
<1>3. w2 \in Nat /\ w3 \in Nat
  BY <1>1 DEF Widths
<1>4. start \in Nat /\ next \in Nat /\ last \in Nat /\ Len(data) \in Nat /\ Len(u) \in Nat
  <2>1. Len(data) \in Nat /\ Len(u) \in Nat
    BY DEF Bytes
  <2> HIDE DEF n, w2, w3, sc, size
  <2>2. start \in Nat
    BY <1>2, <1>3
  <2> HIDE DEF start
  <2>3. next \in Nat
    BY <1>1, <2>2
  <2> HIDE DEF next
  <2>4. last \in Nat
    BY <1>3, <2>3
  <2> QED
    BY <2>1, <2>2, <2>3, <2>4
<1>5. /\ t.signers_size \in Nat /\ t.attributes_size \in Nat /\ t.script \in Nat /\ t.script_size \in Nat
  BY Limits DEF Shape, IsTx
<1>6. PICK from \in 0 .. Len(data) :
         /\ FrontLies(data, t, t.signers_size, from)
         /\ \E to \in from .. Len(data) :
               AttributesLie(data, t, from, to) /\ IsCount(data, t.script_size, to, t.script)
  BY DEF Covers
<1>7. PICK to \in from .. Len(data) :
         AttributesLie(data, t, from, to) /\ IsCount(data, t.script_size, to, t.script)
  BY <1>6
<1>8. t.script + t.script_size = Len(data)
  BY DEF Covers
<1>9. from \in Nat /\ from <= Len(data) /\ to \in Nat /\ to <= Len(data) /\ t.script <= Len(data)
  <2>1. from \in Nat /\ from <= Len(data) /\ to \in Nat /\ to <= Len(data)
    BY <1>4
  <2>2. t.script <= Len(data)
    BY <1>4, <1>5, <1>8
  <2> QED
    BY <2>1, <2>2
<1>10. from = p[t.signers_size + 1] /\ FrontIs(data, t, c, p, t.signers_size)
  <2>1. t.signers_size \in 0 .. t.signers_size
    BY <1>5
  <2> QED
    BY <1>6, <1>9, <2>1, FrontDecode
<1>11. t.signers_size = n /\ from = p[n + 1]
  BY <1>10 DEF FrontIs
<1> HIDE DEF n, w2, w3, sc, size, start, next, last
<1>12. t.attributes_size = c.attributes /\ to = next
  <2> DEFINE mark == to - t.attributes_size
  <2>1. IsCount(data, t.attributes_size, from, mark) /\ mark \in Nat /\ mark <= Len(data)
    <3>1. IsCount(data, t.attributes_size, from, mark)
      BY <1>7 DEF AttributesLie
    <3>2. mark \in Int /\ mark <= Len(data)
      BY <1>4, <1>5, <1>9
    <3> HIDE DEF mark
    <3>3. mark >= from
      BY <1>9, <3>1, <3>2 DEF IsCount
    <3> QED
      BY <1>9, <3>1, <3>2, <3>3
  <2> HIDE DEF mark
  <2>2. Sits(u, from, Count(c.attributes, w2))
    BY <1>2, <1>11
  <2>3. t.attributes_size = c.attributes /\ mark = from + w2
    BY <1>1, <1>9, <2>1, <2>2, CountDecode
  <2>4. mark = start
    BY <1>11, <2>3 DEF start
  <2>5. to = mark + t.attributes_size
    BY <1>5, <1>9 DEF mark
  <2> QED
    BY <2>3, <2>4, <2>5 DEF next
<1>13. t.script_size = size /\ t.script = last
  <2>1. t.script_size = size /\ t.script = to + w3
    BY <1>1, <1>2, <1>5, <1>7, <1>9, <1>12, CountDecode
  <2> QED
    BY <1>12, <2>1 DEF last
<1>14. Len(data) = Len(u)
  BY <1>2, <1>8, <1>13
<1>15. At(data, last, size) = sc
  <2>1. sc \in Bytes /\ size = Len(sc) /\ last + size <= Len(data)
    BY <1>1, <1>2, <1>4, <1>14 DEF Bytes, size
  <2> QED
    BY <1>2, <1>4, <2>1, SitsAt
<1>16. data = u
  <2>1. data \in Seq(Byte) /\ u \in Seq(Byte) /\ \A k \in 1 .. Len(data) : data[k] = u[k]
    BY DEF Bytes, Begins
  <2> QED
    BY <1>14, <2>1, SeqEqual
<1> QED
  BY <1>10, <1>11, <1>12, <1>13, <1>15, <1>16 DEF IsThat, FrontIs, n, sc, size

\* What passed the checks of the parser is within the limits.
LEMMA AcceptedSupported ==
    ASSUME NEW data, NEW t, Shape(t), NEW c, IsContent(c), IsThat(data, t, c), Accepted(data, t)
    PROVE  Supported(c)
<1>1. /\ DOMAIN c.header = Headers /\ DOMAIN c.signers = 1 .. Len(c.signers) /\ c.attributes \in Nat
      /\ Len(c.signers) \in Nat /\ ScriptOf(c.does) \in Seq(Byte)
  BY ContentParts
<1>2. ASSUME NEW f \in DOMAIN c.header PROVE HeaderAccepted(f, c.header[f])
  <2>1. PICK k \in 1 .. 5 : f = HeaderFields[k]
    BY <1>1, HeaderEnds DEF Headers
  <2> QED
    BY <2>1 DEF Accepted, HeaderPassed, IsThat
<1>3. t.signers_size = Len(c.signers) /\ Len(c.signers) \in 1 .. MaxSigners /\ MaxSigners \in Nat
  BY <1>1, Limits DEF IsThat, Accepted, Shape, IsTx
<1>4. ASSUME NEW s \in DOMAIN c.signers PROVE s \in 1 .. t.signers_size /\ SameSigner(data, t, s, c.signers[s])
  BY <1>1, <1>3 DEF IsThat
<1>5. ASSUME NEW r \in DOMAIN c.signers, NEW s \in DOMAIN c.signers,
             c.signers[r].account = c.signers[s].account
      PROVE  r = s
  <2>1. /\ r \in 1 .. t.signers_size /\ s \in 1 .. t.signers_size
        /\ At(data, t.signers[r].account, UINT160_LEN) = At(data, t.signers[s].account, UINT160_LEN)
    BY <1>4, <1>5 DEF SameSigner
  <2> QED
    BY <2>1 DEF Accepted, SignersPassed, Distinct
<1>6. ASSUME NEW s \in DOMAIN c.signers
      PROVE  /\ c.signers[s].scope <= 128
             /\ Len(c.signers[s].contracts) <= MaxContracts
             /\ Len(c.signers[s].groups) <= MaxGroups
  <2>1. s \in 1 .. t.signers_size /\ s \in 1 .. MaxSigners /\ SameSigner(data, t, s, c.signers[s])
    BY <1>1, <1>3, <1>4
  <2>2. t.signers[s].scope = c.signers[s].scope /\ ScopeAccepted(t.signers[s].scope)
    BY <2>1 DEF SameSigner, Accepted, SignersPassed, ScopesPassed
  <2>3. "contracts" \in Lists /\ "groups" \in Lists
    BY DEF Lists
  <2>4. t.signers[s].size["contracts"] = Len(c.signers[s].contracts)
        /\ t.signers[s].size["groups"] = Len(c.signers[s].groups)
    BY <2>1, <2>3 DEF SameSigner, SameList, Listed
  <2>5. t.signers[s].size["contracts"] \in 0 .. MaxContracts
        /\ t.signers[s].size["groups"] \in 0 .. MaxGroups
    BY <2>1, <2>3 DEF Shape, IsTx, Limit
  <2> QED
    BY <2>2, <2>4, <2>5, LimitsAssumption DEF ScopeAccepted
<1>7. c.attributes <= 1 /\ ScriptOf(c.does) # << >>
  <2>1. t.attributes_size <= 1 /\ t.script_size # 0 /\ t.attributes_size = c.attributes
        /\ t.script_size = Len(ScriptOf(c.does))
    BY DEF IsThat, Accepted
  <2> QED
    BY <2>1
<1> QED
  BY <1>2, <1>3, <1>5, <1>6, <1>7 DEF Supported

---------------------------------------------------------------------------
(* What was uploaded is what the host sends, or begins to send, until it   *)
(* is signed.                                                              *)

Sent == raw = << >> \/ \E u \in Uploads : Begins(raw, u)

\* One byte more.
LEMMA SentMore ==
    ASSUME Inside, ~signed, NEW data \in NextData
    PROVE  \E u \in Uploads : Begins(data, u)
<1>1. PICK u \in Uploads : Begun(u) /\ data = Append(raw, u[Len(raw) + 1])
  BY DEF NextData
<1> DEFINE n     == Len(raw)
           start == At(u, 0, n)
<1>2. raw \in Seq(Byte) /\ u \in Seq(Byte) /\ n \in Nat /\ n < Len(u) /\ Len(u) \in Nat
      /\ raw = start
  <2>1. raw \in Seq(Byte)
    BY DEF Inside, Bytes
  <2>2. u \in Seq(Byte)
    BY <1>1, UploadsAssumption DEF Uploads, Bytes
  <2> QED
    BY <1>1, <2>1, <2>2 DEF Begun
<1>3. start \in Seq(Byte) /\ Len(start) = n /\ \A k \in 1 .. n : start[k] = u[k]
  <2> DEFINE v == SubSeq(u, 0 + 1, 0 + n)
  <2>1. 0 + 1 \in Int /\ 0 + n \in Int /\ 0 + n = n /\ 0 + 1 = 1 /\ n - 1 + 1 = n
    BY <1>2
  <2>2. \A k \in 1 .. n : u[k] \in Byte
    BY <1>2
  <2>3. SubSeq(u, 1, n) \in Seq(Byte) /\ Len(SubSeq(u, 1, n)) = n
        /\ \A k \in 1 .. n : SubSeq(u, 1, n)[k] = u[k]
    BY <1>2, <2>2
  <2> QED
    BY <2>1, <2>3 DEF At
<1>4. /\ Len(data) = n + 1 /\ data[n + 1] = u[n + 1]
      /\ \A k \in 1 .. n : data[k] = raw[k]
  BY <1>1, <1>2
<1> HIDE DEF start, n
<1>5. \A k \in 1 .. n + 1 : data[k] = u[k]
  BY <1>2, <1>3, <1>4
<1> QED
  BY <1>1, <1>2, <1>4, <1>5 DEF Begins

\* Every step of the host and the owner that leaves the upload unsigned.
LEMMA SentNext ==
    ASSUME OnceInv, ~signed => Sent, [Next]_vars, ~signed'
    PROVE  Sent'
<1>1. CASE NewUpload
  BY <1>1 DEF NewUpload, Sent
<1>2. CASE ~NewUpload
  <2>1. ~signed /\ ~Approve /\ Sent /\ Inside
    BY <1>2, SignedKept DEF OnceInv
  <2>2. CASE raw' = raw
    BY <2>1, <2>2 DEF Sent
  <2>3. CASE ReceiveMore
    BY <2>1, <2>3, SentMore DEF ReceiveMore, Sent
  <2>4. CASE ReceiveLast
    BY <2>1, <2>4, SentMore DEF ReceiveLast, Begin, Sent
  <2>5. CASE Parse
    <3>1. raw' = raw
      BY <2>5, ReadKeepsRaw DEF Parse
    <3> QED
      BY <2>2, <3>1
  <2>6. CASE ShowReview \/ Look \/ Reject \/ UNCHANGED vars
    <3>1. raw' = raw
      BY <2>6 DEF ShowReview, Look, Reject, vars
    <3> QED
      BY <2>2, <3>1
  <2> QED
    BY <1>2, <2>1, <2>3, <2>4, <2>5, <2>6 DEF Next
<1> QED
  BY <1>1, <1>2

\* It holds with the invariants of the other proofs.
Unsigned == ~signed => Checked /\ Sent

LEMMA SentHolds == Spec => [](OnceInv /\ FieldsInv /\ Unsigned)
<1>1. Init => OnceInv /\ FieldsInv /\ Unsigned
  BY OnceInit, FieldsInit, CheckedInit DEF Init, Sent, Unsigned
<1>2. OnceInv /\ FieldsInv /\ Unsigned /\ [Next]_vars => (OnceInv /\ FieldsInv /\ Unsigned)'
  BY OnceNext, FieldsNext, CheckedNext, SentNext DEF Unsigned
<1> QED
  BY <1>1, <1>2, PTL DEF Spec

---------------------------------------------------------------------------
(* What the matchers make of the script of a content.                      *)

\* The bytes at an offset lie there.
LEMMA AtSits ==
    ASSUME NEW s \in Bytes, NEW o \in Nat, NEW n \in Nat, o + n <= Len(s)
    PROVE  At(s, o, n) \in Seq(Byte) /\ At(s, o, n) \in [1 .. n -> Byte] /\ Len(At(s, o, n)) = n
           /\ Sits(s, o, At(s, o, n))
<1>1. s \in Seq(Byte) /\ Len(s) \in Nat
  BY DEF Bytes
<1>2. \A k \in o + 1 .. o + n : s[k] \in Byte
  <2>1. \A k \in o + 1 .. o + n : k \in 1 .. Len(s)
    BY <1>1
  <2> QED
    BY <1>1, <2>1, ElementOfSeq
<1>3. (o + n) - (o + 1) + 1 = n /\ o + 1 \in Int /\ o + n \in Int /\ (o + 1 <= o + n \/ n = 0)
  OBVIOUS
<1>4. /\ SubSeq(s, o + 1, o + n) \in Seq(Byte)
      /\ Len(SubSeq(s, o + 1, o + n)) = IF o + 1 <= o + n THEN (o + n) - (o + 1) + 1 ELSE 0
      /\ \A k \in 1 .. (o + n) - (o + 1) + 1 : SubSeq(s, o + 1, o + n)[k] = s[(o + 1) + k - 1]
  BY <1>2, <1>3, SubSeqProperties
<1>5. \A k \in 1 .. n : (o + 1) + k - 1 = o + k
  OBVIOUS
<1> DEFINE part == At(s, o, n)
<1>6. part \in Seq(Byte) /\ Len(part) = n /\ \A k \in 1 .. n : s[o + k] = part[k]
  BY <1>3, <1>4, <1>5 DEF At
<1> HIDE DEF part
<1>7. part \in [1 .. n -> Byte]
  BY <1>6, LenProperties
<1>8. Sits(s, o, part)
  BY <1>6 DEF Sits
<1> QED
  BY <1>6, <1>7, <1>8 DEF part

\* What the matchers compare is what lies there.
LEMMA HasSits ==
    ASSUME NEW s \in Bytes, NEW o \in Nat, NEW part \in Seq(Byte)
    PROVE  Has(s, o, part) <=> Sits(s, o, part)
<1>1. Len(part) \in Nat /\ part \in Bytes
  BY DEF Bytes
<1>2. CASE o + Len(part) <= Len(s)
  <2>1. ASSUME Sits(s, o, part) PROVE Has(s, o, part)
    <3>1. Begins(s, s)
      BY DEF Begins, Bytes
    <3>2. At(s, o, Len(part)) = part
      BY <1>1, <1>2, <2>1, <3>1, SitsAt
    <3> QED
      BY <1>2, <3>2 DEF Has
  <2>2. ASSUME Has(s, o, part) PROVE Sits(s, o, part)
    <3>1. Sits(s, o, At(s, o, Len(part)))
      BY <1>1, <1>2, AtSits
    <3> QED
      BY <2>2, <3>1 DEF Has
  <2> QED
    BY <2>1, <2>2
<1>3. CASE ~(o + Len(part) <= Len(s))
  BY <1>3 DEF Has, Sits
<1> QED
  BY <1>2, <1>3

\* Parts one behind the other lie there joined.
LEMMA SitsJoin ==
    ASSUME NEW S, NEW u \in Seq(S), NEW o \in Nat, NEW a \in Seq(S), NEW b \in Seq(S),
           Sits(u, o, a), Sits(u, o + Len(a), b)
    PROVE  Sits(u, o, a \o b) /\ a \o b \in Seq(S) /\ Len(a \o b) = Len(a) + Len(b)
<1>1. /\ a \o b \in Seq(S) /\ Len(a \o b) = Len(a) + Len(b)
      /\ \A k \in 1 .. Len(a) + Len(b) : (a \o b)[k] = IF k <= Len(a) THEN a[k] ELSE b[k - Len(a)]
  BY ConcatProperties
<1>2. Len(a) \in Nat /\ Len(b) \in Nat /\ Len(u) \in Nat
  OBVIOUS
<1>3. /\ o + Len(a) + Len(b) <= Len(u)
      /\ \A k \in 1 .. Len(a) : u[o + k] = a[k]
      /\ \A k \in 1 .. Len(b) : u[o + Len(a) + k] = b[k]
  BY DEF Sits
<1>4. ASSUME NEW k \in 1 .. Len(a) + Len(b) PROVE u[o + k] = (a \o b)[k]
  <2>1. CASE k <= Len(a)
    <3>1. k \in 1 .. Len(a)
      BY <1>2, <2>1
    <3> QED
      BY <1>1, <1>3, <2>1, <3>1
  <2>2. CASE ~(k <= Len(a))
    <3>1. k - Len(a) \in 1 .. Len(b) /\ o + Len(a) + (k - Len(a)) = o + k
      BY <1>2, <2>2
    <3>2. u[o + Len(a) + (k - Len(a))] = b[k - Len(a)]
      BY <1>3, <3>1
    <3> QED
      BY <1>1, <2>2, <3>1, <3>2
  <2> QED
    BY <2>1, <2>2
<1>5. o + (Len(a) + Len(b)) <= Len(u)
  BY <1>2, <1>3
<1> QED
  BY <1>1, <1>4, <1>5 DEF Sits

\* Two scripts that are the same so far, and are no longer once the same part lies
\* in both.
SameTo(s, w, n) == \A k \in 1 .. n : s[k] = w[k]
LEMMA SameMore ==
    ASSUME NEW s, NEW w, NEW o \in Nat, SameTo(s, w, o), NEW part, Len(part) \in Nat,
           Sits(s, o, part), Sits(w, o, part)
    PROVE  SameTo(s, w, o + Len(part)) /\ o + Len(part) \in Nat
<1>1. ASSUME NEW k \in 1 .. o + Len(part), ~(k <= o) PROVE s[k] = w[k]
  <2>1. k - o \in 1 .. Len(part) /\ o + (k - o) = k
    BY <1>1
  <2>2. s[o + (k - o)] = part[k - o] /\ w[o + (k - o)] = part[k - o]
    BY <2>1 DEF Sits
  <2> QED
    BY <2>1, <2>2
<1> QED
  BY <1>1 DEF SameTo

\* A transfer: the number is pushed, then both hashes, then comes the call.
CallOf(asset) == TransferCall \o asset \o SysCall
IsTransferScript(s, push, dst, src, asset) ==
    LET at == 1 + Len(push)
    IN  /\ Sits(s, 0, << PUSHNULL >>) /\ Sits(s, 1, push)
        /\ Sits(s, at, PushHash) /\ Sits(s, at + 2, dst)
        /\ Sits(s, at + 2 + UINT160_LEN, PushHash) /\ Sits(s, at + 4 + UINT160_LEN, src)
        /\ Sits(s, at + 4 + 2 * UINT160_LEN, CallOf(asset))
        /\ Len(s) = at + 4 + 2 * UINT160_LEN + Len(CallOf(asset))

\* A push has its opcode.
LEMMA PushBytes ==
    ASSUME NEW push \in Pushes
    PROVE  /\ push \in Seq(Byte) /\ Len(push) \in Nat \ {0} /\ push[1] \in Byte
           /\ \/ push[1] \in PUSH0 .. PUSH16 /\ Len(push) = 1 /\ push = << push[1] >>
              \/ push[1] < Len(IntWidths) /\ Len(push) = 1 + IntWidths[push[1] + 1]
           /\ push[1] < Len(IntWidths) => ~(push[1] \in PUSH0 .. PUSH16)
<1>1. Len(IntWidths) \in Nat /\ Len(IntWidths) <= 11
  <2> DEFINE n == Len(IntWidths)
  <2>1. n \in 1 .. PUSHNULL /\ PUSHNULL = 11
    BY ScriptAssumption, Zenon DEF PUSHNULL
  <2> HIDE DEF n
  <2>2. n \in 1 .. 11
    BY <2>1, Zenon
  <2>3. n \in Nat /\ n <= 11
    BY <2>2
  <2> QED
    BY <2>3 DEF n
<1>2. CASE \E opcode \in PUSH0 .. PUSH16 : push = << opcode >>
  <2>1. PICK opcode \in PUSH0 .. PUSH16 : push = << opcode >>
    BY <1>2
  <2>2. opcode \in 16 .. 32 /\ opcode \in Byte
    BY DEF PUSH0, PUSH16, Byte
  <2>3. push \in Seq(Byte) /\ Len(push) = 1 /\ push[1] = opcode /\ push = << push[1] >>
    <3> DEFINE one == << opcode >>
    <3>1. one \in Seq(Byte) /\ Len(one) = 1 /\ one[1] = opcode
      BY <2>2
    <3> QED
      BY <2>1, <3>1
  <2>4. ~(push[1] < Len(IntWidths))
    BY <1>1, <2>2, <2>3
  <2> QED
    BY <2>1, <2>2, <2>3, <2>4
<1>3. CASE push \in Bytes /\ push # << >> /\ push[1] < Len(IntWidths)
           /\ Len(push) = 1 + IntWidths[push[1] + 1]
  <2>1. push \in Seq(Byte) /\ Len(push) \in Nat \ {0}
    BY <1>3, EmptySeq, LenProperties DEF Bytes
  <2>2. push[1] \in Byte
    BY <2>1
  <2>3. ~(push[1] \in PUSH0 .. PUSH16)
    <3> DEFINE n      == Len(IntWidths)
               opcode == push[1]
    <3>0. n \in Nat /\ n <= 11 /\ opcode \in Byte /\ opcode < n
      BY <1>1, <1>3, <2>2
    <3> HIDE DEF n, opcode
    <3>1. opcode < 16
      BY <3>0 DEF Byte
    <3> USE DEF opcode
    <3> QED
      BY <3>1 DEF PUSH0, PUSH16
  <2> QED
    BY <1>3, <2>1, <2>2, <2>3
<1> QED
  BY <1>2, <1>3 DEF Pushes

\* A pushed hash is a mark and the hash.
LEMMA PushHashSits ==
    ASSUME NEW u \in Seq(Byte), NEW o \in Nat, NEW hash \in Hashes, Sits(u, o, PushHashOf(hash))
    PROVE  Sits(u, o, PushHash) /\ Sits(u, o + 2, hash)
<1>1. hash \in Seq(Byte) /\ PushHash \in Seq(Byte) /\ Len(PushHash) = 2
  BY HashBytes, FixedBytes
<1>2. Sits(u, o, PushHash \o hash)
  BY DEF PushHashOf
<1>3. Sits(u, o, PushHash) /\ Sits(u, o + Len(PushHash), hash)
  BY <1>1, <1>2, SitsSplit
<1> QED
  BY <1>1, <1>3

\* Three parts one behind the other lie there joined.
LEMMA SitsJoinThree ==
    ASSUME NEW S, NEW u \in Seq(S), NEW o \in Nat, NEW a \in Seq(S), NEW b \in Seq(S), NEW c \in Seq(S),
           Sits(u, o, a), Sits(u, o + Len(a), b), Sits(u, o + Len(a) + Len(b), c)
    PROVE  Sits(u, o, a \o b \o c) /\ a \o b \o c \in Seq(S)
           /\ Len(a \o b \o c) = Len(a) + Len(b) + Len(c)
<1> DEFINE ab == a \o b
<1>1. Sits(u, o, ab) /\ ab \in Seq(S) /\ Len(ab) = Len(a) + Len(b)
  BY SitsJoin
<1>2. o + Len(ab) = o + Len(a) + Len(b)
  BY <1>1
<1> HIDE DEF ab
<1>3. Sits(u, o + Len(ab), c)
  BY <1>2
<1>4. Sits(u, o, ab \o c) /\ ab \o c \in Seq(S) /\ Len(ab \o c) = Len(ab) + Len(c)
  <2>1. ab \in Seq(S)
    BY <1>1
  <2>2. Sits(u, o, ab)
    BY <1>1
  <2> QED
    BY <1>3, <2>1, <2>2, SitsJoin
<1> QED
  BY <1>1, <1>4 DEF ab

\* The script of a transfer is one.
LEMMA TransferLaid ==
    ASSUME NEW does \in Transfers
    PROVE  /\ ScriptOf(does) \in Bytes
           /\ IsTransferScript(ScriptOf(does), does.push, does.dst, does.src, AssetOf(does))
           /\ CallOf(AssetOf(does)) \in Seq(Byte)
<1> DEFINE s    == ScriptOf(does)
           push == does.push
           dst  == does.dst
           src  == does.src
           a    == AssetOf(does)
           hd   == PushHashOf(dst)
           hs   == PushHashOf(src)
           call == CallOf(a)
           one  == << PUSHNULL >>
           n    == Len(push)
           U    == UINT160_LEN
<1>1. /\ dst \in Hashes /\ src \in Hashes /\ push \in Seq(Byte)
      /\ IsSeven(Byte, one, push, hd, hs, TransferCall, a, SysCall, s)
  BY TransferParts
<1>2. /\ Len(hd) = 2 + U /\ Len(hs) = 2 + U /\ U \in Nat /\ Len(one) = 1
      /\ a \in Seq(Byte) /\ TransferCall \in Seq(Byte) /\ SysCall \in Seq(Byte) /\ n \in Nat
  <2>1. Len(hd) = 2 + U /\ Len(hs) = 2 + U /\ U \in Nat
    BY <1>1, HashBytes, PushHashBytes
  <2>2. a \in Seq(Byte) /\ TransferCall \in Seq(Byte) /\ SysCall \in Seq(Byte)
    BY FixedBytes DEF AssetOf
  <2>3. n \in Nat
    BY <1>1
  <2> QED
    BY <2>1, <2>2, <2>3
<1>3. Len(TransferCall) \in Nat /\ Len(a) \in Nat /\ Len(SysCall) \in Nat
  BY <1>2
<1> HIDE DEF s, push, dst, src, a, hd, hs, one
<1>4. s \in Seq(Byte) /\ s \in Bytes /\ Sits(s, 0, s)
  BY <1>1 DEF IsSeven, Bytes, Sits
<1>5. PICK o \in Nat : o = 0
  OBVIOUS
<1>6. /\ Len(s) = Len(one) + n + Len(hd) + Len(hs) + Len(TransferCall) + Len(a) + Len(SysCall)
      /\ Sits(s, o, one) /\ Sits(s, o + Len(one), push) /\ Sits(s, o + Len(one) + n, hd)
      /\ Sits(s, o + Len(one) + n + Len(hd), hs)
      /\ Sits(s, o + Len(one) + n + Len(hd) + Len(hs), TransferCall)
      /\ Sits(s, o + Len(one) + n + Len(hd) + Len(hs) + Len(TransferCall), a)
      /\ Sits(s, o + Len(one) + n + Len(hd) + Len(hs) + Len(TransferCall) + Len(a), SysCall)
  <2>1. Sits(s, o, s)
    BY <1>4, <1>5
  <2> QED
    BY <1>1, <1>4, <2>1, Zenon DEF IsSeven, n
<1> HIDE DEF n, U
<1> DEFINE at == 1 + n
           d2 == at + 2
           s1 == at + 2 + U
           s2 == at + 4 + U
           t  == at + 4 + 2 * U
<1>7. /\ o + Len(one) = 1 /\ o + Len(one) + n = at /\ o + Len(one) + n + Len(hd) = s1
      /\ o + Len(one) + n + Len(hd) + Len(hs) = t
      /\ o + Len(one) + n + Len(hd) + Len(hs) + Len(TransferCall) = t + Len(TransferCall)
      /\ o + Len(one) + n + Len(hd) + Len(hs) + Len(TransferCall) + Len(a) = t + Len(TransferCall) + Len(a)
      /\ at \in Nat /\ s1 \in Nat /\ t \in Nat /\ s1 + 2 = s2
      /\ Len(one) + n + Len(hd) + Len(hs) + Len(TransferCall) + Len(a) + Len(SysCall)
            = t + (Len(TransferCall) + Len(a) + Len(SysCall))
  BY <1>2, <1>3, <1>5
<1> HIDE DEF at, d2, s1, s2, t
<1>8. /\ Sits(s, 0, one) /\ Sits(s, 1, push) /\ Sits(s, at, hd) /\ Sits(s, s1, hs)
      /\ Sits(s, t, TransferCall) /\ Sits(s, t + Len(TransferCall), a)
      /\ Sits(s, t + Len(TransferCall) + Len(a), SysCall)
  BY <1>5, <1>6, <1>7
<1>9. Sits(s, at, PushHash) /\ Sits(s, at + 2, dst) /\ Sits(s, s1, PushHash) /\ Sits(s, s1 + 2, src)
  BY <1>1, <1>4, <1>7, <1>8, PushHashSits DEF hd, hs
<1>10. Sits(s, t, call) /\ call \in Seq(Byte) /\ Len(call) = Len(TransferCall) + Len(a) + Len(SysCall)
  <2>1. /\ Sits(s, t, TransferCall \o a \o SysCall) /\ TransferCall \o a \o SysCall \in Seq(Byte)
        /\ Len(TransferCall \o a \o SysCall) = Len(TransferCall) + Len(a) + Len(SysCall)
    BY <1>2, <1>4, <1>7, <1>8, SitsJoinThree
  <2> QED
    BY <2>1 DEF CallOf
<1> HIDE DEF call
<1>11. Len(s) = t + Len(call)
  BY <1>6, <1>7, <1>10
<1>12. IsTransferScript(s, push, dst, src, a)
  BY <1>7, <1>8, <1>9, <1>10, <1>11 DEF IsTransferScript, at, s1, s2, t, n, U, one, call
<1> QED
  BY <1>4, <1>10, <1>12 DEF s, push, dst, src, a, call

\* Only one script is the one of these operands.
LEMMA TransferSame ==
    ASSUME NEW s \in Bytes, NEW w \in Bytes, NEW push \in Pushes, NEW dst \in Hashes, NEW src \in Hashes,
           NEW asset, CallOf(asset) \in Seq(Byte),
           IsTransferScript(s, push, dst, src, asset), IsTransferScript(w, push, dst, src, asset)
    PROVE  s = w
<1> DEFINE at == 1 + Len(push)
           s1 == at + 2 + UINT160_LEN
           t  == at + 4 + 2 * UINT160_LEN
<1>1. /\ Len(push) \in Nat /\ Len(dst) = UINT160_LEN /\ Len(src) = UINT160_LEN /\ UINT160_LEN \in Nat
      /\ Len(PushHash) = 2 /\ Len(PushHash) \in Nat /\ Len(CallOf(asset)) \in Nat
  BY PushBytes, HashBytes, FixedBytes
<1>2. /\ Sits(s, 0, << PUSHNULL >>) /\ Sits(s, 1, push) /\ Sits(s, at, PushHash) /\ Sits(s, at + 2, dst)
      /\ Sits(s, s1, PushHash) /\ Sits(s, s1 + 2, src) /\ Sits(s, t, CallOf(asset))
      /\ Len(s) = t + Len(CallOf(asset))
  <2>1. s1 + 2 = at + 4 + UINT160_LEN
    BY <1>1
  <2> QED
    BY <2>1 DEF IsTransferScript
<1>3. /\ Sits(w, 0, << PUSHNULL >>) /\ Sits(w, 1, push) /\ Sits(w, at, PushHash) /\ Sits(w, at + 2, dst)
      /\ Sits(w, s1, PushHash) /\ Sits(w, s1 + 2, src) /\ Sits(w, t, CallOf(asset))
      /\ Len(w) = t + Len(CallOf(asset))
  <2>1. s1 + 2 = at + 4 + UINT160_LEN
    BY <1>1
  <2> QED
    BY <2>1 DEF IsTransferScript
<1>4. at \in Nat /\ at + 2 \in Nat /\ at + 2 + UINT160_LEN = s1 /\ s1 \in Nat /\ s1 + 2 + UINT160_LEN = t
      /\ s1 + 2 \in Nat /\ t \in Nat
  BY <1>1
<1> HIDE DEF s1, t
<1>5. SameTo(s, w, 1)
  <2> DEFINE one == << PUSHNULL >>
  <2>1. PICK o \in Nat : o = 0
    OBVIOUS
  <2>2. SameTo(s, w, o) /\ Len(one) = 1 /\ Sits(s, o, one) /\ Sits(w, o, one) /\ o + Len(one) = 1
    BY <1>2, <1>3, <2>1 DEF SameTo
  <2> HIDE DEF one
  <2>3. Len(one) \in Nat
    BY <2>2
  <2>4. SameTo(s, w, o + Len(one))
    BY <2>2, <2>3, SameMore
  <2> QED
    BY <2>2, <2>4
<1>6. SameTo(s, w, at)
  <2>1. 1 \in Nat
    OBVIOUS
  <2>2. SameTo(s, w, 1 + Len(push))
    BY <1>1, <1>2, <1>3, <1>5, <2>1, SameMore
  <2> QED
    BY <2>2
<1> HIDE DEF at
<1>7. SameTo(s, w, at + 2)
  <2>1. SameTo(s, w, at + Len(PushHash))
    BY <1>1, <1>2, <1>3, <1>4, <1>6, SameMore
  <2> QED
    BY <1>1, <2>1
<1>8. SameTo(s, w, s1)
  <2>1. SameTo(s, w, at + 2 + Len(dst))
    BY <1>1, <1>2, <1>3, <1>4, <1>7, SameMore
  <2> QED
    BY <1>1, <1>4, <2>1
<1>9. SameTo(s, w, s1 + 2)
  <2>1. SameTo(s, w, s1 + Len(PushHash))
    BY <1>1, <1>2, <1>3, <1>4, <1>8, SameMore
  <2> QED
    BY <1>1, <2>1
<1>10. SameTo(s, w, t)
  <2>1. SameTo(s, w, s1 + 2 + Len(src))
    BY <1>1, <1>2, <1>3, <1>4, <1>9, SameMore
  <2> QED
    BY <1>1, <1>4, <2>1
<1>11. SameTo(s, w, t + Len(CallOf(asset)))
  BY <1>1, <1>2, <1>3, <1>4, <1>10, SameMore
<1> QED
  BY <1>2, <1>3, <1>11, SeqEqual DEF SameTo, Bytes

\* The call to an asset that is one of the two.
LEMMA CallBytes ==
    ASSUME NEW asset \in {NeoHash, GasHash}
    PROVE  /\ CallOf(asset) \in Seq(Byte) /\ TransferCall \o asset \in Seq(Byte) /\ asset \in Seq(Byte)
           /\ CallOf(asset) = (TransferCall \o asset) \o SysCall
           /\ SysCall \in Seq(Byte) /\ TransferCall \in Seq(Byte) /\ Len(asset) = UINT160_LEN
<1>1. asset \in Seq(Byte) /\ TransferCall \in Seq(Byte) /\ SysCall \in Seq(Byte) /\ Len(asset) = UINT160_LEN
  BY FixedBytes
<1>2. TransferCall \o asset \in Seq(Byte)
  BY <1>1, ConcatProperties
<1> DEFINE ta == TransferCall \o asset
<1>3. CallOf(asset) = ta \o SysCall
  BY DEF CallOf
<1> HIDE DEF ta
<1>4. ta \in Seq(Byte)
  BY <1>2 DEF ta
<1>5. ta \o SysCall \in Seq(Byte)
  BY <1>1, <1>4, ConcatProperties
<1> QED
  BY <1>1, <1>3, <1>4, <1>5 DEF ta

\* An operand is read as what is pushed.
LEMMA PushRead ==
    ASSUME NEW s \in Bytes, NEW push \in Pushes, Sits(s, 0, << PUSHNULL >>), Sits(s, 1, push)
    PROVE  /\ HasAmount(s) /\ s[2] = push[1] /\ 1 + AmountLen(s) = Len(push) /\ AmountLen(s) \in Nat
           /\ PushesSmall(s) <=> push[1] \in PUSH0 .. PUSH16
<1>1. /\ push \in Seq(Byte) /\ Len(push) \in Nat \ {0} /\ push[1] \in Byte
      /\ \/ push[1] \in PUSH0 .. PUSH16 /\ Len(push) = 1
         \/ push[1] < Len(IntWidths) /\ Len(push) = 1 + IntWidths[push[1] + 1]
      /\ push[1] < Len(IntWidths) => ~(push[1] \in PUSH0 .. PUSH16)
  BY PushBytes
<1>2. Len(s) \in Nat /\ 1 + Len(push) <= Len(s) /\ s[2] = push[1]
  <2>1. 1 \in 1 .. Len(push) /\ 1 + 1 = 2
    BY <1>1
  <2> QED
    BY <2>1 DEF Sits, Bytes
<1>3. s[1] = PUSHNULL
  <2> DEFINE one == << PUSHNULL >>
  <2>1. 1 \in 1 .. Len(one) /\ one[1] = PUSHNULL /\ 0 + 1 = 1 /\ Sits(s, 0, one)
    OBVIOUS
  <2> HIDE DEF one
  <2>2. s[0 + 1] = one[1]
    BY <2>1 DEF Sits
  <2> QED
    BY <2>1, <2>2
<1>4. PushesSmall(s) <=> push[1] \in PUSH0 .. PUSH16
  BY <1>1, <1>2 DEF PushesSmall
<1>5. CASE push[1] \in PUSH0 .. PUSH16
  BY <1>1, <1>2, <1>3, <1>4, <1>5 DEF HasAmount, AmountLen
<1>6. CASE ~(push[1] \in PUSH0 .. PUSH16)
  <2>1. push[1] < Len(IntWidths) /\ Len(push) = 1 + IntWidths[push[1] + 1]
    BY <1>1, <1>6
  <2> DEFINE width == IntWidths[push[1] + 1]
  <2>2. width \in Nat
    <3> DEFINE n      == Len(IntWidths)
               opcode == push[1]
    <3>1. n \in Nat /\ IntWidths \in Seq(Nat \ {0})
      BY ScriptAssumption
    <3>2. opcode \in Byte /\ opcode < n
      BY <1>1, <2>1
    <3> HIDE DEF n, opcode
    <3>3. opcode + 1 \in 1 .. n
      BY <3>1, <3>2 DEF Byte
    <3> USE DEF n, opcode
    <3> QED
      BY <3>1, <3>3, ElementOfSeq
  <2>3. AmountLen(s) = width
    BY <1>2, <1>4, <1>6 DEF AmountLen
  <2>4. 2 + width <= Len(s) /\ 2 <= Len(s)
    <3>1. Len(push) = 1 + width
      BY <2>1
    <3> HIDE DEF width
    <3> QED
      BY <1>2, <2>2, <3>1
  <2>5. PushesInt(s)
    <3>1. 2 + IntWidths[s[2] + 1] <= Len(s)
      BY <1>2, <2>4
    <3> QED
      BY <1>2, <2>1, <2>4, <3>1 DEF PushesInt, CanReadInt
  <2>6. HasAmount(s)
    BY <1>2, <1>3, <2>4, <2>5 DEF HasAmount
  <2> HIDE DEF width
  <2>7. 1 + width = Len(push)
    BY <2>1 DEF width
  <2> QED
    BY <1>2, <1>4, <2>2, <2>3, <2>6, <2>7
<1> QED
  BY <1>5, <1>6

\* Where the operands of a transfer are.
LEMMA TransferPlaces ==
    ASSUME NEW s, AmountLen(s) \in Nat
    PROVE  LET at == 2 + AmountLen(s)
           IN  /\ DestinationAt(s) = at + 2 /\ DestinationAt(s) - 2 = at /\ at \in Nat
               /\ SourceAt(s) = at + 4 + UINT160_LEN /\ SourceAt(s) - 2 = at + 2 + UINT160_LEN
               /\ TransferAt(s) = at + 4 + 2 * UINT160_LEN
               /\ UINT160_LEN \in Nat
<1>1. UINT160_LEN \in Nat
  BY ScriptAssumption
<1> QED
  BY <1>1 DEF DestinationAt, SourceAt, TransferAt

\* A transfer is recognised, and its operands are found.
LEMMA TransferFound ==
    ASSUME NEW s \in Bytes, NEW push \in Pushes, NEW dst \in Hashes, NEW src \in Hashes,
           NEW asset \in {NeoHash, GasHash}, IsTransferScript(s, push, dst, src, asset)
    PROVE  /\ HasDestination(s) /\ At(s, DestinationAt(s), UINT160_LEN) = dst
           /\ IsTransferOf(s, asset) /\ (TransfersNeo(s) <=> asset = NeoHash)
           /\ At(s, 1, Len(push)) = push
<1> DEFINE at   == 1 + Len(push)
           s1   == at + 2 + UINT160_LEN
           t    == at + 4 + 2 * UINT160_LEN
           ta   == TransferCall \o asset
           call == CallOf(asset)
<1>1. /\ Sits(s, 0, << PUSHNULL >>) /\ Sits(s, 1, push) /\ Sits(s, at, PushHash) /\ Sits(s, at + 2, dst)
      /\ Sits(s, s1, PushHash) /\ Sits(s, at + 4 + UINT160_LEN, src)
      /\ Sits(s, t, call) /\ Len(s) = t + Len(call)
  BY DEF IsTransferScript
<1>2. /\ HasAmount(s) /\ 1 + AmountLen(s) = Len(push) /\ AmountLen(s) \in Nat
  BY <1>1, PushRead
<1>3. 2 + AmountLen(s) = at /\ at \in Nat
  BY <1>2
<1>4. /\ DestinationAt(s) = at + 2 /\ DestinationAt(s) - 2 = at /\ UINT160_LEN \in Nat
      /\ SourceAt(s) = at + 4 + UINT160_LEN /\ SourceAt(s) - 2 = s1 /\ TransferAt(s) = t
  BY <1>2, <1>3, TransferPlaces
<1>5. /\ call \in Seq(Byte) /\ ta \in Seq(Byte) /\ asset \in Seq(Byte) /\ call = ta \o SysCall
      /\ SysCall \in Seq(Byte) /\ TransferCall \in Seq(Byte) /\ Len(asset) = UINT160_LEN
  BY CallBytes
<1>6. /\ dst \in Seq(Byte) /\ Len(dst) = UINT160_LEN /\ src \in Seq(Byte) /\ Len(src) = UINT160_LEN
      /\ PushHash \in Seq(Byte) /\ s \in Seq(Byte)
  BY HashBytes, FixedBytes DEF Bytes
<1>7. s1 \in Nat /\ t \in Nat /\ at + 2 \in Nat /\ at + 4 + UINT160_LEN \in Nat
      /\ s1 + 2 + UINT160_LEN = at + 4 + UINT160_LEN + UINT160_LEN /\ at + 2 + UINT160_LEN = s1
  BY <1>3, <1>4
<1> HIDE DEF at, s1, t, ta, call
<1>8. Has(s, at, PushHash) /\ Has(s, at + 2, dst) /\ Has(s, s1, PushHash) /\ Has(s, at + 4 + UINT160_LEN, src)
      /\ Has(s, t, call)
  BY <1>1, <1>3, <1>5, <1>6, <1>7, HasSits
<1>9. HasHash(s, at) /\ At(s, at + 2, UINT160_LEN) = dst
  BY <1>6, <1>8 DEF HasHash, Has
<1>10. HasHash(s, s1)
  <2>1. s1 + 2 + UINT160_LEN <= Len(s)
    <3>1. at + 4 + UINT160_LEN + UINT160_LEN <= Len(s)
      BY <1>6, <1>8 DEF Has
    <3> QED
      BY <1>7, <3>1
  <2> QED
    BY <1>8, <2>1 DEF HasHash
<1>11. HasDestination(s) /\ HasSource(s)
  BY <1>2, <1>4, <1>9, <1>10 DEF HasDestination, HasSource
<1>12. IsTransferOf(s, asset)
  BY <1>1, <1>4, <1>8, <1>11 DEF IsTransferOf, EndsWith, CallOf, call
<1>13. TransfersNeo(s) <=> asset = NeoHash
  <2>1. Sits(s, t, ta \o SysCall)
    BY <1>1, <1>5
  <2>2. Sits(s, t, ta)
    BY <1>5, <1>6, <1>7, <2>1, SitsSplit
  <2>3. TransfersNeo(s) <=> Has(s, t, TransferCall \o NeoHash)
    BY <1>4, <1>11 DEF TransfersNeo
  <2>4. ASSUME asset = NeoHash PROVE TransfersNeo(s)
    <3>1. Has(s, t, ta)
      BY <1>5, <1>7, <2>2, HasSits
    <3> QED
      BY <2>3, <2>4, <3>1 DEF ta
  <2>5. ASSUME TransfersNeo(s) PROVE asset = NeoHash
    <3> DEFINE tn == TransferCall \o NeoHash
    <3>1. NeoHash \in {NeoHash, GasHash}
      OBVIOUS
    <3>2. tn \in Seq(Byte) /\ NeoHash \in Seq(Byte) /\ Len(NeoHash) = UINT160_LEN
      BY <3>1, CallBytes
    <3>3. Sits(s, t, tn)
      BY <1>7, <2>3, <2>5, <3>2, HasSits
    <3> HIDE DEF tn
    <3> DEFINE e == t + Len(TransferCall)
    <3>4. Sits(s, e, NeoHash)
      BY <1>5, <1>6, <1>7, <3>2, <3>3, SitsSplit DEF tn
    <3>5. Sits(s, e, asset)
      BY <1>5, <1>6, <1>7, <2>2, SitsSplit DEF ta
    <3> HIDE DEF e
    <3>6. \A k \in 1 .. UINT160_LEN : asset[k] = NeoHash[k]
      BY <1>5, <3>2, <3>4, <3>5 DEF Sits
    <3> QED
      BY <1>5, <3>2, <3>6, SeqEqual
  <2> QED
    BY <2>4, <2>5
<1>14. At(s, 1, Len(push)) = push
  <2>1. 1 \in Nat /\ push \in Seq(Byte)
    BY PushBytes
  <2>2. Has(s, 1, push)
    BY <1>1, <2>1, HasSits
  <2> QED
    BY <2>2 DEF Has
<1> QED
  BY <1>4, <1>9, <1>11, <1>12, <1>13, <1>14

\* What is found can be pushed.
LEMMA PushFound ==
    ASSUME NEW s \in Bytes, HasAmount(s)
    PROVE  /\ AmountLen(s) \in Nat /\ 2 + AmountLen(s) <= Len(s)
           /\ At(s, 1, 1 + AmountLen(s)) \in Pushes
           /\ Sits(s, 0, << PUSHNULL >>)
<1>1. Len(s) \in Nat /\ Len(s) >= 2 /\ s[1] = PUSHNULL /\ (PushesSmall(s) \/ PushesInt(s))
  BY DEF HasAmount, PushesSmall, PushesInt, Bytes
<1>2. s[2] \in Byte
  BY <1>1 DEF Bytes
<1>3. Sits(s, 0, << PUSHNULL >>)
  <2> DEFINE one == << PUSHNULL >>
  <2>1. Len(one) = 1 /\ one[1] = PUSHNULL
    OBVIOUS
  <2> HIDE DEF one
  <2>2. Sits(s, 0, one)
    BY <1>1, <2>1 DEF Sits
  <2> QED
    BY <2>2 DEF one
<1> DEFINE m    == AmountLen(s)
           push == At(s, 1, 1 + m)
<1>4. ASSUME m \in Nat, 2 + m <= Len(s)
      PROVE  push \in Seq(Byte) /\ Len(push) = 1 + m /\ push[1] = s[2]
  <2>1. 1 \in Nat /\ 1 + m \in Nat /\ 1 + (1 + m) <= Len(s)
    BY <1>1, <1>4
  <2> HIDE DEF m
  <2>2. push \in Seq(Byte) /\ Len(push) = 1 + m /\ Sits(s, 1, push)
    BY <2>1, AtSits
  <2> HIDE DEF push
  <2>3. 1 \in 1 .. Len(push) /\ 1 + 1 = 2
    BY <1>4, <2>2
  <2> QED
    BY <2>2, <2>3 DEF Sits
<1>5. CASE PushesSmall(s)
  <2>1. m = 0 /\ s[2] \in PUSH0 .. PUSH16
    BY <1>5 DEF AmountLen, PushesSmall
  <2>2. push \in Seq(Byte) /\ Len(push) = 1 /\ push[1] = s[2]
    BY <1>1, <1>4, <2>1
  <2> HIDE DEF push, m
  <2>3. push = << s[2] >>
    BY <2>2
  <2>4. push \in Pushes
    BY <2>1, <2>3 DEF Pushes
  <2> QED
    BY <1>1, <1>3, <2>1, <2>4 DEF push, m
<1>6. CASE ~PushesSmall(s)
  <2>1. s[2] < Len(IntWidths) /\ m = IntWidths[s[2] + 1] /\ 2 + m <= Len(s)
    BY <1>1, <1>6 DEF AmountLen, PushesInt, CanReadInt
  <2>2. m \in Nat \ {0}
    <3> DEFINE n      == Len(IntWidths)
               opcode == s[2]
    <3>1. n \in Nat /\ IntWidths \in Seq(Nat \ {0})
      BY ScriptAssumption
    <3>2. opcode \in Byte /\ opcode < n
      BY <1>2, <2>1
    <3> HIDE DEF n, opcode
    <3>3. opcode + 1 \in 1 .. n
      BY <3>1, <3>2 DEF Byte
    <3> USE DEF n, opcode
    <3> QED
      BY <2>1, <3>1, <3>3, ElementOfSeq
  <2>3. push \in Seq(Byte) /\ Len(push) = 1 + m /\ push[1] = s[2]
    BY <1>4, <2>1, <2>2
  <2> HIDE DEF push
  <2>4. Len(push) = 1 + IntWidths[push[1] + 1] /\ push[1] < Len(IntWidths)
    BY <2>1, <2>3
  <2> HIDE DEF m
  <2>5. push # << >>
    BY <2>2, <2>3
  <2>6. push \in Pushes
    BY <2>3, <2>4, <2>5 DEF Pushes, Bytes
  <2> QED
    BY <1>3, <2>1, <2>2, <2>6 DEF push, m
<1> QED
  BY <1>5, <1>6

\* The parts of a script that may be operands.
Operands(s) == {SubSeq(s, from, to) : from \in 1 .. Len(s) + 1, to \in 0 .. Len(s)}
LEMMA OperandAt ==
    ASSUME NEW s \in Bytes, NEW o \in Nat, NEW n \in Nat, o + n <= Len(s)
    PROVE  At(s, o, n) \in Operands(s)
<1> DEFINE from == o + 1
           to   == o + n
<1>1. from \in 1 .. Len(s) + 1 /\ to \in 0 .. Len(s)
  BY DEF Bytes
<1>2. At(s, o, n) = SubSeq(s, from, to)
  BY DEF At
<1> HIDE DEF from, to
<1> QED
  BY <1>1, <1>2 DEF Operands

\* A pushed hash that is found.
LEMMA HashFound ==
    ASSUME NEW s \in Bytes, NEW o \in Nat, HasHash(s, o)
    PROVE  /\ Sits(s, o, PushHash) /\ o + 2 + UINT160_LEN <= Len(s)
           /\ At(s, o + 2, UINT160_LEN) \in Hashes \cap Operands(s)
           /\ Sits(s, o + 2, At(s, o + 2, UINT160_LEN))
<1>1. UINT160_LEN \in Nat /\ o + 2 \in Nat /\ o + 2 + UINT160_LEN <= Len(s) /\ Has(s, o, PushHash)
  BY ScriptAssumption DEF HasHash
<1>2. Sits(s, o, PushHash)
  BY <1>1, HasSits, FixedBytes
<1>3. At(s, o + 2, UINT160_LEN) \in Hashes
  BY <1>1, AtSits DEF Hashes
<1>4. At(s, o + 2, UINT160_LEN) \in Operands(s)
  BY <1>1, OperandAt
<1>5. Sits(s, o + 2, At(s, o + 2, UINT160_LEN))
  BY <1>1, AtSits
<1> QED
  BY <1>1, <1>2, <1>3, <1>4, <1>5

\* What is recognised as a transfer is the script of one.
LEMMA TransferFinds ==
    ASSUME NEW s \in Bytes, NEW asset \in {NeoHash, GasHash}, IsTransferOf(s, asset)
    PROVE  \E push \in Pushes \cap Operands(s), dst \in Hashes \cap Operands(s), src \in Hashes \cap Operands(s) :
              IsTransferScript(s, push, dst, src, asset)
<1> DEFINE at   == 2 + AmountLen(s)
           s1   == at + 2 + UINT160_LEN
           t    == at + 4 + 2 * UINT160_LEN
           push == At(s, 1, 1 + AmountLen(s))
           dst  == At(s, at + 2, UINT160_LEN)
           src  == At(s, s1 + 2, UINT160_LEN)
           call == CallOf(asset)
<1>1. HasSource(s) /\ EndsWith(s, TransferAt(s), TransferCall \o asset \o SysCall)
  BY DEF IsTransferOf
<1>2. HasAmount(s) /\ HasHash(s, DestinationAt(s) - 2) /\ HasHash(s, SourceAt(s) - 2)
  BY <1>1 DEF HasSource, HasDestination
<1>3. /\ AmountLen(s) \in Nat /\ at <= Len(s) /\ push \in Pushes /\ Sits(s, 0, << PUSHNULL >>)
  BY <1>2, PushFound
<1>4. /\ at \in Nat /\ HasHash(s, at) /\ HasHash(s, s1) /\ EndsWith(s, t, call) /\ UINT160_LEN \in Nat
  <2>1. DestinationAt(s) - 2 = at /\ SourceAt(s) - 2 = s1 /\ TransferAt(s) = t /\ at \in Nat /\ UINT160_LEN \in Nat
    BY <1>3, TransferPlaces
  <2>2. EndsWith(s, TransferAt(s), call)
    BY <1>1, Zenon DEF CallOf
  <2> HIDE DEF at, s1, t, call
  <2> QED
    BY <1>2, <2>1, <2>2
<1>5. 1 + (1 + AmountLen(s)) <= Len(s) /\ 1 + AmountLen(s) \in Nat /\ 1 \in Nat
      /\ 1 + (1 + AmountLen(s)) = at
  BY <1>3
<1>6. Sits(s, 1, push) /\ Len(push) = 1 + AmountLen(s) /\ push \in Operands(s)
  BY <1>5, AtSits, OperandAt
<1>7. s1 \in Nat /\ t \in Nat /\ s1 + 2 = at + 4 + UINT160_LEN
  BY <1>4
<1>8. 1 + Len(push) = at
  BY <1>5, <1>6
<1> HIDE DEF at, push
<1>9. Sits(s, at, PushHash) /\ dst \in Hashes \cap Operands(s) /\ Sits(s, at + 2, dst)
  BY <1>4, HashFound
<1> HIDE DEF s1, dst
<1>10. Sits(s, s1, PushHash) /\ src \in Hashes \cap Operands(s) /\ Sits(s, s1 + 2, src)
  BY <1>4, <1>7, HashFound
<1> HIDE DEF src, call
<1>11. Sits(s, t, call) /\ t + Len(call) = Len(s)
  <2>1. call \in Seq(Byte)
    BY CallBytes DEF call
  <2>2. Has(s, t, call) /\ t + Len(call) = Len(s)
    BY <1>4 DEF EndsWith
  <2> QED
    BY <1>7, <2>1, <2>2, HasSits
<1>12. IsTransferScript(s, push, dst, src, asset)
  BY <1>3, <1>6, <1>7, <1>8, <1>9, <1>10, <1>11 DEF IsTransferScript, s1, t, call
<1> QED
  BY <1>3, <1>6, <1>9, <1>10, <1>12

\* A vote: the public key, or none of it, then the voter, then comes the call.
VoteEnd     == VoteCall \o NeoHash \o SysCall
VoteKeys    == {<< >>} \cup {key \in Points : key[1] \in {2, 3}}
KeyLen(key) == IF key = << >> THEN 1 ELSE 2 + ECPOINT_LEN
IsKeyAt(s, key) ==
    /\ key = << >> => Sits(s, 0, << PUSHNULL >>)
    /\ key # << >> => Sits(s, 0, PushKey) /\ Sits(s, 2, key)
IsVoteScript(s, key, voter) ==
    LET at == KeyLen(key)
    IN  /\ IsKeyAt(s, key)
        /\ Sits(s, at, PushHash) /\ Sits(s, at + 2, voter)
        /\ Sits(s, at + 2 + UINT160_LEN, VoteEnd)
        /\ Len(s) = at + 2 + UINT160_LEN + Len(VoteEnd)

\* A key is as long as keys are.
LEMMA KeyBytes ==
    ASSUME NEW key \in VoteKeys
    PROVE  /\ key \in Seq(Byte) /\ Len(key) \in Nat /\ ECPOINT_LEN \in Nat \ {0}
           /\ key # << >> => key \in Points /\ Len(key) = ECPOINT_LEN /\ key[1] \in {2, 3}
           /\ KeyLen(key) \in Nat \ {0}
<1>1. ECPOINT_LEN \in Nat \ {0}
  BY ScriptAssumption
<1>2. CASE key = << >>
  BY <1>1, <1>2 DEF KeyLen
<1>3. CASE key # << >>
  <2>1. key \in Points /\ key[1] \in {2, 3}
    BY <1>3 DEF VoteKeys
  <2>2. key \in Seq(Byte) /\ Len(key) = ECPOINT_LEN
    BY <1>1, <2>1 DEF Points
  <2> QED
    BY <1>1, <1>3, <2>1, <2>2 DEF KeyLen
<1> QED
  BY <1>2, <1>3

\* The call of a vote.
LEMMA VoteEndBytes ==
    /\ VoteEnd \in Seq(Byte) /\ Len(VoteEnd) \in Nat /\ Len(VoteEnd) = Len(VoteCall) + Len(NeoHash) + Len(SysCall)
<1> DEFINE vn == VoteCall \o NeoHash
<1>1. VoteCall \in Seq(Byte) /\ NeoHash \in Seq(Byte) /\ SysCall \in Seq(Byte)
  BY FixedBytes
<1>2. vn \in Seq(Byte) /\ Len(vn) = Len(VoteCall) + Len(NeoHash)
  BY <1>1, ConcatProperties
<1> HIDE DEF vn
<1>3. vn \o SysCall \in Seq(Byte) /\ Len(vn \o SysCall) = Len(vn) + Len(SysCall)
  BY <1>1, <1>2, ConcatProperties
<1> DEFINE e == vn \o SysCall
<1> HIDE DEF e
<1>4. e \in Seq(Byte) /\ Len(e) = Len(VoteCall) + Len(NeoHash) + Len(SysCall) /\ Len(e) \in Nat
  BY <1>2, <1>3 DEF e
<1> QED
  BY <1>4 DEF VoteEnd, e, vn

\* The script of a vote is one.
LEMMA VoteLaid ==
    ASSUME NEW does \in Votes
    PROVE  /\ ScriptOf(does) \in Bytes /\ does.key \in VoteKeys
           /\ IsVoteScript(ScriptOf(does), does.key, does.voter)
<1> DEFINE s     == ScriptOf(does)
           key   == does.key
           voter == does.voter
           kd    == KeyOf(does)
           hd    == PushHashOf(voter)
           U     == UINT160_LEN
           at    == KeyLen(key)
<1>1. voter \in Hashes /\ kd \in Seq(Byte) /\ IsFive(Byte, kd, hd, VoteCall, NeoHash, SysCall, s)
  BY VoteParts
<1>2. key \in VoteKeys
  BY DEF Votes, VoteKeys
<1>3. /\ key \in Seq(Byte) /\ Len(key) \in Nat /\ ECPOINT_LEN \in Nat
      /\ key # << >> => Len(key) = ECPOINT_LEN
      /\ at \in Nat
  BY <1>2, KeyBytes
<1>4. /\ Len(hd) = 2 + U /\ U \in Nat
      /\ VoteCall \in Seq(Byte) /\ NeoHash \in Seq(Byte) /\ SysCall \in Seq(Byte)
      /\ PushKey \in Seq(Byte) /\ Len(PushKey) = 2
  BY <1>1, HashBytes, PushHashBytes, FixedBytes
<1>5. (key = << >> => kd = << PUSHNULL >>) /\ (key # << >> => kd = PushKey \o key)
  BY DEF KeyOf
<1>6. Len(kd) = at
  <2>1. CASE key = << >>
    BY <1>5, <2>1 DEF KeyLen
  <2>2. CASE key # << >>
    <3>1. Len(PushKey \o key) = Len(PushKey) + Len(key)
      BY <1>3, <1>4, ConcatProperties
    <3> QED
      BY <1>3, <1>4, <1>5, <2>2, <3>1 DEF KeyLen
  <2> QED
    BY <2>1, <2>2
<1> HIDE DEF s, key, voter, kd, hd, at
<1>7. s \in Seq(Byte) /\ s \in Bytes /\ Sits(s, 0, s)
  BY <1>1 DEF IsFive, Bytes, Sits
<1>8. PICK o \in Nat : o = 0
  OBVIOUS
<1>9. /\ Len(s) = Len(kd) + Len(hd) + Len(VoteCall) + Len(NeoHash) + Len(SysCall)
      /\ Sits(s, o, kd) /\ Sits(s, o + Len(kd), hd) /\ Sits(s, o + Len(kd) + Len(hd), VoteCall)
      /\ Sits(s, o + Len(kd) + Len(hd) + Len(VoteCall), NeoHash)
      /\ Sits(s, o + Len(kd) + Len(hd) + Len(VoteCall) + Len(NeoHash), SysCall)
  <2>1. Sits(s, o, s)
    BY <1>7, <1>8
  <2> QED
    BY <1>1, <1>7, <2>1, Zenon DEF IsFive
<1> DEFINE t == at + 2 + U
<1> HIDE DEF U
<1>10. Len(VoteCall) \in Nat /\ Len(NeoHash) \in Nat /\ Len(SysCall) \in Nat
  BY <1>4
<1>11. /\ o + Len(kd) = at /\ o + Len(kd) + Len(hd) = t /\ t \in Nat
       /\ o + Len(kd) + Len(hd) + Len(VoteCall) = t + Len(VoteCall)
       /\ o + Len(kd) + Len(hd) + Len(VoteCall) + Len(NeoHash) = t + Len(VoteCall) + Len(NeoHash)
       /\ Len(kd) + Len(hd) + Len(VoteCall) + Len(NeoHash) + Len(SysCall)
             = t + (Len(VoteCall) + Len(NeoHash) + Len(SysCall))
  BY <1>3, <1>4, <1>6, <1>8, <1>10
<1> HIDE DEF t
<1>12. /\ Sits(s, 0, kd) /\ Sits(s, at, hd) /\ Sits(s, t, VoteCall)
       /\ Sits(s, t + Len(VoteCall), NeoHash) /\ Sits(s, t + Len(VoteCall) + Len(NeoHash), SysCall)
  BY <1>8, <1>9, <1>11
<1>13. Sits(s, at, PushHash) /\ Sits(s, at + 2, voter)
  BY <1>1, <1>3, <1>7, <1>12, PushHashSits DEF hd
<1>14. Sits(s, t, VoteEnd)
  <2>1. Sits(s, t, VoteCall \o NeoHash \o SysCall)
    BY <1>4, <1>7, <1>11, <1>12, SitsJoinThree
  <2> QED
    BY <2>1 DEF VoteEnd
<1>15. Len(s) = t + Len(VoteEnd)
  BY <1>9, <1>11, VoteEndBytes
<1>16. IsKeyAt(s, key)
  <2>1. ASSUME key # << >> PROVE Sits(s, 0, PushKey) /\ Sits(s, 2, key)
    <3>1. Sits(s, o, PushKey \o key)
      BY <1>5, <1>8, <1>12, <2>1
    <3>2. Sits(s, o, PushKey) /\ Sits(s, o + Len(PushKey), key)
      BY <1>3, <1>4, <1>7, <3>1, SitsSplit
    <3>3. o + Len(PushKey) = 2
      BY <1>4, <1>8
    <3> QED
      BY <1>8, <3>2, <3>3
  <2> QED
    BY <1>5, <1>12, <2>1 DEF IsKeyAt
<1>17. IsVoteScript(s, key, voter)
  BY <1>13, <1>14, <1>15, <1>16 DEF IsVoteScript, at, t, U
<1> QED
  BY <1>2, <1>7, <1>17 DEF s, key, voter

\* Only one script is the one of this key and this voter.
LEMMA VoteSame ==
    ASSUME NEW s \in Bytes, NEW w \in Bytes, NEW key \in VoteKeys, NEW voter \in Hashes,
           IsVoteScript(s, key, voter), IsVoteScript(w, key, voter)
    PROVE  s = w
<1> DEFINE at == KeyLen(key)
           t  == at + 2 + UINT160_LEN
           one == << PUSHNULL >>
<1>1. /\ Len(voter) = UINT160_LEN /\ UINT160_LEN \in Nat /\ Len(PushHash) = 2 /\ Len(PushKey) = 2
      /\ Len(VoteEnd) \in Nat /\ Len(one) = 1 /\ Len(PushHash) \in Nat
  BY HashBytes, FixedBytes, VoteEndBytes
<1>2. /\ at \in Nat /\ Len(key) \in Nat
      /\ key = << >> => at = 1
      /\ key # << >> => at = 2 + Len(key)
  BY KeyBytes DEF KeyLen
<1>3. /\ IsKeyAt(s, key) /\ Sits(s, at, PushHash) /\ Sits(s, at + 2, voter) /\ Sits(s, t, VoteEnd)
      /\ Len(s) = t + Len(VoteEnd)
  BY DEF IsVoteScript
<1>4. /\ IsKeyAt(w, key) /\ Sits(w, at, PushHash) /\ Sits(w, at + 2, voter) /\ Sits(w, t, VoteEnd)
      /\ Len(w) = t + Len(VoteEnd)
  BY DEF IsVoteScript
<1> HIDE DEF at
<1>5. t \in Nat /\ at + 2 \in Nat /\ at + 2 + UINT160_LEN = t
  BY <1>1, <1>2
<1> HIDE DEF t, one
<1>6. PICK o \in Nat : o = 0
  OBVIOUS
<1>7. SameTo(s, w, o)
  BY <1>6 DEF SameTo
<1>8. SameTo(s, w, at)
  <2>1. CASE key = << >>
    <3>1. Sits(s, o, one) /\ Sits(w, o, one)
      BY <1>3, <1>4, <1>6, <2>1 DEF IsKeyAt, one
    <3>2. Len(one) \in Nat
      BY <1>1
    <3>3. SameTo(s, w, o + Len(one))
      BY <1>7, <3>1, <3>2, SameMore
    <3> QED
      BY <1>1, <1>2, <1>6, <2>1, <3>3
  <2>2. CASE key # << >>
    <3>1. Sits(s, o, PushKey) /\ Sits(w, o, PushKey)
      BY <1>3, <1>4, <1>6, <2>2 DEF IsKeyAt
    <3>2. Len(PushKey) \in Nat
      BY <1>1
    <3>3. SameTo(s, w, o + Len(PushKey))
      BY <1>7, <3>1, <3>2, SameMore
    <3>4. PICK two \in Nat : two = 2 /\ o + Len(PushKey) = two
      BY <1>1, <1>6
    <3>5. SameTo(s, w, two) /\ Sits(s, two, key) /\ Sits(w, two, key)
      BY <1>3, <1>4, <2>2, <3>3, <3>4 DEF IsKeyAt
    <3>6. SameTo(s, w, two + Len(key))
      BY <1>2, <3>5, SameMore
    <3> QED
      BY <1>2, <2>2, <3>4, <3>6
  <2> QED
    BY <2>1, <2>2
<1>9. SameTo(s, w, at + 2)
  <2>1. SameTo(s, w, at + Len(PushHash))
    BY <1>1, <1>2, <1>3, <1>4, <1>8, SameMore
  <2> QED
    BY <1>1, <2>1
<1>10. SameTo(s, w, t)
  <2>1. SameTo(s, w, at + 2 + Len(voter))
    BY <1>1, <1>3, <1>4, <1>5, <1>9, SameMore
  <2> QED
    BY <1>1, <1>5, <2>1
<1>11. SameTo(s, w, t + Len(VoteEnd))
  BY <1>1, <1>3, <1>4, <1>5, <1>10, SameMore
<1> QED
  BY <1>3, <1>4, <1>11, SeqEqual DEF SameTo, Bytes

\* Where the voter is, once the key was found.
LEMMA VotePlaces ==
    ASSUME NEW s, NEW key \in VoteKeys, Retracts(s) <=> key = << >>
    PROVE  VoterAt(s) - 2 = KeyLen(key) /\ VoterAt(s) = KeyLen(key) + 2
<1>1. ECPOINT_LEN \in Nat
  BY ScriptAssumption
<1> QED
  BY <1>1 DEF VoterAt, KeyLen

\* The first bytes of a vote, which no transfer has.
LEMMA VoteBegins ==
    ASSUME NEW s \in Bytes, NEW key \in VoteKeys, IsKeyAt(s, key), Sits(s, KeyLen(key), PushHash)
    PROVE  /\ Retracts(s) <=> key = << >>
           /\ HasKey(s) <=> key # << >>
           /\ ~HasAmount(s)
<1>1. /\ key \in Seq(Byte) /\ ECPOINT_LEN \in Nat \ {0}
      /\ key # << >> => Len(key) = ECPOINT_LEN /\ key[1] \in {2, 3}
  BY KeyBytes
<1>2. Len(PushHash) = 2 /\ PushHash[1] = 12 /\ Len(PushKey) = 2 /\ PushKey[1] = 12 /\ PushKey \in Seq(Byte)
  BY FixedBytes DEF PushHash, PushKey, PUSHDATA1
<1>3. s \in Seq(Byte) /\ Len(s) \in Nat /\ 1 \in 1 .. 2
  BY DEF Bytes
<1>4. HasKey(s) <=> Sits(s, 0, PushKey) /\ 2 + ECPOINT_LEN <= Len(s) /\ s[3] \in {2, 3}
  <2>1. PICK o \in Nat : o = 0
    OBVIOUS
  <2>2. Has(s, o, PushKey) <=> Sits(s, o, PushKey)
    BY <1>2, HasSits
  <2> QED
    BY <2>1, <2>2 DEF HasKey
<1>5. CASE key = << >>
  <2> DEFINE one == << PUSHNULL >>
  <2>1. Sits(s, 0, one) /\ Len(one) = 1 /\ one[1] = 11 /\ 0 + 1 = 1 /\ 1 \in 1 .. Len(one)
    BY <1>5 DEF IsKeyAt, PUSHNULL
  <2> HIDE DEF one
  <2>2. s[0 + 1] = one[1] /\ 0 + Len(one) <= Len(s)
    BY <2>1 DEF Sits
  <2>3. s[1] = 11 /\ 1 <= Len(s)
    BY <2>1, <2>2
  <2>4. KeyLen(key) = 1 /\ 1 + 1 = 2
    BY <1>5 DEF KeyLen
  <2>5. s[1 + 1] = PushHash[1]
    BY <1>2, <1>3, <2>4 DEF Sits
  <2>6. s[2] = 12
    BY <1>2, <2>4, <2>5
  <2>7. ~Sits(s, 0, PushKey)
    <3>1. SUFFICES ASSUME Sits(s, 0, PushKey) PROVE FALSE
      OBVIOUS
    <3>2. s[0 + 1] = PushKey[1]
      BY <1>2, <1>3, <3>1 DEF Sits
    <3> QED
      BY <1>2, <2>1, <2>3, <3>2
  <2>8. ~HasAmount(s)
    <3> DEFINE n      == Len(IntWidths)
               opcode == s[2]
    <3>1. n \in 1 .. PUSHNULL
      BY ScriptAssumption
    <3>2. opcode = 12
      BY <2>6
    <3> HIDE DEF n, opcode
    <3>3. ~(opcode \in 16 .. 32) /\ ~(opcode < n)
      BY <3>1, <3>2 DEF PUSHNULL
    <3>4. ~PushesSmall(s) /\ ~PushesInt(s)
      BY <3>3 DEF PushesSmall, PushesInt, PUSH0, PUSH16, n, opcode
    <3> QED
      BY <3>4 DEF HasAmount
  <2> QED
    BY <1>4, <1>5, <2>3, <2>7, <2>8 DEF Retracts, PUSHNULL
<1>6. CASE key # << >>
  <2>1. Sits(s, 0, PushKey) /\ Sits(s, 2, key)
    BY <1>6 DEF IsKeyAt
  <2>2. s[0 + 1] = PushKey[1] /\ 0 + 1 = 1
    BY <1>2, <1>3, <2>1 DEF Sits
  <2>3. s[1] = 12
    BY <1>2, <2>2
  <2>4. 2 + ECPOINT_LEN <= Len(s) /\ s[2 + 1] = key[1] /\ 2 + 1 = 3
    <3>1. 1 \in 1 .. Len(key)
      BY <1>1, <1>6
    <3> QED
      BY <1>1, <1>6, <2>1, <3>1 DEF Sits
  <2>5. HasKey(s)
    BY <1>1, <1>4, <1>6, <2>1, <2>4
  <2> QED
    BY <1>6, <2>3, <2>5 DEF Retracts, HasAmount, PUSHNULL
<1> QED
  BY <1>5, <1>6

\* A vote is recognised, and it is not a transfer.
LEMMA VoteFound ==
    ASSUME NEW s \in Bytes, NEW key \in VoteKeys, NEW voter \in Hashes, IsVoteScript(s, key, voter)
    PROVE  /\ IsVote(s) /\ ~HasAmount(s)
           /\ Retracts(s) <=> key = << >>
           /\ HasKey(s) <=> key # << >>
<1> DEFINE at == KeyLen(key)
           t  == at + 2 + UINT160_LEN
<1>1. /\ IsKeyAt(s, key) /\ Sits(s, at, PushHash) /\ Sits(s, at + 2, voter) /\ Sits(s, t, VoteEnd)
      /\ Len(s) = t + Len(VoteEnd)
  BY DEF IsVoteScript
<1>2. (Retracts(s) <=> key = << >>) /\ (HasKey(s) <=> key # << >>) /\ ~HasAmount(s)
  BY <1>1, VoteBegins
<1>3. VoterAt(s) - 2 = at /\ VoterAt(s) = at + 2
  BY <1>2, VotePlaces
<1>4. /\ at \in Nat /\ UINT160_LEN \in Nat /\ Len(voter) = UINT160_LEN
      /\ PushHash \in Seq(Byte) /\ VoteEnd \in Seq(Byte)
  BY KeyBytes, HashBytes, FixedBytes, VoteEndBytes
<1> HIDE DEF at
<1>5. t \in Nat
  BY <1>4
<1>6. HasHash(s, at)
  <2>1. Has(s, at, PushHash)
    BY <1>1, <1>4, HasSits
  <2>2. at + 2 + UINT160_LEN <= Len(s)
    BY <1>1, <1>4 DEF Sits
  <2> QED
    BY <2>1, <2>2 DEF HasHash
<1>7. VoterAt(s) + UINT160_LEN = t
  BY <1>3
<1> HIDE DEF t
<1>8. EndsWith(s, t, VoteEnd)
  <2>1. Has(s, t, VoteEnd)
    BY <1>1, <1>4, <1>5, HasSits
  <2> QED
    BY <1>1, <2>1 DEF EndsWith
<1>9. IsVote(s)
  BY <1>2, <1>3, <1>6, <1>7, <1>8 DEF IsVote, VoteEnd
<1> QED
  BY <1>2, <1>9

\* What is recognised as a vote is the script of one.
LEMMA VoteFinds ==
    ASSUME NEW s \in Bytes, IsVote(s)
    PROVE  \E key \in VoteKeys \cap Operands(s), voter \in Hashes \cap Operands(s) : IsVoteScript(s, key, voter)
<1>1. ECPOINT_LEN \in Nat \ {0} /\ UINT160_LEN \in Nat /\ Len(s) \in Nat /\ s \in Seq(Byte)
  BY ScriptAssumption DEF Bytes
<1>2. PICK o \in Nat : o = 0
  OBVIOUS
<1>3. PICK key \in VoteKeys \cap Operands(s) : IsKeyAt(s, key) /\ (Retracts(s) <=> key = << >>)
  <2>1. CASE Retracts(s)
    <3> DEFINE key == << >>
               one == << PUSHNULL >>
    <3>1. Len(s) >= 1 /\ s[1] = PUSHNULL
      BY <2>1 DEF Retracts
    <3>2. Sits(s, 0, one)
      <4>1. Len(one) = 1 /\ one[1] = PUSHNULL
        OBVIOUS
      <4> HIDE DEF one
      <4> QED
        BY <3>1, <4>1 DEF Sits
    <3>3. key \in Operands(s)
      <4>1. At(s, o, o) \in Operands(s)
        BY <1>1, <1>2, OperandAt
      <4>2. At(s, o, o) = key
        <5>1. At(s, o, o) \in Seq(Byte) /\ Len(At(s, o, o)) = 0
          BY <1>1, <1>2, AtSits
        <5> QED
          BY <5>1
      <4> QED
        BY <4>1, <4>2
    <3> QED
      BY <2>1, <3>2, <3>3 DEF VoteKeys, IsKeyAt
  <2>2. CASE ~Retracts(s)
    <3> DEFINE key == At(s, 2, ECPOINT_LEN)
    <3>1. HasKey(s)
      BY <2>2 DEF IsVote
    <3>2. Has(s, o, PushKey) /\ 2 + ECPOINT_LEN <= Len(s) /\ s[3] \in {2, 3}
      BY <1>2, <3>1 DEF HasKey
    <3>3. Sits(s, 0, PushKey)
      BY <1>2, <3>2, FixedBytes, HasSits
    <3>4. 2 \in Nat /\ ECPOINT_LEN \in Nat
      BY <1>1
    <3>5. /\ key \in Seq(Byte) /\ key \in Points /\ Len(key) = ECPOINT_LEN /\ Sits(s, 2, key)
          /\ key \in Operands(s)
      BY <3>2, <3>4, AtSits, OperandAt DEF Points
    <3> HIDE DEF key
    <3>6. key[1] = s[3] /\ key # << >>
      <4>1. 1 \in 1 .. Len(key) /\ 2 + 1 = 3
        BY <1>1, <3>5
      <4>2. s[2 + 1] = key[1]
        BY <3>5, <4>1 DEF Sits
      <4> QED
        BY <3>5, <4>1, <4>2
    <3> QED
      BY <2>2, <3>2, <3>3, <3>5, <3>6 DEF VoteKeys, IsKeyAt
  <2> QED
    BY <2>1, <2>2
<1> DEFINE at    == KeyLen(key)
           t     == at + 2 + UINT160_LEN
           voter == At(s, at + 2, UINT160_LEN)
<1>4. at \in Nat
  BY <1>3, KeyBytes
<1>5. VoterAt(s) - 2 = at /\ VoterAt(s) = at + 2
  BY <1>3, VotePlaces
<1>6. HasHash(s, at) /\ EndsWith(s, t, VoteEnd)
  BY <1>5, Zenon DEF IsVote, VoteEnd
<1> HIDE DEF at
<1>7. t \in Nat
  BY <1>1, <1>4
<1>8. Sits(s, at, PushHash) /\ voter \in Hashes \cap Operands(s) /\ Sits(s, at + 2, voter)
  BY <1>4, <1>6, HashFound
<1> HIDE DEF t, voter
<1>9. Sits(s, t, VoteEnd) /\ t + Len(VoteEnd) = Len(s)
  BY <1>6, <1>7, VoteEndBytes, HasSits DEF EndsWith
<1>10. IsVoteScript(s, key, voter)
  BY <1>3, <1>8, <1>9 DEF IsVoteScript, at, t
<1> QED
  BY <1>3, <1>8, <1>10

---------------------------------------------------------------------------
(* What the matchers say of the script of a content.                       *)

\* A script that does something else is neither a transfer nor a vote.
LEMMA OtherNotMatched ==
    ASSUME NEW does, IsOther(does)
    PROVE  /\ ~IsTransferOf(does.code, NeoHash) /\ ~IsTransferOf(does.code, GasHash) /\ ~IsVote(does.code)
           /\ ScriptOf(does) = does.code
<1> DEFINE s == does.code
<1>1. does.kind = "other" /\ s \in Bytes /\ \A d \in FoundIn(s) : ScriptOf(d) # s
  BY DEF IsOther
<1>2. ScriptOf(does) = s
  BY <1>1 DEF ScriptOf
<1> HIDE DEF s
<1>3. ASSUME NEW name \in {"NEO", "GAS"}, IsTransferOf(s, IF name = "NEO" THEN NeoHash ELSE GasHash)
      PROVE  FALSE
  <2> DEFINE asset == IF name = "NEO" THEN NeoHash ELSE GasHash
  <2>1. asset \in {NeoHash, GasHash} /\ IsTransferOf(s, asset)
    BY <1>3
  <2> HIDE DEF asset
  <2>2. PICK push \in Pushes \cap Operands(s), dst \in Hashes \cap Operands(s), src \in Hashes \cap Operands(s) :
             IsTransferScript(s, push, dst, src, asset)
    BY <1>1, <2>1, TransferFinds
  <2> DEFINE d == [kind |-> "transfer", push |-> push, dst |-> dst, src |-> src, asset |-> name]
  <2>3. d \in Transfers
    BY <1>3, <2>2 DEF Transfers
  <2>4. d \in FoundIn(s)
    BY <1>3, <2>2 DEF FoundIn, Operands
  <2>5. AssetOf(d) = asset
    BY DEF AssetOf, asset
  <2>6. d.push = push /\ d.dst = dst /\ d.src = src
    OBVIOUS
  <2> HIDE DEF d
  <2>7. /\ ScriptOf(d) \in Bytes /\ CallOf(asset) \in Seq(Byte)
        /\ IsTransferScript(ScriptOf(d), push, dst, src, asset)
    BY <2>3, <2>5, <2>6, TransferLaid
  <2>8. ScriptOf(d) = s
    BY <1>1, <2>2, <2>7, TransferSame
  <2> QED
    BY <1>1, <2>4, <2>8
<1>4. ASSUME IsVote(s) PROVE FALSE
  <2>1. PICK key \in VoteKeys \cap Operands(s), voter \in Hashes \cap Operands(s) : IsVoteScript(s, key, voter)
    BY <1>1, <1>4, VoteFinds
  <2> DEFINE d == [kind |-> "vote", key |-> key, voter |-> voter]
  <2>2. d \in Votes
    BY <2>1 DEF Votes, VoteKeys
  <2>3. d \in FoundIn(s)
    BY <2>1, <2>2 DEF FoundIn, Operands
  <2>4. d.key = key /\ d.voter = voter
    OBVIOUS
  <2> HIDE DEF d
  <2>5. ScriptOf(d) \in Bytes /\ IsVoteScript(ScriptOf(d), key, voter)
    BY <2>2, <2>4, VoteLaid
  <2>6. ScriptOf(d) = s
    BY <1>1, <2>1, <2>5, VoteSame
  <2> QED
    BY <1>1, <2>3, <2>6
<1>5. ~IsTransferOf(s, NeoHash) /\ ~IsTransferOf(s, GasHash)
  <2>1. "NEO" \in {"NEO", "GAS"} /\ "GAS" \in {"NEO", "GAS"} /\ "GAS" # "NEO"
    OBVIOUS
  <2> QED
    BY <1>3, <2>1
<1> QED
  BY <1>2, <1>4, <1>5 DEF s

\* The amount is what is pushed, but for the numbers below zero of one byte.
IsAmount(push) == push[1] = 0 => ~IsNegative(Tail(push))
LEMMA AmountRead ==
    ASSUME NEW s \in Bytes, NEW push \in Pushes, Sits(s, 0, << PUSHNULL >>), Sits(s, 1, push), IsAmount(push)
    PROVE  Amount(s) = Pushed(push)
<1>1. /\ s[2] = push[1] /\ 1 + AmountLen(s) = Len(push) /\ AmountLen(s) \in Nat
      /\ PushesSmall(s) <=> push[1] \in PUSH0 .. PUSH16
  BY PushRead
<1>2. /\ push \in Seq(Byte) /\ Len(push) \in Nat \ {0} /\ push[1] \in Byte
      /\ push[1] \in PUSH0 .. PUSH16 \/ push[1] < Len(IntWidths)
      /\ push[1] < Len(IntWidths) => ~(push[1] \in PUSH0 .. PUSH16)
  BY PushBytes
<1>3. push[1] >= PUSH0 <=> push[1] \in PUSH0 .. PUSH16
  <2> DEFINE n      == Len(IntWidths)
             opcode == push[1]
  <2>1. n \in 1 .. PUSHNULL
    BY ScriptAssumption
  <2>2. opcode \in Byte /\ (opcode \in PUSH0 .. PUSH16 \/ opcode < n)
    BY <1>2
  <2> HIDE DEF n, opcode
  <2>3. opcode >= PUSH0 <=> opcode \in PUSH0 .. PUSH16
    BY <2>1, <2>2 DEF PUSHNULL, PUSH0, PUSH16, Byte
  <2> QED
    BY <2>3 DEF opcode
<1>4. CASE push[1] \in PUSH0 .. PUSH16
  BY <1>1, <1>3, <1>4 DEF Amount, Pushed
<1>5. CASE ~(push[1] \in PUSH0 .. PUSH16)
  <2> DEFINE m == AmountLen(s)
             b == At(s, 2, m)
  <2>1. /\ m \in Nat /\ 1 + m = Len(push) /\ 2 + m <= Len(s)
        /\ \A k \in 1 .. Len(push) : s[1 + k] = push[k]
    <3>1. 1 + Len(push) <= Len(s) /\ \A k \in 1 .. Len(push) : s[1 + k] = push[k]
      BY DEF Sits
    <3>2. m \in Nat /\ 1 + m = Len(push)
      BY <1>1
    <3> HIDE DEF m
    <3>3. 2 + m <= Len(s)
      BY <1>2, <3>1, <3>2 DEF Bytes
    <3> QED
      BY <3>1, <3>2, <3>3
  <2> HIDE DEF m
  <2>2. b \in Seq(Byte) /\ Len(b) = m /\ Sits(s, 2, b)
    <3>1. 2 \in Nat
      OBVIOUS
    <3> QED
      BY <2>1, <3>1, AtSits
  <2> HIDE DEF b
  <2>3. Tail(push) = b
    <3>1. /\ Tail(push) \in Seq(Byte) /\ Len(Tail(push)) = m
          /\ \A k \in 1 .. m : Tail(push)[k] = push[k + 1]
      BY <1>2, <2>1
    <3>2. ASSUME NEW k \in 1 .. m PROVE Tail(push)[k] = b[k]
      <4>1. k + 1 \in 1 .. Len(push) /\ 1 + (k + 1) = 2 + k /\ k \in 1 .. Len(b)
        BY <2>1, <2>2
      <4> QED
        BY <2>1, <2>2, <3>1, <4>1 DEF Sits
    <3> QED
      BY <2>2, <3>1, <3>2, SeqEqual
  <2>4. ~PushesSmall(s) /\ ~(push[1] >= PUSH0)
    BY <1>1, <1>3, <1>5
  <2>5. Pushed(push) = SignExtended(b)
    BY <2>3, <2>4 DEF Pushed
  <2>6. Amount(s) = IF push[1] = 0 THEN ZeroExtended(b) ELSE SignExtended(b)
    BY <1>1, <2>4 DEF Amount, b, m
  <2>7. push[1] = 0 => ZeroExtended(b) = SignExtended(b)
    BY <2>3 DEF IsAmount, ZeroExtended, SignExtended
  <2> QED
    BY <2>5, <2>6, <2>7
<1> QED
  BY <1>4, <1>5

\* What the matchers find in the script of a content, if nothing was found before.
IsMatched(m, does) ==
    /\ m.is_system_asset_transfer = (does.kind = "transfer")
    /\ m.is_vote_script = (does.kind = "vote")
    /\ does.kind = "transfer" =>
          /\ m.is_neo = (does.asset = "NEO") /\ m.dst = does.dst
          /\ IsAmount(does.push) => m.amount = Pushed(does.push)
    /\ does.kind = "vote" => m.is_remove_vote = (does.key = << >>)

LEMMA MatchedContent ==
    ASSUME NEW does, does \in Transfers \cup Votes \/ IsOther(does)
    PROVE  IsMatched(MatchScript(ScriptOf(does), EmptyTx), does)
<1> DEFINE s == ScriptOf(does)
           u == MatchTransfer(s, EmptyTx)
           v == MatchVote(s, u)
           m == MatchScript(s, EmptyTx)
<1>1. TxFields \subseteq DOMAIN EmptyTx
  BY EmptyIsTx DEF IsTx
<1>2. /\ EmptyTx.is_system_asset_transfer = FALSE /\ EmptyTx.is_vote_script = FALSE
      /\ EmptyTx.is_neo = FALSE /\ EmptyTx.is_remove_vote = FALSE
  BY DEF EmptyTx
<1>3. /\ u.amount = IF HasAmount(s) THEN Amount(s) ELSE EmptyTx.amount
      /\ u.dst = IF HasDestination(s) THEN At(s, DestinationAt(s), UINT160_LEN) ELSE EmptyTx.dst
      /\ u.is_neo = IF TransfersNeo(s) THEN TRUE ELSE EmptyTx.is_neo
      /\ u.is_system_asset_transfer =
            IF IsTransferOf(s, NeoHash) \/ IsTransferOf(s, GasHash) THEN TRUE
            ELSE EmptyTx.is_system_asset_transfer
      /\ u.is_remove_vote = EmptyTx.is_remove_vote
      /\ u.is_vote_script = EmptyTx.is_vote_script
      /\ TxFields \subseteq DOMAIN u
  BY <1>1, TransferFields
<1>4. m = IF u.is_system_asset_transfer THEN u ELSE v
  BY DEF MatchScript
<1> HIDE DEF s, u, m
<1>5. /\ v.is_remove_vote = IF Retracts(s) THEN TRUE ELSE IF HasKey(s) THEN FALSE ELSE u.is_remove_vote
      /\ v.is_vote_script = IF IsVote(s) THEN TRUE ELSE u.is_vote_script
      /\ v.is_system_asset_transfer = u.is_system_asset_transfer
  <2>1. TxFields \subseteq DOMAIN u
    BY <1>3
  <2> QED
    BY <2>1, VoteFields, Zenon
<1> HIDE DEF v
<1>6. CASE does \in Transfers
  <2>1. /\ does.kind = "transfer" /\ does.dst \in Hashes /\ does.src \in Hashes /\ does.push \in Pushes
        /\ does.asset \in {"NEO", "GAS"}
    BY <1>6 DEF Transfers
  <2>2. s \in Bytes /\ IsTransferScript(s, does.push, does.dst, does.src, AssetOf(does))
    BY <1>6, TransferLaid DEF s
  <2>3. AssetOf(does) \in {NeoHash, GasHash} /\ (AssetOf(does) = NeoHash <=> does.asset = "NEO")
    BY <2>1, ScriptAssumption DEF AssetOf
  <2>4. /\ HasDestination(s) /\ At(s, DestinationAt(s), UINT160_LEN) = does.dst
        /\ IsTransferOf(s, AssetOf(does)) /\ (TransfersNeo(s) <=> AssetOf(does) = NeoHash)
    BY <2>1, <2>2, <2>3, TransferFound
  <2>5. HasAmount(s)
    BY <2>4 DEF HasDestination
  <2>6. IsTransferOf(s, NeoHash) \/ IsTransferOf(s, GasHash)
    BY <2>3, <2>4
  <2>7. IsAmount(does.push) => Amount(s) = Pushed(does.push)
    <3>1. Sits(s, 0, << PUSHNULL >>) /\ Sits(s, 1, does.push)
      BY <2>2 DEF IsTransferScript
    <3> QED
      BY <2>1, <2>2, <3>1, AmountRead
  <2>8. u.is_system_asset_transfer = TRUE /\ m = u
    BY <1>3, <1>4, <2>6
  <2>9. u.is_neo = (does.asset = "NEO")
    BY <1>2, <1>3, <2>3, <2>4
  <2>10. u.is_vote_script = FALSE /\ u.dst = does.dst /\ u.amount = Amount(s)
    BY <1>2, <1>3, <2>4, <2>5
  <2> QED
    BY <2>1, <2>7, <2>8, <2>9, <2>10 DEF IsMatched, s, m
<1>7. CASE does \in Votes
  <2>1. does.kind = "vote" /\ does.voter \in Hashes
    BY <1>7 DEF Votes
  <2>2. s \in Bytes /\ does.key \in VoteKeys /\ IsVoteScript(s, does.key, does.voter)
    BY <1>7, VoteLaid DEF s
  <2>3. /\ IsVote(s) /\ ~HasAmount(s) /\ (Retracts(s) <=> does.key = << >>)
        /\ (HasKey(s) <=> does.key # << >>)
    BY <2>1, <2>2, VoteFound
  <2>4. ~IsTransferOf(s, NeoHash) /\ ~IsTransferOf(s, GasHash)
    BY <2>3 DEF IsTransferOf, HasSource, HasDestination
  <2>5. u.is_system_asset_transfer = FALSE /\ m = v
    BY <1>2, <1>3, <1>4, <2>4
  <2>6. v.is_vote_script = TRUE /\ v.is_system_asset_transfer = FALSE
    BY <1>5, <2>3, <2>5
  <2>7. v.is_remove_vote = (does.key = << >>)
    BY <1>5, <2>3
  <2> QED
    BY <2>1, <2>5, <2>6, <2>7 DEF IsMatched, s, m
<1>8. CASE IsOther(does)
  <2>1. /\ does.kind = "other" /\ s = does.code
        /\ ~IsTransferOf(s, NeoHash) /\ ~IsTransferOf(s, GasHash) /\ ~IsVote(s)
    BY <1>8, OtherNotMatched DEF IsOther, s
  <2>2. u.is_system_asset_transfer = FALSE /\ m = v
    BY <1>2, <1>3, <1>4, <2>1
  <2>3. v.is_vote_script = FALSE /\ v.is_system_asset_transfer = FALSE
    BY <1>2, <1>3, <1>5, <2>1, <2>2
  <2> QED
    BY <2>1, <2>2, <2>3 DEF IsMatched, s, m
<1> QED
  BY <1>6, <1>7, <1>8 DEF s, m

\* The fields of a transaction that holds what is found in the script of a content.
LEMMA FieldsMatched ==
    ASSUME NEW data, NEW t, NEW c, IsContent(c), IsThat(data, t, c),
           MatchedAfresh(t, At(data, t.script, t.script_size))
    PROVE  IsMatched(t, c.does)
<1>1. At(data, t.script, t.script_size) = ScriptOf(c.does)
  BY DEF IsThat
<1> DEFINE m == MatchScript(ScriptOf(c.does), EmptyTx)
<1>2. IsMatched(m, c.does)
  BY MatchedContent DEF IsContent
<1>3. \A f \in MatchFields : t[f] = m[f]
  BY <1>1 DEF MatchedAfresh
<1> HIDE DEF m
<1>4. /\ t.is_system_asset_transfer = m.is_system_asset_transfer /\ t.is_vote_script = m.is_vote_script
      /\ t.is_neo = m.is_neo /\ t.dst = m.dst /\ t.amount = m.amount /\ t.is_remove_vote = m.is_remove_vote
  BY <1>3 DEF MatchFields
<1> QED
  BY <1>2, <1>4 DEF IsMatched

\* The title.
LEMMA SameTitle ==
    ASSUME NEW t, NEW c, IsContent(c), IsMatched(t, c.does)
    PROVE  Title(t) = ExpectedTitle(c)
<1>1. /\ c.does.kind \in {"transfer", "vote", "other"}
      /\ c.does.kind = "transfer" => c.does.asset \in {"NEO", "GAS"}
  BY DEF IsContent, IsOther, Transfers, Votes
<1>2. CASE c.does.kind = "transfer"
  <2>1. t.is_vote_script = FALSE /\ t.is_system_asset_transfer = TRUE
    BY <1>2 DEF IsMatched
  <2>2. t.is_neo <=> c.does.asset = "NEO"
    BY <1>2, Zenon DEF IsMatched
  <2>3. ExpectedTitle(c) = IF c.does.asset = "NEO" THEN "send NEO" ELSE "send GAS"
    BY <1>2 DEF ExpectedTitle
  <2> QED
    BY <2>1, <2>2, <2>3, Zenon DEF Title
<1>3. CASE c.does.kind = "vote"
  <2>1. t.is_vote_script = TRUE
    BY <1>3 DEF IsMatched
  <2>2. t.is_remove_vote <=> c.does.key = << >>
    BY <1>3, Zenon DEF IsMatched
  <2>3. ExpectedTitle(c) = IF c.does.key = << >> THEN "retract vote" ELSE "cast vote"
    BY <1>3 DEF ExpectedTitle
  <2> QED
    BY <2>1, <2>2, <2>3, Zenon DEF Title
<1>4. CASE c.does.kind = "other"
  BY <1>4 DEF IsMatched, Title, ExpectedTitle
<1> QED
  BY <1>1, <1>2, <1>3, <1>4

---------------------------------------------------------------------------
(* The pairs of a content.                                                 *)

\* The elements of a sequence may be more than they are.
LEMMA SeqLarger ==
    ASSUME NEW S, NEW T, NEW w \in Seq(S), \A k \in 1 .. Len(w) : w[k] \in T
    PROVE  w \in Seq(T)
<1>1. Len(w) \in Nat /\ w \in [1 .. Len(w) -> S]
  OBVIOUS
<1>2. w \in [1 .. Len(w) -> T]
  BY <1>1
<1> QED
  BY <1>1, <1>2

\* b has what M makes of the elements of a.
IsMapped(M, a, b) == Len(b) = Len(a) /\ \A k \in 1 .. Len(a) : b[k] = M[a[k]]

\* So it is of joined sequences.
LEMMA MappedJoin ==
    ASSUME NEW S, NEW T, NEW M, NEW a \in Seq(S), NEW b \in Seq(T), NEW d \in Seq(S), NEW e \in Seq(T),
           IsMapped(M, a, b), IsMapped(M, d, e)
    PROVE  IsMapped(M, a \o d, b \o e)
<1>1. /\ Len(a \o d) = Len(a) + Len(d)
      /\ \A k \in 1 .. Len(a) + Len(d) : (a \o d)[k] = IF k <= Len(a) THEN a[k] ELSE d[k - Len(a)]
  BY ConcatProperties
<1>2. /\ Len(b \o e) = Len(b) + Len(e)
      /\ \A k \in 1 .. Len(b) + Len(e) : (b \o e)[k] = IF k <= Len(b) THEN b[k] ELSE e[k - Len(b)]
  BY ConcatProperties
<1>3. /\ Len(b) = Len(a) /\ \A k \in 1 .. Len(a) : b[k] = M[a[k]]
      /\ Len(e) = Len(d) /\ \A k \in 1 .. Len(d) : e[k] = M[d[k]]
      /\ Len(a) \in Nat /\ Len(d) \in Nat
  BY DEF IsMapped
<1> DEFINE ad == a \o d
           be == b \o e
<1> HIDE DEF ad, be
<1>4. Len(ad) = Len(a) + Len(d) /\ Len(be) = Len(ad)
  BY <1>1, <1>2, <1>3 DEF ad, be
<1>5. ASSUME NEW k \in 1 .. Len(ad) PROVE be[k] = M[ad[k]]
  <2>1. k \in 1 .. Len(a) + Len(d) /\ k \in 1 .. Len(b) + Len(e)
    BY <1>3, <1>4
  <2>2. CASE k <= Len(a)
    <3>1. k \in 1 .. Len(a) /\ ad[k] = a[k] /\ be[k] = b[k]
      BY <1>1, <1>2, <1>3, <2>1, <2>2 DEF ad, be
    <3> QED
      BY <1>3, <3>1
  <2>3. CASE ~(k <= Len(a))
    <3>1. k - Len(a) \in 1 .. Len(d) /\ ad[k] = d[k - Len(a)] /\ be[k] = e[k - Len(a)]
      BY <1>1, <1>2, <1>3, <2>1, <2>3 DEF ad, be
    <3> QED
      BY <1>3, <3>1
  <2> QED
    BY <2>2, <2>3
<1> QED
  BY <1>4, <1>5 DEF IsMapped, ad, be

\* And when all blocks of a sequence are joined.
LEMMA MappedFlatten ==
    ASSUME NEW S, NEW T, NEW M, NEW n \in Nat \ {0}, NEW ss \in [1 .. n -> Seq(S)], NEW ww \in [1 .. n -> Seq(T)],
           \A k \in 1 .. n : IsMapped(M, ss[k], ww[k])
    PROVE  IsMapped(M, FlattenSeq(ss), FlattenSeq(ww))
<1>1. PICK g : Joins(ss, n, g) /\ FlattenSeq(ss) = g[n]
  BY FlattenJoins
<1>2. PICK h : Joins(ww, n, h) /\ FlattenSeq(ww) = h[n]
  BY FlattenJoins
<1>3. /\ g[1] = ss[1]
      /\ \A k \in 1 .. n : k < n => g[k + 1] = g[k] \o ss[k + 1]
      /\ \A k \in 1 .. n : g[k] \in Seq(S)
  BY <1>1, JoinsSteps
<1>4. /\ h[1] = ww[1]
      /\ \A k \in 1 .. n : k < n => h[k + 1] = h[k] \o ww[k + 1]
      /\ \A k \in 1 .. n : h[k] \in Seq(T)
  BY <1>2, JoinsSteps
<1> DEFINE U == {k \in 1 .. n : IsMapped(M, g[k], h[k])}
<1>5. 1 \in U
  BY <1>3, <1>4
<1>6. ASSUME NEW k \in 1 .. n, k < n, k \in U PROVE k + 1 \in U
  <2>1. /\ g[k] \in Seq(S) /\ ss[k + 1] \in Seq(S) /\ h[k] \in Seq(T) /\ ww[k + 1] \in Seq(T)
        /\ IsMapped(M, g[k], h[k]) /\ IsMapped(M, ss[k + 1], ww[k + 1]) /\ k + 1 \in 1 .. n
    BY <1>3, <1>4, <1>6
  <2>2. IsMapped(M, g[k] \o ss[k + 1], h[k] \o ww[k + 1])
    BY <2>1, MappedJoin
  <2> QED
    BY <1>3, <1>4, <1>6, <2>1, <2>2
<1>7. 1 .. n \subseteq U
  <2> HIDE DEF U
  <2> QED
    BY <1>5, <1>6, UpTo
<1>8. n \in U
  BY <1>7
<1> QED
  BY <1>1, <1>2, <1>8

\* Three elements, and two sequences behind them.
IsThree(w, x1, x2, x3, a, b) ==
    /\ \E S : w \in Seq(S)
    /\ Len(w) = 3 + Len(a) + Len(b) /\ Len(a) \in Nat /\ Len(b) \in Nat
    /\ w[1] = x1 /\ w[2] = x2 /\ w[3] = x3
    /\ \A k \in 1 .. Len(a) : w[3 + k] = a[k]
    /\ \A k \in 1 .. Len(b) : w[3 + Len(a) + k] = b[k]
LEMMA ThreeAndMore ==
    ASSUME NEW x1, NEW x2, NEW x3, NEW A, NEW B, NEW a \in Seq(A), NEW b \in Seq(B)
    PROVE  IsThree(<< x1, x2, x3 >> \o a \o b, x1, x2, x3, a, b)
<1> DEFINE S == {x1, x2, x3} \cup A \cup B
           x == << x1, x2, x3 >>
           xa == x \o a
           w  == xa \o b
<1>1. x \in Seq(S) /\ Len(x) = 3 /\ x[1] = x1 /\ x[2] = x2 /\ x[3] = x3
  <2>1. x1 \in S /\ x2 \in S /\ x3 \in S
    OBVIOUS
  <2> HIDE DEF S
  <2> QED
    BY <2>1
<1>2. a \in Seq(S) /\ b \in Seq(S)
  <2>1. (\A k \in 1 .. Len(a) : a[k] \in S) /\ (\A k \in 1 .. Len(b) : b[k] \in S)
    OBVIOUS
  <2> HIDE DEF S
  <2> QED
    BY <2>1, SeqLarger
<1>3. w = xa \o b
  OBVIOUS
<1> HIDE DEF S, x, w
<1>4. /\ xa \in Seq(S) /\ Len(xa) = 3 + Len(a) /\ Len(a) \in Nat /\ Len(b) \in Nat
      /\ \A k \in 1 .. 3 + Len(a) : xa[k] = IF k <= 3 THEN x[k] ELSE a[k - 3]
  <2>1. /\ x \o a \in Seq(S) /\ Len(x \o a) = Len(x) + Len(a)
        /\ \A k \in 1 .. Len(x) + Len(a) : (x \o a)[k] = IF k <= Len(x) THEN x[k] ELSE a[k - Len(x)]
    BY <1>1, <1>2, ConcatProperties, Zenon
  <2> QED
    BY <1>1, <2>1
<1> HIDE DEF xa
<1>5. /\ w \in Seq(S) /\ Len(w) = 3 + Len(a) + Len(b)
      /\ \A k \in 1 .. 3 + Len(a) + Len(b) : w[k] = IF k <= 3 + Len(a) THEN xa[k] ELSE b[k - (3 + Len(a))]
  <2>1. /\ xa \o b \in Seq(S) /\ Len(xa \o b) = Len(xa) + Len(b)
        /\ \A k \in 1 .. Len(xa) + Len(b) : (xa \o b)[k] = IF k <= Len(xa) THEN xa[k] ELSE b[k - Len(xa)]
    BY <1>2, <1>4, ConcatProperties, Zenon
  <2> QED
    BY <1>3, <1>4, <2>1
<1>6. ASSUME NEW k \in 1 .. 3 PROVE w[k] = x[k]
  <2>1. k \in 1 .. 3 + Len(a) /\ k \in 1 .. 3 + Len(a) + Len(b) /\ k <= 3 + Len(a) /\ k <= 3
    BY <1>4
  <2> QED
    BY <1>4, <1>5, <2>1
<1>7. ASSUME NEW k \in 1 .. Len(a) PROVE w[3 + k] = a[k]
  <2>1. 3 + k \in 1 .. 3 + Len(a) /\ 3 + k \in 1 .. 3 + Len(a) + Len(b) /\ 3 + k <= 3 + Len(a) /\ ~(3 + k <= 3)
        /\ (3 + k) - 3 = k
    BY <1>4
  <2> QED
    BY <1>4, <1>5, <2>1
<1>8. ASSUME NEW k \in 1 .. Len(b) PROVE w[3 + Len(a) + k] = b[k]
  <2>1. 3 + Len(a) + k \in 1 .. 3 + Len(a) + Len(b) /\ ~(3 + Len(a) + k <= 3 + Len(a))
        /\ (3 + Len(a) + k) - (3 + Len(a)) = k
    BY <1>4
  <2> QED
    BY <1>5, <2>1
<1>9. 1 \in 1 .. 3 /\ 2 \in 1 .. 3 /\ 3 \in 1 .. 3
  OBVIOUS
<1>10. IsThree(w, x1, x2, x3, a, b)
  BY <1>1, <1>4, <1>5, <1>6, <1>7, <1>8, <1>9 DEF IsThree
<1> QED
  BY <1>10 DEF w, xa, x

\* The texts of the items, of whatever signer and number.
ItemTexts == [x \in Item |-> TextOf(x)]

\* The pairs of a signer of the content are the texts of the items of that signer.
LEMMA SignerPairs ==
    ASSUME IsTx(tx), NEW c, IsContent(c), IsThat(raw, tx, c), NEW s \in 1 .. tx.signers_size
    PROVE  /\ IsMapped(ItemTexts, SignerItems(tx, s), ExpectedOfSigner(c, s))
           /\ ExpectedOfSigner(c, s) \in Seq({ItemTexts[x] : x \in Item})
<1> DEFINE signer == c.signers[s]
           cs == signer.contracts
           gs == signer.groups
           C  == Len(cs)
           G  == Len(gs)
           b  == SignerItems(tx, s)
           e  == ExpectedOfSigner(c, s)
           x1 == Pair(<< "Signer" >>, << s, Len(c.signers) >>)
           x2 == Pair(<< "Account" >>, signer.account)
           x3 == Pair(<< "Scope" >>, ScopeText(signer.scope))
           PC == [k \in 1 .. C |-> Pair(<< "Contract", k, C >>, cs[k])]
           PG == [k \in 1 .. G |-> Pair(<< "Group", k, G >>, gs[k])]
<1>1. /\ tx.signers_size = Len(c.signers)
      /\ SameSigner(raw, tx, s, signer)
      /\ tx.signers_size \in Nat
  BY DEF IsThat, IsTx
<1>2. /\ At(raw, tx.signers[s].account, UINT160_LEN) = signer.account
      /\ tx.signers[s].scope = signer.scope
      /\ tx.signers[s].size["contracts"] = C /\ tx.signers[s].size["groups"] = G
      /\ \A k \in 1 .. C : At(raw, tx.signers[s].allowed["contracts"][k], UINT160_LEN) = cs[k]
      /\ \A k \in 1 .. G : At(raw, tx.signers[s].allowed["groups"][k], ECPOINT_LEN) = gs[k]
  <2>1. SameList(raw, tx, s, signer, "contracts") /\ SameList(raw, tx, s, signer, "groups")
    BY <1>1 DEF SameSigner, Lists
  <2>2. /\ Listed(signer, "contracts") = cs /\ Listed(signer, "groups") = gs
        /\ ItemLen("contracts") = UINT160_LEN /\ ItemLen("groups") = ECPOINT_LEN
    BY DEF Listed, ItemLen
  <2>3. /\ tx.signers[s].size["contracts"] = C
        /\ \A k \in 1 .. C : At(raw, tx.signers[s].allowed["contracts"][k], UINT160_LEN) = cs[k]
    BY <2>1, <2>2 DEF SameList
  <2>4. /\ tx.signers[s].size["groups"] = G
        /\ \A k \in 1 .. G : At(raw, tx.signers[s].allowed["groups"][k], ECPOINT_LEN) = gs[k]
    BY <2>1, <2>2 DEF SameList
  <2> QED
    BY <1>1, <2>3, <2>4 DEF SameSigner
<1>3. /\ C \in Nat /\ G \in Nat /\ DOMAIN cs = 1 .. C /\ DOMAIN gs = 1 .. G
  <2>1. s \in 1 .. Len(c.signers)
    BY <1>1
  <2>2. c.signers \in Seq(Signers)
    BY DEF IsContent
  <2>3. signer \in Signers
    BY <2>1, <2>2, ElementOfSeq
  <2> HIDE DEF signer
  <2> QED
    BY <2>3 DEF Signers
<1>4. /\ b \in Seq(Item) /\ Len(b) = 3 + C + G
      /\ b[1] = DynItem("Signer", s, 0)
      /\ b[2] = DynItem("Account", s, 0)
      /\ b[3] = DynItem("Scope", s, 0)
      /\ \A k \in 1 .. C : b[3 + k] = DynItem("Contract", s, k)
      /\ \A k \in 1 .. G : b[3 + C + k] = DynItem("Group", s, k)
  <2> DEFINE m == tx.signers[s].size["contracts"]
             n == tx.signers[s].size["groups"]
  <2>1. /\ b \in Seq(Item) /\ Len(b) = 3 + m + n
        /\ b[1] = DynItem("Signer", s, 0)
        /\ b[2] = DynItem("Account", s, 0)
        /\ b[3] = DynItem("Scope", s, 0)
        /\ \A k \in 1 .. m : b[3 + k] = DynItem("Contract", s, k)
        /\ \A k \in 1 .. n : b[3 + m + k] = DynItem("Group", s, k)
    BY SignerItemsLemma, Zenon
  <2>2. m = C /\ n = G
    BY <1>2
  <2> HIDE DEF m, n, C, G, b
  <2> QED
    BY <2>1, <2>2
<1>5. e = << x1, x2, x3 >> \o PC \o PG
  BY <1>3 DEF ExpectedOfSigner
<1> HIDE DEF b, e, x1, x2, x3
<1>6. /\ \E S : PC \in Seq(S)
      /\ Len(PC) = C
  <2> DEFINE S == {Pair(<< "Contract", k, C >>, cs[k]) : k \in 1 .. C}
  <2>1. PC \in [1 .. C -> S]
    OBVIOUS
  <2> HIDE DEF S, PC, C
  <2>2. PC \in Seq(S) /\ Len(PC) = C
    BY <1>3, <2>1
  <2> QED
    BY <2>2
<1>7. /\ \E S : PG \in Seq(S)
      /\ Len(PG) = G
  <2> DEFINE S == {Pair(<< "Group", k, G >>, gs[k]) : k \in 1 .. G}
  <2>1. PG \in [1 .. G -> S]
    OBVIOUS
  <2> HIDE DEF S, PG, G
  <2>2. PG \in Seq(S) /\ Len(PG) = G
    BY <1>3, <2>1
  <2> QED
    BY <2>2
<1>8. PICK A : PC \in Seq(A)
  BY <1>6
<1>9. PICK B : PG \in Seq(B)
  BY <1>7
<1>10. /\ \A k \in 1 .. C : PC[k] = Pair(<< "Contract", k, C >>, cs[k])
       /\ \A k \in 1 .. G : PG[k] = Pair(<< "Group", k, G >>, gs[k])
  OBVIOUS
<1> HIDE DEF PC, PG
<1>11. /\ \E S : e \in Seq(S)
       /\ Len(e) = 3 + C + G
       /\ e[1] = x1 /\ e[2] = x2 /\ e[3] = x3
       /\ \A k \in 1 .. C : e[3 + k] = PC[k]
       /\ \A k \in 1 .. G : e[3 + C + k] = PG[k]
  <2>1. /\ \E S : e \in Seq(S)
        /\ Len(e) = 3 + Len(PC) + Len(PG)
        /\ e[1] = x1 /\ e[2] = x2 /\ e[3] = x3
        /\ \A k \in 1 .. Len(PC) : e[3 + k] = PC[k]
        /\ \A k \in 1 .. Len(PG) : e[3 + Len(PC) + k] = PG[k]
    <3>1. IsThree(<< x1, x2, x3 >> \o PC \o PG, x1, x2, x3, PC, PG)
      BY <1>8, <1>9, ThreeAndMore
    <3>2. IsThree(e, x1, x2, x3, PC, PG)
      BY <1>5, <3>1, Zenon
    <3> QED
      BY <3>2 DEF IsThree
  <2>2. Len(PC) = C /\ Len(PG) = G
    BY <1>6, <1>7
  <2>3. \E S : e \in Seq(S)
    BY <2>1
  <2> HIDE DEF C, G
  <2>4. /\ Len(e) = 3 + C + G
        /\ e[1] = x1 /\ e[2] = x2 /\ e[3] = x3
        /\ \A k \in 1 .. C : e[3 + k] = PC[k]
        /\ \A k \in 1 .. G : e[3 + C + k] = PG[k]
    BY <2>1, <2>2
  <2> HIDE DEF e
  <2> QED
    BY <2>3, <2>4, Zenon
<1>12. /\ TextOf(DynItem("Signer", s, 0)) = x1
       /\ TextOf(DynItem("Account", s, 0)) = x2
       /\ TextOf(DynItem("Scope", s, 0)) = x3
  BY <1>1, <1>2 DEF TextOf, DynItem, x1, x2, x3
<1>13. ASSUME NEW k \in 1 .. C PROVE TextOf(DynItem("Contract", s, k)) = PC[k]
  BY <1>2, <1>10 DEF TextOf, DynItem
<1>14. ASSUME NEW k \in 1 .. G PROVE TextOf(DynItem("Group", s, k)) = PG[k]
  BY <1>2, <1>10 DEF TextOf, DynItem
<1> HIDE DEF C, G
<1>15. ASSUME NEW k \in 1 .. Len(b) PROVE b[k] \in Item /\ e[k] = TextOf(b[k])
  <2>1. b[k] \in Item
    BY <1>4, ElementOfSeq
  <2>2. k \in 1 .. 3 + C + G
    BY <1>4
  <2>3. CASE k \in 1 .. 3
    <3>1. k = 1 \/ k = 2 \/ k = 3
      BY <2>3
    <3> QED
      BY <1>4, <1>11, <1>12, <2>1, <3>1
  <2>4. CASE k \in 4 .. 3 + C
    <3>1. k - 3 \in 1 .. C /\ 3 + (k - 3) = k
      BY <1>3, <2>4
    <3>2. b[k] = DynItem("Contract", s, k - 3) /\ e[k] = PC[k - 3]
      BY <1>4, <1>11, <3>1
    <3> QED
      BY <1>13, <2>1, <3>1, <3>2
  <2>5. CASE k \in 4 + C .. 3 + C + G
    <3>1. k - (3 + C) \in 1 .. G /\ 3 + C + (k - (3 + C)) = k
      BY <1>3, <2>5
    <3>2. b[k] = DynItem("Group", s, k - (3 + C)) /\ e[k] = PG[k - (3 + C)]
      BY <1>4, <1>11, <3>1
    <3> QED
      BY <1>14, <2>1, <3>1, <3>2
  <2> QED
    BY <1>3, <2>2, <2>3, <2>4, <2>5
<1>16. \A x \in Item : ItemTexts[x] = TextOf(x)
  BY Zenon DEF ItemTexts
<1>17. \A k \in 1 .. Len(b) : b[k] \in Item /\ e[k] = ItemTexts[b[k]]
  BY <1>15, <1>16
<1>18. Len(e) = Len(b)
  BY <1>4, <1>11
<1>19. IsMapped(ItemTexts, b, e)
  BY <1>17, <1>18 DEF IsMapped
<1>20. e \in Seq({ItemTexts[x] : x \in Item})
  <2> DEFINE T == {ItemTexts[x] : x \in Item}
  <2>1. PICK S : e \in Seq(S)
    BY <1>11
  <2>2. \A k \in 1 .. Len(e) : e[k] \in T
    BY <1>17, <1>18
  <2> HIDE DEF T
  <2>3. e \in Seq(T)
    BY <2>1, <2>2, SeqLarger
  <2> QED
    BY <2>3 DEF T
<1> QED
  BY <1>19, <1>20 DEF b, e

\* All pairs of the signers.
LEMMA AllSignerPairs ==
    ASSUME IsTx(tx), NEW c, IsContent(c), IsThat(raw, tx, c), tx.signers_size # 0
    PROVE  LET e == FlattenSeq([s \in DOMAIN c.signers |-> ExpectedOfSigner(c, s)])
           IN  /\ \E T : e \in Seq(T)
               /\ Len(e) = Len(DynItems(tx)) /\ Len(e) \in Nat
               /\ \A k \in 1 .. Len(e) : e[k] = TextOf(DynItems(tx)[k])
<1> DEFINE n  == tx.signers_size
           T  == {ItemTexts[x] : x \in Item}
           ss == Block(tx)
           ww == [s \in DOMAIN c.signers |-> ExpectedOfSigner(c, s)]
<1>1. n \in Nat \ {0} /\ DOMAIN c.signers = 1 .. n
  <2>1. n \in Nat /\ n = Len(c.signers) /\ c.signers \in Seq(Signers)
    BY DEF IsTx, IsThat, IsContent
  <2>2. DOMAIN c.signers = 1 .. Len(c.signers)
    BY <2>1
  <2> QED
    BY <2>1, <2>2
<1>2. ASSUME NEW s \in 1 .. n
      PROVE  /\ SignerItems(tx, s) \in Seq(Item)
             /\ IsMapped(ItemTexts, SignerItems(tx, s), ExpectedOfSigner(c, s))
             /\ ExpectedOfSigner(c, s) \in Seq(T)
  <2>1. SignerItems(tx, s) \in Seq(Item)
    BY SignerItemsLemma
  <2> QED
    BY <2>1, SignerPairs
<1> HIDE DEF T
<1>3. /\ ss \in [1 .. n -> Seq(Item)] /\ ww \in [1 .. n -> Seq(T)]
      /\ \A k \in 1 .. n : IsMapped(ItemTexts, ss[k], ww[k])
  BY <1>1, <1>2 DEF Block
<1>4. DynItems(tx) = FlattenSeq(ss)
  BY DEF DynItems, Block
<1> HIDE DEF ss, ww, n
<1>5. IsMapped(ItemTexts, FlattenSeq(ss), FlattenSeq(ww))
  BY <1>1, <1>3, MappedFlatten
<1>6. FlattenSeq(ss) \in Seq(Item) /\ FlattenSeq(ww) \in Seq(T)
  BY <1>1, <1>3, FlattenType
<1> DEFINE d == FlattenSeq(ss)
           e == FlattenSeq(ww)
<1> HIDE DEF d, e
<1>7. Len(e) = Len(d) /\ \A k \in 1 .. Len(d) : e[k] = ItemTexts[d[k]]
  BY <1>5 DEF IsMapped, d, e
<1>8. d \in Seq(Item) /\ e \in Seq(T) /\ Len(e) \in Nat
  BY <1>6 DEF d, e
<1>9. \A k \in 1 .. Len(d) : d[k] \in Item
  BY <1>8, ElementOfSeq
<1>10. \A x \in Item : ItemTexts[x] = TextOf(x)
  BY Zenon DEF ItemTexts
<1>11. \A k \in 1 .. Len(e) : e[k] = TextOf(d[k])
  BY <1>7, <1>9, <1>10
<1>12. DynItems(tx) = d
  BY <1>4 DEF d
<1>13. (\E Q : e \in Seq(Q)) /\ Len(e) = Len(DynItems(tx)) /\ Len(e) \in Nat
       /\ \A k \in 1 .. Len(e) : e[k] = TextOf(DynItems(tx)[k])
  BY <1>7, <1>8, <1>11, <1>12
<1> QED
  BY <1>13 DEF e, ww

\* The pairs in front of those of the signers.
StaticOf(c) ==
    (IF c.does.kind = "transfer"
     THEN << Pair(<< "To" >>, c.does.dst),
             Pair(<< "Token amount", c.does.asset = "NEO" >>, Pushed(c.does.push)) >>
     ELSE << >>)
    \o << Pair(<< "Target network" >>, << >>),
          Pair(<< "System fee" >>, c.header["system_fee"]),
          Pair(<< "Network fee" >>, c.header["network_fee"]),
          Pair(<< "Total fees" >>, c.header["network_fee"] \o c.header["system_fee"]),
          Pair(<< "Valid until height" >>, c.header["valid_until_block"]),
          Pair(<< "Script hash" >>, ScriptOf(c.does)) >>

\* No transfer of a content pushes a number below zero in one byte.
AmountShown(c) == c.does.kind = "transfer" => IsAmount(c.does.push)

\* The static pairs.
LEMMA StaticPairs ==
    ASSUME NEW c, IsContent(c), IsThat(raw, tx, c), IsMatched(tx, c.does), AmountShown(c)
    PROVE  StaticItems(tx) = StaticOf(c)
<1> DEFINE t == tx
           does == c.does
<1>1. /\ t.header["system_fee"] = c.header["system_fee"]
      /\ t.header["network_fee"] = c.header["network_fee"]
      /\ t.header["valid_until_block"] = c.header["valid_until_block"]
  <2>1. \A k \in 1 .. 5 : t.header[HeaderFields[k]] = c.header[HeaderFields[k]]
    BY DEF IsThat
  <2>2. 3 \in 1 .. 5 /\ 4 \in 1 .. 5 /\ 5 \in 1 .. 5
    OBVIOUS
  <2>3. /\ HeaderFields[3] = "system_fee" /\ HeaderFields[4] = "network_fee"
        /\ HeaderFields[5] = "valid_until_block"
    BY DEF HeaderFields
  <2> QED
    BY <2>1, <2>2, <2>3
<1>2. At(raw, t.script, t.script_size) = ScriptOf(does)
  BY DEF IsThat
<1> DEFINE six == << Pair(<< "Target network" >>, << >>),
                     Pair(<< "System fee" >>, c.header["system_fee"]),
                     Pair(<< "Network fee" >>, c.header["network_fee"]),
                     Pair(<< "Total fees" >>, c.header["network_fee"] \o c.header["system_fee"]),
                     Pair(<< "Valid until height" >>, c.header["valid_until_block"]),
                     Pair(<< "Script hash" >>, ScriptOf(does)) >>
<1>3. CASE does.kind = "transfer"
  <2> DEFINE two == << Pair(<< "To" >>, does.dst), Pair(<< "Token amount", does.asset = "NEO" >>, Pushed(does.push)) >>
  <2>1. /\ t.is_system_asset_transfer = TRUE /\ t.is_vote_script = FALSE
    BY <1>3 DEF IsMatched
  <2>2. t.is_neo = (does.asset = "NEO") /\ t.dst = does.dst /\ t.amount = Pushed(does.push)
    BY <1>3 DEF IsMatched, AmountShown
  <2>3. StaticOf(c) = two \o six
    BY <1>3 DEF StaticOf
  <2>4. StaticItems(t) = << Pair(<< "To" >>, t.dst), Pair(<< "Token amount", t.is_neo >>, t.amount) >>
                            \o << Pair(<< "Target network" >>, << >>),
                                  Pair(<< "System fee" >>, t.header["system_fee"]),
                                  Pair(<< "Network fee" >>, t.header["network_fee"]),
                                  Pair(<< "Total fees" >>, t.header["network_fee"] \o t.header["system_fee"]),
                                  Pair(<< "Valid until height" >>, t.header["valid_until_block"]),
                                  Pair(<< "Script hash" >>, At(raw, t.script, t.script_size)) >>
    BY <2>1, Zenon DEF StaticItems
  <2> QED
    BY <1>1, <1>2, <2>2, <2>3, <2>4, Zenon
<1>4. CASE does.kind # "transfer"
  <2>1. ~t.is_system_asset_transfer
    BY <1>4 DEF IsMatched
  <2>2. StaticOf(c) = << >> \o six
    BY <1>4, Zenon DEF StaticOf
  <2>3. StaticItems(t) = << >> \o << Pair(<< "Target network" >>, << >>),
                                  Pair(<< "System fee" >>, t.header["system_fee"]),
                                  Pair(<< "Network fee" >>, t.header["network_fee"]),
                                  Pair(<< "Total fees" >>, t.header["network_fee"] \o t.header["system_fee"]),
                                  Pair(<< "Valid until height" >>, t.header["valid_until_block"]),
                                  Pair(<< "Script hash" >>, At(raw, t.script, t.script_size)) >>
    BY <2>1, Zenon DEF StaticItems
  <2> QED
    BY <1>1, <1>2, <2>2, <2>3, Zenon
<1> QED
  BY <1>3, <1>4

\* All pairs: as many as there are, and each at its place.
LEMMA AllPairs ==
    ASSUME IsTx(tx), NEW c, IsContent(c), IsThat(raw, tx, c), tx.signers_size # 0,
           IsMatched(tx, c.does), AmountShown(c)
    PROVE  /\ Len(ExpectedPairs(c)) = Len(StaticItems(tx)) + Len(DynItems(tx))
           /\ Len(StaticItems(tx)) \in Nat /\ Len(DynItems(tx)) \in Nat
           /\ \A k \in 1 .. Len(ExpectedPairs(c)) : ExpectedPairs(c)[k] = PairAt(tx, k)
           /\ \E S : ExpectedPairs(c) \in Seq(S)
<1> DEFINE a == StaticItems(tx)
           d == DynItems(tx)
           e == FlattenSeq([s \in DOMAIN c.signers |-> ExpectedOfSigner(c, s)])
           w == ExpectedPairs(c)
<1>1. w = StaticOf(c) \o e
  BY Zenon DEF ExpectedPairs, StaticOf
<1>2. a = StaticOf(c)
  BY StaticPairs
<1>3. /\ \E T : e \in Seq(T)
      /\ Len(e) = Len(d) /\ Len(e) \in Nat
      /\ \A k \in 1 .. Len(e) : e[k] = TextOf(d[k])
  BY AllSignerPairs, Zenon
<1>4. \E S : a \in Seq(S)
  BY StaticItemsLen
<1> HIDE DEF a, d, e, w
<1>5. PICK S : a \in Seq(S)
  BY <1>4
<1>6. PICK T : e \in Seq(T)
  BY <1>3
<1> DEFINE U == S \cup T
<1>7. a \in Seq(U) /\ e \in Seq(U)
  <2>1. (\A k \in 1 .. Len(a) : a[k] \in U) /\ (\A k \in 1 .. Len(e) : e[k] \in U)
    BY <1>5, <1>6
  <2> HIDE DEF U
  <2> QED
    BY <1>5, <1>6, <2>1, SeqLarger
<1> HIDE DEF U
<1>8. /\ a \o e \in Seq(U) /\ Len(a \o e) = Len(a) + Len(e)
      /\ \A k \in 1 .. Len(a) + Len(e) : (a \o e)[k] = IF k <= Len(a) THEN a[k] ELSE e[k - Len(a)]
  BY <1>7, ConcatProperties, Zenon
<1>9. w = a \o e
  BY <1>1, <1>2
<1>10. Len(a) \in Nat /\ Len(d) \in Nat /\ Len(w) = Len(a) + Len(d) /\ w \in Seq(U)
  BY <1>3, <1>5, <1>8, <1>9
<1>11. ASSUME NEW k \in 1 .. Len(w) PROVE w[k] = PairAt(tx, k)
  <2>1. k \in 1 .. Len(a) + Len(e)
    BY <1>3, <1>10
  <2>2. w[k] = IF k <= Len(a) THEN a[k] ELSE e[k - Len(a)]
    BY <1>8, <1>9, <2>1
  <2>3. PairAt(tx, k) = IF k <= Len(a) THEN a[k] ELSE TextOf(d[k - Len(a)])
    BY DEF PairAt, a, d
  <2>4. ~(k <= Len(a)) => k - Len(a) \in 1 .. Len(e)
    BY <1>3, <1>10, <2>1
  <2> QED
    BY <1>3, <2>2, <2>3, <2>4
<1>12. \E Q : w \in Seq(Q)
  BY <1>10
<1> QED
  BY <1>10, <1>11, <1>12 DEF a, d, w

\* There is no transaction in no bytes.
LEMMA CoversSome ==
    ASSUME NEW data \in Bytes, NEW t, Covers(data, t)
    PROVE  data # << >>
<1> SUFFICES ASSUME Len(data) = 0 PROVE FALSE
  OBVIOUS
<1>1. PICK from \in 0 .. Len(data) : FrontLies(data, t, t.signers_size, from)
  BY DEF Covers
<1>2. PICK first \in 0 .. from : IsCount(data, t.signers_size, HeaderAt[6], first)
  BY <1>1 DEF FrontLies
<1>3. HeaderAt[6] \in Nat
  BY HeaderBelow
<1>4. first > HeaderAt[6]
  BY <1>2, <1>3 DEF IsCount
<1> QED
  BY <1>1, <1>2, <1>3, <1>4

---------------------------------------------------------------------------
(* Whatever has a transaction in it is the encoding of a content.          *)

\* These bytes lie from here to there.
Lies(data, from, bytes, to) == bytes \in Seq(Byte) /\ Sits(data, from, bytes) /\ to = from + Len(bytes)

\* Bytes one behind the other.
LEMMA LiesJoin ==
    ASSUME NEW data \in Bytes, NEW from \in Nat, NEW a, NEW next, NEW b, NEW to,
           Lies(data, from, a, next), Lies(data, next, b, to)
    PROVE  Lies(data, from, a \o b, to)
<1>1. /\ a \in Seq(Byte) /\ b \in Seq(Byte) /\ data \in Seq(Byte) /\ Sits(data, from, a)
      /\ next = from + Len(a) /\ Sits(data, from + Len(a), b) /\ to = (from + Len(a)) + Len(b)
  BY DEF Lies, Bytes
<1>2. Sits(data, from, a \o b) /\ a \o b \in Seq(Byte) /\ Len(a \o b) = Len(a) + Len(b)
  BY <1>1, SitsJoin
<1>3. Len(a) \in Nat /\ Len(b) \in Nat
  BY <1>1
<1> QED
  BY <1>1, <1>2, <1>3 DEF Lies

\* Nothing lies anywhere, and what is read lies where it is.
LEMMA LiesAt ==
    ASSUME NEW data \in Bytes, NEW from \in Nat, NEW n \in Nat, from + n <= Len(data)
    PROVE  /\ Lies(data, from, At(data, from, n), from + n)
           /\ At(data, from, n) \in [1 .. n -> Byte]
           /\ Lies(data, from, << >>, from)
<1>1. /\ At(data, from, n) \in Seq(Byte) /\ At(data, from, n) \in [1 .. n -> Byte]
      /\ Len(At(data, from, n)) = n /\ Sits(data, from, At(data, from, n))
  BY AtSits
<1>2. << >> \in Seq(Byte) /\ Len(<< >>) = 0 /\ 1 .. 0 = {} /\ from + 0 = from /\ from <= Len(data)
  BY DEF Bytes
<1>3. Sits(data, from, << >>)
  BY <1>2 DEF Sits
<1> QED
  BY <1>1, <1>2, <1>3 DEF Lies

\* No step goes back.
LEMMA StepsBelow ==
    ASSUME NEW n \in Nat, NEW p, \A k \in 1 .. n + 1 : p[k] \in Nat, \A k \in 1 .. n : p[k] <= p[k + 1]
    PROVE  \A k \in 1 .. n + 1 : p[k] <= p[n + 1]
<1> DEFINE T == {m \in 1 .. n + 1 : p[n + 2 - m] <= p[n + 1]}
<1>1. 1 \in T
  <2>1. n + 2 - 1 = n + 1 /\ 1 \in 1 .. n + 1 /\ n + 1 \in 1 .. n + 1
    OBVIOUS
  <2>2. p[n + 1] \in Nat
    BY <2>1
  <2> QED
    BY <2>1, <2>2
<1>2. ASSUME NEW m \in 1 .. n + 1, m < n + 1, m \in T PROVE m + 1 \in T
  <2> DEFINE k == n + 1 - m
  <2>1. k \in 1 .. n /\ n + 2 - m = k + 1 /\ n + 2 - (m + 1) = k /\ m + 1 \in 1 .. n + 1
        /\ k \in 1 .. n + 1 /\ k + 1 \in 1 .. n + 1 /\ n + 1 \in 1 .. n + 1
    BY <1>2
  <2> HIDE DEF k
  <2>2. p[k + 1] <= p[n + 1]
    BY <1>2, <2>1
  <2>3. p[k] <= p[k + 1] /\ p[k] \in Nat /\ p[k + 1] \in Nat /\ p[n + 1] \in Nat
    BY <2>1
  <2>4. p[k] <= p[n + 1]
    BY <2>2, <2>3
  <2> QED
    BY <2>1, <2>4
<1>3. 1 .. n + 1 \subseteq T
  <2> HIDE DEF T
  <2>1. n + 1 \in Nat
    OBVIOUS
  <2> QED
    BY <1>1, <1>2, <2>1, UpTo
<1>4. ASSUME NEW k \in 1 .. n + 1 PROVE p[k] <= p[n + 1]
  <2>1. n + 2 - k \in 1 .. n + 1 /\ n + 2 - (n + 2 - k) = k
    OBVIOUS
  <2>2. n + 2 - k \in T
    BY <1>3, <2>1
  <2> QED
    BY <2>1, <2>2
<1> QED
  BY <1>4

\* Many parts, one behind the other.
LEMMA LiesFlatten ==
    ASSUME NEW data \in Bytes, NEW n \in Nat, NEW ss \in [1 .. n -> Seq(Byte)], NEW p,
           p[1] \in Nat, p[1] <= Len(data), \A k \in 1 .. n : Lies(data, p[k], ss[k], p[k + 1])
    PROVE  Lies(data, p[1], FlattenSeq(ss), p[n + 1])
<1>1. Len(ss) = n /\ DOMAIN ss = 1 .. n
  OBVIOUS
<1>2. CASE n = 0
  <2>1. FlattenSeq(ss) = << >>
    BY <1>1, <1>2, FlattenEmpty
  <2>2. PICK z \in Nat : z = 0
    OBVIOUS
  <2>3. p[1] + z <= Len(data) /\ n + 1 = 1
    BY <1>2, <2>2 DEF Bytes
  <2>4. Lies(data, p[1], << >>, p[1])
    BY <2>2, <2>3, LiesAt
  <2> QED
    BY <2>1, <2>3, <2>4
<1>3. CASE n # 0
  <2>1. n \in Nat \ {0} /\ n \in 1 .. n /\ 1 \in 1 .. n
    BY <1>3
  <2>2. PICK h : Joins(ss, n, h) /\ FlattenSeq(ss) = h[n]
    BY <2>1, FlattenJoins
  <2>3. /\ h[1] = ss[1]
        /\ \A k \in 1 .. n : k < n => h[k + 1] = h[k] \o ss[k + 1]
        /\ \A k \in 1 .. n : h[k] \in Seq(Byte)
    BY <2>1, <2>2, JoinsSteps
  <2> DEFINE T == {k \in 1 .. n : Lies(data, p[1], h[k], p[k + 1])}
  <2>4. 1 \in T
    BY <2>1, <2>3
  <2>5. ASSUME NEW k \in 1 .. n, k < n, k \in T PROVE k + 1 \in T
    <3>1. k + 1 \in 1 .. n /\ h[k + 1] = h[k] \o ss[k + 1]
      <4>1. k + 1 \in 1 .. n
        <5> HIDE DEF T
        <5> QED
          BY <2>5
      <4>2. h[k + 1] = h[k] \o ss[k + 1]
        <5> HIDE DEF T
        <5> QED
          BY <2>3, <2>5
      <4> QED
        BY <4>1, <4>2
    <3>2. Lies(data, p[1], h[k], p[k + 1]) /\ Lies(data, p[k + 1], ss[k + 1], p[(k + 1) + 1])
      BY <2>5, <3>1
    <3>3. Lies(data, p[1], h[k] \o ss[k + 1], p[(k + 1) + 1])
      BY <3>2, LiesJoin
    <3> QED
      BY <3>1, <3>3
  <2>6. 1 .. n \subseteq T
    <3> HIDE DEF T
    <3> QED
      BY <2>4, <2>5, UpTo
  <2> QED
    BY <2>1, <2>2, <2>6
<1> QED
  BY <1>2, <1>3

\* A count was written in one of the ways there are.
LEMMA CountWritten ==
    ASSUME NEW data \in Bytes, NEW n, NEW from \in Nat, NEW to \in Nat, to <= Len(data),
           IsCount(data, n, from, to)
    PROVE  /\ n \in Nat /\ from <= to
           /\ \E width \in Widths : Fits(n, width) /\ Lies(data, from, Count(n, width), to)
<1>1. Len(data) \in Nat /\ data \in Seq(Byte) /\ \A k \in 1 .. Len(data) : data[k] \in Byte
  BY ElementOfSeq DEF Bytes
<1>2. CASE data[from + 1] < 253 /\ to = from + 1 /\ n = data[from + 1]
  <2> DEFINE b == Count(n, 1)
  <2>1. n \in Byte /\ n < 253
    BY <1>1, <1>2
  <2>2. n \in Nat /\ 1 \in Widths /\ Fits(n, 1)
    BY <2>1 DEF Byte, Widths, Fits, CountLimit
  <2>3. b \in Seq(Byte) /\ Len(b) = 1 /\ b[1] = n
    BY <2>2, CountBytes DEF Bytes
  <2> HIDE DEF b
  <2>4. Sits(data, from, b)
    BY <1>2, <2>3 DEF Sits
  <2>5. Lies(data, from, b, to)
    BY <1>2, <2>3, <2>4 DEF Lies
  <2> QED
    BY <1>2, <2>2, <2>5 DEF b
<1>3. CASE /\ data[from + 1] >= 253
           /\ to = from + (IF data[from + 1] = 253 THEN 3 ELSE IF data[from + 1] = 254 THEN 5 ELSE 9)
           /\ n = data[from + 2] + 256 * data[from + 3]
           /\ \A k \in from + 4 .. to : data[k] = 0
  <2> DEFINE mark  == data[from + 1]
             low   == data[from + 2]
             high  == data[from + 3]
             width == IF mark = 253 THEN 3 ELSE IF mark = 254 THEN 5 ELSE 9
             b     == Count(n, width)
  <2>1. width \in {3, 5, 9} /\ to = from + width /\ from + 3 <= Len(data)
    BY <1>3
  <2>2. mark \in Byte /\ low \in Byte /\ high \in Byte
    <3>1. from + 1 \in 1 .. Len(data) /\ from + 2 \in 1 .. Len(data) /\ from + 3 \in 1 .. Len(data)
      BY <1>1, <2>1
    <3> QED
      BY <1>1, <3>1
  <2>3. mark = Mark(width)
    <3>1. mark \in 0 .. 255 /\ mark >= 253
      BY <1>3, <2>2 DEF Byte
    <3> HIDE DEF mark
    <3>2. mark = 253 \/ mark = 254 \/ mark = 255
      BY <3>1
    <3> QED
      BY <3>2 DEF Mark
  <2>4. n = low + 256 * high /\ low \in 0 .. 255 /\ high \in 0 .. 255
    BY <1>3, <2>2 DEF Byte
  <2>5. \A k \in 4 .. width : data[from + k] = 0
    <3>1. \A k \in 4 .. width : from + k \in from + 4 .. to
      BY <2>1
    <3> QED
      BY <1>3, <3>1
  <2> HIDE DEF mark, low, high, width
  <2>6. n \in Nat /\ n < 65536
    BY <2>4
  <2>7. width \in Widths /\ width # 1 /\ Fits(n, width)
    BY <2>1, <2>6 DEF Widths, Fits, CountLimit
  <2>8. /\ b \in Seq(Byte) /\ Len(b) = width
        /\ b[1] = Mark(width) /\ b[2] = n % 256 /\ b[3] = n \div 256
        /\ n = (n % 256) + 256 * (n \div 256)
        /\ \A k \in 4 .. width : b[k] = 0
    BY <2>6, <2>7, CountBytes DEF Bytes
  <2>9. n % 256 = low /\ n \div 256 = high
    <3>1. n % 256 \in 0 .. 255 /\ n \div 256 \in Nat
      BY <2>6, Z3
    <3> DEFINE r == n % 256
               q == n \div 256
    <3>2. r \in 0 .. 255 /\ q \in Nat /\ n = r + 256 * q
      BY <2>8, <3>1
    <3> HIDE DEF r, q
    <3>3. r = low /\ q = high
      BY <2>4, <3>2
    <3> QED
      BY <3>3 DEF r, q
  <2> HIDE DEF b
  <2>10. ASSUME NEW k \in 1 .. width PROVE data[from + k] = b[k]
    <3>1. CASE k \in 4 .. width
      BY <2>5, <2>8, <3>1
    <3>2. CASE k \notin 4 .. width
      <4>1. k \in {1, 2, 3}
        BY <2>1, <3>2
      <4> QED
        BY <2>3, <2>8, <2>9, <4>1 DEF mark, low, high
    <3> QED
      BY <3>1, <3>2
  <2>11. Lies(data, from, b, to)
    BY <1>1, <2>1, <2>8, <2>10 DEF Lies, Sits
  <2> QED
    BY <2>1, <2>6, <2>7, <2>11 DEF b
<1> QED
  BY <1>2, <1>3, Zenon DEF IsCount

\* How a list is written.
WriteList(flag, items, width) == IF flag THEN Count(Len(items), width) \o FlattenSeq(items) ELSE << >>

\* So was a list, with the items it has.
LEMMA ListWritten ==
    ASSUME NEW data \in Bytes, NEW t, Shape(t), NEW s \in 1 .. MaxSigners, NEW l \in Lists,
           NEW from \in Nat, from <= Len(data), NEW to \in Nat, to <= Len(data),
           ListLies(data, t, s, l, from, to)
    PROVE  \E items \in Seq([1 .. ItemLen(l) -> Byte]), width \in Widths :
              /\ Fits(Len(items), width)
              /\ ~HasFlag(l, t.signers[s].scope) => items = << >>
              /\ Lies(data, from, WriteList(HasFlag(l, t.signers[s].scope), items, width), to)
<1> DEFINE n    == t.signers[s].size[l]
           a    == t.signers[s].allowed[l]
           len  == ItemLen(l)
           flag == HasFlag(l, t.signers[s].scope)
<1>1. Len(data) \in Nat /\ len \in Nat
  BY ScriptAssumption DEF Bytes, ItemLen
<1>2. CASE ~flag
  <2>1. to = from
    BY <1>2 DEF ListLies
  <2>2. Lies(data, from, << >>, to)
    <3>1. PICK z \in Nat : z = 0
      OBVIOUS
    <3>2. from + z <= Len(data)
      BY <3>1
    <3> QED
      BY <2>1, <3>2, LiesAt
  <2>3. << >> \in Seq([1 .. len -> Byte]) /\ 1 \in Widths /\ Fits(Len(<< >>), 1)
    BY DEF Widths, Fits, CountLimit
  <2>4. WriteList(flag, << >>, 1) = << >>
    BY <1>2 DEF WriteList
  <2> QED
    BY <2>2, <2>3, <2>4
<1>3. CASE flag
  <2>1. PICK first \in from .. to : IsCount(data, n, from, first) /\ ItemsLie(t, s, l, n, first, to)
    BY <1>3 DEF ListLies
  <2>2. first \in Nat /\ first <= Len(data)
    BY <1>1, <2>1
  <2>3. PICK width \in Widths : Fits(n, width) /\ Lies(data, from, Count(n, width), first)
    BY <2>1, <2>2, CountWritten
  <2>4. n \in 0 .. Limit(l) /\ a \in [1 .. Limit(l) -> Nat] /\ Limit(l) \in Nat
    BY Limits DEF Shape, IsTx
  <2>5. /\ first = IF n = 0 THEN to ELSE a[1]
        /\ \A k \in 1 .. n : a[k] + len = IF k = n THEN to ELSE a[k + 1]
    BY <2>1 DEF ItemsLie
  <2> DEFINE p     == [k \in 1 .. n + 1 |-> IF k = n + 1 THEN to ELSE a[k]]
             items == [k \in 1 .. n |-> At(data, p[k], len)]
  <2> HIDE DEF n, a, len, flag
  <2>6. n \in Nat /\ \A k \in 1 .. n : a[k] \in Nat
    BY <2>4
  <2>7. p[1] = first /\ p[n + 1] = to /\ \A k \in 1 .. n + 1 : p[k] \in Nat
    <3>1. 1 \in 1 .. n + 1 /\ n + 1 \in 1 .. n + 1 /\ \A k \in 1 .. n + 1 : k # n + 1 => k \in 1 .. n
      BY <2>6
    <3>2. p[n + 1] = to /\ \A k \in 1 .. n : p[k] = a[k]
      BY <2>6, <3>1
    <3>3. p[1] = first
      <4>1. CASE n = 0
        BY <2>5, <3>2, <4>1
      <4>2. CASE n # 0
        <5>1. 1 \in 1 .. n
          BY <2>6, <4>2
        <5> QED
          BY <2>5, <3>2, <4>2, <5>1
      <4> QED
        BY <4>1, <4>2
    <3> QED
      BY <2>6, <3>1, <3>2, <3>3
  <2>8. \A k \in 1 .. n : p[k + 1] = p[k] + len
    <3> TAKE k \in 1 .. n
    <3>1. k \in 1 .. n + 1 /\ k # n + 1 /\ k + 1 \in 1 .. n + 1 /\ (k + 1 = n + 1 <=> k = n)
      BY <2>6
    <3>2. p[k] = a[k] /\ p[k + 1] = IF k = n THEN to ELSE a[k + 1]
      BY <3>1
    <3> QED
      BY <2>5, <3>2
  <2> HIDE DEF p
  <2>9. \A k \in 1 .. n + 1 : p[k] <= p[n + 1]
    <3>1. \A k \in 1 .. n : p[k] <= p[k + 1]
      <4> TAKE k \in 1 .. n
      <4>1. k \in 1 .. n + 1
        BY <2>6
      <4> QED
        BY <1>1, <2>7, <2>8, <4>1 DEF len
    <3> QED
      BY <2>6, <2>7, <3>1, StepsBelow
  <2>10. ASSUME NEW k \in 1 .. n
         PROVE  items[k] \in [1 .. len -> Byte] /\ items[k] \in Seq(Byte) /\ Lies(data, p[k], items[k], p[k + 1])
    <3>1. k + 1 \in 1 .. n + 1 /\ k \in 1 .. n + 1
      BY <2>6
    <3>2. p[k] \in Nat /\ p[k] + len <= Len(data) /\ p[k + 1] = p[k] + len /\ len \in Nat
      BY <1>1, <2>7, <2>8, <2>9, <3>1 DEF len
    <3>3. Lies(data, p[k], At(data, p[k], len), p[k] + len) /\ At(data, p[k], len) \in [1 .. len -> Byte]
      BY <3>2, LiesAt
    <3>4. items[k] = At(data, p[k], len)
      OBVIOUS
    <3> QED
      BY <3>2, <3>3, <3>4 DEF Lies
  <2>11. items \in [1 .. n -> Seq(Byte)] /\ items \in Seq([1 .. len -> Byte]) /\ Len(items) = n
    <3>1. items = [k \in 1 .. n |-> items[k]]
      OBVIOUS
    <3> HIDE DEF items
    <3>2. items \in [1 .. n -> Seq(Byte)] /\ items \in [1 .. n -> [1 .. len -> Byte]]
      BY <2>10, <3>1
    <3>3. items \in Seq([1 .. len -> Byte])
      BY <2>6, <3>2
    <3> QED
      BY <2>6, <3>2, <3>3
  <2> HIDE DEF items
  <2>12. Lies(data, first, FlattenSeq(items), to)
    <3>1. p[1] \in Nat /\ p[1] <= Len(data)
      BY <2>2, <2>7
    <3>2. Lies(data, p[1], FlattenSeq(items), p[n + 1])
      BY <2>6, <2>10, <2>11, <3>1, LiesFlatten
    <3> QED
      BY <2>7, <3>2
  <2>13. Lies(data, from, Count(n, width) \o FlattenSeq(items), to)
    <3> DEFINE b == Count(n, width)
               f == FlattenSeq(items)
    <3>1. Lies(data, from, b, first) /\ Lies(data, first, f, to)
      BY <2>3, <2>12
    <3> HIDE DEF b, f
    <3>2. Lies(data, from, b \o f, to)
      BY <3>1, LiesJoin
    <3> QED
      BY <3>2 DEF b, f
  <2>14. WriteList(flag, items, width) = Count(n, width) \o FlattenSeq(items)
    BY <1>3, <2>11 DEF WriteList
  <2> QED
    BY <1>3, <2>3, <2>11, <2>13, <2>14 DEF flag, len
<1> QED
  BY <1>2, <1>3

\* So was a signer.
LEMMA SignerWritten ==
    ASSUME NEW data \in Bytes, NEW t, Shape(t), NEW s \in 1 .. MaxSigners,
           NEW to \in Nat, to <= Len(data), SignerLies(data, t, s, to)
    PROVE  \E signer : IsSigner(signer) /\ Lies(data, t.signers[s].account, SignerBytes(signer), to)
<1> DEFINE from  == t.signers[s].account
           scope == t.signers[s].scope
           place == from + UINT160_LEN
           lists == place + 1
<1>1. PICK groups \in lists .. to :
         ListLies(data, t, s, "contracts", lists, groups) /\ ListLies(data, t, s, "groups", groups, to)
  BY DEF SignerLies
<1>2. scope = data[lists]
  BY DEF SignerLies
<1>3. from \in Nat /\ UINT160_LEN \in Nat /\ data \in Seq(Byte) /\ Len(data) \in Nat
  BY ScriptAssumption DEF Shape, Bytes
<1> HIDE DEF from, scope
<1>4. /\ place \in Nat /\ lists \in Nat /\ lists = place + 1 /\ place = from + UINT160_LEN
      /\ groups \in Nat /\ lists <= groups /\ groups <= to
  BY <1>1, <1>3
<1> HIDE DEF place, lists
<1>5. lists <= Len(data) /\ groups <= Len(data) /\ from + UINT160_LEN <= Len(data) /\ place + 1 <= Len(data)
  BY <1>3, <1>4
<1>6. "contracts" \in Lists /\ "groups" \in Lists /\ ItemLen("contracts") = UINT160_LEN
      /\ ItemLen("groups") = ECPOINT_LEN
  BY DEF Lists, ItemLen
<1>7. PICK cs \in Seq(Hashes), w1 \in Widths :
         /\ Fits(Len(cs), w1)
         /\ ~HasFlag("contracts", scope) => cs = << >>
         /\ Lies(data, lists, WriteList(HasFlag("contracts", scope), cs, w1), groups)
  BY <1>1, <1>4, <1>5, <1>6, ListWritten DEF Hashes, scope
<1>8. PICK gs \in Seq(Points), w2 \in Widths :
         /\ Fits(Len(gs), w2)
         /\ ~HasFlag("groups", scope) => gs = << >>
         /\ Lies(data, groups, WriteList(HasFlag("groups", scope), gs, w2), to)
  BY <1>1, <1>4, <1>5, <1>6, ListWritten DEF Points, scope
<1> DEFINE account == At(data, from, UINT160_LEN)
           widths  == [l \in Lists |-> IF l = "contracts" THEN w1 ELSE w2]
           signer  == [account |-> account, scope |-> scope, contracts |-> cs, groups |-> gs, widths |-> widths]
<1>9. account \in Hashes /\ Lies(data, from, account, place)
  BY <1>3, <1>4, <1>5, LiesAt DEF Hashes
<1>10. scope \in Byte /\ Lies(data, place, << scope >>, lists)
  <2>1. scope \in Byte
    <3>1. lists \in 1 .. Len(data)
      BY <1>4, <1>5
    <3> QED
      BY <1>2, <1>3, <3>1, ElementOfSeq DEF scope
  <2>2. << scope >> \in Seq(Byte) /\ Len(<< scope >>) = 1
    BY <2>1
  <2>3. Sits(data, place, << scope >>)
    BY <1>2, <1>4, <1>5, <2>2 DEF Sits, scope
  <2> QED
    BY <1>4, <2>1, <2>2, <2>3 DEF Lies
<1>11. /\ signer.account = account /\ signer.scope = scope /\ signer.contracts = cs /\ signer.groups = gs
       /\ signer.widths = widths
  OBVIOUS
<1>12. widths \in [Lists -> Widths] /\ widths["contracts"] = w1 /\ widths["groups"] = w2
  BY <1>6
<1> HIDE DEF account, widths
<1>13. signer \in Signers
  BY <1>7, <1>8, <1>9, <1>10, <1>12 DEF Signers
<1> HIDE DEF signer
<1>14. IsSigner(signer)
  <2>1. ASSUME NEW l \in Lists
        PROVE  /\ Fits(Len(Listed(signer, l)), signer.widths[l])
               /\ ~HasFlag(l, signer.scope) => Listed(signer, l) = << >>
    <3>1. CASE l = "contracts"
      BY <1>7, <1>11, <1>12, <3>1 DEF Listed
    <3>2. CASE l = "groups"
      BY <1>8, <1>11, <1>12, <3>2 DEF Listed
    <3> QED
      BY <3>1, <3>2 DEF Lists
  <2> QED
    BY <1>13, <2>1 DEF IsSigner
<1> DEFINE c == WriteList(HasFlag("contracts", scope), cs, w1)
           g == WriteList(HasFlag("groups", scope), gs, w2)
<1>15. ListBytes(signer, "contracts") = c /\ ListBytes(signer, "groups") = g
  BY <1>11, <1>12 DEF ListBytes, Listed, WriteList
<1>16. Lies(data, lists, c, groups) /\ Lies(data, groups, g, to)
  BY <1>7, <1>8
<1>17. SignerBytes(signer) = account \o << scope >> \o c \o g
  BY <1>11, <1>15 DEF SignerBytes
<1> HIDE DEF c, g
<1>18. Lies(data, from, account \o << scope >>, lists)
  BY <1>3, <1>9, <1>10, LiesJoin
<1>19. Lies(data, from, account \o << scope >> \o c, groups)
  BY <1>3, <1>16, <1>18, LiesJoin
<1>20. Lies(data, from, account \o << scope >> \o c \o g, to)
  BY <1>3, <1>16, <1>19, LiesJoin
<1> QED
  BY <1>14, <1>17, <1>20 DEF from

\* So were the signers.
LEMMA SignersWritten ==
    ASSUME NEW data \in Bytes, NEW t, Shape(t), NEW from \in Nat, from <= Len(data),
           NEW to \in Nat, to <= Len(data), SignersLie(data, t, t.signers_size, from, to)
    PROVE  \E signers \in Seq(Signers) :
              /\ Len(signers) = t.signers_size /\ \A s \in DOMAIN signers : IsSigner(signers[s])
              /\ Lies(data, from, FlattenSeq([s \in DOMAIN signers |-> SignerBytes(signers[s])]), to)
<1> DEFINE n == t.signers_size
           p == [s \in 1 .. n + 1 |-> IF s = n + 1 THEN to ELSE t.signers[s].account]
<1>1. n \in Nat /\ n \in 0 .. t.signers_size /\ \A s \in 1 .. n : s \in 1 .. MaxSigners
  BY Limits DEF Shape, IsTx
<1>2. \A s \in 1 .. n : /\ t.signers[s].account \in Nat /\ EndOf(t, n, s, to) \in Nat
                        /\ EndOf(t, n, s, to) <= to
  BY <1>1, SignersBelow
<1>3. /\ from = IF n = 0 THEN to ELSE t.signers[1].account
      /\ \A s \in 1 .. n : SignerLies(data, t, s, EndOf(t, n, s, to))
  BY DEF SignersLie, EndOf
<1> HIDE DEF n
<1>4. /\ p[n + 1] = to /\ \A s \in 1 .. n : p[s] = t.signers[s].account /\ p[s + 1] = EndOf(t, n, s, to)
  <2>1. n + 1 \in 1 .. n + 1
    BY <1>1
  <2>2. ASSUME NEW s \in 1 .. n PROVE p[s] = t.signers[s].account /\ p[s + 1] = EndOf(t, n, s, to)
    <3>1. s \in 1 .. n + 1 /\ s # n + 1 /\ s + 1 \in 1 .. n + 1 /\ (s + 1 = n + 1 <=> s = n)
      BY <1>1
    <3> QED
      BY <3>1 DEF EndOf
  <2> QED
    BY <2>1, <2>2
<1>5. p[1] = from
  <2>1. CASE n = 0
    BY <1>3, <1>4, <2>1
  <2>2. CASE n # 0
    <3>1. 1 \in 1 .. n
      BY <1>1, <2>2
    <3> QED
      BY <1>3, <1>4, <2>2, <3>1
  <2> QED
    BY <2>1, <2>2
<1> HIDE DEF p
<1> DEFINE Is(s, signer) == IsSigner(signer) /\ Lies(data, p[s], SignerBytes(signer), p[s + 1])
           signers == [s \in 1 .. n |-> CHOOSE signer : Is(s, signer)]
           ss      == [s \in DOMAIN signers |-> SignerBytes(signers[s])]
<1>6. ASSUME NEW s \in 1 .. n PROVE IsSigner(signers[s]) /\ Lies(data, p[s], SignerBytes(signers[s]), p[s + 1])
  <2> DEFINE end == EndOf(t, n, s, to)
  <2>1. end \in Nat /\ end <= Len(data) /\ SignerLies(data, t, s, end) /\ s \in 1 .. MaxSigners
    BY <1>1, <1>2, <1>3 DEF Bytes
  <2>2. p[s] = t.signers[s].account /\ p[s + 1] = end
    BY <1>4
  <2> HIDE DEF end
  <2>3. \E signer : Is(s, signer)
    BY <2>1, <2>2, SignerWritten
  <2>4. signers[s] = CHOOSE signer : Is(s, signer)
    OBVIOUS
  <2> HIDE DEF signers
  <2>5. Is(s, signers[s])
    <3> HIDE DEF Is
    <3> QED
      BY <2>3, <2>4, Zenon
  <2> QED
    BY <2>5
<1>7. DOMAIN signers = 1 .. n /\ signers = [s \in 1 .. n |-> signers[s]]
  OBVIOUS
<1> HIDE DEF signers
<1>8. signers \in Seq(Signers) /\ Len(signers) = n
  <2>1. signers \in [1 .. n -> Signers]
    BY <1>6, <1>7 DEF IsSigner
  <2> QED
    BY <1>1, <2>1
<1>9. \A s \in 1 .. n : ss[s] = SignerBytes(signers[s]) /\ ss[s] \in Seq(Byte)
  BY <1>6, <1>7 DEF Lies
<1>10. ss \in [1 .. n -> Seq(Byte)]
  BY <1>7, <1>9
<1> HIDE DEF ss
<1>11. Lies(data, p[1], FlattenSeq(ss), p[n + 1])
  <2>1. p[1] \in Nat /\ p[1] <= Len(data) /\ \A s \in 1 .. n : Lies(data, p[s], ss[s], p[s + 1])
    BY <1>5, <1>6, <1>9
  <2> QED
    BY <1>1, <1>10, <2>1, LiesFlatten
<1>12. Lies(data, from, FlattenSeq(ss), to)
  BY <1>4, <1>5, <1>11
<1> QED
  BY <1>6, <1>7, <1>8, <1>12 DEF ss, n

\* The header.
LEMMA HeaderWritten ==
    ASSUME NEW data \in Bytes, NEW t, Shape(t), HeaderLies(data, t, 5), HeaderAt[6] <= Len(data)
    PROVE  /\ \A f \in Headers : t.header[f] \in [1 .. Width(f) -> Byte]
           /\ HeaderAt[6] \in Nat
           /\ Lies(data, 0, FlattenSeq([k \in DOMAIN HeaderFields |-> t.header[HeaderFields[k]]]), HeaderAt[6])
<1> DEFINE ss == [k \in DOMAIN HeaderFields |-> t.header[HeaderFields[k]]]
<1>1. /\ \A k \in 1 .. 6 : HeaderAt[k] \in Nat
      /\ \A k \in 1 .. 5 : HeaderAt[k] + Width(HeaderFields[k]) <= HeaderAt[6]
  BY HeaderBelow
<1>2. Len(data) \in Nat
  BY DEF Bytes
<1>3. ASSUME NEW k \in 1 .. 5
      PROVE  /\ t.header[HeaderFields[k]] \in [1 .. Width(HeaderFields[k]) -> Byte]
             /\ Lies(data, HeaderAt[k], t.header[HeaderFields[k]], HeaderAt[k + 1])
  <2> DEFINE w == Width(HeaderFields[k])
             o == HeaderAt[k]
  <2>1. w \in Nat
    BY WidthType
  <2>2. k \in 1 .. 6 /\ 6 \in 1 .. 6
    OBVIOUS
  <2>3. o \in Nat /\ o + w <= HeaderAt[6] /\ HeaderAt[6] \in Nat
    BY <1>1, <2>2
  <2>4. o + w = HeaderAt[k + 1] /\ t.header[HeaderFields[k]] = At(data, o, w)
    BY HeaderEnds DEF HeaderLies
  <2> HIDE DEF w, o
  <2>5. o + w <= Len(data)
    BY <1>2, <2>1, <2>3
  <2>6. Lies(data, o, At(data, o, w), o + w) /\ At(data, o, w) \in [1 .. w -> Byte]
    BY <2>1, <2>3, <2>5, LiesAt
  <2> QED
    BY <2>4, <2>6 DEF w, o
<1>4. ASSUME NEW f \in Headers PROVE t.header[f] \in [1 .. Width(f) -> Byte]
  <2>1. PICK k \in 1 .. 5 : f = HeaderFields[k]
    BY HeaderEnds DEF Headers
  <2> QED
    BY <1>3, <2>1
<1>5. DOMAIN HeaderFields = 1 .. 5 /\ HeaderAt[1] = 0
  BY HeaderEnds
<1>6. \A k \in 1 .. 5 : ss[k] = t.header[HeaderFields[k]] /\ ss[k] \in Seq(Byte)
  BY <1>3, <1>5 DEF Lies
<1>7. ss \in [1 .. 5 -> Seq(Byte)]
  BY <1>5, <1>6
<1> HIDE DEF ss
<1>8. PICK n \in Nat : n = 5
  OBVIOUS
<1>9. /\ ss \in [1 .. n -> Seq(Byte)] /\ HeaderAt[1] \in Nat /\ HeaderAt[1] <= Len(data)
      /\ \A k \in 1 .. n : Lies(data, HeaderAt[k], ss[k], HeaderAt[k + 1])
  BY <1>2, <1>3, <1>5, <1>6, <1>7, <1>8
<1>10. Lies(data, HeaderAt[1], FlattenSeq(ss), HeaderAt[n + 1])
  BY <1>9, LiesFlatten
<1>11. n + 1 = 6 /\ 6 \in 1 .. 6
  BY <1>8
<1> QED
  BY <1>1, <1>4, <1>5, <1>10, <1>11 DEF ss

\* The attributes.
LEMMA AttributesWritten ==
    ASSUME NEW data \in Bytes, NEW t, t.attributes_size \in Nat, NEW from \in Nat, NEW to \in Nat,
           from <= Len(data), to <= Len(data), AttributesLie(data, t, from, to)
    PROVE  \E width \in Widths :
              /\ Fits(t.attributes_size, width)
              /\ Lies(data, from, Count(t.attributes_size, width)
                                    \o [a \in 1 .. t.attributes_size |-> HIGH_PRIORITY], to)
<1> DEFINE n    == t.attributes_size
           mark == to - n
           all  == [a \in 1 .. n |-> HIGH_PRIORITY]
<1>1. IsCount(data, n, from, mark) /\ \A k \in mark + 1 .. to : data[k] = HIGH_PRIORITY
  BY DEF AttributesLie
<1>2. Len(data) \in Nat /\ n \in Nat /\ mark \in Int /\ mark + n = to
  BY DEF Bytes
<1> HIDE DEF n, mark
<1>3. mark \in Nat /\ mark <= Len(data)
  BY <1>1, <1>2 DEF IsCount
<1>4. PICK width \in Widths : Fits(n, width) /\ Lies(data, from, Count(n, width), mark)
  BY <1>1, <1>3, CountWritten
<1>5. all \in Seq(Byte) /\ Len(all) = n /\ \A k \in 1 .. n : all[k] = HIGH_PRIORITY
  <2>1. HIGH_PRIORITY \in Byte
    BY DEF HIGH_PRIORITY, Byte
  <2> QED
    BY <1>2, <2>1
<1> HIDE DEF all
<1>6. Lies(data, mark, all, to)
  <2>1. \A k \in 1 .. n : mark + k \in mark + 1 .. to
    BY <1>2, <1>3
  <2> QED
    BY <1>1, <1>2, <1>5, <2>1 DEF Lies, Sits
<1> DEFINE b == Count(n, width)
<1>7. Lies(data, from, b, mark)
  BY <1>4
<1> HIDE DEF b
<1>8. Lies(data, from, b \o all, to)
  BY <1>6, <1>7, LiesJoin
<1> QED
  BY <1>4, <1>8 DEF n, all, b

\* Every script does something.
LEMMA ScriptMeant ==
    ASSUME NEW code \in Bytes
    PROVE  \E does : (does \in Transfers \cup Votes \/ IsOther(does)) /\ ScriptOf(does) = code
<1>1. CASE \E d \in FoundIn(code) : ScriptOf(d) = code
  <2>1. PICK d \in FoundIn(code) : ScriptOf(d) = code
    BY <1>1
  <2>2. d \in Transfers \cup Votes
    <3> DEFINE hashes    == Operands(code) \cap Hashes
               transfers == [kind : {"transfer"}, push : Operands(code) \cap Pushes, dst : hashes,
                             src : hashes, asset : {"NEO", "GAS"}]
               votes     == {vote \in [kind : {"vote"}, key : Operands(code), voter : hashes] : vote \in Votes}
    <3>1. FoundIn(code) = transfers \cup votes
      BY DEF FoundIn, Operands
    <3>2. transfers \subseteq Transfers
      BY DEF Transfers
    <3>3. votes \subseteq Votes
      OBVIOUS
    <3> HIDE DEF transfers, votes
    <3> QED
      BY <2>1, <3>1, <3>2, <3>3
  <2> QED
    BY <2>1, <2>2
<1>2. CASE \A d \in FoundIn(code) : ScriptOf(d) # code
  <2> DEFINE does == [kind |-> "other", code |-> code]
  <2>1. does.kind = "other" /\ does.code = code
    OBVIOUS
  <2> HIDE DEF does
  <2> QED
    BY <1>2, <2>1 DEF IsOther, ScriptOf
<1> QED
  BY <1>1, <1>2

\* So was all of it.
LEMMA CoversWritten ==
    ASSUME NEW data \in Bytes, NEW t, Shape(t), Covers(data, t)
    PROVE  \E c : IsContent(c) /\ Encode(c) = data
<1>1. /\ t.signers_size \in Nat /\ t.attributes_size \in Nat /\ t.script \in Nat /\ t.script_size \in Nat
      /\ Len(data) \in Nat /\ data \in Seq(Byte) /\ DOMAIN t.header = Headers
  BY Limits DEF Shape, IsTx, Bytes
<1>2. PICK from \in 0 .. Len(data) :
         /\ FrontLies(data, t, t.signers_size, from)
         /\ \E to \in from .. Len(data) :
               AttributesLie(data, t, from, to) /\ IsCount(data, t.script_size, to, t.script)
  BY DEF Covers
<1>3. PICK to \in from .. Len(data) :
         AttributesLie(data, t, from, to) /\ IsCount(data, t.script_size, to, t.script)
  BY <1>2
<1>4. t.script + t.script_size = Len(data)
  BY DEF Covers
<1>5. /\ from \in Nat /\ from <= Len(data) /\ to \in Nat /\ to <= Len(data) /\ t.script <= Len(data)
  BY <1>1, <1>3, <1>4
<1>6. PICK first \in 0 .. from :
         IsCount(data, t.signers_size, HeaderAt[6], first) /\ SignersLie(data, t, t.signers_size, first, from)
  BY <1>2 DEF FrontLies
<1>7. HeaderLies(data, t, 5)
  BY <1>2, HeaderEnds DEF FrontLies
<1>8. first \in Nat /\ first <= Len(data)
  BY <1>5
<1>9. HeaderAt[6] \in Nat
  BY HeaderBelow
<1>10. PICK w1 \in Widths : Fits(t.signers_size, w1) /\ Lies(data, HeaderAt[6], Count(t.signers_size, w1), first)
  BY <1>6, <1>8, <1>9, CountWritten
<1>11. HeaderAt[6] <= Len(data)
  <2>1. HeaderAt[6] <= first
    BY <1>6, <1>8, <1>9, CountWritten
  <2> QED
    BY <1>1, <1>8, <1>9, <2>1
<1> DEFINE h  == FlattenSeq([k \in DOMAIN HeaderFields |-> t.header[HeaderFields[k]]])
           c1 == Count(t.signers_size, w1)
<1>12. (\A f \in Headers : t.header[f] \in [1 .. Width(f) -> Byte]) /\ Lies(data, 0, h, HeaderAt[6])
  BY <1>7, <1>11, HeaderWritten
<1>13. PICK signers \in Seq(Signers) :
          /\ Len(signers) = t.signers_size /\ \A s \in DOMAIN signers : IsSigner(signers[s])
          /\ Lies(data, first, FlattenSeq([s \in DOMAIN signers |-> SignerBytes(signers[s])]), from)
  BY <1>5, <1>6, <1>8, SignersWritten
<1> DEFINE s1 == FlattenSeq([s \in DOMAIN signers |-> SignerBytes(signers[s])])
           a1 == [a \in 1 .. t.attributes_size |-> HIGH_PRIORITY]
<1>14. PICK w2 \in Widths :
          Fits(t.attributes_size, w2) /\ Lies(data, from, Count(t.attributes_size, w2) \o a1, to)
  BY <1>1, <1>3, <1>5, AttributesWritten
<1>15. PICK w3 \in Widths : Fits(t.script_size, w3) /\ Lies(data, to, Count(t.script_size, w3), t.script)
  BY <1>1, <1>3, <1>5, CountWritten
<1> DEFINE code == At(data, t.script, t.script_size)
<1>16. Lies(data, t.script, code, Len(data))
  BY <1>1, <1>4, LiesAt
<1>17. code \in Bytes /\ Len(code) = t.script_size
  BY <1>1, <1>4, AtSits DEF Bytes
<1>18. PICK does : (does \in Transfers \cup Votes \/ IsOther(does)) /\ ScriptOf(does) = code
  BY <1>17, ScriptMeant
<1> DEFINE widths == [signers |-> w1, attributes |-> w2, script |-> w3]
           c == [header |-> t.header, signers |-> signers, attributes |-> t.attributes_size,
                 does |-> does, widths |-> widths]
<1>19. /\ c.header = t.header /\ c.signers = signers /\ c.attributes = t.attributes_size /\ c.does = does
       /\ c.widths = widths
       /\ widths.signers = w1 /\ widths.attributes = w2 /\ widths.script = w3
       /\ widths \in [signers : Widths, attributes : Widths, script : Widths]
  OBVIOUS
<1> HIDE DEF c, widths
<1>20. IsContent(c)
  <2>1. DOMAIN c.header = {HeaderFields[k] : k \in DOMAIN HeaderFields}
    BY <1>1, <1>19 DEF Headers
  <2>2. \A f \in DOMAIN c.header : c.header[f] \in [1 .. Width(f) -> Byte]
    BY <1>1, <1>12, <1>19
  <2>3. c.signers \in Seq(Signers) /\ \A s \in DOMAIN c.signers : IsSigner(c.signers[s])
    BY <1>13, <1>19
  <2>4. c.attributes \in Nat /\ (c.does \in Transfers \cup Votes \/ IsOther(c.does))
    BY <1>1, <1>18, <1>19
  <2>5. Fits(Len(c.signers), c.widths.signers) /\ Fits(c.attributes, c.widths.attributes)
    BY <1>10, <1>13, <1>14, <1>19
  <2>6. Fits(Len(ScriptOf(c.does)), c.widths.script)
    BY <1>15, <1>17, <1>18, <1>19
  <2>7. c.widths \in [signers : Widths, attributes : Widths, script : Widths]
    BY <1>19
  <2> QED
    BY <2>1, <2>2, <2>3, <2>4, <2>5, <2>6, <2>7 DEF IsContent
<1> DEFINE c2 == Count(t.attributes_size, w2)
           c3 == Count(t.script_size, w3)
<1>21. Encode(c) = h \o c1 \o s1 \o c2 \o a1 \o c3 \o code
  BY <1>13, <1>17, <1>18, <1>19 DEF Encode
<1>22. /\ Lies(data, 0, h, HeaderAt[6]) /\ Lies(data, HeaderAt[6], c1, first) /\ Lies(data, first, s1, from)
       /\ Lies(data, from, c2 \o a1, to) /\ Lies(data, to, c3, t.script) /\ Lies(data, t.script, code, Len(data))
  BY <1>10, <1>12, <1>13, <1>14, <1>15, <1>16
<1>23. c2 \in Seq(Byte) /\ a1 \in Seq(Byte)
  <2>1. c2 \in Seq(Byte)
    BY <1>1, <1>14, CountBytes DEF Bytes
  <2>2. HIGH_PRIORITY \in Byte
    BY DEF HIGH_PRIORITY, Byte
  <2>3. a1 \in Seq(Byte)
    <3>1. t.attributes_size \in Nat
      BY <1>1
    <3> HIDE DEF HIGH_PRIORITY
    <3> QED
      BY <2>2, <3>1
  <2> QED
    BY <2>1, <2>3
<1> HIDE DEF h, c1, s1, c2, a1, c3, code
<1>24. PICK z \in Nat : z = 0
  OBVIOUS
<1>25. Lies(data, z, h \o c1, first)
  BY <1>22, <1>24, LiesJoin
<1>26. Lies(data, z, h \o c1 \o s1, from)
  BY <1>22, <1>25, LiesJoin
<1> DEFINE front == h \o c1 \o s1
<1>27. Lies(data, z, front \o (c2 \o a1), to)
  <2> DEFINE b == c2 \o a1
  <2>1. Lies(data, z, front, from) /\ Lies(data, from, b, to)
    BY <1>22, <1>26
  <2> HIDE DEF front, b
  <2>2. Lies(data, z, front \o b, to)
    BY <1>5, <1>24, <2>1, LiesJoin
  <2> QED
    BY <2>2 DEF b
<1>28. front \o (c2 \o a1) = front \o c2 \o a1
  <2>1. front \in Seq(Byte)
    BY <1>26 DEF Lies
  <2> HIDE DEF front
  <2> QED
    BY <1>23, <2>1, ConcatAssociative
<1>29. Lies(data, z, front \o c2 \o a1, to)
  BY <1>27, <1>28
<1> DEFINE most == front \o c2 \o a1
<1>30. Lies(data, z, most, to)
  BY <1>29
<1>31. Encode(c) = most \o c3 \o code
  BY <1>21
<1> HIDE DEF front, most
<1>32. Lies(data, z, most \o c3, t.script)
  BY <1>22, <1>30, LiesJoin
<1>33. Lies(data, z, most \o c3 \o code, Len(data))
  BY <1>22, <1>32, LiesJoin
<1> DEFINE e == most \o c3 \o code
<1>34. e \in Seq(Byte) /\ Sits(data, z, e) /\ Len(data) = z + Len(e)
  BY <1>33 DEF Lies
<1> HIDE DEF e
<1>35. Len(e) = Len(data) /\ \A k \in 1 .. Len(e) : e[k] = data[k]
  <2>1. Len(e) = Len(data)
    BY <1>24, <1>34
  <2>2. \A k \in 1 .. Len(e) : data[z + k] = e[k] /\ z + k = k
    BY <1>24, <1>34 DEF Sits
  <2> QED
    BY <2>1, <2>2
<1>36. e = data
  BY <1>1, <1>34, <1>35, SeqEqual
<1> QED
  BY <1>20, <1>31, <1>36 DEF e

---------------------------------------------------------------------------
(* What is under review.                                                   *)

\* A content that is encoded by the upload under review is within the limits, and the
\* transaction that was read is this one.
LEMMA ReviewedContent ==
    ASSUME OnceInv, FieldsInv, Checked, IsOpen, ~signed, NEW c, IsContent(c), Encode(c) = raw
    PROVE  Supported(c) /\ IsThat(raw, tx, c)
<1>1. raw \in Bytes /\ Shape(tx) /\ Covers(raw, tx) /\ Accepted(raw, tx)
  BY DEF OnceInv, Inside, FieldsInv, Checked
<1>2. PICK p : Laid(raw, c, p)
  BY <1>1, EncodeLaid
<1>3. Begins(raw, raw)
  BY <1>1 DEF Begins, Bytes
<1>4. IsThat(raw, tx, c)
  BY <1>1, <1>2, <1>3, CoversDecode
<1> QED
  BY <1>1, <1>4, AcceptedSupported

\* The pages show what it means.
LEMMA ContentShown ==
    ASSUME OnceInv, FieldsInv, Checked, Screen, PagesShowTransaction, IsOpen, ~signed,
           NEW c, IsContent(c), Encode(c) = raw, AmountShown(c)
    PROVE  Shows(c, ExpectedPairs(c))
<1> DEFINE w == ExpectedPairs(c)
           m == Len(page.pairs)
<1>1. IsThat(raw, tx, c)
  BY ReviewedContent
<1>2. /\ Shape(tx) /\ IsTx(tx) /\ Accepted(raw, tx) /\ tx.signers_size # 0
      /\ MatchedAfresh(tx, At(raw, tx.script, tx.script_size))
  BY DEF FieldsInv, Checked, Shape, Accepted
<1>3. IsMatched(tx, c.does)
  BY <1>1, <1>2, FieldsMatched
<1>4. title = ExpectedTitle(c)
  BY <1>3, SameTitle DEF PagesShowTransaction
<1>5. /\ Len(w) = Len(StaticItems(tx)) + Len(DynItems(tx))
      /\ Len(StaticItems(tx)) \in Nat /\ Len(DynItems(tx)) \in Nat
      /\ \A k \in 1 .. Len(w) : w[k] = PairAt(tx, k)
      /\ \E S : w \in Seq(S)
  BY <1>1, <1>2, <1>3, AllPairs
<1> HIDE DEF w
<1>6. PairsCount = Len(w)
  BY <1>5 DEF Screen, OnPage, IsOfTransaction, PairsCount
<1>7. /\ page.first \in Nat /\ m \in Nat /\ DOMAIN page.pairs = 1 .. m
      /\ page.first + m <= Len(w)
      /\ \A k \in 1 .. m : OnScreen[k] = PairAt(tx, page.first + k)
  <2>1. page \in Pages
    BY DEF Screen, OnPage
  <2>2. page.first \in Nat /\ page.pairs \in Seq(Pointers)
    BY <2>1 DEF Pages
  <2>3. m \in Nat /\ DOMAIN page.pairs = 1 .. m
    BY <2>2
  <2> QED
    BY <1>5, <2>2, <2>3 DEF PagesShowTransaction
<1> HIDE DEF m
<1> DEFINE first == page.first
           a     == At(w, first, m)
<1>8. first \in Nat /\ first + m <= Len(w) /\ Len(w) \in Nat
  BY <1>5, <1>7
<1> HIDE DEF first
<1>9. a = [k \in 1 .. m |-> w[first + k]]
  <2>1. PICK S : w \in Seq(S)
    BY <1>5
  <2>2. a = [k \in 1 .. (first + m) - (first + 1) + 1 |-> w[(first + 1) + k - 1]]
    BY <1>7, <1>8, <2>1 DEF At
  <2> QED
    BY <1>7, <1>8, <2>2
<1> HIDE DEF a
<1>10. OnScreen = [k \in 1 .. m |-> OnScreen[k]]
  BY <1>7 DEF OnScreen
<1>11. \A k \in 1 .. m : OnScreen[k] = w[first + k]
  BY <1>5, <1>7, <1>8 DEF first
<1>12. OnScreen = a
  BY <1>9, <1>10, <1>11
<1> QED
  BY <1>4, <1>6, <1>12 DEF Shows, a, first, m, w

\* Whatever the host sends and the limits are, an upload under review before a signature
\* encodes a transaction within the limits, and what the owner sees on any page is what a
\* transaction that it encodes means, at its place, unless it has a negative amount of
\* one byte: this one is read as a positive one.
THEOREM ReviewTheorem ==
    Spec => [](IsOpen /\ ~signed =>
                  /\ \E c : IsContent(c) /\ Encode(c) = raw
                  /\ \A c : (IsContent(c) /\ Encode(c) = raw)
                        => Supported(c) /\ (AmountShown(c) => Shows(c, ExpectedPairs(c))))
<1> DEFINE Review == IsOpen /\ ~signed =>
                        /\ \E c : IsContent(c) /\ Encode(c) = raw
                        /\ \A c : (IsContent(c) /\ Encode(c) = raw)
                              => Supported(c) /\ (AmountShown(c) => Shows(c, ExpectedPairs(c)))
<1>1. OnceInv /\ FieldsInv /\ Unsigned /\ Screen /\ PagesShowTransaction => Review
  <2> SUFFICES ASSUME OnceInv, FieldsInv, Checked, Screen, PagesShowTransaction, IsOpen, ~signed
               PROVE  /\ \E c : IsContent(c) /\ Encode(c) = raw
                      /\ \A c : (IsContent(c) /\ Encode(c) = raw)
                            => Supported(c) /\ (AmountShown(c) => Shows(c, ExpectedPairs(c)))
    BY DEF Unsigned
  <2>1. raw \in Bytes /\ Shape(tx) /\ Covers(raw, tx)
    BY DEF OnceInv, Inside, FieldsInv
  <2>2. \E c : IsContent(c) /\ Encode(c) = raw
    BY <2>1, CoversWritten
  <2>3. ASSUME NEW c, IsContent(c), Encode(c) = raw
        PROVE  Supported(c) /\ (AmountShown(c) => Shows(c, ExpectedPairs(c)))
    BY <2>3, ReviewedContent, ContentShown
  <2> QED
    BY <2>2, <2>3
<1> QED
  BY <1>1, SentHolds, ScreenAlways, PagesTheorem, PTL

\* No other upload begins with a transaction within the limits, but for those the host
\* encodes anyway.
OthersEncodeNone ==
    \A u \in Others : \A c :
       (IsContent(c) /\ Supported(c) /\ \E n \in 0 .. Len(u) : Encode(c) = At(u, 0, n))
          => Encode(c) \in {Encode(d) : d \in Contents}

\* What is under review is an encoding.
LEMMA ReviewedEncoded ==
    ASSUME OthersEncodeNone, OnceInv, FieldsInv, Checked, Sent, IsOpen, ~signed
    PROVE  raw \in {Encode(c) : c \in Contents}
<1>1. raw \in Bytes /\ Shape(tx) /\ Covers(raw, tx) /\ Accepted(raw, tx)
  BY DEF OnceInv, Inside, FieldsInv, Checked
<1>2. raw # << >>
  BY <1>1, CoversSome
<1>3. PICK u \in Uploads : Begins(raw, u)
  BY <1>2 DEF Sent
<1>4. CASE u \in Others
  <2>1. u \in Bytes
    BY <1>4, UploadsAssumption
  <2> DEFINE n == Len(raw)
  <2>2. n \in Nat /\ n <= Len(u) /\ n \in 0 .. Len(u)
    BY <1>1, <1>3, <2>1 DEF Begins, Bytes
  <2>3. raw = At(u, 0, n)
    <3>1. PICK o \in Nat : o = 0
      OBVIOUS
    <3> DEFINE a == At(u, o, n)
    <3>2. o + n <= Len(u)
      BY <2>2, <3>1
    <3> HIDE DEF n
    <3>3. a \in Seq(Byte) /\ Len(a) = n /\ Sits(u, o, a)
      BY <2>1, <2>2, <3>2, AtSits
    <3> HIDE DEF a
    <3>4. ASSUME NEW k \in 1 .. Len(raw) PROVE raw[k] = a[k]
      <4>1. k \in 1 .. Len(a) /\ o + k = k
        BY <3>1, <3>3 DEF n
      <4> QED
        BY <1>3, <3>3, <4>1 DEF Begins, Sits
    <3>5. raw \in Seq(Byte) /\ Len(raw) = Len(a)
      BY <1>1, <3>3 DEF Bytes, n
    <3>6. raw = a
      BY <3>3, <3>4, <3>5, SeqEqual
    <3> QED
      BY <3>1, <3>6 DEF a
  <2> HIDE DEF n
  <2>4. PICK c : IsContent(c) /\ Encode(c) = raw
    BY <1>1, CoversWritten
  <2>5. Supported(c)
    BY <2>4, ReviewedContent
  <2> QED
    BY <1>4, <2>2, <2>3, <2>4, <2>5 DEF OthersEncodeNone
<1>5. CASE ~(u \in Others)
  <2>1. PICK c \in Contents : u = Encode(c)
    BY <1>5 DEF Uploads
  <2>2. IsContent(c) /\ u \in Bytes
    BY <2>1, UploadsAssumption
  <2>3. PICK p : Laid(u, c, p)
    BY <2>1, <2>2, EncodeLaid
  <2>4. raw = u
    BY <1>1, <1>3, <2>2, <2>3, CoversDecode
  <2> QED
    BY <2>1, <2>4
<1> QED
  BY <1>4, <1>5

\* Before a signature what the owner sees on any page, for every set of transactions,
\* limits and number of slots, is what the transaction encoded by the upload means, at its place, and this
\* transaction is within the limits: PagesShowUpload of Upload.  It is so if no transfer
\* has a negative amount of one byte, which is read as a positive one, and if only
\* the encodings that the host may send are transactions within the limits.
THEOREM UploadTheorem ==
    ASSUME OthersEncodeNone, \A c \in Contents : AmountShown(c)
    PROVE  Spec => []PagesShowUpload
<1>1. ASSUME OnceInv, FieldsInv, Unsigned, Screen, PagesShowTransaction
      PROVE  PagesShowUpload
  <2> SUFFICES ASSUME IsOpen, ~signed, Checked, Sent
               PROVE  /\ raw \in DOMAIN Meaning
                      /\ LET c == Meaning[raw] IN Supported(c) /\ Shows(c, Expected[c])
    BY <1>1 DEF PagesShowUpload, Unsigned
  <2> DEFINE c == Meaning[raw]
  <2>1. raw \in {Encode(d) : d \in Contents}
    BY <1>1, ReviewedEncoded
  <2>2. raw \in DOMAIN Meaning /\ c = CHOOSE d \in Contents : raw = Encode(d)
    BY <2>1 DEF Meaning
  <2>3. c \in Contents /\ raw = Encode(c)
    BY <2>1, <2>2
  <2> HIDE DEF c
  <2>4. IsContent(c) /\ AmountShown(c) /\ Expected[c] = ExpectedPairs(c)
    BY <2>3, UploadsAssumption DEF Expected
  <2>5. Supported(c) /\ Shows(c, ExpectedPairs(c))
    BY <1>1, <2>3, <2>4, ReviewedContent, ContentShown
  <2> QED
    BY <2>2, <2>4, <2>5 DEF c
<1> QED
  BY <1>1, SentHolds, ScreenAlways, PagesTheorem, PTL

---------------------------------------------------------------------------
(* Whatever is within the limits is parsed.                                *)

\* A count that was written is there, and is read as what was written.
LEMMA CountReads ==
    ASSUME raw \in Bytes, offset \in Nat, NEW n \in Nat, NEW width \in Widths, Fits(n, width),
           Sits(raw, offset, Count(n, width))
    PROVE  HasVarInt /\ VarInt = n /\ VarIntLen = width
<1> DEFINE b == Count(n, width)
<1>1. /\ Len(b) = width /\ width \in {1, 3, 5, 9}
      /\ IF width = 1
         THEN b[1] = n /\ n < 253
         ELSE /\ b[1] = Mark(width) /\ b[2] = n % 256 /\ b[3] = n \div 256
              /\ n = (n % 256) + 256 * (n \div 256)
              /\ \A k \in 4 .. width : b[k] = 0
  BY CountBytes
<1>2. offset + Len(b) <= Len(raw) /\ \A k \in 1 .. Len(b) : raw[offset + k] = b[k]
  BY DEF Sits
<1> HIDE DEF b
<1>3. Len(raw) \in Nat
  BY DEF Bytes
<1>4. CASE width # 1
  <2>1. 1 \in 1 .. Len(b) /\ 2 \in 1 .. Len(b) /\ 3 \in 1 .. Len(b)
    BY <1>1, <1>4
  <2>2. raw[offset + 1] = b[1] /\ raw[offset + 2] = b[2] /\ raw[offset + 3] = b[3]
    BY <1>2, <2>1
  <2>3. OneByte = Mark(width)
    BY <1>1, <1>4, <2>2, Zenon DEF OneByte
  <2>4. VarIntLen = width
    BY <1>1, <1>4, <2>3 DEF VarIntLen, Mark
  <2>5. ASSUME NEW k \in 4 .. width PROVE raw[offset + k] = 0
    <3>1. k \in 1 .. Len(b)
      BY <1>1
    <3> QED
      BY <1>1, <1>2, <1>4, <3>1
  <2>6. VarInt = raw[offset + 2] + 256 * raw[offset + 3]
    BY <1>4, <2>4, <2>5 DEF VarInt
  <2>7. HasVarInt
    <3>1. offset + 1 <= Len(raw) /\ offset + width <= Len(raw)
      BY <1>1, <1>2, <1>3
    <3> QED
      BY <2>4, <3>1 DEF HasVarInt, CanRead
  <2>8. VarInt = n
    BY <1>1, <1>4, <2>2, <2>6
  <2> QED
    BY <2>4, <2>7, <2>8
<1>5. CASE width = 1
  <2>1. Len(b) = 1
    BY <1>1, <1>5
  <2>2. raw[offset + 1] = b[1] /\ offset + 1 <= Len(raw) /\ b[1] = n /\ n < 253
    BY <1>1, <1>2, <1>5, <2>1
  <2>3. OneByte = n /\ VarIntLen = 1
    BY <2>2 DEF OneByte, VarIntLen
  <2>4. VarInt = n /\ HasVarInt
    BY <1>3, <2>2, <2>3 DEF VarInt, HasVarInt, CanRead
  <2> QED
    BY <1>5, <2>3, <2>4
<1> QED
  BY <1>4, <1>5

\* A part that lies ahead can be read.
LEMMA PartReads ==
    ASSUME raw \in Bytes, offset \in Nat, NEW part \in Bytes, Sits(raw, offset, part), NEW n, n = Len(part)
    PROVE  CanRead(n) /\ Ahead(n) = part
<1>1. offset + n <= Len(raw)
  BY DEF Sits
<1>2. Begins(raw, raw)
  BY DEF Begins, Bytes
<1> QED
  BY <1>1, <1>2, SitsAt DEF CanRead, Ahead

\* The encoding of a content within the limits is being parsed.
Reading(c, p) ==
    /\ Inside /\ Shape(tx) /\ SoFar /\ Checked
    /\ IsContent(c) /\ Supported(c) /\ Laid(raw, c, p)

\* What every step may rely on.
LEMMA ReadingParts ==
    ASSUME NEW c, NEW p, Reading(c, p)
    PROVE  /\ raw \in Bytes /\ Begins(raw, raw) /\ Len(raw) \in Nat /\ offset \in Nat /\ offset <= Len(raw)
           /\ c.widths.signers \in Widths /\ c.widths.attributes \in Widths /\ c.widths.script \in Widths
           /\ c.attributes \in Nat /\ Len(c.signers) \in Nat
           /\ Fits(Len(c.signers), c.widths.signers) /\ Fits(c.attributes, c.widths.attributes)
           /\ ScriptOf(c.does) \in Bytes /\ Len(ScriptOf(c.does)) \in Nat
           /\ Fits(Len(ScriptOf(c.does)), c.widths.script)
           /\ DOMAIN c.signers = 1 .. Len(c.signers)
           /\ \A s \in 1 .. Len(c.signers) : IsSigner(c.signers[s])
           /\ \A s \in 1 .. Len(c.signers) + 1 : p[s] \in Nat
           /\ tx.signers_size \in 0 .. MaxSigners /\ tx.attributes_size \in Nat
<1>1. raw \in Bytes /\ raw \in Seq(Byte) /\ offset \in 0 .. Len(raw)
  BY DEF Reading, Inside, Bytes
<1>2. Begins(raw, raw) /\ Len(raw) \in Nat /\ offset \in Nat /\ offset <= Len(raw)
  BY <1>1 DEF Begins
<1>3. tx.signers_size \in 0 .. MaxSigners /\ tx.attributes_size \in Nat
  BY Limits DEF Reading, Shape, IsTx
<1>4. \A s \in 1 .. Len(c.signers) + 1 : p[s] \in Nat
  BY DEF Reading, Laid
<1>5. IsContent(c)
  BY DEF Reading
<1>6. ScriptOf(c.does) \in Bytes /\ Len(ScriptOf(c.does)) \in Nat
  BY <1>5, ContentParts DEF Bytes
<1> QED
  BY <1>1, <1>2, <1>3, <1>4, <1>5, <1>6, ContentParts

\* No header field is refused.
LEMMA HeaderParsed ==
    ASSUME NEW c, NEW p, Reading(c, p), ReadHeader
    PROVE  pc' # "done"
<1> DEFINE f == HeaderFields[i]
           n == Width(f)
<1>1. pc = "header" /\ i \in 1 .. 5 /\ offset = HeaderAt[i]
  BY DEF Reading, ReadHeader, Inside, Position, SoFar
<1>2. Sits(raw, offset, c.header[f])
  BY <1>1 DEF Reading, Laid
<1>3. f \in Headers
  BY <1>1, HeaderEnds DEF Headers
<1>4. n \in Nat /\ c.header[f] \in [1 .. n -> Byte] /\ HeaderAccepted(f, c.header[f])
  BY <1>3, WidthType, ContentParts DEF Reading, Supported
<1> HIDE DEF f, n
<1>5. c.header[f] \in Bytes /\ n = Len(c.header[f])
  BY <1>4 DEF Bytes
<1>6. CanRead(n) /\ Ahead(n) = c.header[f]
  BY <1>2, <1>5, ReadingParts, PartReads
<1> DEFINE bytes == IF CanRead(n) THEN Ahead(n) ELSE [k \in 1 .. n |-> 0]
<1>7. CanRead(n) /\ HeaderAccepted(f, bytes)
  BY <1>4, <1>6
<1>8. IF ~CanRead(n) \/ ~HeaderAccepted(f, bytes)
      THEN Return("error")
      ELSE IF i = Len(HeaderFields)
      THEN GoOn("signers_length", n) /\ i' = 0
      ELSE GoOn("header", n) /\ i' = i + 1
  BY DEF ReadHeader, f, n
<1> HIDE DEF bytes
<1>9. GoOn("signers_length", n) \/ GoOn("header", n)
  BY <1>7, <1>8
<1> QED
  BY <1>9 DEF GoOn

\* Nor is the number of signers.
LEMMA SignersLengthParsed ==
    ASSUME NEW c, NEW p, Reading(c, p), ReadSignersLength
    PROVE  pc' # "done"
<1> DEFINE n == Len(c.signers)
<1>1. offset = HeaderAt[6] /\ Sits(raw, HeaderAt[6], Count(n, c.widths.signers)) /\ n \in 1 .. MaxSigners
  BY DEF Reading, ReadSignersLength, SoFar, Laid, Supported
<1>2. raw \in Bytes /\ offset \in Nat /\ n \in Nat /\ c.widths.signers \in Widths /\ Fits(n, c.widths.signers)
  BY ReadingParts
<1> HIDE DEF n
<1>3. HasVarInt /\ VarInt = n
  BY <1>1, <1>2, CountReads
<1>4. SignersAccepted(VarInt)
  BY <1>1, <1>3 DEF SignersAccepted
<1> QED
  BY <1>3, <1>4 DEF ReadSignersLength, GoOn

\* What was read of the front is that of the content.
LEMMA FrontReached ==
    ASSUME NEW c, NEW p, Reading(c, p), NEW n \in 0 .. tx.signers_size, NEW to \in Nat, to <= Len(raw),
           FrontLies(raw, tx, n, to)
    PROVE  to = p[n + 1] /\ FrontIs(raw, tx, c, p, n) /\ tx.signers_size = Len(c.signers)
<1>1. raw \in Bytes /\ Begins(raw, raw)
  BY ReadingParts
<1>2. IsContent(c) /\ Laid(raw, c, p) /\ Shape(tx)
  BY DEF Reading
<1>3. to = p[n + 1] /\ FrontIs(raw, tx, c, p, n)
  BY <1>1, <1>2, FrontDecode
<1> QED
  BY <1>3 DEF FrontIs

\* No account is there twice, and there is one.
LEMMA AccountParsed ==
    ASSUME NEW c, NEW p, Reading(c, p), ReadAccount
    PROVE  pc' # "done"
<1> DEFINE account == c.signers[i].account
<1>1. i \in 1 .. tx.signers_size /\ FrontLies(raw, tx, i - 1, offset)
  BY DEF Reading, ReadAccount, Inside, Position, SoFar
<1>2. i - 1 \in 0 .. tx.signers_size /\ (i - 1) + 1 = i
  BY <1>1, ReadingParts
<1>3. offset \in Nat /\ offset <= Len(raw) /\ raw \in Bytes
  BY ReadingParts
<1>4. offset = p[i] /\ FrontIs(raw, tx, c, p, i - 1) /\ tx.signers_size = Len(c.signers)
  BY <1>1, <1>2, <1>3, FrontReached
<1>5. i \in 1 .. Len(c.signers)
  BY <1>1, <1>4
<1>6. account \in Hashes /\ SignerLaid(raw, c.signers[i], p[i], p[i + 1])
  BY <1>5, ReadingParts, SignerParts DEF Reading, Laid
<1>7. Sits(raw, offset, account)
  BY <1>4, <1>6 DEF SignerLaid
<1>8. account \in Bytes /\ UINT160_LEN = Len(account)
  BY <1>6, HashBytes DEF Bytes
<1> HIDE DEF account
<1>9. CanRead(UINT160_LEN) /\ Ahead(UINT160_LEN) = account
  BY <1>3, <1>7, <1>8, PartReads
<1>10. ~AccountKnown(account)
  <2>1. ASSUME NEW s \in 1 .. i - 1, At(raw, tx.signers[s].account, UINT160_LEN) = account PROVE FALSE
    <3>1. SameSigner(raw, tx, s, c.signers[s])
      BY <1>4 DEF FrontIs
    <3>2. c.signers[s].account = c.signers[i].account
      BY <2>1, <3>1 DEF SameSigner, account
    <3>3. s \in DOMAIN c.signers /\ i \in DOMAIN c.signers /\ s # i
      BY <1>5, ReadingParts
    <3> QED
      BY <3>2, <3>3 DEF Reading, Supported
  <2> QED
    BY <2>1 DEF AccountKnown
<1> QED
  BY <1>9, <1>10 DEF ReadAccount, GoOn

\* The signer that is being read, and where.
LEMMA SignerReached ==
    ASSUME NEW c, NEW p, Reading(c, p), pc \in {"scope", "list", "item"}
    PROVE  /\ i \in 1 .. tx.signers_size /\ i \in 1 .. Len(c.signers) /\ i \in DOMAIN c.signers
           /\ tx.signers[i].account = p[i] /\ p[i] \in Nat
           /\ IsSigner(c.signers[i])
           /\ SignerLaid(raw, c.signers[i], p[i], p[i + 1])
<1> DEFINE at == tx.signers[i].account
<1>1. i \in 1 .. tx.signers_size /\ FrontLies(raw, tx, i - 1, at)
  BY DEF Reading, Inside, Position, SoFar
<1>2. i - 1 \in 0 .. tx.signers_size /\ (i - 1) + 1 = i /\ i \in 1 .. MaxSigners
  BY <1>1, ReadingParts, Limits
<1>3. at \in Nat
  BY <1>2 DEF Reading, Shape
<1>4. UINT160_LEN \in Nat /\ offset \in Nat /\ offset <= Len(raw) /\ Len(raw) \in Nat
  BY ScriptAssumption, ReadingParts
<1>5. at <= offset
  <2>1. CASE pc = "scope"
    <3>1. offset = at + UINT160_LEN
      BY <2>1 DEF Reading, SoFar
    <3> HIDE DEF at
    <3> QED
      BY <1>3, <1>4, <3>1
  <2>2. CASE pc = "list"
    <3>1. at + UINT160_LEN + 1 <= offset
      BY <2>2 DEF Reading, SoFar, ListStarts
    <3> QED
      BY <1>3, <1>4, <3>1
  <2>3. CASE pc = "item"
    <3>1. PICK from \in 0 .. offset : at + UINT160_LEN + 1 <= from
      BY <2>3 DEF Reading, SoFar, ListStarts
    <3> QED
      BY <1>3, <1>4, <3>1
  <2> QED
    BY <2>1, <2>2, <2>3
<1> HIDE DEF at
<1>6. at <= Len(raw)
  BY <1>3, <1>4, <1>5
<1>7. at = p[i] /\ tx.signers_size = Len(c.signers)
  BY <1>1, <1>2, <1>3, <1>6, FrontReached
<1>8. i \in 1 .. Len(c.signers)
  BY <1>1, <1>7
<1>9. SignerLaid(raw, c.signers[i], p[i], p[i + 1]) /\ IsSigner(c.signers[i])
      /\ i \in DOMAIN c.signers
  BY <1>8, ReadingParts DEF Reading, Laid
<1> QED
  BY <1>1, <1>3, <1>7, <1>8, <1>9 DEF at

\* Its scope is one that is let through.
LEMMA ScopeParsed ==
    ASSUME NEW c, NEW p, Reading(c, p), ReadScope
    PROVE  pc' # "done"
<1> DEFINE part == << c.signers[i].scope >>
<1>1. pc = "scope" /\ offset = tx.signers[i].account + UINT160_LEN
  BY DEF Reading, ReadScope, SoFar
<1>2. tx.signers[i].account = p[i] /\ SignerLaid(raw, c.signers[i], p[i], p[i + 1])
      /\ i \in DOMAIN c.signers /\ c.signers[i].scope \in Byte
  BY <1>1, SignerReached, SignerParts
<1>3. Sits(raw, offset, part)
  BY <1>1, <1>2 DEF SignerLaid
<1>4. part \in Bytes /\ Len(part) = 1 /\ part[1] = c.signers[i].scope
  BY <1>2 DEF Bytes
<1> HIDE DEF part
<1>5. raw \in Bytes /\ offset \in Nat
  BY ReadingParts
<1>6. CanRead(1) /\ OneByte = part[1]
  BY <1>3, <1>4 DEF Sits, CanRead, OneByte
<1>7. ScopeAccepted(OneByte)
  BY <1>2, <1>4, <1>6 DEF Reading, Supported, ScopeAccepted
<1> QED
  BY <1>6, <1>7 DEF ReadScope, GoOn

\* A list begins where it does in the encoding.
LEMMA ListReached ==
    ASSUME NEW c, NEW p, Reading(c, p), pc \in {"list", "item"},
           NEW from, from <= Len(raw), ListStarts(raw, tx, i, list, from)
    PROVE  /\ from \in Nat /\ list \in Lists /\ tx.signers[i].scope = c.signers[i].scope
           /\ \E to : ListLaid(raw, c.signers[i], list, from, to)
<1> DEFINE s     == c.signers[i]
           scope == p[i] + UINT160_LEN
           lists == scope + 1
<1>1. /\ i \in DOMAIN c.signers /\ tx.signers[i].account = p[i] /\ p[i] \in Nat
      /\ IsSigner(s) /\ SignerLaid(raw, s, p[i], p[i + 1])
  BY SignerReached
<1>2. /\ tx.signers[i].scope = raw[lists] /\ from \in Nat /\ lists <= from
      /\ IF list = "contracts" THEN from = lists ELSE ListLies(raw, tx, i, "contracts", lists, from)
  BY <1>1 DEF ListStarts
<1>3. PICK groups \in Nat : /\ ListLaid(raw, s, "contracts", lists, groups)
                            /\ ListLaid(raw, s, "groups", groups, p[i + 1])
  BY <1>1 DEF SignerLaid
<1>4. Sits(raw, scope, << s.scope >>)
  BY <1>1 DEF SignerLaid
<1>5. UINT160_LEN \in Nat
  BY ScriptAssumption
<1>6. raw[lists] = s.scope
  <2> DEFINE part == << s.scope >>
  <2>1. 1 \in 1 .. Len(part) /\ part[1] = s.scope /\ Sits(raw, scope, part)
    BY <1>4
  <2> HIDE DEF part
  <2> QED
    BY <2>1 DEF Sits
<1>7. list \in Lists
  BY DEF Reading, Inside, Position
<1>8. lists \in Nat /\ raw \in Bytes /\ Begins(raw, raw)
  BY <1>1, <1>5, ReadingParts
<1>9. tx.signers[i].scope = s.scope /\ IsList(s, "contracts")
  BY <1>1, <1>2, <1>6, SignerParts
<1> HIDE DEF s, lists
<1>10. CASE list = "contracts"
  BY <1>2, <1>3, <1>7, <1>9, <1>10 DEF s
<1>11. CASE list = "groups"
  <2>1. ListLies(raw, tx, i, "contracts", lists, from)
    BY <1>2, <1>11
  <2>2. from = groups
    BY <1>2, <1>3, <1>8, <1>9, <2>1, ListDecode
  <2> QED
    BY <1>2, <1>3, <1>7, <1>9, <1>11, <2>2 DEF s
<1> QED
  BY <1>7, <1>10, <1>11 DEF Lists

\* No list is too long.
LEMMA ListParsed ==
    ASSUME NEW c, NEW p, Reading(c, p), ReadListLength
    PROVE  pc' # "done"
<1> DEFINE s     == c.signers[i]
           width == s.widths[list]
           n     == Len(Listed(s, list))
<1>1. pc = "list" /\ ListStarts(raw, tx, i, list, offset)
  BY DEF Reading, ReadListLength, SoFar
<1>2. raw \in Bytes /\ offset \in Nat /\ offset <= Len(raw)
  BY ReadingParts
<1>3. /\ list \in Lists /\ tx.signers[i].scope = s.scope
      /\ \E to : ListLaid(raw, s, list, offset, to)
  BY <1>1, <1>2, ListReached
<1>4. i \in DOMAIN c.signers /\ IsList(s, list)
  BY <1>1, <1>3, SignerReached, SignerParts
<1>5. n \in Nat /\ width \in Widths /\ Fits(n, width)
  BY <1>4, ItemLens DEF IsList
<1>6. n <= Limit(list)
  <2>1. Len(s.contracts) <= MaxContracts /\ Len(s.groups) <= MaxGroups
    BY <1>4 DEF Reading, Supported
  <2> QED
    BY <1>3, <2>1 DEF Listed, Limit, Lists
<1>7. HasFlag(list, s.scope) => Sits(raw, offset, Count(n, width))
  BY <1>3 DEF ListLaid
<1> HIDE DEF s, width, n
<1>8. HasFlag(list, s.scope) => HasVarInt /\ VarInt = n
  BY <1>2, <1>5, <1>7, CountReads
<1>9. HasFlag(list, tx.signers[i].scope) => HasVarInt /\ ListAccepted(list, VarInt)
  BY <1>3, <1>6, <1>8 DEF ListAccepted
<1>10. CASE ~HasFlag(list, tx.signers[i].scope)
  BY <1>10 DEF ReadListLength, NextList, GoOn
<1>11. CASE HasFlag(list, tx.signers[i].scope)
  <2>1. IF VarInt = 0
        THEN NextList(VarIntLen)
        ELSE GoOn("item", VarIntLen) /\ j' = 1 /\ listed' = VarInt /\ UNCHANGED << i, list >>
    BY <1>9, <1>11 DEF ReadListLength
  <2> QED
    BY <2>1 DEF NextList, GoOn
<1> QED
  BY <1>10, <1>11

\* Every item is there.
LEMMA ItemParsed ==
    ASSUME NEW c, NEW p, Reading(c, p), ReadItem
    PROVE  pc' # "done"
<1> DEFINE s     == c.signers[i]
           width == c.signers[i].widths[list]
           items == Listed(s, list)
           n     == Len(items)
<1>1. pc = "item" /\ HasFlag(list, tx.signers[i].scope)
  BY DEF Reading, ReadItem, SoFar
<1>2. PICK from \in 0 .. offset :
         /\ ListStarts(raw, tx, i, list, from)
         /\ \E first \in from .. offset :
               /\ IsCount(raw, tx.signers[i].size[list], from, first)
               /\ ItemsLie(tx, i, list, j - 1, first, offset)
  BY <1>1 DEF Reading, SoFar
<1>3. raw \in Bytes /\ Begins(raw, raw) /\ offset \in Nat /\ offset <= Len(raw) /\ Len(raw) \in Nat
  BY ReadingParts
<1>4. from \in Nat /\ from <= Len(raw)
  BY <1>3
<1>5. /\ list \in Lists /\ tx.signers[i].scope = s.scope
      /\ \E to : ListLaid(raw, s, list, from, to)
  BY <1>1, <1>2, <1>4, ListReached
<1>6. IsList(s, list)
  BY <1>1, <1>5, SignerReached, SignerParts
<1>7. /\ n \in Nat /\ width \in Widths /\ Fits(n, width) /\ ItemLen(list) \in Nat
      /\ \A k \in 1 .. n : items[k] \in Bytes /\ Len(items[k]) = ItemLen(list)
  BY <1>6, ItemLens DEF IsList
<1>8. /\ Sits(raw, from, Count(n, width))
      /\ \E q : Parts(raw, from + width, items, q)
  BY <1>1, <1>5 DEF ListLaid
<1>9. PICK first \in from .. offset :
         /\ IsCount(raw, tx.signers[i].size[list], from, first)
         /\ ItemsLie(tx, i, list, j - 1, first, offset)
  BY <1>2
<1> HIDE DEF s, width, n, items
<1>10. first \in Nat /\ first <= Len(raw)
  BY <1>3, <1>4
<1>11. tx.signers[i].size[list] = n /\ first = from + width
  BY <1>3, <1>4, <1>7, <1>8, <1>9, <1>10, CountDecode
<1>12. j \in 1 .. n
  BY <1>1, <1>11 DEF Reading, Inside, Position
<1>13. PICK q : Parts(raw, first, items, q)
  BY <1>8, <1>11
<1> DEFINE m == j - 1
<1>14. m \in 0 .. Len(items) /\ Len(items) \in Nat /\ m + 1 = j /\ n = Len(items)
  BY <1>7, <1>12 DEF n
<1>15. ItemsLie(tx, i, list, m, first, offset)
  BY <1>9
<1> HIDE DEF m
<1>16. ItemsPlaced(tx, i, list, m, q, offset)
  BY <1>7, <1>13, <1>14, <1>15, ItemsDecode
<1>17. offset = q[j]
  BY <1>14, <1>16 DEF ItemsPlaced
<1>18. Sits(raw, q[j], items[j])
  BY <1>12, <1>13, <1>14 DEF Parts
<1>19. CanRead(ItemLen(list))
  BY <1>7, <1>12, <1>17, <1>18 DEF Sits, CanRead
<1> QED
  BY <1>19 DEF ReadItem, NextList, GoOn

\* The attributes begin where they do in the encoding.
LEMMA AttributesReached ==
    ASSUME NEW c, NEW p, Reading(c, p), NEW from \in Nat, from <= Len(raw),
           FrontLies(raw, tx, tx.signers_size, from)
    PROVE  from = p[Len(c.signers) + 1] /\ Sits(raw, from, Count(c.attributes, c.widths.attributes))
<1>1. tx.signers_size \in 0 .. tx.signers_size
  BY ReadingParts
<1>2. from = p[tx.signers_size + 1] /\ tx.signers_size = Len(c.signers)
  BY <1>1, FrontReached
<1> QED
  BY <1>2 DEF Reading, Laid

\* Their number is no more than one.
LEMMA AttributesLengthParsed ==
    ASSUME NEW c, NEW p, Reading(c, p), ReadAttributesLength
    PROVE  pc' # "done"
<1>1. FrontLies(raw, tx, tx.signers_size, offset)
  BY DEF Reading, ReadAttributesLength, SoFar
<1>2. /\ raw \in Bytes /\ offset \in Nat /\ offset <= Len(raw) /\ c.widths.attributes \in Widths
      /\ c.attributes \in Nat /\ Fits(c.attributes, c.widths.attributes)
  BY ReadingParts
<1>3. Sits(raw, offset, Count(c.attributes, c.widths.attributes))
  BY <1>1, <1>2, AttributesReached
<1>4. HasVarInt /\ VarInt = c.attributes
  BY <1>2, <1>3, CountReads
<1>5. c.attributes <= 1 /\ MaxAttributes \in Nat \ {0}
  BY LimitsAssumption DEF Reading, Supported
<1>6. HasVarInt /\ VarInt <= MaxAttributes
  BY <1>2, <1>4, <1>5
<1>7. IF VarInt = 0
      THEN GoOn("script", VarIntLen) /\ i' = 0
      ELSE GoOn("attribute", VarIntLen) /\ i' = 1
  BY <1>6 DEF ReadAttributesLength
<1> QED
  BY <1>7 DEF GoOn

\* If the one there may be is refused, it was known.
LEMMA AttributeParsed ==
    ASSUME NEW c, NEW p, Reading(c, p), ReadAttribute, pc' = "done"
    PROVE  status' = "ATTRIBUTES_DUPLICATE_TYPE" /\ c.attributes = 1
<1> DEFINE part == [a \in 1 .. c.attributes |-> HIGH_PRIORITY]
<1>1. /\ pc = "attribute" /\ i \in 1 .. tx.attributes_size
      /\ \E from \in 0 .. offset :
           /\ FrontLies(raw, tx, tx.signers_size, from)
           /\ \E first \in from .. offset :
                 IsCount(raw, tx.attributes_size, from, first) /\ offset = first + i - 1
  BY DEF Reading, ReadAttribute, Inside, Position, SoFar
<1>2. PICK from \in 0 .. offset :
         /\ FrontLies(raw, tx, tx.signers_size, from)
         /\ \E first \in from .. offset :
               IsCount(raw, tx.attributes_size, from, first) /\ offset = first + i - 1
  BY <1>1
<1>3. PICK first \in from .. offset :
         IsCount(raw, tx.attributes_size, from, first) /\ offset = first + i - 1
  BY <1>2
<1>4. /\ raw \in Bytes /\ Begins(raw, raw) /\ offset \in Nat /\ offset <= Len(raw) /\ Len(raw) \in Nat
      /\ c.widths.attributes \in Widths /\ c.attributes \in Nat /\ Fits(c.attributes, c.widths.attributes)
      /\ tx.attributes_size \in Nat
  BY ReadingParts
<1>5. from \in Nat /\ from <= Len(raw) /\ first \in Nat /\ first <= Len(raw)
  BY <1>4
<1>6. from = p[Len(c.signers) + 1] /\ Sits(raw, from, Count(c.attributes, c.widths.attributes))
  BY <1>2, <1>5, AttributesReached
<1>7. tx.attributes_size = c.attributes /\ first = from + c.widths.attributes
  BY <1>3, <1>4, <1>5, <1>6, CountDecode
<1>8. c.attributes = 1 /\ i = 1 /\ offset = first
  <2>1. c.attributes <= 1
    BY DEF Reading, Supported
  <2> DEFINE k    == i
             most == c.attributes
  <2>2. k \in 1 .. most /\ most \in Nat /\ most <= 1
    BY <1>1, <1>4, <1>7, <2>1
  <2> HIDE DEF k, most
  <2>3. k = 1 /\ most = 1
    BY <2>2
  <2>4. offset = first + k - 1
    BY <1>3 DEF k
  <2>5. offset = first
    BY <1>5, <2>3, <2>4
  <2> QED
    BY <2>3, <2>5 DEF k, most
<1>9. Sits(raw, first, part)
  BY <1>6, <1>7 DEF Reading, Laid
<1>10. CanRead(1) /\ Ahead(1) = << HIGH_PRIORITY >>
  <2>1. part = << HIGH_PRIORITY >>
    BY <1>8
  <2>2. << HIGH_PRIORITY >> \in Bytes /\ Len(<< HIGH_PRIORITY >>) = 1
    BY DEF Bytes, Byte, HIGH_PRIORITY
  <2> HIDE DEF part
  <2>3. part \in Bytes /\ 1 = Len(part) /\ Sits(raw, offset, part)
    BY <1>8, <1>9, <2>1, <2>2
  <2>4. CanRead(1) /\ Ahead(1) = part
    BY <1>4, <2>3, PartReads
  <2> QED
    BY <2>1, <2>4
<1>11. CASE AttributeKnown(HIGH_PRIORITY)
  BY <1>8, <1>10, <1>11 DEF ReadAttribute, Return
<1>12. CASE ~AttributeKnown(HIGH_PRIORITY)
  <2>1. GoOn("script", 1) \/ GoOn("attribute", 1)
    BY <1>10, <1>12 DEF ReadAttribute
  <2> QED
    BY <2>1 DEF GoOn
<1> QED
  BY <1>11, <1>12

\* The script begins where it does in the encoding.
ScriptPlace(c, p) == p[Len(c.signers) + 1] + c.widths.attributes + c.attributes

LEMMA ScriptReached ==
    ASSUME NEW c, NEW p, Reading(c, p), NEW from \in Nat, NEW to \in Nat, from <= to, to <= Len(raw),
           FrontLies(raw, tx, tx.signers_size, from), AttributesLie(raw, tx, from, to)
    PROVE  /\ to = ScriptPlace(c, p)
           /\ Sits(raw, to, Count(Len(ScriptOf(c.does)), c.widths.script))
           /\ Sits(raw, to + c.widths.script, ScriptOf(c.does))
           /\ Len(raw) = to + c.widths.script + Len(ScriptOf(c.does))
<1> DEFINE mark == to - tx.attributes_size
<1>1. /\ raw \in Bytes /\ Begins(raw, raw) /\ Len(raw) \in Nat
      /\ c.widths.attributes \in Widths /\ c.attributes \in Nat /\ Fits(c.attributes, c.widths.attributes)
      /\ tx.attributes_size \in Nat
  BY ReadingParts
<1>2. from <= Len(raw)
  BY <1>1
<1>3. from = p[Len(c.signers) + 1] /\ Sits(raw, from, Count(c.attributes, c.widths.attributes))
  BY <1>2, AttributesReached
<1>4. IsCount(raw, tx.attributes_size, from, mark)
  BY DEF AttributesLie
<1>5. mark \in Int /\ mark <= Len(raw) /\ to = mark + tx.attributes_size
  BY <1>1
<1> HIDE DEF mark
<1>6. mark \in Nat
  BY <1>4, <1>5 DEF IsCount
<1>7. tx.attributes_size = c.attributes /\ mark = from + c.widths.attributes
  BY <1>1, <1>2, <1>3, <1>4, <1>5, <1>6, CountDecode
<1>8. to = ScriptPlace(c, p)
  BY <1>3, <1>5, <1>7 DEF ScriptPlace
<1> QED
  BY <1>8 DEF Reading, Laid, ScriptPlace

\* A script that is not empty and whose length fits the way it is written has a length
\* that is let through.
LEMMA ScriptFits ==
    ASSUME NEW n \in Nat, n # 0, NEW width \in Widths, Fits(n, width)
    PROVE  ScriptAccepted(n)
<1> DEFINE top == 65535
<1>1. n < 65536
  BY SMT DEF Fits, CountLimit
<1>2. top \in Nat /\ n <= top
  BY <1>1, SMT
<1>3. ScriptAccepted(n) <=> n \in 1 .. top
  BY SMT DEF top, ScriptAccepted
<1> HIDE DEF top
<1>4. n \in 1 .. top
  BY <1>2, SMT
<1> QED
  BY <1>3, <1>4

\* So is the script of a content.
LEMMA ScriptParsed ==
    ASSUME NEW c, NEW p, Reading(c, p), ReadScript
    PROVE  pc' # "done"
<1> DEFINE sc    == ScriptOf(c.does)
           size  == Len(sc)
           width == c.widths.script
<1>1. pc = "script" /\ \E from \in 0 .. offset :
         FrontLies(raw, tx, tx.signers_size, from) /\ AttributesLie(raw, tx, from, offset)
  BY DEF Reading, ReadScript, SoFar
<1>2. PICK from \in 0 .. offset :
         FrontLies(raw, tx, tx.signers_size, from) /\ AttributesLie(raw, tx, from, offset)
  BY <1>1
<1>3. /\ raw \in Bytes /\ offset \in Nat /\ offset <= Len(raw) /\ Len(raw) \in Nat
      /\ width \in Widths /\ sc \in Bytes /\ size \in Nat /\ Fits(size, width)
  BY ReadingParts
<1>4. from \in Nat /\ from <= offset
  BY <1>3
<1>5. /\ Sits(raw, offset, Count(size, width))
      /\ Len(raw) = offset + width + size
  BY <1>2, <1>3, <1>4, ScriptReached
<1>6. size # 0
  <2>1. sc # << >> /\ sc \in Seq(Byte)
    BY <1>3 DEF Reading, Supported, Bytes
  <2> QED
    BY <2>1
<1> HIDE DEF sc, size, width
<1>7. HasVarInt /\ VarInt = size /\ VarIntLen = width
  BY <1>3, <1>5, CountReads
<1>8. ScriptAccepted(size)
  BY <1>3, <1>6, ScriptFits
<1>9. CanRead(VarIntLen + VarInt)
  BY <1>3, <1>5, <1>7 DEF CanRead, Widths
<1>10. HasVarInt /\ ScriptAccepted(VarInt) /\ CanRead(VarIntLen + VarInt)
  BY <1>7, <1>8, <1>9
<1>11. GoOn("match", VarIntLen + VarInt)
  BY <1>10 DEF ReadScript
<1> QED
  BY <1>11 DEF GoOn

\* All of the upload was read when the script was.
LEMMA MatchParsed ==
    ASSUME NEW c, NEW p, Reading(c, p), Match
    PROVE  status' = "PARSING_OK"
<1> DEFINE sc    == ScriptOf(c.does)
           size  == Len(sc)
           width == c.widths.script
<1>1. /\ pc = "match" /\ offset = tx.script + tx.script_size
      /\ \E from \in 0 .. offset :
            /\ FrontLies(raw, tx, tx.signers_size, from)
            /\ \E to \in from .. offset :
                  AttributesLie(raw, tx, from, to) /\ IsCount(raw, tx.script_size, to, tx.script)
  BY DEF Reading, Match, SoFar
<1>2. PICK from \in 0 .. offset :
            /\ FrontLies(raw, tx, tx.signers_size, from)
            /\ \E to \in from .. offset :
                  AttributesLie(raw, tx, from, to) /\ IsCount(raw, tx.script_size, to, tx.script)
  BY <1>1
<1>3. PICK to \in from .. offset :
         AttributesLie(raw, tx, from, to) /\ IsCount(raw, tx.script_size, to, tx.script)
  BY <1>2
<1>4. /\ raw \in Bytes /\ Begins(raw, raw) /\ offset \in Nat /\ offset <= Len(raw) /\ Len(raw) \in Nat
      /\ width \in Widths /\ size \in Nat /\ Fits(size, width)
  BY ReadingParts
<1>5. tx.script \in Nat /\ tx.script_size \in Nat
  BY DEF Reading, Shape
<1>6. from \in Nat /\ to \in Nat /\ from <= to /\ to <= Len(raw) /\ tx.script <= Len(raw)
  <2>1. from \in Nat /\ to \in Nat /\ from <= to /\ to <= Len(raw)
    BY <1>4
  <2> DEFINE start  == tx.script
             length == tx.script_size
  <2>2. start \in Nat /\ length \in Nat /\ offset = start + length
    BY <1>1, <1>5
  <2> HIDE DEF start, length
  <2>3. start <= Len(raw)
    BY <1>4, <2>2
  <2> QED
    BY <2>1, <2>3 DEF start
<1>7. /\ Sits(raw, to, Count(size, width))
      /\ Len(raw) = to + width + size
  BY <1>2, <1>3, <1>6, ScriptReached
<1> HIDE DEF sc, size, width
<1>8. tx.script_size = size /\ tx.script = to + width
  BY <1>3, <1>4, <1>5, <1>6, <1>7, CountDecode
<1>9. offset = Len(raw)
  BY <1>1, <1>7, <1>8
<1> QED
  BY <1>9 DEF Match, Return, Result

\* Every step of the parser that ends it.
LEMMA ReadParsed ==
    ASSUME NEW c, NEW p, Reading(c, p), Read, pc' = "done"
    PROVE  \/ status' = "PARSING_OK"
           \/ status' = "ATTRIBUTES_DUPLICATE_TYPE" /\ c.attributes = 1
<1>1. ~ReadHeader
  BY HeaderParsed
<1>2. ~ReadSignersLength
  BY SignersLengthParsed
<1>3. ~ReadAccount
  BY AccountParsed
<1>4. ~ReadScope
  BY ScopeParsed
<1>5. ~ReadListLength
  BY ListParsed
<1>6. ~ReadItem
  BY ItemParsed
<1>7. ~ReadAttributesLength
  BY AttributesLengthParsed
<1>8. CASE ReadAttribute
  BY <1>8, AttributeParsed
<1>9. ~ReadScript
  BY ScriptParsed
<1>10. ASSUME Match PROVE status' = "PARSING_OK"
  BY <1>10, MatchParsed
<1>11. ReadAttribute \/ Match
  BY <1>1, <1>2, <1>3, <1>4, <1>5, <1>6, <1>7, <1>9 DEF Read
<1> QED
  BY <1>8, <1>10, <1>11

\* Only the parser ends a parse.
LEMMA DoneByReading ==
    ASSUME [Next]_vars, OnceInv, pc # "done", pc' = "done"
    PROVE  Read
<1>1. ~HostMaySend /\ ~IsOpen
  BY DEF HostMaySend, OnceInv
<1>2. ~NewUpload /\ ~ReceiveMore /\ ~ReceiveLast
  BY <1>1 DEF NewUpload, ReceiveMore, ReceiveLast
<1>3. ~ShowReview
  BY DEF ShowReview
<1>4. ~Look /\ ~Approve /\ ~Reject /\ ~UNCHANGED vars
  BY DEF Look, Approve, Reject, vars, parser
<1> QED
  BY <1>2, <1>3, <1>4 DEF Next, Parse

\* Whatever is encoded within the limits is parsed, until something is signed, with its
\* counts in any way, after any uploads, chunks and attempts, but for the attribute left by the host's false end:
\* SupportedIsParsed of Upload.
THEOREM ParsedTheorem == Spec => SupportedIsParsed
<1> DEFINE Step ==
       (pc # "done" /\ pc' = "done" /\ ~signed /\ raw \in DOMAIN Meaning /\ Supported(Meaning[raw]))
          => \/ status' = "PARSING_OK"
             \/ status' = "ATTRIBUTES_DUPLICATE_TYPE" /\ Meaning[raw].attributes = 1
<1>1. OnceInv /\ FieldsInv /\ Unsigned /\ [Next]_vars => [Step]_vars
  <2> SUFFICES ASSUME OnceInv, FieldsInv, ~signed, Checked, [Next]_vars,
                      pc # "done", pc' = "done", raw \in DOMAIN Meaning, Supported(Meaning[raw])
               PROVE  \/ status' = "PARSING_OK"
                      \/ status' = "ATTRIBUTES_DUPLICATE_TYPE" /\ Meaning[raw].attributes = 1
    BY DEF Unsigned
  <2> DEFINE c == Meaning[raw]
  <2>1. raw = Encode(c) /\ c \in Contents
    BY DEF Meaning
  <2> HIDE DEF c
  <2>2. IsContent(c) /\ Encode(c) \in Bytes
    BY <2>1, UploadsAssumption
  <2>3. PICK p : Laid(raw, c, p)
    BY <2>1, <2>2, EncodeLaid
  <2>4. Supported(c)
    BY DEF c
  <2>5. Reading(c, p)
    BY <2>2, <2>3, <2>4 DEF Reading, OnceInv, FieldsInv
  <2>6. Read
    BY DoneByReading
  <2>7. \/ status' = "PARSING_OK"
        \/ status' = "ATTRIBUTES_DUPLICATE_TYPE" /\ c.attributes = 1
    BY <2>5, <2>6, ReadParsed
  <2> QED
    BY <2>7 DEF c
<1> QED
  BY <1>1, SentHolds, PTL DEF Spec, SupportedIsParsed

=============================================================================
