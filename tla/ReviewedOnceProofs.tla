------------------------- MODULE ReviewedOnceProofs -------------------------
(***************************************************************************)
(* That no upload is another one with something behind it, proved of the   *)
(* parser itself: how far it gets depends on the bytes it has read and on  *)
(* nothing an earlier attempt left behind, so that an upload which starts  *)
(* with one that parses ends its parse where that one does, too early.     *)
(***************************************************************************)
EXTENDS UploadProofs

---------------------------------------------------------------------------
(* The parser as a function of the bytes.  A control is what the next step *)
(* of a successful parse depends on, apart from the bytes: where it is,    *)
(* and the three values it has read into the transaction and comes back    *)
(* to, each of them 0 where it does not matter.                            *)

Ctl(at, o, k, l, n, m, scope, signers, attributes) ==
    [pc |-> at, offset |-> o, i |-> k, list |-> l, j |-> n, listed |-> m,
     scope |-> scope, signers |-> signers, attributes |-> attributes]

Control ==
    Ctl(pc, offset, i, list, j, listed,
        IF pc \in {"list", "item"} THEN tx.signers[i].scope ELSE 0,
        IF pc \in {"account", "scope", "list", "item"} THEN tx.signers_size ELSE 0,
        IF pc = "attribute" THEN tx.attributes_size ELSE 0)

Start == Ctl("header", 0, 1, "contracts", 0, 0, 0, 0, 0)

\* VarIntLen and VarInt at an offset of any data.
NumberLen(data, o) ==
    LET mark == data[o + 1]
    IN  IF mark < 253 THEN 1 ELSE IF mark = 253 THEN 3 ELSE IF mark = 254 THEN 5 ELSE 9
Number(data, o) ==
    IF NumberLen(data, o) = 1
    THEN data[o + 1]
    ELSE IF \E k \in 4 .. NumberLen(data, o) : data[o + k] # 0
    THEN TooBig
    ELSE data[o + 2] + 256 * data[o + 3]

\* Past a list, n bytes on.
AfterList(c, n) ==
    IF c.list = "contracts"
    THEN Ctl("list", c.offset + n, c.i, "groups", 0, 0, c.scope, c.signers, 0)
    ELSE IF c.i < c.signers
    THEN Ctl("account", c.offset + n, c.i + 1, "contracts", 0, 0, 0, c.signers, 0)
    ELSE Ctl("attributes_length", c.offset + n, 0, "contracts", 0, 0, 0, 0, 0)

Plain(at, o, k) == Ctl(at, o, k, "contracts", 0, 0, 0, 0, 0)

\* The next control, if the parse goes on.
Advance(data, c) ==
    LET o == c.offset
        n == NumberLen(data, o)
        v == Number(data, o)
    IN  CASE c.pc = "header" ->
               IF c.i = 5 THEN Plain("signers_length", o + Width(HeaderFields[c.i]), 0)
               ELSE Plain("header", o + Width(HeaderFields[c.i]), c.i + 1)
          [] c.pc = "signers_length" -> Ctl("account", o + n, 1, "contracts", 0, 0, 0, v, 0)
          [] c.pc = "account" ->
               Ctl("scope", o + UINT160_LEN, c.i, "contracts", 0, 0, 0, c.signers, 0)
          [] c.pc = "scope" -> Ctl("list", o + 1, c.i, "contracts", 0, 0, data[o + 1], c.signers, 0)
          [] c.pc = "list" ->
               IF ~HasFlag(c.list, c.scope) THEN AfterList(c, 0)
               ELSE IF v = 0 THEN AfterList(c, n)
               ELSE Ctl("item", o + n, c.i, c.list, 1, v, c.scope, c.signers, 0)
          [] c.pc = "item" ->
               IF c.j = c.listed THEN AfterList(c, ItemLen(c.list))
               ELSE Ctl("item", o + ItemLen(c.list), c.i, c.list, c.j + 1, c.listed,
                        c.scope, c.signers, 0)
          [] c.pc = "attributes_length" ->
               IF v = 0 THEN Plain("script", o + n, 0)
               ELSE Ctl("attribute", o + n, 1, "contracts", 0, 0, 0, 0, v)
          [] c.pc = "attribute" ->
               IF c.i = c.attributes THEN Plain("script", o + 1, 0)
               ELSE Ctl("attribute", o + 1, c.i + 1, "contracts", 0, 0, 0, 0, c.attributes)
          [] c.pc = "script" -> Plain("match", o + n + v, c.i)

\* A step of a parse that goes on, within the data.
Steps(data, c, d) ==
    /\ c.pc \in Places \ {"done", "match"}
    /\ c.pc = "script" => c.offset + NumberLen(data, c.offset) <= Len(data)
    /\ d = Advance(data, c)
    /\ d.offset \in 0 .. Len(data)

\* The first m steps of a parse, and a parse that comes to its end with the data.
Trace(data, m, f) == f[0] = Start /\ \A k \in 1 .. m : Steps(data, f[k - 1], f[k])
Parsed(data) ==
    \E m \in Nat : \E f :
        Trace(data, m, f) /\ f[m].pc = "match" /\ f[m].offset = Len(data)

\* b begins with a.
Begins(a, b) == Len(a) <= Len(b) /\ \A k \in 1 .. Len(a) : a[k] = b[k]

---------------------------------------------------------------------------
(* What two parses have in common.                                         *)

\* A number is where its bytes are.
LEMMA NumbersAgree ==
    ASSUME NEW a \in Bytes, NEW b \in Bytes, Begins(a, b), NEW o \in Nat,
           o + NumberLen(a, o) <= Len(a)
    PROVE  NumberLen(b, o) = NumberLen(a, o) /\ Number(b, o) = Number(a, o)
<1>1. NumberLen(a, o) \in {1, 3, 5, 9} /\ Len(a) \in Nat
  BY DEF NumberLen, Bytes
<1>2. \A k \in 1 .. NumberLen(a, o) : a[o + k] = b[o + k]
  BY <1>1 DEF Begins
<1>3. NumberLen(b, o) = NumberLen(a, o)
  BY <1>1, <1>2 DEF NumberLen
<1>4. Number(b, o) = Number(a, o)
  <2>1. CASE NumberLen(a, o) = 1
    <3>1. a[o + 1] = b[o + 1]
      BY <1>2, <2>1
    <3> QED
      BY <1>3, <2>1, <3>1 DEF Number
  <2>2. CASE NumberLen(a, o) # 1
    <3>1. a[o + 2] = b[o + 2] /\ a[o + 3] = b[o + 3]
      <4>1. 2 \in 1 .. NumberLen(a, o) /\ 3 \in 1 .. NumberLen(a, o)
        BY <1>1, <2>2
      <4> QED
        BY <1>2, <4>1
    <3>2. \A k \in 4 .. NumberLen(a, o) : a[o + k] = b[o + k]
      BY <1>1, <1>2
    <3>3. (\E k \in 4 .. NumberLen(a, o) : a[o + k] # 0)
            <=> (\E k \in 4 .. NumberLen(b, o) : b[o + k] # 0)
      BY <1>3, <3>2
    <3> QED
      BY <1>3, <2>2, <3>1, <3>3 DEF Number
  <2> QED
    BY <2>1, <2>2
<1> QED
  BY <1>3, <1>4

\* What a step does is settled by the bytes it reads.
LEMMA StepsKept ==
    ASSUME NEW a \in Bytes, NEW b \in Bytes, Begins(a, b),
           NEW c, NEW d, c.offset \in Nat, Steps(a, c, d)
    PROVE  Steps(b, c, d)
<1> DEFINE o == c.offset
<1>1. o \in Nat /\ Len(a) \in Nat /\ Len(b) \in Nat /\ NumberLen(a, o) \in {1, 3, 5, 9}
  BY DEF NumberLen, Bytes
<1>2. d = Advance(a, c) /\ d.offset \in 0 .. Len(a) /\ d.offset \in 0 .. Len(b)
  BY <1>1 DEF Steps, Begins
<1>3. CASE o + NumberLen(a, o) <= Len(a)
  <2>1. NumberLen(b, o) = NumberLen(a, o) /\ Number(b, o) = Number(a, o)
    BY <1>1, <1>3, NumbersAgree
  <2>2. a[o + 1] = b[o + 1]
    BY <1>1, <1>3 DEF Begins
  <2>3. d = Advance(b, c)
    BY <1>2, <2>1, <2>2 DEF Advance
  <2> QED
    BY <1>1, <1>2, <1>3, <2>1, <2>3 DEF Steps, Begins
<1>4. CASE ~(o + NumberLen(a, o) <= Len(a))
  <2>1. c.pc # "script" /\ c.pc # "match"
    BY <1>4 DEF Steps
  <2>2. CASE c.pc \in {"header", "account", "item", "attribute"}
    <3>1. d = Advance(b, c)
      BY <1>2, <2>2 DEF Advance
    <3> QED
      BY <1>2, <2>1, <3>1 DEF Steps
  <2>3. CASE c.pc = "scope"
    <3>1. o + 1 <= Len(a)
      BY <1>1, <1>2, <2>3 DEF Advance, Ctl
    <3>2. a[o + 1] = b[o + 1]
      BY <1>1, <3>1 DEF Begins
    <3>3. d = Advance(b, c)
      BY <1>2, <2>3, <3>2 DEF Advance
    <3> QED
      BY <1>2, <2>1, <3>3 DEF Steps
  <2> DEFINE n == NumberLen(a, o)
  <2>4. CASE c.pc = "signers_length"
    <3>1. d.offset = o + n
      BY <1>2, <2>4 DEF Advance, Ctl
    <3> QED
      BY <1>2, <1>4, <3>1
  <2>5. CASE c.pc = "attributes_length"
    <3>1. d.offset = o + n
      BY <1>2, <2>5 DEF Advance, Ctl, Plain
    <3> QED
      BY <1>2, <1>4, <3>1
  <2>6. CASE c.pc = "list"
    <3>1. ~HasFlag(c.list, c.scope)
      <4> SUFFICES ASSUME HasFlag(c.list, c.scope) PROVE FALSE
        OBVIOUS
      <4>1. d.offset = o + n
        BY <1>2, <2>6 DEF Advance, AfterList, Ctl
      <4> QED
        BY <1>2, <1>4, <4>1
    <3>2. d = Advance(b, c)
      BY <1>2, <2>6, <3>1 DEF Advance
    <3> QED
      BY <1>2, <2>1, <3>2 DEF Steps
  <2> QED
    BY <2>1, <2>2, <2>3, <2>4, <2>5, <2>6 DEF Steps, Places
<1> QED
  BY <1>3, <1>4

\* So there is one next control.
LEMMA StepsAgree ==
    ASSUME NEW a \in Bytes, NEW b \in Bytes, Begins(a, b),
           NEW c, NEW d, NEW e, c.offset \in Nat, Steps(a, c, d), Steps(b, c, e)
    PROVE  d = e
<1>1. Steps(b, c, d)
  BY StepsKept
<1> QED
  BY <1>1 DEF Steps

\* The offsets of a parse are numbers.
LEMMA TraceOffsets ==
    ASSUME NEW data \in Bytes, NEW m \in Nat, NEW f, Trace(data, m, f), NEW k \in 0 .. m
    PROVE  f[k].offset \in Nat
<1>1. CASE k = 0
  BY <1>1 DEF Trace, Start, Ctl
<1>2. CASE k # 0
  <2>1. k \in 1 .. m
    BY <1>2
  <2> QED
    BY <2>1 DEF Trace, Steps, Bytes
<1> QED
  BY <1>1, <1>2

\* Of two parses the one of fewer steps is how the other begins.
LEMMA TracesAgree ==
    ASSUME NEW a \in Bytes, NEW b \in Bytes, Begins(a, b),
           NEW m \in Nat, NEW f, Trace(a, m, f), NEW n \in Nat, NEW g, Trace(b, n, g)
    PROVE  \A k \in 0 .. m : k <= n => f[k] = g[k]
<1> DEFINE T == {k \in 0 .. m : k <= n /\ f[k] # g[k]}
<1> SUFFICES ASSUME T # {} PROVE FALSE
  OBVIOUS
<1>1. PICK k \in T : \A l \in T : k <= l
  <2>1. T \in SUBSET Nat
    OBVIOUS
  <2> QED
    BY <2>1, LeastNumber, Zenon
<1>2. k \in 1 .. m /\ k \in 1 .. n
  <2>1. f[0] = g[0]
    BY DEF Trace
  <2> QED
    BY <2>1
<1>3. f[k - 1] = g[k - 1]
  <2>1. k - 1 \in 0 .. m /\ k - 1 <= n /\ ~(k <= k - 1)
    BY <1>2
  <2> QED
    BY <1>1, <2>1
<1>4. f[k - 1].offset \in Nat
  <2>1. k - 1 \in 0 .. m
    BY <1>2
  <2> QED
    BY <2>1, TraceOffsets
<1>5. Steps(a, f[k - 1], f[k]) /\ Steps(b, f[k - 1], g[k])
  BY <1>2, <1>3 DEF Trace
<1>6. f[k] = g[k]
  BY <1>4, <1>5, StepsAgree
<1> QED
  BY <1>6

\* No data that parse begin with other data that parse.
LEMMA PrefixFree ==
    ASSUME NEW a \in Bytes, NEW b \in Bytes, Begins(a, b), Parsed(a), Parsed(b)
    PROVE  Len(a) = Len(b)
<1> PICK m \in Nat : \E f : Trace(a, m, f) /\ f[m].pc = "match" /\ f[m].offset = Len(a)
  BY DEF Parsed
<1>1. PICK f : Trace(a, m, f) /\ f[m].pc = "match" /\ f[m].offset = Len(a)
  OBVIOUS
<1> PICK n \in Nat : \E g : Trace(b, n, g) /\ g[n].pc = "match" /\ g[n].offset = Len(b)
  BY DEF Parsed
<1>2. PICK g : Trace(b, n, g) /\ g[n].pc = "match" /\ g[n].offset = Len(b)
  OBVIOUS
<1>3. \A k \in 0 .. m : k <= n => f[k] = g[k]
  <2>1. Trace(a, m, f) /\ Trace(b, n, g)
    BY <1>1, <1>2
  <2> QED
    BY <2>1, TracesAgree
<1>4. CASE m < n
  <2>1. g[m].pc = "match"
    BY <1>1, <1>3, <1>4
  <2>2. Steps(b, g[m], g[m + 1])
    <3>1. m + 1 \in 1 .. n /\ m + 1 - 1 = m
      BY <1>4
    <3> QED
      BY <1>2, <3>1 DEF Trace
  <2> QED
    BY <2>1, <2>2 DEF Steps
<1>5. CASE n < m
  <2>1. f[n].pc = "match"
    BY <1>2, <1>3, <1>5
  <2>2. Steps(a, f[n], f[n + 1])
    <3>1. n + 1 \in 1 .. m /\ n + 1 - 1 = n
      BY <1>5
    <3> QED
      BY <1>1, <3>1 DEF Trace
  <2> QED
    BY <2>1, <2>2 DEF Steps
<1>6. CASE m = n
  BY <1>1, <1>2, <1>3, <1>6
<1> QED
  BY <1>4, <1>5, <1>6

---------------------------------------------------------------------------
(* The steps of the parser are steps of the function.                      *)

\* The parse that is under way has got here from its start.
Reached == \E m \in Nat : \E f : Trace(raw, m, f) /\ f[m] = Control

\* One step more.
LEMMA ReachedMore ==
    ASSUME Reached, raw' = raw, Steps(raw, Control, Control')
    PROVE  Reached'
<1> PICK m \in Nat : \E f : Trace(raw, m, f) /\ f[m] = Control
  BY DEF Reached
<1>1. PICK f : Trace(raw, m, f) /\ f[m] = Control
  OBVIOUS
<1> DEFINE g == [k \in 0 .. m + 1 |-> IF k = m + 1 THEN Control' ELSE f[k]]
<1>2. g[m + 1] = Control' /\ \A k \in 0 .. m : g[k] = f[k]
  OBVIOUS
<1> HIDE DEF g
<1>3. Trace(raw, m + 1, g)
  <2>1. g[0] = Start
    BY <1>1, <1>2 DEF Trace
  <2>2. ASSUME NEW k \in 1 .. m PROVE Steps(raw, g[k - 1], g[k])
    <3>1. g[k - 1] = f[k - 1] /\ g[k] = f[k]
      BY <1>2
    <3> QED
      BY <1>1, <3>1 DEF Trace
  <2>3. Steps(raw, g[m], g[m + 1])
    BY <1>1, <1>2
  <2>4. ASSUME NEW k \in 1 .. m + 1 PROVE Steps(raw, g[k - 1], g[k])
    <3>1. CASE k \in 1 .. m
      BY <2>2, <3>1
    <3>2. CASE k = m + 1
      <4>1. k - 1 = m
        BY <3>2
      <4> QED
        BY <2>3, <3>2, <4>1
    <3> QED
      BY <3>1, <3>2
  <2> QED
    BY <2>1, <2>4 DEF Trace
<1>4. m + 1 \in Nat
  OBVIOUS
<1>5. Trace(raw', m + 1, g) /\ g[m + 1] = Control'
  BY <1>2, <1>3
<1> QED
  BY <1>4, <1>5 DEF Reached

\* Numbers are read as they are in the data.
LEMMA NumberIsRead == VarIntLen = NumberLen(raw, offset) /\ VarInt = Number(raw, offset)
  BY DEF VarIntLen, VarInt, OneByte, Number, NumberLen

\* A step of the parser is one of the function if the next control is the function's.
LEMMA StepsIf ==
    ASSUME Inside, Inside', raw' = raw, pc \in Places \ {"done", "match"},
           pc = "script" => HasVarInt, Control' = Advance(raw, Control)
    PROVE  Steps(raw, Control, Control')
<1>1. Control.pc = pc /\ Control.offset = offset /\ Control'.offset = offset'
  BY DEF Control, Ctl
<1>2. offset' \in 0 .. Len(raw)
  BY DEF Inside
<1>3. HasVarInt => offset + NumberLen(raw, offset) <= Len(raw)
  BY NumberIsRead DEF HasVarInt, CanRead
<1> QED
  BY <1>1, <1>2, <1>3 DEF Steps

\* Fields of the header.
LEMMA HeaderSteps ==
    ASSUME Inside, ReadHeader, pc' # "done"
    PROVE  Steps(raw, Control, Control')
<1>1. pc = "header" /\ raw' = raw /\ Inside' /\ Len(HeaderFields) = 5
  BY ReadHeaderInside DEF ReadHeader, Return, GoOn, HeaderFields
<1>2. CASE i = 5
  <2>1. GoOn("signers_length", Width(HeaderFields[i])) /\ i' = 0 /\ NoItems
    BY <1>1, <1>2 DEF ReadHeader, Return
  <2> QED
    BY <1>1, <1>2, <2>1, StepsIf DEF GoOn, NoItems, Control, Ctl, Plain, Advance, Places
<1>3. CASE i # 5
  <2>1. GoOn("header", Width(HeaderFields[i])) /\ i' = i + 1 /\ NoItems
    BY <1>1, <1>3 DEF ReadHeader, Return
  <2> QED
    BY <1>1, <1>3, <2>1, StepsIf DEF GoOn, NoItems, Control, Ctl, Plain, Advance, Places
<1> QED
  BY <1>2, <1>3

\* The number of signers.
LEMMA SignersLengthSteps ==
    ASSUME Inside, ReadSignersLength, pc' # "done"
    PROVE  Steps(raw, Control, Control')
<1>1. /\ pc = "signers_length" /\ raw' = raw /\ Inside' /\ NoItems
      /\ HasVarInt /\ SignersAccepted(VarInt)
      /\ tx' = [tx EXCEPT !.signers_size = VarInt] /\ GoOn("account", VarIntLen) /\ i' = 1
  BY ReadSignersLengthInside DEF ReadSignersLength, Fail, Return, GoOn
<1>2. tx'.signers_size = VarInt
  <2>1. VarInt \in 1 .. MaxSigners
    BY <1>1 DEF SignersAccepted
  <2>2. VarInt \in 0 .. MaxSigners
    BY <2>1, LimitsAssumption
  <2> QED
    BY <1>1, <2>2, SignersSizeField DEF Inside
<1>3. Control' = Ctl("account", offset + VarIntLen, 1, "contracts", 0, 0, 0, VarInt, 0)
  BY <1>1, <1>2 DEF GoOn, NoItems, Control
<1>4. Control.pc = "signers_length" /\ Control.offset = offset
  BY <1>1 DEF Control, Ctl
<1>5. Control' = Advance(raw, Control)
  BY <1>1, <1>3, <1>4, NumberIsRead DEF Advance
<1> QED
  BY <1>1, <1>4, <1>5, StepsIf DEF GoOn, Places

\* The account of a signer.
LEMMA AccountSteps ==
    ASSUME Inside, ReadAccount, pc' # "done"
    PROVE  Steps(raw, Control, Control')
<1>1. /\ pc = "account" /\ raw' = raw /\ Inside' /\ NoItems
      /\ tx' = [tx EXCEPT !.signers[i].account = offset]
      /\ GoOn("scope", UINT160_LEN) /\ i' = i
  BY ReadAccountInside DEF ReadAccount, Return, GoOn
<1>2. tx'.signers_size = tx.signers_size
  BY <1>1 DEF Inside, IsTx, TxFields
<1> QED
  BY <1>1, <1>2, StepsIf DEF GoOn, NoItems, Control, Ctl, Advance, Places

\* The scope of a signer.
LEMMA ScopeSteps ==
    ASSUME Inside, ReadScope, pc' # "done"
    PROVE  Steps(raw, Control, Control')
<1>1. /\ pc = "scope" /\ raw' = raw /\ Inside' /\ NoItems
      /\ tx' = [tx EXCEPT !.signers[i].scope = OneByte]
      /\ GoOn("list", 1) /\ i' = i
  BY ReadScopeInside DEF ReadScope, Return, GoOn
<1>2. i \in 1 .. MaxSigners
  BY <1>1, LimitsAssumption DEF Inside, Position, IsTx, GoOn
<1>3. tx'.signers_size = tx.signers_size /\ tx'.signers[i].scope = OneByte
  BY <1>1, <1>2 DEF Inside, IsTx, TxFields, SignerFields
<1>4. Control' = Ctl("list", offset + 1, i, "contracts", 0, 0, OneByte, tx.signers_size, 0)
  BY <1>1, <1>3 DEF GoOn, NoItems, Control
<1>5. /\ Control.pc = "scope" /\ Control.offset = offset
      /\ Control.i = i /\ Control.signers = tx.signers_size
  BY <1>1 DEF Control, Ctl
<1>6. Control' = Advance(raw, Control)
  BY <1>4, <1>5 DEF Advance, OneByte
<1> QED
  BY <1>1, <1>5, <1>6, StepsIf DEF GoOn, Places

\* On to what follows a list, when the transaction keeps the scope.
LEMMA NextListAdvances ==
    ASSUME NEW n \in Nat, pc \in {"list", "item"}, list \in Lists, NextList(n),
           tx'.signers_size = tx.signers_size, tx'.signers[i].scope = tx.signers[i].scope
    PROVE  Control' = AfterList(Control, n)
<1>0. /\ Control.offset = offset /\ Control.list = list /\ Control.i = i
      /\ Control.scope = tx.signers[i].scope /\ Control.signers = tx.signers_size
  BY DEF Control, Ctl
<1>1. CASE list = "contracts"
  <2>1. Control' = Ctl("list", offset + n, i, "groups", 0, 0, tx.signers[i].scope, tx.signers_size, 0)
    BY <1>1 DEF NextList, GoOn, Control
  <2> QED
    BY <1>0, <1>1, <2>1 DEF AfterList
<1>2. CASE list = "groups" /\ i < tx.signers_size
  <2>1. Control' = Ctl("account", offset + n, i + 1, "contracts", 0, 0, 0, tx.signers_size, 0)
    BY <1>2 DEF NextList, GoOn, Control
  <2> QED
    BY <1>0, <1>2, <2>1 DEF AfterList
<1>3. CASE list = "groups" /\ ~(i < tx.signers_size)
  <2>1. Control' = Ctl("attributes_length", offset + n, 0, "contracts", 0, 0, 0, 0, 0)
    BY <1>3 DEF NextList, GoOn, Control
  <2> QED
    BY <1>0, <1>3, <2>1 DEF AfterList
<1> QED
  BY <1>1, <1>2, <1>3 DEF Lists

\* The length of a list, if the scope has its flag.
LEMMA ListLengthSteps ==
    ASSUME Inside, ReadListLength, pc' # "done"
    PROVE  Steps(raw, Control, Control')
<1>1. pc = "list" /\ raw' = raw /\ Inside' /\ list \in Lists /\ i \in 1 .. MaxSigners
  <2>1. pc = "list" /\ raw' = raw
    BY DEF ReadListLength, NextList, Fail, Return, GoOn
  <2> QED
    BY <2>1, ReadListLengthInside, LimitsAssumption DEF Inside, Position, IsTx
<1>2. Control.pc = "list" /\ Control.list = list /\ Control.scope = tx.signers[i].scope
      /\ Control.offset = offset
  BY <1>1 DEF Control, Ctl
<1>3. CASE ~HasFlag(list, tx.signers[i].scope)
  <2>1. NextList(0) /\ tx' = tx
    BY <1>3 DEF ReadListLength
  <2>2. Control' = AfterList(Control, 0)
    BY <1>1, <2>1, NextListAdvances
  <2> QED
    BY <1>1, <1>2, <1>3, <2>2, StepsIf DEF Advance, Places
<1>4. CASE HasFlag(list, tx.signers[i].scope)
  <2>1. /\ HasVarInt /\ tx' = [tx EXCEPT !.signers[i].size[list] = VarInt]
        /\ IF VarInt = 0
           THEN NextList(VarIntLen)
           ELSE GoOn("item", VarIntLen) /\ j' = 1 /\ listed' = VarInt /\ i' = i /\ list' = list
    BY <1>4 DEF ReadListLength, Fail, Return
  <2>2. tx'.signers_size = tx.signers_size /\ tx'.signers[i].scope = tx.signers[i].scope
    BY <1>1, <2>1 DEF Inside, IsTx, TxFields, SignerFields
  <2>3. VarIntLen \in Nat
    BY DEF VarIntLen
  <2>4. CASE VarInt = 0
    <3>1. Control' = AfterList(Control, VarIntLen)
      BY <1>1, <2>1, <2>2, <2>3, <2>4, NextListAdvances
    <3> QED
      BY <1>1, <1>2, <1>4, <2>4, <3>1, NumberIsRead, StepsIf DEF Advance, Places
  <2>5. CASE VarInt # 0
    <3>1. Control' = Ctl("item", offset + VarIntLen, i, list, 1, VarInt,
                         tx.signers[i].scope, tx.signers_size, 0)
      BY <2>1, <2>2, <2>5 DEF GoOn, Control
    <3>2. Control.i = i /\ Control.signers = tx.signers_size
      BY <1>1 DEF Control, Ctl
    <3> QED
      BY <1>1, <1>2, <1>4, <2>5, <3>1, <3>2, NumberIsRead, StepsIf DEF Advance, Places
  <2> QED
    BY <2>4, <2>5
<1> QED
  BY <1>3, <1>4

\* The items of a list.
LEMMA ItemSteps ==
    ASSUME Inside, ReadItem, pc' # "done"
    PROVE  Steps(raw, Control, Control')
<1>1. /\ pc = "item" /\ raw' = raw /\ Inside' /\ list \in Lists /\ i \in 1 .. MaxSigners
  <2>1. pc = "item" /\ raw' = raw
    BY DEF ReadItem, NextList, Return, GoOn
  <2> QED
    BY <2>1, ReadItemInside, LimitsAssumption DEF Inside, Position, IsTx
<1>2. /\ tx' = [tx EXCEPT !.signers[i].allowed[list][j] = offset]
      /\ IF j = listed
         THEN NextList(ItemLen(list))
         ELSE GoOn("item", ItemLen(list)) /\ j' = j + 1 /\ i' = i /\ list' = list /\ listed' = listed
  BY DEF ReadItem, Return
<1>3. tx'.signers_size = tx.signers_size /\ tx'.signers[i].scope = tx.signers[i].scope
  <2> DEFINE allowed == [tx.signers[i].allowed EXCEPT ![list][j] = offset]
  <2>1. tx' = [tx EXCEPT !.signers[i].allowed = allowed]
    BY <1>2
  <2> HIDE DEF allowed
  <2> QED
    BY <1>1, <2>1 DEF Inside, IsTx, TxFields, SignerFields
<1>4. /\ Control.pc = "item" /\ Control.list = list /\ Control.j = j /\ Control.listed = listed
      /\ Control.offset = offset /\ Control.i = i
      /\ Control.scope = tx.signers[i].scope /\ Control.signers = tx.signers_size
  BY <1>1 DEF Control, Ctl
<1>5. CASE j = listed
  <2>1. ItemLen(list) \in Nat
    BY ScriptAssumption DEF ItemLen
  <2>2. Control' = AfterList(Control, ItemLen(list))
    BY <1>1, <1>2, <1>3, <1>5, <2>1, NextListAdvances
  <2> QED
    BY <1>1, <1>4, <1>5, <2>2, StepsIf DEF Advance, Places
<1>6. CASE j # listed
  <2>1. Control' = Ctl("item", offset + ItemLen(list), i, list, j + 1, listed,
                       tx.signers[i].scope, tx.signers_size, 0)
    BY <1>2, <1>3, <1>6 DEF GoOn, Control
  <2> QED
    BY <1>1, <1>4, <1>6, <2>1, StepsIf DEF Advance, Places
<1> QED
  BY <1>5, <1>6

\* The number of attributes.
LEMMA AttributesLengthSteps ==
    ASSUME Inside, ReadAttributesLength, pc' # "done"
    PROVE  Steps(raw, Control, Control')
<1>1. /\ pc = "attributes_length" /\ raw' = raw /\ Inside' /\ NoItems
      /\ HasVarInt /\ VarInt <= MaxAttributes /\ tx' = [tx EXCEPT !.attributes_size = VarInt]
      /\ IF VarInt = 0 THEN GoOn("script", VarIntLen) /\ i' = 0
         ELSE GoOn("attribute", VarIntLen) /\ i' = 1
  BY ReadAttributesLengthInside DEF ReadAttributesLength, Fail, Return, GoOn
<1>2. tx'.attributes_size = VarInt
  <2>1. VarInt \in Nat /\ VarInt <= MaxAttributes
    BY <1>1, VarIntType DEF Inside
  <2>2. VarInt \in 0 .. MaxAttributes
    BY <2>1, LimitsAssumption
  <2> QED
    BY <1>1, <2>2, AttributesSizeField DEF Inside
<1>3. CASE VarInt = 0
  BY <1>1, <1>3, NumberIsRead, StepsIf DEF GoOn, NoItems, Control, Ctl, Plain, Advance, Places
<1>4. CASE VarInt # 0
  BY <1>1, <1>2, <1>4, NumberIsRead, StepsIf DEF GoOn, NoItems, Control, Ctl, Advance, Places
<1> QED
  BY <1>3, <1>4

\* The attributes.
LEMMA AttributeSteps ==
    ASSUME Inside, ReadAttribute, pc' # "done"
    PROVE  Steps(raw, Control, Control')
<1>1. /\ pc = "attribute" /\ raw' = raw /\ Inside' /\ NoItems
      /\ tx' = [tx EXCEPT !.attributes[i] = HIGH_PRIORITY]
      /\ IF i = tx.attributes_size THEN GoOn("script", 1) /\ i' = 0
         ELSE GoOn("attribute", 1) /\ i' = i + 1
  BY ReadAttributeInside DEF ReadAttribute, Fail, Return, GoOn
<1>2. tx'.attributes_size = tx.attributes_size
  BY <1>1 DEF Inside, IsTx, TxFields
<1>3. CASE i = tx.attributes_size
  BY <1>1, <1>3, StepsIf DEF GoOn, NoItems, Control, Ctl, Plain, Advance, Places
<1>4. CASE i # tx.attributes_size
  BY <1>1, <1>2, <1>4, StepsIf DEF GoOn, NoItems, Control, Ctl, Advance, Places
<1> QED
  BY <1>3, <1>4

\* The script.
LEMMA ScriptSteps ==
    ASSUME Inside, ReadScript, pc' # "done"
    PROVE  Steps(raw, Control, Control')
<1>1. /\ pc = "script" /\ raw' = raw /\ Inside' /\ NoItems /\ HasVarInt
      /\ GoOn("match", VarIntLen + VarInt) /\ i' = i
  BY ReadScriptInside DEF ReadScript, Fail, Return, GoOn
<1>2. offset + (VarIntLen + VarInt) = offset + VarIntLen + VarInt
  BY <1>1, VarIntType DEF Inside
<1> QED
  BY <1>1, <1>2, NumberIsRead, StepsIf DEF GoOn, NoItems, Control, Ctl, Plain, Advance, Places

\* Every step that does not end the parse.
LEMMA ReadSteps ==
    ASSUME Inside, Read, pc' # "done"
    PROVE  Steps(raw, Control, Control') /\ raw' = raw
<1>1. raw' = raw
  BY DEF Read, ReadHeader, ReadSignersLength, ReadAccount, ReadScope, ReadListLength, ReadItem,
         ReadAttributesLength, ReadAttribute, ReadScript, Match, NextList, Fail, Return, GoOn
<1>2. ~Match
  BY DEF Match, Return
<1> QED
  BY <1>1, <1>2, HeaderSteps, SignersLengthSteps, AccountSteps, ScopeSteps, ListLengthSteps,
     ItemSteps, AttributesLengthSteps, AttributeSteps, ScriptSteps DEF Read

---------------------------------------------------------------------------
(* The invariant.                                                          *)

\* What was reviewed is how the upload begins, and there is more of it by the time
\* it is parsed again.
Reviewed ==
    \E n \in 0 .. Len(raw) :
       (pc # "done" => n < Len(raw)) /\ Parsed(SubSeq(raw, 1, n))

OnceInv ==
    /\ Inside
    /\ pc # "done" => Reached
    /\ (pc = "done" /\ status = "PARSING_OK") => Parsed(raw) /\ (~signed => reviews = 0)
    /\ IsOpen => pc = "done" /\ status = "reviewed" /\ (~signed => reviews = 1)
    /\ signed \in BOOLEAN /\ reviews \in Nat
    /\ (~signed /\ reviews # 0) => Reviewed

\* The application starts with nothing reviewed.
LEMMA OnceInit == Init => OnceInv
<1> SUFFICES ASSUME Init PROVE OnceInv
  OBVIOUS
<1>1. Inside
  BY InsideInit
<1>2. pc = "done" /\ status = "none" /\ ~IsOpen /\ reviews = 0 /\ signed = FALSE
  BY DEF Init, IsOpen
<1> QED
  BY <1>1, <1>2 DEF OnceInv

\* One more byte, behind what is there.
LEMMA NextDataAppends ==
    ASSUME NEW data \in NextData, raw \in Bytes
    PROVE  /\ data \in Bytes /\ Len(data) = Len(raw) + 1
           /\ \A n \in 0 .. Len(raw) : SubSeq(data, 1, n) = SubSeq(raw, 1, n)
           /\ raw # << >> => data # << >> /\ data[1] = raw[1]
<1>1. PICK u \in Uploads : Len(raw) < Len(u) /\ data = Append(raw, u[Len(raw) + 1])
  BY DEF NextData, Begun
<1>2. u[Len(raw) + 1] \in Byte
  <2>1. u \in Seq(Byte)
    BY <1>1, UploadsAssumption DEF Uploads, Bytes
  <2>2. Len(raw) + 1 \in 1 .. Len(u)
    BY <1>1, <2>1 DEF Bytes
  <2> QED
    BY <2>1, <2>2
<1>3. /\ data \in Seq(Byte) /\ raw \in Seq(Byte) /\ Len(data) = Len(raw) + 1
      /\ \A k \in 1 .. Len(raw) : data[k] = raw[k]
  BY <1>1, <1>2 DEF Bytes
<1>4. ASSUME NEW n \in 0 .. Len(raw) PROVE SubSeq(data, 1, n) = SubSeq(raw, 1, n)
  BY <1>3, <1>4
<1> QED
  BY <1>3, <1>4 DEF Bytes

\* More data leave what was reviewed in front.
LEMMA ReviewedMore ==
    ASSUME raw \in Bytes, raw' \in NextData, pc = "done", Reviewed
    PROVE  Reviewed'
<1>1. PICK n \in 0 .. Len(raw) : Parsed(SubSeq(raw, 1, n))
  BY DEF Reviewed
<1>2. SubSeq(raw', 1, n) = SubSeq(raw, 1, n) /\ Len(raw') = Len(raw) + 1
  BY NextDataAppends
<1>3. n \in 0 .. Len(raw') /\ n < Len(raw')
  BY <1>2 DEF Bytes
<1> QED
  BY <1>1, <1>2, <1>3 DEF Reviewed

\* What was reviewed does not parse again, unless signing has written over it.
LEMMA NotAgain ==
    ASSUME OnceInv, pc # "done", Parsed(raw), ~signed
    PROVE  reviews = 0
<1> SUFFICES ASSUME reviews # 0 PROVE FALSE
  OBVIOUS
<1>1. raw \in Bytes /\ Reviewed
  BY DEF OnceInv, Inside
<1>2. PICK n \in 0 .. Len(raw) : n < Len(raw) /\ Parsed(SubSeq(raw, 1, n))
  BY <1>1 DEF Reviewed
<1>3. /\ SubSeq(raw, 1, n) \in Bytes /\ Len(SubSeq(raw, 1, n)) = n
      /\ \A k \in 1 .. n : SubSeq(raw, 1, n)[k] = raw[k]
  BY <1>1 DEF Bytes
<1>4. Begins(SubSeq(raw, 1, n), raw)
  BY <1>2, <1>3 DEF Begins
<1> DEFINE a == SubSeq(raw, 1, n)
<1>5. a \in Bytes /\ Begins(a, raw) /\ Parsed(a) /\ Len(a) = n
  BY <1>2, <1>3, <1>4
<1> HIDE DEF a
<1>6. Len(a) = Len(raw)
  BY <1>1, <1>5, PrefixFree
<1> QED
  BY <1>2, <1>5, <1>6

\* The parser runs on what it was started with, until it is done.
LEMMA ReadKeepsRaw == Read => raw' = raw /\ pc # "done"
  BY DEF Read, ReadHeader, ReadSignersLength, ReadAccount, ReadScope, ReadListLength, ReadItem,
         ReadAttributesLength, ReadAttribute, ReadScript, Match, NextList, Fail, Return, GoOn

\* Only a match of the whole upload is a success.
LEMMA MatchedAll ==
    ASSUME Read, pc' = "done", status' = "PARSING_OK"
    PROVE  pc = "match" /\ offset = Len(raw)
<1>1. Match
  BY DEF Read, ReadHeader, ReadSignersLength, ReadAccount, ReadScope, ReadListLength, ReadItem,
         ReadAttributesLength, ReadAttribute, ReadScript, Match, NextList, Fail, Return, GoOn
<1> QED
  BY <1>1 DEF Match, Return, Result

\* The parser.
LEMMA OnceParse ==
    ASSUME OnceInv, Parse
    PROVE  OnceInv'
<1>1. /\ Inside /\ Inside' /\ Read /\ raw' = raw /\ pc # "done"
      /\ reviews' = reviews /\ signed' = signed /\ page' = page
  BY ReadInside, ReadKeepsRaw DEF OnceInv, Parse, review, history
<1>2. ~IsOpen /\ ~IsOpen'
  BY <1>1 DEF OnceInv, IsOpen
<1>3. (~signed' /\ reviews' # 0) => Reviewed'
  BY <1>1 DEF OnceInv, Reviewed
<1>4. CASE pc' # "done"
  <2>1. Steps(raw, Control, Control')
    BY <1>1, <1>4, ReadSteps
  <2>2. Reached'
    BY <1>1, <2>1, ReachedMore DEF OnceInv
  <2> QED
    BY <1>1, <1>2, <1>3, <1>4, <2>2 DEF OnceInv
<1>5. CASE pc' = "done"
  <2>1. ASSUME status' = "PARSING_OK" PROVE Parsed(raw') /\ (~signed' => reviews' = 0)
    <3>1. pc = "match" /\ offset = Len(raw)
      BY <1>1, <1>5, <2>1, MatchedAll
    <3>2. Control.pc = "match" /\ Control.offset = Len(raw)
      BY <3>1 DEF Control, Ctl
    <3>3. Parsed(raw)
      BY <1>1, <3>2 DEF OnceInv, Reached, Parsed
    <3> QED
      BY <1>1, <3>3, NotAgain
  <2> QED
    BY <1>1, <1>2, <1>3, <1>5, <2>1 DEF OnceInv
<1> QED
  BY <1>4, <1>5

\* The invariant, step by step.
LEMMA OnceNext == OnceInv /\ [Next]_vars => OnceInv'
<1> SUFFICES ASSUME OnceInv, [Next]_vars PROVE OnceInv'
  OBVIOUS
<1>1. Inside /\ Inside' /\ raw \in Bytes
  BY InsideNext DEF OnceInv, Inside
<1>2. CASE NewUpload
  BY <1>1, <1>2 DEF NewUpload, HostMaySend, review, IsOpen, OnceInv
<1>3. CASE ReceiveMore
  <2>1. /\ pc' = "done" /\ status' # "PARSING_OK" /\ ~IsOpen' /\ reviews' = reviews
        /\ pc = "done" /\ raw' \in NextData /\ signed' = signed
    BY <1>3 DEF ReceiveMore, HostMaySend, parser, review, history, IsOpen
  <2>2. (~signed' /\ reviews' # 0) => Reviewed'
    BY <1>1, <2>1, ReviewedMore DEF OnceInv
  <2> QED
    BY <1>1, <2>1, <2>2 DEF OnceInv
<1>4. CASE ReceiveLast
  <2>1. /\ raw' \in NextData /\ pc = "done" /\ pc' = "header" /\ i' = 1 /\ offset' = 0
        /\ list' = "contracts" /\ j' = 0 /\ listed' = 0 /\ reviews' = reviews /\ signed' = signed
        /\ ~IsOpen'
    BY <1>4 DEF ReceiveLast, Begin, NoItems, HostMaySend, review, history, IsOpen
  <2>2. Control' = Start
    BY <2>1 DEF Control, Start, Ctl
  <2>3. Trace(raw', 0, [k \in 0 .. 0 |-> Start])
    BY DEF Trace
  <2>4. Reached'
    BY <2>2, <2>3 DEF Reached
  <2>5. (~signed' /\ reviews' # 0) => Reviewed'
    BY <1>1, <2>1, ReviewedMore DEF OnceInv
  <2> QED
    BY <1>1, <2>1, <2>4, <2>5 DEF OnceInv
<1>5. CASE Parse
  BY <1>5, OnceParse
<1>6. CASE ShowReview
  <2>1. /\ raw' = raw /\ pc = "done" /\ pc' = "done" /\ status' = "reviewed" /\ signed' = signed
        /\ reviews' = reviews + 1 /\ (~signed => reviews = 0) /\ Parsed(raw)
    BY <1>6 DEF ShowReview, OnceInv
  <2>2. SubSeq(raw, 1, Len(raw)) = raw /\ Len(raw) \in 0 .. Len(raw)
    BY <1>1 DEF Bytes
  <2>3. Reviewed'
    BY <2>1, <2>2 DEF Reviewed
  <2>4. reviews' \in Nat /\ (~signed' => reviews' = 1) /\ signed' \in BOOLEAN
    BY <2>1 DEF OnceInv
  <2> QED
    BY <1>1, <2>1, <2>3, <2>4 DEF OnceInv
<1>7. CASE Approve
  <2>1. IsOpen /\ ~IsOpen' /\ UNCHANGED << parser, reviews >> /\ signed'
    BY <1>7 DEF Approve, Drawn, IsOpen
  <2>2. pc' = "done" /\ status' = "reviewed" /\ reviews' \in Nat /\ signed' \in BOOLEAN
    BY <1>7, <2>1 DEF Approve, OnceInv, parser
  <2> QED
    BY <1>1, <2>1, <2>2 DEF OnceInv
<1>8. CASE Look \/ Reject \/ UNCHANGED vars
  <2>1. UNCHANGED << raw, tx, parser, reviews, signed >> /\ (IsOpen' => IsOpen)
    BY <1>8 DEF Look, Measure, Draw, Swipe, Drawn, Reject, IsOpen, vars, review, history
  <2>2. Reached' = Reached /\ Reviewed' = Reviewed
    BY <2>1 DEF Reached, Reviewed, Control, parser
  <2> QED
    BY <1>1, <2>1, <2>2 DEF OnceInv, parser
<1> QED
  BY <1>2, <1>3, <1>4, <1>5, <1>6, <1>7, <1>8 DEF Next

---------------------------------------------------------------------------

\* As long as nothing is signed, what was reviewed once is not reviewed again before
\* the next chunk 0, whatever the host sends behind it: ReviewedOnce of Upload.
THEOREM ReviewedOnceTheorem == Spec => []ReviewedOnce
<1>1. OnceInv => ReviewedOnce
  BY DEF OnceInv, ReviewedOnce
<1> QED
  BY <1>1, OnceInit, OnceNext, PTL DEF Spec

---------------------------------------------------------------------------
(* Fronts that the parser refuses.                                         *)

AtVersion     == pc = "header" /\ i = 1 /\ offset = 0
VersionIsZero == raw # << >> /\ raw[1] = 0

\* Nothing gets past the version byte but a zero, and signing leaves another byte.
FrontInv ==
    /\ Inside
    /\ pc # "done" => AtVersion \/ VersionIsZero
    /\ (pc = "done" /\ status = "PARSING_OK") => VersionIsZero
    /\ IsOpen => pc = "done" /\ status = "reviewed" /\ VersionIsZero
    /\ signed \in BOOLEAN
    /\ signed => raw # << >> /\ raw[1] # 0

\* A version that is taken is zero.
LEMMA VersionRead ==
    ASSUME Inside, Read, AtVersion, pc' # "done"
    PROVE  VersionIsZero'
<1>1. ReadHeader
  BY DEF Read, AtVersion, ReadHeader, ReadSignersLength, ReadAccount, ReadScope, ReadListLength,
         ReadItem, ReadAttributesLength, ReadAttribute, ReadScript, Match
<1>2. HeaderFields[i] = "version" /\ Width(HeaderFields[i]) = 1
  BY DEF AtVersion, HeaderFields, Width
<1>3. raw' = raw /\ CanRead(1) /\ HeaderAccepted("version", Ahead(1))
  BY <1>1, <1>2 DEF ReadHeader, Return, GoOn
<1>4. raw # << >> /\ Ahead(1) = << raw[1] >>
  <2>1. raw \in Seq(Byte) /\ 1 <= Len(raw) /\ offset = 0
    BY <1>3 DEF CanRead, AtVersion, Inside, Bytes
  <2>2. raw # << >>
    BY <2>1
  <2>3. Ahead(1) = SubSeq(raw, 1, 1)
    BY <2>1 DEF Ahead, At
  <2> QED
    BY <2>1, <2>2, <2>3
<1> QED
  BY <1>3, <1>4 DEF HeaderAccepted, VersionIsZero

LEMMA FrontInit == Init => FrontInv
<1> SUFFICES ASSUME Init PROVE FrontInv
  OBVIOUS
<1>1. Inside
  BY InsideInit
<1>2. pc = "done" /\ status = "none" /\ ~IsOpen /\ signed = FALSE
  BY DEF Init, IsOpen
<1> QED
  BY <1>1, <1>2 DEF FrontInv

\* The parser.
LEMMA FrontParse ==
    ASSUME FrontInv, Parse
    PROVE  FrontInv'
<1>1. /\ Inside /\ Inside' /\ Read /\ raw' = raw /\ pc # "done"
      /\ signed' = signed /\ page' = page
  BY ReadInside, ReadKeepsRaw DEF FrontInv, Parse, review, history
<1>2. VersionIsZero => VersionIsZero'
  BY <1>1 DEF VersionIsZero
<1>3. ~IsOpen'
  BY <1>1 DEF FrontInv, IsOpen
<1>4. pc' # "done" => VersionIsZero'
  BY <1>1, <1>2, VersionRead DEF FrontInv
<1>5. ASSUME pc' = "done", status' = "PARSING_OK" PROVE VersionIsZero'
  <2>1. ~AtVersion
    BY <1>1, <1>5, MatchedAll DEF AtVersion
  <2> QED
    BY <1>1, <1>2, <2>1 DEF FrontInv
<1> QED
  BY <1>1, <1>3, <1>4, <1>5 DEF FrontInv

\* The invariant, step by step, when no front begins with a zero.
LEMMA FrontNext ==
    ASSUME \A front \in SigningFronts : front[1] # 0
    PROVE  FrontInv /\ [Next]_vars => FrontInv'
<1> SUFFICES ASSUME FrontInv, [Next]_vars PROVE FrontInv'
  OBVIOUS
<1>1. Inside /\ Inside' /\ raw \in Bytes
  BY InsideNext DEF FrontInv, Inside
<1>2. CASE NewUpload
  BY <1>1, <1>2 DEF NewUpload, HostMaySend, review, IsOpen, FrontInv
<1>3. CASE ReceiveMore
  <2>1. /\ pc' = "done" /\ status' # "PARSING_OK" /\ ~IsOpen'
        /\ raw' \in NextData /\ signed' = signed
    BY <1>3 DEF ReceiveMore, HostMaySend, parser, review, history, IsOpen
  <2> QED
    BY <1>1, <2>1, NextDataAppends DEF FrontInv
<1>4. CASE ReceiveLast
  <2>1. raw' \in NextData /\ AtVersion' /\ pc' # "done" /\ signed' = signed /\ ~IsOpen'
    BY <1>4 DEF ReceiveLast, Begin, HostMaySend, review, history, IsOpen, AtVersion
  <2> QED
    BY <1>1, <2>1, NextDataAppends DEF FrontInv
<1>5. CASE Parse
  BY <1>5, FrontParse
<1>6. CASE ShowReview
  <2>1. /\ raw' = raw /\ pc' = "done" /\ status' = "reviewed" /\ signed' = signed
        /\ VersionIsZero
    BY <1>6 DEF ShowReview, FrontInv
  <2> QED
    BY <1>1, <2>1 DEF FrontInv, VersionIsZero
<1>7. CASE Approve
  <2>1. IsOpen /\ ~IsOpen' /\ UNCHANGED parser /\ signed' = TRUE
    BY <1>7 DEF Approve, Drawn, IsOpen
  <2>2. PICK front \in SigningFronts : raw' = AfterSigning(raw, front)
    BY <1>7 DEF Approve
  <2>3. raw # << >> /\ 1 \in DOMAIN raw /\ 1 \in DOMAIN front
    BY <1>1, <2>1, <2>2, UploadsAssumption DEF FrontInv, VersionIsZero, Bytes
  <2>4. raw'[1] = front[1] /\ 1 \in DOMAIN raw'
    BY <2>2, <2>3 DEF AfterSigning
  <2>5. raw' # << >> /\ raw'[1] # 0
    BY <1>1, <2>2, <2>4 DEF Inside, Bytes
  <2>6. pc = "done" /\ status = "reviewed"
    BY <2>1 DEF FrontInv
  <2> QED
    BY <1>1, <2>1, <2>5, <2>6 DEF FrontInv, parser
<1>8. CASE Look \/ Reject \/ UNCHANGED vars
  <2>1. UNCHANGED << raw, tx, parser, signed >> /\ (IsOpen' => IsOpen)
    BY <1>8 DEF Look, Measure, Draw, Swipe, Drawn, Reject, IsOpen, vars, review, history
  <2> QED
    BY <1>1, <2>1 DEF FrontInv, parser, AtVersion, VersionIsZero
<1> QED
  BY <1>2, <1>3, <1>4, <1>5, <1>6, <1>7, <1>8 DEF Next

\* When the low byte of the magic is not zero (it is 78 for MainNet and for TestNet),
\* nothing that was signed is reviewed again before the next chunk 0: every review is of
\* what the host uploaded, and what is stated of reviews before a signature is true of all.
THEOREM FrontsRefused ==
    ASSUME \A front \in SigningFronts : front[1] # 0
    PROVE  Spec => [](IsOpen => ~signed)
<1>1. FrontInv => (IsOpen => ~signed)
  BY DEF FrontInv, VersionIsZero
<1> QED
  BY <1>1, FrontInit, FrontNext, PTL DEF Spec
=============================================================================
