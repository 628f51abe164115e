--------------------------- MODULE NbglReviewProofs ---------------------------
(***************************************************************************)
(* Theorems about the review of an upload on Stax and Flex, for reviews of *)
(* any length and any number of slots: what is on the screen is the        *)
(* transaction that was parsed, its items fit the array they are kept in,  *)
(* and they are those of the other build in the same order.                *)
(***************************************************************************)
EXTENDS UploadProofs

---------------------------------------------------------------------------
(* One signer behind the other: FlattenSeq of the community modules, which *)
(* is written as a recursive function.                                     *)

\* What holds of 1 and of each next number holds of all of them.
LEMMA UpTo ==
    ASSUME NEW n \in Nat, NEW T, n >= 1 => 1 \in T,
           \A k \in 1 .. n : k < n /\ k \in T => k + 1 \in T
    PROVE  1 .. n \subseteq T
<1> SUFFICES ASSUME (1 .. n) \ T # {} PROVE FALSE
  OBVIOUS
<1>1. (1 .. n) \ T \in SUBSET Nat
  OBVIOUS
<1>2. PICK k \in (1 .. n) \ T : \A l \in (1 .. n) \ T : k <= l
  BY <1>1, LeastNumber, Zenon
<1>3. k # 1
  BY <1>2
<1>4. k - 1 \in 1 .. n /\ ~(k <= k - 1) /\ (k - 1) + 1 = k /\ k - 1 < n
  BY <1>2, <1>3
<1>5. k - 1 \in T
  BY <1>2, <1>4
<1> QED
  BY <1>2, <1>4, <1>5

\* A function that joins the first k blocks, for each k.
Joins(ss, n, h) == h = [k \in 1 .. n |-> IF k = 1 THEN ss[k] ELSE h[k - 1] \o ss[k]]

\* The function at k, named so that a quantified fact does not unfold it on and on.
Joined(ss, h, k) == h[k] = h[k - 1] \o ss[k]

\* The function, at its first place and at any other one.
LEMMA JoinsAt ==
    ASSUME NEW n \in Nat \ {0}, NEW ss, NEW h, Joins(ss, n, h)
    PROVE  /\ h[1] = ss[1]
           /\ \A k \in 1 .. n : k # 1 => Joined(ss, h, k)
<1> DEFINE f == [l \in 1 .. n |-> IF l = 1 THEN ss[l] ELSE h[l - 1] \o ss[l]]
<1>1. f[1] = ss[1]
  OBVIOUS
<1>2. \A k \in 1 .. n : k # 1 => f[k] = h[k - 1] \o ss[k]
  OBVIOUS
<1>3. h = f
  BY Zenon DEF Joins
<1> HIDE DEF f
<1>4. \A k \in 1 .. n : k # 1 => Joined(ss, h, k)
  BY <1>2, <1>3 DEF Joined
<1> QED
  BY <1>1, <1>3, <1>4

\* There is one.
LEMMA JoinsExist ==
    ASSUME NEW S, NEW n \in Nat \ {0}, NEW ss \in [1 .. n -> Seq(S)]
    PROVE  \E h : Joins(ss, n, h)
<1> DEFINE T == {k \in 1 .. n : \E h \in [1 .. k -> Seq(S)] : Joins(ss, k, h)}
<1>1. 1 \in T
  <2> DEFINE h == [k \in 1 .. 1 |-> ss[1]]
  <2>1. h \in [1 .. 1 -> Seq(S)]
    OBVIOUS
  <2>2. h = [k \in 1 .. 1 |-> IF k = 1 THEN ss[k] ELSE h[k - 1] \o ss[k]]
    OBVIOUS
  <2>3. Joins(ss, 1, h)
    BY <2>2 DEF Joins
  <2> QED
    BY <2>1, <2>3
<1>2. ASSUME NEW k \in 1 .. n, k < n, k \in T PROVE k + 1 \in T
  <2>1. PICK h \in [1 .. k -> Seq(S)] : Joins(ss, k, h)
    BY <1>2
  <2>2. h[1] = ss[1] /\ \A l \in 1 .. k : l # 1 => Joined(ss, h, l)
    <3>1. k \in Nat \ {0}
      OBVIOUS
    <3> QED
      BY <2>1, <3>1, JoinsAt
  <2> DEFINE g == [l \in 1 .. k + 1 |-> IF l <= k THEN h[l] ELSE h[k] \o ss[k + 1]]
  <2>3. g \in [1 .. k + 1 -> Seq(S)]
    <3>1. h[k] \in Seq(S) /\ ss[k + 1] \in Seq(S)
      BY <1>2
    <3>2. h[k] \o ss[k + 1] \in Seq(S)
      BY <3>1, ConcatProperties
    <3> QED
      BY <3>2
  <2>4. (\A l \in 1 .. k : g[l] = h[l]) /\ g[k + 1] = h[k] \o ss[k + 1]
    <3>1. \A l \in 1 .. k : l \in 1 .. k + 1 /\ l <= k
      OBVIOUS
    <3>2. k + 1 \in 1 .. k + 1 /\ ~(k + 1 <= k)
      OBVIOUS
    <3> QED
      BY <3>1, <3>2
  <2> HIDE DEF g
  <2>5. ASSUME NEW l \in 1 .. k + 1
        PROVE  g[l] = IF l = 1 THEN ss[l] ELSE g[l - 1] \o ss[l]
    <3>1. CASE l = 1
      BY <2>2, <2>4, <3>1
    <3>2. CASE l # 1 /\ l <= k
      <4>1. Joined(ss, h, l)
        BY <2>2, <3>2
      <4>2. h[l] = h[l - 1] \o ss[l]
        BY <4>1 DEF Joined
      <4>3. l \in 1 .. k /\ l - 1 \in 1 .. k
        BY <3>2
      <4>4. g[l] = h[l] /\ g[l - 1] = h[l - 1]
        BY <2>4, <4>3
      <4> QED
        BY <3>2, <4>2, <4>4
    <3>3. CASE l = k + 1
      <4>1. l # 1 /\ g[l] = h[k] \o ss[l] /\ g[l - 1] = h[k]
        BY <2>4, <3>3
      <4> QED
        BY <4>1
    <3> QED
      BY <3>1, <3>2, <3>3
  <2>6. g = [l \in 1 .. k + 1 |-> IF l = 1 THEN ss[l] ELSE g[l - 1] \o ss[l]]
    BY <2>3, <2>5
  <2>7. Joins(ss, k + 1, g)
    BY <2>6 DEF Joins
  <2> QED
    BY <1>2, <2>3, <2>7
<1>3. 1 .. n \subseteq T
  <2> HIDE DEF T
  <2> QED
    BY <1>1, <1>2, UpTo
<1> QED
  BY <1>3

\* FlattenSeq is the join of all blocks.
LEMMA FlattenJoins ==
    ASSUME NEW S, NEW n \in Nat \ {0}, NEW ss \in [1 .. n -> Seq(S)]
    PROVE  \E h : Joins(ss, n, h) /\ FlattenSeq(ss) = h[n]
<1>1. Len(ss) = n
  OBVIOUS
<1>2. PICK g : g = [k \in 1 .. Len(ss) |-> IF k = 1 THEN ss[k] ELSE g[k - 1] \o ss[k]]
  <2>1. PICK g : Joins(ss, n, g)
    BY JoinsExist
  <2> QED
    BY <1>1, <2>1, Zenon DEF Joins
<1>3. \E h : /\ h = [k \in 1 .. Len(ss) |-> IF k = 1 THEN ss[k] ELSE h[k - 1] \o ss[k]]
             /\ FlattenSeq(ss) = h[Len(ss)]
  BY <1>1, <1>2 DEF FlattenSeq
<1> QED
  BY <1>1, <1>3 DEF Joins

\* A join, block by block.
LEMMA JoinsSteps ==
    ASSUME NEW S, NEW n \in Nat \ {0}, NEW ss \in [1 .. n -> Seq(S)], NEW h, Joins(ss, n, h)
    PROVE  /\ h[1] = ss[1]
           /\ \A k \in 1 .. n : k < n => h[k + 1] = h[k] \o ss[k + 1]
           /\ \A k \in 1 .. n : h[k] \in Seq(S)
<1>1. h[1] = ss[1]
  BY JoinsAt
<1>2. \A k \in 1 .. n : k < n => h[k + 1] = h[k] \o ss[k + 1]
  <2> SUFFICES ASSUME NEW k \in 1 .. n, k < n PROVE h[k + 1] = h[k] \o ss[k + 1]
    OBVIOUS
  <2>1. k + 1 \in 1 .. n /\ k + 1 # 1 /\ (k + 1) - 1 = k
    OBVIOUS
  <2>2. Joined(ss, h, k + 1)
    BY <2>1, JoinsAt
  <2> QED
    BY <2>1, <2>2 DEF Joined
<1>3. \A k \in 1 .. n : h[k] \in Seq(S)
  <2> DEFINE T == {k \in 1 .. n : h[k] \in Seq(S)}
  <2>1. 1 \in T
    BY <1>1
  <2>2. ASSUME NEW k \in 1 .. n, k < n, k \in T PROVE k + 1 \in T
    <3>1. h[k] \in Seq(S) /\ ss[k + 1] \in Seq(S) /\ k + 1 \in 1 .. n
      BY <2>2
    <3>2. h[k] \o ss[k + 1] \in Seq(S)
      BY <3>1, ConcatProperties
    <3> QED
      BY <1>2, <2>2, <3>1, <3>2
  <2> HIDE DEF T
  <2>3. 1 .. n \subseteq T
    BY <2>1, <2>2, UpTo
  <2> QED
    BY <2>3 DEF T
<1> QED
  BY <1>1, <1>2, <1>3

\* Neighbours within a block, or the last of a block and the first of the next one.
Adjacent(ss, k, a, b) ==
    \E s \in 1 .. k :
        \/ \E q \in 1 .. Len(ss[s]) - 1 : a = ss[s][q] /\ b = ss[s][q + 1]
        \/ s < k /\ a = ss[s][Len(ss[s])] /\ b = ss[s + 1][1]

\* All that the first k blocks have, nothing else, in their order.
Holds(ss, k, f) ==
    /\ \A p \in 1 .. Len(f) : \E s \in 1 .. k : \E q \in 1 .. Len(ss[s]) : f[p] = ss[s][q]
    /\ \A s \in 1 .. k : \A q \in 1 .. Len(ss[s]) : \E p \in 1 .. Len(f) : f[p] = ss[s][q]
    /\ f[Len(f)] = ss[k][Len(ss[k])]
    /\ \A p \in 1 .. Len(f) - 1 : Adjacent(ss, k, f[p], f[p + 1])

\* One block more.
LEMMA HoldsStep ==
    ASSUME NEW S, NEW n \in Nat \ {0}, NEW ss \in [1 .. n -> Seq(S)],
           \A s \in 1 .. n : Len(ss[s]) # 0,
           NEW k \in 1 .. n, k < n, NEW f \in Seq(S), f # << >>, Holds(ss, k, f)
    PROVE  Holds(ss, k + 1, f \o ss[k + 1])
<1> DEFINE b == ss[k + 1]
           g == f \o b
           m == Len(f)
<1>1. /\ b \in Seq(S) /\ Len(b) \in Nat \ {0} /\ m \in Nat \ {0}
      /\ k + 1 \in 1 .. n /\ k \in 1 .. k + 1
  BY EmptySeq, LenProperties
<1>2. /\ g \in Seq(S) /\ Len(g) = m + Len(b)
      /\ \A p \in 1 .. m + Len(b) : g[p] = IF p <= m THEN f[p] ELSE b[p - m]
  BY <1>1, ConcatProperties
<1>3. \A p \in 1 .. m : g[p] = f[p]
  BY <1>1, <1>2
<1>4. \A q \in 1 .. Len(b) : m + q \in 1 .. Len(g) /\ g[m + q] = b[q]
  <2> TAKE q \in 1 .. Len(b)
  <2>1. m + q \in 1 .. m + Len(b) /\ ~(m + q <= m) /\ (m + q) - m = q
    BY <1>1
  <2> QED
    BY <1>2, <2>1
<1> HIDE DEF g, b, m
<1>5. ASSUME NEW p \in 1 .. Len(g)
      PROVE  \E s \in 1 .. k + 1 : \E q \in 1 .. Len(ss[s]) : g[p] = ss[s][q]
  <2>1. CASE p <= m
    <3>1. p \in 1 .. m
      BY <1>1, <1>2, <2>1
    <3>2. PICK s \in 1 .. k : \E q \in 1 .. Len(ss[s]) : f[p] = ss[s][q]
      BY <3>1 DEF Holds, m
    <3>3. s \in 1 .. k + 1 /\ g[p] = f[p]
      BY <1>3, <3>1
    <3> QED
      BY <3>2, <3>3
  <2>2. CASE ~(p <= m)
    <3>1. p - m \in 1 .. Len(b) /\ m + (p - m) = p
      BY <1>1, <1>2, <2>2
    <3>2. g[p] = b[p - m]
      BY <1>4, <3>1
    <3>3. k + 1 \in 1 .. k + 1
      OBVIOUS
    <3> QED
      BY <3>1, <3>2, <3>3 DEF b
  <2> QED
    BY <2>1, <2>2
<1>6. ASSUME NEW s \in 1 .. k + 1, NEW q \in 1 .. Len(ss[s])
      PROVE  \E p \in 1 .. Len(g) : g[p] = ss[s][q]
  <2>1. CASE s <= k
    <3>1. s \in 1 .. k
      BY <2>1
    <3>2. PICK p \in 1 .. m : f[p] = ss[s][q]
      BY <3>1 DEF Holds, m
    <3>3. p \in 1 .. Len(g) /\ g[p] = f[p]
      BY <1>1, <1>2, <1>3
    <3> QED
      BY <3>2, <3>3
  <2>2. CASE s = k + 1
    <3>1. q \in 1 .. Len(b) /\ b[q] = ss[s][q]
      BY <2>2 DEF b
    <3> QED
      BY <1>4, <3>1
  <2> QED
    BY <2>1, <2>2
<1>7. g[Len(g)] = ss[k + 1][Len(ss[k + 1])]
  <2>1. Len(b) \in 1 .. Len(b)
    BY <1>1
  <2> QED
    BY <1>2, <1>4, <2>1 DEF b
<1>8. ASSUME NEW p \in 1 .. Len(g) - 1
      PROVE  Adjacent(ss, k + 1, g[p], g[p + 1])
  <2>1. CASE p < m
    <3>1. p \in 1 .. m - 1 /\ p \in 1 .. m /\ p + 1 \in 1 .. m
      BY <1>1, <2>1
    <3>2. g[p] = f[p] /\ g[p + 1] = f[p + 1]
      BY <1>3, <3>1
    <3>3. Adjacent(ss, k, f[p], f[p + 1])
      BY <3>1 DEF Holds, m
    <3>4. PICK s \in 1 .. k :
              \/ \E q \in 1 .. Len(ss[s]) - 1 : f[p] = ss[s][q] /\ f[p + 1] = ss[s][q + 1]
              \/ s < k /\ f[p] = ss[s][Len(ss[s])] /\ f[p + 1] = ss[s + 1][1]
      BY <3>3 DEF Adjacent
    <3>5. s \in 1 .. k + 1 /\ (s < k => s < k + 1)
      OBVIOUS
    <3> QED
      BY <3>2, <3>4, <3>5 DEF Adjacent
  <2>2. CASE p = m
    <3>1. g[p] = f[m] /\ p \in 1 .. m
      BY <1>1, <1>3, <2>2
    <3>2. 1 \in 1 .. Len(b)
      BY <1>1
    <3>3. g[p + 1] = b[1]
      BY <1>4, <2>2, <3>2
    <3>4. f[m] = ss[k][Len(ss[k])]
      BY DEF Holds, m
    <3>5. k \in 1 .. k + 1 /\ k < k + 1
      BY <1>1
    <3> QED
      BY <3>1, <3>3, <3>4, <3>5 DEF Adjacent, b
  <2>3. CASE p > m
    <3>1. p - m \in 1 .. Len(b) - 1 /\ p - m \in 1 .. Len(b) /\ (p - m) + 1 \in 1 .. Len(b)
          /\ m + (p - m) = p /\ m + ((p - m) + 1) = p + 1
      BY <1>1, <1>2, <2>3
    <3>2. g[m + (p - m)] = b[p - m] /\ g[m + ((p - m) + 1)] = b[(p - m) + 1]
      BY <1>4, <3>1, Zenon
    <3>3. k + 1 \in 1 .. k + 1
      OBVIOUS
    <3>4. g[p] = b[p - m] /\ g[p + 1] = b[(p - m) + 1]
      BY <3>1, <3>2
    <3> QED
      BY <3>1, <3>3, <3>4 DEF Adjacent, b
  <2> QED
    BY <1>1, <1>2, <2>1, <2>2, <2>3
<1> QED
  BY <1>5, <1>6, <1>7, <1>8 DEF Holds, g, b

\* The first block on its own.
LEMMA HoldsFirst ==
    ASSUME NEW S, NEW n \in Nat \ {0}, NEW ss \in [1 .. n -> Seq(S)], Len(ss[1]) # 0
    PROVE  Holds(ss, 1, ss[1])
<1>1. ss[1] \in Seq(S) /\ Len(ss[1]) \in Nat /\ 1 \in 1 .. 1
  OBVIOUS
<1>2. \A p \in 1 .. Len(ss[1]) - 1 : Adjacent(ss, 1, ss[1][p], ss[1][p + 1])
  BY <1>1 DEF Adjacent
<1> QED
  BY <1>1, <1>2 DEF Holds

\* FlattenSeq of blocks that are not empty has their elements, no others, in their
\* order, and no more than there is room for.
LEMMA FlattenLemma ==
    ASSUME NEW S, NEW n \in Nat \ {0}, NEW ss \in [1 .. n -> Seq(S)], NEW B \in Nat,
           \A s \in 1 .. n : Len(ss[s]) \in 1 .. B
    PROVE  /\ FlattenSeq(ss) \in Seq(S)
           /\ Len(FlattenSeq(ss)) <= n * B
           /\ Holds(ss, n, FlattenSeq(ss))
<1>1. PICK h : Joins(ss, n, h) /\ FlattenSeq(ss) = h[n]
  BY FlattenJoins
<1>2. /\ h[1] = ss[1]
      /\ \A k \in 1 .. n : k < n => h[k + 1] = h[k] \o ss[k + 1]
      /\ \A k \in 1 .. n : h[k] \in Seq(S)
  BY <1>1, JoinsSteps
<1> DEFINE Good(k) == Len(h[k]) \in 1 .. k * B /\ Holds(ss, k, h[k])
           T == {k \in 1 .. n : Good(k)}
<1>3. 1 \in T
  <2>1. 1 \in 1 .. n /\ Len(ss[1]) # 0 /\ Len(ss[1]) \in 1 .. 1 * B
    OBVIOUS
  <2>2. Holds(ss, 1, ss[1])
    BY <2>1, HoldsFirst
  <2> QED
    BY <1>2, <2>1, <2>2
<1>4. ASSUME NEW k \in 1 .. n, k < n, k \in T PROVE k + 1 \in T
  <2>1. /\ k + 1 \in 1 .. n /\ h[k] \in Seq(S) /\ h[k + 1] = h[k] \o ss[k + 1]
        /\ Len(h[k]) \in 1 .. k * B /\ Holds(ss, k, h[k]) /\ ss[k + 1] \in Seq(S)
    <3>1. Good(k)
      BY <1>4
    <3>2. k + 1 \in 1 .. n
      BY <1>4
    <3> HIDE DEF Good, T
    <3>3. h[k] \in Seq(S) /\ h[k + 1] = h[k] \o ss[k + 1] /\ ss[k + 1] \in Seq(S)
      BY <1>2, <1>4, <3>2
    <3> QED
      BY <3>1, <3>2, <3>3, Zenon DEF Good
  <2>2. Len(h[k + 1]) = Len(h[k]) + Len(ss[k + 1])
    BY <2>1, ConcatProperties
  <2>3. k * B \in Nat /\ (k + 1) * B = k * B + B
    OBVIOUS
  <2>4. Len(ss[k + 1]) \in 1 .. B
    BY <2>1
  <2>5. Len(h[k + 1]) \in 1 .. (k + 1) * B
    <3> DEFINE x == k * B
               y == (k + 1) * B
    <3>1. x \in Nat /\ y = x + B /\ Len(h[k]) \in 1 .. x
      BY <2>1, <2>3
    <3> HIDE DEF x, y, T
    <3>2. Len(h[k]) \in 1 .. x /\ Len(ss[k + 1]) \in 1 .. B /\ y = x + B
      BY <2>4, <3>1
    <3>3. ASSUME NEW p \in 1 .. x, NEW q \in 1 .. B PROVE p + q \in 1 .. x + B
      BY <3>1
    <3>4. Len(h[k + 1]) \in 1 .. y
      BY <2>2, <3>2, <3>3, Zenon
    <3> QED
      BY <3>4 DEF y
  <2>6. h[k] # << >> /\ \A s \in 1 .. n : Len(ss[s]) # 0
    BY <2>1
  <2>7. Holds(ss, k + 1, h[k] \o ss[k + 1])
    BY <1>4, <2>1, <2>6, HoldsStep
  <2> QED
    BY <2>1, <2>5, <2>7
<1>5. 1 .. n \subseteq T
  <2> HIDE DEF T
  <2> QED
    BY <1>3, <1>4, UpTo
<1>6. n \in T
  BY <1>5
<1> QED
  BY <1>1, <1>2, <1>6

---------------------------------------------------------------------------
(* The items of the signers.                                               *)

Item == [kind : {"Signer", "Account", "Scope", "Contract", "Group"}, signer : Nat, number : Nat]

Block(t) == [s \in 1 .. t.signers_size |-> SignerItems(t, s)]

\* Where an item of a signer is.
LEMMA SignerItemsLemma ==
    ASSUME NEW t, IsTx(t), NEW s \in 1 .. t.signers_size
    PROVE  LET c == t.signers[s].size["contracts"]
               g == t.signers[s].size["groups"]
               b == SignerItems(t, s)
           IN  /\ c \in 0 .. MaxContracts /\ g \in 0 .. MaxGroups
               /\ b \in Seq(Item) /\ Len(b) = 3 + c + g
               /\ b[1] = DynItem("Signer", s, 0)
               /\ b[2] = DynItem("Account", s, 0)
               /\ b[3] = DynItem("Scope", s, 0)
               /\ \A k \in 1 .. c : b[3 + k] = DynItem("Contract", s, k)
               /\ \A k \in 1 .. g : b[3 + c + k] = DynItem("Group", s, k)
<1> DEFINE c == t.signers[s].size["contracts"]
           g == t.signers[s].size["groups"]
           b1 == << DynItem("Signer", s, 0), DynItem("Account", s, 0), DynItem("Scope", s, 0) >>
           b2 == [k \in 1 .. c |-> DynItem("Contract", s, k)]
           b3 == [k \in 1 .. g |-> DynItem("Group", s, k)]
           b == SignerItems(t, s)
<1>1. c \in 0 .. MaxContracts /\ g \in 0 .. MaxGroups /\ s \in Nat
  <2>1. s \in 1 .. MaxSigners /\ "contracts" \in Lists /\ "groups" \in Lists
    BY LimitsAssumption DEF IsTx, Lists
  <2>2. t.signers[s].size["contracts"] \in 0 .. Limit("contracts")
        /\ t.signers[s].size["groups"] \in 0 .. Limit("groups")
    BY <2>1 DEF IsTx
  <2> QED
    BY <2>1, <2>2 DEF Limit
<1>2. c \in Nat /\ g \in Nat
  BY <1>1, LimitsAssumption
<1>3. b1 \in Seq(Item) /\ Len(b1) = 3
  BY <1>1 DEF Item, DynItem
<1>4. b2 \in Seq(Item) /\ Len(b2) = c
  <2>1. b2 \in [1 .. c -> Item]
    BY <1>1, <1>2 DEF Item, DynItem
  <2> QED
    BY <1>2, <2>1
<1>5. b3 \in Seq(Item) /\ Len(b3) = g
  <2>1. b3 \in [1 .. g -> Item]
    BY <1>1, <1>2 DEF Item, DynItem
  <2> QED
    BY <1>2, <2>1
<1>6. b = b1 \o b2 \o b3
  BY DEF SignerItems
<1> HIDE DEF b1, b2, b3, c, g, b
<1>7. /\ b1 \o b2 \in Seq(Item) /\ Len(b1 \o b2) = 3 + c
      /\ \A k \in 1 .. 3 + c : (b1 \o b2)[k] = IF k <= 3 THEN b1[k] ELSE b2[k - 3]
  <2>1. /\ b1 \o b2 \in Seq(Item) /\ Len(b1 \o b2) = Len(b1) + Len(b2)
        /\ \A k \in 1 .. Len(b1) + Len(b2) :
              (b1 \o b2)[k] = IF k <= Len(b1) THEN b1[k] ELSE b2[k - Len(b1)]
    BY <1>3, <1>4, ConcatProperties, Zenon
  <2> QED
    BY <1>3, <1>4, <2>1
<1>8. /\ b \in Seq(Item) /\ Len(b) = 3 + c + g
      /\ \A k \in 1 .. 3 + c + g : b[k] = IF k <= 3 + c THEN (b1 \o b2)[k] ELSE b3[k - (3 + c)]
  <2> DEFINE a == b1 \o b2
  <2>1. a \in Seq(Item) /\ Len(a) = 3 + c /\ b = a \o b3
    BY <1>6, <1>7
  <2> HIDE DEF a
  <2>2. /\ a \o b3 \in Seq(Item) /\ Len(a \o b3) = Len(a) + Len(b3)
        /\ \A k \in 1 .. Len(a) + Len(b3) :
              (a \o b3)[k] = IF k <= Len(a) THEN a[k] ELSE b3[k - Len(a)]
    BY <1>5, <2>1, ConcatProperties, Zenon
  <2>3. /\ b \in Seq(Item) /\ Len(b) = 3 + c + g
        /\ \A k \in 1 .. 3 + c + g : b[k] = IF k <= 3 + c THEN a[k] ELSE b3[k - (3 + c)]
    BY <1>5, <2>1, <2>2
  <2> QED
    BY <2>3 DEF a
<1>9. \A k \in 1 .. 3 : b[k] = b1[k]
  <2> TAKE k \in 1 .. 3
  <2>1. k \in 1 .. 3 + c /\ k \in 1 .. 3 + c + g /\ k <= 3 /\ k <= 3 + c
    BY <1>2
  <2>2. (b1 \o b2)[k] = b1[k]
    BY <1>7, <2>1
  <2>3. b[k] = (b1 \o b2)[k]
    BY <1>8, <2>1
  <2> QED
    BY <2>2, <2>3
<1>10. \A k \in 1 .. c : b[3 + k] = b2[k]
  <2> TAKE k \in 1 .. c
  <2>1. 3 + k \in 1 .. 3 + c /\ 3 + k \in 1 .. 3 + c + g /\ ~(3 + k <= 3) /\ (3 + k) - 3 = k
        /\ 3 + k <= 3 + c
    BY <1>2
  <2> QED
    BY <1>7, <1>8, <2>1
<1>11. \A k \in 1 .. g : b[3 + c + k] = b3[k]
  <2> TAKE k \in 1 .. g
  <2>1. 3 + c + k \in 1 .. 3 + c + g /\ ~(3 + c + k <= 3 + c) /\ (3 + c + k) - (3 + c) = k
    BY <1>2
  <2> QED
    BY <1>8, <2>1
<1>12. b[1] = DynItem("Signer", s, 0) /\ b[2] = DynItem("Account", s, 0) /\ b[3] = DynItem("Scope", s, 0)
  BY <1>9 DEF b1
<1>13. /\ \A k \in 1 .. c : b[3 + k] = DynItem("Contract", s, k)
       /\ \A k \in 1 .. g : b[3 + c + k] = DynItem("Group", s, k)
  BY <1>10, <1>11 DEF b2, b3
<1> QED
  BY <1>1, <1>8, <1>12, <1>13 DEF b, c, g

\* No signers, no items.
LEMMA FlattenNone ==
    ASSUME tx.signers_size = 0 PROVE DynItems(tx) = << >> /\ Len(DynItems(tx)) = 0
<1>1. [s \in 1 .. tx.signers_size |-> SignerItems(tx, s)] = << >>
  OBVIOUS
<1> QED
  BY <1>1 DEF DynItems, FlattenSeq

\* The items of all signers: as many as there is room for.
LEMMA DynItemsLemma ==
    ASSUME NEW t, IsTx(t)
    PROVE  /\ DynItems(t) \in Seq(Item)
           /\ Len(DynItems(t)) <= MaxSigners * (3 + MaxContracts + MaxGroups)
           /\ t.signers_size # 0 => Holds(Block(t), t.signers_size, DynItems(t))
<1> DEFINE n == t.signers_size
           B == 3 + MaxContracts + MaxGroups
<1>1. n \in 0 .. MaxSigners /\ n \in Nat /\ MaxSigners \in Nat /\ B \in Nat
  BY LimitsAssumption DEF IsTx
<1>2. \A s \in 1 .. n : SignerItems(t, s) \in Seq(Item) /\ Len(SignerItems(t, s)) \in 1 .. B
  <2> TAKE s \in 1 .. n
  <2> DEFINE c == t.signers[s].size["contracts"]
             g == t.signers[s].size["groups"]
  <2>1. /\ c \in 0 .. MaxContracts /\ g \in 0 .. MaxGroups
        /\ SignerItems(t, s) \in Seq(Item) /\ Len(SignerItems(t, s)) = 3 + c + g
    BY SignerItemsLemma
  <2> HIDE DEF c, g
  <2> QED
    BY <2>1, LimitsAssumption
<1>3. Block(t) \in [1 .. n -> Seq(Item)] /\ \A s \in 1 .. n : Len(Block(t)[s]) \in 1 .. B
  BY <1>2 DEF Block
<1>4. DynItems(t) = FlattenSeq(Block(t))
  BY DEF DynItems, Block
<1>5. CASE n = 0
  <2>1. Block(t) = << >>
    BY <1>5 DEF Block
  <2>2. FlattenSeq(Block(t)) = << >>
    BY <2>1 DEF FlattenSeq
  <2>3. 0 <= MaxSigners * B
    BY <1>1
  <2> QED
    BY <1>4, <1>5, <2>2, <2>3
<1>6. CASE n # 0
  <2> HIDE DEF n, B
  <2>1. /\ FlattenSeq(Block(t)) \in Seq(Item) /\ Len(FlattenSeq(Block(t))) <= n * B
        /\ Holds(Block(t), n, FlattenSeq(Block(t)))
    BY <1>1, <1>3, <1>6, FlattenLemma
  <2>2. n * B <= MaxSigners * B
    BY <1>1
  <2>3. Len(FlattenSeq(Block(t))) \in Nat /\ n * B \in Nat /\ MaxSigners * B \in Nat
    BY <1>1, <2>1
  <2>4. Len(FlattenSeq(Block(t))) <= MaxSigners * B
    BY <2>1, <2>2, <2>3
  <2> QED
    BY <1>4, <2>1, <2>4 DEF n, B
<1> QED
  BY <1>5, <1>6

---------------------------------------------------------------------------
(* The same items in both builds.                                          *)

\* The place of item q of a signer with c contracts.
PlaceAt(s, c, q) ==
    IF q <= 3 THEN << 2, s - 1, q, 0 >>
    ELSE IF q <= 3 + c THEN << 2, s - 1, 4, q - 4 >>
    ELSE << 2, s - 1, 5, (q - 4) - c >>

\* Signer, account and scope, the contracts, the groups.
LEMMA PlaceOfItem ==
    ASSUME IsTx(tx), NEW s \in 1 .. tx.signers_size, NEW q \in 1 .. Len(SignerItems(tx, s))
    PROVE  PlaceOf(SignerItems(tx, s)[q]) = PlaceAt(s, tx.signers[s].size["contracts"], q)
<1> DEFINE c == tx.signers[s].size["contracts"]
           g == tx.signers[s].size["groups"]
           b == SignerItems(tx, s)
<1>1. /\ c \in 0 .. MaxContracts /\ g \in 0 .. MaxGroups /\ Len(b) = 3 + c + g
      /\ b[1] = DynItem("Signer", s, 0)
      /\ b[2] = DynItem("Account", s, 0)
      /\ b[3] = DynItem("Scope", s, 0)
      /\ \A k \in 1 .. c : b[3 + k] = DynItem("Contract", s, k)
      /\ \A k \in 1 .. g : b[3 + c + k] = DynItem("Group", s, k)
  BY SignerItemsLemma
<1>2. c \in Nat /\ g \in Nat /\ s \in Nat /\ q \in 1 .. 3 + c + g
  <2>1. tx.signers_size \in Nat
    BY LimitsAssumption DEF IsTx
  <2> HIDE DEF c, g, b
  <2>2. c \in Nat /\ g \in Nat
    BY <1>1, LimitsAssumption
  <2> QED
    BY <1>1, <2>1, <2>2 DEF b
<1> HIDE DEF c, g, b
<1>3. /\ PlaceOf(DynItem("Signer", s, 0)) = << 2, s - 1, 1, 0 >>
      /\ PlaceOf(DynItem("Account", s, 0)) = << 2, s - 1, 2, 0 >>
      /\ PlaceOf(DynItem("Scope", s, 0)) = << 2, s - 1, 3, 0 >>
  BY DEF PlaceOf, DynItem, Kinds, Bagl!INDEX, Bagl!ACCOUNT, Bagl!SCOPE
<1>4. ASSUME NEW k \in Nat \ {0}
      PROVE  /\ PlaceOf(DynItem("Contract", s, k)) = << 2, s - 1, 4, k - 1 >>
             /\ PlaceOf(DynItem("Group", s, k)) = << 2, s - 1, 5, k - 1 >>
  BY DEF PlaceOf, DynItem, Kinds, Bagl!CONTRACTS, Bagl!GROUPS
<1>5. CASE q <= 3
  <2>1. q = 1 \/ q = 2 \/ q = 3
    BY <1>2, <1>5
  <2>2. PlaceOf(b[q]) = << 2, s - 1, q, 0 >>
    BY <1>1, <1>3, <2>1
  <2> QED
    BY <1>5, <2>2 DEF PlaceAt, b, c
<1>6. CASE ~(q <= 3) /\ q <= 3 + c
  <2>1. q - 3 \in 1 .. c /\ 3 + (q - 3) = q /\ (q - 3) - 1 = q - 4 /\ q - 3 \in Nat \ {0}
    BY <1>2, <1>6
  <2>2. b[q] = DynItem("Contract", s, q - 3)
    BY <1>1, <2>1
  <2>3. PlaceOf(b[q]) = << 2, s - 1, 4, q - 4 >>
    BY <1>4, <2>1, <2>2
  <2> QED
    BY <1>6, <2>3 DEF PlaceAt, b, c
<1>7. CASE ~(q <= 3) /\ ~(q <= 3 + c)
  <2> DEFINE k == (q - 3) - c
  <2>1. k \in 1 .. g /\ 3 + c + k = q /\ k - 1 = (q - 4) - c /\ k \in Nat \ {0}
    BY <1>2, <1>7
  <2> HIDE DEF k
  <2>2. b[q] = DynItem("Group", s, k)
    BY <1>1, <2>1
  <2>3. PlaceOf(b[q]) = << 2, s - 1, 5, (q - 4) - c >>
    BY <1>4, <2>1, <2>2
  <2> QED
    BY <1>7, <2>3 DEF PlaceAt, b, c
<1> QED
  BY <1>5, <1>6, <1>7

\* The sizes the other build works with.
LEMMA OfSigner ==
    ASSUME IsTx(tx)
    PROVE  /\ Bagl!SignersSize = tx.signers_size
           /\ \A s \in 1 .. tx.signers_size :
                 /\ Bagl!Of(s - 1).allowed_contracts_size = tx.signers[s].size["contracts"]
                 /\ Bagl!Of(s - 1).allowed_groups_size = tx.signers[s].size["groups"]
<1>1. tx.signers_size \in Nat
  BY LimitsAssumption DEF IsTx
<1>2. Bagl!SignersSize = tx.signers_size
  BY <1>1 DEF Bagl!SignersSize
<1>3. ASSUME NEW s \in 1 .. tx.signers_size
      PROVE  /\ Bagl!Of(s - 1).allowed_contracts_size = tx.signers[s].size["contracts"]
             /\ Bagl!Of(s - 1).allowed_groups_size = tx.signers[s].size["groups"]
  <2>1. (s - 1) + 1 = s
    BY <1>1
  <2>2. Bagl!Of(s - 1) = [allowed_contracts_size |-> Sizes("contracts")[s],
                          allowed_groups_size |-> Sizes("groups")[s]]
    BY <2>1 DEF Bagl!Of
  <2> QED
    BY <2>2 DEF Sizes
<1> QED
  BY <1>2, <1>3

\* The places of one signer.
PlacesOfSigner(s, c, g) ==
         {<< 2, s - 1, p, 0 >> : p \in 1 .. 3}
    \cup {<< 2, s - 1, 4, n >> : n \in 0 .. c - 1}
    \cup {<< 2, s - 1, 5, n >> : n \in 0 .. g - 1}

\* The places the buttons lead through.
LEMMA SignerPlacesLemma ==
    ASSUME IsTx(tx)
    PROVE  Bagl!SignerPlaces =
             UNION {PlacesOfSigner(s, tx.signers[s].size["contracts"], tx.signers[s].size["groups"])
                       : s \in 1 .. tx.signers_size}
<1> DEFINE n == tx.signers_size
           P(s) == PlacesOfSigner(s, tx.signers[s].size["contracts"], tx.signers[s].size["groups"])
           Q(s) ==    {<< 2, s, p, 0 >> : p \in {Bagl!INDEX, Bagl!ACCOUNT, Bagl!SCOPE}}
                 \cup {<< 2, s, Bagl!CONTRACTS, m >> : m \in 0 .. Bagl!Of(s).allowed_contracts_size - 1}
                 \cup {<< 2, s, Bagl!GROUPS, m >> : m \in 0 .. Bagl!Of(s).allowed_groups_size - 1}
<1>1. n \in Nat
  BY LimitsAssumption DEF IsTx
<1>2. ASSUME NEW s \in 1 .. n PROVE Q(s - 1) = P(s)
  <2>1. 1 .. 3 = {1, 2, 3}
    OBVIOUS
  <2> QED
    BY <2>1, OfSigner DEF PlacesOfSigner, Bagl!INDEX, Bagl!ACCOUNT, Bagl!SCOPE, Bagl!CONTRACTS,
       Bagl!GROUPS
<1>3. Bagl!SignerPlaces = UNION {Q(s) : s \in 0 .. n - 1}
  BY OfSigner DEF Bagl!SignerPlaces
<1> HIDE DEF P, Q, n
<1>4. \A s \in 1 .. n : s - 1 \in 0 .. n - 1
  BY <1>1
<1>5. \A s \in 0 .. n - 1 : s + 1 \in 1 .. n /\ (s + 1) - 1 = s
  BY <1>1
<1>6. UNION {Q(s) : s \in 0 .. n - 1} = UNION {P(s) : s \in 1 .. n}
  <2>1. \A s \in 0 .. n - 1 : Q(s) = P(s + 1)
    BY <1>2, <1>5
  <2> QED
    BY <1>2, <1>4, <1>5, <2>1
<1> QED
  BY <1>3, <1>6 DEF P, n

\* What comes first: the signer, then its property, then the number of the item.
LEMMA EarlierPlaces ==
    ASSUME NEW s \in Int, NEW p \in Int, NEW n \in Int, NEW t \in Int, NEW q \in Int, NEW m \in Int,
           s < t \/ (s = t /\ p < q) \/ (s = t /\ p = q /\ n < m)
    PROVE  Bagl!Earlier(<< 2, s, p, n >>, << 2, t, q, m >>)
<1> DEFINE a == << 2, s, p, n >>
           b == << 2, t, q, m >>
<1>1. /\ a[1] = 2 /\ a[2] = s /\ a[3] = p /\ a[4] = n
      /\ b[1] = 2 /\ b[2] = t /\ b[3] = q /\ b[4] = m
  OBVIOUS
<1> HIDE DEF a, b
<1>2. \A d \in 1 .. 4 : d = 1 \/ d = 2 \/ d = 3 \/ d = 4
  OBVIOUS
<1>3. CASE s < t
  <2>1. 2 \in 1 .. 4 /\ a[2] < b[2] /\ \A d \in 1 .. 4 : d < 2 => a[d] = b[d]
    BY <1>1, <1>2, <1>3
  <2> QED
    BY <2>1 DEF Bagl!Earlier, a, b
<1>4. CASE s = t /\ p < q
  <2>1. 3 \in 1 .. 4 /\ a[3] < b[3] /\ \A d \in 1 .. 4 : d < 3 => a[d] = b[d]
    BY <1>1, <1>2, <1>4
  <2> QED
    BY <2>1 DEF Bagl!Earlier, a, b
<1>5. CASE s = t /\ p = q /\ n < m
  <2>1. 4 \in 1 .. 4 /\ a[4] < b[4] /\ \A d \in 1 .. 4 : d < 4 => a[d] = b[d]
    BY <1>1, <1>2, <1>5
  <2> QED
    BY <2>1 DEF Bagl!Earlier, a, b
<1> QED
  BY <1>3, <1>4, <1>5

\* So an item comes before the next one of its signer.
LEMMA ItemsEarlier ==
    ASSUME NEW s \in Nat, NEW c \in Nat, NEW q \in Nat \ {0}
    PROVE  Bagl!Earlier(PlaceAt(s, c, q), PlaceAt(s, c, q + 1))
<1>1. ASSUME NEW p \in Int, NEW n \in Int, NEW r \in Int, NEW m \in Int,
             PlaceAt(s, c, q) = << 2, s - 1, p, n >>, PlaceAt(s, c, q + 1) = << 2, s - 1, r, m >>,
             p < r \/ (p = r /\ n < m)
      PROVE  Bagl!Earlier(PlaceAt(s, c, q), PlaceAt(s, c, q + 1))
  <2>1. s - 1 \in Int
    OBVIOUS
  <2> QED
    BY <1>1, <2>1, EarlierPlaces
<1>2. CASE q + 1 <= 3
  <2>1. PlaceAt(s, c, q) = << 2, s - 1, q, 0 >> /\ PlaceAt(s, c, q + 1) = << 2, s - 1, q + 1, 0 >>
    BY <1>2 DEF PlaceAt
  <2> QED
    BY <1>1, <2>1
<1>3. CASE q = 3 /\ c # 0
  <2>1. PlaceAt(s, c, q) = << 2, s - 1, 3, 0 >> /\ PlaceAt(s, c, q + 1) = << 2, s - 1, 4, 0 >>
    BY <1>3 DEF PlaceAt
  <2> QED
    BY <1>1, <2>1
<1>4. CASE q = 3 /\ c = 0
  <2>1. PlaceAt(s, c, q) = << 2, s - 1, 3, 0 >> /\ PlaceAt(s, c, q + 1) = << 2, s - 1, 5, 0 >>
    BY <1>4 DEF PlaceAt
  <2> QED
    BY <1>1, <2>1
<1>5. CASE q > 3 /\ q + 1 <= 3 + c
  <2>1. /\ PlaceAt(s, c, q) = << 2, s - 1, 4, q - 4 >>
        /\ PlaceAt(s, c, q + 1) = << 2, s - 1, 4, q - 3 >>
    BY <1>5 DEF PlaceAt
  <2> QED
    BY <1>1, <2>1
<1>6. CASE q > 3 /\ q = 3 + c
  <2>1. /\ PlaceAt(s, c, q) = << 2, s - 1, 4, q - 4 >>
        /\ PlaceAt(s, c, q + 1) = << 2, s - 1, 5, 0 >>
    BY <1>6 DEF PlaceAt
  <2> QED
    BY <1>1, <2>1
<1>7. CASE q > 3 /\ q > 3 + c
  <2>1. /\ PlaceAt(s, c, q) = << 2, s - 1, 5, (q - 4) - c >>
        /\ PlaceAt(s, c, q + 1) = << 2, s - 1, 5, (q - 3) - c >>
    BY <1>7 DEF PlaceAt
  <2>2. (q - 4) - c \in Int /\ (q - 3) - c \in Int /\ (q - 4) - c < (q - 3) - c
    OBVIOUS
  <2> QED
    BY <1>1, <2>1, <2>2
<1> QED
  BY <1>2, <1>3, <1>4, <1>5, <1>6, <1>7

\* And any item before the first one of the next signer.
LEMMA SignersEarlier ==
    ASSUME NEW s \in Nat, NEW c \in Nat, NEW d \in Nat, NEW q \in Nat \ {0}
    PROVE  Bagl!Earlier(PlaceAt(s, c, q), PlaceAt(s + 1, d, 1))
<1>1. PlaceAt(s + 1, d, 1) = << 2, s, 1, 0 >>
  BY DEF PlaceAt
<1>2. \E p, n \in Int : PlaceAt(s, c, q) = << 2, s - 1, p, n >>
  <2>1. CASE q <= 3
    <3>1. PlaceAt(s, c, q) = << 2, s - 1, q, 0 >>
      BY <2>1 DEF PlaceAt
    <3> QED
      BY <3>1
  <2>2. CASE ~(q <= 3) /\ q <= 3 + c
    <3>1. PlaceAt(s, c, q) = << 2, s - 1, 4, q - 4 >> /\ q - 4 \in Int
      BY <2>2 DEF PlaceAt
    <3> QED
      BY <3>1
  <2>3. CASE ~(q <= 3) /\ ~(q <= 3 + c)
    <3>1. PlaceAt(s, c, q) = << 2, s - 1, 5, (q - 4) - c >> /\ (q - 4) - c \in Int
      BY <2>3 DEF PlaceAt
    <3> QED
      BY <3>1
  <2> QED
    BY <2>1, <2>2, <2>3
<1>3. PICK p, n \in Int : PlaceAt(s, c, q) = << 2, s - 1, p, n >>
  BY <1>2
<1>4. s - 1 \in Int /\ s - 1 < s
  OBVIOUS
<1>5. Bagl!Earlier(<< 2, s - 1, p, n >>, << 2, s, 1, 0 >>)
  BY <1>4, EarlierPlaces
<1> QED
  BY <1>1, <1>3, <1>5

\* The items of a transaction are at the places the buttons lead through, in their order.
LEMMA SamePlaces ==
    ASSUME IsTx(tx)
    PROVE  LET items == DynItems(tx)
           IN  /\ {PlaceOf(items[k]) : k \in DOMAIN items} = Bagl!SignerPlaces
               /\ \A k \in 1 .. Len(items) - 1 :
                     Bagl!Earlier(PlaceOf(items[k]), PlaceOf(items[k + 1]))
<1> DEFINE items == DynItems(tx)
           n == tx.signers_size
           c(s) == tx.signers[s].size["contracts"]
           g(s) == tx.signers[s].size["groups"]
           blocks == Block(tx)
<1>1. n \in Nat /\ items \in Seq(Item) /\ (n # 0 => Holds(blocks, n, items))
  BY DynItemsLemma, LimitsAssumption DEF IsTx
<1>2. ASSUME NEW s \in 1 .. n
      PROVE  /\ c(s) \in Nat /\ g(s) \in Nat /\ s \in Nat
             /\ Len(blocks[s]) = 3 + c(s) + g(s)
             /\ \A q \in 1 .. Len(blocks[s]) : PlaceOf(blocks[s][q]) = PlaceAt(s, c(s), q)
  <2>1. blocks[s] = SignerItems(tx, s)
    BY DEF Block
  <2>2. c(s) \in 0 .. MaxContracts /\ g(s) \in 0 .. MaxGroups
        /\ Len(blocks[s]) = 3 + c(s) + g(s)
    BY <2>1, SignerItemsLemma
  <2>3. \A q \in 1 .. Len(blocks[s]) : PlaceOf(blocks[s][q]) = PlaceAt(s, c(s), q)
    BY <2>1, PlaceOfItem
  <2> HIDE DEF c, g
  <2> QED
    BY <1>1, <2>2, <2>3, LimitsAssumption
<1>3. Bagl!SignerPlaces = UNION {PlacesOfSigner(s, c(s), g(s)) : s \in 1 .. n}
  BY SignerPlacesLemma
<1>4. DOMAIN items = 1 .. Len(items) /\ Len(items) \in Nat
  BY <1>1
<1> HIDE DEF items, n, c, g, blocks
<1>5. ASSUME NEW s \in 1 .. n
      PROVE  {PlaceAt(s, c(s), q) : q \in 1 .. 3 + c(s) + g(s)} = PlacesOfSigner(s, c(s), g(s))
  <2>1. c(s) \in Nat /\ g(s) \in Nat /\ s \in Nat
    BY <1>2
  <2>2. ASSUME NEW q \in 1 .. 3 + c(s) + g(s)
        PROVE  PlaceAt(s, c(s), q) \in PlacesOfSigner(s, c(s), g(s))
    <3>1. CASE q <= 3
      BY <2>1, <3>1 DEF PlaceAt, PlacesOfSigner
    <3>2. CASE ~(q <= 3) /\ q <= 3 + c(s)
      <4>1. q - 4 \in 0 .. c(s) - 1
        BY <2>1, <3>2
      <4> QED
        BY <3>2, <4>1 DEF PlaceAt, PlacesOfSigner
    <3>3. CASE ~(q <= 3) /\ ~(q <= 3 + c(s))
      <4>1. (q - 4) - c(s) \in 0 .. g(s) - 1
        BY <2>1, <3>3
      <4> QED
        BY <3>3, <4>1 DEF PlaceAt, PlacesOfSigner
    <3> QED
      BY <3>1, <3>2, <3>3
  <2>3. ASSUME NEW p \in PlacesOfSigner(s, c(s), g(s))
        PROVE  \E q \in 1 .. 3 + c(s) + g(s) : p = PlaceAt(s, c(s), q)
    <3>1. ASSUME NEW k \in 1 .. 3, p = << 2, s - 1, k, 0 >>
          PROVE  \E q \in 1 .. 3 + c(s) + g(s) : p = PlaceAt(s, c(s), q)
      <4>1. k \in 1 .. 3 + c(s) + g(s) /\ k <= 3
        BY <2>1
      <4> QED
        BY <3>1, <4>1 DEF PlaceAt
    <3>2. ASSUME NEW k \in 0 .. c(s) - 1, p = << 2, s - 1, 4, k >>
          PROVE  \E q \in 1 .. 3 + c(s) + g(s) : p = PlaceAt(s, c(s), q)
      <4>1. k + 4 \in 1 .. 3 + c(s) + g(s) /\ ~(k + 4 <= 3) /\ k + 4 <= 3 + c(s) /\ (k + 4) - 4 = k
        BY <2>1
      <4>2. PlaceAt(s, c(s), k + 4) = p
        BY <3>2, <4>1 DEF PlaceAt
      <4> QED
        BY <4>1, <4>2
    <3>3. ASSUME NEW k \in 0 .. g(s) - 1, p = << 2, s - 1, 5, k >>
          PROVE  \E q \in 1 .. 3 + c(s) + g(s) : p = PlaceAt(s, c(s), q)
      <4> DEFINE q == k + 4 + c(s)
      <4>1. q \in 1 .. 3 + c(s) + g(s) /\ ~(q <= 3) /\ ~(q <= 3 + c(s)) /\ (q - 4) - c(s) = k
        BY <2>1
      <4> HIDE DEF q
      <4>2. PlaceAt(s, c(s), q) = p
        BY <3>3, <4>1 DEF PlaceAt
      <4> QED
        BY <4>1, <4>2
    <3> QED
      BY <3>1, <3>2, <3>3 DEF PlacesOfSigner
  <2> QED
    BY <2>2, <2>3
<1>6. ASSUME NEW s \in 1 .. n, NEW q \in 1 .. Len(blocks[s])
      PROVE  PlaceOf(blocks[s][q]) \in PlacesOfSigner(s, c(s), g(s))
  BY <1>2, <1>5
<1>7. {PlaceOf(items[k]) : k \in DOMAIN items} = Bagl!SignerPlaces
  <2>1. ASSUME NEW k \in 1 .. Len(items) PROVE PlaceOf(items[k]) \in Bagl!SignerPlaces
    <3>1. n # 0
      BY FlattenNone DEF items, n
    <3>2. PICK s \in 1 .. n : \E q \in 1 .. Len(blocks[s]) : items[k] = blocks[s][q]
      BY <1>1, <3>1 DEF Holds
    <3>3. PICK q \in 1 .. Len(blocks[s]) : items[k] = blocks[s][q]
      BY <3>2
    <3> QED
      BY <1>3, <1>6, <3>3
  <2>2. ASSUME NEW s \in 1 .. n, NEW p \in PlacesOfSigner(s, c(s), g(s))
        PROVE  \E k \in 1 .. Len(items) : p = PlaceOf(items[k])
    <3>1. n # 0
      BY <1>1
    <3>2. PICK q \in 1 .. 3 + c(s) + g(s) : p = PlaceAt(s, c(s), q)
      BY <1>5
    <3>3. q \in 1 .. Len(blocks[s]) /\ p = PlaceOf(blocks[s][q])
      BY <1>2, <3>2
    <3>4. PICK k \in 1 .. Len(items) : items[k] = blocks[s][q]
      BY <1>1, <3>1, <3>3 DEF Holds
    <3> QED
      BY <3>3, <3>4
  <2> QED
    BY <1>3, <1>4, <2>1, <2>2
<1>8. ASSUME NEW k \in 1 .. Len(items) - 1
      PROVE  Bagl!Earlier(PlaceOf(items[k]), PlaceOf(items[k + 1]))
  <2>1. n # 0
    <3>1. k \in 1 .. Len(items)
      BY <1>4
    <3> QED
      BY <3>1, FlattenNone DEF items, n
  <2>2. Adjacent(blocks, n, items[k], items[k + 1])
    BY <1>1, <2>1 DEF Holds
  <2>3. PICK s \in 1 .. n :
            \/ \E q \in 1 .. Len(blocks[s]) - 1 : items[k] = blocks[s][q] /\ items[k + 1] = blocks[s][q + 1]
            \/ /\ s < n /\ items[k] = blocks[s][Len(blocks[s])] /\ items[k + 1] = blocks[s + 1][1]
    BY <2>2 DEF Adjacent
  <2>4. c(s) \in Nat /\ g(s) \in Nat /\ s \in Nat /\ Len(blocks[s]) = 3 + c(s) + g(s)
    BY <1>2
  <2>5. ASSUME NEW q \in 1 .. Len(blocks[s]) - 1,
               items[k] = blocks[s][q], items[k + 1] = blocks[s][q + 1]
        PROVE  Bagl!Earlier(PlaceOf(items[k]), PlaceOf(items[k + 1]))
    <3>1. q \in 1 .. Len(blocks[s]) /\ q + 1 \in 1 .. Len(blocks[s])
      BY <2>4
    <3>2. /\ PlaceOf(items[k]) = PlaceAt(s, c(s), q)
          /\ PlaceOf(items[k + 1]) = PlaceAt(s, c(s), q + 1)
      BY <1>2, <2>5, <3>1
    <3>3. Bagl!Earlier(PlaceAt(s, c(s), q), PlaceAt(s, c(s), q + 1))
      <4>1. q \in Nat \ {0} /\ c(s) \in Nat /\ s \in Nat
        BY <2>4, <3>1
      <4> QED
        BY <4>1, ItemsEarlier
    <3> QED
      BY <3>2, <3>3
  <2>6. ASSUME s < n, items[k] = blocks[s][Len(blocks[s])], items[k + 1] = blocks[s + 1][1]
        PROVE  Bagl!Earlier(PlaceOf(items[k]), PlaceOf(items[k + 1]))
    <3>1. Len(blocks[s]) \in 1 .. Len(blocks[s]) /\ s + 1 \in 1 .. n
      <4>1. Len(blocks[s]) \in 1 .. Len(blocks[s])
        BY <2>4
      <4>2. n \in Nat /\ s \in Nat /\ s < n
        BY <1>1, <2>4, <2>6
      <4>3. s + 1 \in 1 .. n
        BY <4>2
      <4> QED
        BY <4>1, <4>3
    <3>2. c(s + 1) \in Nat /\ 1 \in 1 .. Len(blocks[s + 1])
      BY <1>2, <3>1
    <3>3. /\ PlaceOf(items[k]) = PlaceAt(s, c(s), 3 + c(s) + g(s))
          /\ PlaceOf(items[k + 1]) = PlaceAt(s + 1, c(s + 1), 1)
      BY <1>2, <2>4, <2>6, <3>1, <3>2
    <3>4. Bagl!Earlier(PlaceAt(s, c(s), 3 + c(s) + g(s)), PlaceAt(s + 1, c(s + 1), 1))
      BY <2>4, <3>2, SignersEarlier
    <3> QED
      BY <3>3, <3>4
  <2> QED
    BY <2>3, <2>5, <2>6
<1> QED
  BY <1>7, <1>8 DEF items

---------------------------------------------------------------------------
(* The slots.                                                              *)

\* Numbers that are less than n apart differ modulo n.
LEMMA ModDistinct ==
    ASSUME NEW n \in Nat \ {0}, NEW x \in Nat, NEW y \in Nat, x < y, y < x + n
    PROVE  x % n # y % n
<1> DEFINE a == x \div n
           b == y \div n
<1>1. a \in Int /\ b \in Int /\ x = (n * a) + (x % n) /\ y = (n * b) + (y % n)
  OBVIOUS
<1>2. x % n \in 0 .. n - 1 /\ y % n \in 0 .. n - 1
  OBVIOUS
<1> HIDE DEF a, b
<1> SUFFICES ASSUME x % n = y % n PROVE FALSE
  OBVIOUS
<1>3. y - x = (n * b) - (n * a)
  BY <1>1, <1>2
<1>4. (n * b) - (n * a) = n * (b - a) /\ b - a \in Int
  BY <1>1
<1>5. CASE b - a <= 0
  <2>1. n * (b - a) <= 0
    BY <1>1, <1>5
  <2> QED
    BY <1>3, <1>4, <2>1
<1>6. CASE b - a >= 1
  <2>1. n * (b - a) >= n
    BY <1>1, <1>6
  <2> QED
    BY <1>3, <1>4, <2>1
<1> QED
  BY <1>1, <1>5, <1>6

\* A pair that is not static, as the callback writes it.
Text(index) == TextOf(dyn_items[index - Len(static_items) + 1])

\* The callback, for a pair of which the text is not static.
LEMMA CallbackSlots ==
    ASSUME NEW index \in Nat, Callback(index), DOMAIN dyn_slots = 0 .. SlotCount - 1
    PROVE  /\ DOMAIN dyn_slots' = 0 .. SlotCount - 1
           /\ ~IsStatic(index) => dyn_slots'[SlotOf(index)] = Text(index)
           /\ \A slot \in 0 .. SlotCount - 1 :
                 slot # SlotOf(index) => dyn_slots'[slot] = dyn_slots[slot]
<1>1. SlotOf(index) \in 0 .. SlotCount - 1
  BY SlotsAssumption DEF SlotOf
<1>2. CASE IsStatic(index)
  <2>1. dyn_slots' = dyn_slots
    BY <1>2 DEF Callback
  <2> QED
    BY <1>2, <2>1
<1>3. CASE ~IsStatic(index)
  <2>1. dyn_slots' = [dyn_slots EXCEPT ![SlotOf(index)] = Text(index)]
    BY <1>3 DEF Callback, Text
  <2> QED
    BY <1>1, <2>1
<1> QED
  BY <1>2, <1>3

\* What the texts are made of stays as it is, and so do they.
LEMMA TextsKept ==
    ASSUME UNCHANGED << raw, tx, title, static_items, dyn_items >>
    PROVE  /\ Title(tx)' = Title(tx) /\ StaticItems(tx)' = StaticItems(tx)
           /\ DynItems(tx)' = DynItems(tx) /\ PairsCount' = PairsCount
           /\ \A index : /\ Text(index)' = Text(index)
                         /\ IsStatic(index)' = IsStatic(index)
                         /\ Pointer(index)' = Pointer(index)
<1>1. Title(tx)' = Title(tx)
  BY DEF Title
<1>2. StaticItems(tx)' = StaticItems(tx)
  BY DEF StaticItems
<1>3. DynItems(tx)' = DynItems(tx)
  BY DEF DynItems, SignerItems
<1>4. \A index : Text(index)' = Text(index)
  BY DEF Text, TextOf
<1>5. \A index : IsStatic(index)' = IsStatic(index) /\ Pointer(index)' = Pointer(index)
  BY DEF IsStatic, Pointer, SlotOf
<1>6. PairsCount' = PairsCount
  BY DEF PairsCount
<1> QED
  BY <1>1, <1>2, <1>3, <1>4, <1>5, <1>6

---------------------------------------------------------------------------
(* The invariant.                                                          *)

Pointers == [static : BOOLEAN, at : Nat]
Pages == [first : Nat, count : 1 .. SlotCount, pairs : Seq(Pointers)]

\* The review is the one of the transaction in G_context.
IsOfTransaction == title = Title(tx) /\ static_items = StaticItems(tx) /\ dyn_items = DynItems(tx)

\* Pair k of the page points at the static pair of its number, or at the slot which
\* this pair was written to last.
PairDrawn(k) ==
    /\ page.pairs[k] = Pointer(page.first + k - 1)
    /\ ~IsStatic(page.first + k - 1) =>
          dyn_slots[SlotOf(page.first + k - 1)] = Text(page.first + k - 1)

OnPage ==
    /\ pc = "done"
    /\ IsOfTransaction
    /\ page \in Pages
    /\ Len(page.pairs) <= page.count /\ page.first + page.count <= PairsCount
    /\ \A k \in 1 .. Len(page.pairs) : PairDrawn(k)

\* The types, the room for the items, and while a review is open, the page.
Screen ==
    /\ Inside
    /\ dyn_items \in Seq(Item)
    /\ Len(dyn_items) <= MaxSigners * (3 + MaxContracts + MaxGroups)
    /\ DOMAIN dyn_slots = 0 .. SlotCount - 1
    /\ IsOpen => OnPage

\* Pairs in an array, whatever they are.
LEMMA TwoAndSix ==
    ASSUME NEW u1, NEW u2, NEW x1, NEW x2, NEW x3, NEW x4, NEW x5, NEW x6
    PROVE  LET six   == << >> \o << x1, x2, x3, x4, x5, x6 >>
               eight == << u1, u2 >> \o << x1, x2, x3, x4, x5, x6 >>
           IN  /\ Len(six) = 6 /\ DOMAIN six = 1 .. Len(six)
               /\ Len(eight) = 8 /\ DOMAIN eight = 1 .. Len(eight)
               /\ \E S : six \in Seq(S) /\ eight \in Seq(S)
<1> DEFINE S == {u1, u2, x1, x2, x3, x4, x5, x6}
           x == << x1, x2, x3, x4, x5, x6 >>
           u == << u1, u2 >>
<1>1. x \in Seq(S) /\ Len(x) = 6
  <2>1. x1 \in S /\ x2 \in S /\ x3 \in S /\ x4 \in S /\ x5 \in S /\ x6 \in S
    OBVIOUS
  <2> HIDE DEF S
  <2> QED
    BY <2>1
<1>2. u \in Seq(S) /\ Len(u) = 2
  <2>1. u1 \in S /\ u2 \in S
    OBVIOUS
  <2> HIDE DEF S
  <2> QED
    BY <2>1
<1>3. << >> \in Seq(S) /\ Len(<< >>) = 0
  BY EmptySeq
<1> HIDE DEF S, x, u
<1>4. u \o x \in Seq(S) /\ Len(u \o x) = 8
  <2>1. u \o x \in Seq(S) /\ Len(u \o x) = Len(u) + Len(x)
    BY <1>1, <1>2, ConcatProperties, Zenon
  <2> QED
    BY <1>1, <1>2, <2>1
<1>5. << >> \o x \in Seq(S) /\ Len(<< >> \o x) = 6
  <2>1. << >> \o x \in Seq(S) /\ Len(<< >> \o x) = Len(<< >>) + Len(x)
    BY <1>1, <1>3, ConcatProperties, Zenon
  <2> QED
    BY <1>1, <1>3, <2>1
<1>6. DOMAIN (u \o x) = 1 .. Len(u \o x) /\ DOMAIN (<< >> \o x) = 1 .. Len(<< >> \o x)
  BY <1>4, <1>5, LenProperties, Zenon
<1> QED
  BY <1>4, <1>5, <1>6 DEF x, u

\* There are six or eight static pairs.
LEMMA StaticItemsLen ==
    ASSUME NEW t
    PROVE  /\ Len(StaticItems(t)) \in {6, 8} /\ DOMAIN StaticItems(t) = 1 .. Len(StaticItems(t))
           /\ \E S : StaticItems(t) \in Seq(S)
<1> DEFINE six   == << >> \o << Pair(<< "Target network" >>, << >>),
                             Pair(<< "System fee" >>, t.header["system_fee"]),
                             Pair(<< "Network fee" >>, t.header["network_fee"]),
                             Pair(<< "Total fees" >>, t.header["network_fee"] \o t.header["system_fee"]),
                             Pair(<< "Valid until height" >>, t.header["valid_until_block"]),
                             Pair(<< "Script hash" >>, At(raw, t.script, t.script_size)) >>
           eight == << Pair(<< "To" >>, t.dst), Pair(<< "Token amount", t.is_neo >>, t.amount) >>
                    \o << Pair(<< "Target network" >>, << >>),
                          Pair(<< "System fee" >>, t.header["system_fee"]),
                          Pair(<< "Network fee" >>, t.header["network_fee"]),
                          Pair(<< "Total fees" >>, t.header["network_fee"] \o t.header["system_fee"]),
                          Pair(<< "Valid until height" >>, t.header["valid_until_block"]),
                          Pair(<< "Script hash" >>, At(raw, t.script, t.script_size)) >>
<1>1. /\ Len(six) = 6 /\ DOMAIN six = 1 .. Len(six)
      /\ Len(eight) = 8 /\ DOMAIN eight = 1 .. Len(eight)
      /\ \E S : six \in Seq(S) /\ eight \in Seq(S)
  BY TwoAndSix, Zenon
<1>2. CASE t.is_system_asset_transfer /\ ~t.is_vote_script
  <2>1. StaticItems(t) = eight
    BY <1>2, Zenon DEF StaticItems
  <2> HIDE DEF eight, six
  <2> QED
    BY <1>1, <2>1
<1>3. CASE ~(t.is_system_asset_transfer /\ ~t.is_vote_script)
  <2>1. StaticItems(t) = six
    BY <1>3, Zenon DEF StaticItems
  <2> HIDE DEF eight, six
  <2> QED
    BY <1>1, <2>1
<1> QED
  BY <1>2, <1>3

\* Nothing of the review changes while none is open.
LEMMA ClosedKept ==
    ASSUME Screen, Inside', ~IsOpen, UNCHANGED review
    PROVE  Screen'
  BY DEF Screen, IsOpen, Closed, review

\* A page that was just opened has no pairs on it yet.
LEMMA PageOpened ==
    ASSUME Inside', dyn_items' \in Seq(Item), pc' = "done", IsOfTransaction',
           Len(dyn_items') <= MaxSigners * (3 + MaxContracts + MaxGroups),
           DOMAIN dyn_slots' = 0 .. SlotCount - 1,
           NEW first \in Nat, NEW count \in 1 .. SlotCount, first + count <= PairsCount',
           page' = [first |-> first, count |-> count, pairs |-> << >>]
    PROVE  Screen'
<1>1. << >> \in Seq(Pointers) /\ Len(<< >>) = 0
  BY EmptySeq
<1>2. page' \in Pages /\ Len(page'.pairs) = 0
  BY <1>1 DEF Pages
<1>3. OnPage'
  BY <1>2, SlotsAssumption DEF OnPage
<1> QED
  BY <1>3 DEF Screen

\* The review of a transaction that was parsed.
LEMMA ShowReviewScreen == Screen /\ Inside' /\ ShowReview => Screen'
<1> SUFFICES ASSUME Screen, Inside', ShowReview PROVE Screen'
  OBVIOUS
<1>1. /\ tx' = tx /\ raw' = raw /\ pc' = "done" /\ dyn_slots' = dyn_slots
      /\ title' = Title(tx) /\ static_items' = StaticItems(tx) /\ dyn_items' = DynItems(tx)
      /\ \E count \in PageSizes(Len(static_items') + Len(dyn_items')) :
            page' = [first |-> 0, count |-> count, pairs |-> << >>]
  BY DEF ShowReview, StartReview
<1>2. IsOfTransaction'
  <2>1. Title(tx)' = Title(tx)
    BY <1>1 DEF Title
  <2>2. StaticItems(tx)' = StaticItems(tx)
    BY <1>1 DEF StaticItems
  <2>3. DynItems(tx)' = DynItems(tx)
    BY <1>1 DEF DynItems, SignerItems
  <2> QED
    BY <1>1, <2>1, <2>2, <2>3 DEF IsOfTransaction
<1>3. dyn_items' \in Seq(Item) /\ Len(dyn_items') <= MaxSigners * (3 + MaxContracts + MaxGroups)
  BY <1>1, DynItemsLemma DEF Screen, Inside
<1>4. PICK count \in 1 .. SlotCount :
          /\ count <= PairsCount'
          /\ page' = [first |-> 0, count |-> count, pairs |-> << >>]
  BY <1>1 DEF PageSizes, PairsCount
<1>5. 0 + count <= PairsCount' /\ 0 \in Nat
  BY <1>4, SlotsAssumption
<1>6. DOMAIN dyn_slots' = 0 .. SlotCount - 1
  BY <1>1 DEF Screen
<1> QED
  BY <1>1, <1>2, <1>3, <1>4, <1>5, <1>6, PageOpened

\* Measuring a page that is not drawn yet writes to slots nothing points at.
LEMMA MeasureScreen ==
    ASSUME Screen, Inside', NEW index \in Nat, Measure(index), UNCHANGED << raw, tx, pc >>
    PROVE  Screen'
<1>1. /\ IsOpen /\ page.pairs = << >> /\ Callback(index)
      /\ UNCHANGED << raw, tx, title, static_items, dyn_items >> /\ page' = page
  BY DEF Measure
<1>2. DOMAIN dyn_slots' = 0 .. SlotCount - 1
  BY <1>1, CallbackSlots DEF Screen
<1>3. OnPage /\ IsOpen'
  BY <1>1 DEF Screen, IsOpen, Closed
<1>4. IsOfTransaction' /\ PairsCount' = PairsCount
  BY <1>1, <1>3, TextsKept DEF OnPage, IsOfTransaction
<1>5. Len(page'.pairs) = 0
  BY <1>1
<1>6. OnPage'
  BY <1>1, <1>3, <1>4, <1>5 DEF OnPage, Pages
<1> QED
  BY <1>1, <1>2, <1>6 DEF Screen

\* Drawing the next pair writes to none of the slots the other pairs point at.
LEMMA DrawScreen == Screen /\ Inside' /\ Draw /\ UNCHANGED << raw, tx, pc >> => Screen'
<1> SUFFICES ASSUME Screen, Inside', Draw, UNCHANGED << raw, tx, pc >> PROVE Screen'
  OBVIOUS
<1> DEFINE n == Len(page.pairs)
           index == page.first + n
<1>1. /\ IsOpen /\ n < page.count /\ Callback(index)
      /\ UNCHANGED << raw, tx, title, static_items, dyn_items >>
      /\ page' = [page EXCEPT !.pairs = Append(page.pairs, Pointer(index))]
  BY DEF Draw
<1>2. /\ OnPage /\ page \in Pages /\ page.first \in Nat /\ page.count \in 1 .. SlotCount
      /\ page.pairs \in Seq(Pointers) /\ n \in Nat /\ index \in Nat
  BY <1>1 DEF Screen, OnPage, Pages
<1>3. Pointer(index) \in Pointers
  <2>1. SlotOf(index) \in Nat /\ index + 1 \in Nat
    BY <1>2, SlotsAssumption DEF SlotOf
  <2> QED
    BY <2>1 DEF Pointer, Pointers, IsStatic
<1>4. /\ page'.first = page.first /\ page'.count = page.count
      /\ page'.pairs = Append(page.pairs, Pointer(index)) /\ page' \in Pages
      /\ Len(page'.pairs) = n + 1 /\ page'.pairs[n + 1] = Pointer(index)
      /\ \A k \in 1 .. n : page'.pairs[k] = page.pairs[k]
  <2>1. /\ Append(page.pairs, Pointer(index)) \in Seq(Pointers)
        /\ Len(Append(page.pairs, Pointer(index))) = n + 1
        /\ Append(page.pairs, Pointer(index))[n + 1] = Pointer(index)
        /\ \A k \in 1 .. n : Append(page.pairs, Pointer(index))[k] = page.pairs[k]
    BY <1>2, <1>3, AppendProperties
  <2>2. /\ page'.first = page.first /\ page'.count = page.count
        /\ page'.pairs = Append(page.pairs, Pointer(index))
    BY <1>1, <1>2 DEF Pages
  <2>3. page' \in Pages
    BY <1>1, <1>2, <2>1 DEF Pages
  <2> QED
    BY <2>1, <2>2, <2>3
<1>5. /\ DOMAIN dyn_slots' = 0 .. SlotCount - 1
      /\ ~IsStatic(index) => dyn_slots'[SlotOf(index)] = Text(index)
      /\ \A slot \in 0 .. SlotCount - 1 :
            slot # SlotOf(index) => dyn_slots'[slot] = dyn_slots[slot]
  BY <1>1, <1>2, CallbackSlots DEF Screen
<1> HIDE DEF n, index
<1>6. /\ IsOfTransaction' /\ PairsCount' = PairsCount
      /\ \A l : /\ Text(l)' = Text(l) /\ IsStatic(l)' = IsStatic(l)
                /\ Pointer(l)' = Pointer(l) /\ SlotOf(l)' = SlotOf(l)
  BY <1>1, <1>2, TextsKept DEF OnPage, IsOfTransaction, SlotOf
<1>7. ASSUME NEW k \in 1 .. n + 1 PROVE PairDrawn(k)'
  <2> DEFINE l == page.first + k - 1
  <2>1. l \in Nat /\ page'.first + k - 1 = l
    BY <1>2, <1>4
  <2> HIDE DEF l
  <2>2. SUFFICES /\ page'.pairs[k] = Pointer(l)
                 /\ ~IsStatic(l) => dyn_slots'[SlotOf(l)] = Text(l)
    BY <1>6, <2>1 DEF PairDrawn
  <2>3. CASE k = n + 1
    <3>1. l = index
      BY <1>2, <2>3 DEF l, index
    <3> QED
      BY <1>4, <1>5, <2>3, <3>1
  <2>4. CASE k # n + 1
    <3>1. k \in 1 .. n
      BY <1>2, <2>4
    <3>2. page.pairs[k] = Pointer(l) /\ (~IsStatic(l) => dyn_slots[SlotOf(l)] = Text(l))
      BY <1>2, <3>1 DEF OnPage, PairDrawn, l, n
    <3>3. l < index /\ index < l + SlotCount
      <4>1. k \in Nat /\ k >= 1 /\ k <= n /\ n < SlotCount
        BY <1>1, <1>2, <3>1, SlotsAssumption
      <4> QED
        BY <1>2, <4>1, SlotsAssumption DEF l, index
    <3>4. SlotOf(l) # SlotOf(index) /\ SlotOf(l) \in 0 .. SlotCount - 1
      <4>1. l % SlotCount # index % SlotCount
        BY <1>2, <2>1, <3>3, ModDistinct, SlotsAssumption
      <4>2. l % SlotCount \in 0 .. SlotCount - 1
        BY <2>1, SlotsAssumption
      <4> QED
        BY <4>1, <4>2 DEF SlotOf
    <3>5. dyn_slots'[SlotOf(l)] = dyn_slots[SlotOf(l)]
      BY <1>5, <3>4
    <3> QED
      BY <1>4, <3>1, <3>2, <3>5
  <2> QED
    BY <2>3, <2>4
<1>8. OnPage'
  <2>1. pc' = "done"
    BY <1>2 DEF OnPage
  <2>2. page.first + page.count <= PairsCount
    BY <1>2 DEF OnPage
  <2>3. Len(page'.pairs) <= page'.count
    BY <1>1, <1>2, <1>4
  <2> QED
    BY <1>4, <1>6, <1>7, <2>1, <2>2, <2>3 DEF OnPage
<1> QED
  BY <1>1, <1>5, <1>8 DEF Screen

\* Another page of the same review.
LEMMA SwipeScreen ==
    ASSUME Screen, Inside', NEW first \in 0 .. PairsCount, NEW count \in 1 .. SlotCount,
           Swipe(first, count), UNCHANGED << raw, tx, pc >>
    PROVE  Screen'
<1>1. /\ IsOpen /\ UNCHANGED << raw, tx, title, static_items, dyn_items >> /\ dyn_slots' = dyn_slots
      /\ \/ first = page.first + page.count /\ count \in PageSizes(PairsCount - first)
         \/ first + count = page.first /\ count \in PageSizes(page.first)
      /\ page' = [first |-> first, count |-> count, pairs |-> << >>]
  BY DEF Swipe, Drawn
<1>2. /\ OnPage /\ page.first \in Nat /\ page.count \in 1 .. SlotCount
      /\ page.first + page.count <= PairsCount
  BY <1>1 DEF Screen, OnPage, Pages
<1>3. PairsCount \in Nat
  <2>1. Len(static_items) \in Nat
    BY <1>2, StaticItemsLen DEF OnPage, IsOfTransaction
  <2> QED
    BY <2>1 DEF PairsCount, Screen
<1>4. IsOfTransaction' /\ PairsCount' = PairsCount
  BY <1>1, <1>2, TextsKept DEF OnPage, IsOfTransaction
<1>5. first \in Nat /\ first + count <= PairsCount
  BY <1>1, <1>2, <1>3, SlotsAssumption DEF PageSizes
<1>6. /\ dyn_items' \in Seq(Item) /\ pc' = "done" /\ DOMAIN dyn_slots' = 0 .. SlotCount - 1
      /\ Len(dyn_items') <= MaxSigners * (3 + MaxContracts + MaxGroups)
  BY <1>1, <1>2 DEF Screen, OnPage
<1> QED
  BY <1>1, <1>4, <1>5, <1>6, PageOpened

\* Init has no review and no items.
LEMMA ScreenInit == Init => Screen
<1> SUFFICES ASSUME Init PROVE Screen
  OBVIOUS
<1>1. dyn_items \in Seq(Item) /\ Len(dyn_items) = 0 /\ ~IsOpen
  BY EmptySeq DEF Init, IsOpen
<1>2. 0 <= MaxSigners * (3 + MaxContracts + MaxGroups)
  BY LimitsAssumption
<1>3. DOMAIN dyn_slots = 0 .. SlotCount - 1
  BY DEF Init
<1> QED
  BY <1>1, <1>2, <1>3, InsideInit DEF Screen

\* Every step of the host, the parser and the owner.
LEMMA ScreenNext == Screen /\ [Next]_vars => Screen'
<1> SUFFICES ASSUME Screen, [Next]_vars PROVE Screen'
  OBVIOUS
<1>1. Inside'
  BY InsideNext DEF Screen
<1>2. CASE NewUpload
  BY <1>1, <1>2, ClosedKept DEF NewUpload, HostMaySend
<1>3. CASE ReceiveMore
  BY <1>1, <1>3, ClosedKept DEF ReceiveMore, HostMaySend
<1>4. CASE ReceiveLast
  BY <1>1, <1>4, ClosedKept DEF ReceiveLast, HostMaySend
<1>5. CASE Parse
  <2>1. pc # "done"
    BY <1>5 DEF Parse, Read, ReadHeader, ReadSignersLength, ReadAccount, ReadScope, ReadListLength,
       ReadItem, ReadAttributesLength, ReadAttribute, ReadScript, Match
  <2>2. ~IsOpen
    BY <2>1 DEF Screen, OnPage
  <2> QED
    BY <1>1, <1>5, <2>2, ClosedKept DEF Parse
<1>6. CASE ShowReview
  BY <1>1, <1>6, ShowReviewScreen
<1>7. CASE Look
  <2>1. UNCHANGED << raw, tx, pc >>
    BY <1>7 DEF Look, parser
  <2>2. ASSUME NEW index \in page.first .. page.first + SlotCount - 1, Measure(index)
        PROVE  Screen'
    <3>1. page.first \in Nat
      BY <2>2 DEF Measure, Screen, OnPage, Pages
    <3>2. index \in Nat
      BY <3>1
    <3> QED
      BY <1>1, <2>1, <2>2, <3>2, MeasureScreen
  <2>3. CASE Draw
    BY <1>1, <2>1, <2>3, DrawScreen
  <2>4. ASSUME NEW first \in 0 .. PairsCount, NEW count \in 1 .. SlotCount, Swipe(first, count)
        PROVE  Screen'
    BY <1>1, <2>1, <2>4, SwipeScreen
  <2> QED
    BY <1>7, <2>2, <2>3, <2>4 DEF Look
<1>8. CASE Approve \/ Reject
  <2>1. page' = Closed /\ UNCHANGED << dyn_items, dyn_slots >>
    BY <1>8 DEF Approve, Reject
  <2> QED
    BY <1>1, <2>1 DEF Screen, IsOpen
<1>9. CASE UNCHANGED vars
  <2>1. UNCHANGED << raw, tx, pc, title, static_items, dyn_items, dyn_slots, page >>
    BY <1>9 DEF vars, parser, review
  <2>2. CASE IsOpen
    <3>1. OnPage'
      BY <2>1, <2>2, TextsKept DEF Screen, OnPage, IsOfTransaction, PairDrawn, Pages, SlotOf
    <3> QED
      BY <1>1, <2>1, <3>1 DEF Screen
  <2>3. CASE ~IsOpen
    BY <1>1, <2>1, <2>3, ClosedKept DEF review
  <2> QED
    BY <2>2, <2>3
<1> QED
  BY <1>2, <1>3, <1>4, <1>5, <1>6, <1>7, <1>8, <1>9 DEF Next

\* In every reachable state.
LEMMA ScreenAlways == Spec => []Screen
  BY ScreenInit, ScreenNext, PTL DEF Spec

---------------------------------------------------------------------------

\* dyn_items is never filled beyond its end, for every number of signers, contracts
\* and groups the limits allow: ItemsFit of Upload.
THEOREM ItemsFitTheorem == Spec => []ItemsFit
<1>1. Screen => ItemsFit
  BY DEF Screen, ItemsFit
<1> QED
  BY <1>1, ScreenAlways, PTL

\* What is on the screen is read from the slots this page was written to: each pair is
\* the one of the transaction with its number, for every cut into pages that have no
\* more pairs than there are slots.  PagesShowTransaction of Upload.
THEOREM PagesTheorem == Spec => []PagesShowTransaction
<1>1. Screen => PagesShowTransaction
  <2> SUFFICES ASSUME Screen, IsOpen
               PROVE  /\ title = Title(tx)
                      /\ page.first + Len(page.pairs) <= Len(StaticItems(tx)) + Len(DynItems(tx))
                      /\ \A k \in DOMAIN page.pairs : OnScreen[k] = PairAt(tx, page.first + k)
    BY DEF PagesShowTransaction
  <2>1. OnPage /\ title = Title(tx) /\ static_items = StaticItems(tx) /\ dyn_items = DynItems(tx)
    BY DEF Screen, OnPage, IsOfTransaction
  <2>2. /\ page.first \in Nat /\ page.count \in Nat /\ page.pairs \in Seq(Pointers)
        /\ Len(page.pairs) \in Nat /\ DOMAIN page.pairs = 1 .. Len(page.pairs)
    BY <2>1, SlotsAssumption DEF OnPage, Pages
  <2>3. /\ Len(static_items) \in Nat /\ DOMAIN static_items = 1 .. Len(static_items)
        /\ Len(dyn_items) \in Nat
    BY <2>1, StaticItemsLen DEF Screen
  <2>4. page.first + Len(page.pairs) <= Len(StaticItems(tx)) + Len(DynItems(tx))
    BY <2>1, <2>2, <2>3 DEF OnPage, PairsCount
  <2>5. ASSUME NEW k \in DOMAIN page.pairs PROVE OnScreen[k] = PairAt(tx, page.first + k)
    <3> DEFINE l == page.first + k - 1
    <3>1. l \in Nat /\ l + 1 = page.first + k /\ k \in 1 .. Len(page.pairs)
      BY <2>2
    <3>2. PairDrawn(k)
      BY <2>1, <3>1 DEF OnPage
    <3>3. page.pairs[k] = Pointer(l) /\ (~IsStatic(l) => dyn_slots[SlotOf(l)] = Text(l))
      BY <3>2 DEF PairDrawn
    <3> HIDE DEF l
    <3>4. OnScreen[k] = Deref(Pointer(l))
      BY <3>3 DEF OnScreen
    <3>5. CASE IsStatic(l)
      <4>1. Deref(Pointer(l)) = static_items[l + 1]
        BY <3>5 DEF Deref, Pointer
      <4>2. l + 1 <= Len(StaticItems(tx))
        BY <2>1, <2>3, <3>1, <3>5 DEF IsStatic
      <4> QED
        BY <2>1, <3>1, <3>4, <4>1, <4>2 DEF PairAt
    <3>6. CASE ~IsStatic(l)
      <4>1. Deref(Pointer(l)) = Text(l)
        BY <3>3, <3>6 DEF Deref, Pointer
      <4>2. ~(l + 1 <= Len(StaticItems(tx))) /\ l - Len(static_items) + 1 = (l + 1) - Len(static_items)
        BY <2>1, <2>3, <3>1, <3>6 DEF IsStatic
      <4> QED
        BY <2>1, <3>1, <3>4, <4>1, <4>2 DEF PairAt, Text
    <3> QED
      BY <3>5, <3>6
  <2> QED
    BY <2>1, <2>4, <2>5
<1> QED
  BY <1>1, ScreenAlways, PTL

\* Both builds show the same items of the signers in the same order, for every number
\* of them: BothBuildsAgree of Upload.
THEOREM BuildsTheorem == Spec => []BothBuildsAgree
<1>1. Screen => BothBuildsAgree
  BY SamePlaces DEF Screen, OnPage, IsOfTransaction, Inside, BothBuildsAgree
<1> QED
  BY <1>1, ScreenAlways, PTL
=============================================================================
