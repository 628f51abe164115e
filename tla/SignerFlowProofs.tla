-------------------------- MODULE SignerFlowProofs --------------------------
(***************************************************************************)
(* Theorems about SignerFlow, for any number of signers, contracts and     *)
(* groups the indices have room for.                                       *)
(***************************************************************************)
EXTENDS SignerFlow, SequenceTheorems, TLAPS

---------------------------------------------------------------------------
(* The shapes of a flow.                                                   *)

Buttons  == {"approve", "reject", "abort"}
Reserved == Hidden \cup Buttons
Plain ==
    {"review", "vote_retract", "vote_to", "dst_address", "token_amount", "network",
     "systemfee", "networkfee", "total_fee", "validuntilblock", "script"}
Names == Plain \cup Reserved

\* Static steps, the three steps of the signers, approve and reject.
IsReview(f) ==
    /\ f \in Seq(Names)
    /\ Len(f) \in 6 .. MAX_NUM_STEPS
    /\ \A i \in 1 .. Len(f) - 5 : f[i] \notin Reserved
    /\ f[Len(f) - 4] = "upper_delimiter"
    /\ f[Len(f) - 3] = "generic"
    /\ f[Len(f) - 2] = "lower_delimiter"
    /\ f[Len(f) - 1] = "approve"
    /\ f[Len(f)] = "reject"

IsRefusal(f) == f = << "no_arbitrary_script", "abort" >>

\* A plain step is neither hidden nor a button.
LEMMA PlainIsFree ==
    ASSUME NEW x \in Plain
    PROVE  x \notin Reserved
  BY DEF Plain, Reserved, Hidden, Buttons

Tail5 == << "upper_delimiter", "generic", "lower_delimiter", "approve", "reject" >>

\* Whatever steps are put in front, the tail makes it a review.
LEMMA TailMakesReview ==
    ASSUME NEW front \in Seq(Plain), Len(front) \in 1 .. 9
    PROVE  IsReview(front \o Tail5)
<1> DEFINE f == front \o Tail5
<1>1. Tail5 \in Seq(Names) /\ Len(Tail5) = 5
  BY DEF Tail5, Names, Reserved, Hidden, Buttons
<1>2. front \in Seq(Names)
  BY DEF Names
<1>3. f \in Seq(Names) /\ Len(f) = Len(front) + 5
  <2>1. f \in Seq(Names) /\ Len(f) = Len(front) + Len(Tail5)
    BY <1>1, <1>2, ConcatProperties
  <2> QED
    BY <1>1, <2>1
<1>4. \A i \in 1 .. Len(front) + 5 : f[i] = IF i <= Len(front) THEN front[i] ELSE Tail5[i - Len(front)]
  <2>1. \A i \in 1 .. Len(front) + Len(Tail5) :
           f[i] = IF i <= Len(front) THEN front[i] ELSE Tail5[i - Len(front)]
    BY <1>1, <1>2, ConcatProperties
  <2> QED
    BY <1>1, <2>1
<1>5. ASSUME NEW i \in 1 .. Len(front)
      PROVE  f[i] \notin Reserved
  <2>1. f[i] = front[i]
    BY <1>4
  <2>2. front[i] \in Plain
    OBVIOUS
  <2> QED
    BY <2>1, <2>2, PlainIsFree
<1>6. ASSUME NEW k \in 1 .. 5
      PROVE  f[Len(front) + k] = Tail5[k]
  <2>1. Len(front) + k \in 1 .. Len(front) + 5 /\ ~(Len(front) + k <= Len(front))
    OBVIOUS
  <2>2. (Len(front) + k) - Len(front) = k
    OBVIOUS
  <2> QED
    BY <2>1, <2>2, <1>4
<1> HIDE DEF f
<1>7. /\ f[Len(front) + 1] = "upper_delimiter" /\ f[Len(front) + 2] = "generic"
      /\ f[Len(front) + 3] = "lower_delimiter" /\ f[Len(front) + 4] = "approve"
      /\ f[Len(front) + 5] = "reject"
  BY <1>6 DEF Tail5
<1>8. /\ Len(f) - 5 = Len(front) /\ Len(f) - 4 = Len(front) + 1 /\ Len(f) - 3 = Len(front) + 2
      /\ Len(f) - 2 = Len(front) + 3 /\ Len(f) - 1 = Len(front) + 4
      /\ Len(f) \in 6 .. 14
  <2> DEFINE n == Len(front)
  <2>1. n \in 1 .. 9 /\ Len(f) = n + 5
    BY <1>3
  <2> HIDE DEF n
  <2>2. /\ Len(f) - 5 = n /\ Len(f) - 4 = n + 1 /\ Len(f) - 3 = n + 2
        /\ Len(f) - 2 = n + 3 /\ Len(f) - 1 = n + 4 /\ Len(f) \in 6 .. 14
    BY <2>1
  <2> QED
    BY <2>2 DEF n
<1>9. IsReview(f)
  BY <1>3, <1>5, <1>7, <1>8 DEF IsReview, MAX_NUM_STEPS
<1> QED
  BY <1>9 DEF f

\* create_transaction_flow makes a review or a refusal.
LEMMA FlowShape ==
    ASSUME NEW t \in Transactions, NEW settings \in Settings
    PROVE  IsReview(FlowOf(t, settings)) \/ IsRefusal(FlowOf(t, settings))
<1> DEFINE first == << "review" >>
           subject == Subject(t)
           fees == << "network", "systemfee", "networkfee", "total_fee", "validuntilblock" >>
           script == IF settings.showScriptHash THEN << "script" >> ELSE << >>
<1>1. first \in Seq(Plain) /\ Len(first) = 1 /\ fees \in Seq(Plain) /\ Len(fees) = 5
  BY DEF Plain
<1>2. script \in Seq(Plain) /\ Len(script) \in {0, 1}
  <2>1. script = << >> \/ script = << "script" >>
    OBVIOUS
  <2> HIDE DEF script
  <2>2. CASE script = << >>
    BY <2>2
  <2>3. CASE script = << "script" >>
    BY <2>3 DEF Plain
  <2> QED
    BY <2>1, <2>2, <2>3
<1>3. subject \in Seq(Plain) /\ Len(subject) \in {0, 1, 2}
  <2>1. \/ subject = << >> \/ subject = << "vote_retract" >> \/ subject = << "vote_to" >>
        \/ subject = << "dst_address", "token_amount" >>
    BY DEF Subject, Transactions
  <2> HIDE DEF subject
  <2>2. CASE subject = << >>
    BY <2>2
  <2>3. CASE subject = << "vote_retract" >>
    BY <2>3 DEF Plain
  <2>5. CASE subject = << "vote_to" >>
    BY <2>5 DEF Plain
  <2>4. CASE subject = << "dst_address", "token_amount" >>
    BY <2>4 DEF Plain
  <2> QED
    BY <2>1, <2>2, <2>3, <2>4, <2>5
<1>4. ReviewSteps(t, settings) = (((first \o subject) \o fees) \o script) \o Tail5
  BY DEF ReviewSteps, Tail5
<1> HIDE DEF first, subject, fees, script
<1> DEFINE s1 == first \o subject
           s2 == s1 \o fees
           s3 == s2 \o script
<1>5. s1 \in Seq(Plain) /\ Len(s1) = Len(first) + Len(subject)
  BY <1>1, <1>3, ConcatProperties
<1> HIDE DEF s1
<1>6. s2 \in Seq(Plain) /\ Len(s2) = Len(s1) + Len(fees)
  BY <1>1, <1>5, ConcatProperties
<1> HIDE DEF s2
<1>7. s3 \in Seq(Plain) /\ Len(s3) = Len(s2) + Len(script)
  BY <1>2, <1>6, ConcatProperties
<1> HIDE DEF s3
<1>8. Len(s3) \in 1 .. 9
  <2>1. Len(s3) = 1 + Len(subject) + 5 + Len(script)
    BY <1>1, <1>2, <1>3, <1>5, <1>6, <1>7
  <2> DEFINE a == Len(subject)
             b == Len(script)
  <2>2. a \in {0, 1, 2} /\ b \in {0, 1} /\ Len(s3) = 1 + a + 5 + b
    BY <1>2, <1>3, <2>1
  <2> HIDE DEF a, b
  <2> QED
    BY <2>2
<1>9. IsReview(s3 \o Tail5)
  BY <1>7, <1>8, TailMakesReview
<1>10. IsReview(ReviewSteps(t, settings))
  BY <1>4, <1>9 DEF s1, s2, s3
<1> QED
  BY <1>10 DEF FlowOf, IsRefusal

---------------------------------------------------------------------------
(* The order of the places.                                                *)

Lex(a1, a2, a3, a4, b1, b2, b3, b4) ==
    \/ a1 < b1
    \/ a1 = b1 /\ a2 < b2
    \/ a1 = b1 /\ a2 = b2 /\ a3 < b3
    \/ a1 = b1 /\ a2 = b2 /\ a3 = b3 /\ a4 < b4

\* The order of the places, written out.
LEMMA EarlierTuples ==
    ASSUME NEW a1 \in Int, NEW a2 \in Int, NEW a3 \in Int, NEW a4 \in Int,
           NEW b1 \in Int, NEW b2 \in Int, NEW b3 \in Int, NEW b4 \in Int
    PROVE  Earlier(<< a1, a2, a3, a4 >>, << b1, b2, b3, b4 >>) <=>
              Lex(a1, a2, a3, a4, b1, b2, b3, b4)
  BY DEF Earlier, Lex

C(s) == Of(s).allowed_contracts_size
G(s) == Of(s).allowed_groups_size

\* There is a signer, and what it allows is counted in natural numbers.
LEMMA SignersType ==
    ASSUME tx \in Transactions
    PROVE  /\ SignersSize \in Nat \ {0}
           /\ \A s \in 0 .. SignersSize - 1 : C(s) \in Nat /\ G(s) \in Nat
<1>1. PICK n \in 1 .. MaxSigners : tx.signers \in [1 .. n -> Signer]
  BY DEF Transactions
<1>2. SignersSize = n /\ n \in Nat \ {0}
  BY <1>1, BoundsAssumption DEF SignersSize
<1>3. ASSUME NEW s \in 0 .. n - 1
      PROVE  C(s) \in Nat /\ G(s) \in Nat
  <2>1. s + 1 \in 1 .. n
    BY <1>2
  <2>2. Of(s) \in Signer
    BY <1>1, <2>1 DEF Of
  <2>3. C(s) \in 0 .. MaxContracts /\ G(s) \in 0 .. MaxGroups
    BY <2>2 DEF C, G, Signer
  <2> QED
    BY <2>3, BoundsAssumption
<1> QED
  BY <1>2, <1>3

\* The properties of the signers, as numbers, and their order.
IsPlace(s, p, n) ==
    /\ s \in 0 .. SignersSize - 1
    /\ \/ p \in {1, 2, 3} /\ n = 0
       \/ p = 4 /\ n \in 0 .. C(s) - 1
       \/ p = 5 /\ n \in 0 .. G(s) - 1

Less(s, p, n, t, q, m) ==
    \/ s < t
    \/ s = t /\ p < q
    \/ s = t /\ p = q /\ n < m

Adjacent(s, p, n, t, q, m) ==
    /\ Less(s, p, n, t, q, m)
    /\ \A u, r, k \in Int :
          IsPlace(u, r, k) => ~(Less(s, p, n, u, r, k) /\ Less(u, r, k, t, q, m))

\* Where the indices are while a property is displayed, and which one that is.
OnItem(s, p, c, g) ==
    /\ s \in 0 .. SignersSize - 1
    /\ \/ p \in {1, 2, 3} /\ c = -1 /\ g = -1
       \/ p = 4 /\ c \in 0 .. C(s) - 1 /\ g = -1
       \/ p = 5 /\ c = C(s) /\ g \in 0 .. G(s) - 1

Number(p, c, g) == IF p = 4 THEN c ELSE IF p = 5 THEN g ELSE 0

Moves(s, p, c, g, t, q, d, h) ==
    /\ t \in Int /\ q \in Int /\ d \in Int /\ h \in Int
    /\ OnItem(t, q, d, h)
    /\ Adjacent(s, p, Number(p, c, g), t, q, Number(q, d, h))

EndOf(s) == At(s, END, C(s), G(s))

\* Behind the last property there is none.
IsLast(s, p, n) == \A u, r, k \in Int : IsPlace(u, r, k) => ~Less(s, p, n, u, r, k)

\* Where next_prop goes, written out for each property.
LEMMA NextPropIs ==
    ASSUME NEW s \in Int, NEW p \in Int, NEW c \in Int, NEW g \in Int
    PROVE  /\ p \in {0, 1, 2} => NextProp(At(s, p, c, g)) = At(s, p + 1, c, g)
           /\ p \in {3, 4} => NextProp(At(s, p, c, g)) =
                 IF c + 1 < C(s) THEN At(s, 4, c + 1, g)
                 ELSE IF g + 1 < G(s) THEN At(s, 5, c + 1, g + 1)
                 ELSE IF s + 1 = SignersSize THEN At(s, 6, c + 1, g + 1)
                 ELSE At(s + 1, 1, -1, -1)
           /\ p = 5 => NextProp(At(s, p, c, g)) =
                 IF g + 1 < G(s) THEN At(s, 5, c, g + 1)
                 ELSE IF s + 1 = SignersSize THEN At(s, 6, c, g + 1)
                 ELSE At(s + 1, 1, -1, -1)
<1>1. \A q, d, h \in Int :
         NextSigner(At(s, q, d, h)) =
            IF s + 1 = SignersSize THEN At(s, 6, d, h) ELSE At(s + 1, 1, -1, -1)
  BY DEF NextSigner, At, INDEX, END
<1>2. ASSUME NEW q \in Int, NEW d \in Int, NEW h \in Int
      PROVE  NextGroup(At(s, q, d, h)) =
                IF h + 1 < G(s) THEN At(s, 5, d, h + 1) ELSE NextSigner(At(s, q, d, h + 1))
  <2>1. /\ At(s, q, d, h).s = s /\ At(s, q, d, h).g = h
        /\ [At(s, q, d, h) EXCEPT !.g = h + 1] = At(s, q, d, h + 1)
    BY DEF At
  <2>3. [At(s, q, d, h) EXCEPT !.p = 5, !.g = h + 1] = At(s, 5, d, h + 1)
    <3>1. [At(s, q, d, h) EXCEPT !.p = 5] = At(s, 5, d, h)
      BY DEF At
    <3>2. [At(s, 5, d, h) EXCEPT !.g = h + 1] = At(s, 5, d, h + 1)
      BY DEF At
    <3> QED
      BY <3>1, <3>2, Zenon
  <2>2. NextGroup(At(s, q, d, h)) =
           IF At(s, q, d, h).g + 1 < Of(At(s, q, d, h).s).allowed_groups_size
           THEN [At(s, q, d, h) EXCEPT !.p = 5, !.g = At(s, q, d, h).g + 1]
           ELSE NextSigner([At(s, q, d, h) EXCEPT !.g = At(s, q, d, h).g + 1])
    BY Zenon DEF NextGroup, GROUPS
  <2> QED
    BY <2>1, <2>2, <2>3, Zenon DEF G
<1>3. ASSUME NEW q \in Int, NEW d \in Int, NEW h \in Int
      PROVE  NextContract(At(s, q, d, h)) =
                IF d + 1 < C(s) THEN At(s, 4, d + 1, h) ELSE NextGroup(At(s, q, d + 1, h))
  <2>1. /\ At(s, q, d, h).s = s /\ At(s, q, d, h).c = d
        /\ [At(s, q, d, h) EXCEPT !.c = d + 1] = At(s, q, d + 1, h)
    BY DEF At
  <2>3. [At(s, q, d, h) EXCEPT !.p = 4, !.c = d + 1] = At(s, 4, d + 1, h)
    <3>1. [At(s, q, d, h) EXCEPT !.p = 4] = At(s, 4, d, h)
      BY DEF At
    <3>2. [At(s, 4, d, h) EXCEPT !.c = d + 1] = At(s, 4, d + 1, h)
      BY DEF At
    <3> QED
      BY <3>1, <3>2, Zenon
  <2>2. NextContract(At(s, q, d, h)) =
           IF At(s, q, d, h).c + 1 < Of(At(s, q, d, h).s).allowed_contracts_size
           THEN [At(s, q, d, h) EXCEPT !.p = 4, !.c = At(s, q, d, h).c + 1]
           ELSE NextGroup([At(s, q, d, h) EXCEPT !.c = At(s, q, d, h).c + 1])
    BY Zenon DEF NextContract, CONTRACTS
  <2> QED
    BY <2>1, <2>2, <2>3, Zenon DEF C
<1>4. /\ p \in {0, 1, 2} => NextProp(At(s, p, c, g)) = At(s, p + 1, c, g)
      /\ p \in {3, 4} => NextProp(At(s, p, c, g)) = NextContract(At(s, p, c, g))
      /\ p = 5 => NextProp(At(s, p, c, g)) = NextGroup(At(s, p, c, g))
  BY DEF NextProp, At, SCOPE, CONTRACTS, GROUPS
<1>5. NextContract(At(s, p, c, g)) =
         IF c + 1 < C(s) THEN At(s, 4, c + 1, g) ELSE NextGroup(At(s, p, c + 1, g))
  BY <1>3
<1>6. NextGroup(At(s, p, c + 1, g)) =
         IF g + 1 < G(s) THEN At(s, 5, c + 1, g + 1) ELSE NextSigner(At(s, p, c + 1, g + 1))
  BY <1>2
<1>7. NextGroup(At(s, p, c, g)) =
         IF g + 1 < G(s) THEN At(s, 5, c, g + 1) ELSE NextSigner(At(s, p, c, g + 1))
  BY <1>2
<1>8. /\ NextSigner(At(s, p, c, g + 1)) =
            IF s + 1 = SignersSize THEN At(s, 6, c, g + 1) ELSE At(s + 1, 1, -1, -1)
      /\ NextSigner(At(s, p, c + 1, g + 1)) =
            IF s + 1 = SignersSize THEN At(s, 6, c + 1, g + 1) ELSE At(s + 1, 1, -1, -1)
  BY <1>1
<1> QED
  BY <1>4, <1>5, <1>6, <1>7, <1>8, Zenon

\* Each property is next to the one the signer has after it.
LEMMA AdjacentPlaces ==
    ASSUME tx \in Transactions, NEW s \in 0 .. SignersSize - 1
    PROVE  /\ Adjacent(s, 1, 0, s, 2, 0)
           /\ Adjacent(s, 2, 0, s, 3, 0)
           /\ C(s) > 0 => Adjacent(s, 3, 0, s, 4, 0)
           /\ \A c \in Int : Adjacent(s, 4, c, s, 4, c + 1)
           /\ C(s) = 0 /\ G(s) > 0 => Adjacent(s, 3, 0, s, 5, 0)
           /\ \A c \in Int : c + 1 = C(s) /\ G(s) > 0 => Adjacent(s, 4, c, s, 5, 0)
           /\ \A g \in Int : Adjacent(s, 5, g, s, 5, g + 1)
           /\ C(s) = 0 /\ G(s) = 0 => Adjacent(s, 3, 0, s + 1, 1, 0)
           /\ \A c \in Int : c + 1 = C(s) /\ G(s) = 0 => Adjacent(s, 4, c, s + 1, 1, 0)
           /\ \A g \in Int : g + 1 = G(s) => Adjacent(s, 5, g, s + 1, 1, 0)
<1>1. C(s) \in Nat /\ G(s) \in Nat /\ s \in Nat
  BY SignersType
<1> USE <1>1 DEF Adjacent, Less, IsPlace
<1>2. Adjacent(s, 1, 0, s, 2, 0)
  OBVIOUS
<1>3. Adjacent(s, 2, 0, s, 3, 0)
  OBVIOUS
<1>4. ASSUME C(s) > 0
      PROVE  Adjacent(s, 3, 0, s, 4, 0)
  BY <1>4
<1>5. ASSUME NEW c \in Int
      PROVE  Adjacent(s, 4, c, s, 4, c + 1)
  OBVIOUS
<1>6. ASSUME C(s) = 0, G(s) > 0
      PROVE  Adjacent(s, 3, 0, s, 5, 0)
  BY <1>6
<1>7. ASSUME NEW c \in Int, c + 1 = C(s), G(s) > 0
      PROVE  Adjacent(s, 4, c, s, 5, 0)
  BY <1>7
<1>8. ASSUME NEW g \in Int
      PROVE  Adjacent(s, 5, g, s, 5, g + 1)
  OBVIOUS
<1>9. ASSUME C(s) = 0, G(s) = 0
      PROVE  Adjacent(s, 3, 0, s + 1, 1, 0)
  BY <1>9
<1>10. ASSUME NEW c \in Int, c + 1 = C(s), G(s) = 0
       PROVE  Adjacent(s, 4, c, s + 1, 1, 0)
  BY <1>10
<1>11. ASSUME NEW g \in Int, g + 1 = G(s)
       PROVE  Adjacent(s, 5, g, s + 1, 1, 0)
  BY <1>11
<1> QED
  BY <1>2, <1>3, <1>4, <1>5, <1>6, <1>7, <1>8, <1>9, <1>10, <1>11

\* A step forward from a property: to the next one, or out behind the last.
StepsForward(s, p, c, g) ==
    \/ \E t, q, d, h \in Int :
          /\ NextProp(At(s, p, c, g)) = At(t, q, d, h)
          /\ Moves(s, p, c, g, t, q, d, h)
    \/ /\ s = SignersSize - 1
       /\ NextProp(At(s, p, c, g)) = EndOf(s)
       /\ IsLast(s, p, Number(p, c, g))

\* next_prop goes to the next property, or to the end from the last one.
LEMMA NextPropMoves ==
    ASSUME tx \in Transactions, NEW s \in Int, NEW p \in Int, NEW c \in Int, NEW g \in Int,
           OnItem(s, p, c, g)
    PROVE  StepsForward(s, p, c, g)
<1>1. /\ C(s) \in Nat /\ G(s) \in Nat /\ s \in Nat /\ s <= SignersSize - 1
      /\ SignersSize \in Nat /\ s \in 0 .. SignersSize - 1
  BY SignersType DEF OnItem
<1> DEFINE From == At(s, p, c, g)
           To(t, q, d, h) == /\ NextProp(From) = At(t, q, d, h)
                             /\ OnItem(t, q, d, h)
                             /\ Adjacent(s, p, Number(p, c, g), t, q, Number(q, d, h))
<1>2. ASSUME NEW t \in Int, NEW q \in Int, NEW d \in Int, NEW h \in Int, To(t, q, d, h)
      PROVE  StepsForward(s, p, c, g)
  BY <1>2 DEF Moves, StepsForward
<1>3. CASE p \in {1, 2}
  <2>1. NextProp(From) = At(s, p + 1, c, g)
    BY <1>3, NextPropIs
  <2>2. OnItem(s, p + 1, c, g)
    BY <1>3 DEF OnItem
  <2>3. Adjacent(s, p, Number(p, c, g), s, p + 1, Number(p + 1, c, g))
    BY <1>1, <1>3, AdjacentPlaces DEF Number
  <2>4. p + 1 \in Int
    OBVIOUS
  <2> QED
    BY <1>2, <2>1, <2>2, <2>3, <2>4
<1>4. CASE p \in {3, 4} /\ c + 1 < C(s)
  <2>1. NextProp(From) = At(s, 4, c + 1, g)
    BY <1>4, NextPropIs
  <2>2. OnItem(s, 4, c + 1, g)
    BY <1>1, <1>4 DEF OnItem
  <2>3. Adjacent(s, p, Number(p, c, g), s, 4, c + 1)
    BY <1>1, <1>4, AdjacentPlaces DEF OnItem, Number
  <2>4. Number(4, c + 1, g) = c + 1 /\ c + 1 \in Int
    BY DEF Number
  <2> QED
    BY <1>2, <2>1, <2>2, <2>3, <2>4
<1>5. CASE p \in {3, 4} /\ ~(c + 1 < C(s)) /\ g + 1 < G(s)
  <2>1. NextProp(From) = At(s, 5, c + 1, g + 1)
    BY <1>5, NextPropIs
  <2>2. OnItem(s, 5, c + 1, g + 1) /\ g + 1 = 0
    BY <1>1, <1>5 DEF OnItem
  <2>3. Adjacent(s, p, Number(p, c, g), s, 5, g + 1)
    BY <1>1, <1>5, <2>2, AdjacentPlaces DEF OnItem, Number
  <2>4. Number(5, c + 1, g + 1) = g + 1 /\ c + 1 \in Int /\ g + 1 \in Int
    BY DEF Number
  <2> QED
    BY <1>2, <2>1, <2>2, <2>3, <2>4
<1>6. CASE p = 5 /\ g + 1 < G(s)
  <2>1. NextProp(From) = At(s, 5, c, g + 1)
    BY <1>6, NextPropIs
  <2>2. OnItem(s, 5, c, g + 1)
    BY <1>1, <1>6 DEF OnItem
  <2>3. Adjacent(s, p, Number(p, c, g), s, 5, g + 1)
    BY <1>1, <1>6, AdjacentPlaces DEF OnItem, Number
  <2>4. Number(5, c, g + 1) = g + 1 /\ g + 1 \in Int
    BY DEF Number
  <2> QED
    BY <1>2, <2>1, <2>2, <2>3, <2>4
<1> DEFINE OutOf == \/ p \in {3, 4} /\ ~(c + 1 < C(s)) /\ ~(g + 1 < G(s))
                    \/ p = 5 /\ ~(g + 1 < G(s))
<1>7. CASE OutOf /\ s + 1 # SignersSize
  <2>1. NextProp(From) = At(s + 1, 1, -1, -1)
    <3>1. CASE p \in {3, 4}
      <4>1. ~(c + 1 < C(s)) /\ ~(g + 1 < G(s)) /\ ~(s + 1 = SignersSize)
        BY <1>7, <3>1
      <4> QED
        BY <3>1, <4>1, NextPropIs
    <3>2. CASE p = 5
      BY <1>7, <3>2, NextPropIs
    <3> QED
      BY <1>7, <3>1, <3>2
  <2>2. OnItem(s + 1, 1, -1, -1)
    BY <1>1, <1>7 DEF OnItem
  <2>3. Adjacent(s, p, Number(p, c, g), s + 1, 1, 0)
    BY <1>1, <1>7, AdjacentPlaces DEF OnItem, Number
  <2>4. Number(1, -1, -1) = 0 /\ s + 1 \in Int
    BY DEF Number
  <2> QED
    BY <1>2, <2>1, <2>2, <2>3, <2>4
<1>8. CASE OutOf /\ s + 1 = SignersSize
  <2>1. NextProp(From) = EndOf(s)
    <3>1. \/ NextProp(From) = At(s, 6, c + 1, g + 1) /\ p \in {3, 4}
          \/ NextProp(From) = At(s, 6, c, g + 1) /\ p = 5
      BY <1>8, NextPropIs
    <3>2. g + 1 = G(s) /\ (p \in {3, 4} => c + 1 = C(s)) /\ (p = 5 => c = C(s))
      BY <1>1, <1>8 DEF OnItem
    <3> QED
      BY <3>1, <3>2 DEF EndOf, END
  <2>2. IsLast(s, p, Number(p, c, g))
    BY <1>1, <1>8 DEF IsLast, IsPlace, Less, OnItem, Number
  <2> QED
    BY <1>1, <1>8, <2>1, <2>2 DEF StepsForward
<1> QED
  BY <1>1, <1>3, <1>4, <1>5, <1>6, <1>7, <1>8 DEF OnItem

\* Where prev_prop goes, written out for each property.
LEMMA PrevPropIs ==
    ASSUME NEW s \in Int, NEW p \in Int, NEW c \in Int, NEW g \in Int
    PROVE  /\ p = 1 /\ s = 0 => PrevProp(At(s, p, c, g)) = At(s, 0, c, g)
           /\ p = 1 /\ s > 0 => PrevProp(At(s, p, c, g)) = LastOf(s - 1)
           /\ p \in {2, 3} => PrevProp(At(s, p, c, g)) = At(s, p - 1, c, g)
           /\ p = 4 => PrevProp(At(s, p, c, g)) =
                 IF c > 0 THEN At(s, 4, c - 1, g) ELSE At(s, 3, c - 1, g)
           /\ p \in {5, 6} => PrevProp(At(s, p, c, g)) =
                 IF g > 0 THEN At(s, 5, c, g - 1)
                 ELSE IF c > 0 THEN At(s, 4, c - 1, g - 1)
                 ELSE At(s, 3, c - 1, g - 1)
<1>1. ASSUME NEW q \in Int, NEW d \in Int, NEW h \in Int
      PROVE  PrevContract(At(s, q, d, h)) =
                IF d > 0 THEN At(s, 4, d - 1, h) ELSE At(s, 3, d - 1, h)
  <2>1. /\ At(s, q, d, h).c = d
        /\ [At(s, q, d, h) EXCEPT !.p = 4] = At(s, 4, d, h)
        /\ [At(s, q, d, h) EXCEPT !.p = 3] = At(s, 3, d, h)
        /\ [At(s, 4, d, h) EXCEPT !.c = d - 1] = At(s, 4, d - 1, h)
        /\ [At(s, 3, d, h) EXCEPT !.c = d - 1] = At(s, 3, d - 1, h)
    BY DEF At
  <2>2. PrevContract(At(s, q, d, h)) =
           IF At(s, q, d, h).c > 0
           THEN [At(s, q, d, h) EXCEPT !.p = 4, !.c = At(s, q, d, h).c - 1]
           ELSE [At(s, q, d, h) EXCEPT !.p = 3, !.c = At(s, q, d, h).c - 1]
    BY Zenon DEF PrevContract, SCOPE, CONTRACTS
  <2> QED
    BY <2>1, <2>2, Zenon
<1>2. ASSUME NEW q \in Int, NEW d \in Int, NEW h \in Int
      PROVE  PrevGroup(At(s, q, d, h)) =
                IF h > 0 THEN At(s, 5, d, h - 1) ELSE PrevContract(At(s, q, d, h - 1))
  <2>1. /\ At(s, q, d, h).g = h
        /\ [At(s, q, d, h) EXCEPT !.g = h - 1] = At(s, q, d, h - 1)
        /\ [At(s, q, d, h) EXCEPT !.p = 5] = At(s, 5, d, h)
        /\ [At(s, 5, d, h) EXCEPT !.g = h - 1] = At(s, 5, d, h - 1)
    BY DEF At
  <2>2. PrevGroup(At(s, q, d, h)) =
           IF At(s, q, d, h).g > 0
           THEN [At(s, q, d, h) EXCEPT !.p = 5, !.g = At(s, q, d, h).g - 1]
           ELSE PrevContract([At(s, q, d, h) EXCEPT !.g = At(s, q, d, h).g - 1])
    BY Zenon DEF PrevGroup, GROUPS
  <2> QED
    BY <2>1, <2>2, Zenon
<1>3. /\ p = 1 /\ s = 0 => PrevProp(At(s, p, c, g)) = At(s, 0, c, g)
      /\ p = 1 /\ s > 0 => PrevProp(At(s, p, c, g)) = LastOf(s - 1)
      /\ p \in {2, 3} => PrevProp(At(s, p, c, g)) = At(s, p - 1, c, g)
      /\ p = 4 => PrevProp(At(s, p, c, g)) = PrevContract(At(s, p, c, g))
      /\ p \in {5, 6} => PrevProp(At(s, p, c, g)) = PrevGroup(At(s, p, c, g))
  BY DEF PrevProp, At, START, INDEX, ACCOUNT, SCOPE, CONTRACTS, GROUPS, END
<1>4. PrevContract(At(s, p, c, g)) =
         IF c > 0 THEN At(s, 4, c - 1, g) ELSE At(s, 3, c - 1, g)
  BY <1>1
<1>5. PrevContract(At(s, p, c, g - 1)) =
         IF c > 0 THEN At(s, 4, c - 1, g - 1) ELSE At(s, 3, c - 1, g - 1)
  BY <1>1
<1>6. PrevGroup(At(s, p, c, g)) =
         IF g > 0 THEN At(s, 5, c, g - 1) ELSE PrevContract(At(s, p, c, g - 1))
  BY <1>2
<1> QED
  BY <1>3, <1>4, <1>5, <1>6, Zenon

\* The step back into the signers from behind signer s.
EntersBack(s, t, q, d, h) ==
    /\ t = s /\ q \in Int /\ d \in Int /\ h \in Int
    /\ OnItem(t, q, d, h)
    /\ Adjacent(t, q, Number(q, d, h), s + 1, 1, 0)

\* From behind signer s, prev_prop comes to the signer's last property.
LEMMA LastOfMoves ==
    ASSUME tx \in Transactions, NEW s \in 0 .. SignersSize - 1
    PROVE  /\ LastOf(s) = PrevProp(EndOf(s))
           /\ \E q, d, h \in Int : LastOf(s) = At(s, q, d, h) /\ EntersBack(s, s, q, d, h)
<1>1. C(s) \in Nat /\ G(s) \in Nat /\ s \in Nat /\ s \in Int
  BY SignersType
<1> DEFINE back == PrevProp(EndOf(s))
<1>2. /\ back = PrevProp(At(s, 6, C(s), G(s)))
      /\ 6 \in Int /\ C(s) \in Int /\ G(s) \in Int
  BY <1>1 DEF EndOf, END
<1>3. LastOf(s) = back
  <2>1. EndOf(s).p = 6 /\ LastOf(s) = PrevGroup(EndOf(s))
    BY DEF EndOf, END, At, LastOf, C, G
  <2>2. PrevProp(EndOf(s)) = PrevGroup(EndOf(s))
    BY <2>1 DEF PrevProp, START, INDEX, ACCOUNT, SCOPE, CONTRACTS, GROUPS, END
  <2> QED
    BY <2>1, <2>2
<1> HIDE DEF back
<1>4. CASE G(s) > 0
  <2>1. back = At(s, 5, C(s), G(s) - 1)
    BY <1>1, <1>2, <1>4, PrevPropIs, SMTT(20)
  <2>2. EntersBack(s, s, 5, C(s), G(s) - 1)
    BY <1>1, <1>4, AdjacentPlaces DEF EntersBack, OnItem, Number
  <2>3. G(s) - 1 \in Int /\ C(s) \in Int
    BY <1>1
  <2> QED
    BY <1>3, <2>1, <2>2, <2>3 DEF back
<1>5. CASE G(s) = 0 /\ C(s) > 0
  <2>1. back = At(s, 4, C(s) - 1, -1)
    BY <1>1, <1>2, <1>5, PrevPropIs
  <2>2. EntersBack(s, s, 4, C(s) - 1, -1)
    BY <1>1, <1>5, AdjacentPlaces DEF EntersBack, OnItem, Number
  <2>3. C(s) - 1 \in Int
    BY <1>1
  <2> QED
    BY <1>3, <2>1, <2>2, <2>3 DEF back
<1>6. CASE G(s) = 0 /\ C(s) = 0
  <2>1. back = At(s, 3, -1, -1)
    BY <1>1, <1>2, <1>6, PrevPropIs
  <2>2. EntersBack(s, s, 3, -1, -1)
    BY <1>1, <1>6, AdjacentPlaces DEF EntersBack, OnItem, Number
  <2> QED
    BY <1>3, <2>1, <2>2 DEF back
<1> QED
  BY <1>1, <1>4, <1>5, <1>6

\* A step back from a property: to the one before, or out in front of the first.
StepsBack(s, p, c, g) ==
    \/ \E t, q, d, h \in Int :
          /\ PrevProp(At(s, p, c, g)) = At(t, q, d, h)
          /\ OnItem(t, q, d, h)
          /\ Adjacent(t, q, Number(q, d, h), s, p, Number(p, c, g))
    \/ s = 0 /\ p = 1 /\ PrevProp(At(s, p, c, g)) = At(0, START, -1, -1)

\* prev_prop goes to the property before, or to the start from the first one.
LEMMA PrevPropMoves ==
    ASSUME tx \in Transactions, NEW s \in Int, NEW p \in Int, NEW c \in Int, NEW g \in Int,
           OnItem(s, p, c, g)
    PROVE  StepsBack(s, p, c, g)
<1>1. /\ C(s) \in Nat /\ G(s) \in Nat /\ s \in Nat /\ s <= SignersSize - 1
      /\ SignersSize \in Nat /\ s \in 0 .. SignersSize - 1
  BY SignersType DEF OnItem
<1> DEFINE From == At(s, p, c, g)
           To(t, q, d, h) == /\ PrevProp(From) = At(t, q, d, h)
                             /\ OnItem(t, q, d, h)
                             /\ Adjacent(t, q, Number(q, d, h), s, p, Number(p, c, g))
<1>2. ASSUME NEW t \in Int, NEW q \in Int, NEW d \in Int, NEW h \in Int, To(t, q, d, h)
      PROVE  StepsBack(s, p, c, g)
  BY <1>2 DEF StepsBack
<1>3. CASE p = 1 /\ s = 0
  <2>1. c = -1 /\ g = -1
    BY <1>3 DEF OnItem
  <2> QED
    BY <1>3, <2>1, PrevPropIs DEF StepsBack, START
<1>4. CASE p = 1 /\ s > 0
  <2>1. s - 1 \in 0 .. SignersSize - 1 /\ s - 1 \in Int /\ (s - 1) + 1 = s
    BY <1>1, <1>4
  <2>2. PICK q \in Int, d \in Int, h \in Int :
           LastOf(s - 1) = At(s - 1, q, d, h) /\ EntersBack(s - 1, s - 1, q, d, h)
    BY <2>1, LastOfMoves
  <2>3. Adjacent(s - 1, q, Number(q, d, h), s, 1, 0) /\ OnItem(s - 1, q, d, h)
    BY <2>1, <2>2 DEF EntersBack
  <2>4. PrevProp(From) = At(s - 1, q, d, h)
    BY <1>4, <2>2, PrevPropIs
  <2>5. Number(p, c, g) = 0
    BY <1>4 DEF Number
  <2> QED
    BY <1>2, <1>4, <2>1, <2>3, <2>4, <2>5
<1>5. CASE p \in {2, 3}
  <2>1. PrevProp(From) = At(s, p - 1, c, g)
    BY <1>5, PrevPropIs
  <2>2. OnItem(s, p - 1, c, g)
    BY <1>5 DEF OnItem
  <2>3. Adjacent(s, p - 1, Number(p - 1, c, g), s, p, Number(p, c, g))
    BY <1>1, <1>5, AdjacentPlaces DEF Number
  <2>4. p - 1 \in Int
    OBVIOUS
  <2> QED
    BY <1>2, <2>1, <2>2, <2>3, <2>4
<1>6. CASE p = 4 /\ c > 0
  <2>1. PrevProp(From) = At(s, 4, c - 1, g)
    BY <1>6, PrevPropIs
  <2>2. OnItem(s, 4, c - 1, g)
    BY <1>1, <1>6 DEF OnItem
  <2>3. Adjacent(s, 4, c - 1, s, 4, (c - 1) + 1)
    BY <1>1, AdjacentPlaces
  <2>4. /\ Number(4, c - 1, g) = c - 1 /\ c - 1 \in Int
        /\ Number(p, c, g) = (c - 1) + 1
    BY <1>6 DEF Number
  <2> QED
    BY <1>2, <1>6, <2>1, <2>2, <2>3, <2>4
<1>7. CASE p = 4 /\ ~(c > 0)
  <2>1. PrevProp(From) = At(s, 3, c - 1, g)
    BY <1>7, PrevPropIs
  <2>2. OnItem(s, 3, c - 1, g) /\ c = 0 /\ C(s) > 0
    BY <1>1, <1>7 DEF OnItem
  <2>3. Adjacent(s, 3, 0, s, 4, 0)
    BY <1>1, <2>2, AdjacentPlaces
  <2>4. Number(3, c - 1, g) = 0 /\ c - 1 \in Int /\ Number(p, c, g) = 0
    BY <1>7, <2>2 DEF Number
  <2> QED
    BY <1>2, <1>7, <2>1, <2>2, <2>3, <2>4
<1>8. CASE p = 5 /\ g > 0
  <2>1. PrevProp(From) = At(s, 5, c, g - 1)
    BY <1>8, PrevPropIs
  <2>2. OnItem(s, 5, c, g - 1)
    BY <1>1, <1>8 DEF OnItem
  <2>3. Adjacent(s, 5, g - 1, s, 5, (g - 1) + 1)
    BY <1>1, AdjacentPlaces
  <2>4. /\ Number(5, c, g - 1) = g - 1 /\ g - 1 \in Int
        /\ Number(p, c, g) = (g - 1) + 1
    BY <1>8 DEF Number
  <2> QED
    BY <1>2, <1>8, <2>1, <2>2, <2>3, <2>4
<1>9. CASE p = 5 /\ ~(g > 0) /\ c > 0
  <2>1. PrevProp(From) = At(s, 4, c - 1, g - 1)
    BY <1>9, PrevPropIs
  <2>2. OnItem(s, 4, c - 1, g - 1) /\ g = 0 /\ (c - 1) + 1 = C(s) /\ G(s) > 0
    BY <1>1, <1>9 DEF OnItem
  <2>3. Adjacent(s, 4, c - 1, s, 5, 0)
    BY <1>1, <2>2, AdjacentPlaces
  <2>4. /\ Number(4, c - 1, g - 1) = c - 1 /\ c - 1 \in Int /\ g - 1 \in Int
        /\ Number(p, c, g) = 0
    BY <1>9, <2>2 DEF Number
  <2> QED
    BY <1>2, <1>9, <2>1, <2>2, <2>3, <2>4
<1>10. CASE p = 5 /\ ~(g > 0) /\ ~(c > 0)
  <2>1. PrevProp(From) = At(s, 3, c - 1, g - 1)
    BY <1>10, PrevPropIs
  <2>2. OnItem(s, 3, c - 1, g - 1) /\ g = 0 /\ C(s) = 0 /\ G(s) > 0
    BY <1>1, <1>10 DEF OnItem
  <2>3. Adjacent(s, 3, 0, s, 5, 0)
    BY <1>1, <2>2, AdjacentPlaces
  <2>4. /\ Number(3, c - 1, g - 1) = 0 /\ c - 1 \in Int /\ g - 1 \in Int
        /\ Number(p, c, g) = 0
    BY <1>10, <2>2 DEF Number
  <2> QED
    BY <1>2, <1>10, <2>1, <2>2, <2>3, <2>4
<1> QED
  BY <1>1, <1>3, <1>4, <1>5, <1>6, <1>7, <1>8, <1>9, <1>10 DEF OnItem

---------------------------------------------------------------------------
(* What there is to look at.                                               *)

\* The number of steps in front of the signers.
Front == Len(flow) - 5

\* The steps of a review by their numbers.
LEMMA ReviewLayout ==
    IsReview(flow) =>
        /\ Front \in 1 .. 9 /\ Len(flow) = Front + 5 /\ DOMAIN flow = 1 .. Front + 5
        /\ \A i \in 1 .. Front : flow[i] \notin Reserved
        /\ flow[Front + 1] = "upper_delimiter"
        /\ flow[Front + 2] = "generic"
        /\ flow[Front + 3] = "lower_delimiter"
        /\ flow[Front + 4] = "approve"
        /\ flow[Front + 5] = "reject"
<1> SUFFICES ASSUME IsReview(flow)
             PROVE  /\ Front \in 1 .. 9 /\ Len(flow) = Front + 5 /\ DOMAIN flow = 1 .. Front + 5
                    /\ \A i \in 1 .. Front : flow[i] \notin Reserved
                    /\ flow[Front + 1] = "upper_delimiter"
                    /\ flow[Front + 2] = "generic"
                    /\ flow[Front + 3] = "lower_delimiter"
                    /\ flow[Front + 4] = "approve"
                    /\ flow[Front + 5] = "reject"
  OBVIOUS
<1>1. Len(flow) \in 6 .. 14 /\ flow \in Seq(Names)
  BY DEF IsReview, MAX_NUM_STEPS
<1>2. Front \in 1 .. 9 /\ Len(flow) = Front + 5 /\ DOMAIN flow = 1 .. Front + 5
  BY <1>1 DEF Front
<1>3. /\ Front + 1 = Len(flow) - 4 /\ Front + 2 = Len(flow) - 3 /\ Front + 3 = Len(flow) - 2
      /\ Front + 4 = Len(flow) - 1 /\ Front + 5 = Len(flow)
  BY <1>1 DEF Front
<1>4. \A i \in 1 .. Front : flow[i] \notin Reserved
  BY DEF IsReview, Front
<1> QED
  BY <1>2, <1>3, <1>4 DEF IsReview

\* In front of the lower delimiter and behind it.
LEMMA StaticPlaceIs ==
    IsReview(flow) =>
        /\ \A i \in 1 .. Front : StaticPlace(i) = << 1, i, 0, 0 >>
        /\ \A i \in {Front + 4, Front + 5} : StaticPlace(i) = << 3, i, 0, 0 >>
<1> SUFFICES ASSUME IsReview(flow)
             PROVE  /\ \A i \in 1 .. Front : StaticPlace(i) = << 1, i, 0, 0 >>
                    /\ \A i \in {Front + 4, Front + 5} : StaticPlace(i) = << 3, i, 0, 0 >>
  OBVIOUS
<1>1. Front \in 1 .. 9 /\ \A i \in 1 .. Front : flow[i] # "lower_delimiter"
  BY ReviewLayout DEF Reserved, Hidden
<1>2. flow[Front + 3] = "lower_delimiter"
  BY ReviewLayout
<1>3. ASSUME NEW i \in 1 .. Front
      PROVE  StaticPlace(i) = << 1, i, 0, 0 >>
  <2>1. ~ \E j \in 1 .. i : flow[j] = "lower_delimiter"
    BY <1>1
  <2> QED
    BY <2>1 DEF StaticPlace
<1>4. ASSUME NEW i \in {Front + 4, Front + 5}
      PROVE  StaticPlace(i) = << 3, i, 0, 0 >>
  <2>1. \E j \in 1 .. i : flow[j] = "lower_delimiter"
    <3>1. Front + 3 \in 1 .. i
      BY <1>1
    <3> QED
      BY <1>2, <3>1
  <2> QED
    BY <2>1 DEF StaticPlace
<1> QED
  BY <1>3, <1>4

\* The places among the signers are their properties.
LEMMA SignerPlacesAre ==
    tx \in Transactions =>
        \A x : x \in SignerPlaces <=>
                  \E s, p, k \in Int : IsPlace(s, p, k) /\ x = << 2, s, p, k >>
<1> SUFFICES ASSUME tx \in Transactions, NEW x
             PROVE  x \in SignerPlaces <=>
                       \E s, p, k \in Int : IsPlace(s, p, k) /\ x = << 2, s, p, k >>
  OBVIOUS
<1> DEFINE Indices == 0 .. SignersSize - 1
           Fixed(s) == {<< 2, s, p, 0 >> : p \in {INDEX, ACCOUNT, SCOPE}}
           OfContracts(s) == {<< 2, s, CONTRACTS, n >> : n \in 0 .. C(s) - 1}
           OfGroups(s) == {<< 2, s, GROUPS, n >> : n \in 0 .. G(s) - 1}
<1>1. x \in SignerPlaces <=>
         \E s \in Indices : x \in Fixed(s) \/ x \in OfContracts(s) \/ x \in OfGroups(s)
  <2>1. SignerPlaces = UNION {Fixed(s) \cup OfContracts(s) \cup OfGroups(s) : s \in Indices}
    BY Zenon DEF SignerPlaces, C, G
  <2> HIDE DEF Fixed, OfContracts, OfGroups
  <2> QED
    BY <2>1
<1>2. \A s \in Indices : x \in Fixed(s) <=> \E p \in {1, 2, 3} : x = << 2, s, p, 0 >>
  BY DEF INDEX, ACCOUNT, SCOPE
<1>3. \A s \in Indices : x \in OfContracts(s) <=> \E n \in 0 .. C(s) - 1 : x = << 2, s, 4, n >>
  BY DEF CONTRACTS
<1>4. \A s \in Indices : x \in OfGroups(s) <=> \E n \in 0 .. G(s) - 1 : x = << 2, s, 5, n >>
  BY DEF GROUPS
<1>5. SignersSize \in Nat /\ \A s \in Indices : s \in Int /\ C(s) \in Nat /\ G(s) \in Nat
  BY SignersType
<1> HIDE DEF Fixed, OfContracts, OfGroups
<1>6. ASSUME x \in SignerPlaces
      PROVE  \E s, p, k \in Int : IsPlace(s, p, k) /\ x = << 2, s, p, k >>
  <2>1. ASSUME NEW s \in Indices, x \in Fixed(s)
        PROVE  \E t, p, k \in Int : IsPlace(t, p, k) /\ x = << 2, t, p, k >>
    <3>1. PICK p \in {1, 2, 3} : x = << 2, s, p, 0 >>
      BY <1>2, <2>1
    <3>2. IsPlace(s, p, 0) /\ s \in Int /\ p \in Int /\ 0 \in Int
      BY <1>5 DEF IsPlace
    <3> QED
      BY <3>1, <3>2
  <2>2. ASSUME NEW s \in Indices, x \in OfContracts(s)
        PROVE  \E t, p, k \in Int : IsPlace(t, p, k) /\ x = << 2, t, p, k >>
    <3>1. PICK n \in 0 .. C(s) - 1 : x = << 2, s, 4, n >>
      BY <1>3, <2>2
    <3>2. IsPlace(s, 4, n) /\ s \in Int /\ 4 \in Int /\ n \in Int
      BY <1>5 DEF IsPlace
    <3> QED
      BY <3>1, <3>2
  <2>3. ASSUME NEW s \in Indices, x \in OfGroups(s)
        PROVE  \E t, p, k \in Int : IsPlace(t, p, k) /\ x = << 2, t, p, k >>
    <3>1. PICK n \in 0 .. G(s) - 1 : x = << 2, s, 5, n >>
      BY <1>4, <2>3
    <3>2. IsPlace(s, 5, n) /\ s \in Int /\ 5 \in Int /\ n \in Int
      BY <1>5 DEF IsPlace
    <3> QED
      BY <3>1, <3>2
  <2> QED
    BY <1>1, <1>6, <2>1, <2>2, <2>3
<1>7. ASSUME NEW s \in Int, NEW p \in Int, NEW k \in Int, IsPlace(s, p, k), x = << 2, s, p, k >>
      PROVE  x \in SignerPlaces
  <2>1. CASE p \in {1, 2, 3} /\ k = 0
    BY <1>1, <1>2, <1>7, <2>1 DEF IsPlace
  <2>2. CASE p = 4 /\ k \in 0 .. C(s) - 1
    BY <1>1, <1>3, <1>7, <2>2 DEF IsPlace
  <2>3. CASE p = 5 /\ k \in 0 .. G(s) - 1
    BY <1>1, <1>4, <1>7, <2>3 DEF IsPlace
  <2> QED
    BY <1>7, <2>1, <2>2, <2>3 DEF IsPlace
<1> QED
  BY <1>6, <1>7

\* The places of a review: in front of the signers, among them, behind them.
OnList(x) ==
    \/ \E i \in 1 .. Front : x = << 1, i, 0, 0 >>
    \/ \E s, p, k \in Int : IsPlace(s, p, k) /\ x = << 2, s, p, k >>
    \/ \E i \in {Front + 4, Front + 5} : x = << 3, i, 0, 0 >>

\* The places of a review, one by one.
LEMMA PlacesOfReview ==
    (IsReview(flow) /\ tx \in Transactions /\ step > 0) => \A x : x \in Places <=> OnList(x)
<1> SUFFICES ASSUME IsReview(flow), tx \in Transactions, step > 0, NEW x
             PROVE  x \in Places <=> OnList(x)
  OBVIOUS
<1> DEFINE shown == {j \in DOMAIN flow : flow[j] \notin Hidden}
           static == {StaticPlace(i) : i \in shown}
<1>1. \E j \in DOMAIN flow : flow[j] = "generic"
  <2>1. Front + 2 \in DOMAIN flow /\ flow[Front + 2] = "generic"
    BY ReviewLayout
  <2> QED
    BY <2>1
<1>2. Places = static \cup SignerPlaces
  <2>1. step # 0
    OBVIOUS
  <2> QED
    BY <1>1, <2>1, Zenon DEF Places
<1>3. ASSUME NEW j
      PROVE  j \in shown <=> (j \in 1 .. Front \/ j \in {Front + 4, Front + 5})
  <2>1. Front \in 1 .. 9 /\ DOMAIN flow = 1 .. Front + 5
    BY ReviewLayout
  <2>2. ASSUME j \in shown
        PROVE  j \in 1 .. Front \/ j \in {Front + 4, Front + 5}
    <3>1. j \in 1 .. Front + 5 /\ flow[j] \notin Hidden
      BY <2>1, <2>2
    <3>2. j # Front + 1 /\ j # Front + 2 /\ j # Front + 3
      BY <3>1, ReviewLayout DEF Hidden
    <3> QED
      BY <2>1, <3>1, <3>2
  <2>3. ASSUME j \in 1 .. Front
        PROVE  j \in shown
    <3>1. flow[j] \notin Hidden
      BY <2>3, ReviewLayout DEF Reserved
    <3> QED
      BY <2>1, <2>3, <3>1
  <2>4. Front + 4 \in shown /\ Front + 5 \in shown
    <3>1. flow[Front + 4] \notin Hidden /\ flow[Front + 5] \notin Hidden
      BY ReviewLayout DEF Hidden
    <3> QED
      BY <2>1, <3>1
  <2> QED
    BY <2>2, <2>3, <2>4
<1>4. x \in static <=> \E i \in shown : x = StaticPlace(i)
  OBVIOUS
<1> HIDE DEF shown, static
<1>5. x \in static <=> \/ \E i \in 1 .. Front : x = << 1, i, 0, 0 >>
                       \/ \E i \in {Front + 4, Front + 5} : x = << 3, i, 0, 0 >>
  BY <1>3, <1>4, StaticPlaceIs
<1>6. x \in SignerPlaces <=> \E s, p, k \in Int : IsPlace(s, p, k) /\ x = << 2, s, p, k >>
  BY SignerPlacesAre
<1> QED
  BY <1>2, <1>5, <1>6 DEF OnList

\* No place lies between the two.
Neighbouring(x, y) ==
    /\ Earlier(x, y)
    /\ \A r : OnList(r) => ~(Earlier(x, r) /\ Earlier(r, y))

NoneBetween(a1, a2, a3, a4, b1, b2, b3, b4) ==
    /\ \A i \in 1 .. Front :
          ~(Lex(a1, a2, a3, a4, 1, i, 0, 0) /\ Lex(1, i, 0, 0, b1, b2, b3, b4))
    /\ \A s, p, k \in Int : IsPlace(s, p, k) =>
          ~(Lex(a1, a2, a3, a4, 2, s, p, k) /\ Lex(2, s, p, k, b1, b2, b3, b4))
    /\ \A i \in {Front + 4, Front + 5} :
          ~(Lex(a1, a2, a3, a4, 3, i, 0, 0) /\ Lex(3, i, 0, 0, b1, b2, b3, b4))

\* To be next to each other, it is enough that no kind of place lies between.
LEMMA NeighbouringByCases ==
    ASSUME IsReview(flow),
           NEW a1 \in Int, NEW a2 \in Int, NEW a3 \in Int, NEW a4 \in Int,
           NEW b1 \in Int, NEW b2 \in Int, NEW b3 \in Int, NEW b4 \in Int,
           Lex(a1, a2, a3, a4, b1, b2, b3, b4),
           NoneBetween(a1, a2, a3, a4, b1, b2, b3, b4)
    PROVE  Neighbouring(<< a1, a2, a3, a4 >>, << b1, b2, b3, b4 >>)
<1> DEFINE x == << a1, a2, a3, a4 >>
           y == << b1, b2, b3, b4 >>
<1>1. Earlier(x, y)
  BY EarlierTuples
<1>2. ASSUME NEW r1 \in Int, NEW r2 \in Int, NEW r3 \in Int, NEW r4 \in Int,
             Earlier(x, << r1, r2, r3, r4 >>), Earlier(<< r1, r2, r3, r4 >>, y)
      PROVE  Lex(a1, a2, a3, a4, r1, r2, r3, r4) /\ Lex(r1, r2, r3, r4, b1, b2, b3, b4)
  BY <1>2, EarlierTuples
<1>3. Front \in Int
  BY ReviewLayout
<1> HIDE DEF x, y
<1>4. ASSUME NEW r, OnList(r), Earlier(x, r), Earlier(r, y)
      PROVE  FALSE
  <2>1. ASSUME NEW i \in 1 .. Front, r = << 1, i, 0, 0 >>
        PROVE  FALSE
    BY <1>2, <1>3, <1>4, <2>1 DEF NoneBetween
  <2>2. ASSUME NEW s \in Int, NEW p \in Int, NEW k \in Int, IsPlace(s, p, k),
               r = << 2, s, p, k >>
        PROVE  FALSE
    <3>1. Lex(a1, a2, a3, a4, 2, s, p, k) /\ Lex(2, s, p, k, b1, b2, b3, b4)
      BY <1>2, <1>4, <2>2
    <3> QED
      BY <2>2, <3>1 DEF NoneBetween
  <2>3. ASSUME NEW i \in {Front + 4, Front + 5}, r = << 3, i, 0, 0 >>
        PROVE  FALSE
    BY <1>2, <1>3, <1>4, <2>3 DEF NoneBetween
  <2> QED
    BY <1>4, <2>1, <2>2, <2>3 DEF OnList
<1>5. Neighbouring(x, y)
  BY <1>1, <1>4 DEF Neighbouring
<1> QED
  BY <1>5 DEF x, y

\* Neighbours in front of the signers and behind them.
LEMMA NeighboursOutside ==
    ASSUME IsReview(flow), tx \in Transactions
    PROVE  /\ \A i \in 1 .. Front - 1 : Neighbouring(<< 1, i, 0, 0 >>, << 1, i + 1, 0, 0 >>)
           /\ Neighbouring(<< 1, Front, 0, 0 >>, << 2, 0, 1, 0 >>)
           /\ Neighbouring(<< 3, Front + 4, 0, 0 >>, << 3, Front + 5, 0, 0 >>)
<1>1. Front \in Int /\ Front + 4 \in Int /\ Front + 5 \in Int
  BY ReviewLayout
<1>2. ASSUME NEW i \in 1 .. Front - 1
      PROVE  Neighbouring(<< 1, i, 0, 0 >>, << 1, i + 1, 0, 0 >>)
  <2>1. i \in Int /\ i + 1 \in Int
    OBVIOUS
  <2>2. Lex(1, i, 0, 0, 1, i + 1, 0, 0)
    BY DEF Lex
  <2>3. \A j \in 1 .. Front : ~(Lex(1, i, 0, 0, 1, j, 0, 0) /\ Lex(1, j, 0, 0, 1, i + 1, 0, 0))
    BY <1>1 DEF Lex
  <2>4. \A s, p, k \in Int : IsPlace(s, p, k) =>
           ~(Lex(1, i, 0, 0, 2, s, p, k) /\ Lex(2, s, p, k, 1, i + 1, 0, 0))
    BY DEF Lex
  <2>5. \A j \in {Front + 4, Front + 5} :
           ~(Lex(1, i, 0, 0, 3, j, 0, 0) /\ Lex(3, j, 0, 0, 1, i + 1, 0, 0))
    BY DEF Lex
  <2>6. NoneBetween(1, i, 0, 0, 1, i + 1, 0, 0)
    BY <2>3, <2>4, <2>5 DEF NoneBetween
  <2> QED
    BY <2>1, <2>2, <2>6, NeighbouringByCases
<1>3. Neighbouring(<< 1, Front, 0, 0 >>, << 2, 0, 1, 0 >>)
  <2>1. Lex(1, Front, 0, 0, 2, 0, 1, 0)
    BY DEF Lex
  <2>2. \A j \in 1 .. Front : ~(Lex(1, Front, 0, 0, 1, j, 0, 0) /\ Lex(1, j, 0, 0, 2, 0, 1, 0))
    BY <1>1 DEF Lex
  <2>3. \A s, p, k \in Int : IsPlace(s, p, k) =>
           ~(Lex(1, Front, 0, 0, 2, s, p, k) /\ Lex(2, s, p, k, 2, 0, 1, 0))
    BY SignersType DEF Lex, IsPlace
  <2>4. \A j \in {Front + 4, Front + 5} :
           ~(Lex(1, Front, 0, 0, 3, j, 0, 0) /\ Lex(3, j, 0, 0, 2, 0, 1, 0))
    BY DEF Lex
  <2>6. NoneBetween(1, Front, 0, 0, 2, 0, 1, 0)
    BY <2>2, <2>3, <2>4 DEF NoneBetween
  <2> QED
    BY <1>1, <2>1, <2>6, NeighbouringByCases
<1>4. Neighbouring(<< 3, Front + 4, 0, 0 >>, << 3, Front + 5, 0, 0 >>)
  <2>1. Lex(3, Front + 4, 0, 0, 3, Front + 5, 0, 0)
    BY <1>1 DEF Lex
  <2>2. \A j \in 1 .. Front :
           ~(Lex(3, Front + 4, 0, 0, 1, j, 0, 0) /\ Lex(1, j, 0, 0, 3, Front + 5, 0, 0))
    BY DEF Lex
  <2>3. \A s, p, k \in Int : IsPlace(s, p, k) =>
           ~(Lex(3, Front + 4, 0, 0, 2, s, p, k) /\ Lex(2, s, p, k, 3, Front + 5, 0, 0))
    BY DEF Lex
  <2>4. \A j \in {Front + 4, Front + 5} :
           ~(Lex(3, Front + 4, 0, 0, 3, j, 0, 0) /\ Lex(3, j, 0, 0, 3, Front + 5, 0, 0))
    BY <1>1 DEF Lex
  <2>6. NoneBetween(3, Front + 4, 0, 0, 3, Front + 5, 0, 0)
    BY <2>2, <2>3, <2>4 DEF NoneBetween
  <2> QED
    BY <1>1, <2>1, <2>6, NeighbouringByCases
<1> QED
  BY <1>2, <1>3, <1>4

\* Neighbours among the properties of the signers.
LEMMA NeighboursAmong ==
    ASSUME IsReview(flow), tx \in Transactions,
           NEW s \in Int, NEW p \in Int, NEW n \in Int
    PROVE  /\ \A t, q, m \in Int :
                 Adjacent(s, p, n, t, q, m) => Neighbouring(<< 2, s, p, n >>, << 2, t, q, m >>)
           /\ IsLast(s, p, n) => Neighbouring(<< 2, s, p, n >>, << 3, Front + 4, 0, 0 >>)
<1>1. Front \in Int /\ Front + 4 \in Int /\ Front + 5 \in Int
  BY ReviewLayout
<1>2. ASSUME NEW t \in Int, NEW q \in Int, NEW m \in Int, Adjacent(s, p, n, t, q, m)
      PROVE  Neighbouring(<< 2, s, p, n >>, << 2, t, q, m >>)
  <2>1. Lex(2, s, p, n, 2, t, q, m)
    BY <1>2 DEF Adjacent, Less, Lex
  <2>2. \A j \in 1 .. Front : ~(Lex(2, s, p, n, 1, j, 0, 0) /\ Lex(1, j, 0, 0, 2, t, q, m))
    BY DEF Lex
  <2>3. \A u, r, k \in Int : IsPlace(u, r, k) =>
           ~(Lex(2, s, p, n, 2, u, r, k) /\ Lex(2, u, r, k, 2, t, q, m))
    BY <1>2 DEF Adjacent, Less, Lex
  <2>4. \A j \in {Front + 4, Front + 5} :
           ~(Lex(2, s, p, n, 3, j, 0, 0) /\ Lex(3, j, 0, 0, 2, t, q, m))
    BY DEF Lex
  <2>6. NoneBetween(2, s, p, n, 2, t, q, m)
    BY <2>2, <2>3, <2>4 DEF NoneBetween
  <2> QED
    BY <2>1, <2>6, NeighbouringByCases
<1>3. ASSUME IsLast(s, p, n)
      PROVE  Neighbouring(<< 2, s, p, n >>, << 3, Front + 4, 0, 0 >>)
  <2>1. Lex(2, s, p, n, 3, Front + 4, 0, 0)
    BY DEF Lex
  <2>2. \A j \in 1 .. Front :
           ~(Lex(2, s, p, n, 1, j, 0, 0) /\ Lex(1, j, 0, 0, 3, Front + 4, 0, 0))
    BY DEF Lex
  <2>3. \A u, r, k \in Int : IsPlace(u, r, k) =>
           ~(Lex(2, s, p, n, 2, u, r, k) /\ Lex(2, u, r, k, 3, Front + 4, 0, 0))
    BY <1>3 DEF IsLast, Less, Lex
  <2>4. \A j \in {Front + 4, Front + 5} :
           ~(Lex(2, s, p, n, 3, j, 0, 0) /\ Lex(3, j, 0, 0, 3, Front + 4, 0, 0))
    BY <1>1 DEF Lex
  <2>6. NoneBetween(2, s, p, n, 3, Front + 4, 0, 0)
    BY <2>2, <2>3, <2>4 DEF NoneBetween
  <2> QED
    BY <1>1, <2>1, <2>6, NeighbouringByCases
<1> QED
  BY <1>2, <1>3

---------------------------------------------------------------------------
(* The screens of a review, and the step from one to another.              *)

InFront ==
    /\ step \in 1 .. Front
    /\ mode = "STATIC_SCREEN"
    /\ ctx = At(0, START, -1, -1)

Among(s, p, c, g) ==
    /\ step = Front + 2
    /\ mode = "DYNAMIC_SCREEN"
    /\ ctx = At(s, p, c, g)
    /\ OnItem(s, p, c, g)
    /\ text = TextOf(ctx)

Behind ==
    /\ step \in {Front + 4, Front + 5}
    /\ mode = "STATIC_SCREEN"
    /\ ctx = EndOf(SignersSize - 1)

ReviewScreen == InFront \/ (\E s, p, c, g \in Int : Among(s, p, c, g)) \/ Behind

\* What is spelled is the property the indices are on.
LEMMA TextOfItem ==
    ASSUME NEW s \in Int, NEW p \in Int, NEW c \in Int, NEW g \in Int
    PROVE  /\ TextOf(At(s, p, c, g)).signer = s
           /\ TextOf(At(s, p, c, g)).property = p
           /\ TextOf(At(s, p, c, g)).number = Number(p, c, g)
           /\ HasData(At(s, p, c, g)) <=> p \in {1, 2, 3, 4, 5}
  BY DEF TextOf, HasData, At, Number, INDEX, ACCOUNT, SCOPE, CONTRACTS, GROUPS

\* Indices on a property are one of its places.
LEMMA ItemIsPlace ==
    ASSUME tx \in Transactions, NEW s \in Int, NEW p \in Int, NEW c \in Int, NEW g \in Int,
           OnItem(s, p, c, g)
    PROVE  IsPlace(s, p, Number(p, c, g)) /\ p \in {1, 2, 3, 4, 5} /\ Number(p, c, g) \in Int
  BY DEF OnItem, IsPlace, Number

\* Which place each screen is.
ScreensArePlaces ==
    /\ InFront => step > 0 /\ Place = << 1, step, 0, 0 >> /\ OnList(Place)
    /\ \A s, p, c, g \in Int :
          Among(s, p, c, g) =>
             step > 0 /\ Place = << 2, s, p, Number(p, c, g) >> /\ OnList(Place)
    /\ Behind => step > 0 /\ Place = << 3, step, 0, 0 >> /\ OnList(Place)

\* Each screen of a review shows a place of the list.
LEMMA PlaceIs == (IsReview(flow) /\ tx \in Transactions) => ScreensArePlaces
<1> SUFFICES ASSUME IsReview(flow), tx \in Transactions
             PROVE  ScreensArePlaces
  OBVIOUS
<1>1. Front \in 1 .. 9
  BY ReviewLayout
<1>2. ASSUME InFront
      PROVE  step > 0 /\ Place = << 1, step, 0, 0 >> /\ OnList(Place)
  <2>1. step > 0 /\ step \in 1 .. Front /\ flow[step] # "generic"
    BY <1>1, <1>2, ReviewLayout DEF InFront, Reserved, Hidden
  <2>2. Place = << 1, step, 0, 0 >>
    BY <2>1, StaticPlaceIs DEF Place
  <2> QED
    BY <2>1, <2>2 DEF OnList
<1>3. ASSUME NEW s \in Int, NEW p \in Int, NEW c \in Int, NEW g \in Int, Among(s, p, c, g)
      PROVE  step > 0 /\ Place = << 2, s, p, Number(p, c, g) >> /\ OnList(Place)
  <2>1. /\ step > 0 /\ step # 0 /\ flow[step] = "generic"
        /\ text = TextOf(At(s, p, c, g)) /\ OnItem(s, p, c, g)
    BY <1>1, <1>3, ReviewLayout DEF Among
  <2>2. Place = << 2, s, p, Number(p, c, g) >>
    <3>1. text.signer = s /\ text.property = p /\ text.number = Number(p, c, g)
      <4>1. /\ TextOf(At(s, p, c, g)).signer = s /\ TextOf(At(s, p, c, g)).property = p
            /\ TextOf(At(s, p, c, g)).number = Number(p, c, g)
        BY TextOfItem
      <4> QED
        BY <2>1, <4>1, Zenon
    <3> QED
      BY <2>1, <3>1, Zenon DEF Place
  <2>3. IsPlace(s, p, Number(p, c, g)) /\ Number(p, c, g) \in Int
    BY <2>1, ItemIsPlace
  <2> QED
    BY <2>1, <2>2, <2>3 DEF OnList
<1>4. ASSUME Behind
      PROVE  step > 0 /\ Place = << 3, step, 0, 0 >> /\ OnList(Place)
  <2>1. step > 0 /\ step \in {Front + 4, Front + 5} /\ flow[step] # "generic"
    BY <1>1, <1>4, ReviewLayout DEF Behind
  <2>2. Place = << 3, step, 0, 0 >>
    BY <2>1, StaticPlaceIs DEF Place
  <2> QED
    BY <2>1, <2>2 DEF OnList
<1> QED
  BY <1>2, <1>3, <1>4 DEF ScreensArePlaces

\* While the review stays open, its places and their order stay what they are.
LEMMA SameReview ==
    ASSUME UNCHANGED << tx, flow >>
    PROVE  /\ Front' = Front /\ SignersSize' = SignersSize
           /\ (IsReview(flow))' <=> IsReview(flow)
           /\ (tx \in Transactions)' <=> tx \in Transactions
           /\ \A s, p, c, g : (OnItem(s, p, c, g))' <=> OnItem(s, p, c, g)
           /\ \A s : (EndOf(s))' = EndOf(s)
           /\ \A x : (OnList(x))' <=> OnList(x)
<1> USE DEF OnItem, EndOf, C, G, Of, SignersSize, Front, IsPlace, At, END
<1>1. Front' = Front /\ SignersSize' = SignersSize
  OBVIOUS
<1>2. (IsReview(flow))' <=> IsReview(flow)
  BY DEF IsReview
<1>3. (tx \in Transactions)' <=> tx \in Transactions
  BY DEF Transactions
<1>4. \A s, p, c, g : (OnItem(s, p, c, g))' <=> OnItem(s, p, c, g)
  OBVIOUS
<1>5. \A s : (EndOf(s))' = EndOf(s)
  OBVIOUS
<1>6. \A s, p, k : (IsPlace(s, p, k))' <=> IsPlace(s, p, k)
  OBVIOUS
<1>7. \A x : (OnList(x))' <=> OnList(x)
  BY <1>1, <1>6 DEF OnList
<1> QED
  BY <1>1, <1>2, <1>3, <1>4, <1>5, <1>7, Zenon

\* The screens a step can end on.
ToFront(i) == step' = i /\ mode' = "STATIC_SCREEN" /\ ctx' = At(0, START, -1, -1)
ToItem(s, p, c, g) ==
    /\ step' = Front + 2
    /\ mode' = "DYNAMIC_SCREEN"
    /\ ctx' = At(s, p, c, g)
    /\ text' = TextOf(At(s, p, c, g))
ToBehind(i) == step' = i /\ mode' = "STATIC_SCREEN" /\ ctx' = EndOf(SignersSize - 1)

\* A step that ends on a screen shows the place of that screen.
LEMMA Arrivals ==
    ASSUME IsReview(flow), tx \in Transactions, UNCHANGED << tx, flow >>
    PROVE  /\ \A i \in 1 .. Front :
                 ToFront(i) => ReviewScreen' /\ Place' = << 1, i, 0, 0 >> /\ OnList(Place')
           /\ \A s, p, c, g \in Int :
                 ToItem(s, p, c, g) /\ OnItem(s, p, c, g) =>
                    /\ ReviewScreen'
                    /\ Place' = << 2, s, p, Number(p, c, g) >>
                    /\ OnList(Place')
           /\ \A i \in {Front + 4, Front + 5} :
                 ToBehind(i) => ReviewScreen' /\ Place' = << 3, i, 0, 0 >> /\ OnList(Place')
<1>1. /\ IsReview(flow)' /\ (tx \in Transactions)'
      /\ Front' = Front /\ SignersSize' = SignersSize
  BY SameReview, Zenon
<1>2. ScreensArePlaces'
  <2>1. (IsReview(flow) /\ tx \in Transactions)' => ScreensArePlaces'
    BY PlaceIs, PTL
  <2> QED
    BY <1>1, <2>1
<1>3. OnList(Place)' <=> OnList(Place')
  BY <1>1, SameReview
<1>4. ASSUME NEW i \in 1 .. Front, ToFront(i)
      PROVE  ReviewScreen' /\ Place' = << 1, i, 0, 0 >> /\ OnList(Place')
  <2>1. InFront' /\ step' = i
    BY <1>1, <1>4 DEF InFront, ToFront, At
  <2> QED
    BY <1>2, <1>3, <2>1 DEF ReviewScreen, ScreensArePlaces
<1>5. ASSUME NEW s \in Int, NEW p \in Int, NEW c \in Int, NEW g \in Int,
             ToItem(s, p, c, g), OnItem(s, p, c, g)
      PROVE  /\ ReviewScreen'
             /\ Place' = << 2, s, p, Number(p, c, g) >>
             /\ OnList(Place')
  <2>1. OnItem(s, p, c, g)'
    BY <1>5, SameReview
  <2>2. Among(s, p, c, g)'
    BY <1>1, <1>5, <2>1 DEF Among, ToItem, At, TextOf
  <2> QED
    BY <1>2, <1>3, <2>2 DEF ReviewScreen, ScreensArePlaces
<1>6. ASSUME NEW i \in {Front + 4, Front + 5}, ToBehind(i)
      PROVE  ReviewScreen' /\ Place' = << 3, i, 0, 0 >> /\ OnList(Place')
  <2>1. EndOf(SignersSize - 1)' = EndOf(SignersSize - 1)
    BY <1>1, SameReview
  <2>2. Behind' /\ step' = i
    BY <1>1, <1>6, <2>1 DEF Behind, ToBehind
  <2> QED
    BY <1>2, <1>3, <2>2 DEF ReviewScreen, ScreensArePlaces
<1> QED
  BY <1>4, <1>5, <1>6

\* A step out of the signers, backwards, comes from behind the last property.
LEMMA EntersBackIsLast ==
    ASSUME tx \in Transactions, NEW q \in Int, NEW n \in Int,
           Adjacent(SignersSize - 1, q, n, SignersSize, 1, 0)
    PROVE  IsLast(SignersSize - 1, q, n)
<1>1. SignersSize \in Nat
  BY SignersType
<1>2. ASSUME NEW u \in Int, NEW r \in Int, NEW k \in Int, IsPlace(u, r, k)
      PROVE  Less(u, r, k, SignersSize, 1, 0)
  BY <1>1, <1>2 DEF IsPlace, Less
<1> QED
  BY <1>2 DEF Adjacent, IsLast

\* Entering a step that is displayed, and either delimiter from either side.
LEMMA Entering ==
    ASSUME IsReview(flow)
    PROVE  /\ \A i \in 1 .. Front + 5 :
                 /\ Enter(i)
                 /\ i \notin {Front + 1, Front + 3}
                 => step' = i /\ UNCHANGED << mode, ctx, text >>
           /\ Enter(Front + 1) => UpperDelimiter(Front + 1)
           /\ Enter(Front + 3) => LowerDelimiter(Front + 3)
<1>1. Front \in 1 .. 9
  BY ReviewLayout
<1>2. ASSUME NEW i \in 1 .. Front + 5, Enter(i), i \notin {Front + 1, Front + 3}
      PROVE  step' = i /\ UNCHANGED << mode, ctx, text >>
  <2>1. i \in 1 .. Front \/ i = Front + 2 \/ i = Front + 4 \/ i = Front + 5
    BY <1>1, <1>2
  <2>2. flow[i] \notin {"upper_delimiter", "lower_delimiter"}
    <3>1. CASE i \in 1 .. Front
      BY <3>1, ReviewLayout DEF Reserved, Hidden
    <3>2. CASE i = Front + 2 \/ i = Front + 4 \/ i = Front + 5
      BY <3>2, ReviewLayout
    <3> QED
      BY <2>1, <3>1, <3>2
  <2> QED
    BY <1>2, <2>2 DEF Enter
<1>3. ASSUME Enter(Front + 1)
      PROVE  UpperDelimiter(Front + 1)
  <2>1. flow[Front + 1] = "upper_delimiter"
    BY ReviewLayout
  <2> QED
    BY <1>3, <2>1 DEF Enter
<1>4. ASSUME Enter(Front + 3)
      PROVE  LowerDelimiter(Front + 3)
  <2>1. flow[Front + 3] = "lower_delimiter"
    BY ReviewLayout
  <2> QED
    BY <1>4, <2>1 DEF Enter
<1> QED
  BY <1>2, <1>3, <1>4

\* What fetching a property, or none, does.
LEMMA FetchItem ==
    ASSUME NEW s \in Int, NEW p \in Int, NEW c \in Int, NEW g \in Int,
           Fetch(At(s, p, c, g)), p \in {1, 2, 3, 4, 5}
    PROVE  ctx' = At(s, p, c, g) /\ text' = TextOf(At(s, p, c, g)) /\ HasData(ctx')
<1>1. HasData(At(s, p, c, g))
  BY TextOfItem
<1> QED
  BY <1>1 DEF Fetch

\* Fetching in front of the first property or behind the last changes no text.
LEMMA FetchNothing ==
    ASSUME NEW s \in Int, NEW p \in Int, NEW c \in Int, NEW g \in Int,
           Fetch(At(s, p, c, g)), p \in {0, 6}
    PROVE  ctx' = At(s, p, c, g) /\ ~HasData(ctx')
<1>1. ~HasData(At(s, p, c, g))
  BY DEF HasData, At, INDEX, ACCOUNT, SCOPE, CONTRACTS, GROUPS
<1> QED
  BY <1>1 DEF Fetch

\* A step of the walk, from one place on the list to another.
Walks(x, y) == OnList(x) /\ OnList(y) /\ Neighbouring(x, y)

\* The right button, in a review, goes to the next place.
LEMMA ForwardWalks ==
    ASSUME IsReview(flow), tx \in Transactions, ReviewScreen, GoForward
    PROVE  ReviewScreen' /\ Walks(Place, Place')
<1>1. /\ Front \in 1 .. 9 /\ Len(flow) = Front + 5 /\ SignersSize \in Nat \ {0}
      /\ UNCHANGED << tx, flow >>
      /\ step < Len(flow) /\ Enter(step + 1)
  BY ReviewLayout, SignersType DEF GoForward, Look
<1>2. ScreensArePlaces
  BY PlaceIs
<1>3. CASE InFront /\ step < Front
  <2>1. step \in 1 .. Front - 1 /\ step + 1 \in 1 .. Front
    BY <1>1, <1>3 DEF InFront
  <2>2. step' = step + 1 /\ UNCHANGED << mode, ctx, text >>
    BY <1>1, <2>1, Entering
  <2>3. ToFront(step + 1)
    BY <1>3, <2>2 DEF InFront, ToFront
  <2>4. ReviewScreen' /\ Place' = << 1, step + 1, 0, 0 >> /\ OnList(Place')
    BY <1>1, <2>1, <2>3, Arrivals
  <2>5. Place = << 1, step, 0, 0 >> /\ OnList(Place)
    BY <1>2, <1>3 DEF ScreensArePlaces
  <2>6. Neighbouring(<< 1, step, 0, 0 >>, << 1, step + 1, 0, 0 >>)
    BY <2>1, NeighboursOutside
  <2> QED
    BY <2>4, <2>5, <2>6 DEF Walks
<1>4. CASE InFront /\ step = Front
  <2>1. UpperDelimiter(Front + 1) /\ mode = "STATIC_SCREEN" /\ ctx = At(0, 0, -1, -1)
    BY <1>1, <1>4, Entering DEF InFront, START
  <2>2. NextProp(ctx) = At(0, 1, -1, -1)
    BY <2>1, NextPropIs
  <2>3. /\ Fetch(NextProp(ctx)) /\ step' = (Front + 1) + 1
        /\ mode' = IF HasData(ctx') THEN "DYNAMIC_SCREEN" ELSE mode
    BY <2>1 DEF UpperDelimiter
  <2>4. ctx' = At(0, 1, -1, -1) /\ text' = TextOf(At(0, 1, -1, -1)) /\ HasData(ctx')
    BY <2>2, <2>3, FetchItem
  <2>5. ToItem(0, 1, -1, -1)
    BY <1>1, <2>3, <2>4 DEF ToItem
  <2>6. OnItem(0, 1, -1, -1) /\ Number(1, -1, -1) = 0
    BY <1>1 DEF OnItem, Number
  <2>7. ReviewScreen' /\ Place' = << 2, 0, 1, 0 >> /\ OnList(Place')
    BY <1>1, <2>5, <2>6, Arrivals
  <2>8. Place = << 1, Front, 0, 0 >> /\ OnList(Place)
    BY <1>2, <1>4 DEF ScreensArePlaces
  <2> QED
    BY <2>7, <2>8, NeighboursOutside DEF Walks
<1>5. ASSUME NEW s \in Int, NEW p \in Int, NEW c \in Int, NEW g \in Int, Among(s, p, c, g)
      PROVE  ReviewScreen' /\ Walks(Place, Place')
  <2>1. /\ LowerDelimiter(Front + 3) /\ mode = "DYNAMIC_SCREEN" /\ ctx = At(s, p, c, g)
        /\ OnItem(s, p, c, g)
    <3>1. step + 1 = Front + 3
      BY <1>1, <1>5 DEF Among
    <3> QED
      BY <1>1, <1>5, <3>1, Entering DEF Among
  <2>2. /\ Fetch(NextProp(At(s, p, c, g)))
        /\ mode' = IF HasData(ctx') THEN mode ELSE "STATIC_SCREEN"
        /\ step' = IF HasData(ctx') THEN (Front + 3) - 1 ELSE (Front + 3) + 1
    BY <2>1 DEF LowerDelimiter
  <2>3. StepsForward(s, p, c, g)
    BY <2>1, NextPropMoves
  <2>4. /\ Place = << 2, s, p, Number(p, c, g) >> /\ OnList(Place)
        /\ Number(p, c, g) \in Int
    BY <1>2, <1>5, <2>1, ItemIsPlace DEF ScreensArePlaces
  <2>5. ASSUME NEW t \in Int, NEW q \in Int, NEW d \in Int, NEW h \in Int,
               NextProp(At(s, p, c, g)) = At(t, q, d, h),
               Moves(s, p, c, g, t, q, d, h)
        PROVE  ReviewScreen' /\ Walks(Place, Place')
    <3>1. OnItem(t, q, d, h) /\ Adjacent(s, p, Number(p, c, g), t, q, Number(q, d, h))
      BY <2>5 DEF Moves
    <3>2. q \in {1, 2, 3, 4, 5} /\ Number(q, d, h) \in Int
      BY <3>1, ItemIsPlace
    <3>3. ctx' = At(t, q, d, h) /\ text' = TextOf(At(t, q, d, h)) /\ HasData(ctx')
      BY <2>2, <2>5, <3>2, FetchItem
    <3>4. ToItem(t, q, d, h)
      BY <1>1, <2>1, <2>2, <3>3 DEF ToItem
    <3>5. /\ ReviewScreen' /\ Place' = << 2, t, q, Number(q, d, h) >> /\ OnList(Place')
      BY <1>1, <3>1, <3>4, Arrivals
    <3>6. Neighbouring(<< 2, s, p, Number(p, c, g) >>, << 2, t, q, Number(q, d, h) >>)
      BY <2>4, <3>1, <3>2, NeighboursAmong
    <3> QED
      BY <2>4, <3>5, <3>6 DEF Walks
  <2>6. ASSUME s = SignersSize - 1, NextProp(At(s, p, c, g)) = EndOf(s),
               IsLast(s, p, Number(p, c, g))
        PROVE  ReviewScreen' /\ Walks(Place, Place')
    <3>1. C(s) \in Int /\ G(s) \in Int /\ EndOf(s) = At(s, 6, C(s), G(s))
      BY <2>1, SignersType DEF OnItem, EndOf, END
    <3>2. ctx' = EndOf(s) /\ ~HasData(ctx')
      BY <2>2, <2>6, <3>1, FetchNothing
    <3>3. ToBehind(Front + 4)
      BY <1>1, <2>2, <2>6, <3>2 DEF ToBehind
    <3>4. ReviewScreen' /\ Place' = << 3, Front + 4, 0, 0 >> /\ OnList(Place')
      BY <1>1, <3>3, Arrivals
    <3>5. Neighbouring(<< 2, s, p, Number(p, c, g) >>, << 3, Front + 4, 0, 0 >>)
      BY <2>4, <2>6, NeighboursAmong
    <3> QED
      BY <2>4, <3>4, <3>5 DEF Walks
  <2> QED
    BY <2>3, <2>5, <2>6 DEF StepsForward
<1>6. CASE Behind
  <2>1. step = Front + 4 /\ step + 1 = Front + 5 /\ Front + 5 \in 1 .. Front + 5
    BY <1>1, <1>6 DEF Behind
  <2>2. step' = Front + 5 /\ UNCHANGED << mode, ctx, text >>
    BY <1>1, <2>1, Entering
  <2>3. ToBehind(Front + 5)
    BY <1>6, <2>2 DEF Behind, ToBehind
  <2>4. ReviewScreen' /\ Place' = << 3, Front + 5, 0, 0 >> /\ OnList(Place')
    BY <1>1, <2>3, Arrivals
  <2>5. Place = << 3, Front + 4, 0, 0 >> /\ OnList(Place)
    BY <1>2, <1>6, <2>1 DEF ScreensArePlaces
  <2> QED
    BY <2>4, <2>5, NeighboursOutside DEF Walks
<1> QED
  BY <1>1, <1>3, <1>4, <1>5, <1>6 DEF ReviewScreen, InFront

\* The left button, in a review, goes back to the place before.
LEMMA BackWalks ==
    ASSUME IsReview(flow), tx \in Transactions, ReviewScreen, GoBack
    PROVE  ReviewScreen' /\ Walks(Place', Place)
<1>1. /\ Front \in 1 .. 9 /\ Len(flow) = Front + 5 /\ SignersSize \in Nat \ {0}
      /\ UNCHANGED << tx, flow >>
      /\ step > 1 /\ Enter(step - 1)
  BY ReviewLayout, SignersType DEF GoBack, Look
<1>2. ScreensArePlaces
  BY PlaceIs
<1>3. CASE InFront
  <2>1. step - 1 \in 1 .. Front - 1 /\ step - 1 \in 1 .. Front + 5 /\ (step - 1) + 1 = step
    BY <1>1, <1>3 DEF InFront
  <2>2. step' = step - 1 /\ UNCHANGED << mode, ctx, text >>
    BY <1>1, <2>1, Entering
  <2>3. ToFront(step - 1)
    BY <1>3, <2>2 DEF InFront, ToFront
  <2>4. ReviewScreen' /\ Place' = << 1, step - 1, 0, 0 >> /\ OnList(Place')
    BY <1>1, <2>1, <2>3, Arrivals
  <2>5. Place = << 1, step, 0, 0 >> /\ OnList(Place)
    BY <1>2, <1>3 DEF ScreensArePlaces
  <2>6. Neighbouring(<< 1, step - 1, 0, 0 >>, << 1, (step - 1) + 1, 0, 0 >>)
    BY <2>1, NeighboursOutside
  <2> QED
    BY <2>1, <2>4, <2>5, <2>6 DEF Walks
<1>4. ASSUME NEW s \in Int, NEW p \in Int, NEW c \in Int, NEW g \in Int, Among(s, p, c, g)
      PROVE  ReviewScreen' /\ Walks(Place', Place)
  <2>1. /\ UpperDelimiter(Front + 1) /\ mode = "DYNAMIC_SCREEN" /\ ctx = At(s, p, c, g)
        /\ OnItem(s, p, c, g)
    <3>1. step - 1 = Front + 1
      BY <1>1, <1>4 DEF Among
    <3> QED
      BY <1>1, <1>4, <3>1, Entering DEF Among
  <2>2. /\ Fetch(PrevProp(At(s, p, c, g)))
        /\ mode' = IF HasData(ctx') THEN mode ELSE "STATIC_SCREEN"
        /\ step' = IF HasData(ctx') THEN (Front + 1) + 1 ELSE (Front + 1) - 1
    BY <2>1 DEF UpperDelimiter
  <2>3. StepsBack(s, p, c, g)
    BY <2>1, PrevPropMoves
  <2>4. /\ Place = << 2, s, p, Number(p, c, g) >> /\ OnList(Place)
        /\ Number(p, c, g) \in Int
    BY <1>2, <1>4, <2>1, ItemIsPlace DEF ScreensArePlaces
  <2>5. ASSUME NEW t \in Int, NEW q \in Int, NEW d \in Int, NEW h \in Int,
               PrevProp(At(s, p, c, g)) = At(t, q, d, h), OnItem(t, q, d, h),
               Adjacent(t, q, Number(q, d, h), s, p, Number(p, c, g))
        PROVE  ReviewScreen' /\ Walks(Place', Place)
    <3>1. q \in {1, 2, 3, 4, 5} /\ Number(q, d, h) \in Int
      BY <2>5, ItemIsPlace
    <3>2. ctx' = At(t, q, d, h) /\ text' = TextOf(At(t, q, d, h)) /\ HasData(ctx')
      BY <2>2, <2>5, <3>1, FetchItem
    <3>3. ToItem(t, q, d, h)
      BY <1>1, <2>1, <2>2, <3>2 DEF ToItem
    <3>4. /\ ReviewScreen' /\ Place' = << 2, t, q, Number(q, d, h) >> /\ OnList(Place')
      BY <1>1, <2>5, <3>3, Arrivals
    <3>5. Neighbouring(<< 2, t, q, Number(q, d, h) >>, << 2, s, p, Number(p, c, g) >>)
      BY <2>4, <2>5, <3>1, NeighboursAmong
    <3> QED
      BY <2>4, <3>4, <3>5 DEF Walks
  <2>6. ASSUME s = 0, p = 1, PrevProp(At(s, p, c, g)) = At(0, START, -1, -1)
        PROVE  ReviewScreen' /\ Walks(Place', Place)
    <3>1. ctx' = At(0, START, -1, -1) /\ ~HasData(ctx')
      BY <2>2, <2>6, FetchNothing DEF START
    <3>2. ToFront(Front) /\ Front \in 1 .. Front
      BY <1>1, <2>2, <3>1 DEF ToFront
    <3>3. ReviewScreen' /\ Place' = << 1, Front, 0, 0 >> /\ OnList(Place')
      BY <1>1, <3>2, Arrivals
    <3>4. Number(p, c, g) = 0
      BY <2>6 DEF Number
    <3>5. Place = << 2, 0, 1, 0 >>
      BY <2>4, <2>6, <3>4
    <3> QED
      BY <2>4, <3>3, <3>5, NeighboursOutside DEF Walks
  <2> QED
    BY <2>3, <2>5, <2>6 DEF StepsBack
<1>5. CASE Behind /\ step = Front + 4
  <2> DEFINE s == SignersSize - 1
  <2>1. s \in 0 .. SignersSize - 1 /\ s \in Int /\ s + 1 = SignersSize
    BY <1>1
  <2>2. LowerDelimiter(Front + 3) /\ mode = "STATIC_SCREEN" /\ ctx = EndOf(s)
    <3>1. step - 1 = Front + 3
      BY <1>1, <1>5
    <3> QED
      BY <1>1, <1>5, <3>1, Entering DEF Behind
  <2>3. /\ Fetch(PrevProp(EndOf(s)))
        /\ mode' = IF HasData(ctx') THEN "DYNAMIC_SCREEN" ELSE mode
        /\ step' = (Front + 3) - 1
    BY <2>2 DEF LowerDelimiter
  <2>4. PICK q \in Int, d \in Int, h \in Int :
           PrevProp(EndOf(s)) = At(s, q, d, h) /\ EntersBack(s, s, q, d, h)
    BY <2>1, LastOfMoves
  <2>5. /\ OnItem(s, q, d, h) /\ q \in {1, 2, 3, 4, 5} /\ Number(q, d, h) \in Int
        /\ Adjacent(s, q, Number(q, d, h), SignersSize, 1, 0)
    BY <2>1, <2>4, ItemIsPlace DEF EntersBack
  <2>6. ctx' = At(s, q, d, h) /\ text' = TextOf(At(s, q, d, h)) /\ HasData(ctx')
    BY <2>1, <2>3, <2>4, <2>5, FetchItem
  <2>7. ToItem(s, q, d, h)
    BY <1>1, <2>3, <2>6 DEF ToItem
  <2>8. ReviewScreen' /\ Place' = << 2, s, q, Number(q, d, h) >> /\ OnList(Place')
    BY <1>1, <2>1, <2>5, <2>7, Arrivals
  <2>9. IsLast(s, q, Number(q, d, h))
    BY <2>5, EntersBackIsLast
  <2>10. Neighbouring(<< 2, s, q, Number(q, d, h) >>, << 3, Front + 4, 0, 0 >>)
    BY <2>1, <2>5, <2>9, NeighboursAmong
  <2>11. Place = << 3, Front + 4, 0, 0 >> /\ OnList(Place)
    BY <1>2, <1>5 DEF ScreensArePlaces
  <2> QED
    BY <2>8, <2>10, <2>11 DEF Walks
<1>6. CASE Behind /\ step = Front + 5
  <2>1. step - 1 = Front + 4 /\ Front + 4 \in 1 .. Front + 5
    BY <1>1, <1>6
  <2>2. step' = Front + 4 /\ UNCHANGED << mode, ctx, text >>
    BY <1>1, <2>1, Entering
  <2>3. ToBehind(Front + 4)
    BY <1>6, <2>2 DEF Behind, ToBehind
  <2>4. ReviewScreen' /\ Place' = << 3, Front + 4, 0, 0 >> /\ OnList(Place')
    BY <1>1, <2>3, Arrivals
  <2>5. Place = << 3, Front + 5, 0, 0 >> /\ OnList(Place)
    BY <1>2, <1>6 DEF ScreensArePlaces
  <2> QED
    BY <2>4, <2>5, NeighboursOutside DEF Walks
<1> QED
  BY <1>3, <1>4, <1>5, <1>6 DEF ReviewScreen, Behind

---------------------------------------------------------------------------
(* The invariant: which screens there are, whatever is displayed.          *)

RefusalScreen == step \in {1, 2} /\ mode = "STATIC_SCREEN" /\ ctx = At(0, START, -1, -1)

Screen ==
    /\ tx \in Transactions \cup {NoTx}
    /\ mode \in {"STATIC_SCREEN", "DYNAMIC_SCREEN"}
    /\ \/ step = 0 /\ flow = << >>
       \/ IsReview(flow) /\ (step = 0 \/ (tx \in Transactions /\ ReviewScreen))
       \/ IsRefusal(flow) /\ (step = 0 \/ (tx \in Transactions /\ RefusalScreen))

\* The only two places of a refusal.
LEMMA RefusalPlaces ==
    (IsRefusal(flow) /\ step \in {1, 2}) =>
        /\ Place = << 1, step, 0, 0 >>
        /\ Places = {<< 1, 1, 0, 0 >>, << 1, 2, 0, 0 >>}
<1> SUFFICES ASSUME IsRefusal(flow), step \in {1, 2}
             PROVE  /\ Place = << 1, step, 0, 0 >>
                    /\ Places = {<< 1, 1, 0, 0 >>, << 1, 2, 0, 0 >>}
  OBVIOUS
<1>1. /\ DOMAIN flow = {1, 2} /\ flow[1] = "no_arbitrary_script" /\ flow[2] = "abort"
      /\ step # 0
  BY DEF IsRefusal
<1>2. /\ StaticPlace(1) = << 1, 1, 0, 0 >> /\ StaticPlace(2) = << 1, 2, 0, 0 >>
  <2>1. \A i \in {1, 2} : ~ \E j \in 1 .. i : flow[j] = "lower_delimiter"
    BY <1>1
  <2> QED
    BY <2>1 DEF StaticPlace
<1>3. Place = << 1, step, 0, 0 >>
  BY <1>1, <1>2 DEF Place
<1>4. {j \in DOMAIN flow : flow[j] \notin Hidden} = {1, 2}
  BY <1>1 DEF Hidden
<1>5. ~ \E j \in DOMAIN flow : flow[j] = "generic"
  BY <1>1
<1>6. Places = {StaticPlace(i) : i \in {1, 2}}
  BY <1>1, <1>4, <1>5 DEF Places
<1> QED
  BY <1>2, <1>3, <1>6

\* Of whatever is open, the place shown is one, and each is four numbers.
Tuples == Int \X Int \X Int \X Int
PlacesTyped == step > 0 => Place \in Places /\ Places \subseteq Tuples

\* The place shown is on the list, and the list is one of tuples.
LEMMA PlacesType == Screen => PlacesTyped
<1> SUFFICES ASSUME Screen, step > 0
             PROVE  Place \in Places /\ Places \subseteq Tuples
  BY DEF PlacesTyped
<1>1. CASE IsReview(flow) /\ tx \in Transactions /\ ReviewScreen
  <2>1. OnList(Place)
    BY <1>1, PlaceIs DEF ReviewScreen, ScreensArePlaces
  <2>2. \A x : x \in Places <=> OnList(x)
    BY <1>1, PlacesOfReview
  <2>3. ASSUME NEW x, OnList(x)
        PROVE  x \in Tuples
    <3>1. Front \in Int
      BY <1>1, ReviewLayout
    <3> QED
      BY <2>3, <3>1 DEF OnList, Tuples
  <2> QED
    BY <2>1, <2>2, <2>3
<1>2. CASE IsRefusal(flow) /\ RefusalScreen
  BY <1>2, RefusalPlaces DEF RefusalScreen, Tuples
<1> QED
  BY <1>1, <1>2 DEF Screen

\* The first step is the first place.
OpensOnTop == step = 1 => \A p \in Places \ {Place} : Earlier(Place, p)

\* Nothing comes before the first step.
LEMMA FirstIsOnTop == Screen => OpensOnTop
<1> SUFFICES ASSUME Screen, step = 1, NEW x \in Places, x # Place
             PROVE  Earlier(Place, x)
  BY DEF OpensOnTop
<1>1. CASE IsReview(flow) /\ tx \in Transactions /\ ReviewScreen
  <2>1. Front \in 1 .. 9
    BY <1>1, ReviewLayout
  <2>2. InFront
    BY <1>1, <2>1 DEF ReviewScreen, Among, Behind
  <2>3. Place = << 1, 1, 0, 0 >>
    BY <1>1, <2>2, PlaceIs DEF ScreensArePlaces
  <2>4. OnList(x)
    BY <1>1, PlacesOfReview
  <2>5. ASSUME NEW i \in 1 .. Front, x = << 1, i, 0, 0 >>
        PROVE  Earlier(Place, x)
    <3>1. i \in Int /\ i # 1
      BY <2>3, <2>5
    <3>2. Lex(1, 1, 0, 0, 1, i, 0, 0)
      BY <2>1, <3>1 DEF Lex
    <3> QED
      BY <2>3, <2>5, <3>1, <3>2, EarlierTuples
  <2>6. ASSUME NEW s \in Int, NEW p \in Int, NEW k \in Int, x = << 2, s, p, k >>
        PROVE  Earlier(Place, x)
    <3>1. Lex(1, 1, 0, 0, 2, s, p, k)
      BY DEF Lex
    <3> QED
      BY <2>3, <2>6, <3>1, EarlierTuples
  <2>7. ASSUME NEW i \in {Front + 4, Front + 5}, x = << 3, i, 0, 0 >>
        PROVE  Earlier(Place, x)
    <3>1. Lex(1, 1, 0, 0, 3, i, 0, 0) /\ i \in Int
      BY <2>1 DEF Lex
    <3> QED
      BY <2>3, <2>7, <3>1, EarlierTuples
  <2> QED
    BY <2>4, <2>5, <2>6, <2>7 DEF OnList
<1>2. CASE IsRefusal(flow) /\ RefusalScreen
  <2>1. Place = << 1, 1, 0, 0 >> /\ x = << 1, 2, 0, 0 >>
    BY <1>2, RefusalPlaces
  <2>2. Lex(1, 1, 0, 0, 1, 2, 0, 0)
    BY DEF Lex
  <2> QED
    BY <2>1, <2>2, EarlierTuples
<1> QED
  BY <1>1, <1>2 DEF Screen

\* The order of the places is a strict total order.
LEMMA EarlierIsTotal ==
    ASSUME NEW x \in Tuples, NEW y \in Tuples
    PROVE  x = y \/ Earlier(x, y) \/ Earlier(y, x)
<1>1. PICK x1 \in Int, x2 \in Int, x3 \in Int, x4 \in Int : x = << x1, x2, x3, x4 >>
  BY DEF Tuples
<1>2. PICK y1 \in Int, y2 \in Int, y3 \in Int, y4 \in Int : y = << y1, y2, y3, y4 >>
  BY DEF Tuples
<1>3. \/ x1 = y1 /\ x2 = y2 /\ x3 = y3 /\ x4 = y4
      \/ Lex(x1, x2, x3, x4, y1, y2, y3, y4)
      \/ Lex(y1, y2, y3, y4, x1, x2, x3, x4)
  BY DEF Lex
<1> QED
  BY <1>1, <1>2, <1>3, EarlierTuples

\* An earlier place than an earlier place is earlier.
LEMMA EarlierIsTransitive ==
    ASSUME NEW x \in Tuples, NEW y \in Tuples, NEW z \in Tuples, Earlier(x, y), Earlier(y, z)
    PROVE  Earlier(x, z)
<1>1. PICK x1 \in Int, x2 \in Int, x3 \in Int, x4 \in Int : x = << x1, x2, x3, x4 >>
  BY DEF Tuples
<1>2. PICK y1 \in Int, y2 \in Int, y3 \in Int, y4 \in Int : y = << y1, y2, y3, y4 >>
  BY DEF Tuples
<1>3. PICK z1 \in Int, z2 \in Int, z3 \in Int, z4 \in Int : z = << z1, z2, z3, z4 >>
  BY DEF Tuples
<1>4. Lex(x1, x2, x3, x4, y1, y2, y3, y4) /\ Lex(y1, y2, y3, y4, z1, z2, z3, z4)
  BY <1>1, <1>2, <1>3, EarlierTuples
<1>5. Lex(x1, x2, x3, x4, z1, z2, z3, z4)
  BY <1>4 DEF Lex
<1> QED
  BY <1>1, <1>3, <1>5, EarlierTuples

\* No place is earlier than itself.
LEMMA EarlierIsIrreflexive ==
    ASSUME NEW x \in Tuples
    PROVE  ~Earlier(x, x)
<1>1. PICK x1 \in Int, x2 \in Int, x3 \in Int, x4 \in Int : x = << x1, x2, x3, x4 >>
  BY DEF Tuples
<1>2. ~Lex(x1, x2, x3, x4, x1, x2, x3, x4)
  BY DEF Lex
<1> QED
  BY <1>1, <1>2, EarlierTuples

\* Moving about changes nothing there is to look at.
LEMMA SamePlaces ==
    ASSUME UNCHANGED << tx, flow >>, step # 0, step' # 0
    PROVE  Places' = Places
<1>1. SignerPlaces' = SignerPlaces
  BY DEF SignerPlaces, Of, SignersSize
<1>2. \A i : StaticPlace(i)' = StaticPlace(i)
  BY DEF StaticPlace
<1> QED
  BY <1>1, <1>2, Zenon DEF Places

Displayed == step \in Nat \ {0} /\ mode \in {"STATIC_SCREEN", "DYNAMIC_SCREEN"}

\* Every screen of a review is a step of the flow.
LEMMA ReviewDisplays == (IsReview(flow) /\ ReviewScreen) => Displayed
<1> SUFFICES ASSUME IsReview(flow), ReviewScreen
             PROVE  Displayed
  OBVIOUS
<1>1. Front \in 1 .. 9
  BY ReviewLayout
<1> QED
  BY <1>1 DEF ReviewScreen, InFront, Among, Behind, Displayed

\* What a step of either button has to show, once the screens it joins are known.
LEMMA ReviewStays ==
    ASSUME IsReview(flow), tx \in Transactions, ReviewScreen, UNCHANGED << tx, flow >>,
           ReviewScreen'
    PROVE  /\ Screen' /\ Places' = Places
           /\ \A x : x \in Places <=> OnList(x)
<1>1. IsReview(flow)' /\ (tx \in Transactions)'
  BY SameReview, Zenon
<1>2. Displayed
  BY ReviewDisplays
<1>3. Displayed'
  <2>1. (IsReview(flow) /\ ReviewScreen)' => Displayed'
    BY ReviewDisplays, PTL
  <2> QED
    BY <1>1, <2>1
<1>4. Screen'
  BY <1>1, <1>3 DEF Screen, Displayed
<1>5. Places' = Places
  BY <1>2, <1>3, SamePlaces DEF Displayed
<1>6. \A x : x \in Places <=> OnList(x)
  BY <1>2, PlacesOfReview DEF Displayed
<1> QED
  BY <1>4, <1>5, <1>6

\* The same for the two steps of a refusal.
LEMMA RefusalStays ==
    ASSUME IsRefusal(flow), tx \in Transactions, RefusalScreen, UNCHANGED << tx, flow >>,
           RefusalScreen'
    PROVE  /\ Screen' /\ Places' = Places
           /\ Place = << 1, step, 0, 0 >> /\ Place' = << 1, step', 0, 0 >>
           /\ Places = {<< 1, 1, 0, 0 >>, << 1, 2, 0, 0 >>}
<1>1. IsRefusal(flow)' /\ (tx \in Transactions)'
  BY DEF IsRefusal
<1>2. step \in {1, 2} /\ step' \in {1, 2}
  BY DEF RefusalScreen
<1>3. Screen'
  BY <1>1 DEF Screen, RefusalScreen
<1>4. Places' = Places
  BY <1>2, SamePlaces
<1>5. Place = << 1, step, 0, 0 >> /\ Places = {<< 1, 1, 0, 0 >>, << 1, 2, 0, 0 >>}
  BY <1>2, RefusalPlaces
<1>6. Place' = << 1, step', 0, 0 >>
  <2>1. \A i : StaticPlace(i)' = StaticPlace(i)
    BY DEF StaticPlace
  <2>2. flow[step'] # "generic" /\ step' # 0
    BY <1>2 DEF IsRefusal
  <2>3. Place' = StaticPlace(step')
    BY <2>2 DEF Place, StaticPlace
  <2>4. ~ \E j \in 1 .. step' : flow[j] = "lower_delimiter"
    BY <1>2 DEF IsRefusal
  <2> QED
    BY <2>3, <2>4 DEF StaticPlace
<1> QED
  BY <1>3, <1>4, <1>5, <1>6

\* Between the two places of a refusal there is nothing.
LEMMA RefusalNeighbours ==
    ASSUME Places = {<< 1, 1, 0, 0 >>, << 1, 2, 0, 0 >>}
    PROVE  List!Neighbours(<< 1, 1, 0, 0 >>, << 1, 2, 0, 0 >>)
<1> DEFINE x == << 1, 1, 0, 0 >>
           y == << 1, 2, 0, 0 >>
<1>1. Earlier(x, y) /\ ~Earlier(x, x) /\ ~Earlier(y, y)
  <2>1. Lex(1, 1, 0, 0, 1, 2, 0, 0) /\ ~Lex(1, 1, 0, 0, 1, 1, 0, 0) /\ ~Lex(1, 2, 0, 0, 1, 2, 0, 0)
    BY DEF Lex
  <2> QED
    BY <2>1, EarlierTuples
<1> HIDE DEF x, y
<1>2. Places = {x, y}
  BY DEF x, y
<1>3. List!Neighbours(x, y)
  BY <1>1, <1>2 DEF List!Neighbours
<1> QED
  BY <1>3 DEF x, y

\* The right button is a step forward of the list.
LEMMA ScreenForward ==
    ASSUME Screen, GoForward
    PROVE  Screen' /\ List!Forward
<1>1. /\ step > 0 /\ step < Len(flow) /\ Enter(step + 1) /\ UNCHANGED << tx, flow >>
      /\ seen' = seen \cup {Place'}
  BY DEF GoForward, Look
<1>2. CASE IsReview(flow) /\ tx \in Transactions /\ ReviewScreen
  <2>1. ReviewScreen' /\ Walks(Place, Place')
    BY <1>2, ForwardWalks
  <2>2. Screen' /\ Places' = Places /\ \A x : x \in Places <=> OnList(x)
    BY <1>1, <1>2, <2>1, ReviewStays
  <2> QED
    BY <1>1, <2>1, <2>2 DEF List!Forward, List!Neighbours, Walks, Neighbouring
<1>3. CASE IsRefusal(flow) /\ tx \in Transactions /\ RefusalScreen
  <2>1. step = 1 /\ Len(flow) = 2
    BY <1>1, <1>3 DEF IsRefusal, RefusalScreen
  <2>2. step' = 2 /\ UNCHANGED << mode, ctx, text >>
    BY <1>1, <1>3, <2>1 DEF Enter, IsRefusal
  <2>3. RefusalScreen'
    BY <1>3, <2>2 DEF RefusalScreen, At
  <2>4. /\ Screen' /\ Places' = Places /\ Place = << 1, 1, 0, 0 >> /\ Place' = << 1, 2, 0, 0 >>
        /\ Places = {<< 1, 1, 0, 0 >>, << 1, 2, 0, 0 >>}
    BY <1>1, <1>3, <2>1, <2>2, <2>3, RefusalStays
  <2> QED
    BY <1>1, <2>4, RefusalNeighbours DEF List!Forward
<1> QED
  BY <1>1, <1>2, <1>3 DEF Screen

\* The left button is a step back of the list.
LEMMA ScreenBack ==
    ASSUME Screen, GoBack
    PROVE  Screen' /\ List!Backward
<1>1. /\ step > 1 /\ Enter(step - 1) /\ UNCHANGED << tx, flow >> /\ seen' = seen \cup {Place'}
  BY DEF GoBack, Look
<1>2. CASE IsReview(flow) /\ tx \in Transactions /\ ReviewScreen
  <2>1. ReviewScreen' /\ Walks(Place', Place)
    BY <1>2, BackWalks
  <2>2. Screen' /\ Places' = Places /\ \A x : x \in Places <=> OnList(x)
    BY <1>1, <1>2, <2>1, ReviewStays
  <2> QED
    BY <1>1, <2>1, <2>2 DEF List!Backward, List!Neighbours, Walks, Neighbouring
<1>3. CASE IsRefusal(flow) /\ tx \in Transactions /\ RefusalScreen
  <2>1. step = 2
    BY <1>1, <1>3 DEF RefusalScreen
  <2>2. step' = 1 /\ UNCHANGED << mode, ctx, text >>
    BY <1>1, <1>3, <2>1 DEF Enter, IsRefusal
  <2>3. RefusalScreen'
    BY <1>3, <2>2 DEF RefusalScreen, At
  <2>4. /\ Screen' /\ Places' = Places /\ Place = << 1, 2, 0, 0 >> /\ Place' = << 1, 1, 0, 0 >>
        /\ Places = {<< 1, 1, 0, 0 >>, << 1, 2, 0, 0 >>}
    BY <1>1, <1>3, <2>1, <2>2, <2>3, RefusalStays
  <2> QED
    BY <1>1, <2>4, RefusalNeighbours DEF List!Backward
<1> QED
  BY <1>1, <1>2, <1>3 DEF Screen

\* Starting a review opens the list on its first place.
LEMMA ScreenOpens ==
    ASSUME Screen, StartSignTxUi
    PROVE  Screen' /\ List!Open
<1>1. PICK settings \in Settings : flow' = FlowOf(tx', settings)
  BY DEF StartSignTxUi
<1>2. /\ step = 0 /\ tx' \in Transactions /\ step' = 1 /\ seen' = {Place'}
      /\ mode' = "STATIC_SCREEN" /\ ctx' = At(0, START, -1, -1)
  BY DEF StartSignTxUi, ResetSignerDisplayState
<1>3. IsReview(flow') \/ IsRefusal(flow')
  BY <1>1, <1>2, FlowShape
<1>4. Screen'
  <2>1. CASE IsReview(flow')
    <3>1. IsReview(flow)'
      BY <2>1 DEF IsReview
    <3>2. Front' \in 1 .. 9
      <4>1. Len(flow') \in 6 .. 14
        BY <2>1 DEF IsReview, MAX_NUM_STEPS
      <4> QED
        BY <4>1 DEF Front
    <3>3. InFront'
      BY <1>2, <3>2 DEF InFront, At
    <3> QED
      BY <1>2, <3>1, <3>3 DEF Screen, ReviewScreen
  <2>2. CASE IsRefusal(flow')
    BY <1>2, <2>2 DEF Screen, IsRefusal, RefusalScreen, At
  <2> QED
    BY <1>3, <2>1, <2>2
<1>5. PlacesTyped' /\ OpensOnTop'
  <2>1. Screen' => PlacesTyped'
    BY PlacesType, PTL
  <2>2. Screen' => OpensOnTop'
    BY FirstIsOnTop, PTL
  <2> QED
    BY <1>4, <2>1, <2>2
<1>6. Place' \in Places' /\ \A p \in Places' \ {Place'} : Earlier(Place', p)
  BY <1>2, <1>5 DEF PlacesTyped, OpensOnTop, Earlier
<1>7. Place = Closed
  BY <1>2 DEF Place
<1> QED
  BY <1>2, <1>4, <1>6, <1>7 DEF List!Open

\* An answer, or a loss of power, closes the list.
LEMMA ScreenCloses ==
    ASSUME Screen, Answer \/ Restart
    PROVE  Screen' /\ List!Close
<1>1. step' = 0 /\ seen' = {}
  BY DEF Answer, Restart
<1>2. CASE Answer
  <2>1. UNCHANGED << tx, flow, mode >> /\ step # 0
    BY <1>2 DEF Answer
  <2>2. \/ flow' = << >>
        \/ IsReview(flow)'
        \/ IsRefusal(flow)'
    BY <2>1 DEF Screen, IsReview, IsRefusal
  <2> QED
    BY <1>1, <2>1, <2>2 DEF Screen, List!Close, Place, Places
<1>3. CASE Restart
  BY <1>1, <1>3 DEF Restart, Screen, List!Close, Place, Places
<1> QED
  BY <1>2, <1>3

\* When nothing changes, nothing does in the list.
LEMMA ScreenStays ==
    ASSUME Screen, UNCHANGED vars
    PROVE  Screen' /\ UNCHANGED List!vars
<1> USE DEF vars
<1>1. Places' = Places
  BY DEF Places, StaticPlace, SignerPlaces, Of, SignersSize
<1>2. Place' = Place
  BY DEF Place, StaticPlace
<1>3. UNCHANGED List!vars
  BY <1>1, <1>2 DEF List!vars
<1>4. ReviewScreen' <=> ReviewScreen
  BY DEF ReviewScreen, InFront, Among, Behind, Front, OnItem, EndOf, C, G, Of, SignersSize
<1>5. IsReview(flow)' <=> IsReview(flow)
  BY DEF IsReview
<1>6. IsRefusal(flow)' <=> IsRefusal(flow)
  BY DEF IsRefusal
<1>7. Screen'
  BY <1>4, <1>5, <1>6 DEF Screen, RefusalScreen
<1> QED
  BY <1>3, <1>7

\* Every step keeps the invariant and is a step of the list, or none.
LEMMA StepsOfTheList ==
    ASSUME Screen, [Next]_vars
    PROVE  Screen' /\ [List!Next]_(List!vars)
<1>1. CASE StartSignTxUi
  BY <1>1, ScreenOpens DEF List!Next
<1>2. CASE GoForward
  BY <1>2, ScreenForward DEF List!Next
<1>3. CASE GoBack
  BY <1>3, ScreenBack DEF List!Next
<1>4. CASE Answer \/ Restart
  BY <1>4, ScreenCloses DEF List!Next
<1>5. CASE UNCHANGED vars
  BY <1>5, ScreenStays
<1> QED
  BY <1>1, <1>2, <1>3, <1>4, <1>5 DEF Next

\* The list begins closed.
LEMMA Beginning == Init => Screen /\ List!Init
  BY DEF Init, Screen, List!Init, Place, Places, IsReview, IsRefusal

\* The screens named above are all there are.
LEMMA ScreenInvariant == Spec => []Screen
<1>1. Screen /\ [Next]_vars => Screen'
  BY StepsOfTheList
<1> QED
  BY Beginning, <1>1, PTL DEF Spec

\* However many signers, contracts and groups there are, no delimiter is ever
\* displayed and the indices of display_ctx stay in the range of the arrays they
\* are used for, or one step outside of them.
THEOREM TypeTheorem == Spec => []TypeOK
<1>1. Screen => TypeOK
  <2> SUFFICES ASSUME Screen
               PROVE  TypeOK
    OBVIOUS
  <2>1. CASE step = 0
    <3>1. Len(flow) \in 0 .. 14
      BY <2>1 DEF Screen, IsReview, IsRefusal, MAX_NUM_STEPS
    <3> DEFINE n == Len(flow)
    <3> HIDE DEF n
    <3>2. ~(step > 0) /\ step \in 0 .. n /\ n + 1 <= 14 + 1
      <4>1. n \in 0 .. 14
        BY <3>1 DEF n
      <4> QED
        BY <2>1, <4>1
    <3>3. tx \in Transactions \cup {NoTx} /\ mode \in {"STATIC_SCREEN", "DYNAMIC_SCREEN"}
      BY DEF Screen
    <3> QED
      BY <3>2, <3>3, Zenon DEF TypeOK, MAX_NUM_STEPS, n
  <2>2. CASE IsReview(flow) /\ tx \in Transactions /\ ReviewScreen
    <3>1. Front \in 1 .. 9 /\ Len(flow) = Front + 5 /\ SignersSize \in Nat \ {0}
      BY <2>2, ReviewLayout, SignersType
    <3>2. Displayed
      BY <2>2, ReviewDisplays
    <3>3. step \in 1 .. Front + 5 /\ flow[step] \notin {"upper_delimiter", "lower_delimiter"}
      <4>1. step \in 1 .. Front \/ step \in {Front + 2, Front + 4, Front + 5}
        BY <2>2 DEF ReviewScreen, InFront, Among, Behind
      <4>2. CASE step \in 1 .. Front
        BY <2>2, <3>1, <4>2, ReviewLayout DEF Reserved, Hidden
      <4>3. CASE step \in {Front + 2, Front + 4, Front + 5}
        BY <2>2, <3>1, <4>3, ReviewLayout
      <4> QED
        BY <4>1, <4>2, <4>3
    <3>4. /\ ctx.s \in 0 .. SignersSize - 1 /\ ctx.p \in 0 .. 6
          /\ ctx.c \in -1 .. C(ctx.s) /\ ctx.g \in -1 .. G(ctx.s)
      <4>1. CASE InFront
        <5>1. ctx.s = 0 /\ ctx.p = 0 /\ ctx.c = -1 /\ ctx.g = -1
          BY <4>1 DEF InFront, At, START
        <5> QED
          BY <2>2, <3>1, <5>1, SignersType
      <4>2. ASSUME NEW s \in Int, NEW p \in Int, NEW c \in Int, NEW g \in Int, Among(s, p, c, g)
            PROVE  /\ ctx.s \in 0 .. SignersSize - 1 /\ ctx.p \in 0 .. 6
                   /\ ctx.c \in -1 .. C(ctx.s) /\ ctx.g \in -1 .. G(ctx.s)
        <5>1. ctx.s = s /\ ctx.p = p /\ ctx.c = c /\ ctx.g = g /\ OnItem(s, p, c, g)
          BY <4>2 DEF Among, At
        <5> QED
          BY <2>2, <5>1, SignersType DEF OnItem
      <4>3. CASE Behind
        <5>1. /\ ctx.s = SignersSize - 1 /\ ctx.p = 6
              /\ ctx.c = C(SignersSize - 1) /\ ctx.g = G(SignersSize - 1)
          BY <4>3 DEF Behind, EndOf, At, END
        <5> QED
          BY <2>2, <3>1, <5>1, SignersType
      <4> QED
        BY <2>2, <4>1, <4>2, <4>3 DEF ReviewScreen
    <3> QED
      BY <2>2, <3>1, <3>2, <3>3, <3>4
      DEF TypeOK, Displayed, MAX_NUM_STEPS, START, END, C, G
  <2>3. CASE IsRefusal(flow) /\ tx \in Transactions /\ RefusalScreen
    <3>1. SignersSize \in Nat \ {0} /\ C(0) \in Nat /\ G(0) \in Nat
      BY <2>3, SignersType
    <3>2. ctx.s = 0 /\ ctx.p = 0 /\ ctx.c = -1 /\ ctx.g = -1
      BY <2>3 DEF RefusalScreen, At, START
    <3>3. /\ ctx.s \in 0 .. SignersSize - 1 /\ ctx.p \in 0 .. 6
          /\ ctx.c \in -1 .. C(ctx.s) /\ ctx.g \in -1 .. G(ctx.s)
      BY <3>1, <3>2
    <3>4. /\ Len(flow) = 2 /\ step \in {1, 2}
          /\ flow[step] \notin {"upper_delimiter", "lower_delimiter"}
      BY <2>3 DEF IsRefusal, RefusalScreen
    <3> QED
      BY <2>3, <3>3, <3>4 DEF TypeOK, RefusalScreen, MAX_NUM_STEPS, START, END, C, G
  <2> QED
    BY <2>1, <2>2, <2>3 DEF Screen
<1> QED
  BY <1>1, ScreenInvariant, PTL

\* The buttons walk along the items of the review in their order, both ways,
\* skipping none: what is displayed follows ReviewList.
THEOREM WalkTheorem == Spec => BrowsesInOrder
<1>1. Screen /\ [Next]_vars => [List!Next]_(List!vars)
  BY StepsOfTheList
<1> QED
  BY Beginning, ScreenInvariant, <1>1, PTL DEF Spec, BrowsesInOrder, List!Spec

\* What was passed has been seen.
SeenSoFar == step > 0 => \A p \in Places : p = Place \/ Earlier(p, Place) => p \in seen

\* On the step that approves, everything in front of it was displayed since the
\* review was opened, of every signer.
THEOREM ShownTheorem == Spec => []EverythingShownBeforeApproval
<1>1. Init => SeenSoFar
  BY DEF Init, SeenSoFar
<1>2. Screen /\ SeenSoFar /\ [Next]_vars => SeenSoFar'
  <2> SUFFICES ASSUME Screen, SeenSoFar, [Next]_vars, step' > 0, NEW p \in Places',
                      p = Place' \/ Earlier(p, Place')
               PROVE  p \in seen'
    BY DEF SeenSoFar, Earlier
  <2>1. Screen' /\ [List!Next]_(List!vars)
    BY StepsOfTheList
  <2>2. Place' \in Places' /\ Places' \subseteq Tuples
    <3>1. Screen' => PlacesTyped'
      BY PlacesType, PTL
    <3> QED
      BY <2>1, <3>1 DEF PlacesTyped
  <2>3. ASSUME step > 0
        PROVE  /\ Place \in Places /\ Places \subseteq Tuples
               /\ \A q \in Places : q = Place \/ Earlier(q, Place) => q \in seen
    BY <2>3, PlacesType DEF PlacesTyped, SeenSoFar
  <2>4. step = 0 => Places = {}
    BY DEF Places
  <2>5. step = 0 \/ step > 0
    BY ReviewDisplays DEF Screen, Displayed, RefusalScreen
  <2>6. CASE List!Open
    <3>1. seen' = {Place'} /\ (p # Place' => Earlier(Place', p))
      BY <2>6 DEF List!Open
    <3>2. p = Place'
      BY <2>2, <3>1, EarlierIsTransitive, EarlierIsIrreflexive
    <3> QED
      BY <3>1, <3>2
  <2>7. CASE List!Forward
    <3>1. /\ Place \in Places /\ Places' = Places /\ seen' = seen \cup {Place'}
          /\ ~(Earlier(Place, p) /\ Earlier(p, Place'))
      BY <2>7 DEF List!Forward, List!Neighbours
    <3>2. step > 0
      BY <2>4, <2>5, <3>1
    <3>3. p = Place' \/ p = Place \/ Earlier(p, Place)
      BY <2>2, <3>1, EarlierIsTotal
    <3> QED
      BY <2>3, <3>1, <3>2, <3>3
  <2>8. CASE List!Backward
    <3>1. /\ Place \in Places /\ Places' = Places /\ seen' = seen \cup {Place'}
          /\ Earlier(Place', Place)
      BY <2>8 DEF List!Backward, List!Neighbours
    <3>2. step > 0
      BY <2>4, <2>5, <3>1
    <3>3. p = Place' \/ Earlier(p, Place)
      BY <2>2, <3>1, EarlierIsTransitive
    <3> QED
      BY <2>3, <3>1, <3>2, <3>3
  <2>9. CASE List!Close
    BY <2>9 DEF List!Close
  <2>10. CASE UNCHANGED List!vars
    <3>1. Places' = Places /\ Place' = Place /\ seen' = seen
      BY <2>10 DEF List!vars
    <3>2. step > 0
      BY <2>4, <2>5, <3>1
    <3> QED
      BY <2>3, <3>1, <3>2
  <2> QED
    BY <2>1, <2>6, <2>7, <2>8, <2>9, <2>10 DEF List!Next
<1>3. Screen /\ SeenSoFar => EverythingShownBeforeApproval
  <2> SUFFICES ASSUME Screen, SeenSoFar, step > 0, NEW p \in Places
               PROVE  p \in seen \/ Earlier(Place, p)
    BY DEF EverythingShownBeforeApproval
  <2>1. Place \in Tuples /\ p \in Tuples
    BY PlacesType DEF PlacesTyped
  <2> QED
    BY <2>1, EarlierIsTotal DEF SeenSoFar
<1> QED
  BY <1>1, <1>2, <1>3, ScreenInvariant, PTL DEF Spec
=============================================================================
