------------------------- MODULE ReviewTextsProofs -------------------------
(***************************************************************************)
(* Proofs about ReviewTexts: every number of a review is written whole and *)
(* with its point in its place, whatever the transaction.                  *)
(***************************************************************************)
EXTENDS ReviewTexts, SequenceTheorems, WellFoundedInduction, TLAPS

---------------------------------------------------------------------------
(* The digits of a number                                                  *)

Below == {ss \in Nat \X Nat : ss[1] < ss[2]}

\* A set of places that is not empty has a first one.
LEMMA FirstPlace ==
    ASSUME NEW T \in SUBSET Places, T # {}
    PROVE  \E i \in T : \A j \in T : i <= j
<1>1. IsWellFoundedOn(Below, Nat)
  BY NatLessThanWellFounded DEF OpToRel, Below
<1>2. T \subseteq Nat
  BY DEF Places
<1>3. PICK i \in T : \A j \in T : ~(<< j, i >> \in Below)
  BY <1>1, <1>2, WFMin, Zenon
<1>4. ASSUME NEW j \in T PROVE i <= j
  <2>1. i \in Nat /\ j \in Nat
    BY <1>2
  <2>2. << j, i >> \in Below <=> j < i
    BY <2>1 DEF Below
  <2> QED
    BY <1>3, <2>1, <2>2
<1> QED
  BY <1>4

\* The place a number starts at: what format_u64 chooses.
Leads(value, i) ==
    /\ i = 20 \/ value[i] # 0
    /\ \A j \in Places : j < i => value[j] = 0

\* A number has a place it starts at.
LEMMA LeadExists ==
    ASSUME NEW value \in Amount
    PROVE  \E i \in Places : Leads(value, i)
<1> DEFINE T == {i \in Places : i = 20 \/ value[i] # 0}
<1>1. T \in SUBSET Places /\ 20 \in T
  BY DEF Places
<1>2. PICK i \in T : \A j \in T : i <= j
  BY <1>1, FirstPlace
<1>3. ASSUME NEW j \in Places, j < i PROVE value[j] = 0
  <2>1. j \notin T
    BY <1>2, <1>3 DEF Places
  <2> QED
    BY <2>1
<1> QED
  BY <1>2, <1>3 DEF Leads

\* format_u64 writes the number from there on.
LEMMA Digits ==
    ASSUME NEW value \in Amount
    PROVE  \E lead \in Places :
             /\ Leads(value, lead)
             /\ format_u64(value) \in Seq(Digit)
             /\ Len(format_u64(value)) = 21 - lead
             /\ \A i \in 1 .. (21 - lead) : format_u64(value)[i] = value[lead + i - 1]
<1> DEFINE lead == CHOOSE i \in Places : Leads(value, i)
<1>1. lead \in Places /\ Leads(value, lead)
  BY LeadExists
<1>2. format_u64(value) = SubSeq(value, lead, 20)
  BY DEF format_u64, Leads
<1>3. \A i \in Places : value[i] \in Digit
  BY DEF Amount
<1>4. lead \in 1 .. 20
  BY <1>1 DEF Places
<1> HIDE DEF lead
<1>5. \A i \in lead .. 20 : value[i] \in Digit
  BY <1>3, <1>4 DEF Places
<1>6. /\ SubSeq(value, lead, 20) \in Seq(Digit)
      /\ Len(SubSeq(value, lead, 20)) = 20 - lead + 1
      /\ \A i \in 1 .. 20 - lead + 1 : SubSeq(value, lead, 20)[i] = value[lead + i - 1]
  BY <1>4, <1>5, SubSeqProperties
<1>7. 20 - lead + 1 = 21 - lead
  BY <1>4
<1> QED
  BY <1>1, <1>2, <1>6, <1>7

---------------------------------------------------------------------------
(* format_amount                                                           *)

\* The longest number with the most decimals asks for 29 bytes of 30.
LEMMA EveryAmountFits ==
    ASSUME NEW value \in Amount, NEW d \in {0, 8}
    PROVE  Fits(AMOUNTS_MAX_SIZE, Len(format_u64(value)), d)
<1>1. PICK lead \in Places : Len(format_u64(value)) = 21 - lead
  BY Digits
<1>2. Len(format_u64(value)) \in 1 .. 20
  BY <1>1 DEF Places
<1> DEFINE n == Len(format_u64(value))
<1> HIDE DEF n
<1>3. n \in 1 .. 20 => Fits(30, n, d)
  BY DEF Fits
<1> QED
  BY <1>2, <1>3 DEF n, AMOUNTS_MAX_SIZE

Chars == 0 .. Dot

\* What Cut keeps of a text that is short enough.
LEMMA CutNothing ==
    ASSUME NEW text \in Seq(Chars), NEW n \in Nat, Len(text) <= n
    PROVE  Cut(text, n) = text
<1>1. Cut(text, n) = SubSeq(text, 1, Len(text))
  BY DEF Cut
<1>2. Len(text) \in Nat /\ \A i \in 1 .. Len(text) : text[i] \in Chars
  BY ElementOfSeq
<1>3. /\ SubSeq(text, 1, Len(text)) \in Seq(Chars)
      /\ Len(SubSeq(text, 1, Len(text))) = Len(text)
      /\ \A i \in 1 .. Len(text) : SubSeq(text, 1, Len(text))[i] = text[i]
  BY <1>2, SubSeqProperties
<1> QED
  BY <1>1, <1>3

\* A text after another: the places of the second follow those of the first.
LEMMA Joined ==
    ASSUME NEW s \in Seq(Chars), NEW t \in Seq(Chars)
    PROVE  /\ s \o t \in Seq(Chars) /\ Len(s \o t) = Len(s) + Len(t)
           /\ \A i \in 1 .. Len(s) : (s \o t)[i] = s[i]
           /\ \A i \in 1 .. Len(t) : (s \o t)[Len(s) + i] = t[i]
<1>1. /\ s \o t \in Seq(Chars) /\ Len(s \o t) = Len(s) + Len(t)
      /\ \A i \in 1 .. Len(s) + Len(t) : (s \o t)[i] = IF i <= Len(s) THEN s[i] ELSE t[i - Len(s)]
  BY ConcatProperties
<1>2. Len(s) \in Nat /\ Len(t) \in Nat
  OBVIOUS
<1>3. ASSUME NEW i \in 1 .. Len(t) PROVE (s \o t)[Len(s) + i] = t[i]
  <2>1. /\ Len(s) + i \in 1 .. Len(s) + Len(t) /\ ~(Len(s) + i <= Len(s))
        /\ (Len(s) + i) - Len(s) = i
    BY <1>2
  <2> QED
    BY <1>1, <2>1
<1>4. ASSUME NEW i \in 1 .. Len(s) PROVE (s \o t)[i] = s[i]
  BY <1>1, <1>2
<1> QED
  BY <1>1, <1>3, <1>4

ShortText(k, b) == << 0, Dot >> \o Zeros(k) \o b
LongText(s, t)  == s \o << Dot >> \o t

\* A number of no more digits than decimals: "0.", zeros, the digits.
LEMMA ShortAmount ==
    ASSUME NEW b \in Seq(Chars), NEW n \in 1 .. 20, NEW k \in Nat, n = Len(b), n + k = 8
    PROVE  /\ ShortText(k, b) \in Seq(Chars)
           /\ Len(ShortText(k, b)) = 10
           /\ ShortText(k, b)[1] = 0 /\ ShortText(k, b)[2] = Dot
           /\ \A i \in 1 .. k : ShortText(k, b)[2 + i] = 0
           /\ \A i \in 1 .. n : ShortText(k, b)[2 + k + i] = b[i]
<1> DEFINE front == << 0, Dot >>
           both  == front \o Zeros(k)
           text  == both \o b
<1>1. front \in Seq(Chars) /\ Len(front) = 2 /\ front[1] = 0 /\ front[2] = Dot
  BY DEF Chars, Dot
<1>2. Zeros(k) \in Seq(Chars) /\ Len(Zeros(k)) = k /\ \A i \in 1 .. k : Zeros(k)[i] = 0
  BY DEF Zeros, Chars, Dot
<1> HIDE DEF front
<1>3. /\ both \in Seq(Chars) /\ Len(both) = Len(front) + Len(Zeros(k))
      /\ \A i \in 1 .. Len(front) : both[i] = front[i]
      /\ \A i \in 1 .. Len(Zeros(k)) : both[Len(front) + i] = Zeros(k)[i]
  BY <1>1, <1>2, Joined, Zenon
<1>4. both[1] = 0 /\ both[2] = Dot /\ \A i \in 1 .. k : both[2 + i] = 0
  BY <1>1, <1>2, <1>3
<1>5. Len(both) = 2 + k
  BY <1>1, <1>2, <1>3
<1> HIDE DEF both
<1>6. /\ text \in Seq(Chars) /\ Len(text) = Len(both) + Len(b)
      /\ \A i \in 1 .. Len(both) : text[i] = both[i]
      /\ \A i \in 1 .. Len(b) : text[Len(both) + i] = b[i]
  BY <1>3, Joined, Zenon
<1> HIDE DEF text
<1>7. text[1] = 0 /\ text[2] = Dot /\ \A i \in 1 .. k : text[2 + i] = 0
  BY <1>4, <1>5, <1>6
<1>8. Len(text) = 10 /\ \A i \in 1 .. n : text[2 + k + i] = b[i]
  BY <1>5, <1>6
<1> QED
  BY <1>6, <1>7, <1>8 DEF text, both, front, ShortText

\* A number of more digits than decimals: digits, the point, what is after it.
LEMMA LongAmount ==
    ASSUME NEW s \in Seq(Chars), NEW t \in Seq(Chars),
           NEW m \in Nat, NEW n \in Nat, m = Len(s), n = Len(t)
    PROVE  /\ LongText(s, t) \in Seq(Chars)
           /\ Len(LongText(s, t)) = m + 1 + n
           /\ LongText(s, t)[m + 1] = Dot
           /\ \A i \in 1 .. m : LongText(s, t)[i] = s[i]
           /\ \A i \in 1 .. n : LongText(s, t)[m + 1 + i] = t[i]
<1> DEFINE point == << Dot >>
           both  == s \o point
           text  == both \o t
<1>1. point \in Seq(Chars) /\ Len(point) = 1 /\ point[1] = Dot
  BY DEF Chars, Dot
<1> HIDE DEF point
<1>2. /\ both \in Seq(Chars) /\ Len(both) = Len(s) + Len(point)
      /\ \A i \in 1 .. Len(s) : both[i] = s[i]
      /\ \A i \in 1 .. Len(point) : both[Len(s) + i] = point[i]
  BY <1>1, Joined, Zenon
<1>3. Len(both) = m + 1 /\ both[m + 1] = Dot
  BY <1>1, <1>2
<1> HIDE DEF both
<1>4. /\ text \in Seq(Chars) /\ Len(text) = Len(both) + Len(t)
      /\ \A i \in 1 .. Len(both) : text[i] = both[i]
      /\ \A i \in 1 .. Len(t) : text[Len(both) + i] = t[i]
  BY <1>2, Joined, Zenon
<1> HIDE DEF text
<1>5. text[m + 1] = Dot /\ \A i \in 1 .. m : text[i] = s[i]
  BY <1>2, <1>3, <1>4
<1>6. Len(text) = m + 1 + n /\ \A i \in 1 .. n : text[m + 1 + i] = t[i]
  BY <1>3, <1>4
<1> QED
  BY <1>4, <1>5, <1>6 DEF text, both, point, LongText

\* What the numbers of a text stand for, when it has no more than 8 digits.
LEMMA ShortShows ==
    ASSUME NEW value \in Amount, NEW lead \in Places, Leads(value, lead), lead >= 13,
           NEW text \in Seq(Chars), Len(text) = 10, text[1] = 0, text[2] = Dot,
           \A i \in 1 .. (lead - 13) : text[2 + i] = 0,
           \A i \in 1 .. (21 - lead) : text[2 + (lead - 13) + i] = value[lead + i - 1]
    PROVE  Shows(text, value, 8)
<1>1. lead \in 13 .. 20 /\ DOMAIN text = 1 .. 10
  BY DEF Places
<1>2. ASSUME NEW i \in 13 .. 20 PROVE value[i] = text[i - 10]
  <2>1. CASE i < lead
    <3>1. i - 12 \in 1 .. (lead - 13) /\ 2 + (i - 12) = i - 10
      BY <1>1, <2>1
    <3>2. text[i - 10] = 0
      BY <3>1
    <3>3. value[i] = 0
      <4>1. i \in Places
        BY DEF Places
      <4> QED
        BY <2>1, <4>1 DEF Leads
    <3> QED
      BY <3>2, <3>3
  <2>2. CASE i >= lead
    <3>1. /\ i - lead + 1 \in 1 .. (21 - lead)
          /\ 2 + (lead - 13) + (i - lead + 1) = i - 10 /\ lead + (i - lead + 1) - 1 = i
      BY <1>1, <2>2
    <3> QED
      BY <3>1
  <2> QED
    BY <1>1, <2>1, <2>2
<1>3. ASSUME NEW i \in 1 .. 12 PROVE value[i] = 0
  BY <1>1 DEF Leads, Places
<1>4. ASSUME NEW i \in Places
      PROVE  value[i] = IF 20 - i < 8 THEN text[2 + (8 - (20 - i))]
                        ELSE IF (20 - i) - 8 < 1 THEN text[1 - ((20 - i) - 8)] ELSE 0
  <2>1. CASE i \in 13 .. 20
    <3>1. 20 - i < 8 /\ 2 + (8 - (20 - i)) = i - 10
      BY <2>1
    <3> QED
      BY <1>2, <2>1, <3>1
  <2>2. CASE i = 12
    <3>1. ~(20 - i < 8) /\ (20 - i) - 8 < 1 /\ 1 - ((20 - i) - 8) = 1
      BY <2>2
    <3> QED
      BY <1>3, <2>2, <3>1
  <2>3. CASE i \in 1 .. 11
    <3>1. ~(20 - i < 8) /\ ~((20 - i) - 8 < 1)
      BY <2>3
    <3>2. i \in 1 .. 12
      BY <2>3
    <3>3. value[i] = 0
      BY <1>3, <3>2, Zenon
    <3> QED
      BY <3>1, <3>3
  <2> QED
    BY <2>1, <2>2, <2>3 DEF Places
<1> QED
  BY <1>1, <1>4 DEF Shows

\* And when it has more digits than decimals.
LEMMA LongShows ==
    ASSUME NEW value \in Amount, NEW lead \in Places, Leads(value, lead), NEW d \in {0, 8},
           NEW whole \in Nat, whole = 21 - lead - d, whole >= 1,
           NEW text \in Seq(Chars), Len(text) = whole + 1 + (IF d = 0 THEN 1 ELSE d),
           text[whole + 1] = Dot,
           \A i \in 1 .. whole : text[i] = value[lead + i - 1],
           \A i \in 1 .. d : text[whole + 1 + i] = value[20 - d + i],
           d = 0 => text[whole + 2] = 0
    PROVE  Shows(text, value, d)
<1>1. lead \in 1 .. 20 /\ lead + whole + d = 21
  BY DEF Places
<1>2. ASSUME NEW i \in Places
      PROVE  LET place == 20 - i
             IN  value[i] = IF place < d THEN text[whole + 1 + (d - place)]
                            ELSE IF place - d < whole THEN text[whole - (place - d)] ELSE 0
  <2>1. CASE 20 - i < d
    <3>1. d - (20 - i) \in 1 .. d /\ 20 - d + (d - (20 - i)) = i
      BY <2>1 DEF Places
    <3> QED
      BY <2>1, <3>1
  <2>2. CASE ~(20 - i < d) /\ (20 - i) - d < whole
    <3>1. /\ whole - ((20 - i) - d) \in 1 .. whole
          /\ lead + (whole - ((20 - i) - d)) - 1 = i
      BY <1>1, <2>2 DEF Places
    <3> QED
      BY <2>2, <3>1
  <2>3. CASE ~(20 - i < d) /\ ~((20 - i) - d < whole)
    <3>1. i < lead
      BY <1>1, <2>3 DEF Places
    <3> QED
      BY <2>3, <3>1 DEF Leads
  <2> QED
    BY <2>1, <2>2, <2>3
<1>3. text[1] = 0 => whole = 1
  <2>1. text[1] = value[lead]
    <3>1. 1 \in 1 .. whole /\ lead + 1 - 1 = lead
      BY <1>1
    <3> QED
      BY <3>1
  <2> QED
    BY <1>1, <2>1 DEF Leads
<1> DEFINE dot == whole + 1
<1>4. /\ dot \in DOMAIN text /\ dot - 1 = whole
      /\ Len(text) - dot = (IF d = 0 THEN 1 ELSE d)
      /\ text[dot] = Dot /\ (d = 0 => text[dot + 1] = 0)
  OBVIOUS
<1>5. /\ \A i \in Places :
            LET place == 20 - i
            IN  value[i] = IF place < d THEN text[dot + (d - place)]
                           ELSE IF place - d < dot - 1 THEN text[dot - 1 - (place - d)] ELSE 0
  BY <1>2, <1>4
<1> HIDE DEF dot
<1>6. dot - 1 >= 1 /\ (text[1] = 0 => dot - 1 = 1)
  BY <1>3, <1>4
<1> QED
  BY <1>4, <1>5, <1>6 DEF Shows

\* A number of any size, with the decimals of either token, is shown as it is.
LEMMA EveryAmountShows ==
    ASSUME NEW value \in Amount, NEW d \in {0, 8}
    PROVE  Shows(Cut(format_amount(AMOUNTS_MAX_SIZE, value, d), AMOUNTS_MAX_SIZE - 5), value, d)
<1> DEFINE b == format_u64(value)
           n == Len(b)
<1>1. PICK lead \in Places :
        /\ Leads(value, lead)
        /\ b \in Seq(Digit) /\ n = 21 - lead
        /\ \A i \in 1 .. (21 - lead) : b[i] = value[lead + i - 1]
  BY Digits
<1>2. b \in Seq(Chars) /\ n \in 1 .. 20 /\ lead \in 1 .. 20
  <2>1. Digit \subseteq Chars
    BY DEF Digit, Chars, Dot
  <2> QED
    BY <1>1, <2>1, SeqMonotonic DEF Places
<1> DEFINE text == format_amount(30, value, d)
<1>3. CASE n <= d
  <2> HIDE DEF n
  <2>1. d = 8 /\ n \in 1 .. 8 /\ 8 - n \in Nat /\ n + (8 - n) = 8
    BY <1>2, <1>3
  <2>2. text = << 0, Dot >> \o Zeros(8 - n) \o Cut(b, 30 - (2 + (8 - n)))
    BY <1>3, <2>1 DEF format_amount, n
  <2>3. Cut(b, 30 - (2 + (8 - n))) = b
    <3>1. 30 - (2 + (8 - n)) \in Nat /\ n <= 30 - (2 + (8 - n))
      BY <2>1
    <3> QED
      BY <1>2, <3>1, CutNothing DEF n
  <2> HIDE DEF text, b
  <2>4. /\ text \in Seq(Chars) /\ Len(text) = 10 /\ text[1] = 0 /\ text[2] = Dot
        /\ \A i \in 1 .. (8 - n) : text[2 + i] = 0
        /\ \A i \in 1 .. n : text[2 + (8 - n) + i] = b[i]
    <3> DEFINE k == 8 - n
    <3>1. k \in Nat /\ n + k = 8 /\ n = Len(b)
      BY <2>1 DEF n
    <3>2. text = ShortText(k, b)
      BY <2>2, <2>3 DEF ShortText
    <3> HIDE DEF k
    <3>3. /\ text \in Seq(Chars) /\ Len(text) = 10 /\ text[1] = 0 /\ text[2] = Dot
          /\ \A i \in 1 .. k : text[2 + i] = 0
          /\ \A i \in 1 .. n : text[2 + k + i] = b[i]
      BY <1>2, <3>1, <3>2, ShortAmount
    <3> QED
      BY <3>3 DEF k
  <2>5. 8 - n = lead - 13 /\ lead >= 13
    BY <1>1, <1>2, <2>1
  <2>6. Shows(text, value, 8)
    <3>1. \A i \in 1 .. (21 - lead) : text[2 + (lead - 13) + i] = value[lead + i - 1]
      BY <1>1, <2>4, <2>5
    <3>2. \A i \in 1 .. (lead - 13) : text[2 + i] = 0
      BY <2>4, <2>5
    <3> QED
      BY <1>1, <2>4, <2>5, <3>1, <3>2, ShortShows
  <2>7. Cut(text, 25) = text
    <3>1. text \in Seq(Chars) /\ Len(text) <= 25 /\ 25 \in Nat
      BY <2>4
    <3> QED
      BY <3>1, CutNothing
  <2> QED
    BY <2>1, <2>6, <2>7 DEF text, AMOUNTS_MAX_SIZE
<1>4. CASE n > d
  <2> DEFINE whole == n - d
             s == SubSeq(b, 1, whole)
             t == IF d = 0 THEN << 0 >> ELSE SubSeq(b, whole + 1, n)
             m == IF d = 0 THEN 1 ELSE d
  <2>0. \A i \in 1 .. n : b[i] \in Chars
    BY <1>2, ElementOfSeq
  <2>1. /\ whole \in 1 .. 20 /\ whole = 21 - lead - d /\ ~(n <= d)
        /\ \A i \in 1 .. n : b[i] \in Chars
    <3>1. n = 21 - lead
      BY <1>1
    <3> HIDE DEF b, n
    <3> HIDE DEF s, t, m, text
    <3>2. whole \in 1 .. 20 /\ whole = 21 - lead - d /\ ~(n <= d)
      BY <1>2, <1>4, <3>1
    <3> QED
      BY <2>0, <3>2
  <2>2. text = s \o << Dot >> \o t
    BY <2>1 DEF format_amount
  <2>3. s \in Seq(Chars) /\ Len(s) = whole /\ \A i \in 1 .. whole : s[i] = b[i]
    <3> HIDE DEF b, n, whole
    <3>1. whole \in Int /\ 1 \in Int /\ 1 <= whole /\ whole - 1 + 1 = whole
      BY <2>1
    <3>2. \A i \in 1 .. whole : b[i] \in Chars
      BY <1>2, <1>4, <2>1 DEF whole
    <3>3. /\ SubSeq(b, 1, whole) \in Seq(Chars) /\ Len(SubSeq(b, 1, whole)) = whole - 1 + 1
          /\ \A i \in 1 .. whole - 1 + 1 : SubSeq(b, 1, whole)[i] = b[1 + i - 1]
      BY <3>1, <3>2, SubSeqProperties
    <3> QED
      BY <3>1, <3>3
  <2>4. /\ t \in Seq(Chars) /\ Len(t) = m /\ (d = 0 => t[1] = 0)
        /\ \A i \in 1 .. d : t[i] = b[whole + i]
    <3>1. CASE d = 0
      BY <3>1 DEF Chars, Dot
    <3>2. CASE d = 8
      <4> HIDE DEF b, n
      <4>1. whole + 1 \in Int /\ n \in Int /\ whole + 1 <= n /\ n - (whole + 1) + 1 = 8
        BY <1>2, <1>4, <3>2
      <4>2. \A i \in (whole + 1) .. n : b[i] \in Chars
        BY <1>2, <2>1
      <4>3. /\ SubSeq(b, whole + 1, n) \in Seq(Chars)
            /\ Len(SubSeq(b, whole + 1, n)) = n - (whole + 1) + 1
            /\ \A i \in 1 .. n - (whole + 1) + 1 :
                  SubSeq(b, whole + 1, n)[i] = b[(whole + 1) + i - 1]
        BY <4>1, <4>2, SubSeqProperties
      <4>4. t = SubSeq(b, whole + 1, n)
        BY <3>2
      <4> HIDE DEF t, whole, s, text, m
      <4>5. \A i \in 1 .. 8 : (whole + 1) + i - 1 = whole + i
        BY <2>1
      <4>6. t \in Seq(Chars) /\ Len(t) = 8
        BY <4>1, <4>3, <4>4
      <4>7. \A i \in 1 .. 8 : t[i] = b[whole + i]
        BY <4>1, <4>3, <4>4, <4>5
      <4>8. m = 8
        BY <3>2 DEF m
      <4> QED
        BY <3>2, <4>6, <4>7, <4>8
    <3> QED
      BY <3>1, <3>2
  <2>5. m \in Nat /\ whole \in Nat /\ (d = 0 => m = 1) /\ (d = 8 => m = 8)
    BY <2>1
  <2> HIDE DEF text, s, t, b, n, whole, m
  <2>6. /\ text \in Seq(Chars) /\ Len(text) = whole + 1 + m /\ text[whole + 1] = Dot
        /\ \A i \in 1 .. whole : text[i] = s[i]
        /\ \A i \in 1 .. m : text[whole + 1 + i] = t[i]
    <3>1. whole = Len(s) /\ m = Len(t)
      BY <2>3, <2>4
    <3>2. text = LongText(s, t)
      BY <2>2 DEF LongText
    <3> QED
      BY <2>3, <2>4, <2>5, <3>1, <3>2, LongAmount
  <2>7. ASSUME NEW i \in 1 .. whole PROVE text[i] = value[lead + i - 1]
    <3>1. text[i] = b[i]
      BY <2>3, <2>6
    <3>2. i \in 1 .. (21 - lead)
      BY <1>2, <2>1
    <3> QED
      BY <1>1, <3>1, <3>2
  <2>8. ASSUME NEW i \in 1 .. d PROVE text[whole + 1 + i] = value[20 - d + i]
    <3>0. i \in 1 .. m
      BY <2>5
    <3>1. i \in 1 .. m /\ whole + i \in 1 .. (21 - lead) /\ lead + (whole + i) - 1 = 20 - d + i
      BY <1>2, <2>1, <3>0
    <3> QED
      BY <1>1, <2>4, <2>6, <3>1
  <2>9. d = 0 => text[whole + 2] = 0
    <3>1. d = 0 => 1 \in 1 .. m /\ whole + 1 + 1 = whole + 2
      BY <2>5
    <3> QED
      BY <2>4, <2>6, <3>1
  <2>10. Shows(text, value, d)
    <3>1. whole >= 1
      BY <2>1
    <3>2. m = (IF d = 0 THEN 1 ELSE d)
      BY DEF m
    <3>3. Len(text) = whole + 1 + (IF d = 0 THEN 1 ELSE d)
      BY <2>6, <3>2, Zenon
    <3>4. Leads(value, lead) /\ whole = 21 - lead - d
      BY <1>1, <2>1
    <3>5. text \in Seq(Chars) /\ text[whole + 1] = Dot
      BY <2>6
    <3> HIDE DEF Shows, Leads
    <3> QED
      BY <2>5, <2>7, <2>8, <2>9, <3>1, <3>3, <3>4, <3>5, LongShows
  <2>11. Cut(text, 25) = text
    <3>1. Len(text) <= 25
      BY <1>2, <2>1, <2>5, <2>6 DEF whole
    <3> QED
      BY <2>6, <3>1, CutNothing
  <2> QED
    BY <2>10, <2>11 DEF text, AMOUNTS_MAX_SIZE
<1> QED
  BY <1>2, <1>3, <1>4

---------------------------------------------------------------------------
(* The total                                                               *)

\* A column carries by itself, or passes on the carry of the next.
LEMMA CarryStep ==
    ASSUME NEW a \in Amount, NEW b \in Amount, NEW i \in Places
    PROVE  Carries(a, b, i) <=> \/ a[i] + b[i] > 9
                                \/ a[i] + b[i] = 9 /\ Carries(a, b, i + 1)
<1>1. i \in 1 .. 20 /\ \A j \in Places : a[j] \in 0 .. 9 /\ b[j] \in 0 .. 9
  BY DEF Amount, Places, Digit
<1>2. ASSUME Carries(a, b, i)
      PROVE  a[i] + b[i] > 9 \/ (a[i] + b[i] = 9 /\ Carries(a, b, i + 1))
  <2>1. PICK j \in i .. 20 : a[j] + b[j] > 9 /\ \A k \in i .. (j - 1) : a[k] + b[k] = 9
    BY <1>2 DEF Carries
  <2>2. CASE j = i
    BY <2>1, <2>2
  <2>3. CASE j # i
    <3>1. j \in (i + 1) .. 20 /\ i \in i .. (j - 1)
      BY <1>1, <2>3
    <3>2. \A k \in (i + 1) .. (j - 1) : k \in i .. (j - 1)
      BY <1>1
    <3> QED
      BY <2>1, <3>1, <3>2 DEF Carries
  <2> QED
    BY <2>2, <2>3
<1>3. ASSUME a[i] + b[i] > 9
      PROVE  Carries(a, b, i)
  <2>1. i \in i .. 20 /\ i .. (i - 1) = {}
    BY <1>1
  <2> QED
    BY <1>3, <2>1 DEF Carries
<1>4. ASSUME a[i] + b[i] = 9, Carries(a, b, i + 1)
      PROVE  Carries(a, b, i)
  <2>1. PICK j \in (i + 1) .. 20 :
          a[j] + b[j] > 9 /\ \A k \in (i + 1) .. (j - 1) : a[k] + b[k] = 9
    BY <1>4 DEF Carries
  <2>2. j \in i .. 20 /\ \A k \in i .. (j - 1) : k = i \/ k \in (i + 1) .. (j - 1)
    BY <1>1
  <2> QED
    BY <1>4, <2>1, <2>2 DEF Carries
<1> QED
  BY <1>2, <1>3, <1>4

\* A sum has digits in its places.
LEMMA PlusIsAmount ==
    ASSUME NEW a \in Amount, NEW b \in Amount
    PROVE  Plus(a, b) \in Amount
<1>1. ASSUME NEW i \in Places, NEW k \in {0, 1}
      PROVE  (a[i] + b[i] + k) % 10 \in Digit
  BY DEF Amount, Digit
<1> QED
  BY <1>1 DEF Plus, Amount

\* Plus is the addition of numbers that leave the first place free.
LEMMA PlusIsSum ==
    ASSUME NEW a \in Fee, NEW b \in Fee
    PROVE  IsSum(Plus(a, b), a, b)
<1> DEFINE c == Plus(a, b)
           lack(i) == a[i] + b[i] - c[i]
<1>1. a \in Amount /\ b \in Amount /\ a[1] = 0 /\ b[1] = 0
  BY DEF Fee
<1>2. ASSUME NEW i \in Places
      PROVE  /\ a[i] \in 0 .. 9 /\ b[i] \in 0 .. 9
             /\ c[i] = (a[i] + b[i] + (IF Carries(a, b, i + 1) THEN 1 ELSE 0)) % 10
  BY <1>1 DEF Plus, Amount, Digit
<1> HIDE DEF c
<1>3. ASSUME NEW i \in Places
      PROVE  /\ lack(i) \in {0, -1, 9, 10}
             /\ lack(i) \in {-1, 9} <=> Carries(a, b, i + 1)
             /\ lack(i) \in {9, 10} <=> Carries(a, b, i)
  <2>1. Carries(a, b, i) <=> \/ a[i] + b[i] > 9
                             \/ a[i] + b[i] = 9 /\ Carries(a, b, i + 1)
    BY <1>1, CarryStep
  <2>2. CASE Carries(a, b, i + 1)
    <3>1. c[i] = (a[i] + b[i] + 1) % 10 /\ a[i] \in 0 .. 9 /\ b[i] \in 0 .. 9
      BY <1>2, <2>2
    <3>2. CASE a[i] + b[i] >= 9
      BY <2>1, <2>2, <3>1, <3>2
    <3>3. CASE a[i] + b[i] < 9
      BY <2>1, <2>2, <3>1, <3>3
    <3> QED
      BY <3>1, <3>2, <3>3
  <2>3. CASE ~Carries(a, b, i + 1)
    <3>1. c[i] = (a[i] + b[i] + 0) % 10 /\ a[i] \in 0 .. 9 /\ b[i] \in 0 .. 9
      BY <1>2, <2>3
    <3>2. CASE a[i] + b[i] > 9
      BY <2>1, <2>3, <3>1, <3>2
    <3>3. CASE a[i] + b[i] <= 9
      BY <2>1, <2>3, <3>1, <3>3
    <3> QED
      BY <3>1, <3>2, <3>3
  <2> QED
    BY <2>2, <2>3
<1>4. ASSUME NEW i \in Places
      PROVE  lack(i) \in {-1, 9} <=> (i < 20 /\ lack(i + 1) \in {9, 10})
  <2>1. CASE i < 20
    <3>1. i + 1 \in Places
      BY <2>1 DEF Places
    <3> QED
      BY <1>3, <2>1, <3>1
  <2>2. CASE ~(i < 20)
    <3>1. (i + 1) .. 20 = {}
      BY <2>2 DEF Places
    <3> QED
      BY <1>3, <2>2, <3>1 DEF Carries
  <2> QED
    BY <2>1, <2>2
<1>5. lack(1) \in {0, -1}
  <2>1. 1 \in Places
    BY DEF Places
  <2>2. c[1] \in {0, 1}
    BY <1>1, <1>2, <2>1
  <2> QED
    BY <1>1, <2>2
<1> QED
  BY <1>3, <1>4, <1>5 DEF IsSum, c

---------------------------------------------------------------------------
(* start_sign_tx                                                           *)

\* What start_sign_tx writes are amounts, and the total is one of them.
LEMMA WrittenFields ==
    ASSUME NEW t \in Transaction
    PROVE  /\ \A i \in DOMAIN Written(t) : Written(t)[i] \in AmountFields
           /\ DOMAIN Written(t) \subseteq Nat
           /\ \E i \in DOMAIN Written(t) : Written(t)[i] = "total_fees"
<1>1. CASE t.is_system_asset_transfer
  <2>1. Written(t) = << "token_amount", "system_fee", "network_fee", "total_fees" >>
    BY <1>1 DEF Written
  <2> QED
    BY <2>1 DEF AmountFields
<1>2. CASE ~t.is_system_asset_transfer
  <2>1. Written(t) = << "system_fee", "network_fee", "total_fees" >>
    BY <1>2 DEF Written
  <2> QED
    BY <2>1 DEF AmountFields
<1> QED
  BY <1>1, <1>2

\* The numbers behind the amounts, and their decimals.
LEMMA ValueTypes ==
    ASSUME NEW t \in Transaction, NEW f \in AmountFields
    PROVE  ValueOf(f, t) \in Amount /\ Decimals(f, t) \in {0, 8}
<1>1. t.amount \in Amount /\ t.system_fee \in Amount /\ t.network_fee \in Amount
  BY DEF Transaction, Fee
<1>2. Plus(t.network_fee, t.system_fee) \in Amount
  BY <1>1, PlusIsAmount
<1> QED
  BY <1>1, <1>2 DEF ValueOf, Decimals, AmountFields

\* No amount of a transaction fails, so all of them are reached.
LEMMA NothingFails ==
    ASSUME NEW t \in Transaction
    PROVE  /\ \A f \in AmountFields : AmountFits(f, t)
           /\ AllFit(t)
           /\ \A i \in DOMAIN Written(t) : Reached(t, Written(t)[i])
<1>1. ASSUME NEW f \in AmountFields PROVE AmountFits(f, t)
  BY ValueTypes, EveryAmountFits DEF AmountFits
<1>2. \A i : ~Fails(t, i)
  BY <1>1, WrittenFields DEF Fails
<1> QED
  BY <1>1, <1>2 DEF AllFit, Reached

\* While a review is open, the texts are those of its transaction.
TextsInv ==
    /\ tx \in Transaction
    /\ DOMAIN G_tx = AmountFields \cup {"valid_until_block"}
    /\ review \in {Closed, Open}
    /\ review = Open =>
          \A i \in DOMAIN Written(tx) : G_tx[Written(tx)[i]] = AmountText(Written(tx)[i], tx)

\* At the start no review is open.
LEMMA TextsInit == Init => TextsInv
<1> SUFFICES ASSUME Init PROVE TextsInv
  OBVIOUS
<1>1. Zeros(20) \in Fee
  BY DEF Zeros, Fee, Amount, Places, Digit
<1>2. NoTransaction \in Transaction
  BY <1>1 DEF NoTransaction, Transaction, Fee, Word, Plain
<1> QED
  BY <1>2 DEF Init, TextsInv, Closed, Open

\* Opening a review writes every amount of its transaction, and nothing else does.
LEMMA TextsNext == TextsInv /\ [Next]_vars => TextsInv'
<1> SUFFICES ASSUME TextsInv, [Next]_vars PROVE TextsInv'
  OBVIOUS
<1>1. ASSUME NEW t \in Transactions, StartSignTx(t) PROVE TextsInv'
  <2>1. t \in Transaction /\ tx' = t
    BY <1>1, TransactionsAssumption DEF StartSignTx
  <2>2. review' = Open
    BY <1>1, <2>1, NothingFails DEF StartSignTx
  <2>3. ASSUME NEW i \in DOMAIN Written(t)
        PROVE  G_tx'[Written(t)[i]] = AmountText(Written(t)[i], t)
    <3> DEFINE f == Written(t)[i]
    <3>1. f \in AmountFields /\ Reached(t, f) /\ AmountFits(f, t)
      BY <2>1, WrittenFields, NothingFails
    <3>2. f # "valid_until_block" /\ f \in DOMAIN G_tx
      BY <3>1 DEF AmountFields, TextsInv
    <3> HIDE DEF f
    <3>3. G_tx'[f] = AmountText(f, t)
      BY <1>1, <3>1, <3>2 DEF StartSignTx
    <3> QED
      BY <3>3 DEF f
  <2>4. DOMAIN G_tx' = DOMAIN G_tx
    BY <1>1 DEF StartSignTx
  <2> QED
    BY <2>1, <2>2, <2>3, <2>4 DEF TextsInv
<1>2. CASE Answer
  BY <1>2 DEF Answer, TextsInv, Closed, Open
<1>3. CASE UNCHANGED vars
  BY <1>3 DEF vars, TextsInv
<1> QED
  BY <1>1, <1>2, <1>3 DEF Next

\* The texts of an open review are made of its transaction.
LEMMA TextsTheorem == Spec => []TextsInv
  BY TextsInit, TextsNext, PTL DEF Spec

\* Whatever the transaction, no number of it makes start_sign_tx return before
\* the review is open.
THEOREM FormatTheorem == Spec => []NoAmountFails
<1>1. TextsInv => NoAmountFails
  BY DEF TextsInv, NoAmountFails
<1> QED
  BY <1>1, TextsTheorem, PTL

\* Whatever the transaction, each amount the owner sees has in every decimal
\* place the digit of the number that was uploaded.
THEOREM AmountsTheorem == Spec => []AmountsAreShown
<1>1. ASSUME TextsInv PROVE AmountsAreShown
  <2> SUFFICES ASSUME review = Open, NEW i \in DOMAIN Written(tx)
               PROVE  LET f == Written(tx)[i]
                      IN  /\ G_tx[f].ticker = Ticker(f, tx)
                          /\ Shows(G_tx[f].number, ValueOf(f, tx), Decimals(f, tx))
    BY DEF AmountsAreShown
  <2> DEFINE f == Written(tx)[i]
  <2>1. tx \in Transaction /\ G_tx[f] = AmountText(f, tx)
    BY <1>1 DEF TextsInv
  <2>2. f \in AmountFields
    BY <2>1, WrittenFields
  <2> HIDE DEF f
  <2>3. ValueOf(f, tx) \in Amount /\ Decimals(f, tx) \in {0, 8}
    BY <2>1, <2>2, ValueTypes
  <2>4. /\ G_tx[f].ticker = Ticker(f, tx)
        /\ G_tx[f].number = Cut(format_amount(AMOUNTS_MAX_SIZE, ValueOf(f, tx), Decimals(f, tx)),
                                AMOUNTS_MAX_SIZE - 5)
    BY <2>1 DEF AmountText
  <2>5. Shows(G_tx[f].number, ValueOf(f, tx), Decimals(f, tx))
    BY <2>3, <2>4, EveryAmountShows
  <2> QED
    BY <2>4, <2>5 DEF f
<1> QED
  BY <1>1, TextsTheorem, PTL

\* Whatever the fees, the total the owner sees is their sum.
THEOREM TotalTheorem == Spec => []TotalIsSum
<1>1. ASSUME TextsInv, AmountsAreShown PROVE TotalIsSum
  <2> SUFFICES ASSUME review = Open
               PROVE  \E total \in {ValueOf("total_fees", tx)} :
                        /\ Shows(G_tx["total_fees"].number, total, 8)
                        /\ IsSum(total, tx.network_fee, tx.system_fee)
    BY DEF TotalIsSum
  <2>1. tx \in Transaction /\ tx.network_fee \in Fee /\ tx.system_fee \in Fee
    BY <1>1 DEF TextsInv, Transaction
  <2>2. PICK i \in DOMAIN Written(tx) : Written(tx)[i] = "total_fees"
    BY <2>1, WrittenFields
  <2>3. Shows(G_tx["total_fees"].number, ValueOf("total_fees", tx), 8)
    BY <1>1, <2>2 DEF AmountsAreShown, Decimals
  <2>4. ValueOf("total_fees", tx) = Plus(tx.network_fee, tx.system_fee)
    BY DEF ValueOf
  <2>5. IsSum(ValueOf("total_fees", tx), tx.network_fee, tx.system_fee)
    BY <2>1, <2>4, PlusIsSum
  <2> QED
    BY <2>3, <2>5
<1> QED
  BY <1>1, TextsTheorem, AmountsTheorem, PTL

=============================================================================
