------------------------------ MODULE Formats ------------------------------
(***************************************************************************)
(* The numbers of a review as text: format_amount of                       *)
(* src/common/app_format.c, and the "%d" of start_sign_tx.                 *)
(*                                                                         *)
(* An unsigned 64-bit number is the function of its twenty decimal places. *)
(* A text is the sequence of its characters, a digit being the number it   *)
(* stands for.                                                             *)
(***************************************************************************)
EXTENDS Bip44, Integers

Places == 1 .. 20
Digit  == 0 .. 9
Amount == [Places -> Digit]
Dot    == 10

Zeros(n) == [i \in 1 .. n |-> 0]

\* format_u64 of the SDK: the digits without leading zeros, at least one.
format_u64(value) ==
    LET lead == CHOOSE i \in Places : /\ i = 20 \/ value[i] # 0
                                      /\ \A j \in Places : j < i => value[j] = 0
    IN  SubSeq(value, lead, 20)

\* The tests of dst_len: format_amount returns false unless its text fits.
Fits(dst_len, digits, decimals) ==
    IF digits <= decimals THEN dst_len > 2 + (decimals - digits)
                          ELSE dst_len > digits + 1 + decimals

\* A text of which at most n characters are kept.
Cut(text, n) == SubSeq(text, 1, IF Len(text) <= n THEN Len(text) ELSE n)

\* Fault: the zeros between the dot and the digits are forgotten.
AmountUnpadded(dst_len, value, decimals) ==
    LET buffer == format_u64(value)
        digits == Len(buffer)
    IN  IF digits <= decimals
        THEN << 0, Dot >> \o buffer
        ELSE SubSeq(buffer, 1, digits - decimals) \o << Dot >>
                \o (IF decimals = 0 THEN << 0 >> ELSE SubSeq(buffer, digits - decimals + 1, digits))

\* What format_amount writes when it returns true: the last `decimals` digits
\* come after the dot, and a number without decimals gets a zero there.
format_amount(dst_len, value, decimals) ==
    LET buffer == format_u64(value)
        digits == Len(buffer)
        shift  == digits - decimals
    IN  IF digits <= decimals
        THEN << 0, Dot >> \o Zeros(decimals - digits)
                \o Cut(buffer, dst_len - (2 + (decimals - digits)))
        ELSE SubSeq(buffer, 1, shift) \o << Dot >>
                \o (IF decimals = 0 THEN << 0 >> ELSE SubSeq(buffer, shift + 1, digits))

\* snprintf("%d") into eleven bytes: the word is read as a signed number, and
\* the last digit of the long negative ones falls off.
SignedDecimal(w) ==
    LET v == IF w.hard THEN w.index - 2147483647 - 1 ELSE w.index
    IN  IF v <= -1000000000 THEN << "cut", -((v + 9) \div 10) >> ELSE << "number", v >>

=============================================================================
