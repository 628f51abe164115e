--------------------------- MODULE MCReviewTexts ---------------------------
(***************************************************************************)
(* ReviewTexts for TLC: numbers around the decimal point and at the limits *)
(* of 64 bits.                                                             *)
(***************************************************************************)
EXTENDS ReviewTexts

\* The number with these digits.
Num(digits) ==
    [i \in Places |-> IF i <= 20 - Len(digits) THEN 0 ELSE digits[i - (20 - Len(digits))]]

Small     == { Num(<< 0 >>), Num(<< 7 >>), Num(<< 1, 0, 0, 2, 0, 0, 3, 0 >>),
               Num(<< 1, 0, 0, 0, 0, 0, 0, 0, 0 >>), Num(<< 9, 9, 9, 9, 9, 9, 9, 9, 9, 9 >>) }
MaxInt64  == Num(<< 9, 2, 2, 3, 3, 7, 2, 0, 3, 6, 8, 5, 4, 7, 7, 5, 8, 0, 7 >>)
MaxUint64 == Num(<< 1, 8, 4, 4, 6, 7, 4, 4, 0, 7, 3, 7, 0, 9, 5, 5, 1, 6, 1, 5 >>)

MCTransfer == {<< FALSE, FALSE, Num(<< 0 >>) >>}
                \cup ({TRUE} \X BOOLEAN \X (Small \cup {MaxInt64, MaxUint64}))

MCFees == { Num(<< 7 >>), Num(<< 1, 0, 0, 2, 0, 0, 3, 0 >>),
            Num(<< 9, 9, 9, 9, 9, 9, 9, 9, 9, 9 >>), MaxInt64 }

MCTransactions ==
    { [is_system_asset_transfer |-> t[1], is_neo |-> t[2], amount |-> t[3],
       system_fee |-> system, network_fee |-> network, valid_until_block |-> Plain(5400000)]
        : t \in MCTransfer, system, network \in MCFees }

=============================================================================
