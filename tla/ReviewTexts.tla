---------------------------- MODULE ReviewTexts ----------------------------
(***************************************************************************)
(* The numbers that start_sign_tx of src/ui/sign_tx_common.c writes into   *)
(* G_tx, one transaction after another: the amounts, each of which may end *)
(* the review before it starts, and the height.  Everything else about a   *)
(* review is in Neo3Session, where none of these numbers fails to be       *)
(* written.                                                                *)
(*                                                                         *)
(* The fees are not below zero, the parser has seen to that; an amount may *)
(* be, and is cast to an unsigned number here.                             *)
(***************************************************************************)
EXTENDS Formats

CONSTANTS
    Transactions    \* what may be parsed

Fee == {v \in Amount : v[1] = 0}

Transaction ==
    [is_system_asset_transfer : BOOLEAN, is_neo : BOOLEAN, amount : Amount,
     system_fee : Fee, network_fee : Fee, valid_until_block : Word]

ASSUME TransactionsAssumption == Transactions \subseteq Transaction

VARIABLES
    tx,             \* G_context.tx_info.transaction
    G_tx,           \* its texts with numbers
    review          \* Closed, Open, or the field whose error was sent

vars == << tx, G_tx, review >>

AMOUNTS_MAX_SIZE == 30
Closed == "closed"
Open   == "open"
Empty  == [ticker |-> "", number |-> << >>]

AmountFields == {"token_amount", "system_fee", "network_fee", "total_fees"}

---------------------------------------------------------------------------
(* The sum of the fees in 64 bits, two numbers below 2^63.                 *)

\* A column carries when the first one from it on that does not add up to nine
\* adds up to more.
Carries(a, b, i) ==
    \E j \in i .. 20 : /\ a[j] + b[j] > 9
                       /\ \A k \in i .. (j - 1) : a[k] + b[k] = 9

Plus(a, b) ==
    [i \in Places |-> (a[i] + b[i] + (IF Carries(a, b, i + 1) THEN 1 ELSE 0)) % 10]

---------------------------------------------------------------------------
(* start_sign_tx                                                           *)

\* The amounts in the order they are written.
Written(t) ==
    IF t.is_system_asset_transfer
    THEN << "token_amount", "system_fee", "network_fee", "total_fees" >>
    ELSE << "system_fee", "network_fee", "total_fees" >>

\* Fault: the total shows one of the two fees.
ValueOfOneFee(f, t) ==
    CASE f = "token_amount" -> t.amount
      [] f = "system_fee"   -> t.system_fee
      [] OTHER              -> t.network_fee

ValueOf(f, t) ==
    CASE f = "token_amount" -> t.amount
      [] f = "system_fee"   -> t.system_fee
      [] f = "network_fee"  -> t.network_fee
      [] f = "total_fees"   -> Plus(t.network_fee, t.system_fee)

Ticker(f, t)   == IF f = "token_amount" /\ t.is_neo THEN "NEO" ELSE "GAS"
Decimals(f, t) == IF f = "token_amount" /\ t.is_neo THEN 0 ELSE 8

\* Fault: room is asked for one character more than the longest text has.
AmountFitsEasily(f, t) ==
    Fits(AMOUNTS_MAX_SIZE - 1, Len(format_u64(ValueOf(f, t))), Decimals(f, t))

AmountFits(f, t) ==
    Fits(AMOUNTS_MAX_SIZE, Len(format_u64(ValueOf(f, t))), Decimals(f, t))

\* snprintf("GAS %.*s"): the ticker, a space, and what is left of the 30 bytes.
AmountText(f, t) ==
    [ticker |-> Ticker(f, t),
     number |-> Cut(format_amount(AMOUNTS_MAX_SIZE, ValueOf(f, t), Decimals(f, t)),
                    AMOUNTS_MAX_SIZE - 5)]

\* Amounts are written up to the first that does not fit, whose text is cleared.
Fails(t, i)   == i \in DOMAIN Written(t) /\ ~AmountFits(Written(t)[i], t)
Reached(t, f) ==
    \E i \in DOMAIN Written(t) : Written(t)[i] = f /\ \A j \in 1 .. (i - 1) : ~Fails(t, j)
AllFit(t)     == \A i \in DOMAIN Written(t) : ~Fails(t, i)

StartSignTx(t) ==
    /\ review = Closed
    /\ tx' = t
    /\ G_tx' = [f \in DOMAIN G_tx |->
                  IF f = "valid_until_block"
                  THEN IF AllFit(t) THEN SignedDecimal(t.valid_until_block) ELSE G_tx[f]
                  ELSE IF ~Reached(t, f) THEN G_tx[f]
                  ELSE IF AmountFits(f, t) THEN AmountText(f, t) ELSE Empty]
    /\ \/ AllFit(t) /\ review' = Open
       \/ \E f \in AmountFields : Reached(t, f) /\ ~AmountFits(f, t) /\ review' = f

\* The owner answers, or the next command arrives.
Answer ==
    /\ review # Closed
    /\ review' = Closed
    /\ UNCHANGED << tx, G_tx >>

NoTransaction ==
    [is_system_asset_transfer |-> FALSE, is_neo |-> FALSE, amount |-> Zeros(20),
     system_fee |-> Zeros(20), network_fee |-> Zeros(20), valid_until_block |-> Plain(0)]

Init ==
    /\ tx = NoTransaction
    /\ G_tx = [f \in AmountFields \cup {"valid_until_block"} |->
                 IF f \in AmountFields THEN Empty ELSE << "number", 0 >>]
    /\ review = Closed

Next == Answer \/ \E t \in Transactions : StartSignTx(t)

Spec == Init /\ [][Next]_vars

---------------------------------------------------------------------------
(* Properties                                                              *)

\* No number a transaction may hold makes format_amount return false, so no
\* review ends before it starts: the largest sum of two fees has twenty digits,
\* and with eight decimals asks for 29 of the 30 bytes.
NoAmountFails == review \in {Closed, Open}

\* A text is an amount with d decimals: digits around one dot, no leading zero
\* but a single one, and in each decimal place the digit the number has there.
Shows(text, value, d) ==
    \E dot \in DOMAIN text :
        LET whole == dot - 1
        IN  /\ text[dot] = Dot
            /\ whole >= 1 /\ (text[1] = 0 => whole = 1)
            /\ Len(text) - dot = (IF d = 0 THEN 1 ELSE d)
            /\ \A i \in Places :
                  LET place == 20 - i
                  IN  value[i] = IF place < d THEN text[dot + (d - place)]
                                 ELSE IF place - d < whole THEN text[whole - (place - d)]
                                 ELSE 0
            /\ d = 0 => text[dot + 1] = 0

\* While a review is open every amount of it is the number of the transaction,
\* whole and with its decimal point in its place.
AmountsAreShown ==
    review = Open =>
        \A i \in DOMAIN Written(tx) :
            LET f == Written(tx)[i]
            IN  /\ G_tx[f].ticker = Ticker(f, tx)
                /\ Shows(G_tx[f].number, ValueOf(f, tx), Decimals(f, tx))

\* c is a + b: what the columns lack is what the next ones carry.
IsSum(c, a, b) ==
    /\ a[1] + b[1] - c[1] \in {0, -1}
    /\ \A i \in Places : a[i] + b[i] - c[i] \in {0, -1, 9, 10}
    /\ \A i \in Places : (a[i] + b[i] - c[i] \in {-1, 9})
                            <=> (i < 20 /\ a[i + 1] + b[i + 1] - c[i + 1] \in {9, 10})

\* While a review is open the total is the sum of the fees of the transaction,
\* also where it is above the largest fee.
TotalIsSum ==
    review = Open =>
        \E total \in {ValueOf("total_fees", tx)} :
            /\ Shows(G_tx["total_fees"].number, total, 8)
            /\ IsSum(total, tx.network_fee, tx.system_fee)

=============================================================================
