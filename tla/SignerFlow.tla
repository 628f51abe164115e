---------------------------- MODULE SignerFlow -----------------------------
(***************************************************************************)
(* Browsing a review on the Nano S+ and Nano X: src/ui/sign_tx_bagl.c.     *)
(*                                                                         *)
(* The review is an array of steps.  The signers and their properties do   *)
(* not fit in it, so one step stands for all of them: it sits between two  *)
(* delimiters that are never displayed.  Entering a delimiter runs         *)
(* display_next_state, which moves the indices of display_ctx and decides  *)
(* whether the owner sees the next property or leaves the signers.         *)
(*                                                                         *)
(* ux_flow_init, ux_flow_next and ux_flow_prev belong to the SDK; they move *)
(* the index of the current step by one and enter the step they come to.   *)
(* A step whose text takes several pages is one step here, which leaves    *)
(* bnnn_paging_edgecase the effect of a step back.                         *)
(***************************************************************************)
EXTENDS Integers, Sequences

CONSTANTS
    MaxSigners,     \* MAX_TX_SIGNERS
    MaxContracts,   \* MAX_SIGNER_ALLOWED_CONTRACTS
    MaxGroups       \* MAX_SIGNER_ALLOWED_GROUPS

\* The indices of display_ctx are signed bytes.
ASSUME BoundsAssumption ==
    /\ MaxSigners \in 1 .. 127
    /\ MaxContracts \in 0 .. 127
    /\ MaxGroups \in 0 .. 127

MAX_NUM_STEPS == 14

\* enum e_signer_state
START     == 0
INDEX     == 1
ACCOUNT   == 2
SCOPE     == 3
CONTRACTS == 4
GROUPS    == 5
END       == 6

\* Of a signer, how many contracts and groups it allows; of a transaction, what
\* decides which steps it gets.  There is at least one signer (MIN_TX_SIGNERS).
Signer == [allowed_contracts_size : 0 .. MaxContracts, allowed_groups_size : 0 .. MaxGroups]
Transactions ==
    [is_vote_script : BOOLEAN, is_remove_vote : BOOLEAN, is_system_asset_transfer : BOOLEAN,
     signers : UNION {[1 .. n -> Signer] : n \in 1 .. MaxSigners}]
Settings == [scriptsAllowed : BOOLEAN, showScriptHash : BOOLEAN]

VARIABLES
    tx,         \* G_context.tx_info.transaction
    flow,       \* ux_display_transaction_flow, up to FLOW_END_STEP
    step,       \* the current step, 0 when no review is open
    mode,       \* display_ctx.current_state
    ctx,        \* the indices s, p, c and g of display_ctx
    text,       \* what g_title and g_text spell
    seen        \* the places looked at since the review was opened (ghost)

vars == << tx, flow, step, mode, ctx, text, seen >>

---------------------------------------------------------------------------
(* create_transaction_flow                                                 *)

Subject(t) ==
    CASE t.is_vote_script /\ t.is_remove_vote -> << "vote_retract" >>
      [] t.is_vote_script /\ ~t.is_remove_vote -> << "vote_to" >>
      [] ~t.is_vote_script /\ t.is_system_asset_transfer -> << "dst_address", "token_amount" >>
      [] ~t.is_vote_script /\ ~t.is_system_asset_transfer -> << >>

ReviewSteps(t, settings) ==
    << "review" >> \o Subject(t)
        \o << "network", "systemfee", "networkfee", "total_fee", "validuntilblock" >>
        \o (IF settings.showScriptHash THEN << "script" >> ELSE << >>)
        \o << "upper_delimiter", "generic", "lower_delimiter", "approve", "reject" >>

FlowOf(t, settings) ==
    IF t.is_system_asset_transfer \/ t.is_vote_script \/ settings.scriptsAllowed
    THEN ReviewSteps(t, settings)
    ELSE << "no_arbitrary_script", "abort" >>

---------------------------------------------------------------------------
(* next_prop and prev_prop: d is display_ctx.  Either calls itself once at *)
(* most, having moved to another signer.                                   *)

At(s, p, c, g) == [s |-> s, p |-> p, c |-> c, g |-> g]
Of(s) == tx.signers[s + 1]
SignersSize == Len(tx.signers)

\* Fault: nobody asks whether there is another signer.
NextSignerUnchecked(d) == At(d.s + 1, INDEX, -1, -1)

NextSigner(d) ==
    IF d.s + 1 = SignersSize
    THEN [d EXCEPT !.p = END]
    ELSE At(d.s + 1, INDEX, -1, -1)

NextGroup(d) ==
    IF d.g + 1 < Of(d.s).allowed_groups_size
    THEN [d EXCEPT !.p = GROUPS, !.g = @ + 1]
    ELSE NextSigner([d EXCEPT !.g = @ + 1])

NextContract(d) ==
    IF d.c + 1 < Of(d.s).allowed_contracts_size
    THEN [d EXCEPT !.p = CONTRACTS, !.c = @ + 1]
    ELSE NextGroup([d EXCEPT !.c = @ + 1])

NextProp(d) ==
    CASE d.p < SCOPE               -> [d EXCEPT !.p = @ + 1]
      [] d.p \in {SCOPE, CONTRACTS} -> NextContract(d)
      [] d.p = GROUPS              -> NextGroup(d)
      [] d.p > GROUPS              -> NextSigner(d)

\* Fault: the index of the contracts is left at the first one.
PrevContractStopping(d) ==
    IF d.c > 0
    THEN [d EXCEPT !.p = CONTRACTS, !.c = @ - 1]
    ELSE [d EXCEPT !.p = SCOPE]

PrevContract(d) ==
    IF d.c > 0
    THEN [d EXCEPT !.p = CONTRACTS, !.c = @ - 1]
    ELSE [d EXCEPT !.p = SCOPE, !.c = @ - 1]

PrevGroup(d) ==
    IF d.g > 0
    THEN [d EXCEPT !.p = GROUPS, !.g = @ - 1]
    ELSE PrevContract([d EXCEPT !.g = @ - 1])

\* The last property of signer s.
LastOf(s) == PrevGroup(At(s, END, Of(s).allowed_contracts_size, Of(s).allowed_groups_size))

PrevProp(d) ==
    CASE d.p = INDEX /\ d.s = 0    -> [d EXCEPT !.p = START]
      [] d.p = INDEX /\ d.s > 0    -> LastOf(d.s - 1)
      [] d.p \in {ACCOUNT, SCOPE}  -> [d EXCEPT !.p = @ - 1]
      [] d.p = CONTRACTS           -> PrevContract(d)
      [] d.p \in {GROUPS, END}     -> PrevGroup(d)
      [] d.p = START \/ d.p > END  -> [d EXCEPT !.p = (@ - 1) % 256]

---------------------------------------------------------------------------
(* get_next_data and display_next_state                                    *)

HasData(d) == d.p \in {INDEX, ACCOUNT, SCOPE, CONTRACTS, GROUPS}

TextOf(d) ==
    [signer |-> d.s, property |-> d.p,
     number |-> IF d.p = CONTRACTS THEN d.c ELSE IF d.p = GROUPS THEN d.g ELSE 0]

Fetch(d) ==
    /\ ctx' = d
    /\ text' = IF HasData(d) THEN TextOf(d) ELSE text

UpperDelimiter(i) ==
    \/ /\ mode = "STATIC_SCREEN"
       /\ Fetch(NextProp(ctx))
       /\ mode' = IF HasData(ctx') THEN "DYNAMIC_SCREEN" ELSE mode
       /\ step' = i + 1
    \/ /\ mode = "DYNAMIC_SCREEN"
       /\ Fetch(PrevProp(ctx))
       /\ mode' = IF HasData(ctx') THEN mode ELSE "STATIC_SCREEN"
       /\ step' = IF HasData(ctx') THEN i + 1 ELSE i - 1

LowerDelimiter(i) ==
    \/ /\ mode = "STATIC_SCREEN"
       /\ Fetch(PrevProp(ctx))
       /\ mode' = IF HasData(ctx') THEN "DYNAMIC_SCREEN" ELSE mode
       /\ step' = i - 1
    \/ /\ mode = "DYNAMIC_SCREEN"
       /\ Fetch(NextProp(ctx))
       /\ mode' = IF HasData(ctx') THEN mode ELSE "STATIC_SCREEN"
       /\ step' = IF HasData(ctx') THEN i - 1 ELSE i + 1

\* Coming to step i.
Enter(i) ==
    \/ flow[i] = "upper_delimiter" /\ UpperDelimiter(i)
    \/ flow[i] = "lower_delimiter" /\ LowerDelimiter(i)
    \/ /\ flow[i] \notin {"upper_delimiter", "lower_delimiter"}
       /\ step' = i
       /\ UNCHANGED << mode, ctx, text >>

---------------------------------------------------------------------------
(* What the owner looks at, as a place in the order of the review.         *)

\* In front of the signers, among them, or behind them.
StaticPlace(i) ==
    << IF \E j \in 1 .. i : flow[j] = "lower_delimiter" THEN 3 ELSE 1, i, 0, 0 >>

SignerPlaces ==
    UNION {   {<< 2, s, p, 0 >> : p \in {INDEX, ACCOUNT, SCOPE}}
         \cup {<< 2, s, CONTRACTS, n >> : n \in 0 .. Of(s).allowed_contracts_size - 1}
         \cup {<< 2, s, GROUPS, n >> : n \in 0 .. Of(s).allowed_groups_size - 1}
            : s \in 0 .. SignersSize - 1}

Hidden == {"upper_delimiter", "generic", "lower_delimiter"}

Closed == << >>

Place ==
    IF step = 0
    THEN Closed
    ELSE IF flow[step] = "generic"
    THEN << 2, text.signer, text.property, text.number >>
    ELSE StaticPlace(step)

\* Everything there is to look at in the review that is open.
Places ==
    IF step = 0
    THEN {}
    ELSE {StaticPlace(i) : i \in {j \in DOMAIN flow : flow[j] \notin Hidden}}
            \cup (IF \E j \in DOMAIN flow : flow[j] = "generic" THEN SignerPlaces ELSE {})

Earlier(p, q) ==
    \E k \in 1 .. 4 : p[k] < q[k] /\ \A j \in 1 .. 4 : j < k => p[j] = q[j]

---------------------------------------------------------------------------
(* The steps.                                                              *)

NoText == [signer |-> 0, property |-> START, number |-> 0]
NoTx ==
    [is_vote_script |-> FALSE, is_remove_vote |-> FALSE, is_system_asset_transfer |-> FALSE,
     signers |-> << >>]

Init ==
    /\ tx = NoTx
    /\ flow = << >>
    /\ step = 0
    /\ mode = "STATIC_SCREEN"
    /\ ctx = At(0, 0, 0, 0)
    /\ text = NoText
    /\ seen = {}

\* Fault: reset_signer_display_state is left out.
IndicesKept == UNCHANGED << mode, ctx >>

\* reset_signer_display_state
ResetSignerDisplayState ==
    /\ mode' = "STATIC_SCREEN"
    /\ ctx' = At(0, START, -1, -1)

\* start_sign_tx_ui, for the transaction that was just parsed.
StartSignTxUi ==
    /\ step = 0
    /\ tx' \in Transactions
    /\ \E settings \in Settings : flow' = FlowOf(tx', settings)
    /\ step' = 1
    /\ ResetSignerDisplayState
    /\ UNCHANGED text
    /\ seen' = {Place'}

Look == UNCHANGED << tx, flow >> /\ seen' = seen \cup {Place'}

\* The right button; it does nothing on the last step.
GoForward == step > 0 /\ step < Len(flow) /\ Enter(step + 1) /\ Look

\* The left button; it does nothing on the first step.
GoBack == step > 1 /\ Enter(step - 1) /\ Look

\* Both buttons, on one of the steps that have a callback.
Answer ==
    /\ step > 0
    /\ flow[step] \in {"approve", "reject", "abort"}
    /\ step' = 0
    /\ seen' = {}
    /\ UNCHANGED << tx, flow, mode, ctx, text >>

\* Power is lost: every global is zero at the next start.
Restart ==
    /\ tx' = NoTx
    /\ flow' = << >>
    /\ step' = 0
    /\ mode' = "STATIC_SCREEN"
    /\ ctx' = At(0, 0, 0, 0)
    /\ text' = NoText
    /\ seen' = {}

Next == StartSignTxUi \/ GoForward \/ GoBack \/ Answer \/ Restart

Spec == Init /\ [][Next]_vars

---------------------------------------------------------------------------
(* Properties.                                                             *)

\* The flow with its end mark fits its array, no delimiter is ever displayed,
\* and the indices, which are used without a check, are in the range of the
\* arrays they are used for or one step outside of them.
TypeOK ==
    /\ tx \in Transactions \cup {NoTx}
    /\ Len(flow) + 1 <= MAX_NUM_STEPS + 1
    /\ step \in 0 .. Len(flow)
    /\ mode \in {"STATIC_SCREEN", "DYNAMIC_SCREEN"}
    /\ step > 0 =>
          /\ tx \in Transactions
          /\ flow[step] \notin {"upper_delimiter", "lower_delimiter"}
          /\ ctx.s \in 0 .. SignersSize - 1
          /\ ctx.p \in START .. END
          /\ ctx.c \in -1 .. Of(ctx.s).allowed_contracts_size
          /\ ctx.g \in -1 .. Of(ctx.s).allowed_groups_size

\* The buttons walk along the properties of the signers and the other steps in
\* their order, both ways, turning round anywhere: what is displayed, not only
\* what the indices say, is the next or the previous item of the review.
List == INSTANCE ReviewList WITH Before <- Earlier, Closed <- Closed, places <- Places, at <- Place
BrowsesInOrder == List!Spec

\* Nobody approves what they have not been shown: on the step that approves, each
\* other item of the review, of every signer, was displayed since the review began.
EverythingShownBeforeApproval ==
    (step > 0 /\ flow[step] = "approve") =>
        \A p \in Places : p \in seen \/ Earlier(Place, p)
=============================================================================
