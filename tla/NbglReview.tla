----------------------------- MODULE NbglReview -----------------------------
(***************************************************************************)
(* The review of a transaction on Stax and Flex: src/ui/sign_tx_nbgl.c.    *)
(*                                                                         *)
(* The title-value pairs of a review are numbered.  The first ones are in  *)
(* an array and point at texts made beforehand, those of the signers are   *)
(* written when the SDK asks for them, into a few slots that are used      *)
(* again and again.  The SDK asks for the pairs of a page in their order,  *)
(* keeps the pointers it gets, and to see what fits on a page it may ask   *)
(* for pairs from its start on before that.                                *)
(*                                                                         *)
(* A text is what it was made of; the pair "Target network" and the format *)
(* of accounts, which do not come with the upload, are in Neo3Session.     *)
(***************************************************************************)
EXTENDS Deserialize, SequencesExt

CONSTANTS
    SlotCount       \* NB_MAX_DISPLAYED_PAIRS_IN_REVIEW

ASSUME SlotsAssumption == SlotCount \in Nat \ {0}

VARIABLES
    title,          \* review_title
    static_items,   \* up to static_items_nb
    dyn_items,      \* up to dyn_items_nb
    dyn_slots,      \* by index from 0
    page            \* the page on the screen, or Closed

review == << title, static_items, dyn_items, dyn_slots, page >>

Closed == [first |-> 0, count |-> 0, pairs |-> << >>]
IsOpen == page # Closed

Pair(item, value) == [item |-> item, value |-> value]

---------------------------------------------------------------------------
(* create_transaction_flow                                                 *)

Title(t) ==
    IF t.is_vote_script
    THEN IF t.is_remove_vote THEN "retract vote" ELSE "cast vote"
    ELSE IF t.is_system_asset_transfer
    THEN IF t.is_neo THEN "send NEO" ELSE "send GAS"
    ELSE "sign script"

StaticItems(t) ==
    (IF t.is_system_asset_transfer /\ ~t.is_vote_script
     THEN << Pair(<< "To" >>, t.dst), Pair(<< "Token amount", t.is_neo >>, t.amount) >>
     ELSE << >>)
    \o << Pair(<< "Target network" >>, << >>),
          Pair(<< "System fee" >>, t.header["system_fee"]),
          Pair(<< "Network fee" >>, t.header["network_fee"]),
          Pair(<< "Total fees" >>, t.header["network_fee"] \o t.header["system_fee"]),
          Pair(<< "Valid until height" >>, t.header["valid_until_block"]),
          Pair(<< "Script hash" >>, At(raw, t.script, t.script_size)) >>

\* Numbers start at 1; a signer, its account and its scope have number 0.
DynItem(kind, s, n) == [kind |-> kind, signer |-> s, number |-> n]

\* Fault: the groups come first.
GroupsFirst(t, s) ==
    << DynItem("Signer", s, 0), DynItem("Account", s, 0), DynItem("Scope", s, 0) >>
        \o [g \in 1 .. t.signers[s].size["groups"] |-> DynItem("Group", s, g)]
        \o [c \in 1 .. t.signers[s].size["contracts"] |-> DynItem("Contract", s, c)]

SignerItems(t, s) ==
    << DynItem("Signer", s, 0), DynItem("Account", s, 0), DynItem("Scope", s, 0) >>
        \o [c \in 1 .. t.signers[s].size["contracts"] |-> DynItem("Contract", s, c)]
        \o [g \in 1 .. t.signers[s].size["groups"] |-> DynItem("Group", s, g)]

DynItems(t) == FlattenSeq([s \in 1 .. t.signers_size |-> SignerItems(t, s)])

---------------------------------------------------------------------------
(* format_tag_value and the format functions of sign_tx_common.c, which    *)
(* follow the pointers of the transaction.                                 *)

\* The flags that have a name.
ScopeText(scope) ==
    IF scope \in {0, 128} THEN << scope >> ELSE << scope % 2, (scope \div 16) % 2, (scope \div 32) % 2 >>

TextOf(item) ==
    LET s == tx.signers[item.signer]
    IN  CASE item.kind = "Signer"   -> Pair(<< "Signer" >>, << item.signer, tx.signers_size >>)
          [] item.kind = "Account"  -> Pair(<< "Account" >>, At(raw, s.account, UINT160_LEN))
          [] item.kind = "Scope"    -> Pair(<< "Scope" >>, ScopeText(s.scope))
          [] item.kind = "Contract" -> Pair(<< "Contract", item.number, s.size["contracts"] >>,
                                            At(raw, s.allowed["contracts"][item.number], UINT160_LEN))
          [] item.kind = "Group"    -> Pair(<< "Group", item.number, s.size["groups"] >>,
                                            At(raw, s.allowed["groups"][item.number], ECPOINT_LEN))

---------------------------------------------------------------------------
(* The callback of the SDK, and the pages.                                 *)

PairsCount == Len(static_items) + Len(dyn_items)

\* Fault: the last slot is left out.
SlotOfShort(index) == index % (SlotCount - 1)
SlotOf(index) == index % SlotCount

\* get_single_action_review_pair: what it writes, and the pointers it returns.
IsStatic(index) == index < Len(static_items)
Callback(index) ==
    dyn_slots' = IF IsStatic(index)
                 THEN dyn_slots
                 ELSE [dyn_slots EXCEPT ![SlotOf(index)] =
                          TextOf(dyn_items[index - Len(static_items) + 1])]
Pointer(index) == [static |-> IsStatic(index), at |-> IF IsStatic(index) THEN index + 1 ELSE SlotOf(index)]

\* How many pairs a page may have when so many are left.
PageSizes(left) == {n \in 1 .. SlotCount : n <= left}

\* Fault: the items of the last review are not removed.
StartReviewBehindTheLast(t) ==
    /\ title' = Title(t)
    /\ static_items' = StaticItems(t)
    /\ dyn_items' = dyn_items \o DynItems(t)
    /\ page' = [first |-> 0, count |-> 1, pairs |-> << >>]
    /\ UNCHANGED dyn_slots

\* start_sign_tx_ui, of a transaction that may be shown.
StartReview(t) ==
    /\ title' = Title(t)
    /\ static_items' = StaticItems(t)
    /\ dyn_items' = DynItems(t)
    /\ \E count \in PageSizes(Len(static_items') + Len(dyn_items')) :
          page' = [first |-> 0, count |-> count, pairs |-> << >>]
    /\ UNCHANGED dyn_slots

Measure(index) ==
    /\ IsOpen /\ page.pairs = << >>
    /\ index < PairsCount
    /\ index \in page.first .. page.first + SlotCount - 1
    /\ Callback(index)
    /\ UNCHANGED << title, static_items, dyn_items, page >>

\* The next pair of the page.
Draw ==
    /\ IsOpen /\ Len(page.pairs) < page.count
    /\ Callback(page.first + Len(page.pairs))
    /\ page' = [page EXCEPT !.pairs = Append(@, Pointer(page.first + Len(@)))]
    /\ UNCHANGED << title, static_items, dyn_items >>

Drawn == IsOpen /\ Len(page.pairs) = page.count

\* A swipe to the page behind or in front of this one.
Swipe(first, count) ==
    /\ Drawn
    /\ \/ first = page.first + page.count /\ count \in PageSizes(PairsCount - first)
       \/ first + count = page.first /\ count \in PageSizes(page.first)
    /\ page' = [first |-> first, count |-> count, pairs |-> << >>]
    /\ UNCHANGED << title, static_items, dyn_items, dyn_slots >>

\* The pairs on the screen.
Deref(pointer) == IF pointer.static THEN static_items[pointer.at] ELSE dyn_slots[pointer.at]
OnScreen == [k \in DOMAIN page.pairs |-> Deref(page.pairs[k])]
=============================================================================
