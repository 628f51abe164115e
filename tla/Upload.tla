------------------------------- MODULE Upload -------------------------------
(***************************************************************************)
(* An upload from its first byte to the review of what it encodes: the     *)
(* chunks of handler_sign_tx, the parser, and the pages of the review, of  *)
(* the bytes that Neo3Session takes for whole headers and scripts.         *)
(*                                                                         *)
(* A chunk is one byte: a longer one only appends, and only its end may    *)
(* start the parser.  Left to Neo3Session: the path and the magic, refused *)
(* commands, the setting that lets other scripts be reviewed.              *)
(***************************************************************************)
EXTENDS TxFormat

CONSTANTS
    Contents,       \* the transactions the host encodes
    Others,         \* uploads that encode none
    SigningFronts   \* what signing may put in front of raw_tx: a magic and a hash

\* Nothing is assumed of a front but that it is not empty: its first byte is the low
\* byte of a magic the host chooses, and the bytes behind it may read as anything.
ASSUME UploadsAssumption ==
    /\ Others \subseteq Bytes /\ \A c \in Contents : IsContent(c) /\ Encode(c) \in Bytes
    /\ SigningFronts \subseteq Bytes \ {<< >>}

VARIABLES
    reviews,        \* how often what was uploaded since chunk 0 was reviewed (ghost)
    signed          \* whether signing has written over it (ghost)

history == << reviews, signed >>
vars    == << raw, tx, parser, review, history >>

Init ==
    /\ raw = << >> /\ tx = EmptyTx
    /\ pc = "done" /\ status = "none"
    /\ offset = 0 /\ i = 0 /\ list = "contracts" /\ j = 0 /\ listed = 0
    /\ title = "none" /\ static_items = << >> /\ dyn_items = << >>
    /\ dyn_slots = [k \in 0 .. SlotCount - 1 |-> Pair(<< >>, << >>)]
    /\ page = Closed
    /\ reviews = 0 /\ signed = FALSE

\* The handler is done and the host has its reply.
HostMaySend == pc = "done" /\ status # "PARSING_OK" /\ ~IsOpen

\* Fault: chunk 0 clears one field after the other, but not is_neo.
NewUploadKeepingIsNeo ==
    /\ HostMaySend
    /\ raw' = << >> /\ tx' = [EmptyTx EXCEPT !.is_neo = tx.is_neo]
    /\ status' = "none" /\ reviews' = 0 /\ signed' = FALSE
    /\ UNCHANGED << pc, offset, i, list, j, listed, review >>

\* Chunk 0 clears all of G_context.
NewUpload ==
    /\ HostMaySend
    /\ raw' = << >> /\ tx' = EmptyTx
    /\ status' = "none" /\ reviews' = 0 /\ signed' = FALSE
    /\ UNCHANGED << pc, offset, i, list, j, listed, review >>

\* crypto_sign_tx: the front is overwritten, the rest of the upload stays.
AfterSigning(data, front) ==
    [k \in DOMAIN data |-> IF k \in DOMAIN front THEN front[k] ELSE data[k]]

\* What the host sends, or begins to send.
Uploads == Others \cup {Encode(c) : c \in Contents}

\* One more byte of an upload, also of one that was signed, as long as there is room.
Begun(u) ==
    LET start == At(u, 0, Len(raw))
    IN  /\ Len(raw) < Len(u)
        /\ IF signed
           THEN \E front \in SigningFronts : raw = AfterSigning(start, front)
           ELSE raw = start
NextData ==
    IF Len(raw) < MaxLen THEN {Append(raw, u[Len(raw) + 1]) : u \in {v \in Uploads : Begun(v)}} ELSE {}

ReceiveMore ==
    /\ HostMaySend
    /\ raw' \in NextData
    /\ UNCHANGED << tx, parser, review, history >>

ReceiveLast ==
    /\ HostMaySend
    /\ \E data \in NextData : Begin(data)
    /\ UNCHANGED << review, history >>

Parse == Read /\ UNCHANGED << review, history >>

\* The rest of the handler, when the parser is done.
ShowReview ==
    /\ pc = "done" /\ status = "PARSING_OK"
    /\ StartReview(tx)
    /\ status' = "reviewed" /\ reviews' = reviews + 1
    /\ UNCHANGED << raw, tx, pc, offset, i, list, j, listed, signed >>

Look ==
    /\ \/ \E index \in page.first .. page.first + SlotCount - 1 : Measure(index)
       \/ Draw
       \/ \E first \in 0 .. PairsCount, count \in 1 .. SlotCount : Swipe(first, count)
    /\ UNCHANGED << raw, tx, parser, history >>

\* The last page ends with the button to hold.
Approve ==
    /\ Drawn /\ page.first + page.count = PairsCount
    /\ \E front \in SigningFronts : raw' = AfterSigning(raw, front)
    /\ signed' = TRUE
    /\ page' = Closed
    /\ UNCHANGED << tx, parser, title, static_items, dyn_items, dyn_slots, reviews >>

Reject ==
    /\ IsOpen
    /\ page' = Closed
    /\ UNCHANGED << raw, tx, parser, title, static_items, dyn_items, dyn_slots, history >>

Next ==
    \/ NewUpload
    \/ ReceiveMore
    \/ ReceiveLast
    \/ Parse
    \/ ShowReview
    \/ Look
    \/ Approve
    \/ Reject

Spec == Init /\ [][Next]_vars

---------------------------------------------------------------------------
(* Where a transaction t has its parts in an upload `data`: one behind the *)
(* other, each from where the last ends.                                   *)

\* The header fields, and the end of the last.
HeaderAt ==
    << 0, 1, 1 + IntLen, 1 + IntLen + LongLen, 1 + IntLen + 2 * LongLen, 1 + 2 * IntLen + 2 * LongLen >>
HeaderLies(data, t, n) ==
    \A k \in 1 .. n : t.header[HeaderFields[k]] = At(data, HeaderAt[k], Width(HeaderFields[k]))

\* A count in any of the ways it may be written.
IsCount(data, n, from, to) ==
    LET mark == data[from + 1]
    IN  \/ mark < 253 /\ to = from + 1 /\ n = mark
        \/ /\ mark >= 253 /\ to = from + (IF mark = 253 THEN 3 ELSE IF mark = 254 THEN 5 ELSE 9)
           /\ n = data[from + 2] + 256 * data[from + 3]
           /\ \A k \in from + 4 .. to : data[k] = 0

\* The first n items of a list.
ItemsLie(t, s, l, n, from, to) ==
    LET pointers == t.signers[s].allowed[l]
    IN  /\ from = IF n = 0 THEN to ELSE pointers[1]
        /\ \A k \in 1 .. n : pointers[k] + ItemLen(l) = IF k = n THEN to ELSE pointers[k + 1]

\* A list that the scope has no flag for has neither bytes nor items.
ListLies(data, t, s, l, from, to) ==
    LET n == t.signers[s].size[l]
    IN  IF HasFlag(l, t.signers[s].scope)
        THEN \E first \in from .. to : IsCount(data, n, from, first) /\ ItemsLie(t, s, l, n, first, to)
        ELSE n = 0 /\ to = from

\* The first n signers.
SignerLies(data, t, s, to) ==
    LET lists == t.signers[s].account + UINT160_LEN + 1
    IN  /\ t.signers[s].scope = data[lists]
        /\ \E groups \in lists .. to :
              ListLies(data, t, s, "contracts", lists, groups) /\ ListLies(data, t, s, "groups", groups, to)
SignersLie(data, t, n, from, to) ==
    /\ from = IF n = 0 THEN to ELSE t.signers[1].account
    /\ \A s \in 1 .. n : SignerLies(data, t, s, IF s = n THEN to ELSE t.signers[s + 1].account)

\* All that is in front of the signer behind the first n.
FrontLies(data, t, n, to) ==
    /\ HeaderLies(data, t, Len(HeaderFields))
    /\ \E first \in 0 .. to :
          IsCount(data, t.signers_size, HeaderAt[6], first) /\ SignersLie(data, t, n, first, to)

AttributesLie(data, t, from, to) ==
    /\ IsCount(data, t.attributes_size, from, to - t.attributes_size)
    /\ \A k \in to - t.attributes_size + 1 .. to : data[k] = HIGH_PRIORITY

\* Every byte belongs to one part, from the first up to the last.
Covers(data, t) ==
    /\ \E from \in 0 .. Len(data) :
          /\ FrontLies(data, t, t.signers_size, from)
          /\ \E to \in from .. Len(data) :
                AttributesLie(data, t, from, to) /\ IsCount(data, t.script_size, to, t.script)
    /\ t.script + t.script_size = Len(data)

\* The fields the script matchers write.
MatchFields ==
    {"amount", "dst", "vote_to", "is_system_asset_transfer", "is_neo", "is_vote_script", "is_remove_vote"}
MatchedAfresh(t, script) == \A f \in MatchFields : t[f] = MatchScript(script, EmptyTx)[f]

---------------------------------------------------------------------------
(* Properties.                                                             *)

Places == {"done", "header", "signers_length", "account", "scope", "list", "item",
           "attributes_length", "attribute", "script", "match"}

\* The parser stays inside of the upload and of the arrays it fills: header field,
\* signer, attribute and item of a list are indices of what there is, and the sizes
\* left in the transaction, by whatever attempts to parse, are sizes it has room for.
TypeOK ==
    /\ raw \in Bytes /\ Len(raw) <= MaxLen
    /\ offset \in 0 .. Len(raw)
    /\ pc \in Places
    /\ pc = "header" => i \in DOMAIN HeaderFields
    /\ pc \in {"account", "scope", "list", "item"} => i \in 1 .. tx.signers_size
    /\ pc \in {"list", "item"} => list \in Lists
    /\ pc = "item" => j \in 1 .. tx.signers[i].size[list]
    /\ pc = "attribute" => i \in 1 .. tx.attributes_size
    /\ tx.signers_size \in 0 .. MaxSigners
    /\ tx.attributes_size \in 0 .. MaxAttributes
    /\ \A s \in 1 .. MaxSigners, l \in Lists : tx.signers[s].size[l] \in 0 .. Limit(l)

\* dyn_items has as many places as the largest transaction let through has items.
ItemsFit == Len(dyn_items) <= MaxSigners * (3 + MaxContracts + MaxGroups)

Meaning  == [u \in {Encode(c) : c \in Contents} |-> CHOOSE c \in Contents : u = Encode(c)]
Expected == [c \in Contents |-> ExpectedPairs(c)]

\* The screen shows the title of a content, and its part of the content's pairs.
Shows(c, pairs) ==
    /\ title = ExpectedTitle(c)
    /\ PairsCount = Len(pairs)
    /\ OnScreen = At(pairs, page.first, Len(page.pairs))

\* Before a signature: what the owner sees on any page, read through pointers into
\* the upload and slots that were used before, is what the transaction encoded by
\* the upload means, at its place; and there is such a transaction, within the
\* limits of the application.  Attempts to parse parts of the upload before make no
\* difference.
PagesShowUpload ==
    IsOpen /\ ~signed =>
        /\ raw \in DOMAIN Meaning
        /\ LET c == Meaning[raw] IN Supported(c) /\ Shows(c, Expected[c])

\* The pairs of a transaction: the static ones, and behind them those of the signers.
PairAt(t, k) ==
    IF k <= Len(StaticItems(t)) THEN StaticItems(t)[k]
    ELSE TextOf(DynItems(t)[k - Len(StaticItems(t))])

\* Whatever was parsed, every pair on the screen is the one of the transaction in
\* G_context that has this number, although it is read out of a slot that other
\* items were written to, for this page, before it or to measure it.
PagesShowTransaction ==
    IsOpen =>
        /\ title = Title(tx)
        /\ page.first + Len(page.pairs) <= Len(StaticItems(tx)) + Len(DynItems(tx))
        /\ \A k \in DOMAIN page.pairs : OnScreen[k] = PairAt(tx, page.first + k)

\* Before a signature the transaction under review is all of the upload and nothing
\* but the upload: its parts lie in it without a gap or an overlap, and no size of
\* it, no pointer it uses and no list is left from an attempt to parse before.
FieldsCoverUpload == IsOpen /\ ~signed => Covers(raw, tx)

\* Before a signature, what the owner is told the script does is what the matchers
\* find in the script under review on its own, whatever they found and left behind
\* before.
ScriptMatchedAfresh ==
    IsOpen /\ ~signed => MatchedAfresh(tx, At(raw, tx.script, tx.script_size))

\* Every transaction within the limits is parsed, however its counts are written
\* and however it was cut.  But if the host said too early that it was complete,
\* the attribute read then is in its own way.  (Bytes left by signing are no upload
\* of a transaction, even if they happen to be those of one.)
SupportedIsParsed ==
    [][ (/\ pc # "done" /\ pc' = "done" /\ ~signed
         /\ raw \in DOMAIN Meaning /\ Supported(Meaning[raw]))
          => \/ status' = "PARSING_OK"
             \/ status' = "ATTRIBUTES_DUPLICATE_TYPE" /\ Meaning[raw].attributes = 1 ]_vars

\* No upload is another one with something behind it: what was reviewed once is not
\* reviewed again before the next chunk 0, unless it was signed and the front that
\* signing left reads as the start of another transaction.
ReviewedOnce == IsOpen /\ reviews > 1 => signed

Sizes(l) == [s \in 1 .. tx.signers_size |-> tx.signers[s].size[l]]
Bagl == INSTANCE SignerFlow WITH
    tx <- [signers |-> [s \in 1 .. tx.signers_size |->
              [allowed_contracts_size |-> Sizes("contracts")[s],
               allowed_groups_size |-> Sizes("groups")[s]]]],
    flow <- << >>, step <- 0, mode <- "STATIC_SCREEN", ctx <- << >>, text <- << >>, seen <- {}

Kinds == [Signer |-> Bagl!INDEX, Account |-> Bagl!ACCOUNT, Scope |-> Bagl!SCOPE,
          Contract |-> Bagl!CONTRACTS, Group |-> Bagl!GROUPS]
PlaceOf(item) ==
    << 2, item.signer - 1, Kinds[item.kind], IF item.number = 0 THEN 0 ELSE item.number - 1 >>

\* The devices with a touch screen show the same items of the signers, in the same
\* order, as those with buttons.
BothBuildsAgree ==
    IsOpen =>
        /\ {PlaceOf(dyn_items[k]) : k \in DOMAIN dyn_items} = Bagl!SignerPlaces
        /\ \A k \in 1 .. Len(dyn_items) - 1 :
              Bagl!Earlier(PlaceOf(dyn_items[k]), PlaceOf(dyn_items[k + 1]))

---------------------------------------------------------------------------
(* What a comment says and the code does otherwise.                        *)

\* try_parse_transfer_script ends with "we were able to parse the amount": of a
\* transaction shown as a transfer, that is what its script has the machine push.
AmountIsPushed ==
    (IsOpen /\ ~signed /\ tx.is_system_asset_transfer) => tx.amount = Pushed(Meaning[raw].does.push)
=============================================================================
