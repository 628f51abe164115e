# The NEO N3 Ledger application in TLA+

Formal models of the application in `src/`: what a host may send it, what it asks
its owner, and what it signs. TLC checks the models on small instances, TLAPS
proves the most important facts for every instance. Source paths below leave out
the leading `src/` of the repository's own source directory.

## 1. The system

A single thread (`app_main`, `main.c`) takes in one command (APDU) after the
other, and between them the events of the user interface. A handler runs to its
end; it either replies to the host or puts a question on the screen and leaves
the reply to the callback of the answer. All handlers and callbacks share
`G_context`, which has the state of the protocol, the path, the magic and either
a public key or the upload (a union).

| component | state it keeps | operations | modelled in |
| --- | --- | --- | --- |
| APDU loop, dispatcher (`main.c`, `apdu/`) | none | tests CLA, INS, P1, P2 and data, calls a handler | `Neo3Session` |
| BIP44 validation (`common/bip44.c`) | writes the path | five level checks, copies level by level | `Bip44` |
| signing handler (`handler/sign_tx.c`) | `G_context`: `state`, `req_type`, `bip44_path`, `network_magic`, `tx_info` | chunk 0, chunk 1, more data, last data | `Neo3Session` |
| public key handler (`handler/get_public_key.c`, `helper/`) | `G_context.raw_public_key` | derive, then reply or ask | `Neo3Session` |
| version and name handlers | none | reply | `Neo3Session` |
| parser (`transaction/deserialize.c`, reads of `common/app_buffer.c`) | `tx_info.transaction`, filled in place | parse the whole upload | `Deserialize` (bytes), `Neo3Session` (outcomes and leftovers) |
| script matchers (`transaction/tx_utils.c`) | flags, amount, destination and key of the transaction | recognise transfers and votes | `TxScript` (bytes), `Neo3Session` (flags) |
| review contents (`ui/sign_tx_common.c`, `common/app_format.c`) | `G_tx`, the texts | format, start the review | `Neo3Session` (which texts), `ReviewTexts` (numbers), `NbglReview` (signers) |
| BAGL review (`ui/sign_tx_bagl.c`) | the flow array, `display_ctx`, `g_title`, `g_text` | two buttons, delimiters, `next_prop`, `prev_prop` | `SignerFlow` |
| NBGL review (`ui/sign_tx_nbgl.c`) | items, slots, title | start, pair callback, final callback | `NbglReview`, `Upload`; the gate and the status screens in `Neo3Session` |
| answers (`ui/action/validate.c`) | `state` | sign or refuse, reply | `Neo3Session` |
| address display (`ui/ui_get_public_key.c`) | `g_address` | ask, two answers | `Neo3Session` |
| menu and settings (`ui/menu.c`) | `N_storage` in flash, strings and switches | navigate, switch | `Neo3Session` |
| cryptography (`crypto.c`) | writes `raw_tx` and `hash` | derive, sign | `Neo3Session` (abstract) |
| address encoding (`ui/utils.c`) | none | pure functions | not modelled |
| SDK, client, tests, fuzzer | | | not modelled |

What is hard here. Nothing preempts anything, but almost every piece of state
outlives the step that wrote it:

* `raw_tx` grows across chunks, across attempts that failed to parse, across
  rejections and signatures, until chunk 0 clears it. Signing even writes over its
  first 36 bytes; where the low byte of the magic is 0 and the hash fits, what is there
  then reads as the start of another transaction.
* `transaction` is parsed into again and again without being cleared. The flags
  of the matchers and the attributes of one attempt are there in the next.
* The texts of `G_tx` are copies. A review points at them while the signers are
  formatted late, out of the live context and the live settings.
* The guards of the chunks join their tests with `&&`
  (`handler/sign_tx.c:50,60`), so the order of an upload is hardly checked.
* The reply to a command may be the business of a callback much later.
* The transaction holds pointers into `raw_tx`, sizes and attributes that an
  attempt leaves stay for the next, and the items of the NBGL review are formatted
  through those pointers into a few slots that pages share.
* `format_amount` moves a decimal point into numbers of one to twenty digits, in
  buffers that hold the longest with a byte to spare; whatever does not fit ends the
  review before it starts.
* The settings screens show copies of what is in flash, and on NBGL it is the copy
  that is turned over and stored.
* The BAGL review walks nested lists of any size, backwards and forwards, with
  four byte indices, turning round anywhere, in two functions that must be each
  other's inverse.

What makes it correct: a command gets one reply (`AskingIffAwaited`,
`CommandAnswered`); the owner reads what `G_context` holds (`ReviewIsLive`), which
is what the upload says and nothing an earlier one said (`ReviewIsOfThisUpload`);
each upload is signed once at most (`OneSignaturePerUpload`); arbitrary scripts
need the setting (`ScriptsNeedPermission`); the key sent is the key shown
(`KeySentIsKeyShown`); the owner has seen every item before they can approve
(`EverythingShownBeforeApproval`); every page of the other review shows what the
uploaded bytes mean (`PagesShowUpload`), that is, each of its pairs is the one of its
number in the transaction (`PagesShowTransaction`), whose parts lie in the upload
without a gap or an overlap and with nothing left from another (`FieldsCoverUpload`),
and what it says of the script is what is found in this script (`ScriptMatchedAfresh`);
both builds show the same in the same order (`BothBuildsAgree`), and
what was reviewed is not reviewed again with more behind it (`ReviewedOnce`); every
amount on the screen is, digit by digit, the number that was uploaded (`AmountsAreShown`,
`TotalIsSum`) and none is too long to be shown (`NoAmountFails`); what the settings show
is what is stored (`SettingsShownAreStored`); and, on the whole, a signature covers just
what the owner was asked about (`SignsOnlyWhatWasShown`).

One thing makes it incorrect. If the front that signing leaves reads as the start of a
transaction, a host can complete it and have it reviewed with what the signed
one left behind (`doc_transfer`). So some of the above holds up to the first signature
of an upload (`FirstSignsWhatWasShown` is the part of `SignsOnlyWhatWasShown` that does),
and after it for networks whose fronts do not read, as those of MainNet and TestNet:
each property and theorem below says which.

## 2. The modules

| module | subject |
| --- | --- |
| `Bip44` | `buffer_read_and_validate_bip44` as operators on sequences of words |
| `Neo3Session` | the application between a host and an owner; the core module |
| `Consent` | the abstract promise: ask, then grant exactly that, or withdraw |
| `MCSession` | commands, headers and scripts for TLC |
| `SignerFlow` | browsing a review on the Nano devices |
| `ReviewList` | the abstract promise: a walk along an ordered set of places |
| `MCSignerFlow` | the view TLC uses |
| `TxScript` | both script matchers as operators on bytes |
| `Deserialize` | `transaction_deserialize`, a field per step, over bytes |
| `NbglReview` | items, slots and pages of the review on touch screens |
| `TxFormat` | the reference: what bytes encode a transaction, and what its owner has to see |
| `Upload` | chunks, parser and touch screen review together |
| `MCUpload` | transactions and other uploads for TLC |
| `Formats` | `format_amount` and `%d` as operators on digits |
| `ReviewTexts` | the numbers `start_sign_tx` writes, transaction after transaction |
| `MCReviewTexts` | numbers for TLC |
| `Neo3SessionProofs`, `SignerFlowProofs`, `ReviewTextsProofs` | theorems about the module named |
| `UploadProofs`, `ReviewedOnceProofs`, `FieldsProofs`, `NbglReviewProofs`, `EncodingProofs` | theorems about `Upload`: types; parsing as a function of the bytes; what a parse leaves in the transaction; pages; what the bytes mean |

### `Neo3Session`

A step is one command handled to its end or one callback handled to its end,
which is the grain at which the thread of the application works. The variables
are the globals, under the names given in their comments; `response` is the last
reply, or `Awaited` as long as the host has none; `signatures` is a ghost.

* `DispatchStatus` is `apdu_dispatcher` up to the call of the handler.
  `MalformedCommand` and `RefusedCommand` are the commands that end there.
* `GetPublicKey`, `ReceivePath`, `ReceiveMagic`, `ReceiveMore` and `ReceiveLast`
  are the handlers, each with its guard as the code has it (`DataRefused` keeps
  the `&&`), each early return a branch.
* `ReceiveLast` contains everything the last chunk leads to: appending, parsing
  (`ParseStatus`, `AfterParse`), hashing, writing the texts (`StartReview`),
  testing the setting, putting up the review or the refusal.
* `Approve(ok, n)`, `Reject`, `LeaveNoScripts`, `ConfirmAddress`, `RejectAddress` are
  the callbacks. `Approve` signs: it overwrites the front of `raw`, which will read
  as `n` says, replaces `hash`, and replies with a signature, or with `SW_SIGN_FAIL` if `~ok`.
* `Restart` is the loss of power, or quitting: globals are zeroed, `storage` stays.
* `switches` is the copy of the settings the screens show. On NBGL the home screen
  fills it (`MenuSwitches`, wherever the code calls `ui_menu_main`), and
  `ControlsCallback` turns the copy over and stores it; on BAGL `SwitchStored` turns
  the flash over and fills the texts again.

Both builds are one model; the constant `Ui` selects. A host that does not wait
for its reply is not modelled: the SDK (external) is half duplex, and does not hand a
command to the application before the last is answered. The public key and the upload
share a union in `G_context` (`types.h:61-65`) and are variables of their own here:
`reqType` says which is meant, and that one overwrites bytes of the other is not modelled.

Abstractions. An upload is a sequence of *pieces*: a header (version up to the
attributes), a script, junk, or a front, so that an upload can be cut into chunks, repeated,
overwritten and run over the limit, while fields stay opaque. What a matcher makes
of a script is the constant `KindOf`; the kinds stand for the ways the matchers end:
a NEO or GAS transfer, a vote, a retracted vote, a NEO transfer with code behind it
(`neoPlus`, which leaves `is_neo` and the amount set, and whose first byte is that of
a retracted vote), and the rest. Hashes and keys are injective: a hash is what was
hashed. The errors of `start_sign_tx` cannot be returned: `format_amount` fits any
64-bit value in thirty bytes (`FormatTheorem`), `format_hex` is given room enough.

Fronts. Signing writes the magic and a hash over the first 36 bytes (`crypto.c:81-82`),
which is never all of a piece: a header has 25 bytes before the number of signers and at
least 21 for a signer. So a front keeps the piece `behind` it. Read again, its first byte
is the low byte of the magic, and refused as a version unless it is 0 (`FrontMayRead`;
MainNet and TestNet have 78; it is 0 too if chunk 1 never came); the signs of the fees and
the number of signers are bytes of the hash. That number moves the end of the signers, so
that a header which starts at the front may end in a piece further on: `taken` is the
number of pieces it takes up, 0 if it is refused. The pieces behind are the host's choice,
and the one after the header is read as the script, so that appended chunks can complete
another transaction. What a front may read as is any member of `HashReadings`, chosen when
it is written: {0} in the runs on networks whose fronts are refused, {0, 2} in `flags`,
where a chunk appended after a signature may open a review, {0, 1, 2} in `doc_transfer`.

### `SignerFlow`

`flow` is the array of steps `create_transaction_flow` builds, `step` the index the
SDK keeps, `ctx` and `mode` are `display_ctx`, `text` is what `g_title` and `g_text`
spell. `GoForward` and `GoBack` are the buttons: `ux_flow_next` and `ux_flow_prev`
(external) enter the neighbouring step, and if that is a delimiter,
`display_next_state` runs in the same action, moves the indices with `NextProp` or
`PrevProp`, and goes on to the step it chooses. `next_prop` and `prev_prop` call
themselves at most once, having moved to another signer, so that they are plain
operators. `StartSignTxUi` takes any transaction and any settings, from whatever
state the review before left the indices in.

`Place` says what the owner really looks at: the step, or what the *text* spells.
`ReviewList`, the abstract specification, lets it move to the next or the previous
place in the order of the review and nowhere else. That forward steps end follows:
each goes up in a finite order.

### `Upload`

`Neo3Session` takes headers and scripts as opaque pieces; `Upload` takes them byte by
byte. `TxScript`, `Deserialize`, `NbglReview` and `TxFormat` are layers of it, each
extending the one before; the actions of the layers leave the variables of the
layers above to `Upload`.

* `Deserialize`: `pc` is the field to be read next. One field is one step although
  nothing can come in between, so that what each `return` leaves in `tx` is there to
  be seen. `tx` is never cleared but by `NewUpload`. Pointers are offsets into `raw`.
  All error codes are one but `ATTRIBUTES_DUPLICATE_TYPE`, which a property speaks of.
* `TxScript`: `MatchTransfer` and `MatchVote` give the transaction as the matchers
  leave it, for each place they may stop at. Amounts are the bytes of an `int64_t`.
* `NbglReview`: `Callback` is `get_single_action_review_pair`. The SDK (external) asks
  for the pairs of a page in order and keeps the pointers (`Draw`); before the first
  pair of a page it may ask for pairs from the start of the page on, to see how many
  fit (`Measure`); no page has more than `NB_MAX_DISPLAYED_PAIRS_IN_REVIEW` pairs.
  How many it has is open, so that every way of cutting pages is checked. `OnScreen`
  follows the pointers at any later time.
* `Upload`: a chunk of one byte is enough, since a chunk only appends and its end
  only matters to the last. Any byte may be the last of an attempt, and after a
  refusal, an answer or a signature the host may go on from where it was.
  `AfterSigning` writes a front over its first bytes, any of `SigningFronts`, and what is
  appended behind it is the rest of an upload. `signed` says that this has happened
  since chunk 0.
* `TxFormat` is not translated from the code: `Encode`, `Supported` and `ExpectedPairs`
  say what a NEO N3 transaction is and what has to be seen of it, written from the
  format alone. Its only debts to the code are the limits and the names of the scopes.
  `IsContent` says what a content may be made of, of any size: a script is a transfer, a
  vote, or any bytes that are neither (`IsOther`). Each count is written in one, three,
  five or nine bytes, as its content says (`widths`), whether it needs them or not.
  It makes uploads of contents; the vocabulary of `Covers` in `Upload` goes the other
  way and says of a transaction and an upload, whatever they are, that the one lies in
  the other: header fields, counts in any of the ways they may be written, signers,
  lists, attributes and script, each starting where the one before it ends.
  `MatchedAfresh` compares the fields of the matchers with those that the matchers
  would write into an empty transaction.

Left to `Neo3Session`: the path, the magic, refused commands, the gate of arbitrary
scripts, the format of accounts, a signature that fails. Left to `ReviewTexts`: the
numbers as text. A front is any sequence of bytes (`UploadsAssumption` asks only that it
is not empty). What the owner reads after a front that parses is not what the upload says,
so the properties that compare the two are about reviews before a signature (`~signed`):
`PagesShowUpload`, `FieldsCoverUpload`, `ScriptMatchedAfresh`, `SupportedIsParsed`,
`ReviewedOnce`. The others hold of every review. `FrontsRefused` says for which fronts no
review comes after a signature.

### `ReviewTexts`

`Formats` has a number as its twenty decimal places and a text as the sequence of its
characters. `format_amount` is both branches of the code with what `strncpy` cuts off,
`Fits` its tests of `dst_len`; `format_u64` is the SDK's. `StartSignTx` writes the
amounts of any transaction over the texts of the one before, in the order of the code,
and returns with an error at the first that does not fit; a review that is open is
answered before the next. `Shows` says what the text of a number is without reference
to how it is made: one point, the decimals behind it, no needless zero in front, and
at each decimal place the digit of the number. `Plus` is the 64-bit addition of the two
fees with carries looked ahead for, `IsSum` the schoolbook condition on columns.

## 3. What TLC checks

| run | bounds | checks | shows |
| --- | --- | --- | --- |
| `dispatch` | 1 header, 1 script, 2 pieces, 9 paths, 11 refused commands | `TypeOK`, `AskingIffAwaited`, `KeySentIsKeyShown`, `CommandAnswered` | every way through dispatcher and handlers |
| `sign` | 2 headers (one with the attribute), a vote and an arbitrary script, 2 magics, fronts that are refused, 3 pieces, 2 settings, BAGL | `ReviewIsLive`, `OneSignaturePerUpload`, `ScriptsNeedPermission`, `SettingsShownAreStored`, `SignsOnlyWhatWasShown` | uploads in every order, for two networks, with paths refused and settings switched in between |
| `flags` | a GAS transfer and a NEO transfer with code behind it, 2 magics with their low byte zero, one of them that of an upload without chunk 1, fronts that are refused or take two pieces, requests for addresses, 3 pieces, NBGL | `AskingIffAwaited`, `ReviewIsLive`, `ReviewIsOfThisUpload`, `SettingsShownAreStored`, `FirstSignsWhatWasShown` | leftovers of the parser do not show in a review of what was sent, though the buffer that signing overwrote is parsed and reviewed again; its texts are live then too; switches show the flash |
| `browse` | 2 signers with up to 2 contracts and 2 groups each, all flows | `TypeOK`, `EverythingShownBeforeApproval`, `BrowsesInOrder` | every walk through every small review, one review after the other |
| `upload` | 33 transactions, of which 13 are refused, and 8 other uploads; 2 fronts of 8 bytes, one that is refused and one that reads as the start of a transaction of two signers; hashes of 1 byte, keys and long integers of 2; 2 signers, 2 contracts, 1 group, 2 attributes, 3 slots, 35 bytes | `TypeOK`, `ItemsFit`, `PagesShowUpload`, `PagesShowTransaction`, `FieldsCoverUpload`, `ScriptMatchedAfresh`, `ReviewedOnce`, `BothBuildsAgree`, `SupportedIsParsed` | what the bytes mean is what every page shows, whatever was tried before |
| `numbers` | transfers of 7 amounts (0 to 2^64-1) in either token or none, 16 pairs of fees (7 to 2^63-1) | `NoAmountFails`, `AmountsAreShown`, `TotalIsSum` | every number fits and reads back as itself, on both sides of the decimal point |

The bounds suffice for the interesting cases. A piece limit of 3 lets an upload that
parses (2 pieces) be preceded or followed by more, and be refused for its length, and
something be appended to an upload that was signed. Two headers and two scripts let two
uploads differ in each part. The kinds of scripts are divided: `sign` has a vote, `flags`
a transfer and the script that is left half matched. With 3 pieces, a front that takes two
leaves one for the script, the first length at which a review behind a front can open. In
`SignerFlow` two signers are the code's own limit, as are two groups; contracts behave as
groups do, the limit of 16 is only compared with.

In `upload` the transactions take each branch of the parser and of the matchers in both
directions: each kind of push, votes with good and bad keys, scripts that stop half way,
empty, short, full and overfull lists, counts in one, three, five and nine bytes, each
refusal of a header. Widths are short because nothing in the code depends on them but
through the constants; the marks 253 to 255, the opcodes and the limits of a byte are the
real ones. The 35 bytes of `MaxLen` are the length of the longest transaction of the run,
so that the limit is met by one that parses and exceeded by one byte. Three slots and
reviews of up to eighteen pairs make every slot serve several pairs and pages.

In `numbers` there are amounts of fewer, as many and more digits than decimals, with
zeros inside, the largest of a signed and of an unsigned 64-bit number, and two fees
whose sum has twenty digits, the one case with a single byte to spare.

`MCView` (session) leaves out the part of a reply that has been sent which nothing
reads afterwards: no guard, no property but those that look at the step that sends
it. `dispatch` has a liveness property and uses no view. `MCView` of `SignerFlow`
leaves out the last transaction while no review is open: opening one replaces it.
Two settings at most are switched (`Switched`): the third, the format of accounts,
enters a review the way `showScriptHash` does. `MCView` of `Upload` leaves out the
slots that are not on the screen: a slot is written before a page points at it.

Fairness. `FairSpec` adds weak fairness of `OwnerAnswers`: the owner answers a
question that stays on the screen. Nothing else is assumed; while a question is
on the screen, no command is handled and the callbacks of the question are all
there is (or power is lost, which ends the wait as well).

### Differences between code and documents

Each of these runs must end in a counterexample.

| run | statement | code |
| --- | --- | --- |
| `doc_order` | "First apdu must always be the BIP44 path, second apdu must always be the network magic" (`apdu/dispatcher.h:20-21`), else `SW_BAD_STATE` (`doc/COMMANDS.md:85`) | `&&` in the guards: data are taken in after a path alone, and after a refused path |
| `doc_account` | "BIP44 account value exceeds 10" (`doc/COMMANDS.md:90`) | refused above 16 |
| `doc_transfer` | "indicates if the instructions in `script` match a standard GAS or NEO transfer" (`transaction/transaction_types.h:117-118`) | the flag is not cleared between parses (`transaction/deserialize.c:178`): behind a front that reads (`crypto.c:81-82`), an arbitrary script is reviewed as the transfer that was signed before, with its amount and destination, and without the setting |
| `doc_key` | GET_PUBLIC_KEY answers 0x9000 with the key (`doc/COMMANDS.md:68`) | with 64 zero bytes if derivation fails |
| `doc_amount` | "we were able to parse the amount" (`transaction/tx_utils.c:105`) | the operand of PUSHINT8 is read signed and used unsigned: -56 is shown as 200 |
| `doc_network` | "uint32 network number" (`ui/sign_tx_common.h:11`) | printed with `%d`: negative from 2^31, and cut to ten characters; `valid_until_block` is printed the same way |

Others, noticed while modelling and without a run: NBGL shows the status *transaction
signed* also when signing failed and the host gets `SW_SIGN_FAIL`, "Failed to create
signature of data" (`ui/sign_tx_nbgl.c:169-170`, `doc/COMMANDS.md:86`; `After` has the
screen); an address index of 5000 is refused though only one that "exceeds 5000" should be
(`common/bip44.c:53`); `doc/COMMANDS.md:46-48` has the values of P2 the other way round;
the NBGL build shows the script hash with the setting off (`ui/sign_tx_nbgl.c:134`) and
does not show the key a vote is cast for; P1 of the data chunks is not compared with what
was sent before; two attributes can never parse (`transaction/deserialize.c:154`); an
attribute read by an attempt that came too early makes every later one fail until chunk 0
comes (`SupportedIsParsed` has the exception); negative amounts are shown as huge ones
(`ui/sign_tx_common.c:103`): `PagesShowUpload` compares their bytes, which are the same,
and `ReviewTexts` takes the number after the cast; scope flags without a name are not
shown (`ui/sign_tx_common.c:52`).

## 4. What is proved

All proofs are checked by TLAPS from the assumptions the modules name, and hold for
every value of the constants that satisfies them.

| theorem | statement | also checked by the run |
| --- | --- | --- |
| `Neo3SessionProofs!TypeTheorem` | `Spec => []TypeOK` | `dispatch` |
| `Neo3SessionProofs!AskingTheorem` | `Spec => []AskingIffAwaited` | `dispatch`, `flags` |
| `Neo3SessionProofs!SettingsTheorem` | `Spec => []SettingsShownAreStored` | `flags`, `sign` |
| `Neo3SessionProofs!LiveTheorem` | `Spec => []ReviewIsLive` | `sign`, `flags` |
| `Neo3SessionProofs!UploadTheorem` | `Spec => []ReviewIsOfThisUpload` | `flags` |
| `Neo3SessionProofs!PermissionTheorem` | `Spec /\ []FrontsUnreadable => ScriptsNeedPermission` | `sign` |
| `Neo3SessionProofs!OneSignatureTheorem` | `Spec /\ []FrontsUnreadable => []OneSignaturePerUpload` | `sign` |
| `Neo3SessionProofs!ConsentTheorem` | `Spec /\ []FrontsUnreadable => SignsOnlyWhatWasShown` (implements `Consent`) | `sign` |
| `Neo3SessionProofs!FirstConsentTheorem` | `Spec => FirstSignsWhatWasShown` (implements `Consent` up to the first signature of an upload) | `flags` |
| `Neo3SessionProofs!KeyTheorem` | `Spec => KeySentIsKeyShown` | `dispatch` |
| `UploadProofs!TypeTheorem` | `Spec => []TypeOK` | `upload` |
| `ReviewedOnceProofs!ReviewedOnceTheorem` | `Spec => []ReviewedOnce` | `upload` |
| `ReviewedOnceProofs!FrontsRefused` | no front beginning with 0 implies `Spec => [](IsOpen => ~signed)` | |
| `FieldsProofs!FieldsTheorem` | `Spec => []FieldsCoverUpload` | `upload` |
| `FieldsProofs!ScriptTheorem` | `Spec => []ScriptMatchedAfresh` | `upload` |
| `NbglReviewProofs!ItemsFitTheorem` | `Spec => []ItemsFit` | `upload` |
| `NbglReviewProofs!PagesTheorem` | `Spec => []PagesShowTransaction` | `upload` |
| `NbglReviewProofs!BuildsTheorem` | `Spec => []BothBuildsAgree` | `upload` |
| `EncodingProofs!ReviewTheorem` | under `Spec`, always: what is under review before a signature encodes a transaction, and whatever transaction it encodes is supported and, if `AmountShown`, on the screen (`Shows`) | |
| `EncodingProofs!UploadTheorem` | `OthersEncodeNone` and `AmountShown` of each content imply `Spec => []PagesShowUpload` | `upload` |
| `EncodingProofs!ParsedTheorem` | `Spec => SupportedIsParsed` | `upload` |
| `SignerFlowProofs!TypeTheorem` | `Spec => []TypeOK` | `browse` |
| `SignerFlowProofs!WalkTheorem` | `Spec => BrowsesInOrder` (implements `ReviewList`) | `browse` |
| `SignerFlowProofs!ShownTheorem` | `Spec => []EverythingShownBeforeApproval` | `browse` |
| `ReviewTextsProofs!FormatTheorem` | `Spec => []NoAmountFails` | `numbers` |
| `ReviewTextsProofs!AmountsTheorem` | `Spec => []AmountsAreShown` | `numbers` |
| `ReviewTextsProofs!TotalTheorem` | `Spec => []TotalIsSum` | `numbers` |

### The session

Assumptions: `CommandsAssumption` (what a host can send: words for paths, a magic or
nothing, pieces), `PiecesAssumption` (headers, scripts and junk are told apart, every
script has a kind) and `BuildAssumption` (`Ui` is one of the two builds, the limit is
a natural number, as is what a front may read as). The sets may be infinite.

`AskingIffAwaited` is inductive as it stands. Each handler either replies and leaves
the screen, or asks and leaves the host without a reply; `AskingNext` goes through the
actions, and `RepliesAreReplies` says no reply can be taken for the lack of one.

`TypeOK` is not inductive. `Approve` hands over a signature of what is in the buffer
and then writes over it, so its type depends on what the buffer holds while the review
is up: `TypeInv` adds that a review is one of bytes in the buffer
and, since `TypeOK` needs to know when a reply is under way, `AskingIffAwaited`.
`AppendTypes` shows that a chunk within the limit leaves the buffer within it,
`PathReadType` that a path refused half way through leaves five words, and
`AfterParseType` that a transaction parsed half way over another is still one.

`SettingsShownAreStored` needs to know that the copy is fresh before the settings are
opened. `CopiesInv` says where: on NBGL it equals the flash all the time, on BAGL
whenever the settings are on the screen.

### Consent

Three of these theorems have a hypothesis that is stated in them, `FrontsUnreadable`: no
transaction is reviewed for a magic whose front may read as a header. It holds of a host
that only uses magics with another low byte than 0, so of MainNet and TestNet, and without
it the three are false: `doc_transfer` is the start of a counterexample to each. All
others hold of every host. They rest on one fact about the session, `StepKinds`: every
step begins an upload, appends a chunk, appends one and has the buffer parsed, signs, or
leaves the upload alone. No chunk is taken in while a review is up, a review is opened
only by a parse that ends well, and any other step leaves it for good. So a review sees
nothing move.

1. *What the parser leaves.* The script matchers write their fields in many places and
   give up half way. `Leftovers` says what can be there as long as the upload is as it was
   sent (`Whole`): the fields are empty, or they are those the matchers find in the second
   piece of the buffer, on their own. It is inductive because a buffer only grows: the
   second piece is what it was when it was matched, and `MatchAgain` has matching it again
   change nothing. Signing ends `Whole` until chunk 0: behind a front that reads another
   piece is the script. Hence what a parse of a whole upload that ends well leaves is what
   a fresh parse would (`ParseFinds`, `MatchLooksAtFound`), which is
   `ReviewIsOfThisUpload`.
2. *What the review shows.* `ReviewInv` joins `TypeInv`, `Leftovers` and, while a review
   is up: the texts it points at are those of the transaction in the context (`Live`), the
   hash is that of the buffer, the setting allowed it (`ReviewAllowed`), and, if the
   upload is `Whole`, that transaction is the one received (`ParsedIsReceived`).
   `ItemsAreWritten` is the lemma that each text of `G_tx` an item of the flow points at
   has been written by this `start_sign_tx`, though older ones stay. `ReviewIsLive` is a
   part of `ReviewInv`.
3. *What is signed.* `Approve` acts on a review, so `ApproveSigns` gets from `ReviewInv`
   what is in the hash. `ConsentNext` maps these kinds of steps to `Ask`, `Grant`,
   `Withdraw` and stuttering of `Consent`, signatures over a front being taken for
   withdrawals: `FirstConsentTheorem`.
4. *How often.* If fronts do not read, the first piece of the buffer after a signature is
   refused (`SignedInv`); appending leaves it, so that no parse can end well before a new
   upload, and every review is of a whole one (`ReviewIsWhole`). From this follow
   `OneSignaturePerUpload`, `ScriptsNeedPermission` and, with 3, `SignsOnlyWhatWasShown`.
5. *The key.* `AddressInv`: while an address is on the screen, it is that of the key in
   the context; no command is handled before the answer.

### The upload

Assumptions: `ScriptAssumption`, `LimitsAssumption`, `SlotsAssumption` and
`UploadsAssumption`: lengths and limits are natural numbers, fixed sequences and what the
host sends are bytes, and the limits are at most 255, since the code keeps the sizes they
limit in `uint8_t`; a transaction may have an attribute; the opcodes that push integers
are those below `PUSHNULL`, hashes have the length of a hash, and the two tokens have
different ones. A front is any bytes, but not none. Every content is one (`IsContent`).
Uploads and fronts may be infinitely many and of any length up to `MaxLen`, which is any
number.

`TypeOK` says that the parser stays within the upload and within the arrays: header
field, signer, list, item and attribute are indices of what there is, and all sizes
in the transaction are within their limits. It is not inductive. `Inside` adds that

* the transaction keeps its shape (`IsTx`), whatever is written into it: lemmas
  `OtherField`, `SignerField` and `MatchIsTx`, for each kind of write;
* the number of items still to be read is the size noted in the transaction
  (`listed = tx.signers[i].size[list]`), two copies of one count, kept in a local
  variable and in a field of a byte;
* nothing is under way when the parser is done, so that a new upload, a longer one, or
  one overwritten by signing finds the offset at its start.

There is one lemma for each step of the parser; `ReturnInside`, `GoOnInside` and
`NextListInside` are the three ways in which a step ends. `VarIntType` is where a count
of up to nine bytes is shown to be within the upload before it is compared.

### What was reviewed is not the start of anything else

`ReviewedOnce` says of the parser that no upload it accepts is the beginning of another,
and of the application that this keeps it from reviewing an unsigned one again.
The parser is an action on variables, with results of older attempts among them, so
the proof (`ReviewedOnceProofs`) first makes it a relation on bytes. A *control* is all
that the next step of a successful parse depends on apart from the bytes: the field,
the offset, the loop counters, and the three values that the code reads into the
transaction and returns to (scope, number of signers, number of attributes). `Advance` is the
next control, `Steps` says that a step is possible, and a `Trace` is a run of them.

1. There is one lemma for each step of the parser, gathered in `ReadSteps`: it follows
   `Steps`, whatever was in the transaction. So the parser is always at the end of a
   trace (`Reached`), and a parse that ends well makes the upload `Parsed`.
2. `NumbersAgree`, `StepsKept`, `StepsAgree`: a step looks at no byte behind where it
   ends, so more bytes do not change it; only the test that the script ends the upload
   looks further.
3. `PrefixFree`: two traces of uploads, one the beginning of the other, are the same trace
   as far as both go (`TracesAgree`; the least index at which they differ would follow two
   steps that agree), and the last step of both wants the length to be that of the upload.
4. `OnceInv`: before a signature, what is in the buffer once something was reviewed begins
   with what was `Parsed`. `NotAgain` follows from `PrefixFree`.

After a signature it depends on the front, which is why the property ends there.
`FrontsRefused` is what can be said: if no front begins with 0, none passes the version
byte (`VersionRead`, `FrontInv`), every review is one before a signature, and the theorems
about `~signed` hold of all reviews.

### The transaction is the upload

`FieldsCoverUpload` and `ScriptMatchedAfresh` are about leftovers. A failed attempt
leaves sizes, items, flags and amounts in the transaction, the next one writes over
some, and the parser never clears a list whose flag is absent. `FieldsInv` has three parts,
all of them for an upload that is not signed: nothing of the kind is so behind a front.

1. `SoFar`: for each value of `pc`, what has been read lies in the upload up to the
   offset. One lemma for each step; `FrontKept` and its like say which fields a part
   depends on, so that a write elsewhere leaves it in place, `CountRead` that the
   three ways of writing a count are told apart. The last step gives `Covers`, as soon
   as a list without a flag is known to have no items.
2. `Left`, that gives this: a list that has items has been read where a trace of *this*
   upload comes to it with a flag. An upload only grows, so that the trace is still one
   (`TraceGrows`), and a trace comes to each list once (`OneList`, by `Beyond`: having
   passed a list, the control never returns). So the parse which passes it without a flag
   would be the same trace, with one (`ListIsEmpty`). `SignedKept`: no step but chunk 0
   leads from a signed upload to an unsigned one, so that signing, which breaks this, ends
   the invariant.
3. The same for the fields of the matchers: they are empty, or those of the script at
   which a trace of this upload ends. `OneScript`: that is this script. `MatchTwice`:
   matching a script into a transaction that it was matched into changes nothing, for
   every way the matchers give up (`TransferFields` and `VoteFields` list them).

The proof has `OnceInv` as a premise for the traces. The `tx` of the model is that of
`G_context`, so the theorems hold of the very variable the review reads.

### The pages

`NbglReviewProofs` has the touch screens. Items are the concatenation of one sequence per
signer. `FlattenSeq` of the community modules is a recursive function, chosen;
`JoinsExist` shows that there is one (by the least length for which there would not be),
and `JoinsAt` what it is at each index. `FlattenLemma` has what follows, from block to
block: the length is bounded by that of the parts, an element stems from a part, and
neighbours stem from one part or from adjacent ones. `SignerItemsLemma` counts the items
of a signer, from which `ItemsFit` follows.

`PagesShowTransaction` needs the invariant `Screen`: the items are those of the
transaction, each pointer of a page is that of the pair of its number, and the slot it
points at was last written for this pair. A page has at most as many pairs as there are
slots, and numbers less than that apart have different slots (`ModDistinct`); `Measure`
writes slots too, but before any pointer of its page is kept. Nothing writes to `tx` or
`raw` while the review is open, as `Inside` has it.

`BothBuildsAgree`: `SamePlaces` has the items and the places of `SignerFlow` be the
same set, by what a signer contributes to each; `ItemsEarlier` and `SignersEarlier` that
neighbours are in the order of the Nano review.

### What the bytes mean

`EncodingProofs` is where the code meets `TxFormat`, which was written without it.
Its theorems are about contents of any size.

*A review shows the transaction that was encoded* (`ReviewTheorem`, `UploadTheorem`).

1. `Checked`: while a review of an unsigned upload is open, all tests of the parser hold
   of its transaction, and the matchers ran on it; one lemma per step carries what was
   tested so far past the writes that follow. `Sent`: an unsigned buffer is the beginning
   of one upload of the host.
2. `EncodeLaid` gives the place of each part of an encoding. `CountDecode`, `ListDecode`,
   `SignerDecode` and `FrontDecode` go along it: whatever lies in an upload that begins as
   an encoding does (`Covers`, what `FieldsCoverUpload` promises) lies where the encoding
   put it and has the values of the content. `CoversDecode`: so the transaction in the
   context *is* the content, and the upload is the whole encoding and not a part of it.
   `AcceptedSupported` has the tests of the parser imply the limits of `Supported`.
3. `TransferFinds`, `VoteFinds`: on a transfer or a vote the matchers find just its
   operands. `OtherNotMatched`: a script they match is one, put together from pieces of
   it, so that they match nothing else; their writes on the way to giving up are in
   fields that nobody looks at. `FieldsMatched` has this of the transaction.
4. `MappedFlatten` and `AllPairs`: the pairs that `ExpectedPairs` puts together are, one
   by one, `PairAt` of the transaction, and `PagesShowTransaction` does the rest.

5. `CoversWritten` goes the other way: bytes with a transaction in them (`Covers`) are an
   encoding. Each part of it is one as it lies there, whatever the width of its counts
   (`CountWritten`, `ListWritten`, `SignerWritten`, `AttributesWritten`, `HeaderWritten`),
   parts that lie one behind the other are what `Encode` puts together (`LiesJoin`,
   `LiesFlatten`), and every script does something (`ScriptMeant`).

`ReviewTheorem` has no hypothesis on what the host sends before a signature: whatever
`Contents` and `Others` are, an upload under review that is not signed yet encodes a
transaction, and `ContentShown` has it on the screen. (After a signature, a front that
parses is reviewed with what the signed transaction left: `doc_transfer`.) `AmountShown`
excludes a transfer of a negative amount of one byte; `doc_amount` is the run that shows
what happens then. `UploadTheorem` is the property of the run, where TLC can compare with
the finite set `Contents` only. So it needs `OthersEncodeNone`, that the other uploads
begin with no supported encoding that is missing in `Contents`; both hypotheses hold of
the constants of `MCUpload`, the second trivially where `Others` is empty.

*What can be encoded is parsed* (`ParsedTheorem`). With the whole of a supported encoding
in the unsigned buffer no step of the parser may refuse, unless it is for the attribute
left by a premature end. `Reading` says where the parser is: what it has read lies in the
upload (`SoFar`, from `FieldsProofs`), so by the decoding above its offset and its counts
are those of the content. One lemma per step (`HeaderParsed`, `SignersLengthParsed`, ...,
`ScriptParsed`) then has each test of that step follow from `Supported`; for the last,
that the script ends with the upload (`ScriptPlace`) and that any length which can be
written is let through (`ScriptFits`).

### The review

Assumption: `BoundsAssumption`, that the three limits fit the signed bytes of
`display_ctx`. The number of signers, contracts and groups is otherwise arbitrary,
where the run has two of each.

`TypeOK` only bounds the indices, and nothing of the kind is inductive: whether a
button leads somewhere sensible depends on the index of the step, the mode, the four
indices of `display_ctx` and the text agreeing. The invariant `Screen` says how:

* the flow is empty, a review (`IsReview`: some static steps, then the two delimiters
  with the generic step between them, then approve and reject) or a refusal;
* an open review is `InFront` of the signers, with the indices where
  `reset_signer_display_state` puts them; or `Among` them, on the generic step, in
  dynamic mode, with each of the indices exactly where the property that is displayed
  wants it, and the text being that of the indices; or `Behind` them, with the indices
  one past the last property of the last signer.

`ScreenInvariant` is proved with one lemma for each action. The argument:

1. `FlowShape`: `create_transaction_flow` makes a review or a refusal of every
   transaction under every setting, and it fits its array.
2. `NextPropMoves`, `PrevPropMoves`: on indices that are `Among`, `next_prop` and
   `prev_prop` go to the adjacent property, be it of the same signer or, over any
   empty lists, of another, and put all four indices where that property wants them;
   or they go to the end, or the start, exactly if there is no such property.
3. `AdjacentPlaces`: between properties that are adjacent so defined, no place lies.
   With the static steps (`NeighboursOutside`) that makes the places of the review a
   list in which every button moves to a neighbour (`ForwardWalks`, `BackWalks`).
4. `StepsOfTheList`: hence each step of `SignerFlow` is a step of `ReviewList` or
   stutters, which is `WalkTheorem`.
5. `ShownTheorem` uses what the list promises, not how the indices move: that all
   places up to the present one have been seen (`SeenSoFar`) is kept by moves
   to neighbours, because nothing lies between them.

So the two functions are each other's inverse at every boundary the code tests for
separately: empty lists, the last group of the last signer, coming back from behind.

### The numbers

Assumption: `TransactionsAssumption`, that fees are below 10^19 and other numbers have
twenty places, which holds of all 64-bit numbers. The invariant `TextsInv` is that each
amount of an open review is what `format_amount` makes of it; the rest is about the
function. `Digits` says which places `format_u64` writes (`FirstPlace` finds the leading
one by the well-foundedness of the natural numbers), `ShortAmount` and `LongAmount` what
is where in the texts of the two branches, `ShortShows` and `LongShows` that those texts
show the number, `EveryAmountShows` that nothing is cut off. `EveryAmountFits` is the sum
of the guard. `CarryStep` is the recursion that looking ahead for a carry amounts to,
from which `PlusIsSum` follows column by column; the top column does not overflow as
neither fee reaches it.

### Left to TLC

Liveness (`CommandAnswered`) is out of the prover's reach. The runs of the section
*Differences between code and documents* end in counterexamples. All else that a run
checks is a theorem.

## 5. Not modelled, and the plan

Not modelled: cryptography, the SDK's display libraries and I/O, address encoding
(`ui/utils.c`), hexadecimal output, the Python client. They are pure functions, or not
part of the repository. `sw.h` only names codes, which the modules use as strings.

Next:

1. `Upload` as a refinement of the pieces of `Neo3Session`: that headers and scripts
   parse as `ParseStatus` and `AfterParse` say.
