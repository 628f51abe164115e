---------------------------- MODULE Neo3Session ----------------------------
(***************************************************************************)
(* The NEO N3 application between a host that sends commands (APDUs) and   *)
(* an owner in front of the device: src/main.c and the dispatcher, the     *)
(* four handlers, G_context and the other globals, the questions put to    *)
(* the owner and the replies that follow from the answers, the settings.   *)
(*                                                                         *)
(* The application is one thread.  A step is one command handled to its    *)
(* end, or one callback of the user interface handled to its end.          *)
(*                                                                         *)
(* Abstractions:                                                           *)
(*  - The bytes of an upload are a sequence of pieces: a header (version   *)
(*    to attributes), a script with its length, and anything else.  What   *)
(*    signing leaves of a header is a piece of its own, a front.           *)
(*  - SHA-256 and key derivation are injective: a hash is the data it was  *)
(*    taken of, a public key the path it was derived from.                 *)
(*  - How a review is browsed is the business of module SignerFlow; here   *)
(*    the owner answers when the screen is up.                             *)
(*  - The key and the upload share a union (types.h); they are variables   *)
(*    of their own, and reqType says which of them is meant.               *)
(* Environment: the next command is taken when the one before has had its  *)
(* reply (the I/O of the SDK is half duplex), and the device may lose      *)
(* power at any time.                                                      *)
(***************************************************************************)
EXTENDS Formats

CONSTANTS
    Ui,             \* the build: "BAGL" (Nano S+, Nano X) or "NBGL" (Stax, Flex)
    Commands,       \* the commands a host may send: [cla, ins, p1, p2, data]
    Heads,          \* well formed transaction headers
    HighPriority,   \* the headers that carry the HIGH_PRIORITY attribute
    Scripts,        \* well formed scripts, each with its length in front
    KindOf,         \* what the script matchers recognise in each of them
    Junk,           \* bytes that are neither
    MaxLen,         \* MAX_TRANSACTION_LEN, in pieces
    HashReadings,   \* what bytes of a hash may happen to read as: see `taken` below
    Switched,       \* the settings the owner ever touches (a bound for TLC)
    None

Kinds == {"neo", "gas", "vote", "retract", "neoPlus", "other"}

\* A piece whose first 36 bytes crypto_sign_tx has overwritten with the magic and
\* a hash; the bytes behind them stay.  `taken` is how many pieces a header that
\* starts there takes: none when the version, the fees or the number of signers
\* is refused, more than one when the bytes read as that number move the end of
\* the signers into the pieces behind.  (A header that ends inside a piece leaves
\* a script that begins there, which is one more script for the model.)
Sent   == Heads \cup Scripts \cup {Junk}
Fronts == [front : Word, taken : Nat, behind : Sent]
Pieces == Sent \cup Fronts

Untouched(piece)   == IF piece \in Fronts THEN piece.behind ELSE piece
Front(m, n, piece) == [front |-> m, taken |-> n, behind |-> Untouched(piece)]

CLA            == 128
GET_APP_NAME   == 0
GET_VERSION    == 1
SIGN_TX        == 2
GET_PUBLIC_KEY == 4
P1_START       == 0
P1_MAX         == 6
P2_LAST        == 0
P2_MORE        == 128

---------------------------------------------------------------------------
(* The dispatcher.                                                         *)

ParametersAccepted(c) ==
    \/ c.ins \in {GET_VERSION, GET_APP_NAME} /\ c.p1 = 0 /\ c.p2 = 0
    \/ c.ins = GET_PUBLIC_KEY /\ c.p1 = 0 /\ c.p2 <= 1
    \/ /\ c.ins = SIGN_TX
       /\ c.p1 = P1_START => c.p2 = P2_MORE
       /\ c.p1 <= P1_MAX
       /\ c.p2 \in {P2_LAST, P2_MORE}

DispatchStatus(c) ==
    IF c.cla # CLA
    THEN "SWO_INVALID_CLA"
    ELSE IF c.ins \notin {GET_APP_NAME, GET_VERSION, SIGN_TX, GET_PUBLIC_KEY}
    THEN "SWO_INVALID_INS"
    ELSE IF ~ParametersAccepted(c)
    THEN "SWO_INCORRECT_P1_P2"
    ELSE IF c.ins \in {SIGN_TX, GET_PUBLIC_KEY} /\ c.data = None
    THEN "SWO_WRONG_DATA_LENGTH"
    ELSE "HANDLED"

Handled(c, ins) == DispatchStatus(c) = "HANDLED" /\ c.ins = ins

\* The data of a command is None when Lc is 0, else it is written as its handler
\* reads it: the words of a path; the network magic, or no word when there are
\* fewer than four bytes; the pieces of a transaction.
ASSUME CommandsAssumption ==
    \A c \in Commands :
        /\ c.cla \in Nat /\ c.ins \in Nat /\ c.p1 \in Nat /\ c.p2 \in Nat
        /\ Handled(c, GET_PUBLIC_KEY) => c.data \in Seq(Word)
        /\ Handled(c, SIGN_TX) =>
              /\ c.p1 = 0 => c.data \in Seq(Word)
              /\ c.p1 = 1 => c.data \in Seq(Word) /\ Len(c.data) <= 1
              /\ c.p1 > 1 =>
                    /\ c.data \in Seq(Sent) /\ c.data # << >>

ASSUME PiecesAssumption ==
    /\ HighPriority \subseteq Heads
    /\ KindOf \in [Scripts -> Kinds]
    /\ Heads \cap Scripts = {}
    /\ Junk \notin Heads \cup Scripts
    /\ Fronts \cap Sent = {}

ASSUME BuildAssumption ==
    /\ Ui \in {"BAGL", "NBGL"}
    /\ MaxLen \in Nat
    /\ HashReadings \subseteq Nat /\ 0 \in HashReadings
    /\ Switched \subseteq {"scriptsAllowed", "showScriptHash", "signerAccountFormat"}

---------------------------------------------------------------------------
VARIABLES
    state,      \* G_context.state
    reqType,    \* G_context.req_type
    path,       \* G_context.bip44_path
    magic,      \* G_context.network_magic
    raw,        \* G_context.tx_info.raw_tx, up to raw_tx_len
    tx,         \* G_context.tx_info.transaction
    hash,       \* G_context.tx_info.hash
    pubkey,     \* G_context.raw_public_key: the path it belongs to, or None
    gtx,        \* G_tx: the texts a review shows
    gAddress,   \* g_address: the key whose address it spells
    flow,       \* the items of the review that was started last
    screen,     \* what the owner is looking at
    storage,    \* N_storage, which outlives the application
    switches,   \* the copy of it the settings show: strings, or switches[].initState
    response,   \* the last reply, or Awaited while the host waits for one
    signatures  \* signatures handed out since raw_tx was last emptied (ghost)

context == << state, reqType, path, magic, raw, tx, hash, pubkey >>
display == << gtx, gAddress, flow, screen >>
preferences == << storage, switches >>
vars    == << context, display, preferences, response, signatures >>

Settings == {"scriptsAllowed", "showScriptHash", "signerAccountFormat"}
Dialogs  == {"review", "noScripts", "address"}
Statuses == {"signed", "rejected", "addressVerified", "addressRejected"}
Screens  == Dialogs \cup Statuses \cup {"menu", "settings"}

Awaited       == [sw |-> "none yet", sig |-> None, key |-> None]
Reply(sw)     == [sw |-> sw, sig |-> None, key |-> None]
KeyReply(k)   == [sw |-> "SWO_SUCCESS", sig |-> None, key |-> << k >>]
SigReply(sig) == [sw |-> "SWO_SUCCESS", sig |-> sig, key |-> None]

EmptyHash == [magics |-> << >>, data |-> << >>]
EmptyTx ==
    [head |-> << >>, script |-> None, attribute |-> FALSE,
     is_system_asset_transfer |-> FALSE, is_neo |-> FALSE, amount |-> None,
     is_vote_script |-> FALSE, is_remove_vote |-> FALSE, vote_to |-> None]

---------------------------------------------------------------------------
(* Parsing an upload: transaction_deserialize and the two script matchers. *)
(* tx is filled in place and, but for chunk 0, never cleared, so what an   *)
(* earlier attempt left in it is an input of the next one.                 *)

HeaderTakes(data) ==
    IF data[1] \in Heads THEN 1 ELSE IF data[1] \in Fronts THEN data[1].taken ELSE 0

HeaderReads(data) == HeaderTakes(data) \in 1 .. Len(data)

\* The attributes are the end of the header.
HasAttribute(data) == Untouched(data[HeaderTakes(data)]) \in HighPriority

ParseStatus(data, t) ==
    LET n == HeaderTakes(data)
    IN  IF ~HeaderReads(data)
        THEN "HEADER_ERROR"
        ELSE IF HasAttribute(data) /\ t.attribute
        THEN "ATTRIBUTES_DUPLICATE_TYPE"
        ELSE IF Len(data) = n
        THEN "SCRIPT_LENGTH_PARSING_ERROR"
        ELSE IF data[n + 1] \notin Scripts
        THEN "SCRIPT_LENGTH_VALUE_ERROR"
        ELSE IF Len(data) > n + 1
        THEN "INVALID_LENGTH_ERROR"
        ELSE "PARSING_OK"

\* try_parse_transfer_script.  A script that starts like a NEO transfer and
\* goes on after it ("neoPlus") leaves the amount and is_neo behind.
MatchTransfer(s, t) ==
    [t EXCEPT !.is_neo = IF KindOf[s] \in {"neo", "neoPlus"} THEN TRUE ELSE @,
              !.amount = IF KindOf[s] \in {"neo", "gas", "neoPlus"} THEN s ELSE @,
              !.is_system_asset_transfer = IF KindOf[s] \in {"neo", "gas"} THEN TRUE ELSE @]

\* try_parse_vote_script, which takes the PUSHNULL in front of a transfer for
\* that of a retracted vote.
MatchVote(s, t) ==
    [t EXCEPT !.is_vote_script = IF KindOf[s] \in {"vote", "retract"} THEN TRUE ELSE @,
              !.is_remove_vote = IF KindOf[s] \in {"retract", "neoPlus"} THEN TRUE
                                 ELSE IF KindOf[s] = "vote" THEN FALSE ELSE @,
              !.vote_to = IF KindOf[s] = "vote" THEN s ELSE @]

MatchScript(s, t) ==
    LET t1 == MatchTransfer(s, t)
    IN  IF t1.is_system_asset_transfer THEN t1 ELSE MatchVote(s, t1)

AfterParse(data, t, status) ==
    LET n      == HeaderTakes(data)
        header == [t EXCEPT !.head = SubSeq(data, 1, n),
                            !.attribute = IF HasAttribute(data) THEN TRUE ELSE @]
    IN  CASE status \in {"HEADER_ERROR", "ATTRIBUTES_DUPLICATE_TYPE"} -> t
          [] status \in {"SCRIPT_LENGTH_PARSING_ERROR", "SCRIPT_LENGTH_VALUE_ERROR"} -> header
          [] OTHER -> MatchScript(data[n + 1], [header EXCEPT !.script = data[n + 1]])

\* Transfers and votes are known by what they do, other scripts are not.
Recognised(t) == t.is_system_asset_transfer \/ t.is_vote_script

---------------------------------------------------------------------------
(* What a review shows: start_sign_tx and create_transaction_flow.         *)

NETWORK_MAINNET == Plain(860833102)
NETWORK_TESTNET == Plain(894710606)

\* The number goes into the eleven bytes of G_tx.network.
NetworkName(m) ==
    CASE m = NETWORK_MAINNET -> << "MainNet", 0 >>
      [] m = NETWORK_TESTNET -> << "TestNet", 0 >>
      [] OTHER               -> SignedDecimal(m)

\* The texts of G_tx; "transfer" stands for dst_address and token_amount,
\* "fees" for system_fee, network_fee and total_fees.
Texts == {"transfer", "vote_to", "network", "fees", "valid_until_block", "script_hash"}

TextOf(f, t, m) ==
    CASE f = "transfer"    -> << t.is_neo, t.amount >>
      [] f = "vote_to"     -> << t.vote_to >>
      [] f = "network"     -> NetworkName(m)
      [] f = "script_hash" -> << t.script >>
      [] OTHER             -> << t.head >>

\* Fault: the name of the network is left as it was.
WrittenButNetwork(t) == Texts \ {"network"}

\* start_sign_tx writes the texts this transaction has, over those of the last.
Written(t) ==
    (Texts \ {"transfer", "vote_to"})
        \cup (IF t.is_system_asset_transfer THEN {"transfer"} ELSE {})
        \cup (IF t.is_vote_script /\ ~t.is_remove_vote THEN {"vote_to"} ELSE {})

\* BAGL says what a transaction does with a screen, NBGL with a title.
Subject(t) ==
    IF Ui = "BAGL"
    THEN CASE t.is_vote_script /\ t.is_remove_vote -> {"Retracting vote"}
           [] t.is_vote_script /\ ~t.is_remove_vote -> {"vote_to"}
           [] ~t.is_vote_script /\ t.is_system_asset_transfer -> {"transfer"}
           [] OTHER -> {}
    ELSE CASE t.is_vote_script /\ t.is_remove_vote -> {"retract vote"}
           [] t.is_vote_script /\ ~t.is_remove_vote -> {"cast vote"}
           [] ~t.is_vote_script /\ t.is_system_asset_transfer ->
                 {"transfer", IF t.is_neo THEN "send NEO" ELSE "send GAS"}
           [] OTHER -> {"sign script"}

\* The items of a review; "signers" stands for the screens of module SignerFlow.
Items(t, settings) ==
    Subject(t)
        \cup {"network", "fees", "valid_until_block", "signers"}
        \cup (IF Ui = "NBGL" \/ settings["showScriptHash"] THEN {"script_hash"} ELSE {})

SignersText(t, settings) == << t.head, settings["signerAccountFormat"] >>

\* What the owner reads: an item of the flow is a pointer into G_tx, the signers
\* are formatted out of G_context when their turn comes.
Shown ==
    {<< f, gtx[f] >> : f \in flow \cap Texts}
        \cup {<< f, << f >> >> : f \in flow \ (Texts \cup {"signers"})}
        \cup {<< "signers", SignersText(tx, storage) >>}

---------------------------------------------------------------------------
(* The steps.                                                              *)

\* Fault: the home screen is built without reading the settings.
BlankSwitches == [s \in Settings |-> FALSE]

\* What ui_menu_main leaves in the copies: on NBGL it builds the settings pages
\* out of storage, on BAGL the texts stay as they are until they are asked for,
\* which is all the same as none.
MenuSwitches == IF Ui = "NBGL" THEN storage ELSE None

Init ==
    /\ state = "STATE_NONE"
    /\ reqType = "CONFIRM_ADDRESS"
    /\ path = ZeroPath
    /\ magic = Plain(0)
    /\ raw = << >>
    /\ tx = EmptyTx
    /\ hash = EmptyHash
    /\ pubkey = None
    /\ gtx = [f \in Texts |-> None]
    /\ gAddress = None
    /\ flow = {}
    /\ screen = "menu"
    /\ storage = [s \in Settings |-> FALSE]
    /\ switches = MenuSwitches
    /\ response = Reply("no command yet")
    /\ signatures = 0

\* The host only speaks when it is its turn.
HostMaySend == response # Awaited

\* Power is lost, the owner quits, or an I/O error ends app_main; the next start
\* finds zeroed globals and the settings as they were.
Restart ==
    /\ state' = "STATE_NONE"
    /\ reqType' = "CONFIRM_ADDRESS"
    /\ path' = ZeroPath
    /\ magic' = Plain(0)
    /\ raw' = << >>
    /\ tx' = EmptyTx
    /\ hash' = EmptyHash
    /\ pubkey' = None
    /\ gtx' = [f \in Texts |-> None]
    /\ gAddress' = None
    /\ flow' = {}
    /\ screen' = "menu"
    /\ response' = Reply("no command yet")
    /\ signatures' = 0
    /\ switches' = MenuSwitches
    /\ UNCHANGED storage

AnswerOnly(sw) ==
    /\ response' = Reply(sw)
    /\ UNCHANGED << context, display, preferences, signatures >>

\* apdu_parser refuses a command whose length disagrees with its Lc.
MalformedCommand == HostMaySend /\ AnswerOnly("SWO_WRONG_DATA_LENGTH")

RefusedCommand ==
    /\ HostMaySend
    /\ \E c \in Commands :
          /\ DispatchStatus(c) # "HANDLED"
          /\ AnswerOnly(DispatchStatus(c))

\* handler_get_version and handler_get_app_name.
GetNameOrVersion ==
    /\ HostMaySend
    /\ \E c \in Commands : Handled(c, GET_VERSION) \/ Handled(c, GET_APP_NAME)
    /\ AnswerOnly("SWO_SUCCESS")

\* Fault: the transaction parsed last is not cleared.
NewRequestKeepingTx(kind, data) ==
    /\ reqType' = kind
    /\ path' = PathRead(data)
    /\ magic' = Plain(0)
    /\ raw' = << >>
    /\ hash' = EmptyHash
    /\ signatures' = 0
    /\ UNCHANGED << tx, preferences >>

\* explicit_bzero(&G_context), and the path read over it.
NewRequest(kind, data) ==
    /\ reqType' = kind
    /\ path' = PathRead(data)
    /\ magic' = Plain(0)
    /\ raw' = << >>
    /\ tx' = EmptyTx
    /\ hash' = EmptyHash
    /\ signatures' = 0
    /\ UNCHANGED preferences

\* Fault: the address is only spelled out the first time.
ShowFirstAddress(key) ==
    /\ gAddress' = IF gAddress = None THEN key ELSE gAddress
    /\ screen' = "address"
    /\ response' = Awaited
    /\ UNCHANGED << gtx, flow >>

\* ui_display_address.  Its first test, of a context just set to what it tests for,
\* cannot fail, nor can the conversion into the 34 characters of an address.
ShowAddress(key) ==
    /\ gAddress' = key
    /\ screen' = "address"
    /\ response' = Awaited
    /\ UNCHANGED << gtx, flow >>

\* handler_get_public_key.  `derived` tells whether both calls into the crypto
\* library succeed: their results are not looked at.
GetPublicKey(c, derived) ==
    /\ HostMaySend
    /\ Handled(c, GET_PUBLIC_KEY)
    /\ NewRequest("CONFIRM_ADDRESS", c.data)
    /\ state' = "STATE_NONE"
    /\ pubkey' = IF PathAccepted(c.data) /\ derived THEN PathRead(c.data) ELSE None
    /\ IF ~PathAccepted(c.data)
       THEN response' = Reply(PathError(c.data)) /\ UNCHANGED display
       ELSE IF c.p2 = 0
       THEN response' = KeyReply(pubkey') /\ UNCHANGED display
       ELSE ShowAddress(pubkey')

\* Chunk 0 of handler_sign_tx.
ReceivePath(c) ==
    /\ HostMaySend
    /\ Handled(c, SIGN_TX) /\ c.p1 = P1_START
    /\ NewRequest("CONFIRM_TRANSACTION", c.data)
    /\ pubkey' = None
    /\ IF PathAccepted(c.data)
       THEN state' = "STATE_BIP44_OK" /\ response' = Reply("SWO_SUCCESS")
       ELSE state' = "STATE_NONE" /\ response' = Reply(PathError(c.data))
    /\ UNCHANGED display

\* Chunk 1.  buffer_read_u32 stores a zero when the data is too short.
ReceiveMagic(c) ==
    /\ HostMaySend
    /\ Handled(c, SIGN_TX) /\ c.p1 = 1
    /\ IF reqType # "CONFIRM_TRANSACTION" /\ state # "STATE_BIP44_OK"
       THEN AnswerOnly("SW_BAD_STATE")
       ELSE /\ IF c.data = << >>
               THEN /\ magic' = Plain(0)
                    /\ response' = Reply("SW_MAGIC_PARSING_FAIL")
                    /\ UNCHANGED state
               ELSE /\ magic' = c.data[1]
                    /\ state' = "STATE_MAGIC_OK"
                    /\ response' = Reply("SWO_SUCCESS")
            /\ UNCHANGED << reqType, path, raw, tx, hash, pubkey, display, preferences, signatures >>

\* Fault: the size of the new chunk is not counted.
TooLongIgnoringChunk(c) == Len(raw) > MaxLen

\* The start of every later chunk: refused, too long, or put behind the others.
DataRefused == reqType # "CONFIRM_TRANSACTION" /\ state # "STATE_MAGIC_OK"
TooLong(c)  == Len(raw) + Len(c.data) > MaxLen

ReceiveMore(c) ==
    /\ HostMaySend
    /\ Handled(c, SIGN_TX) /\ c.p1 > 1 /\ c.p2 = P2_MORE
    /\ IF DataRefused
       THEN AnswerOnly("SW_BAD_STATE")
       ELSE IF TooLong(c)
       THEN AnswerOnly("SW_WRONG_TX_LENGTH")
       ELSE /\ raw' = raw \o c.data
            /\ response' = Reply("SWO_SUCCESS")
            /\ UNCHANGED << state, reqType, path, magic, tx, hash, pubkey,
                            display, preferences, signatures >>

\* Fault: the wrong byte of the settings is read.
GateOnScriptHash(t) == Recognised(t) \/ storage["showScriptHash"]

\* The test both builds of start_sign_tx_ui make before a review.
ReviewAllowed(t) == Recognised(t) \/ storage["scriptsAllowed"]

\* start_sign_tx.  None of its error returns can be taken: format_amount has
\* room for every 64-bit value (NoAmountFails of ReviewTexts), format_hex for
\* every hash.
StartReview(t) ==
    /\ gtx' = [f \in Texts |-> IF f \in Written(t) THEN TextOf(f, t, magic) ELSE gtx[f]]
    /\ IF ReviewAllowed(t)
       THEN /\ screen' = "review"
            /\ flow' = Items(t, storage)
       ELSE /\ screen' = "noScripts"
            /\ UNCHANGED flow
    /\ response' = Awaited
    /\ UNCHANGED gAddress

\* The last chunk.  State and hash are set before reqType is looked at again, in
\* a test that cannot fail here: DataRefused lets CONFIRM_ADDRESS through only in
\* STATE_MAGIC_OK, which no CONFIRM_ADDRESS context reaches.
ReceiveLast(c) ==
    /\ HostMaySend
    /\ Handled(c, SIGN_TX) /\ c.p1 > 1 /\ c.p2 = P2_LAST
    /\ IF DataRefused
       THEN AnswerOnly("SW_BAD_STATE")
       ELSE IF TooLong(c)
       THEN AnswerOnly("SW_WRONG_TX_LENGTH")
       ELSE /\ raw' = raw \o c.data
            /\ LET status == ParseStatus(raw', tx)
               IN  /\ tx' = AfterParse(raw', tx, status)
                   /\ IF status # "PARSING_OK"
                      THEN /\ response' = Reply("SW_TX_PARSING_FAIL")
                           /\ UNCHANGED << state, hash, display >>
                      ELSE /\ hash' = [magics |-> << >>, data |-> raw']
                           /\ IF reqType # "CONFIRM_TRANSACTION"
                              THEN /\ state' = "STATE_NONE"
                                   /\ response' = Reply("SW_BAD_STATE")
                                   /\ UNCHANGED display
                              ELSE /\ state' = "STATE_PARSED"
                                   /\ StartReview(tx')
            /\ UNCHANGED << reqType, path, magic, pubkey, preferences, signatures >>

\* Where the owner is taken by an answer.
After(status) == IF Ui = "BAGL" THEN "menu" ELSE status

\* Fault: the upload buffer is emptied for another upload under the same path.
RawEmptied(n) == << >>
\* Fault: the network magic is not hashed in.
HashWithoutMagic == hash

\* The version of a front is the low byte of the magic, which must be 0; the fees,
\* the number of signers and the first of their accounts come out of the hash.
FrontMayRead(m) == m.index % 256 = 0
Readings(m)     == IF FrontMayRead(m) THEN HashReadings ELSE {0}

\* crypto_sign_tx assembles the message at the front of raw_tx, and puts its hash
\* where the hash of the data was; raw_tx_len and transaction stay.
RawAfterSigning(n) == [raw EXCEPT ![1] = Front(magic, n, @)]
HashAfterSigning   == [magics |-> Append(hash.magics, magic), data |-> hash.data]

\* What the signature covers and the key it is made with; the settings are not
\* signed, they are noted for the properties.
NewSignature == [hash |-> HashAfterSigning, path |-> path, settings |-> storage]

\* `ok` tells whether the crypto library makes the signature, `n` what the front
\* will read as.
Approve(ok, n) ==
    /\ screen = "review"
    /\ n \in Readings(magic)
    /\ raw' = RawAfterSigning(n)
    /\ hash' = HashAfterSigning
    /\ screen' = After("signed")
    /\ IF ok
       THEN /\ state' = "STATE_APPROVED"
            /\ response' = SigReply(NewSignature)
            /\ signatures' = signatures + 1
       ELSE /\ state' = "STATE_NONE"
            /\ response' = Reply("SW_SIGN_FAIL")
            /\ UNCHANGED signatures
    /\ UNCHANGED << reqType, path, magic, tx, pubkey, gtx, gAddress, flow, preferences >>

Refuse(next) ==
    /\ state' = "STATE_NONE"
    /\ response' = Reply("SWO_CONDITIONS_NOT_SATISFIED")
    /\ screen' = next
    /\ switches' = IF Ui = "NBGL" /\ next \in {"menu", "settings"} THEN storage ELSE switches
    /\ UNCHANGED << reqType, path, magic, raw, tx, hash, pubkey, gtx, gAddress, flow,
                    storage, signatures >>

Reject == screen = "review" /\ Refuse(After("rejected"))

\* Faults: the screen is left and the host gets no reply.
LeaveNoScriptsSilently ==
    /\ screen = "noScripts"
    /\ screen' = "menu"
    /\ UNCHANGED << context, gtx, gAddress, flow, preferences, response, signatures >>
RejectAddressSilently ==
    /\ screen = "address"
    /\ screen' = "menu"
    /\ UNCHANGED << context, gtx, gAddress, flow, preferences, response, signatures >>

\* "Arbitrary contract scripts are not allowed": the only way on is to refuse;
\* NBGL offers to go to the settings.
LeaveNoScripts ==
    /\ screen = "noScripts"
    /\ \/ Refuse("menu")
       \/ Ui = "NBGL" /\ Refuse("settings")

ConfirmAddress ==
    /\ screen = "address"
    /\ response' = KeyReply(pubkey)
    /\ screen' = After("addressVerified")
    /\ UNCHANGED << context, gtx, gAddress, flow, preferences, signatures >>

RejectAddress ==
    /\ screen = "address"
    /\ response' = Reply("SWO_CONDITIONS_NOT_SATISFIED")
    /\ screen' = After("addressRejected")
    /\ UNCHANGED << context, gtx, gAddress, flow, preferences, signatures >>

GoTo(next) ==
    /\ screen' = next
    /\ UNCHANGED << context, gtx, gAddress, flow, storage, response, signatures >>

\* BAGL's "About" screens change nothing and count as the menu.
DismissStatus == screen \in Statuses /\ GoTo("menu") /\ switches' = MenuSwitches

\* On NBGL the settings are pages of the home screen, turned by the SDK; on BAGL
\* display_settings fills the texts of their own flow.
OpenSettings ==
    /\ screen = "menu"
    /\ GoTo("settings")
    /\ switches' = IF Ui = "NBGL" THEN switches ELSE storage
CloseSettings == screen = "settings" /\ GoTo("menu") /\ UNCHANGED switches

\* Fault: the page is left as it was.
SwitchUnseen(s) ==
    /\ screen = "settings"
    /\ storage' = [storage EXCEPT ![s] = ~@]
    /\ UNCHANGED << context, display, switches, response, signatures >>

\* NBGL turns its copy over and stores that.
ControlsCallback(s) ==
    /\ switches' = [switches EXCEPT ![s] = ~@]
    /\ storage' = [storage EXCEPT ![s] = switches'[s]]

\* BAGL stores the opposite of what is stored and fills the texts again.
SwitchStored(s) ==
    /\ storage' = [storage EXCEPT ![s] = ~@]
    /\ switches' = storage'

SwitchSetting(s) ==
    /\ screen = "settings"
    /\ IF Ui = "NBGL" THEN ControlsCallback(s) ELSE SwitchStored(s)
    /\ UNCHANGED << context, display, response, signatures >>

HostSends ==
    \/ MalformedCommand
    \/ RefusedCommand
    \/ GetNameOrVersion
    \/ \E c \in Commands :
          \/ \E derived \in BOOLEAN : GetPublicKey(c, derived)
          \/ ReceivePath(c)
          \/ ReceiveMagic(c)
          \/ ReceiveMore(c)
          \/ ReceiveLast(c)

OwnerAnswers ==
    \/ \E ok \in BOOLEAN, n \in HashReadings : Approve(ok, n)
    \/ Reject
    \/ LeaveNoScripts
    \/ ConfirmAddress
    \/ RejectAddress

OwnerBrowses ==
    \/ DismissStatus
    \/ OpenSettings
    \/ CloseSettings
    \/ \E s \in Switched : SwitchSetting(s)

Next == HostSends \/ OwnerAnswers \/ OwnerBrowses \/ Restart

Spec == Init /\ [][Next]_vars

\* An owner who is asked something answers sooner or later.
FairSpec == Spec /\ WF_vars(OwnerAnswers)

---------------------------------------------------------------------------
(* Properties.                                                             *)

States       == {"STATE_NONE", "STATE_BIP44_OK", "STATE_MAGIC_OK", "STATE_PARSED", "STATE_APPROVED"}
RequestTypes == {"CONFIRM_ADDRESS", "CONFIRM_TRANSACTION"}
Keys         == Path \cup {None}
Hash         == [magics : Seq(Word), data : Seq(Pieces)]
Signature    == [hash : Hash, path : Path, settings : [Settings -> BOOLEAN]]
Transaction  ==
    [head : Seq(Pieces), script : Scripts \cup {None}, attribute : BOOLEAN,
     is_system_asset_transfer : BOOLEAN, is_neo : BOOLEAN, amount : Scripts \cup {None},
     is_vote_script : BOOLEAN, is_remove_vote : BOOLEAN, vote_to : Scripts \cup {None}]

\* The type of every variable: what the globals of the application can hold.
TypeOK ==
    /\ state \in States
    /\ reqType \in RequestTypes
    /\ path \in Path
    /\ magic \in Word
    /\ raw \in Seq(Pieces) /\ Len(raw) <= MaxLen
    /\ tx \in Transaction
    /\ hash \in Hash
    /\ pubkey \in Keys
    /\ DOMAIN gtx = Texts
    /\ gAddress \in Keys
    /\ screen \in Screens
    /\ storage \in [Settings -> BOOLEAN]
    /\ switches \in [Settings -> BOOLEAN] \cup (IF Ui = "NBGL" THEN {} ELSE {None})
    /\ response.sig \in Signature \cup {None}
    /\ signatures \in Nat

\* A host is kept waiting exactly while the owner is being asked: a handler that
\* puts no question replies, one that does leaves the reply to the callback of
\* the answer, and no callback replies without leaving its question.
AskingIffAwaited == response = Awaited <=> screen \in Dialogs

\* The content of a review as the code would format it from these inputs.
ContentOf(t, m, settings) ==
    {<< f, TextOf(f, t, m) >> : f \in Items(t, settings) \cap Texts}
        \cup {<< f, << f >> >> : f \in Items(t, settings) \ (Texts \cup {"signers"})}
        \cup {<< "signers", SignersText(t, settings) >>}

\* While the owner reviews a transaction, the texts on the screen, which are
\* copies kept in G_tx from one transaction to the next, say what G_context says
\* now, and what an approval would sign is the hash of the bytes received.
ReviewIsLive ==
    screen = "review" =>
        /\ state = "STATE_PARSED"
        /\ hash = [magics |-> << >>, data |-> raw]
        /\ Shown = ContentOf(tx, magic, storage)

\* A transaction parsed on its own.
FreshTx(data) ==
    LET n == HeaderTakes(data)
    IN  MatchScript(data[n + 1],
                    [EmptyTx EXCEPT !.head = SubSeq(data, 1, n), !.script = data[n + 1]])

\* Parsing leaves flags and values in tx that nothing clears before the next
\* attempt to parse.  Before a signature none of them shows, however many attempts
\* failed: a review of bytes a host sent is that of these bytes parsed on their
\* own.  (Behind a front that reads they do show: TransferIsThisScript.)
ReviewIsOfThisUpload ==
    (screen = "review" /\ raw[1] \in Heads) =>
        ContentOf(tx, magic, storage) = ContentOf(FreshTx(raw), magic, storage)

\* The chunks of an upload are only ever appended, also after an answer, and
\* signing writes over the front of them.  As long as a front does not read as a
\* header, a host that goes on appending gets no second signature before it starts
\* over with chunk 0.
OneSignaturePerUpload == signatures <= 1

\* A signature of a script that is neither a transfer nor a vote is handed out
\* only if the owner allowed such scripts in the settings.  Holds as long as a
\* front does not read as a header.
ScriptsNeedPermission ==
    [][ (response'.sig # None /\ signatures' # signatures)
          => Recognised(FreshTx(response'.sig.hash.data)) \/ storage["scriptsAllowed"] ]_vars

\* The settings page shows what is stored.  The page shows a copy; one build
\* changes the copy first and stores it, the other the other way round, and every
\* way to the page must have read what is stored, also after a restart, which
\* keeps the one and clears the other.
SettingsShownAreStored == screen = "settings" => switches = storage

\* The key sent after the owner confirmed an address is the key of that address,
\* although the context it is read from is the one the upload handlers use.
KeySentIsKeyShown ==
    [][ (screen = "address" /\ response'.key # None)
          => response'.key = << gAddress >> /\ reqType = "CONFIRM_ADDRESS" ]_vars

\* No question is a dead end: every dialog has an answer that sends a reply.
CommandAnswered == response = Awaited ~> response # Awaited

\* What the owner is asked, and what the last signature stands for: the content
\* of the transaction whose bytes it covers, for the network it covers, shown
\* under the settings of that moment.  A message of another form stands for
\* nothing that is ever asked.
Asked == IF screen = "review" THEN Shown ELSE {}
Granted ==
    IF response.sig = None
    THEN {}
    ELSE LET sig == response.sig
         IN  IF Len(sig.hash.magics) = 1
             THEN ContentOf(FreshTx(sig.hash.data), sig.hash.magics[1], sig.settings)
             ELSE {<< "magics", sig.hash.magics >>}

C == INSTANCE Consent WITH Nothing <- {}, asked <- Asked, granted <- Granted

\* The application signs what the owner was shown, once, and nothing else.  Holds
\* as long as a front does not read as a header.
SignsOnlyWhatWasShown == C!Spec

\* Of the signatures, those over bytes as a host sent them.
GrantedFirst ==
    IF response.sig # None /\ response.sig.hash.data[1] \in Fronts THEN {} ELSE Granted

First == INSTANCE Consent WITH Nothing <- {}, asked <- Asked, granted <- GrantedFirst

\* Whatever a front reads as, a signature over an upload as it was sent is for
\* what the owner was shown, in a review that is used once.
FirstSignsWhatWasShown == First!Spec

---------------------------------------------------------------------------
(* What the documentation says and the code does otherwise.                *)

\* "First apdu must always be the BIP44 path, second apdu must always be the
\* network magic" (dispatcher.h), else SW_BAD_STATE (COMMANDS.md): data are only
\* taken in after a path that was accepted and a magic that was read.
UploadInOrder ==
    [][ (Len(raw') > Len(raw) /\ response'.sw = "SWO_SUCCESS") => state = "STATE_MAGIC_OK" ]_vars

\* "BIP44 account value exceeds 10" is an error (COMMANDS.md, sw.h).
AccountAtMostTen == state = "STATE_BIP44_OK" => path[3].index <= 10

\* The flag behind the "Token amount" and "Destination" of a review "indicates if
\* the instructions in `script` match a standard GAS or NEO transfer"
\* (transaction_types.h): `script` is the one under review.
TransferIsThisScript ==
    (screen = "review" /\ tx.is_system_asset_transfer) => KindOf[tx.script] \in {"neo", "gas"}

\* GET_PUBLIC_KEY answers 0x9000 with the public key of the path (COMMANDS.md).
KeyIsThatOfPath == response.key # None => response.key = << path >>

\* A network without a name is shown as its "uint32 network number"
\* (sign_tx_common.h): a number, and one without a sign.
NetworkShownUnsigned ==
    (screen = "review" /\ magic \notin {NETWORK_MAINNET, NETWORK_TESTNET})
      => gtx["network"][1] = "number" /\ gtx["network"][2] >= 0

=============================================================================
