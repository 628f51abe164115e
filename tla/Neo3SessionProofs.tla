------------------------- MODULE Neo3SessionProofs -------------------------
(***************************************************************************)
(* Theorems about Neo3Session, for every set of commands, headers and      *)
(* scripts, every length limit and both builds.                            *)
(***************************************************************************)
EXTENDS Neo3Session, SequenceTheorems, TLAPS

---------------------------------------------------------------------------
(* Lemmas about the operators.                                             *)

\* What is left of a path, accepted or not, is a path.
LEMMA PathReadType ==
    ASSUME NEW data \in Seq(Word)
    PROVE  PathRead(data) \in Path
<1>1. ASSUME NEW i \in Levels, LongEnough(data)
      PROVE  data[i] \in Word
  BY <1>1 DEF LongEnough, Levels, BIP44_PATH_LEN
<1>2. ASSUME NEW i \in Levels
      PROVE  ZeroPath[i] \in Word
  BY <1>2 DEF ZeroPath, Plain, Word
<1> QED
  BY <1>1, <1>2 DEF PathRead, Path

\* A path that is refused is refused with one of the status words for it.
LEMMA PathErrorIsStatus ==
    ASSUME NEW data \in Seq(Word), ~PathAccepted(data)
    PROVE  PathError(data) # "none yet"
<1>1. ASSUME NEW i \in Levels, NEW w
      PROVE  LevelError(i, w) # "none yet"
  <2>1. i = 1 \/ i = 2 \/ i = 3 \/ i = 4 \/ i = 5
    BY DEF Levels, BIP44_PATH_LEN
  <2> QED
    BY <2>1 DEF LevelError
<1>2. CASE LongEnough(data)
  <2> DEFINE Refused(k) == ~LevelAccepted(k, data[k])
  <2>1. \E k \in Levels : Refused(k)
    BY <1>2 DEF PathAccepted
  <2> HIDE DEF Refused
  <2>2. \E k \in Levels : Refused(k) /\ \A j \in Levels : j < k => ~Refused(j)
    BY <2>1, SMT DEF Levels, BIP44_PATH_LEN
  <2>3. \E k \in Levels : FirstRefused(data, k)
    BY <2>2 DEF Refused, FirstRefused
  <2> QED
    BY <1>1, <1>2, <2>3 DEF PathError
<1>3. CASE ~LongEnough(data)
  BY <1>3 DEF PathError
<1> QED
  BY <1>2, <1>3

\* What a matcher writes into a transaction leaves a transaction.
LEMMA FieldsOfTransfer ==
    ASSUME NEW t \in Transaction, NEW x \in BOOLEAN, NEW y \in Scripts \cup {None}, NEW z \in BOOLEAN
    PROVE  [t EXCEPT !.is_neo = x, !.amount = y, !.is_system_asset_transfer = z] \in Transaction
  BY DEF Transaction

\* The same for the fields of a vote.
LEMMA FieldsOfVote ==
    ASSUME NEW t \in Transaction, NEW x \in BOOLEAN, NEW y \in BOOLEAN, NEW z \in Scripts \cup {None}
    PROVE  [t EXCEPT !.is_vote_script = x, !.is_remove_vote = y, !.vote_to = z] \in Transaction
  BY DEF Transaction

\* Matching a script keeps the type of the transaction it is matched into.
LEMMA MatchScriptType ==
    ASSUME NEW s \in Scripts, NEW t \in Transaction
    PROVE  MatchScript(s, t) \in Transaction
<1>1. ASSUME NEW u \in Transaction
      PROVE  /\ u.is_neo \in BOOLEAN /\ u.is_system_asset_transfer \in BOOLEAN
             /\ u.is_vote_script \in BOOLEAN /\ u.is_remove_vote \in BOOLEAN
             /\ u.amount \in Scripts \cup {None} /\ u.vote_to \in Scripts \cup {None}
  BY DEF Transaction
<1>2. MatchTransfer(s, t) \in Transaction
  <2> DEFINE x == IF KindOf[s] \in {"neo", "neoPlus"} THEN TRUE ELSE t.is_neo
             y == IF KindOf[s] \in {"neo", "gas", "neoPlus"} THEN s ELSE t.amount
             z == IF KindOf[s] \in {"neo", "gas"} THEN TRUE ELSE t.is_system_asset_transfer
  <2>1. x \in BOOLEAN /\ y \in Scripts \cup {None} /\ z \in BOOLEAN
    BY <1>1
  <2>2. MatchTransfer(s, t) = [t EXCEPT !.is_neo = x, !.amount = y, !.is_system_asset_transfer = z]
    BY DEF MatchTransfer
  <2> HIDE DEF x, y, z
  <2>3. [t EXCEPT !.is_neo = x, !.amount = y, !.is_system_asset_transfer = z] \in Transaction
    BY <2>1, FieldsOfTransfer
  <2> QED
    BY <2>2, <2>3, Zenon
<1>3. ASSUME NEW u \in Transaction
      PROVE  MatchVote(s, u) \in Transaction
  <2> DEFINE x == IF KindOf[s] \in {"vote", "retract"} THEN TRUE ELSE u.is_vote_script
             y == IF KindOf[s] \in {"retract", "neoPlus"} THEN TRUE
                  ELSE IF KindOf[s] = "vote" THEN FALSE ELSE u.is_remove_vote
             z == IF KindOf[s] = "vote" THEN s ELSE u.vote_to
  <2>1. x \in BOOLEAN /\ y \in BOOLEAN /\ z \in Scripts \cup {None}
    BY <1>1
  <2>2. MatchVote(s, u) = [u EXCEPT !.is_vote_script = x, !.is_remove_vote = y, !.vote_to = z]
    BY DEF MatchVote
  <2> HIDE DEF x, y, z
  <2>3. [u EXCEPT !.is_vote_script = x, !.is_remove_vote = y, !.vote_to = z] \in Transaction
    BY <2>1, FieldsOfVote
  <2> QED
    BY <2>2, <2>3, Zenon
<1> QED
  BY <1>2, <1>3 DEF MatchScript

\* The pieces a header takes are those at the start.
LEMMA HeaderType ==
    ASSUME NEW data \in Seq(Pieces), HeaderReads(data)
    PROVE  /\ HeaderTakes(data) \in 1 .. Len(data)
           /\ SubSeq(data, 1, HeaderTakes(data)) \in Seq(Pieces)
<1> DEFINE n == HeaderTakes(data)
<1>1. n \in 1 .. Len(data)
  BY DEF HeaderReads
<1> HIDE DEF n
<1>2. SubSeq(data, 1, n) \in Seq(Pieces)
  BY <1>1, SubSeqProperties
<1> QED
  BY <1>1, <1>2 DEF n

\* A transaction the parser worked on, to the end or not, is still a transaction.
LEMMA AfterParseType ==
    ASSUME NEW data \in Seq(Pieces), NEW t \in Transaction
    PROVE  AfterParse(data, t, ParseStatus(data, t)) \in Transaction
<1> DEFINE status == ParseStatus(data, t)
           n == HeaderTakes(data)
           taken == SubSeq(data, 1, n)
           header == [t EXCEPT !.head = taken,
                               !.attribute = IF HasAttribute(data) THEN TRUE ELSE @]
<1>1. CASE status \in {"HEADER_ERROR", "ATTRIBUTES_DUPLICATE_TYPE"}
  BY <1>1 DEF AfterParse
<1>2. CASE status \notin {"HEADER_ERROR", "ATTRIBUTES_DUPLICATE_TYPE"}
  <2>1. taken \in Seq(Pieces)
    BY <1>2, HeaderType DEF ParseStatus
  <2> HIDE DEF taken
  <2>2. header \in Transaction
    BY <2>1 DEF Transaction
  <2>3. CASE status \in {"SCRIPT_LENGTH_PARSING_ERROR", "SCRIPT_LENGTH_VALUE_ERROR"}
    BY <2>2, <2>3 DEF AfterParse, taken
  <2>4. CASE status \in {"INVALID_LENGTH_ERROR", "PARSING_OK"}
    <3>1. data[n + 1] \in Scripts
      BY <2>4 DEF ParseStatus
    <3> HIDE DEF header
    <3>2. [header EXCEPT !.script = data[n + 1]] \in Transaction
      BY <2>2, <3>1 DEF Transaction
    <3>3. MatchScript(data[n + 1], [header EXCEPT !.script = data[n + 1]]) \in Transaction
      BY <3>1, <3>2, MatchScriptType
    <3> QED
      BY <2>4, <3>3 DEF AfterParse, header, taken
  <2> QED
    BY <1>2, <2>3, <2>4 DEF ParseStatus
<1> QED
  BY <1>1, <1>2

\* The header of bytes as a host sent them is one piece or none.
LEMMA HeaderOfSent ==
    ASSUME NEW data, data[1] \notin Fronts
    PROVE  /\ HeaderTakes(data) \in {0, 1}
           /\ HeaderTakes(data) = 1 <=> data[1] \in Heads
  BY DEF HeaderTakes

\* What parses starts with a header, or with a front that reads as one.
Readable(data) == data[1] \in Heads \/ (data[1] \in Fronts /\ data[1].taken # 0)

LEMMA ParsedReads ==
    ASSUME NEW data, NEW t, ParseStatus(data, t) = "PARSING_OK"
    PROVE  Readable(data)
<1>1. HeaderTakes(data) # 0
  <2>1. HeaderTakes(data) \in 1 .. Len(data)
    BY DEF ParseStatus, HeaderReads
  <2> QED
    BY <2>1
<1> QED
  BY <1>1 DEF HeaderTakes, Readable

\* Bytes as a host sent them parse when they are a header and a script.
LEMMA ParsedShape ==
    ASSUME NEW data \in Seq(Pieces), data[1] \notin Fronts, NEW t,
           ParseStatus(data, t) = "PARSING_OK"
    PROVE  Len(data) = 2 /\ data[1] \in Heads /\ data[2] \in Scripts
<1> DEFINE n == Len(data)
<1>1. n \in Nat
  OBVIOUS
<1>2. HeaderReads(data)
  BY DEF ParseStatus
<1>3. HeaderTakes(data) = 1 /\ data[1] \in Heads /\ n # 0
  <2>1. HeaderTakes(data) \in 1 .. n
    BY <1>2 DEF HeaderReads
  <2>2. HeaderTakes(data) # 0 /\ n # 0
    <3> HIDE DEF n
    <3> QED
      BY <1>1, <2>1
  <2> QED
    BY <2>2, HeaderOfSent
<1>4. data[1 + 1] \in Scripts /\ n # 1 /\ ~(n > 1 + 1)
  BY <1>3, Zenon DEF ParseStatus
<1>5. n = 2
  <2> HIDE DEF n
  <2> QED
    BY <1>1, <1>3, <1>4
<1> QED
  BY <1>3, <1>4, <1>5

\* What a handler of data reads is what a command of that kind carries.
LEMMA CommandData ==
    ASSUME NEW c \in Commands
    PROVE  /\ Handled(c, GET_PUBLIC_KEY) => c.data \in Seq(Word)
           /\ Handled(c, SIGN_TX) /\ c.p1 = P1_START => c.data \in Seq(Word)
           /\ Handled(c, SIGN_TX) /\ c.p1 = 1 => c.data \in Seq(Word)
           /\ Handled(c, SIGN_TX) /\ c.p1 > 1 =>
                 c.data \in Seq(Sent) /\ c.data \in Seq(Pieces) /\ c.data # << >>
<1>1. \A x : x \in Seq(Sent) => x \in Seq(Pieces)
  BY DEF Pieces
<1> QED
  BY <1>1, CommandsAssumption DEF P1_START

\* Every reply is told apart from the lack of one.
LEMMA RepliesAreReplies ==
    /\ \A sw : sw # "none yet" => Reply(sw) # Awaited
    /\ \A k : KeyReply(k) # Awaited
    /\ \A sig : SigReply(sig) # Awaited
    /\ \A c : Reply(DispatchStatus(c)) # Awaited
<1>1. \A sw : sw # "none yet" => Reply(sw) # Awaited
  BY DEF Reply, Awaited
<1>2. \A k : KeyReply(k) # Awaited
  BY DEF KeyReply, Awaited
<1>3. \A sig : SigReply(sig) # Awaited
  BY DEF SigReply, Awaited
<1>4. \A c : DispatchStatus(c) # "none yet"
  BY DEF DispatchStatus
<1> QED
  BY <1>1, <1>2, <1>3, <1>4

---------------------------------------------------------------------------
(* The host waits exactly while the owner is asked.                        *)

\* Every step that puts a question leaves the host waiting, and the other way round.
LEMMA AskingNext == AskingIffAwaited /\ [Next]_vars => AskingIffAwaited'
<1> SUFFICES ASSUME AskingIffAwaited, [Next]_vars PROVE AskingIffAwaited'
  OBVIOUS
<1> USE RepliesAreReplies
<1>1. ASSUME NEW c \in Commands, NEW derived \in BOOLEAN, GetPublicKey(c, derived)
      PROVE  AskingIffAwaited'
  <2>1. ~PathAccepted(c.data) => Reply(PathError(c.data)) # Awaited
    BY <1>1, CommandData, PathErrorIsStatus DEF GetPublicKey
  <2>2. CASE ~PathAccepted(c.data) \/ c.p2 = 0
    BY <1>1, <2>1, <2>2 DEF GetPublicKey, AskingIffAwaited, HostMaySend, display
  <2>3. CASE PathAccepted(c.data) /\ c.p2 # 0
    BY <1>1, <2>3 DEF GetPublicKey, AskingIffAwaited, ShowAddress, Dialogs
  <2> QED
    BY <2>2, <2>3
<1>2. ASSUME NEW c \in Commands, ReceivePath(c)
      PROVE  AskingIffAwaited'
  <2>1. ~PathAccepted(c.data) => Reply(PathError(c.data)) # Awaited
    BY <1>2, CommandData, PathErrorIsStatus DEF ReceivePath
  <2> QED
    BY <1>2, <2>1 DEF ReceivePath, AskingIffAwaited, HostMaySend, display
<1>3. ASSUME NEW c \in Commands, ReceiveMagic(c)
      PROVE  AskingIffAwaited'
  BY <1>3 DEF ReceiveMagic, AnswerOnly, AskingIffAwaited, HostMaySend, display
<1>4. ASSUME NEW c \in Commands, ReceiveMore(c)
      PROVE  AskingIffAwaited'
  BY <1>4 DEF ReceiveMore, AnswerOnly, AskingIffAwaited, HostMaySend, display
<1>5. ASSUME NEW c \in Commands, ReceiveLast(c)
      PROVE  AskingIffAwaited'
  <2>1. ASSUME NEW t, StartReview(t)
        PROVE  AskingIffAwaited'
    BY <2>1 DEF StartReview, AskingIffAwaited, Dialogs
  <2>2. ASSUME NEW sw, sw # "none yet", response' = Reply(sw), UNCHANGED display
        PROVE  AskingIffAwaited'
    BY <1>5, <2>2 DEF ReceiveLast, AskingIffAwaited, HostMaySend, display
  <2> QED
    BY <1>5, <2>1, <2>2 DEF ReceiveLast, AnswerOnly
<1>6. CASE MalformedCommand \/ RefusedCommand \/ GetNameOrVersion
  BY <1>6 DEF MalformedCommand, RefusedCommand, GetNameOrVersion, AnswerOnly,
              AskingIffAwaited, HostMaySend, display
<1>7. CASE OwnerAnswers
  BY <1>7 DEF OwnerAnswers, Approve, Reject, LeaveNoScripts, Refuse, ConfirmAddress,
              RejectAddress, After, AskingIffAwaited, Dialogs
<1>8. CASE OwnerBrowses
  BY <1>8 DEF OwnerBrowses, DismissStatus, OpenSettings, CloseSettings, GoTo, SwitchSetting,
              ControlsCallback, SwitchStored,
              AskingIffAwaited, Dialogs, Statuses, display
<1>9. CASE Restart
  BY <1>9 DEF Restart, AskingIffAwaited, Dialogs
<1>10. CASE UNCHANGED vars
  BY <1>10 DEF vars, display, AskingIffAwaited
<1> QED
  BY <1>1, <1>2, <1>3, <1>4, <1>5, <1>6, <1>7, <1>8, <1>9, <1>10 DEF Next, HostSends

\* A host is kept waiting exactly while the owner is being asked, whatever the
\* commands and the answers.
THEOREM AskingTheorem == Spec => []AskingIffAwaited
<1>1. Init => AskingIffAwaited
  BY RepliesAreReplies DEF Init, AskingIffAwaited, Dialogs
<1> QED
  BY <1>1, AskingNext, PTL DEF Spec

---------------------------------------------------------------------------
(* Types.                                                                  *)

\* What the replies to a key or a signature hold is of the type of what they carry.
LEMMA RepliesCarry ==
    /\ \A sw : Reply(sw).sig = None /\ Reply(sw).key = None
    /\ \A k : KeyReply(k).sig = None
    /\ \A sig : SigReply(sig).sig = sig /\ SigReply(sig).key = None
    /\ Awaited.sig = None
  BY DEF Reply, KeyReply, SigReply, Awaited

\* The zeroed globals have their types.
LEMMA EmptyTypes ==
    /\ ZeroPath \in Path
    /\ EmptyTx \in Transaction
    /\ EmptyHash \in Hash
    /\ Plain(0) \in Word
<1>1. ZeroPath \in Path
  BY DEF ZeroPath, Path, Plain, Word
<1>2. EmptyTx \in Transaction
  BY DEF EmptyTx, Transaction
<1>3. EmptyHash \in Hash
  BY DEF EmptyHash, Hash
<1>4. Plain(0) \in Word
  BY DEF Plain, Word
<1> QED
  BY <1>1, <1>2, <1>3, <1>4

\* To be inductive, the types need to know that a review is one of bytes received,
\* and that no handler runs while there is one.
TypeInv == TypeOK /\ AskingIffAwaited /\ (screen = "review" => raw # << >>)

\* The application starts with every global of its type.
LEMMA TypeInit == Init => TypeInv
<1> SUFFICES ASSUME Init PROVE TypeInv
  OBVIOUS
<1>1. AskingIffAwaited /\ screen # "review"
  BY RepliesAreReplies DEF Init, AskingIffAwaited, Dialogs
<1>2. response.sig = None
  BY RepliesCarry DEF Init
<1>3. /\ state \in States /\ reqType \in RequestTypes /\ screen \in Screens
      /\ DOMAIN gtx = Texts /\ signatures \in Nat /\ pubkey \in Keys /\ gAddress \in Keys
      /\ storage \in [Settings -> BOOLEAN] /\ switches \in [Settings -> BOOLEAN] \cup (IF Ui = "NBGL" THEN {} ELSE {None})
  BY DEF Init, States, RequestTypes, Screens, Keys, MenuSwitches
<1>4. raw \in Seq(Pieces) /\ Len(raw) <= MaxLen
  <2>1. raw = << >>
    BY DEF Init
  <2> QED
    BY <2>1, BuildAssumption
<1> QED
  BY <1>1, <1>2, <1>3, <1>4, EmptyTypes DEF Init, TypeInv, TypeOK

\* What every request that starts over sets to its type.
LEMMA NewRequestTypes ==
    ASSUME NEW kind \in RequestTypes, NEW data \in Seq(Word), TypeOK, NewRequest(kind, data)
    PROVE  /\ reqType' \in RequestTypes /\ path' \in Path /\ magic' \in Word
           /\ raw' \in Seq(Pieces) /\ Len(raw') <= MaxLen
           /\ tx' \in Transaction /\ hash' \in Hash /\ signatures' \in Nat
           /\ storage' \in [Settings -> BOOLEAN] /\ switches' \in [Settings -> BOOLEAN] \cup (IF Ui = "NBGL" THEN {} ELSE {None})
<1>1. raw' = << >> /\ Len(raw') <= MaxLen
  BY BuildAssumption DEF NewRequest
<1> QED
  BY <1>1, EmptyTypes, PathReadType DEF NewRequest, preferences, TypeOK

\* Appending a chunk that is not too long.
LEMMA AppendTypes ==
    ASSUME NEW c, c.data \in Seq(Pieces), raw \in Seq(Pieces), ~TooLong(c)
    PROVE  /\ raw \o c.data \in Seq(Pieces)
           /\ Len(raw \o c.data) = Len(raw) + Len(c.data)
           /\ Len(raw \o c.data) <= MaxLen
<1>1. /\ raw \o c.data \in Seq(Pieces)
      /\ Len(raw \o c.data) = Len(raw) + Len(c.data)
  OBVIOUS
<1>2. Len(raw) \in Nat /\ Len(c.data) \in Nat
  OBVIOUS
<1> QED
  BY <1>1, <1>2, BuildAssumption DEF TooLong

\* Signing turns the first piece into a front, and leaves the others.
LEMMA SignedPieces ==
    ASSUME NEW n \in Nat, raw \in Seq(Pieces), raw # << >>, magic \in Word
    PROVE  /\ RawAfterSigning(n) \in Seq(Pieces)
           /\ Len(RawAfterSigning(n)) = Len(raw)
           /\ RawAfterSigning(n) # << >>
           /\ RawAfterSigning(n)[1] = Front(magic, n, raw[1])
           /\ RawAfterSigning(n)[1] \in Fronts
<1> DEFINE f == Front(magic, n, raw[1])
<1>1. 1 \in 1 .. Len(raw) /\ raw[1] \in Pieces
  OBVIOUS
<1>2. Untouched(raw[1]) \in Sent
  BY <1>1 DEF Untouched, Pieces, Fronts
<1>3. f \in Fronts
  BY <1>2 DEF Front, Fronts
<1>4. f \in Pieces /\ RawAfterSigning(n) = [raw EXCEPT ![1] = f]
  BY <1>3 DEF Pieces, RawAfterSigning
<1> HIDE DEF f
<1>5. /\ [raw EXCEPT ![1] = f] \in Seq(Pieces)
      /\ Len([raw EXCEPT ![1] = f]) = Len(raw)
      /\ [raw EXCEPT ![1] = f][1] = f
  BY <1>1, <1>4, ExceptSeq
<1>6. Len(raw) \in Nat \ {0}
  OBVIOUS
<1>7. [raw EXCEPT ![1] = f] # << >>
  BY <1>5, <1>6
<1> QED
  BY <1>3, <1>4, <1>5, <1>7 DEF f

\* No command and no answer breaks the types.
LEMMA TypeNext == TypeInv /\ [Next]_vars => TypeInv'
<1> SUFFICES ASSUME TypeInv, [Next]_vars PROVE TypeInv'
  OBVIOUS
<1>a. AskingIffAwaited'
  BY AskingNext DEF TypeInv
<1>b. HostMaySend => screen # "review"
  BY DEF TypeInv, AskingIffAwaited, HostMaySend, Dialogs
<1> USE DEF TypeInv
<1>1. ASSUME NEW c \in Commands, NEW derived \in BOOLEAN, GetPublicKey(c, derived)
      PROVE  TypeInv'
  <2>1. c.data \in Seq(Word) /\ NewRequest("CONFIRM_ADDRESS", c.data)
    BY <1>1, CommandData DEF GetPublicKey
  <2>2. pubkey' \in Keys
    BY <1>1, <2>1, PathReadType DEF GetPublicKey, Keys
  <2>3. /\ gAddress' \in Keys /\ screen' \in Screens /\ screen' # "review"
        /\ gtx' = gtx /\ state' \in States
    BY <1>1, <1>b, <2>2
    DEF GetPublicKey, display, ShowAddress, TypeOK, Screens, Dialogs, States
  <2>4. response'.sig = None
    BY <1>1, RepliesCarry DEF GetPublicKey, ShowAddress
  <2> QED
    BY <1>a, <2>1, <2>2, <2>3, <2>4, NewRequestTypes DEF TypeOK, RequestTypes
<1>2. ASSUME NEW c \in Commands, ReceivePath(c)
      PROVE  TypeInv'
  <2>1. c.data \in Seq(Word) /\ NewRequest("CONFIRM_TRANSACTION", c.data)
    BY <1>2, CommandData DEF ReceivePath
  <2>2. response'.sig = None
    BY <1>2, RepliesCarry DEF ReceivePath
  <2>3. state' \in States /\ pubkey' \in Keys /\ UNCHANGED display /\ screen' # "review"
    BY <1>2, <1>b DEF ReceivePath, States, Keys, display
  <2> QED
    BY <1>a, <2>1, <2>2, <2>3, NewRequestTypes DEF TypeOK, RequestTypes, display
<1>3. ASSUME NEW c \in Commands, ReceiveMagic(c)
      PROVE  TypeInv'
  <2>1. c.data \in Seq(Word)
    BY <1>3, CommandData DEF ReceiveMagic
  <2>2. magic' \in Word /\ state' \in States
    BY <1>3, <2>1, EmptyTypes DEF ReceiveMagic, AnswerOnly, context, States, TypeOK
  <2>3. response'.sig = None
    BY <1>3, RepliesCarry DEF ReceiveMagic, AnswerOnly
  <2>4. /\ UNCHANGED << reqType, path, raw, tx, hash, pubkey, display, preferences, signatures >>
        /\ screen' # "review"
    BY <1>3, <1>b DEF ReceiveMagic, AnswerOnly, context, display
  <2> QED
    BY <1>a, <2>2, <2>3, <2>4 DEF TypeOK, display, preferences
<1>4. ASSUME NEW c \in Commands, ReceiveMore(c)
      PROVE  TypeInv'
  <2>1. c.data \in Seq(Pieces)
    BY <1>4, CommandData DEF ReceiveMore
  <2>2. raw' \in Seq(Pieces) /\ Len(raw') <= MaxLen
    BY <1>4, <2>1, AppendTypes DEF ReceiveMore, AnswerOnly, context, TypeOK
  <2>3. response'.sig = None
    BY <1>4, RepliesCarry DEF ReceiveMore, AnswerOnly
  <2>4. /\ UNCHANGED << state, reqType, path, magic, tx, hash, pubkey, display, preferences, signatures >>
        /\ screen' # "review"
    BY <1>4, <1>b DEF ReceiveMore, AnswerOnly, context, display
  <2> QED
    BY <1>a, <2>2, <2>3, <2>4 DEF TypeOK, display, preferences
<1>5. ASSUME NEW c \in Commands, ReceiveLast(c)
      PROVE  TypeInv'
  <2>1. c.data \in Seq(Pieces) /\ c.data # << >>
    BY <1>5, CommandData DEF ReceiveLast
  <2>2. CASE DataRefused \/ TooLong(c)
    BY <1>5, <1>a, <1>b, <2>2, RepliesCarry
    DEF ReceiveLast, AnswerOnly, context, display, preferences, TypeOK
  <2>3. CASE ~DataRefused /\ ~TooLong(c)
    <3> DEFINE status == ParseStatus(raw', tx)
    <3>1. /\ tx' = AfterParse(raw', tx, status)
          /\ IF status # "PARSING_OK"
             THEN /\ response' = Reply("SW_TX_PARSING_FAIL")
                  /\ UNCHANGED << state, hash, display >>
             ELSE /\ hash' = [magics |-> << >>, data |-> raw']
                  /\ IF reqType # "CONFIRM_TRANSACTION"
                     THEN /\ state' = "STATE_NONE"
                          /\ response' = Reply("SW_BAD_STATE")
                          /\ UNCHANGED display
                     ELSE /\ state' = "STATE_PARSED"
                          /\ StartReview(tx')
      BY <1>5, <2>3 DEF ReceiveLast
    <3>2. /\ raw' = raw \o c.data
          /\ UNCHANGED << reqType, path, magic, pubkey, preferences, signatures >>
      BY <1>5, <2>3 DEF ReceiveLast
    <3>3. raw' \in Seq(Pieces) /\ Len(raw') <= MaxLen /\ raw' # << >>
      <4>1. Len(c.data) \in Nat \ {0} /\ Len(raw) \in Nat
        BY <2>1 DEF TypeOK
      <4>2. /\ raw' \in Seq(Pieces) /\ Len(raw') <= MaxLen
            /\ Len(raw') = Len(raw) + Len(c.data)
        BY <2>1, <2>3, <3>2, AppendTypes DEF TypeOK
      <4> QED
        BY <4>1, <4>2
    <3>4. tx' \in Transaction
      BY <3>1, <3>3, AfterParseType DEF TypeOK
    <3>5. hash' \in Hash
      <4>1. [magics |-> << >>, data |-> raw'] \in Hash
        BY <3>3 DEF Hash
      <4> QED
        BY <3>1, <4>1 DEF TypeOK
    <3>6. /\ state' \in States /\ DOMAIN gtx' = Texts /\ gAddress' \in Keys
          /\ screen' \in Screens /\ response'.sig = None
      BY <3>1, RepliesCarry DEF StartReview, display, States, TypeOK, Screens, Dialogs
    <3> QED
      BY <1>a, <3>2, <3>3, <3>4, <3>5, <3>6 DEF TypeOK, preferences
  <2> QED
    BY <2>2, <2>3
<1>6. CASE MalformedCommand \/ RefusedCommand \/ GetNameOrVersion
  BY <1>6, <1>a, RepliesCarry
  DEF MalformedCommand, RefusedCommand, GetNameOrVersion, AnswerOnly, context, display, preferences, TypeOK
<1>7. ASSUME NEW ok \in BOOLEAN, NEW n \in HashReadings, Approve(ok, n)
      PROVE  TypeInv'
  <2>1. raw \in Seq(Pieces) /\ raw # << >> /\ magic \in Word /\ n \in Nat
    BY <1>7, BuildAssumption DEF Approve, TypeOK
  <2>2. raw' \in Seq(Pieces)
    BY <1>7, <2>1, SignedPieces DEF Approve
  <2>2a. Len(raw') = Len(raw)
    BY <1>7, <2>1, SignedPieces DEF Approve
  <2>3. HashAfterSigning \in Hash
    BY DEF HashAfterSigning, TypeOK, Hash
  <2>4. NewSignature \in Signature
    BY <2>3 DEF NewSignature, Signature, TypeOK
  <2>5. response'.sig \in Signature \cup {None}
    BY <1>7, <2>4, RepliesCarry DEF Approve
  <2>6. state' \in States /\ signatures' \in Nat /\ screen' \in Screens /\ screen' # "review"
    BY <1>7 DEF Approve, States, After, Screens, Statuses, TypeOK
  <2> QED
    BY <1>7, <1>a, <2>2, <2>2a, <2>3, <2>5, <2>6 DEF Approve, preferences, TypeOK
<1>8. CASE Reject \/ LeaveNoScripts
  BY <1>8, <1>a, RepliesCarry
  DEF Reject, LeaveNoScripts, Refuse, After, TypeOK, States, Screens, Statuses
<1>9. CASE ConfirmAddress \/ RejectAddress
  BY <1>9, <1>a, RepliesCarry
  DEF ConfirmAddress, RejectAddress, context, preferences, After, TypeOK, Screens, Statuses
<1>10. CASE DismissStatus \/ OpenSettings \/ CloseSettings
  BY <1>10, <1>a
  DEF DismissStatus, OpenSettings, CloseSettings, GoTo, MenuSwitches, context, TypeOK, Screens
<1>11. ASSUME NEW s \in Switched, SwitchSetting(s)
       PROVE  TypeInv'
  <2>1. /\ UNCHANGED << context, display, response, signatures >>
        /\ (Ui = "NBGL" /\ ControlsCallback(s)) \/ SwitchStored(s)
    BY <1>11 DEF SwitchSetting
  <2>2. storage \in [Settings -> BOOLEAN] /\ s \in Settings
    BY BuildAssumption DEF TypeOK, Settings
  <2>3. CASE SwitchStored(s)
    <3>1. storage' \in [Settings -> BOOLEAN] /\ switches' = storage'
      BY <2>2, <2>3 DEF SwitchStored
    <3> QED
      BY <1>a, <2>1, <3>1 DEF context, display, TypeOK
  <2>4. CASE Ui = "NBGL" /\ ControlsCallback(s)
    <3>1. switches \in [Settings -> BOOLEAN]
      BY <2>4 DEF TypeOK
    <3>2. switches' \in [Settings -> BOOLEAN]
      BY <2>2, <2>4, <3>1 DEF ControlsCallback
    <3>3. storage' \in [Settings -> BOOLEAN]
      BY <2>2, <2>4, <3>2 DEF ControlsCallback
    <3> QED
      BY <1>a, <2>1, <3>2, <3>3 DEF context, display, TypeOK
  <2> QED
    BY <2>1, <2>3, <2>4
<1>12. CASE Restart
  <2>1. raw' = << >> /\ raw' \in Seq(Pieces) /\ Len(raw') <= MaxLen
    <3>1. raw' = << >>
      BY <1>12 DEF Restart
    <3> QED
      BY <3>1, BuildAssumption
  <2>2. response'.sig = None
    BY <1>12, RepliesCarry DEF Restart
  <2> QED
    BY <1>12, <1>a, <2>1, <2>2, EmptyTypes
    DEF Restart, MenuSwitches, TypeOK, States, RequestTypes, Keys, Screens
<1>13. CASE UNCHANGED vars
  BY <1>13, <1>a DEF vars, context, display, preferences, TypeOK
<1> QED
  BY <1>1, <1>2, <1>3, <1>4, <1>5, <1>6, <1>7, <1>8, <1>9, <1>10, <1>11, <1>12, <1>13
  DEF Next, HostSends, OwnerAnswers, OwnerBrowses

\* Every global holds a value of its type: in particular raw_tx never outgrows its
\* buffer, and a path, even one left half read, is made of five words.
THEOREM TypeTheorem == Spec => []TypeOK
<1>1. TypeInv => TypeOK
  BY DEF TypeInv
<1> QED
  BY <1>1, TypeInit, TypeNext, PTL DEF Spec

---------------------------------------------------------------------------
(* The settings and their copies.                                          *)

\* On NBGL the copies are those of the settings all the time, on BAGL only while
\* they are on the screen.
CopiesInv == (Ui = "NBGL" \/ screen = "settings") => switches = storage

\* No step leaves the settings page with copies that are not those of storage.
LEMMA CopiesNext == CopiesInv /\ TypeOK /\ [Next]_vars => CopiesInv'
<1> SUFFICES ASSUME CopiesInv, TypeOK, [Next]_vars PROVE CopiesInv'
  OBVIOUS
<1> USE DEF CopiesInv
<1>1. CASE HostSends
  <2>1. UNCHANGED preferences
    BY <1>1
    DEF HostSends, MalformedCommand, RefusedCommand, GetNameOrVersion, AnswerOnly,
        GetPublicKey, NewRequest, ReceivePath, ReceiveMagic, ReceiveMore, ReceiveLast
  <2>2. screen' = screen \/ screen' # "settings"
    BY <1>1
    DEF HostSends, MalformedCommand, RefusedCommand, GetNameOrVersion, AnswerOnly,
        GetPublicKey, ShowAddress, ReceivePath, ReceiveMagic, ReceiveMore, ReceiveLast,
        StartReview, display
  <2> QED
    BY <2>1, <2>2 DEF preferences
<1>2. CASE OwnerAnswers
  BY <1>2 DEF OwnerAnswers, Approve, Reject, LeaveNoScripts, Refuse, ConfirmAddress,
              RejectAddress, After, preferences
<1>3. CASE DismissStatus \/ OpenSettings \/ CloseSettings
  BY <1>3 DEF DismissStatus, OpenSettings, CloseSettings, GoTo, MenuSwitches
<1>4. ASSUME NEW s \in Switched, SwitchSetting(s)
      PROVE  CopiesInv'
  <2>1. s \in Settings /\ storage \in [Settings -> BOOLEAN]
    BY BuildAssumption DEF TypeOK, Settings
  <2>2. switches = storage
    BY <1>4 DEF SwitchSetting, ControlsCallback, SwitchStored
  <2>3. CASE Ui = "NBGL"
    <3>1. /\ switches' = [storage EXCEPT ![s] = ~storage[s]]
          /\ storage' = [storage EXCEPT ![s] = switches'[s]]
      BY <1>4, <2>2, <2>3 DEF SwitchSetting, ControlsCallback, SwitchStored
    <3>2. switches'[s] = ~storage[s]
      BY <2>1, <3>1
    <3> QED
      BY <3>1, <3>2
  <2>4. CASE Ui # "NBGL"
    BY <1>4, <2>4 DEF SwitchSetting, ControlsCallback, SwitchStored
  <2> QED
    BY <2>3, <2>4
<1>5. CASE Restart
  BY <1>5 DEF Restart, MenuSwitches
<1>6. CASE UNCHANGED vars
  BY <1>6 DEF vars, display, preferences
<1> QED
  BY <1>1, <1>2, <1>3, <1>4, <1>5, <1>6 DEF Next, OwnerBrowses

\* Whatever the owner switches, and whatever happens in between, the settings page
\* shows what is stored.
THEOREM SettingsTheorem == Spec => []SettingsShownAreStored
<1>1. Init => CopiesInv
  BY DEF Init, MenuSwitches, CopiesInv
<1>2. CopiesInv => SettingsShownAreStored
  BY DEF CopiesInv, SettingsShownAreStored
<1> QED
  BY <1>1, <1>2, CopiesNext, TypeTheorem, PTL DEF Spec

---------------------------------------------------------------------------
(* Consent: the application signs what the owner was shown, with the       *)
(* owner's leave, and once; it sends the key whose address was shown.      *)

---------------------------------------------------------------------------
(* What the script matchers find in a script.                              *)

\* Two transactions agree on the fields the script matchers write.
Agree(t, u) ==
    /\ t.is_system_asset_transfer = u.is_system_asset_transfer
    /\ t.is_neo = u.is_neo
    /\ t.amount = u.amount
    /\ t.is_vote_script = u.is_vote_script
    /\ t.is_remove_vote = u.is_remove_vote
    /\ t.vote_to = u.vote_to

\* What the matchers find in a script when nothing is left from before.
Finding(s) == MatchScript(s, EmptyTx)

\* The fields of a transaction have their types.
LEMMA FieldTypes ==
    ASSUME NEW t \in Transaction
    PROVE  /\ t.is_system_asset_transfer \in BOOLEAN /\ t.is_neo \in BOOLEAN
           /\ t.is_vote_script \in BOOLEAN /\ t.is_remove_vote \in BOOLEAN
           /\ t.amount \in Scripts \cup {None} /\ t.vote_to \in Scripts \cup {None}
  BY DEF Transaction

\* What try_parse_transfer_script makes of t, field by field.
TransferResult(s, t, u) ==
    /\ KindOf[s] \in {"neo", "neoPlus"} => u.is_neo = TRUE
    /\ KindOf[s] \notin {"neo", "neoPlus"} => u.is_neo = t.is_neo
    /\ KindOf[s] \in {"neo", "gas", "neoPlus"} => u.amount = s
    /\ KindOf[s] \notin {"neo", "gas", "neoPlus"} => u.amount = t.amount
    /\ KindOf[s] \in {"neo", "gas"} => u.is_system_asset_transfer = TRUE
    /\ KindOf[s] \notin {"neo", "gas"} => u.is_system_asset_transfer = t.is_system_asset_transfer
    /\ u.is_vote_script = t.is_vote_script
    /\ u.is_remove_vote = t.is_remove_vote
    /\ u.vote_to = t.vote_to
    /\ u.head = t.head
    /\ u.script = t.script

\* That is what it makes of it.
LEMMA TransferFields ==
    ASSUME NEW s \in Scripts, NEW t \in Transaction
    PROVE  MatchTransfer(s, t) \in Transaction /\ TransferResult(s, t, MatchTransfer(s, t))
<1> DEFINE x == IF KindOf[s] \in {"neo", "neoPlus"} THEN TRUE ELSE t.is_neo
           y == IF KindOf[s] \in {"neo", "gas", "neoPlus"} THEN s ELSE t.amount
           z == IF KindOf[s] \in {"neo", "gas"} THEN TRUE ELSE t.is_system_asset_transfer
           u == MatchTransfer(s, t)
<1>1. u = [t EXCEPT !.is_neo = x, !.amount = y, !.is_system_asset_transfer = z]
  BY DEF MatchTransfer
<1>2. x \in BOOLEAN /\ y \in Scripts \cup {None} /\ z \in BOOLEAN
  BY FieldTypes
<1> HIDE DEF x, y, z, u
<1>3. u \in Transaction
  BY <1>1, <1>2, FieldsOfTransfer, Zenon
<1>4. /\ u.is_neo = x /\ u.amount = y /\ u.is_system_asset_transfer = z
      /\ u.is_vote_script = t.is_vote_script /\ u.is_remove_vote = t.is_remove_vote
      /\ u.vote_to = t.vote_to /\ u.head = t.head /\ u.script = t.script
  BY <1>1 DEF Transaction
<1>5. TransferResult(s, t, u)
  BY <1>4, Zenon DEF x, y, z, TransferResult
<1> QED
  BY <1>3, <1>5 DEF u

\* What try_parse_vote_script makes of t, field by field.
VoteResult(s, t, u) ==
    /\ KindOf[s] \in {"vote", "retract"} => u.is_vote_script = TRUE
    /\ KindOf[s] \notin {"vote", "retract"} => u.is_vote_script = t.is_vote_script
    /\ KindOf[s] \in {"retract", "neoPlus"} => u.is_remove_vote = TRUE
    /\ KindOf[s] = "vote" => u.is_remove_vote = FALSE
    /\ KindOf[s] \notin {"retract", "neoPlus", "vote"} => u.is_remove_vote = t.is_remove_vote
    /\ KindOf[s] = "vote" => u.vote_to = s
    /\ KindOf[s] # "vote" => u.vote_to = t.vote_to
    /\ u.is_neo = t.is_neo
    /\ u.amount = t.amount
    /\ u.is_system_asset_transfer = t.is_system_asset_transfer
    /\ u.head = t.head
    /\ u.script = t.script

\* That is what it makes of it.
LEMMA VoteFields ==
    ASSUME NEW s \in Scripts, NEW t \in Transaction
    PROVE  VoteResult(s, t, MatchVote(s, t))
<1> DEFINE x == IF KindOf[s] \in {"vote", "retract"} THEN TRUE ELSE t.is_vote_script
           y == IF KindOf[s] \in {"retract", "neoPlus"} THEN TRUE
                ELSE IF KindOf[s] = "vote" THEN FALSE ELSE t.is_remove_vote
           z == IF KindOf[s] = "vote" THEN s ELSE t.vote_to
           u == MatchVote(s, t)
<1>1. u = [t EXCEPT !.is_vote_script = x, !.is_remove_vote = y, !.vote_to = z]
  BY DEF MatchVote
<1>2. KindOf[s] = "vote" => KindOf[s] \notin {"retract", "neoPlus"}
  OBVIOUS
<1> HIDE DEF x, y, z, u
<1>3. /\ u.is_vote_script = x /\ u.is_remove_vote = y /\ u.vote_to = z
      /\ u.is_neo = t.is_neo /\ u.amount = t.amount
      /\ u.is_system_asset_transfer = t.is_system_asset_transfer
      /\ u.head = t.head /\ u.script = t.script
  BY <1>1 DEF Transaction
<1>4. VoteResult(s, t, u)
  BY <1>2, <1>3, Zenon DEF x, y, z, VoteResult
<1> QED
  BY <1>4 DEF u

\* The two ways through the matchers.
LEMMA MatchWays ==
    ASSUME NEW s \in Scripts, NEW t \in Transaction
    PROVE  \E u \in Transaction :
              /\ TransferResult(s, t, u)
              /\ u.is_system_asset_transfer => MatchScript(s, t) = u
              /\ ~u.is_system_asset_transfer => VoteResult(s, u, MatchScript(s, t))
<1> DEFINE u == MatchTransfer(s, t)
<1>1. u \in Transaction /\ TransferResult(s, t, u)
  BY TransferFields
<1>2. VoteResult(s, u, MatchVote(s, u))
  BY <1>1, VoteFields
<1>3. MatchScript(s, t) = IF u.is_system_asset_transfer THEN u ELSE MatchVote(s, u)
  BY DEF MatchScript
<1> HIDE DEF u
<1> QED
  BY <1>1, <1>2, <1>3

\* Matching leaves the other fields.
LEMMA MatchKeepsHeader ==
    ASSUME NEW s \in Scripts, NEW t \in Transaction
    PROVE  /\ MatchScript(s, t).head = t.head
           /\ MatchScript(s, t).script = t.script
<1>1. PICK u \in Transaction :
              /\ TransferResult(s, t, u)
              /\ u.is_system_asset_transfer => MatchScript(s, t) = u
              /\ ~u.is_system_asset_transfer => VoteResult(s, u, MatchScript(s, t))
  BY MatchWays
<1> QED
  BY <1>1 DEF TransferResult, VoteResult

\* Matching looks at the fields it writes and at no other.
LEMMA MatchLooksAtFound ==
    ASSUME NEW s \in Scripts, NEW t \in Transaction, NEW v \in Transaction, Agree(t, v)
    PROVE  Agree(MatchScript(s, t), MatchScript(s, v))
<1>1. PICK u \in Transaction :
              /\ TransferResult(s, t, u)
              /\ u.is_system_asset_transfer => MatchScript(s, t) = u
              /\ ~u.is_system_asset_transfer => VoteResult(s, u, MatchScript(s, t))
  BY MatchWays
<1>2. PICK w \in Transaction :
              /\ TransferResult(s, v, w)
              /\ w.is_system_asset_transfer => MatchScript(s, v) = w
              /\ ~w.is_system_asset_transfer => VoteResult(s, w, MatchScript(s, v))
  BY MatchWays
<1>3. Agree(u, w)
  BY <1>1, <1>2 DEF TransferResult, Agree
<1>4. CASE u.is_system_asset_transfer
  BY <1>1, <1>2, <1>3, <1>4 DEF Agree
<1>5. CASE ~u.is_system_asset_transfer
  <2>1. VoteResult(s, u, MatchScript(s, t)) /\ VoteResult(s, w, MatchScript(s, v))
    BY <1>1, <1>2, <1>3, <1>5 DEF Agree
  <2> QED
    BY <1>3, <2>1 DEF VoteResult, Agree
<1> QED
  BY <1>4, <1>5

\* A script matched a second time is found to be what it was found to be.
LEMMA MatchAgain ==
    ASSUME NEW s \in Scripts, NEW t \in Transaction, Agree(t, Finding(s))
    PROVE  Agree(MatchScript(s, t), Finding(s))
<1>1. PICK e \in Transaction :
              /\ TransferResult(s, EmptyTx, e)
              /\ e.is_system_asset_transfer => Finding(s) = e
              /\ ~e.is_system_asset_transfer => VoteResult(s, e, Finding(s))
  BY MatchWays, EmptyTypes DEF Finding
<1>2. PICK u \in Transaction :
              /\ TransferResult(s, t, u)
              /\ u.is_system_asset_transfer => MatchScript(s, t) = u
              /\ ~u.is_system_asset_transfer => VoteResult(s, u, MatchScript(s, t))
  BY MatchWays
<1>3. /\ EmptyTx.is_system_asset_transfer = FALSE /\ EmptyTx.is_neo = FALSE
      /\ EmptyTx.amount = None
  BY DEF EmptyTx
<1>4. CASE KindOf[s] \in {"neo", "gas"}
  <2>1. e.is_system_asset_transfer = TRUE /\ u.is_system_asset_transfer = TRUE
    BY <1>1, <1>2, <1>4 DEF TransferResult
  <2>2. Agree(t, e)
    BY <1>1, <2>1
  <2>3. Agree(u, e)
    BY <1>1, <1>2, <1>3, <1>4, <2>1, <2>2 DEF TransferResult, Agree
  <2> QED
    BY <1>1, <1>2, <2>1, <2>3
<1>5. CASE KindOf[s] \notin {"neo", "gas"}
  <2> DEFINE v == Finding(s)
  <2> HIDE DEF v
  <2>1. e.is_system_asset_transfer = FALSE
    BY <1>1, <1>3, <1>5 DEF TransferResult
  <2>2. VoteResult(s, e, v) /\ Agree(t, v)
    BY <1>1, <2>1 DEF v
  <2>3. u.is_system_asset_transfer = FALSE
    BY <1>2, <1>5, <2>1, <2>2 DEF TransferResult, VoteResult, Agree
  <2>4. Agree(u, v)
    <3>1. /\ e.is_neo = v.is_neo /\ e.amount = v.amount
          /\ e.is_system_asset_transfer = v.is_system_asset_transfer
      BY <2>2 DEF VoteResult
    <3>2. /\ KindOf[s] = "neoPlus" => e.is_neo = TRUE /\ e.amount = s
          /\ KindOf[s] = "neoPlus" => u.is_neo = TRUE /\ u.amount = s
      BY <1>1, <1>2 DEF TransferResult
    <3>3. KindOf[s] # "neoPlus" => u.is_neo = t.is_neo /\ u.amount = t.amount
      BY <1>2, <1>5 DEF TransferResult
    <3>4. u.is_neo = v.is_neo /\ u.amount = v.amount
      BY <2>2, <3>1, <3>2, <3>3 DEF Agree
    <3>5. /\ u.is_vote_script = v.is_vote_script /\ u.is_remove_vote = v.is_remove_vote
          /\ u.vote_to = v.vote_to
      BY <1>2, <2>2 DEF TransferResult, Agree
    <3> QED
      BY <2>1, <2>3, <3>1, <3>4, <3>5 DEF Agree
  <2>5. VoteResult(s, u, MatchScript(s, t))
    BY <1>2, <2>3
  <2>6. Agree(MatchScript(s, t), v)
    BY <2>2, <2>4, <2>5 DEF VoteResult, Agree
  <2> QED
    BY <2>6 DEF v
<1> QED
  BY <1>4, <1>5

\* What an attempt to parse bytes as a host sent them leaves in the fields of the
\* matchers, whether it comes as far as the script or not.
LEMMA ParseFinds ==
    ASSUME NEW data \in Seq(Pieces), data # << >>, data[1] \notin Fronts,
           NEW t \in Transaction,
           NEW u, u = AfterParse(data, t, ParseStatus(data, t))
    PROVE  /\ \/ Agree(u, t)
              \/ Len(data) >= 2 /\ data[2] \in Scripts /\ Agree(u, MatchScript(data[2], t))
           /\ ParseStatus(data, t) = "PARSING_OK" =>
                /\ Agree(u, MatchScript(data[2], t))
                /\ u.head = SubSeq(data, 1, 1) /\ u.script = data[2]
<1> DEFINE status == ParseStatus(data, t)
           taken == SubSeq(data, 1, 1)
           header == [t EXCEPT !.head = taken,
                               !.attribute = IF HasAttribute(data) THEN TRUE ELSE @]
           filled == [header EXCEPT !.script = data[2]]
<1>1. CASE status \in {"HEADER_ERROR", "ATTRIBUTES_DUPLICATE_TYPE"}
  BY <1>1 DEF AfterParse, Agree
<1>2. CASE status \notin {"HEADER_ERROR", "ATTRIBUTES_DUPLICATE_TYPE"}
  <2>1. HeaderReads(data)
    BY <1>2 DEF ParseStatus
  <2>2. HeaderTakes(data) = 1 /\ taken \in Seq(Pieces)
    <3>1. HeaderTakes(data) \in 1 .. Len(data) /\ SubSeq(data, 1, HeaderTakes(data)) \in Seq(Pieces)
      BY <2>1, HeaderType
    <3>2. HeaderTakes(data) # 0
      BY <3>1
    <3> QED
      BY <3>1, <3>2, HeaderOfSent
  <2> HIDE DEF taken
  <2>3. header \in Transaction /\ Agree(header, t) /\ header.head = taken
    BY <2>2 DEF Transaction, Agree
  <2>4. CASE status \in {"SCRIPT_LENGTH_PARSING_ERROR", "SCRIPT_LENGTH_VALUE_ERROR"}
    BY <2>2, <2>3, <2>4 DEF AfterParse, taken
  <2>5. CASE status \in {"INVALID_LENGTH_ERROR", "PARSING_OK"}
    <3>1. data[1 + 1] \in Scripts /\ Len(data) # 1
      BY <2>2, <2>5 DEF ParseStatus
    <3>2. data[2] \in Scripts
      BY <3>1
    <3>3. u = MatchScript(data[2], filled)
      BY <2>2, <2>5 DEF AfterParse, taken
    <3> HIDE DEF header
    <3>4. /\ filled \in Transaction /\ Agree(filled, t)
          /\ filled.head = taken /\ filled.script = data[2]
      BY <2>3, <3>2 DEF Transaction, Agree
    <3> HIDE DEF filled
    <3>5. Agree(u, MatchScript(data[2], t))
      BY <3>2, <3>3, <3>4, MatchLooksAtFound
    <3>6. u.head = taken /\ u.script = data[2]
      BY <3>2, <3>3, <3>4, MatchKeepsHeader
    <3>7. Len(data) >= 2
      <4> DEFINE n == Len(data)
      <4>1. n \in Nat \ {0} /\ n # 1
        BY <3>1
      <4> HIDE DEF n
      <4>2. n >= 2
        BY <4>1
      <4> QED
        BY <4>2 DEF n
    <3> HIDE DEF status
    <3> QED
      BY <3>2, <3>5, <3>6, <3>7, Zenon DEF taken
  <2> QED
    BY <1>2, <2>4, <2>5 DEF ParseStatus
<1> QED
  BY <1>1, <1>2

\* The same transaction parsed on its own.
LEMMA FreshFinds ==
    ASSUME NEW data \in Seq(Pieces), Len(data) = 2, data[1] \in Heads, data[2] \in Scripts
    PROVE  /\ FreshTx(data) \in Transaction
           /\ Agree(FreshTx(data), Finding(data[2]))
           /\ FreshTx(data).head = SubSeq(data, 1, 1) /\ FreshTx(data).script = data[2]
<1> DEFINE taken == SubSeq(data, 1, 1)
           e == [EmptyTx EXCEPT !.head = taken, !.script = data[2]]
<1>1. HeaderTakes(data) = 1 /\ taken \in Seq(Pieces)
  <2>1. HeaderTakes(data) = 1
    BY DEF HeaderTakes
  <2>2. HeaderReads(data)
    BY <2>1 DEF HeaderReads
  <2> QED
    BY <2>1, <2>2, HeaderType
<1>2. FreshTx(data) = MatchScript(data[2], e)
  BY <1>1 DEF FreshTx
<1> HIDE DEF taken
<1>3. e \in Transaction /\ Agree(e, EmptyTx) /\ e.head = taken /\ e.script = data[2]
  BY <1>1, EmptyTypes DEF Transaction, EmptyTx, Agree
<1> HIDE DEF e
<1>4. Agree(MatchScript(data[2], e), MatchScript(data[2], EmptyTx))
  BY <1>3, EmptyTypes, MatchLooksAtFound
<1>5. MatchScript(data[2], e).head = taken /\ MatchScript(data[2], e).script = data[2]
  BY <1>3, MatchKeepsHeader
<1> QED
  BY <1>2, <1>3, <1>4, <1>5, MatchScriptType DEF Finding, taken

\* A review shows what the matchers found, the header and the script.
LEMMA SameContent ==
    ASSUME NEW t, NEW u, Agree(t, u), t.head = u.head, t.script = u.script,
           NEW m, NEW settings
    PROVE  ContentOf(t, m, settings) = ContentOf(u, m, settings)
<1>1. Subject(t) = Subject(u)
  BY DEF Subject, Agree
<1>2. Items(t, settings) = Items(u, settings)
  BY <1>1 DEF Items
<1>3. \A f : TextOf(f, t, m) = TextOf(f, u, m)
  BY DEF TextOf, Agree
<1>4. SignersText(t, settings) = SignersText(u, settings)
  BY DEF SignersText
<1> QED
  BY <1>2, <1>3, <1>4 DEF ContentOf

\* start_sign_tx writes every text the review points at.
LEMMA ItemsAreWritten ==
    ASSUME NEW t \in Transaction, NEW settings, NEW f \in Items(t, settings) \cap Texts
    PROVE  f \in Written(t)
<1>1. CASE f \notin {"transfer", "vote_to"}
  BY <1>1 DEF Written
<1>2. CASE f = "transfer"
  <2>1. f \in Subject(t)
    BY <1>2 DEF Items
  <2>2. t.is_system_asset_transfer
    BY <1>2, <2>1, FieldTypes DEF Subject
  <2> QED
    BY <1>2, <2>2 DEF Written
<1>3. CASE f = "vote_to"
  <2>1. f \in Subject(t)
    BY <1>3 DEF Items
  <2>2. t.is_vote_script /\ ~t.is_remove_vote
    BY <1>3, <2>1, FieldTypes DEF Subject
  <2> QED
    BY <1>3, <2>2 DEF Written
<1> QED
  BY <1>1, <1>2, <1>3

---------------------------------------------------------------------------
(* What a step can do to a review, to the upload and to the signatures.    *)

\* No review is up after the step, and no signature went out with it.
Quiet ==
    /\ screen' # "review"
    /\ \/ response'.sig = None
       \/ screen # "review" /\ UNCHANGED response

StartsOver ==
    /\ raw' = << >> /\ tx' = EmptyTx /\ signatures' = 0
    /\ screen' # "review" /\ response'.sig = None

Appends(chunk) ==
    /\ screen # "review"
    /\ raw' = raw \o chunk
    /\ UNCHANGED << tx, signatures >>
    /\ Quiet

Parses(chunk) ==
    /\ screen # "review"
    /\ raw' = raw \o chunk /\ chunk # << >>
    /\ tx' = AfterParse(raw', tx, ParseStatus(raw', tx))
    /\ UNCHANGED signatures

Opens ==
    /\ ParseStatus(raw', tx) = "PARSING_OK"
    /\ state' = "STATE_PARSED"
    /\ hash' = [magics |-> << >>, data |-> raw']
    /\ ReviewAllowed(tx') /\ StartReview(tx')
    /\ UNCHANGED << magic, preferences >>

Idles ==
    /\ UNCHANGED << raw, tx, signatures >>
    /\ Quiet

\* A chunk is only appended, and parsed, while no review is up; a review is opened
\* by a parse that ends well, and left for good by any other step.
LEMMA StepKinds ==
    ASSUME TypeInv, [Next]_vars
    PROVE  \/ UNCHANGED vars
           \/ StartsOver
           \/ \E chunk \in Seq(Sent) : Appends(chunk)
           \/ \E chunk \in Seq(Sent) : Parses(chunk) /\ (Quiet \/ Opens)
           \/ \E ok \in BOOLEAN, n \in HashReadings : Approve(ok, n)
           \/ Idles
<1>a. HostMaySend => screen # "review"
  BY DEF TypeInv, AskingIffAwaited, HostMaySend, Dialogs
<1>1. ASSUME NEW c \in Commands, NEW derived \in BOOLEAN, GetPublicKey(c, derived)
      PROVE  StartsOver
  BY <1>1, <1>a, RepliesCarry DEF GetPublicKey, NewRequest, ShowAddress, display, StartsOver
<1>2. ASSUME NEW c \in Commands, ReceivePath(c)
      PROVE  StartsOver
  BY <1>2, <1>a, RepliesCarry DEF ReceivePath, NewRequest, display, StartsOver
<1>3. ASSUME NEW c \in Commands, ReceiveMagic(c)
      PROVE  Idles
  BY <1>3, <1>a, RepliesCarry DEF ReceiveMagic, AnswerOnly, context, display, Idles, Quiet
<1>4. ASSUME NEW c \in Commands, ReceiveMore(c)
      PROVE  Idles \/ (c.data \in Seq(Sent) /\ Appends(c.data))
  <2>1. c.data \in Seq(Sent)
    BY <1>4, CommandData DEF ReceiveMore
  <2>2. screen # "review" /\ Quiet
    BY <1>4, <1>a, RepliesCarry DEF ReceiveMore, AnswerOnly, display, Quiet
  <2>3. CASE DataRefused \/ TooLong(c)
    BY <1>4, <2>2, <2>3 DEF ReceiveMore, AnswerOnly, context, Idles
  <2>4. CASE ~DataRefused /\ ~TooLong(c)
    BY <1>4, <2>1, <2>2, <2>4 DEF ReceiveMore, Appends
  <2> QED
    BY <2>3, <2>4
<1>5. ASSUME NEW c \in Commands, ReceiveLast(c)
      PROVE  \/ Idles
             \/ /\ c.data \in Seq(Sent)
                /\ Parses(c.data)
                /\ Quiet \/ Opens
  <2>1. c.data \in Seq(Sent) /\ c.data # << >>
    BY <1>5, CommandData DEF ReceiveLast
  <2>2. screen # "review"
    BY <1>5, <1>a DEF ReceiveLast
  <2>3. CASE DataRefused \/ TooLong(c)
    <3>1. AnswerOnly("SW_BAD_STATE") \/ AnswerOnly("SW_WRONG_TX_LENGTH")
      BY <1>5, <2>3, Zenon DEF ReceiveLast
    <3> QED
      BY <2>2, <3>1, RepliesCarry DEF AnswerOnly, context, display, Idles, Quiet
  <2>4. CASE ~DataRefused /\ ~TooLong(c)
    <3> DEFINE status == ParseStatus(raw', tx)
    <3>1. /\ tx' = AfterParse(raw', tx, status)
          /\ IF status # "PARSING_OK"
             THEN /\ response' = Reply("SW_TX_PARSING_FAIL")
                  /\ UNCHANGED << state, hash, display >>
             ELSE /\ hash' = [magics |-> << >>, data |-> raw']
                  /\ IF reqType # "CONFIRM_TRANSACTION"
                     THEN /\ state' = "STATE_NONE"
                          /\ response' = Reply("SW_BAD_STATE")
                          /\ UNCHANGED display
                     ELSE /\ state' = "STATE_PARSED"
                          /\ StartReview(tx')
      BY <1>5, <2>4 DEF ReceiveLast
    <3>2. /\ raw' = raw \o c.data
          /\ UNCHANGED << magic, preferences, signatures >>
      BY <1>5, <2>4 DEF ReceiveLast
    <3>3. Parses(c.data)
      BY <2>1, <2>2, <3>1, <3>2 DEF Parses
    <3>4. Quiet \/ Opens
      <4>1. CASE status # "PARSING_OK" \/ reqType # "CONFIRM_TRANSACTION"
        BY <2>2, <3>1, <4>1, RepliesCarry DEF Quiet, display
      <4>2. CASE status = "PARSING_OK" /\ reqType = "CONFIRM_TRANSACTION" /\ ReviewAllowed(tx')
        BY <3>1, <3>2, <4>2 DEF Opens
      <4>3. CASE status = "PARSING_OK" /\ reqType = "CONFIRM_TRANSACTION" /\ ~ReviewAllowed(tx')
        BY <3>1, <4>3, RepliesCarry DEF StartReview, Quiet
      <4> QED
        BY <4>1, <4>2, <4>3
    <3> QED
      BY <2>1, <3>3, <3>4
  <2> QED
    BY <2>3, <2>4
<1>6. CASE MalformedCommand \/ RefusedCommand \/ GetNameOrVersion
  BY <1>6, <1>a, RepliesCarry
  DEF MalformedCommand, RefusedCommand, GetNameOrVersion, AnswerOnly, context, display, Idles, Quiet
<1>7. CASE Reject \/ LeaveNoScripts
  BY <1>7, RepliesCarry DEF Reject, LeaveNoScripts, Refuse, After, Idles, Quiet
<1>8. CASE ConfirmAddress \/ RejectAddress
  BY <1>8, RepliesCarry DEF ConfirmAddress, RejectAddress, After, context, Idles, Quiet
<1>9. CASE OwnerBrowses
  BY <1>9 DEF OwnerBrowses, DismissStatus, OpenSettings, CloseSettings, GoTo, SwitchSetting,
              Statuses, context, display, Idles, Quiet
<1>10. CASE Restart
  BY <1>10, RepliesCarry DEF Restart, StartsOver
<1>11. CASE Next
  BY <1>1, <1>2, <1>3, <1>4, <1>5, <1>6, <1>7, <1>8, <1>9, <1>10, <1>11
  DEF Next, HostSends, OwnerAnswers
<1> QED
  BY <1>11

---------------------------------------------------------------------------
(* The review: what is shown, parsed and about to be signed are the same.  *)

\* The upload is as the host sent it.
Whole == raw # << >> => raw[1] \notin Fronts

\* Whatever was parsed before, and however often, the fields the matchers write
\* are empty or those of the script that is in the buffer, and will stay there.
Leftovers ==
    \/ Agree(tx, EmptyTx)
    \/ Len(raw) >= 2 /\ raw[2] \in Scripts /\ Agree(tx, Finding(raw[2]))

\* The transaction that was parsed is the one in the buffer.
ParsedIsReceived ==
    /\ Len(raw) = 2
    /\ raw[2] \in Scripts
    /\ Agree(tx, Finding(raw[2]))
    /\ tx.head = SubSeq(raw, 1, 1) /\ tx.script = raw[2]

Live ==
    /\ state = "STATE_PARSED"
    /\ hash = [magics |-> << >>, data |-> raw]
    /\ Shown = ContentOf(tx, magic, storage)

ReviewInv ==
    /\ TypeInv
    /\ Whole => Leftovers
    /\ screen = "review" => Live /\ ReviewAllowed(tx) /\ Readable(raw)
    /\ screen = "review" /\ Whole => ParsedIsReceived

\* Appending leaves what is there.
LEMMA AppendKeeps ==
    ASSUME NEW data \in Seq(Pieces), NEW chunk \in Seq(Pieces), NEW i \in Nat \ {0}, Len(data) >= i
    PROVE  Len(data \o chunk) >= i /\ (data \o chunk)[i] = data[i]
<1>1. i \in 1 .. Len(data)
  OBVIOUS
<1>2. Len(data \o chunk) = Len(data) + Len(chunk) /\ Len(data) \in Nat /\ Len(chunk) \in Nat
  OBVIOUS
<1>3. Len(data \o chunk) >= i
  BY <1>2
<1>4. (data \o chunk)[i] = data[i]
  BY <1>1
<1> QED
  BY <1>3, <1>4

\* The front of an upload stays what it is when bytes are appended.
LEMMA AppendWhole ==
    ASSUME raw \in Seq(Pieces), NEW chunk \in Seq(Pieces), raw' = raw \o chunk
    PROVE  /\ raw # << >> => raw' # << >> /\ raw'[1] = raw[1]
           /\ Whole' => Whole
<1>1. raw # << >> => raw' # << >> /\ raw'[1] = raw[1]
  <2> SUFFICES ASSUME raw # << >> PROVE raw' # << >> /\ raw'[1] = raw[1]
    OBVIOUS
  <2>1. Len(raw) >= 1
    OBVIOUS
  <2>2. Len(raw') >= 1 /\ raw'[1] = raw[1]
    BY <2>1, AppendKeeps
  <2> QED
    BY <2>2
<1> QED
  BY <1>1 DEF Whole

\* A parse that ends well has found what the same bytes say on their own.
LEMMA ParsesFinds ==
    ASSUME TypeInv, Whole => Leftovers, NEW chunk \in Seq(Pieces), Parses(chunk), Whole'
    PROVE  /\ Leftovers'
           /\ ParseStatus(raw', tx) = "PARSING_OK" => ParsedIsReceived'
<1> DEFINE data == raw \o chunk
<1>1. raw \in Seq(Pieces) /\ tx \in Transaction /\ EmptyTx \in Transaction
  BY EmptyTypes DEF TypeInv, TypeOK
<1>2. raw' = data /\ data \in Seq(Pieces) /\ data # << >> /\ data[1] \notin Fronts
  <2>1. raw' = data /\ data \in Seq(Pieces) /\ chunk # << >>
    BY <1>1 DEF Parses
  <2>2. data # << >>
    BY <1>1, <2>1
  <2> HIDE DEF data
  <2> QED
    BY <2>1, <2>2 DEF Whole
<1>a. Leftovers
  BY <1>1, <1>2, AppendWhole
<1>3. tx' = AfterParse(data, tx, ParseStatus(data, tx))
  BY <1>2 DEF Parses
<1>4. Len(raw) >= 2 => Len(data) >= 2 /\ data[2] = raw[2]
  BY <1>1, AppendKeeps
<1> HIDE DEF data
<1>5. ASSUME data[2] \in Scripts
      PROVE  Agree(MatchScript(data[2], tx), Finding(data[2]))
  <2>1. CASE Agree(tx, EmptyTx)
    BY <1>1, <1>5, <2>1, MatchLooksAtFound DEF Finding
  <2>2. CASE Len(raw) >= 2 /\ raw[2] \in Scripts /\ Agree(tx, Finding(raw[2]))
    BY <1>1, <1>4, <1>5, <2>2, MatchAgain
  <2> QED
    BY <1>a, <2>1, <2>2 DEF Leftovers
<1>6. \/ Agree(tx', tx)
      \/ Len(data) >= 2 /\ data[2] \in Scripts /\ Agree(tx', MatchScript(data[2], tx))
  BY <1>1, <1>2, <1>3, ParseFinds
<1>7. Leftovers'
  <2>1. CASE Agree(tx', tx)
    <3>1. Agree(tx, EmptyTx) => Agree(tx', EmptyTx)
      BY <2>1 DEF Agree
    <3>2. ASSUME NEW v, Agree(tx, v)
          PROVE  Agree(tx', v)
      BY <2>1, <3>2 DEF Agree
    <3> QED
      BY <1>2, <1>4, <1>a, <3>1, <3>2 DEF Leftovers
  <2>2. CASE Len(data) >= 2 /\ data[2] \in Scripts /\ Agree(tx', MatchScript(data[2], tx))
    <3>1. Agree(tx', Finding(data[2]))
      BY <1>5, <2>2 DEF Agree
    <3> QED
      BY <1>2, <2>2, <3>1 DEF Leftovers
  <2> QED
    BY <1>6, <2>1, <2>2
<1>8. ASSUME ParseStatus(data, tx) = "PARSING_OK"
      PROVE  ParsedIsReceived'
  <2>1. Len(data) = 2 /\ data[2] \in Scripts
    BY <1>2, <1>8, ParsedShape
  <2>2. /\ Agree(tx', MatchScript(data[2], tx))
        /\ tx'.head = SubSeq(data, 1, 1) /\ tx'.script = data[2]
    BY <1>1, <1>2, <1>3, <1>8, ParseFinds
  <2>3. Agree(tx', Finding(data[2]))
    BY <1>5, <2>1, <2>2 DEF Agree
  <2> QED
    BY <1>2, <2>1, <2>2, <2>3 DEF ParsedIsReceived
<1> QED
  BY <1>2, <1>7, <1>8

\* A review that opens shows the transaction just parsed.
LEMMA OpensLive ==
    ASSUME Opens, tx' \in Transaction
    PROVE  Live' /\ ReviewAllowed(tx)'
<1>1. /\ flow' = Items(tx', storage)
      /\ gtx' = [f \in Texts |-> IF f \in Written(tx') THEN TextOf(f, tx', magic) ELSE gtx[f]]
      /\ magic' = magic /\ storage' = storage
  BY DEF Opens, StartReview, preferences
<1>2. \A f \in Items(tx', storage) \cap Texts : gtx'[f] = TextOf(f, tx', magic)
  BY <1>1, ItemsAreWritten
<1>3. Shown' = ContentOf(tx', magic, storage)
  BY <1>1, <1>2 DEF Shown, ContentOf
<1>4. ReviewAllowed(tx)'
  BY <1>1 DEF Opens, ReviewAllowed
<1>5. ContentOf(tx, magic, storage)' = ContentOf(tx', magic, storage)
  BY <1>1
<1> QED
  BY <1>3, <1>4, <1>5 DEF Live, Opens

\* No command and no answer parts what is shown from what would be signed.
LEMMA ReviewNext == ReviewInv /\ [Next]_vars => ReviewInv'
<1> SUFFICES ASSUME ReviewInv, [Next]_vars PROVE ReviewInv'
  OBVIOUS
<1>a. TypeInv'
  BY TypeNext DEF ReviewInv
<1>1. CASE UNCHANGED vars
  <2>1. UNCHANGED << state, magic, raw, tx, hash, gtx, flow, screen, storage >>
    BY <1>1 DEF vars, context, display, preferences
  <2>2. Shown' = Shown
    BY <2>1 DEF Shown
  <2>3. Live => Live'
    BY <2>1, <2>2 DEF Live
  <2>4. /\ ParsedIsReceived => ParsedIsReceived'
        /\ ReviewAllowed(tx) => ReviewAllowed(tx)'
        /\ Readable(raw) => Readable(raw)'
        /\ Leftovers => Leftovers'
        /\ Whole' => Whole
    BY <2>1 DEF ParsedIsReceived, ReviewAllowed, Readable, Leftovers, Whole
  <2> QED
    BY <1>a, <2>1, <2>3, <2>4 DEF ReviewInv
<1>2. CASE StartsOver
  <2>1. Agree(tx', EmptyTx)
    BY <1>2 DEF StartsOver, Agree
  <2> QED
    BY <1>2, <1>a, <2>1 DEF StartsOver, ReviewInv, Leftovers
<1>b. raw \in Seq(Pieces) /\ \A x : x \in Seq(Sent) => x \in Seq(Pieces)
  BY DEF ReviewInv, TypeInv, TypeOK, Pieces
<1>3. ASSUME NEW chunk \in Seq(Sent), Appends(chunk)
      PROVE  ReviewInv'
  <2>1. chunk \in Seq(Pieces)
    BY <1>b
  <2>2. Len(raw) >= 2 => Len(raw') >= 2 /\ raw'[2] = raw[2]
    BY <1>3, <1>b, <2>1, AppendKeeps DEF Appends
  <2>3. tx' = tx /\ screen' # "review"
    BY <1>3 DEF Appends, Quiet
  <2>4. Whole' => Whole
    BY <1>3, <1>b, <2>1, AppendWhole DEF Appends
  <2> QED
    BY <1>a, <2>2, <2>3, <2>4 DEF ReviewInv, Leftovers
<1>4. ASSUME NEW chunk \in Seq(Sent), Parses(chunk), Quiet \/ Opens
      PROVE  ReviewInv'
  <2>a. chunk \in Seq(Pieces)
    BY <1>b
  <2>1. Whole' => Leftovers'
    BY <1>4, <2>a, ParsesFinds DEF ReviewInv
  <2>2. Opens /\ Whole' => ParsedIsReceived'
    BY <1>4, <2>a, ParsesFinds DEF ReviewInv, Opens
  <2>3. Opens => Live' /\ ReviewAllowed(tx)'
    BY <1>a, OpensLive DEF TypeInv, TypeOK
  <2>4. Opens => Readable(raw)'
    BY ParsedReads DEF Opens, Readable
  <2>5. Quiet => screen' # "review"
    BY DEF Quiet
  <2> QED
    BY <1>4, <1>a, <2>1, <2>2, <2>3, <2>4, <2>5 DEF ReviewInv
<1>5. ASSUME NEW ok \in BOOLEAN, NEW n \in HashReadings, Approve(ok, n)
      PROVE  ReviewInv'
  <2>1. raw # << >> /\ magic \in Word /\ n \in Nat
    BY <1>5, BuildAssumption DEF Approve, ReviewInv, TypeInv, TypeOK
  <2>2. raw' # << >> /\ raw'[1] \in Fronts
    BY <1>5, <1>b, <2>1, SignedPieces DEF Approve
  <2>3. screen' # "review"
    BY <1>5 DEF Approve, After
  <2> QED
    BY <1>a, <2>2, <2>3 DEF ReviewInv, Whole
<1>6. CASE Idles
  <2>1. screen' # "review" /\ (Leftovers => Leftovers') /\ (Whole' => Whole)
    BY <1>6 DEF Idles, Quiet, Leftovers, Whole
  <2> QED
    BY <1>a, <2>1 DEF ReviewInv
<1>7. TypeInv
  BY DEF ReviewInv
<1> QED
  BY <1>1, <1>2, <1>3, <1>4, <1>5, <1>6, <1>7, StepKinds

\* No review is up at the start.
LEMMA ReviewInit == Init => ReviewInv
<1> SUFFICES ASSUME Init PROVE ReviewInv
  OBVIOUS
<1>1. Agree(tx, EmptyTx) /\ screen # "review"
  BY DEF Init, Agree
<1> QED
  BY <1>1, TypeInit DEF ReviewInv, Leftovers

\* While the owner reviews a transaction, what is on the screen is what G_context
\* says, and what would be signed is the hash of the bytes received.
THEOREM LiveTheorem == Spec => []ReviewIsLive
<1>1. ReviewInv => ReviewIsLive
  BY DEF ReviewInv, ReviewIsLive, Live
<1> QED
  BY <1>1, ReviewInit, ReviewNext, PTL DEF Spec

\* What is shown is what the bytes in the buffer say when parsed on their own.
LEMMA ReviewShowsUpload ==
    ASSUME ReviewInv, screen = "review", raw[1] \in Heads
    PROVE  /\ Agree(tx, FreshTx(raw))
           /\ Shown = ContentOf(tx, magic, storage)
           /\ Shown = ContentOf(FreshTx(raw), magic, storage)
<1>1. raw[1] \notin Fronts
  BY PiecesAssumption DEF Sent
<1>2. raw \in Seq(Pieces) /\ ParsedIsReceived /\ Live
  BY <1>1 DEF ReviewInv, Whole, TypeInv, TypeOK
<1>3. /\ Agree(FreshTx(raw), Finding(raw[2]))
      /\ FreshTx(raw).head = SubSeq(raw, 1, 1) /\ FreshTx(raw).script = raw[2]
  BY <1>2, FreshFinds DEF ParsedIsReceived
<1>4. Agree(tx, FreshTx(raw))
  BY <1>2, <1>3 DEF ParsedIsReceived, Agree
<1>5. ContentOf(tx, magic, storage) = ContentOf(FreshTx(raw), magic, storage)
  BY <1>2, <1>3, <1>4, SameContent DEF ParsedIsReceived
<1> QED
  BY <1>2, <1>4, <1>5 DEF Live

\* Of an upload as the host sent it, what earlier attempts to parse left behind
\* does not show.
THEOREM UploadTheorem == Spec => []ReviewIsOfThisUpload
<1>1. ReviewInv => ReviewIsOfThisUpload
  <2> SUFFICES ASSUME ReviewInv, screen = "review", raw[1] \in Heads
               PROVE  ContentOf(tx, magic, storage) = ContentOf(FreshTx(raw), magic, storage)
    BY DEF ReviewIsOfThisUpload
  <2> QED
    BY ReviewShowsUpload
<1> QED
  BY <1>1, ReviewInit, ReviewNext, PTL DEF Spec

---------------------------------------------------------------------------
(* The signatures.                                                         *)

\* What a signature covers that is handed out.
LEMMA ApproveSigns ==
    ASSUME ReviewInv, NEW ok \in BOOLEAN, NEW n, Approve(ok, n), response'.sig # None
    PROVE  /\ screen = "review"
           /\ response'.sig = NewSignature
           /\ NewSignature.hash.data = raw
           /\ Len(NewSignature.hash.magics) = 1 /\ NewSignature.hash.magics[1] = magic
           /\ NewSignature.settings = storage
<1>1. screen = "review" /\ hash = [magics |-> << >>, data |-> raw]
  BY DEF Approve, ReviewInv, Live
<1>2. response'.sig = NewSignature
  BY RepliesCarry DEF Approve
<1>3. NewSignature.hash.magics = Append(<< >>, magic) /\ NewSignature.hash.data = raw
  BY <1>1 DEF NewSignature, HashAfterSigning
<1>4. NewSignature.settings = storage
  BY DEF NewSignature
<1> QED
  BY <1>1, <1>2, <1>3, <1>4

---------------------------------------------------------------------------
(* Consent.                                                                *)

\* A review that is up is a question, even when it is about nothing.
LEMMA ReviewAsks == screen = "review" => Asked # {}
  BY DEF Asked, Shown

\* Every step of the application is one the owner has agreed to, or none, or hands
\* out a signature over a front.
LEMMA ConsentNext ==
    ASSUME ReviewInv, [Next]_vars
    PROVE  [First!Next]_(First!vars)
<1>1. CASE UNCHANGED vars
  <2>1. UNCHANGED << gtx, flow, tx, storage, screen, response >>
    BY <1>1 DEF vars, context, display, preferences
  <2>2. Asked' = Asked
    BY <2>1 DEF Asked, Shown
  <2>3. GrantedFirst' = GrantedFirst
    BY <2>1 DEF GrantedFirst, Granted
  <2> QED
    BY <2>2, <2>3 DEF First!vars
<1>2. CASE StartsOver \/ Quiet
  <2>1. Asked' = {}
    BY <1>2 DEF StartsOver, Quiet, Asked
  <2>2. CASE response'.sig = None
    <3>1. GrantedFirst' = {}
      BY <2>2 DEF GrantedFirst, Granted
    <3> QED
      BY <2>1, <3>1 DEF First!Next, First!Withdraw
  <2>3. CASE screen # "review" /\ UNCHANGED response
    <3>1. GrantedFirst' = GrantedFirst
      BY <2>3 DEF GrantedFirst, Granted
    <3>2. Asked = {}
      BY <2>3 DEF Asked
    <3> QED
      BY <2>1, <3>1, <3>2 DEF First!vars
  <2> QED
    BY <1>2, <2>2, <2>3 DEF StartsOver, Quiet
<1>3. ASSUME screen # "review", Opens
      PROVE  First!Ask
  <2>1. screen' = "review" /\ response' = Awaited
    BY <1>3 DEF Opens, StartReview, ReviewAllowed
  <2>2. Asked = {}
    BY <1>3 DEF Asked
  <2>3. Asked' # {}
    BY <2>1 DEF Asked, Shown
  <2>4. GrantedFirst' = {}
    BY <2>1, RepliesCarry DEF GrantedFirst, Granted
  <2> QED
    BY <2>2, <2>3, <2>4 DEF First!Ask
<1>4. ASSUME NEW ok \in BOOLEAN, NEW n, Approve(ok, n)
      PROVE  First!Next
  <2>1. screen = "review" /\ screen' # "review"
    BY <1>4 DEF Approve, After
  <2>2. Asked' = {}
    BY <2>1 DEF Asked
  <2>3. CASE response'.sig = None
    <3>1. GrantedFirst' = {}
      BY <2>3 DEF GrantedFirst, Granted
    <3> QED
      BY <2>2, <3>1 DEF First!Next, First!Withdraw
  <2>4. CASE response'.sig # None /\ raw[1] \in Fronts
    <3>1. GrantedFirst' = {}
      BY <1>4, <2>4, ApproveSigns DEF GrantedFirst
    <3> QED
      BY <2>2, <3>1 DEF First!Next, First!Withdraw
  <2>5. CASE response'.sig # None /\ raw[1] \notin Fronts
    <3>1. GrantedFirst' = ContentOf(FreshTx(raw), magic, storage)
      BY <1>4, <2>5, ApproveSigns DEF GrantedFirst, Granted
    <3>2. raw[1] \in Heads
      BY <2>1, <2>5 DEF ReviewInv, Readable
    <3>3. Asked = ContentOf(FreshTx(raw), magic, storage)
      BY <2>1, <3>2, ReviewShowsUpload DEF Asked
    <3>4. Asked # {}
      BY <2>1, ReviewAsks
    <3> QED
      BY <2>2, <3>1, <3>3, <3>4 DEF First!Next, First!Grant
  <2> QED
    BY <2>3, <2>4, <2>5
<1> QED
  BY <1>1, <1>2, <1>3, <1>4, StepKinds DEF ReviewInv, Appends, Parses, Idles, First!Next

\* At the start nothing is asked and nothing is signed.
LEMMA NothingAtFirst == Init => Asked = {} /\ Granted = {} /\ GrantedFirst = {}
<1> SUFFICES ASSUME Init PROVE Asked = {} /\ Granted = {} /\ GrantedFirst = {}
  OBVIOUS
<1>1. screen # "review" /\ response.sig = None
  BY RepliesCarry DEF Init
<1> QED
  BY <1>1 DEF Asked, Granted, GrantedFirst

\* Whatever the magic is and whatever the hashes read as, a signature over an
\* upload as the host sent it covers what the owner was just shown, and each was
\* asked for: for these the application implements Consent.
THEOREM FirstConsentTheorem == Spec => FirstSignsWhatWasShown
<1>1. Init => First!Init
  BY NothingAtFirst DEF First!Init
<1>2. ReviewInv /\ [Next]_vars => [First!Next]_(First!vars)
  BY ConsentNext
<1>3. Spec => []ReviewInv
  BY ReviewInit, ReviewNext, PTL DEF Spec
<1> QED
  BY <1>1, <1>2, <1>3, PTL DEF Spec, FirstSignsWhatWasShown, First!Spec

---------------------------------------------------------------------------
(* Where a front reads as no header: the low byte of the magic is not 0,   *)
(* as that of MainNet and TestNet, or the hash does not fit.               *)

\* No transaction is reviewed for a network whose fronts may read as a header.
FrontsUnreadable == screen = "review" => Readings(magic) = {0}

\* After a signature the front of the buffer is the message that was signed, which
\* does not parse; while a review is up nothing has been signed.
SignedInv ==
    /\ ReviewInv
    /\ (raw # << >> /\ raw[1] \in Fronts) => raw[1].taken = 0
    /\ signatures <= 1
    /\ signatures # 0 => raw # << >> /\ raw[1] \in Fronts
    /\ screen = "review" => signatures = 0
    /\ response.sig # None => response.sig.hash.data[1] \notin Fronts

\* At the start nothing is signed.
LEMMA SignedInit == Init => SignedInv
<1> SUFFICES ASSUME Init PROVE SignedInv
  OBVIOUS
<1>1. signatures = 0 /\ raw = << >> /\ screen # "review" /\ response.sig = None
  BY RepliesCarry DEF Init
<1> QED
  BY <1>1, ReviewInit DEF SignedInv

\* A review is one of bytes as a host sent them.
LEMMA ReviewIsWhole == SignedInv /\ screen = "review" => raw[1] \in Heads
  BY DEF SignedInv, ReviewInv, TypeInv, Readable

\* What was signed does not parse again.
LEMMA SignedNext == SignedInv /\ FrontsUnreadable /\ [Next]_vars => SignedInv'
<1> SUFFICES ASSUME SignedInv, FrontsUnreadable, [Next]_vars PROVE SignedInv'
  OBVIOUS
<1>a. ReviewInv' /\ TypeInv
  BY ReviewNext DEF SignedInv, ReviewInv
<1>b. raw \in Seq(Pieces) /\ \A x : x \in Seq(Sent) => x \in Seq(Pieces)
  BY <1>a DEF TypeInv, TypeOK, Pieces
<1>1. CASE UNCHANGED vars
  <2>1. UNCHANGED << raw, signatures, screen, response >>
    BY <1>1 DEF vars, context, display
  <2> QED
    BY <1>a, <2>1 DEF SignedInv
<1>2. CASE StartsOver
  BY <1>2, <1>a DEF StartsOver, SignedInv
<1>3. ASSUME NEW chunk \in Seq(Sent), raw' = raw \o chunk
      PROVE  /\ raw # << >> => raw' # << >> /\ raw'[1] = raw[1]
             /\ raw' # << >> /\ raw'[1] \in Fronts => raw # << >>
  <2>1. chunk \in Seq(Pieces)
    BY <1>b
  <2>2. raw # << >> => raw' # << >> /\ raw'[1] = raw[1]
    BY <1>3, <1>b, <2>1, AppendWhole
  <2>3. CASE raw = << >>
    <3>1. raw' = chunk
      BY <1>3, <2>3
    <3>2. chunk # << >> => chunk[1] \in Sent
      OBVIOUS
    <3> QED
      BY <2>3, <3>1, <3>2, PiecesAssumption
  <2> QED
    BY <2>2, <2>3
<1>4. ASSUME NEW chunk \in Seq(Sent), Appends(chunk)
      PROVE  SignedInv'
  <2>1. raw' = raw \o chunk /\ UNCHANGED signatures /\ screen' # "review"
    BY <1>4 DEF Appends, Quiet
  <2>2. response'.sig = None \/ UNCHANGED response
    BY <1>4 DEF Appends, Quiet
  <2> QED
    BY <1>3, <1>a, <2>1, <2>2 DEF SignedInv
<1>5. ASSUME NEW chunk \in Seq(Sent), Parses(chunk), Quiet \/ Opens
      PROVE  SignedInv'
  <2>1. raw' = raw \o chunk /\ UNCHANGED signatures
    BY <1>5 DEF Parses
  <2>2. /\ signatures # 0 => raw' # << >> /\ raw'[1] \in Fronts
        /\ (raw' # << >> /\ raw'[1] \in Fronts) => raw'[1].taken = 0
    BY <1>3, <2>1 DEF SignedInv
  <2>3. CASE Quiet
    <3>1. screen' # "review" /\ (response'.sig = None \/ UNCHANGED response)
      BY <2>3 DEF Quiet
    <3> QED
      BY <1>a, <2>1, <2>2, <3>1 DEF SignedInv
  <2>4. CASE Opens
    <3>1. response'.sig = None /\ screen' = "review"
      BY <2>4, RepliesCarry DEF Opens, StartReview
    <3>2. raw' # << >> /\ Readable(raw')
      BY <1>a, <3>1 DEF ReviewInv, TypeInv, Readable
    <3>3. raw'[1] \notin Fronts
      BY <2>2, <3>2, PiecesAssumption DEF Readable, Sent
    <3>4. signatures = 0
      BY <2>2, <3>3
    <3> QED
      BY <1>a, <2>1, <2>2, <3>1, <3>4 DEF SignedInv
  <2> QED
    BY <1>5, <2>3, <2>4
<1>6. ASSUME NEW ok \in BOOLEAN, NEW n \in HashReadings, Approve(ok, n)
      PROVE  SignedInv'
  <2>1. screen = "review" /\ screen' # "review" /\ n = 0
    BY <1>6 DEF Approve, After, FrontsUnreadable
  <2>2. raw # << >> /\ magic \in Word /\ raw[1] \in Heads
    BY <1>a, <2>1, ReviewIsWhole DEF TypeInv, TypeOK
  <2>3. raw' # << >> /\ raw'[1] = Front(magic, n, raw[1]) /\ raw'[1] \in Fronts
    BY <1>6, <1>b, <2>1, <2>2, SignedPieces DEF Approve
  <2>4. raw'[1].taken = 0
    BY <2>1, <2>3 DEF Front
  <2>5. signatures' <= 1
    BY <1>6, <2>1 DEF SignedInv, Approve
  <2>6. response'.sig # None => response'.sig.hash.data[1] \notin Fronts
    BY <1>6, <2>2, ApproveSigns, PiecesAssumption DEF SignedInv, Sent
  <2> QED
    BY <1>a, <2>1, <2>3, <2>4, <2>5, <2>6 DEF SignedInv
<1>7. CASE Idles
  BY <1>7, <1>a DEF Idles, Quiet, SignedInv
<1> QED
  BY <1>a, <1>1, <1>2, <1>4, <1>5, <1>6, <1>7, StepKinds

\* For networks whose fronts read as no header, an upload is signed once at most,
\* whatever the host appends to it afterwards.
THEOREM OneSignatureTheorem == Spec /\ []FrontsUnreadable => []OneSignaturePerUpload
<1>1. SignedInv => OneSignaturePerUpload
  BY DEF SignedInv, OneSignaturePerUpload
<1> QED
  BY <1>1, SignedInit, SignedNext, PTL DEF Spec

\* For these networks an arbitrary script is only signed while the settings allow
\* it, although the test is made when the review opens and the signature when it
\* is left.
THEOREM PermissionTheorem == Spec /\ []FrontsUnreadable => ScriptsNeedPermission
<1> DEFINE A == (response'.sig # None /\ signatures' # signatures)
                  => Recognised(FreshTx(response'.sig.hash.data)) \/ storage["scriptsAllowed"]
<1>1. SignedInv /\ [Next]_vars => [A]_vars
  <2> SUFFICES ASSUME SignedInv, [Next]_vars, response'.sig # None, signatures' # signatures
               PROVE  Recognised(FreshTx(response'.sig.hash.data)) \/ storage["scriptsAllowed"]
    OBVIOUS
  <2>a. ReviewInv
    BY DEF SignedInv
  <2>1. PICK ok \in BOOLEAN, n \in HashReadings : Approve(ok, n)
    <3>1. \/ signatures' = signatures
          \/ StartsOver
          \/ \E ok \in BOOLEAN, n \in HashReadings : Approve(ok, n)
      BY <2>a, StepKinds DEF ReviewInv, vars, Appends, Parses, Idles
    <3> QED
      BY <3>1 DEF StartsOver
  <2>2. screen = "review" /\ response'.sig.hash.data = raw
    BY <2>a, <2>1, ApproveSigns
  <2>3. Recognised(tx) = Recognised(FreshTx(raw))
    BY <2>a, <2>2, ReviewIsWhole, ReviewShowsUpload DEF Agree, Recognised
  <2>4. Recognised(tx) \/ storage["scriptsAllowed"]
    BY <2>a, <2>2 DEF ReviewInv, ReviewAllowed
  <2> QED
    BY <2>2, <2>3, <2>4
<1> QED
  BY <1>1, SignedInit, SignedNext, PTL DEF Spec, ScriptsNeedPermission

\* For these networks the application signs what the owner was just shown, and
\* what the owner agreed to is signed once: it implements Consent.
THEOREM ConsentTheorem == Spec /\ []FrontsUnreadable => SignsOnlyWhatWasShown
<1>1. Init => C!Init
  BY NothingAtFirst DEF C!Init
<1>2. SignedInv /\ SignedInv' /\ [Next]_vars => [C!Next]_(C!vars)
  <2> SUFFICES ASSUME SignedInv, SignedInv', [Next]_vars PROVE [C!Next]_(C!vars)
    OBVIOUS
  <2>1. [First!Next]_(First!vars)
    BY ConsentNext DEF SignedInv
  <2>2. GrantedFirst = Granted /\ GrantedFirst' = Granted'
    BY DEF SignedInv, GrantedFirst
  <2> QED
    BY <2>1, <2>2
    DEF First!Next, First!Ask, First!Grant, First!Withdraw, First!vars,
        C!Next, C!Ask, C!Grant, C!Withdraw, C!vars
<1> QED
  BY <1>1, <1>2, SignedInit, SignedNext, PTL DEF Spec, SignsOnlyWhatWasShown, C!Spec

---------------------------------------------------------------------------
(* The address.                                                            *)

\* While an address is on the screen, it is that of the key in G_context.
AddressInv ==
    /\ AskingIffAwaited
    /\ screen = "address" => gAddress = pubkey /\ reqType = "CONFIRM_ADDRESS"

\* No handler touches the key while its address is on the screen.
LEMMA AddressNext == AddressInv /\ [Next]_vars => AddressInv'
<1> SUFFICES ASSUME AddressInv, [Next]_vars PROVE AddressInv'
  OBVIOUS
<1>a. AskingIffAwaited'
  BY AskingNext DEF AddressInv
<1>b. HostMaySend => screen # "address"
  BY DEF AddressInv, AskingIffAwaited, HostMaySend, Dialogs
<1>1. ASSUME NEW c \in Commands, NEW derived \in BOOLEAN, GetPublicKey(c, derived)
      PROVE  AddressInv'
  BY <1>1, <1>a, <1>b DEF GetPublicKey, NewRequest, ShowAddress, display, AddressInv
<1>2. ASSUME NEW c \in Commands, ReceivePath(c) \/ ReceiveMagic(c) \/ ReceiveMore(c)
      PROVE  screen' # "address"
  BY <1>2, <1>b DEF ReceivePath, ReceiveMagic, ReceiveMore, AnswerOnly, display
<1>3. ASSUME NEW c \in Commands, ReceiveLast(c)
      PROVE  screen' # "address"
  <2>1. ASSUME NEW t, StartReview(t)
        PROVE  screen' # "address"
    BY <2>1 DEF StartReview
  <2>2. UNCHANGED display => screen' # "address"
    BY <1>3, <1>b DEF ReceiveLast, display
  <2> QED
    BY <1>3, <2>1, <2>2 DEF ReceiveLast, AnswerOnly
<1>4. CASE MalformedCommand \/ RefusedCommand \/ GetNameOrVersion
  BY <1>4, <1>a, <1>b
  DEF MalformedCommand, RefusedCommand, GetNameOrVersion, AnswerOnly, display, AddressInv
<1>5. OwnerAnswers => screen' # "address"
  BY DEF OwnerAnswers, Approve, Reject, LeaveNoScripts, Refuse, ConfirmAddress, RejectAddress, After
<1>6. OwnerBrowses => screen' # "address"
  BY DEF OwnerBrowses, DismissStatus, OpenSettings, CloseSettings, GoTo, SwitchSetting, display
<1>7. Restart => screen' # "address"
  BY DEF Restart
<1>8. CASE UNCHANGED vars
  BY <1>8, <1>a DEF vars, context, display, AddressInv
<1> QED
  BY <1>a, <1>1, <1>2, <1>3, <1>4, <1>5, <1>6, <1>7, <1>8 DEF Next, HostSends, AddressInv

\* The key that goes out when an address is confirmed is the key it was made of.
THEOREM KeyTheorem == Spec => KeySentIsKeyShown
<1> DEFINE A == (screen = "address" /\ response'.key # None)
                  => response'.key = << gAddress >> /\ reqType = "CONFIRM_ADDRESS"
<1>1. Init => AddressInv
  BY RepliesAreReplies DEF Init, AskingIffAwaited, AddressInv, Dialogs
<1>2. AddressInv /\ [Next]_vars => [A]_vars
  <2> SUFFICES ASSUME AddressInv, Next, screen = "address", response'.key # None
               PROVE  response'.key = << gAddress >> /\ reqType = "CONFIRM_ADDRESS"
    OBVIOUS
  <2>1. response = Awaited
    BY DEF AddressInv, AskingIffAwaited, Dialogs
  <2>2. ~HostSends
    BY <2>1
    DEF HostSends, MalformedCommand, RefusedCommand, GetNameOrVersion, GetPublicKey,
        ReceivePath, ReceiveMagic, ReceiveMore, ReceiveLast, HostMaySend
  <2>3. ~OwnerBrowses
    BY DEF OwnerBrowses, DismissStatus, OpenSettings, CloseSettings, SwitchSetting, Statuses
  <2>4. ~Restart /\ ~RejectAddress
    <3>1. \A sw : response' # Reply(sw)
      BY RepliesCarry
    <3> QED
      BY <3>1 DEF Restart, RejectAddress
  <2>5. ConfirmAddress
    BY <2>2, <2>3, <2>4 DEF Next, OwnerAnswers, Approve, Reject, LeaveNoScripts
  <2>6. response'.key = << pubkey >>
    BY <2>5 DEF ConfirmAddress, KeyReply
  <2> QED
    BY <2>6 DEF AddressInv
<1> QED
  BY <1>1, <1>2, AddressNext, PTL DEF Spec, KeySentIsKeyShown
=============================================================================
