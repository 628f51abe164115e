------------------------------ MODULE MCUpload ------------------------------
(***************************************************************************)
(* Upload for TLC: hashes of one byte, keys and long integers of two, and  *)
(* transactions that take every branch of the parser and of the matchers.  *)
(***************************************************************************)
EXTENDS Upload

MCIntWidths    == << 1, 2 >>
MCTransferCall == << 20 >>
MCVoteCall     == << 18 >>
MCNeoHash      == << 245 >>
MCGasHash      == << 207 >>
MCSysCall      == << 65 >>

\* A front is as long as the header and the number of signers: one that is refused
\* by its version, and one that reads as the start of a transaction of two signers.
MCSigningFronts == { << 78, 1, 2, 3, 4, 5, 6, 7 >>, << 0, 9, 1, 0, 2, 0, 3, 2 >> }

MCHeader ==
    [version |-> << 0 >>, nonce |-> << 7 >>, system_fee |-> << 255, 0 >>,
     network_fee |-> << 0, 127 >>, valid_until_block |-> << 200 >>]

MCSigner(account, scope, contracts, groups) ==
    [account |-> << account >>, scope |-> scope, contracts |-> contracts, groups |-> groups,
     widths |-> [contracts |-> 1, groups |-> 1]]
Entry       == MCSigner(1, 1, << >>, << >>)
Contracts2  == MCSigner(2, 16, << << 5 >>, << 6 >> >>, << >>)
Both        == MCSigner(3, 49, << << 7 >>, << 8 >> >>, << << 2, 4 >> >>)
Empty       == MCSigner(4, 48, << >>, << >>)
Everywhere  == MCSigner(2, 128, << >>, << >>)
Full        == MCSigner(5, 48, << << 5 >>, << 6 >> >>, << << 3, 4 >> >>)
Overfull    == MCSigner(6, 48, << << 5 >>, << 6 >>, << 7 >> >>, << << 3, 4 >> >>)

Transfer(push, asset) ==
    [kind |-> "transfer", push |-> push, dst |-> << 30 >>, src |-> << 31 >>, asset |-> asset]
Vote(key) == [kind |-> "vote", key |-> key, voter |-> << 32 >>]
Other(code) == [kind |-> "other", code |-> code]

MCContent(signers, attributes, does) ==
    [header |-> MCHeader, signers |-> signers, attributes |-> attributes, does |-> does,
     widths |-> [signers |-> 1, attributes |-> 1, script |-> 1]]

\* One transaction per kind of script, and scripts that stop half way.
ScriptContents ==
    { MCContent(<< Entry >>, 0, does) : does \in
        { Transfer(<< 17 >>, "NEO"), Transfer(<< 0, 5 >>, "GAS"), Transfer(<< 1, 0, 200 >>, "GAS"),
          Vote(<< 2, 9 >>), Vote(<< >>), Other(<< 64 >>), Other(<< 0 >>), Other(<< PUSHNULL >>),
          Other(ScriptOf(Transfer(<< 32 >>, "NEO")) \o << 64 >>),
          Other(ScriptOf(Vote(<< 3, 9 >>)) \o << 64 >>), Other(ScriptOf(Vote(<< 4, 9 >>))),
          Other(<< PUSHNULL, 2, 0, 0, 0, 0 >>) } }

SignerContents ==
    { MCContent(signers, 0, Other(<< 64 >>)) : signers \in
        { << Contracts2 >>, << Empty, Both >>, << Contracts2, Empty >>,
          << Everywhere >>, << [Full EXCEPT !.account = << 6 >>], Full >> } }

\* Counts in more bytes than they need.
WideContents ==
    { [MCContent(<< [Both EXCEPT !.widths = [contracts |-> 5, groups |-> 3]], Entry >>, 0, Other(<< 64 >>))
          EXCEPT !.widths = [signers |-> 1, attributes |-> 3, script |-> 5]],
      [MCContent(<< Entry >>, 0, Other(<< 64 >>))
          EXCEPT !.widths = [signers |-> 9, attributes |-> 5, script |-> 3]] }

AttributeContents ==
    { MCContent(<< Both, Contracts2 >>, 1, Transfer(<< 16 >>, "GAS")) }

Refused ==
    { [MCContent(<< Entry >>, 0, Other(<< 64 >>)) EXCEPT !.header[f] = << 0, 128 >>]
        : f \in {"system_fee", "network_fee"} } \cup
    { [MCContent(<< Entry >>, 0, Other(<< 64 >>)) EXCEPT !.header.version = << 1 >>] } \cup
    { MCContent(signers, 0, Other(<< 64 >>)) : signers \in
        { << >>, << Entry, Contracts2, Empty >>, << Contracts2, Everywhere >>, << Overfull, Full >>,
          << MCSigner(1, 129, << >>, << >>) >>,
          << MCSigner(1, 16, << << 5 >>, << 6 >>, << 7 >> >>, << >>) >>,
          << MCSigner(1, 32, << >>, << << 2, 4 >>, << 2, 5 >> >>) >> } } \cup
    { MCContent(<< Entry >>, 2, Other(<< 64 >>)), MCContent(<< Entry >>, 3, Other(<< 64 >>)),
      MCContent(<< Entry >>, 0, Other(<< >>)) }

MCContents == ScriptContents \cup SignerContents \cup WideContents \cup AttributeContents \cup Refused

Start == << 0, 7, 255, 0, 0, 127, 200 >>
Rest  == << 1, 1, 0, 1, 64 >>

\* Counts of 257 and more, an attribute of another type, a byte too many, also
\* behind an upload that is as long as the limit; and two bytes behind a transaction
\* that make another one of it when the second front is in front of them.
MCOthers ==
    { Start \o << 253, 1, 1 >> \o Rest, Start \o << 1, 1, 16, 254, 1, 0, 1, 0 >> \o Rest,
      Start \o << 1, 1, 1, 1, 17, 1, 64 >>, Start \o << 1 >> \o Rest \o << 0 >>,
      Start \o << 1, 1, 1, 0, 255, 1, 0, 0, 0, 0, 0, 0, 1, 64 >>,
      Encode(MCContent(<< Entry >>, 0, Vote(<< >>))) \o << 0 >>,
      Encode(MCContent(<< Entry >>, 0, Other(<< 0 >>))) \o << 1, 64 >> }
    \cup {Encode(c) \o << 0 >> : c \in AttributeContents}

\* An amount below zero in one byte.
MCNegative == { MCContent(<< Entry >>, 0, Transfer(<< 0, 200 >>, "GAS")) }

\* A slot that is not on the screen is written before it is read again.
MCView ==
    << raw, tx, parser, title, static_items, dyn_items, page, OnScreen, history >>
=============================================================================
