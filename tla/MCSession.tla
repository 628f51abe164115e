----------------------------- MODULE MCSession -----------------------------
(***************************************************************************)
(* Neo3Session for TLC: one command per way through the dispatcher and the *)
(* handlers, one script per outcome of the script matchers.                *)
(***************************************************************************)
EXTENDS Neo3Session

CONSTANTS
    h1, h2, hp,                            \* headers; hp has the attribute
    neo1, gas1, vote1, retract1, neoPlus1, other1,
    HeadsSent, ScriptsSent                 \* what this run uploads

MCKindOf ==
    [s \in ScriptsSent |->
        CASE s = neo1 -> "neo"       [] s = gas1 -> "gas"
          [] s = vote1 -> "vote"     [] s = retract1 -> "retract"
          [] s = neoPlus1 -> "neoPlus" [] OTHER -> "other"]

GoodPath == << Hardened(44), Hardened(888), Hardened(0), Plain(0), Plain(0) >>

\* One path per error of the BIP44 checks, one too short, and the boundaries.
Paths ==
    { GoodPath,
      << Hardened(44), Hardened(888), Hardened(0), Plain(0) >>,
      [GoodPath EXCEPT ![1] = Plain(44)],
      [GoodPath EXCEPT ![2] = Hardened(0)],
      [GoodPath EXCEPT ![3] = Plain(0)],
      [GoodPath EXCEPT ![3] = Hardened(17)],
      [GoodPath EXCEPT ![4] = Plain(2)],
      [GoodPath EXCEPT ![5] = Plain(5000)],
      [GoodPath EXCEPT ![3] = Hardened(16), ![4] = Plain(1), ![5] = Plain(4999)] }

\* Good paths and one refused half way.
FewPaths == { GoodPath, [GoodPath EXCEPT ![4] = Plain(2)] }

Mainnet == << NETWORK_MAINNET >>
Private == << Plain(42) >>
Zero    == << Plain(0) >>
Big     == << Hardened(256) >>

Cmd(ins, p1, p2, data) == [cla |-> CLA, ins |-> ins, p1 |-> p1, p2 |-> p2, data |-> data]

\* One command per status of the dispatcher, and the two without data.
Simple ==
    { [cla |-> 0, ins |-> GET_VERSION, p1 |-> 0, p2 |-> 0, data |-> None],
      Cmd(GET_VERSION, 0, 0, None), Cmd(GET_APP_NAME, 0, 0, None),
      Cmd(GET_VERSION, 0, 1, None), Cmd(3, 0, 0, None),
      Cmd(GET_PUBLIC_KEY, 1, 0, GoodPath), Cmd(GET_PUBLIC_KEY, 0, 0, None),
      Cmd(SIGN_TX, 0, P2_LAST, GoodPath), Cmd(SIGN_TX, 7, P2_MORE, << Junk >>),
      Cmd(SIGN_TX, 2, 1, << Junk >>), Cmd(SIGN_TX, 2, P2_LAST, None) }

KeyCommands(paths)    == {Cmd(GET_PUBLIC_KEY, 0, show, p) : show \in {0, 1}, p \in paths}
PathCommands(paths)   == {Cmd(SIGN_TX, P1_START, P2_MORE, p) : p \in paths}
MagicCommands(magics) == {Cmd(SIGN_TX, 1, P2_MORE, m) : m \in magics}
DataCommands(chunks)  ==
    {Cmd(SIGN_TX, 2, P2_MORE, d) : d \in chunks} \cup {Cmd(SIGN_TX, P1_MAX, P2_LAST, d) : d \in chunks}

\* Every path and every refusal of the dispatcher, one transaction.
WideCommands ==
    Simple \cup KeyCommands(FewPaths) \cup PathCommands(Paths)
        \cup MagicCommands({ << >>, Mainnet })
        \cup DataCommands({<< h1 >>} \cup {<< s >> : s \in ScriptsSent})

\* One path and one that is refused half way, two networks, and every order of
\* the chunks.
DeepCommands ==
    PathCommands(FewPaths) \cup MagicCommands({Mainnet, Private})
        \cup DataCommands({<< h >> : h \in HeadsSent} \cup {<< s >> : s \in ScriptsSent})

\* Two networks whose magics have their low byte zero, since the magic is 0 if
\* chunk 1 is left out, and requests for an address in between.
MixedCommands ==
    KeyCommands({GoodPath}) \cup PathCommands(FewPaths) \cup MagicCommands({Big})
        \cup DataCommands({<< h >> : h \in HeadsSent} \cup {<< s >> : s \in ScriptsSent})

\* One path, a magic that is missing or has its low byte zero, any upload.
UploadCommands ==
    PathCommands({GoodPath}) \cup MagicCommands({ << >>, Mainnet, Zero, Big })
        \cup DataCommands({<< h >> : h \in HeadsSent} \cup {<< s >> : s \in ScriptsSent})

\* The paths around the documented bound of the account, and some of the rest.
BoundaryCommands ==
    KeyCommands({GoodPath}) \cup MagicCommands({Mainnet})
        \cup PathCommands({ [GoodPath EXCEPT ![3] = Hardened(n)] : n \in 9 .. 11 })

\* Of a reply that has been sent only the signature matters to what follows; BAGL
\* fills the texts of the settings anew whenever it shows them.
MCView ==
    << context, display, storage, IF Ui = "NBGL" \/ screen = "settings" THEN switches ELSE None,
       response = Awaited, response.sig, signatures >>
=============================================================================
