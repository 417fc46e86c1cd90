-------------------------- MODULE MCReencodeExport --------------------------
(***************************************************************************)
(* A wallet is generated while a second invocation reencodes it and a third*)
(* exports it, or what the second one wrote: before it is there, half      *)
(* written, whole or damaged, with the right or the wrong credentials, the *)
(* multisig ones from the public export too.                               *)
(***************************************************************************)
EXTENDS WalletCommands, TLC

CONSTANTS generator, reencoder, exporter, old, new, s, other, mainnet, testnet, pw

File(stem, ext) == [stem |-> stem, ext |-> ext]
W == File(<<"w">>, "")
WPub == File(<<"w", "_pub">>, "json")
WReencoded == File(<<"w", "_reencoded">>, "")
Hidden == File(<<"hidden">>, "json")

Blank(cmd, sig, creds) ==
    [cmd |-> cmd, sig |-> sig, in |-> None, out |-> None, pub |-> None,
     nd |-> None, duress |-> FALSE, seedPw |-> None, creds |-> creds,
     newCreds |-> new, secret |-> other, net |-> mainnet]

Generate(sig) == [Blank("generate", sig, old) EXCEPT !.out = W, !.pub = Default,
                                                     !.secret = s]

Reencode(sig, in, net) ==
    [Blank("reencode", sig, old) EXCEPT !.in = in, !.out = Default, !.net = net]

ExportPublic(sig, in, creds) ==
    [Blank("export", sig, creds) EXCEPT !.in = in, !.pub = Default]

ExportHidden(in, nd, creds) ==
    [ExportPublic("single", in, creds) EXCEPT
        !.nd = nd, !.duress = TRUE, !.seedPw = pw]

MCRequests ==
    generator :> {Generate("single"), Generate("multi")}
 @@ reencoder :> {Reencode("single", W, testnet), Reencode("multi", WPub, mainnet)}
 @@ exporter :> {ExportPublic("single", W, old), ExportHidden(W, Hidden, new),
                 ExportHidden(WReencoded, None, new),
                 [ExportHidden(WReencoded, WPub, new) EXCEPT
                     !.duress = FALSE, !.seedPw = None],
                 ExportPublic("multi", WPub, old),
                 ExportPublic("multi", WReencoded, new)}
=============================================================================
