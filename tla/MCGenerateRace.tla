--------------------------- MODULE MCGenerateRace ---------------------------
(***************************************************************************)
(* Two generate invocations over names that collide in every way two names *)
(* can: the same wallet, the same derived export of two wallets, the       *)
(* export of one that is the wallet of the other, and a retry of the same  *)
(* command line after a crash.                                             *)
(***************************************************************************)
EXTENDS WalletCommands, TLC

CONSTANTS p1, p2, right, s1, s2, mainnet, pw, typo

File(stem, ext) == [stem |-> stem, ext |-> ext]
W == File(<<"w">>, "")
WEnc == File(<<"w">>, "enc")
WPub == File(<<"w", "_pub">>, "json")

Generate(sig, out, pub, duress, secret) ==
    [cmd |-> "generate", sig |-> sig, in |-> None, out |-> out, pub |-> pub,
     nd |-> None, duress |-> duress, seedPw |-> IF duress THEN pw ELSE None,
     creds |-> right, newCreds |-> right, secret |-> secret, net |-> mainnet]

MCRequests ==
    p1 :> {Generate("single", W, Default, TRUE, s1),
           Generate("single", W, None, FALSE, s1)}
 @@ p2 :> {Generate("single", W, Default, TRUE, s2),
           Generate("single", WEnc, Default, TRUE, s2),
           Generate("single", WPub, W, TRUE, s2),
           Generate("single", WEnc, None, TRUE, s2),
           Generate("multi", WEnc, WPub, FALSE, s2)}

=============================================================================
