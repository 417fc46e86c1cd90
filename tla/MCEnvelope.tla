----------------------------- MODULE MCEnvelope -----------------------------
(***************************************************************************)
(* Wallets of both kinds and file types, on both networks, with padding    *)
(* parameters on either side of what is accepted and draws around the      *)
(* largest additional padding.  The lengths are measured, of JSON with     *)
(* random account keys compressed with zlib at its best, and its 16 bytes  *)
(* of authentication: a multisig of 10 cosigners still fits into 1200.     *)
(*                                                                         *)
(* Credentials differ in one thing at a time, and in what tells keyfiles   *)
(* from passwords: one is a part of another, or moves into it.             *)
(***************************************************************************)
EXTENDS Envelope, TLC

MCCiphertextLength ==
    "standard" :> (0 :> 590 @@ 2 :> 443 @@ 10 :> 1194 @@ 11 :> 1287 @@ 15 :> 1660)
 @@ "compact" :> (0 :> 48 @@ 2 :> 330 @@ 10 :> 1550 @@ 11 :> 1700 @@ 15 :> 2310)

Parameters ==
    {[min |-> DEFAULT_MIN_ADDITIONAL_PADDING, max |-> DEFAULT_MAX_ADDITIONAL_PADDING],
     [min |-> 5, max |-> 5], [min |-> 6, max |-> 5],
     [min |-> 0, max |-> MAX_ADDITIONAL_PADDING + 1]}

Creds(password, keyfiles, difficulty) ==
    [password |-> password, keyfiles |-> keyfiles, difficulty |-> difficulty]
Plain == Creds(<< 1, 2 >>, << >>, "Normal")
Files == Creds(<< 1 >>, << << << 1, 2 >> >>, << << 2 >>, << 3, 1 >> >> >>, "Easy")
Empty == Creds(<< 1 >>, << << >> >>, "Easy")
Sealing == {Plain, Files, Empty}

\* Every order, in one directory or each on its own; one missing, one twice, one
\* more; characters that move from a keyfile to the password and back.
Arguments == {<< << << 1, 2 >> >>, << << 2 >>, << 3, 1 >> >> >>,
              << << << 3, 1 >>, << 2 >>, << 1, 2 >> >> >>,
              << << << 2 >> >>, << << 3, 1 >> >>, << << 1, 2 >> >>, << >> >>,
              << << << 2 >>, << 3, 1 >> >> >>,
              << << << 1, 2 >>, << 1, 2 >>, << 2 >>, << 3, 1 >> >> >>,
              << << << 1, 2 >>, << 1, 2 >>, << 2 >> >> >>,
              << << << 1, 2 >>, << 2 >>, << 3 >> >> >>}
MCGiven ==
    Sealing
    \cup {Creds(password, << >>, difficulty) :
            password \in {<< 1 >>, << 1, 2 >>, << 2, 1 >>}, difficulty \in {"Easy", "Normal"}}
    \cup {Creds(password, arguments, "Easy") :
            password \in {<< 1 >>, << 1, 1 >>}, arguments \in Arguments}
    \cup {Creds(<< 1 >>, Files.keyfiles, "Hard"), Creds(<< 1, 2 >>, << << << >> >> >>, "Normal"),
          Creds(<< 1, 2 >>, << << >>, << >> >>, "Normal")}

MCRequests ==
    {[total |-> total, type |-> type, network |-> network,
      disable_all_padding |-> bare, min |-> p.min, max |-> p.max, creds |-> creds] :
        total \in {0, 2, 10, 11, 15}, type \in {"standard", "compact"},
        network \in Network, bare \in BOOLEAN, p \in Parameters, creds \in Sealing}

MCSalt == {<< 1 >>, << 2, 1 >>}

MCCut == {0, 1, 443, 589, 590, 1199, 1200, 1205}
=============================================================================
