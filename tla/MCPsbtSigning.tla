--------------------------- MODULE MCPsbtSigning ----------------------------
(***************************************************************************)
(* A payment from a multisig of a and b that somebody else's input takes   *)
(* part in, and a second one with a Schnorr input.  The first goes from a  *)
(* to b, and back to a who signed already; the hidden wallets of their     *)
(* mnemonics hold keys too.  Another user wants a's output name, and one   *)
(* who picked a's hidden wallet never types its password as he did before. *)
(***************************************************************************)
EXTENDS PsbtSigning, TLC

CONSTANTS pa, pb, pc2, pd, pe, pf, a, b, aHidden, bHidden, x, pay, mixed, broken

File(stem) == [stem |-> stem, ext |-> "psbt"]
Pay == File(<<"tx">>)
Signed == File(<<"tx", "_signed">>)
Twice == File(<<"tx", "_signed", "_signed">>)
Mine == File(<<"mine">>)
Mixed == File(<<"mixed">>)
Broken == File(<<"broken">>)
Hid == File(<<"hid">>)

Ecdsa(owners) == [origins |-> owners, algorithm |-> "ecdsa", utxo |-> TRUE]

MCInput ==
    pay :> (1 :> Ecdsa({a, b}) @@ 2 :> Ecdsa({x}))
 @@ mixed :> (1 :> Ecdsa({a, aHidden, bHidden})
              @@ 2 :> [Ecdsa({a, b}) EXCEPT !.algorithm = "schnorr"])
 @@ broken :> (1 :> Ecdsa({a, b})
               @@ 2 :> [origins |-> {a, b}, algorithm |-> "unknown", utxo |-> FALSE])
MCFee == [t \in Tx |-> TRUE]
MCOutputs == [t \in Tx |-> TRUE]

Draft(t, sigs) == [kind |-> "psbt", psbt |-> [tx |-> t, sigs |-> sigs], by |-> None]
Unsigned == [i \in In |-> {}]
MCDrafts ==
    Pay :> Draft(pay, [Unsigned EXCEPT ![2] = {x}])
 @@ Mixed :> Draft(mixed, Unsigned) @@ Broken :> Draft(broken, Unsigned)

Sign1(in, keys, approves) ==
    [in |-> in, out |-> Default, keys |-> keys, hidden |-> {}, real |-> FALSE,
     retyped |-> TRUE, again |-> FALSE, approves |-> approves]

\* One after the other; pd goes for the name of pa's file.
MCRequests ==
    pa :> Sign1(Pay, {a}, {pay})
 @@ pb :> [Sign1(Signed, {b}, {pay}) EXCEPT !.hidden = {bHidden}]
 @@ pc2 :> [Sign1(Twice, {a}, {pay}) EXCEPT !.again = TRUE]
 @@ pd :> [Sign1(Mixed, {b}, {mixed}) EXCEPT !.hidden = {bHidden}, !.real = TRUE,
                                             !.out = Signed]
 @@ pe :> [Sign1(Signed, {a}, {pay}) EXCEPT !.out = Mine]
 @@ pf :> [Sign1(Mixed, {a}, {mixed}) EXCEPT !.hidden = {aHidden}, !.real = TRUE,
                                             !.retyped = FALSE, !.out = Hid]

\* The same payment handed on as it should be, beside others who sign a
\* transaction they do not agree to and one that is broken.
MCHandOverRequests ==
    pa :> Sign1(Pay, {a}, {pay})
 @@ pb :> Sign1(Signed, {b}, {pay, mixed})
 @@ pc2 :> [Sign1(Mixed, {a}, {pay}) EXCEPT !.out = Mine]
 @@ pd :> [Sign1(Broken, {a, b}, Tx) EXCEPT !.out = Twice]
 @@ pe :> [Sign1(Signed, {a}, {pay}) EXCEPT !.out = Mine]
=============================================================================
