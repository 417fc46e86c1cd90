----------------------------- MODULE ColdStore ------------------------------
(***************************************************************************)
(* What the wallet commands promise, whoever runs them, in whatever order  *)
(* and however they are cut short: a store of encrypted wallets that only  *)
(* grows, and public exports that are only ever made of a wallet the store *)
(* already holds under some credentials, the decoy export before the       *)
(* hidden one, no name ever being used twice.                              *)
(***************************************************************************)
CONSTANTS
    Name,     (* names of files *)
    Creds,    (* what opens a wallet: password, keyfiles and difficulty *)
    Wallet,   (* what an encrypted wallet says *)
    SeedPw,   (* seed passwords of hidden wallets *)
    None

VARIABLES
    store,    (* the wallets kept: name, credentials, wallet *)
    public    (* the exports made: name, wallet, seed password or None *)

vars == <<store, public>>

Kept == [name : Name, creds : Creds, wallet : Wallet]
Export == [name : Name, wallet : Wallet, seedPw : SeedPw \cup {None}]

Unused(n) == \A e \in store \cup public : e.name # n

Init == store = {} /\ public = {}

Keep(n, c, w) ==
    /\ Unused(n)
    /\ store' = store \cup {[name |-> n, creds |-> c, wallet |-> w]}
    /\ UNCHANGED public

Publish(n, w, pw) ==
    /\ Unused(n)
    /\ \E k \in store : k.wallet = w
    /\ pw # None => \E e \in public : e.wallet = w /\ e.seedPw = None
    /\ public' = public \cup {[name |-> n, wallet |-> w, seedPw |-> pw]}
    /\ UNCHANGED store

Next ==
    \E n \in Name, w \in Wallet :
        \/ \E c \in Creds : Keep(n, c, w)
        \/ \E pw \in SeedPw \cup {None} : Publish(n, w, pw)

Spec == Init /\ [][Next]_vars

=============================================================================
