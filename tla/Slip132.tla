------------------------------ MODULE Slip132 -------------------------------
(***************************************************************************)
(* The version bytes that say what an extended key is for.  The tables of   *)
(* slip132.rs are written down where the code writes them down: each is a   *)
(* match of its own there, and nothing but care keeps them in agreement.    *)
(*                                                                         *)
(* An optional value is a set of at most one element.                       *)
(***************************************************************************)
EXTENDS Naturals, Sequences

NetworkKind == {"Main", "Test"}
KeyApplication == {"Hashed", "SegWit", "SegWitMultisig", "Nested", "NestedMultisig"}

VERSION_MAGIC ==
    [XPUB |-> << 4, 136, 178, 30 >>,  XPRV |-> << 4, 136, 173, 228 >>,
     YPUB |-> << 4, 157, 124, 178 >>, YPRV |-> << 4, 157, 120, 120 >>,
     ZPUB |-> << 4, 178, 71, 70 >>,   ZPRV |-> << 4, 178, 67, 12 >>,
     TPUB |-> << 4, 53, 135, 207 >>,  TPRV |-> << 4, 53, 131, 148 >>,
     UPUB |-> << 4, 74, 82, 98 >>,    UPRV |-> << 4, 74, 78, 40 >>,
     VPUB |-> << 4, 95, 28, 246 >>,   VPRV |-> << 4, 95, 24, 188 >>,
     YPUB_MULTISIG |-> << 2, 149, 180, 63 >>,  YPRV_MULTISIG |-> << 2, 149, 176, 5 >>,
     ZPUB_MULTISIG |-> << 2, 170, 126, 211 >>, ZPRV_MULTISIG |-> << 2, 170, 122, 153 >>,
     UPUB_MULTISIG |-> << 2, 66, 137, 239 >>,  UPRV_MULTISIG |-> << 2, 66, 133, 181 >>,
     VPUB_MULTISIG |-> << 2, 87, 84, 131 >>,   VPRV_MULTISIG |-> << 2, 87, 80, 72 >>]

Any(names) == {VERSION_MAGIC[n] : n \in names}

resolve(network, applicable_for, is_priv) ==
    LET main == [Hashed |-> << "XPUB", "XPRV" >>,
                 Nested |-> << "YPUB", "YPRV" >>,
                 SegWit |-> << "ZPUB", "ZPRV" >>,
                 NestedMultisig |-> << "YPUB_MULTISIG", "YPRV_MULTISIG" >>,
                 SegWitMultisig |-> << "ZPUB_MULTISIG", "ZPRV_MULTISIG" >>]
        test == [Hashed |-> << "TPUB", "TPRV" >>,
                 Nested |-> << "UPUB", "UPRV" >>,
                 SegWit |-> << "VPUB", "VPRV" >>,
                 NestedMultisig |-> << "UPUB_MULTISIG", "UPRV_MULTISIG" >>,
                 SegWitMultisig |-> << "VPUB_MULTISIG", "VPRV_MULTISIG" >>]
        table == IF network = "Main" THEN main ELSE test
    IN  VERSION_MAGIC[table[applicable_for][IF is_priv THEN 2 ELSE 1]]

is_pub(kv) ==
    IF kv \in Any({"XPUB", "YPUB", "ZPUB", "TPUB", "UPUB", "VPUB", "YPUB_MULTISIG",
                   "ZPUB_MULTISIG", "UPUB_MULTISIG", "VPUB_MULTISIG"}) THEN {TRUE}
    ELSE IF kv \in Any({"XPRV", "YPRV", "ZPRV", "TPRV", "UPRV", "VPRV", "YPRV_MULTISIG",
                        "ZPRV_MULTISIG", "UPRV_MULTISIG", "VPRV_MULTISIG"}) THEN {FALSE}
    ELSE {}

is_prv(kv) == {~v : v \in is_pub(kv)}

network_of(kv) ==
    IF kv \in Any({"XPRV", "XPUB", "YPRV", "YPUB", "ZPRV", "ZPUB", "YPRV_MULTISIG",
                   "YPUB_MULTISIG", "ZPRV_MULTISIG", "ZPUB_MULTISIG"}) THEN {"Main"}
    ELSE IF kv \in Any({"TPRV", "TPUB", "UPRV", "UPUB", "VPRV", "VPUB", "UPRV_MULTISIG",
                        "UPUB_MULTISIG", "VPRV_MULTISIG", "VPUB_MULTISIG"}) THEN {"Test"}
    ELSE {}

(* xpub and tpub are used for everything, so they tell nothing.             *)
ApplicationSingle(kv) ==
    IF kv \in Any({"YPUB", "YPRV", "UPUB", "UPRV"}) THEN {"Nested"}
    ELSE IF kv \in Any({"YPUB_MULTISIG", "YPRV_MULTISIG", "UPUB_MULTISIG", "UPRV_MULTISIG"})
         THEN {"Nested"}
    ELSE IF kv \in Any({"ZPUB", "ZPRV", "VPUB", "VPRV"}) THEN {"SegWit"}
    ELSE IF kv \in Any({"ZPUB_MULTISIG", "ZPRV_MULTISIG", "VPUB_MULTISIG", "VPRV_MULTISIG"})
         THEN {"SegWitMultisig"}
    ELSE {}
application(kv) ==
    IF kv \in Any({"YPUB", "YPRV", "UPUB", "UPRV"}) THEN {"Nested"}
    ELSE IF kv \in Any({"YPUB_MULTISIG", "YPRV_MULTISIG", "UPUB_MULTISIG", "UPRV_MULTISIG"})
         THEN {"NestedMultisig"}
    ELSE IF kv \in Any({"ZPUB", "ZPRV", "VPUB", "VPRV"}) THEN {"SegWit"}
    ELSE IF kv \in Any({"ZPUB_MULTISIG", "ZPRV_MULTISIG", "VPUB_MULTISIG", "VPRV_MULTISIG"})
         THEN {"SegWitMultisig"}
    ELSE {}

(* Of the children of a path only the hardened ones matter here.            *)
Hardened(i) == [hardened |-> TRUE, index |-> i]
Normal(i) == [hardened |-> FALSE, index |-> i]

(* A multisig path is only known with its account, and says its script.     *)
derivation_path(kv, account) ==
    LET purposes == CASE kv \in Any({"YPUB", "YPRV"}) -> {<< 49, 0 >>}
                      [] kv \in Any({"UPUB", "UPRV"}) -> {<< 49, 1 >>}
                      [] kv \in Any({"ZPUB", "ZPRV"}) -> {<< 84, 0 >>}
                      [] kv \in Any({"VPUB", "VPRV"}) -> {<< 84, 1 >>}
                      [] kv \in Any({"ZPUB_MULTISIG", "ZPRV_MULTISIG", "YPUB_MULTISIG",
                                     "YPRV_MULTISIG"}) /\ account # {} -> {<< 48, 0 >>}
                      [] kv \in Any({"UPUB_MULTISIG", "UPRV_MULTISIG", "VPUB_MULTISIG",
                                     "VPRV_MULTISIG"}) /\ account # {} -> {<< 48, 1 >>}
                      [] OTHER -> {}
        script == IF kv \in Any({"ZPUB_MULTISIG", "ZPRV_MULTISIG", "VPUB_MULTISIG", "VPRV_MULTISIG"})
                  THEN << Hardened(2) >>
                  ELSE IF kv \in Any({"YPUB_MULTISIG", "YPRV_MULTISIG", "UPUB_MULTISIG",
                                      "UPRV_MULTISIG"})
                       THEN << Hardened(1) >> ELSE << >>
        Base(p) == << Hardened(p[1]), Hardened(p[2]) >>
    IN  {Base(p) : p \in {q \in purposes : account = {}}}
            \cup {Base(pa[1]) \o << pa[2] >> \o script : pa \in purposes \X account}

to_derivation_path(app) ==
    CASE app = "Hashed" -> {<< Hardened(44) >>}
      [] app = "Nested" -> {<< Hardened(49) >>}
      [] app = "SegWit" -> {<< Hardened(84) >>}
      [] OTHER -> {}

from_derivation_path(path) ==
    LET standard == {app \in KeyApplication :
                        \E p \in to_derivation_path(app) : Len(path) > 0 /\ path[1] = p[1]}
        multisig == Len(path) >= 4 /\ path[1] = Hardened(48)
    IN  IF standard # {} THEN standard
        ELSE IF multisig /\ path[4] = Hardened(1) THEN {"NestedMultisig"}
        ELSE IF multisig /\ path[4] = Hardened(2) THEN {"SegWitMultisig"}
        ELSE {}

Publics == [XPRV |-> "XPUB", YPRV |-> "YPUB", ZPRV |-> "ZPUB", TPRV |-> "TPUB", UPRV |-> "UPUB",
            VPRV |-> "VPUB", YPRV_MULTISIG |-> "YPUB_MULTISIG", ZPRV_MULTISIG |-> "ZPUB_MULTISIG",
            UPRV_MULTISIG |-> "UPUB_MULTISIG", VPRV_MULTISIG |-> "VPUB_MULTISIG"]
Privates == [XPUB |-> "XPRV", YPUB |-> "YPRV", ZPUB |-> "ZPRV", TPUB |-> "TPRV", UPUB |-> "UPRV",
             VPUB |-> "VPRV", YPUB_MULTISIG |-> "YPRV_MULTISIG", ZPUB_MULTISIG |-> "ZPRV_MULTISIG",
             UPUB_MULTISIG |-> "UPRV_MULTISIG", VPUB_MULTISIG |-> "VPRV_MULTISIG"]

Mapped(kv, table) == {VERSION_MAGIC[table[n]] : n \in {m \in DOMAIN table : VERSION_MAGIC[m] = kv}}

make_pub(kv) == Mapped(kv, Publics) \cup ({kv} \cap Any(DOMAIN Privates))
make_prv(kv) == Mapped(kv, Privates) \cup ({kv} \cap Any(DOMAIN Publics))

(* An extended key is written as its version bytes and the rest of it.      *)
to_slip132_string(key, key_application, is_priv) ==
    [version |-> resolve(key.network, key_application, is_priv), body |-> key.body]

from_slip132_pub(s) ==
    LET main == {"XPUB", "YPUB", "ZPUB", "YPUB_MULTISIG", "ZPUB_MULTISIG"}
        test == {"TPUB", "UPUB", "VPUB", "UPUB_MULTISIG", "VPUB_MULTISIG"}
    IN  {[network |-> n, body |-> s.body] :
            n \in {k \in NetworkKind : s.version \in Any(IF k = "Main" THEN main ELSE test)}}

from_slip132_prv(s) ==
    LET main == {"XPRV", "YPRV", "ZPRV", "YPRV_MULTISIG", "ZPRV_MULTISIG"}
        test == {"TPRV", "UPRV", "VPRV", "UPRV_MULTISIG", "VPRV_MULTISIG"}
    IN  {[network |-> n, body |-> s.body] :
            n \in {k \in NetworkKind : s.version \in Any(IF k = "Main" THEN main ELSE test)}}
=============================================================================
