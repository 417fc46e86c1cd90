--------------------------- MODULE CompactEncoding ---------------------------
(***************************************************************************)
(* The compact encoding of descriptor keys and of multisig wallets.         *)
(*                                                                         *)
(* A stream is a sequence of bytes.  What the bitcoin libraries write in    *)
(* one piece of known length (the body of an extended key, a public key, a  *)
(* fingerprint) is one element of it, a number above 255.                   *)
(***************************************************************************)
EXTENDS VarInt, SequencesExt, FiniteSetsExt

S132 == INSTANCE Slip132

CONSTANTS
    Body,         \* extended public keys without their version bytes
    PublicKey,    \* full public keys
    XOnlyKey,     \* x-only public keys
    Fingerprint   \* fingerprints of master keys

ASSUME BlocksAreNotBytes ==
    /\ Body \cup PublicKey \cup XOnlyKey \cup Fingerprint \subseteq Nat \ Byte
    /\ \A a, b \in {<< 1, Body >>, << 2, PublicKey >>, << 3, XOnlyKey >>, << 4, Fingerprint >>} :
            a[1] # b[1] => a[2] \cap b[2] = {}

(* What is written, of paths and lists of paths of fewer than 65536.        *)
Stream == Seq(Nat)

Length == {n \in Nat : n < 65536}
Child == [hardened : BOOLEAN, index : {i \in Nat : i <= 2147483647}]
Path == {p \in Seq(Child) : Len(p) \in Length}
Paths == {p \in Seq(Path) : p # << >> /\ Len(p) \in Length}
(* An origin is a sequence of none or one.                                  *)
Origin == {o \in Seq([fingerprint : Fingerprint, path : Path]) : Len(o) <= 1}
ExtendedKey == [network : S132!NetworkKind, body : Body]
Wildcard == 0..2            \* None, Unhardened, Hardened
DescriptorKey ==
    [type : {"Single"}, origin : Origin, key : PublicKey \cup XOnlyKey]
        \cup [type : {"XPub"}, origin : Origin, xkey : ExtendedKey, derivation_path : Path,
              wildcard : Wildcard]
        \cup [type : {"MultiXPub"}, origin : Origin, xkey : ExtendedKey,
              derivation_paths : Paths, wildcard : Wildcard]

---------------------------------------------------------------------------
(* Reading: one thing after the other, until something fails.               *)
Number(n) == Wide(<< n % 256, n \div 256 >>)

ReadBlock(S, s) == IF s # << >> /\ s[1] \in S THEN Done(s[1], Tail(s)) ELSE Failed

(* A number below n, as the tags are; anything else is an error.            *)
TagOf(v, n) == IF ~v.ok \/ ~FitsIn(v.value, 1) \/ v.value[1] >= n THEN Failed
               ELSE Done(v.value[1], v.rest)
ReadTag(s, n) == TagOf(deserialize(s), n)

(* A length: more than two bytes of it are more than there is to read.      *)
LengthOf(v) == IF ~v.ok \/ ~FitsIn(v.value, 2) THEN Failed
               ELSE Done(v.value[1] + 256 * v.value[2], v.rest)
ReadLength(s) == LengthOf(deserialize(s))

OneMore(before, next) ==
    IF ~before.ok \/ ~next.ok THEN Failed
    ELSE Done(Append(before.value, next.value), next.rest)

(* A reader of many things takes the reader of one, as a function.          *)
ReadMany(Read, n, s) ==
    LET read[i \in 0..n] ==
            IF i = 0 THEN Done(<< >>, s) ELSE OneMore(read[i - 1], Read[read[i - 1].rest])
    IN  read[n]

VectorOf(Read, n) == IF ~n.ok THEN Failed ELSE ReadMany(Read, n.value, n.rest)
ReadVector(Read, s) == VectorOf(Read, ReadLength(s))

(* Writing: what the parts were written as, one after the other.            *)
WriteVector(parts) == serialize(Number(Len(parts))) \o FlattenSeq(parts)

---------------------------------------------------------------------------
(* The child of a path as a u32, whose highest bit says it is hardened.     *)
FromIndex(c) == Wide(<< c.index % 256, (c.index \div 256) % 256, (c.index \div 65536) % 256,
                        c.index \div 16777216 >>)
FromChild(c) == Wide(<< c.index % 256, (c.index \div 256) % 256, (c.index \div 65536) % 256,
                        c.index \div 16777216 + (IF c.hardened THEN 128 ELSE 0) >>)
ToChild(v) == [hardened |-> v[4] >= 128,
               index |-> v[1] + 256 * v[2] + 65536 * v[3] + 16777216 * (v[4] % 128)]

ChildOf(v) == IF ~v.ok \/ ~FitsIn(v.value, 4) THEN Failed ELSE Done(ToChild(v.value), v.rest)
ReadChild(s) == ChildOf(deserialize(s))

serialize_derivation_path(path) ==
    WriteVector([i \in DOMAIN path |-> serialize(FromChild(path[i]))])

ReadSomePath(s) ==
    LET path == ReadVector([t \in Stream |-> ReadChild(t)], s)
    IN  IF path.ok /\ path.value = << >> THEN Failed ELSE path
deserialize_derivation_path(s) == ReadVector([t \in Stream |-> ReadChild(t)], s)

serialize_derivation_paths(paths) ==
    WriteVector([i \in DOMAIN paths |-> serialize_derivation_path(paths[i])])

deserialize_derivation_paths(s) ==
    LET paths == ReadVector([t \in Stream |-> deserialize_derivation_path(t)], s)
    IN  IF paths.ok /\ paths.value = << >> THEN Failed ELSE paths

serialize_opt_origin(origin) ==
    IF origin = << >> THEN serialize(Number(0))
    ELSE serialize(Number(1)) \o << origin[1].fingerprint >>
            \o serialize_derivation_path(origin[1].path)

OriginOf(tag, fingerprint, path) ==
    IF ~tag.ok THEN Failed
    ELSE IF tag.value = 0 THEN Done(<< >>, tag.rest)
    ELSE IF ~fingerprint.ok \/ ~path.ok THEN Failed
    ELSE Done(<< [fingerprint |-> fingerprint.value, path |-> path.value] >>, path.rest)

deserialize_opt_origin(s) ==
    LET tag == ReadTag(s, 2)
        fingerprint == ReadBlock(Fingerprint, tag.rest)
    IN  OriginOf(tag, fingerprint, deserialize_derivation_path(fingerprint.rest))

(* Of the version bytes the library accepts those of xpub and tpub.         *)
serialize_xpub(xkey) == S132!resolve(xkey.network, "Hashed", FALSE) \o << xkey.body >>

deserialize_xpub(s) ==
    LET version == ReadExact(s, 4)
        body == ReadBlock(Body, version.rest)
        networks == {n \in S132!NetworkKind : version.value = S132!resolve(n, "Hashed", FALSE)}
    IN  IF ~version.ok \/ ~body.ok \/ networks = {} THEN Failed
        ELSE Done([network |-> CHOOSE n \in networks : TRUE, body |-> body.value], body.rest)

serialize_descriptor_pk(d) ==
    CASE d.type = "Single" ->
            serialize(Number(0)) \o serialize_opt_origin(d.origin)
                \o (IF d.key \in XOnlyKey THEN serialize(Number(1)) \o serialize(Number(32))
                                          ELSE serialize(Number(0))) \o << d.key >>
      [] d.type = "XPub" ->
            serialize(Number(1)) \o serialize_opt_origin(d.origin) \o serialize_xpub(d.xkey)
                \o serialize_derivation_path(d.derivation_path) \o serialize(Number(d.wildcard))
      [] d.type = "MultiXPub" ->
            serialize(Number(2)) \o serialize_opt_origin(d.origin) \o serialize_xpub(d.xkey)
                \o serialize_derivation_paths(d.derivation_paths) \o serialize(Number(d.wildcard))

ReadSingleKey(s) ==
    LET tag == ReadTag(s, 2)
        length == ReadLength(tag.rest)
    IN  IF ~tag.ok THEN Failed
        ELSE IF tag.value = 0 THEN ReadBlock(PublicKey, tag.rest)
        ELSE IF ~length.ok \/ length.value # 32 THEN Failed
        ELSE ReadBlock(XOnlyKey, length.rest)

KeyOf(tag, origin, key, xkey, path, wildcard) ==
    IF ~tag.ok \/ ~origin.ok THEN Failed
    ELSE IF tag.value = 0
    THEN IF ~key.ok THEN Failed
         ELSE Done([type |-> "Single", origin |-> origin.value, key |-> key.value], key.rest)
    ELSE IF ~xkey.ok \/ ~path.ok \/ ~wildcard.ok THEN Failed
    ELSE IF tag.value = 1
    THEN Done([type |-> "XPub", origin |-> origin.value, xkey |-> xkey.value,
               derivation_path |-> path.value, wildcard |-> wildcard.value], wildcard.rest)
    ELSE Done([type |-> "MultiXPub", origin |-> origin.value, xkey |-> xkey.value,
               derivation_paths |-> path.value, wildcard |-> wildcard.value], wildcard.rest)

deserialize_descriptor_pk(s) ==
    LET tag == ReadTag(s, 3)
        origin == deserialize_opt_origin(tag.rest)
        xkey == deserialize_xpub(origin.rest)
        path == IF tag.value = 1 THEN deserialize_derivation_path(xkey.rest)
                                 ELSE deserialize_derivation_paths(xkey.rest)
    IN  KeyOf(tag, origin, ReadSingleKey(origin.rest), xkey, path, ReadTag(path.rest, 3))

---------------------------------------------------------------------------
(* A multisig wallet.  receiving and change are the sets in the order the   *)
(* hash table gives them out.                                               *)
WriteKeys(keys) == FlattenSeq([i \in DOMAIN keys |-> serialize_descriptor_pk(keys[i])])

SerializeMultisig(configuration, receiving, change) ==
    serialize(Number(configuration.required)) \o serialize(Number(configuration.total))
        \o serialize(Number(2)) \o WriteKeys(receiving) \o WriteKeys(change)

MultisigOf(required, total, sets, receiving, change) ==
    IF ~required.ok \/ ~total.ok \/ ~sets.ok \/ sets.value # Number(2) THEN Failed
    ELSE IF ~receiving.ok \/ ~change.ok THEN Failed
    ELSE Done([configuration |-> [required |-> required.value, total |-> total.value],
               receiving |-> ToSet(receiving.value), change |-> ToSet(change.value)],
              change.rest)

(* Nothing is validated here, and what follows the second set is not read.  *)
DeserializeMultisig(s) ==
    LET required == ReadLength(s)
        total == ReadLength(required.rest)
        sets == deserialize(total.rest)
        Read == [t \in Stream |-> deserialize_descriptor_pk(t)]
        receiving == ReadMany(Read, total.value, sets.rest)
    IN  MultisigOf(required, total, sets, receiving, ReadMany(Read, total.value, receiving.rest))
=============================================================================
