----------------------------- MODULE TrustStore -----------------------------
(***************************************************************************)
(* Manifest signatures and the keys a user has pinned: murl-core, trust.rs. *)
(*                                                                         *)
(* A manifest is its body (the canonical bytes a signature covers) and its  *)
(* signature block. The cryptography is external and perfect: a signature   *)
(* value is known by the key that made it and by the body it was made over, *)
(* and two keys have two key ids. A trust store's document is a set of      *)
(* pairs, an authority and the id of a key pinned for it.                   *)
(***************************************************************************)
CONSTANTS
    None,         \* no signature, or a field that is missing or malformed
    Keys,         \* public keys, each standing for its key pair
    KeyIds,
    IdOf,         \* key_id_for: the id of each key
    Bodies,       \* canonical bytes of manifests without their signature
    Authorities,  \* authorities as the parser prints them
    Spellings,    \* authorities as a user may write them
    Canonical     \* what the parser makes of each spelling; None if it refuses

ASSUME KeysAssumption ==
    /\ None \notin Keys \cup KeyIds \cup Authorities
    /\ IdOf \in [Keys -> KeyIds]
    /\ \A k, l \in Keys : IdOf[k] = IdOf[l] => k = l
    /\ Authorities \subseteq Spellings
    /\ Canonical \in [Spellings -> Authorities \cup {None}]
    /\ \A a \in Authorities : Canonical[a] = a

(* A signature member: its algorithm is the one known, the two fields that  *)
(* name a key, and the key that made its value over some bytes.             *)
Block == [known : BOOLEAN, keyId : KeyIds \cup {None}, publicKey : Keys \cup {None},
          by : Keys \cup {None}, over : Bodies]

Manifest == [body : Bodies, signature : Block \cup {None}]

ASSUME NoneAssumption == None \notin Block

(* Mutant of Holds: the key id is not compared with the key's.              *)
MutHoldsAnyKeyId(manifest) ==
    LET block == manifest.signature
    IN  /\ block.known
        /\ block.publicKey # None
        /\ block.keyId # None
        /\ block.by = block.publicKey
        /\ block.over = manifest.body

(* The block holds: it is well formed, names its key twice the same way,    *)
(* and its value was made by that key over this very body.                  *)
Holds(manifest) ==
    LET block == manifest.signature
    IN  /\ block.known
        /\ block.publicKey # None
        /\ block.keyId = IdOf[block.publicKey]
        /\ block.by = block.publicKey
        /\ block.over = manifest.body

-----------------------------------------------------------------------------
Pairs == Authorities \X KeyIds

Pinned(pins, spelling, key) == pins \cup {<<Canonical[spelling], IdOf[key]>>}

(* Mutant of Unpinned: every key of the authority goes.                     *)
MutUnpinnedAll(pins, spelling, id) == {pin \in pins : pin[1] # Canonical[spelling]}

Unpinned(pins, spelling, id) == pins \ {<<Canonical[spelling], id>>}

IsTrusted(pins, spelling, id) ==
    Canonical[spelling] # None /\ <<Canonical[spelling], id>> \in pins

(* What a manifest fetched under an authority is to a reader of these pins. *)
StatusOf(pins, spelling, manifest) ==
    IF manifest.signature = None THEN "UnsignedRemote"
    ELSE IF ~Holds(manifest) THEN "Invalid"
    ELSE IF IsTrusted(pins, spelling, manifest.signature.keyId) THEN "SignedTrusted"
    ELSE "SignedUnknownKey"
=============================================================================
