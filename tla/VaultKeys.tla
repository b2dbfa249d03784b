----------------------------- MODULE VaultKeys -----------------------------
(* From the master password to the fields of an item and the bytes of an    *)
(* attachment (crypto.rs, storage.rs, api.rs, vault.rs).  Encryption is     *)
(* symbolic: a ciphertext says by which key, of what, and what is left of   *)
(* it.  Where nothing authenticates it, a wrong key gives garbage and a     *)
(* damaged one what is left, or an error when its padding does not fit.     *)
EXTENDS Naturals

CONSTANTS Fail, Garbage,
          Least, Default   \* iterations taken as they are, and instead of fewer

VARIABLES
  encrypted, \* the account as it was encrypted, and the password given
  level,     \* how far the process got
  userKey,   \* the key unlocked, or Fail
  shown,     \* each field of the item read, with its outcome
  attached   \* the outcome of opening the attachment

keyVars == <<encrypted, level, userKey, shown, attached>>

ASSUME IterationAssumption == Least \in Nat /\ Default \in Nat

(***************************************************************************)
(* Keys, ciphertexts and what decrypting them may give                     *)
(***************************************************************************)
(* 64 bytes are a key with its MAC key, 32 bytes one without.               *)
Key(id, mac) == [id |-> id, mac |-> mac]
Enc(type, key, of, left) == [type |-> type, by |-> key, of |-> of, left |-> left]

Unwraps(e, k) == e.by.id = k.id /\ e.left = e.of

(* What is left of a damaged key is a key: the damage keeps its length.     *)
AlteredKey == Key(<<"altered">>, TRUE)

(* EncString::decrypt: type 2 with its MAC only, type 0 without any under   *)
(* any key.  (A type 0 that brings a MAC is checked like type 2 under a key *)
(* that has one, and like any type 0 under one that has not.)               *)
Decrypt(e, k) ==
  IF e.type = 2 THEN IF k.mac /\ Unwraps(e, k) THEN {e.of} ELSE {Fail}
  ELSE IF e.type # 0 THEN {Fail}
  ELSE IF e.by.id # k.id THEN {Fail, Garbage}
  ELSE IF e.left = e.of THEN {e.of} ELSE {Fail, e.left}

(* decrypt_rsa: the padding of the type, then the other.                    *)
DecryptRsa(e, rsa) ==
  IF rsa # {Fail} /\ e.type \in 3..6 /\ Unwraps(e, [id |-> <<"rsa">>]) THEN {e.of} ELSE {Fail}

(* One attempt after another, until one succeeds.                           *)
OrElse(first, second) == (first \ {Fail}) \cup (IF Fail \in first THEN second ELSE {})

(* parse_symmetric_key_from_decrypted_bytes: garbage has another length.    *)
AsKey(outcomes) == {IF o = Garbage THEN Fail ELSE o : o \in outcomes}

(* Each key of a set of outcomes, or another when there is none.            *)
KeyOr(outcomes, other) == {IF k = Fail THEN other ELSE k : k \in AsKey(outcomes)}

(* encrypt: a key without a MAC key encrypts nothing.                       *)
Encrypt(k, x) == Enc(IF k.mac THEN 2 ELSE 0, k, x, x)

(* decrypt_attachment_blob: a MAC is needed, but for an empty blob.  A      *)
(* first byte of 2 is taken for the header, whatever the layout.            *)
DecryptBlob(blob, k) ==
  IF blob.empty THEN {"empty"}
  ELSE IF k.mac /\ Unwraps(blob.enc, k) /\ (blob.layout = "header" \/ ~blob.firstIsTwo)
  THEN {blob.enc.of} ELSE {Fail}

(***************************************************************************)
(* An account                                                              *)
(***************************************************************************)
UserKey(a)   == Key(<<"user">>, a.mac)
OrgKey       == Key(<<"org">>, TRUE)
CipherKey    == Key(<<"cipher">>, TRUE)
FileKey      == Key(<<"file">>, TRUE)

ASSUME OutcomeAssumption ==
  /\ Fail # Garbage
  /\ \A o \in {Fail, Garbage} :
       /\ o \notin {"rsa", "text", "file", "empty"}
       /\ o \notin {OrgKey, CipherKey, FileKey, AlteredKey}
       /\ o \notin {Key(<<"user">>, mac) : mac \in BOOLEAN}

(* derive_master_key: fewer iterations than the least become the default.   *)
DeriveMasterKey(right, iterations) ==
  <<right, IF iterations < Least THEN Default ELSE iterations>>
MasterKey(how, m, mac) == Key(<<how, m>>, mac)

(* The server's: the user key under the expanded master key, or, of old,    *)
(* under the master key itself.                                             *)
EncUserKey(a) ==
  LET Under(how, mac) == MasterKey(how, <<TRUE, a.iterations>>, mac)
  IN IF a.old THEN Enc(0, Under("raw", FALSE), UserKey(a), UserKey(a))
     ELSE Enc(2, Under("expand", TRUE), UserKey(a), UserKey(a))

(* Who wrote a part, another client or the server, may have given it        *)
(* without a MAC under a key that has one: such a part is bare.             *)
BareParts == {"rsa", "org", "item", "field", "file"}
Sealed(a, part, k, x) == IF part \in a.bare THEN Enc(0, k, x, x) ELSE Encrypt(k, x)
Damaged(e, left) == [e EXCEPT !.left = left]

EncRsa(a) ==
  LET e == Sealed(a, "rsa", UserKey(a), "rsa")
  IN IF a.rsa = "damaged" THEN Damaged(e, Garbage) ELSE e
EncOrgKey(a) ==
  IF a.org = "rsa" THEN Enc(4, Key(<<"rsa">>, FALSE), OrgKey, OrgKey)
  ELSE Sealed(a, "org", UserKey(a), OrgKey)

BaseKey(a)  == IF a.org = "none" THEN UserKey(a) ELSE OrgKey
ItemKey(a)  == IF a.itemKey = "none" THEN BaseKey(a) ELSE CipherKey
EncItemKey(a) ==
  LET e == Sealed(a, "item", IF a.itemKey = "user" THEN UserKey(a) ELSE BaseKey(a), CipherKey)
  IN IF a.itemKey = "damaged" THEN Damaged(e, AlteredKey) ELSE e
EncField(a) ==
  LET e == Sealed(a, "field", ItemKey(a), "text")
  IN IF a.field THEN e ELSE Damaged(e, Garbage)
EncFileKey(a) ==
  Sealed(a, "file", IF a.fileKey = "user" THEN UserKey(a) ELSE ItemKey(a), FileKey)
Blob(a) ==
  [enc |-> Enc(2, IF a.fileKey = "none" THEN ItemKey(a) ELSE FileKey, "file",
               IF a.file = "whole" THEN "file" ELSE Garbage),
   empty |-> a.file = "empty", layout |-> a.layout,
   firstIsTwo |-> a.layout = "header" \/ a.twoFirst]

(***************************************************************************)
(* Reading it                                                              *)
(***************************************************************************)
(* decrypt_with_master_key: two derivations, and the bare key for type 0.   *)
DecryptWithMasterKey(e, m) ==
  OrElse(Decrypt(e, MasterKey("expand", m, TRUE)),
  OrElse(Decrypt(e, MasterKey("extract", m, TRUE)),
         IF e.type = 0 THEN Decrypt(e, MasterKey("raw", m, FALSE)) ELSE {Fail}))

UnlockUserKey(a) ==
  AsKey(DecryptWithMasterKey(EncUserKey(a), DeriveMasterKey(a.password, a.iterations)))

(* The RSA key of the account, and with it the organization's.              *)
ReadRsa(a, k) == IF a.rsa = "none" THEN {Fail} ELSE {IF o = "rsa" THEN o ELSE Fail : o \in Decrypt(EncRsa(a), k)}
ReadOrgKey(a, k) ==
  LET e == EncOrgKey(a)
  IN IF e.type \in 3..6 THEN DecryptRsa(e, ReadRsa(a, k)) ELSE Decrypt(e, k)

(* The listing: the organization's key or else the user's, then the item's. *)
ListedBaseKey(a, k) ==
  IF a.org \in {"none", "missing"} THEN {k} ELSE KeyOr(ReadOrgKey(a, k), k)
ListedItemKey(a, k) ==
  UNION {IF a.itemKey = "none" THEN {b}
         ELSE KeyOr(OrElse(Decrypt(EncItemKey(a), b), Decrypt(EncItemKey(a), k)), b) :
         b \in ListedBaseKey(a, k)}

(* Mutant: an organization's item is taken for a personal one.              *)
PersonalItemKey(a, k) ==
  IF a.itemKey = "none" THEN {k} ELSE KeyOr(Decrypt(EncItemKey(a), k), k)

(* resolve_attachment_key goes the same way on its own, one key further.    *)
ResolvedItemKey(a, k) ==
  LET bases == IF a.org \in {"none", "missing"} THEN {k} ELSE KeyOr(ReadOrgKey(a, k), k)
  IN UNION {IF a.itemKey = "none" THEN {b}
            ELSE KeyOr(OrElse(Decrypt(EncItemKey(a), b), Decrypt(EncItemKey(a), k)), b) : b \in bases}
ResolveAttachmentKey(a, k) ==
  UNION {IF a.fileKey = "none" THEN {c}
         ELSE KeyOr(OrElse(Decrypt(EncFileKey(a), c), Decrypt(EncFileKey(a), k)), c) :
         c \in ResolvedItemKey(a, k)}

(* What each type of item has of its own; all have the common fields, which *)
(* an unknown type shows alone.                                             *)
Common == {"name", "notes", "fields.name", "fields.value", "attachments.fileName"}
OwnFields(type) ==
  CASE type = 1 -> {"username", "password", "totp", "uris", "passwordHistory"}
    [] type = 3 -> {"cardholderName", "brand", "number", "expMonth", "expYear", "code"}
    [] type = 4 -> {"title", "firstName", "middleName", "lastName", "address1", "address2",
                    "city", "state", "postalCode", "country", "company", "email", "phone",
                    "ssn", "username", "passportNumber", "licenseNumber"}
    [] type = 5 -> {"privateKey", "publicKey", "keyFingerprint"}
    [] OTHER    -> {}

(* What the search finds an item by.                                        *)
SearchTokens(type) ==
  Common \cup (CASE type = 1 -> {"username", "uris"}
                 [] type = 3 -> {"brand", "number", "cardholderName"}
                 [] type = 4 -> {"firstName", "lastName", "email", "phone", "username",
                                 "company", "address1", "city", "ssn"}
                 [] type = 5 -> {"publicKey", "keyFingerprint"}
                 [] OTHER    -> {})

(* decrypt_cipher_string: garbage that is not text is nothing; a name that  *)
(* does not decrypt reads "Untitled".                                       *)
ReadField(a, c) == Decrypt(EncField(a), c)

(***************************************************************************)
(* The steps                                                               *)
(***************************************************************************)
KeysInit(accounts) ==
  /\ encrypted \in accounts
  /\ level = "locked" /\ userKey = Fail /\ shown = <<>> /\ attached = Fail

Unlock ==
  /\ level = "locked"
  /\ \E k \in UnlockUserKey(encrypted) :
       userKey' = k /\ level' = IF k = Fail THEN "refused" ELSE "unlocked"
  /\ UNCHANGED <<encrypted, shown, attached>>

(* decrypt_sync_ciphers_with_context; an item in the trash is left out.     *)
ReadItem ==
  /\ level = "unlocked"
  /\ IF encrypted.deleted THEN shown' = <<>>
     ELSE \E c \in ListedItemKey(encrypted, userKey) : \E o \in ReadField(encrypted, c) :
            shown' = [f \in Common \cup OwnFields(encrypted.type) |-> o]
  /\ level' = "listed" /\ UNCHANGED <<encrypted, userKey, attached>>

OpenAttachment ==
  /\ level = "listed"
  /\ \E k \in ResolveAttachmentKey(encrypted, userKey) :
       attached' \in DecryptBlob(Blob(encrypted), k)
  /\ level' = "opened" /\ UNCHANGED <<encrypted, userKey, shown>>

KeysNext == Unlock \/ ReadItem \/ OpenAttachment

(***************************************************************************)
(* Properties                                                              *)
(***************************************************************************)
KeysTypeOK == level \in {"locked", "refused", "unlocked", "listed", "opened"}

(* The account is as Bitwarden makes it today: enough iterations, the user  *)
(* key with a MAC, each key under the one above it.  A key under the user's *)
(* beside the item's has a MAC: what it gives under the wrong one of the    *)
(* two is tried first, and without a MAC taken for an answer.               *)
Regular(a) ==
  /\ a.iterations >= Least /\ ~a.old /\ a.mac
  /\ a.org # "missing" /\ (a.org = "rsa" => a.rsa = "whole")
  /\ a.itemKey # "damaged" /\ a.layout = "header"
  /\ a.itemKey = "user" => "item" \notin a.bare
  /\ a.fileKey = "user" => "file" \notin a.bare

(* What was encrypted reads back: the right password unlocks a regular      *)
(* account, the item shows its fields (and a search finds it by what it     *)
(* shows), and the attachment opens, by two walks over the same keys, with  *)
(* MACs and without.  A wrong password unlocks none; damaged parts fail, or *)
(* show as garbage where the field has no MAC; an attachment that opens is  *)
(* the file, or empty as it came.  (That the MAC is always required, as     *)
(* docs/agents/security.md has it, is not so: README, section 7.)           *)
ReadsBack ==
  /\ level = "refused" => ~(encrypted.password /\ Regular(encrypted))
  /\ level \in {"unlocked", "listed", "opened"} => encrypted.password
  /\ level \in {"listed", "opened"} =>
       \A f \in DOMAIN shown :
         /\ shown[f] = Garbage => EncField(encrypted).type = 0
         /\ (Regular(encrypted) /\ encrypted.field) => shown[f] = "text"
  /\ (level = "listed" /\ ~encrypted.deleted) => SearchTokens(encrypted.type) \subseteq DOMAIN shown
  /\ level = "opened" =>
       /\ attached \in {"file", "empty", Fail}
       /\ attached = "empty" <=> encrypted.file = "empty"
       /\ (Regular(encrypted) /\ encrypted.file = "whole") => attached = "file"
=============================================================================
