----------------------------- MODULE MCCommands_proofs -----------------------------
(* Theorems about the components that one command at a time works with, for *)
(* every value of their constants and not only in the scopes of MCCommands. *)
EXTENDS MCCommands, FiniteSetTheorems, WellFoundedInduction, TLAPS

-----------------------------------------------------------------------------
(* Attachments: any requests, over whatever earlier ones have left at the   *)
(* paths: for a preview plaintexts, encrypted files and answers of the API, *)
(* of the attachment with that path.                                        *)
OfOne(a) == {NoFile} \cup {Content(a, f) : f \in {"plain", "cipher", "json", "empty"}}
LeftAnywhere == UNION {OfOne(a) : a \in Attachments}
DistinctPreviews == \A a, b \in Attachments : Preview(a) = Preview(b) => a = b

AttSpec ==
  /\ AttInit([att : Attachments, mode : Modes],
             {f \in [Paths -> LeftAnywhere] :
                \A a \in Attachments : f[Preview(a)] \in OfOne(a)},
             {TRUE})
  /\ [][AttNext]_attVars

(* A preview's path holds only what was fetched for it; what is about to be *)
(* written or answered is the plaintext of what was asked for, or nothing,  *)
(* as its server sent it; and a download copied from the preview is that of *)
(* its attachment, if nobody asks for another of the same name.             *)
AttTyped ==
  /\ want \in [Askers -> [att : Attachments, mode : Modes]]
  /\ DOMAIN stage = Askers /\ DOMAIN bytes = Askers /\ DOMAIN reply = Askers
  /\ DOMAIN files = Paths
  /\ copies = TRUE
OwnPreviews == \A a \in Attachments : files[Preview(a)] \in OfOne(a)
Lone(k) == \A j \in Askers : want[j].att # want[k].att => want[j].att.name # want[k].att.name
Told(k) == want[k].att.known \/ want[k].att.sized
IsClear(k) == bytes[k] \in {Content(want[k].att, f) : f \in {"plain", "empty"}}
IsFetched(b, a) == b \in {Content(a, f) : f \in {"cipher", "part", "empty", "json"}}
Answered(k) ==
  /\ stage[k] = "key" => IsFetched(bytes[k], want[k].att)
  /\ stage[k] = "copied" => Saving(k) /\ (Lone(k) => files[Dest(k)] \in OfOne(want[k].att))
  /\ stage[k] = "write" => IsClear(k)
  /\ stage[k] \in {"answer", "answered"} /\ Lone(k) /\ Told(k) => IsClear(k)
  /\ stage[k] = "answered" => reply[k].text \in {NoFile, bytes[k]}
AttInv == AttTyped /\ OwnPreviews /\ \A k \in Askers : Answered(k)

LEMMA PathsApart ==
  /\ \A a, b \in Attachments : Preview(a) # Download(b)
  /\ \A a, b \in Attachments : Download(a) = Download(b) => a.name = b.name
<1>1. ASSUME NEW a, NEW b PROVE Preview(a) # Download(b)
  <2>1. Len(Preview(a)) = 2 /\ Len(Download(b)) = 1
    BY DEF Preview, Download
  <2> QED BY <2>1
<1>2. ASSUME NEW a, NEW b, Download(a) = Download(b) PROVE a.name = b.name
  BY <1>2 DEF Download
<1> QED BY <1>1, <1>2

(* What a process has read from the cache and found valid is in the clear.  *)
LEMMA ValidIsClear ==
  ASSUME NEW a, NEW b \in OfOne(a), b # NoFile, IsCachedFileValid(b, a),
         a.known \/ a.sized
  PROVE  b = Content(a, "plain")
  BY DEF OfOne, IsCachedFileValid, Content

(* A process that changes no file and no reply keeps the invariant if its   *)
(* own part holds.                                                          *)
LEMMA AttKept ==
  ASSUME AttInv, NEW k \in Askers, UNCHANGED <<want, copies, files>>,
         DOMAIN stage' = Askers, DOMAIN bytes' = Askers, DOMAIN reply' = Askers,
         \A j \in Askers \ {k} : /\ stage'[j] = stage[j] /\ bytes'[j] = bytes[j]
                                 /\ reply'[j] = reply[j],
         Answered(k)'
  PROVE  AttInv'
<1>1. AttTyped' /\ OwnPreviews'
  BY DEF AttInv, AttTyped, OwnPreviews
<1>2. ASSUME NEW j \in Askers \ {k} PROVE Answered(j)'
  BY DEF AttInv, Answered, Lone, Told, IsClear, Saving, Dest
<1> QED BY <1>1, <1>2 DEF AttInv

(* Writing a file of the attachment k asked for to its path.                *)
LEMMA AttWritten ==
  ASSUME DistinctPreviews, AttInv, NEW k \in Askers, NEW b \in OfOne(want[k].att),
         files' = [files EXCEPT ![Dest(k)] = b], UNCHANGED <<want, copies, bytes, reply>>,
         NEW s, stage' = [stage EXCEPT ![k] = s], Answered(k)'
  PROVE  AttInv'
<1>1. /\ \A j \in Askers : want[j].att \in Attachments
      /\ DOMAIN files = Paths /\ DOMAIN stage = Askers
      /\ want[k].att \in Attachments
  BY DEF AttInv, AttTyped
<1>2. AttTyped'
  BY DEF AttInv, AttTyped
<1>3. ASSUME NEW a \in Attachments PROVE files'[Preview(a)] \in OfOne(a)
  <2>1. Preview(a) \in Paths /\ files[Preview(a)] \in OfOne(a)
    BY DEF Paths, Previews, AttInv, OwnPreviews
  <2>2. CASE Preview(a) = Dest(k)
    <3>1. a = want[k].att
      BY <1>1, <2>2, PathsApart DEF Dest, DistinctPreviews
    <3> QED BY <1>1, <2>1, <2>2, <3>1
  <2>3. CASE Preview(a) # Dest(k)
    BY <1>1, <2>1, <2>3
  <2> QED BY <2>2, <2>3
<1>4. ASSUME NEW j \in Askers \ {k} PROVE Answered(j)'
  <2>1. Answered(j) /\ stage'[j] = stage[j] /\ Lone(j)' = Lone(j) /\ Dest(j)' = Dest(j)
    BY <1>1 DEF AttInv, Lone, Dest, Saving
  <2>2. ASSUME stage[j] = "copied", Lone(j), Saving(j)
        PROVE  files'[Dest(j)] \in OfOne(want[j].att)
    <3>1. files[Dest(j)] \in OfOne(want[j].att) /\ Dest(j) = Download(want[j].att)
      BY <2>1, <2>2 DEF Answered, Dest
    <3>2. Dest(j) \in Paths
      BY <1>1, <3>1 DEF Paths
    <3>3. CASE Dest(j) = Dest(k)
      <4>1. want[j].att = want[k].att
        BY <1>1, <2>2, <3>1, <3>3, PathsApart DEF Dest, Lone
      <4> QED BY <1>1, <3>2, <3>3, <4>1
    <3>4. CASE Dest(j) # Dest(k)
      BY <1>1, <3>1, <3>2, <3>4
    <3> QED BY <3>3, <3>4
  <2> QED BY <2>1, <2>2 DEF Answered, IsClear, Saving, Told
<1> QED BY <1>2, <1>3, <1>4 DEF AttInv, OwnPreviews

(* Files that go leave the rest as it was.                                  *)
LEMMA AttRemoved ==
  ASSUME AttInv, \A q \in Paths : files'[q] \in {files[q], NoFile}, DOMAIN files' = Paths,
         UNCHANGED <<want, copies, bytes, reply>>, DOMAIN stage' = Askers,
         \A j \in Askers : stage'[j] = stage[j] \/ stage'[j] = "get"
  PROVE  AttInv'
<1>1. AttTyped'
  BY DEF AttInv, AttTyped
<1>2. ASSUME NEW a \in Attachments PROVE files'[Preview(a)] \in OfOne(a)
  BY DEF AttInv, OwnPreviews, Paths, Previews, OfOne
<1>3. ASSUME NEW j \in Askers PROVE Answered(j)'
  <2>1. want[j].att \in Attachments
    BY DEF AttInv, AttTyped
  <2>2. Dest(j) \in Paths
    BY <2>1 DEF Dest, Paths, Previews
  <2>3. files'[Dest(j)] \in {files[Dest(j)], NoFile}
    BY <2>2
  <2> QED BY <2>3 DEF AttInv, Answered, Lone, Dest, Saving, IsClear, Told, OfOne
<1> QED BY <1>1, <1>2, <1>3 DEF AttInv, OwnPreviews

LEMMA AttNextInv == DistinctPreviews /\ AttInv /\ [AttNext]_attVars => AttInv'
<1> SUFFICES ASSUME DistinctPreviews, AttInv, [AttNext]_attVars PROVE AttInv'
  OBVIOUS
<1>1. CASE UNCHANGED attVars
  BY <1>1 DEF attVars, AttInv, AttTyped, OwnPreviews, Answered, Lone, Dest, Saving,
     IsClear, Told
<1>2. ASSUME NEW k \in Askers, GetAttachment(k) PROVE AttInv'
  <2> USE DEF AttGoto, Hold, NoLock
  <2>1. /\ want[k].att \in Attachments /\ DOMAIN stage = Askers /\ DOMAIN bytes = Askers
        /\ DOMAIN reply = Askers /\ DOMAIN files = Paths /\ copies = TRUE
        /\ Answered(k)
    BY DEF AttInv, AttTyped
  <2>2. /\ Preview(want[k].att) \in Paths /\ Dest(k) \in Paths
        /\ files[Preview(want[k].att)] \in OfOne(want[k].att)
    BY <2>1 DEF Paths, Previews, Dest, AttInv, OwnPreviews
  <2>3. CASE AskFor(k) \/ SkipCache(k) \/ Fetch(k) \/ Receive(k) \/ FetchBlob(k)
    <3>1. /\ UNCHANGED <<want, copies, files, reply>>
          /\ stage' = [stage EXCEPT ![k] = stage'[k]]
          /\ DOMAIN bytes' = Askers /\ \A j \in Askers \ {k} : bytes'[j] = bytes[j]
          /\ stage'[k] \in {"cache", "failed", "get", "again", "received", "key", "stored"}
          /\ stage'[k] = "key" => IsFetched(bytes'[k], want[k].att)
      BY <2>1, <2>3 DEF AskFor, SkipCache, Fetch, Receive, FetchBlob, Body, IsFetched
    <3>2. Answered(k)'
      BY <3>1 DEF Answered
    <3> QED BY <2>1, <3>1, <3>2, AttKept
  <2>4. CASE CopyPreview(k)
    <3>1. /\ files' = [files EXCEPT ![Dest(k)] = files[Preview(want[k].att)]]
          /\ stage' = [stage EXCEPT ![k] = "copied"] /\ Saving(k)
          /\ UNCHANGED <<want, copies, bytes, reply>>
      BY <2>1, <2>4 DEF CopyPreview
    <3>2. Answered(k)'
      BY <2>1, <2>2, <3>1 DEF Answered, Dest, Saving
    <3> QED BY <2>2, <3>1, <3>2, AttWritten
  <2>5. CASE ReadCached(k)
    <3>1. CASE files[Dest(k)] # NoFile /\ IsCachedFileValid(files[Dest(k)], want[k].att)
      <4>1. /\ stage' = [stage EXCEPT ![k] = "answer"]
            /\ bytes' = [bytes EXCEPT ![k] = files[Dest(k)]]
            /\ UNCHANGED <<want, copies, files, reply>> /\ Readable(k)
        BY <2>5, <3>1 DEF ReadCached
      <4>2. Lone(k) => files[Dest(k)] \in OfOne(want[k].att)
        BY <2>1, <2>2, <4>1 DEF Readable, Answered, Dest
      <4>3. Lone(k) /\ Told(k) => files[Dest(k)] = Content(want[k].att, "plain")
        BY <3>1, <4>2, ValidIsClear DEF Told
      <4>4. Answered(k)'
        BY <2>1, <4>1, <4>3 DEF Answered, IsClear, Lone, Told, Dest, Saving
      <4> QED BY <2>1, <4>1, <4>4, AttKept
    <3>2. CASE ~(files[Dest(k)] # NoFile /\ IsCachedFileValid(files[Dest(k)], want[k].att))
      <4> DEFINE stale == {Dest(k)} \cup (IF Saving(k) THEN {Preview(want[k].att)} ELSE {})
      <4>1. /\ stage' = [stage EXCEPT ![k] = "get"]
            /\ UNCHANGED <<want, copies, bytes, reply>>
            /\ \/ files' = files
               \/ files' = [p \in Paths |-> IF p \in stale THEN NoFile ELSE files[p]]
        BY <2>5, <3>2 DEF ReadCached
      <4>2. DOMAIN files' = Paths /\ \A q \in Paths : files'[q] \in {files[q], NoFile}
        BY <2>1, <2>2, <4>1
      <4> QED BY <2>1, <4>1, <4>2, AttRemoved
    <3> QED BY <3>1, <3>2
  <2>6. CASE DecryptFile(k)
    <3>1. /\ UNCHANGED <<want, copies, files, reply>>
          /\ \/ stage' = [stage EXCEPT ![k] = "failed"] /\ bytes' = bytes
             \/ /\ stage' = [stage EXCEPT ![k] = "write"]
                /\ \/ bytes' = [bytes EXCEPT ![k] = Content(want[k].att, "plain")]
                   \/ bytes' = [bytes EXCEPT ![k] = Content(want[k].att, "empty")]
      <4>1. IsFetched(bytes[k], want[k].att)
        BY <2>1, <2>6 DEF DecryptFile, Answered
      <4>2. bytes[k].form = "empty" => bytes[k] = Content(want[k].att, "empty")
        BY <4>1 DEF IsFetched, Content
      <4> QED BY <2>6, <4>2 DEF DecryptFile
    <3>2. Answered(k)'
      BY <2>1, <3>1 DEF Answered, IsClear
    <3> QED BY <2>1, <3>1, <3>2, AttKept
  <2>7. CASE WriteFile(k)
    <3>1. /\ UNCHANGED <<want, copies, bytes, reply>> /\ stage[k] = "write"
          /\ IsClear(k)
          /\ \/ /\ stage' = [stage EXCEPT ![k] = "answer"]
                /\ files' = [files EXCEPT ![Dest(k)] = bytes[k]]
             \/ stage' = [stage EXCEPT ![k] = "failed"] /\ files' = files
      BY <2>1, <2>7 DEF WriteFile, Answered
    <3>2. Answered(k)'
      BY <2>1, <3>1 DEF Answered, IsClear
    <3>3. bytes[k] \in OfOne(want[k].att)
      BY <3>1 DEF OfOne, IsClear
    <3> QED BY <2>1, <3>1, <3>2, <3>3, AttKept, AttWritten
  <2>8. CASE BuildAttachmentResponse(k)
    <3>1. /\ UNCHANGED <<want, copies, bytes, files>> /\ stage[k] = "answer"
          /\ stage' = [stage EXCEPT ![k] = "answered"]
      BY <2>8 DEF BuildAttachmentResponse
    <3>2. PICK text \in {NoFile, bytes[k]} :
            reply' = [reply EXCEPT ![k] = [action |-> Action(k), text |-> text]]
      <4>1. PICK isText : reply' = [reply EXCEPT ![k] = [action |-> Action(k),
                                      text |-> IF isText THEN bytes[k] ELSE NoFile]]
        BY <2>8, Zenon DEF BuildAttachmentResponse
      <4> QED BY <4>1
    <3>3. reply'[k].text \in {NoFile, bytes[k]} /\ DOMAIN reply' = Askers
            /\ \A j \in Askers \ {k} : reply'[j] = reply[j]
      BY <2>1, <3>2
    <3>4. Answered(k)'
      BY <2>1, <3>1, <3>3 DEF Answered, IsClear, Lone, Told
    <3> QED BY <2>1, <3>1, <3>3, <3>4, AttKept
  <2> QED BY <1>2, <2>3, <2>4, <2>5, <2>6, <2>7, <2>8 DEF GetAttachment
<1>3. CASE DropKey \/ UnlockAgain
  <2>1. UNCHANGED <<want, stage, bytes, reply, files, copies>>
    BY <1>3 DEF DropKey, UnlockAgain
  <2> QED BY <2>1 DEF AttInv, AttTyped, OwnPreviews, Answered, Lone, Dest, Saving,
     IsClear, Told
<1>4. CASE ClearPreviewAttachments
  BY <1>4, AttRemoved DEF ClearPreviewAttachments, AttInv, AttTyped
<1> QED BY <1>1, <1>2, <1>3, <1>4 DEF AttNext

(* What is shown or saved is the attachment that was asked for, in the      *)
(* clear, or nothing at all, where its server sent nothing of a size nobody *)
(* announced, whatever requests, locks and leftovers cross, where no two    *)
(* attachments share the path of their preview (attachment.rs).             *)
THEOREM AttachmentShown == DistinctPreviews => (AttSpec => []ShownIsAsked)
<1> SUFFICES ASSUME DistinctPreviews PROVE AttSpec => []ShownIsAsked
  OBVIOUS
<1>1. ASSUME AttInit([att : Attachments, mode : Modes],
             {f \in [Paths -> LeftAnywhere] :
                \A a \in Attachments : f[Preview(a)] \in OfOne(a)},
             {TRUE})
      PROVE  AttInv
  BY <1>1 DEF AttInit, AttInv, AttTyped, OwnPreviews, Answered
<1>2. AttInv => ShownIsAsked
  BY DEF AttInv, ShownIsAsked, Answered, Lone, Told, IsClear
<1> QED BY <1>1, <1>2, AttNextInv, PTL DEF AttSpec

-----------------------------------------------------------------------------
(* Signing in: any account of the methods the model knows.                  *)
Methods == {Totp, Mail, YubiKey, WebAuthn}
AnyAccount ==
  [methods : Seq(Methods), device : BOOLEAN, key : {"absent", "holds", "mute", "other"},
   password : BOOLEAN, cloud : BOOLEAN, faults : BOOLEAN, tty : BOOLEAN, honest : BOOLEAN]
SignSpec == SignInit(AnyAccount) /\ [][SignNext]_signVars

LEMMA HeldKeyAsserts == account.key = "holds" => KeyAsserts
<1> SUFFICES ASSUME account.key = "holds" PROVE KeyAsserts
  OBVIOUS
<1>1. KeyProbe = [old |-> "rejected", new |-> "success"]
  BY Zenon DEF KeyProbe
<1>2. SelectCredential(<<"old", "new">>, KeyProbe) # 0
  <2> DEFINE I == {i \in 1..Len(<<"old", "new">>) : KeyProbe[<<"old", "new">>[i]] \in {"success"}}
  <2>1. I = {2}
    BY <1>1
  <2>2. Min({2}) = 2
    BY DEF Min
  <2> QED BY <2>1, <2>2 DEF SelectCredential, SelectInSeq
<1> QED BY <1>2 DEF KeyAsserts, FindDevice

(* The method that is suggested is one of the account's, and its key when   *)
(* that is the only one.                                                    *)
LEMMA SuggestedIsOne ==
  ASSUME NEW providers \in Seq(Methods), providers # <<>>
  PROVE  /\ DefaultProvider(providers) \in Methods
         /\ DefaultProvider(providers) \in Range(providers)
         /\ providers = <<WebAuthn>> => DefaultProvider(providers) = WebAuthn
<1>1. providers[1] \in Range(providers) /\ providers[1] \in Methods
  BY DEF Range
<1>2. \/ WebAuthn \in Range(providers) /\ DefaultProvider(providers) = WebAuthn
      \/ Totp \in Range(providers) /\ DefaultProvider(providers) = Totp
      \/ Mail \in Range(providers) /\ DefaultProvider(providers) = Mail
      \/ WebAuthn \notin Range(providers) /\ DefaultProvider(providers) = providers[1]
  BY DEF DefaultProvider
<1>3. providers = <<WebAuthn>> => Range(providers) = {WebAuthn}
  BY DEF Range
<1> QED BY <1>1, <1>2, <1>3 DEF Methods, Totp, Mail, YubiKey, WebAuthn

Suggested == DefaultProvider(account.methods)

(* What a user who types what is asked for, at a terminal, has answered so  *)
(* far: nothing, the device's code, the suggested method or its proof.      *)
Guest ==
  /\ account.honest /\ account.tty /\ account.password /\ ~account.faults
  /\ Suggests(WebAuthn) => account.key = "holds"
  /\ ~(account.device /\ account.methods # <<>>)
Demanded == account.methods # <<>>
First  == round = 1 /\ call = NoCall
ByDevice == round = 2 /\ call = Call(NoProof, Unset, "device")
ByKey  == /\ round = 2 /\ Demanded /\ Suggested = WebAuthn
          /\ call = Call(NoProof, WebAuthn, NoProof)
ByCode == /\ round = 2 /\ Demanded /\ Suggested # WebAuthn
          /\ call = Call(CodeFor[Suggested], Suggested, NoProof)
          /\ Suggested = Mail => mailed
Asserted == /\ round \in {1, 2} /\ Demanded /\ Suggested = WebAuthn
            /\ call = Call(Assertion[round], WebAuthn, NoProof)
Asking == \/ First \/ ByKey \/ ByCode \/ Asserted
          \/ ByDevice /\ account.device
Turned == outcome = Outcome("two_factor", account.methods) /\ Demanded
Honest ==
  /\ account \in AnyAccount
  /\ Guest =>
     /\ pc \in {"begin", "prelogin", "send", "sent", "returned", "answered", "done"}
     /\ pc = "begin" => call = NoCall
     /\ pc \in {"prelogin", "send", "sent"} => Asking
     /\ pc = "sent" => form = FirstForm
     /\ pc = "returned" => \/ outcome.kind = "ok"
                           \/ First /\ account.device /\ outcome = Outcome("new_device", <<>>)
                           \/ Turned /\ (First \/ ByKey)
     /\ pc = "answered" => \/ outcome.kind = "ok"
                           \/ First /\ account.device /\ outcome = Outcome("new_device", <<>>)
                           \/ Turned /\ First
     /\ pc = "done" => \/ outcome.kind = "ok"
                       \/ Demanded /\ Suggested = Mail /\ ~mailed

LEMMA ProofsDiffer ==
  /\ \A x \in Typed : x # NoProof
  /\ Assertion[1] # NoProof /\ Assertion[2] # NoProof
  /\ DOMAIN CodeFor = {Totp, Mail, YubiKey}
  /\ \A p \in {Totp, Mail, YubiKey} : CodeFor[p] \in {"totp", "mail", "touch"}
<1>1. Assertion[1] \in Range(Assertion) /\ Assertion[2] \in Range(Assertion)
  BY DEF Assertion, Range
<1> QED BY <1>1, ProofAssumption DEF CodeFor, Totp, Mail, YubiKey

(* The form the server gets, for each of them.                              *)
LEMMA HonestForm ==
  ASSUME Guest, account \in AnyAccount, Asking, form = FirstForm
  PROVE  /\ First => form = NoCall
         /\ ByKey => form = NoCall
         /\ account.device /\ ~First => form.otp = "device"
         /\ ~First /\ ~ByKey => Proves(form)
<1>1. CASE First \/ ByKey
  BY <1>1 DEF FirstForm, First, ByKey, NoCall, Call, Guest, Demanded
<1>2. CASE ByDevice /\ account.device /\ ~First /\ ~ByKey
  <2>1. form = Call(NoProof, Unset, "device")
    BY <1>2, ProofsDiffer DEF FirstForm, ByDevice, Call, Typed
  <2> QED BY <1>2, <2>1 DEF Proves, Call, Guest
<1>3. CASE (ByCode \/ Asserted) /\ ~First /\ ~ByKey
  <2>1. account.methods \in Seq(Methods) /\ account.methods # <<>> /\ ~account.device
    BY <1>3 DEF Guest, ByCode, Asserted, Demanded, AnyAccount
  <2>2. Suggested \in Methods /\ Suggested \in Range(account.methods)
    BY <2>1, SuggestedIsOne DEF Suggested
  <2>3. CASE ByCode
    <3>1. /\ Suggested \in {Totp, Mail, YubiKey}
          /\ form = Call(CodeFor[Suggested], Suggested, NoProof)
          /\ Suggested = Mail => mailed
      BY <2>2, <2>3, ProofsDiffer DEF ByCode, FirstForm, Call, Methods, Unset, Typed,
         Totp, Mail, YubiKey, WebAuthn
    <3>2. Proves(form)
      BY <2>1, <2>2, <3>1, ProofsDiffer DEF Proves, Call
    <3> QED BY <1>3, <2>1, <3>2
  <2>4. CASE Asserted
    <3>1. form = Call(Assertion[round], WebAuthn, NoProof) /\ account.key = "holds"
      BY <2>1, <2>4, ProofsDiffer DEF Asserted, FirstForm, Call, WebAuthn, Unset, Guest,
         Suggests, Suggested
    <3>2. Proves(form)
      BY <2>1, <2>2, <2>4, <3>1 DEF Proves, Call, Asserted
    <3> QED BY <1>3, <2>1, <3>2
  <2> QED BY <1>3, <2>3, <2>4
<1> QED BY <1>1, <1>2, <1>3 DEF Asking

LEMMA HonestNext == Honest /\ [SignNext]_signVars => Honest'
<1> SUFFICES ASSUME Honest, [SignNext]_signVars PROVE Honest'
  OBVIOUS
<1> USE DEF Honest, Return
<1>1. CASE UNCHANGED signVars
  <2>1. /\ Guest' = Guest /\ First' = First /\ Turned' = Turned
        /\ ByDevice' = ByDevice /\ ByKey' = ByKey /\ FirstForm' = FirstForm
        /\ Demanded' = Demanded /\ Suggested' = Suggested
    <3>1. Guest' = Guest
      BY <1>1 DEF signVars, Guest, Suggests, DefaultProvider, FindDevice
    <3>2. First' = First /\ ByDevice' = ByDevice /\ ByKey' = ByKey
      BY <1>1 DEF signVars, First, ByDevice, ByKey, Demanded, Suggested, DefaultProvider,
         FindDevice
    <3>3. FirstForm' = FirstForm
      BY <1>1 DEF signVars, FirstForm
    <3>4. Turned' = Turned /\ Demanded' = Demanded /\ Suggested' = Suggested
      BY <1>1 DEF signVars, Turned, Demanded, Suggested, DefaultProvider, FindDevice
    <3> QED BY <3>1, <3>2, <3>3, <3>4
  <2>2. Asking' = Asking
    BY <1>1, <2>1 DEF signVars, Asking, ByCode, Asserted
  <2> QED BY <1>1, <2>1, <2>2 DEF signVars
<1>2. CASE SignNext
  <2>1. UNCHANGED account
    BY <1>2 DEF SignNext, StartSignIn, Prelogin, PreloginFallback, Send, NotFound, Fails,
       TokensGranted, WrongPassword, AsksDevice, AsksTwoFactor, RetryFails,
       SendTwoFactorEmail, AssertKey, NothingToAssert, AskDevice, AskMethod, Leave,
       Again, Finish
  <2>2. Guest' => Guest
    BY <2>1 DEF Guest, Suggests, DefaultProvider, FindDevice
  <2> SUFFICES ASSUME Guest PROVE Honest'
    BY <2>1, <2>2
  <2>3. /\ account.honest /\ account.tty /\ account.password /\ ~account.faults
        /\ Demanded => ~account.device
        /\ account.methods \in Seq(Methods) /\ Suggested' = Suggested /\ Demanded' = Demanded
    BY <2>1 DEF Guest, Demanded, AnyAccount, Suggested, DefaultProvider, FindDevice
  <2>4. CASE StartSignIn
    BY <2>1, <2>3, <2>4 DEF StartSignIn, Payloads, Asking, First
  <2>5. CASE Prelogin \/ PreloginFallback
    BY <2>1, <2>3, <2>5 DEF Prelogin, PreloginFallback, Asking, First, ByDevice, ByKey,
       ByCode, Asserted
  <2>6. CASE Send
    BY <2>1, <2>3, <2>6 DEF Send, Asking, First, ByDevice, ByKey, ByCode, Asserted, FirstForm
  <2>7. CASE NotFound \/ Fails \/ WrongPassword \/ RetryFails
    BY <2>3, <2>7 DEF NotFound, Fails, WrongPassword, RetryFails, Examined
  <2>8. CASE TokensGranted
    BY <2>1, <2>8 DEF TokensGranted, Outcome
  <2>9. CASE AsksDevice
    <3>1. pc = "sent" /\ Asking /\ form = FirstForm /\ account.device /\ form.otp # "device"
      BY <2>9 DEF AsksDevice, Examined
    <3>2. First
      BY <3>1, HonestForm
    <3>3. /\ pc' = "returned" /\ outcome' = Outcome("new_device", <<>>)
          /\ UNCHANGED <<call, round>>
      BY <2>9, <3>2 DEF AsksDevice, RetryOrReturn, Given, First, NoCall, Call
    <3> QED BY <2>1, <3>1, <3>2, <3>3 DEF First
  <2>10. CASE AsksTwoFactor
    <3>1. /\ pc = "sent" /\ Asking /\ form = FirstForm /\ ~Proves(form)
          /\ account.device => form.otp = "device"
      BY <2>10 DEF AsksTwoFactor, Examined
    <3>2. First \/ ByKey
      BY <3>1, HonestForm
    <3>3. form = NoCall /\ call.code = NoProof
      BY <3>1, <3>2, HonestForm DEF First, ByKey, NoCall, Call
    <3>4. Demanded
      BY <3>1, <3>3, ProofsDiffer DEF Proves, Demanded, NoCall, Call, Typed
    <3>5. /\ pc' = "returned" /\ outcome' = Outcome("two_factor", account.methods)
          /\ UNCHANGED <<call, round>>
      BY <2>10, <3>3, <3>4 DEF AsksTwoFactor, RetryOrReturn, MailRetry, Given, ProvidersOf,
         Demanded
    <3> QED BY <2>1, <2>3, <3>2, <3>4, <3>5 DEF First, ByKey, Turned
  <2>11. CASE SendTwoFactorEmail
    BY <2>1, <2>3, <2>11 DEF SendTwoFactorEmail, First, Turned
  <2>12. CASE AssertKey
    <3>1. /\ pc = "returned" /\ WantsKey /\ outcome.kind = "two_factor"
      BY <2>12 DEF AssertKey, WantsKey
    <3>2. Turned /\ (First \/ ByKey)
      BY <3>1 DEF Outcome
    <3>3. Suggested = WebAuthn /\ call.otp = NoProof /\ round \in {1, 2}
      <4>1. CASE First
        <5>1. account.methods = <<WebAuthn>>
          BY <3>1, <3>2, <4>1 DEF WantsKey, Turned, Outcome, First, NoCall, Call, WebAuthn,
             Unset
        <5> QED BY <2>3, <3>2, <4>1, <5>1, SuggestedIsOne DEF Turned, Demanded, First,
                NoCall, Call, Suggested
      <4>2. CASE ByKey
        BY <4>2 DEF ByKey, Call
      <4> QED BY <3>2, <4>1, <4>2
    <3>4. account.key = "holds"
      BY <3>2, <3>3 DEF Guest, Suggests, Suggested, Turned, Demanded
    <3>5. /\ call' = Call(Assertion[round], WebAuthn, NoProof) /\ pc' = "prelogin"
          /\ round' = round
      BY <2>3, <2>12, <3>3, <3>4, HeldKeyAsserts DEF AssertKey, ParseWebauthnChallenge, Touches
    <3> QED BY <2>1, <2>3, <3>2, <3>3, <3>5 DEF Asking, Asserted, Turned
  <2>13. CASE NothingToAssert
    <3>1. ByKey /\ Turned => WantsKey
      BY DEF ByKey, Turned, WantsKey, Outcome, Call
    <3> QED BY <2>1, <2>3, <2>13, <3>1 DEF NothingToAssert, First, Turned
  <2>14. CASE AskDevice
    <3>1. First /\ account.device
      BY <2>14, <2>3 DEF AskDevice, MayAsk, Turned, Outcome
    <3>2. call' = Call(NoProof, Unset, "device") /\ round' = 2 /\ pc' = "prelogin"
      BY <2>3, <2>14, ProofsDiffer DEF AskDevice, Types, Given, Again, Typed
    <3> QED BY <2>1, <3>1, <3>2 DEF Asking, ByDevice
  <2>15. CASE AskMethod
    <3>1. Turned /\ First /\ pc = "answered" /\ outcome.providers = account.methods
      BY <2>15 DEF AskMethod, MayAsk, Outcome, Turned
    <3>2. Suggested \in Methods
      BY <2>3, <3>1, SuggestedIsOne DEF Turned, Demanded, Suggested
    <3>3. CASE Suggested = WebAuthn
      <4>1. call' = Call(NoProof, WebAuthn, NoProof) /\ round' = 2 /\ pc' = "prelogin"
        BY <2>3, <2>15, <3>1, <3>3 DEF AskMethod, Again, Suggested
      <4> QED BY <2>1, <2>3, <3>1, <3>3, <4>1 DEF Asking, ByKey, Turned
    <3>4. CASE Suggested = Mail /\ ~mailed
      <4>1. pc' = "done" /\ mailed' = mailed
        BY <2>3, <2>15, <3>1, <3>4 DEF AskMethod, Types, Given, Finish, Suggested, Mail,
           WebAuthn
      <4> QED BY <2>1, <2>3, <3>1, <3>4, <4>1 DEF Turned
    <3>5. CASE Suggested # WebAuthn /\ ~(Suggested = Mail /\ ~mailed)
      <4>1. CodeFor[Suggested] \in {"totp", "mail", "touch"}
        BY <3>2, <3>5, ProofsDiffer DEF Methods
      <4>2. Given(CodeFor[Suggested])
        BY <4>1, ProofsDiffer DEF Given, Typed
      <4>3. /\ call' = Call(CodeFor[Suggested], Suggested, NoProof) /\ round' = 2
            /\ pc' = "prelogin" /\ mailed' = mailed
        BY <2>3, <2>15, <3>1, <3>5, <4>2 DEF AskMethod, Types, Again, Suggested
      <4> QED BY <2>1, <2>3, <3>1, <3>5, <4>3 DEF Asking, ByCode, Turned
    <3> QED BY <3>3, <3>4, <3>5
  <2>16. CASE Leave
    <3>1. outcome.kind = "ok"
      BY <2>3, <2>16 DEF Leave, MayAsk, First, Turned, Outcome
    <3> QED BY <2>1, <2>16, <3>1 DEF Leave, Finish
  <2> HIDE DEF Honest, Return
  <2> QED BY <1>2, <2>4, <2>5, <2>6, <2>7, <2>8, <2>9, <2>10, <2>11, <2>12, <2>13, <2>14,
             <2>15, <2>16, ZenonT(60) DEF SignNext
<1> QED BY <1>1, <1>2

(* Who takes the method that is suggested at a terminal and types what is   *)
(* asked for is let in, with any methods in any order (main.rs, auth.rs,    *)
(* api.rs, webauthn.rs).                                                    *)
THEOREM HonestIsLetIn == SignSpec => []HonestUserSignsIn
<1>1. SignInit(AnyAccount) => Honest
  BY DEF SignInit, Honest
<1>2. Honest => HonestUserSignsIn
  BY DEF Honest, HonestUserSignsIn, HonestUser, Guest, Demanded, Suggests, Suggested
<1> QED BY <1>1, <1>2, HonestNext, PTL DEF SignSpec

(* What the server may have turned down by the time a proof is sent: in the *)
(* call of a code without a provider nothing; before the key is asked for   *)
(* an assertion, none of this round; and in a terminal's first round, in    *)
(* which nothing is typed, nothing but the key's assertion.                 *)
Unsent == {"prelogin", "preloginApi", "send"}
Refusals ==
  /\ account \in AnyAccount
  /\ pc = "begin" => refused = {}
  /\ pc # "begin" => round \in {1, 2}
  /\ call.code \in Typed \cup {NoProof} \cup Range(Assertion)
  /\ call.code \in Range(Assertion) => call.provider = WebAuthn
  /\ pc \in Unsent /\ FirstForm.code # NoProof => FirstForm \notin refused
  /\ Examined => form = FirstForm
  /\ pc = "retried" => Given(call.code) /\ form.code \in {NoProof, call.code}
  /\ (pc \in Unsent \/ Examined) /\ call.provider = Unset /\ call.code # NoProof => refused = {}
  /\ pc # "begin" /\ call.code = NoProof => \A f \in refused : f.code # Assertion[round]
  /\ pc # "begin" /\ account.tty /\ round = 1 =>
       /\ call.code \in {NoProof, Assertion[1]}
       /\ \A f \in refused : f.code \in {NoProof, Assertion[1]}
  /\ outcome.kind \in {"two_factor", "hinted"} =>
       outcome.providers \in Seq(Methods) /\ outcome.providers # <<>>

LEMMA NoAssertion == \A r \in {1, 2} : Assertion[r] # NoProof
  BY ProofsDiffer

LEMMA FormCode == FirstForm.code \in {NoProof, call.code}
<1>1. FirstForm \in {NoCall, Call(NoProof, Unset, call.otp),
                     Call(call.code, Totp, NoProof), Call(call.code, call.provider, NoProof)}
  BY DEF FirstForm
<1> QED BY <1>1 DEF NoCall, Call

LEMMA RefusalsNext == Refusals /\ [SignNext]_signVars => Refusals'
<1> SUFFICES ASSUME Refusals, [SignNext]_signVars PROVE Refusals'
  OBVIOUS
<1> USE DEF Refusals, Return, Examined, Unsent
<1>1. CASE UNCHANGED signVars
  BY <1>1 DEF signVars, FirstForm
<1>2. CASE StartSignIn
  <2>1. /\ pc = "begin" /\ pc' = "prelogin" /\ round' = 1 /\ refused' = {}
        /\ UNCHANGED <<account, outcome>> /\ call' \in Payloads
    BY <1>2 DEF StartSignIn
  <2>2. /\ call'.code \in Typed \cup {NoProof}
        /\ account.tty => call'.code = NoProof
    BY <2>1 DEF Payloads, NoCall, Call
  <2>3. call'.code \notin Range(Assertion)
    BY <2>2, ProofAssumption DEF Typed, Assertion, Range
  <2> QED BY <2>1, <2>2, <2>3
<1>3. CASE Prelogin \/ PreloginFallback
  BY <1>3 DEF Prelogin, PreloginFallback, FirstForm, Outcome
<1>4. CASE Send
  BY <1>4 DEF Send, FirstForm
<1>5. CASE NotFound \/ Fails \/ TokensGranted \/ WrongPassword
  <2>1. /\ UNCHANGED <<account, call, form, round, refused>> /\ pc # "begin"
        /\ pc' = "returned" \/ (pc = "sent" /\ pc' = "sentToBase")
        /\ \/ UNCHANGED outcome
           \/ outcome'.kind \notin {"two_factor", "hinted"}
           \/ outcome'.providers = <<Totp>>
    BY <1>5 DEF NotFound, Fails, TokensGranted, WrongPassword, Outcome, SanitizeAuthError
  <2>2. Totp \in Methods
    BY DEF Methods
  <2> QED BY <2>1, <2>2 DEF FirstForm
<1>6. CASE AsksDevice
  <2>1. /\ Examined /\ form = FirstForm /\ UNCHANGED <<account, call, round>>
        /\ refused' \in {refused, refused \cup {form}}
        /\ outcome'.kind = "new_device"
        /\ \/ pc' = "retried" /\ Given(call.code) /\ form'.code = NoProof
           \/ pc' = "returned"
    BY <1>6 DEF AsksDevice, NoteRefusal, RetryOrReturn, Outcome, Call
  <2> QED BY <2>1, FormCode, ProofAssumption DEF Assertion, Range
<1>7. CASE AsksTwoFactor
  <2>1. /\ Examined /\ form = FirstForm /\ UNCHANGED <<account, call, round>>
        /\ refused' \in {refused, refused \cup {form}}
        /\ outcome' = Outcome("two_factor", ProvidersOf(account.methods))
        /\ \/ pc' = "retried" /\ Given(call.code) /\ form'.code = form.code
           \/ pc' = "returned"
    BY <1>7 DEF AsksTwoFactor, NoteRefusal, RetryOrReturn, MailRetry, FirstForm, NoCall, Call
  <2>2. ProvidersOf(account.methods) \in Seq(Methods) /\ ProvidersOf(account.methods) # <<>>
    <3>1. account.methods \in Seq(Methods)
      BY DEF AnyAccount
    <3>2. <<Totp>> \in Seq(Methods) /\ <<Totp>> # <<>>
      BY DEF Methods
    <3> QED BY <3>1, <3>2 DEF ProvidersOf
  <2>3. /\ \A f \in refused' : f \in refused \/ f.code \in {NoProof, call.code}
        /\ form.code \in {NoProof, call.code}
    BY <2>1, FormCode
  <2>4. outcome'.providers = ProvidersOf(account.methods)
    BY <2>1 DEF Outcome
  <2> QED BY <2>1, <2>2, <2>3, <2>4, NoAssertion
<1>8. CASE RetryFails
  <2>1. pc = "retried" /\ pc' = "returned" /\ UNCHANGED <<account, call, round>>
    BY <1>8 DEF RetryFails
  <2>2. refused' \subseteq refused \cup {form}
    BY <1>8 DEF RetryFails, NoteRefusal
  <2>3. outcome' = outcome \/ outcome' = Outcome("error", <<>>)
    BY <1>8 DEF RetryFails
  <2>4. \A f \in refused' : f \in refused \/ f.code \in {NoProof, call.code}
    BY <2>1, <2>2
  <2>5. call.code # NoProof
    BY <2>1 DEF Given
  <2> QED BY <2>1, <2>3, <2>4, <2>5 DEF Outcome
<1>9. CASE SendTwoFactorEmail
  BY <1>9 DEF SendTwoFactorEmail, FirstForm
<1>10. CASE AssertKey
  <2>1. /\ pc = "returned" /\ WantsKey /\ call.code = NoProof
        /\ UNCHANGED <<account, refused, round, form>>
    BY <1>10 DEF AssertKey, WantsKey
  <2>2. \/ pc' = "answered" /\ UNCHANGED <<call, outcome>>
        \/ /\ pc' = "prelogin" /\ outcome' = Pending
           /\ call' = Call(Assertion[round], WebAuthn, call.otp)
    BY <1>10 DEF AssertKey
  <2>3. CASE pc' = "prelogin"
    <3>1. /\ call'.code = Assertion[round] /\ call'.provider = WebAuthn
          /\ outcome'.kind = "pending"
      BY <2>2, <2>3 DEF Call, Pending, Outcome
    <3>2. Assertion[round] \in Range(Assertion)
      BY <2>1 DEF Range, Assertion
    <3>3. FirstForm'.code \in {NoProof, Assertion[round]}
      BY <3>1, FormCode DEF FirstForm, NoCall, Call
    <3> QED BY <2>1, <2>3, <3>1, <3>2, <3>3, ProofAssumption DEF WebAuthn, Unset
  <2> QED BY <2>1, <2>2, <2>3
<1>11. CASE NothingToAssert \/ Leave
  BY <1>11 DEF NothingToAssert, Leave, Finish
<1>12. ASSUME NEW c, Again(c), pc = "answered", account.tty /\ round = 1,
               c.code \in Typed \cup {NoProof}, c.provider # Unset \/ c.code = NoProof
       PROVE  Refusals'
  <2>1. /\ call' = c /\ round' = 2 /\ pc' = "prelogin" /\ outcome'.kind = "pending"
        /\ UNCHANGED <<account, refused>>
    BY <1>12 DEF Again, Pending, Outcome
  <2>2. c.code \notin Range(Assertion)
    BY <1>12, ProofAssumption DEF Typed, Assertion, Range
  <2>3. \A f \in refused : f.code \in {NoProof, Assertion[1]}
    BY <1>12
  <2>4. Assertion[1] # Assertion[2] /\ Assertion[2] # NoProof /\ Assertion[1] \in Range(Assertion)
    BY NoAssertion DEF Assertion, Range
  <2>5. FirstForm'.code \in {NoProof, c.code}
    BY <2>1 DEF FirstForm, NoCall, Call
  <2> QED BY <1>12, <2>1, <2>2, <2>3, <2>4, <2>5
<1>13. CASE AskDevice
  <2>1. \/ Finish
        \/ \E code : Again(Call(NoProof, Unset, code))
    BY <1>13 DEF AskDevice
  <2>2. CASE Finish
    BY <1>13, <2>2 DEF Finish, AskDevice
  <2>3. ASSUME NEW code, Again(Call(NoProof, Unset, code)) PROVE Refusals'
    BY <1>12, <1>13, <2>3 DEF AskDevice, MayAsk, Call
  <2> QED BY <2>1, <2>2, <2>3
<1>14. CASE AskMethod
  <2>1. /\ pc = "answered" /\ account.tty /\ round = 1
        /\ outcome.providers \in Seq(Methods) /\ outcome.providers # <<>>
    BY <1>14 DEF AskMethod, MayAsk
  <2>2. PICK p \in IF account.honest THEN {DefaultProvider(outcome.providers)}
                   ELSE Range(outcome.providers) :
          IF p = WebAuthn THEN Again(Call(NoProof, WebAuthn, NoProof))
          ELSE \E code \in Types(IF p = Mail /\ ~mailed THEN "blank" ELSE CodeFor[p]) :
                 IF Given(code) THEN Again(Call(code, p, NoProof)) ELSE Finish
    BY <1>14 DEF AskMethod
  <2>3. p \in Methods
    <3>1. Range(outcome.providers) \subseteq Methods
      BY <2>1 DEF Range
    <3> QED BY <2>1, <2>2, <3>1, SuggestedIsOne
  <2>4. CASE p = WebAuthn
    BY <1>12, <2>1, <2>2, <2>4 DEF Call, WebAuthn, Unset
  <2>5. CASE p # WebAuthn
    <3>1. PICK code \in Types(IF p = Mail /\ ~mailed THEN "blank" ELSE CodeFor[p]) :
            IF Given(code) THEN Again(Call(code, p, NoProof)) ELSE Finish
      BY <2>2, <2>5
    <3>2. code \in Typed
      BY <2>3, <2>5, <3>1, ProofsDiffer DEF Types, Methods, Typed
    <3>3. CASE Finish
      BY <2>1, <3>3 DEF Finish
    <3>4. CASE Again(Call(code, p, NoProof))
      BY <1>12, <2>1, <2>3, <3>2, <3>4 DEF Call, Methods, Totp, Mail, YubiKey, WebAuthn, Unset
    <3> QED BY <3>1, <3>3, <3>4
  <2> QED BY <2>4, <2>5
<1> QED BY <1>1, <1>2, <1>3, <1>4, <1>5, <1>6, <1>7, <1>8, <1>9, <1>10, <1>11, <1>13, <1>14
   DEF SignNext

(* Every request with a code that is sent carries a proof the server has    *)
(* not turned down.                                                         *)
LEMMA SentFresh ==
  Refusals /\ [SignNext]_signVars =>
    [pc' \in {"sent", "retried"} /\ form'.code # NoProof => form' \notin refused']_signVars
<1> SUFFICES ASSUME Refusals, SignNext, pc' \in {"sent", "retried"}, form'.code # NoProof
             PROVE  form' \notin refused'
  OBVIOUS
<1>1. Send \/ AsksDevice \/ AsksTwoFactor
  BY DEF SignNext, StartSignIn, Prelogin, PreloginFallback, NotFound, Fails, TokensGranted,
     WrongPassword, RetryFails, SendTwoFactorEmail, AssertKey, NothingToAssert, AskDevice,
     AskMethod, Leave, Return, Again, Finish
<1>2. CASE Send
  BY <1>2 DEF Send, Refusals, Unsent
<1>3. CASE AsksDevice
  BY <1>3 DEF AsksDevice, RetryOrReturn, Return, Call
<1>4. CASE AsksTwoFactor
  <2>1. /\ Examined /\ form = FirstForm /\ refused' \subseteq refused \cup {form}
        /\ Given(call.code) /\ call.provider = Unset /\ form' = [form EXCEPT !.provider = Mail]
    BY <1>4 DEF AsksTwoFactor, RetryOrReturn, MailRetry, NoteRefusal, Return, Refusals
  <2>2. refused = {}
    BY <2>1 DEF Refusals, Given
  <2>3. form = Call(call.code, Totp, NoProof) \/ form.code = NoProof
    BY <2>1 DEF FirstForm, NoCall, Call
  <2>4. form' # form
    BY <2>1, <2>3 DEF Call, Totp, Mail
  <2> QED BY <2>1, <2>2, <2>4
<1> QED BY <1>1, <1>2, <1>3, <1>4

(* A code that the server has turned down is not sent to it again under the *)
(* same provider, by whatever retries and questions (api.rs, auth.rs).      *)
THEOREM NotSentAgain == SignSpec => NothingResent
<1>1. SignInit(AnyAccount) => Refusals
  <2> SUFFICES ASSUME SignInit(AnyAccount) PROVE Refusals
    OBVIOUS
  <2>1. /\ account \in AnyAccount /\ pc = "begin" /\ refused = {}
        /\ call.code = NoProof /\ outcome.kind = "pending"
    BY DEF SignInit, NoCall, Call, Pending, Outcome
  <2>2. NoProof \notin Range(Assertion)
    BY ProofAssumption
  <2> QED BY <2>1, <2>2 DEF Refusals, Examined, Unsent
<1> QED BY <1>1, RefusalsNext, SentFresh, PTL DEF SignSpec, NothingResent

-----------------------------------------------------------------------------
(* Addresses: any servers, certificates and download addresses, over        *)
(* settings an earlier command may have left.                               *)
Bound(c) ==
  c.cert # NoCert => /\ c.setFor \in Addresses /\ Permitted(c.setFor)
                     /\ c.origin = OriginOf(c.setFor)
Configs(servers, certs) ==
  {c \in [server : servers, identity : {NoUrl} \cup IdentityAddresses,
          cert : {NoCert} \cup certs, origin : {NoUrl} \cup Addresses,
          setFor : {NoUrl} \cup servers] :
     Permitted(c.server) /\ c.identity \in IdentitiesOf(c.server) /\ Bound(c)}
EndpointSpec(servers, certs, storages) ==
  /\ EndpointInit(Configs(servers, certs))
  /\ [][EndpointNext(servers, certs, storages)]_endpointVars

(* The session is one of the configured server, however it is spelled now;  *)
(* so are the identity addresses kept and held; and the end points that     *)
(* issued it are those data.json leads to.                                  *)
Same(u, v) == u.scheme = v.scheme /\ u.host = v.host
SettingsFit ==
  /\ settings \in [server : Addresses, identity : {NoUrl} \cup IdentityAddresses,
                   cert : {settings.cert}, origin : {settings.origin}, setFor : {settings.setFor}]
  /\ Permitted(settings.server)
  /\ settings.identity \in IdentitiesOf(settings.server)
  /\ Bound(settings)
SessionFits ==
  /\ kept \in [server : {NoUrl} \cup Addresses, identity : IdentitiesOf(settings.server)]
  /\ held \in IdentitiesOf(settings.server)
  /\ kept.server # NoUrl => Same(kept.server, settings.server) /\ Permitted(kept.server)
  /\ kept.server = NoUrl => kept.identity = NoUrl
  /\ issued # NoSession =>
       kept.server # NoUrl /\ issued = Resolve(kept.server, kept.identity)
Homeward == SettingsFit /\ SessionFits /\ RequestsGoHome

Safe(u) == u.scheme = "https" \/ Loopback(u.host)

LEMMA AddressParts ==
  ASSUME NEW u \in Addresses
  PROVE  /\ DOMAIN u = {"scheme", "host", "path", "slash"}
         /\ u.scheme \in {"https", "http", "none"} /\ u.path \in Seq(STRING)
         /\ u # NoUrl
  BY AddressAssumption DEF Addresses

LEMMA SecuredParts ==
  ASSUME NEW u \in Addresses
  PROVE  /\ Secured(u) \in Addresses /\ Secured(u).host = u.host
         /\ Secured(u).scheme = IF u.scheme = "http" /\ Loopback(u.host) THEN "http" ELSE "https"
  BY DEF Secured, Addresses

LEMMA WithoutEndParts ==
  ASSUME NEW u \in Addresses, NEW ends
  PROVE  /\ WithoutEnd(u, ends) \in Addresses
         /\ WithoutEnd(u, ends).host = u.host /\ WithoutEnd(u, ends).scheme = u.scheme
<1>1. CASE u.path # <<>>
  <2>1. SubSeq(u.path, 1, Len(u.path) - 1) \in Seq(STRING)
    BY <1>1, AddressParts
  <2> QED BY <2>1 DEF WithoutEnd, Addresses
<1>2. CASE u.path = <<>>
  BY <1>2 DEF WithoutEnd
<1> QED BY <1>1, <1>2

LEMMA UnderParts ==
  ASSUME NEW u \in Addresses, NEW end \in STRING
  PROVE  /\ Under(u, end) \in Addresses
         /\ Under(u, end).host = u.host /\ Under(u, end).scheme = u.scheme
<1>1. Append(u.path, end) \in Seq(STRING)
  BY AddressParts
<1> QED BY <1>1 DEF Under, Addresses

LEMMA HttpsParts ==
  ASSUME NEW h \in STRING
  PROVE  Https(h) \in Addresses /\ Https(h).scheme = "https" /\ Https(h).host = h
<1>1. <<>> \in Seq(STRING)
  OBVIOUS
<1> QED BY <1>1 DEF Https, Address, Addresses

(* The end points of a server lie on it, or at its cloud, and are           *)
(* protected.                                                               *)
LEMMA PointsParts ==
  ASSUME NEW s \in Addresses, NEW p, p = DefaultPoints(Secured(s))
  PROVE  /\ p = Points(p.base, p.api, p.identity)
         /\ p.base \in Addresses /\ p.api \in Addresses /\ p.identity \in Addresses
         /\ Safe(p.base) /\ Safe(p.api) /\ Safe(p.identity)
         /\ ~Cloud(s.host) => Same(p.api, Secured(s)) /\ p.base.host = s.host
<1>1. Secured(s) \in Addresses /\ Secured(s).host = s.host /\ Safe(Secured(s))
  BY SecuredParts DEF Safe
<1>2. ASSUME NEW b \in STRING, NEW a \in STRING, NEW i \in STRING, Cloud(s.host),
             p = Points(Https(b), Https(a), Https(i))
      PROVE  /\ p = Points(p.base, p.api, p.identity)
             /\ p.base \in Addresses /\ p.api \in Addresses /\ p.identity \in Addresses
             /\ Safe(p.base) /\ Safe(p.api) /\ Safe(p.identity)
  <2>1. p.base = Https(b) /\ p.api = Https(a) /\ p.identity = Https(i)
    BY <1>2 DEF Points
  <2>2. p = Points(p.base, p.api, p.identity)
    BY <1>2, <2>1
  <2> QED BY <2>1, <2>2, HttpsParts DEF Safe
<1>3. CASE s.host \in Europe \cup UnitedStates
  <2>1. Cloud(s.host)
    BY <1>3 DEF Cloud
  <2>2. \/ p = Points(Https("vault.bitwarden.eu"), Https("api.bitwarden.eu"),
                      Https("identity.bitwarden.eu"))
        \/ p = Points(Https("vault.bitwarden.com"), Https("api.bitwarden.com"),
                      Https("identity.bitwarden.com"))
    BY <1>1, <1>3 DEF DefaultPoints
  <2>3. /\ "vault.bitwarden.eu" \in STRING /\ "api.bitwarden.eu" \in STRING
        /\ "identity.bitwarden.eu" \in STRING /\ "vault.bitwarden.com" \in STRING
        /\ "api.bitwarden.com" \in STRING /\ "identity.bitwarden.com" \in STRING
    BY LiteralAssumption
  <2> QED BY <1>2, <2>1, <2>2, <2>3
<1>4. CASE s.host \notin Europe /\ s.host \notin UnitedStates
  <2> DEFINE root == WithoutEnd(Secured(s), {"api", "identity"})
  <2>1. root \in Addresses /\ root.host = s.host /\ root.scheme = Secured(s).scheme
    BY <1>1, WithoutEndParts
  <2>2. p = Points(root, Under(root, "api"), Under(root, "identity"))
    BY <1>1, <1>4 DEF DefaultPoints
  <2> HIDE DEF root
  <2>3. /\ Under(root, "api") \in Addresses /\ Same(Under(root, "api"), root)
        /\ Under(root, "identity") \in Addresses /\ Same(Under(root, "identity"), root)
    <3>1. "api" \in STRING /\ "identity" \in STRING
      BY LiteralAssumption
    <3> QED BY <2>1, <3>1, UnderParts DEF Same
  <2>4. p.base = root /\ p.api = Under(root, "api") /\ p.identity = Under(root, "identity")
    BY <2>2 DEF Points
  <2>5. p = Points(p.base, p.api, p.identity)
    BY <2>2, <2>4
  <2>6. Safe(root) /\ Safe(p.api) /\ Safe(p.identity)
    BY <1>1, <2>1, <2>3, <2>4 DEF Same, Safe
  <2>7. Same(p.api, Secured(s)) /\ p.base.host = s.host
    BY <1>1, <2>1, <2>3, <2>4 DEF Same
  <2> QED BY <2>1, <2>3, <2>4, <2>5, <2>6, <2>7
<1> QED BY <1>3, <1>4

LEMMA ResolveParts ==
  ASSUME NEW s \in Addresses, NEW i \in {NoUrl} \cup IdentityAddresses
  PROVE  LET p == Resolve(s, i)
             d == Resolve(s, NoUrl)
         IN /\ d = DefaultPoints(Secured(s))
            /\ p.base = d.base /\ p.api = d.api
            /\ p.identity \in Addresses /\ Safe(p.identity)
            /\ p.identity.host \in {d.identity.host, i.host}
            /\ i = NoUrl => p.identity.host = d.identity.host
<1> DEFINE d == DefaultPoints(Secured(s))
           e == WithoutEnd(Secured(i), {"connect/token"})
<1>1. s # NoUrl
  BY AddressParts
<1>2. Resolve(s, NoUrl) = d
  BY <1>1 DEF Resolve
<1>3. /\ d = Points(d.base, d.api, d.identity)
      /\ d.identity \in Addresses /\ Safe(d.identity)
  BY PointsParts
<1> HIDE DEF d
<1>4. CASE i = NoUrl
  <2>1. Resolve(s, i) = d /\ Resolve(s, NoUrl) = d
    BY <1>2, <1>4
  <2> QED BY <1>3, <2>1 DEF d
<1>5. CASE i # NoUrl
  <2>1. i \in Addresses
    BY <1>5, AddressAssumption
  <2>2. e \in Addresses /\ e.host = i.host /\ Safe(e)
    BY <2>1, SecuredParts, WithoutEndParts DEF Safe
  <2>3. Resolve(s, i) = [d EXCEPT !.identity = e]
    BY <1>1, <1>5 DEF Resolve, d
  <2> HIDE DEF e
  <2>4. /\ Resolve(s, i).base = d.base /\ Resolve(s, i).api = d.api
        /\ Resolve(s, i).identity = e
    BY <1>3, <2>3 DEF Points
  <2>5. i.host \in {Resolve(s, NoUrl).identity.host, i.host}
    OBVIOUS
  <2> QED BY <1>2, <1>5, <2>2, <2>4, <2>5 DEF d
<1> QED BY <1>4, <1>5

(* So what is sent to any of them goes to the server's site.                *)
LEMMA PointsAtHome ==
  ASSUME NEW s \in Addresses, NEW i \in IdentitiesOf(s),
         NEW to \in {Resolve(s, i).base, Resolve(s, i).api, Resolve(s, i).identity}
  PROVE  to.host \in SiteOf(s) /\ Safe(to)
<1> DEFINE d == Resolve(s, NoUrl)
           others == {x \in IdentityAddresses : IdentityServer[x.host] = s.host}
<1>1. /\ Safe(d.base) /\ Safe(d.api)
      /\ Resolve(s, i).base = d.base /\ Resolve(s, i).api = d.api
      /\ Safe(Resolve(s, i).identity)
      /\ Resolve(s, i).identity.host \in {d.identity.host, i.host}
      /\ i = NoUrl => Resolve(s, i).identity.host = d.identity.host
  <2>1. i \in {NoUrl} \cup IdentityAddresses
    BY DEF IdentitiesOf
  <2> QED BY <2>1, ResolveParts, PointsParts
<1>2. SiteOf(s) = {s.host, d.base.host, d.api.host, d.identity.host}
                    \cup {x.host : x \in others}
  BY DEF SiteOf
<1>3. i # NoUrl => i \in others
  BY DEF IdentitiesOf
<1> HIDE DEF d, others
<1> QED BY <1>1, <1>2, <1>3

(* A site is known by its server's host.                                    *)
LEMMA SiteByHost ==
  ASSUME NEW u \in Addresses, NEW v \in Addresses, u.host = v.host
  PROVE  SiteOf(u) = SiteOf(v) /\ u.host \in SiteOf(v)
<1> DEFINE Hosts(p) == {p.base.host, p.api.host, p.identity.host}
<1>1. ASSUME NEW s \in Addresses
      PROVE  /\ Secured(s) \in Addresses /\ Secured(s).host = s.host
             /\ Resolve(s, NoUrl) = DefaultPoints(Secured(s))
  BY SecuredParts, AddressParts DEF Resolve
<1>2. Hosts(DefaultPoints(Secured(u))) = Hosts(DefaultPoints(Secured(v)))
  <2>1. CASE u.host \in Europe \cup UnitedStates
    BY <1>1, <2>1 DEF DefaultPoints
  <2>2. CASE u.host \notin Europe \cup UnitedStates
    <3>1. ASSUME NEW s \in Addresses, s.host = u.host
          PROVE  Hosts(DefaultPoints(Secured(s))) = {u.host}
      <4> DEFINE root == WithoutEnd(Secured(s), {"api", "identity"})
      <4>1. root \in Addresses /\ root.host = u.host
        BY <1>1, <3>1, WithoutEndParts
      <4>2. DefaultPoints(Secured(s)) = Points(root, Under(root, "api"), Under(root, "identity"))
        BY <1>1, <2>2, <3>1 DEF DefaultPoints
      <4> HIDE DEF root
      <4>3. Under(root, "api").host = u.host /\ Under(root, "identity").host = u.host
        BY <4>1, UnderParts, LiteralAssumption
      <4> QED BY <4>1, <4>2, <4>3 DEF Points
    <3> QED BY <3>1
  <2> QED BY <2>1, <2>2
<1>3. ASSUME NEW s \in Addresses, s.host = u.host
      PROVE  SiteOf(s) = {u.host} \cup Hosts(DefaultPoints(Secured(s)))
               \cup {i.host : i \in {x \in IdentityAddresses : IdentityServer[x.host] = u.host}}
  BY <1>1, <1>3 DEF SiteOf
<1> HIDE DEF Hosts
<1> QED BY <1>2, <1>3

(* A permitted address that names a scheme is left as it is.                *)
LEMMA PermittedKept ==
  ASSUME NEW u \in Addresses, Permitted(u), u.scheme # "none"
  PROVE  Same(Secured(u), u)
  BY SecuredParts, AddressParts DEF Permitted, Same

(* The certificate is offered where it should be.                           *)
OfferedRight(target) ==
  settings.server.scheme # "none" /\ ~Cloud(settings.server.host)
    /\ settings.cert # NoCert /\ settings.setFor.scheme # "none"
  => (Offered(target) = settings.cert <=>
        SameOrigin(Secured(settings.setFor), Secured(settings.server)))

LEMMA OfferedAtHome ==
  ASSUME SettingsFit, NEW target \in Addresses,
         settings.server.scheme # "none" /\ ~Cloud(settings.server.host)
           => Same(target, settings.server)
  PROVE  OfferedRight(target)
<1> SUFFICES ASSUME settings.server.scheme # "none", ~Cloud(settings.server.host),
                    settings.cert # NoCert, settings.setFor.scheme # "none"
             PROVE  Offered(target) = settings.cert <=>
                      SameOrigin(Secured(settings.setFor), Secured(settings.server))
  BY DEF OfferedRight
<1> DEFINE f == settings.setFor
           v == settings.server
<1>1. /\ f \in Addresses /\ Permitted(f) /\ settings.origin = OriginOf(f)
      /\ v \in Addresses /\ Permitted(v) /\ Same(target, v)
  BY DEF SettingsFit, Bound
<1>2. f # NoUrl /\ v # NoUrl /\ target # NoUrl
  BY <1>1, AddressParts
<1>3. /\ settings.origin \in Addresses /\ settings.origin.scheme = f.scheme
      /\ settings.origin.host = f.host
  <2>1. settings.origin = Address(f.scheme, f.host, <<>>, FALSE)
    BY <1>1, <1>2 DEF OriginOf
  <2>2. <<>> \in Seq(STRING)
    OBVIOUS
  <2> QED BY <1>1, <2>1, <2>2 DEF Address, Addresses
<1>4. settings.origin # NoUrl
  BY <1>3, AddressParts
<1>5. /\ Secured(f) \in Addresses /\ Same(Secured(f), f)
      /\ Secured(v) \in Addresses /\ Same(Secured(v), v)
  BY <1>1, PermittedKept, SecuredParts
<1>6. Secured(f) # NoUrl /\ Secured(v) # NoUrl
  BY <1>5, AddressParts
<1>7. SameOrigin(settings.origin, target) <=> SameOrigin(Secured(f), Secured(v))
  BY <1>1, <1>2, <1>3, <1>4, <1>5, <1>6 DEF SameOrigin, Same
<1> QED BY <1>7 DEF Offered

(* Where it is offered, the client is for the host it was set for.          *)
LEMMA OfferedToItsHost ==
  ASSUME SettingsFit, NEW target, Offered(target) # NoCert
  PROVE  /\ Offered(target) = settings.cert /\ settings.setFor \in Addresses
         /\ target.host = settings.setFor.host /\ Safe(target)
         /\ \A s \in Addresses : s.host = target.host
              => SiteOf(s) = SiteOf(settings.setFor) /\ s.host \in SiteOf(settings.setFor)
<1> DEFINE f == settings.setFor
<1>1. settings.cert # NoCert /\ SameOrigin(settings.origin, target)
  BY DEF Offered
<1>2. f \in Addresses /\ Permitted(f) /\ settings.origin = OriginOf(f) /\ f # NoUrl
  BY <1>1, AddressParts DEF SettingsFit, Bound
<1>3. settings.origin.scheme = f.scheme /\ settings.origin.host = f.host
  BY <1>2 DEF OriginOf, Address
<1>4. target.host = f.host /\ target.scheme = f.scheme /\ f.scheme # "none"
  BY <1>1, <1>3 DEF SameOrigin
<1>5. Safe(target)
  BY <1>2, <1>4, AddressParts DEF Permitted, Safe
<1> QED BY <1>1, <1>2, <1>4, <1>5, SiteByHost DEF Offered

(* What is sent with the token, with the password or to ask whether the     *)
(* server is there goes home under these conditions; and nothing does.      *)
Requests == {"login", "sync", "renew", "download", "stored", "blob", "health"}

LEMMA RequestGoesHome ==
  ASSUME UNCHANGED settings, NEW what \in Requests, NEW to, NEW target, NEW name,
         sent' = Sent(what, to, target, name),
         Safe(to), OfferedRight(target),
         Offered(target) # NoCert /\ (what \in {"stored", "blob"} => ~Cloud(settings.server.host))
           => to.host \in SiteOf(settings.setFor),
         what \in {"sync", "download"} => to = issued'.api,
         what = "stored" => SameOrigin(to, issued'.base),
         what = "renew" => to.host \in SiteOf(kept'.server),
         what \in {"login", "health"} => to.host \in SiteOf(settings.server)
  PROVE  RequestsGoHome'
<1>1. CASE sent' = Nothing
  BY <1>1 DEF RequestsGoHome, TokenGoesHome, PasswordGoesHome, NothingInTheClear,
     CertificateAtItsServer, Nothing
<1>2. CASE sent' # Nothing
  <2>1. sent'.what = what /\ sent'.to = to /\ sent'.cert = Offered(target)
    BY <1>2 DEF Sent
  <2>2. TokenGoesHome'
    BY <2>1 DEF TokenGoesHome
  <2>3. PasswordGoesHome'
    BY <2>1 DEF PasswordGoesHome
  <2>4. NothingInTheClear'
    BY <2>1 DEF NothingInTheClear, Safe
  <2>5. CertificateAtItsServer'
    <3>1. Offered(target) \in {settings.cert, NoCert}
      BY DEF Offered
    <3>2. SameOrigin(to, Secured(settings.server)) /\ SameOrigin(to, Secured(settings.setFor))
            => SameOrigin(Secured(settings.setFor), Secured(settings.server))
      BY DEF SameOrigin
    <3> QED BY <2>1, <3>1, <3>2 DEF CertificateAtItsServer, OfferedRight
  <2> QED BY <2>2, <2>3, <2>4, <2>5 DEF RequestsGoHome
<1> QED BY <1>1, <1>2

LEMMA NothingGoes == ASSUME sent' = Nothing PROVE RequestsGoHome'
  BY DEF RequestsGoHome, TokenGoesHome, PasswordGoesHome, NothingInTheClear,
     CertificateAtItsServer, Nothing

(* Who works for a session has an identity address of its server, as has    *)
(* who logs in.                                                             *)
LEMMA IdentityFits ==
  ASSUME SettingsFit, SessionFits
  PROVE  /\ EffectiveIdentity(settings.server, settings.identity) \in IdentitiesOf(settings.server)
         /\ kept.server # NoUrl => IdentitiesOf(kept.server) = IdentitiesOf(settings.server)
         /\ \A byDaemon : OwnIdentity(byDaemon) \in IdentitiesOf(settings.server)
<1>1. /\ settings.identity \in IdentitiesOf(settings.server)
      /\ kept.identity \in IdentitiesOf(settings.server)
      /\ held \in IdentitiesOf(settings.server) /\ NoUrl \in IdentitiesOf(settings.server)
  BY DEF SettingsFit, SessionFits, IdentitiesOf
<1>2. EffectiveIdentity(settings.server, settings.identity) \in IdentitiesOf(settings.server)
  BY <1>1 DEF EffectiveIdentity
<1>3. kept.server # NoUrl => IdentitiesOf(kept.server) = IdentitiesOf(settings.server)
  BY DEF SessionFits, Same, IdentitiesOf
<1> QED BY <1>1, <1>2, <1>3 DEF OwnIdentity

LEMMA SetServerKeeps ==
  ASSUME Homeward, NEW u \in Addresses, NEW given \in BOOLEAN, NEW i \in IdentitiesOf(u),
         SetServer(u, given, i)
  PROVE  Homeward'
<1> DEFINE kind == IF given THEN i
                   ELSE IF ServerChanged(u) THEN NoUrl ELSE settings.identity
<1>1. /\ Permitted(u) /\ settings' = [settings EXCEPT !.server = u, !.identity = kind]
      /\ IF ServerChanged(u) THEN Purge ELSE UNCHANGED <<kept, held, issued>>
      /\ sent' = Nothing
  BY DEF SetServer
<1>2. u # NoUrl /\ settings.server # NoUrl /\ settings.server \in Addresses
  BY AddressParts DEF Homeward, SettingsFit
<1>3. ~ServerChanged(u) => Same(settings.server, u)
  BY <1>2 DEF ServerChanged, Spelling, Same, Addresses
<1>4. ~ServerChanged(u) => IdentitiesOf(settings.server) = IdentitiesOf(u)
  BY <1>3 DEF IdentitiesOf, Same
<1>5. kind \in IdentitiesOf(u) /\ IdentitiesOf(u) \subseteq {NoUrl} \cup IdentityAddresses
  BY <1>4 DEF IdentitiesOf, Homeward, SettingsFit
<1> HIDE DEF kind
<1>6. SettingsFit'
  <2>1. /\ settings'.server = u /\ settings'.identity = kind
        /\ settings'.cert = settings.cert /\ settings'.origin = settings.origin
        /\ settings'.setFor = settings.setFor
    BY <1>1 DEF Homeward, SettingsFit
  <2>2. Bound(settings)'
    BY <2>1 DEF Homeward, SettingsFit, Bound
  <2>3. settings' \in [server : Addresses, identity : {NoUrl} \cup IdentityAddresses,
                       cert : {settings.cert}, origin : {settings.origin},
                       setFor : {settings.setFor}]
    BY <1>1, <1>5 DEF Homeward, SettingsFit
  <2> QED BY <1>1, <1>5, <2>1, <2>2, <2>3 DEF SettingsFit
<1>7. SessionFits'
  <2>1. settings'.server = u
    BY <1>1 DEF Homeward, SettingsFit
  <2>2. CASE ServerChanged(u)
    BY <1>1, <2>1, <2>2 DEF Purge, SessionFits, IdentitiesOf
  <2>3. CASE ~ServerChanged(u)
    BY <1>1, <1>3, <1>4, <2>1, <2>3 DEF Homeward, SessionFits, Same
  <2> QED BY <2>2, <2>3
<1> QED BY <1>1, <1>6, <1>7, NothingGoes DEF Homeward

LEMMA CertificateKeeps ==
  ASSUME Homeward, NEW c, SetCertificate(c) \/ FilesChange(c)
  PROVE  Homeward'
<1>1. UNCHANGED <<kept, held, issued>> /\ sent' = Nothing
  BY DEF SetCertificate, FilesChange
<1>2. /\ settings.server \in Addresses /\ settings'.server = settings.server
      /\ settings'.identity = settings.identity
      /\ DOMAIN settings' = DOMAIN settings
  BY DEF SetCertificate, FilesChange, Homeward, SettingsFit
<1>3. Bound(settings)'
  <2>1. CASE SetCertificate(c)
    <3>1. /\ settings'.cert = c /\ settings'.setFor = settings.server
          /\ settings'.origin = IF c = NoCert THEN NoUrl ELSE OriginOf(settings.server)
      BY <2>1 DEF SetCertificate, Homeward, SettingsFit
    <3> QED BY <3>1 DEF Bound, Homeward, SettingsFit
  <2>2. CASE FilesChange(c)
    <3>1. /\ settings.cert # NoCert /\ settings'.setFor = settings.setFor
          /\ settings'.origin = settings.origin
      BY <2>2 DEF FilesChange, Homeward, SettingsFit
    <3> QED BY <3>1 DEF Bound, Homeward, SettingsFit
  <2> QED BY <2>1, <2>2
<1>4. settings' \in [server : Addresses, identity : {NoUrl} \cup IdentityAddresses,
                     cert : {settings'.cert}, origin : {settings'.origin},
                     setFor : {settings'.setFor}]
  BY DEF SetCertificate, FilesChange, Homeward, SettingsFit
<1>5. SettingsFit'
  BY <1>2, <1>3, <1>4 DEF SettingsFit, Homeward
<1>6. SessionFits'
  BY <1>1, <1>2 DEF SessionFits, Homeward
<1> QED BY <1>1, <1>5, <1>6, NothingGoes DEF Homeward

LEMMA LoginKeeps == ASSUME Homeward, Login PROVE Homeward'
<1> DEFINE s == settings.server
           i == EffectiveIdentity(s, settings.identity)
           points == Resolve(s, i)
<1>1. s \in Addresses /\ Permitted(s) /\ s # NoUrl
  BY AddressParts DEF Homeward, SettingsFit
<1>2. i \in IdentitiesOf(s)
  BY IdentityFits DEF Homeward
<1>3. PICK to \in TokenTargets(points) :
        /\ sent' = Sent("login", to, s, "omawarden")
        /\ IF sent' # Nothing
           THEN kept' = [server |-> s, identity |-> i] /\ issued' = points
           ELSE UNCHANGED <<kept, issued>>
        /\ UNCHANGED <<settings, held>>
  BY DEF Login
<1>4. to \in {points.base, points.identity}
  BY DEF TokenTargets
<1> HIDE DEF i, points
<1>5. to.host \in SiteOf(s) /\ Safe(to)
  BY <1>1, <1>2, <1>4, PointsAtHome DEF points
<1>6. OfferedRight(s) /\ (Offered(s) # NoCert => SiteOf(s) = SiteOf(settings.setFor))
  BY <1>1, OfferedAtHome, OfferedToItsHost DEF Homeward, Same
<1>7. RequestsGoHome'
  BY <1>3, <1>5, <1>6, RequestGoesHome DEF Requests
<1>8. SettingsFit'
  BY <1>3 DEF Homeward, SettingsFit, Bound
<1>9. SessionFits'
  <2>1. CASE sent' = Nothing
    BY <1>3, <2>1 DEF Homeward, SessionFits
  <2>2. CASE sent' # Nothing
    <3>1. /\ kept' = [server |-> s, identity |-> i] /\ issued' = Resolve(s, i)
          /\ UNCHANGED <<settings, held>>
      BY <1>3, <2>2 DEF points
    <3> QED BY <1>1, <1>2, <3>1 DEF Homeward, SessionFits, Same
  <2> QED BY <2>1, <2>2
<1> QED BY <1>7, <1>8, <1>9 DEF Homeward

(* The end points of a session are those that issued it.                    *)
LEMMA SessionPoints ==
  ASSUME Homeward, issued # NoSession, NEW i \in IdentitiesOf(settings.server)
  PROVE  LET p == Resolve(ServerOfSession, i)
         IN /\ ServerOfSession = kept.server /\ kept.server \in Addresses
            /\ Same(kept.server, settings.server)
            /\ p.api = issued.api /\ p.base = issued.base
            /\ ~Cloud(settings.server.host) => p.api.host = p.base.host
            /\ \A to \in {p.base, p.api, p.identity} :
                 to.host \in SiteOf(kept.server) /\ Safe(to)
            /\ OfferedRight(kept.server) /\ OfferedRight(p.api) /\ p.api \in Addresses
            /\ Offered(kept.server) # NoCert => SiteOf(kept.server) = SiteOf(settings.setFor)
<1> DEFINE k == kept.server
           p == Resolve(k, i)
<1>1. /\ k # NoUrl /\ k \in Addresses /\ Same(k, settings.server) /\ Permitted(k)
      /\ issued = Resolve(k, kept.identity) /\ kept.identity \in IdentitiesOf(settings.server)
  BY DEF Homeward, SessionFits
<1>2. ServerOfSession = k
  BY <1>1 DEF ServerOfSession
<1>3. i \in IdentitiesOf(k) /\ kept.identity \in IdentitiesOf(k)
  BY <1>1, IdentityFits DEF Homeward
<1>4. i \in {NoUrl} \cup IdentityAddresses /\ kept.identity \in {NoUrl} \cup IdentityAddresses
  BY <1>3 DEF IdentitiesOf
<1>5. /\ p.api = issued.api /\ p.api = DefaultPoints(Secured(k)).api
      /\ p.base = issued.base /\ p.base = DefaultPoints(Secured(k)).base
  BY <1>1, <1>4, ResolveParts
<1>9. p.api \in Addresses /\ (~Cloud(settings.server.host) => p.api.host = p.base.host)
  <2>1. Secured(k).host = k.host /\ k.host = settings.server.host
    BY <1>1, SecuredParts DEF Same
  <2> DEFINE d == DefaultPoints(Secured(k))
  <2>2. d.api \in Addresses
        /\ (~Cloud(k.host) => Same(d.api, Secured(k)) /\ d.base.host = k.host)
    BY <1>1, PointsParts
  <2> HIDE DEF d
  <2>3. p.api = d.api /\ p.base = d.base
    BY <1>5 DEF d
  <2> QED BY <2>1, <2>2, <2>3 DEF Same
<1>6. \A to \in {p.base, p.api, p.identity} : to.host \in SiteOf(k) /\ Safe(to)
  BY <1>1, <1>3, PointsAtHome
<1>7. OfferedRight(k) /\ (Offered(k) # NoCert => SiteOf(k) = SiteOf(settings.setFor))
  BY <1>1, OfferedAtHome, OfferedToItsHost DEF Homeward
<1>8. OfferedRight(p.api)
  <2>1. p.api \in Addresses /\ (~Cloud(k.host) => Same(p.api, Secured(k)))
    BY <1>1, <1>5, PointsParts
  <2>2. k.scheme # "none" => Same(Secured(k), k)
    BY <1>1, PermittedKept
  <2>3. settings.server.scheme # "none" /\ ~Cloud(settings.server.host)
          => Same(p.api, settings.server)
    BY <1>1, <2>1, <2>2 DEF Same
  <2> QED BY <2>1, <2>3, OfferedAtHome DEF Homeward
<1> HIDE DEF k, p
<1> QED BY <1>1, <1>2, <1>5, <1>6, <1>7, <1>8, <1>9 DEF k, p

LEMMA SyncKeeps ==
  ASSUME Homeward, NEW byDaemon, NEW terminal, NEW manifest, Sync(byDaemon, terminal, manifest)
  PROVE  Homeward'
<1> DEFINE own == OwnIdentity(byDaemon)
           i == IF own # NoUrl THEN own ELSE kept.identity
           points == Resolve(ServerOfSession, i)
<1>1. i \in IdentitiesOf(settings.server)
  BY IdentityFits DEF Homeward, SessionFits
<1>2. PICK what \in {"sync", "renew"}, to \in {points.base, points.api, points.identity} :
        /\ what = "sync" => to = points.api
        /\ what = "renew" => to \in {points.identity, points.base}
        /\ sent' = Sent(what, to, ServerOfSession, ClientName(terminal, manifest))
        /\ issued # NoSession /\ UNCHANGED <<settings, kept, held, issued>>
  BY DEF Sync, TokenTargets
<1> HIDE DEF i, points
<1>3. /\ ServerOfSession = kept.server /\ points.api = issued.api
      /\ to.host \in SiteOf(kept.server) /\ Safe(to) /\ OfferedRight(ServerOfSession)
      /\ Offered(ServerOfSession) # NoCert => SiteOf(kept.server) = SiteOf(settings.setFor)
  BY <1>1, <1>2, SessionPoints DEF points
<1>4. RequestsGoHome'
  BY <1>2, <1>3, RequestGoesHome DEF Requests
<1>5. SettingsFit' /\ SessionFits'
  BY <1>2 DEF Homeward, SettingsFit, SessionFits, Bound
<1> QED BY <1>4, <1>5 DEF Homeward

LEMMA FetchKeeps ==
  ASSUME Homeward, NEW storage, FetchAttachment(storage)
  PROVE  Homeward'
<1> DEFINE points == Resolve(ServerOfSession, NoUrl)
<1>1. NoUrl \in IdentitiesOf(settings.server)
  BY DEF IdentitiesOf
<1>2. issued # NoSession /\ UNCHANGED <<settings, kept, held, issued>>
  BY DEF FetchAttachment
<1>3. /\ points.api = issued.api /\ Safe(points.api) /\ OfferedRight(points.api)
      /\ points.base = issued.base /\ Safe(points.base) /\ points.api \in Addresses
      /\ ~Cloud(settings.server.host) => points.api.host = points.base.host
  BY <1>1, <1>2, SessionPoints
<1>4. Offered(points.api) # NoCert =>
        /\ points.api.host = settings.setFor.host
        /\ points.api.host \in SiteOf(settings.setFor)
  BY <1>3, OfferedToItsHost DEF Homeward
<1>5. \/ sent' = Sent("download", points.api, points.api, "omawarden")
      \/ /\ SameOrigin(storage, points.base)
         /\ \E what \in {"stored", "blob"} : sent' = Sent(what, storage, points.api, "omawarden")
      \/ /\ Loads(Offered(points.api))
         /\ sent' = [what |-> "blob", to |-> storage, name |-> "omawarden",
                     cert |-> Offered(IF Loads(Offered(storage)) THEN storage ELSE points.api)]
  BY DEF FetchAttachment
<1> HIDE DEF points
<1>6. RequestsGoHome'
  <2>1. CASE sent' = Sent("download", points.api, points.api, "omawarden")
    BY <1>2, <1>3, <1>4, <2>1, RequestGoesHome DEF Requests
  <2>2. CASE /\ SameOrigin(storage, points.base)
             /\ \E what \in {"stored", "blob"} :
                  sent' = Sent(what, storage, points.api, "omawarden")
    <3>1. PICK what \in {"stored", "blob"} : sent' = Sent(what, storage, points.api, "omawarden")
      BY <2>2
    <3>2. storage.host = points.base.host /\ storage.scheme = points.base.scheme
      BY <2>2 DEF SameOrigin
    <3>3. Safe(storage)
      BY <1>3, <3>2 DEF Safe
    <3>4. Offered(points.api) # NoCert /\ ~Cloud(settings.server.host)
            => storage.host \in SiteOf(settings.setFor)
      BY <1>3, <1>4, <3>2
    <3> QED BY <1>2, <1>3, <2>2, <3>1, <3>3, <3>4, RequestGoesHome DEF Requests
  <2>3. CASE /\ Loads(Offered(points.api))
             /\ sent' = [what |-> "blob", to |-> storage, name |-> "omawarden",
                         cert |-> Offered(IF Loads(Offered(storage)) THEN storage ELSE points.api)]
    <3>1. sent'.what = "blob" /\ sent'.to = storage
      BY <2>3
    <3>2. sent'.cert # NoCert => sent'.cert = Offered(storage)
      <4>1. Offered(storage) \in {settings.cert, NoCert} /\ Offered(points.api) \in {settings.cert, NoCert}
        BY DEF Offered
      <4>2. Loads(NoCert)
        BY DEF Loads
      <4> QED BY <2>3, <4>1, <4>2
    <3>3. sent'.cert # NoCert =>
            /\ sent'.cert = settings.cert /\ Safe(storage)
            /\ storage.host = settings.setFor.host /\ settings.setFor \in Addresses
      BY <3>2, OfferedToItsHost DEF Homeward
    <3>4. sent'.cert # NoCert => storage.host \in SiteOf(settings.setFor)
      BY <3>3, SiteByHost
    <3> QED BY <1>2, <3>1, <3>3, <3>4 DEF RequestsGoHome, TokenGoesHome, PasswordGoesHome,
       NothingInTheClear, CertificateAtItsServer, Safe
  <2> QED BY <1>5, <2>1, <2>2, <2>3
<1>7. SettingsFit' /\ SessionFits'
  BY <1>2 DEF Homeward, SettingsFit, SessionFits, Bound
<1> QED BY <1>6, <1>7 DEF Homeward

LEMMA HealthKeeps == ASSUME Homeward, Health PROVE Homeward'
<1> DEFINE s == settings.server
           points == Resolve(s, NoUrl)
<1>1. s \in Addresses /\ NoUrl \in IdentitiesOf(s) /\ Permitted(s)
  BY DEF Homeward, SettingsFit, IdentitiesOf
<1>2. UNCHANGED <<settings, kept, held, issued>>
  BY DEF Health
<1>3. PICK to \in {points.identity, points.api, points.base, Spelling(s)} :
        /\ sent' = Sent("health", to, s, "omawarden")
        /\ to = Spelling(s) => to \in {points.identity, points.api, points.base} \/ s.scheme # "none"
  BY DEF Health
<1> HIDE DEF points
<1>4. to.host \in SiteOf(s) /\ Safe(to)
  <2>1. CASE to \in {points.identity, points.api, points.base}
    BY <1>1, <2>1, PointsAtHome DEF points
  <2>2. CASE to = Spelling(s) /\ s.scheme # "none"
    <3>1. to.host = s.host /\ to.scheme = s.scheme
      BY <1>1, <2>2 DEF Spelling, Addresses
    <3>2. Safe(to)
      BY <1>1, <2>2, <3>1, AddressParts DEF Permitted, Safe
    <3> QED BY <1>1, <3>1, <3>2, SiteByHost
  <2> QED BY <1>3, <2>1, <2>2
<1>5. OfferedRight(s) /\ (Offered(s) # NoCert => SiteOf(s) = SiteOf(settings.setFor))
  BY <1>1, OfferedAtHome, OfferedToItsHost DEF Homeward, Same
<1>6. RequestsGoHome'
  BY <1>2, <1>3, <1>4, <1>5, RequestGoesHome DEF Requests
<1>7. SettingsFit' /\ SessionFits'
  BY <1>2 DEF Homeward, SettingsFit, SessionFits, Bound
<1> QED BY <1>6, <1>7 DEF Homeward

LEMMA SessionKeeps == ASSUME Homeward, Logout \/ StartDaemon PROVE Homeward'
<1>1. sent' = Nothing /\ UNCHANGED settings
  BY DEF Logout, StartDaemon
<1>2. SettingsFit'
  BY <1>1 DEF Homeward, SettingsFit, Bound
<1>3. SessionFits'
  <2>1. CASE Logout
    BY <1>1, <2>1 DEF Logout, Homeward, SessionFits, IdentitiesOf
  <2>2. CASE StartDaemon
    BY <1>1, <2>2 DEF StartDaemon, Homeward, SessionFits
  <2> QED BY <2>1, <2>2
<1> QED BY <1>1, <1>2, <1>3, NothingGoes DEF Homeward

(* Over any changes of the settings, logins, restarts of the daemon and     *)
(* files of certificates, whatever a request carries goes where it belongs, *)
(* the token, the password and the certificate: for servers of any          *)
(* addresses, and whatever storage addresses they answer with (api.rs,      *)
(* config.rs, auth.rs, vault.rs, attachment.rs).                            *)
THEOREM RequestsAtHome ==
  ASSUME NEW servers \in SUBSET Addresses, NEW certs, NEW storages
  PROVE  EndpointSpec(servers, certs, storages) => []RequestsGoHome
<1>1. EndpointInit(Configs(servers, certs)) => Homeward
  <2> SUFFICES ASSUME EndpointInit(Configs(servers, certs)) PROVE Homeward
    OBVIOUS
  <2>1. SettingsFit
    BY DEF EndpointInit, Configs, SettingsFit
  <2>2. SessionFits
    BY DEF EndpointInit, SessionFits, IdentitiesOf
  <2>3. RequestsGoHome
    BY DEF EndpointInit, RequestsGoHome, TokenGoesHome, PasswordGoesHome, NothingInTheClear,
       CertificateAtItsServer, Nothing
  <2> QED BY <2>1, <2>2, <2>3 DEF Homeward
<1>2. Homeward /\ [EndpointNext(servers, certs, storages)]_endpointVars => Homeward'
  <2> SUFFICES ASSUME Homeward, [EndpointNext(servers, certs, storages)]_endpointVars
               PROVE  Homeward'
    OBVIOUS
  <2>1. CASE UNCHANGED endpointVars
    BY <2>1 DEF endpointVars, Homeward, SettingsFit, SessionFits, Bound, RequestsGoHome,
       TokenGoesHome, PasswordGoesHome, NothingInTheClear, CertificateAtItsServer
  <2>2. CASE \E u \in servers, given \in BOOLEAN : \E i \in IdentitiesOf(u) :
               SetServer(u, given, i)
    BY <2>2, SetServerKeeps
  <2>3. CASE \E c \in certs : SetCertificate(c) \/ FilesChange(c)
    BY <2>3, CertificateKeeps
  <2>4. CASE Login \/ Logout \/ StartDaemon \/ Health
    BY <2>4, LoginKeeps, SessionKeeps, HealthKeeps
  <2>5. CASE \E byDaemon, terminal \in BOOLEAN, m \in {"valid", "malformed"} :
               Sync(byDaemon, terminal, m)
    BY <2>5, SyncKeeps
  <2>6. CASE \E u \in storages : FetchAttachment(u)
    BY <2>6, FetchKeeps
  <2> QED BY <2>1, <2>2, <2>3, <2>4, <2>5, <2>6 DEF EndpointNext
<1>3. Homeward => RequestsGoHome
  BY DEF Homeward
<1> QED BY <1>1, <1>2, <1>3, PTL DEF EndpointSpec

-----------------------------------------------------------------------------
(* Keys: every account whose parts may be of any kind, encrypted with any   *)
(* number of iterations, any of them without a MAC.                         *)
AllAccounts ==
  [password : BOOLEAN, iterations : Nat, mac : BOOLEAN, old : BOOLEAN,
   rsa : {"none", "whole", "damaged"}, org : {"none", "rsa", "user", "missing"},
   itemKey : {"none", "base", "user", "damaged"}, field : BOOLEAN,
   fileKey : {"none", "item", "user"}, file : {"whole", "damaged", "empty"},
   layout : {"header", "bare"}, twoFirst : BOOLEAN, deleted : BOOLEAN, type : Nat,
   bare : SUBSET BareParts]
KeySpec == KeysInit(AllAccounts) /\ [][KeysNext]_keyVars
AnAccount(a) ==
  /\ a.password \in BOOLEAN /\ a.mac \in BOOLEAN /\ a.old \in BOOLEAN /\ a.field \in BOOLEAN
  /\ a.file \in {"whole", "damaged", "empty"} /\ a.deleted \in BOOLEAN
  /\ a.iterations \in Nat /\ a.rsa \in {"none", "whole", "damaged"}
  /\ a.org \in {"none", "rsa", "user", "missing"}
  /\ a.itemKey \in {"none", "base", "user", "damaged"}
  /\ a.fileKey \in {"none", "item", "user"}

(* What can come of decrypting.                                             *)
LEMMA Decrypted ==
  ASSUME NEW e, NEW k
  PROVE  /\ e.type = 2 => Decrypt(e, k) = IF k.mac /\ Unwraps(e, k) THEN {e.of} ELSE {Fail}
         /\ e.type = 0 /\ e.left = e.of =>
              Decrypt(e, k) = IF e.by.id = k.id THEN {e.of} ELSE {Fail, Garbage}
         /\ e.type # 0 => Decrypt(e, k) \subseteq {e.of, Fail}
  BY DEF Decrypt

LEMMA EncParts ==
  ASSUME NEW type, NEW k, NEW of, NEW left
  PROVE  /\ Enc(type, k, of, left).type = type /\ Enc(type, k, of, left).by = k
         /\ Enc(type, k, of, left).of = of /\ Enc(type, k, of, left).left = left
  BY DEF Enc

LEMMA KeyParts ==
  ASSUME NEW id, NEW mac PROVE Key(id, mac).id = id /\ Key(id, mac).mac = mac
  BY DEF Key

(* A part is of its type, and nothing is missing.                           *)
LEMMA SealedParts ==
  ASSUME NEW a, NEW part, NEW k, NEW x, NEW e, e = Sealed(a, part, k, x)
  PROVE  /\ e.type \in {0, 2} /\ e.by = k /\ e.of = x /\ e.left = x
         /\ k.mac /\ part \notin a.bare => e.type = 2
         /\ Damaged(e, Garbage).of = x
<1>1. PICK t \in {0, 2} : /\ e = Enc(t, k, x, x)
                          /\ k.mac /\ part \notin a.bare => t = 2
  BY DEF Sealed, Encrypt
<1>2. e.type = t /\ e.by = k /\ e.of = x /\ e.left = x
  BY <1>1, EncParts
<1>3. Damaged(e, Garbage).of = x
  BY <1>1 DEF Enc, Damaged
<1> QED BY <1>1, <1>2, <1>3

(* It opens with its own key; with another, where it has a MAC, not at all. *)
LEMMA SealedOpens ==
  ASSUME NEW a, NEW part, NEW k, NEW x, NEW e, e = Sealed(a, part, k, x), NEW j,
         k.mac
  PROVE  /\ Decrypt(e, k) = {x}
         /\ part \notin a.bare => Decrypt(e, j) \in {{x}, {Fail}}
<1>1. /\ e.type \in {0, 2} /\ e.by = k /\ e.of = x /\ e.left = x
      /\ part \notin a.bare => e.type = 2
  BY SealedParts
<1>2. Decrypt(e, k) = {x}
  BY <1>1, Decrypted DEF Unwraps
<1>3. part \notin a.bare => Decrypt(e, j) \in {{x}, {Fail}}
  BY <1>1, Decrypted DEF Unwraps
<1> QED BY <1>2, <1>3

(* The right password opens what was encrypted with it, and no other does.  *)
LEMMA RightPasswordUnlocks ==
  ASSUME NEW a, AnAccount(a), NEW k \in UnlockUserKey(a), k # Fail
  PROVE  a.password /\ k = UserKey(a)
<1> DEFINE e == EncUserKey(a)
           m == DeriveMasterKey(a.password, a.iterations)
           t == <<TRUE, a.iterations>>
<1>1. e = IF a.old THEN Enc(0, MasterKey("raw", t, FALSE), UserKey(a), UserKey(a))
          ELSE Enc(2, MasterKey("expand", t, TRUE), UserKey(a), UserKey(a))
  BY DEF EncUserKey
<1>2. m = t => a.password
  <2> SUFFICES ASSUME m = t PROVE a.password
    OBVIOUS
  <2>1. m[1] = a.password
    BY DEF DeriveMasterKey
  <2>2. t[1] = TRUE
    OBVIOUS
  <2> QED BY <2>1, <2>2
<1> HIDE DEF e, m, t
<1>3. /\ e.of = UserKey(a) /\ e.left = e.of /\ e.type \in {0, 2}
      /\ e.by.id \in {<<"raw", t>>, <<"expand", t>>}
  <2>1. CASE a.old
    BY <1>1, <2>1 DEF Enc, MasterKey, Key
  <2>2. CASE ~a.old
    BY <1>1, <2>2 DEF Enc, MasterKey, Key
  <2> QED BY <2>1, <2>2
<1>4. ASSUME NEW how, NEW mac, NEW o \in Decrypt(e, MasterKey(how, m, mac))
      PROVE  o \in {Fail, Garbage} \/ (o = UserKey(a) /\ a.password)
  <2>1. ASSUME e.by.id = MasterKey(how, m, mac).id PROVE a.password
    <3>1. e.by.id = <<how, m>>
      BY <2>1, KeyParts DEF MasterKey
    <3>2. m = t
      BY <1>3, <3>1
    <3> QED BY <1>2, <3>2
  <2>2. o \in {Fail, Garbage} \/ (o = e.of /\ e.by.id = MasterKey(how, m, mac).id)
    BY <1>3, <1>4, Decrypted DEF Unwraps
  <2> QED BY <1>3, <2>1, <2>2
<1>5. ASSUME NEW o \in DecryptWithMasterKey(e, m)
      PROVE  o \in {Fail, Garbage} \/ (o = UserKey(a) /\ a.password)
  <2>1. \/ \E how, mac : o \in Decrypt(e, MasterKey(how, m, mac))
        \/ o = Fail
    BY <1>5 DEF DecryptWithMasterKey, OrElse
  <2> QED BY <1>4, <2>1
<1>6. PICK o \in DecryptWithMasterKey(e, m) : k = IF o = Garbage THEN Fail ELSE o
  BY DEF UnlockUserKey, AsKey, e, m
<1> QED BY <1>5, <1>6

LEMMA KeysAreKeys ==
  ASSUME NEW a, AnAccount(a)
  PROVE  /\ UserKey(a) \notin {Fail, Garbage} /\ OrgKey \notin {Fail, Garbage}
         /\ CipherKey \notin {Fail, Garbage} /\ FileKey \notin {Fail, Garbage}
         /\ Fail # Garbage /\ "text" \notin {Fail, Garbage}
         /\ "rsa" \notin {Fail, Garbage} /\ "file" \notin {Fail, Garbage}
         /\ "empty" \notin {Fail, Garbage} /\ AlteredKey \notin {Fail, Garbage}
<1>1. UserKey(a) \in {Key(<<"user">>, mac) : mac \in BOOLEAN}
  BY DEF AnAccount, UserKey
<1> QED BY <1>1, OutcomeAssumption

LEMMA RegularUnlocks ==
  ASSUME NEW a, AnAccount(a), Regular(a), a.password
  PROVE  UnlockUserKey(a) = {UserKey(a)}
<1> DEFINE e == EncUserKey(a)
           m == DeriveMasterKey(a.password, a.iterations)
           x == MasterKey("expand", m, TRUE)
<1>1. a.password = TRUE /\ ~a.old /\ ~(a.iterations < Least)
  BY IterationAssumption DEF AnAccount, Regular
<1>2. m = <<a.password, a.iterations>>
  BY <1>1 DEF DeriveMasterKey
<1>3. m = <<TRUE, a.iterations>>
  BY <1>1, <1>2
<1>4. e = Enc(2, x, UserKey(a), UserKey(a))
  BY <1>1, <1>3 DEF EncUserKey
<1> HIDE DEF e, m
<1>5. e.type = 2 /\ e.by = x /\ e.of = UserKey(a) /\ e.left = e.of
  BY <1>4 DEF Enc
<1>6. x.mac = TRUE
  BY DEF MasterKey, Key
<1> HIDE DEF x
<1>7. Decrypt(e, x) = {UserKey(a)}
  BY <1>5, <1>6, Decrypted DEF Unwraps
<1>8. DecryptWithMasterKey(e, m) = {UserKey(a)}
  BY <1>7, KeysAreKeys DEF DecryptWithMasterKey, OrElse, x
<1> QED BY <1>8, KeysAreKeys DEF UnlockUserKey, AsKey, e, m

(* An item's key, in a regular account: the base key, or the one encrypted  *)
(* under it or under the user's, which is the first to be found.            *)
LEMMA OrgKeyRead ==
  ASSUME NEW a, AnAccount(a), Regular(a), a.org # "none"
  PROVE  ReadOrgKey(a, UserKey(a)) = {OrgKey}
<1> DEFINE u == UserKey(a)
           e == EncOrgKey(a)
<1>1. u.mac = TRUE
  BY DEF UserKey, Key, Regular, AnAccount
<1>2. a.org \in {"rsa", "user"} /\ (a.org = "rsa" => a.rsa = "whole")
  BY DEF AnAccount, Regular
<1>3. CASE a.org = "user"
  <2>1. e = Sealed(a, "org", u, OrgKey)
    BY <1>3 DEF EncOrgKey
  <2>2. e.type \in {0, 2} /\ Decrypt(e, u) = {OrgKey}
    BY <1>1, <2>1, SealedParts, SealedOpens
  <2> QED BY <2>2 DEF ReadOrgKey
<1>4. CASE a.org = "rsa"
  <2>1. e = Enc(4, Key(<<"rsa">>, FALSE), OrgKey, OrgKey)
    BY <1>4 DEF EncOrgKey
  <2>2. e.type = 4 /\ e.by.id = <<"rsa">> /\ e.of = OrgKey /\ e.left = OrgKey
    BY <2>1 DEF Enc, Key
  <2>3. EncRsa(a) = Sealed(a, "rsa", u, "rsa")
    BY <1>2, <1>4 DEF EncRsa
  <2>5. Decrypt(EncRsa(a), u) = {"rsa"}
    BY <1>1, <2>3, SealedOpens
  <2>6. ReadRsa(a, u) = {"rsa"}
    BY <1>2, <1>4, <2>5 DEF ReadRsa
  <2>7. DecryptRsa(e, {"rsa"}) = {OrgKey}
    BY <2>2, KeysAreKeys DEF DecryptRsa, Unwraps
  <2> QED BY <2>2, <2>6, <2>7 DEF ReadOrgKey
<1> QED BY <1>2, <1>3, <1>4

LEMMA RegularItemKey ==
  ASSUME NEW a, AnAccount(a), Regular(a)
  PROVE  /\ ListedItemKey(a, UserKey(a)) = {ItemKey(a)}
         /\ ResolvedItemKey(a, UserKey(a)) = {ItemKey(a)}
<1> DEFINE u == UserKey(a)
           b == BaseKey(a)
           e == EncItemKey(a)
<1>1. u.mac = TRUE /\ OrgKey.mac = TRUE /\ b \in {u, OrgKey}
  BY DEF UserKey, OrgKey, Key, Regular, AnAccount, BaseKey
<1>2. /\ a.org \in {"none", "missing"} => {u} = {b}
      /\ a.org \notin {"none", "missing"} => KeyOr(ReadOrgKey(a, u), u) = {b}
  <2>1. a.org # "missing"
    BY DEF Regular
  <2>2. a.org # "none" => b = OrgKey /\ ReadOrgKey(a, u) = {OrgKey}
    BY OrgKeyRead DEF BaseKey
  <2> QED BY <2>1, <2>2, KeysAreKeys DEF BaseKey, KeyOr, AsKey
<1>3. a.itemKey # "none" =>
        KeyOr(OrElse(Decrypt(e, b), Decrypt(e, u)), b) = {CipherKey}
  <2> SUFFICES ASSUME a.itemKey # "none"
               PROVE  KeyOr(OrElse(Decrypt(e, b), Decrypt(e, u)), b) = {CipherKey}
    OBVIOUS
  <2>1. PICK k \in {u, b} : /\ k = IF a.itemKey = "user" THEN u ELSE b
                            /\ a.itemKey = "user" => k = u
    OBVIOUS
  <2>2. e = Sealed(a, "item", k, CipherKey)
    BY <2>1 DEF EncItemKey, Regular
  <2>3. k.mac = TRUE /\ (a.itemKey = "user" => "item" \notin a.bare)
    BY <1>1, <2>1 DEF Regular
  <2> HIDE DEF e, u, b
  <2>4. Decrypt(e, k) = {CipherKey}
    BY <2>2, <2>3, SealedOpens
  <2>5. a.itemKey = "user" => Decrypt(e, b) \in {{CipherKey}, {Fail}}
    BY <2>2, <2>3, SealedOpens
  <2>6. a.itemKey # "user" => k = b
    BY <2>1
  <2>7. OrElse(Decrypt(e, b), Decrypt(e, u)) = {CipherKey}
    BY <2>1, <2>4, <2>5, <2>6, KeysAreKeys DEF OrElse
  <2> QED BY <2>7, KeysAreKeys DEF KeyOr, AsKey
<1> HIDE DEF u, b, e
<1>4. ItemKey(a) = IF a.itemKey = "none" THEN b ELSE CipherKey
  BY DEF ItemKey, b
<1>5. ListedBaseKey(a, u) = {b}
  BY <1>2 DEF ListedBaseKey
<1>6. ListedItemKey(a, u) = {ItemKey(a)}
  BY <1>3, <1>4, <1>5 DEF ListedItemKey, e
<1>7. ResolvedItemKey(a, u) = {ItemKey(a)}
  BY <1>2, <1>3, <1>4 DEF ResolvedItemKey, e
<1> QED BY <1>6, <1>7 DEF u

(* What a field shows, and what an attachment opens to.                     *)
LEMMA FieldRead ==
  ASSUME NEW a, AnAccount(a), NEW c
  PROVE  /\ EncField(a).type # 0 => ReadField(a, c) \subseteq {"text", Fail}
         /\ a.mac /\ a.field /\ c = ItemKey(a) => ReadField(a, c) = {"text"}
<1> DEFINE k == ItemKey(a)
           e == Sealed(a, "field", k, "text")
<1>1. a.mac => k.mac = TRUE
  BY DEF ItemKey, BaseKey, UserKey, OrgKey, CipherKey, Key, AnAccount
<1>2. EncField(a) = IF a.field THEN e ELSE Damaged(e, Garbage)
  BY DEF EncField
<1>3. e.of = "text" /\ Damaged(e, Garbage).of = "text"
  BY SealedParts
<1>4. a.mac => Decrypt(e, k) = {"text"}
  BY <1>1, SealedOpens
<1> HIDE DEF e, k
<1>5. EncField(a).of = "text"
  BY <1>2, <1>3
<1>6. EncField(a).type # 0 => Decrypt(EncField(a), c) \subseteq {"text", Fail}
  BY <1>5, Decrypted
<1> QED BY <1>2, <1>4, <1>6 DEF ReadField, k

LEMMA FileRead ==
  ASSUME NEW a, AnAccount(a), NEW k
  PROVE  /\ a.file = "empty" => DecryptBlob(Blob(a), k) = {"empty"}
         /\ a.file # "empty" => DecryptBlob(Blob(a), k) \in {{"file"}, {Fail}}
         /\ a.file = "whole" /\ a.layout = "header" /\ k.mac
              /\ k = (IF a.fileKey = "none" THEN ItemKey(a) ELSE FileKey)
            => DecryptBlob(Blob(a), k) = {"file"}
<1> DEFINE f == IF a.fileKey = "none" THEN ItemKey(a) ELSE FileKey
           left == IF a.file = "whole" THEN "file" ELSE Garbage
           e == Enc(2, f, "file", left)
<1>1. /\ Blob(a).enc = e /\ Blob(a).layout = a.layout
      /\ Blob(a).empty = (a.file = "empty")
  BY DEF Blob
<1>2. e.by = f /\ e.of = "file" /\ (a.file = "whole" => e.left = e.of)
  BY DEF Enc
<1> HIDE DEF e, f
<1>3. /\ a.file = "empty" => DecryptBlob(Blob(a), k) = {"empty"}
      /\ a.file # "empty" => DecryptBlob(Blob(a), k) \in {{"file"}, {Fail}}
      /\ a.file = "whole" /\ a.layout = "header" /\ k.mac /\ k = f
           => DecryptBlob(Blob(a), k) = {"file"}
  BY <1>1, <1>2 DEF DecryptBlob, Unwraps
<1> QED BY <1>3 DEF f

LEMMA RegularFileKey ==
  ASSUME NEW a, AnAccount(a), Regular(a)
  PROVE  /\ ResolveAttachmentKey(a, UserKey(a))
               = {IF a.fileKey = "none" THEN ItemKey(a) ELSE FileKey}
         /\ ItemKey(a).mac = TRUE /\ FileKey.mac = TRUE
<1> DEFINE u == UserKey(a)
           c == ItemKey(a)
           e == EncFileKey(a)
<1>1. u.mac = TRUE /\ c.mac = TRUE
  BY DEF ItemKey, BaseKey, UserKey, OrgKey, CipherKey, Key, AnAccount, Regular
<1>2. FileKey.mac = TRUE
  BY DEF FileKey, Key
<1>3. ResolvedItemKey(a, u) = {c}
  BY RegularItemKey
<1>4. e = Sealed(a, "file", IF a.fileKey = "user" THEN u ELSE c, FileKey)
  BY DEF EncFileKey
<1> HIDE DEF u, c, e
<1>5. a.fileKey # "none" => KeyOr(OrElse(Decrypt(e, c), Decrypt(e, u)), c) = {FileKey}
  <2>1. PICK k \in {u, c} : /\ e = Sealed(a, "file", k, FileKey)
                            /\ a.fileKey # "user" => k = c
    BY <1>4
  <2>2. /\ Decrypt(e, k) = {FileKey}
        /\ a.fileKey = "user" => Decrypt(e, c) \in {{FileKey}, {Fail}}
    BY <1>1, <2>1, SealedOpens DEF Regular
  <2>3. OrElse(Decrypt(e, c), Decrypt(e, u)) = {FileKey}
    BY <2>1, <2>2, KeysAreKeys DEF OrElse
  <2> QED BY <2>3, KeysAreKeys DEF KeyOr, AsKey
<1>6. ResolveAttachmentKey(a, u)
        = IF a.fileKey = "none" THEN {c} ELSE KeyOr(OrElse(Decrypt(e, c), Decrypt(e, u)), c)
  BY <1>3 DEF ResolveAttachmentKey, e
<1>7. ResolveAttachmentKey(a, u) = {IF a.fileKey = "none" THEN c ELSE FileKey}
  BY <1>5, <1>6
<1> QED BY <1>1, <1>2, <1>7 DEF u, c

(* What an item is searched by, it shows.                                   *)
LEMMA SearchedIsShown ==
  ASSUME NEW type PROVE SearchTokens(type) \subseteq Common \cup OwnFields(type)
  BY DEF SearchTokens, OwnFields

KeyInv ==
  /\ AnAccount(encrypted) /\ KeysTypeOK
  /\ level \in {"unlocked", "listed", "opened"} => userKey = UserKey(encrypted)
  /\ ReadsBack

LEMMA UnlockKeeps == ASSUME KeyInv, Unlock PROVE KeyInv'
<1>1. PICK k \in UnlockUserKey(encrypted) :
        userKey' = k /\ level' = IF k = Fail THEN "refused" ELSE "unlocked"
  BY DEF Unlock
<1>2. UNCHANGED <<encrypted, shown, attached>> /\ AnAccount(encrypted)
  BY DEF Unlock, KeyInv
<1>3. CASE k = Fail
  <2>1. ~(encrypted.password /\ Regular(encrypted))
    BY <1>2, <1>3, RegularUnlocks, KeysAreKeys
  <2> QED BY <1>1, <1>2, <1>3, <2>1 DEF KeyInv, ReadsBack, KeysTypeOK, AnAccount, Regular
<1>4. CASE k # Fail
  <2>1. encrypted.password /\ k = UserKey(encrypted)
    BY <1>2, <1>4, RightPasswordUnlocks
  <2>2. level' = "unlocked" /\ userKey' = UserKey(encrypted)
    BY <1>1, <1>4, <2>1
  <2>3. ReadsBack'
    BY <1>2, <2>1, <2>2 DEF ReadsBack
  <2> QED BY <1>2, <2>2, <2>3 DEF KeyInv, KeysTypeOK, AnAccount, UserKey
<1> QED BY <1>3, <1>4

LEMMA ReadKeeps == ASSUME KeyInv, ReadItem PROVE KeyInv'
<1> DEFINE a == encrypted
           D == Common \cup OwnFields(a.type)
<1>1. /\ level = "unlocked" /\ level' = "listed" /\ UNCHANGED <<encrypted, userKey, attached>>
      /\ AnAccount(a) /\ a.password /\ userKey = UserKey(a)
  BY DEF ReadItem, KeyInv, ReadsBack
<1>2. CASE a.deleted
  <2>1. shown' = <<>>
    BY <1>2 DEF ReadItem
  <2>2. DOMAIN shown' = {}
    BY <2>1
  <2>3. ReadsBack'
    BY <1>1, <1>2, <2>2 DEF ReadsBack
  <2> QED BY <1>1, <2>3 DEF KeyInv, KeysTypeOK
<1>3. CASE ~a.deleted
  <2>0. PICK c \in ListedItemKey(a, userKey) : \E o \in ReadField(a, c) :
          shown' = [f \in D |-> o]
    BY <1>3 DEF ReadItem
  <2>1. PICK o \in ReadField(a, c) : shown' = [f \in D |-> o]
    BY <2>0
  <2>2. o = Garbage => EncField(a).type = 0
    BY <1>1, FieldRead, KeysAreKeys
  <2>3. Regular(a) /\ a.field => o = "text"
    <3> SUFFICES ASSUME Regular(a), a.field PROVE o = "text"
      OBVIOUS
    <3>1. c = ItemKey(a)
      BY <1>1, RegularItemKey
    <3>2. a.mac
      BY DEF Regular
    <3> QED BY <1>1, <3>1, <3>2, FieldRead
  <2>4. SearchTokens(a.type) \subseteq D
    BY SearchedIsShown
  <2> HIDE DEF D
  <2>5. DOMAIN shown' = D /\ \A f \in D : shown'[f] = o
    BY <2>1
  <2>6. ReadsBack'
    <3>1. \A f \in DOMAIN shown' : /\ shown'[f] = Garbage => EncField(a).type = 0
                                   /\ Regular(a) /\ a.field => shown'[f] = "text"
      BY <2>2, <2>3, <2>5
    <3> QED BY <1>1, <2>4, <2>5, <3>1 DEF ReadsBack, Regular
  <2> QED BY <1>1, <2>6 DEF KeyInv, KeysTypeOK
<1> QED BY <1>2, <1>3

LEMMA OpenKeeps == ASSUME KeyInv, OpenAttachment PROVE KeyInv'
<1> DEFINE a == encrypted
<1>1. /\ level = "listed" /\ level' = "opened" /\ UNCHANGED <<encrypted, userKey, shown>>
      /\ AnAccount(a) /\ userKey = UserKey(a) /\ ReadsBack
  BY DEF OpenAttachment, KeyInv
<1>2. PICK k \in ResolveAttachmentKey(a, userKey) : attached' \in DecryptBlob(Blob(a), k)
  BY DEF OpenAttachment
<1>3. attached' \in {"file", "empty", Fail} /\ (attached' = "empty" <=> a.file = "empty")
  BY <1>1, <1>2, FileRead, KeysAreKeys
<1>4. Regular(a) /\ a.file = "whole" => attached' = "file"
  <2> SUFFICES ASSUME Regular(a), a.file = "whole" PROVE attached' = "file"
    OBVIOUS
  <2>1. /\ k = (IF a.fileKey = "none" THEN ItemKey(a) ELSE FileKey) /\ k.mac
        /\ a.layout = "header"
    BY <1>1, <1>2, RegularFileKey DEF Regular
  <2> QED BY <1>1, <1>2, <2>1, FileRead
<1>5. ReadsBack'
  BY <1>1, <1>3, <1>4 DEF ReadsBack, Regular
<1> QED BY <1>1, <1>5 DEF KeyInv, KeysTypeOK

(* What was encrypted reads back, and garbage shows only of a field without *)
(* a MAC, for every account whose keys hang together in any of the ways the *)
(* code knows, any of them with a MAC or without, any number of iterations  *)
(* and either password; an attachment that opens is the file, or empty as   *)
(* it came (crypto.rs, storage.rs, api.rs, vault.rs).                       *)
THEOREM KeysReadBack == KeySpec => []ReadsBack
<1>1. KeysInit(AllAccounts) => KeyInv
  BY DEF KeysInit, AllAccounts, KeyInv, AnAccount, KeysTypeOK, ReadsBack
<1>2. KeyInv /\ [KeysNext]_keyVars => KeyInv'
  BY UnlockKeeps, ReadKeeps, OpenKeeps
  DEF KeysNext, keyVars, KeyInv, AnAccount, KeysTypeOK, ReadsBack, Regular, UserKey
<1>3. KeyInv => ReadsBack
  BY DEF KeyInv
<1> QED BY <1>1, <1>2, <1>3, PTL DEF KeySpec

-----------------------------------------------------------------------------
(* The overlay, with this module's variables and two prompts.               *)
OfOverlay == INSTANCE Overlay_proofs WITH opened <- windowOpen, shown <- display,
                                      query <- cardQuery, reply <- cardReply,
                                      Prompts <- TwoPrompts

(* What the overlay shows as locked or logged out it holds nothing of, for  *)
(* every plan of the person's (OmarchyBitwarden.qml).                       *)
THEOREM WindowIsBlank ==
  ASSUME NEW plans PROVE OfOverlay!OverlaySpec(plans) => []LockedShowsNothing
<1>1. OfOverlay!OverlaySpec(plans) => []OfOverlay!LockedShowsNothing
  BY OfOverlay!LockedIsBlank
<1>2. OfOverlay!LockedShowsNothing => LockedShowsNothing
  BY DEF LockedShowsNothing, Overlay!LockedShowsNothing, OfOverlay!LockedShowsNothing
<1> QED BY <1>1, <1>2, PTL

-----------------------------------------------------------------------------
(* The account's commands: what a step of one process changes of it.        *)
Fields == {"op", "at", "acct", "st", "cf", "tok", "res", "alone"}
JobShape == job = [p \in Jobs |-> job[p]] /\ \A p \in Jobs : DOMAIN job[p] = Fields

Others(p) == \A q \in Jobs \ {p} : job'[q] = job[q]
Stays(p, fields) == \A f \in fields : job'[p][f] = job[p][f]

LEMMA Done ==
  ASSUME JobShape, NEW p \in Jobs, NEW changes, Do(p, changes)
  PROVE  /\ JobShape' /\ Others(p)
         /\ \A f \in Fields : job'[p][f] = IF f \in DOMAIN changes THEN changes[f] ELSE job[p][f]
<1>1. /\ job' = [q \in Jobs |-> job'[q]] /\ Others(p)
      /\ job'[p] = [f \in Fields |-> IF f \in DOMAIN changes THEN changes[f] ELSE job[p][f]]
  BY DEF JobShape, Do, Others
<1>2. DOMAIN job'[p] = Fields
  BY <1>1
<1> QED BY <1>1, <1>2 DEF JobShape, Others

(* The kinds of change the steps make.                                      *)
Moved(p, place) ==
  /\ JobShape' /\ Others(p) /\ job'[p].at = place
  /\ job'[p].op = job[p].op /\ job'[p].acct = job[p].acct /\ job'[p].alone = job[p].alone
LEMMA Moves ==
  ASSUME JobShape, NEW p \in Jobs, NEW place, Do(p, [at |-> place])
  PROVE  /\ Moved(p, place)
         /\ job'[p].st = job[p].st /\ job'[p].cf = job[p].cf /\ job'[p].tok = job[p].tok /\ job'[p].res = job[p].res
  BY Done DEF Moved, Fields
LEMMA MovesSt ==
  ASSUME JobShape, NEW p \in Jobs, NEW place, NEW st, Do(p, [at |-> place, st |-> st])
  PROVE  /\ Moved(p, place)
         /\ job'[p].st = st
         /\ job'[p].cf = job[p].cf /\ job'[p].tok = job[p].tok /\ job'[p].res = job[p].res
  BY Done DEF Moved, Fields
LEMMA MovesCf ==
  ASSUME JobShape, NEW p \in Jobs, NEW place, NEW cf, Do(p, [at |-> place, cf |-> cf])
  PROVE  /\ Moved(p, place)
         /\ job'[p].cf = cf
         /\ job'[p].st = job[p].st /\ job'[p].tok = job[p].tok /\ job'[p].res = job[p].res
  BY Done DEF Moved, Fields
LEMMA MovesTok ==
  ASSUME JobShape, NEW p \in Jobs, NEW place, NEW tok, Do(p, [at |-> place, tok |-> tok])
  PROVE  /\ Moved(p, place)
         /\ job'[p].tok = tok
         /\ job'[p].st = job[p].st /\ job'[p].cf = job[p].cf /\ job'[p].res = job[p].res
  BY Done DEF Moved, Fields
LEMMA MovesRes ==
  ASSUME JobShape, NEW p \in Jobs, NEW place, NEW res, Do(p, [at |-> place, res |-> res])
  PROVE  /\ Moved(p, place)
         /\ job'[p].res = res
         /\ job'[p].st = job[p].st /\ job'[p].cf = job[p].cf /\ job'[p].tok = job[p].tok
  BY Done DEF Moved, Fields
LEMMA MovesBoth ==
  ASSUME JobShape, NEW p \in Jobs, NEW place, NEW res, NEW st, Do(p, [at |-> place, res |-> res, st |-> st])
  PROVE  /\ Moved(p, place)
         /\ job'[p].res = res /\ job'[p].st = st
         /\ job'[p].cf = job[p].cf /\ job'[p].tok = job[p].tok
  BY Done DEF Moved, Fields
LEMMA Ends ==
  ASSUME JobShape, NEW p \in Jobs, NEW res, End(p, res)
  PROVE  /\ Moved(p, "idle")
         /\ job'[p].res = res /\ job'[p].st = Blank /\ job'[p].tok = None
         /\ job'[p].cf = job[p].cf
  BY Done DEF Moved, Fields, End

(* What every step of a process leaves as it is, but for its place and what *)
(* it has read.                                                             *)
TroubleShape ==
  /\ trouble = [left |-> trouble.left, kinds |-> trouble.kinds, struck |-> trouble.struck]
  /\ trouble.left \in Nat
Strikes(p) ==
  /\ TroubleShape' /\ trouble'.kinds = trouble.kinds /\ trouble'.left <= trouble.left
  /\ trouble'.left = trouble.left => UNCHANGED trouble
  /\ trouble'.struck \in {trouble.struck, trouble.struck \cup {p}}

LEMMA Faults ==
  ASSUME TroubleShape, NEW p, NoFault \/ \E kind : Fault(p, kind)
  PROVE  Strikes(p)
<1>1. CASE NoFault
  BY <1>1 DEF TroubleShape, Strikes, NoFault
<1>2. ASSUME NEW kind, Fault(p, kind) PROVE Strikes(p)
  <2>1. /\ trouble' = [left |-> trouble.left - 1, kinds |-> trouble.kinds,
                       struck |-> trouble.struck \cup {p}]
        /\ trouble.left > 0 /\ trouble.left \in Nat
    BY <1>2 DEF TroubleShape, Fault
  <2> QED BY <2>1 DEF TroubleShape, Strikes
<1> QED BY <1>1, <1>2

Summary(p) ==
  /\ JobShape' /\ Others(p) /\ Strikes(p) /\ Busy(p)
  /\ job'[p].op = job[p].op /\ job'[p].acct = job[p].acct /\ job'[p].alone = job[p].alone
  /\ job'[p].at = "idle" \/ job'[p].res \in {job[p].res, "stored"}

LEMMA MigrateSummary ==
  ASSUME JobShape, TroubleShape, NEW p \in Jobs, NEW kind, NEW field, NEW from, NEW to,
         Migrate(p, kind, field, from, to), from # "idle"
  PROVE  Summary(p)
<1> DEFINE st == [job[p].st EXCEPT ![field] = None]
<1>1. \/ Do(p, [at |-> to, res |-> "stored"]) /\ NoFault
      \/ Do(p, [at |-> to, res |-> "stored", st |-> st]) /\ NoFault
      \/ Do(p, [at |-> to]) /\ Fault(p, "ring")
  BY DEF Migrate
<1> HIDE DEF st
<1>2. Busy(p)
  BY DEF Migrate, At, Busy
<1>3. Strikes(p)
  BY <1>1, Faults
<1> QED BY <1>1, <1>2, <1>3, Moves, MovesRes, MovesBoth DEF Moved, Summary

LEMMA LoginSummary ==
  ASSUME JobShape, TroubleShape, NEW p \in Jobs, LoginStep(p)
  PROVE  Summary(p)
<1> USE DEF At, Busy, Moved, Summary, NoFault
<1>1. CASE Granted(p)
  BY <1>1, Ends, Moves, Faults DEF Granted
<1>2. CASE LoginLoad(p)
  BY <1>2, MovesSt, Faults DEF LoginLoad, Loaded
<1>3. CASE StoreAccess(p)
  BY <1>3, Ends, Moves, Faults DEF StoreAccess, ByApi
<1>4. CASE StoreRefresh(p)
  BY <1>4, Moves, Faults DEF StoreRefresh
<1>5. CASE StoreSecret(p)
  BY <1>5, Moves, Faults DEF StoreSecret
<1>6. CASE UndoAccess(p)
  BY <1>6, Ends, Faults DEF UndoAccess
<1>7. CASE UndoBoth(p)
  BY <1>7, Ends, Faults DEF UndoBoth
<1>8. CASE FirstSync(p)
  BY <1>8, MovesSt, Faults DEF FirstSync
<1>9. CASE LoginSave(p)
  BY <1>9, Moves, Faults DEF LoginSave, Saves, AtomicWrite
<1>10. CASE LoadEmail(p)
  BY <1>10, MovesCf, Faults DEF LoadEmail, LoadedConf
<1>11. CASE SaveEmail(p)
  BY <1>11, Ends, Moves, Faults DEF SaveEmail, ByApi, AtomicWrite
<1>12. CASE OpenDaemon(p)
  BY <1>12, Ends, Moves, Faults DEF OpenDaemon
<1>13. CASE RememberLoads(p)
  BY <1>13, MovesCf, Faults DEF RememberLoads, LoadedConf
<1>14. CASE RememberSaves(p)
  BY <1>14, Ends, Faults DEF RememberSaves, AtomicWrite
<1> QED BY <1>1, <1>2, <1>3, <1>4, <1>5, <1>6, <1>7, <1>8, <1>9, <1>10, <1>11, <1>12, <1>13, <1>14 DEF LoginStep

LEMMA SessionSummary ==
  ASSUME JobShape, TroubleShape, NEW p \in Jobs, SessionStep(p)
  PROVE  Summary(p)
<1> USE DEF At, Busy, Moved, Summary, NoFault
<1>1. CASE UnlockLoads(p)
  BY <1>1, Ends, MovesSt, Faults DEF UnlockLoads, Loaded
<1>2. CASE FindToken(p)
  BY <1>2, MovesTok, Faults DEF FindToken
<1>3. CASE RestoreToken(p)
  BY <1>3, Moves, Faults DEF RestoreToken
<1>4. CASE LockDaemon(p)
  BY <1>4, Moves, Faults DEF LockDaemon
<1>5. CASE ClearSession(p)
  BY <1>5, Moves, Faults DEF ClearSession, Loaded
<1>6. CASE CloseDaemon(p)
  BY <1>6, Ends, Faults DEF CloseDaemon
<1>7. CASE ClearAll(p)
  BY <1>7, Moves, Faults DEF ClearAll
<1>8. CASE Erase(p)
  BY <1>8, Moves, Faults DEF Erase, Saves, AtomicWrite
<1>9. CASE StatusLoads(p)
  BY <1>9, MovesSt, Faults DEF StatusLoads, Loaded
<1>10. CASE MigrateAccess(p)
  BY <1>10, MigrateSummary DEF MigrateAccess
<1>11. CASE MigrateRefresh(p)
  BY <1>11, MigrateSummary DEF MigrateRefresh
<1>12. CASE Scrub(p)
  BY <1>12, Moves, Faults DEF Scrub, Saves, AtomicWrite
<1>13. CASE Judge(p)
  BY <1>13, Ends, Moves, Faults DEF Judge
<1>14. CASE GiveUp(p)
  BY <1>14, Moves, Faults DEF GiveUp, Saves, AtomicWrite
<1> QED BY <1>1, <1>2, <1>3, <1>4, <1>5, <1>6, <1>7, <1>8, <1>9, <1>10, <1>11, <1>12, <1>13, <1>14 DEF SessionStep

LEMMA ServerSummary ==
  ASSUME JobShape, TroubleShape, NEW p \in Jobs, ServerStep(p)
  PROVE  Summary(p)
<1> USE DEF At, Busy, Moved, Summary, NoFault
<1>1. CASE RemoveFile(p)
  BY <1>1, Moves, Faults DEF RemoveFile
<1>2. CASE PurgeRing(p)
  BY <1>2, Moves, Faults DEF PurgeRing
<1>3. CASE StopDaemon(p)
  BY <1>3, Moves, Faults DEF StopDaemon
<1>4. CASE SaveConf(p)
  BY <1>4, Ends, Faults DEF SaveConf, AtomicWrite
<1> QED BY <1>1, <1>2, <1>3, <1>4 DEF ServerStep

LEMMA RenewSummary ==
  ASSUME JobShape, TroubleShape, NEW p \in Jobs, RenewStep(p)
  PROVE  Summary(p)
<1> USE DEF At, Busy, Moved, Summary, NoFault
<1>1. CASE RenewLoads(p)
  BY <1>1, MovesSt, Faults DEF RenewLoads, Loaded
<1>2. CASE AskRefresh(p)
  BY <1>2, Moves, MovesTok, Faults DEF AskRefresh
<1>3. CASE AskSecret(p)
  BY <1>3, Ends, Moves, MovesTok, Faults DEF AskSecret
<1>4. CASE KeepAccess(p)
  BY <1>4, MovesSt, Faults DEF KeepAccess, Loaded
<1>5. CASE KeepRefresh(p)
  BY <1>5, Moves, Faults DEF KeepRefresh
<1>6. CASE KeepFile(p)
  BY <1>6, Ends, Faults DEF KeepFile, Saves, AtomicWrite
<1>7. CASE DropTokens(p)
  BY <1>7, MovesSt, Faults DEF DropTokens, Loaded
<1>8. CASE DropFile(p)
  BY <1>8, Ends, Faults DEF DropFile, Saves, AtomicWrite
<1> QED BY <1>1, <1>2, <1>3, <1>4, <1>5, <1>6, <1>7, <1>8 DEF RenewStep

LEMMA KillSummary ==
  ASSUME JobShape, TroubleShape, NEW p \in Jobs, Kill(p)
  PROVE  Summary(p) /\ job'[p].at = "idle" /\ job'[p].res = "killed"
  BY Ends, Faults DEF Kill, Moved, Summary

LEMMA StepSummary ==
  ASSUME JobShape, TroubleShape, NEW p \in Jobs, AccountStep(p)
  PROVE  Summary(p)
  BY LoginSummary, SessionSummary, ServerSummary, RenewSummary DEF AccountStep

(* A command begins, and those under way are no longer alone.               *)
LEMMA Begun ==
  ASSUME JobShape, TroubleShape, NEW p \in Jobs, NEW op \in Starts, NEW a, Begin(p, op, a)
  PROVE  /\ JobShape' /\ TroubleShape' /\ ~Busy(p) /\ UNCHANGED <<file, ring, conf, opened>>
         /\ job'[p].op = op /\ job'[p].at = op /\ job'[p].acct = a /\ job'[p].st = Blank
         /\ job'[p].cf = conf /\ job'[p].tok = None /\ job'[p].res = "none"
         /\ job'[p].alone => \A q \in Jobs : ~Busy(q)
         /\ \A q \in Jobs \ {p} : /\ job'[q].at = job[q].at /\ job'[q].op = job[q].op
                                  /\ job'[q].acct = job[q].acct /\ job'[q].st = job[q].st
                                  /\ job'[q].cf = job[q].cf /\ job'[q].tok = job[q].tok
                                  /\ job'[q].res = job[q].res
                                  /\ Busy(q) => ~job'[q].alone
                                  /\ ~Busy(q) => job'[q] = job[q]
         /\ trouble'.struck = trouble.struck \ {p} /\ trouble'.left = trouble.left
         /\ trouble'.kinds = trouble.kinds
         /\ op \in {"login", "apikey"} => ServerOf[a] = conf.server
<1> DEFINE others == {q \in Jobs : Busy(q)}
           new == [Idle EXCEPT !.op = op, !.at = op, !.acct = a, !.cf = conf,
                               !.alone = others = {}]
<1>1. /\ ~Busy(p) /\ UNCHANGED <<file, ring, conf, opened>>
      /\ trouble' = [trouble EXCEPT !.struck = @ \ {p}]
      /\ job' = [q \in Jobs |-> IF q = p THEN new
                                ELSE IF q \in others THEN [job[q] EXCEPT !.alone = FALSE]
                                ELSE job[q]]
      /\ op \in {"login", "apikey"} => ServerOf[a] = conf.server
  BY DEF Begin
<1>2. /\ DOMAIN new = Fields
      /\ new.op = op /\ new.at = op /\ new.acct = a /\ new.cf = conf
      /\ new.st = Blank /\ new.tok = None /\ new.res = "none"
  BY DEF Idle, Fields
<1>3. new.alone => others = {}
  BY DEF Idle
<1> HIDE DEF new
<1>4. job'[p] = new
  BY <1>1
<1>5. \A q \in Jobs \ {p} : /\ job'[q] = IF q \in others THEN [job[q] EXCEPT !.alone = FALSE]
                                         ELSE job[q]
                            /\ DOMAIN job[q] = Fields
  BY <1>1 DEF JobShape
<1>6. \A q \in Jobs \ {p} : /\ DOMAIN job'[q] = Fields
                            /\ job'[q].at = job[q].at /\ job'[q].op = job[q].op
                            /\ job'[q].acct = job[q].acct /\ job'[q].st = job[q].st
                            /\ job'[q].cf = job[q].cf /\ job'[q].tok = job[q].tok
                            /\ job'[q].res = job[q].res
                            /\ Busy(q) => ~job'[q].alone
                            /\ ~Busy(q) => job'[q] = job[q]
  BY <1>5 DEF Fields
<1>7. JobShape'
  BY <1>1, <1>2, <1>4, <1>6 DEF JobShape
<1>8. /\ TroubleShape' /\ trouble'.struck = trouble.struck \ {p}
      /\ trouble'.left = trouble.left /\ trouble'.kinds = trouble.kinds
  BY <1>1 DEF TroubleShape
<1> QED BY <1>1, <1>2, <1>3, <1>4, <1>6, <1>7, <1>8

(* A logout that is alone and nothing has failed has emptied what it has    *)
(* come past.                                                               *)
LogsOut(p) == job[p].op = "logout" /\ job[p].alone /\ p \notin trouble.struck /\ Busy(p)
Emptied(p) ==
  /\ job[p].at \in {"logout", "clear all", "erase", "close"}
  /\ job[p].at \in {"clear all", "erase"} => opened = None
  /\ job[p].at \in {"erase", "close"} => ring = EmptyRing
  /\ job[p].at = "close" => file = Blank
Alone ==
  \A p \in Jobs : (Busy(p) /\ job[p].alone) => \A q \in Jobs \ {p} : ~Busy(q)
Unended == \A p \in Jobs : Busy(p) => job[p].res \in {"none", "stored"}
LogoutInv ==
  /\ JobShape /\ TroubleShape /\ Alone /\ Unended
  /\ \A p \in Jobs : LogsOut(p) => Emptied(p)

LEMMA AloneKept ==
  ASSUME LogoutInv, NEW p \in Jobs, Summary(p)
  PROVE  Alone' /\ Unended'
<1>1. \A q \in Jobs : Busy(q)' => Busy(q) /\ job'[q].alone = job[q].alone
  BY DEF Summary, Others, Busy
<1>2. Alone'
  BY <1>1 DEF LogoutInv, Alone
<1>3. Unended'
  BY DEF LogoutInv, Unended, Summary, Others, Busy
<1> QED BY <1>2, <1>3

LEMMA SerializedBlank == Serialized(Blank) = Blank
<1> DEFINE b == Blank
           c == Serialized(b)
           Columns == {"server", "user", "key", "items", "client", "oldAccess", "oldRefresh"}
<1>1. b = [f \in Columns |-> b[f]] /\ \A f \in Columns : b[f] = None
  BY DEF Blank
<1> HIDE DEF b
<1>2. c = [f \in Columns |-> IF f \in {"oldAccess", "oldRefresh"} THEN None ELSE b[f]]
  BY <1>1, Zenon DEF Serialized
<1> HIDE DEF c, Columns
<1>3. b = c
  BY <1>1, <1>2
<1> QED BY <1>3 DEF b, c

(* What a step of a logout does.                                            *)
LEMMA LogoutSteps ==
  ASSUME LogoutInv, NEW p \in Jobs, AccountStep(p), LogsOut(p), Emptied(p)
  PROVE  /\ p \notin trouble'.struck /\ job'[p].at # "idle" => Emptied(p)'
         /\ job'[p].res = "ok" => Owners' = {}
<1>0. /\ JobShape /\ TroubleShape /\ Unended /\ Busy(p)
      /\ job[p].at \in {"logout", "clear all", "erase", "close"}
  BY DEF LogoutInv, LogsOut, Emptied
<1>1. LockDaemon(p) \/ ClearAll(p) \/ Erase(p) \/ CloseDaemon(p)
  <2>1. ~LoginStep(p)
    BY <1>0 DEF At, LoginStep, Granted, LoginLoad, StoreAccess, StoreRefresh, StoreSecret,
                UndoAccess, UndoBoth, FirstSync, LoginSave, LoadEmail, SaveEmail, OpenDaemon,
                RememberLoads, RememberSaves
  <2>2. ~ServerStep(p) /\ ~RenewStep(p)
    BY <1>0 DEF At, ServerStep, RemoveFile, PurgeRing, StopDaemon, SaveConf,
                RenewStep, RenewLoads, AskRefresh, AskSecret, KeepAccess, KeepRefresh,
                KeepFile, DropTokens, DropFile
  <2>3. ~UnlockLoads(p) /\ ~FindToken(p) /\ ~RestoreToken(p) /\ ~ClearSession(p)
        /\ ~StatusLoads(p) /\ ~MigrateAccess(p) /\ ~MigrateRefresh(p) /\ ~Scrub(p)
        /\ ~Judge(p) /\ ~GiveUp(p)
    BY <1>0 DEF At, UnlockLoads, FindToken, RestoreToken, ClearSession, StatusLoads,
                MigrateAccess, MigrateRefresh, Migrate, Scrub, Judge, GiveUp
  <2> QED BY <2>1, <2>2, <2>3 DEF AccountStep, SessionStep
<1> USE DEF LogsOut, Emptied, At
<1>2. job[p].res # "ok"
  BY <1>0 DEF Unended
<1>3. CASE LockDaemon(p)
  <2>1. /\ job[p].at = "logout" /\ job'[p].at = "clear all" /\ job'[p].res = job[p].res
        /\ opened' = None
    BY <1>0, <1>3, Moves DEF LockDaemon, Moved
  <2> QED BY <1>2, <2>1
<1>4. CASE ClearAll(p)
  <2>1. /\ job[p].at = "clear all" /\ job'[p].at = "erase" /\ job'[p].res = job[p].res
        /\ UNCHANGED <<file, conf, opened>>
        /\ (ring' = EmptyRing /\ NoFault) \/ Fault(p, "ring")
    BY <1>0, <1>4, Moves DEF ClearAll, Moved
  <2>2. Fault(p, "ring") => p \in trouble'.struck
    BY <1>0 DEF Fault, TroubleShape
  <2> QED BY <1>2, <2>1, <2>2
<1>5. CASE Erase(p)
  <2>1. /\ job[p].at = "erase" /\ job'[p].at = "close" /\ job'[p].res = job[p].res
        /\ UNCHANGED <<ring, conf, opened>>
        /\ (file' = Serialized(Blank) /\ NoFault) \/ Fault(p, "file")
    BY <1>0, <1>5, Moves DEF Erase, Saves, AtomicWrite, Moved
  <2>2. Fault(p, "file") => p \in trouble'.struck
    BY <1>0 DEF Fault, TroubleShape
  <2>3. Serialized(Blank) = Blank
    BY SerializedBlank
  <2> QED BY <1>2, <2>1, <2>2, <2>3
<1>6. CASE CloseDaemon(p)
  <2>1. job[p].at = "close" /\ job'[p].at = "idle" /\ opened' = None /\ UNCHANGED <<file, ring>>
    BY <1>0, <1>6, Ends DEF CloseDaemon, Moved
  <2>2. file' = Blank /\ ring' = EmptyRing
    BY <2>1
  <2>3. Owners' = {}
    BY <2>1, <2>2 DEF Owners, Secrets, Blank, EmptyRing
  <2> QED BY <2>1, <2>3
<1> QED BY <1>1, <1>3, <1>4, <1>5, <1>6

AccountNext ==
  \E p \in Jobs : \/ AccountStep(p) \/ Kill(p)
                  \/ \E op \in Starts, a \in Accounts : Begin(p, op, a)
Troubles == [left : Nat, kinds : SUBSET {"file", "ring", "reply", "kill"}]
AccountsSpec(stores, rings, confs) ==
  AccountInit(stores, rings, confs, Troubles) /\ [][AccountNext]_accountVars

LogoutStep(p) ==
  (job[p].op = "logout" /\ job[p].alone /\ p \notin trouble.struck
     /\ Busy(p) /\ job'[p].res = "ok") => Owners' = {}

LEMMA InitShapes ==
  ASSUME NEW stores, NEW rings, NEW confs, NEW troubles \in SUBSET Troubles,
         AccountInit(stores, rings, confs, troubles)
  PROVE  JobShape /\ TroubleShape /\ trouble.struck = {} /\ \A p \in Jobs : ~Busy(p)
<1>1. \A p \in Jobs : job[p] = Idle
  BY DEF AccountInit
<1>2. DOMAIN Idle = Fields /\ Idle.at = "idle"
  BY DEF Idle, Fields
<1>3. JobShape /\ \A p \in Jobs : ~Busy(p)
  BY <1>1, <1>2 DEF AccountInit, JobShape, Busy
<1>4. TroubleShape /\ trouble.struck = {}
  BY DEF AccountInit, TroubleShape, Troubles
<1> QED BY <1>3, <1>4

LEMMA LogoutNext ==
  ASSUME LogoutInv, [AccountNext]_accountVars
  PROVE  LogoutInv' /\ \A p \in Jobs : LogoutStep(p)
<1>1. ASSUME NEW p \in Jobs, Summary(p),
             LogsOut(p) => /\ p \notin trouble'.struck /\ job'[p].at # "idle" => Emptied(p)'
                           /\ job'[p].res = "ok" => Owners' = {}
      PROVE  LogoutInv' /\ \A q \in Jobs : LogoutStep(q)
  <2>1. Alone' /\ Unended' /\ JobShape' /\ TroubleShape'
    BY <1>1, AloneKept DEF Summary, Strikes
  <2>2. \A q \in Jobs \ {p} : ~LogsOut(q) /\ ~LogsOut(q)'
    BY <1>1 DEF LogoutInv, Alone, LogsOut, Summary, Others, Busy
  <2>3. LogsOut(p)' => LogsOut(p) /\ p \notin trouble'.struck /\ job'[p].at # "idle"
    BY <1>1 DEF LogsOut, Summary, Strikes, Busy
  <2>4. LogoutInv'
    BY <1>1, <2>1, <2>2, <2>3 DEF LogoutInv
  <2>5. ASSUME NEW q \in Jobs PROVE LogoutStep(q)
    BY <1>1, <2>2 DEF LogoutStep, LogsOut
  <2> QED BY <2>4, <2>5
<1>2. ASSUME NEW p \in Jobs, AccountStep(p) PROVE LogoutInv' /\ \A q \in Jobs : LogoutStep(q)
  <2>1. LogsOut(p) => Emptied(p)
    BY DEF LogoutInv
  <2>2. Summary(p)
    BY <1>2, StepSummary DEF LogoutInv
  <2> QED BY <1>1, <1>2, <2>1, <2>2, LogoutSteps
<1>3. ASSUME NEW p \in Jobs, Kill(p) PROVE LogoutInv' /\ \A q \in Jobs : LogoutStep(q)
  <2>1. Summary(p) /\ job'[p].at = "idle" /\ job'[p].res = "killed"
    BY <1>3, KillSummary DEF LogoutInv
  <2> QED BY <1>1, <2>1
<1>4. ASSUME NEW p \in Jobs, NEW op \in Starts, NEW a \in Accounts, Begin(p, op, a)
      PROVE  LogoutInv' /\ \A q \in Jobs : LogoutStep(q)
  <2>1. JobShape /\ TroubleShape
    BY DEF LogoutInv
  <2>2. op # "idle" /\ op \notin {"clear all", "erase", "close"}
    BY DEF Starts
  <2>3. \A q \in Jobs \ {p} : Busy(q)' => Busy(q) /\ ~job'[q].alone
    BY <1>4, <2>1, Begun DEF Busy
  <2>4. Alone'
    <3>1. job'[p].alone => \A q \in Jobs \ {p} : ~Busy(q)'
      BY <1>4, <2>1, <2>3, Begun
    <3> QED BY <2>3, <3>1 DEF Alone
  <2>5. Unended'
    BY <1>4, <2>1, Begun DEF Unended, Busy, LogoutInv
  <2>6. \A q \in Jobs \ {p} : ~LogsOut(q)'
    BY <2>3 DEF LogsOut
  <2>7. LogsOut(p)' => Emptied(p)'
    <3>1. job'[p].at = op /\ job'[p].op = op
      BY <1>4, <2>1, Begun
    <3> QED BY <3>1 DEF LogsOut, Emptied
  <2>8. ASSUME NEW q \in Jobs PROVE LogoutStep(q)
    BY <1>4, <2>1, <2>2, Begun DEF LogoutStep, Busy, LogoutInv, Unended
  <2> QED BY <1>4, <2>1, <2>4, <2>5, <2>6, <2>7, <2>8, Begun DEF LogoutInv
<1>5. CASE UNCHANGED accountVars
  <2>1. LogoutInv'
    BY <1>5 DEF accountVars, LogoutInv, JobShape, TroubleShape, Alone, Unended, LogsOut,
                Emptied, Busy
  <2>2. ASSUME NEW q \in Jobs PROVE LogoutStep(q)
    BY <1>5 DEF accountVars, LogoutStep, LogoutInv, Unended
  <2> QED BY <2>1, <2>2
<1> QED BY <1>2, <1>3, <1>4, <1>5 DEF AccountNext

(* A logout that nothing overlapped and that did not fail leaves nothing,   *)
(* whatever commands came before it, failed or died and whatever they left  *)
(* in data.json, the keyring and the daemon (auth.rs, main.rs).             *)
THEOREM LogoutLeaves ==
  ASSUME NEW stores, NEW rings, NEW confs
  PROVE  AccountsSpec(stores, rings, confs) => LogoutLeavesNothing
<1>1. AccountInit(stores, rings, confs, Troubles) => LogoutInv
  BY InitShapes DEF LogoutInv, Alone, Unended, LogsOut
<1>2. LogoutInv /\ [AccountNext]_accountVars => LogoutInv' /\ [\A p \in Jobs : LogoutStep(p)]_accountVars
  BY LogoutNext
<1>3. [\A p \in Jobs : LogoutStep(p)]_accountVars => 
      [\A p \in Jobs :
       (job[p].op = "logout" /\ job[p].alone /\ p \notin trouble.struck
          /\ Busy(p) /\ job'[p].res = "ok") => Owners' = {}]_accountVars
  BY DEF LogoutStep
<1> QED BY <1>1, <1>2, <1>3, PTL DEF AccountsSpec, LogoutLeavesNothing

(* What files, keyrings and jobs hold, of the accounts and servers given.   *)
Anybody == Accounts \cup {None}
Emails == Anybody \cup {ClientId}
Stores(O, S) == [server : S, user : O \cup {ClientId}, key : O, items : O, client : O,
                 oldAccess : O, oldRefresh : O]
Rings(O) == [access : [Servers -> O], refresh : [Servers -> O], secrets : SUBSET (O \cap Accounts)]
LoginPlaces == {"login", "apikey", "load", "store access", "store refresh", "store secret",
                "first sync", "save", "undo access", "undo both"}
Scope(O, S) ==
  /\ None \in O /\ O \subseteq Anybody
  /\ None \in S /\ S \subseteq Servers \cup {None}
Known(p, O, S) ==
  /\ job[p].st \in Stores(O, S) /\ job[p].tok \in O /\ job[p].cf \in Confs
  /\ job[p].acct \in Accounts
  /\ job[p].at \in LoginPlaces => job[p].op \in {"login", "apikey"}
  /\ job[p].op \in {"login", "apikey"} => job[p].acct \in O /\ ServerOf[job[p].acct] \in S
Around(O, S) ==
  /\ file \in Stores(O, S) /\ ring \in Rings(O) /\ opened \in O /\ conf \in Confs
Within(O, S) == Around(O, S) /\ \A p \in Jobs : Busy(p) => Known(p, O, S)

LEMMA BlankOf ==
  ASSUME NEW O, NEW S, Scope(O, S) PROVE Blank \in Stores(O, S) /\ None \in O
  BY DEF Scope, Stores, Blank
LEMMA PartsOf ==
  ASSUME NEW O, NEW S, NEW st \in Stores(O, S)
  PROVE  /\ st.server \in S /\ st.user \in O \cup {ClientId} /\ st.key \in O /\ st.items \in O
         /\ st.client \in O /\ st.oldAccess \in O /\ st.oldRefresh \in O
  BY DEF Stores
LEMMA SerializedOf ==
  ASSUME NEW O, NEW S, Scope(O, S), NEW st \in Stores(O, S)
  PROVE  Serialized(st) \in Stores(O, S)
  BY DEF Scope, Stores, Serialized
LEMMA SyncedOf ==
  ASSUME NEW O, NEW S, NEW st \in Stores(O, S), NEW a \in O
  PROVE  /\ [st EXCEPT !.items = a, !.user = a] \in Stores(O, S)
         /\ [st EXCEPT !.user = ClientId] \in Stores(O, S)
  BY DEF Stores
LEMMA GrantedOf ==
  ASSUME NEW O, NEW S, NEW st \in Stores(O, S), NEW a \in O, NEW s \in S, NEW u \in O \cup {ClientId},
         NEW c \in O
  PROVE  [st EXCEPT !.server = s, !.key = a, !.user = u, !.client = c] \in Stores(O, S)
  BY DEF Stores
LEMMA MigratedOf ==
  ASSUME NEW O, NEW S, Scope(O, S), NEW st \in Stores(O, S),
         NEW field \in {"oldAccess", "oldRefresh"}
  PROVE  [st EXCEPT ![field] = None] \in Stores(O, S) /\ st[field] \in O
<1>1. CASE field = "oldAccess"
  BY <1>1 DEF Scope, Stores
<1>2. CASE field = "oldRefresh"
  BY <1>2 DEF Scope, Stores
<1> QED BY <1>1, <1>2

LEMMA EmptyOf ==
  ASSUME NEW O, NEW S, Scope(O, S) PROVE EmptyRing \in Rings(O)
  BY DEF EmptyRing, Scope, Rings
LEMMA RingParts ==
  ASSUME NEW O, ring \in Rings(O), NEW s \in Servers
  PROVE  ring["access"][s] \in O /\ ring["refresh"][s] \in O
  BY DEF Rings
LEMMA StoredOf ==
  ASSUME NEW O, ring \in Rings(O), NEW kind \in {"access", "refresh"},
         NEW s, NEW a \in O, Store(kind, s, a)
  PROVE  ring' \in Rings(O)
<1>1. CASE kind = "access"
  BY <1>1 DEF Store, Rings
<1>2. CASE kind = "refresh"
  BY <1>2 DEF Store, Rings
<1> QED BY <1>1, <1>2
LEMMA SecretOf ==
  ASSUME NEW O, ring \in Rings(O), NEW a \in O \cap Accounts
  PROVE  [ring EXCEPT !.secrets = @ \cup {a}] \in Rings(O)
  BY DEF Rings
LEMMA ClearedOf ==
  ASSUME NEW O, NEW S, Scope(O, S), ring \in Rings(O), NEW s, ClearBoth(s)
  PROVE  ring' \in Rings(O)
  BY DEF ClearBoth, Scope, Rings


LEMMA UrlOf ==
  ASSUME NEW O, NEW S, Scope(O, S), NEW p, job[p].cf \in Confs, NEW st \in Stores(O, S)
  PROVE  Url(st, p) \in Servers
<1>1. st.server \in S
  BY PartsOf
<1> QED BY <1>1 DEF Url, Scope, Confs

LEMMA FoundOf ==
  ASSUME NEW O, NEW S, Scope(O, S), ring \in Rings(O), NEW s \in Servers,
         NEW kind \in {"access", "refresh"}
  PROVE  Found(kind, s) \subseteq O
<1>1. \A x \in Servers : ring[kind][x] \in O
  BY RingParts
<1> QED BY <1>1 DEF Found, Scope

LEMMA LoadedOf ==
  ASSUME NEW O, NEW S, Scope(O, S), file \in Stores(O, S), NEW p, NEW st, Loaded(p, st)
  PROVE  st \in Stores(O, S)
  BY BlankOf DEF Loaded

LEMMA SavedOf ==
  ASSUME NEW O, NEW S, Scope(O, S), file \in Stores(O, S), NEW p, NEW st \in Stores(O, S),
         Saves(p, st)
  PROVE  file' \in Stores(O, S)
  BY SerializedOf DEF Saves, AtomicWrite

LEMMA ConfOf ==
  ASSUME conf \in Confs, NEW p, NEW cf, LoadedConf(p, cf)
  PROVE  cf \in Confs
  BY StoreAssumption DEF LoadedConf

LEMMA ConfParts ==
  ASSUME NEW cf \in Confs
  PROVE  /\ cf.server \in Servers
         /\ \A e \in Emails : [cf EXCEPT !.email = e] \in Confs
         /\ \A s \in Servers : [cf EXCEPT !.server = s] \in Confs
         /\ \A b \in BOOLEAN, e \in Emails : [cf EXCEPT !.remember = b, !.email = e] \in Confs
  BY DEF Confs, Emails, Anybody

(* A step of a process leaves all within the same accounts and servers.     *)
After(p, O, S) ==
  /\ Around(O, S)'
  /\ job'[p].at # "idle" =>
       /\ job'[p].st \in Stores(O, S) /\ job'[p].tok \in O /\ job'[p].cf \in Confs


LEMMA AfterMove ==
  ASSUME NEW O, NEW S, NEW p \in Jobs, JobShape, Known(p, O, S), Around(O, S)',
         NEW place, Do(p, [at |-> place])
  PROVE  After(p, O, S)
  BY Moves DEF After, Known
LEMMA AfterEnd ==
  ASSUME NEW O, NEW S, NEW p \in Jobs, JobShape, Around(O, S)', NEW res, End(p, res)
  PROVE  After(p, O, S)
  BY Ends DEF After, Moved
LEMMA AfterSt ==
  ASSUME NEW O, NEW S, NEW p \in Jobs, JobShape, Known(p, O, S), Around(O, S)',
         NEW place, NEW st \in Stores(O, S), Do(p, [at |-> place, st |-> st])
  PROVE  After(p, O, S)
  BY MovesSt DEF After, Known
LEMMA AfterCf ==
  ASSUME NEW O, NEW S, NEW p \in Jobs, JobShape, Known(p, O, S), Around(O, S)',
         NEW place, NEW cf \in Confs, Do(p, [at |-> place, cf |-> cf])
  PROVE  After(p, O, S)
  BY MovesCf DEF After, Known
LEMMA AfterTok ==
  ASSUME NEW O, NEW S, NEW p \in Jobs, JobShape, Known(p, O, S), Around(O, S)',
         NEW place, NEW tok \in O, Do(p, [at |-> place, tok |-> tok])
  PROVE  After(p, O, S)
  BY MovesTok DEF After, Known
LEMMA AfterRes ==
  ASSUME NEW O, NEW S, NEW p \in Jobs, JobShape, Known(p, O, S), Around(O, S)',
         NEW place, NEW res, Do(p, [at |-> place, res |-> res])
  PROVE  After(p, O, S)
  BY MovesRes DEF After, Known
LEMMA AfterBoth ==
  ASSUME NEW O, NEW S, NEW p \in Jobs, JobShape, Known(p, O, S), Around(O, S)',
         NEW place, NEW res, NEW st \in Stores(O, S), Do(p, [at |-> place, res |-> res, st |-> st])
  PROVE  After(p, O, S)
  BY MovesBoth DEF After, Known

LEMMA MigrateWithin ==
  ASSUME NEW O, NEW S, Scope(O, S), NEW p \in Jobs, JobShape, Around(O, S), Known(p, O, S),
         NEW kind \in {"access", "refresh"}, NEW field \in {"oldAccess", "oldRefresh"},
         NEW from, NEW to \in {"migrate refresh", "scrub"}, Migrate(p, kind, field, from, to)
  PROVE  After(p, O, S)
<1> DEFINE st == [job[p].st EXCEPT ![field] = None]
<1>1. job[p].st \in Stores(O, S) /\ st \in Stores(O, S) /\ job[p].st[field] \in O
  BY MigratedOf DEF Known
<1>2. /\ \/ Do(p, [at |-> to, res |-> "stored"]) /\ UNCHANGED ring
         \/ /\ Do(p, [at |-> to, res |-> "stored", st |-> st])
            /\ Store(kind, Url(job[p].st, p), job[p].st[field])
         \/ Do(p, [at |-> to]) /\ UNCHANGED ring
      /\ UNCHANGED <<file, conf, opened>>
  BY DEF Migrate
<1> HIDE DEF st
<1>3. ring' \in Rings(O)
  BY <1>1, <1>2, StoredOf DEF Around
<1>4. Around(O, S)'
  BY <1>2, <1>3 DEF Around
<1> QED BY <1>1, <1>2, <1>4, AfterMove, AfterRes, AfterBoth

LEMMA LoginWithin ==
  ASSUME NEW O, NEW S, Scope(O, S), NEW p \in Jobs, JobShape, Around(O, S), Known(p, O, S),
         LoginStep(p)
  PROVE  After(p, O, S)
<1> USE DEF Around, Known
<1>1. CASE Granted(p)
  BY <1>1, AfterEnd, AfterMove, BlankOf DEF Granted
<1>2. CASE LoginLoad(p)
  <2> DEFINE a == job[p].acct
             v(st) == [st EXCEPT !.server = ServerOf[a], !.key = a,
                                 !.user = IF ByApi(p) THEN st.user ELSE a,
                                 !.client = IF ByApi(p) THEN a ELSE st.client]
  <2>0. UNCHANGED <<file, ring, conf, opened>>
    BY <1>2 DEF LoginLoad
  <2>1. PICK st \in {file, Blank} :
          Loaded(p, st) /\ Do(p, [at |-> "store access", st |-> v(st)])
    BY <1>2 DEF LoginLoad
  <2>2. a \in O /\ ServerOf[a] \in S
    BY <1>2 DEF LoginLoad, At, LoginPlaces
  <2>3. st \in Stores(O, S)
    BY <2>1, LoadedOf
  <2>4. v(st) \in Stores(O, S)
    BY <2>2, <2>3, GrantedOf, PartsOf
  <2> HIDE DEF v
  <2> QED BY <2>0, <2>1, <2>4, AfterSt
<1>3. CASE StoreAccess(p)
  <2>1. job[p].acct \in O /\ job[p].op \in {"login", "apikey"}
    BY <1>3 DEF StoreAccess, At, LoginPlaces
  <2>2. ring' \in Rings(O)
    BY <1>3, <2>1, StoredOf, SecretOf DEF StoreAccess
  <2> QED BY <1>3, <2>1, <2>2, AfterMove, AfterEnd DEF StoreAccess, ByApi
<1>4. CASE StoreRefresh(p)
  <2>1. job[p].acct \in O /\ job[p].op \in {"login", "apikey"}
    BY <1>4 DEF StoreRefresh, At, LoginPlaces
  <2>2. ring' \in Rings(O)
    BY <1>4, <2>1, StoredOf, SecretOf DEF StoreRefresh
  <2> QED BY <1>4, <2>1, <2>2, AfterMove, AfterEnd DEF StoreRefresh, ByApi
<1>5. CASE StoreSecret(p)
  <2>1. job[p].acct \in O /\ job[p].op \in {"login", "apikey"}
    BY <1>5 DEF StoreSecret, At, LoginPlaces
  <2>2. ring' \in Rings(O)
    BY <1>5, <2>1, StoredOf, SecretOf DEF StoreSecret
  <2> QED BY <1>5, <2>1, <2>2, AfterMove, AfterEnd DEF StoreSecret, ByApi
<1>6. CASE UndoAccess(p)
  BY <1>6, AfterEnd, BlankOf, StoredOf DEF UndoAccess
<1>7. CASE UndoBoth(p)
  BY <1>7, AfterEnd, BlankOf, ClearedOf DEF UndoBoth
<1>8. CASE FirstSync(p)
  <2>0. UNCHANGED <<file, ring, conf, opened>>
    BY <1>8 DEF FirstSync
  <2>1. job[p].acct \in O /\ job[p].op \in {"login", "apikey"}
    BY <1>8 DEF FirstSync, At, LoginPlaces
  <2>2. PICK st \in Stores(O, S) : Do(p, [at |-> "save", st |-> st])
    BY <1>8, <2>1, SyncedOf DEF FirstSync, Scope
  <2> QED BY <2>0, <2>1, <2>2, AfterSt
<1>9. CASE LoginSave(p)
  BY <1>9, AfterMove, BlankOf, SavedOf DEF LoginSave
<1>10. CASE LoadEmail(p)
  <2>0. UNCHANGED <<file, ring, conf, opened>>
    BY <1>10 DEF LoadEmail
  <2>1. PICK cf \in {conf, DefaultConf} :
          LoadedConf(p, cf) /\ Do(p, [at |-> "save email", cf |-> cf])
    BY <1>10 DEF LoadEmail
  <2>2. cf \in Confs
    BY <2>1, ConfOf
  <2> QED BY <2>0, <2>1, <2>2, AfterCf
<1>11. CASE SaveEmail(p)
  <2>1. job[p].st.user \in Emails
    BY PartsOf DEF Scope, Emails
  <2>2. conf' \in Confs
    BY <1>11, <2>1, ConfParts DEF SaveEmail, AtomicWrite
  <2> QED BY <1>11, <2>2, AfterMove, AfterEnd DEF SaveEmail
<1>12. CASE OpenDaemon(p)
  <2>1. opened' \in O
    BY <1>12, PartsOf DEF OpenDaemon, Opens
  <2> QED BY <1>12, <2>1, AfterMove, AfterEnd DEF OpenDaemon
<1>13. CASE RememberLoads(p)
  <2>0. UNCHANGED <<file, ring, conf, opened>>
    BY <1>13 DEF RememberLoads
  <2>1. PICK cf \in {conf, DefaultConf} :
          LoadedConf(p, cf) /\ Do(p, [at |-> "save remember", cf |-> cf])
    BY <1>13 DEF RememberLoads
  <2>2. cf \in Confs
    BY <2>1, ConfOf
  <2> QED BY <2>0, <2>1, <2>2, AfterCf
<1>14. CASE RememberSaves(p)
  <2> DEFINE c(b, e) == [job[p].cf EXCEPT !.remember = b, !.email = e]
  <2>1. PICK b \in BOOLEAN, e \in Emails : AtomicWrite(p, conf, c(b, e), conf')
    <3>1. job[p].acct \in Emails /\ None \in Emails
      BY DEF Emails, Anybody
    <3> QED BY <1>14, <3>1 DEF RememberSaves
  <2>2. c(b, e) \in Confs
    BY DEF Confs, Emails, Anybody
  <2> HIDE DEF c
  <2>3. conf' \in Confs
    BY <2>1, <2>2 DEF AtomicWrite
  <2>4. UNCHANGED <<file, ring, opened>> /\ End(p, "ok")
    BY <1>14 DEF RememberSaves
  <2> QED BY <2>3, <2>4, AfterEnd
<1> QED BY <1>1, <1>2, <1>3, <1>4, <1>5, <1>6, <1>7, <1>8, <1>9, <1>10, <1>11, <1>12, <1>13, <1>14 DEF LoginStep

LEMMA SessionWithin ==
  ASSUME NEW O, NEW S, Scope(O, S), NEW p \in Jobs, JobShape, Around(O, S), Known(p, O, S),
         SessionStep(p)
  PROVE  After(p, O, S)
<1> USE DEF Around, Known
<1>1. CASE UnlockLoads(p)
  <2>0. UNCHANGED <<file, ring, conf, opened>>
    BY <1>1 DEF UnlockLoads
  <2>1. PICK st \in {file, Blank} :
          /\ Loaded(p, st)
          /\ End(p, "error") \/ Do(p, [at |-> "find token", st |-> st])
    BY <1>1 DEF UnlockLoads
  <2>2. st \in Stores(O, S)
    BY <2>1, LoadedOf
  <2> QED BY <2>0, <2>1, <2>2, AfterSt, AfterEnd
<1>2. CASE FindToken(p)
  <2>0. UNCHANGED <<file, ring, conf, opened>>
    BY <1>2 DEF FindToken
  <2>1. Url(job[p].st, p) \in Servers
    BY UrlOf
  <2>2. PICK t \in O : Do(p, [at |-> "restore token", tok |-> t])
    BY <1>2, <2>1, FoundOf, PartsOf DEF FindToken
  <2> QED BY <2>0, <2>2, AfterTok
<1>3. CASE RestoreToken(p)
  BY <1>3, AfterMove, BlankOf, StoredOf, UrlOf DEF RestoreToken
<1>4. CASE LockDaemon(p)
  BY <1>4, AfterMove, BlankOf DEF LockDaemon
<1>5. CASE ClearSession(p)
  BY <1>5, AfterMove, BlankOf, StoredOf, UrlOf, LoadedOf DEF ClearSession
<1>6. CASE CloseDaemon(p)
  BY <1>6, AfterEnd, BlankOf DEF CloseDaemon
<1>7. CASE ClearAll(p)
  BY <1>7, AfterMove, BlankOf, StoredOf, UrlOf, EmptyOf DEF ClearAll
<1>8. CASE Erase(p)
  BY <1>8, AfterMove, BlankOf, SavedOf DEF Erase
<1>9. CASE StatusLoads(p)
  <2>0. UNCHANGED <<file, ring, conf, opened>>
    BY <1>9 DEF StatusLoads
  <2>1. PICK st \in {file, Blank} :
          /\ Loaded(p, st)
          /\ \/ Do(p, [at |-> "judge", st |-> st])
             \/ Do(p, [at |-> "migrate access", st |-> st])
    BY <1>9 DEF StatusLoads
  <2>2. st \in Stores(O, S)
    BY <2>1, LoadedOf
  <2> QED BY <2>0, <2>1, <2>2, AfterSt
<1>10. CASE MigrateAccess(p)
  BY <1>10, MigrateWithin DEF MigrateAccess
<1>11. CASE MigrateRefresh(p)
  BY <1>11, MigrateWithin DEF MigrateRefresh
<1>12. CASE Scrub(p)
  BY <1>12, AfterMove, BlankOf, SavedOf DEF Scrub
<1>13. CASE Judge(p)
  BY <1>13, AfterEnd, AfterMove, BlankOf, StoredOf, UrlOf, FoundOf DEF Judge
<1>14. CASE GiveUp(p)
  BY <1>14, AfterMove, BlankOf, SavedOf DEF GiveUp
<1> QED BY <1>1, <1>2, <1>3, <1>4, <1>5, <1>6, <1>7, <1>8, <1>9, <1>10, <1>11, <1>12, <1>13, <1>14 DEF SessionStep

LEMMA ServerWithin ==
  ASSUME NEW O, NEW S, Scope(O, S), NEW p \in Jobs, JobShape, Around(O, S), Known(p, O, S),
         ServerStep(p)
  PROVE  After(p, O, S)
<1> USE DEF Around, Known
<1>1. CASE RemoveFile(p)
  BY <1>1, AfterMove, BlankOf DEF RemoveFile, NewServer
<1>2. CASE PurgeRing(p)
  BY <1>2, AfterMove, BlankOf, EmptyOf DEF PurgeRing
<1>3. CASE StopDaemon(p)
  BY <1>3, AfterMove, BlankOf DEF StopDaemon
<1>4. CASE SaveConf(p)
  <2>1. NewServer(p) \in Servers
    BY StoreAssumption DEF NewServer
  <2>2. conf' \in Confs
    BY <1>4, <2>1, ConfParts DEF SaveConf, AtomicWrite
  <2> QED BY <1>4, <2>2, AfterEnd DEF SaveConf
<1> QED BY <1>1, <1>2, <1>3, <1>4 DEF ServerStep

LEMMA RenewWithin ==
  ASSUME NEW O, NEW S, Scope(O, S), NEW p \in Jobs, JobShape, Around(O, S), Known(p, O, S),
         RenewStep(p)
  PROVE  After(p, O, S)
<1> USE DEF Around, Known
<1>1. CASE RenewLoads(p)
  <2>0. UNCHANGED <<file, ring, conf, opened>>
    BY <1>1 DEF RenewLoads
  <2>1. PICK st \in {file, Blank} : Loaded(p, st) /\ Do(p, [at |-> "ask refresh", st |-> st])
    BY <1>1 DEF RenewLoads
  <2>2. st \in Stores(O, S)
    BY <2>1, LoadedOf
  <2> QED BY <2>0, <2>1, <2>2, AfterSt
<1>2. CASE AskRefresh(p)
  <2>0. UNCHANGED <<file, ring, conf, opened>>
    BY <1>2 DEF AskRefresh
  <2>1. Url(job[p].st, p) \in Servers
    BY UrlOf
  <2>2. \/ \E t \in O : Do(p, [at |-> "keep access", tok |-> t])
        \/ Do(p, [at |-> "ask secret"])
    BY <1>2, <2>1, FoundOf, PartsOf DEF AskRefresh
  <2>3. ASSUME NEW t \in O, Do(p, [at |-> "keep access", tok |-> t]) PROVE After(p, O, S)
    BY <2>0, <2>3, AfterTok
  <2>4. CASE Do(p, [at |-> "ask secret"])
    BY <2>0, <2>4, AfterMove
  <2> QED BY <2>2, <2>3, <2>4
<1>3. CASE AskSecret(p)
  <2>0. UNCHANGED <<file, ring, conf, opened>>
    BY <1>3 DEF AskSecret
  <2>1. job[p].st.client \in O
    BY PartsOf
  <2>2. \/ \E t \in O : Do(p, [at |-> "keep access", tok |-> t])
        \/ Do(p, [at |-> "drop tokens"])
        \/ End(p, "error")
    BY <1>3, <2>1 DEF AskSecret
  <2>3. ASSUME NEW t \in O, Do(p, [at |-> "keep access", tok |-> t]) PROVE After(p, O, S)
    BY <2>0, <2>3, AfterTok
  <2>4. CASE Do(p, [at |-> "drop tokens"])
    BY <2>0, <2>4, AfterMove
  <2>5. CASE End(p, "error")
    BY <2>0, <2>5, AfterEnd
  <2> QED BY <2>2, <2>3, <2>4, <2>5
<1>4. CASE KeepAccess(p)
  <2>0. UNCHANGED <<file, conf, opened>>
    BY <1>4 DEF KeepAccess
  <2>1. PICK st \in {file, Blank} :
          /\ Loaded(p, st) /\ Store("access", Url(st, p), job[p].tok)
          /\ Do(p, [at |-> "keep refresh", st |-> st])
    BY <1>4 DEF KeepAccess
  <2>2. st \in Stores(O, S) /\ ring' \in Rings(O)
    BY <2>1, LoadedOf, StoredOf
  <2> QED BY <2>0, <2>1, <2>2, AfterSt
<1>5. CASE KeepRefresh(p)
  BY <1>5, AfterMove, BlankOf, StoredOf, UrlOf DEF KeepRefresh
<1>6. CASE KeepFile(p)
  BY <1>6, AfterEnd, BlankOf, SavedOf DEF KeepFile
<1>7. CASE DropTokens(p)
  <2>0. UNCHANGED <<file, conf, opened>>
    BY <1>7 DEF DropTokens
  <2>1. PICK st \in {file, Blank} :
          /\ Loaded(p, st) /\ ClearBoth(Url(st, p))
          /\ Do(p, [at |-> "drop file", st |-> st])
    BY <1>7 DEF DropTokens
  <2>2. st \in Stores(O, S) /\ ring' \in Rings(O)
    BY <2>1, LoadedOf, ClearedOf
  <2> QED BY <2>0, <2>1, <2>2, AfterSt
<1>8. CASE DropFile(p)
  BY <1>8, AfterEnd, BlankOf, SavedOf DEF DropFile
<1> QED BY <1>1, <1>2, <1>3, <1>4, <1>5, <1>6, <1>7, <1>8 DEF RenewStep

(* One command at a time, of any accounts and servers, over a logged-out    *)
(* account or one that is logged in; a login comes to a logged-out one.     *)
AloneBegin(p, op, a) ==
  /\ AllIdle
  /\ op \in {"login", "apikey"} => file = Blank
  /\ Begin(p, op, a)
AloneNext ==
  \E p \in Jobs : \/ AccountStep(p) \/ Kill(p)
                  \/ \E op \in Starts, a \in Accounts : AloneBegin(p, op, a)
LoggedInAs(a) == {st \in Stores({a, None}, {ServerOf[a]}) : st.key = a}
AloneInit(troubles) ==
  \/ AccountInit({Blank}, {EmptyRing}, Confs, troubles)
  \/ \E a \in Accounts : AccountInit(LoggedInAs(a), Rings({a, None}),
                                     {c \in Confs : c.server = ServerOf[a]}, troubles)

(* While nothing has failed but requests to the server: what is held is of  *)
(* one account, and where data.json has none nothing is, but for places     *)
(* where a login or a change of server is halfway.                          *)
Of(a) == {a, None}
AnyServer == Servers \cup {None}
Bare(r) == (\A s \in Servers : r.access[s] = None /\ r.refresh[s] = None) /\ r.secrets = {}
Settled(f, r, o) == f.key = None => f = Blank /\ Bare(r) /\ o = None

Storing  == {"store refresh", "store secret", "first sync", "save"}
Entering == {"login", "apikey", "load", "store access"} \cup Storing
Keyed    == {"find token", "restore token", "migrate access", "migrate refresh", "scrub",
             "give up", "keep access", "keep refresh", "keep file"}
Informed == Keyed \cup {"judge", "ask refresh", "ask secret", "drop file"}

(* What only the account that logs in may have left in the keyring so far.  *)
OnlyAccess(r, s) ==
  /\ \A x \in Servers : r.refresh[x] = None /\ (x # s => r.access[x] = None)
  /\ r.secrets = {}
OnlyTokens(r, s) ==
  /\ \A x \in Servers : x # s => r.refresh[x] = None /\ r.access[x] = None
  /\ r.secrets = {}

Fits(st, f) == st.key = f.key /\ (st.key = None => st = Blank)
Stage(place, st, a, f, r, o) ==
  /\ place \notin {"undo access", "undo both"}
  /\ place \notin Storing \cup {"purge", "stop"} => Settled(f, r, o)
  /\ place \in Entering => f = Blank /\ o = None
  /\ place \in Storing \cup {"store access"} => st.key = a
  /\ place = "store refresh" => OnlyAccess(r, ServerOf[a])
  /\ place = "store secret" => OnlyTokens(r, ServerOf[a])
  /\ place \in Informed => Fits(st, f)
  /\ place \in Keyed => f.key # None
  /\ place \in {"purge", "stop"} => f = Blank
  /\ place \in {"clear all", "erase"} => o = None
  /\ place \in {"stop", "erase"} => Bare(r)
Staged(p) == Stage(job[p].at, job[p].st, job[p].acct, file, ring, opened)

(* A step of a process keeps to that.                                       *)
Onward(p) == IF job'[p].at = "idle" THEN Settled(file, ring, opened)' ELSE Staged(p)'

(* A step that nothing fails in but a request.                              *)
Harmless == UNCHANGED trouble \/ trouble.kinds = {"reply"}
LEMMA NoOther ==
  ASSUME TroubleShape, Harmless, NEW p, NEW kind, Fault(p, kind)
  PROVE  kind = "reply"
<1>1. trouble' # trouble
  <2>1. /\ trouble' = [left |-> trouble.left - 1, kinds |-> trouble.kinds,
                       struck |-> trouble.struck \cup {p}]
        /\ trouble.left \in Nat
    BY DEF TroubleShape, Fault
  <2>2. trouble'.left = trouble.left - 1
    BY <2>1
  <2> QED BY <2>1, <2>2
<1> QED BY <1>1 DEF Harmless, Fault

LEMMA BareEmpty == Bare(EmptyRing)
  BY DEF Bare, EmptyRing
LEMMA BareKept ==
  ASSUME NEW O, ring \in Rings(O), Bare(ring), NEW s,
         ClearBoth(s) \/ \E kind \in {"access", "refresh"} : Store(kind, s, None)
  PROVE  Bare(ring')
<1>1. CASE ClearBoth(s)
  BY <1>1 DEF Bare, Rings, ClearBoth
<1>2. CASE Store("access", s, None)
  BY <1>2 DEF Bare, Rings, Store
<1>3. CASE Store("refresh", s, None)
  BY <1>3 DEF Bare, Rings, Store
<1> QED BY <1>1, <1>2, <1>3
LEMMA AccessAlone ==
  ASSUME NEW O, ring \in Rings(O), Bare(ring), NEW s, NEW a, Store("access", s, a)
  PROVE  OnlyAccess(ring', s) /\ OnlyTokens(ring', s)
  BY DEF Bare, Rings, Store, OnlyAccess, OnlyTokens
LEMMA TokensAlone ==
  ASSUME NEW O, ring \in Rings(O), NEW s, OnlyAccess(ring, s), NEW a, Store("refresh", s, a)
  PROVE  OnlyTokens(ring', s)
  BY DEF Rings, Store, OnlyAccess, OnlyTokens
LEMMA NothingFound ==
  ASSUME Bare(ring), NEW s \in Servers
  PROVE  /\ \A kind \in {"access", "refresh"} : Found(kind, s) = {None}
         /\ \A c : ~HasSecret(c, s)
<1>1. Found("access", s) = {None} /\ Found("refresh", s) = {None}
  BY DEF Bare, Found
<1>2. \A c : ~HasSecret(c, s)
  BY DEF Bare, HasSecret
<1> QED BY <1>1, <1>2
LEMMA BlankParts ==
  /\ Blank.server = None /\ Blank.user = None /\ Blank.key = None /\ Blank.items = None
  /\ Blank.client = None /\ Blank.oldAccess = None /\ Blank.oldRefresh = None
  BY DEF Blank
LEMMA SerializedKey ==
  ASSUME NEW O, NEW S, NEW st \in Stores(O, S)
  PROVE  Serialized(st).key = st.key
  BY DEF Stores, Serialized
LEMMA SettledSave ==
  ASSUME NEW O, NEW S, NEW p, NEW st \in Stores(O, S), NEW r, NEW o, Harmless, TroubleShape,
         Saves(p, st), st.key = None => st = Blank /\ Bare(r) /\ o = None
  PROVE  Settled(file', r, o)
<1>1. file' = Serialized(st)
  BY NoOther DEF Saves, AtomicWrite
<1>2. st = Blank => file' = Blank
  BY <1>1, SerializedBlank
<1> QED BY <1>1, <1>2, SerializedKey DEF Settled
LEMMA LoadedFile ==
  ASSUME Harmless, TroubleShape, NEW p, NEW st, Loaded(p, st) PROVE st = file
  BY NoOther DEF Loaded

(* Where a step leads: what has to hold there.                              *)
LEMMA ToPlain ==
  ASSUME NEW place \in {"load email", "save email", "open", "remember", "save remember",
                        "logout", "lock", "unlock", "status", "server", "renew", "attach",
                        "clear session", "close", "save conf", "ask secret", "drop tokens"},
         NEW st, NEW a, NEW f, NEW r, NEW o, Settled(f, r, o),
         place = "ask secret" => Fits(st, f)
  PROVE  Stage(place, st, a, f, r, o)
  BY DEF Stage, Storing, Entering, Keyed, Informed
LEMMA ToStoring ==
  ASSUME NEW place \in Storing, NEW st, NEW a, st.key = a, NEW f, f = Blank, NEW r, NEW o, o = None,
         place = "store refresh" => OnlyAccess(r, ServerOf[a]),
         place = "store secret" => OnlyTokens(r, ServerOf[a])
  PROVE  Stage(place, st, a, f, r, o)
  BY DEF Stage, Storing, Entering, Keyed, Informed
LEMMA ToEntering ==
  ASSUME NEW place \in {"login", "apikey", "load", "store access"}, NEW st, NEW a, NEW f, f = Blank,
         NEW r, NEW o, o = None, Settled(f, r, o), place = "store access" => st.key = a
  PROVE  Stage(place, st, a, f, r, o)
  BY DEF Stage, Storing, Entering, Keyed, Informed
LEMMA ToInformed ==
  ASSUME NEW place \in Informed, NEW st, NEW a, NEW f, NEW r, NEW o, Settled(f, r, o), Fits(st, f),
         place \in Keyed => f.key # None
  PROVE  Stage(place, st, a, f, r, o)
  BY DEF Stage, Storing, Entering, Keyed, Informed
LEMMA ToMoving ==
  ASSUME NEW place \in {"purge", "stop"}, NEW st, NEW a, NEW f, NEW r, NEW o, f = Blank,
         place = "stop" => Bare(r)
  PROVE  Stage(place, st, a, f, r, o)
  BY DEF Stage, Storing, Entering, Keyed, Informed
LEMMA ToErasing ==
  ASSUME NEW place \in {"clear all", "erase"}, NEW st, NEW a, NEW f, NEW r, NEW o,
         Settled(f, r, o), o = None, place = "erase" => Bare(r)
  PROVE  Stage(place, st, a, f, r, o)
  BY DEF Stage, Storing, Entering, Keyed, Informed

(* And where it comes from.                                                 *)
LEMMA FromEntering ==
  ASSUME NEW p, Staged(p), job[p].at \in Entering
  PROVE  /\ file = Blank /\ opened = None
         /\ job[p].at \in {"login", "apikey", "load", "store access"} =>
              Settled(file, ring, opened) /\ Bare(ring)
         /\ job[p].at \in Storing \cup {"store access"} => job[p].st.key = job[p].acct
         /\ job[p].at = "store refresh" => OnlyAccess(ring, ServerOf[job[p].acct])
         /\ job[p].at = "store secret" => OnlyTokens(ring, ServerOf[job[p].acct])
<1>1. file = Blank /\ opened = None
  BY DEF Staged, Stage
<1>2. job[p].at \in {"login", "apikey", "load", "store access"} =>
         Settled(file, ring, opened) /\ Bare(ring)
  BY <1>1, BlankParts DEF Staged, Stage, Storing, Settled
<1>3. /\ job[p].at \in Storing \cup {"store access"} => job[p].st.key = job[p].acct
      /\ job[p].at = "store refresh" => OnlyAccess(ring, ServerOf[job[p].acct])
      /\ job[p].at = "store secret" => OnlyTokens(ring, ServerOf[job[p].acct])
  BY DEF Staged, Stage
<1> QED BY <1>1, <1>2, <1>3
LEMMA FromSettled ==
  ASSUME NEW p, Staged(p), job[p].at \notin Storing \cup {"purge", "stop"}
  PROVE  Settled(file, ring, opened)
  BY DEF Staged, Stage
LEMMA FromInformed ==
  ASSUME NEW p, Staged(p), job[p].at \in Informed
  PROVE  /\ Settled(file, ring, opened) /\ Fits(job[p].st, file)
         /\ job[p].at \in Keyed => file.key # None
  BY DEF Staged, Stage, Informed, Keyed, Storing

LEMMA Goes ==
  ASSUME NEW p, NEW place, NEW st, Moved(p, place), job'[p].st = st, place # "idle",
         Stage(place, st, job[p].acct, file', ring', opened')
  PROVE  Onward(p)
  BY DEF Moved, Onward, Staged
LEMMA Finishes ==
  ASSUME JobShape, NEW p \in Jobs, NEW res, End(p, res), Settled(file', ring', opened')
  PROVE  Onward(p)
  BY Ends DEF Moved, Onward

LEMMA LoginOnward ==
  ASSUME JobShape, TroubleShape, Harmless, NEW a \in Accounts \cup {None}, NEW p \in Jobs,
         Around(Of(a), AnyServer), Known(p, Of(a), AnyServer), Staged(p), LoginStep(p)
  PROVE  Onward(p)
<1>0. /\ ring \in Rings(Of(a)) /\ job[p].st \in Stores(Of(a), AnyServer)
      /\ file \in Stores(Of(a), AnyServer) /\ job[p].acct \in Accounts /\ job[p].acct # None
  BY StoreAssumption DEF Around, Known
<1> DEFINE A == job[p].acct
           SameHeld == UNCHANGED <<file, ring, opened>>
<1>1. CASE Granted(p)
  <2>1. job[p].at \in {"login", "apikey"} /\ SameHeld
    BY <1>1 DEF Granted, At
  <2>2. file = Blank /\ opened = None /\ Settled(file, ring, opened)
    BY <2>1, FromEntering DEF Entering
  <2>3. CASE Do(p, [at |-> "load"])
    <3>1. Stage("load", job[p].st, A, file', ring', opened')
      BY <2>1, <2>2, ToEntering
    <3> QED BY <2>3, <3>1, Moves, Goes
  <2>4. CASE End(p, "error")
    BY <2>1, <2>2, <2>4, Finishes
  <2> QED BY <1>1, <2>3, <2>4 DEF Granted
<1>2. CASE LoginLoad(p)
  <2> DEFINE v(st) == [st EXCEPT !.server = ServerOf[A], !.key = A,
                                 !.user = IF ByApi(p) THEN st.user ELSE A,
                                 !.client = IF ByApi(p) THEN A ELSE st.client]
  <2>1. SameHeld /\ At(p, "load")
    BY <1>2 DEF LoginLoad
  <2>2. PICK st \in {file, Blank} :
          Loaded(p, st) /\ Do(p, [at |-> "store access", st |-> v(st)])
    BY <1>2 DEF LoginLoad
  <2>3. v(st).key = A
    BY <1>0, <2>2, LoadedFile DEF Stores
  <2>4. file = Blank /\ opened = None /\ Settled(file, ring, opened)
    BY <2>1, FromEntering DEF Entering, At
  <2> HIDE DEF v
  <2>5. Stage("store access", v(st), A, file', ring', opened')
    BY <2>1, <2>3, <2>4, ToEntering
  <2> QED BY <2>2, <2>5, MovesSt, Goes
<1>3. CASE StoreAccess(p)
  <2>1. /\ At(p, "store access") /\ UNCHANGED <<file, opened>>
        /\ Store("access", ServerOf[A], A)
        /\ \E next \in {"store refresh", "store secret", "first sync"} : Do(p, [at |-> next])
    BY <1>3, NoOther DEF StoreAccess
  <2>2. file = Blank /\ opened = None /\ Bare(ring) /\ job[p].st.key = A
    BY <2>1, FromEntering DEF Entering, At
  <2>3. OnlyAccess(ring', ServerOf[A]) /\ OnlyTokens(ring', ServerOf[A])
    BY <1>0, <2>1, <2>2, AccessAlone
  <2>4. PICK next \in {"store refresh", "store secret", "first sync"} : Do(p, [at |-> next])
    BY <2>1
  <2>5. Stage(next, job[p].st, A, file', ring', opened')
    BY <2>1, <2>2, <2>3, ToStoring DEF Storing
  <2> QED BY <2>4, <2>5, Moves, Goes
<1>4. CASE StoreRefresh(p)
  <2>1. /\ At(p, "store refresh") /\ UNCHANGED <<file, opened>>
        /\ Store("refresh", ServerOf[A], A)
        /\ \E next \in {"store secret", "first sync"} : Do(p, [at |-> next])
    BY <1>4, NoOther DEF StoreRefresh
  <2>2. file = Blank /\ opened = None /\ OnlyAccess(ring, ServerOf[A]) /\ job[p].st.key = A
    BY <2>1, FromEntering DEF Entering, Storing, At
  <2>3. OnlyTokens(ring', ServerOf[A])
    BY <1>0, <2>1, <2>2, TokensAlone
  <2>4. PICK next \in {"store secret", "first sync"} : Do(p, [at |-> next])
    BY <2>1
  <2>5. Stage(next, job[p].st, A, file', ring', opened')
    BY <2>1, <2>2, <2>3, ToStoring DEF Storing
  <2> QED BY <2>4, <2>5, Moves, Goes
<1>5. CASE StoreSecret(p)
  <2>1. /\ At(p, "store secret") /\ UNCHANGED <<file, opened>> /\ Do(p, [at |-> "first sync"])
    BY <1>5, NoOther DEF StoreSecret
  <2>2. file = Blank /\ opened = None /\ job[p].st.key = A
    BY <2>1, FromEntering DEF Entering, Storing, At
  <2>3. Stage("first sync", job[p].st, A, file', ring', opened')
    BY <2>1, <2>2, ToStoring DEF Storing
  <2> QED BY <2>1, <2>3, Moves, Goes
<1>6. CASE UndoAccess(p) \/ UndoBoth(p)
  BY <1>6 DEF UndoAccess, UndoBoth, At, Staged, Stage
<1>8. CASE FirstSync(p)
  <2>1. SameHeld /\ At(p, "first sync")
    BY <1>8 DEF FirstSync
  <2>2. file = Blank /\ opened = None /\ job[p].st.key = A
    BY <2>1, FromEntering DEF Entering, Storing, At
  <2>3. \E st : st.key = A /\ Do(p, [at |-> "save", st |-> st])
    BY <1>0, <1>8, <2>2 DEF FirstSync, Stores
  <2>4. PICK st : st.key = A /\ Do(p, [at |-> "save", st |-> st])
    BY <2>3
  <2>5. Stage("save", st, A, file', ring', opened')
    BY <2>1, <2>2, <2>4, ToStoring DEF Storing
  <2> QED BY <2>4, <2>5, MovesSt, Goes
<1>9. CASE LoginSave(p)
  <2>1. /\ At(p, "save") /\ Saves(p, job[p].st) /\ Do(p, [at |-> "load email"])
        /\ UNCHANGED <<ring, opened>>
    BY <1>9 DEF LoginSave
  <2>2. job[p].st.key = A
    BY <2>1, FromEntering DEF Entering, Storing, At
  <2>3. Settled(file', ring', opened')
    BY <1>0, <2>1, <2>2, SettledSave
  <2>4. Stage("load email", job[p].st, A, file', ring', opened')
    BY <2>3, ToPlain
  <2> QED BY <2>1, <2>4, Moves, Goes
<1>10. CASE LoadEmail(p)
  <2>1. /\ SameHeld /\ At(p, "load email")
        /\ \E cf \in {conf, DefaultConf} : Do(p, [at |-> "save email", cf |-> cf])
    BY <1>10 DEF LoadEmail
  <2>2. Settled(file, ring, opened)
    BY <2>1, FromSettled DEF Storing, At
  <2>3. Stage("save email", job[p].st, A, file', ring', opened')
    BY <2>1, <2>2, ToPlain
  <2> QED BY <2>1, <2>3, MovesCf, Goes
<1>11. CASE SaveEmail(p)
  <2>1. /\ SameHeld /\ At(p, "save email")
        /\ End(p, "ok") \/ Do(p, [at |-> "open"])
    BY <1>11 DEF SaveEmail
  <2>2. Settled(file', ring', opened')
    BY <2>1, FromSettled DEF Storing, At
  <2>3. Stage("open", job[p].st, A, file', ring', opened')
    BY <2>2, ToPlain
  <2> QED BY <2>1, <2>2, <2>3, Moves, Goes, Finishes
<1>12. CASE OpenDaemon(p)
  <2>1. /\ At(p, "open") /\ UNCHANGED <<file, ring>>
        /\ opened' = opened \/ file.key = A
        /\ End(p, "ok") \/ Do(p, [at |-> "remember"])
    BY <1>12 DEF OpenDaemon, Opens
  <2>2. Settled(file', ring', opened')
    <3>1. Settled(file, ring, opened)
      BY <2>1, FromSettled DEF Storing, At
    <3> QED BY <1>0, <2>1, <3>1 DEF Settled
  <2>3. Stage("remember", job[p].st, A, file', ring', opened')
    BY <2>2, ToPlain
  <2> QED BY <2>1, <2>2, <2>3, Moves, Goes, Finishes
<1>13. CASE RememberLoads(p)
  <2>1. /\ SameHeld /\ At(p, "remember")
        /\ \E cf \in {conf, DefaultConf} : Do(p, [at |-> "save remember", cf |-> cf])
    BY <1>13 DEF RememberLoads
  <2>2. Settled(file, ring, opened)
    BY <2>1, FromSettled DEF Storing, At
  <2>3. Stage("save remember", job[p].st, A, file', ring', opened')
    BY <2>1, <2>2, ToPlain
  <2> QED BY <2>1, <2>3, MovesCf, Goes
<1>14. CASE RememberSaves(p)
  <2>1. SameHeld /\ At(p, "save remember") /\ End(p, "ok")
    BY <1>14 DEF RememberSaves
  <2>2. Settled(file', ring', opened')
    BY <2>1, FromSettled DEF Storing, At
  <2> QED BY <2>1, <2>2, Finishes
<1> QED BY <1>1, <1>2, <1>3, <1>4, <1>5, <1>6, <1>8, <1>9, <1>10, <1>11, <1>12, <1>13, <1>14 DEF LoginStep

LEMMA SessionOnward ==
  ASSUME JobShape, TroubleShape, Harmless, NEW a \in Accounts \cup {None}, NEW p \in Jobs,
         Around(Of(a), AnyServer), Known(p, Of(a), AnyServer), Staged(p), SessionStep(p)
  PROVE  Onward(p)
<1>0. /\ ring \in Rings(Of(a)) /\ job[p].st \in Stores(Of(a), AnyServer)
      /\ file \in Stores(Of(a), AnyServer) /\ job[p].cf \in Confs
  BY DEF Around, Known
<1> DEFINE st0 == job[p].st
           A == job[p].acct
           SameHeld == UNCHANGED <<file, ring, opened>>
<1>1. CASE UnlockLoads(p)
  <2>1. /\ SameHeld /\ At(p, "unlock")
        /\ \/ End(p, "error")
           \/ file.key # None /\ Do(p, [at |-> "find token", st |-> file])
    BY <1>1, LoadedFile DEF UnlockLoads
  <2>2. Settled(file', ring', opened') /\ Settled(file, ring, opened)
    BY <2>1, FromSettled DEF Storing, At
  <2>3. file.key # None => Stage("find token", file, A, file', ring', opened')
    BY <2>1, <2>2, ToInformed DEF Informed, Keyed, Fits
  <2> QED BY <2>1, <2>2, <2>3, MovesSt, Goes, Finishes
<1>2. CASE FindToken(p)
  <2>1. SameHeld /\ At(p, "find token") /\ \E t : Do(p, [at |-> "restore token", tok |-> t])
    BY <1>2 DEF FindToken
  <2>2. Settled(file, ring, opened) /\ Fits(st0, file) /\ file.key # None
    BY <2>1, FromInformed DEF Informed, Keyed, At
  <2>3. Stage("restore token", st0, A, file', ring', opened')
    BY <2>1, <2>2, ToInformed DEF Informed, Keyed
  <2> QED BY <2>1, <2>3, MovesTok, Goes
<1>3. CASE RestoreToken(p)
  <2>1. /\ At(p, "restore token") /\ UNCHANGED <<file, opened>> /\ Do(p, [at |-> "open"])
    BY <1>3 DEF RestoreToken
  <2>2. file.key # None
    BY <2>1, FromInformed DEF Informed, Keyed, At
  <2>3. Settled(file', ring', opened')
    BY <2>1, <2>2 DEF Settled
  <2>4. Stage("open", st0, A, file', ring', opened')
    BY <2>3, ToPlain
  <2> QED BY <2>1, <2>4, Moves, Goes
<1>4. CASE LockDaemon(p)
  <2>1. /\ job[p].at \in {"lock", "logout"} /\ UNCHANGED <<file, ring>> /\ opened' = None
        /\ Do(p, [at |-> "clear session"]) \/ Do(p, [at |-> "clear all"])
    BY <1>4 DEF LockDaemon, At
  <2>2. Settled(file, ring, opened)
    BY <2>1, FromSettled DEF Storing
  <2>3. Settled(file', ring', opened')
    BY <2>1, <2>2 DEF Settled
  <2>4. Stage("clear session", st0, A, file', ring', opened')
    BY <2>3, ToPlain
  <2>5. Stage("clear all", st0, A, file', ring', opened')
    BY <2>1, <2>3, ToErasing
  <2> QED BY <2>1, <2>4, <2>5, Moves, Goes
<1>5. CASE ClearSession(p)
  <2>1. /\ At(p, "clear session") /\ UNCHANGED <<file, opened>> /\ Do(p, [at |-> "close"])
        /\ \E s : Store("access", s, None)
    BY <1>5 DEF ClearSession
  <2>2. Settled(file, ring, opened)
    BY <2>1, FromSettled DEF Storing, At
  <2>3. Bare(ring) => Bare(ring')
    BY <1>0, <2>1, BareKept
  <2>4. Settled(file', ring', opened')
    BY <2>1, <2>2, <2>3 DEF Settled
  <2>5. Stage("close", st0, A, file', ring', opened')
    BY <2>4, ToPlain
  <2> QED BY <2>1, <2>5, Moves, Goes
<1>6. CASE CloseDaemon(p)
  <2>1. /\ At(p, "close") /\ UNCHANGED <<file, ring>> /\ opened' = None /\ End(p, "ok")
    BY <1>6 DEF CloseDaemon
  <2>2. Settled(file, ring, opened)
    BY <2>1, FromSettled DEF Storing, At
  <2>3. Settled(file', ring', opened')
    BY <2>1, <2>2 DEF Settled
  <2> QED BY <2>1, <2>3, Finishes
<1>7. CASE ClearAll(p)
  <2>1. /\ At(p, "clear all") /\ UNCHANGED <<file, opened>> /\ Do(p, [at |-> "erase"])
        /\ ring' = EmptyRing
    BY <1>7, NoOther DEF ClearAll
  <2>2. Settled(file, ring, opened) /\ opened = None
    BY <2>1, FromSettled DEF Storing, At, Staged, Stage
  <2>3. Bare(ring')
    BY <2>1, BareEmpty
  <2>4. Settled(file', ring', opened')
    BY <2>1, <2>2, <2>3 DEF Settled
  <2>5. Stage("erase", st0, A, file', ring', opened')
    BY <2>1, <2>2, <2>3, <2>4, ToErasing
  <2> QED BY <2>1, <2>5, Moves, Goes
<1>8. CASE Erase(p)
  <2>1. /\ At(p, "erase") /\ Saves(p, Blank) /\ Do(p, [at |-> "close"])
        /\ UNCHANGED <<ring, opened>>
    BY <1>8 DEF Erase
  <2>2. Bare(ring) /\ opened = None
    BY <2>1 DEF At, Staged, Stage
  <2>3. file' = Blank
    BY <2>1, NoOther, SerializedBlank DEF Saves, AtomicWrite
  <2>4. Settled(file', ring', opened')
    BY <2>1, <2>2, <2>3 DEF Settled
  <2>5. Stage("close", st0, A, file', ring', opened')
    BY <2>4, ToPlain
  <2> QED BY <2>1, <2>5, Moves, Goes
<1>9. CASE StatusLoads(p)
  <2>1. /\ SameHeld /\ At(p, "status")
        /\ \/ Do(p, [at |-> "judge", st |-> file])
           \/ /\ file.oldAccess # None \/ file.oldRefresh # None
              /\ Do(p, [at |-> "migrate access", st |-> file])
    BY <1>9, LoadedFile DEF StatusLoads
  <2>2. Settled(file, ring, opened)
    BY <2>1, FromSettled DEF Storing, At
  <2>3. Fits(file, file)
    BY <2>2 DEF Settled, Fits
  <2>4. Stage("judge", file, A, file', ring', opened')
    BY <2>1, <2>2, <2>3, ToInformed DEF Informed, Keyed
  <2>5. file.oldAccess # None \/ file.oldRefresh # None => file.key # None
    BY <2>2, BlankParts DEF Settled
  <2>6. file.oldAccess # None \/ file.oldRefresh # None =>
          Stage("migrate access", file, A, file', ring', opened')
    BY <2>1, <2>2, <2>3, <2>5, ToInformed DEF Informed, Keyed
  <2> QED BY <2>1, <2>4, <2>6, MovesSt, Goes
<1>10. CASE MigrateAccess(p) \/ MigrateRefresh(p)
  <2>1. ASSUME NEW kind, NEW field \in {"oldAccess", "oldRefresh"}, NEW from, NEW to,
               Migrate(p, kind, field, from, to)
        PROVE  /\ job[p].at = from /\ UNCHANGED <<file, opened>>
               /\ \/ Do(p, [at |-> to, res |-> "stored"])
                  \/ \E st : /\ st.key = st0.key
                             /\ Do(p, [at |-> to, res |-> "stored", st |-> st])
    <3>1. [st0 EXCEPT ![field] = None].key = st0.key
      BY <1>0 DEF Stores
    <3> QED BY <2>1, <3>1, NoOther DEF Migrate, At
  <2>2. PICK to \in {"migrate refresh", "scrub"} :
          /\ job[p].at \in {"migrate access", "migrate refresh"} /\ UNCHANGED <<file, opened>>
          /\ \/ Do(p, [at |-> to, res |-> "stored"])
             \/ \E st : /\ st.key = st0.key
                        /\ Do(p, [at |-> to, res |-> "stored", st |-> st])
    BY <1>10, <2>1 DEF MigrateAccess, MigrateRefresh
  <2>3. file.key # None /\ st0.key = file.key
    BY <2>2, FromInformed DEF Informed, Keyed, Fits
  <2>4. Settled(file', ring', opened')
    BY <2>2, <2>3 DEF Settled
  <2>5. ASSUME NEW st, st.key = st0.key PROVE Stage(to, st, A, file', ring', opened')
    <3>1. Fits(st, file')
      BY <2>2, <2>3, <2>5 DEF Fits
    <3> QED BY <2>2, <2>3, <2>4, <3>1, ToInformed DEF Informed, Keyed
  <2>6. CASE Do(p, [at |-> to, res |-> "stored"])
    BY <2>5, <2>6, MovesRes, Goes
  <2>7. ASSUME NEW st, st.key = st0.key, Do(p, [at |-> to, res |-> "stored", st |-> st])
        PROVE  Onward(p)
    BY <2>5, <2>7, MovesBoth, Goes
  <2> QED BY <2>2, <2>6, <2>7
<1>12. CASE Scrub(p)
  <2>1. /\ At(p, "scrub") /\ (file' = file \/ Saves(p, st0)) /\ Do(p, [at |-> "judge"])
        /\ UNCHANGED <<ring, opened>>
    BY <1>12 DEF Scrub
  <2>2. file.key # None /\ st0.key = file.key
    BY <2>1, FromInformed DEF Informed, Keyed, Fits, At
  <2>3. file'.key = st0.key
    BY <1>0, <2>1, <2>2, SerializedKey DEF Saves, AtomicWrite
  <2>4. Settled(file', ring', opened') /\ Fits(st0, file')
    BY <2>2, <2>3 DEF Settled, Fits
  <2>5. Stage("judge", st0, A, file', ring', opened')
    BY <2>4, ToInformed DEF Informed, Keyed
  <2> QED BY <2>1, <2>5, Moves, Goes
<1>13. CASE Judge(p)
  <2>1. /\ At(p, "judge") /\ UNCHANGED <<file, opened>>
        /\ \/ End(p, "told") /\ UNCHANGED ring
           \/ /\ st0.user # None \/ st0.client # None
              /\ Do(p, [at |-> "give up"])
    BY <1>13 DEF Judge
  <2>2. Settled(file, ring, opened) /\ Fits(st0, file)
    BY <2>1, FromInformed DEF Informed, At
  <2>3. CASE st0.user # None \/ st0.client # None
    <3>1. file.key # None
      BY <2>2, <2>3, BlankParts DEF Fits
    <3>2. Settled(file', ring', opened') /\ Fits(st0, file')
      BY <2>1, <2>2, <3>1 DEF Settled
    <3>3. Stage("give up", st0, A, file', ring', opened')
      BY <2>1, <3>1, <3>2, ToInformed DEF Informed, Keyed
    <3> QED BY <2>1, <2>2, <3>3, Moves, Goes, Finishes
  <2>4. CASE End(p, "told") /\ UNCHANGED ring
    BY <2>1, <2>2, <2>4, Finishes
  <2> QED BY <2>1, <2>3, <2>4
<1>14. CASE GiveUp(p)
  <2>1. /\ At(p, "give up") /\ Saves(p, st0) /\ Do(p, [at |-> "close"])
        /\ UNCHANGED <<ring, opened>>
    BY <1>14 DEF GiveUp
  <2>2. file.key # None /\ st0.key = file.key
    BY <2>1, FromInformed DEF Informed, Keyed, Fits, At
  <2>3. Settled(file', ring', opened')
    BY <1>0, <2>1, <2>2, SettledSave
  <2>4. Stage("close", st0, A, file', ring', opened')
    BY <2>3, ToPlain
  <2> QED BY <2>1, <2>4, Moves, Goes
<1> QED BY <1>1, <1>2, <1>3, <1>4, <1>5, <1>6, <1>7, <1>8, <1>9, <1>10, <1>12, <1>13, <1>14 DEF SessionStep

LEMMA ServerOnward ==
  ASSUME JobShape, TroubleShape, Harmless, NEW a \in Accounts \cup {None}, NEW p \in Jobs,
         Around(Of(a), AnyServer), Known(p, Of(a), AnyServer), Staged(p), ServerStep(p)
  PROVE  Onward(p)
<1>0. /\ ring \in Rings(Of(a)) /\ job[p].st \in Stores(Of(a), AnyServer)
      /\ file \in Stores(Of(a), AnyServer) /\ job[p].cf \in Confs
  BY DEF Around, Known
<1> DEFINE st0 == job[p].st
           A == job[p].acct
           SameHeld == UNCHANGED <<file, ring, opened>>
<1>1. CASE RemoveFile(p)
  <2>1. /\ At(p, "server") /\ UNCHANGED <<ring, opened>>
        /\ \/ UNCHANGED file /\ Do(p, [at |-> "save conf"])
           \/ file' = Blank /\ Do(p, [at |-> "purge"])
    BY <1>1, NoOther DEF RemoveFile
  <2>2. Settled(file, ring, opened)
    BY <2>1, FromSettled DEF Storing, At
  <2>3. UNCHANGED file => Stage("save conf", st0, A, file', ring', opened')
    BY <2>1, <2>2, ToPlain
  <2>4. file' = Blank => Stage("purge", st0, A, file', ring', opened')
    BY ToMoving
  <2> QED BY <2>1, <2>3, <2>4, Moves, Goes
<1>2. CASE PurgeRing(p)
  <2>1. /\ At(p, "purge") /\ UNCHANGED <<file, opened>> /\ ring' = EmptyRing
        /\ Do(p, [at |-> "stop"])
    BY <1>2, NoOther DEF PurgeRing
  <2>2. file' = Blank
    BY <2>1 DEF At, Staged, Stage
  <2>3. Stage("stop", st0, A, file', ring', opened')
    BY <2>1, <2>2, ToMoving, BareEmpty
  <2> QED BY <2>1, <2>3, Moves, Goes
<1>3. CASE StopDaemon(p)
  <2>1. /\ At(p, "stop") /\ UNCHANGED <<file, ring>> /\ opened' = None
        /\ Do(p, [at |-> "save conf"])
    BY <1>3 DEF StopDaemon
  <2>2. Settled(file', ring', opened')
    BY <2>1 DEF At, Staged, Stage, Settled
  <2>3. Stage("save conf", st0, A, file', ring', opened')
    BY <2>2, ToPlain
  <2> QED BY <2>1, <2>3, Moves, Goes
<1>4. CASE SaveConf(p)
  <2>1. SameHeld /\ At(p, "save conf") /\ \E res : End(p, res)
    BY <1>4 DEF SaveConf
  <2>2. Settled(file', ring', opened')
    BY <2>1, FromSettled DEF Storing, At
  <2> QED BY <2>1, <2>2, Finishes
<1> QED BY <1>1, <1>2, <1>3, <1>4 DEF ServerStep

LEMMA ScopeOf == ASSUME NEW a \in Accounts \cup {None} PROVE Scope(Of(a), AnyServer)
  BY DEF Scope, Of, AnyServer, Anybody

LEMMA RenewOnward ==
  ASSUME JobShape, TroubleShape, Harmless, NEW a \in Accounts \cup {None}, NEW p \in Jobs,
         Around(Of(a), AnyServer), Known(p, Of(a), AnyServer), Staged(p), RenewStep(p)
  PROVE  Onward(p)
<1>0. /\ ring \in Rings(Of(a)) /\ job[p].st \in Stores(Of(a), AnyServer)
      /\ file \in Stores(Of(a), AnyServer) /\ job[p].cf \in Confs
  BY DEF Around, Known
<1> DEFINE st0 == job[p].st
           A == job[p].acct
           SameHeld == UNCHANGED <<file, ring, opened>>
<1>9. Scope(Of(a), AnyServer)
  BY ScopeOf
<1>1. CASE RenewLoads(p)
  <2>1. /\ SameHeld /\ job[p].at \in {"renew", "attach"}
        /\ Do(p, [at |-> "ask refresh", st |-> file])
    BY <1>1, LoadedFile DEF RenewLoads, At
  <2>2. Settled(file, ring, opened)
    BY <2>1, FromSettled DEF Storing
  <2>3. Fits(file, file)
    BY <2>2 DEF Settled, Fits
  <2>4. Stage("ask refresh", file, A, file', ring', opened')
    BY <2>1, <2>2, <2>3, ToInformed DEF Informed, Keyed
  <2> QED BY <2>1, <2>4, MovesSt, Goes
<1>2. CASE AskRefresh(p)
  <2>1. /\ SameHeld /\ At(p, "ask refresh")
        /\ \/ \E found \in Found("refresh", Url(st0, p)) : \E t :
                /\ t = (IF found # None THEN found ELSE st0.oldRefresh) /\ t # None
                /\ Do(p, [at |-> "keep access", tok |-> t])
           \/ Do(p, [at |-> "ask secret"])
    BY <1>2 DEF AskRefresh
  <2>2. Settled(file, ring, opened) /\ Fits(st0, file)
    BY <2>1, FromInformed DEF Informed, At
  <2>3. CASE Do(p, [at |-> "ask secret"])
    <3>1. Stage("ask secret", st0, A, file', ring', opened')
      BY <2>1, <2>2, ToInformed DEF Informed, Keyed
    <3> QED BY <2>3, <3>1, Moves, Goes
  <2>4. ASSUME NEW found \in Found("refresh", Url(st0, p)), NEW t,
               t = (IF found # None THEN found ELSE st0.oldRefresh), t # None,
               Do(p, [at |-> "keep access", tok |-> t])
        PROVE  Onward(p)
    <3>1. Url(st0, p) \in Servers
      BY <1>0, <1>9, UrlOf
    <3>2. ASSUME file.key = None PROVE FALSE
      <4>1. Bare(ring) /\ st0 = Blank
        BY <2>2, <3>2 DEF Settled, Fits
      <4>2. Found("refresh", Url(st0, p)) = {None}
        BY <3>1, <4>1, NothingFound
      <4> QED BY <2>4, <4>1, <4>2, BlankParts
    <3>3. Stage("keep access", st0, A, file', ring', opened')
      BY <2>1, <2>2, <3>2, ToInformed DEF Informed, Keyed
    <3> QED BY <2>4, <3>3, MovesTok, Goes
  <2> QED BY <2>1, <2>3, <2>4
<1>3. CASE AskSecret(p)
  <2>1. /\ SameHeld /\ At(p, "ask secret")
        /\ \/ /\ HasSecret(st0.client, Url(st0, p))
              /\ \E t : Do(p, [at |-> "keep access", tok |-> t])
           \/ Do(p, [at |-> "drop tokens"]) \/ End(p, "error")
    BY <1>3 DEF AskSecret
  <2>2. Settled(file, ring, opened) /\ Fits(st0, file)
    BY <2>1, FromInformed DEF Informed, At
  <2>3. CASE Do(p, [at |-> "drop tokens"]) \/ End(p, "error")
    <3>1. Stage("drop tokens", st0, A, file', ring', opened')
      BY <2>1, <2>2, ToPlain
    <3> QED BY <2>1, <2>2, <2>3, <3>1, Moves, Goes, Finishes
  <2>4. CASE HasSecret(st0.client, Url(st0, p)) /\ \E t : Do(p, [at |-> "keep access", tok |-> t])
    <3>1. file.key # None
      BY <2>2, <2>4, BlankParts DEF Settled, Fits, HasSecret
    <3>2. Stage("keep access", st0, A, file', ring', opened')
      BY <2>1, <2>2, <3>1, ToInformed DEF Informed, Keyed
    <3> QED BY <2>4, <3>2, MovesTok, Goes
  <2> QED BY <2>1, <2>3, <2>4
<1>4. CASE KeepAccess(p)
  <2>1. /\ At(p, "keep access") /\ UNCHANGED <<file, opened>>
        /\ Do(p, [at |-> "keep refresh", st |-> file])
    BY <1>4, LoadedFile DEF KeepAccess
  <2>2. file.key # None
    BY <2>1, FromInformed DEF Informed, Keyed, At
  <2>3. Settled(file', ring', opened') /\ Fits(file, file')
    BY <2>1, <2>2 DEF Settled, Fits
  <2>4. Stage("keep refresh", file, A, file', ring', opened')
    BY <2>1, <2>2, <2>3, ToInformed DEF Informed, Keyed
  <2> QED BY <2>1, <2>4, MovesSt, Goes
<1>5. CASE KeepRefresh(p)
  <2>1. /\ At(p, "keep refresh") /\ UNCHANGED <<file, opened>> /\ Do(p, [at |-> "keep file"])
    BY <1>5, NoOther DEF KeepRefresh
  <2>2. file.key # None /\ Fits(st0, file)
    BY <2>1, FromInformed DEF Informed, Keyed, At
  <2>3. Settled(file', ring', opened')
    BY <2>1, <2>2 DEF Settled
  <2>4. Stage("keep file", st0, A, file', ring', opened')
    BY <2>1, <2>2, <2>3, ToInformed DEF Informed, Keyed
  <2> QED BY <2>1, <2>4, Moves, Goes
<1>6. CASE KeepFile(p)
  <2>1. /\ At(p, "keep file") /\ Saves(p, st0) /\ End(p, "ok") /\ UNCHANGED <<ring, opened>>
    BY <1>6 DEF KeepFile
  <2>2. file.key # None /\ st0.key = file.key
    BY <2>1, FromInformed DEF Informed, Keyed, Fits, At
  <2>3. Settled(file', ring', opened')
    BY <1>0, <2>1, <2>2, SettledSave
  <2> QED BY <2>1, <2>3, Finishes
<1>7. CASE DropTokens(p)
  <2>1. /\ At(p, "drop tokens") /\ UNCHANGED <<file, opened>>
        /\ (\E s : ClearBoth(s)) /\ Do(p, [at |-> "drop file", st |-> file])
    BY <1>7, LoadedFile DEF DropTokens
  <2>2. Settled(file, ring, opened)
    BY <2>1, FromSettled DEF Storing, At
  <2>3. Bare(ring) => Bare(ring')
    BY <1>0, <2>1, BareKept
  <2>4. Settled(file', ring', opened') /\ Fits(file, file')
    BY <2>1, <2>2, <2>3 DEF Settled, Fits
  <2>5. Stage("drop file", file, A, file', ring', opened')
    BY <2>1, <2>4, ToInformed DEF Informed, Keyed
  <2> QED BY <2>1, <2>5, MovesSt, Goes
<1>8. CASE DropFile(p)
  <2>1. /\ At(p, "drop file") /\ Saves(p, st0) /\ opened' = None /\ End(p, "error")
        /\ UNCHANGED ring
    BY <1>8 DEF DropFile
  <2>2. Settled(file, ring, opened) /\ Fits(st0, file)
    BY <2>1, FromInformed DEF Informed, At
  <2>3. st0.key = None => st0 = Blank /\ Bare(ring')
    BY <2>1, <2>2 DEF Settled, Fits
  <2>4. Settled(file', ring', opened')
    BY <1>0, <2>1, <2>3, SettledSave
  <2> QED BY <2>1, <2>4, Finishes
<1> QED BY <1>1, <1>2, <1>3, <1>4, <1>5, <1>6, <1>7, <1>8 DEF RenewStep

(* Only a login comes to the places of a login, and it leaves them at their *)
(* end only.                                                                *)
MovingPlaces == {"purge", "stop", "save conf"}
LoginRoute == LoginPlaces \cup {"load email", "save email", "open", "remember", "save remember"}
LEMMA MigrateMoves ==
  ASSUME JobShape, NEW p \in Jobs, NEW kind, NEW field, NEW from, NEW to,
         Migrate(p, kind, field, from, to)
  PROVE  job[p].at = from /\ job'[p].at = to
<1> DEFINE st == [job[p].st EXCEPT ![field] = None]
<1>1. \/ Do(p, [at |-> to, res |-> "stored"])
      \/ Do(p, [at |-> to, res |-> "stored", st |-> st])
      \/ Do(p, [at |-> to])
  BY DEF Migrate
<1> HIDE DEF st
<1>2. job[p].at = from
  BY DEF Migrate, At
<1> QED BY <1>1, <1>2, Moves, MovesRes, MovesBoth DEF Moved
LEMMA LoginRouted ==
  ASSUME JobShape, NEW p \in Jobs, LoginStep(p)
  PROVE  /\ job'[p].at \in LoginRoute \cup {"idle"}
         /\ job'[p].at \in LoginPlaces => job[p].at \in LoginPlaces
         /\ job'[p].at = "undo access" => StoreRefresh(p)
         /\ job'[p].at = "undo both" => StoreSecret(p)
<1> USE DEF At, Moved, ByApi
<1>1. CASE Granted(p)
  <2>0. /\ job[p].at \in {"login", "apikey"}
        /\ End(p, "error") \/ Do(p, [at |-> "load"])
    BY <1>1 DEF Granted
  <2>1. job[p].at \in {"login", "apikey"} /\ job'[p].at \in {"load", "idle"}
    <3>1. CASE End(p, "error")
      BY <2>0, <3>1, Ends
    <3>2. CASE Do(p, [at |-> "load"])
      BY <2>0, <3>2, Moves
    <3> QED BY <2>0, <3>1, <3>2
  <2> QED BY <2>1 DEF LoginRoute, LoginPlaces, MovingPlaces
<1>2. CASE LoginLoad(p)
  <2>1. job[p].at = "load" /\ job'[p].at = "store access"
    BY <1>2, MovesSt DEF LoginLoad
  <2> QED BY <2>1 DEF LoginRoute, LoginPlaces, MovingPlaces
<1>3. CASE StoreAccess(p)
  <2>0. /\ At(p, "store access")
        /\ \/ \E next \in {"store refresh", "store secret", "first sync"} : Do(p, [at |-> next])
           \/ End(p, "error")
    BY <1>3 DEF StoreAccess
  <2>1. job[p].at = "store access" /\ job'[p].at \in {"store refresh", "store secret", "first sync", "idle"}
    <3>1. CASE End(p, "error")
      BY <2>0, <3>1, Ends
    <3>2. CASE \E next \in {"store refresh", "store secret", "first sync"} : Do(p, [at |-> next])
      BY <2>0, <3>2, Moves
    <3> QED BY <2>0, <3>1, <3>2
  <2> QED BY <2>1 DEF LoginRoute, LoginPlaces, MovingPlaces
<1>4. CASE StoreRefresh(p)
  <2>1. job[p].at = "store refresh" /\ job'[p].at \in {"store secret", "first sync", "undo access"}
    BY <1>4, Moves DEF StoreRefresh
  <2> QED BY <1>4, <2>1 DEF LoginRoute, LoginPlaces, MovingPlaces
<1>5. CASE StoreSecret(p)
  <2>1. job[p].at = "store secret" /\ job'[p].at \in {"first sync", "undo both"}
    BY <1>5, Moves DEF StoreSecret
  <2> QED BY <1>5, <2>1 DEF LoginRoute, LoginPlaces, MovingPlaces
<1>6. CASE UndoAccess(p)
  <2>1. job[p].at = "undo access" /\ job'[p].at = "idle"
    BY <1>6, Ends DEF UndoAccess
  <2> QED BY <2>1 DEF LoginRoute, LoginPlaces, MovingPlaces
<1>7. CASE UndoBoth(p)
  <2>1. job[p].at = "undo both" /\ job'[p].at = "idle"
    BY <1>7, Ends DEF UndoBoth
  <2> QED BY <2>1 DEF LoginRoute, LoginPlaces, MovingPlaces
<1>8. CASE FirstSync(p)
  <2>1. job[p].at = "first sync" /\ job'[p].at = "save"
    BY <1>8, MovesSt DEF FirstSync
  <2> QED BY <2>1 DEF LoginRoute, LoginPlaces, MovingPlaces
<1>9. CASE LoginSave(p)
  <2>1. job[p].at = "save" /\ job'[p].at = "load email"
    BY <1>9, Moves DEF LoginSave
  <2> QED BY <2>1 DEF LoginRoute, LoginPlaces, MovingPlaces
<1>10. CASE LoadEmail(p)
  <2>1. job[p].at = "load email" /\ job'[p].at = "save email"
    BY <1>10, MovesCf DEF LoadEmail
  <2> QED BY <2>1 DEF LoginRoute, LoginPlaces, MovingPlaces
<1>11. CASE SaveEmail(p)
  <2>0. /\ At(p, "save email")
        /\ End(p, "ok") \/ Do(p, [at |-> "open"])
    BY <1>11 DEF SaveEmail
  <2>1. job[p].at = "save email" /\ job'[p].at \in {"open", "idle"}
    <3>1. CASE End(p, "ok")
      BY <2>0, <3>1, Ends
    <3>2. CASE Do(p, [at |-> "open"])
      BY <2>0, <3>2, Moves
    <3> QED BY <2>0, <3>1, <3>2
  <2> QED BY <2>1 DEF LoginRoute, LoginPlaces, MovingPlaces
<1>12. CASE OpenDaemon(p)
  <2>1. job[p].at = "open" /\ job'[p].at \in {"remember", "idle"}
    BY <1>12, Moves, Ends DEF OpenDaemon
  <2> QED BY <2>1 DEF LoginRoute, LoginPlaces, MovingPlaces
<1>13. CASE RememberLoads(p)
  <2>1. job[p].at = "remember" /\ job'[p].at = "save remember"
    BY <1>13, MovesCf DEF RememberLoads
  <2> QED BY <2>1 DEF LoginRoute, LoginPlaces, MovingPlaces
<1>14. CASE RememberSaves(p)
  <2>1. job[p].at = "save remember" /\ job'[p].at = "idle"
    BY <1>14, Ends DEF RememberSaves
  <2> QED BY <2>1 DEF LoginRoute, LoginPlaces, MovingPlaces
<1> QED BY <1>1, <1>2, <1>3, <1>4, <1>5, <1>6, <1>7, <1>8, <1>9, <1>10, <1>11, <1>12, <1>13, <1>14 DEF LoginStep
LEMMA SessionApart ==
  ASSUME JobShape, NEW p \in Jobs, SessionStep(p)
  PROVE  job[p].at \notin LoginRoute /\ job'[p].at \notin LoginPlaces \cup MovingPlaces
<1> USE DEF At, Moved
<1>1. CASE UnlockLoads(p)
  <2>0. /\ At(p, "unlock")
        /\ End(p, "error") \/ \E st : Do(p, [at |-> "find token", st |-> st])
    BY <1>1 DEF UnlockLoads
  <2>1. job[p].at = "unlock" /\ job'[p].at \in {"find token", "idle"}
    <3>1. CASE End(p, "error")
      BY <2>0, <3>1, Ends
    <3>2. CASE \E st : Do(p, [at |-> "find token", st |-> st])
      BY <2>0, <3>2, MovesSt
    <3> QED BY <2>0, <3>1, <3>2
  <2> QED BY <2>1 DEF LoginRoute, LoginPlaces, MovingPlaces
<1>2. CASE FindToken(p)
  <2>1. job[p].at = "find token" /\ job'[p].at = "restore token"
    BY <1>2, MovesTok DEF FindToken
  <2> QED BY <2>1 DEF LoginRoute, LoginPlaces, MovingPlaces
<1>3. CASE RestoreToken(p)
  <2>1. job[p].at = "restore token" /\ job'[p].at = "open"
    BY <1>3, Moves DEF RestoreToken
  <2> QED BY <2>1 DEF LoginRoute, LoginPlaces, MovingPlaces
<1>4. CASE LockDaemon(p)
  <2>1. job[p].at \in {"lock", "logout"} /\ job'[p].at \in {"clear session", "clear all"}
    BY <1>4, Moves DEF LockDaemon
  <2> QED BY <2>1 DEF LoginRoute, LoginPlaces, MovingPlaces
<1>5. CASE ClearSession(p)
  <2>1. job[p].at = "clear session" /\ job'[p].at = "close"
    BY <1>5, Moves DEF ClearSession
  <2> QED BY <2>1 DEF LoginRoute, LoginPlaces, MovingPlaces
<1>6. CASE CloseDaemon(p)
  <2>1. job[p].at = "close" /\ job'[p].at = "idle"
    BY <1>6, Ends DEF CloseDaemon
  <2> QED BY <2>1 DEF LoginRoute, LoginPlaces, MovingPlaces
<1>7. CASE ClearAll(p)
  <2>1. job[p].at = "clear all" /\ job'[p].at = "erase"
    BY <1>7, Moves DEF ClearAll
  <2> QED BY <2>1 DEF LoginRoute, LoginPlaces, MovingPlaces
<1>8. CASE Erase(p)
  <2>1. job[p].at = "erase" /\ job'[p].at = "close"
    BY <1>8, Moves DEF Erase
  <2> QED BY <2>1 DEF LoginRoute, LoginPlaces, MovingPlaces
<1>9. CASE StatusLoads(p)
  <2>1. job[p].at = "status" /\ job'[p].at \in {"judge", "migrate access"}
    BY <1>9, MovesSt DEF StatusLoads
  <2> QED BY <2>1 DEF LoginRoute, LoginPlaces, MovingPlaces
<1>10. CASE MigrateAccess(p)
  <2>1. job[p].at = "migrate access" /\ job'[p].at = "migrate refresh"
    BY <1>10, MigrateMoves DEF MigrateAccess
  <2> QED BY <2>1 DEF LoginRoute, LoginPlaces, MovingPlaces
<1>11. CASE MigrateRefresh(p)
  <2>1. job[p].at = "migrate refresh" /\ job'[p].at = "scrub"
    BY <1>11, MigrateMoves DEF MigrateRefresh
  <2> QED BY <2>1 DEF LoginRoute, LoginPlaces, MovingPlaces
<1>12. CASE Scrub(p)
  <2>1. job[p].at = "scrub" /\ job'[p].at = "judge"
    BY <1>12, Moves DEF Scrub
  <2> QED BY <2>1 DEF LoginRoute, LoginPlaces, MovingPlaces
<1>13. CASE Judge(p)
  <2>0. /\ At(p, "judge")
        /\ End(p, "told") \/ Do(p, [at |-> "give up"])
    BY <1>13 DEF Judge
  <2>1. job[p].at = "judge" /\ job'[p].at \in {"give up", "idle"}
    <3>1. CASE End(p, "told")
      BY <2>0, <3>1, Ends
    <3>2. CASE Do(p, [at |-> "give up"])
      BY <2>0, <3>2, Moves
    <3> QED BY <2>0, <3>1, <3>2
  <2> QED BY <2>1 DEF LoginRoute, LoginPlaces, MovingPlaces
<1>14. CASE GiveUp(p)
  <2>1. job[p].at = "give up" /\ job'[p].at = "close"
    BY <1>14, Moves DEF GiveUp
  <2> QED BY <2>1 DEF LoginRoute, LoginPlaces, MovingPlaces
<1> QED BY <1>1, <1>2, <1>3, <1>4, <1>5, <1>6, <1>7, <1>8, <1>9, <1>10, <1>11, <1>12, <1>13, <1>14 DEF SessionStep
LEMMA ServerApart ==
  ASSUME JobShape, NEW p \in Jobs, ServerStep(p)
  PROVE  job[p].at \notin LoginRoute /\ job'[p].at \notin LoginPlaces
<1> USE DEF At, Moved
<1>1. CASE RemoveFile(p)
  <2>1. job[p].at = "server" /\ job'[p].at \in {"save conf", "purge"}
    BY <1>1, Moves DEF RemoveFile
  <2> QED BY <2>1 DEF LoginRoute, LoginPlaces, MovingPlaces
<1>2. CASE PurgeRing(p)
  <2>1. job[p].at = "purge" /\ job'[p].at = "stop"
    BY <1>2, Moves DEF PurgeRing
  <2> QED BY <2>1 DEF LoginRoute, LoginPlaces, MovingPlaces
<1>3. CASE StopDaemon(p)
  <2>1. job[p].at = "stop" /\ job'[p].at = "save conf"
    BY <1>3, Moves DEF StopDaemon
  <2> QED BY <2>1 DEF LoginRoute, LoginPlaces, MovingPlaces
<1>4. CASE SaveConf(p)
  <2>1. job[p].at = "save conf" /\ job'[p].at = "idle"
    BY <1>4, Ends DEF SaveConf
  <2> QED BY <2>1 DEF LoginRoute, LoginPlaces, MovingPlaces
<1> QED BY <1>1, <1>2, <1>3, <1>4 DEF ServerStep
LEMMA RenewApart ==
  ASSUME JobShape, NEW p \in Jobs, RenewStep(p)
  PROVE  job[p].at \notin LoginRoute /\ job'[p].at \notin LoginPlaces \cup MovingPlaces
<1> USE DEF At, Moved
<1>1. CASE RenewLoads(p)
  <2>1. job[p].at \in {"renew", "attach"} /\ job'[p].at = "ask refresh"
    BY <1>1, MovesSt DEF RenewLoads
  <2> QED BY <2>1 DEF LoginRoute, LoginPlaces, MovingPlaces
<1>2. CASE AskRefresh(p)
  <2>1. job[p].at = "ask refresh" /\ job'[p].at \in {"keep access", "ask secret"}
    BY <1>2, Moves, MovesTok DEF AskRefresh
  <2> QED BY <2>1 DEF LoginRoute, LoginPlaces, MovingPlaces
<1>3. CASE AskSecret(p)
  <2>0. /\ At(p, "ask secret")
        /\ \/ \E t : Do(p, [at |-> "keep access", tok |-> t])
           \/ Do(p, [at |-> "drop tokens"]) \/ End(p, "error")
    BY <1>3 DEF AskSecret
  <2>1. job[p].at = "ask secret" /\ job'[p].at \in {"keep access", "drop tokens", "idle"}
    <3>1. CASE \E t : Do(p, [at |-> "keep access", tok |-> t])
      BY <2>0, <3>1, MovesTok
    <3>2. CASE Do(p, [at |-> "drop tokens"])
      BY <2>0, <3>2, Moves
    <3>3. CASE End(p, "error")
      BY <2>0, <3>3, Ends
    <3> QED BY <2>0, <3>1, <3>2, <3>3
  <2> QED BY <2>1 DEF LoginRoute, LoginPlaces, MovingPlaces
<1>4. CASE KeepAccess(p)
  <2>1. job[p].at = "keep access" /\ job'[p].at = "keep refresh"
    BY <1>4, MovesSt DEF KeepAccess
  <2> QED BY <2>1 DEF LoginRoute, LoginPlaces, MovingPlaces
<1>5. CASE KeepRefresh(p)
  <2>1. job[p].at = "keep refresh" /\ job'[p].at \in {"drop tokens", "keep file"}
    BY <1>5, Moves DEF KeepRefresh
  <2> QED BY <2>1 DEF LoginRoute, LoginPlaces, MovingPlaces
<1>6. CASE KeepFile(p)
  <2>1. job[p].at = "keep file" /\ job'[p].at = "idle"
    BY <1>6, Ends DEF KeepFile
  <2> QED BY <2>1 DEF LoginRoute, LoginPlaces, MovingPlaces
<1>7. CASE DropTokens(p)
  <2>1. job[p].at = "drop tokens" /\ job'[p].at = "drop file"
    BY <1>7, MovesSt DEF DropTokens
  <2> QED BY <2>1 DEF LoginRoute, LoginPlaces, MovingPlaces
<1>8. CASE DropFile(p)
  <2>1. job[p].at = "drop file" /\ job'[p].at = "idle"
    BY <1>8, Ends DEF DropFile
  <2> QED BY <2>1 DEF LoginRoute, LoginPlaces, MovingPlaces
<1> QED BY <1>1, <1>2, <1>3, <1>4, <1>5, <1>6, <1>7, <1>8 DEF RenewStep
LEMMA Routed ==
  ASSUME JobShape, NEW p \in Jobs, AccountStep(p)
  PROVE  /\ job'[p].at \in LoginPlaces => job[p].at \in LoginPlaces
         /\ job[p].at \in LoginRoute => LoginStep(p) /\ job'[p].at \in LoginRoute \cup {"idle"}
         /\ job'[p].at = "undo access" => StoreRefresh(p)
         /\ job'[p].at = "undo both" => StoreSecret(p)
         /\ job'[p].at \in MovingPlaces => ServerStep(p)
<1>1. LoginStep(p) => job'[p].at \notin MovingPlaces
  BY LoginRouted DEF LoginRoute, LoginPlaces, MovingPlaces
<1>2. "undo access" \in LoginPlaces /\ "undo both" \in LoginPlaces
  BY DEF LoginPlaces
<1> QED BY <1>1, <1>2, LoginRouted, SessionApart, ServerApart, RenewApart DEF AccountStep

(* All steps leave what is held within the same accounts and servers.       *)
LEMMA StepWithin ==
  ASSUME NEW O, NEW S, Scope(O, S), JobShape, TroubleShape, Within(O, S),
         NEW p \in Jobs, AccountStep(p)
  PROVE  Within(O, S)'
<1>1. Summary(p) /\ Busy(p)
  BY StepSummary DEF Summary
<1>2. Around(O, S) /\ Known(p, O, S)
  BY <1>1 DEF Within
<1>3. After(p, O, S)
  BY <1>2, LoginWithin, SessionWithin, ServerWithin, RenewWithin DEF AccountStep
<1>4. Around(O, S)' /\ (Busy(p)' => Known(p, O, S)')
  BY <1>1, <1>2, <1>3, Routed DEF After, Known, Summary, Busy
<1>5. ASSUME NEW q \in Jobs \ {p}, Busy(q)' PROVE Known(q, O, S)'
  BY <1>1, <1>5 DEF Summary, Others, Known, Within, Busy
<1> QED BY <1>4, <1>5 DEF Within

LEMMA KillWithin ==
  ASSUME NEW O, NEW S, Scope(O, S), JobShape, TroubleShape, Within(O, S),
         NEW p \in Jobs, Kill(p)
  PROVE  Within(O, S)'
<1>1. Summary(p) /\ job'[p].at = "idle"
  BY KillSummary
<1>2. Around(O, S)'
  BY DEF Kill, Within, Around
<1>3. ASSUME NEW q \in Jobs, Busy(q)' PROVE Known(q, O, S)'
  BY <1>1, <1>3 DEF Summary, Others, Known, Within, Busy
<1> QED BY <1>2, <1>3 DEF Within

LEMMA BeginWithin ==
  ASSUME NEW O, NEW S, Scope(O, S), JobShape, TroubleShape, Within(O, S),
         NEW p \in Jobs, NEW op \in Starts, NEW a \in Accounts, Begin(p, op, a),
         op \in {"login", "apikey"} => a \in O /\ ServerOf[a] \in S
  PROVE  Within(O, S)'
<1>1. Around(O, S)'
  BY Begun DEF Within, Around
<1>2. Known(p, O, S)'
  <2>1. /\ job'[p].op = op /\ job'[p].at = op /\ job'[p].acct = a /\ job'[p].st = Blank
        /\ job'[p].cf = conf /\ job'[p].tok = None
    BY Begun
  <2>2. op \in LoginPlaces => op \in {"login", "apikey"}
    BY DEF Starts, LoginPlaces
  <2> QED BY <2>1, <2>2, BlankOf DEF Known, Within, Around
<1>3. ASSUME NEW q \in Jobs \ {p}, Busy(q)' PROVE Known(q, O, S)'
  BY <1>3, Begun DEF Within, Known, Busy
<1> QED BY <1>1, <1>2, <1>3 DEF Within

(* Nothing but requests fails: all is of one owner.                         *)
OneBusy == \A p, q \in Jobs : Busy(p) /\ Busy(q) => p = q
OwnedBy(a) ==
  /\ Within(Of(a), AnyServer)
  /\ \A p \in Jobs : Busy(p) => Staged(p)
  /\ AllIdle => Settled(file, ring, opened)
OneOwner == \E a \in Accounts \cup {None} : OwnedBy(a)
Shaped == JobShape /\ TroubleShape /\ OneBusy

LEMMA BusyKept ==
  ASSUME Shaped, NEW p \in Jobs, Summary(p)
  PROVE  /\ Shaped' /\ \A q \in Jobs : Busy(q)' => q = p
         /\ AllIdle' <=> job'[p].at = "idle"
<1>1. \A q \in Jobs : Busy(q)' => q = p
  BY DEF Shaped, OneBusy, Summary, Others, Busy
<1>2. JobShape' /\ TroubleShape'
  BY DEF Summary, Strikes
<1> QED BY <1>1, <1>2 DEF Shaped, OneBusy, AllIdle, Busy

LEMMA BusyBegun ==
  ASSUME Shaped, AllIdle, NEW p \in Jobs, NEW op \in Starts, NEW a, Begin(p, op, a)
  PROVE  /\ Shaped' /\ \A q \in Jobs : Busy(q)' => q = p
         /\ ~AllIdle'
<1>0. JobShape /\ TroubleShape
  BY DEF Shaped
<1>1. \A q \in Jobs : Busy(q)' => q = p
  BY <1>0, Begun DEF AllIdle, Busy
<1>2. Busy(p)'
  BY <1>0, Begun DEF Busy, Starts
<1>3. JobShape' /\ TroubleShape'
  BY <1>0, Begun
<1> QED BY <1>1, <1>2, <1>3 DEF Shaped, OneBusy, AllIdle

LEMMA OwnerStep ==
  ASSUME Shaped, OneOwner, Harmless, NEW p \in Jobs, AccountStep(p)
  PROVE  OneOwner'
<1>1. PICK a \in Accounts \cup {None} : OwnedBy(a)
  BY DEF OneOwner
<1>2. Summary(p) /\ Busy(p) /\ JobShape /\ TroubleShape
  BY StepSummary DEF Summary, Shaped
<1>3. Within(Of(a), AnyServer)'
  BY <1>1, <1>2, ScopeOf, StepWithin DEF OwnedBy
<1>4. Onward(p)
  <2>1. Around(Of(a), AnyServer) /\ Known(p, Of(a), AnyServer) /\ Staged(p)
    BY <1>1, <1>2 DEF OwnedBy, Within
  <2> QED BY <1>2, <2>1, LoginOnward, SessionOnward, ServerOnward, RenewOnward DEF AccountStep
<1>5. /\ \A q \in Jobs : Busy(q)' => q = p
      /\ AllIdle' <=> job'[p].at = "idle"
  BY <1>2, BusyKept
<1>6. AllIdle' => Settled(file, ring, opened)'
  BY <1>4, <1>5 DEF Onward
<1>7. \A q \in Jobs : Busy(q)' => Staged(q)'
  BY <1>4, <1>5 DEF Onward, Busy
<1> QED BY <1>3, <1>6, <1>7 DEF OneOwner, OwnedBy

LEMMA BareOf ==
  ASSUME NEW O, NEW P, NEW S, Scope(O, S), ring \in Rings(P), Bare(ring)
  PROVE  ring \in Rings(O)
<1>1. /\ ring = [access |-> ring.access, refresh |-> ring.refresh, secrets |-> ring.secrets]
      /\ ring.access = [s \in Servers |-> ring.access[s]]
      /\ ring.refresh = [s \in Servers |-> ring.refresh[s]]
  BY DEF Rings
<1>2. ring.access \in [Servers -> O] /\ ring.refresh \in [Servers -> O]
      /\ ring.secrets \in SUBSET (O \cap Accounts)
  BY <1>1 DEF Bare, Scope
<1> QED BY <1>1, <1>2 DEF Rings

LEMMA OwnerBegin ==
  ASSUME Shaped, OneOwner, NEW p \in Jobs, NEW op \in Starts, NEW a \in Accounts,
         AloneBegin(p, op, a)
  PROVE  OneOwner'
<1>1. PICK b \in Accounts \cup {None} : OwnedBy(b)
  BY DEF OneOwner
<1>2. /\ AllIdle /\ Begin(p, op, a) /\ JobShape /\ TroubleShape
      /\ op \in {"login", "apikey"} => file = Blank
      /\ Settled(file, ring, opened) /\ Around(Of(b), AnyServer)
  BY <1>1 DEF AloneBegin, OwnedBy, Shaped, Within
<1>3. /\ UNCHANGED <<file, ring, opened>>
      /\ job'[p].at = op /\ job'[p].op = op /\ job'[p].acct = a
  BY <1>2, Begun
<1>4. (\A q \in Jobs : Busy(q)' => q = p) /\ ~AllIdle'
  BY <1>2, BusyBegun
<1>5. Staged(p)'
  <2>1. CASE op \in {"login", "apikey"}
    <3>1. file = Blank /\ opened = None
      BY <1>2, <2>1, BlankParts DEF Settled
    <3>2. Stage(op, job'[p].st, a, file', ring', opened')
      BY <1>2, <1>3, <2>1, <3>1, ToEntering
    <3> QED BY <1>3, <3>2 DEF Staged
  <2>2. CASE op \notin {"login", "apikey"}
    <3>1. Stage(op, job'[p].st, a, file', ring', opened')
      BY <1>2, <1>3, <2>2, ToPlain DEF Starts
    <3> QED BY <1>3, <3>1 DEF Staged
  <2> QED BY <2>1, <2>2
<1>6. PICK c \in Accounts \cup {None} :
        /\ Around(Of(c), AnyServer)
        /\ op \in {"login", "apikey"} => a \in Of(c)
  <2>1. CASE op \in {"login", "apikey"}
    <3>1. file = Blank /\ opened = None /\ Bare(ring)
      BY <1>2, <2>1, BlankParts DEF Settled
    <3>2. ring \in Rings(Of(a)) /\ conf \in Confs /\ Scope(Of(a), AnyServer)
      BY <1>2, <3>1, ScopeOf, BareOf DEF Around
    <3>3. Around(Of(a), AnyServer)
      BY <3>1, <3>2, BlankOf DEF Around
    <3> QED BY <3>3 DEF Of
  <2> QED BY <1>2, <2>1
<1>7. ServerOf[a] \in AnyServer
  BY StoreAssumption DEF AnyServer
<1>8. Within(Of(c), AnyServer)
  BY <1>2, <1>6 DEF Within, AllIdle
<1>9. Within(Of(c), AnyServer)'
  BY <1>2, <1>6, <1>7, <1>8, ScopeOf, BeginWithin
<1> QED BY <1>4, <1>5, <1>9 DEF OneOwner, OwnedBy

LEMMA OwnerIdle ==
  ASSUME OneOwner PROVE OneAccount
<1>1. SUFFICES ASSUME AllIdle PROVE Cardinality(Owners) <= 1
  BY DEF OneAccount
<1>2. PICK a \in Accounts \cup {None} : Around(Of(a), AnyServer)
  BY DEF OneOwner, OwnedBy, Within
<1>3. {file.user, file.key, file.items, file.client} \subseteq Of(a) \cup {ClientId} /\ opened \in Of(a)
  BY <1>2, PartsOf DEF Around
<1>4. Secrets(ring) \subseteq Of(a)
  BY <1>2 DEF Around, Rings, Secrets
<1>5. Owners \subseteq {a}
  BY <1>3, <1>4 DEF Owners, Of
<1>6. Owners = {} \/ Owners = {a}
  BY <1>5
<1>7. Cardinality({}) = 0 /\ Cardinality({a}) = 1
  BY FS_EmptySet, FS_Singleton
<1> QED BY <1>6, <1>7

LEMMA StoresGrow ==
  ASSUME NEW O, NEW S, NEW P, NEW T, O \subseteq P, S \subseteq T
  PROVE  Stores(O, S) \subseteq Stores(P, T)
  BY DEF Stores
LEMMA RingsGrow ==
  ASSUME NEW O, NEW P, O \subseteq P
  PROVE  Rings(O) \subseteq Rings(P)
  BY DEF Rings

LEMMA OwnerInit ==
  ASSUME NEW troubles \in SUBSET Troubles, AloneInit(troubles)
  PROVE  Shaped /\ OneOwner /\ (\A p \in Jobs : ~Busy(p))
<1>0. JobShape /\ TroubleShape /\ (\A p \in Jobs : ~Busy(p))
  BY InitShapes DEF AloneInit
<1>1. Shaped
  BY <1>0 DEF Shaped, OneBusy
<1>2. PICK a \in Accounts \cup {None} :
        Around(Of(a), AnyServer) /\ Settled(file, ring, opened)
  <2>1. CASE AccountInit({Blank}, {EmptyRing}, Confs, troubles)
    <3>1. file = Blank /\ ring = EmptyRing /\ opened = None /\ conf \in Confs
      BY <2>1 DEF AccountInit
    <3>2. Around(Of(None), AnyServer)
      BY <3>1, ScopeOf, BlankOf, EmptyOf DEF Around
    <3>3. Settled(file, ring, opened)
      BY <3>1, BareEmpty DEF Settled
    <3> QED BY <3>2, <3>3
  <2>2. ASSUME NEW a \in Accounts,
               AccountInit(LoggedInAs(a), Rings({a, None}),
                           {c \in Confs : c.server = ServerOf[a]}, troubles)
        PROVE  Around(Of(a), AnyServer) /\ Settled(file, ring, opened)
    <3>1. /\ file \in Stores({a, None}, {ServerOf[a]}) /\ file.key = a
          /\ ring \in Rings({a, None}) /\ opened = None /\ conf \in Confs
      BY <2>2 DEF AccountInit, LoggedInAs
    <3>2. {a, None} \subseteq Of(a) /\ {ServerOf[a]} \subseteq AnyServer /\ a # None
      BY StoreAssumption DEF Of, AnyServer
    <3>3. file \in Stores(Of(a), AnyServer) /\ ring \in Rings(Of(a))
      BY <3>1, <3>2, StoresGrow, RingsGrow
    <3> QED BY <3>1, <3>2, <3>3 DEF Around, Of, Settled
  <2> QED BY <2>1, <2>2 DEF AloneInit
<1>3. OwnedBy(a)
  BY <1>0, <1>2 DEF OwnedBy, Within
<1> QED BY <1>0, <1>1, <1>3 DEF OneOwner

-----------------------------------------------------------------------------
(* Under kills and failing requests: what is held is of the configured      *)
(* server, and a command that changes it has emptied everything before.     *)
Homes == {a \in Accounts : ServerOf[a] = conf.server} \cup {None}
HomeServer == {conf.server, None}
Moving(p) ==
  /\ job[p].cf.server = conf.server
  /\ job[p].at \in {"purge", "stop"} => file = Blank
  /\ job[p].at = "stop" => Bare(ring)
  /\ job[p].at = "save conf" =>
       NewServer(p) = conf.server \/ (file = Blank /\ Bare(ring) /\ opened = None)
OneServer == Within(Homes, HomeServer) /\ \A p \in Jobs : Busy(p) => Moving(p)
Whole == trouble.kinds \subseteq {"kill", "reply"}

LEMMA NoFileFault ==
  ASSUME Whole, NEW p PROVE ~Fault(p, "file") /\ ~Fault(p, "ring")
  BY DEF Whole, Fault

LEMMA HomesScope ==
  ASSUME conf \in Confs PROVE Scope(Homes, HomeServer)
  BY DEF Scope, Homes, HomeServer, Confs, Anybody

(* What a step makes of config.json and of the copy its process has.        *)
Configured(p) == conf'.server = conf.server /\ job'[p].cf.server = conf.server
LEMMA MigrateConf ==
  ASSUME JobShape, NEW p \in Jobs, job[p].cf.server = conf.server, NEW kind, NEW field, NEW from, NEW to,
         Migrate(p, kind, field, from, to)
  PROVE  Configured(p)
<1> DEFINE st == [job[p].st EXCEPT ![field] = None]
<1>1. /\ \/ Do(p, [at |-> to, res |-> "stored"])
         \/ Do(p, [at |-> to, res |-> "stored", st |-> st])
         \/ Do(p, [at |-> to])
      /\ conf' = conf
  BY DEF Migrate
<1> HIDE DEF st
<1> QED BY <1>1, Moves, MovesRes, MovesBoth DEF Configured
LEMMA CopiesConf ==
  ASSUME JobShape, NEW p \in Jobs, NEW place, NEW cf, Do(p, [at |-> place, cf |-> cf]),
         cf = conf, conf' = conf
  PROVE  Configured(p)
<1>1. job'[p].cf = cf
  BY MovesCf
<1>2. job'[p].cf.server = cf.server /\ conf'.server = cf.server
  BY <1>1
<1> QED BY <1>2 DEF Configured
LEMMA LoginConfigured ==
  ASSUME JobShape, Whole, NEW p \in Jobs, job[p].cf.server = conf.server,
         conf \in Confs, job[p].cf \in Confs, LoginStep(p)
  PROVE  Configured(p)
<1> USE DEF Moved, Configured
<1>1. CASE Granted(p)
  <2>1. conf' = conf
    BY <1>1 DEF Granted
  <2>2. \/ End(p, "error")
        \/ Do(p, [at |-> "load"])
    BY <1>1 DEF Granted
  <2>3. CASE End(p, "error")
    BY <2>1, <2>3, Ends
  <2>4. CASE Do(p, [at |-> "load"])
    BY <2>1, <2>4, Moves
  <2> QED BY <2>2, <2>3, <2>4
<1>2. CASE LoginLoad(p)
  <2>1. conf' = conf
    BY <1>2 DEF LoginLoad
  <2>2. job'[p].cf = job[p].cf
    BY <1>2, MovesSt DEF LoginLoad
  <2> QED BY <2>1, <2>2
<1>3. CASE StoreAccess(p)
  <2>1. conf' = conf
    BY <1>3 DEF StoreAccess
  <2>2. \/ End(p, "error")
        \/ \E next \in {"store refresh", "store secret", "first sync"} : Do(p, [at |-> next])
    BY <1>3 DEF StoreAccess
  <2>3. CASE End(p, "error")
    BY <2>1, <2>3, Ends
  <2>4. CASE \E next \in {"store refresh", "store secret", "first sync"} : Do(p, [at |-> next])
    BY <2>1, <2>4, Moves
  <2> QED BY <2>2, <2>3, <2>4
<1>4. CASE StoreRefresh(p)
  <2>1. conf' = conf
    BY <1>4 DEF StoreRefresh
  <2>2. job'[p].cf = job[p].cf
    BY <1>4, Moves DEF StoreRefresh
  <2> QED BY <2>1, <2>2
<1>5. CASE StoreSecret(p)
  <2>1. conf' = conf
    BY <1>5 DEF StoreSecret
  <2>2. job'[p].cf = job[p].cf
    BY <1>5, Moves DEF StoreSecret
  <2> QED BY <2>1, <2>2
<1>6. CASE UndoAccess(p)
  <2>1. conf' = conf
    BY <1>6 DEF UndoAccess
  <2>2. job'[p].cf = job[p].cf
    BY <1>6, Ends DEF UndoAccess
  <2> QED BY <2>1, <2>2
<1>7. CASE UndoBoth(p)
  <2>1. conf' = conf
    BY <1>7 DEF UndoBoth
  <2>2. job'[p].cf = job[p].cf
    BY <1>7, Ends DEF UndoBoth
  <2> QED BY <2>1, <2>2
<1>8. CASE FirstSync(p)
  <2>1. conf' = conf
    BY <1>8 DEF FirstSync
  <2>2. job'[p].cf = job[p].cf
    BY <1>8, MovesSt DEF FirstSync
  <2> QED BY <2>1, <2>2
<1>9. CASE LoginSave(p)
  <2>1. conf' = conf
    BY <1>9 DEF LoginSave
  <2>2. job'[p].cf = job[p].cf
    BY <1>9, Moves DEF LoginSave
  <2> QED BY <2>1, <2>2
<1>10. CASE LoadEmail(p)
  <2> HIDE DEF Configured, Moved
  <2>1. PICK cf : cf = conf /\ Do(p, [at |-> "save email", cf |-> cf]) /\ conf' = conf
    BY <1>10, NoFileFault DEF LoadEmail, LoadedConf
  <2> QED BY <2>1, CopiesConf
<1>11. CASE SaveEmail(p)
  <2>1. conf'.server = conf.server
    BY <1>11 DEF SaveEmail, AtomicWrite, Confs
  <2>2. End(p, "ok") \/ Do(p, [at |-> "open"])
    BY <1>11 DEF SaveEmail
  <2> QED BY <2>1, <2>2, Moves, Ends
<1>12. CASE OpenDaemon(p)
  <2>1. conf' = conf
    BY <1>12 DEF OpenDaemon
  <2>2. job'[p].cf = job[p].cf
    BY <1>12, Moves, Ends DEF OpenDaemon
  <2> QED BY <2>1, <2>2
<1>13. CASE RememberLoads(p)
  <2> HIDE DEF Configured, Moved
  <2>1. PICK cf : cf = conf /\ Do(p, [at |-> "save remember", cf |-> cf]) /\ conf' = conf
    BY <1>13, NoFileFault DEF RememberLoads, LoadedConf
  <2> QED BY <2>1, CopiesConf
<1>14. CASE RememberSaves(p)
  <2>1. conf'.server = conf.server
    BY <1>14 DEF RememberSaves, AtomicWrite, Confs
  <2>2. End(p, "ok")
    BY <1>14 DEF RememberSaves
  <2> QED BY <2>1, <2>2, Ends
<1> QED BY <1>1, <1>2, <1>3, <1>4, <1>5, <1>6, <1>7, <1>8, <1>9, <1>10, <1>11, <1>12, <1>13, <1>14 DEF LoginStep
LEMMA SessionConfigured ==
  ASSUME JobShape, Whole, NEW p \in Jobs, job[p].cf.server = conf.server,
         conf \in Confs, job[p].cf \in Confs, SessionStep(p)
  PROVE  Configured(p)
<1> USE DEF Moved, Configured
<1>1. CASE UnlockLoads(p)
  <2>1. conf' = conf
    BY <1>1 DEF UnlockLoads
  <2>2. \/ End(p, "error")
        \/ \E st : Do(p, [at |-> "find token", st |-> st])
    BY <1>1 DEF UnlockLoads
  <2>3. CASE End(p, "error")
    BY <2>1, <2>3, Ends
  <2>4. CASE \E st : Do(p, [at |-> "find token", st |-> st])
    BY <2>1, <2>4, MovesSt
  <2> QED BY <2>2, <2>3, <2>4
<1>2. CASE FindToken(p)
  <2>1. conf' = conf
    BY <1>2 DEF FindToken
  <2>2. job'[p].cf = job[p].cf
    BY <1>2, MovesTok DEF FindToken
  <2> QED BY <2>1, <2>2
<1>3. CASE RestoreToken(p)
  <2>1. conf' = conf
    BY <1>3 DEF RestoreToken
  <2>2. job'[p].cf = job[p].cf
    BY <1>3, Moves DEF RestoreToken
  <2> QED BY <2>1, <2>2
<1>4. CASE LockDaemon(p)
  <2>1. conf' = conf
    BY <1>4 DEF LockDaemon
  <2>2. job'[p].cf = job[p].cf
    BY <1>4, Moves DEF LockDaemon
  <2> QED BY <2>1, <2>2
<1>5. CASE ClearSession(p)
  <2>1. conf' = conf
    BY <1>5 DEF ClearSession
  <2>2. job'[p].cf = job[p].cf
    BY <1>5, Moves DEF ClearSession
  <2> QED BY <2>1, <2>2
<1>6. CASE CloseDaemon(p)
  <2>1. conf' = conf
    BY <1>6 DEF CloseDaemon
  <2>2. job'[p].cf = job[p].cf
    BY <1>6, Ends DEF CloseDaemon
  <2> QED BY <2>1, <2>2
<1>7. CASE ClearAll(p)
  <2>1. conf' = conf
    BY <1>7 DEF ClearAll
  <2>2. job'[p].cf = job[p].cf
    BY <1>7, Moves DEF ClearAll
  <2> QED BY <2>1, <2>2
<1>8. CASE Erase(p)
  <2>1. conf' = conf
    BY <1>8 DEF Erase
  <2>2. job'[p].cf = job[p].cf
    BY <1>8, Moves DEF Erase
  <2> QED BY <2>1, <2>2
<1>9. CASE StatusLoads(p)
  <2>1. conf' = conf
    BY <1>9 DEF StatusLoads
  <2>2. job'[p].cf = job[p].cf
    BY <1>9, MovesSt DEF StatusLoads
  <2> QED BY <2>1, <2>2
<1>10. CASE MigrateAccess(p)
  BY <1>10, MigrateConf DEF MigrateAccess
<1>11. CASE MigrateRefresh(p)
  BY <1>11, MigrateConf DEF MigrateRefresh
<1>12. CASE Scrub(p)
  <2>1. conf' = conf
    BY <1>12 DEF Scrub
  <2>2. job'[p].cf = job[p].cf
    BY <1>12, Moves DEF Scrub
  <2> QED BY <2>1, <2>2
<1>13. CASE Judge(p)
  <2>1. conf' = conf
    BY <1>13 DEF Judge
  <2>2. \/ End(p, "told")
        \/ Do(p, [at |-> "give up"])
    BY <1>13 DEF Judge
  <2>3. CASE End(p, "told")
    BY <2>1, <2>3, Ends
  <2>4. CASE Do(p, [at |-> "give up"])
    BY <2>1, <2>4, Moves
  <2> QED BY <2>2, <2>3, <2>4
<1>14. CASE GiveUp(p)
  <2>1. conf' = conf
    BY <1>14 DEF GiveUp
  <2>2. job'[p].cf = job[p].cf
    BY <1>14, Moves DEF GiveUp
  <2> QED BY <2>1, <2>2
<1> QED BY <1>1, <1>2, <1>3, <1>4, <1>5, <1>6, <1>7, <1>8, <1>9, <1>10, <1>11, <1>12, <1>13, <1>14 DEF SessionStep
LEMMA ServerConfigured ==
  ASSUME JobShape, Whole, NEW p \in Jobs, job[p].cf.server = conf.server,
         conf \in Confs, job[p].cf \in Confs, ServerStep(p), ~SaveConf(p)
  PROVE  Configured(p)
<1> USE DEF Moved, Configured
<1>1. CASE RemoveFile(p)
  <2>1. conf' = conf
    BY <1>1 DEF RemoveFile
  <2>2. job'[p].cf = job[p].cf
    BY <1>1, Moves DEF RemoveFile
  <2> QED BY <2>1, <2>2
<1>2. CASE PurgeRing(p)
  <2>1. conf' = conf
    BY <1>2 DEF PurgeRing
  <2>2. job'[p].cf = job[p].cf
    BY <1>2, Moves DEF PurgeRing
  <2> QED BY <2>1, <2>2
<1>3. CASE StopDaemon(p)
  <2>1. conf' = conf
    BY <1>3 DEF StopDaemon
  <2>2. job'[p].cf = job[p].cf
    BY <1>3, Moves DEF StopDaemon
  <2> QED BY <2>1, <2>2
<1> QED BY <1>1, <1>2, <1>3 DEF ServerStep
LEMMA RenewConfigured ==
  ASSUME JobShape, Whole, NEW p \in Jobs, job[p].cf.server = conf.server,
         conf \in Confs, job[p].cf \in Confs, RenewStep(p)
  PROVE  Configured(p)
<1> USE DEF Moved, Configured
<1>1. CASE RenewLoads(p)
  <2>1. conf' = conf
    BY <1>1 DEF RenewLoads
  <2>2. job'[p].cf = job[p].cf
    BY <1>1, MovesSt DEF RenewLoads
  <2> QED BY <2>1, <2>2
<1>2. CASE AskRefresh(p)
  <2>1. conf' = conf
    BY <1>2 DEF AskRefresh
  <2>2. job'[p].cf = job[p].cf
    BY <1>2, Moves, MovesTok DEF AskRefresh
  <2> QED BY <2>1, <2>2
<1>3. CASE AskSecret(p)
  <2>1. conf' = conf
    BY <1>3 DEF AskSecret
  <2>2. \/ \E t : Do(p, [at |-> "keep access", tok |-> t])
        \/ Do(p, [at |-> "drop tokens"])
        \/ End(p, "error")
    BY <1>3 DEF AskSecret
  <2>3. CASE \E t : Do(p, [at |-> "keep access", tok |-> t])
    BY <2>1, <2>3, MovesTok
  <2>4. CASE Do(p, [at |-> "drop tokens"])
    BY <2>1, <2>4, Moves
  <2>5. CASE End(p, "error")
    BY <2>1, <2>5, Ends
  <2> QED BY <2>2, <2>3, <2>4, <2>5
<1>4. CASE KeepAccess(p)
  <2>1. conf' = conf
    BY <1>4 DEF KeepAccess
  <2>2. job'[p].cf = job[p].cf
    BY <1>4, MovesSt DEF KeepAccess
  <2> QED BY <2>1, <2>2
<1>5. CASE KeepRefresh(p)
  <2>1. conf' = conf
    BY <1>5 DEF KeepRefresh
  <2>2. job'[p].cf = job[p].cf
    BY <1>5, Moves DEF KeepRefresh
  <2> QED BY <2>1, <2>2
<1>6. CASE KeepFile(p)
  <2>1. conf' = conf
    BY <1>6 DEF KeepFile
  <2>2. job'[p].cf = job[p].cf
    BY <1>6, Ends DEF KeepFile
  <2> QED BY <2>1, <2>2
<1>7. CASE DropTokens(p)
  <2>1. conf' = conf
    BY <1>7 DEF DropTokens
  <2>2. job'[p].cf = job[p].cf
    BY <1>7, MovesSt DEF DropTokens
  <2> QED BY <2>1, <2>2
<1>8. CASE DropFile(p)
  <2>1. conf' = conf
    BY <1>8 DEF DropFile
  <2>2. job'[p].cf = job[p].cf
    BY <1>8, Ends DEF DropFile
  <2> QED BY <2>1, <2>2
<1> QED BY <1>1, <1>2, <1>3, <1>4, <1>5, <1>6, <1>7, <1>8 DEF RenewStep

LEMMA ServerMoving ==
  ASSUME JobShape, TroubleShape, Whole, NEW p \in Jobs, conf \in Confs, job[p].cf \in Confs,
         Moving(p), ServerStep(p), ~SaveConf(p)
  PROVE  Moving(p)'
<1>1. Configured(p)
  BY ServerConfigured DEF Moving
<1>2. CASE RemoveFile(p)
  <2>1. /\ \/ Do(p, [at |-> "save conf"]) /\ NewServer(p) = conf.server
           \/ Do(p, [at |-> "purge"]) /\ file' = Blank
    BY <1>2, NoFileFault DEF RemoveFile, Moving
  <2>2. CASE Do(p, [at |-> "save conf"]) /\ NewServer(p) = conf.server
    <3>1. job'[p].at = "save conf" /\ job'[p].acct = job[p].acct
      BY <2>2, Moves DEF Moved
    <3> QED BY <1>1, <2>2, <3>1 DEF Moving, NewServer, Configured
  <2>3. CASE Do(p, [at |-> "purge"]) /\ file' = Blank
    <3>1. job'[p].at = "purge"
      BY <2>3, Moves DEF Moved
    <3> QED BY <1>1, <2>3, <3>1 DEF Moving, Configured
  <2> QED BY <2>1, <2>2, <2>3
<1>3. CASE PurgeRing(p)
  <2>1. /\ At(p, "purge") /\ UNCHANGED file /\ ring' = EmptyRing /\ Do(p, [at |-> "stop"])
    BY <1>3, NoFileFault DEF PurgeRing
  <2>2. job'[p].at = "stop" /\ file' = Blank /\ Bare(ring')
    BY <2>1, Moves, BareEmpty DEF Moved, Moving, At
  <2> QED BY <1>1, <2>2 DEF Moving, Configured
<1>4. CASE StopDaemon(p)
  <2>1. /\ At(p, "stop") /\ UNCHANGED <<file, ring>> /\ opened' = None
        /\ Do(p, [at |-> "save conf"])
    BY <1>4 DEF StopDaemon
  <2>2. job'[p].at = "save conf" /\ file' = Blank /\ Bare(ring') /\ opened' = None
    BY <2>1, Moves DEF Moved, Moving, At
  <2> QED BY <1>1, <2>2 DEF Moving, Configured
<1> QED BY <1>2, <1>3, <1>4 DEF ServerStep

LEMMA ServerStays ==
  ASSUME Shaped, Whole, OneServer, NEW p \in Jobs, AccountStep(p), ~SaveConf(p)
  PROVE  OneServer'
<1>0. Summary(p) /\ Busy(p) /\ JobShape /\ TroubleShape
  BY StepSummary DEF Summary, Shaped
<1>1. PICK O, S : O = Homes /\ S = HomeServer
  OBVIOUS
<1>2. Within(O, S) /\ Scope(O, S) /\ conf \in Confs /\ job[p].cf \in Confs /\ Moving(p)
  BY <1>0, <1>1, HomesScope DEF OneServer, Within, Around, Known
<1>3. Within(O, S)'
  BY <1>0, <1>2, StepWithin
<1>4. Configured(p)
  BY <1>0, <1>2, LoginConfigured, SessionConfigured, ServerConfigured, RenewConfigured
  DEF AccountStep, Moving
<1>5. O = Homes' /\ S = HomeServer'
  BY <1>1, <1>4 DEF Configured, Homes, HomeServer
<1>6. Within(Homes, HomeServer)'
  BY <1>3, <1>5
<1>7. Moving(p)'
  <2>1. CASE ServerStep(p)
    BY <1>0, <1>2, <2>1, ServerMoving
  <2>2. CASE ~ServerStep(p)
    <3>1. job'[p].at \notin MovingPlaces
      BY <1>0, <2>2, Routed
    <3> QED BY <1>4, <3>1 DEF Moving, MovingPlaces, Configured
  <2> QED BY <2>1, <2>2
<1>8. \A q \in Jobs : Busy(q)' => q = p
  BY <1>0, BusyKept
<1> QED BY <1>6, <1>7, <1>8 DEF OneServer

LEMMA ServerChanges ==
  ASSUME Shaped, Whole, OneServer, NEW p \in Jobs, SaveConf(p)
  PROVE  OneServer'
<1>0. Summary(p) /\ Busy(p) /\ JobShape /\ TroubleShape /\ AccountStep(p)
  BY StepSummary DEF Summary, Shaped, AccountStep, ServerStep
<1>1. PICK O, S : O = Homes /\ S = HomeServer
  OBVIOUS
<1>2. Within(O, S) /\ Scope(O, S) /\ conf \in Confs /\ job[p].cf \in Confs /\ Moving(p)
  BY <1>0, <1>1, HomesScope DEF OneServer, Within, Around, Known
<1>3. Within(O, S)'
  BY <1>0, <1>2, StepWithin
<1>4. /\ At(p, "save conf") /\ UNCHANGED <<file, ring, opened>> /\ (\E res : End(p, res))
      /\ conf' = [job[p].cf EXCEPT !.server = NewServer(p)]
  BY <1>2, NoFileFault DEF SaveConf, AtomicWrite
<1>5. conf'.server = NewServer(p)
  BY <1>2, <1>4 DEF Confs
<1>6. \A q \in Jobs : ~Busy(q)'
  <2>1. ~Busy(p)'
    BY <1>0, <1>4, Ends DEF Moved, Busy
  <2> QED BY <1>0, <2>1, BusyKept
<1>7. Around(Homes, HomeServer)'
  <2>1. CASE NewServer(p) = conf.server
    <3>1. O = Homes' /\ S = HomeServer'
      BY <1>1, <1>5, <2>1 DEF Homes, HomeServer
    <3> QED BY <1>3, <3>1 DEF Within
  <2>2. CASE file = Blank /\ Bare(ring) /\ opened = None
    <3> DEFINE P == Homes'
               T == HomeServer'
    <3>1. conf' \in Confs /\ ring \in Rings(O)
      BY <1>2, <1>3 DEF Within, Around
    <3>2. Scope(P, T)
      BY <3>1 DEF Scope, Homes, HomeServer, Confs, Anybody
    <3> HIDE DEF P, T
    <3>3. Blank \in Stores(P, T) /\ None \in P /\ ring \in Rings(P)
      BY <2>2, <3>1, <3>2, BlankOf, BareOf
    <3>4. file' \in Stores(P, T) /\ ring' \in Rings(P) /\ opened' \in P
      BY <1>4, <2>2, <3>3
    <3> QED BY <3>1, <3>4 DEF Around, P, T
  <2> QED BY <1>2, <1>4, <2>1, <2>2 DEF Moving, At
<1> QED BY <1>6, <1>7 DEF OneServer, Within

LEMMA ServerBegin ==
  ASSUME Shaped, OneServer, NEW p \in Jobs, NEW op \in Starts, NEW a \in Accounts,
         AloneBegin(p, op, a)
  PROVE  OneServer'
<1>0. Begin(p, op, a) /\ AllIdle /\ JobShape /\ TroubleShape
  BY DEF AloneBegin, Shaped
<1>1. PICK O, S : O = Homes /\ S = HomeServer
  OBVIOUS
<1>2. Around(O, S) /\ Scope(O, S)
  BY <1>1, HomesScope DEF OneServer, Within, Around
<1>3. op \in {"login", "apikey"} => a \in O /\ ServerOf[a] \in S
  BY <1>0, <1>1, Begun DEF Homes, HomeServer
<1>4. Within(O, S)'
  <2>1. Within(O, S)
    BY <1>0, <1>2 DEF Within, AllIdle
  <2> QED BY <1>0, <1>2, <1>3, <2>1, BeginWithin
<1>5. UNCHANGED conf /\ job'[p].cf = conf /\ job'[p].at = op
  BY <1>0, Begun
<1>6. O = Homes' /\ S = HomeServer'
  BY <1>1, <1>5 DEF Homes, HomeServer
<1>7. Within(Homes, HomeServer)'
  BY <1>4, <1>6
<1>8. Moving(p)'
  BY <1>5 DEF Moving, Starts
<1>9. \A q \in Jobs : Busy(q)' => q = p
  BY <1>0, BusyBegun
<1> QED BY <1>7, <1>8, <1>9 DEF OneServer

LEMMA ServerKill ==
  ASSUME Shaped, OneServer, NEW p \in Jobs, Kill(p)
  PROVE  OneServer'
<1>0. Summary(p) /\ job'[p].at = "idle" /\ JobShape /\ TroubleShape /\ UNCHANGED conf
  BY KillSummary DEF Kill, Shaped
<1>1. PICK O, S : O = Homes /\ S = HomeServer
  OBVIOUS
<1>2. Within(O, S) /\ Scope(O, S)
  BY <1>1, HomesScope DEF OneServer, Within, Around
<1>3. Within(O, S)'
  BY <1>0, <1>2, KillWithin
<1>4. O = Homes' /\ S = HomeServer'
  BY <1>0, <1>1 DEF Homes, HomeServer
<1>5. Within(Homes, HomeServer)'
  BY <1>3, <1>4
<1>6. \A q \in Jobs : ~Busy(q)'
  BY <1>0, BusyKept DEF Busy
<1> QED BY <1>5, <1>6 DEF OneServer

LEMMA ServerInit ==
  ASSUME NEW troubles \in SUBSET Troubles, AloneInit(troubles)
  PROVE  OneServer
<1>0. \A p \in Jobs : ~Busy(p)
  BY OwnerInit
<1>1. Around(Homes, HomeServer)
  <2>1. CASE AccountInit({Blank}, {EmptyRing}, Confs, troubles)
    <3>1. file = Blank /\ ring = EmptyRing /\ opened = None /\ conf \in Confs
      BY <2>1 DEF AccountInit
    <3>2. Scope(Homes, HomeServer)
      BY <3>1, HomesScope
    <3> QED BY <3>1, <3>2, BlankOf, EmptyOf DEF Around
  <2>2. ASSUME NEW a \in Accounts,
               AccountInit(LoggedInAs(a), Rings({a, None}),
                           {c \in Confs : c.server = ServerOf[a]}, troubles)
        PROVE  Around(Homes, HomeServer)
    <3>1. /\ file \in Stores({a, None}, {ServerOf[a]}) /\ ring \in Rings({a, None})
          /\ opened = None /\ conf \in Confs /\ conf.server = ServerOf[a]
      BY <2>2 DEF AccountInit, LoggedInAs
    <3>2. {a, None} \subseteq Homes /\ {ServerOf[a]} \subseteq HomeServer
      BY <3>1 DEF Homes, HomeServer
    <3>3. file \in Stores(Homes, HomeServer) /\ ring \in Rings(Homes)
      BY <3>1, <3>2, StoresGrow, RingsGrow
    <3> QED BY <3>1, <3>3 DEF Around, Homes
  <2> QED BY <2>1, <2>2 DEF AloneInit
<1> QED BY <1>0, <1>1 DEF OneServer, Within

LEMMA ServerIdle ==
  ASSUME OneServer PROVE CleanServer
<1>1. Around(Homes, HomeServer)
  BY DEF OneServer, Within
<1>2. /\ {file.user, file.key, file.items, file.client} \subseteq Homes \cup {ClientId} /\ opened \in Homes
      /\ file.server \in HomeServer
  BY <1>1, PartsOf DEF Around
<1>3. Secrets(ring) \subseteq Homes
  BY <1>1 DEF Around, Rings, Secrets, Homes
<1>4. \A a \in Owners : ServerOf[a] = conf.server
  BY <1>2, <1>3 DEF Owners, Homes
<1> QED BY <1>2, <1>4 DEF CleanServer, HomeServer

(* Each of the two is kept by every command, one at a time.                 *)
LEMMA AloneShaped ==
  ASSUME Shaped, NEW p \in Jobs,
         \/ AccountStep(p) \/ Kill(p)
         \/ \E op \in Starts, a \in Accounts : AloneBegin(p, op, a)
  PROVE  Shaped' /\ trouble'.kinds = trouble.kinds
<1>1. ASSUME Summary(p) PROVE Shaped' /\ trouble'.kinds = trouble.kinds
  BY <1>1, BusyKept DEF Summary, Strikes
<1>2. ASSUME NEW op \in Starts, NEW a \in Accounts, AloneBegin(p, op, a)
      PROVE  Shaped' /\ trouble'.kinds = trouble.kinds
  BY <1>2, BusyBegun, Begun DEF AloneBegin, Shaped
<1> QED BY <1>1, <1>2, StepSummary, KillSummary DEF Shaped

LEMMA StillShaped ==
  ASSUME Shaped, UNCHANGED accountVars
  PROVE  Shaped' /\ (OneOwner => OneOwner') /\ (OneServer => OneServer')
<1> USE DEF accountVars
<1>1. Shaped'
  BY DEF Shaped, JobShape, TroubleShape, OneBusy, Busy
<1>2. \A O, S : Within(O, S) => Within(O, S)'
  BY DEF Within, Around, Known, Busy
<1>3. OneOwner => OneOwner'
  <2>1. \A p \in Jobs : Staged(p) => Staged(p)'
    BY DEF Staged
  <2>2. AllIdle' <=> AllIdle
    BY DEF AllIdle, Busy
  <2> QED BY <1>2, <2>1, <2>2 DEF OneOwner, OwnedBy, Busy
<1>4. OneServer => OneServer'
  <2>1. \A p \in Jobs : Moving(p) => Moving(p)'
    BY DEF Moving, NewServer
  <2>2. PICK O, S : O = Homes /\ S = HomeServer
    OBVIOUS
  <2>3. O = Homes' /\ S = HomeServer'
    BY <2>2 DEF Homes, HomeServer
  <2> QED BY <1>2, <2>1, <2>2, <2>3 DEF OneServer, Busy
<1> QED BY <1>1, <1>3, <1>4

LEMMA OwnerNext ==
  ASSUME Shaped, OneOwner, trouble.kinds = {"reply"}, [AloneNext]_accountVars
  PROVE  Shaped' /\ OneOwner' /\ trouble'.kinds = {"reply"}
<1>1. ASSUME NEW p \in Jobs, AccountStep(p) PROVE OneOwner'
  BY <1>1, OwnerStep DEF Harmless
<1>2. ASSUME NEW p \in Jobs PROVE ~Kill(p)
  BY DEF Kill, Fault
<1>3. ASSUME NEW p \in Jobs, NEW op \in Starts, NEW a \in Accounts, AloneBegin(p, op, a)
      PROVE  OneOwner'
  BY <1>3, OwnerBegin
<1>4. CASE UNCHANGED accountVars
  BY <1>4, StillShaped DEF accountVars
<1>5. CASE AloneNext
  BY <1>1, <1>2, <1>3, <1>5, AloneShaped DEF AloneNext
<1> QED BY <1>4, <1>5

LEMMA ServerNext ==
  ASSUME Shaped, OneServer, Whole, [AloneNext]_accountVars
  PROVE  Shaped' /\ OneServer' /\ Whole'
<1>1. ASSUME NEW p \in Jobs, AccountStep(p) PROVE OneServer'
  BY <1>1, ServerStays, ServerChanges
<1>2. ASSUME NEW p \in Jobs, Kill(p) PROVE OneServer'
  BY <1>2, ServerKill
<1>3. ASSUME NEW p \in Jobs, NEW op \in Starts, NEW a \in Accounts, AloneBegin(p, op, a)
      PROVE  OneServer'
  BY <1>3, ServerBegin
<1>4. CASE UNCHANGED accountVars
  BY <1>4, StillShaped DEF accountVars, Whole
<1>5. CASE AloneNext
  BY <1>1, <1>2, <1>3, <1>5, AloneShaped DEF AloneNext, Whole
<1> QED BY <1>4, <1>5

-----------------------------------------------------------------------------
(* A login that one operation has failed in: until then all was of one      *)
(* owner, so that what it clears is all it has left.                        *)
Undoing(p) ==
  LET a == job[p].acct
      s == ServerOf[a]
  IN /\ job[p].at = "undo access" =>
          /\ \A x \in Servers : ring.refresh[x] # a /\ (x # s => ring.access[x] # a)
          /\ a \notin ring.secrets
     /\ job[p].at = "undo both" =>
          /\ \A x \in Servers : x # s => ring.refresh[x] # a /\ ring.access[x] # a
          /\ a \notin ring.secrets
LogsIn(p) == job[p].op \in {"login", "apikey"} => job[p].at \in LoginRoute
LoginInv ==
  /\ Shaped /\ Unended /\ Within(Anybody, AnyServer)
  /\ trouble.left <= 1 /\ (trouble.left = 1 => OneOwner)
  /\ \A p \in Jobs : Busy(p) => LogsIn(p) /\ Undoing(p)

FailedStep(p) ==
  (job[p].op \in {"login", "apikey"} /\ Busy(p) /\ job'[p].res = "error") =>
    job[p].acct \notin Secrets(ring')

LEMMA FaultCounts ==
  ASSUME TroubleShape, NEW p, NEW kind, Fault(p, kind)
  PROVE  trouble.left > 0 /\ trouble'.left = trouble.left - 1
<1>1. trouble' = [left |-> trouble.left - 1, kinds |-> trouble.kinds,
                  struck |-> trouble.struck \cup {p}]
  BY DEF TroubleShape, Fault
<1> QED BY <1>1 DEF Fault

LEMMA AnyScope == Scope(Anybody, AnyServer)
  BY DEF Scope, Anybody, AnyServer

(* What is staged when the fault comes.                                     *)
LEMMA StagedAtFault ==
  ASSUME LoginInv, NEW p \in Jobs, Busy(p), NEW kind, Fault(p, kind)
  PROVE  Staged(p)
<1>1. trouble.left = 1
  BY FaultCounts DEF LoginInv, Shaped, TroubleShape
<1> QED BY <1>1 DEF LoginInv, OneOwner, OwnedBy

LEMMA UndoBegins ==
  ASSUME LoginInv, NEW p \in Jobs, Busy(p), AccountStep(p), job[p].acct \in Accounts
  PROVE  Undoing(p)'
<1> DEFINE A == job[p].acct
<1>0. JobShape /\ Summary(p) /\ A # None
  BY StepSummary, StoreAssumption DEF LoginInv, Shaped
<1>1. CASE job'[p].at = "undo access"
  <2>1. StoreRefresh(p)
    BY <1>0, <1>1, Routed
  <2>2. UNCHANGED ring /\ At(p, "store refresh") /\ Fault(p, "ring")
    <3>1. ASSUME NEW next \in {"store secret", "first sync"}, Do(p, [at |-> next]) PROVE FALSE
      BY <1>0, <1>1, <3>1, Moves DEF Moved
    <3> QED BY <2>1, <3>1 DEF StoreRefresh
  <2>3. OnlyAccess(ring, ServerOf[A])
    BY <2>2, StagedAtFault, FromEntering DEF Entering, Storing, At
  <2>4. job'[p].acct = A
    BY <1>0 DEF Summary
  <2> QED BY <1>0, <1>1, <2>2, <2>3, <2>4 DEF Undoing, OnlyAccess
<1>2. CASE job'[p].at = "undo both"
  <2>1. StoreSecret(p)
    BY <1>0, <1>2, Routed
  <2>2. UNCHANGED ring /\ At(p, "store secret") /\ Fault(p, "ring")
    <3>1. ASSUME NEW next \in {"first sync"}, Do(p, [at |-> next]) PROVE FALSE
      BY <1>0, <1>2, <3>1, Moves DEF Moved
    <3> QED BY <2>1, <3>1 DEF StoreSecret
  <2>3. OnlyTokens(ring, ServerOf[A])
    BY <2>2, StagedAtFault, FromEntering DEF Entering, Storing, At
  <2>4. job'[p].acct = A
    BY <1>0 DEF Summary
  <2> QED BY <1>0, <1>2, <2>2, <2>3, <2>4 DEF Undoing, OnlyTokens
<1> QED BY <1>1, <1>2 DEF Undoing

LEMMA BareSecrets ==
  ASSUME Bare(ring), NEW a, a # None PROVE a \notin Secrets(ring)
  BY DEF Bare, Secrets

LEMMA TurnedBack ==
  ASSUME LoginInv, NEW p \in Jobs, Busy(p), LoginStep(p), job'[p].res = "error",
         job[p].acct \in Accounts
  PROVE  job[p].acct \notin Secrets(ring')
<1> DEFINE A == job[p].acct
<1>0. /\ JobShape /\ job[p].res # "error" /\ A # None /\ ring \in Rings(Anybody)
      /\ Undoing(p)
  BY StoreAssumption DEF LoginInv, Shaped, Unended, Within, Around
<1> HIDE DEF A
<1> USE DEF Moved
<1>1. CASE Granted(p)
  <2>1. Fault(p, "reply") /\ UNCHANGED ring /\ job[p].at \in {"login", "apikey"}
    BY <1>0, <1>1, Moves DEF Granted, At
  <2>2. Bare(ring)
    BY <2>1, StagedAtFault, FromEntering DEF Entering
  <2> QED BY <1>0, <2>1, <2>2, BareSecrets DEF A
<1>3. CASE StoreAccess(p)
  <2>1. Fault(p, "ring") /\ UNCHANGED ring /\ job[p].at = "store access"
    <3>1. ASSUME NEW next, Do(p, [at |-> next]) PROVE FALSE
      BY <1>0, <3>1, Moves
    <3> QED BY <1>3, <3>1 DEF StoreAccess, At
  <2>2. Bare(ring)
    BY <2>1, StagedAtFault, FromEntering DEF Entering
  <2> QED BY <1>0, <2>1, <2>2, BareSecrets DEF A
<1>4. CASE UndoAccess(p)
  <2>1. /\ \A x \in Servers : ring.refresh[x] # A /\ (x # ServerOf[A] => ring.access[x] # A)
        /\ A \notin ring.secrets
    BY <1>0, <1>4 DEF UndoAccess, At, Undoing, A
  <2>2. Store("access", ServerOf[A], None)
    BY <1>4 DEF UndoAccess, A
  <2> QED BY <1>0, <2>1, <2>2 DEF Store, Secrets, Rings, A
<1>5. CASE UndoBoth(p)
  <2>1. /\ \A x \in Servers : x # ServerOf[A] => ring.refresh[x] # A /\ ring.access[x] # A
        /\ A \notin ring.secrets
    BY <1>0, <1>5 DEF UndoBoth, At, Undoing, A
  <2>2. ClearBoth(ServerOf[A])
    BY <1>5 DEF UndoBoth, A
  <2> QED BY <1>0, <2>1, <2>2 DEF ClearBoth, Secrets, Rings, A
<1>6. job'[p].res \in {job[p].res, "ok"} \/ Granted(p) \/ StoreAccess(p) \/ UndoAccess(p) \/ UndoBoth(p)
  <2>2. CASE LoginLoad(p)
    BY <1>0, <2>2, MovesSt DEF LoginLoad
  <2>4. CASE StoreRefresh(p)
    BY <1>0, <2>4, Moves DEF StoreRefresh
  <2>5. CASE StoreSecret(p)
    BY <1>0, <2>5, Moves DEF StoreSecret
  <2>8. CASE FirstSync(p)
    BY <1>0, <2>8, MovesSt DEF FirstSync
  <2>9. CASE LoginSave(p)
    BY <1>0, <2>9, Moves DEF LoginSave
  <2>10. CASE LoadEmail(p)
    BY <1>0, <2>10, MovesCf DEF LoadEmail
  <2>11. CASE SaveEmail(p)
    BY <1>0, <2>11, Moves, Ends DEF SaveEmail
  <2>12. CASE OpenDaemon(p)
    BY <1>0, <2>12, Moves, Ends DEF OpenDaemon
  <2>13. CASE RememberLoads(p)
    BY <1>0, <2>13, MovesCf DEF RememberLoads
  <2>14. CASE RememberSaves(p)
    BY <1>0, <2>14, Ends DEF RememberSaves
  <2> QED BY <2>2, <2>4, <2>5, <2>8, <2>9, <2>10, <2>11, <2>12, <2>13, <2>14 DEF LoginStep
<1> QED BY <1>0, <1>1, <1>3, <1>4, <1>5, <1>6 DEF A

LEMMA LoginNext ==
  ASSUME LoginInv, [AloneNext]_accountVars
  PROVE  LoginInv' /\ \A p \in Jobs : FailedStep(p)
<1>0. JobShape /\ TroubleShape /\ Shaped /\ Unended /\ Within(Anybody, AnyServer)
  BY DEF LoginInv, Shaped
<1>1. ASSUME NEW p \in Jobs, Summary(p), Within(Anybody, AnyServer)',
             trouble'.left = 1 => OneOwner', Busy(p)' => LogsIn(p)' /\ Undoing(p)', FailedStep(p)
      PROVE  LoginInv' /\ \A q \in Jobs : FailedStep(q)
  <2>1. Shaped' /\ \A q \in Jobs : Busy(q)' => q = p
    BY <1>0, <1>1, BusyKept
  <2>2. trouble'.left <= 1
    <3>1. trouble.left <= 1
      BY DEF LoginInv
    <3>2. trouble.left \in Nat /\ trouble'.left \in Nat /\ trouble'.left <= trouble.left
      BY <1>0, <1>1 DEF Summary, Strikes, TroubleShape
    <3> QED BY <3>1, <3>2
  <2>3. Unended'
    BY <1>0, <1>1, <2>1 DEF Unended, Summary, Busy
  <2>4. LoginInv'
    BY <1>1, <2>1, <2>2, <2>3 DEF LoginInv
  <2>5. ASSUME NEW q \in Jobs \ {p} PROVE FailedStep(q)
    BY <1>0, <1>1 DEF FailedStep, Summary, Shaped, OneBusy
  <2> QED BY <1>1, <2>4, <2>5
<1>2. ASSUME NEW p \in Jobs, AccountStep(p) PROVE LoginInv' /\ \A q \in Jobs : FailedStep(q)
  <2>1. Summary(p) /\ Busy(p)
    BY <1>0, <1>2, StepSummary DEF Summary
  <2>2. LogsIn(p) /\ job[p].acct \in Accounts
    BY <2>1 DEF LoginInv, Within, Known
  <2>3. Within(Anybody, AnyServer)'
    BY <1>0, <1>2, AnyScope, StepWithin
  <2>4. trouble'.left = 1 => OneOwner'
    <3>1. SUFFICES ASSUME trouble'.left = 1 PROVE OneOwner'
      OBVIOUS
    <3>2. trouble.left = 1 /\ UNCHANGED trouble
      BY <2>1, <3>1 DEF LoginInv, Summary, Strikes, Shaped, TroubleShape
    <3> QED BY <1>0, <1>2, <3>2, OwnerStep DEF LoginInv, Harmless
  <2>5. Busy(p)' => LogsIn(p)'
    BY <1>0, <1>2, <2>1, <2>2, Routed DEF LogsIn, Summary, Busy
  <2>6. Undoing(p)'
    BY <1>2, <2>1, <2>2, UndoBegins
  <2>7. FailedStep(p)
    <3>1. job[p].op \in {"login", "apikey"} => LoginStep(p)
      BY <1>0, <1>2, <2>2, Routed DEF LogsIn
    <3> QED BY <2>1, <2>2, <3>1, TurnedBack DEF FailedStep
  <2> QED BY <1>1, <2>1, <2>3, <2>4, <2>5, <2>6, <2>7
<1>3. ASSUME NEW p \in Jobs, Kill(p) PROVE LoginInv' /\ \A q \in Jobs : FailedStep(q)
  <2>1. Summary(p) /\ job'[p].at = "idle" /\ job'[p].res = "killed"
    BY <1>0, <1>3, KillSummary
  <2>2. Within(Anybody, AnyServer)'
    BY <1>0, <1>3, AnyScope, KillWithin
  <2>3. trouble'.left # 1
    BY <1>0, <1>3, FaultCounts DEF Kill, LoginInv, TroubleShape
  <2>4. ~Busy(p)' /\ FailedStep(p)
    BY <2>1 DEF Busy, FailedStep
  <2> QED BY <1>1, <2>1, <2>2, <2>3, <2>4
<1>4. ASSUME NEW p \in Jobs, NEW op \in Starts, NEW a \in Accounts, AloneBegin(p, op, a)
      PROVE  LoginInv' /\ \A q \in Jobs : FailedStep(q)
  <2>1. AllIdle /\ Begin(p, op, a)
    BY <1>4 DEF AloneBegin
  <2>2. Shaped' /\ \A q \in Jobs : Busy(q)' => q = p
    BY <1>0, <2>1, BusyBegun
  <2>3. /\ job'[p].op = op /\ job'[p].at = op /\ job'[p].res = "none"
        /\ trouble'.left = trouble.left
    BY <1>0, <2>1, Begun
  <2>4. Within(Anybody, AnyServer)'
    <3>1. a \in Anybody /\ ServerOf[a] \in AnyServer
      BY StoreAssumption DEF Anybody, AnyServer
    <3> QED BY <1>0, <2>1, <3>1, AnyScope, BeginWithin DEF Within
  <2>5. trouble'.left <= 1 /\ (trouble'.left = 1 => OneOwner')
    BY <1>0, <1>4, <2>3, OwnerBegin DEF LoginInv
  <2>6. Unended'
    BY <2>2, <2>3 DEF Unended
  <2>7. LogsIn(p)' /\ Undoing(p)'
    BY <2>3 DEF LogsIn, Undoing, LoginRoute, LoginPlaces, Starts
  <2>8. LoginInv'
    BY <2>2, <2>4, <2>5, <2>6, <2>7 DEF LoginInv
  <2>9. ASSUME NEW q \in Jobs PROVE FailedStep(q)
    BY <2>1 DEF AllIdle, FailedStep
  <2> QED BY <2>8, <2>9
<1>5. CASE UNCHANGED accountVars
  <2>1. Shaped' /\ (trouble'.left = 1 => OneOwner')
    BY <1>0, <1>5, StillShaped DEF LoginInv, accountVars
  <2>2. LoginInv'
    BY <1>5, <2>1 DEF accountVars, LoginInv, Unended, Within, Around, Known, Busy, LogsIn, Undoing
  <2>3. ASSUME NEW q \in Jobs PROVE FailedStep(q)
    BY <1>0, <1>5 DEF accountVars, FailedStep, Unended
  <2> QED BY <2>2, <2>3
<1> QED BY <1>2, <1>3, <1>4, <1>5 DEF AloneNext

(* A login that fails leaves nothing of its account in the keyring,         *)
(* whichever operation failed in it, and whatever commands went before,     *)
(* one at a time, if only one operation fails (auth.rs).                    *)
AloneSpec(troubles) == AloneInit(troubles) /\ [][AloneNext]_accountVars
OneTrouble == {t \in Troubles : t.left <= 1}
THEOREM FailedLoginGone == AloneSpec(OneTrouble) => FailedLoginLeavesNothing
<1>1. AloneInit(OneTrouble) => LoginInv
  <2> SUFFICES ASSUME AloneInit(OneTrouble) PROVE LoginInv
    OBVIOUS
  <2>1. Shaped /\ OneOwner /\ \A p \in Jobs : ~Busy(p)
    BY OwnerInit DEF OneTrouble
  <2>2. trouble.left <= 1
    <3>1. ASSUME NEW stores, NEW rings, NEW confs, AccountInit(stores, rings, confs, OneTrouble)
          PROVE  trouble.left <= 1
      <4>1. PICK t \in OneTrouble : trouble = [left |-> t.left, kinds |-> t.kinds, struck |-> {}]
        BY <3>1 DEF AccountInit
      <4>2. t.left <= 1
        BY DEF OneTrouble
      <4> QED BY <4>1, <4>2
    <3> QED BY <3>1 DEF AloneInit
  <2>3. PICK a \in Accounts \cup {None} : Around(Of(a), AnyServer)
    BY <2>1 DEF OneOwner, OwnedBy, Within
  <2>4. Of(a) \subseteq Anybody
    BY DEF Of, Anybody
  <2>5. file \in Stores(Anybody, AnyServer) /\ ring \in Rings(Anybody)
    BY <2>3, <2>4, StoresGrow, RingsGrow DEF Around
  <2>6. Within(Anybody, AnyServer)
    BY <2>1, <2>3, <2>4, <2>5 DEF Within, Around
  <2> QED BY <2>1, <2>2, <2>6 DEF LoginInv, Unended
<1>2. LoginInv /\ [AloneNext]_accountVars => LoginInv' /\ [\A p \in Jobs : FailedStep(p)]_accountVars
  BY LoginNext
<1>3. [\A p \in Jobs : FailedStep(p)]_accountVars =>
      [\A p \in Jobs :
       (job[p].op \in {"login", "apikey"} /\ Busy(p) /\ job'[p].res = "error") =>
         job[p].acct \notin Secrets(ring')]_accountVars
  BY DEF FailedStep
<1> QED BY <1>1, <1>2, <1>3, PTL DEF AloneSpec, FailedLoginLeavesNothing

(* One command at a time: as long as nothing fails but requests to the      *)
(* server, data.json, the keyring and the daemon hold one account; and when *)
(* no command is under way nothing of another server than that of           *)
(* config.json is held, though requests fail and processes are killed       *)
(* (auth.rs, config.rs, main.rs).                                           *)
ApartSpec ==
  /\ scope.kinds \subseteq {"kill", "reply"}
  /\ AloneInit({t \in Troubles : t.kinds = scope.kinds})
  /\ [][AloneNext /\ UNCHANGED scope]_<<scope, accountVars>>
ApartInv ==
  /\ Shaped /\ trouble.kinds = scope.kinds /\ Whole
  /\ OneServer
  /\ scope.kinds = {"reply"} => OneOwner
THEOREM AccountsKeptApart == ApartSpec => []AccountsApart
<1>1. /\ scope.kinds \subseteq {"kill", "reply"}
      /\ AloneInit({t \in Troubles : t.kinds = scope.kinds})
      => ApartInv
  <2> SUFFICES ASSUME scope.kinds \subseteq {"kill", "reply"},
                      AloneInit({t \in Troubles : t.kinds = scope.kinds})
               PROVE  ApartInv
    OBVIOUS
  <2>1. Shaped /\ OneOwner /\ OneServer
    BY OwnerInit, ServerInit
  <2>2. trouble.kinds = scope.kinds
    <3>1. ASSUME NEW stores, NEW rings, NEW confs,
                 AccountInit(stores, rings, confs, {t \in Troubles : t.kinds = scope.kinds})
          PROVE  trouble.kinds = scope.kinds
      <4>1. PICK t \in {t \in Troubles : t.kinds = scope.kinds} :
              trouble = [left |-> t.left, kinds |-> t.kinds, struck |-> {}]
        BY <3>1 DEF AccountInit
      <4> QED BY <4>1
    <3> QED BY <3>1 DEF AloneInit
  <2> QED BY <2>1, <2>2 DEF ApartInv, Whole
<1>2. ApartInv /\ [AloneNext /\ UNCHANGED scope]_<<scope, accountVars>> => ApartInv'
  <2> SUFFICES ASSUME ApartInv, [AloneNext /\ UNCHANGED scope]_<<scope, accountVars>>
               PROVE  ApartInv'
    OBVIOUS
  <2>1. [AloneNext]_accountVars /\ scope' = scope
    OBVIOUS
  <2>2. Shaped' /\ OneServer' /\ Whole'
    BY <2>1, ServerNext DEF ApartInv
  <2>3. trouble'.kinds = trouble.kinds
    <3>1. CASE AloneNext
      BY <3>1, AloneShaped DEF AloneNext, ApartInv
    <3>2. CASE UNCHANGED accountVars
      BY <3>2 DEF accountVars
    <3> QED BY <2>1, <3>1, <3>2
  <2>4. scope.kinds = {"reply"} => OneOwner'
    BY <2>1, OwnerNext DEF ApartInv
  <2> QED BY <2>1, <2>2, <2>3, <2>4 DEF ApartInv
<1>3. ApartInv => AccountsApart
  BY OwnerIdle, ServerIdle DEF ApartInv, AccountsApart
<1> QED BY <1>1, <1>2, <1>3, PTL DEF ApartSpec

-----------------------------------------------------------------------------
(* The types: what is held is somebody's, of some server, and each process  *)
(* runs a command for an account.                                           *)
Described == \A p \in Jobs : /\ job[p].op \in Starts \cup {"none"} /\ job[p].acct \in Anybody
                             /\ job[p].alone \in BOOLEAN
AccountInv == JobShape /\ TroubleShape /\ Within(Anybody, AnyServer) /\ Described

LEMMA BegunDescribed ==
  ASSUME JobShape, Described, NEW p \in Jobs, NEW op \in Starts, NEW a \in Accounts, Begin(p, op, a)
  PROVE  Described'
<1> DEFINE others == {q \in Jobs : Busy(q)}
           new == [Idle EXCEPT !.op = op, !.at = op, !.acct = a, !.cf = conf,
                               !.alone = others = {}]
<1>1. job' = [q \in Jobs |-> IF q = p THEN new
                             ELSE IF q \in others THEN [job[q] EXCEPT !.alone = FALSE]
                             ELSE job[q]]
  BY DEF Begin
<1>2. new.op = op /\ new.acct = a /\ new.alone \in BOOLEAN
  BY DEF Idle
<1> HIDE DEF new, others
<1>3. job'[p] = new
  BY <1>1
<1>4. ASSUME NEW q \in Jobs \ {p}
      PROVE  /\ job'[q].op = job[q].op /\ job'[q].acct = job[q].acct
             /\ job'[q].alone \in {FALSE, job[q].alone}
  <2>1. job'[q] = [job[q] EXCEPT !.alone = FALSE] \/ job'[q] = job[q]
    BY <1>1
  <2>2. DOMAIN job[q] = Fields
    BY DEF JobShape
  <2> QED BY <2>1, <2>2 DEF Fields
<1> QED BY <1>2, <1>3, <1>4 DEF Described, Anybody

LEMMA AccountKept ==
  ASSUME AccountInv, [AccountNext]_accountVars PROVE AccountInv'
<1>0. JobShape /\ TroubleShape /\ Within(Anybody, AnyServer) /\ Described
  BY DEF AccountInv
<1>1. ASSUME NEW p \in Jobs, Summary(p), Within(Anybody, AnyServer)' PROVE AccountInv'
  <2>1. \A q \in Jobs : /\ job'[q].op = job[q].op /\ job'[q].acct = job[q].acct
                        /\ job'[q].alone = job[q].alone
    BY <1>1 DEF Summary, Others
  <2>2. Described'
    BY <1>0, <2>1 DEF Described
  <2> QED BY <1>1, <2>2 DEF AccountInv, Summary, Strikes
<1>2. ASSUME NEW p \in Jobs, AccountStep(p) PROVE AccountInv'
  BY <1>0, <1>1, <1>2, AnyScope, StepWithin, StepSummary
<1>3. ASSUME NEW p \in Jobs, Kill(p) PROVE AccountInv'
  BY <1>0, <1>1, <1>3, AnyScope, KillWithin, KillSummary
<1>4. ASSUME NEW p \in Jobs, NEW op \in Starts, NEW a \in Accounts, Begin(p, op, a)
      PROVE  AccountInv'
  <2>1. a \in Anybody /\ ServerOf[a] \in AnyServer
    BY StoreAssumption DEF Anybody, AnyServer
  <2>2. Within(Anybody, AnyServer)'
    BY <1>0, <1>4, <2>1, AnyScope, BeginWithin
  <2>3. JobShape' /\ TroubleShape'
    BY <1>0, <1>4, Begun
  <2>4. Described'
    BY <1>0, <1>4, BegunDescribed
  <2> QED BY <2>2, <2>3, <2>4 DEF AccountInv
<1>5. CASE UNCHANGED accountVars
  BY <1>0, <1>5 DEF accountVars, AccountInv, JobShape, TroubleShape, Within, Around, Known, Busy,
                    Described
<1> QED BY <1>2, <1>3, <1>4, <1>5 DEF AccountNext

(* data.json, the keyring, config.json and the daemon only ever hold what   *)
(* some account and some server gave them, whatever commands run at once,   *)
(* fail or are killed.                                                      *)
THEOREM AccountsTyped ==
  ASSUME NEW stores \in SUBSET Stores(Anybody, AnyServer), NEW rings \in SUBSET Rings(Anybody),
         NEW confs \in SUBSET Confs
  PROVE  AccountsSpec(stores, rings, confs) => []AccountTypeOK
<1>1. AccountInit(stores, rings, confs, Troubles) => AccountInv
  <2> SUFFICES ASSUME AccountInit(stores, rings, confs, Troubles) PROVE AccountInv
    OBVIOUS
  <2>1. JobShape /\ TroubleShape /\ \A p \in Jobs : ~Busy(p)
    BY InitShapes
  <2>2. Within(Anybody, AnyServer)
    BY <2>1 DEF AccountInit, Within, Around, Anybody
  <2>3. Described
    BY DEF AccountInit, Idle, Described, Anybody
  <2> QED BY <2>1, <2>2, <2>3 DEF AccountInv
<1>2. AccountInv => AccountTypeOK
  <2> SUFFICES ASSUME AccountInv PROVE AccountTypeOK
    OBVIOUS
  <2>1. /\ file \in Stores(Anybody, AnyServer) /\ ring \in Rings(Anybody) /\ opened \in Anybody
        /\ conf \in Confs /\ trouble.left \in Nat /\ Described
    BY DEF AccountInv, Within, Around, TroubleShape
  <2>2. conf.server \in Servers /\ conf.email \in Anybody \cup {ClientId}
    BY <2>1 DEF Confs, Anybody
  <2>3. ring \in [access : [Servers -> Anybody], refresh : [Servers -> Anybody],
                  secrets : SUBSET Accounts]
    BY <2>1 DEF Rings
  <2> QED BY <2>1, <2>2, <2>3 DEF AccountTypeOK, Stores, Anybody, AnyServer, Described
<1> QED BY <1>1, <1>2, AccountKept, PTL DEF AccountsSpec

-----------------------------------------------------------------------------
(* Command lines: any vault, clock and processes, any lines they may ask    *)
(* (IsLine).  First what the helpers compute: least numbers, steps of time, *)
(* sums of one number, the ranking of a search, codes and passwords.        *)
LEMMA DivStep ==
  ASSUME NEW a \in Nat, NEW p \in Nat, p > 0
  PROVE  /\ a \div p \in Nat /\ a % p \in 0..p-1
         /\ a = p * (a \div p) + (a % p)
  OBVIOUS

Below == {ss \in Nat \X Nat : ss[1] < ss[2]}
LEMMA LeastIs ==
  ASSUME NEW S \in SUBSET Nat, S # {}
  PROVE  Min(S) \in S /\ \A m \in S : Min(S) <= m
<1>1. IsWellFoundedOn(Below, Nat)
  <2>1. OpToRel(<, Nat) = Below
    BY Zenon DEF OpToRel, Below
  <2> QED BY <2>1, NatLessThanWellFounded, Zenon
<1>2. PICK x \in S : \A y \in S : ~(<<y, x>> \in Below)
  BY <1>1, WFMin, Zenon
<1>3. \A y \in S : x <= y
  <2> SUFFICES ASSUME NEW y \in S, y < x PROVE FALSE
    OBVIOUS
  <2>1. <<y, x>> \in Nat \X Nat /\ <<y, x>>[1] < <<y, x>>[2]
    OBVIOUS
  <2>2. <<y, x>> \in Below
    BY <2>1, Zenon DEF Below
  <2> QED BY <1>2, <2>2
<1> QED BY <1>3 DEF Min
(* The sum of one number is the number. *)
LEMMA UnitSum ==
  ASSUME NEW f, DOMAIN f = {1}, f[1] \in Nat
  PROVE  SumFunction(f) = f[1]
<1> DEFINE Iter(it) == it = [s \in SUBSET {1} |->
                 IF s = {} THEN 0
                 ELSE LET x == CHOOSE x \in s : TRUE
                      IN f[x] + it[s \ {x}]]
           iter == CHOOSE it : Iter(it)
           one == [s \in SUBSET {1} |-> IF s = {} THEN 0 ELSE f[1]]
<1>1. SumFunction(f) = iter[{1}]
  BY DEF SumFunction, SumFunctionOnSet, FoldFunctionOnSet, MapThenFoldSet
<1>2. Iter(one)
  <2>1. \A s \in SUBSET {1} : s = {} \/ s = {1}
    OBVIOUS
  <2>2. (CHOOSE x \in {1} : TRUE) = 1
    OBVIOUS
  <2>3. one[{}] = 0 /\ one[{1}] = f[1]
    OBVIOUS
  <2>4. f[1] = f[1] + one[{1} \ {1}]
    BY <2>3
  <2> QED BY <2>1, <2>2, <2>3, <2>4
<1>3. Iter(iter)
  BY <1>2
<1> HIDE DEF iter
<1>4. iter[{}] = 0
  BY <1>3
<1>5. iter[{1}] = f[1] + iter[{1} \ {1}]
  <2>1. (CHOOSE x \in {1} : TRUE) = 1
    OBVIOUS
  <2> QED BY <1>3, <2>1
<1> QED BY <1>1, <1>4, <1>5
(* Times in one step of a clock of period p are those before its end.      *)
LEMMA Monotone ==
  ASSUME NEW p \in Nat, NEW a \in Nat, NEW b \in Nat, a <= b
  PROVE  p * a <= p * b
<1>1. PICK d \in Nat : b = a + d
  <2>1. b - a \in Nat /\ b = a + (b - a)
    OBVIOUS
  <2> QED BY <2>1
<1>2. p * b = p * a + p * d /\ p * d \in Nat /\ p * a \in Nat
  BY <1>1
<1> QED BY <1>2

LEMMA StepEnds ==
  ASSUME NEW a \in Nat, NEW p \in Nat, p > 0, NEW l \in Nat
  PROVE  (a + l) \div p = a \div p <=> l < p - (a % p)
<1> DEFINE q == a \div p
           r == a % p
           k == (a + l) \div p
           m == (a + l) % p
<1>1. q \in Nat /\ r \in 0..p-1 /\ a = p * q + r
  BY DivStep
<1>2. k \in Nat /\ m \in 0..p-1 /\ a + l = p * k + m
  <2>1. a + l \in Nat
    OBVIOUS
  <2> QED BY <2>1, DivStep
<1> HIDE DEF q, r, k, m
<1>3. p * q \in Nat /\ p * k \in Nat
  BY <1>1, <1>2
<1>4. ASSUME k = q PROVE l < p - r
  BY <1>1, <1>2, <1>3, <1>4
<1>5. ASSUME k < q PROVE FALSE
  <2>1. p * (k + 1) <= p * q
    BY <1>1, <1>2, <1>5, Monotone
  <2>2. p * (k + 1) = p * k + p
    BY <1>2
  <2> QED BY <2>1, <2>2, <1>1, <1>2, <1>3
<1>6. ASSUME k > q PROVE l >= p - r
  <2>1. p * (q + 1) <= p * k
    BY <1>1, <1>2, <1>6, Monotone
  <2>2. p * (q + 1) = p * q + p
    BY <1>1
  <2> QED BY <2>1, <2>2, <1>1, <1>2, <1>3
<1>7. k = q <=> l < p - r
  BY <1>1, <1>2, <1>4, <1>5, <1>6
<1> QED BY <1>7 DEF k, q, r

(***************************************************************************)
(* What a search shows                                                     *)
(***************************************************************************)
LEMMA ItemsListed ==
  /\ Len(Items) \in Nat
  /\ \A n \in 1..Len(Items) : Items[n] \in ToSet(Items) /\ Items[n].name \in Names
  /\ \A i \in ToSet(Items) : \E n \in 1..Len(Items) : Items[n] = i
  /\ \A x \in Names : \E n \in 1..Len(Items) : Items[n].name = x
<1>1. Items \in Seq(ToSet(Items))
  BY ItemAssumption
<1>2. Len(Items) \in Nat /\ DOMAIN Items = 1..Len(Items)
  BY <1>1
<1>3. ToSet(Items) = {Items[n] : n \in 1..Len(Items)}
  BY <1>2 DEF ToSet
<1> QED BY <1>2, <1>3 DEF Names

LEMMA FirstNamedIs ==
  ASSUME NEW c, NEW names, FirstNamed(c, names) # NoItem
  PROVE  FirstNamed(c, names) \in ToSet(Items) /\ FirstNamed(c, names).name \in names
<1> DEFINE hits == {n \in 1..Len(Items) : /\ c = "export" => Items[n].type = "ssh_key"
                                          /\ Items[n].name \in names}
<1>1. hits # {} /\ FirstNamed(c, names) = Items[Min(hits)]
  BY DEF FirstNamed
<1>2. hits \in SUBSET Nat
  BY ItemsListed
<1>3. PICK n \in hits : FirstNamed(c, names) = Items[n]
  BY <1>1, <1>2, LeastIs
<1> QED BY <1>3, ItemsListed

LEMMA FoundIsNamed ==
  ASSUME NEW c, NEW q, IsQuery(q), NEW i \in {FindItem(c, q), FindLocally(c, q)}, i # NoItem
  PROVE  i \in ToSet(Items) /\ i.name \in q.within
<1>1. CASE i = FirstNamed(c, q.within)
  BY <1>1, FirstNamedIs
<1>2. CASE i = FirstNamed(c, {q.exact})
  <2>1. i \in ToSet(Items) /\ i.name = q.exact
    BY <1>2, FirstNamedIs
  <2>2. q.exact \in Names
    BY <2>1 DEF Names
  <2> QED BY <2>1, <2>2 DEF IsQuery
<1> QED BY <1>1, <1>2 DEF FindItem, FindLocally

LEMMA FieldIsHeld ==
  ASSUME NEW flag \in Flags, NEW i, FieldOf(flag, i) # "empty"
  PROVE  FieldOf(flag, i) \in i.has
<1> DEFINE fields == Candidates(flag, i.type)
           having == {n \in 1..Len(fields) : fields[n] \in i.has}
<1>1. having # {} /\ FieldOf(flag, i) = fields[Min(having)]
  BY DEF FieldOf
<1>2. Len(fields) \in Nat
  BY DEF Flags, Candidates
<1>3. having \in SUBSET Nat
  BY <1>2
<1>4. PICK n \in having : FieldOf(flag, i) = fields[n]
  BY <1>1, <1>3, LeastIs
<1> HIDE DEF fields
<1> QED BY <1>4

Hits(q) == {n \in 1..Len(Items) : \A w \in ToSet(q.words) : w[Items[n].name] # "no"}
ScoreOf(q, n) ==
  (IF Items[n].favorite THEN 100 ELSE 0)
    + SumFunction([w \in DOMAIN q.words |-> Score[q.words[w][Items[n].name]]])
Ahead(q, n) ==
  {m \in Hits(q) : \/ ScoreOf(q, m) > ScoreOf(q, n)
                   \/ ScoreOf(q, m) = ScoreOf(q, n) /\ m < n}
Rank(q, n) == Cardinality(Ahead(q, n)) + 1
LEMMA ScoredIs ==
  ASSUME NEW q
  PROVE  Scored(q) = {<<Rank(q, n), Items[n].name>> : n \in Hits(q)}
BY DEF Scored, Hits, ScoreOf, Ahead, Rank

LEMMA ShowsHits ==
  ASSUME NEW q
  PROVE  \A x : x \in {v[2] : v \in Scored(q)} <=> \E n \in Hits(q) : Items[n].name = x
<1>1. ASSUME NEW n \in Hits(q) PROVE \E v \in Scored(q) : v[2] = Items[n].name
  <2>1. <<Rank(q, n), Items[n].name>> \in Scored(q)
    BY ScoredIs
  <2>2. <<Rank(q, n), Items[n].name>>[2] = Items[n].name
    OBVIOUS
  <2> QED BY <2>1, <2>2
<1>2. ASSUME NEW v \in Scored(q) PROVE \E n \in Hits(q) : v[2] = Items[n].name
  <2>1. PICK n \in Hits(q) : v = <<Rank(q, n), Items[n].name>>
    BY ScoredIs
  <2> QED BY <2>1
<1> QED BY <1>1, <1>2

LEMMA ListShowsAll == {v[2] : v \in Scored(Everything)} = Names
<1>1. ToSet(Everything.words) = {}
  BY DEF Everything, ToSet
<1>2. Hits(Everything) = 1..Len(Items)
  BY <1>1 DEF Hits
<1>3. \A x : x \in Names <=> \E n \in 1..Len(Items) : Items[n].name = x
  BY ItemsListed
<1>4. \A x : x \in {v[2] : v \in Scored(Everything)} <=> x \in Names
  BY <1>2, <1>3, ShowsHits
<1> QED BY <1>4

LEMMA SearchShowsNamed ==
  ASSUME NEW q, IsQuery(q)
  PROVE  q.within \subseteq {v[2] : v \in Scored(q)}
<1> SUFFICES ASSUME NEW x \in q.within PROVE \E n \in Hits(q) : Items[n].name = x
  BY ShowsHits
<1>1. PICK n \in 1..Len(Items) : Items[n].name = x
  BY ItemsListed DEF IsQuery
<1> QED BY <1>1 DEF IsQuery, Hits

(* A word that is a name scores more there than anywhere else it matches.  *)
LEMMA ExactScores ==
  ASSUME NEW q, IsQuery(q), Len(q.words) = 1, NEW n \in Hits(q)
  PROVE  LET more == IF Items[n].favorite THEN 100 ELSE 0
             s == ScoreOf(q, n)
         IN /\ s \in Nat
            /\ Items[n].name = q.exact => s = 2000 + more
            /\ Items[n].name # q.exact => s < 2000
<1> DEFINE x == Items[n].name
           f == [w \in DOMAIN q.words |-> Score[q.words[w][x]]]
           class == q.words[1][x]
<1>1. n \in 1..Len(Items) /\ x \in Names /\ Items[n] \in ToSet(Items)
  BY ItemsListed DEF Hits
<1>2. Items[n].favorite \in BOOLEAN
  BY <1>1, ItemAssumption
<1>3. q.words \in Seq([Names -> DOMAIN Score \cup {"no"}])
  BY DEF IsQuery
<1>4. DOMAIN q.words = {1} /\ q.words[1] \in [Names -> DOMAIN Score \cup {"no"}]
  BY <1>3
<1>5. q.words[1] \in ToSet(q.words)
  BY <1>4 DEF ToSet
<1>6. class \in DOMAIN Score
  <2>1. class # "no"
    BY <1>5 DEF Hits
  <2> QED BY <1>1, <1>4, <2>1
<1>7. class = "exact" <=> x = q.exact
  BY <1>1 DEF IsQuery
<1> HIDE DEF class
<1>8. /\ Score[class] \in Nat
      /\ class = "exact" => Score[class] = 2000
      /\ class # "exact" => Score[class] <= 1000
  BY <1>6 DEF Score
<1>9. ScoreOf(q, n) = (IF Items[n].favorite THEN 100 ELSE 0) + Score[class]
  <2>1. DOMAIN f = {1} /\ f[1] = Score[class]
    BY <1>4 DEF class
  <2>2. SumFunction(f) = Score[class]
    BY <2>1, <1>8, UnitSum
  <2>3. ScoreOf(q, n) = (IF Items[n].favorite THEN 100 ELSE 0) + SumFunction(f)
    BY DEF ScoreOf
  <2> QED BY <2>2, <2>3
<1> QED BY <1>2, <1>7, <1>8, <1>9

LEMMA SearchShowsFirst ==
  ASSUME NEW q, IsQuery(q), Len(q.words) = 1, q.exact \in Names
  PROVE  <<1, q.exact>> \in Scored(q)
<1> DEFINE exact == {n \in Hits(q) : Items[n].name = q.exact}
           liked == {n \in exact : Items[n].favorite}
           best == IF liked # {} THEN liked ELSE exact
<1>1. PICK x \in Hits(q) : Items[x].name = q.exact
  <2>1. q.exact \in {v[2] : v \in Scored(q)}
    BY SearchShowsNamed DEF IsQuery
  <2> QED BY <2>1, ShowsHits
<1>2. best # {} /\ best \in SUBSET Nat
  <2>1. exact # {} /\ exact \in SUBSET Nat
    BY <1>1, ItemsListed DEF Hits
  <2>2. liked \subseteq exact
    OBVIOUS
  <2> HIDE DEF exact, liked
  <2> QED BY <2>1, <2>2
<1>3. PICK n \in best : \A m \in best : n <= m
  BY <1>2, LeastIs
<1>4. n \in Hits(q) /\ n \in Nat /\ Items[n].name = q.exact
  BY <1>2, <1>3
<1>5. Ahead(q, n) = {}
  <2> SUFFICES ASSUME NEW m \in Ahead(q, n) PROVE FALSE
    OBVIOUS
  <2>1. m \in Hits(q) /\ m \in Nat
    BY ItemsListed DEF Ahead, Hits
  <2>2. /\ ScoreOf(q, n) = 2000 + (IF Items[n].favorite THEN 100 ELSE 0)
        /\ ScoreOf(q, n) \in Nat
    BY <1>4, ExactScores
  <2>3. /\ ScoreOf(q, m) \in Nat
        /\ Items[m].name = q.exact => ScoreOf(q, m) = 2000 + (IF Items[m].favorite THEN 100 ELSE 0)
        /\ Items[m].name # q.exact => ScoreOf(q, m) < 2000
    BY <2>1, ExactScores
  <2>4. ScoreOf(q, m) >= ScoreOf(q, n) /\ (ScoreOf(q, m) > ScoreOf(q, n) \/ m < n)
    BY <2>2, <2>3 DEF Ahead
  <2>5. Items[m].name = q.exact
    BY <2>2, <2>3, <2>4
  <2>6. Items[n].favorite => Items[m].favorite
    BY <2>2, <2>3, <2>4, <2>5
  <2>7. m \in best
    <3>1. CASE liked # {}
      BY <3>1, <1>3, <2>1, <2>5, <2>6
    <3>2. CASE liked = {}
      BY <3>2, <2>1, <2>5
    <3> QED BY <3>1, <3>2
  <2>8. ~(m < n)
    BY <1>3, <1>4, <2>1, <2>7
  <2>9. ScoreOf(q, m) > ScoreOf(q, n)
    BY <2>4, <2>8
  <2>10. Items[m].favorite /\ ~Items[n].favorite
    BY <2>2, <2>3, <2>5, <2>9
  <2>11. liked # {}
    BY <2>1, <2>5, <2>10
  <2> QED BY <1>3, <2>10, <2>11
<1>6. Rank(q, n) = 1
  BY <1>5, FS_EmptySet DEF Rank
<1> QED BY <1>4, <1>6, ScoredIs

(***************************************************************************)
(* Codes and passwords                                                     *)
(***************************************************************************)
LEMMA CodeOf ==
  ASSUME NEW seed \in Seeds, NEW now \in Nat, NEW c \in GenerateTotp(seed, now)
  PROVE  /\ seed.reads /\ seed.period > 0
         /\ c.step = now \div seed.period /\ c.ttl = seed.period - (now % seed.period)
BY DEF GenerateTotp, TotpParams, Seeds

LEMMA ShownOf ==
  ASSUME NEW name, NEW seed \in Seeds, NEW v \in Shows(name, seed)
  PROVE  v.of = name /\ v.at \in Nat /\ v.code \in GenerateTotp(seed, v.at)
<1>1. PICK now \in Moments : v \in {[of |-> name, at |-> now, code |-> c] : c \in GenerateTotp(seed, now)}
  BY DEF Shows
<1>2. PICK c \in GenerateTotp(seed, now) : v = [of |-> name, at |-> now, code |-> c]
  BY <1>1
<1> QED BY <1>2, MomentAssumption

LEMMA CodeLasts ==
  ASSUME NEW name, NEW seed \in Seeds, NEW v \in Shows(name, seed)
  PROVE  /\ v.of = name /\ seed.reads
         /\ \A later \in 0..2 * seed.period :
              \A c \in GenerateTotp(seed, v.at + later) :
                c.step = v.code.step <=> later < v.code.ttl
<1>1. v.of = name /\ v.at \in Nat /\ v.code \in GenerateTotp(seed, v.at)
  BY ShownOf
<1>2. /\ seed.reads /\ seed.period > 0 /\ seed.period \in Nat
      /\ v.code.step = v.at \div seed.period
      /\ v.code.ttl = seed.period - (v.at % seed.period)
  BY <1>1, CodeOf DEF Seeds
<1>3. ASSUME NEW later \in 0..2 * seed.period, NEW c \in GenerateTotp(seed, v.at + later)
      PROVE  c.step = v.code.step <=> later < v.code.ttl
  <2>1. later \in Nat /\ v.at + later \in Nat
    BY <1>1, <1>2
  <2>2. c.step = (v.at + later) \div seed.period
    BY <2>1, CodeOf
  <2>3. (v.at + later) \div seed.period = v.at \div seed.period
          <=> later < seed.period - (v.at % seed.period)
    BY <1>1, <1>2, <2>1, StepEnds
  <2> QED BY <1>2, <2>2, <2>3
<1> QED BY <1>1, <1>2, <1>3

LEMMA PasswordAsAsked ==
  ASSUME NEW o, IsOptions(o), NEW c \in Passwords(o, 3)
  PROVE  /\ Length(c) = o.length
         /\ "number" \in o.sets => c.number >= LessOf(o.numbers, o.length)
         /\ o.numbers + o.special + 2 <= o.length =>
              /\ "special" \in o.sets => c.special >= o.special
              /\ \A x \in o.sets \cap {"upper", "lower"} : c[x] > 0
<1> DEFINE g == Guaranteed(o)
<1>1. /\ o.length \in Nat /\ o.numbers \in Nat /\ o.special \in Nat
      /\ o.sets \subseteq CharSets
  BY DEF IsOptions
<1>2. /\ Length(c) = o.length /\ c \in [CharSets -> 0..o.length]
      /\ \A x \in CharSets : c[x] >= g[x]
  BY DEF Passwords
<1>3. /\ "number" \in o.sets => g.number = LessOf(o.numbers, o.length)
      /\ g.number \in Nat /\ g.number <= o.numbers
  BY <1>1 DEF Guaranteed, LessOf
<1>4. ASSUME o.numbers + o.special + 2 <= o.length
      PROVE  /\ "special" \in o.sets => g.special >= o.special
             /\ "upper" \in o.sets => g.upper > 0
             /\ "lower" \in o.sets => g.lower > 0
  BY <1>1, <1>4 DEF Guaranteed, LessOf
<1>5. /\ c["number"] \in Nat /\ c["number"] >= g["number"]
      /\ c["special"] \in Nat /\ c["special"] >= g["special"]
      /\ c["upper"] \in Nat /\ c["upper"] >= g["upper"]
      /\ c["lower"] \in Nat /\ c["lower"] >= g["lower"]
  BY <1>1, <1>2 DEF CharSets
<1>6. g["number"] = g.number /\ g["special"] = g.special /\ g["upper"] = g.upper /\ g["lower"] = g.lower
  BY DEF Guaranteed
<1>7. g.special \in Nat /\ g.upper \in Nat /\ g.lower \in Nat
  BY <1>1 DEF Guaranteed, LessOf
<1>8. c.number = c["number"] /\ c.special = c["special"]
  OBVIOUS
<1> HIDE DEF g
<1>9. "number" \in o.sets => c.number >= LessOf(o.numbers, o.length)
  BY <1>3, <1>5, <1>6, <1>8
<1>10. ASSUME o.numbers + o.special + 2 <= o.length
      PROVE  /\ "special" \in o.sets => c.special >= o.special
             /\ "upper" \in o.sets => c["upper"] > 0
             /\ "lower" \in o.sets => c["lower"] > 0
  BY <1>1, <1>4, <1>5, <1>6, <1>8, <1>10, <1>7
<1> QED BY <1>2, <1>9, <1>10

LEMMA PhraseAsAsked ==
  ASSUME NEW o, IsOptions(o), NEW c \in Passphrases(o, 2, 3)
  PROVE  Len(c) = o.words
<1>1. o.words \in Nat /\ c \in [1..o.words -> Wordlist]
  BY DEF Passphrases, IsOptions
<1> QED BY <1>1
(***************************************************************************)
(* SuccessIsTrue: what each phase of a command may count on.  The parts of *)
(* the property are put as relations between what was asked, said and done.*)
(***************************************************************************)
ListTrue(a, v, c) ==
  LET listed == {x[2] : x \in v} IN
  c => /\ a.cmd = "list" => listed = Names
       /\ a.cmd = "search" =>
            /\ a.query.within \subseteq listed
            /\ Len(a.query.words) = 1 /\ a.query.exact \in Names => <<1, a.query.exact>> \in v
FieldTrue(a, v) ==
  a.cmd \in {"copy", "export"} =>
    \A x \in v : x[1] \in a.query.within /\ \E i \in ToSet(Items) : i.name = x[1] /\ x[2] \in i.has
CodeTrue(a, v) ==
  a.cmd = "totp" =>
    \A x \in v :
      \E i \in ToSet(Items) \cup {[name |-> "query", seed |-> a.query.seed]} :
        /\ i.name = x.of
        /\ x.of \in a.query.within \cup (IF a.query.seed.reads THEN {"query"} ELSE {})
        /\ \A later \in 0..2 * i.seed.period :
             \A c \in GenerateTotp(i.seed, x.at + later) :
               c.step = x.code.step <=> later < x.code.ttl
KeyTrue(a, v, m, l) ==
  /\ a.cmd \in {"create", "import"} /\ ~l => m = 1
  /\ a.cmd = "create" => v = {Pair("derived")}
PasswordTrue(a, v) ==
  LET o == a.options IN
  /\ a.cmd = "generate" /\ o.words > 0 => \A c \in v : Len(c) = o.words
  /\ a.cmd = "generate" /\ o.words = 0 =>
    \A c \in v :
      /\ Length(c) = o.length
      /\ "number" \in o.sets => c.number >= LessOf(o.numbers, o.length)
      /\ o.numbers + o.special + 2 <= o.length =>
           /\ "special" \in o.sets => c.special >= o.special
           /\ \A x \in o.sets \cap {"upper", "lower"} : c[x] > 0
AllTrue(a, v, m, l, c) ==
  ListTrue(a, v, c) /\ FieldTrue(a, v) /\ CodeTrue(a, v) /\ KeyTrue(a, v, m, l) /\ PasswordTrue(a, v)

CmdPhases == {"idle", "asking", "password", "local", "item", "key", "done"}
Before == {"idle", "asking", "password", "local"}
AnyItem == ToSet(Items) \cup Pairs \cup {NoItem}
Lined ==
  /\ \A s \in Shells : IsLine(asked[s])
  /\ told = [s \in Shells |-> told[s]]
  /\ lost \in [Shells -> BOOLEAN] /\ calm \in [Shells -> BOOLEAN]
  /\ phase \in [Shells -> CmdPhases] /\ item \in [Shells -> AnyItem] /\ made \in [Shells -> 0..2]

(* A reading command has no item before it looks for one, then one that is *)
(* named; a creating one keeps its key, and has made one on the server only*)
(* where an answer was lost.                                               *)
ReadsOn(a, p, i, c, d) ==
  /\ p = "asking" => a.cmd \in Reading /\ (c => d = "unlocked")
  /\ p = "item" =>
       /\ a.cmd \in {"copy", "totp", "export"}
       /\ i # NoItem => i \in ToSet(Items) /\ i.name \in a.query.within
  /\ a.cmd \in Reading /\ p \in Before => i = NoItem
CreatesOn(a, p, i, m, l) ==
  /\ p \in {"idle", "key"} => m = 0 /\ ~l
  /\ p \in {"password", "local"} => m \in 0..1 /\ (l <=> m = 1)
  /\ p = "key" => a.cmd \in {"create", "import"}
  /\ a.cmd = "create" /\ p \in {"key", "password", "local"} => i = Pair("derived")
SoFar(a, p, i, t, m, l, c, d) ==
  /\ ReadsOn(a, p, i, c, d) /\ CreatesOn(a, p, i, m, l)
  /\ t.ok => p = "done" /\ AllTrue(a, t.value, m, l, c)
CmdInv ==
  /\ Lined
  /\ \A s \in Shells :
       SoFar(asked[s], phase[s], item[s], told[s], made[s], lost[s], calm[s], daemonIs)

LEMMA AllTrueSays == CmdInv => SuccessIsTrue
<1> SUFFICES ASSUME CmdInv, NEW s \in Shells, told[s].ok
             PROVE  /\ ListIsVault(s) /\ FieldIsNamed(s) /\ CodeIsNamed(s)
                    /\ KeyIsOnce(s) /\ PasswordIsAsked(s)
  BY DEF SuccessIsTrue
<1>1. AllTrue(asked[s], told[s].value, made[s], lost[s], calm[s])
  BY DEF CmdInv, SoFar
<1>2. ListIsVault(s)
  BY <1>1 DEF AllTrue, ListTrue, ListIsVault
<1>3. FieldIsNamed(s)
  BY <1>1 DEF AllTrue, FieldTrue, FieldIsNamed
<1>4. CodeIsNamed(s)
  BY <1>1 DEF AllTrue, CodeTrue, CodeIsNamed
<1>5. KeyIsOnce(s)
  BY <1>1 DEF AllTrue, KeyTrue, KeyIsOnce
<1>6. PasswordIsAsked(s)
  BY <1>1 DEF AllTrue, PasswordTrue, PasswordIsAsked
<1> QED BY <1>2, <1>3, <1>4, <1>5, <1>6

(* One process moves, and the daemon may be unlocked by it.                *)
Turn(s, p, i, t, m, l, c, d) ==
  /\ phase' = [phase EXCEPT ![s] = p] /\ item' = [item EXCEPT ![s] = i]
  /\ told' = [told EXCEPT ![s] = t] /\ made' = [made EXCEPT ![s] = m]
  /\ lost' = [lost EXCEPT ![s] = l] /\ calm' = [calm EXCEPT ![s] = c]
  /\ asked' = asked /\ daemonIs' = d

LEMMA TurnKeeps ==
  ASSUME CmdInv, NEW s \in Shells, NEW p \in CmdPhases, NEW i \in AnyItem, NEW t,
         NEW m \in 0..2, NEW l \in BOOLEAN, NEW c \in BOOLEAN, NEW d \in {daemonIs, "unlocked"},
         Turn(s, p, i, t, m, l, c, d), SoFar(asked[s], p, i, t, m, l, c, d)
  PROVE  CmdInv'
<1>1. /\ \A r \in Shells : IsLine(asked[r])
      /\ told = [r \in Shells |-> told[r]]
      /\ lost \in [Shells -> BOOLEAN] /\ calm \in [Shells -> BOOLEAN]
      /\ phase \in [Shells -> CmdPhases] /\ item \in [Shells -> AnyItem] /\ made \in [Shells -> 0..2]
  BY DEF CmdInv, Lined
<1>2. Lined'
  <2>1. told' = [r \in Shells |-> told'[r]]
    BY <1>1 DEF Turn
  <2> QED BY <1>1, <2>1 DEF Turn, Lined
<1>3. ASSUME NEW r \in Shells
      PROVE  SoFar(asked'[r], phase'[r], item'[r], told'[r], made'[r], lost'[r], calm'[r], daemonIs')
  <2>1. CASE r = s
    <3>1. /\ asked'[s] = asked[s] /\ phase'[s] = p /\ item'[s] = i /\ made'[s] = m
          /\ lost'[s] = l /\ calm'[s] = c /\ daemonIs' = d
      BY <1>1 DEF Turn
    <3>2. told'[s] = t
      BY <1>1 DEF Turn
    <3> QED BY <2>1, <3>1, <3>2
  <2>2. CASE r # s
    <3>1. /\ asked'[r] = asked[r] /\ phase'[r] = phase[r] /\ item'[r] = item[r] /\ made'[r] = made[r]
          /\ lost'[r] = lost[r] /\ calm'[r] = calm[r] /\ daemonIs' = d
      BY <2>2, <1>1 DEF Turn
    <3>2. told'[r] = told[r]
      BY <2>2, <1>1 DEF Turn
    <3>3. SoFar(asked[r], phase[r], item[r], told[r], made[r], lost[r], calm[r], daemonIs)
      BY DEF CmdInv
    <3>4. SoFar(asked[r], phase[r], item[r], told[r], made[r], lost[r], calm[r], d)
      BY <3>3 DEF SoFar, ReadsOn
    <3> QED BY <3>1, <3>2, <3>4
  <2> QED BY <2>1, <2>2
<1> QED BY <1>2, <1>3 DEF CmdInv

(* What is known of a process that is not done.                            *)
LEMMA Underway ==
  ASSUME CmdInv, NEW s \in Shells
  PROVE  /\ IsLine(asked[s]) /\ phase[s] \in CmdPhases /\ item[s] \in AnyItem
         /\ made[s] \in 0..2 /\ lost[s] \in BOOLEAN /\ calm[s] \in BOOLEAN
         /\ ReadsOn(asked[s], phase[s], item[s], calm[s], daemonIs)
         /\ CreatesOn(asked[s], phase[s], item[s], made[s], lost[s])
         /\ phase[s] # "done" => ~told[s].ok
         /\ phase = [phase EXCEPT ![s] = phase[s]] /\ item = [item EXCEPT ![s] = item[s]]
         /\ told = [told EXCEPT ![s] = told[s]] /\ made = [made EXCEPT ![s] = made[s]]
         /\ lost = [lost EXCEPT ![s] = lost[s]] /\ calm = [calm EXCEPT ![s] = calm[s]]
BY DEF CmdInv, Lined, SoFar

(* An answer ends a command; a process that says nothing new keeps what it *)
(* may count on.                                                           *)
LEMMA Answers ==
  ASSUME NEW a, NEW i, NEW v, NEW m, NEW l, NEW c, NEW d, AllTrue(a, v, m, l, c)
  PROVE  SoFar(a, "done", i, [ok |-> TRUE, value |-> v], m, l, c, d)
BY DEF SoFar, ReadsOn, CreatesOn, Before
LEMMA Unsaid ==
  ASSUME NEW a, NEW p, NEW i, NEW t, NEW m, NEW l, NEW c, NEW d, ~t.ok,
         ReadsOn(a, p, i, c, d), CreatesOn(a, p, i, m, l)
  PROVE  SoFar(a, p, i, t, m, l, c, d)
BY DEF SoFar
LEMMA Ended ==
  ASSUME NEW a, NEW i, NEW m, NEW l, NEW c, NEW d
  PROVE  ReadsOn(a, "done", i, c, d) /\ CreatesOn(a, "done", i, m, l)
BY DEF ReadsOn, CreatesOn, Before

LEMMA SaysKeeps ==
  ASSUME CmdInv, NEW s \in Shells, NEW v, Say(s, v),
         UNCHANGED <<asked, item, made, lost, calm, daemonIs>>,
         AllTrue(asked[s], v, made[s], lost[s], calm[s])
  PROVE  CmdInv'
<1>1. Turn(s, "done", item[s], [ok |-> TRUE, value |-> v], made[s], lost[s], calm[s], daemonIs)
  BY Underway DEF Say, CmdGoto, Turn
<1>2. SoFar(asked[s], "done", item[s], [ok |-> TRUE, value |-> v], made[s], lost[s], calm[s], daemonIs)
  BY Answers
<1>3. /\ "done" \in CmdPhases /\ item[s] \in AnyItem /\ made[s] \in 0..2
      /\ lost[s] \in BOOLEAN /\ calm[s] \in BOOLEAN /\ daemonIs \in {daemonIs, "unlocked"}
  BY Underway DEF CmdPhases
<1> QED BY <1>1, <1>2, <1>3, TurnKeeps

LEMMA RefuseKeeps ==
  ASSUME CmdInv, NEW s \in Shells, phase[s] # "done", Refuse(s),
         UNCHANGED <<asked, item, made, lost, calm, daemonIs>>
  PROVE  CmdInv'
<1>1. Turn(s, "done", item[s], told[s], made[s], lost[s], calm[s], daemonIs)
  BY Underway DEF Refuse, CmdGoto, Turn
<1>2. SoFar(asked[s], "done", item[s], told[s], made[s], lost[s], calm[s], daemonIs)
  BY Unsaid, Ended, Underway
<1>3. /\ "done" \in CmdPhases /\ item[s] \in AnyItem /\ made[s] \in 0..2
      /\ lost[s] \in BOOLEAN /\ calm[s] \in BOOLEAN /\ daemonIs \in {daemonIs, "unlocked"}
  BY Underway DEF CmdPhases
<1> QED BY <1>1, <1>2, <1>3, TurnKeeps

(* The daemon is locked, unlocked or gone: a calm command sees it.         *)
LEMMA DaemonBecomesKeeps ==
  ASSUME CmdInv, NEW e, DaemonBecomes(e)
  PROVE  CmdInv'
<1>1. /\ daemonIs' = e /\ calm' = [s \in Shells |-> calm[s] /\ ~(e # "unlocked" /\ phase[s] = "asking")]
      /\ UNCHANGED <<asked, phase, item, told, made, lost>>
  BY DEF DaemonBecomes
<1>2. Lined'
  BY <1>1 DEF CmdInv, Lined
<1>3. ASSUME NEW r \in Shells
      PROVE  SoFar(asked'[r], phase'[r], item'[r], told'[r], made'[r], lost'[r], calm'[r], daemonIs')
  <2>1. SoFar(asked[r], phase[r], item[r], told[r], made[r], lost[r], calm[r], daemonIs)
    BY DEF CmdInv
  <2>2. calm'[r] = (calm[r] /\ ~(e # "unlocked" /\ phase[r] = "asking"))
    BY <1>1
  <2>3. CASE phase[r] = "asking"
    <3>1. ~told[r].ok
      BY <2>1, <2>3 DEF SoFar
    <3>2. ReadsOn(asked[r], phase[r], item[r], calm'[r], e)
      BY <2>1, <2>2, <2>3 DEF SoFar, ReadsOn
    <3>3. CreatesOn(asked[r], phase[r], item[r], made[r], lost[r])
      BY <2>1 DEF SoFar
    <3>4. SoFar(asked[r], phase[r], item[r], told[r], made[r], lost[r], calm'[r], e)
      BY <3>1, <3>2, <3>3, Unsaid
    <3> QED BY <1>1, <3>4
  <2>4. CASE phase[r] # "asking"
    <3>1. calm'[r] = calm[r]
      BY <2>2, <2>4 DEF CmdInv, Lined
    <3>2. SoFar(asked[r], phase[r], item[r], told[r], made[r], lost[r], calm[r], e)
      BY <2>1, <2>4 DEF SoFar, ReadsOn
    <3> QED BY <1>1, <3>1, <3>2
  <2> QED BY <2>3, <2>4
<1> QED BY <1>2, <1>3 DEF CmdInv

(***************************************************************************)
(* The actions that end a command with an answer                           *)
(***************************************************************************)
LEMMA ListAndSearchKeeps ==
  ASSUME CmdInv, NEW s \in Shells, ListAndSearch(s)
  PROVE  CmdInv'
<1> DEFINE a == asked[s]
           v == Scored(IF a.cmd = "list" THEN Everything ELSE a.query)
<1>1. /\ phase[s] = "asking" /\ a.cmd \in {"list", "search"} /\ IsQuery(a.query)
      /\ UNCHANGED <<asked, item, made, lost, calm, daemonIs>>
      /\ calm[s] => daemonIs = "unlocked"
  BY Underway DEF ListAndSearch, ReadsOn, IsLine
<1>2. ASSUME NEW w, ListTrue(a, w, calm[s]) PROVE AllTrue(a, w, made[s], lost[s], calm[s])
  BY <1>1, <1>2 DEF AllTrue, FieldTrue, CodeTrue, KeyTrue, PasswordTrue
<1>3. CASE Say(s, v)
  <2>1. ListTrue(a, v, calm[s])
    <3>1. CASE a.cmd = "list"
      <4>1. {x[2] : x \in v} = Names
        BY <3>1, ListShowsAll
      <4> QED BY <3>1, <4>1 DEF ListTrue
    <3>2. CASE a.cmd = "search"
      <4>1. a.query.within \subseteq {x[2] : x \in v}
        BY <3>2, <1>1, SearchShowsNamed
      <4>2. Len(a.query.words) = 1 /\ a.query.exact \in Names => <<1, a.query.exact>> \in v
        BY <3>2, <1>1, SearchShowsFirst
      <4> QED BY <3>2, <4>1, <4>2 DEF ListTrue
    <3> QED BY <1>1, <3>1, <3>2
  <2> HIDE DEF v
  <2>2. AllTrue(a, v, made[s], lost[s], calm[s])
    BY <1>2, <2>1
  <2> QED BY <1>1, <1>3, <2>2, SaysKeeps
<1>4. CASE daemonIs # "unlocked" /\ Say(s, {})
  <2>1. ListTrue(a, {}, calm[s])
    BY <1>1, <1>4 DEF ListTrue
  <2>2. AllTrue(a, {}, made[s], lost[s], calm[s])
    BY <1>2, <2>1
  <2> QED BY <1>1, <1>4, <2>2, SaysKeeps
<1>5. CASE Refuse(s)
  BY <1>1, <1>5, RefuseKeeps
<1> QED BY <1>3, <1>4, <1>5 DEF ListAndSearch

LEMMA CopyFieldKeeps ==
  ASSUME CmdInv, NEW s \in Shells, CopyField(s)
  PROVE  CmdInv'
<1> DEFINE a == asked[s]
           i == item[s]
           v == {<<i.name, FieldOf(a.flag, i)>>}
<1>1. /\ phase[s] = "item" /\ a.cmd = "copy" /\ a.flag \in Flags
      /\ UNCHANGED <<asked, item, made, lost, calm, daemonIs>>
  BY Underway DEF CopyField, IsLine
<1>2. CASE i # NoItem /\ FieldOf(a.flag, i) # "empty" /\ Say(s, v)
  <2>1. i \in ToSet(Items) /\ i.name \in a.query.within
    BY <1>1, <1>2, Underway DEF ReadsOn
  <2>2. FieldOf(a.flag, i) \in i.has
    BY <1>1, <1>2, FieldIsHeld
  <2>3. FieldTrue(a, v)
    BY <2>1, <2>2 DEF FieldTrue
  <2> HIDE DEF v
  <2>4. AllTrue(a, v, made[s], lost[s], calm[s])
    BY <1>1, <2>3 DEF AllTrue, ListTrue, CodeTrue, KeyTrue, PasswordTrue
  <2> QED BY <1>1, <1>2, <2>4, SaysKeeps
<1>3. CASE Refuse(s)
  BY <1>1, <1>3, RefuseKeeps
<1> QED BY <1>2, <1>3 DEF CopyField

LEMMA ExportKeyKeeps ==
  ASSUME CmdInv, NEW s \in Shells, ExportKey(s)
  PROVE  CmdInv'
<1> DEFINE a == asked[s]
           i == item[s]
<1>1. /\ phase[s] = "item" /\ a.cmd = "export"
      /\ UNCHANGED <<asked, item, made, lost, calm, daemonIs>>
  BY DEF ExportKey
<1>2. ASSUME i # NoItem, NEW v, v \subseteq KeypairFiles(i), Say(s, v) PROVE CmdInv'
  <2>1. i \in ToSet(Items) /\ i.name \in a.query.within
    BY <1>1, <1>2, Underway DEF ReadsOn
  <2>2. \A x \in v : x[1] = i.name /\ x[2] \in i.has
    BY <1>2 DEF KeypairFiles
  <2>3. FieldTrue(a, v)
    BY <2>1, <2>2 DEF FieldTrue
  <2>4. AllTrue(a, v, made[s], lost[s], calm[s])
    BY <1>1, <2>3 DEF AllTrue, ListTrue, CodeTrue, KeyTrue, PasswordTrue
  <2> QED BY <1>1, <1>2, <2>4, SaysKeeps
<1>3. CASE i # NoItem /\ Say(s, KeypairFiles(i))
  BY <1>2, <1>3
<1>4. ASSUME i # NoItem, NEW half, Say(s, KeypairFiles(i) \cap {<<i.name, half>>}) PROVE CmdInv'
  BY <1>2, <1>4
<1>5. CASE Refuse(s)
  BY <1>1, <1>5, RefuseKeeps
<1> QED BY <1>3, <1>4, <1>5 DEF ExportKey

LEMMA CodesTrue ==
  ASSUME CmdInv, NEW s \in Shells, asked[s].cmd = "totp", phase[s] # "done",
         NEW i, \/ i \in ToSet(Items) /\ i.name \in asked[s].query.within
                \/ i = [name |-> "query", seed |-> asked[s].query.seed],
         SayCode(s, Shows(i.name, i.seed)),
         UNCHANGED <<asked, item, made, lost, calm, daemonIs>>
  PROVE  CmdInv'
<1> DEFINE a == asked[s]
<1>1. CASE Refuse(s)
  BY <1>1, RefuseKeeps
<1>2. ASSUME NEW x \in Shows(i.name, i.seed), Say(s, {x}) PROVE CmdInv'
  <2>1. i.seed \in Seeds
    BY Underway, ItemAssumption DEF IsLine, IsQuery
  <2>2. /\ x.of = i.name /\ i.seed.reads
        /\ \A later \in 0..2 * i.seed.period :
             \A c \in GenerateTotp(i.seed, x.at + later) :
               c.step = x.code.step <=> later < x.code.ttl
    BY <1>2, <2>1, CodeLasts
  <2>3. i.name \in a.query.within \cup (IF a.query.seed.reads THEN {"query"} ELSE {})
    BY <2>2
  <2>4. CodeTrue(a, {x})
    BY <2>2, <2>3 DEF CodeTrue
  <2>5. AllTrue(a, {x}, made[s], lost[s], calm[s])
    BY <2>4 DEF AllTrue, ListTrue, FieldTrue, KeyTrue, PasswordTrue
  <2> QED BY <1>2, <2>5, SaysKeeps
<1> QED BY <1>1, <1>2 DEF SayCode

LEMMA ShowTotpKeeps ==
  ASSUME CmdInv, NEW s \in Shells, ShowTotp(s)
  PROVE  CmdInv'
<1> DEFINE i == item[s]
           q == asked[s].query
<1>1. /\ phase[s] = "item" /\ asked[s].cmd = "totp"
      /\ UNCHANGED <<asked, item, made, lost, calm, daemonIs>>
      /\ SayCode(s, IF i # NoItem THEN Shows(i.name, i.seed) ELSE Shows("query", q.seed))
  BY DEF ShowTotp
<1>2. CASE i # NoItem
  <2>1. i \in ToSet(Items) /\ i.name \in q.within
    BY <1>1, <1>2, Underway DEF ReadsOn
  <2>2. SayCode(s, Shows(i.name, i.seed))
    BY <1>1, <1>2
  <2> QED BY <1>1, <2>1, <2>2, CodesTrue
<1>3. CASE i = NoItem
  <2> DEFINE k == [name |-> "query", seed |-> q.seed]
  <2>1. SayCode(s, Shows("query", q.seed))
    BY <1>1, <1>3
  <2>2. k.name = "query" /\ k.seed = q.seed
    OBVIOUS
  <2>3. SayCode(s, Shows(k.name, k.seed))
    BY <2>1, <2>2
  <2> HIDE DEF k
  <2>4. k = [name |-> "query", seed |-> asked[s].query.seed]
    BY DEF k
  <2> QED BY <1>1, <2>3, <2>4, CodesTrue
<1> QED BY <1>2, <1>3

LEMMA TotpByDaemonKeeps ==
  ASSUME CmdInv, NEW s \in Shells, TotpByDaemon(s)
  PROVE  CmdInv'
<1> DEFINE i == FindItem("totp", asked[s].query)
<1>1. /\ phase[s] = "idle" /\ asked[s].cmd = "totp"
      /\ UNCHANGED <<asked, item, made, lost, calm, daemonIs>>
      /\ SayCode(s, IF daemonIs = "unlocked" /\ i # NoItem THEN Shows(i.name, i.seed) ELSE {})
  BY DEF TotpByDaemon
<1>2. CASE daemonIs = "unlocked" /\ i # NoItem
  <2>1. i \in ToSet(Items) /\ i.name \in asked[s].query.within
    BY <1>2, Underway, FoundIsNamed DEF IsLine
  <2>2. SayCode(s, Shows(i.name, i.seed))
    BY <1>1, <1>2
  <2> HIDE DEF i
  <2> QED BY <1>1, <2>1, <2>2, CodesTrue
<1>3. CASE ~(daemonIs = "unlocked" /\ i # NoItem)
  <2>1. Refuse(s)
    BY <1>1, <1>3 DEF SayCode
  <2> QED BY <1>1, <2>1, RefuseKeeps
<1> QED BY <1>2, <1>3

LEMMA GeneratePasswordKeeps ==
  ASSUME CmdInv, NEW s \in Shells, GeneratePassword(s)
  PROVE  CmdInv'
<1> DEFINE a == asked[s]
           o == a.options
<1>1. /\ phase[s] = "idle" /\ a.cmd = "generate" /\ IsOptions(o) /\ o.words \in Nat
      /\ UNCHANGED <<asked, item, made, lost, calm, daemonIs>>
  BY Underway DEF GeneratePassword, IsLine, IsOptions
<1>2. ASSUME NEW c, PasswordTrue(a, {c}), Say(s, {c}) PROVE CmdInv'
  <2>1. AllTrue(a, {c}, made[s], lost[s], calm[s])
    BY <1>1, <1>2 DEF AllTrue, ListTrue, FieldTrue, CodeTrue, KeyTrue
  <2> QED BY <1>1, <1>2, <2>1, SaysKeeps
<1>3. ASSUME o.words > 0, NEW c \in Passphrases(o, 2, 3), Say(s, {c}) PROVE CmdInv'
  <2>1. Len(c) = o.words
    BY <1>1, <1>3, PhraseAsAsked
  <2>2. PasswordTrue(a, {c})
    BY <1>1, <1>3, <2>1 DEF PasswordTrue
  <2> QED BY <1>2, <1>3, <2>2
<1>4. ASSUME ~(o.words > 0), NEW c \in Passwords(o, 3), Say(s, {c}) PROVE CmdInv'
  <2>1. PasswordTrue(a, {c})
    BY <1>1, <1>4, PasswordAsAsked DEF PasswordTrue
  <2> QED BY <1>2, <1>4, <2>1
<1>5. CASE Refuse(s)
  BY <1>1, <1>5, RefuseKeeps
<1>6. \/ \E c \in IF o.words > 0 THEN Passphrases(o, 2, 3) ELSE Passwords(o, 3) : Say(s, {c})
      \/ Refuse(s)
  BY DEF GeneratePassword
<1> QED BY <1>3, <1>4, <1>5, <1>6

(***************************************************************************)
(* The actions on the way                                                  *)
(***************************************************************************)
LEMMA ReadStatusKeeps ==
  ASSUME CmdInv, NEW s \in Shells, ReadStatus(s)
  PROVE  CmdInv'
<1>1. /\ phase[s] = "idle" /\ asked[s].cmd \in Reading /\ calm' = [calm EXCEPT ![s] = TRUE]
      /\ UNCHANGED <<asked, item, made, lost, daemonIs>>
      /\ \/ daemonIs = "unlocked" /\ CmdGoto(s, "asking") /\ UNCHANGED told
         \/ CmdGoto(s, "password") /\ UNCHANGED told
         \/ Refuse(s)
  BY DEF ReadStatus
<1>2. item[s] = NoItem /\ made[s] = 0 /\ ~lost[s] /\ ~told[s].ok
  BY <1>1, Underway DEF ReadsOn, CreatesOn, Before
<1>3. asked[s].cmd # "create"
  BY <1>1 DEF Reading
<1>4. ASSUME NEW p \in {"asking", "password", "done"}, p = "asking" => daemonIs = "unlocked",
             phase' = [phase EXCEPT ![s] = p], UNCHANGED told
      PROVE  CmdInv'
  <2>1. Turn(s, p, item[s], told[s], made[s], lost[s], TRUE, daemonIs)
    BY <1>1, <1>4, Underway DEF Turn
  <2>2. ReadsOn(asked[s], p, item[s], TRUE, daemonIs)
    BY <1>1, <1>2, <1>4 DEF ReadsOn
  <2>3. CreatesOn(asked[s], p, item[s], made[s], lost[s])
    BY <1>1, <1>2, <1>3, <1>4 DEF CreatesOn
  <2>4. SoFar(asked[s], p, item[s], told[s], made[s], lost[s], TRUE, daemonIs)
    BY <1>2, <2>2, <2>3, Unsaid
  <2>5. /\ p \in CmdPhases /\ item[s] \in AnyItem /\ made[s] \in 0..2
        /\ lost[s] \in BOOLEAN /\ TRUE \in BOOLEAN /\ daemonIs \in {daemonIs, "unlocked"}
    BY Underway DEF CmdPhases
  <2> QED BY <2>1, <2>4, <2>5, TurnKeeps
<1> QED BY <1>1, <1>4 DEF CmdGoto, Refuse

(* Steps that say nothing and leave the rest as it was.                    *)
LEMMA GoesOn ==
  ASSUME CmdInv, NEW s \in Shells, phase[s] # "done",
         NEW p \in CmdPhases, NEW i \in AnyItem, NEW d \in {daemonIs, "unlocked"},
         CmdGoto(s, p), item' = [item EXCEPT ![s] = i], daemonIs' = d,
         UNCHANGED <<asked, told, made, lost, calm>>,
         ReadsOn(asked[s], p, i, calm[s], d), CreatesOn(asked[s], p, i, made[s], lost[s])
  PROVE  CmdInv'
<1>1. Turn(s, p, i, told[s], made[s], lost[s], calm[s], d)
  BY Underway DEF Turn, CmdGoto
<1>2. ~told[s].ok
  BY Underway
<1>3. SoFar(asked[s], p, i, told[s], made[s], lost[s], calm[s], d)
  BY <1>2, Unsaid
<1>4. made[s] \in 0..2 /\ lost[s] \in BOOLEAN /\ calm[s] \in BOOLEAN
  BY Underway
<1> QED BY <1>1, <1>3, <1>4, TurnKeeps

LEMMA GetItemKeeps ==
  ASSUME CmdInv, NEW s \in Shells, GetItem(s)
  PROVE  CmdInv'
<1> DEFINE i == IF daemonIs = "unlocked" THEN FindItem(asked[s].cmd, asked[s].query) ELSE NoItem
<1>1. /\ phase[s] = "asking" /\ asked[s].cmd \in {"copy", "totp", "export"}
      /\ item' = [item EXCEPT ![s] = i] /\ CmdGoto(s, "item")
      /\ UNCHANGED <<asked, told, made, lost, calm, daemonIs>>
  BY DEF GetItem
<1>2. i # NoItem => i \in ToSet(Items) /\ i.name \in asked[s].query.within
  BY Underway, FoundIsNamed DEF IsLine
<1> HIDE DEF i
<1>3. i \in AnyItem /\ "item" \in CmdPhases /\ daemonIs \in {daemonIs, "unlocked"}
  BY <1>2 DEF AnyItem, CmdPhases
<1>4. ReadsOn(asked[s], "item", i, calm[s], daemonIs)
  BY <1>1, <1>2 DEF ReadsOn, Before
<1>5. CreatesOn(asked[s], "item", i, made[s], lost[s])
  BY DEF CreatesOn
<1> QED BY <1>1, <1>3, <1>4, <1>5, GoesOn

LEMMA ReadLocallyKeeps ==
  ASSUME CmdInv, NEW s \in Shells, ReadLocally(s)
  PROVE  CmdInv'
<1> DEFINE i == FindLocally(asked[s].cmd, asked[s].query)
<1>1. /\ phase[s] = "local" /\ asked[s].cmd \in {"copy", "totp", "export"}
      /\ item' = [item EXCEPT ![s] = i] /\ CmdGoto(s, "item")
      /\ UNCHANGED <<asked, told, made, lost, calm, daemonIs>>
  BY DEF ReadLocally
<1>2. i # NoItem => i \in ToSet(Items) /\ i.name \in asked[s].query.within
  BY Underway, FoundIsNamed DEF IsLine
<1> HIDE DEF i
<1>3. i \in AnyItem /\ "item" \in CmdPhases /\ daemonIs \in {daemonIs, "unlocked"}
  BY <1>2 DEF AnyItem, CmdPhases
<1>4. ReadsOn(asked[s], "item", i, calm[s], daemonIs)
  BY <1>1, <1>2 DEF ReadsOn, Before
<1>5. CreatesOn(asked[s], "item", i, made[s], lost[s])
  BY DEF CreatesOn
<1> QED BY <1>1, <1>3, <1>4, <1>5, GoesOn

LEMMA EnsureUnlockedKeeps ==
  ASSUME CmdInv, NEW s \in Shells, EnsureUnlockedUserKey(s)
  PROVE  CmdInv'
<1>1. phase[s] = "password" /\ UNCHANGED <<asked, item, made, lost, calm>>
  BY DEF EnsureUnlockedUserKey
<1>2. item' = [item EXCEPT ![s] = item[s]] /\ item[s] \in AnyItem
  BY <1>1, Underway
<1>3. CASE CmdGoto(s, "local") /\ UNCHANGED told /\ daemonIs' \in {daemonIs, "unlocked"}
  <2>1. ReadsOn(asked[s], "local", item[s], calm[s], daemonIs')
    BY <1>1, Underway DEF ReadsOn, Before
  <2>2. CreatesOn(asked[s], "local", item[s], made[s], lost[s])
    BY <1>1, Underway DEF CreatesOn
  <2>3. "local" \in CmdPhases
    BY DEF CmdPhases
  <2> QED BY <1>1, <1>2, <1>3, <2>1, <2>2, <2>3, GoesOn
<1>4. CASE asked[s].cmd = "totp" /\ CmdGoto(s, "item") /\ UNCHANGED <<told, daemonIs>>
  <2>1. ReadsOn(asked[s], "item", item[s], calm[s], daemonIs)
    BY <1>1, <1>4, Underway DEF ReadsOn, Before, Reading
  <2>2. CreatesOn(asked[s], "item", item[s], made[s], lost[s])
    BY DEF CreatesOn
  <2>3. "item" \in CmdPhases /\ daemonIs \in {daemonIs, "unlocked"}
    BY DEF CmdPhases
  <2> QED BY <1>1, <1>2, <1>4, <2>1, <2>2, <2>3, GoesOn
<1>5. CASE Refuse(s) /\ UNCHANGED daemonIs
  BY <1>1, <1>5, RefuseKeeps
<1>6. daemonIs' \in (IF daemonIs = "locked" THEN {"locked", "unlocked"} ELSE {daemonIs})
        => daemonIs' \in {daemonIs, "unlocked"}
  OBVIOUS
<1> QED BY <1>3, <1>4, <1>5, <1>6 DEF EnsureUnlockedUserKey

LEMMA KeyAtHand ==
  ASSUME CmdInv, NEW s \in Shells, phase[s] = "idle", asked[s].cmd \in {"create", "import"},
         NEW public \in {"derived", "given"}, asked[s].cmd = "create" => public = "derived",
         CmdGoto(s, "key"), item' = [item EXCEPT ![s] = Pair(public)],
         UNCHANGED <<asked, told, made, lost, calm, daemonIs>>
  PROVE  CmdInv'
<1> DEFINE i == Pair(public)
<1>1. i \in AnyItem /\ "key" \in CmdPhases /\ daemonIs \in {daemonIs, "unlocked"}
  BY DEF AnyItem, Pairs, CmdPhases
<1>2. asked[s].cmd = "create" => i = Pair("derived")
  OBVIOUS
<1>3. item' = [item EXCEPT ![s] = i]
  OBVIOUS
<1> HIDE DEF i
<1>4. ReadsOn(asked[s], "key", i, calm[s], daemonIs)
  BY DEF ReadsOn, Before
<1>5. CreatesOn(asked[s], "key", i, made[s], lost[s])
  BY <1>2, Underway DEF CreatesOn
<1> QED BY <1>1, <1>3, <1>4, <1>5, GoesOn

LEMMA MakeKeyKeeps ==
  ASSUME CmdInv, NEW s \in Shells, MakeKey(s)
  PROVE  CmdInv'
<1>1. /\ phase[s] = "idle" /\ asked[s].cmd \in {"create", "import"}
      /\ UNCHANGED <<asked, told, made, lost, calm, daemonIs>>
  BY DEF MakeKey
<1>2. CASE Refuse(s) /\ UNCHANGED item
  BY <1>1, <1>2, RefuseKeeps
<1>3. CASE CmdGoto(s, "key") /\ item' = [item EXCEPT ![s] = Pair("derived")] /\ UNCHANGED told
  BY <1>1, <1>3, KeyAtHand
<1> QED BY <1>2, <1>3 DEF MakeKey

LEMMA ReadKeyKeeps ==
  ASSUME CmdInv, NEW s \in Shells, ReadKey(s)
  PROVE  CmdInv'
<1>1. /\ phase[s] = "idle" /\ asked[s].cmd = "import"
      /\ UNCHANGED <<asked, told, made, lost, calm, daemonIs>>
  BY DEF ReadKey
<1>2. CASE Refuse(s) /\ UNCHANGED item
  BY <1>1, <1>2, RefuseKeeps
<1>3. ASSUME CmdGoto(s, "key"), NEW public \in {"derived", "given"},
             item' = [item EXCEPT ![s] = Pair(public)]
      PROVE  CmdInv'
  BY <1>1, <1>3, KeyAtHand
<1> QED BY <1>2, <1>3 DEF ReadKey

(* A request that creates: m keys on the server now, l an answer was lost. *)
LEMMA Created ==
  ASSUME CmdInv, NEW s \in Shells, NEW created \in 0..1, NEW ok \in BOOLEAN, Create(s, created, ok),
         made[s] \in 0..1
  PROVE  /\ made' = [made EXCEPT ![s] = made[s] + created] /\ made[s] + created \in 0..2
         /\ lost' = [lost EXCEPT ![s] = lost[s] \/ (created = 1 /\ ~ok)]
<1>1. made' = [made EXCEPT ![s] = made[s] + created]
  BY DEF Create
<1>2. lost' = [lost EXCEPT ![s] = lost[s] \/ (created = 1 /\ ~ok)]
  BY DEF Create
<1> QED BY <1>1, <1>2

LEMMA CreatedSays ==
  ASSUME CmdInv, NEW s \in Shells, asked[s].cmd \in {"create", "import"},
         asked[s].cmd = "create" => item[s] = Pair("derived"),
         made[s] \in 0..1, lost[s] <=> made[s] = 1,
         Create(s, 1, TRUE), Say(s, {item[s]}), UNCHANGED <<asked, item, calm, daemonIs>>
  PROVE  CmdInv'
<1> DEFINE m == made[s] + 1
           v == {item[s]}
<1>1. /\ made' = [made EXCEPT ![s] = m] /\ m \in 0..2
      /\ lost' = [lost EXCEPT ![s] = lost[s]]
  <2>1. (lost[s] \/ (1 = 1 /\ ~TRUE)) = lost[s]
    BY Underway
  <2>2. 1 \in 0..1 /\ TRUE \in BOOLEAN
    OBVIOUS
  <2> QED BY <2>1, <2>2, Created
<1>2. Turn(s, "done", item[s], [ok |-> TRUE, value |-> v], m, lost[s], calm[s], daemonIs)
  BY <1>1, Underway DEF Turn, Say, CmdGoto
<1>3. KeyTrue(asked[s], v, m, lost[s])
  BY DEF KeyTrue
<1> HIDE DEF v, m
<1>4. AllTrue(asked[s], v, m, lost[s], calm[s])
  BY <1>3 DEF AllTrue, ListTrue, FieldTrue, CodeTrue, PasswordTrue
<1>5. SoFar(asked[s], "done", item[s], [ok |-> TRUE, value |-> v], m, lost[s], calm[s], daemonIs)
  BY <1>4, Answers
<1>6. /\ "done" \in CmdPhases /\ item[s] \in AnyItem
      /\ lost[s] \in BOOLEAN /\ calm[s] \in BOOLEAN /\ daemonIs \in {daemonIs, "unlocked"}
  BY Underway DEF CmdPhases
<1> QED BY <1>1, <1>2, <1>5, <1>6, TurnKeeps

(* A creation that is not heard of: the key is there if its answer was lost. *)
LEMMA CreatedUnheard ==
  ASSUME CmdInv, NEW s \in Shells, phase[s] # "done", made[s] \in 0..1,
         NEW created \in 0..1, Create(s, created, FALSE),
         NEW p \in CmdPhases, CmdGoto(s, p), UNCHANGED <<asked, told, item, calm, daemonIs>>,
         ReadsOn(asked[s], p, item[s], calm[s], daemonIs),
         CreatesOn(asked[s], p, item[s], made[s] + created, lost[s] \/ created = 1)
  PROVE  CmdInv'
<1> DEFINE m == made[s] + created
           l == lost[s] \/ created = 1
<1>1. made' = [made EXCEPT ![s] = m] /\ m \in 0..2 /\ lost' = [lost EXCEPT ![s] = l]
  <2>1. (lost[s] \/ (created = 1 /\ ~FALSE)) = l
    OBVIOUS
  <2> QED BY <2>1, Created
<1>2. l \in BOOLEAN
  OBVIOUS
<1> HIDE DEF m, l
<1>3. Turn(s, p, item[s], told[s], m, l, calm[s], daemonIs)
  BY <1>1, Underway DEF Turn, CmdGoto
<1>4. ~told[s].ok
  BY Underway
<1>5. SoFar(asked[s], p, item[s], told[s], m, l, calm[s], daemonIs)
  BY <1>4, Unsaid DEF m, l
<1>6. item[s] \in AnyItem /\ calm[s] \in BOOLEAN /\ daemonIs \in {daemonIs, "unlocked"}
  BY Underway
<1> QED BY <1>1, <1>2, <1>3, <1>5, <1>6, TurnKeeps

LEMMA CreateByDaemonKeeps ==
  ASSUME CmdInv, NEW s \in Shells, CreateByDaemon(s)
  PROVE  CmdInv'
<1>1. phase[s] = "key" /\ UNCHANGED <<asked, item, calm, daemonIs>>
  BY DEF CreateByDaemon
<1>2. /\ asked[s].cmd \in {"create", "import"} /\ made[s] = 0 /\ ~lost[s]
      /\ made[s] \in 0..1 /\ (lost[s] <=> made[s] = 1)
      /\ asked[s].cmd = "create" => item[s] = Pair("derived")
  BY <1>1, Underway DEF CreatesOn
<1>3. CASE Create(s, 1, TRUE) /\ Say(s, {item[s]})
  BY <1>1, <1>2, <1>3, CreatedSays
<1>4. ASSUME NEW created \in 0..1, Create(s, created, FALSE), CmdGoto(s, "password"), UNCHANGED told
      PROVE  CmdInv'
  <2>1. ReadsOn(asked[s], "password", item[s], calm[s], daemonIs)
    BY <1>2 DEF ReadsOn, Reading
  <2>2. CreatesOn(asked[s], "password", item[s], made[s] + created, lost[s] \/ created = 1)
    BY <1>2 DEF CreatesOn
  <2>3. "password" \in CmdPhases /\ made[s] \in 0..1
    BY <1>2 DEF CmdPhases
  <2> QED BY <1>1, <1>4, <2>1, <2>2, <2>3, CreatedUnheard
<1>5. 0 \in 0..1 /\ 1 \in 0..1
  OBVIOUS
<1> QED BY <1>3, <1>4, <1>5 DEF CreateByDaemon

LEMMA CreateLocallyKeeps ==
  ASSUME CmdInv, NEW s \in Shells, CreateLocally(s)
  PROVE  CmdInv'
<1>1. /\ phase[s] = "local" /\ asked[s].cmd \in {"create", "import"}
      /\ UNCHANGED <<asked, item, calm, daemonIs>>
  BY DEF CreateLocally
<1>2. /\ made[s] \in 0..1 /\ (lost[s] <=> made[s] = 1)
      /\ asked[s].cmd = "create" => item[s] = Pair("derived")
  BY <1>1, Underway DEF CreatesOn
<1>3. CASE Create(s, 1, TRUE) /\ Say(s, {item[s]})
  BY <1>1, <1>2, <1>3, CreatedSays
<1>4. ASSUME NEW created \in 0..1, Create(s, created, FALSE), Refuse(s) PROVE CmdInv'
  <2>1. CmdGoto(s, "done") /\ UNCHANGED told /\ "done" \in CmdPhases
    BY <1>4 DEF Refuse, CmdPhases
  <2>2. /\ ReadsOn(asked[s], "done", item[s], calm[s], daemonIs)
        /\ CreatesOn(asked[s], "done", item[s], made[s] + created, lost[s] \/ created = 1)
    BY Ended
  <2>3. phase[s] # "done"
    BY <1>1
  <2> QED BY <1>1, <1>2, <1>4, <2>1, <2>2, <2>3, CreatedUnheard
<1>5. 0 \in 0..1 /\ 1 \in 0..1
  OBVIOUS
<1> QED BY <1>3, <1>4, <1>5 DEF CreateLocally

(***************************************************************************)
(* The commands and the daemon, whatever is asked                          *)
(***************************************************************************)
LEMMA CmdInitInv ==
  ASSUME NEW lines, \A l \in lines : IsLine(l), CmdInit(lines)
  PROVE  CmdInv
<1>1. /\ asked \in [Shells -> lines]
      /\ phase = [s \in Shells |-> "idle"] /\ item = [s \in Shells |-> NoItem]
      /\ told = [s \in Shells |-> Silence] /\ made = [s \in Shells |-> 0]
      /\ lost = [s \in Shells |-> FALSE] /\ calm = [s \in Shells |-> TRUE]
  BY DEF CmdInit
<1>2. Lined
  BY <1>1 DEF Lined, CmdPhases, AnyItem
<1>3. ASSUME NEW s \in Shells
      PROVE  SoFar(asked[s], phase[s], item[s], told[s], made[s], lost[s], calm[s], daemonIs)
  <2>1. phase[s] = "idle" /\ item[s] = NoItem /\ ~told[s].ok /\ made[s] = 0 /\ ~lost[s]
    BY <1>1 DEF Silence
  <2>2. ReadsOn(asked[s], phase[s], item[s], calm[s], daemonIs)
    BY <2>1 DEF ReadsOn
  <2>3. CreatesOn(asked[s], phase[s], item[s], made[s], lost[s])
    BY <2>1 DEF CreatesOn
  <2> QED BY <2>1, <2>2, <2>3, Unsaid
<1> QED BY <1>2, <1>3 DEF CmdInv

LEMMA CmdKeeps == CmdInv /\ [CmdNext]_cmdVars => CmdInv'
<1>1. CASE UNCHANGED cmdVars
  BY <1>1 DEF cmdVars, CmdInv, Lined
<1>2. ASSUME CmdInv, NEW s \in Shells, CmdStep(s) PROVE CmdInv'
  BY <1>2, ListAndSearchKeeps, CopyFieldKeeps, ExportKeyKeeps, ShowTotpKeeps, TotpByDaemonKeeps,
     GeneratePasswordKeeps, ReadStatusKeeps, GetItemKeeps, ReadLocallyKeeps, EnsureUnlockedKeeps,
     MakeKeyKeeps, ReadKeyKeeps, CreateByDaemonKeeps, CreateLocallyKeeps
  DEF CmdStep
<1> QED BY <1>1, <1>2, DaemonBecomesKeeps DEF CmdNext

(* A command that reports success did what it says, whatever the vault, the*)
(* clock, the processes and their lines are.                               *)
CmdSpec(lines) == CmdInit(lines) /\ [][CmdNext]_cmdVars
THEOREM SuccessIsMeant ==
  ASSUME NEW lines, \A l \in lines : IsLine(l)
  PROVE  CmdSpec(lines) => []SuccessIsTrue
<1>1. CmdInit(lines) => CmdInv
  BY CmdInitInv
<1> QED BY <1>1, CmdKeeps, AllTrueSays, PTL DEF CmdSpec

-----------------------------------------------------------------------------
(* The clipboard: a timer is set once by each copy of a secret, and runs    *)
(* until it is the first to end.                                            *)
ClipSpec == ClipInit([Copiers -> Uses]) /\ [][ClipNext]_clipVars
Timed(c) == use[c].does = "secret" /\ step[c] = "timed"
ClipInv ==
  /\ use \in [Copiers -> Uses] /\ step = [c \in Copiers |-> step[c]]
  /\ clip \in Copiers \cup {Empty} /\ genFile \in {0, NextGeneration}
  /\ timers \in Seq(Copiers)
  /\ \A i \in 1..Len(timers) : Timed(timers[i])
  /\ \A i, j \in 1..Len(timers) : timers[i] = timers[j] => i = j
  /\ \A c \in Copiers : step[c] \in {"copied", "stamped"} => use[c].does = "secret"

LEMMA ClipGoes ==
  ASSUME ClipInv, NEW c \in Copiers, NEW s, ClipGoto(c, s),
         UNCHANGED <<use, timers>>, step[c] # "timed",
         clip' \in Copiers \cup {Empty}, genFile' \in {0, NextGeneration},
         s \in {"copied", "stamped"} => use[c].does = "secret"
  PROVE  ClipInv'
<1>1. /\ step' = [d \in Copiers |-> step'[d]] /\ step'[c] = s
      /\ \A d \in Copiers \ {c} : step'[d] = step[d]
  BY DEF ClipInv, ClipGoto
<1>2. \A i \in 1..Len(timers) : timers[i] \in Copiers \ {c}
  BY DEF ClipInv, Timed
<1>3. \A i \in 1..Len(timers) : Timed(timers[i])'
  BY <1>1, <1>2 DEF ClipInv, Timed
<1> QED BY <1>1, <1>3 DEF ClipInv

LEMMA TimerSet == ASSUME ClipInv, NEW c \in Copiers, SetTimer(c) PROVE ClipInv'
<1>1. /\ step[c] = "stamped" /\ timers' = Append(timers, c) /\ step' = [step EXCEPT ![c] = "timed"]
      /\ UNCHANGED <<use, clip, genFile>>
  BY DEF SetTimer, ClipGoto
<1>2. /\ step' = [d \in Copiers |-> step'[d]] /\ step'[c] = "timed"
      /\ \A d \in Copiers \ {c} : step'[d] = step[d]
  BY <1>1 DEF ClipInv
<1>3. /\ timers' \in Seq(Copiers) /\ Len(timers') = Len(timers) + 1
      /\ timers'[Len(timers) + 1] = c
      /\ \A i \in 1..Len(timers) : timers'[i] = timers[i] /\ timers[i] \in Copiers \ {c}
  BY <1>1 DEF ClipInv, Timed
<1>4. ASSUME NEW i \in 1..Len(timers') PROVE Timed(timers[i])'
  <2>1. CASE i = Len(timers) + 1
    BY <1>1, <1>2, <1>3, <2>1 DEF ClipInv, Timed
  <2>2. CASE i \in 1..Len(timers)
    BY <1>1, <1>2, <1>3, <2>2 DEF ClipInv, Timed
  <2> QED BY <1>3, <2>1, <2>2 DEF ClipInv
<1>5. ASSUME NEW i \in 1..Len(timers'), NEW j \in 1..Len(timers'), timers'[i] = timers'[j] PROVE i = j
  <2>1. i \in 1..Len(timers) \/ i = Len(timers) + 1
    BY <1>3 DEF ClipInv
  <2>2. j \in 1..Len(timers) \/ j = Len(timers) + 1
    BY <1>3 DEF ClipInv
  <2> QED BY <1>3, <1>5, <2>1, <2>2 DEF ClipInv
<1>6. \A d \in Copiers : step'[d] \in {"copied", "stamped"} => use'[d].does = "secret"
  BY <1>1, <1>2 DEF ClipInv
<1> QED BY <1>1, <1>2, <1>3, <1>4, <1>5, <1>6 DEF ClipInv

LEMMA TimerOut == ASSUME ClipInv, NEW c \in Copiers, TimerEnds(c) PROVE ClipInv'
<1>1. /\ timers # <<>> /\ c = timers[1] /\ timers' = Tail(timers)
      /\ UNCHANGED <<use, clip, genFile>>
  BY DEF TimerEnds, ClipInv
<1>2. PICK s \in {"ended", "done"} : step' = [step EXCEPT ![c] = s]
  BY DEF TimerEnds, ClipGoto
<1>3. /\ step' = [d \in Copiers |-> step'[d]] /\ step'[c] = s
      /\ \A d \in Copiers \ {c} : step'[d] = step[d]
  BY <1>2 DEF ClipInv
<1>4. /\ timers' \in Seq(Copiers) /\ Len(timers') = Len(timers) - 1 /\ Len(timers) \in Nat
      /\ \A i \in 1..Len(timers') : timers'[i] = timers[i + 1]
  BY <1>1 DEF ClipInv
<1>5. ASSUME NEW i \in 1..Len(timers') PROVE timers'[i] \in Copiers \ {c} /\ Timed(timers'[i])
  <2>1. i + 1 \in 1..Len(timers) /\ i + 1 # 1 /\ 1 \in 1..Len(timers)
    BY <1>4
  <2> QED BY <1>1, <1>4, <2>1 DEF ClipInv
<1>6. ASSUME NEW i \in 1..Len(timers') PROVE Timed(timers[i])'
  BY <1>1, <1>3, <1>5 DEF Timed
<1>7. ASSUME NEW i \in 1..Len(timers'), NEW j \in 1..Len(timers'), timers'[i] = timers'[j] PROVE i = j
  <2>0. \A n \in 1..Len(timers') : n + 1 \in 1..Len(timers)
    BY <1>4
  <2>1. i + 1 \in 1..Len(timers) /\ j + 1 \in 1..Len(timers) /\ timers[i + 1] = timers[j + 1]
    BY <1>4, <1>7, <2>0
  <2>2. i + 1 = j + 1
    BY <2>1 DEF ClipInv
  <2> QED BY <2>2
<1>8. \A d \in Copiers : step'[d] \in {"copied", "stamped"} => use'[d].does = "secret"
  BY <1>1, <1>3 DEF ClipInv
<1> QED BY <1>1, <1>3, <1>4, <1>6, <1>7, <1>8 DEF ClipInv

(* The clipboard keeps its types, and only secrets whose copy set a timer   *)
(* have one.                                                                *)
THEOREM ClipTyped == ClipSpec => []ClipTypeOK
<1>1. ClipInit([Copiers -> Uses]) => ClipInv
  BY DEF ClipInit, ClipInv, NextGeneration, FreshGeneration
<1>2. ClipInv /\ [ClipNext]_clipVars => ClipInv'
  <2> SUFFICES ASSUME ClipInv, [ClipNext]_clipVars PROVE ClipInv'
    OBVIOUS
  <2>1. CASE UNCHANGED clipVars
    BY <2>1 DEF clipVars, ClipInv, Timed
  <2>2. ASSUME NEW c \in Copiers, ClipStep(c) PROVE ClipInv'
    <3>0. clip \in Copiers \cup {Empty} /\ genFile \in {0, NextGeneration}
      BY DEF ClipInv
    <3>1. CASE Copy(c)
      <4>1. /\ step[c] = "idle" /\ clip' \in {clip, c} /\ UNCHANGED <<use, genFile, timers>>
            /\ \E s : ClipGoto(c, s) /\ (s \in {"copied", "stamped"} => use[c].does = "secret")
        BY <3>1 DEF Copy
      <4> QED BY <3>0, <4>1, ClipGoes
    <3>2. CASE StampCopy(c)
      <4>1. use[c].does = "secret"
        BY <3>2 DEF StampCopy, ClipInv
      <4> QED BY <3>0, <3>2, <4>1, ClipGoes DEF StampCopy, SaveGeneration
    <3>3. CASE StampClear(c)
      BY <3>0, <3>3, ClipGoes DEF StampClear, SaveGeneration
    <3>4. CASE ClearClip(c)
      <4>1. /\ \/ step[c] = "clearing"
               \/ step[c] = "ended"
            /\ UNCHANGED <<use, genFile, timers>> /\ clip' \in {Empty, clip}
        BY <3>4 DEF ClearClip
      <4>2. PICK s \in {"done", "failed"} : ClipGoto(c, s)
        BY <3>4 DEF ClearClip
      <4> QED BY <3>0, <4>1, <4>2, ClipGoes
    <3> QED BY <2>2, <3>1, <3>2, <3>3, <3>4, TimerSet, TimerOut DEF ClipStep
  <2> QED BY <2>1, <2>2 DEF ClipNext
<1>3. ClipInv => ClipTypeOK
  <2> SUFFICES ASSUME ClipInv PROVE ClipTypeOK
    OBVIOUS
  <2>1. \A i \in DOMAIN timers : i \in 1..Len(timers)
    BY DEF ClipInv
  <2>2. \A i \in 1..Len(timers) : timers[i] \in Copiers
    BY DEF ClipInv
  <2>3. ToSet(timers) \subseteq {c \in Copiers : use[c].does = "secret" /\ step[c] = "timed"}
    BY <2>1, <2>2 DEF ClipInv, Timed, ToSet
  <2> QED BY <2>3 DEF ClipInv, ClipTypeOK
<1> QED BY <1>1, <1>2, <1>3, PTL DEF ClipSpec

-----------------------------------------------------------------------------
(* Attachments, whatever lies at any path and whether copies succeed or not.*)
AnyFile == [of : Attachments, form : {"plain", "cipher", "json", "empty"}] \cup {NoFile}
AttAnySpec ==
  /\ AttInit([att : Attachments, mode : Modes], [Paths -> AnyFile], BOOLEAN)
  /\ [][AttNext]_attVars
AttFiled ==
  /\ want \in [Askers -> [att : Attachments, mode : Modes]]
  /\ DOMAIN stage = Askers /\ DOMAIN bytes = Askers
  /\ files \in [Paths -> AnyFile]
  /\ clearing => vaultLocked
  /\ \A k \in Askers : stage[k] = "key" => IsFetched(bytes[k], want[k].att)
  /\ \A k \in Askers : stage[k] = "write" => bytes[k] \in AnyFile

LEMMA FilesGo ==
  ASSUME AttFiled, NEW k \in Askers, UNCHANGED <<want, vaultLocked, clearing>>,
         NEW s, stage' = [stage EXCEPT ![k] = s], files' \in [Paths -> AnyFile],
         \/ UNCHANGED bytes \/ \E b : bytes' = [bytes EXCEPT ![k] = b],
         s = "key" => IsFetched(bytes'[k], want[k].att),
         s = "write" => bytes'[k] \in AnyFile
  PROVE  AttFiled'
  BY DEF AttFiled

THEOREM AttachmentsTyped == AttAnySpec => []AttTypeOK
<1>1. AttInit([att : Attachments, mode : Modes], [Paths -> AnyFile], BOOLEAN) => AttFiled
  BY DEF AttInit, AttFiled
<1>2. AttFiled /\ [AttNext]_attVars => AttFiled'
  <2> SUFFICES ASSUME AttFiled, [AttNext]_attVars PROVE AttFiled'
    OBVIOUS
  <2>1. CASE UNCHANGED attVars
    BY <2>1 DEF attVars, AttFiled
  <2>2. ASSUME NEW k \in Askers, GetAttachment(k) PROVE AttFiled'
    <3> USE DEF AttGoto, Hold, NoLock
    <3>1. /\ want[k].att \in Attachments /\ files \in [Paths -> AnyFile]
          /\ DOMAIN stage = Askers /\ DOMAIN bytes = Askers
      BY DEF AttFiled
    <3>2. /\ Preview(want[k].att) \in Paths /\ Dest(k) \in Paths /\ NoFile \in AnyFile
          /\ files[Preview(want[k].att)] \in AnyFile
      BY <3>1 DEF Paths, Previews, Dest, AnyFile
    <3>3. CASE AskFor(k) \/ SkipCache(k) \/ Fetch(k) \/ Receive(k) \/ FetchBlob(k)
      <4>1. /\ UNCHANGED <<want, files, vaultLocked, clearing>>
            /\ stage' = [stage EXCEPT ![k] = stage'[k]] /\ stage'[k] # "write"
            /\ \/ UNCHANGED bytes \/ \E b : bytes' = [bytes EXCEPT ![k] = b]
        BY <3>1, <3>3 DEF AskFor, SkipCache, Fetch, Receive, FetchBlob, Body
      <4>2. stage'[k] = "key" => IsFetched(bytes'[k], want[k].att)
        BY <3>1, <3>3 DEF AskFor, SkipCache, Fetch, Receive, FetchBlob, Body, IsFetched
      <4> QED BY <3>1, <4>1, <4>2, FilesGo
    <3>4. CASE CopyPreview(k)
      <4>1. files' \in [Paths -> AnyFile] /\ UNCHANGED <<want, vaultLocked, clearing, bytes>>
            /\ stage' = [stage EXCEPT ![k] = "copied"]
        BY <3>1, <3>2, <3>4 DEF CopyPreview
      <4> QED BY <4>1, FilesGo
    <3>5. CASE ReadCached(k)
      <4>1. files' \in [Paths -> AnyFile]
        BY <3>1, <3>2, <3>5 DEF ReadCached
      <4>2. /\ UNCHANGED <<want, vaultLocked, clearing>>
            /\ \/ UNCHANGED bytes \/ \E b : bytes' = [bytes EXCEPT ![k] = b]
            /\ \E s \in {"answer", "get"} : stage' = [stage EXCEPT ![k] = s]
        BY <3>5 DEF ReadCached
      <4> QED BY <4>1, <4>2, FilesGo
    <3>6. CASE DecryptFile(k)
      <4>1. /\ Content(want[k].att, "plain") \in AnyFile
            /\ Content(want[k].att, "empty") \in AnyFile
        BY <3>1 DEF Content, AnyFile
      <4>2. /\ UNCHANGED <<want, files, vaultLocked, clearing>>
            /\ \/ stage' = [stage EXCEPT ![k] = "failed"] /\ bytes' = bytes
               \/ /\ stage' = [stage EXCEPT ![k] = "write"]
                  /\ \E f \in {"plain", "empty"} :
                       bytes' = [bytes EXCEPT ![k] = Content(want[k].att, f)]
        <5>1. IsFetched(bytes[k], want[k].att)
          BY <3>6 DEF DecryptFile, AttFiled
        <5>2. bytes[k].form = "empty" => bytes[k] = Content(want[k].att, "empty")
          BY <5>1 DEF IsFetched, Content
        <5> QED BY <3>6, <5>2 DEF DecryptFile
      <4> QED BY <3>1, <4>1, <4>2, FilesGo
    <3>7. CASE WriteFile(k)
      <4>1. bytes[k] \in AnyFile
        BY <3>7 DEF WriteFile, AttFiled
      <4>2. files' \in [Paths -> AnyFile]
        BY <3>1, <3>2, <3>7, <4>1 DEF WriteFile
      <4>3. /\ UNCHANGED <<want, bytes, vaultLocked, clearing>>
            /\ \E s \in {"answer", "failed"} : stage' = [stage EXCEPT ![k] = s]
        BY <3>7 DEF WriteFile
      <4> QED BY <4>2, <4>3, FilesGo
    <3>8. CASE BuildAttachmentResponse(k)
      BY <3>1, <3>8, FilesGo DEF BuildAttachmentResponse
    <3> QED BY <2>2, <3>3, <3>4, <3>5, <3>6, <3>7, <3>8 DEF GetAttachment
  <2>3. CASE DropKey \/ UnlockAgain
    BY <2>3 DEF DropKey, UnlockAgain, AttFiled
  <2>4. CASE ClearPreviewAttachments
    BY <2>4 DEF ClearPreviewAttachments, AttFiled, AnyFile
  <2> QED BY <2>1, <2>2, <2>3, <2>4 DEF AttNext
<1>3. AttFiled => AttTypeOK
  BY DEF AttFiled, AttTypeOK, AnyFile
<1> QED BY <1>1, <1>2, <1>3, PTL DEF AttAnySpec

(* Addresses.                                                               *)
ClientNames == {"plugin", "omawarden"}
LEMMA OnesTyped ==
  ASSUME EndpointTypeOK, DOMAIN settings' = DOMAIN settings, DOMAIN kept' = {"server", "identity"},
         sent' \in {Nothing, sent}
  PROVE  EndpointTypeOK'
  BY DEF EndpointTypeOK, Nothing
LEMMA SentTyped ==
  ASSUME EndpointTypeOK, DOMAIN settings' = DOMAIN settings, DOMAIN kept' = {"server", "identity"},
         NEW what \in Requests, NEW to, NEW target, NEW name \in ClientNames,
         sent' = Sent(what, to, target, name)
  PROVE  EndpointTypeOK'
<1>1. CASE sent' = Nothing
  BY <1>1, OnesTyped
<1>2. CASE sent' = [what |-> what, to |-> to, cert |-> Offered(target), name |-> name]
  BY <1>2 DEF EndpointTypeOK, Requests, ClientNames
<1> QED BY <1>1, <1>2 DEF Sent

(* Requests are of the kinds and by the clients the code knows, whatever    *)
(* the addresses, the certificates and the servers' answers.                *)
THEOREM RequestsTyped ==
  ASSUME NEW servers, NEW certs, NEW storages
  PROVE  EndpointSpec(servers, certs, storages) => []EndpointTypeOK
<1>1. EndpointInit(Configs(servers, certs)) => EndpointTypeOK
  BY DEF EndpointInit, Configs, EndpointTypeOK, Nothing
<1>2. EndpointTypeOK /\ [EndpointNext(servers, certs, storages)]_endpointVars => EndpointTypeOK'
  <2> SUFFICES ASSUME EndpointTypeOK, [EndpointNext(servers, certs, storages)]_endpointVars
               PROVE  EndpointTypeOK'
    OBVIOUS
  <2>0. /\ "login" \in Requests /\ "sync" \in Requests /\ "renew" \in Requests /\ "download" \in Requests
        /\ "stored" \in Requests /\ "blob" \in Requests
        /\ "health" \in Requests /\ "omawarden" \in ClientNames
        /\ \A terminal, m : ClientName(terminal, m) \in ClientNames
    BY DEF Requests, ClientNames, ClientName
  <2>2. DOMAIN kept = {"server", "identity"}
    BY DEF EndpointTypeOK
  <2>3. CASE UNCHANGED endpointVars
    BY <2>2, <2>3, OnesTyped DEF endpointVars
  <2>4. ASSUME NEW u, NEW given, NEW i, SetServer(u, given, i) PROVE EndpointTypeOK'
    BY <2>2, <2>4, OnesTyped DEF SetServer, Purge
  <2>5. ASSUME NEW c, SetCertificate(c) \/ FilesChange(c) PROVE EndpointTypeOK'
    BY <2>2, <2>5, OnesTyped DEF SetCertificate, FilesChange
  <2>6. CASE Login
    <3>1. DOMAIN settings' = DOMAIN settings /\ DOMAIN kept' = {"server", "identity"}
      BY <2>2, <2>6 DEF Login
    <3>2. \E to : sent' = Sent("login", to, settings.server, "omawarden")
      BY <2>6 DEF Login
    <3> QED BY <2>0, <3>1, <3>2, SentTyped
  <2>7. CASE Logout \/ StartDaemon
    BY <2>2, <2>7, OnesTyped DEF Logout, StartDaemon
  <2>8. CASE Health
    <3>1. DOMAIN settings' = DOMAIN settings /\ DOMAIN kept' = {"server", "identity"}
      BY <2>2, <2>8 DEF Health
    <3>2. \E to : sent' = Sent("health", to, settings.server, "omawarden")
      BY <2>8 DEF Health
    <3> QED BY <2>0, <3>1, <3>2, SentTyped
  <2>9. ASSUME NEW byDaemon, NEW terminal, NEW m, Sync(byDaemon, terminal, m) PROVE EndpointTypeOK'
    <3>1. DOMAIN settings' = DOMAIN settings /\ DOMAIN kept' = {"server", "identity"}
      BY <2>2, <2>9 DEF Sync
    <3>2. \E what \in {"sync", "renew"} : \E to :
            sent' = Sent(what, to, ServerOfSession, ClientName(terminal, m))
      BY <2>9 DEF Sync
    <3> QED BY <2>0, <3>1, <3>2, SentTyped
  <2>10. ASSUME NEW u, FetchAttachment(u) PROVE EndpointTypeOK'
    <3>1. DOMAIN settings' = DOMAIN settings /\ DOMAIN kept' = {"server", "identity"}
      BY <2>2, <2>10 DEF FetchAttachment
    <3>2. CASE sent'.what = "blob" /\ sent'.name = "omawarden"
      BY <3>1, <3>2 DEF EndpointTypeOK
    <3>3. ASSUME NEW what \in {"download", "stored", "blob"}, NEW to, NEW target,
                 sent' = Sent(what, to, target, "omawarden")
          PROVE  EndpointTypeOK'
      BY <2>0, <3>1, <3>3, SentTyped
    <3> QED BY <2>10, <3>2, <3>3 DEF FetchAttachment
  <2> QED BY <2>3, <2>4, <2>5, <2>6, <2>7, <2>8, <2>9, <2>10 DEF EndpointNext
<1> QED BY <1>1, <1>2, PTL DEF EndpointSpec

(* Keys and command lines.                                                  *)
THEOREM KeysTyped == KeySpec => []KeysTypeOK
<1>1. KeysInit(AllAccounts) => KeyInv
  BY DEF KeysInit, AllAccounts, KeyInv, AnAccount, KeysTypeOK, ReadsBack
<1>2. KeyInv /\ [KeysNext]_keyVars => KeyInv'
  BY UnlockKeeps, ReadKeeps, OpenKeeps
  DEF KeysNext, keyVars, KeyInv, AnAccount, KeysTypeOK, ReadsBack, Regular, UserKey
<1>3. KeyInv => KeysTypeOK
  BY DEF KeyInv
<1> QED BY <1>1, <1>2, <1>3, PTL DEF KeySpec

THEOREM CommandsTyped ==
  ASSUME NEW lines, \A l \in lines : IsLine(l)
  PROVE  CmdSpec(lines) => []CmdTypeOK
<1>1. CmdInit(lines) => CmdInv
  BY CmdInitInv
<1>2. CmdInv => CmdTypeOK
  BY DEF CmdInv, Lined, SoFar, CmdTypeOK, AnyItem
<1> QED BY <1>1, <1>2, CmdKeeps, PTL DEF CmdSpec

(* The daemons and the overlay, with this module's variables.               *)
OfDaemons == INSTANCE DaemonLifecycle_proofs
LEMMA DaemonsTyped == OfDaemons!LifeSpec => []LifeTypeOK
<1>1. OfDaemons!LifeSpec => []OfDaemons!LifeTypeOK
  BY OfDaemons!LifeTyped, LifecycleAssumption
<1>2. OfDaemons!LifeTypeOK => LifeTypeOK
  BY DEF LifeTypeOK, OfDaemons!LifeTypeOK
<1> QED BY <1>1, <1>2, PTL

LEMMA WindowTyped ==
  ASSUME NEW plans PROVE OfOverlay!OverlaySpec(plans) => []Overlay!OverlayTypeOK
<1>1. TwoPrompts \subseteq Nat /\ NoPrompt \notin TwoPrompts
  BY DEF TwoPrompts, NoPrompt
<1>2. OfOverlay!OverlaySpec(plans) => []OfOverlay!OverlayTypeOK
  BY <1>1, OfOverlay!OverlayTyped
<1>3. OfOverlay!OverlayTypeOK => Overlay!OverlayTypeOK
  BY DEF Overlay!OverlayTypeOK, Overlay!Statuses, Overlay!Secrets, Overlay!Helpers,
         Overlay!Answers, OfOverlay!OverlayTypeOK, OfOverlay!Statuses, OfOverlay!Secrets,
         OfOverlay!Helpers, OfOverlay!Answers
<1> QED BY <1>2, <1>3, PTL

(* All the components side by side, each at its own pace, keep their types: *)
(* whatever files, settings, requests, addresses and lines they begin with. *)
THEOREM TypesHold ==
  ASSUME NEW stores \in SUBSET Stores(Anybody, AnyServer), NEW rings \in SUBSET Rings(Anybody),
         NEW confs \in SUBSET Confs, NEW servers, NEW certs, NEW storages, NEW plans,
         NEW lines, \A l \in lines : IsLine(l)
  PROVE  /\ AccountsSpec(stores, rings, confs) /\ OfDaemons!LifeSpec /\ ClipSpec /\ AttAnySpec
         /\ CmdSpec(lines) /\ KeySpec /\ EndpointSpec(servers, certs, storages)
         /\ OfOverlay!OverlaySpec(plans)
         => []TypesOK
<1>1. AccountsSpec(stores, rings, confs) => []AccountTypeOK
  BY AccountsTyped
<1>2. CmdSpec(lines) => []CmdTypeOK
  BY CommandsTyped
<1>3. EndpointSpec(servers, certs, storages) => []EndpointTypeOK
  BY RequestsTyped
<1>4. OfOverlay!OverlaySpec(plans) => []Overlay!OverlayTypeOK
  BY WindowTyped
<1> QED BY <1>1, <1>2, <1>3, <1>4, DaemonsTyped, ClipTyped, AttachmentsTyped, KeysTyped, PTL
        DEF TypesOK
=============================================================================
