---------------------------- MODULE Attachments ----------------------------
(* Attachments shown and saved by the command line (attachment.rs), against *)
(* locks of the vault: a lock drops the key first and clears the previews   *)
(* after.  A preview is kept under its item and FILE NAME, a download under *)
(* its file name alone.                                                     *)

CONSTANTS Askers,        \* processes that run `attachment`
          Attachments,   \* records [id, item, name, odd, known, sized, kind]
          NoFile         \* no file at a path

VARIABLES
  want,       \* what each process was asked for
  stage,      \* how far it got
  bytes,      \* the content it holds
  reply,      \* what it answered: what was done, and the text shown
  files,      \* the content at each path
  vaultLocked, clearing,   \* the key is gone; the previews still are to go
  copies      \* a copy into the download directory succeeds

attVars == <<want, stage, bytes, reply, files, vaultLocked, clearing, copies>>

(* An odd attachment's plaintext is not taken from a cache: it is empty, or *)
(* not what its extension says.  Known: its extension is in the list.       *)
(* Sized: its encrypted size is in data.json.  Kind: its extension is that  *)
(* of a "text", of an "image" or "other"; without NUL that shows as text.   *)
Content(a, form) == [of |-> a, form |-> form]
Modes == {"preview", "open", "download"}
Saving(k)   == want[k].mode = "download"
NoReply == [action |-> "none", text |-> NoFile]

Preview(a)  == <<a.item, a.name>>
Download(a) == <<a.name>>
Dest(k)     == IF Saving(k) THEN Download(want[k].att) ELSE Preview(want[k].att)
Previews    == {Preview(a) : a \in Attachments}
Paths       == Previews \cup {Download(a) : a \in Attachments}

(* leftovers: what the paths hold before, by earlier versions too.          *)
AttInit(wants, leftovers, copying) ==
  /\ want \in [Askers -> wants]
  /\ stage = [k \in Askers |-> "idle"] /\ bytes = [k \in Askers |-> NoFile]
  /\ reply = [k \in Askers |-> NoReply]
  /\ files \in leftovers
  /\ vaultLocked = FALSE /\ clearing = FALSE /\ copies \in copying

AttGoto(k, s) == stage' = [stage EXCEPT ![k] = s]
Hold(k, b)    == bytes' = [bytes EXCEPT ![k] = b]
NoLock        == UNCHANGED <<want, reply, vaultLocked, clearing, copies>>

(* The ids and the directory pass, and a token is at hand or is renewed.    *)
AskFor(k) ==
  /\ stage[k] = "idle"
  /\ \E s \in {"cache", "failed"} : AttGoto(k, s)
  /\ UNCHANGED <<bytes, files>> /\ NoLock

(* Mutant: whatever is there is valid unless it is an answer of the API.    *)
IsAnyFileValid(b, a) == b.form # "json"

(* is_cached_file_valid: encrypted bytes are told by a known extension or   *)
(* by their size, an answer of the API by its form.                         *)
IsCachedFileValid(b, a) ==
  \/ b.form = "plain" /\ ~b.of.odd
  \/ b.form = "cipher" /\ ~a.known /\ ~a.sized

(* A download starts from the preview, if there is one.                     *)
CopyPreview(k) ==
  LET p == Preview(want[k].att) IN
  /\ stage[k] = "cache" /\ Saving(k) /\ files[p] # NoFile
  /\ files' = IF copies THEN [files EXCEPT ![Dest(k)] = files[p]] ELSE files
  /\ AttGoto(k, "copied") /\ UNCHANGED bytes /\ NoLock

SkipCache(k) ==
  /\ stage[k] = "cache" /\ files[Preview(want[k].att)] = NoFile
  /\ AttGoto(k, "get") /\ UNCHANGED <<bytes, files>> /\ NoLock

Readable(k) == \/ stage[k] = "copied"
               \/ stage[k] = "cache" /\ ~Saving(k) /\ files[Dest(k)] # NoFile

(* The cached file answers, or is removed and fetched again.                *)
ReadCached(k) ==
  LET b == files[Dest(k)]
      stale == {Dest(k)} \cup (IF Saving(k) THEN {Preview(want[k].att)} ELSE {})
  IN
  /\ Readable(k)
  /\ IF b # NoFile /\ IsCachedFileValid(b, want[k].att)
     THEN AttGoto(k, "answer") /\ Hold(k, b) /\ UNCHANGED files
     ELSE /\ AttGoto(k, "get") /\ UNCHANGED bytes
          /\ files' = IF b = NoFile THEN files
                      ELSE [p \in Paths |-> IF p \in stale THEN NoFile ELSE files[p]]
  /\ NoLock

(* One request, and one more with a renewed token after a 401 or a 403.     *)
Fetch(k) ==
  /\ stage[k] \in {"get", "again"}
  /\ \/ stage[k] = "get" /\ AttGoto(k, "again")
     \/ AttGoto(k, "received")
     \/ AttGoto(k, "failed")
  /\ UNCHANGED <<bytes, files>> /\ NoLock

(* A body that is too long, or of another size than announced, fails.       *)
(* Without any size a part of the file passes, and so does nothing at all.  *)
Body(k, sized) ==
  \/ \E form \in {"cipher"} \cup (IF sized THEN {} ELSE {"part", "empty"}) :
       AttGoto(k, "key") /\ Hold(k, Content(want[k].att, form))
  \/ AttGoto(k, "failed") /\ UNCHANGED bytes

(* The answer is the file, a storage address, or another JSON object, taken *)
(* for the file and not measured.                                           *)
Receive(k) ==
  /\ stage[k] = "received"
  /\ \/ Body(k, want[k].att.sized)
     \/ AttGoto(k, "stored") /\ UNCHANGED bytes
     \/ AttGoto(k, "key") /\ Hold(k, Content(want[k].att, "json"))
  /\ UNCHANGED files /\ NoLock

(* The address may come with a size, which goes before that of data.json; a *)
(* size of 0 measures nothing.                                              *)
FetchBlob(k) ==
  /\ stage[k] = "stored"
  /\ \E sized \in BOOLEAN : Body(k, sized)
  /\ UNCHANGED files /\ NoLock

(* get_attachment_key of the daemon, and decrypt_attachment_blob, whose     *)
(* authentication fails on a part.  An empty body it returns as it is.      *)
DecryptFile(k) ==
  /\ stage[k] = "key"
  /\ \/ /\ ~vaultLocked /\ bytes[k].form \in {"cipher", "empty"} /\ AttGoto(k, "write")
        /\ Hold(k, IF bytes[k].form = "cipher" THEN Content(want[k].att, "plain") ELSE bytes[k])
     \/ /\ vaultLocked \/ bytes[k].form \notin {"cipher", "empty"}
        /\ AttGoto(k, "failed") /\ UNCHANGED bytes
  /\ UNCHANGED files /\ NoLock

(* The directory is made again when a lock has removed it.                  *)
WriteFile(k) ==
  /\ stage[k] = "write"
  /\ \/ AttGoto(k, "answer") /\ files' = [files EXCEPT ![Dest(k)] = bytes[k]]
     \/ AttGoto(k, "failed") /\ UNCHANGED files
  /\ UNCHANGED bytes /\ NoLock

(* build_attachment_response: the file is opened, previewed or announced,   *)
(* and its content comes along when it is text.                             *)
Action(k) == CASE want[k].mode = "open"    -> "view"
               [] want[k].mode = "preview" -> "preview"
               [] OTHER                    -> "download"

BuildAttachmentResponse(k) ==
  /\ stage[k] = "answer" /\ AttGoto(k, "answered")
  /\ \E isText \in CASE want[k].att.kind = "text"  -> {TRUE}
                       [] want[k].att.kind = "image" -> {FALSE}
                       [] OTHER                      -> BOOLEAN :
       reply' = [reply EXCEPT ![k] = [action |-> Action(k),
                                      text |-> IF isText THEN bytes[k] ELSE NoFile]]
  /\ UNCHANGED <<want, bytes, files, vaultLocked, clearing, copies>>

(* purge_decrypted_state: at every lock, after the key has gone.            *)
DropKey ==
  /\ ~vaultLocked /\ vaultLocked' = TRUE /\ clearing' = TRUE
  /\ UNCHANGED <<want, stage, bytes, reply, files, copies>>

ClearPreviewAttachments ==
  /\ clearing /\ clearing' = FALSE
  /\ files' = [p \in Paths |-> IF p \in Previews THEN NoFile ELSE files[p]]
  /\ UNCHANGED <<want, stage, bytes, reply, vaultLocked, copies>>

(* Mutant: an unlock does not wait for the previews to be cleared.          *)
UnlockEarly ==
  /\ vaultLocked /\ vaultLocked' = FALSE
  /\ UNCHANGED <<want, stage, bytes, reply, files, clearing, copies>>

UnlockAgain ==
  /\ vaultLocked /\ ~clearing /\ vaultLocked' = FALSE
  /\ UNCHANGED <<want, stage, bytes, reply, files, clearing, copies>>

GetAttachment(k) ==
  \/ AskFor(k) \/ CopyPreview(k) \/ SkipCache(k) \/ ReadCached(k)
  \/ Fetch(k) \/ Receive(k) \/ FetchBlob(k) \/ DecryptFile(k) \/ WriteFile(k)
  \/ BuildAttachmentResponse(k)
AttNext == (\E k \in Askers : GetAttachment(k)) \/ DropKey \/ ClearPreviewAttachments \/ UnlockAgain

(***************************************************************************)
(* Properties                                                              *)
(***************************************************************************)
AttTypeOK ==
  /\ want \in [Askers -> [att : Attachments, mode : Modes]]
  /\ files \in [Paths -> [of : Attachments, form : {"plain", "cipher", "json", "empty"}] \cup {NoFile}]
  /\ clearing => vaultLocked

(* What is shown or saved is the attachment asked for, in the clear, never  *)
(* one left by another request or another version: where the paths of two   *)
(* attachments differ, copies to the download directory succeed, and an     *)
(* extension or a size tells encrypted leftovers.  Nothing at all is the    *)
(* one other outcome, where the server sent nothing: no MAC vouches for it, *)
(* against docs/agents/security.md (README, section 7).                     *)
ShownIsAsked ==
  copies => \A k \in Askers :
    (stage[k] = "answered" /\ (want[k].att.known \/ want[k].att.sized)
       /\ \A j \in Askers : want[j].att # want[k].att => want[j].att.name # want[k].att.name)
    => /\ reply[k].text \in {NoFile, bytes[k]}
       /\ bytes[k] \in {Content(want[k].att, "plain"), Content(want[k].att, "empty")}

(* A request for an attachment ends.                                        *)
AttachmentsEnded == \A k \in Askers : stage[k] \in {"answered", "failed"}
=============================================================================
