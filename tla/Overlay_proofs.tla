--------------------------- MODULE Overlay_proofs ---------------------------
(* Proofs about Overlay, for any prompts and any of the person's plans.    *)
EXTENDS Overlay, WellFoundedInduction, TLAPS

OverlaySpec(plans) == OverlayInit(plans) /\ [][OverlayNext]_overlayVars

(* What a password's login answers, and that the picture says of every     *)
(* helper how far it is.                                                   *)
PasswordOpens == plan.login = "password" => helper["login"] # "locked"
HelpersKnown  == helper = [h \in Helpers |-> helper[h]]
HoldsNothing  == HelpersKnown /\ PasswordOpens /\ LockedShowsNothing

(* Starting a helper, or taking its answer, answers for no login.          *)
LEMMA RunningLogin ==
  ASSUME HelpersKnown, NEW hs, NEW h \in Helpers
  PROVE  /\ Running(hs)["login"] \in {"running", helper["login"]}
         /\ After(h, hs)["login"] \in {"idle", "running", helper["login"]}
BY DEF HelpersKnown, Running, After, Helpers

(* Starting helpers and taking their answers keeps the helpers known.      *)
LEMMA PasswordKept ==
  ASSUME HoldsNothing, plan' = plan, NEW hs, NEW h \in Helpers,
         helper' = Running(hs) \/ helper' = After(h, hs)
  PROVE  (HelpersKnown /\ PasswordOpens)'
<1> USE DEF HoldsNothing
<1>1. HelpersKnown'
  BY DEF HelpersKnown, Running, After, Helpers
<1>2. helper'["login"] \in {"idle", "running", helper["login"]}
  BY RunningLogin
<1>3. PasswordOpens'
  BY <1>2 DEF PasswordOpens
<1> QED BY <1>1, <1>3

(* A helper that runs finds its answer.                                     *)
LEMMA WorkKeeps == ASSUME HoldsNothing, NEW h \in Helpers, Work(h) PROVE HoldsNothing'
<1> USE DEF HoldsNothing
<1>1. PICK e \in Effects(h) : helper' = [helper EXCEPT ![h] = e.answer]
  BY DEF Work
<1>2. plan' = plan /\ status' = status /\ shown' = shown
  BY DEF Work
<1>3. h = "login" /\ plan.login = "password" => e.answer # "locked"
  BY DEF Effects
<1>4. PasswordOpens'
  BY <1>1, <1>2, <1>3 DEF PasswordOpens, HelpersKnown, Helpers
<1>5. HelpersKnown'
  BY <1>1 DEF HelpersKnown
<1> QED BY <1>2, <1>4, <1>5 DEF LockedShowsNothing

(* Each answer sets the status and clears, or is taken as the status allows *)
LEMMA AnswerKeeps == ASSUME HoldsNothing, Answer PROVE HoldsNothing'
<1> USE DEF HoldsNothing
<1>1. plan' = plan
  BY DEF Answer
<1>2. ASSUME NEW h \in Helpers, NEW hs, helper' = After(h, hs)
      PROVE  (HelpersKnown /\ PasswordOpens)'
  BY <1>1, <1>2, PasswordKept
<1>3. CASE StatusAnswer
  <2>1. \E hs : helper' = After("status", hs)
    BY <1>3 DEF StatusAnswer
  <2>2. LockedShowsNothing'
    BY <1>1, <1>3 DEF StatusAnswer, Now, LockedShowsNothing
  <2> QED BY <1>2, <2>1, <2>2 DEF Helpers
<1>4. CASE UnlockAnswer
  <2>1. \E hs : helper' = After("unlock", hs)
    BY <1>4 DEF UnlockAnswer
  <2>2. LockedShowsNothing'
    BY <1>1, <1>4 DEF UnlockAnswer, Now, LockedShowsNothing
  <2> QED BY <1>2, <2>1, <2>2 DEF Helpers
<1>5. CASE LoginAnswer
  <2>1. \E hs : helper' = After("login", hs)
    BY <1>5 DEF LoginAnswer
  <2>2. LockedShowsNothing'
    BY <1>1, <1>5 DEF LoginAnswer, Now, LockedShowsNothing, PasswordOpens
  <2> QED BY <1>2, <2>1, <2>2 DEF Helpers
<1>6. CASE LockAnswer \/ LogoutAnswer
  <2>1. \E h \in Helpers : \E hs : helper' = After(h, hs)
    BY <1>6 DEF LockAnswer, LogoutAnswer, Helpers
  <2>2. LockedShowsNothing'
    BY <1>6 DEF LockAnswer, LogoutAnswer, Now, LockedShowsNothing
  <2> QED BY <1>2, <2>1, <2>2
<1>7. CASE SyncAnswer
  <2>1. \E hs : helper' = After("sync", hs)
    BY <1>7 DEF SyncAnswer
  <2>2. LockedShowsNothing'
    BY <1>1, <1>7 DEF SyncAnswer, Now, LockedShowsNothing
  <2> QED BY <1>2, <2>1, <2>2 DEF Helpers
<1>8. CASE ListAnswer
  <2>1. helper' = After("list", {})
    BY <1>8 DEF ListAnswer
  <2>2. LockedShowsNothing'
    BY <1>1, <1>8 DEF ListAnswer, LockedShowsNothing
  <2> QED BY <1>2, <2>1, <2>2 DEF Helpers
<1>9. CASE PreviewAnswer
  <2>1. helper' = After("preview", {})
    BY <1>9 DEF PreviewAnswer
  <2>2. LockedShowsNothing'
    BY <1>1, <1>9 DEF PreviewAnswer, LockedShowsNothing
  <2> QED BY <1>2, <2>1, <2>2 DEF Helpers
<1> QED BY <1>3, <1>4, <1>5, <1>6, <1>7, <1>8, <1>9 DEF Answer

(* What the person starts; leaving the vault clears at once.                *)
LEMMA PersonKeeps == ASSUME HoldsNothing, Person PROVE HoldsNothing'
<1> USE DEF HoldsNothing
<1>1. plan' = plan
  BY DEF Person
<1>2. ASSUME NEW h \in Helpers, helper' = Running({h})
      PROVE  (HelpersKnown /\ PasswordOpens)'
  BY <1>1, <1>2, PasswordKept
<1>3. ASSUME NEW h \in Helpers, NEW allowed, Start(h, allowed) PROVE HoldsNothing'
  BY <1>1, <1>2, <1>3 DEF Start, LockedShowsNothing
<1>4. ASSUME NEW h \in Helpers, NEW s, NEW allowed, Leave(h, s, allowed) PROVE HoldsNothing'
  BY <1>1, <1>2, <1>4 DEF Leave, Now, LockedShowsNothing
<1>5. CASE Select
  BY <1>1, <1>5 DEF Select, LockedShowsNothing, HelpersKnown, PasswordOpens
<1> QED BY <1>3, <1>4, <1>5 DEF Person, Helpers

(* Polls, opening, closing, and the window that a query closes.             *)
LEMMA WindowKeeps ==
  ASSUME HoldsNothing, NEW forPrompt,
         Poll \/ Close \/ Open(forPrompt) \/ QueryAnswer
  PROVE  HoldsNothing'
<1> USE DEF HoldsNothing
<1>1. CASE Poll
  <2>1. plan' = plan /\ helper' = Running({"status"}) /\ status' = status /\ shown' = shown
    BY <1>1 DEF Poll
  <2> QED BY <2>1, PasswordKept DEF LockedShowsNothing, Helpers
<1>2. CASE Open(forPrompt)
  <2>1. plan' = plan /\ helper' = Running({"status"}) /\ status' = status
        /\ (status # "unlocked" => shown' = {})
    BY <1>2 DEF Open
  <2> QED BY <2>1, PasswordKept DEF LockedShowsNothing, Helpers
<1>3. CASE UNCHANGED vaultPart /\ UNCHANGED plan /\ shown' \in {shown, shown \ {"preview"}}
  BY <1>3 DEF vaultPart, LockedShowsNothing, HelpersKnown, PasswordOpens
<1>4. CASE Close
  BY <1>3, <1>4 DEF Close, CloseWindow
<1>5. CASE QueryAnswer
  BY <1>3, <1>5 DEF QueryAnswer, CloseWindow
<1> QED BY <1>1, <1>2, <1>4, <1>5

(* Steps of the card leave the picture of the vault alone.                  *)
LEMMA OthersKeep ==
  ASSUME HoldsNothing, UNCHANGED <<status, shown, helper, plan>> PROVE HoldsNothing'
BY DEF HoldsNothing, HelpersKnown, PasswordOpens, LockedShowsNothing

(* The overlay holds nothing of a vault it shows as locked or logged out,  *)
(* whatever its helpers answer and when, for a person who logs in by       *)
(* password (OmarchyBitwarden.qml).                                        *)
THEOREM LockedIsBlank ==
  ASSUME NEW plans PROVE OverlaySpec(plans) => []LockedShowsNothing
<1>1. OverlayInit(plans) => HoldsNothing
  BY DEF OverlayInit, HoldsNothing, HelpersKnown, PasswordOpens, LockedShowsNothing, Helpers
<1>2. HoldsNothing /\ [OverlayNext]_overlayVars => HoldsNothing'
  <2> SUFFICES ASSUME HoldsNothing, [OverlayNext]_overlayVars PROVE HoldsNothing'
    OBVIOUS
  <2>1. CASE UNCHANGED overlayVars
    BY <2>1, OthersKeep DEF overlayVars, vaultPart
  <2>2. CASE \E h \in Helpers : Work(h)
    BY <2>2, WorkKeeps
  <2>3. CASE Answer \/ Person
    BY <2>3, AnswerKeeps, PersonKeeps
  <2>4. CASE Poll \/ Close \/ Open(FALSE) \/ Open(TRUE) \/ QueryAnswer
    BY <2>4, WindowKeeps
  <2>5. CASE Elsewhere
    BY <2>5, OthersKeep DEF Elsewhere
  <2>6. CASE Summoned \/ Post \/ Withdrawn \/ AnswerCard \/ CardTimer
    BY <2>6, OthersKeep DEF Summoned, Post, Withdrawn, AnswerCard, CardTimer, vaultPart
  <2>7. CASE QueryWork \/ ReplyWork \/ ReplyExits
    BY <2>7, OthersKeep DEF QueryWork, ReplyWork, ReplyExits, vaultPart
  <2> QED BY <2>1, <2>2, <2>3, <2>4, <2>5, <2>6, <2>7 DEF OverlayNext, CardStep
<1>3. HoldsNothing => LockedShowsNothing
  BY DEF HoldsNothing
<1> QED BY <1>1, <1>2, <1>3, PTL DEF OverlaySpec

-----------------------------------------------------------------------------
(* The overlay's types, with the shapes of its records: two helpers of the  *)
(* card answer with prompts the agent has posted.                           *)
CardShape ==
  /\ query = [state |-> query.state, first |-> query.first]
  /\ reply = [state |-> reply.state, prompt |-> reply.prompt, allow |-> reply.allow]
PictureTyped ==
  /\ HelpersKnown
  /\ daemon \in Statuses /\ status \in Statuses
  /\ shown \subseteq Secrets \cup {"error"} /\ {"items", "error"} \cap shown # {"items", "error"}
  /\ \A h \in Helpers : helper[h] \in {"idle", "running"} \cup Answers[h]
CardTyped ==
  /\ CardShape
  /\ waiting \subseteq posted /\ posted \subseteq Prompts
  /\ {card, query.first, reply.prompt, closedOn} \subseteq posted \cup {NoPrompt}
  /\ reply.prompt = NoPrompt <=> reply.state = "idle"

(* The first of some numbers is one of them.                                *)
LEMMA FirstIsOne ==
  ASSUME NEW S \in SUBSET Nat, S # {}
  PROVE  Min(S) \in S
<1> DEFINE Below == {ss \in Nat \X Nat : ss[1] < ss[2]}
<1>1. IsWellFoundedOn(Below, Nat)
  <2>1. OpToRel(<, Nat) = Below
    BY Zenon DEF OpToRel
  <2> QED BY <2>1, NatLessThanWellFounded, Zenon
<1>2. PICK x \in S : \A y \in S : ~(<<y, x>> \in Below)
  BY <1>1, WFMin, Zenon
<1>3. \A y \in S : x <= y
  <2> SUFFICES ASSUME NEW y \in S, y < x PROVE FALSE
    OBVIOUS
  <2>1. <<y, x>> \in Nat \X Nat /\ <<y, x>>[1] < <<y, x>>[2]
    OBVIOUS
  <2> QED BY <1>2, <2>1
<1> QED BY <1>3 DEF Min

(* Helpers that are started or idle again keep their types.                 *)
LEMMA HelpersTyped ==
  ASSUME PictureTyped, NEW hs, NEW h \in Helpers, helper' = Running(hs) \/ helper' = After(h, hs)
  PROVE  HelpersKnown' /\ \A g \in Helpers : helper'[g] \in {"idle", "running"} \cup Answers[g]
<1>1. CASE helper' = Running(hs)
  BY <1>1 DEF PictureTyped, HelpersKnown, Running
<1>2. CASE helper' = After(h, hs)
  BY <1>2 DEF PictureTyped, HelpersKnown, Running, After
<1> QED BY <1>1, <1>2

LEMMA EffectsTyped ==
  ASSUME PictureTyped, NEW h \in Helpers, NEW e \in Effects(h)
  PROVE  e.answer \in Answers[h] /\ e.daemon \in Statuses
<1>0. daemon \in Statuses
  BY DEF PictureTyped
<1>1. CASE h = "status"
  BY <1>0, <1>1 DEF Effects, Answers
<1>2. CASE h = "unlock"
  BY <1>0, <1>2 DEF Effects, Answers, Statuses
<1>3. CASE h = "login"
  BY <1>0, <1>3 DEF Effects, Answers, Statuses
<1>4. CASE h = "lock"
  BY <1>0, <1>4 DEF Effects, Answers, Statuses
<1>5. CASE h = "logout"
  BY <1>0, <1>5 DEF Effects, Answers, Statuses
<1>6. CASE h = "sync"
  BY <1>0, <1>6 DEF Effects, Answers
<1>7. CASE h = "list"
  BY <1>0, <1>7 DEF Effects, Answers
<1>8. CASE h = "preview"
  BY <1>0, <1>8 DEF Effects, Answers
<1> QED BY <1>1, <1>2, <1>3, <1>4, <1>5, <1>6, <1>7, <1>8 DEF Helpers

(* The steps of the vault's picture.                                        *)
LEMMA WorkTyped == ASSUME PictureTyped, NEW h \in Helpers, Work(h) PROVE PictureTyped'
<1>1. PICK e \in Effects(h) : daemon' = e.daemon /\ helper' = [helper EXCEPT ![h] = e.answer]
  BY DEF Work
<1>2. e.answer \in Answers[h] /\ e.daemon \in Statuses
  BY EffectsTyped
<1>3. UNCHANGED <<status, shown>>
  BY DEF Work
<1>4. HelpersKnown' /\ \A g \in Helpers : helper'[g] \in {"idle", "running"} \cup Answers[g]
  BY <1>1, <1>2 DEF PictureTyped, HelpersKnown
<1> QED BY <1>1, <1>2, <1>3, <1>4 DEF PictureTyped

LEMMA AnswerTyped == ASSUME PictureTyped, Answer PROVE PictureTyped'
<1>0. daemon' = daemon
  BY DEF Answer
<1>1. ASSUME NEW h \in Helpers, NEW hs, helper' = After(h, hs), status' \in Statuses,
             \/ shown' \in {shown, {}, shown \ {"preview"}, shown \cup {"preview"}}
             \/ shown' = {"items"} \/ shown' = {"error"}
      PROVE  PictureTyped'
  <2>1. HelpersKnown' /\ \A g \in Helpers : helper'[g] \in {"idle", "running"} \cup Answers[g]
    BY <1>1, HelpersTyped
  <2>2. shown' \subseteq Secrets \cup {"error"} /\ ~("items" \in shown' /\ "error" \in shown')
    <3>1. shown \subseteq Secrets \cup {"error"} /\ ~("items" \in shown /\ "error" \in shown)
      BY DEF PictureTyped
    <3>2. CASE shown' \in {shown, {}, shown \ {"preview"}, shown \cup {"preview"}}
      BY <3>1, <3>2 DEF Secrets
    <3>3. CASE shown' = {"items"} \/ shown' = {"error"}
      BY <3>3 DEF Secrets
    <3> QED BY <1>1, <3>2, <3>3
  <2> QED BY <1>0, <1>1, <2>1, <2>2 DEF PictureTyped
<1> USE DEF PictureTyped
<1>2. CASE StatusAnswer
  <2>1. status' \in Statuses /\ shown' \in {shown, {}} /\ \E hs : helper' = After("status", hs)
    BY <1>2 DEF StatusAnswer, Now, Statuses
  <2> QED BY <1>1, <2>1 DEF Helpers
<1>3. CASE UnlockAnswer
  <2>1. status' \in Statuses /\ shown' = shown /\ \E hs : helper' = After("unlock", hs)
    BY <1>3 DEF UnlockAnswer, Now, Statuses
  <2> QED BY <1>1, <2>1 DEF Helpers
<1>4. CASE LoginAnswer
  <2>1. status' \in Statuses /\ shown' = shown /\ \E hs : helper' = After("login", hs)
    BY <1>4 DEF LoginAnswer, Now, Statuses
  <2> QED BY <1>1, <2>1 DEF Helpers
<1>5. CASE LockAnswer
  <2>1. status' \in Statuses /\ shown' = {} /\ \E hs : helper' = After("lock", hs)
    BY <1>5 DEF LockAnswer, Now, Statuses
  <2> QED BY <1>1, <2>1 DEF Helpers
<1>6. CASE LogoutAnswer
  <2>1. status' \in Statuses /\ shown' = {} /\ \E hs : helper' = After("logout", hs)
    BY <1>6 DEF LogoutAnswer, Now, Statuses
  <2> QED BY <1>1, <2>1 DEF Helpers
<1>7. CASE SyncAnswer
  <2>1. status' \in Statuses /\ shown' \in {shown, {}} /\ \E hs : helper' = After("sync", hs)
    BY <1>7 DEF SyncAnswer, Now, Statuses
  <2> QED BY <1>1, <2>1 DEF Helpers
<1>8. CASE ListAnswer
  <2>1. /\ status' = status /\ helper' = After("list", {}) /\ helper["list"] \in {"items", "error"}
        /\ shown' \in {(shown \ {"items", "error", "preview"}) \cup {helper["list"]}, shown, {}}
    BY <1>8 DEF ListAnswer, Answers
  <2>2. shown \ {"items", "error", "preview"} = {}
    BY DEF Secrets
  <2>3. \/ shown' \in {shown, {}, shown \ {"preview"}, shown \cup {"preview"}}
        \/ shown' = {"items"} \/ shown' = {"error"}
    BY <2>1, <2>2
  <2> QED BY <1>1, <2>1, <2>3 DEF Helpers
<1>9. CASE PreviewAnswer
  <2>1. status' = status /\ helper' = After("preview", {}) /\ helper["preview"] \in {"preview", "failed"}
    BY <1>9 DEF PreviewAnswer, Answers
  <2>2. shown' \in {shown, shown \ {"preview"}, shown \cup {"preview"}}
    BY <1>9, <2>1 DEF PreviewAnswer
  <2> QED BY <1>1, <2>1, <2>2 DEF Helpers
<1> QED BY <1>2, <1>3, <1>4, <1>5, <1>6, <1>7, <1>8, <1>9 DEF Answer

LEMMA PictureMoves ==
  ASSUME PictureTyped, daemon' \in Statuses, status' \in Statuses,
         shown' \in {shown, {}, shown \ {"preview"}},
         helper' = helper \/ \E hs : helper' = Running(hs)
  PROVE  PictureTyped'
<1>1. HelpersKnown' /\ \A g \in Helpers : helper'[g] \in {"idle", "running"} \cup Answers[g]
  BY HelpersTyped DEF PictureTyped, HelpersKnown, Helpers
<1>2. shown' \subseteq Secrets \cup {"error"} /\ {"items", "error"} \cap shown' # {"items", "error"}
  BY DEF PictureTyped, Secrets
<1> QED BY <1>1, <1>2 DEF PictureTyped

LEMMA PersonTyped == ASSUME PictureTyped, Person PROVE PictureTyped'
<1>1. /\ daemon' = daemon /\ daemon \in Statuses /\ status' \in Statuses
      /\ shown' \in {shown, {}, shown \ {"preview"}}
      /\ helper' = helper \/ \E hs : helper' = Running(hs)
  BY DEF Person, Start, Leave, Now, Select, PictureTyped, Statuses
<1> QED BY <1>1, PictureMoves

(* The steps of the card.                                                   *)
LEMMA CardMoves ==
  ASSUME CardTyped, NoPrompt \notin Prompts,
         UNCHANGED <<waiting, posted>>,
         card' \in posted \cup {NoPrompt}, closedOn' \in posted \cup {NoPrompt},
         query' \in {query, Asking, NoQuery},
         \/ UNCHANGED reply
         \/ \E p \in posted, a \in BOOLEAN : reply' = [state |-> "running", prompt |-> p, allow |-> a]
  PROVE  CardTyped'
<1>1. query' = [state |-> query'.state, first |-> query'.first] /\ query'.first \in posted \cup {NoPrompt}
  BY DEF CardTyped, CardShape, Asking, NoQuery
<1>2. /\ reply' = [state |-> reply'.state, prompt |-> reply'.prompt, allow |-> reply'.allow]
      /\ reply'.prompt \in posted \cup {NoPrompt}
      /\ reply'.prompt = NoPrompt <=> reply'.state = "idle"
  BY DEF CardTyped, CardShape
<1> QED BY <1>1, <1>2 DEF CardTyped, CardShape

LEMMA RefuseTyped ==
  ASSUME CardTyped, NEW p \in posted, Refuse(p)
  PROVE  /\ card' \in posted \cup {NoPrompt}
         /\ \/ UNCHANGED reply
            \/ \E q \in posted, a \in BOOLEAN :
                 reply' = [state |-> "running", prompt |-> q, allow |-> a]
  BY DEF Refuse

LEMMA CardWindow ==
  ASSUME CardTyped, NoPrompt \notin Prompts, NEW forPrompt,
         Close \/ Open(forPrompt) \/ Summoned \/ QueryAnswer \/ AnswerCard \/ CardTimer
  PROVE  CardTyped'
<1>0. card \in posted \cup {NoPrompt} /\ closedOn \in posted \cup {NoPrompt} /\ query.first \in posted \cup {NoPrompt}
  BY DEF CardTyped
<1>1. CASE Close
  <2>1. UNCHANGED <<waiting, posted, query>> /\ closedOn' = card
    BY <1>1 DEF Close, CloseWindow
  <2>2. CASE card = NoPrompt
    BY <1>0, <1>1, <2>1, <2>2, CardMoves DEF Close
  <2>3. CASE card # NoPrompt
    BY <1>0, <1>1, <2>1, <2>3, CardMoves, RefuseTyped DEF Close
  <2> QED BY <2>2, <2>3
<1>2. CASE Open(forPrompt)
  BY <1>0, <1>2, CardMoves DEF Open
<1>3. CASE Summoned
  BY <1>0, <1>3, CardMoves DEF Summoned
<1>4. CASE QueryAnswer
  <2>1. UNCHANGED <<waiting, posted>> /\ query' = NoQuery /\ closedOn' \in {closedOn, NoPrompt}
    BY <1>4 DEF QueryAnswer, CloseWindow
  <2>2. CASE card' = query.first /\ UNCHANGED reply
    BY <1>0, <2>1, <2>2, CardMoves
  <2>3. CASE card' = NoPrompt /\ UNCHANGED reply
    BY <1>0, <2>1, <2>3, CardMoves
  <2>4. CASE query.first # NoPrompt /\ Refuse(query.first)
    BY <1>0, <2>1, <2>4, CardMoves, RefuseTyped
  <2> QED BY <1>4, <2>2, <2>3, <2>4 DEF QueryAnswer
<1>5. CASE AnswerCard
  BY <1>0, <1>5, CardMoves DEF AnswerCard
<1>6. CASE CardTimer
  BY <1>0, <1>6, CardMoves DEF CardTimer
<1> QED BY <1>1, <1>2, <1>3, <1>4, <1>5, <1>6

LEMMA CardHelpers ==
  ASSUME CardTyped, NoPrompt \notin Prompts, Prompts \subseteq Nat,
         Post \/ Withdrawn \/ QueryWork \/ ReplyWork \/ ReplyExits
  PROVE  CardTyped'
<1>1. CASE Post
  <2>1. Prompts \ posted # {} /\ Prompts \ posted \in SUBSET Nat
    BY <1>1 DEF Post, CardTyped
  <2>2. Min(Prompts \ posted) \in Prompts
    BY <2>1, FirstIsOne
  <2>3. PICK p \in Prompts : posted' = posted \cup {p} /\ waiting' = waiting \cup {p}
    BY <1>1, <2>2 DEF Post
  <2>4. UNCHANGED <<card, query, reply, closedOn>>
    BY <1>1 DEF Post
  <2> QED BY <2>3, <2>4 DEF CardTyped, CardShape
<1>2. CASE Withdrawn
  BY <1>2 DEF Withdrawn, CardTyped, CardShape
<1>3. CASE QueryWork
  <2>1. waiting # {} => Min(waiting) \in posted
    BY FirstIsOne DEF CardTyped
  <2>2. PICK q \in posted \cup {NoPrompt}, s \in {"answered", "failed"} :
          query' = [state |-> s, first |-> q]
    BY <1>3, <2>1 DEF QueryWork
  <2> QED BY <1>3, <2>2 DEF QueryWork, CardTyped, CardShape
<1>4. CASE ReplyWork
  <2>1. PICK s \in {"answered", "failed"} :
          reply' = [state |-> s, prompt |-> reply.prompt, allow |-> reply.allow]
    BY <1>4 DEF ReplyWork, CardTyped, CardShape
  <2>2. reply.state = "running" /\ waiting' \subseteq waiting
          /\ UNCHANGED <<posted, card, query, closedOn>>
    BY <1>4 DEF ReplyWork
  <2> QED BY <2>1, <2>2 DEF CardTyped, CardShape
<1>5. CASE ReplyExits
  BY <1>5 DEF ReplyExits, Asking, CardTyped, CardShape
<1> QED BY <1>1, <1>2, <1>3, <1>4, <1>5

(* The overlay keeps its types, whatever its helpers answer and when, and   *)
(* the card asks only for prompts the agent has posted.                     *)
THEOREM OverlayTyped ==
  ASSUME NEW plans, Prompts \subseteq Nat, NoPrompt \notin Prompts
  PROVE  OverlaySpec(plans) => []OverlayTypeOK
<1> DEFINE Inv == PictureTyped /\ CardTyped
<1>1. OverlayInit(plans) => Inv
  <2> SUFFICES ASSUME OverlayInit(plans) PROVE Inv
    OBVIOUS
  <2>1. PictureTyped
    BY DEF OverlayInit, PictureTyped, HelpersKnown, Statuses
  <2>2. CardTyped
    BY DEF OverlayInit, CardTyped, CardShape
  <2> QED BY <2>1, <2>2
<1>2. Inv /\ [OverlayNext]_overlayVars => Inv'
  <2> SUFFICES ASSUME PictureTyped, CardTyped, [OverlayNext]_overlayVars PROVE Inv'
    OBVIOUS
  <2>0. daemon \in Statuses /\ status \in Statuses
    BY DEF PictureTyped
  <2>1. UNCHANGED cardPart => CardTyped'
    BY DEF cardPart, CardTyped, CardShape
  <2>2. UNCHANGED <<daemon, status, helper>> /\ shown' \in {shown, shown \ {"preview"}} => PictureTyped'
    BY <2>0, PictureMoves
  <2>3. CASE UNCHANGED overlayVars
    BY <2>1, <2>2, <2>3 DEF overlayVars, vaultPart
  <2>4. CASE \E h \in Helpers : Work(h)
    BY <2>1, <2>4, WorkTyped DEF Work
  <2>5. CASE Answer
    BY <2>1, <2>5, AnswerTyped DEF Answer
  <2>6. CASE Person
    BY <2>1, <2>6, PersonTyped DEF Person
  <2>7. CASE Elsewhere
    <3>1. PictureTyped'
      BY <2>0, <2>7, PictureMoves DEF Elsewhere
    <3> QED BY <2>1, <2>7, <3>1 DEF Elsewhere
  <2>8. CASE Poll
    <3>1. PictureTyped'
      BY <2>0, <2>8, PictureMoves DEF Poll
    <3> QED BY <2>1, <2>8, <3>1 DEF Poll
  <2>9. ASSUME NEW forPrompt, Open(forPrompt) PROVE Inv'
    <3>1. /\ UNCHANGED <<daemon, status>> /\ shown' \in {shown, {}, shown \ {"preview"}}
          /\ helper' = Running({"status"})
      BY <2>9 DEF Open
    <3>2. PictureTyped'
      BY <2>0, <3>1, PictureMoves
    <3> QED BY <2>9, <3>2, CardWindow
  <2>10. CASE Close \/ Summoned \/ QueryAnswer \/ AnswerCard \/ CardTimer
    <3>1. UNCHANGED vaultPart /\ shown' \in {shown, shown \ {"preview"}}
      BY <2>10 DEF Close, Summoned, QueryAnswer, AnswerCard, CardTimer, CloseWindow, vaultPart
    <3>2. PictureTyped'
      BY <2>2, <3>1 DEF vaultPart
    <3> QED BY <2>10, <3>2, CardWindow
  <2>11. CASE Post \/ Withdrawn \/ QueryWork \/ ReplyWork \/ ReplyExits
    <3>1. UNCHANGED <<vaultPart, shown>>
      BY <2>11 DEF Post, Withdrawn, QueryWork, ReplyWork, ReplyExits
    <3>2. PictureTyped'
      BY <2>2, <3>1 DEF vaultPart
    <3> QED BY <2>11, <3>2, CardHelpers
  <2> QED BY <2>3, <2>4, <2>5, <2>6, <2>7, <2>8, <2>9, <2>10, <2>11 DEF OverlayNext, CardStep
<1>3. Inv => OverlayTypeOK
  BY DEF PictureTyped, CardTyped, OverlayTypeOK
<1> QED BY <1>1, <1>2, <1>3, PTL DEF OverlaySpec
=============================================================================
