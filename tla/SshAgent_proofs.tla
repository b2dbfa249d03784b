--------------------------- MODULE SshAgent_proofs ---------------------------
(* Theorems about SshAgent for any connections, clients and keys: what     *)
(* the person must have agreed to before a signature goes out, that an     *)
(* unlock prompt never stays marked as shown for good, and that one lock   *)
(* is announced once.                                                      *)
EXTENDS MCSshAgent, FiniteSetTheorems, TLAPS

Places == {"closed", "idle"} \cup WaitSteps \cup SignSteps

(* The part of the state a consent is about.                               *)
Typed ==
  /\ pc \in [Conns -> Places]
  /\ peer \in [Conns -> Peers \cup {Nobody}]
  /\ forwarded \in [Conns -> BOOLEAN]
  /\ key \in [Conns -> Keys \cup {None}]
  /\ rule \in [Conns -> Policies]
  /\ id \in [Conns -> Nat]
  /\ nextId \in Nat
  /\ pending \subseteq Pending
  /\ confirm \in Policies

(* Cards are numbered apart, and an answer is to a card.                   *)
Cards ==
  /\ \A k \in cards : k.id \in Nat /\ k.id < nextId
  /\ \A k, l \in cards : k.id = l.id => k = l
  /\ \A a \in answers : a.prompt \in cards

(* A pending prompt holds the person's first answer to its card.           *)
Approves(i) ==
  \E a \in answers : a.decision = "approve" /\ a.prompt.id = i

Answers ==
  \A p \in pending :
    /\ p.id < nextId
    /\ p.decision = "approve" => Approves(p.id)
    /\ p.decision = None => \A a \in answers : a.prompt.id # p.id

(* What a request was shown as, and that it was approved.                  *)
Shown ==
  \A c \in Conns :
    pc[c] \in {"asking", "recheck", "refetch", "remember"}
      => Card(c, id[c]) \in cards

Approved ==
  \A c \in Conns :
    pc[c] \in {"recheck", "refetch", "remember"} => Approves(id[c])

(* What is remembered was approved as something to be remembered.          *)
Earlier(k, q) ==
  \E a \in answers :
    /\ a.decision = "approve"
    /\ a.prompt.remembered = TRUE /\ a.prompt.forwarded = FALSE
    /\ a.prompt.key = k /\ a.prompt.peer = q

Remembered == \A k, q : <<k, q>> \in approvals => Earlier(k, q)

Inv == Typed /\ Cards /\ Answers /\ Shown /\ Approved /\ Remembered
             /\ SignedWithConsent

(* Nothing the person has agreed to, or was shown, changes.                *)
consent == <<pending, nextId, approvals, cards, answers>>

(* A step that leaves consents alone and takes one thread to a place where *)
(* none is needed keeps the invariant.                                     *)
LEMMA Elsewhere ==
  ASSUME Inv, Typed', UNCHANGED consent, NEW c \in Conns,
         \A d \in Conns \ {c} : /\ pc'[d] = pc[d] /\ peer'[d] = peer[d]
                                /\ forwarded'[d] = forwarded[d]
                                /\ key'[d] = key[d] /\ rule'[d] = rule[d]
                                /\ id'[d] = id[d],
         pc'[c] \notin {"asking", "recheck", "refetch", "remember", "sign"}
  PROVE  Inv'
<1> USE DEF consent
<1>1. Cards' /\ Answers' /\ Remembered'
  BY DEF Inv, Cards, Answers, Approves, Remembered, Earlier
<1>2. \A d \in Conns \ {c} : \A i : Card(d, i)' = Card(d, i)
  BY DEF Card, Remembers
<1>3. Shown'
  BY <1>2 DEF Inv, Shown
<1>4. Approved'
  BY DEF Inv, Approved, Approves
<1>5. SignedWithConsent'
  BY DEF Inv, SignedWithConsent, ApprovedNow, ApprovedBefore, At
<1> QED BY <1>1, <1>3, <1>4, <1>5 DEF Inv

LEMMA TypedStep ==
  ASSUME Typed, [Next]_vars
  PROVE  Typed'
<1> USE DEF Typed, Places, WaitSteps, SignSteps, vault, prompts, flags, conn,
    locals, person, At, Goto, Go, Return, Unlocked, Pending
<1>1. ASSUME NEW c \in Conns, WaitStep(c)
      PROVE  Typed'
  BY <1>1 DEF WaitStep, WaitCheck, WaitSwap, Quick, Polkit, QuickStore,
     QuickCheck, Summoned, Notify, Notified, Waiting, Waited, Policies
<1>2. ASSUME NEW c \in Conns, SignStep(c)
      PROVE  Typed'
  <2>1. CASE Policy(c)
    BY <2>1 DEF Policy
  <2>2. CASE Post(c)
    BY <2>2 DEF Post
  <2>3. CASE Asked(c)
    BY <2>3 DEF Asked, Policies
  <2>4. CASE Find(c) \/ Confirm(c) \/ Recheck(c) \/ Refetch(c)
             \/ Remember(c) \/ Sign(c)
    BY <2>4 DEF Find, Confirm, Recheck, Refetch, Remember, Sign, Policies
  <2> QED BY <1>2, <2>1, <2>2, <2>3, <2>4 DEF SignStep
<1>3. ASSUME NEW c \in Conns, Come(c)
      PROVE  Typed'
  <2>1. CASE Bind(c)
    BY <2>1, ZenonT(30) DEF Bind
  <2>2. CASE Connect(c)
    BY <2>2 DEF Connect
  <2>3. CASE Close(c) \/ Request(c)
    BY <2>3 DEF Close, Request
  <2> QED BY <1>3, <2>1, <2>2, <2>3 DEF Come
<1>4. CASE Reply
  BY <1>4 DEF Reply, Decisions
<1>5. CASE NoticeCloses \/ Lock \/ Unlock \/ Configure \/ UNCHANGED vars
  BY <1>5 DEF NoticeCloses, Lock, Unlock, Configure, vars
<1> QED BY <1>1, <1>2, <1>3, <1>4, <1>5 DEF Next, Step

(* A step of c that changes nothing a consent is about, approvals apart,   *)
(* needs only what its next place asks for.                                *)
LEMMA Onward ==
  ASSUME Inv, Typed', NEW c \in Conns, NEW place,
         pc' = [pc EXCEPT ![c] = place],
         UNCHANGED <<peer, forwarded, key, rule, id>>,
         UNCHANGED <<pending, nextId, cards, answers>>, Remembered',
         place \in {"asking", "recheck", "refetch", "remember"}
           => Card(c, id[c]) \in cards,
         place \in {"recheck", "refetch", "remember"} => Approves(id[c]),
         place = "sign" => \/ rule[c] = "never" /\ ~forwarded[c]
                           \/ ApprovedNow(c)
                           \/ ApprovedBefore(c)
  PROVE  Inv'
<1>1. Cards' /\ Answers'
  BY DEF Inv, Cards, Answers, Approves
<1>2. Shown'
  BY DEF Inv, Typed, Shown, Card, Remembers
<1>3. Approved'
  BY DEF Inv, Typed, Approved, Approves
<1>4. SignedWithConsent'
  BY DEF Inv, Typed, SignedWithConsent, ApprovedNow, ApprovedBefore, At
<1> QED BY <1>1, <1>2, <1>3, <1>4 DEF Inv

(* A request waits for the vault, or comes and goes.                       *)
LEMMA WaitKeeps ==
  ASSUME Inv, Inv => Typed', NEW c \in Conns, WaitStep(c) \/ Come(c)
  PROVE  Inv'
<1>1. UNCHANGED consent
  BY DEF WaitStep, WaitCheck, WaitSwap, Quick, Polkit, QuickStore, QuickCheck,
     Summoned, Notify, Notified, Waiting, Waited, Come, Connect, Close, Bind,
     Request, consent, vault, prompts, person
<1>2. pc'[c] \notin {"asking", "recheck", "refetch", "remember", "sign"}
  BY DEF WaitStep, WaitCheck, WaitSwap, Quick, Polkit, QuickStore, QuickCheck,
     Summoned, Notify, Notified, Waiting, Waited, Come, Connect, Close, Bind,
     Request, Unlocked, Return, Goto, Go, At, Inv, Typed
<1>3. \A d \in Conns \ {c} : /\ pc'[d] = pc[d] /\ peer'[d] = peer[d]
                              /\ forwarded'[d] = forwarded[d]
                              /\ key'[d] = key[d] /\ rule'[d] = rule[d]
                              /\ id'[d] = id[d]
  BY DEF WaitStep, WaitCheck, WaitSwap, Quick, Polkit, QuickStore, QuickCheck,
     Summoned, Notify, Notified, Waiting, Waited, Come, Connect, Close, Bind,
     Request, Unlocked, Return, Goto, Go, At, Inv, Typed, conn, locals
<1> QED BY <1>1, <1>2, <1>3, Elsewhere

(* A request that is confirmed or needs no confirmation.                   *)
LEMMA SignKeeps ==
  ASSUME Inv, Inv => Typed', NEW c \in Conns, SignStep(c)
  PROVE  Inv'
<1> DEFINE Others ==
      \A d \in Conns \ {c} : /\ pc'[d] = pc[d] /\ peer'[d] = peer[d]
                              /\ forwarded'[d] = forwarded[d]
                              /\ key'[d] = key[d] /\ rule'[d] = rule[d]
                              /\ id'[d] = id[d]
<1>1. Others
  BY DEF SignStep, Find, Policy, Confirm, Post, Asked, Recheck, Refetch,
     Remember, Sign, Return, Goto, Go, Inv, Typed, conn, locals
<1>2. CASE Find(c) \/ Policy(c) \/ Sign(c)
  <2>1. UNCHANGED consent
    BY <1>2 DEF Find, Policy, Sign, consent, prompts, person
  <2>2. pc'[c] \notin {"asking", "recheck", "refetch", "remember", "sign"}
    BY <1>2 DEF Find, Policy, Sign, Return, Goto, Inv, Typed
  <2> QED BY <1>1, <2>1, <2>2, Elsewhere
<1>3. CASE Confirm(c)
  <2>1. /\ UNCHANGED consent
        /\ UNCHANGED <<pending, nextId, cards, answers>>
        /\ UNCHANGED <<peer, forwarded, key, rule, id>>
    BY <1>3 DEF Confirm, Go, consent, prompts, person, locals, conn
  <2>4. Remembered'
    BY <2>1 DEF Inv, Remembered, Earlier, consent
  <2>2. CASE NeedsPrompt(c)
    <3>1. pc'[c] \notin {"asking", "recheck", "refetch", "remember", "sign"}
      BY <1>3, <2>2 DEF Confirm, Go, Goto, Inv, Typed
    <3> QED BY <1>1, <2>1, <3>1, Elsewhere
  <2>3. CASE ~NeedsPrompt(c)
    <3>1. pc' = [pc EXCEPT ![c] = "sign"]
      BY <1>3, <2>3 DEF Confirm, Go, Goto
    <3>2. ~forwarded[c] /\ rule[c] # "always" /\ rule[c] \in Policies
      BY <2>3 DEF NeedsPrompt, Inv, Typed
    <3>3. CASE rule[c] = "never"
      BY <2>1, <2>4, <3>1, <3>2, <3>3, Onward
    <3>4. CASE rule[c] = "first-use"
      <4>1. Remembers(c) /\ <<key[c], peer[c]>> \in approvals
        BY <2>3, <3>4 DEF NeedsPrompt, Triple
      <4>2. ApprovedBefore(c)
        BY <4>1, <3>4 DEF Remembers, Inv, Remembered, Earlier, ApprovedBefore
      <4> QED BY <2>1, <2>4, <3>1, <4>2, Onward
    <3> QED BY <3>2, <3>3, <3>4 DEF Policies
  <2> QED BY <2>2, <2>3
<1>4. CASE Post(c)
  <2>1. /\ pc' = [pc EXCEPT ![c] = "asking"]
        /\ id' = [id EXCEPT ![c] = nextId]
        /\ nextId' = nextId + 1
        /\ pending' = pending \cup {[id |-> nextId, decision |-> None]}
        /\ cards' = cards \cup {Card(c, nextId)}
        /\ UNCHANGED <<peer, forwarded, key, rule, approvals, answers>>
    BY <1>4 DEF Post, Goto, conn
  <2>2. Card(c, nextId).id = nextId /\ nextId \in Nat
    BY DEF Card, Inv, Typed
  <2>3. Cards'
    BY <2>1, <2>2 DEF Inv, Cards
  <2>4. Answers'
    <3>1. \A a \in answers : a.prompt.id # nextId
      BY <2>2 DEF Inv, Cards
    <3> QED BY <2>1, <2>2, <3>1, NoneAssumption DEF Inv, Answers, Approves,
               Typed, Pending
  <2>5. Remembered'
    BY <2>1 DEF Inv, Remembered, Earlier
  <2>6. \A d \in Conns : id'[d] = IF d = c THEN nextId ELSE id[d]
    BY <2>1 DEF Inv, Typed
  <2>7. \A d \in Conns : Card(d, id[d])' = Card(d, id'[d])
    BY <2>1 DEF Card, Remembers
  <2>8. Shown'
    BY <2>1, <2>6, <2>7 DEF Inv, Shown, Typed
  <2>9. Approved'
    BY <2>1, <2>6 DEF Inv, Approved, Approves, Typed
  <2>10. SignedWithConsent'
    BY <2>1, <2>6 DEF Inv, SignedWithConsent, ApprovedNow, ApprovedBefore, At,
       Typed
  <2> QED BY <2>3, <2>4, <2>5, <2>8, <2>9, <2>10 DEF Inv
<1>5. CASE Asked(c)
  <2>1. PICK p \in pending :
          /\ p.id = id[c]
          /\ IF p.decision = "approve" THEN Go(c, "recheck") ELSE Return(c)
          /\ pending' = pending \ {p}
    BY <1>5 DEF Asked
  <2>2. At(c, "asking") /\ UNCHANGED <<peer, forwarded>>
        /\ UNCHANGED <<nextId, approvals, cards, answers>>
    BY <1>5 DEF Asked, conn, person
  <2>3. Cards' /\ Answers' /\ Remembered'
    BY <2>1, <2>2 DEF Inv, Cards, Answers, Approves, Remembered, Earlier
  <2>4. CASE p.decision = "approve"
    <3>1. /\ pc' = [pc EXCEPT ![c] = "recheck"]
          /\ UNCHANGED <<key, rule, id>>
      BY <2>1, <2>4 DEF Go, Goto, locals
    <3>2. Approves(id[c]) /\ Card(c, id[c]) \in cards
      BY <2>1, <2>2, <2>4 DEF Inv, Answers, Shown, At
    <3>3. Shown'
      BY <2>2, <3>1, <3>2 DEF Inv, Typed, Shown, Card, Remembers
    <3>4. Approved'
      BY <2>2, <3>1, <3>2 DEF Inv, Typed, Approved, Approves
    <3>5. SignedWithConsent'
      BY <2>2, <3>1 DEF Inv, Typed, SignedWithConsent, ApprovedNow,
         ApprovedBefore, At
    <3> QED BY <2>3, <3>3, <3>4, <3>5 DEF Inv
  <2>5. CASE p.decision # "approve"
    <3>1. pc'[c] = "idle"
      BY <2>1, <2>5 DEF Return, Goto, Inv, Typed
    <3>2. \A d \in Conns \ {c} : Card(d, id[d])' = Card(d, id[d])
      BY <1>1, <2>2 DEF Card, Remembers
    <3>3. Shown'
      BY <1>1, <2>2, <3>1, <3>2 DEF Inv, Shown
    <3>4. Approved'
      BY <1>1, <2>2, <3>1 DEF Inv, Approved, Approves
    <3>5. SignedWithConsent'
      BY <1>1, <2>2, <3>1 DEF Inv, SignedWithConsent, ApprovedNow,
         ApprovedBefore, At
    <3> QED BY <2>3, <3>3, <3>4, <3>5 DEF Inv
  <2> QED BY <2>4, <2>5
<1>6. CASE Recheck(c) \/ Refetch(c)
  <2>1. UNCHANGED consent /\ UNCHANGED <<peer, forwarded>>
    BY <1>6 DEF Recheck, Refetch, consent, prompts, person, conn
  <2>2. Card(c, id[c]) \in cards /\ Approves(id[c])
    BY <1>6 DEF Recheck, Refetch, Inv, Shown, Approved, At
  <2>3. Remembered'
    BY <2>1 DEF Inv, Remembered, Earlier, consent
  <2>4. CASE Return(c)
    <3>1. pc'[c] \notin {"asking", "recheck", "refetch", "remember", "sign"}
      BY <2>4 DEF Return, Goto, Inv, Typed
    <3> QED BY <1>1, <2>1, <3>1, Elsewhere
  <2>5. CASE ~Return(c)
    <3>1. PICK place \in {"refetch", "remember"} :
            pc' = [pc EXCEPT ![c] = place] /\ UNCHANGED <<key, rule, id>>
      BY <1>6, <2>5 DEF Recheck, Refetch, Go, Goto, locals
    <3> QED BY <2>1, <2>2, <2>3, <3>1, Onward DEF consent
  <2> QED BY <2>4, <2>5
<1>7. CASE Remember(c)
  <2>1. /\ pc' = [pc EXCEPT ![c] = "sign"]
        /\ UNCHANGED <<peer, forwarded, key, rule, id>>
        /\ UNCHANGED <<pending, nextId, cards, answers>>
    BY <1>7 DEF Remember, Go, Goto, locals, conn, person
  <2>2. Card(c, id[c]) \in cards /\ Approves(id[c])
    BY <1>7 DEF Remember, Inv, Shown, Approved, At
  <2>3. PICK a \in answers : a.decision = "approve" /\ a.prompt.id = id[c]
    BY <2>2 DEF Approves
  <2>4. a.prompt = Card(c, id[c])
    BY <2>2, <2>3 DEF Inv, Cards, Card
  <2>5. ApprovedNow(c)
    BY <2>3, <2>4 DEF ApprovedNow, Card
  <2>6. CASE Remembers(c)
    <3>1. a.prompt.remembered = TRUE /\ a.prompt.forwarded = FALSE
      <4>1. Remembers(c) = TRUE
        BY <2>6, Zenon DEF Remembers
      <4>2. forwarded[c] = FALSE
        BY <2>6, Zenon DEF Remembers, Inv, Typed
      <4>3. Card(c, id[c]) = [id |-> id[c], peer |-> peer[c], key |-> key[c],
                              forwarded |-> FALSE, remembered |-> TRUE]
        BY <4>1, <4>2, Zenon DEF Card
      <4> QED BY <2>4, <4>3
    <3>2. Earlier(key[c], peer[c])
      BY <2>3, <2>4, <3>1 DEF Earlier, Card
    <3>3. Remembered'
      BY <1>7, <2>1, <2>6, <3>2 DEF Remember, Triple, Inv, Remembered, Earlier
    <3> QED BY <2>1, <2>5, <3>3, Onward
  <2>7. CASE ~Remembers(c)
    <3>1. Remembered'
      BY <1>7, <2>1, <2>7 DEF Remember, Inv, Remembered, Earlier
    <3> QED BY <2>1, <2>5, <3>1, Onward
  <2> QED BY <2>6, <2>7
<1> QED BY <1>2, <1>3, <1>4, <1>5, <1>6, <1>7 DEF SignStep

(* The person answers.                                                     *)
LEMMA ReplyKeeps ==
  ASSUME Inv, Inv => Typed', Reply
  PROVE  Inv'
<1>1. PICK k \in cards, d \in Decisions :
        LET open == [id |-> k.id, decision |-> None]
        IN /\ answers' = IF Answered(k)
                           THEN answers
                           ELSE answers \cup {[prompt |-> k, decision |-> d,
                                              gen |-> lockGen]}
           /\ pending' = IF open \in pending
                           THEN (pending \ {open})
                                  \cup {[id |-> k.id, decision |-> d]}
                           ELSE pending
  BY DEF Reply
<1> DEFINE open == [id |-> k.id, decision |-> None]
           answer == [prompt |-> k, decision |-> d, gen |-> lockGen]
           decided == [id |-> k.id, decision |-> d]
<1>2. UNCHANGED <<nextId, approvals, pc, peer, forwarded, key, rule, id, cards>>
  BY DEF Reply, conn, locals
<1>3. /\ answers \subseteq answers'
      /\ \A a \in answers' : a \in answers \/ (a = answer /\ ~Answered(k))
  BY <1>1
<1>4. answer.prompt = k /\ answer.decision = d
  OBVIOUS
<1>5. Cards'
  BY <1>2, <1>3, <1>4 DEF Inv, Cards
<1>6. ASSUME NEW i, Approves(i)
      PROVE  Approves(i)'
  BY <1>3, <1>6 DEF Approves
<1>7. Answers'
  <2>1. CASE open \notin pending
    <3>1. \A p \in pending : p.decision = None => p.id # k.id
      <4>1. \A p \in pending : p.decision = None => p = [id |-> p.id, decision |-> None]
        BY DEF Inv, Typed, Pending
      <4> QED BY <2>1, <4>1
    <3>2. pending' = pending
      BY <1>1, <2>1
    <3> QED BY <1>2, <1>3, <1>4, <1>6, <3>1, <3>2 DEF Inv, Answers
  <2>2. CASE open \in pending
    <3>1. ~Answered(k)
      BY <2>2 DEF Inv, Answers, Answered
    <3>2. answer \in answers'
      BY <1>1, <3>1
    <3>3. pending' = (pending \ {open}) \cup {decided}
      BY <1>1, <2>2
    <3>4. \A p \in pending : p.decision = None => p = open \/ p.id # k.id
      <4>1. \A p \in pending : p.decision = None => p = [id |-> p.id, decision |-> None]
        BY DEF Inv, Typed, Pending
      <4> QED BY <4>1
    <3>5. decided.id = k.id /\ decided.decision = d /\ d # None
      BY NoneAssumption DEF Decisions
    <3>6. k.id < nextId
      BY DEF Inv, Cards
    <3>7. d = "approve" => Approves(k.id)'
      BY <1>4, <3>2 DEF Approves
    <3>8. ASSUME NEW p \in pending'
          PROVE  /\ p.id < nextId'
                 /\ p.decision = "approve" => Approves(p.id)'
                 /\ p.decision = None => \A a \in answers' : a.prompt.id # p.id
      <4>1. CASE p = decided
        BY <1>2, <3>5, <3>6, <3>7, <4>1
      <4>2. CASE p \in pending /\ p # open
        BY <1>2, <1>3, <1>4, <1>6, <3>4, <4>2 DEF Inv, Answers
      <4> QED BY <3>3, <4>1, <4>2
    <3> QED BY <3>8 DEF Answers
  <2> QED BY <2>1, <2>2
<1>8. Shown' /\ Approved'
  BY <1>2, <1>6 DEF Inv, Shown, Approved, Card, Remembers
<1>9. Remembered'
  BY <1>2, <1>3 DEF Inv, Remembered, Earlier
<1>10. SignedWithConsent'
  BY <1>2, <1>3 DEF Inv, SignedWithConsent, ApprovedNow, ApprovedBefore, At
<1> QED BY <1>5, <1>7, <1>8, <1>9, <1>10 DEF Inv

LEMMA ConsentAlways == Spec => []Inv
<1>1. Init => Inv
  BY DEF Init, Inv, Typed, Cards, Answers, Shown, Approved, Remembered,
     SignedWithConsent, Places, WaitSteps, SignSteps, Policies, At
<1>2. Inv /\ [Next]_vars => Inv'
  <2> SUFFICES ASSUME Inv, [Next]_vars
               PROVE  Inv'
    OBVIOUS
  <2>1. Typed'
    BY TypedStep DEF Inv
  <2>2. CASE Reply
    BY <2>1, <2>2, ReplyKeeps
  <2>3. ASSUME NEW c \in Conns, Step(c) \/ Come(c)
        PROVE  Inv'
    BY <2>1, <2>3, WaitKeeps, SignKeeps DEF Step
  <2>4. CASE NoticeCloses \/ Lock \/ Unlock \/ Configure \/ UNCHANGED vars
    <3>1. /\ UNCHANGED consent
          /\ UNCHANGED <<pc, peer, forwarded, key, rule, id>>
      BY <2>4 DEF NoticeCloses, Lock, Unlock, Configure, vars, consent, prompts,
         person, conn, locals
    <3>2. Cards' /\ Answers' /\ Remembered' /\ Approved'
      BY <3>1 DEF Inv, Cards, Answers, Approves, Approved, Remembered, Earlier,
         consent
    <3>3. Shown' /\ SignedWithConsent'
      BY <3>1 DEF Inv, Shown, Card, Remembers, SignedWithConsent, ApprovedNow,
         ApprovedBefore, At, consent
    <3> QED BY <2>1, <3>2, <3>3 DEF Inv
  <2> QED BY <2>2, <2>3, <2>4 DEF Next
<1> QED BY <1>1, <1>2, PTL DEF Spec

(* No request signs without the confirmation its policy asks for.          *)
THEOREM ConsentGiven == Spec => []SignedWithConsent
<1>1. Inv => SignedWithConsent
  BY DEF Inv
<1> QED BY <1>1, ConsentAlways, PTL

-----------------------------------------------------------------------------
(* Whoever sets unlock_prompted is due to clear it, and so is every thread *)
(* that waits: the last to leave clears it.                                *)
THEOREM PromptReopens == Spec => []UnlockPromptOwned
<1> DEFINE Due == Typed /\ UnlockPromptOwned
<1>1. Init => Due
  BY DEF Init, Typed, UnlockPromptOwned, Places, Policies
<1>2. Due /\ [Next]_vars => Due'
  <2> SUFFICES ASSUME Due, [Next]_vars
               PROVE  UnlockPromptOwned'
    BY TypedStep
  <2>1. ASSUME NEW c \in Conns, WaitStep(c)
        PROVE  \/ ~prompted'
               \/ Prompting(c)'
               \/ (prompted' <=> prompted) /\ (Prompting(c) => Prompting(c)')
    <3> USE DEF Typed, Prompting, WaitSteps, At, Goto, Go, flags
    <3>1. CASE QuickStore(c) \/ Waited(c)
      BY <3>1, Zenon DEF QuickStore, Waited
    <3>2. CASE Notified(c)
      BY <3>2 DEF Notified
    <3>3. CASE WaitSwap(c)
      BY <3>3 DEF WaitSwap
    <3>4. CASE WaitCheck(c) \/ QuickCheck(c)
      <4>1. ~Prompting(c) /\ prompted' = prompted
        BY <3>4 DEF WaitCheck, QuickCheck
      <4> QED BY <4>1, Zenon
    <3>5. CASE Quick(c) \/ Polkit(c) \/ Summoned(c) \/ Notify(c) \/ Waiting(c)
      BY <3>5 DEF Quick, Polkit, Summoned, Notify, Waiting
    <3> QED BY <2>1, <3>1, <3>2, <3>3, <3>4, <3>5 DEF WaitStep
  <2>2. ASSUME NEW c \in Conns, SignStep(c) \/ Come(c)
        PROVE  prompted' = prompted /\ ~Prompting(c)
    BY <2>2 DEF SignStep, Find, Policy, Confirm, Post, Asked, Recheck, Refetch,
       Remember, Sign, Come, Connect, Close, Bind, Request, flags, At,
       Prompting, WaitSteps
  <2>3. ASSUME NEW c \in Conns, Step(c) \/ Come(c), NEW d \in Conns \ {c}
        PROVE  pc'[d] = pc[d]
    BY <2>3 DEF Step, WaitStep, WaitCheck, WaitSwap, Quick, Polkit, QuickStore,
       QuickCheck, Summoned, Notify, Notified, Waiting, Waited, Unlocked,
       SignStep, Find, Policy, Confirm, Post, Asked, Recheck, Refetch,
       Remember, Sign, Come, Connect, Close, Bind, Request, Return, Goto, Go,
       At, Typed
  <2>4. ASSUME NEW c \in Conns, Step(c) \/ Come(c)
        PROVE  UnlockPromptOwned'
    BY <2>1, <2>2, <2>3, <2>4, Zenon DEF Step, UnlockPromptOwned, Prompting
  <2>5. CASE NoticeCloses
    BY <2>5, Zenon DEF NoticeCloses, UnlockPromptOwned
  <2>6. CASE Reply \/ Lock \/ Unlock \/ Configure \/ UNCHANGED vars
    <3>1. prompted' = prompted /\ pc' = pc
      BY <2>6 DEF Reply, Lock, Unlock, Configure, vars, flags
    <3> QED BY <3>1 DEF UnlockPromptOwned, Prompting
  <2> QED BY <2>4, <2>5, <2>6 DEF Next
<1>3. Due => UnlockPromptOwned
  OBVIOUS
<1> QED BY <1>1, <1>2, <1>3, PTL DEF Spec

-----------------------------------------------------------------------------
(* A request to sign names a key, and a thread that signs has one.         *)
Named ==
  /\ \A c \in Conns : op[c] = "sign" => key[c] \in Keys
  /\ \A c \in Conns : pc[c] \in SignSteps => op[c] = "sign"

(* TypeOK by parts, each of which few steps change.                        *)
Locals ==
  /\ pc \in [Conns -> Places]
  /\ op \in [Conns -> {"none", "list", "sign"}]
  /\ key \in [Conns -> Keys \cup {None}]
  /\ rule \in [Conns -> Policies]
  /\ id \in [Conns -> 0..(nextId - 1)]
  /\ gen \in [Conns -> 0..lockGen]
  /\ copied \in [Conns -> (0..lockGen) \cup {None}]

VaultTyped ==
  /\ unlocked \in BOOLEAN /\ lockGen \in 0..MaxLocks
  /\ vaultKeys \subseteq Keys /\ confirm \in Policies /\ running \in BOOLEAN

PromptsTyped ==
  /\ nextId \in Nat \ {0} /\ approvals \subseteq Keys \X Peers
  /\ pending \subseteq Pending /\ \A p \in pending : p.id \in 1..(nextId - 1)

FlagsTyped ==
  /\ prompted \in BOOLEAN /\ lastNotified \in (0..lockGen) \cup {None}
  /\ notices \in Nat /\ posts \in [0..MaxLocks -> Nat]
  /\ openers \subseteq Conns

ConnTyped ==
  /\ peer \in [Conns -> Peers \cup {Nobody}]
  /\ forwarded \in [Conns -> BOOLEAN]

PersonTyped == cards \subseteq Prompt /\ answers \subseteq Answer

Parts == VaultTyped /\ PromptsTyped /\ FlagsTyped /\ ConnTyped /\ PersonTyped
           /\ Locals

LEMMA TypeParts == TypeOK <=> Parts
  BY DEF TypeOK, Parts, VaultTyped, PromptsTyped, FlagsTyped, ConnTyped,
     PersonTyped, Locals, Places

LEMMA PartsStay ==
  ASSUME Parts
  PROVE  /\ UNCHANGED <<vault, running>> => VaultTyped'
         /\ UNCHANGED prompts => PromptsTyped'
         /\ UNCHANGED <<lockGen, flags>> => FlagsTyped'
         /\ UNCHANGED conn => ConnTyped'
         /\ UNCHANGED person => PersonTyped'
<1>1. UNCHANGED <<vault, running>> => VaultTyped'
  BY DEF Parts, VaultTyped, vault
<1>2. UNCHANGED prompts => PromptsTyped'
  BY DEF Parts, PromptsTyped, prompts
<1>3. UNCHANGED <<lockGen, flags>> => FlagsTyped'
  BY DEF Parts, FlagsTyped, flags
<1>4. UNCHANGED conn => ConnTyped'
  BY DEF Parts, ConnTyped, conn
<1>5. UNCHANGED person => PersonTyped'
  BY DEF Parts, PersonTyped, person
<1> QED BY <1>1, <1>2, <1>3, <1>4, <1>5

(* Giving an answer to the client.                                         *)
LEMMA TypedReturn ==
  ASSUME Parts, Named, NEW c \in Conns, Return(c),
         UNCHANGED <<nextId, lockGen>>
  PROVE  Locals' /\ Named'
<1> USE DEF Parts, VaultTyped, PromptsTyped, Locals, Return, Goto, Places
<1>1. pc' \in [Conns -> Places] /\ op' \in [Conns -> {"none", "list", "sign"}]
  OBVIOUS
<1>2. key' \in [Conns -> Keys \cup {None}] /\ rule' \in [Conns -> Policies]
  BY DEF Policies
<1>3. id' \in [Conns -> 0..(nextId' - 1)]
  OBVIOUS
<1>4. gen' \in [Conns -> 0..lockGen']
      /\ copied' \in [Conns -> (0..lockGen') \cup {None}]
  BY BoundAssumption
<1>5. Named'
  BY DEF Named, SignSteps
<1> QED BY <1>1, <1>2, <1>3, <1>4, <1>5

(* Moving on with the locals as they are.                                  *)
LEMMA TypedGo ==
  ASSUME Parts, Named, NEW c \in Conns, NEW place \in Places, Go(c, place),
         UNCHANGED <<nextId, lockGen>>,
         place \in SignSteps => op[c] = "sign"
  PROVE  Locals' /\ Named'
  BY DEF Parts, Named, Go, Goto, locals, Locals

LEMMA TypedWait ==
  ASSUME Parts, Named, NEW c \in Conns, WaitStep(c)
  PROVE  Parts' /\ Named'
<1>1. UNCHANGED <<prompts, conn, person, lockGen, running>>
  BY DEF WaitStep, WaitCheck, WaitSwap, Quick, Polkit, QuickStore, QuickCheck,
     Summoned, Notify, Notified, Waiting, Waited, vault
<1>2. VaultTyped'
  <2>1. CASE Polkit(c)
    <3>1. unlocked' \in BOOLEAN
      BY <2>1, Zenon DEF Polkit, Parts, VaultTyped
    <3> QED BY <2>1, <3>1 DEF Polkit, Parts, VaultTyped
  <2>2. CASE ~Polkit(c)
    <3>1. UNCHANGED <<vault, running>>
      BY <2>2 DEF WaitStep, WaitCheck, WaitSwap, Quick, QuickStore, QuickCheck,
         Summoned, Notify, Notified, Waiting, Waited
    <3> QED BY <3>1, PartsStay
  <2> QED BY <2>1, <2>2
<1>3. FlagsTyped'
  <2>1. CASE WaitSwap(c)
    <3>1. prompted' \in BOOLEAN
      BY <2>1, Zenon DEF WaitSwap
    <3>2. openers' \subseteq Conns /\ UNCHANGED <<lastNotified, notices, posts>>
      BY <2>1 DEF WaitSwap, Parts, FlagsTyped
    <3> QED BY <1>1, <3>1, <3>2 DEF Parts, FlagsTyped
  <2>2. CASE QuickStore(c) \/ Waited(c)
    <3>1. prompted' \in BOOLEAN
      BY <2>2, Zenon DEF QuickStore, Waited
    <3>2. openers' \subseteq Conns /\ UNCHANGED <<lastNotified, notices, posts>>
      BY <2>2 DEF QuickStore, Waited, Parts, FlagsTyped
    <3> QED BY <1>1, <3>1, <3>2 DEF Parts, FlagsTyped
  <2>3. CASE Notify(c)
    <3>1. gen[c] \in 0..MaxLocks
      BY BoundAssumption DEF Parts, VaultTyped, Locals
    <3>2. /\ notices' = notices \/ notices' = notices + 1
          /\ posts' = posts \/ posts' = [posts EXCEPT ![gen[c]] = posts[gen[c]] + 1]
          /\ UNCHANGED <<prompted, lastNotified, openers>>
      BY <2>3, Zenon DEF Notify
    <3>3. posts' \in [0..MaxLocks -> Nat]
      <4>1. posts \in [0..MaxLocks -> Nat] /\ posts[gen[c]] + 1 \in Nat
        BY <3>1 DEF Parts, FlagsTyped
      <4> QED BY <3>1, <3>2, <4>1
    <3> QED BY <1>1, <3>2, <3>3 DEF Parts, FlagsTyped
  <2>4. CASE Notified(c)
    <3>1. prompted' \in BOOLEAN
      BY <2>4, Zenon DEF Notified, Parts, FlagsTyped
    <3>2. openers' \subseteq Conns /\ UNCHANGED <<notices, posts>>
      BY <2>4 DEF Notified, Parts, FlagsTyped
    <3>3. lastNotified' \in {lastNotified, gen[c]}
      BY <2>4 DEF Notified
    <3> QED BY <1>1, <3>1, <3>2, <3>3 DEF Parts, FlagsTyped, Locals
  <2>5. CASE WaitCheck(c) \/ Quick(c) \/ Polkit(c) \/ QuickCheck(c)
             \/ Summoned(c) \/ Waiting(c)
    <3>1. UNCHANGED flags
      BY <2>5 DEF WaitCheck, Quick, Polkit, QuickCheck, Summoned, Waiting
    <3> QED BY <1>1, <3>1, PartsStay
  <2> QED BY <2>1, <2>2, <2>3, <2>4, <2>5 DEF WaitStep
<1>4. Locals' /\ Named'
  <2> USE DEF Places, WaitSteps, SignSteps
  <2>1. UNCHANGED <<nextId, lockGen>>
    BY <1>1 DEF prompts
  <2>2. CASE Unlocked(c) \/ Return(c)
    BY <2>1, <2>2, TypedReturn, TypedGo DEF Unlocked
  <2>3. CASE \E place \in WaitSteps : Go(c, place)
    BY <2>1, <2>3, TypedGo
  <2>4. CASE Summoned(c)
    BY <2>1, <2>4 DEF Summoned, Goto, Named, Parts, Locals, VaultTyped
  <2> HIDE DEF Places, SignSteps
  <2>5. Unlocked(c) \/ Return(c) \/ Summoned(c)
          \/ \E place \in WaitSteps : Go(c, place)
    BY DEF WaitStep, WaitCheck, WaitSwap, Quick, Polkit, QuickStore,
       QuickCheck, Notify, Notified, Waiting, Waited
  <2> QED BY <2>2, <2>3, <2>4, <2>5
<1>5. PromptsTyped' /\ ConnTyped' /\ PersonTyped'
  BY <1>1, PartsStay
<1> QED BY <1>2, <1>3, <1>4, <1>5 DEF Parts

LEMMA TypedSign ==
  ASSUME Parts, Named, NEW c \in Conns, SignStep(c)
  PROVE  Parts' /\ Named'
<1>1. /\ UNCHANGED <<vault, running, flags, conn, lockGen, answers>>
      /\ key[c] \in Keys
  BY DEF SignStep, Find, Policy, Confirm, Post, Asked, Recheck, Refetch,
     Remember, Sign, vault, person, At, Named, SignSteps
<1>2. VaultTyped' /\ FlagsTyped' /\ ConnTyped'
  BY <1>1, PartsStay
<1>3. PromptsTyped' /\ PersonTyped'
  <2>1. CASE Post(c)
    <3>1. Card(c, nextId) \in Prompt
      <4>1. Remembers(c) \in BOOLEAN
        BY Zenon DEF Remembers
      <4>2. /\ key[c] \in Keys /\ nextId \in Nat
            /\ peer[c] \in Peers \cup {Nobody} /\ forwarded[c] \in BOOLEAN
        BY <1>1 DEF Parts, PromptsTyped, ConnTyped
      <4> QED BY <4>1, <4>2 DEF Card, Prompt
    <3>2. PersonTyped'
      BY <1>1, <2>1, <3>1 DEF Post, Parts, PersonTyped
    <3>3. PromptsTyped'
      BY <2>1 DEF Post, Parts, PromptsTyped, Pending
    <3> QED BY <3>2, <3>3
  <2>2. CASE Asked(c)
    <3>1. pending' \subseteq pending /\ UNCHANGED <<nextId, approvals, person>>
      BY <2>2 DEF Asked
    <3> QED BY <3>1, PartsStay DEF Parts, PromptsTyped
  <2>3. CASE Remember(c)
    <3>1. approvals' \subseteq Keys \X Peers
      BY <1>1, <2>3 DEF Remember, Remembers, Triple, Parts, PromptsTyped,
         ConnTyped
    <3> QED BY <2>3, <3>1, PartsStay DEF Remember, Parts, PromptsTyped
  <2>4. CASE Find(c) \/ Policy(c) \/ Confirm(c) \/ Recheck(c) \/ Refetch(c)
             \/ Sign(c)
    <3>1. UNCHANGED <<prompts, person>>
      BY <2>4 DEF Find, Policy, Confirm, Recheck, Refetch, Sign
    <3> QED BY <3>1, PartsStay
  <2> QED BY <2>1, <2>2, <2>3, <2>4 DEF SignStep
<1>4. Locals' /\ Named'
  <2> DEFINE Copies(place) ==
        /\ pc' = [pc EXCEPT ![c] = place]
        /\ copied' = [copied EXCEPT ![c] = lockGen]
        /\ UNCHANGED <<op, key, rule, id, gen, nextId>>
  <2>1. op[c] = "sign"
    BY DEF SignStep, Find, Policy, Confirm, Post, Asked, Recheck, Refetch,
       Remember, Sign, At, Named, SignSteps
  <2>2. CASE UNCHANGED nextId /\ (Return(c) \/ \E place \in SignSteps : Go(c, place))
    BY <1>1, <2>1, <2>2, TypedReturn, TypedGo DEF Places
  <2>3. CASE Copies("policy") \/ Copies("remember")
    BY <1>1, <2>1, <2>3 DEF Parts, VaultTyped, Locals, Named, Places, SignSteps
  <2>4. CASE Policy(c)
    BY <1>1, <2>1, <2>4 DEF Policy, Goto, prompts, Parts, VaultTyped, Locals,
       Named, Places, SignSteps
  <2>5. CASE Post(c)
    <3>1. nextId \in Nat \ {0}
      BY DEF Parts, PromptsTyped
    <3> QED
      BY <1>1, <2>1, <2>5, <3>1 DEF Post, Goto, Parts, Locals, Named, Places,
         SignSteps
  <2>6. \/ Policy(c) \/ Post(c) \/ Copies("policy") \/ Copies("remember")
        \/ UNCHANGED nextId /\ (Return(c) \/ \E place \in SignSteps : Go(c, place))
    <3> USE DEF SignSteps, prompts
    <3>1. CASE Find(c) \/ Refetch(c)
      BY <3>1 DEF Find, Refetch, Goto
    <3>2. CASE Confirm(c) \/ Recheck(c) \/ Remember(c) \/ Sign(c)
      BY <3>2 DEF Confirm, Recheck, Remember, Sign
    <3>3. CASE Asked(c)
      BY <3>3 DEF Asked
    <3> QED BY <3>1, <3>2, <3>3 DEF SignStep
  <2> QED BY <2>2, <2>3, <2>4, <2>5, <2>6
<1> QED BY <1>2, <1>3, <1>4 DEF Parts

LEMMA TypedCome ==
  ASSUME Parts, Named, NEW c \in Conns, Come(c)
  PROVE  Parts' /\ Named'
<1>1. UNCHANGED <<vault, running, prompts, flags, person, lockGen, nextId>>
  BY DEF Come, Connect, Close, Bind, Request, vault, prompts
<1>2. VaultTyped' /\ PromptsTyped' /\ FlagsTyped' /\ PersonTyped'
  BY <1>1, PartsStay
<1>3. ConnTyped'
  <2>1. CASE Connect(c)
    BY <2>1 DEF Connect, Parts, ConnTyped
  <2>2. CASE Bind(c)
    BY <2>2, ZenonT(30) DEF Bind, Parts, ConnTyped
  <2>3. CASE Close(c) \/ Request(c)
    BY <2>3, PartsStay DEF Close, Request
  <2> QED BY <2>1, <2>2, <2>3 DEF Come
<1>4. Locals' /\ Named'
  <2>1. CASE Connect(c) \/ Close(c)
    <3>1. Go(c, "idle") \/ Go(c, "closed")
      BY <2>1 DEF Connect, Close, Go
    <3> QED BY <1>1, <3>1, TypedGo DEF Places, SignSteps
  <2>2. CASE Bind(c)
    BY <1>1, <2>2 DEF Bind, locals, Parts, Locals, Named
  <2>3. CASE Request(c)
    <3>1. /\ pc' = [pc EXCEPT ![c] = "waitCheck"]
          /\ \/ op' = [op EXCEPT ![c] = "list"] /\ key' = key
             \/ /\ op' = [op EXCEPT ![c] = "sign"]
                /\ \E k \in Keys : key' = [key EXCEPT ![c] = k]
          /\ UNCHANGED <<rule, id, gen, copied>>
      BY <2>3 DEF Request, Goto
    <3>2. Locals'
      BY <1>1, <3>1 DEF Parts, Locals, Places, WaitSteps
    <3>3. pc[c] = "idle"
      BY <2>3 DEF Request, At
    <3>4. Named'
      BY <3>1, <3>3 DEF Parts, Locals, Named, SignSteps
    <3> QED BY <3>2, <3>4
  <2> QED BY <2>1, <2>2, <2>3 DEF Come
<1> QED BY <1>2, <1>3, <1>4 DEF Parts

LEMMA TypedEvent ==
  ASSUME Parts, Named,
         NoticeCloses \/ Reply \/ Lock \/ Unlock \/ Configure \/ UNCHANGED vars
  PROVE  Parts' /\ Named'
<1>1. /\ UNCHANGED <<pc, conn, locals, nextId>>
      /\ Named' /\ ConnTyped'
  <2>1. UNCHANGED <<pc, conn, locals, nextId>>
    BY DEF NoticeCloses, Reply, Lock, Unlock, Configure, vars, prompts
  <2> QED BY <2>1, PartsStay DEF Named, locals
<1>2. CASE Lock
  <2>1. lockGen' = lockGen + 1 /\ lockGen \in Nat /\ lockGen' \in 0..MaxLocks
    BY <1>2, BoundAssumption DEF Lock, Parts, VaultTyped
  <2>2. unlocked' \in BOOLEAN
    BY <1>2, Zenon DEF Lock
  <2>3. VaultTyped'
    BY <1>2, <2>1, <2>2 DEF Lock, Parts, VaultTyped
  <2>4. FlagsTyped'
    BY <1>2, <2>1 DEF Lock, flags, Parts, FlagsTyped
  <2>5. Locals'
    BY <1>1, <2>1 DEF locals, Parts, Locals
  <2> QED BY <1>1, <1>2, <2>3, <2>4, <2>5, PartsStay DEF Lock, Parts
<1>3. CASE ~Lock
  <2>1. UNCHANGED lockGen
    BY <1>3 DEF NoticeCloses, Reply, Unlock, Configure, vars, vault
  <2>2. Locals'
    BY <1>1, <2>1 DEF locals, Parts, Locals
  <2>3. CASE NoticeCloses
    <3>1. prompted' \in BOOLEAN
      BY <2>3, Zenon DEF NoticeCloses
    <3>2. FlagsTyped'
      BY <2>1, <2>3, <3>1 DEF NoticeCloses, Parts, FlagsTyped
    <3> QED BY <1>1, <2>2, <2>3, <3>2, PartsStay DEF NoticeCloses, Parts
  <2>4. CASE Reply
    <3>1. PICK k \in cards, d \in Decisions :
            /\ answers' \in {answers, answers \cup
                  {[prompt |-> k, decision |-> d, gen |-> lockGen]}}
            /\ pending' \subseteq pending \cup {[id |-> k.id, decision |-> d]}
            /\ pending' # pending
                 => [id |-> k.id, decision |-> None] \in pending
      BY <2>4 DEF Reply
    <3>2. k \in Prompt /\ k.id \in Nat /\ lockGen \in Nat
      BY BoundAssumption DEF Prompt, Parts, PersonTyped, VaultTyped
    <3>3. PersonTyped'
      BY <2>4, <3>1, <3>2 DEF Reply, Answer, Parts, PersonTyped
    <3>4. /\ pending' \subseteq Pending
          /\ \A p \in pending' : p.id \in 1..(nextId - 1)
      BY <3>1, <3>2 DEF Pending, Parts, PromptsTyped
    <3>5. PromptsTyped'
      BY <1>1, <2>4, <3>4 DEF Reply, Parts, PromptsTyped
    <3>6. UNCHANGED <<vault, running, flags>>
      BY <2>4 DEF Reply
    <3> QED BY <1>1, <2>1, <2>2, <3>3, <3>5, <3>6, PartsStay DEF Parts
  <2>5. CASE Unlock \/ Configure
    <3>1. unlocked' \in BOOLEAN /\ running' \in BOOLEAN
      BY <2>5, Zenon DEF Unlock, Configure, Parts, VaultTyped
    <3>2. vaultKeys' \subseteq Keys /\ confirm' \in Policies
      BY <2>5 DEF Unlock, Configure, Parts, VaultTyped
    <3>3. VaultTyped'
      BY <2>1, <3>1, <3>2 DEF Parts, VaultTyped
    <3>4. UNCHANGED <<prompts, flags, person>>
      BY <2>5 DEF Unlock, Configure
    <3> QED BY <1>1, <2>1, <2>2, <3>3, <3>4, PartsStay DEF Parts
  <2>6. CASE UNCHANGED vars
    BY <1>1, <2>1, <2>2, <2>6, PartsStay DEF vars, Parts
  <2> QED BY <1>3, <2>3, <2>4, <2>5, <2>6
<1> QED BY <1>2, <1>3

LEMMA PartsInit == Init => Parts /\ Named
<1> SUFFICES ASSUME Init PROVE Parts /\ Named
  OBVIOUS
<1>1. VaultTyped
  <2>1. unlocked \in BOOLEAN /\ running \in BOOLEAN
    BY Zenon DEF Init
  <2> QED BY <2>1, BoundAssumption DEF Init, VaultTyped
<1>2. PromptsTyped /\ PersonTyped
  BY DEF Init, PromptsTyped, PersonTyped
<1>3. FlagsTyped
  <2>1. prompted \in BOOLEAN
    BY Zenon DEF Init
  <2> QED BY <2>1 DEF Init, FlagsTyped
<1>4. ConnTyped
  <2>1. [c \in Conns |-> FALSE] \in [Conns -> BOOLEAN]
    BY Zenon
  <2>2. forwarded \in [Conns -> BOOLEAN]
    BY <2>1, Zenon DEF Init
  <2> QED BY <2>2 DEF Init, ConnTyped
<1>5. Locals /\ Named
  BY BoundAssumption DEF Init, Locals, Named, Places, SignSteps, Policies
<1> QED BY <1>1, <1>2, <1>3, <1>4, <1>5 DEF Parts

LEMMA PartsNext == Parts /\ Named /\ [Next]_vars => Parts' /\ Named'
  BY TypedWait, TypedSign, TypedCome, TypedEvent DEF Next, Step

LEMMA PartsAlways == Spec => [](Parts /\ Named)
  BY PartsInit, PartsNext, PTL DEF Spec

(* Types, prompts numbered below next_id, generations not ahead.           *)
THEOREM TypeCorrect == Spec => []TypeOK
<1>1. Parts /\ Named => TypeOK
  BY TypeParts
<1> QED BY <1>1, PartsAlways, PTL

-----------------------------------------------------------------------------
(* A thread's step changes its own locals only.                            *)
LEMMA OthersStay ==
  ASSUME Parts, NEW c \in Conns, Step(c) \/ Come(c), NEW d \in Conns \ {c}
  PROVE  pc'[d] = pc[d] /\ id'[d] = id[d] /\ copied'[d] = copied[d]
<1> USE DEF Parts, Locals, Return, Goto, Go, locals
<1>1. CASE WaitStep(c)
  BY <1>1 DEF WaitStep, WaitCheck, WaitSwap, Quick, Polkit, QuickStore,
     QuickCheck, Summoned, Notify, Notified, Waiting, Waited, Unlocked
<1>2. CASE SignStep(c)
  BY <1>2 DEF SignStep, Find, Policy, Confirm, Post, Asked, Recheck, Refetch,
     Remember, Sign
<1>3. CASE Come(c)
  BY <1>3 DEF Come, Connect, Close, Bind, Request
<1> QED BY <1>1, <1>2, <1>3 DEF Step

(* Each prompt that is pending belongs to one request: PromptsMatchRequests *)
(* is inductive, given that ids are below next_id.                         *)
LEMMA MatchOutside ==
  ASSUME Parts, PromptsMatchRequests, NEW c \in Conns, Step(c) \/ Come(c),
         UNCHANGED pending, pc[c] # "asking", pc'[c] # "asking",
         id'[c] \in {0, id[c]}
  PROVE  PromptsMatchRequests'
<1>1. \A d \in Conns \ {c} : pc'[d] = pc[d] /\ id'[d] = id[d]
  BY OthersStay
<1> QED BY <1>1 DEF PromptsMatchRequests, At

LEMMA MatchStep ==
  ASSUME Parts, PromptsMatchRequests, NEW c \in Conns, Step(c) \/ Come(c)
  PROVE  PromptsMatchRequests'
<1>1. \A d \in Conns \ {c} : pc'[d] = pc[d] /\ id'[d] = id[d]
  BY OthersStay
<1> USE DEF Parts, Locals, Places, WaitSteps, SignSteps
<1>2. CASE Post(c)
  <2>1. /\ nextId \in Nat \ {0} /\ id[c] \in Nat
        /\ \A d \in Conns : id[d] # nextId
        /\ \A p \in pending : p.id # nextId
    BY DEF PromptsTyped
  <2>2. /\ pc[c] = "post" /\ pc'[c] = "asking" /\ id'[c] = nextId
        /\ pending' = pending \cup {[id |-> nextId, decision |-> None]}
    BY <1>2 DEF Post, At, Goto
  <2>3. \A p \in pending' : p \in pending \/ p = [id |-> nextId, decision |-> None]
    BY <2>2
  <2>4. \A p, q \in pending' : p.id = q.id => p = q
    BY <2>1, <2>3 DEF PromptsMatchRequests
  <2>5. \A p \in pending' : \E d \in Conns : pc'[d] = "asking" /\ id'[d] = p.id
    BY <1>1, <2>2, <2>3 DEF PromptsMatchRequests, At
  <2>6. ASSUME NEW d \in Conns, pc'[d] = "asking"
        PROVE  \E p \in pending' : p.id = id'[d]
    <3>1. CASE d = c
      <4>1. [id |-> nextId, decision |-> None].id = id'[d]
        BY <2>2, <3>1
      <4> QED BY <2>2, <4>1
    <3>2. CASE d # c
      <4>1. PICK p \in pending : p.id = id[d]
        BY <1>1, <2>6, <3>2 DEF PromptsMatchRequests, At
      <4> QED BY <1>1, <2>2, <3>2, <4>1
    <3> QED BY <3>1, <3>2
  <2>7. \A d, e \in Conns : id'[d] = id'[e] /\ id'[d] # 0 => d = e
    BY <1>1, <2>1, <2>2 DEF PromptsMatchRequests
  <2> QED BY <2>4, <2>5, <2>6, <2>7 DEF PromptsMatchRequests, At
<1>3. CASE Asked(c)
  <2>1. PICK p \in pending : p.id = id[c] /\ pending' = pending \ {p}
    BY <1>3 DEF Asked
  <2>2. pc[c] = "asking" /\ pc'[c] # "asking" /\ id'[c] \in {0, id[c]}
    BY <1>3 DEF Asked, At, Go, Goto, Return, locals
  <2>3. p.id # 0 /\ \A q \in pending' : q \in pending /\ q.id # id[c]
    BY <2>1 DEF PromptsMatchRequests, PromptsTyped
  <2>4. \A q \in pending' : \E d \in Conns : pc'[d] = "asking" /\ id'[d] = q.id
    BY <1>1, <2>3 DEF PromptsMatchRequests, At
  <2>5. \A d \in Conns \ {c} : id[d] # id[c]
    BY <2>1, <2>3 DEF PromptsMatchRequests
  <2>6. \A d \in Conns : pc'[d] = "asking" => \E q \in pending' : q.id = id'[d]
    BY <1>1, <2>1, <2>2, <2>5 DEF PromptsMatchRequests, At
  <2>7. \A d, e \in Conns : id'[d] = id'[e] /\ id'[d] # 0 => d = e
    BY <1>1, <2>2 DEF PromptsMatchRequests
  <2> QED BY <2>3, <2>4, <2>6, <2>7 DEF PromptsMatchRequests, At
<1>4. CASE SignStep(c) /\ ~Post(c) /\ ~Asked(c)
  <2>1. /\ UNCHANGED pending /\ pc[c] # "asking" /\ pc'[c] # "asking"
        /\ id'[c] \in {0, id[c]}
    BY <1>4 DEF SignStep, Find, Policy, Confirm, Recheck, Refetch, Remember,
       Sign, At, Go, Goto, Return, prompts, locals
  <2> QED BY <2>1, MatchOutside
<1>5. CASE WaitStep(c)
  <2>1. /\ UNCHANGED pending /\ pc[c] # "asking" /\ pc'[c] # "asking"
        /\ id'[c] \in {0, id[c]}
    BY <1>5 DEF WaitStep, WaitCheck, WaitSwap, Quick, Polkit, QuickStore,
       QuickCheck, Summoned, Notify, Notified, Waiting, Waited, Unlocked, At,
       Go, Goto, Return, prompts, locals
  <2> QED BY <2>1, MatchOutside
<1>6. CASE Come(c)
  <2>1. /\ UNCHANGED pending /\ pc[c] # "asking" /\ pc'[c] # "asking"
        /\ id'[c] \in {0, id[c]}
    BY <1>6 DEF Come, Connect, Close, Bind, Request, At, Go, Goto, prompts,
       locals
  <2> QED BY <2>1, MatchOutside
<1> QED BY <1>2, <1>3, <1>4, <1>5, <1>6 DEF Step

LEMMA MatchReply ==
  ASSUME Parts, PromptsMatchRequests, Reply
  PROVE  PromptsMatchRequests'
<1>1. PICK k \in cards, d \in Decisions :
        LET open == [id |-> k.id, decision |-> None]
        IN  pending' = IF open \in pending
                         THEN (pending \ {open})
                                \cup {[id |-> k.id, decision |-> d]}
                         ELSE pending
  BY DEF Reply
<1> DEFINE open    == [id |-> k.id, decision |-> None]
           decided == [id |-> k.id, decision |-> d]
<1>2. UNCHANGED <<pc, id>>
  BY DEF Reply, locals
<1>3. CASE open \in pending
  <2>1. \A p \in pending' : p = decided \/ (p \in pending /\ p.id # k.id)
    BY <1>1, <1>3 DEF PromptsMatchRequests
  <2>2. \A p \in pending : p \in pending' \/ (p = open /\ decided \in pending')
    BY <1>1, <1>3
  <2>3. \A p, q \in pending' : p.id = q.id => p = q
    BY <2>1 DEF PromptsMatchRequests
  <2>4. \A p \in pending' : \E q \in pending : q.id = p.id
    BY <1>3, <2>1
  <2>5. \A q \in pending : \E p \in pending' : p.id = q.id
    BY <2>2
  <2> QED BY <1>2, <2>3, <2>4, <2>5 DEF PromptsMatchRequests, At
<1>4. CASE open \notin pending
  BY <1>1, <1>2, <1>4 DEF PromptsMatchRequests, At
<1> QED BY <1>3, <1>4

(* A prompt goes away with its request whether answered or not, and no two *)
(* requests share an answer: whatever replies, timeouts and locks race.    *)
THEOREM PromptsMatch == Spec => []PromptsMatchRequests
<1>1. Init => PromptsMatchRequests
  BY DEF Init, PromptsMatchRequests, At
<1>2. Parts /\ PromptsMatchRequests /\ [Next]_vars => PromptsMatchRequests'
  <2>1. CASE NoticeCloses \/ Lock \/ Unlock \/ Configure \/ UNCHANGED vars
    BY <2>1 DEF NoticeCloses, Lock, Unlock, Configure, vars, prompts, locals,
       PromptsMatchRequests, At
  <2> QED BY <2>1, MatchStep, MatchReply DEF Next
<1> QED BY <1>1, <1>2, PartsAlways, PTL DEF Spec

-----------------------------------------------------------------------------
(* Why a confirmed request signs with a fresh key: it has a prompt only    *)
(* from the moment it posts one; once past it, the first answer to its     *)
(* prompt is given, and no later one counts; and after that the key is     *)
(* copied anew.                                                            *)
Confirmed == {"recheck", "refetch", "remember", "sign"}

Replied(i) == \E a \in answers : a.prompt.id = i

CopiedAfter(c) == \A a \in answers : a.prompt.id = id[c] => copied[c] >= a.gen

Fresh ==
  /\ \A k \in cards : k.id # 0
  /\ \A a \in answers : a.gen <= lockGen
  /\ \A c \in Conns : id[c] # 0 => pc[c] \in {"asking"} \cup Confirmed
  /\ \A c \in Conns : id[c] # 0 /\ pc[c] \in Confirmed => Replied(id[c])
  /\ \A c \in Conns : pc[c] \in {"remember", "sign"} => CopiedAfter(c)

FreshInv == Inv /\ Parts /\ Named /\ Fresh

(* A request that goes nowhere near a confirmation has no prompt; before   *)
(* it posts one it has none either.                                        *)
LEMMA Unprompted ==
  ASSUME FreshInv, NEW c \in Conns, pc[c] \notin {"asking"} \cup Confirmed
  PROVE  id[c] = 0 /\ \A a \in answers : a.prompt.id # 0
  BY DEF FreshInv, Fresh, Inv, Cards

LEMMA FreshOwn ==
  ASSUME FreshInv, NEW c \in Conns, Step(c) \/ Come(c)
  PROVE  /\ id'[c] # 0 => pc'[c] \in {"asking"} \cup Confirmed
         /\ id'[c] # 0 /\ pc'[c] \in Confirmed => Replied(id'[c])
         /\ pc'[c] \in {"remember", "sign"}
              => \A a \in answers : a.prompt.id = id'[c] => copied'[c] >= a.gen
<1> USE DEF FreshInv, Parts, Locals, Confirmed
<1>1. CASE WaitStep(c) \/ Come(c)
  <2>1. id[c] = 0
    BY <1>1, Unprompted DEF WaitStep, WaitCheck, WaitSwap, Quick, Polkit,
       QuickStore, QuickCheck, Summoned, Notify, Notified, Waiting, Waited,
       Come, Connect, Close, Bind, Request, At
  <2>2. id'[c] = 0 /\ pc'[c] \notin Confirmed
    BY <1>1, <2>1 DEF WaitStep, WaitCheck, WaitSwap, Quick, Polkit,
       QuickStore, QuickCheck, Summoned, Notify, Notified, Waiting, Waited,
       Unlocked, Come, Connect, Close, Bind, Request, At, Return, Go, Goto,
       locals
  <2> QED BY <2>2
<1>2. CASE Find(c) \/ Policy(c) \/ Sign(c)
  <2>1. id'[c] = 0 /\ pc'[c] \notin Confirmed
    BY <1>2, Unprompted DEF Find, Policy, Sign, At, Return, Goto
  <2> QED BY <2>1
<1>3. CASE Confirm(c)
  <2>1. id[c] = 0 /\ \A a \in answers : a.prompt.id # 0
    BY <1>3, Unprompted DEF Confirm, At
  <2>2. id'[c] = 0
    BY <1>3, <2>1 DEF Confirm, Go, locals
  <2> QED BY <2>1, <2>2
<1>4. CASE Post(c)
  BY <1>4 DEF Post, Goto
<1>5. CASE Asked(c)
  <2>1. PICK p \in pending :
          /\ p.id = id[c]
          /\ IF p.decision = "approve" THEN Go(c, "recheck") ELSE Return(c)
    BY <1>5 DEF Asked
  <2>2. CASE p.decision = "approve"
    <3>1. Replied(id[c])
      BY <2>1, <2>2 DEF Inv, Answers, Approves, Replied
    <3> QED BY <2>1, <2>2, <3>1 DEF Go, Goto, locals
  <2>3. CASE p.decision # "approve"
    BY <2>1, <2>3 DEF Return, Goto
  <2> QED BY <2>2, <2>3
<1>6. CASE Recheck(c)
  BY <1>6 DEF Recheck, At, Go, Goto, Return, locals, Fresh
<1>7. CASE Refetch(c)
  <2>1. CASE Return(c)
    BY <2>1 DEF Return, Goto
  <2>2. CASE ~Return(c)
    <3>1. /\ pc[c] = "refetch" /\ pc'[c] = "remember" /\ id' = id
          /\ copied'[c] = lockGen
      BY <1>7, <2>2 DEF Refetch, At, Goto
    <3> QED BY <3>1 DEF Fresh
  <2> QED BY <2>1, <2>2
<1>8. CASE Remember(c)
  BY <1>8 DEF Remember, At, Go, Goto, locals, Fresh, CopiedAfter
<1> QED BY <1>1, <1>2, <1>3, <1>4, <1>5, <1>6, <1>7, <1>8 DEF Step, SignStep

LEMMA FreshStep ==
  ASSUME FreshInv, NEW c \in Conns, Step(c) \/ Come(c)
  PROVE  Fresh'
<1>1. \A d \in Conns \ {c} : /\ pc'[d] = pc[d] /\ id'[d] = id[d]
                              /\ copied'[d] = copied[d]
  BY OthersStay DEF FreshInv
<1>2. UNCHANGED <<answers, lockGen>>
  BY DEF Step, WaitStep, WaitCheck, WaitSwap, Quick, Polkit, QuickStore,
     QuickCheck, Summoned, Notify, Notified, Waiting, Waited, SignStep, Find,
     Policy, Confirm, Post, Asked, Recheck, Refetch, Remember, Sign, Come,
     Connect, Close, Bind, Request, vault, person
<1>3. \A k \in cards' : k \in cards \/ k.id = nextId
  BY DEF Step, WaitStep, WaitCheck, WaitSwap, Quick, Polkit, QuickStore,
     QuickCheck, Summoned, Notify, Notified, Waiting, Waited, SignStep, Find,
     Policy, Confirm, Post, Asked, Recheck, Refetch, Remember, Sign, Come,
     Connect, Close, Bind, Request, Card, person
<1>4. nextId # 0
  BY DEF FreshInv, Parts, PromptsTyped
<1>5. ASSUME NEW d \in Conns
      PROVE  /\ id'[d] # 0 => pc'[d] \in {"asking"} \cup Confirmed
             /\ id'[d] # 0 /\ pc'[d] \in Confirmed => Replied(id'[d])
             /\ pc'[d] \in {"remember", "sign"}
                  => \A a \in answers : a.prompt.id = id'[d]
                                          => copied'[d] >= a.gen
  <2>1. CASE d = c
    BY <2>1, FreshOwn
  <2>2. CASE d # c
    BY <1>1, <2>2 DEF FreshInv, Fresh, CopiedAfter
  <2> QED BY <2>1, <2>2
<1> QED
  BY <1>2, <1>3, <1>4, <1>5 DEF FreshInv, Fresh, CopiedAfter, Replied

LEMMA FreshReply ==
  ASSUME FreshInv, Reply
  PROVE  Fresh'
<1>1. PICK k \in cards, d \in Decisions :
        answers' = IF Answered(k)
                     THEN answers
                     ELSE answers \cup {[prompt |-> k, decision |-> d,
                                         gen |-> lockGen]}
  BY DEF Reply
<1> DEFINE answer == [prompt |-> k, decision |-> d, gen |-> lockGen]
<1>2. UNCHANGED <<pc, id, copied, cards, lockGen>>
  BY DEF Reply, locals, vault
<1>3. /\ answers \subseteq answers'
      /\ \A a \in answers' : a \in answers \/ (a = answer /\ ~Answered(k))
  BY <1>1
<1>4. answer.prompt = k /\ answer.gen = lockGen
  OBVIOUS
<1>5. lockGen \in Int
  BY BoundAssumption DEF FreshInv, Parts, VaultTyped
<1>6. ASSUME NEW c \in Conns, pc[c] \in {"remember", "sign"},
             NEW a \in answers', a.prompt.id = id[c]
      PROVE  copied[c] >= a.gen
  <2>1. CASE a \in answers
    BY <1>6, <2>1 DEF FreshInv, Fresh, CopiedAfter
  <2>2. CASE a = answer /\ ~Answered(k)
    <3>1. k.id = id[c] /\ k.id # 0
      BY <1>4, <1>6, <2>2 DEF FreshInv, Fresh
    <3>2. PICK b \in answers : b.prompt.id = id[c]
      BY <1>6, <3>1 DEF FreshInv, Fresh, Confirmed, Replied
    <3>3. b.prompt = k
      BY <3>1, <3>2 DEF FreshInv, Inv, Cards
    <3> QED BY <2>2, <3>2, <3>3 DEF Answered
  <2> QED BY <1>3, <2>1, <2>2
<1>7. \A a \in answers' : a.gen <= lockGen
  BY <1>3, <1>4, <1>5 DEF FreshInv, Fresh
<1>8. \A i : Replied(i) => Replied(i)'
  BY <1>3 DEF Replied
<1> QED BY <1>2, <1>6, <1>7, <1>8 DEF FreshInv, Fresh, CopiedAfter

LEMMA FreshEvent ==
  ASSUME FreshInv,
         NoticeCloses \/ Lock \/ Unlock \/ Configure \/ UNCHANGED vars
  PROVE  Fresh'
<1>1. UNCHANGED <<pc, id, copied, cards, answers>>
  BY DEF NoticeCloses, Lock, Unlock, Configure, vars, locals, person
<1>2. lockGen' = lockGen \/ lockGen' = lockGen + 1
  BY DEF NoticeCloses, Lock, Unlock, Configure, vars, vault
<1>3. \A a \in answers' : a.gen <= lockGen'
  BY <1>1, <1>2, BoundAssumption DEF FreshInv, Fresh, Parts, VaultTyped,
     PersonTyped, Answer
<1> QED BY <1>1, <1>3 DEF FreshInv, Fresh, CopiedAfter, Replied

(* No request signs with a copy of the key from before its approval, so    *)
(* none with a key that a lock took away in between.                       *)
THEOREM KeyIsFresh == Spec => []FreshKey
<1>1. Init => Fresh
  BY DEF Init, Fresh, CopiedAfter
<1>2. FreshInv /\ [Next]_vars => Fresh'
  BY FreshStep, FreshReply, FreshEvent DEF Next
<1>3. Fresh => FreshKey
  BY DEF Fresh, FreshKey, CopiedAfter, At
<1>4. Spec => []FreshInv
  BY <1>1, <1>2, ConsentAlways, PartsAlways, PTL DEF Spec, FreshInv
<1> QED BY <1>3, <1>4, PTL DEF FreshInv

-----------------------------------------------------------------------------
(* One request at a time: what has been posted is on record, or about to be *)
(* recorded by the thread that posted it.                                   *)
Calls(c)  == pc[c] \notin {"closed", "idle"}
OneCall   == \A c, d \in Conns : Calls(c) /\ Calls(d) => c = d
Noting    == {"notify", "notified"}
OnRecord(g) == lastNotified # None /\ lastNotified >= g
InHand(g)   == \E c \in Conns : pc[c] = "notified" /\ gen[c] >= g
InOrder   == \A c \in Conns : pc[c] \in Noting => lastNotified = None \/ lastNotified <= gen[c]
PostsOnce == \A g \in 0..MaxLocks :
               posts[g] <= 1 /\ (posts[g] = 1 => OnRecord(g) \/ InHand(g))
Once      == scope.atOnce = 1 => OneCall /\ InOrder /\ PostsOnce

LEMMA OthersKeep ==
  ASSUME Parts, NEW c \in Conns, Step(c) \/ Come(c), NEW d \in Conns \ {c}
  PROVE  pc'[d] = pc[d] /\ gen'[d] = gen[d]
<1>1. pc'[d] = pc[d]
  BY OthersStay
<1>2. gen' = gen \/ gen' = [gen EXCEPT ![c] = 0] \/ gen' = [gen EXCEPT ![c] = lockGen]
  <2> USE DEF Return, Go, locals
  <2>1. CASE WaitStep(c)
    BY <2>1 DEF WaitStep, WaitCheck, WaitSwap, Quick, Polkit, QuickStore,
       QuickCheck, Summoned, Notify, Notified, Waiting, Waited, Unlocked
  <2>2. CASE SignStep(c)
    BY <2>2 DEF SignStep, Find, Policy, Confirm, Post, Asked, Recheck, Refetch,
       Remember, Sign
  <2>3. CASE Come(c)
    BY <2>3 DEF Come, Connect, Close, Bind, Request
  <2> QED BY <2>1, <2>2, <2>3 DEF Step
<1>3. gen'[d] = gen[d]
  BY <1>2 DEF Parts, Locals
<1> QED BY <1>1, <1>3

LEMMA StepCalls ==
  ASSUME NEW c \in Conns, Step(c) PROVE Calls(c)
  BY DEF Step, WaitStep, WaitCheck, WaitSwap, Quick, Polkit, QuickStore,
     QuickCheck, Summoned, Notify, Notified, Waiting, Waited,
     SignStep, Find, Policy, Confirm, Post, Asked, Recheck, Refetch,
     Remember, Sign, At, Calls

LEMMA NothingNoted ==
  ASSUME InOrder, PostsOnce, UNCHANGED <<lastNotified, posts>>,
         \A d \in Conns : \/ pc'[d] = pc[d] /\ gen'[d] = gen[d]
                          \/ pc[d] \notin Noting /\ pc'[d] \notin Noting
  PROVE  InOrder' /\ PostsOnce'
<1>1. InOrder'
  BY DEF InOrder
<1>2. ASSUME NEW g \in 0..MaxLocks PROVE (OnRecord(g) \/ InHand(g)) => (OnRecord(g) \/ InHand(g))'
  <2>1. OnRecord(g) => OnRecord(g)'
    BY DEF OnRecord
  <2>2. InHand(g) => InHand(g)'
    BY DEF InHand, Noting
  <2> QED BY <2>1, <2>2
<1>3. PostsOnce'
  BY <1>2 DEF PostsOnce
<1> QED BY <1>1, <1>3

(* Unless the one request is just posting, nothing is left to be recorded.  *)
LEMMA AllOnRecord ==
  ASSUME OneCall, NEW c \in Conns, Calls(c), pc[c] # "notified", NEW g
  PROVE  ~InHand(g)
  BY DEF OneCall, Calls, InHand

LEMMA NotingStep ==
  ASSUME Parts, OneCall, InOrder, PostsOnce, NEW c \in Conns,
         Summoned(c) \/ Notify(c) \/ Notified(c)
  PROVE  InOrder' /\ PostsOnce'
<1>0. /\ lockGen \in Nat /\ gen[c] \in 0..lockGen /\ gen[c] \in 0..MaxLocks
      /\ lastNotified \in (0..lockGen) \cup {None} /\ None \notin Int
      /\ posts \in [0..MaxLocks -> Nat]
  BY BoundAssumption, NoneAssumption DEF Parts, VaultTyped, FlagsTyped, Locals
<1>1. Calls(c) /\ \A d \in Conns \ {c} : ~Calls(d)
  BY DEF OneCall, Calls, Summoned, Notify, Notified, At
<1>2. \A d \in Conns \ {c} : pc[d] \notin Noting /\ pc'[d] \notin Noting
  <2>1. ASSUME NEW d \in Conns \ {c} PROVE pc'[d] = pc[d]
    BY DEF Summoned, Notify, Notified, Go, Goto, Parts, Locals
  <2> QED BY <1>1, <2>1 DEF Calls, Noting
<1>3. CASE Summoned(c)
  <2>1. /\ pc[c] = "summoned" /\ pc'[c] = "notify" /\ gen'[c] = lockGen
        /\ UNCHANGED <<lastNotified, posts>>
    BY <1>3 DEF Summoned, Goto, At, flags, Parts, Locals
  <2>2. InOrder'
    BY <1>0, <1>2, <2>1 DEF InOrder
  <2>3. ASSUME NEW g \in 0..MaxLocks, posts[g] = 1 PROVE OnRecord(g)'
    <3>1. ~InHand(g)
      BY <1>1, <2>1, AllOnRecord
    <3> QED BY <2>1, <2>3, <3>1 DEF PostsOnce, OnRecord
  <2> QED BY <2>1, <2>2, <2>3 DEF PostsOnce
<1>4. CASE Notify(c)
  <2>1. /\ pc[c] = "notify" /\ gen' = gen /\ lastNotified' = lastNotified
        /\ pc'[c] \in {"notified", "unnotified"}
    BY <1>4 DEF Notify, Go, Goto, At, locals, Parts, Locals
  <2>2. \/ pc'[c] = "notified" /\ lastNotified = gen[c] /\ posts' = posts
        \/ /\ pc'[c] = "notified" /\ lastNotified # gen[c]
           /\ posts' = [posts EXCEPT ![gen[c]] = posts[gen[c]] + 1]
        \/ pc'[c] = "unnotified" /\ posts' = posts
    BY <1>4 DEF Notify, Go, Goto, Parts, Locals
  <2>3. InOrder'
    BY <1>2, <2>1 DEF InOrder, Noting
  <2>4. ASSUME NEW g \in 0..MaxLocks PROVE ~InHand(g)
    BY <1>1, <2>1, AllOnRecord
  <2>5. ASSUME NEW g \in 0..MaxLocks, posts[g] = 1 PROVE OnRecord(g) /\ OnRecord(g)'
    <3>1. OnRecord(g)
      BY <2>4, <2>5 DEF PostsOnce
    <3> QED BY <2>1, <3>1 DEF OnRecord
  <2>6. CASE posts' = posts
    BY <2>3, <2>5, <2>6 DEF PostsOnce
  <2>7. CASE /\ pc'[c] = "notified" /\ lastNotified # gen[c]
             /\ posts' = [posts EXCEPT ![gen[c]] = posts[gen[c]] + 1]
    <3>1. posts[gen[c]] # 1
      <4>1. lastNotified = None \/ lastNotified <= gen[c]
        BY <2>1 DEF InOrder, Noting
      <4>2. ~OnRecord(gen[c])
        BY <1>0, <2>7, <4>1 DEF OnRecord
      <4> QED BY <1>0, <2>5, <4>2
    <3>2. posts[gen[c]] = 0
      BY <1>0, <3>1 DEF PostsOnce
    <3>3. InHand(gen[c])'
      <4>1. pc'[c] = "notified" /\ gen'[c] >= gen[c]
        BY <1>0, <2>1, <2>7
      <4> QED BY <2>1, <4>1 DEF InHand
    <3>4. ASSUME NEW g \in 0..MaxLocks
          PROVE  posts'[g] <= 1 /\ (posts'[g] = 1 => OnRecord(g)' \/ InHand(g)')
      <4>1. CASE g = gen[c]
        BY <1>0, <2>1, <2>7, <3>2, <3>3, <4>1
      <4>2. CASE g # gen[c]
        BY <1>0, <2>5, <2>7, <4>2 DEF PostsOnce
      <4> QED BY <4>1, <4>2
    <3> QED BY <2>3, <3>4 DEF PostsOnce
  <2> QED BY <2>2, <2>3, <2>6, <2>7
<1>5. CASE Notified(c)
  <2>1. pc'[c] = "waiting" /\ gen' = gen /\ posts' = posts
    BY <1>5 DEF Notified, Go, Goto, locals, Parts, Locals
  <2>2. InOrder'
    BY <1>2, <2>1 DEF InOrder, Noting
  <2>3. \/ pc[c] = "notified" /\ lastNotified' = gen[c]
        \/ pc[c] = "unnotified" /\ lastNotified' = lastNotified
    BY <1>5 DEF Notified, At
  <2>4. ASSUME NEW g \in 0..MaxLocks, OnRecord(g) \/ InHand(g) PROVE OnRecord(g)'
    <3>1. CASE pc[c] = "notified" /\ lastNotified' = gen[c]
      <4>1. gen[c] >= g
        <5>1. CASE InHand(g)
          BY <1>2, <5>1 DEF InHand, Noting
        <5>2. CASE OnRecord(g)
          BY <1>0, <3>1, <5>2 DEF OnRecord, InOrder, Noting
        <5> QED BY <2>4, <5>1, <5>2
      <4> QED BY <1>0, <3>1, <4>1 DEF OnRecord
    <3>2. CASE pc[c] = "unnotified" /\ lastNotified' = lastNotified
      <4>1. ~InHand(g)
        BY <1>1, <3>2, AllOnRecord
      <4> QED BY <2>4, <3>2, <4>1 DEF OnRecord
    <3> QED BY <2>3, <3>1, <3>2
  <2> QED BY <2>1, <2>2, <2>4 DEF PostsOnce
<1> QED BY <1>3, <1>4, <1>5

LEMMA OtherStep ==
  ASSUME Parts, NEW c \in Conns, Step(c) \/ Come(c),
         ~(Summoned(c) \/ Notify(c) \/ Notified(c))
  PROVE  /\ UNCHANGED <<lastNotified, posts>>
         /\ pc[c] \notin Noting /\ pc'[c] \notin Noting
<1> USE DEF Noting, At
<1>1. CASE WaitStep(c)
  <2>1. WaitCheck(c) \/ WaitSwap(c) \/ Quick(c) \/ Polkit(c) \/ QuickStore(c)
          \/ QuickCheck(c) \/ Waiting(c) \/ Waited(c)
    BY <1>1 DEF WaitStep
  <2>2. /\ UNCHANGED <<lastNotified, posts>> /\ pc[c] \notin Noting
        /\ Unlocked(c) \/ Return(c) \/ \E place \in WaitSteps \ Noting : Go(c, place)
    BY <2>1 DEF WaitCheck, WaitSwap, Quick, Polkit, QuickStore, QuickCheck, Waiting, Waited,
       flags, WaitSteps
  <2>3. pc'[c] \notin Noting
    BY <2>2 DEF Unlocked, Return, Go, Goto, Parts, Locals
  <2> QED BY <2>2, <2>3
<1>2. CASE SignStep(c)
  <2>1. /\ UNCHANGED <<lastNotified, posts>> /\ pc[c] \notin Noting
        /\ Return(c) \/ \E place \in SignSteps : Goto(c, place)
    BY <1>2 DEF SignStep, Find, Policy, Confirm, Post, Asked, Recheck, Refetch,
       Remember, Sign, Go, flags, SignSteps
  <2>2. pc'[c] \notin Noting
    BY <2>1 DEF Return, Goto, Parts, Locals, SignSteps
  <2> QED BY <2>1, <2>2
<1>3. CASE Come(c)
  <2>1. /\ UNCHANGED <<lastNotified, posts>> /\ pc[c] \notin Noting
        /\ pc' = pc \/ \E place \in {"closed", "idle", "waitCheck"} : Goto(c, place)
    BY <1>3 DEF Come, Connect, Close, Bind, Request, Go, flags
  <2>2. pc'[c] \notin Noting
    BY <2>1 DEF Goto, Parts, Locals
  <2> QED BY <2>1, <2>2
<1> QED BY <1>1, <1>2, <1>3 DEF Step

LEMMA PostsOnceStep ==
  ASSUME Parts, OneCall, InOrder, PostsOnce, NEW c \in Conns, Step(c) \/ Come(c)
  PROVE  InOrder' /\ PostsOnce'
<1>1. CASE Summoned(c) \/ Notify(c) \/ Notified(c)
  BY <1>1, NotingStep
<1>2. CASE ~(Summoned(c) \/ Notify(c) \/ Notified(c))
  <2>1. UNCHANGED <<lastNotified, posts>> /\ pc[c] \notin Noting /\ pc'[c] \notin Noting
    BY <1>2, OtherStep
  <2>2. \A d \in Conns \ {c} : pc'[d] = pc[d] /\ gen'[d] = gen[d]
    BY OthersKeep
  <2> QED BY <2>1, <2>2, NothingNoted
<1> QED BY <1>1, <1>2

(* A request comes only where none is under way.                            *)
LEMMA OneCallStep ==
  ASSUME Parts, OneCall, scope.atOnce = 1, NEW c \in Conns, Step(c) \/ Comes(c)
  PROVE  OneCall'
<1>0. Step(c) \/ Come(c)
  BY DEF Comes, Come
<1>1. \A d \in Conns \ {c} : pc'[d] = pc[d]
  BY <1>0, OthersKeep
<1>2. CASE Calls(c)
  BY <1>1, <1>2 DEF OneCall, Calls
<1>3. CASE ~Calls(c)
  <2>1. ~Step(c)
    BY <1>3, StepCalls
  <2>2. CASE Connect(c) \/ Close(c) \/ Bind(c)
    <3>1. pc'[c] \in {"closed", "idle"}
      BY <2>2 DEF Connect, Close, Bind, Go, Goto, At, Parts, Locals
    <3> QED BY <1>1, <3>1 DEF OneCall, Calls
  <2>3. CASE Calling < scope.atOnce
    <3> DEFINE S == {d \in Conns : Calls(d)}
    <3>1. Calling = Cardinality(S)
      BY DEF Calling, Calls
    <3>2. S = {} \/ \E d \in Conns : S = {d}
      BY DEF OneCall
    <3>3. \A d \in Conns : Cardinality({d}) = 1
      BY FS_Singleton
    <3>4. S = {}
      BY <2>3, <3>1, <3>2, <3>3
    <3>5. \A d \in Conns : ~Calls(d)
      BY <3>4
    <3> QED BY <1>1, <3>5 DEF OneCall, Calls
  <2> QED BY <2>1, <2>2, <2>3 DEF Comes
<1> QED BY <1>2, <1>3

(* A client that retries while the person is away gets one notification for *)
(* each lock, if no two requests wait at once: whatever locks, unlocks and  *)
(* closed notifications come between (ssh_agent.rs wait_for_unlock).          *)
THEOREM PostedOnce == ScopedSpec => []NotifiedOnce
<1>1. ScopedInit => Parts /\ Named /\ Once
  <2> SUFFICES ASSUME ScopedInit PROVE Once
    BY PartsInit DEF ScopedInit
  <2>1. \A c \in Conns : pc[c] = "closed"
    BY DEF ScopedInit, Init
  <2>2. \A g \in 0..MaxLocks : posts[g] = 0
    BY DEF ScopedInit, Init
  <2> QED BY <2>1, <2>2 DEF Once, OneCall, Calls, InOrder, Noting, PostsOnce
<1>2. Parts /\ Named /\ Once /\ [ScopedNext]_scopedVars => (Parts /\ Named /\ Once)'
  <2> SUFFICES ASSUME Parts, Named, Once, [ScopedNext]_scopedVars
               PROVE  Parts' /\ Named' /\ Once'
    OBVIOUS
  <2>1. \/ \E c \in Conns : Step(c) \/ Comes(c)
        \/ NoticeCloses \/ Reply \/ Lock \/ Unlock \/ Configure \/ UNCHANGED vars
    BY DEF ScopedNext, scopedVars, Step
  <2>2. scope' = scope
    BY DEF ScopedNext, scopedVars
  <2>3. [Next]_vars
    BY <2>1 DEF Next, Comes, Come
  <2>4. Parts' /\ Named'
    BY <2>3, PartsNext
  <2>5. ASSUME scope.atOnce = 1, NEW c \in Conns, Step(c) \/ Comes(c)
        PROVE  (OneCall /\ InOrder /\ PostsOnce)'
    <3>1. Step(c) \/ Come(c)
      BY <2>5 DEF Comes, Come
    <3>2. OneCall /\ InOrder /\ PostsOnce
      BY <2>5 DEF Once
    <3> QED BY <2>5, <3>1, <3>2, OneCallStep, PostsOnceStep
  <2>6. ASSUME scope.atOnce = 1,
               NoticeCloses \/ Reply \/ Lock \/ Unlock \/ Configure \/ UNCHANGED vars
        PROVE  (OneCall /\ InOrder /\ PostsOnce)'
    <3>1. UNCHANGED <<lastNotified, posts, pc, gen>>
      BY <2>6 DEF NoticeCloses, Reply, Lock, Unlock, Configure, flags, locals, vars
    <3>2. OneCall /\ InOrder /\ PostsOnce
      BY <2>6 DEF Once
    <3>3. OneCall'
      BY <3>1, <3>2 DEF OneCall, Calls
    <3> QED BY <3>1, <3>2, <3>3, NothingNoted
  <2> QED BY <2>1, <2>2, <2>4, <2>5, <2>6 DEF Once
<1>3. Once => NotifiedOnce
  BY DEF Once, PostsOnce, NotifiedOnce
<1> QED BY <1>1, <1>2, <1>3, PTL DEF ScopedSpec
=============================================================================
