------------------------------- MODULE SignIn -------------------------------
(* Signing in with the master password: the terminal's or the overlay's    *)
(* call (main.rs), AuthManager::login_password (auth.rs), the requests of   *)
(* BitwardenApiClient::login_password (api.rs) and the security key         *)
(* (webauthn.rs), against a server that may ask for a second factor or for  *)
(* the code it mailed to verify a new device.  The model ends where the     *)
(* tokens are handed to the caller; AccountStore takes over from there.     *)
EXTENDS Naturals, Sequences, SequencesExt

CONSTANT NoProof    \* no code given

(* Provider numbers, and one for none given.                               *)
Totp     == 0
Mail     == 1
YubiKey  == 3
WebAuthn == 7
Unset    == 99

VARIABLES
  account,   \* the server's view of this account, and who is signing in
  mailed,    \* the server has mailed the code of the second factor
  pc,        \* where the sign-in stands
  call,      \* the arguments of AuthManager::login_password
  form,      \* the proof in the request under way
  round,     \* how often main called login_password
  refused,   \* the proofs the server has examined and turned down
  outcome    \* what login_password returned

signVars == <<account, mailed, pc, call, form, round, refused, outcome>>

Call(code, provider, otp) == [code |-> code, provider |-> provider, otp |-> otp]
NoCall == Call(NoProof, Unset, NoProof)
Outcome(kind, providers) == [kind |-> kind, providers |-> providers]
Pending == Outcome("pending", <<>>)

(* The proofs a person can type: one code for each method, the code of the *)
(* new-device mail, a wrong one, a blank one.  An honest user types the one *)
(* asked for.                                                              *)
CodeFor == [p \in {Totp, Mail, YubiKey} |->
              IF p = Totp THEN "totp" ELSE IF p = Mail THEN "mail" ELSE "touch"]
Typed   == {"totp", "mail", "touch", "device", "wrong", "blank"}
Assertion == <<"assertion", "nextAssertion">>   \* the key's, in each round
Types(right) == IF account.honest THEN {right} ELSE Typed

ASSUME ProofAssumption == NoProof \notin Typed \cup Range(Assertion)

(* The server: whether a request's proof is what the account asks for.     *)
Proves(f) ==
  /\ account.device => f.otp = "device"
  /\ account.methods # <<>> =>
       \/ f.provider \in DOMAIN CodeFor /\ f.code = CodeFor[f.provider]
                                       /\ f.provider \in Range(account.methods)
                                       /\ (f.provider = Mail => mailed)
       \/ f.provider = WebAuthn /\ f.code = Assertion[round]
                                /\ WebAuthn \in Range(account.methods)
                                /\ account.key = "holds"

(* Err(TwoFactorRequired): the providers the body lists, [0] when it lists *)
(* none that can be read.                                                  *)
ProvidersOf(methods) == IF methods = <<>> THEN <<Totp>> ELSE methods

(* select_credential: each registered credential is probed; the first the  *)
(* key recognises, else the first it did not reject, is the one to assert. *)
SelectCredential(allowed, probe) ==
  LET first(answers) == SelectInSeq(allowed, LAMBDA c : probe[c] \in answers)
      sure == first({"success"})
      fallback == first({"other"})
  IN IF sure # 0 THEN sure ELSE fallback

(* The key answers the probe of credential "old" as one of another key.    *)
KeyProbe == CASE account.key = "holds"  -> [old |-> "rejected", new |-> "success"]
              [] account.key = "mute"   -> [old |-> "other", new |-> "other"]
              [] OTHER                  -> [old |-> "rejected", new |-> "rejected"]

(* find_fido2_device: fido2-token lists a key.                              *)
FindDevice == account.key # "absent"

(* parse_webauthn_challenge: whether the answer holds a challenge.          *)
ParseWebauthnChallenge == IF account.honest THEN {TRUE} ELSE BOOLEAN

(* perform_fido2_assertion: a key, a credential of its, and a touch.        *)
KeyAsserts == FindDevice /\ SelectCredential(<<"old", "new">>, KeyProbe) # 0
Touches    == IF account.honest THEN {TRUE} ELSE BOOLEAN

(* The method login_password suggests when it asks for a second factor.    *)
DefaultProvider(providers) ==
  IF WebAuthn \in Range(providers) /\ FindDevice THEN WebAuthn
  ELSE IF Totp \in Range(providers) THEN Totp
  ELSE IF Mail \in Range(providers) THEN Mail
  ELSE IF WebAuthn \in Range(providers) THEN WebAuthn ELSE providers[1]

SignInit(accounts) ==
  /\ account \in accounts /\ mailed = FALSE
  /\ pc = "begin" /\ call = NoCall /\ form = NoCall
  /\ round = 0 /\ refused = {} /\ outcome = Pending

(* parse_auth_payload: the overlay sends the password alone or with a code, *)
(* a provider and the code mailed for a new device, any of which may be     *)
(* missing; a terminal gives the password alone.                            *)
Payloads ==
  IF account.tty THEN {NoCall}
  ELSE [code : Typed \cup {NoProof}, provider : {Unset, Totp, Mail, WebAuthn},
        otp : {NoProof, "device", "wrong"}]

(* main, LoginPassword.                                                     *)
StartSignIn ==
  /\ pc = "begin" /\ call' \in Payloads
  /\ pc' = "prelogin" /\ round' = 1
  /\ UNCHANGED <<account, mailed, form, refused, outcome>>

Return(kind, providers) == outcome' = Outcome(kind, providers) /\ pc' = "returned"

(* prelogin: the identity address, and the API address when the first does  *)
(* not know the path; anything but success ends the call.                   *)
Prelogin ==
  /\ pc = "prelogin"
  /\ \/ pc' = "send" /\ UNCHANGED outcome
     \/ account.faults /\ pc' = "preloginApi" /\ UNCHANGED outcome
     \/ account.faults /\ Return("error", <<>>)
  /\ UNCHANGED <<account, mailed, call, form, round, refused>>

PreloginFallback ==
  /\ pc = "preloginApi"
  /\ \/ pc' = "send" /\ UNCHANGED outcome
     \/ Return("error", <<>>)
  /\ UNCHANGED <<account, mailed, call, form, round, refused>>

(* Mutant: a code is sent as the authenticator's, whatever it is.           *)
FormOfTotp ==
  IF call.otp # NoProof THEN Call(NoProof, Unset, call.otp)
  ELSE IF call.code = NoProof THEN NoCall ELSE Call(call.code, Totp, NoProof)

(* The form: the mailed code if there is one, else the code, with provider  *)
(* 0 when the caller named none.                                            *)
FirstForm ==
  IF call.otp # NoProof THEN Call(NoProof, Unset, call.otp)
  ELSE IF call.code = NoProof THEN NoCall
  ELSE Call(call.code, IF call.provider = Unset THEN Totp ELSE call.provider, NoProof)

Send ==
  /\ pc = "send"
  /\ form' = FirstForm /\ pc' = "sent"
  /\ UNCHANGED <<account, mailed, call, round, refused, outcome>>

(* post_identity_connect_token: an address that does not know the path is   *)
(* followed by the base address, on a server that is not the cloud's.       *)
NotFound ==
  /\ pc = "sent" /\ account.faults
  /\ IF account.cloud THEN Return("error", <<>>)
     ELSE pc' = "sentToBase" /\ UNCHANGED outcome
  /\ UNCHANGED <<account, mailed, call, form, round, refused>>

Examined == pc \in {"sent", "sentToBase"}

(* What the text of an error is taken for: "hinted" is a demand for a code  *)
(* that names no provider.                                                  *)
SanitizeAuthError == {"error", "hinted", "new_device"}

(* No answer, an answer that is too long, a server error or tokens whose    *)
(* user key does not open end the call.                                     *)
Fails ==
  /\ Examined /\ account.faults
  /\ \E kind \in SanitizeAuthError :
       Return(kind, IF kind = "hinted" THEN <<Totp>> ELSE <<>>)
  /\ UNCHANGED <<account, mailed, call, form, round, refused>>

(* The tokens came, and the user key in them opens with the master key.     *)
TokensGranted ==
  /\ Examined \/ pc = "retried"
  /\ account.password /\ Proves(form)
  /\ Return("ok", <<>>)
  /\ UNCHANGED <<account, mailed, call, form, round, refused>>

WrongPassword ==
  /\ Examined /\ ~account.password
  /\ Return("error", <<>>)
  /\ UNCHANGED <<account, mailed, call, form, round, refused>>

Given(code) == code \notin {NoProof, "blank"}

NoteRefusal == refused' = IF form = NoCall THEN refused ELSE refused \cup {form}

(* One request more with another form; if it does not bring the tokens, the *)
(* call returns what the first one was answered.                            *)
RetryOrReturn(retry, f, kind, providers) ==
  IF retry
  THEN form' = f /\ pc' = "retried" /\ outcome' = Outcome(kind, providers)
  ELSE Return(kind, providers) /\ UNCHANGED form

(* "new device verification": a code that came without naming the mailed    *)
(* one is tried once more as the mailed code, and as nothing else.          *)
AsksDevice ==
  /\ Examined /\ account.password /\ account.device /\ form.otp # "device"
  /\ RetryOrReturn(Given(call.code) /\ call.otp = NoProof,
                   Call(NoProof, Unset, call.code), "new_device", <<>>)
  /\ NoteRefusal /\ UNCHANGED <<account, mailed, call, round>>

(* Mutant: a code is tried as the mailed one though it was given as one.    *)
AnyMailRetry(providers) ==
  Given(call.code) /\ Totp \notin Range(providers) /\ Mail \in Range(providers)

(* A second factor: a code given without a provider is tried once more as   *)
(* the mailed one when that is offered and the authenticator is not.        *)
MailRetry(providers) ==
  /\ Given(call.code) /\ call.provider = Unset
  /\ Totp \notin Range(providers) /\ Mail \in Range(providers)

AsksTwoFactor ==
  /\ Examined /\ account.password /\ ~Proves(form)
  /\ account.device => form.otp = "device"
  /\ LET providers == ProvidersOf(account.methods)
     IN RetryOrReturn(MailRetry(providers), [form EXCEPT !.provider = Mail],
                      "two_factor", providers)
  /\ mailed' = (mailed \/ account.methods = <<Mail>>)
  /\ NoteRefusal /\ UNCHANGED <<account, call, round>>

(* The retry's answer is not looked into, unless it brings tokens: those    *)
(* whose key does not open are an error.                                    *)
RetryFails ==
  /\ pc = "retried" /\ (account.faults \/ ~Proves(form))
  /\ pc' = "returned"
  /\ outcome' \in {outcome} \cup (IF Proves(form) THEN {Outcome("error", <<>>)} ELSE {})
  /\ NoteRefusal /\ UNCHANGED <<account, mailed, call, form, round>>

(* send_two_factor_email, from the overlay or another terminal, before a    *)
(* call or before a code is typed: the server mails the code to who gives   *)
(* the password, if that is a method of the account.                        *)
SendTwoFactorEmail ==
  /\ pc \in {"begin", "answered"} /\ ~mailed
  /\ account.password /\ Mail \in Range(account.methods)
  /\ mailed' = TRUE
  /\ UNCHANGED <<account, pc, call, form, round, refused, outcome>>

(* login_password, TwoFactorRequired: with WebAuthn asked for, or the only  *)
(* method, and no code given, the key is asked and login_password calls     *)
(* itself with the assertion.                                               *)
WantsKey ==
  /\ outcome.kind = "two_factor" /\ call.code = NoProof
  /\ \/ call.provider = WebAuthn
     \/ call.provider = Unset /\ outcome.providers = <<WebAuthn>>

AssertKey ==
  /\ pc = "returned" /\ WantsKey
  /\ \E challenge \in ParseWebauthnChallenge, touch \in Touches :
       IF challenge /\ KeyAsserts /\ touch
       THEN /\ call' = Call(Assertion[round], WebAuthn, call.otp)
            /\ pc' = "prelogin" /\ outcome' = Pending
       ELSE pc' = "answered" /\ UNCHANGED <<call, outcome>>
  /\ UNCHANGED <<account, mailed, form, round, refused>>

NothingToAssert ==
  /\ pc = "returned" /\ ~WantsKey
  /\ pc' = "answered"
  /\ UNCHANGED <<account, mailed, call, form, round, refused, outcome>>

(* main: what failed for want of a code at a terminal is asked for, once.   *)
MayAsk == account.tty /\ round = 1 /\ outcome.kind \in {"two_factor", "hinted", "new_device"}

Again(c) ==
  /\ call' = c /\ round' = 2 /\ pc' = "prelogin" /\ outcome' = Pending
  /\ UNCHANGED <<account, mailed, form, refused>>

Finish ==
  /\ pc' = "done"
  /\ UNCHANGED <<account, mailed, call, form, round, refused, outcome>>

AskDevice ==
  /\ pc = "answered" /\ MayAsk /\ outcome.kind = "new_device"
  /\ \E code \in Types("device") :
       IF Given(code) THEN Again(Call(NoProof, Unset, code)) ELSE Finish

AskMethod ==
  /\ pc = "answered" /\ MayAsk /\ outcome.kind # "new_device"
  /\ \E p \in IF account.honest THEN {DefaultProvider(outcome.providers)}
                ELSE Range(outcome.providers) :
       IF p = WebAuthn THEN Again(Call(NoProof, WebAuthn, NoProof))
       ELSE \E code \in Types(IF p = Mail /\ ~mailed THEN "blank" ELSE CodeFor[p]) :
              IF Given(code) THEN Again(Call(code, p, NoProof)) ELSE Finish

Leave == pc = "answered" /\ ~MayAsk /\ Finish

SignNext ==
  \/ StartSignIn \/ Prelogin \/ PreloginFallback \/ Send \/ NotFound \/ Fails
  \/ TokensGranted \/ WrongPassword \/ AsksDevice \/ AsksTwoFactor \/ RetryFails
  \/ SendTwoFactorEmail
  \/ AssertKey \/ NothingToAssert \/ AskDevice \/ AskMethod \/ Leave

(* A sign-in ends: login_password calls itself with the key's assertion     *)
(* once (auth.rs:421), and main asks for a code once (main.rs:914).         *)
SignInEnded == pc = "done"

(* A user at the terminal who takes the method that is suggested and types  *)
(* what is asked for is let in by a server that makes one demand (either    *)
(* the device or a second factor), unless a request fails, the key is the   *)
(* wrong one or the code suggested was not mailed (the terminal asks nobody *)
(* to mail it): each code goes out under its own method's provider.         *)
Suggests(p) == account.methods # <<>> /\ DefaultProvider(account.methods) = p
HonestUser ==
  /\ account.honest /\ account.tty /\ account.password /\ ~account.faults
  /\ Suggests(WebAuthn) => account.key = "holds"
  /\ Suggests(Mail) => mailed
  /\ ~(account.device /\ account.methods # <<>>)
HonestUserSignsIn == (pc = "done" /\ HonestUser) => outcome.kind = "ok"

(* A second-factor code the server has turned down is not sent to it again  *)
(* under the same provider: a retry changes what a code is sent as.  (The   *)
(* mailed code is: given together with provider 7, it goes out again in     *)
(* place of the assertion the key was touched for.)                         *)
NothingResent ==
  [][pc' \in {"sent", "retried"} /\ form'.code # NoProof
     => form' \notin refused']_signVars
=============================================================================
