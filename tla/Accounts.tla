------------------------------ MODULE Accounts ------------------------------
(***************************************************************************)
(* Accounts: AuthService, the tokens it signs, AuthGuard, and the save and *)
(* find hooks of the user schema.                                          *)
(*                                                                         *)
(* A handler reads the user's document, changes its copy and saves it.     *)
(* Mongoose writes the modified fields of the copy over whatever is stored *)
(* by then.  A request is a slot that holds the copy and the names of its  *)
(* modified fields.  bcrypt and AES are counted in layers: a secret can be *)
(* used only when exactly one layer is on it.                              *)
(***************************************************************************)
EXTENDS Integers, FiniteSets

CONSTANTS
    Emails,      \* addresses; the unique index allows one account for each
    Slots,       \* requests the server has in flight at once
    Codes,       \* one-time codes; each is generated once
    Passwords,
    NoCode,
    NoPassword,
    NoEmail,     \* the account of an idle slot
    CodeLife,    \* three minutes
    AccessLife,  \* one day
    AdminLife,   \* EXPIRESIN_ADMIN: the life of refresh and of reset tokens
    MaxTime      \* bound on the clock

NoTime == 0

ASSUME AccountsAssumption ==
    /\ NoCode \notin Codes /\ NoPassword \notin Passwords /\ NoEmail \notin Emails
    /\ CodeLife \in Nat /\ AccessLife \in Nat /\ AdminLife \in Nat /\ MaxTime \in Nat

VARIABLES
    users,      \* the users collection
    reqs,       \* the handler running in each slot
    mails,      \* the codes mailed
    tokens,     \* the tokens signed
    now,        \* the clock
    spent,      \* history: codes that opened a door and were then cleared
    late        \* history: codes stored after the account had been confirmed

vars == <<users, reqs, mails, tokens, now, spent, late>>

-----------------------------------------------------------------------------
(* State                                                                   *)

Fields == {"password", "phone", "code", "codeExpiration",
           "isConfirm", "isDeleted", "isDeletedAt"}

Secret == [text : Passwords \cup {NoPassword}, layers : Nat]

\* phone counts the layers of encryption; provider none: no such document.
UserDoc == [provider : {"none", "system", "google"}, password : Secret, phone : Nat,
            code : Codes \cup {NoCode}, codeExpiration : Nat,
            isConfirm : BOOLEAN, isDeleted : BOOLEAN, isDeletedAt : Nat]

NoDoc == [provider |-> "none", password |-> [text |-> NoPassword, layers |-> 0],
          phone |-> 0, code |-> NoCode, codeExpiration |-> NoTime,
          isConfirm |-> FALSE, isDeleted |-> FALSE, isDeletedAt |-> NoTime]

\* presented: the code the request gave, accepted at time at.
Request == [pc : {"idle", "signup", "google", "save", "sign"},
            email : Emails \cup {NoEmail}, doc : UserDoc, dirty : SUBSET Fields,
            generated : Codes \cup {NoCode}, presented : Codes \cup {NoCode}, at : Nat]

Idle == [pc |-> "idle", email |-> NoEmail, doc |-> NoDoc, dirty |-> {},
         generated |-> NoCode, presented |-> NoCode, at |-> NoTime]

Mail == [to : Emails, code : Codes, for : {"confirm", "reset"}, at : Nat]

Token == [type : {"access", "refresh", "reset"}, user : Emails, iat : Nat]

TypeOK ==
    /\ users \in [Emails -> UserDoc]
    /\ reqs \in [Slots -> Request]
    /\ mails \subseteq Mail
    /\ tokens \subseteq Token
    /\ now \in Nat
    /\ spent \subseteq Codes
    /\ late \subseteq Codes

Init ==
    /\ users = [e \in Emails |-> NoDoc]
    /\ reqs = [s \in Slots |-> Idle]
    /\ mails = {} /\ tokens = {} /\ spent = {} /\ late = {}
    /\ now = 1

Stored(e) == users[e].provider # "none"

Tick ==
    /\ now < MaxTime
    /\ now' = now + 1
    /\ UNCHANGED <<users, reqs, mails, tokens, spent, late>>

-----------------------------------------------------------------------------
(* The schema's hooks and mongoose's save                                  *)

\* post('findOne'): the copy's phone is decrypted, which marks it modified.
Loaded(doc) == IF doc.phone > 0 THEN [doc EXCEPT !.phone = @ - 1] ELSE doc

Touched(doc) == IF doc.phone > 0 THEN {"phone"} ELSE {}

\* Mistake: the hook does not ask what was modified.
HookedAll(dirty) == {"password", "phone"}

\* pre('save'): what is hashed or encrypted, and so written, by this save.
Hooked(dirty) == dirty \cap {"password", "phone"}

Sealed(doc, dirty) ==
    [doc EXCEPT !.password.layers = IF "password" \in Hooked(dirty) THEN @ + 1 ELSE @,
                !.phone = IF "phone" \in Hooked(dirty) THEN @ + 1 ELSE @]

\* Mistake: the whole copy is written.
MergedWhole(old, new, dirty) == new

\* What save writes: the modified fields, over what is stored now.
Merged(old, new, dirty) ==
    LET Pick(f) == IF f \in dirty THEN new[f] ELSE old[f]
    IN  [provider |-> old.provider, password |-> Pick("password"), phone |-> Pick("phone"),
         code |-> Pick("code"), codeExpiration |-> Pick("codeExpiration"),
         isConfirm |-> Pick("isConfirm"), isDeleted |-> Pick("isDeleted"),
         isDeletedAt |-> Pick("isDeletedAt")]

Written(old, doc, dirty) == Merged(old, Sealed(doc, dirty), dirty \cup Hooked(dirty))

\* A copy of e's document is read and changed by the handler, to be saved.
Begin(s, pc, e, doc, dirty, presented) ==
    /\ reqs[s].pc = "idle"
    /\ reqs' = [reqs EXCEPT ![s] =
                   [pc |-> pc, email |-> e, doc |-> doc,
                    dirty |-> dirty \cup Touched(users[e]), generated |-> NoCode,
                    presented |-> presented, at |-> now]]

\* The end of a request that signs nothing.
Save(s) ==
    LET r == reqs[s]
        e == r.email
    IN  /\ r.pc = "save"
        /\ users' = [users EXCEPT ![e] = Written(@, r.doc, r.dirty)]
        /\ spent' = spent \cup ({r.presented} \ {NoCode})
        /\ late' = IF "code" \in r.dirty /\ users[e].isConfirm /\ ~r.doc.isConfirm
                   THEN late \cup ({r.doc.code} \ {NoCode})
                   ELSE late
        /\ reqs' = [reqs EXCEPT ![s] = Idle]
        /\ UNCHANGED <<mails, tokens, now>>

-----------------------------------------------------------------------------
(* Tokens                                                                  *)

Life(type) == IF type = "access" THEN AccessLife ELSE AdminLife

Signed(type, e) == [type |-> type, user |-> e, iat |-> now]

\* Mistake: a token of any type is good for everything.
VerifiesAnyType(t, type) == now < t.iat + Life(type)

Verifies(t, type) ==
    /\ t.type = type
    /\ now < t.iat + Life(type)

\* isDeletedAt has milliseconds and iat has seconds: at equality either may be
\* the later, and a refusal changes nothing.
Predates(t, doc) == t.iat < doc.isDeletedAt

-----------------------------------------------------------------------------
(* Codes                                                                   *)

Fresh(c) == \A m \in mails : m.code # c

\* The mail leaves at once; nobody waits for it.
SendEmail(e, c, for) ==
    mails' = mails \cup {[to |-> e, code |-> c, for |-> for, at |-> now]}

WithCode(doc, c) == [doc EXCEPT !.code = c, !.codeExpiration = now + CodeLife]

SignupRead(s, e, p, c) ==
    /\ reqs[s].pc = "idle"
    /\ ~Stored(e)
    /\ Fresh(c)
    /\ SendEmail(e, c, "confirm")
    /\ reqs' = [reqs EXCEPT ![s] =
                   [Idle EXCEPT !.pc = "signup", !.email = e, !.generated = c,
                       !.doc = [NoDoc EXCEPT !.provider = "system", !.password.text = p]]]
    /\ UNCHANGED <<users, tokens, now, spent, late>>

\* The unique index refuses a second account of the address.  The copy the
\* second save starts from is the document just created.
SignupCreate(s) ==
    LET r == reqs[s]
        doc == Sealed(r.doc, {"password", "phone"})
    IN  /\ r.pc = "signup"
        /\ ~Stored(r.email)
        /\ users' = [users EXCEPT ![r.email] = doc]
        /\ reqs' = [reqs EXCEPT ![s] =
                       [@ EXCEPT !.pc = "save", !.doc = WithCode(doc, r.generated),
                                 !.dirty = {"code", "codeExpiration"}]]
        /\ UNCHANGED <<mails, tokens, now, spent, late>>

\* reSendCode (of an account not yet confirmed) and forgetPassword (of a
\* confirmed one).
AskCode(s, e, c, for) ==
    /\ Stored(e)
    /\ users[e].isConfirm = (for = "reset")
    /\ Fresh(c)
    /\ SendEmail(e, c, for)
    /\ Begin(s, "save", e, WithCode(Loaded(users[e]), c), {"code", "codeExpiration"}, NoCode)
    /\ UNCHANGED <<users, tokens, now, spent, late>>

ReSendCode(s, e, c) == AskCode(s, e, c, "confirm")

ForgetPassword(s, e, c) == AskCode(s, e, c, "reset")

\* Mistake: the code is kept.
ConfrimKeepingCode(s, e, c) ==
    /\ Stored(e) /\ ~users[e].isConfirm
    /\ users[e].code = c
    /\ Begin(s, "save", e, [Loaded(users[e]) EXCEPT !.isConfirm = TRUE], {"isConfirm"}, c)
    /\ UNCHANGED <<users, mails, tokens, now, spent, late>>

\* The code's expiry is not looked at.
Confrim(s, e, c) ==
    /\ Stored(e) /\ ~users[e].isConfirm
    /\ users[e].code = c
    /\ Begin(s, "save", e, [Loaded(users[e]) EXCEPT !.isConfirm = TRUE, !.code = NoCode],
             {"isConfirm", "code"}, c)
    /\ UNCHANGED <<users, mails, tokens, now, spent, late>>

\* Mistake: the code's expiry is not looked at.
ConfirmForgetPasswordAnytime(s, e, c) ==
    /\ Stored(e) /\ users[e].isConfirm
    /\ users[e].code = c
    /\ Begin(s, "sign", e, [Loaded(users[e]) EXCEPT !.code = NoCode], {"code"}, c)
    /\ UNCHANGED <<users, mails, tokens, now, spent, late>>

ConfirmForgetPassword(s, e, c) ==
    /\ Stored(e) /\ users[e].isConfirm
    /\ users[e].code = c
    /\ users[e].codeExpiration >= now
    /\ Begin(s, "sign", e, [Loaded(users[e]) EXCEPT !.code = NoCode], {"code"}, c)
    /\ UNCHANGED <<users, mails, tokens, now, spent, late>>

\* Mistake: the answer is signed and the cleared code is not saved.
SaveAndSignUnsaved(s) ==
    LET r == reqs[s]
    IN  /\ r.pc = "sign"
        /\ tokens' = tokens \cup {Signed("reset", r.email)}
        /\ spent' = spent \cup {r.presented}
        /\ reqs' = [reqs EXCEPT ![s] = Idle]
        /\ UNCHANGED <<users, mails, now, late>>

\* The end of confirmForgetPassword.
SaveAndSign(s) ==
    LET r == reqs[s]
        e == r.email
    IN  /\ r.pc = "sign"
        /\ users' = [users EXCEPT ![e] = Written(@, r.doc, r.dirty)]
        /\ tokens' = tokens \cup {Signed("reset", e)}
        /\ spent' = spent \cup {r.presented}
        /\ reqs' = [reqs EXCEPT ![s] = Idle]
        /\ UNCHANGED <<mails, now, late>>

-----------------------------------------------------------------------------
(* Passwords, sessions and freezing                                        *)

\* The code is cleared only if the copy has one: otherwise nothing is modified.
ResetPassword(s, t, p) ==
    LET doc == users[t.user]
    IN  /\ t \in tokens /\ Verifies(t, "reset")
        /\ Stored(t.user)
        /\ Begin(s, "save", t.user,
                 [Loaded(doc) EXCEPT !.password = [text |-> p, layers |-> 0], !.code = NoCode],
                 {"password"} \cup (IF doc.code # NoCode THEN {"code"} ELSE {}), NoCode)
        /\ UNCHANGED <<users, mails, tokens, now, spent, late>>

SignSession(e) == tokens' = tokens \cup {Signed("access", e), Signed("refresh", e)}

\* Whether the account is frozen is not looked at.
Login(e, p) ==
    /\ Stored(e) /\ users[e].isConfirm
    /\ users[e].password = [text |-> p, layers |-> 1]
    /\ SignSession(e)
    /\ UNCHANGED <<users, reqs, mails, now, spent, late>>

GoogleLogin(e) ==
    /\ users[e].provider = "google"
    /\ SignSession(e)
    /\ UNCHANGED <<users, reqs, mails, now, spent, late>>

GoogleRead(s, e) ==
    /\ reqs[s].pc = "idle"
    /\ ~Stored(e)
    /\ reqs' = [reqs EXCEPT ![s] = [Idle EXCEPT !.pc = "google", !.email = e]]
    /\ UNCHANGED <<users, mails, tokens, now, spent, late>>

GoogleCreate(s) ==
    LET e == reqs[s].email
    IN  /\ reqs[s].pc = "google"
        /\ ~Stored(e)
        /\ users' = [users EXCEPT ![e] =
                        [NoDoc EXCEPT !.provider = "google", !.isConfirm = TRUE]]
        /\ SignSession(e)
        /\ reqs' = [reqs EXCEPT ![s] = Idle]
        /\ UNCHANGED <<mails, now, spent, late>>

\* AuthGuard: who may go on to a guarded handler, with this copy of the user.
Admits(t) ==
    /\ t \in tokens /\ Verifies(t, "access")
    /\ Stored(t.user)
    /\ ~users[t.user].isDeleted
    /\ ~Predates(t, users[t.user])

FreezeAccount(s, t) ==
    /\ Admits(t)
    /\ Begin(s, "save", t.user,
             [Loaded(users[t.user]) EXCEPT !.isDeletedAt = now, !.isDeleted = TRUE],
             {"isDeletedAt", "isDeleted"}, NoCode)
    /\ UNCHANGED <<users, mails, tokens, now, spent, late>>

RefreshToken(t) ==
    /\ t \in tokens /\ Verifies(t, "refresh")
    /\ Stored(t.user)
    /\ ~Predates(t, users[t.user])
    /\ tokens' = tokens \cup {Signed("access", t.user)}
    /\ UNCHANGED <<users, reqs, mails, now, spent, late>>

\* The database throws, the index refuses, or the server stops.
Fail(s) ==
    /\ reqs[s].pc # "idle"
    /\ reqs' = [reqs EXCEPT ![s] = Idle]
    /\ UNCHANGED <<users, mails, tokens, now, spent, late>>

Next ==
    \/ Tick
    \/ \E e \in Emails : GoogleLogin(e) \/ \E p \in Passwords : Login(e, p)
    \/ \E t \in tokens : RefreshToken(t)
    \/ \E s \in Slots :
          \/ \E e \in Emails, c \in Codes :
                \/ \E p \in Passwords : SignupRead(s, e, p, c)
                \/ ReSendCode(s, e, c)
                \/ ForgetPassword(s, e, c)
                \/ Confrim(s, e, c)
                \/ ConfirmForgetPassword(s, e, c)
          \/ \E e \in Emails : GoogleRead(s, e)
          \/ \E t \in tokens : FreezeAccount(s, t) \/ \E p \in Passwords : ResetPassword(s, t, p)
          \/ SignupCreate(s)
          \/ GoogleCreate(s)
          \/ Save(s)
          \/ SaveAndSign(s)
          \/ Fail(s)

Spec == Init /\ [][Next]_vars

-----------------------------------------------------------------------------
(* Safety                                                                  *)

\* However saves of old copies overlap, a stored password is hashed once and a
\* phone encrypted once: login and the profile can still read them.  The hooks
\* put a layer on at each save that has the field modified, and the find hook
\* modifies the phone of every copy it loads.
SecretsSealedOnce ==
    \A e \in Emails : Stored(e) =>
        /\ users[e].phone = (IF users[e].provider = "system" THEN 1 ELSE 0)
        /\ users[e].password.layers = (IF users[e].password.text = NoPassword THEN 0 ELSE 1)

\* A code that opened a door is never in the database again, although requests
\* that hold older copies of the account go on to save them.
SpentCodeIsGone == \A e \in Emails : users[e].code \notin spent

\* A code mailed to confirm an address waits on a confirmed account, where it
\* would open a password reset, only if its own request was overtaken by the
\* confirmation.
PurposeKept ==
    \A e \in Emails, m \in mails :
        users[e].isConfirm /\ users[e].code = m.code /\ m.for = "confirm" => m.code \in late

\* A request about to sign a reset token was given a code that had been mailed
\* to that account; a code mailed for a reset was within its life.
ResetEarnedInTime ==
    \A s \in Slots : reqs[s].pc = "sign" =>
        \E m \in mails :
            /\ m.to = reqs[s].email /\ m.code = reqs[s].presented
            /\ m.for = "reset" => reqs[s].at <= m.at + CodeLife

-----------------------------------------------------------------------------
(* Action properties                                                       *)

\* No handler, with however old a copy, makes a frozen account live again, or
\* moves the date that cuts off its tokens, unless another freeze under way had
\* read the account before.
FrozenIsFinal ==
    [][\A e \in Emails : users[e].isDeleted =>
          /\ users'[e].isDeleted
          /\ users'[e].isDeletedAt # users[e].isDeletedAt =>
                \E s \in Slots :
                    /\ reqs[s].email = e /\ "isDeleted" \in reqs[s].dirty
                    /\ users'[e].isDeletedAt = reqs[s].at]_vars

-----------------------------------------------------------------------------
(* The contract                                                            *)

Standing(doc) ==
    IF doc.provider = "none" THEN "none"
    ELSE IF doc.isConfirm THEN "confirmed" ELSE "unconfirmed"

HoldersOf(types) == {t.user : t \in {u \in tokens : u.type \in types}}

\* What a request will do to the account when it saves; one that only stores a
\* new code does nothing the contract sees.
Grant(r) ==
    CASE r.pc = "sign" -> [what |-> "trust", to |-> r.email, with |-> r.presented]
      [] r.pc = "save" /\ "isConfirm" \in r.dirty ->
             [what |-> "confirm", to |-> r.email, with |-> r.presented]
      [] r.pc = "save" /\ "password" \in r.dirty ->
             [what |-> "change", to |-> r.email, with |-> r.doc.password.text]
      [] r.pc = "save" /\ "isDeleted" \in r.dirty -> [what |-> "freeze", to |-> r.email]
      [] OTHER -> [what |-> "nothing"]

Contract == INSTANCE AccountContract WITH
    standing <- [e \in Emails |-> Standing(users[e])],
    password <- [e \in Emails |-> users[e].password.text],
    frozen <- {e \in Emails : users[e].isDeleted},
    mailbox <- [e \in Emails |-> {m.code : m \in {n \in mails : n.to = e}}],
    trusted <- HoldersOf({"reset"}),
    members <- HoldersOf({"access", "refresh"}),
    granted <- [s \in Slots |-> Grant(reqs[s])]

\* The handlers, with their copies, hooks and tokens, keep the contract of the
\* accounts: an address is confirmed and a password changed only through codes
\* its own mailbox got and nobody had used when they were given.
ImplementsContract == Contract!Spec

=============================================================================
