--------------------------- MODULE AccountsProofs ---------------------------
(***************************************************************************)
(* Proofs about Accounts, for every number of accounts, requests and codes *)
(* and all lives of codes and tokens.                                      *)
(***************************************************************************)
EXTENDS Accounts, TLAPS

-----------------------------------------------------------------------------
(* The hooks and the save                                                  *)

\* The seal of a save.
LEMMA SealedFields ==
    ASSUME NEW doc \in UserDoc, NEW dirty \in SUBSET Fields
    PROVE  /\ Sealed(doc, dirty) \in UserDoc
           /\ Sealed(doc, dirty) =
                  [doc EXCEPT !.password = IF "password" \in dirty
                                  THEN [doc.password EXCEPT !.layers = @ + 1] ELSE @,
                              !.phone = IF "phone" \in dirty THEN @ + 1 ELSE @]
<1>1. /\ doc.phone + 1 \in Nat /\ doc.password.layers + 1 \in Nat
      /\ doc.password \in Secret
  BY DEF UserDoc, Secret
<1> DEFINE layered == [doc EXCEPT !.password.layers =
                           IF "password" \in Hooked(dirty) THEN @ + 1 ELSE @]
<1>2. /\ layered = [doc EXCEPT !.password =
               IF "password" \in dirty THEN [doc.password EXCEPT !.layers = @ + 1]
               ELSE doc.password]
      /\ Sealed(doc, dirty) = [layered EXCEPT !.phone = IF "phone" \in dirty THEN @ + 1 ELSE @]
  BY <1>1 DEF UserDoc, Secret, Sealed, Hooked
<1>3. layered \in UserDoc
  BY <1>1, <1>2 DEF UserDoc, Secret
<1> QED
  BY <1>1, <1>2, <1>3 DEF UserDoc

\* What a save does to the secrets: the copy's value with its seal, or the stored one.
LEMMA WrittenFields ==
    ASSUME NEW old \in UserDoc, NEW doc \in UserDoc, NEW dirty \in SUBSET Fields
    PROVE  LET w == Written(old, doc, dirty)
           IN  /\ w \in UserDoc
               /\ w.provider = old.provider
               /\ w.password = IF "password" \in dirty
                               THEN [doc.password EXCEPT !.layers = @ + 1] ELSE old.password
               /\ w.phone = IF "phone" \in dirty THEN doc.phone + 1 ELSE old.phone
<1> DEFINE sealed == Sealed(doc, dirty)
<1>1. /\ sealed \in UserDoc
      /\ sealed = [doc EXCEPT !.password = IF "password" \in dirty
                                  THEN [doc.password EXCEPT !.layers = @ + 1]
                                  ELSE doc.password,
                              !.phone = IF "phone" \in dirty THEN doc.phone + 1
                                        ELSE doc.phone]
  BY SealedFields
<1> HIDE DEF sealed
<1>2. /\ sealed \in UserDoc
      /\ sealed.code = doc.code /\ sealed.codeExpiration = doc.codeExpiration
      /\ sealed.isConfirm = doc.isConfirm /\ sealed.isDeleted = doc.isDeleted
      /\ sealed.isDeletedAt = doc.isDeletedAt
      /\ "password" \in dirty => sealed.password = [doc.password EXCEPT !.layers = @ + 1]
      /\ "phone" \in dirty => sealed.phone = doc.phone + 1
  BY <1>1 DEF UserDoc
<1>3. dirty \cup Hooked(dirty) = dirty
  BY DEF Hooked
<1>4. Written(old, doc, dirty) = Merged(old, sealed, dirty)
  BY <1>3 DEF Written, sealed
<1>5. Merged(old, sealed, dirty) =
        [provider |-> old.provider,
         password |-> IF "password" \in dirty THEN sealed.password ELSE old.password,
         phone |-> IF "phone" \in dirty THEN sealed.phone ELSE old.phone,
         code |-> IF "code" \in dirty THEN sealed.code ELSE old.code,
         codeExpiration |-> IF "codeExpiration" \in dirty
                            THEN sealed.codeExpiration ELSE old.codeExpiration,
         isConfirm |-> IF "isConfirm" \in dirty THEN sealed.isConfirm ELSE old.isConfirm,
         isDeleted |-> IF "isDeleted" \in dirty THEN sealed.isDeleted ELSE old.isDeleted,
         isDeletedAt |-> IF "isDeletedAt" \in dirty
                         THEN sealed.isDeletedAt ELSE old.isDeletedAt]
  BY DEF Merged
<1> QED
  BY <1>2, <1>4, <1>5 DEF UserDoc

\* What a save does to the flags, the freeze date and the code: the modified ones
\* come from the copy.
LEMMA WrittenFlags ==
    ASSUME NEW old \in UserDoc, NEW doc \in UserDoc, NEW dirty \in SUBSET Fields
    PROVE  /\ "isDeleted" \in dirty => (Written(old, doc, dirty).isDeleted <=> doc.isDeleted)
           /\ "isDeleted" \notin dirty => (Written(old, doc, dirty).isDeleted <=> old.isDeleted)
           /\ "isConfirm" \in dirty => (Written(old, doc, dirty).isConfirm <=> doc.isConfirm)
           /\ "isConfirm" \notin dirty => (Written(old, doc, dirty).isConfirm <=> old.isConfirm)
           /\ Written(old, doc, dirty).code = IF "code" \in dirty THEN doc.code ELSE old.code
           /\ Written(old, doc, dirty).codeExpiration =
                IF "codeExpiration" \in dirty THEN doc.codeExpiration ELSE old.codeExpiration
           /\ Written(old, doc, dirty).isDeletedAt =
                IF "isDeletedAt" \in dirty THEN doc.isDeletedAt ELSE old.isDeletedAt
<1> DEFINE sealed == Sealed(doc, dirty)
<1>1. /\ sealed.isDeleted = doc.isDeleted /\ sealed.isDeletedAt = doc.isDeletedAt
      /\ sealed.isConfirm = doc.isConfirm
      /\ sealed.code = doc.code /\ sealed.codeExpiration = doc.codeExpiration
  <2>1. sealed \in UserDoc
        /\ sealed = [doc EXCEPT !.password = IF "password" \in dirty
                                  THEN [doc.password EXCEPT !.layers = @ + 1]
                                  ELSE doc.password,
                              !.phone = IF "phone" \in dirty THEN doc.phone + 1
                                        ELSE doc.phone]
    BY SealedFields
  <2> HIDE DEF sealed
  <2> QED
    BY <2>1 DEF UserDoc
<1> HIDE DEF sealed
<1>2. dirty \cup Hooked(dirty) = dirty
  BY DEF Hooked
<1>3. Written(old, doc, dirty) = Merged(old, sealed, dirty)
  BY <1>2 DEF Written, sealed
<1>4. /\ Merged(old, sealed, dirty).isDeleted =
           IF "isDeleted" \in dirty THEN sealed.isDeleted ELSE old.isDeleted
      /\ Merged(old, sealed, dirty).isConfirm =
           IF "isConfirm" \in dirty THEN sealed.isConfirm ELSE old.isConfirm
      /\ Merged(old, sealed, dirty).code =
           IF "code" \in dirty THEN sealed.code ELSE old.code
      /\ Merged(old, sealed, dirty).codeExpiration =
           IF "codeExpiration" \in dirty THEN sealed.codeExpiration ELSE old.codeExpiration
      /\ Merged(old, sealed, dirty).isDeletedAt =
           IF "isDeletedAt" \in dirty THEN sealed.isDeletedAt ELSE old.isDeletedAt
  BY DEF Merged
<1> QED
  BY <1>1, <1>3, <1>4

\* The copy a handler gets differs from the document only in its phone.
LEMMA LoadedFields ==
    ASSUME NEW doc \in UserDoc
    PROVE  /\ Loaded(doc) \in UserDoc
           /\ Touched(doc) \in SUBSET {"phone"}
           /\ \A p \in Nat : doc.phone = p => Loaded(doc) = [doc EXCEPT !.phone = IF p > 0 THEN p - 1 ELSE p]
           /\ "phone" \in Touched(doc) <=> doc.phone > 0
  BY DEF Loaded, Touched, UserDoc

-----------------------------------------------------------------------------
(* Types                                                                   *)

\* What a handler under way relies on without looking: its account exists as an
\* address, and before it signs a reset token it was given a code.
RequestsTyped ==
    \A s \in Slots :
        /\ reqs[s].pc # "idle" => reqs[s].email \in Emails
        /\ reqs[s].pc = "sign" => reqs[s].presented \in Codes

TInv == TypeOK /\ RequestsTyped

\* The copies handlers make of a document.
LEMMA CopyTyped ==
    ASSUME NEW doc \in UserDoc, NEW c \in Codes \cup {NoCode}, NEW t \in Nat,
           NEW password \in Secret
    PROVE  /\ [Loaded(doc) EXCEPT !.isConfirm = TRUE, !.code = NoCode] \in UserDoc
           /\ [Loaded(doc) EXCEPT !.code = NoCode] \in UserDoc
           /\ [Loaded(doc) EXCEPT !.isDeletedAt = t, !.isDeleted = TRUE] \in UserDoc
           /\ [Loaded(doc) EXCEPT !.password = password, !.code = NoCode] \in UserDoc
           /\ [doc EXCEPT !.code = c, !.codeExpiration = t] \in UserDoc
           /\ [Loaded(doc) EXCEPT !.code = c, !.codeExpiration = t] \in UserDoc
<1>1. PICK d : d = Loaded(doc) /\ d \in UserDoc
  BY LoadedFields
<1>2. /\ [d EXCEPT !.isConfirm = TRUE, !.code = NoCode] \in UserDoc
      /\ [d EXCEPT !.code = NoCode] \in UserDoc
      /\ [d EXCEPT !.isDeletedAt = t, !.isDeleted = TRUE] \in UserDoc
  BY <1>1 DEF UserDoc
<1>3. [d EXCEPT !.password = password, !.code = NoCode] \in UserDoc
  BY <1>1 DEF UserDoc
<1>4. /\ [doc EXCEPT !.code = c, !.codeExpiration = t] \in UserDoc
      /\ [d EXCEPT !.code = c, !.codeExpiration = t] \in UserDoc
  BY <1>1 DEF UserDoc
<1> QED
  BY <1>1, <1>2, <1>3, <1>4

LEMMA SomeSecret == [text |-> NoPassword, layers |-> 0] \in Secret
  BY DEF Secret

LEMMA BeginTyped ==
    ASSUME TInv, NEW s \in Slots, NEW pc \in {"save", "sign"}, NEW e \in Emails,
           NEW doc \in UserDoc, NEW dirty \in SUBSET Fields,
           NEW presented \in Codes \cup {NoCode}, pc = "sign" => presented \in Codes,
           Begin(s, pc, e, doc, dirty, presented)
    PROVE  reqs' \in [Slots -> Request] /\ RequestsTyped'
<1>1. [pc |-> pc, email |-> e, doc |-> doc, dirty |-> dirty \cup Touched(users[e]),
       generated |-> NoCode, presented |-> presented, at |-> now] \in Request
  BY LoadedFields DEF TInv, TypeOK, Request, Fields
<1> QED
  BY <1>1 DEF Begin, TInv, TypeOK, RequestsTyped

LEMMA IdleTyped == Idle \in Request /\ NoDoc \in UserDoc
  BY DEF Idle, Request, NoDoc, UserDoc, Secret, NoTime

\* A slot that becomes free.
LEMMA EndTyped ==
    ASSUME TInv, NEW s \in Slots, reqs' = [reqs EXCEPT ![s] = Idle]
    PROVE  reqs' \in [Slots -> Request] /\ RequestsTyped'
  BY IdleTyped DEF TInv, TypeOK, RequestsTyped, Idle

LEMMA WrittenTyped ==
    ASSUME TInv, NEW s \in Slots, NEW e \in Emails,
           users' = [users EXCEPT ![e] = Written(@, reqs[s].doc, reqs[s].dirty)]
    PROVE  users' \in [Emails -> UserDoc]
<1>1. users[e] \in UserDoc /\ reqs[s].doc \in UserDoc /\ reqs[s].dirty \in SUBSET Fields
  BY DEF TInv, TypeOK, Request
<1>2. Written(users[e], reqs[s].doc, reqs[s].dirty) \in UserDoc
  BY <1>1, WrittenFields
<1> QED
  BY <1>2 DEF TInv, TypeOK

LEMMA SignedTyped ==
    ASSUME TInv, NEW e \in Emails, NEW type \in {"access", "refresh", "reset"}
    PROVE  Signed(type, e) \in Token
  BY DEF TInv, TypeOK, Signed, Token

LEMMA TypeInit == Init => TInv
  BY IdleTyped DEF Init, TInv, TypeOK, RequestsTyped, Idle

LEMMA TypeStep == TInv /\ [Next]_vars => TInv'
<1> SUFFICES ASSUME TInv, [Next]_vars PROVE TInv'
  OBVIOUS
<1> USE DEF TInv
<1>0. ASSUME UNCHANGED <<users, reqs>> PROVE RequestsTyped'
  BY <1>0 DEF RequestsTyped
<1>1. CASE UNCHANGED vars
  BY <1>0, <1>1 DEF vars, TypeOK
<1>2. CASE Tick
  BY <1>0, <1>2 DEF Tick, TypeOK
<1>3. ASSUME NEW e \in Emails, GoogleLogin(e) \/ \E p \in Passwords : Login(e, p) PROVE TInv'
  BY <1>0, <1>3, SignedTyped DEF GoogleLogin, Login, SignSession, TypeOK
<1>4. ASSUME NEW t \in tokens, RefreshToken(t) PROVE TInv'
  BY <1>0, <1>4, SignedTyped DEF RefreshToken, TypeOK, Token
<1>5. ASSUME NEW s \in Slots, NEW e \in Emails, NEW c \in Codes, NEW p \in Passwords,
             SignupRead(s, e, p, c)
      PROVE  TInv'
  <2>1. [Idle EXCEPT !.pc = "signup", !.email = e, !.generated = c,
            !.doc = [NoDoc EXCEPT !.provider = "system", !.password.text = p]] \in Request
    BY ZenonT(60), IdleTyped DEF Idle, NoDoc, Request, UserDoc, Secret
  <2>2. reqs' \in [Slots -> Request] /\ RequestsTyped'
    BY <1>5, <2>1 DEF SignupRead, TypeOK, RequestsTyped, Idle
  <2>3. mails' \subseteq Mail
    BY <1>5 DEF SignupRead, SendEmail, TypeOK, Mail
  <2> QED
    BY <1>5, <2>2, <2>3 DEF SignupRead, TypeOK
<1>6. ASSUME NEW s \in Slots, NEW e \in Emails, NEW c \in Codes,
             NEW for \in {"confirm", "reset"}, AskCode(s, e, c, for)
      PROVE  TInv'
  <2>1. WithCode(Loaded(users[e]), c) \in UserDoc
    <3>1. users[e] \in UserDoc /\ now + CodeLife \in Nat
      BY AccountsAssumption DEF TypeOK
    <3> QED
      BY <3>1, CopyTyped, SomeSecret DEF WithCode
  <2>2. reqs' \in [Slots -> Request] /\ RequestsTyped'
    BY <1>6, <2>1, BeginTyped DEF AskCode, Fields
  <2>3. mails' \subseteq Mail
    BY <1>6 DEF AskCode, SendEmail, TypeOK, Mail
  <2> QED
    BY <1>6, <2>2, <2>3 DEF AskCode, TypeOK
<1>7. ASSUME NEW s \in Slots, NEW e \in Emails, NEW c \in Codes, Confrim(s, e, c)
      PROVE  TInv'
  <2>1. [Loaded(users[e]) EXCEPT !.isConfirm = TRUE, !.code = NoCode] \in UserDoc
    BY CopyTyped, SomeSecret DEF TypeOK
  <2> QED
    BY <1>7, <2>1, BeginTyped DEF Confrim, Fields, TypeOK
<1>8. ASSUME NEW s \in Slots, NEW e \in Emails, NEW c \in Codes, ConfirmForgetPassword(s, e, c)
      PROVE  TInv'
  <2>1. [Loaded(users[e]) EXCEPT !.code = NoCode] \in UserDoc
    BY CopyTyped, SomeSecret DEF TypeOK
  <2> QED
    BY <1>8, <2>1, BeginTyped DEF ConfirmForgetPassword, Fields, TypeOK
<1>9. ASSUME NEW s \in Slots, NEW e \in Emails, GoogleRead(s, e) PROVE TInv'
  <2>1. [Idle EXCEPT !.pc = "google", !.email = e] \in Request
    BY IdleTyped DEF Idle, Request
  <2> QED
    BY <1>9, <2>1 DEF GoogleRead, TypeOK, RequestsTyped, Idle
<1>10. ASSUME NEW s \in Slots, NEW t \in tokens, FreezeAccount(s, t) PROVE TInv'
  <2>2. t.user \in Emails
    BY DEF TypeOK, Token
  <2>1. [Loaded(users[t.user]) EXCEPT !.isDeletedAt = now, !.isDeleted = TRUE] \in UserDoc
    BY <2>2, CopyTyped, SomeSecret DEF TypeOK
  <2> QED
    BY <1>10, <2>1, <2>2, BeginTyped DEF FreezeAccount, Fields, TypeOK
<1>11. ASSUME NEW s \in Slots, NEW t \in tokens, NEW p \in Passwords, ResetPassword(s, t, p)
       PROVE  TInv'
  <2>2. t.user \in Emails /\ [text |-> p, layers |-> 0] \in Secret
    BY DEF TypeOK, Token, Secret
  <2>1. [Loaded(users[t.user]) EXCEPT !.password = [text |-> p, layers |-> 0],
                                      !.code = NoCode] \in UserDoc
    BY <2>2, CopyTyped DEF TypeOK
  <2>3. {"password"} \cup (IF users[t.user].code # NoCode THEN {"code"} ELSE {})
            \in SUBSET Fields
    BY DEF Fields
  <2> QED
    BY <1>11, <2>1, <2>2, <2>3, BeginTyped DEF ResetPassword, TypeOK
<1>12. ASSUME NEW s \in Slots, SignupCreate(s) PROVE TInv'
  <2> DEFINE doc == Sealed(reqs[s].doc, {"password", "phone"})
  <2>1. reqs[s] \in Request /\ reqs[s].email \in Emails
    BY <1>12 DEF SignupCreate, TypeOK, RequestsTyped
  <2>2. doc \in UserDoc
    BY <2>1, SealedFields DEF Request, Fields
  <2> HIDE DEF doc
  <2>3. WithCode(doc, reqs[s].generated) \in UserDoc
    <3>1. now + CodeLife \in Nat /\ reqs[s].generated \in Codes \cup {NoCode}
      BY <2>1, AccountsAssumption DEF TypeOK, Request
    <3> QED
      BY <2>2, <3>1, CopyTyped, SomeSecret DEF WithCode
  <2>4. [reqs[s] EXCEPT !.pc = "save", !.doc = WithCode(doc, reqs[s].generated),
                        !.dirty = {"code", "codeExpiration"}] \in Request
    BY <2>1, <2>3 DEF Request, Fields
  <2>5. reqs' \in [Slots -> Request] /\ RequestsTyped'
    BY <1>12, <2>1, <2>4 DEF SignupCreate, TypeOK, RequestsTyped, doc
  <2>6. users' \in [Emails -> UserDoc]
    BY <1>12, <2>2 DEF SignupCreate, TypeOK, doc
  <2> QED
    BY <1>12, <2>5, <2>6 DEF SignupCreate, TypeOK
<1>13. ASSUME NEW s \in Slots, GoogleCreate(s) PROVE TInv'
  <2>1. [NoDoc EXCEPT !.provider = "google", !.isConfirm = TRUE] \in UserDoc
    BY IdleTyped DEF UserDoc
  <2>2. reqs[s].email \in Emails
    BY <1>13 DEF GoogleCreate, RequestsTyped
  <2> QED
    BY <1>13, <2>1, <2>2, EndTyped, SignedTyped DEF GoogleCreate, SignSession, TypeOK
<1>14. ASSUME NEW s \in Slots, Save(s) PROVE TInv'
  <2>1. reqs[s] \in Request
    BY DEF TypeOK
  <2>2. users' \in [Emails -> UserDoc]
    BY <1>14, WrittenTyped DEF Save, RequestsTyped
  <2>3. spent' \subseteq Codes /\ late' \subseteq Codes
    BY <1>14, <2>1 DEF Save, TypeOK, Request, UserDoc
  <2> QED
    BY <1>14, <2>2, <2>3, EndTyped DEF Save, TypeOK
<1>15. ASSUME NEW s \in Slots, SaveAndSign(s) PROVE TInv'
  <2>1. reqs[s].email \in Emails /\ reqs[s].presented \in Codes
    BY <1>15 DEF SaveAndSign, RequestsTyped
  <2>2. users' \in [Emails -> UserDoc]
    BY <1>15, <2>1, WrittenTyped DEF SaveAndSign
  <2> QED
    BY <1>15, <2>1, <2>2, EndTyped, SignedTyped DEF SaveAndSign, TypeOK
<1>16. ASSUME NEW s \in Slots, Fail(s) PROVE TInv'
  BY <1>16, EndTyped DEF Fail, TypeOK
<1> QED
  BY <1>1, <1>2, <1>3, <1>4, <1>5, <1>6, <1>7, <1>8, <1>9, <1>10, <1>11, <1>12, <1>13,
     <1>14, <1>15, <1>16 DEF Next, ReSendCode, ForgetPassword

\* Accounts, requests, mails and tokens keep their fields and ranges.
THEOREM TypeInvariant == Spec => []TypeOK
<1>1. TInv => TypeOK
  BY DEF TInv
<1> QED
  BY <1>1, TypeInit, TypeStep, PTL DEF Spec

-----------------------------------------------------------------------------
(* Secrets and freezing                                                    *)

\* What a copy about to be saved would write: an open secret of an account that
\* exists, and both halves of a freeze.
CopySound(r, u) ==
    r.pc \in {"save", "sign"} =>
        /\ u[r.email].provider # "none"
        /\ "isDeleted" \in r.dirty <=> "isDeletedAt" \in r.dirty
        /\ "isDeleted" \in r.dirty => r.doc.isDeleted /\ r.doc.isDeletedAt = r.at
        /\ "phone" \in r.dirty => r.doc.phone = 0 /\ u[r.email].provider = "system"
        /\ "password" \in r.dirty =>
               r.doc.password.layers = 0 /\ r.doc.password.text # NoPassword

SignupSound(r) ==
    r.pc = "signup" =>
        \E p \in Passwords : r.doc = [NoDoc EXCEPT !.provider = "system", !.password.text = p]

UnstoredBlank == \A e \in Emails : ~Stored(e) => users[e] = NoDoc

CopiesSound == \A s \in Slots : CopySound(reqs[s], users) /\ SignupSound(reqs[s])

DocInv == SecretsSealedOnce /\ UnstoredBlank /\ CopiesSound

\* Other requests stay sound when no account disappears or changes its provider.
LEMMA OthersSound ==
    ASSUME TInv, DocInv, NEW s \in Slots, NEW r,
           reqs' = [reqs EXCEPT ![s] = r],
           \A e \in Emails : users'[e].provider = users[e].provider \/ users[e].provider = "none",
           CopySound(r, users'), SignupSound(r)
    PROVE  CopiesSound'
<1>1. ASSUME NEW q \in Slots, q # s PROVE CopySound(reqs'[q], users')
  <2>1. reqs'[q] = reqs[q] /\ (reqs[q].pc # "idle" => reqs[q].email \in Emails)
    BY <1>1 DEF TInv, TypeOK, RequestsTyped
  <2> QED
    BY <1>1, <2>1 DEF CopySound, DocInv, CopiesSound
<1>2. ASSUME NEW q \in Slots, q # s PROVE SignupSound(reqs'[q])
  BY <1>2 DEF SignupSound, DocInv, CopiesSound, TInv, TypeOK
<1>3. reqs'[s] = r
  BY DEF TInv, TypeOK
<1>4. \A q \in Slots : CopySound(reqs'[q], users') /\ SignupSound(reqs'[q])
  BY <1>1, <1>2, <1>3
<1> QED
  BY <1>4 DEF CopiesSound

\* A copy of a stored account, with a change that does not touch the phone.
LEMMA BeginSound ==
    ASSUME TInv, DocInv, NEW s \in Slots, NEW pc \in {"save", "sign"}, NEW e \in Emails,
           NEW doc, NEW dirty \in SUBSET Fields, NEW presented,
           Begin(s, pc, e, doc, dirty, presented), UNCHANGED users,
           Stored(e), "phone" \notin dirty, doc.phone = Loaded(users[e]).phone,
           "isDeleted" \in dirty <=> "isDeletedAt" \in dirty,
           "isDeleted" \in dirty => doc.isDeleted /\ doc.isDeletedAt = now,
           "password" \in dirty => doc.password.layers = 0 /\ doc.password.text # NoPassword
    PROVE  DocInv'
<1> DEFINE r == [pc |-> pc, email |-> e, doc |-> doc, dirty |-> dirty \cup Touched(users[e]),
                 generated |-> NoCode, presented |-> presented, at |-> now]
<1>1. users[e] \in UserDoc /\ users[e].phone = (IF users[e].provider = "system" THEN 1 ELSE 0)
  BY DEF TInv, TypeOK, DocInv, SecretsSealedOnce
<1>2. /\ users[e].provider = "system" => Touched(users[e]) = {"phone"} /\ doc.phone = 0
      /\ users[e].provider # "system" => Touched(users[e]) = {}
  BY <1>1 DEF Touched, Loaded, UserDoc
<1>3. CopySound(r, users') /\ SignupSound(r)
  BY <1>2 DEF CopySound, SignupSound, Stored
<1>4. reqs' = [reqs EXCEPT ![s] = r]
  BY DEF Begin
<1> HIDE DEF r
<1>5. CopiesSound'
  BY <1>3, <1>4, OthersSound
<1> QED
  BY <1>5 DEF DocInv, SecretsSealedOnce, UnstoredBlank, Stored

\* Saving a sound copy.
LEMMA SaveSound ==
    ASSUME TInv, DocInv, NEW s \in Slots, reqs[s].pc \in {"save", "sign"},
           users' = [users EXCEPT ![reqs[s].email] = Written(@, reqs[s].doc, reqs[s].dirty)],
           reqs' = [reqs EXCEPT ![s] = Idle]
    PROVE  DocInv'
<1> DEFINE e == reqs[s].email
           r == reqs[s]
           w == Written(users[e], r.doc, r.dirty)
<1>1. /\ e \in Emails /\ users[e] \in UserDoc /\ r.doc \in UserDoc
      /\ r.dirty \in SUBSET Fields /\ r.doc.password \in Secret
  BY DEF TInv, TypeOK, RequestsTyped, Request, UserDoc
<1>2. /\ w.provider = users[e].provider
      /\ w.password = IF "password" \in r.dirty
                      THEN [r.doc.password EXCEPT !.layers = @ + 1] ELSE users[e].password
      /\ w.phone = IF "phone" \in r.dirty THEN r.doc.phone + 1 ELSE users[e].phone
  BY <1>1, WrittenFields
<1>3. CopySound(r, users) /\ users[e].provider # "none"
  BY DEF DocInv, CopiesSound, CopySound
<1>4. users' = [users EXCEPT ![e] = w] /\ users'[e] = w
  BY <1>1 DEF TInv, TypeOK
<1>5. \A f \in Emails : f # e => users'[f] = users[f]
  BY <1>1, <1>4 DEF TInv, TypeOK
<1> HIDE DEF w, r, e
<1>6. CopySound(Idle, users') /\ SignupSound(Idle)
  BY DEF CopySound, SignupSound, Idle
<1>7. CopiesSound'
  BY <1>2, <1>4, <1>5, <1>6, OthersSound
<1>8. /\ w.phone = (IF w.provider = "system" THEN 1 ELSE 0)
      /\ w.password.layers = (IF w.password.text = NoPassword THEN 0 ELSE 1)
  <2>1. users[e].phone = (IF users[e].provider = "system" THEN 1 ELSE 0)
        /\ users[e].password.layers = (IF users[e].password.text = NoPassword THEN 0 ELSE 1)
    BY <1>1, <1>3 DEF DocInv, SecretsSealedOnce, Stored
  <2>2. /\ "phone" \in r.dirty => r.doc.phone = 0 /\ users[e].provider = "system"
        /\ "password" \in r.dirty =>
               r.doc.password.layers = 0 /\ r.doc.password.text # NoPassword
    BY <1>3 DEF CopySound, r, e
  <2>3. "password" \in r.dirty => w.password.layers = 1 /\ w.password.text # NoPassword
    BY <1>1, <1>2, <2>2 DEF Secret
  <2> QED
    BY <1>2, <2>1, <2>2, <2>3
<1>9. SecretsSealedOnce'
  BY <1>4, <1>5, <1>8 DEF DocInv, SecretsSealedOnce, Stored
<1>10. UnstoredBlank'
  BY <1>2, <1>3, <1>4, <1>5 DEF DocInv, UnstoredBlank, Stored
<1> QED
  BY <1>7, <1>9, <1>10 DEF DocInv

\* A new account in the place of none.
LEMMA CreateSound ==
    ASSUME TInv, DocInv, NEW s \in Slots, NEW e \in Emails, NEW doc, NEW r,
           ~Stored(e), users' = [users EXCEPT ![e] = doc], reqs' = [reqs EXCEPT ![s] = r],
           doc.provider # "none",
           doc.phone = (IF doc.provider = "system" THEN 1 ELSE 0),
           doc.password.layers = (IF doc.password.text = NoPassword THEN 0 ELSE 1),
           CopySound(r, users'), SignupSound(r)
    PROVE  DocInv'
<1>1. /\ users'[e] = doc
      /\ \A f \in Emails : f # e => users'[f] = users[f]
  BY DEF TInv, TypeOK
<1>2. CopiesSound'
  BY <1>1, OthersSound DEF Stored
<1> QED
  BY <1>1, <1>2 DEF DocInv, SecretsSealedOnce, UnstoredBlank, Stored

LEMMA DocInit == Init => DocInv
<1> SUFFICES ASSUME Init PROVE DocInv
  OBVIOUS
<1>1. \A e \in Emails : users[e] = NoDoc /\ ~Stored(e)
  BY DEF Init, Stored, NoDoc
<1>2. \A s \in Slots : reqs[s].pc = "idle"
  BY DEF Init, Idle
<1> QED
  BY <1>1, <1>2 DEF DocInv, SecretsSealedOnce, UnstoredBlank, CopiesSound, CopySound, SignupSound

LEMMA DocStep == TInv /\ DocInv /\ [Next]_vars => DocInv'
<1> SUFFICES ASSUME TInv, DocInv, [Next]_vars PROVE DocInv'
  OBVIOUS
<1>0. ASSUME UNCHANGED <<users, reqs>> PROVE DocInv'
  BY <1>0 DEF DocInv, SecretsSealedOnce, UnstoredBlank, Stored, CopiesSound, CopySound,
              SignupSound
<1>1. CASE UNCHANGED vars
  BY <1>0, <1>1 DEF vars
<1>2. CASE Tick
  BY <1>0, <1>2 DEF Tick
<1>3. ASSUME NEW e \in Emails, GoogleLogin(e) \/ \E p \in Passwords : Login(e, p) PROVE DocInv'
  BY <1>0, <1>3 DEF GoogleLogin, Login
<1>4. ASSUME NEW t \in tokens, RefreshToken(t) PROVE DocInv'
  BY <1>0, <1>4 DEF RefreshToken
<1>5. ASSUME NEW s \in Slots, NEW e \in Emails, NEW c \in Codes, NEW p \in Passwords,
             SignupRead(s, e, p, c)
      PROVE  DocInv'
  <2> DEFINE r == [Idle EXCEPT !.pc = "signup", !.email = e, !.generated = c,
                      !.doc = [NoDoc EXCEPT !.provider = "system", !.password.text = p]]
  <2>1. CopySound(r, users') /\ SignupSound(r)
    BY DEF CopySound, SignupSound, Idle
  <2> HIDE DEF r
  <2>2. CopiesSound'
    BY <1>5, <2>1, OthersSound DEF SignupRead, r
  <2> QED
    BY <1>5, <2>2 DEF SignupRead, DocInv, SecretsSealedOnce, UnstoredBlank, Stored
<1>6. ASSUME NEW s \in Slots, NEW e \in Emails, NEW c \in Codes,
             NEW for \in {"confirm", "reset"}, AskCode(s, e, c, for)
      PROVE  DocInv'
  <2> DEFINE doc == WithCode(Loaded(users[e]), c)
  <2>1. doc.phone = Loaded(users[e]).phone
    BY LoadedFields DEF WithCode, UserDoc, TInv, TypeOK
  <2> HIDE DEF doc
  <2>2. /\ Begin(s, "save", e, doc, {"code", "codeExpiration"}, NoCode)
        /\ Stored(e) /\ UNCHANGED users
    BY <1>6 DEF AskCode, doc
  <2> QED
    BY <2>1, <2>2, BeginSound DEF Fields
<1>7. ASSUME NEW s \in Slots, NEW e \in Emails, NEW c \in Codes, Confrim(s, e, c)
      PROVE  DocInv'
  <2> DEFINE doc == [Loaded(users[e]) EXCEPT !.isConfirm = TRUE, !.code = NoCode]
  <2>1. doc.phone = Loaded(users[e]).phone
    BY LoadedFields DEF UserDoc, TInv, TypeOK
  <2> HIDE DEF doc
  <2>2. /\ Begin(s, "save", e, doc, {"isConfirm", "code"}, c)
        /\ Stored(e) /\ UNCHANGED users
    BY <1>7 DEF Confrim, doc
  <2> QED
    BY <2>1, <2>2, BeginSound DEF Fields
<1>8. ASSUME NEW s \in Slots, NEW e \in Emails, NEW c \in Codes, ConfirmForgetPassword(s, e, c)
      PROVE  DocInv'
  <2> DEFINE doc == [Loaded(users[e]) EXCEPT !.code = NoCode]
  <2>1. doc.phone = Loaded(users[e]).phone
    BY LoadedFields DEF UserDoc, TInv, TypeOK
  <2> HIDE DEF doc
  <2>2. /\ Begin(s, "sign", e, doc, {"code"}, c)
        /\ Stored(e) /\ UNCHANGED users
    BY <1>8 DEF ConfirmForgetPassword, doc
  <2> QED
    BY <2>1, <2>2, BeginSound DEF Fields
<1>9. ASSUME NEW s \in Slots, NEW e \in Emails, GoogleRead(s, e) PROVE DocInv'
  <2> DEFINE r == [Idle EXCEPT !.pc = "google", !.email = e]
  <2>1. CopySound(r, users') /\ SignupSound(r)
    BY DEF CopySound, SignupSound, Idle
  <2> HIDE DEF r
  <2>2. CopiesSound'
    BY <1>9, <2>1, OthersSound DEF GoogleRead, r
  <2> QED
    BY <1>9, <2>2 DEF GoogleRead, DocInv, SecretsSealedOnce, UnstoredBlank, Stored
<1>10. ASSUME NEW s \in Slots, NEW t \in tokens, FreezeAccount(s, t) PROVE DocInv'
  <2>1. t.user \in Emails /\ Stored(t.user)
    BY <1>10 DEF TInv, TypeOK, Token, FreezeAccount, Admits
  <2> DEFINE doc == [Loaded(users[t.user]) EXCEPT !.isDeletedAt = now, !.isDeleted = TRUE]
  <2>2. doc.phone = Loaded(users[t.user]).phone /\ doc.isDeleted /\ doc.isDeletedAt = now
    BY <2>1, LoadedFields DEF UserDoc, TInv, TypeOK
  <2> HIDE DEF doc
  <2>3. Begin(s, "save", t.user, doc, {"isDeletedAt", "isDeleted"}, NoCode) /\ UNCHANGED users
    BY <1>10 DEF FreezeAccount, doc
  <2> QED
    BY <2>1, <2>2, <2>3, BeginSound DEF Fields
<1>11. ASSUME NEW s \in Slots, NEW t \in tokens, NEW p \in Passwords, ResetPassword(s, t, p)
       PROVE  DocInv'
  <2>1. t.user \in Emails /\ Stored(t.user)
    BY <1>11 DEF TInv, TypeOK, Token, ResetPassword
  <2> DEFINE doc == [Loaded(users[t.user]) EXCEPT !.password = [text |-> p, layers |-> 0],
                                                  !.code = NoCode]
             dirty == {"password"} \cup (IF users[t.user].code # NoCode THEN {"code"} ELSE {})
  <2>2. /\ doc.phone = Loaded(users[t.user]).phone
        /\ doc.password.layers = 0 /\ doc.password.text # NoPassword
    BY <2>1, LoadedFields, AccountsAssumption DEF UserDoc, TInv, TypeOK
  <2>3. dirty \in SUBSET Fields /\ dirty \cap {"phone", "isDeleted", "isDeletedAt"} = {}
    BY DEF Fields
  <2> HIDE DEF doc, dirty
  <2>4. Begin(s, "save", t.user, doc, dirty, NoCode) /\ UNCHANGED users
    BY <1>11 DEF ResetPassword, doc, dirty
  <2> QED
    BY <2>1, <2>2, <2>3, <2>4, BeginSound
<1>12. ASSUME NEW s \in Slots, SignupCreate(s) PROVE DocInv'
  <2> DEFINE e == reqs[s].email
             doc == Sealed(reqs[s].doc, {"password", "phone"})
             r == [reqs[s] EXCEPT !.pc = "save", !.doc = WithCode(doc, reqs[s].generated),
                                  !.dirty = {"code", "codeExpiration"}]
  <2>1. reqs[s] \in Request /\ e \in Emails /\ reqs[s].doc \in UserDoc
    BY <1>12 DEF SignupCreate, TInv, TypeOK, RequestsTyped, Request
  <2>2. PICK p \in Passwords :
            reqs[s].doc = [NoDoc EXCEPT !.provider = "system", !.password.text = p]
    BY <1>12 DEF SignupCreate, DocInv, CopiesSound, SignupSound
  <2>3. /\ reqs[s].doc.provider = "system" /\ reqs[s].doc.phone = 0
        /\ reqs[s].doc.password = [text |-> p, layers |-> 0]
    BY <2>2 DEF NoDoc
  <2>4. /\ doc.provider = "system" /\ doc.phone = 1
        /\ doc.password = [text |-> p, layers |-> 1]
    <3>1. doc = [reqs[s].doc EXCEPT !.password = [reqs[s].doc.password EXCEPT !.layers = @ + 1],
                                    !.phone = @ + 1]
      <4>1. {"password", "phone"} \in SUBSET Fields
        BY DEF Fields
      <4> QED
        BY <2>1, <4>1, SealedFields
    <3>2. [reqs[s].doc.password EXCEPT !.layers = @ + 1] = [text |-> p, layers |-> 1]
      BY <2>3
    <3> HIDE DEF doc
    <3> QED
      BY <2>1, <2>3, <3>1, <3>2 DEF UserDoc
  <2>5. /\ r.pc = "save" /\ r.email = e /\ r.dirty = {"code", "codeExpiration"}
    BY <2>1 DEF Request
  <2> HIDE DEF doc, r
  <2>6. users' = [users EXCEPT ![e] = doc] /\ reqs' = [reqs EXCEPT ![s] = r] /\ ~Stored(e)
    BY <1>12 DEF SignupCreate, doc, r
  <2>7. users'[e].provider = "system"
    BY <2>1, <2>4, <2>6 DEF TInv, TypeOK
  <2>8. CopySound(r, users') /\ SignupSound(r)
    BY <2>5, <2>7 DEF CopySound, SignupSound
  <2>9. /\ doc.provider # "none" /\ doc.phone = (IF doc.provider = "system" THEN 1 ELSE 0)
        /\ doc.password.layers = (IF doc.password.text = NoPassword THEN 0 ELSE 1)
    BY <2>4, AccountsAssumption
  <2> HIDE DEF e
  <2> QED
    BY <2>1, <2>6, <2>8, <2>9, CreateSound
<1>13. ASSUME NEW s \in Slots, GoogleCreate(s) PROVE DocInv'
  <2> DEFINE e == reqs[s].email
             doc == [NoDoc EXCEPT !.provider = "google", !.isConfirm = TRUE]
  <2>1. e \in Emails
    BY <1>13 DEF GoogleCreate, TInv, RequestsTyped
  <2>2. /\ doc.provider # "none" /\ doc.phone = (IF doc.provider = "system" THEN 1 ELSE 0)
        /\ doc.password.layers = (IF doc.password.text = NoPassword THEN 0 ELSE 1)
    BY DEF NoDoc
  <2>3. CopySound(Idle, users') /\ SignupSound(Idle)
    BY DEF CopySound, SignupSound, Idle
  <2> HIDE DEF doc
  <2>4. users' = [users EXCEPT ![e] = doc] /\ reqs' = [reqs EXCEPT ![s] = Idle] /\ ~Stored(e)
    BY <1>13 DEF GoogleCreate, doc
  <2> HIDE DEF e
  <2> QED
    BY <2>1, <2>2, <2>3, <2>4, CreateSound
<1>14. ASSUME NEW s \in Slots, Save(s) PROVE DocInv'
  BY <1>14, SaveSound DEF Save
<1>15. ASSUME NEW s \in Slots, SaveAndSign(s) PROVE DocInv'
  BY <1>15, SaveSound DEF SaveAndSign
<1>16. ASSUME NEW s \in Slots, Fail(s) PROVE DocInv'
  <2>1. CopySound(Idle, users') /\ SignupSound(Idle)
    BY DEF CopySound, SignupSound, Idle
  <2>2. CopiesSound'
    BY <1>16, <2>1, OthersSound DEF Fail
  <2> QED
    BY <1>16, <2>2 DEF Fail, DocInv, SecretsSealedOnce, UnstoredBlank, Stored
<1> QED
  BY <1>1, <1>2, <1>3, <1>4, <1>5, <1>6, <1>7, <1>8, <1>9, <1>10, <1>11, <1>12, <1>13,
     <1>14, <1>15, <1>16 DEF Next, ReSendCode, ForgetPassword

\* A password is hashed once and a phone encrypted once in every stored account,
\* however many saves of old copies overlap.
THEOREM SecretsTheorem == Spec => []SecretsSealedOnce
<1>1. DocInv => SecretsSealedOnce
  BY DEF DocInv
<1> QED
  BY <1>1, TypeInit, TypeStep, DocInit, DocStep, PTL DEF Spec

\* A frozen account stays frozen, from its own date on, whatever copies are saved.
THEOREM FrozenTheorem == Spec => FrozenIsFinal
<1> DEFINE Step ==
        \A e \in Emails : users[e].isDeleted =>
          /\ users'[e].isDeleted
          /\ users'[e].isDeletedAt # users[e].isDeletedAt =>
                \E s \in Slots :
                    /\ reqs[s].email = e /\ "isDeleted" \in reqs[s].dirty
                    /\ users'[e].isDeletedAt = reqs[s].at
<1>1. TInv /\ DocInv /\ [Next]_vars => [Step]_vars
  <2> SUFFICES ASSUME TInv, DocInv, Next PROVE Step
    BY DEF vars
  <2>0. ASSUME UNCHANGED users PROVE Step
    BY <2>0
  <2>1. ASSUME NEW s \in Slots, NEW e \in Emails, NEW doc, ~Stored(e),
               users' = [users EXCEPT ![e] = doc]
        PROVE  Step
    BY <2>1 DEF DocInv, UnstoredBlank, NoDoc, TInv, TypeOK
  <2>2. ASSUME NEW s \in Slots, reqs[s].pc \in {"save", "sign"},
               users' = [users EXCEPT ![reqs[s].email] = Written(@, reqs[s].doc, reqs[s].dirty)]
        PROVE  Step
    <3> DEFINE e == reqs[s].email
               w == Written(users[e], reqs[s].doc, reqs[s].dirty)
    <3>1. /\ e \in Emails /\ users[e] \in UserDoc /\ reqs[s].doc \in UserDoc
          /\ reqs[s].dirty \in SUBSET Fields
      BY <2>2 DEF TInv, TypeOK, RequestsTyped, Request
    <3>2. /\ "isDeleted" \in reqs[s].dirty => (w.isDeleted <=> reqs[s].doc.isDeleted)
          /\ "isDeleted" \notin reqs[s].dirty => (w.isDeleted <=> users[e].isDeleted)
          /\ w.isDeletedAt = IF "isDeletedAt" \in reqs[s].dirty
                             THEN reqs[s].doc.isDeletedAt ELSE users[e].isDeletedAt
      BY <3>1, WrittenFlags
    <3>3. CopySound(reqs[s], users)
      BY DEF DocInv, CopiesSound
    <3>4. users'[e] = w /\ \A f \in Emails : f # e => users'[f] = users[f]
      BY <2>2, <3>1 DEF TInv, TypeOK
    <3> HIDE DEF w
    <3> QED
      BY <2>2, <3>2, <3>3, <3>4 DEF CopySound
  <2>3. ASSUME NEW s \in Slots, SignupCreate(s) \/ GoogleCreate(s) PROVE Step
    <3>1. reqs[s].email \in Emails
      BY <2>3 DEF SignupCreate, GoogleCreate, TInv, RequestsTyped
    <3> QED
      BY <2>1, <2>3, <3>1 DEF SignupCreate, GoogleCreate
  <2>4. ASSUME NEW s \in Slots, Save(s) \/ SaveAndSign(s) PROVE Step
    BY <2>2, <2>4 DEF Save, SaveAndSign
  <2>5. ASSUME NEW s \in Slots, NEW e \in Emails, NEW c \in Codes,
               \/ \E p \in Passwords : SignupRead(s, e, p, c)
               \/ ReSendCode(s, e, c) \/ ForgetPassword(s, e, c)
               \/ Confrim(s, e, c) \/ ConfirmForgetPassword(s, e, c)
        PROVE  Step
    BY <2>0, <2>5 DEF SignupRead, ReSendCode, ForgetPassword, AskCode, Confrim,
                      ConfirmForgetPassword
  <2>6. ASSUME NEW s \in Slots, NEW t \in tokens,
               FreezeAccount(s, t) \/ \E p \in Passwords : ResetPassword(s, t, p)
        PROVE  Step
    BY <2>0, <2>6 DEF FreezeAccount, ResetPassword
  <2>7. CASE Tick \/ \E e \in Emails : GoogleLogin(e) \/ \E p \in Passwords : Login(e, p)
    BY <2>0, <2>7 DEF Tick, GoogleLogin, Login
  <2>8. ASSUME NEW t \in tokens, RefreshToken(t) PROVE Step
    BY <2>0, <2>8 DEF RefreshToken
  <2>9. ASSUME NEW s \in Slots, Fail(s) PROVE Step
    BY <2>0, <2>9 DEF Fail
  <2>10. ASSUME NEW s \in Slots, NEW e \in Emails, GoogleRead(s, e) PROVE Step
    BY <2>0, <2>10 DEF GoogleRead
  <2> HIDE DEF Step
  <2> QED
    BY <2>3, <2>4, <2>5, <2>6, <2>7, <2>8, <2>9, <2>10 DEF Next
<1> QED
  BY <1>1, TypeInit, TypeStep, DocInit, DocStep, PTL DEF Spec, FrozenIsFinal

-----------------------------------------------------------------------------
(* Codes                                                                   *)

\* The code that the save of request r will store.
Writes(r) ==
    IF r.pc = "signup" THEN r.generated
    ELSE IF r.pc \in {"save", "sign"} /\ "code" \in r.dirty THEN r.doc.code
    ELSE NoCode

\* A stored code was mailed to its account, with the expiry of its mail, and has
\* opened nothing; on a confirmed account it was mailed for a reset, or late.
StoredSound(e, doc, ms, sp, lt) ==
    /\ doc.code \notin sp
    /\ doc.code # NoCode =>
          \E m \in ms :
              /\ m.to = e /\ m.code = doc.code
              /\ m.for = "reset" => doc.codeExpiration = m.at + CodeLife
              /\ m.for = "confirm" /\ doc.isConfirm => m.code \in lt

\* A code about to be stored is stored nowhere yet, has opened nothing, and was
\* mailed to the account; its copy is as old as its mail.
WriteSound(r, u, ms, sp) ==
    Writes(r) # NoCode =>
        /\ r.presented = NoCode
        /\ Writes(r) \notin sp
        /\ \A e \in Emails : u[e].code # Writes(r)
        /\ \E m \in ms :
              /\ m.to = r.email /\ m.code = Writes(r)
              /\ m.for = "confirm" => ~r.doc.isConfirm
              /\ m.for = "reset" =>
                    /\ r.pc = "save" /\ "codeExpiration" \in r.dirty
                    /\ r.doc.codeExpiration = m.at + CodeLife

\* A request that was given a code clears it, and only a request that stores or
\* clears a code changes its expiry or confirms the account.
GivenSound(r, ms) ==
    /\ r.presented # NoCode =>
          /\ r.pc \in {"save", "sign"} /\ "code" \in r.dirty /\ r.doc.code = NoCode
          /\ \E m \in ms :
                /\ m.to = r.email /\ m.code = r.presented
                /\ r.pc = "sign" /\ m.for = "reset" => r.at <= m.at + CodeLife
    /\ "codeExpiration" \in r.dirty => "code" \in r.dirty
    /\ "isConfirm" \in r.dirty => "code" \in r.dirty /\ r.doc.code = NoCode

RequestSound(r, u, ms, sp) == WriteSound(r, u, ms, sp) /\ GivenSound(r, ms)

MailsDiffer == \A m, n \in mails : m.code = n.code => m = n

SpentMailed == \A c \in spent : \E m \in mails : m.code = c

\* No two requests have to do with one code that is about to be stored.
Apart(r, q) == Writes(r) # NoCode => Writes(q) # Writes(r) /\ q.presented # Writes(r)

CodeInv ==
    /\ MailsDiffer
    /\ SpentMailed
    /\ \A e \in Emails : StoredSound(e, users[e], mails, spent, late)
    /\ \A s \in Slots : RequestSound(reqs[s], users, mails, spent)
    /\ \A s, q \in Slots : s # q => Apart(reqs[s], reqs[q])

\* A slot changes while the accounts, and what was spent, stay.
LEMMA SlotCode ==
    ASSUME TInv, CodeInv, NEW s \in Slots, NEW r,
           reqs' = [reqs EXCEPT ![s] = r], UNCHANGED <<users, spent, late>>,
           mails \subseteq mails', MailsDiffer',
           RequestSound(r, users, mails', spent),
           \A q \in Slots : q # s => Apart(r, reqs[q]) /\ Apart(reqs[q], r)
    PROVE  CodeInv'
<1>1. SpentMailed'
  BY DEF CodeInv, SpentMailed
<1>2. \A e \in Emails : StoredSound(e, users'[e], mails', spent', late')
  BY DEF CodeInv, StoredSound
<1>3. reqs'[s] = r /\ \A q \in Slots : q # s => reqs'[q] = reqs[q]
  BY DEF TInv, TypeOK
<1>4. \A q \in Slots : RequestSound(reqs'[q], users', mails', spent')
  <2> SUFFICES ASSUME NEW q \in Slots, q # s
               PROVE  RequestSound(reqs[q], users, mails', spent)
    BY <1>3
  <2>1. RequestSound(reqs[q], users, mails, spent)
    BY DEF CodeInv
  <2>2. WriteSound(reqs[q], users, mails', spent)
    BY <2>1 DEF RequestSound, WriteSound
  <2>3. GivenSound(reqs[q], mails')
    BY <2>1 DEF RequestSound, GivenSound
  <2> QED
    BY <2>2, <2>3 DEF RequestSound
<1>5. \A p, q \in Slots : p # q => Apart(reqs'[p], reqs'[q])
  BY <1>3 DEF CodeInv
<1> QED
  BY <1>1, <1>2, <1>4, <1>5 DEF CodeInv

\* A request that will store no code, given none or the one stored.
LEMMA QuietCode ==
    ASSUME TInv, CodeInv, NEW s \in Slots, NEW r,
           reqs' = [reqs EXCEPT ![s] = r], UNCHANGED <<users, mails, spent, late>>,
           Writes(r) = NoCode, GivenSound(r, mails),
           r.presented # NoCode => \E e \in Emails : r.presented = users[e].code
    PROVE  CodeInv'
<1>1. ASSUME NEW q \in Slots, q # s PROVE Apart(r, reqs[q]) /\ Apart(reqs[q], r)
  <2>1. WriteSound(reqs[q], users, mails, spent)
    BY DEF CodeInv, RequestSound
  <2> QED
    BY <2>1 DEF Apart, WriteSound
<1>2. RequestSound(r, users, mails', spent)
  BY DEF RequestSound, WriteSound
<1>3. MailsDiffer'
  BY DEF CodeInv, MailsDiffer
<1> QED
  BY <1>1, <1>2, <1>3, SlotCode

\* A copy of a stored account whose save stores no code.
LEMMA BeginCode ==
    ASSUME TInv, CodeInv, NEW s \in Slots, NEW pc \in {"save", "sign"}, NEW e \in Emails,
           NEW doc, NEW dirty \in SUBSET Fields, NEW presented,
           Begin(s, pc, e, doc, dirty, presented), UNCHANGED <<users, mails, spent, late>>,
           "codeExpiration" \notin dirty, "isConfirm" \in dirty => "code" \in dirty,
           "code" \in dirty => doc.code = NoCode,
           presented # NoCode =>
               /\ "code" \in dirty /\ presented = users[e].code
               /\ pc = "sign" => users[e].codeExpiration >= now
    PROVE  CodeInv'
<1> DEFINE r == [pc |-> pc, email |-> e, doc |-> doc, dirty |-> dirty \cup Touched(users[e]),
                 generated |-> NoCode, presented |-> presented, at |-> now]
<1>1. reqs' = [reqs EXCEPT ![s] = r]
  BY DEF Begin
<1>2. Touched(users[e]) \in SUBSET {"phone"}
  BY DEF Touched
<1>3. /\ r.pc = pc /\ r.email = e /\ r.doc = doc /\ r.presented = presented /\ r.at = now
      /\ \A f \in Fields \ {"phone"} : f \in r.dirty <=> f \in dirty
  BY <1>2
<1> HIDE DEF r
<1>4. /\ "code" \in r.dirty <=> "code" \in dirty
      /\ "codeExpiration" \notin r.dirty /\ ("isConfirm" \in r.dirty => "code" \in dirty)
  BY <1>3 DEF Fields
<1>5. Writes(r) = NoCode
  BY <1>3, <1>4 DEF Writes
<1>6. GivenSound(r, mails)
  <2>1. CASE presented = NoCode
    BY <2>1, <1>3, <1>4 DEF GivenSound
  <2>2. CASE presented # NoCode
    <3>1. PICK m \in mails :
              /\ m.to = e /\ m.code = presented
              /\ m.for = "reset" => users[e].codeExpiration = m.at + CodeLife
      BY <2>2 DEF CodeInv, StoredSound
    <3>2. r.pc = "sign" /\ m.for = "reset" => r.at <= m.at + CodeLife
      BY <2>2, <3>1, <1>3, AccountsAssumption DEF TInv, TypeOK, UserDoc, Mail
    <3> QED
      BY <2>2, <3>1, <3>2, <1>3, <1>4 DEF GivenSound
  <2> QED
    BY <2>1, <2>2
<1> QED
  BY <1>1, <1>3, <1>5, <1>6, QuietCode

\* A fresh code, mailed and to be stored.
LEMMA AskedCode ==
    ASSUME TInv, CodeInv, NEW s \in Slots, NEW e \in Emails, NEW c \in Codes,
           NEW for \in {"confirm", "reset"}, NEW r,
           Fresh(c), SendEmail(e, c, for),
           reqs' = [reqs EXCEPT ![s] = r], UNCHANGED <<users, spent, late>>,
           Writes(r) = c, r.email = e, r.presented = NoCode,
           for = "confirm" => ~r.doc.isConfirm,
           for = "reset" => /\ r.pc = "save" /\ "codeExpiration" \in r.dirty
                            /\ r.doc.codeExpiration = now + CodeLife,
           "codeExpiration" \in r.dirty => "code" \in r.dirty,
           "isConfirm" \notin r.dirty
    PROVE  CodeInv'
<1> DEFINE new == [to |-> e, code |-> c, for |-> for, at |-> now]
<1>1. mails' = mails \cup {new} /\ \A m \in mails : m.code # c
  BY DEF SendEmail, Fresh
<1>2. MailsDiffer'
  BY <1>1 DEF CodeInv, MailsDiffer
<1>3. c # NoCode
  BY AccountsAssumption
<1>4. RequestSound(r, users, mails', spent)
  <2>1. c \notin spent
    BY <1>1 DEF CodeInv, SpentMailed
  <2>2. \A f \in Emails : users[f].code # c
    BY <1>1, <1>3 DEF CodeInv, StoredSound
  <2>3. /\ new.to = r.email /\ new.code = Writes(r)
        /\ new.for = "confirm" => ~r.doc.isConfirm
        /\ new.for = "reset" =>
              /\ r.pc = "save" /\ "codeExpiration" \in r.dirty
              /\ r.doc.codeExpiration = new.at + CodeLife
    OBVIOUS
  <2> HIDE DEF new
  <2>4. WriteSound(r, users, mails', spent)
    BY <1>1, <2>1, <2>2, <2>3 DEF WriteSound
  <2> QED
    BY <2>4 DEF RequestSound, GivenSound
<1>5. ASSUME NEW q \in Slots, q # s PROVE Apart(r, reqs[q]) /\ Apart(reqs[q], r)
  <2>1. RequestSound(reqs[q], users, mails, spent)
    BY DEF CodeInv
  <2>2. Writes(reqs[q]) # c /\ reqs[q].presented # c
    BY <1>1, <1>3, <2>1 DEF RequestSound, WriteSound, GivenSound
  <2>3. Writes(reqs[q]) # NoCode => Writes(reqs[q]) # r.presented
    OBVIOUS
  <2> QED
    BY <2>2, <2>3 DEF Apart
<1> HIDE DEF new
<1> QED
  BY <1>1, <1>2, <1>4, <1>5, SlotCode

\* An account is created, without a code.
LEMMA CreateCode ==
    ASSUME TInv, CodeInv, NEW s \in Slots, NEW e \in Emails, NEW doc, NEW r,
           users' = [users EXCEPT ![e] = doc], reqs' = [reqs EXCEPT ![s] = r],
           UNCHANGED <<mails, spent, late>>,
           doc.code = NoCode, RequestSound(r, users, mails, spent),
           r.presented = NoCode, Writes(r) \in {NoCode, Writes(reqs[s])}
    PROVE  CodeInv'
<1>1. users'[e] = doc /\ \A f \in Emails : f # e => users'[f] = users[f]
  BY DEF TInv, TypeOK
<1>2. reqs'[s] = r /\ \A q \in Slots : q # s => reqs'[q] = reqs[q]
  BY DEF TInv, TypeOK
<1>3. MailsDiffer' /\ SpentMailed'
  BY DEF CodeInv, MailsDiffer, SpentMailed
<1>4. NoCode \notin spent
  BY AccountsAssumption DEF TInv, TypeOK
<1>5. \A f \in Emails : StoredSound(f, users'[f], mails', spent', late')
  BY <1>1, <1>4 DEF CodeInv, StoredSound
<1>6. \A q \in Slots : RequestSound(reqs'[q], users', mails', spent')
  <2> SUFFICES ASSUME NEW x, RequestSound(x, users, mails, spent)
               PROVE  RequestSound(x, users', mails, spent)
    BY <1>2 DEF CodeInv
  <2> QED
    BY <1>1 DEF RequestSound, WriteSound
<1>7. \A p, q \in Slots : p # q => Apart(reqs'[p], reqs'[q])
  <2> SUFFICES ASSUME NEW q \in Slots, q # s PROVE Apart(r, reqs[q]) /\ Apart(reqs[q], r)
    BY <1>2 DEF CodeInv
  <2>1. Apart(reqs[s], reqs[q]) /\ Apart(reqs[q], reqs[s])
    BY DEF CodeInv
  <2> QED
    BY <2>1 DEF Apart
<1> QED
  BY <1>3, <1>5, <1>6, <1>7 DEF CodeInv

\* A copy is saved, and the code it was given is spent.
LEMMA SaveCode ==
    ASSUME TInv, CodeInv, NEW s \in Slots, reqs[s].pc \in {"save", "sign"},
           users' = [users EXCEPT ![reqs[s].email] = Written(@, reqs[s].doc, reqs[s].dirty)],
           reqs' = [reqs EXCEPT ![s] = Idle], UNCHANGED mails,
           spent' = spent \cup ({reqs[s].presented} \ {NoCode}), late \subseteq late',
           Writes(reqs[s]) # NoCode /\ users[reqs[s].email].isConfirm /\ ~reqs[s].doc.isConfirm
               => Writes(reqs[s]) \in late'
    PROVE  CodeInv'
<1> DEFINE e == reqs[s].email
           r == reqs[s]
           w == Written(users[e], r.doc, r.dirty)
<1>1. /\ e \in Emails /\ users[e] \in UserDoc /\ r.doc \in UserDoc
      /\ r.dirty \in SUBSET Fields
  BY DEF TInv, TypeOK, RequestsTyped, Request
<1>2. /\ w.code = IF "code" \in r.dirty THEN r.doc.code ELSE users[e].code
      /\ w.codeExpiration = IF "codeExpiration" \in r.dirty
                            THEN r.doc.codeExpiration ELSE users[e].codeExpiration
  BY <1>1, WrittenFlags
<1>3. "isConfirm" \notin r.dirty => (w.isConfirm <=> users[e].isConfirm)
  BY <1>1, WrittenFlags
<1>4. users'[e] = w /\ \A f \in Emails : f # e => users'[f] = users[f]
  BY <1>1 DEF TInv, TypeOK
<1>5. RequestSound(r, users, mails, spent)
  BY DEF CodeInv
<1>6. "code" \in r.dirty => Writes(r) = r.doc.code
  BY DEF Writes
<1>7. reqs'[s] = Idle /\ \A q \in Slots : q # s => reqs'[q] = reqs[q]
  BY DEF TInv, TypeOK
<1>8. NoCode \notin spent'
  BY AccountsAssumption DEF TInv, TypeOK
<1> HIDE DEF w, e
<1>9. MailsDiffer' /\ SpentMailed'
  <2>1. r.presented # NoCode => \E m \in mails : m.code = r.presented
    BY <1>5 DEF RequestSound, GivenSound
  <2> QED
    BY <2>1 DEF CodeInv, MailsDiffer, SpentMailed
<1>10. ASSUME NEW f \in Emails, f # e PROVE StoredSound(f, users'[f], mails', spent', late')
  <2>1. StoredSound(f, users[f], mails, spent, late)
    BY DEF CodeInv
  <2>2. users[f].code # NoCode => users[f].code # r.presented
    <3> SUFFICES ASSUME users[f].code # NoCode, users[f].code = r.presented PROVE FALSE
      OBVIOUS
    <3>1. \E m \in mails : m.to = f /\ m.code = r.presented
      BY <2>1 DEF StoredSound
    <3>2. \E m \in mails : m.to = e /\ m.code = r.presented
      BY <1>5 DEF RequestSound, GivenSound, e
    <3> QED
      BY <1>10, <3>1, <3>2 DEF CodeInv, MailsDiffer
  <2> QED
    BY <1>4, <1>8, <1>10, <2>1, <2>2 DEF StoredSound
<1>11. StoredSound(e, users'[e], mails', spent', late')
  <2>1. StoredSound(e, users[e], mails, spent, late)
    BY <1>1 DEF CodeInv
  <2>2. CASE "code" \notin r.dirty
    <3>1. /\ "codeExpiration" \notin r.dirty /\ "isConfirm" \notin r.dirty
          /\ r.presented = NoCode
      BY <2>2, <1>5 DEF RequestSound, GivenSound
    <3>2. /\ w.code = users[e].code /\ w.codeExpiration = users[e].codeExpiration
          /\ w.isConfirm <=> users[e].isConfirm
          /\ spent' = spent
      BY <2>2, <3>1, <1>2, <1>3
    <3> QED
      BY <2>1, <3>2, <1>4 DEF StoredSound
  <2>3. CASE "code" \in r.dirty /\ r.doc.code = NoCode
    BY <2>3, <1>2, <1>4, <1>8 DEF StoredSound
  <2>4. CASE "code" \in r.dirty /\ r.doc.code # NoCode
    <3>1. Writes(r) # NoCode /\ w.code = Writes(r)
      BY <2>4, <1>2, <1>6
    <3>2. PICK m \in mails :
              /\ m.to = r.email /\ m.code = Writes(r)
              /\ m.for = "confirm" => ~r.doc.isConfirm
              /\ m.for = "reset" => /\ "codeExpiration" \in r.dirty
                                   /\ r.doc.codeExpiration = m.at + CodeLife
      BY <3>1, <1>5 DEF RequestSound, WriteSound
    <3>3. Writes(r) \notin spent'
      BY <3>1, <1>5 DEF RequestSound, WriteSound
    <3>4. w.isConfirm <=> users[e].isConfirm
      BY <2>4, <1>3, <1>5 DEF RequestSound, GivenSound
    <3>5. m.for = "confirm" /\ w.isConfirm => m.code \in late'
      BY <3>1, <3>2, <3>4 DEF e
    <3>6. m.for = "reset" => w.codeExpiration = m.at + CodeLife
      BY <3>2, <1>2
    <3>7. m.to = e
      BY <3>2 DEF e
    <3> QED
      BY <3>1, <3>2, <3>3, <3>5, <3>6, <3>7, <1>4 DEF StoredSound
  <2> QED
    BY <2>2, <2>3, <2>4
<1>12. \A q \in Slots : RequestSound(reqs'[q], users', mails', spent')
  <2>1. RequestSound(Idle, users', mails', spent')
    BY DEF RequestSound, WriteSound, GivenSound, Writes, Idle
  <2>2. ASSUME NEW q \in Slots, q # s PROVE RequestSound(reqs[q], users', mails', spent')
    <3>1. RequestSound(reqs[q], users, mails, spent) /\ Apart(reqs[q], r)
      BY <2>2 DEF CodeInv
    <3>2. w.code \in {users[e].code, Writes(r)}
      BY <1>2, <1>6
    <3>3. Writes(reqs[q]) # NoCode =>
              /\ Writes(reqs[q]) \notin spent'
              /\ \A f \in Emails : users'[f].code # Writes(reqs[q])
      BY <1>1, <1>4, <3>1, <3>2 DEF RequestSound, WriteSound, Apart
    <3>4. WriteSound(reqs[q], users', mails', spent')
      BY <3>1, <3>3 DEF RequestSound, WriteSound
    <3> QED
      BY <3>1, <3>4 DEF RequestSound
  <2> QED
    BY <1>7, <2>1, <2>2
<1>13. \A p, q \in Slots : p # q => Apart(reqs'[p], reqs'[q])
  <2>1. Writes(Idle) = NoCode /\ Idle.presented = NoCode
    BY DEF Writes, Idle
  <2> HIDE DEF r
  <2> QED
    BY <1>7, <2>1 DEF CodeInv, Apart
<1> QED
  BY <1>9, <1>10, <1>11, <1>12, <1>13 DEF CodeInv

LEMMA CodeInit == Init => CodeInv
<1> SUFFICES ASSUME Init PROVE CodeInv
  OBVIOUS
<1>1. \A e \in Emails : users[e].code = NoCode
  BY DEF Init, NoDoc
<1>2. \A s \in Slots : Writes(reqs[s]) = NoCode /\ reqs[s].presented = NoCode /\ reqs[s].dirty = {}
  BY DEF Init, Idle, Writes
<1>3. mails = {} /\ spent = {}
  BY DEF Init
<1> QED
  BY <1>1, <1>2, <1>3 DEF CodeInv, MailsDiffer, SpentMailed, StoredSound, RequestSound,
     WriteSound, GivenSound, Apart

LEMMA CodeStep == TInv /\ DocInv /\ CodeInv /\ [Next]_vars => CodeInv'
<1> SUFFICES ASSUME TInv, DocInv, CodeInv, [Next]_vars PROVE CodeInv'
  OBVIOUS
<1>0. ASSUME UNCHANGED <<users, reqs, mails, spent, late>> PROVE CodeInv'
  BY <1>0 DEF CodeInv, MailsDiffer, SpentMailed
<1>1. CASE UNCHANGED vars
  BY <1>0, <1>1 DEF vars
<1>2. CASE Tick
  BY <1>0, <1>2 DEF Tick
<1>3. ASSUME NEW e \in Emails, GoogleLogin(e) \/ \E p \in Passwords : Login(e, p) PROVE CodeInv'
  BY <1>0, <1>3 DEF GoogleLogin, Login
<1>4. ASSUME NEW t \in tokens, RefreshToken(t) PROVE CodeInv'
  BY <1>0, <1>4 DEF RefreshToken
<1>5. ASSUME NEW s \in Slots, NEW e \in Emails, NEW c \in Codes, NEW p \in Passwords,
             SignupRead(s, e, p, c)
      PROVE  CodeInv'
  <2> DEFINE r == [Idle EXCEPT !.pc = "signup", !.email = e, !.generated = c,
                      !.doc = [NoDoc EXCEPT !.provider = "system", !.password.text = p]]
  <2>1. /\ Writes(r) = c /\ r.email = e /\ r.presented = NoCode /\ r.dirty = {}
        /\ r.doc.isConfirm = FALSE
    BY DEF Writes, Idle, NoDoc
  <2> HIDE DEF r
  <2>2. /\ Fresh(c) /\ SendEmail(e, c, "confirm") /\ reqs' = [reqs EXCEPT ![s] = r]
        /\ UNCHANGED <<users, spent, late>>
    BY <1>5 DEF SignupRead, r
  <2> QED
    BY <2>1, <2>2, AskedCode
<1>6. ASSUME NEW s \in Slots, NEW e \in Emails, NEW c \in Codes,
             NEW for \in {"confirm", "reset"}, AskCode(s, e, c, for)
      PROVE  CodeInv'
  <2> DEFINE doc == WithCode(Loaded(users[e]), c)
             r == [pc |-> "save", email |-> e, doc |-> doc,
                   dirty |-> {"code", "codeExpiration"} \cup Touched(users[e]),
                   generated |-> NoCode, presented |-> NoCode, at |-> now]
  <2>1. /\ doc.code = c /\ doc.codeExpiration = now + CodeLife
        /\ doc.isConfirm = users[e].isConfirm
    <3>1. Loaded(users[e]) \in UserDoc /\ Loaded(users[e]).isConfirm = users[e].isConfirm
      BY LoadedFields DEF TInv, TypeOK, UserDoc, Loaded
    <3> QED
      BY <3>1 DEF WithCode, UserDoc
  <2>2. reqs' = [reqs EXCEPT ![s] = r]
    BY <1>6 DEF AskCode, Begin
  <2> HIDE DEF doc
  <2>3. /\ Writes(r) = c /\ r.email = e /\ r.presented = NoCode /\ r.pc = "save"
        /\ r.doc = doc /\ "code" \in r.dirty /\ "codeExpiration" \in r.dirty
        /\ "isConfirm" \notin r.dirty
    BY <2>1 DEF Writes, Touched
  <2> HIDE DEF r
  <2>4. /\ Fresh(c) /\ SendEmail(e, c, for) /\ UNCHANGED <<users, spent, late>>
        /\ for = "confirm" => ~users[e].isConfirm
    BY <1>6 DEF AskCode
  <2>5. for = "confirm" => ~r.doc.isConfirm
    BY <2>1, <2>3, <2>4
  <2> QED
    BY <2>1, <2>2, <2>3, <2>4, <2>5, AskedCode
<1>7. ASSUME NEW s \in Slots, NEW e \in Emails, NEW c \in Codes, Confrim(s, e, c)
      PROVE  CodeInv'
  <2> DEFINE doc == [Loaded(users[e]) EXCEPT !.isConfirm = TRUE, !.code = NoCode]
  <2>1. doc.code = NoCode
    BY LoadedFields DEF UserDoc, TInv, TypeOK
  <2> HIDE DEF doc
  <2>2. /\ Begin(s, "save", e, doc, {"isConfirm", "code"}, c)
        /\ users[e].code = c /\ UNCHANGED <<users, mails, spent, late>>
    BY <1>7 DEF Confrim, doc
  <2>3. {"isConfirm", "code"} \in SUBSET Fields
    BY DEF Fields
  <2>4. c # NoCode /\ "codeExpiration" \notin {"isConfirm", "code"}
    BY AccountsAssumption
  <2> QED
    BY <2>1, <2>2, <2>3, <2>4, BeginCode
<1>8. ASSUME NEW s \in Slots, NEW e \in Emails, NEW c \in Codes, ConfirmForgetPassword(s, e, c)
      PROVE  CodeInv'
  <2> DEFINE doc == [Loaded(users[e]) EXCEPT !.code = NoCode]
  <2>1. doc.code = NoCode
    BY LoadedFields DEF UserDoc, TInv, TypeOK
  <2> HIDE DEF doc
  <2>2. /\ Begin(s, "sign", e, doc, {"code"}, c)
        /\ users[e].code = c /\ users[e].codeExpiration >= now
        /\ UNCHANGED <<users, mails, spent, late>>
    BY <1>8 DEF ConfirmForgetPassword, doc
  <2> QED
    BY <2>1, <2>2, BeginCode DEF Fields
<1>9. ASSUME NEW s \in Slots, NEW e \in Emails, GoogleRead(s, e) PROVE CodeInv'
  <2> DEFINE r == [Idle EXCEPT !.pc = "google", !.email = e]
  <2>1. Writes(r) = NoCode /\ r.presented = NoCode /\ r.dirty = {}
    BY DEF Writes, Idle
  <2> HIDE DEF r
  <2>2. reqs' = [reqs EXCEPT ![s] = r] /\ UNCHANGED <<users, mails, spent, late>>
    BY <1>9 DEF GoogleRead, r
  <2> QED
    BY <2>1, <2>2, QuietCode DEF GivenSound
<1>10. ASSUME NEW s \in Slots, NEW t \in tokens, FreezeAccount(s, t) PROVE CodeInv'
  <2> DEFINE doc == [Loaded(users[t.user]) EXCEPT !.isDeletedAt = now, !.isDeleted = TRUE]
             dirty == {"isDeletedAt", "isDeleted"}
  <2>1. t.user \in Emails
    BY DEF TInv, TypeOK, Token
  <2>2. dirty \in SUBSET Fields /\ dirty \cap {"code", "codeExpiration", "isConfirm"} = {}
    BY DEF Fields
  <2> HIDE DEF doc, dirty
  <2>3. Begin(s, "save", t.user, doc, dirty, NoCode) /\ UNCHANGED <<users, mails, spent, late>>
    BY <1>10 DEF FreezeAccount, doc, dirty
  <2> QED
    BY <2>1, <2>2, <2>3, BeginCode
<1>11. ASSUME NEW s \in Slots, NEW t \in tokens, NEW p \in Passwords, ResetPassword(s, t, p)
       PROVE  CodeInv'
  <2> DEFINE doc == [Loaded(users[t.user]) EXCEPT !.password = [text |-> p, layers |-> 0],
                                                  !.code = NoCode]
             dirty == {"password"} \cup (IF users[t.user].code # NoCode THEN {"code"} ELSE {})
  <2>1. t.user \in Emails
    BY DEF TInv, TypeOK, Token
  <2>2. doc.code = NoCode
    BY <2>1, LoadedFields DEF UserDoc, TInv, TypeOK
  <2>3. dirty \in SUBSET Fields /\ dirty \cap {"codeExpiration", "isConfirm"} = {}
    BY DEF Fields
  <2> HIDE DEF doc, dirty
  <2>4. Begin(s, "save", t.user, doc, dirty, NoCode) /\ UNCHANGED <<users, mails, spent, late>>
    BY <1>11 DEF ResetPassword, doc, dirty
  <2> QED
    BY <2>1, <2>2, <2>3, <2>4, BeginCode
<1>12. ASSUME NEW s \in Slots, SignupCreate(s) PROVE CodeInv'
  <2> DEFINE e == reqs[s].email
             doc == Sealed(reqs[s].doc, {"password", "phone"})
             r == [reqs[s] EXCEPT !.pc = "save", !.doc = WithCode(doc, reqs[s].generated),
                                  !.dirty = {"code", "codeExpiration"}]
  <2>1. reqs[s] \in Request /\ e \in Emails /\ reqs[s].doc \in UserDoc
    BY <1>12 DEF SignupCreate, TInv, TypeOK, RequestsTyped, Request
  <2>2. PICK p \in Passwords :
            reqs[s].doc = [NoDoc EXCEPT !.provider = "system", !.password.text = p]
    BY <1>12 DEF SignupCreate, DocInv, CopiesSound, SignupSound
  <2>3. reqs[s].doc.code = NoCode /\ reqs[s].doc.isConfirm = FALSE
    BY <2>2 DEF NoDoc
  <2>4. doc \in UserDoc /\ doc.code = NoCode /\ doc.isConfirm = FALSE
    <3>1. {"password", "phone"} \in SUBSET Fields
      BY DEF Fields
    <3>2. /\ doc \in UserDoc
          /\ doc = [reqs[s].doc EXCEPT !.password = [reqs[s].doc.password EXCEPT !.layers = @ + 1],
                                       !.phone = @ + 1]
      BY <2>1, <3>1, SealedFields
    <3> HIDE DEF doc
    <3> QED
      BY <2>1, <2>3, <3>2 DEF UserDoc
  <2> HIDE DEF doc
  <2>5. WithCode(doc, reqs[s].generated).code = reqs[s].generated
        /\ WithCode(doc, reqs[s].generated).isConfirm = FALSE
    BY <2>4 DEF WithCode, UserDoc
  <2>6. /\ r.pc = "save" /\ r.email = e /\ r.dirty = {"code", "codeExpiration"}
        /\ r.doc = WithCode(doc, reqs[s].generated) /\ r.presented = reqs[s].presented
    BY <2>1 DEF Request
  <2> HIDE DEF r
  <2>7. RequestSound(reqs[s], users, mails, spent) /\ reqs[s].pc = "signup"
    BY <1>12 DEF CodeInv, SignupCreate
  <2>8. /\ Writes(r) = reqs[s].generated /\ Writes(reqs[s]) = reqs[s].generated
        /\ r.presented = NoCode
    BY <2>5, <2>6, <2>7 DEF Writes, RequestSound, GivenSound
  <2>9. WriteSound(r, users, mails, spent)
    BY <2>5, <2>6, <2>7, <2>8 DEF RequestSound, WriteSound, e
  <2>10. GivenSound(r, mails)
    BY <2>6, <2>8 DEF GivenSound
  <2>11. /\ users' = [users EXCEPT ![e] = doc] /\ reqs' = [reqs EXCEPT ![s] = r]
         /\ UNCHANGED <<mails, spent, late>>
    BY <1>12 DEF SignupCreate, doc, r
  <2> HIDE DEF e
  <2> QED
    BY <2>1, <2>4, <2>8, <2>9, <2>10, <2>11, CreateCode DEF RequestSound
<1>13. ASSUME NEW s \in Slots, GoogleCreate(s) PROVE CodeInv'
  <2> DEFINE e == reqs[s].email
             doc == [NoDoc EXCEPT !.provider = "google", !.isConfirm = TRUE]
  <2>1. e \in Emails
    BY <1>13 DEF GoogleCreate, TInv, RequestsTyped
  <2>2. doc.code = NoCode
    BY DEF NoDoc
  <2>3. Writes(Idle) = NoCode /\ Idle.presented = NoCode /\ Idle.dirty = {}
    BY DEF Writes, Idle
  <2>4. RequestSound(Idle, users, mails, spent)
    BY <2>3 DEF RequestSound, WriteSound, GivenSound
  <2> HIDE DEF doc
  <2>5. /\ users' = [users EXCEPT ![e] = doc] /\ reqs' = [reqs EXCEPT ![s] = Idle]
        /\ UNCHANGED <<mails, spent, late>>
    BY <1>13 DEF GoogleCreate, doc
  <2> HIDE DEF e
  <2> QED
    BY <2>1, <2>2, <2>3, <2>4, <2>5, CreateCode
<1>14. ASSUME NEW s \in Slots, Save(s) PROVE CodeInv'
  <2>1. Writes(reqs[s]) # NoCode => "code" \in reqs[s].dirty /\ Writes(reqs[s]) = reqs[s].doc.code
    BY <1>14 DEF Save, Writes
  <2>2. Writes(reqs[s]) # NoCode /\ users[reqs[s].email].isConfirm /\ ~reqs[s].doc.isConfirm
            => Writes(reqs[s]) \in late'
    BY <1>14, <2>1 DEF Save
  <2>3. late \subseteq late'
    BY <1>14 DEF Save
  <2> QED
    BY <1>14, <2>2, <2>3, SaveCode DEF Save
<1>15. ASSUME NEW s \in Slots, SaveAndSign(s) PROVE CodeInv'
  <2>1. reqs[s].presented \in Codes /\ reqs[s].presented # NoCode
    BY <1>15, AccountsAssumption DEF SaveAndSign, TInv, RequestsTyped
  <2>2. Writes(reqs[s]) = NoCode
    BY <2>1 DEF CodeInv, RequestSound, WriteSound
  <2>3. spent' = spent \cup ({reqs[s].presented} \ {NoCode})
    BY <1>15, <2>1 DEF SaveAndSign
  <2> QED
    BY <1>15, <2>2, <2>3, SaveCode DEF SaveAndSign
<1>16. ASSUME NEW s \in Slots, Fail(s) PROVE CodeInv'
  <2>1. Writes(Idle) = NoCode /\ Idle.presented = NoCode /\ Idle.dirty = {}
    BY DEF Writes, Idle
  <2> QED
    BY <1>16, <2>1, QuietCode DEF Fail, GivenSound
<1> QED
  BY <1>1, <1>2, <1>3, <1>4, <1>5, <1>6, <1>7, <1>8, <1>9, <1>10, <1>11, <1>12, <1>13,
     <1>14, <1>15, <1>16 DEF Next, ReSendCode, ForgetPassword

LEMMA CodesAlways == Spec => [](TInv /\ CodeInv)
  BY TypeInit, TypeStep, DocInit, DocStep, CodeInit, CodeStep, PTL DEF Spec

\* A code that opened a door is never stored again, however old the copies are
\* that the other requests save.
THEOREM SpentTheorem == Spec => []SpentCodeIsGone
<1>1. TInv /\ CodeInv => SpentCodeIsGone
  BY DEF CodeInv, StoredSound, SpentCodeIsGone
<1> QED
  BY <1>1, CodesAlways, PTL

\* A confirmation code waits on a confirmed account only if its request was
\* overtaken by the confirmation.
THEOREM PurposeTheorem == Spec => []PurposeKept
<1>1. TInv /\ CodeInv => PurposeKept
  <2> SUFFICES ASSUME TInv, CodeInv, NEW e \in Emails, NEW m \in mails,
                      users[e].isConfirm, users[e].code = m.code, m.for = "confirm"
               PROVE  m.code \in late
    BY DEF PurposeKept
  <2>1. users[e].code # NoCode
    BY AccountsAssumption DEF TInv, TypeOK, Mail
  <2>2. PICK n \in mails : n.code = users[e].code
                           /\ (n.for = "confirm" /\ users[e].isConfirm => n.code \in late)
    BY <2>1 DEF CodeInv, StoredSound
  <2> QED
    BY <2>2 DEF CodeInv, MailsDiffer
<1> QED
  BY <1>1, CodesAlways, PTL

\* A request about to sign a reset token was given a code mailed to its account,
\* and within the life of a code mailed for a reset.
THEOREM ResetTheorem == Spec => []ResetEarnedInTime
<1>1. TInv /\ CodeInv => ResetEarnedInTime
  <2> SUFFICES ASSUME TInv, CodeInv, NEW s \in Slots, reqs[s].pc = "sign"
               PROVE  \E m \in mails :
                         /\ m.to = reqs[s].email /\ m.code = reqs[s].presented
                         /\ m.for = "reset" => reqs[s].at <= m.at + CodeLife
    BY DEF ResetEarnedInTime
  <2>1. reqs[s].presented # NoCode
    BY AccountsAssumption DEF TInv, RequestsTyped
  <2> QED
    BY <2>1 DEF CodeInv, RequestSound, GivenSound
<1> QED
  BY <1>1, CodesAlways, PTL

-----------------------------------------------------------------------------
(* The contract: what each request does to the account                     *)

Asking(r) ==
    /\ r.pc = "save" /\ r.presented = NoCode
    /\ "isConfirm" \notin r.dirty /\ "password" \notin r.dirty /\ "isDeleted" \notin r.dirty

Confirming(r) ==
    /\ r.pc = "save" /\ r.presented \in Codes
    /\ "isConfirm" \in r.dirty /\ r.doc.isConfirm
    /\ "password" \notin r.dirty /\ "isDeleted" \notin r.dirty

Opening(r) ==
    /\ r.pc = "sign" /\ r.presented \in Codes
    /\ "isConfirm" \notin r.dirty /\ "password" \notin r.dirty /\ "isDeleted" \notin r.dirty

Resetting(r) ==
    /\ r.pc = "save" /\ r.presented = NoCode
    /\ "password" \in r.dirty /\ r.doc.password.text \in Passwords
    /\ "isConfirm" \notin r.dirty /\ "isDeleted" \notin r.dirty

Freezing(r) ==
    /\ r.pc = "save" /\ r.presented = NoCode
    /\ "isDeleted" \in r.dirty /\ r.doc.isDeleted
    /\ "isConfirm" \notin r.dirty /\ "password" \notin r.dirty

OneKind(r) ==
    r.pc \in {"save", "sign"} =>
        Asking(r) \/ Confirming(r) \/ Opening(r) \/ Resetting(r) \/ Freezing(r)

GoogleConfirmed == \A e \in Emails : users[e].provider = "google" => users[e].isConfirm

\* A request under way is of one kind, and Google's accounts are confirmed.
KindInv == GoogleConfirmed /\ \A s \in Slots : OneKind(reqs[s])

\* What Begin leaves in its slot.
LEMMA Begun ==
    ASSUME TInv, NEW s \in Slots, NEW pc, NEW e \in Emails, NEW doc, NEW dirty,
           NEW presented, Begin(s, pc, e, doc, dirty, presented)
    PROVE  \E r : /\ reqs' = [reqs EXCEPT ![s] = r] /\ reqs[s].pc = "idle"
                  /\ r.pc = pc /\ r.email = e /\ r.doc = doc /\ r.presented = presented
                  /\ "isConfirm" \in r.dirty <=> "isConfirm" \in dirty
                  /\ "password" \in r.dirty <=> "password" \in dirty
                  /\ "isDeleted" \in r.dirty <=> "isDeleted" \in dirty
<1> DEFINE r == [pc |-> pc, email |-> e, doc |-> doc, dirty |-> dirty \cup Touched(users[e]),
                 generated |-> NoCode, presented |-> presented, at |-> now]
<1>1. Touched(users[e]) \in SUBSET {"phone"}
  BY DEF Touched
<1>2. /\ r.pc = pc /\ r.email = e /\ r.doc = doc /\ r.presented = presented
      /\ "isConfirm" \in r.dirty <=> "isConfirm" \in dirty
      /\ "password" \in r.dirty <=> "password" \in dirty
      /\ "isDeleted" \in r.dirty <=> "isDeleted" \in dirty
  BY <1>1
<1>3. reqs' = [reqs EXCEPT ![s] = r] /\ reqs[s].pc = "idle"
  BY DEF Begin
<1> HIDE DEF r
<1> QED
  BY <1>2, <1>3

\* Each way to begin, and the request it begins.
LEMMA AskBegins ==
    ASSUME TInv, NEW s \in Slots, NEW e \in Emails, NEW c \in Codes, NEW for,
           AskCode(s, e, c, for)
    PROVE  \E r : reqs' = [reqs EXCEPT ![s] = r] /\ reqs[s].pc = "idle" /\ Asking(r)
<1>1. Begin(s, "save", e, WithCode(Loaded(users[e]), c), {"code", "codeExpiration"}, NoCode)
  BY DEF AskCode
<1>2. /\ "isConfirm" \notin {"code", "codeExpiration"}
      /\ "password" \notin {"code", "codeExpiration"}
      /\ "isDeleted" \notin {"code", "codeExpiration"}
  OBVIOUS
<1>3. PICK r : /\ reqs' = [reqs EXCEPT ![s] = r] /\ reqs[s].pc = "idle"
               /\ r.pc = "save" /\ r.presented = NoCode
               /\ "isConfirm" \notin r.dirty /\ "password" \notin r.dirty
               /\ "isDeleted" \notin r.dirty
  <2> DEFINE doc == WithCode(Loaded(users[e]), c)
             dirty == {"code", "codeExpiration"}
  <2>1. Begin(s, "save", e, doc, dirty, NoCode)
    BY <1>1
  <2>2. "isConfirm" \notin dirty /\ "password" \notin dirty /\ "isDeleted" \notin dirty
    BY <1>2
  <2> HIDE DEF doc, dirty
  <2> QED
    BY <2>1, <2>2, Begun
<1> QED
  BY <1>3 DEF Asking

LEMMA ConfrimBegins ==
    ASSUME TInv, NEW s \in Slots, NEW e \in Emails, NEW c \in Codes, Confrim(s, e, c)
    PROVE  \E r : /\ reqs' = [reqs EXCEPT ![s] = r] /\ reqs[s].pc = "idle"
                  /\ Confirming(r) /\ r.email = e /\ r.presented = c
<1> DEFINE doc == [Loaded(users[e]) EXCEPT !.isConfirm = TRUE, !.code = NoCode]
<1>1. doc.isConfirm
  <2>1. users[e] \in UserDoc
    BY DEF TInv, TypeOK
  <2>2. Loaded(users[e]) \in UserDoc
    BY <2>1, LoadedFields
  <2> QED
    BY <2>2 DEF UserDoc
<1>2. Begin(s, "save", e, doc, {"isConfirm", "code"}, c)
  BY DEF Confrim
<1> HIDE DEF doc
<1>3. /\ "isConfirm" \in {"isConfirm", "code"}
      /\ "password" \notin {"isConfirm", "code"} /\ "isDeleted" \notin {"isConfirm", "code"}
  OBVIOUS
<1> QED
  BY <1>1, <1>2, <1>3, Begun DEF Confirming

LEMMA ForgotBegins ==
    ASSUME TInv, NEW s \in Slots, NEW e \in Emails, NEW c \in Codes,
           ConfirmForgetPassword(s, e, c)
    PROVE  \E r : /\ reqs' = [reqs EXCEPT ![s] = r] /\ reqs[s].pc = "idle"
                  /\ Opening(r) /\ r.email = e /\ r.presented = c
<1>1. Begin(s, "sign", e, [Loaded(users[e]) EXCEPT !.code = NoCode], {"code"}, c)
  BY DEF ConfirmForgetPassword
<1>2. "isConfirm" \notin {"code"} /\ "password" \notin {"code"} /\ "isDeleted" \notin {"code"}
  OBVIOUS
<1> QED
  BY <1>1, <1>2, Begun DEF Opening

LEMMA ResetBegins ==
    ASSUME TInv, NEW s \in Slots, NEW t \in tokens, NEW p \in Passwords, ResetPassword(s, t, p)
    PROVE  \E r : /\ reqs' = [reqs EXCEPT ![s] = r] /\ reqs[s].pc = "idle"
                  /\ Resetting(r) /\ r.email = t.user /\ r.doc.password.text = p
<1> DEFINE doc == [Loaded(users[t.user]) EXCEPT !.password = [text |-> p, layers |-> 0],
                                                !.code = NoCode]
           dirty == {"password"} \cup (IF users[t.user].code # NoCode THEN {"code"} ELSE {})
<1>1. t.user \in Emails /\ Loaded(users[t.user]) \in UserDoc
  <2>1. t.user \in Emails
    BY DEF TInv, TypeOK, Token
  <2>2. users[t.user] \in UserDoc
    BY <2>1 DEF TInv, TypeOK
  <2> QED
    BY <2>1, <2>2, LoadedFields
<1>2. doc.password.text = p
  BY <1>1 DEF UserDoc
<1>3. "password" \in dirty /\ "isConfirm" \notin dirty /\ "isDeleted" \notin dirty
  OBVIOUS
<1>4. Begin(s, "save", t.user, doc, dirty, NoCode)
  BY DEF ResetPassword
<1> HIDE DEF doc, dirty
<1>5. PICK r : /\ reqs' = [reqs EXCEPT ![s] = r] /\ reqs[s].pc = "idle"
               /\ r.pc = "save" /\ r.email = t.user /\ r.doc = doc /\ r.presented = NoCode
               /\ "isConfirm" \notin r.dirty /\ "password" \in r.dirty
               /\ "isDeleted" \notin r.dirty
  BY <1>1, <1>3, <1>4, Begun
<1> QED
  BY <1>2, <1>5 DEF Resetting

LEMMA FreezeBegins ==
    ASSUME TInv, NEW s \in Slots, NEW t \in tokens, FreezeAccount(s, t)
    PROVE  \E r : /\ reqs' = [reqs EXCEPT ![s] = r] /\ reqs[s].pc = "idle"
                  /\ Freezing(r) /\ r.email = t.user
<1> DEFINE doc == [Loaded(users[t.user]) EXCEPT !.isDeletedAt = now, !.isDeleted = TRUE]
<1>1. t.user \in Emails /\ Loaded(users[t.user]) \in UserDoc
  <2>1. t.user \in Emails
    BY DEF TInv, TypeOK, Token
  <2>2. users[t.user] \in UserDoc
    BY <2>1 DEF TInv, TypeOK
  <2> QED
    BY <2>1, <2>2, LoadedFields
<1>2. doc.isDeleted
  BY <1>1 DEF UserDoc
<1>3. Begin(s, "save", t.user, doc, {"isDeletedAt", "isDeleted"}, NoCode)
  BY DEF FreezeAccount
<1> HIDE DEF doc
<1>4. /\ "isDeleted" \in {"isDeletedAt", "isDeleted"}
      /\ "isConfirm" \notin {"isDeletedAt", "isDeleted"}
      /\ "password" \notin {"isDeletedAt", "isDeleted"}
  OBVIOUS
<1> QED
  BY <1>1, <1>2, <1>3, <1>4, Begun DEF Freezing

\* An account's name in a request that has begun to change it.
LEMMA RequestTyped ==
    ASSUME TInv, NEW s \in Slots, reqs[s].pc # "idle"
    PROVE  /\ reqs[s].email \in Emails /\ reqs[s].doc \in UserDoc
           /\ users[reqs[s].email] \in UserDoc /\ reqs[s].dirty \in SUBSET Fields
  BY DEF TInv, TypeOK, RequestsTyped, Request

\* The second half of a sign-up: an unconfirmed account with the password that
\* was given, and a request that stores its code.
LEMMA SignupCreates ==
    ASSUME TInv, DocInv, CodeInv, NEW s \in Slots, SignupCreate(s)
    PROVE  \E r, doc : /\ reqs' = [reqs EXCEPT ![s] = r] /\ Asking(r)
                       /\ users' = [users EXCEPT ![reqs[s].email] = doc]
                       /\ doc \in UserDoc
                       /\ doc.provider = "system" /\ ~doc.isConfirm /\ ~doc.isDeleted
                       /\ doc.password.text \in Passwords
<1> DEFINE doc == Sealed(reqs[s].doc, {"password", "phone"})
           r == [reqs[s] EXCEPT !.pc = "save", !.doc = WithCode(doc, reqs[s].generated),
                                !.dirty = {"code", "codeExpiration"}]
<1>1. PICK p \in Passwords :
          reqs[s].doc = [NoDoc EXCEPT !.provider = "system", !.password.text = p]
  BY DEF SignupCreate, DocInv, CopiesSound, SignupSound
<1>2. /\ doc \in UserDoc
      /\ doc = [reqs[s].doc EXCEPT
                   !.password = [reqs[s].doc.password EXCEPT !.layers = @ + 1],
                   !.phone = @ + 1]
  <2>1. reqs[s].doc \in UserDoc
    BY RequestTyped DEF SignupCreate
  <2>2. {"password", "phone"} \in SUBSET Fields
    BY DEF Fields
  <2> QED
    BY <2>1, <2>2, SealedFields
<1>3. /\ doc.provider = "system" /\ ~doc.isConfirm /\ ~doc.isDeleted
      /\ doc.password.text \in Passwords
  <2>1. /\ reqs[s].doc.provider = "system" /\ ~reqs[s].doc.isConfirm
        /\ ~reqs[s].doc.isDeleted /\ reqs[s].doc.password = [text |-> p, layers |-> 0]
    BY <1>1 DEF NoDoc
  <2>2. reqs[s].doc \in UserDoc
    BY RequestTyped DEF SignupCreate
  <2>3. /\ doc.provider = reqs[s].doc.provider
        /\ doc.isConfirm = reqs[s].doc.isConfirm /\ doc.isDeleted = reqs[s].doc.isDeleted
        /\ doc.password.text = reqs[s].doc.password.text
    <3> HIDE DEF doc
    <3>1. reqs[s].doc.password \in Secret
      BY <2>2 DEF UserDoc
    <3>2. [reqs[s].doc.password EXCEPT !.layers = @ + 1].text = reqs[s].doc.password.text
      BY <3>1 DEF Secret
    <3> QED
      BY <1>2, <2>2, <3>2 DEF UserDoc
  <2> QED
    BY <2>1, <2>3
<1>4. reqs' = [reqs EXCEPT ![s] = r] /\ users' = [users EXCEPT ![reqs[s].email] = doc]
  BY DEF SignupCreate
<1> HIDE DEF doc
<1>5. Asking(r)
  <2>1. reqs[s] \in Request /\ reqs[s].presented = NoCode
    BY DEF SignupCreate, TInv, TypeOK, CodeInv, RequestSound, GivenSound
  <2> QED
    BY <2>1 DEF Asking, Request
<1> HIDE DEF r
<1> QED
  BY <1>2, <1>3, <1>4, <1>5

-----------------------------------------------------------------------------
(* The contract: requests keep to their kinds                              *)

LEMMA KindInit == Init => KindInv
  BY DEF Init, KindInv, GoogleConfirmed, OneKind, NoDoc, Idle

LEMMA KindSlot ==
    ASSUME TInv, KindInv, NEW s \in Slots, NEW r, reqs' = [reqs EXCEPT ![s] = r],
           OneKind(r), UNCHANGED users
    PROVE  KindInv'
<1>1. \A q \in Slots : reqs'[q] = IF q = s THEN r ELSE reqs[q]
  BY DEF TInv, TypeOK
<1>2. \A q \in Slots : OneKind(reqs'[q])
  BY <1>1 DEF KindInv
<1>3. GoogleConfirmed'
  BY DEF KindInv, GoogleConfirmed
<1> QED
  BY <1>2, <1>3 DEF KindInv

LEMMA IdleKind == OneKind(Idle)
  BY DEF OneKind, Idle

\* A save confirms accounts and never takes a confirmation back.
LEMMA KindSave ==
    ASSUME TInv, KindInv, NEW s \in Slots, reqs[s].pc \in {"save", "sign"},
           users' = [users EXCEPT ![reqs[s].email] = Written(@, reqs[s].doc, reqs[s].dirty)],
           reqs' = [reqs EXCEPT ![s] = Idle]
    PROVE  KindInv'
<1> DEFINE e == reqs[s].email
           w == Written(users[e], reqs[s].doc, reqs[s].dirty)
<1>1. /\ e \in Emails /\ reqs[s].doc \in UserDoc
      /\ users[e] \in UserDoc /\ reqs[s].dirty \in SUBSET Fields
  BY RequestTyped
<1>2. /\ w.provider = users[e].provider
      /\ w.password = IF "password" \in reqs[s].dirty
                      THEN [reqs[s].doc.password EXCEPT !.layers = @ + 1]
                      ELSE users[e].password
      /\ w.phone = IF "phone" \in reqs[s].dirty THEN reqs[s].doc.phone + 1
                   ELSE users[e].phone
  BY <1>1, WrittenFields
<1>3. users[e].isConfirm => w.isConfirm
  <2>1. /\ "isConfirm" \in reqs[s].dirty => (w.isConfirm <=> reqs[s].doc.isConfirm)
        /\ "isConfirm" \notin reqs[s].dirty => (w.isConfirm <=> users[e].isConfirm)
    BY <1>1, WrittenFlags
  <2>2. "isConfirm" \in reqs[s].dirty => reqs[s].doc.isConfirm
    BY DEF KindInv, OneKind, Asking, Confirming, Opening, Resetting, Freezing
  <2> QED
    BY <2>1, <2>2
<1>4. \A f \in Emails : users'[f] = IF f = e THEN w ELSE users[f]
  BY <1>1 DEF TInv, TypeOK
<1> HIDE DEF w
<1>5. GoogleConfirmed'
  BY <1>2, <1>3, <1>4 DEF KindInv, GoogleConfirmed
<1>6. \A q \in Slots : reqs'[q] = IF q = s THEN Idle ELSE reqs[q]
  BY DEF TInv, TypeOK
<1> QED
  BY <1>5, <1>6, IdleKind DEF KindInv

LEMMA KindStep == TInv /\ DocInv /\ CodeInv /\ KindInv /\ [Next]_vars => KindInv'
<1> SUFFICES ASSUME TInv, DocInv, CodeInv, KindInv, [Next]_vars PROVE KindInv'
  OBVIOUS
<1>0. ASSUME UNCHANGED <<users, reqs>> PROVE KindInv'
  BY <1>0 DEF KindInv, GoogleConfirmed
<1>1. CASE UNCHANGED vars \/ Tick
  BY <1>0, <1>1 DEF vars, Tick
<1>2. ASSUME NEW e \in Emails, GoogleLogin(e) \/ \E p \in Passwords : Login(e, p) PROVE KindInv'
  BY <1>0, <1>2 DEF GoogleLogin, Login
<1>3. ASSUME NEW t \in tokens, RefreshToken(t) PROVE KindInv'
  BY <1>0, <1>3 DEF RefreshToken
<1>4. ASSUME NEW s \in Slots, NEW e \in Emails, NEW c \in Codes, NEW p \in Passwords,
             SignupRead(s, e, p, c)
      PROVE  KindInv'
  <2> DEFINE r == [Idle EXCEPT !.pc = "signup", !.email = e, !.generated = c,
                      !.doc = [NoDoc EXCEPT !.provider = "system", !.password.text = p]]
  <2>1. OneKind(r)
    BY DEF OneKind, Idle
  <2>2. reqs' = [reqs EXCEPT ![s] = r] /\ UNCHANGED users
    BY <1>4 DEF SignupRead
  <2> HIDE DEF r
  <2> QED
    BY <2>1, <2>2, KindSlot
<1>5. ASSUME NEW s \in Slots, NEW e \in Emails, NEW c \in Codes,
             NEW for \in {"confirm", "reset"}, AskCode(s, e, c, for)
      PROVE  KindInv'
  <2>1. UNCHANGED users
    BY <1>5 DEF AskCode
  <2> QED
    BY <1>5, <2>1, AskBegins, KindSlot DEF OneKind
<1>6. ASSUME NEW s \in Slots, NEW e \in Emails, NEW c \in Codes, Confrim(s, e, c)
      PROVE  KindInv'
  <2>1. UNCHANGED users
    BY <1>6 DEF Confrim
  <2> QED
    BY <1>6, <2>1, ConfrimBegins, KindSlot DEF OneKind
<1>7. ASSUME NEW s \in Slots, NEW e \in Emails, NEW c \in Codes, ConfirmForgetPassword(s, e, c)
      PROVE  KindInv'
  <2>1. UNCHANGED users
    BY <1>7 DEF ConfirmForgetPassword
  <2> QED
    BY <1>7, <2>1, ForgotBegins, KindSlot DEF OneKind
<1>8. ASSUME NEW s \in Slots, NEW t \in tokens, NEW p \in Passwords, ResetPassword(s, t, p)
      PROVE  KindInv'
  <2>1. UNCHANGED users
    BY <1>8 DEF ResetPassword
  <2> QED
    BY <1>8, <2>1, ResetBegins, KindSlot DEF OneKind
<1>9. ASSUME NEW s \in Slots, NEW t \in tokens, FreezeAccount(s, t) PROVE KindInv'
  <2>1. UNCHANGED users
    BY <1>9 DEF FreezeAccount
  <2> QED
    BY <1>9, <2>1, FreezeBegins, KindSlot DEF OneKind
<1>10. ASSUME NEW s \in Slots, NEW e \in Emails, GoogleRead(s, e) PROVE KindInv'
  <2> DEFINE r == [Idle EXCEPT !.pc = "google", !.email = e]
  <2>1. OneKind(r)
    BY DEF OneKind, Idle
  <2>2. reqs' = [reqs EXCEPT ![s] = r] /\ UNCHANGED users
    BY <1>10 DEF GoogleRead
  <2> HIDE DEF r
  <2> QED
    BY <2>1, <2>2, KindSlot
<1>11. ASSUME NEW s \in Slots, SignupCreate(s) PROVE KindInv'
  <2>1. PICK r, doc : /\ reqs' = [reqs EXCEPT ![s] = r] /\ Asking(r)
                      /\ users' = [users EXCEPT ![reqs[s].email] = doc]
                      /\ doc.provider = "system"
    BY <1>11, SignupCreates
  <2>2. reqs[s].email \in Emails
    BY <1>11, RequestTyped DEF SignupCreate
  <2>3. GoogleConfirmed'
    BY <2>1, <2>2 DEF KindInv, GoogleConfirmed, TInv, TypeOK
  <2>4. \A q \in Slots : reqs'[q] = IF q = s THEN r ELSE reqs[q]
    BY <2>1 DEF TInv, TypeOK
  <2> QED
    BY <2>1, <2>3, <2>4 DEF KindInv, OneKind
<1>12. ASSUME NEW s \in Slots, GoogleCreate(s) PROVE KindInv'
  <2>1. reqs[s].email \in Emails
    BY <1>12, RequestTyped DEF GoogleCreate
  <2>2. GoogleConfirmed'
    BY <1>12, <2>1 DEF GoogleCreate, KindInv, GoogleConfirmed, TInv, TypeOK, NoDoc
  <2>3. \A q \in Slots : reqs'[q] = IF q = s THEN Idle ELSE reqs[q]
    BY <1>12 DEF GoogleCreate, TInv, TypeOK
  <2> QED
    BY <2>2, <2>3, IdleKind DEF KindInv
<1>13. ASSUME NEW s \in Slots, Save(s) \/ SaveAndSign(s) PROVE KindInv'
  BY <1>13, KindSave DEF Save, SaveAndSign
<1>14. ASSUME NEW s \in Slots, Fail(s) PROVE KindInv'
  BY <1>14, IdleKind, KindSlot DEF Fail
<1> QED
  BY <1>1, <1>2, <1>3, <1>4, <1>5, <1>6, <1>7, <1>8, <1>9, <1>10, <1>11, <1>12, <1>13,
     <1>14 DEF Next, ReSendCode, ForgetPassword

-----------------------------------------------------------------------------
(* The contract: what it sees of a state                                   *)

AStanding == [e \in Emails |-> Standing(users[e])]
APassword == [e \in Emails |-> users[e].password.text]
AFrozen == {e \in Emails : users[e].isDeleted}
AMailbox == [e \in Emails |-> {m.code : m \in {n \in mails : n.to = e}}]
ATrusted == HoldersOf({"reset"})
AMembers == HoldersOf({"access", "refresh"})
AGranted == [s \in Slots |-> Grant(reqs[s])]

LEMMA SameUsers == UNCHANGED users => UNCHANGED <<AStanding, APassword, AFrozen>>
  BY DEF AStanding, APassword, AFrozen

LEMMA SameMails == UNCHANGED mails => UNCHANGED AMailbox
  BY DEF AMailbox

LEMMA SameTokens == UNCHANGED tokens => UNCHANGED <<ATrusted, AMembers>>
  BY DEF ATrusted, AMembers, HoldersOf

LEMMA SameRequests == UNCHANGED reqs => UNCHANGED AGranted
  BY DEF AGranted

LEMMA OneGrant ==
    ASSUME TInv, NEW s \in Slots, NEW r, reqs' = [reqs EXCEPT ![s] = r]
    PROVE  AGranted' = [AGranted EXCEPT ![s] = Grant(r)]
<1>1. \A q \in Slots : Grant(reqs'[q]) = IF q = s THEN Grant(r) ELSE Grant(reqs[q])
  BY DEF TInv, TypeOK
<1>2. AGranted' = [q \in Slots |-> Grant(reqs'[q])]
  BY DEF AGranted
<1> QED
  BY <1>1, <1>2 DEF AGranted

\* A request of each kind, and what it was allowed.
LEMMA GrantOfKind ==
    ASSUME NEW r
    PROVE  /\ r.pc \in {"idle", "signup", "google"} \/ Asking(r) => Grant(r) = Contract!Nothing
           /\ Confirming(r) =>
                 Grant(r) = [what |-> "confirm", to |-> r.email, with |-> r.presented]
           /\ Opening(r) => Grant(r) = [what |-> "trust", to |-> r.email, with |-> r.presented]
           /\ Resetting(r) =>
                 Grant(r) = [what |-> "change", to |-> r.email, with |-> r.doc.password.text]
           /\ Freezing(r) => Grant(r) = [what |-> "freeze", to |-> r.email]
<1>1. ASSUME r.pc \in {"idle", "signup", "google"} \/ Asking(r)
      PROVE  Grant(r) = Contract!Nothing
  BY <1>1 DEF Grant, Asking, Contract!Nothing
<1>2. ASSUME Confirming(r)
      PROVE  Grant(r) = [what |-> "confirm", to |-> r.email, with |-> r.presented]
  BY <1>2 DEF Grant, Confirming
<1>3. ASSUME Opening(r)
      PROVE  Grant(r) = [what |-> "trust", to |-> r.email, with |-> r.presented]
  BY <1>3 DEF Grant, Opening
<1>4. ASSUME Resetting(r)
      PROVE  Grant(r) = [what |-> "change", to |-> r.email, with |-> r.doc.password.text]
  BY <1>4 DEF Grant, Resetting
<1>5. ASSUME Freezing(r)
      PROVE  Grant(r) = [what |-> "freeze", to |-> r.email]
  BY <1>5 DEF Grant, Freezing
<1> QED
  BY <1>1, <1>2, <1>3, <1>4, <1>5

LEMMA IdleGrant == Grant(Idle) = Contract!Nothing
  BY GrantOfKind DEF Idle

\* A slot's request as the contract sees it.
LEMMA GrantedTo ==
    ASSUME NEW s \in Slots
    PROVE  AGranted[s] = Grant(reqs[s])
  BY DEF AGranted

\* Mails only add to a mailbox, tokens only to trust and membership.
LEMMA MailArrives ==
    ASSUME TInv, NEW e \in Emails, NEW c, NEW for, SendEmail(e, c, for)
    PROVE  AMailbox' = [AMailbox EXCEPT ![e] = @ \cup {c}]
<1> DEFINE m == [to |-> e, code |-> c, for |-> for, at |-> now]
           codes(f, ms) == {n.code : n \in {k \in ms : k.to = f}}
<1>1. m.to = e /\ m.code = c /\ mails' = mails \cup {m}
  BY DEF SendEmail
<1> HIDE DEF m
<1>2. codes(e, mails \cup {m}) = codes(e, mails) \cup {c}
  BY <1>1
<1>3. \A f \in Emails : f # e => codes(f, mails \cup {m}) = codes(f, mails)
  BY <1>1
<1>4. AMailbox = [f \in Emails |-> codes(f, mails)]
  BY DEF AMailbox
<1>5. AMailbox' = [f \in Emails |-> codes(f, mails \cup {m})]
  BY <1>1 DEF AMailbox
<1> HIDE DEF codes
<1> QED
  BY <1>2, <1>3, <1>4, <1>5

LEMMA SessionSigned ==
    ASSUME TInv, NEW e \in Emails, SignSession(e)
    PROVE  AMembers' = AMembers \cup {e} /\ UNCHANGED ATrusted
<1>1. /\ Signed("access", e).type = "access" /\ Signed("access", e).user = e
      /\ Signed("refresh", e).type = "refresh" /\ Signed("refresh", e).user = e
  BY DEF Signed
<1>2. tokens' = tokens \cup {Signed("access", e), Signed("refresh", e)}
  BY DEF SignSession
<1>3. AMembers' = AMembers \cup {e}
  BY <1>1, <1>2 DEF AMembers, HoldersOf
<1>4. UNCHANGED ATrusted
  BY <1>1, <1>2 DEF ATrusted, HoldersOf
<1> QED
  BY <1>3, <1>4

LEMMA ResetSigned ==
    ASSUME TInv, NEW e \in Emails, tokens' = tokens \cup {Signed("reset", e)}
    PROVE  ATrusted' = ATrusted \cup {e} /\ UNCHANGED AMembers
<1>1. Signed("reset", e).type = "reset" /\ Signed("reset", e).user = e
  BY DEF Signed
<1>2. ATrusted' = ATrusted \cup {e}
  BY <1>1 DEF ATrusted, HoldersOf
<1>3. UNCHANGED AMembers
  BY <1>1 DEF AMembers, HoldersOf
<1> QED
  BY <1>2, <1>3

\* The access token made from a refresh token is one more of a member.
LEMMA AccessSigned ==
    ASSUME TInv, NEW t \in tokens, RefreshToken(t)
    PROVE  UNCHANGED <<ATrusted, AMembers>>
<1>1. Signed("access", t.user).type = "access" /\ Signed("access", t.user).user = t.user
  BY DEF Signed
<1>2. t.type = "refresh" /\ tokens' = tokens \cup {Signed("access", t.user)}
  BY DEF RefreshToken, Verifies
<1>3. UNCHANGED AMembers
  BY <1>1, <1>2 DEF AMembers, HoldersOf
<1>4. UNCHANGED ATrusted
  BY <1>1, <1>2 DEF ATrusted, HoldersOf
<1> QED
  BY <1>3, <1>4

-----------------------------------------------------------------------------
(* The contract: each step                                                 *)

\* What a save leaves in the account that the contract sees.
LEMMA SaveSeen ==
    ASSUME TInv, DocInv, NEW s \in Slots, reqs[s].pc \in {"save", "sign"},
           users' = [users EXCEPT ![reqs[s].email] = Written(@, reqs[s].doc, reqs[s].dirty)]
    PROVE  /\ "isConfirm" \notin reqs[s].dirty => UNCHANGED AStanding
           /\ "isConfirm" \in reqs[s].dirty /\ reqs[s].doc.isConfirm =>
                 AStanding' = [AStanding EXCEPT ![reqs[s].email] = "confirmed"]
           /\ "password" \notin reqs[s].dirty => UNCHANGED APassword
           /\ "password" \in reqs[s].dirty =>
                 APassword' = [APassword EXCEPT ![reqs[s].email] = reqs[s].doc.password.text]
           /\ "isDeleted" \notin reqs[s].dirty => UNCHANGED AFrozen
           /\ "isDeleted" \in reqs[s].dirty /\ reqs[s].doc.isDeleted =>
                 AFrozen' = AFrozen \cup {reqs[s].email}
<1> DEFINE e == reqs[s].email
           doc == reqs[s].doc
           dirty == reqs[s].dirty
           w == Written(users[e], doc, dirty)
<1>1. e \in Emails /\ doc \in UserDoc /\ users[e] \in UserDoc /\ dirty \in SUBSET Fields
  BY RequestTyped
<1>2. users[e].provider # "none"
  BY DEF DocInv, CopiesSound, CopySound
<1>3. \A f \in Emails : users'[f] = IF f = e THEN w ELSE users[f]
  BY <1>1 DEF TInv, TypeOK
<1>4. /\ w.provider = users[e].provider
      /\ w.password = IF "password" \in dirty THEN [doc.password EXCEPT !.layers = @ + 1]
                      ELSE users[e].password
      /\ w.phone = IF "phone" \in dirty THEN doc.phone + 1 ELSE users[e].phone
  BY <1>1, WrittenFields
<1>5. /\ "isDeleted" \in dirty => (w.isDeleted <=> doc.isDeleted)
      /\ "isDeleted" \notin dirty => (w.isDeleted <=> users[e].isDeleted)
      /\ "isConfirm" \in dirty => (w.isConfirm <=> doc.isConfirm)
      /\ "isConfirm" \notin dirty => (w.isConfirm <=> users[e].isConfirm)
  BY <1>1, WrittenFlags
<1>6. "password" \in dirty => w.password.text = doc.password.text
  <2>1. doc.password \in Secret
    BY <1>1 DEF UserDoc
  <2>2. [doc.password EXCEPT !.layers = @ + 1].text = doc.password.text
    BY <2>1 DEF Secret
  <2> QED
    BY <1>4, <2>2
<1> HIDE DEF w
<1>7. /\ "isConfirm" \notin dirty => UNCHANGED AStanding
      /\ "isConfirm" \in dirty /\ doc.isConfirm =>
            AStanding' = [AStanding EXCEPT ![e] = "confirmed"]
  <2>1. AStanding' = [f \in Emails |-> IF f = e THEN Standing(w) ELSE Standing(users[f])]
    BY <1>3 DEF AStanding
  <2>2. "isConfirm" \notin dirty => Standing(w) = Standing(users[e])
    BY <1>4, <1>5 DEF Standing
  <2>3. "isConfirm" \in dirty /\ doc.isConfirm => Standing(w) = "confirmed"
    BY <1>2, <1>4, <1>5 DEF Standing
  <2> HIDE DEF e
  <2> QED
    BY <2>1, <2>2, <2>3 DEF AStanding
<1>8. /\ "password" \notin dirty => UNCHANGED APassword
      /\ "password" \in dirty => APassword' = [APassword EXCEPT ![e] = doc.password.text]
  <2>1. APassword' = [f \in Emails |-> IF f = e THEN w.password.text
                                      ELSE users[f].password.text]
    BY <1>3 DEF APassword
  <2>2. "password" \notin dirty => w.password.text = users[e].password.text
    BY <1>4
  <2> HIDE DEF e
  <2> QED
    BY <1>6, <2>1, <2>2 DEF APassword
<1>9. /\ "isDeleted" \notin dirty => UNCHANGED AFrozen
      /\ "isDeleted" \in dirty /\ doc.isDeleted => AFrozen' = AFrozen \cup {e}
  BY <1>1, <1>3, <1>5 DEF AFrozen
<1> QED
  BY <1>7, <1>8, <1>9

\* Nothing but a request's grant changes.
LEMMA OnlyGrant ==
    ASSUME TInv, NEW s \in Slots, NEW r, reqs' = [reqs EXCEPT ![s] = r],
           UNCHANGED <<users, mails, tokens, spent>>
    PROVE  /\ AGranted' = [AGranted EXCEPT ![s] = Grant(r)]
           /\ UNCHANGED <<AStanding, APassword, AFrozen, AMailbox, spent, ATrusted, AMembers>>
  BY OneGrant, SameUsers, SameMails, SameTokens

\* A request that was nothing and becomes nothing leaves the grants.
LEMMA StillNothing ==
    ASSUME TInv, NEW s \in Slots, NEW r, reqs' = [reqs EXCEPT ![s] = r],
           Grant(reqs[s]) = Grant(r)
    PROVE  UNCHANGED AGranted
<1>1. AGranted' = [AGranted EXCEPT ![s] = AGranted[s]]
  BY OneGrant, GrantedTo
<1> QED
  BY <1>1 DEF AGranted

\* A grant the contract allows.
LEMMA Allows ==
    ASSUME TInv, NEW s \in Slots, NEW e \in Emails, NEW r,
           reqs' = [reqs EXCEPT ![s] = r], reqs[s].pc = "idle",
           UNCHANGED <<users, mails, tokens, spent>>, Grant(r) \in Contract!Allowed(e)
    PROVE  Contract!Next
<1>1. /\ AGranted' = [AGranted EXCEPT ![s] = Grant(r)]
      /\ UNCHANGED <<AStanding, APassword, AFrozen, AMailbox, spent, ATrusted, AMembers>>
  BY OnlyGrant
<1>2. AGranted[s] = Contract!Nothing
  BY GrantedTo, GrantOfKind
<1>3. \E grant \in Contract!Allowed(e) : AGranted' = [AGranted EXCEPT ![s] = grant]
  BY <1>1
<1>4. Contract!Allow(s, e)
  BY <1>1, <1>2, <1>3
  DEF Contract!Allow, AStanding, APassword, AFrozen, AMailbox, ATrusted, AMembers, AGranted
<1> QED
  BY <1>4 DEF Contract!Next

\* A code in an account's document came by its mail and has opened nothing.
LEMMA CodeGiven ==
    ASSUME TInv, CodeInv, NEW e \in Emails, users[e].code \in Codes
    PROVE  users[e].code \in AMailbox[e] \ spent
<1>1. users[e].code # NoCode
  BY AccountsAssumption
<1>2. PICK m \in mails : m.to = e /\ m.code = users[e].code
  BY <1>1 DEF CodeInv, StoredSound
<1>3. users[e].code \notin spent
  BY DEF CodeInv, StoredSound
<1> QED
  BY <1>2, <1>3 DEF AMailbox

LEMMA ConfrimAllowed ==
    ASSUME TInv, CodeInv, NEW s \in Slots, NEW e \in Emails, NEW c \in Codes, Confrim(s, e, c)
    PROVE  Contract!Next
<1>1. PICK r : /\ reqs' = [reqs EXCEPT ![s] = r] /\ reqs[s].pc = "idle"
               /\ Confirming(r) /\ r.email = e /\ r.presented = c
  BY ConfrimBegins
<1>2. AStanding[e] = "unconfirmed" /\ c \in AMailbox[e] \ spent
  BY CodeGiven DEF Confrim, AStanding, Standing, Stored
<1>3. [what |-> "confirm", to |-> e, with |-> c] \in Contract!Allowed(e)
  BY <1>2 DEF Contract!Allowed, AStanding, AMailbox
<1>4. Grant(r) \in Contract!Allowed(e)
  BY <1>1, <1>3, GrantOfKind
<1> QED
  BY <1>1, <1>4, Allows DEF Confrim

LEMMA ForgotAllowed ==
    ASSUME TInv, CodeInv, NEW s \in Slots, NEW e \in Emails, NEW c \in Codes,
           ConfirmForgetPassword(s, e, c)
    PROVE  Contract!Next
<1>1. PICK r : /\ reqs' = [reqs EXCEPT ![s] = r] /\ reqs[s].pc = "idle"
               /\ Opening(r) /\ r.email = e /\ r.presented = c
  BY ForgotBegins
<1>2. AStanding[e] = "confirmed" /\ c \in AMailbox[e] \ spent
  BY CodeGiven DEF ConfirmForgetPassword, AStanding, Standing, Stored
<1>3. [what |-> "trust", to |-> e, with |-> c] \in Contract!Allowed(e)
  BY <1>2 DEF Contract!Allowed, AStanding, AMailbox
<1>4. Grant(r) \in Contract!Allowed(e)
  BY <1>1, <1>3, GrantOfKind
<1> QED
  BY <1>1, <1>4, Allows DEF ConfirmForgetPassword

LEMMA ResetAllowed ==
    ASSUME TInv, NEW s \in Slots, NEW t \in tokens, NEW p \in Passwords, ResetPassword(s, t, p)
    PROVE  Contract!Next
<1>1. PICK r : /\ reqs' = [reqs EXCEPT ![s] = r] /\ reqs[s].pc = "idle"
               /\ Resetting(r) /\ r.email = t.user /\ r.doc.password.text = p
  BY ResetBegins
<1>2. t.user \in Emails /\ t.user \in ATrusted
  BY DEF ResetPassword, Verifies, ATrusted, HoldersOf, TInv, TypeOK, Token
<1>3. [what |-> "change", to |-> t.user, with |-> p] \in Contract!Allowed(t.user)
  BY <1>2 DEF Contract!Allowed, ATrusted
<1>4. Grant(r) \in Contract!Allowed(t.user)
  BY <1>1, <1>3, GrantOfKind
<1> QED
  BY <1>1, <1>2, <1>4, Allows DEF ResetPassword

LEMMA FreezeAllowed ==
    ASSUME TInv, NEW s \in Slots, NEW t \in tokens, FreezeAccount(s, t)
    PROVE  Contract!Next
<1>1. PICK r : /\ reqs' = [reqs EXCEPT ![s] = r] /\ reqs[s].pc = "idle"
               /\ Freezing(r) /\ r.email = t.user
  BY FreezeBegins
<1>2. t.user \in Emails /\ t.user \in AMembers
  BY DEF FreezeAccount, Admits, Verifies, AMembers, HoldersOf, TInv, TypeOK, Token
<1>3. t.user \notin AFrozen
  BY <1>2 DEF FreezeAccount, Admits, AFrozen
<1>4. [what |-> "freeze", to |-> t.user] \in Contract!Allowed(t.user)
  BY <1>2, <1>3 DEF Contract!Allowed, AMembers, AFrozen
<1>5. Grant(r) \in Contract!Allowed(t.user)
  BY <1>1, <1>4, GrantOfKind
<1> QED
  BY <1>1, <1>2, <1>5, Allows DEF FreezeAccount

\* A code that is generated is mailed to one address only.
LEMMA MailSent ==
    ASSUME TInv, NEW e \in Emails, NEW c \in Codes, NEW for, NEW s \in Slots, NEW r,
           Fresh(c), SendEmail(e, c, for), reqs' = [reqs EXCEPT ![s] = r],
           reqs[s].pc = "idle", Grant(r) = Contract!Nothing,
           UNCHANGED <<users, tokens, spent>>
    PROVE  Contract!Next
<1>1. \A f \in Emails : c \notin AMailbox[f]
  BY DEF AMailbox, Fresh
<1>2. AMailbox' = [AMailbox EXCEPT ![e] = @ \cup {c}]
  BY MailArrives
<1>3. UNCHANGED AGranted
  BY StillNothing, GrantOfKind
<1>4. UNCHANGED <<AStanding, APassword, AFrozen, ATrusted, AMembers>>
  BY SameUsers, SameTokens
<1>5. Contract!Mail(e, c)
  BY <1>1, <1>2, <1>3, <1>4
  DEF Contract!Mail, AStanding, APassword, AFrozen, AMailbox, ATrusted, AMembers, AGranted
<1> QED
  BY <1>5 DEF Contract!Next

LEMMA SignupMails ==
    ASSUME TInv, NEW s \in Slots, NEW e \in Emails, NEW p \in Passwords, NEW c \in Codes,
           SignupRead(s, e, p, c)
    PROVE  Contract!Next
<1> DEFINE r == [Idle EXCEPT !.pc = "signup", !.email = e, !.generated = c,
                    !.doc = [NoDoc EXCEPT !.provider = "system", !.password.text = p]]
<1>1. r.pc = "signup"
  BY DEF Idle
<1>2. reqs' = [reqs EXCEPT ![s] = r]
  BY DEF SignupRead
<1> HIDE DEF r
<1> QED
  BY <1>1, <1>2, GrantOfKind, MailSent DEF SignupRead

LEMMA AskMails ==
    ASSUME TInv, NEW s \in Slots, NEW e \in Emails, NEW c \in Codes,
           NEW for \in {"confirm", "reset"}, AskCode(s, e, c, for)
    PROVE  Contract!Next
<1>1. PICK r : reqs' = [reqs EXCEPT ![s] = r] /\ reqs[s].pc = "idle" /\ Asking(r)
  BY AskBegins
<1> QED
  BY <1>1, GrantOfKind, MailSent DEF AskCode

LEMMA SignupRegisters ==
    ASSUME TInv, DocInv, CodeInv, NEW s \in Slots, SignupCreate(s)
    PROVE  Contract!Next
<1> DEFINE e == reqs[s].email
<1>1. PICK r, doc : /\ reqs' = [reqs EXCEPT ![s] = r] /\ Asking(r)
                    /\ users' = [users EXCEPT ![e] = doc] /\ doc \in UserDoc
                    /\ doc.provider = "system" /\ ~doc.isConfirm /\ ~doc.isDeleted
                    /\ doc.password.text \in Passwords
  BY SignupCreates
<1>2. e \in Emails /\ reqs[s].pc = "signup" /\ users[e] = NoDoc
  BY RequestTyped DEF SignupCreate, DocInv, UnstoredBlank
<1> HIDE DEF e
<1>3. \A f \in Emails : users'[f] = IF f = e THEN doc ELSE users[f]
  BY <1>1, <1>2 DEF TInv, TypeOK
<1>4. AStanding[e] = "none" /\ AStanding' = [AStanding EXCEPT ![e] = "unconfirmed"]
  <2>1. Standing(doc) = "unconfirmed" /\ Standing(users[e]) = "none"
    BY <1>1, <1>2 DEF Standing, NoDoc
  <2>2. AStanding' = [f \in Emails |-> IF f = e THEN Standing(doc) ELSE Standing(users[f])]
    BY <1>3 DEF AStanding
  <2> QED
    BY <1>2, <2>1, <2>2 DEF AStanding
<1>5. APassword' = [APassword EXCEPT ![e] = doc.password.text]
  <2>1. APassword' = [f \in Emails |-> IF f = e THEN doc.password.text
                                      ELSE users[f].password.text]
    BY <1>3 DEF APassword
  <2> QED
    BY <2>1 DEF APassword
<1>6. UNCHANGED AFrozen
  BY <1>1, <1>2, <1>3 DEF AFrozen, NoDoc
<1>7. UNCHANGED <<AMailbox, ATrusted, AMembers, spent>>
  BY SameMails, SameTokens DEF SignupCreate
<1>8. UNCHANGED AGranted
  BY <1>1, <1>2, StillNothing, GrantOfKind
<1>9. Contract!Register(e, doc.password.text)
  BY <1>4, <1>5, <1>6, <1>7, <1>8
  DEF Contract!Register, AStanding, APassword, AFrozen, AMailbox, ATrusted, AMembers, AGranted
<1> QED
  BY <1>1, <1>2, <1>9 DEF Contract!Next

LEMMA GoogleRegisters ==
    ASSUME TInv, DocInv, NEW s \in Slots, GoogleCreate(s)
    PROVE  Contract!Next
<1> DEFINE e == reqs[s].email
           doc == [NoDoc EXCEPT !.provider = "google", !.isConfirm = TRUE]
<1>1. e \in Emails /\ reqs[s].pc = "google" /\ users[e] = NoDoc
  BY RequestTyped DEF GoogleCreate, DocInv, UnstoredBlank
<1>2. users' = [users EXCEPT ![e] = doc] /\ SignSession(e)
      /\ reqs' = [reqs EXCEPT ![s] = Idle]
  BY DEF GoogleCreate
<1>3. /\ Standing(doc) = "confirmed" /\ Standing(users[e]) = "none"
      /\ doc.password.text = users[e].password.text /\ doc.isDeleted = users[e].isDeleted
  BY <1>1 DEF Standing, NoDoc
<1> HIDE DEF e, doc
<1>4. \A f \in Emails : users'[f] = IF f = e THEN doc ELSE users[f]
  BY <1>1, <1>2 DEF TInv, TypeOK
<1>5. AStanding[e] = "none" /\ AStanding' = [AStanding EXCEPT ![e] = "confirmed"]
  <2>1. AStanding' = [f \in Emails |-> IF f = e THEN Standing(doc) ELSE Standing(users[f])]
    BY <1>4 DEF AStanding
  <2> QED
    BY <1>1, <1>3, <2>1 DEF AStanding
<1>6. UNCHANGED <<APassword, AFrozen>>
  BY <1>3, <1>4 DEF APassword, AFrozen
<1>7. AMembers' = AMembers \cup {e} /\ UNCHANGED <<AMailbox, ATrusted, spent>>
  BY <1>1, <1>2, SameMails, SessionSigned DEF GoogleCreate
<1>8. UNCHANGED AGranted
  BY <1>1, <1>2, StillNothing, GrantOfKind, IdleGrant
<1>9. Contract!RegisterVouched(e)
  BY <1>5, <1>6, <1>7, <1>8
  DEF Contract!RegisterVouched, AStanding, APassword, AFrozen, AMailbox, ATrusted, AMembers,
      AGranted
<1> QED
  BY <1>1, <1>9 DEF Contract!Next

LEMMA SessionOpens ==
    ASSUME TInv, KindInv, NEW e \in Emails,
           GoogleLogin(e) \/ \E p \in Passwords : Login(e, p)
    PROVE  Contract!Next
<1>1. SignSession(e) /\ UNCHANGED <<users, reqs, mails, spent>>
  BY DEF GoogleLogin, Login
<1>2. AStanding[e] = "confirmed"
  BY DEF GoogleLogin, Login, KindInv, GoogleConfirmed, AStanding, Standing, Stored
<1>3. AMembers' = AMembers \cup {e} /\ UNCHANGED ATrusted
  BY <1>1, SessionSigned
<1>4. UNCHANGED <<AStanding, APassword, AFrozen, AMailbox, AGranted>>
  BY <1>1, SameUsers, SameMails, SameRequests
<1>5. Contract!OpenSession(e)
  BY <1>1, <1>2, <1>3, <1>4
  DEF Contract!OpenSession, AStanding, APassword, AFrozen, AMailbox, ATrusted, AMembers,
      AGranted
<1> QED
  BY <1>5 DEF Contract!Next

\* A save does what its request was allowed, or nothing the contract sees.
LEMMA SaveDoes ==
    ASSUME TInv, DocInv, KindInv, NEW s \in Slots, Save(s)
    PROVE  Contract!Next \/ UNCHANGED Contract!vars
<1> DEFINE r == reqs[s]
           e == reqs[s].email
<1>1. /\ r.pc = "save" /\ r.pc \in {"save", "sign"}
      /\ users' = [users EXCEPT ![e] = Written(@, r.doc, r.dirty)]
      /\ spent' = spent \cup ({r.presented} \ {NoCode})
      /\ reqs' = [reqs EXCEPT ![s] = Idle]
      /\ UNCHANGED <<mails, tokens>>
  BY DEF Save
<1>2. /\ "isConfirm" \notin r.dirty => UNCHANGED AStanding
      /\ "isConfirm" \in r.dirty /\ r.doc.isConfirm =>
            AStanding' = [AStanding EXCEPT ![e] = "confirmed"]
      /\ "password" \notin r.dirty => UNCHANGED APassword
      /\ "password" \in r.dirty => APassword' = [APassword EXCEPT ![e] = r.doc.password.text]
      /\ "isDeleted" \notin r.dirty => UNCHANGED AFrozen
      /\ "isDeleted" \in r.dirty /\ r.doc.isDeleted => AFrozen' = AFrozen \cup {e}
  BY <1>1, SaveSeen
<1>3. UNCHANGED <<AMailbox, ATrusted, AMembers>>
  BY <1>1, SameMails, SameTokens
<1>4. AGranted' = [AGranted EXCEPT ![s] = Contract!Nothing] /\ AGranted[s] = Grant(r)
  BY <1>1, OneGrant, IdleGrant, GrantedTo
<1>5. Asking(r) \/ Confirming(r) \/ Resetting(r) \/ Freezing(r)
  BY <1>1 DEF KindInv, OneKind, Opening
<1> HIDE DEF r, e
<1>6. CASE Asking(r)
  <2>1. UNCHANGED <<AStanding, APassword, AFrozen, spent>>
    BY <1>1, <1>2, <1>6 DEF Asking
  <2>2. UNCHANGED AGranted
    BY <1>4, <1>6, GrantOfKind DEF AGranted
  <2> QED
    BY <1>3, <2>1, <2>2
    DEF Contract!vars, AStanding, APassword, AFrozen, AMailbox, ATrusted, AMembers, AGranted
<1>7. CASE Confirming(r)
  <2>1. AGranted[s] = [what |-> "confirm", to |-> e, with |-> r.presented]
    BY <1>4, <1>7, GrantOfKind DEF r, e
  <2>2. spent' = spent \cup {r.presented}
    BY <1>1, <1>7, AccountsAssumption DEF Confirming
  <2>3. AStanding' = [AStanding EXCEPT ![e] = "confirmed"] /\ UNCHANGED <<APassword, AFrozen>>
    BY <1>2, <1>7 DEF Confirming
  <2>4. /\ AGranted[s].what = "confirm"
        /\ AStanding' = [AStanding EXCEPT ![AGranted[s].to] = "confirmed"]
        /\ spent' = spent \cup {AGranted[s].with}
    BY <2>1, <2>2, <2>3
  <2>5. Contract!Confirm(s)
    BY <1>3, <1>4, <2>3, <2>4
    DEF Contract!Confirm, Contract!Done, AStanding, APassword, AFrozen, AMailbox, ATrusted,
        AMembers, AGranted
  <2> QED
    BY <2>5 DEF Contract!Next
<1>8. CASE Resetting(r)
  <2>1. AGranted[s] = [what |-> "change", to |-> e, with |-> r.doc.password.text]
    BY <1>4, <1>8, GrantOfKind DEF r, e
  <2>2. UNCHANGED <<AStanding, AFrozen, spent>>
    BY <1>1, <1>2, <1>8 DEF Resetting
  <2>3. /\ AGranted[s].what = "change"
        /\ APassword' = [APassword EXCEPT ![AGranted[s].to] = AGranted[s].with]
    BY <1>2, <1>8, <2>1 DEF Resetting
  <2>4. Contract!Change(s)
    BY <1>3, <1>4, <2>2, <2>3
    DEF Contract!Change, Contract!Done, AStanding, APassword, AFrozen, AMailbox, ATrusted,
        AMembers, AGranted
  <2> QED
    BY <2>4 DEF Contract!Next
<1>9. CASE Freezing(r)
  <2>1. AGranted[s] = [what |-> "freeze", to |-> e]
    BY <1>4, <1>9, GrantOfKind DEF r, e
  <2>2. UNCHANGED <<AStanding, APassword, spent>>
    BY <1>1, <1>2, <1>9 DEF Freezing
  <2>3. AGranted[s].what = "freeze" /\ AFrozen' = AFrozen \cup {AGranted[s].to}
    BY <1>2, <1>9, <2>1 DEF Freezing
  <2>4. Contract!Freeze(s)
    BY <1>3, <1>4, <2>2, <2>3
    DEF Contract!Freeze, Contract!Done, AStanding, APassword, AFrozen, AMailbox, ATrusted,
        AMembers, AGranted
  <2> QED
    BY <2>4 DEF Contract!Next
<1> QED
  BY <1>5, <1>6, <1>7, <1>8, <1>9

LEMMA SignTrusts ==
    ASSUME TInv, DocInv, KindInv, NEW s \in Slots, SaveAndSign(s)
    PROVE  Contract!Next
<1> DEFINE r == reqs[s]
           e == reqs[s].email
<1>1. /\ r.pc = "sign" /\ r.pc \in {"save", "sign"}
      /\ users' = [users EXCEPT ![e] = Written(@, r.doc, r.dirty)]
      /\ tokens' = tokens \cup {Signed("reset", e)}
      /\ spent' = spent \cup {r.presented}
      /\ reqs' = [reqs EXCEPT ![s] = Idle]
      /\ UNCHANGED mails
  BY DEF SaveAndSign
<1>2. /\ "isConfirm" \notin r.dirty => UNCHANGED AStanding
      /\ "password" \notin r.dirty => UNCHANGED APassword
      /\ "isDeleted" \notin r.dirty => UNCHANGED AFrozen
  BY <1>1, SaveSeen
<1>3. Opening(r)
  BY <1>1 DEF KindInv, OneKind, Asking, Confirming, Resetting, Freezing
<1>4. ATrusted' = ATrusted \cup {e} /\ UNCHANGED <<AMailbox, AMembers>>
  BY <1>1, RequestTyped, ResetSigned, SameMails
<1>5. /\ AGranted' = [AGranted EXCEPT ![s] = Contract!Nothing]
      /\ AGranted[s] = [what |-> "trust", to |-> e, with |-> r.presented]
  BY <1>1, <1>3, OneGrant, IdleGrant, GrantedTo, GrantOfKind
<1> HIDE DEF r, e
<1>6. UNCHANGED <<AStanding, APassword, AFrozen>>
  BY <1>2, <1>3 DEF Opening
<1>7. /\ AGranted[s].what = "trust" /\ ATrusted' = ATrusted \cup {AGranted[s].to}
      /\ spent' = spent \cup {AGranted[s].with}
  BY <1>1, <1>4, <1>5
<1>8. Contract!Trust(s)
  BY <1>4, <1>5, <1>6, <1>7
  DEF Contract!Trust, Contract!Done, AStanding, APassword, AFrozen, AMailbox, ATrusted,
      AMembers, AGranted
<1> QED
  BY <1>8 DEF Contract!Next

LEMMA FailAbandons ==
    ASSUME TInv, NEW s \in Slots, Fail(s)
    PROVE  Contract!Next
<1>1. /\ AGranted' = [AGranted EXCEPT ![s] = Contract!Nothing]
      /\ UNCHANGED <<AStanding, APassword, AFrozen, AMailbox, spent, ATrusted, AMembers>>
  BY OnlyGrant, IdleGrant DEF Fail
<1>2. Contract!Abandon(s)
  BY <1>1
  DEF Contract!Abandon, Contract!Done, AStanding, APassword, AFrozen, AMailbox, ATrusted,
      AMembers, AGranted
<1> QED
  BY <1>2 DEF Contract!Next

\* The clock, a refreshed session and a look-up for Google are not seen.
LEMMA Unseen ==
    ASSUME TInv, \/ UNCHANGED vars \/ Tick \/ \E t \in tokens : RefreshToken(t)
                 \/ \E s \in Slots, e \in Emails : GoogleRead(s, e)
    PROVE  UNCHANGED Contract!vars
<1>1. UNCHANGED <<users, mails, spent>>
  BY DEF vars, Tick, RefreshToken, GoogleRead
<1>2. UNCHANGED <<ATrusted, AMembers>>
  BY AccessSigned, SameTokens DEF vars, Tick, GoogleRead
<1>3. UNCHANGED AGranted
  <2>1. ASSUME NEW s \in Slots, NEW e \in Emails, GoogleRead(s, e) PROVE UNCHANGED AGranted
    <3> DEFINE r == [Idle EXCEPT !.pc = "google", !.email = e]
    <3>1. r.pc = "google"
      BY DEF Idle
    <3>2. reqs' = [reqs EXCEPT ![s] = r] /\ reqs[s].pc = "idle"
      BY <2>1 DEF GoogleRead
    <3> HIDE DEF r
    <3> QED
      BY <3>1, <3>2, GrantOfKind, StillNothing
  <2>2. ASSUME UNCHANGED reqs PROVE UNCHANGED AGranted
    BY <2>2, SameRequests
  <2> QED
    BY <2>1, <2>2 DEF vars, Tick, RefreshToken
<1> QED
  BY <1>1, <1>2, <1>3, SameUsers, SameMails
  DEF Contract!vars, AStanding, APassword, AFrozen, AMailbox, ATrusted, AMembers, AGranted

\* The handlers keep the contract of the accounts, whatever requests overlap and
\* with however old copies: an address is confirmed, and its password changed,
\* only through a code that came to its own mailbox and that nobody had used.
THEOREM Implementation == Spec => ImplementsContract
<1>1. Init => Contract!Init
  <2> SUFFICES ASSUME Init PROVE Contract!Init
    OBVIOUS
  <2>1. AGranted = [s \in Slots |-> Contract!Nothing]
    BY IdleGrant DEF Init, AGranted
  <2>2. AStanding = [e \in Emails |-> "none"] /\ APassword = [e \in Emails |-> NoPassword]
    BY DEF Init, AStanding, Standing, APassword, NoDoc
  <2>3. AFrozen = {} /\ AMailbox = [e \in Emails |-> {}] /\ ATrusted = {} /\ AMembers = {}
    BY DEF Init, AFrozen, NoDoc, AMailbox, ATrusted, AMembers, HoldersOf
  <2>4. spent = {}
    BY DEF Init
  <2> QED
    BY <2>1, <2>2, <2>3, <2>4
    DEF Contract!Init, AStanding, APassword, AFrozen, AMailbox, ATrusted, AMembers, AGranted
<1>2. TInv /\ DocInv /\ CodeInv /\ KindInv /\ [Next]_vars => [Contract!Next]_(Contract!vars)
  BY ConfrimAllowed, ForgotAllowed, ResetAllowed, FreezeAllowed, SignupMails, AskMails,
     SignupRegisters, GoogleRegisters, SessionOpens, SaveDoes, SignTrusts, FailAbandons, Unseen
  DEF Next, ReSendCode, ForgetPassword
<1> QED
  BY <1>1, <1>2, TypeInit, TypeStep, DocInit, DocStep, CodeInit, CodeStep, KindInit, KindStep,
     PTL DEF Spec, ImplementsContract, Contract!Spec
=============================================================================
