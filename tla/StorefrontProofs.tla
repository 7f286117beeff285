-------------------------- MODULE StorefrontProofs --------------------------
(***************************************************************************)
(* Proofs about Storefront and Catalogue, for all games, packages, bodies  *)
(* and page sizes, and every number of administrators and readers.         *)
(***************************************************************************)
EXTENDS Storefront, TLAPS

-----------------------------------------------------------------------------
(* Offers                                                                  *)

\* The percentage of an offer that passes the check is a number.
LEMMA DiscountType ==
    ASSUME NEW original \in Nat, NEW final \in Nat, OfferPrices(original, final)
    PROVE  Discount(original, final) \in Nat
<1> DEFINE n == 20000 * (original - final) + original
           d == 2 * original
<1>1. n \in Nat /\ d \in Nat \ {0}
  BY DEF OfferPrices
<1> HIDE DEF n, d
<1>2. n \div d \in Nat
  BY <1>1
<1> QED
  BY <1>2 DEF Discount, n, d

\* The fields of a body that are given have their types.
LEMMA GameBodyType ==
    ASSUME NEW b \in GameBodies
    PROVE  /\ Has(b, "name") => b.name \in Names
           /\ Given(b, "type", "games") \in Types
           /\ Given(b, "isOffer", FALSE) \in BOOLEAN
           /\ Given(b, "price", 0) \in Nat
           /\ Given(b, "original", 0) \in Nat
           /\ Given(b, "final", 0) \in Nat
BY CatalogueAssumption DEF Given, Types

GameSound(doc) == doc.type = "steam" => doc.price > 0 /\ OfferSound(doc)

PackageSound(doc) == doc.price > 0 /\ OfferSound(doc)

\* The save hook of games: a sound game, everything else as it was.
LEMMA HookedGameSound ==
    ASSUME NEW doc \in GameDoc,
           doc.type = "steam" => /\ doc.price > 0
                                 /\ doc.isOffer => OfferPrices(doc.original, doc.final)
    PROVE  /\ HookedGame(doc) \in GameDoc
           /\ GameSound(HookedGame(doc))
           /\ HookedGame(doc).isDeleted <=> doc.isDeleted
<1>1. CASE ~doc.isOffer
  <2>1. HookedGame(doc) = doc
    BY <1>1 DEF HookedGame
  <2> QED
    BY <1>1, <2>1 DEF GameSound, OfferSound
<1>2. CASE doc.isOffer /\ doc.type = "steam"
  <2> DEFINE discount == Discount(doc.original, doc.final)
  <2>1. OfferPrices(doc.original, doc.final) /\ doc.original \in Nat /\ doc.final \in Nat
    BY <1>2 DEF GameDoc
  <2>2. discount \in Nat
    BY <2>1, DiscountType
  <2>3. HookedGame(doc) = [doc EXCEPT !.discount = discount]
    BY <1>2 DEF HookedGame
  <2> HIDE DEF discount
  <2>4. PICK new \in GameDoc : new = HookedGame(doc)
    BY <2>2, <2>3 DEF GameDoc
  <2>5. /\ new.price = doc.price /\ new.original = doc.original /\ new.final = doc.final
        /\ new.discount = discount /\ new.isDeleted = doc.isDeleted
    BY <2>3, <2>4 DEF GameDoc
  <2>6. OfferSound(new)
    BY <2>1, <2>5 DEF OfferSound, OfferPrices, discount
  <2> QED
    BY <1>2, <2>4, <2>5, <2>6 DEF GameSound
<1>3. CASE doc.isOffer /\ doc.type # "steam"
  <2>1. HookedGame(doc) =
            [doc EXCEPT !.isOffer = FALSE, !.original = 0, !.final = 0, !.discount = 0]
    BY <1>3 DEF HookedGame
  <2>2. PICK new \in GameDoc : new = HookedGame(doc)
    BY <2>1 DEF GameDoc
  <2>3. new.type = doc.type /\ new.isDeleted = doc.isDeleted
    BY <2>1, <2>2 DEF GameDoc
  <2> QED
    BY <1>3, <2>2, <2>3 DEF GameSound
<1> QED
  BY <1>1, <1>2, <1>3

\* The save hook of packages: a copy it accepts becomes sound.
LEMMA HookedPackageSound ==
    ASSUME NEW doc \in PackageDoc, PackageValid(doc)
    PROVE  /\ HookedPackage(doc) \in PackageDoc
           /\ PackageSound(HookedPackage(doc))
           /\ HookedPackage(doc).isDeleted <=> doc.isDeleted
           /\ HookedPackage(doc).stored <=> doc.stored
<1>1. CASE doc.isOffer
  <2> DEFINE discount == Discount(doc.original, doc.final)
  <2>1. OfferPrices(doc.original, doc.final) /\ doc.original \in Nat /\ doc.final \in Nat
    BY <1>1 DEF PackageDoc, PackageValid
  <2>2. discount \in Nat
    BY <2>1, DiscountType
  <2>3. HookedPackage(doc) = [doc EXCEPT !.discount = discount]
    BY <1>1 DEF HookedPackage
  <2> HIDE DEF discount
  <2>4. PICK new \in PackageDoc : new = HookedPackage(doc)
    BY <2>2, <2>3 DEF PackageDoc
  <2>5. /\ new.price = doc.price /\ new.original = doc.original /\ new.final = doc.final
        /\ new.discount = discount /\ new.isDeleted = doc.isDeleted
        /\ new.stored = doc.stored
    BY <2>3, <2>4 DEF PackageDoc
  <2>6. OfferSound(new) /\ new.price > 0
    BY <2>1, <2>5 DEF OfferSound, OfferPrices, PackageValid, discount
  <2> QED
    BY <2>4, <2>5, <2>6 DEF PackageSound
<1>2. CASE ~doc.isOffer
  <2>1. HookedPackage(doc) = [doc EXCEPT !.original = 0, !.final = 0, !.discount = 0]
    BY <1>2 DEF HookedPackage
  <2>2. PICK new \in PackageDoc : new = HookedPackage(doc)
    BY <2>1 DEF PackageDoc
  <2>3. /\ new.isOffer = doc.isOffer /\ new.price = doc.price
        /\ new.isDeleted = doc.isDeleted /\ new.stored = doc.stored
    BY <2>1, <2>2 DEF PackageDoc
  <2> QED
    BY <1>2, <2>2, <2>3 DEF PackageSound, OfferSound, PackageValid
<1> QED
  BY <1>1, <1>2

\* What addGame makes of an accepted body.
LEMMA NewGameSound ==
    ASSUME NEW b \in GameBodies, Has(b, "name"), Has(b, "type"), BodyAccepted(b)
    PROVE  LET new == HookedGame([NoGameDoc EXCEPT
                   !.stored = TRUE, !.isActive = TRUE, !.name = b.name, !.type = b.type,
                   !.price = Given(b, "price", 0), !.isOffer = Given(b, "isOffer", FALSE),
                   !.original = Given(b, "original", 0), !.final = Given(b, "final", 0)])
           IN  new \in GameDoc /\ GameSound(new) /\ ~new.isDeleted
<1> DEFINE price == Given(b, "price", 0)
           isOffer == Given(b, "isOffer", FALSE)
           original == Given(b, "original", 0)
           final == Given(b, "final", 0)
           doc == [NoGameDoc EXCEPT
                   !.stored = TRUE, !.isActive = TRUE, !.name = b.name, !.type = b.type,
                   !.price = price, !.isOffer = isOffer,
                   !.original = original, !.final = final]
<1>1. /\ b.name \in Names /\ b.type \in Types /\ price \in Nat /\ isOffer \in BOOLEAN
      /\ original \in Nat /\ final \in Nat
  BY GameBodyType, CatalogueAssumption
<1>2. b.type = "steam" => price > 0 /\ (isOffer => OfferPrices(original, final))
  BY DEF BodyAccepted, Given
<1> HIDE DEF price, isOffer, original, final
<1>3. /\ doc \in GameDoc /\ doc.type = b.type /\ doc.price = price
      /\ doc.isOffer = isOffer /\ doc.original = original /\ doc.final = final
      /\ doc.isDeleted = FALSE
  BY <1>1 DEF NoGameDoc, GameDoc
<1>4. doc.type = "steam" => /\ doc.price > 0
                            /\ doc.isOffer => OfferPrices(doc.original, doc.final)
  BY <1>2, <1>3
<1> HIDE DEF doc
<1>5. /\ HookedGame(doc) \in GameDoc /\ GameSound(HookedGame(doc))
      /\ ~HookedGame(doc).isDeleted
  BY <1>3, <1>4, HookedGameSound
<1> QED
  BY <1>5 DEF doc, price, isOffer, original, final

\* An update that is accepted keeps the types of the fields and leaves the marks
\* alone; when it gives the type and isOffer, the check has seen all of the offer.
LEMMA UpdatedGameSound ==
    ASSUME NEW doc \in GameDoc, NEW b \in GameBodies, BodyAccepted(b)
    PROVE  LET new == UpdatedGame(doc, b)
           IN  /\ new \in GameDoc
               /\ new.stored <=> doc.stored
               /\ new.isActive <=> doc.isActive
               /\ new.isDeleted <=> doc.isDeleted
               /\ Has(b, "type") /\ Has(b, "isOffer") => GameSound(new)
<1> DEFINE name == Given(b, "name", doc.name)
           type == Given(b, "type", doc.type)
           price == Given(b, "price", doc.price)
           steamOffer == Given(b, "type", "games") = "steam" /\ Given(b, "isOffer", FALSE)
           otherOffer == Given(b, "type", "games") # "steam" /\ Given(b, "isOffer", FALSE)
           isOffer == IF otherOffer THEN FALSE ELSE Given(b, "isOffer", doc.isOffer)
           original == IF otherOffer THEN doc.original ELSE Given(b, "original", doc.original)
           final == IF otherOffer THEN doc.final ELSE Given(b, "final", doc.final)
           discount == IF steamOffer THEN Discount(b.original, b.final) ELSE doc.discount
           new == [doc EXCEPT !.name = name, !.type = type, !.price = price,
                              !.isOffer = isOffer, !.original = original,
                              !.final = final, !.discount = discount]
<1>1. /\ doc.name \in Names \cup {NoName} /\ doc.type \in Types /\ doc.price \in Nat
      /\ doc.isOffer \in BOOLEAN /\ doc.original \in Nat /\ doc.final \in Nat
      /\ doc.discount \in Nat
  BY DEF GameDoc
<1>2. /\ name \in Names \cup {NoName} /\ type \in Types /\ price \in Nat
      /\ isOffer \in BOOLEAN /\ original \in Nat /\ final \in Nat
  BY <1>1, GameBodyType, CatalogueAssumption DEF Given
<1>3. ASSUME steamOffer
      PROVE  /\ Has(b, "original") /\ Has(b, "final") /\ Has(b, "price") /\ b.price > 0
             /\ OfferPrices(b.original, b.final)
             /\ b.original \in Nat /\ b.final \in Nat
  <2>1. Given(b, "price", 0) > 0 /\ OfferPrices(Given(b, "original", 0), Given(b, "final", 0))
    BY <1>3 DEF BodyAccepted
  <2>2. Has(b, "price") /\ b.price > 0
    BY <2>1 DEF Given
  <2>3. Has(b, "final")
    BY <2>1 DEF Given, OfferPrices
  <2>4. Has(b, "original")
    <3>1. Given(b, "final", 0) \in Nat
      BY GameBodyType
    <3>2. Given(b, "original", 0) # 0
      BY <2>1, <3>1 DEF OfferPrices
    <3> QED
      BY <3>2 DEF Given
  <2>5. b.original \in Nat /\ b.final \in Nat
    BY <2>3, <2>4, CatalogueAssumption
  <2>6. Given(b, "original", 0) = b.original /\ Given(b, "final", 0) = b.final
    BY <2>3, <2>4 DEF Given
  <2> QED
    BY <2>1, <2>2, <2>3, <2>4, <2>5, <2>6
<1>4. discount \in Nat
  BY <1>1, <1>3, DiscountType
<1>5. ASSUME Has(b, "type"), Has(b, "isOffer"), type = "steam"
      PROVE  price > 0 /\ (isOffer => /\ 0 < final /\ final < original
                                      /\ discount = Discount(original, final))
  <2>1. Given(b, "type", "games") = "steam" /\ ~otherOffer
    BY <1>5 DEF Given
  <2>2. price > 0
    BY <2>1 DEF BodyAccepted, Given
  <2>3. isOffer => steamOffer
    BY <1>5, <2>1 DEF Given
  <2>4. steamOffer => original = b.original /\ final = b.final
    BY <1>3, <2>1 DEF Given
  <2>5. steamOffer => discount = Discount(b.original, b.final)
    OBVIOUS
  <2> QED
    BY <1>3, <2>2, <2>3, <2>4, <2>5 DEF OfferPrices
<1>6. UpdatedGame(doc, b) = new
  BY DEF UpdatedGame
<1> HIDE DEF name, type, price, isOffer, original, final, discount
<1>7. /\ new \in GameDoc
      /\ new.stored = doc.stored /\ new.isActive = doc.isActive
      /\ new.isDeleted = doc.isDeleted
      /\ new.type = type /\ new.price = price /\ new.isOffer = isOffer
      /\ new.original = original /\ new.final = final /\ new.discount = discount
  BY <1>2, <1>4 DEF GameDoc
<1> HIDE DEF new
<1>8. Has(b, "type") /\ Has(b, "isOffer") => GameSound(new)
  BY <1>5, <1>7 DEF GameSound, OfferSound
<1> QED
  BY <1>6, <1>7, <1>8

\* Bodies of packages: the copy with the body's fields is a package.
LEMMA AssignedPackageType ==
    ASSUME NEW doc \in PackageDoc, NEW b \in PackageBodies
    PROVE  /\ AssignedPackage(doc, b) \in PackageDoc
           /\ AssignedPackage(doc, b).isDeleted <=> doc.isDeleted
           /\ AssignedPackage(doc, b).stored <=> doc.stored
<1> DEFINE g == Given(b, "game", doc.game)
           isActive == Given(b, "isActive", doc.isActive)
           price == Given(b, "price", doc.price)
           isOffer == Given(b, "isOffer", doc.isOffer)
           original == Given(b, "original", doc.original)
           final == Given(b, "final", doc.final)
           new == [doc EXCEPT !.game = g, !.isActive = isActive, !.price = price,
                              !.isOffer = isOffer, !.original = original, !.final = final]
<1>1. /\ g \in Games \cup {NoGame} /\ isActive \in BOOLEAN /\ price \in Nat
      /\ isOffer \in BOOLEAN /\ original \in Nat /\ final \in Nat
  BY CatalogueAssumption DEF Given, PackageDoc
<1>2. AssignedPackage(doc, b) = new
  BY DEF AssignedPackage
<1> HIDE DEF g, isActive, price, isOffer, original, final
<1>3. new \in PackageDoc /\ new.isDeleted = doc.isDeleted /\ new.stored = doc.stored
  BY <1>1 DEF PackageDoc
<1> QED
  BY <1>2, <1>3

\* A save of a sound copy: deletions of others are kept, and the offer is the
\* copy's when the stored one is the one that was loaded.
LEMMA MergedPackageSound ==
    ASSUME NEW old \in PackageDoc, NEW loaded \in PackageDoc, NEW doc \in PackageDoc,
           doc.isDeleted <=> loaded.isDeleted
    PROVE  LET new == MergedPackage(old, loaded, doc)
           IN  /\ new \in PackageDoc
               /\ new.stored <=> old.stored
               /\ new.isDeleted <=> old.isDeleted
               /\ PackageSound(doc) /\ Offer(old) = Offer(loaded) => PackageSound(new)
<1> DEFINE Pick(was, is, now) == IF is # was THEN is ELSE now
           g == Pick(loaded.game, doc.game, old.game)
           price == Pick(loaded.price, doc.price, old.price)
           isOffer == Pick(loaded.isOffer, doc.isOffer, old.isOffer)
           original == Pick(loaded.original, doc.original, old.original)
           final == Pick(loaded.final, doc.final, old.final)
           discount == Pick(loaded.discount, doc.discount, old.discount)
           isActive == Pick(loaded.isActive, doc.isActive, old.isActive)
           isDeleted == Pick(loaded.isDeleted, doc.isDeleted, old.isDeleted)
           new == [old EXCEPT !.game = g, !.price = price, !.isOffer = isOffer,
                              !.original = original, !.final = final,
                              !.discount = discount, !.isActive = isActive,
                              !.isDeleted = isDeleted]
<1>1. /\ g \in Games \cup {NoGame} /\ price \in Nat /\ original \in Nat /\ final \in Nat
      /\ discount \in Nat
  BY DEF PackageDoc
<1>2. isOffer \in BOOLEAN /\ isActive \in BOOLEAN /\ isDeleted \in BOOLEAN
  BY DEF PackageDoc
<1>3. isDeleted = old.isDeleted
  BY DEF PackageDoc
<1>4. ASSUME Offer(old) = Offer(loaded)
      PROVE  /\ price = doc.price /\ isOffer = doc.isOffer /\ original = doc.original
             /\ final = doc.final /\ discount = doc.discount
  BY <1>4 DEF Offer
<1>5. MergedPackage(old, loaded, doc) = new
  BY DEF MergedPackage
<1> HIDE DEF g, price, isOffer, original, final, discount, isActive, isDeleted
<1>6. /\ new \in PackageDoc
      /\ new.stored = old.stored /\ new.isDeleted = isDeleted /\ new.price = price
      /\ new.isOffer = isOffer /\ new.original = original /\ new.final = final
      /\ new.discount = discount
  BY ZenonT(60), <1>1, <1>2 DEF PackageDoc
<1> HIDE DEF new
<1>7. PackageSound(doc) /\ Offer(old) = Offer(loaded) => PackageSound(new)
  BY <1>4, <1>6 DEF PackageSound, OfferSound
<1> QED
  BY <1>3, <1>5, <1>6, <1>7

-----------------------------------------------------------------------------
(* Handlers                                                                *)

\* What a handler holds between its reading and its writing.
EditSound(x) ==
    /\ x.pc \in {"add", "toggle"} => x.game \in Games
    /\ x.pc = "add" => GameSound(x.new) /\ ~x.new.isDeleted
    /\ x.pc = "save" => /\ x.package \in Packages
                        /\ PackageSound(x.doc)
                        /\ x.doc.isDeleted <=> x.loaded.isDeleted

EditsSound == \A e \in Editors : EditSound(edits[e])

GamesSound == \A g \in Games \ patched : games[g].stored => GameSound(games[g])

ActiveSound ==
    \A g \in Games \ revived : games[g].stored /\ games[g].isActive => ~games[g].isDeleted

PackagesSound ==
    /\ \A p \in Packages \ raced : packages[p].stored => PackageSound(packages[p])
    /\ \A p \in Packages : packages[p].isDeleted => packages[p].stored

CatalogueInv == CatalogueTypeOK /\ EditsSound /\ GamesSound /\ ActiveSound /\ PackagesSound

LEMMA IdleEditSound == IdleEdit \in Edit /\ EditSound(IdleEdit)
<1>1. NoGameDoc \in GameDoc /\ NoPackageDoc \in PackageDoc
  BY DEF NoGameDoc, GameDoc, NoPackageDoc, PackageDoc, Types
<1>2. IdleEdit \in Edit /\ IdleEdit.pc = "idle"
  BY <1>1 DEF IdleEdit, Edit
<1> QED
  BY <1>2 DEF EditSound

LEMMA CatalogueStart == CatalogueInit => CatalogueInv
<1> SUFFICES ASSUME CatalogueInit PROVE CatalogueInv
  OBVIOUS
<1>1. NoGameDoc \in GameDoc /\ NoPackageDoc \in PackageDoc
  BY DEF NoGameDoc, GameDoc, NoPackageDoc, PackageDoc, Types
<1>2. CatalogueTypeOK
  BY <1>1, IdleEditSound DEF CatalogueInit, CatalogueTypeOK
<1>3. EditsSound
  BY IdleEditSound DEF CatalogueInit, EditsSound
<1>4. \A g \in Games : ~games[g].stored
  BY DEF CatalogueInit, NoGameDoc
<1>5. \A p \in Packages : ~packages[p].stored /\ ~packages[p].isDeleted
  BY DEF CatalogueInit, NoPackageDoc
<1> QED
  BY <1>2, <1>3, <1>4, <1>5 DEF CatalogueInv, GamesSound, ActiveSound, PackagesSound

\* A step in which one handler goes on and no document changes.
LEMMA OneEdit ==
    ASSUME CatalogueInv, NEW e \in Editors, NEW x \in Edit, EditSound(x),
           edits' = [edits EXCEPT ![e] = x], started' \in Nat,
           UNCHANGED <<games, packages, patched, revived, raced>>
    PROVE  CatalogueInv'
<1>1. edits \in [Editors -> Edit]
  BY DEF CatalogueInv, CatalogueTypeOK
<1>2. \A f \in Editors : edits'[f] = IF f = e THEN x ELSE edits[f]
  BY <1>1
<1>3. CatalogueTypeOK'
  BY <1>1 DEF CatalogueInv, CatalogueTypeOK
<1>4. EditsSound'
  BY <1>2 DEF CatalogueInv, EditsSound, EditSound, GameSound, PackageSound, OfferSound
<1> QED
  BY <1>3, <1>4 DEF CatalogueInv, GamesSound, ActiveSound, PackagesSound

\* The handlers of the next state: as they were, or one of them idle.
LEMMA EditsKept ==
    ASSUME CatalogueInv,
           \/ UNCHANGED edits
           \/ \E e \in Editors : edits' = [edits EXCEPT ![e] = IdleEdit]
    PROVE  edits' \in [Editors -> Edit] /\ \A f \in Editors : EditSound(edits'[f])
<1>1. edits \in [Editors -> Edit] /\ \A f \in Editors : EditSound(edits[f])
  BY DEF CatalogueInv, CatalogueTypeOK, EditsSound
<1>2. CASE UNCHANGED edits
  BY <1>1, <1>2
<1>3. ASSUME NEW e \in Editors, edits' = [edits EXCEPT ![e] = IdleEdit]
      PROVE  edits' \in [Editors -> Edit] /\ \A f \in Editors : EditSound(edits'[f])
  <2>1. edits' \in [Editors -> Edit]
    BY <1>1, <1>3, IdleEditSound
  <2>2. \A f \in Editors : edits'[f] = IF f = e THEN IdleEdit ELSE edits[f]
    BY <1>1, <1>3
  <2> QED
    BY <1>1, <2>1, <2>2, IdleEditSound
<1> QED
  BY <1>2, <1>3

\* A step that changes one game.
LEMMA OneGame ==
    ASSUME CatalogueInv, NEW g \in Games, NEW doc \in GameDoc,
           games' = [games EXCEPT ![g] = doc], started' \in Nat,
           UNCHANGED <<packages, raced>>,
           patched' \in {patched, patched \cup {g}}, revived' \in {revived, revived \cup {g}},
           doc.stored /\ g \notin patched' => GameSound(doc),
           doc.stored /\ doc.isActive /\ g \notin revived' => ~doc.isDeleted,
           \/ UNCHANGED edits
           \/ \E e \in Editors : edits' = [edits EXCEPT ![e] = IdleEdit]
    PROVE  CatalogueInv'
<1>1. edits' \in [Editors -> Edit] /\ \A f \in Editors : EditSound(edits'[f])
  BY EditsKept
<1>2. games \in [Games -> GameDoc] /\ patched \subseteq Games /\ revived \subseteq Games
  BY DEF CatalogueInv, CatalogueTypeOK
<1>3. CatalogueTypeOK'
  BY <1>1, <1>2 DEF CatalogueInv, CatalogueTypeOK
<1>4. EditsSound'
  BY <1>1 DEF EditsSound, EditSound, GameSound, PackageSound, OfferSound
<1>5. \A h \in Games : games'[h] = IF h = g THEN doc ELSE games[h]
  BY <1>2
<1>6. GamesSound'
  BY <1>5 DEF CatalogueInv, GamesSound, GameSound, OfferSound
<1>7. ActiveSound'
  BY <1>5 DEF CatalogueInv, ActiveSound
<1>8. PackagesSound'
  BY DEF CatalogueInv, PackagesSound, PackageSound, OfferSound
<1> QED
  BY <1>3, <1>4, <1>6, <1>7, <1>8 DEF CatalogueInv

\* A step that changes one package.
LEMMA OnePackage ==
    ASSUME CatalogueInv, NEW p \in Packages, NEW doc \in PackageDoc,
           packages' = [packages EXCEPT ![p] = doc], started' \in Nat,
           UNCHANGED <<games, patched, revived>>,
           raced' \in {raced, raced \cup {p}},
           doc.stored /\ p \notin raced' => PackageSound(doc),
           doc.isDeleted => doc.stored,
           \/ UNCHANGED edits
           \/ \E e \in Editors : edits' = [edits EXCEPT ![e] = IdleEdit]
    PROVE  CatalogueInv'
<1>1. edits' \in [Editors -> Edit] /\ \A f \in Editors : EditSound(edits'[f])
  BY EditsKept
<1>2. packages \in [Packages -> PackageDoc] /\ raced \subseteq Packages
  BY DEF CatalogueInv, CatalogueTypeOK
<1>3. CatalogueTypeOK'
  BY <1>1, <1>2 DEF CatalogueInv, CatalogueTypeOK
<1>4. EditsSound'
  BY <1>1 DEF EditsSound, EditSound, GameSound, PackageSound, OfferSound
<1>5. \A q \in Packages : packages'[q] = IF q = p THEN doc ELSE packages[q]
  BY <1>2
<1>6. PackagesSound'
  BY <1>5 DEF CatalogueInv, PackagesSound, PackageSound, OfferSound
<1>7. GamesSound' /\ ActiveSound'
  BY DEF CatalogueInv, GamesSound, ActiveSound, GameSound, OfferSound
<1> QED
  BY <1>3, <1>4, <1>6, <1>7 DEF CatalogueInv

LEMMA AddGameSound ==
    ASSUME CatalogueInv, NEW e \in Editors, NEW g \in Games, NEW b \in GameBodies, AddGame(e, g, b)
    PROVE  CatalogueInv'
<1> DEFINE new == HookedGame([NoGameDoc EXCEPT
                   !.stored = TRUE, !.isActive = TRUE, !.name = b.name, !.type = b.type,
                   !.price = Given(b, "price", 0), !.isOffer = Given(b, "isOffer", FALSE),
                   !.original = Given(b, "original", 0), !.final = Given(b, "final", 0)])
           x == [IdleEdit EXCEPT !.pc = "add", !.game = g, !.new = new]
<1>1. new \in GameDoc /\ GameSound(new) /\ ~new.isDeleted
  BY NewGameSound DEF AddGame
<1>2. /\ edits' = [edits EXCEPT ![e] = x] /\ started' = started + 1
      /\ UNCHANGED <<games, packages, patched, revived, raced>>
  BY DEF AddGame, Start
<1> HIDE DEF new
<1>3. x \in Edit /\ x.pc = "add" /\ x.game = g /\ x.new = new
  BY <1>1, IdleEditSound DEF Edit
<1> HIDE DEF x
<1>4. EditSound(x)
  BY <1>1, <1>3 DEF EditSound
<1>5. started' \in Nat
  BY <1>2 DEF CatalogueInv, CatalogueTypeOK
<1> QED
  BY <1>2, <1>3, <1>4, <1>5, OneEdit

LEMMA CreateGameSound ==
    ASSUME CatalogueInv, NEW e \in Editors, CreateGame(e) PROVE CatalogueInv'
<1> DEFINE x == edits[e]
<1>1. /\ x \in Edit /\ EditSound(x) /\ x.pc = "add" /\ started \in Nat
      /\ games' = [games EXCEPT ![x.game] = x.new]
      /\ edits' = [edits EXCEPT ![e] = IdleEdit]
      /\ UNCHANGED <<packages, started, patched, revived, raced>>
  BY DEF CreateGame, CatalogueInv, CatalogueTypeOK, EditsSound
<1> HIDE DEF x
<1>2. x.game \in Games /\ x.new \in GameDoc /\ GameSound(x.new) /\ ~x.new.isDeleted
  BY <1>1 DEF EditSound, Edit
<1> QED
  BY <1>1, <1>2, OneGame

LEMMA UpdateGameSound ==
    ASSUME CatalogueInv, NEW g \in Games, NEW b \in GameBodies, UpdateGame(g, b)
    PROVE  CatalogueInv'
<1> DEFINE old == games[g]
           new == UpdatedGame(old, b)
<1>1. /\ old \in GameDoc /\ started' \in Nat
      /\ old.stored /\ old.isActive /\ g \notin revived => ~old.isDeleted
      /\ patched \subseteq Games
  BY DEF CatalogueInv, CatalogueTypeOK, ActiveSound, UpdateGame, AtOnce
<1>2. /\ games' = [games EXCEPT ![g] = new] /\ BodyAccepted(b)
      /\ patched' = IF Has(b, "type") /\ Has(b, "isOffer") THEN patched ELSE patched \cup {g}
      /\ UNCHANGED <<edits, packages, revived, raced>>
  BY DEF UpdateGame, AtOnce
<1> HIDE DEF old
<1>3. /\ new \in GameDoc
      /\ new.stored <=> old.stored
      /\ new.isActive <=> old.isActive
      /\ new.isDeleted <=> old.isDeleted
      /\ Has(b, "type") /\ Has(b, "isOffer") => GameSound(new)
  BY <1>1, <1>2, UpdatedGameSound
<1> HIDE DEF new
<1>4. patched' \in {patched, patched \cup {g}} /\ (g \notin patched' => GameSound(new))
  BY <1>2, <1>3
<1>5. new.stored /\ new.isActive /\ g \notin revived' => ~new.isDeleted
  BY <1>1, <1>2, <1>3
<1> QED
  BY <1>1, <1>2, <1>3, <1>4, <1>5, OneGame

\* The marks of a game: a change of one leaves what its offer is made of.
LEMMA MarkedGame ==
    ASSUME NEW doc \in GameDoc, NEW new \in GameDoc,
           new.type = doc.type, new.price = doc.price, new.isOffer = doc.isOffer,
           new.original = doc.original, new.final = doc.final, new.discount = doc.discount,
           GameSound(doc)
    PROVE  GameSound(new)
BY DEF GameSound, OfferSound

LEMMA DeletedGameSound ==
    ASSUME CatalogueInv, NEW g \in Games, DeletedGame(g) PROVE CatalogueInv'
<1> DEFINE old == games[g]
           new == [old EXCEPT !.isDeleted = TRUE, !.isActive = FALSE]
<1>1. /\ old \in GameDoc /\ started' \in Nat
      /\ old.stored /\ g \notin patched => GameSound(old)
      /\ games \in [Games -> GameDoc]
  BY DEF CatalogueInv, CatalogueTypeOK, GamesSound, DeletedGame, AtOnce
<1>2. games' = [games EXCEPT ![g] = new] /\ UNCHANGED <<edits, packages, patched, revived, raced>>
  BY <1>1 DEF DeletedGame, AtOnce
<1> HIDE DEF old
<1>3. /\ new \in GameDoc /\ new.stored = old.stored /\ new.isActive = FALSE
      /\ new.type = old.type /\ new.price = old.price /\ new.isOffer = old.isOffer
      /\ new.original = old.original /\ new.final = old.final /\ new.discount = old.discount
  BY <1>1 DEF GameDoc
<1> HIDE DEF new
<1>4. new.stored /\ g \notin patched' => GameSound(new)
  BY <1>1, <1>2, <1>3, MarkedGame
<1> QED
  BY <1>1, <1>2, <1>3, <1>4, OneGame

LEMMA ToggleGameStatusSound ==
    ASSUME CatalogueInv, NEW g \in Games, NEW isActive \in BOOLEAN, ToggleGameStatus(g, isActive)
    PROVE  CatalogueInv'
<1> DEFINE old == games[g]
           new == [old EXCEPT !.isActive = isActive]
<1>1. /\ old \in GameDoc /\ started' \in Nat /\ games \in [Games -> GameDoc]
      /\ old.stored /\ g \notin patched => GameSound(old)
  BY DEF CatalogueInv, CatalogueTypeOK, GamesSound, ToggleGameStatus, AtOnce
<1>2. /\ games' = [games EXCEPT ![g] = new]
      /\ revived' = IF old.isDeleted /\ isActive THEN revived \cup {g} ELSE revived
      /\ UNCHANGED <<edits, packages, patched, raced>>
  BY <1>1 DEF ToggleGameStatus, AtOnce
<1> HIDE DEF old
<1>3. /\ new \in GameDoc /\ new.stored = old.stored /\ new.isActive = isActive
      /\ new.isDeleted = old.isDeleted
      /\ new.type = old.type /\ new.price = old.price /\ new.isOffer = old.isOffer
      /\ new.original = old.original /\ new.final = old.final /\ new.discount = old.discount
  BY <1>1 DEF GameDoc
<1> HIDE DEF new
<1>4. new.stored /\ g \notin patched' => GameSound(new)
  BY <1>1, <1>2, <1>3, MarkedGame
<1>5. /\ revived' \in {revived, revived \cup {g}}
      /\ new.stored /\ new.isActive /\ g \notin revived' => ~new.isDeleted
  BY <1>2, <1>3
<1> QED
  BY <1>1, <1>2, <1>3, <1>4, <1>5, OneGame

LEMMA ReadPopularSound ==
    ASSUME CatalogueInv, NEW e \in Editors, NEW g \in Games, ReadPopular(e, g)
    PROVE  CatalogueInv'
<1> DEFINE popular == ~games[g].isPopular
           x == [IdleEdit EXCEPT !.pc = "toggle", !.game = g, !.popular = popular]
<1>1. /\ edits' = [edits EXCEPT ![e] = x] /\ started' \in Nat
      /\ UNCHANGED <<games, packages, patched, revived, raced>>
  BY DEF ReadPopular, Start, CatalogueInv, CatalogueTypeOK
<1>2. popular \in BOOLEAN
  OBVIOUS
<1> HIDE DEF popular
<1>3. x \in Edit /\ x.pc = "toggle" /\ x.game = g
  BY <1>2, IdleEditSound DEF Edit
<1> HIDE DEF x
<1>4. EditSound(x)
  BY <1>3 DEF EditSound
<1> QED
  BY <1>1, <1>3, <1>4, OneEdit

LEMMA WritePopularSound ==
    ASSUME CatalogueInv, NEW e \in Editors, WritePopular(e) PROVE CatalogueInv'
<1> DEFINE g == edits[e].game
           old == games[g]
           new == [old EXCEPT !.isPopular = edits[e].popular]
<1>1. edits[e] \in Edit /\ EditSound(edits[e]) /\ edits[e].pc = "toggle" /\ started \in Nat
  BY DEF WritePopular, CatalogueInv, CatalogueTypeOK, EditsSound
<1>2. g \in Games /\ edits[e].popular \in BOOLEAN
  BY <1>1 DEF EditSound, Edit
<1>3. /\ old \in GameDoc /\ games \in [Games -> GameDoc]
      /\ old.stored /\ g \notin patched => GameSound(old)
      /\ old.stored /\ old.isActive /\ g \notin revived => ~old.isDeleted
  BY <1>2 DEF CatalogueInv, CatalogueTypeOK, GamesSound, ActiveSound
<1>4. /\ games' = [games EXCEPT ![g] = new] /\ edits' = [edits EXCEPT ![e] = IdleEdit]
      /\ UNCHANGED <<packages, started, patched, revived, raced>>
  BY <1>2, <1>3 DEF WritePopular
<1> HIDE DEF g, old
<1>5. /\ new \in GameDoc /\ new.stored = old.stored /\ new.isActive = old.isActive
      /\ new.isDeleted = old.isDeleted
      /\ new.type = old.type /\ new.price = old.price /\ new.isOffer = old.isOffer
      /\ new.original = old.original /\ new.final = old.final /\ new.discount = old.discount
  BY <1>2, <1>3 DEF GameDoc
<1> HIDE DEF new
<1>6. new.stored /\ g \notin patched' => GameSound(new)
  BY <1>3, <1>4, <1>5, MarkedGame
<1>7. new.stored /\ new.isActive /\ g \notin revived' => ~new.isDeleted
  BY <1>3, <1>4, <1>5
<1> QED
  BY <1>1, <1>2, <1>4, <1>5, <1>6, <1>7, OneGame

LEMMA CreatePackageSound ==
    ASSUME CatalogueInv, NEW p \in Packages, NEW b \in PackageBodies, CreatePackage(p, b)
    PROVE  CatalogueInv'
<1> DEFINE fresh == [NoPackageDoc EXCEPT !.stored = TRUE]
           doc == AssignedPackage(fresh, b)
           new == HookedPackage(doc)
<1>1. /\ PackageValid(doc) /\ packages' = [packages EXCEPT ![p] = new] /\ started' \in Nat
      /\ UNCHANGED <<games, edits, patched, revived, raced>>
  BY DEF CreatePackage, AtOnce, CatalogueInv, CatalogueTypeOK
<1>2. fresh \in PackageDoc /\ fresh.stored
  BY DEF NoPackageDoc, PackageDoc
<1> HIDE DEF fresh
<1>3. doc \in PackageDoc /\ doc.stored
  BY <1>2, AssignedPackageType
<1> HIDE DEF doc
<1>4. new \in PackageDoc /\ PackageSound(new) /\ new.stored
  BY <1>1, <1>3, HookedPackageSound
<1> HIDE DEF new
<1> QED
  BY <1>1, <1>4, OnePackage

\* A package is loaded, and the copy checked and completed.
LEMMA LoadPackageSound ==
    ASSUME CatalogueInv, NEW e \in Editors, NEW p \in Packages, NEW doc \in PackageDoc,
           doc.isDeleted <=> packages[p].isDeleted, LoadPackage(e, p, doc)
    PROVE  CatalogueInv'
<1> DEFINE hooked == HookedPackage(doc)
           loaded == packages[p]
           x == [IdleEdit EXCEPT !.pc = "save", !.package = p, !.loaded = loaded, !.doc = hooked]
<1>1. /\ PackageValid(doc) /\ edits' = [edits EXCEPT ![e] = x] /\ started' \in Nat
      /\ UNCHANGED <<games, packages, patched, revived, raced>> /\ loaded \in PackageDoc
  BY DEF LoadPackage, Start, CatalogueInv, CatalogueTypeOK
<1>2. hooked \in PackageDoc /\ PackageSound(hooked) /\ (hooked.isDeleted <=> loaded.isDeleted)
  BY <1>1, HookedPackageSound
<1> HIDE DEF hooked, loaded
<1>3. x \in Edit /\ x.pc = "save" /\ x.package = p /\ x.loaded = loaded /\ x.doc = hooked
  BY <1>1, <1>2, IdleEditSound DEF Edit
<1> HIDE DEF x
<1>4. EditSound(x)
  BY <1>2, <1>3 DEF EditSound
<1> QED
  BY <1>1, <1>3, <1>4, OneEdit

LEMMA UpdatePackageSound ==
    ASSUME CatalogueInv, NEW e \in Editors, NEW p \in Packages, NEW b \in PackageBodies,
           UpdatePackage(e, p, b)
    PROVE  CatalogueInv'
<1> DEFINE doc == AssignedPackage(packages[p], b)
<1>1. packages[p] \in PackageDoc /\ LoadPackage(e, p, doc)
  BY DEF UpdatePackage, CatalogueInv, CatalogueTypeOK
<1>2. doc \in PackageDoc /\ (doc.isDeleted <=> packages[p].isDeleted)
  BY <1>1, AssignedPackageType
<1> HIDE DEF doc
<1> QED
  BY <1>1, <1>2, LoadPackageSound

LEMMA UploadPackageImageSound ==
    ASSUME CatalogueInv, NEW e \in Editors, NEW p \in Packages, UploadPackageImage(e, p)
    PROVE  CatalogueInv'
<1>1. packages[p] \in PackageDoc /\ LoadPackage(e, p, packages[p])
  BY DEF UploadPackageImage, CatalogueInv, CatalogueTypeOK
<1> QED
  BY <1>1, LoadPackageSound

LEMMA SavePackageSound ==
    ASSUME CatalogueInv, NEW e \in Editors, SavePackage(e) PROVE CatalogueInv'
<1> DEFINE x == edits[e]
           p == x.package
           new == MergedPackage(packages[p], x.loaded, x.doc)
<1>1. x \in Edit /\ EditSound(x) /\ x.pc = "save" /\ started \in Nat
  BY DEF SavePackage, CatalogueInv, CatalogueTypeOK, EditsSound
<1>2. /\ p \in Packages /\ x.loaded \in PackageDoc /\ x.doc \in PackageDoc
      /\ PackageSound(x.doc) /\ (x.doc.isDeleted <=> x.loaded.isDeleted)
  BY <1>1 DEF EditSound, Edit
<1>3. /\ packages[p] \in PackageDoc /\ packages \in [Packages -> PackageDoc]
      /\ packages[p].isDeleted => packages[p].stored
  BY <1>2 DEF CatalogueInv, CatalogueTypeOK, PackagesSound
<1>4. /\ packages' = [packages EXCEPT ![p] = new]
      /\ raced' = IF Offer(packages[p]) # Offer(x.loaded) THEN raced \cup {p} ELSE raced
      /\ edits' = [edits EXCEPT ![e] = IdleEdit]
      /\ UNCHANGED <<games, started, patched, revived>>
  BY <1>2, <1>3 DEF SavePackage
<1>5. /\ new \in PackageDoc
      /\ new.isDeleted => new.stored
      /\ Offer(packages[p]) = Offer(x.loaded) => PackageSound(new)
  BY <1>2, <1>3, MergedPackageSound
<1> HIDE DEF new, p, x
<1>6. raced' \in {raced, raced \cup {p}} /\ (p \notin raced' => PackageSound(new))
  BY <1>4, <1>5
<1> QED
  BY <1>1, <1>2, <1>4, <1>5, <1>6, OnePackage

LEMMA DeletePackageSound ==
    ASSUME CatalogueInv, NEW p \in Packages, DeletePackage(p) PROVE CatalogueInv'
<1> DEFINE old == packages[p]
           new == [old EXCEPT !.isDeleted = TRUE]
<1>1. /\ old \in PackageDoc /\ started' \in Nat /\ packages \in [Packages -> PackageDoc]
      /\ old.stored /\ (p \notin raced => PackageSound(old))
  BY DEF CatalogueInv, CatalogueTypeOK, PackagesSound, DeletePackage, AtOnce
<1>2. packages' = [packages EXCEPT ![p] = new] /\ UNCHANGED <<games, edits, patched, revived, raced>>
  BY <1>1 DEF DeletePackage, AtOnce
<1> HIDE DEF old
<1>3. /\ new \in PackageDoc /\ new.stored = old.stored
      /\ new.price = old.price /\ new.isOffer = old.isOffer
      /\ new.original = old.original /\ new.final = old.final /\ new.discount = old.discount
  BY <1>1 DEF PackageDoc
<1> HIDE DEF new
<1>4. new.stored /\ p \notin raced' => PackageSound(new)
  BY <1>1, <1>2, <1>3 DEF PackageSound, OfferSound
<1> QED
  BY <1>1, <1>2, <1>3, <1>4, OnePackage

\* Whatever administrators do to the catalogue.
LEMMA CatalogueStep == CatalogueInv /\ CatalogueNext => CatalogueInv'
<1> SUFFICES ASSUME CatalogueInv, CatalogueNext PROVE CatalogueInv'
  OBVIOUS
<1>1. ASSUME NEW e \in Editors, FailEdit(e) PROVE CatalogueInv'
  <2>1. /\ edits' = [edits EXCEPT ![e] = IdleEdit] /\ started' \in Nat
        /\ UNCHANGED <<games, packages, patched, revived, raced>>
    BY <1>1 DEF FailEdit, CatalogueInv, CatalogueTypeOK
  <2> QED
    BY <2>1, IdleEditSound, OneEdit
<1>2. CASE GamesNext
  BY <1>2, UpdateGameSound, DeletedGameSound, ToggleGameStatusSound, AddGameSound,
     ReadPopularSound, CreateGameSound, WritePopularSound DEF GamesNext
<1>3. CASE PackagesNext
  BY <1>3, CreatePackageSound, DeletePackageSound, UpdatePackageSound,
     UploadPackageImageSound, SavePackageSound DEF PackagesNext
<1> QED
  BY <1>1, <1>2, <1>3 DEF CatalogueNext

\* No step takes a package or its deletion back.
KeptPackages ==
    \A p \in Packages : /\ packages[p].isDeleted => packages'[p].isDeleted
                        /\ packages[p].stored => packages'[p].stored

LEMMA PackagesKept == CatalogueInv /\ [CatalogueNext]_catalogueVars => KeptPackages
<1> SUFFICES ASSUME CatalogueInv, [CatalogueNext]_catalogueVars PROVE KeptPackages
  OBVIOUS
<1>1. packages \in [Packages -> PackageDoc]
  BY DEF CatalogueInv, CatalogueTypeOK
<1>2. ASSUME NEW p \in Packages, NEW doc, packages' = [packages EXCEPT ![p] = doc],
             packages[p].isDeleted => doc.isDeleted, packages[p].stored => doc.stored
      PROVE  KeptPackages
  <2>1. \A q \in Packages : packages'[q] = IF q = p THEN doc ELSE packages[q]
    BY <1>1, <1>2
  <2> QED
    BY <1>2, <2>1 DEF KeptPackages
<1>3. CASE UNCHANGED packages
  BY <1>3 DEF KeptPackages
<1>4. ASSUME NEW p \in Packages, NEW b \in PackageBodies, CreatePackage(p, b)
      PROVE  KeptPackages
  <2> DEFINE doc == HookedPackage(AssignedPackage([NoPackageDoc EXCEPT !.stored = TRUE], b))
  <2>1. packages' = [packages EXCEPT ![p] = doc] /\ ~packages[p].stored
    BY <1>4 DEF CreatePackage
  <2>2. ~packages[p].isDeleted
    BY <2>1 DEF CatalogueInv, PackagesSound
  <2> HIDE DEF doc
  <2> QED
    BY <1>2, <2>1, <2>2
<1>5. ASSUME NEW p \in Packages, DeletePackage(p) PROVE KeptPackages
  <2> DEFINE doc == [packages[p] EXCEPT !.isDeleted = TRUE]
  <2>1. packages' = [packages EXCEPT ![p] = doc] /\ packages[p] \in PackageDoc
    BY <1>1, <1>5 DEF DeletePackage
  <2>2. doc.isDeleted /\ doc.stored = packages[p].stored
    BY <2>1 DEF PackageDoc
  <2> HIDE DEF doc
  <2> QED
    BY <1>2, <2>1, <2>2
<1>6. ASSUME NEW e \in Editors, SavePackage(e) PROVE KeptPackages
  <2> DEFINE x == edits[e]
             p == x.package
             doc == MergedPackage(packages[p], x.loaded, x.doc)
  <2>1. x \in Edit /\ EditSound(x) /\ x.pc = "save"
    BY <1>6 DEF SavePackage, CatalogueInv, CatalogueTypeOK, EditsSound
  <2>2. /\ p \in Packages /\ x.loaded \in PackageDoc /\ x.doc \in PackageDoc
        /\ x.doc.isDeleted <=> x.loaded.isDeleted
    BY <2>1 DEF EditSound, Edit
  <2>3. packages[p] \in PackageDoc /\ packages' = [packages EXCEPT ![p] = doc]
    BY <1>1, <1>6, <2>2 DEF SavePackage
  <2>4. (doc.stored <=> packages[p].stored) /\ (doc.isDeleted <=> packages[p].isDeleted)
    BY <2>2, <2>3, MergedPackageSound
  <2> HIDE DEF doc, p
  <2> QED
    BY <1>2, <2>2, <2>3, <2>4
<1>7. CASE GamesNext
  BY <1>3, <1>7 DEF GamesNext, UpdateGame, DeletedGame, ToggleGameStatus, AddGame, ReadPopular,
                    CreateGame, WritePopular
<1>8. CASE PackagesNext
  <2>1. ASSUME NEW e \in Editors, NEW p \in Packages,
               UploadPackageImage(e, p) \/ \E b \in PackageBodies : UpdatePackage(e, p, b)
        PROVE  KeptPackages
    BY <1>3, <2>1 DEF UploadPackageImage, UpdatePackage, LoadPackage
  <2> QED
    BY <1>4, <1>5, <1>6, <1>8, <2>1 DEF PackagesNext
<1> QED
  BY <1>3, <1>7, <1>8 DEF CatalogueNext, FailEdit, catalogueVars

-----------------------------------------------------------------------------
(* Answers                                                                 *)

\* Every row now on sale was ever on sale; so was every row of an answer.
AnswersSound ==
    /\ OnSale \subseteq offered
    /\ ShownWasOnSale

StorefrontInv == TypeOK /\ CatalogueInv /\ AnswersSound

\* The price that is shown is a number.
LEMMA ShownType == ASSUME NEW doc \in GameDoc \cup PackageDoc PROVE Shown(doc) \in Nat
BY DEF GameDoc, PackageDoc, Shown

\* An answer shows what is for sale.
LEMMA AnswersOnSale ==
    ASSUME NEW k \in Keys, NEW rows \in Answers(k) PROVE rows \subseteq OnSale
<1>1. Rows(k) \subseteq OnSale
  <2>1. k.what = "package" => k.of \in Packages
    BY DEF Keys
  <2>2. ASSUME NEW items \in SUBSET Packages PROVE PackageRows(items) \subseteq OnSale
    BY DEF PackageRows, OnSale
  <2>3. CASE k.what = "games"
    BY <2>3 DEF Rows, OnSale
  <2>4. CASE k.what = "packages"
    BY <2>2, <2>4 DEF Rows
  <2>5. CASE k.what = "package"
    <3>1. Rows(k) = PackageRows({k.of})
      BY <2>5 DEF Rows
    <3> QED
      BY <2>1, <2>2, <2>5, <3>1
  <2> QED
    BY <2>3, <2>4, <2>5 DEF Keys
<1> QED
  BY <1>1 DEF Answers, OnSale

LEMMA StorefrontStart == Init => StorefrontInv
<1> SUFFICES ASSUME Init PROVE StorefrontInv
  OBVIOUS
<1>1. CatalogueInv /\ CatalogueTypeOK
  BY CatalogueStart DEF Init, CatalogueInv
<1>2. /\ cache = [k \in Keys |-> NoEntry] /\ readers = [r \in Readers |-> NoReader]
      /\ offered = {}
  BY DEF Init
<1>3. NoReader \in Reader /\ NoReader.rows = {}
  BY DEF NoReader, Reader, Keys
<1>4. TypeOK
  BY <1>1, <1>2, <1>3 DEF TypeOK
<1>5. OnSale = {}
  <2>1. \A g \in Games : ~GameOnSale(g)
    BY DEF Init, CatalogueInit, NoGameDoc, GameOnSale
  <2>2. \A p \in Packages : ~PackageOnSale(p)
    BY DEF Init, CatalogueInit, NoPackageDoc, PackageOnSale
  <2> QED
    BY <2>1, <2>2 DEF OnSale, GameRows, PackageRows
<1>6. ShownWasOnSale
  BY <1>2, <1>3 DEF ShownWasOnSale
<1> QED
  BY <1>1, <1>4, <1>5, <1>6 DEF StorefrontInv, AnswersSound

\* A step of a reader or of the clock: the catalogue stays as it is.
LEMMA ReadStep ==
    ASSUME StorefrontInv, UNCHANGED <<catalogueVars, offered>>,
           cache' \in [Keys -> (SUBSET Row) \cup {NoEntry}], readers' \in [Readers -> Reader],
           \A k \in Keys : cache'[k] # NoEntry => cache'[k] \subseteq offered,
           \A r \in Readers : readers'[r].rows \subseteq offered
    PROVE  StorefrontInv'
<1>1. /\ UNCHANGED games /\ UNCHANGED packages /\ UNCHANGED edits /\ UNCHANGED started
      /\ UNCHANGED patched /\ UNCHANGED revived /\ UNCHANGED raced
  BY DEF catalogueVars
<1>2. CatalogueTypeOK' /\ CatalogueInv'
  BY <1>1 DEF StorefrontInv, CatalogueInv, CatalogueTypeOK, EditsSound, EditSound, GamesSound,
              GameSound, ActiveSound, PackagesSound, PackageSound, OfferSound
<1>3. OnSale' = OnSale
  BY <1>1 DEF OnSale, GameRows, PackageRows, GameOnSale, PackageOnSale, Shown
<1>4. TypeOK'
  BY <1>2 DEF StorefrontInv, TypeOK
<1>5. ShownWasOnSale'
  BY DEF ShownWasOnSale
<1> QED
  BY <1>2, <1>3, <1>4, <1>5 DEF StorefrontInv, AnswersSound

LEMMA StorefrontStep == StorefrontInv /\ [Next]_vars => StorefrontInv'
<1> SUFFICES ASSUME StorefrontInv, [Next]_vars PROVE StorefrontInv'
  OBVIOUS
<1>1. /\ cache \in [Keys -> (SUBSET Row) \cup {NoEntry}] /\ readers \in [Readers -> Reader]
      /\ OnSale \subseteq offered /\ offered \subseteq Row /\ CatalogueTypeOK
      /\ \A k \in Keys : cache[k] # NoEntry => cache[k] \subseteq offered
      /\ \A r \in Readers : readers[r].rows \subseteq offered
  BY DEF StorefrontInv, TypeOK, AnswersSound, ShownWasOnSale
<1>2. NoReader \in Reader /\ NoReader.rows = {}
  BY DEF NoReader, Reader, Keys
<1>3. CASE UNCHANGED vars
  <2>1. UNCHANGED <<catalogueVars, offered>> /\ UNCHANGED cache /\ UNCHANGED readers
    BY <1>3 DEF vars, storefrontVars
  <2> QED
    BY <1>1, <2>1, ReadStep
<1>4. CASE Administer
  <2>1. CatalogueInv'
    BY <1>4, CatalogueStep DEF Administer, StorefrontInv
  <2>2. OnSale' \subseteq offered' /\ offered \subseteq offered' /\ OnSale' \subseteq Row
    <3>1. CatalogueTypeOK'
      BY <2>1 DEF CatalogueInv
    <3>2. /\ \A g \in Games : Shown(games'[g]) \in Nat
          /\ \A p \in Packages : Shown(packages'[p]) \in Nat
      BY <3>1, ShownType DEF CatalogueTypeOK
    <3>3. OnSale' \subseteq Row
      BY <3>2 DEF OnSale, GameRows, PackageRows, Row, Shown
    <3> QED
      BY <1>4, <3>3 DEF Administer
  <2>3. TypeOK'
    BY <1>1, <1>4, <2>1, <2>2 DEF Administer, TypeOK, CatalogueInv
  <2>4. ShownWasOnSale'
    BY <1>1, <1>4, <2>2 DEF Administer, ShownWasOnSale
  <2> QED
    BY <2>1, <2>2, <2>3, <2>4 DEF StorefrontInv, AnswersSound
<1>5. ASSUME NEW r \in Readers, NEW x \in Reader, x.rows \subseteq offered,
             readers' = [readers EXCEPT ![r] = x], UNCHANGED <<catalogueVars, cache, offered>>
      PROVE  StorefrontInv'
  <2>1. readers' \in [Readers -> Reader]
    BY <1>1, <1>5
  <2>2. \A s \in Readers : readers'[s].rows \subseteq offered
    BY <1>1, <1>5
  <2> QED
    BY <1>1, <1>5, <2>1, <2>2, ReadStep
<1>6. ASSUME NEW r \in Readers, NEW k \in Keys, Lookup(r, k) PROVE StorefrontInv'
  <2> DEFINE x == [pc |-> "found", key |-> k, rows |-> {}]
  <2>1. x \in Reader /\ x.rows \subseteq offered
    BY DEF Reader
  <2>2. readers' = [readers EXCEPT ![r] = x] /\ UNCHANGED <<catalogueVars, cache, offered>>
    BY <1>6 DEF Lookup
  <2> HIDE DEF x
  <2> QED
    BY <1>5, <2>1, <2>2
<1>7. ASSUME NEW r \in Readers, Fetch(r) PROVE StorefrontInv'
  <2> DEFINE old == readers[r]
  <2>1. PICK rows \in Answers(old.key) :
            readers' = [readers EXCEPT ![r].pc = "fetched", ![r].rows = rows]
    BY <1>7 DEF Fetch
  <2> DEFINE x == [old EXCEPT !.pc = "fetched", !.rows = rows]
  <2>2. old \in Reader /\ old.key \in Keys
    BY <1>1 DEF Reader
  <2>3. rows \subseteq OnSale
    BY <2>1, <2>2, AnswersOnSale
  <2>4. readers' = [readers EXCEPT ![r] = x] /\ UNCHANGED <<catalogueVars, cache, offered>>
    BY <1>1, <1>7, <2>1 DEF Fetch
  <2>5. rows \subseteq offered /\ rows \subseteq Row
    BY <1>1, <2>3
  <2> HIDE DEF old
  <2>6. x \in Reader /\ x.rows = rows
    BY <2>2, <2>5 DEF Reader
  <2> HIDE DEF x
  <2> QED
    BY <1>5, <2>4, <2>5, <2>6
<1>8. ASSUME NEW r \in Readers, Store(r) PROVE StorefrontInv'
  <2> DEFINE key == readers[r].key
             rows == readers[r].rows
  <2>1. key \in Keys /\ rows \subseteq Row /\ rows \subseteq offered
    BY <1>1 DEF Reader
  <2>2. /\ cache' = [cache EXCEPT ![key] = rows]
        /\ readers' = [readers EXCEPT ![r] = NoReader]
        /\ UNCHANGED <<catalogueVars, offered>>
    BY <1>8 DEF Store
  <2> HIDE DEF key, rows
  <2>3. /\ cache' \in [Keys -> (SUBSET Row) \cup {NoEntry}]
        /\ \A k \in Keys : cache'[k] = IF k = key THEN rows ELSE cache[k]
    BY <1>1, <2>1, <2>2
  <2>4. /\ readers' \in [Readers -> Reader]
        /\ \A s \in Readers : readers'[s].rows \subseteq offered
    BY <1>1, <1>2, <2>2
  <2> QED
    BY <1>1, <2>1, <2>2, <2>3, <2>4, ReadStep
<1>9. ASSUME NEW r \in Readers, Abandon(r) PROVE StorefrontInv'
  <2>1. readers' = [readers EXCEPT ![r] = NoReader] /\ UNCHANGED <<catalogueVars, cache, offered>>
    BY <1>9 DEF Abandon
  <2> QED
    BY <1>2, <1>5, <2>1
<1>10. ASSUME NEW k \in Keys, Expire(k) PROVE StorefrontInv'
  <2>1. cache' = [cache EXCEPT ![k] = NoEntry] /\ UNCHANGED <<catalogueVars, readers, offered>>
    BY <1>10 DEF Expire
  <2>2. /\ cache' \in [Keys -> (SUBSET Row) \cup {NoEntry}]
        /\ \A j \in Keys : cache'[j] = IF j = k THEN NoEntry ELSE cache[j]
    BY <1>1, <2>1
  <2> QED
    BY <1>1, <2>1, <2>2, ReadStep
<1> QED
  BY <1>3, <1>4, <1>6, <1>7, <1>8, <1>9, <1>10 DEF Next

LEMMA StorefrontInvariant == Spec => []StorefrontInv
BY StorefrontStart, StorefrontStep, PTL DEF Spec

-----------------------------------------------------------------------------
(* Theorems                                                                *)

\* The state has its type: no percentage is ever negative, no answer shows
\* anything but rows.
THEOREM TypeInvariant == Spec => []TypeOK
<1>1. StorefrontInv => TypeOK
  BY DEF StorefrontInv
<1> QED
  BY <1>1, StorefrontInvariant, PTL

\* A Steam game's price and offer fit, unless an update of it left out the type
\* or isOffer.
THEOREM GameOfferTheorem == Spec => []GameOfferSound
<1>1. StorefrontInv => GameOfferSound
  BY DEF StorefrontInv, CatalogueInv, GamesSound, GameSound, GameOfferSound
<1> QED
  BY <1>1, StorefrontInvariant, PTL

\* A package's price and offer fit, unless it was saved over prices that had
\* changed since it was loaded.
THEOREM PackageOfferTheorem == Spec => []PackageOfferSound
<1>1. StorefrontInv => PackageOfferSound
  BY DEF StorefrontInv, CatalogueInv, PackagesSound, PackageSound, PackageOfferSound
<1> QED
  BY <1>1, StorefrontInvariant, PTL

\* A game has a page exactly while the lists may show it, unless it was made
\* active after its deletion.
THEOREM PageTheorem == Spec => []PageMatchesLists
<1>1. StorefrontInv => PageMatchesLists
  <2> SUFFICES ASSUME StorefrontInv, NEW g \in Games \ revived
               PROVE  /\ GetGameById(g) <=> g \in ListGames
                      /\ GetGameById(g) <=> g \in GetSteamGames \cup GetGamesWithPackagesByCategory
                      /\ GetGameById(g) <=> g \in GetGamesByCategory
    BY DEF PageMatchesLists
  <2>1. GetGameById(g) <=> GameOnSale(g)
    BY DEF StorefrontInv, CatalogueInv, ActiveSound, GetGameById, GameOnSale
  <2> QED
    BY <2>1 DEF ListGames, GetGamesByCategory, GetSteamGames, GetGamesWithPackagesByCategory
<1> QED
  BY <1>1, StorefrontInvariant, PTL

\* A deleted package stays deleted and a created one stays, whatever older
\* copies of it are saved.
THEOREM DeletedTheorem == Spec => DeletedPackageFinal
<1>1. StorefrontInv /\ [Next]_vars => [CatalogueNext]_catalogueVars
  BY DEF Next, Administer, Lookup, Fetch, Store, Abandon, Expire, vars
<1>2. StorefrontInv /\ [Next]_vars => [KeptPackages]_catalogueVars
  BY <1>1, PackagesKept DEF StorefrontInv
<1> QED
  BY <1>2, StorefrontInvariant, PTL DEF Spec, DeletedPackageFinal, KeptPackages

\* Whatever was cached or is about to be was for sale at the price shown.
THEOREM ShownTheorem == Spec => []ShownWasOnSale
<1>1. StorefrontInv => ShownWasOnSale
  BY DEF StorefrontInv, AnswersSound
<1> QED
  BY <1>1, StorefrontInvariant, PTL
=============================================================================
