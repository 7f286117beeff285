----------------------------- MODULE Catalogue ------------------------------
(***************************************************************************)
(* Catalogue: what administrators do to games and packages (GameService    *)
(* and SuperAdminPackagesService of SuperAdmin), and the hooks of the two  *)
(* schemas.                                                                *)
(*                                                                         *)
(* A game is changed by updateOne: the update hook sees the fields of the  *)
(* update and not the stored document.  A package is loaded, changed and   *)
(* saved: the save hook sees the loaded copy, and save writes the fields   *)
(* that differ from what was loaded over whatever is stored by then.       *)
(*                                                                         *)
(* A body is a record of the fields the request gives.  0 stands for a     *)
(* price that is zero, null or missing: the code tells them apart only to  *)
(* word its refusals.                                                      *)
(***************************************************************************)
EXTENDS Integers, FiniteSets

CONSTANTS
    Games, Packages,
    Names,          \* names a game may have
    Editors,        \* administrators' requests in flight at once
    GameBodies,     \* bodies of addGame and updateGame
    PackageBodies,  \* bodies of createPackage and updatePackage
    NoName, NoGame, NoPackage,
    MaxEdits        \* bound: requests started

Types == {"steam", "games", "subscription"}

Has(body, f) == f \in DOMAIN body

Given(body, f, default) == IF Has(body, f) THEN body[f] ELSE default

ASSUME CatalogueAssumption ==
    /\ NoName \notin Names /\ NoGame \notin Games /\ NoPackage \notin Packages
    /\ MaxEdits \in Nat
    /\ \A b \in GameBodies :
          /\ Has(b, "name") => b.name \in Names
          /\ Has(b, "type") => b.type \in Types
          /\ Has(b, "isOffer") => b.isOffer \in BOOLEAN
          /\ Has(b, "price") => b.price \in Nat
          /\ Has(b, "original") => b.original \in Nat
          /\ Has(b, "final") => b.final \in Nat
    /\ \A b \in PackageBodies :
          /\ Has(b, "game") => b.game \in Games
          /\ Has(b, "isActive") => b.isActive \in BOOLEAN
          /\ Has(b, "isOffer") => b.isOffer \in BOOLEAN
          /\ Has(b, "price") => b.price \in Nat
          /\ Has(b, "original") => b.original \in Nat
          /\ Has(b, "final") => b.final \in Nat

VARIABLES
    games,      \* the games collection
    packages,   \* the packages collection
    edits,      \* the handler running for each editor
    started,    \* how many requests were started
    patched,    \* history: games an update changed without type or isOffer
    revived,    \* history: games made active after they were deleted
    raced       \* history: packages saved over an offer other than the one loaded

catalogueVars == <<games, packages, edits, started, patched, revived, raced>>

-----------------------------------------------------------------------------
(* State                                                                   *)

\* isDeleted is missing until the game is deleted: FALSE stands for missing.
GameDoc == [stored : BOOLEAN, name : Names \cup {NoName}, type : Types,
            price : Nat, isOffer : BOOLEAN, original : Nat, final : Nat, discount : Nat,
            isActive : BOOLEAN, isDeleted : BOOLEAN, isPopular : BOOLEAN]

NoGameDoc == [stored |-> FALSE, name |-> NoName, type |-> "games",
              price |-> 0, isOffer |-> FALSE, original |-> 0, final |-> 0, discount |-> 0,
              isActive |-> FALSE, isDeleted |-> FALSE, isPopular |-> FALSE]

PackageDoc == [stored : BOOLEAN, game : Games \cup {NoGame},
               price : Nat, isOffer : BOOLEAN, original : Nat, final : Nat, discount : Nat,
               isActive : BOOLEAN, isDeleted : BOOLEAN]

NoPackageDoc == [stored |-> FALSE, game |-> NoGame,
                 price |-> 0, isOffer |-> FALSE, original |-> 0, final |-> 0, discount |-> 0,
                 isActive |-> FALSE, isDeleted |-> FALSE]

Edit == [pc : {"idle", "add", "toggle", "save"},
         game : Games \cup {NoGame}, package : Packages \cup {NoPackage},
         new : GameDoc, popular : BOOLEAN,          \* addGame, toggleGamePopular
         loaded : PackageDoc, doc : PackageDoc]     \* updatePackage, uploadPackageImage

IdleEdit == [pc |-> "idle", game |-> NoGame, package |-> NoPackage,
             new |-> NoGameDoc, popular |-> FALSE,
             loaded |-> NoPackageDoc, doc |-> NoPackageDoc]

CatalogueTypeOK ==
    /\ games \in [Games -> GameDoc]
    /\ packages \in [Packages -> PackageDoc]
    /\ edits \in [Editors -> Edit]
    /\ started \in Nat
    /\ patched \subseteq Games /\ revived \subseteq Games /\ raced \subseteq Packages

CatalogueInit ==
    /\ games = [g \in Games |-> NoGameDoc]
    /\ packages = [p \in Packages |-> NoPackageDoc]
    /\ edits = [e \in Editors |-> IdleEdit]
    /\ started = 0
    /\ patched = {} /\ revived = {} /\ raced = {}

-----------------------------------------------------------------------------
(* Prices and offers                                                       *)

\* discountPercentage, in hundredths, rounded to the nearest.
Discount(original, final) ==
    (20000 * (original - final) + original) \div (2 * original)

\* Mistake: the two prices are not compared.
OfferPricesLax(original, final) == 0 < final /\ 0 < original

\* What the services and all the hooks ask of an offer's prices.
OfferPrices(original, final) == 0 < final /\ final < original

\* The checks of addGame and of updateGame on the body alone.
BodyAccepted(b) ==
    Given(b, "type", "games") = "steam" =>
        /\ Given(b, "price", 0) > 0
        /\ Given(b, "isOffer", FALSE) =>
              OfferPrices(Given(b, "original", 0), Given(b, "final", 0))

\* The save hook of games: the offer of a game of another type is cleared.
HookedGame(doc) ==
    IF ~doc.isOffer THEN doc
    ELSE IF doc.type = "steam"
         THEN [doc EXCEPT !.discount = Discount(doc.original, doc.final)]
         ELSE [doc EXCEPT !.isOffer = FALSE, !.original = 0, !.final = 0, !.discount = 0]

\* Mistake: the copy is not looked at.
PackageValidUnchecked(doc) == doc.price > 0

\* The save hook of packages refuses the copy, or completes it.
PackageValid(doc) ==
    /\ doc.price > 0
    /\ doc.isOffer => OfferPrices(doc.original, doc.final)

HookedPackage(doc) ==
    IF doc.isOffer
    THEN [doc EXCEPT !.discount = Discount(doc.original, doc.final)]
    ELSE [doc EXCEPT !.original = 0, !.final = 0, !.discount = 0]

\* What an update of a game writes.  The hook turns an offer off unless the
\* update itself says steam; the prices it sets to undefined are not written.
UpdatedGame(doc, b) ==
    LET steamOffer == Given(b, "type", "games") = "steam" /\ Given(b, "isOffer", FALSE)
        otherOffer == Given(b, "type", "games") # "steam" /\ Given(b, "isOffer", FALSE)
    IN  [doc EXCEPT
            !.name = Given(b, "name", @), !.type = Given(b, "type", @),
            !.price = Given(b, "price", @),
            !.isOffer = IF otherOffer THEN FALSE ELSE Given(b, "isOffer", @),
            !.original = IF otherOffer THEN @ ELSE Given(b, "original", @),
            !.final = IF otherOffer THEN @ ELSE Given(b, "final", @),
            !.discount = IF steamOffer THEN Discount(b.original, b.final) ELSE @]

\* Object.assign(packageDoc, body).
AssignedPackage(doc, b) ==
    [doc EXCEPT
        !.game = Given(b, "game", @), !.isActive = Given(b, "isActive", @),
        !.price = Given(b, "price", @), !.isOffer = Given(b, "isOffer", @),
        !.original = Given(b, "original", @), !.final = Given(b, "final", @)]

-----------------------------------------------------------------------------
(* Games                                                                   *)

Start(e) ==
    /\ edits[e].pc = "idle"
    /\ started < MaxEdits
    /\ started' = started + 1

AtOnce ==
    /\ started < MaxEdits
    /\ started' = started + 1
    /\ UNCHANGED edits

NameTaken(name) == \E g \in Games : games[g].stored /\ games[g].name = name

\* addGame looks for the name, and creates the game after the uploads.
AddGame(e, g, b) ==
    /\ Start(e)
    /\ ~games[g].stored
    /\ Has(b, "name") /\ Has(b, "type")
    /\ BodyAccepted(b)
    /\ ~NameTaken(b.name)
    /\ edits' = [edits EXCEPT ![e] =
           [IdleEdit EXCEPT !.pc = "add", !.game = g,
               !.new = HookedGame([NoGameDoc EXCEPT
                   !.stored = TRUE, !.isActive = TRUE, !.name = b.name, !.type = b.type,
                   !.price = Given(b, "price", 0), !.isOffer = Given(b, "isOffer", FALSE),
                   !.original = Given(b, "original", 0), !.final = Given(b, "final", 0)])]]
    /\ UNCHANGED <<games, packages, patched, revived, raced>>

CreateGame(e) ==
    LET g == edits[e].game
    IN  /\ edits[e].pc = "add"
        /\ ~games[g].stored
        /\ games' = [games EXCEPT ![g] = edits[e].new]
        /\ edits' = [edits EXCEPT ![e] = IdleEdit]
        /\ UNCHANGED <<packages, started, patched, revived, raced>>

\* Mistake: an update is written without its checks.
UpdateGameUnchecked(g, b) ==
    /\ games[g].stored
    /\ games' = [games EXCEPT ![g] = UpdatedGame(@, b)]
    /\ patched' = IF Has(b, "type") /\ Has(b, "isOffer") THEN patched ELSE patched \cup {g}
    /\ AtOnce
    /\ UNCHANGED <<packages, revived, raced>>

UpdateGame(g, b) ==
    /\ games[g].stored
    /\ BodyAccepted(b)
    /\ games' = [games EXCEPT ![g] = UpdatedGame(@, b)]
    /\ patched' = IF Has(b, "type") /\ Has(b, "isOffer") THEN patched ELSE patched \cup {g}
    /\ AtOnce
    /\ UNCHANGED <<packages, revived, raced>>

\* Mistake: the game is only marked.
DeletedGameStillActive(g) ==
    /\ games[g].stored /\ ~games[g].isDeleted
    /\ games' = [games EXCEPT ![g].isDeleted = TRUE]
    /\ AtOnce
    /\ UNCHANGED <<packages, patched, revived, raced>>

DeletedGame(g) ==
    /\ games[g].stored /\ ~games[g].isDeleted
    /\ games' = [games EXCEPT ![g].isDeleted = TRUE, ![g].isActive = FALSE]
    /\ AtOnce
    /\ UNCHANGED <<packages, patched, revived, raced>>

\* A deleted game is made active all the same.
ToggleGameStatus(g, isActive) ==
    /\ games[g].stored
    /\ games' = [games EXCEPT ![g].isActive = isActive]
    /\ revived' = IF games[g].isDeleted /\ isActive THEN revived \cup {g} ELSE revived
    /\ AtOnce
    /\ UNCHANGED <<packages, patched, raced>>

\* toggleGamePopular reads the flag, and then writes its negation.
ReadPopular(e, g) ==
    /\ Start(e)
    /\ games[g].stored
    /\ edits' = [edits EXCEPT ![e] =
           [IdleEdit EXCEPT !.pc = "toggle", !.game = g, !.popular = ~games[g].isPopular]]
    /\ UNCHANGED <<games, packages, patched, revived, raced>>

WritePopular(e) ==
    /\ edits[e].pc = "toggle"
    /\ games' = [games EXCEPT ![edits[e].game].isPopular = edits[e].popular]
    /\ edits' = [edits EXCEPT ![e] = IdleEdit]
    /\ UNCHANGED <<packages, started, patched, revived, raced>>

GameOnSale(g) == games[g].stored /\ games[g].isActive /\ ~games[g].isDeleted

\* What customers' lists may show: their further filters only narrow them.
ListGames == {g \in Games : GameOnSale(g)}

GetGamesByCategory == {g \in Games : GameOnSale(g)}

GetSteamGames == {g \in Games : GameOnSale(g) /\ games[g].type = "steam"}

GetGamesWithPackagesByCategory == {g \in Games : GameOnSale(g) /\ games[g].type # "steam"}

\* getGameById: its projection has no isDeleted, so only isActive counts.
GetGameById(g) == games[g].stored /\ games[g].isActive

-----------------------------------------------------------------------------
(* Packages                                                                *)

CreatePackage(p, b) ==
    LET doc == AssignedPackage([NoPackageDoc EXCEPT !.stored = TRUE], b)
    IN  /\ ~packages[p].stored
        /\ Has(b, "game") /\ Has(b, "price") /\ Has(b, "isActive")
        /\ games[b.game].stored
        /\ PackageValid(doc)
        /\ packages' = [packages EXCEPT ![p] = HookedPackage(doc)]
        /\ AtOnce
        /\ UNCHANGED <<games, patched, revived, raced>>

LoadPackage(e, p, doc) ==
    /\ Start(e)
    /\ packages[p].stored
    /\ PackageValid(doc)
    /\ edits' = [edits EXCEPT ![e] =
           [IdleEdit EXCEPT !.pc = "save", !.package = p,
               !.loaded = packages[p], !.doc = HookedPackage(doc)]]
    /\ UNCHANGED <<games, packages, patched, revived, raced>>

UpdatePackage(e, p, b) ==
    /\ Has(b, "game") => games[b.game].stored
    /\ LoadPackage(e, p, AssignedPackage(packages[p], b))

\* The image is not modelled; the save hook runs on the copy all the same.
UploadPackageImage(e, p) == LoadPackage(e, p, packages[p])

\* Mistake: the whole copy is written.
MergedPackageWhole(old, loaded, doc) == doc

\* What save writes: the fields of the copy that differ from what was loaded.
MergedPackage(old, loaded, doc) ==
    LET Pick(was, is, now) == IF is # was THEN is ELSE now
    IN  [old EXCEPT !.game = Pick(loaded.game, doc.game, @),
                    !.price = Pick(loaded.price, doc.price, @),
                    !.isOffer = Pick(loaded.isOffer, doc.isOffer, @),
                    !.original = Pick(loaded.original, doc.original, @),
                    !.final = Pick(loaded.final, doc.final, @),
                    !.discount = Pick(loaded.discount, doc.discount, @),
                    !.isActive = Pick(loaded.isActive, doc.isActive, @),
                    !.isDeleted = Pick(loaded.isDeleted, doc.isDeleted, @)]

Offer(doc) == <<doc.price, doc.isOffer, doc.original, doc.final, doc.discount>>

SavePackage(e) ==
    LET p == edits[e].package
    IN  /\ edits[e].pc = "save"
        /\ packages' = [packages EXCEPT ![p] =
                           MergedPackage(@, edits[e].loaded, edits[e].doc)]
        /\ raced' = IF Offer(packages[p]) # Offer(edits[e].loaded)
                    THEN raced \cup {p} ELSE raced
        /\ edits' = [edits EXCEPT ![e] = IdleEdit]
        /\ UNCHANGED <<games, started, patched, revived>>

DeletePackage(p) ==
    /\ packages[p].stored /\ ~packages[p].isDeleted
    /\ packages' = [packages EXCEPT ![p].isDeleted = TRUE]
    /\ AtOnce
    /\ UNCHANGED <<games, patched, revived, raced>>

\* The database or the cloud throws, or the server stops.
FailEdit(e) ==
    /\ edits[e].pc # "idle"
    /\ edits' = [edits EXCEPT ![e] = IdleEdit]
    /\ UNCHANGED <<games, packages, started, patched, revived, raced>>

GamesNext ==
    \/ \E g \in Games :
          \/ \E b \in GameBodies : UpdateGame(g, b)
          \/ DeletedGame(g)
          \/ \E isActive \in BOOLEAN : ToggleGameStatus(g, isActive)
    \/ \E e \in Editors :
          \/ \E g \in Games :
                \/ \E b \in GameBodies : AddGame(e, g, b)
                \/ ReadPopular(e, g)
          \/ CreateGame(e)
          \/ WritePopular(e)

PackagesNext ==
    \/ \E p \in Packages :
          \/ \E b \in PackageBodies : CreatePackage(p, b)
          \/ DeletePackage(p)
    \/ \E e \in Editors :
          \/ \E p \in Packages :
                \/ \E b \in PackageBodies : UpdatePackage(e, p, b)
                \/ UploadPackageImage(e, p)
          \/ SavePackage(e)

CatalogueNext == GamesNext \/ PackagesNext \/ \E e \in Editors : FailEdit(e)

-----------------------------------------------------------------------------
(* Safety                                                                  *)

OfferSound(doc) ==
    doc.isOffer => /\ 0 < doc.final /\ doc.final < doc.original
                   /\ doc.discount = Discount(doc.original, doc.final)

\* A Steam game has a price, and its offer is below the original price with the
\* percentage of those two prices, unless some update left out the type or
\* isOffer: each check sees the update alone and never the stored game.
GameOfferSound ==
    \A g \in Games \ patched :
        games[g].stored /\ games[g].type = "steam" =>
            games[g].price > 0 /\ OfferSound(games[g])

\* The same of a package, whatever fields its updates gave, unless one of them
\* was saved over prices that had changed since it was loaded.
PackageOfferSound ==
    \A p \in Packages \ raced :
        packages[p].stored => packages[p].price > 0 /\ OfferSound(packages[p])

\* A game's page opens exactly while the lists may show the game, in whatever
\* order it was deleted, updated and switched on and off, unless someone made it
\* active after its deletion.
PageMatchesLists ==
    \A g \in Games \ revived :
        /\ GetGameById(g) <=> g \in ListGames
        /\ GetGameById(g) <=> g \in GetSteamGames \cup GetGamesWithPackagesByCategory
        /\ GetGameById(g) <=> g \in GetGamesByCategory

\* A deleted package stays deleted, whatever older copies of it are saved, and
\* a package that was created never vanishes.
DeletedPackageFinal ==
    [][\A p \in Packages :
          /\ packages[p].isDeleted => packages'[p].isDeleted
          /\ packages[p].stored => packages'[p].stored]_catalogueVars
=============================================================================
