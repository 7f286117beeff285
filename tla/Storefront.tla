----------------------------- MODULE Storefront -----------------------------
(***************************************************************************)
(* Storefront: the customers' reads of the catalogue, and the cache three  *)
(* of them fill: getPaidGamesByCategory, getAvailablePackages and          *)
(* getPackageById.  Nothing an administrator does removes a cached answer: *)
(* only its time to live does.                                             *)
(*                                                                         *)
(* One category is modelled.  A cached answer is the set of its rows, and  *)
(* a row is the item with the price shown for it.                          *)
(***************************************************************************)
EXTENDS Catalogue

CONSTANTS
    Readers,    \* customers' requests that missed the cache
    PageSize,   \* the default length of a page
    NoEntry     \* no answer is cached

VARIABLES
    cache,      \* the answers cached
    readers,    \* the handler running for each reader
    offered     \* history: every row that was ever for sale

storefrontVars == <<cache, readers, offered>>

vars == <<catalogueVars, storefrontVars>>

-----------------------------------------------------------------------------

Keys == [what : {"games"}, of : {"category"}]
        \cup [what : {"packages"}, of : Games]
        \cup [what : {"package"}, of : Packages]

Shown(doc) == IF doc.isOffer THEN doc.final ELSE doc.price

PackageOnSale(p) == packages[p].stored /\ packages[p].isActive /\ ~packages[p].isDeleted

GameRows == {<<g, Shown(games[g])>> :
                g \in {h \in Games : GameOnSale(h) /\ games[h].type = "steam"}}

PackageRows(items) == {<<p, Shown(packages[p])>> : p \in {q \in items : PackageOnSale(q)}}

OnSale == GameRows \cup PackageRows(Packages)

\* Mistake: a deleted package is listed.
RowsDeletedToo(k) ==
    CASE k.what = "games" -> GameRows
      [] k.what = "packages" ->
            {<<p, Shown(packages[p])>> :
                p \in {q \in Packages : packages[q].game = k.of /\ packages[q].isActive}}
      [] k.what = "package" -> PackageRows({k.of})

\* What the database answers now.
Rows(k) ==
    CASE k.what = "games" -> GameRows
      [] k.what = "packages" -> PackageRows({p \in Packages : packages[p].game = k.of})
      [] k.what = "package" -> PackageRows({k.of})

Row == (Games \cup Packages) \X Nat

Reader == [pc : {"idle", "found", "fetched"}, key : Keys, rows : SUBSET Row]

NoReader == [pc |-> "idle", key |-> [what |-> "games", of |-> "category"], rows |-> {}]

TypeOK ==
    /\ CatalogueTypeOK
    /\ cache \in [Keys -> (SUBSET Row) \cup {NoEntry}]
    /\ readers \in [Readers -> Reader]
    /\ offered \subseteq Row

Init ==
    /\ CatalogueInit
    /\ cache = [k \in Keys |-> NoEntry]
    /\ readers = [r \in Readers |-> NoReader]
    /\ offered = {}

\* The cache has no answer; for the packages of a game the game is read first.
Lookup(r, k) ==
    /\ readers[r].pc = "idle"
    /\ cache[k] = NoEntry
    /\ k.what = "packages" => GameOnSale(k.of)
    /\ readers' = [readers EXCEPT ![r] = [pc |-> "found", key |-> k, rows |-> {}]]
    /\ UNCHANGED <<catalogueVars, cache, offered>>

\* The first page, of the default length, of a category's games has the key of
\* the whole list: either may be the answer.
Answers(k) ==
    {Rows(k)} \cup
    (IF k.what = "games" THEN {rows \in SUBSET GameRows : Cardinality(rows) = PageSize} ELSE {})

\* A package that is not for sale is refused and not cached.
Fetch(r) ==
    LET k == readers[r].key
    IN  /\ readers[r].pc = "found"
        /\ \E rows \in Answers(k) :
              /\ k.what = "package" => rows # {}
              /\ readers' = [readers EXCEPT ![r].pc = "fetched", ![r].rows = rows]
        /\ UNCHANGED <<catalogueVars, cache, offered>>

Store(r) ==
    /\ readers[r].pc = "fetched"
    /\ cache' = [cache EXCEPT ![readers[r].key] = readers[r].rows]
    /\ readers' = [readers EXCEPT ![r] = NoReader]
    /\ UNCHANGED <<catalogueVars, offered>>

\* A refusal, or an error of the database or of the cache.
Abandon(r) ==
    /\ readers[r].pc # "idle"
    /\ readers' = [readers EXCEPT ![r] = NoReader]
    /\ UNCHANGED <<catalogueVars, cache, offered>>

\* Mistake: the answer about one package is cached for ever.
ExpireLists(k) ==
    /\ cache[k] # NoEntry
    /\ k.what # "package"
    /\ cache' = [cache EXCEPT ![k] = NoEntry]
    /\ UNCHANGED <<catalogueVars, readers, offered>>

\* The time to live of an answer is over.
Expire(k) ==
    /\ cache[k] # NoEntry
    /\ cache' = [cache EXCEPT ![k] = NoEntry]
    /\ UNCHANGED <<catalogueVars, readers, offered>>

Administer ==
    /\ CatalogueNext
    /\ offered' = offered \cup OnSale'
    /\ UNCHANGED <<cache, readers>>

Next ==
    \/ Administer
    \/ \E r \in Readers :
          \/ \E k \in Keys : Lookup(r, k)
          \/ Fetch(r)
          \/ Store(r)
          \/ Abandon(r)
    \/ \E k \in Keys : Expire(k)

Spec == Init /\ [][Next]_vars

\* A time to live always ends.
FairSpec == Spec /\ \A k \in Keys : WF_vars(Expire(k))

-----------------------------------------------------------------------------
(* Properties                                                              *)

\* Every row of an answer, cached or about to be, was for sale at that price.
ShownWasOnSale ==
    /\ \A k \in Keys : cache[k] # NoEntry => cache[k] \subseteq offered
    /\ \A r \in Readers : readers[r].rows \subseteq offered

\* When administrators stop, answers that are no longer true stop too, although
\* nobody invalidates them and a slow reader may store an old one late.
CacheSettles == <>[](\A k \in Keys : cache[k] # NoEntry => cache[k] \subseteq Rows(k))
=============================================================================
