-------------------------------- MODULE Files -------------------------------
(***************************************************************************)
(* Files: CategoryService with the logos it keeps in the cloud, and the    *)
(* images of games and packages (cloudService is the client of the cloud). *)
(*                                                                         *)
(* A handler waits for the database and for the cloud between its steps,   *)
(* and nothing it did is undone when a later step fails: a file can be     *)
(* lost while a document still shows it, or kept though nothing does.      *)
(***************************************************************************)
EXTENDS FiniteSets

CONSTANTS
    Categories,
    Items,       \* games and packages
    CloudFiles,  \* identities of files; each is created once
    Names,
    LongNames,   \* names the request may give and the schema refuses
    Slots,       \* requests in flight at once
    None

ASSUME FilesAssumption ==
    /\ LongNames \subseteq Names
    /\ None \notin Categories \cup Items \cup CloudFiles \cup Names
    /\ Categories \cap Items = {}

VARIABLES
    categories,  \* the categories collection
    images,      \* the image of each game and package
    cloud,       \* the files in the bucket
    used,        \* the identities given to files so far
    reqs,        \* the handler running in each slot
    torn,        \* history: categories whose logo a failure or an old copy spoiled
    leaked       \* history: files nothing will ever remove

vars == <<categories, images, cloud, used, reqs, torn, leaked>>

-----------------------------------------------------------------------------
(* State                                                                   *)

Category == [stored : BOOLEAN, name : Names \cup {None}, logo : CloudFiles \cup {None}]

NoCategory == [stored |-> FALSE, name |-> None, logo |-> None]

\* old: the logo or image that was read; new: the file uploaded since.
Request == [pc : {"idle", "create", "upload", "destroy", "write", "remove", "image", "attach"},
            of : Categories \cup Items \cup {None}, name : Names \cup {None},
            old : CloudFiles \cup {None}, new : CloudFiles \cup {None}]

Idle == [pc |-> "idle", of |-> None, name |-> None, old |-> None, new |-> None]

TypeOK ==
    /\ categories \in [Categories -> Category]
    /\ \A c \in Categories : categories[c].stored = (categories[c].logo # None)
    /\ images \in [Items -> CloudFiles \cup {None}]
    /\ cloud \subseteq used /\ used \subseteq CloudFiles
    /\ reqs \in [Slots -> Request]
    /\ torn \subseteq Categories /\ leaked \subseteq CloudFiles

Init ==
    /\ categories = [c \in Categories |-> NoCategory]
    /\ images = [i \in Items |-> None]
    /\ cloud = {} /\ used = {}
    /\ reqs = [s \in Slots |-> Idle]
    /\ torn = {} /\ leaked = {}

NameTaken(name, c) == \E d \in Categories \ {c} : categories[d].stored /\ categories[d].name = name

UploadFile(f) ==
    /\ f \notin used
    /\ used' = used \cup {f}
    /\ cloud' = cloud \cup {f}

Enter(s, pc, o, name, old) ==
    /\ reqs[s].pc = "idle"
    /\ reqs' = [reqs EXCEPT ![s] =
                   [pc |-> pc, of |-> o, name |-> name, old |-> old, new |-> None]]

End(s) == reqs' = [reqs EXCEPT ![s] = Idle]

-----------------------------------------------------------------------------
(* creat                                                                   *)

\* The name is looked for before the upload; there is no unique index.  c is a
\* new identity: nothing in flight has read it.
Creat(s, c, name) ==
    /\ ~categories[c].stored
    /\ \A t \in Slots : reqs[t].of # c
    /\ ~NameTaken(name, c)
    /\ Enter(s, "upload", c, name, None)
    /\ torn' = torn \ {c}
    /\ UNCHANGED <<categories, images, cloud, used, leaked>>

CreatUpload(s, f) ==
    /\ reqs[s].pc = "upload" /\ reqs[s].old = None
    /\ UploadFile(f)
    /\ reqs' = [reqs EXCEPT ![s].pc = "create", ![s].new = f]
    /\ UNCHANGED <<categories, images, torn, leaked>>

\* The schema refuses a name longer than 50, which the request may be.
CreatCategory(s) ==
    LET r == reqs[s]
    IN  /\ r.pc = "create"
        /\ IF r.name \in LongNames
           THEN /\ leaked' = leaked \cup {r.new}
                /\ UNCHANGED categories
           ELSE /\ categories' = [categories EXCEPT ![r.of] =
                                     [stored |-> TRUE, name |-> r.name, logo |-> r.new]]
                /\ UNCHANGED leaked
        /\ End(s)
        /\ UNCHANGED <<images, cloud, used, torn>>

-----------------------------------------------------------------------------
(* update                                                                  *)

\* name: None when the body gives none.
Update(s, c, name, file) ==
    /\ categories[c].stored
    /\ name # None => ~NameTaken(name, c)
    /\ Enter(s, IF file THEN "upload" ELSE "write", c, name, categories[c].logo)
    /\ UNCHANGED <<categories, images, cloud, used, torn, leaked>>

UpdateUpload(s, f) ==
    /\ reqs[s].pc = "upload" /\ reqs[s].old # None
    /\ UploadFile(f)
    /\ reqs' = [reqs EXCEPT ![s].pc = "destroy", ![s].new = f]
    /\ UNCHANGED <<categories, images, torn, leaked>>

\* Mistake: the logo that was replaced is left in the cloud.
UpdateKeepOld(s) ==
    /\ reqs[s].pc = "destroy"
    /\ reqs' = [reqs EXCEPT ![s].pc = "write"]
    /\ UNCHANGED <<categories, images, cloud, used, torn, leaked>>

\* The logo that was read is destroyed; destroying it twice throws.
UpdateDestroy(s) ==
    /\ reqs[s].pc = "destroy" /\ reqs[s].old \in cloud
    /\ cloud' = cloud \ {reqs[s].old}
    /\ reqs' = [reqs EXCEPT ![s].pc = "write"]
    /\ UNCHANGED <<categories, images, used, torn, leaked>>

\* Mistake: the copy's logo is not replaced by the new one.
OldLogo(r) == r.old

LogoToWrite(r) == IF r.new = None THEN r.old ELSE r.new

\* The logo is written even when there is no new one.  A category deleted
\* meanwhile is not found and the request succeeds.
UpdateWrite(s) ==
    LET r == reqs[s]
        c == r.of
        logo == LogoToWrite(r)
        current == categories[c].logo
    IN  /\ r.pc = "write"
        /\ IF categories[c].stored
           THEN categories' = [categories EXCEPT
                    ![c].name = IF r.name = None THEN @ ELSE r.name, ![c].logo = logo]
           ELSE UNCHANGED categories
        /\ torn' = IF categories[c].stored /\ current # r.old THEN torn \cup {c} ELSE torn
        /\ leaked' = leaked
              \cup (IF categories[c].stored /\ current \notin {r.old, logo}
                    THEN {current} ELSE {})
              \cup (IF categories[c].stored THEN {} ELSE {r.new} \ {None})
        /\ End(s)
        /\ UNCHANGED <<images, cloud, used>>

-----------------------------------------------------------------------------
(* deleteCategory                                                          *)

\* Mistake: the logo is not destroyed.
DeleteCategoryKeepLogo(s, c) ==
    /\ categories[c].stored /\ categories[c].logo \in cloud
    /\ Enter(s, "remove", c, None, categories[c].logo)
    /\ UNCHANGED <<categories, images, cloud, used, torn, leaked>>

\* The read and the destroy are one step: what could come between them and
\* matter is another destroy of the same logo, and then this one throws.
DeleteCategory(s, c) ==
    /\ categories[c].stored /\ categories[c].logo \in cloud
    /\ Enter(s, "remove", c, None, categories[c].logo)
    /\ cloud' = cloud \ {categories[c].logo}
    /\ UNCHANGED <<categories, images, used, torn, leaked>>

DeleteCategoryRemove(s) ==
    LET c == reqs[s].of
    IN  /\ reqs[s].pc = "remove"
        /\ categories' = [categories EXCEPT ![c] = NoCategory]
        /\ leaked' = IF categories[c].stored /\ categories[c].logo # reqs[s].old
                     THEN leaked \cup {categories[c].logo} ELSE leaked
        /\ End(s)
        /\ UNCHANGED <<images, cloud, used, torn>>
-----------------------------------------------------------------------------
(* uploadGameImage and uploadPackageImage                                  *)

UploadImage(s, i) ==
    /\ Enter(s, "image", i, None, images[i])
    /\ UNCHANGED <<categories, images, cloud, used, torn, leaked>>

ImageUpload(s, f) ==
    /\ reqs[s].pc = "image"
    /\ UploadFile(f)
    /\ reqs' = [reqs EXCEPT ![s].pc = "attach", ![s].new = f]
    /\ UNCHANGED <<categories, images, torn, leaked>>

\* The cloud names every upload anew, so the earlier image stays there.
Attach(s) ==
    LET i == reqs[s].of
    IN  /\ reqs[s].pc = "attach"
        /\ images' = [images EXCEPT ![i] = reqs[s].new]
        /\ leaked' = leaked \cup ({images[i]} \ {None})
        /\ End(s)
        /\ UNCHANGED <<categories, cloud, used, torn>>

\* The database or the cloud throws, or the server stops.
Fail(s) ==
    LET r == reqs[s]
    IN  /\ r.pc # "idle"
        /\ leaked' = leaked \cup ({r.new} \ {None})
        /\ torn' = IF r.pc = "remove" \/ (r.pc = "write" /\ r.new # None)
                   THEN torn \cup {r.of} ELSE torn
        /\ End(s)
        /\ UNCHANGED <<categories, images, cloud, used>>

Next ==
    \E s \in Slots :
       \/ \E c \in Categories :
             \/ \E name \in Names : Creat(s, c, name)
             \/ \E name \in Names \cup {None}, file \in BOOLEAN : Update(s, c, name, file)
             \/ DeleteCategory(s, c)
       \/ \E i \in Items : UploadImage(s, i)
       \/ \E f \in CloudFiles : CreatUpload(s, f) \/ UpdateUpload(s, f) \/ ImageUpload(s, f)
       \/ CreatCategory(s)
       \/ UpdateDestroy(s)
       \/ UpdateWrite(s)
       \/ DeleteCategoryRemove(s)
       \/ Attach(s)
       \/ Fail(s)

Spec == Init /\ [][Next]_vars

-----------------------------------------------------------------------------
(* Properties                                                              *)

\* The handler of slot s destroyed the logo of c and has still to say so.
Replacing(s, c) ==
    /\ reqs[s].of = c
    /\ reqs[s].pc = "remove" \/ (reqs[s].pc = "write" /\ reqs[s].new # None)

\* A category's logo can be shown, but for the moment its handler replaces it,
\* and for a category spoiled by a handler that failed in that moment or that
\* wrote back a logo replaced since it was read.
LogoShown ==
    \A c \in Categories :
        categories[c].stored /\ categories[c].logo \notin cloud =>
            c \in torn \/ \E s \in Slots : Replacing(s, c)

\* Every file in the cloud is shown by a document, is about to be, or was left
\* by a failure, by an overlap or by the replacement of an image: requests that
\* change categories one after the other leave none.
FilesAccounted ==
    \A f \in cloud :
        \/ \E c \in Categories : categories[c].logo = f
        \/ \E i \in Items : images[i] = f
        \/ \E s \in Slots : reqs[s].new = f
        \/ f \in leaked

\* A category is removed after its logo, whatever updates overlap the deletion:
\* two handlers cannot both destroy a logo.
RemovedAfterLogo ==
    [][\A c \in Categories :
          categories[c].stored /\ ~categories'[c].stored => categories[c].logo \notin cloud]_vars
=============================================================================
