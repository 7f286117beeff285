----------------------------- MODULE FilesProofs ----------------------------
(***************************************************************************)
(* Proofs about Files, for every number of categories, items, files and    *)
(* requests.                                                               *)
(*                                                                         *)
(* The argument: of all the files that a category shows or that a request  *)
(* has read as its logo, at most one is in the cloud, and none while a     *)
(* handler that has destroyed one has still to say so.  Destroying a file  *)
(* takes that right, since destroying it twice throws.                     *)
(***************************************************************************)
EXTENDS Files, TLAPS

-----------------------------------------------------------------------------
(* Types                                                                   *)

\* What a handler relies on without looking at each of its steps.
Shaped(r) ==
    /\ r.pc = "idle" => r = Idle
    /\ r.pc \in {"create", "upload", "destroy", "write", "remove"} => r.of \in Categories
    /\ r.pc \in {"image", "attach"} => r.of \in Items
    /\ r.pc \in {"create", "destroy", "attach"} => r.new # None
    /\ r.pc \in {"upload", "image", "remove"} => r.new = None
    /\ r.pc \in {"destroy", "write", "remove"} => r.old # None
    /\ r.pc = "create" => r.old = None /\ r.name # None
    /\ r.pc = "upload" /\ r.old = None => r.name # None

TInv == TypeOK /\ \A s \in Slots : Shaped(reqs[s])

\* A slot gets a new request; the others stay.
LEMMA SlotTyped ==
    ASSUME TInv, NEW s \in Slots, NEW r \in Request, Shaped(r), reqs' = [reqs EXCEPT ![s] = r]
    PROVE  /\ reqs' \in [Slots -> Request]
           /\ \A t \in Slots : Shaped(reqs'[t])
           /\ reqs'[s] = r
           /\ \A t \in Slots : t # s => reqs'[t] = reqs[t]
  BY DEF TInv, TypeOK

LEMMA IdleTyped == Idle \in Request /\ Shaped(Idle)
  BY DEF Idle, Request, Shaped

\* A slot that becomes free.
LEMMA EndTyped ==
    ASSUME TInv, NEW s \in Slots, End(s)
    PROVE  /\ reqs' \in [Slots -> Request]
           /\ \A t \in Slots : Shaped(reqs'[t])
           /\ reqs'[s] = Idle
           /\ \A t \in Slots : t # s => reqs'[t] = reqs[t]
  BY IdleTyped, SlotTyped DEF End

\* A request that comes in.
LEMMA EnterTyped ==
    ASSUME TInv, NEW s \in Slots, NEW pc, NEW o, NEW name, NEW old,
           Enter(s, pc, o, name, old),
           pc \in {"upload", "write", "remove", "image"},
           pc \in {"upload", "write", "remove"} => o \in Categories,
           pc = "image" => o \in Items,
           name \in Names \cup {None}, old \in CloudFiles \cup {None},
           pc \in {"write", "remove"} => old # None,
           pc = "upload" /\ old = None => name # None
    PROVE  LET r == [pc |-> pc, of |-> o, name |-> name, old |-> old, new |-> None]
           IN  /\ reqs' \in [Slots -> Request]
               /\ \A t \in Slots : Shaped(reqs'[t])
               /\ reqs'[s] = r
               /\ \A t \in Slots : t # s => reqs'[t] = reqs[t]
<1> DEFINE r == [pc |-> pc, of |-> o, name |-> name, old |-> old, new |-> None]
<1>1. r \in Request /\ Shaped(r)
  BY DEF Request, Shaped
<1>2. reqs' = [reqs EXCEPT ![s] = r]
  BY DEF Enter
<1> HIDE DEF r
<1>3. /\ reqs' \in [Slots -> Request]
      /\ \A t \in Slots : Shaped(reqs'[t])
      /\ reqs'[s] = r
      /\ \A t \in Slots : t # s => reqs'[t] = reqs[t]
  BY <1>1, <1>2, SlotTyped
<1> QED
  BY <1>3 DEF r

\* A request whose file has been uploaded.
LEMMA UploadedTyped ==
    ASSUME TInv, NEW s \in Slots, NEW f \in CloudFiles,
           CreatUpload(s, f) \/ UpdateUpload(s, f) \/ ImageUpload(s, f)
    PROVE  /\ reqs' \in [Slots -> Request]
           /\ \A t \in Slots : Shaped(reqs'[t])
           /\ \/ reqs'[s].pc = "create" /\ reqs[s].pc = "upload" /\ reqs[s].old = None
              \/ reqs'[s].pc = "destroy" /\ reqs[s].pc = "upload" /\ reqs[s].old # None
              \/ reqs'[s].pc = "attach" /\ reqs[s].pc = "image"
           /\ reqs'[s].new = f /\ reqs'[s].of = reqs[s].of /\ reqs'[s].old = reqs[s].old
           /\ \A t \in Slots : t # s => reqs'[t] = reqs[t]
<1>1. PICK pc :
          /\ reqs' = [reqs EXCEPT ![s].pc = pc, ![s].new = f]
          /\ \/ pc = "create" /\ reqs[s].pc = "upload" /\ reqs[s].old = None
             \/ pc = "destroy" /\ reqs[s].pc = "upload" /\ reqs[s].old # None
             \/ pc = "attach" /\ reqs[s].pc = "image"
  BY DEF CreatUpload, UpdateUpload, ImageUpload
<1> DEFINE r == [reqs[s] EXCEPT !.pc = pc, !.new = f]
<1>2. reqs[s] \in Request /\ Shaped(reqs[s])
  BY DEF TInv, TypeOK
<1>3. r \in Request
  BY <1>1, <1>2 DEF Request
<1>4. /\ r.pc = pc /\ r.new = f /\ r.of = reqs[s].of /\ r.old = reqs[s].old
      /\ r.name = reqs[s].name
  BY <1>2 DEF Request
<1>5. reqs' = [reqs EXCEPT ![s] = r]
  BY <1>1, <1>2 DEF TInv, TypeOK
<1> HIDE DEF r
<1>6. Shaped(r)
  BY <1>1, <1>2, <1>4, FilesAssumption DEF Shaped
<1> QED
  BY <1>1, <1>3, <1>4, <1>5, <1>6, SlotTyped

\* The request whose old logo has been destroyed.
LEMMA DestroyedTyped ==
    ASSUME TInv, NEW s \in Slots, UpdateDestroy(s)
    PROVE  /\ reqs' \in [Slots -> Request]
           /\ \A t \in Slots : Shaped(reqs'[t])
           /\ reqs'[s].pc = "write" /\ reqs'[s].new = reqs[s].new /\ reqs[s].new # None
           /\ reqs'[s].of = reqs[s].of /\ reqs'[s].old = reqs[s].old
           /\ \A t \in Slots : t # s => reqs'[t] = reqs[t]
<1> DEFINE r == [reqs[s] EXCEPT !.pc = "write"]
<1>1. reqs[s] \in Request /\ Shaped(reqs[s]) /\ reqs[s].pc = "destroy"
  BY DEF TInv, TypeOK, UpdateDestroy
<1>2. r \in Request
  BY <1>1 DEF Request
<1>3. /\ r.pc = "write" /\ r.new = reqs[s].new /\ r.of = reqs[s].of /\ r.old = reqs[s].old
      /\ r.name = reqs[s].name
  BY <1>1 DEF Request
<1>4. reqs' = [reqs EXCEPT ![s] = r]
  BY <1>1 DEF TInv, TypeOK, UpdateDestroy
<1> HIDE DEF r
<1>5. Shaped(r)
  BY <1>1, <1>3 DEF Shaped
<1> QED
  BY <1>1, <1>2, <1>3, <1>4, <1>5, SlotTyped DEF Shaped

LEMMA TypeInit == Init => TInv
<1> SUFFICES ASSUME Init PROVE TInv
  OBVIOUS
<1>1. NoCategory \in Category /\ NoCategory.stored = (NoCategory.logo # None)
  BY DEF NoCategory, Category
<1>2. /\ categories \in [Categories -> Category]
      /\ \A c \in Categories : categories[c] = NoCategory
  BY <1>1 DEF Init
<1>3. \A c \in Categories : categories[c].stored = (categories[c].logo # None)
  BY <1>1, <1>2
<1>4. images \in [Items -> CloudFiles \cup {None}] /\ cloud \subseteq used /\ used \subseteq CloudFiles
  BY DEF Init
<1>5. reqs \in [Slots -> Request] /\ \A s \in Slots : Shaped(reqs[s])
  BY IdleTyped DEF Init
<1> QED
  BY <1>2, <1>3, <1>4, <1>5 DEF Init, TInv, TypeOK

LEMMA TypeStep == TInv /\ [Next]_vars => TInv'
<1> SUFFICES ASSUME TInv, [Next]_vars PROVE TInv'
  OBVIOUS
<1> USE DEF TInv
<1>1. CASE UNCHANGED vars
  BY <1>1 DEF vars, TypeOK
<1>2. ASSUME NEW s \in Slots, NEW c \in Categories, NEW name \in Names, Creat(s, c, name)
      PROVE  TInv'
  BY <1>2, EnterTyped, FilesAssumption DEF Creat, TypeOK
<1>3. ASSUME NEW s \in Slots, NEW c \in Categories, NEW name \in Names \cup {None},
             NEW file \in BOOLEAN, Update(s, c, name, file)
      PROVE  TInv'
  <2> DEFINE pc == IF file THEN "upload" ELSE "write"
  <2>1. /\ categories[c].logo \in CloudFiles \cup {None} /\ categories[c].logo # None
        /\ pc \in {"upload", "write"}
    BY <1>3 DEF Update, TypeOK, Category
  <2>2. Enter(s, pc, c, name, categories[c].logo)
    BY <1>3 DEF Update
  <2> HIDE DEF pc
  <2> QED
    BY <1>3, <2>1, <2>2, EnterTyped DEF Update, TypeOK
<1>4. ASSUME NEW s \in Slots, NEW c \in Categories, DeleteCategory(s, c) PROVE TInv'
  <2>1. /\ categories[c].logo \in CloudFiles \cup {None} /\ categories[c].logo # None
    BY <1>4 DEF DeleteCategory, TypeOK, Category
  <2> QED
    BY <1>4, <2>1, EnterTyped DEF DeleteCategory, TypeOK
<1>5. ASSUME NEW s \in Slots, NEW i \in Items, UploadImage(s, i) PROVE TInv'
  BY <1>5, EnterTyped DEF UploadImage, TypeOK
<1>6. ASSUME NEW s \in Slots, NEW f \in CloudFiles,
             CreatUpload(s, f) \/ UpdateUpload(s, f) \/ ImageUpload(s, f)
      PROVE  TInv'
  <2>1. reqs' \in [Slots -> Request] /\ \A t \in Slots : Shaped(reqs'[t])
    BY <1>6, UploadedTyped
  <2> QED
    BY <1>6, <2>1 DEF CreatUpload, UpdateUpload, ImageUpload, UploadFile, TypeOK
<1>7. ASSUME NEW s \in Slots, CreatCategory(s) PROVE TInv'
  <2>1. /\ reqs[s].of \in Categories /\ reqs[s].new \in CloudFiles
        /\ reqs[s].name \in Names
    BY <1>7 DEF CreatCategory, TypeOK, Request, Shaped
  <2>2. [stored |-> TRUE, name |-> reqs[s].name, logo |-> reqs[s].new] \in Category
    BY <2>1 DEF Category
  <2>3. /\ categories' \in [Categories -> Category]
        /\ \A c \in Categories : categories'[c].stored = (categories'[c].logo # None)
    <3>1. CASE UNCHANGED categories
      BY <3>1 DEF TypeOK
    <3>2. CASE categories' = [categories EXCEPT ![reqs[s].of] =
                  [stored |-> TRUE, name |-> reqs[s].name, logo |-> reqs[s].new]]
      BY <2>1, <2>2, <3>2, FilesAssumption DEF TypeOK
    <3> QED
      BY <1>7, <3>1, <3>2 DEF CreatCategory
  <2>4. leaked' \subseteq CloudFiles
    BY <1>7, <2>1 DEF CreatCategory, TypeOK
  <2> QED
    BY <1>7, <2>3, <2>4, EndTyped DEF CreatCategory, TypeOK
<1>8. ASSUME NEW s \in Slots, UpdateDestroy(s) PROVE TInv'
  BY <1>8, DestroyedTyped DEF UpdateDestroy, TypeOK
<1>9. ASSUME NEW s \in Slots, UpdateWrite(s) PROVE TInv'
  <2> DEFINE r == reqs[s]
             c == r.of
             new == [categories[c] EXCEPT !.name = IF r.name = None THEN @ ELSE r.name,
                                          !.logo = LogoToWrite(r)]
  <2>1. /\ c \in Categories /\ categories[c] \in Category /\ r.name \in Names \cup {None}
        /\ r.old \in CloudFiles /\ r.new \in CloudFiles \cup {None}
    BY <1>9 DEF UpdateWrite, TypeOK, Request, Shaped
  <2>2. LogoToWrite(r) \in CloudFiles
    BY <2>1 DEF LogoToWrite
  <2>3. new \in Category /\ new.logo # None /\ new.stored = categories[c].stored
    BY <2>1, <2>2, FilesAssumption DEF Category
  <2>4. /\ categories' \in [Categories -> Category]
        /\ \A d \in Categories : categories'[d].stored = (categories'[d].logo # None)
    <3>1. CASE UNCHANGED categories
      BY <3>1 DEF TypeOK
    <3>2. CASE categories[c].stored /\ categories' = [categories EXCEPT ![c] = new]
      <4> HIDE DEF new, c
      <4> QED
        BY <2>1, <2>3, <3>2, FilesAssumption DEF TypeOK
    <3>3. UNCHANGED categories
          \/ (categories[c].stored /\ categories' = [categories EXCEPT ![c] = new])
      BY <1>9, <2>1 DEF UpdateWrite, TypeOK
    <3> QED
      BY <3>1, <3>2, <3>3
  <2>5. leaked' \subseteq CloudFiles /\ torn' \subseteq Categories
    BY <1>9, <2>1, <2>2, FilesAssumption DEF UpdateWrite, TypeOK, Category
  <2> QED
    BY <1>9, <2>4, <2>5, EndTyped DEF UpdateWrite, TypeOK
<1>10. ASSUME NEW s \in Slots, DeleteCategoryRemove(s) PROVE TInv'
  <2>1. reqs[s].of \in Categories
    BY <1>10 DEF DeleteCategoryRemove, Shaped
  <2>2. categories[reqs[s].of].stored => categories[reqs[s].of].logo \in CloudFiles
    BY <2>1 DEF TypeOK, Category
  <2>3. NoCategory \in Category /\ NoCategory.stored = (NoCategory.logo # None)
    BY DEF NoCategory, Category
  <2> QED
    BY <1>10, <2>1, <2>2, <2>3, EndTyped DEF DeleteCategoryRemove, TypeOK
<1>11. ASSUME NEW s \in Slots, Attach(s) PROVE TInv'
  <2>1. reqs[s].of \in Items /\ reqs[s].new \in CloudFiles
    BY <1>11 DEF Attach, TypeOK, Request, Shaped
  <2> QED
    BY <1>11, <2>1, EndTyped DEF Attach, TypeOK
<1>12. ASSUME NEW s \in Slots, Fail(s) PROVE TInv'
  <2>1. /\ reqs[s].new \in CloudFiles \cup {None}
        /\ reqs[s].pc \in {"remove", "write"} => reqs[s].of \in Categories
    BY <1>12 DEF TypeOK, Request, Shaped
  <2> QED
    BY <1>12, <2>1, EndTyped DEF Fail, TypeOK
<1> QED
  BY <1>1, <1>2, <1>3, <1>4, <1>5, <1>6, <1>7, <1>8, <1>9, <1>10, <1>11, <1>12 DEF Next

\* A category has a logo exactly when it is stored; the other fields keep their
\* ranges, and the cloud holds only files that were uploaded.
THEOREM TypeInvariant == Spec => []TypeOK
<1>1. TInv => TypeOK
  BY DEF TInv
<1> QED
  BY <1>1, TypeInit, TypeStep, PTL DEF Spec

-----------------------------------------------------------------------------
(* The files                                                               *)

\* f is c's logo, or was when a request read it.
Known(c, f) ==
    \/ categories[c].logo = f
    \/ \E t \in Slots : reqs[t].of = c /\ reqs[t].old = f

KnownSound ==
    \A c \in Categories, f \in CloudFiles : Known(c, f) =>
        /\ f \in used
        /\ \A d \in Categories : Known(d, f) => d = c

\* At most one file known of a category is in the cloud, and none while a
\* handler replaces its logo.
Single ==
    \A c \in Categories :
        /\ \A f, g \in cloud : Known(c, f) /\ Known(c, g) => f = g
        /\ \A s \in Slots : Replacing(s, c) =>
               /\ \A f \in cloud : ~Known(c, f)
               /\ \A t \in Slots : Replacing(t, c) => t = s

\* A file just uploaded is in the cloud, and only its request knows it.
NewSound ==
    \A s \in Slots, f \in CloudFiles : reqs[s].new = f =>
        /\ f \in cloud
        /\ \A c \in Categories : ~Known(c, f)
        /\ \A t \in Slots : reqs[t].new = f => t = s

\* A category under creation is not stored, and no other request has read it.
CreatingSound ==
    \A s \in Slots :
        reqs[s].pc = "create" \/ (reqs[s].pc = "upload" /\ reqs[s].old = None) =>
            /\ ~categories[reqs[s].of].stored
            /\ \A t \in Slots : reqs[t].of = reqs[s].of => t = s

FileInv == KnownSound /\ Single /\ NewSound /\ CreatingSound /\ LogoShown /\ FilesAccounted

\* A step that lets no category know more files and makes no handler replace.
LEMMA KnownKept ==
    ASSUME TInv, FileInv,
           \A c \in Categories, f \in CloudFiles : Known(c, f)' => Known(c, f),
           used \subseteq used', used' \subseteq CloudFiles,
           cloud' \subseteq used', cloud' \cap used \subseteq cloud,
           \A s \in Slots, c \in Categories : Replacing(s, c)' => Replacing(s, c)
    PROVE  KnownSound' /\ Single'
<1>1. KnownSound'
  BY DEF FileInv, KnownSound
<1>2. ASSUME NEW c \in Categories, NEW f \in cloud', Known(c, f)'
      PROVE  f \in CloudFiles /\ f \in cloud /\ Known(c, f)
  BY <1>2 DEF FileInv, KnownSound
<1>3. Single'
  BY <1>2 DEF FileInv, Single
<1> QED
  BY <1>1, <1>3

\* A handler destroys a file of its category: it was the last one there.
LEMMA KnownTaken ==
    ASSUME TInv, FileInv, NEW s0 \in Slots, NEW c0 \in Categories, NEW f0 \in cloud,
           Known(c0, f0), cloud' = cloud \ {f0}, used' = used,
           \A c \in Categories, f \in CloudFiles : Known(c, f)' => Known(c, f),
           \A s \in Slots, c \in Categories :
               Replacing(s, c)' => Replacing(s, c) \/ (s = s0 /\ c = c0)
    PROVE  KnownSound' /\ Single'
<1>1. KnownSound'
  BY DEF FileInv, KnownSound
<1>2. \A f \in cloud : Known(c0, f) => f = f0
  BY DEF FileInv, Single
<1>3. \A s \in Slots : ~Replacing(s, c0)
  BY DEF FileInv, Single
<1>4. ASSUME NEW c \in Categories, NEW f \in cloud', Known(c, f)'
      PROVE  f \in cloud /\ Known(c, f) /\ c # c0
  BY <1>2, <1>4 DEF TInv, TypeOK
<1>5. ASSUME NEW c \in Categories, NEW s \in Slots, Replacing(s, c)'
      PROVE  /\ \A f \in cloud' : ~Known(c, f)'
             /\ \A t \in Slots : Replacing(t, c)' => t = s
  BY <1>3, <1>4, <1>5 DEF FileInv, Single
<1>6. Single'
  BY <1>4, <1>5 DEF FileInv, Single
<1> QED
  BY <1>1, <1>6

\* No file is uploaded; a request may end and hand over its file.
LEMMA NewKept ==
    ASSUME TInv, FileInv, NEW s0 \in Slots,
           \A s \in Slots : reqs'[s].new \in {None, reqs[s].new},
           \A c \in Categories, f \in CloudFiles :
               Known(c, f)' => Known(c, f) \/ (f = reqs[s0].new /\ reqs'[s0].new = None),
           \A f \in cloud \ cloud' : \E c \in Categories : Known(c, f)
    PROVE  NewSound'
<1> SUFFICES ASSUME NEW s \in Slots, NEW f \in CloudFiles, reqs'[s].new = f
             PROVE  /\ f \in cloud'
                    /\ \A c \in Categories : ~Known(c, f)'
                    /\ \A t \in Slots : reqs'[t].new = f => t = s
  BY DEF NewSound
<1>1. reqs[s].new = f /\ \A t \in Slots : reqs'[t].new = f => reqs[t].new = f
  BY FilesAssumption
<1>2. /\ f \in cloud
      /\ \A c \in Categories : ~Known(c, f)
      /\ \A t \in Slots : reqs[t].new = f => t = s
  BY <1>1 DEF FileInv, NewSound
<1>3. ASSUME NEW c \in Categories, Known(c, f)' PROVE FALSE
  BY <1>1, <1>2, <1>3, FilesAssumption
<1> QED
  BY <1>1, <1>2, <1>3

\* No category begins to be created, and requests come only to stored ones.
LEMMA CreatingKept ==
    ASSUME TInv, FileInv,
           \A s \in Slots :
               \/ reqs'[s].pc = "create"
               \/ reqs'[s].pc = "upload" /\ reqs'[s].old = None
               => /\ reqs[s].pc = "create" \/ (reqs[s].pc = "upload" /\ reqs[s].old = None)
                  /\ reqs'[s].of = reqs[s].of,
           \A c \in Categories : categories'[c].stored =>
               categories[c].stored \/ \A t \in Slots : reqs'[t].of # c,
           \A t \in Slots : reqs'[t].of # reqs[t].of /\ reqs'[t].of \in Categories =>
               categories[reqs'[t].of].stored
    PROVE  CreatingSound'
<1> SUFFICES ASSUME NEW s \in Slots,
                    reqs'[s].pc = "create" \/ (reqs'[s].pc = "upload" /\ reqs'[s].old = None)
             PROVE  /\ ~categories'[reqs'[s].of].stored
                    /\ \A t \in Slots : reqs'[t].of = reqs'[s].of => t = s
  BY DEF CreatingSound
<1>1. /\ reqs[s].pc = "create" \/ (reqs[s].pc = "upload" /\ reqs[s].old = None)
      /\ reqs'[s].of = reqs[s].of
  OBVIOUS
<1>2. reqs[s].of \in Categories
  BY <1>1 DEF TInv, Shaped
<1>3. /\ ~categories[reqs[s].of].stored
      /\ \A t \in Slots : reqs[t].of = reqs[s].of => t = s
  BY <1>1 DEF FileInv, CreatingSound
<1> QED
  BY <1>1, <1>2, <1>3

\* What is known changes only by what the request of a slot has read.
LEMMA KnownRead ==
    ASSUME TInv, NEW s \in Slots, UNCHANGED categories,
           \A t \in Slots : t # s => reqs'[t] = reqs[t],
           \/ reqs'[s].of \notin Categories
           \/ reqs'[s].old = None
           \/ reqs'[s].old = categories[reqs'[s].of].logo
           \/ reqs'[s].of = reqs[s].of /\ reqs'[s].old = reqs[s].old
    PROVE  \A c \in Categories, f \in CloudFiles : Known(c, f)' => Known(c, f)
<1> SUFFICES ASSUME NEW c \in Categories, NEW f \in CloudFiles, NEW t \in Slots,
                    reqs'[t].of = c, reqs'[t].old = f
             PROVE  Known(c, f)
  BY DEF Known
<1> QED
  BY FilesAssumption DEF Known

LEMMA FileInit == Init => FileInv
  BY FilesAssumption DEF Init, FileInv, KnownSound, Single, NewSound, CreatingSound, LogoShown,
     FilesAccounted, Known, NoCategory, Idle, Replacing

\* A request comes in and destroys nothing.
LEMMA EnterFiles ==
    ASSUME TInv, FileInv, NEW s \in Slots, NEW pc \in {"upload", "write", "image"},
           NEW o, NEW name \in Names \cup {None}, NEW old \in CloudFiles \cup {None},
           Enter(s, pc, o, name, old), UNCHANGED <<categories, images, cloud, used, leaked>>,
           pc \in {"upload", "write"} => o \in Categories,
           pc = "image" => o \in Items,
           pc = "write" => old # None, pc = "upload" /\ old = None => name # None,
           old = None \/ o \in Items \/ old = categories[o].logo,
           \A c \in torn \ torn' : ~categories[c].stored
    PROVE  KnownSound' /\ Single' /\ NewSound' /\ LogoShown' /\ FilesAccounted'
<1>1. /\ reqs'[s] = [pc |-> pc, of |-> o, name |-> name, old |-> old, new |-> None]
      /\ \A t \in Slots : t # s => reqs'[t] = reqs[t]
  BY EnterTyped
<1>2. /\ reqs'[s].pc = pc /\ reqs'[s].of = o /\ reqs'[s].old = old /\ reqs'[s].new = None
  BY <1>1
<1>3. reqs[s] = Idle /\ Idle.of = None /\ Idle.new = None /\ Idle.pc = "idle"
  BY DEF Enter, TInv, Shaped, Idle
<1>4. \A c \in Categories, f \in CloudFiles : Known(c, f)' => Known(c, f)
  <2>1. \/ reqs'[s].of \notin Categories
        \/ reqs'[s].old = None
        \/ reqs'[s].old = categories[reqs'[s].of].logo
    BY <1>2, FilesAssumption
  <2> QED
    BY <1>1, <2>1, KnownRead
<1>5. \A t \in Slots, c \in Categories : Replacing(t, c)' <=> Replacing(t, c)
  BY <1>1, <1>2, <1>3 DEF Replacing
<1>6. KnownSound' /\ Single'
  BY <1>4, <1>5, KnownKept DEF TInv, TypeOK
<1>7. NewSound'
  <2>1. \A t \in Slots : reqs'[t].new \in {None, reqs[t].new}
    BY <1>1, <1>2
  <2> QED
    BY <1>4, <2>1, NewKept
<1>8. LogoShown'
  BY <1>5 DEF FileInv, LogoShown
<1>9. FilesAccounted'
  <2>1. \A f \in CloudFiles, t \in Slots : reqs[t].new = f => reqs'[t].new = f
    BY <1>1, <1>2, <1>3, FilesAssumption
  <2> QED
    BY <2>1 DEF FileInv, FilesAccounted, TInv, TypeOK
<1> QED
  BY <1>6, <1>7, <1>8, <1>9

\* A request uploads a file.
LEMMA UploadFiles ==
    ASSUME TInv, FileInv, NEW s \in Slots, NEW f \in CloudFiles,
           UploadFile(f), UNCHANGED <<categories, images, torn, leaked>>,
           reqs'[s].new = f, reqs'[s].of = reqs[s].of /\ reqs'[s].old = reqs[s].old,
           \A t \in Slots : t # s => reqs'[t] = reqs[t],
           \/ reqs'[s].pc = "create" /\ reqs[s].pc = "upload" /\ reqs[s].old = None
           \/ reqs'[s].pc = "destroy" /\ reqs[s].pc = "upload" /\ reqs[s].old # None
           \/ reqs'[s].pc = "attach" /\ reqs[s].pc = "image"
    PROVE  FileInv'
<1>1. /\ reqs'[s].new = f /\ reqs'[s].of = reqs[s].of /\ reqs'[s].old = reqs[s].old
      /\ \A t \in Slots : t # s => reqs'[t] = reqs[t]
  OBVIOUS
<1>2. f \notin used /\ used' = used \cup {f} /\ cloud' = cloud \cup {f}
  BY DEF UploadFile
<1>3. reqs[s].new = None
  BY DEF TInv, Shaped
<1>4. \A c \in Categories, g \in CloudFiles : Known(c, g)' => Known(c, g)
  BY <1>1, KnownRead
<1>5. \A t \in Slots, c \in Categories : Replacing(t, c)' <=> Replacing(t, c)
  BY <1>1 DEF Replacing
<1>6. KnownSound' /\ Single'
  BY <1>2, <1>4, <1>5, KnownKept DEF TInv, TypeOK
<1>7. NewSound'
  <2> SUFFICES ASSUME NEW t \in Slots, NEW g \in CloudFiles, reqs'[t].new = g
               PROVE  /\ g \in cloud'
                      /\ \A c \in Categories : ~Known(c, g)'
                      /\ \A u \in Slots : reqs'[u].new = g => u = t
    BY DEF NewSound
  <2>1. \A u \in Slots : reqs[u].new # f
    BY <1>2 DEF FileInv, NewSound, TInv, TypeOK
  <2>2. CASE t = s
    <3>1. g = f
      BY <1>1, <2>2
    <3>2. \A c \in Categories : ~Known(c, f)
      BY <1>2 DEF FileInv, KnownSound
    <3> QED
      BY <1>1, <1>2, <1>4, <2>1, <2>2, <3>1, <3>2
  <2>3. CASE t # s
    <3>1. reqs[t].new = g
      BY <1>1, <2>3
    <3>2. /\ g \in cloud
          /\ \A c \in Categories : ~Known(c, g)
          /\ \A u \in Slots : reqs[u].new = g => u = t
      BY <3>1 DEF FileInv, NewSound
    <3> QED
      BY <1>1, <1>2, <1>4, <2>1, <2>3, <3>1, <3>2
  <2> QED
    BY <2>2, <2>3
<1>8. CreatingSound'
  <2>1. \A t \in Slots :
            reqs'[t].pc = "create" \/ (reqs'[t].pc = "upload" /\ reqs'[t].old = None)
               => /\ reqs[t].pc = "create" \/ (reqs[t].pc = "upload" /\ reqs[t].old = None)
                  /\ reqs'[t].of = reqs[t].of
    BY <1>1
  <2>2. \A t \in Slots : reqs'[t].of = reqs[t].of
    BY <1>1
  <2> QED
    BY <2>1, <2>2, CreatingKept
<1>9. LogoShown'
  BY <1>2, <1>5 DEF FileInv, LogoShown
<1>10. FilesAccounted'
  <2>1. \A g \in CloudFiles, t \in Slots : reqs[t].new = g => reqs'[t].new = g
    BY <1>1, <1>3, FilesAssumption
  <2> QED
    BY <1>1, <1>2, <2>1 DEF FileInv, FilesAccounted, TInv, TypeOK
<1> QED
  BY <1>6, <1>7, <1>8, <1>9, <1>10 DEF FileInv

\* A request ends, and no category shows a file it did not know.
LEMMA EndFiles ==
    ASSUME TInv, FileInv, NEW s \in Slots, End(s), UNCHANGED <<cloud, used>>,
           \A c \in Categories, f \in CloudFiles : categories'[c].logo = f => Known(c, f),
           \A c \in Categories : categories'[c].stored => categories[c].stored
    PROVE  KnownSound' /\ Single' /\ NewSound' /\ CreatingSound'
<1>1. /\ reqs'[s].pc = "idle" /\ reqs'[s].of = None /\ reqs'[s].new = None
      /\ reqs'[s].old = None
      /\ \A t \in Slots : t # s => reqs'[t] = reqs[t]
  BY EndTyped DEF Idle
<1>2. \A c \in Categories, f \in CloudFiles : Known(c, f)' => Known(c, f)
  <2> SUFFICES ASSUME NEW c \in Categories, NEW f \in CloudFiles, NEW t \in Slots,
                      reqs'[t].of = c, reqs'[t].old = f
               PROVE  Known(c, f)
    BY DEF Known
  <2> QED
    BY <1>1, FilesAssumption DEF Known
<1>3. \A t \in Slots, c \in Categories : Replacing(t, c)' => Replacing(t, c)
  BY <1>1 DEF Replacing
<1>4. KnownSound' /\ Single'
  BY <1>2, <1>3, KnownKept DEF TInv, TypeOK
<1>5. NewSound'
  <2>1. \A t \in Slots : reqs'[t].new \in {None, reqs[t].new}
    BY <1>1
  <2> QED
    BY <1>2, <2>1, NewKept
<1>6. CreatingSound'
  <2>1. \A t \in Slots :
            reqs'[t].pc = "create" \/ (reqs'[t].pc = "upload" /\ reqs'[t].old = None)
               => /\ reqs[t].pc = "create" \/ (reqs[t].pc = "upload" /\ reqs[t].old = None)
                  /\ reqs'[t].of = reqs[t].of
    BY <1>1
  <2>2. \A t \in Slots : reqs'[t].of = reqs[t].of \/ reqs'[t].of \notin Categories
    BY <1>1, FilesAssumption
  <2> QED
    BY <2>1, <2>2, CreatingKept
<1> QED
  BY <1>4, <1>5, <1>6

\* The handler of slot s destroys a file f its category knows.
LEMMA DestroyFiles ==
    ASSUME TInv, FileInv, NEW s \in Slots, NEW c \in Categories, NEW f \in cloud, Known(c, f),
           cloud' = cloud \ {f}, UNCHANGED <<categories, images, used, torn, leaked>>,
           \A t \in Slots : t # s => reqs'[t] = reqs[t],
           reqs'[s].of = c, reqs'[s].new = reqs[s].new,
           \/ reqs'[s].pc = "write" /\ reqs'[s].new # None
              /\ reqs[s].pc = "destroy" /\ reqs[s].of = c /\ reqs'[s].old = reqs[s].old
           \/ reqs'[s].pc = "remove" /\ reqs[s] = Idle /\ categories[c].stored
              /\ reqs'[s].old = categories[c].logo
    PROVE  FileInv'
<1>1. \A d \in Categories, g \in CloudFiles : Known(d, g)' => Known(d, g)
  BY KnownRead
<1>2. \A t \in Slots, d \in Categories :
          Replacing(t, d)' => Replacing(t, d) \/ (t = s /\ d = c)
  BY DEF Replacing
<1>3. \A t \in Slots, d \in Categories : Replacing(t, d) => Replacing(t, d)'
  BY FilesAssumption DEF Replacing, Idle
<1>4. KnownSound' /\ Single'
  BY <1>1, <1>2, KnownTaken
<1>5. NewSound'
  <2>1. \A t \in Slots : reqs'[t].new \in {None, reqs[t].new}
    OBVIOUS
  <2> QED
    BY <1>1, <2>1, NewKept
<1>6. CreatingSound'
  <2>1. \A t \in Slots :
            reqs'[t].pc = "create" \/ (reqs'[t].pc = "upload" /\ reqs'[t].old = None)
               => /\ reqs[t].pc = "create" \/ (reqs[t].pc = "upload" /\ reqs[t].old = None)
                  /\ reqs'[t].of = reqs[t].of
    OBVIOUS
  <2>2. \A t \in Slots : reqs'[t].of = reqs[t].of \/ categories[reqs'[t].of].stored
    OBVIOUS
  <2> QED
    BY <2>1, <2>2, CreatingKept
<1>7. LogoShown'
  <2> SUFFICES ASSUME NEW d \in Categories, categories[d].stored, categories[d].logo \notin cloud',
                      d \notin torn
               PROVE  \E t \in Slots : Replacing(t, d)'
    BY DEF LogoShown
  <2>1. CASE categories[d].logo = f
    <3>1. d = c
      BY <2>1 DEF Known, FileInv, KnownSound, TInv, TypeOK
    <3> QED
      BY <3>1 DEF Replacing
  <2>2. CASE categories[d].logo # f
    BY <2>2, <1>3 DEF FileInv, LogoShown
  <2> QED
    BY <2>1, <2>2
<1>8. FilesAccounted'
  <2>1. \A t \in Slots : reqs'[t].new = reqs[t].new
    OBVIOUS
  <2> QED
    BY <2>1 DEF FileInv, FilesAccounted
<1> QED
  BY <1>4, <1>5, <1>6, <1>7, <1>8 DEF FileInv

\* A category gets the file its request has uploaded.
LEMMA ShowFiles ==
    ASSUME TInv, FileInv, NEW s \in Slots, NEW c \in Categories, NEW new \in Category,
           End(s), UNCHANGED <<cloud, used>>,
           reqs[s].of = c, reqs[s].new # None, new.logo = reqs[s].new,
           categories' = [categories EXCEPT ![c] = new],
           \A f \in cloud : ~Known(c, f), \A t \in Slots : t # s => ~Replacing(t, c),
           categories[c].stored \/ \A t \in Slots : t # s => reqs[t].of # c
    PROVE  KnownSound' /\ Single' /\ NewSound' /\ CreatingSound'
<1>1. /\ reqs'[s].pc = "idle" /\ reqs'[s].of = None /\ reqs'[s].new = None
      /\ reqs'[s].old = None
      /\ \A t \in Slots : t # s => reqs'[t] = reqs[t]
  BY EndTyped DEF Idle
<1>2. categories'[c] = new /\ \A d \in Categories : d # c => categories'[d] = categories[d]
  BY DEF TInv, TypeOK
<1> DEFINE f0 == reqs[s].new
<1>3. f0 \in CloudFiles /\ f0 \in cloud /\ f0 \in used /\ \A d \in Categories : ~Known(d, f0)
  BY DEF TInv, TypeOK, Request, FileInv, NewSound
<1>4. \A d \in Categories, f \in CloudFiles :
          Known(d, f)' => Known(d, f) \/ (d = c /\ f = f0)
  <2> SUFFICES ASSUME NEW d \in Categories, NEW f \in CloudFiles, Known(d, f)'
               PROVE  Known(d, f) \/ (d = c /\ f = f0)
    OBVIOUS
  <2>1. CASE categories'[d].logo = f
    BY <2>1, <1>2 DEF Known
  <2>2. ASSUME NEW t \in Slots, reqs'[t].of = d, reqs'[t].old = f PROVE Known(d, f)
    BY <2>2, <1>1, FilesAssumption DEF Known
  <2> QED
    BY <2>1, <2>2 DEF Known
<1>5. \A t \in Slots, d \in Categories : Replacing(t, d)' => Replacing(t, d) /\ d # c
  BY <1>1 DEF Replacing
<1> HIDE DEF f0
<1>6. KnownSound'
  BY <1>3, <1>4 DEF FileInv, KnownSound
<1>7. Single'
  <2> SUFFICES ASSUME NEW d \in Categories
               PROVE  /\ \A f, g \in cloud : Known(d, f)' /\ Known(d, g)' => f = g
                      /\ \A t \in Slots : Replacing(t, d)' =>
                             /\ \A f \in cloud : ~Known(d, f)'
                             /\ \A u \in Slots : Replacing(u, d)' => u = t
    BY DEF Single
  <2>1. cloud \subseteq CloudFiles
    BY DEF TInv, TypeOK
  <2>2. CASE d = c
    BY <1>4, <1>5, <2>1, <2>2
  <2>3. CASE d # c
    BY <1>4, <1>5, <2>1, <2>3 DEF FileInv, Single
  <2> QED
    BY <2>2, <2>3
<1>8. NewSound'
  <2>1. \A t \in Slots : reqs'[t].new \in {None, reqs[t].new}
    BY <1>1
  <2>2. \A d \in Categories, f \in CloudFiles :
            Known(d, f)' => Known(d, f) \/ (f = reqs[s].new /\ reqs'[s].new = None)
    BY <1>1, <1>4 DEF f0
  <2> QED
    BY <2>1, <2>2, NewKept
<1>9. CreatingSound'
  <2>1. \A t \in Slots :
            reqs'[t].pc = "create" \/ (reqs'[t].pc = "upload" /\ reqs'[t].old = None)
               => /\ reqs[t].pc = "create" \/ (reqs[t].pc = "upload" /\ reqs[t].old = None)
                  /\ reqs'[t].of = reqs[t].of
    BY <1>1
  <2>2. \A t \in Slots : reqs'[t].of = reqs[t].of \/ reqs'[t].of \notin Categories
    BY <1>1, FilesAssumption
  <2>3. \A d \in Categories : categories'[d].stored =>
            categories[d].stored \/ \A t \in Slots : reqs'[t].of # d
    BY <1>1, <1>2, FilesAssumption
  <2> QED
    BY <2>1, <2>2, <2>3, CreatingKept
<1> QED
  BY <1>6, <1>7, <1>8, <1>9

LEMMA FileStep == TInv /\ FileInv /\ [Next]_vars => FileInv'
<1> SUFFICES ASSUME TInv, FileInv, [Next]_vars PROVE FileInv'
  OBVIOUS
<1>1. CASE UNCHANGED vars
  BY <1>1 DEF vars, FileInv, KnownSound, Single, NewSound, CreatingSound, LogoShown,
              FilesAccounted, Known, Replacing
<1>2. ASSUME NEW s \in Slots, NEW c \in Categories, NEW name \in Names, Creat(s, c, name)
      PROVE  FileInv'
  <2>1. KnownSound' /\ Single' /\ NewSound' /\ LogoShown' /\ FilesAccounted'
    BY <1>2, EnterFiles, FilesAssumption DEF Creat
  <2>2. /\ reqs'[s].pc = "upload" /\ reqs'[s].of = c
        /\ \A t \in Slots : t # s => reqs'[t] = reqs[t]
    BY <1>2 DEF Creat, Enter, TInv, TypeOK
  <2>3. CreatingSound'
    BY <1>2, <2>2 DEF Creat, FileInv, CreatingSound
  <2> QED
    BY <2>1, <2>3 DEF FileInv
<1>3. ASSUME NEW s \in Slots, NEW c \in Categories, NEW name \in Names \cup {None},
             NEW file \in BOOLEAN, Update(s, c, name, file)
      PROVE  FileInv'
  <2> DEFINE pc == IF file THEN "upload" ELSE "write"
  <2>1. /\ categories[c].logo \in CloudFiles \cup {None} /\ categories[c].logo # None
        /\ pc \in {"upload", "write"} /\ categories[c].stored
    BY <1>3 DEF Update, TInv, TypeOK, Category
  <2>2. /\ Enter(s, pc, c, name, categories[c].logo)
        /\ UNCHANGED <<categories, images, cloud, used, torn, leaked>>
    BY <1>3 DEF Update
  <2> HIDE DEF pc
  <2>3. KnownSound' /\ Single' /\ NewSound' /\ LogoShown' /\ FilesAccounted'
    BY <2>1, <2>2, EnterFiles
  <2>4. /\ reqs'[s].pc = pc /\ reqs'[s].of = c /\ reqs'[s].old # None
        /\ \A t \in Slots : t # s => reqs'[t] = reqs[t]
    BY <2>1, <2>2 DEF Enter, TInv, TypeOK
  <2>5. CreatingSound'
    <3>1. \A t \in Slots :
              reqs'[t].pc = "create" \/ (reqs'[t].pc = "upload" /\ reqs'[t].old = None)
                 => /\ reqs[t].pc = "create" \/ (reqs[t].pc = "upload" /\ reqs[t].old = None)
                    /\ reqs'[t].of = reqs[t].of
      BY <2>1, <2>4
    <3> QED
      BY <2>1, <2>2, <2>4, <3>1, CreatingKept
  <2> QED
    BY <2>3, <2>5 DEF FileInv
<1>4. ASSUME NEW s \in Slots, NEW c \in Categories, DeleteCategory(s, c) PROVE FileInv'
  <2>1. /\ reqs'[s].pc = "remove" /\ reqs'[s].of = c /\ reqs'[s].new = None
        /\ reqs'[s].old = categories[c].logo
        /\ \A t \in Slots : t # s => reqs'[t] = reqs[t]
    BY <1>4 DEF DeleteCategory, Enter, TInv, TypeOK
  <2>2. reqs[s] = Idle /\ reqs[s].new = None
    BY <1>4 DEF DeleteCategory, Enter, TInv, Shaped, Idle
  <2>3. Known(c, categories[c].logo)
    BY DEF Known
  <2> QED
    BY <1>4, <2>1, <2>2, <2>3, DestroyFiles DEF DeleteCategory
<1>5. ASSUME NEW s \in Slots, NEW i \in Items, UploadImage(s, i) PROVE FileInv'
  <2>1. KnownSound' /\ Single' /\ NewSound' /\ LogoShown' /\ FilesAccounted'
    BY <1>5, EnterFiles DEF UploadImage, TInv, TypeOK
  <2>2. /\ reqs'[s].pc = "image" /\ reqs'[s].of \notin Categories
        /\ \A t \in Slots : t # s => reqs'[t] = reqs[t]
    BY <1>5, FilesAssumption DEF UploadImage, Enter, TInv, TypeOK
  <2>3. CreatingSound'
    <3>1. \A t \in Slots :
              reqs'[t].pc = "create" \/ (reqs'[t].pc = "upload" /\ reqs'[t].old = None)
                 => /\ reqs[t].pc = "create" \/ (reqs[t].pc = "upload" /\ reqs[t].old = None)
                    /\ reqs'[t].of = reqs[t].of
      BY <2>2
    <3>2. \A t \in Slots : reqs'[t].of = reqs[t].of \/ reqs'[t].of \notin Categories
      BY <2>2
    <3> QED
      BY <1>5, <3>1, <3>2, CreatingKept DEF UploadImage
  <2> QED
    BY <2>1, <2>3 DEF FileInv
<1>6. ASSUME NEW s \in Slots, NEW f \in CloudFiles,
             CreatUpload(s, f) \/ UpdateUpload(s, f) \/ ImageUpload(s, f)
      PROVE  FileInv'
  BY <1>6, UploadedTyped, UploadFiles DEF CreatUpload, UpdateUpload, ImageUpload
<1>7. ASSUME NEW s \in Slots, CreatCategory(s) PROVE FileInv'
  <2> DEFINE c == reqs[s].of
             new == [stored |-> TRUE, name |-> reqs[s].name, logo |-> reqs[s].new]
  <2>1. /\ c \in Categories /\ reqs[s].new \in CloudFiles /\ reqs[s].name \in Names
        /\ reqs[s].new # None /\ reqs[s].old = None /\ reqs[s].pc = "create"
    BY <1>7 DEF CreatCategory, TInv, TypeOK, Request, Shaped
  <2>2. ~categories[c].stored /\ \A t \in Slots : t # s => reqs[t].of # c
    BY <2>1 DEF FileInv, CreatingSound
  <2>3. reqs'[s] = Idle /\ \A t \in Slots : t # s => reqs'[t] = reqs[t]
    BY <1>7, EndTyped DEF CreatCategory
  <2>4. new \in Category /\ new.logo = reqs[s].new /\ reqs[s].new \in cloud
    BY <2>1 DEF Category, FileInv, NewSound
  <2>5. categories[c].logo = None
    BY <2>1, <2>2 DEF TInv, TypeOK
  <2>6. CASE reqs[s].name \in LongNames
    <3>1. /\ UNCHANGED <<categories, images, cloud, used, torn>> /\ End(s)
          /\ leaked' = leaked \cup {reqs[s].new}
      BY <1>7, <2>6 DEF CreatCategory
    <3>2. KnownSound' /\ Single' /\ NewSound' /\ CreatingSound'
      BY <3>1, EndFiles DEF Known
    <3>3. LogoShown'
      BY <2>1, <2>3, <3>1 DEF FileInv, LogoShown, Replacing
    <3>4. FilesAccounted'
      BY <2>3, <3>1 DEF FileInv, FilesAccounted
    <3> QED
      BY <3>2, <3>3, <3>4 DEF FileInv
  <2>7. CASE reqs[s].name \notin LongNames
    <3> HIDE DEF new
    <3>1. /\ UNCHANGED <<images, cloud, used, torn, leaked>> /\ End(s)
          /\ categories' = [categories EXCEPT ![c] = new]
      BY <1>7, <2>7 DEF CreatCategory, new
    <3>2. \A f \in cloud : ~Known(c, f)
      BY <2>1, <2>2, <2>5, FilesAssumption DEF Known, TInv, TypeOK
    <3>3. \A t \in Slots : t # s => ~Replacing(t, c)
      BY <2>2 DEF Replacing
    <3> HIDE DEF c
    <3>4. KnownSound' /\ Single' /\ NewSound' /\ CreatingSound'
      BY <2>1, <2>2, <2>4, <3>1, <3>2, <3>3, ShowFiles DEF c
    <3>5. categories'[c] = new /\ \A d \in Categories : d # c => categories'[d] = categories[d]
      BY <2>1, <3>1 DEF TInv, TypeOK
    <3>6. LogoShown'
      BY <2>1, <2>3, <2>4, <3>1, <3>5 DEF FileInv, LogoShown, Replacing
    <3>7. FilesAccounted'
      BY <2>1, <2>3, <2>4, <2>5, <3>1, <3>5, FilesAssumption
         DEF FileInv, FilesAccounted, TInv, TypeOK
    <3> QED
      BY <3>4, <3>6, <3>7 DEF FileInv
  <2> QED
    BY <2>6, <2>7
<1>8. ASSUME NEW s \in Slots, UpdateDestroy(s) PROVE FileInv'
  <2>1. /\ reqs'[s].pc = "write" /\ reqs'[s].new = reqs[s].new /\ reqs[s].new # None
        /\ reqs'[s].of = reqs[s].of /\ reqs'[s].old = reqs[s].old
        /\ \A t \in Slots : t # s => reqs'[t] = reqs[t]
    BY <1>8, DestroyedTyped
  <2>2. reqs[s].pc = "destroy" /\ reqs[s].of \in Categories /\ reqs[s].old \in cloud
    BY <1>8 DEF UpdateDestroy, TInv, Shaped
  <2>3. Known(reqs[s].of, reqs[s].old)
    BY DEF Known
  <2> QED
    BY <1>8, <2>1, <2>2, <2>3, DestroyFiles DEF UpdateDestroy
<1>9. ASSUME NEW s \in Slots, DeleteCategoryRemove(s) PROVE FileInv'
  <2> DEFINE c == reqs[s].of
  <2>1. c \in Categories /\ reqs[s].new = None /\ Replacing(s, c)
    BY <1>9 DEF DeleteCategoryRemove, TInv, Shaped, Replacing
  <2>2. reqs'[s] = Idle /\ Idle.new = None /\ \A t \in Slots : t # s => reqs'[t] = reqs[t]
    BY <1>9, EndTyped DEF DeleteCategoryRemove, Idle
  <2>3. /\ categories'[c] = NoCategory /\ NoCategory.logo = None /\ NoCategory.stored = FALSE
        /\ \A d \in Categories : d # c => categories'[d] = categories[d]
    BY <1>9, <2>1 DEF DeleteCategoryRemove, TInv, TypeOK, NoCategory
  <2>4. \A f \in cloud : ~Known(c, f)
    BY <2>1 DEF FileInv, Single
  <2>5. /\ UNCHANGED <<images, cloud, used, torn>> /\ End(s) /\ leaked \subseteq leaked'
    BY <1>9 DEF DeleteCategoryRemove
  <2> HIDE DEF c
  <2>6. \A d \in Categories, f \in CloudFiles : categories'[d].logo = f => Known(d, f)
    BY <2>3, FilesAssumption DEF Known
  <2>7. \A d \in Categories : categories'[d].stored => categories[d].stored
    BY <2>3
  <2>8. KnownSound' /\ Single' /\ NewSound' /\ CreatingSound'
    BY <2>5, <2>6, <2>7, EndFiles
  <2>9. LogoShown'
    <3>1. \A t \in Slots, d \in Categories : d # c /\ Replacing(t, d) => Replacing(t, d)'
      BY <2>2 DEF Replacing, c
    <3> QED
      BY <2>3, <2>5, <3>1 DEF FileInv, LogoShown
  <2>10. FilesAccounted'
    <3>1. \A f \in cloud : categories[c].logo # f
      BY <2>4 DEF Known
    <3>2. \A f \in cloud, t \in Slots : reqs[t].new = f => reqs'[t].new = f
      BY <2>1, <2>2, FilesAssumption DEF TInv, TypeOK
    <3> QED
      BY <2>3, <2>5, <3>1, <3>2 DEF FileInv, FilesAccounted
  <2> QED
    BY <2>8, <2>9, <2>10 DEF FileInv
<1>10. ASSUME NEW s \in Slots, Attach(s) PROVE FileInv'
  <2>1. reqs[s].of \in Items /\ reqs[s].new # None /\ reqs[s].pc = "attach"
    BY <1>10 DEF Attach, TInv, Shaped
  <2>2. reqs'[s] = Idle /\ \A t \in Slots : t # s => reqs'[t] = reqs[t]
    BY <1>10, EndTyped DEF Attach
  <2>3. KnownSound' /\ Single' /\ NewSound' /\ CreatingSound'
    BY <1>10, EndFiles DEF Attach, Known
  <2>4. LogoShown'
    BY <1>10, <2>1, <2>2 DEF Attach, FileInv, LogoShown, Replacing
  <2>5. FilesAccounted'
    <3>1. /\ images'[reqs[s].of] = reqs[s].new
          /\ \A i \in Items : i # reqs[s].of => images'[i] = images[i]
          /\ leaked' = leaked \cup ({images[reqs[s].of]} \ {None})
          /\ UNCHANGED <<categories, cloud>>
      BY <1>10, <2>1 DEF Attach, TInv, TypeOK
    <3> QED
      BY <2>1, <2>2, <3>1, FilesAssumption DEF FileInv, FilesAccounted, TInv, TypeOK
  <2> QED
    BY <2>3, <2>4, <2>5 DEF FileInv
<1>11. ASSUME NEW s \in Slots, Fail(s) PROVE FileInv'
  <2>1. reqs'[s] = Idle /\ \A t \in Slots : t # s => reqs'[t] = reqs[t]
    BY <1>11, EndTyped DEF Fail
  <2>2. KnownSound' /\ Single' /\ NewSound' /\ CreatingSound'
    BY <1>11, EndFiles DEF Fail, Known
  <2>3. LogoShown'
    BY <1>11, <2>1 DEF Fail, FileInv, LogoShown, Replacing
  <2>4. FilesAccounted'
    BY <1>11, <2>1, FilesAssumption DEF Fail, FileInv, FilesAccounted, TInv, TypeOK
  <2> QED
    BY <2>2, <2>3, <2>4 DEF FileInv
<1>12. ASSUME NEW s \in Slots, UpdateWrite(s) PROVE FileInv'
  <2> DEFINE r == reqs[s]
             c == r.of
             new == [categories[c] EXCEPT !.name = IF r.name = None THEN @ ELSE r.name,
                                          !.logo = LogoToWrite(r)]
  <2>1. /\ c \in Categories /\ categories[c] \in Category /\ r.name \in Names \cup {None}
        /\ r.old \in CloudFiles /\ r.old # None /\ r.new \in CloudFiles \cup {None}
        /\ r.pc = "write"
    BY <1>12 DEF UpdateWrite, TInv, TypeOK, Request, Shaped
  <2>2. /\ new \in Category /\ new.logo = LogoToWrite(r) /\ new.stored = categories[c].stored
    BY <2>1 DEF Category, LogoToWrite
  <2>3. /\ reqs'[s] = Idle /\ Idle.new = None /\ Idle.of = None
        /\ \A t \in Slots : t # s => reqs'[t] = reqs[t]
    BY <1>12, EndTyped DEF UpdateWrite, Idle
  <2>4. End(s) /\ UNCHANGED <<images, cloud, used>> /\ leaked \subseteq leaked'
        /\ torn \subseteq torn'
    BY <1>12 DEF UpdateWrite
  <2>5. \A t \in Slots, d \in Categories : Replacing(t, d) /\ t # s => Replacing(t, d)'
    BY <2>3 DEF Replacing
  <2>6. \A f \in CloudFiles, t \in Slots : reqs[t].new = f /\ t # s => reqs'[t].new = f
    BY <2>3
  <2>7. CASE ~categories[c].stored
    <3>1. UNCHANGED categories /\ r.new \in leaked' \cup {None}
      BY <1>12, <2>7 DEF UpdateWrite
    <3>2. KnownSound' /\ Single' /\ NewSound' /\ CreatingSound'
      BY <2>4, <3>1, EndFiles DEF Known
    <3>3. LogoShown'
      BY <2>4, <2>5, <2>7, <3>1 DEF FileInv, LogoShown, Replacing
    <3>4. FilesAccounted'
      BY <2>4, <2>6, <3>1, FilesAssumption DEF FileInv, FilesAccounted, TInv, TypeOK
    <3> QED
      BY <3>2, <3>3, <3>4 DEF FileInv
  <2>8. CASE categories[c].stored
    <3> HIDE DEF new
    <3>1. categories' = [categories EXCEPT ![c] = new]
      BY <1>12, <2>1, <2>8 DEF UpdateWrite, TInv, TypeOK, new
    <3>2. categories'[c] = new /\ \A d \in Categories : d # c => categories'[d] = categories[d]
      BY <2>1, <3>1 DEF TInv, TypeOK
    <3>3. /\ categories[c].logo # r.old => c \in torn'
          /\ categories[c].logo \notin {r.old, LogoToWrite(r)} => categories[c].logo \in leaked'
      BY <1>12, <2>8 DEF UpdateWrite
    <3>4. \A d \in Categories : categories'[d].stored => categories[d].stored
      BY <2>2, <3>2
    <3>5. CASE r.new = None
      <4>1. new.logo = r.old
        BY <2>2, <3>5 DEF LogoToWrite
      <4>2. \A d \in Categories, f \in CloudFiles : categories'[d].logo = f => Known(d, f)
        BY <3>2, <4>1 DEF Known
      <4>3. KnownSound' /\ Single' /\ NewSound' /\ CreatingSound'
        BY <2>4, <3>4, <4>2, EndFiles
      <4>4. \A d \in Categories : ~Replacing(s, d)
        BY <2>1, <3>5 DEF Replacing
      <4>5. LogoShown'
        BY <2>4, <2>5, <3>2, <3>3, <3>4, <4>1, <4>4 DEF FileInv, LogoShown
      <4>6. FilesAccounted'
        <5>1. \A f \in cloud : categories[c].logo = f => categories'[c].logo = f \/ f \in leaked'
          BY <2>2, <3>2, <3>3, <4>1
        <5>2. \A f \in cloud : reqs[s].new # f
          BY <3>5, FilesAssumption DEF TInv, TypeOK
        <5> HIDE DEF r, c
        <5> QED
          BY <2>4, <2>6, <3>2, <5>1, <5>2 DEF FileInv, FilesAccounted, TInv, TypeOK
      <4> QED
        BY <4>3, <4>5, <4>6 DEF FileInv
    <3>6. CASE r.new # None
      <4>1. new.logo = r.new /\ r.new \in cloud
        BY <2>1, <2>2, <3>6 DEF LogoToWrite, FileInv, NewSound
      <4>2. Replacing(s, c)
        BY <2>1, <3>6 DEF Replacing
      <4>3. (\A f \in cloud : ~Known(c, f)) /\ \A t \in Slots : t # s => ~Replacing(t, c)
        BY <2>1, <4>2 DEF FileInv, Single
      <4>4. KnownSound' /\ Single' /\ NewSound' /\ CreatingSound'
        BY <2>1, <2>2, <2>4, <2>8, <3>1, <3>6, <4>1, <4>3, ShowFiles
      <4>5. \A d \in Categories : d # c => ~Replacing(s, d)
        BY DEF Replacing
      <4>6. LogoShown'
        BY <2>4, <2>5, <3>2, <4>1, <4>5 DEF FileInv, LogoShown
      <4>7. FilesAccounted'
        <5>1. \A f \in cloud : categories[c].logo # f
          BY <4>3 DEF Known
        <5>2. categories'[c].logo = reqs[s].new
          BY <3>2, <4>1
        <5> HIDE DEF r, c
        <5>3. c \in Categories
          BY <2>1
        <5> QED
          BY <2>4, <2>6, <3>2, <5>1, <5>2, <5>3 DEF FileInv, FilesAccounted, TInv, TypeOK
      <4> QED
        BY <4>4, <4>6, <4>7 DEF FileInv
    <3> QED
      BY <3>5, <3>6
  <2> QED
    BY <2>7, <2>8
<1> QED
  BY <1>1, <1>2, <1>3, <1>4, <1>5, <1>6, <1>7, <1>8, <1>9, <1>10, <1>11, <1>12 DEF Next

LEMMA FilesAlways == Spec => [](TInv /\ FileInv)
  BY TypeInit, TypeStep, FileInit, FileStep, PTL DEF Spec

\* A category's logo can be shown, but while its handler replaces it or after a
\* failure or an old copy spoiled it.
THEOREM LogoTheorem == Spec => []LogoShown
<1>1. TInv /\ FileInv => LogoShown
  BY DEF FileInv
<1> QED
  BY <1>1, FilesAlways, PTL

\* No file is in the cloud that no document shows, no request holds, and no
\* failure, overlap or replaced image left there.
THEOREM FilesTheorem == Spec => []FilesAccounted
<1>1. TInv /\ FileInv => FilesAccounted
  BY DEF FileInv
<1> QED
  BY <1>1, FilesAlways, PTL

\* A category disappears only after its logo, whatever updates overlap.
THEOREM RemovalTheorem == Spec => RemovedAfterLogo
<1> DEFINE Step ==
        \A c \in Categories :
            categories[c].stored /\ ~categories'[c].stored => categories[c].logo \notin cloud
<1>1. TInv /\ FileInv /\ [Next]_vars => [Step]_vars
  <2> SUFFICES ASSUME TInv, FileInv, Next PROVE Step
    BY DEF vars
  <2>0. ASSUME \A c \in Categories : categories[c].stored => categories'[c].stored PROVE Step
    BY <2>0
  <2>1. ASSUME UNCHANGED categories PROVE Step
    BY <2>1
  <2>2. ASSUME NEW s \in Slots, DeleteCategoryRemove(s) PROVE Step
    <3>1. reqs[s].of \in Categories /\ Replacing(s, reqs[s].of)
      BY <2>2 DEF DeleteCategoryRemove, TInv, Shaped, Replacing
    <3>2. categories[reqs[s].of].logo \notin cloud
      BY <3>1 DEF FileInv, Single, Known
    <3>3. \A c \in Categories : c # reqs[s].of => categories'[c] = categories[c]
      BY <2>2 DEF DeleteCategoryRemove, TInv, TypeOK
    <3> QED
      BY <3>2, <3>3
  <2>3. ASSUME NEW s \in Slots, CreatCategory(s) PROVE Step
    <3> DEFINE new == [stored |-> TRUE, name |-> reqs[s].name, logo |-> reqs[s].new]
    <3>1. new.stored = TRUE
      OBVIOUS
    <3> HIDE DEF new
    <3>2. UNCHANGED categories \/ categories' = [categories EXCEPT ![reqs[s].of] = new]
      BY <2>3 DEF CreatCategory, new
    <3> QED
      BY <2>0, <2>1, <3>1, <3>2 DEF TInv, TypeOK
  <2>4. ASSUME NEW s \in Slots, UpdateWrite(s) PROVE Step
    <3>1. \A c \in Categories : categories[c] \in Category
      BY DEF TInv, TypeOK
    <3>2. \A c \in Categories : categories'[c].stored = categories[c].stored
      BY <2>4, <3>1 DEF UpdateWrite, Category, TInv, TypeOK
    <3> QED
      BY <2>0, <3>2
  <2>5. ASSUME NEW s \in Slots, NEW f \in CloudFiles,
               CreatUpload(s, f) \/ UpdateUpload(s, f) \/ ImageUpload(s, f)
        PROVE  Step
    BY <2>1, <2>5 DEF CreatUpload, UpdateUpload, ImageUpload
  <2>6. ASSUME NEW s \in Slots, NEW c \in Categories,
               \/ \E name \in Names : Creat(s, c, name)
               \/ \E name \in Names \cup {None}, file \in BOOLEAN : Update(s, c, name, file)
               \/ DeleteCategory(s, c)
        PROVE  Step
    BY <2>1, <2>6 DEF Creat, Update, DeleteCategory
  <2>7. ASSUME NEW s \in Slots,
               \/ \E i \in Items : UploadImage(s, i)
               \/ UpdateDestroy(s) \/ Attach(s) \/ Fail(s)
        PROVE  Step
    BY <2>1, <2>7 DEF UploadImage, UpdateDestroy, Attach, Fail
  <2> QED
    BY <2>2, <2>3, <2>4, <2>5, <2>6, <2>7 DEF Next
<1> QED
  BY <1>1, FilesAlways, PTL DEF Spec, RemovedAfterLogo

=============================================================================
