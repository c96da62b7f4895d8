------------------------------- MODULE Catalogue -------------------------------
(***************************************************************************)
(* What administrators keep: a product with its pictures, of which one is  *)
(* the main one and is the garment that try-on wears, and the collections  *)
(* it is shown in.  Pictures are numbered in the order of their rows.      *)
(* Colors, prices and texts are left out.                                  *)
(***************************************************************************)
EXTENDS Naturals, FiniteSets, FiniteSetsExt

CONSTANTS
    Handlers,          \* administrators at work at one time
    MaxPictures,       \* bound: pictures ever stored
    Collections, Names

VARIABLES
    life,              \* NEW, THERE, GONE: the product
    ordered,           \* an order refers to it
    pictures,          \* product_images: their numbers
    mains,             \* those that say isMain
    garment,           \* the picture garmentUrl is of, 0 when it was given by hand
    stored,            \* pictures uploaded so far
    named,             \* the name of a collection, NoName when it does not exist
    listed,            \* collections the product is in
    job,
    overlapped         \* history: two requests changed the pictures at one time

vars == <<life, ordered, pictures, mains, garment, stored, named, listed, job, overlapped>>

NoName == "none"
NoJob == [op |-> "NONE", at |-> "IDLE", picture |-> 0, isMain |-> FALSE, seen |-> {},
          collection |-> NoName, name |-> NoName]

Init ==
    /\ life = "NEW" /\ ordered = FALSE /\ overlapped = FALSE
    /\ pictures = {} /\ mains = {} /\ listed = {}
    /\ garment = 0 /\ stored = 0
    /\ named = [c \in Collections |-> NoName]
    /\ job = [h \in Handlers |-> NoJob]

product    == <<life, pictures, mains, garment>>
shop       == <<named, listed>>
At(h, op, s) == job[h].op = op /\ job[h].at = s
Start(h, op, s, j) == job[h] = NoJob /\ job' = [job EXCEPT ![h] = [j EXCEPT !.op = op, !.at = s]]
Set(h, j)  == job' = [job EXCEPT ![h] = j]
Go(h, s)   == Set(h, [job[h] EXCEPT !.at = s])
Done(h)    == Set(h, NoJob)
exists     == life = "THERE"
Calm       == UNCHANGED <<ordered, overlapped>>

\* Another request is about to change the pictures.
Changing(g) == job[g].op \in {"UPLOAD", "REMOVE_IMAGE"}
Overlap(h)  == overlapped' = (overlapped \/ \E g \in Handlers \ {h} : Changing(g))

-----------------------------------------------------------------------------
(* ProductsService *)

\* The first picture is the main one; without pictures garmentUrl is given by hand.
create ==
    /\ life = "NEW" /\ life' = "THERE"
    /\ \E n \in 0..2 :
          /\ stored' = n
          /\ pictures' = 1..n /\ mains' = (1..n) \cap {1}
          /\ garment' = IF n = 0 THEN 0 ELSE 1
    /\ UNCHANGED <<shop, job>> /\ Calm

update ==
    /\ exists /\ garment' = 0
    /\ UNCHANGED <<life, pictures, mains, stored, shop, job>> /\ Calm

\* An order that refers to the product keeps it (RESTRICT); pictures and places in
\* collections go with it (CASCADE).
remove ==
    /\ exists /\ ~ordered /\ life' = "GONE"
    /\ pictures' = {} /\ mains' = {} /\ listed' = {} /\ garment' = 0
    /\ UNCHANGED <<stored, named, job>> /\ Calm

\* uploadProductImages: storage first, then a transaction that demotes the pictures it
\* sees when it begins.
Upload(h) ==
    /\ exists /\ Start(h, "UPLOAD", "STORE", NoJob)
    /\ UNCHANGED <<product, stored, shop>> /\ Calm

StorePictures(h) ==
    /\ At(h, "UPLOAD", "STORE")
    /\ Set(h, [job[h] EXCEPT !.at = "WRITE", !.seen = pictures])
    /\ UNCHANGED <<product, stored, shop>> /\ Calm

StorageFails(h) ==
    /\ At(h, "UPLOAD", "STORE") /\ Done(h)
    /\ UNCHANGED <<product, stored, shop>> /\ Calm

\* n pictures, the one at mainIndex becomes the main one and the garment.
KeepMains(h, n, main) == mains' = mains \cup {stored + main}
WriteMain(h, n, main) == mains' = (mains \ job[h].seen) \cup {stored + main}

uploadProductImages(h, n, main) ==
    /\ At(h, "UPLOAD", "WRITE") /\ main <= n /\ stored + n <= MaxPictures
    /\ IF exists
       THEN /\ stored' = stored + n
            /\ pictures' = pictures \cup (stored + 1..stored + n)
            /\ WriteMain(h, n, main)
            /\ garment' = stored + main
            /\ Overlap(h)
       ELSE UNCHANGED <<stored, pictures, mains, garment, overlapped>>
    /\ Done(h)
    /\ UNCHANGED <<life, ordered, shop>>

\* removeImage: the picture is read and the pictures are counted before the transaction.
FindImage(h, p) ==
    /\ p \in pictures
    /\ Start(h, "REMOVE_IMAGE", "COUNT", [NoJob EXCEPT !.picture = p, !.isMain = p \in mains])
    /\ UNCHANGED <<product, stored, shop>> /\ Calm

LastOne == Cardinality(pictures) <= 1

CountImages(h) ==
    /\ At(h, "REMOVE_IMAGE", "COUNT")
    /\ IF LastOne THEN Done(h) ELSE Go(h, "DELETE")
    /\ UNCHANGED <<product, stored, shop>> /\ Calm

\* The newest of the others takes the place of a main picture that is removed.
removeImage(h) ==
    LET left == pictures \ {job[h].picture}
    IN /\ At(h, "REMOVE_IMAGE", "DELETE") /\ Done(h)
       /\ IF job[h].picture \notin pictures THEN UNCHANGED <<pictures, mains, garment, overlapped>>
          ELSE /\ pictures' = left
               /\ IF job[h].isMain /\ left # {}
                  THEN mains' = (mains \cap left) \cup {Max(left)} /\ garment' = Max(left)
                  ELSE mains' = mains \cap left /\ UNCHANGED garment
               /\ Overlap(h)
       /\ UNCHANGED <<life, ordered, stored, shop>>

Order ==
    /\ exists /\ ~ordered /\ ordered' = TRUE
    /\ UNCHANGED <<product, stored, shop, job, overlapped>>

-----------------------------------------------------------------------------
(* CollectionsService: a name is looked up, pictures are stored, the row is written *)

There(c) == named[c] # NoName

CheckName(h, c, n) ==
    /\ \A d \in Collections \ {c} : named[d] # n
    /\ Start(h, IF There(c) THEN "UPDATE" ELSE "CREATE", "WRITE",
             [NoJob EXCEPT !.collection = c, !.name = n])
    /\ UNCHANGED <<product, stored, shop>> /\ Calm

\* The name is unique, and an update needs its row.
WriteCollection(h) ==
    LET c == job[h].collection  n == job[h].name
    IN /\ job[h].op \in {"CREATE", "UPDATE"} /\ Done(h)
       /\ named' = IF \/ \E d \in Collections \ {c} : named[d] = n
                      \/ There(c) # (job[h].op = "UPDATE")
                   THEN named ELSE [named EXCEPT ![c] = n]
       /\ UNCHANGED <<product, stored, listed>> /\ Calm

removeCollection(c) ==
    /\ There(c)
    /\ named' = [named EXCEPT ![c] = NoName] /\ listed' = listed \ {c}
    /\ UNCHANGED <<product, stored, job>> /\ Calm

CheckProduct(h, c) ==
    /\ There(c) /\ exists /\ c \notin listed
    /\ Start(h, "ADD", "WRITE", [NoJob EXCEPT !.collection = c])
    /\ UNCHANGED <<product, stored, shop>> /\ Calm

\* Both foreign keys and the primary key hold.
addProduct(h) ==
    /\ At(h, "ADD", "WRITE") /\ Done(h)
    /\ listed' = IF exists /\ There(job[h].collection) THEN listed \cup {job[h].collection}
                 ELSE listed
    /\ UNCHANGED <<product, stored, named>> /\ Calm

removeProduct(c) ==
    /\ c \in listed /\ listed' = listed \ {c}
    /\ UNCHANGED <<product, stored, named, job>> /\ Calm

Next ==
    \/ create \/ update \/ remove \/ Order
    \/ \E h \in Handlers :
          \/ Upload(h) \/ StorePictures(h) \/ StorageFails(h)
          \/ \E n \in 1..2, main \in 1..2 : uploadProductImages(h, n, main)
          \/ \E p \in pictures : FindImage(h, p)
          \/ CountImages(h) \/ removeImage(h)
          \/ \E c \in Collections : \/ \E n \in Names : CheckName(h, c, n)
                                    \/ CheckProduct(h, c)
          \/ WriteCollection(h) \/ addProduct(h)
    \/ \E c \in Collections : removeCollection(c) \/ removeProduct(c)

Spec == Init /\ [][Next]_vars

-----------------------------------------------------------------------------
(* Properties *)

\* A product that has pictures has one main picture, and what try-on wears is that
\* picture or a garmentUrl given by hand; it loses its last picture only with itself.
\* Nothing in the database says so, and two requests at one time can break it
\* (products.service.ts:313 counts outside the transaction).
OneMainPicture ==
    ~overlapped =>
        /\ pictures # {} => Cardinality(mains) = 1
        /\ garment # 0 => mains = {garment}
        /\ exists /\ stored > 0 => pictures # {}
===============================================================================
