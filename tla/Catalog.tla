------------------------------ MODULE Catalog -------------------------------
(***************************************************************************)
(* Categories, products and their pictures.  As in CheckoutStore a request *)
(* reads, decides and writes in a later statement, with no lock between;   *)
(* an upload besides writes two objects of the store before its row.       *)
(*                                                                         *)
(* A slug is a sequence of words: the key with suffix n appends n to it,   *)
(* and may be the slug of another name.  Names, translations and prices    *)
(* are left out.  The default category is there from the migration on, so  *)
(* ensure_default_category always finds it.                                *)
(***************************************************************************)
EXTENDS Integers, Sequences

CONSTANTS Categories, Default, Products, Requests,
          Words, Slugs,         \* what names of categories are made into
          OtherSlug,            \* the key of the default category
          Uploads,              \* pictures, each stored under a name of its own
          Elsewhere, Nothing,   \* an image URL a client set, and none
          Keep                  \* a column that an UPDATE leaves out

ASSUME CatalogAssumption ==
  /\ Default \in Categories /\ OtherSlug \in Slugs
  /\ Slugs \subseteq Seq(Words \cup Nat)
  /\ {Elsewhere, Nothing, Keep} \cap Uploads = {}
  /\ Keep \notin Categories \cup {Elsewhere, Nothing} /\ Elsewhere # Nothing

VARIABLES category, product,  \* the tables
          bucket, thumbnail,  \* the stored pictures, and of which one each thumbnail is
          req

tables == <<category, product>>
store == <<bucket, thumbnail>>
vars == <<category, product, bucket, thumbnail, req>>
-----------------------------------------------------------------------------
Phases == {"none", "stored", "gone"}
Image == Uploads \cup {Elsewhere, Nothing}
KeyFor(slug, n) == IF n = 1 THEN slug ELSE Append(slug, n)

CategoryRow == [phase : Phases, key : Seq(Words \cup Nat)]

\* `thumbnail' says whether the row names the product's stored thumbnail.
ProductRow == [phase : Phases, category : Categories, image : Image, thumbnail : BOOLEAN]

Idle == [at |-> "idle"]
Request == {Idle}
  \cup [at : {"probing", "inserting"}, slug : Slugs, suffix : Nat \ {0}]
  \cup [at : {"dropping"}, category : Categories]
  \cup [at : {"creating"}, category : Categories, image : {Nothing, Elsewhere}]
  \cup [at : {"updating"}, product : Products, category : Categories \cup {Keep},
        image : {Nothing, Elsewhere, Keep}]
  \cup [at : {"deleting"}, product : Products]
  \cup [at : {"uploading", "pictured", "shrunk"}, product : Products, upload : Uploads]

\* Rows, objects and requests always have the shape they are declared with.
TypeOK ==
  /\ category \in [Categories -> CategoryRow]
  /\ product \in [Products -> ProductRow]
  /\ bucket \subseteq Uploads
  /\ thumbnail \in [Products -> Uploads \cup {Nothing}]
  /\ req \in [Requests -> Request]

Init ==
  /\ category = [c \in Categories |->
       [phase |-> IF c = Default THEN "stored" ELSE "none", key |-> OtherSlug]]
  /\ product = [x \in Products |->
       [phase |-> "none", category |-> Default, image |-> Nothing, thumbnail |-> FALSE]]
  /\ bucket = {}
  /\ thumbnail = [x \in Products |-> Nothing]
  /\ req = [p \in Requests |-> Idle]

At(p, point) == req[p].at = point
Become(p, r) == req' = [req EXCEPT ![p] = r]
Begin(p, r) == At(p, "idle") /\ Become(p, r) /\ UNCHANGED <<tables, store>>

Listed(c) == category[c].phase = "stored"
OnSale(x) == product[x].phase = "stored"
ProductsOf(c) == {x \in Products : OnSale(x) /\ product[x].category = c}
Taken(key) == \E c \in Categories : Listed(c) /\ category[c].key = key
-----------------------------------------------------------------------------
CreateCategory(p, slug) == Begin(p, [at |-> "probing", slug |-> slug, suffix |-> 1])

\* Mutant: the suffix has already moved on when the key is made of it.
ProbeKeyOffByOne(p) ==
  /\ At(p, "probing")
  /\ Become(p, IF Taken(KeyFor(req[p].slug, req[p].suffix))
               THEN [req[p] EXCEPT !.suffix = @ + 1]
               ELSE [req[p] EXCEPT !.at = "inserting", !.suffix = @ + 1])
  /\ UNCHANGED <<tables, store>>

\* One turn of the loop that looks for a free key.
ProbeKey(p) ==
  /\ At(p, "probing")
  /\ Become(p, IF Taken(KeyFor(req[p].slug, req[p].suffix))
               THEN [req[p] EXCEPT !.suffix = @ + 1]
               ELSE [req[p] EXCEPT !.at = "inserting"])
  /\ UNCHANGED <<tables, store>>

\* Mutant: the index on key is not unique.
KeyWithoutIndex(key) == TRUE

\* The unique index on key.
KeyAccepted(key) == ~Taken(key)

InsertCategory(p) ==
  /\ At(p, "inserting")
  /\ LET key == KeyFor(req[p].slug, req[p].suffix)
     IN  \/ /\ KeyAccepted(key)
            /\ \E c \in Categories :
                 /\ category[c].phase = "none"
                 /\ category' = [category EXCEPT ![c] = [phase |-> "stored", key |-> key]]
         \/ ~KeyAccepted(key) /\ UNCHANGED category
  /\ Become(p, Idle)
  /\ UNCHANGED <<product, store>>

ReadForDelete(p, c) ==
  /\ Listed(c) /\ c # Default /\ ProductsOf(c) = {}
  /\ Begin(p, [at |-> "dropping", category |-> c])

\* Mutant: products have no foreign key.
DropUnchecked(c) == TRUE

\* Foreign key RESTRICT: a category that products refer to cannot go.
DropAccepted(c) == ProductsOf(c) = {}

DropCategory(p) ==
  /\ At(p, "dropping")
  /\ LET c == req[p].category
     IN  category' = IF Listed(c) /\ DropAccepted(c)
                     THEN [category EXCEPT ![c].phase = "gone"] ELSE category
  /\ Become(p, Idle)
  /\ UNCHANGED <<product, store>>
-----------------------------------------------------------------------------
\* No category given means the default one.
CreateProduct(p, c, image) ==
  /\ Listed(c)
  /\ Begin(p, [at |-> "creating", category |-> c, image |-> image])

InsertProduct(p) ==
  /\ At(p, "creating")
  /\ \/ /\ Listed(req[p].category)
        /\ \E x \in Products :
             /\ product[x].phase = "none"
             /\ product' = [product EXCEPT ![x] =
                  [phase |-> "stored", category |-> req[p].category,
                   image |-> req[p].image, thumbnail |-> FALSE]]
     \/ ~Listed(req[p].category) /\ UNCHANGED product
  /\ Become(p, Idle)
  /\ UNCHANGED <<category, store>>

\* Mutant: the UPDATE carries every column.
ChangeEverything(new, old) == new

\* The ORM's UPDATE carries the columns that differ from what was read.
Change(new, old) == IF new = old THEN Keep ELSE new

\* What a client leaves out stays as it was read.
UpdateProduct(p, x, c, image) ==
  /\ OnSale(x)
  /\ c # product[x].category => Listed(c)
  /\ Begin(p, [at |-> "updating", product |-> x,
               category |-> Change(c, product[x].category),
               image |-> Change(image, product[x].image)])

\* Mutant: what the client left out is stored as an empty column.
StoreUnsetToo(p) ==
  /\ At(p, "updating")
  /\ LET x == req[p].product
     IN  product' = IF OnSale(x)
                    THEN [product EXCEPT ![x].category = req[p].category,
                                         ![x].image = req[p].image]
                    ELSE product
  /\ Become(p, Idle)
  /\ UNCHANGED <<category, store>>

\* The UPDATE fails if the row or the new category is gone.
StoreProduct(p) ==
  /\ At(p, "updating")
  /\ LET x == req[p].product  c == req[p].category  image == req[p].image
     IN  product' = IF OnSale(x) /\ (c # Keep => Listed(c))
                    THEN [product EXCEPT ![x].category = IF c = Keep THEN @ ELSE c,
                                         ![x].image = IF image = Keep THEN @ ELSE image]
                    ELSE product
  /\ Become(p, Idle)
  /\ UNCHANGED <<category, store>>

ReadForDeletion(p, x) == OnSale(x) /\ Begin(p, [at |-> "deleting", product |-> x])

RemoveProduct(p) ==
  /\ At(p, "deleting")
  /\ product' = [product EXCEPT ![req[p].product].phase = "gone"]
  /\ Become(p, Idle)
  /\ UNCHANGED <<category, store>>
-----------------------------------------------------------------------------
\* Every upload gets an object name that no other has.
FreshNames ==
  Uploads \ (bucket \cup {req[q].upload : q \in {q \in Requests : At(q, "uploading")}})

Upload(p, x, u) ==
  /\ OnSale(x) /\ u \in FreshNames
  /\ Begin(p, [at |-> "uploading", product |-> x, upload |-> u])

Put(u) == bucket' = bucket \cup {u}

store_product_image(p) ==
  /\ At(p, "uploading")
  /\ Put(req[p].upload)
  /\ Become(p, [req[p] EXCEPT !.at = "pictured"])
  /\ UNCHANGED <<tables, thumbnail>>

\* All thumbnails of a product have one name: the last one stored is shown.
store_product_thumbnail(p) ==
  /\ At(p, "pictured")
  /\ thumbnail' = [thumbnail EXCEPT ![req[p].product] = req[p].upload]
  /\ Become(p, [req[p] EXCEPT !.at = "shrunk"])
  /\ UNCHANGED <<tables, bucket>>

\* Mutant: the row is stored before the thumbnail is made.
StoreUrlsEarly(p) ==
  /\ At(p, "pictured")
  /\ LET x == req[p].product
     IN  product' = IF OnSale(x)
                    THEN [product EXCEPT ![x].image = req[p].upload, ![x].thumbnail = TRUE]
                    ELSE product
  /\ Become(p, Idle)
  /\ UNCHANGED <<category, store>>

StoreUrls(p) ==
  /\ At(p, "shrunk")
  /\ LET x == req[p].product
     IN  product' = IF OnSale(x)
                    THEN [product EXCEPT ![x].image = req[p].upload, ![x].thumbnail = TRUE]
                    ELSE product
  /\ Become(p, Idle)
  /\ UNCHANGED <<category, store>>

\* A statement, the object store or Pillow fails, or the worker dies.
Abort(p) ==
  /\ ~At(p, "idle")
  /\ Become(p, Idle)
  /\ UNCHANGED <<tables, store>>
-----------------------------------------------------------------------------
Start(p) ==
  \/ \E slug \in Slugs : CreateCategory(p, slug)
  \/ \E c \in Categories : ReadForDelete(p, c)
  \/ \E c \in Categories, image \in {Nothing, Elsewhere} : CreateProduct(p, c, image)
  \/ \E x \in Products, c \in Categories :
       \E image \in {Nothing, Elsewhere, product[x].image} : UpdateProduct(p, x, c, image)
  \/ \E x \in Products : ReadForDeletion(p, x)
  \/ \E x \in Products, u \in Uploads : Upload(p, x, u)

Continue(p) ==
  \/ ProbeKey(p) \/ InsertCategory(p) \/ DropCategory(p)
  \/ InsertProduct(p) \/ StoreProduct(p) \/ RemoveProduct(p)
  \/ store_product_image(p) \/ store_product_thumbnail(p) \/ StoreUrls(p)

Next == \E p \in Requests : Start(p) \/ Continue(p) \/ Abort(p)

Spec == Init /\ [][Next]_vars
-----------------------------------------------------------------------------
\* No two listed categories share a key (models.py:271), although two
\* requests may have found the same key free.
CategoryKeysUnique ==
  \A c, d \in Categories :
    Listed(c) /\ Listed(d) /\ category[c].key = category[d].key => c = d

\* A suffix is used up only because the key before it was found taken: a
\* creation never passes over a key that nobody ever had (crud.py:141-143).
NoKeyPassedOver ==
  \A p \in Requests :
    At(p, "probing") \/ At(p, "inserting") =>
      \A n \in 1..(req[p].suffix - 1) :
        \E c \in Categories :
          category[c].phase # "none" /\ category[c].key = KeyFor(req[p].slug, n)

\* A product on sale is always in a listed category, although a category is
\* tested for products before it is deleted and listed before products are
\* put into it (categories.py:95-100, products.py:100, 137).
EveryProductFiled ==
  \A x \in Products : OnSale(x) => Listed(product[x].category)

\* A row that names an uploaded picture finds that picture and a thumbnail in
\* the store, whatever failed on the way (products.py:181-192).
ImagesResolve ==
  \A x \in Products :
    OnSale(x) /\ product[x].image \in Uploads =>
      product[x].image \in bucket /\ product[x].thumbnail /\ thumbnail[x] # Nothing

\* Only the request that uploaded a picture puts it into a row: an edit that
\* read the row earlier does not bring a replaced picture back.
PicturesDoNotReturn ==
  [][\A x \in Products :
       product'[x].image \in Uploads \ {product[x].image} =>
         \E p \in Requests :
           At(p, "shrunk") /\ req[p].product = x /\ req[p].upload = product'[x].image]_vars
=============================================================================
