--------------------------- MODULE CatalogProofs ----------------------------
(* The catalogue's invariants for any number of categories, products,      *)
(* uploads and requests.                                                   *)
EXTENDS Catalog, TLAPS

\* The shape of a row is known to every proof below.
USE DEF CategoryRow, ProductRow

\* What a request carries at each point of its handler.
LEMMA Carried ==
  ASSUME TypeOK, NEW p \in Requests
  PROVE  /\ At(p, "probing") \/ At(p, "inserting") =>
              req[p] = [at |-> req[p].at, slug |-> req[p].slug, suffix |-> req[p].suffix]
              /\ req[p].slug \in Slugs /\ req[p].suffix \in Nat \ {0}
         /\ At(p, "dropping") => req[p].category \in Categories
         /\ At(p, "creating") =>
              req[p].category \in Categories /\ req[p].image \in {Nothing, Elsewhere}
         /\ At(p, "updating") =>
              /\ req[p].product \in Products /\ req[p].category \in Categories \cup {Keep}
              /\ req[p].image \in {Nothing, Elsewhere, Keep}
         /\ At(p, "deleting") => req[p].product \in Products
         /\ At(p, "uploading") \/ At(p, "pictured") \/ At(p, "shrunk") =>
              req[p] = [at |-> req[p].at, product |-> req[p].product, upload |-> req[p].upload]
              /\ req[p].product \in Products /\ req[p].upload \in Uploads
<1>1. req[p] \in Request
  BY DEF TypeOK
<1> QED
  BY <1>1 DEF Request, Idle, At

\* Only these steps touch the tables or the store.
LEMMA Writers ==
  ASSUME [Next]_vars
  PROVE  \/ UNCHANGED <<tables, store>>
         \/ \E p \in Requests :
              \/ InsertCategory(p) \/ DropCategory(p)
              \/ InsertProduct(p) \/ StoreProduct(p) \/ RemoveProduct(p)
              \/ store_product_image(p) \/ store_product_thumbnail(p) \/ StoreUrls(p)
<1>1. CASE UNCHANGED vars
  BY <1>1 DEF vars, tables, store
<1>2. CASE Next
  BY <1>2 DEF Next, Start, Continue, Abort, ProbeKey, Begin, tables, store,
              CreateCategory, ReadForDelete, CreateProduct, UpdateProduct,
              ReadForDeletion, Upload
<1> QED
  BY <1>1, <1>2

\* Keys are words with at most a number behind them.
LEMMA KeysAreSequences ==
  ASSUME NEW slug \in Slugs, NEW n \in Nat
  PROVE  KeyFor(slug, n) \in Seq(Words \cup Nat)
  BY CatalogAssumption DEF KeyFor

\* Every step leaves the requests with one of their shapes.
LEMMA RequestsKeepShape ==
  ASSUME TypeOK, [Next]_vars
  PROVE  req' \in [Requests -> Request]
<1>0. req \in [Requests -> Request]
  BY DEF TypeOK
<1>1. CASE UNCHANGED vars
  BY <1>0, <1>1 DEF vars
<1>2. ASSUME NEW p \in Requests, NEW r \in Request, Become(p, r)
      PROVE  req' \in [Requests -> Request]
  BY <1>0, <1>2 DEF Become
<1>3. Idle \in Request
  BY DEF Request
<1>4. ASSUME NEW p \in Requests, Start(p)
      PROVE  req' \in [Requests -> Request]
  <2>1. ASSUME NEW slug \in Slugs, CreateCategory(p, slug)
        PROVE  req' \in [Requests -> Request]
    <3>1. [at |-> "probing", slug |-> slug, suffix |-> 1] \in Request
      BY DEF Request
    <3> QED
      BY <1>2, <2>1, <3>1 DEF CreateCategory, Begin
  <2>2. ASSUME NEW c \in Categories, ReadForDelete(p, c)
        PROVE  req' \in [Requests -> Request]
    <3>1. [at |-> "dropping", category |-> c] \in Request
      BY DEF Request
    <3> QED
      BY <1>2, <2>2, <3>1 DEF ReadForDelete, Begin
  <2>3. ASSUME NEW c \in Categories, NEW image \in {Nothing, Elsewhere},
               CreateProduct(p, c, image)
        PROVE  req' \in [Requests -> Request]
    <3>1. [at |-> "creating", category |-> c, image |-> image] \in Request
      BY DEF Request
    <3> QED
      BY <1>2, <2>3, <3>1 DEF CreateProduct, Begin
  <2>4. ASSUME NEW x \in Products, NEW c \in Categories,
               NEW image \in {Nothing, Elsewhere, product[x].image},
               UpdateProduct(p, x, c, image)
        PROVE  req' \in [Requests -> Request]
    <3>1. Change(c, product[x].category) \in Categories \cup {Keep}
      BY DEF Change
    <3>2. Change(image, product[x].image) \in {Nothing, Elsewhere, Keep}
      BY DEF Change
    <3>3. [at |-> "updating", product |-> x,
           category |-> Change(c, product[x].category),
           image |-> Change(image, product[x].image)] \in Request
      BY <3>1, <3>2 DEF Request
    <3> QED
      BY <1>2, <2>4, <3>3 DEF UpdateProduct, Begin
  <2>5. ASSUME NEW x \in Products, ReadForDeletion(p, x)
        PROVE  req' \in [Requests -> Request]
    <3>1. [at |-> "deleting", product |-> x] \in Request
      BY DEF Request
    <3> QED
      BY <1>2, <2>5, <3>1 DEF ReadForDeletion, Begin
  <2>6. ASSUME NEW x \in Products, NEW u \in Uploads, Upload(p, x, u)
        PROVE  req' \in [Requests -> Request]
    <3>1. [at |-> "uploading", product |-> x, upload |-> u] \in Request
      BY DEF Request
    <3> QED
      BY <1>2, <2>6, <3>1 DEF Upload, Begin
  <2> QED
    BY <1>4, <2>1, <2>2, <2>3, <2>4, <2>5, <2>6 DEF Start
<1>5. ASSUME NEW p \in Requests, ProbeKey(p)
      PROVE  req' \in [Requests -> Request]
  <2>1. PICK slug \in Slugs, n \in Nat \ {0} :
          req[p] = [at |-> "probing", slug |-> slug, suffix |-> n]
    BY <1>5, Carried DEF ProbeKey, At
  <2>2. /\ [req[p] EXCEPT !.suffix = @ + 1] \in Request
        /\ [req[p] EXCEPT !.at = "inserting"] \in Request
    BY <2>1 DEF Request
  <2> QED
    BY <1>2, <1>5, <2>2 DEF ProbeKey
<1>6. ASSUME NEW p \in Requests, store_product_image(p) \/ store_product_thumbnail(p)
      PROVE  req' \in [Requests -> Request]
  <2>1. PICK x \in Products, u \in Uploads :
          req[p] = [at |-> req[p].at, product |-> x, upload |-> u]
    <3>1. At(p, "uploading") \/ At(p, "pictured")
      BY <1>6 DEF store_product_image, store_product_thumbnail
    <3> QED
      BY <3>1, Carried
  <2>2. /\ [req[p] EXCEPT !.at = "pictured"] \in Request
        /\ [req[p] EXCEPT !.at = "shrunk"] \in Request
    BY <2>1 DEF Request
  <2> QED
    BY <1>2, <1>6, <2>2 DEF store_product_image, store_product_thumbnail
<1>7. ASSUME NEW p \in Requests, Continue(p) \/ Abort(p)
      PROVE  req' \in [Requests -> Request]
  BY <1>2, <1>3, <1>5, <1>6, <1>7
     DEF Continue, Abort, InsertCategory, DropCategory, InsertProduct, StoreProduct,
         RemoveProduct, StoreUrls
<1> QED
  BY <1>1, <1>4, <1>7 DEF Next

\* Every step leaves rows and objects with their shape.
LEMMA TablesKeepShape ==
  ASSUME TypeOK, [Next]_vars
  PROVE  /\ category' \in [Categories -> [phase : Phases, key : Seq(Words \cup Nat)]]
         /\ product' \in [Products -> [phase : Phases, category : Categories, image : Image,
                                       thumbnail : BOOLEAN]]
         /\ bucket' \subseteq Uploads
         /\ thumbnail' \in [Products -> Uploads \cup {Nothing}]
<1> DEFINE Rows == [phase : Phases, category : Categories, image : Image, thumbnail : BOOLEAN]
<1> DEFINE Goal ==
      /\ category' \in [Categories -> [phase : Phases, key : Seq(Words \cup Nat)]]
      /\ product' \in [Products -> Rows]
      /\ bucket' \subseteq Uploads
      /\ thumbnail' \in [Products -> Uploads \cup {Nothing}]
<1> USE DEF TypeOK
<1>1. CASE UNCHANGED <<tables, store>>
  BY <1>1 DEF tables, store
<1>2. ASSUME NEW p \in Requests, InsertCategory(p)
      PROVE  Goal
  <2>1. At(p, "inserting") /\ UNCHANGED <<product, bucket, thumbnail>>
    BY <1>2 DEF InsertCategory, store
  <2>2. KeyFor(req[p].slug, req[p].suffix) \in Seq(Words \cup Nat)
    BY <2>1, Carried, KeysAreSequences
  <2>3. category' \in [Categories -> [phase : Phases, key : Seq(Words \cup Nat)]]
    BY <1>2, <2>2 DEF InsertCategory, Phases
  <2> QED
    BY <2>1, <2>3
<1>3. ASSUME NEW p \in Requests, DropCategory(p)
      PROVE  Goal
  <2>1. req[p].category \in Categories
    BY <1>3, Carried DEF DropCategory
  <2>2. category' \in [Categories -> [phase : Phases, key : Seq(Words \cup Nat)]]
    BY <1>3, <2>1 DEF DropCategory, Phases
  <2> QED
    BY <1>3, <2>2 DEF DropCategory, store
<1>4. ASSUME NEW p \in Requests, InsertProduct(p)
      PROVE  Goal
  <2>1. req[p].category \in Categories /\ req[p].image \in {Nothing, Elsewhere}
    BY <1>4, Carried DEF InsertProduct
  <2>2. [phase |-> "stored", category |-> req[p].category,
         image |-> req[p].image, thumbnail |-> FALSE] \in Rows
    BY <2>1 DEF Phases, Image
  <2>3. product' \in [Products -> Rows]
    BY <1>4, <2>2 DEF InsertProduct
  <2> QED
    BY <1>4, <2>3 DEF InsertProduct, store
<1>5. ASSUME NEW p \in Requests, StoreProduct(p)
      PROVE  Goal
  <2>1. PICK x \in Products, c \in Categories, image \in Image :
          product' = product
          \/ product' = [product EXCEPT ![x].category = c, ![x].image = image]
    <3> DEFINE x == req[p].product
    <3>1. /\ x \in Products /\ req[p].category \in Categories \cup {Keep}
          /\ req[p].image \in {Nothing, Elsewhere, Keep}
      BY <1>5, Carried DEF StoreProduct
    <3>2. product[x].category \in Categories /\ product[x].image \in Image
      BY <3>1
    <3> QED
      BY <1>5, <3>1, <3>2 DEF StoreProduct, Image
  <2>2. [product[x] EXCEPT !.category = c, !.image = image] \in Rows
    OBVIOUS
  <2>3. product' \in [Products -> Rows]
    BY <2>1, <2>2
  <2> QED
    BY <1>5, <2>3 DEF StoreProduct, store
<1>6. ASSUME NEW p \in Requests, RemoveProduct(p)
      PROVE  Goal
  <2>1. req[p].product \in Products
    BY <1>6, Carried DEF RemoveProduct
  <2>2. product' \in [Products -> Rows]
    BY <1>6, <2>1 DEF RemoveProduct, Phases
  <2> QED
    BY <1>6, <2>2 DEF RemoveProduct, store
<1>7. ASSUME NEW p \in Requests,
             store_product_image(p) \/ store_product_thumbnail(p)
      PROVE  Goal
  <2>1. At(p, "uploading") \/ At(p, "pictured")
    BY <1>7 DEF store_product_image, store_product_thumbnail
  <2>2. req[p].upload \in Uploads
    BY <2>1, Carried
  <2> QED
    BY <1>7, <2>2 DEF store_product_image, store_product_thumbnail, Put, tables
<1>8. ASSUME NEW p \in Requests, StoreUrls(p)
      PROVE  Goal
  <2>1. req[p].product \in Products /\ req[p].upload \in Image
    BY <1>8, Carried DEF StoreUrls, Image
  <2>2. product' \in [Products -> Rows]
    BY <1>8, <2>1 DEF StoreUrls
  <2> QED
    BY <1>8, <2>2 DEF StoreUrls, store
<1> QED
  BY <1>1, <1>2, <1>3, <1>4, <1>5, <1>6, <1>7, <1>8, Writers

\* Rows, objects and requests keep the shape they are declared with.
THEOREM TypeCorrect == Spec => []TypeOK
<1>1. Init => TypeOK
  BY CatalogAssumption DEF Init, TypeOK, Phases, Image, Request
<1>2. TypeOK /\ [Next]_vars => TypeOK'
  BY RequestsKeepShape, TablesKeepShape DEF TypeOK
<1> QED
  BY <1>1, <1>2, PTL DEF Spec

\* No two listed categories share a key: the index turns the second insertion
\* away, whatever the search for a free key had found.
THEOREM KeysUnique == Spec => []CategoryKeysUnique
<1>1. Init => CategoryKeysUnique
  BY DEF Init, CategoryKeysUnique, Listed
<1>2. ASSUME TypeOK, CategoryKeysUnique, [Next]_vars
      PROVE  CategoryKeysUnique'
  <2>1. CASE UNCHANGED category
    BY <1>2, <2>1 DEF CategoryKeysUnique, Listed
  <2>2. ASSUME NEW p \in Requests, InsertCategory(p), category' # category
        PROVE  CategoryKeysUnique'
    <3> DEFINE key == KeyFor(req[p].slug, req[p].suffix)
    <3>1. ~Taken(key) /\ \E c \in Categories :
            category' = [category EXCEPT ![c] = [phase |-> "stored", key |-> key]]
      BY <2>2 DEF InsertCategory, KeyAccepted
    <3> HIDE DEF key
    <3> QED
      BY <1>2, <3>1 DEF CategoryKeysUnique, Listed, Taken, TypeOK
  <2>3. ASSUME NEW p \in Requests, DropCategory(p)
        PROVE  CategoryKeysUnique'
    <3>1. req[p].category \in Categories
      BY <1>2, <2>3, Carried DEF DropCategory
    <3>2. \A c \in Categories : category'[c].key = category[c].key
                                /\ (Listed(c)' => Listed(c))
      BY <1>2, <2>3, <3>1 DEF DropCategory, Listed, TypeOK
    <3> QED
      BY <1>2, <3>2 DEF CategoryKeysUnique, Listed
  <2> QED
    BY <1>2, <2>1, <2>2, <2>3, Writers
       DEF tables, InsertProduct, StoreProduct, RemoveProduct, store_product_image,
           store_product_thumbnail, StoreUrls
<1> QED
  BY <1>1, <1>2, TypeCorrect, PTL DEF Spec

\* A product on sale is in a listed category: whatever a request had tested,
\* the foreign key refuses both the row and the deletion that would break it.
THEOREM AllFiled == Spec => []EveryProductFiled
<1>1. Init => EveryProductFiled
  BY DEF Init, EveryProductFiled, OnSale
<1>2. ASSUME TypeOK, EveryProductFiled, [Next]_vars
      PROVE  EveryProductFiled'
  <2> USE DEF OnSale, Listed
  <2>1. CASE UNCHANGED tables
    BY <1>2, <2>1 DEF EveryProductFiled, tables
  <2>2. ASSUME NEW p \in Requests, InsertCategory(p)
        PROVE  EveryProductFiled'
    <3>1. \A c \in Categories : Listed(c) => Listed(c)'
      BY <1>2, <2>2 DEF InsertCategory, TypeOK
    <3> QED
      BY <1>2, <2>2, <3>1 DEF EveryProductFiled, TypeOK, InsertCategory
  <2>3. ASSUME NEW p \in Requests, DropCategory(p)
        PROVE  EveryProductFiled'
    <3>1. req[p].category \in Categories
      BY <1>2, <2>3, Carried DEF DropCategory
    <3>2. \A c \in Categories : Listed(c) /\ ProductsOf(c) # {} => Listed(c)'
      BY <1>2, <2>3, <3>1 DEF DropCategory, DropAccepted, TypeOK
    <3>3. product' = product
      BY <2>3 DEF DropCategory
    <3>4. \A x \in Products : OnSale(x) => product[x].category \in Categories
                                         /\ x \in ProductsOf(product[x].category)
      BY <1>2 DEF ProductsOf, TypeOK
    <3> QED
      BY <1>2, <3>2, <3>3, <3>4 DEF EveryProductFiled
  <2>4. ASSUME NEW p \in Requests, InsertProduct(p)
        PROVE  EveryProductFiled'
    <3>1. \A x \in Products :
            \/ product'[x] = product[x]
            \/ Listed(req[p].category) /\ product'[x].category = req[p].category
      BY <1>2, <2>4 DEF InsertProduct, TypeOK
    <3>2. category' = category
      BY <2>4 DEF InsertProduct
    <3> QED
      BY <1>2, <3>1, <3>2 DEF EveryProductFiled
  <2>5. ASSUME NEW p \in Requests, StoreProduct(p)
        PROVE  EveryProductFiled'
    <3>1. \A x \in Products :
            /\ product'[x].phase = product[x].phase
            /\ product'[x].category = product[x].category \/ Listed(product'[x].category)
      BY <1>2, <2>5, Carried DEF StoreProduct, TypeOK
    <3>2. category' = category
      BY <2>5 DEF StoreProduct
    <3> QED
      BY <1>2, <3>1, <3>2 DEF EveryProductFiled
  <2>6. ASSUME NEW p \in Requests, RemoveProduct(p) \/ StoreUrls(p)
        PROVE  EveryProductFiled'
    <3>0. req[p].product \in Products
      <4>1. At(p, "deleting") \/ At(p, "shrunk")
        BY <2>6 DEF RemoveProduct, StoreUrls
      <4> QED
        BY <1>2, <4>1, Carried
    <3>1. \A x \in Products : product'[x].category = product[x].category
                              /\ (product'[x].phase = "stored" => product[x].phase = "stored")
      <4>1. CASE RemoveProduct(p)
        BY <1>2, <3>0, <4>1 DEF RemoveProduct, TypeOK
      <4>2. CASE StoreUrls(p)
        BY <1>2, <3>0, <4>2 DEF StoreUrls, TypeOK
      <4> QED
        BY <2>6, <4>1, <4>2
    <3>2. category' = category
      BY <2>6 DEF RemoveProduct, StoreUrls
    <3> QED
      BY <1>2, <3>1, <3>2 DEF EveryProductFiled
  <2> QED
    BY <1>2, <2>1, <2>2, <2>3, <2>4, <2>5, <2>6, Writers
       DEF store_product_image, store_product_thumbnail
<1> QED
  BY <1>1, <1>2, TypeCorrect, PTL DEF Spec

-----------------------------------------------------------------------------
\* What an upload has stored so far.
Progress ==
  \A p \in Requests :
    /\ At(p, "pictured") \/ At(p, "shrunk") => req[p].upload \in bucket
    /\ At(p, "shrunk") => thumbnail[req[p].product] # Nothing

\* The store only grows.
LEMMA StoreGrows ==
  ASSUME TypeOK, [Next]_vars
  PROVE  /\ bucket \subseteq bucket'
         /\ \A x \in Products : thumbnail[x] # Nothing => thumbnail'[x] # Nothing
<1>1. ASSUME NEW p \in Requests, store_product_thumbnail(p)
      PROVE  \A x \in Products : thumbnail[x] # Nothing => thumbnail'[x] # Nothing
  <2>1. req[p].product \in Products /\ req[p].upload # Nothing
    BY <1>1, Carried, CatalogAssumption DEF store_product_thumbnail
  <2> QED
    BY <1>1, <2>1 DEF store_product_thumbnail, TypeOK
<1> QED
  BY <1>1, Writers DEF store, InsertCategory, DropCategory, InsertProduct, StoreProduct,
     RemoveProduct, StoreUrls, store_product_image, Put, store_product_thumbnail

\* A request gets past storing something only by storing it.
LEMMA ProgressKept ==
  ASSUME TypeOK, Progress, [Next]_vars
  PROVE  Progress'
<1>0. /\ bucket \subseteq bucket'
      /\ \A x \in Products : thumbnail[x] # Nothing => thumbnail'[x] # Nothing
  BY StoreGrows
<1>1. ASSUME NEW p \in Requests, req'[p] = req[p] \/ req'[p].at \notin {"pictured", "shrunk"}
      PROVE  /\ At(p, "pictured")' \/ At(p, "shrunk")' => req'[p].upload \in bucket'
             /\ At(p, "shrunk")' => thumbnail'[req'[p].product] # Nothing
  BY <1>0, <1>1, Carried DEF Progress, At
<1>2. ASSUME NEW p \in Requests, store_product_image(p)
      PROVE  Progress'
  <2>1. req[p].upload \in bucket' /\ req'[p].at = "pictured" /\ req'[p].upload = req[p].upload
    <3>1. PICK x \in Products, u \in Uploads :
            req[p] = [at |-> req[p].at, product |-> x, upload |-> u]
      BY <1>2, Carried DEF store_product_image
    <3> QED
      BY <1>2, <3>1 DEF store_product_image, Put, Become, TypeOK
  <2>2. \A q \in Requests \ {p} : req'[q] = req[q]
    BY <1>2 DEF store_product_image, Put, Become, TypeOK
  <2> QED
    BY <1>1, <2>1, <2>2 DEF Progress, At
<1>3. ASSUME NEW p \in Requests, store_product_thumbnail(p)
      PROVE  Progress'
  <2>1. PICK x \in Products, u \in Uploads :
          req[p] = [at |-> req[p].at, product |-> x, upload |-> u]
    BY <1>3, Carried DEF store_product_thumbnail
  <2>2. req'[p].upload = u /\ req'[p].product = x /\ thumbnail'[x] = u /\ u \in bucket'
    BY <1>3, <2>1, <1>0 DEF store_product_thumbnail, Become, TypeOK, Progress
  <2>3. \A q \in Requests \ {p} : req'[q] = req[q]
    BY <1>3 DEF store_product_thumbnail, Become, TypeOK
  <2> QED
    BY <1>1, <2>2, <2>3, CatalogAssumption DEF Progress, At
<1>4. ASSUME NEW p \in Requests, NEW r, Become(p, r), r.at \notin {"pictured", "shrunk"}
      PROVE  Progress'
  <2>1. req'[p] = r /\ \A q \in Requests \ {p} : req'[q] = req[q]
    BY <1>4 DEF Become, TypeOK
  <2> QED
    BY <1>1, <1>4, <2>1 DEF Progress
<1>5. ASSUME NEW p \in Requests, Start(p)
      PROVE  Progress'
  BY <1>4, <1>5 DEF Start, Begin, CreateCategory, ReadForDelete, CreateProduct,
     UpdateProduct, ReadForDeletion, Upload
<1>6. ASSUME NEW p \in Requests, ProbeKey(p)
      PROVE  Progress'
  <2>1. PICK slug \in Slugs, n \in Nat \ {0} :
          req[p] = [at |-> "probing", slug |-> slug, suffix |-> n]
    BY <1>6, Carried DEF ProbeKey, At
  <2>2. /\ [req[p] EXCEPT !.suffix = @ + 1].at = "probing"
        /\ [req[p] EXCEPT !.at = "inserting"].at = "inserting"
    BY <2>1
  <2> QED
    BY <1>4, <1>6, <2>2 DEF ProbeKey
<1>7. Idle.at \notin {"pictured", "shrunk"}
  BY DEF Idle
<1>8. ASSUME NEW p \in Requests, Continue(p) \/ Abort(p)
      PROVE  Progress'
  BY <1>2, <1>3, <1>4, <1>6, <1>7, <1>8
     DEF Continue, Abort, InsertCategory, DropCategory, InsertProduct, StoreProduct,
         RemoveProduct, StoreUrls
<1>9. CASE UNCHANGED vars
  BY <1>1, <1>9 DEF vars, Progress
<1> QED
  BY <1>5, <1>8, <1>9 DEF Next

\* A row that names an uploaded picture finds it, and its thumbnail, in the
\* store: the row comes last, and the store only grows.
THEOREM ImagesAlwaysResolve == Spec => []ImagesResolve
<1>1. Init => Progress /\ ImagesResolve
  BY DEF Init, Progress, ImagesResolve, OnSale, At, Idle
<1>2. ASSUME TypeOK, Progress, ImagesResolve, [Next]_vars
      PROVE  ImagesResolve'
  <2>0. /\ bucket \subseteq bucket'
        /\ \A x \in Products : thumbnail[x] # Nothing => thumbnail'[x] # Nothing
    BY <1>2, StoreGrows
  <2> USE DEF OnSale
  <2>1. ASSUME \A x \in Products :
                 \/ product'[x] = product[x]
                 \/ product'[x].phase = "stored" => product'[x].image \notin Uploads
        PROVE  ImagesResolve'
    BY <1>2, <2>0, <2>1 DEF ImagesResolve
  <2>2. CASE product' = product
    BY <2>1, <2>2
  <2>3. ASSUME NEW p \in Requests, InsertProduct(p)
        PROVE  ImagesResolve'
    <3>1. req[p].image \notin Uploads
      BY <1>2, <2>3, Carried, CatalogAssumption DEF InsertProduct
    <3> QED
      BY <1>2, <2>1, <2>3, <3>1 DEF InsertProduct, TypeOK
  <2>4. ASSUME NEW p \in Requests, StoreProduct(p)
        PROVE  ImagesResolve'
    <3>1. req[p].product \in Products /\ req[p].image \notin Uploads
      BY <1>2, <2>4, Carried, CatalogAssumption DEF StoreProduct
    <3>2. \A x \in Products :
            /\ product'[x].phase = product[x].phase
            /\ product'[x].thumbnail = product[x].thumbnail
            /\ product'[x].image = product[x].image \/ product'[x].image \notin Uploads
      BY <1>2, <2>4, <3>1 DEF StoreProduct, TypeOK
    <3> QED
      BY <1>2, <2>0, <3>2 DEF ImagesResolve
  <2>5. ASSUME NEW p \in Requests, RemoveProduct(p)
        PROVE  ImagesResolve'
    <3>1. req[p].product \in Products
      BY <1>2, <2>5, Carried DEF RemoveProduct
    <3> QED
      BY <1>2, <2>1, <2>5, <3>1 DEF RemoveProduct, TypeOK
  <2>6. ASSUME NEW p \in Requests, StoreUrls(p)
        PROVE  ImagesResolve'
    <3> DEFINE x == req[p].product  u == req[p].upload
    <3>1. x \in Products /\ u \in bucket /\ thumbnail[x] # Nothing
      BY <1>2, <2>6, Carried DEF StoreUrls, Progress
    <3>2. \A y \in Products :
            \/ product'[y] = product[y]
            \/ y = x /\ product'[y].image = u /\ product'[y].thumbnail
      BY <1>2, <2>6, <3>1 DEF StoreUrls, TypeOK
    <3>3. bucket' = bucket /\ thumbnail' = thumbnail
      BY <2>6 DEF StoreUrls, store
    <3> QED
      BY <1>2, <3>1, <3>2, <3>3 DEF ImagesResolve
  <2> QED
    BY <1>2, <2>2, <2>3, <2>4, <2>5, <2>6, Writers
       DEF tables, InsertCategory, DropCategory, store_product_image,
           store_product_thumbnail
<1>3. TypeOK /\ Progress /\ [Next]_vars => Progress'
  BY ProgressKept
<1> QED
  BY <1>1, <1>2, <1>3, TypeCorrect, PTL DEF Spec

\* A picture enters a row only from the request that uploaded it: every other
\* UPDATE leaves out the image, or sets one that is no upload.
THEOREM NoPictureReturns == Spec => PicturesDoNotReturn
<1> DEFINE Entered ==
      \A x \in Products :
        product'[x].image \in Uploads \ {product[x].image} =>
          \E p \in Requests :
            At(p, "shrunk") /\ req[p].product = x /\ req[p].upload = product'[x].image
<1>1. ASSUME TypeOK, [Next]_vars
      PROVE  Entered
  <2>1. ASSUME NEW p \in Requests, InsertProduct(p)
        PROVE  Entered
    <3>1. req[p].image \notin Uploads
      BY <1>1, <2>1, Carried, CatalogAssumption DEF InsertProduct
    <3>2. \A x \in Products : product'[x] = product[x] \/ product'[x].image = req[p].image
      BY <1>1, <2>1 DEF InsertProduct, TypeOK
    <3> QED
      BY <3>1, <3>2
  <2>2. ASSUME NEW p \in Requests, StoreProduct(p)
        PROVE  Entered
    <3>1. req[p].product \in Products /\ req[p].image \notin Uploads
      BY <1>1, <2>2, Carried, CatalogAssumption DEF StoreProduct
    <3>2. \A x \in Products :
            product'[x].image = product[x].image \/ product'[x].image = req[p].image
      BY <1>1, <2>2, <3>1 DEF StoreProduct, TypeOK
    <3> QED
      BY <3>1, <3>2
  <2>3. ASSUME NEW p \in Requests, RemoveProduct(p)
        PROVE  Entered
    <3>1. req[p].product \in Products
      BY <1>1, <2>3, Carried DEF RemoveProduct
    <3>2. \A x \in Products : product'[x].image = product[x].image
      BY <1>1, <2>3, <3>1 DEF RemoveProduct, TypeOK
    <3> QED
      BY <3>2
  <2>4. ASSUME NEW p \in Requests, StoreUrls(p)
        PROVE  Entered
    <3>1. req[p].product \in Products /\ At(p, "shrunk")
      BY <1>1, <2>4, Carried DEF StoreUrls
    <3>2. \A x \in Products :
            \/ product'[x] = product[x]
            \/ x = req[p].product /\ product'[x].image = req[p].upload
      BY <1>1, <2>4, <3>1 DEF StoreUrls, TypeOK
    <3> QED
      BY <3>1, <3>2
  <2>5. CASE product' = product
    BY <2>5
  <2> HIDE DEF Entered
  <2> QED
    BY <1>1, <2>1, <2>2, <2>3, <2>4, <2>5, Writers
       DEF tables, InsertCategory, DropCategory, store_product_image,
           store_product_thumbnail
<1>2. TypeOK /\ [Next]_vars => [Entered]_vars
  BY <1>1
<1> QED
  BY <1>2, TypeCorrect, PTL DEF Spec, PicturesDoNotReturn

\* Keys of rows, listed or gone, are there to stay.
LEMMA KeysStay ==
  ASSUME TypeOK, [Next]_vars
  PROVE  \A c \in Categories : category[c].phase # "none" =>
           category'[c].phase # "none" /\ category'[c].key = category[c].key
<1>1. ASSUME NEW p \in Requests, InsertCategory(p)
      PROVE  \A c \in Categories : category[c].phase # "none" => category'[c] = category[c]
  BY <1>1 DEF InsertCategory, TypeOK
<1>2. ASSUME NEW p \in Requests, DropCategory(p)
      PROVE  \A c \in Categories : category[c].phase # "none" =>
               category'[c].phase # "none" /\ category'[c].key = category[c].key
  <2>1. req[p].category \in Categories
    BY <1>2, Carried DEF DropCategory
  <2> QED
    BY <1>2, <2>1 DEF DropCategory, TypeOK
<1> QED
  BY <1>1, <1>2, Writers DEF tables, InsertProduct, StoreProduct, RemoveProduct,
     store_product_image, store_product_thumbnail, StoreUrls

\* The search tries every suffix in turn and goes on only from a taken key;
\* keys of rows never change, so what was taken has been somebody's.
THEOREM NoKeyLeftOut == Spec => []NoKeyPassedOver
<1> DEFINE Used(slug, n) ==
      \E c \in Categories : category[c].phase # "none" /\ category[c].key = KeyFor(slug, n)
<1>1. Init => NoKeyPassedOver
  BY DEF Init, NoKeyPassedOver, At, Idle
<1>2. ASSUME TypeOK, NoKeyPassedOver, [Next]_vars
      PROVE  NoKeyPassedOver'
  <2>0. \A slug, n : Used(slug, n) => Used(slug, n)'
    BY <1>2, KeysStay DEF KeyFor
  <2>1. ASSUME NEW p \in Requests, At(p, "probing") \/ At(p, "inserting")
        PROVE  \A n \in 1..(req[p].suffix - 1) : Used(req[p].slug, n)
    BY <1>2, <2>1 DEF NoKeyPassedOver
  <2> HIDE DEF Used
  <2> DEFINE Sound(p) == At(p, "probing") \/ At(p, "inserting") =>
                           \A n \in 1..(req[p].suffix - 1) : Used(req[p].slug, n)
  <2>2. ASSUME NEW p \in Requests, req'[p] = req[p]
        PROVE  Sound(p)'
    BY <2>0, <2>1, <2>2 DEF At
  <2>3. ASSUME NEW p \in Requests, NEW r, Become(p, r),
               \/ r.at \notin {"probing", "inserting"}
               \/ \A n \in 1..(r.suffix - 1) : Used(r.slug, n)
        PROVE  \A q \in Requests : Sound(q)'
    <3>1. req'[p] = r /\ \A q \in Requests \ {p} : req'[q] = req[q]
      BY <1>2, <2>3 DEF Become, TypeOK
    <3>2. Sound(p)'
      BY <2>0, <2>3, <3>1 DEF At
    <3> QED
      BY <2>2, <3>1, <3>2
  <2>4. ASSUME NEW p \in Requests, ProbeKey(p)
        PROVE  \A q \in Requests : Sound(q)'
    <3>1. PICK slug \in Slugs, n \in Nat \ {0} :
            req[p] = [at |-> "probing", slug |-> slug, suffix |-> n]
      BY <1>2, <2>4, Carried DEF ProbeKey, At
    <3>2. \A i \in 1..(n - 1) : Used(slug, i)
      BY <2>1, <3>1 DEF At
    <3>3. CASE Taken(KeyFor(slug, n))
      <4>1. Used(slug, n)
        BY <3>3 DEF Taken, Listed, Used
      <4>2. \A i \in 1..((n + 1) - 1) : Used(slug, i)
        <5>1. \A i \in 1..((n + 1) - 1) : i = n \/ i \in 1..(n - 1)
          BY <3>1
        <5> QED
          BY <3>2, <4>1, <5>1
      <4>3. Become(p, [at |-> "probing", slug |-> slug, suffix |-> n + 1])
        BY <2>4, <3>1, <3>3 DEF ProbeKey
      <4> QED
        BY <2>3, <4>2, <4>3
    <3>4. CASE ~Taken(KeyFor(slug, n))
      <4>1. Become(p, [at |-> "inserting", slug |-> slug, suffix |-> n])
        BY <2>4, <3>1, <3>4 DEF ProbeKey
      <4> QED
        BY <2>3, <3>2, <4>1
    <3> QED
      BY <3>3, <3>4
  <2>5. ASSUME NEW p \in Requests, NEW slug \in Slugs, CreateCategory(p, slug)
        PROVE  \A q \in Requests : Sound(q)'
    <3>1. \A n \in 1..(1 - 1) : Used(slug, n)
      OBVIOUS
    <3> QED
      BY <2>3, <2>5, <3>1 DEF CreateCategory, Begin
  <2>6. ASSUME NEW p \in Requests, store_product_image(p) \/ store_product_thumbnail(p)
        PROVE  \A q \in Requests : Sound(q)'
    <3>1. At(p, "uploading") \/ At(p, "pictured")
      BY <2>6 DEF store_product_image, store_product_thumbnail
    <3>2. PICK x \in Products, u \in Uploads :
            req[p] = [at |-> req[p].at, product |-> x, upload |-> u]
      BY <1>2, <3>1, Carried
    <3>3. /\ [req[p] EXCEPT !.at = "pictured"].at = "pictured"
          /\ [req[p] EXCEPT !.at = "shrunk"].at = "shrunk"
      BY <3>2
    <3> QED
      BY <2>3, <2>6, <3>3 DEF store_product_image, store_product_thumbnail
  <2>7. Idle.at \notin {"probing", "inserting"}
    BY DEF Idle
  <2>8. UNCHANGED vars => \A q \in Requests : Sound(q)'
    BY <2>2 DEF vars
  <2> HIDE DEF Sound
  <2>9. ASSUME NEW p \in Requests, Start(p)
        PROVE  \A q \in Requests : Sound(q)'
    <3>1. CASE \E slug \in Slugs : CreateCategory(p, slug)
      BY <2>5, <3>1
    <3>2. ASSUME NEW r, Begin(p, r), r.at \notin {"probing", "inserting"}
          PROVE  \A q \in Requests : Sound(q)'
      BY <2>3, <3>2 DEF Begin
    <3>3. CASE \E c \in Categories : ReadForDelete(p, c)
      BY <3>2, <3>3 DEF ReadForDelete
    <3>4. CASE \E c \in Categories, image \in {Nothing, Elsewhere} : CreateProduct(p, c, image)
      BY <3>2, <3>4 DEF CreateProduct
    <3>5. CASE \E x \in Products, c \in Categories :
                 \E image \in {Nothing, Elsewhere, product[x].image} :
                   UpdateProduct(p, x, c, image)
      BY <3>2, <3>5 DEF UpdateProduct
    <3>6. CASE \E x \in Products : ReadForDeletion(p, x)
      BY <3>2, <3>6 DEF ReadForDeletion
    <3>7. CASE \E x \in Products, u \in Uploads : Upload(p, x, u)
      BY <3>2, <3>7 DEF Upload
    <3> QED
      BY <2>9, <3>1, <3>3, <3>4, <3>5, <3>6, <3>7 DEF Start
  <2>10. ASSUME NEW p \in Requests, Continue(p) \/ Abort(p)
         PROVE  \A q \in Requests : Sound(q)'
    BY <2>3, <2>4, <2>6, <2>7, <2>10
       DEF Continue, Abort, InsertCategory, DropCategory, InsertProduct, StoreProduct,
           RemoveProduct, StoreUrls
  <2>11. \A q \in Requests : Sound(q)'
    BY <1>2, <2>8, <2>9, <2>10 DEF Next
  <2>12. NoKeyPassedOver' <=> \A q \in Requests : Sound(q)'
    BY DEF NoKeyPassedOver, Sound, Used
  <2> QED
    BY <2>11, <2>12
<1> QED
  BY <1>1, <1>2, TypeCorrect, PTL DEF Spec
=============================================================================
