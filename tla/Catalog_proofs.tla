--------------------------- MODULE Catalog_proofs ----------------------------
(***************************************************************************)
(* Proofs about the catalogue for every set of products, variants, labels  *)
(* and calls, and any number of requests at a time; about the pictures of  *)
(* the products, and about the search through the related designs.         *)
(***************************************************************************)
EXTENDS CatalogProps, LibraryProps, SumsAndLists_proofs

(* What a request has loaded.                                              *)
CatJobs == [call : CatalogCalls, variants : SUBSET Variants, cleared : Nat,
            measured : Nat, product : Products, source : VariantDocs, measures : SUBSET Sizes]

(* Only one kind of call gets to these places.                             *)
OpAt(at, op) ==
  /\ at \in {"measures", "counted"} => op = "deleteLabel"
  /\ at = "cleared" => op = "assignProductToCategory"
  /\ at \in {"product", "variant"} => op = "createUniqueProduct"

CatInv ==
  /\ CatalogTypeOK
  /\ catJob \in [CatalogSlots -> CatJobs]
  /\ \A s \in CatalogSlots : OpAt(catPc[s], catJob[s].call.op)

(* The fields of each kind of call.                                        *)
LEMMA CatalogFields ==
  ASSUME NEW c \in CatalogCalls
  PROVE  /\ c.op \in {"createProduct", "editProduct"}
            => c.product \in Products /\ c.slug \in Slugs /\ c.measures \subseteq Sizes
         /\ c.op \in {"createVariant", "editVariant"}
            => /\ c.variant \in Variants /\ c.product \in Products
               /\ c.color \in Colors /\ c.size \in Sizes /\ c.stock \in Nat
         /\ c.op \in {"deleteVariant", "createListing", "createUniqueProduct"}
            => c.variant \in Variants
         /\ c.op = "createUniqueProduct" => c.slug \in Slugs
         /\ c.op = "createListing" => c.category \in Categories \cup {NoLabel}
         /\ c.op = "updateShowcase" => c.active \in BOOLEAN
         /\ c.op = "assignProductToCategory" => c.category \in Categories
         /\ c.op \in {"createLabel", "deleteLabel"} => c.label \in Labels
<1>1. c \in CatalogRequests
  BY CatalogAssumption
<1>2. CASE c \in [op : {"createProduct", "editProduct"}, product : Products,
                  slug : Slugs, measures : SUBSET Sizes]
  BY <1>2
<1>3. CASE c \in [op : {"deleteProduct", "removeProductFromCategory"}, product : Products]
  BY <1>3
<1>4. CASE c \in [op : {"createVariant", "editVariant"}, variant : Variants,
                  product : Products, color : Colors, size : Sizes, stock : Nat]
  BY <1>4
<1>5. CASE c \in [op : {"deleteVariant"}, variant : Variants]
  BY <1>5
<1>6. CASE c \in [op : {"createListing"}, variant : Variants,
                  category : Categories \cup {NoLabel}]
  BY <1>6
<1>7. CASE c \in [op : {"updateShowcase"}, product : Products, active : BOOLEAN]
  BY <1>7
<1>8. CASE c \in [op : {"assignProductToCategory"}, product : Products,
                  category : Categories]
  BY <1>8
<1>9. CASE c \in [op : {"createLabel", "deleteLabel"}, label : Labels]
  BY <1>9
<1>10. CASE c \in [op : {"createUniqueProduct"}, variant : Variants, slug : Slugs]
  BY <1>10
<1> QED
  BY <1>1, <1>2, <1>3, <1>4, <1>5, <1>6, <1>7, <1>8, <1>9, <1>10 DEF CatalogRequests

LEMMA NoVariantType == NoVariant \in VariantDocs
<1>1. /\ (CHOOSE p \in Products : TRUE) \in Products
      /\ (CHOOSE l \in Colors : TRUE) \in Colors
      /\ (CHOOSE l \in Sizes : TRUE) \in Sizes
  BY CatalogAssumption
<1> QED
  BY <1>1 DEF NoVariant, VariantDocs

LEMMA IdleCatJobType == IdleCatJob \in CatJobs
<1>1. /\ (CHOOSE p \in Products : TRUE) \in Products
      /\ (CHOOSE c \in CatalogCalls : TRUE) \in CatalogCalls
  BY CatalogAssumption
<1> QED
  BY <1>1, NoVariantType DEF IdleCatJob, CatJobs

LEMMA CatInit == CatalogInit => CatInv
<1> SUFFICES ASSUME CatalogInit PROVE CatInv
  OBVIOUS
<1>1. PICK c \in InitCatalog :
        products = c.products /\ variants = c.variants /\ labels = c.labels
  BY DEF CatalogInit
<1>2. /\ products \in [Products -> ProductDocs] /\ variants \in [Variants -> VariantDocs]
      /\ labels \subseteq Labels
  BY <1>1, CatalogAssumption
<1>3. \A s \in CatalogSlots : catJob[s].call \in CatalogCalls
  BY IdleCatJobType DEF CatalogInit, CatJobs
<1> QED
  BY <1>2, <1>3, IdleCatJobType, CatalogAssumption
  DEF CatalogInit, CatInv, CatalogTypeOK, CatPCs, OpAt, Counts

(* A call that is found, with what was read for it.                        *)
LEMMA FindType ==
  ASSUME CatInv, NEW s \in CatalogSlots, NEW c \in CatalogCalls, NEW j \in CatJobs,
         NEW op, Find(s, c, op, j)
  PROVE  /\ catPc' \in [CatalogSlots -> CatPCs] /\ catJob' \in [CatalogSlots -> CatJobs]
         /\ catPc' = [catPc EXCEPT ![s] = "found"]
         /\ catJob' = [catJob EXCEPT ![s] = [j EXCEPT !.call = c]]
<1>1. [j EXCEPT !.call = c] \in CatJobs
  BY DEF CatJobs
<1> QED
  BY <1>1 DEF Find, CatGoto, CatInv, CatalogTypeOK, CatPCs

LEMMA StampType ==
  ASSUME CatInv, Stamped
  PROVE  clock' \in 0..MaxStamp /\ clock' = clock + 1 /\ clock \in Nat
  BY CatalogAssumption DEF CatInv, CatalogTypeOK, Stamped

(* The slots: every step keeps their types and the discipline of CatInv.   *)
LEMMA SlotsType ==
  ASSUME CatInv, NEW s \in CatalogSlots, NEW at \in CatPCs, NEW j \in CatJobs,
         catPc' = [catPc EXCEPT ![s] = at], catJob' = [catJob EXCEPT ![s] = j],
         OpAt(at, j.call.op)
  PROVE  /\ catPc' \in [CatalogSlots -> CatPCs]
         /\ catJob' \in [CatalogSlots -> CatJobs]
         /\ \A t \in CatalogSlots : catJob'[t].call \in CatalogCalls
         /\ \A t \in CatalogSlots : OpAt(catPc'[t], catJob'[t].call.op)
<1>1. catPc' \in [CatalogSlots -> CatPCs] /\ catJob' \in [CatalogSlots -> CatJobs]
  BY DEF CatInv, CatalogTypeOK
<1>2. \A t \in CatalogSlots : catJob'[t].call \in CatalogCalls
  BY <1>1 DEF CatJobs
<1> QED
  BY <1>1, <1>2 DEF CatInv, CatalogTypeOK

-----------------------------------------------------------------------------
(***************************************************************************)
(* What a step may write: a document that refers to a label afterwards did *)
(* so before, with the stamp it has, or carries the number of this write.  *)
(***************************************************************************)
Refers(v, label) == variants[v].exists /\ label \in {variants[v].color, variants[v].size}
Measures(p, label) == products[p].exists /\ label \in products[p].measures

SameListing(l, n) ==
  /\ l.variant = n.variant /\ l.category = n.category
  /\ l.stamp = n.stamp /\ l.cleared = n.cleared

ClockMoves == clock \in Nat /\ clock' \in {clock, clock + 1}
IsNew(stamp) == stamp = clock + 1 /\ clock' = clock + 1
VariantsGrow ==
  \A v \in Variants, label \in Labels :
    Refers(v, label)' => \/ Refers(v, label) /\ variants'[v].stamp = variants[v].stamp
                        \/ IsNew(variants'[v].stamp)
ProductsGrow ==
  \A p \in Products, label \in Labels :
    Measures(p, label)' => \/ Measures(p, label) /\ products'[p].stamp = products[p].stamp
                          \/ IsNew(products'[p].stamp)
ListingsGrow ==
  \A n \in listings' : \/ \E l \in listings : SameListing(l, n)
                       \/ IsNew(n.stamp)

Grows == ClockMoves /\ VariantsGrow /\ ProductsGrow /\ ListingsGrow

LEMMA SameClock == ASSUME CatInv, UNCHANGED clock PROVE ClockMoves
  BY CatalogAssumption DEF CatInv, CatalogTypeOK, ClockMoves

LEMMA SameVariants == ASSUME UNCHANGED variants PROVE VariantsGrow
  BY DEF VariantsGrow, Refers

LEMMA SameProducts == ASSUME UNCHANGED products PROVE ProductsGrow
  BY DEF ProductsGrow, Measures

(* Listings that stay as they are, or go.                                  *)
LEMMA FewerListings == ASSUME listings' \subseteq listings PROVE ListingsGrow
  BY DEF ListingsGrow, SameListing

LEMMA PutVariant ==
  ASSUME CatInv, NEW v \in Variants, NEW d \in VariantDocs,
         variants' = [variants EXCEPT ![v] = d],
         \/ IsNew(d.stamp)
         \/ ~ d.exists
         \/ /\ d.exists = variants[v].exists /\ d.color = variants[v].color
            /\ d.size = variants[v].size /\ d.stamp = variants[v].stamp
  PROVE  variants' \in [Variants -> VariantDocs] /\ VariantsGrow
<1>1. variants \in [Variants -> VariantDocs]
  BY DEF CatInv, CatalogTypeOK
<1>2. variants' \in [Variants -> VariantDocs]
  BY <1>1
<1>3. /\ variants'[v] = d
      /\ \A w \in Variants \ {v} : variants'[w] = variants[w]
  BY <1>1
<1> QED
  BY <1>2, <1>3 DEF VariantsGrow, Refers

LEMMA PutProduct ==
  ASSUME CatInv, NEW p \in Products, NEW d \in ProductDocs,
         products' = [products EXCEPT ![p] = d],
         IsNew(d.stamp) \/ ~ d.exists
  PROVE  products' \in [Products -> ProductDocs] /\ ProductsGrow
<1>1. products \in [Products -> ProductDocs]
  BY DEF CatInv, CatalogTypeOK
<1>2. products' \in [Products -> ProductDocs]
  BY <1>1
<1>3. /\ products'[p] = d
      /\ \A q \in Products \ {p} : products'[q] = products[q]
  BY <1>1
<1> QED
  BY <1>2, <1>3 DEF ProductsGrow, Measures

-----------------------------------------------------------------------------
(* The calls that are one write.                                           *)
LEMMA AtOnceSlots ==
  ASSUME CatInv, NEW s \in CatalogSlots, NEW c \in CatalogCalls, NEW op, AtOnce(s, c, op)
  PROVE  /\ c.op = op
         /\ catPc' \in [CatalogSlots -> CatPCs]
         /\ catJob' \in [CatalogSlots -> CatJobs]
         /\ \A t \in CatalogSlots : catJob'[t].call \in CatalogCalls
         /\ \A t \in CatalogSlots : OpAt(catPc'[t], catJob'[t].call.op)
<1>1. catJob[s] \in CatJobs /\ catJob' = [catJob EXCEPT ![s] = catJob[s]]
  BY DEF CatInv, AtOnce
<1>2. "done" \in CatPCs
  BY DEF CatPCs
<1> QED
  BY <1>1, <1>2, SlotsType DEF AtOnce, CatGoto, OpAt

LEMMA StoreProductGrows ==
  ASSUME CatInv, NEW s \in CatalogSlots, NEW c \in CatalogCalls, StoreProduct(s, c)
  PROVE  CatInv' /\ Grows
<1>1. c.product \in Products /\ c.slug \in Slugs /\ c.measures \subseteq Sizes
  BY CatalogFields DEF StoreProduct, AtOnce
<1>2. clock' \in 0..MaxStamp /\ clock' = clock + 1 /\ clock \in Nat
  BY StampType DEF StoreProduct
<1> DEFINE d == [exists |-> TRUE, slug |-> c.slug, measures |-> c.measures, stamp |-> clock']
<1>3. d \in ProductDocs /\ IsNew(d.stamp)
  BY <1>1, <1>2 DEF ProductDocs, IsNew
<1>4. products' = [products EXCEPT ![c.product] = d]
  BY DEF StoreProduct
<1> HIDE DEF d
<1>5. products' \in [Products -> ProductDocs] /\ ProductsGrow
  BY <1>1, <1>3, <1>4, PutProduct
<1>6. UNCHANGED <<variants, listings, labels, counted, taken>>
  BY DEF StoreProduct
<1>7. VariantsGrow /\ ListingsGrow /\ ClockMoves
  BY <1>2, <1>6, SameVariants, FewerListings DEF ClockMoves
<1>8. AtOnce(s, c, "createProduct") \/ AtOnce(s, c, "editProduct")
  BY DEF StoreProduct
<1> QED
  BY <1>2, <1>5, <1>6, <1>7, <1>8, AtOnceSlots DEF CatInv, CatalogTypeOK, Grows

LEMMA DeleteDocGrows ==
  ASSUME CatInv, NEW s \in CatalogSlots, NEW c \in CatalogCalls, DeleteDoc(s, c)
  PROVE  CatInv' /\ Grows
<1>1. UNCHANGED <<listings, labels, clock, counted, taken>>
  BY DEF DeleteDoc
<1>2. ListingsGrow /\ ClockMoves
  BY <1>1, FewerListings, SameClock
<1>3. CASE /\ AtOnce(s, c, "deleteProduct")
           /\ products' = [products EXCEPT ![c.product].exists = FALSE]
           /\ UNCHANGED variants
  <2>1. CASE c.product \in Products
    <3>1. products[c.product] \in ProductDocs
      BY <2>1 DEF CatInv, CatalogTypeOK
    <3>2. /\ [products[c.product] EXCEPT !.exists = FALSE] \in ProductDocs
          /\ ~ [products[c.product] EXCEPT !.exists = FALSE].exists
      BY <3>1 DEF ProductDocs
    <3>3. products' = [products EXCEPT ![c.product] =
                         [products[c.product] EXCEPT !.exists = FALSE]]
      BY <1>3
    <3>4. products' \in [Products -> ProductDocs] /\ ProductsGrow
      BY <2>1, <3>2, <3>3, PutProduct
    <3> QED
      BY <1>1, <1>2, <1>3, <3>4, AtOnceSlots, SameVariants
      DEF CatInv, CatalogTypeOK, Grows
  <2>2. CASE c.product \notin Products
    <3>1. UNCHANGED products
      BY <1>3, <2>2 DEF CatInv, CatalogTypeOK
    <3> QED
      BY <1>1, <1>2, <1>3, <3>1, AtOnceSlots, SameVariants, SameProducts
      DEF CatInv, CatalogTypeOK, Grows
  <2> QED
    BY <2>1, <2>2
<1>4. CASE /\ AtOnce(s, c, "deleteVariant")
           /\ variants' = [variants EXCEPT ![c.variant].exists = FALSE]
           /\ UNCHANGED products
  <2>1. c.variant \in Variants
    BY <1>4, CatalogFields DEF AtOnce
  <2>2. variants[c.variant] \in VariantDocs
    BY <2>1 DEF CatInv, CatalogTypeOK
  <2>3. /\ [variants[c.variant] EXCEPT !.exists = FALSE] \in VariantDocs
        /\ ~ [variants[c.variant] EXCEPT !.exists = FALSE].exists
    BY <2>2 DEF VariantDocs
  <2>4. variants' = [variants EXCEPT ![c.variant] =
                       [variants[c.variant] EXCEPT !.exists = FALSE]]
    BY <1>4
  <2>5. variants' \in [Variants -> VariantDocs] /\ VariantsGrow
    BY <2>1, <2>3, <2>4, PutVariant
  <2> QED
    BY <1>1, <1>2, <1>4, <2>5, AtOnceSlots, SameProducts
    DEF CatInv, CatalogTypeOK, Grows
<1> QED
  BY <1>3, <1>4 DEF DeleteDoc

LEMMA StoreVariantGrows ==
  ASSUME CatInv, NEW s \in CatalogSlots, NEW c \in CatalogCalls, StoreVariant(s, c)
  PROVE  CatInv' /\ Grows
<1>1. /\ c.variant \in Variants /\ c.product \in Products
      /\ c.color \in Colors /\ c.size \in Sizes /\ c.stock \in Nat
  BY CatalogFields DEF StoreVariant, AtOnce
<1>2. clock' \in 0..MaxStamp /\ clock' = clock + 1 /\ clock \in Nat
  BY StampType DEF StoreVariant
<1> DEFINE d == [exists |-> TRUE, product |-> c.product, color |-> c.color,
                 size |-> c.size, stock |-> c.stock, stamp |-> clock']
<1>3. d \in VariantDocs /\ IsNew(d.stamp)
  BY <1>1, <1>2 DEF VariantDocs, IsNew
<1>4. variants' = [variants EXCEPT ![c.variant] = d]
  BY DEF StoreVariant
<1> HIDE DEF d
<1>5. variants' \in [Variants -> VariantDocs] /\ VariantsGrow
  BY <1>1, <1>3, <1>4, PutVariant
<1>6. UNCHANGED <<products, listings, labels, counted, taken>>
  BY DEF StoreVariant
<1>7. ProductsGrow /\ ListingsGrow /\ ClockMoves
  BY <1>2, <1>6, SameProducts, FewerListings DEF ClockMoves
<1>8. AtOnce(s, c, "createVariant") \/ AtOnce(s, c, "editVariant")
  BY DEF StoreVariant
<1> QED
  BY <1>2, <1>5, <1>6, <1>7, <1>8, AtOnceSlots DEF CatInv, CatalogTypeOK, Grows

LEMMA CreateListingGrows ==
  ASSUME CatInv, NEW s \in CatalogSlots, NEW c \in CatalogCalls, CreateListing(s, c)
  PROVE  CatInv' /\ Grows
<1>1. c.variant \in Variants /\ c.category \in Categories \cup {NoLabel}
  BY CatalogFields DEF CreateListing, AtOnce
<1>2. clock' \in 0..MaxStamp /\ clock' = clock + 1 /\ clock \in Nat
  BY StampType DEF CreateListing
<1> DEFINE n == [variant |-> c.variant, category |-> c.category, active |-> TRUE,
                 stamp |-> clock', cleared |-> -1]
<1>3. n \in Listings /\ IsNew(n.stamp)
  BY <1>1, <1>2 DEF Listings, IsNew
<1>4. listings' = listings \cup {n}
  BY DEF CreateListing
<1> HIDE DEF n
<1>5. listings' \subseteq Listings /\ ListingsGrow
  BY <1>3, <1>4 DEF CatInv, CatalogTypeOK, ListingsGrow, SameListing
<1>6. UNCHANGED <<products, variants, labels, counted, taken>> /\ AtOnce(s, c, "createListing")
  BY DEF CreateListing
<1>7. VariantsGrow /\ ProductsGrow /\ ClockMoves
  BY <1>2, <1>6, SameProducts, SameVariants DEF ClockMoves
<1> QED
  BY <1>2, <1>5, <1>6, <1>7, AtOnceSlots DEF CatInv, CatalogTypeOK, Grows

LEMMA EditListingGrows ==
  ASSUME CatInv, EditListing
  PROVE  CatInv' /\ Grows
<1>1. UNCHANGED <<products, variants, labels, counted, taken, catPc, catJob>>
  BY DEF EditListing
<1>2. VariantsGrow /\ ProductsGrow
  BY <1>1, SameProducts, SameVariants
<1>3. PICK l \in listings :
        \/ \E category \in Categories \cup {NoLabel}, active \in BOOLEAN :
             /\ Stamped
             /\ listings' = (listings \ {l}) \cup
                  {[l EXCEPT !.category = category, !.active = active,
                             !.stamp = clock', !.cleared = -1]}
        \/ listings' = listings \ {l} /\ UNCHANGED clock
  BY DEF EditListing
<1>4. CASE listings' = listings \ {l} /\ UNCHANGED clock
  BY <1>1, <1>2, <1>4, FewerListings, SameClock DEF CatInv, CatalogTypeOK, Grows
<1>5. ASSUME NEW category \in Categories \cup {NoLabel}, NEW active \in BOOLEAN,
             Stamped,
             listings' = (listings \ {l}) \cup
                  {[l EXCEPT !.category = category, !.active = active,
                             !.stamp = clock', !.cleared = -1]}
      PROVE  CatInv' /\ Grows
  <2>1. clock' \in 0..MaxStamp /\ clock' = clock + 1 /\ clock \in Nat
    BY <1>5, StampType
  <2> DEFINE n == [l EXCEPT !.category = category, !.active = active,
                            !.stamp = clock', !.cleared = -1]
  <2>2. l \in Listings
    BY DEF CatInv, CatalogTypeOK
  <2>3. n \in Listings /\ IsNew(n.stamp)
    <3>1. n.stamp = clock'
      BY <2>2 DEF Listings
    <3>2. clock' \in Nat
      BY <2>1
    <3> DEFINE m == [l EXCEPT !.category = category]
               k == [m EXCEPT !.active = active]
               h == [k EXCEPT !.stamp = clock']
    <3>3. m \in Listings
      BY <2>2 DEF Listings
    <3>4. k \in Listings
      <4> HIDE DEF m
      <4> QED
        BY <3>3 DEF Listings
    <3>5. h \in Listings
      <4> HIDE DEF k
      <4> QED
        BY <3>2, <3>4 DEF Listings
    <3>6. [h EXCEPT !.cleared = -1] \in Listings
      <4> HIDE DEF h
      <4> QED
        BY <3>5 DEF Listings
    <3>7. n = [h EXCEPT !.cleared = -1]
      OBVIOUS
    <3>8. n \in Listings
      BY <3>6, <3>7
    <3> QED
      BY <2>1, <3>1, <3>8 DEF IsNew
  <2>4. listings' = (listings \ {l}) \cup {n}
    BY <1>5
  <2> HIDE DEF n
  <2>5. listings' \subseteq Listings /\ ListingsGrow
    BY <2>3, <2>4 DEF CatInv, CatalogTypeOK, ListingsGrow, SameListing
  <2> QED
    BY <1>1, <1>2, <2>1, <2>5 DEF CatInv, CatalogTypeOK, Grows, ClockMoves
<1> QED
  BY <1>3, <1>4, <1>5

LEMMA CreateLabelGrows ==
  ASSUME CatInv, NEW s \in CatalogSlots, NEW c \in CatalogCalls, CreateLabel(s, c)
  PROVE  CatInv' /\ Grows
<1>1. UNCHANGED <<products, variants, listings, clock, counted, taken>>
      /\ AtOnce(s, c, "createLabel") /\ labels' = labels \cup {c.label}
  BY DEF CreateLabel
<1>2. c.label \in Labels
  BY <1>1, CatalogFields DEF AtOnce
<1> QED
  BY <1>1, <1>2, AtOnceSlots, SameProducts, SameVariants, FewerListings, SameClock
  DEF CatInv, CatalogTypeOK, Grows

-----------------------------------------------------------------------------
(* The calls that read first and the steps that follow.                    *)
LEMMA FindGrows ==
  ASSUME CatInv, NEW s \in CatalogSlots, NEW c \in CatalogCalls, NEW j \in CatJobs,
         NEW op, Find(s, c, op, j),
         UNCHANGED <<products, variants, listings, labels, clock, counted, taken>>
  PROVE  CatInv' /\ Grows
<1>1. [j EXCEPT !.call = c] \in CatJobs
  BY DEF CatJobs
<1>2. "found" \in CatPCs
  BY DEF CatPCs
<1>3. /\ catPc' \in [CatalogSlots -> CatPCs]
      /\ catJob' \in [CatalogSlots -> CatJobs]
      /\ \A t \in CatalogSlots : catJob'[t].call \in CatalogCalls
      /\ \A t \in CatalogSlots : OpAt(catPc'[t], catJob'[t].call.op)
  BY <1>1, <1>2, SlotsType DEF Find, CatGoto, OpAt
<1>4. Grows
  BY SameProducts, SameVariants, FewerListings, SameClock DEF Grows
<1> QED
  BY <1>3, <1>4 DEF CatInv, CatalogTypeOK

LEMMA FindCalls ==
  ASSUME CatInv, NEW s \in CatalogSlots, NEW c \in CatalogCalls,
         FindLabel(s, c) \/ FindVariants(s, c) \/ FindSource(s, c)
  PROVE  CatInv' /\ Grows
<1>0. /\ products \in [Products -> ProductDocs] /\ variants \in [Variants -> VariantDocs]
      /\ clock \in Nat
  BY CatalogAssumption DEF CatInv, CatalogTypeOK
<1>1. CASE FindLabel(s, c)
  BY <1>1, IdleCatJobType, FindGrows DEF FindLabel
<1>2. CASE FindVariants(s, c)
  <2>1. VariantsOf(c.product) \subseteq Variants
    BY DEF VariantsOf
  <2>2. [IdleCatJob EXCEPT !.variants = VariantsOf(c.product)] \in CatJobs
    BY <2>1, IdleCatJobType DEF CatJobs
  <2> QED
    BY <1>2, <2>2, FindGrows DEF FindVariants
<1>3. CASE FindSource(s, c)
  <2> DEFINE source == variants[c.variant]
             product == products[source.product]
             measures == IF product.exists THEN product.measures ELSE {}
  <2>1. c.variant \in Variants
    <3>1. c.op = "createUniqueProduct"
      BY <1>3 DEF FindSource, Find
    <3> QED
      BY <3>1, CatalogFields
  <2>2. source \in VariantDocs /\ source.product \in Products
    <3>1. source \in VariantDocs
      BY <1>0, <2>1
    <3> QED
      BY <3>1 DEF VariantDocs
  <2>3. measures \subseteq Sizes
    <3>1. product \in ProductDocs
      BY <1>0, <2>2
    <3> QED
      BY <3>1 DEF ProductDocs
  <2>4. [IdleCatJob EXCEPT !.source = source, !.measures = measures] \in CatJobs
    <3> HIDE DEF source, measures
    <3> QED
      BY <2>2, <2>3, IdleCatJobType DEF CatJobs
  <2>5. /\ Find(s, c, "createUniqueProduct",
                [IdleCatJob EXCEPT !.source = source, !.measures = measures])
        /\ UNCHANGED <<products, variants, listings, labels, clock, counted, taken>>
    BY <1>3 DEF FindSource
  <2> HIDE DEF source, measures
  <2> QED
    BY <2>4, <2>5, FindGrows
<1> QED
  BY <1>1, <1>2, <1>3

(* A later step: the request goes on with what it has loaded.              *)
LEMMA GoOn ==
  ASSUME CatInv, NEW s \in CatalogSlots, NEW at \in CatPCs, NEW j \in CatJobs,
         CatGoto(s, at), catJob' = [catJob EXCEPT ![s] = j], j.call = catJob[s].call,
         OpAt(at, j.call.op),
         /\ clock' \in 0..MaxStamp
         /\ products' \in [Products -> ProductDocs] /\ ProductsGrow
         /\ variants' \in [Variants -> VariantDocs] /\ VariantsGrow
         /\ listings' \subseteq Listings /\ ListingsGrow
         /\ labels' \subseteq Labels /\ counted' \in [Labels -> Counts]
         /\ taken' \subseteq [from : Variants, piece : Variants]
         /\ ClockMoves
  PROVE  CatInv' /\ Grows
<1>1. /\ catPc' \in [CatalogSlots -> CatPCs]
      /\ catJob' \in [CatalogSlots -> CatJobs]
      /\ \A t \in CatalogSlots : catJob'[t].call \in CatalogCalls
      /\ \A t \in CatalogSlots : OpAt(catPc'[t], catJob'[t].call.op)
  BY SlotsType DEF CatGoto
<1> QED
  BY <1>1 DEF CatInv, CatalogTypeOK, Grows

LEMMA LaterSteps ==
  ASSUME CatInv, NEW s \in CatalogSlots,
         \/ CountUses(s) \/ CountMeasures(s) \/ DeleteLabel(s)
         \/ ClearCategory(s) \/ InsertListings(s) \/ SetShowcase(s)
  PROVE  CatInv' /\ Grows
<1> DEFINE j == catJob[s]
<1>0. /\ j \in CatJobs /\ j.call \in CatalogCalls /\ j.variants \subseteq Variants
      /\ j.cleared \in Nat /\ j.measured \in Nat /\ OpAt(catPc[s], j.call.op)
      /\ {"measures", "counted"} \subseteq CatPCs
      /\ catJob = [catJob EXCEPT ![s] = j]
      /\ "done" \in CatPCs /\ "cleared" \in CatPCs
      /\ products \in [Products -> ProductDocs] /\ variants \in [Variants -> VariantDocs]
      /\ listings \subseteq Listings /\ labels \subseteq Labels
      /\ clock \in Nat /\ clock \in 0..MaxStamp /\ counted \in [Labels -> Counts]
      /\ taken \subseteq [from : Variants, piece : Variants]
  BY CatalogAssumption DEF CatInv, CatalogTypeOK, CatJobs, CatPCs, Counts
<1>1. CASE DeleteLabel(s)
  <2>1. j.call.label \in Labels
    BY <1>0, <1>1, CatalogFields DEF DeleteLabel, OpAt
  <2>0. [uses |-> j.cleared, measures |-> j.measured] \in Counts
    BY <1>0 DEF Counts
  <2>2. labels' \subseteq Labels /\ counted' \in [Labels -> Counts]
    <3>1. /\ labels' = labels \ {j.call.label}
          /\ \/ counted' = counted
             \/ counted' = [counted EXCEPT ![j.call.label] =
                              [uses |-> j.cleared, measures |-> j.measured]]
      BY <1>1 DEF DeleteLabel
    <3> HIDE DEF j
    <3> QED
      BY <1>0, <2>0, <2>1, <3>1
  <2>3. /\ UNCHANGED <<products, variants, listings, clock, taken>>
        /\ CatGoto(s, "done") /\ catJob' = [catJob EXCEPT ![s] = j]
    BY <1>0, <1>1 DEF DeleteLabel
  <2> HIDE DEF j
  <2>4. ProductsGrow /\ VariantsGrow /\ ListingsGrow /\ ClockMoves
    BY <2>3, SameProducts, SameVariants, FewerListings, SameClock
  <2> QED
    BY <1>0, <2>2, <2>3, <2>4, GoOn DEF j, OpAt
<1>2. CASE CountUses(s)
  <2> DEFINE d == [j EXCEPT !.cleared = clock, !.measured = clock]
  <2>1. d \in CatJobs /\ d.call = j.call
    BY <1>0 DEF CatJobs
  <2>2. /\ UNCHANGED <<products, variants, listings, labels, clock, counted, taken>>
        /\ catJob' = [catJob EXCEPT ![s] = d]
        /\ j.call.op = "deleteLabel"
    BY <1>2 DEF CountUses
  <2>3. PICK at \in {"measures", "counted", "done"} : CatGoto(s, at)
    BY <1>2 DEF CountUses
  <2>4. ProductsGrow /\ VariantsGrow /\ ListingsGrow /\ ClockMoves
    BY <2>2, SameProducts, SameVariants, FewerListings, SameClock
  <2>5. OpAt(at, d.call.op)
    BY <2>1, <2>2 DEF OpAt
  <2> HIDE DEF d
  <2> QED
    BY <1>0, <2>1, <2>2, <2>3, <2>4, <2>5, GoOn
<1>3. CASE CountMeasures(s)
  <2> DEFINE d == [j EXCEPT !.measured = clock]
  <2>1. d \in CatJobs /\ d.call = j.call
    BY <1>0 DEF CatJobs
  <2>2. /\ UNCHANGED <<products, variants, listings, labels, clock, counted, taken>>
        /\ catJob' = [catJob EXCEPT ![s] = d]
        /\ catPc[s] = "measures"
    BY <1>3 DEF CountMeasures
  <2>3. PICK at \in {"counted", "done"} : CatGoto(s, at)
    BY <1>3 DEF CountMeasures
  <2>4. ProductsGrow /\ VariantsGrow /\ ListingsGrow /\ ClockMoves
    BY <2>2, SameProducts, SameVariants, FewerListings, SameClock
  <2>5. OpAt(at, d.call.op)
    BY <1>0, <2>1, <2>2 DEF OpAt
  <2> HIDE DEF d
  <2> QED
    BY <1>0, <2>1, <2>2, <2>3, <2>4, <2>5, GoOn
<1>4. CASE ClearCategory(s)
  <2> DEFINE d == [j EXCEPT !.cleared = clock]
  <2>1. d \in CatJobs /\ d.call = j.call
    BY <1>0 DEF CatJobs
  <2>2. /\ UNCHANGED <<products, variants, labels, clock, counted, taken>>
        /\ listings' \subseteq listings
        /\ catJob' = [catJob EXCEPT ![s] = d]
        /\ \/ CatGoto(s, "cleared") /\ j.call.op = "assignProductToCategory"
           \/ CatGoto(s, "done")
    BY <1>4 DEF ClearCategory
  <2>3. ProductsGrow /\ VariantsGrow /\ ListingsGrow /\ ClockMoves
    BY <2>2, SameProducts, SameVariants, FewerListings, SameClock
  <2> HIDE DEF d
  <2>4. CASE CatGoto(s, "cleared") /\ j.call.op = "assignProductToCategory"
    BY <1>0, <2>1, <2>2, <2>3, <2>4, GoOn DEF OpAt
  <2>5. CASE CatGoto(s, "done")
    BY <1>0, <2>1, <2>2, <2>3, <2>5, GoOn DEF OpAt
  <2> QED
    BY <2>2, <2>4, <2>5
<1>5. CASE InsertListings(s)
  <2>1. clock' \in 0..MaxStamp /\ clock' = clock + 1 /\ clock' \in Nat /\ ClockMoves
    BY <1>0, <1>5, StampType DEF InsertListings, ClockMoves
  <2>2. j.call.category \in Categories
    BY <1>0, <1>5, CatalogFields DEF InsertListings, CatInv, OpAt
  <2> DEFINE new == {[variant |-> v, category |-> j.call.category, active |-> TRUE,
                      stamp |-> clock', cleared |-> j.cleared] : v \in j.variants}
  <2>3. new \subseteq Listings /\ \A n \in new : IsNew(n.stamp)
    <3>1. ASSUME NEW v \in j.variants
          PROVE  LET n == [variant |-> v, category |-> j.call.category, active |-> TRUE,
                           stamp |-> clock', cleared |-> j.cleared]
                 IN  n \in Listings /\ IsNew(n.stamp)
      <4>1. v \in Variants /\ j.cleared \in Int /\ j.call.category \in Categories
        BY <1>0, <2>2, <3>1
      <4> HIDE DEF j
      <4> QED
        BY <2>1, <4>1 DEF Listings, IsNew
    <3> QED
      BY <3>1
  <2>4. /\ listings' = listings \cup new
        /\ UNCHANGED <<products, variants, labels, counted, taken>>
        /\ CatGoto(s, "done") /\ catJob' = [catJob EXCEPT ![s] = j]
    BY <1>0, <1>5 DEF InsertListings
  <2> HIDE DEF new, j
  <2>5. listings' \subseteq Listings /\ ListingsGrow
    BY <1>0, <2>3, <2>4 DEF ListingsGrow, SameListing
  <2>6. ProductsGrow /\ VariantsGrow
    BY <2>4, SameProducts, SameVariants
  <2> QED
    BY <1>0, <2>1, <2>4, <2>5, <2>6, GoOn DEF j, OpAt
<1>6. CASE SetShowcase(s)
  <2>1. j.call.active \in BOOLEAN
    BY <1>0, <1>6, CatalogFields DEF SetShowcase
  <2>2. ASSUME NEW l \in listings
        PROVE  /\ [l EXCEPT !.active = j.call.active] \in Listings
               /\ SameListing(l, [l EXCEPT !.active = j.call.active])
    <3>1. l \in Listings
      BY <1>0
    <3> HIDE DEF j
    <3> QED
      BY <2>1, <3>1 DEF Listings, SameListing
  <2>3. /\ listings' = {IF l.variant \in j.variants THEN [l EXCEPT !.active = j.call.active]
                                                    ELSE l : l \in listings}
        /\ UNCHANGED <<products, variants, labels, clock, counted, taken>>
        /\ CatGoto(s, "done") /\ catJob' = [catJob EXCEPT ![s] = j]
    BY <1>0, <1>6 DEF SetShowcase
  <2> HIDE DEF j
  <2>4. listings' \subseteq Listings
    BY <1>0, <2>2, <2>3
  <2>5. ListingsGrow
    BY <2>2, <2>3 DEF ListingsGrow, SameListing
  <2>6. ProductsGrow /\ VariantsGrow /\ ClockMoves
    BY <2>3, SameProducts, SameVariants, SameClock
  <2> QED
    BY <1>0, <2>3, <2>4, <2>5, <2>6, GoOn DEF j, OpAt
<1> QED
  BY <1>1, <1>2, <1>3, <1>4, <1>5, <1>6

LEMMA UniqueSteps ==
  ASSUME CatInv, NEW s \in CatalogSlots,
         SaveUniqueProduct(s) \/ SaveUniqueVariant(s) \/ TakePiece(s)
  PROVE  CatInv' /\ Grows
<1> DEFINE j == catJob[s]
<1>0. /\ j \in CatJobs /\ j.call \in CatalogCalls /\ j.source \in VariantDocs
      /\ j.product \in Products /\ j.measures \subseteq Sizes
      /\ catJob = [catJob EXCEPT ![s] = j]
      /\ "done" \in CatPCs /\ "product" \in CatPCs /\ "variant" \in CatPCs
      /\ products \in [Products -> ProductDocs] /\ variants \in [Variants -> VariantDocs]
      /\ listings \subseteq Listings /\ labels \subseteq Labels
      /\ clock \in Nat /\ clock \in 0..MaxStamp /\ counted \in [Labels -> Counts]
      /\ taken \subseteq [from : Variants, piece : Variants]
      /\ catPc[s] \in {"product", "variant"} => j.call.op = "createUniqueProduct"
  BY CatalogAssumption DEF CatInv, CatalogTypeOK, CatJobs, CatPCs, OpAt
<1>1. CASE SaveUniqueProduct(s)
  <2>1. j.call.op = "createUniqueProduct" /\ j.call.slug \in Slugs
    BY <1>0, <1>1, CatalogFields DEF SaveUniqueProduct
  <2>2. /\ UNCHANGED <<variants, listings, labels, counted, taken>>
        /\ VariantsGrow /\ ListingsGrow
    BY <1>1, SameVariants, FewerListings DEF SaveUniqueProduct
  <2>3. CASE CatGoto(s, "done") /\ UNCHANGED <<products, clock, catJob>>
    <3>1. catJob' = [catJob EXCEPT ![s] = j]
      BY <1>0, <2>3
    <3>2. ProductsGrow /\ ClockMoves
      BY <2>3, SameProducts, SameClock
    <3> HIDE DEF j
    <3> QED
      BY <1>0, <2>2, <2>3, <3>1, <3>2, GoOn DEF j, OpAt
  <2>4. ASSUME NEW p \in Products, Stamped,
               products' = [products EXCEPT ![p] =
                   [exists |-> TRUE, slug |-> j.call.slug, measures |-> j.measures,
                    stamp |-> clock']],
               CatGoto(s, "product"), catJob' = [catJob EXCEPT ![s].product = p]
        PROVE  CatInv' /\ Grows
    <3>1. clock' \in 0..MaxStamp /\ clock' = clock + 1 /\ ClockMoves
      BY <1>0, <2>4, StampType DEF ClockMoves
    <3> DEFINE d == [exists |-> TRUE, slug |-> j.call.slug, measures |-> j.measures,
                     stamp |-> clock']
               k == [j EXCEPT !.product = p]
    <3>2. d \in ProductDocs /\ IsNew(d.stamp)
      BY <1>0, <2>1, <3>1 DEF ProductDocs, IsNew
    <3>3. k \in CatJobs /\ k.call = j.call
      BY <1>0 DEF CatJobs
    <3>4. products' = [products EXCEPT ![p] = d] /\ catJob' = [catJob EXCEPT ![s] = k]
      BY <1>0, <2>4
    <3> HIDE DEF d, k
    <3>5. products' \in [Products -> ProductDocs] /\ ProductsGrow
      BY <3>2, <3>4, PutProduct
    <3> QED
      BY <1>0, <2>1, <2>2, <2>4, <3>1, <3>3, <3>4, <3>5, GoOn DEF OpAt
  <2> QED
    BY <1>1, <2>3, <2>4 DEF SaveUniqueProduct
<1>2. CASE SaveUniqueVariant(s)
  <2>1. j.call.op = "createUniqueProduct" /\ j.call.variant \in Variants
    BY <1>0, <1>2, CatalogFields DEF SaveUniqueVariant
  <2>2. /\ UNCHANGED <<products, listings, labels, counted>>
        /\ CatGoto(s, "variant") /\ catJob' = [catJob EXCEPT ![s] = j]
        /\ ProductsGrow /\ ListingsGrow
    BY <1>0, <1>2, SameProducts, FewerListings DEF SaveUniqueVariant
  <2>3. clock' \in 0..MaxStamp /\ clock' = clock + 1 /\ ClockMoves
    BY <1>0, <1>2, StampType DEF SaveUniqueVariant, ClockMoves
  <2>4. PICK v \in Variants :
          /\ variants' = [variants EXCEPT ![v] =
               [j.source EXCEPT !.product = j.product, !.stock = 1, !.stamp = clock']]
          /\ taken' = taken \cup {[from |-> j.call.variant, piece |-> v]}
    BY <1>2 DEF SaveUniqueVariant
  <2> DEFINE d == [j.source EXCEPT !.product = j.product, !.stock = 1, !.stamp = clock']
  <2>5. d \in VariantDocs /\ IsNew(d.stamp)
    <3> DEFINE m == [j.source EXCEPT !.product = j.product]
               k == [m EXCEPT !.stock = 1]
    <3> HIDE DEF j
    <3>1. m \in VariantDocs
      BY <1>0 DEF VariantDocs
    <3>2. k \in VariantDocs
      <4> HIDE DEF m
      <4> QED
        BY <3>1 DEF VariantDocs
    <3>3. clock' \in Int
      BY <2>3
    <3>4. [k EXCEPT !.stamp = clock'] \in VariantDocs /\ IsNew([k EXCEPT !.stamp = clock'].stamp)
      <4> HIDE DEF k
      <4> QED
        BY <2>3, <3>2, <3>3 DEF VariantDocs, IsNew
    <3>5. d = [k EXCEPT !.stamp = clock']
      OBVIOUS
    <3> QED
      BY <3>4, <3>5
  <2>6. variants' = [variants EXCEPT ![v] = d]
    BY <2>4
  <2> HIDE DEF d
  <2>7. variants' \in [Variants -> VariantDocs] /\ VariantsGrow
    BY <2>5, <2>6, PutVariant
  <2>8. taken' \subseteq [from : Variants, piece : Variants]
    BY <1>0, <2>1, <2>4
  <2> HIDE DEF j
  <2> QED
    BY <1>0, <2>1, <2>2, <2>3, <2>7, <2>8, GoOn DEF j, OpAt
<1>3. CASE TakePiece(s)
  <2>1. j.call.variant \in Variants
    BY <1>0, <1>3, CatalogFields DEF TakePiece
  <2>2. /\ UNCHANGED <<products, listings, labels, clock, counted, taken>>
        /\ CatGoto(s, "done") /\ catJob' = [catJob EXCEPT ![s] = j]
        /\ ProductsGrow /\ ListingsGrow /\ ClockMoves
    BY <1>0, <1>3, SameProducts, FewerListings, SameClock DEF TakePiece
  <2> DEFINE d == [variants[j.call.variant] EXCEPT
                     !.stock = variants[j.call.variant].stock - 1]
  <2>3. variants' = [variants EXCEPT ![j.call.variant] = d] \/ UNCHANGED variants
    BY <1>3 DEF TakePiece, StockLessOne
  <2>4. /\ d \in VariantDocs
        /\ d.exists = variants[j.call.variant].exists
        /\ d.color = variants[j.call.variant].color
        /\ d.size = variants[j.call.variant].size
        /\ d.stamp = variants[j.call.variant].stamp
    <3>1. variants[j.call.variant] \in VariantDocs
      BY <1>0, <2>1
    <3> HIDE DEF j
    <3> QED
      BY <3>1 DEF VariantDocs
  <2> HIDE DEF d
  <2>5. variants' \in [Variants -> VariantDocs] /\ VariantsGrow
    BY <1>0, <2>1, <2>3, <2>4, PutVariant, SameVariants
  <2> HIDE DEF j
  <2> QED
    BY <1>0, <2>2, <2>5, GoOn DEF j, OpAt
<1> QED
  BY <1>1, <1>2, <1>3

LEMMA CatStep ==
  ASSUME CatInv, [CatalogNext]_catalogVars
  PROVE  CatInv' /\ Grows
<1>1. ASSUME NEW s \in CatalogSlots, NEW c \in CatalogCalls,
             \/ StoreProduct(s, c) \/ DeleteDoc(s, c) \/ StoreVariant(s, c)
             \/ CreateListing(s, c) \/ CreateLabel(s, c) \/ FindLabel(s, c)
             \/ FindVariants(s, c) \/ FindSource(s, c)
      PROVE  CatInv' /\ Grows
  BY <1>1, StoreProductGrows, DeleteDocGrows, StoreVariantGrows, CreateListingGrows,
     CreateLabelGrows, FindCalls
<1>2. CASE UNCHANGED catalogVars
  BY <1>2, SameProducts, SameVariants, FewerListings, SameClock
  DEF catalogVars, CatInv, CatalogTypeOK, Grows
<1> QED
  BY <1>1, <1>2, EditListingGrows, LaterSteps, UniqueSteps DEF CatalogNext

(* The catalogue and what requests have loaded keep their types.           *)
THEOREM CatalogTypeCorrect == CatalogSpec => []CatalogTypeOK
<1>1. CatInv /\ [CatalogNext]_catalogVars => CatInv'
  BY CatStep
<1>2. CatInv => CatalogTypeOK
  BY DEF CatInv
<1> QED
  BY <1>1, <1>2, CatInit, PTL DEF CatalogSpec

-----------------------------------------------------------------------------
(***************************************************************************)
(* A deleted label is not referred to by what was there when that kind of  *)
(* use was counted.  Inductive with the same of a request that has made    *)
(* the first count, or both, and not yet deleted.                          *)
(***************************************************************************)
UsesAfter(label, t) ==
  /\ \A v \in Variants : Refers(v, label) => variants[v].stamp > t
  /\ \A l \in listings : l.category = label => l.stamp > t

MeasuresAfter(label, t) == \A p \in Products : Measures(p, label) => products[p].stamp > t

UnusedInv ==
  /\ CatInv
  /\ \A label \in Labels \ labels : /\ UsesAfter(label, counted[label].uses)
                                    /\ MeasuresAfter(label, counted[label].measures)
  /\ \A label \in Labels : counted[label].uses <= clock /\ counted[label].measures <= clock
  /\ \A s \in CatalogSlots :
       LET j == catJob[s] IN
       /\ catPc[s] \in {"measures", "counted"} =>
            j.cleared <= clock /\ UsesAfter(j.call.label, j.cleared)
       /\ catPc[s] = "counted" =>
            j.measured <= clock /\ MeasuresAfter(j.call.label, j.measured)

LEMMA StaysAfter ==
  ASSUME CatInv, Grows, NEW label \in Labels, NEW t \in Int, t <= clock
  PROVE  /\ t <= clock'
         /\ UsesAfter(label, t) => UsesAfter(label, t)'
         /\ MeasuresAfter(label, t) => MeasuresAfter(label, t)'
<1>1. clock \in Nat /\ clock' \in {clock, clock + 1}
  BY DEF Grows, ClockMoves
<1>2. ASSUME NEW stamp, IsNew(stamp)
      PROVE  stamp > t
  BY <1>1, <1>2 DEF IsNew
<1>3. ASSUME UsesAfter(label, t) PROVE UsesAfter(label, t)'
  <2>1. ASSUME NEW v \in Variants, Refers(v, label)'
        PROVE  variants'[v].stamp > t
    BY <1>2, <1>3, <2>1 DEF Grows, VariantsGrow, UsesAfter
  <2>2. ASSUME NEW l \in listings', l.category = label
        PROVE  l.stamp > t
    BY <1>2, <1>3, <2>2 DEF Grows, ListingsGrow, SameListing, UsesAfter
  <2> QED
    BY <2>1, <2>2 DEF UsesAfter
<1>4. ASSUME MeasuresAfter(label, t) PROVE MeasuresAfter(label, t)'
  <2>1. ASSUME NEW p \in Products, Measures(p, label)'
        PROVE  products'[p].stamp > t
    BY <1>2, <1>4, <2>1 DEF Grows, ProductsGrow, MeasuresAfter
  <2> QED
    BY <2>1 DEF MeasuresAfter
<1> QED
  BY <1>1, <1>3, <1>4

(* A request that has counted did so before, or counts in this step.       *)
LEMMA CountedOrStays ==
  ASSUME CatInv, [CatalogNext]_catalogVars, NEW s \in CatalogSlots,
         catPc'[s] \in {"measures", "counted"}
  PROVE  \/ catPc[s] = catPc'[s] /\ catJob'[s] = catJob[s]
         \/ CountUses(s) \/ CountMeasures(s)
<1>0. /\ catPc \in [CatalogSlots -> CatPCs] /\ catJob \in [CatalogSlots -> CatJobs]
  BY DEF CatInv, CatalogTypeOK
<1> DEFINE Goal == catPc[s] = catPc'[s] /\ catJob'[s] = catJob[s]
<1>1. ASSUME NEW t \in CatalogSlots, NEW at, CatGoto(t, at),
             at \notin {"measures", "counted"},
             \A r \in CatalogSlots \ {t} : catJob'[r] = catJob[r]
      PROVE  Goal
  BY <1>0, <1>1 DEF CatGoto
<1>2. ASSUME NEW t \in CatalogSlots, NEW c \in CatalogCalls,
             \/ StoreProduct(t, c) \/ DeleteDoc(t, c) \/ StoreVariant(t, c)
             \/ CreateListing(t, c) \/ CreateLabel(t, c)
      PROVE  Goal
  <2>1. CatGoto(t, "done") /\ UNCHANGED catJob
    BY <1>2 DEF StoreProduct, DeleteDoc, StoreVariant, CreateListing, CreateLabel, AtOnce
  <2> QED
    BY <1>1, <2>1
<1>3. ASSUME NEW t \in CatalogSlots, NEW c \in CatalogCalls,
             FindLabel(t, c) \/ FindVariants(t, c) \/ FindSource(t, c)
      PROVE  Goal
  <2>1. /\ CatGoto(t, "found")
        /\ \A r \in CatalogSlots \ {t} : catJob'[r] = catJob[r]
    BY <1>0, <1>3 DEF FindLabel, FindVariants, FindSource, Find
  <2> QED
    BY <1>1, <2>1
<1>4. ASSUME NEW t \in CatalogSlots,
             \/ DeleteLabel(t) \/ ClearCategory(t) \/ InsertListings(t) \/ SetShowcase(t)
             \/ SaveUniqueProduct(t) \/ SaveUniqueVariant(t) \/ TakePiece(t)
      PROVE  Goal
  <2>1. /\ \E at \in {"done", "cleared", "product", "variant"} : CatGoto(t, at)
        /\ \A r \in CatalogSlots \ {t} : catJob'[r] = catJob[r]
    BY <1>0, <1>4 DEF DeleteLabel, ClearCategory, InsertListings, SetShowcase,
       SaveUniqueProduct, SaveUniqueVariant, TakePiece
  <2> QED
    BY <1>1, <2>1
<1>5. ASSUME NEW t \in CatalogSlots, CountUses(t) \/ CountMeasures(t)
      PROVE  Goal \/ CountUses(s) \/ CountMeasures(s)
  <2>1. CASE t = s
    BY <1>5, <2>1
  <2>2. CASE t # s
    BY <1>0, <1>5, <2>2 DEF CountUses, CountMeasures, CatGoto
  <2> QED
    BY <2>1, <2>2
<1>6. ASSUME EditListing \/ UNCHANGED catalogVars
      PROVE  Goal
  BY <1>6 DEF EditListing, catalogVars
<1> HIDE DEF Goal
<1>7. Goal \/ CountUses(s) \/ CountMeasures(s)
  BY <1>2, <1>3, <1>4, <1>5, <1>6 DEF CatalogNext
<1> QED
  BY <1>7 DEF Goal

(* A count that lets a deletion go on found no use.                        *)
LEMMA NothingCounted ==
  ASSUME CatInv, NEW s \in CatalogSlots, CountUses(s) \/ CountMeasures(s),
         catPc'[s] \in {"measures", "counted"}
  PROVE  LET label == catJob[s].call.label
         IN  /\ catJob'[s].call = catJob[s].call
             /\ catJob'[s].measured = clock
             /\ UNCHANGED <<variants, products, listings, clock>>
             /\ CountUses(s) =>
                  /\ catJob'[s].cleared = clock
                  /\ \A v \in Variants : ~ Refers(v, label)
                  /\ \A l \in listings : l.category # label
             /\ CountMeasures(s) =>
                  catPc[s] = "measures" /\ catJob'[s].cleared = catJob[s].cleared
             /\ catPc'[s] = "counted" => \A p \in Products : ~ Measures(p, label)
<1> DEFINE label == catJob[s].call.label
<1>0. /\ catPc \in [CatalogSlots -> CatPCs] /\ catJob[s] \in CatJobs
      /\ catJob \in [CatalogSlots -> CatJobs]
      /\ products \in [Products -> ProductDocs]
  BY DEF CatInv, CatalogTypeOK
<1>1. CASE CountUses(s)
  <2>1. /\ catJob'[s] = [catJob[s] EXCEPT !.cleared = clock, !.measured = clock]
        /\ UNCHANGED <<variants, products, listings, clock>>
        /\ catPc[s] = "found"
    BY <1>0, <1>1 DEF CountUses
  <2>2. /\ catJob'[s].call = catJob[s].call
        /\ catJob'[s].measured = clock /\ catJob'[s].cleared = clock
    BY <1>0, <2>1 DEF CatJobs
  <2>3. ~ InUse(label) /\ (catPc'[s] = "counted" => label \notin Sizes)
    BY <1>0, <1>1 DEF CountUses, CatGoto
  <2>4. catPc'[s] = "counted" => \A p \in Products : ~ Measures(p, label)
    BY <1>0, <2>3 DEF Measures, ProductDocs
  <2>5. /\ \A v \in Variants : ~ Refers(v, label)
        /\ \A l \in listings : l.category # label
    BY <2>3 DEF InUse, Refers
  <2>6. ~ CountMeasures(s)
    BY <2>1 DEF CountMeasures
  <2> QED
    BY <2>1, <2>2, <2>4, <2>5, <2>6
<1>2. CASE CountMeasures(s)
  <2>1. /\ catJob'[s] = [catJob[s] EXCEPT !.measured = clock]
        /\ UNCHANGED <<variants, products, listings, clock>>
        /\ catPc[s] = "measures"
    BY <1>0, <1>2 DEF CountMeasures
  <2>2. /\ catJob'[s].call = catJob[s].call
        /\ catJob'[s].measured = clock /\ catJob'[s].cleared = catJob[s].cleared
    BY <1>0, <2>1 DEF CatJobs
  <2>3. ~ Measured(label)
    BY <1>0, <1>2 DEF CountMeasures, CatGoto
  <2>4. \A p \in Products : ~ Measures(p, label)
    BY <2>3 DEF Measures, Measured
  <2>5. ~ CountUses(s)
    BY <2>1 DEF CountUses
  <2> QED
    BY <2>1, <2>2, <2>4, <2>5
<1> QED
  BY <1>1, <1>2

LEMMA UnusedStep ==
  ASSUME UnusedInv, [CatalogNext]_catalogVars
  PROVE  UnusedInv'
<1>0. /\ CatInv /\ CatInv' /\ Grows
      /\ counted \in [Labels -> Counts] /\ clock \in Nat
      /\ catJob \in [CatalogSlots -> CatJobs]
      /\ catPc \in [CatalogSlots -> CatPCs]
  BY CatStep, CatalogAssumption DEF UnusedInv, CatInv, CatalogTypeOK
<1>1. ASSUME NEW s \in CatalogSlots, catPc[s] \in {"measures", "counted"}
      PROVE  /\ catJob[s].cleared \in Int /\ catJob[s].measured \in Int
             /\ catJob[s].call.label \in Labels
  <2>1. /\ catJob[s].call \in CatalogCalls
        /\ catJob[s].cleared \in Nat /\ catJob[s].measured \in Nat
    BY <1>0 DEF CatJobs
  <2>2. catJob[s].call.op = "deleteLabel"
    BY <1>0, <1>1 DEF CatInv, OpAt
  <2> QED
    BY <2>1, <2>2, CatalogFields
(* A request that has counted, before this step or by it.                  *)
<1>2. ASSUME NEW s \in CatalogSlots, catPc'[s] \in {"measures", "counted"}
      PROVE  /\ catJob'[s].cleared <= clock'
             /\ UsesAfter(catJob[s].call.label, catJob[s].cleared)'
             /\ catPc'[s] = "counted" =>
                  /\ catJob'[s].measured <= clock'
                  /\ MeasuresAfter(catJob[s].call.label, catJob[s].measured)'
  <2> DEFINE j == catJob[s]
             new == catJob'[s]
  <2>1. CASE catPc[s] = catPc'[s] /\ new = j
    <3>1. /\ j.cleared \in Int /\ j.measured \in Int /\ j.call.label \in Labels
          /\ j.cleared <= clock /\ UsesAfter(j.call.label, j.cleared)
          /\ catPc[s] = "counted" =>
               j.measured <= clock /\ MeasuresAfter(j.call.label, j.measured)
      BY <1>1, <1>2, <2>1 DEF UnusedInv
    <3>2. PICK label \in Labels, t \in Int, m \in Int :
            label = j.call.label /\ t = j.cleared /\ m = j.measured
      BY <3>1
    <3>3. /\ t <= clock' /\ UsesAfter(label, t)'
          /\ catPc[s] = "counted" => m <= clock' /\ MeasuresAfter(label, m)'
      BY <1>0, <3>1, <3>2, StaysAfter
    <3>4. new.call.label = label /\ new.cleared = t /\ new.measured = m
      BY <2>1, <3>2
    <3> QED
      BY <2>1, <3>3, <3>4 DEF UsesAfter, MeasuresAfter
  <2>2. CASE CountUses(s) \/ CountMeasures(s)
    <3>1. /\ new.call = j.call /\ new.measured = clock
          /\ UNCHANGED <<variants, products, listings, clock>>
          /\ catPc'[s] = "counted" => \A p \in Products : ~ Measures(p, j.call.label)
      BY <1>0, <1>2, <2>2, NothingCounted
    <3>2. /\ \A v \in Variants : Refers(v, j.call.label)' <=> Refers(v, j.call.label)
          /\ \A p \in Products : Measures(p, j.call.label)' <=> Measures(p, j.call.label)
      BY <3>1 DEF Refers, Measures
    <3>3. /\ new.cleared <= clock
          /\ \A v \in Variants : Refers(v, j.call.label) => variants[v].stamp > new.cleared
          /\ \A l \in listings : l.category = j.call.label => l.stamp > new.cleared
      <4>1. CASE CountUses(s)
        BY <1>0, <1>2, <4>1, NothingCounted
      <4>2. CASE CountMeasures(s)
        <5>1. catPc[s] = "measures" /\ new.cleared = j.cleared
          BY <1>0, <1>2, <4>2, NothingCounted
        <5> QED
          BY <5>1 DEF UnusedInv, UsesAfter
      <4> QED
        BY <2>2, <4>1, <4>2
    <3>4. UsesAfter(catJob[s].call.label, catJob[s].cleared)'
      BY <3>1, <3>2, <3>3 DEF UsesAfter, Refers
    <3>5. catPc'[s] = "counted" => MeasuresAfter(catJob[s].call.label, catJob[s].measured)'
      BY <3>1, <3>2 DEF MeasuresAfter, Measures
    <3> QED
      BY <1>0, <3>1, <3>3, <3>4, <3>5
  <2> QED
    BY <1>0, <1>2, <2>1, <2>2, CountedOrStays
(* A label that is gone, from before or by this step.                      *)
<1>3. ASSUME NEW label \in Labels \ labels, counted'[label] = counted[label]
      PROVE  /\ UsesAfter(label, counted[label].uses)'
             /\ MeasuresAfter(label, counted[label].measures)'
  <2>1. PICK t \in Int, m \in Int :
          t = counted[label].uses /\ m = counted[label].measures
    BY <1>0 DEF Counts
  <2>2. /\ t <= clock /\ m <= clock
        /\ UsesAfter(label, t) /\ MeasuresAfter(label, m)
    BY <2>1 DEF UnusedInv
  <2>3. UsesAfter(label, t)' /\ MeasuresAfter(label, m)'
    BY <1>0, <2>2, StaysAfter
  <2> QED
    BY <1>3, <2>1, <2>3 DEF UsesAfter, MeasuresAfter
<1> DEFINE Gone == /\ \A label \in Labels \ labels' :
                        /\ UsesAfter(label, counted[label].uses)'
                        /\ MeasuresAfter(label, counted[label].measures)'
                   /\ \A label \in Labels : /\ counted'[label].uses <= clock'
                                            /\ counted'[label].measures <= clock'
<1>4. ASSUME UNCHANGED counted, labels \subseteq labels'
      PROVE  Gone
  <2>1. clock <= clock' /\ clock' \in Nat
    BY <1>0 DEF Grows, ClockMoves
  <2>2. \A label \in Labels : counted[label] \in Counts
    BY <1>0
  <2>3. \A label \in Labels : counted'[label].uses <= clock'
                              /\ counted'[label].measures <= clock'
    BY <1>0, <1>4, <2>1, <2>2 DEF UnusedInv, Counts
  <2> QED
    BY <1>3, <1>4, <2>3
<1>5. ASSUME NEW s \in CatalogSlots, DeleteLabel(s)
      PROVE  Gone
  <2>1. catPc[s] = "counted"
    BY <1>5 DEF DeleteLabel
  <2>2. PICK label \in Labels, t \in Int, m \in Int :
          label = catJob[s].call.label /\ t = catJob[s].cleared /\ m = catJob[s].measured
    BY <1>1, <2>1
  <2>3. /\ labels' = labels \ {label} /\ clock' = clock
        /\ counted' = IF label \in labels
                        THEN [counted EXCEPT ![label] = [uses |-> t, measures |-> m]]
                        ELSE counted
    BY <1>5, <2>2 DEF DeleteLabel
  <2>4. CASE label \notin labels
    BY <1>4, <2>3, <2>4
  <2>5. CASE label \in labels
    <3>1. /\ counted'[label].uses = t /\ counted'[label].measures = m
          /\ \A other \in Labels \ {label} : counted'[other] = counted[other]
      BY <1>0, <2>3, <2>5
    <3>2. /\ t <= clock /\ m <= clock
          /\ UsesAfter(label, t) /\ MeasuresAfter(label, m)
      BY <2>1, <2>2 DEF UnusedInv
    <3>3. UsesAfter(label, t)' /\ MeasuresAfter(label, m)'
      BY <1>0, <3>2, StaysAfter
    <3>4. UsesAfter(label, counted[label].uses)' /\ MeasuresAfter(label, counted[label].measures)'
      BY <3>1, <3>3 DEF UsesAfter, MeasuresAfter
    <3>5. ASSUME NEW other \in Labels \ labels', other # label
          PROVE  /\ UsesAfter(other, counted[other].uses)'
                 /\ MeasuresAfter(other, counted[other].measures)'
      BY <1>3, <2>3, <3>1, <3>5
    <3>6. \A other \in Labels : counted'[other].uses <= clock'
                                /\ counted'[other].measures <= clock'
      BY <2>3, <3>1, <3>2 DEF UnusedInv
    <3> QED
      BY <3>4, <3>5, <3>6
  <2> QED
    BY <2>4, <2>5
<1>6. \/ \E s \in CatalogSlots : DeleteLabel(s)
      \/ UNCHANGED counted /\ labels \subseteq labels'
  <2> DEFINE Goal == UNCHANGED counted /\ labels \subseteq labels'
  <2>1. ASSUME NEW s \in CatalogSlots, NEW c \in CatalogCalls,
               \/ StoreProduct(s, c) \/ DeleteDoc(s, c) \/ StoreVariant(s, c)
               \/ CreateListing(s, c) \/ CreateLabel(s, c)
        PROVE  Goal
    BY <2>1 DEF StoreProduct, DeleteDoc, StoreVariant, CreateListing, CreateLabel
  <2>2. ASSUME NEW s \in CatalogSlots, NEW c \in CatalogCalls,
               FindLabel(s, c) \/ FindVariants(s, c) \/ FindSource(s, c)
        PROVE  Goal
    BY <2>2 DEF FindLabel, FindVariants, FindSource
  <2>3. ASSUME NEW s \in CatalogSlots,
               \/ CountUses(s) \/ CountMeasures(s)
               \/ ClearCategory(s) \/ InsertListings(s) \/ SetShowcase(s)
               \/ SaveUniqueProduct(s) \/ SaveUniqueVariant(s) \/ TakePiece(s)
        PROVE  Goal
    BY <2>3 DEF CountUses, CountMeasures, ClearCategory, InsertListings, SetShowcase,
       SaveUniqueProduct, SaveUniqueVariant, TakePiece
  <2>4. ASSUME EditListing \/ UNCHANGED catalogVars
        PROVE  Goal
    BY <2>4 DEF EditListing, catalogVars
  <2> HIDE DEF Goal
  <2>5. (\E s \in CatalogSlots : DeleteLabel(s)) \/ Goal
    BY <2>1, <2>2, <2>3, <2>4 DEF CatalogNext
  <2> QED
    BY <2>5 DEF Goal
<1>7. Gone
  <2> HIDE DEF Gone
  <2> QED
    BY <1>4, <1>5, <1>6
<1> QED
  BY <1>0, <1>2, <1>7 DEF UnusedInv

(* However many requests overlap, a deleted colour, size or category is    *)
(* referred to only by what was stored after the count of that use, each   *)
(* of the two counts of a size at its own time.                            *)
THEOREM LabelsDeletedUnused == CatalogSpec => []DeletedUnused
<1>1. CatalogInit => UnusedInv
  <2> SUFFICES ASSUME CatalogInit PROVE UnusedInv
    OBVIOUS
  <2>1. PICK c \in InitCatalog :
          products = c.products /\ variants = c.variants /\ labels = c.labels
    BY DEF CatalogInit
  <2>2. /\ \A p \in Products : products[p].exists => products[p].stamp = 0
        /\ \A v \in Variants : variants[v].exists => variants[v].stamp = 0
    BY <2>1, CatalogAssumption
  <2>3. /\ listings = {} /\ clock = 0
        /\ counted = [l \in Labels |-> [uses |-> -1, measures |-> -1]]
        /\ catPc = [s \in CatalogSlots |-> "new"]
    BY DEF CatalogInit
  <2>4. \A label \in Labels : counted[label].uses = -1 /\ counted[label].measures = -1
    BY <2>3
  <2>5. \A label \in Labels : /\ UsesAfter(label, counted[label].uses)
                              /\ MeasuresAfter(label, counted[label].measures)
    BY <2>2, <2>3, <2>4 DEF UsesAfter, MeasuresAfter, Refers, Measures
  <2> QED
    BY <2>3, <2>4, <2>5, CatInit DEF UnusedInv
<1>2. UnusedInv /\ [CatalogNext]_catalogVars => UnusedInv'
  BY UnusedStep
<1>3. UnusedInv => DeletedUnused
  BY DEF UnusedInv, DeletedUnused, UsesAfter, MeasuresAfter, Refers, Measures
<1> QED
  BY <1>1, <1>2, <1>3, PTL DEF CatalogSpec

-----------------------------------------------------------------------------
(***************************************************************************)
(* Two categories mean overlapping assignments.  Inductive with what an    *)
(* assignment that is about to store its listings has left of earlier ones.*)
(***************************************************************************)
CategoryInv ==
  /\ CatInv /\ OneCategory
  /\ \A l \in listings : l.stamp <= clock
  /\ \A s \in CatalogSlots :
       catPc[s] = "cleared" =>
         /\ catJob[s].cleared <= clock
         /\ \A l \in listings :
              l.variant \in catJob[s].variants /\ l.category # NoLabel
              => l.stamp > catJob[s].cleared

(* Every step but the last of an assignment: a new listing is of none.     *)
NoAssignment ==
  \A n \in listings' : \/ \E l \in listings : SameListing(l, n)
                       \/ IsNew(n.stamp) /\ n.cleared = -1

LEMMA CategoryElsewhere ==
  ASSUME CategoryInv, CatInv', Grows, NoAssignment
  PROVE  OneCategory' /\ \A l \in listings' : l.stamp <= clock'
<1>0. /\ clock \in Nat /\ clock' \in Nat /\ clock <= clock'
      /\ \A l \in listings : l.stamp \in Nat /\ l.cleared \in Int /\ l.stamp <= clock
  BY DEF Grows, ClockMoves, CategoryInv, CatInv, CatalogTypeOK, Listings
<1>1. \A l \in listings' : l.stamp <= clock'
  BY <1>0 DEF Grows, ListingsGrow, SameListing, IsNew
<1>2. OneCategory'
  <2> SUFFICES ASSUME NEW l \in listings', NEW n \in listings', l.variant = n.variant,
                      l.category # NoLabel, n.category # NoLabel,
                      l.cleared >= 0, n.cleared >= 0, l.stamp < n.stamp
               PROVE  n.cleared < l.stamp
    BY DEF OneCategory
  <2>1. /\ \E k \in listings : SameListing(k, l)
        /\ \E m \in listings : SameListing(m, n)
    BY DEF NoAssignment
  <2>2. PICK k \in listings, m \in listings : SameListing(k, l) /\ SameListing(m, n)
    BY <2>1
  <2> QED
    BY <2>2 DEF CategoryInv, OneCategory, SameListing
<1> QED
  BY <1>1, <1>2

LEMMA ClearedStays ==
  ASSUME CategoryInv, Grows, NEW s \in CatalogSlots, catPc[s] = "cleared",
         catJob'[s] = catJob[s]
  PROVE  /\ catJob'[s].cleared <= clock'
         /\ \A l \in listings' :
              l.variant \in catJob'[s].variants /\ l.category # NoLabel
              => l.stamp > catJob'[s].cleared
<1>1. catJob[s].cleared \in Nat
  <2>1. catJob[s] \in CatJobs
    BY DEF CategoryInv, CatInv
  <2> QED
    BY <2>1 DEF CatJobs
<1>2. /\ catJob[s].cleared <= clock
      /\ \A l \in listings :
           l.variant \in catJob[s].variants /\ l.category # NoLabel
           => l.stamp > catJob[s].cleared
  BY DEF CategoryInv
<1>3. clock \in Nat /\ clock' \in {clock, clock + 1}
  BY DEF Grows, ClockMoves
<1>4. ASSUME NEW n \in listings', n.variant \in catJob[s].variants, n.category # NoLabel
      PROVE  n.stamp > catJob[s].cleared
  <2>1. CASE \E l \in listings : SameListing(l, n)
    BY <1>2, <1>4, <2>1 DEF SameListing
  <2>2. CASE IsNew(n.stamp)
    BY <1>1, <1>2, <1>3, <2>2 DEF IsNew
  <2> QED
    BY <2>1, <2>2 DEF Grows, ListingsGrow
<1> QED
  BY <1>1, <1>2, <1>3, <1>4

(* An assignment that has cleared did so before, or does in this step.     *)
LEMMA ClearedOrStays ==
  ASSUME CatInv, [CatalogNext]_catalogVars, NEW s \in CatalogSlots, catPc'[s] = "cleared"
  PROVE  \/ catPc[s] = "cleared" /\ catJob'[s] = catJob[s]
         \/ ClearCategory(s)
<1>0. /\ catPc \in [CatalogSlots -> CatPCs] /\ catJob \in [CatalogSlots -> CatJobs]
  BY DEF CatInv, CatalogTypeOK
<1> DEFINE Goal == catPc[s] = "cleared" /\ catJob'[s] = catJob[s]
<1>1. ASSUME NEW t \in CatalogSlots, NEW at, CatGoto(t, at), at # "cleared",
             \A r \in CatalogSlots \ {t} : catJob'[r] = catJob[r]
      PROVE  Goal
  BY <1>0, <1>1 DEF CatGoto
<1>2. ASSUME NEW t \in CatalogSlots, NEW c \in CatalogCalls,
             \/ StoreProduct(t, c) \/ DeleteDoc(t, c) \/ StoreVariant(t, c)
             \/ CreateListing(t, c) \/ CreateLabel(t, c)
      PROVE  Goal
  <2>1. CatGoto(t, "done") /\ UNCHANGED catJob
    BY <1>2 DEF StoreProduct, DeleteDoc, StoreVariant, CreateListing, CreateLabel, AtOnce
  <2> QED
    BY <1>1, <2>1
<1>3. ASSUME NEW t \in CatalogSlots, NEW c \in CatalogCalls,
             FindLabel(t, c) \/ FindVariants(t, c) \/ FindSource(t, c)
      PROVE  Goal
  <2>1. /\ CatGoto(t, "found")
        /\ \A r \in CatalogSlots \ {t} : catJob'[r] = catJob[r]
    BY <1>0, <1>3 DEF FindLabel, FindVariants, FindSource, Find
  <2> QED
    BY <1>1, <2>1
<1>4. ASSUME NEW t \in CatalogSlots,
             \/ CountUses(t) \/ CountMeasures(t)
             \/ DeleteLabel(t) \/ InsertListings(t) \/ SetShowcase(t)
             \/ SaveUniqueProduct(t) \/ SaveUniqueVariant(t) \/ TakePiece(t)
      PROVE  Goal
  <2>1. /\ \E at \in {"done", "measures", "counted", "product", "variant"} : CatGoto(t, at)
        /\ \A r \in CatalogSlots \ {t} : catJob'[r] = catJob[r]
    BY <1>0, <1>4 DEF CountUses, CountMeasures, DeleteLabel, InsertListings, SetShowcase,
       SaveUniqueProduct, SaveUniqueVariant, TakePiece
  <2> QED
    BY <1>1, <2>1
<1>5. ASSUME NEW t \in CatalogSlots, ClearCategory(t)
      PROVE  Goal \/ ClearCategory(s)
  <2>1. CASE t = s
    BY <1>5, <2>1
  <2>2. CASE t # s
    BY <1>0, <1>5, <2>2 DEF ClearCategory, CatGoto
  <2> QED
    BY <2>1, <2>2
<1>6. ASSUME EditListing \/ UNCHANGED catalogVars
      PROVE  Goal
  BY <1>6 DEF EditListing, catalogVars
<1> HIDE DEF Goal
<1>7. Goal \/ ClearCategory(s)
  BY <1>2, <1>3, <1>4, <1>5, <1>6 DEF CatalogNext
<1> QED
  BY <1>7 DEF Goal

LEMMA OthersAssignNothing ==
  ASSUME CatInv, [CatalogNext]_catalogVars
  PROVE  NoAssignment \/ \E s \in CatalogSlots : InsertListings(s)
<1>1. ASSUME listings' \subseteq listings
      PROVE  NoAssignment
  BY <1>1 DEF NoAssignment, SameListing
<1>2. ASSUME NEW s \in CatalogSlots, NEW c \in CatalogCalls, CreateListing(s, c)
      PROVE  NoAssignment
  <2>1. clock' = clock + 1
    BY <1>2, StampType DEF CreateListing
  <2>2. listings' = listings \cup
          {[variant |-> c.variant, category |-> c.category, active |-> TRUE,
            stamp |-> clock', cleared |-> -1]}
    BY <1>2 DEF CreateListing
  <2> QED
    BY <2>1, <2>2 DEF NoAssignment, SameListing, IsNew
<1>3. ASSUME EditListing
      PROVE  NoAssignment
  <2>1. PICK l \in listings :
          \/ \E category \in Categories \cup {NoLabel}, active \in BOOLEAN :
               /\ Stamped
               /\ listings' = (listings \ {l}) \cup
                    {[l EXCEPT !.category = category, !.active = active,
                               !.stamp = clock', !.cleared = -1]}
          \/ listings' = listings \ {l}
    BY <1>3 DEF EditListing
  <2>2. l \in Listings
    BY DEF CatInv, CatalogTypeOK
  <2>3. ASSUME NEW category, NEW active, Stamped,
               listings' = (listings \ {l}) \cup
                    {[l EXCEPT !.category = category, !.active = active,
                               !.stamp = clock', !.cleared = -1]}
        PROVE  NoAssignment
    <3>1. clock' = clock + 1
      BY <2>3, StampType
    <3> DEFINE n == [l EXCEPT !.category = category, !.active = active,
                              !.stamp = clock', !.cleared = -1]
    <3>2. n.stamp = clock' /\ n.cleared = -1
      BY <2>2 DEF Listings
    <3>3. listings' = (listings \ {l}) \cup {n}
      BY <2>3
    <3> HIDE DEF n
    <3> QED
      BY <3>1, <3>2, <3>3 DEF NoAssignment, SameListing, IsNew
  <2> QED
    BY <1>1, <2>1, <2>3
<1>4. ASSUME NEW s \in CatalogSlots, SetShowcase(s)
      PROVE  NoAssignment
  <2> DEFINE active == catJob[s].call.active
  <2>1. listings' = {IF l.variant \in catJob[s].variants THEN [l EXCEPT !.active = active]
                                                         ELSE l : l \in listings}
    BY <1>4 DEF SetShowcase
  <2> HIDE DEF active
  <2>2. ASSUME NEW l \in listings
        PROVE  SameListing(l, [l EXCEPT !.active = active])
    <3>1. l \in Listings
      BY DEF CatInv, CatalogTypeOK
    <3> QED
      BY <3>1 DEF Listings, SameListing
  <2> QED
    BY <2>1, <2>2 DEF NoAssignment, SameListing
<1>5. ASSUME NEW s \in CatalogSlots, NEW c \in CatalogCalls,
             \/ StoreProduct(s, c) \/ DeleteDoc(s, c) \/ StoreVariant(s, c)
             \/ CreateLabel(s, c) \/ FindLabel(s, c)
             \/ FindVariants(s, c) \/ FindSource(s, c)
      PROVE  NoAssignment
  BY <1>1, <1>5 DEF StoreProduct, DeleteDoc, StoreVariant, CreateLabel, FindLabel,
     FindVariants, FindSource
<1>6. ASSUME NEW s \in CatalogSlots,
             \/ CountUses(s) \/ CountMeasures(s) \/ DeleteLabel(s) \/ ClearCategory(s)
             \/ SaveUniqueProduct(s) \/ SaveUniqueVariant(s) \/ TakePiece(s)
      PROVE  NoAssignment
  BY <1>1, <1>6 DEF CountUses, CountMeasures, DeleteLabel, ClearCategory,
     SaveUniqueProduct, SaveUniqueVariant, TakePiece
<1>7. CASE UNCHANGED catalogVars
  BY <1>1, <1>7 DEF catalogVars
<1> HIDE DEF NoAssignment
<1> QED
  BY <1>2, <1>3, <1>4, <1>5, <1>6, <1>7 DEF CatalogNext

LEMMA CategoryStep ==
  ASSUME CategoryInv, [CatalogNext]_catalogVars
  PROVE  CategoryInv'
<1>0. /\ CatInv /\ CatInv' /\ Grows
      /\ catJob \in [CatalogSlots -> CatJobs] /\ clock \in Nat
      /\ \A l \in listings : l.stamp \in Nat /\ l.cleared \in Int
  BY CatStep, CatalogAssumption DEF CategoryInv, CatInv, CatalogTypeOK, Listings
<1>1. ASSUME NEW s \in CatalogSlots, catPc'[s] = "cleared"
      PROVE  /\ catJob'[s].cleared <= clock'
             /\ \A l \in listings' :
                  l.variant \in catJob'[s].variants /\ l.category # NoLabel
                  => l.stamp > catJob'[s].cleared
  <2>1. CASE catPc[s] = "cleared" /\ catJob'[s] = catJob[s]
    BY <1>0, <2>1, ClearedStays
  <2>2. CASE ClearCategory(s)
    <3>1. /\ catJob'[s].cleared = clock /\ clock' = clock
          /\ catJob'[s].variants = catJob[s].variants
      <4>1. catJob[s] \in CatJobs
        BY <1>0
      <4> QED
        BY <1>0, <2>2, <4>1 DEF ClearCategory, CatJobs
    <3>2. \A l \in listings' :
            ~ (l.variant \in catJob[s].variants /\ l.category # NoLabel)
      BY <2>2 DEF ClearCategory, Replaced
    <3> QED
      BY <1>0, <3>1, <3>2
  <2> QED
    BY <1>0, <1>1, <2>1, <2>2, ClearedOrStays
<1>2. CASE NoAssignment
  BY <1>0, <1>1, <1>2, CategoryElsewhere DEF CategoryInv
<1>3. ASSUME NEW s \in CatalogSlots, InsertListings(s)
      PROVE  OneCategory' /\ \A l \in listings' : l.stamp <= clock'
  <2>1. clock' = clock + 1
    BY <1>0, <1>3, StampType DEF InsertListings
  <2>2. ASSUME NEW n \in listings', n \notin listings
        PROVE  /\ n.stamp = clock' /\ n.cleared = catJob[s].cleared
               /\ n.variant \in catJob[s].variants
    BY <1>3, <2>2 DEF InsertListings
  <2>3. catPc[s] = "cleared"
    BY <1>3 DEF InsertListings
  <2>4. \A l \in listings : l.stamp <= clock
    BY DEF CategoryInv
  <2>5. OneCategory'
    <3> SUFFICES ASSUME NEW l \in listings', NEW n \in listings', l.variant = n.variant,
                        l.category # NoLabel, n.category # NoLabel,
                        l.cleared >= 0, n.cleared >= 0, l.stamp < n.stamp
                 PROVE  n.cleared < l.stamp
      BY DEF OneCategory
    <3>1. CASE n \in listings
      <4>1. l \in listings
        BY <1>0, <2>1, <2>2, <2>4, <3>1
      <4> QED
        BY <3>1, <4>1 DEF CategoryInv, OneCategory
    <3>2. CASE n \notin listings
      <4>1. l \in listings
        BY <1>0, <2>1, <2>2, <3>2
      <4> QED
        BY <2>2, <2>3, <3>2, <4>1 DEF CategoryInv
    <3> QED
      BY <3>1, <3>2
  <2> QED
    BY <1>0, <2>1, <2>2, <2>4, <2>5
<1> QED
  BY <1>0, <1>1, <1>2, <1>3, OthersAssignNothing DEF CategoryInv

(* However many assignments overlap, a variant is left in two categories   *)
(* only if the later one had deleted before the earlier one stored.        *)
THEOREM CategoriesReplaced == CatalogSpec => []OneCategory
<1>1. CatalogInit => CategoryInv
  BY CatInit DEF CatalogInit, CategoryInv, OneCategory
<1>2. CategoryInv /\ [CatalogNext]_catalogVars => CategoryInv'
  BY CategoryStep
<1>3. CategoryInv => OneCategory
  BY DEF CategoryInv
<1> QED
  BY <1>1, <1>2, <1>3, PTL DEF CatalogSpec

-----------------------------------------------------------------------------
(***************************************************************************)
(* The pieces of a variant.  A unique product's piece is recorded as taken *)
(* when its own variant is saved and its request then waits to take it     *)
(* from the stock: the two counts move together.  The piece is a variant   *)
(* that was never stored before, so that it is recorded once and nothing   *)
(* has been made of it yet: that a stamp tells, which no write takes back. *)
(***************************************************************************)
TakenFrom(v) == {t \in taken : t.from = v}
Waiting(v) == {s \in CatalogSlots : catPc[s] = "variant" /\ catJob[s].call.variant = v}

HasStamp(v) == variants[v].stamp # -1

MakesUnique(s) ==
  /\ catPc[s] \in {"found", "product", "variant"}
  /\ catJob[s].call.op = "createUniqueProduct"

PieceInv ==
  /\ CatInv
  /\ supply \in [Variants -> Int]
  /\ \A v \in Variants : IsFiniteSet(TakenFrom(v)) /\ IsFiniteSet(Waiting(v))
  /\ \A v \in Variants : variants[v].exists => HasStamp(v)
  /\ \A s \in CatalogSlots : MakesUnique(s) => HasStamp(catJob[s].call.variant)
  /\ \A t \in taken : HasStamp(t.from) /\ HasStamp(t.piece)
  /\ PiecesAddUp

LEMMA DeductedIs ==
  ASSUME PieceInv, NEW v \in Variants
  PROVE  /\ Deducted(v) = Cardinality(TakenFrom(v)) - Cardinality(Waiting(v))
         /\ Cardinality(TakenFrom(v)) \in Nat /\ Cardinality(Waiting(v)) \in Nat
         /\ Deducted(v) \in Int
BY FS_CardinalityType DEF Deducted, TakenFrom, Waiting, PieceInv

(* What stays of the invariant when nothing is taken and nobody starts or  *)
(* stops waiting.                                                          *)
LEMMA SameDeducted ==
  ASSUME taken' = taken,
         \A s \in CatalogSlots :
           /\ catPc'[s] = "variant" <=> catPc[s] = "variant"
           /\ catPc[s] = "variant" => catJob'[s].call = catJob[s].call,
         NEW v \in Variants
  PROVE  /\ TakenFrom(v)' = TakenFrom(v) /\ Waiting(v)' = Waiting(v)
         /\ Deducted(v)' = Deducted(v)
<1>1. TakenFrom(v)' = TakenFrom(v)
  BY DEF TakenFrom
<1>2. Waiting(v)' = Waiting(v)
  BY DEF Waiting
<1> QED
  BY <1>1, <1>2 DEF Deducted, TakenFrom, Waiting

LEMMA PiecesStay ==
  ASSUME PieceInv, CatInv', taken' = taken, UNCHANGED <<variants, supply>>,
         \A s \in CatalogSlots :
           /\ catPc'[s] = "variant" <=> catPc[s] = "variant"
           /\ catPc[s] = "variant" => catJob'[s].call = catJob[s].call
           /\ MakesUnique(s)' => HasStamp(catJob'[s].call.variant)
  PROVE  PieceInv'
<1>1. \A v \in Variants : /\ TakenFrom(v)' = TakenFrom(v) /\ Waiting(v)' = Waiting(v)
                          /\ Deducted(v)' = Deducted(v)
  BY SameDeducted
<1>2. \A v \in Variants : HasStamp(v)' <=> HasStamp(v)
  BY DEF HasStamp
<1>3. \A v \in Variants : IsFiniteSet(TakenFrom(v)') /\ IsFiniteSet(Waiting(v)')
  BY <1>1 DEF PieceInv
<1>4. PiecesAddUp'
  BY <1>1 DEF PieceInv, PiecesAddUp
<1>5. \A s \in CatalogSlots : MakesUnique(s)' => HasStamp(catJob[s].call.variant)'
  BY DEF HasStamp
<1>6. \A t \in taken' : HasStamp(t.from)' /\ HasStamp(t.piece)'
  BY DEF PieceInv, HasStamp
<1> QED
  BY <1>3, <1>4, <1>5, <1>6 DEF PieceInv, HasStamp

(* One slot moves, the others stay.                                        *)
OnlySlot(s) ==
  \A t \in CatalogSlots \ {s} : catPc'[t] = catPc[t] /\ catJob'[t] = catJob[t]

LEMMA SlotMoves ==
  ASSUME CatInv, NEW s \in CatalogSlots, NEW at, CatGoto(s, at),
         catJob' = catJob \/ \E j : catJob' = [catJob EXCEPT ![s] = j]
  PROVE  OnlySlot(s) /\ catPc'[s] = at
BY DEF CatInv, CatalogTypeOK, CatGoto, OnlySlot

LEMMA QuietSlot ==
  ASSUME PieceInv, CatInv', NEW s \in CatalogSlots, OnlySlot(s),
         taken' = taken, UNCHANGED <<variants, supply>>,
         catPc[s] # "variant", catPc'[s] # "variant",
         MakesUnique(s)' => HasStamp(catJob'[s].call.variant)
  PROVE  PieceInv'
<1>1. \A t \in CatalogSlots :
           /\ catPc'[t] = "variant" <=> catPc[t] = "variant"
           /\ catPc[t] = "variant" => catJob'[t].call = catJob[t].call
           /\ MakesUnique(t)' => HasStamp(catJob'[t].call.variant)
  BY DEF OnlySlot, MakesUnique, PieceInv
<1> QED
  BY <1>1, PiecesStay

LEMMA AtOncePieces ==
  ASSUME PieceInv, NEW s \in CatalogSlots, NEW c \in CatalogCalls, NEW op,
         AtOnce(s, c, op)
  PROVE  /\ OnlySlot(s) /\ catPc[s] = "new" /\ catPc'[s] = "done" /\ catJob' = catJob
         /\ c.op = op
BY SlotMoves DEF AtOnce, PieceInv

(* The steps that leave variants and pieces alone.                         *)
LEMMA QuietCalls ==
  ASSUME PieceInv, CatInv', NEW s \in CatalogSlots, NEW c \in CatalogCalls,
         \/ StoreProduct(s, c) \/ CreateListing(s, c) \/ CreateLabel(s, c)
         \/ FindLabel(s, c) \/ FindVariants(s, c) \/ FindSource(s, c)
  PROVE  PieceInv'
<1>0. CatInv /\ UNCHANGED <<taken, variants, supply>>
  BY DEF PieceInv, StoreProduct, CreateListing, CreateLabel, FindLabel, FindVariants,
         FindSource
<1>1. ASSUME NEW op, AtOnce(s, c, op)
      PROVE  PieceInv'
  <2>1. OnlySlot(s) /\ catPc[s] = "new" /\ catPc'[s] = "done"
    BY <1>1, AtOncePieces
  <2> QED
    BY <1>0, <2>1, QuietSlot DEF MakesUnique
<1>2. ASSUME NEW op, NEW j, Find(s, c, op, j),
             op = "createUniqueProduct" => HasStamp(c.variant)
      PROVE  PieceInv'
  <2>1. /\ OnlySlot(s) /\ catPc[s] = "new" /\ catPc'[s] = "found"
        /\ catJob'[s].call = c /\ c.op = op
    <3>1. OnlySlot(s) /\ catPc[s] = "new" /\ catPc'[s] = "found" /\ c.op = op
      BY <1>0, <1>2, SlotMoves DEF Find
    <3>2. catJob'[s] \in CatJobs /\ catJob'[s] = [j EXCEPT !.call = c]
      BY <1>0, <1>2 DEF Find, CatInv
    <3>3. catJob'[s].call = c
      BY <3>2 DEF CatJobs
    <3> QED
      BY <3>1, <3>3
  <2> QED
    BY <1>0, <1>2, <2>1, QuietSlot DEF MakesUnique
<1>3. FindSource(s, c) => HasStamp(c.variant)
  <2> SUFFICES ASSUME FindSource(s, c) PROVE HasStamp(c.variant)
    OBVIOUS
  <2>1. c.op = "createUniqueProduct" /\ variants[c.variant].exists
    BY DEF FindSource, Find
  <2>2. c.variant \in Variants
    BY <2>1, CatalogFields
  <2> QED
    BY <2>1, <2>2 DEF PieceInv
<1>4. CASE StoreProduct(s, c) \/ CreateListing(s, c) \/ CreateLabel(s, c)
  BY <1>1, <1>4 DEF StoreProduct, CreateListing, CreateLabel
<1>5. CASE FindLabel(s, c)
  BY <1>2, <1>5 DEF FindLabel
<1>6. CASE FindVariants(s, c)
  <2>1. PICK op \in {"assignProductToCategory", "removeProductFromCategory",
                     "updateShowcase"} :
          Find(s, c, op, [IdleCatJob EXCEPT !.variants = VariantsOf(c.product)])
    BY <1>6 DEF FindVariants
  <2> QED
    BY <1>2, <2>1
<1>7. CASE FindSource(s, c)
  <2>1. \E j : Find(s, c, "createUniqueProduct", j)
    BY <1>7 DEF FindSource
  <2> QED
    BY <1>2, <1>3, <1>7, <2>1
<1> QED
  BY <1>4, <1>5, <1>6, <1>7

LEMMA QuietLater ==
  ASSUME PieceInv, CatInv', NEW s \in CatalogSlots,
         \/ CountUses(s) \/ CountMeasures(s) \/ DeleteLabel(s)
         \/ ClearCategory(s) \/ InsertListings(s) \/ SetShowcase(s)
         \/ SaveUniqueProduct(s)
  PROVE  PieceInv'
<1>0. CatInv /\ UNCHANGED <<taken, variants, supply>>
  BY DEF PieceInv, CountUses, CountMeasures, DeleteLabel, ClearCategory,
         InsertListings, SetShowcase, SaveUniqueProduct
<1>1. CASE DeleteLabel(s) \/ InsertListings(s) \/ SetShowcase(s)
  <2>1. /\ CatGoto(s, "done") /\ catJob' = catJob
        /\ catPc[s] \in {"found", "counted", "cleared"}
    BY <1>1 DEF DeleteLabel, InsertListings, SetShowcase
  <2>2. OnlySlot(s) /\ catPc'[s] = "done"
    BY <1>0, <2>1, SlotMoves
  <2> QED
    BY <1>0, <2>1, <2>2, QuietSlot DEF MakesUnique
<1>2. CASE CountUses(s) \/ CountMeasures(s)
  <2>1. PICK at \in {"measures", "counted", "done"} : CatGoto(s, at)
    BY <1>2 DEF CountUses, CountMeasures
  <2>2. /\ catPc[s] \in {"found", "measures"}
        /\ \E j : catJob' = [catJob EXCEPT ![s] = j]
    BY <1>2 DEF CountUses, CountMeasures
  <2>3. OnlySlot(s) /\ catPc'[s] = at
    BY <1>0, <2>1, <2>2, SlotMoves
  <2> QED
    BY <1>0, <2>1, <2>2, <2>3, QuietSlot DEF MakesUnique
<1>3. CASE ClearCategory(s)
  <2>1. PICK at \in {"cleared", "done"} : CatGoto(s, at)
    BY <1>3 DEF ClearCategory
  <2>2. /\ catPc[s] = "found"
        /\ catJob' = [catJob EXCEPT ![s] = [catJob[s] EXCEPT !.cleared = clock]]
    BY <1>3 DEF ClearCategory
  <2>3. OnlySlot(s) /\ catPc'[s] = at
    BY <1>0, <2>1, <2>2, SlotMoves
  <2> QED
    BY <1>0, <2>2, <2>3, QuietSlot DEF MakesUnique
<1>4. CASE SaveUniqueProduct(s)
  <2>0. catPc[s] = "found" /\ catJob[s].call.op = "createUniqueProduct"
    BY <1>4 DEF SaveUniqueProduct
  <2>1. CASE CatGoto(s, "done") /\ UNCHANGED catJob
    <3>1. OnlySlot(s) /\ catPc'[s] = "done"
      BY <1>0, <2>1, SlotMoves
    <3> QED
      BY <1>0, <2>0, <3>1, QuietSlot DEF MakesUnique
  <2>2. ASSUME NEW p \in Products,
               CatGoto(s, "product"), catJob' = [catJob EXCEPT ![s].product = p]
        PROVE  PieceInv'
    <3>1. catJob' = [catJob EXCEPT ![s] = [catJob[s] EXCEPT !.product = p]]
      BY <2>2
    <3>2. OnlySlot(s) /\ catPc'[s] = "product"
      BY <1>0, <2>2, <3>1, SlotMoves
    <3>3. catJob'[s].call = catJob[s].call
      BY <1>0, <2>2 DEF CatInv, CatJobs
    <3>4. HasStamp(catJob[s].call.variant)
      BY <2>0 DEF PieceInv, MakesUnique
    <3> QED
      BY <1>0, <2>0, <3>2, <3>3, <3>4, QuietSlot
  <2> QED
    BY <1>4, <2>1, <2>2 DEF SaveUniqueProduct
<1> QED
  BY <1>1, <1>2, <1>3, <1>4

(* A write of one variant that takes no stamp back.                        *)
LEMMA StoredStays ==
  ASSUME PieceInv, NEW v \in Variants, NEW d \in VariantDocs,
         variants' = [variants EXCEPT ![v] = d],
         d.stamp = -1 => variants[v].stamp = -1
  PROVE  /\ \A w \in Variants : HasStamp(w) => HasStamp(w)'
         /\ \A w \in Variants \ {v} : variants'[w] = variants[w]
         /\ variants'[v] = d
BY DEF PieceInv, CatInv, CatalogTypeOK, HasStamp

(* What the rest of the invariant needs of a write of one variant when no  *)
(* piece is taken and nobody starts or stops waiting.                      *)
LEMMA VariantWritten ==
  ASSUME PieceInv, CatInv', NEW s \in CatalogSlots, NEW v \in Variants,
         NEW d \in VariantDocs, variants' = [variants EXCEPT ![v] = d],
         d.stamp = -1 => variants[v].stamp = -1,
         d.exists => d.stamp # -1,
         OnlySlot(s), catPc[s] = "new", catPc'[s] = "done", taken' = taken,
         supply' \in [Variants -> Int],
         \A w \in Variants \ {v} : supply'[w] = supply[w],
         d.exists => d.stock + Deducted(v) = supply'[v]
  PROVE  PieceInv'
<1>1. /\ \A w \in Variants : HasStamp(w) => HasStamp(w)'
      /\ \A w \in Variants \ {v} : variants'[w] = variants[w]
      /\ variants'[v] = d
  BY StoredStays
<1>2. \A t \in CatalogSlots :
           /\ catPc'[t] = "variant" <=> catPc[t] = "variant"
           /\ catPc[t] = "variant" => catJob'[t].call = catJob[t].call
  BY DEF OnlySlot
<1>3. \A w \in Variants : /\ TakenFrom(w)' = TakenFrom(w) /\ Waiting(w)' = Waiting(w)
                          /\ Deducted(w)' = Deducted(w)
  BY <1>2, SameDeducted
<1>4. \A w \in Variants : IsFiniteSet(TakenFrom(w)') /\ IsFiniteSet(Waiting(w)')
  BY <1>3 DEF PieceInv
<1>5. PiecesAddUp'
  BY <1>1, <1>3 DEF PieceInv, PiecesAddUp
<1>6. \A w \in Variants : variants'[w].exists => HasStamp(w)'
  BY <1>1 DEF PieceInv, HasStamp
<1>7. ASSUME NEW t \in CatalogSlots, MakesUnique(t)'
      PROVE  HasStamp(catJob[t].call.variant)'
  <2>1. MakesUnique(t) /\ catJob'[t] = catJob[t]
    BY <1>7 DEF MakesUnique, OnlySlot
  <2>2. catJob[t].call \in CatalogCalls /\ catJob[t].call.op = "createUniqueProduct"
    BY <2>1 DEF MakesUnique, PieceInv, CatInv, CatalogTypeOK
  <2>3. catJob[t].call.variant \in Variants
    BY <2>2, CatalogFields
  <2>4. HasStamp(catJob[t].call.variant)
    BY <2>1 DEF PieceInv
  <2>5. variants'[catJob[t].call.variant].stamp # -1
    BY <1>1, <2>3, <2>4 DEF HasStamp
  <2> QED
    BY <2>1, <2>5 DEF HasStamp
<1>8. ASSUME NEW t \in taken' PROVE HasStamp(t.from)' /\ HasStamp(t.piece)'
  <2>1. t \in taken /\ t.from \in Variants /\ t.piece \in Variants
    BY <1>8 DEF PieceInv, CatInv, CatalogTypeOK
  <2> QED
    BY <1>1, <2>1 DEF PieceInv, HasStamp
<1> QED
  BY <1>4, <1>5, <1>6, <1>7, <1>8 DEF PieceInv, HasStamp

LEMMA StoreVariantPieces ==
  ASSUME PieceInv, CatInv', NEW s \in CatalogSlots, NEW c \in CatalogCalls,
         StoreVariant(s, c)
  PROVE  PieceInv'
<1>0. AtOnce(s, c, "createVariant") \/ AtOnce(s, c, "editVariant")
  BY DEF StoreVariant
<1>1. OnlySlot(s) /\ catPc[s] = "new" /\ catPc'[s] = "done"
  BY <1>0, AtOncePieces
<1>2. /\ c.variant \in Variants /\ c.product \in Products
      /\ c.color \in Colors /\ c.size \in Sizes /\ c.stock \in Nat
  BY <1>0, CatalogFields DEF AtOnce
<1>3. clock' \in Int /\ clock' # -1
  BY StampType DEF StoreVariant, PieceInv
<1> DEFINE d == [exists |-> TRUE, product |-> c.product, color |-> c.color,
                 size |-> c.size, stock |-> c.stock, stamp |-> clock']
<1>4. d \in VariantDocs /\ d.stamp # -1 /\ d.stock = c.stock
  BY <1>2, <1>3 DEF VariantDocs
<1>5. variants' = [variants EXCEPT ![c.variant] = d] /\ taken' = taken
  BY DEF StoreVariant
<1> HIDE DEF d
<1>6. supply' = [supply EXCEPT ![c.variant] = c.stock + Deducted(c.variant)]
  BY DEF StoreVariant
<1>7. Deducted(c.variant) \in Int
  BY <1>2, DeductedIs
<1>8. /\ supply' \in [Variants -> Int]
      /\ supply'[c.variant] = c.stock + Deducted(c.variant)
      /\ \A w \in Variants \ {c.variant} : supply'[w] = supply[w]
  BY <1>2, <1>6, <1>7 DEF PieceInv
<1> QED
  BY <1>1, <1>2, <1>4, <1>5, <1>8, VariantWritten

LEMMA DeleteDocPieces ==
  ASSUME PieceInv, CatInv', NEW s \in CatalogSlots, NEW c \in CatalogCalls,
         DeleteDoc(s, c)
  PROVE  PieceInv'
<1>0. taken' = taken /\ supply' = supply
  BY DEF DeleteDoc
<1>1. CASE AtOnce(s, c, "deleteProduct") /\ UNCHANGED variants
  <2>1. OnlySlot(s) /\ catPc[s] = "new" /\ catPc'[s] = "done"
    BY <1>1, AtOncePieces
  <2> QED
    BY <1>0, <1>1, <2>1, QuietSlot DEF MakesUnique
<1>2. CASE /\ AtOnce(s, c, "deleteVariant")
           /\ variants' = [variants EXCEPT ![c.variant].exists = FALSE]
  <2>1. OnlySlot(s) /\ catPc[s] = "new" /\ catPc'[s] = "done"
    BY <1>2, AtOncePieces
  <2>2. c.variant \in Variants
    BY <1>2, CatalogFields DEF AtOnce
  <2> DEFINE d == [variants[c.variant] EXCEPT !.exists = FALSE]
  <2>3. d \in VariantDocs /\ ~ d.exists /\ d.stamp = variants[c.variant].stamp
    <3>1. variants[c.variant] \in VariantDocs
      BY <2>2 DEF PieceInv, CatInv, CatalogTypeOK
    <3> QED
      BY <3>1 DEF VariantDocs
  <2>4. variants' = [variants EXCEPT ![c.variant] = d]
    BY <1>2
  <2> HIDE DEF d
  <2>5. supply' \in [Variants -> Int]
    BY <1>0 DEF PieceInv
  <2> QED
    BY <1>0, <2>1, <2>2, <2>3, <2>4, <2>5, VariantWritten
<1> QED
  BY <1>1, <1>2 DEF DeleteDoc

(* Saving the variant of a unique product: one more piece is recorded of   *)
(* the source, and one more request waits for it.                          *)
LEMMA SaveUniqueVariantPieces ==
  ASSUME PieceInv, CatInv', NEW s \in CatalogSlots, SaveUniqueVariant(s)
  PROVE  PieceInv'
<1> DEFINE j == catJob[s]
<1>1. PICK from \in Variants :
        /\ from = j.call.variant /\ HasStamp(from)
        /\ j \in CatJobs /\ j.call \in CatalogCalls /\ j.call.op = "createUniqueProduct"
        /\ catPc[s] = "product" /\ catJob' = catJob
  <2>1. j \in CatJobs /\ j.call \in CatalogCalls /\ catPc[s] = "product"
    BY DEF PieceInv, CatInv, CatalogTypeOK, SaveUniqueVariant
  <2>2. j.call.op = "createUniqueProduct"
    BY <2>1 DEF PieceInv, CatInv, OpAt
  <2> QED
    BY <2>1, <2>2, CatalogFields DEF PieceInv, MakesUnique, SaveUniqueVariant
<1>2. PICK v \in Variants :
        /\ variants[v].stamp = -1
        /\ variants' = [variants EXCEPT ![v] =
             [j.source EXCEPT !.product = j.product, !.stock = 1, !.stamp = clock']]
        /\ supply' = [supply EXCEPT ![v] = 1]
        /\ taken' = taken \cup {[from |-> from, piece |-> v]}
  BY <1>1 DEF SaveUniqueVariant
<1>3. clock' \in Int /\ clock' # -1
  BY StampType DEF SaveUniqueVariant, PieceInv
<1>4. OnlySlot(s) /\ catPc'[s] = "variant"
  BY <1>1, SlotMoves DEF SaveUniqueVariant, PieceInv
<1> DEFINE d == variants'[v]
<1>5. /\ d.stock = 1 /\ d.stamp = clock'
      /\ \A w \in Variants \ {v} : variants'[w] = variants[w]
  <2>1. j.source \in VariantDocs /\ variants \in [Variants -> VariantDocs]
    BY <1>1 DEF CatJobs, PieceInv, CatInv, CatalogTypeOK
  <2>2. variants'[v] = [j.source EXCEPT !.product = j.product, !.stock = 1,
                                        !.stamp = clock']
    BY <1>2, <2>1
  <2> HIDE DEF j
  <2> QED
    BY <1>2, <2>1, <2>2 DEF VariantDocs
<1> HIDE DEF j, d
<1>6. \A w \in Variants : HasStamp(w) => HasStamp(w)' /\ w # v
  BY <1>2, <1>3, <1>5 DEF HasStamp, d
<1>7. HasStamp(v)'
  BY <1>3, <1>5 DEF HasStamp, d
<1>8. /\ TakenFrom(from)' = TakenFrom(from) \cup {[from |-> from, piece |-> v]}
      /\ [from |-> from, piece |-> v] \notin TakenFrom(from)
      /\ Waiting(from)' = Waiting(from) \cup {s}
      /\ s \notin Waiting(from)
  <2>1. \A t \in taken : t.piece # v
    BY <1>2 DEF PieceInv, HasStamp
  <2>2. [from |-> from, piece |-> v] \notin taken
    BY <2>1
  <2>3. TakenFrom(from)' = TakenFrom(from) \cup {[from |-> from, piece |-> v]}
    BY <1>2 DEF TakenFrom
  <2>4. Waiting(from)' = Waiting(from) \cup {s}
    BY <1>1, <1>4 DEF Waiting, OnlySlot, j
  <2> QED
    BY <1>1, <2>2, <2>3, <2>4 DEF TakenFrom, Waiting
<1>9. \A w \in Variants \ {from} : /\ TakenFrom(w)' = TakenFrom(w)
                                   /\ Waiting(w)' = Waiting(w)
  <2> SUFFICES ASSUME NEW w \in Variants \ {from}
               PROVE  TakenFrom(w)' = TakenFrom(w) /\ Waiting(w)' = Waiting(w)
    OBVIOUS
  <2>1. [from |-> from, piece |-> v].from # w
    OBVIOUS
  <2>2. TakenFrom(w)' = TakenFrom(w)
    BY <1>2, <2>1 DEF TakenFrom
  <2>3. Waiting(w)' = Waiting(w)
    BY <1>1, <1>4 DEF Waiting, OnlySlot, j
  <2> QED
    BY <2>2, <2>3
<1>10. \A w \in Variants : IsFiniteSet(TakenFrom(w)') /\ IsFiniteSet(Waiting(w)')
  <2>1. IsFiniteSet(TakenFrom(from)') /\ IsFiniteSet(Waiting(from)')
    BY <1>8, FS_AddElement DEF PieceInv
  <2> QED
    BY <1>9, <2>1 DEF PieceInv
<1>11. \A w \in Variants : Deducted(w)' = Deducted(w)
  <2>1. ASSUME NEW w \in Variants
        PROVE  Deducted(w)' = Cardinality(TakenFrom(w)') - Cardinality(Waiting(w)')
    BY DEF Deducted, TakenFrom, Waiting
  <2>2. ASSUME NEW w \in Variants \ {from} PROVE Deducted(w)' = Deducted(w)
    BY <1>9, <2>1, DeductedIs
  <2>3. Deducted(from)' = Deducted(from)
    <3>1. /\ Cardinality(TakenFrom(from)') = Cardinality(TakenFrom(from)) + 1
          /\ Cardinality(Waiting(from)') = Cardinality(Waiting(from)) + 1
      BY <1>1, <1>8, FS_AddElement DEF PieceInv
    <3>2. Deducted(from)' = Cardinality(TakenFrom(from)') - Cardinality(Waiting(from)')
      BY <1>1, <2>1
    <3> QED
      BY <1>1, <3>1, <3>2, DeductedIs
  <2> QED
    BY <2>2, <2>3
<1>12. Deducted(v) = 0
  <2>1. TakenFrom(v) = {}
    BY <1>2 DEF TakenFrom, PieceInv, HasStamp
  <2>2. Waiting(v) = {}
    <3> SUFFICES ASSUME NEW t \in CatalogSlots, catPc[t] = "variant",
                        catJob[t].call.variant = v
                 PROVE  FALSE
      BY DEF Waiting
    <3>1. MakesUnique(t)
      BY DEF MakesUnique, PieceInv, CatInv, OpAt
    <3>2. HasStamp(v)
      BY <3>1 DEF PieceInv
    <3> QED
      BY <1>2, <3>2 DEF HasStamp
  <2>3. Cardinality(TakenFrom(v)) = 0 /\ Cardinality(Waiting(v)) = 0
    BY <2>1, <2>2, FS_EmptySet
  <2> QED
    BY <2>3, DeductedIs
<1>13. /\ supply' \in [Variants -> Int] /\ supply'[v] = 1
       /\ \A w \in Variants \ {v} : supply'[w] = supply[w]
  BY <1>2 DEF PieceInv
<1>14. PiecesAddUp'
  <2> SUFFICES ASSUME NEW w \in Variants, variants'[w].exists
               PROVE  variants'[w].stock + Deducted(w)' = supply'[w]
    BY DEF PiecesAddUp
  <2>1. CASE w = v
    BY <1>5, <1>11, <1>12, <1>13, <2>1 DEF d
  <2>2. CASE w # v
    BY <1>5, <1>11, <1>13, <2>2 DEF PieceInv, PiecesAddUp
  <2> QED
    BY <2>1, <2>2
<1>15. \A w \in Variants : variants'[w].exists => HasStamp(w)'
  <2> SUFFICES ASSUME NEW w \in Variants, variants'[w].exists PROVE HasStamp(w)'
    OBVIOUS
  <2>1. w # v => HasStamp(w)
    BY <1>5 DEF PieceInv
  <2> QED
    BY <1>6, <1>7, <2>1
<1>16. ASSUME NEW t \in CatalogSlots, MakesUnique(t)'
       PROVE  HasStamp(catJob[t].call.variant)'
  <2>1. catJob'[t] = catJob[t] /\ catJob[t].call \in CatalogCalls
    BY <1>1 DEF PieceInv, CatInv, CatalogTypeOK
  <2>2. MakesUnique(t)
    BY <1>1, <1>4, <1>16 DEF MakesUnique, OnlySlot, j
  <2>3. catJob[t].call.variant \in Variants
    BY <2>1, <2>2, CatalogFields DEF MakesUnique
  <2>4. HasStamp(catJob[t].call.variant)
    BY <2>2 DEF PieceInv
  <2>5. variants'[catJob[t].call.variant].stamp # -1
    BY <1>6, <2>3, <2>4 DEF HasStamp
  <2> QED
    BY <2>1, <2>5 DEF HasStamp
<1>17. ASSUME NEW t \in taken' PROVE HasStamp(t.from)' /\ HasStamp(t.piece)'
  <2>1. CASE t \in taken
    <3>1. t.from \in Variants /\ t.piece \in Variants /\ HasStamp(t.from) /\ HasStamp(t.piece)
      BY <2>1 DEF PieceInv, CatInv, CatalogTypeOK
    <3> QED
      BY <1>6, <3>1
  <2>2. CASE t = [from |-> from, piece |-> v]
    BY <1>1, <1>6, <1>7, <2>2
  <2> QED
    BY <1>2, <1>17, <2>1, <2>2
<1> QED
  BY <1>10, <1>13, <1>14, <1>15, <1>16, <1>17 DEF PieceInv, HasStamp

(* Taking the piece: one less in stock, one less waits.                    *)
LEMMA TakePiecePieces ==
  ASSUME PieceInv, CatInv', NEW s \in CatalogSlots, TakePiece(s)
  PROVE  PieceInv'
<1>1. PICK from \in Variants :
        /\ from = catJob[s].call.variant /\ catPc[s] = "variant"
        /\ catJob' = catJob /\ taken' = taken /\ supply' = supply
  <2>1. /\ catJob[s].call \in CatalogCalls /\ catPc[s] = "variant"
        /\ catJob[s].call.op = "createUniqueProduct"
    BY DEF PieceInv, CatInv, CatalogTypeOK, TakePiece, OpAt
  <2> QED
    BY <2>1, CatalogFields DEF TakePiece
<1>2. OnlySlot(s) /\ catPc'[s] = "done"
  BY <1>1, SlotMoves DEF TakePiece, PieceInv
<1>3. /\ \A w \in Variants \ {from} : variants'[w] = variants[w]
      /\ \A w \in Variants : variants'[w].stamp = variants[w].stamp
      /\ \A w \in Variants : variants'[w].exists => variants[w].exists
      /\ variants[from].exists => variants'[from].stock = variants[from].stock - 1
      /\ \A w \in Variants : variants[w].stock \in Int
  <2>1. variants \in [Variants -> VariantDocs]
    BY DEF PieceInv, CatInv, CatalogTypeOK
  <2>2. variants' = IF variants[from].exists
                      THEN [variants EXCEPT ![from].stock = variants[from].stock - 1]
                      ELSE variants
    BY <1>1 DEF TakePiece, StockLessOne
  <2> QED
    BY <1>1, <2>1, <2>2 DEF VariantDocs
<1>4. \A w \in Variants : HasStamp(w)' <=> HasStamp(w)
  BY <1>3 DEF HasStamp
<1>5. /\ \A w \in Variants : TakenFrom(w)' = TakenFrom(w)
      /\ \A w \in Variants \ {from} : Waiting(w)' = Waiting(w)
      /\ Waiting(from)' = Waiting(from) \ {s} /\ s \in Waiting(from)
  BY <1>1, <1>2 DEF TakenFrom, Waiting, OnlySlot
<1>6. \A w \in Variants : IsFiniteSet(TakenFrom(w)') /\ IsFiniteSet(Waiting(w)')
  <2>1. IsFiniteSet(Waiting(from)')
    BY <1>5, FS_RemoveElement DEF PieceInv
  <2> QED
    BY <1>5, <2>1 DEF PieceInv
<1>7. ASSUME NEW w \in Variants
      PROVE  Deducted(w)' = Cardinality(TakenFrom(w)') - Cardinality(Waiting(w)')
  BY DEF Deducted, TakenFrom, Waiting
<1>8. \A w \in Variants \ {from} : Deducted(w)' = Deducted(w)
  BY <1>5, <1>7, DeductedIs
<1>9. Deducted(from)' = Deducted(from) + 1
  <2>1. Cardinality(Waiting(from)') = Cardinality(Waiting(from)) - 1
    BY <1>1, <1>5, FS_RemoveElement DEF PieceInv
  <2>2. Cardinality(TakenFrom(from)') = Cardinality(TakenFrom(from))
    BY <1>1, <1>5
  <2>3. Deducted(from)' = Cardinality(TakenFrom(from)') - Cardinality(Waiting(from)')
    BY <1>1, <1>7
  <2>4. /\ Cardinality(TakenFrom(from)) \in Int /\ Cardinality(Waiting(from)) \in Int
        /\ Deducted(from) = Cardinality(TakenFrom(from)) - Cardinality(Waiting(from))
    BY <1>1, DeductedIs
  <2> QED
    BY <2>1, <2>2, <2>3, <2>4
<1>10. PiecesAddUp'
  <2> SUFFICES ASSUME NEW w \in Variants, variants'[w].exists
               PROVE  variants'[w].stock + Deducted(w)' = supply'[w]
    BY DEF PiecesAddUp
  <2>1. variants[w].exists /\ variants[w].stock + Deducted(w) = supply[w]
    BY <1>3 DEF PieceInv, PiecesAddUp
  <2>2. Deducted(w) \in Int /\ variants[w].stock \in Int
    BY <1>3, DeductedIs
  <2>3. CASE w = from
    <3>1. variants'[w].stock = variants[w].stock - 1 /\ supply'[w] = supply[w]
      BY <1>1, <1>3, <2>1, <2>3
    <3> QED
      BY <1>9, <2>1, <2>2, <2>3, <3>1
  <2>4. CASE w # from
    BY <1>1, <1>3, <1>8, <2>1, <2>4
  <2> QED
    BY <2>3, <2>4
<1>11. \A w \in Variants : variants'[w].exists => HasStamp(w)'
  BY <1>3, <1>4 DEF PieceInv
<1>12. ASSUME NEW t \in CatalogSlots, MakesUnique(t)'
       PROVE  HasStamp(catJob[t].call.variant)'
  <2>1. MakesUnique(t) /\ catJob'[t] = catJob[t] /\ catJob[t].call \in CatalogCalls
    BY <1>1, <1>2, <1>12 DEF MakesUnique, OnlySlot, PieceInv, CatInv, CatalogTypeOK
  <2>2. catJob[t].call.variant \in Variants
    BY <2>1, CatalogFields DEF MakesUnique
  <2>3. variants'[catJob[t].call.variant].stamp # -1
    BY <1>3, <2>1, <2>2 DEF PieceInv, HasStamp
  <2> QED
    BY <2>1, <2>3 DEF HasStamp
<1>13. \A t \in taken' : HasStamp(t.from)' /\ HasStamp(t.piece)'
  <2> SUFFICES ASSUME NEW t \in taken PROVE HasStamp(t.from)' /\ HasStamp(t.piece)'
    BY <1>1
  <2>1. t.from \in Variants /\ t.piece \in Variants
    BY DEF PieceInv, CatInv, CatalogTypeOK
  <2> QED
    BY <1>4, <2>1 DEF PieceInv
<1>14. supply' \in [Variants -> Int]
  BY <1>1 DEF PieceInv
<1> QED
  BY <1>6, <1>10, <1>11, <1>12, <1>13, <1>14 DEF PieceInv, HasStamp

LEMMA PieceStep ==
  ASSUME PieceInv, [CatalogNext]_catalogVars
  PROVE  PieceInv'
<1>0. CatInv'
  BY CatStep DEF PieceInv
<1>1. ASSUME NEW s \in CatalogSlots, NEW c \in CatalogCalls,
             \/ StoreProduct(s, c) \/ DeleteDoc(s, c) \/ StoreVariant(s, c)
             \/ CreateListing(s, c) \/ CreateLabel(s, c) \/ FindLabel(s, c)
             \/ FindVariants(s, c) \/ FindSource(s, c)
      PROVE  PieceInv'
  BY <1>0, <1>1, QuietCalls, DeleteDocPieces, StoreVariantPieces
<1>2. ASSUME NEW s \in CatalogSlots,
             \/ CountUses(s) \/ CountMeasures(s)
             \/ DeleteLabel(s) \/ ClearCategory(s) \/ InsertListings(s)
             \/ SetShowcase(s) \/ SaveUniqueProduct(s) \/ SaveUniqueVariant(s)
             \/ TakePiece(s)
      PROVE  PieceInv'
  BY <1>0, <1>2, QuietLater, SaveUniqueVariantPieces, TakePiecePieces
<1>3. CASE EditListing
  <2>1. UNCHANGED <<variants, supply, taken, catPc, catJob>>
    BY <1>3 DEF EditListing
  <2> QED
    BY <1>0, <2>1, PiecesStay DEF PieceInv, MakesUnique
<1>4. CASE UNCHANGED catalogVars
  <2>1. UNCHANGED <<variants, supply, taken, catPc, catJob>>
    BY <1>4 DEF catalogVars
  <2> QED
    BY <1>0, <2>1, PiecesStay DEF PieceInv, MakesUnique
<1> QED
  BY <1>1, <1>2, <1>3, <1>4 DEF CatalogNext

(* However many unique products are made of a variant at a time, and       *)
(* whatever edits set its stock meanwhile, no piece is lost or made: its   *)
(* stock and the pieces taken from it are what was supplied.               *)
THEOREM PiecesAccounted == CatalogSpec => []PiecesAddUp
<1>1. CatalogInit => PieceInv
  <2> SUFFICES ASSUME CatalogInit PROVE PieceInv
    OBVIOUS
  <2>1. CatInv /\ taken = {} /\ \A s \in CatalogSlots : catPc[s] = "new"
    BY CatInit DEF CatalogInit
  <2>2. \A v \in Variants : TakenFrom(v) = {} /\ Waiting(v) = {}
    BY <2>1 DEF TakenFrom, Waiting
  <2>3. variants \in [Variants -> VariantDocs]
    BY <2>1 DEF CatInv, CatalogTypeOK
  <2>4. supply \in [Variants -> Int] /\ \A v \in Variants : supply[v] = variants[v].stock
    BY <2>3 DEF CatalogInit, VariantDocs
  <2>5. ASSUME NEW v \in Variants, variants[v].exists PROVE HasStamp(v)
    <3>1. PICK c \in InitCatalog : variants = c.variants
      BY DEF CatalogInit
    <3>2. variants[v].stamp = 0
      BY <2>5, <3>1, CatalogAssumption
    <3> QED
      BY <3>2 DEF HasStamp
  <2>6. ASSUME NEW v \in Variants PROVE Deducted(v) = 0
    <3>1. Cardinality(TakenFrom(v)) = 0 /\ Cardinality(Waiting(v)) = 0
      BY <2>2, FS_EmptySet
    <3> QED
      BY <3>1 DEF Deducted, TakenFrom, Waiting
  <2>7. \A v \in Variants : variants[v].stock \in Int
    BY <2>3 DEF VariantDocs
  <2>8. PiecesAddUp
    BY <2>4, <2>6, <2>7 DEF PiecesAddUp
  <2> QED
    BY <2>1, <2>2, <2>4, <2>5, <2>8, FS_EmptySet DEF PieceInv, MakesUnique
<1>2. PieceInv /\ [CatalogNext]_catalogVars => PieceInv'
  BY PieceStep
<1>3. PieceInv => PiecesAddUp
  BY DEF PieceInv
<1> QED
  BY <1>1, <1>2, <1>3, PTL DEF CatalogSpec

(***************************************************************************)
(* Pictures.                                                               *)
(***************************************************************************)

PicturePCs == {"new", "loaded", "stored", "recorded", "found", "destroyed", "pulled", "done"}

PictureJobs == [call : PictureCalls, list : Seq(Pictures),
                image : Pictures \cup {CHOOSE i \in Pictures : TRUE}, since : Nat]

LogEntries == [garment : Garments, added : SUBSET Pictures, removed : SUBSET Pictures]

OrderOps == {"setMainImage", "reorderImages"}

(* What the calls of the administrators carry.                             *)
LEMMA PictureCallFields ==
  ASSUME NEW c \in PictureCalls
  PROVE  /\ c.op \in {"uploadProductImage", "setMainImage", "deleteProductImage",
                      "reorderImages"}
         /\ c.garment \in Garments
         /\ c.op \in {"setMainImage", "deleteProductImage"} => c.image \in Pictures
         /\ c.op = "reorderImages" => c.images \in Seq(Pictures)
<1> DEFINE L == Seq(Pictures)
<1> HIDE DEF L
<1>1. \/ c \in [op : {"uploadProductImage"}, garment : Garments]
      \/ c \in [op : {"setMainImage", "deleteProductImage"}, garment : Garments,
                image : Pictures]
      \/ c \in [op : {"reorderImages"}, garment : Garments, images : L]
  BY ImagesAssumption DEF PictureRequests, L
<1>2. CASE c \in [op : {"uploadProductImage"}, garment : Garments]
  BY <1>2
<1>3. CASE c \in [op : {"setMainImage", "deleteProductImage"}, garment : Garments,
                  image : Pictures]
  BY <1>3
<1>4. CASE c \in [op : {"reorderImages"}, garment : Garments, images : L]
  BY <1>4 DEF L
<1> QED
  BY <1>1, <1>2, <1>3, <1>4

(* The i-th image of s was added to garment g by a write that followed the *)
(* first n.                                                                *)
AddedSince(n, g, i) ==
  \E k \in n + 1 .. Len(pictureLog) : pictureLog[k].garment = g /\ i \in pictureLog[k].added

PictureSlotOK(s) ==
  LET j == pictureJob[s] IN
  /\ picturePc[s] \in {"stored", "recorded"} => j.image \in Pictures \cap uploaded
  /\ picturePc[s] \in {"stored", "recorded"} => j.call.op = "uploadProductImage"
  /\ picturePc[s] \in {"found", "destroyed", "pulled"} => j.call.op = "deleteProductImage"
  /\ picturePc[s] = "loaded" /\ j.call.op = "setMainImage" => j.call.image \in Range(j.list)
  /\ picturePc[s] = "loaded" /\ j.call.op = "reorderImages" =>
       Range(j.call.images) \subseteq Range(j.list) /\ Len(j.call.images) = Len(j.list)

(* What is on a list now and was not when it was read has been added since.*)
SinceRead(s) ==
  LET j == pictureJob[s]
      g == j.call.garment IN
  picturePc[s] = "loaded" =>
    \A i \in Range(gallery[g]) \ Range(j.list) : AddedSince(j.since, g, i)

PicturesInv ==
  /\ ImagesTypeOK
  /\ pictureLog \in Seq(LogEntries)
  /\ pictureJob \in [PictureSlots -> PictureJobs]
  /\ \A s \in PictureSlots : /\ PictureSlotOK(s)
                             /\ SinceRead(s)
                             /\ pictureJob[s].since <= Len(pictureLog)

LEMMA PictureJobFields ==
  ASSUME NEW j \in PictureJobs
  PROVE  /\ j.call \in PictureCalls /\ j.list \in Seq(Pictures) /\ j.since \in Nat
         /\ \A i \in Pictures :
              /\ [j EXCEPT !.image = i] \in PictureJobs
              /\ [j EXCEPT !.image = i].image = i
              /\ [j EXCEPT !.image = i].call = j.call
              /\ [j EXCEPT !.image = i].list = j.list
              /\ [j EXCEPT !.image = i].since = j.since
<1> DEFINE L == Seq(Pictures)
<1> HIDE DEF L
<1>1. j \in [call : PictureCalls, list : L,
             image : Pictures \cup {CHOOSE i \in Pictures : TRUE}, since : Nat]
  BY DEF PictureJobs, L
<1>2. j.call \in PictureCalls /\ j.list \in L /\ j.since \in Nat
  BY <1>1
<1>3. \A i \in Pictures :
        /\ [j EXCEPT !.image = i] \in PictureJobs
        /\ [j EXCEPT !.image = i].image = i
        /\ [j EXCEPT !.image = i].call = j.call
        /\ [j EXCEPT !.image = i].list = j.list
        /\ [j EXCEPT !.image = i].since = j.since
  BY <1>1 DEF PictureJobs, L
<1> QED
  BY <1>2, <1>3 DEF L

(* A new job.                                                              *)
LoadedJob(c, list, n) == [IdlePictureJob EXCEPT !.call = c, !.list = list, !.since = n]
FoundJob(c, n) == [IdlePictureJob EXCEPT !.call = c, !.since = n]

LEMMA NewPictureJob ==
  ASSUME NEW c \in PictureCalls, NEW list \in Seq(Pictures), NEW n \in Nat
  PROVE  /\ LoadedJob(c, list, n) \in PictureJobs
         /\ LoadedJob(c, list, n).call = c
         /\ LoadedJob(c, list, n).list = list
         /\ LoadedJob(c, list, n).since = n
         /\ FoundJob(c, n) \in PictureJobs
         /\ FoundJob(c, n).call = c
         /\ FoundJob(c, n).since = n
<1> DEFINE L == Seq(Pictures)
           j == LoadedJob(c, list, n)
           k == FoundJob(c, n)
<1>1. list \in L /\ NoList \in L
  BY DEF NoList
<1> HIDE DEF L
<1>2. /\ j.call = c /\ j.list = list /\ j.since = n
      /\ j \in [call : PictureCalls, list : L,
                image : Pictures \cup {CHOOSE i \in Pictures : TRUE}, since : Nat]
  BY <1>1 DEF IdlePictureJob, LoadedJob
<1>3. /\ k.call = c /\ k.since = n
      /\ k \in [call : PictureCalls, list : L,
                image : Pictures \cup {CHOOSE i \in Pictures : TRUE}, since : Nat]
  BY <1>1 DEF IdlePictureJob, FoundJob
<1> QED
  BY <1>2, <1>3 DEF PictureJobs, L

LEMMA RangeOfList ==
  ASSUME NEW S, NEW list \in Seq(S)
  PROVE  Range(list) \subseteq S
<1>1. \A n \in DOMAIN list : list[n] \in S
  OBVIOUS
<1> QED
  BY <1>1 DEF Range

(* A list is written, and the write logged.                                *)
LEMMA GalleryWritten ==
  ASSUME PicturesInv, NEW g \in Garments, NEW list \in Seq(Pictures), WriteGallery(g, list)
  PROVE  /\ gallery' \in [Garments -> Seq(Pictures)]
         /\ gallery'[g] = list /\ \A h \in Garments \ {g} : gallery'[h] = gallery[h]
         /\ pictureLog' \in Seq(LogEntries)
         /\ Len(pictureLog') = Len(pictureLog) + 1
         /\ \A n \in Nat, h \in Garments : \A i :
              /\ n <= Len(pictureLog)
              /\ i \in Range(gallery'[h])
              /\ i \in Range(gallery[h]) => AddedSince(n, h, i)
              => AddedSince(n, h, i)'
<1> DEFINE added == Range(list) \ Range(gallery[g])
           removed == Range(gallery[g]) \ Range(list)
           entry == [garment |-> g, added |-> added, removed |-> removed]
<1>1. gallery \in [Garments -> Seq(Pictures)] /\ pictureLog \in Seq(LogEntries)
  BY DEF PicturesInv, ImagesTypeOK
<1>2. gallery' = [gallery EXCEPT ![g] = list] /\ pictureLog' = Append(pictureLog, entry)
  BY DEF WriteGallery
<1>3. entry \in LogEntries /\ entry.garment = g /\ entry.added = added
  <2>1. added \subseteq Pictures /\ removed \subseteq Pictures
    BY <1>1, RangeOfList
  <2> HIDE DEF added, removed
  <2> QED
    BY <2>1 DEF LogEntries
<1>4. /\ gallery' \in [Garments -> Seq(Pictures)]
      /\ gallery'[g] = list /\ \A h \in Garments \ {g} : gallery'[h] = gallery[h]
  BY <1>1, <1>2
<1> HIDE DEF entry
<1>5. /\ pictureLog' \in Seq(LogEntries)
      /\ Len(pictureLog') = Len(pictureLog) + 1
      /\ Len(pictureLog) \in Nat
      /\ \A k \in 1..Len(pictureLog) : pictureLog'[k] = pictureLog[k]
      /\ pictureLog'[Len(pictureLog) + 1] = entry
  BY <1>1, <1>2, <1>3
<1>6. ASSUME NEW n \in Nat, NEW h \in Garments, NEW i,
             n <= Len(pictureLog),
             i \in Range(gallery'[h]),
             i \in Range(gallery[h]) => AddedSince(n, h, i)
      PROVE  AddedSince(n, h, i)'
  <2>1. CASE AddedSince(n, h, i)
    <3>1. PICK k \in n + 1 .. Len(pictureLog) :
            pictureLog[k].garment = h /\ i \in pictureLog[k].added
      BY <2>1 DEF AddedSince
    <3>2. k \in 1..Len(pictureLog) /\ k \in n + 1 .. Len(pictureLog')
      BY <1>5, <3>1
    <3> QED
      BY <1>5, <3>1, <3>2 DEF AddedSince
  <2>2. CASE ~ AddedSince(n, h, i)
    <3>1. h = g /\ i \in added
      BY <1>4, <1>6, <2>2
    <3>2. Len(pictureLog) + 1 \in n + 1 .. Len(pictureLog')
      BY <1>5, <1>6
    <3>3. pictureLog'[Len(pictureLog) + 1].garment = h
          /\ i \in pictureLog'[Len(pictureLog) + 1].added
      BY <1>3, <1>5, <3>1
    <3> QED
      BY <3>2, <3>3 DEF AddedSince
  <2> QED
    BY <2>1, <2>2
<1> QED
  BY <1>4, <1>5, <1>6

(* A slot that does not move, while a list is written.                     *)
LEMMA StillSince ==
  ASSUME PicturesInv, NEW s \in PictureSlots,
         NEW g \in Garments, NEW list \in Seq(Pictures), WriteGallery(g, list),
         picturePc'[s] = picturePc[s], pictureJob'[s] = pictureJob[s]
  PROVE  SinceRead(s)' /\ pictureJob'[s].since <= Len(pictureLog')
<1> DEFINE j == pictureJob[s]
           h == j.call.garment
<1>1. /\ SinceRead(s) /\ j.since \in Nat /\ j.since <= Len(pictureLog) /\ h \in Garments
      /\ Len(pictureLog) \in Nat
  BY PictureJobFields, PictureCallFields DEF PicturesInv
<1>2. ASSUME picturePc[s] = "loaded", NEW i \in Range(gallery'[h]) \ Range(j.list)
      PROVE  AddedSince(j.since, h, i)'
  <2>1. i \in Range(gallery[h]) => AddedSince(j.since, h, i)
    BY <1>1, <1>2 DEF SinceRead
  <2> QED
    BY <1>1, <1>2, <2>1, GalleryWritten
<1>3. SinceRead(s)'
  BY <1>2 DEF SinceRead
<1>4. Len(pictureLog') = Len(pictureLog) + 1
  BY GalleryWritten
<1> QED
  BY <1>1, <1>3, <1>4

(* The other slots, at a step that writes no list.                         *)
LEMMA QuietSlots ==
  ASSUME PicturesInv, NEW s \in PictureSlots, UNCHANGED <<gallery, pictureLog>>,
         uploaded \subseteq uploaded',
         picturePc'[s] = picturePc[s], pictureJob'[s] = pictureJob[s]
  PROVE  /\ PictureSlotOK(s)' /\ SinceRead(s)'
         /\ pictureJob'[s].since <= Len(pictureLog')
<1>1. PictureSlotOK(s) /\ SinceRead(s) /\ pictureJob[s].since <= Len(pictureLog)
  BY DEF PicturesInv
<1>2. PictureSlotOK(s)'
  BY <1>1 DEF PictureSlotOK
<1>3. SinceRead(s)'
  BY <1>1 DEF SinceRead, AddedSince
<1> QED
  BY <1>1, <1>2, <1>3

(* A step of slot s leaves the others where they are.                      *)
SlotTurns(s) ==
  /\ \E at \in PicturePCs : picturePc' = [picturePc EXCEPT ![s] = at]
  /\ \/ pictureJob' = pictureJob
     \/ \E j \in PictureJobs : pictureJob' = [pictureJob EXCEPT ![s] = j]

(* What remains to be shown of a step.                                     *)
LEMMA PicturesAfter ==
  ASSUME PicturesInv, NEW s \in PictureSlots, SlotTurns(s),
         uploaded \subseteq uploaded', uploaded' \subseteq Pictures,
         records' \subseteq uploaded', files' \subseteq uploaded',
         PictureSlotOK(s)', SinceRead(s)', pictureJob'[s].since <= Len(pictureLog'),
         \/ UNCHANGED <<gallery, pictureLog>>
         \/ \E g \in Garments, list \in Seq(Pictures) : WriteGallery(g, list)
  PROVE  PicturesInv'
<1>1. /\ picturePc \in [PictureSlots -> PicturePCs]
      /\ pictureJob \in [PictureSlots -> PictureJobs]
      /\ gallery \in [Garments -> Seq(Pictures)] /\ pictureLog \in Seq(LogEntries)
  BY DEF PicturesInv, ImagesTypeOK, PicturePCs
<1>2. /\ picturePc' \in [PictureSlots -> PicturePCs]
      /\ pictureJob' \in [PictureSlots -> PictureJobs]
      /\ \A t \in PictureSlots \ {s} :
           picturePc'[t] = picturePc[t] /\ pictureJob'[t] = pictureJob[t]
  <2> HIDE DEF PictureJobs, PicturePCs
  <2> QED
    BY <1>1 DEF SlotTurns
<1>3. gallery' \in [Garments -> Seq(Pictures)] /\ pictureLog' \in Seq(LogEntries)
  BY <1>1, GalleryWritten
<1>4. \A t \in PictureSlots : pictureJob'[t].call \in PictureCalls
  BY <1>2, PictureJobFields
<1>5. ImagesTypeOK'
  BY <1>2, <1>3, <1>4 DEF ImagesTypeOK, PicturePCs
<1>6. ASSUME NEW t \in PictureSlots \ {s}
      PROVE  /\ PictureSlotOK(t)' /\ SinceRead(t)'
             /\ pictureJob'[t].since <= Len(pictureLog')
  <2>1. PictureSlotOK(t)
    BY DEF PicturesInv
  <2>2. PictureSlotOK(t)'
    BY <1>2, <2>1 DEF PictureSlotOK
  <2>3. CASE UNCHANGED <<gallery, pictureLog>>
    BY <1>2, <2>3, QuietSlots
  <2>4. CASE \E g \in Garments, list \in Seq(Pictures) : WriteGallery(g, list)
    BY <1>2, <2>2, <2>4, StillSince
  <2> QED
    BY <2>3, <2>4
<1>7. \A t \in PictureSlots : /\ PictureSlotOK(t)' /\ SinceRead(t)'
                              /\ pictureJob'[t].since <= Len(pictureLog')
  BY <1>6
<1> QED
  BY <1>2, <1>3, <1>5, <1>7 DEF PicturesInv

LEMMA PicturesInit == ImagesInit => PicturesInv
<1> SUFFICES ASSUME ImagesInit PROVE PicturesInv
  OBVIOUS
<1> DEFINE L == Seq(Pictures)
<1>0. NoList \in L /\ Len(pictureLog) = 0
  BY DEF NoList, ImagesInit
<1>1. pictureLog \in Seq(LogEntries)
  BY DEF ImagesInit
<1> HIDE DEF L
<1>2. IdlePictureJob \in PictureJobs /\ IdlePictureJob.call \in PictureCalls
      /\ IdlePictureJob.since = 0
  BY <1>0, ImagesAssumption DEF IdlePictureJob, PictureJobs, L
<1>3. gallery \in [Garments -> L]
  BY <1>0 DEF ImagesInit
<1>4. ImagesTypeOK
  BY <1>2, <1>3 DEF ImagesTypeOK, ImagesInit, L
<1>5. pictureJob \in [PictureSlots -> PictureJobs]
      /\ \A s \in PictureSlots : pictureJob[s].since <= Len(pictureLog)
  BY <1>0, <1>2 DEF ImagesInit
<1>6. \A s \in PictureSlots : picturePc[s] = "new"
  BY DEF ImagesInit
<1> QED
  BY <1>1, <1>4, <1>5, <1>6 DEF PicturesInv, PictureSlotOK, SinceRead

LEMMA PicturesLoad ==
  ASSUME PicturesInv, NEW s \in PictureSlots, NEW c \in PictureCalls, LoadGallery(s, c)
  PROVE  PicturesInv'
<1> DEFINE list == gallery[c.garment]
           n == Len(pictureLog)
           j == LoadedJob(c, list, n)
<1>1. list \in Seq(Pictures) /\ n \in Nat
  BY PictureCallFields DEF PicturesInv, ImagesTypeOK
<1>2. j \in PictureJobs /\ j.call = c /\ j.list = list /\ j.since = n
  BY <1>1, NewPictureJob
<1>3. picturePc' = [picturePc EXCEPT ![s] = "loaded"]
      /\ pictureJob' = [pictureJob EXCEPT ![s] = j]
      /\ UNCHANGED <<gallery, records, files, uploaded, pictureLog>>
  BY DEF LoadGallery, PictureGoto, LoadedJob
<1>4. /\ c.op = "setMainImage" => c.image \in Range(list)
      /\ c.op = "reorderImages" =>
            Range(c.images) \subseteq Range(list) /\ Len(c.images) = Len(list)
  <2>1. /\ c.op = "setMainImage" => Contains(list, c.image)
        /\ c.op = "reorderImages" =>
             Range(c.images) \subseteq Range(list) /\ Len(c.images) = Len(list)
    BY DEF LoadGallery
  <2> HIDE DEF list
  <2>2. Contains(list, c.image) => c.image \in Range(list)
    BY <1>1 DEF Contains, Range
  <2> QED
    BY <2>1, <2>2
<1> HIDE DEF j, n, list
<1>5. picturePc'[s] = "loaded" /\ pictureJob'[s] = j
  BY <1>3 DEF PicturesInv, ImagesTypeOK
<1>6. SlotTurns(s)
  BY <1>2, <1>3 DEF SlotTurns, PicturePCs
<1>7. PictureSlotOK(s)'
  BY <1>2, <1>4, <1>5 DEF PictureSlotOK
<1>8. SinceRead(s)'
  BY <1>2, <1>3, <1>5 DEF SinceRead, list
<1>9. pictureJob'[s].since <= Len(pictureLog')
  BY <1>1, <1>2, <1>3, <1>5 DEF n
<1> QED
  BY <1>3, <1>6, <1>7, <1>8, <1>9, PicturesAfter DEF PicturesInv, ImagesTypeOK

LEMMA PicturesFind ==
  ASSUME PicturesInv, NEW s \in PictureSlots, NEW c \in PictureCalls, FindImage(s, c)
  PROVE  PicturesInv'
<1> DEFINE n == Len(pictureLog)
           j == FoundJob(c, n)
<1>1. n \in Nat /\ NoList \in Seq(Pictures)
  BY DEF PicturesInv, NoList
<1>2. j \in PictureJobs /\ j.call = c /\ j.since = n
  BY <1>1, NewPictureJob
<1>3. picturePc' = [picturePc EXCEPT ![s] = "found"]
      /\ pictureJob' = [pictureJob EXCEPT ![s] = j]
      /\ UNCHANGED <<gallery, records, files, uploaded, pictureLog>>
      /\ c.op = "deleteProductImage"
  BY DEF FindImage, PictureGoto, FoundJob
<1> HIDE DEF j, n
<1>5. picturePc'[s] = "found" /\ pictureJob'[s] = j
  BY <1>3 DEF PicturesInv, ImagesTypeOK
<1>6. SlotTurns(s)
  BY <1>2, <1>3 DEF SlotTurns, PicturePCs
<1>7. PictureSlotOK(s)' /\ SinceRead(s)'
  BY <1>2, <1>3, <1>5 DEF PictureSlotOK, SinceRead
<1>9. pictureJob'[s].since <= Len(pictureLog')
  BY <1>1, <1>2, <1>3, <1>5 DEF n
<1> QED
  BY <1>3, <1>6, <1>7, <1>9, PicturesAfter DEF PicturesInv, ImagesTypeOK

LEMMA PicturesUpload ==
  ASSUME PicturesInv, NEW s \in PictureSlots, UploadToCloudinary(s)
  PROVE  PicturesInv'
<1>1. pictureJob[s] \in PictureJobs /\ pictureJob[s].since <= Len(pictureLog)
  BY DEF PicturesInv
<1>2. CASE PictureGoto(s, "done") /\ UNCHANGED <<files, uploaded, pictureJob>>
  <2>1. /\ picturePc' = [picturePc EXCEPT ![s] = "done"] /\ picturePc'[s] = "done"
        /\ UNCHANGED <<gallery, records, files, uploaded, pictureLog, pictureJob>>
    BY <1>2 DEF UploadToCloudinary, PictureGoto, PicturesInv, ImagesTypeOK
  <2>2. SlotTurns(s)
    BY <2>1 DEF SlotTurns, PicturePCs
  <2>3. PictureSlotOK(s)' /\ SinceRead(s)'
    BY <2>1 DEF PictureSlotOK, SinceRead
  <2> QED
    BY <1>1, <2>1, <2>2, <2>3, PicturesAfter DEF PicturesInv, ImagesTypeOK
<1>3. ASSUME NEW i \in Pictures \ files,
             files' = files \cup {i}, uploaded' = uploaded \cup {i},
             pictureJob' = [pictureJob EXCEPT ![s].image = i], PictureGoto(s, "stored")
      PROVE  PicturesInv'
  <2> DEFINE j == [pictureJob[s] EXCEPT !.image = i]
  <2>1. /\ j \in PictureJobs /\ j.image = i /\ j.call = pictureJob[s].call
        /\ j.since = pictureJob[s].since
    BY <1>1, PictureJobFields
  <2>2. /\ picturePc' = [picturePc EXCEPT ![s] = "stored"] /\ picturePc'[s] = "stored"
        /\ UNCHANGED <<gallery, records, pictureLog>>
        /\ pictureJob[s].call.op = "uploadProductImage"
    BY <1>3 DEF UploadToCloudinary, PictureGoto, PicturesInv, ImagesTypeOK
  <2>3. pictureJob' = [pictureJob EXCEPT ![s] = j] /\ pictureJob'[s] = j
    BY <1>3 DEF PicturesInv
  <2> HIDE DEF j
  <2>4. SlotTurns(s)
    BY <2>1, <2>2, <2>3 DEF SlotTurns, PicturePCs
  <2>5. PictureSlotOK(s)' /\ SinceRead(s)'
    BY <1>3, <2>1, <2>2, <2>3 DEF PictureSlotOK, SinceRead
  <2>6. pictureJob'[s].since <= Len(pictureLog')
    BY <1>1, <2>1, <2>2, <2>3
  <2> QED
    BY <1>3, <2>2, <2>4, <2>5, <2>6, PicturesAfter DEF PicturesInv, ImagesTypeOK
<1> QED
  BY <1>2, <1>3 DEF UploadToCloudinary

(* A step that writes no list and keeps its job.                           *)
LEMMA PicturesGoOn ==
  ASSUME PicturesInv, NEW s \in PictureSlots, NEW at \in PicturePCs \ {"loaded"},
         PictureGoto(s, at), UNCHANGED <<gallery, uploaded, pictureLog, pictureJob>>,
         records' \subseteq uploaded, files' \subseteq uploaded,
         at \in {"stored", "recorded"} => picturePc[s] \in {"stored", "recorded"},
         at \in {"found", "destroyed", "pulled"} =>
           picturePc[s] \in {"found", "destroyed", "pulled"}
  PROVE  PicturesInv'
<1>1. picturePc' = [picturePc EXCEPT ![s] = at] /\ picturePc'[s] = at
  BY DEF PictureGoto, PicturesInv, ImagesTypeOK
<1>2. SlotTurns(s)
  BY <1>1 DEF SlotTurns
<1>3. PictureSlotOK(s) /\ pictureJob[s].since <= Len(pictureLog)
  BY DEF PicturesInv
<1>4. PictureSlotOK(s)' /\ SinceRead(s)'
  BY <1>1, <1>3 DEF PictureSlotOK, SinceRead
<1> QED
  BY <1>2, <1>3, <1>4, PicturesAfter DEF PicturesInv, ImagesTypeOK

(* A step that writes a list and keeps its job.                            *)
LEMMA PicturesWrite ==
  ASSUME PicturesInv, NEW s \in PictureSlots, NEW at \in {"done", "pulled"},
         NEW list \in Seq(Pictures), WriteGallery(pictureJob[s].call.garment, list),
         PictureGoto(s, at), UNCHANGED <<records, files, uploaded, pictureJob>>,
         at = "pulled" => picturePc[s] \in {"found", "destroyed", "pulled"}
  PROVE  PicturesInv'
<1> DEFINE g == pictureJob[s].call.garment
<1>0. g \in Garments /\ Len(pictureLog) \in Nat /\ pictureJob[s].since \in Nat
  BY PictureJobFields, PictureCallFields DEF PicturesInv
<1>1. picturePc' = [picturePc EXCEPT ![s] = at] /\ picturePc'[s] = at
  BY DEF PictureGoto, PicturesInv, ImagesTypeOK
<1>2. SlotTurns(s)
  BY <1>1 DEF SlotTurns, PicturePCs
<1>3. PictureSlotOK(s) /\ pictureJob[s].since <= Len(pictureLog)
  BY DEF PicturesInv
<1>4. PictureSlotOK(s)' /\ SinceRead(s)'
  BY <1>1, <1>3 DEF PictureSlotOK, SinceRead
<1>5. WriteGallery(g, list)
  OBVIOUS
<1> HIDE DEF g
<1>6. Len(pictureLog') = Len(pictureLog) + 1
  BY <1>0, <1>5, GalleryWritten
<1>7. /\ uploaded \subseteq uploaded' /\ uploaded' \subseteq Pictures
      /\ records' \subseteq uploaded' /\ files' \subseteq uploaded'
  BY DEF PicturesInv, ImagesTypeOK
<1>8. pictureJob'[s].since <= Len(pictureLog')
  BY <1>0, <1>3, <1>6
<1> QED
  BY <1>0, <1>2, <1>4, <1>5, <1>7, <1>8, PicturesAfter

(* What a change of the order writes.                                      *)
LEMMA NewOrder ==
  ASSUME NEW j \in PictureJobs, j.call.op \in OrderOps
  PROVE  /\ Reordered(j) \in Seq(Pictures)
         /\ j.call.op = "setMainImage" => Range(j.list) \subseteq Range(Reordered(j))
         /\ j.call.op = "reorderImages" => Reordered(j) = j.call.images
<1>0. j.call \in PictureCalls /\ j.list \in Seq(Pictures)
  BY PictureJobFields
<1>1. CASE j.call.op = "reorderImages"
  BY <1>0, <1>1, PictureCallFields DEF Reordered
<1>2. CASE j.call.op = "setMainImage"
  <2> DEFINE i == j.call.image
             K == Pictures \ {i}
             rest == Filtered(j.list, K)
             list == <<i>> \o rest
  <2>1. Reordered(j) = list
    BY <1>2 DEF Reordered
  <2>2. i \in Pictures
    BY <1>0, <1>2, PictureCallFields
  <2>3. /\ rest \in Seq(Pictures)
        /\ \A n \in DOMAIN j.list : j.list[n] \in K =>
             \E m \in DOMAIN rest : rest[m] = j.list[n]
    <3> HIDE DEF K
    <3> QED
      BY <1>0, FilteredIs
  <2> HIDE DEF i, K, rest
  <2>4. /\ list \in Seq(Pictures) /\ Len(list) = Len(rest) + 1 /\ Len(rest) \in Nat
        /\ list[1] = i /\ \A m \in 1..Len(rest) : list[m + 1] = rest[m]
    BY <2>2, <2>3
  <2> HIDE DEF list
  <2>5. ASSUME NEW n \in DOMAIN j.list
        PROVE  \E k \in DOMAIN list : list[k] = j.list[n]
    <3>1. j.list[n] \in Pictures
      BY <1>0
    <3>2. CASE j.list[n] = i
      BY <2>4, <3>2
    <3>3. CASE j.list[n] # i
      <4>1. PICK m \in DOMAIN rest : rest[m] = j.list[n]
        BY <2>3, <3>1, <3>3 DEF K
      <4>2. m \in 1..Len(rest) /\ m + 1 \in DOMAIN list
        BY <2>3, <2>4, <4>1
      <4> QED
        BY <2>4, <4>1, <4>2
    <3> QED
      BY <3>2, <3>3
  <2>6. Range(j.list) \subseteq Range(list)
    BY <2>5 DEF Range
  <2> QED
    BY <1>2, <2>1, <2>4, <2>6
<1> QED
  BY <1>1, <1>2 DEF OrderOps

(* A list of distinct images, all on another list as long, has all of its. *)
LEMMA SameImages ==
  ASSUME NEW list \in Seq(Pictures), NEW images \in Seq(Pictures),
         Range(images) \subseteq Range(list), Len(images) = Len(list),
         IsInjective(images)
  PROVE  Range(list) \subseteq Range(images)
<1> DEFINE n == Len(list)
           R == Range(list)
           places == 1..n
<1>1. n \in Nat /\ DOMAIN list = places /\ DOMAIN images = places
  OBVIOUS
<1>2. IsFiniteSet(places) /\ Cardinality(places) = n
  <2>1. n \in Int /\ 1 \in Int
    BY <1>1
  <2> HIDE DEF n
  <2>2. IsFiniteSet(places) /\ Cardinality(places) = IF 1 > n THEN 0 ELSE n - 1 + 1
    BY <2>1, FS_Interval, Zenon
  <2> QED
    BY <1>1, <2>2
<1>3. list \in [places -> R] /\ images \in [places -> R]
      /\ \A i \in R : \E k \in places : list[k] = i
  <2> HIDE DEF places
  <2>1. list = [k \in places |-> list[k]] /\ images = [k \in places |-> images[k]]
    BY <1>1
  <2>2. \A k \in places : list[k] \in R /\ images[k] \in R
    BY <1>1 DEF Range
  <2>3. \A i \in R : \E k \in places : list[k] = i
    BY <1>1 DEF Range
  <2> HIDE DEF R
  <2> QED
    BY <2>1, <2>2, <2>3
<1> HIDE DEF places, R, n
<1>4. list \in Surjection(places, R)
  BY <1>3 DEF Surjection
<1>5. IsFiniteSet(R) /\ Cardinality(R) <= Cardinality(places)
  BY <1>2, <1>4, FS_Surjection
<1>6. images \in Injection(places, R)
  BY <1>3 DEF Injection
<1>7. Cardinality(places) <= Cardinality(R)
  BY <1>5, <1>6, FS_Injection
<1>8. Cardinality(R) \in Nat /\ Cardinality(places) \in Nat
  BY <1>2, <1>5, FS_CardinalityType
<1>9. Cardinality(R) = Cardinality(places)
  BY <1>5, <1>7, <1>8
<1>10. images \in Surjection(places, R)
  BY <1>5, <1>6, <1>9, FS_Injection
<1>11. \A i \in R : \E k \in places : images[k] = i
  BY <1>10 DEF Surjection
<1> QED
  BY <1>1, <1>11 DEF Range, R

LEMMA PicturesStep == PicturesInv /\ [ImagesNext]_picturesVars => PicturesInv'
<1> SUFFICES ASSUME PicturesInv, [ImagesNext]_picturesVars PROVE PicturesInv'
  OBVIOUS
<1>1. CASE UNCHANGED picturesVars
  <2> USE <1>1 DEF picturesVars
  <2>1. ImagesTypeOK'
    BY DEF PicturesInv, ImagesTypeOK
  <2>2. \A s \in PictureSlots : PictureSlotOK(s)' /\ SinceRead(s)'
    BY DEF PicturesInv, PictureSlotOK, SinceRead, AddedSince
  <2> QED
    BY <2>1, <2>2 DEF PicturesInv
<1>2. ASSUME NEW s \in PictureSlots, NEW c \in PictureCalls, LoadGallery(s, c)
      PROVE  PicturesInv'
  BY <1>2, PicturesLoad
<1>3. ASSUME NEW s \in PictureSlots, NEW c \in PictureCalls, FindImage(s, c)
      PROVE  PicturesInv'
  BY <1>3, PicturesFind
<1>4. ASSUME NEW s \in PictureSlots, UploadToCloudinary(s) PROVE PicturesInv'
  BY <1>4, PicturesUpload
<1>5. ASSUME NEW s \in PictureSlots
      PROVE  /\ pictureJob[s] \in PictureJobs
             /\ pictureJob[s].call.garment \in Garments
             /\ records \subseteq uploaded /\ files \subseteq uploaded
             /\ picturePc[s] = "stored" => pictureJob[s].image \in uploaded
             /\ gallery[pictureJob[s].call.garment] \in Seq(Pictures)
  BY PictureJobFields, PictureCallFields DEF PicturesInv, ImagesTypeOK, PictureSlotOK
<1>6. ASSUME NEW s \in PictureSlots, CreateRecord(s) PROVE PicturesInv'
  BY <1>5, <1>6, PicturesGoOn DEF CreateRecord, PicturePCs
<1>7. ASSUME NEW s \in PictureSlots, DestroyFile(s) PROVE PicturesInv'
  BY <1>5, <1>7, PicturesGoOn DEF DestroyFile, PicturePCs
<1>8. ASSUME NEW s \in PictureSlots, DeleteRecord(s) PROVE PicturesInv'
  BY <1>5, <1>8, PicturesGoOn DEF DeleteRecord, PicturePCs
<1>9. ASSUME NEW s \in PictureSlots, PushImage(s) PROVE PicturesInv'
  <2> DEFINE list == Append(gallery[pictureJob[s].call.garment], pictureJob[s].image)
  <2>1. pictureJob[s].image \in Pictures
    BY <1>9 DEF PushImage, PicturesInv, PictureSlotOK
  <2>2. list \in Seq(Pictures)
    BY <1>5, <2>1
  <2>3. /\ WriteGallery(pictureJob[s].call.garment, list) /\ PictureGoto(s, "done")
        /\ UNCHANGED <<records, files, uploaded, pictureJob>>
    BY <1>9 DEF PushImage
  <2> HIDE DEF list
  <2> QED
    BY <2>2, <2>3, PicturesWrite
<1>10. ASSUME NEW s \in PictureSlots, WriteOrder(s) PROVE PicturesInv'
  <2> DEFINE list == Reordered(pictureJob[s])
  <2>1. /\ WriteGallery(pictureJob[s].call.garment, list) /\ PictureGoto(s, "done")
        /\ UNCHANGED <<records, files, uploaded, pictureJob>>
        /\ pictureJob[s].call.op \in OrderOps
    BY <1>10 DEF WriteOrder, OrderOps
  <2>2. list \in Seq(Pictures)
    BY <1>5, <2>1, NewOrder
  <2> HIDE DEF list
  <2> QED
    BY <2>1, <2>2, PicturesWrite
<1>11. ASSUME NEW s \in PictureSlots, PullImage(s) PROVE PicturesInv'
  <2> DEFINE K == Pictures \ {pictureJob[s].call.image}
             list == Filtered(gallery[pictureJob[s].call.garment], K)
  <2>1. /\ WriteGallery(pictureJob[s].call.garment, list) /\ PictureGoto(s, "pulled")
        /\ UNCHANGED <<records, files, uploaded, pictureJob>>
        /\ picturePc[s] = "destroyed"
    BY <1>11 DEF PullImage
  <2>2. list \in Seq(Pictures)
    <3> HIDE DEF K
    <3> QED
      BY <1>5, FilteredIs
  <2> HIDE DEF list
  <2> QED
    BY <2>1, <2>2, PicturesWrite
<1> QED
  BY <1>1, <1>2, <1>3, <1>4, <1>6, <1>7, <1>8, <1>9, <1>10, <1>11 DEF ImagesNext

(* Every list holds images, and what is kept of an image was uploaded.     *)
THEOREM PicturesTypeCorrect == ImagesSpec => []ImagesTypeOK
<1>1. PicturesInv => ImagesTypeOK
  BY DEF PicturesInv
<1> QED
  BY <1>1, PicturesInit, PicturesStep, PTL DEF ImagesSpec

(* Why image i leaves the list of product g.                               *)
LeftBy(s, g, i) ==
  LET j == pictureJob[s] IN
  /\ picturePc'[s] # picturePc[s] /\ j.call.garment = g
  /\ \/ j.call.op = "deleteProductImage" /\ j.call.image = i
     \/ j.call.op = "reorderImages" /\ ~ IsInjective(j.call.images)
     \/ \E n \in j.since + 1 .. Len(pictureLog) :
          pictureLog[n].garment = g /\ i \in pictureLog[n].added

(* A list that is written leaves the others alone.                         *)
LEMMA LostWhereWritten ==
  ASSUME PicturesInv, NEW g \in Garments, NEW list, WriteGallery(g, list),
         NEW h \in Garments, NEW i \in Range(gallery[h]) \ Range(gallery'[h])
  PROVE  h = g /\ gallery'[h] = list
BY DEF PicturesInv, ImagesTypeOK, WriteGallery

LEMMA PictureLost ==
  ASSUME PicturesInv, ImagesNext,
         NEW g \in Garments, NEW i \in Range(gallery[g]) \ Range(gallery'[g])
  PROVE  \E s \in PictureSlots : LeftBy(s, g, i)
<1>0. gallery[g] \in Seq(Pictures) /\ i \in Pictures
  BY RangeOfList DEF PicturesInv, ImagesTypeOK
<1>1. PICK s \in PictureSlots :
        \/ \E c \in PictureCalls : LoadGallery(s, c) \/ FindImage(s, c)
        \/ UploadToCloudinary(s) \/ CreateRecord(s) \/ PushImage(s) \/ WriteOrder(s)
        \/ DestroyFile(s) \/ PullImage(s) \/ DeleteRecord(s)
  BY DEF ImagesNext
<1>2. gallery' # gallery
  OBVIOUS
<1>3. PushImage(s) \/ WriteOrder(s) \/ PullImage(s)
  BY <1>1, <1>2 DEF LoadGallery, FindImage, UploadToCloudinary, CreateRecord, DestroyFile,
                    DeleteRecord
<1> DEFINE j == pictureJob[s]
           h == j.call.garment
<1>4. /\ j \in PictureJobs /\ h \in Garments /\ gallery[h] \in Seq(Pictures)
      /\ PictureSlotOK(s) /\ SinceRead(s) /\ j.call \in PictureCalls
      /\ j.list \in Seq(Pictures)
  BY PictureJobFields, PictureCallFields DEF PicturesInv, ImagesTypeOK
<1>5. picturePc \in [PictureSlots -> PicturePCs]
  BY DEF PicturesInv, ImagesTypeOK, PicturePCs
<1>6. CASE PushImage(s)
  <2> DEFINE list == gallery[h]
             new == Append(list, j.image)
  <2>1. WriteGallery(h, new)
    BY <1>6 DEF PushImage
  <2>2. j.image \in Pictures
    BY <1>4, <1>6 DEF PushImage, PictureSlotOK
  <2>3. list \in Seq(Pictures)
    BY <1>4
  <2> HIDE DEF list, j
  <2>4. Range(list) \subseteq Range(new)
    <3>1. \A n \in DOMAIN list : n \in DOMAIN new /\ new[n] = list[n]
      BY <2>2, <2>3
    <3> QED
      BY <3>1 DEF Range
  <2> HIDE DEF new, h
  <2>5. g = h /\ gallery'[g] = new
    BY <1>4, <2>1, LostWhereWritten
  <2> QED
    BY <2>4, <2>5 DEF list
<1>7. CASE PullImage(s)
  <2> DEFINE K == Pictures \ {j.call.image}
             list == gallery[h]
             new == Filtered(list, K)
  <2>1. WriteGallery(h, new) /\ picturePc[s] = "destroyed" /\ picturePc'[s] = "pulled"
    BY <1>5, <1>7 DEF PullImage, PictureGoto
  <2>2. j.call.op = "deleteProductImage"
    BY <1>4, <2>1 DEF PictureSlotOK
  <2>3. /\ new \in Seq(Pictures)
        /\ \A n \in DOMAIN list : list[n] \in K =>
             \E m \in DOMAIN new : new[m] = list[n]
    <3>1. list \in Seq(Pictures)
      BY <1>4
    <3> HIDE DEF K, list
    <3> QED
      BY <3>1, FilteredIs
  <2> HIDE DEF new, h
  <2>4. g = h /\ gallery'[g] = new
    BY <1>4, <2>1, LostWhereWritten
  <2>5. i \notin K
    BY <2>3, <2>4 DEF Range
  <2> QED
    BY <1>0, <2>1, <2>2, <2>4, <2>5 DEF LeftBy, h
<1>8. CASE WriteOrder(s)
  <2> DEFINE new == Reordered(j)
  <2>1. /\ WriteGallery(h, new) /\ picturePc[s] = "loaded" /\ picturePc'[s] = "done"
        /\ j.call.op \in OrderOps
    BY <1>5, <1>8 DEF WriteOrder, PictureGoto, OrderOps
  <2>2. /\ j.call.op = "setMainImage" => Range(j.list) \subseteq Range(new)
        /\ j.call.op = "reorderImages" => new = j.call.images
    <3> HIDE DEF j
    <3> QED
      BY <1>4, <2>1, NewOrder
  <2> HIDE DEF new
  <2>3. g = h /\ i \notin Range(new)
    <3> HIDE DEF h
    <3> QED
      BY <1>4, <2>1, LostWhereWritten
  <2>4. CASE i \in Range(j.list)
    <3>1. j.call.op = "reorderImages" /\ new = j.call.images
      BY <2>1, <2>2, <2>3, <2>4 DEF OrderOps
    <3>2. Range(j.call.images) \subseteq Range(j.list) /\ Len(j.call.images) = Len(j.list)
          /\ j.call.images \in Seq(Pictures)
      BY <1>4, <2>1, <3>1, PictureCallFields DEF PictureSlotOK
    <3>3. ~ IsInjective(j.call.images)
      <4> HIDE DEF j
      <4> QED
        BY <1>4, <2>3, <2>4, <3>1, <3>2, SameImages
    <3> QED
      BY <2>1, <2>3, <3>1, <3>3 DEF LeftBy
  <2>5. CASE i \notin Range(j.list)
    <3>1. AddedSince(j.since, g, i)
      BY <1>4, <2>1, <2>3, <2>5 DEF SinceRead
    <3> QED
      BY <2>1, <2>3, <3>1 DEF LeftBy, AddedSince
  <2> QED
    BY <2>4, <2>5
<1> QED
  BY <1>3, <1>6, <1>7, <1>8

(* An image leaves the list of its product only by its deletion, by a      *)
(* change of the order that names another twice, or because the change had *)
(* read the list before the image was pushed.                              *)
THEOREM PicturesStay == ImagesSpec => ImagesKept
<1> DEFINE Staying ==
      \A g \in Garments : \A i \in Range(gallery[g]) \ Range(gallery'[g]) :
        \E s \in PictureSlots :
          LET j == pictureJob[s] IN
          /\ picturePc'[s] # picturePc[s] /\ j.call.garment = g
          /\ \/ j.call.op = "deleteProductImage" /\ j.call.image = i
             \/ j.call.op = "reorderImages" /\ ~ IsInjective(j.call.images)
             \/ \E n \in j.since + 1 .. Len(pictureLog) :
                  pictureLog[n].garment = g /\ i \in pictureLog[n].added
<1>1. PicturesInv /\ [ImagesNext]_picturesVars => [Staying]_picturesVars
  <2> SUFFICES ASSUME PicturesInv, ImagesNext, NEW g \in Garments,
                      NEW i \in Range(gallery[g]) \ Range(gallery'[g])
               PROVE  \E s \in PictureSlots : LeftBy(s, g, i)
    BY DEF LeftBy
  <2> QED
    BY PictureLost
<1> HIDE DEF Staying
<1>2. ImagesSpec => [][Staying]_picturesVars
  BY <1>1, PicturesInit, PicturesStep, PTL DEF ImagesSpec
<1> QED
  BY <1>2 DEF ImagesKept, Staying

(***************************************************************************)
(* The limit of images of a product.                                       *)
(***************************************************************************)

(* A write of the list of garment g followed the first n writes.           *)
WrittenSince(n, g) == \E k \in n + 1 .. Len(pictureLog) : pictureLog[k].garment = g

Under(s) == picturePc[s] \in {"loaded", "stored", "recorded"}

(* A request that does not know of a write since it read the list has the  *)
(* list as it is, and an upload found room on it.                          *)
ReadAsIs(s) ==
  LET j == pictureJob[s]
      g == j.call.garment IN
  Under(s) =>
    \/ WrittenSince(j.since, g)
    \/ /\ gallery[g] = j.list
       /\ j.call.op = "uploadProductImage" => Len(j.list) < MaxImages

LimitInv == PicturesInv /\ \A s \in PictureSlots : ReadAsIs(s)

(* A write is one since then for those who had read the list it replaces.  *)
LEMMA WriteNoted ==
  ASSUME PicturesInv, NEW g \in Garments, NEW list \in Seq(Pictures), WriteGallery(g, list),
         NEW n \in Nat, n <= Len(pictureLog), NEW h \in Garments,
         WrittenSince(n, h) \/ h = g
  PROVE  WrittenSince(n, h)'
<1>1. pictureLog \in Seq(LogEntries) /\ Len(pictureLog) \in Nat
  BY DEF PicturesInv
<1>2. PICK e : e.garment = g /\ pictureLog' = Append(pictureLog, e)
  BY DEF WriteGallery
<1>3. Len(pictureLog') = Len(pictureLog) + 1
      /\ pictureLog'[Len(pictureLog) + 1] = e
      /\ \A k \in 1..Len(pictureLog) : pictureLog'[k] = pictureLog[k]
  BY <1>1, <1>2
<1>4. CASE WrittenSince(n, h)
  <2>1. PICK k \in n + 1 .. Len(pictureLog) : pictureLog[k].garment = h
    BY <1>4 DEF WrittenSince
  <2>2. k \in 1..Len(pictureLog) /\ k \in n + 1 .. Len(pictureLog')
    BY <1>1, <1>3, <2>1
  <2> QED
    BY <1>3, <2>1, <2>2 DEF WrittenSince
<1>5. CASE h = g
  <2>1. Len(pictureLog) + 1 \in n + 1 .. Len(pictureLog')
    BY <1>1, <1>3
  <2> QED
    BY <1>2, <1>3, <1>5, <2>1 DEF WrittenSince
<1> QED
  BY <1>4, <1>5

(* A request that keeps its job, whatever list is written meanwhile.       *)
LEMMA StillAsIs ==
  ASSUME PicturesInv, NEW s \in PictureSlots, ReadAsIs(s),
         Under(s)' => Under(s),
         pictureJob'[s].call = pictureJob[s].call,
         pictureJob'[s].list = pictureJob[s].list,
         pictureJob'[s].since = pictureJob[s].since,
         \/ UNCHANGED <<gallery, pictureLog>>
         \/ \E g \in Garments, list \in Seq(Pictures) : WriteGallery(g, list)
  PROVE  ReadAsIs(s)'
<1> DEFINE j == pictureJob[s]
           h == j.call.garment
<1>1. /\ j.since \in Nat /\ j.since <= Len(pictureLog) /\ h \in Garments
      /\ gallery \in [Garments -> Seq(Pictures)]
  BY PictureJobFields, PictureCallFields DEF PicturesInv, ImagesTypeOK
<1>2. SUFFICES ASSUME Under(s)
               PROVE  \/ WrittenSince(j.since, h)'
                      \/ /\ gallery'[h] = j.list
                         /\ j.call.op = "uploadProductImage" => Len(j.list) < MaxImages
  <2> DEFINE there == WrittenSince(j.since, h)'
  <2>1. WrittenSince(pictureJob[s].since, pictureJob[s].call.garment)'
          = (\E k \in pictureJob'[s].since + 1 .. Len(pictureLog') :
               pictureLog'[k].garment = pictureJob'[s].call.garment)
    BY DEF WrittenSince
  <2> QED
    BY <2>1 DEF ReadAsIs
<1>3. CASE UNCHANGED <<gallery, pictureLog>>
  BY <1>2, <1>3 DEF ReadAsIs, WrittenSince
<1>4. CASE \E g \in Garments, list \in Seq(Pictures) : WriteGallery(g, list)
  <2>1. PICK g \in Garments, list \in Seq(Pictures) : WriteGallery(g, list)
    BY <1>4
  <2>2. \A i \in Garments \ {g} : gallery'[i] = gallery[i]
    BY <2>1, GalleryWritten
  <2>3. WrittenSince(j.since, h) \/ h = g => WrittenSince(j.since, h)'
    BY <1>1, <2>1, WriteNoted
  <2> QED
    BY <1>1, <1>2, <2>2, <2>3 DEF ReadAsIs
<1> QED
  BY <1>3, <1>4

(* A change of the order makes no list longer than the one it read.        *)
LEMMA OrderNotLonger ==
  ASSUME NEW j \in PictureJobs, j.call.op \in OrderOps,
         j.call.op = "setMainImage" => j.call.image \in Range(j.list),
         j.call.op = "reorderImages" => Len(j.call.images) = Len(j.list)
  PROVE  Len(Reordered(j)) <= Len(j.list)
<1>1. j.call \in PictureCalls /\ j.list \in Seq(Pictures) /\ Len(j.list) \in Nat
  BY PictureJobFields
<1>2. CASE j.call.op = "reorderImages"
  BY <1>1, <1>2 DEF Reordered
<1>3. CASE j.call.op = "setMainImage"
  <2> DEFINE i == j.call.image
             K == Pictures \ {i}
             rest == Filtered(j.list, K)
  <2>1. Reordered(j) = <<i>> \o rest /\ i \in Pictures
    BY <1>1, <1>3, PictureCallFields DEF Reordered
  <2>2. \E k \in DOMAIN j.list : j.list[k] \notin K
    BY <1>3 DEF Range
  <2> HIDE DEF K
  <2>3. rest \in Seq(Pictures) /\ Len(rest) < Len(j.list)
    BY <1>1, <2>2, FilteredIs, FilteredLength
  <2> HIDE DEF rest, i
  <2>4. Len(<<i>> \o rest) = Len(rest) + 1 /\ Len(rest) \in Nat
    BY <2>1, <2>3
  <2> QED
    BY <1>1, <2>1, <2>3, <2>4
<1> QED
  BY <1>2, <1>3 DEF OrderOps

(* What the three writes put on the list of their product.                 *)
LEMMA WrittenList ==
  ASSUME PicturesInv, NEW s \in PictureSlots,
         PushImage(s) \/ WriteOrder(s) \/ PullImage(s)
  PROVE  \E list \in Seq(Pictures) :
           /\ WriteGallery(pictureJob[s].call.garment, list)
           /\ picturePc[s] = "recorded" =>
                Len(list) = Len(gallery[pictureJob[s].call.garment]) + 1
           /\ picturePc[s] = "loaded" => Len(list) <= Len(pictureJob[s].list)
           /\ picturePc[s] \notin {"recorded", "loaded"} =>
                Len(list) <= Len(gallery[pictureJob[s].call.garment])
<1> DEFINE j == pictureJob[s]
           h == j.call.garment
           old == gallery[h]
<1>1. /\ j \in PictureJobs /\ h \in Garments /\ old \in Seq(Pictures)
      /\ PictureSlotOK(s) /\ j.call \in PictureCalls /\ j.list \in Seq(Pictures)
  BY PictureJobFields, PictureCallFields DEF PicturesInv, ImagesTypeOK
<1>2. CASE PushImage(s)
  <2> DEFINE list == Append(old, j.image)
  <2>1. WriteGallery(h, list) /\ picturePc[s] = "recorded"
    BY <1>2 DEF PushImage
  <2>2. j.image \in Pictures
    BY <1>1, <2>1 DEF PictureSlotOK
  <2> HIDE DEF old
  <2>3. list \in Seq(Pictures) /\ Len(list) = Len(old) + 1
    BY <1>1, <2>2
  <2> HIDE DEF list, h
  <2> QED
    BY <2>1, <2>3 DEF old, h
<1>3. CASE PullImage(s)
  <2> DEFINE K == Pictures \ {j.call.image}
             list == Filtered(old, K)
  <2>1. WriteGallery(h, list) /\ picturePc[s] = "destroyed"
    BY <1>3 DEF PullImage
  <2> HIDE DEF old, K
  <2>2. list \in Seq(Pictures) /\ Len(list) <= Len(old)
    BY <1>1, FilteredIs, FilteredLength
  <2> HIDE DEF list, h
  <2> QED
    BY <2>1, <2>2 DEF old, h
<1>4. CASE WriteOrder(s)
  <2> DEFINE list == Reordered(j)
  <2>1. /\ WriteGallery(h, list) /\ picturePc[s] = "loaded"
        /\ j.call.op \in OrderOps
    BY <1>4 DEF WriteOrder, OrderOps
  <2>2. j.call.op = "setMainImage" => j.call.image \in Range(j.list)
    BY <1>1, <2>1 DEF PictureSlotOK
  <2>3. j.call.op = "reorderImages" => Len(j.call.images) = Len(j.list)
    BY <1>1, <2>1 DEF PictureSlotOK
  <2> HIDE DEF j
  <2>4. list \in Seq(Pictures) /\ Len(list) <= Len(j.list)
    BY <1>1, <2>1, <2>2, <2>3, NewOrder, OrderNotLonger
  <2> HIDE DEF list, h
  <2> QED
    BY <2>1, <2>4 DEF j, h
<1> QED
  BY <1>2, <1>3, <1>4

LEMMA LimitInit == ImagesInit => LimitInv
<1> SUFFICES ASSUME ImagesInit PROVE \A s \in PictureSlots : ReadAsIs(s)
  BY PicturesInit DEF LimitInv
<1> QED
  BY DEF ImagesInit, ReadAsIs, Under

(* The request that loads the list has it as it is.                        *)
LEMMA LoadsAsIs ==
  ASSUME PicturesInv, NEW s \in PictureSlots, NEW c \in PictureCalls, LoadGallery(s, c)
  PROVE  ReadAsIs(s)'
<1> DEFINE list == gallery[c.garment]
           n == Len(pictureLog)
           j == LoadedJob(c, list, n)
<1>1. list \in Seq(Pictures) /\ n \in Nat
  BY PictureCallFields DEF PicturesInv, ImagesTypeOK
<1>2. j.call = c /\ j.list = list
  BY <1>1, NewPictureJob
<1>3. /\ pictureJob' = [pictureJob EXCEPT ![s] = j]
      /\ gallery' = gallery
      /\ c.op = "uploadProductImage" => Len(list) < MaxImages
  BY DEF LoadGallery, LoadedJob, HasRoom
<1> HIDE DEF j, n, list
<1>4. pictureJob'[s] = j
  BY <1>3 DEF PicturesInv
<1> QED
  BY <1>2, <1>3, <1>4 DEF ReadAsIs, list

(* The step of slot s, and what it does to the lists.                      *)
LEMMA PictureTurn ==
  ASSUME PicturesInv, ImagesNext
  PROVE  \E s \in PictureSlots :
           /\ \A t \in PictureSlots \ {s} :
                picturePc'[t] = picturePc[t] /\ pictureJob'[t] = pictureJob[t]
           /\ \/ UNCHANGED <<gallery, pictureLog>>
              \/ \E g \in Garments, list \in Seq(Pictures) : WriteGallery(g, list)
           /\ \/ \E c \in PictureCalls : LoadGallery(s, c)
              \/ ~ Under(s)'
              \/ /\ Under(s)
                 /\ pictureJob'[s].call = pictureJob[s].call
                 /\ pictureJob'[s].list = pictureJob[s].list
                 /\ pictureJob'[s].since = pictureJob[s].since
<1>0. /\ picturePc \in [PictureSlots -> PicturePCs]
      /\ pictureJob \in [PictureSlots -> PictureJobs]
  BY DEF PicturesInv, ImagesTypeOK, PicturePCs
<1>1. PICK s \in PictureSlots :
        \/ \E c \in PictureCalls : LoadGallery(s, c) \/ FindImage(s, c)
        \/ UploadToCloudinary(s) \/ CreateRecord(s) \/ PushImage(s) \/ WriteOrder(s)
        \/ DestroyFile(s) \/ PullImage(s) \/ DeleteRecord(s)
  BY DEF ImagesNext
<1> DEFINE Others == \A t \in PictureSlots \ {s} :
                       picturePc'[t] = picturePc[t] /\ pictureJob'[t] = pictureJob[t]
           Same == UNCHANGED <<gallery, pictureLog>>
           Written == \E g \in Garments, list \in Seq(Pictures) : WriteGallery(g, list)
           Keeps == /\ pictureJob'[s].call = pictureJob[s].call
                    /\ pictureJob'[s].list = pictureJob[s].list
                    /\ pictureJob'[s].since = pictureJob[s].since
<1> HIDE DEF PicturePCs, PictureJobs
<1>2. ASSUME NEW c \in PictureCalls, LoadGallery(s, c) PROVE Others /\ Same
  BY <1>0, <1>2 DEF LoadGallery, PictureGoto
<1>3. ASSUME NEW c \in PictureCalls, FindImage(s, c) PROVE Others /\ Same /\ ~ Under(s)'
  BY <1>0, <1>3 DEF FindImage, PictureGoto, Under
<1>4. ASSUME UploadToCloudinary(s) PROVE Others /\ Same /\ Under(s) /\ Keeps
  <2>1. Others /\ Same /\ Under(s)
    BY <1>0, <1>4 DEF UploadToCloudinary, PictureGoto, Under
  <2>2. UNCHANGED pictureJob => Keeps
    OBVIOUS
  <2>3. ASSUME NEW i \in Pictures, pictureJob' = [pictureJob EXCEPT ![s].image = i]
        PROVE  Keeps
    <3>1. pictureJob'[s] = [pictureJob[s] EXCEPT !.image = i] /\ pictureJob[s] \in PictureJobs
      BY <1>0, <2>3
    <3> QED
      BY <3>1, PictureJobFields
  <2>4. \/ UNCHANGED pictureJob
        \/ \E i \in Pictures : pictureJob' = [pictureJob EXCEPT ![s].image = i]
    BY <1>4 DEF UploadToCloudinary
  <2> HIDE DEF Others, Same, Keeps
  <2> QED
    BY <2>1, <2>2, <2>3, <2>4
<1>5. CASE CreateRecord(s)
  BY <1>0, <1>5 DEF CreateRecord, PictureGoto, Under
<1>6. CASE DestroyFile(s)
  BY <1>0, <1>6 DEF DestroyFile, PictureGoto, Under
<1>7. CASE DeleteRecord(s)
  BY <1>0, <1>7 DEF DeleteRecord, PictureGoto, Under
<1>8. ASSUME PushImage(s) \/ WriteOrder(s) \/ PullImage(s)
      PROVE  Others /\ ~ Under(s)' /\ Written
  <2> DEFINE h == pictureJob[s].call.garment
  <2>1. Others /\ ~ Under(s)'
    BY <1>0, <1>8 DEF PushImage, WriteOrder, PullImage, PictureGoto, Under
  <2>2. PICK list \in Seq(Pictures) : WriteGallery(h, list)
    BY <1>8, WrittenList
  <2>3. h \in Garments
    BY <1>0, PictureJobFields, PictureCallFields
  <2> QED
    BY <2>1, <2>2, <2>3
<1> HIDE DEF Others, Same, Written, Keeps
<1> QED
  BY <1>1, <1>2, <1>3, <1>4, <1>5, <1>6, <1>7, <1>8
     DEF Others, Same, Written, Keeps

LEMMA LimitStep == LimitInv /\ [ImagesNext]_picturesVars => LimitInv'
<1> SUFFICES ASSUME LimitInv, [ImagesNext]_picturesVars
             PROVE  \A t \in PictureSlots : ReadAsIs(t)'
  BY PicturesStep DEF LimitInv
<1>1. PicturesInv /\ \A t \in PictureSlots : ReadAsIs(t)
  BY DEF LimitInv
<1>2. CASE UNCHANGED picturesVars
  BY <1>1, <1>2 DEF picturesVars, ReadAsIs, Under, WrittenSince
<1>3. CASE ImagesNext
  <2>1. PICK s \in PictureSlots :
          /\ \A t \in PictureSlots \ {s} :
               picturePc'[t] = picturePc[t] /\ pictureJob'[t] = pictureJob[t]
          /\ \/ UNCHANGED <<gallery, pictureLog>>
             \/ \E g \in Garments, list \in Seq(Pictures) : WriteGallery(g, list)
          /\ \/ \E c \in PictureCalls : LoadGallery(s, c)
             \/ ~ Under(s)'
             \/ /\ Under(s)
                /\ pictureJob'[s].call = pictureJob[s].call
                /\ pictureJob'[s].list = pictureJob[s].list
                /\ pictureJob'[s].since = pictureJob[s].since
    BY <1>1, <1>3, PictureTurn
  <2>2. ASSUME NEW t \in PictureSlots \ {s} PROVE ReadAsIs(t)'
    <3>1. Under(t)' => Under(t)
      BY <2>1 DEF Under
    <3> QED
      BY <1>1, <2>1, <3>1, StillAsIs
  <2>3. ReadAsIs(s)'
    <3>1. CASE \E c \in PictureCalls : LoadGallery(s, c)
      BY <1>1, <3>1, LoadsAsIs
    <3>2. CASE ~ Under(s)'
      BY <3>2 DEF ReadAsIs
    <3>3. CASE /\ Under(s)
               /\ pictureJob'[s].call = pictureJob[s].call
               /\ pictureJob'[s].list = pictureJob[s].list
               /\ pictureJob'[s].since = pictureJob[s].since
      BY <1>1, <2>1, <3>3, StillAsIs
    <3> QED
      BY <2>1, <3>1, <3>2, <3>3
  <2> QED
    BY <2>2, <2>3
<1> QED
  BY <1>2, <1>3

(* A list grows beyond the limit only by a request that does not know of   *)
(* a write made since it read the list.                                    *)
THEOREM UploadsWithinLimit == ImagesSpec => LimitPassedByOverlap
<1> DEFINE Known ==
      \A g \in Garments :
        /\ Len(gallery'[g]) > MaxImages
        /\ Len(gallery'[g]) > Len(gallery[g])
        => \E s \in PictureSlots :
             LET j == pictureJob[s] IN
             /\ picturePc'[s] # picturePc[s] /\ j.call.garment = g
             /\ \E n \in j.since + 1 .. Len(pictureLog) :
                  pictureLog[n].garment = g
<1>1. LimitInv /\ [ImagesNext]_picturesVars => [Known]_picturesVars
  <2> SUFFICES ASSUME LimitInv, ImagesNext, NEW g \in Garments,
                      Len(gallery'[g]) > MaxImages,
                      Len(gallery'[g]) > Len(gallery[g])
               PROVE  \E s \in PictureSlots :
                        /\ picturePc'[s] # picturePc[s]
                        /\ pictureJob[s].call.garment = g
                        /\ WrittenSince(pictureJob[s].since, g)
    BY DEF WrittenSince
  <2>0. PicturesInv /\ \A s \in PictureSlots : ReadAsIs(s)
    BY DEF LimitInv
  <2>1. PICK s \in PictureSlots : PushImage(s) \/ WriteOrder(s) \/ PullImage(s)
    <3>1. gallery' # gallery
      <4>1. Len(gallery[g]) \in Nat
        BY <2>0 DEF PicturesInv, ImagesTypeOK
      <4> QED
        BY <4>1
    <3> QED
      BY <3>1 DEF ImagesNext, LoadGallery, FindImage, UploadToCloudinary, CreateRecord,
                  DestroyFile, DeleteRecord
  <2> DEFINE j == pictureJob[s]
             h == j.call.garment
  <2>2. PICK list \in Seq(Pictures) :
          /\ WriteGallery(h, list)
          /\ picturePc[s] = "recorded" => Len(list) = Len(gallery[h]) + 1
          /\ picturePc[s] = "loaded" => Len(list) <= Len(j.list)
          /\ picturePc[s] \notin {"recorded", "loaded"} => Len(list) <= Len(gallery[h])
    BY <2>0, <2>1, WrittenList
  <2>3. /\ picturePc'[s] # picturePc[s]
        /\ picturePc[s] = "recorded" => j.call.op = "uploadProductImage"
    BY <2>0, <2>1 DEF PushImage, WriteOrder, PullImage, PictureGoto, PicturesInv,
                      ImagesTypeOK, PictureSlotOK
  <2>4. /\ h \in Garments /\ gallery[h] \in Seq(Pictures) /\ j.list \in Seq(Pictures)
        /\ gallery \in [Garments -> Seq(Pictures)]
    BY <2>0, PictureJobFields, PictureCallFields DEF PicturesInv, ImagesTypeOK
  <2>5. g = h /\ gallery'[g] = list
    <3>1. gallery'[h] = list /\ \A k \in Garments \ {h} : gallery'[k] = gallery[k]
      BY <2>0, <2>2, <2>4, GalleryWritten
    <3>2. Len(gallery[g]) \in Nat
      BY <2>4
    <3> QED
      BY <3>1, <3>2
  <2>6. WrittenSince(j.since, h)
    <3>1. CASE picturePc[s] = "recorded"
      <4>1. Len(list) \in Nat /\ Len(gallery[h]) \in Nat /\ MaxImages \in Nat
        BY <2>4, ImagesAssumption
      <4> QED
        BY <2>0, <2>2, <2>3, <2>5, <3>1, <4>1 DEF ReadAsIs, Under
    <3>2. CASE picturePc[s] = "loaded"
      <4>1. Len(list) \in Nat /\ Len(gallery[h]) \in Nat
        BY <2>4
      <4> QED
        BY <2>0, <2>2, <2>5, <3>2, <4>1 DEF ReadAsIs, Under
    <3>3. CASE picturePc[s] \notin {"recorded", "loaded"}
      <4>1. Len(list) \in Nat /\ Len(gallery[h]) \in Nat
        BY <2>4
      <4> QED
        BY <2>2, <2>5, <3>3, <4>1
    <3> QED
      BY <3>1, <3>2, <3>3
  <2> QED
    BY <2>3, <2>5, <2>6
<1> HIDE DEF Known
<1>2. ImagesSpec => [][Known]_picturesVars
  BY <1>1, LimitInit, LimitStep, PTL DEF ImagesSpec
<1> QED
  BY <1>2 DEF LimitPassedByOverlap, Known

(***************************************************************************)
(* The search through the related designs, over the library M of designs   *)
(* and the references R, both as they were when it began.                  *)
(***************************************************************************)

(* Walk, for any library.                                                  *)
Reaches(M, R, n, from, to) ==
  \E w \in [0..n -> Designs] :
    /\ w[0] = from /\ w[n] = to
    /\ \A i \in 0 .. n - 1 : w[i] \in M /\ w[i + 1] \in R[w[i]]

(* The designs n references away and no nearer, and those at most n away.  *)
FirstMet(M, R, o, n) ==
  {e \in Designs : Reaches(M, R, n, o, e) /\ \A m \in 0 .. n - 1 : ~ Reaches(M, R, m, o, e)}
Within(M, R, o, n) == {e \in Designs : \E m \in 0..n : Reaches(M, R, m, o, e)}

(* What a search of n levels finds.                                        *)
HitsTo(M, R, o, n) ==
  {h \in [design : M, level : 1..n] : h.design \in FirstMet(M, R, o, h.level)}

(* The references of the designs of S that are in the library.             *)
Referred(M, R, S) == UNION {R[f] : f \in S \cap M}

(* One reference more.                                                     *)
LEMMA OneMore ==
  ASSUME NEW M, NEW R \in [Designs -> SUBSET Designs], NEW n \in Nat,
         NEW o \in Designs, NEW e \in Designs
  PROVE  Reaches(M, R, n + 1, o, e)
           <=> \E f \in M \cap Designs : Reaches(M, R, n, o, f) /\ e \in R[f]
<1>1. ASSUME Reaches(M, R, n + 1, o, e)
      PROVE  \E f \in M \cap Designs : Reaches(M, R, n, o, f) /\ e \in R[f]
  <2>1. PICK w \in [0 .. n + 1 -> Designs] :
          /\ w[0] = o /\ w[n + 1] = e
          /\ \A i \in 0 .. (n + 1) - 1 : w[i] \in M /\ w[i + 1] \in R[w[i]]
    BY <1>1 DEF Reaches
  <2> DEFINE v == [i \in 0..n |-> w[i]]
  <2>2. v \in [0..n -> Designs] /\ v[0] = o /\ v[n] = w[n]
    BY <2>1
  <2>3. \A i \in 0 .. n - 1 : v[i] \in M /\ v[i + 1] \in R[v[i]]
    BY <2>1
  <2>4. w[n] \in M /\ w[n] \in Designs /\ e \in R[w[n]]
    BY <2>1
  <2> HIDE DEF v
  <2>5. Reaches(M, R, n, o, w[n])
    BY <2>2, <2>3 DEF Reaches
  <2> QED
    BY <2>4, <2>5
<1>2. ASSUME NEW f \in M \cap Designs, Reaches(M, R, n, o, f), e \in R[f]
      PROVE  Reaches(M, R, n + 1, o, e)
  <2>1. PICK w \in [0..n -> Designs] :
          /\ w[0] = o /\ w[n] = f
          /\ \A i \in 0 .. n - 1 : w[i] \in M /\ w[i + 1] \in R[w[i]]
    BY <1>2 DEF Reaches
  <2> DEFINE v == [i \in 0 .. n + 1 |-> IF i <= n THEN w[i] ELSE e]
  <2>2. v \in [0 .. n + 1 -> Designs] /\ v[n + 1] = e /\ \A i \in 0..n : v[i] = w[i]
    BY <2>1
  <2> HIDE DEF v
  <2>3. v[0] = o
    BY <2>1, <2>2
  <2>4. ASSUME NEW i \in 0 .. (n + 1) - 1 PROVE v[i] \in M /\ v[i + 1] \in R[v[i]]
    <3>1. CASE i = n
      BY <1>2, <2>1, <2>2, <3>1
    <3>2. CASE i # n
      <4>1. i \in 0 .. n - 1 /\ i \in 0..n /\ i + 1 \in 0..n
        BY <3>2
      <4> QED
        BY <2>1, <2>2, <4>1
    <3> QED
      BY <3>1, <3>2
  <2> QED
    BY <2>2, <2>3, <2>4 DEF Reaches
<1> QED
  BY <1>1, <1>2

(* No reference.                                                           *)
LEMMA NoReference ==
  ASSUME NEW M, NEW R, NEW o \in Designs
  PROVE  /\ \A e \in Designs : Reaches(M, R, 0, o, e) <=> e = o
         /\ FirstMet(M, R, o, 0) = {o} /\ Within(M, R, o, 0) = {o}
         /\ \A n \in Int : n <= 0 => HitsTo(M, R, o, n) = {}
<1>1. ASSUME NEW e \in Designs PROVE Reaches(M, R, 0, o, e) <=> e = o
  <2>1. Reaches(M, R, 0, o, e) => e = o
    BY DEF Reaches
  <2> DEFINE w == [i \in 0..0 |-> o]
  <2>2. w \in [0..0 -> Designs] /\ w[0] = o
    OBVIOUS
  <2> HIDE DEF w
  <2>3. e = o => Reaches(M, R, 0, o, e)
    BY <2>2 DEF Reaches
  <2> QED
    BY <2>1, <2>3
<1>2. 0 .. 0 - 1 = {} /\ 0..0 = {0}
  OBVIOUS
<1>3. FirstMet(M, R, o, 0) = {o}
  BY <1>1, <1>2 DEF FirstMet
<1>4. Within(M, R, o, 0) = {o}
  BY <1>1, <1>2 DEF Within
<1>5. ASSUME NEW n \in Int, n <= 0 PROVE HitsTo(M, R, o, n) = {}
  <2>1. 1..n = {}
    BY <1>5
  <2> QED
    BY <2>1 DEF HitsTo
<1> QED
  BY <1>1, <1>3, <1>4, <1>5

(* The next level is what the search computes, ...                         *)
LEMMA NextLevel ==
  ASSUME NEW M, NEW R \in [Designs -> SUBSET Designs], NEW o \in Designs, NEW n \in Nat
  PROVE  /\ FirstMet(M, R, o, n + 1)
              = Referred(M, R, FirstMet(M, R, o, n)) \ Within(M, R, o, n)
         /\ Within(M, R, o, n + 1) = Within(M, R, o, n) \cup FirstMet(M, R, o, n + 1)
<1> DEFINE Found(k) == FirstMet(M, R, o, k)
           near == Within(M, R, o, n)
<1>1. ASSUME NEW e \in Found(n + 1)
      PROVE  e \notin near /\ \E f \in Found(n) \cap M : e \in R[f]
  <2>1. /\ e \in Designs /\ Reaches(M, R, n + 1, o, e)
        /\ \A m \in 0..n : ~ Reaches(M, R, m, o, e)
    BY <1>1 DEF FirstMet
  <2>2. e \notin near
    BY <2>1 DEF Within
  <2>3. PICK f \in M \cap Designs : Reaches(M, R, n, o, f) /\ e \in R[f]
    BY <2>1, OneMore
  <2>4. ASSUME NEW m \in 0 .. n - 1, Reaches(M, R, m, o, f) PROVE FALSE
    <3>1. m \in Nat /\ m + 1 \in 0..n
      OBVIOUS
    <3>2. Reaches(M, R, m + 1, o, e)
      BY <2>1, <2>3, <2>4, <3>1, OneMore
    <3> QED
      BY <2>1, <3>1, <3>2
  <2>5. f \in Found(n)
    BY <2>3, <2>4 DEF FirstMet
  <2> QED
    BY <2>2, <2>3, <2>5
<1>2. ASSUME NEW f \in Found(n) \cap M, NEW e \in R[f], e \notin near
      PROVE  e \in Found(n + 1)
  <2>1. f \in M \cap Designs /\ Reaches(M, R, n, o, f) /\ e \in Designs
    BY <1>2 DEF FirstMet
  <2>2. Reaches(M, R, n + 1, o, e)
    BY <1>2, <2>1, OneMore
  <2>3. \A m \in 0..n : ~ Reaches(M, R, m, o, e)
    BY <1>2, <2>1 DEF Within
  <2> QED
    BY <2>1, <2>2, <2>3 DEF FirstMet
<1>3. near \cup Found(n + 1) = Within(M, R, o, n + 1)
  <2>1. ASSUME NEW e \in Designs
        PROVE  e \in Within(M, R, o, n + 1) <=> e \in near \/ e \in Found(n + 1)
    <3>1. 0 .. n + 1 = 0..n \cup {n + 1} /\ 0 .. (n + 1) - 1 = 0..n
      OBVIOUS
    <3> QED
      BY <3>1 DEF Within, FirstMet
  <2>2. near \subseteq Designs /\ Found(n + 1) \subseteq Designs
        /\ Within(M, R, o, n + 1) \subseteq Designs
    BY DEF Within, FirstMet
  <2> HIDE DEF near, Found
  <2> QED
    BY <2>1, <2>2
<1> HIDE DEF Found, near
<1>4. Found(n + 1) = Referred(M, R, Found(n)) \ near
  <2> DEFINE base == Found(n) \cap M
             next == UNION {R[f] : f \in base}
  <2>1. \A f \in base : \A e \in R[f] : e \notin near => e \in Found(n + 1)
    BY <1>2
  <2>2. \A e \in Found(n + 1) : e \notin near /\ \E f \in base : e \in R[f]
    BY <1>1
  <2> HIDE DEF base
  <2>3. \A e : e \in next <=> \E f \in base : e \in R[f]
    OBVIOUS
  <2> HIDE DEF next
  <2>4. Found(n + 1) = next \ near
    BY <2>1, <2>2, <2>3
  <2> QED
    BY <2>4 DEF next, base, Referred
<1> QED
  BY <1>3, <1>4 DEF Found, near

(* ... and adds what it finds of it to the result.  A level that is empty  *)
(* leaves the deeper ones empty.                                           *)
LEMMA NextHits ==
  ASSUME NEW M, NEW R \in [Designs -> SUBSET Designs], NEW o \in Designs, NEW n \in Nat
  PROVE  /\ HitsTo(M, R, o, n + 1)
              = HitsTo(M, R, o, n) \cup {[design |-> d, level |-> n + 1]
                                         : d \in FirstMet(M, R, o, n + 1) \cap M}
         /\ FirstMet(M, R, o, n) = {} => FirstMet(M, R, o, n + 1) = {}
         /\ FirstMet(M, R, o, n + 1) = {} => HitsTo(M, R, o, n + 1) = HitsTo(M, R, o, n)
<1> DEFINE Found(k) == FirstMet(M, R, o, k)
           new == {[design |-> d, level |-> n + 1] : d \in Found(n + 1) \cap M}
<1>1. ASSUME NEW h
      PROVE  h \in HitsTo(M, R, o, n + 1) <=> h \in HitsTo(M, R, o, n) \/ h \in new
  <2> HIDE DEF Found
  <2>1. 1 .. n + 1 = 1..n \cup {n + 1} /\ n + 1 \notin 1..n
    OBVIOUS
  <2>2. h \in HitsTo(M, R, o, n + 1)
          <=> h \in [design : M, level : 1 .. n + 1] /\ h.design \in Found(h.level)
    BY DEF HitsTo, Found
  <2>3. h \in HitsTo(M, R, o, n)
          <=> h \in [design : M, level : 1..n] /\ h.design \in Found(h.level)
    BY DEF HitsTo, Found
  <2>4. h \in [design : M, level : 1 .. n + 1]
          <=> \/ h \in [design : M, level : 1..n]
              \/ h \in [design : M, level : {n + 1}]
    BY <2>1
  <2>5. h \in new <=> h \in [design : M, level : {n + 1}] /\ h.design \in Found(h.level)
    OBVIOUS
  <2> QED
    BY <2>2, <2>3, <2>4, <2>5
<1>2. ASSUME FirstMet(M, R, o, n) = {} PROVE FirstMet(M, R, o, n + 1) = {}
  <2>1. FirstMet(M, R, o, n + 1)
          = Referred(M, R, FirstMet(M, R, o, n)) \ Within(M, R, o, n)
    BY NextLevel
  <2>2. Referred(M, R, {}) = {}
    BY DEF Referred
  <2> QED
    BY <1>2, <2>1, <2>2
<1>3. Found(n + 1) = {} => new = {}
  OBVIOUS
<1> HIDE DEF new
<1>4. HitsTo(M, R, o, n + 1) = HitsTo(M, R, o, n) \cup new
  BY <1>1
<1> QED
  BY <1>2, <1>3, <1>4 DEF new

LEMMA LevelsBound == ASSUME NEW n \in Int PROVE Levels(n) \in Int /\ Levels(n) <= 3
BY DEF Levels, Smaller

(* A search that meets an empty level has found all there is to find.      *)
LEMMA NothingDeeper ==
  ASSUME NEW M, NEW R \in [Designs -> SUBSET Designs], NEW o \in Designs, NEW n \in Nat,
         FirstMet(M, R, o, n + 1) = {}, NEW l \in Int, n < l, l <= 3
  PROVE  HitsTo(M, R, o, l) = HitsTo(M, R, o, n)
<1> DEFINE H(k) == HitsTo(M, R, o, k)
           F(k) == FirstMet(M, R, o, k)
<1>1. \A k \in Nat : F(k) = {} => F(k + 1) = {}
  BY NextHits
<1>2. \A k \in Nat : F(k + 1) = {} => H(k + 1) = H(k)
  BY NextHits
<1> HIDE DEF H, F
<1>3. F(n + 1) = {} /\ F((n + 1) + 1) = {} /\ F(((n + 1) + 1) + 1) = {}
  BY <1>1 DEF F
<1>4. H(n + 1) = H(n) /\ H((n + 1) + 1) = H(n) /\ H(((n + 1) + 1) + 1) = H(n)
  BY <1>2, <1>3
<1>5. l = n + 1 \/ l = (n + 1) + 1 \/ l = ((n + 1) + 1) + 1
  OBVIOUS
<1> QED
  BY <1>4, <1>5 DEF H

SearchRecords ==
  [pc : {"new", "edges", "designs", "done"},
   origin : Designs \cup {CHOOSE d \in Designs : TRUE}, depth : Int, d : Nat,
   visited : SUBSET Designs, current : SUBSET Designs, next : SUBSET Designs,
   result : SUBSET Hits, since : Nat]

(* How far search j has come in a library that has not changed.            *)
FoundSoFar(M, R, j) ==
  LET o == j.origin IN
  /\ o \in Designs
  /\ j.pc \in {"edges", "designs"} =>
       j.d < Levels(j.depth) /\ j.result = HitsTo(M, R, o, j.d)
  /\ j.pc = "edges" =>
       j.current = FirstMet(M, R, o, j.d) /\ j.visited = Within(M, R, o, j.d)
  /\ j.pc = "designs" =>
       j.next = FirstMet(M, R, o, j.d + 1) /\ j.visited = Within(M, R, o, j.d + 1)
  /\ j.pc = "done" => j.result = HitsTo(M, R, o, Levels(j.depth))

SearchOK(j) == j.pc # "new" /\ j.since = edits => FoundSoFar(made, related, j)

SearchInv ==
  /\ made \subseteq Designs
  /\ related \in [Designs -> SUBSET Designs]
  /\ edits \in 0..MaxEdits
  /\ search \in [Searches -> SearchRecords]
  /\ \A s \in Searches : search[s].since <= edits /\ SearchOK(search[s])

LEMMA SearchTyped == SearchInv => LibraryTypeOK
BY DEF SearchInv, LibraryTypeOK, SearchRecords

LEMMA SearchFields ==
  ASSUME NEW j \in SearchRecords
  PROVE  /\ j.origin \in Designs \cup {CHOOSE d \in Designs : TRUE}
         /\ j.depth \in Int /\ j.d \in Nat /\ j.since \in Nat
         /\ j.visited \subseteq Designs /\ j.current \subseteq Designs
         /\ j.next \subseteq Designs /\ j.result \subseteq Hits
BY DEF SearchRecords

LEMMA SearchInit == LibraryInit => SearchInv
<1> SUFFICES ASSUME LibraryInit PROVE SearchInv
  OBVIOUS
<1>1. IdleSearch \in SearchRecords /\ IdleSearch.pc = "new" /\ IdleSearch.since = 0
  BY DEF IdleSearch, SearchRecords
<1>2. made \subseteq Designs /\ related \in [Designs -> SUBSET Designs]
  BY RelatedDesignsAssumption DEF LibraryInit
<1>3. edits = 0 /\ search = [s \in Searches |-> IdleSearch]
  BY DEF LibraryInit
<1>4. \A s \in Searches : search[s] = IdleSearch
  BY <1>3
<1> QED
  BY <1>1, <1>2, <1>3, <1>4, RelatedDesignsAssumption DEF SearchInv, SearchOK

(* A search moves, in a library that does not.                             *)
LEMMA SearchMoves ==
  ASSUME SearchInv, NEW s \in Searches, NEW j \in SearchRecords,
         search' = [search EXCEPT ![s] = j], UNCHANGED <<made, related, edits>>,
         j.since <= edits, SearchOK(j)
  PROVE  SearchInv'
<1>1. search' \in [Searches -> SearchRecords] /\ search'[s] = j
      /\ \A t \in Searches \ {s} : search'[t] = search[t]
  BY DEF SearchInv
<1>2. \A t \in Searches : search'[t].since <= edits /\ SearchOK(search'[t])
  BY <1>1 DEF SearchInv
<1>3. \A t \in Searches : search'[t].since <= edits' /\ SearchOK(search[t])'
  BY <1>2 DEF SearchOK
<1> QED
  BY <1>1, <1>3 DEF SearchInv

(* The library moves: the searches under way began before that.            *)
LEMMA LibraryMoves == ASSUME SearchInv, EditLibrary PROVE SearchInv'
<1>1. made' \subseteq Designs /\ related' \in [Designs -> SUBSET Designs]
  BY DEF SearchInv, EditLibrary, CreateDesign, UpdateRelated, RemoveDesign
<1>2. edits' \in 0..MaxEdits /\ edits' = edits + 1 /\ search' = search /\ edits \in Nat
  BY RelatedDesignsAssumption DEF SearchInv, EditLibrary
<1>3. ASSUME NEW s \in Searches PROVE search[s].since <= edits /\ search[s].since \in Nat
  BY SearchFields DEF SearchInv
<1>4. \A s \in Searches : search[s].since <= edits' /\ search[s].since # edits'
  BY <1>2, <1>3
<1>5. \A s \in Searches : search'[s].since <= edits' /\ SearchOK(search[s])'
  BY <1>2, <1>4 DEF SearchOK
<1> QED
  BY <1>1, <1>2, <1>5 DEF SearchInv

LEMMA SearchStarts ==
  ASSUME SearchInv, NEW s \in Searches, StartSearch(s)
  PROVE  SearchInv'
<1>1. PICK id \in Designs, depth \in Depths :
        search' = [search EXCEPT ![s] =
          [IdleSearch EXCEPT !.pc = IF Levels(depth) > 0 THEN "edges" ELSE "done",
             !.origin = id, !.depth = depth, !.visited = {id}, !.current = {id},
             !.since = edits]]
  BY DEF StartSearch
<1> DEFINE at == IF Levels(depth) > 0 THEN "edges" ELSE "done"
           j == [IdleSearch EXCEPT !.pc = at, !.origin = id, !.depth = depth,
                   !.visited = {id}, !.current = {id}, !.since = edits]
<1>2. search' = [search EXCEPT ![s] = j] /\ UNCHANGED <<made, related, edits>>
  BY <1>1 DEF StartSearch
<1>3. depth \in Int /\ edits \in Nat /\ related \in [Designs -> SUBSET Designs]
  BY RelatedDesignsAssumption DEF SearchInv
<1>4. at \in {"edges", "done"} /\ (at = "edges" => 0 < Levels(depth))
      /\ (at = "done" => Levels(depth) <= 0) /\ Levels(depth) \in Int
  BY <1>3, LevelsBound
<1> HIDE DEF at
<1>5. /\ j \in SearchRecords
      /\ j.pc = at /\ j.origin = id /\ j.depth = depth /\ j.visited = {id}
      /\ j.current = {id} /\ j.since = edits /\ j.d = 0 /\ j.result = {}
  BY <1>3, <1>4 DEF IdleSearch, SearchRecords
<1> HIDE DEF j
<1>6. FirstMet(made, related, id, 0) = {id} /\ Within(made, related, id, 0) = {id}
      /\ \A n \in Int : n <= 0 => HitsTo(made, related, id, n) = {}
  BY NoReference
<1>7. FoundSoFar(made, related, j)
  BY <1>4, <1>5, <1>6 DEF FoundSoFar
<1>8. SearchOK(j) /\ j.since <= edits
  BY <1>3, <1>5, <1>7 DEF SearchOK
<1> QED
  BY <1>2, <1>5, <1>8, SearchMoves

LEMMA SearchReadsEdges ==
  ASSUME SearchInv, NEW s \in Searches, ReadEdges(s)
  PROVE  SearchInv'
<1> DEFINE j == search[s]
           next == Unvisited(j)
           at == IF next = {} THEN "done" ELSE "designs"
           seen == j.visited \cup next
           new == [j EXCEPT !.pc = at, !.next = next, !.visited = seen]
           o == j.origin
           n == j.d
           l == Levels(j.depth)
<1>1. /\ j.pc = "edges" /\ search' = [search EXCEPT ![s] = new]
      /\ UNCHANGED <<made, related, edits>>
  BY DEF ReadEdges
<1>2. /\ j \in SearchRecords /\ SearchOK(j) /\ j.since <= edits
      /\ related \in [Designs -> SUBSET Designs]
  BY DEF SearchInv
<1>3. next = Referred(made, related, j.current) \ j.visited
  BY DEF Unvisited, Referred
<1>4. next \subseteq Designs
  BY <1>2, <1>3, SearchFields DEF Referred
<1>5. n \in Nat /\ l \in Int /\ l <= 3 /\ j.visited \subseteq Designs
  <2> HIDE DEF j
  <2> QED
    BY <1>2, SearchFields, LevelsBound
<1>6. at \in {"done", "designs"} /\ (at = "done" => next = {})
  OBVIOUS
<1>7. seen \subseteq Designs
  BY <1>4, <1>5
<1> HIDE DEF j, next, at
<1>8. /\ new \in SearchRecords
      /\ new.pc = at /\ new.next = next /\ new.visited = seen
      /\ new.origin = o /\ new.d = n /\ new.depth = j.depth /\ new.since = j.since
      /\ new.result = j.result
  <2> HIDE DEF seen
  <2> QED
    BY <1>2, <1>4, <1>6, <1>7 DEF SearchRecords
<1> HIDE DEF new
<1>9. ASSUME j.since = edits PROVE FoundSoFar(made, related, new)
  <2>1. /\ o \in Designs /\ n < l /\ j.result = HitsTo(made, related, o, n)
        /\ j.current = FirstMet(made, related, o, n)
        /\ j.visited = Within(made, related, o, n)
    BY <1>1, <1>2, <1>9 DEF SearchOK, FoundSoFar
  <2>2. /\ next = FirstMet(made, related, o, n + 1)
        /\ seen = Within(made, related, o, n + 1)
    <3> HIDE DEF o, n
    <3>0. o \in Designs /\ n \in Nat /\ related \in [Designs -> SUBSET Designs]
      BY <1>2, <1>5, <2>1
    <3>1. /\ FirstMet(made, related, o, n + 1)
               = Referred(made, related, FirstMet(made, related, o, n))
                   \ Within(made, related, o, n)
          /\ Within(made, related, o, n + 1)
               = Within(made, related, o, n) \cup FirstMet(made, related, o, n + 1)
      BY <3>0, NextLevel, Zenon
    <3> QED
      BY <1>3, <2>1, <3>1
  <2>3. CASE at = "designs"
    BY <1>8, <2>1, <2>2, <2>3 DEF FoundSoFar
  <2>4. CASE at = "done"
    <3>1. FirstMet(made, related, o, n + 1) = {}
      BY <1>6, <2>2, <2>4
    <3>2. HitsTo(made, related, o, l) = HitsTo(made, related, o, n)
      <4> HIDE DEF o, n, l
      <4> QED
        BY <1>2, <1>5, <2>1, <3>1, NothingDeeper
    <3> QED
      BY <1>8, <2>1, <2>4, <3>2 DEF FoundSoFar
  <2> QED
    BY <1>6, <2>3, <2>4
<1>10. SearchOK(new) /\ new.since <= edits
  BY <1>2, <1>8, <1>9 DEF SearchOK
<1> QED
  BY <1>1, <1>8, <1>10, SearchMoves

LEMMA SearchReadsDesigns ==
  ASSUME SearchInv, NEW s \in Searches, ReadDesigns(s)
  PROVE  SearchInv'
<1> DEFINE j == search[s]
           o == j.origin
           n == j.d
           l == Levels(j.depth)
           at == IF n + 1 < l THEN "edges" ELSE "done"
           hits == {[design |-> d, level |-> n + 1] : d \in j.next \cap made}
           found == j.result \cup hits
           new == [j EXCEPT !.pc = at, !.d = n + 1, !.current = j.next, !.result = found]
<1>1. /\ j.pc = "designs" /\ search' = [search EXCEPT ![s] = new]
      /\ UNCHANGED <<made, related, edits>>
  BY DEF ReadDesigns
<1>2. /\ j \in SearchRecords /\ SearchOK(j) /\ j.since <= edits
      /\ related \in [Designs -> SUBSET Designs] /\ made \subseteq Designs
  BY DEF SearchInv
<1>3. /\ n \in Nat /\ l \in Int /\ l <= 3 /\ j.next \subseteq Designs
      /\ j.result \subseteq Hits
  <2> HIDE DEF j
  <2> QED
    BY <1>2, SearchFields, LevelsBound
<1> HIDE DEF j
<1>4. found \subseteq Hits
  <2>1. hits \subseteq Hits
    BY <1>3 DEF Hits
  <2> HIDE DEF hits
  <2> QED
    BY <1>3, <2>1
<1>5. at \in {"edges", "done"} /\ (at = "edges" => n + 1 < l) /\ (at = "done" => l <= n + 1)
  <2> HIDE DEF n, l
  <2> QED
    BY <1>3
<1> HIDE DEF at
<1>6. /\ new \in SearchRecords
      /\ new.pc = at /\ new.visited = j.visited /\ new.current = j.next
      /\ new.origin = o /\ new.d = n + 1 /\ new.depth = j.depth /\ new.since = j.since
      /\ new.result = found
  <2> DEFINE m == n + 1
  <2>1. m \in Nat
    BY <1>3
  <2> HIDE DEF found, m
  <2>2. /\ [j EXCEPT !.pc = at, !.d = m, !.current = j.next, !.result = found]
             \in SearchRecords
        /\ new = [j EXCEPT !.pc = at, !.d = m, !.current = j.next, !.result = found]
    BY <1>2, <1>3, <1>4, <1>5, <2>1 DEF SearchRecords, m
  <2>3. /\ new.pc = at /\ new.visited = j.visited /\ new.current = j.next
        /\ new.origin = o /\ new.d = n + 1 /\ new.depth = j.depth
        /\ new.since = j.since /\ new.result = found
    BY <1>2, <2>2 DEF SearchRecords, m
  <2> QED
    BY <2>2, <2>3
<1> HIDE DEF new
<1>7. ASSUME j.since = edits PROVE FoundSoFar(made, related, new)
  <2>1. /\ o \in Designs /\ n < l /\ j.result = HitsTo(made, related, o, n)
        /\ j.next = FirstMet(made, related, o, n + 1)
        /\ j.visited = Within(made, related, o, n + 1)
    BY <1>1, <1>2, <1>7 DEF SearchOK, FoundSoFar
  <2>2. found = HitsTo(made, related, o, n + 1)
    <3> HIDE DEF o, n
    <3>1. HitsTo(made, related, o, n + 1)
            = HitsTo(made, related, o, n)
                \cup {[design |-> d, level |-> n + 1]
                       : d \in FirstMet(made, related, o, n + 1) \cap made}
      BY <1>2, <1>3, <2>1, NextHits
    <3> QED
      BY <2>1, <3>1
  <2>3. at = "done" => n + 1 = l
    <3> HIDE DEF n, l
    <3> QED
      BY <1>3, <1>5, <2>1
  <2> QED
    BY <1>5, <1>6, <2>1, <2>2, <2>3 DEF FoundSoFar
<1>8. SearchOK(new) /\ new.since <= edits
  BY <1>2, <1>6, <1>7 DEF SearchOK
<1> QED
  BY <1>1, <1>6, <1>8, SearchMoves

LEMMA SearchStep == SearchInv /\ [LibraryNext]_libraryVars => SearchInv'
<1> SUFFICES ASSUME SearchInv, [LibraryNext]_libraryVars PROVE SearchInv'
  OBVIOUS
<1>1. CASE UNCHANGED libraryVars
  BY <1>1 DEF libraryVars, SearchInv, SearchOK
<1>2. CASE EditLibrary
  BY <1>2, LibraryMoves
<1>3. ASSUME NEW s \in Searches, StartSearch(s) PROVE SearchInv'
  BY <1>3, SearchStarts
<1>4. ASSUME NEW s \in Searches, ReadEdges(s) PROVE SearchInv'
  BY <1>4, SearchReadsEdges
<1>5. ASSUME NEW s \in Searches, ReadDesigns(s) PROVE SearchInv'
  BY <1>5, SearchReadsDesigns
<1> QED
  BY <1>1, <1>2, <1>3, <1>4, <1>5 DEF LibraryNext

(* What the search has found is what it was to find.                       *)
LEMMA SearchDone == SearchInv => RelatedRight
<1> SUFFICES ASSUME SearchInv, NEW s \in Searches, search[s].pc = "done",
                    search[s].since = edits
             PROVE  LET j == search[s] IN
                    j.result =
                      {h \in [design : made \ {j.origin}, level : 1 .. Levels(j.depth)] :
                         /\ Walk(h.level, j.origin, h.design)
                         /\ \A n \in 1 .. h.level - 1 : ~ Walk(n, j.origin, h.design)}
  BY DEF RelatedRight
<1> DEFINE j == search[s]
           o == j.origin
           l == Levels(j.depth)
           Right(h) == /\ Walk(h.level, o, h.design)
                       /\ \A n \in 1 .. h.level - 1 : ~ Walk(n, o, h.design)
<1>1. /\ FoundSoFar(made, related, j) /\ j \in SearchRecords /\ made \subseteq Designs
  BY DEF SearchInv, SearchOK
<1>2. o \in Designs /\ j.result = HitsTo(made, related, o, l)
  BY <1>1 DEF FoundSoFar
<1>3. l \in Int
  <2> HIDE DEF j
  <2> QED
    BY <1>1, SearchFields, LevelsBound
<1> HIDE DEF o, l, j
<1>4. \A n, e : Walk(n, o, e) <=> Reaches(made, related, n, o, e)
  BY DEF Walk, Reaches
<1>5. \A e \in Designs : Reaches(made, related, 0, o, e) <=> e = o
  BY <1>2, NoReference
<1>6. ASSUME NEW e \in made, NEW k \in 1..l
      PROVE  e \in FirstMet(made, related, o, k)
               <=> /\ e # o /\ Walk(k, o, e)
                   /\ \A n \in 1 .. k - 1 : ~ Walk(n, o, e)
  <2>1. 0 .. k - 1 = {0} \cup 1 .. k - 1 /\ e \in Designs
    BY <1>1, <1>3
  <2> QED
    BY <1>4, <1>5, <2>1 DEF FirstMet
<1>7. ASSUME NEW h
      PROVE  h \in HitsTo(made, related, o, l)
               <=> h \in [design : made \ {o}, level : 1..l] /\ Right(h)
  <2>1. h \in [design : made, level : 1..l] => h.design \in made /\ h.level \in 1..l
    OBVIOUS
  <2>2. h \in [design : made \ {o}, level : 1..l]
          <=> h \in [design : made, level : 1..l] /\ h.design # o
    OBVIOUS
  <2>3. h \in [design : made, level : 1..l] =>
          (h.design \in FirstMet(made, related, o, h.level) <=> h.design # o /\ Right(h))
    BY <1>6, <2>1
  <2> HIDE DEF Right
  <2> QED
    BY <2>2, <2>3 DEF HitsTo
<1> QED
  BY <1>2, <1>7 DEF o, l, j

(* The collection holds designs, and a result designs and levels.          *)
THEOREM LibraryTypeCorrect == LibrarySpec => []LibraryTypeOK
BY SearchInit, SearchStep, SearchTyped, PTL DEF LibrarySpec

(* A search that saw one library lists exactly the other designs within    *)
(* the depth asked for, each with the length of the shortest walk to it.   *)
THEOREM SearchesRight == LibrarySpec => []RelatedRight
BY SearchInit, SearchStep, SearchDone, PTL DEF LibrarySpec
=============================================================================
