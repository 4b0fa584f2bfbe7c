------------------------------ MODULE Catalog -------------------------------
(***************************************************************************)
(* The catalogue of products/products.service.ts at the grain of its       *)
(* awaits: products, variants, listings, and the colours, sizes and        *)
(* categories they refer to.                                               *)
(*                                                                         *)
(* Colours, sizes and categories are labels.  Nothing checks that a label, *)
(* a product or a variant that a document refers to is there.  Unique      *)
(* indexes decide about slugs and about the colour and size of a product's *)
(* variants, so that looking for a duplicate first changes nothing; names, *)
(* prices and pictures are left out, and of the flags of a listing all but *)
(* isActive.                                                               *)
(***************************************************************************)
EXTENDS Integers, FiniteSetsExt

CONSTANTS
  Products, Slugs, Variants,          \* ids and slugs
  Colors, Sizes, Categories, NoLabel, \* NoLabel: no category
  InitCatalog,   \* the catalogues a behaviour may start with
  CatalogCalls,  \* the calls of the administrators in a configuration
  CatalogSlots,  \* request slots, each used for one call
  MaxStamp       \* bound on writes of variants, listings and measurements

Labels == Colors \cup Sizes \cup Categories

(* stamp is the number of the last write, see clock, and -1 before the     *)
(* first; cleared the clock when an assignment deleted earlier listings,   *)
(* in a request also when it counted uses, measured when measurements.     *)
ProductDocs == [exists : BOOLEAN, slug : Slugs, measures : SUBSET Sizes, stamp : Int]
VariantDocs == [exists : BOOLEAN, product : Products, color : Colors, size : Sizes,
                stock : Int, stamp : Int]
Listings == [variant : Variants, category : Categories \cup {NoLabel},
             active : BOOLEAN, stamp : Nat, cleared : Int]

NoVariant == [exists |-> FALSE, product |-> CHOOSE p \in Products : TRUE,
              color |-> CHOOSE l \in Colors : TRUE, size |-> CHOOSE l \in Sizes : TRUE,
              stock |-> 0, stamp |-> -1]

CatalogRequests ==
  [op : {"createProduct", "editProduct"}, product : Products, slug : Slugs,
   measures : SUBSET Sizes]
  \cup [op : {"deleteProduct", "removeProductFromCategory"}, product : Products]
  \cup [op : {"createVariant", "editVariant"}, variant : Variants, product : Products,
        color : Colors, size : Sizes, stock : Nat]
  \cup [op : {"deleteVariant"}, variant : Variants]
  \cup [op : {"createListing"}, variant : Variants, category : Categories \cup {NoLabel}]
  \cup [op : {"updateShowcase"}, product : Products, active : BOOLEAN]
  \cup [op : {"assignProductToCategory"}, product : Products, category : Categories]
  \cup [op : {"createLabel", "deleteLabel"}, label : Labels]
  \cup [op : {"createUniqueProduct"}, variant : Variants, slug : Slugs]

ASSUME CatalogAssumption ==
  /\ Products # {} /\ Colors # {} /\ Sizes # {} /\ NoLabel \notin Labels
  /\ Colors \cap Sizes = {} /\ Categories \cap (Colors \cup Sizes) = {}
  /\ MaxStamp \in Nat
  /\ CatalogCalls # {} /\ CatalogCalls \subseteq CatalogRequests
  /\ \A c \in InitCatalog :
       /\ c.products \in [Products -> ProductDocs]
       /\ c.variants \in [Variants -> VariantDocs]
       /\ c.labels \subseteq Labels
       /\ \A p \in Products : c.products[p].exists => c.products[p].stamp = 0
       /\ \A v \in Variants : c.variants[v].exists => c.variants[v].stamp = 0

-----------------------------------------------------------------------------
VARIABLES
  products, variants,  \* the collections, by id
  listings,            \* collection "product_listings"
  labels,              \* the colours, sizes and categories that exist
  clock,               \* history: writes so far, each has its number
  counted,             \* history: the clock at each count of a deleted label
  taken,               \* history: [from, piece] of unique products made
  supply,              \* history: pieces of every variant, see StoreVariant
  catPc, catJob        \* control state and loaded data of every request

catalogVars == <<products, variants, listings, labels, clock, counted, taken,
                 supply, catPc, catJob>>

CatPCs == {"new", "found", "measures", "counted", "cleared", "product", "variant", "done"}

IdleCatJob == [call |-> CHOOSE c \in CatalogCalls : TRUE, variants |-> {},
               cleared |-> 0, measured |-> 0, product |-> CHOOSE p \in Products : TRUE,
               source |-> NoVariant, measures |-> {}]

(* The clock at the two counts of a label.                                 *)
Counts == [uses : Int, measures : Int]

CatalogTypeOK ==
  /\ products \in [Products -> ProductDocs]
  /\ variants \in [Variants -> VariantDocs]
  /\ listings \subseteq Listings
  /\ labels \subseteq Labels
  /\ clock \in 0..MaxStamp
  /\ counted \in [Labels -> Counts]
  /\ taken \subseteq [from : Variants, piece : Variants]
  /\ catPc \in [CatalogSlots -> CatPCs]
  /\ \A s \in CatalogSlots : catJob[s].call \in CatalogCalls

CatalogInit ==
  /\ \E c \in InitCatalog :
       products = c.products /\ variants = c.variants /\ labels = c.labels
  /\ listings = {}
  /\ clock = 0
  /\ counted = [l \in Labels |-> [uses |-> -1, measures |-> -1]]
  /\ taken = {}
  /\ supply = [v \in Variants |-> variants[v].stock]
  /\ catPc = [s \in CatalogSlots |-> "new"]
  /\ catJob = [s \in CatalogSlots |-> IdleCatJob]

-----------------------------------------------------------------------------
VariantsOf(p) == {v \in Variants : variants[v].exists /\ variants[v].product = p}

SlugTaken(slug, others) ==
  \E q \in others : products[q].exists /\ products[q].slug = slug

(* The unique index on product, color and size.                            *)
TripleFree(v, p, color, size) ==
  \A w \in VariantsOf(p) :
    variants[w].color = color /\ variants[w].size = size => w = v

Stamped == clock < MaxStamp /\ clock' = clock + 1

CatGoto(s, at) == catPc' = [catPc EXCEPT ![s] = at]

(* A call that is one write.                                               *)
AtOnce(s, c, op) ==
  /\ catPc[s] = "new" /\ c.op = op
  /\ CatGoto(s, "done") /\ UNCHANGED catJob

Find(s, c, op, j) ==
  /\ catPc[s] = "new" /\ c.op = op
  /\ CatGoto(s, "found")
  /\ catJob' = [catJob EXCEPT ![s] = [j EXCEPT !.call = c]]

-----------------------------------------------------------------------------
(* createProduct and editProduct                                           *)
StoreProduct(s, c) ==
  /\ \/ AtOnce(s, c, "createProduct") /\ products[c.product].stamp = -1
     \/ AtOnce(s, c, "editProduct") /\ products[c.product].exists
  /\ ~ SlugTaken(c.slug, Products \ {c.product})
  /\ Stamped
  /\ products' = [products EXCEPT ![c.product] =
       [exists |-> TRUE, slug |-> c.slug, measures |-> c.measures, stamp |-> clock']]
  /\ UNCHANGED <<variants, listings, labels, counted, taken, supply>>

(* deleteProduct and deleteVariant: what refers to them stays.             *)
DeleteDoc(s, c) ==
  /\ \/ /\ AtOnce(s, c, "deleteProduct")
        /\ products' = [products EXCEPT ![c.product].exists = FALSE]
        /\ UNCHANGED variants
     \/ /\ AtOnce(s, c, "deleteVariant")
        /\ variants' = [variants EXCEPT ![c.variant].exists = FALSE]
        /\ UNCHANGED products
  /\ UNCHANGED <<listings, labels, clock, counted, taken, supply>>

(* Unique products made of a variant whose piece has been taken from it.   *)
Deducted(v) ==
  Cardinality({t \in taken : t.from = v})
  - Cardinality({s \in CatalogSlots : catPc[s] = "variant" /\ catJob[s].call.variant = v})

(* createVariant and editVariant                                           *)
StoreVariant(s, c) ==
  /\ \/ AtOnce(s, c, "createVariant") /\ variants[c.variant].stamp = -1
     \/ AtOnce(s, c, "editVariant") /\ variants[c.variant].exists
  /\ TripleFree(c.variant, c.product, c.color, c.size)
  /\ Stamped
  /\ variants' = [variants EXCEPT ![c.variant] =
       [exists |-> TRUE, product |-> c.product, color |-> c.color, size |-> c.size,
        stock |-> c.stock, stamp |-> clock']]
  /\ supply' = [supply EXCEPT ![c.variant] = c.stock + Deducted(c.variant)]
  /\ UNCHANGED <<products, listings, labels, counted, taken>>

(* createListing; a listing of no assignment has cleared -1.               *)
CreateListing(s, c) ==
  /\ AtOnce(s, c, "createListing")
  /\ Stamped
  /\ listings' = listings \cup
       {[variant |-> c.variant, category |-> c.category, active |-> TRUE,
         stamp |-> clock', cleared |-> -1]}
  /\ UNCHANGED <<products, variants, labels, counted, taken, supply>>

(* editListing to any category or flag, deleteListing.                     *)
EditListing ==
  /\ \E l \in listings :
       \/ \E category \in Categories \cup {NoLabel}, active \in BOOLEAN :
            /\ Stamped
            /\ listings' = (listings \ {l}) \cup
                 {[l EXCEPT !.category = category, !.active = active,
                            !.stamp = clock', !.cleared = -1]}
       \/ listings' = listings \ {l} /\ UNCHANGED clock
  /\ UNCHANGED <<products, variants, labels, counted, taken, supply, catPc, catJob>>

(* createColor, createSize, createCategory: a new id.                      *)
CreateLabel(s, c) ==
  /\ AtOnce(s, c, "createLabel")
  /\ c.label \notin labels /\ counted[c.label].uses = -1
  /\ labels' = labels \cup {c.label}
  /\ UNCHANGED <<products, variants, listings, clock, counted, taken, supply>>

-----------------------------------------------------------------------------
(* The variants of a colour or size, the listings of a category.           *)
InUse(label) ==
  \/ \E v \in Variants : variants[v].exists /\ label \in {variants[v].color, variants[v].size}
  \/ \E l \in listings : l.category = label

(* Faulty variant: measurements do not count.                              *)
NotMeasured(label) == FALSE

(* The products with measurements of a size.                               *)
Measured(label) == \E p \in Products : products[p].exists /\ label \in products[p].measures

(* deleteColor, deleteSize and deleteCategory look the label up, ...       *)
FindLabel(s, c) ==
  /\ Find(s, c, "deleteLabel", IdleCatJob)
  /\ c.label \in labels
  /\ UNCHANGED <<products, variants, listings, labels, clock, counted, taken, supply>>

(* ... count its uses, ...                                                 *)
CountUses(s) ==
  LET label == catJob[s].call.label IN
  /\ catPc[s] = "found" /\ catJob[s].call.op = "deleteLabel"
  /\ CatGoto(s, CASE InUse(label) -> "done"
                  [] ~ InUse(label) /\ label \in Sizes -> "measures"
                  [] OTHER -> "counted")
  /\ catJob' = [catJob EXCEPT ![s].cleared = clock, ![s].measured = clock]
  /\ UNCHANGED <<products, variants, listings, labels, clock, counted, taken, supply>>

(* ... those of a size in measurements with a second count, ...            *)
CountMeasures(s) ==
  /\ catPc[s] = "measures"
  /\ CatGoto(s, IF Measured(catJob[s].call.label) THEN "done" ELSE "counted")
  /\ catJob' = [catJob EXCEPT ![s].measured = clock]
  /\ UNCHANGED <<products, variants, listings, labels, clock, counted, taken, supply>>

(* ... and delete it if there were none.                                   *)
DeleteLabel(s) ==
  LET j == catJob[s] IN
  /\ catPc[s] = "counted"
  /\ labels' = labels \ {j.call.label}
  /\ counted' = IF j.call.label \in labels
                  THEN [counted EXCEPT ![j.call.label] =
                          [uses |-> j.cleared, measures |-> j.measured]]
                  ELSE counted
  /\ CatGoto(s, "done")
  /\ UNCHANGED <<products, variants, listings, clock, taken, supply, catJob>>

-----------------------------------------------------------------------------
(* assignProductToCategory, removeProductFromCategory and updateShowcase   *)
(* find the variants of the product, ...                                   *)
FindVariants(s, c) ==
  /\ \E op \in {"assignProductToCategory", "removeProductFromCategory", "updateShowcase"} :
       Find(s, c, op, [IdleCatJob EXCEPT !.variants = VariantsOf(c.product)])
  /\ c.op # "removeProductFromCategory" => VariantsOf(c.product) # {}
  /\ UNCHANGED <<products, variants, listings, labels, clock, counted, taken, supply>>

(* Faulty variant: only the listings of the new category are deleted.      *)
ReplacedSame(l, j) ==
  /\ l.variant \in j.variants /\ l.category # NoLabel
  /\ j.call.op = "assignProductToCategory" => l.category = j.call.category

Replaced(l, j) == l.variant \in j.variants /\ l.category # NoLabel

(* ... delete their listings in any category, ...                          *)
ClearCategory(s) ==
  LET j == catJob[s] IN
  /\ catPc[s] = "found"
  /\ j.call.op \in {"assignProductToCategory", "removeProductFromCategory"}
  /\ listings' = {l \in listings : ~ Replaced(l, j)}
  /\ CatGoto(s, IF j.call.op = "assignProductToCategory" THEN "cleared" ELSE "done")
  /\ catJob' = [catJob EXCEPT ![s].cleared = clock]
  /\ UNCHANGED <<products, variants, labels, clock, counted, taken, supply>>

(* ... and an assignment inserts one for each of them.                     *)
InsertListings(s) ==
  LET j == catJob[s] IN
  /\ catPc[s] = "cleared"
  /\ Stamped
  /\ listings' = listings \cup
       {[variant |-> v, category |-> j.call.category, active |-> TRUE,
         stamp |-> clock', cleared |-> j.cleared] : v \in j.variants}
  /\ CatGoto(s, "done")
  /\ UNCHANGED <<products, variants, labels, counted, taken, supply, catJob>>

(* updateShowcase: updateMany                                              *)
SetShowcase(s) ==
  LET j == catJob[s] IN
  /\ catPc[s] = "found" /\ j.call.op = "updateShowcase"
  /\ listings' = {IF l.variant \in j.variants THEN [l EXCEPT !.active = j.call.active]
                                              ELSE l : l \in listings}
  /\ CatGoto(s, "done")
  /\ UNCHANGED <<products, variants, labels, clock, counted, taken, supply, catJob>>

-----------------------------------------------------------------------------
(* createUniqueProduct reads the source variant with its labels, ...       *)
FindSource(s, c) ==
  /\ LET source == variants[c.variant]
         product == products[source.product]
     IN  /\ Find(s, c, "createUniqueProduct",
                 [IdleCatJob EXCEPT !.source = source,
                    !.measures = IF product.exists THEN product.measures ELSE {}])
         /\ source.exists
         /\ source.stock > 0
         /\ {source.color, source.size} \subseteq labels
  /\ UNCHANGED <<products, variants, listings, labels, clock, counted, taken, supply>>

(* ... saves a product with the measurements of the source's, ...          *)
SaveUniqueProduct(s) ==
  LET j == catJob[s] IN
  /\ catPc[s] = "found" /\ j.call.op = "createUniqueProduct"
  /\ IF SlugTaken(j.call.slug, Products)
       THEN CatGoto(s, "done") /\ UNCHANGED <<products, clock, catJob>>
       ELSE \E p \in Products :
              /\ products[p].stamp = -1
              /\ Stamped
              /\ products' = [products EXCEPT ![p] =
                   [exists |-> TRUE, slug |-> j.call.slug, measures |-> j.measures,
                    stamp |-> clock']]
              /\ CatGoto(s, "product")
              /\ catJob' = [catJob EXCEPT ![s].product = p]
  /\ UNCHANGED <<variants, listings, labels, counted, taken, supply>>

(* ... saves a variant of one piece, ...                                   *)
SaveUniqueVariant(s) ==
  LET j == catJob[s] IN
  /\ catPc[s] = "product"
  /\ Stamped
  /\ \E v \in Variants :
       /\ variants[v].stamp = -1
       /\ variants' = [variants EXCEPT ![v] =
            [j.source EXCEPT !.product = j.product, !.stock = 1, !.stamp = clock']]
       /\ supply' = [supply EXCEPT ![v] = 1]
       /\ taken' = taken \cup {[from |-> j.call.variant, piece |-> v]}
  /\ CatGoto(s, "variant")
  /\ UNCHANGED <<products, listings, labels, counted, catJob>>

(* Faulty variant: the stock that was read, less one, is stored.           *)
StockReadLessOne(j) == j.source.stock - 1

StockLessOne(j) == variants[j.call.variant].stock - 1

(* ... and takes it from the source, "después de todo lo demás".           *)
TakePiece(s) ==
  LET j == catJob[s] IN
  /\ catPc[s] = "variant"
  /\ variants' = IF variants[j.call.variant].exists
                   THEN [variants EXCEPT ![j.call.variant].stock = StockLessOne(j)]
                   ELSE variants
  /\ CatGoto(s, "done")
  /\ UNCHANGED <<products, listings, labels, clock, counted, taken, supply, catJob>>

CatalogNext ==
  \/ \E s \in CatalogSlots :
       \/ \E c \in CatalogCalls :
            \/ StoreProduct(s, c) \/ DeleteDoc(s, c) \/ StoreVariant(s, c)
            \/ CreateListing(s, c) \/ CreateLabel(s, c) \/ FindLabel(s, c)
            \/ FindVariants(s, c) \/ FindSource(s, c)
       \/ CountUses(s) \/ CountMeasures(s) \/ DeleteLabel(s)
       \/ ClearCategory(s) \/ InsertListings(s) \/ SetShowcase(s)
       \/ SaveUniqueProduct(s) \/ SaveUniqueVariant(s) \/ TakePiece(s)
  \/ EditListing

CatalogSpec == CatalogInit /\ [][CatalogNext]_catalogVars
=============================================================================
