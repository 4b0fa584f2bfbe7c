------------------------------- MODULE MCSite -------------------------------
(***************************************************************************)
(* The rest of the site: the address book, sign-in, the game, the live     *)
(* statistics, the catalogue, the pictures of products and the library of  *)
(* designs.  They share no state, so that a behaviour is one of a single   *)
(* part, the others resting.                                               *)
(***************************************************************************)
EXTENDS AddressesProps, AuthProps, GameProps, DashboardProps, CatalogProps,
        LibraryProps, TLC

CONSTANTS a1,
          mem1, mem2, mail1, mail2, pass1, pass2,
          o1, o2,
          p1, p2, p3, slug1, slug2, slug3, v1, v2, v3, red, small, large, cat1, cat2,
          i1, i2, i3, d1, d2, d3, d4, q1, s1, s2, s3, s4

VARIABLES
  component,  \* the part a behaviour is of
  focus,      \* of the game and the catalogue: what a behaviour is about
  spent       \* of sign-in: steps that neither make links nor use slots

(* Slots are interchangeable: they are used in this order.                 *)
SlotOrder == <<s1, s2, s3, s4>>
InOrder(pcs) ==
  \A i \in 1..3 : {SlotOrder[i], SlotOrder[i + 1]} \subseteq DOMAIN pcs =>
    (pcs[SlotOrder[i + 1]] # "new" => pcs[SlotOrder[i]] # "new")

-----------------------------------------------------------------------------
(* Address book: positions 1 and 2, and one beyond most books; the lists   *)
(* an update stores: one address, two, and the wrong number of defaults.   *)
Indexes == {1, 2, 3}
Lists ==
  {<<[place |-> "home", isDefault |-> FALSE]>>,
   <<[place |-> "home", isDefault |-> FALSE], [place |-> "work", isDefault |-> TRUE]>>,
   <<[place |-> "home", isDefault |-> TRUE], [place |-> "work", isDefault |-> TRUE]>>}
MCCalls ==
  [op : {"addAddress"}, place : Places, isDefault : BOOLEAN]
  \cup [op : {"updateAddress"}, index : Indexes, place : {"work", None},
        isDefault : BOOLEAN]
  \cup [op : {"deleteAddress", "setDefaultAddress"}, index : Indexes]
  \cup [op : {"update"}, sets : {{"addresses"}}, addresses : Lists, isDeleted : {FALSE}]
  \cup [op : {"update"}, sets : {{"isDeleted"}}, addresses : {<< >>}, isDeleted : BOOLEAN]
  \cup [op : {"softDelete"}]

-----------------------------------------------------------------------------
(* Sign-in: one account that is there, or none.                            *)
Member1 == [NoMember EXCEPT !.exists = TRUE, !.email = mail1, !.password = HashOf(pass1)]
MCInitMembers == {mem1 :> Member1 @@ mem2 :> NoMember, mem1 :> NoMember @@ mem2 :> NoMember}
MCPatches ==
  {[sets |-> {"email"}, doc |-> [NoMember EXCEPT !.email = mail2]],
   [sets |-> {"password"}, doc |-> [NoMember EXCEPT !.password = HashOf(pass2)]],
   [sets |-> {"deleted", "banned"}, doc |-> NoMember]}

AuthStep ==
  /\ AuthNext
  /\ InOrder(signPc')
  /\ ~ members'[mem2].exists
  /\ \A s \in SignSlots :
       signPc[s] = "new" /\ signPc'[s] \in {"found", "compare"} => signJob'[s].new = pass2
  /\ spent' = spent + (IF /\ making' = making /\ signPc' = signPc
                          /\ Len(links') = Len(links) THEN 1 ELSE 0)
  /\ spent' <= 1

-----------------------------------------------------------------------------
(* The game: at most two updates on their way, one player at trivia.       *)
GameStep ==
  /\ GameNext
  /\ sockets'["k2"] # "new" => sockets'["k1"] # "new"
  /\ Len(writes') <= 2
  /\ trivia' # trivia =>
       /\ focus = "trivia" /\ trivia'["k2"] = NoTrivia
       /\ Len(trivia'["k1"].due) <= 2
       /\ \A k \in Sockets : trivia[k].answered \in {{}, {1, 2}} \/ trivia'[k].answered # {}
  /\ \A k \in Sockets : players'[k].profile.coins <= 500
  /\ hidden'["h1"].at # "none" => focus = "hunt"
  /\ drops'["d1"].at # "none" => focus = "drop"
  /\ \A k \in Sockets : players'[k].profile.skin # NoSkin => focus = "hunt"

-----------------------------------------------------------------------------
(* Statistics: a pending order of yesterday and a cancelled one of today,  *)
(* a handler for each; the months and the trend are read first.            *)
MCWorth == o1 :> 1 @@ o2 :> 2
MCInitSales ==
  {[now |-> 2,
    sales |-> o1 :> [time |-> 0, status |-> "esperando_pago", pending |-> TRUE]
              @@ o2 :> [time |-> 2, status |-> "off", pending |-> FALSE]]}

DashboardStep ==
  /\ DashboardNext
  /\ manager'[s2].started => manager[s1].started
  /\ \A m \in Managers :
       manager'[m].started =>
         \/ /\ m = s1 /\ manager'[m].sale = o1
            /\ manager'[m].call.op = "updatePaymentProof"
            /\ manager'[m].call.to # "rejected"
         \/ /\ m = s2 /\ manager'[m].sale = o2
            /\ manager'[m].call \in {[op |-> "updateStatus", to |-> "paid"],
                                     [op |-> "unarchiveOrder", to |-> "paid"]}
  /\ \A p \in Pushes \ {1} : push'[p].pc # "new" => push[p - 1].pc # "new"
  /\ push'[3].pc # "new" => \A m \in Managers : manager'[m].step = 3
  /\ \A p \in Pushes : \/ push'[p].read \cap {<<"pending", 0>>, <<"today", 0>>} = {}
                       \/ <<"trend", 0>> \in push'[p].read
  /\ screen.open /\ ~ screen'.open => push[2].pc = "new"
  /\ now' > now => \/ push[1].pc = "new"
                   \/ push[1].read = {Month} /\ push[2].pc = "new"

-----------------------------------------------------------------------------
(* Catalogue: one product with one variant, of one or two pieces.          *)
Sold(slug, measures) == [exists |-> TRUE, slug |-> slug, measures |-> measures, stamp |-> 0]
NoProduct == [Sold(slug1, {}) EXCEPT !.exists = FALSE, !.stamp = -1]
MCInitCatalog ==
  {[products |-> p1 :> Sold(slug1, {small}) @@ p2 :> NoProduct @@ p3 :> NoProduct,
    variants |-> v1 :> [exists |-> TRUE, product |-> p1, color |-> red, size |-> small,
                        stock |-> n, stamp |-> 0]
                 @@ v2 :> NoVariant @@ v3 :> NoVariant,
    labels |-> {red, small, large, cat1}] : n \in {1, 2}}
MCCatalogCalls ==
  [op : {"assignProductToCategory"}, product : {p1}, category : {cat1, cat2}]
  \cup [op : {"deleteLabel"}, label : {red, large, cat1}]
  \cup [op : {"createUniqueProduct"}, variant : {v1}, slug : {slug2, slug3}]
  \cup [op : {"editProduct"}, product : {p1}, slug : {slug2}, measures : {{}, {large}}]
  \cup {[op |-> "createProduct", product |-> p2, slug |-> slug2, measures |-> {}],
        [op |-> "deleteProduct", product |-> p1],
        [op |-> "removeProductFromCategory", product |-> p1],
        [op |-> "createVariant", variant |-> v2, product |-> p1, color |-> red,
         size |-> large, stock |-> 1],
        [op |-> "editVariant", variant |-> v1, product |-> p1, color |-> red,
         size |-> large, stock |-> 3],
        [op |-> "deleteVariant", variant |-> v1],
        [op |-> "createListing", variant |-> v1, category |-> cat1],
        [op |-> "updateShowcase", product |-> p1, active |-> FALSE],
        [op |-> "createLabel", label |-> cat2]}

(* A behaviour is about the pieces of the variant, of which two unique     *)
(* products may be made, about labels, or about the categories of listings.*)
FocusCalls ==
  [pieces |-> [op : {"createUniqueProduct"}, variant : {v1}, slug : {slug2, slug3}]
              \cup [op : {"deleteLabel"}, label : {red}],
   labels |-> [op : {"deleteLabel"}, label : {red, large, cat1}],
   categories |-> {c \in MCCatalogCalls : c.op # "createUniqueProduct"}
                  \ [op : {"deleteLabel"}, label : {red, large}]]

CatalogStep ==
  /\ CatalogNext
  /\ InOrder(catPc')
  /\ \A s \in CatalogSlots :
       catPc[s] = "new" /\ catPc'[s] = "found" => catJob'[s].call \in FocusCalls[focus]
  /\ products'[p3].stamp >= 0 => products'[p2].stamp >= 0
  /\ variants'[v3].stamp >= 0 => variants'[v2].stamp >= 0
  /\ focus = "pieces" => listings' = listings
  /\ focus # "pieces" => clock' <= 3
  /\ focus = "categories" => products' = products /\ variants' = variants

(* Pictures: three uploads to one product, of which two fit.               *)
MCPictureCalls ==
  [op : {"uploadProductImage"}, garment : {p1}]
  \cup [op : {"setMainImage"}, garment : {p1}, image : {i1, i2}]
  \cup [op : {"deleteProductImage"}, garment : {p1, p2}, image : {i1}]
  \cup [op : {"reorderImages"}, garment : {p1}, images : {<<i2, i1>>, <<i2, i2>>}]

ImagesStep ==
  /\ ImagesNext
  /\ InOrder(picturePc')
  /\ i2 \in uploaded' => i1 \in uploaded'
  /\ i3 \in uploaded' => i2 \in uploaded'

(* Designs: the graphs on three designs and one that is not there.         *)
MCInitLibraries ==
  {[made |-> {d1, d2, d3}, related |-> d1 :> a @@ d2 :> b @@ d3 :> c @@ d4 :> {}] :
     a \in SUBSET {d2, d3}, b \in SUBSET {d1, d3, d4}, c \in SUBSET {d1, d4}}

-----------------------------------------------------------------------------
SiteInit ==
  /\ Init /\ AuthInit /\ GameInit /\ DashboardInit /\ CatalogInit /\ ImagesInit
  /\ LibraryInit
  /\ component \in {"addresses", "auth", "game", "dashboard", "catalog", "images",
                    "designs"}
  /\ focus \in CASE component = "game" -> {"trivia", "hunt", "drop"}
                  [] component = "catalog" -> DOMAIN FocusCalls
                  [] OTHER -> {"all"}
  /\ spent = 0
  /\ component # "auth" => members[mem1].exists
  /\ component # "catalog" => variants[v1].stock = 1
  /\ component # "designs" => related = [d \in Designs |-> {}]

SiteNext ==
  /\ UNCHANGED <<component, focus>>
  /\ \/ /\ component = "addresses" /\ Next /\ InOrder(pc')
        /\ UNCHANGED <<authVars, spent, gameVars, dashboardVars, catalogVars,
                       picturesVars, libraryVars>>
     \/ /\ component = "auth" /\ AuthStep
        /\ UNCHANGED <<vars, gameVars, dashboardVars, catalogVars, picturesVars,
                       libraryVars>>
     \/ /\ component = "game" /\ GameStep
        /\ UNCHANGED <<vars, authVars, spent, dashboardVars, catalogVars,
                       picturesVars, libraryVars>>
     \/ /\ component = "dashboard" /\ DashboardStep
        /\ UNCHANGED <<vars, authVars, spent, gameVars, catalogVars, picturesVars,
                       libraryVars>>
     \/ /\ component = "catalog" /\ CatalogStep
        /\ UNCHANGED <<vars, authVars, spent, gameVars, dashboardVars, picturesVars,
                       libraryVars>>
     \/ /\ component = "images" /\ ImagesStep
        /\ UNCHANGED <<vars, authVars, spent, gameVars, dashboardVars, catalogVars,
                       libraryVars>>
     \/ /\ component = "designs" /\ LibraryNext
        /\ UNCHANGED <<vars, authVars, spent, gameVars, dashboardVars, catalogVars,
                       picturesVars>>

siteVars == <<component, focus, spent, vars, authVars, gameVars, dashboardVars,
              catalogVars, picturesVars, libraryVars>>

SiteSpec == SiteInit /\ [][SiteNext]_siteVars

(* The type invariants of the parts.                                       *)
SiteTypeOK ==
  /\ TypeOK /\ AuthTypeOK /\ GameTypeOK /\ DashboardTypeOK
  /\ CatalogTypeOK /\ ImagesTypeOK /\ LibraryTypeOK
=============================================================================
