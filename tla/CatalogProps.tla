---------------------------- MODULE CatalogProps ----------------------------
(***************************************************************************)
(* Correctness of the catalogue: properties of module Catalog.             *)
(***************************************************************************)
EXTENDS Catalog

(* The pieces of a variant are where they belong: what is left of it and   *)
(* the unique products made of it are what was supplied, however many      *)
(* unique products are made of it at a time and edits set its stock.       *)
PiecesAddUp ==
  \A v \in Variants :
    variants[v].exists => variants[v].stock + Deducted(v) = supply[v]

(* Two assignments leave a variant in two categories only if they          *)
(* overlapped: the later one had deleted the listings of the variant       *)
(* before the earlier one stored its own.                                  *)
OneCategory ==
  \A l, n \in listings :
    /\ l.variant = n.variant
    /\ l.category # NoLabel /\ n.category # NoLabel
    /\ l.cleared >= 0 /\ n.cleared >= 0
    /\ l.stamp < n.stamp
    => n.cleared < l.stamp

(* A deleted colour, size or category is still referred to only by what    *)
(* was stored after the count of that kind of use: a variant or listing    *)
(* after the first count, a product's measurements after the second one.   *)
DeletedUnused ==
  \A label \in Labels \ labels :
    /\ \A v \in Variants :
         variants[v].exists /\ label \in {variants[v].color, variants[v].size}
         => variants[v].stamp > counted[label].uses
    /\ \A p \in Products :
         products[p].exists /\ label \in products[p].measures
         => products[p].stamp > counted[label].measures
    /\ \A l \in listings : l.category = label => l.stamp > counted[label].uses
=============================================================================
