---------------------------- MODULE LibraryProps ----------------------------
(***************************************************************************)
(* Correctness of the pictures of products and of the search through       *)
(* related designs: properties of modules Images and RelatedDesigns.       *)
(***************************************************************************)
EXTENDS Images, RelatedDesigns

(* An image leaves the list of a product only by its deletion, by a change *)
(* of the order in which the administrator named another one twice, or     *)
(* because a change of the order had read the list before it was pushed.   *)
ImagesKept ==
  [][\A g \in Garments : \A i \in Range(gallery[g]) \ Range(gallery'[g]) :
       \E s \in PictureSlots :
         LET j == pictureJob[s] IN
         /\ picturePc'[s] # picturePc[s] /\ j.call.garment = g
         /\ \/ j.call.op = "deleteProductImage" /\ j.call.image = i
            \/ j.call.op = "reorderImages" /\ ~ IsInjective(j.call.images)
            \/ \E n \in j.since + 1 .. Len(pictureLog) :
                 pictureLog[n].garment = g /\ i \in pictureLog[n].added]_picturesVars

(* A list grows beyond the limit of images only by a request that does not *)
(* know of it: another request has written the list since it was read.     *)
LimitPassedByOverlap ==
  [][\A g \in Garments :
       /\ Len(gallery'[g]) > MaxImages
       /\ Len(gallery'[g]) > Len(gallery[g])
       => \E s \in PictureSlots :
            LET j == pictureJob[s] IN
            /\ picturePc'[s] # picturePc[s] /\ j.call.garment = g
            /\ \E n \in j.since + 1 .. Len(pictureLog) :
                 pictureLog[n].garment = g]_picturesVars

(* A walk of n references from one design to another, all but the last of  *)
(* them in the library.                                                    *)
Walk(n, from, to) ==
  \E w \in [0..n -> Designs] :
    /\ w[0] = from /\ w[n] = to
    /\ \A i \in 0 .. n - 1 : w[i] \in made /\ w[i + 1] \in related[w[i]]

(* Unless the library changed meanwhile, a search lists exactly the other  *)
(* designs within the depth asked for, three at most, each with the length *)
(* of the shortest walk that leads to it.                                  *)
RelatedRight ==
  \A s \in Searches :
    LET j == search[s] IN
    j.pc = "done" /\ j.since = edits
    => j.result =
         {h \in [design : made \ {j.origin}, level : 1 .. Levels(j.depth)] :
            /\ Walk(h.level, j.origin, h.design)
            /\ \A n \in 1 .. h.level - 1 : ~ Walk(n, j.origin, h.design)}
=============================================================================
