--------------------------- MODULE RelatedDesigns ---------------------------
(***************************************************************************)
(* The designs of the library and the search through the designs related   *)
(* to one, designs/designs.service.ts.  A search makes two queries for     *)
(* every level; between them, administrators change what is related.       *)
(*                                                                         *)
(* A design is its set of related designs: names, prices and files are     *)
(* left out.  Nothing clears the references to a design that is removed.   *)
(***************************************************************************)
EXTENDS Integers, FiniteSetsExt

CONSTANTS
  Designs,        \* designs, the ones not created yet included
  InitLibraries,  \* [made, related] a behaviour may start with
  Depths,         \* values of the parameter depth
  Searches,       \* searches, each made once
  MaxEdits        \* bound on changes of the library

ASSUME RelatedDesignsAssumption ==
  /\ Depths \subseteq Int
  /\ MaxEdits \in Nat
  /\ \A l \in InitLibraries :
       l.made \subseteq Designs /\ l.related \in [Designs -> SUBSET Designs]

VARIABLES
  made,     \* the designs in collection "library_designs"
  related,  \* field relatedDesignIds of every design
  edits,    \* history: changes of the library so far
  search    \* every search: its parameters, loop variables and result

libraryVars == <<made, related, edits, search>>

Hits == [design : Designs, level : Nat]
IdleSearch == [pc |-> "new", origin |-> CHOOSE d \in Designs : TRUE, depth |-> 0,
               d |-> 0, visited |-> {}, current |-> {}, next |-> {}, result |-> {},
               since |-> 0]

LibraryTypeOK ==
  /\ made \subseteq Designs
  /\ related \in [Designs -> SUBSET Designs]
  /\ edits \in 0..MaxEdits
  /\ \A s \in Searches :
       /\ search[s].pc \in {"new", "edges", "designs", "done"}
       /\ search[s].visited \subseteq Designs
       /\ search[s].result \subseteq Hits

LibraryInit ==
  /\ \E l \in InitLibraries : made = l.made /\ related = l.related
  /\ edits = 0
  /\ search = [s \in Searches |-> IdleSearch]

-----------------------------------------------------------------------------
(* create, a removed design not coming back                                *)
CreateDesign ==
  \E d \in Designs \ made :
    /\ related[d] = {}
    /\ made' = made \cup {d}
    /\ UNCHANGED related

(* updateRelated refuses the design itself; update takes any list.         *)
UpdateRelated ==
  \E d \in made, ids \in SUBSET Designs :
    related' = [related EXCEPT ![d] = ids] /\ UNCHANGED made

RemoveDesign ==
  \E d \in made :
    made' = made \ {d} /\ UNCHANGED related

EditLibrary ==
  /\ edits < MaxEdits
  /\ edits' = edits + 1
  /\ CreateDesign \/ UpdateRelated \/ RemoveDesign
  /\ UNCHANGED search

-----------------------------------------------------------------------------
Smaller(a, b) == IF a < b THEN a ELSE b
Levels(depth) == Smaller(depth, 3)

(* findRelated begins its loop, ...                                        *)
StartSearch(s) ==
  /\ search[s].pc = "new"
  /\ \E id \in Designs, depth \in Depths :
       search' = [search EXCEPT ![s] =
         [IdleSearch EXCEPT !.pc = IF Levels(depth) > 0 THEN "edges" ELSE "done",
            !.origin = id, !.depth = depth, !.visited = {id}, !.current = {id},
            !.since = edits]]
  /\ UNCHANGED <<made, related, edits>>

(* Faulty variant: only the designs of the last level are not new.         *)
UnvisitedLast(j) == (UNION {related[d] : d \in j.current \cap made}) \ j.current

(* The related designs a level meets for the first time.                   *)
Unvisited(j) == (UNION {related[d] : d \in j.current \cap made}) \ j.visited

(* ... reads the references of the designs of the level, ...               *)
ReadEdges(s) ==
  LET j == search[s]
      next == Unvisited(j)
  IN  /\ j.pc = "edges"
      /\ search' = [search EXCEPT ![s] =
           [j EXCEPT !.pc = IF next = {} THEN "done" ELSE "designs",
                     !.next = next, !.visited = j.visited \cup next]]
      /\ UNCHANGED <<made, related, edits>>

(* ... and the designs of the next one, the deleted ones not being found.  *)
ReadDesigns(s) ==
  LET j == search[s] IN
  /\ j.pc = "designs"
  /\ search' = [search EXCEPT ![s] =
       [j EXCEPT !.pc = IF j.d + 1 < Levels(j.depth) THEN "edges" ELSE "done",
                 !.d = j.d + 1,
                 !.current = j.next,
                 !.result = j.result \cup {[design |-> d, level |-> j.d + 1]
                                           : d \in j.next \cap made}]]
  /\ UNCHANGED <<made, related, edits>>

LibraryNext ==
  \/ EditLibrary
  \/ \E s \in Searches : StartSearch(s) \/ ReadEdges(s) \/ ReadDesigns(s)

LibrarySpec == LibraryInit /\ [][LibraryNext]_libraryVars
=============================================================================
