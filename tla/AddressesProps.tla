--------------------------- MODULE AddressesProps ---------------------------
(***************************************************************************)
(* Correctness of the address book: properties of module Addresses.        *)
(***************************************************************************)
EXTENDS Addresses

OneDefault(book) ==
  book # << >> =>
    \E i \in DOMAIN book : \A j \in DOMAIN book : book[j].isDefault <=> j = i

Names(book, p) == \E i \in DOMAIN book : book[i].place = p

(* The update that stores a list of its own, past the address handlers.    *)
StoresList(c) == c.op = "update" /\ "addresses" \in c.sets

(* Calls that mean to remove place p from a book: its deletion, its        *)
(* replacement by another one, a list without it.                          *)
MeansToDrop(c, book, p) ==
  \/ /\ c.op \in {"deleteAddress", "updateAddress"}
     /\ book[c.index].place = p
  \/ StoresList(c)

(* Only lists that an update stored lack the single default of a non-empty *)
(* book: no address handler writes such a list unless it loaded one, in    *)
(* whatever order overlapping handlers write.                              *)
DefaultKept ==
  [][\A a \in Accounts :
       /\ OneDefault(accounts[a].addresses)
       /\ ~ OneDefault(accounts'[a].addresses)
       => \E r \in Requests :
            /\ pc[r] = "loaded"
            /\ pc'[r] = "done"
            /\ job[r].account = a
            /\ \/ StoresList(job[r].call)
               \/ ~ OneDefault(job[r].book)]_vars

(* An address is lost without a call that means it only in a save from a   *)
(* copy loaded before the address was added: handlers that do not overlap  *)
(* lose none.                                                              *)
LostOnlyByOverlap ==
  [][\A a \in Accounts, p \in Places :
       /\ Names(accounts[a].addresses, p)
       /\ ~ Names(accounts'[a].addresses, p)
       => \E r \in Requests :
            /\ pc[r] = "loaded"
            /\ pc'[r] = "done"
            /\ job[r].account = a
            /\ \/ MeansToDrop(job[r].call, job[r].book, p)
               \/ ~ Names(job[r].book, p)]_vars

(* With lists of one default in every update, every book has one.          *)
SingleDefault == \A a \in Accounts : OneDefault(accounts[a].addresses)
=============================================================================
