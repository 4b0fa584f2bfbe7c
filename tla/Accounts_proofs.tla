-------------------------- MODULE Accounts_proofs ---------------------------
(***************************************************************************)
(* Proofs about what belongs to an account: the address book, and the      *)
(* one-time links and passwords of sign-in.                                *)
(***************************************************************************)
EXTENDS AddressesProps, AuthProps, SequenceTheorems, TLAPS

-----------------------------------------------------------------------------
(***************************************************************************)
(* The address book, for every number of accounts, requests and calls,     *)
(* under every interleaving.                                               *)
(***************************************************************************)
(* A list with the flags of its addresses set anew.                        *)
LEMMA WithDefaultFacts ==
  ASSUME NEW book \in Books, NEW i \in Int
  PROVE  /\ WithDefault(book, i) \in Books
         /\ DOMAIN WithDefault(book, i) = DOMAIN book
         /\ Len(WithDefault(book, i)) = Len(book)
         /\ \A j \in DOMAIN book :
              /\ WithDefault(book, i)[j].isDefault <=> j = i
              /\ WithDefault(book, i)[j].place = book[j].place
<1>1. /\ Len(book) \in Nat
      /\ DOMAIN book = 1 .. Len(book)
      /\ \A j \in 1 .. Len(book) : book[j] \in Address
  BY LenProperties, ElementOfSeq DEF Books
<1>2. \A j \in DOMAIN book : [book[j] EXCEPT !.isDefault = (j = i)] \in Address
  BY <1>1 DEF Address
<1>3. WithDefault(book, i) \in [1 .. Len(book) -> Address]
  BY <1>1, <1>2 DEF WithDefault
<1>4. WithDefault(book, i) \in Seq(Address)
  BY <1>1, <1>3, SeqDef
<1>5. \A j \in DOMAIN book :
        /\ WithDefault(book, i)[j].isDefault <=> j = i
        /\ WithDefault(book, i)[j].place = book[j].place
  BY <1>1 DEF WithDefault, Address
<1> QED
  BY <1>1, <1>3, <1>4, <1>5, LenProperties DEF Books

(* A list without the address at i: the ones before it stay, the others    *)
(* move up by one.                                                         *)
LEMMA RemoveAtFacts ==
  ASSUME NEW book \in Books, NEW i \in DOMAIN book
  PROVE  /\ RemoveAt(book, i) \in Books
         /\ Len(RemoveAt(book, i)) = Len(book) - 1
         /\ \A j \in 1 .. Len(book) - 1 :
              RemoveAt(book, i)[j] = IF j < i THEN book[j] ELSE book[j + 1]
<1>1. /\ Len(book) \in Nat
      /\ DOMAIN book = 1 .. Len(book)
      /\ book \in Seq(Address)
      /\ i \in 1 .. Len(book)
  BY LenProperties DEF Books
<1> DEFINE front == SubSeq(book, 1, i - 1)
           back == SubSeq(book, i + 1, Len(book))
<1>2. /\ front \in Seq(Address)
      /\ Len(front) = i - 1
      /\ \A j \in 1 .. i - 1 : front[j] = book[j]
  BY <1>1, SubSeqProperties
<1>3. /\ back \in Seq(Address)
      /\ Len(back) = Len(book) - i
      /\ \A j \in 1 .. Len(book) - i : back[j] = book[i + j]
  BY <1>1, SubSeqProperties
<1> HIDE DEF front, back
<1>4. /\ front \o back \in Seq(Address)
      /\ Len(front \o back) = Len(front) + Len(back)
      /\ \A j \in 1 .. Len(front) + Len(back) :
           (front \o back)[j] = IF j <= Len(front) THEN front[j] ELSE back[j - Len(front)]
  BY <1>2, <1>3, ConcatProperties
<1>5. RemoveAt(book, i) = front \o back
  BY DEF RemoveAt, front, back
<1>6. ASSUME NEW j \in 1 .. Len(book) - 1
      PROVE  (front \o back)[j] = IF j < i THEN book[j] ELSE book[j + 1]
  <2>1. CASE j < i
    BY <1>1, <1>2, <1>3, <1>4, <2>1
  <2>2. CASE ~ (j < i)
    <3>1. /\ j - Len(front) \in 1 .. Len(book) - i
          /\ i + (j - Len(front)) = j + 1
      BY <1>1, <1>2, <2>2
    <3>2. (front \o back)[j] = back[j - Len(front)]
      BY <1>1, <1>2, <1>3, <1>4, <2>2
    <3> QED
      BY <1>3, <2>2, <3>1, <3>2
  <2> QED
    BY <2>1, <2>2
<1>7. Len(front \o back) = Len(book) - 1
  BY <1>1, <1>2, <1>3, <1>4
<1> QED
  BY <1>4, <1>5, <1>6, <1>7 DEF Books

(* The type of a call's fields.                                            *)
LEMMA CallFields ==
  ASSUME NEW c \in Calls
  PROVE  /\ c.op \in EditOps \cup {"update", "softDelete"}
         /\ c.op = "addAddress" => c.place \in Places /\ c.isDefault \in BOOLEAN
         /\ c.op = "updateAddress" =>
              c.place \in Places \cup {None} /\ c.isDefault \in BOOLEAN
         /\ c.op = "update" => c.addresses \in Books /\ c.isDeleted \in BOOLEAN
<1>1. c \in AllCalls
  BY AddressesAssumption
<1>2. CASE c \in Adds
  BY <1>2 DEF Adds, EditOps
<1>3. CASE c \in Changes
  BY <1>3 DEF Changes, EditOps
<1>4. CASE c \in Picks
  BY <1>4 DEF Picks, EditOps
<1>5. CASE c \in Patches
  BY <1>5 DEF Patches, EditOps
<1>6. CASE c \in [op : {"softDelete"}]
  BY <1>6 DEF EditOps
<1> QED
  BY <1>1, <1>2, <1>3, <1>4, <1>5, <1>6 DEF AllCalls

-----------------------------------------------------------------------------
(* What each handler makes of the list it loaded: a list, with one default *)
(* if the loaded one had one, and every place the call does not name.      *)

LEMMA AddedFacts ==
  ASSUME NEW c \in Calls, c.op = "addAddress", NEW book \in Books
  PROVE  /\ Added(c, book) \in Books
         /\ OneDefault(book) => OneDefault(Added(c, book))
         /\ \A p \in Places : Names(book, p) => Names(Added(c, book), p)
<1> DEFINE only == c.isDefault \/ book = << >>
           kept == IF only THEN WithDefault(book, 0) ELSE book
           new == [place |-> c.place, isDefault |-> only]
           added == Append(kept, new)
<1>1. c.place \in Places /\ c.isDefault \in BOOLEAN
  BY CallFields
<1>2. Len(book) \in Nat /\ DOMAIN book = 1 .. Len(book)
  BY LenProperties DEF Books
<1>3. /\ kept \in Books
      /\ Len(kept) = Len(book)
      /\ DOMAIN kept = DOMAIN book
      /\ \A j \in DOMAIN book : kept[j].place = book[j].place
      /\ only => \A j \in DOMAIN book : ~ kept[j].isDefault
      /\ ~ only => kept = book
  BY <1>2, WithDefaultFacts
<1>4. /\ new \in Address
      /\ only \in BOOLEAN
      /\ new.isDefault = only
  BY <1>1 DEF Address
<1> HIDE DEF kept, new
<1>5. /\ added \in Seq(Address)
      /\ Len(added) = Len(book) + 1
      /\ \A j \in 1 .. Len(book) : added[j] = kept[j]
      /\ added[Len(book) + 1] = new
  BY <1>3, <1>4, AppendProperties DEF Books
<1>6. DOMAIN added = 1 .. Len(book) + 1
  BY <1>5, LenProperties
<1> HIDE DEF added
<1>7. ASSUME OneDefault(book) PROVE OneDefault(added)
  <2>1. CASE only
    <3>1. added[Len(book) + 1].isDefault
      BY <1>4, <1>5, <2>1
    <3>2. \A j \in DOMAIN added : added[j].isDefault <=> j = Len(book) + 1
      BY <1>2, <1>3, <1>5, <1>6, <2>1, <3>1
    <3> QED
      BY <1>2, <1>6, <3>2 DEF OneDefault
  <2>2. CASE ~ only
    <3>1. PICK i \in DOMAIN book : \A j \in DOMAIN book : book[j].isDefault <=> j = i
      BY <1>7, <2>2 DEF OneDefault
    <3>2. ~ added[Len(book) + 1].isDefault
      BY <1>4, <1>5, <2>2
    <3>3. \A j \in DOMAIN added : added[j].isDefault <=> j = i
      BY <1>2, <1>3, <1>5, <1>6, <2>2, <3>1, <3>2
    <3> QED
      BY <1>2, <1>6, <3>3 DEF OneDefault
  <2> QED
    BY <2>1, <2>2
<1>8. \A p \in Places : Names(book, p) => Names(added, p)
  BY <1>2, <1>3, <1>5, <1>6 DEF Names
<1>9. Added(c, book) = added
  BY DEF Added, added, kept, new
<1> QED
  BY <1>5, <1>7, <1>8, <1>9 DEF Books

LEMMA UpdatedFacts ==
  ASSUME NEW c \in Calls, c.op = "updateAddress",
         NEW book \in Books, c.index \in DOMAIN book
  PROVE  /\ Updated(c, book) \in Books
         /\ OneDefault(book) => OneDefault(Updated(c, book))
         /\ \A p \in Places :
              Names(book, p) /\ book[c.index].place # p => Names(Updated(c, book), p)
<1> DEFINE moved == [book[c.index] EXCEPT !.place = c.place]
           edited == IF c.place = None THEN book
                                       ELSE [book EXCEPT ![c.index].place = c.place]
           updated == IF c.isDefault THEN WithDefault(edited, c.index) ELSE edited
<1>1. /\ c.place \in Places \cup {None}
      /\ c.isDefault \in BOOLEAN
  BY CallFields
<1>2. /\ Len(book) \in Nat
      /\ DOMAIN book = 1 .. Len(book)
      /\ c.index \in 1 .. Len(book)
      /\ \A j \in 1 .. Len(book) : book[j] \in Address
  BY LenProperties, ElementOfSeq DEF Books
<1>3. /\ edited \in Books
      /\ DOMAIN edited = DOMAIN book
      /\ \A j \in DOMAIN book : edited[j].isDefault = book[j].isDefault
      /\ \A j \in DOMAIN book : j # c.index => edited[j] = book[j]
  <2>1. CASE c.place = None
    BY <2>1
  <2>2. CASE c.place # None
    <3>1. moved \in Address /\ moved.isDefault = book[c.index].isDefault
      BY <1>1, <1>2, <2>2 DEF Address
    <3>2. edited = [book EXCEPT ![c.index] = moved]
      BY <2>2
    <3>3. /\ edited \in Seq(Address)
          /\ Len(edited) = Len(book)
          /\ \A j \in 1 .. Len(book) :
               edited[j] = IF j = c.index THEN moved ELSE book[j]
      BY <1>2, <3>1, <3>2, ExceptSeq DEF Books
    <3> QED
      BY <1>2, <3>1, <3>3, LenProperties DEF Books
  <2> QED
    BY <2>1, <2>2
<1> HIDE DEF edited
<1>4. /\ updated \in Books
      /\ DOMAIN updated = DOMAIN book
      /\ \A j \in DOMAIN book : updated[j].place = edited[j].place
      /\ c.isDefault => \A j \in DOMAIN book : updated[j].isDefault <=> j = c.index
      /\ ~ c.isDefault => updated = edited
  BY <1>2, <1>3, WithDefaultFacts
<1> HIDE DEF updated
<1>5. ASSUME OneDefault(book) PROVE OneDefault(updated)
  <2>1. CASE c.isDefault
    BY <1>2, <1>4, <2>1 DEF OneDefault
  <2>2. CASE ~ c.isDefault
    <3>1. PICK i \in DOMAIN book : \A j \in DOMAIN book : book[j].isDefault <=> j = i
      BY <1>2, <1>5 DEF OneDefault
    <3> QED
      BY <1>3, <1>4, <2>2, <3>1 DEF OneDefault
  <2> QED
    BY <1>1, <2>1, <2>2
<1>6. \A p \in Places :
        Names(book, p) /\ book[c.index].place # p => Names(updated, p)
  BY <1>3, <1>4 DEF Names
<1>7. Updated(c, book) = updated
  BY DEF Updated, updated, edited
<1> QED
  BY <1>4, <1>5, <1>6, <1>7

LEMMA DeletedFacts ==
  ASSUME NEW c \in Calls, NEW book \in Books, c.index \in DOMAIN book
  PROVE  /\ Deleted(c, book) \in Books
         /\ OneDefault(book) => OneDefault(Deleted(c, book))
         /\ \A p \in Places :
              Names(book, p) /\ book[c.index].place # p => Names(Deleted(c, book), p)
<1> DEFINE n == Len(book)
           k == c.index
           left == RemoveAt(book, k)
           first == [left[1] EXCEPT !.isDefault = TRUE]
           deleted == IF book[k].isDefault /\ left # << >>
                        THEN [left EXCEPT ![1].isDefault = TRUE] ELSE left
<1>1. /\ n \in Nat
      /\ DOMAIN book = 1 .. n
      /\ k \in 1 .. n
      /\ \A j \in 1 .. n : book[j] \in Address
  BY LenProperties, ElementOfSeq DEF Books
<1>2. /\ left \in Books
      /\ Len(left) = n - 1
      /\ \A j \in 1 .. n - 1 : left[j] = IF j < k THEN book[j] ELSE book[j + 1]
  BY RemoveAtFacts
<1> HIDE DEF left
<1>3. DOMAIN left = 1 .. n - 1
  BY <1>2, LenProperties DEF Books
<1>4. left # << >> => n - 1 > 0
  BY <1>1, <1>2, EmptySeq DEF Books
<1>5. /\ deleted \in Books
      /\ DOMAIN deleted = 1 .. n - 1
      /\ \A j \in 1 .. n - 1 : deleted[j].place = left[j].place
      /\ \A j \in 1 .. n - 1 : j # 1 => deleted[j] = left[j]
      /\ book[k].isDefault /\ n - 1 > 0 => deleted[1].isDefault
      /\ ~ book[k].isDefault => deleted = left
  <2>1. CASE book[k].isDefault /\ left # << >>
    <3>1. 1 \in 1 .. n - 1
      BY <1>1, <1>4, <2>1
    <3>2. left[1] \in Address
      BY <1>2, <3>1, ElementOfSeq DEF Books
    <3>3. /\ first \in Address
          /\ first.isDefault = TRUE
          /\ first.place = left[1].place
      BY <3>2 DEF Address
    <3>4. deleted = [left EXCEPT ![1] = first]
      BY <2>1
    <3> HIDE DEF deleted, first
    <3>5. /\ deleted \in Seq(Address)
          /\ Len(deleted) = n - 1
          /\ \A j \in 1 .. n - 1 : deleted[j] = IF j = 1 THEN first ELSE left[j]
      BY <1>2, <3>1, <3>3, <3>4, ExceptSeq DEF Books
    <3>6. DOMAIN deleted = 1 .. n - 1
      BY <3>5, LenProperties
    <3>7. \A j \in 1 .. n - 1 : deleted[j].place = left[j].place
      BY <3>3, <3>5
    <3>8. deleted[1].isDefault
      BY <3>1, <3>3, <3>5
    <3> QED
      BY <2>1, <3>5, <3>6, <3>7, <3>8 DEF Books
  <2>2. CASE book[k].isDefault /\ left = << >>
    <3>1. n - 1 = 0
      BY <1>2, <2>2
    <3> QED
      BY <1>2, <1>3, <2>2, <3>1
  <2>3. CASE ~ book[k].isDefault
    BY <1>2, <1>3, <2>3
  <2> QED
    BY <2>1, <2>2, <2>3
<1> HIDE DEF deleted
<1>6. ASSUME OneDefault(book) PROVE OneDefault(deleted)
  <2>1. PICK i \in 1 .. n : \A j \in 1 .. n : book[j].isDefault <=> j = i
    <3>1. book # << >>
      BY <1>1, EmptySeq
    <3>2. PICK i \in DOMAIN book : \A j \in DOMAIN book : book[j].isDefault <=> j = i
      BY <1>6, <3>1 DEF OneDefault
    <3> QED
      BY <1>1, <3>2
  <2>2. CASE n - 1 = 0
    <3>1. Len(deleted) = 0
      BY <1>5, <2>2, LenProperties DEF Books
    <3>2. deleted = << >>
      BY <1>5, <3>1, EmptySeq DEF Books
    <3> QED
      BY <3>2 DEF OneDefault
  <2>3. CASE n - 1 > 0 /\ i = k
    <3>1. \A j \in 1 .. n - 1 : j # 1 => ~ deleted[j].isDefault
      BY <1>1, <1>2, <1>5, <2>1, <2>3
    <3>2. deleted[1].isDefault
      BY <1>1, <1>5, <2>1, <2>3
    <3> QED
      BY <1>1, <1>5, <2>3, <3>1, <3>2 DEF OneDefault
  <2>4. CASE n - 1 > 0 /\ i # k
    <3> DEFINE m == IF i < k THEN i ELSE i - 1
    <3>1. m \in 1 .. n - 1
      BY <1>1, <2>1, <2>4
    <3>2. deleted = left
      BY <1>1, <1>5, <2>1, <2>4
    <3>3. ASSUME NEW j \in 1 .. n - 1 PROVE deleted[j].isDefault <=> j = m
      <4>1. CASE j < k
        BY <1>1, <1>2, <2>1, <2>4, <3>2, <4>1
      <4>2. CASE ~ (j < k)
        <5>1. deleted[j] = book[j + 1] /\ j + 1 \in 1 .. n
          BY <1>1, <1>2, <3>2, <4>2
        <5>2. deleted[j].isDefault <=> j + 1 = i
          BY <2>1, <5>1
        <5> QED
          BY <1>1, <2>1, <2>4, <4>2, <5>2
      <4> QED
        BY <4>1, <4>2
    <3>4. \A j \in DOMAIN deleted : deleted[j].isDefault <=> j = m
      BY <1>5, <3>3
    <3>5. m \in DOMAIN deleted
      BY <1>5, <3>1
    <3> HIDE DEF m
    <3> QED
      BY <3>4, <3>5 DEF OneDefault
  <2> QED
    BY <1>1, <2>2, <2>3, <2>4
<1>7. ASSUME NEW p \in Places, Names(book, p), book[k].place # p
      PROVE  Names(deleted, p)
  <2>1. PICK i \in 1 .. n : book[i].place = p
    BY <1>1, <1>7 DEF Names
  <2> DEFINE m == IF i < k THEN i ELSE i - 1
  <2>2. m \in 1 .. n - 1 /\ left[m] = book[i]
    BY <1>1, <1>2, <1>7, <2>1
  <2> QED
    BY <1>5, <2>1, <2>2 DEF Names
<1>8. Deleted(c, book) = deleted
  BY DEF Deleted, deleted, left
<1> QED
  BY <1>5, <1>6, <1>7, <1>8

(* The list of each address handler.                                       *)
LEMMA EditedFacts ==
  ASSUME NEW c \in Calls, c.op \in EditOps, NEW book \in Books,
         c.op # "addAddress" => c.index \in DOMAIN book
  PROVE  /\ Edited(c, book) \in Books
         /\ OneDefault(book) => OneDefault(Edited(c, book))
         /\ \A p \in Places :
              Names(book, p) /\ ~ MeansToDrop(c, book, p) => Names(Edited(c, book), p)
<1>1. CASE c.op = "addAddress"
  BY <1>1, AddedFacts DEF Edited
<1>2. CASE c.op = "updateAddress"
  BY <1>2, UpdatedFacts DEF Edited, MeansToDrop
<1>3. CASE c.op = "deleteAddress"
  BY <1>3, DeletedFacts DEF Edited, MeansToDrop
<1>4. CASE c.op = "setDefaultAddress"
  <2>1. Edited(c, book) = WithDefault(book, c.index)
    BY <1>4 DEF Edited
  <2>2. DOMAIN book = 1 .. Len(book) /\ Len(book) \in Nat
    BY LenProperties DEF Books
  <2>3. c.index \in DOMAIN book /\ c.index \in Int
    BY <1>4, <2>2
  <2> QED
    BY <2>1, <2>3, WithDefaultFacts DEF OneDefault, Names
<1> QED
  BY <1>1, <1>2, <1>3, <1>4 DEF EditOps

-----------------------------------------------------------------------------
(* What findOne and the early returns give a handler: an index of its copy.*)
IndexValid ==
  \A r \in Requests :
    pc[r] = "loaded" /\ job[r].call.op \in EditOps \ {"addAddress"}
      => job[r].call.index \in DOMAIN job[r].book

AddressInv == TypeOK /\ IndexValid

LEMMA IdleJobType == IdleJob \in Jobs
<1>1. (CHOOSE c \in Calls : TRUE) \in Calls
  BY AddressesAssumption
<1>2. (CHOOSE a \in Accounts : TRUE) \in Accounts
  BY AddressesAssumption
<1>3. << >> \in Books
  BY EmptySeq DEF Books
<1> QED
  BY <1>1, <1>2, <1>3 DEF IdleJob, Jobs

LEMMA InitInv == Init => AddressInv
<1> SUFFICES ASSUME Init PROVE AddressInv
  OBVIOUS
<1>1. << >> \in Books
  BY EmptySeq DEF Books
<1> QED
  BY <1>1, IdleJobType DEF Init, AddressInv, TypeOK, IndexValid, Documents, PCs

(* The list of a handler, as EditedFacts gives it.                         *)
LEMMA WrittenBook ==
  ASSUME AddressInv, NEW r \in Requests, pc[r] = "loaded",
         job[r].call.op \in EditOps
  PROVE  LET j == job[r] IN
         /\ Edited(j.call, j.book) \in Books
         /\ OneDefault(j.book) => OneDefault(Edited(j.call, j.book))
         /\ \A p \in Places :
              Names(j.book, p) /\ ~ MeansToDrop(j.call, j.book, p)
                => Names(Edited(j.call, j.book), p)
<1>1. job[r].call \in Calls /\ job[r].book \in Books
  BY DEF AddressInv, TypeOK, Jobs
<1>2. job[r].call.op # "addAddress" => job[r].call.index \in DOMAIN job[r].book
  BY DEF AddressInv, IndexValid
<1> QED
  BY <1>1, <1>2, EditedFacts

LEMMA StepInv == AddressInv /\ [Next]_vars => AddressInv'
<1> SUFFICES ASSUME AddressInv, [Next]_vars PROVE AddressInv'
  OBVIOUS
<1>1. CASE UNCHANGED vars
  BY <1>1 DEF vars, AddressInv, TypeOK, IndexValid
<1>2. ASSUME NEW r \in Requests, NEW c \in Calls, NEW a \in Accounts,
             FindAccount(r, c, a)
      PROVE  AddressInv'
  <2>1. accounts[a].addresses \in Books
    BY DEF AddressInv, TypeOK, Documents
  <2>2. TypeOK'
    BY <1>2, <2>1 DEF AddressInv, TypeOK, FindAccount, Jobs, PCs
  <2>3. c.op \in EditOps \ {"addAddress"} => c.index \in DOMAIN accounts[a].addresses
    BY <1>2 DEF FindAccount, Accepts, EditOps
  <2>4. IndexValid'
    BY <1>2, <2>3 DEF AddressInv, TypeOK, IndexValid, FindAccount, Jobs
  <2> QED
    BY <2>2, <2>4 DEF AddressInv
<1>3. ASSUME NEW r \in Requests, WriteBook(r) PROVE AddressInv'
  <2>1. Edited(job[r].call, job[r].book) \in Books
    BY <1>3, WrittenBook DEF WriteBook
  <2>2. job[r].account \in Accounts
    BY DEF AddressInv, TypeOK, Jobs
  <2>3. TypeOK'
    BY <1>3, <2>1, <2>2 DEF AddressInv, TypeOK, WriteBook, Documents, PCs
  <2> QED
    BY <1>3, <2>3 DEF AddressInv, TypeOK, IndexValid, WriteBook
<1>4. ASSUME NEW r \in Requests, WritePatch(r) PROVE AddressInv'
  <2>1. /\ job[r].account \in Accounts
        /\ job[r].call.addresses \in Books
        /\ job[r].call.isDeleted \in BOOLEAN
    BY <1>4, CallFields DEF AddressInv, TypeOK, Jobs, WritePatch
  <2>2. TypeOK'
    BY <1>4, <2>1 DEF AddressInv, TypeOK, WritePatch, Documents, PCs
  <2> QED
    BY <1>4, <2>2 DEF AddressInv, TypeOK, IndexValid, WritePatch
<1>5. ASSUME NEW r \in Requests, WriteDeleted(r) PROVE AddressInv'
  <2>1. job[r].account \in Accounts
    BY DEF AddressInv, TypeOK, Jobs
  <2>2. TypeOK'
    BY <1>5, <2>1 DEF AddressInv, TypeOK, WriteDeleted, Documents, PCs
  <2> QED
    BY <1>5, <2>2 DEF AddressInv, TypeOK, IndexValid, WriteDeleted
<1> QED
  BY <1>1, <1>2, <1>3, <1>4, <1>5 DEF Next

(* Every reachable state of the address books is type correct, whatever    *)
(* the handlers of users.service.ts that overlap write.                    *)
THEOREM TypeCorrect == Spec => []TypeOK
<1>1. AddressInv => TypeOK
  BY DEF AddressInv
<1> QED
  BY <1>1, InitInv, StepInv, PTL DEF Spec

-----------------------------------------------------------------------------
(* How a step changes a stored list: one request writes, either the list   *)
(* its address handler computed or the one its update was given.           *)
LEMMA BookStep ==
  ASSUME AddressInv, Next, NEW a \in Accounts,
         accounts'[a].addresses # accounts[a].addresses
  PROVE  \E r \in Requests :
           /\ pc[r] = "loaded"
           /\ pc'[r] = "done"
           /\ job[r].account = a
           /\ \/ /\ StoresList(job[r].call)
                 /\ accounts'[a].addresses = job[r].call.addresses
              \/ /\ job[r].call.op \in EditOps
                 /\ accounts'[a].addresses = Edited(job[r].call, job[r].book)
<1>1. ASSUME NEW r \in Requests, NEW c \in Calls, NEW b \in Accounts,
             FindAccount(r, c, b)
      PROVE  FALSE
  BY <1>1 DEF FindAccount
<1>2. ASSUME NEW r \in Requests, WriteDeleted(r) PROVE FALSE
  BY <1>2 DEF WriteDeleted, AddressInv, TypeOK, Documents
<1>3. ASSUME NEW r \in Requests, WriteBook(r)
      PROVE  /\ pc[r] = "loaded" /\ pc'[r] = "done"
             /\ job[r].account = a
             /\ job[r].call.op \in EditOps
             /\ accounts'[a].addresses = Edited(job[r].call, job[r].book)
  BY <1>3 DEF WriteBook, AddressInv, TypeOK, Documents
<1>4. ASSUME NEW r \in Requests, WritePatch(r)
      PROVE  /\ pc[r] = "loaded" /\ pc'[r] = "done"
             /\ job[r].account = a
             /\ StoresList(job[r].call)
             /\ accounts'[a].addresses = job[r].call.addresses
  BY <1>4 DEF WritePatch, StoresList, AddressInv, TypeOK, Documents
<1> QED
  BY <1>1, <1>2, <1>3, <1>4 DEF Next

(* No address handler takes the single default from a book that had one in *)
(* the copy it loaded (addAddress, updateAddress, deleteAddress and        *)
(* setDefaultAddress), under every interleaving of their writes.           *)
THEOREM DefaultIsKept == Spec => DefaultKept
<1> DEFINE Kept ==
      \A a \in Accounts :
        /\ OneDefault(accounts[a].addresses)
        /\ ~ OneDefault(accounts'[a].addresses)
        => \E r \in Requests :
             /\ pc[r] = "loaded"
             /\ pc'[r] = "done"
             /\ job[r].account = a
             /\ \/ StoresList(job[r].call)
                \/ ~ OneDefault(job[r].book)
<1>1. AddressInv /\ [Next]_vars => [Kept]_vars
  <2> SUFFICES ASSUME AddressInv, Next, NEW a \in Accounts,
                      OneDefault(accounts[a].addresses),
                      ~ OneDefault(accounts'[a].addresses)
               PROVE  \E r \in Requests :
                        /\ pc[r] = "loaded"
                        /\ pc'[r] = "done"
                        /\ job[r].account = a
                        /\ \/ StoresList(job[r].call)
                           \/ ~ OneDefault(job[r].book)
    BY DEF Kept
  <2>1. accounts'[a].addresses # accounts[a].addresses
    OBVIOUS
  <2>2. PICK r \in Requests :
          /\ pc[r] = "loaded"
          /\ pc'[r] = "done"
          /\ job[r].account = a
          /\ \/ /\ StoresList(job[r].call)
                /\ accounts'[a].addresses = job[r].call.addresses
             \/ /\ job[r].call.op \in EditOps
                /\ accounts'[a].addresses = Edited(job[r].call, job[r].book)
    BY <2>1, BookStep
  <2>3. job[r].call.op \in EditOps
          => (OneDefault(job[r].book) => OneDefault(Edited(job[r].call, job[r].book)))
    BY <2>2, WrittenBook
  <2> QED
    BY <2>2, <2>3
<1> QED
  BY <1>1, InitInv, StepInv, PTL DEF Spec, DefaultKept, Kept

(* An address that no call means to remove is only lost in a write from a  *)
(* copy loaded before the address was there.                               *)
THEOREM AddressesLostOnlyByOverlap == Spec => LostOnlyByOverlap
<1> DEFINE Lost ==
      \A a \in Accounts, p \in Places :
        /\ Names(accounts[a].addresses, p)
        /\ ~ Names(accounts'[a].addresses, p)
        => \E r \in Requests :
             /\ pc[r] = "loaded"
             /\ pc'[r] = "done"
             /\ job[r].account = a
             /\ \/ MeansToDrop(job[r].call, job[r].book, p)
                \/ ~ Names(job[r].book, p)
<1>1. AddressInv /\ [Next]_vars => [Lost]_vars
  <2> SUFFICES ASSUME AddressInv, Next, NEW a \in Accounts, NEW p \in Places,
                      Names(accounts[a].addresses, p),
                      ~ Names(accounts'[a].addresses, p)
               PROVE  \E r \in Requests :
                        /\ pc[r] = "loaded"
                        /\ pc'[r] = "done"
                        /\ job[r].account = a
                        /\ \/ MeansToDrop(job[r].call, job[r].book, p)
                           \/ ~ Names(job[r].book, p)
    BY DEF Lost
  <2>1. accounts'[a].addresses # accounts[a].addresses
    OBVIOUS
  <2>2. PICK r \in Requests :
          /\ pc[r] = "loaded"
          /\ pc'[r] = "done"
          /\ job[r].account = a
          /\ \/ /\ StoresList(job[r].call)
                /\ accounts'[a].addresses = job[r].call.addresses
             \/ /\ job[r].call.op \in EditOps
                /\ accounts'[a].addresses = Edited(job[r].call, job[r].book)
    BY <2>1, BookStep
  <2>3. CASE StoresList(job[r].call)
    BY <2>2, <2>3 DEF MeansToDrop
  <2>4. CASE job[r].call.op \in EditOps /\ ~ StoresList(job[r].call)
    <3>1. Names(job[r].book, p) /\ ~ MeansToDrop(job[r].call, job[r].book, p)
            => Names(Edited(job[r].call, job[r].book), p)
      BY <2>2, <2>4, WrittenBook
    <3> QED
      BY <2>2, <2>4, <3>1
  <2> QED
    BY <2>2, <2>3, <2>4
<1> QED
  BY <1>1, InitInv, StepInv, PTL DEF Spec, LostOnlyByOverlap, Lost

-----------------------------------------------------------------------------
(* Updates only store lists with one default, or none that is not empty.   *)
TidyUpdates == \A c \in Calls : StoresList(c) => OneDefault(c.addresses)

LoadedTidy == \A r \in Requests : OneDefault(job[r].book)

TidyInv == AddressInv /\ SingleDefault /\ LoadedTidy

(* If every list that update stores has its single default, every stored   *)
(* non-empty address book has exactly one, at every moment and under every *)
(* interleaving.                                                           *)
THEOREM BooksHaveOneDefault ==
  ASSUME TidyUpdates
  PROVE  Spec => []SingleDefault
<1>1. OneDefault(<< >>)
  BY DEF OneDefault
<1>2. Init => TidyInv
  BY <1>1, InitInv DEF Init, TidyInv, SingleDefault, LoadedTidy, IdleJob
<1>3. TidyInv /\ [Next]_vars => TidyInv'
  <2> SUFFICES ASSUME TidyInv, [Next]_vars PROVE TidyInv'
    OBVIOUS
  <2>1. AddressInv'
    BY StepInv DEF TidyInv
  <2>2. SingleDefault'
    <3> SUFFICES ASSUME NEW a \in Accounts PROVE OneDefault(accounts'[a].addresses)
      BY DEF SingleDefault
    <3>1. CASE accounts'[a].addresses = accounts[a].addresses
      BY <3>1 DEF TidyInv, SingleDefault
    <3>2. CASE accounts'[a].addresses # accounts[a].addresses
      <4>1. AddressInv /\ Next
        BY <3>2 DEF TidyInv, vars
      <4>2. PICK r \in Requests :
              /\ pc[r] = "loaded"
              /\ pc'[r] = "done"
              /\ job[r].account = a
              /\ \/ /\ StoresList(job[r].call)
                    /\ accounts'[a].addresses = job[r].call.addresses
                 \/ /\ job[r].call.op \in EditOps
                    /\ accounts'[a].addresses = Edited(job[r].call, job[r].book)
        BY <3>2, <4>1, BookStep
      <4>3. CASE StoresList(job[r].call) /\ accounts'[a].addresses = job[r].call.addresses
        <5>1. job[r].call \in Calls
          BY <4>1 DEF AddressInv, TypeOK, Jobs
        <5> QED
          BY <4>3, <5>1 DEF TidyUpdates
      <4>4. CASE /\ job[r].call.op \in EditOps
                 /\ accounts'[a].addresses = Edited(job[r].call, job[r].book)
        <5>1. OneDefault(job[r].book)
          BY DEF TidyInv, LoadedTidy
        <5> QED
          BY <4>1, <4>2, <4>4, <5>1, WrittenBook
      <4> QED
        BY <4>2, <4>3, <4>4
    <3> QED
      BY <3>1, <3>2
  <2>3. LoadedTidy'
    <3>1. ASSUME NEW r \in Requests, NEW c \in Calls, NEW a \in Accounts,
                 FindAccount(r, c, a)
          PROVE  LoadedTidy'
      <4>1. OneDefault(accounts[a].addresses)
        BY DEF TidyInv, SingleDefault
      <4>2. \A q \in Requests :
              job'[q].book = IF q = r THEN accounts[a].addresses ELSE job[q].book
        BY <3>1 DEF FindAccount, TidyInv, AddressInv, TypeOK
      <4> QED
        BY <4>1, <4>2 DEF TidyInv, LoadedTidy
    <3>2. CASE UNCHANGED job
      BY <3>2 DEF TidyInv, LoadedTidy
    <3>3. CASE Next /\ job' # job
      <4>1. PICK r \in Requests, c \in Calls, a \in Accounts : FindAccount(r, c, a)
        BY <3>3 DEF Next, WriteBook, WritePatch, WriteDeleted
      <4> QED
        BY <3>1, <4>1
    <3> QED
      BY <3>2, <3>3 DEF vars
  <2> QED
    BY <2>1, <2>2, <2>3 DEF TidyInv
<1>4. TidyInv => SingleDefault
  BY DEF TidyInv
<1> QED
  BY <1>2, <1>3, <1>4, PTL DEF Spec

-----------------------------------------------------------------------------
(***************************************************************************)
(* Accounts and one-time links for every set of accounts, any number of    *)
(* requests at a time and any number of links.                             *)
(***************************************************************************)
(* The types of the collections and of what requests have loaded.          *)
LEMMA IdleSignType == IdleSign \in SignJobs
<1>1. /\ (CHOOSE m \in Members : TRUE) \in Members
      /\ (CHOOSE e \in Emails : TRUE) \in Emails
      /\ (CHOOSE p \in Passwords : TRUE) \in Passwords
  BY AuthAssumption
<1>2. HashOf(CHOOSE p \in Passwords : TRUE) \in Stored
  BY <1>1 DEF HashOf, Stored
<1>3. NoMember \in MemberDocs
  BY <1>1, <1>2 DEF NoMember, MemberDocs
<1> QED
  BY <1>1, <1>3 DEF IdleSign, SignJobs

LEMMA LoadedType ==
  ASSUME AuthTypeOK, NEW m \in Members, NEW b \in BOOLEAN
  PROVE  Loaded(m, b) \in MemberDocs
<1>1. members[m] \in MemberDocs
  BY DEF AuthTypeOK
<1>2. members[m].password \in Stored
  BY <1>1 DEF MemberDocs
<1>3. [members[m].password EXCEPT !.how = "unselected"] \in Stored
  BY <1>2 DEF Stored
<1> QED
  BY <1>1, <1>3 DEF Loaded, MemberDocs

(* An element of a list is replaced.                                       *)
LEMMA PutSeq ==
  ASSUME NEW S, NEW q \in Seq(S), NEW i \in DOMAIN q, NEW x \in S
  PROVE  /\ [q EXCEPT ![i] = x] \in Seq(S)
         /\ Len([q EXCEPT ![i] = x]) = Len(q)
         /\ DOMAIN [q EXCEPT ![i] = x] = DOMAIN q
  OBVIOUS

LEMMA AuthTypeInit == AuthInit => AuthTypeOK
  BY IdleSignType, AuthAssumption DEF AuthInit, AuthTypeOK, SignPCs

(* A link is made: the steps of one job.                                   *)
LEMMA MakingType ==
  ASSUME AuthTypeOK, NEW i \in DOMAIN making, ClearLinks(i) \/ InsertLink(i)
  PROVE  AuthTypeOK'
<1> USE DEF AuthTypeOK
<1>1. making[i] \in MakingJobs /\ Len(links) \in Nat
  OBVIOUS
<1>2. CASE ClearLinks(i)
  <2>1. making' \in Seq(MakingJobs)
    <3>1. [making[i] EXCEPT !.at = "insert", !.cleared = Len(links)] \in MakingJobs
      BY <1>1 DEF MakingJobs
    <3>2. making' = [making EXCEPT ![i] =
                       [making[i] EXCEPT !.at = "insert", !.cleared = Len(links)]]
      BY <1>2 DEF ClearLinks
    <3> QED
      BY <3>1, <3>2, PutSeq
  <2>2. ASSUME NEW k \in DOMAIN links
        PROVE  [links[k] EXCEPT !.deleted =
          @ \/ (links[k].kind = making[i].kind /\ links[k].member = making[i].member)]
            \in LinkDocs
    <3>1. links[k] \in LinkDocs
      OBVIOUS
    <3> QED
      BY <3>1, Zenon DEF LinkDocs
  <2>3. links' \in Seq(LinkDocs)
    BY <1>2, <2>2 DEF ClearLinks
  <2> QED
    BY <1>2, <2>1, <2>3 DEF ClearLinks
<1>3. CASE InsertLink(i)
  <2>1. making' \in Seq(MakingJobs)
    <3>1. [making[i] EXCEPT !.at = "made"] \in MakingJobs
      BY <1>1 DEF MakingJobs
    <3>2. making' = [making EXCEPT ![i] = [making[i] EXCEPT !.at = "made"]]
      BY <1>3 DEF InsertLink
    <3> QED
      BY <3>1, <3>2, PutSeq
  <2>2. links' \in Seq(LinkDocs)
    BY <1>1, <1>3 DEF InsertLink, MakingJobs, LinkDocs
  <2> QED
    BY <1>3, <2>1, <2>2 DEF InsertLink
<1> QED
  BY <1>2, <1>3

(* A request of a slot.  The link it follows is one that was made.         *)
Linked ==
  \A s \in SignSlots :
    signPc[s] \in {"found", "act", "mark", "again"} => signJob[s].link \in DOMAIN links

LEMMA FollowType ==
  ASSUME AuthTypeOK, Linked, NEW s \in SignSlots, FollowLink(s)
  PROVE  AuthTypeOK'
<1> USE DEF AuthTypeOK, SignPCs
<1>0. signJob[s] \in SignJobs /\ signJob[s].member \in Members
  BY DEF SignJobs
<1>1. ASSUME NEW k \in DOMAIN links, NEW p \in Passwords, FindLink(s, k, p)
      PROVE  AuthTypeOK'
  <2>1. links[k].member \in Members /\ k \in Nat
    <3>1. links[k] \in LinkDocs
      OBVIOUS
    <3> QED
      BY <3>1 DEF LinkDocs
  <2>2. [IdleSign EXCEPT !.link = k, !.member = links[k].member, !.new = p] \in SignJobs
    BY <2>1, IdleSignType DEF SignJobs
  <2> QED
    BY <1>1, <2>2 DEF FindLink, Start, SignGoto
<1>2. CASE FindHolder(s)
  <2>1. [signJob[s] EXCEPT !.loaded = Loaded(signJob[s].member, FALSE)] \in SignJobs
    BY <1>0, LoadedType DEF SignJobs
  <2> QED
    BY <1>2, <2>1 DEF FindHolder, SignGoto
<1>3. CASE ActOnMember(s)
  <2>1. /\ HashOf(signJob[s].new) \in Stored
        /\ HashOf(signJob[s].new).how # "unselected"
    BY <1>0 DEF SignJobs, HashOf, Stored
  <2>2. /\ members' \in [Members -> MemberDocs]
        /\ \A m \in Members : members'[m].password.how # "unselected"
    BY <1>0, <1>3, <2>1 DEF ActOnMember, MemberDocs
  <2>3. signJob[s].link \in DOMAIN links
    BY <1>3 DEF ActOnMember, Linked
  <2>4. [links[signJob[s].link] EXCEPT !.acted = TRUE] \in LinkDocs
    <3>1. links[signJob[s].link] \in LinkDocs
      BY <2>3
    <3> QED
      BY <3>1 DEF LinkDocs
  <2>5. links' = [links EXCEPT ![signJob[s].link] =
                    [links[signJob[s].link] EXCEPT !.acted = TRUE]]
    BY <1>3 DEF ActOnMember
  <2>6. links' \in Seq(LinkDocs)
    BY <2>3, <2>4, <2>5, PutSeq
  <2> QED
    BY <1>3, <2>2, <2>6 DEF ActOnMember, SignGoto
<1>4. CASE MarkLink(s)
  <2>3. signJob[s].link \in DOMAIN links
    BY <1>4 DEF MarkLink, Linked
  <2>4. [links[signJob[s].link] EXCEPT !.used = @ \/ ~ links[signJob[s].link].deleted]
          \in LinkDocs
    <3>1. links[signJob[s].link] \in LinkDocs
      BY <2>3
    <3> QED
      BY <3>1, Zenon DEF LinkDocs
  <2>5. links' = [links EXCEPT ![signJob[s].link] =
                    [links[signJob[s].link] EXCEPT
                       !.used = @ \/ ~ links[signJob[s].link].deleted]]
    BY <1>4 DEF MarkLink
  <2>6. links' \in Seq(LinkDocs)
    BY <2>3, <2>4, <2>5, PutSeq
  <2> QED
    BY <1>4, <2>6 DEF MarkLink, SignGoto
<1>5. CASE FindAgain(s)
  BY <1>5 DEF FindAgain, SignGoto
<1> QED
  BY <1>1, <1>2, <1>3, <1>4, <1>5 DEF FollowLink

LEMMA SignInType ==
  ASSUME AuthTypeOK, NEW s \in SignSlots, SignIn(s)
  PROVE  AuthTypeOK'
<1> USE DEF AuthTypeOK, SignPCs
<1>0. signJob[s] \in SignJobs /\ signJob[s].member \in Members
  BY DEF SignJobs
<1>1. ASSUME NEW m \in Members, NEW p \in Passwords, LogIn(s, m, p)
      PROVE  AuthTypeOK'
  <2>1. [IdleSign EXCEPT !.member = m, !.given = p, !.loaded = Loaded(m, TRUE)]
          \in SignJobs
    BY LoadedType, IdleSignType DEF SignJobs
  <2> QED
    BY <1>1, <2>1 DEF LogIn, Start, SignGoto
<1>2. ASSUME NEW m \in Members, Refresh(s, m)
      PROVE  AuthTypeOK'
  <2>1. [IdleSign EXCEPT !.member = m, !.loaded = Loaded(m, FALSE)] \in SignJobs
    BY LoadedType, IdleSignType DEF SignJobs
  <2> QED
    BY <1>2, <2>1 DEF Refresh, Start, SignGoto
<1>3. ASSUME NEW m \in Members, NEW given \in Passwords, NEW new \in Passwords,
             FindOwnAccount(s, m, given, new)
      PROVE  AuthTypeOK'
  <2>1. [IdleSign EXCEPT !.member = m, !.given = given, !.new = new,
                         !.loaded = Loaded(m, FALSE)] \in SignJobs
    BY LoadedType, IdleSignType DEF SignJobs
  <2> QED
    BY <1>3, <2>1 DEF FindOwnAccount, Start, SignGoto
<1>4. CASE ComparePassword(s)
  <2>1. /\ HashOf(signJob[s].new) \in Stored
        /\ HashOf(signJob[s].new).how # "unselected"
    BY <1>0 DEF SignJobs, HashOf, Stored
  <2>2. /\ members' \in [Members -> MemberDocs]
        /\ \A m \in Members : members'[m].password.how # "unselected"
    <3>1. CASE members' = members
      BY <3>1
    <3>2. CASE members' = [members EXCEPT ![signJob[s].member].password =
                             HashOf(signJob[s].new)]
      BY <1>0, <2>1, <3>2 DEF MemberDocs
    <3> QED
      BY <1>4, <3>1, <3>2 DEF ComparePassword
  <2> QED
    BY <1>4, <2>2 DEF ComparePassword, SignGoto
<1>5. CASE IssueTokens(s)
  BY <1>0, <1>5 DEF IssueTokens, SignGoto
<1> QED
  BY <1>1, <1>2, <1>3, <1>4, <1>5 DEF SignIn

(* An operation on an account, and the jobs it starts.                     *)
LEMMA MakeLinksType ==
  ASSUME AuthTypeOK, NEW m \in Members, NEW kinds \in Seq(Kinds), MakeLinks(m, kinds)
  PROVE  /\ making' \in Seq(MakingJobs)
         /\ \A i \in DOMAIN making' :
              \/ i \in DOMAIN making /\ making'[i] = making[i]
              \/ making'[i].at = "clear"
<1> DEFINE new == [i \in DOMAIN kinds |->
                     [kind |-> kinds[i], member |-> m, cleared |-> 0, at |-> "clear"]]
<1>1. /\ new \in Seq(MakingJobs)
      /\ \A i \in DOMAIN new : new[i].at = "clear"
  <2>1. \A i \in DOMAIN kinds : kinds[i] \in Kinds
    OBVIOUS
  <2>2. \A i \in DOMAIN new : new[i] \in MakingJobs /\ new[i].at = "clear"
    BY <2>1 DEF MakingJobs
  <2>3. DOMAIN new = 1..Len(kinds) /\ Len(kinds) \in Nat
    OBVIOUS
  <2> HIDE DEF new
  <2>4. new = [i \in 1..Len(kinds) |-> new[i]]
    BY <2>3 DEF new
  <2> QED
    BY <2>2, <2>3, <2>4
<1>2. making \in Seq(MakingJobs)
  BY DEF AuthTypeOK
<1>3. making' = making \o new
  BY DEF MakeLinks
<1> HIDE DEF new
<1> QED
  BY <1>1, <1>2, <1>3

LEMMA AccountType ==
  ASSUME AuthTypeOK, NEW m \in Members, AccountStep(m)
  PROVE  AuthTypeOK'
<1> USE DEF AuthTypeOK
<1>0. /\ members[m] \in MemberDocs
      /\ NoMember \in MemberDocs
      /\ \A p \in Passwords : HashOf(p) \in Stored /\ HashOf(p).how # "unselected"
  <2>1. NoMember \in MemberDocs
    BY IdleSignType DEF IdleSign, SignJobs
  <2> QED
    BY <2>1 DEF HashOf, Stored
<1>1. ASSUME NEW e \in Emails, NEW p \in Passwords, Register(m, e, p)
      PROVE  AuthTypeOK'
  <2>1. making' \in Seq(MakingJobs)
    <3>1. <<"magic", "verify">> \in Seq(Kinds)
      BY DEF Kinds
    <3> QED
      BY <1>1, <3>1, MakeLinksType DEF Register
  <2>2. [NoMember EXCEPT !.exists = TRUE, !.email = e, !.password = HashOf(p)]
          \in MemberDocs
    BY <1>0 DEF MemberDocs
  <2>3. [NoMember EXCEPT !.exists = TRUE, !.email = e, !.password = HashOf(p)].password
          = HashOf(p)
    BY DEF NoMember
  <2>4. /\ members' \in [Members -> MemberDocs]
        /\ \A n \in Members : members'[n].password.how # "unselected"
    BY <1>0, <1>1, <2>2, <2>3 DEF Register
  <2> QED
    BY <1>1, <2>1, <2>4 DEF Register
<1>2. ASSUME NEW kind \in Kinds, AskForLink(m, kind)
      PROVE  AuthTypeOK'
  <2>1. making' \in Seq(MakingJobs)
    <3>1. <<kind>> \in Seq(Kinds)
      OBVIOUS
    <3> QED
      BY <1>2, <3>1, MakeLinksType DEF AskForLink
  <2> QED
    BY <1>2, <2>1 DEF AskForLink
<1>3. ASSUME NEW c \in MemberPatches, Update(m, c)
      PROVE  AuthTypeOK'
  <2>1. /\ c.doc \in MemberDocs
        /\ [how |-> "plain", text |-> c.doc.password.text] \in Stored
    <3>1. c.doc \in MemberDocs
      BY AuthAssumption
    <3> QED
      BY <3>1 DEF MemberDocs, Stored
  <2> DEFINE d ==
        [members[m] EXCEPT
         !.email    = IF "email" \in c.sets THEN c.doc.email ELSE members[m].email,
         !.password = IF "password" \in c.sets
                        THEN [how |-> "plain", text |-> c.doc.password.text]
                        ELSE members[m].password,
         !.verified = IF "verified" \in c.sets THEN c.doc.verified ELSE members[m].verified,
         !.banned   = IF "banned" \in c.sets THEN c.doc.banned ELSE members[m].banned,
         !.deleted  = IF "deleted" \in c.sets THEN c.doc.deleted ELSE members[m].deleted]
  <2>2. d \in MemberDocs /\ d.password.how # "unselected"
    <3>1. members[m].password.how # "unselected"
      OBVIOUS
    <3> QED
      BY <1>0, <2>1, <3>1 DEF MemberDocs
  <2>3. members' = [members EXCEPT ![m] = d]
    BY <1>3 DEF Update
  <2> HIDE DEF d
  <2>4. /\ members' \in [Members -> MemberDocs]
        /\ \A n \in Members : members'[n].password.how # "unselected"
    BY <2>2, <2>3
  <2> QED
    BY <1>3, <2>4 DEF Update
<1>4. CASE SetFlag(m)
  <2>1. /\ members' \in [Members -> MemberDocs]
        /\ \A n \in Members : members'[n].password = members[n].password
    <3>1. members[m].banned \in BOOLEAN
      BY <1>0 DEF MemberDocs
    <3>2. CASE members' = [members EXCEPT ![m].deleted = TRUE]
      BY <1>0, <3>2 DEF MemberDocs
    <3>3. CASE members' = [members EXCEPT ![m].banned = ~ @]
      BY <1>0, <3>1, <3>3 DEF MemberDocs
    <3>4. CASE members' = [members EXCEPT ![m].verified = TRUE]
      BY <1>0, <3>4 DEF MemberDocs
    <3> QED
      BY <1>4, <3>2, <3>3, <3>4 DEF SetFlag
  <2> QED
    BY <1>4, <2>1 DEF SetFlag
<1>5. ASSUME NEW e \in Emails, NEW p \in Passwords, NEW devMode \in BOOLEAN,
             NEW extra \in BOOLEAN, SeedAccount(m, e, p, devMode, extra)
      PROVE  AuthTypeOK'
  <2>1. ASSUME NEW d \in MemberDocs, d.password.how # "unselected",
               members' = [members EXCEPT ![m] = d]
        PROVE  /\ members' \in [Members -> MemberDocs]
               /\ \A n \in Members : members'[n].password.how # "unselected"
    BY <2>1
  <2>2. CASE members' = [members EXCEPT ![m] =
             [NoMember EXCEPT !.exists = TRUE, !.email = e,
                              !.password = HashOf(p), !.verified = TRUE]]
    <3>1. /\ [NoMember EXCEPT !.exists = TRUE, !.email = e, !.password = HashOf(p),
                              !.verified = TRUE] \in MemberDocs
          /\ [NoMember EXCEPT !.exists = TRUE, !.email = e, !.password = HashOf(p),
                              !.verified = TRUE].password = HashOf(p)
      BY <1>0 DEF MemberDocs
    <3> QED
      BY <1>0, <1>5, <2>1, <2>2, <3>1 DEF SeedAccount
  <2>3. CASE members' = [members EXCEPT ![m].password = HashOf(p),
                                        ![m].verified = @ \/ extra]
    <3>1. members' = [members EXCEPT ![m] =
                        [members[m] EXCEPT !.password = HashOf(p),
                                           !.verified = members[m].verified \/ extra]]
      BY <1>0, <2>3
    <3>2. members[m].verified \/ extra \in BOOLEAN
      BY <1>0 DEF MemberDocs
    <3>3. /\ [members[m] EXCEPT !.password = HashOf(p),
                                !.verified = members[m].verified \/ extra] \in MemberDocs
          /\ [members[m] EXCEPT !.password = HashOf(p),
                !.verified = members[m].verified \/ extra].password = HashOf(p)
      BY <1>0, <3>2 DEF MemberDocs
    <3> QED
      BY <1>0, <1>5, <2>1, <3>1, <3>3 DEF SeedAccount
  <2> QED
    BY <1>5, <2>2, <2>3 DEF SeedAccount
<1> QED
  BY <1>1, <1>2, <1>3, <1>4, <1>5 DEF AccountStep

LEMMA AuthTypeStep ==
  ASSUME AuthTypeOK, Linked, [AuthNext]_authVars
  PROVE  AuthTypeOK'
<1>1. ASSUME NEW k \in DOMAIN links, ExpireLink(k)
      PROVE  AuthTypeOK'
  <2>1. links[k] \in LinkDocs /\ links \in Seq(LinkDocs)
    BY DEF AuthTypeOK
  <2>2. [links[k] EXCEPT !.expired = TRUE] \in LinkDocs
    BY <2>1 DEF LinkDocs
  <2>3. links' = [links EXCEPT ![k] = [links[k] EXCEPT !.expired = TRUE]]
    BY <1>1 DEF ExpireLink
  <2>4. links' \in Seq(LinkDocs)
    BY <2>1, <2>2, <2>3, PutSeq
  <2> QED
    BY <1>1, <2>4 DEF ExpireLink, AuthTypeOK
<1>2. CASE UNCHANGED authVars
  BY <1>2 DEF authVars, AuthTypeOK
<1> QED
  BY <1>1, <1>2, MakingType, FollowType, SignInType, AccountType DEF AuthNext

-----------------------------------------------------------------------------
(***************************************************************************)
(* What has been made of a link is never undone, and links are only added. *)
(***************************************************************************)
LinksKept ==
  /\ Len(links') \in Nat /\ Len(links) <= Len(links')
  /\ \A k \in DOMAIN links :
       /\ k \in DOMAIN links'
       /\ links'[k].kind = links[k].kind /\ links'[k].member = links[k].member
       /\ links'[k].cleared = links[k].cleared
       /\ links[k].deleted => links'[k].deleted
       /\ links[k].used => links'[k].used
       /\ links[k].expired => links'[k].expired
       /\ links[k].acted => links'[k].acted

(* One link is changed.                                                    *)
LEMMA PutKept ==
  ASSUME AuthTypeOK, NEW k \in DOMAIN links, NEW d \in LinkDocs,
         links' = [links EXCEPT ![k] = d],
         d.kind = links[k].kind, d.member = links[k].member,
         d.cleared = links[k].cleared,
         links[k].deleted => d.deleted, links[k].used => d.used,
         links[k].expired => d.expired, links[k].acted => d.acted
  PROVE  /\ LinksKept
         /\ DOMAIN links' = DOMAIN links
         /\ links'[k] = d
         /\ \A n \in DOMAIN links : n # k => links'[n] = links[n]
<1>1. links \in Seq(LinkDocs)
  BY DEF AuthTypeOK
<1>2. /\ Len(links') = Len(links) /\ Len(links) \in Nat
      /\ DOMAIN links' = DOMAIN links
  BY <1>1, PutSeq
<1>3. links'[k] = d /\ \A n \in DOMAIN links : n # k => links'[n] = links[n]
  BY <1>1
<1> QED
  BY <1>2, <1>3 DEF LinksKept

(* What the steps that change links make of them.                          *)
LEMMA ClearStep ==
  ASSUME AuthTypeOK, NEW i \in DOMAIN making, ClearLinks(i)
  PROVE  /\ LinksKept /\ DOMAIN links' = DOMAIN links /\ Len(links') = Len(links)
         /\ \A k \in DOMAIN links :
              /\ links'[k].used = links[k].used
              /\ links'[k].deleted <=>
                   \/ links[k].deleted
                   \/ /\ links[k].kind = making[i].kind
                      /\ links[k].member = making[i].member
<1>1. links \in Seq(LinkDocs) /\ \A k \in DOMAIN links : links[k] \in LinkDocs
  BY DEF AuthTypeOK
<1>2. links' = [k \in DOMAIN links |->
         [links[k] EXCEPT !.deleted =
            @ \/ (links[k].kind = making[i].kind /\ links[k].member = making[i].member)]]
  BY DEF ClearLinks
<1>3. DOMAIN links' = DOMAIN links
  BY <1>2
<1>4. ASSUME NEW k \in DOMAIN links
      PROVE  /\ links'[k].kind = links[k].kind /\ links'[k].member = links[k].member
             /\ links'[k].cleared = links[k].cleared
             /\ links'[k].used = links[k].used
             /\ links'[k].expired = links[k].expired
             /\ links'[k].acted = links[k].acted
  <2>1. links[k] \in LinkDocs
    BY <1>1
  <2> QED
    BY <1>2, <2>1 DEF LinkDocs
<1>5. ASSUME NEW k \in DOMAIN links
      PROVE  links'[k].deleted <=>
                   \/ links[k].deleted
                   \/ /\ links[k].kind = making[i].kind
                      /\ links[k].member = making[i].member
  <2>1. DOMAIN links[k] = {"kind", "member", "cleared", "deleted", "used",
                           "expired", "acted"}
    BY <1>1, <1>5 DEF LinkDocs
  <2>2. links'[k] = [links[k] EXCEPT !.deleted =
            @ \/ (links[k].kind = making[i].kind /\ links[k].member = making[i].member)]
    BY <1>2, <1>5
  <2> QED
    BY <2>1, <2>2, Zenon
<1>6. Len(links') = Len(links) /\ Len(links) \in Nat
  <2>1. AuthTypeOK'
    BY MakingType
  <2>2. links' \in Seq(LinkDocs)
    BY <2>1 DEF AuthTypeOK
  <2> QED
    BY <1>1, <1>3, <2>2
<1> QED
  BY <1>3, <1>4, <1>5, <1>6 DEF LinksKept

LEMMA InsertStep ==
  ASSUME AuthTypeOK, NEW i \in DOMAIN making, InsertLink(i)
  PROVE  /\ LinksKept
         /\ DOMAIN links' = DOMAIN links \cup {Len(links) + 1}
         /\ \A k \in DOMAIN links : links'[k] = links[k] /\ k <= Len(links)
         /\ links'[Len(links) + 1] =
              [kind |-> making[i].kind, member |-> making[i].member,
               cleared |-> making[i].cleared, deleted |-> FALSE, used |-> FALSE,
               expired |-> FALSE, acted |-> FALSE]
<1>1. links \in Seq(LinkDocs)
  BY DEF AuthTypeOK
<1> DEFINE new == [kind |-> making[i].kind, member |-> making[i].member,
               cleared |-> making[i].cleared, deleted |-> FALSE, used |-> FALSE,
               expired |-> FALSE, acted |-> FALSE]
<1>2. links' = Append(links, new)
  BY DEF InsertLink
<1> HIDE DEF new
<1>3. /\ Len(links) \in Nat /\ Len(links') = Len(links) + 1
      /\ DOMAIN links' = DOMAIN links \cup {Len(links) + 1}
      /\ \A k \in DOMAIN links : links'[k] = links[k] /\ k <= Len(links)
      /\ links'[Len(links) + 1] = new
  BY <1>1, <1>2
<1> QED
  BY <1>3 DEF LinksKept, new

LEMMA ExpireStep ==
  ASSUME AuthTypeOK, NEW k \in DOMAIN links, ExpireLink(k)
  PROVE  /\ LinksKept /\ DOMAIN links' = DOMAIN links
         /\ \A n \in DOMAIN links : links'[n].used = links[n].used
<1>1. links[k] \in LinkDocs
  BY DEF AuthTypeOK
<1>2. links' = [links EXCEPT ![k] = [links[k] EXCEPT !.expired = TRUE]]
  BY DEF ExpireLink
<1>3. [links[k] EXCEPT !.expired = TRUE] \in LinkDocs
  BY <1>1 DEF LinkDocs
<1> DEFINE d == [links[k] EXCEPT !.expired = TRUE]
<1>4. /\ d.kind = links[k].kind /\ d.member = links[k].member
      /\ d.cleared = links[k].cleared /\ d.deleted = links[k].deleted
      /\ d.used = links[k].used /\ d.acted = links[k].acted /\ d.expired
  BY <1>1 DEF LinkDocs
<1> HIDE DEF d
<1>5. links' = [links EXCEPT ![k] = d] /\ d \in LinkDocs
  BY <1>2, <1>3 DEF d
<1> QED
  BY <1>4, <1>5, PutKept

LEMMA ActStep ==
  ASSUME AuthTypeOK, Linked, NEW s \in SignSlots, ActOnMember(s)
  PROVE  /\ signJob[s].link \in DOMAIN links
         /\ LinksKept /\ DOMAIN links' = DOMAIN links
         /\ links'[signJob[s].link].acted
         /\ \A n \in DOMAIN links : links'[n].used = links[n].used
<1> DEFINE k == signJob[s].link
           d == [links[k] EXCEPT !.acted = TRUE]
<1>1. k \in DOMAIN links
  BY DEF ActOnMember, Linked
<1>2. links[k] \in LinkDocs
  BY <1>1 DEF AuthTypeOK
<1>3. d \in LinkDocs
  BY <1>2 DEF LinkDocs
<1>4. /\ d.kind = links[k].kind /\ d.member = links[k].member
      /\ d.cleared = links[k].cleared /\ d.deleted = links[k].deleted
      /\ d.used = links[k].used /\ d.expired = links[k].expired /\ d.acted
  BY <1>2 DEF LinkDocs
<1>5. links' = [links EXCEPT ![k] = d]
  BY <1>1 DEF ActOnMember
<1> HIDE DEF d
<1> QED
  BY <1>1, <1>3, <1>4, <1>5, PutKept

LEMMA MarkStep ==
  ASSUME AuthTypeOK, Linked, NEW s \in SignSlots, MarkLink(s)
  PROVE  /\ signJob[s].link \in DOMAIN links
         /\ LinksKept /\ DOMAIN links' = DOMAIN links
         /\ \A n \in DOMAIN links :
              n # signJob[s].link => links'[n] = links[n]
<1> DEFINE k == signJob[s].link
           d == [links[k] EXCEPT !.used = @ \/ ~ links[k].deleted]
<1>1. k \in DOMAIN links
  BY DEF MarkLink, Linked
<1>2. links[k] \in LinkDocs
  BY <1>1 DEF AuthTypeOK
<1>3. d \in LinkDocs
  BY <1>2, Zenon DEF LinkDocs
<1>4. /\ d.kind = links[k].kind /\ d.member = links[k].member
      /\ d.cleared = links[k].cleared /\ d.deleted = links[k].deleted
      /\ d.expired = links[k].expired /\ d.acted = links[k].acted
  BY <1>2 DEF LinkDocs
<1>5. links[k].used => d.used
  <2>1. DOMAIN links[k] = {"kind", "member", "cleared", "deleted", "used",
                           "expired", "acted"}
    BY <1>2 DEF LinkDocs
  <2> QED
    BY <2>1, Zenon
<1>6. links' = [links EXCEPT ![k] = d]
  BY <1>1 DEF MarkLink
<1> HIDE DEF d
<1> QED
  BY <1>1, <1>3, <1>4, <1>5, <1>6, PutKept

-----------------------------------------------------------------------------
(***************************************************************************)
(* A link that is used has acted.  This is not inductive alone: a request  *)
(* about to mark a reset or verification link has to have acted already.   *)
(***************************************************************************)
MarkedLater ==
  \A s \in SignSlots :
    signPc[s] = "mark" /\ links[signJob[s].link].kind # "magic"
    => links[signJob[s].link].acted

UsedInv == AuthTypeOK /\ Linked /\ MarkedLater /\ UsedHasActed

(* Steps that leave the requests alone, or end one outside a link.         *)
LEMMA UsedElsewhere ==
  ASSUME UsedInv, LinksKept,
         \A k \in DOMAIN links' :
           links'[k].used => k \in DOMAIN links /\ links[k].used,
         \A s \in SignSlots :
           signPc'[s] \in {"found", "act", "mark", "again"}
           => signPc'[s] = signPc[s] /\ signJob'[s] = signJob[s]
  PROVE  Linked' /\ MarkedLater' /\ UsedHasActed'
<1>1. Linked'
  BY DEF UsedInv, Linked, LinksKept
<1>2. MarkedLater'
  <2> SUFFICES ASSUME NEW s \in SignSlots, signPc'[s] = "mark",
                      links'[signJob'[s].link].kind # "magic"
               PROVE  links'[signJob'[s].link].acted
    BY DEF MarkedLater
  <2>1. signPc[s] = "mark" /\ signJob'[s] = signJob[s]
    OBVIOUS
  <2>2. signJob[s].link \in DOMAIN links
    BY <2>1 DEF UsedInv, Linked
  <2> QED
    BY <2>1, <2>2 DEF UsedInv, MarkedLater, LinksKept
<1>3. UsedHasActed'
  <2> SUFFICES ASSUME NEW k \in DOMAIN links', links'[k].used, links'[k].kind # "magic"
               PROVE  links'[k].acted
    BY DEF UsedHasActed
  <2>1. k \in DOMAIN links /\ links[k].used
    OBVIOUS
  <2> QED
    BY <2>1 DEF UsedInv, UsedHasActed, LinksKept
<1> QED
  BY <1>1, <1>2, <1>3

LEMMA SameLinks ==
  ASSUME AuthTypeOK, UNCHANGED links
  PROVE  LinksKept
<1>1. Len(links) \in Nat
  BY DEF AuthTypeOK
<1> QED
  BY <1>1 DEF LinksKept

LEMMA UsedFollow ==
  ASSUME UsedInv, NEW s \in SignSlots, FollowLink(s)
  PROVE  Linked' /\ MarkedLater' /\ UsedHasActed'
<1>0. /\ signPc \in [SignSlots -> SignPCs] /\ signJob \in [SignSlots -> SignJobs]
      /\ AuthTypeOK /\ Linked
  BY DEF UsedInv, AuthTypeOK
<1>1. ASSUME NEW k \in DOMAIN links, NEW p \in Passwords, FindLink(s, k, p)
      PROVE  Linked' /\ MarkedLater' /\ UsedHasActed'
  <2>1. /\ UNCHANGED links
        /\ signPc' = [signPc EXCEPT ![s] = "found"]
        /\ signJob' = [signJob EXCEPT ![s] =
             [IdleSign EXCEPT !.link = k, !.member = links[k].member, !.new = p]]
    BY <1>1 DEF FindLink, Start, SignGoto
  <2>2. signJob'[s].link = k
    BY <1>0, <2>1, IdleSignType DEF SignJobs
  <2> QED
    BY <1>0, <2>1, <2>2 DEF UsedInv, Linked, MarkedLater, UsedHasActed
<1>2. CASE FindHolder(s)
  <2>1. /\ UNCHANGED links /\ signPc[s] = "found"
        /\ \A t \in SignSlots : signJob'[t].link = signJob[t].link
        /\ \A t \in SignSlots \ {s} : signPc'[t] = signPc[t]
        /\ signPc'[s] = "mark" => links[signJob[s].link].kind = "magic"
    <3>1. signJob[s] \in SignJobs
      BY <1>0
    <3> QED
      BY <1>0, <1>2, <3>1 DEF FindHolder, SignGoto, SignJobs
  <2> QED
    BY <2>1 DEF UsedInv, Linked, MarkedLater, UsedHasActed
<1>3. CASE ActOnMember(s)
  <2>1. /\ signJob' = signJob /\ signPc[s] = "act"
        /\ \A t \in SignSlots \ {s} : signPc'[t] = signPc[t]
    BY <1>0, <1>3 DEF ActOnMember, SignGoto
  <2>2. /\ signJob[s].link \in DOMAIN links
        /\ LinksKept /\ DOMAIN links' = DOMAIN links
        /\ links'[signJob[s].link].acted
        /\ \A n \in DOMAIN links : links'[n].used = links[n].used
    BY <1>0, <1>3, ActStep
  <2>3. Linked'
    BY <2>1, <2>2 DEF UsedInv, Linked
  <2>4. MarkedLater'
    <3> SUFFICES ASSUME NEW t \in SignSlots, signPc'[t] = "mark",
                        links'[signJob[t].link].kind # "magic"
                 PROVE  links'[signJob[t].link].acted
      BY <2>1 DEF MarkedLater
    <3>1. CASE t = s
      BY <2>2, <3>1
    <3>2. CASE t # s
      BY <2>1, <2>2, <3>2 DEF UsedInv, Linked, MarkedLater, LinksKept
    <3> QED
      BY <3>1, <3>2
  <2>5. UsedHasActed'
    BY <2>2 DEF UsedInv, UsedHasActed, LinksKept
  <2> QED
    BY <2>3, <2>4, <2>5
<1>4. CASE MarkLink(s)
  <2>1. /\ signJob' = signJob /\ signPc[s] = "mark"
        /\ \A t \in SignSlots \ {s} : signPc'[t] = signPc[t]
        /\ signPc'[s] # "mark"
    BY <1>0, <1>4 DEF MarkLink, SignGoto
  <2>2. /\ signJob[s].link \in DOMAIN links
        /\ LinksKept /\ DOMAIN links' = DOMAIN links
        /\ \A n \in DOMAIN links : n # signJob[s].link => links'[n] = links[n]
    BY <1>0, <1>4, MarkStep
  <2>3. Linked'
    BY <2>1, <2>2 DEF UsedInv, Linked
  <2>4. MarkedLater'
    BY <2>1, <2>2 DEF UsedInv, Linked, MarkedLater, LinksKept
  <2>5. UsedHasActed'
    <3> SUFFICES ASSUME NEW k \in DOMAIN links', links'[k].used, links'[k].kind # "magic"
                 PROVE  links'[k].acted
      BY DEF UsedHasActed
    <3>1. CASE k = signJob[s].link
      BY <2>1, <2>2, <3>1 DEF UsedInv, MarkedLater, LinksKept
    <3>2. CASE k # signJob[s].link
      BY <2>2, <3>2 DEF UsedInv, UsedHasActed
    <3> QED
      BY <3>1, <3>2
  <2> QED
    BY <2>3, <2>4, <2>5
<1>5. CASE FindAgain(s)
  <2>1. /\ UNCHANGED <<links, signJob>> /\ signPc[s] = "again"
        /\ \A t \in SignSlots \ {s} : signPc'[t] = signPc[t]
        /\ signPc'[s] # "mark"
    BY <1>0, <1>5 DEF FindAgain, SignGoto
  <2> QED
    BY <2>1 DEF UsedInv, Linked, MarkedLater, UsedHasActed
<1> QED
  BY <1>1, <1>2, <1>3, <1>4, <1>5 DEF FollowLink

LEMMA UsedStep ==
  ASSUME UsedInv, [AuthNext]_authVars
  PROVE  UsedInv'
<1>0. /\ AuthTypeOK /\ Linked
      /\ signPc \in [SignSlots -> SignPCs] /\ signJob \in [SignSlots -> SignJobs]
  BY DEF UsedInv, AuthTypeOK
<1>1. AuthTypeOK'
  BY <1>0, AuthTypeStep
<1>2. ASSUME NEW s \in SignSlots, SignIn(s)
      PROVE  Linked' /\ MarkedLater' /\ UsedHasActed'
  <2>1. UNCHANGED links
    BY <1>2 DEF SignIn, LogIn, Refresh, FindOwnAccount, ComparePassword, IssueTokens
  <2>2. \A t \in SignSlots :
          signPc'[t] \in {"found", "act", "mark", "again"}
          => signPc'[t] = signPc[t] /\ signJob'[t] = signJob[t]
    BY <1>0, <1>2
    DEF SignIn, LogIn, Refresh, FindOwnAccount, ComparePassword, IssueTokens, Start, SignGoto
  <2>3. LinksKept
    BY <1>0, <2>1, SameLinks
  <2> QED
    BY <2>1, <2>2, <2>3, UsedElsewhere
<1>3. ASSUME UNCHANGED <<signPc, signJob>>, LinksKept,
             \A k \in DOMAIN links' :
               links'[k].used => k \in DOMAIN links /\ links[k].used
      PROVE  Linked' /\ MarkedLater' /\ UsedHasActed'
  BY <1>3, UsedElsewhere
<1>4. ASSUME NEW m \in Members, AccountStep(m)
      PROVE  Linked' /\ MarkedLater' /\ UsedHasActed'
  <2>1. UNCHANGED <<links, signPc, signJob>>
    BY <1>4 DEF AccountStep, Register, AskForLink, Update, SetFlag, SeedAccount
  <2> QED
    BY <1>0, <1>3, <2>1, SameLinks
<1>5. ASSUME NEW i \in DOMAIN making, ClearLinks(i) \/ InsertLink(i)
      PROVE  Linked' /\ MarkedLater' /\ UsedHasActed'
  <2>1. UNCHANGED <<signPc, signJob>>
    BY <1>5 DEF ClearLinks, InsertLink
  <2>2. CASE ClearLinks(i)
    BY <1>0, <1>3, <2>1, <2>2, ClearStep
  <2>3. CASE InsertLink(i)
    <3>1. /\ LinksKept
          /\ DOMAIN links' = DOMAIN links \cup {Len(links) + 1}
          /\ \A k \in DOMAIN links : links'[k] = links[k]
          /\ links'[Len(links) + 1] =
              [kind |-> making[i].kind, member |-> making[i].member,
               cleared |-> making[i].cleared, deleted |-> FALSE, used |-> FALSE,
               expired |-> FALSE, acted |-> FALSE]
      BY <1>0, <2>3, InsertStep
    <3>2. ~ links'[Len(links) + 1].used
      BY <3>1
    <3> QED
      BY <1>3, <2>1, <3>1, <3>2
  <2> QED
    BY <1>5, <2>2, <2>3
<1>6. ASSUME NEW k \in DOMAIN links, ExpireLink(k)
      PROVE  Linked' /\ MarkedLater' /\ UsedHasActed'
  <2>1. UNCHANGED <<signPc, signJob>>
    BY <1>6 DEF ExpireLink
  <2> QED
    BY <1>0, <1>3, <1>6, <2>1, ExpireStep
<1>7. ASSUME UNCHANGED authVars
      PROVE  Linked' /\ MarkedLater' /\ UsedHasActed'
  <2>1. UNCHANGED <<links, signPc, signJob>>
    BY <1>7 DEF authVars
  <2>2. LinksKept
    BY <1>0, <2>1, SameLinks
  <2>3. \A k \in DOMAIN links' :
          links'[k].used => k \in DOMAIN links /\ links[k].used
    BY <2>1
  <2> QED
    BY <1>3, <2>1, <2>2, <2>3
<1>8. ASSUME NEW s \in SignSlots, FollowLink(s)
      PROVE  Linked' /\ MarkedLater' /\ UsedHasActed'
  BY <1>8, UsedFollow
<1>9. Linked' /\ MarkedLater' /\ UsedHasActed'
  <2>1. CASE AuthNext
    <3>1. CASE \E s \in SignSlots : FollowLink(s) \/ SignIn(s)
      BY <1>2, <1>8, <3>1
    <3>2. CASE \E m \in Members : AccountStep(m)
      BY <1>4, <3>2
    <3>3. CASE \E i \in DOMAIN making : ClearLinks(i) \/ InsertLink(i)
      BY <1>5, <3>3
    <3>4. CASE \E k \in DOMAIN links : ExpireLink(k)
      BY <1>6, <3>4
    <3> QED
      BY <2>1, <3>1, <3>2, <3>3, <3>4 DEF AuthNext
  <2> QED
    BY <1>7, <2>1
<1> QED
  BY <1>1, <1>9 DEF UsedInv

LEMMA UsedInit == AuthInit => UsedInv
  BY AuthTypeInit DEF AuthInit, UsedInv, Linked, MarkedLater, UsedHasActed

(* The collections and the requests keep their types: a password is never  *)
(* stored as what select: false leaves of one.                             *)
THEOREM AuthTypeCorrect == AuthSpec => []AuthTypeOK
<1>1. UsedInv => AuthTypeOK
  BY DEF UsedInv
<1> QED
  BY <1>1, UsedInit, UsedStep, PTL DEF AuthSpec

-----------------------------------------------------------------------------
(***************************************************************************)
(* A link that has worked works no more.  The inductive invariant covers   *)
(* the whole of a request that has marked its link, an account it still    *)
(* has to verify included.                                                 *)
(***************************************************************************)
HasMarked(s) ==
  \/ signPc[s] \in {"again", "sign", "done"}
  \/ signPc[s] = "act" /\ links[signJob[s].link].kind = "magic"

Spent(k) == k \in DOMAIN links /\ ~ Usable(k)

SpentInv ==
  /\ UsedInv
  /\ \A s \in SignSlots :
       /\ HasMarked(s) /\ signJob[s].link # 0 => Spent(signJob[s].link)
       /\ signPc[s] = "compare" => signJob[s].link = 0

LEMMA SpentForGood ==
  ASSUME LinksKept, NEW k, Spent(k)
  PROVE  Spent(k)'
BY DEF LinksKept, Spent, Usable

(* A slot that stays where it is.                                          *)
LEMMA SpentStays ==
  ASSUME SpentInv, LinksKept, NEW s \in SignSlots,
         signPc'[s] = signPc[s], signJob'[s].link = signJob[s].link,
         HasMarked(s)', signJob'[s].link # 0
  PROVE  Spent(signJob[s].link)'
<1>1. HasMarked(s)
  <2>1. CASE signPc[s] = "act"
    <3>1. signJob[s].link \in DOMAIN links
      BY <2>1 DEF SpentInv, UsedInv, Linked
    <3> QED
      BY <2>1, <3>1 DEF HasMarked, LinksKept
  <2>2. CASE signPc[s] # "act"
    BY <2>2 DEF HasMarked
  <2> QED
    BY <2>1, <2>2
<1> QED
  BY <1>1, SpentForGood DEF SpentInv

(* What a mark leaves of the link.                                         *)
LEMMA MarkSpends ==
  ASSUME AuthTypeOK, Linked, NEW s \in SignSlots, MarkLink(s)
  PROVE  Spent(signJob[s].link)'
<1> DEFINE k == signJob[s].link
           d == [links[k] EXCEPT !.used = @ \/ ~ links[k].deleted]
<1>1. k \in DOMAIN links /\ links[k] \in LinkDocs /\ DOMAIN links' = DOMAIN links
      /\ signJob' = signJob
  BY MarkStep DEF MarkLink, Linked, AuthTypeOK
<1>2. links' = [links EXCEPT ![k] = d]
  BY <1>1 DEF MarkLink
<1>3. d.used \/ d.deleted
  <2>1. DOMAIN links[k] = {"kind", "member", "cleared", "deleted", "used",
                           "expired", "acted"}
    BY <1>1 DEF LinkDocs
  <2>2. d.used = (links[k].used \/ ~ links[k].deleted)
    BY <2>1, Zenon
  <2>3. d.deleted = links[k].deleted
    BY <2>1, Zenon
  <2> QED
    BY <2>2, <2>3
<1> HIDE DEF d
<1>4. links'[k] = d
  BY <1>1, <1>2
<1> QED
  BY <1>1, <1>3, <1>4 DEF Spent, Usable

(* The slot of a request that takes a step.                                *)
LEMMA SpentFollow ==
  ASSUME SpentInv, LinksKept, NEW s \in SignSlots, FollowLink(s), HasMarked(s)',
         signJob'[s].link # 0
  PROVE  Spent(signJob[s].link)' /\ signJob' = signJob
<1>0. /\ signPc \in [SignSlots -> SignPCs] /\ signJob \in [SignSlots -> SignJobs]
      /\ AuthTypeOK /\ Linked
      /\ HasMarked(s) /\ signJob[s].link # 0 => Spent(signJob[s].link)
  BY DEF SpentInv, UsedInv, AuthTypeOK
<1>1. ASSUME NEW k \in DOMAIN links, NEW p \in Passwords, FindLink(s, k, p)
      PROVE  FALSE
  BY <1>0, <1>1 DEF FindLink, Start, SignGoto, HasMarked
<1>2. ASSUME FindHolder(s) PROVE FALSE
  <2>1. signJob'[s].link = signJob[s].link
    <3>1. signJob[s] \in SignJobs
      BY <1>0
    <3> QED
      BY <1>0, <1>2, <3>1 DEF FindHolder, SignJobs
  <2>2. links' = links
    BY <1>2 DEF FindHolder
  <2> QED
    BY <1>0, <1>2, <2>1, <2>2 DEF FindHolder, SignGoto, HasMarked
<1>3. CASE ActOnMember(s)
  <2>1. signJob' = signJob /\ signPc[s] = "act"
    BY <1>3 DEF ActOnMember
  <2>2. links[signJob[s].link].kind = "magic"
    BY <1>0, <1>3 DEF ActOnMember, SignGoto, HasMarked
  <2>3. Spent(signJob[s].link)
    BY <1>0, <2>1, <2>2 DEF HasMarked
  <2> QED
    BY <2>1, <2>3, SpentForGood
<1>4. CASE MarkLink(s)
  BY <1>0, <1>4, MarkSpends DEF MarkLink
<1>5. CASE FindAgain(s)
  <2>1. signJob' = signJob /\ HasMarked(s)
    BY <1>5 DEF FindAgain, HasMarked
  <2> QED
    BY <1>0, <2>1, SpentForGood
<1> QED
  BY <1>1, <1>2, <1>3, <1>4, <1>5 DEF FollowLink

(* A request that follows no link has none.                                *)
LEMMA SpentSignIn ==
  ASSUME SpentInv, NEW s \in SignSlots, SignIn(s)
  PROVE  signJob'[s].link = 0 \/ (signJob'[s] = signJob[s] /\ HasMarked(s))
<1>0. signPc \in [SignSlots -> SignPCs] /\ signJob \in [SignSlots -> SignJobs]
      /\ (signPc[s] = "compare" => signJob[s].link = 0)
  BY DEF SpentInv, UsedInv, AuthTypeOK
<1>1. ASSUME NEW m \in Members, NEW p \in Passwords, LogIn(s, m, p)
      PROVE  signJob'[s].link = 0
  BY <1>0, <1>1 DEF LogIn, Start, IdleSign
<1>2. ASSUME NEW m \in Members, Refresh(s, m)
      PROVE  signJob'[s].link = 0
  BY <1>0, <1>2 DEF Refresh, Start, IdleSign
<1>3. ASSUME NEW m \in Members, NEW given \in Passwords, NEW new \in Passwords,
             FindOwnAccount(s, m, given, new)
      PROVE  signJob'[s].link = 0
  BY <1>0, <1>3 DEF FindOwnAccount, Start, IdleSign
<1>4. CASE IssueTokens(s)
  BY <1>4 DEF IssueTokens, HasMarked
<1>5. CASE ComparePassword(s)
  BY <1>0, <1>5 DEF ComparePassword
<1> QED
  BY <1>1, <1>2, <1>3, <1>4, <1>5 DEF SignIn

(* What a step leaves of the slots it is not a step of.                    *)
OthersStay(s) ==
  \A t \in SignSlots \ {s} : signPc'[t] = signPc[t] /\ signJob'[t] = signJob[t]

LEMMA SlotsApart ==
  ASSUME AuthTypeOK, NEW s \in SignSlots, FollowLink(s) \/ SignIn(s)
  PROVE  OthersStay(s)
<1>1. signPc \in [SignSlots -> SignPCs] /\ signJob \in [SignSlots -> SignJobs]
  BY DEF AuthTypeOK
<1>2. CASE FollowLink(s)
  BY <1>1, <1>2 DEF FollowLink, FindLink, FindHolder, ActOnMember, MarkLink, FindAgain,
                    Start, SignGoto, OthersStay
<1>3. CASE SignIn(s)
  BY <1>1, <1>3 DEF SignIn, LogIn, Refresh, FindOwnAccount, ComparePassword, IssueTokens,
                    Start, SignGoto, OthersStay
<1> QED
  BY <1>2, <1>3

(* Links are kept by every step.                                           *)
LEMMA AllKept ==
  ASSUME UsedInv, AuthNext
  PROVE  LinksKept
<1>0. AuthTypeOK /\ Linked
  BY DEF UsedInv
<1>1. ASSUME NEW s \in SignSlots, FollowLink(s) PROVE LinksKept
  <2>1. CASE ActOnMember(s)
    BY <1>0, <2>1, ActStep
  <2>2. CASE MarkLink(s)
    BY <1>0, <2>2, MarkStep
  <2>3. CASE UNCHANGED links
    BY <1>0, <2>3, SameLinks
  <2> QED
    BY <1>1, <2>1, <2>2, <2>3 DEF FollowLink, FindLink, FindHolder, FindAgain
<1>2. ASSUME NEW s \in SignSlots, SignIn(s) PROVE LinksKept
  <2>1. UNCHANGED links
    BY <1>2 DEF SignIn, LogIn, Refresh, FindOwnAccount, ComparePassword, IssueTokens
  <2> QED
    BY <1>0, <2>1, SameLinks
<1>3. ASSUME NEW m \in Members, AccountStep(m) PROVE LinksKept
  <2>1. UNCHANGED links
    BY <1>3 DEF AccountStep, Register, AskForLink, Update, SetFlag, SeedAccount
  <2> QED
    BY <1>0, <2>1, SameLinks
<1> QED
  BY <1>0, <1>1, <1>2, <1>3, ClearStep, InsertStep, ExpireStep DEF AuthNext

LEMMA SpentStep ==
  ASSUME SpentInv, [AuthNext]_authVars
  PROVE  SpentInv'
<1>0. UsedInv /\ UsedInv' /\ AuthTypeOK
  BY UsedStep DEF SpentInv, UsedInv
<1>1. CASE UNCHANGED authVars
  BY <1>0, <1>1 DEF authVars, SpentInv, HasMarked, Spent, Usable
<1>2. CASE AuthNext
  <2>1. LinksKept
    BY <1>0, <1>2, AllKept
  <2>2. ASSUME NEW s \in SignSlots, signPc'[s] = signPc[s], signJob'[s] = signJob[s]
        PROVE  /\ HasMarked(s)' /\ signJob'[s].link # 0 => Spent(signJob[s].link)'
               /\ signPc'[s] = "compare" => signJob'[s].link = 0
    <3>1. signPc'[s] = "compare" => signJob'[s].link = 0
      BY <2>2 DEF SpentInv
    <3> QED
      BY <2>1, <2>2, <3>1, SpentStays
  <2>3. ASSUME NEW s \in SignSlots, FollowLink(s)
        PROVE  /\ HasMarked(s)' /\ signJob'[s].link # 0 => Spent(signJob[s].link)'
               /\ signPc'[s] = "compare" => signJob'[s].link = 0
    <3>1. signPc'[s] # "compare"
      BY <1>0, <2>3 DEF AuthTypeOK, FollowLink, FindLink, FindHolder, ActOnMember, MarkLink,
                        FindAgain, Start, SignGoto
    <3> QED
      BY <2>1, <2>3, <3>1, SpentFollow
  <2>4. ASSUME NEW s \in SignSlots, SignIn(s)
        PROVE  /\ HasMarked(s)' /\ signJob'[s].link # 0 => Spent(signJob[s].link)'
               /\ signPc'[s] = "compare" => signJob'[s].link = 0
    <3>1. signJob'[s].link = 0 \/ (signJob'[s] = signJob[s] /\ HasMarked(s))
      BY <2>4, SpentSignIn
    <3>2. CASE signJob'[s] = signJob[s] /\ HasMarked(s) /\ signJob[s].link # 0
      <4>1. signPc'[s] # "compare"
        BY <1>0, <2>4, <3>2
           DEF AuthTypeOK, SignIn, LogIn, Refresh, FindOwnAccount, ComparePassword,
               IssueTokens, Start, SignGoto, IdleSign, HasMarked
      <4>2. Spent(signJob[s].link)
        BY <3>2 DEF SpentInv
      <4> QED
        BY <2>1, <3>2, <4>1, <4>2, SpentForGood
    <3>3. CASE signJob'[s].link = 0
      BY <3>3
    <3> QED
      BY <3>1, <3>2, <3>3
  <2>5. ASSUME NEW s \in SignSlots
        PROVE  /\ HasMarked(s)' /\ signJob'[s].link # 0 => Spent(signJob[s].link)'
               /\ signPc'[s] = "compare" => signJob'[s].link = 0
    <3>1. \/ UNCHANGED <<signPc, signJob>>
          \/ \E t \in SignSlots : FollowLink(t) \/ SignIn(t)
      BY <1>2 DEF AuthNext, AccountStep, Register, AskForLink, Update, SetFlag, SeedAccount,
                  ClearLinks, InsertLink, ExpireLink
    <3>2. CASE UNCHANGED <<signPc, signJob>>
      BY <2>2, <3>2
    <3>3. CASE \E t \in SignSlots : FollowLink(t) \/ SignIn(t)
      <4>1. PICK t \in SignSlots : FollowLink(t) \/ SignIn(t)
        BY <3>3
      <4>2. CASE s # t
        BY <1>0, <2>2, <4>1, <4>2, SlotsApart DEF OthersStay
      <4> QED
        BY <2>3, <2>4, <4>1, <4>2
    <3> QED
      BY <3>1, <3>2, <3>3
  <2> QED
    BY <1>0, <2>5 DEF SpentInv
<1> QED
  BY <1>1, <1>2

(* Of any number of links and requests that overlap, no reset or           *)
(* verification link is used up without its effect on the account, and no  *)
(* request is through with a link that can be followed again.              *)
THEOREM LinksUsedByEffect == AuthSpec => []UsedByItsEffect
<1>1. AuthInit => SpentInv
  BY UsedInit DEF AuthInit, SpentInv, HasMarked
<1>2. SpentInv => UsedByItsEffect
  BY DEF SpentInv, UsedInv, UsedByItsEffect, DoneIsSpent, HasMarked, Spent
<1> QED
  BY <1>1, <1>2, SpentStep, PTL DEF AuthSpec

-----------------------------------------------------------------------------
(***************************************************************************)
(* Two valid links mean overlapping jobs.  The inductive invariant says    *)
(* that a job about to store its link has deleted every earlier link of    *)
(* the kind and the account up to the moment it remembers.                 *)
(***************************************************************************)
Superseded ==
  \A i \in DOMAIN making :
    making[i].at = "insert" =>
      /\ making[i].cleared <= Len(links)
      /\ \A k \in DOMAIN links :
           /\ k <= making[i].cleared
           /\ links[k].kind = making[i].kind /\ links[k].member = making[i].member
           => links[k].deleted

ValidInv == UsedInv /\ Superseded /\ OneValidLink

LEMMA ValidElsewhere ==
  ASSUME ValidInv, LinksKept, DOMAIN links' = DOMAIN links,
         \A i \in DOMAIN making' :
           making'[i].at = "insert" => i \in DOMAIN making /\ making'[i] = making[i]
  PROVE  Superseded' /\ OneValidLink'
<1>0. /\ links \in Seq(LinkDocs) /\ making \in Seq(MakingJobs)
      /\ Len(links) \in Nat /\ Len(links') \in Nat
  BY DEF ValidInv, UsedInv, AuthTypeOK, LinksKept
<1>1. Superseded'
  <2> SUFFICES ASSUME NEW i \in DOMAIN making', making'[i].at = "insert"
               PROVE  /\ making'[i].cleared <= Len(links')
                      /\ \A k \in DOMAIN links' :
                           /\ k <= making'[i].cleared
                           /\ links'[k].kind = making'[i].kind
                           /\ links'[k].member = making'[i].member
                           => links'[k].deleted
    BY DEF Superseded
  <2>1. i \in DOMAIN making /\ making'[i] = making[i] /\ making[i].at = "insert"
    OBVIOUS
  <2>2. making[i].cleared \in Nat
    <3>1. making[i] \in MakingJobs
      BY <1>0, <2>1
    <3> QED
      BY <3>1 DEF MakingJobs
  <2>3. /\ making[i].cleared <= Len(links)
        /\ \A k \in DOMAIN links :
             /\ k <= making[i].cleared
             /\ links[k].kind = making[i].kind /\ links[k].member = making[i].member
             => links[k].deleted
    BY <2>1 DEF ValidInv, Superseded
  <2>4. making'[i].cleared <= Len(links')
    BY <1>0, <2>1, <2>2, <2>3 DEF LinksKept
  <2>5. ASSUME NEW k \in DOMAIN links', k <= making'[i].cleared,
               links'[k].kind = making'[i].kind, links'[k].member = making'[i].member
        PROVE  links'[k].deleted
    BY <2>1, <2>3, <2>5 DEF LinksKept
  <2> QED
    BY <2>4, <2>5
<1>2. OneValidLink'
  <2> SUFFICES ASSUME NEW k \in DOMAIN links', NEW n \in DOMAIN links', k < n,
                      links'[k].kind = links'[n].kind,
                      links'[k].member = links'[n].member,
                      Usable(k)', Usable(n)'
               PROVE  links'[n].cleared < k
    BY DEF OneValidLink
  <2>1. k \in DOMAIN links /\ n \in DOMAIN links
    OBVIOUS
  <2>2. Usable(k) /\ Usable(n) /\ links'[n].cleared = links[n].cleared
    BY <2>1 DEF Usable, LinksKept
  <2>3. links[k].kind = links[n].kind /\ links[k].member = links[n].member
    BY <2>1 DEF LinksKept
  <2> QED
    BY <2>1, <2>2, <2>3 DEF ValidInv, OneValidLink
<1> QED
  BY <1>1, <1>2

LEMMA ValidMaking ==
  ASSUME ValidInv, NEW i \in DOMAIN making, ClearLinks(i) \/ InsertLink(i)
  PROVE  Superseded' /\ OneValidLink'
<1>0. /\ AuthTypeOK /\ links \in Seq(LinkDocs) /\ making \in Seq(MakingJobs)
      /\ Len(links) \in Nat /\ DOMAIN links = 1..Len(links)
      /\ Superseded /\ OneValidLink
  BY DEF ValidInv, UsedInv, AuthTypeOK
<1>1. /\ DOMAIN making' = DOMAIN making
      /\ \A j \in DOMAIN making : j # i => making'[j] = making[j]
  BY <1>0 DEF ClearLinks, InsertLink
<1>2. \A j \in DOMAIN making : making[j] \in MakingJobs /\ making[j].cleared \in Nat
  <2> SUFFICES ASSUME NEW j \in DOMAIN making
               PROVE  making[j] \in MakingJobs /\ making[j].cleared \in Nat
    OBVIOUS
  <2>1. making[j] \in MakingJobs
    BY <1>0
  <2> QED
    BY <2>1 DEF MakingJobs
<1>3. CASE ClearLinks(i)
  <2>1. /\ LinksKept /\ DOMAIN links' = DOMAIN links /\ Len(links') = Len(links)
        /\ \A k \in DOMAIN links :
              links'[k].deleted <=>
                   \/ links[k].deleted
                   \/ /\ links[k].kind = making[i].kind
                      /\ links[k].member = making[i].member
    BY <1>0, <1>3, ClearStep
  <2>2. /\ making'[i].cleared = Len(links)
        /\ making'[i].kind = making[i].kind /\ making'[i].member = making[i].member
    <3>1. making' = [making EXCEPT ![i] =
                       [making[i] EXCEPT !.at = "insert", !.cleared = Len(links)]]
      BY <1>3 DEF ClearLinks
    <3> QED
      BY <1>0, <1>2, <3>1 DEF MakingJobs
  <2>3. Superseded'
    <3> SUFFICES ASSUME NEW j \in DOMAIN making', making'[j].at = "insert"
                 PROVE  /\ making'[j].cleared <= Len(links')
                        /\ \A k \in DOMAIN links' :
                             /\ k <= making'[j].cleared
                             /\ links'[k].kind = making'[j].kind
                             /\ links'[k].member = making'[j].member
                             => links'[k].deleted
      BY DEF Superseded
    <3>1. CASE j = i
      <4>1. making'[j].cleared <= Len(links')
        BY <1>0, <2>1, <2>2, <3>1
      <4>2. ASSUME NEW k \in DOMAIN links', links'[k].kind = making'[j].kind,
                   links'[k].member = making'[j].member
            PROVE  links'[k].deleted
        <5>1. /\ k \in DOMAIN links
              /\ links'[k].kind = links[k].kind /\ links'[k].member = links[k].member
          BY <2>1 DEF LinksKept
        <5> QED
          BY <2>1, <2>2, <3>1, <4>2, <5>1
      <4> QED
        BY <4>1, <4>2
    <3>2. CASE j # i
      <4>1. /\ j \in DOMAIN making /\ making'[j] = making[j]
        BY <1>1, <3>2
      <4>2. /\ making[j].cleared <= Len(links)
            /\ \A k \in DOMAIN links :
                 /\ k <= making[j].cleared
                 /\ links[k].kind = making[j].kind /\ links[k].member = making[j].member
                 => links[k].deleted
        BY <1>0, <4>1 DEF Superseded
      <4> QED
        BY <2>1, <4>1, <4>2 DEF LinksKept
    <3> QED
      BY <3>1, <3>2
  <2>4. OneValidLink'
    <3> SUFFICES ASSUME NEW k \in DOMAIN links', NEW n \in DOMAIN links', k < n,
                        links'[k].kind = links'[n].kind,
                        links'[k].member = links'[n].member,
                        Usable(k)', Usable(n)'
                 PROVE  links'[n].cleared < k
      BY DEF OneValidLink
    <3>1. k \in DOMAIN links /\ n \in DOMAIN links
      BY <2>1
    <3>2. Usable(k) /\ Usable(n) /\ links'[n].cleared = links[n].cleared
      BY <2>1, <3>1 DEF Usable, LinksKept
    <3>3. links[k].kind = links[n].kind /\ links[k].member = links[n].member
      BY <2>1, <3>1 DEF LinksKept
    <3> QED
      BY <1>0, <3>1, <3>2, <3>3 DEF OneValidLink
  <2> QED
    BY <2>3, <2>4
<1>4. CASE InsertLink(i)
  <2> DEFINE new == Len(links) + 1
  <2>1. /\ LinksKept
        /\ DOMAIN links' = DOMAIN links \cup {new}
        /\ \A k \in DOMAIN links : links'[k] = links[k] /\ k <= Len(links)
        /\ links'[new] =
              [kind |-> making[i].kind, member |-> making[i].member,
               cleared |-> making[i].cleared, deleted |-> FALSE, used |-> FALSE,
               expired |-> FALSE, acted |-> FALSE]
    BY <1>0, <1>4, InsertStep
  <2>2. making[i].at = "insert" /\ making'[i].at # "insert"
    <3>1. making' = [making EXCEPT ![i] = [making[i] EXCEPT !.at = "made"]]
      BY <1>4 DEF InsertLink
    <3> QED
      BY <1>0, <1>2, <1>4, <3>1 DEF InsertLink, MakingJobs
  <2>3. Superseded'
    <3> SUFFICES ASSUME NEW j \in DOMAIN making', making'[j].at = "insert"
                 PROVE  /\ making'[j].cleared <= Len(links')
                        /\ \A k \in DOMAIN links' :
                             /\ k <= making'[j].cleared
                             /\ links'[k].kind = making'[j].kind
                             /\ links'[k].member = making'[j].member
                             => links'[k].deleted
      BY DEF Superseded
    <3>1. j # i /\ j \in DOMAIN making /\ making'[j] = making[j]
      BY <1>1, <2>2
    <3>2. /\ making[j].cleared <= Len(links) /\ making[j].cleared \in Nat
          /\ \A k \in DOMAIN links :
               /\ k <= making[j].cleared
               /\ links[k].kind = making[j].kind /\ links[k].member = making[j].member
               => links[k].deleted
      BY <1>0, <1>2, <3>1 DEF Superseded
    <3>3. making'[j].cleared <= Len(links')
      BY <1>0, <2>1, <3>1, <3>2 DEF LinksKept
    <3>4. ASSUME NEW k \in DOMAIN links', k <= making'[j].cleared,
                 links'[k].kind = making'[j].kind, links'[k].member = making'[j].member
          PROVE  links'[k].deleted
      <4>1. k \in DOMAIN links
        BY <1>0, <2>1, <3>1, <3>2, <3>4
      <4> QED
        BY <2>1, <3>1, <3>2, <3>4, <4>1
    <3> QED
      BY <3>3, <3>4
  <2>4. OneValidLink'
    <3> SUFFICES ASSUME NEW k \in DOMAIN links', NEW n \in DOMAIN links', k < n,
                        links'[k].kind = links'[n].kind,
                        links'[k].member = links'[n].member,
                        Usable(k)', Usable(n)'
                 PROVE  links'[n].cleared < k
      BY DEF OneValidLink
    <3>1. k \in DOMAIN links
      BY <1>0, <2>1
    <3>2. CASE n = new
      <4>1. /\ links'[n].cleared = making[i].cleared
            /\ links'[n].kind = making[i].kind /\ links'[n].member = making[i].member
        BY <2>1, <3>2
      <4>2. links[k].kind = making[i].kind /\ links[k].member = making[i].member
        BY <2>1, <3>1, <4>1
      <4>3. ~ links[k].deleted
        BY <2>1, <3>1 DEF Usable
      <4>4. ~ (k <= making[i].cleared)
        BY <1>0, <2>2, <3>1, <4>2, <4>3 DEF Superseded
      <4> QED
        BY <1>0, <1>2, <3>1, <4>1, <4>4
    <3>3. CASE n # new
      <4>1. n \in DOMAIN links
        BY <2>1, <3>3
      <4>2. Usable(k) /\ Usable(n) /\ links'[n] = links[n] /\ links'[k] = links[k]
        BY <2>1, <3>1, <4>1 DEF Usable
      <4> QED
        BY <1>0, <3>1, <4>1, <4>2 DEF OneValidLink
    <3> QED
      BY <3>2, <3>3
  <2> QED
    BY <2>3, <2>4
<1> QED
  BY <1>3, <1>4

LEMMA ValidStep ==
  ASSUME ValidInv, [AuthNext]_authVars
  PROVE  ValidInv'
<1>0. UsedInv /\ AuthTypeOK /\ Linked /\ \A i \in DOMAIN making : making[i] \in MakingJobs
  BY DEF ValidInv, UsedInv, AuthTypeOK
<1>1. UsedInv'
  BY <1>0, UsedStep
<1>2. ASSUME UNCHANGED <<links, making>>
      PROVE  Superseded' /\ OneValidLink'
  <2>1. LinksKept
    BY <1>0, <1>2, SameLinks
  <2> QED
    BY <1>2, <2>1, ValidElsewhere
<1>3. ASSUME NEW s \in SignSlots, SignIn(s)
      PROVE  UNCHANGED <<links, making>>
  BY <1>3 DEF SignIn, LogIn, Refresh, FindOwnAccount, ComparePassword, IssueTokens
<1>4. ASSUME NEW s \in SignSlots, FollowLink(s)
      PROVE  Superseded' /\ OneValidLink'
  <2>1. UNCHANGED making
    BY <1>4 DEF FollowLink, FindLink, FindHolder, ActOnMember, MarkLink, FindAgain
  <2>2. CASE ActOnMember(s)
    BY <1>0, <2>1, <2>2, ActStep, ValidElsewhere
  <2>3. CASE MarkLink(s)
    BY <1>0, <2>1, <2>3, MarkStep, ValidElsewhere
  <2>4. CASE ~ ActOnMember(s) /\ ~ MarkLink(s)
    BY <1>2, <1>4, <2>1, <2>4 DEF FollowLink, FindLink, FindHolder, FindAgain
  <2> QED
    BY <2>2, <2>3, <2>4
<1>5. ASSUME NEW m \in Members, AccountStep(m)
      PROVE  Superseded' /\ OneValidLink'
  <2>1. UNCHANGED links
    BY <1>5 DEF AccountStep, Register, AskForLink, Update, SetFlag, SeedAccount
  <2>2. \/ UNCHANGED making
        \/ \E kinds \in Seq(Kinds) : MakeLinks(m, kinds)
    <3>1. /\ <<"magic", "verify">> \in Seq(Kinds)
          /\ \A kind \in Kinds : <<kind>> \in Seq(Kinds)
      BY DEF Kinds
    <3> QED
      BY <1>5, <3>1 DEF AccountStep, Register, AskForLink, Update, SetFlag, SeedAccount
  <2>3. \A i \in DOMAIN making' :
          \/ i \in DOMAIN making /\ making'[i] = making[i]
          \/ making'[i].at = "clear"
    BY <1>0, <2>2, MakeLinksType
  <2>4. LinksKept
    BY <1>0, <2>1, SameLinks
  <2> QED
    BY <2>1, <2>3, <2>4, ValidElsewhere
<1>6. ASSUME NEW k \in DOMAIN links, ExpireLink(k)
      PROVE  Superseded' /\ OneValidLink'
  <2>1. UNCHANGED making
    BY <1>6 DEF ExpireLink
  <2> QED
    BY <1>0, <1>6, <2>1, ExpireStep, ValidElsewhere
<1>7. Superseded' /\ OneValidLink'
  <2>1. CASE UNCHANGED authVars
    BY <1>2, <2>1 DEF authVars
  <2>2. CASE \E s \in SignSlots : FollowLink(s) \/ SignIn(s)
    BY <1>2, <1>3, <1>4, <2>2
  <2>3. CASE \E m \in Members : AccountStep(m)
    BY <1>5, <2>3
  <2>4. CASE \E i \in DOMAIN making : ClearLinks(i) \/ InsertLink(i)
    BY <2>4, ValidMaking
  <2>5. CASE \E k \in DOMAIN links : ExpireLink(k)
    BY <1>6, <2>5
  <2> QED
    BY <2>1, <2>2, <2>3, <2>4, <2>5 DEF AuthNext
<1> QED
  BY <1>1, <1>7 DEF ValidInv

(* Whatever the number of jobs that overlap, two links of one kind for one *)
(* account are valid together only if the later one had deleted the        *)
(* earlier ones before the earlier one was stored.                         *)
THEOREM LinksSuperseded == AuthSpec => []OneValidLink
<1>1. AuthInit => ValidInv
  BY UsedInit DEF AuthInit, ValidInv, Superseded, OneValidLink
<1>2. ValidInv => OneValidLink
  BY DEF ValidInv
<1> QED
  BY <1>1, <1>2, ValidStep, PTL DEF AuthSpec
=============================================================================
