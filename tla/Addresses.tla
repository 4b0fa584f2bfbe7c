----------------------------- MODULE Addresses ------------------------------
(***************************************************************************)
(* The address book of an account: addAddress, updateAddress,              *)
(* deleteAddress and setDefaultAddress of users/users.service.ts, with     *)
(* update and softDelete, which write the same documents.                  *)
(*                                                                         *)
(* Every handler loads the account, changes the whole list in its copy and *)
(* writes the list back with findByIdAndUpdate, whatever is stored by then.*)
(* An address is the place it names, which stands for its text fields, and *)
(* its isDefault flag.  The code counts addresses from 0, this module from *)
(* 1.  A request handles one call and is used once.                        *)
(***************************************************************************)
EXTENDS Integers, SequencesExt

CONSTANTS
  Accounts,   \* ids of registered users
  Places,     \* what the text fields of an address say
  Calls,      \* the calls the environment makes in a configuration
  Requests    \* request slots, each used for one call

None == "none"

Address == [place : Places, isDefault : BOOLEAN]

Books == Seq(Address)

Documents == [isDeleted : BOOLEAN, addresses : Books]

(* What the routes let through.  A place of None is one that the caller    *)
(* left out; an absent isDefault is handled like FALSE.  The fields an     *)
(* update names in "sets" are written as they are.                         *)
Adds == [op : {"addAddress"}, place : Places, isDefault : BOOLEAN]

Changes == [op : {"updateAddress"}, index : Int, place : Places \cup {None},
            isDefault : BOOLEAN]

Picks == [op : {"deleteAddress", "setDefaultAddress"}, index : Int]

Patches == [op : {"update"}, sets : SUBSET {"addresses", "isDeleted"},
            addresses : Books, isDeleted : BOOLEAN]

AllCalls == Adds \cup Changes \cup Picks \cup Patches \cup [op : {"softDelete"}]

EditOps == {"addAddress", "updateAddress", "deleteAddress", "setDefaultAddress"}

ASSUME AddressesAssumption ==
  /\ Accounts # {}
  /\ Calls # {}
  /\ \A c \in Calls : c \in AllCalls

-----------------------------------------------------------------------------
(* The list with the default at i and nowhere else.                        *)
WithDefault(book, i) ==
  [j \in DOMAIN book |-> [book[j] EXCEPT !.isDefault = (j = i)]]

(* addAddress: the first address, and one marked as default, becomes the   *)
(* only default.                                                           *)
Added(c, book) ==
  LET only == c.isDefault \/ book = << >>
  IN  Append(IF only THEN WithDefault(book, 0) ELSE book,
             [place |-> c.place, isDefault |-> only])

(* updateAddress: a flag of false changes nothing.                         *)
Updated(c, book) ==
  LET edited == IF c.place = None THEN book
                                  ELSE [book EXCEPT ![c.index].place = c.place]
  IN  IF c.isDefault THEN WithDefault(edited, c.index) ELSE edited

(* Faulty variant: the first address becomes default without a look at the *)
(* deleted one.                                                            *)
DeletedFirstDefault(c, book) ==
  LET left == RemoveAt(book, c.index)
  IN  IF left # << >> THEN [left EXCEPT ![1].isDefault = TRUE] ELSE left

(* Faulty variant: splice(addressIndex), which takes the rest as well.     *)
DeletedRest(c, book) == SubSeq(book, 1, c.index - 1)

(* deleteAddress: the first of the others replaces a deleted default.      *)
Deleted(c, book) ==
  LET left == RemoveAt(book, c.index)
  IN  IF book[c.index].isDefault /\ left # << >>
        THEN [left EXCEPT ![1].isDefault = TRUE]
        ELSE left

Edited(c, book) ==
  CASE c.op = "addAddress"        -> Added(c, book)
    [] c.op = "updateAddress"     -> Updated(c, book)
    [] c.op = "deleteAddress"     -> Deleted(c, book)
    [] c.op = "setDefaultAddress" -> WithDefault(book, c.index)

(* The early error returns: the account is gone, or the index is invalid.  *)
Accepts(c, account) ==
  /\ ~ account.isDeleted
  /\ c.op \in {"updateAddress", "deleteAddress", "setDefaultAddress"}
       => c.index \in DOMAIN account.addresses

-----------------------------------------------------------------------------
VARIABLES
  accounts,   \* collection "users"
  pc,         \* control state of every request
  job         \* call, account and loaded list of every started request

vars == <<accounts, pc, job>>

(* new -> loaded -> done.  A failure in between leaves a request loaded    *)
(* for ever.                                                               *)
PCs == {"new", "loaded", "done"}

Jobs == [call : Calls, account : Accounts, book : Books]

IdleJob == [call    |-> CHOOSE c \in Calls : TRUE,
            account |-> CHOOSE a \in Accounts : TRUE,
            book    |-> << >>]

TypeOK ==
  /\ accounts \in [Accounts -> Documents]
  /\ pc \in [Requests -> PCs]
  /\ job \in [Requests -> Jobs]

Init ==
  /\ accounts = [a \in Accounts |-> [isDeleted |-> FALSE, addresses |-> << >>]]
  /\ pc = [r \in Requests |-> "new"]
  /\ job = [r \in Requests |-> IdleJob]

(* findOne at the head of every handler.                                   *)
FindAccount(r, c, a) ==
  /\ pc[r] = "new"
  /\ Accepts(c, accounts[a])
  /\ pc' = [pc EXCEPT ![r] = "loaded"]
  /\ job' = [job EXCEPT ![r] = [call |-> c, account |-> a,
                                book |-> accounts[a].addresses]]
  /\ UNCHANGED accounts

(* The four address handlers write the list they computed.                 *)
WriteBook(r) ==
  LET j == job[r] IN
  /\ pc[r] = "loaded"
  /\ j.call.op \in EditOps
  /\ accounts' = [accounts EXCEPT ![j.account].addresses = Edited(j.call, j.book)]
  /\ pc' = [pc EXCEPT ![r] = "done"]
  /\ UNCHANGED job

(* update writes the fields of its dto, ...                                *)
WritePatch(r) ==
  LET j == job[r] IN
  /\ pc[r] = "loaded"
  /\ j.call.op = "update"
  /\ accounts' = [accounts EXCEPT
       ![j.account].addresses =
         IF "addresses" \in j.call.sets THEN j.call.addresses ELSE @,
       ![j.account].isDeleted =
         IF "isDeleted" \in j.call.sets THEN j.call.isDeleted ELSE @]
  /\ pc' = [pc EXCEPT ![r] = "done"]
  /\ UNCHANGED job

(* ... and softDelete the flag.                                            *)
WriteDeleted(r) ==
  /\ pc[r] = "loaded"
  /\ job[r].call.op = "softDelete"
  /\ accounts' = [accounts EXCEPT ![job[r].account].isDeleted = TRUE]
  /\ pc' = [pc EXCEPT ![r] = "done"]
  /\ UNCHANGED job

Next ==
  \E r \in Requests :
    \/ \E c \in Calls, a \in Accounts : FindAccount(r, c, a)
    \/ WriteBook(r)
    \/ WritePatch(r)
    \/ WriteDeleted(r)

Spec == Init /\ [][Next]_vars
=============================================================================
