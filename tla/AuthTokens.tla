----------------------------- MODULE AuthTokens -----------------------------
(***************************************************************************)
(* Accounts, sessions and one-time links: auth/auth.service.ts with the    *)
(* account operations of users/users.service.ts, at the grain of their     *)
(* awaits.                                                                 *)
(*                                                                         *)
(* A link is a document of one of the three token collections, its number  *)
(* stands for the random token.  Links are made by jobs of two steps,      *)
(* which nobody waits for after a registration.  An account operation      *)
(* whose read only decides whether it is refused is one step.  Who may     *)
(* call an operation (roles, guards) and the wording of e-mails are left   *)
(* out, and so is the expiry of sessions.                                  *)
(***************************************************************************)
EXTENDS Integers, Sequences

CONSTANTS
  Members,     \* ids of accounts
  Emails,
  Passwords,
  InitMembers, \* the accounts a behaviour may start with
  MemberPatches, \* what update is called with
  SignSlots,   \* slots of requests that read and write later
  MaxMaking    \* bound on the links ever made

Kinds == {"reset", "magic", "verify"}

(* What bcrypt makes of a password, what update stores of one, and what    *)
(* select: false leaves of one.                                            *)
Stored == [how : {"hashed", "plain", "unselected"}, text : Passwords]
HashOf(p) == [how |-> "hashed", text |-> p]

(* The fields of users/dtos.ts that sign-in depends on.                    *)
MemberDocs == [exists : BOOLEAN, email : Emails, password : Stored,
               verified : BOOLEAN, banned : BOOLEAN, deleted : BOOLEAN]

NoMember == [exists |-> FALSE, email |-> CHOOSE e \in Emails : TRUE,
             password |-> HashOf(CHOOSE p \in Passwords : TRUE),
             verified |-> FALSE, banned |-> FALSE, deleted |-> FALSE]

ASSUME AuthAssumption ==
  /\ Members # {} /\ Emails # {} /\ Passwords # {}
  /\ \A f \in InitMembers :
       /\ f \in [Members -> MemberDocs]
       /\ \A m \in Members : f[m].password.how # "unselected"
  /\ MaxMaking \in Nat
  /\ \A c \in MemberPatches :
       /\ c.sets \subseteq {"email", "password", "verified", "banned", "deleted"}
       /\ c.doc \in MemberDocs

-----------------------------------------------------------------------------
VARIABLES
  members,   \* collection "users"
  links,     \* every link ever made: the token collections
  making,    \* every job that makes a link
  sessions,  \* accounts for which tokens have been issued
  signPc,    \* control state of the requests in slots
  signJob    \* what they have loaded

authVars == <<members, links, making, sessions, signPc, signJob>>

(* cleared and acted are history: how many links had been made when the    *)
(* job deleted the earlier ones, and whether the link has had its effect   *)
(* on the account.                                                         *)
LinkDocs == [kind : Kinds, member : Members, cleared : Nat,
             deleted : BOOLEAN, used : BOOLEAN, expired : BOOLEAN,
             acted : BOOLEAN]

MakingJobs == [kind : Kinds, member : Members, cleared : Nat,
               at : {"clear", "insert", "made"}]

(* new -> found (-> act -> mark) -> ... -> done or refused                 *)
SignPCs == {"new", "found", "act", "mark", "again", "compare", "sign",
            "done", "refused"}

SignJobs == [link : Nat, member : Members, given : Passwords, new : Passwords,
             loaded : MemberDocs]

AuthTypeOK ==
  /\ members \in [Members -> MemberDocs]
  /\ links \in Seq(LinkDocs)
  /\ making \in Seq(MakingJobs)
  /\ \A m \in Members : members[m].password.how # "unselected"
  /\ sessions \subseteq Members
  /\ signPc \in [SignSlots -> SignPCs]
  /\ signJob \in [SignSlots -> SignJobs]

-----------------------------------------------------------------------------
(* findOne and findByEmail: accounts that are not deleted.                 *)
Live(m) == members[m].exists /\ ~ members[m].deleted

(* findByEmail(email, includePassword)                                     *)
Loaded(m, includePassword) ==
  IF includePassword THEN members[m]
                     ELSE [members[m] EXCEPT !.password.how = "unselected"]

(* The unique index on email covers deleted accounts as well.              *)
EmailFree(e, m) ==
  \A n \in Members : members[n].exists /\ members[n].email = e => n = m

(* The query of a link that was presented.                                 *)
Usable(k) == ~ links[k].deleted /\ ~ links[k].used /\ ~ links[k].expired

SignGoto(s, at) == signPc' = [signPc EXCEPT ![s] = at]

IdleSign == [link |-> 0, member |-> CHOOSE m \in Members : TRUE,
             given |-> CHOOSE p \in Passwords : TRUE,
             new |-> CHOOSE p \in Passwords : TRUE, loaded |-> NoMember]

Start(s, at, j) ==
  /\ signPc[s] = "new"
  /\ SignGoto(s, at)
  /\ signJob' = [signJob EXCEPT ![s] = j]

MakeLinks(m, kinds) ==
  /\ Len(making) + Len(kinds) <= MaxMaking
  /\ making' = making \o [i \in DOMAIN kinds |->
                 [kind |-> kinds[i], member |-> m, cleared |-> 0, at |-> "clear"]]

-----------------------------------------------------------------------------
(* register: create, then both links of a new account without waiting.     *)
Register(m, e, p) ==
  /\ ~ members[m].exists
  /\ EmailFree(e, m)
  /\ members' = [members EXCEPT ![m] =
       [NoMember EXCEPT !.exists = TRUE, !.email = e, !.password = HashOf(p)]]
  /\ sessions' = sessions \cup {m}
  /\ MakeLinks(m, <<"magic", "verify">>)
  /\ UNCHANGED <<links, signPc, signJob>>

(* forgotPassword and resendVerification find the account ...              *)
AskForLink(m, kind) ==
  /\ Live(m)
  /\ kind = "reset" \/ (kind = "verify" /\ ~ members[m].verified)
  /\ MakeLinks(m, <<kind>>)
  /\ UNCHANGED <<members, links, sessions, signPc, signJob>>

(* Faulty variant: the earlier links of the account stay.                  *)
ClearNothing(i) ==
  /\ making[i].at = "clear"
  /\ making' = [making EXCEPT ![i].at = "insert", ![i].cleared = Len(links)]
  /\ UNCHANGED <<members, links, sessions, signPc, signJob>>

(* ... and a link is made: deleteMany, ...                                 *)
ClearLinks(i) ==
  /\ making[i].at = "clear"
  /\ links' = [k \in DOMAIN links |->
       [links[k] EXCEPT !.deleted =
          @ \/ (links[k].kind = making[i].kind /\ links[k].member = making[i].member)]]
  /\ making' = [making EXCEPT ![i].at = "insert", ![i].cleared = Len(links)]
  /\ UNCHANGED <<members, sessions, signPc, signJob>>

(* ... create; the link is in the e-mail from now on.                      *)
InsertLink(i) ==
  /\ making[i].at = "insert"
  /\ links' = Append(links,
       [kind |-> making[i].kind, member |-> making[i].member,
        cleared |-> making[i].cleared, deleted |-> FALSE, used |-> FALSE,
        expired |-> FALSE, acted |-> FALSE])
  /\ making' = [making EXCEPT ![i].at = "made"]
  /\ UNCHANGED <<members, sessions, signPc, signJob>>

ExpireLink(k) ==
  /\ ~ links[k].expired
  /\ links' = [links EXCEPT ![k].expired = TRUE]
  /\ UNCHANGED <<members, making, sessions, signPc, signJob>>

-----------------------------------------------------------------------------
(* resetPassword to p, verifyEmail and verifyMagicLink: the link, ...      *)
FindLink(s, k, p) ==
  /\ Usable(k)
  /\ Start(s, "found", [IdleSign EXCEPT !.link = k, !.member = links[k].member,
                                        !.new = p])
  /\ UNCHANGED <<members, links, making, sessions>>

(* Faulty variant: a reset is marked before the password is stored.        *)
FindHolderMarked(s) ==
  LET j == signJob[s]
      kind == links[j.link].kind
  IN  /\ signPc[s] = "found"
      /\ SignGoto(s, IF ~ Live(j.member) \/ (kind = "magic" /\ members[j.member].banned)
                       THEN "refused"
                       ELSE IF kind = "magic" THEN "mark" ELSE "act")
      /\ signJob' = [signJob EXCEPT ![s].loaded = Loaded(j.member, FALSE)]
      /\ links' = [links EXCEPT ![j.link].used = @ \/ kind # "magic"]
      /\ UNCHANGED <<members, making, sessions>>

(* ... the account (in update for the first two), ...                      *)
FindHolder(s) ==
  LET j == signJob[s]
      kind == links[j.link].kind
  IN  /\ signPc[s] = "found"
      /\ SignGoto(s, IF ~ Live(j.member) \/ (kind = "magic" /\ members[j.member].banned)
                       THEN "refused"
                       ELSE IF kind = "magic" THEN "mark" ELSE "act")
      /\ signJob' = [signJob EXCEPT ![s].loaded = Loaded(j.member, FALSE)]
      /\ UNCHANGED <<members, links, making, sessions>>

(* ... its effect on the account, ...                                      *)
ActOnMember(s) ==
  LET j == signJob[s]
      kind == links[j.link].kind
  IN  /\ signPc[s] = "act"
      /\ members' = IF kind = "reset"
                      THEN [members EXCEPT ![j.member].password = HashOf(j.new)]
                      ELSE [members EXCEPT ![j.member].verified = TRUE]
      /\ links' = [links EXCEPT ![j.link].acted = TRUE]
      /\ SignGoto(s, IF kind = "magic" THEN "sign" ELSE "mark")
      /\ UNCHANGED <<making, sessions, signJob>>

(* ... and its mark, which comes first for a magic link: one that has to   *)
(* verify the account looks it up again.                                   *)
MarkLink(s) ==
  LET j == signJob[s] IN
  /\ signPc[s] = "mark"
  /\ links' = [links EXCEPT ![j.link].used = @ \/ ~ links[j.link].deleted]
  /\ SignGoto(s, IF links[j.link].kind # "magic" THEN "done"
                 ELSE IF j.loaded.verified THEN "sign" ELSE "again")
  /\ UNCHANGED <<members, making, sessions, signJob>>

FindAgain(s) ==
  /\ signPc[s] = "again"
  /\ SignGoto(s, IF Live(signJob[s].member) THEN "act" ELSE "refused")
  /\ UNCHANGED <<members, links, making, sessions, signJob>>

-----------------------------------------------------------------------------
(* validateUser: findByEmail with the password, then bcrypt.               *)
LogIn(s, m, p) ==
  /\ Live(m)
  /\ Start(s, IF members[m].password = HashOf(p) /\ ~ members[m].banned
                THEN "sign" ELSE "refused",
           [IdleSign EXCEPT !.member = m, !.given = p, !.loaded = Loaded(m, TRUE)])
  /\ UNCHANGED <<members, links, making, sessions>>

(* refreshToken, with a token of any earlier session.                      *)
Refresh(s, m) ==
  /\ m \in sessions
  /\ Start(s, IF Live(m) /\ ~ members[m].banned THEN "sign" ELSE "refused",
           [IdleSign EXCEPT !.member = m, !.loaded = Loaded(m, FALSE)])
  /\ UNCHANGED <<members, links, making, sessions>>

(* generateTokens                                                          *)
IssueTokens(s) ==
  /\ signPc[s] = "sign"
  /\ sessions' = sessions \cup {signJob[s].member}
  /\ SignGoto(s, "done")
  /\ UNCHANGED <<members, links, making, signJob>>

(* changePassword: the account of a session, found by its e-mail without   *)
(* the password, ...                                                       *)
FindOwnAccount(s, m, given, new) ==
  /\ m \in sessions
  /\ Live(m)
  /\ Start(s, "compare", [IdleSign EXCEPT !.member = m, !.given = given,
                            !.new = new, !.loaded = Loaded(m, FALSE)])
  /\ UNCHANGED <<members, links, making, sessions>>

(* ... which bcrypt.compare throws on.                                     *)
ComparePassword(s) ==
  LET j == signJob[s] IN
  /\ signPc[s] = "compare"
  /\ IF j.loaded.password = HashOf(j.given) /\ Live(j.member)
       THEN /\ members' = [members EXCEPT ![j.member].password = HashOf(j.new)]
            /\ SignGoto(s, "done")
       ELSE SignGoto(s, "refused") /\ UNCHANGED members
  /\ UNCHANGED <<links, making, sessions, signJob>>

-----------------------------------------------------------------------------
(* update stores what it is given, a password as it is.                    *)
Update(m, c) ==
  /\ Live(m)
  /\ "email" \in c.sets => EmailFree(c.doc.email, m)
  /\ members' = [members EXCEPT ![m] =
       LET old == members[m] IN
       [old EXCEPT
         !.email    = IF "email" \in c.sets THEN c.doc.email ELSE old.email,
         !.password = IF "password" \in c.sets
                        THEN [how |-> "plain", text |-> c.doc.password.text]
                        ELSE old.password,
         !.verified = IF "verified" \in c.sets THEN c.doc.verified ELSE old.verified,
         !.banned   = IF "banned" \in c.sets THEN c.doc.banned ELSE old.banned,
         !.deleted  = IF "deleted" \in c.sets THEN c.doc.deleted ELSE old.deleted]]
  /\ UNCHANGED <<links, making, sessions, signPc, signJob>>

(* softDelete, banUser, unbanUser, verifyEmail of users.service.ts.        *)
SetFlag(m) ==
  /\ Live(m)
  /\ \/ members' = [members EXCEPT ![m].deleted = TRUE]
     \/ members' = [members EXCEPT ![m].banned = ~ @]
     \/ ~ members[m].verified /\ members' = [members EXCEPT ![m].verified = TRUE]
  /\ UNCHANGED <<links, making, sessions, signPc, signJob>>

(* upsertUser of the seed, at a start of the process: the account is       *)
(* created, or its password is reset in development; extra is what the     *)
(* development user gets besides.                                          *)
SeedAccount(m, e, p, devMode, extra) ==
  /\ \/ /\ ~ members[m].exists /\ EmailFree(e, m)
        /\ members' = [members EXCEPT ![m] =
             [NoMember EXCEPT !.exists = TRUE, !.email = e,
                              !.password = HashOf(p), !.verified = TRUE]]
     \/ /\ members[m].exists /\ members[m].email = e /\ devMode
        /\ members' = [members EXCEPT ![m].password = HashOf(p),
                                      ![m].verified = @ \/ extra]
  /\ UNCHANGED <<links, making, sessions, signPc, signJob>>

AuthInit ==
  /\ members \in InitMembers
  /\ links = << >>
  /\ making = << >>
  /\ sessions = {}
  /\ signPc = [s \in SignSlots |-> "new"]
  /\ signJob = [s \in SignSlots |-> IdleSign]

FollowLink(s) ==
  \/ \E k \in DOMAIN links, p \in Passwords : FindLink(s, k, p)
  \/ FindHolder(s)
  \/ ActOnMember(s)
  \/ MarkLink(s)
  \/ FindAgain(s)

SignIn(s) ==
  \/ \E m \in Members :
       \/ \E p \in Passwords : LogIn(s, m, p)
       \/ Refresh(s, m)
       \/ \E given, new \in Passwords : FindOwnAccount(s, m, given, new)
  \/ ComparePassword(s)
  \/ IssueTokens(s)

AccountStep(m) ==
  \/ \E e \in Emails, p \in Passwords : Register(m, e, p)
  \/ \E kind \in Kinds : AskForLink(m, kind)
  \/ \E c \in MemberPatches : Update(m, c)
  \/ SetFlag(m)
  \/ \E e \in Emails, p \in Passwords, devMode, extra \in BOOLEAN :
       SeedAccount(m, e, p, devMode, extra)

AuthNext ==
  \/ \E s \in SignSlots : FollowLink(s) \/ SignIn(s)
  \/ \E m \in Members : AccountStep(m)
  \/ \E i \in DOMAIN making : ClearLinks(i) \/ InsertLink(i)
  \/ \E k \in DOMAIN links : ExpireLink(k)

AuthSpec == AuthInit /\ [][AuthNext]_authVars
=============================================================================
