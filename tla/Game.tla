-------------------------------- MODULE Game --------------------------------
(***************************************************************************)
(* The world of game/: players, drops, hidden coupons and trivia, which    *)
(* the process keeps in memory, and the coins and skins of accounts, which *)
(* it stores.  One map; positions, chat and broadcasts are left out, and   *)
(* so are redeemZaycoins and cleanOldSessions, which nothing calls.        *)
(*                                                                         *)
(* A handler runs without interruption up to its write to the database,    *)
(* which is still on its way when the next handler runs.  A socket is one  *)
(* connection and is not used again.                                       *)
(***************************************************************************)
EXTENDS Integers, FiniteSetsExt, SequencesExt

CONSTANTS
  Sockets,
  Gamers,      \* accounts
  Guest,       \* no account
  Drops, HiddenCoupons,   \* ids
  Skins, NoSkin,
  MaxClaims,   \* claims of a drop, 20 in the code
  Questions,   \* QUESTION_COUNT, 5 in the code
  MaxLosses    \* bound on failed writes and restarts

ASSUME GameAssumption ==
  /\ Guest \notin Gamers /\ NoSkin \notin Skins /\ Gamers \cap Sockets = {}
  /\ MaxClaims \in Nat \ {0} /\ Questions \in Nat \ {0}
  /\ MaxLosses \in Nat

VARIABLES
  sockets,  \* what became of every connection
  players,  \* the map of a room, by socket
  drops,    \* every drop: its state and the keys in claims
  hidden,   \* every hidden coupon: its state and foundBy
  trivia,   \* the session of every socket and the rewards due to it
  stored,   \* zaycoins and activeAvatarSkin of every account
  writes,   \* updates on their way to the database
  losses,   \* failed writes and restarts so far
  history   \* see GameHistory

gameVars == <<sockets, players, drops, hidden, trivia, stored, writes, losses,
              history>>

Profiles == [coins : Int, skin : Skins \cup {NoSkin}]
Owners == Gamers \cup {Guest}

(* An update is an increment of the coins or a new skin.                   *)
Writes == [owner : Gamers, coins : Int, skin : Skins \cup {NoSkin}]

(* gone: removed, expired, or forgotten by a restart.                      *)
Stages == {"announced", "none", "open", "gone"}

(* won[u]: trivia rewards that were paid; lost[u]: coins of writes   *)
(* that failed; owner[k]: the account a connection was made with; raced:   *)
(* the connections that ended while they were being made.                  *)
GameHistory == [won : [Gamers -> Nat], lost : [Gamers -> Int],
                owner : [Sockets -> Owners], raced : SUBSET Sockets]

GameTypeOK ==
  /\ sockets \in [Sockets -> {"new", "open", "left"}]
  /\ players \in [Sockets -> [at : {"absent", "reading", "read", "in"},
                              owner : Owners, profile : Profiles]]
  /\ drops \in [Drops -> [at : Stages, claims : SUBSET (Gamers \cup Sockets)]]
  /\ hidden \in [HiddenCoupons -> [at : Stages, foundBy : SUBSET Sockets]]
  /\ trivia \in [Sockets -> [joined : BOOLEAN, answered : SUBSET (1..Questions),
                             score : 0..Questions, due : Seq({200, 500})]]
  /\ stored \in [Gamers -> Profiles]
  /\ writes \in Seq(Writes)
  /\ losses \in 0..MaxLosses
  /\ history \in GameHistory

-----------------------------------------------------------------------------
NoProfile == [coins |-> 0, skin |-> NoSkin]
NoTrivia == [joined |-> FALSE, answered |-> {}, score |-> 0, due |-> << >>]
Absent == [at |-> "absent", owner |-> Guest, profile |-> NoProfile]

GameInit ==
  /\ sockets = [k \in Sockets |-> "new"]
  /\ players = [k \in Sockets |-> Absent]
  /\ drops = [d \in Drops |-> [at |-> "none", claims |-> {}]]
  /\ hidden = [c \in HiddenCoupons |-> [at |-> "none", foundBy |-> {}]]
  /\ trivia = [k \in Sockets |-> NoTrivia]
  /\ stored = [u \in Gamers |-> NoProfile]
  /\ writes = << >>
  /\ losses = 0
  /\ history = [won |-> [u \in Gamers |-> 0], lost |-> [u \in Gamers |-> 0],
                 owner |-> [k \in Sockets |-> Guest], raced |-> {}]

(* A socket whose messages still arrive, and which getPlayer finds.        *)
Playing(k) == sockets[k] = "open" /\ players[k].at = "in"

(* addZaycoins: the coins in memory at once, the stored ones later.        *)
AddCoins(k, amount) ==
  /\ players' = [players EXCEPT ![k].profile.coins = @ + amount]
  /\ writes' = IF players[k].owner = Guest THEN writes
               ELSE Append(writes, [owner |-> players[k].owner, coins |-> amount,
                                    skin |-> NoSkin])

-----------------------------------------------------------------------------
(* handleConnection and createPlayer: a guest enters the room at once, ... *)
Connect(k, owner) ==
  /\ sockets[k] = "new"
  /\ sockets' = [sockets EXCEPT ![k] = "open"]
  /\ players' = [players EXCEPT ![k] =
       [Absent EXCEPT !.at = IF owner = Guest THEN "in" ELSE "reading", !.owner = owner]]
  /\ history' = [history EXCEPT !.owner[k] = owner]
  /\ UNCHANGED <<drops, hidden, trivia, stored, writes, losses>>

(* ... for an account its profile is read, ...                             *)
ReadProfile(k) ==
  /\ players[k].at = "reading"
  /\ players' = [players EXCEPT ![k].at = "read", ![k].profile = stored[players[k].owner]]
  /\ UNCHANGED <<sockets, drops, hidden, trivia, stored, writes, losses, history>>

(* ... and then the player enters, whether the client is still there or not.*)
Enter(k) ==
  /\ players[k].at = "read"
  /\ players' = [players EXCEPT ![k].at = "in"]
  /\ UNCHANGED <<sockets, drops, hidden, trivia, stored, writes, losses, history>>

Leave(k, removed) ==
  /\ sockets[k] = "open"
  /\ sockets' = [sockets EXCEPT ![k] = "left"]
  /\ players' = IF removed THEN [players EXCEPT ![k] = Absent] ELSE players
  /\ history' = IF players[k].at = "in" THEN history
                ELSE [history EXCEPT !.raced = @ \cup {k}]
  /\ UNCHANGED <<drops, hidden, trivia, stored, writes, losses>>

(* Faulty variant: only players with an account are removed.               *)
DisconnectKeepsGuest(k) == Leave(k, players[k].at = "in" /\ players[k].owner # Guest)

(* handleDisconnect and removePlayer, which finds the players of the room. *)
Disconnect(k) == Leave(k, players[k].at = "in")

-----------------------------------------------------------------------------
(* triggerDrop announces a drop, its timer opens it, and it expires;       *)
(* handleScavengerHunt hides coupons.  claimDrop refuses what expired and  *)
(* the cleanup removes it.                                                 *)
MoveOn ==
  /\ \/ \E d \in Drops :
          \E step \in {<<"none", "announced">>, <<"announced", "open">>, <<"open", "gone">>} :
            /\ drops[d].at = step[1]
            /\ drops' = [drops EXCEPT ![d].at = step[2]]
            /\ UNCHANGED hidden
     \/ \E c \in HiddenCoupons :
          \E step \in {<<"none", "open">>, <<"open", "gone">>} :
            /\ hidden[c].at = step[1]
            /\ hidden' = [hidden EXCEPT ![c].at = step[2]]
            /\ UNCHANGED drops
  /\ UNCHANGED <<sockets, players, trivia, stored, writes, losses, history>>

(* Faulty variant: claims are told apart by connection.                    *)
ClaimBySocket(k) == k

ClaimKey(k) == IF players[k].owner = Guest THEN k ELSE players[k].owner

(* handleClaimDrop and claimDrop: the last claim removes the drop.         *)
ClaimDrop(k, d) ==
  LET claims == drops[d].claims \cup {ClaimKey(k)} IN
  /\ Playing(k)
  /\ drops[d].at = "open"
  /\ ClaimKey(k) \notin drops[d].claims
  /\ Cardinality(drops[d].claims) < MaxClaims
  /\ drops' = [drops EXCEPT ![d] =
       [at |-> IF Cardinality(claims) = MaxClaims THEN "gone" ELSE "open",
        claims |-> claims]]
  /\ AddCoins(k, 300)
  /\ UNCHANGED <<sockets, hidden, trivia, stored, losses, history>>

(* handleMove and checkScavengerFind                                       *)
FindCoupon(k, c) ==
  /\ Playing(k)
  /\ hidden[c].at = "open"
  /\ k \notin hidden[c].foundBy
  /\ hidden' = [hidden EXCEPT ![c].foundBy = @ \cup {k}]
  /\ AddCoins(k, 150)
  /\ UNCHANGED <<sockets, drops, trivia, stored, losses, history>>

(* joinSession: every session starts active, so that none is shared and a  *)
(* new one replaces the player's last.                                     *)
JoinTrivia(k) ==
  /\ Playing(k)
  /\ trivia' = [trivia EXCEPT ![k] = [NoTrivia EXCEPT !.joined = TRUE,
                                                       !.due = trivia[k].due]]
  /\ UNCHANGED <<sockets, players, drops, hidden, stored, writes, losses, history>>

(* handleTriviaAnswer: the reward of a session that this answer ends.      *)
Reward(session) ==
  IF session.answered # 1..Questions THEN 0
  ELSE IF session.score = Questions THEN 500
  ELSE IF session.score = Questions - 1 THEN 200 ELSE 0

(* Faulty variant: a question can be answered again.                       *)
AnswerableAgain(k, q) == trivia[k].joined

(* submitAnswer refuses a question the session has an answer to.           *)
Answerable(k, q) == trivia[k].joined /\ q \notin trivia[k].answered

(* handleTriviaAnswer up to its first await.  An answer of null, which     *)
(* leaves the question open and scores nothing, is no step.                *)
AnswerTrivia(k, q, correct) ==
  LET session == [trivia[k] EXCEPT !.answered = @ \cup {q},
                                   !.score = IF correct THEN @ + 1 ELSE @]
      reward == Reward(session)
  IN  /\ sockets[k] = "open"
      /\ Answerable(k, q)
      /\ trivia' = [trivia EXCEPT ![k] =
           IF reward = 0 THEN session
           ELSE [session EXCEPT !.due = Append(@, reward)]]
      /\ UNCHANGED <<sockets, players, drops, hidden, stored, writes, losses, history>>

(* The handler goes on after the await: addZaycoins, which pays nothing to *)
(* a player that is no longer there.                                       *)
PayReward(k) ==
  LET reward == Head(trivia[k].due)
      u == players[k].owner
  IN  /\ trivia[k].due # << >>
      /\ trivia' = [trivia EXCEPT ![k].due = Tail(@)]
      /\ IF players[k].at = "in"
           THEN /\ AddCoins(k, reward)
                /\ history' = IF u = Guest THEN history
                              ELSE [history EXCEPT !.won[u] = @ + reward]
           ELSE UNCHANGED <<players, writes, history>>
      /\ UNCHANGED <<sockets, drops, hidden, stored, losses>>

(* equipSkin                                                               *)
EquipSkin(k, skin) ==
  /\ Playing(k)
  /\ players[k].owner # Guest
  /\ players' = [players EXCEPT ![k].profile.skin = skin]
  /\ writes' = Append(writes, [owner |-> players[k].owner, coins |-> 0, skin |-> skin])
  /\ UNCHANGED <<sockets, drops, hidden, trivia, stored, losses, history>>

-----------------------------------------------------------------------------
(* findByIdAndUpdate with $inc, or with the skin.                          *)
Applied(w) ==
  [stored[w.owner] EXCEPT !.coins = @ + w.coins,
                          !.skin = IF w.skin = NoSkin THEN @ ELSE w.skin]

(* The database takes the updates in any order, ...                        *)
ApplyWrite(i) ==
  /\ stored' = [stored EXCEPT ![writes[i].owner] = Applied(writes[i])]
  /\ writes' = RemoveAt(writes, i)
  /\ UNCHANGED <<sockets, players, drops, hidden, trivia, losses, history>>

(* ... or refuses one, ...                                                 *)
LoseWrite(i) ==
  /\ losses < MaxLosses
  /\ losses' = losses + 1
  /\ writes' = RemoveAt(writes, i)
  /\ history' = [history EXCEPT !.lost[writes[i].owner] = @ + writes[i].coins]
  /\ UNCHANGED <<sockets, players, drops, hidden, trivia, stored>>

(* The coins of the updates that are on their way to an account.           *)
OnTheWay(u) ==
  LET share == [i \in DOMAIN writes |->
                  IF writes[i].owner = u THEN writes[i].coins ELSE 0]
  IN  SumFunctionOnSet(share, DOMAIN writes)

(* ... and a restart of the process forgets all but the database.          *)
Restart ==
  /\ losses < MaxLosses
  /\ losses' = losses + 1
  /\ sockets' = [k \in Sockets |-> IF sockets[k] = "new" THEN "new" ELSE "left"]
  /\ players' = [k \in Sockets |-> Absent]
  /\ drops' = [d \in Drops |-> [drops[d] EXCEPT !.at = IF @ = "none" THEN @ ELSE "gone"]]
  /\ hidden' = [c \in HiddenCoupons |-> [hidden[c] EXCEPT !.at = IF @ = "none" THEN @ ELSE "gone"]]
  /\ trivia' = [k \in Sockets |-> NoTrivia]
  /\ writes' = << >>
  /\ history' = [history EXCEPT !.lost = [u \in Gamers |-> @[u] + OnTheWay(u)]]
  /\ UNCHANGED stored

SocketStep(k) ==
  \/ \E owner \in Owners : Connect(k, owner)
  \/ ReadProfile(k)
  \/ Enter(k)
  \/ Disconnect(k)
  \/ \E d \in Drops : ClaimDrop(k, d)
  \/ \E c \in HiddenCoupons : FindCoupon(k, c)
  \/ JoinTrivia(k)
  \/ \E q \in 1..Questions, correct \in BOOLEAN : AnswerTrivia(k, q, correct)
  \/ PayReward(k)
  \/ \E skin \in Skins : EquipSkin(k, skin)

GameNext ==
  \/ \E k \in Sockets : SocketStep(k)
  \/ MoveOn
  \/ \E i \in DOMAIN writes : ApplyWrite(i) \/ LoseWrite(i)
  \/ Restart

GameSpec == GameInit /\ [][GameNext]_gameVars
=============================================================================
