----------------------------- MODULE GameProps ------------------------------
(***************************************************************************)
(* Correctness of the game's coins and players: properties of module Game. *)
(***************************************************************************)
EXTENDS Game

(* What an account has earned: 300 for each drop it claimed, from whatever *)
(* connection, 150 for each coupon one of its connections found, and its   *)
(* trivia rewards.                                                         *)
Earned(u) ==
  300 * Cardinality({d \in Drops : u \in drops[d].claims})
  + 150 * Cardinality({f \in HiddenCoupons \X Sockets :
                         f[2] \in hidden[f[1]].foundBy /\ history.owner[f[2]] = u})
  + history.won[u]

(* The stored coins of an account, with the writes on their way and the    *)
(* ones that failed, are what it has earned, however many connections of   *)
(* the account are rewarded at a time and whatever a restart forgets.      *)
CoinsAddUp ==
  \A u \in Gamers :
    stored[u].coins + OnTheWay(u) + history.lost[u] = Earned(u)

(* Nobody sees a player whose client has left, except one that left while  *)
(* it was connecting: the disconnection came before the player was there   *)
(* to be removed.                                                          *)
GhostsOnlyFromRace ==
  \A k \in Sockets :
    players[k].at = "in" /\ sockets[k] = "left" => k \in history.raced
=============================================================================
