----------------------------- MODULE AuthProps ------------------------------
(***************************************************************************)
(* Correctness of links and passwords: properties of module AuthTokens.    *)
(***************************************************************************)
EXTENDS AuthTokens

(* Two links of one kind for one account are valid at a time only if their *)
(* making overlapped, each deleting the earlier ones before the other was  *)
(* stored: otherwise an e-mail that was superseded no longer works.        *)
OneValidLink ==
  \A k, n \in DOMAIN links :
    /\ k < n
    /\ links[k].kind = links[n].kind /\ links[k].member = links[n].member
    /\ Usable(k) /\ Usable(n)
    => links[n].cleared < k

(* A reset or verification link is used up only by the effect it was sent  *)
(* for: whatever happens to the account while the request runs, its holder *)
(* can follow the link again until it has worked.                          *)
UsedHasActed ==
  \A k \in DOMAIN links :
    links[k].used /\ links[k].kind # "magic" => links[k].acted

(* A request that is through with a link, or about to sign its holder in,  *)
(* leaves none that works.                                                 *)
DoneIsSpent ==
  \A s \in SignSlots :
    signPc[s] \in {"sign", "done"} /\ signJob[s].link # 0
    => ~ Usable(signJob[s].link)

(* A link works until it has worked, and not afterwards: the effect, the   *)
(* mark and the session are separate awaits of auth.service.ts.            *)
UsedByItsEffect == UsedHasActed /\ DoneIsSpent

(* http-requests/auth.http:92 "Cambiar contraseña del usuario              *)
(* autenticado": a change of password with the right current one is not    *)
(* refused.                                                                *)
ChangeHeeded ==
  [][\A s \in SignSlots :
       /\ signPc[s] = "compare" /\ signPc'[s] = "refused"
       => \/ ~ Live(signJob[s].member)
          \/ members[signJob[s].member].password # HashOf(signJob[s].given)]_authVars
=============================================================================
