------------------------------ MODULE Sessions ------------------------------
(***************************************************************************)
(* The sessions of one account: the refresh tokens AuthService has stored, *)
(* the set that lists them for revocation, the black list of access        *)
(* tokens, and the account's row. A pipeline is several commands, not a    *)
(* transaction: other requests get in between, and it may be cut short.    *)
(* Tokens are numbered in the order their keys were set.                   *)
(***************************************************************************)
EXTENDS EmailCodes

CONSTANT MaxTokens  \* bound: token pairs issued and codes asked for in all

ASSUME SessionsAssumption == MaxTokens \in Nat \ {0}

Tokens == 1..MaxTokens

VARIABLES
    status,    \* users.status of the account: 1, or 3 after Logoff
    issued,    \* number of refresh tokens stored so far
    refresh,   \* refresh:{id} keys that are there
    listed,    \* members of the account's refresh-user set
    due,       \* the set lives as long as this token, 0 for no time to live
    elapsed,   \* tokens up to this one have expired
    blacklist, \* access tokens that were used to log out
    held,      \* pairs a client has received and that have not expired
    torn,      \* history: tokens listed during a revocation that had no part
               \*          in it, and unlisted all the same
    ended      \* history: tokens exchanged, or alive when a request began to
               \*          revoke them and it has done so since

store == <<status, issued, refresh, listed, due, elapsed, blacklist, held>>
history == <<torn, ended>>
sessionVars == <<store, history>>
vars == <<req, codeVars, sessionVars>>

Places == {"idle", "count mail", "expire mails", "mail", "store code",
           "count attempt", "expire attempts", "compare", "use up", "update",
           "password", "count failure", "expire failures", "clear", "status",
           "set", "add", "renew", "members", "del tokens", "del set"}

Request(n) == [at : Places, op : {"none", "change", "reset", "logoff"},
               token : 0..n, ids : SUBSET (1..n), cut : SUBSET (1..n)]

SessionsTypeOK ==
    /\ CodesTypeOK
    /\ status \in {1, 3}
    /\ issued \in 0..MaxTokens
    /\ due \in 0..issued /\ elapsed \in 0..issued
    /\ refresh \cup listed \cup held \cup blacklist \cup torn \cup ended
          \subseteq 1..issued
    /\ req \in [Handlers -> Request(issued)]

Init ==
    /\ CodesInit
    /\ status = 1 /\ issued = 0
    /\ refresh = {} /\ listed = {} /\ due = 0 /\ elapsed = 0
    /\ blacklist = {} /\ held = {}
    /\ torn = {} /\ ended = {}

-----------------------------------------------------------------------------
(* issueTokens: SET, SADD, EXPIRE.                                         *)

SetToken(h) ==
    /\ At(h, "set") /\ issued + codes < MaxTokens
    /\ issued' = issued + 1
    /\ refresh' = refresh \cup {issued + 1}
    /\ Becomes(h, [req[h] EXCEPT !.at = "add", !.token = issued + 1])
    /\ UNCHANGED <<codeVars, status, listed, due, elapsed, blacklist, held,
                   torn, ended>>

AddToken(h) ==
    /\ At(h, "add")
    /\ listed' = listed \cup {req[h].token}
    /\ GoTo(h, "renew")
    /\ UNCHANGED <<codeVars, status, issued, refresh, due, elapsed, blacklist,
                   held, history>>

RenewSetBug(h) ==  \* EXPIRE only for a set that has no lifetime yet
    /\ At(h, "renew")
    /\ due' = IF listed # {} /\ due = 0 THEN issued ELSE due
    /\ held' \in {held, held \cup {t \in {req[h].token} : t > elapsed}}
    /\ GoTo(h, "idle")
    /\ UNCHANGED <<codeVars, status, issued, refresh, listed, elapsed,
                   blacklist, history>>

(* The pair goes to the client unless UpdateLastLogin or the answer fails. *)
RenewSet(h) ==
    /\ At(h, "renew")
    /\ due' = IF listed = {} THEN 0 ELSE issued
    /\ held' \in {held, held \cup {t \in {req[h].token} : t > elapsed}}
    /\ GoTo(h, "idle")
    /\ UNCHANGED <<codeVars, status, issued, refresh, listed, elapsed,
                   blacklist, history>>

-----------------------------------------------------------------------------
(* RevokeAll: SMEMBERS, then a DEL for each token and one for the set.     *)

Members(h) ==
    /\ At(h, "members")
    /\ Becomes(h, [req[h] EXCEPT !.at = "del tokens", !.ids = listed])
    /\ UNCHANGED <<codeVars, sessionVars>>

DelTokensBug(h) ==  \* a command of the pipeline fails and nobody looks
    /\ At(h, "del tokens")
    /\ \E done \in SUBSET req[h].ids : refresh' = refresh \ done
    /\ GoTo(h, "del set")
    /\ UNCHANGED <<codeVars, status, issued, listed, due, elapsed, blacklist,
                   held, history>>

DelTokens(h) ==
    /\ At(h, "del tokens")
    /\ \E done \in SUBSET req[h].ids :
          /\ refresh' = refresh \ done
          /\ GoTo(h, IF done = req[h].ids THEN "del set" ELSE "idle")
    /\ UNCHANGED <<codeVars, status, issued, listed, due, elapsed, blacklist,
                   held, history>>

DelSet(h) ==
    /\ At(h, "del set")
    /\ listed' = {} /\ due' = 0
    /\ torn' = torn \cup (listed \ req[h].ids)
    /\ ended' = ended \cup (req[h].cut \ torn')
    /\ GoTo(h, "idle")
    /\ UNCHANGED <<codeVars, status, issued, refresh, elapsed, blacklist,
                   held>>

-----------------------------------------------------------------------------
(* Login.                                                                  *)

LoginAllowedBug(h) ==  \* n > 5
    /\ count["login-fail"] <= LoginLimit
    /\ Begin(h, "password")
    /\ UNCHANGED <<codeVars, sessionVars>>

LoginAllowed(h) ==
    /\ count["login-fail"] < LoginLimit
    /\ Begin(h, "password")
    /\ UNCHANGED <<codeVars, sessionVars>>

(* Row and password are right, or something is wrong.                      *)
CheckPassword(h) ==
    /\ At(h, "password")
    /\ \/ status = 1 /\ GoTo(h, "clear")
       \/ GoTo(h, "count failure")
    /\ UNCHANGED <<codeVars, sessionVars>>

LoginFailed(h) ==
    /\ At(h, "count failure")
    /\ Incr("login-fail")
    /\ GoTo(h, IF First("login-fail") THEN Expiring("login-fail") ELSE "idle")
    /\ UNCHANGED <<code, codes, cooldown, ttl, lost, sessionVars>>

(* The error of DEL is ignored.                                            *)
ClearFailures(h) ==
    /\ At(h, "clear")
    /\ Drop("login-fail") \/ UNCHANGED <<count, ttl, lost>>
    /\ GoTo(h, "set")
    /\ UNCHANGED <<code, codes, cooldown, sessionVars>>

-----------------------------------------------------------------------------
(* Refresh.                                                                *)

(* What the request is about to revoke counts as cut.                      *)
Revoke(h) ==
    Becomes(h, [req[h] EXCEPT !.at = "members", !.cut = held \cap refresh])

(* GETDEL: a token that is not there revokes every session, and so does an *)
(* error.                                                                  *)
Refresh(h, t) ==
    /\ t \in held
    /\ At(h, "idle")
    /\ \/ /\ t \in refresh
          /\ refresh' = refresh \ {t} /\ ended' = ended \cup {t}
          /\ GoTo(h, "status")
       \/ Revoke(h) /\ UNCHANGED <<refresh, ended>>
    /\ UNCHANGED <<codeVars, status, issued, listed, due, elapsed, blacklist,
                   held, torn>>

CheckStatus(h) ==
    /\ At(h, "status")
    /\ GoTo(h, IF status = 1 THEN "set" ELSE "idle")
    /\ UNCHANGED <<codeVars, sessionVars>>

-----------------------------------------------------------------------------
(* Requests made with the access token of a pair, which lives no longer    *)
(* than its refresh token. Authenticate lets it pass.                      *)

Authenticated == held \ blacklist # {}

Logout(h, t) ==
    /\ t \in held \ blacklist
    /\ At(h, "idle") /\ Revoke(h)
    /\ blacklist' = blacklist \cup {t}
    /\ UNCHANGED <<codeVars, status, issued, refresh, listed, due, elapsed,
                   held, history>>

(* The old password is right.                                              *)
ChangePassword(h) ==
    /\ Authenticated
    /\ At(h, "idle")
    /\ Becomes(h, [Idle EXCEPT !.at = "update", !.op = "change"])
    /\ UNCHANGED <<codeVars, sessionVars>>

ResetPassword(h) == VerifyEmailCode(h, "reset") /\ UNCHANGED sessionVars

Logoff(h) ==
    /\ Authenticated
    /\ VerifyEmailCode(h, "logoff")
    /\ UNCHANGED sessionVars

UseUpCode(h) == UseUp(h, "update") /\ UNCHANGED sessionVars

(* UpdatePassword or users.Logoff: the row, before the sessions.           *)
UpdateAccount(h) ==
    /\ At(h, "update")
    /\ req[h].op = "reset" => status = 1  \* FindByEmail
    /\ status' = IF req[h].op = "logoff" THEN 3 ELSE status
    /\ Revoke(h)
    /\ UNCHANGED <<codeVars, issued, refresh, listed, due, elapsed, blacklist,
                   held, history>>

-----------------------------------------------------------------------------
(* Tokens live equally long, so they expire in the order they were set.    *)
TokenExpires ==
    /\ elapsed < issued
    /\ elapsed' = elapsed + 1
    /\ refresh' = refresh \ {elapsed'} /\ held' = held \ {elapsed'}
    /\ blacklist' = blacklist \ {elapsed'}
    /\ torn' = torn \ {elapsed'} /\ ended' = ended \ {elapsed'}
    /\ UNCHANGED <<req, codeVars, status, issued, listed, due>>

(* Each EXPIRE gives the set the lifetime of a token that is set now. The  *)
(* set may run out between the SADD and the EXPIRE of a token.             *)
SetExpires ==
    /\ due > 0 /\ elapsed >= due
    /\ listed' = {} /\ due' = 0
    /\ torn' = torn \cup {req[h].token : h \in {k \in Handlers : At(k, "renew")}}
    /\ UNCHANGED <<req, codeVars, status, issued, refresh, elapsed,
                   blacklist, held, ended>>

RequestStep(h) ==
    \/ /\ CodeStep(h)
       /\ issued + codes' <= MaxTokens
       /\ UNCHANGED sessionVars
    \/ LoginAllowed(h) \/ CheckPassword(h) \/ LoginFailed(h)
    \/ SetExpiry(h, "login-fail", "idle") /\ UNCHANGED sessionVars
    \/ ClearFailures(h)
    \/ SetToken(h) \/ AddToken(h) \/ RenewSet(h)
    \/ \E t \in Tokens : Refresh(h, t) \/ Logout(h, t)
    \/ CheckStatus(h)
    \/ ChangePassword(h) \/ ResetPassword(h) \/ Logoff(h)
    \/ UseUpCode(h) \/ UpdateAccount(h)
    \/ Members(h) \/ DelTokens(h) \/ DelSet(h)
    \/ EndRequest(h) /\ UNCHANGED sessionVars

Next ==
    \/ \E h \in Handlers : RequestStep(h)
    \/ KeysElapse /\ UNCHANGED sessionVars
    \/ TokenExpires
    \/ SetExpires

Spec == Init /\ [][Next]_vars

-----------------------------------------------------------------------------
(* Every session a client can still renew is listed, so that a revocation  *)
(* finds it, but those that were added to the list while a revocation was  *)
(* at work (auth.go issueTokens, RevokeAll; the set's lifetime, the order  *)
(* of its pipeline and a pipeline that is cut short must not lose any).    *)
SessionsAreListed == held \cap refresh \subseteq listed \cup torn

(* A session that was exchanged, or alive when its user logged out, when   *)
(* the password was changed or reset, the account closed or a spent token  *)
(* came back, and has been revoked since, stays ended: it survives no      *)
(* pipeline that was cut short and does not come back, but for torn ones   *)
(* (auth.go Refresh, Logout, ChangePassword, ResetPassword, Logoff).       *)
EndedSessionsStayEnded == ended \cap refresh = {}

(* The counter of failed logins is read before the password is compared    *)
(* and raised after it: requests that run at the same time get past the    *)
(* limit, each of them once (auth.go loginAllowed, loginFailed).           *)
FailuresAreLimited ==
    count["login-fail"] < LoginLimit + Cardinality(Handlers)
=============================================================================
