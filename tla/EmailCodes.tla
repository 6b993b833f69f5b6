----------------------------- MODULE EmailCodes -----------------------------
(***************************************************************************)
(* The codes AuthService mails for one address and one scene, and the      *)
(* counters with a lifetime that limit sending, trying codes and failed    *)
(* logins. All of it is in Redis: a command is one step, what a request    *)
(* does with several commands interleaves with the other requests, and a   *)
(* request may end between any two of them with an error or a crash.       *)
(***************************************************************************)
EXTENDS Integers, FiniteSets

CONSTANTS
    Handlers,   \* bound: requests in flight at once
    LoginLimit, \* failed logins before an address is refused (5)
    CodeLimit,  \* tries of one code (5)
    SendLimit,  \* mails in an hour (5)
    MaxCodes,   \* bound: mails ever asked for
    MaxCount    \* bound: no request starts to count beyond it

ASSUME EmailCodesAssumption ==
    /\ IsFiniteSet(Handlers)
    /\ {LoginLimit, CodeLimit, SendLimit, MaxCodes, MaxCount} \subseteq Nat \ {0}

Counters == {"login-fail", "email-attempt", "email-send"}

VARIABLES
    req,      \* the local variables of each request, and where it is
    code,     \* email-code key is there
    codes,    \* mails asked for so far
    cooldown, \* email-cooldown key is there
    count,    \* value of each counter, 0 when the key is absent
    ttl,      \* counters that have a time to live
    lost      \* history: counters whose EXPIRE was lost, and not yet repaired

codeVars == <<code, codes, cooldown, count, ttl, lost>>

Idle == [at |-> "idle",   \* the next Redis command or statement
         op |-> "none",   \* the change of the account it is serving
         token |-> 0,     \* the token it is issuing
         ids |-> {},      \* what SMEMBERS answered
         cut |-> {}]      \* tokens alive when it began to revoke

At(h, where) == req[h].at = where
Becomes(h, r) == req' = [req EXCEPT ![h] = r]
GoTo(h, where) ==
    Becomes(h, IF where = "idle" THEN Idle ELSE [req[h] EXCEPT !.at = where])
Begin(h, where) == At(h, "idle") /\ GoTo(h, where)

CodesTypeOK ==
    /\ code \in BOOLEAN /\ codes \in 0..MaxCodes
    /\ cooldown \in BOOLEAN
    /\ count \in [Counters -> Nat]
    /\ ttl \subseteq {k \in Counters : count[k] > 0}
    /\ lost \subseteq Counters \ ttl

CodesInit ==
    /\ req = [h \in Handlers |-> Idle]
    /\ code = FALSE /\ codes = 0
    /\ cooldown = FALSE
    /\ count = [k \in Counters |-> 0]
    /\ ttl = {} /\ lost = {}

-----------------------------------------------------------------------------
(* Counters.                                                               *)

Incr(k) == count' = [count EXCEPT ![k] = @ + 1]

Drop(k) ==
    /\ count' = [count EXCEPT ![k] = 0]
    /\ ttl' = ttl \ {k} /\ lost' = lost \ {k}

FirstBug(k) == count[k] = 1  \* the lifetime is set at the second count

(* INCR answered 1: this request has created the key.                      *)
First(k) == count[k] = 0

(* EXPIRE, which does nothing when the key has gone meanwhile.             *)
Expire(k) ==
    /\ ttl' = IF count[k] > 0 THEN ttl \cup {k} ELSE ttl
    /\ lost' = lost \ {k}

(* EXPIRE failed, or the request ended before it.                          *)
LoseExpire(k) ==
    /\ lost' = IF count[k] > 0 /\ k \notin ttl THEN lost \cup {k} ELSE lost
    /\ UNCHANGED ttl

(* The key's time is over.                                                 *)
Elapse(k) ==
    /\ k \in ttl
    /\ Drop(k)
    /\ UNCHANGED <<req, code, codes, cooldown>>

Limit == [k \in Counters |-> CASE k = "login-fail" -> LoginLimit
                               [] k = "email-attempt" -> CodeLimit
                               [] OTHER -> SendLimit]

Expiring(k) == CASE k = "login-fail" -> "expire failures"
                 [] k = "email-attempt" -> "expire attempts"
                 [] OTHER -> "expire mails"

(* INCR, and where the request goes with the count: on, or out.            *)
Count(h, k, on) ==
    /\ Incr(k)
    /\ GoTo(h, IF First(k) THEN Expiring(k)
               ELSE IF count[k] + 1 > Limit[k] THEN "idle" ELSE on)
    /\ UNCHANGED <<code, codes, cooldown, ttl, lost>>

(* The error of EXPIRE is ignored.                                         *)
SetExpiry(h, k, on) ==
    /\ At(h, Expiring(k))
    /\ Expire(k) \/ LoseExpire(k)
    /\ GoTo(h, on)
    /\ UNCHANGED <<code, codes, cooldown, count>>

-----------------------------------------------------------------------------
(* SendEmailCode.                                                          *)

SendEmailCode(h) ==
    /\ codes < MaxCodes /\ count["email-send"] < MaxCount
    /\ ~cooldown
    /\ Begin(h, "count mail")
    /\ cooldown' = TRUE /\ codes' = codes + 1
    /\ UNCHANGED <<code, count, ttl, lost>>

CountMail(h) == At(h, "count mail") /\ Count(h, "email-send", "mail")

Mail(h) ==
    /\ At(h, "mail")
    /\ \/ GoTo(h, "store code") /\ UNCHANGED cooldown
       \/ GoTo(h, "idle") /\ cooldown' = FALSE
    /\ UNCHANGED <<code, codes, count, ttl, lost>>

StoreCode(h) ==
    /\ At(h, "store code")
    /\ code' = TRUE
    /\ GoTo(h, "idle")
    /\ UNCHANGED <<codes, cooldown, count, ttl, lost>>

CooldownEnds ==
    /\ cooldown /\ cooldown' = FALSE
    /\ UNCHANGED <<req, code, codes, count, ttl, lost>>

CodeExpires ==
    /\ code /\ code' = FALSE
    /\ UNCHANGED <<req, codes, cooldown, count, ttl, lost>>

-----------------------------------------------------------------------------
(* VerifyEmailCode, on behalf of ResetPassword or Logoff.                  *)

VerifyEmailCode(h, what) ==
    /\ code /\ count["email-attempt"] < MaxCount
    /\ At(h, "idle")
    /\ Becomes(h, [Idle EXCEPT !.at = "count attempt", !.op = what])
    /\ UNCHANGED codeVars

(* An INCR that fails answers 0 with an error nobody looks at.             *)
CountAttempt(h) ==
    /\ At(h, "count attempt")
    /\ \/ Count(h, "email-attempt", "compare")
       \/ GoTo(h, "compare") /\ UNCHANGED codeVars

(* Right or wrong; a right one is used up with the attempts, in one MULTI. *)
Compare(h) ==
    /\ At(h, "compare")
    /\ GoTo(h, "use up") \/ GoTo(h, "idle")
    /\ UNCHANGED codeVars

UseUp(h, on) ==
    /\ At(h, "use up")
    /\ code' = FALSE
    /\ Drop("email-attempt")
    /\ GoTo(h, on)
    /\ UNCHANGED <<codes, cooldown>>

(* A request ends with an error or a crash: every command fails that way   *)
(* unless its action says otherwise.                                       *)
EndRequest(h) ==
    /\ ~At(h, "idle")
    /\ GoTo(h, "idle")
    /\ LET about == {k \in Counters : At(h, Expiring(k))}
       IN IF about = {} THEN UNCHANGED <<ttl, lost>>
                        ELSE \E k \in about : LoseExpire(k)
    /\ UNCHANGED <<code, codes, cooldown, count>>

CodeStep(h) ==
    \/ SendEmailCode(h)
    \/ CountMail(h)
    \/ SetExpiry(h, "email-send", "mail")
    \/ Mail(h)
    \/ StoreCode(h)
    \/ CountAttempt(h)
    \/ SetExpiry(h, "email-attempt", "compare")
    \/ Compare(h)

KeysElapse ==
    \/ \E k \in Counters : Elapse(k)
    \/ CooldownEnds
    \/ CodeExpires

-----------------------------------------------------------------------------
(* A counter that is there has a time to live or a request about to give   *)
(* it one, unless an EXPIRE was lost; then it stays for ever, and at its   *)
(* limit it refuses the address for ever: nothing else takes it away from  *)
(* an address that is refused (auth.go loginFailed, VerifyEmailCode,       *)
(* SendEmailCode).                                                         *)
CountersEnd ==
    \A k \in Counters :
        count[k] > 0 => \/ k \in ttl \cup lost
                        \/ \E h \in Handlers : At(h, Expiring(k))
=============================================================================
