--------------------------- MODULE SessionsProofs ---------------------------
(***************************************************************************)
(* Proofs about EmailCodes and Sessions, for any number of requests in     *)
(* flight, any limits and any number of tokens.                            *)
(***************************************************************************)
EXTENDS Sessions, FiniteSetTheorems, TLAPS

Fields(h) == <<req[h].op, req[h].token, req[h].ids, req[h].cut>>

Others(h) == \A k \in Handlers \ {h} : req'[k] = req[k]

-----------------------------------------------------------------------------
(* What a request becomes.                                                 *)

Operations == {"none", "change", "reset", "logoff"}

LEMMA OneFieldChanged ==
  ASSUME NEW n \in Nat, NEW r \in Request(n)
  PROVE  /\ \A w \in Places : [r EXCEPT !.at = w] \in Request(n)
         /\ \A o \in Operations : [r EXCEPT !.op = o] \in Request(n)
         /\ \A m \in 0..n : [r EXCEPT !.token = m] \in Request(n)
         /\ \A s \in SUBSET (1..n) : /\ [r EXCEPT !.ids = s] \in Request(n)
                                     /\ [r EXCEPT !.cut = s] \in Request(n)
BY DEF Request, Operations

LEMMA Changed ==
  ASSUME NEW n \in Nat, NEW r \in Request(n), NEW w \in Places
  PROVE  /\ \A o \in Operations : [r EXCEPT !.at = w, !.op = o] \in Request(n)
         /\ \A m \in 0..n : [r EXCEPT !.at = w, !.token = m] \in Request(n)
         /\ \A s \in SUBSET (1..n) :
               /\ [r EXCEPT !.at = w, !.ids = s] \in Request(n)
               /\ [r EXCEPT !.at = w, !.cut = s] \in Request(n)
<1> DEFINE q == [r EXCEPT !.at = w]
<1>1. q \in Request(n)
  BY OneFieldChanged
<1>2. /\ \A o : [r EXCEPT !.at = w, !.op = o] = [q EXCEPT !.op = o]
      /\ \A m : [r EXCEPT !.at = w, !.token = m] = [q EXCEPT !.token = m]
      /\ \A s : [r EXCEPT !.at = w, !.ids = s] = [q EXCEPT !.ids = s]
      /\ \A s : [r EXCEPT !.at = w, !.cut = s] = [q EXCEPT !.cut = s]
  OBVIOUS
<1> HIDE DEF q
<1>3. /\ \A o \in Operations : [q EXCEPT !.op = o] \in Request(n)
      /\ \A m \in 0..n : [q EXCEPT !.token = m] \in Request(n)
      /\ \A s \in SUBSET (1..n) : /\ [q EXCEPT !.ids = s] \in Request(n)
                                  /\ [q EXCEPT !.cut = s] \in Request(n)
  BY <1>1, OneFieldChanged
<1> QED  BY <1>2, <1>3

LEMMA IdleIsRequest ==
  ASSUME NEW n \in Nat
  PROVE  /\ Idle \in Request(n)
         /\ Idle.at = "idle" /\ Idle.cut = {} /\ Idle.ids = {}
BY DEF Idle, Request, Places

(* A later count of tokens leaves a request what it is.                    *)
LEMMA RequestsGrow ==
  ASSUME NEW n \in Nat, NEW r \in Request(n)
  PROVE  r \in Request(n + 1)
<1>1. /\ r = [at |-> r.at, op |-> r.op, token |-> r.token,
              ids |-> r.ids, cut |-> r.cut]
      /\ r.at \in Places /\ r.op \in Operations /\ r.token \in 0..n
      /\ r.ids \in SUBSET (1..n) /\ r.cut \in SUBSET (1..n)
  BY DEF Request, Operations
<1>2. /\ r.token \in 0..n + 1
      /\ r.ids \in SUBSET (1..n + 1) /\ r.cut \in SUBSET (1..n + 1)
  BY <1>1
<1> QED  BY <1>1, <1>2 DEF Request, Operations

(* Where a request goes, and what it keeps.                                *)
LEMMA GoToMoves ==
  ASSUME SessionsTypeOK, NEW h \in Handlers, NEW w \in Places, GoTo(h, w)
  PROVE  /\ req' \in [Handlers -> Request(issued)]
         /\ Others(h)
         /\ req'[h].at = w
         /\ req'[h].cut \subseteq req[h].cut
         /\ w # "idle" => Fields(h)' = Fields(h)
<1>1. req \in [Handlers -> Request(issued)] /\ issued \in Nat
  BY DEF SessionsTypeOK
<1>2. CASE w = "idle"
  <2>1. req' = [req EXCEPT ![h] = Idle]
    BY <1>2 DEF GoTo, Becomes
  <2> QED  BY <1>1, <1>2, <2>1, IdleIsRequest DEF Others
<1>3. CASE w # "idle"
  <2> DEFINE r == [req[h] EXCEPT !.at = w]
  <2>0. req[h] \in Request(issued)
    BY <1>1
  <2>1. r \in Request(issued)
    BY <1>1, <2>0, OneFieldChanged
  <2>2. req' = [req EXCEPT ![h] = r]
    BY <1>3 DEF GoTo, Becomes
  <2>3. /\ r.at = w /\ r.op = req[h].op /\ r.token = req[h].token
        /\ r.ids = req[h].ids /\ r.cut = req[h].cut
    BY <1>1 DEF Request
  <2> HIDE DEF r
  <2> QED  BY <1>1, <2>1, <2>2, <2>3 DEF Others, Fields
<1> QED  BY <1>2, <1>3

(* A request that begins an operation of the account.                      *)
LEMMA OperationBegins ==
  ASSUME SessionsTypeOK, NEW h \in Handlers, NEW w \in Places,
         NEW o \in Operations, Becomes(h, [Idle EXCEPT !.at = w, !.op = o])
  PROVE  /\ req' \in [Handlers -> Request(issued)]
         /\ Others(h)
         /\ req'[h].at = w /\ req'[h].cut = {}
<1>1. req \in [Handlers -> Request(issued)] /\ issued \in Nat
  BY DEF SessionsTypeOK
<1>2. Idle \in Request(issued) /\ Idle.cut = {}
  BY <1>1, IdleIsRequest
<1> DEFINE r == [Idle EXCEPT !.at = w, !.op = o]
<1>3. r \in Request(issued)
  BY <1>1, <1>2, Changed
<1>4. r.at = w /\ r.cut = {}
  BY <1>2 DEF Request
<1>5. req' = [req EXCEPT ![h] = r]
  BY DEF Becomes
<1> HIDE DEF r
<1> QED  BY <1>1, <1>3, <1>4, <1>5 DEF Others

LEMMA RevocationBegins ==
  ASSUME SessionsTypeOK, NEW h \in Handlers, Revoke(h)
  PROVE  /\ req' \in [Handlers -> Request(issued)]
         /\ Others(h)
         /\ req'[h].at = "members" /\ req'[h].cut = held \cap refresh
<1>1. /\ req \in [Handlers -> Request(issued)] /\ issued \in Nat
      /\ held \cap refresh \in SUBSET (1..issued)
  BY DEF SessionsTypeOK
<1> DEFINE r == [req[h] EXCEPT !.at = "members", !.cut = held \cap refresh]
<1>2. "members" \in Places /\ req[h] \in Request(issued)
  BY <1>1 DEF Places
<1>3. r \in Request(issued)
  BY <1>1, <1>2, Changed
<1>4. r.at = "members" /\ r.cut = held \cap refresh
  BY <1>1 DEF Request
<1>5. req' = [req EXCEPT ![h] = r]
  BY DEF Revoke, Becomes
<1> HIDE DEF r
<1> QED  BY <1>1, <1>3, <1>4, <1>5 DEF Others

LEMMA MembersRead ==
  ASSUME SessionsTypeOK, NEW h \in Handlers, Members(h)
  PROVE  /\ req' \in [Handlers -> Request(issued)]
         /\ Others(h)
         /\ req'[h].at = "del tokens" /\ req'[h].ids = listed
         /\ req'[h].cut = req[h].cut
<1>1. /\ req \in [Handlers -> Request(issued)] /\ issued \in Nat
      /\ listed \in SUBSET (1..issued)
  BY DEF SessionsTypeOK
<1> DEFINE r == [req[h] EXCEPT !.at = "del tokens", !.ids = listed]
<1>2. "del tokens" \in Places /\ req[h] \in Request(issued)
  BY <1>1 DEF Places
<1>3. r \in Request(issued)
  BY <1>1, <1>2, Changed
<1>4. r.at = "del tokens" /\ r.ids = listed /\ r.cut = req[h].cut
  BY <1>1 DEF Request
<1>5. req' = [req EXCEPT ![h] = r]
  BY DEF Members, Becomes
<1> HIDE DEF r
<1> QED  BY <1>1, <1>3, <1>4, <1>5 DEF Others

LEMMA TokenSet ==
  ASSUME SessionsTypeOK, NEW h \in Handlers, SetToken(h)
  PROVE  /\ req' \in [Handlers -> Request(issued')]
         /\ Others(h)
         /\ req'[h].at = "add" /\ req'[h].token = issued + 1
         /\ req'[h].cut = req[h].cut
<1> DEFINE n == issued + 1
           r == [req[h] EXCEPT !.at = "add", !.token = n]
<1>1. req \in [Handlers -> Request(issued)] /\ issued \in Nat
  BY DEF SessionsTypeOK
<1>2. n \in Nat /\ n \in 0..n /\ "add" \in Places
  BY <1>1 DEF Places
<1>3. \A k \in Handlers : req[k] \in Request(n)
  BY <1>1, RequestsGrow
<1>4. issued' = n /\ req' = [req EXCEPT ![h] = r]
  BY DEF SetToken, Becomes
<1> HIDE DEF n
<1>5. r \in Request(n)
  BY <1>2, <1>3, Changed
<1>6. r.at = "add" /\ r.token = n /\ r.cut = req[h].cut
  BY <1>1 DEF Request
<1> HIDE DEF r
<1> QED  BY <1>1, <1>3, <1>4, <1>5, <1>6 DEF Others, n

-----------------------------------------------------------------------------
(* The tokens at work.                                                     *)

Issuing(h) == req[h].at \in {"add", "renew"}
Deleting(h) == req[h].at \in {"del tokens", "del set"}

(* A token is in the hands of the one request that set it, until it is     *)
(* given to the client.                                                    *)
TokensAreOwn ==
    /\ \A h \in Handlers :
          Issuing(h) => req[h].token # 0 /\ req[h].token \notin held
    /\ \A h, k \in Handlers :
          Issuing(h) /\ Issuing(k) /\ req[h].token = req[k].token => h = k

(* The set of tokens lives at least as long as those that count.           *)
SetOutlivesTokens ==
    /\ \A t \in held : t > elapsed
    /\ \A t \in held \cap listed : t <= due

(* A request about to answer has listed its token.                         *)
IssuedIsListed ==
    \A h \in Handlers :
        At(h, "renew") /\ req[h].token \in refresh =>
            req[h].token \in listed \cup torn

(* What a revocation has to cut is still in the clients' hands, it has     *)
(* read it from the set, and deleted it before the set.                    *)
RevocationReaches ==
    \A h \in Handlers :
        /\ req[h].cut \cap refresh \subseteq held
        /\ Deleting(h) => req[h].cut \cap refresh \subseteq req[h].ids \cup torn
        /\ At(h, "del set") => req[h].ids \cap refresh = {}

SessionsInvariant ==
    /\ SessionsTypeOK
    /\ TokensAreOwn /\ SetOutlivesTokens /\ IssuedIsListed /\ RevocationReaches
    /\ SessionsAreListed /\ EndedSessionsStayEnded

-----------------------------------------------------------------------------
(* Steps that touch no token.                                              *)

Quiet(h) ==
    /\ req' \in [Handlers -> Request(issued)] /\ Others(h)
    /\ ~Issuing(h)' /\ ~Deleting(h)'
    /\ req'[h].cut \subseteq req[h].cut
    /\ UNCHANGED sessionVars

QuietStep(h) ==
    \/ CodeStep(h) /\ UNCHANGED sessionVars
    \/ LoginAllowed(h) \/ CheckPassword(h) \/ LoginFailed(h)
    \/ SetExpiry(h, "login-fail", "idle") /\ UNCHANGED sessionVars
    \/ ClearFailures(h) \/ CheckStatus(h)
    \/ ChangePassword(h) \/ ResetPassword(h) \/ Logoff(h) \/ UseUpCode(h)
    \/ EndRequest(h) /\ UNCHANGED sessionVars

LEMMA QuietStepsAreQuiet ==
  ASSUME SessionsTypeOK, NEW h \in Handlers, QuietStep(h)
  PROVE  Quiet(h)
<1>0. UNCHANGED sessionVars
  BY DEF QuietStep, LoginAllowed, CheckPassword, LoginFailed, ClearFailures,
         CheckStatus, ChangePassword, ResetPassword, Logoff, UseUpCode
<1>1. ASSUME NEW w \in Places \ {"add", "renew", "del tokens", "del set"},
             GoTo(h, w)
      PROVE  Quiet(h)
  <2>1. w \in Places
    BY <1>1
  <2> QED  BY <1>0, <1>1, <2>1, GoToMoves DEF Quiet, Issuing, Deleting
<1>2. ASSUME NEW w \in {"update", "count attempt"}, NEW o \in Operations,
             Becomes(h, [Idle EXCEPT !.at = w, !.op = o])
      PROVE  Quiet(h)
  <2>1. w \in Places
    BY DEF Places
  <2> QED  BY <1>0, <1>2, <2>1, OperationBegins DEF Quiet, Issuing, Deleting
<1>3. CASE CodeStep(h)
  <2>1. CASE CountMail(h) \/ CountAttempt(h)
    BY <1>1, <2>1 DEF CountMail, CountAttempt, Count, Expiring, Places
  <2>2. CASE SetExpiry(h, "email-send", "mail")
             \/ SetExpiry(h, "email-attempt", "compare")
    BY <1>1, <2>2 DEF SetExpiry, Places
  <2>3. CASE SendEmailCode(h) \/ Mail(h) \/ StoreCode(h) \/ Compare(h)
    BY <1>1, <2>3 DEF SendEmailCode, Begin, Mail, StoreCode, Compare, Places
  <2> QED  BY <1>3, <2>1, <2>2, <2>3 DEF CodeStep
<1>4. CASE LoginAllowed(h) \/ CheckPassword(h) \/ LoginFailed(h)
           \/ SetExpiry(h, "login-fail", "idle") \/ ClearFailures(h)
  BY <1>1, <1>4 DEF LoginAllowed, Begin, CheckPassword, LoginFailed, Expiring,
                    SetExpiry, ClearFailures, Places
<1>5. CASE CheckStatus(h) \/ UseUpCode(h) \/ EndRequest(h)
  BY <1>1, <1>5 DEF CheckStatus, UseUpCode, UseUp, EndRequest, Places
<1>6. CASE ChangePassword(h) \/ ResetPassword(h) \/ Logoff(h)
  BY <1>2, <1>6 DEF ChangePassword, ResetPassword, Logoff, VerifyEmailCode,
                    Operations
<1> QED  BY <1>3, <1>4, <1>5, <1>6 DEF QuietStep

-----------------------------------------------------------------------------
(* The keys of codes and counters.                                         *)

LEMMA CodesStep == SessionsTypeOK /\ [Next]_vars => CodesTypeOK'
<1> SUFFICES ASSUME SessionsTypeOK, [Next]_vars PROVE CodesTypeOK'
  OBVIOUS
<1>0. CodesTypeOK
  BY DEF SessionsTypeOK
<1>1. CASE UNCHANGED codeVars
  BY <1>0, <1>1 DEF codeVars, CodesTypeOK
<1>2. ASSUME NEW k \in Counters, Incr(k),
             UNCHANGED <<code, codes, cooldown, ttl, lost>>
      PROVE  CodesTypeOK'
  BY <1>0, <1>2 DEF Incr, CodesTypeOK
<1>3. ASSUME NEW k \in Counters, Drop(k), code' \in BOOLEAN,
             UNCHANGED <<codes, cooldown>>
      PROVE  CodesTypeOK'
  BY <1>0, <1>3 DEF Drop, CodesTypeOK
<1>4. ASSUME NEW k \in Counters, Expire(k) \/ LoseExpire(k),
             UNCHANGED <<code, codes, cooldown, count>>
      PROVE  CodesTypeOK'
  BY <1>0, <1>4 DEF Expire, LoseExpire, CodesTypeOK
<1>5. ASSUME UNCHANGED <<count, ttl, lost>>,
             code' \in BOOLEAN, codes' \in 0..MaxCodes, cooldown' \in BOOLEAN
      PROVE  CodesTypeOK'
  BY <1>0, <1>5 DEF CodesTypeOK
<1>6. ASSUME NEW h \in Handlers, CodeStep(h) PROVE CodesTypeOK'
  <2>1. CASE CountMail(h) \/ CountAttempt(h)
    BY <1>1, <1>2, <2>1 DEF CountMail, CountAttempt, Count, Counters
  <2>2. CASE SetExpiry(h, "email-send", "mail")
             \/ SetExpiry(h, "email-attempt", "compare")
    BY <1>4, <2>2 DEF SetExpiry, Counters
  <2>3. CASE SendEmailCode(h)
    <3>1. MaxCodes \in Nat
      BY EmailCodesAssumption
    <3>2. /\ codes < MaxCodes /\ codes' = codes + 1 /\ cooldown' = TRUE
          /\ UNCHANGED <<code, count, ttl, lost>>
      BY <2>3 DEF SendEmailCode
    <3>3. codes \in 0..MaxCodes /\ code \in BOOLEAN
      BY <1>0 DEF CodesTypeOK
    <3> QED  BY <1>5, <3>1, <3>2, <3>3
  <2>4. CASE Mail(h) \/ StoreCode(h) \/ Compare(h)
    BY <1>0, <1>1, <1>5, <2>4 DEF Mail, StoreCode, Compare, CodesTypeOK
  <2> QED  BY <1>6, <2>1, <2>2, <2>3, <2>4 DEF CodeStep
<1>7. ASSUME NEW h \in Handlers, LoginFailed(h) \/ ClearFailures(h)
      PROVE  CodesTypeOK'
  BY <1>0, <1>2, <1>3, <1>5, <1>7 DEF LoginFailed, ClearFailures, Counters,
                                      CodesTypeOK
<1>8. ASSUME NEW h \in Handlers,
             SetExpiry(h, "login-fail", "idle") \/ EndRequest(h)
      PROVE  CodesTypeOK'
  <2>1. CASE SetExpiry(h, "login-fail", "idle")
    BY <1>4, <2>1 DEF SetExpiry, Counters
  <2>2. CASE EndRequest(h)
    BY <1>1, <1>4, <2>2 DEF EndRequest, codeVars
  <2> QED  BY <1>8, <2>1, <2>2
<1>9. ASSUME NEW h \in Handlers, UseUpCode(h) PROVE CodesTypeOK'
  BY <1>3, <1>9 DEF UseUpCode, UseUp, Counters
<1>10. CASE KeysElapse
  BY <1>0, <1>3, <1>5, <1>10 DEF KeysElapse, Elapse, CooldownEnds, CodeExpires,
                                 CodesTypeOK
<1>11. ASSUME NEW h \in Handlers,
              \/ LoginAllowed(h) \/ CheckPassword(h)
              \/ SetToken(h) \/ AddToken(h) \/ RenewSet(h)
              \/ \E t \in Tokens : Refresh(h, t) \/ Logout(h, t)
              \/ CheckStatus(h)
              \/ ChangePassword(h) \/ ResetPassword(h) \/ Logoff(h)
              \/ UpdateAccount(h)
              \/ Members(h) \/ DelTokens(h) \/ DelSet(h)
       PROVE  UNCHANGED codeVars
  BY <1>11 DEF LoginAllowed, CheckPassword, SetToken, AddToken, RenewSet,
               Refresh, Logout, CheckStatus, ChangePassword, ResetPassword,
               Logoff, VerifyEmailCode, UpdateAccount, Members, DelTokens,
               DelSet
<1>12. CASE TokenExpires \/ SetExpires \/ UNCHANGED vars
  BY <1>1, <1>12 DEF TokenExpires, SetExpires, vars
<1> QED  BY <1>1, <1>6, <1>7, <1>8, <1>9, <1>10, <1>11, <1>12
         DEF Next, RequestStep

-----------------------------------------------------------------------------
(* The tokens.                                                             *)

LEMMA SessionsInit == Init => SessionsInvariant
<1> SUFFICES ASSUME Init PROVE SessionsInvariant
  OBVIOUS
<1>1. \A h \in Handlers : /\ req[h] = Idle /\ Idle \in Request(0)
                          /\ Idle.at = "idle" /\ Idle.cut = {}
  BY IdleIsRequest DEF Init, CodesInit
<1>2. CodesTypeOK
  <2>1. MaxCodes \in Nat
    BY EmailCodesAssumption
  <2>2. code \in BOOLEAN /\ cooldown \in BOOLEAN
    BY Zenon DEF Init, CodesInit
  <2>3. codes = 0 /\ count = [k \in Counters |-> 0] /\ ttl = {} /\ lost = {}
    BY DEF Init, CodesInit
  <2> QED  BY <2>1, <2>2, <2>3 DEF CodesTypeOK
<1>3. SessionsTypeOK
  <2>1. req \in [Handlers -> Request(0)]
    BY <1>1 DEF Init, CodesInit
  <2> QED  BY <1>2, <2>1, SessionsAssumption DEF Init, SessionsTypeOK
<1> QED  BY <1>1, <1>3 DEF Init, SessionsInvariant, TokensAreOwn, Issuing,
              Deleting, SetOutlivesTokens, IssuedIsListed, RevocationReaches,
              SessionsAreListed, EndedSessionsStayEnded, At

LEMMA SessionsStep == SessionsInvariant /\ [Next]_vars => SessionsInvariant'
<1> SUFFICES ASSUME SessionsInvariant, [Next]_vars PROVE SessionsInvariant'
  OBVIOUS
<1>0. SessionsTypeOK /\ CodesTypeOK'
  BY CodesStep DEF SessionsInvariant
<1> USE <1>0 DEF SessionsInvariant, SessionsTypeOK
<1>1. ASSUME NEW h \in Handlers, Quiet(h) PROVE SessionsInvariant'
  <2>1. /\ UNCHANGED <<status, issued, refresh, listed, due, elapsed,
                       blacklist, held, torn, ended>>
        /\ \A k \in Handlers \ {h} : req'[k] = req[k]
        /\ req' \in [Handlers -> Request(issued)]
    BY <1>1 DEF Quiet, Others, sessionVars, store, history
  <2>2. SessionsTypeOK'
    BY <2>1
  <2>3. TokensAreOwn' /\ IssuedIsListed'
    BY <1>1, <2>1 DEF Quiet, TokensAreOwn, IssuedIsListed, Issuing, At
  <2>4. SetOutlivesTokens' /\ SessionsAreListed' /\ EndedSessionsStayEnded'
    BY <2>1 DEF SetOutlivesTokens, SessionsAreListed, EndedSessionsStayEnded
  <2>5. RevocationReaches'
    BY <1>1, <2>1 DEF Quiet, RevocationReaches, Deleting, At
  <2> QED  BY <2>2, <2>3, <2>4, <2>5
<1>2. ASSUME NEW h \in Handlers, SetToken(h) PROVE SessionsInvariant'
  <2>0. codes \in Nat /\ issued \in Nat /\ MaxTokens \in Nat
    <3>1. MaxCodes \in Nat /\ MaxTokens \in Nat
      BY EmailCodesAssumption, SessionsAssumption
    <3> QED  BY <3>1 DEF CodesTypeOK
  <2>1. /\ issued < MaxTokens /\ issued' = issued + 1
        /\ refresh' = refresh \cup {issued + 1}
        /\ UNCHANGED <<status, listed, due, elapsed, blacklist, held, torn,
                       ended>>
    BY <1>2, <2>0 DEF SetToken
  <2>2. /\ req' \in [Handlers -> Request(issued')]
        /\ \A k \in Handlers \ {h} : req'[k] = req[k]
        /\ req'[h].at = "add" /\ req'[h].token = issued + 1
        /\ req'[h].cut = req[h].cut
    BY <1>2, TokenSet DEF Others
  <2>3. SessionsTypeOK'
    BY <2>1, <2>2, SessionsAssumption
  <2>4. \A k \in Handlers : /\ req[k].token <= issued
                            /\ req[k].cut \subseteq 1..issued
                            /\ req[k].ids \subseteq 1..issued
    BY DEF Request
  <2>5. TokensAreOwn' /\ IssuedIsListed'
    BY <2>1, <2>2, <2>4 DEF TokensAreOwn, IssuedIsListed, Issuing, At
  <2>6. SetOutlivesTokens' /\ SessionsAreListed' /\ EndedSessionsStayEnded'
    BY <2>1 DEF SetOutlivesTokens, SessionsAreListed, EndedSessionsStayEnded
  <2>7. RevocationReaches'
    <3>1. \A k \in Handlers : /\ issued + 1 \notin req[k].cut
                              /\ issued + 1 \notin req[k].ids
      BY <2>0, <2>4
    <3>2. \A k \in Handlers : /\ req'[k].cut = req[k].cut
                              /\ req'[k].at # "add" => req'[k] = req[k]
      BY <2>2
    <3> SUFFICES ASSUME NEW k \in Handlers
                 PROVE  /\ req'[k].cut \cap refresh' \subseteq held'
                        /\ Deleting(k)' => req'[k].cut \cap refresh'
                                             \subseteq req'[k].ids \cup torn'
                        /\ At(k, "del set")' => req'[k].ids \cap refresh' = {}
      BY DEF RevocationReaches
    <3>3. /\ req[k].cut \cap refresh' = req[k].cut \cap refresh
          /\ req[k].ids \cap refresh' = req[k].ids \cap refresh
      BY <2>1, <3>1
    <3>4. req'[k].cut \cap refresh' \subseteq held'
      BY <2>1, <3>2, <3>3 DEF RevocationReaches
    <3>5. CASE req'[k].at = "add"
      BY <3>4, <3>5 DEF Deleting, At
    <3>6. CASE req'[k].at # "add"
      BY <2>1, <3>2, <3>3, <3>6 DEF RevocationReaches, Deleting, At
    <3> QED  BY <3>4, <3>5, <3>6
  <2> QED  BY <2>3, <2>5, <2>6, <2>7
<1>3. ASSUME NEW h \in Handlers, AddToken(h) PROVE SessionsInvariant'
  <2>1. /\ At(h, "add") /\ listed' = listed \cup {req[h].token}
        /\ UNCHANGED <<status, issued, refresh, due, elapsed, blacklist, held,
                       torn, ended>>
    BY <1>3 DEF AddToken, history
  <2>2. /\ req' \in [Handlers -> Request(issued)]
        /\ \A k \in Handlers \ {h} : req'[k] = req[k]
        /\ req'[h].at = "renew" /\ req'[h].token = req[h].token
        /\ req'[h].cut \subseteq req[h].cut
    BY <1>3, GoToMoves DEF AddToken, Others, Fields, Places
  <2>3. /\ req[h].token \in 1..issued /\ req[h].token \notin held
        /\ Issuing(h)
    BY <2>1 DEF TokensAreOwn, Issuing, At, Request
  <2>4. SessionsTypeOK'
    BY <2>1, <2>2, <2>3
  <2>5. TokensAreOwn'
    BY <2>1, <2>2, <2>3 DEF TokensAreOwn, Issuing
  <2>6. IssuedIsListed'
    BY <2>1, <2>2 DEF IssuedIsListed, At
  <2>7. SetOutlivesTokens' /\ SessionsAreListed' /\ EndedSessionsStayEnded'
    BY <2>1, <2>3 DEF SetOutlivesTokens, SessionsAreListed,
                      EndedSessionsStayEnded
  <2>8. RevocationReaches'
    BY <2>1, <2>2 DEF RevocationReaches, Deleting, At
  <2> QED  BY <2>4, <2>5, <2>6, <2>7, <2>8
<1>4. ASSUME NEW h \in Handlers, RenewSet(h) PROVE SessionsInvariant'
  <2>1. /\ At(h, "renew") /\ due' = IF listed = {} THEN 0 ELSE issued
        /\ held' \in {held, held \cup {t \in {req[h].token} : t > elapsed}}
        /\ UNCHANGED <<status, issued, refresh, listed, elapsed, blacklist,
                       torn, ended>>
    BY <1>4 DEF RenewSet, history
  <2>2. /\ req' \in [Handlers -> Request(issued)]
        /\ \A k \in Handlers \ {h} : req'[k] = req[k]
        /\ req'[h].at = "idle"
        /\ req'[h].cut \subseteq req[h].cut
    BY <1>4, GoToMoves DEF RenewSet, Others, Places
  <2>3. /\ req[h].token \in 1..issued /\ Issuing(h)
        /\ req[h].token \in refresh => req[h].token \in listed \cup torn
    BY <2>1 DEF TokensAreOwn, Issuing, IssuedIsListed, At, Request
  <2>4. SessionsTypeOK'
    BY <2>1, <2>2, <2>3
  <2>5. TokensAreOwn' /\ IssuedIsListed'
    BY <2>1, <2>2, <2>3 DEF TokensAreOwn, IssuedIsListed, Issuing, At
  <2>6. SetOutlivesTokens'
    BY <2>1, <2>3 DEF SetOutlivesTokens
  <2>7. SessionsAreListed' /\ EndedSessionsStayEnded'
    BY <2>1, <2>3 DEF SessionsAreListed, EndedSessionsStayEnded
  <2>8. RevocationReaches'
    BY <2>1, <2>2 DEF RevocationReaches, Deleting, At
  <2> QED  BY <2>4, <2>5, <2>6, <2>7, <2>8
<1>5. ASSUME NEW h \in Handlers, Revoke(h),
             blacklist' \subseteq 1..issued, status' \in {1, 3},
             UNCHANGED <<issued, refresh, listed, due, elapsed, held, history>>
      PROVE  SessionsInvariant'
  <2>1. /\ req' \in [Handlers -> Request(issued)]
        /\ \A k \in Handlers \ {h} : req'[k] = req[k]
        /\ req'[h].at = "members" /\ req'[h].cut = held \cap refresh
    BY <1>5, RevocationBegins DEF Others
  <2>2. SessionsTypeOK'
    BY <1>5, <2>1 DEF history
  <2>3. TokensAreOwn' /\ IssuedIsListed'
    BY <1>5, <2>1 DEF TokensAreOwn, IssuedIsListed, Issuing, At, history
  <2>4. SetOutlivesTokens' /\ SessionsAreListed' /\ EndedSessionsStayEnded'
    BY <1>5 DEF SetOutlivesTokens, SessionsAreListed, EndedSessionsStayEnded,
                history
  <2>5. RevocationReaches'
    BY <1>5, <2>1 DEF RevocationReaches, Deleting, At, history
  <2> QED  BY <2>2, <2>3, <2>4, <2>5
<1>6. ASSUME NEW h \in Handlers, NEW t \in Tokens, Refresh(h, t)
      PROVE  SessionsInvariant'
  <2>1. CASE Revoke(h) /\ UNCHANGED <<refresh, ended>>
    BY <1>5, <1>6, <2>1 DEF Refresh, history
  <2>2. CASE /\ t \in refresh /\ refresh' = refresh \ {t}
             /\ ended' = ended \cup {t} /\ GoTo(h, "status")
    <3>1. UNCHANGED <<status, issued, listed, due, elapsed, blacklist, held,
                      torn>>
      BY <1>6 DEF Refresh
    <3>2. /\ req' \in [Handlers -> Request(issued)]
          /\ \A k \in Handlers \ {h} : req'[k] = req[k]
          /\ req'[h].at = "status" /\ req'[h].cut \subseteq req[h].cut
      BY <2>2, GoToMoves DEF Others, Places
    <3>3. SessionsTypeOK'
      BY <2>2, <3>1, <3>2
    <3>4. TokensAreOwn' /\ IssuedIsListed'
      BY <2>2, <3>1, <3>2 DEF TokensAreOwn, IssuedIsListed, Issuing, At
    <3>5. SetOutlivesTokens' /\ SessionsAreListed' /\ EndedSessionsStayEnded'
      BY <2>2, <3>1 DEF SetOutlivesTokens, SessionsAreListed,
                        EndedSessionsStayEnded
    <3>6. RevocationReaches'
      BY <2>2, <3>1, <3>2 DEF RevocationReaches, Deleting, At
    <3> QED  BY <3>3, <3>4, <3>5, <3>6
  <2> QED  BY <1>6, <2>1, <2>2 DEF Refresh
<1>7. ASSUME NEW h \in Handlers,
             UpdateAccount(h) \/ \E t \in Tokens : Logout(h, t)
      PROVE  SessionsInvariant'
  BY <1>5, <1>7 DEF UpdateAccount, Logout
<1>8. ASSUME NEW h \in Handlers, Members(h) PROVE SessionsInvariant'
  <2>1. UNCHANGED <<status, issued, refresh, listed, due, elapsed, blacklist,
                    held, torn, ended>>
    BY <1>8 DEF Members, sessionVars, store, history
  <2>2. /\ req' \in [Handlers -> Request(issued)]
        /\ \A k \in Handlers \ {h} : req'[k] = req[k]
        /\ req'[h].at = "del tokens" /\ req'[h].ids = listed
        /\ req'[h].cut = req[h].cut
    BY <1>8, MembersRead DEF Others
  <2>3. SessionsTypeOK'
    BY <2>1, <2>2
  <2>4. TokensAreOwn' /\ IssuedIsListed'
    BY <2>1, <2>2 DEF TokensAreOwn, IssuedIsListed, Issuing, At
  <2>5. SetOutlivesTokens' /\ SessionsAreListed' /\ EndedSessionsStayEnded'
    BY <2>1 DEF SetOutlivesTokens, SessionsAreListed, EndedSessionsStayEnded
  <2>6. RevocationReaches'
    BY <2>1, <2>2 DEF RevocationReaches, SessionsAreListed, Deleting, At
  <2> QED  BY <2>3, <2>4, <2>5, <2>6
<1>9. ASSUME NEW h \in Handlers, DelTokens(h) PROVE SessionsInvariant'
  <2>1. PICK gone \in SUBSET req[h].ids :
           /\ At(h, "del tokens") /\ refresh' = refresh \ gone
           /\ GoTo(h, IF gone = req[h].ids THEN "del set" ELSE "idle")
           /\ UNCHANGED <<status, issued, listed, due, elapsed, blacklist,
                          held, torn, ended>>
    BY <1>9 DEF DelTokens, history
  <2>2. /\ req' \in [Handlers -> Request(issued)]
        /\ \A k \in Handlers \ {h} : req'[k] = req[k]
        /\ req'[h].cut \subseteq req[h].cut
        /\ \/ req'[h].at = "idle"
           \/ req'[h].at = "del set" /\ req'[h].ids = req[h].ids
              /\ gone = req[h].ids
    BY <2>1, GoToMoves DEF Others, Fields, Places
  <2>3. SessionsTypeOK'
    BY <2>1, <2>2
  <2>4. TokensAreOwn' /\ IssuedIsListed'
    BY <2>1, <2>2 DEF TokensAreOwn, IssuedIsListed, Issuing, At
  <2>5. SetOutlivesTokens' /\ SessionsAreListed' /\ EndedSessionsStayEnded'
    BY <2>1 DEF SetOutlivesTokens, SessionsAreListed, EndedSessionsStayEnded
  <2>6. RevocationReaches'
    BY <2>1, <2>2 DEF RevocationReaches, Deleting, At
  <2> QED  BY <2>3, <2>4, <2>5, <2>6
<1>10. ASSUME NEW h \in Handlers, DelSet(h) PROVE SessionsInvariant'
  <2>1. /\ At(h, "del set") /\ listed' = {} /\ due' = 0
        /\ torn' = torn \cup (listed \ req[h].ids)
        /\ ended' = ended \cup (req[h].cut \ torn')
        /\ UNCHANGED <<status, issued, refresh, elapsed, blacklist, held>>
    BY <1>10 DEF DelSet
  <2>2. /\ req' \in [Handlers -> Request(issued)]
        /\ \A k \in Handlers \ {h} : req'[k] = req[k]
        /\ req'[h].at = "idle" /\ req'[h].cut \subseteq req[h].cut
    BY <1>10, GoToMoves DEF DelSet, Others, Places
  <2>3. /\ req[h].ids \cap refresh = {} /\ req[h].cut \subseteq 1..issued
        /\ req[h].cut \cap refresh \subseteq req[h].ids \cup torn
    BY <2>1 DEF RevocationReaches, Deleting, At, Request
  <2>4. SessionsTypeOK'
    <3>1. issued \in Nat /\ listed \cup torn \cup ended \subseteq 1..issued
      BY SessionsAssumption
    <3>2. torn' \subseteq 1..issued
      BY <2>1, <3>1
    <3>3. ended' \subseteq 1..issued
      BY <2>1, <2>3, <3>1
    <3>4. 0 \in 0..issued
      BY <3>1
    <3> QED  BY <2>1, <2>2, <3>2, <3>3, <3>4
  <2>5. TokensAreOwn'
    BY <2>1, <2>2 DEF TokensAreOwn, Issuing
  <2>6. IssuedIsListed'
    BY <2>1, <2>2, <2>3 DEF IssuedIsListed, At
  <2>7. SetOutlivesTokens' /\ SessionsAreListed' /\ EndedSessionsStayEnded'
    BY <2>1, <2>3 DEF SetOutlivesTokens, SessionsAreListed,
                      EndedSessionsStayEnded
  <2>8. RevocationReaches'
    BY <2>1, <2>2 DEF RevocationReaches, Deleting, At
  <2> QED  BY <2>4, <2>5, <2>6, <2>7, <2>8
<1>11. CASE TokenExpires
  <2>1. /\ elapsed < issued /\ elapsed' = elapsed + 1
        /\ refresh' = refresh \ {elapsed'} /\ held' = held \ {elapsed'}
        /\ blacklist' = blacklist \ {elapsed'}
        /\ torn' = torn \ {elapsed'} /\ ended' = ended \ {elapsed'}
        /\ UNCHANGED <<req, status, issued, listed, due>>
    BY <1>11 DEF TokenExpires
  <2>2. SessionsTypeOK'
    BY <2>1
  <2>3. TokensAreOwn' /\ IssuedIsListed'
    BY <2>1 DEF TokensAreOwn, IssuedIsListed, Issuing, At
  <2>4. SetOutlivesTokens' /\ SessionsAreListed' /\ EndedSessionsStayEnded'
    BY <2>1 DEF SetOutlivesTokens, SessionsAreListed, EndedSessionsStayEnded
  <2>5. RevocationReaches'
    BY <2>1 DEF RevocationReaches, Deleting, At
  <2> QED  BY <2>2, <2>3, <2>4, <2>5
<1>12. CASE SetExpires
  <2>1. /\ due > 0 /\ elapsed >= due /\ listed' = {} /\ due' = 0
        /\ torn' = torn \cup
              {req[h].token : h \in {k \in Handlers : At(k, "renew")}}
        /\ UNCHANGED <<req, status, issued, refresh, elapsed, blacklist, held,
                       ended>>
    BY <1>12 DEF SetExpires
  <2>2. {req[h].token : h \in {k \in Handlers : At(k, "renew")}}
           \subseteq 1..issued
    BY DEF TokensAreOwn, Issuing, At, Request
  <2>3. SessionsTypeOK'
    BY <2>1, <2>2
  <2>4. held \cap listed = {}
    BY <2>1 DEF SetOutlivesTokens
  <2>5. TokensAreOwn' /\ IssuedIsListed'
    BY <2>1 DEF TokensAreOwn, IssuedIsListed, Issuing, At
  <2>6. SetOutlivesTokens' /\ SessionsAreListed' /\ EndedSessionsStayEnded'
    BY <2>1, <2>4 DEF SetOutlivesTokens, SessionsAreListed,
                      EndedSessionsStayEnded
  <2>7. RevocationReaches'
    BY <2>1 DEF RevocationReaches, Deleting, At
  <2> QED  BY <2>3, <2>5, <2>6, <2>7
<1>13. CASE (KeysElapse /\ UNCHANGED sessionVars) \/ UNCHANGED vars
  <2>1. UNCHANGED <<req, status, issued, refresh, listed, due, elapsed,
                    blacklist, held, torn, ended>>
    BY <1>13 DEF KeysElapse, Elapse, CooldownEnds, CodeExpires, sessionVars,
                 store, history, vars
  <2> QED  BY <2>1 DEF TokensAreOwn, IssuedIsListed, SetOutlivesTokens,
                       SessionsAreListed, EndedSessionsStayEnded,
                       RevocationReaches, Issuing, Deleting, At
<1>14. ASSUME NEW h \in Handlers, RequestStep(h) PROVE SessionsInvariant'
  <2>1. CASE QuietStep(h)
    BY <1>1, <2>1, QuietStepsAreQuiet
  <2> QED  BY <1>2, <1>3, <1>4, <1>6, <1>7, <1>8, <1>9, <1>10, <1>14, <2>1
           DEF RequestStep, QuietStep
<1> QED  BY <1>11, <1>12, <1>13, <1>14 DEF Next

(* Every variable of codes, counters and sessions is always well-typed.    *)
THEOREM TypeCorrect == Spec => []SessionsTypeOK
<1>1. SessionsInvariant => SessionsTypeOK
  BY DEF SessionsInvariant
<1> QED  BY <1>1, SessionsInit, SessionsStep, PTL DEF Spec

(* SessionsAreListed: a session that can still be renewed is in the set a  *)
(* revocation reads, but for those another revocation has torn out of it,  *)
(* for any number of requests, tokens and pipelines cut short.             *)
THEOREM ListedCorrect == Spec => []SessionsAreListed
<1>1. SessionsInvariant => SessionsAreListed
  BY DEF SessionsInvariant
<1> QED  BY <1>1, SessionsInit, SessionsStep, PTL DEF Spec

(* EndedSessionsStayEnded: a session that was exchanged or revoked stays   *)
(* ended, but for those torn out of the set.                               *)
THEOREM EndedCorrect == Spec => []EndedSessionsStayEnded
<1>1. SessionsInvariant => EndedSessionsStayEnded
  BY DEF SessionsInvariant
<1> QED  BY <1>1, SessionsInit, SessionsStep, PTL DEF Spec

-----------------------------------------------------------------------------
(* The counters.                                                           *)

(* A counter keeps its lifetime, or who will give it one.                  *)
LEMMA CountersStay ==
  ASSUME CountersEnd,
         \A g \in Handlers, k \in Counters :
             At(g, Expiring(k)) => req'[g] = req[g],
         \A k \in Counters : count'[k] > 0 => count[k] > 0,
         \A k \in Counters :
             count'[k] > 0 /\ k \in ttl \cup lost => k \in ttl' \cup lost'
  PROVE  CountersEnd'
<1> SUFFICES ASSUME NEW k \in Counters, count'[k] > 0,
                    k \notin ttl' \cup lost'
             PROVE  \E g \in Handlers : At(g, Expiring(k))'
  BY DEF CountersEnd
<1>1. PICK g \in Handlers : At(g, Expiring(k))
  BY DEF CountersEnd
<1> QED  BY <1>1 DEF At, Expiring

LEMMA CountersKept ==
  ASSUME CountersEnd, NEW h \in Handlers, Others(h),
         \A k \in Counters : ~At(h, Expiring(k)),
         \A k \in Counters : count'[k] > 0 => count[k] > 0,
         \A k \in Counters :
             count'[k] > 0 /\ k \in ttl \cup lost => k \in ttl' \cup lost'
  PROVE  CountersEnd'
BY CountersStay DEF Others

(* A count that creates a key is followed by its lifetime.                 *)
LEMMA CountedOnce ==
  ASSUME SessionsTypeOK, CountersEnd, NEW h \in Handlers, NEW c \in Counters,
         Incr(c), Others(h), UNCHANGED <<ttl, lost>>,
         \A k \in Counters : ~At(h, Expiring(k)),
         First(c) => req'[h].at = Expiring(c)
  PROVE  CountersEnd'
<1>1. count \in [Counters -> Nat]
  BY DEF SessionsTypeOK, CodesTypeOK
<1> SUFFICES ASSUME NEW k \in Counters, count'[k] > 0,
                    k \notin ttl' \cup lost'
             PROVE  \E g \in Handlers : At(g, Expiring(k))'
  BY DEF CountersEnd
<1>2. CASE k = c /\ First(c)
  BY <1>2 DEF At, Expiring
<1>3. CASE ~(k = c /\ First(c))
  <2>1. count[k] > 0
    BY <1>1, <1>3 DEF Incr, First
  <2>2. PICK g \in Handlers : At(g, Expiring(k))
    BY <2>1 DEF CountersEnd
  <2>3. g # h /\ req'[g] = req[g]
    BY <2>2 DEF Others
  <2> QED  BY <2>2, <2>3 DEF At, Expiring
<1> QED  BY <1>2, <1>3

LEMMA ExpiringsDiffer ==
  ASSUME NEW k \in Counters, NEW c \in Counters, Expiring(k) = Expiring(c)
  PROVE  k = c
BY DEF Expiring, Counters

(* The EXPIRE is answered, or lost.                                        *)
LEMMA ExpiredOrLost ==
  ASSUME SessionsTypeOK, CountersEnd, NEW h \in Handlers, NEW c \in Counters,
         At(h, Expiring(c)), Expire(c) \/ LoseExpire(c),
         Others(h), count' = count
  PROVE  CountersEnd'
<1> SUFFICES ASSUME NEW k \in Counters, count[k] > 0,
                    k \notin ttl' \cup lost'
             PROVE  \E g \in Handlers : At(g, Expiring(k))'
  BY DEF CountersEnd
<1>1. k # c /\ k \notin ttl \cup lost
  BY DEF Expire, LoseExpire
<1>2. PICK g \in Handlers : At(g, Expiring(k))
  BY <1>1 DEF CountersEnd
<1>3. g # h
  BY <1>1, <1>2, ExpiringsDiffer DEF At
<1>4. req'[g] = req[g]
  BY <1>3 DEF Others
<1> QED  BY <1>2, <1>4 DEF At, Expiring

LEMMA CountersStep ==
  SessionsInvariant /\ CountersEnd /\ [Next]_vars => CountersEnd'
<1> SUFFICES ASSUME SessionsTypeOK, CountersEnd, [Next]_vars
             PROVE  CountersEnd'
  BY DEF SessionsInvariant
<1>0. /\ count \in [Counters -> Nat] /\ ttl \subseteq {k \in Counters : count[k] > 0}
      /\ lost \subseteq Counters
  BY DEF SessionsTypeOK, CodesTypeOK
<1>1. ASSUME NEW h \in Handlers, QuietStep(h) PROVE CountersEnd'
  <2>0. Others(h)
    BY <1>1, QuietStepsAreQuiet DEF Quiet
  <2>1. ASSUME UNCHANGED codeVars, \A k \in Counters : ~At(h, Expiring(k))
        PROVE  CountersEnd'
    BY <2>0, <2>1, CountersKept DEF codeVars
  <2>2. ASSUME NEW c \in Counters, NEW on,
               Count(h, c, on), \A k \in Counters : ~At(h, Expiring(k))
        PROVE  CountersEnd'
    <3>1. First(c) => req'[h].at = Expiring(c)
      <4>1. ASSUME First(c) PROVE GoTo(h, Expiring(c))
        BY <2>2, <4>1 DEF Count
      <4>2. Expiring(c) \in Places
        BY DEF Expiring, Places
      <4> QED  BY <4>1, <4>2, GoToMoves
    <3> QED  BY <2>0, <2>2, <3>1, CountedOnce DEF Count
  <2>3. ASSUME NEW c \in Counters, NEW on, SetExpiry(h, c, on)
        PROVE  CountersEnd'
    BY <2>0, <2>3, ExpiredOrLost DEF SetExpiry
  <2>4. CASE CountMail(h) \/ CountAttempt(h)
    <3>1. \A k \in Counters : ~At(h, Expiring(k))
      BY <2>4 DEF CountMail, CountAttempt, At, Expiring
    <3> QED  BY <2>1, <2>2, <2>4, <3>1 DEF CountMail, CountAttempt, Counters
  <2>5. CASE SendEmailCode(h) \/ Mail(h) \/ StoreCode(h)
    <3>1. UNCHANGED <<count, ttl, lost>>
      BY <2>5 DEF SendEmailCode, Mail, StoreCode
    <3>2. \A k \in Counters : ~At(h, Expiring(k))
      BY <2>5 DEF SendEmailCode, Begin, Mail, StoreCode, At, Expiring
    <3> QED  BY <2>0, <3>1, <3>2, CountersKept
  <2>6. CASE Compare(h) \/ CheckPassword(h) \/ CheckStatus(h)
             \/ LoginAllowed(h) \/ ChangePassword(h) \/ ResetPassword(h)
             \/ Logoff(h)
    <3>1. \A k \in Counters : ~At(h, Expiring(k))
      BY <2>6 DEF Compare, CheckPassword, CheckStatus, LoginAllowed, Begin,
                  ChangePassword, ResetPassword, Logoff, VerifyEmailCode, At,
                  Expiring
    <3> QED  BY <2>1, <2>6, <3>1 DEF Compare, CheckPassword, CheckStatus,
                  LoginAllowed, ChangePassword, ResetPassword, Logoff,
                  VerifyEmailCode
  <2>7. CASE LoginFailed(h)
    <3>1. \A k \in Counters : ~At(h, Expiring(k))
      BY <2>7 DEF LoginFailed, At, Expiring
    <3>2. First("login-fail") => req'[h].at = Expiring("login-fail")
      <4>1. ASSUME First("login-fail") PROVE GoTo(h, Expiring("login-fail"))
        BY <2>7, <4>1 DEF LoginFailed
      <4>2. Expiring("login-fail") \in Places
        BY DEF Expiring, Places
      <4> QED  BY <4>1, <4>2, GoToMoves
    <3>3. Incr("login-fail") /\ UNCHANGED <<ttl, lost>>
      BY <2>7 DEF LoginFailed
    <3>4. "login-fail" \in Counters
      BY DEF Counters
    <3> QED  BY <2>0, <3>1, <3>2, <3>3, <3>4, CountedOnce
  <2>8. CASE ClearFailures(h) \/ UseUpCode(h)
    <3>1. \A k \in Counters : ~At(h, Expiring(k))
      BY <2>8 DEF ClearFailures, UseUpCode, UseUp, At, Expiring
    <3>2. \/ UNCHANGED <<count, ttl, lost>>
          \/ \E c \in Counters : Drop(c)
      BY <2>8 DEF ClearFailures, UseUpCode, UseUp, Counters
    <3>3. \A k \in Counters : /\ count'[k] > 0 => count[k] > 0
                              /\ count'[k] > 0 /\ k \in ttl \cup lost
                                    => k \in ttl' \cup lost'
      BY <1>0, <3>2 DEF Drop
    <3> QED  BY <2>0, <3>1, <3>3, CountersKept
  <2>9. CASE EndRequest(h)
    <3>1. CASE \A k \in Counters : ~At(h, Expiring(k))
      BY <2>0, <2>9, <3>1, CountersKept DEF EndRequest
    <3>2. CASE \E k \in Counters : At(h, Expiring(k))
      <4>1. PICK c \in Counters : At(h, Expiring(c)) /\ LoseExpire(c)
        BY <2>9, <3>2 DEF EndRequest
      <4> QED  BY <2>0, <2>9, <4>1, ExpiredOrLost DEF EndRequest
    <3> QED  BY <3>1, <3>2
  <2> QED  BY <1>1, <2>3, <2>4, <2>5, <2>6, <2>7, <2>8, <2>9
           DEF QuietStep, CodeStep, Counters
<1>2. ASSUME NEW h \in Handlers,
             \/ SetToken(h) \/ AddToken(h) \/ RenewSet(h)
             \/ \E t \in Tokens : Refresh(h, t) \/ Logout(h, t)
             \/ UpdateAccount(h) \/ Members(h) \/ DelTokens(h) \/ DelSet(h)
      PROVE  CountersEnd'
  <2>1. UNCHANGED codeVars
    BY <1>2 DEF SetToken, AddToken, RenewSet, Refresh, Logout, UpdateAccount,
                Members, DelTokens, DelSet
  <2>2. \A k \in Counters : ~At(h, Expiring(k))
    BY <1>2 DEF SetToken, AddToken, RenewSet, Refresh, Logout, UpdateAccount,
                Members, DelTokens, DelSet, At, Expiring
  <2>3. Others(h)
    BY <1>2 DEF SetToken, AddToken, RenewSet, Refresh, Logout, UpdateAccount,
                Members, DelTokens, DelSet, GoTo, Revoke, Becomes, Others,
                SessionsTypeOK
  <2> QED  BY <2>1, <2>2, <2>3, CountersKept DEF codeVars
<1>3. CASE KeysElapse
  <2>1. req' = req /\ (UNCHANGED <<count, ttl, lost>>
                       \/ \E c \in Counters : Drop(c))
    BY <1>3 DEF KeysElapse, Elapse, CooldownEnds, CodeExpires
  <2>2. \A k \in Counters : /\ count'[k] > 0 => count[k] > 0
                            /\ count'[k] > 0 /\ k \in ttl \cup lost
                                  => k \in ttl' \cup lost'
    BY <1>0, <2>1 DEF Drop
  <2> QED  BY <2>1, <2>2, CountersStay
<1>4. CASE TokenExpires \/ SetExpires \/ UNCHANGED vars
  BY <1>4, CountersStay DEF TokenExpires, SetExpires, vars, codeVars
<1> QED  BY <1>1, <1>2, <1>3, <1>4 DEF Next, RequestStep, QuietStep

(* CountersEnd: however requests interleave and wherever they end, a       *)
(* counter ends by itself or somebody has lost the EXPIRE that ends it.    *)
THEOREM CountersCorrect == Spec => []CountersEnd
<1>1. Init => CountersEnd
  BY DEF Init, CodesInit, CountersEnd
<1> QED  BY <1>1, SessionsInit, SessionsStep, CountersStep, PTL DEF Spec

-----------------------------------------------------------------------------
(* The limit of failed logins.                                             *)

(* Requests that have been let past the counter.                           *)
Guessing == {h \in Handlers : req[h].at \in {"password", "count failure"}}

(* A failure counted is a guess the less.                                  *)
GuessesAreLimited ==
    count["login-fail"] + Cardinality(Guessing)
        < LoginLimit + Cardinality(Handlers)

LEMMA GuessesAreFinite ==
  /\ IsFiniteSet(Guessing) /\ Cardinality(Guessing) \in Nat
  /\ Cardinality(Guessing) <= Cardinality(Handlers)
  /\ Cardinality(Handlers) \in Nat
BY EmailCodesAssumption, FS_Subset, FS_CardinalityType DEF Guessing

LEMMA GuessesShrink ==
  ASSUME GuessesAreLimited, count["login-fail"] \in Nat,
         count'["login-fail"] \in Nat,
         count'["login-fail"] <= count["login-fail"], Guessing' \subseteq Guessing
  PROVE  GuessesAreLimited'
<1>1. /\ Cardinality(Guessing') <= Cardinality(Guessing)
      /\ Cardinality(Guessing') \in Nat /\ Cardinality(Guessing) \in Nat
      /\ LoginLimit \in Nat /\ Cardinality(Handlers) \in Nat
  BY GuessesAreFinite, EmailCodesAssumption, FS_Subset, FS_CardinalityType
<1> QED  BY <1>1 DEF GuessesAreLimited

LEMMA GuessesStep ==
  SessionsInvariant /\ GuessesAreLimited /\ [Next]_vars => GuessesAreLimited'
<1> SUFFICES ASSUME SessionsTypeOK, CodesTypeOK', GuessesAreLimited, [Next]_vars
             PROVE  GuessesAreLimited'
  BY CodesStep DEF SessionsInvariant
<1>0. /\ count \in [Counters -> Nat] /\ count' \in [Counters -> Nat]
      /\ "login-fail" \in Counters
  BY DEF SessionsTypeOK, CodesTypeOK, Counters
<1>1. ASSUME NEW h \in Handlers, LoginAllowed(h) PROVE GuessesAreLimited'
  <2>1. count'["login-fail"] < LoginLimit
    BY <1>1 DEF LoginAllowed, codeVars
  <2>2. /\ Cardinality(Guessing') <= Cardinality(Handlers)
        /\ Cardinality(Guessing') \in Nat /\ Cardinality(Handlers) \in Nat
    BY EmailCodesAssumption, FS_Subset, FS_CardinalityType DEF Guessing
  <2>3. LoginLimit \in Nat
    BY EmailCodesAssumption
  <2> QED  BY <1>0, <2>1, <2>2, <2>3 DEF GuessesAreLimited
<1>2. ASSUME NEW h \in Handlers, LoginFailed(h) PROVE GuessesAreLimited'
  <2>1. /\ h \in Guessing
        /\ count'["login-fail"] = count["login-fail"] + 1
    BY <1>0, <1>2 DEF LoginFailed, Incr, At, Guessing
  <2>2. Guessing' \subseteq Guessing \ {h}
    <3>1. PICK w \in {"idle", "expire failures"} : GoTo(h, w)
      BY <1>2 DEF LoginFailed, Expiring
    <3>2. Others(h) /\ req'[h].at = w
      BY <3>1, GoToMoves DEF Places
    <3> QED  BY <3>2 DEF Others, Guessing
  <2>3. /\ Cardinality(Guessing \ {h}) = Cardinality(Guessing) - 1
        /\ IsFiniteSet(Guessing \ {h})
    BY <2>1, GuessesAreFinite, FS_RemoveElement
  <2>4. /\ Cardinality(Guessing') <= Cardinality(Guessing) - 1
        /\ Cardinality(Guessing') \in Nat
    BY <2>2, <2>3, FS_Subset, FS_CardinalityType
  <2> QED  BY <1>0, <2>1, <2>4, GuessesAreFinite, EmailCodesAssumption
           DEF GuessesAreLimited
<1>3. ASSUME NEW h \in Handlers, Others(h),
             req'[h].at \in {"password", "count failure"} => At(h, "password")
      PROVE  Guessing' \subseteq Guessing
  BY <1>3 DEF Others, Guessing, At
<1>8. ASSUME Guessing' \subseteq Guessing,
             count'["login-fail"] \in {count["login-fail"], 0}
      PROVE  GuessesAreLimited'
  <2>1. /\ count["login-fail"] \in Nat /\ count'["login-fail"] \in Nat
        /\ count'["login-fail"] <= count["login-fail"]
    BY <1>0, <1>8
  <2> QED  BY <1>8, <2>1, GuessesShrink
<1>4. ASSUME NEW h \in Handlers, QuietStep(h), ~LoginAllowed(h), ~LoginFailed(h)
      PROVE  GuessesAreLimited'
  <2>0. Others(h)
    BY <1>4, QuietStepsAreQuiet DEF Quiet
  <2>1. req'[h].at \in {"password", "count failure"} => At(h, "password")
    <3>1. ASSUME NEW w \in Places \ {"password", "count failure"}, GoTo(h, w)
          PROVE  req'[h].at \notin {"password", "count failure"}
      BY <3>1, GoToMoves
    <3>2. CASE CodeStep(h)
      BY <3>1, <3>2 DEF CodeStep, CountMail, CountAttempt, Count, Expiring,
         SetExpiry, SendEmailCode, Begin, Mail, StoreCode, Compare, Places
    <3>3. CASE SetExpiry(h, "login-fail", "idle") \/ ClearFailures(h)
               \/ CheckStatus(h) \/ UseUpCode(h) \/ EndRequest(h)
      BY <3>1, <3>3 DEF SetExpiry, ClearFailures, CheckStatus, UseUpCode,
                        UseUp, EndRequest, Places
    <3>4. CASE CheckPassword(h)
      BY <3>4 DEF CheckPassword
    <3>5. CASE ChangePassword(h) \/ ResetPassword(h) \/ Logoff(h)
      <4>1. PICK w \in {"update", "count attempt"}, o \in Operations :
               Becomes(h, [Idle EXCEPT !.at = w, !.op = o])
        BY <3>5 DEF ChangePassword, ResetPassword, Logoff, VerifyEmailCode,
                    Operations
      <4>2. w \in Places
        BY DEF Places
      <4> QED  BY <4>1, <4>2, OperationBegins
    <3> QED  BY <1>4, <3>2, <3>3, <3>4, <3>5 DEF QuietStep
  <2>2. count'["login-fail"] \in {count["login-fail"], 0}
    <3>1. CASE CodeStep(h)
      BY <1>0, <3>1 DEF CodeStep, CountMail, CountAttempt, Count, Incr,
         SetExpiry, SendEmailCode, Mail, StoreCode, Compare, codeVars, Counters
    <3>2. CASE ~CodeStep(h)
      BY <1>0, <1>4, <3>2 DEF QuietStep, CheckPassword, SetExpiry,
         ClearFailures, CheckStatus, ChangePassword, ResetPassword, Logoff,
         VerifyEmailCode, UseUpCode, UseUp, EndRequest, Drop, codeVars,
         Counters
    <3> QED  BY <3>1, <3>2
  <2> QED  BY <1>3, <1>8, <2>0, <2>1, <2>2
<1>5. ASSUME NEW h \in Handlers,
             \/ SetToken(h) \/ AddToken(h) \/ RenewSet(h)
             \/ \E t \in Tokens : Refresh(h, t) \/ Logout(h, t)
             \/ UpdateAccount(h) \/ Members(h) \/ DelTokens(h) \/ DelSet(h)
      PROVE  GuessesAreLimited'
  <2>1. UNCHANGED codeVars
    BY <1>5 DEF SetToken, AddToken, RenewSet, Refresh, Logout, UpdateAccount,
                Members, DelTokens, DelSet
  <2>2. Others(h) /\ req'[h].at \notin {"password", "count failure"}
    <3>1. CASE SetToken(h)
      BY <3>1, TokenSet
    <3>2. CASE Members(h)
      BY <3>2, MembersRead
    <3>3. CASE Revoke(h)
      BY <3>3, RevocationBegins
    <3>4. ASSUME NEW w \in {"renew", "idle", "status", "del set"}, GoTo(h, w)
          PROVE  Others(h) /\ req'[h].at \notin {"password", "count failure"}
      BY <3>4, GoToMoves DEF Places
    <3> QED  BY <1>5, <3>1, <3>2, <3>3, <3>4 DEF AddToken, RenewSet, Refresh,
                Logout, UpdateAccount, DelTokens, DelSet
  <2> QED  BY <1>3, <1>8, <2>1, <2>2 DEF codeVars
<1>6. CASE KeysElapse
  <2>1. req' = req /\ count'["login-fail"] \in {count["login-fail"], 0}
    BY <1>0, <1>6 DEF KeysElapse, Elapse, Drop, CooldownEnds, CodeExpires
  <2> QED  BY <1>8, <2>1 DEF Guessing
<1>7. CASE TokenExpires \/ SetExpires \/ UNCHANGED vars
  BY <1>7, <1>8 DEF TokenExpires, SetExpires, vars, codeVars, Guessing
<1> QED  BY <1>1, <1>2, <1>4, <1>5, <1>6, <1>7 DEF Next, RequestStep, QuietStep

(* FailuresAreLimited: for any limit and any number of requests at a time, *)
(* each of them gets past the limit once at most.                          *)
THEOREM FailuresCorrect == Spec => []FailuresAreLimited
<1>1. Init => GuessesAreLimited
  <2> SUFFICES ASSUME Init PROVE GuessesAreLimited
    OBVIOUS
  <2>1. Guessing = {}
    BY DEF Init, CodesInit, Idle, Guessing
  <2>2. Cardinality(Guessing) = 0
    BY <2>1, FS_EmptySet
  <2>3. count["login-fail"] = 0
    BY DEF Init, CodesInit, Counters
  <2>4. LoginLimit \in Nat \ {0} /\ Cardinality(Handlers) \in Nat
    BY EmailCodesAssumption, FS_CardinalityType
  <2> QED  BY <2>2, <2>3, <2>4 DEF GuessesAreLimited
<1>2. SessionsInvariant /\ GuessesAreLimited => FailuresAreLimited
  <2> SUFFICES ASSUME SessionsInvariant, GuessesAreLimited
               PROVE  FailuresAreLimited
    OBVIOUS
  <2>1. count["login-fail"] \in Nat
    BY DEF SessionsInvariant, SessionsTypeOK, CodesTypeOK, Counters
  <2>2. LoginLimit \in Nat
    BY EmailCodesAssumption
  <2> QED  BY <2>1, <2>2, GuessesAreFinite
           DEF GuessesAreLimited, FailuresAreLimited
<1> QED  BY <1>1, <1>2, SessionsInit, SessionsStep, GuessesStep, PTL DEF Spec
=============================================================================
