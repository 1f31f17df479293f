---------------------------- MODULE BrowserSession ----------------------------
(***************************************************************************)
(* The session of a browser: tabs that share the cookies, the requests of  *)
(* apiRequest with their one retry, the refresh they share inside a tab    *)
(* and queue for across tabs, AuthContext, and the sessions and rotating   *)
(* tokens of the auth service as the browser meets them.  The access and   *)
(* the refresh cookie are set and cleared together, so one token stands    *)
(* for both; `stale` are those whose access part has expired.              *)
(***************************************************************************)
EXTENDS Integers, Sequences, FiniteSets

CONSTANTS
  Tab, Call,    \* Call: the requests one tab may have under way
  None,
  HasLocks,     \* navigator.locks exists
  MaxLogins,    \* bound on the sign-ins
  MaxExpiries,  \* bound on the access tokens that expire
  MaxTrouble    \* bound on lost answers, wrong passwords, closed tabs, logouts

ASSUME SessionAssumption ==
  /\ HasLocks \in BOOLEAN /\ {MaxLogins, MaxExpiries, MaxTrouble} \subseteq Nat
  /\ None \notin [session : Nat, n : Nat]

VARIABLES
  sessions,  \* refresh_sessions: current_token_id and whether revoked
  cookie,    \* the token of both cookies, or None
  stale,
  auth,      \* AuthContext of each tab, "closed" if there is no tab
  call,      \* the requests of each tab
  refresh,   \* refreshPromise of each tab
  reused,    \* history: the service took a refresh for theft
  lost,      \* history: an answer that set cookies did not arrive
  excused,   \* history: why a session may have ended
  used       \* history: how much of each bound is used up

vars == <<sessions, cookie, stale, auth, call, refresh, reused, lost, excused,
          used>>

Token == [session : Nat, n : Nat]
Idle == [at |-> "idle", for |-> "page", with |-> None]
NoRefresh == [at |-> "none", with |-> None, result |-> None]

Spend(kind, limit) == used[kind] < limit /\ used' = [used EXCEPT ![kind] = @ + 1]
Free(t, c) == call[t][c].at = "idle"

-----------------------------------------------------------------------------
(* The auth service.                                                       *)

Live(token) == token # None /\ ~sessions[token.session].revoked
Current(token) == token.n = sessions[token.session].current

\* rotate_refresh_token, under the lock of its row.  A token that is not the
\* current one means theft and revokes the session.
Rotate(token) ==
  IF Live(token) /\ Current(token)
  THEN sessions' = [sessions EXCEPT ![token.session].current = @ + 1] /\ UNCHANGED reused
  ELSE IF Live(token)
  THEN sessions' = [sessions EXCEPT ![token.session].revoked = TRUE] /\ reused' = TRUE
  ELSE UNCHANGED <<sessions, reused>>

Rotated(token) ==
  IF Live(token) /\ Current(token) THEN [token EXCEPT !.n = @ + 1] ELSE None

NewSession == [current |-> 1, revoked |-> FALSE]

Revoke(token) ==
  sessions' = IF token = None THEN sessions
              ELSE [sessions EXCEPT ![token.session].revoked = TRUE]

\* The gateway looks at the access token, /auth/me at the session too.
Authorized(c) ==
  /\ c.with # None /\ c.with \notin stale
  /\ c.for = "me" => Live(c.with)

-----------------------------------------------------------------------------
(* apiRequest.                                                             *)

Send(t, c, for) == call' = [call EXCEPT ![t][c] =
                              [at |-> "sent", for |-> for, with |-> cookie]]
Settle(t, c) == call' = [call EXCEPT ![t][c] = Idle]

\* refreshAuthTokens: a request that is refused joins the refresh of its tab.
Waiting(t, c) == call[t][c].at = "waiting"
Join(t, c) ==
  /\ call' = [call EXCEPT ![t][c].at = "waiting"]
  /\ refresh' = IF refresh[t].at = "none"
                THEN [refresh EXCEPT ![t] = [NoRefresh EXCEPT !.at = "queued"]]
                ELSE refresh

UnderWay(t) == refresh[t].at \in {"sent", "answered"}
\* Mutant: every tab refreshes at once.
AcquireLockOfTab(t) ==
  /\ refresh[t].at = "queued"
  /\ refresh' = [refresh EXCEPT ![t] =
                   [at |-> "sent", with |-> cookie, result |-> None]]
  /\ UNCHANGED <<sessions, cookie, stale, auth, call, reused, lost, excused, used>>

\* navigator.locks lets one tab at a time past this point.
AcquireLock(t) ==
  /\ refresh[t].at = "queued"
  /\ HasLocks => \A u \in Tab : ~UnderWay(u)
  /\ refresh' = [refresh EXCEPT ![t] =
                   [at |-> "sent", with |-> cookie, result |-> None]]
  /\ UNCHANGED <<sessions, cookie, stale, auth, call, reused, lost, excused, used>>

RefreshHandled(t) ==
  /\ refresh[t].at = "sent"
  /\ Rotate(refresh[t].with)
  /\ refresh' = [refresh EXCEPT ![t] =
                   [@ EXCEPT !.at = "answered",
                             !.result = Rotated(refresh[t].with)]]
  /\ UNCHANGED <<cookie, stale, auth, call, lost, excused, used>>

\* Mutants: the request is sent again as it was; a rejected refresh leaves the
\* requests that waited for it.
ResentAsBefore(t) ==
  [call EXCEPT ![t] = [c \in Call |->
     IF Waiting(t, c) THEN [@[c] EXCEPT !.at = "resent"] ELSE @[c]]]
FailedButFirst(t) ==
  [call EXCEPT ![t] = [c \in Call |->
     IF Waiting(t, c) /\ c # CHOOSE d \in Call : TRUE THEN Idle ELSE @[c]]]

\* After a refresh the requests that waited are sent once more; without one
\* they fail, and so does a restoreSession.
Resent(t) ==
  [call EXCEPT ![t] = [c \in Call |->
     IF Waiting(t, c) THEN [@[c] EXCEPT !.at = "resent", !.with = cookie'] ELSE @[c]]]
Failed(t) ==
  [call EXCEPT ![t] = [c \in Call |-> IF Waiting(t, c) THEN Idle ELSE @[c]]]
Restoring(t) == \E c \in Call : Waiting(t, c) /\ call[t][c].for = "restore"
Expired(t) ==
  auth' = [auth EXCEPT ![t] =
             IF @ = "in" \/ (@ = "starting" /\ Restoring(t)) THEN "out" ELSE @]
NotRestored(t) ==
  auth' = [auth EXCEPT ![t] = IF @ = "starting" /\ Restoring(t) THEN "out" ELSE @]

RefreshDone(t) == refresh' = [refresh EXCEPT ![t] = NoRefresh]

\* An answer that is not for the cookies the browser has by now.
Overtaken(t) == cookie # refresh[t].with

RefreshAnswered(t) ==
  /\ refresh[t].at = "answered" /\ refresh[t].result # None
  /\ cookie' = refresh[t].result
  /\ call' = Resent(t) /\ RefreshDone(t)
  /\ excused' = (excused \/ Overtaken(t))
  /\ UNCHANGED <<sessions, stale, auth, reused, lost, used>>

RefreshRefused(t) ==
  /\ refresh[t].at = "answered" /\ refresh[t].result = None
  /\ cookie' = None
  /\ Expired(t) /\ call' = Failed(t) /\ RefreshDone(t)
  /\ excused' = (excused \/ Overtaken(t))
  /\ UNCHANGED <<sessions, stale, reused, lost, used>>

\* What the service did, and the browser does not learn.
RefreshForgotten(t) ==
  lost' = (lost \/ refresh[t].at = "sent" \/ refresh[t].result # None)

\* The proxy answers 408, 502 or 503: not ok, like a refusal, but the cookies
\* stay.
RefreshUnavailable(t) ==
  /\ UnderWay(t) /\ Spend("trouble", MaxTrouble)
  /\ Expired(t) /\ call' = Failed(t) /\ RefreshDone(t) /\ RefreshForgotten(t)
  /\ excused' = TRUE
  /\ IF refresh[t].at = "sent"
     THEN Rotate(refresh[t].with) \/ UNCHANGED <<sessions, reused>>
     ELSE UNCHANGED <<sessions, reused>>
  /\ UNCHANGED <<cookie, stale>>

\* fetch rejects: the requests fail, and nobody is signed out but a tab that
\* was starting.
RefreshUnreachable(t) ==
  /\ UnderWay(t) /\ Spend("trouble", MaxTrouble)
  /\ NotRestored(t) /\ call' = Failed(t) /\ RefreshDone(t) /\ RefreshForgotten(t)
  /\ excused' = TRUE
  /\ IF refresh[t].at = "sent"
     THEN Rotate(refresh[t].with) \/ UNCHANGED <<sessions, reused>>
     ELSE UNCHANGED <<sessions, reused>>
  /\ UNCHANGED <<cookie, stale>>

-----------------------------------------------------------------------------
(* The answers to the other requests.                                      *)

Answerable(t, c) == call[t][c].at \in {"sent", "resent"}

\* ok: a page has its data, login() and restoreSession have their user.
Succeeds(t, c) ==
  /\ Answerable(t, c) /\ call[t][c].for \in {"page", "me"} /\ Authorized(call[t][c])
  /\ auth' = [auth EXCEPT ![t] = IF call[t][c].for = "me" THEN "in" ELSE @]
  /\ Settle(t, c)
  /\ UNCHANGED <<sessions, cookie, stale, refresh, reused, lost, excused, used>>

\* POST /auth/login sets both cookies; login() asks for the user next.
LoggedIn(t, c) ==
  /\ Answerable(t, c) /\ call[t][c].for = "login"
  /\ sessions' = Append(sessions, NewSession)
  /\ cookie' = [session |-> Len(sessions'), n |-> 1]
  /\ call' = [call EXCEPT ![t][c] = [at |-> "sent", for |-> "me", with |-> cookie']]
  /\ UNCHANGED <<stale, auth, refresh, reused, lost, excused, used>>

\* The first 401 of a request, a wrong password included, leads to a refresh.
Refused(t, c) ==
  /\ call[t][c].at = "sent"
  /\ call[t][c].for \in {"page", "me", "wrong"}
  /\ call[t][c].for \in {"page", "me"} => ~Authorized(call[t][c])
  /\ Join(t, c)
  /\ UNCHANGED <<sessions, cookie, stale, auth, reused, lost, excused, used>>

\* The second one ends the session of the tab.
RefusedAgain(t, c) ==
  /\ call[t][c].at = "resent"
  /\ call[t][c].for \in {"page", "me", "wrong"}
  /\ call[t][c].for # "wrong" => ~Authorized(call[t][c])
  /\ auth' = [auth EXCEPT ![t] = IF @ \in {"in", "starting"} THEN "out" ELSE @]
  /\ Settle(t, c)
  /\ UNCHANGED <<sessions, cookie, stale, refresh, reused, lost, excused, used>>

\* An error that is no 401: the request fails, nothing else.
CallFails(t, c) ==
  /\ Answerable(t, c) /\ Spend("trouble", MaxTrouble)
  /\ call[t][c].for # "logout"
  /\ auth' = [auth EXCEPT ![t] =
                IF call[t][c].for = "me" /\ @ = "starting" THEN "out" ELSE @]
  /\ Settle(t, c)
  /\ UNCHANGED <<sessions, cookie, stale, refresh, reused, lost, excused>>

\* logout() ends the session of the tab whatever the service says.
LoggedOut(t, c) ==
  /\ Answerable(t, c) /\ call[t][c].for = "logout"
  /\ \/ Revoke(call[t][c].with) /\ cookie' = None
     \/ Revoke(call[t][c].with) /\ UNCHANGED cookie
     \/ UNCHANGED <<sessions, cookie>>
  /\ auth' = [auth EXCEPT ![t] = "out"]
  /\ excused' = TRUE
  /\ Settle(t, c)
  /\ UNCHANGED <<stale, refresh, reused, lost, used>>

-----------------------------------------------------------------------------
(* AuthContext, the pages behind it, and the world.                        *)

\* AuthProvider mounts and calls restoreSession, which begins with a refresh
\* and goes on with /auth/me; a "restore" that is sent again is that request.
Open(t, c) ==
  /\ auth[t] = "closed" /\ auth' = [auth EXCEPT ![t] = "starting"]
  /\ call' = [call EXCEPT ![t][c] = [Idle EXCEPT !.at = "waiting", !.for = "restore"]]
  /\ refresh' = [refresh EXCEPT ![t] = [NoRefresh EXCEPT !.at = "queued"]]
  /\ UNCHANGED <<sessions, cookie, stale, reused, lost, excused, used>>

RestoreContinues(t, c) ==
  /\ call[t][c].at = "resent" /\ call[t][c].for = "restore"
  /\ call' = [call EXCEPT ![t][c] = [@ EXCEPT !.at = "sent", !.for = "me"]]
  /\ UNCHANGED <<sessions, cookie, stale, auth, refresh, reused, lost, excused, used>>

\* ProtectedRoute shows its page to a tab that is signed in, PublicRoute the
\* forms to one that is signed out.
Request(t, c) ==
  /\ auth[t] = "in" /\ Free(t, c) /\ Send(t, c, "page")
  /\ UNCHANGED <<sessions, cookie, stale, auth, refresh, reused, lost, excused, used>>

SignIn(t, c) ==
  /\ auth[t] = "out" /\ Free(t, c)
  /\ \A d \in Call : call[t][d].for = "page"
  /\ \/ Spend("logins", MaxLogins) /\ Send(t, c, "login")
     \/ Spend("trouble", MaxTrouble) /\ Send(t, c, "wrong")
  /\ UNCHANGED <<sessions, cookie, stale, auth, refresh, reused, lost, excused>>

SignOut(t, c) ==
  /\ auth[t] = "in" /\ Free(t, c) /\ Spend("trouble", MaxTrouble)
  /\ Send(t, c, "logout")
  /\ UNCHANGED <<sessions, cookie, stale, auth, refresh, reused, lost, excused>>

\* A tab is closed, or loaded again, with what it has under way.
Close(t) ==
  /\ auth[t] # "closed" /\ Spend("trouble", MaxTrouble)
  /\ auth' = [auth EXCEPT ![t] = "closed"]
  /\ call' = [call EXCEPT ![t] = [c \in Call |-> Idle]]
  /\ RefreshDone(t)
  /\ IF UnderWay(t) THEN RefreshForgotten(t) ELSE UNCHANGED lost
  /\ IF refresh[t].at = "sent"
     THEN Rotate(refresh[t].with) \/ UNCHANGED <<sessions, reused>>
     ELSE UNCHANGED <<sessions, reused>>
  /\ UNCHANGED <<cookie, stale, excused>>

\* An access token lives for minutes: not so short that one just issued
\* expires before the request it was issued for is answered.
AccessExpires ==
  /\ cookie # None /\ cookie \notin stale /\ Spend("expiries", MaxExpiries)
  /\ \A t \in Tab, c \in Call : ~(call[t][c].at = "resent" /\ call[t][c].with = cookie)
  /\ stale' = stale \cup {cookie}
  /\ UNCHANGED <<sessions, cookie, auth, call, refresh, reused, lost, excused>>

Init ==
  /\ sessions = <<>> /\ cookie = None /\ stale = {}
  /\ auth = [t \in Tab |-> "closed"]
  /\ call = [t \in Tab |-> [c \in Call |-> Idle]]
  /\ refresh = [t \in Tab |-> NoRefresh]
  /\ reused = FALSE /\ lost = FALSE /\ excused = FALSE
  /\ used = [k \in {"logins", "expiries", "trouble"} |-> 0]

RefreshStep(t) ==
  \/ RefreshHandled(t) \/ RefreshAnswered(t) \/ RefreshRefused(t)
CallStep(t, c) ==
  \/ Succeeds(t, c) \/ LoggedIn(t, c) \/ Refused(t, c) \/ RefusedAgain(t, c)
  \/ LoggedOut(t, c) \/ RestoreContinues(t, c) \/ CallFails(t, c)

Next ==
  \/ \E t \in Tab :
       \/ AcquireLock(t) \/ RefreshStep(t)
       \/ RefreshUnavailable(t) \/ RefreshUnreachable(t) \/ Close(t)
       \/ \E c \in Call : \/ CallStep(t, c) \/ Open(t, c) \/ Request(t, c)
                          \/ SignIn(t, c) \/ SignOut(t, c)
  \/ AccessExpires

Spec == Init /\ [][Next]_vars

-----------------------------------------------------------------------------
(* Properties.                                                             *)

TypeOK ==
  /\ sessions \in Seq([current : Nat, revoked : BOOLEAN])
  /\ cookie \in Token \cup {None}
  /\ auth \in [Tab -> {"closed", "starting", "in", "out"}]
  /\ call \in [Tab -> [Call -> [at : {"idle", "sent", "waiting", "resent"},
                                for : {"page", "me", "login", "wrong", "logout", "restore"},
                                with : Token \cup {None}]]]
  /\ refresh \in [Tab -> [at : {"none", "queued", "sent", "answered"},
                          with : Token \cup {None}, result : Token \cup {None}]]
  /\ reused \in BOOLEAN /\ lost \in BOOLEAN /\ excused \in BOOLEAN

\* The browser never presents a token twice, however many requests of however
\* many tabs are refused at once: the service revokes a session for theft only
\* if an answer with a new token was lost.
NoSelfRevocation == HasLocks /\ reused => lost

\* No tab is signed out although its session goes on, unless the user logged
\* out, the service was not available, a token was lost, or an answer overtook
\* newer cookies.
SignedOutMeansEnded ==
  [][\A t \in Tab : auth[t] = "in" /\ auth'[t] = "out"
                      => excused' \/ lost']_vars

\* A request that waits for new tokens has a refresh of its own tab to wait for,
\* and a refresh has somebody who waits for it or for its lock: no request hangs
\* on a promise that is gone.
WaitersAreServed ==
  \A t \in Tab : (\E c \in Call : Waiting(t, c)) <=> refresh[t].at # "none"

=============================================================================
