------------------------ MODULE BrowserSession_proofs ------------------------
(***************************************************************************)
(* TLAPS proofs that a browser never presents a token twice, that no       *)
(* request waits for a refresh that is gone and that nobody is signed out  *)
(* while the session goes on, for any number of tabs and requests.         *)
(***************************************************************************)
EXTENDS BrowserSession, SequenceTheorems, TLAPS

\* Every token belongs to a session of the service.
Known(x) == x = None \/ (x \in Token /\ x.session \in DOMAIN sessions)
TokensKnown ==
  /\ Known(cookie)
  /\ \A t \in Tab : /\ Known(refresh[t].with) /\ Known(refresh[t].result)
                    /\ \A c \in Call : Known(call[t][c].with)

\* A tab that was closed left nothing behind.
ClosedTabsIdle ==
  \A t \in Tab : auth[t] = "closed" =>
    refresh[t].at = "none" /\ \A c \in Call : call[t][c] = Idle

\* The cookie is current, or a new one is on its way.
OnItsWay(t) ==
  /\ refresh[t].at = "answered" /\ refresh[t].result # None
  /\ cookie # None /\ refresh[t].result.session = cookie.session
CookieRenewed ==
  cookie # None => Current(cookie) \/ \E t \in Tab : OnItsWay(t)

OneUnderWay == \A t, u \in Tab : UnderWay(t) /\ UnderWay(u) => t = u
SentCurrent ==
  \A t \in Tab : refresh[t].at = "sent" /\ refresh[t].with # None
                   => Current(refresh[t].with)
AnswerCurrent ==
  \A t \in Tab : refresh[t].at = "answered" /\ refresh[t].result # None
                   => Current(refresh[t].result)
Fresh ==
  HasLocks /\ ~lost =>
    ~reused /\ OneUnderWay /\ SentCurrent /\ AnswerCurrent /\ CookieRenewed

-----------------------------------------------------------------------------
LEMMA TokenNotNone == None \notin Token
BY SessionAssumption DEF Token

LEMMA InitType == Init => TypeOK
<1> SUFFICES ASSUME Init PROVE TypeOK
  OBVIOUS
<1>1. sessions \in Seq([current : Nat, revoked : BOOLEAN])
  BY EmptySeq DEF Init
<1>2. /\ auth \in [Tab -> {"closed", "starting", "in", "out"}]
      /\ refresh \in [Tab -> [at : {"none", "queued", "sent", "answered"},
                              with : Token \cup {None}, result : Token \cup {None}]]
  BY DEF Init, NoRefresh
<1>3. call \in [Tab -> [Call -> [at : {"idle", "sent", "waiting", "resent"},
                                for : {"page", "me", "login", "wrong", "logout", "restore"},
                                with : Token \cup {None}]]]
  BY DEF Init, Idle
<1> QED
  BY <1>1, <1>2, <1>3 DEF Init, TypeOK

LEMMA SessionType ==
  ASSUME TypeOK, NEW i \in DOMAIN sessions
  PROVE  sessions[i] \in [current : Nat, revoked : BOOLEAN]
<1>1. sessions \in Seq([current : Nat, revoked : BOOLEAN])
  BY DEF TypeOK
<1>2. i \in 1..Len(sessions)
  BY <1>1, LenProperties
<1> QED
  BY <1>1, <1>2, ElementOfSeq

\* Changing two fields of a request or of a refresh.
CallRecord == [at : {"idle", "sent", "waiting", "resent"},
               for : {"page", "me", "login", "wrong", "logout", "restore"},
               with : Token \cup {None}]
RefreshRecord == [at : {"none", "queued", "sent", "answered"},
                  with : Token \cup {None}, result : Token \cup {None}]
LEMMA RecordMoves ==
  /\ \A r \in CallRecord, x \in Token \cup {None} :
       [r EXCEPT !.at = "resent", !.with = x] \in CallRecord
  /\ \A r \in CallRecord : [r EXCEPT !.at = "sent", !.for = "me"] \in CallRecord
  /\ \A r \in RefreshRecord, x \in Token \cup {None} :
       [r EXCEPT !.at = "answered", !.result = x] \in RefreshRecord
BY DEF CallRecord, RefreshRecord

LEMMA CallType ==
  ASSUME TypeOK, NEW t \in Tab, NEW c \in Call
  PROVE  call[t][c] \in CallRecord
BY DEF TypeOK, CallRecord

LEMMA RefreshType ==
  ASSUME TypeOK, NEW t \in Tab
  PROVE  refresh[t] \in RefreshRecord
BY DEF TypeOK, RefreshRecord

\* Changing one session.
LEMMA SessionChanged ==
  ASSUME TypeOK, NEW i \in DOMAIN sessions,
         NEW r \in [current : Nat, revoked : BOOLEAN],
         sessions' = [sessions EXCEPT ![i] = r]
  PROVE  /\ sessions' \in Seq([current : Nat, revoked : BOOLEAN])
         /\ Len(sessions') = Len(sessions) /\ DOMAIN sessions' = DOMAIN sessions
         /\ \A j \in DOMAIN sessions : sessions'[j] = IF j = i THEN r ELSE sessions[j]
<1>1. sessions \in Seq([current : Nat, revoked : BOOLEAN])
  BY DEF TypeOK
<1>2. i \in 1..Len(sessions) /\ DOMAIN sessions = 1..Len(sessions)
  BY <1>1, LenProperties
<1> QED
  BY <1>1, <1>2, ExceptSeq, LenProperties

\* What any step of the sessions does to their type.
LEMMA RotateType ==
  ASSUME TypeOK, NEW x \in Token \cup {None}, Rotate(x), Known(x)
  PROVE  /\ sessions' \in Seq([current : Nat, revoked : BOOLEAN])
         /\ reused' \in BOOLEAN /\ Len(sessions') = Len(sessions)
         /\ DOMAIN sessions' = DOMAIN sessions
         /\ Rotated(x) \in Token \cup {None}
<1>1. CASE x = None
  BY <1>1 DEF Rotate, Rotated, Live, TypeOK
<1>2. CASE x # None
  <2> DEFINE i == x.session
  <2>1. i \in DOMAIN sessions /\ x.n \in Nat /\ x \in Token
    BY <1>2 DEF Known, Token
  <2>2. sessions[i] \in [current : Nat, revoked : BOOLEAN]
    BY <2>1, SessionType
  <2>3. Rotated(x) \in Token \cup {None}
    BY <2>1 DEF Rotated, Token
  <2>4. CASE Live(x) /\ Current(x)
    <3>1. sessions' = [sessions EXCEPT ![i] = [sessions[i] EXCEPT !.current = @ + 1]]
      BY <2>4 DEF Rotate
    <3>2. [sessions[i] EXCEPT !.current = @ + 1] \in [current : Nat, revoked : BOOLEAN]
      BY <2>2
    <3> QED
      BY <2>1, <2>3, <2>4, <3>1, <3>2, SessionChanged DEF Rotate, TypeOK
  <2>5. CASE Live(x) /\ ~Current(x)
    <3>1. sessions' = [sessions EXCEPT ![i] = [sessions[i] EXCEPT !.revoked = TRUE]]
      BY <2>5 DEF Rotate
    <3>2. [sessions[i] EXCEPT !.revoked = TRUE] \in [current : Nat, revoked : BOOLEAN]
      BY <2>2
    <3> QED
      BY <2>1, <2>3, <2>5, <3>1, <3>2, SessionChanged DEF Rotate
  <2>6. CASE ~Live(x)
    BY <2>3, <2>6 DEF Rotate, TypeOK
  <2> QED
    BY <2>4, <2>5, <2>6
<1> QED
  BY <1>1, <1>2

\* Revoking one.
LEMMA RevokeType ==
  ASSUME TypeOK, NEW x \in Token \cup {None}, Known(x), Revoke(x)
  PROVE  /\ sessions' \in Seq([current : Nat, revoked : BOOLEAN])
         /\ DOMAIN sessions' = DOMAIN sessions
         /\ \A j \in DOMAIN sessions : sessions'[j].current = sessions[j].current
<1>1. CASE x = None
  BY <1>1 DEF Revoke, TypeOK
<1>2. CASE x # None
  <2> DEFINE i == x.session
  <2>1. i \in DOMAIN sessions
    BY <1>2 DEF Known, Token
  <2>2. sessions[i] \in [current : Nat, revoked : BOOLEAN]
    BY <2>1, SessionType
  <2>3. sessions' = [sessions EXCEPT ![i] = [sessions[i] EXCEPT !.revoked = TRUE]]
    BY <1>2 DEF Revoke
  <2>4. [sessions[i] EXCEPT !.revoked = TRUE] \in [current : Nat, revoked : BOOLEAN]
    BY <2>2
  <2> QED
    BY <2>1, <2>2, <2>3, <2>4, SessionChanged
<1> QED
  BY <1>1, <1>2

LEMMA NextType == TypeOK /\ TokensKnown /\ [Next]_vars => TypeOK'
<1> SUFFICES ASSUME TypeOK, TokensKnown, [Next]_vars PROVE TypeOK'
  OBVIOUS
<1> USE DEF TypeOK, Send, Settle, RefreshDone, RefreshForgotten, Idle, NoRefresh, Spend
<1>1. ASSUME NEW t \in Tab, AcquireLock(t) PROVE TypeOK'
  BY <1>1 DEF AcquireLock
<1>2. ASSUME NEW t \in Tab, RefreshHandled(t) PROVE TypeOK'
  <2>1. refresh[t].with \in Token \cup {None} /\ Known(refresh[t].with)
    BY DEF TokensKnown
  <2> QED
    <3>1. /\ sessions' \in Seq([current : Nat, revoked : BOOLEAN])
          /\ reused' \in BOOLEAN /\ Rotated(refresh[t].with) \in Token \cup {None}
      BY <1>2, <2>1, RotateType DEF RefreshHandled
    <3>2. [refresh[t] EXCEPT !.at = "answered", !.result = Rotated(refresh[t].with)]
            \in RefreshRecord
      BY <3>1, RefreshType, RecordMoves
    <3>3. refresh' \in [Tab -> RefreshRecord]
      BY <1>2, <3>2, RefreshType DEF RefreshHandled, RefreshRecord
    <3> QED
      BY <1>2, <2>1, <3>1, <3>3 DEF RefreshHandled, RefreshRecord
<1>3. ASSUME NEW t \in Tab, RefreshAnswered(t) PROVE TypeOK'
  <2>1. cookie' \in Token
    BY <1>3 DEF RefreshAnswered
  <2>2. Resent(t) \in [Tab -> [Call -> CallRecord]]
    <3>1. \A c \in Call : [call[t][c] EXCEPT !.at = "resent", !.with = cookie'] \in CallRecord
      BY <2>1, CallType, RecordMoves
    <3> QED
      BY <3>1, CallType DEF Resent, CallRecord
  <2> QED
    BY <1>3, <2>1, <2>2 DEF RefreshAnswered, CallRecord
<1>4. ASSUME NEW t \in Tab, RefreshRefused(t) PROVE TypeOK'
  BY <1>4 DEF RefreshRefused, Failed, Expired
<1>5. ASSUME NEW t \in Tab, RefreshUnavailable(t) PROVE TypeOK'
  <2>1. refresh[t].with \in Token \cup {None} /\ Known(refresh[t].with)
    BY DEF TokensKnown
  <2>2. sessions' \in Seq([current : Nat, revoked : BOOLEAN]) /\ reused' \in BOOLEAN
    BY <1>5, <2>1, RotateType DEF RefreshUnavailable
  <2> QED
    BY <1>5, <2>2 DEF RefreshUnavailable, Failed, Expired
<1>6. ASSUME NEW t \in Tab, RefreshUnreachable(t) PROVE TypeOK'
  <2>1. refresh[t].with \in Token \cup {None} /\ Known(refresh[t].with)
    BY DEF TokensKnown
  <2>2. sessions' \in Seq([current : Nat, revoked : BOOLEAN]) /\ reused' \in BOOLEAN
    BY <1>6, <2>1, RotateType DEF RefreshUnreachable
  <2> QED
    BY <1>6, <2>2 DEF RefreshUnreachable, Failed, NotRestored
<1>7. ASSUME NEW t \in Tab, Close(t) PROVE TypeOK'
  <2>1. refresh[t].with \in Token \cup {None} /\ Known(refresh[t].with)
    BY DEF TokensKnown
  <2>2. sessions' \in Seq([current : Nat, revoked : BOOLEAN]) /\ reused' \in BOOLEAN
    BY <1>7, <2>1, RotateType DEF Close
  <2> QED
    BY <1>7, <2>2 DEF Close
<1>8. ASSUME NEW t \in Tab, NEW c \in Call, Succeeds(t, c) PROVE TypeOK'
  BY <1>8 DEF Succeeds
<1>9. ASSUME NEW t \in Tab, NEW c \in Call, LoggedIn(t, c) PROVE TypeOK'
  <2>1. sessions' \in Seq([current : Nat, revoked : BOOLEAN]) /\ Len(sessions') \in Nat
    BY <1>9, AppendProperties, LenProperties DEF LoggedIn, NewSession
  <2>2. cookie' \in Token
    BY <1>9, <2>1 DEF LoggedIn, Token
  <2> QED
    BY <1>9, <2>1, <2>2 DEF LoggedIn
<1>10. ASSUME NEW t \in Tab, NEW c \in Call, Refused(t, c) PROVE TypeOK'
  BY <1>10 DEF Refused, Join
<1>11. ASSUME NEW t \in Tab, NEW c \in Call, RefusedAgain(t, c) PROVE TypeOK'
  BY <1>11 DEF RefusedAgain
<1>12. ASSUME NEW t \in Tab, NEW c \in Call, CallFails(t, c) PROVE TypeOK'
  BY <1>12 DEF CallFails
<1>13. ASSUME NEW t \in Tab, NEW c \in Call, LoggedOut(t, c) PROVE TypeOK'
  <2>1. call[t][c].with \in Token \cup {None} /\ Known(call[t][c].with)
    BY DEF TokensKnown
  <2>2. sessions' \in Seq([current : Nat, revoked : BOOLEAN])
    BY <1>13, <2>1, RevokeType DEF LoggedOut
  <2> QED
    BY <1>13, <2>2 DEF LoggedOut
<1>14. ASSUME NEW t \in Tab, NEW c \in Call, Open(t, c) PROVE TypeOK'
  BY <1>14 DEF Open
<1>15. ASSUME NEW t \in Tab, NEW c \in Call, RestoreContinues(t, c) PROVE TypeOK'
  <2>1. [call[t][c] EXCEPT !.at = "sent", !.for = "me"] \in CallRecord
    BY CallType, RecordMoves
  <2> QED
    BY <1>15, <2>1 DEF RestoreContinues, CallRecord
<1>16. ASSUME NEW t \in Tab, NEW c \in Call, Request(t, c) PROVE TypeOK'
  BY <1>16 DEF Request
<1>17. ASSUME NEW t \in Tab, NEW c \in Call, SignIn(t, c) PROVE TypeOK'
  <2>1. \A for \in {"login", "wrong"} : Send(t, c, for) => call' \in
          [Tab -> [Call -> [at : {"idle", "sent", "waiting", "resent"},
                            for : {"page", "me", "login", "wrong", "logout", "restore"},
                            with : Token \cup {None}]]]
    OBVIOUS
  <2> QED
    BY <1>17, <2>1 DEF SignIn
<1>18. ASSUME NEW t \in Tab, NEW c \in Call, SignOut(t, c) PROVE TypeOK'
  BY <1>18 DEF SignOut
<1>19. ASSUME AccessExpires PROVE TypeOK'
  BY <1>19 DEF AccessExpires
<1>20. CASE UNCHANGED vars
  BY <1>20 DEF vars
<1> QED
  BY <1>1, <1>2, <1>3, <1>4, <1>5, <1>6, <1>7, <1>8, <1>9, <1>10, <1>11, <1>12,
     <1>13, <1>14, <1>15, <1>16, <1>17, <1>18, <1>19, <1>20
     DEF Next, RefreshStep, CallStep

-----------------------------------------------------------------------------
(* Nobody waits for a refresh that is gone.                                *)

Served == TypeOK /\ TokensKnown /\ WaitersAreServed /\ ClosedTabsIdle

\* What a step shows that changes one request and no refresh.
LEMMA CallChanges ==
  ASSUME Served, NEW t \in Tab, NEW c \in Call, NEW r,
         call' = [call EXCEPT ![t][c] = r], refresh' = refresh,
         r.at # "waiting", ~Waiting(t, c), auth[t] # "closed",
         auth'[t] # "closed", \A u \in Tab : u # t => auth'[u] = auth[u]
  PROVE  WaitersAreServed' /\ ClosedTabsIdle'
<1>1. \A u \in Tab, d \in Call : call'[u][d] = IF u = t /\ d = c THEN r ELSE call[u][d]
  BY DEF Served, TypeOK
<1>2. \A u \in Tab, d \in Call : Waiting(u, d)' <=> Waiting(u, d)
  BY <1>1 DEF Waiting
<1>3. WaitersAreServed'
  BY <1>2 DEF Served, WaitersAreServed
<1>4. ClosedTabsIdle'
  BY <1>1 DEF Served, ClosedTabsIdle
<1> QED
  BY <1>3, <1>4

\* And one that ends the refresh of a tab, and the waiting for it.
LEMMA RefreshEnds ==
  ASSUME Served, NEW t \in Tab, RefreshDone(t),
         call' \in [Tab -> [Call -> CallRecord]],
         \A c \in Call : call'[t][c].at # "waiting",
         \A u \in Tab : u # t => call'[u] = call[u] /\ auth'[u] = auth[u],
         auth'[t] = "closed" => \A c \in Call : call'[t][c] = Idle
  PROVE  WaitersAreServed' /\ ClosedTabsIdle'
<1>1. refresh'[t] = NoRefresh /\ \A u \in Tab : u # t => refresh'[u] = refresh[u]
  BY DEF Served, TypeOK, RefreshDone
<1>2. WaitersAreServed'
  BY <1>1 DEF Served, WaitersAreServed, Waiting, NoRefresh
<1>3. ClosedTabsIdle'
  BY <1>1 DEF Served, ClosedTabsIdle, NoRefresh
<1> QED
  BY <1>2, <1>3

\* A tab with something under way is open.
LEMMA BusyIsOpen ==
  ASSUME Served, NEW t \in Tab
  PROVE  /\ refresh[t].at # "none" => auth[t] # "closed"
         /\ \A c \in Call : call[t][c].at # "idle" => auth[t] # "closed"
BY DEF Served, ClosedTabsIdle, Idle

LEMMA FailedCalls ==
  ASSUME Served, NEW t \in Tab
  PROVE  /\ Failed(t) \in [Tab -> [Call -> CallRecord]]
         /\ \A c \in Call : Failed(t)[t][c].at # "waiting"
         /\ \A u \in Tab : u # t => Failed(t)[u] = call[u]
BY DEF Served, TypeOK, Failed, Waiting, Idle, CallRecord

LEMMA ResentCalls ==
  ASSUME Served, NEW t \in Tab, cookie' \in Token
  PROVE  /\ Resent(t) \in [Tab -> [Call -> CallRecord]]
         /\ \A c \in Call : Resent(t)[t][c].at # "waiting"
         /\ \A u \in Tab : u # t => Resent(t)[u] = call[u]
<1>1. \A c \in Call : call[t][c] \in CallRecord
  BY CallType DEF Served
<1>2. \A c \in Call : [call[t][c] EXCEPT !.at = "resent", !.with = cookie'] \in CallRecord
  BY <1>1, RecordMoves
<1>3. \A c \in Call : [call[t][c] EXCEPT !.at = "resent", !.with = cookie'].at = "resent"
  BY <1>1 DEF CallRecord
<1>4. call \in [Tab -> [Call -> CallRecord]]
  BY DEF Served, TypeOK, CallRecord
<1> QED
  BY <1>1, <1>2, <1>3, <1>4 DEF Resent, Waiting

LEMMA NextServed ==
  ASSUME Served, [Next]_vars PROVE WaitersAreServed' /\ ClosedTabsIdle'
<1> DEFINE Goal == WaitersAreServed' /\ ClosedTabsIdle'
<1>0. TypeOK /\ WaitersAreServed /\ ClosedTabsIdle
  BY DEF Served
<1>1. ASSUME NEW t \in Tab, AcquireLock(t) PROVE Goal
  <2>1. auth[t] # "closed" /\ refresh[t].at = "queued" /\ refresh'[t].at = "sent"
        /\ call' = call /\ auth' = auth
        /\ \A u \in Tab : u # t => refresh'[u] = refresh[u]
    BY <1>0, <1>1, BusyIsOpen DEF AcquireLock, TypeOK
  <2> QED
    BY <1>0, <2>1 DEF WaitersAreServed, ClosedTabsIdle, Waiting
<1>2. ASSUME NEW t \in Tab, RefreshHandled(t) PROVE Goal
  <2>1. auth[t] # "closed" /\ refresh[t].at = "sent" /\ refresh'[t].at = "answered"
        /\ call' = call /\ auth' = auth
        /\ \A u \in Tab : u # t => refresh'[u] = refresh[u]
    BY <1>0, <1>2, BusyIsOpen DEF RefreshHandled, TypeOK
  <2> QED
    BY <1>0, <2>1 DEF WaitersAreServed, ClosedTabsIdle, Waiting
<1>3. ASSUME NEW t \in Tab, RefreshAnswered(t) PROVE Goal
  <2>1. cookie' \in Token /\ auth[t] # "closed"
    BY <1>0, <1>3, BusyIsOpen DEF RefreshAnswered, TypeOK
  <2> QED
    BY <1>3, <2>1, ResentCalls, RefreshEnds DEF RefreshAnswered
<1>4. ASSUME NEW t \in Tab, RefreshRefused(t) PROVE Goal
  <2>1. auth[t] # "closed" /\ auth'[t] # "closed"
        /\ \A u \in Tab : u # t => auth'[u] = auth[u]
    BY <1>0, <1>4, BusyIsOpen DEF RefreshRefused, Expired, TypeOK
  <2> QED
    BY <1>4, <2>1, FailedCalls, RefreshEnds DEF RefreshRefused
<1>5. ASSUME NEW t \in Tab, RefreshUnavailable(t) PROVE Goal
  <2>1. auth[t] # "closed" /\ auth'[t] # "closed"
        /\ \A u \in Tab : u # t => auth'[u] = auth[u]
    BY <1>0, <1>5, BusyIsOpen DEF RefreshUnavailable, Expired, TypeOK, UnderWay
  <2> QED
    BY <1>5, <2>1, FailedCalls, RefreshEnds DEF RefreshUnavailable
<1>6. ASSUME NEW t \in Tab, RefreshUnreachable(t) PROVE Goal
  <2>1. auth[t] # "closed" /\ auth'[t] # "closed"
        /\ \A u \in Tab : u # t => auth'[u] = auth[u]
    BY <1>0, <1>6, BusyIsOpen DEF RefreshUnreachable, NotRestored, TypeOK, UnderWay
  <2> QED
    BY <1>6, <2>1, FailedCalls, RefreshEnds DEF RefreshUnreachable
<1>7. ASSUME NEW t \in Tab, Close(t) PROVE Goal
  <2>1. /\ call' \in [Tab -> [Call -> CallRecord]]
        /\ \A c \in Call : call'[t][c] = Idle
        /\ \A u \in Tab : u # t => call'[u] = call[u] /\ auth'[u] = auth[u]
    BY <1>0, <1>7 DEF Close, TypeOK, Idle, CallRecord
  <2> QED
    BY <1>7, <2>1, RefreshEnds DEF Close, Idle
<1>8. ASSUME NEW t \in Tab, NEW c \in Call, Succeeds(t, c) PROVE Goal
  <2>1. /\ call' = [call EXCEPT ![t][c] = Idle] /\ refresh' = refresh
        /\ ~Waiting(t, c) /\ call[t][c].at # "idle"
    BY <1>8 DEF Succeeds, Settle, Answerable, Waiting
  <2>2. auth[t] # "closed"
    BY <2>1, BusyIsOpen
  <2>3. auth'[t] # "closed" /\ \A u \in Tab : u # t => auth'[u] = auth[u]
    BY <1>0, <1>8, <2>2 DEF Succeeds, TypeOK
  <2>4. Idle.at # "waiting"
    BY DEF Idle
  <2> QED
    BY <2>1, <2>2, <2>3, <2>4, CallChanges
<1>9. ASSUME NEW t \in Tab, NEW c \in Call, LoggedIn(t, c) PROVE Goal
  <2> DEFINE r == [at |-> "sent", for |-> "me", with |-> cookie']
  <2>1. /\ call' = [call EXCEPT ![t][c] = r] /\ refresh' = refresh
        /\ ~Waiting(t, c) /\ auth' = auth
    BY <1>9 DEF LoggedIn, Answerable, Waiting
  <2>2. auth[t] # "closed"
    BY <1>9, BusyIsOpen DEF LoggedIn, Answerable
  <2>3. r.at # "waiting"
    OBVIOUS
  <2> HIDE DEF r
  <2> QED
    BY <2>1, <2>2, <2>3, CallChanges
<1>10. ASSUME NEW t \in Tab, NEW c \in Call, Refused(t, c) PROVE Goal
  <2>1. auth[t] # "closed" /\ auth' = auth
    BY <1>10, BusyIsOpen DEF Refused
  <2>2. /\ call'[t][c].at = "waiting"
        /\ \A u \in Tab, d \in Call : (u # t \/ d # c) => call'[u][d] = call[u][d]
    BY <1>0, <1>10 DEF Refused, Join, TypeOK
  <2>3. /\ refresh'[t].at # "none"
        /\ \A u \in Tab : u # t => refresh'[u] = refresh[u]
    BY <1>0, <1>10 DEF Refused, Join, TypeOK, NoRefresh
  <2> QED
    BY <1>0, <2>1, <2>2, <2>3 DEF WaitersAreServed, ClosedTabsIdle, Waiting
<1>11. ASSUME NEW t \in Tab, NEW c \in Call, RefusedAgain(t, c) PROVE Goal
  <2>1. /\ call' = [call EXCEPT ![t][c] = Idle] /\ refresh' = refresh
        /\ ~Waiting(t, c) /\ call[t][c].at # "idle"
    BY <1>11 DEF RefusedAgain, Settle, Answerable, Waiting
  <2>2. auth[t] # "closed"
    BY <2>1, BusyIsOpen
  <2>3. auth'[t] # "closed" /\ \A u \in Tab : u # t => auth'[u] = auth[u]
    BY <1>0, <1>11, <2>2 DEF RefusedAgain, TypeOK
  <2>4. Idle.at # "waiting"
    BY DEF Idle
  <2> QED
    BY <2>1, <2>2, <2>3, <2>4, CallChanges
<1>12. ASSUME NEW t \in Tab, NEW c \in Call, CallFails(t, c) PROVE Goal
  <2>1. /\ call' = [call EXCEPT ![t][c] = Idle] /\ refresh' = refresh
        /\ ~Waiting(t, c) /\ call[t][c].at # "idle"
    BY <1>12 DEF CallFails, Settle, Answerable, Waiting
  <2>2. auth[t] # "closed"
    BY <2>1, BusyIsOpen
  <2>3. auth'[t] # "closed" /\ \A u \in Tab : u # t => auth'[u] = auth[u]
    BY <1>0, <1>12, <2>2 DEF CallFails, TypeOK
  <2>4. Idle.at # "waiting"
    BY DEF Idle
  <2> QED
    BY <2>1, <2>2, <2>3, <2>4, CallChanges
<1>13. ASSUME NEW t \in Tab, NEW c \in Call, LoggedOut(t, c) PROVE Goal
  <2>1. /\ call' = [call EXCEPT ![t][c] = Idle] /\ refresh' = refresh
        /\ ~Waiting(t, c) /\ call[t][c].at # "idle"
    BY <1>13 DEF LoggedOut, Settle, Answerable, Waiting
  <2>2. auth[t] # "closed"
    BY <2>1, BusyIsOpen
  <2>3. auth'[t] # "closed" /\ \A u \in Tab : u # t => auth'[u] = auth[u]
    BY <1>0, <1>13, <2>2 DEF LoggedOut, TypeOK
  <2>4. Idle.at # "waiting"
    BY DEF Idle
  <2> QED
    BY <2>1, <2>2, <2>3, <2>4, CallChanges
<1>14. ASSUME NEW t \in Tab, NEW c \in Call, Open(t, c) PROVE Goal
  <2>1. auth'[t] # "closed" /\ \A u \in Tab : u # t => auth'[u] = auth[u]
    BY <1>0, <1>14 DEF Open, TypeOK
  <2>2. /\ call'[t][c].at = "waiting"
        /\ \A u \in Tab, d \in Call : (u # t \/ d # c) => call'[u][d] = call[u][d]
    BY <1>0, <1>14 DEF Open, TypeOK, Idle
  <2>3. /\ refresh'[t].at # "none"
        /\ \A u \in Tab : u # t => refresh'[u] = refresh[u]
    BY <1>0, <1>14 DEF Open, TypeOK, NoRefresh
  <2> QED
    BY <1>0, <2>1, <2>2, <2>3 DEF WaitersAreServed, ClosedTabsIdle, Waiting
<1>15. ASSUME NEW t \in Tab, NEW c \in Call, RestoreContinues(t, c) PROVE Goal
  <2>1. [call[t][c] EXCEPT !.at = "sent", !.for = "me"].at = "sent"
    BY <1>0, CallType DEF CallRecord
  <2> QED
    BY <1>15, <2>1, CallChanges, BusyIsOpen DEF RestoreContinues, Waiting
<1>16. ASSUME NEW t \in Tab, NEW c \in Call, Request(t, c) PROVE Goal
  <2> DEFINE r == [at |-> "sent", for |-> "page", with |-> cookie]
  <2>1. /\ call' = [call EXCEPT ![t][c] = r] /\ refresh' = refresh
        /\ ~Waiting(t, c) /\ auth' = auth
    BY <1>16 DEF Request, Send, Free, Waiting
  <2>2. auth[t] # "closed"
    BY <1>16, BusyIsOpen DEF Request
  <2>3. r.at # "waiting"
    OBVIOUS
  <2> HIDE DEF r
  <2> QED
    BY <2>1, <2>2, <2>3, CallChanges
<1>17. ASSUME NEW t \in Tab, NEW c \in Call, SignIn(t, c) PROVE Goal
  BY <1>17, CallChanges DEF SignIn, Send, Free, Waiting
<1>18. ASSUME NEW t \in Tab, NEW c \in Call, SignOut(t, c) PROVE Goal
  <2> DEFINE r == [at |-> "sent", for |-> "logout", with |-> cookie]
  <2>1. /\ call' = [call EXCEPT ![t][c] = r] /\ refresh' = refresh
        /\ ~Waiting(t, c) /\ auth' = auth
    BY <1>18 DEF SignOut, Send, Free, Waiting
  <2>2. auth[t] # "closed"
    BY <1>18, BusyIsOpen DEF SignOut
  <2>3. r.at # "waiting"
    OBVIOUS
  <2> HIDE DEF r
  <2> QED
    BY <2>1, <2>2, <2>3, CallChanges
<1>19. CASE AccessExpires \/ UNCHANGED vars
  BY <1>0, <1>19 DEF AccessExpires, vars, WaitersAreServed, ClosedTabsIdle, Waiting
<1> QED
  BY <1>1, <1>2, <1>3, <1>4, <1>5, <1>6, <1>7, <1>8, <1>9, <1>10, <1>11, <1>12,
     <1>13, <1>14, <1>15, <1>16, <1>17, <1>18, <1>19
     DEF Next, RefreshStep, CallStep
LEMMA InitServed == Init => TokensKnown /\ WaitersAreServed /\ ClosedTabsIdle
BY DEF Init, TokensKnown, Known, WaitersAreServed, ClosedTabsIdle, Waiting, Idle, NoRefresh

-----------------------------------------------------------------------------
(* Every token belongs to a session.                                       *)

KnownTo(S, x) == x = None \/ (x \in Token /\ x.session \in DOMAIN S)

\* A step that copies the tokens there are, rotates one or opens a session.
LEMMA TokensMove ==
  ASSUME TypeOK, TokensKnown, DOMAIN sessions \subseteq DOMAIN sessions',
         KnownTo(sessions', cookie'),
         \A t \in Tab : /\ refresh'[t].with \in {refresh[t].with, cookie, None}
                        /\ \/ refresh'[t].result \in {refresh[t].result, None}
                           \/ KnownTo(sessions', refresh'[t].result),
         \A t \in Tab, c \in Call :
           call'[t][c].with \in {call[t][c].with, cookie, cookie', None}
  PROVE  TokensKnown'
<1>1. \A x : Known(x) => KnownTo(sessions', x)
  BY DEF Known, KnownTo
<1>2. /\ KnownTo(sessions', cookie) /\ KnownTo(sessions', None)
      /\ \A t \in Tab : /\ KnownTo(sessions', refresh[t].with)
                        /\ KnownTo(sessions', refresh[t].result)
                        /\ \A c \in Call : KnownTo(sessions', call[t][c].with)
  BY <1>1 DEF TokensKnown, KnownTo
<1>3. \A t \in Tab : /\ KnownTo(sessions', refresh'[t].with)
                     /\ KnownTo(sessions', refresh'[t].result)
                     /\ \A c \in Call : KnownTo(sessions', call'[t][c].with)
  BY <1>2
<1> QED
  BY <1>3 DEF TokensKnown, Known, KnownTo

LEMMA NextTokensKnown == TypeOK /\ TokensKnown /\ [Next]_vars => TokensKnown'
<1> SUFFICES ASSUME TypeOK, TokensKnown, [Next]_vars PROVE TokensKnown'
  OBVIOUS
<1>0. /\ KnownTo(sessions, cookie)
      /\ \A t \in Tab : /\ refresh[t].with \in Token \cup {None}
                        /\ Known(refresh[t].with) /\ Known(refresh[t].result)
  BY DEF TokensKnown, TypeOK, Known, KnownTo
<1> USE DEF KnownTo
<1>1. ASSUME NEW t \in Tab, AcquireLock(t) PROVE TokensKnown'
  BY <1>0, <1>1, TokensMove DEF AcquireLock, TypeOK
<1>2. ASSUME NEW t \in Tab, RefreshHandled(t) PROVE TokensKnown'
  <2> DEFINE x == refresh[t].with
  <2>1. /\ DOMAIN sessions' = DOMAIN sessions
        /\ Rotated(x) \in Token \cup {None}
    BY <1>0, <1>2, RotateType DEF RefreshHandled
  <2>2. KnownTo(sessions', Rotated(x))
    <3>1. CASE Live(x) /\ Current(x)
      <4>1. Known(x) /\ x # None
        BY <1>0, <3>1 DEF Live
      <4>2. Rotated(x).session = x.session
        BY <3>1, <4>1 DEF Rotated, Known, Token
      <4> QED
        BY <2>1, <4>1, <4>2 DEF Known
    <3>2. CASE ~(Live(x) /\ Current(x))
      BY <3>2 DEF Rotated
    <3> QED
      BY <3>1, <3>2
  <2>3. [refresh[t] EXCEPT !.at = "answered", !.result = Rotated(x)].with = x
    BY RefreshType DEF RefreshRecord
  <2>4. [refresh[t] EXCEPT !.at = "answered", !.result = Rotated(x)].result = Rotated(x)
    BY RefreshType DEF RefreshRecord
  <2>5. refresh' = [refresh EXCEPT ![t] =
                      [refresh[t] EXCEPT !.at = "answered", !.result = Rotated(x)]]
    BY <1>2 DEF RefreshHandled, TypeOK
  <2> HIDE DEF KnownTo
  <2>6. \A u \in Tab : /\ refresh'[u].with = refresh[u].with
                       /\ \/ refresh'[u].result = refresh[u].result
                          \/ KnownTo(sessions', refresh'[u].result)
    BY <2>2, <2>3, <2>4, <2>5 DEF TypeOK
  <2> QED
    BY <1>0, <1>2, <2>1, <2>6, TokensMove DEF RefreshHandled, KnownTo
<1>3. ASSUME NEW t \in Tab, RefreshAnswered(t) PROVE TokensKnown'
  <2>1. \A c \in Call : [call[t][c] EXCEPT !.at = "resent", !.with = cookie'].with = cookie'
    BY CallType DEF CallRecord
  <2>2. \A u \in Tab, c \in Call : call'[u][c].with \in {call[u][c].with, cookie'}
    BY <1>3, <2>1 DEF RefreshAnswered, Resent, TypeOK
  <2> QED
    BY <1>0, <1>3, <2>2, TokensMove DEF RefreshAnswered, RefreshDone, NoRefresh, TypeOK, Known
<1>4. ASSUME NEW t \in Tab, RefreshRefused(t) PROVE TokensKnown'
  BY <1>0, <1>4, TokensMove DEF RefreshRefused, RefreshDone, Failed, NoRefresh, Idle, TypeOK
<1>5. ASSUME NEW t \in Tab, RefreshUnavailable(t) \/ RefreshUnreachable(t) \/ Close(t)
      PROVE  TokensKnown'
  <2>1. DOMAIN sessions' = DOMAIN sessions
    BY <1>0, <1>5, RotateType DEF RefreshUnavailable, RefreshUnreachable, Close
  <2>2. cookie' = cookie /\ refresh' = [refresh EXCEPT ![t] = NoRefresh]
    BY <1>5 DEF RefreshUnavailable, RefreshUnreachable, Close, RefreshDone
  <2>3. \A u \in Tab, c \in Call : call'[u][c].with \in {call[u][c].with, None}
    <3>1. CASE call' = Failed(t)
      BY <3>1 DEF Failed, Idle, TypeOK
    <3>2. CASE call' = [call EXCEPT ![t] = [c \in Call |-> Idle]]
      BY <3>2 DEF Idle, TypeOK
    <3> QED
      BY <1>5, <3>1, <3>2 DEF RefreshUnavailable, RefreshUnreachable, Close
  <2> QED
    BY <1>0, <2>1, <2>2, <2>3, TokensMove DEF NoRefresh, TypeOK
<1>6. ASSUME NEW t \in Tab, NEW c \in Call, LoggedIn(t, c) PROVE TokensKnown'
  <2>1. /\ DOMAIN sessions' = 1..(Len(sessions) + 1) /\ DOMAIN sessions = 1..Len(sessions)
        /\ Len(sessions) \in Nat /\ Len(sessions') = Len(sessions) + 1
    BY <1>6, AppendProperties, LenProperties DEF LoggedIn, TypeOK, NewSession
  <2>2. KnownTo(sessions', cookie')
    BY <1>6, <2>1 DEF LoggedIn, Token
  <2> QED
    BY <1>6, <2>1, <2>2, TokensMove DEF LoggedIn, TypeOK
<1>7. ASSUME NEW t \in Tab, NEW c \in Call, LoggedOut(t, c) PROVE TokensKnown'
  <2>1. call[t][c].with \in Token \cup {None} /\ Known(call[t][c].with)
    BY DEF TokensKnown, TypeOK
  <2>2. DOMAIN sessions' = DOMAIN sessions
    BY <1>7, <2>1, RevokeType DEF LoggedOut
  <2> QED
    BY <1>0, <1>7, <2>2, TokensMove DEF LoggedOut, Settle, Idle, TypeOK
<1>8. ASSUME NEW t \in Tab, NEW c \in Call,
             Succeeds(t, c) \/ RefusedAgain(t, c) \/ CallFails(t, c)
      PROVE  TokensKnown'
  <2>1. call' = [call EXCEPT ![t][c] = Idle] /\ UNCHANGED <<sessions, cookie, refresh>>
    BY <1>8 DEF Succeeds, RefusedAgain, CallFails, Settle
  <2>2. \A u \in Tab, d \in Call : call'[u][d].with \in {call[u][d].with, None}
    BY <2>1 DEF TypeOK, Idle
  <2> QED
    BY <1>0, <2>1, <2>2, TokensMove
<1>9. ASSUME NEW t \in Tab, NEW c \in Call, Refused(t, c) PROVE TokensKnown'
  BY <1>0, <1>9, TokensMove DEF Refused, Join, NoRefresh, TypeOK
<1>10. ASSUME NEW t \in Tab, NEW c \in Call, Open(t, c) PROVE TokensKnown'
  BY <1>0, <1>10, TokensMove DEF Open, NoRefresh, Idle, TypeOK
<1>11. ASSUME NEW t \in Tab, NEW c \in Call, RestoreContinues(t, c) PROVE TokensKnown'
  <2>1. [call[t][c] EXCEPT !.at = "sent", !.for = "me"].with = call[t][c].with
    BY CallType DEF CallRecord
  <2> QED
    BY <1>0, <1>11, <2>1, TokensMove DEF RestoreContinues, TypeOK
<1>12. ASSUME NEW t \in Tab, NEW c \in Call,
              Request(t, c) \/ SignIn(t, c) \/ SignOut(t, c)
       PROVE  TokensKnown'
  <2>1. PICK for : call' = [call EXCEPT ![t][c] = [at |-> "sent", for |-> for, with |-> cookie]]
    BY <1>12 DEF Request, SignIn, SignOut, Send
  <2>2. \A u \in Tab, d \in Call : call'[u][d].with \in {call[u][d].with, cookie}
    BY <2>1 DEF TypeOK
  <2> QED
    BY <1>0, <1>12, <2>2, TokensMove DEF Request, SignIn, SignOut
<1>13. CASE AccessExpires \/ UNCHANGED vars
  BY <1>0, <1>13, TokensMove DEF AccessExpires, vars
<1> QED
  BY <1>1, <1>2, <1>3, <1>4, <1>5, <1>6, <1>7, <1>8, <1>9, <1>10, <1>11, <1>12, <1>13
     DEF Next, RefreshStep, CallStep

LEMMA NextKeepsServed == Served /\ [Next]_vars => Served'
BY NextType, NextTokensKnown, NextServed DEF Served

\* The model's type invariant.
THEOREM TypeCorrect == Spec => []TypeOK
<1>1. Init => Served
  BY InitType, InitServed DEF Served
<1>2. Served => TypeOK
  BY DEF Served
<1> QED
  BY <1>1, <1>2, NextKeepsServed, PTL DEF Spec

\* A request that was refused always has a refresh of its tab under way that
\* will resend or fail it, and no refresh goes on without one.
THEOREM NobodyHangs == Spec => []WaitersAreServed
<1>1. Init => Served
  BY InitType, InitServed DEF Served
<1>2. Served => WaitersAreServed
  BY DEF Served
<1> QED
  BY <1>1, <1>2, NextKeepsServed, PTL DEF Spec

-----------------------------------------------------------------------------
(* No token is presented twice.                                            *)

FreshInv == Served /\ Fresh

\* A step that leaves the tokens alone and begins or ends no refresh.
LEMMA FreshFrame ==
  ASSUME FreshInv, UNCHANGED <<sessions, cookie, reused, lost>>,
         \A t \in Tab : refresh'[t] = refresh[t] \/ (~UnderWay(t) /\ ~UnderWay(t)')
  PROVE  Fresh'
BY DEF FreshInv, Fresh, OneUnderWay, SentCurrent, AnswerCurrent, CookieRenewed,
       OnItsWay, Current, UnderWay

\* What holds while no token was lost, and what the tabs' tokens are.
Sound == ~reused /\ OneUnderWay /\ SentCurrent /\ AnswerCurrent /\ CookieRenewed

LEMMA NextFresh == FreshInv /\ [Next]_vars => Fresh'
<1> SUFFICES ASSUME FreshInv, [Next]_vars, HasLocks, ~lost' PROVE Sound'
  BY DEF Fresh, Sound
<1>0. /\ TypeOK /\ TokensKnown
      /\ cookie # None => cookie \in Token /\ cookie.session \in DOMAIN sessions
      /\ \A t \in Tab : /\ refresh[t] \in RefreshRecord
                        /\ Known(refresh[t].with) /\ Known(refresh[t].result)
  BY RefreshType DEF FreshInv, Served, TokensKnown, Known
<1>a. ~lost => Sound
  BY DEF FreshInv, Fresh, Sound
<1>1. ASSUME NEW t \in Tab, AcquireLock(t) PROVE Sound'
  <2>1. Sound /\ \A u \in Tab : ~UnderWay(u)
    BY <1>a, <1>1 DEF AcquireLock
  <2>2. cookie # None => Current(cookie)
    BY <2>1 DEF Sound, CookieRenewed, OnItsWay, UnderWay
  <2>3. /\ refresh'[t].at = "sent" /\ refresh'[t].with = cookie
        /\ \A u \in Tab : u # t => refresh'[u] = refresh[u]
        /\ UNCHANGED <<sessions, cookie, reused>>
    BY <1>0, <1>1 DEF AcquireLock, TypeOK
  <2> QED
    BY <2>1, <2>2, <2>3
       DEF Sound, OneUnderWay, SentCurrent, AnswerCurrent, CookieRenewed, Current, UnderWay
<1>2. ASSUME NEW t \in Tab, RefreshHandled(t) PROVE Sound'
  <2> DEFINE x == refresh[t].with
  <2>1. Sound /\ refresh[t].at = "sent" /\ UnderWay(t) /\ cookie' = cookie /\ Rotate(x)
    BY <1>a, <1>2 DEF RefreshHandled, UnderWay
  <2>2. /\ refresh'[t].at = "answered" /\ refresh'[t].result = Rotated(x)
        /\ \A u \in Tab : u # t => refresh'[u] = refresh[u] /\ ~UnderWay(u)
    <3>1. [refresh[t] EXCEPT !.at = "answered", !.result = Rotated(x)].at = "answered"
          /\ [refresh[t] EXCEPT !.at = "answered", !.result = Rotated(x)].result = Rotated(x)
      BY <1>0 DEF RefreshRecord
    <3> QED
      BY <1>0, <1>2, <2>1, <3>1 DEF RefreshHandled, TypeOK, Sound, OneUnderWay
  <2>3. cookie # None => Current(cookie)
    BY <2>1, <2>2 DEF Sound, CookieRenewed, OnItsWay, UnderWay
  <2>4. CASE Live(x) /\ Current(x)
    <3>1. x \in Token /\ x.session \in DOMAIN sessions /\ x.n \in Nat
      BY <1>0, <2>4 DEF Live, Known, Token
    <3>2. sessions[x.session] \in [current : Nat, revoked : BOOLEAN]
      BY <1>0, <3>1, SessionType
    <3> DEFINE r == [sessions[x.session] EXCEPT !.current = @ + 1]
    <3>3. r \in [current : Nat, revoked : BOOLEAN] /\ r.current = x.n + 1
      BY <2>4, <3>2 DEF Current
    <3>4. sessions' = [sessions EXCEPT ![x.session] = r]
      BY <2>1, <2>4 DEF Rotate
    <3> HIDE DEF r
    <3>5. /\ sessions'[x.session] = r
          /\ \A j \in DOMAIN sessions : j # x.session => sessions'[j] = sessions[j]
      BY <1>0, <3>1, <3>3, <3>4, SessionChanged
    <3>6. Rotated(x) = [x EXCEPT !.n = @ + 1] /\ Rotated(x).session = x.session
          /\ Rotated(x).n = x.n + 1
      BY <2>4, <3>1 DEF Rotated, Token
    <3>7. Rotated(x) # None
      <4>1. Rotated(x) \in Token
        BY <3>1, <3>6 DEF Token
      <4> QED
        BY <4>1, TokenNotNone
    <3>8. AnswerCurrent'
      BY <2>2, <3>3, <3>5, <3>6 DEF AnswerCurrent, Current, UnderWay
    <3>9. SentCurrent' /\ OneUnderWay' /\ ~reused'
      BY <2>1, <2>2, <2>4 DEF SentCurrent, OneUnderWay, UnderWay, Rotate, Sound
    <3>10. CookieRenewed'
      <4>1. CASE cookie # None /\ cookie.session = x.session
        BY <2>1, <2>2, <3>6, <3>7, <4>1 DEF CookieRenewed, OnItsWay
      <4>2. CASE cookie # None /\ cookie.session # x.session
        BY <1>0, <2>1, <2>3, <3>5, <4>2 DEF CookieRenewed, Current
      <4>3. CASE cookie = None
        BY <2>1, <4>3 DEF CookieRenewed
      <4> QED
        BY <4>1, <4>2, <4>3
    <3> QED
      BY <3>8, <3>9, <3>10 DEF Sound
  <2>5. CASE ~(Live(x) /\ Current(x))
    <3>1. ~Live(x)
      BY <2>1, <2>5 DEF Sound, SentCurrent, Live
    <3>2. UNCHANGED <<sessions, reused>> /\ Rotated(x) = None
      BY <2>1, <2>5, <3>1 DEF Rotate, Rotated
    <3> QED
      BY <2>1, <2>2, <2>3, <3>2
         DEF Sound, OneUnderWay, SentCurrent, AnswerCurrent, CookieRenewed, Current, UnderWay
  <2> QED
    BY <2>4, <2>5
<1>3. ASSUME NEW t \in Tab, RefreshAnswered(t) PROVE Sound'
  <2>1. Sound /\ cookie' = refresh[t].result /\ Current(refresh[t].result)
        /\ UNCHANGED <<sessions, reused>>
    BY <1>a, <1>3 DEF RefreshAnswered, Sound, AnswerCurrent
  <2>2. refresh'[t].at = "none" /\ \A u \in Tab : u # t => refresh'[u] = refresh[u]
    BY <1>0, <1>3 DEF RefreshAnswered, RefreshDone, NoRefresh, TypeOK
  <2> QED
    BY <2>1, <2>2
       DEF Sound, OneUnderWay, SentCurrent, AnswerCurrent, CookieRenewed, Current, UnderWay
<1>4. ASSUME NEW t \in Tab, RefreshRefused(t) PROVE Sound'
  <2>1. Sound /\ cookie' = None /\ UNCHANGED <<sessions, reused>>
    BY <1>a, <1>4 DEF RefreshRefused
  <2>2. refresh'[t].at = "none" /\ \A u \in Tab : u # t => refresh'[u] = refresh[u]
    BY <1>0, <1>4 DEF RefreshRefused, RefreshDone, NoRefresh, TypeOK
  <2> QED
    BY <2>1, <2>2
       DEF Sound, OneUnderWay, SentCurrent, AnswerCurrent, CookieRenewed, Current, UnderWay
<1>5. ASSUME NEW t \in Tab, RefreshUnavailable(t) \/ RefreshUnreachable(t) \/ Close(t)
      PROVE  Sound'
  <2>1. /\ ~lost /\ refresh[t].at # "sent"
        /\ refresh[t].at = "answered" => refresh[t].result = None
    BY <1>5 DEF RefreshUnavailable, RefreshUnreachable, Close, RefreshForgotten, UnderWay
  <2>2. Sound /\ UNCHANGED <<sessions, reused, cookie>>
    BY <1>a, <1>5, <2>1 DEF RefreshUnavailable, RefreshUnreachable, Close
  <2>3. refresh'[t].at = "none" /\ \A u \in Tab : u # t => refresh'[u] = refresh[u]
    BY <1>0, <1>5 DEF RefreshUnavailable, RefreshUnreachable, Close, RefreshDone, NoRefresh, TypeOK
  <2>4. \A u \in Tab : OnItsWay(u) => OnItsWay(u)'
    BY <2>1, <2>2, <2>3 DEF OnItsWay
  <2> QED
    BY <2>2, <2>3, <2>4
       DEF Sound, OneUnderWay, SentCurrent, AnswerCurrent, CookieRenewed, Current, UnderWay
<1>6. ASSUME NEW t \in Tab, NEW c \in Call, LoggedIn(t, c) PROVE Sound'
  <2>1. Sound /\ UNCHANGED <<refresh, reused>>
    BY <1>a, <1>6 DEF LoggedIn
  <2>2. /\ DOMAIN sessions = 1..Len(sessions) /\ Len(sessions') = Len(sessions) + 1
        /\ Len(sessions) \in Nat
        /\ sessions'[Len(sessions) + 1] = NewSession
        /\ \A j \in DOMAIN sessions : sessions'[j] = sessions[j]
    <3>1. sessions \in Seq([current : Nat, revoked : BOOLEAN])
          /\ NewSession \in [current : Nat, revoked : BOOLEAN]
      BY <1>0 DEF TypeOK, NewSession
    <3> QED
      BY <1>6, <3>1, AppendProperties, LenProperties DEF LoggedIn
  <2>3. Current(cookie)'
    BY <1>6, <2>2 DEF LoggedIn, Current, NewSession
  <2>4. \A x \in Token : x.session \in DOMAIN sessions /\ Current(x)
                           => x.n = sessions'[x.session].current
    BY <2>2 DEF Current
  <2>5. SentCurrent' /\ AnswerCurrent'
    BY <1>0, <2>1, <2>4 DEF Sound, SentCurrent, AnswerCurrent, Current, Known
  <2> QED
    BY <2>1, <2>3, <2>5 DEF Sound, OneUnderWay, CookieRenewed, UnderWay
<1>7. ASSUME NEW t \in Tab, NEW c \in Call, LoggedOut(t, c) PROVE Sound'
  <2>1. Sound /\ UNCHANGED <<refresh, reused>> /\ cookie' \in {cookie, None}
    BY <1>a, <1>7 DEF LoggedOut
  <2>2. \A j \in DOMAIN sessions : sessions'[j].current = sessions[j].current
    <3>1. call[t][c].with \in Token \cup {None} /\ Known(call[t][c].with)
      BY <1>0 DEF TokensKnown, TypeOK
    <3> QED
      BY <1>0, <1>7, <3>1, RevokeType DEF LoggedOut
  <2>3. SentCurrent' /\ AnswerCurrent'
    BY <1>0, <2>1, <2>2 DEF Sound, SentCurrent, AnswerCurrent, Current, Known
  <2>4. CookieRenewed'
    BY <1>0, <2>1, <2>2 DEF Sound, CookieRenewed, Current, OnItsWay
  <2> QED
    BY <2>1, <2>3, <2>4 DEF Sound, OneUnderWay, UnderWay
<1>8. ASSUME NEW t \in Tab, NEW c \in Call,
             \/ Succeeds(t, c) \/ RefusedAgain(t, c) \/ CallFails(t, c)
             \/ RestoreContinues(t, c) \/ Request(t, c) \/ SignIn(t, c) \/ SignOut(t, c)
      PROVE  Sound'
  <2>1. UNCHANGED <<sessions, cookie, refresh, reused, lost>>
    BY <1>8 DEF Succeeds, RefusedAgain, CallFails, RestoreContinues, Request, SignIn, SignOut
  <2> QED
    BY <1>a, <2>1, FreshFrame DEF Fresh, Sound
<1>9. ASSUME NEW t \in Tab, NEW c \in Call, Refused(t, c) \/ Open(t, c) PROVE Sound'
  <2>1. UNCHANGED <<sessions, cookie, reused, lost>>
    BY <1>9 DEF Refused, Open
  <2>2. \A u \in Tab : refresh'[u] = refresh[u] \/ (u = t /\ refresh'[u].at = "queued"
                                                       /\ refresh[u].at = "none")
    <3>1. Open(t, c) => refresh[t].at = "none"
      BY DEF FreshInv, Served, ClosedTabsIdle, Open
    <3> QED
      BY <1>0, <1>9, <3>1 DEF Refused, Join, Open, NoRefresh, TypeOK
  <2>3. \A u \in Tab : refresh'[u] = refresh[u] \/ (~UnderWay(u) /\ ~UnderWay(u)')
    BY <2>2 DEF UnderWay
  <2> QED
    BY <1>a, <2>1, <2>3, FreshFrame DEF Fresh, Sound
<1>10. CASE AccessExpires \/ UNCHANGED vars
  <2>1. UNCHANGED <<sessions, cookie, refresh, reused, lost>>
    BY <1>10 DEF AccessExpires, vars
  <2> QED
    BY <1>a, <2>1, FreshFrame DEF Fresh, Sound
<1> QED
  BY <1>1, <1>2, <1>3, <1>4, <1>5, <1>6, <1>7, <1>8, <1>9, <1>10
     DEF Next, RefreshStep, CallStep

\* Where tabs take turns, the service takes a refresh of this browser for a
\* theft only after an answer with a new token was lost.
THEOREM NoTokenIsPresentedTwice == Spec => []NoSelfRevocation
<1>1. Init => FreshInv
  <2>1. Init => Fresh
    BY DEF Init, Fresh, OneUnderWay, SentCurrent, AnswerCurrent, CookieRenewed,
           UnderWay, NoRefresh
  <2> QED
    BY <2>1, InitType, InitServed DEF FreshInv, Served
<1>2. FreshInv /\ [Next]_vars => FreshInv'
  BY NextKeepsServed, NextFresh DEF FreshInv
<1>3. FreshInv => NoSelfRevocation
  BY DEF FreshInv, Fresh, NoSelfRevocation
<1> QED
  BY <1>1, <1>2, <1>3, PTL DEF Spec

-----------------------------------------------------------------------------
(* Nobody is signed out while the session goes on.                         *)

\* No token of the browser is newer than the current one of its session.
NotAhead(S, x) ==
  x # None => x \in Token /\ x.session \in DOMAIN S /\ x.n <= S[x.session].current
NoneAhead ==
  /\ NotAhead(sessions, cookie) /\ \A x \in stale : NotAhead(sessions, x)
  /\ \A t \in Tab : NotAhead(sessions, refresh[t].result)

\* While a password is checked that is wrong, its tab does nothing else that
\* could sign it in.
WrongAlone ==
  \A t \in Tab, c \in Call : call[t][c].for = "wrong" =>
    auth[t] = "out" /\ \A d \in Call \ {c} : call[t][d].for = "page"

\* If there is no cookie nobody has been signed in.
CookieFirst ==
  cookie = None => \A t \in Tab : /\ auth[t] # "in"
                                  /\ \A c \in Call : call[t][c].with = None
\* A refresh that has a cookie to send is granted, with a token that is new; a
\* request that is sent again has a token that is good.
Granted ==
  \A t \in Tab : refresh[t].at = "answered" =>
    IF refresh[t].result = None THEN refresh[t].with = None
    ELSE refresh[t].result \notin stale \cup {cookie}
ResentAreGood ==
  \A t \in Tab, c \in Call : call[t][c].at = "resent" =>
    call[t][c].with # None /\ call[t][c].with \notin stale
NoneRevoked == \A i \in DOMAIN sessions : ~sessions[i].revoked

Steady == NoneRevoked /\ CookieFirst /\ Granted /\ ResentAreGood
Undisturbed == HasLocks /\ ~lost /\ ~excused

LEMMA SessionsGrow ==
  ASSUME TypeOK, TokensKnown, [Next]_vars, NEW i \in DOMAIN sessions
  PROVE  i \in DOMAIN sessions' /\ sessions[i].current <= sessions'[i].current
<1> DEFINE Goal == i \in DOMAIN sessions' /\ sessions[i].current <= sessions'[i].current
<1>0. sessions[i] \in [current : Nat, revoked : BOOLEAN]
  BY SessionType
<1>1. CASE UNCHANGED sessions
  BY <1>0, <1>1
<1>2. ASSUME NEW t \in Tab, Rotate(refresh[t].with) PROVE Goal
  <2> DEFINE x == refresh[t].with
  <2>1. CASE ~Live(x)
    BY <1>1, <1>2, <2>1 DEF Rotate
  <2>2. CASE Live(x)
    <3>1. x \in Token /\ x.session \in DOMAIN sessions
      BY <2>2 DEF Live, TokensKnown, Known
    <3>2. sessions[x.session] \in [current : Nat, revoked : BOOLEAN]
      BY <3>1, SessionType
    <3>3. PICK r \in [current : Nat, revoked : BOOLEAN] :
            /\ sessions' = [sessions EXCEPT ![x.session] = r]
            /\ sessions[x.session].current <= r.current
      <4> DEFINE up == [sessions[x.session] EXCEPT !.current = @ + 1]
                 end == [sessions[x.session] EXCEPT !.revoked = TRUE]
      <4>0. up \in [current : Nat, revoked : BOOLEAN]
        BY <3>2
      <4>1. end \in [current : Nat, revoked : BOOLEAN]
        BY <3>2
      <4>3. /\ up.current = sessions[x.session].current + 1
            /\ end.current = sessions[x.session].current
        BY <3>2
      <4>4. /\ sessions[x.session].current <= up.current
            /\ sessions[x.session].current <= end.current
        BY <3>2, <4>3
      <4>2. \/ sessions' = [sessions EXCEPT ![x.session] = up]
            \/ sessions' = [sessions EXCEPT ![x.session] = end]
        BY <1>2, <2>2 DEF Rotate
      <4> HIDE DEF up, end
      <4> QED
        BY <4>0, <4>1, <4>2, <4>4
    <3>4. sessions'[i] = IF i = x.session THEN r ELSE sessions[i]
      BY <3>1, <3>3, SessionChanged
    <3> QED
      BY <1>0, <3>1, <3>3, <3>4, SessionChanged
  <2> QED
    BY <2>1, <2>2
<1>3. ASSUME NEW t \in Tab, NEW c \in Call, LoggedIn(t, c) PROVE Goal
  <2>1. sessions \in Seq([current : Nat, revoked : BOOLEAN])
        /\ NewSession \in [current : Nat, revoked : BOOLEAN]
    BY DEF TypeOK, NewSession
  <2>2. DOMAIN sessions = 1..Len(sessions) /\ DOMAIN sessions' = 1..(Len(sessions) + 1)
        /\ Len(sessions) \in Nat /\ \A j \in DOMAIN sessions : sessions'[j] = sessions[j]
    BY <1>3, <2>1, AppendProperties, LenProperties DEF LoggedIn
  <2> QED
    BY <1>0, <2>2
<1>4. ASSUME NEW t \in Tab, NEW c \in Call, LoggedOut(t, c) PROVE Goal
  <2>1. call[t][c].with \in Token \cup {None} /\ Known(call[t][c].with)
    BY DEF TokensKnown, TypeOK
  <2> QED
    BY <1>0, <1>4, <2>1, RevokeType DEF LoggedOut
<1>5. ASSUME NEW t \in Tab,
             RefreshHandled(t) \/ RefreshUnavailable(t) \/ RefreshUnreachable(t) \/ Close(t)
      PROVE  Goal
  <2>1. Rotate(refresh[t].with) \/ UNCHANGED sessions
    BY <1>5 DEF RefreshHandled, RefreshUnavailable, RefreshUnreachable, Close
  <2> QED
    BY <1>1, <1>2, <2>1
<1>6. ASSUME NEW t \in Tab, AcquireLock(t) \/ RefreshAnswered(t) \/ RefreshRefused(t) PROVE Goal
  BY <1>1, <1>6 DEF AcquireLock, RefreshAnswered, RefreshRefused
<1>7. ASSUME NEW t \in Tab, NEW c \in Call,
             \/ Succeeds(t, c) \/ Refused(t, c) \/ RefusedAgain(t, c)
             \/ RestoreContinues(t, c) \/ CallFails(t, c)
             \/ Open(t, c) \/ Request(t, c) \/ SignIn(t, c) \/ SignOut(t, c)
      PROVE  Goal
  BY <1>1, <1>7 DEF Succeeds, Refused, RefusedAgain, RestoreContinues, CallFails, Open,
     Request, SignIn, SignOut
<1>8. CASE AccessExpires \/ UNCHANGED vars
  BY <1>1, <1>8 DEF AccessExpires, vars
<1>9. ASSUME NEW t \in Tab, NEW c \in Call, CallStep(t, c) PROVE Goal
  BY <1>3, <1>4, <1>7, <1>9 DEF CallStep
<1>10. ASSUME NEW t \in Tab, RefreshStep(t) PROVE Goal
  BY <1>5, <1>6, <1>10 DEF RefreshStep
<1>11. CASE Next
  BY <1>5, <1>6, <1>7, <1>8, <1>9, <1>10, <1>11 DEF Next
<1> QED
  BY <1>8, <1>11

LEMMA StaysBehind ==
  ASSUME TypeOK, TokensKnown, [Next]_vars, NEW x, NotAhead(sessions, x)
  PROVE  NotAhead(sessions', x)
<1> SUFFICES ASSUME x # None PROVE NotAhead(sessions', x)
  BY DEF NotAhead
<1> DEFINE i == x.session
<1>1. x \in Token /\ i \in DOMAIN sessions /\ x.n <= sessions[i].current /\ x.n \in Nat
  BY DEF NotAhead, Token
<1>2. i \in DOMAIN sessions' /\ sessions[i].current <= sessions'[i].current
  BY <1>1, SessionsGrow
<1>3. sessions[i] \in [current : Nat, revoked : BOOLEAN] /\ sessions[i].current \in Nat
  BY <1>1, SessionType
<1>4. sessions'[i].current \in Nat
  <2>1. sessions'[i] \in [current : Nat, revoked : BOOLEAN]
    <3>1. sessions' \in Seq([current : Nat, revoked : BOOLEAN])
      BY NextType DEF TypeOK
    <3>2. i \in 1..Len(sessions')
      BY <1>2, <3>1, LenProperties
    <3> QED
      BY <3>1, <3>2, ElementOfSeq
  <2> QED
    BY <2>1
<1>5. x.n <= sessions'[i].current
  BY <1>1, <1>2, <1>3, <1>4
<1> QED
  BY <1>1, <1>2, <1>5 DEF NotAhead

\* The token that a rotation returns is the new current one.
LEMMA RotatedIsNew ==
  ASSUME TypeOK, TokensKnown, NEW t \in Tab, Rotate(refresh[t].with),
         Rotated(refresh[t].with) # None
  PROVE  LET x == refresh[t].with
             y == Rotated(x)
         IN /\ y \in Token /\ y.session = x.session /\ x.session \in DOMAIN sessions
            /\ y.n = sessions[x.session].current + 1 /\ sessions'[x.session].current = y.n
            /\ DOMAIN sessions' = DOMAIN sessions
<1> DEFINE x == refresh[t].with
           y == Rotated(x)
<1>1. Live(x) /\ Current(x) /\ x # None
  BY DEF Rotated, Live
<1>2. x \in Token /\ x.session \in DOMAIN sessions /\ x.n \in Nat
  BY <1>1 DEF TokensKnown, Known, Token
<1>3. sessions[x.session] \in [current : Nat, revoked : BOOLEAN]
  BY <1>2, SessionType
<1> DEFINE r == [sessions[x.session] EXCEPT !.current = @ + 1]
<1>4. r \in [current : Nat, revoked : BOOLEAN]
  BY <1>3
<1>5. r.current = sessions[x.session].current + 1
  BY <1>3
<1>6. sessions' = [sessions EXCEPT ![x.session] = r]
  BY <1>1 DEF Rotate
<1>7. y = [x EXCEPT !.n = @ + 1]
  BY <1>1 DEF Rotated
<1>8. y \in Token /\ y.session = x.session /\ y.n = x.n + 1
  BY <1>2, <1>7 DEF Token
<1> HIDE DEF r, y
<1>9. sessions'[x.session] = r /\ DOMAIN sessions' = DOMAIN sessions
  BY <1>2, <1>4, <1>6, SessionChanged
<1> QED
  BY <1>1, <1>2, <1>5, <1>8, <1>9 DEF Current, y

\* What a step does to a refresh.
LEMMA RefreshMoves ==
  ASSUME TypeOK, [Next]_vars, NEW u \in Tab
  PROVE  \/ /\ RefreshHandled(u) /\ refresh'[u].result = Rotated(refresh[u].with)
            /\ refresh'[u].with = refresh[u].with
         \/ /\ refresh'[u].result \in {refresh[u].result, None}
            /\ refresh'[u].at = "answered" => refresh'[u] = refresh[u] /\ ~RefreshAnswered(u)
<1> DEFINE Goal ==
      \/ /\ RefreshHandled(u) /\ refresh'[u].result = Rotated(refresh[u].with)
         /\ refresh'[u].with = refresh[u].with
      \/ /\ refresh'[u].result \in {refresh[u].result, None}
         /\ refresh'[u].at = "answered" => refresh'[u] = refresh[u] /\ ~RefreshAnswered(u)
<1>0. /\ refresh \in [Tab -> RefreshRecord]
      /\ \A t \in Tab : refresh[t] \in RefreshRecord
  BY RefreshType DEF TypeOK, RefreshRecord
<1>a. RefreshAnswered(u) => refresh'[u].at = "none"
  BY <1>0 DEF RefreshAnswered, RefreshDone, NoRefresh
<1>1. ASSUME NEW t \in Tab, RefreshHandled(t) PROVE Goal
  <2> DEFINE r == [refresh[t] EXCEPT !.at = "answered", !.result = Rotated(refresh[t].with)]
  <2>1. r.result = Rotated(refresh[t].with) /\ r.with = refresh[t].with
    BY <1>0 DEF RefreshRecord
  <2>2. refresh' = [refresh EXCEPT ![t] = r]
    BY <1>1 DEF RefreshHandled
  <2> HIDE DEF r
  <2> QED
    BY <1>0, <1>a, <1>1, <2>1, <2>2
<1>2. ASSUME NEW t \in Tab, NEW r, refresh' = [refresh EXCEPT ![t] = r],
             r.at # "answered", r.result = None
      PROVE  Goal
  BY <1>0, <1>a, <1>2
<1>3. ASSUME NEW t \in Tab, AcquireLock(t) PROVE Goal
  <2> DEFINE r == [at |-> "sent", with |-> cookie, result |-> None]
  <2>1. refresh' = [refresh EXCEPT ![t] = r] /\ r.at # "answered" /\ r.result = None
    BY <1>3 DEF AcquireLock
  <2> HIDE DEF r
  <2> QED
    BY <1>2, <2>1
<1>4. ASSUME NEW t \in Tab,
             \/ RefreshAnswered(t) \/ RefreshRefused(t)
             \/ RefreshUnavailable(t) \/ RefreshUnreachable(t) \/ Close(t)
      PROVE  Goal
  <2>1. refresh' = [refresh EXCEPT ![t] = NoRefresh] /\ NoRefresh.at = "none"
        /\ NoRefresh.result = None
    BY <1>4 DEF RefreshAnswered, RefreshRefused, RefreshUnavailable, RefreshUnreachable,
       Close, RefreshDone, NoRefresh
  <2> QED
    BY <1>2, <2>1
<1>5. ASSUME NEW t \in Tab, NEW c \in Call, Refused(t, c) \/ Open(t, c) PROVE Goal
  <2>1. \/ UNCHANGED refresh
        \/ refresh' = [refresh EXCEPT ![t] = [NoRefresh EXCEPT !.at = "queued"]]
    BY <1>5 DEF Refused, Join, Open
  <2>2. /\ [NoRefresh EXCEPT !.at = "queued"].at = "queued"
        /\ [NoRefresh EXCEPT !.at = "queued"].result = None
    BY DEF NoRefresh
  <2> QED
    BY <1>a, <1>2, <2>1, <2>2
<1>6. CASE UNCHANGED refresh
  BY <1>a, <1>6
<1>7. ASSUME NEW t \in Tab, NEW c \in Call, CallStep(t, c) PROVE Goal
  BY <1>5, <1>6, <1>7 DEF CallStep, Succeeds, LoggedIn, RefusedAgain, LoggedOut,
     RestoreContinues, CallFails
<1>8. ASSUME NEW t \in Tab, NEW c \in Call, Request(t, c) \/ SignIn(t, c) \/ SignOut(t, c)
      PROVE  Goal
  BY <1>6, <1>8 DEF Request, SignIn, SignOut
<1>9. CASE AccessExpires \/ UNCHANGED vars
  BY <1>6, <1>9 DEF AccessExpires, vars
<1>10. CASE Next
  BY <1>1, <1>3, <1>4, <1>5, <1>7, <1>8, <1>9, <1>10 DEF Next, RefreshStep
<1> QED
  BY <1>9, <1>10

\* Where a new cookie comes from.
LEMMA CookieMoves ==
  ASSUME [Next]_vars
  PROVE  \/ UNCHANGED cookie
         \/ cookie' = None /\ \E t \in Tab : \/ RefreshRefused(t)
                                             \/ \E c \in Call : LoggedOut(t, c)
         \/ \E t \in Tab : RefreshAnswered(t) /\ cookie' = refresh[t].result
         \/ \E t \in Tab, c \in Call : LoggedIn(t, c)
<1>1. ASSUME NEW t \in Tab, NEW c \in Call, CallStep(t, c)
      PROVE  \/ UNCHANGED cookie \/ LoggedIn(t, c)
             \/ cookie' = None /\ LoggedOut(t, c)
  <2>1. CASE LoggedOut(t, c)
    <3>1. cookie' \in {cookie, None}
      BY <2>1 DEF LoggedOut
    <3> QED
      BY <2>1, <3>1
  <2>2. ASSUME \/ Succeeds(t, c) \/ Refused(t, c) \/ RefusedAgain(t, c)
               \/ RestoreContinues(t, c) \/ CallFails(t, c)
        PROVE  UNCHANGED cookie
    BY <2>2 DEF Succeeds, Refused, RefusedAgain, RestoreContinues, CallFails
  <2> QED
    BY <1>1, <2>1, <2>2 DEF CallStep
<1>2. ASSUME NEW t \in Tab, NEW c \in Call,
             Open(t, c) \/ Request(t, c) \/ SignIn(t, c) \/ SignOut(t, c)
      PROVE  UNCHANGED cookie
  BY <1>2 DEF Open, Request, SignIn, SignOut
<1>3. ASSUME NEW t \in Tab,
             \/ AcquireLock(t) \/ RefreshHandled(t) \/ RefreshUnavailable(t)
             \/ RefreshUnreachable(t) \/ Close(t)
      PROVE  UNCHANGED cookie
  BY <1>3 DEF AcquireLock, RefreshHandled, RefreshUnavailable, RefreshUnreachable, Close
<1>4. ASSUME NEW t \in Tab, RefreshRefused(t) PROVE cookie' = None
  BY <1>4 DEF RefreshRefused
<1>5. ASSUME NEW t \in Tab, RefreshAnswered(t) PROVE cookie' = refresh[t].result
  BY <1>5 DEF RefreshAnswered
<1>6. CASE AccessExpires \/ UNCHANGED vars
  BY <1>6 DEF AccessExpires, vars
<1>7. CASE Next
  BY <1>1, <1>2, <1>3, <1>4, <1>5, <1>6, <1>7 DEF Next, RefreshStep
<1> QED
  BY <1>6, <1>7

LEMMA SessionAppended ==
  ASSUME TypeOK, NEW t \in Tab, NEW c \in Call, LoggedIn(t, c)
  PROVE  /\ cookie' \in Token /\ cookie' # None /\ cookie'.session \notin DOMAIN sessions
         /\ cookie'.session \in DOMAIN sessions' /\ cookie'.n = 1
         /\ sessions'[cookie'.session] = NewSession
         /\ DOMAIN sessions' = DOMAIN sessions \cup {cookie'.session}
         /\ \A i \in DOMAIN sessions : sessions'[i] = sessions[i]
<1>1. sessions \in Seq([current : Nat, revoked : BOOLEAN])
      /\ NewSession \in [current : Nat, revoked : BOOLEAN]
  BY DEF TypeOK, NewSession
<1>2. /\ DOMAIN sessions = 1..Len(sessions) /\ DOMAIN sessions' = 1..(Len(sessions) + 1)
      /\ Len(sessions) \in Nat /\ Len(sessions') = Len(sessions) + 1
      /\ sessions'[Len(sessions) + 1] = NewSession
      /\ \A j \in DOMAIN sessions : sessions'[j] = sessions[j]
  BY <1>1, AppendProperties, LenProperties DEF LoggedIn
<1>3. cookie' = [session |-> Len(sessions) + 1, n |-> 1]
  BY <1>2 DEF LoggedIn
<1>4. cookie' \in Token
  BY <1>2, <1>3 DEF Token
<1> QED
  BY <1>2, <1>3, <1>4, TokenNotNone

LEMMA StaleMoves ==
  ASSUME [Next]_vars
  PROVE  stale' = stale \/ AccessExpires
<1>1. ASSUME NEW t \in Tab, NEW c \in Call, CallStep(t, c) PROVE UNCHANGED stale
  BY <1>1 DEF CallStep, Succeeds, LoggedIn, Refused, RefusedAgain, LoggedOut,
     RestoreContinues, CallFails
<1>2. ASSUME NEW t \in Tab, NEW c \in Call,
             Open(t, c) \/ Request(t, c) \/ SignIn(t, c) \/ SignOut(t, c)
      PROVE  UNCHANGED stale
  BY <1>2 DEF Open, Request, SignIn, SignOut
<1>3. ASSUME NEW t \in Tab,
             \/ AcquireLock(t) \/ RefreshStep(t) \/ RefreshUnavailable(t)
             \/ RefreshUnreachable(t) \/ Close(t)
      PROVE  UNCHANGED stale
  BY <1>3 DEF AcquireLock, RefreshStep, RefreshHandled, RefreshAnswered, RefreshRefused,
     RefreshUnavailable, RefreshUnreachable, Close
<1>4. CASE UNCHANGED vars
  BY <1>4 DEF vars
<1>5. CASE Next
  BY <1>1, <1>2, <1>3, <1>5 DEF Next
<1> QED
  BY <1>4, <1>5

LEMMA NextNoneAhead == TypeOK /\ TokensKnown /\ NoneAhead /\ [Next]_vars => NoneAhead'
<1> SUFFICES ASSUME TypeOK, TokensKnown, NoneAhead, [Next]_vars PROVE NoneAhead'
  OBVIOUS
<1>1. /\ NotAhead(sessions', cookie) /\ NotAhead(sessions', None)
      /\ \A x \in stale : NotAhead(sessions', x)
      /\ \A t \in Tab : NotAhead(sessions', refresh[t].result)
  BY StaysBehind DEF NoneAhead, NotAhead
<1>2. NotAhead(sessions', cookie')
  <2>1. ASSUME NEW t \in Tab, NEW c \in Call, LoggedIn(t, c) PROVE NotAhead(sessions', cookie')
    <3>1. sessions'[cookie'.session].current = 1
      BY <2>1, SessionAppended DEF NewSession
    <3> QED
      BY <2>1, <3>1, SessionAppended DEF NotAhead
  <2> QED
    BY <1>1, <2>1, CookieMoves
<1>3. stale' \subseteq stale \cup {cookie}
  BY StaleMoves DEF AccessExpires
<1>4. ASSUME NEW t \in Tab PROVE NotAhead(sessions', refresh'[t].result)
  <2>1. CASE /\ RefreshHandled(t) /\ refresh'[t].result = Rotated(refresh[t].with)
             /\ Rotated(refresh[t].with) # None
    <3> DEFINE y == Rotated(refresh[t].with)
    <3>1. Rotate(refresh[t].with)
      BY <2>1 DEF RefreshHandled
    <3>2. y \in Token /\ y.session \in DOMAIN sessions' /\ sessions'[y.session].current = y.n
          /\ y.n \in Nat
      BY <2>1, <3>1, RotatedIsNew DEF Token
    <3> HIDE DEF y
    <3>3. NotAhead(sessions', y)
      BY <3>2 DEF NotAhead
    <3> QED
      BY <2>1, <3>3 DEF y
  <2> QED
    BY <1>1, <2>1, RefreshMoves
<1>5. \A t \in Tab : NotAhead(sessions', refresh'[t].result)
  BY <1>4
<1> QED
  BY <1>1, <1>2, <1>3, <1>5 DEF NoneAhead

\* What a step does to a request, and who is signed in by it.
LEMMA CallMoves ==
  ASSUME TypeOK, [Next]_vars, NEW u \in Tab, NEW d \in Call
  PROVE  /\ call'[u][d].with \in {call[u][d].with, None, cookie'}
         /\ call'[u][d].at = "resent" =>
              \/ call'[u][d] = call[u][d]
              \/ RefreshAnswered(u) /\ call'[u][d].with = cookie'
<1> DEFINE Goal == /\ call'[u][d].with \in {call[u][d].with, None, cookie'}
                   /\ call'[u][d].at = "resent" =>
                        \/ call'[u][d] = call[u][d]
                        \/ RefreshAnswered(u) /\ call'[u][d].with = cookie'
<1>0. /\ call \in [Tab -> [Call -> CallRecord]]
      /\ \A t \in Tab, c \in Call : call[t][c] \in CallRecord
  BY CallType DEF TypeOK, CallRecord
<1>a. ASSUME NEW t \in Tab, NEW c \in Call, NEW r, call' = [call EXCEPT ![t][c] = r],
             r.with \in {call[t][c].with, None, cookie'}, r.at # "resent"
      PROVE  Goal
  <2>1. call'[u][d] = IF u = t /\ d = c THEN r ELSE call[u][d]
    BY <1>0, <1>a
  <2> QED
    BY <1>a, <2>1
<1>1. ASSUME NEW t \in Tab, NEW c \in Call,
             \/ Succeeds(t, c) \/ RefusedAgain(t, c) \/ CallFails(t, c) \/ LoggedOut(t, c)
      PROVE  Goal
  <2>1. call' = [call EXCEPT ![t][c] = Idle]
    BY <1>1 DEF Succeeds, RefusedAgain, CallFails, LoggedOut, Settle
  <2> QED
    BY <1>a, <2>1 DEF Idle
<1>2. ASSUME NEW t \in Tab, NEW c \in Call, LoggedIn(t, c) PROVE Goal
  BY <1>a, <1>2 DEF LoggedIn
<1>3. ASSUME NEW t \in Tab, NEW c \in Call,
             Request(t, c) \/ SignIn(t, c) \/ SignOut(t, c)
      PROVE  Goal
  <2>1. cookie' = cookie /\ \E for : Send(t, c, for)
    BY <1>3 DEF Request, SignIn, SignOut
  <2>2. PICK for : call' = [call EXCEPT ![t][c] =
                              [at |-> "sent", for |-> for, with |-> cookie]]
    BY <2>1 DEF Send
  <2> QED
    BY <1>a, <2>1, <2>2
<1>4. ASSUME NEW t \in Tab, NEW c \in Call, Refused(t, c) PROVE Goal
  <2>1. call' = [call EXCEPT ![t][c].at = "waiting"]
    BY <1>4 DEF Refused, Join
  <2>2. call' = [call EXCEPT ![t][c] = [call[t][c] EXCEPT !.at = "waiting"]]
    BY <1>0, <2>1
  <2>3. /\ [call[t][c] EXCEPT !.at = "waiting"].at = "waiting"
        /\ [call[t][c] EXCEPT !.at = "waiting"].with = call[t][c].with
    BY <1>0 DEF CallRecord
  <2> QED
    BY <1>a, <2>2, <2>3
<1>5. ASSUME NEW t \in Tab, NEW c \in Call, Open(t, c) PROVE Goal
  <2>1. /\ [Idle EXCEPT !.at = "waiting", !.for = "restore"].at = "waiting"
        /\ [Idle EXCEPT !.at = "waiting", !.for = "restore"].with = None
    BY DEF Idle
  <2> QED
    BY <1>a, <1>5, <2>1 DEF Open
<1>6. ASSUME NEW t \in Tab, NEW c \in Call, RestoreContinues(t, c) PROVE Goal
  <2>1. /\ [call[t][c] EXCEPT !.at = "sent", !.for = "me"].at = "sent"
        /\ [call[t][c] EXCEPT !.at = "sent", !.for = "me"].with = call[t][c].with
    BY <1>0 DEF CallRecord
  <2> QED
    BY <1>a, <1>6, <2>1 DEF RestoreContinues
<1>7. ASSUME NEW t \in Tab, RefreshAnswered(t) PROVE Goal
  <2>1. call'[u][d] = IF u = t /\ Waiting(t, d)
                      THEN [call[u][d] EXCEPT !.at = "resent", !.with = cookie']
                      ELSE call[u][d]
    BY <1>0, <1>7 DEF RefreshAnswered, Resent
  <2>2. [call[u][d] EXCEPT !.at = "resent", !.with = cookie'].with = cookie'
    BY <1>0 DEF CallRecord
  <2> QED
    BY <1>7, <2>1, <2>2
<1>8. ASSUME NEW t \in Tab,
             \/ RefreshRefused(t) \/ RefreshUnavailable(t) \/ RefreshUnreachable(t)
             \/ Close(t)
      PROVE  Goal
  <2>1. call'[u][d] \in {call[u][d], Idle}
    <3>1. \/ call' = Failed(t)
          \/ call' = [call EXCEPT ![t] = [c \in Call |-> Idle]]
      BY <1>8 DEF RefreshRefused, RefreshUnavailable, RefreshUnreachable, Close
    <3> QED
      BY <1>0, <3>1 DEF Failed
  <2> QED
    BY <2>1 DEF Idle
<1>9. CASE UNCHANGED call
  BY <1>9
<1>10. ASSUME NEW t \in Tab, AcquireLock(t) \/ RefreshHandled(t) PROVE Goal
  BY <1>9, <1>10 DEF AcquireLock, RefreshHandled
<1>11. CASE AccessExpires \/ UNCHANGED vars
  BY <1>9, <1>11 DEF AccessExpires, vars
<1>12. CASE Next
  BY <1>1, <1>2, <1>3, <1>4, <1>5, <1>6, <1>7, <1>8, <1>10, <1>11, <1>12
     DEF Next, RefreshStep, CallStep
<1> QED
  BY <1>11, <1>12

\* Who is signed in, or out, by a step.
LEMMA AuthMoves ==
  ASSUME TypeOK, [Next]_vars, NEW u \in Tab
  PROVE  /\ auth'[u] = "in" => \/ auth[u] = "in"
                               \/ \E c \in Call : Succeeds(u, c) /\ call[u][c].for = "me"
         /\ auth[u] = "in" /\ auth'[u] = "out" =>
              \/ RefreshRefused(u) \/ RefreshUnavailable(u)
              \/ \E c \in Call : RefusedAgain(u, c) \/ LoggedOut(u, c)
<1> DEFINE Goal ==
      /\ auth'[u] = "in" => \/ auth[u] = "in"
                            \/ \E c \in Call : Succeeds(u, c) /\ call[u][c].for = "me"
      /\ auth[u] = "in" /\ auth'[u] = "out" =>
           \/ RefreshRefused(u) \/ RefreshUnavailable(u)
           \/ \E c \in Call : RefusedAgain(u, c) \/ LoggedOut(u, c)
<1>0. auth \in [Tab -> {"closed", "starting", "in", "out"}]
  BY DEF TypeOK
<1>1. CASE UNCHANGED auth
  BY <1>1
<1>2. ASSUME NEW t \in Tab, RefreshRefused(t) \/ RefreshUnavailable(t) PROVE Goal
  <2>1. Expired(t)
    BY <1>2 DEF RefreshRefused, RefreshUnavailable
  <2>2. auth'[u] = "in" => auth[u] = "in"
    BY <1>0, <2>1 DEF Expired
  <2>3. u # t => auth'[u] = auth[u]
    BY <1>0, <2>1 DEF Expired
  <2> QED
    BY <1>2, <2>2, <2>3
<1>3. ASSUME NEW t \in Tab, RefreshUnreachable(t) \/ Close(t) PROVE Goal
  <2>1. CASE NotRestored(t)
    BY <1>0, <2>1 DEF NotRestored
  <2>2. CASE auth' = [auth EXCEPT ![t] = "closed"]
    BY <1>0, <2>2
  <2> QED
    BY <1>3, <2>1, <2>2 DEF RefreshUnreachable, Close
<1>4. ASSUME NEW t \in Tab, NEW c \in Call, Succeeds(t, c) PROVE Goal
  <2>1. auth' = [auth EXCEPT ![t] = IF call[t][c].for = "me" THEN "in" ELSE @]
    BY <1>4 DEF Succeeds
  <2>2. auth'[u] = auth[u] \/ (u = t /\ call[t][c].for = "me" /\ auth'[u] = "in")
    BY <1>0, <2>1
  <2> QED
    BY <1>4, <2>2
<1>5. ASSUME NEW t \in Tab, NEW c \in Call, RefusedAgain(t, c) \/ LoggedOut(t, c) PROVE Goal
  <2>1. \/ auth' = [auth EXCEPT ![t] = IF @ \in {"in", "starting"} THEN "out" ELSE @]
        \/ auth' = [auth EXCEPT ![t] = "out"]
    BY <1>5 DEF RefusedAgain, LoggedOut
  <2>2. auth'[u] = auth[u] \/ (u = t /\ auth'[u] = "out")
    BY <1>0, <2>1
  <2> QED
    BY <1>5, <2>2
<1>6. ASSUME NEW t \in Tab, NEW c \in Call, CallFails(t, c) \/ Open(t, c) PROVE Goal
  <2>1. CASE CallFails(t, c)
    BY <1>0, <2>1 DEF CallFails
  <2>2. CASE Open(t, c)
    BY <1>0, <2>2 DEF Open
  <2> QED
    BY <1>6, <2>1, <2>2
<1>7. ASSUME NEW t \in Tab, NEW c \in Call,
             \/ LoggedIn(t, c) \/ Refused(t, c) \/ RestoreContinues(t, c)
             \/ Request(t, c) \/ SignIn(t, c) \/ SignOut(t, c)
      PROVE  Goal
  <2>1. UNCHANGED auth
    BY <1>7 DEF LoggedIn, Refused, RestoreContinues, Request, SignIn, SignOut
  <2> QED
    BY <1>1, <2>1
<1>8. ASSUME NEW t \in Tab, AcquireLock(t) \/ RefreshHandled(t) \/ RefreshAnswered(t) PROVE Goal
  <2>1. UNCHANGED auth
    BY <1>8 DEF AcquireLock, RefreshHandled, RefreshAnswered
  <2> QED
    BY <1>1, <2>1
<1>9. CASE AccessExpires \/ UNCHANGED vars
  BY <1>1, <1>9 DEF AccessExpires, vars
<1>10. CASE Next
  BY <1>2, <1>3, <1>4, <1>5, <1>6, <1>7, <1>8, <1>9, <1>10
     DEF Next, RefreshStep, CallStep
<1> QED
  BY <1>9, <1>10

\* The reasons for which a session may have ended stay reasons.
LEMMA ReasonsStay == ASSUME [Next]_vars, Undisturbed' PROVE Undisturbed
<1>1. ASSUME NEW t \in Tab, NEW c \in Call, CallStep(t, c)
      PROVE  (lost => lost') /\ (excused => excused')
  <2>1. CASE LoggedOut(t, c)
    BY <2>1 DEF LoggedOut
  <2>2. ASSUME ~LoggedOut(t, c) PROVE UNCHANGED <<lost, excused>>
    BY <1>1, <2>2 DEF CallStep, Succeeds, LoggedIn, Refused, RefusedAgain,
       RestoreContinues, CallFails
  <2> QED
    BY <2>1, <2>2
<1>2. ASSUME NEW t \in Tab, NEW c \in Call,
             Open(t, c) \/ Request(t, c) \/ SignIn(t, c) \/ SignOut(t, c)
      PROVE  UNCHANGED <<lost, excused>>
  BY <1>2 DEF Open, Request, SignIn, SignOut
<1>3. ASSUME NEW t \in Tab, AcquireLock(t) \/ RefreshHandled(t)
      PROVE  UNCHANGED <<lost, excused>>
  BY <1>3 DEF AcquireLock, RefreshHandled
<1>4. ASSUME NEW t \in Tab, RefreshAnswered(t) \/ RefreshRefused(t)
      PROVE  (lost => lost') /\ (excused => excused')
  <2>1. lost' = lost /\ excused' = (excused \/ Overtaken(t))
    BY <1>4 DEF RefreshAnswered, RefreshRefused
  <2> QED
    BY <2>1, Zenon
<1>5. ASSUME NEW t \in Tab, RefreshUnavailable(t) \/ RefreshUnreachable(t) \/ Close(t)
      PROVE  (lost => lost') /\ (excused => excused')
  <2>1. lost' = (lost \/ refresh[t].at = "sent" \/ refresh[t].result # None) \/ lost' = lost
    BY <1>5 DEF RefreshUnavailable, RefreshUnreachable, Close, RefreshForgotten
  <2>2. excused' = TRUE \/ excused' = excused
    BY <1>5 DEF RefreshUnavailable, RefreshUnreachable, Close
  <2>3. lost => lost'
    BY <2>1, Zenon
  <2>4. excused => excused'
    BY <2>2, Zenon
  <2> QED
    BY <2>3, <2>4
<1>6. ASSUME AccessExpires \/ UNCHANGED vars
      PROVE  (lost => lost') /\ (excused => excused')
  <2>1. UNCHANGED <<lost, excused>>
    BY <1>6 DEF AccessExpires, vars
  <2> QED
    BY <2>1
<1>7. (lost => lost') /\ (excused => excused')
  <2>1. CASE Next
    BY <1>1, <1>2, <1>3, <1>4, <1>5, <1>6, <2>1 DEF Next, RefreshStep
  <2> QED
    BY <1>6, <2>1
<1> QED
  BY <1>7 DEF Undisturbed

LEMMA NextWrongAlone ==
  ASSUME TypeOK, ClosedTabsIdle, WrongAlone, [Next]_vars PROVE WrongAlone'
<1> DEFINE Quiet(u) == \A d \in Call : call'[u][d].for # "wrong"
           Kept(u) == /\ auth[u] = "out" => auth'[u] = "out"
                      /\ \A d \in Call : call'[u][d].for \in {call[u][d].for, "page"}
<1>0. /\ call \in [Tab -> [Call -> CallRecord]]
      /\ \A t \in Tab, c \in Call : call[t][c] \in CallRecord
      /\ auth \in [Tab -> {"closed", "starting", "in", "out"}]
  BY CallType DEF TypeOK, CallRecord
<1>a. ASSUME \A u \in Tab : Quiet(u) \/ Kept(u) PROVE WrongAlone'
  BY <1>a DEF WrongAlone
<1>b. ASSUME NEW t \in Tab, UNCHANGED <<auth[t], call[t]>> PROVE Kept(t)
  BY <1>b
<1>c. ASSUME NEW t \in Tab, NEW c \in Call, NEW r,
             call' = [call EXCEPT ![t][c] = r],
             \A u \in Tab \ {t} : auth'[u] = auth[u],
             \/ r.for = "page" /\ (auth[t] = "out" => auth'[t] = "out")
             \/ r.for = call[t][c].for /\ (auth[t] = "out" => auth'[t] = "out")
             \/ r.for # "wrong" /\ \A d \in Call \ {c} : call[t][d].for # "wrong"
      PROVE  WrongAlone'
  <2>1. \A u \in Tab \ {t} : Kept(u)
    BY <1>0, <1>b, <1>c
  <2>2. \A d \in Call : call'[t][d] = IF d = c THEN r ELSE call[t][d]
    BY <1>0, <1>c
  <2>3. Quiet(t) \/ Kept(t)
    BY <1>c, <2>2
  <2> QED
    BY <1>a, <2>1, <2>3
<1>1. ASSUME NEW t \in Tab, NEW c \in Call,
             \/ RefusedAgain(t, c) \/ CallFails(t, c) \/ LoggedOut(t, c)
      PROVE  WrongAlone'
  <2>1. call' = [call EXCEPT ![t][c] = Idle]
    BY <1>1 DEF RefusedAgain, CallFails, LoggedOut, Settle
  <2>2. PICK x : /\ auth' = [auth EXCEPT ![t] = x]
                 /\ auth[t] = "out" => x = "out"
    BY <1>1 DEF RefusedAgain, CallFails, LoggedOut
  <2>3. /\ \A u \in Tab \ {t} : auth'[u] = auth[u]
        /\ auth[t] = "out" => auth'[t] = "out"
    BY <1>0, <2>2
  <2> QED
    BY <1>c, <2>1, <2>3 DEF Idle
<1>2. ASSUME NEW t \in Tab, NEW c \in Call, Succeeds(t, c) PROVE WrongAlone'
  <2>1. call' = [call EXCEPT ![t][c] = Idle] /\ Idle.for = "page"
    BY <1>2 DEF Succeeds, Settle, Idle
  <2>2. auth' = [auth EXCEPT ![t] = IF call[t][c].for = "me" THEN "in" ELSE @]
    BY <1>2 DEF Succeeds
  <2>3. \A u \in Tab \ {t} : auth'[u] = auth[u]
    BY <1>0, <2>2
  <2>4. CASE call[t][c].for = "me"
    <3>1. \A d \in Call \ {c} : call[t][d].for # "wrong"
      BY <2>4 DEF WrongAlone
    <3> QED
      BY <1>c, <2>1, <2>3, <3>1
  <2>5. CASE call[t][c].for # "me"
    <3>1. auth'[t] = auth[t]
      BY <1>0, <2>2, <2>5
    <3> QED
      BY <1>c, <2>1, <2>3, <3>1
  <2> QED
    BY <2>4, <2>5
<1>3. ASSUME NEW t \in Tab, NEW c \in Call, LoggedIn(t, c) PROVE WrongAlone'
  <2>1. \A d \in Call \ {c} : call[t][d].for # "wrong"
    BY <1>3 DEF LoggedIn, WrongAlone
  <2> QED
    BY <1>c, <1>3, <2>1 DEF LoggedIn
<1>4. ASSUME NEW t \in Tab, NEW c \in Call, RestoreContinues(t, c) PROVE WrongAlone'
  <2>1. \A d \in Call \ {c} : call[t][d].for # "wrong"
    BY <1>4 DEF RestoreContinues, WrongAlone
  <2>2. [call[t][c] EXCEPT !.at = "sent", !.for = "me"].for = "me"
    BY <1>0 DEF CallRecord
  <2>3. /\ call' = [call EXCEPT ![t][c] = [call[t][c] EXCEPT !.at = "sent", !.for = "me"]]
        /\ auth' = auth
    BY <1>4 DEF RestoreContinues
  <2> QED
    BY <1>c, <2>1, <2>2, <2>3
<1>5. ASSUME NEW t \in Tab, NEW c \in Call, Open(t, c) PROVE WrongAlone'
  <2>1. \A d \in Call : call[t][d].for = "page"
    BY <1>5 DEF Open, ClosedTabsIdle, Idle
  <2>2. [Idle EXCEPT !.at = "waiting", !.for = "restore"].for = "restore"
    BY DEF Idle
  <2>3. \A u \in Tab \ {t} : auth'[u] = auth[u]
    BY <1>0, <1>5 DEF Open
  <2>4. call' = [call EXCEPT ![t][c] = [Idle EXCEPT !.at = "waiting", !.for = "restore"]]
    BY <1>5 DEF Open
  <2> QED
    BY <1>c, <2>1, <2>2, <2>3, <2>4
<1>6. ASSUME NEW t \in Tab, NEW c \in Call, Request(t, c) PROVE WrongAlone'
  BY <1>c, <1>6 DEF Request, Send
<1>7. ASSUME NEW t \in Tab, NEW c \in Call, SignOut(t, c) PROVE WrongAlone'
  <2>1. auth[t] = "in" /\ auth' = auth
        /\ call' = [call EXCEPT ![t][c] = [at |-> "sent", for |-> "logout", with |-> cookie]]
    BY <1>7 DEF SignOut, Send
  <2>2. \A d \in Call \ {c} : call[t][d].for # "wrong"
    BY <2>1 DEF WrongAlone
  <2> QED
    BY <1>c, <2>1, <2>2
<1>8. ASSUME NEW t \in Tab, NEW c \in Call, SignIn(t, c) PROVE WrongAlone'
  <2>1. /\ auth[t] = "out" /\ auth' = auth
        /\ \A d \in Call : call[t][d].for = "page"
    BY <1>8 DEF SignIn
  <2>2. PICK r : call' = [call EXCEPT ![t][c] = r]
    BY <1>8 DEF SignIn, Send
  <2>3. \A u \in Tab, d \in Call : call'[u][d] = IF u = t /\ d = c THEN r ELSE call[u][d]
    BY <1>0, <2>2
  <2> QED
    BY <2>1, <2>3 DEF WrongAlone
<1>9. ASSUME NEW t \in Tab, NEW c \in Call, Refused(t, c) PROVE WrongAlone'
  <2>1. call' = [call EXCEPT ![t][c].at = "waiting"] /\ auth' = auth
    BY <1>9 DEF Refused, Join
  <2>2. call' = [call EXCEPT ![t][c] = [call[t][c] EXCEPT !.at = "waiting"]]
    BY <1>0, <2>1
  <2>3. [call[t][c] EXCEPT !.at = "waiting"].for = call[t][c].for
    BY <1>0 DEF CallRecord
  <2> QED
    BY <1>c, <2>1, <2>2, <2>3
<1>10. ASSUME NEW t \in Tab, RefreshAnswered(t) PROVE WrongAlone'
  <2>1. \A u \in Tab, d \in Call : call'[u][d] =
          IF u = t /\ Waiting(t, d)
          THEN [call[u][d] EXCEPT !.at = "resent", !.with = cookie'] ELSE call[u][d]
    BY <1>0, <1>10 DEF RefreshAnswered, Resent
  <2>2. \A u \in Tab, d \in Call :
          [call[u][d] EXCEPT !.at = "resent", !.with = cookie'].for = call[u][d].for
    BY <1>0 DEF CallRecord
  <2>3. auth' = auth
    BY <1>10 DEF RefreshAnswered
  <2>4. ASSUME NEW u \in Tab, NEW d \in Call PROVE call'[u][d].for = call[u][d].for
    <3>1. CASE u = t /\ Waiting(t, d)
      BY <2>1, <2>2, <3>1
    <3>2. CASE ~(u = t /\ Waiting(t, d))
      BY <2>1, <3>2
    <3> QED
      BY <3>1, <3>2
  <2>5. \A u \in Tab : Kept(u)
    BY <2>3, <2>4
  <2> QED
    BY <1>a, <2>5
<1>11. ASSUME NEW t \in Tab,
              RefreshRefused(t) \/ RefreshUnavailable(t) \/ RefreshUnreachable(t)
       PROVE  WrongAlone'
  <2>1. call' = Failed(t) /\ (Expired(t) \/ NotRestored(t))
    BY <1>11 DEF RefreshRefused, RefreshUnavailable, RefreshUnreachable
  <2>2. \A u \in Tab, d \in Call : call'[u][d] \in {call[u][d], Idle}
    BY <1>0, <2>1 DEF Failed
  <2>3. \A u \in Tab : auth[u] = "out" => auth'[u] = "out"
    BY <1>0, <2>1 DEF Expired, NotRestored
  <2> QED
    BY <1>a, <2>2, <2>3 DEF Idle
<1>12. ASSUME NEW t \in Tab, Close(t) PROVE WrongAlone'
  <2>1. /\ \A d \in Call : call'[t][d] = Idle
        /\ \A u \in Tab \ {t} : UNCHANGED <<auth[u], call[u]>>
    BY <1>0, <1>12 DEF Close
  <2> QED
    BY <1>a, <2>1 DEF Idle
<1>13. ASSUME UNCHANGED <<auth, call>> PROVE WrongAlone'
  BY <1>13 DEF WrongAlone
<1>14. ASSUME NEW t \in Tab, AcquireLock(t) \/ RefreshHandled(t) PROVE WrongAlone'
  BY <1>13, <1>14 DEF AcquireLock, RefreshHandled
<1>15. CASE AccessExpires \/ UNCHANGED vars
  BY <1>13, <1>15 DEF AccessExpires, vars
<1>16. CASE Next
  BY <1>1, <1>2, <1>3, <1>4, <1>5, <1>6, <1>7, <1>8, <1>9, <1>10, <1>11, <1>12, <1>14,
     <1>15, <1>16 DEF Next, RefreshStep, CallStep
<1> QED
  BY <1>15, <1>16

\* All that the induction needs.
SignedInv == FreshInv /\ NoneAhead /\ WrongAlone /\ (Undisturbed => Steady)

\* What an undisturbed step has before it.
LEMMA Undistracted ==
  ASSUME SignedInv, [Next]_vars, Undisturbed'
  PROVE  /\ Undisturbed /\ Steady /\ TypeOK /\ TokensKnown /\ OneUnderWay /\ SentCurrent
         /\ \A t \in Tab : ~RefreshUnavailable(t) /\ ~RefreshUnreachable(t)
         /\ \A t \in Tab : Close(t) => refresh[t].at # "sent"
         /\ \A t \in Tab, c \in Call : ~LoggedOut(t, c)
         /\ \A t \in Tab : RefreshRefused(t) => cookie = None /\ cookie' = None
<1>1. Undisturbed /\ Steady
  BY ReasonsStay DEF SignedInv
<1>2. TypeOK /\ TokensKnown /\ OneUnderWay /\ SentCurrent
  BY <1>1 DEF SignedInv, FreshInv, Served, Fresh, Undisturbed
<1>3. ASSUME NEW t \in Tab PROVE ~RefreshUnavailable(t) /\ ~RefreshUnreachable(t)
  BY DEF Undisturbed, RefreshUnavailable, RefreshUnreachable
<1>4. ASSUME NEW t \in Tab, Close(t) PROVE refresh[t].at # "sent"
  BY <1>4 DEF Undisturbed, Close, UnderWay, RefreshForgotten
<1>5. ASSUME NEW t \in Tab, NEW c \in Call PROVE ~LoggedOut(t, c)
  BY DEF Undisturbed, LoggedOut
<1>6. ASSUME NEW t \in Tab, RefreshRefused(t) PROVE cookie = None /\ cookie' = None
  <2>1. /\ refresh[t].at = "answered" /\ refresh[t].result = None /\ cookie' = None
        /\ excused' = (excused \/ Overtaken(t))
    BY <1>6 DEF RefreshRefused
  <2>2. ~Overtaken(t)
    BY <2>1, Zenon DEF Undisturbed
  <2>3. refresh[t].with = None
    BY <1>1, <2>1 DEF Steady, Granted
  <2> QED
    BY <2>1, <2>2, <2>3 DEF Overtaken
<1> QED
  BY <1>1, <1>2, <1>3, <1>4, <1>5, <1>6

LEMMA NextNoneRevoked == SignedInv /\ [Next]_vars /\ Undisturbed' => NoneRevoked'
<1> SUFFICES ASSUME SignedInv, [Next]_vars, Undisturbed' PROVE NoneRevoked'
  OBVIOUS
<1>0. /\ Steady /\ TypeOK /\ TokensKnown /\ SentCurrent
      /\ \A t \in Tab : ~RefreshUnavailable(t) /\ ~RefreshUnreachable(t)
      /\ \A t \in Tab : Close(t) => refresh[t].at # "sent"
      /\ \A t \in Tab, c \in Call : ~LoggedOut(t, c)
  BY Undistracted
<1>1. ASSUME UNCHANGED sessions PROVE NoneRevoked'
  BY <1>0, <1>1 DEF Steady, NoneRevoked
<1>2. ASSUME NEW t \in Tab, RefreshHandled(t) PROVE NoneRevoked'
  <2> DEFINE x == refresh[t].with
  <2>1. refresh[t].at = "sent" /\ Rotate(x)
    BY <1>2 DEF RefreshHandled
  <2>2. CASE ~Live(x)
    BY <1>1, <2>1, <2>2 DEF Rotate
  <2>3. CASE Live(x)
    <3>1. x \in Token /\ x.session \in DOMAIN sessions /\ Current(x)
      BY <1>0, <2>1, <2>3 DEF Live, TokensKnown, Known, SentCurrent
    <3>2. sessions[x.session] \in [current : Nat, revoked : BOOLEAN]
      BY <1>0, <3>1, SessionType
    <3> DEFINE r == [sessions[x.session] EXCEPT !.current = @ + 1]
    <3>3. r \in [current : Nat, revoked : BOOLEAN]
      BY <3>2
    <3>4. r.revoked = sessions[x.session].revoked
      BY <3>2
    <3>5. sessions' = [sessions EXCEPT ![x.session] = r]
      BY <2>1, <2>3, <3>1 DEF Rotate
    <3> HIDE DEF r
    <3>6. /\ DOMAIN sessions' = DOMAIN sessions
          /\ \A j \in DOMAIN sessions :
               sessions'[j] = IF j = x.session THEN r ELSE sessions[j]
      BY <1>0, <3>1, <3>3, <3>5, SessionChanged
    <3>7. ASSUME NEW j \in DOMAIN sessions' PROVE ~sessions'[j].revoked
      <4>1. j \in DOMAIN sessions /\ ~sessions[j].revoked
        BY <1>0, <3>6 DEF Steady, NoneRevoked
      <4>2. sessions'[j].revoked = sessions[j].revoked
        BY <3>4, <3>6, <4>1
      <4> QED
        BY <4>1, <4>2, Zenon
    <3> QED
      BY <3>7 DEF NoneRevoked
  <2> QED
    BY <2>2, <2>3
<1>3. ASSUME NEW t \in Tab, NEW c \in Call, LoggedIn(t, c) PROVE NoneRevoked'
  <2>1. /\ DOMAIN sessions' = DOMAIN sessions \cup {cookie'.session}
        /\ sessions'[cookie'.session] = NewSession
        /\ \A i \in DOMAIN sessions : sessions'[i] = sessions[i]
    BY <1>0, <1>3, SessionAppended
  <2> QED
    BY <1>0, <2>1 DEF Steady, NoneRevoked, NewSession
<1>4. ASSUME NEW t \in Tab, Close(t) PROVE NoneRevoked'
  BY <1>0, <1>1, <1>4 DEF Close
<1>5. ASSUME NEW t \in Tab, AcquireLock(t) \/ RefreshAnswered(t) \/ RefreshRefused(t)
      PROVE  NoneRevoked'
  BY <1>1, <1>5 DEF AcquireLock, RefreshAnswered, RefreshRefused
<1>6. ASSUME NEW t \in Tab, NEW c \in Call,
             \/ Succeeds(t, c) \/ Refused(t, c) \/ RefusedAgain(t, c)
             \/ RestoreContinues(t, c) \/ CallFails(t, c)
             \/ Open(t, c) \/ Request(t, c) \/ SignIn(t, c) \/ SignOut(t, c)
      PROVE  NoneRevoked'
  BY <1>1, <1>6 DEF Succeeds, Refused, RefusedAgain, RestoreContinues, CallFails, Open,
     Request, SignIn, SignOut
<1>7. CASE AccessExpires \/ UNCHANGED vars
  BY <1>1, <1>7 DEF AccessExpires, vars
<1>8. CASE Next
  BY <1>0, <1>2, <1>3, <1>4, <1>5, <1>6, <1>7, <1>8 DEF Next, RefreshStep, CallStep
<1> QED
  BY <1>7, <1>8

LEMMA NextCookieFirst == SignedInv /\ [Next]_vars /\ Undisturbed' => CookieFirst'
<1> SUFFICES ASSUME SignedInv, [Next]_vars, Undisturbed', cookie' = None PROVE CookieFirst'
  BY DEF CookieFirst
<1>0. /\ Steady /\ TypeOK
      /\ \A t \in Tab, c \in Call : ~LoggedOut(t, c)
      /\ \A t \in Tab : RefreshRefused(t) => cookie = None
  BY Undistracted
<1>1. cookie = None
  <2>1. ASSUME NEW t \in Tab, RefreshAnswered(t) PROVE cookie' # None
    BY <2>1 DEF RefreshAnswered
  <2>2. ASSUME NEW t \in Tab, NEW c \in Call, LoggedIn(t, c) PROVE cookie' # None
    BY <1>0, <2>2, SessionAppended
  <2> QED
    BY <1>0, <2>1, <2>2, CookieMoves
<1>2. \A t \in Tab : auth[t] # "in" /\ \A c \in Call : call[t][c].with = None
  BY <1>0, <1>1 DEF Steady, CookieFirst
<1>3. ASSUME NEW t \in Tab, NEW c \in Call PROVE call'[t][c].with = None
  BY <1>0, <1>2, CallMoves
<1>4. ASSUME NEW t \in Tab PROVE auth'[t] # "in"
  <2>1. ASSUME NEW c \in Call, Succeeds(t, c) PROVE FALSE
    BY <1>2, <2>1 DEF Succeeds, Authorized
  <2> QED
    BY <1>0, <1>2, <2>1, AuthMoves
<1> QED
  BY <1>3, <1>4 DEF CookieFirst

LEMMA NextGranted == SignedInv /\ [Next]_vars /\ Undisturbed' => Granted'
<1> SUFFICES ASSUME SignedInv, [Next]_vars, Undisturbed',
                    NEW t \in Tab, refresh'[t].at = "answered"
             PROVE  IF refresh'[t].result = None THEN refresh'[t].with = None
                    ELSE refresh'[t].result \notin stale' \cup {cookie'}
  BY DEF Granted
<1>0. /\ Steady /\ TypeOK /\ TokensKnown /\ OneUnderWay /\ SentCurrent /\ NoneAhead
      /\ \A u \in Tab, c \in Call : ~LoggedOut(u, c)
      /\ \A u \in Tab : RefreshRefused(u) => cookie' = None
  BY Undistracted DEF SignedInv
<1>1. CASE refresh'[t] = refresh[t] /\ ~RefreshAnswered(t)
  <2> DEFINE y == refresh[t].result
  <2>1. IF y = None THEN refresh[t].with = None ELSE y \notin stale \cup {cookie}
    BY <1>0, <1>1 DEF Steady, Granted
  <2>2. ASSUME y # None PROVE y \notin stale' /\ y # cookie'
    <3>1. y \notin stale'
      BY <2>1, <2>2, StaleMoves DEF AccessExpires
    <3>2. ASSUME NEW u \in Tab, RefreshAnswered(u) PROVE FALSE
      <4>1. refresh[u].at = "answered" /\ UnderWay(u) /\ UnderWay(t)
        BY <1>1, <3>2 DEF RefreshAnswered, UnderWay
      <4> QED
        BY <1>0, <1>1, <3>2, <4>1 DEF OneUnderWay
    <3>3. ASSUME NEW u \in Tab, NEW c \in Call, LoggedIn(u, c) PROVE y # cookie'
      <4>1. y.session \in DOMAIN sessions
        BY <1>0, <2>2 DEF NoneAhead, NotAhead
      <4> QED
        BY <1>0, <3>3, <4>1, SessionAppended
    <3>4. y # cookie'
      BY <1>0, <2>1, <2>2, <3>2, <3>3, CookieMoves
    <3> QED
      BY <3>1, <3>4
  <2> QED
    BY <1>1, <2>1, <2>2
<1>2. CASE /\ RefreshHandled(t) /\ refresh'[t].result = Rotated(refresh[t].with)
           /\ refresh'[t].with = refresh[t].with
  <2> DEFINE x == refresh[t].with
             y == Rotated(x)
  <2>1. refresh[t].at = "sent" /\ Rotate(x) /\ UNCHANGED <<cookie, stale>>
    BY <1>2 DEF RefreshHandled
  <2>2. ASSUME x # None PROVE y # None
    <3>1. x \in Token /\ x.session \in DOMAIN sessions /\ Current(x)
      BY <1>0, <2>1, <2>2 DEF TokensKnown, Known, SentCurrent
    <3>2. Live(x)
      BY <1>0, <2>2, <3>1 DEF Live, Steady, NoneRevoked
    <3>3. y = [x EXCEPT !.n = @ + 1]
      BY <3>1, <3>2 DEF Rotated
    <3>4. y \in Token
      BY <3>1, <3>3 DEF Token
    <3> QED
      BY <3>4, TokenNotNone
  <2>3. ASSUME y # None, NEW z, NotAhead(sessions, z) PROVE y # z
    <3>1. /\ y \in Token /\ y.session = x.session /\ x.session \in DOMAIN sessions
          /\ y.n = sessions[x.session].current + 1
      BY <1>0, <2>1, <2>3, RotatedIsNew
    <3>2. sessions[x.session] \in [current : Nat, revoked : BOOLEAN]
      BY <1>0, <3>1, SessionType
    <3>3. sessions[x.session].current \in Nat
      BY <3>2
    <3> HIDE DEF y
    <3>4. ASSUME y = z PROVE FALSE
      <4>1. y.n <= sessions[y.session].current
        BY <2>3, <3>4 DEF NotAhead
      <4> QED
        BY <3>1, <3>3, <4>1
    <3> QED
      BY <3>4
  <2>4. ASSUME y # None PROVE y \notin stale \cup {cookie}
    BY <1>0, <2>3, <2>4 DEF NoneAhead
  <2> QED
    BY <1>2, <2>1, <2>2, <2>4
<1> QED
  BY <1>0, <1>1, <1>2, RefreshMoves

LEMMA NextResentAreGood == SignedInv /\ [Next]_vars /\ Undisturbed' => ResentAreGood'
<1> SUFFICES ASSUME SignedInv, [Next]_vars, Undisturbed',
                    NEW t \in Tab, NEW c \in Call, call'[t][c].at = "resent"
             PROVE  call'[t][c].with # None /\ call'[t][c].with \notin stale'
  BY DEF ResentAreGood
<1>0. Steady /\ TypeOK
  BY Undistracted
<1>1. CASE call'[t][c] = call[t][c]
  <2>1. call[t][c].with # None /\ call[t][c].with \notin stale
    BY <1>0, <1>1 DEF Steady, ResentAreGood
  <2>2. ASSUME AccessExpires PROVE stale' = stale \cup {cookie} /\ call[t][c].with # cookie
    BY <1>1, <2>2 DEF AccessExpires
  <2> QED
    BY <1>1, <2>1, <2>2, StaleMoves
<1>2. CASE RefreshAnswered(t) /\ call'[t][c].with = cookie'
  <2>1. cookie' # None /\ cookie' = refresh[t].result /\ refresh[t].at = "answered"
        /\ stale' = stale
    BY <1>2 DEF RefreshAnswered
  <2> QED
    BY <1>0, <1>2, <2>1 DEF Steady, Granted
<1> QED
  BY <1>0, <1>1, <1>2, CallMoves

LEMMA NextSigned == SignedInv /\ [Next]_vars => SignedInv'
<1>1. SignedInv /\ [Next]_vars => FreshInv'
  BY NextKeepsServed, NextFresh DEF SignedInv, FreshInv
<1>2. SignedInv /\ [Next]_vars => NoneAhead'
  BY NextNoneAhead DEF SignedInv, FreshInv, Served
<1>3. SignedInv /\ [Next]_vars => WrongAlone'
  BY NextWrongAlone DEF SignedInv, FreshInv, Served
<1>4. SignedInv /\ [Next]_vars /\ Undisturbed' => Steady'
  BY NextNoneRevoked, NextCookieFirst, NextGranted, NextResentAreGood DEF Steady
<1> QED
  BY <1>1, <1>2, <1>3, <1>4 DEF SignedInv

\* Where tabs take turns, a tab that is signed in is signed out only after a
\* logout, an outage, a lost answer, or an answer that overtook newer cookies:
\* a refresh with a cookie is granted, and what is sent again is accepted.
THEOREM NobodySignedOutEarly ==
  ASSUME HasLocks PROVE Spec => SignedOutMeansEnded
<1>1. Init => SignedInv
  <2>1. Init => FreshInv
    BY InitType, InitServed DEF FreshInv, Served, Init, Fresh, OneUnderWay, SentCurrent,
       AnswerCurrent, CookieRenewed, UnderWay, NoRefresh
  <2>2. Init => NoneAhead
    BY DEF Init, NoneAhead, NotAhead, NoRefresh
  <2>3. Init => WrongAlone
    BY DEF Init, WrongAlone, Idle
  <2>4. Init => Steady
    BY DEF Init, Steady, NoneRevoked, CookieFirst, Granted, ResentAreGood, NoRefresh, Idle
  <2> QED
    BY <2>1, <2>2, <2>3, <2>4 DEF SignedInv
<1>2. SignedInv /\ [Next]_vars =>
        [\A t \in Tab : auth[t] = "in" /\ auth'[t] = "out" => excused' \/ lost']_vars
  <2> SUFFICES ASSUME SignedInv, Next, NEW t \in Tab, auth[t] = "in", auth'[t] = "out",
                      ~excused', ~lost'
               PROVE  FALSE
    OBVIOUS
  <2>1. Undisturbed'
    BY DEF Undisturbed
  <2>2. /\ Steady /\ TypeOK /\ ~RefreshUnavailable(t)
        /\ \A c \in Call : ~LoggedOut(t, c)
        /\ RefreshRefused(t) => cookie = None
    BY <2>1, Undistracted
  <2>3. ASSUME NEW c \in Call, RefusedAgain(t, c) PROVE FALSE
    <3>1. call[t][c].for # "wrong"
      BY DEF SignedInv, WrongAlone
    <3>2. /\ call[t][c].with # None /\ call[t][c].with \notin stale
      BY <2>2, <2>3 DEF RefusedAgain, Steady, ResentAreGood
    <3>3. Live(call[t][c].with)
      <4>1. call[t][c].with.session \in DOMAIN sessions
        BY <3>2 DEF SignedInv, FreshInv, Served, TokensKnown, Known
      <4> QED
        BY <2>2, <3>2, <4>1 DEF Steady, NoneRevoked, Live
    <3> QED
      BY <2>3, <3>1, <3>2, <3>3 DEF RefusedAgain, Authorized
  <2>4. ~RefreshRefused(t)
    BY <2>2 DEF Steady, CookieFirst
  <2> QED
    BY <2>2, <2>3, <2>4, AuthMoves
<1> QED
  BY <1>1, <1>2, NextSigned, PTL DEF Spec, SignedOutMeansEnded
=============================================================================
