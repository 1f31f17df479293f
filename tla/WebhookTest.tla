------------------------------ MODULE WebhookTest ------------------------------
(***************************************************************************)
(* The test environment of a webhook: the dialog opens a session, shows    *)
(* its URL, and asks again and again whether a request came, for two       *)
(* minutes; the session lives a little longer, in the memory of the        *)
(* integration service, and takes the first result only.                   *)
(***************************************************************************)
EXTENDS Integers, Sequences, FiniteSets

CONSTANTS
  Tested, None,
  MaxSessions, \* bound on the sessions opened
  MaxCalls     \* bound on requests to the URLs, restarts and lost answers

VARIABLES
  sessions,   \* by number: webhook, result and whether it is alive
  subject,    \* the webhook of the dialog, None while it is closed
  generation, \* the run that may change the dialog
  watches,    \* the runs of the effect that are not over
  stage, sessionId, shown,  \* what the dialog shows
  calls       \* history: how much of the bound is used up

vars == <<sessions, subject, generation, watches, stage, sessionId, shown, calls>>
dialogVars == <<subject, generation, stage, sessionId, shown>>

NoResult == "waiting"
Call == calls < MaxCalls /\ calls' = calls + 1
Watch(run, hook) == [run |-> run, hook |-> hook, phase |-> "starting", session |-> 0]
Active(w) == generation = w.run

-----------------------------------------------------------------------------
(* The effect of the dialog.                                               *)

Starts(hook) ==
  /\ subject' = hook /\ generation' = generation + 1
  /\ watches' = watches \cup {Watch(generation', hook)}
  /\ stage' = "starting" /\ sessionId' = 0 /\ shown' = NoResult
Open(hook) ==
  /\ subject = None /\ Len(sessions) < MaxSessions
  /\ Cardinality(watches) < 2 /\ Starts(hook) /\ UNCHANGED <<sessions, calls>>
Retry ==
  /\ stage \in {"failed", "timeout", "setup-error"} /\ subject # None
  /\ Len(sessions) < MaxSessions
  /\ Starts(subject) /\ UNCHANGED <<sessions, calls>>
Close ==
  /\ subject # None /\ subject' = None /\ generation' = generation + 1
  /\ UNCHANGED <<sessions, watches, stage, sessionId, shown, calls>>

Goes(w, phase) == watches' = (watches \ {w}) \cup {[w EXCEPT !.phase = phase]}
Ends(w) == watches' = watches \ {w}

\* startWebhookTestSession, then the loop: a run that is over changes nothing.
SessionCreated(w) ==
  /\ w.phase = "starting" /\ Len(sessions) < MaxSessions
  /\ sessions' = Append(sessions, [hook |-> w.hook, result |-> NoResult, alive |-> TRUE])
  /\ watches' = (watches \ {w}) \cup
       {[w EXCEPT !.phase = "created", !.session = Len(sessions) + 1]}
  /\ UNCHANGED <<dialogVars, calls>>
SessionKnown(w) ==
  /\ w.phase = "created"
  /\ IF Active(w) THEN stage' = "waiting" /\ sessionId' = w.session /\ Goes(w, "asking")
                  ELSE Ends(w) /\ UNCHANGED <<stage, sessionId>>
  /\ UNCHANGED <<sessions, subject, generation, shown, calls>>
SetupFails(w) ==
  /\ w.phase \in {"starting", "created"} /\ Call /\ Ends(w)
  /\ stage' = IF Active(w) THEN "setup-error" ELSE stage
  /\ UNCHANGED <<sessions, subject, generation, sessionId, shown>>

\* What getWebhookTestSession finds; a session that is gone is no failure.
Polled(w) ==
  /\ w.phase = "asking" /\ Goes(w, IF sessions[w.session].alive
                                   THEN sessions[w.session].result ELSE NoResult)
  /\ UNCHANGED <<sessions, dialogVars, calls>>
\* Mutant: the answer is taken without a look at which run it belongs to.
PollAnsweredAnyway(w) ==
  /\ w.phase \in {"success", "failed"} /\ Ends(w)
  /\ stage' = w.phase /\ shown' = w.phase
  /\ UNCHANGED <<sessions, subject, generation, sessionId, calls>>
PollAnswered(w) ==
  /\ w.phase \in {"success", "failed"} /\ Ends(w)
  /\ IF Active(w) THEN stage' = w.phase /\ shown' = w.phase ELSE UNCHANGED <<stage, shown>>
  /\ UNCHANGED <<sessions, subject, generation, sessionId, calls>>
\* Nothing yet, or no answer: another turn, unless the time is up.
PollAgain(w) ==
  /\ w.phase \in {NoResult, "asking"}
  /\ IF Active(w) THEN Goes(w, "asking") ELSE Ends(w)
  /\ UNCHANGED <<sessions, dialogVars, calls>>
TimeUp(w) ==
  /\ w.phase \in {NoResult, "asking"} /\ Active(w) /\ Ends(w) /\ stage' = "timeout"
  /\ UNCHANGED <<sessions, subject, generation, sessionId, shown, calls>>

-----------------------------------------------------------------------------
(* The service.                                                            *)

\* Mutant: the last request counts.
PublishAgain(s, result) ==
  sessions' = [sessions EXCEPT ![s].result = IF sessions[s].alive THEN result ELSE @]
\* publish_result: only a session that waits takes a result.
Publish(s, result) ==
  sessions' = [sessions EXCEPT ![s].result =
                 IF sessions[s].alive /\ @ = NoResult THEN result ELSE @]
\* Somebody sends a request to the URL of a session.
TestRequest(s) ==
  /\ Call /\ \E result \in {"success", "failed"} : Publish(s, result)
  /\ UNCHANGED <<dialogVars, watches>>
\* The session expires, or the service restarts.
SessionsEnd ==
  /\ Call /\ \E S \in SUBSET DOMAIN sessions \ {{}} :
       sessions' = [s \in DOMAIN sessions |->
                      IF s \in S THEN [sessions[s] EXCEPT !.alive = FALSE] ELSE sessions[s]]
  /\ UNCHANGED <<dialogVars, watches>>

-----------------------------------------------------------------------------
Init ==
  /\ sessions = <<>> /\ subject = None /\ generation = 0 /\ watches = {}
  /\ stage = "starting" /\ sessionId = 0 /\ shown = NoResult /\ calls = 0

Next ==
  \/ \E hook \in Tested : Open(hook)
  \/ Retry \/ Close \/ SessionsEnd
  \/ \E w \in watches :
       \/ SessionCreated(w) \/ SessionKnown(w) \/ SetupFails(w) \/ Polled(w)
       \/ PollAnswered(w) \/ PollAgain(w) \/ TimeUp(w)
  \/ \E s \in DOMAIN sessions : TestRequest(s)

-----------------------------------------------------------------------------
\* Every run has its number and its session, and the latest is that of the
\* dialog, which shows nothing before it.
RunsHaveNumbers ==
  /\ \A w \in watches : w.run <= generation
  /\ \A v, w \in watches : v.run = w.run => v = w
RunsHaveSessions ==
  \A w \in watches : w.phase # "starting" =>
    /\ w.session \in DOMAIN sessions /\ sessions[w.session].hook = w.hook
    /\ w.phase \in {"success", "failed"} => sessions[w.session].result = w.phase
LatestIsOfDialog ==
  /\ \A w \in watches : Active(w) =>
       /\ subject = w.hook /\ shown = NoResult
       /\ w.phase \notin {"starting", "created"} => sessionId = w.session
  /\ sessionId # 0 => sessionId \in DOMAIN sessions

\* A test that is shown as passed or failed is the result of the session whose
\* URL is shown, of the webhook of the dialog, and stays what it is.
ResultIsOfSession ==
  subject # None /\ shown # NoResult =>
    sessionId # 0 /\ sessions[sessionId].hook = subject /\ sessions[sessionId].result = shown

=============================================================================
