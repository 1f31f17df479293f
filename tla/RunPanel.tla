-------------------------------- MODULE RunPanel --------------------------------
(***************************************************************************)
(* The execution panel of the builder: it discovers the runs of the        *)
(* workflow, follows the latest or the selected one, polls its steps and   *)
(* has the canvas paint them.  Effects are restarted when their inputs     *)
(* change, and ignore answers that come after that.                        *)
(***************************************************************************)
EXTENDS Integers, Sequences

CONSTANTS
  None,
  Canvas,           \* versions of the workflow
  MaxPanelRuns,     \* bound on runs
  MaxPanelTurns,    \* bound on what the user does
  MaxPanelTrouble   \* bound on calls that fail

VARIABLES
  runs,       \* the execution service: version and status of every run, the newest last
  open,       \* the version on the canvas
  panel,      \* watchLatest, selectedId, snapshot and error
  discovery,  \* the request of the discover effect, or its timer
  details,    \* requests of refresh, the current one last; the others are disposed of
  timer,      \* whether refresh is scheduled
  last,       \* lastStatus of the refresh effect
  painted,    \* executionSnapshot of the builder
  turns       \* history: how much of each bound is used up

vars == <<runs, open, panel, discovery, details, timer, last, painted, turns>>

Unfinished == {"pending", "running", "waiting_for_approval"}
Fresh == [watch |-> TRUE, selected |-> None, snapshot |-> None, error |-> "none"]
Discover(known) == [at |-> "sent", answer |-> <<>>, known |-> known]
Detail(r) == [run |-> r, active |-> TRUE, answer |-> None]
Polls(status) == status \in Unfinished
Turn(kind, limit) == turns[kind] < limit /\ turns' = [turns EXCEPT ![kind] = @ + 1]
Without(s, i) == SubSeq(s, 1, i - 1) \o SubSeq(s, i + 1, Len(s))
Loading == \E i \in DOMAIN details : details[i].active

-----------------------------------------------------------------------------
(* The effects.  A request that is disposed of may still be answered.      *)

Disposed == [i \in DOMAIN details |-> [details[i] EXCEPT !.active = FALSE]]
\* The refresh effect starts anew with the run that is selected now.
Select(r) ==
  /\ details' = IF r = None THEN Disposed ELSE Append(Disposed, Detail(r))
  /\ timer' = FALSE /\ last' = None
SelectFromList(r) ==
  IF r = panel.selected THEN UNCHANGED <<details, timer, last>> ELSE Select(r)

\* Prefers the version on the canvas, and there a run that is not finished.
Latest(known) ==
  LET Newest(S) == CHOOSE i \in S : \A j \in S : j <= i
      compatible == {i \in DOMAIN known : known[i].version = open}
      unfinished == {i \in compatible : known[i].status \in Unfinished}
  IN  IF known = <<>> THEN panel.selected
      ELSE IF unfinished # {} THEN Newest(unfinished)
      ELSE IF compatible # {} THEN Newest(compatible)
      ELSE Len(known)

DiscoverHandled ==
  /\ discovery.at = "sent" /\ discovery' = [discovery EXCEPT !.at = "answered", !.answer = runs]
  /\ UNCHANGED <<runs, open, panel, details, timer, last, painted, turns>>
DiscoverAnswered ==
  /\ discovery.at = "answered"
  /\ discovery' = [at |-> "timer", answer |-> <<>>, known |-> discovery.answer]
  /\ IF panel.watch
     THEN /\ SelectFromList(Latest(discovery.answer))
          /\ panel' = [panel EXCEPT !.selected = Latest(discovery.answer)]
     ELSE UNCHANGED <<panel, details, timer, last>>
  /\ UNCHANGED <<runs, open, painted, turns>>
DiscoverFails ==
  /\ discovery.at # "timer" /\ Turn("trouble", MaxPanelTrouble)
  /\ discovery' = [discovery EXCEPT !.at = "timer", !.answer = <<>>]
  /\ UNCHANGED <<runs, open, panel, details, timer, last, painted>>
DiscoverAgain ==
  /\ discovery.at = "timer" /\ discovery' = Discover(discovery.known)
  /\ UNCHANGED <<runs, open, panel, details, timer, last, painted, turns>>

DetailHandled(i) ==
  /\ details[i].answer = None
  /\ details' = [details EXCEPT ![i].answer = runs[details[i].run]]
  /\ UNCHANGED <<runs, open, panel, discovery, timer, last, painted, turns>>
Snapshot(d) == [run |-> d.run, version |-> d.answer.version, status |-> d.answer.status]
\* Mutant: an answer is painted also after the effect was disposed of.
DetailAnsweredAnyway(i) ==
  /\ details[i].answer # None /\ details' = Without(details, i)
  /\ panel' = [panel EXCEPT !.snapshot = Snapshot(details[i]), !.error = "none"]
  /\ painted' = Snapshot(details[i]) /\ last' = details[i].answer.status
  /\ timer' = Polls(details[i].answer.status)
  /\ UNCHANGED <<runs, open, discovery, turns>>
DetailAnswered(i) ==
  /\ details[i].answer # None /\ details' = Without(details, i)
  /\ IF details[i].active
     THEN /\ panel' = [panel EXCEPT !.snapshot = Snapshot(details[i]), !.error = "none"]
          /\ painted' = Snapshot(details[i]) /\ last' = details[i].answer.status
          /\ timer' = Polls(details[i].answer.status)
     ELSE UNCHANGED <<panel, painted, last, timer>>
  /\ UNCHANGED <<runs, open, discovery, turns>>
\* Mutant: a failure of any kind ends the polling.
DetailFailsForGood(i) ==
  /\ Turn("trouble", MaxPanelTrouble) /\ details' = Without(details, i)
  /\ IF details[i].active THEN panel' = [panel EXCEPT !.error = "failed"] /\ timer' = FALSE
     ELSE UNCHANGED <<panel, timer>>
  /\ UNCHANGED <<runs, open, discovery, last, painted>>
\* A refusal ends the polling, any other failure goes on as the last status says.
DetailFails(i) ==
  /\ Turn("trouble", MaxPanelTrouble) /\ details' = Without(details, i)
  /\ \E refused \in BOOLEAN :
       IF details[i].active
       THEN /\ panel' = [panel EXCEPT !.error = IF refused THEN "refused" ELSE "failed"]
            /\ timer' = (~refused /\ Polls(last))
       ELSE UNCHANGED <<panel, timer>>
  /\ UNCHANGED <<runs, open, discovery, last, painted>>
Refresh ==
  details' = Append(Disposed, Detail(panel.selected)) /\ timer' = FALSE
Poll ==
  /\ timer /\ Refresh
  /\ UNCHANGED <<runs, open, panel, discovery, last, painted, turns>>

\* The canvas paints the steps of a run of its own version only.
Painted == IF painted # None /\ painted.version = open THEN painted.run ELSE None

-----------------------------------------------------------------------------
(* The user.                                                               *)

RefreshAll ==
  /\ ~Loading /\ discovery.at = "timer" /\ Turn("turns", MaxPanelTurns)
  /\ discovery' = Discover(discovery.known)
  /\ IF panel.selected # None THEN Refresh ELSE UNCHANGED <<details, timer>>
  /\ UNCHANGED <<runs, open, panel, last, painted>>

SelectRun(r) ==
  /\ r \in DOMAIN discovery.known \cup {None} /\ r # panel.selected /\ Turn("turns", MaxPanelTurns)
  /\ panel' = [Fresh EXCEPT !.watch = FALSE, !.selected = r] /\ painted' = None /\ Select(r)
  /\ discovery' = IF panel.watch THEN Discover(discovery.known) ELSE discovery
  /\ UNCHANGED <<runs, open>>

\* Following the latest run forgets what is shown; discovery starts anew.
WatchLatest ==
  /\ Turn("turns", MaxPanelTurns) /\ discovery' = Discover(discovery.known)
  /\ IF panel.watch THEN panel' = [panel EXCEPT !.watch = FALSE] /\ UNCHANGED painted
     ELSE panel' = [panel EXCEPT !.watch = TRUE, !.snapshot = None] /\ painted' = None
  /\ UNCHANGED <<runs, open, details, timer, last>>

\* The panel is mounted anew with another version, or for a requested run.
Mount ==
  /\ panel' = Fresh /\ discovery' = Discover(<<>>) /\ details' = Disposed /\ timer' = FALSE
  /\ last' = None /\ painted' = None
ViewRunVersion ==
  /\ panel.snapshot # None /\ panel.snapshot.version # open /\ Turn("turns", MaxPanelTurns)
  /\ open' = panel.snapshot.version /\ Mount /\ UNCHANGED runs
RunRequested(v) ==
  /\ Len(runs) < MaxPanelRuns /\ runs' = Append(runs, [version |-> v, status |-> "pending"])
  /\ Mount /\ UNCHANGED <<open, turns>>

-----------------------------------------------------------------------------
(* The execution service.                                                  *)

OthersRun(v) ==
  /\ Len(runs) < MaxPanelRuns /\ runs' = Append(runs, [version |-> v, status |-> "pending"])
  /\ UNCHANGED <<open, panel, discovery, details, timer, last, painted, turns>>
Progress(r) ==
  /\ runs[r].status \in Unfinished
  /\ runs' = [runs EXCEPT ![r].status = IF @ = "pending" THEN "running" ELSE "completed"]
  /\ UNCHANGED <<open, panel, discovery, details, timer, last, painted, turns>>

-----------------------------------------------------------------------------
Init ==
  /\ \E v \in Canvas : runs = <<[version |-> v, status |-> "completed"]>>
  /\ open \in Canvas /\ panel = Fresh /\ discovery = Discover(<<>>) /\ details = <<>>
  /\ timer = FALSE /\ last = None /\ painted = None
  /\ turns = [k \in {"turns", "trouble"} |-> 0]

Next ==
  \/ DiscoverHandled \/ DiscoverAnswered \/ DiscoverFails \/ DiscoverAgain \/ Poll
  \/ RefreshAll \/ WatchLatest \/ ViewRunVersion
  \/ \E i \in DOMAIN details : DetailHandled(i) \/ DetailAnswered(i) \/ DetailFails(i)
  \/ \E r \in DOMAIN runs : Progress(r)
  \/ \E r \in DOMAIN runs \cup {None} : SelectRun(r)
  \/ \E v \in Canvas : RunRequested(v) \/ OthersRun(v)

-----------------------------------------------------------------------------
Status == Unfinished \cup {"completed"}
RunRow == [version : Canvas, status : Status]
Shot == [run : Nat, version : Canvas, status : Status]
View == [watch : BOOLEAN, selected : DOMAIN runs \cup {None}, snapshot : Shot \cup {None},
         error : {"none", "failed", "refused"}]
Discovery == [at : {"sent", "answered", "timer"}, answer : Seq(RunRow), known : Seq(RunRow)]
Entry == [run : DOMAIN runs, active : BOOLEAN, answer : RunRow \cup {None}]
TypeOK ==
  /\ runs \in Seq(RunRow) /\ open \in Canvas /\ panel \in View
  /\ discovery \in Discovery
  /\ Len(discovery.answer) <= Len(runs) /\ Len(discovery.known) <= Len(runs)
  /\ details \in Seq(Entry)
  /\ timer \in BOOLEAN /\ last \in Status \cup {None} /\ painted \in Shot \cup {None}
  /\ turns \in [{"turns", "trouble"} -> Int]

\* Whatever may still be painted is of the selected run, and what was painted
\* before another run was selected is on its way out.
SelectedIsFollowed ==
  /\ timer => panel.selected # None
  /\ \A i \in DOMAIN details : details[i].active => details[i].run = panel.selected
  /\ painted # None =>
       painted.run = panel.selected \/ Loading \/ panel.error # "none"

\* The canvas paints the run that is selected, unless that one is still being
\* loaded or could not be.
PaintsSelected ==
  Painted # None /\ ~Loading /\ panel.error = "none" => Painted = panel.selected

\* A run that was seen unfinished is asked for again, also after a failure that
\* is no refusal.
KeepsUp ==
  panel.selected # None /\ Polls(last) /\ panel.error # "refused" => Loading \/ timer

=============================================================================
