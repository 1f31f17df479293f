--------------------------- MODULE Console_proofs ---------------------------
(***************************************************************************)
(* TLAPS proofs about the pages of MCConsole, for every bound on what      *)
(* happens on them: what each of its seven pages keeps, and, at the end,   *)
(* the theorems, which put the pages together.  A page's variables are the *)
(* slots of MCConsole; each section says which slot is which.              *)
(***************************************************************************)
EXTENDS MCConsole, SequenceTheorems, WellFoundedInduction, TLAPS

-----------------------------------------------------------------------------
(* The page of one execution.  slot1 to slot9 are status, cancelRequested, *)
(* page, cancellation, load, timer, lastStatus, post and trouble.          *)

DetailInv ==
  Detail!TypeOK /\ Detail!CancellationKnown /\ Detail!CancelledStays /\ Detail!Follows

LEMMA DetailAnswers ==
  /\ \A s \in Detail!Status, b \in BOOLEAN : Detail!Record(s, b) \in Detail!Answer
  /\ \A a \in Detail!Answer : a.status \in Detail!Status /\ a.requested \in BOOLEAN
  /\ Detail!Lifecycle!Status \subseteq Detail!Status
  /\ {"pending", "running", "waiting_for_approval", "completed", "cancelled"}
       \subseteq Detail!Lifecycle!Status
  /\ "none" \in Detail!Status
BY DEF Detail!Record, Detail!Answer, Detail!Status, Detail!Lifecycle!Status,
  Detail!Lifecycle!Idle, Detail!Lifecycle!Terminal

LEMMA DetailRequests ==
  /\ Detail!Nothing \in Detail!Answer
  /\ Detail!Sent \in Detail!Request /\ Detail!Sent.at = "sent"
  /\ Detail!NoAnswer \in Detail!Request /\ Detail!NoAnswer.at = "none"
<1>1. Detail!Nothing \in Detail!Answer
  BY DetailAnswers DEF Detail!Nothing
<1> QED
  BY <1>1 DEF Detail!Sent, Detail!NoAnswer, Detail!Request

LEMMA DetailStarts ==
  ASSUME Detail!Init
  PROVE  DetailInv
<1>1. slot3 \in Detail!Page
  BY DetailRequests DEF Detail!Init, Detail!Page
<1>2. slot4 \in Detail!Cancellation
  BY DEF Detail!Init, Detail!Cancellation
<1>3. slot1 \in [{Run} -> Detail!Lifecycle!Status] /\ slot2 \in [{Run} -> BOOLEAN]
  BY DetailAnswers DEF Detail!Init
<1>4. slot5 \in Detail!Request /\ slot6 \in BOOLEAN /\ slot7 \in Detail!Status
      /\ slot8 \in Detail!Post /\ slot9 \in Int
  <2>1. "none" \in Detail!Status
    BY DetailAnswers
  <2>2. slot5 = Detail!Sent /\ slot6 = FALSE /\ slot7 = "none" /\ slot8 = "none" /\ slot9 = 0
    BY DEF Detail!Init
  <2>3. slot5 \in Detail!Request
    BY <2>2, DetailRequests
  <2>4. slot6 \in BOOLEAN
    BY <2>2
  <2>5. slot7 \in Detail!Status
    BY <2>1, <2>2
  <2>6. slot8 \in Detail!Post
    BY <2>2 DEF Detail!Post
  <2>7. slot9 \in Int
    BY <2>2
  <2> QED
    BY <2>3, <2>4, <2>5, <2>6, <2>7
<1>5. Detail!TypeOK
  BY <1>1, <1>2, <1>3, <1>4 DEF Detail!TypeOK
<1>6. Detail!CancellationKnown /\ Detail!CancelledStays /\ Detail!Follows
  BY DEF Detail!CancellationKnown, Detail!CancelledStays, Detail!Follows, Detail!Init,
    Detail!Sent
<1> QED
  BY <1>5, <1>6 DEF DetailInv

\* What the service does to the execution, and what it never does to one that
\* was cancelled.
LEMMA DetailServed ==
  ASSUME Detail!TypeOK,
         \/ Detail!Lifecycle!Start(Run) \/ Detail!Lifecycle!Suspend(Run)
         \/ Detail!Lifecycle!Resume(Run) \/ Detail!Lifecycle!Finish(Run)
         \/ Detail!Lifecycle!RequestCancellation(Run)
         \/ UNCHANGED Detail!service
  PROVE  /\ slot1' \in [{Run} -> Detail!Lifecycle!Status] /\ slot2' \in [{Run} -> BOOLEAN]
         /\ slot1[Run] = "cancelled" => slot1'[Run] = "cancelled"
BY DEF Detail!TypeOK, Detail!service, Detail!Lifecycle!Start, Detail!Lifecycle!Suspend,
  Detail!Lifecycle!Resume, Detail!Lifecycle!Finish, Detail!Lifecycle!RequestCancellation,
  Detail!Lifecycle!Become, Detail!Lifecycle!Status, Detail!Lifecycle!Idle,
  Detail!Lifecycle!Terminal

\* Whether the page is loaded again after an answer, or says that it is not.
LEMMA DetailScheduled ==
  ASSUME Detail!TypeOK
  PROVE  \A again \in BOOLEAN, requested \in BOOLEAN, shown \in Detail!Page :
           Detail!Schedule(again, requested, shown) =>
             /\ slot3' \in Detail!Page /\ slot3'.data = shown.data
             /\ slot3'.error = shown.error /\ slot3'.notice = shown.notice
             /\ slot4' \in Detail!Cancellation /\ slot4'.terminal = slot4.terminal
             /\ slot6' \in BOOLEAN /\ (again => slot6' \/ slot3'.stopped)
<1> SUFFICES ASSUME NEW again \in BOOLEAN, NEW requested \in BOOLEAN,
                    NEW shown \in Detail!Page, Detail!Schedule(again, requested, shown)
             PROVE  /\ slot3' \in Detail!Page /\ slot3'.data = shown.data
                    /\ slot3'.error = shown.error /\ slot3'.notice = shown.notice
                    /\ slot4' \in Detail!Cancellation /\ slot4'.terminal = slot4.terminal
                    /\ slot6' \in BOOLEAN /\ (again => slot6' \/ slot3'.stopped)
  OBVIOUS
<1> USE ConsoleAssumption DEF Detail!TypeOK, Detail!Page, Detail!Cancellation
<1> DEFINE polls == IF slot4.polls < MaxPolls THEN slot4.polls + 1 ELSE MaxPolls
<1>1. CASE requested /\ again
  <2>1. /\ slot4' = [slot4 EXCEPT !.requested = TRUE, !.polls = polls]
        /\ slot6' = (polls < MaxPolls) /\ slot3' = [shown EXCEPT !.stopped = polls >= MaxPolls]
    BY <1>1 DEF Detail!Schedule
  <2>2. polls \in Int
    OBVIOUS
  <2> HIDE DEF polls
  <2>3. slot3' \in Detail!Page /\ slot3'.data = shown.data
        /\ slot3'.error = shown.error /\ slot3'.notice = shown.notice
        /\ slot3'.stopped = (polls >= MaxPolls)
    <3> DEFINE ended == polls >= MaxPolls
    <3>1. ended \in BOOLEAN
      BY <2>2
    <3>2. slot3' = [shown EXCEPT !.stopped = ended]
      BY <2>1
    <3> HIDE DEF ended
    <3>3. slot3' \in Detail!Page /\ slot3'.data = shown.data
          /\ slot3'.error = shown.error /\ slot3'.notice = shown.notice
          /\ slot3'.stopped = ended
      BY <3>1, <3>2
    <3> QED
      BY <3>3 DEF ended
  <2>4. slot4' \in Detail!Cancellation /\ slot4'.terminal = slot4.terminal
    BY <2>1, <2>2
  <2>5. slot6' = (polls < MaxPolls) /\ slot3'.stopped = (polls >= MaxPolls)
    BY <2>1, <2>3
  <2>6. (polls < MaxPolls) \in BOOLEAN
    BY <2>2
  <2>7. (polls < MaxPolls) \/ (polls >= MaxPolls)
    BY <2>2
  <2>8. slot6' \in BOOLEAN /\ (slot6' \/ slot3'.stopped)
    BY <2>5, <2>6, <2>7, Zenon
  <2> QED
    BY <2>3, <2>4, <2>8
<1>2. CASE ~(requested /\ again)
  BY <1>2 DEF Detail!Schedule
<1> QED
  BY <1>1, <1>2

LEMMA DetailTyped ==
  ASSUME Detail!TypeOK, Detail!Next
  PROVE  Detail!TypeOK'
<1> USE ConsoleAssumption DEF Detail!TypeOK, Detail!service
<1>1. CASE Detail!Refresh \/ Detail!Poll
  BY <1>1, DetailRequests DEF Detail!Refresh, Detail!Poll, Detail!Load
<1>2. CASE Detail!LoadHandled
  <2>1. Detail!Record(slot1[Run], slot2[Run]) \in Detail!Answer
    BY DetailAnswers
  <2> QED
    BY <1>2, <2>1 DEF Detail!LoadHandled, Detail!Request
<1>3. CASE Detail!LoadAnswered
  <2> DEFINE s == Detail!ShownStatus(slot5.answer)
             shown == Detail!Record(s, slot5.answer.requested)
  <2>1. slot5.answer \in Detail!Answer /\ slot5.answer.status \in Detail!Status
        /\ slot5.answer.requested \in BOOLEAN
    BY DetailAnswers DEF Detail!Request
  <2>2. s \in Detail!Status
    BY <2>1, DetailAnswers DEF Detail!ShownStatus
  <2>3. shown \in Detail!Answer
    BY <2>1, <2>2, DetailAnswers
  <2> DEFINE requested == slot4.requested \/ slot5.answer.requested
             notice == IF s = "cancelled" /\ requested THEN "cancelled" ELSE slot3.notice
             page == [slot3 EXCEPT !.data = shown, !.error = "none", !.notice = notice]
  <2>4. page \in Detail!Page
    BY <2>3 DEF Detail!Page
  <2>5. requested \in BOOLEAN /\ Detail!Polls(s) \in BOOLEAN
    BY <2>1 DEF Detail!Cancellation, Detail!Polls
  <2>6. Detail!Schedule(Detail!Polls(s), requested, page)
    BY <1>3 DEF Detail!LoadAnswered
  <2> HIDE DEF page, requested, s
  <2>7. slot3' \in Detail!Page /\ slot4' \in Detail!Cancellation /\ slot6' \in BOOLEAN
    BY <2>4, <2>5, <2>6, DetailScheduled
  <2> QED
    BY <1>3, <2>1, <2>7, DetailRequests DEF Detail!LoadAnswered
<1>4. CASE Detail!LoadFails
  <2>1. slot5.answer.status \in Detail!Status
    BY DetailAnswers DEF Detail!Request
  <2>2. PICK error \in {"missing", "refused", "failed"} :
          Detail!Schedule(error = "failed" /\ Detail!Polls(slot7'), slot4.requested,
                          [slot3 EXCEPT !.error = error])
    BY <1>4 DEF Detail!LoadFails
  <2>3. [slot3 EXCEPT !.error = error] \in Detail!Page /\ slot4.requested \in BOOLEAN
        /\ (error = "failed" /\ Detail!Polls(slot7')) \in BOOLEAN
    BY DEF Detail!Page, Detail!Cancellation
  <2>4. slot3' \in Detail!Page /\ slot4' \in Detail!Cancellation /\ slot6' \in BOOLEAN
    BY <2>2, <2>3, DetailScheduled
  <2> QED
    BY <1>4, <2>1, <2>4, DetailRequests DEF Detail!LoadFails, Detail!Trouble
<1>5. CASE Detail!OpenConfirm \/ Detail!CloseConfirm \/ Detail!SubmitCancellation
  BY <1>5 DEF Detail!OpenConfirm, Detail!CloseConfirm, Detail!SubmitCancellation,
    Detail!Page, Detail!Post
<1>6. CASE Detail!PostHandled
  BY <1>6, DetailServed DEF Detail!PostHandled, Detail!Post
<1>7. CASE Detail!PostAnswered
  <2>1. [slot3.data EXCEPT !.status = "cancelled"] \in Detail!Answer
    BY DetailAnswers DEF Detail!Page, Detail!Answer
  <2>2. slot3' \in Detail!Page
    BY <1>7, <2>1 DEF Detail!PostAnswered, Detail!Page
  <2>3. slot4' \in Detail!Cancellation
    BY <1>7 DEF Detail!PostAnswered, Detail!Cancellation
  <2> QED
    BY <1>7, <2>2, <2>3, DetailRequests
    DEF Detail!PostAnswered, Detail!RefreshAfter, Detail!Load, Detail!Post
<1>8. CASE Detail!PostRefused
  BY <1>8, DetailRequests DEF Detail!PostRefused, Detail!RefreshAfter, Detail!Load,
    Detail!Page, Detail!Post
<1>9. CASE Detail!PostFails
  <2>1. slot3' \in Detail!Page
    BY <1>9 DEF Detail!PostFails, Detail!Page
  <2> QED
    BY <1>9, <2>1 DEF Detail!PostFails, Detail!Trouble, Detail!Post
<1>10. CASE Detail!Progress
  BY <1>10, DetailServed DEF Detail!Progress
<1> QED
  BY <1>1, <1>2, <1>3, <1>4, <1>5, <1>6, <1>7, <1>8, <1>9, <1>10 DEF Detail!Next

\* A cancellation that the page was told of.
LEMMA DetailCancelled ==
  ASSUME DetailInv, Detail!Next
  PROVE  Detail!CancellationKnown' /\ Detail!CancelledStays'
<1> USE DEF DetailInv, Detail!CancellationKnown, Detail!CancelledStays, Detail!TypeOK,
      Detail!service
<1>1. CASE Detail!Refresh \/ Detail!Poll
  BY <1>1, DetailRequests DEF Detail!Refresh, Detail!Poll, Detail!Load
<1>2. CASE Detail!LoadHandled
  BY <1>2 DEF Detail!LoadHandled, Detail!Record
<1>3. CASE Detail!LoadAnswered
  <2> DEFINE s == Detail!ShownStatus(slot5.answer)
             shown == Detail!Record(s, slot5.answer.requested)
             requested == slot4.requested \/ slot5.answer.requested
             notice == IF s = "cancelled" /\ requested THEN "cancelled" ELSE slot3.notice
             page == [slot3 EXCEPT !.data = shown, !.error = "none", !.notice = notice]
  <2>1. slot5.answer \in Detail!Answer /\ slot5.answer.status \in Detail!Status
        /\ slot5.answer.requested \in BOOLEAN
    BY DetailAnswers DEF Detail!Request
  <2>2. s \in Detail!Status /\ (s = "cancelled" => slot1[Run] = "cancelled")
        /\ (slot4.terminal => s = "cancelled")
    BY <1>3, <2>1, DetailAnswers DEF Detail!ShownStatus, Detail!LoadAnswered
  <2>3. shown \in Detail!Answer /\ shown.status = s
    BY <2>1, <2>2, DetailAnswers DEF Detail!Record
  <2>4. requested \in BOOLEAN /\ Detail!Polls(s) \in BOOLEAN
    BY <2>1 DEF Detail!Cancellation, Detail!Polls
  <2>5. slot3.notice = "cancelled" => s = "cancelled"
    BY <1>3, <2>2 DEF Detail!LoadAnswered, Detail!ShownStatus
  <2>6. Detail!Schedule(Detail!Polls(s), requested, page)
    BY <1>3 DEF Detail!LoadAnswered
  <2> HIDE DEF shown, requested, s
  <2>7. page \in Detail!Page /\ page.data = shown
        /\ (page.notice = "cancelled" => s = "cancelled")
    BY <2>3, <2>5 DEF Detail!Page
  <2> HIDE DEF page
  <2>8. slot3'.data = page.data /\ slot3'.notice = page.notice /\ slot4'.terminal = slot4.terminal
    BY <2>4, <2>6, <2>7, DetailScheduled
  <2>9. UNCHANGED <<slot1, slot8>> /\ slot5'.at = "none"
    BY <1>3, DetailRequests DEF Detail!LoadAnswered
  <2> QED
    BY <2>2, <2>3, <2>7, <2>8, <2>9
<1>4. CASE Detail!LoadFails
  <2>1. PICK error \in {"missing", "refused", "failed"} :
          Detail!Schedule(error = "failed" /\ Detail!Polls(slot7'), slot4.requested,
                          [slot3 EXCEPT !.error = error])
    BY <1>4 DEF Detail!LoadFails
  <2> DEFINE page == [slot3 EXCEPT !.error = error]
  <2>2. page \in Detail!Page /\ page.data = slot3.data /\ page.notice = slot3.notice
        /\ slot4.requested \in BOOLEAN /\ (error = "failed" /\ Detail!Polls(slot7')) \in BOOLEAN
    BY DEF Detail!Page, Detail!Cancellation
  <2>3. slot3'.data = slot3.data /\ slot3'.notice = slot3.notice
        /\ slot4'.terminal = slot4.terminal
    BY <2>1, <2>2, DetailScheduled
  <2>4. UNCHANGED <<slot1, slot8>> /\ slot5'.at = "none"
    BY <1>4, DetailRequests DEF Detail!LoadFails
  <2> QED
    BY <2>3, <2>4
<1>5. CASE Detail!OpenConfirm \/ Detail!CloseConfirm \/ Detail!SubmitCancellation
  BY <1>5 DEF Detail!OpenConfirm, Detail!CloseConfirm, Detail!SubmitCancellation, Detail!Page
<1>6. CASE Detail!PostHandled
  <2>1. UNCHANGED Detail!service \/ Detail!Lifecycle!RequestCancellation(Run)
    BY <1>6 DEF Detail!PostHandled
  <2>2. slot1[Run] = "cancelled" => slot1'[Run] = "cancelled"
    BY <2>1, DetailServed
  <2> QED
    BY <1>6, <2>2 DEF Detail!PostHandled
<1>7. CASE Detail!PostAnswered
  <2>1. slot3' \in Detail!Page /\ slot4' \in Detail!Cancellation
    BY <1>7, DetailTyped DEF Detail!Next
  <2>2. UNCHANGED slot1 /\ slot8' = "none" /\ (slot5'.at = "answered" => slot5' = slot5)
    BY <1>7, DetailRequests DEF Detail!PostAnswered, Detail!RefreshAfter, Detail!Load
  <2>3. CASE slot8 = "cancelled"
    <3>1. slot3'.notice = "cancelled" /\ slot3'.data.status = "cancelled" /\ slot4'.terminal
      BY <1>7, <2>3, DetailAnswers
      DEF Detail!PostAnswered, Detail!Page, Detail!Cancellation, Detail!Answer
    <3> QED
      BY <2>2, <2>3, <3>1
  <2>4. CASE slot8 = "cancellation_requested"
    <3>1. slot3'.notice = "cancellation_requested" /\ ~slot4'.terminal
      BY <1>7, <2>4 DEF Detail!PostAnswered, Detail!Page, Detail!Cancellation
    <3> QED
      BY <2>2, <2>4, <3>1
  <2> QED
    BY <1>7, <2>3, <2>4 DEF Detail!PostAnswered
<1>8. CASE Detail!PostRefused
  <2>1. slot3'.notice = "failed" /\ slot3'.data = slot3.data
    BY <1>8 DEF Detail!PostRefused, Detail!Page
  <2> QED
    BY <1>8, <2>1, DetailRequests DEF Detail!PostRefused, Detail!RefreshAfter, Detail!Load
<1>9. CASE Detail!PostFails
  <2>1. slot3'.notice = "failed" /\ slot3'.data = slot3.data
    BY <1>9 DEF Detail!PostFails, Detail!Page
  <2> QED
    BY <1>9, <2>1 DEF Detail!PostFails
<1>10. CASE Detail!Progress
  BY <1>10, DetailServed DEF Detail!Progress
<1> QED
  BY <1>1, <1>2, <1>3, <1>4, <1>5, <1>6, <1>7, <1>8, <1>9, <1>10 DEF Detail!Next

\* An execution that is shown unfinished.
LEMMA DetailFollowed ==
  ASSUME DetailInv, Detail!Next
  PROVE  Detail!Follows'
<1> USE DEF DetailInv, Detail!Follows, Detail!TypeOK, Detail!service
<1>1. CASE Detail!Refresh \/ Detail!Poll \/ Detail!LoadHandled
  BY <1>1, DetailRequests DEF Detail!Refresh, Detail!Poll, Detail!Load, Detail!LoadHandled
<1>2. CASE Detail!LoadAnswered
  <2> DEFINE s == Detail!ShownStatus(slot5.answer)
             shown == Detail!Record(s, slot5.answer.requested)
             requested == slot4.requested \/ slot5.answer.requested
             notice == IF s = "cancelled" /\ requested THEN "cancelled" ELSE slot3.notice
             page == [slot3 EXCEPT !.data = shown, !.error = "none", !.notice = notice]
  <2>1. slot5.answer \in Detail!Answer /\ slot5.answer.status \in Detail!Status
        /\ slot5.answer.requested \in BOOLEAN
    BY DetailAnswers DEF Detail!Request
  <2>2. s \in Detail!Status
    BY <2>1, DetailAnswers DEF Detail!ShownStatus
  <2>3. shown \in Detail!Answer /\ shown.status = s
    BY <2>1, <2>2, DetailAnswers DEF Detail!Record
  <2>4. requested \in BOOLEAN /\ Detail!Polls(s) \in BOOLEAN
    BY <2>1 DEF Detail!Cancellation, Detail!Polls
  <2>5. Detail!Schedule(Detail!Polls(s), requested, page)
    BY <1>2 DEF Detail!LoadAnswered
  <2> HIDE DEF shown, requested, s
  <2>6. page \in Detail!Page /\ page.data = shown
    BY <2>3 DEF Detail!Page
  <2> HIDE DEF page
  <2>7. slot3'.data = page.data /\ (Detail!Polls(s) => slot6' \/ slot3'.stopped)
    BY <2>4, <2>5, <2>6, DetailScheduled
  <2> QED
    BY <2>3, <2>6, <2>7 DEF Detail!Polls
<1>3. CASE Detail!LoadFails
  <2>1. PICK error \in {"missing", "refused", "failed"} :
          Detail!Schedule(error = "failed" /\ Detail!Polls(slot7'), slot4.requested,
                          [slot3 EXCEPT !.error = error])
    BY <1>3 DEF Detail!LoadFails
  <2> DEFINE page == [slot3 EXCEPT !.error = error]
  <2>2. page \in Detail!Page /\ page.error = error
        /\ slot4.requested \in BOOLEAN /\ (error = "failed" /\ Detail!Polls(slot7')) \in BOOLEAN
    BY DEF Detail!Page, Detail!Cancellation
  <2>3. slot3'.error = error
    BY <2>1, <2>2, DetailScheduled
  <2> QED
    BY <2>3
<1>4. CASE Detail!OpenConfirm \/ Detail!CloseConfirm \/ Detail!SubmitCancellation
  BY <1>4 DEF Detail!OpenConfirm, Detail!CloseConfirm, Detail!SubmitCancellation,
    Detail!Page, Detail!Polls
<1>5. CASE Detail!PostHandled \/ Detail!Progress
  BY <1>5 DEF Detail!PostHandled, Detail!Progress, Detail!Polls
<1>6. CASE Detail!PostAnswered \/ Detail!PostRefused
  BY <1>6, DetailRequests
  DEF Detail!PostAnswered, Detail!PostRefused, Detail!RefreshAfter, Detail!Load
<1>7. CASE Detail!PostFails
  BY <1>7 DEF Detail!PostFails, Detail!Page, Detail!Polls
<1> QED
  BY <1>1, <1>2, <1>3, <1>4, <1>5, <1>6, <1>7 DEF Detail!Next

LEMMA DetailSteps ==
  ASSUME DetailInv, Detail!Next \/ UNCHANGED Detail!vars
  PROVE  DetailInv'
<1>1. CASE Detail!Next
  BY <1>1, DetailTyped, DetailCancelled, DetailFollowed DEF DetailInv
<1>2. CASE UNCHANGED Detail!vars
  BY <1>2 DEF Detail!vars, Detail!service, DetailInv, Detail!TypeOK, Detail!Follows,
    Detail!CancellationKnown, Detail!CancelledStays, Detail!Polls
<1> QED
  BY <1>1, <1>2

-----------------------------------------------------------------------------
(* The panel of runs.  slot1 to slot9 are runs, open, panel, discovery,    *)
(* details, timer, last, painted and turns.                                *)

PanelInv == Panel!TypeOK /\ Panel!SelectedIsFollowed /\ Panel!KeepsUp

\* A set of numbers up to n has a greatest one.
LEMMA GreatestOfMany ==
  ASSUME NEW n \in Nat, NEW S \in SUBSET (1..n), S # {}
  PROVE  \E i \in S : \A j \in S : j <= i
<1> DEFINE T == {n - i : i \in S}
<1>1. T \subseteq Nat /\ T # {}
  <2>1. \A i \in S : i \in 1..n /\ n - i \in Nat
    OBVIOUS
  <2> QED
    BY <2>1
<1>2. PICK m \in T : \A k \in T : ~(<<k, m>> \in OpToRel(<, Nat))
  <2> HIDE DEF T
  <2> QED
    BY <1>1, NatLessThanWellFounded, WFMin
<1>3. PICK i \in S : m = n - i
  BY <1>2
<1>4. \A j \in S : j <= i
  <2> TAKE j \in S
  <2>1. n - j \in T /\ n - j \in Nat /\ m \in Nat
    BY <1>1, <1>2
  <2>2. ~(n - j < m)
    BY <1>2, <2>1 DEF OpToRel
  <2> QED
    BY <1>3, <2>2
<1> QED
  BY <1>3, <1>4

\* A request that is withdrawn keeps the others in their order.
LEMMA Withdrawn ==
  ASSUME NEW S, NEW s \in Seq(S), NEW i \in DOMAIN s
  PROVE  LET w == SubSeq(s, 1, i - 1) \o SubSeq(s, i + 1, Len(s))
         IN  /\ w \in Seq(S)
             /\ \A j \in DOMAIN w : \E k \in DOMAIN s : w[j] = s[k]
             /\ \A k \in DOMAIN s : k # i => \E j \in DOMAIN w : w[j] = s[k]
<1> DEFINE a == SubSeq(s, 1, i - 1)
           b == SubSeq(s, i + 1, Len(s))
<1>1. Len(s) \in Nat /\ i \in 1..Len(s) /\ DOMAIN s = 1..Len(s)
  OBVIOUS
<1>2. a \in Seq(S) /\ Len(a) = i - 1 /\ \A j \in 1..(i - 1) : a[j] = s[j]
  BY <1>1, SubSeqProperties
<1>3. b \in Seq(S) /\ Len(b) = Len(s) - i /\ \A j \in 1..(Len(s) - i) : b[j] = s[i + j]
  BY <1>1, SubSeqProperties
<1> DEFINE w == a \o b
<1> HIDE DEF a, b
<1>4. w \in Seq(S) /\ Len(w) = Len(s) - 1
  <2>1. w \in Seq(S) /\ Len(w) = Len(a) + Len(b)
    BY <1>2, <1>3, ConcatProperties
  <2> QED
    BY <2>1, <1>1, <1>2, <1>3
<1>5. \A j \in 1..(Len(s) - 1) : w[j] = IF j < i THEN s[j] ELSE s[j + 1]
  <2>0. \A j \in 1..(Len(a) + Len(b)) : w[j] = IF j <= Len(a) THEN a[j] ELSE b[j - Len(a)]
    BY <1>2, <1>3, ConcatProperties
  <2> HIDE DEF w
  <2>3. Len(a) = i - 1 /\ Len(a) + Len(b) = Len(s) - 1
    BY <1>1, <1>2, <1>3
  <2>4. \A j \in 1..(Len(s) - 1) : w[j] = IF j <= i - 1 THEN a[j] ELSE b[j - (i - 1)]
    BY ONLY <2>0, <2>3
  <2> TAKE j \in 1..(Len(s) - 1)
  <2>1. CASE j < i
    <3>1. j \in 1..(i - 1) /\ j <= i - 1
      BY <2>1, <1>1
    <3> QED
      BY <2>1, <2>4, <3>1, <1>2
  <2>2. CASE ~(j < i)
    <3>1. w[j] = b[j - (i - 1)]
      BY <2>2, <2>4, <1>1
    <3>2. j - (i - 1) \in 1..(Len(s) - i) /\ i + (j - (i - 1)) = j + 1
      BY <2>2, <1>1
    <3> QED
      BY <2>2, <3>1, <3>2, <1>3
  <2> QED
    BY <2>1, <2>2
<1> HIDE DEF w
<1>6. DOMAIN w = 1..(Len(s) - 1)
  BY <1>1, <1>4
<1>7. \A j \in DOMAIN w : \E k \in DOMAIN s : w[j] = s[k]
  <2> TAKE j \in DOMAIN w
  <2>1. j \in 1..(Len(s) - 1) /\ j \in 1..Len(s) /\ j + 1 \in 1..Len(s)
    BY <1>1, <1>6
  <2> QED
    BY <2>1, <1>1, <1>5
<1>8. \A k \in DOMAIN s : k # i => \E j \in DOMAIN w : w[j] = s[k]
  <2> SUFFICES ASSUME NEW k \in DOMAIN s, k # i
               PROVE  \E j \in DOMAIN w : w[j] = s[k]
    OBVIOUS
  <2>1. CASE k < i
    <3>1. k \in 1..(Len(s) - 1)
      BY <2>1, <1>1
    <3> QED
      BY <2>1, <3>1, <1>5, <1>6
  <2>2. CASE k > i
    <3>1. k - 1 \in 1..(Len(s) - 1) /\ ~(k - 1 < i) /\ (k - 1) + 1 = k
      BY <2>2, <1>1
    <3> QED
      BY <3>1, <1>5, <1>6
  <2> QED
    BY <2>1, <2>2, <1>1
<1> QED
  BY <1>4, <1>7, <1>8 DEF w, a, b

LEMMA PanelStarts ==
  ASSUME Panel!Init
  PROVE  PanelInv
<1>1. PICK v \in Canvas : slot1 = <<[version |-> v, status |-> "completed"]>>
  BY DEF Panel!Init
<1>2. slot1 \in Seq(Panel!RunRow) /\ Len(slot1) = 1
  BY <1>1 DEF Panel!RunRow, Panel!Status
<1>3. slot3 \in Panel!View /\ slot3.selected = None
  BY DEF Panel!Init, Panel!View, Panel!Fresh
<1>4. slot4 \in Panel!Discovery /\ slot4.answer = <<>> /\ slot4.known = <<>>
  BY DEF Panel!Init, Panel!Discover, Panel!Discovery
<1>5. slot5 = <<>> /\ slot5 \in Seq(Panel!Entry) /\ slot8 = None /\ slot6 = FALSE
  BY DEF Panel!Init
<1>6. Panel!TypeOK
  <2>1. slot2 \in Canvas /\ slot6 \in BOOLEAN /\ slot7 \in Panel!Status \cup {None}
        /\ slot8 \in Panel!Shot \cup {None} /\ slot9 \in [{"turns", "trouble"} -> Int]
    <3>1. slot2 \in Canvas /\ slot6 \in BOOLEAN
      BY DEF Panel!Init
    <3>2. slot7 \in Panel!Status \cup {None} /\ slot8 \in Panel!Shot \cup {None}
      BY DEF Panel!Init
    <3>3. slot9 \in [{"turns", "trouble"} -> Int]
      BY DEF Panel!Init
    <3> QED
      BY <3>1, <3>2, <3>3
  <2>2. Len(slot4.answer) <= Len(slot1) /\ Len(slot4.known) <= Len(slot1)
    BY <1>2, <1>4
  <2> QED
    BY <1>2, <1>3, <1>4, <1>5, <2>1, <2>2 DEF Panel!TypeOK
<1> QED
  BY <1>3, <1>5, <1>6 DEF PanelInv, Panel!SelectedIsFollowed, Panel!KeepsUp

\* What disposing of requests leaves, and what asking anew adds.
LEMMA PanelDisposed ==
  ASSUME Panel!TypeOK
  PROVE  /\ Panel!Disposed \in Seq(Panel!Entry) /\ DOMAIN Panel!Disposed = DOMAIN slot5
         /\ \A i \in DOMAIN slot5 : ~Panel!Disposed[i].active
<1>1. slot5 \in Seq(Panel!Entry)
  BY DEF Panel!TypeOK
<1>2. \A i \in DOMAIN slot5 :
        [slot5[i] EXCEPT !.active = FALSE] \in Panel!Entry
  <2> TAKE i \in DOMAIN slot5
  <2>1. slot5[i] \in Panel!Entry
    BY <1>1
  <2> QED
    BY <2>1 DEF Panel!Entry
<1>3. DOMAIN slot5 = 1..Len(slot5) /\ Len(slot5) \in Nat
  BY <1>1
<1>4. \A i \in DOMAIN slot5 : ~[slot5[i] EXCEPT !.active = FALSE].active
  <2> TAKE i \in DOMAIN slot5
  <2>1. slot5[i] \in Panel!Entry
    BY <1>1
  <2> QED
    BY <2>1 DEF Panel!Entry
<1>5. Panel!Disposed \in Seq(Panel!Entry)
  BY <1>2, <1>3, IsASeq DEF Panel!Disposed
<1> QED
  BY <1>4, <1>5 DEF Panel!Disposed

LEMMA PanelAsked ==
  ASSUME Panel!TypeOK, NEW r \in DOMAIN slot1
  PROVE  LET asked == Append(Panel!Disposed, Panel!Detail(r))
         IN  /\ asked \in Seq(Panel!Entry)
             /\ \A i \in DOMAIN asked : asked[i].active => asked[i].run = r
             /\ \E i \in DOMAIN asked : asked[i].active
<1>1. Panel!Detail(r) \in Panel!Entry /\ Panel!Detail(r).active /\ Panel!Detail(r).run = r
  BY DEF Panel!Detail, Panel!Entry
<1> DEFINE d == Panel!Disposed
           e == Panel!Detail(r)
           asked == Append(d, e)
<1>2. d \in Seq(Panel!Entry) /\ \A i \in DOMAIN d : ~d[i].active
  BY PanelDisposed
<1> HIDE DEF d, e
<1>3. /\ asked \in Seq(Panel!Entry) /\ DOMAIN asked = 1..(Len(d) + 1) /\ Len(d) \in Nat
      /\ \A i \in 1..Len(d) : asked[i] = d[i]
      /\ asked[Len(d) + 1] = e
  BY <1>1, <1>2, AppendProperties DEF e
<1> HIDE DEF asked
<1>4. \A i \in DOMAIN asked : asked[i].active => i = Len(d) + 1
  BY <1>2, <1>3
<1> QED
  BY <1>1, <1>3, <1>4 DEF asked, d, e

\* What the refresh effect does when another run, or none, is selected.
LEMMA PanelSelects ==
  ASSUME Panel!TypeOK
  PROVE  \A r \in DOMAIN slot1 \cup {None} : Panel!Select(r) =>
           /\ slot5' \in Seq(Panel!Entry)
           /\ \A i \in DOMAIN slot5' : slot5'[i].active => slot5'[i].run = r
           /\ r # None => \E i \in DOMAIN slot5' : slot5'[i].active
           /\ slot6' = FALSE /\ slot7' = None
<1> SUFFICES ASSUME NEW r \in DOMAIN slot1 \cup {None}, Panel!Select(r)
             PROVE  /\ slot5' \in Seq(Panel!Entry)
                    /\ \A i \in DOMAIN slot5' : slot5'[i].active => slot5'[i].run = r
                    /\ r # None => \E i \in DOMAIN slot5' : slot5'[i].active
                    /\ slot6' = FALSE /\ slot7' = None
  OBVIOUS
<1>1. CASE r = None
  BY <1>1, PanelDisposed DEF Panel!Select
<1>2. CASE r # None
  <2>1. slot5' = Append(Panel!Disposed, Panel!Detail(r))
    BY <1>2 DEF Panel!Select
  <2> QED
    BY <1>2, <2>1, PanelAsked DEF Panel!Select
<1> QED
  BY <1>1, <1>2

\* More runs are no other view of those there are.
LEMMA PanelMoreRuns ==
  ASSUME DOMAIN slot1 \subseteq DOMAIN slot1'
  PROVE  /\ Panel!View \subseteq Panel!View' /\ Seq(Panel!Entry) \subseteq Seq(Panel!Entry)'
         /\ Panel!RunRow' = Panel!RunRow
<1>1. Panel!Entry \subseteq Panel!Entry' /\ Panel!View \subseteq Panel!View'
  BY DEF Panel!Entry, Panel!View
<1>2. Seq(Panel!Entry) \subseteq Seq(Panel!Entry')
  BY <1>1, SeqMonotonic
<1> QED
  BY <1>1, <1>2

\* The run that is followed is one that there is.
LEMMA PanelLatest ==
  ASSUME Panel!TypeOK
  PROVE  /\ Panel!Latest(slot4.answer) \in DOMAIN slot1 \cup {None}
         /\ Panel!Latest(slot4.answer) # slot3.selected => Panel!Latest(slot4.answer) # None
<1> DEFINE known == slot4.answer
           compatible == {i \in DOMAIN known : known[i].version = slot2}
           unfinished == {i \in compatible : known[i].status \in Panel!Unfinished}
           Newest(S) == CHOOSE i \in S : \A j \in S : j <= i
<1>1. known \in Seq(Panel!RunRow) /\ Len(known) <= Len(slot1) /\ slot1 \in Seq(Panel!RunRow)
  BY DEF Panel!TypeOK, Panel!Discovery
<1>2. DOMAIN known = 1..Len(known) /\ Len(known) \in Nat /\ DOMAIN slot1 = 1..Len(slot1)
      /\ Len(slot1) \in Nat
  BY <1>1
<1>3. \A S \in SUBSET (1..Len(known)) : S # {} => Newest(S) \in S
  BY <1>2, GreatestOfMany
<1>4. 1..Len(known) \subseteq DOMAIN slot1 /\ None \notin 1..Len(known)
  BY <1>1, <1>2, ConsoleAssumption
<1>5. slot3.selected \in DOMAIN slot1 \cup {None}
  BY DEF Panel!TypeOK, Panel!View
<1>6. CASE known = <<>>
  BY <1>5, <1>6 DEF Panel!Latest
<1>7. CASE known # <<>>
  <2>1. Len(known) \in 1..Len(known)
    BY <1>1, <1>2, <1>7
  <2>2. unfinished \in SUBSET (1..Len(known)) /\ compatible \in SUBSET (1..Len(known))
    BY <1>2
  <2>3. Panel!Latest(known) = IF unfinished # {} THEN Newest(unfinished)
                              ELSE IF compatible # {} THEN Newest(compatible) ELSE Len(known)
    BY <1>7 DEF Panel!Latest
  <2> HIDE DEF unfinished, compatible, Newest
  <2>4. Panel!Latest(known) \in 1..Len(known)
    BY <1>3, <2>1, <2>2, <2>3
  <2> QED
    BY <1>4, <2>4
<1> QED
  BY <1>6, <1>7

LEMMA PanelSameRuns ==
  ASSUME slot1' = slot1
  PROVE  Panel!View' = Panel!View /\ Panel!Entry' = Panel!Entry
BY DEF Panel!View, Panel!Entry

\* The list of runs.
LEMMA PanelDiscovers ==
  ASSUME PanelInv,
         Panel!DiscoverHandled \/ Panel!DiscoverAnswered \/ Panel!DiscoverFails
           \/ Panel!DiscoverAgain
  PROVE  PanelInv'
<1> USE DEF PanelInv
<1>0. slot1' = slot1
  BY DEF Panel!DiscoverHandled, Panel!DiscoverAnswered, Panel!DiscoverFails,
    Panel!DiscoverAgain
<1>1. Panel!View' = Panel!View /\ Panel!Entry' = Panel!Entry
  BY <1>0, PanelSameRuns
<1>2. CASE Panel!DiscoverHandled \/ Panel!DiscoverFails \/ Panel!DiscoverAgain
  <2>1. UNCHANGED <<slot1, slot2, slot3, slot5, slot6, slot7, slot8>>
    BY <1>2 DEF Panel!DiscoverHandled, Panel!DiscoverFails, Panel!DiscoverAgain
  <2>2. slot9' \in [{"turns", "trouble"} -> Int]
    BY <1>2 DEF Panel!DiscoverHandled, Panel!DiscoverFails, Panel!DiscoverAgain, Panel!Turn,
      Panel!TypeOK
  <2>3. slot1 \in Seq(Panel!RunRow) /\ <<>> \in Seq(Panel!RunRow) /\ Len(slot1) \in Nat
        /\ Len(<<>>) = 0
    BY DEF Panel!TypeOK
  <2>4. slot4' \in Panel!Discovery /\ Len(slot4'.answer) <= Len(slot1)
        /\ Len(slot4'.known) <= Len(slot1)
    <3>1. CASE Panel!DiscoverHandled
      <4>1. slot4' = [slot4 EXCEPT !.at = "answered", !.answer = slot1] /\ slot4 \in Panel!Discovery
        BY <3>1 DEF Panel!DiscoverHandled, Panel!TypeOK
      <4>2. slot4' \in Panel!Discovery /\ slot4'.answer = slot1 /\ slot4'.known = slot4.known
        BY <4>1, <2>3 DEF Panel!Discovery
      <4> QED
        BY <4>2, <2>3 DEF Panel!TypeOK
    <3>2. CASE Panel!DiscoverFails
      <4>1. slot4' = [slot4 EXCEPT !.at = "timer", !.answer = <<>>] /\ slot4 \in Panel!Discovery
        BY <3>2 DEF Panel!DiscoverFails, Panel!TypeOK
      <4>2. slot4' \in Panel!Discovery /\ slot4'.answer = <<>> /\ slot4'.known = slot4.known
        BY <4>1, <2>3 DEF Panel!Discovery
      <4> QED
        BY <4>2, <2>3 DEF Panel!TypeOK
    <3>3. CASE Panel!DiscoverAgain
      BY <3>3, <2>3 DEF Panel!DiscoverAgain, Panel!Discover, Panel!TypeOK, Panel!Discovery
    <3> QED
      BY <1>2, <3>1, <3>2, <3>3
  <2>5. Panel!TypeOK'
    BY <1>1, <2>1, <2>2, <2>4 DEF Panel!TypeOK
  <2> QED
    BY <2>1, <2>5 DEF Panel!SelectedIsFollowed, Panel!KeepsUp, Panel!Loading, Panel!Polls
<1>3. CASE Panel!DiscoverAnswered
  <2> DEFINE r == Panel!Latest(slot4.answer)
  <2>1. slot4' = [at |-> "timer", answer |-> <<>>, known |-> slot4.answer]
        /\ UNCHANGED <<slot1, slot2, slot8, slot9>>
    BY <1>3 DEF Panel!DiscoverAnswered
  <2>2. slot4.answer \in Seq(Panel!RunRow) /\ <<>> \in Seq(Panel!RunRow)
        /\ Len(slot4.answer) <= Len(slot1) /\ Len(slot1) \in Nat /\ Len(<<>>) = 0
    BY DEF Panel!TypeOK, Panel!Discovery
  <2>3. slot4' \in Panel!Discovery /\ Len(slot4'.answer) <= Len(slot1)
        /\ Len(slot4'.known) <= Len(slot1)
    BY <2>1, <2>2 DEF Panel!Discovery
  <2>4. r \in DOMAIN slot1 \cup {None} /\ (r # slot3.selected => r # None)
    BY PanelLatest
  <2> HIDE DEF r
  <2>5. CASE ~slot3.watch \/ r = slot3.selected
    <3>1. slot3' \in Panel!View /\ slot3'.selected = slot3.selected /\ slot3'.error = slot3.error
      BY <1>3, <2>4, <2>5 DEF Panel!DiscoverAnswered, Panel!View, Panel!TypeOK, r
    <3>2. UNCHANGED <<slot5, slot6, slot7>>
      BY <1>3, <2>5 DEF Panel!DiscoverAnswered, Panel!SelectFromList, r
    <3>3. Panel!TypeOK'
      BY <1>1, <2>1, <2>3, <3>1, <3>2 DEF Panel!TypeOK
    <3> QED
      BY <2>1, <3>1, <3>2, <3>3
      DEF Panel!SelectedIsFollowed, Panel!KeepsUp, Panel!Loading, Panel!Polls
  <2>6. CASE slot3.watch /\ r # slot3.selected
    <3>1. slot3' \in Panel!View /\ slot3'.selected = r
      BY <1>3, <2>4, <2>6 DEF Panel!DiscoverAnswered, Panel!View, Panel!TypeOK, r
    <3>2. Panel!Select(r)
      BY <1>3, <2>6 DEF Panel!DiscoverAnswered, Panel!SelectFromList, r
    <3>3. /\ slot5' \in Seq(Panel!Entry)
          /\ \A i \in DOMAIN slot5' : slot5'[i].active => slot5'[i].run = r
          /\ \E i \in DOMAIN slot5' : slot5'[i].active
          /\ slot6' = FALSE /\ slot7' = None
      BY <2>4, <2>6, <3>2, PanelSelects
    <3>4. Panel!TypeOK'
      BY <1>1, <2>1, <2>3, <3>1, <3>3 DEF Panel!TypeOK
    <3> QED
      BY <3>1, <3>3, <3>4 DEF Panel!SelectedIsFollowed, Panel!KeepsUp, Panel!Loading
  <2> QED
    BY <2>5, <2>6
<1> QED
  BY <1>2, <1>3

\* The steps of the run.
LEMMA PanelLoads ==
  ASSUME PanelInv, NEW i \in DOMAIN slot5,
         Panel!DetailHandled(i) \/ Panel!DetailAnswered(i) \/ Panel!DetailFails(i)
  PROVE  PanelInv'
<1> USE DEF PanelInv
<1>0. slot1' = slot1 /\ UNCHANGED <<slot2, slot4>>
  BY DEF Panel!DetailHandled, Panel!DetailAnswered, Panel!DetailFails
<1>1. Panel!View' = Panel!View /\ Panel!Entry' = Panel!Entry
  BY <1>0, PanelSameRuns
<1>2. slot5 \in Seq(Panel!Entry) /\ slot5[i] \in Panel!Entry /\ slot1 \in Seq(Panel!RunRow)
      /\ i \in 1..Len(slot5) /\ slot1[slot5[i].run] \in Panel!RunRow
  <2>1. slot5 \in Seq(Panel!Entry) /\ slot1 \in Seq(Panel!RunRow)
    BY DEF Panel!TypeOK
  <2>2. slot5[i] \in Panel!Entry /\ i \in 1..Len(slot5)
    BY <2>1
  <2>3. slot5[i].run \in DOMAIN slot1
    BY <2>2 DEF Panel!Entry
  <2> QED
    BY <2>1, <2>2, <2>3
<1>3. CASE Panel!DetailHandled(i)
  <2> DEFINE e == [slot5[i] EXCEPT !.answer = slot1[slot5[i].run]]
  <2>1. slot5' = [slot5 EXCEPT ![i] = e] /\ UNCHANGED <<slot3, slot6, slot7, slot8, slot9>>
    BY <1>3 DEF Panel!DetailHandled
  <2>2. e \in Panel!Entry /\ e.active = slot5[i].active /\ e.run = slot5[i].run
    BY <1>2 DEF Panel!Entry
  <2> HIDE DEF e
  <2>3. slot5' \in Seq(Panel!Entry)
    BY <1>2, <2>1, <2>2, ExceptSeq
  <2>4. DOMAIN slot5' = DOMAIN slot5 /\ slot5'[i] = e
        /\ \A j \in DOMAIN slot5 : j # i => slot5'[j] = slot5[j]
    BY <2>1
  <2>5. \A j \in DOMAIN slot5 : slot5'[j].active = slot5[j].active /\ slot5'[j].run = slot5[j].run
    BY <2>2, <2>4
  <2>6. Panel!TypeOK'
    BY <1>0, <1>1, <2>1, <2>3 DEF Panel!TypeOK
  <2> QED
    BY <2>1, <2>4, <2>5, <2>6
    DEF Panel!SelectedIsFollowed, Panel!KeepsUp, Panel!Loading, Panel!Polls
<1>4. CASE Panel!DetailAnswered(i) \/ Panel!DetailFails(i)
  <2>1. slot5' = SubSeq(slot5, 1, i - 1) \o SubSeq(slot5, i + 1, Len(slot5))
    BY <1>4 DEF Panel!DetailAnswered, Panel!DetailFails, Panel!Without
  <2>2. /\ slot5' \in Seq(Panel!Entry)
        /\ \A j \in DOMAIN slot5' : \E k \in DOMAIN slot5 : slot5'[j] = slot5[k]
        /\ \A k \in DOMAIN slot5 : k # i => \E j \in DOMAIN slot5' : slot5'[j] = slot5[k]
    BY <1>2, <2>1, Withdrawn
  <2>3. \A j \in DOMAIN slot5' : slot5'[j].active => slot5'[j].run = slot3.selected
    BY <2>2 DEF Panel!SelectedIsFollowed
  <2>4. slot9' \in [{"turns", "trouble"} -> Int]
    BY <1>4 DEF Panel!DetailAnswered, Panel!DetailFails, Panel!Turn, Panel!TypeOK
  <2>5. CASE ~slot5[i].active
    <3>1. UNCHANGED <<slot3, slot6, slot7, slot8>>
      BY <1>4, <2>5 DEF Panel!DetailAnswered, Panel!DetailFails
    <3>2. Panel!Loading => Panel!Loading'
      BY <2>2, <2>5 DEF Panel!Loading
    <3>3. Panel!TypeOK'
      BY <1>0, <1>1, <2>2, <2>4, <3>1 DEF Panel!TypeOK
    <3> QED
      BY <2>3, <3>1, <3>2, <3>3 DEF Panel!SelectedIsFollowed, Panel!KeepsUp, Panel!Polls
  <2>6. CASE slot5[i].active /\ Panel!DetailAnswered(i)
    <3> DEFINE d == slot5[i]
    <3>1. d.answer \in Panel!RunRow /\ d.run \in DOMAIN slot1 /\ d.run = slot3.selected
      BY <1>2, <2>6 DEF Panel!Entry, Panel!DetailAnswered, Panel!SelectedIsFollowed
    <3>2. d.answer.status \in Panel!Status /\ d.answer.version \in Canvas /\ d.run \in Nat
          /\ d.run # None
      BY <3>1, <1>2, ConsoleAssumption DEF Panel!RunRow
    <3>3. Panel!Snapshot(d) \in Panel!Shot /\ Panel!Snapshot(d).run = d.run
      BY <3>2 DEF Panel!Snapshot, Panel!Shot
    <3>4. /\ slot3' = [slot3 EXCEPT !.snapshot = Panel!Snapshot(d), !.error = "none"]
          /\ slot8' = Panel!Snapshot(d) /\ slot7' = d.answer.status
          /\ slot6' = Panel!Polls(d.answer.status)
      BY <2>6 DEF Panel!DetailAnswered
    <3> HIDE DEF d
    <3>5. slot3' \in Panel!View /\ slot3'.selected = slot3.selected
      BY <3>3, <3>4 DEF Panel!View, Panel!TypeOK
    <3>6. slot6' \in BOOLEAN /\ (Panel!Polls(slot7') => slot6')
      <4>1. slot6' = (slot7' \in Panel!Unfinished)
        BY <3>4 DEF Panel!Polls
      <4>2. (slot7' \in Panel!Unfinished) \in BOOLEAN
        OBVIOUS
      <4> QED
        BY <4>1, <4>2, Zenon DEF Panel!Polls
    <3>7. Panel!TypeOK'
      BY <1>0, <1>1, <2>2, <2>4, <3>2, <3>3, <3>4, <3>5, <3>6 DEF Panel!TypeOK
    <3>8. Panel!SelectedIsFollowed'
      BY <2>3, <3>1, <3>2, <3>3, <3>4, <3>5 DEF Panel!SelectedIsFollowed
    <3>9. Panel!KeepsUp'
      BY <3>6 DEF Panel!KeepsUp, Panel!Polls
    <3> QED
      BY <3>7, <3>8, <3>9
  <2>7. CASE slot5[i].active /\ Panel!DetailFails(i)
    <3>1. PICK refused \in BOOLEAN :
            /\ slot3' = [slot3 EXCEPT !.error = IF refused THEN "refused" ELSE "failed"]
            /\ slot6' = (~refused /\ Panel!Polls(slot7))
      BY <2>7 DEF Panel!DetailFails
    <3>2. UNCHANGED <<slot7, slot8>>
      BY <2>7 DEF Panel!DetailFails
    <3>3. slot3' \in Panel!View /\ slot3'.selected = slot3.selected
          /\ slot3'.error = IF refused THEN "refused" ELSE "failed"
      BY <3>1 DEF Panel!View, Panel!TypeOK
    <3>4. slot6' \in BOOLEAN /\ (refused \/ (Panel!Polls(slot7) => slot6'))
      BY <3>1 DEF Panel!Polls
    <3>5. Panel!TypeOK'
      BY <1>0, <1>1, <2>2, <2>4, <3>2, <3>3, <3>4 DEF Panel!TypeOK
    <3>6. slot3.selected # None
      <4>1. slot5[i].run \in DOMAIN slot1 /\ slot5[i].run = slot3.selected
        BY <1>2, <2>7 DEF Panel!Entry, Panel!SelectedIsFollowed
      <4> QED
        BY <4>1, <1>2, ConsoleAssumption
    <3>7. Panel!SelectedIsFollowed'
      BY <2>3, <3>2, <3>3, <3>6 DEF Panel!SelectedIsFollowed
    <3>8. Panel!KeepsUp'
      BY <3>2, <3>3, <3>4 DEF Panel!KeepsUp, Panel!Polls
    <3> QED
      BY <3>5, <3>7, <3>8
  <2> QED
    BY <1>4, <2>5, <2>6, <2>7
<1> QED
  BY <1>3, <1>4

\* Polling and what the user does.
LEMMA PanelRefreshes ==
  ASSUME PanelInv, Panel!Poll \/ Panel!RefreshAll
  PROVE  PanelInv'
<1> USE DEF PanelInv
<1>0. UNCHANGED <<slot1, slot2, slot3, slot7, slot8>>
  BY DEF Panel!Poll, Panel!RefreshAll
<1>1. Panel!View' = Panel!View /\ Panel!Entry' = Panel!Entry
  BY <1>0, PanelSameRuns
<1>2. slot4' \in Panel!Discovery /\ Len(slot4'.answer) <= Len(slot1)
      /\ Len(slot4'.known) <= Len(slot1)
  <2>1. CASE Panel!Poll
    BY <2>1 DEF Panel!Poll, Panel!TypeOK
  <2>2. CASE Panel!RefreshAll
    <3>1. <<>> \in Seq(Panel!RunRow) /\ Len(<<>>) = 0 /\ Len(slot1) \in Nat
      BY DEF Panel!TypeOK
    <3> QED
      BY <2>2, <3>1 DEF Panel!RefreshAll, Panel!Discover, Panel!TypeOK, Panel!Discovery
  <2> QED
    BY <2>1, <2>2
<1>3. slot9' \in [{"turns", "trouble"} -> Int]
  BY DEF Panel!Poll, Panel!RefreshAll, Panel!Turn, Panel!TypeOK
<1>4. CASE slot3.selected # None /\ Panel!Refresh
  <2>1. slot5' = Append(Panel!Disposed, Panel!Detail(slot3.selected)) /\ slot6' = FALSE
    BY <1>4 DEF Panel!Refresh
  <2>2. slot3.selected \in DOMAIN slot1
    BY <1>4 DEF Panel!TypeOK, Panel!View
  <2>3. /\ slot5' \in Seq(Panel!Entry)
        /\ \A i \in DOMAIN slot5' : slot5'[i].active => slot5'[i].run = slot3.selected
        /\ \E i \in DOMAIN slot5' : slot5'[i].active
    BY <2>1, <2>2, PanelAsked
  <2>4. Panel!TypeOK'
    BY <1>0, <1>1, <1>2, <1>3, <2>1, <2>3 DEF Panel!TypeOK
  <2> QED
    BY <1>0, <2>1, <2>3, <2>4 DEF Panel!SelectedIsFollowed, Panel!KeepsUp, Panel!Loading
<1>5. CASE UNCHANGED <<slot5, slot6>>
  <2>1. Panel!TypeOK'
    BY <1>0, <1>1, <1>2, <1>3, <1>5 DEF Panel!TypeOK
  <2> QED
    BY <1>0, <1>5, <2>1
    DEF Panel!SelectedIsFollowed, Panel!KeepsUp, Panel!Loading, Panel!Polls
<1> QED
  BY <1>4, <1>5 DEF Panel!Poll, Panel!RefreshAll, Panel!SelectedIsFollowed

LEMMA PanelChooses ==
  ASSUME PanelInv, Panel!WatchLatest \/ \E r \in DOMAIN slot1 \cup {None} : Panel!SelectRun(r)
  PROVE  PanelInv'
<1> USE DEF PanelInv
<1>0. UNCHANGED <<slot1, slot2>>
  BY DEF Panel!WatchLatest, Panel!SelectRun
<1>1. Panel!View' = Panel!View /\ Panel!Entry' = Panel!Entry
  BY <1>0, PanelSameRuns
<1>2. slot4' \in Panel!Discovery /\ Len(slot4'.answer) <= Len(slot1)
      /\ Len(slot4'.known) <= Len(slot1)
  <2>1. <<>> \in Seq(Panel!RunRow) /\ Len(<<>>) = 0 /\ Len(slot1) \in Nat
    BY DEF Panel!TypeOK
  <2>2. slot4' = slot4 \/ slot4' = Panel!Discover(slot4.known)
    BY DEF Panel!WatchLatest, Panel!SelectRun
  <2>3. CASE slot4' = slot4
    BY <2>3 DEF Panel!TypeOK
  <2>4. CASE slot4' = Panel!Discover(slot4.known)
    BY <2>1, <2>4 DEF Panel!Discover, Panel!TypeOK, Panel!Discovery
  <2> QED
    BY <2>2, <2>3, <2>4
<1>3. slot9' \in [{"turns", "trouble"} -> Int]
  <2>1. slot9' = [slot9 EXCEPT !["turns"] = @ + 1]
    BY DEF Panel!WatchLatest, Panel!SelectRun, Panel!Turn
  <2>2. slot9 \in [{"turns", "trouble"} -> Int]
    BY DEF Panel!TypeOK
  <2> QED
    BY <2>1, <2>2
<1>4. CASE Panel!WatchLatest
  <2>1. UNCHANGED <<slot5, slot6, slot7>> /\ (slot8' = slot8 \/ slot8' = None)
    BY <1>4 DEF Panel!WatchLatest
  <2>2. slot3' \in Panel!View /\ slot3'.selected = slot3.selected /\ slot3'.error = slot3.error
    BY <1>4 DEF Panel!WatchLatest, Panel!View, Panel!TypeOK
  <2>3. Panel!TypeOK'
    BY <1>0, <1>1, <1>2, <1>3, <2>1, <2>2 DEF Panel!TypeOK
  <2> QED
    BY <2>1, <2>2, <2>3
    DEF Panel!SelectedIsFollowed, Panel!KeepsUp, Panel!Loading, Panel!Polls
<1>5. CASE \E r \in DOMAIN slot1 \cup {None} : Panel!SelectRun(r)
  <2>1. PICK r \in DOMAIN slot1 \cup {None} : Panel!SelectRun(r)
    BY <1>5
  <2>2. slot3' \in Panel!View /\ slot3'.selected = r /\ slot8' = None
    BY <2>1 DEF Panel!SelectRun, Panel!View, Panel!Fresh
  <2>3. /\ slot5' \in Seq(Panel!Entry)
        /\ \A i \in DOMAIN slot5' : slot5'[i].active => slot5'[i].run = r
        /\ slot6' = FALSE /\ slot7' = None
    BY <2>1, PanelSelects DEF Panel!SelectRun
  <2>4. Panel!TypeOK'
    BY <1>0, <1>1, <1>2, <1>3, <2>2, <2>3 DEF Panel!TypeOK
  <2> QED
    BY <2>2, <2>3, <2>4, ConsoleAssumption
    DEF Panel!SelectedIsFollowed, Panel!KeepsUp, Panel!Polls, Panel!Unfinished
<1> QED
  BY <1>4, <1>5

\* The panel is mounted anew, and the service goes on.
LEMMA PanelServed ==
  ASSUME PanelInv,
         \/ \E v \in Canvas : Panel!OthersRun(v) \/ Panel!RunRequested(v)
         \/ \E r \in DOMAIN slot1 : Panel!Progress(r)
         \/ Panel!ViewRunVersion
  PROVE  /\ slot1' \in Seq(Panel!RunRow) /\ DOMAIN slot1 \subseteq DOMAIN slot1'
         /\ Len(slot1) <= Len(slot1')
<1>0. slot1 \in Seq(Panel!RunRow) /\ Len(slot1) \in Nat /\ DOMAIN slot1 = 1..Len(slot1)
  BY DEF PanelInv, Panel!TypeOK
<1>1. CASE \E v \in Canvas : Panel!OthersRun(v) \/ Panel!RunRequested(v)
  <2>1. PICK v \in Canvas : slot1' = Append(slot1, [version |-> v, status |-> "pending"])
    BY <1>1 DEF Panel!OthersRun, Panel!RunRequested
  <2> DEFINE row == [version |-> v, status |-> "pending"]
  <2>2. row \in Panel!RunRow
    BY DEF Panel!RunRow, Panel!Status, Panel!Unfinished
  <2> HIDE DEF row
  <2>3. slot1' \in Seq(Panel!RunRow) /\ Len(slot1') = Len(slot1) + 1
        /\ DOMAIN slot1' = 1..(Len(slot1) + 1)
    BY <1>0, <2>1, <2>2, AppendProperties DEF row
  <2> QED
    BY <1>0, <2>3
<1>2. CASE \E r \in DOMAIN slot1 : Panel!Progress(r)
  <2>1. PICK r \in DOMAIN slot1 : Panel!Progress(r)
    BY <1>2
  <2> DEFINE row == [slot1[r] EXCEPT !.status = IF @ = "pending" THEN "running" ELSE "completed"]
  <2>2. slot1[r] \in Panel!RunRow
    BY <1>0
  <2>3. row \in Panel!RunRow
    BY <2>2 DEF Panel!RunRow, Panel!Status, Panel!Unfinished
  <2>4. slot1' = [slot1 EXCEPT ![r] = row]
    BY <2>1 DEF Panel!Progress
  <2> HIDE DEF row
  <2>5. slot1' \in Seq(Panel!RunRow) /\ Len(slot1') = Len(slot1)
    BY <1>0, <2>3, <2>4, ExceptSeq
  <2>6. DOMAIN slot1' = DOMAIN slot1
    BY <2>4
  <2> QED
    BY <1>0, <2>5, <2>6
<1>3. CASE Panel!ViewRunVersion
  BY <1>0, <1>3 DEF Panel!ViewRunVersion
<1> QED
  BY <1>1, <1>2, <1>3

LEMMA PanelMounts ==
  ASSUME PanelInv,
         \/ \E v \in Canvas : Panel!OthersRun(v) \/ Panel!RunRequested(v)
         \/ \E r \in DOMAIN slot1 : Panel!Progress(r)
         \/ Panel!ViewRunVersion
  PROVE  PanelInv'
<1> USE DEF PanelInv
<1>1. /\ slot1' \in Seq(Panel!RunRow) /\ Len(slot1) <= Len(slot1') /\ Len(slot1) \in Nat
      /\ Len(slot1') \in Nat /\ Panel!View \subseteq Panel!View'
      /\ Seq(Panel!Entry) \subseteq Seq(Panel!Entry)' /\ Panel!RunRow' = Panel!RunRow
  <2>1. slot1' \in Seq(Panel!RunRow) /\ DOMAIN slot1 \subseteq DOMAIN slot1'
        /\ Len(slot1) <= Len(slot1')
    BY PanelServed
  <2>2. Len(slot1) \in Nat /\ Len(slot1') \in Nat
    BY <2>1 DEF Panel!TypeOK
  <2> QED
    BY <2>1, <2>2, PanelMoreRuns
<1>2. CASE UNCHANGED <<slot2, slot3, slot4, slot5, slot6, slot7, slot8, slot9>>
  <2>1. Len(slot4.answer) \in Nat /\ Len(slot4.known) \in Nat
    BY DEF Panel!TypeOK, Panel!Discovery
  <2>2. Panel!TypeOK'
    BY <1>1, <1>2, <2>1 DEF Panel!TypeOK
  <2> QED
    BY <1>2, <2>2 DEF Panel!SelectedIsFollowed, Panel!KeepsUp, Panel!Loading, Panel!Polls
<1>3. CASE Panel!Mount /\ slot2' \in Canvas /\ slot9' \in [{"turns", "trouble"} -> Int]
  <2>1. slot3' \in Panel!View /\ slot3'.selected = None
    BY <1>3 DEF Panel!Mount, Panel!Fresh, Panel!View
  <2>2. slot4' \in Panel!Discovery /\ Len(slot4'.answer) = 0 /\ Len(slot4'.known) = 0
    BY <1>3 DEF Panel!Mount, Panel!Discover, Panel!Discovery
  <2>3. slot5' \in Seq(Panel!Entry) /\ \A i \in DOMAIN slot5' : ~slot5'[i].active
    BY <1>3, PanelDisposed DEF Panel!Mount
  <2>4. slot6' = FALSE /\ slot7' = None /\ slot8' = None
    BY <1>3 DEF Panel!Mount
  <2>5. Panel!TypeOK'
    <3>1. slot3' \in Panel!View' /\ slot5' \in Seq(Panel!Entry)'
      BY <1>1, <2>1, <2>3
    <3>2. Len(slot4'.answer) <= Len(slot1') /\ Len(slot4'.known) <= Len(slot1')
      BY <1>1, <2>2
    <3>3. slot6' \in BOOLEAN
      BY <2>4
    <3> QED
      BY <1>1, <1>3, <2>2, <2>4, <3>1, <3>2, <3>3 DEF Panel!TypeOK
  <2> QED
    BY <2>1, <2>3, <2>4, <2>5 DEF Panel!SelectedIsFollowed, Panel!KeepsUp
<1>4. CASE Panel!ViewRunVersion
  <2>1. slot2' \in Canvas /\ Panel!Mount
    BY <1>4, ConsoleAssumption DEF Panel!ViewRunVersion, Panel!TypeOK, Panel!View, Panel!Shot
  <2>2. slot9' \in [{"turns", "trouble"} -> Int]
    BY <1>4 DEF Panel!ViewRunVersion, Panel!Turn, Panel!TypeOK
  <2> QED
    BY <1>3, <2>1, <2>2
<1>5. CASE \E v \in Canvas : Panel!RunRequested(v)
  BY <1>3, <1>5 DEF Panel!RunRequested, Panel!TypeOK
<1>6. CASE (\E v \in Canvas : Panel!OthersRun(v)) \/ \E r \in DOMAIN slot1 : Panel!Progress(r)
  BY <1>2, <1>6 DEF Panel!OthersRun, Panel!Progress
<1> QED
  BY <1>4, <1>5, <1>6

LEMMA PanelSteps ==
  ASSUME PanelInv, Panel!Next \/ UNCHANGED Panel!vars
  PROVE  PanelInv'
<1>1. CASE Panel!Next
  BY <1>1, PanelDiscovers, PanelLoads, PanelRefreshes, PanelChooses, PanelMounts
  DEF Panel!Next
<1>2. CASE UNCHANGED Panel!vars
  <2>1. UNCHANGED <<slot1, slot2, slot3, slot4, slot5, slot6, slot7, slot8, slot9>>
    BY <1>2 DEF Panel!vars
  <2>2. Panel!View' = Panel!View /\ Panel!Entry' = Panel!Entry
    BY <2>1, PanelSameRuns
  <2> QED
    BY <2>1, <2>2 DEF PanelInv, Panel!TypeOK, Panel!SelectedIsFollowed, Panel!KeepsUp,
      Panel!Loading, Panel!Polls
<1> QED
  BY <1>1, <1>2

-----------------------------------------------------------------------------
(* The pages of somebody without a session.  slot1 to slot10 are account,  *)
(* links, place, form, post, orphans, modal, promise, spends and did.      *)

AccountsInv ==
  /\ Accounts!TypeOK /\ Accounts!LinksFit /\ Accounts!PostFits /\ Accounts!LinksTold
  /\ Accounts!AnswersTold /\ Accounts!PresentedPromised
  /\ Accounts!OutcomeIsTrue /\ Accounts!LinkPresentedOnce

\* The service only adds links, and ends those there are; accounts come to stay.
LinksGrown ==
  /\ slot2' \in Seq(Accounts!LinkRow) /\ Len(slot2') <= MaxLinks
  /\ \A i \in DOMAIN slot2 :
       /\ i \in DOMAIN slot2' /\ slot2'[i].email = slot2[i].email /\ slot2'[i].kind = slot2[i].kind
       /\ slot2[i].state = "used" => slot2'[i].state = "used"
AccountsGrown ==
  /\ slot1' \in [Email -> {"none", "unverified", "verified"}]
  /\ \A e \in Email : /\ slot1[e] # "none" => slot1'[e] # "none"
                      /\ slot1[e] = "verified" => slot1'[e] = "verified"
UsedIsVerified ==
  \A i \in DOMAIN slot2' : slot2'[i].kind = "verify" /\ slot2'[i].state = "used" =>
    slot1'[slot2'[i].email] = "verified"
Grown == LinksGrown /\ AccountsGrown /\ UsedIsVerified

LEMMA AccountsSame ==
  ASSUME Accounts!TypeOK, Accounts!LinksTold, UNCHANGED <<slot1, slot2>>
  PROVE  Grown
BY DEF Accounts!TypeOK, Accounts!LinksTold, Grown, LinksGrown, AccountsGrown, UsedIsVerified

LEMMA AccountsIssue ==
  ASSUME Accounts!TypeOK
  PROVE  \A e \in Email, kind \in {"verify", "reset", "code", "signup"} :
           Accounts!Issue(e, kind) =>
             /\ LinksGrown /\ Len(slot2') = Len(slot2) + 1 /\ Len(slot2) \in Nat
             /\ slot2'[Len(slot2) + 1] = [email |-> e, kind |-> kind, state |-> "valid"]
             /\ \A i \in DOMAIN slot2 : slot2'[i].state = "used" => slot2[i].state = "used"
<1> SUFFICES ASSUME NEW e \in Email, NEW kind \in {"verify", "reset", "code", "signup"},
                    Accounts!Issue(e, kind)
             PROVE  /\ LinksGrown /\ Len(slot2') = Len(slot2) + 1 /\ Len(slot2) \in Nat
                    /\ slot2'[Len(slot2) + 1] = [email |-> e, kind |-> kind, state |-> "valid"]
                    /\ \A i \in DOMAIN slot2 : slot2'[i].state = "used" => slot2[i].state = "used"
  OBVIOUS
<1> DEFINE row(i) == IF Accounts!Ended(slot2[i], e, kind) THEN [slot2[i] EXCEPT !.state = "expired"]
                     ELSE slot2[i]
           old == [i \in DOMAIN slot2 |-> row(i)]
           new == [email |-> e, kind |-> kind, state |-> "valid"]
<1>1. slot2 \in Seq(Accounts!LinkRow) /\ Len(slot2) \in Nat /\ DOMAIN slot2 = 1..Len(slot2)
  BY DEF Accounts!TypeOK
<1>2. Len(slot2) < MaxLinks /\ slot2' = Append(old, new)
  BY DEF Accounts!Issue
<1>3. \A i \in DOMAIN slot2 :
        /\ row(i) \in Accounts!LinkRow /\ row(i).email = slot2[i].email /\ row(i).kind = slot2[i].kind
        /\ row(i).state = "used" <=> slot2[i].state = "used"
  <2> TAKE i \in DOMAIN slot2
  <2>1. slot2[i] \in Accounts!LinkRow
    BY <1>1
  <2> QED
    BY <2>1 DEF Accounts!LinkRow, Accounts!Ended
<1>4. new \in Accounts!LinkRow
  BY DEF Accounts!LinkRow
<1> HIDE DEF row, new
<1>5. old \in Seq(Accounts!LinkRow) /\ Len(old) = Len(slot2)
  BY <1>1, <1>3, IsASeq
<1>6. \A i \in DOMAIN slot2 : old[i] = row(i)
  OBVIOUS
<1> HIDE DEF old
<1>7. /\ slot2' \in Seq(Accounts!LinkRow) /\ Len(slot2') = Len(slot2) + 1
      /\ DOMAIN slot2' = 1..(Len(slot2) + 1)
      /\ \A i \in 1..Len(slot2) : slot2'[i] = old[i]
      /\ slot2'[Len(slot2) + 1] = new
  BY <1>2, <1>4, <1>5, AppendProperties
<1>8. \A i \in DOMAIN slot2 : i \in DOMAIN slot2' /\ slot2'[i] = row(i)
  BY <1>1, <1>6, <1>7
<1>9. Len(slot2') <= MaxLinks
  BY <1>1, <1>2, <1>7, ConsoleAssumption
<1>10. LinksGrown
  BY <1>3, <1>7, <1>8, <1>9 DEF LinksGrown
<1> QED
  BY <1>1, <1>3, <1>7, <1>8, <1>10 DEF new

\* What an answer of the service says is so once the request is served.
LinkSent(e) == \E i \in DOMAIN slot2 : slot2[i].email = e /\ slot2[i].kind = "verify"
SentNext(e) == \E i \in DOMAIN slot2' : slot2'[i].email = e /\ slot2'[i].kind = "verify"
Truthful(request, answer) ==
  /\ request.kind = "register" =>
       slot1'[request.email] # "none" /\ (answer = "ok" => SentNext(request.email))
  /\ request.kind = "login" => answer # "exists"
  /\ request.kind = "login" /\ answer = "unverified" =>
       slot1'[request.email] # "none" /\ SentNext(request.email)
  /\ request.kind = "reset" => answer \in {"ok", "used", "expired"}
  /\ request.kind = "reset" /\ answer \in {"ok", "used"} => slot2'[request.link].state = "used"

\* An issued link does not make an account verified, nor does it need one to be.
LEMMA AccountsIssued ==
  ASSUME Accounts!TypeOK, Accounts!LinksTold
  PROVE  \A e \in Email, kind \in {"verify", "reset", "code", "signup"} :
           Accounts!Issue(e, kind) /\ AccountsGrown =>
             Grown /\ (kind = "verify" => SentNext(e))
<1> SUFFICES ASSUME NEW e \in Email, NEW kind \in {"verify", "reset", "code", "signup"},
                    Accounts!Issue(e, kind), AccountsGrown
             PROVE  Grown /\ (kind = "verify" => SentNext(e))
  OBVIOUS
<1>1. /\ LinksGrown /\ Len(slot2') = Len(slot2) + 1 /\ Len(slot2) \in Nat
      /\ slot2'[Len(slot2) + 1] = [email |-> e, kind |-> kind, state |-> "valid"]
      /\ \A i \in DOMAIN slot2 : slot2'[i].state = "used" => slot2[i].state = "used"
  BY AccountsIssue
<1>2. slot2 \in Seq(Accounts!LinkRow) /\ slot2' \in Seq(Accounts!LinkRow)
  BY <1>1 DEF Accounts!TypeOK, LinksGrown
<1>3. DOMAIN slot2 = 1..Len(slot2) /\ DOMAIN slot2' = 1..(Len(slot2) + 1)
  BY <1>1, <1>2
<1>4. UsedIsVerified
  <2> SUFFICES ASSUME NEW i \in DOMAIN slot2', slot2'[i].kind = "verify", slot2'[i].state = "used"
               PROVE  slot1'[slot2'[i].email] = "verified"
    BY DEF UsedIsVerified
  <2>1. i # Len(slot2) + 1
    BY <1>1
  <2>2. i \in DOMAIN slot2
    BY <1>1, <1>3, <2>1
  <2>3. slot2[i].kind = "verify" /\ slot2[i].state = "used" /\ slot2'[i].email = slot2[i].email
    BY <1>1, <2>2 DEF LinksGrown
  <2>4. slot1[slot2[i].email] = "verified"
    BY <2>2, <2>3 DEF Accounts!LinksTold
  <2>5. slot2[i] \in Accounts!LinkRow
    BY <1>2, <2>2
  <2>6. slot2[i].email \in Email
    BY <2>5 DEF Accounts!LinkRow
  <2> QED
    BY <2>3, <2>4, <2>6 DEF AccountsGrown
<1>5. ASSUME kind = "verify" PROVE SentNext(e)
  <2>1. Len(slot2) + 1 \in DOMAIN slot2'
    BY <1>1, <1>3
  <2> QED
    BY <1>1, <1>5, <2>1 DEF SentNext
<1> QED
  BY <1>1, <1>4, <1>5 DEF Grown

LEMMA AccountsRedeem ==
  ASSUME Accounts!TypeOK, Accounts!LinksTold
  PROVE  \A i \in DOMAIN slot2, answer \in Accounts!Answer :
           Accounts!Redeem(i, answer) =>
             /\ Grown /\ Len(slot2') = Len(slot2)
             /\ answer \in {"ok", "used"} => slot2'[i].state = "used"
             /\ answer \in {"ok", "used", "expired"} \/ (answer = "exists" /\ slot2[i].kind = "signup")
<1> SUFFICES ASSUME NEW i \in DOMAIN slot2, NEW answer \in Accounts!Answer,
                    Accounts!Redeem(i, answer)
             PROVE  /\ Grown /\ Len(slot2') = Len(slot2)
                    /\ answer \in {"ok", "used"} => slot2'[i].state = "used"
                    /\ \/ answer \in {"ok", "used", "expired"}
                       \/ answer = "exists" /\ slot2[i].kind = "signup"
  OBVIOUS
<1> DEFINE e == slot2[i].email
<1>1. slot2 \in Seq(Accounts!LinkRow) /\ Len(slot2) \in Nat /\ DOMAIN slot2 = 1..Len(slot2)
      /\ slot2[i] \in Accounts!LinkRow /\ Len(slot2) <= MaxLinks
      /\ slot1 \in [Email -> {"none", "unverified", "verified"}]
  BY DEF Accounts!TypeOK
<1>2. e \in Email /\ slot2[i].state \in {"valid", "used", "expired"}
  BY <1>1 DEF Accounts!LinkRow
<1>3. CASE UNCHANGED <<slot1, slot2>>
  <2>1. Grown
    BY <1>3, AccountsSame
  <2>2. /\ answer \in {"ok", "used"} => slot2'[i].state = "used"
        /\ \/ answer \in {"ok", "used", "expired"}
           \/ answer = "exists" /\ slot2[i].kind = "signup"
    <3>1. CASE slot2[i].state = "valid"
      <4>1. CASE answer = "exists" /\ slot2[i].kind = "signup"
        BY <4>1
      <4>2. CASE answer = "ok" /\ slot2' = [slot2 EXCEPT ![i].state = "used"]
        <5>1. slot2'[i].state = "used"
          BY <1>1, <4>2 DEF Accounts!LinkRow
        <5> QED
          BY <4>2, <5>1
      <4> QED
        BY <3>1, <4>1, <4>2 DEF Accounts!Redeem
    <3>2. CASE slot2[i].state # "valid"
      BY <1>2, <1>3, <3>2 DEF Accounts!Redeem
    <3> QED
      BY <3>1, <3>2
  <2> QED
    BY <1>3, <2>1, <2>2
<1>4. CASE /\ slot2[i].state = "valid" /\ answer = "ok"
           /\ slot2' = [slot2 EXCEPT ![i].state = "used"]
           /\ slot1' = IF slot2[i].kind \in {"verify", "signup"}
                       THEN [slot1 EXCEPT ![slot2[i].email] = "verified"] ELSE slot1
  <2> DEFINE row == [slot2[i] EXCEPT !.state = "used"]
  <2>1. row \in Accounts!LinkRow /\ row.email = e /\ row.kind = slot2[i].kind /\ row.state = "used"
    BY <1>1 DEF Accounts!LinkRow
  <2>2. slot2' = [slot2 EXCEPT ![i] = row]
    BY <1>4
  <2> HIDE DEF row
  <2>3. /\ slot2' \in Seq(Accounts!LinkRow) /\ Len(slot2') = Len(slot2) /\ DOMAIN slot2' = DOMAIN slot2
        /\ slot2'[i] = row /\ \A j \in DOMAIN slot2 : j # i => slot2'[j] = slot2[j]
    BY <1>1, <2>1, <2>2, ExceptSeq
  <2>4. LinksGrown
    BY <1>1, <2>1, <2>3 DEF LinksGrown
  <2>5. AccountsGrown
    BY <1>1, <1>2, <1>4 DEF AccountsGrown
  <2>6. UsedIsVerified
    <3> SUFFICES ASSUME NEW j \in DOMAIN slot2', slot2'[j].kind = "verify", slot2'[j].state = "used"
                 PROVE  slot1'[slot2'[j].email] = "verified"
      BY DEF UsedIsVerified
    <3>1. CASE j = i
      BY <1>1, <1>2, <1>4, <2>1, <2>3, <3>1
    <3>2. CASE j # i
      <4>1. slot2'[j] = slot2[j] /\ slot2[j] \in Accounts!LinkRow /\ j \in DOMAIN slot2
        BY <1>1, <2>3, <3>2
      <4>2. slot1[slot2[j].email] = "verified" /\ slot2[j].email \in Email
        BY <4>1 DEF Accounts!LinksTold, Accounts!LinkRow
      <4> QED
        BY <2>5, <4>1, <4>2 DEF AccountsGrown
    <3> QED
      BY <3>1, <3>2
  <2> QED
    BY <1>4, <2>1, <2>3, <2>4, <2>5, <2>6 DEF Grown
<1> QED
  BY <1>3, <1>4 DEF Accounts!Redeem

LEMMA AccountsRegister ==
  ASSUME Accounts!TypeOK, Accounts!LinksTold
  PROVE  \A e \in Email, answer \in Accounts!Answer :
           Accounts!Register(e, answer) =>
             /\ Grown /\ answer \in {"ok", "exists"} /\ slot1'[e] # "none"
             /\ answer = "ok" => SentNext(e)
<1> SUFFICES ASSUME NEW e \in Email, NEW answer \in Accounts!Answer, Accounts!Register(e, answer)
             PROVE  /\ Grown /\ answer \in {"ok", "exists"} /\ slot1'[e] # "none"
                    /\ answer = "ok" => SentNext(e)
  OBVIOUS
<1>1. slot1 \in [Email -> {"none", "unverified", "verified"}]
  BY DEF Accounts!TypeOK
<1>2. CASE slot1[e] = "none"
  <2>1. answer = "ok" /\ slot1' = [slot1 EXCEPT ![e] = "unverified"] /\ Accounts!Issue(e, "verify")
    BY <1>2 DEF Accounts!Register
  <2>2. AccountsGrown
    BY <1>1, <1>2, <2>1 DEF AccountsGrown
  <2> QED
    BY <1>1, <2>1, <2>2, AccountsIssued
<1>3. CASE slot1[e] # "none"
  <2>1. answer = "exists" /\ UNCHANGED <<slot1, slot2>>
    BY <1>3 DEF Accounts!Register
  <2> QED
    BY <1>3, <2>1, AccountsSame
<1> QED
  BY <1>2, <1>3

LEMMA AccountsLogin ==
  ASSUME Accounts!TypeOK, Accounts!LinksTold
  PROVE  \A e \in Email, answer \in Accounts!Answer :
           Accounts!Login(e, answer) =>
             /\ Grown /\ answer # "exists"
             /\ answer = "unverified" => slot1'[e] # "none" /\ SentNext(e)
<1> SUFFICES ASSUME NEW e \in Email, NEW answer \in Accounts!Answer, Accounts!Login(e, answer)
             PROVE  /\ Grown /\ answer # "exists"
                    /\ answer = "unverified" => slot1'[e] # "none" /\ SentNext(e)
  OBVIOUS
<1>1. slot1 \in [Email -> {"none", "unverified", "verified"}] /\ slot1' = slot1
  BY DEF Accounts!TypeOK, Accounts!Login
<1>2. CASE answer \in {"invalid", "ok"} /\ slot2' = slot2
  BY <1>1, <1>2, AccountsSame
<1>3. CASE slot1[e] = "unverified" /\ answer = "unverified" /\ Accounts!Issue(e, "verify")
  <2>1. AccountsGrown
    BY <1>1 DEF AccountsGrown
  <2> QED
    BY <1>1, <1>3, <2>1, AccountsIssued
<1> QED
  BY <1>2, <1>3 DEF Accounts!Login

LEMMA AccountsAsk ==
  ASSUME Accounts!TypeOK, Accounts!LinksTold
  PROVE  \A e \in Email, answer \in Accounts!Answer :
           Accounts!Resend(e, answer) \/ Accounts!Forgot(e, answer) => Grown /\ answer = "ok"
<1> SUFFICES ASSUME NEW e \in Email, NEW answer \in Accounts!Answer,
                    Accounts!Resend(e, answer) \/ Accounts!Forgot(e, answer)
             PROVE  Grown /\ answer = "ok"
  OBVIOUS
<1>1. slot1' = slot1 /\ answer = "ok"
      /\ (slot2' = slot2 \/ \E kind \in {"verify", "reset"} : Accounts!Issue(e, kind))
  BY DEF Accounts!Resend, Accounts!Forgot
<1>2. AccountsGrown
  BY <1>1 DEF AccountsGrown, Accounts!TypeOK
<1> QED
  BY <1>1, <1>2, AccountsSame, AccountsIssued

LEMMA AccountsServes ==
  ASSUME Accounts!TypeOK, Accounts!LinksTold
  PROVE  \A request \in Accounts!Query, answer \in Accounts!Answer :
           Accounts!Fits(request) /\ Accounts!Serve(request, answer) =>
             Grown /\ Truthful(request, answer)
<1> SUFFICES ASSUME NEW request \in Accounts!Query, NEW answer \in Accounts!Answer,
                    Accounts!Fits(request), Accounts!Serve(request, answer)
             PROVE  Grown /\ Truthful(request, answer)
  OBVIOUS
<1>1. CASE request.kind = "register"
  <2>1. request.email \in Email /\ Accounts!Register(request.email, answer)
    BY <1>1 DEF Accounts!Fits, Accounts!Serve
  <2> QED
    BY <1>1, <2>1, AccountsRegister DEF Truthful
<1>2. CASE request.kind = "login"
  <2>1. request.email \in Email /\ Accounts!Login(request.email, answer)
    BY <1>2 DEF Accounts!Fits, Accounts!Serve
  <2> QED
    BY <1>2, <2>1, AccountsLogin DEF Truthful
<1>3. CASE request.kind \in {"forgot", "resend"}
  <2>1. /\ request.email \in Email
        /\ Accounts!Resend(request.email, answer) \/ Accounts!Forgot(request.email, answer)
    BY <1>3 DEF Accounts!Fits, Accounts!Serve
  <2> QED
    BY <1>3, <2>1, AccountsAsk DEF Truthful
<1>4. CASE request.kind \in {"reset", "complete"}
  <2>1. /\ request.link \in DOMAIN slot2 /\ Accounts!Redeem(request.link, answer)
        /\ request.kind = "reset" => Accounts!PageOf(slot2[request.link].kind) = "reset"
    BY <1>4 DEF Accounts!Fits, Accounts!Serve, Accounts!OfPage
  <2>2. request.kind = "reset" => slot2[request.link].kind # "signup"
    BY <2>1 DEF Accounts!PageOf
  <2> QED
    BY <1>4, <2>1, <2>2, AccountsRedeem DEF Truthful
<1>5. CASE request.kind = "me"
  <2>1. UNCHANGED <<slot1, slot2>>
    BY <1>5 DEF Accounts!Serve
  <2> QED
    BY <1>5, <2>1, AccountsSame DEF Truthful
<1> QED
  BY <1>1, <1>2, <1>3, <1>4, <1>5 DEF Accounts!Serve

\* What was so stays so while the service grows.
NextPage(page, i) ==
  page \in {"verify", "reset", "callback", "setup"} =>
    i \in DOMAIN slot2' /\ Accounts!PageOf(slot2'[i].kind) = page
NextFits(request) ==
  /\ request.kind # "none" => request.email \in Email
  /\ request.kind = "reset" => NextPage("reset", request.link)
  /\ request.kind = "complete" => NextPage("setup", request.link)

LEMMA AccountsCarry ==
  ASSUME AccountsInv, Grown
  PROVE  /\ \A page, i : Accounts!OfPage(page, i) => NextPage(page, i)
         /\ \A request : Accounts!Fits(request) => NextFits(request)
         /\ \A e : LinkSent(e) => SentNext(e)
         /\ \A i \in DOMAIN slot2 : slot2[i].state = "used" => slot2'[i].state = "used"
         /\ \A e \in Email : slot1[e] # "none" => slot1'[e] # "none"
<1>1. \A page, i : Accounts!OfPage(page, i) => NextPage(page, i)
  BY DEF Grown, LinksGrown, Accounts!OfPage, NextPage
<1>2. \A request : Accounts!Fits(request) => NextFits(request)
  BY <1>1 DEF Accounts!Fits, NextFits
<1>3. \A e : LinkSent(e) => SentNext(e)
  BY DEF Grown, LinksGrown, LinkSent, SentNext
<1>4. \A i \in DOMAIN slot2 : slot2[i].state = "used" => slot2'[i].state = "used"
  BY DEF Grown, LinksGrown
<1> QED
  BY <1>1, <1>2, <1>3, <1>4 DEF Grown, AccountsGrown

LEMMA AccountsNext ==
  ASSUME Grown
  PROVE  /\ \A page, i : NextPage(page, i) => (Accounts!OfPage(page, i))'
         /\ \A request : NextFits(request) => (Accounts!Fits(request))'
         /\ \A e : SentNext(e) => (Accounts!HasLink(e))'
<1>1. \A page, i : NextPage(page, i) => (Accounts!OfPage(page, i))'
  BY DEF Accounts!OfPage, NextPage
<1>2. \A request : NextFits(request) => (Accounts!Fits(request))'
  BY <1>1 DEF Accounts!Fits, NextFits, Accounts!OfPage, NextPage
<1>3. \A e : SentNext(e) => (Accounts!HasLink(e))'
  BY DEF SentNext, Accounts!HasLink
<1> QED
  BY <1>1, <1>2, <1>3

LEMMA AccountsStay ==
  ASSUME AccountsInv, Grown
  PROVE  /\ UNCHANGED <<slot3, slot5, slot6, slot7, slot8>> => Accounts!LinksFit'
         /\ /\ slot3' = slot3 /\ slot7'.request.kind \in {"none", "resend"}
            /\ \/ slot5' = slot5 /\ slot4'.email = slot4.email
               \/ slot5'.kind \in {"none", "me"}
            => Accounts!PostFits'
         /\ UNCHANGED slot8 => Accounts!LinksTold'
         /\ /\ slot3' = slot3 /\ slot7'.email = slot7.email
            /\ slot5' = slot5 \/ slot5'.answer = "none"
            /\ slot4'.outcome = slot4.outcome \/ slot4'.outcome # "unverified"
            => Accounts!AnswersTold'
         /\ UNCHANGED <<slot8, slot9>> => Accounts!PresentedPromised' /\ Accounts!LinkPresentedOnce'
         /\ /\ slot3' = slot3 /\ slot7'.email = slot7.email /\ (slot7'.open => slot7.open)
            /\ \/ slot4'.outcome = slot4.outcome /\ slot4'.email = slot4.email
               \/ slot4'.outcome \in {"none", "failed"}
            => Accounts!OutcomeIsTrue'
<1> USE DEF AccountsInv
<1>1. ASSUME UNCHANGED <<slot3, slot5, slot6, slot7, slot8>> PROVE Accounts!LinksFit'
  <2>1. /\ NextPage(slot3.page, slot3.link) /\ NextPage(slot3.back[1], slot3.back[2])
        /\ \A request \in slot6 \cup {slot5, slot7.request} : NextFits(request)
    BY AccountsCarry DEF Accounts!LinksFit
  <2>2. \A i \in 1..MaxLinks : slot8[i] # "none" =>
          i \in DOMAIN slot2' /\ slot2'[i].kind \in {"verify", "code"}
    BY DEF Accounts!LinksFit, Grown, LinksGrown
  <2> QED
    BY <1>1, <2>1, <2>2
       DEF Accounts!LinksFit, Accounts!OfPage, Accounts!Fits, NextPage, NextFits
<1>2. ASSUME slot3' = slot3, slot7'.request.kind \in {"none", "resend"},
             \/ slot5' = slot5 /\ slot4'.email = slot4.email
             \/ slot5'.kind \in {"none", "me"}
      PROVE  Accounts!PostFits'
  BY <1>2 DEF Accounts!PostFits
<1>3. ASSUME UNCHANGED slot8 PROVE Accounts!LinksTold'
  <2>1. ASSUME NEW i \in DOMAIN slot2', slot8[i] \in {"ok", "used"} PROVE slot2'[i].state = "used"
    <3>1. i \in 1..MaxLinks
      <4>1. i \in 1..Len(slot2') /\ Len(slot2') \in Nat /\ Len(slot2') <= MaxLinks
        BY DEF Grown, LinksGrown
      <4> QED
        BY <4>1, ConsoleAssumption
    <3>2. i \in DOMAIN slot2
      BY <2>1, <3>1 DEF Accounts!LinksFit
    <3> QED
      BY <2>1, <3>2 DEF Accounts!LinksTold, Grown, LinksGrown
  <2> QED
    BY <1>3, <2>1 DEF Accounts!LinksTold, Grown, UsedIsVerified
<1>4. ASSUME slot3' = slot3, slot7'.email = slot7.email,
             slot5' = slot5 \/ slot5'.answer = "none",
             slot4'.outcome = slot4.outcome \/ slot4'.outcome # "unverified"
      PROVE  Accounts!AnswersTold'
  <2>1. slot5 \in Accounts!Query /\ Accounts!Fits(slot5)
    BY DEF Accounts!TypeOK, Accounts!LinksFit
  <2>2. slot5.kind = "register" /\ slot5.answer # "none" =>
          slot1'[slot5.email] # "none" /\ (slot5.answer = "ok" => SentNext(slot5.email))
    BY <1>4, <2>1, AccountsCarry DEF Accounts!AnswersTold, Accounts!Fits, Accounts!HasLink, LinkSent, SentNext
  <2>3. /\ slot5.kind = "login" => slot5.answer # "exists"
        /\ slot5.kind = "login" /\ slot5.answer = "unverified" =>
             slot1'[slot5.email] # "none" /\ SentNext(slot5.email)
    BY <1>4, <2>1, AccountsCarry DEF Accounts!AnswersTold, Accounts!Fits, Accounts!HasLink, LinkSent, SentNext
  <2>4. /\ slot5.kind = "reset" => slot5.answer \in {"none", "ok", "used", "expired"}
        /\ slot5.kind = "reset" /\ slot5.answer \in {"ok", "used"} => slot2'[slot5.link].state = "used"
    BY <2>1, AccountsCarry DEF Accounts!AnswersTold, Accounts!Fits, Accounts!OfPage
  <2>5. slot3.page = "login" /\ slot4.outcome = "unverified" => SentNext(slot7'.email)
    BY <1>4, AccountsCarry DEF Accounts!AnswersTold, Accounts!HasLink, LinkSent, SentNext
  <2> QED
    BY <1>4, <2>2, <2>3, <2>4, <2>5 DEF Accounts!AnswersTold, Accounts!HasLink, LinkSent, SentNext
<1>5. ASSUME UNCHANGED <<slot8, slot9>>
      PROVE  Accounts!PresentedPromised' /\ Accounts!LinkPresentedOnce'
  BY <1>5 DEF Accounts!PresentedPromised, Accounts!LinkPresentedOnce
<1>6. ASSUME slot3' = slot3, slot7'.email = slot7.email, slot7'.open => slot7.open,
             \/ slot4'.outcome = slot4.outcome /\ slot4'.email = slot4.email
             \/ slot4'.outcome \in {"none", "failed"}
      PROVE  Accounts!OutcomeIsTrue'
  <2>1. slot4 \in Accounts!Form /\ slot4.email \in Email
    BY DEF Accounts!TypeOK, Accounts!Form
  <2>2. ASSUME slot3.page \in {"verify", "reset"}, slot4.outcome \in {"ok", "used"}
        PROVE  /\ slot2'[slot3.link].state = "used"
               /\ slot3.page = "verify" => slot1'[slot2'[slot3.link].email] = "verified"
    <3>1. slot3.link \in DOMAIN slot2 /\ slot2[slot3.link].state = "used"
          /\ Accounts!PageOf(slot2[slot3.link].kind) = slot3.page
      BY <2>2 DEF Accounts!LinksFit, Accounts!OfPage, Accounts!OutcomeIsTrue
    <3>2. /\ slot3.link \in DOMAIN slot2' /\ slot2'[slot3.link].state = "used"
          /\ slot2'[slot3.link].kind = slot2[slot3.link].kind
      BY <3>1 DEF Grown, LinksGrown
    <3>3. slot2[slot3.link].kind \in {"verify", "reset", "code", "signup"}
      <4>1. slot2[slot3.link] \in Accounts!LinkRow
        BY <3>1 DEF Accounts!TypeOK
      <4> QED
        BY <4>1 DEF Accounts!LinkRow
    <3>4. slot3.page = "verify" => slot2'[slot3.link].kind = "verify"
      BY <3>1, <3>2, <3>3 DEF Accounts!PageOf
    <3> QED
      BY <3>2, <3>4 DEF Grown, UsedIsVerified
  <2>3. slot4.outcome \in {"exists", "unverified"} /\ slot3.page # "setup" => slot1'[slot4.email] # "none"
    BY <2>1, AccountsCarry DEF Accounts!OutcomeIsTrue
  <2>4. slot7.open => SentNext(slot7'.email)
    BY <1>6, AccountsCarry DEF Accounts!OutcomeIsTrue, LinkSent, SentNext
  <2> QED
    BY <1>6, <2>2, <2>3, <2>4 DEF Accounts!OutcomeIsTrue, LinkSent, SentNext
<1> QED
  BY <1>1, <1>2, <1>3, <1>4, <1>5, <1>6

LEMMA AccountsAnswer ==
  \A q \in Accounts!Query, a \in Accounts!Answer \cup {"none"} :
    /\ [q EXCEPT !.answer = a] \in Accounts!Query
    /\ [q EXCEPT !.answer = a].kind = q.kind /\ [q EXCEPT !.answer = a].email = q.email
    /\ [q EXCEPT !.answer = a].link = q.link /\ [q EXCEPT !.answer = a].answer = a
BY DEF Accounts!Query

LEMMA AccountsTypes ==
  ASSUME Accounts!TypeOK, Grown, slot3' \in Accounts!Place, slot4' \in Accounts!Form,
         slot5' \in Accounts!Query, slot6' \subseteq Accounts!Query, slot7' \in Accounts!Modal,
         slot8' \in [1..MaxLinks -> {"none", "sent", "failed", "ok", "used", "expired"}],
         slot9' \in [1..MaxLinks -> Nat], slot10' \in [{"posts", "moves", "outages"} -> Int]
  PROVE  Accounts!TypeOK'
BY DEF Accounts!TypeOK, Grown, LinksGrown, AccountsGrown

LEMMA AccountsFits ==
  ASSUME Grown, NextPage(slot3'.page, slot3'.link), NextPage(slot3'.back[1], slot3'.back[2]),
         \A request \in slot6' \cup {slot5', slot7'.request} : NextFits(request),
         \A i \in 1..MaxLinks : slot8'[i] # "none" =>
           i \in DOMAIN slot2' /\ slot2'[i].kind \in {"verify", "code"}
  PROVE  Accounts!LinksFit'
BY DEF Accounts!LinksFit, Accounts!OfPage, Accounts!Fits, NextPage, NextFits

\* What LinksFit says is so of the links there are after a step as well.
LEMMA AccountsFitted ==
  ASSUME AccountsInv, Grown
  PROVE  /\ NextPage(slot3.page, slot3.link) /\ NextPage(slot3.back[1], slot3.back[2])
         /\ \A request \in slot6 \cup {slot5, slot7.request} : NextFits(request)
         /\ \A i \in 1..MaxLinks : slot8[i] # "none" =>
              i \in DOMAIN slot2' /\ slot2'[i].kind \in {"verify", "code"}
<1>1. /\ NextPage(slot3.page, slot3.link) /\ NextPage(slot3.back[1], slot3.back[2])
      /\ \A request \in slot6 \cup {slot5, slot7.request} : NextFits(request)
  BY AccountsCarry DEF AccountsInv, Accounts!LinksFit
<1>2. \A i \in 1..MaxLinks : slot8[i] # "none" =>
        i \in DOMAIN slot2' /\ slot2'[i].kind \in {"verify", "code"}
  BY DEF AccountsInv, Accounts!LinksFit, Grown, LinksGrown
<1> QED
  BY <1>1, <1>2

LEMMA AccountsPostHandled ==
  ASSUME AccountsInv, Accounts!PostHandled
  PROVE  AccountsInv'
<1>1. PICK answer \in Accounts!Answer :
        Accounts!Serve(slot5, answer) /\ slot5' = [slot5 EXCEPT !.answer = answer]
  BY DEF Accounts!PostHandled
<1>2. UNCHANGED <<slot3, slot4, slot6, slot7, slot8, slot9, slot10>>
  BY DEF Accounts!PostHandled
<1>3. slot5 \in Accounts!Query /\ Accounts!Fits(slot5)
  BY DEF AccountsInv, Accounts!TypeOK, Accounts!LinksFit
<1>4. Grown /\ Truthful(slot5, answer)
  BY <1>1, <1>3, AccountsServes DEF AccountsInv
<1>5. /\ slot5' \in Accounts!Query /\ slot5'.kind = slot5.kind /\ slot5'.email = slot5.email
      /\ slot5'.link = slot5.link /\ slot5'.answer = answer
  BY <1>1, <1>3, AccountsAnswer
<1>6. Accounts!TypeOK'
  BY <1>2, <1>4, <1>5, AccountsTypes DEF AccountsInv, Accounts!TypeOK
<1>7. Accounts!LinksFit'
  <2>1. NextFits(slot5')
    BY <1>4, <1>5, AccountsFitted DEF NextFits
  <2> QED
    BY <1>2, <1>4, <2>1, AccountsFitted, AccountsFits
<1>8. Accounts!PostFits'
  BY <1>2, <1>5 DEF AccountsInv, Accounts!PostFits
<1>9. Accounts!AnswersTold'
  <2>1. slot3.page = "login" /\ slot4.outcome = "unverified" => SentNext(slot7.email)
    BY <1>4, AccountsCarry DEF AccountsInv, Accounts!AnswersTold, Accounts!HasLink, LinkSent
  <2> QED
    BY <1>2, <1>4, <1>5, <2>1 DEF Accounts!AnswersTold, Truthful, Accounts!HasLink, SentNext
<1> QED
  BY <1>2, <1>4, <1>6, <1>7, <1>8, <1>9, AccountsStay DEF AccountsInv

LEMMA AccountsOrphanHandled ==
  ASSUME AccountsInv, Accounts!OrphanHandled
  PROVE  AccountsInv'
<1>1. PICK request \in slot6, answer \in Accounts!Answer :
        /\ Accounts!Serve(request, answer)
        /\ slot6' = (slot6 \ {request}) \cup {[request EXCEPT !.answer = answer]}
  BY DEF Accounts!OrphanHandled
<1>2. UNCHANGED <<slot3, slot4, slot5, slot7, slot8, slot9, slot10>>
  BY DEF Accounts!OrphanHandled
<1>3. request \in Accounts!Query /\ Accounts!Fits(request)
  BY DEF AccountsInv, Accounts!TypeOK, Accounts!LinksFit
<1>4. Grown
  BY <1>1, <1>3, AccountsServes DEF AccountsInv
<1> DEFINE told == [request EXCEPT !.answer = answer]
<1>5. told \in Accounts!Query /\ told.kind = request.kind /\ told.email = request.email
      /\ told.link = request.link
  BY <1>3, AccountsAnswer
<1>6. slot6' = (slot6 \ {request}) \cup {told}
  BY <1>1
<1> HIDE DEF told
<1>7. Accounts!TypeOK'
  <2>1. slot6' \subseteq Accounts!Query
    BY <1>5, <1>6 DEF AccountsInv, Accounts!TypeOK
  <2> QED
    BY <1>2, <1>4, <2>1, AccountsTypes DEF AccountsInv, Accounts!TypeOK
<1>8. Accounts!LinksFit'
  <2>1. NextFits(told)
    BY <1>4, <1>5, AccountsFitted DEF NextFits
  <2> QED
    BY <1>2, <1>4, <1>6, <2>1, AccountsFitted, AccountsFits
<1> QED
  BY <1>2, <1>4, <1>7, <1>8, AccountsStay DEF AccountsInv, Accounts!PostFits

LEMMA AccountsResendHandled ==
  ASSUME AccountsInv, Accounts!ResendHandled
  PROVE  AccountsInv'
<1>1. PICK answer \in Accounts!Answer :
        /\ Accounts!Resend(slot7.request.email, answer)
        /\ slot7' = [slot7 EXCEPT !.request.answer = answer]
  BY DEF Accounts!ResendHandled
<1>2. /\ UNCHANGED <<slot3, slot4, slot5, slot6, slot8, slot9, slot10>>
      /\ slot7.request.kind = "resend"
  BY DEF Accounts!ResendHandled
<1>3. slot7 \in Accounts!Modal /\ slot7.request \in Accounts!Query /\ Accounts!Fits(slot7.request)
  BY DEF AccountsInv, Accounts!TypeOK, Accounts!LinksFit, Accounts!Modal
<1>4. Grown
  BY <1>1, <1>2, <1>3, AccountsAsk DEF AccountsInv, Accounts!Fits
<1> DEFINE told == [slot7.request EXCEPT !.answer = answer]
<1>5. told \in Accounts!Query /\ told.kind = slot7.request.kind
      /\ told.email = slot7.request.email /\ told.link = slot7.request.link
  BY <1>3, AccountsAnswer
<1>6. slot7' = [slot7 EXCEPT !.request = told]
  BY <1>1
<1> HIDE DEF told
<1>7. /\ slot7' \in Accounts!Modal /\ slot7'.request = told /\ slot7'.open = slot7.open
      /\ slot7'.email = slot7.email
  BY <1>3, <1>5, <1>6 DEF Accounts!Modal
<1>8. Accounts!TypeOK'
  BY <1>2, <1>4, <1>7, AccountsTypes DEF AccountsInv, Accounts!TypeOK
<1>9. Accounts!LinksFit'
  <2>1. NextFits(told)
    BY <1>4, <1>5, AccountsFitted DEF NextFits
  <2> QED
    BY <1>2, <1>4, <1>7, <2>1, AccountsFitted, AccountsFits
<1> QED
  BY <1>2, <1>4, <1>7, <1>5, <1>8, <1>9, AccountsStay DEF AccountsInv

LEMMA AccountsPromiseHandled ==
  ASSUME AccountsInv
  PROVE  \A i \in DOMAIN slot2 : Accounts!PromiseHandled(i) => AccountsInv'
<1> SUFFICES ASSUME NEW i \in DOMAIN slot2, Accounts!PromiseHandled(i) PROVE AccountsInv'
  OBVIOUS
<1>1. PICK answer \in Accounts!Answer :
        Accounts!Redeem(i, answer) /\ slot8' = [slot8 EXCEPT ![i] = answer]
  BY DEF Accounts!PromiseHandled
<1>2. UNCHANGED <<slot3, slot4, slot5, slot6, slot7, slot9, slot10>> /\ slot8[i] = "sent"
  BY DEF Accounts!PromiseHandled
<1>3. /\ Len(slot2) \in Nat /\ Len(slot2) <= MaxLinks /\ DOMAIN slot2 = 1..Len(slot2)
      /\ slot8 \in [1..MaxLinks -> {"none", "sent", "failed", "ok", "used", "expired"}]
  BY DEF AccountsInv, Accounts!TypeOK
<1>4. i \in 1..MaxLinks
  BY <1>3, ConsoleAssumption
<1>5. slot2[i].kind \in {"verify", "code"}
  BY <1>2, <1>4 DEF AccountsInv, Accounts!LinksFit
<1>6. /\ Grown /\ Len(slot2') = Len(slot2) /\ answer \in {"ok", "used", "expired"}
      /\ answer \in {"ok", "used"} => slot2'[i].state = "used"
  BY <1>1, <1>5, AccountsRedeem DEF AccountsInv
<1>7. Accounts!TypeOK'
  <2>1. slot8' \in [1..MaxLinks -> {"none", "sent", "failed", "ok", "used", "expired"}]
    BY <1>1, <1>3, <1>6
  <2> QED
    BY <1>2, <1>6, <2>1, AccountsTypes DEF AccountsInv, Accounts!TypeOK
<1>8. \A k \in 1..MaxLinks : slot8'[k] = IF k = i THEN answer ELSE slot8[k]
  BY <1>1, <1>3
<1>9. Accounts!LinksFit'
  <2>1. \A k \in 1..MaxLinks : slot8'[k] # "none" =>
          k \in DOMAIN slot2' /\ slot2'[k].kind \in {"verify", "code"}
    BY <1>2, <1>6, <1>8, AccountsFitted
  <2> QED
    BY <1>2, <1>6, <2>1, AccountsFitted, AccountsFits
<1>10. Accounts!LinksTold'
  <2>1. \A k \in DOMAIN slot2' : k \in 1..MaxLinks /\ k \in DOMAIN slot2
    <3>1. DOMAIN slot2' = 1..Len(slot2)
      BY <1>6 DEF Grown, LinksGrown
    <3> QED
      BY <1>3, <3>1, ConsoleAssumption
  <2>2. ASSUME NEW k \in DOMAIN slot2', slot8'[k] \in {"ok", "used"} PROVE slot2'[k].state = "used"
    BY <1>6, <1>8, <2>1, <2>2 DEF AccountsInv, Accounts!LinksTold, Grown, LinksGrown
  <2> QED
    BY <1>6, <2>2 DEF Accounts!LinksTold, Grown, UsedIsVerified
<1>11. Accounts!PresentedPromised' /\ Accounts!LinkPresentedOnce'
  BY <1>2, <1>6, <1>8 DEF AccountsInv, Accounts!PresentedPromised, Accounts!LinkPresentedOnce
<1> QED
  BY <1>2, <1>6, <1>7, <1>9, <1>10, <1>11, AccountsStay DEF AccountsInv, Accounts!PostFits

LEMMA AccountsLinkExpires ==
  ASSUME AccountsInv
  PROVE  \A i \in DOMAIN slot2 : Accounts!LinkExpires(i) => AccountsInv'
<1> SUFFICES ASSUME NEW i \in DOMAIN slot2, Accounts!LinkExpires(i) PROVE AccountsInv'
  OBVIOUS
<1>1. /\ slot2[i].state = "valid" /\ slot2' = [slot2 EXCEPT ![i].state = "expired"]
      /\ slot10' = [slot10 EXCEPT !["outages"] = @ + 1]
      /\ UNCHANGED <<slot1, slot3, slot4, slot5, slot6, slot7, slot8, slot9>>
  BY DEF Accounts!LinkExpires, Accounts!Did
<1>2. slot2 \in Seq(Accounts!LinkRow) /\ Len(slot2) \in Nat /\ DOMAIN slot2 = 1..Len(slot2)
      /\ slot2[i] \in Accounts!LinkRow /\ Len(slot2) <= MaxLinks
  BY DEF AccountsInv, Accounts!TypeOK
<1> DEFINE row == [slot2[i] EXCEPT !.state = "expired"]
<1>3. row \in Accounts!LinkRow /\ row.email = slot2[i].email /\ row.kind = slot2[i].kind
      /\ row.state = "expired"
  BY <1>2 DEF Accounts!LinkRow
<1>4. slot2' = [slot2 EXCEPT ![i] = row]
  BY <1>1
<1> HIDE DEF row
<1>5. /\ slot2' \in Seq(Accounts!LinkRow) /\ Len(slot2') = Len(slot2) /\ DOMAIN slot2' = DOMAIN slot2
      /\ slot2'[i] = row /\ \A j \in DOMAIN slot2 : j # i => slot2'[j] = slot2[j]
  BY <1>2, <1>3, <1>4, ExceptSeq
<1>6. LinksGrown
  BY <1>1, <1>2, <1>3, <1>5 DEF LinksGrown
<1>7. AccountsGrown
  BY <1>1 DEF AccountsGrown, AccountsInv, Accounts!TypeOK
<1>8. UsedIsVerified
  <2> SUFFICES ASSUME NEW j \in DOMAIN slot2', slot2'[j].kind = "verify", slot2'[j].state = "used"
               PROVE  slot1'[slot2'[j].email] = "verified"
    BY DEF UsedIsVerified
  <2>1. j # i /\ slot2'[j] = slot2[j] /\ j \in DOMAIN slot2
    BY <1>3, <1>5
  <2> QED
    BY <1>1, <2>1 DEF AccountsInv, Accounts!LinksTold
<1>9. Grown
  BY <1>6, <1>7, <1>8 DEF Grown
<1>10. Accounts!TypeOK'
  <2>1. slot10' \in [{"posts", "moves", "outages"} -> Int]
    BY <1>1 DEF AccountsInv, Accounts!TypeOK
  <2> QED
    BY <1>1, <1>9, <2>1, AccountsTypes DEF AccountsInv, Accounts!TypeOK
<1> QED
  BY <1>1, <1>9, <1>10, AccountsStay DEF AccountsInv, Accounts!PostFits

\* The actions of the pages leave the service alone.
LEMMA AccountsQuiet ==
  ASSUME AccountsInv, UNCHANGED <<slot1, slot2>>
  PROVE  Grown
BY AccountsSame DEF AccountsInv

LEMMA AccountsDid ==
  ASSUME AccountsInv
  PROVE  \A limit : \A kind \in {"posts", "moves", "outages"} :
           Accounts!Did(kind, limit) => slot10' \in [{"posts", "moves", "outages"} -> Int]
BY DEF AccountsInv, Accounts!TypeOK, Accounts!Did

LEMMA AccountsFresh ==
  /\ \A e \in Email : /\ Accounts!Fresh(e) \in Accounts!Form /\ Accounts!Fresh(e).outcome = "none"
                      /\ Accounts!Fresh(e).email = e
  /\ Accounts!NoPost \in Accounts!Query /\ Accounts!NoPost.kind = "none"
  /\ Accounts!NoPost.answer = "none"
  /\ Accounts!NoModal \in Accounts!Modal /\ Accounts!NoModal.open = FALSE
  /\ Accounts!NoModal.request = Accounts!NoPost
<1>1. \A e \in Email : /\ Accounts!Fresh(e) \in Accounts!Form /\ Accounts!Fresh(e).outcome = "none"
                       /\ Accounts!Fresh(e).email = e
  BY DEF Accounts!Fresh, Accounts!Form
<1>2. Accounts!NoPost \in Accounts!Query /\ Accounts!NoPost.kind = "none"
      /\ Accounts!NoPost.answer = "none"
  BY DEF Accounts!NoPost, Accounts!Query
<1>3. Accounts!NoModal \in Accounts!Modal /\ Accounts!NoModal.open = FALSE
      /\ Accounts!NoModal.request = Accounts!NoPost
  BY <1>2 DEF Accounts!NoModal, Accounts!Modal
<1> QED
  BY <1>1, <1>2, <1>3

\* An edit of the form while nothing is under way.
LEMMA AccountsEdit ==
  ASSUME AccountsInv, UNCHANGED <<slot1, slot2, slot3, slot5, slot6, slot7, slot8, slot9>>,
         slot4' \in Accounts!Form, slot10' \in [{"posts", "moves", "outages"} -> Int],
         slot5 = Accounts!NoPost,
         \/ slot4'.outcome = slot4.outcome /\ slot4'.email = slot4.email
         \/ slot4'.outcome = "none"
  PROVE  AccountsInv'
<1>1. Grown
  BY AccountsQuiet
<1>2. Accounts!TypeOK'
  BY <1>1, AccountsTypes DEF AccountsInv, Accounts!TypeOK
<1>3. slot5'.kind = "none" /\ slot7'.request.kind \in {"none", "resend"}
  BY AccountsFresh DEF AccountsInv, Accounts!PostFits
<1>4. Accounts!LinksFit' /\ Accounts!LinksTold' /\ Accounts!PresentedPromised'
      /\ Accounts!LinkPresentedOnce'
  BY <1>1, AccountsStay
<1>5. Accounts!PostFits'
  BY <1>1, <1>3, AccountsStay
<1>6. Accounts!AnswersTold' /\ Accounts!OutcomeIsTrue'
  BY <1>1, AccountsStay
<1> QED
  BY <1>2, <1>4, <1>5, <1>6 DEF AccountsInv

LEMMA AccountsTyping ==
  ASSUME AccountsInv
  PROVE  /\ \A e \in Email : Accounts!TypeEmail(e) => AccountsInv'
         /\ \A field \in {"name", "workspace", "password", "confirm"} :
              Accounts!Fill(field) => AccountsInv'
         /\ Accounts!NextStep => AccountsInv'
         /\ Accounts!BackStep => AccountsInv'
<1>1. slot4 \in Accounts!Form /\ slot10 \in [{"posts", "moves", "outages"} -> Int]
  BY DEF AccountsInv, Accounts!TypeOK
<1>2. ASSUME NEW e \in Email, Accounts!TypeEmail(e) PROVE AccountsInv'
  <2>1. /\ UNCHANGED <<slot1, slot2, slot3, slot5, slot6, slot7, slot8, slot9>>
        /\ slot5 = Accounts!NoPost /\ slot4' = [slot4 EXCEPT !.email = e, !.outcome = "none"]
        /\ Accounts!Did("moves", MaxMoves)
    BY <1>2 DEF Accounts!TypeEmail, Accounts!Editable
  <2>2. slot4' \in Accounts!Form /\ slot4'.outcome = "none"
    BY <1>1, <2>1 DEF Accounts!Form
  <2> QED
    BY <2>1, <2>2, AccountsEdit, AccountsDid
<1>3. ASSUME NEW field \in {"name", "workspace", "password", "confirm"}, Accounts!Fill(field)
      PROVE  AccountsInv'
  <2> DEFINE valid == IF field \in slot4.valid THEN slot4.valid \ {field}
                      ELSE IF field = "password" THEN (slot4.valid \ {"confirm"}) \cup {field}
                      ELSE slot4.valid \cup {field}
  <2>1. /\ UNCHANGED <<slot1, slot2, slot3, slot5, slot6, slot7, slot8, slot9, slot10>>
        /\ slot5 = Accounts!NoPost /\ slot4' = [slot4 EXCEPT !.outcome = "none", !.valid = valid]
    BY <1>3 DEF Accounts!Fill, Accounts!Editable
  <2>2. valid \in SUBSET {"name", "workspace", "password", "confirm"}
    BY <1>1 DEF Accounts!Form
  <2> HIDE DEF valid
  <2>3. slot4' \in Accounts!Form /\ slot4'.outcome = "none"
    BY <1>1, <2>1, <2>2 DEF Accounts!Form
  <2> QED
    BY <1>1, <2>1, <2>3, AccountsEdit
<1>4. ASSUME Accounts!NextStep \/ Accounts!BackStep PROVE AccountsInv'
  <2>1. PICK k \in {-1, 1} :
          /\ UNCHANGED <<slot1, slot2, slot3, slot5, slot6, slot7, slot8, slot9, slot10>>
          /\ slot5 = Accounts!NoPost /\ slot4' = [slot4 EXCEPT !.step = slot4.step + k]
    <3>1. CASE Accounts!NextStep
      BY <3>1 DEF Accounts!NextStep, Accounts!Editable
    <3>2. CASE Accounts!BackStep
      <4>1. slot4.step - 1 = slot4.step + (-1)
        BY <1>1 DEF Accounts!Form
      <4> QED
        BY <3>2, <4>1 DEF Accounts!BackStep, Accounts!Editable
    <3> QED
      BY <1>4, <3>1, <3>2
  <2>2. slot4' \in Accounts!Form /\ slot4'.outcome = slot4.outcome /\ slot4'.email = slot4.email
    <3>1. slot4.step + k \in Int
      BY <1>1 DEF Accounts!Form
    <3> QED
      BY <1>1, <2>1, <3>1 DEF Accounts!Form
  <2> QED
    BY <1>1, <2>1, <2>2, AccountsEdit
<1> QED
  BY <1>2, <1>3, <1>4

\* The form sends what it holds, or asks who has signed in.
LEMMA AccountsRequest ==
  ASSUME AccountsInv
  PROVE  \A kind \in {"none", "register", "login", "forgot", "resend", "reset", "complete", "me"} :
           /\ Accounts!Request(kind) \in Accounts!Query /\ Accounts!Request(kind).kind = kind
           /\ Accounts!Request(kind).email = slot4.email /\ slot4.email \in Email
           /\ Accounts!Request(kind).link = slot3.link /\ Accounts!Request(kind).answer = "none"
<1>1. slot4.email \in Email /\ slot3.link \in Nat
  BY DEF AccountsInv, Accounts!TypeOK, Accounts!Form, Accounts!Place
<1> QED
  BY <1>1 DEF Accounts!Request, Accounts!Query

LEMMA AccountsSubmit ==
  ASSUME AccountsInv, Accounts!Submit
  PROVE  AccountsInv'
<1>1. PICK kind \in {"register", "login", "forgot", "reset", "complete"} :
        /\ Accounts!Send(kind)
        /\ kind # "complete" => slot3.page = kind
        /\ kind = "complete" => slot3.page = "setup"
  BY DEF Accounts!Submit, Accounts!PasswordStep, Accounts!LoginForm, Accounts!ForgotForm,
         Accounts!ResetForm, Accounts!SetupForm, Accounts!At
<1>2. /\ slot5' = Accounts!Request(kind) /\ slot4' = [slot4 EXCEPT !.outcome = "none"]
      /\ UNCHANGED <<slot1, slot2, slot3, slot6, slot7, slot8, slot9>>
      /\ Accounts!Did("posts", MaxPosts)
  BY <1>1 DEF Accounts!Send
<1>3. /\ slot5' \in Accounts!Query /\ slot5'.kind = kind /\ slot5'.email = slot4.email
      /\ slot5'.email \in Email /\ slot5'.link = slot3.link /\ slot5'.answer = "none"
  BY <1>2, AccountsRequest
<1>4. slot4' \in Accounts!Form /\ slot4'.outcome = "none" /\ slot4'.email = slot4.email
  BY <1>2 DEF AccountsInv, Accounts!TypeOK, Accounts!Form
<1>5. Grown
  BY <1>2, AccountsQuiet
<1>6. Accounts!TypeOK'
  BY <1>2, <1>3, <1>4, <1>5, AccountsTypes, AccountsDid DEF AccountsInv, Accounts!TypeOK
<1>7. Accounts!LinksFit'
  <2>1. NextFits(slot5')
    BY <1>1, <1>3, <1>5, AccountsFitted DEF NextFits
  <2> QED
    BY <1>2, <1>5, <2>1, AccountsFitted, AccountsFits
<1>8. Accounts!PostFits'
  BY <1>1, <1>2, <1>3, <1>4 DEF AccountsInv, Accounts!PostFits
<1> QED
  BY <1>2, <1>3, <1>4, <1>5, <1>6, <1>7, <1>8, AccountsStay DEF AccountsInv

Promises == [1..MaxLinks -> {"none", "sent", "failed", "ok", "used", "expired"}]
PromisesKept ==
  /\ slot8' \in Promises /\ slot9' \in [1..MaxLinks -> Nat]
  /\ \A i \in 1..MaxLinks :
       /\ slot8'[i] # "none" => i \in DOMAIN slot2' /\ slot2'[i].kind \in {"verify", "code"}
       /\ slot8'[i] \in {"ok", "used"} => slot8[i] = slot8'[i]
       /\ (slot8'[i] = "none" => slot9'[i] = 0) /\ slot9'[i] <= 1

\* A page mounts: its form is fresh, and the dialog is closed.
LEMMA AccountsMount ==
  ASSUME AccountsInv, Grown, slot3' \in Accounts!Place,
         NextPage(slot3'.page, slot3'.link), NextPage(slot3'.back[1], slot3'.back[2]),
         slot4' = Accounts!Fresh(slot4.email), slot5' = Accounts!NoPost,
         slot6' \subseteq slot6 \cup {slot5, slot7.request}, slot7' = Accounts!NoModal,
         PromisesKept, slot10' \in [{"posts", "moves", "outages"} -> Int]
  PROVE  AccountsInv'
<1>1. slot4.email \in Email /\ slot5 \in Accounts!Query /\ slot6 \subseteq Accounts!Query
      /\ slot7.request \in Accounts!Query
  BY DEF AccountsInv, Accounts!TypeOK, Accounts!Form, Accounts!Modal
<1>2. slot4' \in Accounts!Form /\ slot4'.outcome = "none"
  BY <1>1, AccountsFresh
<1>3. slot7'.open = FALSE /\ slot7'.request.kind = "none" /\ slot5'.kind = "none"
      /\ slot5'.answer = "none" /\ slot7'.request = Accounts!NoPost
      /\ slot5' \in Accounts!Query /\ slot7' \in Accounts!Modal
  BY AccountsFresh
<1>4. Accounts!TypeOK'
  <2>1. slot6' \subseteq Accounts!Query
    BY <1>1
  <2> QED
    BY <1>2, <1>3, <2>1, AccountsTypes DEF AccountsInv, Promises, PromisesKept
<1>5. Accounts!LinksFit'
  <2>1. NextFits(slot5') /\ NextFits(slot7'.request)
    BY <1>3 DEF NextFits
  <2>2. \A request \in slot6' \cup {slot5', slot7'.request} : NextFits(request)
    BY <2>1, AccountsFitted
  <2> QED
    BY <2>2, AccountsFits DEF PromisesKept
<1>6. Accounts!PostFits'
  BY <1>3 DEF Accounts!PostFits
<1>7. Accounts!LinksTold'
  <2>1. ASSUME NEW i \in DOMAIN slot2', slot8'[i] \in {"ok", "used"} PROVE slot2'[i].state = "used"
    <3>1. i \in 1..MaxLinks
      <4>1. i \in 1..Len(slot2') /\ Len(slot2') \in Nat /\ Len(slot2') <= MaxLinks
        BY DEF Grown, LinksGrown
      <4> QED
        BY <4>1, ConsoleAssumption
    <3>2. slot8[i] \in {"ok", "used"}
      BY <2>1, <3>1 DEF PromisesKept
    <3>3. i \in DOMAIN slot2
      BY <3>1, <3>2 DEF AccountsInv, Accounts!LinksFit
    <3> QED
      BY <3>2, <3>3 DEF AccountsInv, Accounts!LinksTold, Grown, LinksGrown
  <2> QED
    BY <2>1 DEF Accounts!LinksTold, Grown, UsedIsVerified
<1>8. Accounts!AnswersTold' /\ Accounts!OutcomeIsTrue'
  BY <1>2, <1>3 DEF Accounts!AnswersTold, Accounts!OutcomeIsTrue
<1>9. Accounts!PresentedPromised' /\ Accounts!LinkPresentedOnce'
  BY DEF PromisesKept, Accounts!PresentedPromised, Accounts!LinkPresentedOnce
<1> QED
  BY <1>4, <1>5, <1>6, <1>7, <1>8, <1>9 DEF AccountsInv

\* A link that is presented has its promise, and is not presented again.
LEMMA AccountsPresent ==
  ASSUME AccountsInv, Grown
  PROVE  /\ UNCHANGED <<slot8, slot9>> => PromisesKept
         /\ \A k \in DOMAIN slot2 :
              slot2[k].kind \in {"verify", "code"} /\ Accounts!Present(k) => PromisesKept
<1>1. slot8 \in Promises /\ slot9 \in [1..MaxLinks -> Nat] /\ Len(slot2) \in Nat
      /\ Len(slot2) <= MaxLinks /\ DOMAIN slot2 = 1..Len(slot2)
  BY DEF AccountsInv, Accounts!TypeOK, Promises
<1>2. \A i \in 1..MaxLinks :
        /\ slot8[i] # "none" => i \in DOMAIN slot2' /\ slot2'[i].kind \in {"verify", "code"}
        /\ (slot8[i] = "none" => slot9[i] = 0) /\ slot9[i] <= 1
  BY <1>1, AccountsFitted DEF AccountsInv, Accounts!PresentedPromised, Accounts!LinkPresentedOnce
<1>3. ASSUME UNCHANGED <<slot8, slot9>> PROVE PromisesKept
  BY <1>1, <1>2, <1>3 DEF PromisesKept
<1>4. ASSUME NEW k \in DOMAIN slot2, slot2[k].kind \in {"verify", "code"}
      PROVE  k \in 1..MaxLinks /\ k \in DOMAIN slot2' /\ slot2'[k].kind \in {"verify", "code"}
  BY <1>1, <1>4, ConsoleAssumption DEF Grown, LinksGrown
<1>5. ASSUME NEW k \in DOMAIN slot2, slot2[k].kind \in {"verify", "code"}, slot8[k] = "none",
             slot8' = [slot8 EXCEPT ![k] = "sent"], slot9' = [slot9 EXCEPT ![k] = @ + 1]
      PROVE  PromisesKept
  <2>1. slot9[k] = 0
    BY <1>2, <1>4, <1>5
  <2>2. slot8' \in Promises /\ slot9' \in [1..MaxLinks -> Nat]
    BY <1>1, <1>4, <1>5 DEF Promises
  <2>3. \A i \in 1..MaxLinks : slot8'[i] = (IF i = k THEN "sent" ELSE slot8[i])
                              /\ slot9'[i] = (IF i = k THEN 1 ELSE slot9[i])
    BY <1>1, <1>5, <2>1 DEF Promises
  <2> QED
    BY <1>2, <1>4, <1>5, <2>2, <2>3 DEF PromisesKept
<1> QED
  BY <1>3, <1>5 DEF Accounts!Present

LEMMA AccountsVisit ==
  ASSUME AccountsInv
  PROVE  \A page \in {"login", "register", "forgot"} : Accounts!Visit(page) => AccountsInv'
<1> SUFFICES ASSUME NEW page \in {"login", "register", "forgot"}, Accounts!Visit(page)
             PROVE  AccountsInv'
  OBVIOUS
<1>1. /\ UNCHANGED <<slot1, slot2, slot8, slot9>> /\ Accounts!Did("moves", MaxMoves)
      /\ slot3' = [page |-> page, link |-> 0, back |-> <<slot3.page, slot3.link>>]
      /\ slot4' = Accounts!Fresh(slot4.email) /\ slot5' = Accounts!NoPost
      /\ slot7' = Accounts!NoModal /\ slot6' \subseteq slot6 \cup {slot5, slot7.request}
  BY DEF Accounts!Visit, Accounts!Goto, Accounts!Left
<1>2. Grown
  BY <1>1, AccountsQuiet
<1>3. slot3.page \in Accounts!Page /\ slot3.link \in Nat
  BY DEF AccountsInv, Accounts!TypeOK, Accounts!Place
<1>4. slot3' \in Accounts!Place
  BY <1>1, <1>3 DEF Accounts!Place, Accounts!Page
<1>5. NextPage(slot3'.page, slot3'.link) /\ NextPage(slot3'.back[1], slot3'.back[2])
  <2>1. NextPage(page, 0)
    BY DEF NextPage
  <2> QED
    BY <1>1, <1>2, <2>1, AccountsFitted
<1>6. PromisesKept
  BY <1>1, <1>2, AccountsPresent
<1> QED
  BY <1>1, <1>2, <1>4, <1>5, <1>6, AccountsDid, AccountsMount

LEMMA AccountsBack ==
  ASSUME AccountsInv, Accounts!Back
  PROVE  AccountsInv'
<1> DEFINE page == slot3.back[1]
           link == slot3.back[2]
<1>1. /\ UNCHANGED <<slot1, slot2>> /\ Accounts!Did("moves", MaxMoves) /\ link # 0
      /\ slot3' = [page |-> page, link |-> link, back |-> <<slot3.page, slot3.link>>]
      /\ slot4' = Accounts!Fresh(slot4.email) /\ slot5' = Accounts!NoPost
      /\ slot7' = Accounts!NoModal /\ slot6' \subseteq slot6 \cup {slot5, slot7.request}
  BY DEF Accounts!Back, Accounts!Goto, Accounts!Left
<1>2. Grown
  BY <1>1, AccountsQuiet
<1>3. slot3.page \in Accounts!Page /\ slot3.link \in Nat /\ page \in Accounts!Page /\ link \in Nat
  <2>1. slot3 \in Accounts!Place
    BY DEF AccountsInv, Accounts!TypeOK
  <2>2. slot3.back \in (Accounts!Page \X Nat) \cup {<<"none", 0>>}
    BY <2>1 DEF Accounts!Place
  <2>3. slot3.back # <<"none", 0>>
    BY <1>1
  <2> QED
    BY <2>1, <2>2, <2>3 DEF Accounts!Place
<1>4. slot3' \in Accounts!Place
  BY <1>1, <1>3 DEF Accounts!Place
<1>5. NextPage(slot3'.page, slot3'.link) /\ NextPage(slot3'.back[1], slot3'.back[2])
  BY <1>1, <1>2, AccountsFitted
<1>6. PromisesKept
  <2>1. ASSUME page \in {"verify", "callback"} PROVE link \in DOMAIN slot2 /\ slot2[link].kind \in {"verify", "code"}
    <3>1. link \in DOMAIN slot2 /\ Accounts!PageOf(slot2[link].kind) = page
      BY <2>1 DEF AccountsInv, Accounts!LinksFit, Accounts!OfPage
    <3>2. slot2[link] \in Accounts!LinkRow
      BY <3>1 DEF AccountsInv, Accounts!TypeOK
    <3>3. slot2[link].kind \in {"verify", "reset", "code", "signup"}
      BY <3>2 DEF Accounts!LinkRow
    <3> QED
      BY <2>1, <3>1, <3>3 DEF Accounts!PageOf
  <2>2. \/ UNCHANGED <<slot8, slot9>>
        \/ page \in {"verify", "callback"} /\ Accounts!Present(link)
    BY DEF Accounts!Back, Accounts!Exchange
  <2> QED
    BY <1>2, <2>1, <2>2, AccountsPresent
<1> QED
  BY <1>1, <1>2, <1>4, <1>5, <1>6, AccountsDid, AccountsMount

\* The page of a link is loaded anew: nothing was presented yet.
LEMMA AccountsArrive ==
  ASSUME AccountsInv, Grown, slot10' \in [{"posts", "moves", "outages"} -> Int]
  PROVE  \A k \in DOMAIN slot2' : Accounts!Arrive(k) => AccountsInv'
<1> SUFFICES ASSUME NEW k \in DOMAIN slot2', Accounts!Arrive(k) PROVE AccountsInv'
  OBVIOUS
<1> DEFINE page == Accounts!PageOf(slot2'[k].kind)
<1>1. /\ slot3' = [page |-> page, link |-> k, back |-> <<"none", 0>>]
      /\ slot4' = Accounts!Fresh(slot4.email) /\ slot5' = Accounts!NoPost
      /\ slot7' = Accounts!NoModal /\ slot6' = {}
  BY DEF Accounts!Arrive
<1>2. /\ slot2' \in Seq(Accounts!LinkRow) /\ Len(slot2') \in Nat /\ Len(slot2') <= MaxLinks
      /\ DOMAIN slot2' = 1..Len(slot2')
  BY DEF Grown, LinksGrown
<1>3. k \in 1..MaxLinks /\ slot2'[k] \in Accounts!LinkRow
  BY <1>2, ConsoleAssumption
<1>4. page \in Accounts!Page /\ k \in Nat
  BY <1>2, <1>3 DEF Accounts!LinkRow, Accounts!PageOf, Accounts!Page
<1>5. NextPage(page, k) /\ NextPage("none", 0)
  BY DEF NextPage
<1>6. PromisesKept
  <2>1. CASE slot2'[k].kind \in {"verify", "code"}
    <3>1. /\ slot8' = [Accounts!NoPromises EXCEPT ![k] = "sent"]
          /\ slot9' = [i \in 1..MaxLinks |-> IF i = k THEN 1 ELSE 0]
      BY <2>1 DEF Accounts!Arrive
    <3>2. \A i \in 1..MaxLinks : /\ slot8'[i] = (IF i = k THEN "sent" ELSE "none")
                                 /\ slot9'[i] = (IF i = k THEN 1 ELSE 0)
      BY <3>1 DEF Accounts!NoPromises
    <3>3. slot8' \in Promises /\ slot9' \in [1..MaxLinks -> Nat]
      BY <3>1 DEF Accounts!NoPromises, Promises
    <3> QED
      BY <2>1, <3>2, <3>3 DEF PromisesKept
  <2>2. CASE slot2'[k].kind \notin {"verify", "code"}
    <3>1. slot8' = Accounts!NoPromises /\ slot9' = [i \in 1..MaxLinks |-> 0]
      BY <2>2 DEF Accounts!Arrive
    <3> QED
      BY <3>1 DEF Accounts!NoPromises, Promises, PromisesKept
  <2> QED
    BY <2>1, <2>2
<1> HIDE DEF page
<1>7. slot3' \in Accounts!Place
  BY <1>1, <1>4 DEF Accounts!Place
<1>8. NextPage(slot3'.page, slot3'.link) /\ NextPage(slot3'.back[1], slot3'.back[2])
  BY <1>1, <1>5
<1> QED
  BY <1>1, <1>6, <1>7, <1>8, AccountsMount

LEMMA AccountsLoad ==
  ASSUME AccountsInv
  PROVE  /\ \A i \in DOMAIN slot2 : Accounts!OpenLink(i) => AccountsInv'
         /\ \A e \in Email : Accounts!ContinueWithGoogle(e) => AccountsInv'
<1>1. ASSUME NEW i \in DOMAIN slot2, Accounts!OpenLink(i) PROVE AccountsInv'
  <2>1. UNCHANGED <<slot1, slot2>> /\ Accounts!Did("moves", MaxMoves) /\ Accounts!Arrive(i)
    BY <1>1 DEF Accounts!OpenLink
  <2>2. Grown /\ i \in DOMAIN slot2'
    BY <2>1, AccountsQuiet
  <2> QED
    BY <2>1, <2>2, AccountsDid, AccountsArrive
<1>2. ASSUME NEW e \in Email, Accounts!ContinueWithGoogle(e) PROVE AccountsInv'
  <2>1. PICK kind \in {"signup", "code"} : Accounts!Issue(e, kind)
    BY <1>2 DEF Accounts!ContinueWithGoogle
  <2>2. slot1' = slot1 /\ Accounts!Did("posts", MaxPosts) /\ Accounts!Arrive(Len(slot2'))
    BY <1>2 DEF Accounts!ContinueWithGoogle
  <2>3. AccountsGrown
    BY <2>2 DEF AccountsGrown, AccountsInv, Accounts!TypeOK
  <2>4. Grown
    BY <2>1, <2>3, AccountsIssued DEF AccountsInv
  <2>5. Len(slot2') \in DOMAIN slot2'
    <3>1. Len(slot2') = Len(slot2) + 1 /\ Len(slot2) \in Nat
      BY <2>1, AccountsIssue DEF AccountsInv
    <3> QED
      BY <2>4, <3>1 DEF Grown, LinksGrown
  <2> QED
    BY <2>2, <2>4, <2>5, AccountsDid, AccountsArrive
<1> QED
  BY <1>1, <1>2

\* What the page waited for is over, and the form or the dialog says how it ended.
LEMMA AccountsSettle ==
  ASSUME AccountsInv, UNCHANGED <<slot1, slot2, slot3, slot6, slot8, slot9>>,
         slot4' \in Accounts!Form, slot5' \in {Accounts!NoPost, Accounts!Request("me")},
         slot7' \in Accounts!Modal, slot7'.request = slot7.request,
         slot10' \in [{"posts", "moves", "outages"} -> Int],
         slot3.page = "login" /\ slot4'.outcome = "unverified" => SentNext(slot7'.email),
         Accounts!OutcomeIsTrue'
  PROVE  AccountsInv'
<1>1. Grown
  BY AccountsQuiet
<1>2. slot5' \in Accounts!Query /\ slot5'.kind \in {"none", "me"} /\ slot5'.answer = "none"
      /\ (slot5'.kind # "none" => slot5'.email \in Email)
  BY AccountsFresh, AccountsRequest
<1>3. Accounts!TypeOK'
  BY <1>1, <1>2, AccountsTypes DEF AccountsInv, Accounts!TypeOK
<1>4. Accounts!LinksFit'
  <2>1. NextFits(slot5')
    BY <1>2 DEF NextFits
  <2>2. \A request \in slot6' \cup {slot5', slot7'.request} : NextFits(request)
    BY <1>1, <2>1, AccountsFitted
  <2> QED
    BY <1>1, <2>2, AccountsFitted, AccountsFits
<1>5. Accounts!PostFits'
  <2>1. slot7'.request.kind \in {"none", "resend"}
    BY DEF AccountsInv, Accounts!PostFits
  <2> QED
    BY <1>1, <1>2, <2>1, AccountsStay
<1>6. Accounts!AnswersTold'
  BY <1>2 DEF Accounts!AnswersTold, SentNext, Accounts!HasLink
<1>7. Accounts!LinksTold' /\ Accounts!PresentedPromised' /\ Accounts!LinkPresentedOnce'
  BY <1>1, AccountsStay
<1> QED
  BY <1>3, <1>4, <1>5, <1>6, <1>7 DEF AccountsInv

LEMMA AccountsOutcome ==
  ASSUME AccountsInv
  PROVE  \A outcome \in Accounts!Answer \cup {"none", "failed"} :
           /\ [slot4 EXCEPT !.outcome = outcome] \in Accounts!Form
           /\ [slot4 EXCEPT !.outcome = outcome].outcome = outcome
           /\ [slot4 EXCEPT !.outcome = outcome].email = slot4.email
BY DEF AccountsInv, Accounts!TypeOK, Accounts!Form

\* Who has signed in is asked for, and the page goes on to show what it shows.
LEMMA AccountsGoOn ==
  ASSUME AccountsInv, UNCHANGED <<slot1, slot2, slot3, slot4, slot6, slot7, slot8, slot9, slot10>>,
         slot5' = Accounts!Request("me")
  PROVE  AccountsInv'
<1>1. Grown
  BY AccountsQuiet
<1>2. Accounts!OutcomeIsTrue'
  BY <1>1, AccountsStay
<1>3. slot3.page = "login" /\ slot4'.outcome = "unverified" => SentNext(slot7'.email)
  BY DEF AccountsInv, Accounts!AnswersTold, Accounts!HasLink, SentNext
<1> QED
  BY <1>2, <1>3, AccountsSettle DEF AccountsInv, Accounts!TypeOK

LEMMA AccountsRegisterAnswered ==
  ASSUME AccountsInv, Accounts!RegisterAnswered
  PROVE  AccountsInv'
<1>1. /\ slot5.kind = "register" /\ slot5.answer # "none" /\ slot5' = Accounts!NoPost
      /\ UNCHANGED <<slot1, slot2, slot3, slot6, slot8, slot9, slot10>>
  BY DEF Accounts!RegisterAnswered, Accounts!Answered
<1>2. slot3.page = "register" /\ slot5.email = slot4.email
      /\ slot1[slot4.email] # "none" /\ (slot5.answer = "ok" => Accounts!HasLink(slot4.email))
  BY <1>1 DEF AccountsInv, Accounts!PostFits, Accounts!AnswersTold
<1>3. slot4 \in Accounts!Form /\ slot4.email \in Email /\ slot7 \in Accounts!Modal
      /\ slot10 \in [{"posts", "moves", "outages"} -> Int]
  BY DEF AccountsInv, Accounts!TypeOK, Accounts!Form
<1>4. CASE slot5.answer = "ok"
  <2>1. slot7' = [slot7 EXCEPT !.open = TRUE, !.email = slot4.email] /\ slot4' = slot4
    BY <1>4 DEF Accounts!RegisterAnswered
  <2>2. slot7' \in Accounts!Modal /\ slot7'.request = slot7.request /\ slot7'.email = slot4.email
    BY <1>3, <2>1 DEF Accounts!Modal
  <2>3. Accounts!OutcomeIsTrue'
    BY <1>1, <1>2, <1>4, <2>1, <2>2 DEF AccountsInv, Accounts!OutcomeIsTrue, Accounts!HasLink
  <2> QED
    BY <1>1, <1>2, <1>3, <2>1, <2>2, <2>3, AccountsSettle
<1>5. CASE slot5.answer # "ok"
  <2>1. slot7' = slot7 /\ slot4' = [slot4 EXCEPT !.outcome = "exists", !.step = 1]
    BY <1>5 DEF Accounts!RegisterAnswered
  <2>2. slot4' \in Accounts!Form /\ slot4'.outcome = "exists" /\ slot4'.email = slot4.email
    <3> DEFINE told == [slot4 EXCEPT !.outcome = "exists"]
    <3>1. told \in Accounts!Form /\ told.outcome = "exists" /\ told.email = slot4.email
      BY AccountsOutcome DEF Accounts!Answer
    <3>2. slot4' = [told EXCEPT !.step = 1]
      BY <1>3, <2>1 DEF Accounts!Form
    <3> HIDE DEF told
    <3> QED
      BY <3>1, <3>2 DEF Accounts!Form
  <2>3. Accounts!OutcomeIsTrue'
    BY <1>1, <1>2, <2>1, <2>2 DEF AccountsInv, Accounts!OutcomeIsTrue
  <2> QED
    BY <1>1, <1>2, <1>3, <2>1, <2>2, <2>3, AccountsSettle
<1> QED
  BY <1>4, <1>5

LEMMA AccountsLoginAnswered ==
  ASSUME AccountsInv, Accounts!LoginAnswered
  PROVE  AccountsInv'
<1>1. slot5.kind = "login" /\ slot5.answer # "none"
  BY DEF Accounts!LoginAnswered, Accounts!Answered
<1>2. /\ slot3.page = "login" /\ slot5.email = slot4.email /\ slot5.answer # "exists"
      /\ slot5.answer = "unverified" => slot1[slot4.email] # "none" /\ Accounts!HasLink(slot4.email)
  BY <1>1 DEF AccountsInv, Accounts!PostFits, Accounts!AnswersTold
<1>3. slot4.email \in Email /\ slot7 \in Accounts!Modal /\ slot5.answer \in Accounts!Answer
      /\ slot10 \in [{"posts", "moves", "outages"} -> Int]
  BY <1>1 DEF AccountsInv, Accounts!TypeOK, Accounts!Form, Accounts!Query
<1>4. CASE slot5.answer = "ok"
  BY <1>4, AccountsGoOn DEF Accounts!LoginAnswered, Accounts!GoesOn
<1>5. CASE slot5.answer # "ok"
  <2> DEFINE email == IF slot5.answer = "unverified" THEN slot4.email ELSE slot7.email
  <2>1. /\ slot4' = [slot4 EXCEPT !.outcome = slot5.answer] /\ slot5' = Accounts!NoPost
        /\ UNCHANGED <<slot1, slot2, slot3, slot6, slot8, slot9, slot10>>
        /\ slot7' = [slot7 EXCEPT !.email = email]
    BY <1>5 DEF Accounts!LoginAnswered, Accounts!Shows
  <2>2. slot4' \in Accounts!Form /\ slot4'.outcome = slot5.answer /\ slot4'.email = slot4.email
    BY <1>3, <2>1, AccountsOutcome
  <2>3. email \in Email \cup {""} /\ (slot5.answer = "unverified" => email = slot4.email)
        /\ (slot5.answer # "unverified" => email = slot7.email)
    BY <1>3 DEF Accounts!Modal
  <2> HIDE DEF email
  <2>4. slot7' \in Accounts!Modal /\ slot7'.request = slot7.request /\ slot7'.email = email
        /\ slot7'.open = slot7.open
    BY <1>3, <2>1, <2>3 DEF Accounts!Modal
  <2>5. Accounts!OutcomeIsTrue'
    BY <1>2, <2>1, <2>2, <2>3, <2>4 DEF AccountsInv, Accounts!OutcomeIsTrue, Accounts!HasLink
  <2>6. slot4'.outcome = "unverified" => SentNext(slot7'.email)
    BY <1>2, <2>1, <2>2, <2>3, <2>4 DEF SentNext, Accounts!HasLink
  <2> QED
    BY <1>3, <2>1, <2>2, <2>4, <2>5, <2>6, AccountsSettle
<1> QED
  BY <1>4, <1>5

LEMMA AccountsShown ==
  ASSUME AccountsInv, UNCHANGED <<slot1, slot2, slot3, slot6, slot7, slot8, slot9>>,
         slot5' = Accounts!NoPost, slot10' \in [{"posts", "moves", "outages"} -> Int]
  PROVE  \A outcome \in Accounts!Answer \cup {"none", "failed"} :
           /\ slot4' = [slot4 EXCEPT !.outcome = outcome]
           /\ slot3.page \in {"verify", "reset"} /\ outcome \in {"ok", "used"} =>
                /\ slot2[slot3.link].state = "used"
                /\ slot3.page = "verify" => slot1[slot2[slot3.link].email] = "verified"
           /\ outcome \in {"exists", "unverified"} => slot3.page = "setup"
           => AccountsInv'
<1> SUFFICES ASSUME NEW outcome \in Accounts!Answer \cup {"none", "failed"},
                    slot4' = [slot4 EXCEPT !.outcome = outcome],
                    slot3.page \in {"verify", "reset"} /\ outcome \in {"ok", "used"} =>
                      /\ slot2[slot3.link].state = "used"
                      /\ slot3.page = "verify" => slot1[slot2[slot3.link].email] = "verified",
                    outcome \in {"exists", "unverified"} => slot3.page = "setup"
             PROVE  AccountsInv'
  OBVIOUS
<1>1. slot4' \in Accounts!Form /\ slot4'.outcome = outcome /\ slot4'.email = slot4.email
  BY AccountsOutcome
<1>2. Accounts!OutcomeIsTrue'
  BY <1>1 DEF AccountsInv, Accounts!OutcomeIsTrue
<1>3. slot3.page = "login" => slot4'.outcome # "unverified"
  BY <1>1
<1> QED
  BY <1>1, <1>2, <1>3, AccountsSettle DEF AccountsInv, Accounts!TypeOK

LEMMA AccountsPostAnswered ==
  ASSUME AccountsInv, Accounts!PostAnswered
  PROVE  AccountsInv'
<1>1. CASE Accounts!RegisterAnswered
  BY <1>1, AccountsRegisterAnswered
<1>2. CASE Accounts!LoginAnswered
  BY <1>2, AccountsLoginAnswered
<1>3. slot5.answer \in Accounts!Answer \cup {"none"} /\ "ok" \in Accounts!Answer
      /\ slot10 \in [{"posts", "moves", "outages"} -> Int]
  BY DEF AccountsInv, Accounts!TypeOK, Accounts!Query, Accounts!Answer
<1>4. CASE Accounts!ForgotAnswered
  <2>1. slot5.kind = "forgot" /\ slot5' = Accounts!NoPost
        /\ slot4' = [slot4 EXCEPT !.outcome = "ok"]
        /\ UNCHANGED <<slot1, slot2, slot3, slot6, slot7, slot8, slot9, slot10>>
    BY <1>4 DEF Accounts!ForgotAnswered, Accounts!Shows, Accounts!Answered
  <2>2. slot3.page = "forgot"
    BY <2>1 DEF AccountsInv, Accounts!PostFits
  <2> QED
    BY <1>3, <2>1, <2>2, AccountsShown
<1>5. CASE Accounts!ResetAnswered
  <2>1. slot5.kind = "reset" /\ slot5.answer # "none" /\ slot5' = Accounts!NoPost
        /\ slot4' = [slot4 EXCEPT !.outcome = slot5.answer]
        /\ UNCHANGED <<slot1, slot2, slot3, slot6, slot7, slot8, slot9, slot10>>
    BY <1>5 DEF Accounts!ResetAnswered, Accounts!Shows, Accounts!Answered
  <2>2. /\ slot3.page = "reset" /\ slot5.link = slot3.link
        /\ slot5.answer \in {"ok", "used", "expired"}
        /\ slot5.answer \in {"ok", "used"} => slot2[slot3.link].state = "used"
    BY <2>1 DEF AccountsInv, Accounts!PostFits, Accounts!AnswersTold
  <2> QED
    BY <1>3, <2>1, <2>2, AccountsShown
<1>6. CASE Accounts!SetupAnswered
  <2>1. slot5.kind = "complete" /\ slot5.answer # "none"
    BY <1>6 DEF Accounts!SetupAnswered, Accounts!Answered
  <2>2. slot3.page = "setup"
    BY <2>1 DEF AccountsInv, Accounts!PostFits
  <2>3. CASE slot5.answer = "ok"
    BY <1>6, <2>3, AccountsGoOn DEF Accounts!SetupAnswered, Accounts!GoesOn
  <2>4. CASE slot5.answer # "ok"
    <3>1. slot5' = Accounts!NoPost /\ slot4' = [slot4 EXCEPT !.outcome = slot5.answer]
          /\ UNCHANGED <<slot1, slot2, slot3, slot6, slot7, slot8, slot9, slot10>>
      BY <1>6, <2>4 DEF Accounts!SetupAnswered, Accounts!Shows
    <3> QED
      BY <1>3, <2>1, <2>2, <3>1, AccountsShown
  <2> QED
    BY <2>3, <2>4
<1>7. CASE Accounts!UserAnswered
  <2>1. /\ slot3' = [page |-> "dashboard", link |-> 0, back |-> <<"none", 0>>]
        /\ slot4' = Accounts!Fresh(slot4.email) /\ slot7' = Accounts!NoModal
        /\ slot6' = {} /\ slot5' = Accounts!NoPost
        /\ UNCHANGED <<slot1, slot2, slot8, slot9, slot10>>
    BY <1>7 DEF Accounts!UserAnswered, Accounts!ToDashboard
  <2>2. Grown
    BY <2>1, AccountsQuiet
  <2>3. slot3' \in Accounts!Place
    BY <2>1 DEF Accounts!Place, Accounts!Page
  <2>4. NextPage("dashboard", 0) /\ NextPage("none", 0)
    BY DEF NextPage
  <2>5. NextPage(slot3'.page, slot3'.link) /\ NextPage(slot3'.back[1], slot3'.back[2])
    BY <2>1, <2>4
  <2>6. PromisesKept
    BY <2>1, <2>2, AccountsPresent
  <2> QED
    BY <1>3, <2>1, <2>2, <2>3, <2>5, <2>6, AccountsMount
<1> QED
  BY <1>1, <1>2, <1>4, <1>5, <1>6, <1>7 DEF Accounts!PostAnswered

LEMMA AccountsPostFails ==
  ASSUME AccountsInv, Accounts!PostFails
  PROVE  AccountsInv'
<1>1. /\ Accounts!Did("outages", MaxOutages) /\ slot5' = Accounts!NoPost
      /\ slot4' = [slot4 EXCEPT !.outcome = "failed"]
      /\ UNCHANGED <<slot1, slot2, slot3, slot6, slot7, slot8, slot9>>
  BY DEF Accounts!PostFails
<1> QED
  BY <1>1, AccountsDid, AccountsShown

LEMMA AccountsLinkAnswered ==
  ASSUME AccountsInv, Accounts!LinkAnswered
  PROVE  AccountsInv'
<1>1. /\ slot3.page \in {"verify", "callback"} /\ slot5 = Accounts!NoPost
      /\ slot8[slot3.link] \notin {"none", "sent"}
      /\ UNCHANGED <<slot1, slot2, slot3, slot6, slot7, slot8, slot9, slot10>>
  BY DEF Accounts!LinkAnswered, Accounts!At
<1>2. CASE slot3.page = "callback" /\ slot8[slot3.link] = "ok"
  <2>1. slot5' = Accounts!Request("me") /\ slot4' = slot4
    BY <1>2 DEF Accounts!LinkAnswered, Accounts!At
  <2> QED
    BY <1>1, <2>1, AccountsGoOn
<1>3. CASE ~(slot3.page = "callback" /\ slot8[slot3.link] = "ok")
  <2> DEFINE link == slot3.link
  <2>1. slot5' = Accounts!NoPost /\ slot4' = [slot4 EXCEPT !.outcome = slot8[link]]
    BY <1>1, <1>3 DEF Accounts!LinkAnswered, Accounts!At
  <2>2. link \in DOMAIN slot2 /\ Accounts!PageOf(slot2[link].kind) = slot3.page
    BY <1>1 DEF AccountsInv, Accounts!LinksFit, Accounts!OfPage
  <2>3. /\ Len(slot2) \in Nat /\ Len(slot2) <= MaxLinks /\ DOMAIN slot2 = 1..Len(slot2)
        /\ slot8 \in Promises /\ slot2[link] \in Accounts!LinkRow
    BY <2>2 DEF AccountsInv, Accounts!TypeOK, Promises
  <2>4. link \in 1..MaxLinks
    BY <2>2, <2>3, ConsoleAssumption
  <2>5. slot8[link] \in {"failed", "ok", "used", "expired"}
    BY <1>1, <2>3, <2>4 DEF Promises
  <2>6. slot8[link] \in {"ok", "used"} => slot2[link].state = "used"
    BY <2>2 DEF AccountsInv, Accounts!LinksTold
  <2>7. slot3.page = "verify" => slot2[link].kind = "verify"
    BY <2>2, <2>3 DEF Accounts!PageOf, Accounts!LinkRow
  <2>8. slot3.page = "verify" /\ slot8[link] \in {"ok", "used"} =>
          slot1[slot2[link].email] = "verified"
    BY <2>2, <2>6, <2>7 DEF AccountsInv, Accounts!LinksTold
  <2>9. slot8[link] \in Accounts!Answer \cup {"none", "failed"}
    BY <2>5 DEF Accounts!Answer
  <2>10. slot10' \in [{"posts", "moves", "outages"} -> Int]
    BY <1>1 DEF AccountsInv, Accounts!TypeOK
  <2> QED
    BY <1>1, <2>1, <2>5, <2>6, <2>8, <2>9, <2>10, AccountsShown
<1> QED
  BY <1>2, <1>3

LEMMA AccountsOrphanAnswered ==
  ASSUME AccountsInv, Accounts!OrphanAnswered
  PROVE  AccountsInv'
<1>1. PICK request \in slot6 :
        /\ IF Accounts!SignsIn(request)
           THEN /\ slot6' = (slot6 \ {request})
                              \cup {[request EXCEPT !.kind = "me", !.answer = "none"]}
                /\ UNCHANGED <<slot3, slot4, slot7, slot5>>
           ELSE IF request.kind = "me" THEN Accounts!ToDashboard /\ slot5' = Accounts!NoPost
           ELSE slot6' = slot6 \ {request} /\ UNCHANGED <<slot3, slot4, slot7, slot5>>
        /\ UNCHANGED <<slot1, slot2, slot8, slot9, slot10>>
  BY DEF Accounts!OrphanAnswered
<1>2. Grown
  BY <1>1, AccountsQuiet
<1>3. request \in Accounts!Query /\ Accounts!Fits(request) /\ slot6 \subseteq Accounts!Query
  BY DEF AccountsInv, Accounts!TypeOK, Accounts!LinksFit
<1>4. CASE Accounts!SignsIn(request)
  <2> DEFINE user == [request EXCEPT !.kind = "me", !.answer = "none"]
  <2>1. user \in Accounts!Query /\ user.kind = "me" /\ user.email = request.email
    BY <1>3 DEF Accounts!Query
  <2>2. request.email \in Email
    BY <1>3, <1>4 DEF Accounts!SignsIn, Accounts!Fits
  <2>3. NextFits(user)
    BY <2>1, <2>2 DEF NextFits
  <2>4. slot6' = (slot6 \ {request}) \cup {user} /\ UNCHANGED <<slot3, slot4, slot7, slot5>>
    BY <1>1, <1>4
  <2> HIDE DEF user
  <2>5. slot6' \subseteq Accounts!Query
    BY <1>3, <2>1, <2>4
  <2>6. Accounts!TypeOK'
    BY <1>1, <1>2, <2>4, <2>5, AccountsTypes DEF AccountsInv, Accounts!TypeOK
  <2>7. Accounts!LinksFit'
    BY <1>1, <1>2, <2>3, <2>4, AccountsFitted, AccountsFits
  <2> QED
    BY <1>1, <1>2, <2>4, <2>6, <2>7, AccountsStay DEF AccountsInv, Accounts!PostFits
<1>5. CASE ~Accounts!SignsIn(request) /\ request.kind = "me"
  <2>1. /\ slot3' = [page |-> "dashboard", link |-> 0, back |-> <<"none", 0>>]
        /\ slot4' = Accounts!Fresh(slot4.email) /\ slot7' = Accounts!NoModal
        /\ slot6' = {} /\ slot5' = Accounts!NoPost
    BY <1>1, <1>5 DEF Accounts!ToDashboard
  <2>2. slot3' \in Accounts!Place
    BY <2>1 DEF Accounts!Place, Accounts!Page
  <2>3. NextPage("dashboard", 0) /\ NextPage("none", 0)
    BY DEF NextPage
  <2>4. NextPage(slot3'.page, slot3'.link) /\ NextPage(slot3'.back[1], slot3'.back[2])
    BY <2>1, <2>3
  <2>5. PromisesKept
    BY <1>1, <1>2, AccountsPresent
  <2>6. slot10' \in [{"posts", "moves", "outages"} -> Int]
    BY <1>1 DEF AccountsInv, Accounts!TypeOK
  <2> QED
    BY <1>1, <1>2, <2>1, <2>2, <2>4, <2>5, <2>6, AccountsMount
<1>6. CASE ~Accounts!SignsIn(request) /\ request.kind # "me"
  <2>1. slot6' = slot6 \ {request} /\ UNCHANGED <<slot3, slot4, slot7, slot5>>
    BY <1>1, <1>6
  <2>2. slot6' \subseteq Accounts!Query
    BY <1>3, <2>1
  <2>3. Accounts!TypeOK'
    BY <1>1, <1>2, <2>1, <2>2, AccountsTypes DEF AccountsInv, Accounts!TypeOK
  <2>4. Accounts!LinksFit'
    BY <1>1, <1>2, <2>1, AccountsFitted, AccountsFits
  <2> QED
    BY <1>1, <1>2, <2>1, <2>3, <2>4, AccountsStay DEF AccountsInv, Accounts!PostFits
<1> QED
  BY <1>4, <1>5, <1>6

LEMMA AccountsPromiseFails ==
  ASSUME AccountsInv
  PROVE  \A i \in DOMAIN slot2 : Accounts!PromiseFails(i) => AccountsInv'
<1> SUFFICES ASSUME NEW i \in DOMAIN slot2, Accounts!PromiseFails(i) PROVE AccountsInv'
  OBVIOUS
<1>1. /\ UNCHANGED <<slot1, slot2, slot3, slot4, slot5, slot6, slot7, slot9>>
      /\ Accounts!Did("outages", MaxOutages) /\ slot8[i] # "none"
      /\ slot8' = [slot8 EXCEPT ![i] = "failed"]
  BY DEF Accounts!PromiseFails
<1>2. Grown
  BY <1>1, AccountsQuiet
<1>3. /\ slot8 \in Promises /\ Len(slot2) \in Nat /\ Len(slot2) <= MaxLinks
      /\ DOMAIN slot2 = 1..Len(slot2)
  BY DEF AccountsInv, Accounts!TypeOK, Promises
<1>4. i \in 1..MaxLinks
  BY <1>3, ConsoleAssumption
<1>5. slot8' \in Promises /\ \A k \in 1..MaxLinks : slot8'[k] = IF k = i THEN "failed" ELSE slot8[k]
  BY <1>1, <1>3, <1>4 DEF Promises
<1>6. Accounts!TypeOK'
  BY <1>1, <1>2, <1>5, AccountsTypes, AccountsDid DEF AccountsInv, Accounts!TypeOK, Promises
<1>7. Accounts!LinksFit'
  <2>1. \A k \in 1..MaxLinks : slot8'[k] # "none" =>
          k \in DOMAIN slot2' /\ slot2'[k].kind \in {"verify", "code"}
    BY <1>1, <1>2, <1>4, <1>5, AccountsFitted
  <2> QED
    BY <1>1, <1>2, <2>1, AccountsFitted, AccountsFits
<1>8. Accounts!LinksTold'
  <2>1. \A k \in DOMAIN slot2 : k \in 1..MaxLinks
    BY <1>3, ConsoleAssumption
  <2> QED
    BY <1>1, <1>5, <2>1 DEF AccountsInv, Accounts!LinksTold
<1>9. Accounts!PresentedPromised' /\ Accounts!LinkPresentedOnce'
  BY <1>1, <1>4, <1>5 DEF AccountsInv, Accounts!PresentedPromised, Accounts!LinkPresentedOnce
<1> QED
  BY <1>1, <1>2, <1>6, <1>7, <1>8, <1>9, AccountsStay DEF AccountsInv, Accounts!PostFits

\* The dialog sends nothing but the request for another link.
LEMMA AccountsDialog ==
  ASSUME AccountsInv, UNCHANGED <<slot1, slot2, slot3, slot4, slot5, slot6, slot8, slot9>>,
         slot7' \in Accounts!Modal, slot7'.email = slot7.email,
         slot7'.open => slot7.open \/ Accounts!HasLink(slot7.email),
         \/ slot7'.request \in {slot7.request, Accounts!NoPost}
         \/ slot7'.request.kind = "resend" /\ slot7'.request.email \in Email,
         slot10' \in [{"posts", "moves", "outages"} -> Int]
  PROVE  AccountsInv'
<1>1. Grown
  BY AccountsQuiet
<1>2. Accounts!TypeOK'
  BY <1>1, AccountsTypes DEF AccountsInv, Accounts!TypeOK
<1>3. Accounts!LinksFit'
  <2>1. NextFits(slot7'.request)
    BY <1>1, AccountsFresh, AccountsFitted DEF NextFits
  <2> QED
    BY <1>1, <2>1, AccountsFitted, AccountsFits
<1>4. Accounts!PostFits'
  <2>1. slot7'.request.kind \in {"none", "resend"}
    BY AccountsFresh DEF AccountsInv, Accounts!PostFits
  <2> QED
    BY <1>1, <2>1, AccountsStay
<1>5. Accounts!OutcomeIsTrue'
  BY DEF AccountsInv, Accounts!OutcomeIsTrue, Accounts!HasLink
<1> QED
  BY <1>1, <1>2, <1>3, <1>4, <1>5, AccountsStay DEF AccountsInv

LEMMA AccountsModal ==
  ASSUME AccountsInv,
         \/ Accounts!OpenModal \/ Accounts!CloseModal \/ Accounts!ResendLink
         \/ Accounts!ResendAnswered \/ Accounts!ResendFails \/ Accounts!CooldownEnds
  PROVE  AccountsInv'
<1>1. slot7 \in Accounts!Modal /\ slot10 \in [{"posts", "moves", "outages"} -> Int]
  BY DEF AccountsInv, Accounts!TypeOK
<1>2. CASE Accounts!OpenModal
  <2>1. /\ slot3.page = "login" /\ slot4.outcome = "unverified"
        /\ slot7' = [slot7 EXCEPT !.open = TRUE]
        /\ UNCHANGED <<slot1, slot2, slot3, slot4, slot5, slot6, slot8, slot9, slot10>>
    BY <1>2 DEF Accounts!OpenModal, Accounts!LoginForm, Accounts!At
  <2>2. slot7' \in Accounts!Modal /\ slot7'.email = slot7.email /\ slot7'.request = slot7.request
    BY <1>1, <2>1 DEF Accounts!Modal
  <2>3. Accounts!HasLink(slot7.email)
    BY <2>1 DEF AccountsInv, Accounts!AnswersTold
  <2> QED
    BY <1>1, <2>1, <2>2, <2>3, AccountsDialog
<1>3. CASE Accounts!CloseModal
  <2>1. /\ slot7' = [slot7 EXCEPT !.open = FALSE]
        /\ UNCHANGED <<slot1, slot2, slot3, slot4, slot5, slot6, slot8, slot9, slot10>>
    BY <1>3 DEF Accounts!CloseModal
  <2>2. slot7' \in Accounts!Modal /\ slot7'.email = slot7.email /\ slot7'.request = slot7.request
        /\ slot7'.open = FALSE
    BY <1>1, <2>1 DEF Accounts!Modal
  <2> QED
    BY <1>1, <2>1, <2>2, AccountsDialog
<1>4. CASE Accounts!ResendLink
  <2> DEFINE again == [Accounts!Request("resend") EXCEPT !.email = slot7.email]
  <2>1. /\ slot7.open /\ slot7' = [slot7 EXCEPT !.request = again]
        /\ Accounts!Did("posts", MaxPosts)
        /\ UNCHANGED <<slot1, slot2, slot3, slot4, slot5, slot6, slot8, slot9>>
    BY <1>4 DEF Accounts!ResendLink
  <2>2. slot7.email \in Email
    <3>1. PICK i \in DOMAIN slot2 : slot2[i].email = slot7.email
      BY <2>1 DEF AccountsInv, Accounts!OutcomeIsTrue
    <3>2. slot2[i] \in Accounts!LinkRow
      BY DEF AccountsInv, Accounts!TypeOK
    <3> QED
      BY <3>1, <3>2 DEF Accounts!LinkRow
  <2>3. again \in Accounts!Query /\ again.kind = "resend" /\ again.email = slot7.email
    BY <2>2, AccountsRequest DEF Accounts!Query
  <2> HIDE DEF again
  <2>4. slot7' \in Accounts!Modal /\ slot7'.email = slot7.email /\ slot7'.request = again
        /\ slot7'.open = slot7.open
    BY <1>1, <2>1, <2>3 DEF Accounts!Modal
  <2> QED
    BY <2>1, <2>2, <2>3, <2>4, AccountsDialog, AccountsDid
<1>5. CASE Accounts!ResendAnswered
  <2>1. /\ slot7' = [slot7 EXCEPT !.request = Accounts!NoPost, !.cooldown = TRUE]
        /\ UNCHANGED <<slot1, slot2, slot3, slot4, slot5, slot6, slot8, slot9, slot10>>
    BY <1>5 DEF Accounts!ResendAnswered
  <2>2. slot7' \in Accounts!Modal /\ slot7'.email = slot7.email /\ slot7'.request = Accounts!NoPost
        /\ slot7'.open = slot7.open
    BY <1>1, <2>1, AccountsFresh DEF Accounts!Modal
  <2> QED
    BY <1>1, <2>1, <2>2, AccountsDialog
<1>6. CASE Accounts!ResendFails
  <2>1. /\ slot7' = [slot7 EXCEPT !.request = Accounts!NoPost]
        /\ Accounts!Did("outages", MaxOutages)
        /\ UNCHANGED <<slot1, slot2, slot3, slot4, slot5, slot6, slot8, slot9>>
    BY <1>6 DEF Accounts!ResendFails
  <2>2. slot7' \in Accounts!Modal /\ slot7'.email = slot7.email /\ slot7'.request = Accounts!NoPost
        /\ slot7'.open = slot7.open
    BY <1>1, <2>1, AccountsFresh DEF Accounts!Modal
  <2> QED
    BY <2>1, <2>2, AccountsDialog, AccountsDid
<1>7. CASE Accounts!CooldownEnds
  <2>1. /\ slot7' = [slot7 EXCEPT !.cooldown = FALSE]
        /\ UNCHANGED <<slot1, slot2, slot3, slot4, slot5, slot6, slot8, slot9, slot10>>
    BY <1>7 DEF Accounts!CooldownEnds
  <2>2. slot7' \in Accounts!Modal /\ slot7'.email = slot7.email /\ slot7'.request = slot7.request
        /\ slot7'.open = slot7.open
    BY <1>1, <2>1 DEF Accounts!Modal
  <2> QED
    BY <1>1, <2>1, <2>2, AccountsDialog
<1> QED
  BY <1>2, <1>3, <1>4, <1>5, <1>6, <1>7

LEMMA AccountsStarts == Accounts!Init => AccountsInv
<1> SUFFICES ASSUME Accounts!Init PROVE AccountsInv
  OBVIOUS
<1>1. /\ slot1 = [e \in Email |-> "none"] /\ slot2 = <<>>
      /\ slot3 = [page |-> "login", link |-> 0, back |-> <<"none", 0>>]
      /\ slot5 = Accounts!NoPost /\ slot6 = {} /\ slot7 = Accounts!NoModal
      /\ slot8 = Accounts!NoPromises /\ slot9 = [i \in 1..MaxLinks |-> 0]
      /\ slot10 = [k \in {"posts", "moves", "outages"} |-> 0]
      /\ slot4 = Accounts!Fresh(CHOOSE e \in Email : TRUE)
  BY DEF Accounts!Init
<1>2. slot4 \in Accounts!Form /\ slot4.outcome = "none"
  <2>1. (CHOOSE e \in Email : TRUE) \in Email
    BY ConsoleAssumption
  <2> QED
    BY <1>1, <2>1, AccountsFresh
<1>3. slot3 \in Accounts!Place /\ slot3.page = "login" /\ slot3.back[1] = "none"
  BY <1>1 DEF Accounts!Place, Accounts!Page
<1>4. /\ slot5 \in Accounts!Query /\ slot5.kind = "none" /\ slot5.answer = "none"
      /\ slot7 \in Accounts!Modal /\ slot7.open = FALSE /\ slot7.request = Accounts!NoPost
      /\ slot7.request.kind = "none"
  BY <1>1, AccountsFresh
<1>5. \A i \in 1..MaxLinks : slot8[i] = "none" /\ slot9[i] = 0
  BY <1>1 DEF Accounts!NoPromises
<1>6. Accounts!TypeOK
  <2>1. slot2 \in Seq(Accounts!LinkRow) /\ Len(slot2) <= MaxLinks
    BY <1>1, ConsoleAssumption
  <2>2. /\ slot8 \in [1..MaxLinks -> {"none", "sent", "failed", "ok", "used", "expired"}]
        /\ slot9 \in [1..MaxLinks -> Nat] /\ slot10 \in [{"posts", "moves", "outages"} -> Int]
        /\ slot1 \in [Email -> {"none", "unverified", "verified"}]
    BY <1>1 DEF Accounts!NoPromises
  <2> QED
    BY <1>1, <1>2, <1>3, <1>4, <2>1, <2>2 DEF Accounts!TypeOK
<1>7. Accounts!LinksFit
  BY <1>1, <1>3, <1>4, <1>5 DEF Accounts!LinksFit, Accounts!OfPage, Accounts!Fits
<1>8. Accounts!PostFits /\ Accounts!LinksTold /\ Accounts!AnswersTold
  BY <1>1, <1>2, <1>4 DEF Accounts!PostFits, Accounts!LinksTold, Accounts!AnswersTold
<1>9. Accounts!OutcomeIsTrue
  BY <1>2, <1>3, <1>4 DEF Accounts!OutcomeIsTrue
<1>10. Accounts!PresentedPromised /\ Accounts!LinkPresentedOnce
  BY <1>1, <1>5 DEF Accounts!PresentedPromised, Accounts!LinkPresentedOnce
<1> QED
  BY <1>6, <1>7, <1>8, <1>9, <1>10 DEF AccountsInv

LEMMA AccountsSteps ==
  ASSUME AccountsInv, Accounts!Next \/ UNCHANGED Accounts!vars
  PROVE  AccountsInv'
<1>1. CASE UNCHANGED Accounts!vars
  <2>1. UNCHANGED <<slot1, slot2, slot3, slot4, slot5, slot6, slot7, slot8, slot9, slot10>>
    BY <1>1 DEF Accounts!vars
  <2>2. Grown
    BY <2>1, AccountsQuiet
  <2>3. Accounts!TypeOK'
    BY <2>1, <2>2, AccountsTypes DEF AccountsInv, Accounts!TypeOK
  <2> QED
    BY <2>1, <2>2, <2>3, AccountsStay DEF AccountsInv, Accounts!PostFits
<1>2. CASE \/ Accounts!PostHandled \/ Accounts!OrphanHandled \/ Accounts!PostAnswered
           \/ Accounts!PostFails \/ Accounts!OrphanAnswered \/ Accounts!LinkAnswered
           \/ Accounts!Back \/ Accounts!ResendHandled
  BY <1>2, AccountsPostHandled, AccountsOrphanHandled, AccountsPostAnswered, AccountsPostFails,
     AccountsOrphanAnswered, AccountsLinkAnswered, AccountsBack, AccountsResendHandled
<1>3. CASE \/ Accounts!NextStep \/ Accounts!BackStep \/ Accounts!Submit
           \/ Accounts!OpenModal \/ Accounts!CloseModal \/ Accounts!ResendLink
           \/ Accounts!ResendAnswered \/ Accounts!ResendFails \/ Accounts!CooldownEnds
  BY <1>3, AccountsTyping, AccountsSubmit, AccountsModal
<1>4. CASE \/ \E page \in {"login", "register", "forgot"} : Accounts!Visit(page)
           \/ \E field \in {"name", "workspace", "password", "confirm"} : Accounts!Fill(field)
           \/ \E e \in Email : Accounts!ContinueWithGoogle(e) \/ Accounts!TypeEmail(e)
  BY <1>4, AccountsVisit, AccountsTyping, AccountsLoad
<1>5. CASE \E i \in DOMAIN slot2 : Accounts!LinkExpires(i) \/ Accounts!OpenLink(i)
             \/ Accounts!PromiseHandled(i) \/ Accounts!PromiseFails(i)
  BY <1>5, AccountsLinkExpires, AccountsLoad, AccountsPromiseHandled, AccountsPromiseFails
<1> QED
  BY <1>1, <1>2, <1>3, <1>4, <1>5 DEF Accounts!Next

-----------------------------------------------------------------------------
(* The button that runs a workflow by hand.  slot1 to slot11 are flow,     *)
(* manual, row, lookups, info, dialog, posts, started, told, unsure and    *)
(* effort.                                                                 *)

LookupRow == [published : {None} \cup ManualVersion, active : BOOLEAN, answered : BOOLEAN,
              manual : BOOLEAN]
ManualInv ==
  /\ Manual!LookupsTrue /\ Manual!PostsCounted
  /\ slot4 \in Seq(LookupRow)
  /\ slot1 \in [published : {None} \cup ManualVersion, active : BOOLEAN]

LEMMA ManualStarts ==
  ASSUME Manual!Init
  PROVE  ManualInv
<1>1. /\ slot1 \in [published : ManualVersion, active : BOOLEAN]
      /\ slot4 = <<Manual!Lookup(slot1.published)>> /\ slot5 = None /\ slot7 = <<>>
      /\ slot8 = 0 /\ slot9 = 0
  BY DEF Manual!Init
<1>2. /\ Manual!Lookup(slot1.published) \in LookupRow
      /\ Manual!Lookup(slot1.published).manual = FALSE
  BY <1>1 DEF Manual!Lookup, LookupRow
<1>3. slot4 \in Seq(LookupRow)
  BY <1>1, <1>2
<1>4. Manual!LookupsTrue
  BY <1>1, <1>2 DEF Manual!LookupsTrue, Manual!Brought
<1>5. Manual!PostsCounted
  BY <1>1 DEF Manual!PostsCounted, Manual!Posted
<1> QED
  BY <1>1, <1>3, <1>4, <1>5 DEF ManualInv

\* A lookup is asked, answered or given up.
LEMMA ManualLooksUp ==
  ASSUME ManualInv,
         \/ Manual!Relist
         \/ \E i \in DOMAIN slot4 :
              Manual!LookupHandled(i) \/ Manual!LookupAnswered(i) \/ Manual!LookupFails(i)
  PROVE  ManualInv'
<1>1. slot4 \in Seq(LookupRow) /\ Len(slot4) \in Nat /\ DOMAIN slot4 = 1..Len(slot4)
      /\ slot1.published \in {None} \cup ManualVersion
  BY DEF ManualInv
<1>2. UNCHANGED <<slot1, slot2, slot7, slot8, slot9, slot10>>
  BY DEF Manual!Relist, Manual!LookupHandled, Manual!LookupAnswered, Manual!LookupFails
<1>3. /\ slot4' \in Seq(LookupRow)
      /\ slot5' # None => Manual!Brought(slot5')
      /\ \A k \in DOMAIN slot4' : Manual!Brought(slot4'[k])
  <2>1. CASE Manual!Relist
    <3>1. CASE slot4' = slot4
      BY <1>1, <2>1, <3>1 DEF ManualInv, Manual!Relist, Manual!LookupsTrue
    <3>2. CASE slot4' # slot4
      <4> DEFINE row(i) == [slot4[i] EXCEPT !.active = FALSE]
                 old == [i \in DOMAIN slot4 |-> row(i)]
                 new == Manual!Lookup(slot1.published)
      <4>1. slot4' = Append(old, new) /\ slot5' = slot5
        BY <2>1, <3>2 DEF Manual!Relist
      <4>2. \A i \in DOMAIN slot4 : row(i) \in LookupRow /\ row(i).manual = slot4[i].manual
                                   /\ row(i).published = slot4[i].published
        <5> TAKE i \in DOMAIN slot4
        <5>1. slot4[i] \in LookupRow
          BY <1>1
        <5> QED
          BY <5>1 DEF LookupRow
      <4>3. new \in LookupRow /\ new.manual = FALSE
        BY <1>1 DEF Manual!Lookup, LookupRow
      <4> HIDE DEF row, new
      <4>4. old \in Seq(LookupRow) /\ Len(old) = Len(slot4)
        BY <1>1, <4>2, IsASeq
      <4>5. \A i \in DOMAIN slot4 : old[i] = row(i)
        OBVIOUS
      <4> HIDE DEF old
      <4>6. /\ slot4' \in Seq(LookupRow) /\ DOMAIN slot4' = 1..(Len(slot4) + 1)
            /\ \A i \in 1..Len(slot4) : slot4'[i] = old[i]
            /\ slot4'[Len(slot4) + 1] = new
        BY <1>1, <4>1, <4>3, <4>4, AppendProperties
      <4>7. \A i \in DOMAIN slot4 : Manual!Brought(row(i))
        BY <4>2 DEF ManualInv, Manual!LookupsTrue, Manual!Brought
      <4>8. Manual!Brought(new)
        BY <4>3 DEF Manual!Brought
      <4> QED
        BY <1>1, <4>1, <4>5, <4>6, <4>7, <4>8 DEF ManualInv, Manual!LookupsTrue
    <3> QED
      BY <3>1, <3>2
  <2>2. CASE \E i \in DOMAIN slot4 : Manual!LookupHandled(i)
    <3>1. PICK i \in DOMAIN slot4 : Manual!LookupHandled(i)
      BY <2>2
    <3> DEFINE has == Manual!HasManualTrigger(slot4[i].published)
               row == [slot4[i] EXCEPT !.answered = TRUE, !.manual = has]
    <3>2. slot4' = [slot4 EXCEPT ![i] = row] /\ slot5' = slot5
      BY <1>1, <3>1 DEF Manual!LookupHandled, LookupRow
    <3>3. slot4[i] \in LookupRow
      BY <1>1
    <3>4. has \in BOOLEAN /\ (slot4[i].published # None /\ has => slot4[i].published \in slot2)
      <4>1. CASE slot4[i].published # None
        <5>1. has = (slot4[i].published \in slot2)
          BY <4>1, Zenon DEF Manual!HasManualTrigger
        <5>2. (slot4[i].published \in slot2) \in BOOLEAN
          OBVIOUS
        <5> HIDE DEF has
        <5> QED
          BY <4>1, <5>1, <5>2, Zenon
      <4>2. CASE slot4[i].published = None
        <5>1. has = ((CHOOSE v \in ManualVersion : \A u \in ManualVersion : u <= v) \in slot2)
          BY <4>2, Zenon DEF Manual!HasManualTrigger
        <5>2. ((CHOOSE v \in ManualVersion : \A u \in ManualVersion : u <= v) \in slot2) \in BOOLEAN
          OBVIOUS
        <5> HIDE DEF has
        <5> QED
          BY <4>2, <5>1, <5>2, Zenon
      <4> QED
        BY <4>1, <4>2
    <3> HIDE DEF has
    <3>5. row \in LookupRow /\ row.manual = has /\ row.published = slot4[i].published
      BY <3>3, <3>4 DEF LookupRow
    <3>6. Manual!Brought(row)
      BY <3>4, <3>5 DEF Manual!Brought
    <3> HIDE DEF row
    <3>7. /\ slot4' \in Seq(LookupRow) /\ DOMAIN slot4' = DOMAIN slot4
          /\ slot4'[i] = row /\ \A k \in DOMAIN slot4 : k # i => slot4'[k] = slot4[k]
      BY <1>1, <3>2, <3>5, ExceptSeq
    <3> QED
      BY <3>2, <3>6, <3>7 DEF ManualInv, Manual!LookupsTrue
  <2>3. CASE \E i \in DOMAIN slot4 : Manual!LookupAnswered(i) \/ Manual!LookupFails(i)
    <3>1. PICK i \in DOMAIN slot4 : Manual!LookupAnswered(i) \/ Manual!LookupFails(i)
      BY <2>3
    <3>2. slot4' = SubSeq(slot4, 1, i - 1) \o SubSeq(slot4, i + 1, Len(slot4))
      BY <3>1 DEF Manual!LookupAnswered, Manual!LookupFails, Manual!Without
    <3>3. /\ slot4' \in Seq(LookupRow)
          /\ \A k \in DOMAIN slot4' : \E j \in DOMAIN slot4 : slot4'[k] = slot4[j]
      BY <1>1, <3>2, Withdrawn
    <3>4. slot5' # None => Manual!Brought(slot5')
      <4>1. \/ slot5' = slot5 \/ slot5' = None
            \/ slot5' = [published |-> slot4[i].published, manual |-> slot4[i].manual]
        BY <3>1 DEF Manual!LookupAnswered, Manual!LookupFails
      <4> QED
        BY <4>1 DEF ManualInv, Manual!LookupsTrue, Manual!Brought
    <3> QED
      BY <3>3, <3>4 DEF ManualInv, Manual!LookupsTrue
  <2> QED
    BY <2>1, <2>2, <2>3
<1>4. Manual!LookupsTrue'
  BY <1>2, <1>3 DEF Manual!LookupsTrue, Manual!Brought
<1>5. Manual!PostsCounted'
  BY <1>2 DEF ManualInv, Manual!PostsCounted, Manual!Posted
<1> QED
  BY <1>2, <1>3, <1>4, <1>5 DEF ManualInv

\* At most one post, so that without it there is none.
LEMMA ManualPosted ==
  ASSUME Manual!PostsCounted, NEW i \in DOMAIN slot7
  PROVE  /\ i = 1 /\ slot7 \in {<<"sent">>, <<"accepted">>, <<"refused">>}
         /\ Manual!Without(slot7, i) = <<>>
         /\ [slot7 EXCEPT ![i] = "accepted"] = <<"accepted">>
         /\ [slot7 EXCEPT ![i] = "refused"] = <<"refused">>
<1>1. slot7 \in Manual!Posted
  BY DEF Manual!PostsCounted
<1>2. i = 1 /\ slot7 \in {<<"sent">>, <<"accepted">>, <<"refused">>}
  BY <1>1 DEF Manual!Posted
<1>3. Len(slot7) = 1
  BY <1>2
<1>4. SubSeq(slot7, 1, 0) = <<>> /\ SubSeq(slot7, 2, 1) = <<>>
  BY <1>2
<1>5. Manual!Without(slot7, i) = <<>>
  BY <1>2, <1>3, <1>4 DEF Manual!Without
<1> QED
  BY <1>2, <1>5

\* The dialog, a post on its way, and what others publish.
LEMMA ManualRuns ==
  ASSUME ManualInv,
         \/ Manual!OpenRun \/ Manual!CloseRun \/ Manual!SubmitRun
         \/ \E input \in {"valid", "invalid", "too_large"} : Manual!EditInput(input)
         \/ \E i \in DOMAIN slot7 : Manual!RunHandled(i) \/ Manual!RunAnswered(i) \/ Manual!RunFails(i)
         \/ \E v \in ManualVersion : Manual!OthersPublish(v)
  PROVE  ManualInv'
<1>1. UNCHANGED <<slot2, slot4, slot5>>
  BY DEF Manual!OpenRun, Manual!CloseRun, Manual!SubmitRun, Manual!EditInput, Manual!RunHandled,
         Manual!RunAnswered, Manual!RunFails, Manual!OthersPublish
<1>2. Manual!LookupsTrue' /\ (slot4 \in Seq(LookupRow))'
  BY <1>1 DEF ManualInv, Manual!LookupsTrue, Manual!Brought
<1>3. slot1' \in [published : {None} \cup ManualVersion, active : BOOLEAN]
  <2>1. CASE \E v \in ManualVersion : Manual!OthersPublish(v)
    <3>1. PICK v \in ManualVersion : Manual!OthersPublish(v)
      BY <2>1
    <3>2. slot1 \in [published : {None} \cup ManualVersion, active : BOOLEAN]
      BY DEF ManualInv
    <3>3. \/ slot1' = [slot1 EXCEPT !.published = v, !.active = TRUE]
          \/ slot1' = [slot1 EXCEPT !.active = FALSE]
          \/ slot1' = [published |-> None, active |-> FALSE]
      BY <3>1 DEF Manual!OthersPublish
    <3>4. CASE slot1' = [slot1 EXCEPT !.published = v, !.active = TRUE]
      BY <3>1, <3>2, <3>4
    <3>5. CASE slot1' = [slot1 EXCEPT !.active = FALSE]
      BY <3>2, <3>5
    <3>6. CASE slot1' = [published |-> None, active |-> FALSE]
      BY <3>6
    <3> QED
      BY <3>3, <3>4, <3>5, <3>6
  <2>2. CASE slot1' = slot1
    BY <2>2 DEF ManualInv
  <2> QED
    BY <2>1, <2>2 DEF Manual!OpenRun, Manual!CloseRun, Manual!SubmitRun, Manual!EditInput,
       Manual!RunHandled, Manual!RunAnswered, Manual!RunFails
<1>4. Manual!PostsCounted'
  <2>0. Manual!PostsCounted
    BY DEF ManualInv
  <2>1. CASE UNCHANGED <<slot7, slot8, slot9, slot10>>
    BY <2>0, <2>1 DEF Manual!PostsCounted
  <2>2. CASE Manual!SubmitRun
    BY <2>0, <2>2 DEF Manual!SubmitRun, Manual!PostsCounted, Manual!Posted
  <2>3. CASE \E i \in DOMAIN slot7 : Manual!RunHandled(i)
    <3>1. PICK i \in DOMAIN slot7 : Manual!RunHandled(i)
      BY <2>3
    <3>2. /\ i = 1 /\ slot7 \in {<<"sent">>, <<"accepted">>, <<"refused">>}
          /\ [slot7 EXCEPT ![i] = "accepted"] = <<"accepted">>
          /\ [slot7 EXCEPT ![i] = "refused"] = <<"refused">>
      BY <2>0, ManualPosted
    <3>3. slot7 = <<"sent">> /\ UNCHANGED <<slot9, slot10>>
      BY <3>1, <3>2 DEF Manual!RunHandled
    <3>4. \/ slot7' = <<"accepted">> /\ slot8' = slot8 + 1
          \/ slot7' = <<"refused">> /\ slot8' = slot8
      BY <3>1, <3>2 DEF Manual!RunHandled
    <3> QED
      BY <2>0, <3>3, <3>4 DEF Manual!PostsCounted, Manual!Posted
  <2>4. CASE \E i \in DOMAIN slot7 : Manual!RunAnswered(i)
    <3>1. PICK i \in DOMAIN slot7 : Manual!RunAnswered(i)
      BY <2>4
    <3>2. /\ i = 1 /\ slot7 \in {<<"sent">>, <<"accepted">>, <<"refused">>}
          /\ Manual!Without(slot7, i) = <<>>
      BY <2>0, ManualPosted
    <3>3. /\ slot7' = <<>> /\ UNCHANGED <<slot8, slot10>>
          /\ \/ slot7 = <<"accepted">> /\ slot9' = slot9 + 1
             \/ slot7 = <<"refused">> /\ slot9' = slot9
      BY <3>1, <3>2 DEF Manual!RunAnswered
    <3> QED
      BY <2>0, <3>3 DEF Manual!PostsCounted, Manual!Posted
  <2>5. CASE \E i \in DOMAIN slot7 : Manual!RunFails(i)
    <3>1. PICK i \in DOMAIN slot7 : Manual!RunFails(i)
      BY <2>5
    <3>2. slot7' = <<>> /\ slot10' = TRUE /\ UNCHANGED <<slot8, slot9>>
      BY <2>0, <3>1, ManualPosted DEF Manual!RunFails
    <3> QED
      BY <2>0, <3>2 DEF Manual!PostsCounted, Manual!Posted
  <2> QED
    BY <2>1, <2>2, <2>3, <2>4, <2>5 DEF Manual!OpenRun, Manual!CloseRun, Manual!EditInput,
       Manual!OthersPublish
<1> QED
  BY <1>2, <1>3, <1>4 DEF ManualInv

LEMMA ManualSteps ==
  ASSUME ManualInv, Manual!Next \/ UNCHANGED Manual!vars
  PROVE  ManualInv'
<1>1. CASE UNCHANGED Manual!vars
  BY <1>1 DEF Manual!vars, ManualInv, Manual!LookupsTrue, Manual!Brought, Manual!PostsCounted
<1>2. CASE Manual!Next
  BY <1>2, ManualLooksUp, ManualRuns DEF Manual!Next
<1> QED
  BY <1>1, <1>2

LEMMA ManualTold == ManualInv => Manual!RunsOnce /\ Manual!OffersOnlyManual
<1> SUFFICES ASSUME ManualInv PROVE Manual!RunsOnce /\ Manual!OffersOnlyManual
  OBVIOUS
<1>1. Manual!RunsOnce
  BY DEF ManualInv, Manual!PostsCounted, Manual!RunsOnce
<1>2. Manual!OffersOnlyManual
  BY DEF ManualInv, Manual!LookupsTrue, Manual!Brought, Manual!OffersOnlyManual, Manual!CanRun,
         Manual!IsManual, Manual!Info
<1> QED
  BY <1>1, <1>2

-----------------------------------------------------------------------------
(* The schedule of a workflow.  slot1 to slot15 are flow, ever, row, ids,  *)
(* panel, load, draft, kept, ops, warning, typed, served, paused, blind    *)
(* and spent.                                                              *)

ScheduleSlot == {"panel", "orphan", "builder"}
PanelRow == [readOnly : BOOLEAN, loading : BOOLEAN, needsRefresh : BOOLEAN,
             shown : [flow : Schedule!WorkflowRow, row : Schedule!Row \cup {None}] \cup {None},
             live : Schedule!Changes, editing : BOOLEAN, confirm : BOOLEAN]
ReadRow == [flow : Schedule!WorkflowRow \cup {None}, row : Schedule!Row \cup {None}, rowRead : BOOLEAN]

\* What the service has.
StoredInv ==
  /\ slot1 \in Schedule!WorkflowRow /\ slot3 \in Schedule!Row \cup {None}
  /\ slot4 \in Nat /\ slot13 \in 0..slot4
  /\ Schedule!NumbersFit /\ Schedule!PauseKept
\* What the page has.
SheetInv ==
  /\ slot5 \in PanelRow /\ slot6 \in ReadRow
  /\ slot7 \in [text : Schedule!Text, dirty : BOOLEAN]
  /\ slot8 \in Schedule!Text \cup {None} /\ slot11 \in Schedule!Text \cup {None}
  /\ slot9 \in [ScheduleSlot -> Schedule!Calls] /\ slot12 \in BOOLEAN
  /\ Schedule!OnlyAskedResumes /\ Schedule!BlindIsSeen /\ Schedule!CallsAreOfShown
  /\ Schedule!NoBlindWrite /\ Schedule!DraftIsKept
\* What becomes of the draft, as long as every published version has a trigger.
DraftInv == slot2 \subseteq Triggered => Schedule!CallsCarryDraft /\ Schedule!DraftKept
ScheduleInv == StoredInv /\ SheetInv /\ DraftInv

-----------------------------------------------------------------------------
(* The operators of the panel.                                             *)

LEMMA ScheduleValues ==
  /\ Schedule!NoChanges \in Schedule!Changes /\ Schedule!NoChanges.enabled = None
  /\ Schedule!NoChanges.input = None
  /\ Schedule!NoOp \in Schedule!Calls /\ Schedule!NoOp.changes = Schedule!NoChanges
  /\ Schedule!NoOp.at = "done" /\ Schedule!NoOp.dirty = FALSE
  /\ Schedule!NoOp.kind = "none"
  /\ Schedule!Unread \in ReadRow
  /\ {"empty", "typed", "invalid"} \subseteq Schedule!Text
<1>1. /\ Schedule!NoChanges \in Schedule!Changes /\ Schedule!NoChanges.enabled = None
      /\ Schedule!NoChanges.input = None
  BY DEF Schedule!NoChanges, Schedule!Changes
<1>2. [published |-> 1, active |-> TRUE] \in Schedule!WorkflowRow
  BY DEF Schedule!WorkflowRow
<1>3. {"empty", "typed", "invalid"} \subseteq Schedule!Text
  BY DEF Schedule!Text
<1>4. /\ Schedule!NoOp \in Schedule!Calls /\ Schedule!NoOp.changes = Schedule!NoChanges
      /\ Schedule!NoOp.at = "done" /\ Schedule!NoOp.dirty = FALSE /\ Schedule!NoOp.kind = "none"
  <2> DEFINE first == [published |-> 1, active |-> TRUE]
             none == Schedule!NoChanges
  <2>1. first \in Schedule!WorkflowRow /\ none \in Schedule!Changes /\ "empty" \in Schedule!Text
    BY <1>1, <1>2, <1>3
  <2>2. Schedule!NoOp = [kind |-> "none", at |-> "done", text |-> "empty", dirty |-> FALSE,
          config |-> None, enabled |-> TRUE, changes |-> none, id |-> 0, flow |-> first,
          again |-> FALSE, warn |-> FALSE]
    BY DEF Schedule!NoOp
  <2> HIDE DEF first, none
  <2>3. Schedule!NoOp \in Schedule!Calls
    <3> DEFINE c == Schedule!Changes
               f == Schedule!WorkflowRow
               x == Schedule!Text
    <3>1. first \in f /\ none \in c /\ "empty" \in x /\ 0 \in Nat
      BY <2>1
    <3>2. Schedule!Calls = [kind : Schedule!Kind, at : Schedule!Place, text : x, dirty : BOOLEAN,
            config : Int \cup {None}, enabled : BOOLEAN, changes : c, id : Nat, flow : f,
            again : BOOLEAN, warn : BOOLEAN]
      BY DEF Schedule!Calls
    <3> HIDE DEF c, f, x
    <3> QED
      BY <2>2, <3>1, <3>2 DEF Schedule!Kind, Schedule!Place
  <2> QED
    BY <2>2, <2>3 DEF none
<1> QED
  BY <1>1, <1>3, <1>4 DEF Schedule!Unread, ReadRow

LEMMA ScheduleFresh ==
  \A readOnly \in BOOLEAN :
    Schedule!Fresh(readOnly) \in PanelRow /\ Schedule!Fresh(readOnly).shown = None
BY ScheduleValues DEF Schedule!Fresh, PanelRow

LEMMA ScheduleRead ==
  \A text \in Schedule!Text \cup {None} :
    /\ Schedule!Read(text) \in [text : Schedule!Text, dirty : BOOLEAN]
    /\ Schedule!Read(text).dirty <=> text # None
    /\ text # None => Schedule!Read(text).text = text
BY ScheduleValues DEF Schedule!Read

\* The next call of a sequence: only its place changes.
LEMMA ScheduleAt ==
  \A op \in Schedule!Calls, at \in Schedule!Place :
    LET new == [op EXCEPT !.at = at]
    IN  /\ new \in Schedule!Calls /\ new.at = at /\ new.kind = op.kind /\ new.text = op.text
        /\ new.dirty = op.dirty /\ new.changes = op.changes /\ new.flow = op.flow
        /\ new.id = op.id /\ new.enabled = op.enabled /\ new.config = op.config
BY DEF Schedule!Calls

LEMMA ScheduleCalls ==
  \A op \in Schedule!Calls :
    /\ op.kind \in Schedule!Kind /\ op.at \in Schedule!Place /\ op.text \in Schedule!Text
    /\ op.dirty \in BOOLEAN /\ op.config \in Int \cup {None} /\ op.enabled \in BOOLEAN
    /\ op.changes \in Schedule!Changes /\ op.id \in Nat /\ op.flow \in Schedule!WorkflowRow
BY DEF Schedule!Calls

-----------------------------------------------------------------------------
(* How a call ends.                                                        *)

\* What was typed stays typed, and what is stored stays stored.
TypedStays ==
  /\ slot11' = slot11 /\ slot12' \in BOOLEAN /\ (slot12 => slot12') /\ slot2 \subseteq slot2'

\* The next call carries what this one did, and comes to be sure of it.
Carries(s, op) ==
  /\ op.kind = slot9[s].kind /\ op.dirty = slot9[s].dirty /\ op.text = slot9[s].text
  /\ op.changes.enabled = TRUE => op.kind \in {"toggle", "edit"}
  /\ slot9[s].at \in {"publish", "check"} => op.at = "check"
  /\ slot2' \subseteq Triggered /\ op.at \in {"delete", "list"} => op.kind = "delete"
  /\ slot2' \subseteq Triggered /\ Schedule!Takes(s) /\ op.dirty =>
       /\ op.at = "update" => op.changes.input = slot11 \/ slot12'
       /\ op.at \in {"get", "confirm"} => slot12'

LEMMA ScheduleGoes ==
  ASSUME SheetInv, DraftInv, TypedStays, NEW s \in ScheduleSlot, NEW op \in Schedule!Calls,
         slot9[s] # Schedule!NoOp, Schedule!Goto(s, op), Carries(s, op)
  PROVE  SheetInv' /\ DraftInv'
<1>1. /\ UNCHANGED <<slot5, slot6, slot7, slot8, slot10, slot11, slot14>>
      /\ slot9' = [slot9 EXCEPT ![s] = op]
  BY DEF Schedule!Goto, Schedule!page, TypedStays
<1>2. slot9 \in [ScheduleSlot -> Schedule!Calls]
  BY DEF SheetInv
<1>3. /\ slot9' \in [ScheduleSlot -> Schedule!Calls] /\ slot9'[s] = op
      /\ \A r \in ScheduleSlot : r # s => slot9'[r] = slot9[r]
      /\ DOMAIN slot9 = ScheduleSlot /\ DOMAIN slot9' = ScheduleSlot
  BY <1>1, <1>2
<1>4. Schedule!OnlyAskedResumes'
  BY <1>3 DEF Carries, SheetInv, Schedule!OnlyAskedResumes
<1>5. slot9'["panel"] # Schedule!NoOp => slot9["panel"] # Schedule!NoOp
  BY <1>3 DEF ScheduleSlot
<1>6. Schedule!BlindIsSeen' /\ Schedule!CallsAreOfShown' /\ Schedule!NoBlindWrite'
  BY <1>1, <1>5 DEF SheetInv, Schedule!BlindIsSeen, Schedule!CallsAreOfShown, Schedule!NoBlindWrite
<1>7. Schedule!DraftIsKept'
  BY <1>1 DEF SheetInv, Schedule!DraftIsKept
<1>8. SheetInv'
  BY <1>1, <1>3, <1>4, <1>6, <1>7 DEF SheetInv, TypedStays
<1>9. ASSUME slot2' \subseteq Triggered PROVE Schedule!DraftKept' /\ Schedule!CallsCarryDraft'
  <2>1. slot2 \subseteq Triggered
    BY <1>9 DEF TypedStays
  <2>2. Schedule!DraftKept /\ Schedule!CallsCarryDraft
    BY <2>1 DEF DraftInv
  <2>3. Schedule!DraftKept'
    BY <1>1, <2>2 DEF Schedule!DraftKept, TypedStays
  <2>4. Schedule!OnlyDeleteLists'
    BY <1>3, <1>9, <2>2 DEF Schedule!OnlyDeleteLists, Schedule!CallsCarryDraft, Carries, ScheduleSlot
  <2>5. ASSUME NEW r \in ScheduleSlot, Schedule!Takes(r)' PROVE Schedule!CarriesDraft(r)'
    <3>1. CASE r = s
      <4>1. Schedule!Takes(s)
        BY <1>3, <2>5, <3>1 DEF Schedule!Takes, Schedule!Saves, Carries
      <4>2. Schedule!CarriesDraft(s)
        BY <1>3, <2>2, <4>1 DEF Schedule!CallsCarryDraft
      <4>3. s = "panel" => (op.dirty <=> slot7.dirty)
        BY <4>2, Zenon DEF Schedule!CarriesDraft, Carries
      <4>4. op.dirty => op.text # None /\ op.text = slot11
        BY <4>2 DEF Schedule!CarriesDraft, Carries
      <4>5. op.dirty => /\ op.at = "update" => op.changes.input = slot11 \/ slot12'
                        /\ op.at \in {"get", "confirm"} => slot12'
        BY <1>9, <4>1 DEF Carries
      <4>6. slot9'[r] = op /\ slot7' = slot7 /\ slot11' = slot11
        BY <1>1, <1>3, <3>1
      <4> QED
        BY <3>1, <4>3, <4>4, <4>5, <4>6 DEF Schedule!CarriesDraft
    <3>2. CASE r # s
      <4>1. slot9'[r] = slot9[r]
        BY <1>3, <3>2
      <4>2. Schedule!Takes(r)
        BY <2>5, <4>1 DEF Schedule!Takes
      <4>3. Schedule!CarriesDraft(r)
        BY <1>3, <2>2, <4>2 DEF Schedule!CallsCarryDraft
      <4> QED
        BY <1>1, <4>1, <4>3 DEF Schedule!CarriesDraft, TypedStays
    <3> QED
      BY <3>1, <3>2
  <2> QED
    BY <1>3, <2>3, <2>4, <2>5 DEF Schedule!CallsCarryDraft
<1> QED
  BY <1>8, <1>9 DEF DraftInv

\* The panel is opened anew; what it had under way goes on without it.
LEMMA ScheduleMounts ==
  ASSUME SheetInv, NEW readOnly \in BOOLEAN, NEW opsLeft \in [ScheduleSlot -> Schedule!Calls],
         Schedule!Mount(readOnly, opsLeft), UNCHANGED slot11, slot12' \in BOOLEAN,
         \A s \in ScheduleSlot :
           opsLeft[s].changes.enabled = TRUE => opsLeft[s].kind \in {"toggle", "edit"},
         slot8' = slot8 \/ slot8' = None
  PROVE  /\ SheetInv' /\ slot9'["panel"] = Schedule!NoOp /\ slot9'["builder"] = opsLeft["builder"]
         /\ slot9'["orphan"] \in {opsLeft["orphan"], opsLeft["panel"]}
<1>1. /\ slot5' = Schedule!Fresh(readOnly) /\ slot6' = Schedule!Unread
      /\ slot7' = Schedule!Read(slot8')
  BY DEF Schedule!Mount
<1> DEFINE orphan == IF opsLeft["panel"] = Schedule!NoOp THEN opsLeft["orphan"]
                     ELSE opsLeft["panel"]
<1>2. slot9' = [opsLeft EXCEPT !["panel"] = Schedule!NoOp, !["orphan"] = orphan]
  BY DEF Schedule!Mount, ScheduleSlot
<1>3. orphan \in {opsLeft["orphan"], opsLeft["panel"]} /\ orphan \in Schedule!Calls
  BY DEF ScheduleSlot
<1> HIDE DEF orphan
<1>4. /\ slot9' \in [ScheduleSlot -> Schedule!Calls] /\ slot9'["panel"] = Schedule!NoOp
      /\ slot9'["builder"] = opsLeft["builder"] /\ slot9'["orphan"] = orphan
  BY <1>2, <1>3, ScheduleValues DEF ScheduleSlot
<1>5. Schedule!OnlyAskedResumes'
  <2> SUFFICES ASSUME NEW s \in ScheduleSlot, slot9'[s].changes.enabled = TRUE
               PROVE  slot9'[s].kind \in {"toggle", "edit"}
    BY <1>4 DEF Schedule!OnlyAskedResumes
  <2>1. CASE s = "panel"
    BY <1>4, <2>1, ScheduleValues, ScheduleAssumption
  <2>2. CASE s # "panel"
    BY <1>3, <1>4, <2>2 DEF ScheduleSlot
  <2> QED
    BY <2>1, <2>2
<1>6. slot5' \in PanelRow /\ slot5'.shown = None /\ slot6' \in ReadRow
  BY <1>1, ScheduleFresh, ScheduleValues
<1>7. slot8' \in Schedule!Text \cup {None}
  BY DEF SheetInv
<1>8. /\ slot7' \in [text : Schedule!Text, dirty : BOOLEAN] /\ (slot7'.dirty <=> slot8' # None)
      /\ slot8' # None => slot7'.text = slot8'
  BY <1>1, <1>7, ScheduleRead
<1>9. Schedule!DraftIsKept'
  BY <1>8 DEF SheetInv, Schedule!DraftIsKept
<1>10. Schedule!BlindIsSeen' /\ Schedule!CallsAreOfShown' /\ Schedule!NoBlindWrite'
  BY <1>4, <1>6 DEF Schedule!BlindIsSeen, Schedule!CallsAreOfShown, Schedule!NoBlindWrite
<1> QED
  BY <1>3, <1>4, <1>5, <1>6, <1>7, <1>8, <1>9, <1>10 DEF SheetInv

LEMMA ScheduleBuilderDone ==
  ASSUME SheetInv, DraftInv, TypedStays, NEW result \in Schedule!Row \cup {None},
         NEW failed \in BOOLEAN, slot9["builder"] # Schedule!NoOp,
         Schedule!BuilderDone(slot9["builder"], result, failed),
         slot2' \subseteq Triggered /\ slot9["builder"].dirty /\ result # None => slot12'
  PROVE  SheetInv' /\ DraftInv'
<1> DEFINE op == slot9["builder"]
           left == [slot9 EXCEPT !["builder"] = Schedule!NoOp]
<1>1. slot9 \in [ScheduleSlot -> Schedule!Calls] /\ DOMAIN slot9 = ScheduleSlot
  BY DEF SheetInv
<1>2. /\ left \in [ScheduleSlot -> Schedule!Calls] /\ left["builder"] = Schedule!NoOp
      /\ left["orphan"] = slot9["orphan"] /\ left["panel"] = slot9["panel"]
  BY <1>1, ScheduleValues DEF ScheduleSlot
<1>3. Schedule!Mount(slot5.readOnly, left) /\ slot5.readOnly \in BOOLEAN
  BY DEF Schedule!BuilderDone, SheetInv, PanelRow
<1>4. slot8' = IF result # None /\ op.dirty /\ slot8 = op.text THEN None ELSE slot8
  BY DEF Schedule!BuilderDone
<1> HIDE DEF left
<1>5. \A s \in ScheduleSlot : left[s].changes.enabled = TRUE => left[s].kind \in {"toggle", "edit"}
  <2> TAKE s \in ScheduleSlot
  <2>1. CASE s = "builder"
    BY <1>2, <2>1, ScheduleValues, ScheduleAssumption
  <2>2. CASE s # "builder"
    BY <1>1, <1>2, <2>2 DEF SheetInv, Schedule!OnlyAskedResumes, ScheduleSlot
  <2> QED
    BY <2>1, <2>2
<1>6. /\ SheetInv' /\ slot9'["panel"] = Schedule!NoOp /\ slot9'["builder"] = Schedule!NoOp
      /\ slot9'["orphan"] \in {slot9["orphan"], slot9["panel"]}
  BY <1>2, <1>3, <1>4, <1>5, ScheduleMounts DEF TypedStays
<1>7. ASSUME slot2' \subseteq Triggered PROVE Schedule!DraftKept' /\ Schedule!CallsCarryDraft'
  <2>1. Schedule!DraftKept /\ Schedule!CallsCarryDraft
    BY <1>7 DEF DraftInv, TypedStays
  <2>2. Schedule!CallsCarryDraft'
    <3>1. DOMAIN slot9' = ScheduleSlot
      BY <1>6 DEF SheetInv
    <3>2. Schedule!OnlyDeleteLists'
      BY <1>1, <1>6, <2>1, <3>1, ScheduleValues
      DEF Schedule!OnlyDeleteLists, Schedule!CallsCarryDraft, ScheduleSlot
    <3>3. \A s \in ScheduleSlot : ~Schedule!Takes(s)'
      BY <1>6, ScheduleValues DEF Schedule!Takes, Schedule!Saves, ScheduleSlot
    <3> QED
      BY <3>1, <3>2, <3>3 DEF Schedule!CallsCarryDraft
  <2>3. Schedule!DraftKept'
    <3>1. CASE slot8' = slot8
      BY <2>1, <3>1 DEF Schedule!DraftKept, TypedStays
    <3>2. CASE slot8' # slot8
      <4>1. result # None /\ op.dirty /\ slot8 = op.text
        BY <1>4, <3>2
      <4> QED
        BY <1>7, <4>1 DEF Schedule!DraftKept
    <3> QED
      BY <3>1, <3>2
  <2> QED
    BY <2>2, <2>3
<1> QED
  BY <1>6, <1>7 DEF DraftInv

\* The calls of s are over.
LEMMA ScheduleEnded ==
  ASSUME SheetInv, NEW s \in ScheduleSlot, slot9' = [slot9 EXCEPT ![s] = Schedule!NoOp]
  PROVE  /\ slot9' \in [ScheduleSlot -> Schedule!Calls] /\ DOMAIN slot9' = ScheduleSlot
         /\ slot9'[s] = Schedule!NoOp /\ \A r \in ScheduleSlot : r # s => slot9'[r] = slot9[r]
         /\ Schedule!OnlyAskedResumes'
<1>1. slot9 \in [ScheduleSlot -> Schedule!Calls] /\ DOMAIN slot9 = ScheduleSlot
  BY DEF SheetInv
<1>2. /\ slot9' \in [ScheduleSlot -> Schedule!Calls] /\ DOMAIN slot9' = ScheduleSlot
      /\ slot9'[s] = Schedule!NoOp /\ \A r \in ScheduleSlot : r # s => slot9'[r] = slot9[r]
  BY <1>1, ScheduleValues
<1>3. Schedule!OnlyAskedResumes'
  BY <1>1, <1>2, ScheduleValues, ScheduleAssumption DEF SheetInv, Schedule!OnlyAskedResumes
<1> QED
  BY <1>2, <1>3

\* The draft, when the calls of s are over and it is not dropped.
LEMMA ScheduleDraftStays ==
  ASSUME SheetInv, DraftInv, TypedStays, NEW s \in ScheduleSlot,
         slot9' = [slot9 EXCEPT ![s] = Schedule!NoOp], UNCHANGED <<slot7, slot8>>
  PROVE  DraftInv'
<1>1. /\ DOMAIN slot9' = ScheduleSlot /\ DOMAIN slot9 = ScheduleSlot
      /\ slot9'[s] = Schedule!NoOp /\ \A r \in ScheduleSlot : r # s => slot9'[r] = slot9[r]
  BY ScheduleEnded DEF SheetInv
<1> SUFFICES ASSUME slot2' \subseteq Triggered PROVE Schedule!CallsCarryDraft' /\ Schedule!DraftKept'
  BY DEF DraftInv
<1>2. Schedule!CallsCarryDraft /\ Schedule!DraftKept
  BY DEF DraftInv, TypedStays
<1>3. Schedule!DraftKept'
  BY <1>2 DEF Schedule!DraftKept, TypedStays
<1>4. Schedule!OnlyDeleteLists'
  BY <1>1, <1>2, ScheduleValues DEF Schedule!OnlyDeleteLists, Schedule!CallsCarryDraft, ScheduleSlot
<1>5. ASSUME NEW r \in ScheduleSlot, Schedule!Takes(r)' PROVE Schedule!CarriesDraft(r)'
  <2>1. r # s
    BY <1>1, <1>5, ScheduleValues DEF Schedule!Takes, Schedule!Saves
  <2>2. slot9'[r] = slot9[r]
    BY <1>1, <2>1
  <2>3. Schedule!CarriesDraft(r)
    BY <1>1, <1>2, <1>5, <2>2 DEF Schedule!CallsCarryDraft, Schedule!Takes
  <2> QED
    BY <2>2, <2>3 DEF Schedule!CarriesDraft, TypedStays
<1> QED
  BY <1>1, <1>3, <1>4, <1>5 DEF Schedule!CallsCarryDraft

LEMMA SchedulePanelFails ==
  ASSUME SheetInv, DraftInv, TypedStays, slot9["panel"] # Schedule!NoOp, Schedule!PanelFails
  PROVE  SheetInv' /\ DraftInv'
<1>1. /\ slot9' = [slot9 EXCEPT !["panel"] = Schedule!NoOp]
      /\ slot5' = [slot5 EXCEPT !.needsRefresh = TRUE, !.confirm = FALSE]
      /\ UNCHANGED <<slot6, slot7, slot8>>
  BY DEF Schedule!PanelFails
<1>2. "panel" \in ScheduleSlot
  BY DEF ScheduleSlot
<1>3. DraftInv'
  BY <1>1, <1>2, ScheduleDraftStays
<1>4. /\ slot9' \in [ScheduleSlot -> Schedule!Calls] /\ slot9'["panel"] = Schedule!NoOp
      /\ Schedule!OnlyAskedResumes'
  BY <1>1, <1>2, ScheduleEnded
<1>5. slot5' \in PanelRow /\ slot5'.needsRefresh = TRUE
  <2>1. slot5 \in PanelRow
    BY DEF SheetInv
  <2> QED
    BY <1>1, <2>1 DEF PanelRow
<1>6. Schedule!BlindIsSeen' /\ Schedule!CallsAreOfShown' /\ Schedule!NoBlindWrite'
  BY <1>4, <1>5 DEF Schedule!BlindIsSeen, Schedule!CallsAreOfShown, Schedule!NoBlindWrite
<1>7. Schedule!DraftIsKept'
  BY <1>1 DEF SheetInv, TypedStays, Schedule!DraftIsKept
<1> QED
  BY <1>1, <1>3, <1>4, <1>5, <1>6, <1>7 DEF SheetInv, TypedStays

\* Calls that are not of the panel end without a trace in it.
LEMMA ScheduleDropped ==
  ASSUME SheetInv, DraftInv, TypedStays, NEW s \in ScheduleSlot \ {"panel"},
         slot9' = [slot9 EXCEPT ![s] = Schedule!NoOp], UNCHANGED <<Schedule!page, slot14>>
  PROVE  SheetInv' /\ DraftInv'
<1>1. UNCHANGED <<slot5, slot6, slot7, slot8, slot14>>
  BY DEF Schedule!page
<1>2. DraftInv'
  BY <1>1, ScheduleDraftStays
<1>3. /\ slot9' \in [ScheduleSlot -> Schedule!Calls] /\ slot9'["panel"] = slot9["panel"]
      /\ Schedule!OnlyAskedResumes'
  BY ScheduleEnded DEF ScheduleSlot
<1>4. Schedule!BlindIsSeen' /\ Schedule!CallsAreOfShown' /\ Schedule!NoBlindWrite'
  BY <1>1, <1>3
  DEF SheetInv, Schedule!BlindIsSeen, Schedule!CallsAreOfShown, Schedule!NoBlindWrite
<1>5. Schedule!DraftIsKept'
  BY <1>1 DEF SheetInv, TypedStays, Schedule!DraftIsKept
<1> QED
  BY <1>1, <1>2, <1>3, <1>4, <1>5 DEF SheetInv, TypedStays

LEMMA SchedulePanelDone ==
  ASSUME SheetInv, DraftInv, TypedStays, NEW result \in Schedule!Row \cup {None},
         slot9["panel"] # Schedule!NoOp, Schedule!PanelDone(slot9["panel"], result),
         slot2' \subseteq Triggered /\ Schedule!Takes("panel") /\ slot9["panel"].dirty
           /\ result # None => slot12'
  PROVE  SheetInv' /\ DraftInv'
<1> DEFINE op == slot9["panel"]
           drops == Schedule!Saves(op.kind) /\ result # None
<1>1. /\ slot9' = [slot9 EXCEPT !["panel"] = Schedule!NoOp] /\ UNCHANGED <<slot6, slot14>>
      /\ slot5' = [slot5 EXCEPT !.shown.row = result, !.live = Schedule!NoChanges,
                                !.editing = FALSE, !.confirm = FALSE]
      /\ drops => slot7' = [text |-> result.input, dirty |-> FALSE] /\ slot8' = None
      /\ ~drops => UNCHANGED <<slot7, slot8>>
  BY DEF Schedule!PanelDone
<1>2. "panel" \in ScheduleSlot /\ "builder" \in ScheduleSlot
  BY DEF ScheduleSlot
<1>3. /\ slot9' \in [ScheduleSlot -> Schedule!Calls] /\ slot9'["panel"] = Schedule!NoOp
      /\ DOMAIN slot9' = ScheduleSlot /\ DOMAIN slot9 = ScheduleSlot
      /\ \A r \in ScheduleSlot : r # "panel" => slot9'[r] = slot9[r]
      /\ Schedule!OnlyAskedResumes'
  BY <1>1, <1>2, ScheduleEnded DEF SheetInv
<1>4. slot5' \in PanelRow
  <2>1. slot5 \in PanelRow /\ slot5.shown # None
    BY DEF SheetInv, Schedule!CallsAreOfShown
  <2> DEFINE seen == [slot5.shown EXCEPT !.row = result]
  <2>2. seen \in [flow : Schedule!WorkflowRow, row : Schedule!Row \cup {None}]
    BY <2>1 DEF PanelRow
  <2>3. slot5' = [slot5 EXCEPT !.shown = seen, !.live = Schedule!NoChanges,
                               !.editing = FALSE, !.confirm = FALSE]
    BY <1>1, <2>1 DEF PanelRow
  <2> HIDE DEF seen
  <2> QED
    BY <2>1, <2>2, <2>3, ScheduleValues DEF PanelRow
<1>5. Schedule!BlindIsSeen' /\ Schedule!CallsAreOfShown' /\ Schedule!NoBlindWrite'
  BY <1>1, <1>3
  DEF SheetInv, Schedule!BlindIsSeen, Schedule!CallsAreOfShown, Schedule!NoBlindWrite
<1>6. CASE ~drops
  <2>1. DraftInv'
    BY <1>1, <1>2, <1>6, ScheduleDraftStays
  <2>2. Schedule!DraftIsKept'
    BY <1>1, <1>6 DEF SheetInv, TypedStays, Schedule!DraftIsKept
  <2> QED
    BY <1>1, <1>3, <1>4, <1>5, <1>6, <2>1, <2>2 DEF SheetInv, TypedStays
<1>7. CASE drops
  <2>1. /\ slot7' = [text |-> result.input, dirty |-> FALSE] /\ slot8' = None
        /\ result \in Schedule!Row /\ result.input \in Schedule!Text
    BY <1>1, <1>7 DEF Schedule!Row
  <2>2. Schedule!DraftIsKept'
    BY <2>1 DEF Schedule!DraftIsKept
  <2>3. SheetInv'
    BY <1>1, <1>3, <1>4, <1>5, <2>1, <2>2 DEF SheetInv, TypedStays
  <2>4. ASSUME slot2' \subseteq Triggered PROVE Schedule!CallsCarryDraft' /\ Schedule!DraftKept'
    <3>1. Schedule!CallsCarryDraft /\ Schedule!DraftKept
      BY <2>4 DEF DraftInv, TypedStays
    <3>2. Schedule!OnlyDeleteLists'
      BY <1>2, <1>3, <3>1, ScheduleValues DEF Schedule!OnlyDeleteLists, Schedule!CallsCarryDraft
    <3>3. ASSUME NEW r \in ScheduleSlot, Schedule!Takes(r)' PROVE Schedule!CarriesDraft(r)'
      <4>1. r = "builder" /\ slot9'[r] = slot9[r]
        BY <1>3, <3>3, ScheduleValues DEF Schedule!Takes, Schedule!Saves
      <4>2. Schedule!CarriesDraft(r)
        BY <1>3, <3>1, <3>3, <4>1 DEF Schedule!CallsCarryDraft, Schedule!Takes
      <4> QED
        BY <4>1, <4>2 DEF Schedule!CarriesDraft, TypedStays
    <3>4. Schedule!DraftKept'
      <4>1. Schedule!Takes("panel") /\ Schedule!CarriesDraft("panel")
        BY <1>2, <1>3, <1>7, <3>1 DEF Schedule!Takes, Schedule!CallsCarryDraft
      <4>2. op.dirty <=> slot7.dirty
        BY <4>1, Zenon DEF Schedule!CarriesDraft
      <4>3. op.dirty => slot12'
        BY <1>7, <2>4, <4>1
      <4>4. slot7.dirty <=> slot8 # None
        BY Zenon DEF SheetInv, Schedule!DraftIsKept
      <4> QED
        BY <3>1, <4>2, <4>3, <4>4 DEF Schedule!DraftKept, TypedStays
    <3> QED
      BY <1>3, <3>2, <3>3, <3>4 DEF Schedule!CallsCarryDraft
  <2> QED
    BY <2>3, <2>4 DEF DraftInv
<1> QED
  BY <1>6, <1>7

LEMMA ScheduleFails ==
  ASSUME SheetInv, DraftInv, TypedStays, NEW s \in ScheduleSlot, slot9[s] # Schedule!NoOp,
         Schedule!Fail(s)
  PROVE  SheetInv' /\ DraftInv'
<1>1. CASE s = "panel"
  <2>1. Schedule!PanelFails
    BY <1>1 DEF Schedule!Fail
  <2> QED
    BY <1>1, <2>1, SchedulePanelFails
<1>2. CASE s = "orphan"
  <2>1. Schedule!OrphanDone
    BY <1>2 DEF Schedule!Fail
  <2> QED
    BY <1>2, <2>1, ScheduleDropped DEF Schedule!OrphanDone
<1>3. CASE s = "builder" /\ slot9[s].at \in {"publish", "check"}
  <2>1. slot9' = [slot9 EXCEPT ![s] = Schedule!NoOp] /\ UNCHANGED <<Schedule!page, slot14>>
    BY <1>3 DEF Schedule!Fail
  <2> QED
    BY <1>3, <2>1, ScheduleDropped
<1>4. CASE s = "builder" /\ slot9[s].at \notin {"publish", "check"}
  <2>1. Schedule!BuilderDone(slot9["builder"], None, TRUE)
    BY <1>4 DEF Schedule!Fail
  <2> QED
    BY <1>4, <2>1, ScheduleBuilderDone
<1> QED
  BY <1>1, <1>2, <1>3, <1>4 DEF ScheduleSlot

LEMMA ScheduleDone ==
  ASSUME SheetInv, DraftInv, TypedStays, NEW s \in ScheduleSlot, slot9[s] # Schedule!NoOp,
         NEW result \in Schedule!Row \cup {None}, Schedule!Done(s, result),
         slot9[s].at \notin {"publish", "check"},
         slot2' \subseteq Triggered /\ Schedule!Takes(s) /\ slot9[s].dirty /\ result # None
           => slot12'
  PROVE  SheetInv' /\ DraftInv'
<1>1. CASE s = "panel"
  <2>1. Schedule!PanelDone(slot9["panel"], result)
    BY <1>1 DEF Schedule!Done
  <2> QED
    BY <1>1, <2>1, SchedulePanelDone
<1>2. CASE s = "orphan"
  <2>1. Schedule!OrphanDone
    BY <1>2 DEF Schedule!Done
  <2> QED
    BY <1>2, <2>1, ScheduleDropped DEF Schedule!OrphanDone
<1>3. CASE s = "builder"
  <2>1. Schedule!BuilderDone(slot9["builder"], result, FALSE)
    BY <1>3 DEF Schedule!Done
  <2>2. Schedule!Takes("builder")
    BY <1>3 DEF Schedule!Takes
  <2> QED
    BY <1>3, <2>1, <2>2, ScheduleBuilderDone
<1> QED
  BY <1>1, <1>2, <1>3 DEF ScheduleSlot

-----------------------------------------------------------------------------
(* What a call reads.                                                      *)

LEMMA ScheduleServed ==
  ASSUME SheetInv, Schedule!Served, slot11' = slot11, slot2 \subseteq slot2'
  PROVE  TypedStays /\ (slot3' # None /\ slot3'.input = slot11 => slot12')
<1>1. slot12' = ((slot12 /\ slot11' = slot11) \/ (slot3' # None /\ slot3'.input = slot11'))
  BY DEF Schedule!Served
<1>2. slot12' \in BOOLEAN
  BY <1>1
<1>3. slot12 => slot12'
  BY <1>1, Zenon
<1>4. slot3' # None /\ slot3'.input = slot11 => slot12'
  BY <1>1, Zenon
<1> QED
  BY <1>2, <1>3, <1>4 DEF TypedStays

LEMMA ScheduleCarried ==
  ASSUME SheetInv, DraftInv, TypedStays, NEW s \in ScheduleSlot, slot2' \subseteq Triggered
  PROVE  /\ Schedule!Takes(s) => Schedule!CarriesDraft(s)
         /\ slot9[s].at \in {"delete", "list"} => slot9[s].kind = "delete"
         /\ slot9["builder"].kind # "delete"
<1>1. DOMAIN slot9 = ScheduleSlot
  BY DEF SheetInv
<1>2. Schedule!CallsCarryDraft
  BY DEF DraftInv, TypedStays
<1> QED
  BY <1>1, <1>2 DEF Schedule!CallsCarryDraft, Schedule!OnlyDeleteLists

LEMMA ScheduleOp ==
  ASSUME SheetInv, NEW s \in ScheduleSlot
  PROVE  /\ slot9[s] \in Schedule!Calls
         /\ slot9[s].changes.enabled = TRUE => slot9[s].kind \in {"toggle", "edit"}
BY DEF SheetInv, Schedule!OnlyAskedResumes

\* The next call is made with what this one was made with.
LEMMA ScheduleStep ==
  ASSUME SheetInv, DraftInv, TypedStays, NEW s \in ScheduleSlot, slot9[s] # Schedule!NoOp,
         NEW at \in Schedule!Place \ {"update", "publish"}, Schedule!Step(s, at),
         slot9[s].at \in {"publish", "check"} => at = "check",
         slot2' \subseteq Triggered /\ at \in {"delete", "list"} => slot9[s].kind = "delete",
         at \in {"get", "confirm"} /\ slot2' \subseteq Triggered /\ Schedule!Takes(s)
           /\ slot9[s].dirty => slot12'
  PROVE  SheetInv' /\ DraftInv'
<1> DEFINE op == [slot9[s] EXCEPT !.at = at]
<1>1. Schedule!Goto(s, op)
  BY DEF Schedule!Step
<1>2. slot9[s] \in Schedule!Calls
  BY ScheduleOp
<1>3. /\ op \in Schedule!Calls /\ op.at = at /\ op.kind = slot9[s].kind
      /\ op.text = slot9[s].text /\ op.dirty = slot9[s].dirty /\ op.changes = slot9[s].changes
  BY <1>2, ScheduleAt
<1> HIDE DEF op
<1>4. Carries(s, op)
  BY <1>3, ScheduleOp DEF Carries
<1> QED
  BY <1>1, <1>3, <1>4, ScheduleGoes

LEMMA ScheduleDesired ==
  ASSUME NEW op \in Schedule!Calls, NEW r \in Schedule!Row
  PROVE  /\ Schedule!Desired(op, r) \in Schedule!Changes
         /\ Schedule!Desired(op, r).enabled = None
         /\ Schedule!Desired(op, r).input =
              IF op.dirty /\ op.text # r.input THEN op.text ELSE None
<1> DEFINE config == IF r.config = op.config THEN None ELSE op.config
           input == IF op.dirty /\ op.text # r.input THEN op.text ELSE None
<1>1. config \in Int \cup {None} /\ input \in Schedule!Text \cup {None}
  BY ScheduleCalls
<1>2. Schedule!Desired(op, r) = [config |-> config, enabled |-> None, input |-> input]
  BY DEF Schedule!Desired
<1> HIDE DEF config, input
<1>3. /\ Schedule!Desired(op, r) \in Schedule!Changes
      /\ Schedule!Desired(op, r).enabled = None /\ Schedule!Desired(op, r).input = input
  BY <1>1, <1>2 DEF Schedule!Changes
<1> QED
  BY <1>3 DEF input

\* A schedule that was found is written when it differs: when it does not, it
\* has the payload already.
LEMMA ScheduleFound ==
  ASSUME SheetInv, DraftInv, TypedStays, NEW s \in ScheduleSlot, slot9[s] # Schedule!NoOp,
         slot9[s].at \notin {"publish", "check"}, NEW r \in Schedule!Row, Schedule!Found(s, r),
         r.input = slot11 => slot12'
  PROVE  SheetInv' /\ DraftInv'
<1> DEFINE old == slot9[s]
           desired == Schedule!Desired(old, r)
           op == [old EXCEPT !.id = r.id, !.changes = desired]
<1>1. old \in Schedule!Calls
  BY ScheduleOp
<1>2. /\ desired \in Schedule!Changes /\ desired.enabled = None
      /\ desired.input = IF old.dirty /\ old.text # r.input THEN old.text ELSE None
  BY <1>1, ScheduleDesired
<1> HIDE DEF desired
<1>3. /\ op \in Schedule!Calls /\ op.kind = old.kind /\ op.text = old.text
      /\ op.dirty = old.dirty /\ op.changes = desired
  <2>1. r.id \in Nat
    BY DEF Schedule!Row
  <2>2. [old EXCEPT !.id = r.id] \in Schedule!Calls
    BY <1>1, <2>1 DEF Schedule!Calls
  <2> QED
    BY <1>1, <1>2, <2>1, <2>2 DEF Schedule!Calls
<1>4. \/ Schedule!Fail(s)
      \/ \E at \in {"flow_again", "update", "confirm"} :
           /\ Schedule!Goto(s, [op EXCEPT !.at = at])
           /\ at = "confirm" => desired = Schedule!NoChanges
  BY <1>1 DEF Schedule!Found, desired, Schedule!Calls
<1> HIDE DEF op
<1>5. CASE Schedule!Fail(s)
  BY <1>5, ScheduleFails
<1>6. CASE \E at \in {"flow_again", "update", "confirm"} :
             /\ Schedule!Goto(s, [op EXCEPT !.at = at])
             /\ at = "confirm" => desired = Schedule!NoChanges
  <2>1. PICK at \in {"flow_again", "update", "confirm"} :
          /\ Schedule!Goto(s, [op EXCEPT !.at = at])
          /\ at = "confirm" => desired = Schedule!NoChanges
    BY <1>6
  <2> DEFINE new == [op EXCEPT !.at = at]
  <2>2. /\ new \in Schedule!Calls /\ new.at = at /\ new.kind = old.kind /\ new.text = old.text
        /\ new.dirty = old.dirty /\ new.changes = desired
    <3>1. at \in Schedule!Place
      BY DEF Schedule!Place
    <3> QED
      BY <1>3, <3>1, ScheduleAt
  <2> HIDE DEF new
  <2>3. ASSUME slot2' \subseteq Triggered, Schedule!Takes(s), new.dirty
        PROVE  /\ new.at = "update" => new.changes.input = slot11 \/ slot12'
               /\ new.at \in {"get", "confirm"} => slot12'
    <3>1. Schedule!CarriesDraft(s)
      BY <2>3, ScheduleCarried
    <3>2. old.text = slot11 /\ old.text # None
      BY <2>2, <2>3, <3>1 DEF Schedule!CarriesDraft
    <3>3. CASE old.text = r.input
      BY <3>2, <3>3
    <3>4. CASE old.text # r.input
      <4>1. desired.input = slot11 /\ desired # Schedule!NoChanges
        BY <1>2, <2>2, <2>3, <3>2, <3>4, ScheduleValues
      <4> QED
        BY <2>1, <2>2, <4>1
    <3> QED
      BY <3>3, <3>4
  <2>4. new.changes.enabled # TRUE
    BY <1>2, <2>2, ScheduleAssumption
  <2>5. Carries(s, new)
    BY <2>2, <2>3, <2>4 DEF Carries
  <2>6. Schedule!Goto(s, new)
    BY <2>1 DEF new
  <2> QED
    BY <2>2, <2>5, <2>6, ScheduleGoes
<1> QED
  BY <1>4, <1>5, <1>6

LEMMA ScheduleKnows ==
  ASSUME StoredInv, SheetInv, Schedule!Reads, Schedule!Served
  PROVE  /\ TypedStays /\ StoredInv' /\ slot3' = slot3 /\ slot1' = slot1 /\ slot2' = slot2
         /\ slot3 # None => slot3 \in Schedule!Row /\ (slot3.input = slot11 => slot12')
<1>1. UNCHANGED <<slot1, slot2, slot3, slot4, slot11, slot13>>
  BY DEF Schedule!Reads, Schedule!service
<1>2. TypedStays /\ (slot3' # None /\ slot3'.input = slot11 => slot12')
  BY <1>1, ScheduleServed
<1>3. StoredInv'
  BY <1>1 DEF StoredInv, Schedule!NumbersFit, Schedule!PauseKept
<1> QED
  BY <1>1, <1>2, <1>3 DEF StoredInv

\* The calls that only read.
LEMMA ScheduleReads ==
  ASSUME ScheduleInv, Schedule!Served, NEW s \in ScheduleSlot,
         \/ Schedule!ReadWorkflow(s) \/ Schedule!FindExisting(s) \/ Schedule!FindAgain(s)
         \/ Schedule!ConfirmRow(s) \/ Schedule!ReadAgain(s) \/ Schedule!GetRow(s)
         \/ Schedule!ListRows(s)
  PROVE  ScheduleInv'
<1> USE DEF ScheduleInv
<1> DEFINE old == slot9[s]
<1>1. Schedule!Reads
  BY DEF Schedule!ReadWorkflow, Schedule!FindExisting, Schedule!FindAgain, Schedule!ConfirmRow,
         Schedule!ReadAgain, Schedule!GetRow, Schedule!ListRows
<1>2. /\ TypedStays /\ StoredInv' /\ slot2' = slot2
      /\ slot3 # None => slot3 \in Schedule!Row /\ (slot3.input = slot11 => slot12')
      /\ slot3 \in Schedule!Row \cup {None}
  BY <1>1, ScheduleKnows DEF StoredInv
<1>3. old.at \in {"workflow", "find", "find_again", "confirm", "flow_again", "get", "list"}
  BY DEF Schedule!ReadWorkflow, Schedule!FindExisting, Schedule!FindAgain, Schedule!ConfirmRow,
         Schedule!ReadAgain, Schedule!GetRow, Schedule!ListRows, Schedule!At
<1>4. old # Schedule!NoOp
  BY <1>3, ScheduleValues
<1>5. /\ old \in Schedule!Calls
      /\ old.changes.enabled = TRUE => old.kind \in {"toggle", "edit"}
  BY ScheduleOp
<1>6. slot1 \in Schedule!WorkflowRow /\ slot1.published \in slot2
  BY DEF StoredInv, Schedule!NumbersFit
<1>7. slot2' \subseteq Triggered /\ Schedule!Takes(s) => Schedule!CarriesDraft(s)
  BY <1>2, ScheduleCarried
<1>8. slot2' \subseteq Triggered /\ old.at = "list" => old.kind = "delete"
  BY <1>2, ScheduleCarried
<1>9. slot12 => slot12'
  BY <1>2 DEF TypedStays
<1> HIDE DEF old
<1>10. CASE Schedule!ReadWorkflow(s)
  <2> DEFINE config == IF old.kind = "activate" THEN old.config ELSE slot1.published
             op == [old EXCEPT !.at = "find", !.flow = slot1, !.config = config]
  <2>1. \/ slot1.published \notin Triggered /\ Schedule!Step(s, "list")
        \/ Schedule!Done(s, None) \/ Schedule!Fail(s)
        \/ Schedule!Goto(s, op)
    BY <1>5, <1>10 DEF Schedule!ReadWorkflow, old, Schedule!Calls
  <2>2. CASE slot1.published \notin Triggered /\ Schedule!Step(s, "list")
    <3>1. ~(slot2' \subseteq Triggered)
      BY <1>2, <1>6, <2>2
    <3>2. "list" \in Schedule!Place \ {"update", "publish"}
      BY DEF Schedule!Place
    <3> QED
      BY <1>2, <1>3, <1>4, <2>2, <3>1, <3>2, ScheduleStep DEF old
  <2>3. CASE Schedule!Done(s, None)
    BY <1>2, <1>3, <1>4, <2>3, ScheduleDone DEF old
  <2>4. CASE Schedule!Fail(s)
    BY <1>2, <1>4, <2>4, ScheduleFails DEF old
  <2>5. CASE Schedule!Goto(s, op)
    <3>1. config \in Int \cup {None}
      BY <1>5, <1>6 DEF Schedule!Calls, Schedule!WorkflowRow
    <3> HIDE DEF config
    <3>2. [old EXCEPT !.at = "find", !.flow = slot1] \in Schedule!Calls
      BY <1>5, <1>6 DEF Schedule!Calls, Schedule!Place
    <3>3. /\ op \in Schedule!Calls /\ op.at = "find" /\ op.kind = old.kind /\ op.text = old.text
          /\ op.dirty = old.dirty /\ op.changes = old.changes
      BY <1>5, <3>1, <3>2 DEF Schedule!Calls
    <3> HIDE DEF op
    <3>4. Carries(s, op)
      BY <1>3, <1>5, <3>3 DEF Carries, old
    <3> QED
      BY <1>2, <1>4, <2>5, <3>3, <3>4, ScheduleGoes DEF old
  <2> QED
    BY <1>2, <2>1, <2>2, <2>3, <2>4, <2>5
<1>11. CASE Schedule!FindExisting(s) \/ Schedule!FindAgain(s)
  <2>1. \/ Schedule!Step(s, "create") \/ Schedule!Fail(s)
        \/ slot3 # None /\ Schedule!Found(s, slot3)
    BY <1>11 DEF Schedule!FindExisting, Schedule!FindAgain
  <2>2. CASE Schedule!Step(s, "create")
    <3>1. "create" \in Schedule!Place \ {"update", "publish"}
      BY DEF Schedule!Place
    <3> QED
      BY <1>2, <1>3, <1>4, <2>2, <3>1, ScheduleStep DEF old
  <2>3. CASE Schedule!Fail(s)
    BY <1>2, <1>4, <2>3, ScheduleFails DEF old
  <2>4. CASE slot3 # None /\ Schedule!Found(s, slot3)
    BY <1>2, <1>3, <1>4, <2>4, ScheduleFound DEF old
  <2> QED
    BY <1>2, <2>1, <2>2, <2>3, <2>4
<1>12. CASE Schedule!ConfirmRow(s) \/ Schedule!GetRow(s)
  <2>1. slot2' \subseteq Triggered /\ Schedule!Takes(s) /\ old.dirty => slot12'
    <3>1. old.at \in {"get", "confirm"}
      BY <1>12 DEF Schedule!ConfirmRow, Schedule!GetRow, Schedule!At, old
    <3> QED
      BY <1>7, <1>9, <3>1 DEF Schedule!CarriesDraft, old
  <2>2. \/ Schedule!Step(s, "get") \/ Schedule!Fail(s) \/ Schedule!Done(s, slot3)
    BY <1>12 DEF Schedule!ConfirmRow, Schedule!GetRow
  <2>3. CASE Schedule!Step(s, "get")
    <3>1. "get" \in Schedule!Place \ {"update", "publish"}
      BY DEF Schedule!Place
    <3> QED
      BY <1>2, <1>3, <1>4, <2>1, <2>3, <3>1, ScheduleStep DEF old
  <2>4. CASE Schedule!Fail(s)
    BY <1>2, <1>4, <2>4, ScheduleFails DEF old
  <2>5. CASE Schedule!Done(s, slot3)
    BY <1>2, <1>3, <1>4, <2>1, <2>5, ScheduleDone DEF old
  <2> QED
    BY <1>2, <2>2, <2>3, <2>4, <2>5
<1>13. CASE Schedule!ReadAgain(s)
  <2> DEFINE op == [old EXCEPT !.at = "publish_again", !.flow = slot1]
  <2>1. Schedule!Fail(s) \/ Schedule!Goto(s, op)
    BY <1>13 DEF Schedule!ReadAgain, old
  <2>2. CASE Schedule!Fail(s)
    BY <1>2, <1>4, <2>2, ScheduleFails DEF old
  <2>3. CASE Schedule!Goto(s, op)
    <3>1. /\ op \in Schedule!Calls /\ op.at = "publish_again" /\ op.kind = old.kind
          /\ op.text = old.text /\ op.dirty = old.dirty /\ op.changes = old.changes
      BY <1>5, <1>6 DEF Schedule!Calls, Schedule!Place
    <3> HIDE DEF op
    <3>2. Carries(s, op)
      BY <1>3, <1>5, <3>1 DEF Carries, old
    <3> QED
      BY <1>2, <1>4, <2>3, <3>1, <3>2, ScheduleGoes DEF old
  <2> QED
    BY <1>2, <2>1, <2>2, <2>3
<1>14. CASE Schedule!ListRows(s)
  <2>1. Schedule!Done(s, slot3) /\ old.at = "list"
    BY <1>14 DEF Schedule!ListRows, Schedule!At, old
  <2>2. slot2' \subseteq Triggered => ~Schedule!Takes(s)
    BY <1>2, <1>8, <2>1, ScheduleCarried DEF Schedule!Takes, Schedule!Saves, old
  <2> QED
    BY <1>2, <1>3, <1>4, <2>1, <2>2, ScheduleDone DEF old
<1> QED
  BY <1>10, <1>11, <1>12, <1>13, <1>14

-----------------------------------------------------------------------------
(* What a call writes.                                                     *)

LEMMA ScheduleSynchronized ==
  ASSUME NEW r \in Schedule!Row \cup {None}, NEW v \in Int
  PROVE  LET w == Schedule!Synchronized(r, v)
         IN  /\ r = None => w = None
             /\ r # None => /\ w \in Schedule!Row /\ w.id = r.id /\ w.enabled = r.enabled
                            /\ w.input = r.input
<1>1. CASE r = None
  BY <1>1 DEF Schedule!Synchronized
<1>2. CASE r # None
  <2>1. r \in Schedule!Row /\ r.enabled \in BOOLEAN
    BY <1>2 DEF Schedule!Row
  <2>2. \A n \in BOOLEAN :
          LET w == [r EXCEPT !.next = n]
          IN  w \in Schedule!Row /\ w.id = r.id /\ w.enabled = r.enabled /\ w.input = r.input
    BY <2>1 DEF Schedule!Row
  <2>3. \A n \in BOOLEAN :
          LET w == [r EXCEPT !.version = v, !.next = n]
          IN  w \in Schedule!Row /\ w.id = r.id /\ w.enabled = r.enabled /\ w.input = r.input
    BY <2>1 DEF Schedule!Row
  <2>4. \/ Schedule!Synchronized(r, v) = [r EXCEPT !.version = v, !.next = r.enabled]
        \/ Schedule!Synchronized(r, v) = [r EXCEPT !.next = FALSE]
    BY <1>2 DEF Schedule!Synchronized
  <2>5. CASE Schedule!Synchronized(r, v) = [r EXCEPT !.version = v, !.next = r.enabled]
    BY <1>2, <2>1, <2>3, <2>5
  <2>6. CASE Schedule!Synchronized(r, v) = [r EXCEPT !.next = FALSE]
    BY <1>2, <2>2, <2>6
  <2> QED
    BY <2>4, <2>5, <2>6
<1> QED
  BY <1>1, <1>2

LEMMA ScheduleUpdated ==
  ASSUME NEW r \in Schedule!Row, NEW c \in Schedule!Changes, NEW w, w = Schedule!Updated(r, c)
  PROVE  /\ w \in Schedule!Row /\ w.id = r.id
         /\ w.enabled = IF c.enabled = None THEN r.enabled ELSE c.enabled
         /\ w.input = IF c.input = None THEN r.input ELSE c.input
<1> DEFINE config == IF c.config = None THEN r.config ELSE c.config
           enabled == IF c.enabled = None THEN r.enabled ELSE c.enabled
           input == IF c.input = None THEN r.input ELSE c.input
           next == Schedule!Compatible(r) /\ enabled /\ (r.next \/ c.enabled = TRUE)
<1>1. /\ config \in Int \cup {None} /\ enabled \in BOOLEAN /\ input \in Schedule!Text
  BY DEF Schedule!Row, Schedule!Changes
<1>2. next \in BOOLEAN
  OBVIOUS
<1>3. CASE c = Schedule!NoChanges
  BY <1>3, ScheduleValues DEF Schedule!Updated
<1>4. CASE c # Schedule!NoChanges
  <2>1. w = [r EXCEPT !.config = config, !.enabled = enabled, !.input = input, !.next = next]
    BY <1>4 DEF Schedule!Updated, Schedule!Changed, Schedule!Row
  <2> DEFINE u == [r EXCEPT !.config = config, !.enabled = enabled]
  <2> HIDE DEF config, enabled, input, next
  <2>2. u \in Schedule!Row /\ u.id = r.id /\ u.enabled = enabled
    BY <1>1 DEF Schedule!Row
  <2>3. w = [u EXCEPT !.input = input, !.next = next]
    BY <2>1 DEF Schedule!Row
  <2> HIDE DEF u
  <2>4. w \in Schedule!Row /\ w.id = u.id /\ w.enabled = u.enabled /\ w.input = input
    BY <1>1, <1>2, <2>2, <2>3 DEF Schedule!Row
  <2> QED
    BY <2>2, <2>4 DEF enabled, input
<1> QED
  BY <1>3, <1>4

\* What is published, suspended, edited by others or deleted stays paused.
LEMMA ScheduleKeeps ==
  ASSUME StoredInv, slot1' \in Schedule!WorkflowRow, slot1'.published \in slot2',
         UNCHANGED <<slot4, slot13>>,
         \/ slot3' = None
         \/ /\ slot3 # None /\ slot3' \in Schedule!Row /\ slot3'.id = slot3.id
            /\ slot3'.enabled = slot3.enabled
  PROVE  StoredInv'
BY DEF StoredInv, Schedule!NumbersFit, Schedule!PauseKept

LEMMA ScheduleCreated ==
  ASSUME StoredInv, NEW config \in Int \cup {None}, NEW enabled \in BOOLEAN,
         NEW input \in Schedule!Text, UNCHANGED <<slot1, slot2>>,
         slot3' = Schedule!Created(1 + slot4, config, enabled, input), slot4' = slot4 + 1,
         slot13' = IF enabled THEN slot13 ELSE slot3'.id
  PROVE  StoredInv' /\ slot3' \in Schedule!Row /\ slot3'.input = input
<1>1. slot4 \in Nat /\ slot13 \in 0..slot4 /\ slot1 \in Schedule!WorkflowRow
  BY DEF StoredInv
<1>2. slot3' = [id |-> 1 + slot4, version |-> slot1.published, config |-> config,
                enabled |-> enabled, input |-> input, next |-> enabled]
  BY DEF Schedule!Created
<1>3. /\ slot3' \in Schedule!Row /\ slot3'.input = input /\ slot3'.id = 1 + slot4
      /\ slot3'.enabled = enabled
  BY <1>1, <1>2 DEF Schedule!Row, Schedule!WorkflowRow
<1>4. slot4' \in Nat /\ slot13' \in 0..slot4' /\ slot3'.id \in 1..slot4'
  BY <1>1, <1>3
<1>5. Schedule!PauseKept'
  BY <1>1, <1>3 DEF Schedule!PauseKept
<1>6. Schedule!NumbersFit'
  BY <1>4 DEF StoredInv, Schedule!NumbersFit
<1> QED
  BY <1>1, <1>3, <1>4, <1>5, <1>6 DEF StoredInv

\* An update resumes the schedule only when it was asked for.
LEMMA ScheduleResumes ==
  ASSUME StoredInv, NEW op \in Schedule!Calls, slot3 # None,
         op.changes.enabled = TRUE => op.kind \in {"toggle", "edit"},
         slot3' = Schedule!Updated(slot3, op.changes), Schedule!Resumes(op),
         UNCHANGED <<slot1, slot2, slot4>>
  PROVE  /\ StoredInv' /\ slot3' \in Schedule!Row
         /\ op.changes.input # None => slot3'.input = op.changes.input
<1>1. slot3 \in Schedule!Row /\ op.changes \in Schedule!Changes
  BY ScheduleCalls DEF StoredInv
<1> DEFINE c == op.changes
<1>2. /\ slot3' \in Schedule!Row /\ slot3'.id = slot3.id
      /\ slot3'.enabled = IF c.enabled = None THEN slot3.enabled ELSE c.enabled
      /\ slot3'.input = IF c.input = None THEN slot3.input ELSE c.input
  BY <1>1, ScheduleUpdated
<1>3. c.enabled \in BOOLEAN \cup {None}
  BY <1>1 DEF Schedule!Changes
<1>4. slot13' = IF c.enabled = FALSE THEN slot3.id
                ELSE IF c.enabled = TRUE THEN 0 ELSE slot13
  BY DEF Schedule!Resumes
<1> HIDE DEF c
<1>5. slot3.id \in 1..slot4 /\ slot13 \in 0..slot4 /\ slot4 \in Nat
  BY DEF StoredInv, Schedule!NumbersFit
<1>6. slot13' \in 0..slot4'
  BY <1>4, <1>5
<1>7. Schedule!PauseKept'
  <2>1. CASE c.enabled = FALSE
    BY <1>2, <2>1, ScheduleAssumption DEF Schedule!PauseKept
  <2>2. CASE c.enabled = TRUE
    BY <1>2, <1>4, <1>5, <2>2 DEF Schedule!PauseKept
  <2>3. CASE c.enabled = None
    <3>1. slot13' = slot13
      BY <1>4, <2>3, ScheduleAssumption
    <3>2. slot3'.enabled = slot3.enabled
      BY <1>2, <2>3
    <3> QED
      BY <1>2, <3>1, <3>2 DEF StoredInv, Schedule!PauseKept
  <2> QED
    BY <1>3, <2>1, <2>2, <2>3
<1>8. Schedule!NumbersFit'
  BY <1>2, <1>5 DEF StoredInv, Schedule!NumbersFit
<1>9. op.changes.input # None => slot3'.input = op.changes.input
  BY <1>2 DEF c
<1> QED
  BY <1>2, <1>6, <1>7, <1>8, <1>9 DEF StoredInv

LEMMA ScheduleCreates ==
  ASSUME ScheduleInv, Schedule!Served, NEW s \in ScheduleSlot, Schedule!CreateRow(s)
  PROVE  ScheduleInv'
<1> USE DEF ScheduleInv
<1> DEFINE old == slot9[s]
           input == IF old.dirty THEN old.text ELSE "empty"
           new == Schedule!Created(1 + slot4, old.config, old.enabled, input)
<1>1. UNCHANGED <<slot1, slot2, slot11>> /\ old.at = "create" /\ old # Schedule!NoOp
  BY ScheduleValues DEF Schedule!CreateRow, Schedule!At
<1>2. TypedStays /\ (slot3' # None /\ slot3'.input = slot11 => slot12')
  BY <1>1, ScheduleServed
<1>3. "find_again" \in Schedule!Place \ {"update", "publish"}
  BY DEF Schedule!Place
<1>4. /\ old.config \in Int \cup {None} /\ old.enabled \in BOOLEAN /\ input \in Schedule!Text
  BY ScheduleOp, ScheduleCalls, ScheduleValues
<1>5. ASSUME Schedule!Step(s, "find_again") PROVE SheetInv' /\ DraftInv'
  BY <1>1, <1>2, <1>3, <1>5, ScheduleStep
<1>6. CASE ~Schedule!Creatable
  <2>1. Schedule!Step(s, "find_again") /\ UNCHANGED <<slot3, slot4, slot13>>
    BY <1>6 DEF Schedule!CreateRow
  <2>2. StoredInv'
    BY <1>1, <2>1 DEF StoredInv, Schedule!NumbersFit, Schedule!PauseKept
  <2> QED
    BY <1>5, <2>1, <2>2
<1>7. CASE Schedule!Creatable
  <2>1. /\ slot3' = new /\ slot4' = slot4 + 1
        /\ slot13' = IF old.enabled THEN slot13 ELSE slot3'.id
        /\ Schedule!Found(s, new) \/ Schedule!Step(s, "find_again")
    BY <1>7 DEF Schedule!CreateRow
  <2> HIDE DEF input
  <2>2. StoredInv' /\ slot3' \in Schedule!Row
    BY <1>1, <1>4, <2>1, ScheduleCreated
  <2>3. slot3' # None
    BY <2>2, ScheduleAssumption
  <2> HIDE DEF new
  <2>4. CASE Schedule!Found(s, new)
    <3>1. new \in Schedule!Row /\ (new.input = slot11 => slot12')
      BY <1>2, <2>1, <2>2, <2>3
    <3> QED
      BY <1>1, <1>2, <2>2, <2>4, <3>1, ScheduleFound
  <2> QED
    BY <1>5, <2>1, <2>2, <2>4
<1> QED
  BY <1>6, <1>7

LEMMA ScheduleUpdates ==
  ASSUME ScheduleInv, Schedule!Served, NEW s \in ScheduleSlot, Schedule!UpdateRow(s)
  PROVE  ScheduleInv'
<1> USE DEF ScheduleInv
<1> DEFINE old == slot9[s]
<1>1. /\ UNCHANGED <<slot1, slot2, slot4, slot11>> /\ old.at = "update" /\ old # Schedule!NoOp
  BY ScheduleValues DEF Schedule!UpdateRow, Schedule!At
<1>2. TypedStays /\ (slot3' # None /\ slot3'.input = slot11 => slot12')
  BY <1>1, ScheduleServed
<1>3. CASE Schedule!Fail(s) /\ UNCHANGED <<slot3, slot13>>
  <2>1. StoredInv'
    BY <1>1, <1>3 DEF StoredInv, Schedule!NumbersFit, Schedule!PauseKept
  <2> QED
    BY <1>1, <1>2, <1>3, <2>1, ScheduleFails
<1>4. CASE ~(Schedule!Fail(s) /\ UNCHANGED <<slot3, slot13>>)
  <2>1. /\ slot3 # None /\ slot3' = Schedule!Updated(slot3, old.changes)
        /\ Schedule!Resumes(old)
        /\ \E at \in {"get", "confirm"} : Schedule!Step(s, at)
    BY <1>4 DEF Schedule!UpdateRow
  <2>2. /\ StoredInv' /\ slot3' \in Schedule!Row
        /\ old.changes.input # None => slot3'.input = old.changes.input
    BY <1>1, <2>1, ScheduleOp, ScheduleResumes
  <2>3. slot3' # None
    BY <2>2, ScheduleAssumption
  <2>4. PICK at \in {"get", "confirm"} : Schedule!Step(s, at)
    BY <2>1
  <2>5. slot2' \subseteq Triggered /\ Schedule!Takes(s) /\ old.dirty => slot12'
    <3> SUFFICES ASSUME slot2' \subseteq Triggered, Schedule!Takes(s), old.dirty PROVE slot12'
      OBVIOUS
    <3>1. Schedule!CarriesDraft(s)
      BY <1>2, ScheduleCarried
    <3>2. slot11 # None /\ (old.changes.input = slot11 \/ slot12)
      BY <1>1, <3>1 DEF Schedule!CarriesDraft
    <3> QED
      BY <1>2, <2>2, <2>3, <3>2 DEF TypedStays
  <2>6. at \in Schedule!Place \ {"update", "publish"} /\ at \notin {"delete", "list"}
    BY <2>4 DEF Schedule!Place
  <2> QED
    BY <1>1, <1>2, <2>2, <2>4, <2>5, <2>6, ScheduleStep
<1> QED
  BY <1>3, <1>4

\* What publishing changes in the service.
LEMMA SchedulePublished ==
  ASSUME StoredInv, NEW v \in Int, Schedule!Published(v), UNCHANGED <<slot4, slot13>>,
         slot3' \in {slot3, Schedule!Synchronized(slot3, v)}
  PROVE  StoredInv' /\ slot2 \subseteq slot2'
<1>1. slot1' = [published |-> v, active |-> TRUE] /\ slot2' = slot2 \cup {v}
  BY DEF Schedule!Published
<1>2. slot1' \in Schedule!WorkflowRow /\ slot1'.published \in slot2'
  BY <1>1 DEF Schedule!WorkflowRow
<1>3. slot3 \in Schedule!Row \cup {None}
  BY DEF StoredInv
<1>4. \/ slot3' = None
      \/ /\ slot3 # None /\ slot3' \in Schedule!Row /\ slot3'.id = slot3.id
         /\ slot3'.enabled = slot3.enabled
  BY <1>3, ScheduleSynchronized
<1> QED
  BY <1>1, <1>2, <1>4, ScheduleKeeps

LEMMA SchedulePublishes ==
  ASSUME ScheduleInv, Schedule!Served, NEW s \in ScheduleSlot,
         Schedule!PublishAgain(s) \/ Schedule!PublishCall(s)
  PROVE  ScheduleInv'
<1> USE DEF ScheduleInv
<1> DEFINE old == slot9[s]
<1>1. UNCHANGED <<slot4, slot11, slot13>> /\ old.at \in {"publish_again", "publish"}
  BY DEF Schedule!PublishAgain, Schedule!PublishCall, Schedule!At
<1>2. old # Schedule!NoOp
  BY <1>1, ScheduleValues
<1>3. /\ old \in Schedule!Calls
      /\ old.changes.enabled = TRUE => old.kind \in {"toggle", "edit"}
  BY ScheduleOp
<1>4. StoredInv' /\ slot2 \subseteq slot2'
  <2>1. CASE UNCHANGED <<slot1, slot2, slot3>>
    BY <1>1, <2>1 DEF StoredInv, Schedule!NumbersFit, Schedule!PauseKept
  <2>2. CASE ~UNCHANGED <<slot1, slot2, slot3>>
    <3>1. old.flow.published \in Int
      BY <1>3 DEF Schedule!Calls, Schedule!WorkflowRow
    <3>2. \E v \in Int : Schedule!Published(v) /\ slot3' \in {slot3, Schedule!Synchronized(slot3, v)}
      <4>1. CASE Schedule!PublishAgain(s)
        BY <2>2, <3>1, <4>1 DEF Schedule!PublishAgain
      <4>2. CASE Schedule!PublishCall(s)
        BY <2>2, <4>2, ScheduleAssumption DEF Schedule!PublishCall
      <4> QED
        BY <4>1, <4>2
    <3> QED
      BY <1>1, <3>2, SchedulePublished
  <2> QED
    BY <2>1, <2>2
<1>5. TypedStays
  BY <1>1, <1>4, ScheduleServed
<1>6. CASE Schedule!Fail(s)
  BY <1>2, <1>4, <1>5, <1>6, ScheduleFails
<1>7. CASE old.at = "publish_again" /\ Schedule!Goto(s, [old EXCEPT !.at = "workflow", !.again = TRUE])
  <2> DEFINE op == [old EXCEPT !.at = "workflow", !.again = TRUE]
  <2>1. /\ op \in Schedule!Calls /\ op.at = "workflow" /\ op.kind = old.kind
        /\ op.text = old.text /\ op.dirty = old.dirty /\ op.changes = old.changes
    BY <1>3 DEF Schedule!Calls, Schedule!Place
  <2> HIDE DEF op
  <2>2. Carries(s, op)
    BY <1>3, <1>7, <2>1 DEF Carries
  <2>3. Schedule!Goto(s, op)
    BY <1>7 DEF op
  <2> QED
    BY <1>2, <1>4, <1>5, <2>1, <2>2, <2>3, ScheduleGoes
<1>8. CASE Schedule!Goto(s, [old EXCEPT !.at = "check", !.warn = TRUE])
  <2> DEFINE op == [old EXCEPT !.at = "check", !.warn = TRUE]
  <2>1. /\ op \in Schedule!Calls /\ op.at = "check" /\ op.kind = old.kind
        /\ op.text = old.text /\ op.dirty = old.dirty /\ op.changes = old.changes
    BY <1>3 DEF Schedule!Calls, Schedule!Place
  <2> HIDE DEF op
  <2>2. Carries(s, op)
    BY <1>3, <2>1 DEF Carries
  <2>3. Schedule!Goto(s, op)
    BY <1>8 DEF op
  <2> QED
    BY <1>2, <1>4, <1>5, <2>1, <2>2, <2>3, ScheduleGoes
<1>9. CASE Schedule!Step(s, "check")
  <2>1. "check" \in Schedule!Place \ {"update", "publish"}
    BY DEF Schedule!Place
  <2> QED
    BY <1>2, <1>4, <1>5, <1>9, <2>1, ScheduleStep
<1>10. CASE Schedule!PublishAgain(s)
  <2>1. \/ Schedule!Fail(s)
        \/ /\ old.at = "publish_again"
           /\ Schedule!Goto(s, [old EXCEPT !.at = "workflow", !.again = TRUE])
    BY <1>10 DEF Schedule!PublishAgain, Schedule!At
  <2> QED
    BY <1>6, <1>7, <2>1
<1>11. CASE Schedule!PublishCall(s)
  <2>1. \/ Schedule!Step(s, "check")
        \/ Schedule!Goto(s, [old EXCEPT !.at = "check", !.warn = TRUE])
    BY <1>11 DEF Schedule!PublishCall
  <2> QED
    BY <1>8, <1>9, <2>1
<1> QED
  BY <1>10, <1>11

LEMMA ScheduleDeletes ==
  ASSUME ScheduleInv, Schedule!Served, NEW s \in ScheduleSlot, Schedule!DeleteRow(s)
  PROVE  ScheduleInv'
<1> USE DEF ScheduleInv
<1>1. /\ UNCHANGED <<slot1, slot2, slot4, slot11, slot13>> /\ slot9[s].at = "delete"
      /\ slot9[s] # Schedule!NoOp
  BY ScheduleValues DEF Schedule!DeleteRow, Schedule!At
<1>2. TypedStays
  BY <1>1, ScheduleServed
<1>3. StoredInv'
  <2>1. CASE slot3' = slot3
    BY <1>1, <2>1 DEF StoredInv, Schedule!NumbersFit, Schedule!PauseKept
  <2>2. CASE slot3' = None
    BY <1>1, <2>2, ScheduleKeeps DEF StoredInv, Schedule!NumbersFit
  <2> QED
    BY <2>1, <2>2 DEF Schedule!DeleteRow
<1>4. CASE Schedule!Fail(s)
  BY <1>1, <1>2, <1>3, <1>4, ScheduleFails
<1>5. CASE Schedule!Step(s, "list")
  <2>1. "list" \in Schedule!Place \ {"update", "publish"}
    BY DEF Schedule!Place
  <2>2. slot2' \subseteq Triggered => slot9[s].kind = "delete"
    BY <1>1, <1>2, ScheduleCarried
  <2> QED
    BY <1>1, <1>2, <1>3, <1>5, <2>1, <2>2, ScheduleStep
<1> QED
  BY <1>4, <1>5 DEF Schedule!DeleteRow

\* What was published takes the draft that is kept.
LEMMA ScheduleChecks ==
  ASSUME ScheduleInv, Schedule!Served, NEW s \in ScheduleSlot, Schedule!CheckPublished(s)
  PROVE  ScheduleInv'
<1> USE DEF ScheduleInv
<1>0. Schedule!Reads /\ slot9[s].at = "check" /\ slot9[s] # Schedule!NoOp
  BY ScheduleValues DEF Schedule!CheckPublished, Schedule!At
<1>1. TypedStays /\ StoredInv'
  BY <1>0, ScheduleKnows
<1>2. CASE Schedule!Fail(s)
  BY <1>0, <1>1, <1>2, ScheduleFails
<1>3. CASE ~Schedule!Fail(s)
  <2> DEFINE read == Schedule!Read(slot8)
             op == [slot9[s] EXCEPT !.at = "workflow", !.text = read.text, !.dirty = read.dirty]
             left == [slot9 EXCEPT ![s] = op]
  <2>1. slot9 \in [ScheduleSlot -> Schedule!Calls] /\ DOMAIN slot9 = ScheduleSlot
        /\ slot9[s] \in Schedule!Calls
    BY DEF SheetInv
  <2>2. /\ slot8' = slot8
        /\ Schedule!Mount(TRUE, [slot9 EXCEPT ![s].at = "workflow", ![s].text = read.text,
                                              ![s].dirty = read.dirty])
    BY <1>3 DEF Schedule!CheckPublished
  <2>3. [slot9 EXCEPT ![s].at = "workflow", ![s].text = read.text, ![s].dirty = read.dirty] = left
    BY <2>1 DEF Schedule!Calls
  <2>4. /\ read \in [text : Schedule!Text, dirty : BOOLEAN] /\ (read.dirty <=> slot8 # None)
        /\ slot8 # None => read.text = slot8
    BY ScheduleRead DEF SheetInv
  <2> HIDE DEF read
  <2>5. /\ op \in Schedule!Calls /\ op.at = "workflow" /\ op.kind = slot9[s].kind
        /\ op.text = read.text /\ op.dirty = read.dirty /\ op.changes = slot9[s].changes
    <3>1. [slot9[s] EXCEPT !.at = "workflow"] \in Schedule!Calls
      BY <2>1 DEF Schedule!Calls, Schedule!Place
    <3> QED
      BY <2>1, <2>4, <3>1 DEF Schedule!Calls
  <2>6. Schedule!Mount(TRUE, left)
    BY <2>2, <2>3
  <2> HIDE DEF op
  <2>7. /\ left \in [ScheduleSlot -> Schedule!Calls] /\ left[s] = op
        /\ \A r \in ScheduleSlot : r # s => left[r] = slot9[r]
    BY <2>1, <2>5
  <2> HIDE DEF left
  <2>8. \A r \in ScheduleSlot :
          left[r].changes.enabled = TRUE => left[r].kind \in {"toggle", "edit"}
    <3> TAKE r \in ScheduleSlot
    <3>1. slot9[r].changes.enabled = TRUE => slot9[r].kind \in {"toggle", "edit"}
      BY ScheduleOp
    <3> QED
      BY <2>5, <2>7, <3>1
  <2>9. /\ SheetInv' /\ slot9'["panel"] = Schedule!NoOp /\ slot9'["builder"] = left["builder"]
        /\ slot9'["orphan"] \in {left["orphan"], left["panel"]}
    BY <1>1, <2>2, <2>6, <2>7, <2>8, ScheduleMounts DEF TypedStays
  <2>10. ASSUME slot2' \subseteq Triggered PROVE Schedule!CallsCarryDraft' /\ Schedule!DraftKept'
    <3>1. Schedule!CallsCarryDraft /\ Schedule!DraftKept
      BY <1>1, <2>10 DEF DraftInv, TypedStays
    <3>2. Schedule!DraftKept'
      BY <1>1, <2>2, <3>1 DEF Schedule!DraftKept, TypedStays
    <3>3. DOMAIN slot9' = ScheduleSlot
      BY <2>9 DEF SheetInv
    <3>4. \A r \in ScheduleSlot : left[r].at \in {"delete", "list"} => left[r].kind = "delete"
      BY <2>1, <2>5, <2>7, <3>1 DEF Schedule!CallsCarryDraft, Schedule!OnlyDeleteLists
    <3>5. left["builder"].kind # "delete"
      BY <2>5, <2>7, <3>1 DEF Schedule!CallsCarryDraft, Schedule!OnlyDeleteLists, ScheduleSlot
    <3>6. Schedule!OnlyDeleteLists'
      BY <2>9, <3>3, <3>4, <3>5, ScheduleValues DEF Schedule!OnlyDeleteLists, ScheduleSlot
    <3>7. ASSUME NEW r \in ScheduleSlot, Schedule!Takes(r)' PROVE Schedule!CarriesDraft(r)'
      <4>1. r = "builder" /\ slot9'[r] = left[r]
        BY <2>9, <3>7, ScheduleValues DEF Schedule!Takes, Schedule!Saves
      <4>2. CASE r = s
        <5>1. slot9'[r] = op
          BY <2>7, <4>1, <4>2
        <5>2. slot8 # None => slot8 = slot11
          BY DEF SheetInv, Schedule!DraftIsKept
        <5>3. op.dirty => op.text # None /\ op.text = slot11
          BY <2>4, <2>5, <5>2
        <5> QED
          BY <1>1, <2>5, <4>1, <5>1, <5>3 DEF Schedule!CarriesDraft, TypedStays
      <4>3. CASE r # s
        <5>1. slot9'[r] = slot9[r]
          BY <2>7, <4>1, <4>3
        <5>2. Schedule!CarriesDraft(r)
          BY <2>1, <3>1, <3>7, <4>1, <5>1 DEF Schedule!CallsCarryDraft, Schedule!Takes
        <5> QED
          BY <1>1, <4>1, <5>1, <5>2 DEF Schedule!CarriesDraft, TypedStays
      <4> QED
        BY <4>2, <4>3
    <3> QED
      BY <3>2, <3>3, <3>6, <3>7 DEF Schedule!CallsCarryDraft
  <2> QED
    BY <1>1, <2>9, <2>10 DEF DraftInv
<1> QED
  BY <1>2, <1>3

\* A call without an answer, that may have happened.
LEMMA ScheduleLost ==
  ASSUME ScheduleInv, Schedule!Served, NEW s \in ScheduleSlot, Schedule!CallLost(s)
  PROVE  ScheduleInv'
<1> USE DEF ScheduleInv
<1>1. UNCHANGED <<slot1, slot2, slot4, slot11>> /\ slot9[s] # Schedule!NoOp
  BY DEF Schedule!CallLost
<1>2. TypedStays
  BY <1>1, ScheduleServed
<1>3. StoredInv'
  <2>0. slot3 \in Schedule!Row \cup {None} /\ slot1 \in Schedule!WorkflowRow /\ slot1.published \in slot2
    BY DEF StoredInv, Schedule!NumbersFit
  <2>1. CASE UNCHANGED <<slot3, slot13>>
    BY <1>1, <2>1 DEF StoredInv, Schedule!NumbersFit, Schedule!PauseKept
  <2>2. CASE /\ slot3 # None /\ slot3' = Schedule!Updated(slot3, slot9[s].changes)
             /\ Schedule!Resumes(slot9[s])
    BY <1>1, <2>2, ScheduleOp, ScheduleResumes
  <2>3. CASE slot3' = None /\ UNCHANGED slot13
    BY <1>1, <2>0, <2>3, ScheduleKeeps
  <2>4. CASE slot3' = Schedule!Synchronized(slot3, slot1.published) /\ UNCHANGED slot13
    <3>1. slot1.published \in Int
      BY <2>0 DEF Schedule!WorkflowRow
    <3>2. \/ slot3' = None
          \/ /\ slot3 # None /\ slot3' \in Schedule!Row /\ slot3'.id = slot3.id
             /\ slot3'.enabled = slot3.enabled
      BY <2>0, <2>4, <3>1, ScheduleSynchronized
    <3> QED
      BY <1>1, <2>0, <2>4, <3>2, ScheduleKeeps
  <2> QED
    BY <2>1, <2>2, <2>3, <2>4 DEF Schedule!CallLost
<1>4. CASE Schedule!Fail(s)
  BY <1>1, <1>2, <1>3, <1>4, ScheduleFails
<1>5. CASE slot9[s].at = "create" /\ Schedule!Step(s, "find_again")
  <2>1. "find_again" \in Schedule!Place \ {"update", "publish"}
    BY DEF Schedule!Place
  <2> QED
    BY <1>1, <1>2, <1>3, <1>5, <2>1, ScheduleStep
<1> QED
  BY <1>4, <1>5 DEF Schedule!CallLost, Schedule!At

-----------------------------------------------------------------------------
(* What others do, and what the user does in the panel.                    *)

\* Nothing is written, and the draft does not become another one.
LEMMA ScheduleView ==
  ASSUME SheetInv, DraftInv, TypedStays, UNCHANGED <<slot8, slot9>>,
         slot5' \in PanelRow, slot6' \in ReadRow,
         slot7' \in [text : Schedule!Text, dirty : BOOLEAN], slot7'.dirty = slot7.dirty,
         slot7' = slot7 \/ ~slot7'.dirty,
         slot14' = FALSE \/ (slot14' = slot14 /\ slot5'.needsRefresh = slot5.needsRefresh
                               /\ slot5'.shown = slot5.shown),
         slot9["panel"] # Schedule!NoOp => slot5'.shown # None /\ ~slot5'.loading
  PROVE  SheetInv' /\ DraftInv'
<1>1. Schedule!OnlyAskedResumes' /\ Schedule!CallsAreOfShown' /\ Schedule!BlindIsSeen'
  BY DEF SheetInv, Schedule!OnlyAskedResumes, Schedule!CallsAreOfShown, Schedule!BlindIsSeen
<1>2. Schedule!NoBlindWrite'
  BY DEF SheetInv, Schedule!NoBlindWrite
<1>3. Schedule!DraftIsKept'
  <2>1. CASE slot7' = slot7
    BY <2>1 DEF SheetInv, TypedStays, Schedule!DraftIsKept
  <2>2. CASE ~slot7'.dirty
    <3>1. ~slot7.dirty /\ slot8 = None
      BY <2>2 DEF SheetInv, Schedule!DraftIsKept
    <3> QED
      BY <2>2, <3>1 DEF Schedule!DraftIsKept
  <2> QED
    BY <2>1, <2>2
<1>4. ASSUME slot2' \subseteq Triggered PROVE Schedule!CallsCarryDraft' /\ Schedule!DraftKept'
  <2>1. Schedule!CallsCarryDraft /\ Schedule!DraftKept
    BY <1>4 DEF DraftInv, TypedStays
  <2>2. Schedule!DraftKept' /\ Schedule!OnlyDeleteLists'
    BY <2>1 DEF TypedStays, Schedule!DraftKept, Schedule!CallsCarryDraft, Schedule!OnlyDeleteLists
  <2>3. ASSUME NEW r \in DOMAIN slot9', Schedule!Takes(r)' PROVE Schedule!CarriesDraft(r)'
    <3>1. Schedule!CarriesDraft(r)
      BY <2>1, <2>3 DEF Schedule!CallsCarryDraft, Schedule!Takes
    <3> QED
      BY <3>1 DEF Schedule!CarriesDraft, TypedStays
  <2> QED
    BY <2>2, <2>3 DEF Schedule!CallsCarryDraft
<1> QED
  BY <1>1, <1>2, <1>3, <1>4 DEF SheetInv, DraftInv, TypedStays

LEMMA SchedulePanelView ==
  ASSUME ScheduleInv, Schedule!Served,
         \/ Schedule!EditLive \/ Schedule!AskDelete \/ Schedule!CancelDelete
         \/ Schedule!RefreshState \/ Schedule!LoadFails \/ Schedule!LoadReadsFlow
         \/ Schedule!LoadReadsRow \/ Schedule!LoadAnswered
         \/ \E value \in {0, 1} : Schedule!ChangeField("config", value)
         \/ \E enabled \in BOOLEAN : Schedule!ChangeField("enabled", enabled)
  PROVE  ScheduleInv'
<1> USE DEF ScheduleInv
<1>1. UNCHANGED <<slot1, slot2, slot3, slot4, slot8, slot9, slot11, slot13>>
  BY DEF Schedule!EditLive, Schedule!AskDelete, Schedule!CancelDelete, Schedule!RefreshState,
         Schedule!LoadFails, Schedule!LoadReadsFlow, Schedule!LoadReadsRow, Schedule!LoadAnswered,
         Schedule!ChangeField, Schedule!service, Schedule!history
<1>2. TypedStays
  BY <1>1, ScheduleServed
<1>3. StoredInv'
  BY <1>1 DEF StoredInv, Schedule!NumbersFit, Schedule!PauseKept
<1>4. /\ slot5 \in PanelRow /\ slot6 \in ReadRow /\ slot1 \in Schedule!WorkflowRow
      /\ slot7 \in [text : Schedule!Text, dirty : BOOLEAN] /\ slot3 \in Schedule!Row \cup {None}
      /\ slot9["panel"] # Schedule!NoOp => slot5.shown # None /\ ~slot5.loading
  BY DEF SheetInv, StoredInv, Schedule!CallsAreOfShown
<1>5. ASSUME slot5' \in PanelRow, UNCHANGED slot14, slot5'.needsRefresh = slot5.needsRefresh,
             slot5'.shown = slot5.shown, slot6' \in ReadRow, slot7' = slot7,
             slot9["panel"] # Schedule!NoOp => ~slot5'.loading
      PROVE  ScheduleInv'
  BY <1>1, <1>2, <1>3, <1>4, <1>5, ScheduleView
<1>6. CASE Schedule!EditLive
  <2>1. /\ slot5' = [slot5 EXCEPT !.live = Schedule!NoChanges, !.editing = ~slot5.editing]
        /\ UNCHANGED <<slot6, slot7, slot14>>
    BY <1>4, <1>6 DEF Schedule!EditLive, Schedule!history, PanelRow
  <2>2. slot5' \in PanelRow /\ UNCHANGED <<slot5.needsRefresh, slot5.shown, slot5.loading>>
    BY <1>4, <2>1, ScheduleValues DEF PanelRow
  <2> QED
    BY <1>4, <1>5, <2>1, <2>2
<1>7. CASE Schedule!AskDelete \/ Schedule!CancelDelete
  <2>1. /\ \E b \in BOOLEAN : slot5' = [slot5 EXCEPT !.confirm = b]
        /\ UNCHANGED <<slot6, slot7, slot14>>
    BY <1>7 DEF Schedule!AskDelete, Schedule!CancelDelete, Schedule!history
  <2>2. slot5' \in PanelRow /\ UNCHANGED <<slot5.needsRefresh, slot5.shown, slot5.loading>>
    BY <1>4, <2>1 DEF PanelRow
  <2> QED
    BY <1>4, <1>5, <2>1, <2>2
<1>8. CASE Schedule!RefreshState
  <2>1. /\ slot5' = [slot5 EXCEPT !.loading = TRUE] /\ UNCHANGED <<slot6, slot7, slot14>>
        /\ slot9["panel"] = Schedule!NoOp
    BY <1>8 DEF Schedule!RefreshState, Schedule!Pending, Schedule!history
  <2>2. slot5' \in PanelRow /\ UNCHANGED <<slot5.needsRefresh, slot5.shown>>
    BY <1>4, <2>1 DEF PanelRow
  <2> QED
    BY <1>4, <1>5, <2>1, <2>2
<1>9. CASE Schedule!LoadFails
  <2>1. /\ slot5' = [slot5 EXCEPT !.loading = FALSE] /\ slot6' = Schedule!Unread
        /\ UNCHANGED <<slot7, slot14>>
    BY <1>9 DEF Schedule!LoadFails, Schedule!history
  <2>2. slot5' \in PanelRow /\ UNCHANGED <<slot5.needsRefresh, slot5.shown>> /\ ~slot5'.loading
    BY <1>4, <2>1 DEF PanelRow
  <2> QED
    BY <1>5, <2>1, <2>2, ScheduleValues
<1>10. CASE Schedule!LoadReadsFlow \/ Schedule!LoadReadsRow
  <2>1. /\ \/ slot6' = [slot6 EXCEPT !.flow = slot1]
           \/ slot6' = [slot6 EXCEPT !.row = slot3, !.rowRead = TRUE]
        /\ UNCHANGED <<slot5, slot7, slot14>>
    BY <1>10 DEF Schedule!LoadReadsFlow, Schedule!LoadReadsRow, Schedule!history
  <2>2. slot6' \in ReadRow
    BY <1>4, <2>1 DEF ReadRow
  <2> QED
    BY <1>4, <1>5, <2>1, <2>2
<1>11. CASE Schedule!LoadAnswered
  <2> DEFINE seen == [flow |-> slot6.flow, row |-> slot6.row]
  <2>1. /\ slot5.loading /\ slot6.flow # None /\ slot14' = FALSE /\ slot6' = Schedule!Unread
        /\ slot5' = [slot5 EXCEPT !.shown = seen, !.needsRefresh = FALSE, !.loading = FALSE]
    BY <1>11 DEF Schedule!LoadAnswered
  <2>2. seen \in [flow : Schedule!WorkflowRow, row : Schedule!Row \cup {None}]
    BY <1>4, <2>1 DEF ReadRow
  <2> HIDE DEF seen
  <2>3. slot5' \in PanelRow
    BY <1>4, <2>1, <2>2 DEF PanelRow
  <2>4. \/ slot7' = slot7
        \/ /\ slot7' = [text |-> slot6.row.input, dirty |-> FALSE]
           /\ ~slot7.dirty /\ slot6.row # None
    BY <1>11 DEF Schedule!LoadAnswered
  <2>5. /\ slot7' \in [text : Schedule!Text, dirty : BOOLEAN] /\ slot7'.dirty = slot7.dirty
        /\ slot7' = slot7 \/ ~slot7'.dirty
    <3>1. CASE slot7' = slot7
      BY <1>4, <3>1
    <3>2. CASE slot7' = [text |-> slot6.row.input, dirty |-> FALSE] /\ ~slot7.dirty /\ slot6.row # None
      <4>1. slot6.row.input \in Schedule!Text
        BY <1>4, <3>2 DEF ReadRow, Schedule!Row
      <4>2. slot7.dirty = FALSE
        BY <1>4, <3>2
      <4> QED
        BY <3>2, <4>1, <4>2
    <3> QED
      BY <2>4, <3>1, <3>2
  <2>6. slot9["panel"] = Schedule!NoOp
    BY <1>4, <2>1
  <2> QED
    BY <1>1, <1>2, <1>3, <2>1, <2>3, <2>5, <2>6, ScheduleValues, ScheduleView
<1>12. CASE \/ \E value \in {0, 1} : Schedule!ChangeField("config", value)
            \/ \E enabled \in BOOLEAN : Schedule!ChangeField("enabled", enabled)
  <2>1. \E live \in Schedule!Changes :
           slot5' = [slot5 EXCEPT !.live = live] /\ UNCHANGED <<slot6, slot7, slot14>>
    <3>1. slot5.live \in Schedule!Changes
      BY <1>4 DEF PanelRow
    <3>2. CASE \E value \in {0, 1} : Schedule!ChangeField("config", value)
      <4>1. PICK value \in {0, 1} : Schedule!ChangeField("config", value)
        BY <3>2
      <4>2. \E x \in {None, value} :
              /\ slot5' = [slot5 EXCEPT !.live = [slot5.live EXCEPT !.config = x]]
              /\ UNCHANGED <<slot6, slot7, slot14>>
        BY <1>4, <4>1 DEF Schedule!ChangeField, Schedule!history, PanelRow
      <4>3. \A x \in {None, value} : [slot5.live EXCEPT !.config = x] \in Schedule!Changes
        BY <3>1 DEF Schedule!Changes
      <4> QED
        BY <4>2, <4>3
    <3>3. CASE \E enabled \in BOOLEAN : Schedule!ChangeField("enabled", enabled)
      <4>1. PICK enabled \in BOOLEAN : Schedule!ChangeField("enabled", enabled)
        BY <3>3
      <4>2. \E x \in {None, enabled} :
              /\ slot5' = [slot5 EXCEPT !.live = [slot5.live EXCEPT !.enabled = x]]
              /\ UNCHANGED <<slot6, slot7, slot14>>
        BY <1>4, <4>1 DEF Schedule!ChangeField, Schedule!history, PanelRow
      <4>3. \A x \in {None, enabled} : [slot5.live EXCEPT !.enabled = x] \in Schedule!Changes
        BY <3>1 DEF Schedule!Changes
      <4> QED
        BY <4>2, <4>3
    <3> QED
      BY <1>12, <3>2, <3>3
  <2>2. slot5' \in PanelRow /\ UNCHANGED <<slot5.needsRefresh, slot5.shown, slot5.loading>>
    BY <1>4, <2>1 DEF PanelRow
  <2> QED
    BY <1>4, <1>5, <2>1, <2>2
<1> QED
  BY <1>6, <1>7, <1>8, <1>9, <1>10, <1>11, <1>12

LEMMA ScheduleOthers ==
  ASSUME ScheduleInv, Schedule!Served,
         \/ \E v \in ScheduleVersion : Schedule!OthersPublish(v)
         \/ Schedule!OthersDeactivate \/ Schedule!OthersCreate \/ Schedule!OthersChange
         \/ Schedule!OthersDelete
  PROVE  ScheduleInv'
<1> USE DEF ScheduleInv
<1>1. UNCHANGED <<slot5, slot6, slot7, slot8, slot9, slot11, slot14>>
  BY DEF Schedule!OthersPublish, Schedule!OthersDeactivate, Schedule!OthersCreate,
         Schedule!OthersChange, Schedule!OthersDelete, Schedule!Others, Schedule!page
<1>2. /\ slot1 \in Schedule!WorkflowRow /\ slot3 \in Schedule!Row \cup {None}
      /\ slot1.published \in slot2
  BY DEF StoredInv, Schedule!NumbersFit
<1>3. StoredInv' /\ slot2 \subseteq slot2'
  <2>1. CASE \E v \in ScheduleVersion : Schedule!OthersPublish(v)
    <3>1. PICK v \in ScheduleVersion : Schedule!OthersPublish(v)
      BY <2>1
    <3>2. v \in Int
      BY ScheduleAssumption
    <3> QED
      BY <3>1, <3>2, SchedulePublished DEF Schedule!OthersPublish
  <2>2. CASE Schedule!OthersDeactivate
    <3>1. /\ slot1' = [slot1 EXCEPT !.active = FALSE] /\ UNCHANGED <<slot2, slot4, slot13>>
          /\ slot3' = IF slot3 = None THEN None ELSE [slot3 EXCEPT !.next = FALSE]
      BY <2>2 DEF Schedule!OthersDeactivate
    <3>2. slot1' \in Schedule!WorkflowRow /\ slot1'.published \in slot2'
      BY <1>2, <3>1 DEF Schedule!WorkflowRow
    <3>3. \/ slot3' = None
          \/ /\ slot3 # None /\ slot3' \in Schedule!Row /\ slot3'.id = slot3.id
             /\ slot3'.enabled = slot3.enabled
      BY <1>2, <3>1 DEF Schedule!Row
    <3> QED
      BY <3>1, <3>2, <3>3, ScheduleKeeps
  <2>3. CASE Schedule!OthersCreate
    <3>1. /\ slot3' = Schedule!Created(1 + slot4, slot1.published, TRUE, "others")
          /\ slot4' = slot4 + 1 /\ UNCHANGED <<slot1, slot2, slot13>>
      BY <2>3 DEF Schedule!OthersCreate
    <3>2. slot1.published \in Int \cup {None} /\ "others" \in Schedule!Text
      BY <1>2 DEF Schedule!WorkflowRow, Schedule!Text
    <3> QED
      BY <3>1, <3>2, ScheduleCreated
  <2>4. CASE Schedule!OthersChange
    <3>1. /\ slot3 # None /\ slot3' = [slot3 EXCEPT !.input = "others"]
          /\ UNCHANGED <<slot1, slot2, slot4, slot13>>
      BY <2>4 DEF Schedule!OthersChange
    <3>2. slot3' \in Schedule!Row /\ slot3'.id = slot3.id /\ slot3'.enabled = slot3.enabled
      BY <1>2, <3>1 DEF Schedule!Row, Schedule!Text
    <3> QED
      BY <1>2, <3>1, <3>2, ScheduleKeeps
  <2>5. CASE Schedule!OthersDelete
    BY <1>2, <2>5, ScheduleKeeps DEF Schedule!OthersDelete
  <2> QED
    BY <2>1, <2>2, <2>3, <2>4, <2>5
<1>4. TypedStays
  BY <1>1, <1>3, ScheduleServed
<1>5. SheetInv' /\ DraftInv'
  <2>1. /\ slot5 \in PanelRow /\ slot6 \in ReadRow /\ slot7 \in [text : Schedule!Text, dirty : BOOLEAN]
        /\ slot9["panel"] # Schedule!NoOp => slot5.shown # None /\ ~slot5.loading
    BY DEF SheetInv, Schedule!CallsAreOfShown
  <2> QED
    BY <1>1, <1>4, <2>1, ScheduleView
<1> QED
  BY <1>3, <1>5

\* Nothing is under way while the user types.
LEMMA ScheduleTypes ==
  ASSUME ScheduleInv, Schedule!Served, NEW text \in {"typed", "invalid"}, Schedule!Type(text)
  PROVE  ScheduleInv'
<1> USE DEF ScheduleInv
<1>1. /\ UNCHANGED <<slot1, slot2, slot3, slot4, slot5, slot6, slot9, slot13, slot14>>
      /\ slot7' = [text |-> text, dirty |-> TRUE] /\ slot8' = text /\ slot11' = text
      /\ slot9["panel"] = Schedule!NoOp /\ slot9["builder"] = Schedule!NoOp
  BY DEF Schedule!Type, Schedule!Pending, Schedule!Publishing, Schedule!service
<1>2. StoredInv'
  BY <1>1 DEF StoredInv, Schedule!NumbersFit, Schedule!PauseKept
<1>3. text \in Schedule!Text /\ text # None
  BY ScheduleAssumption DEF Schedule!Text
<1>4. slot12' \in BOOLEAN
  BY DEF Schedule!Served
<1>5. Schedule!DraftIsKept'
  BY <1>1, <1>3 DEF Schedule!DraftIsKept
<1>6. SheetInv'
  BY <1>1, <1>3, <1>4, <1>5
  DEF SheetInv, Schedule!OnlyAskedResumes, Schedule!BlindIsSeen, Schedule!CallsAreOfShown,
      Schedule!NoBlindWrite
<1>7. ASSUME slot2' \subseteq Triggered PROVE Schedule!CallsCarryDraft' /\ Schedule!DraftKept'
  <2>1. Schedule!OnlyDeleteLists'
    BY <1>1, <1>7 DEF DraftInv, Schedule!CallsCarryDraft, Schedule!OnlyDeleteLists
  <2>2. \A r \in DOMAIN slot9' : ~Schedule!Takes(r)'
    BY <1>1, ScheduleValues DEF Schedule!Takes, Schedule!Saves
  <2> QED
    BY <1>1, <2>1, <2>2 DEF Schedule!CallsCarryDraft, Schedule!DraftKept
<1> QED
  BY <1>2, <1>6, <1>7 DEF DraftInv

LEMMA ScheduleRemounts ==
  ASSUME ScheduleInv, Schedule!Served, Schedule!Remount
  PROVE  ScheduleInv'
<1> USE DEF ScheduleInv
<1>1. /\ UNCHANGED <<slot1, slot2, slot3, slot4, slot8, slot11, slot13>>
      /\ Schedule!Mount(slot5.readOnly, slot9)
  BY DEF Schedule!Remount, Schedule!service, Schedule!history
<1>2. StoredInv'
  BY <1>1 DEF StoredInv, Schedule!NumbersFit, Schedule!PauseKept
<1>3. TypedStays
  BY <1>1, ScheduleServed
<1>4. /\ slot9 \in [ScheduleSlot -> Schedule!Calls] /\ DOMAIN slot9 = ScheduleSlot
      /\ slot5.readOnly \in BOOLEAN
      /\ \A s \in ScheduleSlot : slot9[s].changes.enabled = TRUE => slot9[s].kind \in {"toggle", "edit"}
  BY DEF SheetInv, PanelRow, Schedule!OnlyAskedResumes
<1>5. /\ SheetInv' /\ slot9'["panel"] = Schedule!NoOp /\ slot9'["builder"] = slot9["builder"]
      /\ slot9'["orphan"] \in {slot9["orphan"], slot9["panel"]}
  BY <1>1, <1>3, <1>4, ScheduleMounts DEF TypedStays
<1>6. ASSUME slot2' \subseteq Triggered PROVE Schedule!CallsCarryDraft' /\ Schedule!DraftKept'
  <2>1. Schedule!CallsCarryDraft /\ Schedule!DraftKept
    BY <1>3, <1>6 DEF DraftInv, TypedStays
  <2>2. DOMAIN slot9' = ScheduleSlot
    BY <1>5 DEF SheetInv
  <2>3. Schedule!OnlyDeleteLists'
    BY <1>4, <1>5, <2>1, <2>2, ScheduleValues
    DEF Schedule!OnlyDeleteLists, Schedule!CallsCarryDraft, ScheduleSlot
  <2>4. ASSUME NEW r \in ScheduleSlot, Schedule!Takes(r)' PROVE Schedule!CarriesDraft(r)'
    <3>1. r = "builder" /\ slot9'[r] = slot9[r]
      BY <1>5, <2>4, ScheduleValues DEF Schedule!Takes, Schedule!Saves
    <3>2. Schedule!CarriesDraft(r)
      BY <1>4, <2>1, <2>4, <3>1 DEF Schedule!CallsCarryDraft, Schedule!Takes
    <3> QED
      BY <1>3, <3>1, <3>2 DEF Schedule!CarriesDraft, TypedStays
  <2> QED
    BY <1>1, <1>3, <2>1, <2>2, <2>3, <2>4 DEF Schedule!CallsCarryDraft, Schedule!DraftKept, TypedStays
<1> QED
  BY <1>2, <1>5, <1>6 DEF DraftInv

-----------------------------------------------------------------------------
(* How a sequence of calls starts.                                         *)

LEMMA ScheduleStartsCalls ==
  ASSUME ScheduleInv, Schedule!Served, NEW s \in {"panel", "builder"}, NEW op \in Schedule!Calls,
         Schedule!Start(s, op), UNCHANGED slot5,
         op.changes.enabled = TRUE => op.kind \in {"toggle", "edit"},
         op.at \notin {"get", "confirm", "list"}, op.at = "delete" => op.kind = "delete",
         op.dirty => op.text # None /\ op.text = slot11,
         s = "panel" => /\ ~slot14 /\ slot5.shown # None /\ ~slot5.loading
                        /\ op.dirty = slot7.dirty
                        /\ Schedule!Saves(op.kind) /\ op.at = "update" /\ op.dirty =>
                             op.changes.input = op.text,
         s = "builder" => op.kind # "delete" /\ op.at # "update"
  PROVE  ScheduleInv'
<1> USE DEF ScheduleInv
<1>1. /\ UNCHANGED <<slot1, slot2, slot3, slot4, slot5, slot6, slot7, slot8, slot11, slot13, slot14>>
      /\ slot9' = [slot9 EXCEPT ![s] = op]
  BY DEF Schedule!Start, Schedule!service, Schedule!history
<1>2. StoredInv'
  BY <1>1 DEF StoredInv, Schedule!NumbersFit, Schedule!PauseKept
<1>3. TypedStays
  BY <1>1, ScheduleServed
<1>4. /\ DOMAIN slot9 = ScheduleSlot /\ DOMAIN slot9' = ScheduleSlot
      /\ slot9' \in [ScheduleSlot -> Schedule!Calls] /\ slot9'[s] = op /\ s \in ScheduleSlot
      /\ \A r \in ScheduleSlot : r # s => slot9'[r] = slot9[r]
  BY <1>1 DEF SheetInv, ScheduleSlot
<1>5. Schedule!OnlyAskedResumes'
  BY <1>4 DEF SheetInv, Schedule!OnlyAskedResumes
<1>6. Schedule!BlindIsSeen' /\ Schedule!CallsAreOfShown' /\ Schedule!NoBlindWrite'
  BY <1>1, <1>4
  DEF SheetInv, Schedule!BlindIsSeen, Schedule!CallsAreOfShown, Schedule!NoBlindWrite, ScheduleSlot
<1>7. Schedule!DraftIsKept'
  BY <1>1 DEF SheetInv, Schedule!DraftIsKept
<1>8. SheetInv'
  BY <1>1, <1>3, <1>4, <1>5, <1>6, <1>7 DEF SheetInv, TypedStays
<1>9. ASSUME slot2' \subseteq Triggered PROVE Schedule!CallsCarryDraft' /\ Schedule!DraftKept'
  <2>1. Schedule!CallsCarryDraft /\ Schedule!DraftKept
    BY <1>3, <1>9 DEF DraftInv, TypedStays
  <2>2. Schedule!OnlyDeleteLists'
    BY <1>4, <2>1 DEF Schedule!OnlyDeleteLists, Schedule!CallsCarryDraft, ScheduleSlot
  <2>3. ASSUME NEW r \in ScheduleSlot, Schedule!Takes(r)' PROVE Schedule!CarriesDraft(r)'
    <3>1. CASE r = s
      <4>1. slot9'[r] = op /\ slot7' = slot7 /\ slot11' = slot11
        BY <1>1, <1>4, <3>1
      <4>2. op.at = "update" /\ op.dirty => op.changes.input = slot11
        BY <2>3, <3>1, <4>1 DEF Schedule!Takes
      <4>3. r = "panel" => (op.dirty <=> slot7.dirty)
        BY <3>1, Zenon
      <4> QED
        BY <4>1, <4>2, <4>3 DEF Schedule!CarriesDraft
    <3>2. CASE r # s
      <4>1. slot9'[r] = slot9[r]
        BY <1>4, <3>2
      <4>2. Schedule!CarriesDraft(r)
        BY <1>4, <2>1, <2>3, <4>1 DEF Schedule!CallsCarryDraft, Schedule!Takes
      <4> QED
        BY <1>1, <1>3, <4>1, <4>2 DEF Schedule!CarriesDraft, TypedStays
    <3> QED
      BY <3>1, <3>2
  <2> QED
    BY <1>1, <1>3, <1>4, <2>1, <2>2, <2>3
    DEF Schedule!CallsCarryDraft, Schedule!DraftKept, TypedStays
<1> QED
  BY <1>2, <1>8, <1>9 DEF DraftInv

LEMMA ScheduleOpOf ==
  ASSUME SheetInv, NEW kind \in Schedule!Kind, NEW at \in Schedule!Place
  PROVE  LET op == Schedule!Op(kind, at)
         IN  /\ op \in Schedule!Calls /\ op.kind = kind /\ op.at = at
             /\ op.dirty = slot7.dirty /\ op.text = slot7.text
             /\ op.changes = Schedule!NoChanges
             /\ op.dirty => op.text # None /\ op.text = slot11
<1> DEFINE op == Schedule!Op(kind, at)
           base == [Schedule!NoOp EXCEPT !.kind = kind, !.at = at]
<1>1. slot7.text \in Schedule!Text /\ slot7.dirty \in BOOLEAN
  BY DEF SheetInv
<1>2. base \in Schedule!Calls /\ base.kind = kind /\ base.at = at
      /\ base.changes = Schedule!NoChanges
  BY ScheduleValues DEF Schedule!Calls
<1>3. op = [base EXCEPT !.text = slot7.text, !.dirty = slot7.dirty]
  BY DEF Schedule!Op
<1> HIDE DEF op, base
<1>4. /\ op \in Schedule!Calls /\ op.kind = kind /\ op.at = at
      /\ op.dirty = slot7.dirty /\ op.text = slot7.text /\ op.changes = Schedule!NoChanges
  BY <1>1, <1>2, <1>3 DEF Schedule!Calls
<1>5. slot7.dirty => slot7.text # None /\ slot7.text = slot11
  BY DEF SheetInv, Schedule!DraftIsKept
<1> QED
  BY <1>4, <1>5 DEF op

\* The panel writes with what it shows, which is not blind.
LEMMA ScheduleMutates ==
  ASSUME ScheduleInv, Schedule!Served, NEW op \in Schedule!Calls, Schedule!Mutate(op),
         op.changes.enabled = TRUE => op.kind \in {"toggle", "edit"},
         op.at \notin {"get", "confirm", "list"}, op.at = "delete" => op.kind = "delete",
         op.dirty = slot7.dirty, op.text = slot7.text,
         Schedule!Saves(op.kind) /\ op.at = "update" /\ op.dirty => op.changes.input = op.text
  PROVE  ScheduleInv'
<1>1. /\ Schedule!Start("panel", op) /\ UNCHANGED slot5 /\ slot5.shown # None /\ ~slot5.loading
      /\ ~slot5.needsRefresh
  BY DEF Schedule!Mutate, Schedule!Usable
<1>2. ~slot14
  BY <1>1 DEF ScheduleInv, SheetInv, Schedule!BlindIsSeen
<1>3. op.dirty => op.text # None /\ op.text = slot11
  BY DEF ScheduleInv, SheetInv, Schedule!DraftIsKept
<1> QED
  BY <1>1, <1>2, <1>3, ScheduleStartsCalls

LEMMA ScheduleAsksUpdate ==
  ASSUME ScheduleInv, Schedule!Served, NEW kind \in {"toggle", "edit", "payload"},
         NEW changes \in Schedule!Changes, Schedule!Update(kind, changes),
         slot5.shown # None, slot5.shown.row # None,
         changes.enabled = TRUE => kind \in {"toggle", "edit"},
         kind # "toggle" /\ slot7.dirty => changes.input = slot7.text
  PROVE  ScheduleInv'
<1> DEFINE base == Schedule!Op(kind, "update")
           op == [base EXCEPT !.changes = changes, !.id = slot5.shown.row.id]
<1>1. kind \in Schedule!Kind /\ "update" \in Schedule!Place
  BY DEF Schedule!Kind, Schedule!Place
<1>2. /\ base \in Schedule!Calls /\ base.kind = kind /\ base.at = "update"
      /\ base.dirty = slot7.dirty /\ base.text = slot7.text
  BY <1>1, ScheduleOpOf DEF ScheduleInv
<1>3. slot5.shown.row.id \in Nat
  BY DEF ScheduleInv, SheetInv, PanelRow, Schedule!Row
<1>4. Schedule!Mutate(op)
  BY DEF Schedule!Update
<1> HIDE DEF base
<1>5. /\ op \in Schedule!Calls /\ op.kind = kind /\ op.at = "update" /\ op.changes = changes
      /\ op.dirty = slot7.dirty /\ op.text = slot7.text
  BY <1>2, <1>3 DEF Schedule!Calls
<1> HIDE DEF op
<1>6. Schedule!Saves(op.kind) /\ op.dirty => op.changes.input = op.text
  BY <1>5 DEF Schedule!Saves
<1> QED
  BY <1>4, <1>5, <1>6, ScheduleMutates

LEMMA ScheduleUpdateStarts ==
  ASSUME ScheduleInv, Schedule!Served,
         Schedule!ToggleSchedule \/ Schedule!SaveLive \/ Schedule!SavePayload
  PROVE  ScheduleInv'
<1>1. slot5.shown # None /\ slot5.shown.row # None
  BY DEF Schedule!ToggleSchedule, Schedule!SaveLive, Schedule!SavePayload
<1>2. /\ slot5.live \in Schedule!Changes /\ slot7.text \in Schedule!Text /\ slot7.dirty \in BOOLEAN
  BY DEF ScheduleInv, SheetInv, PanelRow
<1>3. CASE Schedule!ToggleSchedule
  <2> DEFINE enabled == ~slot5.shown.row.enabled \/ ~slot5.shown.row.next
             changes == [Schedule!NoChanges EXCEPT !.enabled = enabled]
  <2>1. enabled \in BOOLEAN
    OBVIOUS
  <2>2. Schedule!Update("toggle", changes)
    BY <1>3 DEF Schedule!ToggleSchedule
  <2> HIDE DEF enabled
  <2>3. changes \in Schedule!Changes
    BY <2>1, ScheduleValues DEF Schedule!Changes
  <2> HIDE DEF changes
  <2> QED
    BY <1>1, <2>2, <2>3, ScheduleAsksUpdate
<1>4. CASE Schedule!SaveLive
  <2> DEFINE input == IF slot7.dirty THEN slot7.text ELSE None
             changes == [slot5.live EXCEPT !.input = input]
  <2>1. Schedule!Update("edit", changes)
    BY <1>4 DEF Schedule!SaveLive, Schedule!DraftChange
  <2>2. changes \in Schedule!Changes /\ changes.input = input
    BY <1>2 DEF Schedule!Changes
  <2> HIDE DEF changes
  <2> QED
    BY <1>1, <2>1, <2>2, ScheduleAsksUpdate
<1>5. CASE Schedule!SavePayload
  <2> DEFINE changes == [Schedule!NoChanges EXCEPT !.input = slot7.text]
  <2>1. Schedule!Update("payload", changes)
    BY <1>5 DEF Schedule!SavePayload
  <2>2. /\ changes \in Schedule!Changes /\ changes.input = slot7.text
        /\ changes.enabled = Schedule!NoChanges.enabled
    BY <1>2, ScheduleValues DEF Schedule!Changes
  <2> HIDE DEF changes
  <2>3. changes.enabled # TRUE
    BY <2>2, ScheduleValues, ScheduleAssumption
  <2> QED
    BY <1>1, <2>1, <2>2, <2>3, ScheduleAsksUpdate
<1> QED
  BY <1>3, <1>4, <1>5

LEMMA ScheduleOtherStarts ==
  ASSUME ScheduleInv, Schedule!Served,
         \/ Schedule!Activate \/ Schedule!RetryActivation \/ Schedule!ConfirmDelete
  PROVE  ScheduleInv'
<1>0. slot5 \in PanelRow /\ slot5.shown # None
  BY DEF ScheduleInv, SheetInv, Schedule!Activate, Schedule!RetryActivation, Schedule!ConfirmDelete
<1>1. /\ {"activate", "retry", "delete"} \subseteq Schedule!Kind
      /\ {"workflow", "delete"} \subseteq Schedule!Place
  BY DEF Schedule!Kind, Schedule!Place
<1>2. Schedule!NoChanges.enabled # TRUE
  BY ScheduleValues, ScheduleAssumption
<1>3. ASSUME NEW kind \in {"activate", "retry", "delete"}, NEW at \in {"workflow", "delete"},
             NEW op \in Schedule!Calls, Schedule!Mutate(op), op.kind = kind, op.at = at,
             op.changes = Schedule!NoChanges, op.dirty = slot7.dirty, op.text = slot7.text,
             at = "delete" => kind = "delete"
      PROVE  ScheduleInv'
  BY <1>2, <1>3, ScheduleMutates
<1>4. \A kind \in {"activate", "retry", "delete"}, at \in {"workflow", "delete"} :
        LET op == Schedule!Op(kind, at)
        IN  /\ op \in Schedule!Calls /\ op.kind = kind /\ op.at = at
            /\ op.dirty = slot7.dirty /\ op.text = slot7.text /\ op.changes = Schedule!NoChanges
  BY <1>1, ScheduleOpOf DEF ScheduleInv
<1>5. CASE Schedule!Activate
  <2> DEFINE base == Schedule!Op("activate", "workflow")
             config == Schedule!Changed(slot5.shown.flow.published, slot5.live.config)
             enabled == Schedule!Changed(TRUE, slot5.live.enabled)
             op == [base EXCEPT !.config = config, !.enabled = enabled]
  <2>1. config \in Int \cup {None} /\ enabled \in BOOLEAN
    BY <1>0 DEF PanelRow, Schedule!WorkflowRow, Schedule!Changes, Schedule!Changed
  <2>2. Schedule!Mutate(op)
    BY <1>5 DEF Schedule!Activate
  <2>3. /\ base \in Schedule!Calls /\ base.kind = "activate" /\ base.at = "workflow"
        /\ base.dirty = slot7.dirty /\ base.text = slot7.text /\ base.changes = Schedule!NoChanges
    BY <1>4
  <2> HIDE DEF base, config, enabled
  <2>4. /\ op \in Schedule!Calls /\ op.kind = "activate" /\ op.at = "workflow"
        /\ op.dirty = slot7.dirty /\ op.text = slot7.text /\ op.changes = Schedule!NoChanges
    BY <2>1, <2>3 DEF Schedule!Calls
  <2> HIDE DEF op
  <2> QED
    BY <1>3, <2>2, <2>4
<1>6. CASE Schedule!RetryActivation
  <2>1. Schedule!Mutate(Schedule!Op("retry", "workflow"))
    BY <1>6 DEF Schedule!RetryActivation
  <2> QED
    BY <1>3, <1>4, <2>1
<1>7. CASE Schedule!ConfirmDelete
  <2> DEFINE base == Schedule!Op("delete", "delete")
             id == IF slot5.shown.row = None THEN 0 ELSE slot5.shown.row.id
             op == [base EXCEPT !.id = id]
  <2>1. id \in Nat
    BY <1>0 DEF PanelRow, Schedule!Row
  <2>2. Schedule!Mutate(op)
    BY <1>7 DEF Schedule!ConfirmDelete
  <2>3. /\ base \in Schedule!Calls /\ base.kind = "delete" /\ base.at = "delete"
        /\ base.dirty = slot7.dirty /\ base.text = slot7.text /\ base.changes = Schedule!NoChanges
    BY <1>4
  <2> HIDE DEF base, id
  <2>4. /\ op \in Schedule!Calls /\ op.kind = "delete" /\ op.at = "delete"
        /\ op.dirty = slot7.dirty /\ op.text = slot7.text /\ op.changes = Schedule!NoChanges
    BY <2>1, <2>3 DEF Schedule!Calls
  <2> HIDE DEF op
  <2> QED
    BY <1>3, <2>2, <2>4
<1> QED
  BY <1>5, <1>6, <1>7

\* The builder publishes, or synchronises the schedule with the draft that is
\* kept.
LEMMA ScheduleBuilderStarts ==
  ASSUME ScheduleInv, Schedule!Served, Schedule!PublishDraft \/ Schedule!RetryFromWarning
  PROVE  ScheduleInv'
<1>0. Schedule!NoChanges.enabled # TRUE
  BY ScheduleValues, ScheduleAssumption
<1>1. CASE Schedule!PublishDraft
  <2> DEFINE op == Schedule!Op("publish", "publish")
  <2>1. Schedule!Start("builder", op) /\ UNCHANGED slot5
    BY <1>1 DEF Schedule!PublishDraft, Schedule!BuilderStarts
  <2>2. "publish" \in Schedule!Kind /\ "publish" \in Schedule!Place
    BY DEF Schedule!Kind, Schedule!Place
  <2>3. /\ op \in Schedule!Calls /\ op.kind = "publish" /\ op.at = "publish"
        /\ op.changes = Schedule!NoChanges
        /\ op.dirty => op.text # None /\ op.text = slot11
    BY <2>2, ScheduleOpOf DEF ScheduleInv
  <2> HIDE DEF op
  <2> QED
    BY <1>0, <2>1, <2>3, ScheduleStartsCalls
<1>2. CASE Schedule!RetryFromWarning
  <2> DEFINE base == Schedule!Op("builder", "workflow")
             read == Schedule!Read(slot8)
             op == [base EXCEPT !.text = read.text, !.dirty = read.dirty]
  <2>1. Schedule!Start("builder", op) /\ UNCHANGED slot5
    BY <1>2 DEF Schedule!RetryFromWarning, Schedule!BuilderStarts
  <2>2. "builder" \in Schedule!Kind /\ "workflow" \in Schedule!Place
    BY DEF Schedule!Kind, Schedule!Place
  <2>3. /\ base \in Schedule!Calls /\ base.kind = "builder" /\ base.at = "workflow"
        /\ base.changes = Schedule!NoChanges
    BY <2>2, ScheduleOpOf DEF ScheduleInv
  <2>4. /\ read \in [text : Schedule!Text, dirty : BOOLEAN] /\ (read.dirty <=> slot8 # None)
        /\ slot8 # None => read.text = slot8
    BY ScheduleRead DEF ScheduleInv, SheetInv
  <2>5. slot8 # None => slot8 = slot11
    BY DEF ScheduleInv, SheetInv, Schedule!DraftIsKept
  <2> HIDE DEF base, read
  <2>6. /\ op \in Schedule!Calls /\ op.kind = "builder" /\ op.at = "workflow"
        /\ op.changes = Schedule!NoChanges /\ op.text = read.text /\ op.dirty = read.dirty
    BY <2>3, <2>4 DEF Schedule!Calls
  <2> HIDE DEF op
  <2>7. op.dirty => op.text # None /\ op.text = slot11
    BY <2>4, <2>5, <2>6
  <2> QED
    BY <1>0, <2>1, <2>6, <2>7, ScheduleStartsCalls
<1> QED
  BY <1>1, <1>2

-----------------------------------------------------------------------------
LEMMA ScheduleStarts ==
  ASSUME Schedule!Init
  PROVE  ScheduleInv
<1>1. /\ slot1 = [published |-> 1, active |-> TRUE] /\ slot2 = {1}
      /\ slot5 = Schedule!Fresh(FALSE) /\ slot6 = Schedule!Unread
      /\ slot7 = Schedule!Read(None) /\ slot8 = None
      /\ slot9 = [s \in ScheduleSlot |-> Schedule!NoOp]
      /\ slot11 = None /\ slot12 = FALSE /\ slot14 = FALSE /\ slot4 = 1
  BY DEF Schedule!Init, ScheduleSlot
<1>2. StoredInv
  <2>1. slot1 \in Schedule!WorkflowRow /\ slot1.published \in slot2
    BY <1>1 DEF Schedule!WorkflowRow
  <2>2. CASE slot3 = None /\ slot13 = 0
    BY <1>1, <2>1, <2>2 DEF StoredInv, Schedule!NumbersFit, Schedule!PauseKept
  <2>3. CASE \E enabled \in BOOLEAN, v \in 0..1 :
               /\ slot3 = [Schedule!Created(1, v, enabled, "empty") EXCEPT !.version = v]
               /\ slot13 = IF enabled THEN 0 ELSE 1
    <3>1. PICK enabled \in BOOLEAN, v \in 0..1 :
            /\ slot3 = [Schedule!Created(1, v, enabled, "empty") EXCEPT !.version = v]
            /\ slot13 = IF enabled THEN 0 ELSE 1
      BY <2>3
    <3>2. Schedule!Created(1, v, enabled, "empty") =
            [id |-> 1, version |-> 1, config |-> v, enabled |-> enabled, input |-> "empty",
             next |-> enabled]
      BY <1>1 DEF Schedule!Created
    <3>3. slot3 = [id |-> 1, version |-> v, config |-> v, enabled |-> enabled,
                   input |-> "empty", next |-> enabled]
      BY <3>1, <3>2
    <3>4. slot3 \in Schedule!Row /\ slot3.id = 1 /\ slot3.enabled = enabled
      BY <3>3 DEF Schedule!Row, Schedule!Text
    <3> QED
      BY <1>1, <2>1, <3>1, <3>4 DEF StoredInv, Schedule!NumbersFit, Schedule!PauseKept
  <2> QED
    BY <2>2, <2>3 DEF Schedule!Init
<1>3. /\ slot5 \in PanelRow /\ slot6 \in ReadRow
      /\ slot7 \in [text : Schedule!Text, dirty : BOOLEAN] /\ ~slot7.dirty
  BY <1>1, ScheduleFresh, ScheduleValues, ScheduleRead
<1>4. /\ slot9 \in [ScheduleSlot -> Schedule!Calls] /\ DOMAIN slot9 = ScheduleSlot
      /\ \A s \in ScheduleSlot : slot9[s] = Schedule!NoOp
  BY <1>1, ScheduleValues
<1>5. Schedule!OnlyAskedResumes
  BY <1>4, ScheduleValues, ScheduleAssumption DEF Schedule!OnlyAskedResumes
<1>6. /\ Schedule!BlindIsSeen /\ Schedule!CallsAreOfShown /\ Schedule!NoBlindWrite
      /\ Schedule!DraftIsKept
  BY <1>1, <1>3, <1>4 DEF Schedule!BlindIsSeen, Schedule!CallsAreOfShown, Schedule!NoBlindWrite,
     Schedule!DraftIsKept, ScheduleSlot
<1>7. Schedule!CallsCarryDraft /\ Schedule!DraftKept
  BY <1>1, <1>4, ScheduleValues
  DEF Schedule!CallsCarryDraft, Schedule!DraftKept, Schedule!OnlyDeleteLists, Schedule!Takes,
      Schedule!Saves, ScheduleSlot
<1> QED
  BY <1>1, <1>2, <1>3, <1>4, <1>5, <1>6, <1>7 DEF ScheduleInv, SheetInv, DraftInv

LEMMA ScheduleSteps ==
  ASSUME ScheduleInv, Schedule!Next \/ UNCHANGED Schedule!vars
  PROVE  ScheduleInv'
<1>1. CASE UNCHANGED Schedule!vars
  <2>1. UNCHANGED <<slot1, slot2, slot3, slot4, slot5, slot6, slot7, slot8, slot9, slot10, slot11,
                    slot12, slot13, slot14>>
    BY <1>1 DEF Schedule!vars, Schedule!service, Schedule!page, Schedule!history
  <2>2. StoredInv'
    BY <2>1 DEF ScheduleInv, StoredInv, Schedule!NumbersFit, Schedule!PauseKept
  <2>3. TypedStays
    BY <2>1 DEF TypedStays, ScheduleInv, SheetInv
  <2>4. /\ slot5 \in PanelRow /\ slot6 \in ReadRow /\ slot7 \in [text : Schedule!Text, dirty : BOOLEAN]
        /\ slot9["panel"] # Schedule!NoOp => slot5.shown # None /\ ~slot5.loading
    BY DEF ScheduleInv, SheetInv, Schedule!CallsAreOfShown
  <2> QED
    BY <2>1, <2>2, <2>3, <2>4, ScheduleView DEF ScheduleInv
<1>2. CASE Schedule!Next
  <2>1. Schedule!Served
    BY <1>2 DEF Schedule!Next
  <2>2. CASE \/ Schedule!EditLive \/ Schedule!AskDelete \/ Schedule!CancelDelete
             \/ Schedule!RefreshState \/ Schedule!LoadFails \/ Schedule!LoadReadsFlow
             \/ Schedule!LoadReadsRow \/ Schedule!LoadAnswered
             \/ \E value \in {0, 1} : Schedule!ChangeField("config", value)
             \/ \E enabled \in BOOLEAN : Schedule!ChangeField("enabled", enabled)
    BY <2>1, <2>2, SchedulePanelView
  <2>3. CASE \/ \E v \in ScheduleVersion : Schedule!OthersPublish(v)
             \/ Schedule!OthersDeactivate \/ Schedule!OthersCreate \/ Schedule!OthersChange
             \/ Schedule!OthersDelete
    BY <2>1, <2>3, ScheduleOthers
  <2>4. CASE Schedule!Remount \/ \E text \in {"typed", "invalid"} : Schedule!Type(text)
    BY <2>1, <2>4, ScheduleRemounts, ScheduleTypes
  <2>5. CASE \/ Schedule!ToggleSchedule \/ Schedule!SaveLive \/ Schedule!SavePayload
             \/ Schedule!Activate \/ Schedule!RetryActivation \/ Schedule!ConfirmDelete
             \/ Schedule!PublishDraft \/ Schedule!RetryFromWarning
    BY <2>1, <2>5, ScheduleUpdateStarts, ScheduleOtherStarts, ScheduleBuilderStarts
  <2>6. ASSUME NEW s \in DOMAIN slot9,
               \/ Schedule!ReadWorkflow(s) \/ Schedule!FindExisting(s) \/ Schedule!FindAgain(s)
               \/ Schedule!CreateRow(s) \/ Schedule!UpdateRow(s) \/ Schedule!ConfirmRow(s)
               \/ Schedule!ReadAgain(s) \/ Schedule!PublishAgain(s) \/ Schedule!DeleteRow(s)
               \/ Schedule!GetRow(s) \/ Schedule!ListRows(s) \/ Schedule!PublishCall(s)
               \/ Schedule!CheckPublished(s) \/ Schedule!CallLost(s)
        PROVE  ScheduleInv'
    <3>1. s \in ScheduleSlot
      BY DEF ScheduleInv, SheetInv
    <3> QED
      BY <2>1, <2>6, <3>1, ScheduleReads, ScheduleCreates, ScheduleUpdates, SchedulePublishes,
         ScheduleDeletes, ScheduleChecks, ScheduleLost
  <2> QED
    BY <1>2, <2>2, <2>3, <2>4, <2>5, <2>6 DEF Schedule!Next
<1> QED
  BY <1>1, <1>2

-----------------------------------------------------------------------------
(* The test of a webhook.  slot1 to slot7 are sessions, subject, generation, *)
(* watches, stage, sessionId and shown.                                     *)

TestsSession == [hook : Tested, result : {"waiting", "success", "failed"}, alive : BOOLEAN]
TestsType ==
  /\ slot1 \in Seq(TestsSession) /\ slot2 \in Tested \cup {None} /\ slot3 \in Nat
  /\ \A w \in slot4 : DOMAIN w = {"run", "hook", "phase", "session"} /\ w.run \in Nat
                       /\ w.hook \in Tested

TestsInv ==
  /\ TestsType /\ Tests!RunsHaveNumbers /\ Tests!RunsHaveSessions
  /\ Tests!LatestIsOfDialog /\ Tests!ResultIsOfSession

LEMMA TestsStarts == Tests!Init => TestsInv
<1> SUFFICES ASSUME Tests!Init PROVE TestsInv
  OBVIOUS
<1>1. slot1 = <<>> /\ slot3 = 0 /\ slot4 = {} /\ slot6 = 0 /\ slot7 = Tests!NoResult /\ slot2 = None
  BY DEF Tests!Init
<1>2. TestsType
  BY <1>1 DEF TestsType
<1> QED
  BY <1>1, <1>2 DEF TestsInv, Tests!RunsHaveNumbers, Tests!RunsHaveSessions,
     Tests!LatestIsOfDialog, Tests!ResultIsOfSession

\* What the service does to its sessions: a result stays what it is.
TestsKept ==
  \A s \in DOMAIN slot1 :
    /\ s \in DOMAIN slot1' /\ slot1'[s].hook = slot1[s].hook
    /\ slot1[s].result # "waiting" => slot1'[s].result = slot1[s].result

LEMMA TestsSame ==
  ASSUME slot1' = slot1 PROVE TestsKept
BY DEF TestsKept

\* Runs that are over, or go on in the same way.
LEMMA TestsLess ==
  ASSUME TestsInv, slot1' \in Seq(TestsSession), TestsKept, slot4' \subseteq slot4,
         slot3' = slot3 \/ slot3' = slot3 + 1, slot2' \in Tested \cup {None},
         slot3' = slot3 => UNCHANGED <<slot2, slot6>>,
         \A w \in slot4' : Tests!Active(w)' => Tests!Active(w) /\ slot7' = slot7,
         slot6' = slot6, Tests!ResultIsOfSession'
  PROVE  TestsInv'
<1>1. TestsType /\ Tests!RunsHaveNumbers /\ Tests!RunsHaveSessions
      /\ Tests!LatestIsOfDialog
  BY DEF TestsInv
<1>2. TestsType' /\ Tests!RunsHaveNumbers'
  BY <1>1 DEF TestsType, Tests!RunsHaveNumbers
<1>3. Tests!RunsHaveSessions'
  BY <1>1 DEF Tests!RunsHaveSessions, TestsKept
<1>4. Tests!LatestIsOfDialog'
  <2>1. ASSUME NEW w \in slot4', Tests!Active(w)'
        PROVE  slot2' = w.hook /\ slot7' = Tests!NoResult
               /\ (w.phase \notin {"starting", "created"} => slot6' = w.session)
    <3>1. w \in slot4 /\ Tests!Active(w) /\ slot7' = slot7
      BY <2>1
    <3>2. slot3' = slot3
      BY <2>1, <3>1 DEF Tests!Active
    <3> QED
      BY <1>1, <3>1, <3>2 DEF Tests!LatestIsOfDialog
  <2>2. slot6' # 0 => slot6' \in DOMAIN slot1'
    BY <1>1 DEF Tests!LatestIsOfDialog, TestsKept
  <2> QED
    BY <2>1, <2>2 DEF Tests!LatestIsOfDialog
<1> QED
  BY <1>2, <1>3, <1>4 DEF TestsInv

LEMMA TestsShown ==
  ASSUME TestsInv, TestsKept, UNCHANGED <<slot2, slot6, slot7>> PROVE Tests!ResultIsOfSession'
<1>1. Tests!ResultIsOfSession /\ Tests!LatestIsOfDialog
  BY DEF TestsInv
<1> QED
  BY <1>1 DEF Tests!ResultIsOfSession, Tests!LatestIsOfDialog, TestsKept, Tests!NoResult

\* A run of the effect takes a step.
LEMMA TestsGoes ==
  ASSUME TestsInv, slot1' \in Seq(TestsSession), TestsKept, NEW w \in slot4, NEW v,
         slot4' = (slot4 \ {w}) \cup {v}, UNCHANGED <<slot2, slot3, slot7>>,
         DOMAIN v = {"run", "hook", "phase", "session"}, v.run = w.run, v.hook = w.hook,
         v.phase # "starting", v.session \in DOMAIN slot1', slot1'[v.session].hook = v.hook,
         v.phase \in {"success", "failed"} => slot1'[v.session].result = v.phase,
         \/ slot6' = slot6 /\ v.phase = "created"
         \/ slot6' = slot6 /\ w.phase \notin {"starting", "created"} /\ v.session = w.session
         \/ slot6' = v.session /\ Tests!Active(w)
  PROVE  TestsInv'
<1>1. TestsType /\ Tests!RunsHaveNumbers /\ Tests!RunsHaveSessions
      /\ Tests!LatestIsOfDialog /\ Tests!ResultIsOfSession
  BY DEF TestsInv
<1>2. TestsType'
  BY <1>1 DEF TestsType
<1>3. Tests!RunsHaveNumbers'
  <2>1. \A u \in slot4 \ {w} : u.run # v.run
    BY <1>1 DEF Tests!RunsHaveNumbers
  <2> QED
    BY <1>1, <2>1 DEF Tests!RunsHaveNumbers
<1>4. Tests!RunsHaveSessions'
  BY <1>1 DEF Tests!RunsHaveSessions, TestsKept
<1>5. \A u \in slot4' : Tests!Active(u)' =>
        /\ slot2' = u.hook /\ slot7' = Tests!NoResult
        /\ u.phase \notin {"starting", "created"} => slot6' = u.session
  <2> SUFFICES ASSUME NEW u \in slot4', slot3 = u.run
               PROVE  /\ slot2' = u.hook /\ slot7' = Tests!NoResult
                      /\ u.phase \notin {"starting", "created"} => slot6' = u.session
    BY DEF Tests!Active
  <2>1. CASE u = v
    BY <1>1, <2>1 DEF Tests!LatestIsOfDialog, Tests!Active
  <2>2. CASE u # v
    <3>1. u \in slot4 /\ u.run # w.run
      BY <1>1, <2>2 DEF Tests!RunsHaveNumbers
    <3>2. slot6' = slot6
      BY <3>1 DEF Tests!Active
    <3> QED
      BY <1>1, <3>1, <3>2 DEF Tests!LatestIsOfDialog, Tests!Active
  <2> QED
    BY <2>1, <2>2
<1>6. slot6' # 0 => slot6' \in DOMAIN slot1'
  BY <1>1 DEF Tests!LatestIsOfDialog, TestsKept
<1>7. Tests!LatestIsOfDialog'
  BY <1>5, <1>6 DEF Tests!LatestIsOfDialog
<1>8. Tests!ResultIsOfSession'
  <2>1. CASE slot6' = slot6
    BY <2>1, TestsShown
  <2>2. CASE Tests!Active(w)
    BY <1>1, <2>2 DEF Tests!LatestIsOfDialog, Tests!ResultIsOfSession
  <2> QED
    BY <2>1, <2>2
<1> QED
  BY <1>2, <1>3, <1>4, <1>7, <1>8 DEF TestsInv

LEMMA TestsOpens ==
  ASSUME TestsInv, NEW hook \in Tested, Tests!Starts(hook), slot1' = slot1 PROVE TestsInv'
<1> DEFINE new == Tests!Watch(slot3', hook)
<1>1. TestsType /\ Tests!RunsHaveNumbers /\ Tests!RunsHaveSessions
  BY DEF TestsInv
<1>2. /\ slot2' = hook /\ slot3' = slot3 + 1 /\ slot4' = slot4 \cup {new}
      /\ slot6' = 0 /\ slot7' = Tests!NoResult
  BY DEF Tests!Starts
<1>3. /\ DOMAIN new = {"run", "hook", "phase", "session"} /\ new.run = slot3'
      /\ new.hook = hook /\ new.phase = "starting"
  BY DEF Tests!Watch
<1> HIDE DEF new
<1>4. \A w \in slot4 : w.run < slot3' /\ w.run \in Nat
  BY <1>1, <1>2 DEF TestsType, Tests!RunsHaveNumbers
<1>5. TestsType'
  BY <1>1, <1>2, <1>3 DEF TestsType
<1>6. Tests!RunsHaveNumbers'
  <2>1. slot3' \in Nat
    BY <1>1, <1>2 DEF TestsType
  <2>2. \A w \in slot4' : w.run <= slot3' /\ (w # new => w.run # new.run /\ w \in slot4)
    BY <1>2, <1>3, <1>4, <2>1
  <2> QED
    BY <1>1, <2>2 DEF Tests!RunsHaveNumbers
<1>7. Tests!RunsHaveSessions'
  BY <1>1, <1>2, <1>3 DEF Tests!RunsHaveSessions
<1>8. Tests!LatestIsOfDialog'
  <2>1. \A w \in slot4' : Tests!Active(w)' => w = new
    BY <1>2, <1>4 DEF Tests!Active
  <2> QED
    BY <1>2, <1>3, <2>1 DEF Tests!LatestIsOfDialog
<1>9. Tests!ResultIsOfSession'
  BY <1>2 DEF Tests!ResultIsOfSession
<1> QED
  BY <1>5, <1>6, <1>7, <1>8, <1>9 DEF TestsInv

LEMMA TestsCreates ==
  ASSUME TestsInv, NEW w \in slot4, Tests!SessionCreated(w) PROVE TestsInv'
<1> DEFINE n == Len(slot1)
           new == [hook |-> w.hook, result |-> Tests!NoResult, alive |-> TRUE]
           v == [w EXCEPT !.phase = "created", !.session = n + 1]
<1>1. TestsType
  BY DEF TestsInv
<1>2. /\ slot1' = Append(slot1, new) /\ slot4' = (slot4 \ {w}) \cup {v}
      /\ UNCHANGED <<slot2, slot3, slot6, slot7>>
  BY DEF Tests!SessionCreated, Tests!dialogVars
<1>3. new \in TestsSession /\ new.hook = w.hook
  BY <1>1 DEF TestsType, TestsSession, Tests!NoResult
<1>4. /\ DOMAIN v = {"run", "hook", "phase", "session"} /\ v.run = w.run /\ v.hook = w.hook
      /\ v.phase = "created" /\ v.session = n + 1
  BY <1>1 DEF TestsType
<1> HIDE DEF new, v
<1>5. /\ slot1' \in Seq(TestsSession) /\ n + 1 \in DOMAIN slot1' /\ slot1'[n + 1] = new
      /\ \A s \in DOMAIN slot1 : s \in DOMAIN slot1' /\ slot1'[s] = slot1[s]
  BY <1>1, <1>2, <1>3 DEF TestsType
<1> HIDE DEF n
<1>6. TestsKept
  BY <1>5 DEF TestsKept
<1> QED
  BY <1>2, <1>3, <1>4, <1>5, <1>6, TestsGoes

LEMMA TestsRuns ==
  ASSUME TestsInv, NEW w \in slot4,
         \/ Tests!SessionKnown(w) \/ Tests!SetupFails(w) \/ Tests!Polled(w)
         \/ Tests!PollAnswered(w) \/ Tests!PollAgain(w) \/ Tests!TimeUp(w)
  PROVE  TestsInv'
<1>1. TestsType /\ Tests!RunsHaveNumbers /\ Tests!RunsHaveSessions
      /\ Tests!LatestIsOfDialog /\ Tests!ResultIsOfSession
  BY DEF TestsInv
<1>2. slot1' = slot1 /\ UNCHANGED <<slot2, slot3>>
  BY DEF Tests!SessionKnown, Tests!SetupFails, Tests!Polled, Tests!PollAnswered,
     Tests!PollAgain, Tests!TimeUp, Tests!dialogVars
<1>3. slot1' \in Seq(TestsSession) /\ TestsKept /\ slot2' \in Tested \cup {None}
  BY <1>1, <1>2, TestsSame DEF TestsType
<1>4. w.phase # "starting" => w.session \in DOMAIN slot1 /\ slot1[w.session].hook = w.hook
  BY <1>1 DEF Tests!RunsHaveSessions
<1>5. ASSUME NEW phase, slot4' = (slot4 \ {w}) \cup {[w EXCEPT !.phase = phase]},
             slot7' = slot7, w.phase # "starting", phase # "starting",
             phase \in {"success", "failed"} => slot1[w.session].result = phase,
             \/ slot6' = slot6 /\ w.phase # "created"
             \/ slot6' = w.session /\ Tests!Active(w)
      PROVE  TestsInv'
  <2> DEFINE v == [w EXCEPT !.phase = phase]
  <2>1. /\ DOMAIN v = {"run", "hook", "phase", "session"} /\ v.run = w.run /\ v.hook = w.hook
        /\ v.phase = phase /\ v.session = w.session
    BY <1>1 DEF TestsType
  <2>2. slot4' = (slot4 \ {w}) \cup {v}
    BY <1>5
  <2> HIDE DEF v
  <2> QED
    BY <1>2, <1>3, <1>4, <1>5, <2>1, <2>2, TestsGoes
<1>6. ASSUME slot4' = slot4 \ {w}, UNCHANGED <<slot6, slot7>> PROVE TestsInv'
  <2>1. Tests!ResultIsOfSession'
    BY <1>2, <1>3, <1>6, TestsShown
  <2>2. \A v \in slot4' : Tests!Active(v)' => Tests!Active(v) /\ slot7' = slot7
    BY <1>2, <1>6 DEF Tests!Active
  <2> QED
    BY <1>2, <1>3, <1>6, <2>1, <2>2, TestsLess
<1>7. CASE Tests!SessionKnown(w)
  <2>1. CASE Tests!Active(w)
    BY <1>5, <1>7, <2>1 DEF Tests!SessionKnown, Tests!Goes
  <2>2. CASE ~Tests!Active(w)
    BY <1>6, <1>7, <2>2 DEF Tests!SessionKnown, Tests!Ends
  <2> QED
    BY <2>1, <2>2
<1>8. CASE Tests!SetupFails(w)
  BY <1>6, <1>8 DEF Tests!SetupFails, Tests!Ends
<1>9. CASE Tests!Polled(w)
  <2> DEFINE p == IF slot1[w.session].alive THEN slot1[w.session].result ELSE Tests!NoResult
  <2>1. w.phase = "asking" /\ slot4' = (slot4 \ {w}) \cup {[w EXCEPT !.phase = p]}
        /\ UNCHANGED <<slot6, slot7>>
    BY <1>9 DEF Tests!Polled, Tests!Goes, Tests!dialogVars
  <2>2. p \in {"waiting", slot1[w.session].result}
    BY DEF Tests!NoResult
  <2>3. slot1[w.session].result \in {"waiting", "success", "failed"}
    <3>1. slot1[w.session] \in TestsSession
      BY <1>1, <1>4, <2>1 DEF TestsType
    <3> QED
      BY <3>1 DEF TestsSession
  <2> HIDE DEF p
  <2> QED
    BY <1>5, <2>1, <2>2, <2>3
<1>10. CASE Tests!PollAnswered(w)
  <2>1. w.phase \in {"success", "failed"} /\ slot4' = slot4 \ {w} /\ slot6' = slot6
    BY <1>10 DEF Tests!PollAnswered, Tests!Ends
  <2>2. CASE Tests!Active(w)
    <3>1. slot7' = w.phase /\ slot2 = w.hook /\ slot6 = w.session
      BY <1>1, <1>10, <2>1, <2>2 DEF Tests!PollAnswered, Tests!LatestIsOfDialog
    <3>2. slot6 \in DOMAIN slot1 /\ slot1[slot6].hook = slot2 /\ slot1[slot6].result = slot7'
      BY <1>1, <1>4, <2>1, <3>1 DEF Tests!RunsHaveSessions
    <3>3. slot6 # 0
      BY <1>1, <3>2 DEF TestsType
    <3>4. Tests!ResultIsOfSession'
      BY <1>2, <2>1, <3>2, <3>3 DEF Tests!ResultIsOfSession
    <3>5. \A v \in slot4' : ~Tests!Active(v)'
      BY <1>1, <1>2, <2>1, <2>2 DEF Tests!Active, Tests!RunsHaveNumbers
    <3> QED
      BY <1>2, <1>3, <2>1, <3>4, <3>5, TestsLess
  <2>3. CASE ~Tests!Active(w)
    BY <1>6, <1>10, <2>1, <2>3 DEF Tests!PollAnswered
  <2> QED
    BY <2>2, <2>3
<1>11. CASE Tests!PollAgain(w)
  <2>1. w.phase \in {"waiting", "asking"} /\ UNCHANGED <<slot6, slot7>>
    BY <1>11 DEF Tests!PollAgain, Tests!NoResult, Tests!dialogVars
  <2>2. CASE Tests!Active(w)
    BY <1>5, <1>11, <2>1, <2>2 DEF Tests!PollAgain, Tests!Goes
  <2>3. CASE ~Tests!Active(w)
    BY <1>6, <1>11, <2>1, <2>3 DEF Tests!PollAgain, Tests!Ends
  <2> QED
    BY <2>2, <2>3
<1>12. CASE Tests!TimeUp(w)
  BY <1>6, <1>12 DEF Tests!TimeUp, Tests!Ends
<1> QED
  BY <1>7, <1>8, <1>9, <1>10, <1>11, <1>12

LEMMA TestsService ==
  ASSUME TestsInv,
         Tests!SessionsEnd \/ \E s \in DOMAIN slot1 : Tests!TestRequest(s)
  PROVE  TestsInv'
<1>1. TestsType
  BY DEF TestsInv
<1>2. UNCHANGED <<slot2, slot3, slot4, slot6, slot7>>
  BY DEF Tests!SessionsEnd, Tests!TestRequest, Tests!dialogVars
<1>3. \A s \in DOMAIN slot1 : slot1[s] \in TestsSession
  BY <1>1 DEF TestsType
<1>4. ASSUME DOMAIN slot1' = DOMAIN slot1, slot1' = [s \in DOMAIN slot1 |-> slot1'[s]],
             \A s \in DOMAIN slot1 :
               /\ slot1'[s] \in TestsSession /\ slot1'[s].hook = slot1[s].hook
               /\ slot1[s].result # "waiting" => slot1'[s].result = slot1[s].result
      PROVE  TestsInv'
  <2>1. DOMAIN slot1 = 1..Len(slot1) /\ Len(slot1) \in Nat
    BY <1>1 DEF TestsType
  <2>2. slot1' \in [1..Len(slot1) -> TestsSession]
    BY <1>4, <2>1
  <2>3. slot1' \in Seq(TestsSession)
    BY <2>1, <2>2, SeqDef
  <2>4. TestsKept
    BY <1>4 DEF TestsKept
  <2>5. Tests!ResultIsOfSession'
    BY <1>2, <2>4, TestsShown
  <2>6. \A w \in slot4' : Tests!Active(w)' => Tests!Active(w) /\ slot7' = slot7
    BY <1>2 DEF Tests!Active
  <2>7. slot2' \in Tested \cup {None}
    BY <1>1, <1>2 DEF TestsType
  <2> QED
    BY <1>2, <2>3, <2>4, <2>5, <2>6, <2>7, TestsLess
<1>5. CASE Tests!SessionsEnd
  <2>1. PICK S : slot1' = [s \in DOMAIN slot1 |->
                   IF s \in S THEN [slot1[s] EXCEPT !.alive = FALSE] ELSE slot1[s]]
    BY <1>5 DEF Tests!SessionsEnd
  <2>2. DOMAIN slot1' = DOMAIN slot1 /\ slot1' = [s \in DOMAIN slot1 |-> slot1'[s]]
        /\ \A s \in DOMAIN slot1 : slot1'[s] \in {slot1[s], [slot1[s] EXCEPT !.alive = FALSE]}
    BY <2>1
  <2>3. \A r \in TestsSession : /\ [r EXCEPT !.alive = FALSE] \in TestsSession
                                /\ [r EXCEPT !.alive = FALSE].hook = r.hook
                                /\ [r EXCEPT !.alive = FALSE].result = r.result
    BY DEF TestsSession
  <2> QED
    BY <1>3, <1>4, <2>2, <2>3
<1>6. ASSUME NEW s \in DOMAIN slot1, Tests!TestRequest(s) PROVE TestsInv'
  <2>1. PICK result \in {"success", "failed"} : Tests!Publish(s, result)
    BY <1>6 DEF Tests!TestRequest
  <2>2. PICK r \in {result, slot1[s].result} :
          /\ slot1' = [slot1 EXCEPT ![s].result = r]
          /\ slot1[s].result # "waiting" => r = slot1[s].result
    BY <2>1 DEF Tests!Publish, Tests!NoResult
  <2> DEFINE new == [slot1[s] EXCEPT !.result = r]
  <2>3. slot1[s] \in TestsSession
    BY <1>3
  <2>4. new \in TestsSession /\ new.hook = slot1[s].hook /\ new.result = r
    BY <2>3 DEF TestsSession
  <2>5. slot1' = [slot1 EXCEPT ![s] = new]
    BY <2>2
  <2> HIDE DEF new
  <2>6. DOMAIN slot1' = DOMAIN slot1 /\ slot1' = [t \in DOMAIN slot1 |-> slot1'[t]]
        /\ slot1'[s] = new /\ \A t \in DOMAIN slot1 \ {s} : slot1'[t] = slot1[t]
    BY <1>1, <2>5 DEF TestsType
  <2> QED
    BY <1>3, <1>4, <2>2, <2>4, <2>6
<1> QED
  BY <1>5, <1>6

LEMMA TestsSteps ==
  ASSUME TestsInv, Tests!Next \/ UNCHANGED Tests!vars PROVE TestsInv'
<1>1. TestsType
  BY DEF TestsInv
<1>2. ASSUME NEW hook \in Tested, Tests!Open(hook) PROVE TestsInv'
  BY <1>2, TestsOpens DEF Tests!Open
<1>3. CASE Tests!Retry
  <2>1. slot2 \in Tested
    BY <1>1, <1>3 DEF TestsType, Tests!Retry
  <2> QED
    BY <1>3, <2>1, TestsOpens DEF Tests!Retry
<1>4. ASSUME slot1' = slot1, UNCHANGED <<slot4, slot6, slot7>>, slot2' \in Tested \cup {None},
             (slot3' = slot3 + 1 /\ slot2' = None) \/ UNCHANGED <<slot2, slot3>>
      PROVE  TestsInv'
  <2>1. TestsKept /\ slot1' \in Seq(TestsSession)
    BY <1>1, <1>4, TestsSame DEF TestsType
  <2>2. Tests!ResultIsOfSession'
    BY <1>4, <2>1, TestsShown DEF Tests!ResultIsOfSession
  <2>3. ASSUME NEW w \in slot4', Tests!Active(w)' PROVE Tests!Active(w)
    <3>1. w.run <= slot3 /\ w.run \in Nat /\ slot3 \in Nat
      BY <1>1, <1>4 DEF TestsInv, Tests!RunsHaveNumbers, TestsType
    <3> QED
      BY <1>4, <2>3, <3>1 DEF Tests!Active
  <2>4. slot3' = slot3 => slot2' = slot2
    BY <1>1, <1>4 DEF TestsType
  <2> QED
    BY <1>4, <2>1, <2>2, <2>3, <2>4, TestsLess
<1>5. CASE Tests!Close
  BY <1>4, <1>5 DEF Tests!Close
<1>6. CASE UNCHANGED Tests!vars
  BY <1>1, <1>4, <1>6 DEF Tests!vars, TestsType
<1> QED
  BY <1>2, <1>3, <1>5, <1>6, TestsCreates, TestsRuns, TestsService DEF Tests!Next

-----------------------------------------------------------------------------
(* The toolbar.  slot1 to slot8 are workflow, loads, shown, mounted, dialog, *)
(* sent, mounts and unsure.                                                 *)

ToolbarCall(c) ==
  /\ DOMAIN c = {"kind", "action", "target", "mount", "answer"}
  /\ c.kind \in {"details", "status", "delete", "version", "draft"}
  /\ c.action \in {"rename", "activate", "deactivate", "delete", "delete_version",
                   "create_draft"}
  /\ c.kind = "delete" <=> c.action = "delete"
ToolbarType ==
  /\ DOMAIN slot1 = {"status", "versions", "live"}
  /\ slot2 = <<>> \/ (slot2 = <<slot2[1]>> /\ DOMAIN slot2[1] = {"workflow", "versions"})
  /\ DOMAIN slot3 = {"status", "live", "versions", "version"}
  /\ DOMAIN slot5 = {"type", "target", "error"}
  /\ \A c \in slot6 : ToolbarCall(c)

ToolbarInv == ToolbarType /\ Toolbar!Careful /\ Toolbar!OneVersionKept

ToolbarCares ==
  /\ Toolbar!CallsOfDialog /\ Toolbar!LoadsAlone /\ Toolbar!ShowsVersions
  /\ slot1.versions # {}

LEMMA ToolbarRecords ==
  /\ DOMAIN Toolbar!NoDialog = {"type", "target", "error"} /\ Toolbar!NoDialog.type = "none"
  /\ DOMAIN Toolbar!Load = {"workflow", "versions"} /\ Toolbar!Load.versions = None
  /\ <<Toolbar!Load>>[1] = Toolbar!Load /\ <<Toolbar!Load>> # <<>>
BY DEF Toolbar!NoDialog, Toolbar!Load

LEMMA ToolbarStarts == Toolbar!Init => ToolbarInv
<1> SUFFICES ASSUME Toolbar!Init PROVE ToolbarInv
  OBVIOUS
<1>1. /\ slot3 = [status |-> "draft", live |-> None, versions |-> {}, version |-> None]
      /\ slot2 = <<Toolbar!Load>> /\ slot4 = "loading" /\ slot5 = Toolbar!NoDialog /\ slot6 = {}
  BY DEF Toolbar!Init
<1>2. PICK n \in 1..2, status \in {"active", "inactive"} :
        slot1 = [status |-> status, versions |-> 1..n, live |-> 1]
  BY DEF Toolbar!Init
<1>3. DOMAIN slot1 = {"status", "versions", "live"} /\ 1 \in slot1.versions
  BY <1>2
<1>4. ToolbarType
  BY <1>1, <1>3, ToolbarRecords DEF ToolbarType
<1>5. ToolbarCares
  BY <1>1, <1>3, ToolbarRecords
  DEF ToolbarCares, Toolbar!CallsOfDialog, Toolbar!LoadsAlone, Toolbar!ShowsVersions
<1> QED
  BY <1>4, <1>5 DEF ToolbarInv, ToolbarCares, Toolbar!Careful, Toolbar!OneVersionKept

\* Calls that are sent and answered, in the same types.
LEMMA ToolbarTypes ==
  ASSUME ToolbarType, Toolbar!Next \/ UNCHANGED Toolbar!vars PROVE ToolbarType'
<1>1. ASSUME UNCHANGED <<slot1, slot2, slot3, slot6>>,
             DOMAIN slot5' = {"type", "target", "error"}
      PROVE  ToolbarType'
  BY <1>1 DEF ToolbarType
<1>2. ASSUME NEW r, slot2 # <<>>, DOMAIN r = {"workflow", "versions"}, slot2' = <<r>>,
             UNCHANGED <<slot1, slot3, slot5, slot6>>
      PROVE  ToolbarType'
  <2>1. slot2'[1] = r
    BY <1>2
  <2> QED
    BY <1>2, <2>1 DEF ToolbarType
<1>3. CASE Toolbar!ReadWorkflow
  <2> DEFINE r == [slot2[1] EXCEPT !.workflow = [status |-> slot1.status, live |-> slot1.live]]
  <2>1. slot2 = <<slot2[1]>> /\ DOMAIN slot2[1] = {"workflow", "versions"}
    BY <1>3 DEF Toolbar!ReadWorkflow, ToolbarType
  <2>2. DOMAIN r = {"workflow", "versions"}
    BY <2>1
  <2>3. slot2' = [slot2 EXCEPT ![1] = r]
    BY <1>3, <2>1 DEF Toolbar!ReadWorkflow
  <2> HIDE DEF r
  <2>4. slot2' = <<r>>
    BY <2>1, <2>3
  <2> QED
    BY <1>2, <1>3, <2>2, <2>4 DEF Toolbar!ReadWorkflow
<1>4. CASE Toolbar!ReadVersions
  <2> DEFINE r == [slot2[1] EXCEPT !.versions = slot1.versions]
  <2>1. slot2 = <<slot2[1]>> /\ DOMAIN slot2[1] = {"workflow", "versions"}
    BY <1>4 DEF Toolbar!ReadVersions, ToolbarType
  <2>2. DOMAIN r = {"workflow", "versions"}
    BY <2>1
  <2>3. slot2' = [slot2 EXCEPT ![1] = r]
    BY <1>4, <2>1 DEF Toolbar!ReadVersions
  <2> HIDE DEF r
  <2>4. slot2' = <<r>>
    BY <2>1, <2>3
  <2> QED
    BY <1>2, <1>4, <2>2, <2>4 DEF Toolbar!ReadVersions
<1>5. CASE Toolbar!LoadAnswered
  <2>1. UNCHANGED <<slot1, slot5, slot6>> /\ slot2' = <<>>
    BY <1>5 DEF Toolbar!LoadAnswered
  <2>2. slot3' = slot3 \/ slot3' = [status |-> slot2[1].workflow.status,
                                    live |-> slot2[1].workflow.live,
                                    versions |-> slot2[1].versions,
                                    version |-> Toolbar!Newest(slot2[1].versions)]
    BY <1>5 DEF Toolbar!LoadAnswered
  <2>3. DOMAIN slot3' = {"status", "live", "versions", "version"}
    BY <2>2 DEF ToolbarType
  <2> QED
    BY <2>1, <2>3 DEF ToolbarType
<1>6. CASE Toolbar!LoadFails
  BY <1>6 DEF ToolbarType, Toolbar!LoadFails
<1>7. CASE Toolbar!RetryLoad
  BY <1>7, ToolbarRecords DEF ToolbarType, Toolbar!RetryLoad, Toolbar!Fetch
<1>8. ASSUME NEW type, NEW target, Toolbar!OpenDialog(type, target) PROVE ToolbarType'
  BY <1>1, <1>8 DEF Toolbar!OpenDialog
<1>9. ASSUME NEW v, Toolbar!SelectVersion(v) PROVE ToolbarType'
  BY <1>9 DEF ToolbarType, Toolbar!SelectVersion
<1>10. CASE Toolbar!CloseDialog
  BY <1>1, <1>10, ToolbarRecords DEF Toolbar!CloseDialog
<1>11. ASSUME NEW kind \in {"details", "status", "delete", "version", "draft"}, NEW target,
              NEW action \in {"rename", "activate", "deactivate", "delete", "delete_version",
                              "create_draft"},
              kind = "delete" <=> action = "delete", Toolbar!Send(kind, action, target)
       PROVE  ToolbarType'
  <2> DEFINE c == [kind |-> kind, action |-> action, target |-> target, mount |-> slot7,
                   answer |-> "none"]
  <2>1. ToolbarCall(c)
    BY <1>11 DEF ToolbarCall
  <2>2. slot6' = slot6 \cup {c} /\ UNCHANGED <<slot1, slot2, slot3, slot5>>
    BY <1>11 DEF Toolbar!Send
  <2> HIDE DEF c
  <2> QED
    BY <2>1, <2>2 DEF ToolbarType
<1>12. CASE \/ Toolbar!SaveMetadata \/ Toolbar!ToggleWorkflowStatus
            \/ Toolbar!ConfirmDeleteWorkflow \/ Toolbar!ConfirmDeleteVersion
            \/ Toolbar!CreateDraft
  BY <1>11, <1>12 DEF Toolbar!SaveMetadata, Toolbar!ToggleWorkflowStatus,
     Toolbar!ConfirmDeleteWorkflow, Toolbar!ConfirmDeleteVersion, Toolbar!CreateDraft
<1>13. ASSUME NEW c \in slot6, Toolbar!CallHandled(c) PROVE ToolbarType'
  <2> DEFINE d == [c EXCEPT !.answer = IF Toolbar!Allowed(c) THEN "ok" ELSE "refused"]
  <2>1. ToolbarCall(c)
    BY DEF ToolbarType
  <2>2. ToolbarCall(d)
    BY <2>1 DEF ToolbarCall
  <2>3. slot6' = (slot6 \ {c}) \cup {d} /\ UNCHANGED <<slot2, slot3, slot5>>
        /\ slot1' = IF Toolbar!Allowed(c) THEN Toolbar!Performed(c) ELSE slot1
    BY <1>13 DEF Toolbar!CallHandled
  <2> HIDE DEF d
  <2>4. DOMAIN Toolbar!Performed(c) = {"status", "versions", "live"}
    BY <2>1 DEF Toolbar!Performed, ToolbarCall, ToolbarType
  <2> QED
    BY <2>2, <2>3, <2>4 DEF ToolbarType
<1>14. ASSUME NEW c \in slot6, Toolbar!CallAnswered(c) PROVE ToolbarType'
  <2>1. slot6' \subseteq slot6 /\ slot1' = slot1 /\ slot2' \in {slot2, <<>>, <<Toolbar!Load>>}
        /\ slot5' \in {slot5, Toolbar!NoDialog}
    BY <1>14 DEF Toolbar!CallAnswered, Toolbar!Fetch
  <2>2. DOMAIN slot3' = {"status", "live", "versions", "version"}
    BY <1>14 DEF Toolbar!CallAnswered, ToolbarType
  <2> QED
    BY <2>1, <2>2, ToolbarRecords DEF ToolbarType
<1>15. ASSUME NEW c \in slot6, Toolbar!CallRefused(c) \/ Toolbar!CallFails(c) PROVE ToolbarType'
  BY <1>15 DEF Toolbar!CallRefused, Toolbar!CallFails, ToolbarType
<1>16. CASE UNCHANGED Toolbar!vars
  BY <1>16 DEF Toolbar!vars, ToolbarType
<1> QED
  BY <1>3, <1>4, <1>5, <1>6, <1>7, <1>8, <1>9, <1>10, <1>12, <1>13, <1>14, <1>15, <1>16
  DEF Toolbar!Next, Toolbar!StartMetadataEdit, Toolbar!AskStatus, Toolbar!AskDeleteWorkflow,
      Toolbar!AskDeleteVersion

\* A dialog can only open while no call but that of a draft is under way.
LEMMA ToolbarFree ==
  ASSUME ToolbarType, ToolbarCares, Toolbar!Free
  PROVE  (\A c \in slot6 : c.kind = "draft") /\ Toolbar!JustDeleted = {}
<1>1. \A c \in slot6 : c.kind # "draft" => c.kind = "none"
  BY ToolbarRecords DEF ToolbarCares, Toolbar!CallsOfDialog, Toolbar!Free
<1>2. \A c \in slot6 : c.kind = "draft"
  BY <1>1 DEF ToolbarType, ToolbarCall
<1> QED
  BY <1>2 DEF Toolbar!JustDeleted

LEMMA ToolbarOpens ==
  ASSUME ToolbarType, ToolbarCares, NEW type \in {"details", "status", "delete", "version"},
         NEW target, Toolbar!OpenDialog(type, target),
         type = "version" => slot3.versions \ {target} # {}
  PROVE  ToolbarCares'
<1>1. /\ UNCHANGED <<slot1, slot2, slot3, slot4, slot6, slot7>> /\ Toolbar!Free
      /\ slot5' = [type |-> type, target |-> target, error |-> "none"]
  BY DEF Toolbar!OpenDialog
<1>2. slot5'.type = type /\ slot5'.target = target
  BY <1>1
<1>3. (\A c \in slot6 : c.kind = "draft") /\ Toolbar!JustDeleted = {}
  BY <1>1, ToolbarFree
<1>4. Toolbar!CallsOfDialog' /\ Toolbar!JustDeleted' = {}
  BY <1>1, <1>3 DEF ToolbarCares, Toolbar!CallsOfDialog, Toolbar!JustDeleted
<1>5. Toolbar!LoadsAlone'
  BY <1>1 DEF ToolbarCares, Toolbar!LoadsAlone, Toolbar!Free
<1>6. Toolbar!ShowsVersions'
  BY <1>1, <1>2, <1>3, <1>4 DEF ToolbarCares, Toolbar!ShowsVersions
<1> QED
  BY <1>1, <1>4, <1>5, <1>6 DEF ToolbarCares

LEMMA ToolbarSends ==
  ASSUME ToolbarType, ToolbarCares, NEW kind, NEW action, NEW target,
         Toolbar!Send(kind, action, target), slot4 = "builder",
         kind # "draft" => kind = slot5.type,
         kind = "version" => target = slot5.target,
         action = "delete_version" => kind = "version"
  PROVE  ToolbarCares'
<1> DEFINE new == [kind |-> kind, action |-> action, target |-> target, mount |-> slot7,
                   answer |-> "none"]
<1>1. /\ slot6' = slot6 \cup {new} /\ ~Toolbar!Under(kind)
      /\ UNCHANGED <<slot1, slot2, slot3, slot4, slot5, slot7>>
  BY DEF Toolbar!Send
<1>2. /\ new.kind = kind /\ new.action = action /\ new.target = target /\ new.mount = slot7
      /\ new.answer = "none"
  OBVIOUS
<1> HIDE DEF new
<1>3. \A c \in slot6 : c.kind = kind => c.kind = "draft"
  BY <1>1 DEF ToolbarCares, Toolbar!CallsOfDialog, Toolbar!Under
<1>4. Toolbar!CallsOfDialog'
  BY <1>1, <1>2, <1>3 DEF ToolbarCares, Toolbar!CallsOfDialog
<1>5. Toolbar!JustDeleted' = Toolbar!JustDeleted
  BY <1>1, <1>2 DEF Toolbar!JustDeleted
<1>6. Toolbar!LoadsAlone' /\ Toolbar!ShowsVersions'
  BY <1>1, <1>5 DEF ToolbarCares, Toolbar!LoadsAlone, Toolbar!ShowsVersions
<1> QED
  BY <1>1, <1>4, <1>6 DEF ToolbarCares

\* Only the version of the dialog is deleted, and another one is there.
LEMMA ToolbarHandles ==
  ASSUME ToolbarType, ToolbarCares, NEW c \in slot6, Toolbar!CallHandled(c),
         slot1'.status # "deleted"
  PROVE  ToolbarCares'
<1> DEFINE answer == IF Toolbar!Allowed(c) THEN "ok" ELSE "refused"
           d == [c EXCEPT !.answer = answer]
<1>1. /\ slot6' = (slot6 \ {c}) \cup {d} /\ UNCHANGED <<slot2, slot3, slot4, slot5, slot7>>
      /\ slot1' = IF Toolbar!Allowed(c) THEN Toolbar!Performed(c) ELSE slot1
      /\ c.answer = "none"
  BY DEF Toolbar!CallHandled
<1>2. ToolbarCall(c) /\ DOMAIN slot1 = {"status", "versions", "live"}
  BY DEF ToolbarType
<1>3. /\ d.kind = c.kind /\ d.action = c.action /\ d.target = c.target /\ d.mount = c.mount
      /\ d.answer = answer
  BY <1>2 DEF ToolbarCall
<1>4. answer = "ok" <=> Toolbar!Allowed(c)
  OBVIOUS
<1> HIDE DEF d, answer
<1>5. Toolbar!Allowed(c) => c.action # "delete"
  BY <1>1, <1>2 DEF Toolbar!Performed
<1>6. slot4 = "builder" /\ slot2 = <<>>
  BY DEF ToolbarCares, Toolbar!LoadsAlone
<1>7. Toolbar!CallsOfDialog'
  <2>1. c.kind = "delete" => d.answer # "ok"
    BY <1>2, <1>3, <1>4, <1>5 DEF ToolbarCall
  <2>2. \A e \in slot6' : e = d \/ e \in slot6
    BY <1>1
  <2>3. \A e \in slot6' : e.kind # "draft" =>
          /\ slot4' = "builder" /\ e.mount = slot7' /\ e.kind = slot5'.type
          /\ e.kind = "version" => e.target = slot5'.target
          /\ e.kind = "delete" => e.answer # "ok"
    BY <1>1, <1>3, <2>1, <2>2 DEF ToolbarCares, Toolbar!CallsOfDialog
  <2>4. \A e \in slot6' : e.action = "delete_version" => e.kind = "version"
    BY <1>3, <2>2 DEF ToolbarCares, Toolbar!CallsOfDialog
  <2>5. \A e, f \in slot6' : e.kind = f.kind /\ e.kind # "draft" => e = f
    BY <1>1, <1>3 DEF ToolbarCares, Toolbar!CallsOfDialog
  <2> QED
    BY <2>3, <2>4, <2>5 DEF Toolbar!CallsOfDialog
<1>8. Toolbar!LoadsAlone'
  BY <1>1, <1>6 DEF ToolbarCares, Toolbar!LoadsAlone
<1>9. Toolbar!JustDeleted \subseteq Toolbar!JustDeleted'
  BY <1>1 DEF Toolbar!JustDeleted
<1>10. CASE slot1.versions \subseteq slot1'.versions
  <2>1. Toolbar!ShowsVersions'
    BY <1>1, <1>9, <1>10 DEF ToolbarCares, Toolbar!ShowsVersions
  <2> QED
    BY <1>7, <1>8, <1>10, <2>1 DEF ToolbarCares
<1>11. CASE c.action = "delete_version" /\ Toolbar!Allowed(c)
  <2>1. slot1'.versions = slot1.versions \ {c.target}
    BY <1>1, <1>2, <1>11 DEF Toolbar!Performed
  <2>2. c.kind = "version" /\ slot5.type = "version" /\ c.target = slot5.target
    BY <1>11 DEF ToolbarCares, Toolbar!CallsOfDialog
  <2>3. c.target \in Toolbar!JustDeleted'
    BY <1>1, <1>3, <1>4, <1>11, <2>2 DEF Toolbar!JustDeleted
  <2>4. Toolbar!JustDeleted = {}
    BY <1>1, <2>2 DEF ToolbarCares, Toolbar!CallsOfDialog, Toolbar!JustDeleted
  <2>5. slot3.versions \subseteq slot1.versions /\ slot3.versions \ {slot5.target} # {}
    BY <1>6, <2>2, <2>4 DEF ToolbarCares, Toolbar!ShowsVersions
  <2>6. slot1'.versions # {}
    BY <2>1, <2>2, <2>5
  <2>7. Toolbar!ShowsVersions'
    BY <1>1, <2>1, <2>3, <2>5 DEF Toolbar!ShowsVersions
  <2> QED
    BY <1>7, <1>8, <2>6, <2>7 DEF ToolbarCares
<1>12. slot1.versions \subseteq slot1'.versions \/ (c.action = "delete_version" /\ Toolbar!Allowed(c))
  <2>1. CASE ~Toolbar!Allowed(c)
    BY <1>1, <2>1
  <2>2. CASE Toolbar!Allowed(c) /\ c.action = "rename"
    BY <1>1, <2>2 DEF Toolbar!Performed
  <2>3. CASE Toolbar!Allowed(c) /\ c.action \in {"activate", "deactivate"}
    BY <1>1, <1>2, <2>3 DEF Toolbar!Performed
  <2>4. CASE Toolbar!Allowed(c) /\ c.action = "create_draft"
    BY <1>1, <1>2, <2>4 DEF Toolbar!Performed
  <2> QED
    BY <1>2, <1>5, <2>1, <2>2, <2>3, <2>4 DEF ToolbarCall
<1> QED
  BY <1>10, <1>11, <1>12

\* A call that is over.
LEMMA ToolbarAnswers ==
  ASSUME ToolbarType, ToolbarCares, NEW c \in slot6, Toolbar!CallAnswered(c), ~slot8'
  PROVE  ToolbarCares'
<1>1. /\ slot6' = slot6 \ {c} /\ UNCHANGED <<slot1, slot7>> /\ c.answer = "ok"
      /\ ToolbarCall(c)
  BY DEF Toolbar!CallAnswered, ToolbarType
<1>2. slot4 = "builder" /\ slot2 = <<>> /\ c.kind # "delete"
  BY <1>1 DEF ToolbarCares, Toolbar!LoadsAlone, Toolbar!CallsOfDialog
<1>3. CASE c.kind = "status"
  <2>1. /\ UNCHANGED <<slot2, slot4>> /\ slot3' = [slot3 EXCEPT !.status =
             IF c.action = "activate" THEN "active" ELSE "inactive"]
        /\ slot5' = IF Toolbar!IsMounted(c) THEN Toolbar!NoDialog ELSE slot5
    BY <1>3 DEF Toolbar!CallAnswered
  <2>2. c.mount = slot7 /\ slot5.type = "status"
    BY <1>3 DEF ToolbarCares, Toolbar!CallsOfDialog
  <2>3. slot5' = Toolbar!NoDialog /\ slot3'.versions = slot3.versions
    BY <1>2, <2>1, <2>2 DEF Toolbar!IsMounted, ToolbarType
  <2>4. \A e \in slot6' : e.kind = "draft"
    BY <1>1, <1>3, <2>2 DEF ToolbarCares, Toolbar!CallsOfDialog
  <2>5. Toolbar!JustDeleted = {}
    BY <2>2 DEF ToolbarCares, Toolbar!CallsOfDialog, Toolbar!JustDeleted
  <2>6. Toolbar!CallsOfDialog'
    BY <1>1, <2>4 DEF ToolbarCares, Toolbar!CallsOfDialog
  <2>7. Toolbar!LoadsAlone'
    BY <1>2, <2>1 DEF Toolbar!LoadsAlone
  <2>8. Toolbar!ShowsVersions'
    BY <1>1, <1>2, <2>1, <2>3, <2>5, ToolbarRecords DEF ToolbarCares, Toolbar!ShowsVersions
  <2> QED
    BY <1>1, <2>6, <2>7, <2>8 DEF ToolbarCares
<1>4. CASE c.kind # "status"
  <2>1. Toolbar!Fetch(slot6 \ {c})
    BY <1>2, <1>4 DEF Toolbar!CallAnswered
  <2>2. slot6' = {} /\ slot2' = <<Toolbar!Load>> /\ slot4' = "loading"
        /\ slot5' = Toolbar!NoDialog
    BY <1>1, <2>1 DEF Toolbar!Fetch
  <2>3. slot2'[1].versions = None
    BY <2>2, ToolbarRecords
  <2>4. Toolbar!CallsOfDialog'
    BY <2>2 DEF Toolbar!CallsOfDialog
  <2>5. Toolbar!LoadsAlone'
    BY <2>2, <2>3 DEF Toolbar!LoadsAlone
  <2>6. Toolbar!ShowsVersions'
    BY <2>2, ToolbarRecords DEF Toolbar!ShowsVersions
  <2> QED
    BY <1>1, <2>4, <2>5, <2>6 DEF ToolbarCares
<1> QED
  BY <1>3, <1>4

LEMMA ToolbarRefuses ==
  ASSUME ToolbarType, ToolbarCares, NEW c \in slot6, Toolbar!CallRefused(c)
  PROVE  ToolbarCares'
<1>1. /\ slot6' = slot6 \ {c} /\ UNCHANGED <<slot1, slot2, slot3, slot4, slot7>>
      /\ c.answer = "refused"
      /\ slot5' \in {slot5, [slot5 EXCEPT !.error = "refused"]}
  BY DEF Toolbar!CallRefused
<1>2. slot5'.type = slot5.type /\ slot5'.target = slot5.target
  BY <1>1 DEF ToolbarType
<1>3. slot4 = "builder" /\ slot2 = <<>>
  BY DEF ToolbarCares, Toolbar!LoadsAlone
<1>4. Toolbar!JustDeleted' = Toolbar!JustDeleted
  BY <1>1 DEF Toolbar!JustDeleted
<1>5. Toolbar!CallsOfDialog'
  BY <1>1, <1>2 DEF ToolbarCares, Toolbar!CallsOfDialog
<1>6. Toolbar!LoadsAlone'
  BY <1>1, <1>3 DEF Toolbar!LoadsAlone
<1>7. Toolbar!ShowsVersions'
  BY <1>1, <1>2, <1>4 DEF ToolbarCares, Toolbar!ShowsVersions
<1> QED
  BY <1>1, <1>5, <1>6, <1>7 DEF ToolbarCares

\* The page loads, and shows what it read.
LEMMA ToolbarLoads ==
  ASSUME ToolbarType, ToolbarCares, ~slot8',
         \/ Toolbar!ReadWorkflow \/ Toolbar!ReadVersions \/ Toolbar!LoadAnswered
         \/ Toolbar!LoadFails \/ Toolbar!RetryLoad
  PROVE  ToolbarCares'
<1>1. UNCHANGED <<slot1, slot6>>
  BY DEF Toolbar!ReadWorkflow, Toolbar!ReadVersions, Toolbar!LoadAnswered, Toolbar!LoadFails,
     Toolbar!RetryLoad
<1>2. slot4 # "builder" /\ slot6 = {} /\ slot5 = Toolbar!NoDialog
  BY DEF ToolbarCares, Toolbar!LoadsAlone, Toolbar!ReadWorkflow, Toolbar!ReadVersions,
     Toolbar!LoadAnswered, Toolbar!LoadFails, Toolbar!RetryLoad
<1>3. slot5' = Toolbar!NoDialog /\ slot6' = {}
  BY <1>1, <1>2 DEF Toolbar!ReadWorkflow, Toolbar!ReadVersions, Toolbar!LoadAnswered,
     Toolbar!LoadFails, Toolbar!RetryLoad, Toolbar!Fetch
<1>4. Toolbar!CallsOfDialog'
  BY <1>3 DEF Toolbar!CallsOfDialog
<1>5. ASSUME slot4' = "builder" => slot3'.versions \subseteq slot1.versions, Toolbar!LoadsAlone'
      PROVE  ToolbarCares'
  <2>1. Toolbar!ShowsVersions'
    BY <1>1, <1>3, <1>5, ToolbarRecords DEF Toolbar!ShowsVersions
  <2> QED
    BY <1>1, <1>4, <1>5, <2>1 DEF ToolbarCares
<1>6. CASE Toolbar!ReadWorkflow
  <2>1. /\ slot2 = <<slot2[1]>> /\ DOMAIN slot2[1] = {"workflow", "versions"}
        /\ slot4 = "loading" /\ slot4' = slot4 /\ slot2 # <<>>
    BY <1>6 DEF Toolbar!ReadWorkflow, ToolbarType, ToolbarCares, Toolbar!LoadsAlone
  <2>2. slot2'[1].versions = slot2[1].versions
    BY <1>6, <2>1 DEF Toolbar!ReadWorkflow
  <2>3. Toolbar!LoadsAlone'
    BY <1>1, <1>3, <2>1, <2>2 DEF ToolbarCares, Toolbar!LoadsAlone
  <2> QED
    BY <1>5, <2>1, <2>3
<1>7. CASE Toolbar!ReadVersions
  <2>1. /\ slot2 = <<slot2[1]>> /\ DOMAIN slot2[1] = {"workflow", "versions"}
        /\ slot4 = "loading" /\ slot4' = slot4
    BY <1>7 DEF Toolbar!ReadVersions, ToolbarType, ToolbarCares, Toolbar!LoadsAlone
  <2>2. slot2'[1].versions = slot1.versions
    BY <1>7, <2>1 DEF Toolbar!ReadVersions
  <2>3. Toolbar!LoadsAlone'
    BY <1>1, <1>3, <2>1, <2>2 DEF Toolbar!LoadsAlone
  <2> QED
    BY <1>5, <2>1, <2>3
<1>8. CASE Toolbar!LoadAnswered
  <2>1. slot2' = <<>> /\ slot2[1].versions = slot1.versions
    BY <1>8 DEF Toolbar!LoadAnswered, ToolbarCares, Toolbar!LoadsAlone
  <2>2. Toolbar!LoadsAlone'
    BY <1>3, <2>1 DEF Toolbar!LoadsAlone
  <2>3. slot4' = "failed" \/ slot3' = [status |-> slot2[1].workflow.status,
                                       live |-> slot2[1].workflow.live,
                                       versions |-> slot2[1].versions,
                                       version |-> Toolbar!Newest(slot2[1].versions)]
    BY <1>8 DEF Toolbar!LoadAnswered
  <2>4. slot4' = "failed" \/ slot3'.versions = slot1.versions
    BY <2>1, <2>3
  <2> QED
    BY <1>5, <2>2, <2>4
<1>9. CASE Toolbar!LoadFails
  <2>1. slot2' = <<>> /\ slot4' = "failed"
    BY <1>9 DEF Toolbar!LoadFails
  <2> QED
    BY <1>3, <1>5, <2>1 DEF Toolbar!LoadsAlone
<1>10. CASE Toolbar!RetryLoad
  <2>1. slot2' = <<Toolbar!Load>> /\ slot4' = "loading"
    BY <1>10 DEF Toolbar!RetryLoad, Toolbar!Fetch
  <2>2. slot2'[1].versions = None
    BY <2>1, ToolbarRecords
  <2> QED
    BY <1>3, <1>5, <2>1, <2>2 DEF Toolbar!LoadsAlone
<1> QED
  BY <1>6, <1>7, <1>8, <1>9, <1>10

\* A dialog that closes, and another version that is shown.
LEMMA ToolbarMoves ==
  ASSUME ToolbarType, ToolbarCares,
         Toolbar!CloseDialog \/ \E v \in Toolbar!Version : Toolbar!SelectVersion(v)
  PROVE  ToolbarCares'
<1>1. UNCHANGED <<slot1, slot2, slot4, slot6>> /\ slot4 = "builder"
  BY DEF Toolbar!CloseDialog, Toolbar!SelectVersion, Toolbar!Free
<1>2. slot3'.versions = slot3.versions
  BY DEF Toolbar!CloseDialog, Toolbar!SelectVersion, ToolbarType
<1>3. \A c \in slot6 : c.kind = "draft"
  <2>1. CASE Toolbar!CloseDialog
    BY <2>1 DEF Toolbar!CloseDialog, Toolbar!Under, ToolbarCares, Toolbar!CallsOfDialog
  <2>2. CASE Toolbar!Free
    BY <2>2, ToolbarFree
  <2> QED
    BY <2>1, <2>2 DEF Toolbar!SelectVersion
<1>4. slot5' = Toolbar!NoDialog
  BY DEF Toolbar!CloseDialog, Toolbar!SelectVersion, Toolbar!Free
<1>5. Toolbar!CallsOfDialog' /\ Toolbar!JustDeleted = {}
  BY <1>1, <1>3 DEF ToolbarCares, Toolbar!CallsOfDialog, Toolbar!JustDeleted
<1>6. Toolbar!LoadsAlone'
  BY <1>1 DEF ToolbarCares, Toolbar!LoadsAlone
<1>7. Toolbar!ShowsVersions'
  BY <1>1, <1>2, <1>4, <1>5, ToolbarRecords DEF ToolbarCares, Toolbar!ShowsVersions
<1> QED
  BY <1>1, <1>5, <1>6, <1>7 DEF ToolbarCares

LEMMA ToolbarSteps ==
  ASSUME ToolbarInv, Toolbar!Next \/ UNCHANGED Toolbar!vars PROVE ToolbarInv'
<1>1. ToolbarType /\ (~slot8 /\ slot1.status # "deleted" => ToolbarCares)
  BY DEF ToolbarInv, ToolbarCares, Toolbar!Careful, Toolbar!OneVersionKept
<1>2. ToolbarType'
  BY <1>1, ToolbarTypes
<1> SUFFICES ASSUME ~slot8', slot1'.status # "deleted" PROVE ToolbarCares'
  BY <1>2 DEF ToolbarInv, ToolbarCares, Toolbar!Careful, Toolbar!OneVersionKept
<1>3. ~slot8
  BY DEF Toolbar!Next, Toolbar!vars, Toolbar!ReadWorkflow, Toolbar!ReadVersions,
     Toolbar!LoadAnswered, Toolbar!LoadFails, Toolbar!RetryLoad, Toolbar!Fetch,
     Toolbar!StartMetadataEdit, Toolbar!AskStatus, Toolbar!AskDeleteWorkflow,
     Toolbar!AskDeleteVersion, Toolbar!OpenDialog, Toolbar!SelectVersion,
     Toolbar!CloseDialog, Toolbar!SaveMetadata, Toolbar!ToggleWorkflowStatus,
     Toolbar!ConfirmDeleteWorkflow, Toolbar!ConfirmDeleteVersion, Toolbar!CreateDraft,
     Toolbar!Send, Toolbar!CallHandled, Toolbar!CallAnswered, Toolbar!CallRefused,
     Toolbar!CallFails
<1>4. slot1.status # "deleted"
  <2>1. ASSUME NEW c \in slot6, Toolbar!CallHandled(c) PROVE slot1.status # "deleted"
    BY <2>1 DEF Toolbar!CallHandled, Toolbar!Allowed
  <2>2. slot1' = slot1 \/ \E c \in slot6 : Toolbar!CallHandled(c)
    BY DEF Toolbar!Next, Toolbar!vars, Toolbar!ReadWorkflow, Toolbar!ReadVersions,
       Toolbar!LoadAnswered, Toolbar!LoadFails, Toolbar!RetryLoad,
       Toolbar!StartMetadataEdit, Toolbar!AskStatus, Toolbar!AskDeleteWorkflow,
       Toolbar!AskDeleteVersion, Toolbar!OpenDialog, Toolbar!SelectVersion,
       Toolbar!CloseDialog, Toolbar!SaveMetadata, Toolbar!ToggleWorkflowStatus,
       Toolbar!ConfirmDeleteWorkflow, Toolbar!ConfirmDeleteVersion, Toolbar!CreateDraft,
       Toolbar!Send, Toolbar!CallAnswered, Toolbar!CallRefused, Toolbar!CallFails
  <2> QED
    BY <2>1, <2>2
<1>5. ToolbarCares
  BY <1>1, <1>3, <1>4
<1>6. CASE Toolbar!StartMetadataEdit \/ Toolbar!AskStatus \/ Toolbar!AskDeleteWorkflow
  BY <1>1, <1>5, <1>6, ToolbarOpens
  DEF Toolbar!StartMetadataEdit, Toolbar!AskStatus, Toolbar!AskDeleteWorkflow
<1>7. ASSUME NEW v, Toolbar!AskDeleteVersion(v) PROVE ToolbarCares'
  <2>1. slot3.versions \ {v} # {} /\ Toolbar!OpenDialog("version", v)
    BY <1>7 DEF Toolbar!AskDeleteVersion, Toolbar!CannotDelete
  <2> QED
    BY <1>1, <1>5, <2>1, ToolbarOpens
<1>8. CASE \/ Toolbar!SaveMetadata \/ Toolbar!ToggleWorkflowStatus
           \/ Toolbar!ConfirmDeleteWorkflow \/ Toolbar!ConfirmDeleteVersion
           \/ Toolbar!CreateDraft
  BY <1>1, <1>5, <1>8, ToolbarSends
  DEF Toolbar!SaveMetadata, Toolbar!ToggleWorkflowStatus, Toolbar!ConfirmDeleteWorkflow,
      Toolbar!ConfirmDeleteVersion, Toolbar!CreateDraft, Toolbar!Confirm, Toolbar!Free
<1>9. ASSUME NEW c \in slot6, Toolbar!CallFails(c) PROVE FALSE
  BY <1>9 DEF Toolbar!CallFails
<1>10. CASE UNCHANGED Toolbar!vars
  BY <1>5, <1>10 DEF Toolbar!vars, ToolbarCares, Toolbar!CallsOfDialog, Toolbar!LoadsAlone,
     Toolbar!ShowsVersions, Toolbar!JustDeleted
<1> QED
  BY <1>1, <1>5, <1>6, <1>7, <1>8, <1>9, <1>10, ToolbarLoads, ToolbarMoves, ToolbarHandles,
     ToolbarAnswers, ToolbarRefuses DEF Toolbar!Next

-----------------------------------------------------------------------------
FollowedInv ==
  (screen = "run_panel" => PanelInv) /\ (screen = "execution" => DetailInv)

\* The panel of runs and the page of an execution go on asking for what they
\* show as unfinished, unless they say why not.
THEOREM UnfinishedIsFollowed == Spec => []KeepsFollowing
<1>1. Init => FollowedInv
  BY PanelStarts, DetailStarts DEF Init, FollowedInv
<1>2. FollowedInv /\ [Next]_vars => FollowedInv'
  <2> SUFFICES ASSUME FollowedInv, [Next]_vars PROVE FollowedInv'
    OBVIOUS
  <2>1. screen' = screen
    BY DEF Next, vars
  <2>2. CASE screen = "run_panel"
    <3>1. Panel!Next \/ UNCHANGED Panel!vars
      BY <2>2 DEF Next, Step, vars, Panel!vars
    <3> QED
      BY <2>1, <2>2, <3>1, PanelSteps DEF FollowedInv
  <2>3. CASE screen = "execution"
    <3>1. Detail!Next \/ UNCHANGED Detail!vars
      BY <2>3 DEF Next, Step, vars, Detail!vars, Detail!service
    <3> QED
      BY <2>1, <2>3, <3>1, DetailSteps DEF FollowedInv
  <2> QED
    BY <2>1, <2>2, <2>3 DEF FollowedInv
<1>3. FollowedInv => KeepsFollowing
  BY DEF FollowedInv, KeepsFollowing, PanelInv, DetailInv
<1> QED
  BY <1>1, <1>2, <1>3, PTL DEF Spec

OutcomesInv ==
  (screen = "accounts" => AccountsInv) /\ (screen = "execution" => DetailInv)

\* What the pages without a session say of an account or a link is so, whatever
\* was served meanwhile, for every number of addresses, links, forms, moves and
\* outages; and a cancellation that was reported is not taken back.
THEOREM OutcomesStayTrue == Spec => []OutcomesAreTrue
<1>1. Init => OutcomesInv
  BY AccountsStarts, DetailStarts DEF Init, OutcomesInv
<1>2. OutcomesInv /\ [Next]_vars => OutcomesInv'
  <2> SUFFICES ASSUME OutcomesInv, [Next]_vars PROVE OutcomesInv'
    OBVIOUS
  <2>1. screen' = screen
    BY DEF Next, vars
  <2>2. CASE screen = "accounts"
    <3>1. Accounts!Next \/ UNCHANGED Accounts!vars
      BY <2>2 DEF Next, Step, vars, Accounts!vars
    <3> QED
      BY <2>1, <2>2, <3>1, AccountsSteps DEF OutcomesInv
  <2>3. CASE screen = "execution"
    <3>1. Detail!Next \/ UNCHANGED Detail!vars
      BY <2>3 DEF Next, Step, vars, Detail!vars, Detail!service
    <3> QED
      BY <2>1, <2>3, <3>1, DetailSteps DEF OutcomesInv
  <2> QED
    BY <2>1, <2>2, <2>3 DEF OutcomesInv
<1>3. OutcomesInv => OutcomesAreTrue
  BY DEF OutcomesInv, OutcomesAreTrue, AccountsInv, DetailInv
<1> QED
  BY <1>1, <1>2, <1>3, PTL DEF Spec

ActsInv ==
  /\ screen = "accounts" => AccountsInv
  /\ screen = "manual_run" => ManualInv
  /\ screen = "schedule" => ScheduleInv

\* A link is presented once, a workflow is run again only after the last run was
\* reported, and a schedule is written again after a failure only when it was
\* read again, for any number of calls, moves and outages.
THEOREM ActsOnlyOnce == Spec => []ActsOnce
<1>1. Init => ActsInv
  BY AccountsStarts, ManualStarts, ScheduleStarts DEF Init, ActsInv
<1>2. ActsInv /\ [Next]_vars => ActsInv'
  <2> SUFFICES ASSUME ActsInv, [Next]_vars PROVE ActsInv'
    OBVIOUS
  <2>1. screen' = screen
    BY DEF Next, vars
  <2>2. CASE screen = "accounts"
    <3>1. Accounts!Next \/ UNCHANGED Accounts!vars
      BY <2>2 DEF Next, Step, vars, Accounts!vars
    <3> QED
      BY <2>1, <2>2, <3>1, AccountsSteps DEF ActsInv
  <2>3. CASE screen = "manual_run"
    <3>1. Manual!Next \/ UNCHANGED Manual!vars
      BY <2>3 DEF Next, Step, vars, Manual!vars
    <3> QED
      BY <2>1, <2>3, <3>1, ManualSteps DEF ActsInv
  <2>4. CASE screen = "schedule"
    <3>1. Schedule!Next \/ UNCHANGED Schedule!vars
      BY <2>4 DEF Next, Step, vars, Schedule!vars, Schedule!service, Schedule!page,
         Schedule!history
    <3> QED
      BY <2>1, <2>4, <3>1, ScheduleSteps DEF ActsInv
  <2> QED
    BY <2>1, <2>2, <2>3, <2>4 DEF ActsInv
<1>3. ActsInv => ActsOnce
  BY ManualTold DEF ActsInv, ActsOnce, AccountsInv, ScheduleInv, SheetInv
<1> QED
  BY <1>1, <1>2, <1>3, PTL DEF Spec

ScheduleLeftInv == screen = "schedule" => ScheduleInv

\* What was typed for the runs of a schedule is kept until the service has it,
\* as long as every published version has a trigger, and only the user resumes a
\* schedule that was paused, for any number of versions and events.
THEOREM ScheduleStaysAsLeft == Spec => []ScheduleIsAsLeft
<1>1. Init => ScheduleLeftInv
  BY ScheduleStarts DEF Init, ScheduleLeftInv
<1>2. ScheduleLeftInv /\ [Next]_vars => ScheduleLeftInv'
  <2> SUFFICES ASSUME ScheduleLeftInv, [Next]_vars PROVE ScheduleLeftInv'
    OBVIOUS
  <2>1. screen' = screen
    BY DEF Next, vars
  <2>2. CASE screen = "schedule"
    <3>1. Schedule!Next \/ UNCHANGED Schedule!vars
      BY <2>2 DEF Next, Step, vars, Schedule!vars, Schedule!service, Schedule!page,
         Schedule!history
    <3> QED
      BY <2>1, <2>2, <3>1, ScheduleSteps DEF ScheduleLeftInv
  <2> QED
    BY <2>1, <2>2 DEF ScheduleLeftInv
<1>3. ScheduleLeftInv => ScheduleIsAsLeft
  BY DEF ScheduleLeftInv, ScheduleIsAsLeft, ScheduleInv, StoredInv, DraftInv,
     Schedule!DraftKeptWithTrigger
<1> QED
  BY <1>1, <1>2, <1>3, PTL DEF Spec

FitInv ==
  /\ screen = "webhook_test" => TestsInv
  /\ screen = "manual_run" => ManualInv
  /\ screen = "toolbar" => ToolbarInv
  /\ screen = "run_panel" => PanelInv

\* An answer enters only the version, the session or the run it was asked for,
\* only a manual version is run by hand, and a workflow keeps a version, for any
\* number of each.
THEOREM AnswersStayFit == Spec => []AnswersFit
<1>1. Init => FitInv
  BY TestsStarts, ManualStarts, ToolbarStarts, PanelStarts
  DEF Init, FitInv
<1>2. FitInv /\ [Next]_vars => FitInv'
  <2> SUFFICES ASSUME FitInv, [Next]_vars PROVE FitInv'
    OBVIOUS
  <2>1. screen' = screen
    BY DEF Next, vars
  <2>2. CASE screen = "webhook_test"
    <3>1. Tests!Next \/ UNCHANGED Tests!vars
      BY <2>2 DEF Next, Step, vars, Tests!vars
    <3> QED
      BY <2>1, <2>2, <3>1, TestsSteps DEF FitInv
  <2>3. CASE screen = "manual_run"
    <3>1. Manual!Next \/ UNCHANGED Manual!vars
      BY <2>3 DEF Next, Step, vars, Manual!vars
    <3> QED
      BY <2>1, <2>3, <3>1, ManualSteps DEF FitInv
  <2>4. CASE screen = "toolbar"
    <3>1. Toolbar!Next \/ UNCHANGED Toolbar!vars
      BY <2>4 DEF Next, Step, vars, Toolbar!vars
    <3> QED
      BY <2>1, <2>4, <3>1, ToolbarSteps DEF FitInv
  <2>5. CASE screen = "run_panel"
    <3>1. Panel!Next \/ UNCHANGED Panel!vars
      BY <2>5 DEF Next, Step, vars, Panel!vars
    <3> QED
      BY <2>1, <2>5, <3>1, PanelSteps DEF FitInv
  <2> QED
    BY <2>1, <2>2, <2>3, <2>4, <2>5 DEF FitInv
<1>3. FitInv => AnswersFit
  <2>1. PanelInv => Panel!PaintsSelected
    BY DEF PanelInv, Panel!SelectedIsFollowed, Panel!PaintsSelected, Panel!Painted
  <2>2. TestsInv => Tests!ResultIsOfSession
    BY DEF TestsInv
  <2>3. ToolbarInv => Toolbar!OneVersionKept
    BY DEF ToolbarInv
  <2> QED
    BY <2>1, <2>2, <2>3, ManualTold DEF FitInv, AnswersFit
<1> QED
  BY <1>1, <1>2, <1>3, PTL DEF Spec
=============================================================================
