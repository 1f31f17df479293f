---------------------------- MODULE Lists_proofs ----------------------------
(***************************************************************************)
(* TLAPS proofs about the pages of MCLists, for every bound on what        *)
(* happens on them: what each of its eight pages keeps, and, at the end,   *)
(* the theorems, which put the pages together.  A page's variables are the *)
(* slots of MCLists; each section says which slot is which.                *)
(***************************************************************************)
EXTENDS MCLists, SequenceTheorems, TLAPS

-----------------------------------------------------------------------------
(* The list of a page.  slot1 to slot4 are requests, items, loading and    *)
(* loadError.                                                              *)

List == INSTANCE LatestList WITH
  requests <- slot1, items <- slot2, loading <- slot3, loadError <- slot4

ListInv ==
  /\ slot1 \in Seq({slot1[i] : i \in DOMAIN slot1})
  /\ \A i \in DOMAIN slot1 :
       /\ DOMAIN slot1[i] = {"query", "active", "handled", "answer"}
       /\ slot1[i].active \in BOOLEAN /\ slot1[i].handled \in BOOLEAN
  /\ List!LatestOnly

\* What a request under way is known to be after a step: requests are as they
\* were, or the current one is gone, or it is a new one.
LEMMA ListTyped ==
  ASSUME NEW S, slot1' \in Seq(S)
  PROVE  slot1' \in Seq({slot1'[i] : i \in DOMAIN slot1'})
<1> DEFINE T == {slot1'[i] : i \in DOMAIN slot1'}
<1>1. slot1' \in [1..Len(slot1') -> S] /\ Len(slot1') \in Nat /\ DOMAIN slot1' = 1..Len(slot1')
  OBVIOUS
<1>2. slot1' \in [1..Len(slot1') -> T]
  BY <1>1
<1> HIDE DEF T
<1>3. slot1' \in Seq(T)
  BY <1>1, <1>2, SeqDef
<1> QED
  BY <1>3 DEF T

LEMMA ListStays ==
  ASSUME ListInv, slot1' = slot1
  PROVE  ListInv' /\ List!Answers' = List!Answers /\ List!Asked' = List!Asked
         /\ List!Current' = List!Current
BY DEF ListInv, List!Answers, List!Asked, List!Current, List!LatestOnly

LEMMA ListEmpties ==
  ASSUME slot1' = <<>>
  PROVE  ListInv' /\ List!Answers' = {} /\ List!Asked' = {} /\ List!Current' = {}
<1>1. slot1' \in Seq({slot1'[i] : i \in DOMAIN slot1'}) /\ DOMAIN slot1' = {}
  OBVIOUS
<1> QED
  BY <1>1 DEF ListInv, List!Answers, List!Asked, List!Current, List!LatestOnly

LEMMA ListOvertaken ==
  ASSUME ListInv
  PROVE  /\ List!Overtaken \in Seq({List!Overtaken[i] : i \in DOMAIN List!Overtaken})
         /\ \A i \in DOMAIN List!Overtaken :
              /\ DOMAIN List!Overtaken[i] = {"query", "active", "handled", "answer"}
              /\ List!Overtaken[i].active = FALSE /\ List!Overtaken[i].handled \in BOOLEAN
<1>1. CASE slot1 = <<>>
  BY <1>1 DEF List!Overtaken
<1>2. CASE slot1 # <<>>
  <2> DEFINE last == slot1[Len(slot1)]
             r == [last EXCEPT !.active = FALSE]
  <2>1. Len(slot1) \in DOMAIN slot1
    BY <1>2 DEF ListInv
  <2>2. DOMAIN r = {"query", "active", "handled", "answer"} /\ r.active = FALSE
        /\ r.handled \in BOOLEAN
    BY <2>1 DEF ListInv
  <2>3. List!Overtaken = <<r>>
    BY <1>2 DEF List!Overtaken
  <2> HIDE DEF r
  <2>4. DOMAIN <<r>> = {1} /\ <<r>>[1] = r /\ <<r>> \in Seq({r})
    OBVIOUS
  <2> QED
    BY <2>2, <2>3, <2>4
<1> QED
  BY <1>1, <1>2

\* A new request overtakes the others.
LEMMA ListAppends ==
  ASSUME NEW s, NEW q, s \in Seq({s[i] : i \in DOMAIN s}),
         \A i \in DOMAIN s :
           /\ DOMAIN s[i] = {"query", "active", "handled", "answer"}
           /\ s[i].active = FALSE /\ s[i].handled \in BOOLEAN,
         slot1' = Append(s, List!Request(q))
  PROVE  /\ ListInv' /\ List!Answers' = {} /\ List!Asked' = {q}
         /\ List!Current' # {} /\ slot1' # <<>>
<1> DEFINE n == Len(s)
           r == List!Request(q)
<1>1. n \in Nat /\ DOMAIN s = 1..n
  OBVIOUS
<1>2. /\ DOMAIN r = {"query", "active", "handled", "answer"} /\ r.query = q
      /\ r.active = TRUE /\ r.handled = FALSE
  BY DEF List!Request
<1> HIDE DEF r
<1>3. /\ Len(slot1') = n + 1 /\ DOMAIN slot1' = 1..(n + 1) /\ slot1'[n + 1] = r
      /\ \A i \in 1..n : slot1'[i] = s[i]
      /\ slot1' \in Seq({s[i] : i \in DOMAIN s} \cup {r})
  BY <1>1 DEF r
<1> HIDE DEF n
<1>4. \A i \in DOMAIN slot1' :
        /\ DOMAIN slot1'[i] = {"query", "active", "handled", "answer"}
        /\ slot1'[i].active = (i = n + 1) /\ slot1'[i].handled \in BOOLEAN
        /\ i = n + 1 => slot1'[i].handled = FALSE /\ slot1'[i].query = q
  <2> SUFFICES ASSUME NEW i \in DOMAIN slot1'
               PROVE  /\ DOMAIN slot1'[i] = {"query", "active", "handled", "answer"}
                      /\ slot1'[i].active = (i = n + 1) /\ slot1'[i].handled \in BOOLEAN
                      /\ i = n + 1 => slot1'[i].handled = FALSE /\ slot1'[i].query = q
    OBVIOUS
  <2>1. CASE i = n + 1
    BY <1>2, <1>3, <2>1
  <2>2. CASE i # n + 1
    <3>1. i \in 1..n
      BY <1>1, <1>3, <2>2
    <3>2. slot1'[i] = s[i] /\ s[i].active = FALSE
      BY <1>1, <1>3, <3>1
    <3> QED
      BY <1>1, <2>2, <3>1, <3>2
  <2> QED
    BY <2>1, <2>2
<1>5. n + 1 \in DOMAIN slot1'
  BY <1>1, <1>3
<1>6. List!Current' = {n + 1}
  BY <1>4, <1>5 DEF List!Current
<1>7. List!Asked' = {q} /\ List!Answers' = {}
  BY <1>4, <1>5, <1>6 DEF List!Asked, List!Answers
<1>8. slot1' \in Seq({slot1'[i] : i \in DOMAIN slot1'})
  BY <1>3, ListTyped
<1>9. List!LatestOnly'
  BY <1>3, <1>6 DEF List!LatestOnly
<1>10. ListInv'
  BY <1>4, <1>8, <1>9 DEF ListInv
<1> QED
  BY <1>3, <1>5, <1>6, <1>7, <1>10

LEMMA ListAsks ==
  ASSUME ListInv, NEW q, slot1' = Append(List!Overtaken, List!Request(q))
  PROVE  /\ ListInv' /\ List!Answers' = {} /\ List!Asked' = {q}
         /\ List!Current' # {} /\ slot1' # <<>>
BY ListOvertaken, ListAppends

\* An answer is of the request it is for.
LEMMA ListHandles ==
  ASSUME ListInv, NEW i \in DOMAIN slot1, NEW answer, ~slot1[i].handled,
         slot1' = [slot1 EXCEPT ![i].handled = TRUE, ![i].answer = answer]
  PROVE  /\ ListInv' /\ List!Current' = List!Current /\ List!Asked' = List!Asked
         /\ List!Answers' \subseteq List!Answers \cup {answer}
         /\ slot1[i].query \notin List!Asked => List!Answers' = List!Answers
         /\ slot1' # <<>>
<1> DEFINE r == [slot1[i] EXCEPT !.handled = TRUE, !.answer = answer]
<1>1. /\ DOMAIN r = {"query", "active", "handled", "answer"} /\ r.active = slot1[i].active
      /\ r.handled = TRUE /\ r.query = slot1[i].query /\ r.answer = answer
  BY DEF ListInv
<1>2. slot1' = [slot1 EXCEPT ![i] = r]
  OBVIOUS
<1> HIDE DEF r
<1>3. /\ DOMAIN slot1' = DOMAIN slot1 /\ Len(slot1') = Len(slot1)
      /\ \A j \in DOMAIN slot1 : slot1'[j] = IF j = i THEN r ELSE slot1[j]
      /\ slot1' \in Seq({slot1[j] : j \in DOMAIN slot1} \cup {r})
  <2> DEFINE S == {slot1[j] : j \in DOMAIN slot1} \cup {r}
  <2>1. slot1 \in Seq(S) /\ r \in S /\ i \in 1..Len(slot1) /\ DOMAIN slot1 = 1..Len(slot1)
    BY SeqMonotonic DEF ListInv
  <2> HIDE DEF S
  <2>2. /\ slot1' \in Seq(S) /\ Len(slot1') = Len(slot1)
        /\ \A j \in 1..Len(slot1) : slot1'[j] = IF j = i THEN r ELSE slot1[j]
    <3> DEFINE t == [slot1 EXCEPT ![i] = r]
    <3>1. /\ t \in Seq(S) /\ Len(t) = Len(slot1)
          /\ \A j \in 1..Len(slot1) : t[j] = IF j = i THEN r ELSE slot1[j]
      BY <2>1, ExceptSeq
    <3> QED
      BY <1>2, <3>1
  <2>3. DOMAIN slot1' = 1..Len(slot1')
    BY <2>2
  <2> QED
    BY <2>1, <2>2, <2>3 DEF S
<1>4. slot1' \in Seq({slot1'[j] : j \in DOMAIN slot1'})
  BY <1>3, ListTyped
<1>5. \A j \in DOMAIN slot1 :
        /\ slot1'[j].active = slot1[j].active /\ slot1'[j].query = slot1[j].query
        /\ DOMAIN slot1'[j] = {"query", "active", "handled", "answer"}
        /\ slot1'[j].active \in BOOLEAN /\ slot1'[j].handled \in BOOLEAN
        /\ j # i => slot1'[j] = slot1[j]
  <2> SUFFICES ASSUME NEW j \in DOMAIN slot1
               PROVE  /\ slot1'[j].active = slot1[j].active /\ slot1'[j].query = slot1[j].query
                      /\ DOMAIN slot1'[j] = {"query", "active", "handled", "answer"}
                      /\ slot1'[j].active \in BOOLEAN /\ slot1'[j].handled \in BOOLEAN
                      /\ j # i => slot1'[j] = slot1[j]
    OBVIOUS
  <2>1. CASE j = i
    BY <1>1, <1>3, <2>1 DEF ListInv
  <2>2. CASE j # i
    BY <1>3, <2>2 DEF ListInv
  <2> QED
    BY <2>1, <2>2
<1>6. List!Current' = List!Current
  BY <1>3, <1>5 DEF List!Current
<1>7. List!Asked' = List!Asked
  BY <1>3, <1>5, <1>6 DEF List!Asked, List!Current
<1>8. ListInv'
  BY <1>3, <1>4, <1>5, <1>6 DEF ListInv, List!LatestOnly
<1>9. List!Answers' \subseteq List!Answers \cup {answer}
  BY <1>1, <1>3, <1>5, <1>6 DEF List!Answers, List!Current
<1>10. ASSUME slot1[i].query \notin List!Asked PROVE List!Answers' = List!Answers
  <2>1. i \notin List!Current
    BY <1>10 DEF List!Asked
  <2> QED
    BY <2>1, <1>3, <1>5, <1>6 DEF List!Answers, List!Current
<1> QED
  BY <1>3, <1>6, <1>7, <1>8, <1>9, <1>10

\* What is left of the requests when one of them ends.
LEMMA ListWithout ==
  ASSUME ListInv, NEW i \in DOMAIN slot1, NEW s, s = List!Without(slot1, i)
  PROVE  /\ s \in Seq({slot1[j] : j \in DOMAIN slot1}) /\ Len(s) = Len(slot1) - 1
         /\ Len(slot1) \in Nat /\ DOMAIN s = 1..(Len(slot1) - 1)
         /\ DOMAIN slot1 = 1..Len(slot1)
         /\ \A j \in 1..(Len(slot1) - 1) : s[j] = IF j < i THEN slot1[j] ELSE slot1[j + 1]
<1> DEFINE n == Len(slot1)
           S == {slot1[j] : j \in DOMAIN slot1}
<1>1. n \in Nat /\ DOMAIN slot1 = 1..n /\ slot1 \in Seq(S) /\ i \in 1..n
  BY DEF ListInv
<1>2. /\ s \in Seq(S) /\ Len(s) = n - 1 /\ DOMAIN s = 1..(n - 1)
      /\ \A j \in 1..(n - 1) : s[j] = IF j < i THEN slot1[j] ELSE slot1[j + 1]
  <2> DEFINE a == SubSeq(slot1, 1, i - 1)
             b == SubSeq(slot1, i + 1, n)
  <2>0. s = a \o b
    BY DEF List!Without
  <2>1. /\ a \in Seq(S) /\ Len(a) = i - 1 /\ \A j \in 1..(i - 1) : a[j] = slot1[j]
    <3> HIDE DEF n, S
    <3>1. \A j \in 1..(i - 1) : j \in 1..n /\ slot1[j] \in S
      BY <1>1, ElementOfSeq DEF n
    <3>2. i - 1 \in Int
      BY <1>1
    <3>3. /\ a \in Seq(S) /\ Len(a) = (IF 1 <= i - 1 THEN i - 1 - 1 + 1 ELSE 0)
          /\ \A j \in 1..(i - 1 - 1 + 1) : a[j] = slot1[1 + j - 1]
      BY <3>1, <3>2, SubSeqProperties
    <3> HIDE DEF a
    <3>4. \A j \in 1..(i - 1) : 1 + j - 1 = j /\ j \in 1..(i - 1 - 1 + 1)
      BY <1>1
    <3> QED
      BY <1>1, <3>3, <3>4
  <2>2. /\ b \in Seq(S) /\ Len(b) = n - i /\ \A j \in 1..(n - i) : b[j] = slot1[i + j]
    <3> HIDE DEF n, S
    <3>1. \A j \in (i + 1)..n : j \in 1..n /\ slot1[j] \in S
      BY <1>1, ElementOfSeq DEF n
    <3>2. i + 1 \in Int /\ n \in Int
      BY <1>1
    <3>3. /\ b \in Seq(S) /\ Len(b) = (IF i + 1 <= n THEN n - (i + 1) + 1 ELSE 0)
          /\ \A j \in 1..(n - (i + 1) + 1) : b[j] = slot1[i + 1 + j - 1]
      BY <3>1, <3>2, SubSeqProperties
    <3> HIDE DEF b
    <3>4. \A j \in 1..(n - i) : i + 1 + j - 1 = i + j /\ j \in 1..(n - (i + 1) + 1)
      BY <1>1
    <3> QED
      BY <1>1, <3>3, <3>4
  <2> HIDE DEF a, b
  <2>4. /\ s \in Seq(S) /\ Len(s) = n - 1 /\ DOMAIN s = 1..(n - 1)
        /\ \A j \in 1..(n - 1) : s[j] = IF j <= Len(a) THEN a[j] ELSE b[j - Len(a)]
    <3> HIDE DEF n, S
    <3>1. /\ s \in Seq(S) /\ Len(s) = Len(a) + Len(b)
          /\ \A j \in 1..(Len(a) + Len(b)) :
               s[j] = IF j <= Len(a) THEN a[j] ELSE b[j - Len(a)]
      BY <2>0, <2>1, <2>2, ConcatProperties
    <3>2. Len(a) + Len(b) = n - 1
      BY <1>1, <2>1, <2>2
    <3> QED
      BY <3>1, <3>2
  <2>5. ASSUME NEW j \in 1..(n - 1)
        PROVE  s[j] = IF j < i THEN slot1[j] ELSE slot1[j + 1]
    <3>1. CASE j < i
      BY <1>1, <2>1, <2>4, <3>1
    <3>2. CASE j >= i
      <4> HIDE DEF n, S
      <4> DEFINE k == j - (i - 1)
      <4>1. k \in 1..(n - i) /\ ~(j <= i - 1) /\ ~(j < i) /\ i + k = j + 1
        BY <1>1, <3>2
      <4>2. s[j] = b[k]
        BY <2>1, <2>4, <4>1
      <4> HIDE DEF k
      <4> QED
        BY <2>2, <4>1, <4>2
    <3> QED
      BY <1>1, <3>1, <3>2
  <2> QED
    BY <2>4, <2>5
<1> QED
  BY <1>1, <1>2

\* A request that ends leaves the others as they were.
LEMMA ListDrops ==
  ASSUME ListInv, NEW i \in DOMAIN slot1, slot1' = List!Without(slot1, i)
  PROVE  /\ ListInv'
         /\ slot1[i].active => List!Answers' = {} /\ List!Asked' = {} /\ List!Current' = {}
         /\ ~slot1[i].active => /\ List!Answers' = List!Answers /\ List!Asked' = List!Asked
                                /\ List!Current' = {} <=> List!Current = {}
<1> DEFINE n == Len(slot1)
           S == {slot1[j] : j \in DOMAIN slot1}
<1>1. n \in Nat /\ DOMAIN slot1 = 1..n /\ slot1 \in Seq(S) /\ i \in 1..n
  BY DEF ListInv
<1>2. /\ slot1' \in Seq(S) /\ Len(slot1') = n - 1 /\ DOMAIN slot1' = 1..(n - 1)
      /\ \A j \in 1..(n - 1) : slot1'[j] = IF j < i THEN slot1[j] ELSE slot1[j + 1]
  BY ListWithout
<1> HIDE DEF n, S
<1>3. slot1' \in Seq({slot1'[j] : j \in DOMAIN slot1'})
  BY <1>2, ListTyped
<1>4. \A j \in DOMAIN slot1' :
        /\ DOMAIN slot1'[j] = {"query", "active", "handled", "answer"}
        /\ slot1'[j].active \in BOOLEAN /\ slot1'[j].handled \in BOOLEAN
  <2> SUFFICES ASSUME NEW j \in 1..(n - 1)
               PROVE  \E k \in DOMAIN slot1 : slot1'[j] = slot1[k]
    BY <1>2 DEF ListInv
  <2>1. j \in DOMAIN slot1 /\ j + 1 \in DOMAIN slot1
    BY <1>1
  <2> QED
    BY <1>2, <2>1
<1>5. \A j \in DOMAIN slot1 : slot1[j].active => j = n
  BY DEF ListInv, List!LatestOnly, List!Current, n
<1>6. CASE slot1[i].active
  <2>1. i = n
    BY <1>5, <1>6
  <2>2. ASSUME NEW j \in DOMAIN slot1', slot1'[j].active PROVE FALSE
    <3>1. j \in 1..(n - 1) /\ slot1'[j] = slot1[j] /\ j \in DOMAIN slot1 /\ j # n
      BY <1>1, <1>2, <2>1, <2>2
    <3> QED
      BY <1>5, <2>2, <3>1
  <2>3. List!Current' = {}
    BY <2>2 DEF List!Current
  <2>4. List!Answers' = {} /\ List!Asked' = {}
    BY <2>3 DEF List!Answers, List!Asked
  <2>5. ListInv'
    BY <1>3, <1>4, <2>3 DEF ListInv, List!LatestOnly
  <2> QED
    BY <1>6, <2>3, <2>4, <2>5
<1>7. CASE ~slot1[i].active
  <2>1. CASE slot1[n].active /\ n \in DOMAIN slot1
    <3>1. n - 1 \in DOMAIN slot1' /\ slot1'[n - 1] = slot1[n] /\ i < n
      BY <1>1, <1>2, <1>7, <2>1
    <3>2. ASSUME NEW j \in DOMAIN slot1', slot1'[j].active PROVE j = n - 1
      <4>1. j \in 1..(n - 1) /\ j \in DOMAIN slot1 /\ j + 1 \in DOMAIN slot1
        BY <1>1, <1>2, <3>2
      <4>2. CASE j < i
        <5>1. slot1[j].active
          BY <1>2, <3>2, <4>1, <4>2
        <5> QED
          BY <1>1, <1>5, <3>1, <4>1, <4>2, <5>1
      <4>3. CASE j >= i
        <5>1. slot1[j + 1].active
          BY <1>1, <1>2, <3>2, <4>1, <4>3
        <5> QED
          BY <1>1, <1>5, <4>1, <5>1
      <4> QED
        BY <1>1, <4>1, <4>2, <4>3
    <3>3. List!Current' = {n - 1} /\ List!Current = {n}
      BY <1>5, <2>1, <3>1, <3>2 DEF List!Current
    <3>4. List!Asked' = List!Asked
      BY <3>1, <3>3 DEF List!Asked
    <3>5. List!Answers' = List!Answers
      BY <3>1, <3>3 DEF List!Answers
    <3>6. ListInv'
      BY <1>2, <1>3, <1>4, <3>3 DEF ListInv, List!LatestOnly
    <3> QED
      BY <1>7, <3>3, <3>4, <3>5, <3>6
  <2>2. CASE ~(slot1[n].active /\ n \in DOMAIN slot1)
    <3>1. List!Current = {}
      BY <1>5, <2>2 DEF List!Current
    <3>2. ASSUME NEW j \in DOMAIN slot1', slot1'[j].active PROVE FALSE
      <4>1. j \in DOMAIN slot1 /\ j + 1 \in DOMAIN slot1
        BY <1>1, <1>2, <3>2
      <4>2. slot1[j].active \/ slot1[j + 1].active
        BY <1>1, <1>2, <3>2, <4>1
      <4> QED
        BY <3>1, <4>1, <4>2 DEF List!Current
    <3>3. List!Current' = {}
      BY <3>2 DEF List!Current
    <3>4. List!Answers' = List!Answers /\ List!Asked' = List!Asked
      BY <3>1, <3>3 DEF List!Answers, List!Asked
    <3>5. ListInv'
      BY <1>3, <1>4, <3>3 DEF ListInv, List!LatestOnly
    <3> QED
      BY <1>7, <3>1, <3>3, <3>4, <3>5
  <2> QED
    BY <2>1, <2>2
<1> QED
  BY <1>4, <1>6, <1>7 DEF ListInv

\* A current request that is sent anew.
LEMMA ListReasks ==
  ASSUME ListInv, NEW i \in DOMAIN slot1, slot1[i].active, NEW q,
         slot1' = Append(List!Without(slot1, i), List!Request(q))
  PROVE  /\ ListInv' /\ List!Answers' = {} /\ List!Asked' = {q}
         /\ List!Current' # {} /\ slot1' # <<>>
<1> DEFINE n == Len(slot1)
           s == List!Without(slot1, i)
<1>1. /\ s \in Seq({slot1[j] : j \in DOMAIN slot1}) /\ Len(s) = n - 1 /\ n \in Nat
      /\ DOMAIN s = 1..(n - 1) /\ DOMAIN slot1 = 1..n
      /\ \A j \in 1..(n - 1) : s[j] = IF j < i THEN slot1[j] ELSE slot1[j + 1]
  BY ListWithout
<1> HIDE DEF n, s
<1>2. \A j \in DOMAIN slot1 : slot1[j].active => j = n
  BY DEF ListInv, List!LatestOnly, List!Current, n
<1>3. i = n
  BY <1>2
<1>4. \A j \in DOMAIN s : j \in DOMAIN slot1 /\ s[j] = slot1[j] /\ ~slot1[j].active
  BY <1>1, <1>2, <1>3
<1>5. \A j \in DOMAIN s : /\ DOMAIN s[j] = {"query", "active", "handled", "answer"}
                          /\ s[j].active = FALSE /\ s[j].handled \in BOOLEAN
  BY <1>4 DEF ListInv
<1>6. s \in Seq({s[j] : j \in DOMAIN s})
  <2>1. s \in [1..Len(s) -> {s[j] : j \in DOMAIN s}] /\ Len(s) \in Nat
    BY <1>1
  <2> QED
    BY <2>1, SeqDef
<1> QED
  BY <1>5, <1>6, ListAppends DEF s

\* The operations of a page on its list.
LEMMA ListAsked ==
  ASSUME ListInv, NEW q, List!Ask(q)
  PROVE  /\ ListInv' /\ List!Answers' = {} /\ List!Asked' = {q} /\ List!Current' # {}
         /\ slot1' # <<>> /\ slot3' = TRUE /\ slot4' = FALSE
BY ListAsks DEF List!Ask

LEMMA ListHandled ==
  ASSUME ListInv, NEW i \in DOMAIN slot1, NEW answer, List!Handled(i, answer)
  PROVE  /\ ListInv' /\ List!Current' = List!Current /\ List!Asked' = List!Asked
         /\ List!Answers' \subseteq List!Answers \cup {answer}
         /\ slot1[i].query \notin List!Asked => List!Answers' = List!Answers
         /\ slot1' # <<>> /\ slot2' = slot2 /\ slot3' = slot3 /\ slot4' = slot4
BY ListHandles DEF List!Handled

Overtaken ==
  /\ slot2' = slot2 /\ slot3' = slot3 /\ slot4' = slot4
  /\ List!Answers' = List!Answers /\ List!Asked' = List!Asked
  /\ List!Current' = {} <=> List!Current = {}

LEMMA ListAnswered ==
  ASSUME ListInv, NEW i \in DOMAIN slot1, List!Answered(i)
  PROVE  /\ ListInv'
         /\ \/ /\ List!Current # {} /\ List!Current' = {} /\ List!Answers' = {}
               /\ List!Asked' = {} /\ slot2' \in List!Answers
               /\ slot3' = FALSE /\ slot4' = slot4
            \/ Overtaken
<1>1. slot1' = List!Without(slot1, i) /\ slot1[i].handled /\ slot4' = slot4
  BY DEF List!Answered
<1>2. CASE slot1[i].active
  <2>1. i \in List!Current /\ slot1[i].answer \in List!Answers
    BY <1>1, <1>2 DEF List!Current, List!Answers
  <2>2. slot2' = slot1[i].answer /\ slot3' = FALSE
    BY <1>2 DEF List!Answered
  <2> QED
    BY <1>1, <1>2, <2>1, <2>2, ListDrops
<1>3. CASE ~slot1[i].active
  <2>1. slot2' = slot2 /\ slot3' = slot3
    BY <1>3 DEF List!Answered
  <2> QED
    BY <1>1, <1>3, <2>1, ListDrops DEF Overtaken
<1> QED
  BY <1>2, <1>3

LEMMA ListFailed ==
  ASSUME ListInv, NEW i \in DOMAIN slot1, List!Fails(i)
  PROVE  /\ ListInv' /\ slot2' = slot2
         /\ \/ /\ List!Current' = {} /\ List!Answers' = {} /\ List!Asked' = {}
               /\ slot3' = FALSE /\ slot4' = TRUE
            \/ Overtaken
<1>1. slot1' = List!Without(slot1, i) /\ slot2' = slot2
  BY DEF List!Fails
<1>2. CASE slot1[i].active
  BY <1>1, <1>2, ListDrops DEF List!Fails
<1>3. CASE ~slot1[i].active
  <2>1. slot3' = slot3 /\ slot4' = slot4
    BY <1>3 DEF List!Fails
  <2> QED
    BY <1>1, <1>3, <2>1, ListDrops DEF Overtaken
<1> QED
  BY <1>2, <1>3

LEMMA ListStarts ==
  ASSUME NEW q, slot1 = <<List!Request(q)>>
  PROVE  ListInv /\ List!Answers = {} /\ List!Asked = {q} /\ List!Current # {}
<1>1. DOMAIN slot1 = {1} /\ Len(slot1) = 1 /\ slot1[1] = List!Request(q)
  OBVIOUS
<1>2. slot1 \in Seq({slot1[i] : i \in DOMAIN slot1})
  <2>1. {slot1[i] : i \in DOMAIN slot1} = {List!Request(q)}
    BY <1>1
  <2> QED
    BY <2>1
<1>3. /\ DOMAIN slot1[1] = {"query", "active", "handled", "answer"} /\ slot1[1].query = q
      /\ slot1[1].active = TRUE /\ slot1[1].handled = FALSE
  BY <1>1 DEF List!Request
<1>4. List!Current = {1}
  BY <1>1, <1>3 DEF List!Current
<1>5. List!Answers = {} /\ List!Asked = {q}
  BY <1>3, <1>4 DEF List!Answers, List!Asked
<1>6. ListInv
  BY <1>1, <1>2, <1>3, <1>4 DEF ListInv, List!LatestOnly
<1> QED
  BY <1>4, <1>5, <1>6

-----------------------------------------------------------------------------
(* The page of the knowledge bases.  slot1 to slot4 are its list, slot5 to  *)
(* slot11 are stored, at, modal, write, page, gone and missed.              *)

LEMMA BasesList ==
  /\ \A q : Bases!Ask(q) <=> List!Ask(q)
  /\ \A i, answer : Bases!Handled(i, answer) <=> List!Handled(i, answer)
  /\ \A i : Bases!Answered(i) <=> List!Answered(i)
  /\ \A i : Bases!Fails(i) <=> List!Fails(i)
  /\ Bases!Current = List!Current /\ Bases!Current' = List!Current'
  /\ Bases!Answers = List!Answers /\ Bases!Answers' = List!Answers'
  /\ Bases!Asked = List!Asked /\ Bases!Asked' = List!Asked'
BY DEF Bases!Ask, Bases!Handled, Bases!Answered, Bases!Fails, Bases!Without,
   Bases!Overtaken, Bases!Request,
   Bases!Current, Bases!Answers, Bases!Asked, List!Ask, List!Handled, List!Answered, List!Fails,
   List!Without, List!Overtaken, List!Request, List!Current, List!Answers, List!Asked

BasesType ==
  /\ slot3 \in BOOLEAN /\ slot4 \in BOOLEAN /\ slot11 \in BOOLEAN /\ slot6 \in KB \cup {None}
  /\ slot5 \in [KB -> {"absent", "kept", "deleted"}]
  /\ slot7 \in [type : {"none", "create", "delete"}, id : KB \cup {None},
                error : {"none", "already_deleted", "failed"}]
  /\ slot8 \in [kind : {"none", "create", "delete"}, id : KB \cup {None},
                answer : {"none", "ok", "404"}]
  /\ slot8.kind = "none" => slot8 = Bases!NoWrite
  /\ slot7.type = "create" => slot6 = None

BasesRows ==
  /\ Bases!DeletesWhatIsShown /\ Bases!DeletedIsFinal
  /\ Bases!AnswersAreClean /\ Bases!AnswersAreCurrent

BasesInv == ListInv /\ BasesType /\ Bases!LoadingIsShown /\ BasesRows

LEMMA BasesTold == BasesInv => Bases!DeletedStaysAway /\ Bases!ListIsCurrent
<1> SUFFICES ASSUME BasesInv PROVE Bases!DeletedStaysAway /\ Bases!ListIsCurrent
  OBVIOUS
<1>1. Bases!DeletedStaysAway
  BY DEF BasesInv, BasesRows, Bases!AnswersAreClean, Bases!DeletedStaysAway, Bases!Shown
<1>2. Bases!ListIsCurrent
  <2> SUFFICES ASSUME slot6 = None, Bases!Quiet, slot8 = Bases!NoWrite, ~slot11
               PROVE  Bases!Shown = Bases!Kept
    BY DEF Bases!ListIsCurrent
  <2>1. Bases!Current = {} /\ ~slot4
    BY DEF Bases!Quiet, Bases!Current
  <2>2. slot8.kind = "none"
    BY DEF Bases!NoWrite
  <2>3. Bases!Taken = {} /\ ~slot3
    BY <2>1, <2>2 DEF Bases!Taken, BasesInv, Bases!LoadingIsShown
  <2>4. slot2 = Bases!Kept
    BY <2>1, <2>2, <2>3 DEF BasesInv, BasesRows, Bases!AnswersAreCurrent
  <2> QED
    BY <2>1, <2>3, <2>4 DEF Bases!Shown
<1> QED
  BY <1>1, <1>2

LEMMA BasesStarts == Bases!Init => BasesInv
<1> SUFFICES ASSUME Bases!Init PROVE BasesInv
  OBVIOUS
<1>1. slot1 = <<List!Request("all")>> /\ slot2 = {} /\ slot3 = TRUE /\ slot4 = FALSE
      /\ slot6 = None /\ slot7 = Bases!NoModal /\ slot8 = Bases!NoWrite /\ slot10 = {}
      /\ slot11 = FALSE /\ slot5 \in [KB -> {"absent", "kept", "deleted"}]
  BY DEF Bases!Init, Bases!ListInit, Bases!Request, List!Request
<1>2. ListInv /\ Bases!Answers = {} /\ Bases!Current # {}
  BY <1>1, ListStarts, BasesList
<1>3. BasesType
  BY <1>1 DEF BasesType, Bases!NoModal, Bases!NoWrite
<1>4. Bases!LoadingIsShown
  BY <1>1, <1>2 DEF Bases!LoadingIsShown
<1>5. BasesRows
  BY <1>1, <1>2 DEF BasesRows, Bases!DeletesWhatIsShown, Bases!DeletedIsFinal,
     Bases!AnswersAreClean, Bases!AnswersAreCurrent, Bases!NoModal, Bases!NoWrite
<1> QED
  BY <1>2, <1>3, <1>4, <1>5 DEF BasesInv

\* What happens to the list of the library.
LEMMA BasesListSteps ==
  ASSUME BasesInv,
         UNCHANGED <<slot5, slot6, slot7, slot8, slot9, slot10, slot11>>,
         NEW i \in DOMAIN slot1,
         Bases!Handled(i, Bases!Kept) \/ Bases!Answered(i) \/ Bases!Fails(i)
  PROVE  BasesInv'
<1>1. slot6 = None
  BY DEF BasesInv, BasesRows, Bases!DeletesWhatIsShown, BasesType
<1>2. slot2 \cap slot10 = {} /\ Bases!Kept \cap slot10 = {} /\ Bases!Kept' = Bases!Kept
      /\ Bases!Taken' = Bases!Taken
  BY DEF BasesInv, BasesRows, Bases!AnswersAreClean, Bases!DeletedIsFinal, Bases!Kept, Bases!Taken
<1>3. BasesType /\ ListInv /\ Bases!LoadingIsShown /\ Bases!DeletesWhatIsShown
      /\ Bases!DeletedIsFinal /\ Bases!AnswersAreClean /\ Bases!AnswersAreCurrent
  BY DEF BasesInv, BasesRows
<1>4. Bases!DeletedIsFinal'
  BY <1>3 DEF Bases!DeletedIsFinal
<1>5. Bases!Taken \cap Bases!Kept = {}
  BY <1>3 DEF Bases!DeletedIsFinal, Bases!Taken, Bases!Kept
<1>6. CASE Bases!Handled(i, Bases!Kept)
  <2>1. ListInv' /\ Bases!Current' = Bases!Current
        /\ Bases!Answers' \subseteq Bases!Answers \cup {Bases!Kept}
        /\ slot2' = slot2 /\ slot3' = slot3 /\ slot4' = slot4
    BY <1>3, <1>6, BasesList, ListHandled
  <2>2. BasesType' /\ Bases!LoadingIsShown' /\ Bases!DeletesWhatIsShown'
    BY <1>1, <1>3, <2>1 DEF BasesType, Bases!LoadingIsShown, Bases!DeletesWhatIsShown
  <2>3. Bases!AnswersAreClean' /\ Bases!AnswersAreCurrent'
    BY <1>1, <1>2, <1>3, <2>1 DEF Bases!AnswersAreClean, Bases!AnswersAreCurrent
  <2> QED
    BY <1>4, <2>1, <2>2, <2>3 DEF BasesInv, BasesRows
<1>7. ASSUME Bases!Answered(i) \/ Bases!Fails(i)
      PROVE  BasesInv'
  <2>1. ListInv' /\ (Bases!Current = {} => Bases!Current' = {})
        /\ (slot3 \in BOOLEAN => slot3' \in BOOLEAN) /\ (slot4 \in BOOLEAN => slot4' \in BOOLEAN)
        /\ \/ /\ Bases!Current # {} /\ Bases!Current' = {} /\ Bases!Answers' = {}
              /\ slot3' = FALSE /\ slot2' \in Bases!Answers /\ slot4' = slot4
           \/ /\ Bases!Current' = {} /\ Bases!Answers' = {} /\ slot2' = slot2
              /\ slot3' = FALSE /\ slot4' = TRUE
           \/ /\ Bases!Answers' = Bases!Answers /\ (Bases!Current' = {} <=> Bases!Current = {})
              /\ slot2' = slot2 /\ slot3' = slot3 /\ slot4' = slot4
    BY <1>3, <1>7, BasesList, ListAnswered, ListFailed DEF Overtaken
  <2>2. BasesType' /\ Bases!LoadingIsShown' /\ Bases!DeletesWhatIsShown'
    BY <1>1, <1>3, <2>1 DEF BasesType, Bases!LoadingIsShown, Bases!DeletesWhatIsShown
  <2>3. Bases!AnswersAreClean'
    BY <1>2, <1>3, <2>1 DEF Bases!AnswersAreClean
  <2>4. Bases!AnswersAreCurrent'
    BY <1>2, <1>3, <1>5, <2>1 DEF Bases!AnswersAreCurrent
  <2> QED
    BY <1>4, <2>1, <2>2, <2>3, <2>4 DEF BasesInv, BasesRows
<1> QED
  BY <1>6, <1>7

\* What leaves the list and the knowledge bases alone.
LEMMA BasesStays ==
  ASSUME BasesInv, UNCHANGED <<slot1, slot2, slot3, slot4, slot5, slot10>>,
         BasesType', slot11 => slot11',
         slot6' = slot6, Bases!DeletesWhatIsShown',
         slot8' = slot8 \/ (slot8' = Bases!NoWrite /\ (slot11' \/ slot8.answer = "404"))
         \/ (slot8 = Bases!NoWrite /\ slot8'.answer = "none")
  PROVE  BasesInv'
<1>1. BasesType /\ ListInv /\ Bases!LoadingIsShown
      /\ Bases!DeletedIsFinal /\ Bases!AnswersAreClean /\ Bases!AnswersAreCurrent
  BY DEF BasesInv, BasesRows
<1>2. ListInv' /\ Bases!Answers' = Bases!Answers /\ Bases!Current' = Bases!Current
      /\ Bases!Kept' = Bases!Kept
  BY <1>1, BasesList, ListStays DEF Bases!Kept
<1>3. Bases!LoadingIsShown' /\ Bases!AnswersAreClean'
  BY <1>1, <1>2 DEF Bases!LoadingIsShown, Bases!AnswersAreClean
<1>4. (slot8'.kind = "delete" /\ slot8'.answer = "ok") => slot8' = slot8
  BY DEF Bases!NoWrite
<1>5. Bases!DeletedIsFinal'
  BY <1>1, <1>4 DEF Bases!DeletedIsFinal
<1>6. Bases!AnswersAreCurrent'
  <2>1. CASE slot11'
    BY <2>1 DEF Bases!AnswersAreCurrent
  <2>2. CASE ~slot11'
    <3>1. (slot8.kind = "create" /\ slot8.answer = "ok")
            => (slot8'.kind = "create" /\ slot8'.answer = "ok")
      BY <2>2 DEF Bases!NoWrite
    <3>2. Bases!Taken' = Bases!Taken
      BY <2>2 DEF Bases!NoWrite, Bases!Taken
    <3> QED
      BY <1>1, <1>2, <2>2, <3>1, <3>2 DEF Bases!AnswersAreCurrent
  <2> QED
    BY <2>1, <2>2
<1> QED
  BY <1>2, <1>3, <1>5, <1>6 DEF BasesInv, BasesRows

LEMMA BasesRecords ==
  ASSUME BasesType
  PROVE  /\ Bases!NoModal.type = "none" /\ Bases!NoModal.id = None
         /\ Bases!NoWrite.kind = "none" /\ Bases!NoWrite.answer = "none"
         /\ Bases!NoModal \in [type : {"none", "create", "delete"}, id : KB \cup {None},
                               error : {"none", "already_deleted", "failed"}]
         /\ Bases!NoWrite \in [kind : {"none", "create", "delete"}, id : KB \cup {None},
                               answer : {"none", "ok", "404"}]
BY DEF Bases!NoModal, Bases!NoWrite

\* The actions that leave what is stored and what is listed.
LEMMA BasesQuietSteps ==
  ASSUME BasesInv,
         \/ Bases!OpenCreate \/ Bases!LoadHandled \/ Bases!LoadAnswered \/ Bases!LoadFails
         \/ Bases!RetryLoad \/ Bases!Confirm \/ Bases!CloseModal \/ Bases!Submit
         \/ Bases!WriteRefused \/ Bases!WriteFails \/ \E k \in KB : Bases!AskDelete(k)
  PROVE  BasesInv'
<1>1. BasesType /\ Bases!DeletesWhatIsShown /\ Bases!LoadingIsShown
  BY DEF BasesInv, BasesRows
<1>2. CASE Bases!LoadHandled \/ Bases!LoadAnswered \/ Bases!LoadFails \/ Bases!RetryLoad
  <2>1. UNCHANGED <<slot1, slot2, slot3, slot4, slot5, slot6, slot7, slot8, slot10, slot11>>
    BY <1>2 DEF Bases!LoadHandled, Bases!LoadAnswered, Bases!LoadFails, Bases!RetryLoad,
       Bases!listVars
  <2>2. BasesType' /\ Bases!DeletesWhatIsShown'
    BY <1>1, <2>1 DEF BasesType, Bases!DeletesWhatIsShown, Bases!Current
  <2> QED
    BY <2>1, <2>2, BasesStays
<1>3. CASE Bases!OpenCreate \/ Bases!Confirm \/ Bases!CloseModal
           \/ \E k \in KB : Bases!AskDelete(k)
  <2>1. UNCHANGED <<slot1, slot2, slot3, slot4, slot5, slot6, slot8, slot10, slot11>>
    BY <1>3 DEF Bases!OpenCreate, Bases!Confirm, Bases!CloseModal, Bases!AskDelete, Bases!listVars
  <2>2. slot7' \in [type : {"none", "create", "delete"}, id : KB \cup {None},
                    error : {"none", "already_deleted", "failed"}]
    BY <1>1, <1>3, BasesRecords DEF Bases!OpenCreate, Bases!Confirm, Bases!CloseModal,
       Bases!AskDelete, BasesType
  <2>3. slot7'.type = "delete" /\ slot6 = None => Bases!Current = {}
    BY <1>1, <1>3, BasesRecords DEF Bases!OpenCreate, Bases!Confirm, Bases!CloseModal,
       Bases!AskDelete, Bases!Shown, Bases!LoadingIsShown, Bases!NoModal
  <2>4. slot8 = Bases!NoWrite
    BY <1>1, <1>3, BasesRecords DEF Bases!OpenCreate, Bases!Confirm, Bases!CloseModal,
       Bases!AskDelete, Bases!InLibrary, Bases!DeletesWhatIsShown, BasesType, Bases!NoWrite,
       Bases!NoModal
  <2>5. BasesType'
    <3>1. slot7'.type = "create" => slot6 = None
      BY <1>1, <1>3, BasesRecords DEF Bases!OpenCreate, Bases!Confirm, Bases!CloseModal,
         Bases!AskDelete, Bases!InLibrary, Bases!NoModal
    <3> QED
      BY <1>1, <2>1, <2>2, <3>1 DEF BasesType
  <2>6. Bases!DeletesWhatIsShown'
    BY <1>1, <2>1, <2>3, <2>4 DEF Bases!DeletesWhatIsShown, Bases!Current
  <2> QED
    BY <2>1, <2>5, <2>6, BasesStays
<1>4. CASE Bases!Submit \/ Bases!WriteRefused \/ Bases!WriteFails
  <2>1. UNCHANGED <<slot1, slot2, slot3, slot4, slot5, slot6, slot10>>
        /\ slot7'.type = slot7.type
        /\ slot7' \in [type : {"none", "create", "delete"}, id : KB \cup {None},
                       error : {"none", "already_deleted", "failed"}]
    BY <1>1, <1>4 DEF Bases!Submit, Bases!WriteRefused, Bases!WriteFails, Bases!listVars, BasesType
  <2> DEFINE W == [kind : {"none", "create", "delete"}, id : KB \cup {None},
                   answer : {"none", "ok", "404"}]
  <2>2. /\ slot8' \in W /\ (slot8'.kind = "none" => slot8' = Bases!NoWrite)
        /\ \/ slot8' = Bases!NoWrite /\ (slot11' \/ slot8.answer = "404")
           \/ slot8 = Bases!NoWrite /\ slot8'.answer = "none" /\ slot8'.kind = slot7.type
        /\ (slot11 => slot11') /\ slot11' \in BOOLEAN
    <3>1. CASE Bases!Submit
      <4> DEFINE w == [kind |-> slot7.type, id |-> slot7.id, answer |-> "none"]
      <4>1. slot8' = w /\ slot8 = Bases!NoWrite /\ slot7.type # "none" /\ slot11' = slot11
        BY <3>1 DEF Bases!Submit
      <4>2. w \in W /\ w.kind = slot7.type /\ w.answer = "none"
        BY <1>1 DEF BasesType
      <4> HIDE DEF w, W
      <4> QED
        BY <1>1, <4>1, <4>2 DEF BasesType
    <3>2. CASE Bases!WriteRefused \/ Bases!WriteFails
      <4>1. slot8' = Bases!NoWrite /\ (slot11' \/ slot8.answer = "404") /\ (slot11 => slot11')
            /\ slot11' \in BOOLEAN
        BY <1>1, <3>2 DEF Bases!WriteRefused, Bases!WriteFails, BasesType
      <4> QED
        BY <1>1, <4>1, BasesRecords
    <3> QED
      BY <1>4, <3>1, <3>2
  <2>3. BasesType'
    BY <1>1, <2>1, <2>2 DEF BasesType
  <2>4. Bases!DeletesWhatIsShown'
    BY <1>1, <2>1, <2>2 DEF Bases!DeletesWhatIsShown, Bases!Current
  <2> QED
    BY <2>1, <2>2, <2>3, <2>4, BasesStays
<1> QED
  BY <1>2, <1>3, <1>4

\* The list is asked for again.
LEMMA BasesAsks ==
  ASSUME BasesInv, Bases!Ask("all"), BasesType', slot6' = None,
         slot2' \cap slot10' = {}, Bases!DeletedIsFinal', slot7' = Bases!NoModal,
         slot8' = Bases!NoWrite
  PROVE  BasesInv'
<1>1. ListInv' /\ Bases!Current' # {} /\ Bases!Answers' = {} /\ slot3' /\ ~slot4'
  BY BasesList, ListAsked DEF BasesInv
<1>2. Bases!LoadingIsShown'
  BY <1>1 DEF Bases!LoadingIsShown
<1>3. Bases!DeletesWhatIsShown' /\ Bases!AnswersAreClean' /\ Bases!AnswersAreCurrent'
  BY <1>1 DEF Bases!DeletesWhatIsShown, Bases!AnswersAreClean, Bases!AnswersAreCurrent,
     Bases!NoModal, Bases!NoWrite
<1> QED
  BY <1>1, <1>2, <1>3 DEF BasesInv, BasesRows

LEMMA BasesOpensPage ==
  ASSUME BasesInv, NEW k \in KB, Bases!OpenPage(k) PROVE BasesInv'
<1>1. BasesType /\ Bases!DeletedIsFinal /\ Bases!DeletesWhatIsShown
  BY DEF BasesInv, BasesRows
<1>2. /\ slot6' = k /\ slot1' = <<>> /\ slot2' = {} /\ slot7 = Bases!NoModal
      /\ UNCHANGED <<slot3, slot4, slot5, slot7, slot8, slot10, slot11>> /\ k # None
  BY ListsAssumption DEF Bases!OpenPage, Bases!InLibrary
<1>3. ListInv' /\ Bases!Answers' = {} /\ Bases!Current' = {}
  BY <1>2, BasesList, ListEmpties
<1>4. BasesType'
  BY <1>1, <1>2, BasesRecords DEF BasesType
<1>5. Bases!LoadingIsShown' /\ Bases!AnswersAreClean' /\ Bases!AnswersAreCurrent'
  BY <1>2, <1>3 DEF Bases!LoadingIsShown, Bases!AnswersAreClean, Bases!AnswersAreCurrent
<1>6. Bases!DeletesWhatIsShown' /\ Bases!DeletedIsFinal'
  BY <1>1, <1>2 DEF Bases!DeletesWhatIsShown, Bases!DeletedIsFinal
<1> QED
  BY <1>3, <1>4, <1>5, <1>6 DEF BasesInv, BasesRows

\* A deletion or a creation at the service, by these pages or by others.
LEMMA BasesStores ==
  ASSUME BasesInv, NEW k \in KB, NEW v \in {"kept", "deleted"},
         slot5' = [slot5 EXCEPT ![k] = v],
         v = "kept" => slot5[k] = "absent",
         UNCHANGED <<slot1, slot2, slot3, slot4, slot6, slot7, slot10>>,
         BasesType', slot8'.kind = slot8.kind, slot8'.id = slot8.id,
         slot11 => slot11',
         slot8.kind # "none" \/ slot8' = slot8,
         ~slot11' => /\ slot8.answer = "none"
                     /\ \/ slot8.kind = "create" /\ slot8'.answer = "ok"
                        \/ /\ slot8.kind = "delete" /\ slot8.id = k /\ v = "deleted"
                           /\ slot5[k] = "kept" => slot8'.answer = "ok"
                           /\ slot5[k] # "kept" => slot8'.answer = "404",
         slot8.kind = "delete" => slot8' = slot8 \/ (slot8.id = k /\ v = "deleted")
  PROVE  BasesInv'
<1>1. BasesType /\ ListInv /\ Bases!LoadingIsShown /\ Bases!DeletesWhatIsShown
      /\ Bases!DeletedIsFinal /\ Bases!AnswersAreClean /\ Bases!AnswersAreCurrent
  BY DEF BasesInv, BasesRows
<1>2. ListInv' /\ Bases!Answers' = Bases!Answers /\ Bases!Current' = Bases!Current
  BY <1>1, BasesList, ListStays
<1>3. Bases!LoadingIsShown' /\ Bases!AnswersAreClean'
  BY <1>1, <1>2 DEF Bases!LoadingIsShown, Bases!AnswersAreClean
<1>4. Bases!DeletesWhatIsShown'
  BY <1>1, <1>2 DEF Bases!DeletesWhatIsShown, Bases!NoWrite
<1>5. \A j \in KB : slot5[j] = "deleted" => slot5'[j] = "deleted"
  BY <1>1 DEF BasesType
<1>6. slot5'[k] = v
  BY <1>1 DEF BasesType
<1>7. Bases!DeletedIsFinal'
  BY <1>1, <1>5, <1>6 DEF Bases!DeletedIsFinal
<1>8. Bases!AnswersAreCurrent'
  <2> SUFFICES ASSUME slot6 = None, ~slot11', slot8'.kind = "create" => slot8'.answer # "ok"
               PROVE  /\ \A rows \in Bases!Answers : rows = Bases!Kept'
                      /\ Bases!Current = {} /\ ~slot4 => slot2 \ Bases!Taken' = Bases!Kept'
    BY <1>2 DEF Bases!AnswersAreCurrent
  <2>1. slot8.kind = "delete" /\ slot8.id = k /\ v = "deleted" /\ slot8.answer = "none"
        /\ (slot5[k] = "kept" <=> slot8'.answer = "ok") /\ ~slot11
    <3>1. "404" # "ok"
      OBVIOUS
    <3> QED
      BY <3>1
  <2>2. Bases!Current = {} /\ Bases!Answers = {}
    BY <1>1, <2>1, BasesRecords DEF Bases!DeletesWhatIsShown, Bases!Answers
  <2>3. ~slot4 => slot2 = Bases!Kept
    BY <1>1, <2>1, <2>2 DEF Bases!AnswersAreCurrent, Bases!Taken
  <2>4. Bases!Kept' = Bases!Kept \ {k}
    BY <1>1, <2>1 DEF BasesType, Bases!Kept
  <2>5. Bases!Taken' = IF slot5[k] = "kept" THEN {k} ELSE {}
    BY <2>1 DEF Bases!Taken
  <2>6. slot5[k] # "kept" => k \notin Bases!Kept
    BY DEF Bases!Kept
  <2> QED
    BY <2>2, <2>3, <2>4, <2>5, <2>6
<1> QED
  BY <1>2, <1>3, <1>4, <1>7, <1>8 DEF BasesInv, BasesRows

LEMMA BasesHandles ==
  ASSUME BasesInv, Bases!WriteHandled PROVE BasesInv'
<1> DEFINE v(k) == IF slot8.kind = "create" THEN "kept" ELSE "deleted"
           a(k) == IF slot8.kind = "create" \/ slot5[k] = "kept" THEN "ok" ELSE "404"
<1>1. BasesType /\ Bases!DeletesWhatIsShown
  BY DEF BasesInv, BasesRows
<1>2. PICK k \in KB : /\ Bases!Stored(k) /\ slot5' = [slot5 EXCEPT ![k] = v(k)]
                      /\ slot8' = [slot8 EXCEPT !.answer = a(k)]
  BY DEF Bases!WriteHandled
<1>3. /\ UNCHANGED <<slot1, slot2, slot3, slot4, slot6, slot7, slot10, slot11>>
      /\ slot8 # Bases!NoWrite /\ slot8.answer = "none" /\ slot8.kind \in {"create", "delete"}
  BY <1>1 DEF Bases!WriteHandled, Bases!listVars, BasesType
<1>4. slot8'.kind = slot8.kind /\ slot8'.id = slot8.id /\ slot8'.answer = a(k)
      /\ slot8' \in [kind : {"none", "create", "delete"}, id : KB \cup {None},
                     answer : {"none", "ok", "404"}]
  BY <1>1, <1>2 DEF BasesType
<1>5. slot5' \in [KB -> {"absent", "kept", "deleted"}]
  BY <1>1, <1>2 DEF BasesType
<1>6. BasesType'
  BY <1>1, <1>3, <1>4, <1>5 DEF BasesType
<1>7. slot8.kind = "create" => slot5[k] = "absent" /\ v(k) = "kept" /\ a(k) = "ok"
  BY <1>2 DEF Bases!Stored
<1>8. slot8.kind = "delete" => k = slot8.id /\ v(k) = "deleted"
  BY <1>2 DEF Bases!Stored
<1>9. slot5[k] = "kept" => a(k) = "ok"
  OBVIOUS
<1>10. slot8.kind = "delete" /\ slot5[k] # "kept" => a(k) = "404"
  OBVIOUS
<1>11. v(k) \in {"kept", "deleted"} /\ (v(k) = "kept" => slot8.kind = "create")
  BY <1>3
<1> HIDE DEF v, a
<1> QED
  BY <1>2, <1>3, <1>4, <1>6, <1>7, <1>8, <1>9, <1>10, <1>11, BasesStores

LEMMA BasesOthersDelete ==
  ASSUME BasesInv, NEW k \in KB, Bases!OthersDelete(k) PROVE BasesInv'
<1>1. BasesType /\ slot5[k] = "kept" /\ slot5' = [slot5 EXCEPT ![k] = "deleted"] /\ slot11' = TRUE
      /\ UNCHANGED <<slot1, slot2, slot3, slot4, slot6, slot7, slot8, slot10>>
  BY DEF BasesInv, Bases!OthersDelete, Bases!listVars, Bases!pageVars
<1>2. BasesType'
  BY <1>1 DEF BasesType
<1>3. \/ slot8.kind # "none" \/ slot8' = slot8
  BY <1>1
<1> QED
  BY <1>1, <1>2, <1>3, BasesStores

LEMMA BasesAnswers ==
  ASSUME BasesInv, Bases!WriteAnswered PROVE BasesInv'
<1>1. BasesType /\ Bases!DeletesWhatIsShown /\ ListInv /\ Bases!LoadingIsShown
      /\ Bases!DeletedIsFinal /\ Bases!AnswersAreClean /\ Bases!AnswersAreCurrent
  BY DEF BasesInv, BasesRows
<1>2. slot8' = Bases!NoWrite /\ slot5' = slot5 /\ slot11' = slot11
      /\ Bases!NoWrite.kind = "none"
  BY DEF Bases!WriteAnswered, Bases!NoWrite
<1>3. slot7' = Bases!NoModal
  BY DEF Bases!WriteAnswered, Bases!CreateAnswered, Bases!DeleteAnswered, Bases!Library
<1>4. ASSUME slot6' \in KB \cup {None}, slot3' \in BOOLEAN, slot4' \in BOOLEAN
      PROVE  BasesType'
  BY <1>1, <1>2, <1>3, <1>4, BasesRecords DEF BasesType
<1>5. CASE Bases!CreateAnswered
  <2>1. Bases!Ask("all") /\ slot2' = slot2 /\ slot6' = slot6 /\ slot10' = slot10
        /\ slot8.kind = "create" /\ slot8 # Bases!NoWrite
    BY <1>5, <1>2 DEF Bases!CreateAnswered
  <2>2. slot3' = TRUE /\ slot4' = FALSE /\ slot2 \cap slot10 = {}
    BY <1>1, <2>1 DEF Bases!Ask, Bases!AnswersAreClean
  <2>3. BasesType'
    BY <1>1, <1>4, <2>1, <2>2 DEF BasesType
  <2>4. Bases!DeletedIsFinal'
    BY <1>1, <1>2, <2>1 DEF Bases!DeletedIsFinal
  <2>5. CASE slot6 = None
    BY <1>2, <1>3, <2>1, <2>2, <2>3, <2>4, <2>5, BasesAsks
  <2>6. CASE slot6 # None
    BY <1>1, <2>1, <2>6 DEF BasesType, Bases!DeletesWhatIsShown
  <2> QED
    BY <2>5, <2>6
<1>6. CASE Bases!DeleteAnswered
  <2>1. slot8.kind = "delete" /\ slot8.answer = "ok" /\ slot10' = slot10 \cup {slot8.id}
    BY <1>6 DEF Bases!DeleteAnswered
  <2>2. slot8.id \in KB /\ slot5[slot8.id] = "deleted" /\ Bases!Taken = {slot8.id}
        /\ Bases!Taken' = {}
    BY <1>1, <1>2, <2>1 DEF Bases!DeletedIsFinal, Bases!Taken
  <2>3. Bases!DeletedIsFinal'
    BY <1>1, <1>2, <2>1, <2>2 DEF Bases!DeletedIsFinal
  <2>4. CASE slot6 = None
    <3>1. /\ slot6' = None /\ slot2' = slot2 \ {slot8.id}
          /\ UNCHANGED <<slot1, slot3, slot4>>
      BY <1>6, <2>4 DEF Bases!DeleteAnswered
    <3>2. ListInv' /\ Bases!Answers' = Bases!Answers /\ Bases!Current' = Bases!Current
          /\ Bases!Kept' = Bases!Kept
      BY <1>1, <1>2, <3>1, BasesList, ListStays DEF Bases!Kept
    <3>3. slot8 # Bases!NoWrite /\ slot7.type = "delete"
      BY <1>1, <1>2, <2>1 DEF Bases!DeletesWhatIsShown
    <3>4. Bases!Current = {} /\ Bases!Answers = {}
      BY <1>1, <2>4, <3>3 DEF Bases!DeletesWhatIsShown, Bases!Answers
    <3>5. BasesType' /\ Bases!LoadingIsShown' /\ Bases!DeletesWhatIsShown'
      BY <1>1, <1>2, <1>3, <1>4, <2>4, <3>1, <3>2 DEF BasesType, Bases!LoadingIsShown,
         Bases!DeletesWhatIsShown, Bases!NoModal
    <3>6. Bases!AnswersAreClean'
      BY <1>1, <2>1, <3>1, <3>2, <3>4 DEF Bases!AnswersAreClean
    <3>7. Bases!AnswersAreCurrent'
      BY <1>1, <1>2, <2>1, <2>2, <2>4, <3>1, <3>2, <3>4 DEF Bases!AnswersAreCurrent
    <3> QED
      BY <2>3, <3>2, <3>5, <3>6, <3>7 DEF BasesInv, BasesRows
  <2>5. CASE slot6 # None
    <3>1. slot6' = None /\ slot2' = {} /\ Bases!Ask("all")
      BY <1>6, <2>5 DEF Bases!DeleteAnswered, Bases!Library
    <3>2. slot3' = TRUE /\ slot4' = FALSE
      BY <3>1 DEF Bases!Ask
    <3>3. BasesType'
      BY <1>4, <3>1, <3>2
    <3> QED
      BY <1>2, <1>3, <2>3, <3>1, <3>3, BasesAsks
  <2> QED
    BY <2>4, <2>5
<1> QED
  BY <1>5, <1>6 DEF Bases!WriteAnswered

LEMMA BasesLeaves ==
  ASSUME BasesInv, Bases!Leave \/ Bases!RetryList PROVE BasesInv'
<1>1. BasesType /\ Bases!DeletesWhatIsShown /\ Bases!DeletedIsFinal /\ Bases!AnswersAreClean
  BY DEF BasesInv, BasesRows
<1>2. /\ slot6' = None /\ slot7' = Bases!NoModal /\ Bases!Ask("all")
      /\ slot2' \subseteq slot2 /\ slot7 = Bases!NoModal
      /\ UNCHANGED <<slot5, slot8, slot10, slot11>>
  BY DEF Bases!Leave, Bases!RetryList, Bases!Library, Bases!InLibrary, Bases!pageVars
<1>3. slot8 = Bases!NoWrite
  BY <1>1, <1>2, BasesRecords DEF Bases!DeletesWhatIsShown, BasesType
<1>4. BasesType'
  BY <1>1, <1>2, BasesRecords DEF BasesType, Bases!Ask
<1>5. Bases!DeletedIsFinal'
  BY <1>1, <1>2 DEF Bases!DeletedIsFinal
<1>6. slot2' \cap slot10' = {}
  BY <1>1, <1>2 DEF Bases!AnswersAreClean
<1> QED
  BY <1>2, <1>3, <1>4, <1>5, <1>6, BasesAsks

LEMMA BasesSteps ==
  ASSUME BasesInv, Bases!Next \/ UNCHANGED Bases!vars PROVE BasesInv'
<1>1. CASE UNCHANGED Bases!vars
  <2>1. UNCHANGED <<slot1, slot2, slot3, slot4, slot5, slot6, slot7, slot8, slot10, slot11>>
    BY <1>1 DEF Bases!vars, Bases!listVars, Bases!pageVars
  <2>2. BasesType' /\ Bases!DeletesWhatIsShown'
    BY <2>1 DEF BasesInv, BasesRows, BasesType, Bases!DeletesWhatIsShown, Bases!Current
  <2> QED
    BY <2>1, <2>2, BasesStays
<1>2. ASSUME NEW i \in DOMAIN slot1,
             Bases!ListHandled(i) \/ Bases!ListAnswered(i) \/ Bases!ListFails(i)
      PROVE  BasesInv'
  BY <1>2, BasesListSteps DEF Bases!ListHandled, Bases!ListAnswered, Bases!ListFails,
     Bases!pageVars
<1> QED
  BY <1>1, <1>2, BasesQuietSteps, BasesOpensPage, BasesHandles, BasesOthersDelete, BasesAnswers,
     BasesLeaves DEF Bases!Next

-----------------------------------------------------------------------------
(* The page of the workflows.  slot1 to slot4 are its list, slot5 to slot11 *)
(* are stored, filter, dialog, call, opened, gone and missed.               *)

LEMMA FlowsList ==
  /\ \A q : Flows!Ask(q) <=> List!Ask(q)
  /\ \A i, answer : Flows!Handled(i, answer) <=> List!Handled(i, answer)
  /\ \A i : Flows!Answered(i) <=> List!Answered(i)
  /\ \A i : Flows!Fails(i) <=> List!Fails(i)
  /\ Flows!Current = List!Current /\ Flows!Current' = List!Current'
  /\ Flows!Answers = List!Answers /\ Flows!Answers' = List!Answers'
  /\ Flows!Asked = List!Asked /\ Flows!Asked' = List!Asked'
BY DEF Flows!Ask, Flows!Handled, Flows!Answered, Flows!Fails, Flows!Without,
   Flows!Overtaken, Flows!Request,
   Flows!Current, Flows!Answers, Flows!Asked, List!Ask, List!Handled, List!Answered, List!Fails,
   List!Without, List!Overtaken, List!Request, List!Current, List!Answers, List!Asked

FlowRow == [id : Flow, status : Flows!Status]

FlowsType ==
  /\ slot3 \in BOOLEAN /\ slot4 \in BOOLEAN /\ slot11 \in BOOLEAN /\ slot9 \in Flow \cup {None}
  /\ slot5 \in [Flow -> {"absent", "draft", "inactive", "active", "deleted"}]
  /\ slot2 \subseteq FlowRow /\ \A rows \in Flows!Answers : rows \subseteq FlowRow

FlowsCall ==
  /\ DOMAIN slot8 = {"kind", "id", "answer"} /\ slot8.answer \in {"none", "ok", "refused"}
  /\ slot8.kind \in {"none", "create", "delete", "activate", "deactivate"}
  /\ (slot8.kind = "none" \/ (slot8.kind = "create" /\ slot8.answer = "ok" => slot8.id \in Flow))

FlowsRows == Flows!DeletedIsFinal /\ Flows!AnswersAreClean /\ Flows!AnswersAreCurrent

FlowsInv == ListInv /\ FlowsType /\ FlowsCall /\ Flows!LoadingEnds /\ FlowsRows

LEMMA FlowsTold == FlowsInv => Flows!DeletedStaysAway /\ Flows!ListIsCurrent
<1> SUFFICES ASSUME FlowsInv, Flows!Quiet, slot9 = None
             PROVE  /\ Flows!Ids(Flows!Shown) \cap slot10 = {}
                    /\ slot8 = Flows!NoCall /\ ~slot11 => Flows!Ids(Flows!Shown) = Flows!Kept
  BY DEF Flows!DeletedStaysAway, Flows!ListIsCurrent
<1>1. Flows!Current = {} /\ ~slot4
  BY DEF Flows!Quiet, Flows!Current
<1>2. ~slot3
  BY <1>1 DEF FlowsInv, Flows!LoadingEnds
<1>3. Flows!Shown = slot2
  BY <1>1, <1>2 DEF Flows!Shown
<1>4. slot8 = Flows!NoCall => slot8.kind = "none"
  BY DEF Flows!NoCall
<1> QED
  BY <1>1, <1>3, <1>4 DEF FlowsInv, FlowsRows, Flows!AnswersAreClean, Flows!AnswersAreCurrent

LEMMA FlowsStarts == Flows!Init => FlowsInv
<1> SUFFICES ASSUME Flows!Init PROVE FlowsInv
  OBVIOUS
<1>1. slot1 = <<List!Request("all")>> /\ slot2 = {} /\ slot3 = TRUE /\ slot4 = FALSE
      /\ slot8 = Flows!NoCall /\ slot9 = None /\ slot10 = {} /\ slot11 = FALSE
      /\ slot5 \in [Flow -> {"absent", "draft", "inactive", "active", "deleted"}]
  BY DEF Flows!Init, Flows!ListInit, Flows!Request, List!Request
<1>2. ListInv /\ Flows!Answers = {} /\ Flows!Current # {}
  BY <1>1, ListStarts, FlowsList
<1>3. FlowsType /\ FlowsCall
  BY <1>1, <1>2 DEF FlowsType, FlowsCall, Flows!NoCall
<1>4. Flows!LoadingEnds
  BY <1>2 DEF Flows!LoadingEnds
<1>5. FlowsRows
  BY <1>1, <1>2 DEF FlowsRows, Flows!DeletedIsFinal, Flows!AnswersAreClean,
     Flows!AnswersAreCurrent, Flows!NoCall
<1> QED
  BY <1>2, <1>3, <1>4, <1>5 DEF FlowsInv

\* What leaves the list alone.
LEMMA FlowsStays ==
  ASSUME FlowsInv, UNCHANGED <<slot1, slot2, slot3, slot4, slot9, slot10>>,
         slot5' \in [Flow -> {"absent", "draft", "inactive", "active", "deleted"}],
         slot11' \in BOOLEAN, FlowsCall', Flows!DeletedIsFinal',
         \/ slot11'
         \/ slot8'.kind \in {"create", "delete"} /\ slot8'.answer = "ok"
         \/ /\ Flows!Kept' = Flows!Kept /\ ~slot11
            /\ slot8.kind \in {"create", "delete"} => slot8.answer # "ok"
  PROVE  FlowsInv'
<1>1. FlowsType /\ ListInv /\ Flows!LoadingEnds /\ Flows!AnswersAreClean /\ Flows!AnswersAreCurrent
  BY DEF FlowsInv, FlowsRows
<1>2. ListInv' /\ Flows!Answers' = Flows!Answers /\ Flows!Current' = Flows!Current
  BY <1>1, FlowsList, ListStays
<1>3. FlowsType' /\ Flows!LoadingEnds'
  BY <1>1, <1>2 DEF FlowsType, Flows!LoadingEnds
<1>4. Flows!AnswersAreClean'
  BY <1>1, <1>2 DEF Flows!AnswersAreClean, Flows!Ids
<1>5. Flows!AnswersAreCurrent'
  BY <1>1, <1>2 DEF Flows!AnswersAreCurrent, Flows!Ids
<1> QED
  BY <1>2, <1>3, <1>4, <1>5 DEF FlowsInv, FlowsRows

LEMMA FlowsListSteps ==
  ASSUME FlowsInv, UNCHANGED <<slot5, slot8, slot9, slot10, slot11>>, NEW i \in DOMAIN slot1,
         \/ Flows!Handled(i, Flows!Rows) \/ Flows!Fails(i)
         \/ /\ List!Answered(i) \/ (slot4' = FALSE /\ slot1[i].active)
            /\ slot1' = List!Without(slot1, i) /\ slot1[i].handled
            /\ slot1[i].active => slot2' = slot1[i].answer /\ slot3' = FALSE
  PROVE  FlowsInv'
<1>1. FlowsType /\ FlowsCall /\ ListInv /\ Flows!LoadingEnds /\ Flows!DeletedIsFinal
      /\ Flows!AnswersAreClean /\ Flows!AnswersAreCurrent
  BY DEF FlowsInv, FlowsRows
<1>2. Flows!DeletedIsFinal' /\ FlowsCall' /\ Flows!Kept' = Flows!Kept
  BY <1>1 DEF Flows!DeletedIsFinal, FlowsCall, Flows!Kept
<1>3. Flows!Ids(Flows!Rows) = Flows!Kept /\ Flows!Rows \subseteq FlowRow
      /\ Flows!Ids(Flows!Rows) \cap slot10 = {}
  <2> DEFINE row(f) == [id |-> f, status |-> slot5[f]]
  <2>1. \A f : row(f).id = f
    OBVIOUS
  <2>2. \A f \in Flows!Kept : row(f) \in FlowRow
    BY DEF FlowRow, Flows!Kept
  <2>3. Flows!Rows = {row(f) : f \in Flows!Kept}
    BY DEF Flows!Rows
  <2> HIDE DEF row
  <2>4. Flows!Ids(Flows!Rows) = Flows!Kept /\ Flows!Rows \subseteq FlowRow
    BY <2>1, <2>2, <2>3 DEF Flows!Ids
  <2>5. Flows!Kept \cap slot10 = {}
    BY <1>1 DEF Flows!Kept, Flows!Status, Flows!DeletedIsFinal
  <2> QED
    BY <2>4, <2>5
<1>4. CASE Flows!Handled(i, Flows!Rows)
  <2>1. ListInv' /\ Flows!Current' = Flows!Current
        /\ Flows!Answers' \subseteq Flows!Answers \cup {Flows!Rows}
        /\ slot2' = slot2 /\ slot3' = slot3 /\ slot4' = slot4
    BY <1>1, <1>4, FlowsList, ListHandled
  <2>2. FlowsType' /\ Flows!LoadingEnds'
    BY <1>1, <1>3, <2>1 DEF FlowsType, Flows!LoadingEnds
  <2>3. Flows!AnswersAreClean'
    BY <1>1, <1>3, <2>1 DEF Flows!AnswersAreClean, Flows!Ids
  <2>4. Flows!AnswersAreCurrent'
    BY <1>1, <1>2, <1>3, <2>1 DEF Flows!AnswersAreCurrent, Flows!Ids
  <2> QED
    BY <1>2, <2>1, <2>2, <2>3, <2>4 DEF FlowsInv, FlowsRows
<1>5. ASSUME ~Flows!Handled(i, Flows!Rows) PROVE FlowsInv'
  <2>1. /\ ListInv' /\ slot3' \in BOOLEAN /\ slot4' \in BOOLEAN
        /\ \/ /\ Flows!Current' = {} /\ Flows!Answers' = {} /\ slot3' = FALSE
              /\ slot2' \in Flows!Answers
           \/ /\ Flows!Current' = {} /\ Flows!Answers' = {} /\ slot3' = FALSE
              /\ slot2' = slot2 /\ slot4' = TRUE
           \/ /\ Flows!Answers' = Flows!Answers /\ (Flows!Current' = {} <=> Flows!Current = {})
              /\ slot2' = slot2 /\ slot3' = slot3 /\ slot4' = slot4
    <3>1. CASE Flows!Fails(i)
      BY <1>1, <3>1, FlowsList, ListFailed DEF Overtaken, FlowsType
    <3>2. CASE List!Answered(i)
      BY <1>1, <3>2, FlowsList, ListAnswered DEF Overtaken, FlowsType
    <3>3. CASE slot4' = FALSE /\ slot1[i].active /\ slot1' = List!Without(slot1, i)
               /\ slot1[i].handled /\ slot2' = slot1[i].answer /\ slot3' = FALSE
      <4>1. slot1[i].answer \in List!Answers
        BY <3>3 DEF List!Answers, List!Current
      <4>2. ListInv' /\ List!Answers' = {} /\ List!Current' = {}
        BY <1>1, <3>3, ListDrops
      <4> QED
        BY <3>3, <4>1, <4>2, FlowsList
    <3> QED
      BY <1>5, <3>1, <3>2, <3>3
  <2>2. FlowsType' /\ Flows!LoadingEnds'
    BY <1>1, <2>1 DEF FlowsType, Flows!LoadingEnds
  <2>3. Flows!AnswersAreClean'
    BY <1>1, <2>1 DEF Flows!AnswersAreClean, Flows!Ids
  <2>4. Flows!AnswersAreCurrent'
    BY <1>1, <1>2, <2>1 DEF Flows!AnswersAreCurrent, Flows!Ids
  <2> QED
    BY <1>2, <2>1, <2>2, <2>3, <2>4 DEF FlowsInv, FlowsRows
<1> QED
  BY <1>4, <1>5

\* The list is asked for again, or left.
LEMMA FlowsAsks ==
  ASSUME FlowsInv, UNCHANGED <<slot2, slot5, slot11>>, FlowsCall', Flows!DeletedIsFinal',
         slot3' \in BOOLEAN, slot4' \in BOOLEAN, slot9' \in Flow \cup {None},
         \/ slot1' = Append(List!Overtaken, List!Request("all"))
         \/ slot1' = <<>> /\ slot9' # None
  PROVE  FlowsInv'
<1>1. ListInv' /\ Flows!Answers' = {} /\ (slot9' = None => Flows!Current' # {})
  BY ListAsks, ListEmpties, FlowsList DEF FlowsInv
<1>2. FlowsType' /\ Flows!LoadingEnds'
  BY <1>1 DEF FlowsInv, FlowsType, Flows!LoadingEnds
<1>3. Flows!AnswersAreClean' /\ Flows!AnswersAreCurrent'
  BY <1>1 DEF Flows!AnswersAreClean, Flows!AnswersAreCurrent
<1> QED
  BY <1>1, <1>2, <1>3 DEF FlowsInv, FlowsRows

LEMMA FlowsRecords ==
  /\ Flows!NoCall.kind = "none" /\ Flows!NoCall.answer = "none" /\ Flows!NoCall.id = None
  /\ DOMAIN Flows!NoCall = {"kind", "id", "answer"}
BY DEF Flows!NoCall

\* The actions that leave the list and what is stored.
LEMMA FlowsQuietSteps ==
  ASSUME FlowsInv, UNCHANGED <<slot1, slot2, slot3, slot4, slot5, slot9, slot10>>,
         \/ slot8' = slot8 /\ slot11' = slot11
         \/ \E kind \in {"create", "delete", "activate", "deactivate"} : \E id :
              slot8' = [kind |-> kind, id |-> id, answer |-> "none"] /\ slot11' = slot11
              /\ slot8 = Flows!NoCall
         \/ slot8 # Flows!NoCall /\ slot8' = [slot8 EXCEPT !.answer = "refused"] /\ slot11' = slot11
            /\ slot8.answer = "none"
         \/ slot8.answer = "refused" /\ slot8' = Flows!NoCall /\ slot11' = slot11
         \/ slot8' = Flows!NoCall /\ slot11' = TRUE
  PROVE  FlowsInv'
<1>1. FlowsType /\ FlowsCall /\ Flows!DeletedIsFinal /\ Flows!AnswersAreCurrent
  BY DEF FlowsInv, FlowsRows
<1>2. Flows!Kept' = Flows!Kept
  BY DEF Flows!Kept
<1>3. CASE slot8' = slot8 /\ slot11' = slot11
  <2>1. FlowsCall' /\ Flows!DeletedIsFinal' /\ slot11' \in BOOLEAN
    BY <1>1, <1>3 DEF FlowsCall, Flows!DeletedIsFinal, FlowsType
  <2> QED
    BY <1>1, <1>2, <1>3, <2>1, FlowsStays DEF FlowsType
<1>4. ASSUME NEW kind \in {"create", "delete", "activate", "deactivate"}, NEW id,
             slot8' = [kind |-> kind, id |-> id, answer |-> "none"], slot11' = slot11,
             slot8 = Flows!NoCall
      PROVE  FlowsInv'
  <2>1. slot8'.kind = kind /\ slot8'.answer = "none" /\ slot8.kind = "none"
    BY <1>4, FlowsRecords
  <2>2. FlowsCall' /\ Flows!DeletedIsFinal'
    BY <1>1, <1>4, <2>1 DEF FlowsCall, Flows!DeletedIsFinal
  <2> QED
    BY <1>1, <1>2, <1>4, <2>1, <2>2, FlowsStays DEF FlowsType
<1>5. CASE slot8 # Flows!NoCall /\ slot8' = [slot8 EXCEPT !.answer = "refused"]
           /\ slot11' = slot11 /\ slot8.answer = "none"
  <2>1. slot8'.answer = "refused" /\ slot8'.kind = slot8.kind
    BY <1>1, <1>5 DEF FlowsCall
  <2>2. FlowsCall' /\ Flows!DeletedIsFinal'
    BY <1>1, <1>5, <2>1 DEF FlowsCall, Flows!DeletedIsFinal
  <2> QED
    BY <1>1, <1>2, <1>5, <2>1, <2>2, FlowsStays DEF FlowsType
<1>6. CASE slot8.answer = "refused" /\ slot8' = Flows!NoCall /\ slot11' = slot11
  <2>1. FlowsCall' /\ Flows!DeletedIsFinal'
    BY <1>1, <1>6, FlowsRecords DEF FlowsCall, Flows!DeletedIsFinal
  <2> QED
    BY <1>1, <1>2, <1>6, <2>1, FlowsStays DEF FlowsType
<1>7. CASE slot8' = Flows!NoCall /\ slot11' = TRUE
  <2>1. FlowsCall' /\ Flows!DeletedIsFinal'
    BY <1>1, <1>7, FlowsRecords DEF FlowsCall, Flows!DeletedIsFinal
  <2> QED
    BY <1>1, <1>2, <1>7, <2>1, FlowsStays DEF FlowsType
<1> QED
  BY <1>3, <1>4, <1>5, <1>6, <1>7

LEMMA FlowsHandles ==
  ASSUME FlowsInv, Flows!Handle PROVE FlowsInv'
<1>1. FlowsType /\ FlowsCall /\ Flows!DeletedIsFinal
  BY DEF FlowsInv, FlowsRows
<1>2. PICK f \in Flow : Flows!Effect(f) /\ slot8' = [slot8 EXCEPT !.answer = "ok", !.id = f]
  BY DEF Flows!Handle
<1>3. UNCHANGED <<slot1, slot2, slot3, slot4, slot9, slot10, slot11>>
  BY DEF Flows!Handle, Flows!listVars
<1>4. slot8'.kind = slot8.kind /\ slot8'.answer = "ok" /\ slot8'.id = f /\ FlowsCall'
  BY <1>1, <1>2 DEF FlowsCall
<1>5. PICK s \in {"draft", "deleted", "active", "inactive"} :
        /\ slot5' = [slot5 EXCEPT ![f] = s] /\ slot5[f] # "deleted"
        /\ slot8.kind = "delete" => s = "deleted"
        /\ \/ slot8.kind \in {"create", "delete"}
           \/ slot5[f] \in Flows!Status /\ s \in Flows!Status /\ slot8.kind \notin {"create", "delete"}
  BY <1>1, <1>2 DEF Flows!Effect, Flows!Status
<1>6. slot5' \in [Flow -> {"absent", "draft", "inactive", "active", "deleted"}]
      /\ slot5'[f] = s /\ \A g \in Flow \ {f} : slot5'[g] = slot5[g]
  BY <1>1, <1>5 DEF FlowsType
<1>7. Flows!DeletedIsFinal'
  BY <1>1, <1>3, <1>4, <1>5, <1>6 DEF Flows!DeletedIsFinal
<1>8. slot8.kind \notin {"create", "delete"} => Flows!Kept' = Flows!Kept
  BY <1>5, <1>6 DEF Flows!Kept
<1> QED
  BY <1>1, <1>3, <1>4, <1>6, <1>7, <1>8, FlowsStays DEF FlowsType

LEMMA FlowsOthersChange ==
  ASSUME FlowsInv, NEW f \in Flow, Flows!OthersChange(f) PROVE FlowsInv'
<1>1. FlowsType /\ FlowsCall /\ Flows!DeletedIsFinal
  BY DEF FlowsInv, FlowsRows
<1>2. PICK s \in {"active", "inactive", "deleted"} : slot5' = [slot5 EXCEPT ![f] = s]
  BY DEF Flows!OthersChange
<1>3. UNCHANGED <<slot1, slot2, slot3, slot4, slot8, slot9, slot10>> /\ slot11' = TRUE
      /\ slot5[f] # "deleted"
  BY DEF Flows!OthersChange, Flows!listVars, Flows!Kept, Flows!Status
<1>4. slot5' \in [Flow -> {"absent", "draft", "inactive", "active", "deleted"}]
      /\ \A g \in Flow \ {f} : slot5'[g] = slot5[g]
  BY <1>1, <1>2 DEF FlowsType
<1>5. Flows!DeletedIsFinal' /\ FlowsCall'
  BY <1>1, <1>3, <1>4 DEF Flows!DeletedIsFinal, FlowsCall
<1> QED
  BY <1>3, <1>4, <1>5, FlowsStays

\* Switching a row changes its status and no row's workflow.
LEMMA FlowsSwitches ==
  ASSUME FlowsInv, Flows!Switched, slot8' = Flows!NoCall,
         UNCHANGED <<slot3, slot4, slot5, slot11>>
  PROVE  FlowsInv'
<1>1. FlowsType /\ FlowsCall /\ ListInv /\ Flows!LoadingEnds /\ Flows!DeletedIsFinal
      /\ Flows!AnswersAreClean /\ Flows!AnswersAreCurrent
  BY DEF FlowsInv, FlowsRows
<1>2. UNCHANGED <<slot1, slot9, slot10>> /\ slot8.kind \in {"activate", "deactivate"}
  BY DEF Flows!Switched
<1>3. ListInv' /\ Flows!Answers' = Flows!Answers /\ Flows!Current' = Flows!Current
  BY <1>1, <1>2, FlowsList, ListStays
<1> DEFINE s == IF slot8.kind = "activate" THEN "active" ELSE "inactive"
           new(r) == IF r.id = slot8.id THEN [r EXCEPT !.status = s] ELSE r
<1>4. \A r \in FlowRow : new(r) \in FlowRow /\ new(r).id = r.id
  <2> SUFFICES ASSUME NEW r \in FlowRow PROVE new(r) \in FlowRow /\ new(r).id = r.id
    OBVIOUS
  <2>1. s \in Flows!Status
    BY DEF Flows!Status
  <2> HIDE DEF s
  <2>2. [r EXCEPT !.status = s] \in FlowRow /\ [r EXCEPT !.status = s].id = r.id
    BY <2>1 DEF FlowRow
  <2> QED
    BY <2>2
<1>5. slot2' = {new(r) : r \in slot2}
  BY DEF Flows!Switched
<1> HIDE DEF new
<1>6. slot2' \subseteq FlowRow /\ {r.id : r \in slot2'} = {r.id : r \in slot2}
  BY <1>1, <1>4, <1>5 DEF FlowsType
<1>7. Flows!Ids(slot2)' = Flows!Ids(slot2) /\ Flows!Kept' = Flows!Kept
  BY <1>6 DEF Flows!Ids, Flows!Kept
<1>8. \A rows : Flows!Ids(rows) = {r.id : r \in rows}
  BY DEF Flows!Ids
<1>9. FlowsType' /\ FlowsCall' /\ Flows!LoadingEnds'
  BY <1>1, <1>2, <1>3, <1>6, FlowsRecords DEF FlowsType, FlowsCall, Flows!LoadingEnds
<1>10. Flows!DeletedIsFinal'
  BY <1>1, <1>2, FlowsRecords DEF Flows!DeletedIsFinal
<1>11. Flows!AnswersAreClean'
  BY <1>1, <1>2, <1>3, <1>6 DEF Flows!AnswersAreClean, Flows!Ids
<1>12. Flows!AnswersAreCurrent'
  BY <1>1, <1>2, <1>3, <1>6, <1>7, FlowsRecords DEF Flows!AnswersAreCurrent, Flows!Ids
<1> QED
  BY <1>3, <1>9, <1>10, <1>11, <1>12 DEF FlowsInv, FlowsRows

LEMMA FlowsAnswers ==
  ASSUME FlowsInv, Flows!CallAnswered PROVE FlowsInv'
<1>1. FlowsType /\ FlowsCall /\ Flows!DeletedIsFinal
  BY DEF FlowsInv, FlowsRows
<1>2. slot8' = Flows!NoCall /\ UNCHANGED <<slot3, slot4, slot5, slot11>> /\ FlowsCall'
      /\ slot8'.kind = "none"
  BY FlowsRecords DEF Flows!CallAnswered, FlowsCall
<1>3. CASE Flows!Created
  <2>1. slot1' = <<>> /\ slot9' \in Flow /\ UNCHANGED <<slot2, slot10>>
    BY <1>1, <1>3 DEF Flows!Created, FlowsCall
  <2>2. Flows!DeletedIsFinal'
    BY <1>1, <1>2, <2>1 DEF Flows!DeletedIsFinal
  <2> QED
    BY <1>1, <1>2, <2>1, <2>2, FlowsAsks, ListsAssumption DEF FlowsType
<1>4. CASE Flows!DeletedRow
  <2>1. slot1' = Append(List!Overtaken, List!Request("all")) /\ slot10' = slot10 \cup {slot8.id}
        /\ UNCHANGED <<slot2, slot9>> /\ slot8.kind = "delete" /\ slot8.answer = "ok"
    BY <1>4 DEF Flows!DeletedRow, Flows!Reload, Flows!Overtaken, Flows!Request, List!Overtaken,
       List!Request
  <2>2. Flows!DeletedIsFinal'
    BY <1>1, <1>2, <2>1 DEF Flows!DeletedIsFinal
  <2> QED
    BY <1>1, <1>2, <2>1, <2>2, FlowsAsks DEF FlowsType
<1>5. CASE Flows!Switched
  BY <1>2, <1>5, FlowsSwitches
<1> QED
  BY <1>3, <1>4, <1>5 DEF Flows!CallAnswered

LEMMA FlowsAsksAgain ==
  ASSUME FlowsInv, Flows!Retry \/ \E r \in slot2 : Flows!OpenFlow(r) PROVE FlowsInv'
<1>1. FlowsType /\ FlowsCall /\ Flows!DeletedIsFinal
  BY DEF FlowsInv, FlowsRows
<1>2. UNCHANGED <<slot2, slot5, slot8, slot10, slot11>> /\ slot3' \in BOOLEAN /\ slot4' \in BOOLEAN
  BY <1>1 DEF Flows!Retry, Flows!OpenFlow, Flows!Ask, FlowsType
<1>3. FlowsCall' /\ Flows!DeletedIsFinal'
  BY <1>1, <1>2 DEF FlowsCall, Flows!DeletedIsFinal
<1>4. CASE Flows!Retry
  <2>1. slot1' = Append(List!Overtaken, List!Request("all")) /\ slot9' = slot9
    BY <1>4 DEF Flows!Retry, Flows!Ask, Flows!Overtaken, Flows!Request, List!Overtaken, List!Request
  <2> QED
    BY <1>1, <1>2, <1>3, <2>1, FlowsAsks DEF FlowsType
<1>5. ASSUME NEW r \in slot2, Flows!OpenFlow(r) PROVE FlowsInv'
  <2>1. slot1' = <<>> /\ slot9' = r.id
    BY <1>5 DEF Flows!OpenFlow
  <2>2. slot9' \in Flow
    BY <1>1, <1>5, <2>1 DEF FlowsType, FlowRow
  <2> QED
    BY <1>2, <1>3, <2>1, <2>2, FlowsAsks, ListsAssumption
<1> QED
  BY <1>4, <1>5

LEMMA FlowsSteps ==
  ASSUME FlowsInv, Flows!Next \/ UNCHANGED Flows!vars PROVE FlowsInv'
<1>2. ASSUME NEW i \in DOMAIN slot1,
             Flows!ListHandled(i) \/ Flows!ListAnswered(i) \/ Flows!ListFails(i)
      PROVE  FlowsInv'
  <2>1. UNCHANGED <<slot5, slot8, slot9, slot10, slot11>>
    BY <1>2 DEF Flows!ListHandled, Flows!ListAnswered, Flows!ListFails
  <2>2. CASE Flows!ListAnswered(i)
    <3>1. slot1' = List!Without(slot1, i) /\ slot1[i].handled
      BY <2>2 DEF Flows!ListAnswered, Flows!Without, List!Without
    <3>2. CASE slot1[i].active
      BY <2>1, <2>2, <3>1, <3>2, FlowsListSteps DEF Flows!ListAnswered
    <3>3. CASE ~slot1[i].active
      <4>1. List!Answered(i)
        BY <2>2, <3>1, <3>3 DEF Flows!ListAnswered, List!Answered
      <4> QED
        BY <2>1, <3>1, <3>3, <4>1, FlowsListSteps
    <3> QED
      BY <3>2, <3>3
  <2> QED
    BY <1>2, <2>1, <2>2, FlowsListSteps DEF Flows!ListHandled, Flows!ListFails
<1>3. CASE UNCHANGED Flows!vars
  BY <1>3, FlowsQuietSteps DEF Flows!vars, Flows!listVars
<1>4. CASE \/ \E status : Flows!Filter(status)
           \/ \E r \in slot2 : Flows!AskDelete(r) \/ Flows!AskSwitch(r)
           \/ Flows!OpenCreate \/ Flows!Close \/ Flows!RowLost
  <2>1. UNCHANGED <<slot1, slot2, slot3, slot4, slot5, slot8, slot9, slot10, slot11>>
    BY <1>4 DEF Flows!Filter, Flows!AskDelete, Flows!AskSwitch, Flows!OpenCreate, Flows!Close,
       Flows!RowLost, Flows!listVars
  <2> QED
    BY <2>1, FlowsQuietSteps
<1>5. ASSUME NEW kind \in {"create", "delete", "activate", "deactivate"}, NEW id, Flows!Begin(kind, id)
      PROVE  FlowsInv'
  BY <1>5, FlowsQuietSteps DEF Flows!Begin, Flows!listVars
<1>6. CASE Flows!Create
  BY <1>5, <1>6 DEF Flows!Create
<1>7. CASE Flows!Delete
  BY <1>5, <1>7 DEF Flows!Delete
<1>8. ASSUME NEW r \in slot2, Flows!ToggleStatus(r) PROVE FlowsInv'
  BY <1>5, <1>8 DEF Flows!ToggleStatus
<1>9. CASE Flows!Refuse
  BY <1>9, FlowsQuietSteps DEF Flows!Refuse, Flows!Answerable, Flows!listVars
<1>10. CASE Flows!CallRefused
  BY <1>10, FlowsQuietSteps DEF Flows!CallRefused, Flows!listVars
<1>11. CASE Flows!CallFails
  BY <1>11, FlowsQuietSteps DEF Flows!CallFails, Flows!listVars
<1> QED
  BY <1>2, <1>3, <1>4, <1>6, <1>7, <1>8, <1>9, <1>10, <1>11, FlowsHandles, FlowsOthersChange,
     FlowsAnswers, FlowsAsksAgain DEF Flows!Next

-----------------------------------------------------------------------------
(* The page of the AI connections.  slot1 to slot4 are its list, slot5 to   *)
(* slot12 are kept, dialog, draft, requestId, inspected, answered, write    *)
(* and removed.                                                             *)

LEMMA AiConnsList ==
  /\ \A q : AiConns!Ask(q) <=> List!Ask(q)
  /\ \A i, answer : AiConns!Handled(i, answer) <=> List!Handled(i, answer)
  /\ \A i : AiConns!Answered(i) <=> List!Answered(i)
  /\ \A i : AiConns!Fails(i) <=> List!Fails(i)
  /\ AiConns!Current = List!Current /\ AiConns!Current' = List!Current'
  /\ AiConns!Answers = List!Answers /\ AiConns!Answers' = List!Answers'
  /\ AiConns!Asked = List!Asked /\ AiConns!Asked' = List!Asked'
BY DEF AiConns!Ask, AiConns!Handled, AiConns!Answered, AiConns!Fails, AiConns!Without,
   AiConns!Overtaken, AiConns!Request,
   AiConns!Current, AiConns!Answers, AiConns!Asked, List!Ask, List!Handled, List!Answered,
   List!Fails,
   List!Without, List!Overtaken, List!Request, List!Current, List!Answers, List!Asked

AiType ==
  /\ slot3 \in BOOLEAN /\ slot4 \in BOOLEAN /\ slot12 \subseteq Ai
  /\ slot5 = [a \in Ai |-> slot5[a]]
  /\ \A rows \in AiConns!Answers \cup {slot2} : \A r \in rows : r.id \in Ai
  /\ slot6.type = "delete" => slot6.id \in Ai
  /\ DOMAIN slot11 = {"kind", "id", "status", "answer"}
  /\ slot11.kind = "delete" => slot11.id \in Ai

AiListInv == ListInv /\ AiType /\ AiConns!DeletedIsFinal /\ AiConns!AnswersAreClean

LEMMA AiListTold == AiListInv => AiConns!DeletedStaysAway
BY DEF AiListInv, AiConns!AnswersAreClean, AiConns!DeletedStaysAway

LEMMA AiRecords ==
  /\ AiConns!NoDialog.type = "none" /\ AiConns!NoDialog.id = None
  /\ DOMAIN AiConns!NoWrite = {"kind", "id", "status", "answer"}
  /\ AiConns!NoWrite.kind = "none" /\ AiConns!NoWrite.answer = "none"
  /\ AiConns!NoAnswer.kind = "none"
BY DEF AiConns!NoDialog, AiConns!NoWrite, AiConns!NoAnswer

LEMMA AiListStarts == AiConns!Init => AiListInv
<1> SUFFICES ASSUME AiConns!Init PROVE AiListInv
  OBVIOUS
<1>1. slot1 = <<List!Request("all")>> /\ slot2 = {} /\ slot3 = TRUE /\ slot4 = FALSE
      /\ slot5 \in [Ai -> {"active", "absent"}] /\ slot6 = AiConns!NoDialog
      /\ slot11 = AiConns!NoWrite /\ slot12 = {}
  BY DEF AiConns!Init, AiConns!ListInit, AiConns!Request, List!Request
<1>2. ListInv /\ AiConns!Answers = {}
  BY <1>1, ListStarts, AiConnsList
<1>3. AiType
  BY <1>1, <1>2, AiRecords DEF AiType
<1>4. AiConns!DeletedIsFinal /\ AiConns!AnswersAreClean
  BY <1>1, <1>2, AiRecords DEF AiConns!DeletedIsFinal, AiConns!AnswersAreClean, AiConns!Shown
<1> QED
  BY <1>2, <1>3, <1>4 DEF AiListInv

\* What leaves the list and what was heard of it alone.
LEMMA AiStays ==
  ASSUME AiListInv, UNCHANGED <<slot1, slot2, slot3, slot4, slot12>>,
         slot5' = [a \in Ai |-> slot5'[a]],
         \A a \in Ai : slot5[a] = "deleted" => slot5'[a] = "deleted",
         slot6'.type = "delete" => slot6'.id \in Ai,
         DOMAIN slot11' = {"kind", "id", "status", "answer"},
         slot11'.kind = "delete" => slot11'.id \in Ai,
         slot11'.kind = "delete" /\ slot11'.answer = "ok" => slot5'[slot11'.id] = "deleted"
  PROVE  AiListInv'
<1>1. ListInv /\ AiType /\ AiConns!DeletedIsFinal /\ AiConns!AnswersAreClean
  BY DEF AiListInv
<1>2. ListInv' /\ AiConns!Answers' = AiConns!Answers /\ AiConns!Shown' = AiConns!Shown
  BY <1>1, AiConnsList, ListStays DEF AiConns!Shown
<1>3. AiType' /\ AiConns!AnswersAreClean'
  BY <1>1, <1>2 DEF AiType, AiConns!AnswersAreClean
<1>4. AiConns!DeletedIsFinal'
  BY <1>1 DEF AiConns!DeletedIsFinal, AiType
<1> QED
  BY <1>2, <1>3, <1>4 DEF AiListInv

LEMMA AiListMoves ==
  ASSUME AiListInv, NEW i \in DOMAIN slot1, UNCHANGED <<slot5, slot6, slot11, slot12>>,
         AiConns!Handled(i, AiConns!Rows) \/ AiConns!Answered(i) \/ AiConns!Fails(i)
  PROVE  AiListInv'
<1>1. ListInv /\ AiType /\ AiConns!DeletedIsFinal /\ AiConns!AnswersAreClean
  BY DEF AiListInv
<1>2. AiConns!DeletedIsFinal'
  BY <1>1 DEF AiConns!DeletedIsFinal
<1>3. \A r \in AiConns!Rows : r.id \in Ai /\ r.id \notin slot12
  <2> DEFINE row(a) == [id |-> a, status |-> slot5[a]]
  <2>1. \A a : row(a).id = a
    OBVIOUS
  <2>2. \A r \in AiConns!Rows : \E a \in Ai : slot5[a] \in AiConns!Status /\ r = row(a)
    BY DEF AiConns!Rows
  <2> HIDE DEF row
  <2> QED
    BY <1>1, <2>1, <2>2 DEF AiConns!DeletedIsFinal, AiConns!Status
<1>4. /\ ListInv' /\ slot3' \in BOOLEAN /\ slot4' \in BOOLEAN
      /\ AiConns!Answers' \subseteq AiConns!Answers \cup {AiConns!Rows}
      /\ \/ slot2' \in AiConns!Answers
         \/ slot2' = slot2 /\ slot4'
         \/ slot2' = slot2 /\ slot3' = slot3 /\ slot4' = slot4
  <2>1. CASE AiConns!Handled(i, AiConns!Rows)
    BY <1>1, <2>1, AiConnsList, ListHandled DEF AiType
  <2>2. CASE AiConns!Answered(i)
    BY <1>1, <2>2, AiConnsList, ListAnswered DEF AiType, Overtaken
  <2>3. CASE AiConns!Fails(i)
    BY <1>1, <2>3, AiConnsList, ListFailed DEF AiType, Overtaken
  <2> QED
    BY <2>1, <2>2, <2>3
<1>5. AiType'
  BY <1>1, <1>3, <1>4 DEF AiType
<1>6. AiConns!AnswersAreClean'
  <2>1. \A r \in AiConns!Shown' : r.id \notin slot12
    BY <1>1, <1>4 DEF AiConns!AnswersAreClean, AiConns!Shown
  <2> QED
    BY <1>1, <1>3, <1>4, <2>1 DEF AiConns!AnswersAreClean
<1> QED
  BY <1>2, <1>4, <1>5, <1>6 DEF AiListInv

LEMMA AiAsks ==
  ASSUME AiListInv, AiConns!Ask("all"), slot2' = slot2, slot5' = slot5, slot12' \subseteq Ai,
         \A a \in slot12' : slot5[a] = "deleted", slot6' = AiConns!NoDialog,
         slot11' = AiConns!NoWrite \/ slot11' = slot11
  PROVE  AiListInv'
<1>1. ListInv' /\ AiConns!Answers' = {} /\ slot3' = TRUE /\ slot4' = FALSE
  BY AiConnsList, ListAsked DEF AiListInv
<1>2. AiType'
  BY <1>1, AiRecords DEF AiListInv, AiType
<1>3. AiConns!DeletedIsFinal' /\ AiConns!AnswersAreClean'
  BY <1>1, AiRecords DEF AiListInv, AiConns!DeletedIsFinal, AiConns!AnswersAreClean, AiConns!Shown
<1> QED
  BY <1>1, <1>2, <1>3 DEF AiListInv

LEMMA AiHandles ==
  ASSUME AiListInv, AiConns!WriteHandled PROVE AiListInv'
<1>1. AiType /\ AiConns!DeletedIsFinal
  BY DEF AiListInv
<1>2. UNCHANGED <<slot1, slot2, slot3, slot4, slot6, slot12>> /\ slot11.answer = "none"
  BY DEF AiConns!WriteHandled, AiConns!listVars, AiConns!dialogVars
<1>3. PICK answer \in {"ok", "404"} : slot11' = [slot11 EXCEPT !.answer = answer]
  BY DEF AiConns!WriteHandled
<1>4. DOMAIN slot11' = {"kind", "id", "status", "answer"} /\ slot11'.kind = slot11.kind
      /\ slot11'.id = slot11.id /\ slot11'.answer = answer
  BY <1>1, <1>3 DEF AiType
<1>5. CASE slot5' = slot5 /\ answer = "404"
  BY <1>1, <1>2, <1>4, <1>5, AiStays DEF AiType
<1>6. CASE slot11.kind = "create"
  <2>1. PICK a \in Ai : slot5[a] = "absent" /\ slot5' = [slot5 EXCEPT ![a] = "active"]
    BY <1>6 DEF AiConns!WriteHandled
  <2>2. slot5' = [b \in Ai |-> slot5'[b]] /\ \A b \in Ai : slot5[b] = "deleted" => slot5'[b] = "deleted"
    BY <1>1, <2>1 DEF AiType
  <2> QED
    BY <1>1, <1>2, <1>4, <1>6, <2>2, AiStays DEF AiType
<1>7. CASE slot11.kind # "create" /\ slot5[slot11.id] \in AiConns!Status
  <2> DEFINE v == IF slot11.kind = "delete" THEN "deleted" ELSE slot11.status
  <2>1. slot5' = [slot5 EXCEPT ![slot11.id] = v]
    BY <1>7 DEF AiConns!WriteHandled
  <2>2. slot5[slot11.id] # "deleted"
    BY <1>7 DEF AiConns!Status
  <2>3. slot11.kind = "delete" => v = "deleted"
    OBVIOUS
  <2> HIDE DEF v
  <2>4. slot5' = [b \in Ai |-> slot5'[b]] /\ \A b \in Ai : slot5[b] = "deleted" => slot5'[b] = "deleted"
    BY <1>1, <2>1, <2>2 DEF AiType
  <2>5. slot11.kind = "delete" => slot5'[slot11.id] = "deleted"
    BY <1>1, <2>1, <2>3 DEF AiType
  <2> QED
    BY <1>1, <1>2, <1>4, <2>4, <2>5, AiStays DEF AiType
<1>8. slot11.kind = "create" \/ slot5[slot11.id] \in AiConns!Status \/ (slot5' = slot5
        /\ slot11' = [slot11 EXCEPT !.answer = "404"])
  BY DEF AiConns!WriteHandled
<1>9. CASE slot5' = slot5 /\ slot11' = [slot11 EXCEPT !.answer = "404"]
  <2>1. slot11'.answer = "404"
    BY <1>1, <1>9 DEF AiType
  <2> QED
    BY <1>4, <1>5, <1>9, <2>1
<1> QED
  BY <1>6, <1>7, <1>8, <1>9

LEMMA AiListSteps ==
  ASSUME AiListInv, AiConns!Next \/ UNCHANGED AiConns!vars PROVE AiListInv'
<1>1. ListInv /\ AiType /\ AiConns!DeletedIsFinal /\ AiConns!AnswersAreClean
  BY DEF AiListInv
<1>2. ASSUME NEW i \in DOMAIN slot1,
             AiConns!ListHandled(i) \/ AiConns!ListAnswered(i) \/ AiConns!ListFails(i)
      PROVE  AiListInv'
  BY <1>2, AiListMoves DEF AiConns!ListHandled, AiConns!ListAnswered, AiConns!ListFails,
     AiConns!dialogVars
<1>3. ASSUME UNCHANGED <<slot1, slot2, slot3, slot4, slot5, slot12>>,
             slot6'.type = "delete" => slot6'.id \in Ai, slot11' = slot11
      PROVE  AiListInv'
  BY <1>1, <1>3, AiStays DEF AiType, AiConns!DeletedIsFinal
<1>4. CASE UNCHANGED AiConns!vars
  BY <1>1, <1>3, <1>4 DEF AiConns!vars, AiConns!listVars, AiConns!dialogVars, AiType
<1>5. CASE AiConns!RetryList
  <2>1. AiConns!Ask("all") /\ UNCHANGED <<slot2, slot5, slot11, slot12>>
        /\ slot6' = AiConns!NoDialog
    BY <1>5 DEF AiConns!RetryList, AiConns!dialogVars
  <2> QED
    BY <1>1, <2>1, AiAsks DEF AiConns!DeletedIsFinal, AiType
<1>6. CASE \/ AiConns!OpenCreate \/ AiConns!Close
           \/ \E r \in AiConns!Shown, type \in {"details", "models", "test"} :
                AiConns!Inspect(type, r.id)
  <2>1. UNCHANGED <<slot1, slot2, slot3, slot4, slot5, slot11, slot12>>
    BY <1>6 DEF AiConns!OpenCreate, AiConns!Close, AiConns!Inspect, AiConns!listVars
  <2>2. slot6'.type # "delete"
    BY <1>6, AiRecords DEF AiConns!OpenCreate, AiConns!Close, AiConns!Inspect, AiConns!Open
  <2> QED
    BY <1>3, <2>1, <2>2
<1>7. ASSUME NEW r \in AiConns!Shown, AiConns!OpenDelete(r.id) PROVE AiListInv'
  <2>1. UNCHANGED <<slot1, slot2, slot3, slot4, slot5, slot11, slot12>> /\ slot6'.id = r.id
    BY <1>7 DEF AiConns!OpenDelete, AiConns!Open, AiConns!listVars
  <2>2. r.id \in Ai
    BY <1>1 DEF AiType, AiConns!Shown
  <2> QED
    BY <1>3, <2>1, <2>2
<1>8. ASSUME NEW request \in slot9,
             \/ AiConns!InspectHandled(request) \/ AiConns!InspectAnswered(request)
             \/ AiConns!InspectFails(request)
      PROVE  AiListInv'
  <2>1. UNCHANGED <<slot1, slot2, slot3, slot4, slot5, slot11, slot12>>
        /\ (slot6' = slot6 \/ slot6' = [type |-> "edit", id |-> request.of])
    BY <1>8 DEF AiConns!InspectHandled, AiConns!InspectAnswered, AiConns!InspectFails,
       AiConns!listVars
  <2> QED
    BY <1>1, <1>3, <2>1 DEF AiType
<1>9. CASE AiConns!SwitchStatus
  BY <1>1, <1>3, <1>9 DEF AiConns!SwitchStatus, AiConns!listVars, AiType
<1>10. CASE AiConns!Save \/ AiConns!Remove \/ AiConns!WriteFails
  <2>1. UNCHANGED <<slot1, slot2, slot3, slot4, slot5, slot6, slot12>>
    BY <1>10 DEF AiConns!Save, AiConns!Remove, AiConns!WriteFails, AiConns!listVars,
       AiConns!dialogVars
  <2>2. /\ DOMAIN slot11' = {"kind", "id", "status", "answer"} /\ slot11'.answer = "none"
        /\ slot11'.kind = "delete" => slot11'.id \in Ai
    <3>1. CASE AiConns!Save
      BY <3>1 DEF AiConns!Save
    <3>2. CASE AiConns!Remove
      BY <1>1, <3>2, AiRecords DEF AiConns!Remove, AiType
    <3>3. CASE AiConns!WriteFails
      BY <3>3, AiRecords DEF AiConns!WriteFails
    <3> QED
      BY <1>10, <3>1, <3>2, <3>3
  <2> QED
    BY <1>1, <2>1, <2>2, AiStays DEF AiType
<1>11. CASE AiConns!WriteAnswered
  BY <1>1, <1>11, AiAsks DEF AiConns!WriteAnswered, AiConns!DeletedIsFinal, AiType
<1>12. ASSUME NEW a \in Ai, AiConns!OthersDelete(a) PROVE AiListInv'
  <2>1. UNCHANGED <<slot1, slot2, slot3, slot4, slot6, slot11, slot12>>
        /\ slot5' = [slot5 EXCEPT ![a] = "deleted"]
    BY <1>12 DEF AiConns!OthersDelete, AiConns!listVars, AiConns!dialogVars
  <2>2. slot5' = [b \in Ai |-> slot5'[b]]
        /\ \A b \in Ai : slot5[b] = "deleted" => slot5'[b] = "deleted"
    BY <1>1, <2>1 DEF AiType
  <2> QED
    BY <1>1, <2>1, <2>2, AiStays DEF AiType, AiConns!DeletedIsFinal
<1> QED
  BY <1>2, <1>4, <1>5, <1>6, <1>7, <1>8, <1>9, <1>10, <1>11, <1>12, AiHandles DEF AiConns!Next

\* The dialog.  slot6 to slot11 are dialog, draft, requestId, inspected,
\* answered and write.
AiDialogInv ==
  /\ AiConns!InspectsDialog /\ AiConns!AnswerIsOfDialog
  /\ slot8 \in Nat /\ "of" \in DOMAIN slot7
  /\ \A q \in slot9 : DOMAIN q = {"kind", "of", "number", "answer"} /\ q.number \in Nat

LEMMA AiDialogStarts == AiConns!Init => AiDialogInv
<1> SUFFICES ASSUME AiConns!Init PROVE AiDialogInv
  OBVIOUS
<1>1. slot6 = AiConns!NoDialog /\ slot7 = AiConns!EmptyForm /\ slot8 = 0 /\ slot9 = {}
      /\ slot10 = AiConns!NoAnswer /\ slot11 = AiConns!NoWrite
  BY DEF AiConns!Init
<1>2. AiConns!InspectsDialog
  BY <1>1 DEF AiConns!InspectsDialog
<1>3. AiConns!AnswerIsOfDialog
  BY <1>1, AiRecords DEF AiConns!AnswerIsOfDialog
<1>4. "of" \in DOMAIN slot7
  BY <1>1 DEF AiConns!EmptyForm
<1> QED
  BY <1>1, <1>2, <1>3, <1>4 DEF AiDialogInv

\* No request of an older dialog is waited for.
LEMMA AiDialogNew ==
  ASSUME AiDialogInv, slot9' = slot9, slot8' \in Nat, slot8' >= slot8,
         slot8' = slot8 => slot6.type \notin AiConns!Looks,
         slot10' = AiConns!NoAnswer, "of" \in DOMAIN slot7', slot6'.type # "edit",
         slot11' # AiConns!NoWrite => slot6'.type \in {"create", "edit", "delete"}
  PROVE  AiDialogInv'
<1>1. \A q \in slot9 : q.number \in Nat /\ q.number <= slot8 /\ q.number # slot8'
  <2> SUFFICES ASSUME NEW q \in slot9 PROVE q.number \in Nat /\ q.number <= slot8 /\ q.number # slot8'
    OBVIOUS
  <2>1. q.number = slot8 => slot6.type \in AiConns!Looks
    BY DEF AiDialogInv, AiConns!InspectsDialog
  <2> QED
    BY <2>1 DEF AiDialogInv, AiConns!InspectsDialog
<1>2. AiConns!InspectsDialog'
  BY <1>1 DEF AiDialogInv, AiConns!InspectsDialog
<1>3. AiConns!AnswerIsOfDialog'
  BY AiRecords DEF AiConns!AnswerIsOfDialog
<1> QED
  BY <1>2, <1>3 DEF AiDialogInv

LEMMA AiInspects ==
  ASSUME AiDialogInv, NEW a, NEW type \in {"details", "models", "test"}, AiConns!Inspect(type, a)
  PROVE  AiDialogInv'
<1> DEFINE new == [kind |-> type, of |-> a, number |-> slot8', answer |-> "none"]
<1>1. AiConns!InspectsDialog /\ slot8 \in Nat
      /\ \A q \in slot9 : DOMAIN q = {"kind", "of", "number", "answer"} /\ q.number \in Nat
  BY DEF AiDialogInv
<1>2. /\ slot8' = slot8 + 1 /\ slot9' = slot9 \cup {new} /\ slot11' = slot11
      /\ slot6' = [type |-> type, id |-> a] /\ slot7' = AiConns!EmptyForm
      /\ slot10' = AiConns!NoAnswer
  BY DEF AiConns!Inspect, AiConns!Open
<1>3. new.kind = type /\ new.of = a /\ new.number = slot8'
      /\ DOMAIN new = {"kind", "of", "number", "answer"}
  OBVIOUS
<1> HIDE DEF new
<1>4. slot6.type \notin {"create", "edit", "delete"}
  BY AiRecords DEF AiConns!Inspect
<1>5. slot11 = AiConns!NoWrite
  BY <1>1, <1>4 DEF AiConns!InspectsDialog
<1>6. \A q \in slot9 : q.number < slot8'
  BY <1>1, <1>2 DEF AiConns!InspectsDialog
<1>7. \A q \in slot9' : q.number <= slot8' /\ (q.number = slot8' => q = new)
  BY <1>1, <1>2, <1>3, <1>6
<1>8. \A p, q \in slot9' : p.number = q.number => p = q
  BY <1>1, <1>2, <1>3, <1>6 DEF AiConns!InspectsDialog
<1>9. AiConns!InspectsDialog'
  BY <1>2, <1>3, <1>5, <1>7, <1>8 DEF AiConns!InspectsDialog, AiConns!Looks
<1>10. AiConns!AnswerIsOfDialog'
  BY <1>2, AiRecords DEF AiConns!AnswerIsOfDialog
<1>11. "of" \in DOMAIN slot7' /\ slot8' \in Nat
       /\ \A q \in slot9' : DOMAIN q = {"kind", "of", "number", "answer"} /\ q.number \in Nat
  BY <1>1, <1>2, <1>3 DEF AiConns!EmptyForm
<1> QED
  BY <1>9, <1>10, <1>11 DEF AiDialogInv

\* An answer that was waited for is of the dialog that is open.
LEMMA AiInspected ==
  ASSUME AiDialogInv, NEW request \in slot9,
         AiConns!InspectAnswered(request) \/ AiConns!InspectFails(request)
  PROVE  AiDialogInv'
<1>1. AiConns!InspectsDialog /\ AiConns!AnswerIsOfDialog /\ slot8 \in Nat /\ "of" \in DOMAIN slot7
      /\ \A q \in slot9 : DOMAIN q = {"kind", "of", "number", "answer"} /\ q.number \in Nat
  BY DEF AiDialogInv
<1>2. slot9' = slot9 \ {request} /\ slot8' = slot8 /\ slot11' = slot11
  BY DEF AiConns!InspectAnswered, AiConns!InspectFails, AiConns!dialogVars
<1>3. CASE request.number = slot8
  <2>1. \A q \in slot9' : q.number # slot8
    BY <1>1, <1>2, <1>3 DEF AiConns!InspectsDialog
  <2>2. slot6 = [type |-> request.kind, id |-> request.of] /\ request.kind \in AiConns!Looks
        /\ slot10 = AiConns!NoAnswer
    BY <1>1, <1>3 DEF AiConns!InspectsDialog
  <2>3. slot6.type = request.kind /\ slot6.id = request.of /\ slot6.type \in {"details", "models", "test"}
    BY <2>2 DEF AiConns!Looks
  <2>4. slot11 = AiConns!NoWrite
    BY <1>1, <2>3 DEF AiConns!InspectsDialog
  <2>5. \/ /\ slot6' = slot6 /\ slot7' = slot7
           /\ \E kind \in {"error", request.kind} : slot10' = [kind |-> kind, of |-> request.of]
        \/ /\ slot6' = [type |-> "edit", id |-> request.of] /\ slot10' = slot10
           /\ slot7' = [of |-> request.of, status |-> request.answer]
    BY <1>3 DEF AiConns!InspectAnswered, AiConns!InspectFails
  <2>6. AiConns!InspectsDialog'
    BY <1>1, <1>2, <2>1, <2>2, <2>3, <2>4, <2>5 DEF AiConns!InspectsDialog
  <2>7. AiConns!AnswerIsOfDialog' /\ "of" \in DOMAIN slot7'
    BY <1>1, <2>2, <2>3, <2>5, AiRecords DEF AiConns!AnswerIsOfDialog
  <2> QED
    BY <1>1, <1>2, <2>6, <2>7 DEF AiDialogInv
<1>4. CASE request.number # slot8
  <2>1. UNCHANGED <<slot6, slot7, slot10>>
    BY <1>4 DEF AiConns!InspectAnswered, AiConns!InspectFails
  <2>2. AiConns!InspectsDialog' /\ AiConns!AnswerIsOfDialog'
    BY <1>1, <1>2, <2>1 DEF AiConns!InspectsDialog, AiConns!AnswerIsOfDialog
  <2> QED
    BY <1>1, <1>2, <2>1, <2>2 DEF AiDialogInv
<1> QED
  BY <1>3, <1>4

LEMMA AiInspectHandled ==
  ASSUME AiDialogInv, NEW request \in slot9, AiConns!InspectHandled(request)
  PROVE  AiDialogInv'
<1> DEFINE new == [request EXCEPT !.answer = slot5[request.of]]
<1>1. AiConns!InspectsDialog /\ AiConns!AnswerIsOfDialog /\ slot8 \in Nat /\ "of" \in DOMAIN slot7
      /\ \A q \in slot9 : DOMAIN q = {"kind", "of", "number", "answer"} /\ q.number \in Nat
  BY DEF AiDialogInv
<1>2. slot9' = (slot9 \ {request}) \cup {new} /\ UNCHANGED <<slot6, slot7, slot8, slot10, slot11>>
  BY DEF AiConns!InspectHandled
<1>3. new.kind = request.kind /\ new.of = request.of /\ new.number = request.number
      /\ DOMAIN new = {"kind", "of", "number", "answer"}
  BY <1>1
<1> HIDE DEF new
<1>4. AiConns!InspectsDialog'
  BY <1>1, <1>2, <1>3 DEF AiConns!InspectsDialog
<1>5. AiConns!AnswerIsOfDialog'
  BY <1>1, <1>2 DEF AiConns!AnswerIsOfDialog
<1>6. \A q \in slot9' : DOMAIN q = {"kind", "of", "number", "answer"} /\ q.number \in Nat
  BY <1>1, <1>2, <1>3
<1> QED
  BY <1>1, <1>2, <1>4, <1>5, <1>6 DEF AiDialogInv

LEMMA AiDialogSteps ==
  ASSUME AiDialogInv, AiConns!Next \/ UNCHANGED AiConns!vars PROVE AiDialogInv'
<1>1. AiConns!InspectsDialog /\ AiConns!AnswerIsOfDialog /\ slot8 \in Nat /\ "of" \in DOMAIN slot7
  BY DEF AiDialogInv
<1>2. ASSUME UNCHANGED <<slot6, slot8, slot9, slot10>>, slot7'.of = slot7.of,
             "of" \in DOMAIN slot7',
             slot11' # AiConns!NoWrite => slot6.type \in {"create", "edit", "delete"}
      PROVE  AiDialogInv'
  <2>1. AiConns!InspectsDialog' /\ AiConns!AnswerIsOfDialog'
    BY <1>1, <1>2 DEF AiConns!InspectsDialog, AiConns!AnswerIsOfDialog
  <2> QED
    BY <1>2, <2>1 DEF AiDialogInv
<1>3. CASE \/ UNCHANGED AiConns!vars
           \/ \E i \in DOMAIN slot1 :
                AiConns!ListHandled(i) \/ AiConns!ListAnswered(i) \/ AiConns!ListFails(i)
           \/ AiConns!RetryList \/ \E a \in Ai : AiConns!OthersDelete(a)
  <2>1. UNCHANGED <<slot6, slot7, slot8, slot9, slot10, slot11>>
    BY <1>3 DEF AiConns!vars, AiConns!dialogVars, AiConns!ListHandled, AiConns!ListAnswered,
       AiConns!ListFails, AiConns!RetryList, AiConns!OthersDelete
  <2> QED
    BY <1>1, <1>2, <2>1 DEF AiConns!InspectsDialog
<1>4. ASSUME NEW type \in {"create", "delete"}, NEW a, AiConns!Open(type, a),
             slot6 = AiConns!NoDialog, UNCHANGED <<slot8, slot9, slot11>>
      PROVE  AiDialogInv'
  <2>1. slot6'.type = type /\ slot10' = AiConns!NoAnswer /\ slot7' = AiConns!EmptyForm
    BY <1>4 DEF AiConns!Open
  <2>2. slot6.type \notin AiConns!Looks
    BY <1>4, AiRecords DEF AiConns!Looks
  <2>3. "of" \in DOMAIN slot7'
    BY <2>1 DEF AiConns!EmptyForm
  <2> QED
    BY <1>1, <1>4, <2>1, <2>2, <2>3, AiDialogNew
<1>5. CASE AiConns!OpenCreate
  BY <1>4, <1>5 DEF AiConns!OpenCreate
<1>6. ASSUME NEW a, AiConns!OpenDelete(a) PROVE AiDialogInv'
  BY <1>4, <1>6 DEF AiConns!OpenDelete
<1>7. CASE AiConns!Close
  <2>1. /\ slot8' = slot8 + 1 /\ slot6' = AiConns!NoDialog /\ slot7' = AiConns!EmptyForm
        /\ slot10' = AiConns!NoAnswer /\ slot9' = slot9 /\ slot11' = AiConns!NoWrite
    BY <1>7 DEF AiConns!Close
  <2>2. "of" \in DOMAIN slot7' /\ slot6'.type = "none" /\ slot8' \in Nat /\ slot8' > slot8
    BY <1>1, <2>1, AiRecords DEF AiConns!EmptyForm
  <2> QED
    BY <1>1, <2>1, <2>2, AiDialogNew
<1>8. CASE AiConns!SwitchStatus
  <2>1. slot7'.of = slot7.of /\ "of" \in DOMAIN slot7'
    BY <1>1, <1>8 DEF AiConns!SwitchStatus
  <2> QED
    BY <1>1, <1>2, <1>8, <2>1 DEF AiConns!SwitchStatus, AiConns!InspectsDialog
<1>9. CASE AiConns!Save \/ AiConns!Remove \/ AiConns!WriteFails \/ AiConns!WriteHandled
  <2>1. UNCHANGED <<slot6, slot7, slot8, slot9, slot10>>
    BY <1>9 DEF AiConns!Save, AiConns!Remove, AiConns!WriteFails, AiConns!WriteHandled,
       AiConns!dialogVars
  <2>2. slot11' # AiConns!NoWrite => slot6.type \in {"create", "edit", "delete"}
    BY <1>1, <1>9 DEF AiConns!Save, AiConns!Remove, AiConns!WriteFails, AiConns!WriteHandled,
       AiConns!InspectsDialog
  <2> QED
    BY <1>1, <1>2, <2>1, <2>2
<1>10. CASE AiConns!WriteAnswered
  <2>1. /\ UNCHANGED <<slot8, slot9, slot10>> /\ slot6' = AiConns!NoDialog
        /\ slot11' = AiConns!NoWrite /\ slot11 # AiConns!NoWrite
        /\ (slot7' = slot7 \/ slot7' = AiConns!EmptyForm)
    BY <1>10, AiRecords DEF AiConns!WriteAnswered
  <2>2. slot6.type \in {"create", "edit", "delete"}
    BY <1>1, <2>1 DEF AiConns!InspectsDialog
  <2>3. slot6.type \notin AiConns!Looks /\ slot10 = AiConns!NoAnswer
    BY <1>1, <2>2 DEF AiConns!InspectsDialog, AiConns!Looks
  <2>4. "of" \in DOMAIN slot7' /\ slot6'.type = "none"
    BY <1>1, <2>1, AiRecords DEF AiConns!EmptyForm
  <2> QED
    BY <1>1, <2>1, <2>3, <2>4, AiDialogNew
<1> QED
  BY <1>3, <1>5, <1>6, <1>7, <1>8, <1>9, <1>10, AiInspects, AiInspected, AiInspectHandled
  DEF AiConns!Next

-----------------------------------------------------------------------------
(* The inbox of the approvals.  slot1 to slot4 are its list, slot5 to       *)
(* slot11 are stored, tab, drawer, details, dialog, posting and heard.      *)

LEMMA InboxList ==
  /\ \A q : Inbox!Ask(q) <=> List!Ask(q)
  /\ \A i, answer : Inbox!Handled(i, answer) <=> List!Handled(i, answer)
  /\ \A i : Inbox!Answered(i) <=> List!Answered(i)
  /\ \A i : Inbox!Fails(i) <=> List!Fails(i)
  /\ Inbox!Current = List!Current /\ Inbox!Current' = List!Current'
  /\ Inbox!Answers = List!Answers /\ Inbox!Answers' = List!Answers'
  /\ Inbox!Asked = List!Asked /\ Inbox!Asked' = List!Asked'
BY DEF Inbox!Ask, Inbox!Handled, Inbox!Answered, Inbox!Fails, Inbox!Without,
   Inbox!Overtaken, Inbox!Request,
   Inbox!Current, Inbox!Answers, Inbox!Asked, List!Ask, List!Handled, List!Answered, List!Fails,
   List!Without, List!Overtaken, List!Request, List!Current, List!Answers, List!Asked

InboxType ==
  /\ slot3 \in BOOLEAN /\ slot4 \in BOOLEAN /\ slot11 \subseteq Approval
  /\ slot5 = [a \in Approval |-> slot5[a]]
  /\ slot9 # None => slot9.id \in Approval
  /\ DOMAIN slot10 = {"id", "action", "answer"} /\ slot10.id \in Approval \cup {None}
  /\ slot10.answer # "none" => slot10.id \in Approval

InboxInv ==
  ListInv /\ InboxType /\ Inbox!AsksForTab /\ Inbox!DecidedIsFinal /\ Inbox!AnswersAreClean

LEMMA InboxTold == InboxInv => Inbox!DecidedStaysAway
BY DEF InboxInv, Inbox!AnswersAreClean, Inbox!DecidedStaysAway

LEMMA InboxRecords ==
  /\ Inbox!NoPost.id = None /\ Inbox!NoPost.answer = "none"
  /\ DOMAIN Inbox!NoPost = {"id", "action", "answer"}
BY DEF Inbox!NoPost

LEMMA InboxStarts == Inbox!Init => InboxInv
<1> SUFFICES ASSUME Inbox!Init PROVE InboxInv
  OBVIOUS
<1>1. slot1 = <<List!Request("pending")>> /\ slot3 = TRUE /\ slot4 = FALSE /\ slot6 = "pending"
      /\ slot5 = [a \in Approval |-> "pending"] /\ slot9 = None /\ slot10 = Inbox!NoPost
      /\ slot11 = {}
  BY DEF Inbox!Init, Inbox!Request, List!Request
<1>2. ListInv /\ Inbox!Answers = {} /\ Inbox!Asked = {"pending"}
  BY <1>1, ListStarts, InboxList
<1>3. InboxType
  BY <1>1, InboxRecords DEF InboxType
<1>4. Inbox!AsksForTab /\ Inbox!DecidedIsFinal /\ Inbox!AnswersAreClean
  BY <1>1, <1>2, InboxRecords DEF Inbox!AsksForTab, Inbox!DecidedIsFinal, Inbox!AnswersAreClean,
     Inbox!Shown
<1> QED
  BY <1>2, <1>3, <1>4 DEF InboxInv

\* What leaves the list alone, and decides nothing that was decided.
LEMMA InboxStays ==
  ASSUME InboxInv, UNCHANGED <<slot1, slot2, slot3, slot4, slot6, slot11>>,
         slot5' = [a \in Approval |-> slot5'[a]],
         \A a \in Approval : slot5[a] # "pending" => slot5'[a] # "pending",
         slot9' = slot9 \/ slot9' = None \/ slot9'.id \in Approval,
         DOMAIN slot10' = {"id", "action", "answer"}, slot10'.id \in Approval \cup {None},
         slot10'.answer # "none" => slot10'.id \in Approval /\ slot5'[slot10'.id] # "pending"
  PROVE  InboxInv'
<1>1. ListInv /\ InboxType /\ Inbox!AsksForTab /\ Inbox!DecidedIsFinal /\ Inbox!AnswersAreClean
  BY DEF InboxInv
<1>2. ListInv' /\ Inbox!Answers' = Inbox!Answers /\ Inbox!Shown' = Inbox!Shown
      /\ Inbox!Asked' = Inbox!Asked
  BY <1>1, InboxList, ListStays DEF Inbox!Shown
<1>3. InboxType' /\ Inbox!AsksForTab' /\ Inbox!AnswersAreClean'
  BY <1>1, <1>2 DEF InboxType, Inbox!AsksForTab, Inbox!AnswersAreClean
<1>4. Inbox!DecidedIsFinal'
  BY <1>1 DEF Inbox!DecidedIsFinal, InboxType
<1> QED
  BY <1>2, <1>3, <1>4 DEF InboxInv

LEMMA InboxListMoves ==
  ASSUME InboxInv, NEW i \in DOMAIN slot1,
         Inbox!ListHandled(i) \/ Inbox!ListAnswered(i) \/ Inbox!ListFails(i)
  PROVE  InboxInv'
<1>1. ListInv /\ InboxType /\ Inbox!AsksForTab /\ Inbox!DecidedIsFinal /\ Inbox!AnswersAreClean
  BY DEF InboxInv
<1>2. UNCHANGED <<slot5, slot6, slot9, slot10, slot11>>
  BY DEF Inbox!ListHandled, Inbox!ListAnswered, Inbox!ListFails
<1>3. Inbox!DecidedIsFinal'
  BY <1>1, <1>2 DEF Inbox!DecidedIsFinal
<1> DEFINE answer == {a \in Approval : slot5[a] = slot1[i].query}
<1>4. slot6 = "pending" /\ slot1[i].query \in Inbox!Asked => answer \cap slot11 = {}
  BY <1>1 DEF Inbox!AsksForTab, Inbox!DecidedIsFinal
<1>5. /\ ListInv' /\ slot3' \in BOOLEAN /\ slot4' \in BOOLEAN /\ Inbox!Asked' \subseteq Inbox!Asked
      /\ \/ Inbox!Answers' \subseteq Inbox!Answers
         \/ /\ slot1[i].query \in Inbox!Asked
            /\ Inbox!Answers' \subseteq Inbox!Answers \cup {answer}
      /\ \/ slot2' \in Inbox!Answers
         \/ slot2' = slot2 /\ slot4'
         \/ slot2' = slot2 /\ slot3' = slot3 /\ slot4' = slot4
  <2>1. CASE Inbox!ListHandled(i)
    <3>1. Inbox!Handled(i, answer)
      BY <2>1 DEF Inbox!ListHandled
    <3> HIDE DEF answer
    <3> QED
      BY <1>1, <3>1, InboxList, ListHandled DEF InboxType
  <2>2. CASE Inbox!ListAnswered(i)
    BY <1>1, <2>2, InboxList, ListAnswered DEF InboxType, Overtaken, Inbox!ListAnswered
  <2>3. CASE Inbox!ListFails(i)
    BY <1>1, <2>3, InboxList, ListFailed DEF InboxType, Overtaken, Inbox!ListFails
  <2> QED
    BY <2>1, <2>2, <2>3
<1> HIDE DEF answer
<1>6. InboxType' /\ Inbox!AsksForTab'
  BY <1>1, <1>2, <1>5 DEF InboxType, Inbox!AsksForTab
<1>7. Inbox!AnswersAreClean'
  <2> SUFFICES ASSUME slot6 = "pending"
               PROVE  \A rows \in Inbox!Answers' \cup {Inbox!Shown'} : rows \cap slot11 = {}
    BY <1>2 DEF Inbox!AnswersAreClean
  <2>1. \A rows \in Inbox!Answers' : rows \cap slot11 = {}
    BY <1>1, <1>4, <1>5 DEF Inbox!AnswersAreClean
  <2>2. Inbox!Shown' \cap slot11 = {}
    BY <1>1, <1>5 DEF Inbox!AnswersAreClean, Inbox!Shown
  <2> QED
    BY <2>1, <2>2
<1> QED
  BY <1>3, <1>5, <1>6, <1>7 DEF InboxInv

LEMMA InboxAsks ==
  ASSUME InboxInv, Inbox!Ask(slot6'), slot5' = slot5, slot11' \subseteq Approval,
         \A a \in slot11' : slot5[a] # "pending", slot9' = slot9 \/ slot9' = None,
         slot10' = slot10 \/ slot10' = Inbox!NoPost
  PROVE  InboxInv'
<1>1. ListInv' /\ Inbox!Answers' = {} /\ Inbox!Asked' = {slot6'} /\ slot3' = TRUE /\ slot4' = FALSE
  BY InboxList, ListAsked DEF InboxInv
<1>2. InboxType'
  BY <1>1, InboxRecords DEF InboxInv, InboxType
<1>3. Inbox!AsksForTab' /\ Inbox!DecidedIsFinal' /\ Inbox!AnswersAreClean'
  BY <1>1, InboxRecords DEF InboxInv, Inbox!AsksForTab, Inbox!DecidedIsFinal,
     Inbox!AnswersAreClean, Inbox!Shown
<1> QED
  BY <1>1, <1>2, <1>3 DEF InboxInv

LEMMA InboxDecides ==
  ASSUME InboxInv, Inbox!DecisionHandled PROVE InboxInv'
<1> DEFINE s == slot5[slot10.id]
           v == IF s = "pending" THEN Inbox!Outcome(slot10.action) ELSE s
           answer == IF s = "pending" THEN "ok" ELSE IF s = "gone" THEN "404" ELSE "409"
<1>1. InboxType /\ slot10.id \in Approval
  BY DEF InboxInv, InboxType, Inbox!DecisionHandled, Inbox!Locked
<1>2. UNCHANGED <<slot1, slot2, slot3, slot4, slot6, slot9, slot11>>
      /\ slot5' = [slot5 EXCEPT ![slot10.id] = v] /\ slot10' = [slot10 EXCEPT !.answer = answer]
  BY DEF Inbox!DecisionHandled, Inbox!listVars
<1>3. v # "pending"
  BY DEF Inbox!Outcome
<1> HIDE DEF s, v, answer
<1>4. slot5' = [a \in Approval |-> slot5'[a]] /\ slot5'[slot10.id] = v
      /\ \A a \in Approval : slot5[a] # "pending" => slot5'[a] # "pending"
  BY <1>1, <1>2, <1>3 DEF InboxType
<1>5. DOMAIN slot10' = {"id", "action", "answer"} /\ slot10'.id = slot10.id
  BY <1>1, <1>2 DEF InboxType
<1> QED
  BY <1>1, <1>2, <1>3, <1>4, <1>5, InboxStays

LEMMA InboxSteps ==
  ASSUME InboxInv, Inbox!Next \/ UNCHANGED Inbox!vars PROVE InboxInv'
<1>1. InboxType /\ Inbox!DecidedIsFinal
  BY DEF InboxInv
<1>2. ASSUME UNCHANGED <<slot1, slot2, slot3, slot4, slot5, slot6, slot10, slot11>>,
             slot9' = slot9 \/ slot9' = None \/ slot9'.id \in Approval
      PROVE  InboxInv'
  BY <1>1, <1>2, InboxStays DEF InboxType, Inbox!DecidedIsFinal
<1>3. CASE UNCHANGED Inbox!vars
  BY <1>2, <1>3 DEF Inbox!vars, Inbox!listVars
<1>4. CASE Inbox!CloseDetails \/ Inbox!CloseDecision
           \/ \E a \in Approval : \/ Inbox!ShowDetails(a) \/ Inbox!DetailsHandled(a)
                                  \/ Inbox!DetailsAnswered(a) \/ Inbox!DetailsFail(a)
                                  \/ \E action : Inbox!StartDecision(a, action)
  <2>1. UNCHANGED <<slot1, slot2, slot3, slot4, slot5, slot6, slot10, slot11>>
    BY <1>4 DEF Inbox!CloseDetails, Inbox!CloseDecision, Inbox!ShowDetails, Inbox!DetailsHandled,
       Inbox!DetailsAnswered, Inbox!DetailsFail, Inbox!StartDecision, Inbox!listVars
  <2>2. slot9' = slot9 \/ slot9' = None \/ slot9'.id \in Approval
    <3>1. ASSUME NEW a \in Approval, NEW action, Inbox!StartDecision(a, action)
          PROVE  slot9'.id \in Approval
      BY <3>1 DEF Inbox!StartDecision
    <3>2. CASE Inbox!CloseDetails \/ Inbox!CloseDecision
      BY <3>2 DEF Inbox!CloseDetails, Inbox!CloseDecision
    <3>3. ASSUME NEW a, \/ Inbox!ShowDetails(a) \/ Inbox!DetailsHandled(a)
                        \/ Inbox!DetailsAnswered(a) \/ Inbox!DetailsFail(a)
          PROVE  slot9' = slot9
      BY <3>3 DEF Inbox!ShowDetails, Inbox!DetailsHandled, Inbox!DetailsAnswered,
         Inbox!DetailsFail
    <3> QED
      BY <1>4, <3>1, <3>2, <3>3
  <2> QED
    BY <1>2, <2>1, <2>2
<1>5. CASE Inbox!Refresh \/ \E a \in Approval : Inbox!DetailsGone(a)
  <2>1. Inbox!Ask(slot6) /\ UNCHANGED <<slot5, slot6, slot9, slot10, slot11>>
    BY <1>5 DEF Inbox!Refresh, Inbox!DetailsGone
  <2> QED
    BY <1>1, <2>1, InboxAsks DEF InboxType, Inbox!DecidedIsFinal
<1>6. CASE Inbox!SwitchTab
  BY <1>1, <1>6, InboxAsks DEF Inbox!SwitchTab, InboxType, Inbox!DecidedIsFinal
<1>7. CASE Inbox!DecisionAnswered
  <2>1. /\ Inbox!Ask(slot6') /\ slot5' = slot5 /\ slot9' = None /\ slot10' = Inbox!NoPost
        /\ slot11' = slot11 \cup {slot10.id} /\ slot10.answer # "none"
    BY <1>7 DEF Inbox!DecisionAnswered
  <2> QED
    BY <1>1, <2>1, InboxAsks DEF InboxType, Inbox!DecidedIsFinal
<1>8. CASE Inbox!ConfirmDecision \/ Inbox!DecisionFails
  <2>1. UNCHANGED <<slot1, slot2, slot3, slot4, slot5, slot6, slot9, slot11>>
    BY <1>8 DEF Inbox!ConfirmDecision, Inbox!DecisionFails, Inbox!listVars
  <2>2. DOMAIN slot10' = {"id", "action", "answer"} /\ slot10'.id \in Approval \cup {None}
        /\ slot10'.answer = "none"
    BY <1>1, <1>8, InboxRecords DEF Inbox!ConfirmDecision, Inbox!DecisionFails, InboxType
  <2> QED
    BY <1>1, <2>1, <2>2, InboxStays DEF InboxType
<1>9. ASSUME NEW a \in Approval, Inbox!OthersChange(a) PROVE InboxInv'
  <2>1. PICK s \in {"approved", "cancelled", "gone"} : slot5' = [slot5 EXCEPT ![a] = s]
    BY <1>9 DEF Inbox!OthersChange
  <2>2. UNCHANGED <<slot1, slot2, slot3, slot4, slot6, slot9, slot10, slot11>>
    BY <1>9 DEF Inbox!OthersChange, Inbox!listVars
  <2>3. slot5' = [b \in Approval |-> slot5'[b]]
        /\ \A b \in Approval : slot5[b] # "pending" => slot5'[b] # "pending"
    BY <1>1, <2>1 DEF InboxType
  <2> QED
    BY <1>1, <2>2, <2>3, InboxStays DEF InboxType, Inbox!DecidedIsFinal
<1> QED
  BY <1>3, <1>4, <1>5, <1>6, <1>7, <1>8, <1>9, InboxListMoves, InboxDecides DEF Inbox!Next

-----------------------------------------------------------------------------
(* The page of the webhooks.  slot1 to slot4 are its list, slot5 to slot15  *)
(* are hooks, panel, chosen, entry, versions, submitting, acts, credential, *)
(* told, lapses and turns.                                                  *)

LEMMA HooksList ==
  /\ \A q : Hooks!Ask(q) <=> List!Ask(q)
  /\ \A i, answer : Hooks!Handled(i, answer) <=> List!Handled(i, answer)
  /\ \A i : Hooks!Answered(i) <=> List!Answered(i)
  /\ \A i : Hooks!Fails(i) <=> List!Fails(i)
  /\ Hooks!Current = List!Current /\ Hooks!Current' = List!Current'
  /\ Hooks!Answers = List!Answers /\ Hooks!Answers' = List!Answers'
  /\ Hooks!Asked = List!Asked /\ Hooks!Asked' = List!Asked'
BY DEF Hooks!Ask, Hooks!Handled, Hooks!Answered, Hooks!Fails, Hooks!Without,
   Hooks!Overtaken, Hooks!Request,
   Hooks!Current, Hooks!Answers, Hooks!Asked, List!Ask, List!Handled, List!Answered, List!Fails,
   List!Without, List!Overtaken, List!Request, List!Current, List!Answers, List!Asked

HooksStored ==
  /\ slot5 = [h \in Hook |-> slot5[h]]
  /\ \A h \in Hook : /\ slot5[h].live \in BOOLEAN
                     /\ slot5[h].live => DOMAIN slot5[h] = {"live", "flow", "version", "active", "token"}
HooksForm ==
  /\ {"flow", "version"} \subseteq DOMAIN slot8
  /\ \A v \in slot9 : DOMAIN v = {"flow", "alive"}
  /\ {"kind", "answer"} \subseteq DOMAIN slot10
  /\ slot10.kind = "create" => {"flow", "version"} \subseteq DOMAIN slot10
HooksFormInv == HooksStored /\ HooksForm /\ Hooks!FormFits /\ Hooks!VersionFits

LEMMA HooksRecords ==
  /\ Hooks!Absent.live = FALSE /\ Hooks!Removed.live = FALSE /\ Hooks!Absent # Hooks!Removed
  /\ Hooks!NoRow.id = None
  /\ Hooks!EmptyForm.version = None /\ Hooks!EmptyForm.flow = None
  /\ {"flow", "version"} \subseteq DOMAIN Hooks!EmptyForm
  /\ Hooks!NoSubmit.kind = "none" /\ Hooks!NoSubmit.answer = "none"
  /\ {"kind", "answer"} \subseteq DOMAIN Hooks!NoSubmit
<1>1. Hooks!Absent.ever = FALSE /\ Hooks!Removed.ever = TRUE
  BY DEF Hooks!Absent, Hooks!Removed
<1> QED
  BY <1>1 DEF Hooks!Absent, Hooks!Removed, Hooks!NoRow, Hooks!EmptyForm, Hooks!NoSubmit

\* The requests for versions that an effect leaves count for nothing.
LEMMA HooksDead ==
  ASSUME HooksForm
  PROVE  \A v \in Hooks!Dead : DOMAIN v = {"flow", "alive"} /\ v.alive = FALSE
<1> SUFFICES ASSUME NEW w \in slot9
             PROVE  LET v == [w EXCEPT !.alive = FALSE]
                    IN  DOMAIN v = {"flow", "alive"} /\ v.alive = FALSE
  BY DEF Hooks!Dead
<1> QED
  BY DEF HooksForm

LEMMA HooksFormStarts == Hooks!Init => HooksFormInv
<1> SUFFICES ASSUME Hooks!Init PROVE HooksFormInv
  OBVIOUS
<1> DEFINE f == CHOOSE g \in Flow : TRUE
           k == CHOOSE h \in Hook : TRUE
           first == [live |-> TRUE, flow |-> f, version |-> f, active |-> TRUE, token |-> 0]
<1>1. slot5 = [h \in Hook |-> IF h = k THEN first ELSE Hooks!Absent]
  BY DEF Hooks!Init
<1>2. first.live = TRUE /\ first.version = first.flow
      /\ DOMAIN first = {"live", "flow", "version", "active", "token"}
  OBVIOUS
<1> HIDE DEF f, k, first
<1>3. \A h \in Hook : slot5[h] = first \/ slot5[h] = Hooks!Absent
  BY <1>1
<1>4. HooksStored /\ Hooks!VersionFits
  BY <1>1, <1>2, <1>3, HooksRecords DEF HooksStored, Hooks!VersionFits
<1>5. slot8 = Hooks!EmptyForm /\ slot9 = {} /\ slot10 = Hooks!NoSubmit
  BY DEF Hooks!Init
<1>6. HooksForm /\ Hooks!FormFits
  BY <1>5, HooksRecords DEF HooksForm, Hooks!FormFits
<1> QED
  BY <1>4, <1>6 DEF HooksFormInv

\* The forms, as long as the service has what it had.
LEMMA HooksForms ==
  ASSUME HooksFormInv, slot5' = slot5, HooksForm', Hooks!FormFits'
  PROVE  HooksFormInv'
BY DEF HooksFormInv, HooksStored, Hooks!VersionFits

\* What the service does to a webhook.
LEMMA HooksUpdates ==
  ASSUME HooksFormInv, NEW h \in Hook, NEW row, slot5' = [slot5 EXCEPT ![h] = row],
         row.live \in BOOLEAN,
         row.live => /\ DOMAIN row = {"live", "flow", "version", "active", "token"}
                     /\ row.version = row.flow
  PROVE  HooksStored' /\ Hooks!VersionFits'
<1>1. slot5'[h] = row /\ \A g \in Hook \ {h} : slot5'[g] = slot5[g]
  BY DEF HooksFormInv, HooksStored
<1>2. slot5' = [g \in Hook |-> slot5'[g]]
  BY DEF HooksFormInv, HooksStored
<1> QED
  BY <1>1, <1>2 DEF HooksFormInv, HooksStored, Hooks!VersionFits

\* A save at the service.
LEMMA HooksSubmits ==
  ASSUME HooksFormInv, Hooks!SubmitHandled
  PROVE  /\ HooksFormInv'
         /\ \E answer \in Hook \cup {"404"} : slot10' = [slot10 EXCEPT !.answer = answer]
                                             /\ slot10'.answer = answer
                                             /\ (answer \in Hook \/ slot5' = slot5)
         /\ \A h \in Hook : slot5[h] = Hooks!Removed => slot5'[h] = Hooks!Removed
<1>1. HooksStored /\ HooksForm /\ Hooks!FormFits /\ Hooks!VersionFits
  BY DEF HooksFormInv
<1>2. PICK answer \in Hook \cup {"404"} :
        /\ slot10' = [slot10 EXCEPT !.answer = answer]
        /\ \/ Hooks!Update(slot10.id, slot10.active, answer)
           \/ /\ slot10.kind = "create" /\ answer \in Hook /\ slot5[answer] = Hooks!Absent
              /\ slot5' = [slot5 EXCEPT ![answer] =
                   [live |-> TRUE, flow |-> slot10.flow, version |-> slot10.version,
                    active |-> TRUE, token |-> 0]]
  BY DEF Hooks!SubmitHandled
<1>3. UNCHANGED <<slot8, slot9>>
  BY DEF Hooks!SubmitHandled
<1>4. /\ slot10'.answer = answer /\ slot10'.kind = slot10.kind /\ DOMAIN slot10' = DOMAIN slot10
      /\ slot10.kind = "create" => slot10'.flow = slot10.flow /\ slot10'.version = slot10.version
  BY <1>1, <1>2 DEF HooksForm
<1>5. HooksForm' /\ Hooks!FormFits'
  BY <1>1, <1>3, <1>4 DEF HooksForm, Hooks!FormFits
<1>6. CASE slot5' = slot5 /\ answer \notin Hook
  BY <1>2, <1>4, <1>5, <1>6, HooksForms
<1>7. ASSUME answer \in Hook, NEW row, slot5' = [slot5 EXCEPT ![answer] = row], row.live \in BOOLEAN,
             row.live => /\ DOMAIN row = {"live", "flow", "version", "active", "token"}
                         /\ row.version = row.flow,
             slot5[answer] # Hooks!Removed
      PROVE  /\ HooksFormInv'
             /\ \A h \in Hook : slot5[h] = Hooks!Removed => slot5'[h] = Hooks!Removed
  <2>1. HooksStored' /\ Hooks!VersionFits'
    BY <1>7, HooksUpdates
  <2>2. \A h \in Hook : slot5[h] = Hooks!Removed => slot5'[h] = Hooks!Removed
    BY <1>1, <1>7 DEF HooksStored
  <2> QED
    BY <1>5, <2>1, <2>2 DEF HooksFormInv
<1>8. CASE Hooks!Update(slot10.id, slot10.active, answer) /\ answer \in Hook
  <2>1. CASE slot5[slot10.id].live
    <3> DEFINE row == [slot5[answer] EXCEPT !.active = slot10.active]
    <3>1. answer = slot10.id /\ slot5' = [slot5 EXCEPT ![answer] = row]
      BY <1>8, <2>1 DEF Hooks!Update
    <3>2. slot5[answer].live /\ DOMAIN slot5[answer] = {"live", "flow", "version", "active", "token"}
          /\ slot5[answer].version = slot5[answer].flow
      BY <1>1, <1>8, <2>1, <3>1 DEF HooksStored, Hooks!VersionFits
    <3>3. DOMAIN row = {"live", "flow", "version", "active", "token"} /\ row.version = row.flow
          /\ row.live = slot5[answer].live
      BY <3>2
    <3>4. row.live \in BOOLEAN
      BY <1>1, <1>8, <3>3 DEF HooksStored
    <3> HIDE DEF row
    <3>5. slot5[answer] # Hooks!Removed
      BY <3>2, HooksRecords
    <3> QED
      BY <1>2, <1>4, <1>7, <1>8, <3>1, <3>3, <3>4, <3>5
  <2>2. CASE ~slot5[slot10.id].live
    <3>1. slot5' = slot5
      BY <1>8, <2>2 DEF Hooks!Update
    <3> QED
      BY <1>2, <1>4, <1>5, <3>1, HooksForms
  <2> QED
    BY <2>1, <2>2
<1>9. CASE Hooks!Update(slot10.id, slot10.active, answer) /\ answer \notin Hook
  <2>1. CASE slot5[slot10.id].live
    <3>1. slot5' = [slot5 EXCEPT ![answer].active = slot10.active]
      BY <1>9, <2>1 DEF Hooks!Update
    <3>2. slot5' = slot5
      BY <1>1, <1>9, <3>1 DEF HooksStored
    <3> QED
      BY <1>6, <1>9, <3>2
  <2>2. CASE ~slot5[slot10.id].live
    BY <1>6, <1>9, <2>2 DEF Hooks!Update
  <2> QED
    BY <2>1, <2>2
<1>10. CASE /\ slot10.kind = "create" /\ answer \in Hook /\ slot5[answer] = Hooks!Absent
            /\ slot5' = [slot5 EXCEPT ![answer] =
                 [live |-> TRUE, flow |-> slot10.flow, version |-> slot10.version,
                  active |-> TRUE, token |-> 0]]
  <2> DEFINE row == [live |-> TRUE, flow |-> slot10.flow, version |-> slot10.version,
                     active |-> TRUE, token |-> 0]
  <2>1. row.live = TRUE /\ DOMAIN row = {"live", "flow", "version", "active", "token"}
        /\ row.version = slot10.version /\ row.flow = slot10.flow
    OBVIOUS
  <2>2. row.version = row.flow
    BY <1>1, <1>10, <2>1 DEF Hooks!FormFits
  <2>3. slot5' = [slot5 EXCEPT ![answer] = row] /\ slot5[answer] # Hooks!Removed
    BY <1>10, HooksRecords
  <2> HIDE DEF row
  <2> QED
    BY <1>2, <1>4, <1>7, <1>10, <2>1, <2>2, <2>3
<1> QED
  BY <1>2, <1>8, <1>9, <1>10

\* The actions under way, of rows of webhooks; slot7, slot11 and slot13 are
\* chosen, acts and told.
HooksActs ==
  /\ slot13 \subseteq Hook
  /\ slot6 \notin {"none", "create"} => "id" \in DOMAIN slot7
  /\ \A a \in slot11 : /\ DOMAIN a = {"kind", "row", "number", "token", "answer"}
                       /\ a.kind \in {"toggle", "delete", "regenerate"}
                       /\ "id" \in DOMAIN a.row /\ a.row.id \in Hook
  /\ slot3 \in BOOLEAN /\ slot4 \in BOOLEAN
HooksListInv ==
  /\ ListInv /\ HooksActs /\ Hooks!DeletedIsFinal
  /\ Hooks!AnswersAreClean /\ Hooks!AnswersAreCurrent
  /\ \A rows \in Hooks!Answers \cup {Hooks!Shown} : \A r \in rows : "id" \in DOMAIN r

HooksInv == HooksFormInv /\ HooksListInv

LEMMA HooksTold ==
  HooksInv => Hooks!DeletedStaysAway /\ Hooks!ListIsCurrent /\ Hooks!VersionFits
<1> SUFFICES ASSUME HooksInv
             PROVE  Hooks!DeletedStaysAway /\ Hooks!ListIsCurrent /\ Hooks!VersionFits
  OBVIOUS
<1>1. Hooks!DeletedStaysAway /\ Hooks!VersionFits
  BY DEF HooksInv, HooksFormInv, HooksListInv, Hooks!AnswersAreClean, Hooks!DeletedStaysAway
<1>2. ASSUME Hooks!Quiet, slot11 = {}, slot10 = Hooks!NoSubmit, slot12 = None, slot14 = {}
      PROVE  slot2 = Hooks!Rows
  <2>1. Hooks!Current = {} /\ ~slot4
    BY <1>2 DEF Hooks!Quiet, Hooks!Current
  <2>2. ~Hooks!Unheard
    BY <1>2, HooksRecords, ListsAssumption DEF Hooks!Unheard
  <2> QED
    BY <2>1, <2>2 DEF HooksInv, HooksListInv, Hooks!AnswersAreCurrent
<1> QED
  BY <1>1, <1>2 DEF Hooks!ListIsCurrent

LEMMA HooksListStarts == Hooks!Init => HooksListInv
<1> SUFFICES ASSUME Hooks!Init PROVE HooksListInv
  OBVIOUS
<1>1. slot1 = <<List!Request("all")>> /\ slot2 = {} /\ slot3 = TRUE /\ slot4 = FALSE
      /\ slot6 = "none" /\ slot11 = {} /\ slot13 = {}
  BY DEF Hooks!Init, Hooks!ListInit, Hooks!Request, List!Request
<1>2. ListInv /\ Hooks!Answers = {} /\ Hooks!Current # {} /\ Hooks!Shown = {}
  BY <1>1, ListStarts, HooksList DEF Hooks!Shown
<1>3. HooksActs /\ Hooks!DeletedIsFinal
  BY <1>1 DEF HooksActs, Hooks!DeletedIsFinal
<1>4. Hooks!AnswersAreClean /\ Hooks!AnswersAreCurrent
  BY <1>2 DEF Hooks!AnswersAreClean, Hooks!AnswersAreCurrent
<1> QED
  BY <1>2, <1>3, <1>4 DEF HooksListInv

\* What leaves the list alone: either nothing was changed, or it is not heard yet.
LEMMA HooksStays ==
  ASSUME HooksListInv, UNCHANGED <<slot1, slot2, slot3, slot4, slot13>>,
         HooksActs', Hooks!DeletedIsFinal',
         Hooks!Unheard' \/ (slot5' = slot5 /\ ~Hooks!Unheard)
  PROVE  HooksListInv'
<1>1. ListInv /\ Hooks!AnswersAreClean /\ Hooks!AnswersAreCurrent
      /\ \A rows \in Hooks!Answers \cup {Hooks!Shown} : \A r \in rows : "id" \in DOMAIN r
  BY DEF HooksListInv
<1>2. ListInv' /\ Hooks!Answers' = Hooks!Answers /\ Hooks!Current' = Hooks!Current
      /\ Hooks!Shown' = Hooks!Shown
  BY <1>1, HooksList, ListStays DEF Hooks!Shown
<1>3. Hooks!AnswersAreClean'
  BY <1>1, <1>2 DEF Hooks!AnswersAreClean
<1>4. slot5' = slot5 => Hooks!Rows' = Hooks!Rows
  BY DEF Hooks!Rows, Hooks!Row
<1>5. Hooks!AnswersAreCurrent'
  BY <1>1, <1>2, <1>4 DEF Hooks!AnswersAreCurrent
<1> QED
  BY <1>1, <1>2, <1>3, <1>5 DEF HooksListInv

LEMMA HooksAsks ==
  ASSUME HooksListInv, Hooks!Ask("all"), HooksActs', Hooks!DeletedIsFinal'
  PROVE  HooksListInv'
<1>1. ListInv' /\ Hooks!Answers' = {} /\ Hooks!Current' # {} /\ slot3' = TRUE
  BY HooksList, ListAsked DEF HooksListInv
<1>2. Hooks!Shown' = {}
  BY <1>1 DEF Hooks!Shown
<1>3. Hooks!AnswersAreClean' /\ Hooks!AnswersAreCurrent'
  BY <1>1, <1>2 DEF Hooks!AnswersAreClean, Hooks!AnswersAreCurrent
<1> QED
  BY <1>1, <1>2, <1>3 DEF HooksListInv

LEMMA HooksListMoves ==
  ASSUME HooksListInv, NEW i \in DOMAIN slot1,
         Hooks!ListHandled(i) \/ Hooks!ListAnswered(i) \/ Hooks!ListFails(i)
  PROVE  HooksListInv'
<1>1. ListInv /\ HooksActs /\ Hooks!DeletedIsFinal /\ Hooks!AnswersAreClean
      /\ Hooks!AnswersAreCurrent
      /\ \A rows \in Hooks!Answers \cup {Hooks!Shown} : \A r \in rows : "id" \in DOMAIN r
  BY DEF HooksListInv
<1>2. UNCHANGED <<slot5, slot6, slot7, slot10, slot11, slot12, slot13, slot14>>
  BY DEF Hooks!ListHandled, Hooks!ListAnswered, Hooks!ListFails, Hooks!formVars
<1>3. Hooks!DeletedIsFinal' /\ Hooks!Rows' = Hooks!Rows /\ Hooks!Unheard' = Hooks!Unheard
  BY <1>1, <1>2 DEF Hooks!DeletedIsFinal, Hooks!Rows, Hooks!Row, Hooks!Unheard
<1>4. \A r \in Hooks!Rows : r.id \in Hook \ slot13 /\ "id" \in DOMAIN r
  <2>1. \A h : Hooks!Row(h).id = h /\ "id" \in DOMAIN Hooks!Row(h)
    BY DEF Hooks!Row
  <2>2. \A h \in Hook : slot5[h].live => h \notin slot13
    BY <1>1, HooksRecords DEF Hooks!DeletedIsFinal
  <2> QED
    BY <2>1, <2>2 DEF Hooks!Rows
<1>5. /\ ListInv' /\ slot3' \in BOOLEAN /\ slot4' \in BOOLEAN
      /\ Hooks!Answers' \subseteq Hooks!Answers \cup {Hooks!Rows}
      /\ \/ /\ Hooks!Current' = {} /\ slot2' \in Hooks!Answers
         \/ slot2' = slot2 /\ slot4' = TRUE
         \/ /\ slot2' = slot2 /\ slot3' = slot3 /\ slot4' = slot4
            /\ Hooks!Current' = {} <=> Hooks!Current = {}
  <2>1. CASE Hooks!ListHandled(i)
    BY <1>1, <2>1, HooksList, ListHandled DEF HooksActs, Hooks!ListHandled
  <2>2. CASE Hooks!ListAnswered(i)
    BY <1>1, <2>2, HooksList, ListAnswered DEF HooksActs, Overtaken, Hooks!ListAnswered
  <2>3. CASE Hooks!ListFails(i)
    BY <1>1, <2>3, HooksList, ListFailed DEF HooksActs, Overtaken, Hooks!ListFails
  <2> QED
    BY <2>1, <2>2, <2>3
<1>6. HooksActs'
  BY <1>1, <1>2, <1>5 DEF HooksActs
<1>7. Hooks!AnswersAreCurrent'
  BY <1>1, <1>3, <1>5 DEF Hooks!AnswersAreCurrent
<1>8. \A rows \in Hooks!Answers' : \A r \in rows : r.id \in Hook \ slot13 /\ "id" \in DOMAIN r
  BY <1>1, <1>4, <1>5 DEF Hooks!AnswersAreClean
<1>9. \A r \in Hooks!Shown' : r.id \in Hook \ slot13 /\ "id" \in DOMAIN r
  BY <1>1, <1>4, <1>5 DEF Hooks!AnswersAreClean, Hooks!Shown
<1>10. Hooks!AnswersAreClean'
  BY <1>2, <1>8, <1>9 DEF Hooks!AnswersAreClean
<1> QED
  BY <1>3, <1>5, <1>6, <1>7, <1>8, <1>9, <1>10 DEF HooksListInv

\* An action at the service.
LEMMA HooksPerforms ==
  ASSUME HooksInv, NEW a \in slot11, Hooks!ActHandled(a)
  PROVE  HooksInv'
<1> DEFINE h == a.row.id
           row == Hooks!Performed(a)
           answer == IF slot5[h].live THEN "ok" ELSE "404"
           token == IF slot5'[h].live THEN slot5'[h].token ELSE 0
           b == [a EXCEPT !.answer = answer, !.token = token]
<1>1. HooksStored /\ HooksForm /\ Hooks!FormFits /\ Hooks!VersionFits /\ HooksListInv
      /\ HooksActs /\ Hooks!DeletedIsFinal /\ HooksFormInv
  BY DEF HooksInv, HooksFormInv, HooksListInv
<1>2. UNCHANGED <<slot1, slot2, slot3, slot4, slot6, slot7, slot8, slot9, slot10, slot12, slot13,
                  slot14>>
      /\ slot11' = (slot11 \ {a}) \cup {b} /\ a.answer = "none"
      /\ slot5' = IF slot5[h].live THEN [slot5 EXCEPT ![h] = row] ELSE slot5
  BY DEF Hooks!ActHandled, Hooks!listVars, Hooks!formVars
<1>3. /\ DOMAIN b = {"kind", "row", "number", "token", "answer"} /\ b.kind = a.kind
      /\ b.row = a.row /\ b.answer = answer
  <2>1. DOMAIN a = {"kind", "row", "number", "token", "answer"}
    BY <1>1 DEF HooksActs
  <2> HIDE DEF answer, token
  <2> QED
    BY <2>1
<1>4. h \in Hook
  BY <1>1 DEF HooksActs
<1>5. slot5[h].live => /\ row.live \in BOOLEAN
                       /\ row.live => /\ DOMAIN row = {"live", "flow", "version", "active", "token"}
                                      /\ row.version = row.flow
                       /\ a.kind = "delete" => row = Hooks!Removed
  <2> SUFFICES ASSUME slot5[h].live
               PROVE  /\ row.live \in BOOLEAN
                      /\ row.live => /\ DOMAIN row = {"live", "flow", "version", "active", "token"}
                                     /\ row.version = row.flow
                      /\ a.kind = "delete" => row = Hooks!Removed
    OBVIOUS
  <2> DEFINE old == slot5[h]
  <2>1. DOMAIN old = {"live", "flow", "version", "active", "token"} /\ old.version = old.flow
        /\ old.live \in BOOLEAN
    BY <1>1, <1>4 DEF HooksStored, Hooks!VersionFits
  <2>2. CASE a.kind = "delete"
    BY <2>2, HooksRecords DEF Hooks!Performed
  <2>3. CASE a.kind = "toggle"
    <3> DEFINE v == ~a.row.active
    <3>1. row = [old EXCEPT !.active = v]
      BY <2>3 DEF Hooks!Performed
    <3> HIDE DEF row, old, v
    <3> QED
      BY <2>1, <2>3, <3>1
  <2>4. CASE a.kind = "regenerate"
    <3> DEFINE v == old.token + 1
    <3>1. row = [old EXCEPT !.token = v]
      BY <2>4 DEF Hooks!Performed
    <3> HIDE DEF row, old, v
    <3> QED
      BY <2>1, <2>4, <3>1
  <2> QED
    BY <1>1, <2>2, <2>3, <2>4 DEF HooksActs
<1> HIDE DEF row, b
<1>6. HooksForm' /\ Hooks!FormFits'
  BY <1>1, <1>2 DEF HooksForm, Hooks!FormFits
<1>7. HooksFormInv'
  <2>1. CASE slot5[h].live
    <3>1. HooksStored' /\ Hooks!VersionFits'
      BY <1>1, <1>2, <1>4, <1>5, <2>1, HooksUpdates
    <3> QED
      BY <1>6, <3>1 DEF HooksFormInv
  <2>2. CASE ~slot5[h].live
    BY <1>1, <1>2, <1>6, <2>2, HooksForms
  <2> QED
    BY <2>1, <2>2
<1>8. \A g \in Hook : slot5[g] = Hooks!Removed => slot5'[g] = Hooks!Removed
  BY <1>1, <1>2, <1>4, HooksRecords DEF HooksStored
<1>9. b.kind = "delete" /\ b.answer = "ok" => slot5'[h] = Hooks!Removed
  BY <1>1, <1>2, <1>3, <1>4, <1>5 DEF HooksStored
<1>10. HooksActs'
  BY <1>1, <1>2, <1>3 DEF HooksActs
<1>11. Hooks!DeletedIsFinal'
  BY <1>1, <1>2, <1>3, <1>8, <1>9 DEF Hooks!DeletedIsFinal, HooksActs
<1>12. Hooks!Unheard' \/ (slot5' = slot5 /\ ~Hooks!Unheard)
  <2>1. Hooks!Unheard => Hooks!Unheard'
    BY <1>2 DEF Hooks!Unheard
  <2>2. slot5[h].live => Hooks!Unheard'
    BY <1>2, <1>3 DEF Hooks!Unheard
  <2> QED
    BY <1>2, <2>1, <2>2
<1> QED
  BY <1>1, <1>2, <1>7, <1>10, <1>11, <1>12, HooksStays DEF HooksInv

\* The forms.
LEMMA HooksFormSteps ==
  ASSUME HooksFormInv,
         \/ UNCHANGED <<slot5, slot8, slot9, slot10>>
         \/ Hooks!OpenEdit \/ Hooks!Close \/ Hooks!OpenCreate \/ Hooks!ToggleActive
         \/ \E f \in Flow : Hooks!SelectFlow(f)
         \/ \E v \in slot9 : Hooks!VersionsAnswered(v)
         \/ Hooks!Submit \/ Hooks!SubmitAnswered \/ Hooks!SubmitFails
  PROVE  HooksFormInv'
<1>1. HooksForm /\ Hooks!FormFits
  BY DEF HooksFormInv
<1>2. CASE UNCHANGED <<slot5, slot8, slot9, slot10>>
  <2>1. HooksForm' /\ Hooks!FormFits'
    BY <1>1, <1>2 DEF HooksForm, Hooks!FormFits
  <2> QED
    BY <1>2, <2>1, HooksForms
<1>3. CASE Hooks!OpenEdit \/ Hooks!Close \/ Hooks!OpenCreate
  <2>1. slot9' = Hooks!Dead /\ UNCHANGED <<slot5, slot10>>
    BY <1>3 DEF Hooks!OpenEdit, Hooks!Close, Hooks!OpenCreate
  <2>2. {"flow", "version"} \subseteq DOMAIN slot8' /\ slot8'.version = None
    BY <1>3, HooksRecords DEF Hooks!OpenEdit, Hooks!Close, Hooks!OpenCreate
  <2>3. HooksForm' /\ Hooks!FormFits'
    BY <1>1, <2>1, <2>2, HooksDead DEF HooksForm, Hooks!FormFits
  <2> QED
    BY <2>1, <2>3, HooksForms
<1>4. CASE Hooks!ToggleActive
  <2>1. UNCHANGED <<slot5, slot9, slot10>> /\ DOMAIN slot8' = DOMAIN slot8
        /\ slot8'.flow = slot8.flow /\ slot8'.version = slot8.version
    BY <1>1, <1>4 DEF Hooks!ToggleActive, HooksForm
  <2>2. HooksForm' /\ Hooks!FormFits'
    BY <1>1, <2>1 DEF HooksForm, Hooks!FormFits
  <2> QED
    BY <2>1, <2>2, HooksForms
<1>5. ASSUME NEW f \in Flow, Hooks!SelectFlow(f) PROVE HooksFormInv'
  <2> DEFINE new == [flow |-> f, alive |-> TRUE]
  <2>1. UNCHANGED <<slot5, slot10>> /\ slot9' = Hooks!Dead \cup {new}
        /\ slot8' = [slot8 EXCEPT !.flow = f, !.version = None]
    BY <1>5 DEF Hooks!SelectFlow
  <2>2. DOMAIN slot8' = DOMAIN slot8 /\ slot8'.flow = f /\ slot8'.version = None
    BY <1>1, <2>1 DEF HooksForm
  <2>3. DOMAIN new = {"flow", "alive"} /\ new.flow = f
    OBVIOUS
  <2> HIDE DEF new
  <2>4. HooksForm' /\ Hooks!FormFits'
    BY <1>1, <2>1, <2>2, <2>3, HooksDead DEF HooksForm, Hooks!FormFits
  <2> QED
    BY <2>1, <2>4, HooksForms
<1>6. ASSUME NEW v \in slot9, Hooks!VersionsAnswered(v) PROVE HooksFormInv'
  <2>1. UNCHANGED <<slot5, slot10>> /\ slot9' = slot9 \ {v}
        /\ slot8' = IF v.alive THEN [slot8 EXCEPT !.version = v.flow] ELSE slot8
    BY <1>6 DEF Hooks!VersionsAnswered
  <2>2. /\ DOMAIN slot8' = DOMAIN slot8 /\ slot8'.flow = slot8.flow
        /\ slot8'.version = slot8.version \/ (v.alive /\ slot8'.version = v.flow)
    BY <1>1, <2>1 DEF HooksForm
  <2>3. HooksForm'
    BY <1>1, <2>1, <2>2 DEF HooksForm
  <2>4. Hooks!FormFits'
    BY <1>1, <2>1, <2>2 DEF Hooks!FormFits
  <2> QED
    BY <2>1, <2>3, <2>4, HooksForms
<1>7. CASE Hooks!Submit \/ Hooks!SubmitAnswered \/ Hooks!SubmitFails
  <2>1. UNCHANGED <<slot5, slot8, slot9>>
    BY <1>7 DEF Hooks!Submit, Hooks!SubmitAnswered, Hooks!SubmitFails
  <2>2. /\ {"kind", "answer"} \subseteq DOMAIN slot10'
        /\ slot10'.kind = "create" => /\ {"flow", "version"} \subseteq DOMAIN slot10'
                                      /\ slot10'.version = slot10'.flow
    <3>1. CASE Hooks!SubmitAnswered \/ Hooks!SubmitFails
      BY <3>1, HooksRecords DEF Hooks!SubmitAnswered, Hooks!SubmitFails
    <3>2. CASE /\ slot8.version # None
               /\ slot10' = [kind |-> "create", flow |-> slot8.flow, version |-> slot8.version,
                             answer |-> "none"]
      BY <1>1, <3>2 DEF Hooks!FormFits
    <3>3. CASE slot10' = [kind |-> "update", id |-> slot7.id, active |-> slot8.active,
                          answer |-> "none"]
      BY <3>3
    <3>4. CASE slot10' = slot10
      BY <1>1, <3>4 DEF HooksForm, Hooks!FormFits
    <3> QED
      BY <1>7, <3>1, <3>2, <3>3, <3>4 DEF Hooks!Submit
  <2>3. HooksForm' /\ Hooks!FormFits'
    BY <1>1, <2>1, <2>2 DEF HooksForm, Hooks!FormFits
  <2> QED
    BY <2>1, <2>3, HooksForms
<1> QED
  BY <1>2, <1>3, <1>4, <1>5, <1>6, <1>7

\* What of the actions and the dialogs keeps the list as it is.
LEMMA HooksQuietSteps ==
  ASSUME HooksInv,
         UNCHANGED <<slot1, slot2, slot3, slot4, slot5, slot13>>,
         slot6' \notin {"none", "create"} =>
           \/ slot6 \notin {"none", "create"} /\ slot7' = slot7
           \/ slot7'.id \in Hook /\ "id" \in DOMAIN slot7',
         \/ slot11' \subseteq slot11
         \/ \E a : /\ slot11' = slot11 \cup {a} /\ slot6 \notin {"none", "create"}
                   /\ \E kind \in {"toggle", "delete", "regenerate"} :
                        a = [kind |-> kind, row |-> slot7, number |-> slot15["acts"],
                             token |-> 0, answer |-> "none"],
         Hooks!Unheard => Hooks!Unheard'
  PROVE  HooksListInv'
<1>1. HooksActs /\ Hooks!DeletedIsFinal /\ HooksListInv
  BY DEF HooksInv, HooksListInv
<1>2. \A a \in slot11' : a \in slot11
         \/ /\ DOMAIN a = {"kind", "row", "number", "token", "answer"} /\ a.answer = "none"
            /\ a.kind \in {"toggle", "delete", "regenerate"}
            /\ a.row = slot7 /\ slot6 \notin {"none", "create"}
  OBVIOUS
<1>3. slot6 \notin {"none", "create"} => slot7.id \in Hook /\ "id" \in DOMAIN slot7
  BY <1>1 DEF Hooks!DeletedIsFinal, HooksActs
<1>4. HooksActs'
  BY <1>1, <1>2, <1>3 DEF HooksActs
<1>5. Hooks!DeletedIsFinal'
  BY <1>1, <1>2, <1>3 DEF Hooks!DeletedIsFinal
<1> QED
  BY <1>1, <1>4, <1>5, HooksStays

LEMMA HooksListSteps ==
  ASSUME HooksInv, Hooks!Next \/ UNCHANGED Hooks!vars
  PROVE  HooksListInv' \/ \E a \in slot11 : Hooks!ActHandled(a)
<1>1. HooksActs /\ Hooks!DeletedIsFinal /\ HooksListInv /\ HooksForm
      /\ \A r \in Hooks!Shown : r.id \in Hook /\ "id" \in DOMAIN r
  BY DEF HooksInv, HooksListInv, HooksFormInv, Hooks!AnswersAreClean
<1>2. CASE \/ UNCHANGED Hooks!vars \/ Hooks!ToggleActive
           \/ \E f \in Flow : Hooks!SelectFlow(f)
           \/ \E v \in slot9 : Hooks!VersionsAnswered(v)
  <2>1. UNCHANGED <<slot1, slot2, slot3, slot4, slot5, slot6, slot7, slot10, slot11, slot12, slot13,
                    slot14>>
    BY <1>2 DEF Hooks!vars, Hooks!listVars, Hooks!formVars, Hooks!ToggleActive, Hooks!SelectFlow,
       Hooks!VersionsAnswered
  <2>2. Hooks!Unheard => Hooks!Unheard'
    BY <2>1 DEF Hooks!Unheard
  <2> QED
    BY <2>1, <2>2, HooksQuietSteps
<1>3. CASE \/ Hooks!OpenEdit \/ Hooks!AskRegenerate \/ Hooks!AskDelete \/ Hooks!Close
           \/ Hooks!OpenCreate \/ \E r \in Hooks!Shown : Hooks!ShowDetails(r)
  <2>1. UNCHANGED <<slot1, slot2, slot3, slot4, slot5, slot10, slot11, slot12, slot13, slot14>>
    BY <1>3 DEF Hooks!OpenEdit, Hooks!AskRegenerate, Hooks!AskDelete, Hooks!Close,
       Hooks!OpenCreate, Hooks!ShowDetails, Hooks!listVars, Hooks!formVars
  <2>2. slot6' \notin {"none", "create"} =>
          \/ slot6 \notin {"none", "create"} /\ slot7' = slot7
          \/ slot7'.id \in Hook /\ "id" \in DOMAIN slot7'
    BY <1>1, <1>3 DEF Hooks!OpenEdit, Hooks!AskRegenerate, Hooks!AskDelete, Hooks!Close,
       Hooks!OpenCreate, Hooks!ShowDetails
  <2>3. Hooks!Unheard => Hooks!Unheard'
    BY <2>1 DEF Hooks!Unheard
  <2> QED
    BY <2>1, <2>2, <2>3, HooksQuietSteps
<1>4. CASE Hooks!RetryList \/ Hooks!CloseCredential
  <2>1. Hooks!Ask("all") /\ UNCHANGED <<slot5, slot6, slot7, slot11, slot13>>
    BY <1>4 DEF Hooks!RetryList, Hooks!CloseCredential, Hooks!formVars
  <2>2. HooksActs' /\ Hooks!DeletedIsFinal'
    BY <1>1, <2>1 DEF HooksActs, Hooks!DeletedIsFinal, Hooks!Ask
  <2> QED
    BY <1>1, <2>1, <2>2, HooksAsks
<1>5. CASE Hooks!Submit
  <2>1. UNCHANGED <<slot5, slot7, slot11, slot12, slot13, slot14>> /\ slot10 = Hooks!NoSubmit
        /\ (slot6' = slot6 \/ slot6' = "none")
    BY <1>5 DEF Hooks!Submit
  <2>2. CASE UNCHANGED Hooks!listVars
    <3>1. Hooks!Unheard => Hooks!Unheard'
      BY <2>1, HooksRecords, ListsAssumption DEF Hooks!Unheard
    <3> QED
      BY <2>1, <2>2, <3>1, HooksQuietSteps DEF Hooks!listVars
  <2>3. CASE Hooks!Ask("all")
    <3>1. HooksActs' /\ Hooks!DeletedIsFinal'
      BY <1>1, <2>1, <2>3 DEF HooksActs, Hooks!DeletedIsFinal, Hooks!Ask
    <3> QED
      BY <1>1, <2>3, <3>1, HooksAsks
  <2> QED
    BY <1>5, <2>2, <2>3 DEF Hooks!Submit
<1>6. CASE Hooks!SubmitHandled
  <2>1. UNCHANGED <<slot1, slot2, slot3, slot4, slot6, slot7, slot11, slot12, slot13, slot14>>
        /\ slot10.answer = "none"
    BY <1>6 DEF Hooks!SubmitHandled, Hooks!listVars
  <2>2. PICK answer \in Hook \cup {"404"} :
          slot10'.answer = answer /\ (answer \in Hook \/ slot5' = slot5)
    BY <1>6, HooksSubmits DEF HooksInv
  <2>3. \A h \in Hook : slot5[h] = Hooks!Removed => slot5'[h] = Hooks!Removed
    BY <1>6, HooksSubmits DEF HooksInv
  <2>4. HooksActs' /\ Hooks!DeletedIsFinal'
    BY <1>1, <2>1, <2>3 DEF HooksActs, Hooks!DeletedIsFinal
  <2>5. Hooks!Unheard' \/ (slot5' = slot5 /\ ~Hooks!Unheard)
    BY <2>1, <2>2, ListsAssumption DEF Hooks!Unheard
  <2> QED
    BY <1>1, <2>1, <2>4, <2>5, HooksStays
<1>7. CASE Hooks!SubmitAnswered
  <2>1. UNCHANGED <<slot5, slot7, slot11, slot13, slot14>> /\ slot6' = "none"
    BY <1>7 DEF Hooks!SubmitAnswered
  <2>2. CASE slot10.kind = "create"
    <3>1. slot12' = [id |-> slot10.answer, token |-> 0] /\ slot10.answer \in Hook
          /\ UNCHANGED <<slot1, slot2, slot3, slot4>>
      BY <1>7, <2>2 DEF Hooks!SubmitAnswered, Hooks!listVars
    <3>2. slot12' # None
      BY <3>1, ListsAssumption
    <3>3. Hooks!Unheard'
      BY <3>2 DEF Hooks!Unheard
    <3> QED
      BY <2>1, <3>1, <3>3, HooksQuietSteps
  <2>3. CASE slot10.kind # "create"
    <3>1. Hooks!Ask("all")
      BY <1>7, <2>3 DEF Hooks!SubmitAnswered
    <3>2. HooksActs' /\ Hooks!DeletedIsFinal'
      BY <1>1, <2>1, <3>1 DEF HooksActs, Hooks!DeletedIsFinal, Hooks!Ask
    <3> QED
      BY <1>1, <3>1, <3>2, HooksAsks
  <2> QED
    BY <2>2, <2>3
<1>8. CASE Hooks!SubmitFails
  <2>1. /\ UNCHANGED <<slot1, slot2, slot3, slot4, slot5, slot6, slot7, slot11, slot12, slot13>>
        /\ \/ slot14' = Hook
           \/ slot14' = slot14 /\ slot10.answer = "404"
    BY <1>8 DEF Hooks!SubmitFails, Hooks!listVars
  <2>2. Hooks!Unheard => Hooks!Unheard'
    <3>1. CASE slot10.answer \in Hook
      BY <2>1, <3>1, ListsAssumption DEF Hooks!Unheard
    <3>2. CASE slot14' = Hook
      BY <2>1, <3>2, ListsAssumption DEF Hooks!Unheard
    <3> QED
      BY <2>1, <3>1, <3>2 DEF Hooks!Unheard
  <2> QED
    BY <2>1, <2>2, HooksQuietSteps
<1>9. ASSUME NEW kind \in {"toggle", "delete", "regenerate"}, Hooks!Act(kind) PROVE HooksListInv'
  <2>1. UNCHANGED <<slot1, slot2, slot3, slot4, slot5, slot6, slot7, slot10, slot12, slot13, slot14>>
        /\ slot6 \in {"details", "delete", "regenerate"}
    BY <1>9 DEF Hooks!Act, Hooks!listVars, Hooks!formVars
  <2> DEFINE a == [kind |-> kind, row |-> slot7, number |-> slot15["acts"],
                   token |-> 0, answer |-> "none"]
  <2>2. slot11' = slot11 \cup {a}
    BY <1>9 DEF Hooks!Act
  <2>3. Hooks!Unheard => Hooks!Unheard'
    BY <2>1, <2>2 DEF Hooks!Unheard
  <2>4. \E b : /\ slot11' = slot11 \cup {b} /\ slot6 \notin {"none", "create"}
               /\ \E k \in {"toggle", "delete", "regenerate"} :
                    b = [kind |-> k, row |-> slot7, number |-> slot15["acts"],
                         token |-> 0, answer |-> "none"]
    BY <2>1, <2>2
  <2> QED
    BY <2>1, <2>3, <2>4, HooksQuietSteps
<1>10. ASSUME NEW a \in slot11, Hooks!ActAnswered(a) PROVE HooksListInv'
  <2>1. /\ Hooks!Ask("all") /\ slot5' = slot5 /\ slot11' \subseteq slot11 /\ a.answer = "ok"
        /\ "id" \in DOMAIN a.row /\ a.row.id \in Hook
    BY <1>1, <1>10 DEF Hooks!ActAnswered, HooksActs
  <2>2. slot3' \in BOOLEAN /\ slot4' \in BOOLEAN
    BY <2>1 DEF Hooks!Ask
  <2>3. CASE a.kind = "toggle" /\ Hooks!Toggled(a)
    <3>1. slot7' = [a.row EXCEPT !.active = ~@] /\ UNCHANGED <<slot6, slot13>>
      BY <2>3 DEF Hooks!Toggled
    <3>2. slot7'.id = a.row.id /\ "id" \in DOMAIN slot7'
      BY <2>1, <3>1
    <3>3. HooksActs' /\ Hooks!DeletedIsFinal'
      BY <1>1, <2>1, <2>2, <3>1, <3>2 DEF HooksActs, Hooks!DeletedIsFinal
    <3> QED
      BY <1>1, <2>1, <3>3, HooksAsks
  <2>4. CASE a.kind = "delete" /\ Hooks!Deleted(a)
    <3>1. slot6' = "none" /\ slot13' = slot13 \cup {a.row.id}
      BY <2>4 DEF Hooks!Deleted
    <3>2. slot5[a.row.id] = Hooks!Removed
      BY <1>1, <2>1, <2>4 DEF Hooks!DeletedIsFinal
    <3>3. HooksActs' /\ Hooks!DeletedIsFinal'
      BY <1>1, <2>1, <2>2, <3>1, <3>2 DEF HooksActs, Hooks!DeletedIsFinal
    <3> QED
      BY <1>1, <2>1, <3>3, HooksAsks
  <2>5. CASE a.kind = "regenerate" /\ Hooks!Regenerated(a)
    <3>1. slot6' = "none" /\ slot13' = slot13
      BY <2>5 DEF Hooks!Regenerated
    <3>2. HooksActs' /\ Hooks!DeletedIsFinal'
      BY <1>1, <2>1, <2>2, <3>1 DEF HooksActs, Hooks!DeletedIsFinal
    <3> QED
      BY <1>1, <2>1, <3>2, HooksAsks
  <2> QED
    BY <1>10, <2>3, <2>4, <2>5 DEF Hooks!ActAnswered
<1>11. ASSUME NEW a \in slot11, Hooks!ActFails(a) PROVE HooksListInv'
  <2>1. /\ UNCHANGED <<slot1, slot2, slot3, slot4, slot5, slot6, slot7, slot10, slot12, slot13>>
        /\ slot11' = slot11 \ {a}
        /\ \/ slot14' = slot14 /\ a.answer = "404"
           \/ slot14' = slot14 \cup {a.row.id}
    BY <1>11 DEF Hooks!ActFails, Hooks!listVars, Hooks!formVars
  <2>2. Hooks!Unheard => Hooks!Unheard'
    BY <2>1 DEF Hooks!Unheard
  <2> QED
    BY <2>1, <2>2, HooksQuietSteps
<1>12. CASE \E i \in DOMAIN slot1 : Hooks!ListHandled(i) \/ Hooks!ListAnswered(i) \/ Hooks!ListFails(i)
  BY <1>1, <1>12, HooksListMoves
<1> QED
  BY <1>2, <1>3, <1>4, <1>5, <1>6, <1>7, <1>8, <1>9, <1>10, <1>11, <1>12 DEF Hooks!Next

LEMMA HooksSteps ==
  ASSUME HooksInv, Hooks!Next \/ UNCHANGED Hooks!vars PROVE HooksInv'
<1>1. CASE \E a \in slot11 : Hooks!ActHandled(a)
  BY <1>1, HooksPerforms
<1>2. HooksListInv' \/ \E a \in slot11 : Hooks!ActHandled(a)
  BY HooksListSteps
<1>3. HooksFormInv' \/ \E a \in slot11 : Hooks!ActHandled(a)
  <2>1. CASE Hooks!SubmitHandled
    BY <2>1, HooksSubmits DEF HooksInv
  <2>2. CASE \/ UNCHANGED Hooks!vars \/ Hooks!RetryList \/ Hooks!AskRegenerate \/ Hooks!AskDelete
             \/ Hooks!CloseCredential \/ \E r \in Hooks!Shown : Hooks!ShowDetails(r)
             \/ \E kind : Hooks!Act(kind)
             \/ \E a \in slot11 : Hooks!ActAnswered(a) \/ Hooks!ActFails(a)
             \/ \E i \in DOMAIN slot1 :
                  Hooks!ListHandled(i) \/ Hooks!ListAnswered(i) \/ Hooks!ListFails(i)
    <3>1. UNCHANGED <<slot5, slot8, slot9, slot10>>
      BY <2>2 DEF Hooks!vars, Hooks!formVars, Hooks!RetryList, Hooks!AskRegenerate,
         Hooks!AskDelete, Hooks!CloseCredential, Hooks!ShowDetails, Hooks!Act, Hooks!ActAnswered,
         Hooks!ActFails, Hooks!ListHandled, Hooks!ListAnswered, Hooks!ListFails
    <3> QED
      BY <3>1, HooksFormSteps DEF HooksInv
  <2> QED
    BY <2>1, <2>2, HooksFormSteps DEF HooksInv, Hooks!Next
<1> QED
  BY <1>1, <1>2, <1>3 DEF HooksInv

LEMMA HooksStarts == Hooks!Init => HooksInv
BY HooksFormStarts, HooksListStarts DEF HooksInv

-----------------------------------------------------------------------------
(* The page of the connections.  slot1 to slot4 are its list, slot5 to      *)
(* slot16 are stored, modal, selected, form, replace, saving, deleting,     *)
(* tests, testing, result, gone and unsure.                                 *)

LEMMA ConnsList ==
  /\ \A q : Conns!Ask(q) <=> List!Ask(q)
  /\ \A i, answer : Conns!Handled(i, answer) <=> List!Handled(i, answer)
  /\ \A i : Conns!Answered(i) <=> List!Answered(i)
  /\ \A i : Conns!Fails(i) <=> List!Fails(i)
  /\ Conns!Current = List!Current /\ Conns!Current' = List!Current'
  /\ Conns!Answers = List!Answers /\ Conns!Answers' = List!Answers'
  /\ Conns!Asked = List!Asked /\ Conns!Asked' = List!Asked'
BY DEF Conns!Ask, Conns!Handled, Conns!Answered, Conns!Fails, Conns!Without,
   Conns!Overtaken, Conns!Request,
   Conns!Current, Conns!Answers, Conns!Asked, List!Ask, List!Handled, List!Answered, List!Fails,
   List!Without, List!Overtaken, List!Request, List!Current, List!Answers, List!Asked

ConnsStoredType ==
  /\ slot5 = [c \in Conn |-> slot5[c]]
  /\ \A c \in Conn : Conns!Exists(c) =>
       DOMAIN slot5[c] = {"provider", "auth", "url", "key"} /\ slot5[c].auth \in Conns!Auth
ConnsFormType == DOMAIN slot8 = {"auth", "url", "credential"} /\ slot8.auth \in Conns!Auth
ConnsSaveType ==
  /\ {"kind", "answer"} \subseteq DOMAIN slot10
  /\ slot10.kind = "update" =>
       /\ DOMAIN slot10 = {"kind", "id", "payload", "answer"}
       /\ slot10.id \in Conn /\ slot10.payload.auth \in Conns!Auth
  /\ slot10.kind = "create" => "auth" \in DOMAIN slot10 /\ slot10.auth \in Conns!Auth
ConnsDeleteType ==
  /\ DOMAIN slot11 = {"id", "answer"}
  /\ slot11 # Conns!NoDelete => slot11.id \in Conn
ConnsRowsType ==
  /\ slot3 \in BOOLEAN /\ slot4 \in BOOLEAN /\ slot15 \subseteq Conn
  /\ \A rows \in Conns!Answers \cup {Conns!Shown} : \A r \in rows : r.auth \in Conns!Auth
  /\ slot6 \in {"details", "edit", "delete"} => slot7.auth \in Conns!Auth

ConnsType ==
  ConnsStoredType /\ ConnsFormType /\ ConnsSaveType /\ ConnsDeleteType /\ ConnsRowsType

ConnsListInv ==
  /\ ListInv /\ ConnsType /\ Conns!OneAtATime
  /\ Conns!DeletedIsFinal /\ Conns!AnswersAreClean /\ Conns!RowsFit

LEMMA ConnsListTold == ConnsListInv => Conns!DeletedStaysAway
BY DEF ConnsListInv, Conns!AnswersAreClean, Conns!DeletedStaysAway, Conns!Shown

LEMMA ConnsRecords ==
  /\ Conns!NoRow.id = None
  /\ Conns!NoSave.kind = "none" /\ Conns!NoSave.answer = "none"
  /\ DOMAIN Conns!NoSave = {"kind", "answer"}
  /\ DOMAIN Conns!NoDelete = {"id", "answer"} /\ Conns!NoDelete.answer = "none"
  /\ DOMAIN Conns!NewForm = {"auth", "url", "credential"} /\ Conns!NewForm.auth = "none"
  /\ Conns!Absent # Conns!Deleted
BY DEF Conns!NoRow, Conns!NoSave, Conns!NoDelete, Conns!NewForm, Conns!Absent, Conns!Deleted

LEMMA ConnsExist ==
  ASSUME NEW s, DOMAIN s = {"provider", "auth", "url", "key"}
  PROVE  s \notin {Conns!Absent, Conns!Deleted}
<1>1. DOMAIN Conns!Absent = {"provider"} /\ DOMAIN Conns!Deleted = {"provider"}
  BY DEF Conns!Absent, Conns!Deleted
<1>2. "auth" \in DOMAIN s /\ "auth" \notin {"provider"}
  OBVIOUS
<1> QED
  BY <1>1, <1>2

LEMMA ConnsListStarts == Conns!Init => ConnsListInv
<1> SUFFICES ASSUME Conns!Init PROVE ConnsListInv
  OBVIOUS
<1>1. slot1 = <<List!Request("all")>> /\ slot2 = {} /\ slot3 = TRUE /\ slot4 = FALSE
      /\ slot6 = "none" /\ slot8 = Conns!NewForm /\ slot10 = Conns!NoSave
      /\ slot11 = Conns!NoDelete /\ slot15 = {}
  BY DEF Conns!Init, Conns!ListInit, Conns!Request, List!Request
<1>2. ListInv /\ Conns!Answers = {} /\ Conns!Current # {} /\ Conns!Shown = {}
  BY <1>1, ListStarts, ConnsList DEF Conns!Shown
<1>3. ConnsStoredType
  <2> DEFINE s == [provider |-> "http", auth |-> "bearer", url |-> 0, key |-> "bearer"]
             k == CHOOSE c \in Conn : TRUE
  <2>1. slot5 = [d \in Conn |-> IF d = k THEN s ELSE Conns!Absent]
    BY DEF Conns!Init
  <2>2. DOMAIN s = {"provider", "auth", "url", "key"} /\ s.auth = "bearer"
    OBVIOUS
  <2> HIDE DEF s, k
  <2>3. \A c \in Conn : slot5[c] = s \/ slot5[c] = Conns!Absent
    BY <2>1
  <2>4. slot5 = [c \in Conn |-> slot5[c]]
    BY <2>1
  <2> QED
    BY <2>2, <2>3, <2>4 DEF ConnsStoredType, Conns!Exists, Conns!Auth
<1>4. ConnsFormType /\ ConnsSaveType /\ ConnsDeleteType /\ ConnsRowsType
  BY <1>1, <1>2, ConnsRecords
  DEF ConnsFormType, ConnsSaveType, ConnsDeleteType, ConnsRowsType, Conns!Auth
<1>5. Conns!OneAtATime /\ Conns!DeletedIsFinal /\ Conns!AnswersAreClean /\ Conns!RowsFit
  BY <1>1, <1>2, ConnsRecords
  DEF Conns!OneAtATime, Conns!DeletedIsFinal, Conns!AnswersAreClean, Conns!RowsFit
<1> QED
  BY <1>2, <1>3, <1>4, <1>5 DEF ConnsListInv, ConnsType

\* What a step may do to the connections for the rows of a list to stay as they
\* were known to be.
ConnsKept ==
  \A c \in Conn :
    /\ slot5[c] # Conns!Absent => slot5'[c] # Conns!Absent
    /\ slot5[c] = Conns!Deleted => slot5'[c] = Conns!Deleted
    /\ slot5[c] # Conns!Absent /\ Conns!Exists(c)' /\ c \notin slot16' \cup Conns!Saved' =>
         /\ Conns!Exists(c) /\ c \notin slot16 \cup Conns!Saved
         /\ slot5'[c].auth = slot5[c].auth

LEMMA ConnsRowStays ==
  ASSUME ConnsKept, NEW r, Conns!RowFits(r) PROVE Conns!RowFits(r)'
BY DEF ConnsKept, Conns!RowFits

LEMMA ConnsSame ==
  ASSUME slot5' = slot5, slot16' = slot16, Conns!Saved \subseteq Conns!Saved' PROVE ConnsKept
BY DEF ConnsKept, Conns!Exists

LEMMA ConnsStays ==
  ASSUME ConnsListInv, ConnsKept, UNCHANGED <<slot1, slot2, slot3, slot4, slot15>>,
         ConnsStoredType', ConnsFormType', ConnsSaveType', ConnsDeleteType', Conns!OneAtATime',
         slot6' \in {"details", "edit", "delete"} =>
           slot7' \in Conns!Shown
           \/ (slot7' = slot7 /\ slot6 \in {"details", "edit", "delete"}),
         slot11'.answer = "ok" => slot5'[slot11'.id] = Conns!Deleted
  PROVE  ConnsListInv'
<1>1. ListInv /\ ConnsType /\ Conns!DeletedIsFinal /\ Conns!AnswersAreClean /\ Conns!RowsFit
  BY DEF ConnsListInv
<1>2. ListInv' /\ Conns!Answers' = Conns!Answers /\ Conns!Shown' = Conns!Shown
  BY <1>1, ConnsList, ListStays DEF Conns!Shown
<1>3. ConnsRowsType'
  BY <1>1, <1>2 DEF ConnsType, ConnsRowsType
<1>4. Conns!AnswersAreClean'
  BY <1>1, <1>2 DEF Conns!AnswersAreClean
<1>5. Conns!DeletedIsFinal'
  BY <1>1 DEF Conns!DeletedIsFinal, ConnsKept, ConnsType, ConnsRowsType
<1>6. Conns!RowsFit'
  <2>1. \A rows \in Conns!Answers' \cup {Conns!Shown'} : \A r \in rows : Conns!RowFits(r)'
    BY <1>1, <1>2, ConnsRowStays DEF Conns!RowsFit
  <2>2. ASSUME slot6' \in {"details", "edit", "delete"} PROVE Conns!RowFits(slot7)'
    <3>1. PICK r : r = slot7' /\ Conns!RowFits(r)
      BY <1>1, <2>2 DEF Conns!RowsFit
    <3>2. Conns!RowFits(r)'
      BY <3>1, ConnsRowStays
    <3> QED
      BY <3>1, <3>2 DEF Conns!RowFits, Conns!Exists, Conns!Saved
  <2> QED
    BY <2>1, <2>2 DEF Conns!RowsFit
<1> QED
  BY <1>2, <1>3, <1>4, <1>5, <1>6 DEF ConnsListInv, ConnsType

LEMMA ConnsListMoves ==
  ASSUME ConnsListInv, NEW i \in DOMAIN slot1,
         UNCHANGED <<slot5, slot6, slot7, slot8, slot10, slot11, slot15, slot16>>,
         Conns!Handled(i, Conns!Rows) \/ Conns!Answered(i) \/ Conns!Fails(i)
  PROVE  ConnsListInv'
<1>1. ListInv /\ ConnsType /\ Conns!OneAtATime /\ Conns!DeletedIsFinal
      /\ Conns!AnswersAreClean /\ Conns!RowsFit
  BY DEF ConnsListInv
<1>2. Conns!DeletedIsFinal' /\ ConnsStoredType' /\ ConnsFormType' /\ ConnsSaveType'
      /\ ConnsDeleteType' /\ Conns!Saved' = Conns!Saved
  BY <1>1 DEF Conns!DeletedIsFinal, ConnsType, ConnsStoredType, ConnsFormType, ConnsSaveType,
     ConnsDeleteType, Conns!Exists, Conns!Saved
<1>3. ConnsKept
  BY <1>2, ConnsSame
<1>4. \A r \in Conns!Rows : Conns!RowFits(r) /\ r.id \notin slot15 /\ r.auth \in Conns!Auth
  <2> SUFFICES ASSUME NEW c \in Conn, Conns!Exists(c), NEW r, r = Conns!Row(c)
               PROVE  Conns!RowFits(r) /\ r.id \notin slot15 /\ r.auth \in Conns!Auth
    BY DEF Conns!Rows
  <2>1. r.id = c /\ r.auth = slot5[c].auth
    BY DEF Conns!Row
  <2>2. slot5[c] # Conns!Absent /\ c \notin slot15
    BY <1>1 DEF Conns!Exists, Conns!DeletedIsFinal
  <2> QED
    BY <1>1, <2>1, <2>2 DEF Conns!RowFits, ConnsType, ConnsStoredType
<1>5. /\ ListInv' /\ slot3' \in BOOLEAN /\ slot4' \in BOOLEAN
      /\ Conns!Answers' \subseteq Conns!Answers \cup {Conns!Rows}
      /\ \/ slot2' \in Conns!Answers
         \/ Conns!Shown' \subseteq Conns!Shown /\ slot2' = slot2
      /\ slot3' <=> Conns!Current' # {}
      /\ Conns!Current = {} => Conns!Current' = {}
  <2>0. (slot3 <=> Conns!Current # {}) /\ slot3 \in BOOLEAN /\ slot4 \in BOOLEAN
    BY <1>1 DEF Conns!OneAtATime, ConnsType, ConnsRowsType
  <2>1. CASE Conns!Handled(i, Conns!Rows)
    BY <1>1, <2>0, <2>1, ConnsList, ListHandled DEF Conns!Shown
  <2>2. CASE Conns!Answered(i)
    BY <1>1, <2>0, <2>2, ConnsList, ListAnswered DEF Overtaken, Conns!Shown
  <2>3. CASE Conns!Fails(i)
    BY <1>1, <2>0, <2>3, ConnsList, ListFailed DEF Overtaken, Conns!Shown
  <2> QED
    BY <2>1, <2>2, <2>3
<1>6. Conns!OneAtATime'
  BY <1>1, <1>5 DEF Conns!OneAtATime
<1>7. Conns!Shown' \in Conns!Answers \cup {{}} \/ Conns!Shown' \subseteq Conns!Shown
  BY <1>5 DEF Conns!Shown
<1>8. ConnsRowsType'
  BY <1>1, <1>4, <1>5, <1>7 DEF ConnsType, ConnsRowsType
<1>9. Conns!AnswersAreClean'
  BY <1>1, <1>4, <1>5, <1>7 DEF Conns!AnswersAreClean
<1>10. Conns!RowsFit'
  <2>1. \A rows \in Conns!Answers' \cup {Conns!Shown'} : \A r \in rows : Conns!RowFits(r)
    BY <1>1, <1>4, <1>5, <1>7 DEF Conns!RowsFit
  <2>2. \A rows \in Conns!Answers' \cup {Conns!Shown'} : \A r \in rows : Conns!RowFits(r)'
    BY <1>3, <2>1, ConnsRowStays
  <2>3. slot6' \in {"details", "edit", "delete"} => Conns!RowFits(slot7)'
    BY <1>1, <1>2 DEF Conns!RowsFit, Conns!RowFits, Conns!Exists
  <2> QED
    BY <2>2, <2>3 DEF Conns!RowsFit
<1> QED
  BY <1>2, <1>5, <1>6, <1>8, <1>9, <1>10 DEF ConnsListInv, ConnsType

LEMMA ConnsAsks ==
  ASSUME ConnsListInv, Conns!Ask("all"), UNCHANGED <<slot2, slot5, slot15>>, ConnsFormType',
         slot6' = "none", slot10' = Conns!NoSave, slot11' = Conns!NoDelete
  PROVE  ConnsListInv'
<1>1. ConnsType /\ Conns!DeletedIsFinal /\ Conns!AnswersAreClean
  BY DEF ConnsListInv
<1>2. /\ ListInv' /\ Conns!Answers' = {} /\ Conns!Current' # {}
      /\ slot3' = TRUE /\ slot4' = FALSE
  BY ConnsList, ListAsked DEF ConnsListInv
<1>3. Conns!Shown' = {}
  BY <1>2 DEF Conns!Shown
<1>4. ConnsStoredType' /\ ConnsSaveType' /\ ConnsDeleteType' /\ ConnsRowsType'
  BY <1>1, <1>2, <1>3, ConnsRecords
  DEF ConnsType, ConnsStoredType, ConnsSaveType, ConnsDeleteType, ConnsRowsType, Conns!Exists
<1>5. Conns!OneAtATime' /\ Conns!DeletedIsFinal' /\ Conns!AnswersAreClean' /\ Conns!RowsFit'
  BY <1>1, <1>2, <1>3, ConnsRecords
  DEF Conns!OneAtATime, Conns!DeletedIsFinal, Conns!AnswersAreClean, Conns!RowsFit
<1> QED
  BY <1>2, <1>4, <1>5 DEF ConnsListInv, ConnsType

\* What the dialogs do, while no call is answered.
LEMMA ConnsDialogSteps ==
  ASSUME ConnsListInv,
         \/ Conns!CloseModal \/ Conns!OpenCreate \/ Conns!ChooseService
         \/ \E r \in (slot2 \cup {slot7}) \ {Conns!NoRow} :
              Conns!ShowDetails(r) \/ Conns!OpenEdit(r) \/ Conns!AskDelete(r)
         \/ UNCHANGED Conns!vars
  PROVE  ConnsListInv'
<1>1. ConnsType /\ Conns!OneAtATime /\ Conns!DeletedIsFinal
  BY DEF ConnsListInv
<1>2. ASSUME UNCHANGED <<slot1, slot2, slot3, slot4, slot5, slot10, slot11, slot15, slot16>>,
             ConnsFormType', Conns!OneAtATime',
             slot6' \in {"details", "edit", "delete"} =>
               slot7' \in Conns!Shown
               \/ (slot7' = slot7 /\ slot6 \in {"details", "edit", "delete"})
      PROVE  ConnsListInv'
  <2>1. ConnsKept
    BY <1>2, ConnsSame DEF Conns!Saved
  <2>2. ConnsStoredType' /\ ConnsSaveType' /\ ConnsDeleteType'
    BY <1>1, <1>2 DEF ConnsType, ConnsStoredType, ConnsSaveType, ConnsDeleteType, Conns!Exists
  <2>3. slot11'.answer = "ok" => slot5'[slot11'.id] = Conns!Deleted
    BY <1>1, <1>2 DEF Conns!DeletedIsFinal
  <2> QED
    BY <1>2, <2>1, <2>2, <2>3, ConnsStays
<1>3. ASSUME UNCHANGED <<slot1, slot2, slot3, slot4>> PROVE Conns!Current' = Conns!Current
  BY <1>3 DEF Conns!Current
<1>4. slot6 = "none" => slot10 = Conns!NoSave /\ slot11 = Conns!NoDelete
  BY <1>1 DEF Conns!OneAtATime
<1>5. slot6 \in {"create", "details"} => slot10 = Conns!NoSave /\ slot11 = Conns!NoDelete
  BY <1>1 DEF Conns!OneAtATime
<1>6. \A r : Conns!Listed(r) \/ Conns!InDrawer(r) =>
        /\ slot10 = Conns!NoSave /\ slot11 = Conns!NoDelete /\ Conns!Current = {}
        /\ r \in Conns!Shown \/ (r = slot7 /\ slot6 = "details")
  <2> SUFFICES ASSUME NEW r, Conns!Listed(r) \/ Conns!InDrawer(r)
               PROVE  /\ slot10 = Conns!NoSave /\ slot11 = Conns!NoDelete /\ Conns!Current = {}
                      /\ r \in Conns!Shown \/ (r = slot7 /\ slot6 = "details")
    OBVIOUS
  <2>1. CASE Conns!Listed(r)
    BY <1>1, <1>4, <2>1 DEF Conns!Listed, Conns!Shown, Conns!OneAtATime
  <2>2. CASE Conns!InDrawer(r)
    BY <1>1, <1>5, <2>2 DEF Conns!InDrawer, Conns!OneAtATime
  <2> QED
    BY <2>1, <2>2
<1>7. ASSUME UNCHANGED <<slot1, slot2, slot3, slot4, slot10, slot11>>,
             slot10 = Conns!NoSave /\ slot11 = Conns!NoDelete,
             slot6' \in {"details", "edit", "delete"} => Conns!Current = {}
      PROVE  Conns!OneAtATime'
  BY <1>1, <1>3, <1>7, ConnsRecords DEF Conns!OneAtATime
<1>8. CASE Conns!CloseModal
  <2>1. /\ UNCHANGED <<slot1, slot2, slot3, slot4, slot5, slot10, slot11, slot15, slot16>>
        /\ slot10 = Conns!NoSave /\ slot11 = Conns!NoDelete
        /\ slot6' = "none" /\ slot8' = Conns!NewForm
    BY <1>8 DEF Conns!CloseModal, Conns!listVars
  <2>2. ConnsFormType'
    BY <2>1, ConnsRecords DEF ConnsFormType, Conns!Auth
  <2> QED
    BY <1>2, <1>7, <2>1, <2>2
<1>9. CASE Conns!OpenCreate \/ Conns!ChooseService
  <2>1. /\ UNCHANGED <<slot1, slot2, slot3, slot4, slot5, slot10, slot11, slot15, slot16>>
        /\ slot6' \in {"create", "http-create", "stripe-create"} /\ slot8' = Conns!NewForm
        /\ slot6 \in {"none", "create"}
    BY <1>9 DEF Conns!OpenCreate, Conns!ChooseService, Conns!Create, Conns!listVars
  <2>2. ConnsFormType'
    BY <2>1, ConnsRecords DEF ConnsFormType, Conns!Auth
  <2> QED
    BY <1>2, <1>4, <1>5, <1>7, <2>1, <2>2
<1>10. ASSUME NEW r, Conns!ShowDetails(r) \/ Conns!AskDelete(r) PROVE ConnsListInv'
  <2>1. /\ UNCHANGED <<slot1, slot2, slot3, slot4, slot5, slot8, slot10, slot11, slot15, slot16>>
        /\ slot6' \in {"details", "delete"} /\ slot7' = r
        /\ Conns!Listed(r) \/ Conns!InDrawer(r)
    BY <1>10 DEF Conns!ShowDetails, Conns!AskDelete, Conns!listVars, Conns!saveVars
  <2>2. ConnsFormType'
    BY <1>1, <2>1 DEF ConnsType, ConnsFormType
  <2> QED
    BY <1>2, <1>6, <1>7, <2>1, <2>2
<1>11. ASSUME NEW r, Conns!OpenEdit(r) PROVE ConnsListInv'
  <2>1. /\ UNCHANGED <<slot1, slot2, slot3, slot4, slot5, slot10, slot11, slot15, slot16>>
        /\ slot6' = "edit" /\ slot7' = r
        /\ slot8' = [auth |-> r.auth, url |-> r.url, credential |-> FALSE]
        /\ Conns!Listed(r) \/ Conns!InDrawer(r)
    BY <1>11 DEF Conns!OpenEdit, Conns!listVars
  <2>2. r.auth \in Conns!Auth
    BY <1>1, <1>6, <2>1 DEF ConnsType, ConnsRowsType
  <2>3. ConnsFormType'
    BY <2>1, <2>2 DEF ConnsFormType
  <2> QED
    BY <1>2, <1>6, <1>7, <2>1, <2>3
<1>12. CASE UNCHANGED Conns!vars
  <2>1. UNCHANGED <<slot1, slot2, slot3, slot4, slot5, slot6, slot7, slot8, slot10, slot11,
                    slot15, slot16>>
    BY <1>12 DEF Conns!vars, Conns!listVars, Conns!saveVars
  <2>2. ConnsFormType' /\ Conns!OneAtATime'
    BY <1>1, <1>3, <2>1 DEF ConnsType, ConnsFormType, Conns!OneAtATime
  <2> QED
    BY <1>2, <2>1, <2>2
<1> QED
  BY <1>8, <1>9, <1>10, <1>11, <1>12

\* What the forms and their calls do.
LEMMA ConnsFormSteps ==
  ASSUME ConnsListInv,
         \/ \E auth \in Conns!Auth : Conns!ChangeAuth(auth)
         \/ Conns!Replace \/ Conns!TypeCredential \/ Conns!TypeUrl
  PROVE  ConnsListInv'
<1>1. ConnsType /\ Conns!OneAtATime /\ Conns!DeletedIsFinal
  BY DEF ConnsListInv
<1>2. UNCHANGED <<slot1, slot2, slot3, slot4, slot5, slot6, slot7, slot10, slot11, slot15, slot16>>
  BY DEF Conns!ChangeAuth, Conns!Replace, Conns!TypeCredential, Conns!TypeUrl, Conns!listVars
<1>3. ConnsFormType'
  <2>1. ASSUME NEW auth \in Conns!Auth, Conns!ChangeAuth(auth) PROVE ConnsFormType'
    BY <1>1, <2>1 DEF ConnsType, ConnsFormType, Conns!ChangeAuth
  <2>2. CASE Conns!Replace
    BY <1>1, <2>2 DEF ConnsType, ConnsFormType, Conns!Replace
  <2>3. CASE Conns!TypeCredential
    BY <1>1, <2>3 DEF ConnsType, ConnsFormType, Conns!TypeCredential
  <2>4. CASE Conns!TypeUrl
    BY <1>1, <2>4 DEF ConnsType, ConnsFormType, Conns!TypeUrl
  <2> QED
    BY <2>1, <2>2, <2>3, <2>4
<1>4. ConnsKept
  BY <1>2, ConnsSame DEF Conns!Saved
<1>5. ConnsStoredType' /\ ConnsSaveType' /\ ConnsDeleteType' /\ Conns!OneAtATime'
  BY <1>1, <1>2 DEF ConnsType, ConnsStoredType, ConnsSaveType, ConnsDeleteType, Conns!Exists,
     Conns!OneAtATime, Conns!Current
<1>6. slot11'.answer = "ok" => slot5'[slot11'.id] = Conns!Deleted
  BY <1>1, <1>2 DEF Conns!DeletedIsFinal
<1> QED
  BY <1>2, <1>3, <1>4, <1>5, <1>6, ConnsStays

\* What the configuration and the credential of an update are.
LEMMA ConnsPayload ==
  /\ Conns!Payload.config = Conns!ConfigChanged /\ Conns!Payload.auth = slot8.auth
  /\ Conns!Payload.credential =
       CASE slot9 /\ slot8.auth # "none" /\ slot8.credential -> slot8.auth
         [] slot8.auth = "none" /\ slot7.auth # "none" -> "none"
         [] OTHER -> "kept"
BY DEF Conns!Payload

\* What a step leaves that only begins or ends a call.
LEMMA ConnsCalls ==
  ASSUME ConnsListInv, UNCHANGED <<slot1, slot2, slot3, slot4, slot5, slot6, slot7, slot15>>,
         ConnsKept, ConnsFormType', ConnsSaveType', ConnsDeleteType', Conns!OneAtATime',
         slot11'.answer = "ok" => slot11' = slot11
  PROVE  ConnsListInv'
<1>1. ConnsType /\ Conns!DeletedIsFinal
  BY DEF ConnsListInv
<1>2. ConnsStoredType'
  BY <1>1 DEF ConnsType, ConnsStoredType, Conns!Exists
<1>3. slot11'.answer = "ok" => slot5'[slot11'.id] = Conns!Deleted
  BY <1>1 DEF Conns!DeletedIsFinal
<1> QED
  BY <1>2, <1>3, ConnsStays

LEMMA ConnsSubmits ==
  ASSUME ConnsListInv, Conns!Submit \/ Conns!SubmitStripe PROVE ConnsListInv'
<1>1. ConnsType /\ Conns!OneAtATime /\ Conns!RowsFit
  BY DEF ConnsListInv
<1>2. slot10 = Conns!NoSave /\ UNCHANGED <<slot5, slot7, slot11, slot15, slot16>>
      /\ slot6 \in {"http-create", "edit", "stripe-create"}
  BY DEF Conns!Submit, Conns!SubmitStripe, Conns!FormOpen
<1>3. slot11 = Conns!NoDelete
  BY <1>1, <1>2 DEF Conns!OneAtATime
<1>4. \/ /\ Conns!Ask("all") /\ slot2' = slot2 /\ slot6' = "none" /\ slot8' = Conns!NewForm
         /\ slot10' = Conns!NoSave
      \/ /\ UNCHANGED <<slot1, slot2, slot3, slot4, slot6, slot8>> /\ slot6 = "edit"
         /\ slot10' = [kind |-> "update", id |-> slot7.id, payload |-> Conns!Payload,
                       answer |-> "none"]
      \/ /\ UNCHANGED <<slot1, slot2, slot3, slot4, slot6, slot8>>
         /\ slot10' = [kind |-> "create", provider |-> "http", auth |-> slot8.auth,
                       url |-> slot8.url, answer |-> "none"]
      \/ /\ UNCHANGED <<slot1, slot2, slot3, slot4, slot6, slot8>>
         /\ slot10' = [kind |-> "create", provider |-> "stripe", auth |-> "bearer", url |-> 0,
                       answer |-> "none"]
  BY DEF Conns!Submit, Conns!SubmitStripe, Conns!SavedEnds, Conns!BeginSave, Conns!Editing,
     Conns!listVars
<1>5. CASE Conns!Ask("all") /\ slot2' = slot2 /\ slot6' = "none" /\ slot8' = Conns!NewForm
           /\ slot10' = Conns!NoSave
  <2>1. ConnsFormType'
    BY <1>5, ConnsRecords DEF ConnsFormType, Conns!Auth
  <2> QED
    BY <1>2, <1>3, <1>5, <2>1, ConnsAsks
<1>6. ASSUME UNCHANGED <<slot1, slot2, slot3, slot4, slot6, slot8>>, slot10'.kind # "none",
             slot10'.answer = "none", ConnsSaveType',
             slot10'.kind = "update" => slot6 = "edit"
      PROVE  ConnsListInv'
  <2>1. ConnsFormType' /\ ConnsDeleteType' /\ Conns!Current' = Conns!Current
    BY <1>1, <1>2, <1>6 DEF ConnsType, ConnsFormType, ConnsDeleteType, Conns!Current
  <2>2. Conns!OneAtATime'
    BY <1>1, <1>2, <1>3, <1>6, <2>1 DEF Conns!OneAtATime
  <2>3. ConnsKept
    BY <1>2, <1>6, ConnsSame, ConnsRecords DEF Conns!Saved
  <2> QED
    BY <1>2, <1>6, <2>1, <2>2, <2>3, ConnsCalls
<1>7. CASE /\ UNCHANGED <<slot1, slot2, slot3, slot4, slot6, slot8>> /\ slot6 = "edit"
           /\ slot10' = [kind |-> "update", id |-> slot7.id, payload |-> Conns!Payload,
                         answer |-> "none"]
  <2>1. slot10'.kind = "update" /\ slot10'.id = slot7.id /\ slot10'.answer = "none"
        /\ slot10'.payload.auth = slot8.auth /\ DOMAIN slot10' = {"kind", "id", "payload", "answer"}
    BY <1>7, ConnsPayload
  <2>2. ConnsSaveType'
    BY <1>1, <1>7, <2>1 DEF ConnsSaveType, Conns!RowsFit, Conns!RowFits, ConnsType, ConnsFormType
  <2> QED
    BY <1>6, <1>7, <2>1, <2>2
<1>8. CASE /\ UNCHANGED <<slot1, slot2, slot3, slot4, slot6, slot8>>
           /\ \/ slot10' = [kind |-> "create", provider |-> "http", auth |-> slot8.auth,
                            url |-> slot8.url, answer |-> "none"]
              \/ slot10' = [kind |-> "create", provider |-> "stripe", auth |-> "bearer",
                            url |-> 0, answer |-> "none"]
  <2>1. slot10'.kind = "create" /\ slot10'.answer = "none" /\ slot10'.auth \in {slot8.auth, "bearer"}
        /\ DOMAIN slot10' = {"kind", "provider", "auth", "url", "answer"}
    BY <1>8
  <2>2. ConnsSaveType'
    BY <1>1, <2>1 DEF ConnsSaveType, ConnsType, ConnsFormType, Conns!Auth
  <2> QED
    BY <1>6, <1>8, <2>1, <2>2
<1> QED
  BY <1>4, <1>5, <1>7, <1>8

LEMMA ConnsSaveHandles ==
  ASSUME ConnsListInv, Conns!SaveHandled PROVE ConnsListInv'
<1>1. ConnsType /\ Conns!OneAtATime /\ Conns!DeletedIsFinal
  BY DEF ConnsListInv
<1>2. /\ UNCHANGED <<slot1, slot2, slot3, slot4, slot6, slot7, slot8, slot11, slot15, slot16>>
      /\ slot10 # Conns!NoSave /\ slot10.answer = "none" /\ Conns!Stores(slot10)
  BY DEF Conns!SaveHandled, Conns!listVars
<1>3. PICK answer \in {"ok", "404"} :
        slot10' = [slot10 EXCEPT !.answer = answer] /\ (answer = "404" => slot5' = slot5)
  BY <1>2 DEF Conns!Stores
<1>4. /\ DOMAIN slot10' = DOMAIN slot10 /\ slot10'.kind = slot10.kind /\ slot10'.answer = answer
      /\ slot10.kind = "update" => slot10'.id = slot10.id /\ slot10'.payload = slot10.payload
      /\ slot10.kind = "create" => slot10'.auth = slot10.auth
  BY <1>1, <1>3 DEF ConnsType, ConnsSaveType
<1>5. ConnsFormType' /\ ConnsDeleteType' /\ Conns!Current' = Conns!Current
  BY <1>1, <1>2 DEF ConnsType, ConnsFormType, ConnsDeleteType, Conns!Current
<1>6. ConnsSaveType'
  BY <1>1, <1>4 DEF ConnsType, ConnsSaveType
<1>7. Conns!OneAtATime'
  BY <1>1, <1>2, <1>4, <1>5 DEF Conns!OneAtATime
<1>8. ASSUME ConnsStoredType', ConnsKept PROVE ConnsListInv'
  <2>1. slot11'.answer = "ok" => slot5'[slot11'.id] = Conns!Deleted
    BY <1>1, <1>2, <1>8, ConnsRecords
    DEF Conns!DeletedIsFinal, ConnsKept, ConnsType, ConnsDeleteType
  <2> QED
    BY <1>2, <1>5, <1>6, <1>7, <1>8, <2>1, ConnsStays
<1>9. CASE slot5' = slot5 /\ answer = "404"
  <2>1. ConnsKept
    BY <1>2, <1>9, ConnsSame DEF Conns!Saved
  <2>2. ConnsStoredType'
    BY <1>1, <1>9 DEF ConnsType, ConnsStoredType, Conns!Exists
  <2> QED
    BY <1>8, <2>1, <2>2

<1>10. CASE /\ slot10.kind = "create" /\ answer = "ok"
            /\ \E c \in Conn :
                 /\ slot5[c] = Conns!Absent
                 /\ slot5' = [slot5 EXCEPT ![c] = [provider |-> slot10.provider,
                                auth |-> slot10.auth, url |-> slot10.url, key |-> slot10.auth]]
  <2> DEFINE new == [provider |-> slot10.provider, auth |-> slot10.auth, url |-> slot10.url,
                     key |-> slot10.auth]
  <2>1. PICK c \in Conn : slot5[c] = Conns!Absent /\ slot5' = [slot5 EXCEPT ![c] = new]
    BY <1>10
  <2>2. DOMAIN new = {"provider", "auth", "url", "key"} /\ new.auth = slot10.auth
    OBVIOUS
  <2> HIDE DEF new
  <2>3. slot10.auth \in Conns!Auth /\ new \notin {Conns!Absent, Conns!Deleted}
    BY <1>1, <1>10, <2>2, ConnsExist DEF ConnsType, ConnsSaveType
  <2>4. /\ slot5' = [d \in Conn |-> slot5'[d]] /\ slot5'[c] = new
        /\ \A d \in Conn \ {c} : slot5'[d] = slot5[d]
    BY <1>1, <2>1 DEF ConnsType, ConnsStoredType
  <2> HIDE <2>1
  <2>5. ConnsStoredType'
    BY <1>1, <2>2, <2>3, <2>4 DEF ConnsType, ConnsStoredType, Conns!Exists
  <2>6. Conns!Saved' = {} /\ Conns!Saved = {}
    BY <1>4, <1>10 DEF Conns!Saved
  <2>7. slot5[c] # Conns!Deleted
    BY <2>1, ConnsRecords
  <2>8. ConnsKept
    BY <1>2, <2>1, <2>3, <2>4, <2>6, <2>7 DEF ConnsKept, Conns!Exists
  <2> QED
    BY <1>8, <2>5, <2>8
<1>11. CASE slot10.kind = "update" /\ Conns!Exists(slot10.id) /\ answer = "ok"
            /\ slot5' = [slot5 EXCEPT ![slot10.id] =
                 [slot5[slot10.id] EXCEPT
                    !.auth = IF slot10.payload.config THEN slot10.payload.auth ELSE @,
                    !.url = IF slot10.payload.config THEN slot10.payload.url ELSE @,
                    !.key = IF slot10.payload.credential = "kept" THEN @
                            ELSE slot10.payload.credential]]
  <2> DEFINE c == slot10.id
             new == [slot5[c] EXCEPT
                       !.auth = IF slot10.payload.config THEN slot10.payload.auth ELSE @,
                       !.url = IF slot10.payload.config THEN slot10.payload.url ELSE @,
                       !.key = IF slot10.payload.credential = "kept" THEN @
                               ELSE slot10.payload.credential]
  <2>1. slot5' = [slot5 EXCEPT ![c] = new]
    BY <1>11
  <2>2. c \in Conn /\ slot10.payload.auth \in Conns!Auth /\ slot5[c].auth \in Conns!Auth
        /\ DOMAIN slot5[c] = {"provider", "auth", "url", "key"}
        /\ slot5[c] \notin {Conns!Absent, Conns!Deleted}
    BY <1>1, <1>11 DEF ConnsType, ConnsSaveType, ConnsStoredType, Conns!Exists
  <2>3. DOMAIN new = {"provider", "auth", "url", "key"} /\ new.auth \in Conns!Auth
    BY <2>2
  <2> HIDE DEF new
  <2>4. new \notin {Conns!Absent, Conns!Deleted}
    BY <2>3, ConnsExist
  <2>5. Conns!Saved' = {c} /\ Conns!Saved = {}
    BY <1>2, <1>4, <1>11 DEF Conns!Saved
  <2> HIDE DEF c
  <2>6. /\ slot5' = [d \in Conn |-> slot5'[d]] /\ slot5'[c] = new
        /\ \A d \in Conn \ {c} : slot5'[d] = slot5[d]
    BY <1>1, <2>1, <2>2 DEF ConnsType, ConnsStoredType
  <2>7. ConnsStoredType'
    BY <1>1, <2>3, <2>6 DEF ConnsType, ConnsStoredType, Conns!Exists
  <2>8. ConnsKept
    BY <1>2, <2>2, <2>4, <2>5, <2>6 DEF ConnsKept, Conns!Exists
  <2> QED
    BY <1>8, <2>7, <2>8
<1>12. slot10' = [slot10 EXCEPT !.answer = "404"] => answer = "404"
  <2>1. slot10' = [slot10 EXCEPT !.answer = "404"] => slot10'.answer = "404"
    BY <1>1 DEF ConnsType, ConnsSaveType
  <2> QED
    BY <1>4, <2>1
<1>13. slot10' = [slot10 EXCEPT !.answer = "ok"] => answer = "ok"
  <2>1. slot10' = [slot10 EXCEPT !.answer = "ok"] => slot10'.answer = "ok"
    BY <1>1 DEF ConnsType, ConnsSaveType
  <2> QED
    BY <1>4, <2>1
<1> QED
  BY <1>2, <1>9, <1>10, <1>11, <1>12, <1>13 DEF Conns!Stores

LEMMA ConnsEnds ==
  ASSUME ConnsListInv, Conns!SaveAnswered \/ Conns!SaveFails \/ Conns!Remove \/ Conns!RemoveFails
  PROVE  ConnsListInv'
<1>1. ConnsType /\ Conns!OneAtATime /\ Conns!DeletedIsFinal /\ Conns!RowsFit
  BY DEF ConnsListInv
<1>2. CASE Conns!SaveAnswered
  <2>1. /\ Conns!Ask("all") /\ slot10.answer = "ok" /\ slot6' = "none" /\ slot8' = Conns!NewForm
        /\ slot10' = Conns!NoSave /\ UNCHANGED <<slot2, slot5, slot11, slot15, slot16>>
    BY <1>2 DEF Conns!SaveAnswered, Conns!SavedEnds
  <2>2. slot11 = Conns!NoDelete
    BY <1>1, <2>1, ConnsRecords DEF Conns!OneAtATime
  <2>3. ConnsFormType'
    BY <2>1, ConnsRecords DEF ConnsFormType, Conns!Auth
  <2> QED
    BY <2>1, <2>2, <2>3, ConnsAsks
<1>3. CASE Conns!SaveFails
  <2>1. /\ UNCHANGED <<slot1, slot2, slot3, slot4, slot5, slot6, slot7, slot11, slot15>>
        /\ slot10' = Conns!NoSave /\ slot16' = slot16 \cup Conns!Target
        /\ slot10 # Conns!NoSave
        /\ slot8' \in {slot8, [slot8 EXCEPT !.credential = FALSE]}
    BY <1>3 DEF Conns!SaveFails, Conns!listVars
  <2>2. ConnsKept
    <3>1. Conns!Saved \subseteq Conns!Target
      BY DEF Conns!Saved, Conns!Target
    <3> QED
      BY <2>1, <3>1 DEF ConnsKept, Conns!Exists
  <2>3. ConnsFormType' /\ ConnsDeleteType' /\ Conns!Current' = Conns!Current
    BY <1>1, <2>1 DEF ConnsType, ConnsFormType, ConnsDeleteType, Conns!Current
  <2>4. ConnsSaveType' /\ slot11 = Conns!NoDelete
    BY <1>1, <2>1, ConnsRecords DEF ConnsSaveType, Conns!OneAtATime
  <2>5. Conns!OneAtATime'
    BY <1>1, <2>1, <2>3, <2>4, ConnsRecords DEF Conns!OneAtATime
  <2> QED
    BY <2>1, <2>2, <2>3, <2>4, <2>5, ConnsCalls
<1>4. ASSUME UNCHANGED <<slot1, slot2, slot3, slot4, slot5, slot6, slot7, slot8, slot10,
                         slot15, slot16>>, ConnsDeleteType', slot11'.answer = "none",
             slot11' # Conns!NoDelete => slot6 = "delete"
      PROVE  ConnsListInv'
  <2>1. ConnsKept
    BY <1>4, ConnsSame DEF Conns!Saved
  <2>2. ConnsFormType' /\ ConnsSaveType' /\ Conns!Current' = Conns!Current
    BY <1>1, <1>4 DEF ConnsType, ConnsFormType, ConnsSaveType, Conns!Current
  <2>3. slot6 = "delete" => slot10 = Conns!NoSave /\ Conns!Current = {}
    BY <1>1 DEF Conns!OneAtATime
  <2>4. Conns!OneAtATime'
    BY <1>1, <1>4, <2>2, <2>3 DEF Conns!OneAtATime
  <2> QED
    BY <1>4, <2>1, <2>2, <2>4, ConnsCalls
<1>5. CASE Conns!Remove
  <2>1. /\ UNCHANGED <<slot1, slot2, slot3, slot4, slot5, slot6, slot7, slot8, slot10,
                       slot15, slot16>>
        /\ slot11' = [id |-> slot7.id, answer |-> "none"] /\ slot6 = "delete"
    BY <1>5 DEF Conns!Remove, Conns!listVars, Conns!saveVars
  <2>2. ConnsDeleteType' /\ slot11'.answer = "none"
    BY <1>1, <2>1 DEF ConnsDeleteType, Conns!RowsFit, Conns!RowFits
  <2> QED
    BY <1>4, <2>1, <2>2
<1>6. CASE Conns!RemoveFails
  <2>1. /\ UNCHANGED <<slot1, slot2, slot3, slot4, slot5, slot6, slot7, slot8, slot10,
                       slot15, slot16>>
        /\ slot11' = Conns!NoDelete
    BY <1>6 DEF Conns!RemoveFails, Conns!listVars, Conns!saveVars
  <2>2. ConnsDeleteType' /\ slot11'.answer = "none"
    BY <2>1, ConnsRecords DEF ConnsDeleteType
  <2> QED
    BY <1>4, <2>1, <2>2
<1> QED
  BY <1>2, <1>3, <1>5, <1>6

LEMMA ConnsTests ==
  ASSUME ConnsListInv,
         \/ \E r \in (slot2 \cup {slot7}) \ {Conns!NoRow} : Conns!RunTest(r)
         \/ \E c \in Conn : Conns!TestAnswered(c)
  PROVE  ConnsListInv'
<1>1. ConnsType /\ Conns!OneAtATime /\ Conns!DeletedIsFinal
  BY DEF ConnsListInv
<1>2. /\ UNCHANGED <<slot1, slot2, slot3, slot4, slot5, slot7, slot8, slot10, slot11,
                     slot15, slot16>>
      /\ slot6' = slot6 \/ (slot6 # "details" /\ slot6' = "test")
  BY DEF Conns!RunTest, Conns!TestAnswered, Conns!listVars, Conns!saveVars
<1>3. ConnsKept
  BY <1>2, ConnsSame DEF Conns!Saved
<1>4. ConnsStoredType' /\ ConnsFormType' /\ ConnsSaveType' /\ ConnsDeleteType'
      /\ Conns!Current' = Conns!Current
  BY <1>1, <1>2 DEF ConnsType, ConnsStoredType, ConnsFormType, ConnsSaveType, ConnsDeleteType,
     Conns!Exists, Conns!Current
<1>5. Conns!OneAtATime'
  BY <1>1, <1>2, <1>4 DEF Conns!OneAtATime
<1>6. slot11'.answer = "ok" => slot5'[slot11'.id] = Conns!Deleted
  BY <1>1, <1>2 DEF Conns!DeletedIsFinal
<1> QED
  BY <1>2, <1>3, <1>4, <1>5, <1>6, ConnsStays

LEMMA ConnsRemoves ==
  ASSUME ConnsListInv, Conns!RemoveHandled \/ Conns!RemoveAnswered PROVE ConnsListInv'
<1>1. ListInv /\ ConnsType /\ Conns!OneAtATime /\ Conns!DeletedIsFinal
      /\ Conns!AnswersAreClean /\ Conns!RowsFit
  BY DEF ConnsListInv
<1>2. CASE Conns!RemoveHandled
  <2>1. /\ UNCHANGED <<slot1, slot2, slot3, slot4, slot6, slot7, slot8, slot10, slot15, slot16>>
        /\ slot11 # Conns!NoDelete
        /\ slot5' = [slot5 EXCEPT ![slot11.id] = Conns!Deleted]
        /\ \E answer \in {"ok", "404"} : slot11' = [slot11 EXCEPT !.answer = answer]
    BY <1>2 DEF Conns!RemoveHandled, Conns!listVars, Conns!saveVars
  <2>2. slot11.id \in Conn
    BY <1>1, <2>1 DEF ConnsType, ConnsDeleteType
  <2>3. /\ slot5' = [d \in Conn |-> slot5'[d]] /\ slot5'[slot11.id] = Conns!Deleted
        /\ \A d \in Conn \ {slot11.id} : slot5'[d] = slot5[d]
    BY <1>1, <2>1, <2>2 DEF ConnsType, ConnsStoredType
  <2>4. DOMAIN slot11' = {"id", "answer"} /\ slot11'.id = slot11.id
    BY <1>1, <2>1 DEF ConnsType, ConnsDeleteType
  <2>5. ConnsKept
    BY <2>1, <2>3, ConnsRecords DEF ConnsKept, Conns!Exists, Conns!Saved
  <2>6. ConnsStoredType'
    BY <1>1, <2>3 DEF ConnsType, ConnsStoredType, Conns!Exists
  <2>7. ConnsFormType' /\ ConnsSaveType' /\ ConnsDeleteType' /\ Conns!Current' = Conns!Current
    BY <1>1, <2>1, <2>2, <2>4
    DEF ConnsType, ConnsFormType, ConnsSaveType, ConnsDeleteType, Conns!Current
  <2>8. Conns!OneAtATime'
    BY <1>1, <2>1, <2>7 DEF Conns!OneAtATime
  <2> QED
    BY <2>1, <2>3, <2>4, <2>5, <2>6, <2>7, <2>8, ConnsStays
<1>3. CASE Conns!RemoveAnswered
  <2>1. /\ UNCHANGED <<slot1, slot3, slot4, slot5, slot7, slot8, slot10, slot16>>
        /\ slot11.answer = "ok" /\ slot15' = slot15 \cup {slot11.id}
        /\ slot2' = {r \in slot2 : r.id # slot11.id}
        /\ slot6' = "none" /\ slot11' = Conns!NoDelete
    BY <1>3 DEF Conns!RemoveAnswered, Conns!listVars, Conns!saveVars
  <2>2. slot11 # Conns!NoDelete /\ slot11.id \in Conn /\ slot10 = Conns!NoSave
        /\ Conns!Current = {} /\ slot5[slot11.id] = Conns!Deleted
    BY <1>1, <2>1, ConnsRecords
    DEF Conns!OneAtATime, ConnsType, ConnsDeleteType, Conns!DeletedIsFinal
  <2>3. /\ ListInv' /\ Conns!Current' = {} /\ Conns!Answers' = {} /\ Conns!Answers = {}
    BY <1>1, <2>1, <2>2, ConnsList, ListStays DEF Conns!Answers
  <2>4. Conns!Shown' \subseteq Conns!Shown /\ Conns!Shown' \subseteq slot2'
    BY <2>1 DEF Conns!Shown
  <2>5. ConnsStoredType' /\ ConnsFormType' /\ ConnsSaveType' /\ ConnsDeleteType'
        /\ ConnsRowsType'
    BY <1>1, <2>1, <2>2, <2>3, <2>4, ConnsRecords
    DEF ConnsType, ConnsStoredType, ConnsFormType, ConnsSaveType, ConnsDeleteType,
        ConnsRowsType, Conns!Exists
  <2>6. Conns!OneAtATime'
    BY <1>1, <2>1, <2>2, <2>3, ConnsRecords DEF Conns!OneAtATime
  <2>7. Conns!DeletedIsFinal' /\ Conns!AnswersAreClean'
    BY <1>1, <2>1, <2>2, <2>3, ConnsRecords DEF Conns!DeletedIsFinal, Conns!AnswersAreClean
  <2>8. Conns!RowsFit'
    <3>1. ConnsKept
      BY <2>1, ConnsSame DEF Conns!Saved
    <3>2. \A r \in Conns!Shown' : Conns!RowFits(r)
      BY <1>1, <2>4 DEF Conns!RowsFit
    <3>3. \A r \in Conns!Shown' : Conns!RowFits(r)'
      BY <3>1, <3>2, ConnsRowStays
    <3> QED
      BY <2>1, <2>3, <3>3 DEF Conns!RowsFit
  <2> QED
    BY <2>3, <2>5, <2>6, <2>7, <2>8 DEF ConnsListInv, ConnsType
<1> QED
  BY <1>2, <1>3

LEMMA ConnsOthers ==
  ASSUME ConnsListInv, NEW c \in Conn, Conns!OthersChange(c) PROVE ConnsListInv'
<1>1. ConnsType /\ Conns!OneAtATime /\ Conns!DeletedIsFinal
  BY DEF ConnsListInv
<1>2. /\ UNCHANGED <<slot1, slot2, slot3, slot4, slot6, slot7, slot8, slot10, slot11, slot15>>
      /\ Conns!Exists(c) /\ slot16' = slot16 \cup {c}
      /\ \/ slot5' = [slot5 EXCEPT ![c] = Conns!Deleted]
         \/ slot5' = [slot5 EXCEPT ![c] = [slot5[c] EXCEPT !.auth = "none", !.key = "none"]]
  <2>1. \/ slot5' = [slot5 EXCEPT ![c] = Conns!Deleted]
        \/ slot5' = [slot5 EXCEPT ![c].auth = "none", ![c].key = "none"]
    BY DEF Conns!OthersChange
  <2>2. [slot5 EXCEPT ![c].auth = "none", ![c].key = "none"]
        = [slot5 EXCEPT ![c] = [slot5[c] EXCEPT !.auth = "none", !.key = "none"]]
    BY <1>1 DEF ConnsType, ConnsStoredType
  <2> QED
    BY <2>1, <2>2 DEF Conns!OthersChange, Conns!listVars, Conns!saveVars
<1>3. /\ slot5' = [d \in Conn |-> slot5'[d]]
      /\ \A d \in Conn \ {c} : slot5'[d] = slot5[d]
      /\ slot5'[c] = Conns!Deleted
         \/ (DOMAIN slot5'[c] = {"provider", "auth", "url", "key"} /\ slot5'[c].auth = "none")
  <2> DEFINE new == [slot5[c] EXCEPT !.auth = "none", !.key = "none"]
  <2>1. DOMAIN new = {"provider", "auth", "url", "key"} /\ new.auth = "none"
    BY <1>1, <1>2 DEF ConnsType, ConnsStoredType
  <2> HIDE DEF new
  <2>2. PICK s \in {Conns!Deleted, new} : slot5' = [slot5 EXCEPT ![c] = s]
    BY <1>2 DEF new
  <2>3. slot5' = [d \in Conn |-> slot5'[d]] /\ slot5'[c] = s
        /\ \A d \in Conn \ {c} : slot5'[d] = slot5[d]
    BY <1>1, <2>2 DEF ConnsType, ConnsStoredType
  <2> QED
    BY <2>1, <2>3
<1>4. slot5'[c] # Conns!Absent /\ (slot5'[c] # Conns!Deleted => slot5'[c].auth = "none"
        /\ DOMAIN slot5'[c] = {"provider", "auth", "url", "key"})
  BY <1>3, ConnsExist, ConnsRecords
<1>5. ConnsKept
  BY <1>2, <1>3, <1>4 DEF ConnsKept, Conns!Exists, Conns!Saved
<1>6. ConnsStoredType'
  BY <1>1, <1>3, <1>4 DEF ConnsType, ConnsStoredType, Conns!Exists, Conns!Auth
<1>7. ConnsFormType' /\ ConnsSaveType' /\ ConnsDeleteType' /\ Conns!Current' = Conns!Current
  BY <1>1, <1>2
  DEF ConnsType, ConnsFormType, ConnsSaveType, ConnsDeleteType, Conns!Current
<1>8. Conns!OneAtATime'
  BY <1>1, <1>2, <1>7 DEF Conns!OneAtATime
<1>9. slot11'.answer = "ok" => slot5'[slot11'.id] = Conns!Deleted
  BY <1>1, <1>2, <1>5, ConnsRecords
  DEF Conns!DeletedIsFinal, ConnsKept, ConnsType, ConnsDeleteType
<1> QED
  BY <1>2, <1>5, <1>6, <1>7, <1>8, <1>9, ConnsStays

LEMMA ConnsListSteps ==
  ASSUME ConnsListInv, Conns!Next \/ UNCHANGED Conns!vars PROVE ConnsListInv'
<1>1. ASSUME NEW i \in DOMAIN slot1,
             Conns!ListHandled(i) \/ Conns!ListAnswered(i) \/ Conns!ListFails(i)
      PROVE  ConnsListInv'
  <2>1. /\ UNCHANGED <<slot5, slot6, slot7, slot8, slot10, slot11, slot15, slot16>>
        /\ Conns!Handled(i, Conns!Rows) \/ Conns!Answered(i) \/ Conns!Fails(i)
    BY <1>1 DEF Conns!ListHandled, Conns!ListAnswered, Conns!ListFails, Conns!saveVars
  <2> QED
    BY <2>1, ConnsListMoves
<1>2. CASE Conns!Refresh
  <2>1. /\ Conns!Ask("all") /\ slot6 = "none"
        /\ UNCHANGED <<slot2, slot5, slot6, slot8, slot10, slot11, slot15>>
    BY <1>2 DEF Conns!Refresh, Conns!saveVars
  <2>2. slot10 = Conns!NoSave /\ slot11 = Conns!NoDelete
    BY <2>1 DEF ConnsListInv, Conns!OneAtATime
  <2>3. ConnsFormType'
    BY <2>1 DEF ConnsListInv, ConnsType, ConnsFormType
  <2> QED
    BY <2>1, <2>2, <2>3, ConnsAsks
<1> QED
  BY <1>1, <1>2, ConnsDialogSteps, ConnsFormSteps, ConnsSubmits, ConnsSaveHandles, ConnsEnds,
     ConnsTests, ConnsRemoves, ConnsOthers DEF Conns!Next

\* A connection and its credential.
ConnsFormInv == Conns!MethodNeedsCredential /\ Conns!UpdateFits /\ Conns!CredentialFits

LEMMA ConnsFormStarts == Conns!Init => ConnsFormInv
<1> SUFFICES ASSUME Conns!Init PROVE ConnsFormInv
  OBVIOUS
<1>1. slot6 = "none" /\ slot10 = Conns!NoSave
  BY DEF Conns!Init
<1>2. Conns!CredentialFits
  <2> DEFINE s == [provider |-> "http", auth |-> "bearer", url |-> 0, key |-> "bearer"]
             k == CHOOSE c \in Conn : TRUE
  <2>1. slot5 = [d \in Conn |-> IF d = k THEN s ELSE Conns!Absent] /\ s.key = s.auth
    BY DEF Conns!Init
  <2> HIDE DEF s, k
  <2> QED
    BY <2>1 DEF Conns!CredentialFits, Conns!Exists
<1> QED
  BY <1>1, <1>2, ConnsRecords
  DEF ConnsFormInv, Conns!MethodNeedsCredential, Conns!Editing, Conns!UpdateFits

\* A form that is open goes on as it was.
LEMMA ConnsMethodStays ==
  ASSUME ConnsFormInv, UNCHANGED <<slot7, slot9>>, slot8'.auth = slot8.auth,
         slot6' = "edit" => slot6 = "edit"
  PROVE  Conns!MethodNeedsCredential'
BY DEF ConnsFormInv, Conns!MethodNeedsCredential, Conns!Editing

LEMMA ConnsUpdateStays ==
  ASSUME ConnsFormInv, slot5' = slot5, slot10' = slot10, slot16' = slot16
  PROVE  Conns!UpdateFits' /\ Conns!CredentialFits'
BY DEF ConnsFormInv, Conns!UpdateFits, Conns!CredentialFits, Conns!Exists

LEMMA ConnsUpdateNone ==
  ASSUME ConnsFormInv, slot5' = slot5, slot16 \subseteq slot16', slot10'.kind # "update"
  PROVE  Conns!UpdateFits' /\ Conns!CredentialFits'
BY DEF ConnsFormInv, Conns!UpdateFits, Conns!CredentialFits, Conns!Exists

LEMMA ConnsMethods ==
  ASSUME ConnsListInv, ConnsFormInv, Conns!Next \/ UNCHANGED Conns!vars
  PROVE  Conns!MethodNeedsCredential'
<1>1. ConnsType /\ Conns!RowsFit /\ Conns!OneAtATime
  BY DEF ConnsListInv
<1>2. slot6 = "edit" => slot7 # Conns!NoRow
  BY <1>1, ConnsRecords, ListsAssumption DEF Conns!RowsFit, Conns!RowFits
<1>3. CASE slot6' # "edit"
  BY <1>3 DEF Conns!MethodNeedsCredential, Conns!Editing
<1>4. ASSUME NEW r, Conns!OpenEdit(r) PROVE Conns!MethodNeedsCredential'
  <2>1. slot7' = r /\ slot8'.auth = r.auth
    BY <1>4 DEF Conns!OpenEdit
  <2> QED
    BY <2>1 DEF Conns!MethodNeedsCredential
<1>5. ASSUME NEW auth \in Conns!Auth, Conns!ChangeAuth(auth) PROVE Conns!MethodNeedsCredential'
  <2>1. /\ slot8'.auth = auth /\ slot6' = slot6 /\ slot7' = slot7
        /\ slot7 # Conns!NoRow => slot9' = (auth # "none")
    BY <1>1, <1>5 DEF Conns!ChangeAuth, ConnsType, ConnsFormType
  <2> QED
    BY <1>2, <2>1 DEF Conns!MethodNeedsCredential, Conns!Editing
<1>6. CASE Conns!Replace
  BY <1>6 DEF Conns!MethodNeedsCredential, Conns!Replace
<1>7. CASE Conns!TypeCredential \/ Conns!TypeUrl
  <2>1. UNCHANGED <<slot6, slot7, slot9>> /\ slot8'.auth = slot8.auth
    BY <1>1, <1>7 DEF Conns!TypeCredential, Conns!TypeUrl, ConnsType, ConnsFormType
  <2> QED
    BY <2>1, ConnsMethodStays
<1>8. ASSUME UNCHANGED <<slot6, slot7, slot8, slot9>> PROVE Conns!MethodNeedsCredential'
  BY <1>8, ConnsMethodStays
<1>9. CASE Conns!Submit \/ Conns!SubmitStripe
  BY <1>3, <1>8, <1>9 DEF Conns!Submit, Conns!SubmitStripe, Conns!SavedEnds
<1>10. CASE Conns!SaveFails
  <2>1. UNCHANGED <<slot6, slot7, slot9>> /\ slot8'.auth = slot8.auth
    BY <1>1, <1>10 DEF Conns!SaveFails, ConnsType, ConnsFormType
  <2> QED
    BY <2>1, ConnsMethodStays
<1>11. CASE \/ \E i \in DOMAIN slot1 :
                 Conns!ListHandled(i) \/ Conns!ListAnswered(i) \/ Conns!ListFails(i)
            \/ Conns!Refresh \/ Conns!SaveHandled \/ Conns!Remove \/ Conns!RemoveHandled
            \/ Conns!RemoveFails \/ UNCHANGED Conns!vars
            \/ \E r \in (slot2 \cup {slot7}) \ {Conns!NoRow} : Conns!RunTest(r)
            \/ \E c \in Conn : Conns!OthersChange(c)
  <2>1. UNCHANGED <<slot6, slot7, slot8, slot9>>
    BY <1>11 DEF Conns!ListHandled, Conns!ListAnswered, Conns!ListFails, Conns!Refresh,
       Conns!SaveHandled, Conns!Remove, Conns!RemoveHandled, Conns!RemoveFails, Conns!vars,
       Conns!RunTest, Conns!OthersChange, Conns!saveVars
  <2> QED
    BY <1>8, <2>1
<1>12. CASE \/ Conns!CloseModal \/ Conns!OpenCreate \/ Conns!ChooseService \/ Conns!SaveAnswered
            \/ Conns!RemoveAnswered
            \/ \E r \in (slot2 \cup {slot7}) \ {Conns!NoRow} :
                 Conns!ShowDetails(r) \/ Conns!AskDelete(r)
  BY <1>3, <1>12 DEF Conns!CloseModal, Conns!OpenCreate, Conns!ChooseService, Conns!Create,
     Conns!SaveAnswered, Conns!SavedEnds, Conns!RemoveAnswered, Conns!ShowDetails,
     Conns!AskDelete
<1>13. ASSUME NEW c \in Conn, Conns!TestAnswered(c) PROVE Conns!MethodNeedsCredential'
  BY <1>3, <1>8, <1>13 DEF Conns!TestAnswered, Conns!saveVars
<1> QED
  BY <1>4, <1>5, <1>6, <1>7, <1>9, <1>10, <1>11, <1>12, <1>13 DEF Conns!Next

\* What a form sends leaves the method and the credential together.
LEMMA ConnsUpdates ==
  ASSUME ConnsListInv, ConnsFormInv, Conns!Submit
  PROVE  Conns!UpdateFits' /\ Conns!CredentialFits'
<1>1. ConnsType /\ Conns!RowsFit /\ Conns!MethodNeedsCredential /\ Conns!CredentialFits
  BY DEF ConnsListInv, ConnsFormInv
<1>2. UNCHANGED <<slot5, slot16>> /\ slot10 = Conns!NoSave
  BY DEF Conns!Submit
<1>3. CASE slot10' = [kind |-> "update", id |-> slot7.id, payload |-> Conns!Payload,
                      answer |-> "none"] /\ slot6 = "edit"
  <2> DEFINE c == slot7.id
             p == Conns!Payload
  <2>1. slot10'.id = c /\ slot10'.payload = p
    BY <1>3
  <2>2. c \in Conn /\ (c \notin slot16 /\ Conns!Exists(c) => slot5[c].auth = slot7.auth)
    BY <1>1, <1>2, <1>3, ConnsRecords DEF Conns!RowsFit, Conns!RowFits, Conns!Saved
  <2>3. slot8.auth \in Conns!Auth
    BY <1>1 DEF ConnsType, ConnsFormType
  <2>4. Conns!NeedsCredential => slot8.credential
    BY DEF Conns!Submit
  <2>5. ASSUME c \notin slot16, Conns!Exists(c)
        PROVE  (IF p.config THEN p.auth ELSE slot5[c].auth) =
               (IF p.credential = "kept" THEN slot5[c].key ELSE p.credential)
    <3>1. slot5[c].auth = slot7.auth /\ slot5[c].key = slot7.auth
      BY <1>1, <2>2, <2>5 DEF Conns!CredentialFits
    <3>2. (IF p.config THEN p.auth ELSE slot5[c].auth) = slot8.auth
      BY <3>1, ConnsPayload DEF Conns!ConfigChanged
    <3>3. CASE slot8.auth = "none"
      <4>1. p.credential = IF slot7.auth # "none" THEN "none" ELSE "kept"
        BY <3>3, ConnsPayload
      <4> QED
        BY <3>1, <3>2, <3>3, <4>1
    <3>4. CASE slot8.auth # "none" /\ slot8.auth = slot7.auth
      <4>1. p.credential = slot8.auth \/ p.credential = "kept"
        BY <3>4, ConnsPayload
      <4> QED
        BY <2>3, <3>1, <3>2, <3>4, <4>1
    <3>5. CASE slot8.auth # "none" /\ slot8.auth # slot7.auth
      <4>1. slot9
        BY <1>1, <1>3, <3>5 DEF Conns!MethodNeedsCredential, Conns!Editing
      <4>2. slot8.credential
        BY <2>4, <3>5, <4>1 DEF Conns!NeedsCredential
      <4>3. p.credential = slot8.auth
        BY <3>5, <4>1, <4>2, ConnsPayload
      <4>4. slot8.auth # "kept"
        BY <2>3 DEF Conns!Auth
      <4> QED
        BY <3>2, <4>3, <4>4
    <3> QED
      BY <3>3, <3>4, <3>5
  <2>6. Conns!CredentialFits'
    BY <1>1, <1>2 DEF Conns!CredentialFits, Conns!Exists
  <2> HIDE DEF c, p
  <2>7. Conns!UpdateFits'
    BY <1>2, <2>1, <2>2, <2>5 DEF Conns!UpdateFits, Conns!Exists
  <2> QED
    BY <2>6, <2>7
<1>4. CASE slot10' = Conns!NoSave
  BY <1>2, <1>4, ConnsUpdateNone, ConnsRecords
<1>5. CASE slot10' = [kind |-> "create", provider |-> "http", auth |-> slot8.auth,
                      url |-> slot8.url, answer |-> "none"]
  <2>1. slot10'.kind = "create"
    BY <1>5
  <2> QED
    BY <1>2, <2>1, ConnsUpdateNone
<1> QED
  BY <1>3, <1>4, <1>5 DEF Conns!Submit, Conns!SavedEnds, Conns!BeginSave, Conns!Editing

LEMMA ConnsSaved ==
  ASSUME ConnsListInv, ConnsFormInv, Conns!SaveHandled
  PROVE  Conns!UpdateFits' /\ Conns!CredentialFits'
<1>1. ConnsType /\ Conns!UpdateFits /\ Conns!CredentialFits
  BY DEF ConnsListInv, ConnsFormInv
<1>2. slot16' = slot16 /\ slot10.answer = "none" /\ Conns!Stores(slot10)
  BY DEF Conns!SaveHandled
<1>3. PICK answer \in {"ok", "404"} : slot10' = [slot10 EXCEPT !.answer = answer]
  BY <1>2 DEF Conns!Stores
<1>4. slot10'.answer # "none"
  BY <1>1, <1>3 DEF ConnsType, ConnsSaveType
<1>5. Conns!UpdateFits'
  BY <1>4 DEF Conns!UpdateFits
<1>6. Conns!CredentialFits'
  <2>1. CASE slot5' = slot5
    BY <1>1, <1>2, <2>1 DEF Conns!CredentialFits, Conns!Exists
  <2>2. ASSUME NEW c \in Conn, slot10.kind = "create", 
               slot5' = [slot5 EXCEPT ![c] = [provider |-> slot10.provider,
                           auth |-> slot10.auth, url |-> slot10.url, key |-> slot10.auth]]
        PROVE  Conns!CredentialFits'
    <3> DEFINE new == [provider |-> slot10.provider, auth |-> slot10.auth, url |-> slot10.url,
                       key |-> slot10.auth]
    <3>1. slot5' = [slot5 EXCEPT ![c] = new] /\ new.key = new.auth
      BY <2>2
    <3> HIDE DEF new
    <3>2. slot5'[c] = new /\ \A d \in Conn \ {c} : slot5'[d] = slot5[d]
      BY <1>1, <3>1 DEF ConnsType, ConnsStoredType
    <3> QED
      BY <1>1, <1>2, <3>1, <3>2 DEF Conns!CredentialFits, Conns!Exists
  <2>3. CASE /\ slot10.kind = "update" /\ Conns!Exists(slot10.id)
             /\ slot5' = [slot5 EXCEPT ![slot10.id] =
                 [slot5[slot10.id] EXCEPT
                    !.auth = IF slot10.payload.config THEN slot10.payload.auth ELSE @,
                    !.url = IF slot10.payload.config THEN slot10.payload.url ELSE @,
                    !.key = IF slot10.payload.credential = "kept" THEN @
                            ELSE slot10.payload.credential]]
    <3> DEFINE c == slot10.id
               p == slot10.payload
               new == [slot5[c] EXCEPT
                         !.auth = IF p.config THEN p.auth ELSE @,
                         !.url = IF p.config THEN p.url ELSE @,
                         !.key = IF p.credential = "kept" THEN @ ELSE p.credential]
    <3>1. slot5' = [slot5 EXCEPT ![c] = new]
      BY <2>3
    <3>2. c \in Conn /\ DOMAIN slot5[c] = {"provider", "auth", "url", "key"}
      BY <1>1, <2>3 DEF ConnsType, ConnsStoredType, ConnsSaveType
    <3>3. /\ new.auth = IF p.config THEN p.auth ELSE slot5[c].auth
          /\ new.key = IF p.credential = "kept" THEN slot5[c].key ELSE p.credential
      BY <3>2
    <3> HIDE DEF new
    <3>4. c \notin slot16 => new.auth = new.key
      BY <1>1, <1>2, <2>3, <3>3 DEF Conns!UpdateFits
    <3>5. slot5'[c] = new /\ \A d \in Conn \ {c} : slot5'[d] = slot5[d]
      BY <1>1, <3>1, <3>2 DEF ConnsType, ConnsStoredType
    <3> QED
      BY <1>1, <1>2, <3>4, <3>5 DEF Conns!CredentialFits, Conns!Exists
  <2> QED
    BY <1>2, <2>1, <2>2, <2>3 DEF Conns!Stores
<1> QED
  BY <1>5, <1>6

LEMMA ConnsFormKept ==
  ASSUME ConnsListInv, ConnsFormInv, Conns!Next \/ UNCHANGED Conns!vars
  PROVE  Conns!UpdateFits' /\ Conns!CredentialFits'
<1>1. ConnsType /\ Conns!OneAtATime /\ Conns!UpdateFits /\ Conns!CredentialFits
  BY DEF ConnsListInv, ConnsFormInv
<1>2. CASE Conns!SubmitStripe
  <2>1. UNCHANGED <<slot5, slot16>>
        /\ slot10' = [kind |-> "create", provider |-> "stripe", auth |-> "bearer", url |-> 0,
                      answer |-> "none"]
    BY <1>2 DEF Conns!SubmitStripe, Conns!BeginSave
  <2>2. slot10'.kind = "create"
    BY <2>1
  <2> QED
    BY <2>1, <2>2, ConnsUpdateNone
<1>3. CASE Conns!SaveAnswered \/ Conns!SaveFails
  <2>1. slot5' = slot5 /\ slot10' = Conns!NoSave /\ slot16 \subseteq slot16'
    BY <1>3 DEF Conns!SaveAnswered, Conns!SavedEnds, Conns!SaveFails
  <2> QED
    BY <2>1, ConnsUpdateNone, ConnsRecords
<1>4. CASE Conns!RemoveHandled
  <2>1. UNCHANGED <<slot10, slot16>> /\ slot11 # Conns!NoDelete
        /\ slot5' = [slot5 EXCEPT ![slot11.id] = Conns!Deleted]
    BY <1>4 DEF Conns!RemoveHandled, Conns!saveVars
  <2>2. slot10'.kind = "none"
    BY <1>1, <2>1, ConnsRecords DEF Conns!OneAtATime
  <2>3. \A d \in Conn : slot5'[d] = slot5[d] \/ slot5'[d] = Conns!Deleted
    BY <1>1, <2>1 DEF ConnsType, ConnsStoredType
  <2> QED
    BY <1>1, <2>1, <2>2, <2>3 DEF Conns!UpdateFits, Conns!CredentialFits, Conns!Exists
<1>5. ASSUME NEW c \in Conn, Conns!OthersChange(c)
      PROVE  Conns!UpdateFits' /\ Conns!CredentialFits'
  <2>1. slot10' = slot10 /\ slot16' = slot16 \cup {c}
    BY <1>5 DEF Conns!OthersChange, Conns!saveVars
  <2>2. \A d \in Conn \ {c} : slot5'[d] = slot5[d]
    BY <1>1, <1>5 DEF Conns!OthersChange, ConnsType, ConnsStoredType
  <2>3. Conns!UpdateFits'
    BY <1>1, <2>1, <2>2 DEF Conns!UpdateFits, Conns!Exists
  <2>4. Conns!CredentialFits'
    BY <1>1, <2>1, <2>2 DEF Conns!CredentialFits, Conns!Exists
  <2> QED
    BY <2>3, <2>4
<1>6. CASE \/ \E i \in DOMAIN slot1 :
                Conns!ListHandled(i) \/ Conns!ListAnswered(i) \/ Conns!ListFails(i)
           \/ Conns!Refresh \/ Conns!CloseModal \/ Conns!OpenCreate \/ Conns!ChooseService
           \/ \E r \in (slot2 \cup {slot7}) \ {Conns!NoRow} :
                \/ Conns!ShowDetails(r) \/ Conns!OpenEdit(r) \/ Conns!AskDelete(r)
                \/ Conns!RunTest(r)
           \/ \E auth \in Conns!Auth : Conns!ChangeAuth(auth)
           \/ Conns!Replace \/ Conns!TypeCredential \/ Conns!TypeUrl
           \/ Conns!Remove \/ Conns!RemoveAnswered \/ Conns!RemoveFails
           \/ \E c \in Conn : Conns!TestAnswered(c)
           \/ UNCHANGED Conns!vars
  <2>1. UNCHANGED <<slot5, slot10, slot16>>
    BY <1>6 DEF Conns!ListHandled, Conns!ListAnswered, Conns!ListFails, Conns!Refresh,
       Conns!CloseModal, Conns!OpenCreate, Conns!ChooseService, Conns!Create,
       Conns!ShowDetails, Conns!OpenEdit, Conns!AskDelete, Conns!RunTest, Conns!ChangeAuth,
       Conns!Replace, Conns!TypeCredential, Conns!TypeUrl, Conns!Remove,
       Conns!RemoveAnswered, Conns!RemoveFails, Conns!TestAnswered, Conns!vars,
       Conns!saveVars
  <2> QED
    BY <2>1, ConnsUpdateStays
<1> QED
  BY <1>2, <1>3, <1>4, <1>5, <1>6, ConnsUpdates, ConnsSaved DEF Conns!Next

ConnsInv == ConnsListInv /\ ConnsFormInv

LEMMA ConnsTold == ConnsInv => Conns!DeletedStaysAway /\ Conns!CredentialFits
BY ConnsListTold DEF ConnsInv, ConnsFormInv

LEMMA ConnsStarts == Conns!Init => ConnsInv
BY ConnsListStarts, ConnsFormStarts DEF ConnsInv

LEMMA ConnsSteps ==
  ASSUME ConnsInv, Conns!Next \/ UNCHANGED Conns!vars PROVE ConnsInv'
BY ConnsListSteps, ConnsMethods, ConnsFormKept DEF ConnsInv, ConnsFormInv

-----------------------------------------------------------------------------
(* The list of the dead letters.  slot1 to slot4 are the list, slot5 to     *)
(* slot13 are stored, unsafe, query, drawer, read, post, changed, blind and *)
(* missed.                                                                  *)

LEMMA DeskList ==
  /\ \A q : Desk!Ask(q) <=> List!Ask(q)
  /\ \A i, answer : Desk!Handled(i, answer) <=> List!Handled(i, answer)
  /\ \A i : Desk!Answered(i) <=> List!Answered(i)
  /\ \A i : Desk!Fails(i) <=> List!Fails(i)
  /\ Desk!Current = List!Current /\ Desk!Current' = List!Current'
  /\ Desk!Answers = List!Answers /\ Desk!Answers' = List!Answers'
  /\ Desk!Asked = List!Asked /\ Desk!Asked' = List!Asked'
BY DEF Desk!Ask, Desk!Handled, Desk!Answered, Desk!Fails, Desk!Without, Desk!Overtaken,
   Desk!Request,
   Desk!Current, Desk!Answers, Desk!Asked, List!Ask, List!Handled, List!Answered, List!Fails,
   List!Without, List!Overtaken, List!Request, List!Current, List!Answers, List!Asked

DeskOpen == Desk!DrawerIsOpen /\ "id" \in DOMAIN slot8

DeskListInv ==
  /\ ListInv /\ DeskOpen /\ Desk!AsksForQuery /\ Desk!AnswersAreCurrent
  /\ slot11 \in BOOLEAN /\ slot13 \in BOOLEAN

LEMMA DeskTold == DeskListInv => Desk!ListIsCurrent
<1> SUFFICES ASSUME DeskListInv, slot8 = Desk!Closed, Desk!Quiet, ~slot13
             PROVE  slot2 = Desk!Rows(slot7)
  BY DEF Desk!ListIsCurrent
<1>1. Desk!Current = {} /\ ~slot4
  BY DEF Desk!Quiet, Desk!Current
<1>2. ~slot11 /\ slot10 = "none"
  BY DEF DeskListInv, DeskOpen, Desk!DrawerIsOpen
<1> QED
  BY <1>1, <1>2 DEF DeskListInv, Desk!AnswersAreCurrent

LEMMA DeskShut ==
  /\ Desk!Closed.id = None /\ "id" \in DOMAIN Desk!Closed
  /\ Desk!Closed.action = "none" /\ Desk!Closed.status = "none"
BY DEF Desk!Closed

LEMMA DeskListStarts == Desk!Init => DeskListInv
<1> SUFFICES ASSUME Desk!Init PROVE DeskListInv
  OBVIOUS
<1>1. slot1 = <<List!Request(slot7)>> /\ slot8 = Desk!Closed /\ slot9 = "none" /\ slot10 = "none"
      /\ slot11 = FALSE /\ slot13 = FALSE
  BY DEF Desk!Init, Desk!Request, List!Request
<1>2. ListInv /\ Desk!Answers = {} /\ Desk!Current # {} /\ Desk!Asked = {slot7}
  BY <1>1, ListStarts, DeskList
<1>3. DeskOpen
  BY <1>1, DeskShut DEF DeskOpen, Desk!DrawerIsOpen
<1> QED
  BY <1>1, <1>2, <1>3 DEF DeskListInv, Desk!AsksForQuery, Desk!AnswersAreCurrent

\* What leaves the list alone.
LEMMA DeskStays ==
  ASSUME DeskListInv, UNCHANGED <<slot1, slot2, slot3, slot4, slot7>>, DeskOpen',
         slot11' \in BOOLEAN, slot13' \in BOOLEAN,
         \/ slot11' \/ slot13' \/ slot10' = "accepted"
         \/ slot5' = slot5 /\ ~slot11 /\ ~slot13 /\ slot10 # "accepted"
  PROVE  DeskListInv'
<1>1. ListInv /\ Desk!AsksForQuery /\ Desk!AnswersAreCurrent
  BY DEF DeskListInv
<1>2. ListInv' /\ Desk!Answers' = Desk!Answers /\ Desk!Current' = Desk!Current
      /\ Desk!Asked' = Desk!Asked
  BY <1>1, DeskList, ListStays
<1>3. Desk!AsksForQuery'
  BY <1>1, <1>2 DEF Desk!AsksForQuery
<1>4. Desk!AnswersAreCurrent'
  <2>1. CASE slot11' \/ slot13' \/ slot10' = "accepted"
    BY <2>1 DEF Desk!AnswersAreCurrent
  <2>2. CASE slot5' = slot5 /\ ~slot11 /\ ~slot13 /\ slot10 # "accepted"
    <3>1. Desk!Rows(slot7)' = Desk!Rows(slot7)
      BY <2>2 DEF Desk!Rows, Desk!Matches
    <3> QED
      BY <1>1, <1>2, <2>2, <3>1 DEF Desk!AnswersAreCurrent
  <2> QED
    BY <2>1, <2>2
<1> QED
  BY <1>2, <1>3, <1>4 DEF DeskListInv

\* The list is asked for, with the query that is set by then.
LEMMA DeskAsks ==
  ASSUME DeskListInv, DeskOpen', slot11' \in BOOLEAN, slot13' \in BOOLEAN,
         ListInv', Desk!Answers' = {}, Desk!Asked' = {slot7'}, Desk!Current' # {}
  PROVE  DeskListInv'
BY DEF DeskListInv, Desk!AsksForQuery, Desk!AnswersAreCurrent

LEMMA DeskListSteps ==
  ASSUME DeskListInv, NEW i \in DOMAIN slot1,
         Desk!ListHandled(i) \/ Desk!ListAnswered(i) \/ Desk!ListFails(i)
  PROVE  DeskListInv'
<1>1. ListInv /\ DeskOpen /\ Desk!AsksForQuery /\ Desk!AnswersAreCurrent
      /\ slot11 \in BOOLEAN /\ slot13 \in BOOLEAN
  BY DEF DeskListInv
<1>2. UNCHANGED <<slot5, slot8, slot9, slot10, slot11, slot13>>
  BY DEF Desk!ListHandled, Desk!ListAnswered, Desk!ListFails, Desk!pageVars, Desk!history
<1>3. DeskOpen' /\ slot11' \in BOOLEAN /\ slot13' \in BOOLEAN
  BY <1>1, <1>2 DEF DeskOpen, Desk!DrawerIsOpen
<1>4. \A q : Desk!Rows(q)' = Desk!Rows(q)
  BY <1>2 DEF Desk!Rows, Desk!Matches
<1>5. CASE Desk!ListHandled(i)
  <2> DEFINE q == slot1[i].query
  <2>1. /\ ListInv' /\ Desk!Current' = Desk!Current /\ Desk!Asked' = Desk!Asked
        /\ Desk!Answers' \subseteq Desk!Answers \cup {Desk!Rows(q)}
        /\ q \notin Desk!Asked => Desk!Answers' = Desk!Answers
        /\ slot2' = slot2 /\ slot4' = slot4 /\ slot7' = slot7
    BY <1>1, <1>5, DeskList, ListHandled DEF Desk!ListHandled, Desk!pageVars
  <2> HIDE DEF q
  <2>2. Desk!AsksForQuery'
    BY <1>1, <2>1 DEF Desk!AsksForQuery
  <2>3. q \in Desk!Asked => q = slot7
    BY <1>1 DEF Desk!AsksForQuery
  <2>4. Desk!Answers' \subseteq Desk!Answers \cup {Desk!Rows(slot7)}
    BY <2>1, <2>3
  <2>5. Desk!AnswersAreCurrent'
    BY <1>1, <1>2, <1>4, <2>1, <2>4 DEF Desk!AnswersAreCurrent
  <2> QED
    BY <1>3, <2>1, <2>2, <2>5 DEF DeskListInv
<1>6. ASSUME slot7' = slot7, Desk!Answered(i) \/ Desk!Fails(i)
      PROVE  DeskListInv'
  <2>1. /\ ListInv' /\ Desk!Asked' \subseteq Desk!Asked
        /\ \/ /\ Desk!Answers' = {} /\ Desk!Current # {} /\ slot2' \in Desk!Answers
           \/ /\ Desk!Answers' = {} /\ slot4' = TRUE
           \/ /\ Desk!Answers' = Desk!Answers /\ (Desk!Current' = {} <=> Desk!Current = {})
              /\ slot2' = slot2 /\ slot4' = slot4
    BY <1>1, <1>6, DeskList, ListAnswered, ListFailed DEF Overtaken
  <2>2. Desk!AsksForQuery'
    BY <1>1, <1>6, <2>1 DEF Desk!AsksForQuery
  <2>3. Desk!AnswersAreCurrent'
    BY <1>1, <1>2, <1>4, <1>6, <2>1 DEF Desk!AnswersAreCurrent
  <2> QED
    BY <1>3, <2>1, <2>2, <2>3 DEF DeskListInv
<1>7. CASE Desk!ListFails(i)
  BY <1>6, <1>7 DEF Desk!ListFails, Desk!pageVars
<1>8. CASE Desk!ListAnswered(i)
  <2>1. CASE Desk!Answered(i) /\ slot7' = slot7
    BY <1>6, <2>1
  <2>2. CASE slot1[i].active /\ slot1' = Append(Desk!Without(slot1, i), Desk!Request(slot7'))
    <3>1. slot1' = Append(List!Without(slot1, i), List!Request(slot7'))
      BY <2>2 DEF Desk!Without, List!Without, Desk!Request, List!Request
    <3>2. ListInv' /\ Desk!Answers' = {} /\ Desk!Asked' = {slot7'} /\ Desk!Current' # {}
      BY <1>1, <2>2, <3>1, ListReasks, DeskList
    <3> QED
      BY <1>3, <3>2, DeskAsks
  <2> QED
    BY <1>8, <2>1, <2>2 DEF Desk!ListAnswered
<1> QED
  BY <1>5, <1>7, <1>8

LEMMA DeskChanges ==
  ASSUME DeskListInv, NEW q, Desk!Change(q), DeskOpen', slot11' \in BOOLEAN, slot13' \in BOOLEAN
  PROVE  DeskListInv'
<1>1. List!Ask(q) /\ slot7' = q
  BY DeskList DEF Desk!Change
<1>2. ListInv' /\ Desk!Answers' = {} /\ Desk!Asked' = {slot7'} /\ Desk!Current' # {}
  BY <1>1, ListAsked, DeskList DEF DeskListInv
<1> QED
  BY <1>2, DeskAsks

\* The drawer stays open whatever it shows.
LEMMA DeskStaysOpen ==
  ASSUME DeskOpen, slot8 # Desk!Closed, slot8'.id = slot8.id, "id" \in DOMAIN slot8'
  PROVE  DeskOpen'
BY DeskShut DEF DeskOpen, Desk!DrawerIsOpen

LEMMA DeskMoves ==
  ASSUME DeskListInv, Desk!Next \/ UNCHANGED Desk!vars
  PROVE  DeskListInv'
<1>1. DeskOpen /\ slot11 \in BOOLEAN /\ slot13 \in BOOLEAN /\ Desk!DrawerIsOpen
      /\ "id" \in DOMAIN slot8 /\ Desk!AnswersAreCurrent
  BY DEF DeskListInv, DeskOpen
<1>2. ASSUME UNCHANGED <<slot8, slot9, slot10, slot11>> PROVE DeskOpen'
  BY <1>1, <1>2 DEF DeskOpen, Desk!DrawerIsOpen
<1>3. CASE UNCHANGED Desk!vars
  BY <1>1, <1>2, <1>3, DeskStays DEF Desk!vars, Desk!listVars, Desk!pageVars, Desk!history
<1>4. CASE \E q : Desk!Browse(q)
  <2>1. PICK q : Desk!Change(q) /\ UNCHANGED <<slot8, slot9, slot10, slot11, slot13>>
    BY <1>4 DEF Desk!Browse
  <2> QED
    BY <1>1, <1>2, <2>1, DeskChanges
<1>5. CASE Desk!RefreshList
  <2>1. Desk!Change(slot7) /\ UNCHANGED <<slot8, slot9, slot10, slot11, slot13>>
    BY <1>5 DEF Desk!RefreshList, Desk!history
  <2> QED
    BY <1>1, <1>2, <2>1, DeskChanges
<1>6. CASE Desk!CloseDrawer
  <2>1. /\ slot8' = Desk!Closed /\ slot9' = "none" /\ slot10 = "none" /\ slot11' = FALSE
        /\ UNCHANGED <<slot5, slot10, slot13>>
    BY <1>6 DEF Desk!CloseDrawer, Desk!history
  <2>2. DeskOpen'
    BY <2>1, DeskShut DEF DeskOpen, Desk!DrawerIsOpen
  <2>3. CASE slot11
    <3>1. Desk!Change(slot7)
      BY <1>6, <2>3 DEF Desk!CloseDrawer
    <3> QED
      BY <1>1, <2>1, <2>2, <3>1, DeskChanges
  <2>4. CASE ~slot11
    <3>1. UNCHANGED <<slot1, slot2, slot3, slot4, slot7>>
      BY <1>6, <2>4 DEF Desk!CloseDrawer, Desk!listVars
    <3> QED
      BY <1>1, <2>1, <2>2, <2>4, <3>1, DeskStays
  <2> QED
    BY <2>3, <2>4
<1>7. ASSUME NEW e \in Event, Desk!Select(e) PROVE DeskListInv'
  <2>1. /\ slot8' = [Desk!Closed EXCEPT !.id = e, !.loading = TRUE]
        /\ UNCHANGED <<slot1, slot2, slot3, slot4, slot5, slot7, slot10, slot11, slot13>>
    BY <1>7 DEF Desk!Select, Desk!listVars
  <2>2. slot8'.id = e /\ "id" \in DOMAIN slot8' /\ e # None
    BY <2>1, DeskShut, ListsAssumption
  <2>3. DeskOpen'
    BY <2>2, DeskShut DEF DeskOpen, Desk!DrawerIsOpen
  <2> QED
    BY <1>1, <2>1, <2>3, DeskStays
<1>8. CASE Desk!ReadHandled
  <2>1. UNCHANGED <<slot1, slot2, slot3, slot4, slot5, slot7, slot8, slot10, slot11, slot13>>
        /\ slot9 # "none"
    BY <1>8 DEF Desk!ReadHandled, Desk!listVars, Desk!history
  <2>2. DeskOpen'
    BY <1>1, <2>1, DeskStaysOpen DEF Desk!DrawerIsOpen
  <2> QED
    BY <1>1, <2>1, <2>2, DeskStays
<1>9. CASE Desk!ReadAnswered \/ Desk!ReadFails \/ Desk!Reload
  <2>1. UNCHANGED <<slot1, slot2, slot3, slot4, slot5, slot7, slot10, slot11, slot13>>
        /\ slot8 # Desk!Closed
    BY <1>1, <1>9 DEF Desk!ReadAnswered, Desk!ReadFails, Desk!Reload, Desk!listVars, Desk!history,
       Desk!DrawerIsOpen
  <2>2. slot8'.id = slot8.id /\ "id" \in DOMAIN slot8'
    BY <1>1, <1>9 DEF Desk!ReadAnswered, Desk!ReadFails, Desk!Reload
  <2> QED
    BY <1>1, <2>1, <2>2, DeskStays, DeskStaysOpen
<1>10. CASE Desk!CancelAction \/ Desk!Confirm \/ \E action : Desk!Choose(action)
  <2>1. UNCHANGED <<slot1, slot2, slot3, slot4, slot5, slot7, slot11, slot13>>
        /\ (slot10' = slot10 \/ slot10 = "none")
    BY <1>10 DEF Desk!CancelAction, Desk!Confirm, Desk!Choose, Desk!listVars, Desk!history,
       Desk!Ready
  <2>2. slot8 # Desk!Closed
    BY <1>10, DeskShut DEF Desk!CancelAction, Desk!Confirm, Desk!Choose, Desk!Ready
  <2>3. slot8'.id = slot8.id /\ "id" \in DOMAIN slot8'
    BY <1>1, <1>10 DEF Desk!CancelAction, Desk!Confirm, Desk!Choose
  <2> QED
    BY <1>1, <2>1, <2>2, <2>3, DeskStays, DeskStaysOpen
<1>11. CASE Desk!PostHandled
  <2>1. UNCHANGED <<slot1, slot2, slot3, slot4, slot7, slot8, slot11, slot13>>
        /\ slot10 = "sent" /\ (slot10' = "accepted" \/ slot5' = slot5)
    BY <1>11 DEF Desk!PostHandled, Desk!listVars, Desk!history
  <2>2. DeskOpen'
    BY <1>1, <2>1, DeskStaysOpen DEF Desk!DrawerIsOpen
  <2> QED
    BY <1>1, <2>1, <2>2, DeskStays
<1>12. CASE Desk!PostAnswered \/ Desk!PostRejected \/ Desk!PostRefused \/ Desk!PostFails
  <2>1. /\ UNCHANGED <<slot1, slot2, slot3, slot4, slot5, slot7>> /\ slot10 # "none"
        /\ \/ slot11' = TRUE /\ slot13' = slot13
           \/ slot13' = TRUE /\ slot11' = slot11
           \/ UNCHANGED <<slot11, slot13>> /\ slot10 # "accepted"
    BY <1>12 DEF Desk!PostAnswered, Desk!PostRejected, Desk!PostRefused, Desk!PostFails,
       Desk!listVars, Desk!history
  <2>2. slot8'.id = slot8.id /\ "id" \in DOMAIN slot8'
    BY <1>1, <1>12 DEF Desk!PostAnswered, Desk!PostRejected, Desk!PostRefused, Desk!PostFails,
       Desk!Failed
  <2>3. DeskOpen'
    BY <1>1, <2>1, <2>2, DeskStaysOpen DEF Desk!DrawerIsOpen
  <2>4. /\ slot11' \in BOOLEAN /\ slot13' \in BOOLEAN
        /\ \/ slot11' \/ slot13'
           \/ slot5' = slot5 /\ ~slot11 /\ ~slot13 /\ slot10 # "accepted"
    <3>1. CASE slot11' = TRUE /\ slot13' = slot13
      BY <1>1, <3>1
    <3>2. CASE slot13' = TRUE /\ slot11' = slot11
      BY <1>1, <3>2
    <3>3. CASE slot11' = slot11 /\ slot13' = slot13 /\ slot10 # "accepted"
      BY <1>1, <2>1, <3>3
    <3> QED
      BY <2>1, <3>1, <3>2, <3>3
  <2> QED
    BY <2>1, <2>3, <2>4, DeskStays
<1>13. CASE \E e \in Event, action \in {"replay", "resolve"} : Desk!OthersHandle(e, action)
  BY <1>1, <1>2, <1>13, DeskStays DEF Desk!OthersHandle, Desk!listVars, Desk!pageVars
<1>14. CASE \E i \in DOMAIN slot1 : Desk!ListHandled(i) \/ Desk!ListAnswered(i) \/ Desk!ListFails(i)
  BY <1>14, DeskListSteps
<1> QED
  BY <1>3, <1>4, <1>5, <1>6, <1>7, <1>8, <1>9, <1>10, <1>11, <1>12, <1>13, <1>14 DEF Desk!Next

-----------------------------------------------------------------------------
(* The desk of the dead letters.  slot8, slot10 and slot12 are drawer,     *)
(* post and blind.                                                         *)

DeskInv ==
  Desk!BlindIsShown /\ Desk!NoBlindRetry /\ {"needsRefresh", "status", "action"} \subseteq DOMAIN slot8

LEMMA DeskClosed ==
  /\ {"needsRefresh", "status", "action"} \subseteq DOMAIN Desk!Closed
  /\ Desk!Closed.status = "none" /\ Desk!Closed.action = "none"
BY DEF Desk!Closed

LEMMA DeskStarts == Desk!Init => DeskInv
BY DeskClosed DEF Desk!Init, DeskInv, Desk!BlindIsShown, Desk!NoBlindRetry

LEMMA DeskSteps ==
  ASSUME DeskInv, Desk!Next \/ UNCHANGED Desk!vars
  PROVE  DeskInv'
<1> USE DEF DeskInv, Desk!BlindIsShown, Desk!NoBlindRetry
<1>1. CASE UNCHANGED <<slot8, slot10, slot12>>
  BY <1>1
<1>2. CASE \/ Desk!RefreshList \/ Desk!ReadHandled
           \/ \E i \in DOMAIN slot1 : Desk!ListHandled(i) \/ Desk!ListAnswered(i) \/ Desk!ListFails(i)
           \/ \E q : Desk!Browse(q)
           \/ \E e \in Event, action \in {"replay", "resolve"} : Desk!OthersHandle(e, action)
  BY <1>1, <1>2 DEF Desk!RefreshList, Desk!ReadHandled, Desk!ListHandled, Desk!ListAnswered,
     Desk!ListFails, Desk!Browse, Desk!OthersHandle, Desk!pageVars, Desk!history
<1>3. CASE \E e \in Event : Desk!Select(e)
  <2>1. PICK e \in Event : Desk!Select(e)
    BY <1>3
  <2>2. slot12' = FALSE /\ slot8' = [Desk!Closed EXCEPT !.id = e, !.loading = TRUE]
    BY <2>1 DEF Desk!Select
  <2>3. DOMAIN slot8' = DOMAIN Desk!Closed
    BY <2>2
  <2> QED
    BY <2>2, <2>3, DeskClosed
<1>4. CASE Desk!CloseDrawer
  <2>1. slot8' = Desk!Closed /\ slot10 = "none" /\ slot10' = slot10
    BY <1>4 DEF Desk!CloseDrawer, Desk!history
  <2> QED
    BY <2>1, DeskClosed
<1>5. CASE Desk!ReadAnswered
  BY <1>5 DEF Desk!ReadAnswered
<1>6. CASE Desk!ReadFails
  BY <1>6 DEF Desk!ReadFails
<1>7. CASE Desk!Reload
  BY <1>7 DEF Desk!Reload, Desk!history
<1>8. CASE Desk!CancelAction
  BY <1>8, DeskClosed DEF Desk!CancelAction, Desk!history
<1>9. CASE \/ Desk!Confirm \/ \E action \in {"replay", "resolve"} : Desk!Choose(action)
  <2>1. slot8 # Desk!Closed /\ ~slot8.needsRefresh
    BY <1>9, DeskClosed DEF Desk!Confirm, Desk!Choose, Desk!Ready
  <2>2. slot12' = slot12 /\ DOMAIN slot8' = DOMAIN slot8
    BY <1>9 DEF Desk!Confirm, Desk!Choose, Desk!history
  <2> QED
    BY <2>1, <2>2
<1>10. CASE Desk!PostHandled
  BY <1>10 DEF Desk!PostHandled, Desk!history
<1>11. CASE Desk!PostAnswered \/ Desk!PostRejected
  <2>1. slot10 # "none" /\ slot12' = slot12
    BY <1>11 DEF Desk!PostAnswered, Desk!PostRejected, Desk!history
  <2>2. DOMAIN slot8' = DOMAIN slot8
    BY <1>11 DEF Desk!PostAnswered, Desk!PostRejected
  <2> QED
    BY <2>1, <2>2
<1>12. CASE Desk!PostRefused \/ Desk!PostFails
  BY <1>12 DEF Desk!PostRefused, Desk!PostFails, Desk!Failed, Desk!history
<1>13. CASE UNCHANGED Desk!vars
  BY <1>1, <1>13 DEF Desk!vars, Desk!pageVars, Desk!history
<1> QED
  BY <1>2, <1>3, <1>4, <1>5, <1>6, <1>7, <1>8, <1>9, <1>10, <1>11, <1>12, <1>13 DEF Desk!Next

-----------------------------------------------------------------------------
(* The documents of a knowledge base, and the workers that ingest them.     *)
(* slot1 to slot15 are stored, chunks, tasks, worker, faults, shown, error, *)
(* refreshing, waiting, request, op, deleting, upload, gone and did.        *)

DocumentStatus == {"none", "uploading", "pending", "ready", "failed", "deleted"} \cup Documents!Active
IngestionTask == [doc : Doc \cup {None}, at : {"idle"} \cup Documents!Active]

IngestionType ==
  /\ slot1 \in [Doc -> DocumentStatus] /\ slot2 \subseteq Doc
  /\ slot4 \in [Worker -> IngestionTask]
  /\ \A w \in Worker : slot4[w].at \in Documents!Active => slot4[w].doc \in Doc

\* The parts of IngestedOnce.
OneWorker ==
  \A w, v \in Worker : slot4[w].at \in Documents!Active /\ slot4[v].at \in Documents!Active
                       /\ slot4[w].doc = slot4[v].doc => w = v
ProgressShown ==
  \A w \in Worker : slot4[w].at \in Documents!Active =>
    slot1[slot4[w].doc] \in {slot4[w].at, "deleted"}
ChunksOfReady == \A d \in Doc : d \in slot2 <=> slot1[d] = "ready"
Ingested == IngestionType /\ OneWorker /\ ProgressShown /\ ChunksOfReady

LEMMA IngestionStarts == Documents!Init => Ingested
BY ListsAssumption
   DEF Documents!Init, Documents!ServiceInit, Documents!NoTask, Ingested, IngestionType,
       DocumentStatus, IngestionTask, Documents!Active,
       OneWorker, ProgressShown, ChunksOfReady

-----------------------------------------------------------------------------
\* What a request may do to a document: nobody is at work on it, or it goes.
LEMMA DocumentMoves ==
  ASSUME Ingested, NEW d \in Doc, NEW s \in DocumentStatus \ Documents!Active, s # "ready",
         slot4' = slot4, slot1' = [slot1 EXCEPT ![d] = s],
         \/ s = "deleted" /\ slot2' = slot2 \ {d}
         \/ slot1[d] \in {"none", "uploading", "pending", "failed"} /\ slot2' = slot2
  PROVE  Ingested'
<1> USE DEF Ingested
<1>1. IngestionType'
  BY DEF IngestionType
<1>2. OneWorker'
  BY DEF OneWorker
<1>3. ProgressShown'
  BY DEF IngestionType, ProgressShown, Documents!Active
<1>4. ChunksOfReady'
  BY DEF IngestionType, ChunksOfReady
<1> QED
  BY <1>1, <1>2, <1>3, <1>4

LEMMA NothingMoves ==
  ASSUME Ingested, UNCHANGED <<slot1, slot2, slot4>>
  PROVE  Ingested'
BY DEF Ingested, IngestionType, OneWorker, ProgressShown, ChunksOfReady

\* A worker that lets go of its document, as it is or failed.
LEMMA WorkerLetsGo ==
  ASSUME Ingested, NEW w \in Worker, slot4' = [slot4 EXCEPT ![w] = Documents!NoTask],
         slot2' = slot2,
         \/ slot1' = slot1
         \/ /\ slot4[w].at \in Documents!Active /\ slot1[slot4[w].doc] \in Documents!Active
            /\ slot1' = [slot1 EXCEPT ![slot4[w].doc] = "failed"]
  PROVE  Ingested'
<1> USE DEF Ingested
<1>1. IngestionType'
  BY ListsAssumption DEF IngestionType, DocumentStatus, IngestionTask, Documents!NoTask,
     Documents!Active
<1>2. OneWorker'
  BY DEF OneWorker, IngestionType, Documents!NoTask, Documents!Active, IngestionTask
<1>3. ProgressShown'
  BY DEF OneWorker, ProgressShown, IngestionType, Documents!NoTask, Documents!Active, IngestionTask
<1>4. ChunksOfReady'
  BY DEF ChunksOfReady, IngestionType, Documents!Active
<1> QED
  BY <1>1, <1>2, <1>3, <1>4

-----------------------------------------------------------------------------
LEMMA WorkersKeepIngested ==
  ASSUME Ingested, NEW w \in Worker,
         \/ \E d \in Doc : Documents!Claim(w, d)
         \/ Documents!Transition(w) \/ Documents!Complete(w) \/ Documents!Fail(w) \/ Documents!WorkerLost(w)
  PROVE  Ingested'
<1>1. ASSUME NEW d \in Doc, Documents!Claim(w, d) PROVE Ingested'
  <2>1. CASE ~Documents!Claimable(d)
    BY <1>1, <2>1, NothingMoves DEF Documents!Claim
  <2>2. CASE Documents!Claimable(d)
    <3>1. /\ slot1' = [slot1 EXCEPT ![d] = "parsing"] /\ slot2' = slot2
          /\ slot4' = [slot4 EXCEPT ![w] = [doc |-> d, at |-> "parsing"]]
          /\ slot1[d] = "pending"
      BY <1>1, <2>2 DEF Documents!Claim, Documents!Claimable, Documents!Set
    <3> USE <3>1 DEF Ingested
    <3>2. IngestionType'
      BY DEF IngestionType, DocumentStatus, IngestionTask, Documents!Active
    <3>3. \A v \in Worker : slot4[v].at \in Documents!Active => slot4[v].doc # d
      BY DEF ProgressShown, IngestionType, Documents!Active
    <3>4. OneWorker'
      BY <3>3 DEF OneWorker, IngestionType
    <3>5. ProgressShown'
      BY <3>3 DEF ProgressShown, IngestionType, Documents!Active
    <3>6. ChunksOfReady'
      BY DEF ChunksOfReady, IngestionType
    <3> QED
      BY <3>2, <3>4, <3>5, <3>6
  <2> QED
    BY <2>1, <2>2
<1>2. CASE Documents!Transition(w)
  <2> DEFINE d == slot4[w].doc
  <2>1. /\ slot4[w].at = "parsing" /\ d \in Doc
        /\ slot1' = [slot1 EXCEPT ![d] = "embedding"] /\ slot2' = slot2
        /\ slot4' = [slot4 EXCEPT ![w] = [doc |-> d, at |-> "embedding"]]
        /\ slot1[d] = "parsing"
    <3>1. slot4[w] \in IngestionTask /\ slot4 \in [Worker -> IngestionTask]
      BY DEF Ingested, IngestionType
    <3>2. [slot4[w] EXCEPT !.at = "embedding"] = [doc |-> d, at |-> "embedding"]
      BY <3>1 DEF IngestionTask
    <3> QED
      BY <1>2, <3>1, <3>2 DEF Documents!Transition, Documents!Set, Ingested, IngestionType,
         Documents!Active
  <2>2. \A v \in Worker \ {w} : slot4[v].at \in Documents!Active => slot4[v].doc # d
    BY <2>1 DEF Ingested, OneWorker, Documents!Active
  <2> HIDE DEF d
  <2> USE <2>1 DEF Ingested
  <2>3. IngestionType'
    BY DEF IngestionType, DocumentStatus, IngestionTask, Documents!Active
  <2>4. OneWorker'
    BY <2>2 DEF OneWorker, IngestionType
  <2>5. ProgressShown'
    BY <2>2 DEF ProgressShown, IngestionType, Documents!Active
  <2>6. ChunksOfReady'
    BY DEF ChunksOfReady, IngestionType
  <2> QED
    BY <2>3, <2>4, <2>5, <2>6
<1>3. CASE Documents!Complete(w)
  <2> DEFINE d == slot4[w].doc
  <2>1. /\ slot4[w].at = "embedding" /\ d \in Doc
        /\ slot1' = [slot1 EXCEPT ![d] = "ready"] /\ slot2' = slot2 \cup {d}
        /\ slot4' = [slot4 EXCEPT ![w] = Documents!NoTask]
    BY <1>3 DEF Documents!Complete, Documents!Set, Ingested, IngestionType, Documents!Active
  <2>2. \A v \in Worker \ {w} : slot4[v].at \in Documents!Active => slot4[v].doc # d
    BY <2>1 DEF Ingested, OneWorker, Documents!Active
  <2> HIDE DEF d
  <2> USE <2>1 DEF Ingested
  <2>3. IngestionType'
    BY ListsAssumption DEF IngestionType, DocumentStatus, IngestionTask, Documents!NoTask,
       Documents!Active
  <2>4. OneWorker'
    BY DEF OneWorker, IngestionType, Documents!NoTask, Documents!Active
  <2>5. ProgressShown'
    BY <2>2 DEF ProgressShown, IngestionType, Documents!NoTask, Documents!Active
  <2>6. ChunksOfReady'
    BY DEF ChunksOfReady, IngestionType
  <2> QED
    BY <2>3, <2>4, <2>5, <2>6
<1>4. CASE Documents!Fail(w) \/ Documents!WorkerLost(w)
  <2>1. \/ slot1' = slot1
        \/ /\ slot4[w].at \in Documents!Active /\ slot1[slot4[w].doc] \in Documents!Active
           /\ slot1' = [slot1 EXCEPT ![slot4[w].doc] = "failed"]
    BY <1>4 DEF Documents!Fail, Documents!WorkerLost, Documents!Set
  <2>2. slot4' = [slot4 EXCEPT ![w] = Documents!NoTask] /\ slot2' = slot2
    BY <1>4 DEF Documents!Fail, Documents!WorkerLost
  <2> QED
    BY <2>1, <2>2, WorkerLetsGo
<1> QED
  BY <1>1, <1>2, <1>3, <1>4

-----------------------------------------------------------------------------
\* The requests of the page.
LEMMA RequestsKeepIngested ==
  ASSUME Ingested, NEW d \in Doc, Documents!UploadFile(d) \/ Documents!OperationHandled(d)
  PROVE  Ingested'
<1>0. slot1 \in [Doc -> DocumentStatus]
  BY DEF Ingested, IngestionType
<1>1. CASE Documents!UploadFile(d)
  BY <1>1, DocumentMoves DEF Documents!UploadFile, Documents!UploadBegins, Documents!Set,
     DocumentStatus, Documents!Active
<1>2. ASSUME NEW answer, Documents!DeleteRead(d, answer), UNCHANGED slot4 PROVE Ingested'
  BY <1>2, NothingMoves DEF Documents!DeleteRead
<1>3. ASSUME NEW answer, Documents!DeleteCommit(d, answer), UNCHANGED slot4 PROVE Ingested'
  BY <1>3, NothingMoves, DocumentMoves DEF Documents!DeleteCommit, Documents!Set,
     DocumentStatus, Documents!Active
<1>4. ASSUME NEW answer, Documents!RetryReset(d, answer), UNCHANGED <<slot4, slot2>> PROVE Ingested'
  <2>1. \/ slot1' = slot1
        \/ slot1[d] = "failed" /\ slot1' = [slot1 EXCEPT ![d] = "pending"]
    BY <1>0, <1>4 DEF Documents!RetryReset
  <2> QED
    BY <1>4, <2>1, NothingMoves, DocumentMoves DEF DocumentStatus, Documents!Active
<1>5. ASSUME NEW answer, Documents!RetryQueued(d, answer), UNCHANGED <<slot4, slot2>> PROVE Ingested'
  <2>1. \/ slot1' = slot1
        \/ slot1[d] = "pending" /\ slot1' = [slot1 EXCEPT ![d] = "failed"]
    BY <1>0, <1>5 DEF Documents!RetryQueued
  <2> QED
    BY <1>5, <2>1, NothingMoves, DocumentMoves DEF DocumentStatus, Documents!Active
<1> QED
  BY <1>1, <1>2, <1>3, <1>4, <1>5 DEF Documents!OperationHandled

LEMMA UploadKeepsIngested == Ingested /\ Documents!UploadHandled => Ingested'
<1> SUFFICES ASSUME Ingested, Documents!UploadHandled PROVE Ingested'
  OBVIOUS
<1>0. slot1 \in [Doc -> DocumentStatus] /\ UNCHANGED <<slot2, slot4>>
  BY DEF Ingested, IngestionType, Documents!UploadHandled
<1>1. \/ slot1' = slot1
      \/ /\ slot1[slot13.doc] = "uploading"
         /\ slot1' = [slot1 EXCEPT ![slot13.doc] = "pending"]
  BY DEF Documents!UploadHandled, Documents!UploadStored, Documents!Queued, Documents!Set
<1>2. CASE slot1' = slot1
  BY <1>0, <1>2, NothingMoves
<1>3. CASE slot13.doc \in Doc
  BY <1>0, <1>1, <1>3, NothingMoves, DocumentMoves DEF DocumentStatus, Documents!Active
<1>4. slot13.doc \notin Doc => slot1' = slot1
  BY <1>0, <1>1
<1> QED
  BY <1>2, <1>3, <1>4

LEMMA IngestionSteps == Ingested /\ (Documents!Next \/ UNCHANGED Documents!vars) => Ingested'
<1> SUFFICES ASSUME Ingested, (Documents!Next \/ UNCHANGED Documents!vars) PROVE Ingested'
  OBVIOUS
<1>1. CASE Documents!Service
  BY <1>1, WorkersKeepIngested DEF Documents!Service, Documents!IngestionStep
<1>2. CASE Documents!UploadHandled
  BY <1>2, UploadKeepsIngested
<1>3. ASSUME NEW d \in Doc, Documents!UploadFile(d) \/ Documents!OperationHandled(d) PROVE Ingested'
  BY <1>3, RequestsKeepIngested
\* The page by itself.
<1>4. ASSUME UNCHANGED Documents!serviceVars PROVE Ingested'
  BY <1>4, NothingMoves DEF Documents!serviceVars
<1>5. CASE Documents!BeginList \/ Documents!ListFails \/ Documents!Poll
           \/ Documents!ListHandled \/ Documents!ListAnswered \/ Documents!Uploaded
             \/ Documents!CancelDelete \/ Documents!RetryList
  BY <1>4, <1>5 DEF Documents!BeginList, Documents!ListFails, Documents!Poll,
     Documents!ListHandled, Documents!ListAnswered, Documents!Uploaded,
                    Documents!CancelDelete, Documents!RetryList
<1>6. ASSUME NEW d \in Doc,
             Documents!OperationAnswered(d) \/ Documents!RetryDocument(d) \/ Documents!AskDelete(d) \/ Documents!DeleteDocument(d)
               \/ Documents!OperationLost(d)
      PROVE  Ingested'
  BY <1>4, <1>6 DEF Documents!OperationAnswered, Documents!RetryDocument,
     Documents!AskDelete, Documents!DeleteDocument, Documents!Operate,
                    Documents!OperationLost
<1>7. CASE UNCHANGED Documents!vars
  BY <1>4, <1>7 DEF Documents!vars, Documents!serviceVars
<1> QED
  BY <1>1, <1>2, <1>3, <1>5, <1>6, <1>7 DEF Documents!Next, Documents!Answers, Documents!User

-----------------------------------------------------------------------------
(* The list of the page.                                                   *)

DocumentOperation == [kind : {"none", "delete", "retry"},
              at : {"none", "sent", "read", "reset", "ok", "error", "refresh"}]

\* What a list that still counts will show.
ListingFits(r, g) ==
  r # None =>
    /\ r = [latest |-> r.latest, awaited |-> r.awaited, answer |-> r.answer]
    /\ r.latest /\ r.answer # None => DOMAIN r.answer \cap g = {}

\* A document is only said to be gone once its row is, and then no list that
\* was read before counts any more.
DocumentsAway ==
  /\ slot11 \in [Doc -> DocumentOperation]
  /\ \A d \in slot14 : d \in Doc /\ slot1[d] = "deleted"
  /\ \A d \in Doc : slot11[d] = [kind |-> "delete", at |-> "ok"] => slot1[d] = "deleted"
  /\ ListingFits(slot10, slot14)
  /\ Documents!DeletedStaysAway

LEMMA DocumentsAwayStarts == Documents!Init => DocumentsAway
BY DEF Documents!Init, DocumentsAway, Documents!NoOp, DocumentOperation, ListingFits,
   Documents!DeletedStaysAway, Documents!Visible

\* No message, task or request brings a deleted document back.
LEMMA DeletedDocumentIsFinal ==
  ASSUME Ingested, (Documents!Next \/ UNCHANGED Documents!vars), NEW d \in Doc, slot1[d] = "deleted"
  PROVE  slot1'[d] = "deleted"
<1>0. slot1 \in [Doc -> DocumentStatus]
  BY DEF Ingested, IngestionType
<1>1. ASSUME NEW w \in Worker, NEW x \in Doc, Documents!Claim(w, x) PROVE slot1'[d] = "deleted"
  BY <1>0, <1>1 DEF Documents!Claim, Documents!Claimable, Documents!Set
<1>2. ASSUME NEW w \in Worker,
             Documents!Transition(w) \/ Documents!Complete(w) \/ Documents!Fail(w) \/ Documents!WorkerLost(w)
      PROVE  slot1'[d] = "deleted"
  <2>1. \/ slot1' = slot1
        \/ \E s \in DocumentStatus : \E x :
              slot1[x] \in Documents!Active /\ slot1' = [slot1 EXCEPT ![x] = s]
    BY <1>2 DEF Documents!Transition, Documents!Complete, Documents!Fail,
       Documents!WorkerLost, Documents!Set, DocumentStatus, Documents!Active
  <2> QED
    BY <1>0, <2>1 DEF Documents!Active
<1>3. CASE Documents!UploadHandled
  BY <1>0, <1>3 DEF Documents!UploadHandled, Documents!UploadStored, Documents!Queued, Documents!Set
<1>4. ASSUME NEW x \in Doc, Documents!UploadFile(x) PROVE slot1'[d] = "deleted"
  BY <1>0, <1>4 DEF Documents!UploadFile, Documents!UploadBegins, Documents!Set
<1>5. ASSUME NEW x \in Doc, Documents!OperationHandled(x) PROVE slot1'[d] = "deleted"
  <2>1. ASSUME NEW answer, Documents!DeleteRead(x, answer) \/ Documents!DeleteCommit(x, answer)
        PROVE  slot1'[d] = "deleted"
    BY <1>0, <2>1 DEF Documents!DeleteRead, Documents!DeleteCommit, Documents!Set
  <2>2. ASSUME NEW answer, Documents!RetryReset(x, answer) PROVE slot1'[d] = "deleted"
    BY <1>0, <2>2 DEF Documents!RetryReset
  <2>3. ASSUME NEW answer, Documents!RetryQueued(x, answer) PROVE slot1'[d] = "deleted"
    BY <1>0, <2>3 DEF Documents!RetryQueued
  <2> QED
    BY <1>5, <2>1, <2>2, <2>3 DEF Documents!OperationHandled
<1>6. ASSUME UNCHANGED slot1 PROVE slot1'[d] = "deleted"
  BY <1>6
<1>7. CASE Documents!BeginList \/ Documents!ListFails \/ Documents!Poll
           \/ Documents!ListHandled \/ Documents!ListAnswered \/ Documents!Uploaded
             \/ Documents!CancelDelete \/ Documents!RetryList
  BY <1>6, <1>7 DEF Documents!BeginList, Documents!ListFails, Documents!Poll,
     Documents!ListHandled, Documents!ListAnswered, Documents!Uploaded,
                    Documents!CancelDelete, Documents!RetryList, Documents!serviceVars
<1>8. ASSUME NEW x \in Doc,
             Documents!OperationAnswered(x) \/ Documents!RetryDocument(x) \/ Documents!AskDelete(x) \/ Documents!DeleteDocument(x)
               \/ Documents!OperationLost(x)
      PROVE  slot1'[d] = "deleted"
  BY <1>6, <1>8 DEF Documents!OperationAnswered, Documents!RetryDocument,
     Documents!AskDelete, Documents!DeleteDocument, Documents!Operate,
                    Documents!OperationLost, Documents!serviceVars
<1>9. CASE UNCHANGED Documents!vars
  BY <1>6, <1>9 DEF Documents!vars, Documents!serviceVars
<1> QED
  BY <1>1, <1>2, <1>3, <1>4, <1>5, <1>7, <1>8, <1>9
  DEF Documents!Next, Documents!Service, Documents!IngestionStep, Documents!Answers, Documents!User

\* A refresh that was asked for since, or an operation, takes the answer of the
\* list under way its effect.
LEMMA OutdatedFits ==
  ASSUME NEW r, NEW g
  PROVE  ListingFits(Documents!Outdated(r), g)
<1> DEFINE t == [latest |-> FALSE, awaited |-> r.awaited, answer |-> None]
<1>1. CASE r = None
  BY <1>1 DEF Documents!Outdated, ListingFits
<1>2. CASE r # None
  <2>1. Documents!Outdated(r) = t
    BY <1>2 DEF Documents!Outdated, Documents!Ticket
  <2>2. ListingFits(t, g)
    BY DEF ListingFits
  <2> HIDE DEF t
  <2> QED
    BY <2>1, <2>2
<1> QED
  BY <1>1, <1>2

LEMMA ResumeTyped ==
  ASSUME slot11 \in [Doc -> DocumentOperation], NEW awaited, Documents!Resume(awaited)
  PROVE  /\ slot11' \in [Doc -> DocumentOperation]
         /\ \A d \in Doc : slot11'[d] = slot11[d] \/ slot11'[d] = Documents!NoOp
BY DEF Documents!Resume, Documents!NoOp, DocumentOperation

\* The steps of the page that leave gone alone.
LEMMA DocumentsAwayStays ==
  ASSUME Ingested, DocumentsAway, (Documents!Next \/ UNCHANGED Documents!vars), UNCHANGED slot14, slot11' \in [Doc -> DocumentOperation],
         \A d \in Doc : slot11'[d] = [kind |-> "delete", at |-> "ok"] =>
                          slot11[d] = slot11'[d] \/ slot1'[d] = "deleted",
         ListingFits(slot10', slot14), Documents!Visible' \cap slot14 = {}
  PROVE  DocumentsAway'
<1>1. \A d \in Doc : slot1[d] = "deleted" => slot1'[d] = "deleted"
  BY DeletedDocumentIsFinal
<1> QED
  BY <1>1 DEF DocumentsAway, Documents!DeletedStaysAway

LEMMA ListingKeepsAway ==
  ASSUME Ingested, DocumentsAway, (Documents!Next \/ UNCHANGED Documents!vars),
         Documents!BeginList \/ Documents!ListHandled \/ Documents!ListAnswered \/ Documents!ListFails
  PROVE  DocumentsAway'
<1>0. slot11 \in [Doc -> DocumentOperation] /\ ListingFits(slot10, slot14) /\ Documents!Visible \cap slot14 = {}
  BY DEF DocumentsAway, Documents!DeletedStaysAway
<1>1. CASE Documents!BeginList
  <2> DEFINE t == [latest |-> TRUE, awaited |-> Head(slot9).awaited, answer |-> None]
  <2>1. UNCHANGED <<slot14, slot6>>
    BY <1>1 DEF Documents!BeginList
  <2>2. ListingFits(t, slot14)
    BY DEF ListingFits
  <2>3. CASE slot10' = t /\ UNCHANGED slot11
    <3> HIDE DEF t
    <3> QED
      BY <1>0, <2>1, <2>2, <2>3, DocumentsAwayStays DEF Documents!Visible
  <2>4. CASE Documents!Resume(Head(slot9).awaited) /\ UNCHANGED slot10
    BY <1>0, <2>1, <2>4, ResumeTyped, DocumentsAwayStays DEF Documents!Visible, Documents!NoOp
  <2> QED
    BY <1>1, <2>3, <2>4 DEF Documents!BeginList, Documents!Ticket
<1>2. CASE Documents!ListHandled
  <2>1. UNCHANGED <<slot14, slot6, slot11>> /\ slot10 # None
        /\ slot10' = [slot10 EXCEPT !.answer = Documents!Listing]
    BY <1>2 DEF Documents!ListHandled
  <2> DEFINE l == Documents!Listing
  <2>2. DOMAIN l \cap slot14 = {}
    BY DEF Documents!Listing, Documents!Exists, DocumentsAway
  <2> HIDE DEF l
  <2>3. slot10' = [latest |-> slot10.latest, awaited |-> slot10.awaited, answer |-> l]
    <3>1. slot10' = [slot10 EXCEPT !.answer = l]
      BY <2>1 DEF l
    <3>2. slot10 = [latest |-> slot10.latest, awaited |-> slot10.awaited,
                     answer |-> slot10.answer]
      BY <1>0, <2>1 DEF ListingFits
    <3> QED
      BY <3>1, <3>2
  <2>4. ListingFits(slot10', slot14)
    BY <2>2, <2>3 DEF ListingFits
  <2> QED
    BY <1>0, <2>1, <2>4, DocumentsAwayStays DEF Documents!Visible
<1>3. CASE Documents!ListAnswered
  <2>1. UNCHANGED slot14 /\ Documents!Resume(slot10.awaited) /\ slot10' = None /\ slot10 # None
    BY <1>3 DEF Documents!ListAnswered
  <2>2. Documents!Visible' \cap slot14 = {}
    <3>1. CASE slot10.latest
      BY <1>0, <1>3, <2>1, <3>1 DEF Documents!ListAnswered, ListingFits, Documents!Visible
    <3>2. CASE ~slot10.latest
      BY <1>0, <1>3, <3>2 DEF Documents!ListAnswered, Documents!Visible
    <3> QED
      BY <3>1, <3>2
  <2> QED
    BY <1>0, <2>1, <2>2, ResumeTyped, DocumentsAwayStays DEF ListingFits, Documents!NoOp
<1>4. CASE Documents!ListFails
  <2>1. UNCHANGED <<slot14, slot6>> /\ Documents!Resume(slot10.awaited) /\ slot10' = None
    BY <1>4 DEF Documents!ListFails
  <2> QED
    BY <1>0, <2>1, ResumeTyped, DocumentsAwayStays
      DEF ListingFits, Documents!Visible, Documents!NoOp
<1> QED
  BY <1>1, <1>2, <1>3, <1>4

LEMMA OperationsKeepAway ==
  ASSUME Ingested, DocumentsAway, (Documents!Next \/ UNCHANGED Documents!vars), NEW d \in Doc,
         \/ Documents!RetryDocument(d) \/ Documents!DeleteDocument(d) \/ Documents!OperationHandled(d)
         \/ Documents!OperationLost(d) \/ Documents!OperationAnswered(d)
  PROVE  DocumentsAway'
<1>0. /\ slot11 \in [Doc -> DocumentOperation] /\ ListingFits(slot10, slot14) /\ Documents!Visible \cap slot14 = {}
      /\ slot11[d] = [kind |-> slot11[d].kind, at |-> slot11[d].at]
  BY DEF DocumentsAway, Documents!DeletedStaysAway, DocumentOperation
<1>1. CASE Documents!RetryDocument(d) \/ Documents!DeleteDocument(d)
  <2>1. PICK kind \in {"delete", "retry"} : Documents!Operate(d, kind)
    BY <1>1 DEF Documents!RetryDocument, Documents!DeleteDocument
  <2>2. /\ UNCHANGED <<slot14, slot6>> /\ ListingFits(slot10', slot14)
        /\ slot11' = [slot11 EXCEPT ![d] = [kind |-> kind, at |-> "sent"]]
    BY <2>1, OutdatedFits DEF Documents!Operate, Documents!Invalidate
  <2>3. slot11' \in [Doc -> DocumentOperation]
    BY <1>0, <2>2 DEF DocumentOperation
  <2> QED
    BY <1>0, <2>2, <2>3, DocumentsAwayStays DEF Documents!Visible
<1>2. CASE Documents!OperationHandled(d)
  <2>1. PICK answer \in {"none", "ok", "error"} :
          \/ /\ slot11[d] = [kind |-> "delete", at |-> "sent"]
             /\ Documents!DeleteRead(d, answer) /\ Documents!Reaches(d, "read", answer)
          \/ /\ slot11[d] = [kind |-> "delete", at |-> "read"] /\ answer # "none"
             /\ Documents!DeleteCommit(d, answer) /\ Documents!Reaches(d, "read", answer)
          \/ /\ slot11[d] = [kind |-> "retry", at |-> "sent"]
             /\ Documents!Reaches(d, "reset", answer)
          \/ /\ slot11[d] = [kind |-> "retry", at |-> "reset"]
             /\ Documents!Reaches(d, "reset", answer)
    BY <1>2 DEF Documents!OperationHandled
  <2>2. UNCHANGED <<slot14, slot6, slot10>>
    BY <1>2 DEF Documents!OperationHandled, Documents!listVars
  <2>3. PICK at \in {"read", "reset", "ok", "error"} :
          /\ slot11' = [slot11 EXCEPT ![d].at = at]
          /\ at = "ok" => answer = "ok"
    BY <2>1 DEF Documents!Reaches
  <2>4. /\ slot11' \in [Doc -> DocumentOperation] /\ \A x \in Doc \ {d} : slot11'[x] = slot11[x]
        /\ slot11'[d].kind = slot11[d].kind /\ slot11'[d].at = at
    BY <1>0, <2>3 DEF DocumentOperation
  <2>5. slot11'[d] = [kind |-> "delete", at |-> "ok"] => slot1'[d] = "deleted"
    <3> SUFFICES ASSUME slot11'[d] = [kind |-> "delete", at |-> "ok"] PROVE slot1'[d] = "deleted"
      OBVIOUS
    <3>1. slot11[d].kind = "delete" /\ answer = "ok"
      BY <2>3, <2>4
    <3>2. Documents!DeleteCommit(d, answer)
      BY <2>1, <3>1 DEF Documents!DeleteRead
    <3> QED
      BY <3>1, <3>2 DEF Documents!DeleteCommit, Documents!Set, Ingested, IngestionType
  <2> QED
    BY <1>0, <2>2, <2>4, <2>5, DocumentsAwayStays DEF Documents!Visible
<1>3. CASE Documents!OperationLost(d)
  <2>1. UNCHANGED <<slot14, slot6, slot10>> /\ slot11' = [slot11 EXCEPT ![d].at = "error"]
    BY <1>3 DEF Documents!OperationLost, Documents!listVars
  <2>2. /\ slot11' \in [Doc -> DocumentOperation] /\ \A x \in Doc \ {d} : slot11'[x] = slot11[x]
        /\ slot11'[d].at = "error"
    BY <1>0, <2>1 DEF DocumentOperation
  <2> QED
    BY <1>0, <2>1, <2>2, DocumentsAwayStays DEF Documents!Visible
<1>4. CASE Documents!OperationAnswered(d)
  <2>1. UNCHANGED slot1 /\ slot11' = [slot11 EXCEPT ![d].at = "refresh"]
        /\ slot10' = Documents!Outdated(slot10)
    BY <1>4 DEF Documents!OperationAnswered, Documents!Enqueue, Documents!serviceVars
  <2>2. /\ slot11' \in [Doc -> DocumentOperation] /\ \A x \in Doc \ {d} : slot11'[x] = slot11[x]
        /\ slot11'[d].at = "refresh"
    BY <1>0, <2>1 DEF DocumentOperation
  <2>3. ListingFits(slot10', slot14')
    BY <2>1, OutdatedFits
  <2>4. CASE slot11[d] = [kind |-> "delete", at |-> "ok"]
    <3>1. slot14' = slot14 \cup {d} /\ slot1[d] = "deleted"
      BY <1>4, <2>4 DEF Documents!OperationAnswered, DocumentsAway
    <3>2. Documents!Visible' \cap slot14' = {}
      <4>1. slot6' = [x \in Documents!Visible \ {d} |-> slot6[x]]
        BY <1>4, <2>4 DEF Documents!OperationAnswered
      <4> QED
        BY <1>0, <3>1, <4>1 DEF Documents!Visible
    <3> QED
      BY <2>1, <2>2, <2>3, <3>1, <3>2 DEF DocumentsAway, Documents!DeletedStaysAway
  <2>5. CASE slot11[d] # [kind |-> "delete", at |-> "ok"]
    <3>1. UNCHANGED <<slot6, slot14>>
      BY <1>4, <2>5 DEF Documents!OperationAnswered
    <3> QED
      BY <1>0, <2>2, <2>3, <3>1, DocumentsAwayStays DEF Documents!Visible
  <2> QED
    BY <2>4, <2>5
<1> QED
  BY <1>1, <1>2, <1>3, <1>4

LEMMA DocumentsAwaySteps == Ingested /\ DocumentsAway /\ (Documents!Next \/ UNCHANGED Documents!vars) => DocumentsAway'
<1> SUFFICES ASSUME Ingested, DocumentsAway, (Documents!Next \/ UNCHANGED Documents!vars) PROVE DocumentsAway'
  OBVIOUS
<1>0. slot11 \in [Doc -> DocumentOperation] /\ ListingFits(slot10, slot14) /\ Documents!Visible \cap slot14 = {}
  BY DEF DocumentsAway, Documents!DeletedStaysAway
<1>1. ASSUME UNCHANGED <<slot14, slot6, slot11>>, slot10' = slot10 \/ slot10' = Documents!Outdated(slot10)
      PROVE  DocumentsAway'
  BY <1>0, <1>1, OutdatedFits, DocumentsAwayStays DEF Documents!Visible
<1>2. CASE \/ Documents!Poll \/ Documents!RetryList \/ Documents!Uploaded \/ Documents!CancelDelete \/ Documents!UploadHandled
           \/ UNCHANGED Documents!vars
  BY <1>1, <1>2 DEF Documents!Poll, Documents!RetryList, Documents!Uploaded,
     Documents!CancelDelete, Documents!UploadHandled, Documents!Enqueue, Documents!listVars,
     Documents!vars, Documents!pageVars
<1>3. ASSUME NEW d \in Doc, Documents!AskDelete(d) \/ Documents!UploadFile(d) PROVE DocumentsAway'
  BY <1>1, <1>3 DEF Documents!AskDelete, Documents!UploadFile, Documents!listVars
<1>4. CASE Documents!Service
  BY <1>1, <1>4 DEF Documents!Service, Documents!pageVars
<1> QED
  BY <1>2, <1>3, <1>4, ListingKeepsAway, OperationsKeepAway
    DEF Documents!Next, Documents!Answers, Documents!User

-----------------------------------------------------------------------------
AwayInv ==
  /\ screen = "approvals" => InboxInv
  /\ screen = "connections" => ConnsInv
  /\ screen = "ai" => AiListInv
  /\ screen = "webhooks" => HooksInv
  /\ screen = "knowledge" => BasesInv
  /\ screen = "documents" => Ingested /\ DocumentsAway
  /\ screen = "workflows" => FlowsInv

\* What a page was told is decided or deleted does not come back to its list,
\* whatever answers are late and in whatever order they come, for any number of
\* rows, calls and outages.
THEOREM DeletedNeverReturns == Spec => []DeletedStaysAway
<1>1. Init => AwayInv
  BY InboxStarts, ConnsStarts, AiListStarts, HooksStarts, BasesStarts, IngestionStarts,
     DocumentsAwayStarts, FlowsStarts
  DEF Init, AwayInv
<1>2. AwayInv /\ [Next]_vars => AwayInv'
  <2> SUFFICES ASSUME AwayInv, [Next]_vars PROVE AwayInv'
    OBVIOUS
  <2>1. screen' = screen
    BY DEF Next, vars
  <2>2. CASE screen = "approvals"
    <3>1. Inbox!Next \/ UNCHANGED Inbox!vars
      BY <2>2 DEF Next, Step, vars, Inbox!vars, Inbox!listVars
    <3> QED
      BY <2>1, <2>2, <3>1, InboxSteps DEF AwayInv
  <2>3. CASE screen = "connections"
    <3>1. Conns!Next \/ UNCHANGED Conns!vars
      BY <2>3 DEF Next, Step, vars, Conns!vars, Conns!listVars, Conns!saveVars, Conns!testVars
    <3> QED
      BY <2>1, <2>3, <3>1, ConnsSteps DEF AwayInv
  <2>4. CASE screen = "ai"
    <3>1. AiConns!Next \/ UNCHANGED AiConns!vars
      BY <2>4 DEF Next, Step, vars, AiConns!vars, AiConns!listVars, AiConns!dialogVars
    <3> QED
      BY <2>1, <2>4, <3>1, AiListSteps DEF AwayInv
  <2>5. CASE screen = "webhooks"
    <3>1. Hooks!Next \/ UNCHANGED Hooks!vars
      BY <2>5 DEF Next, Step, vars, Hooks!vars, Hooks!listVars, Hooks!formVars
    <3> QED
      BY <2>1, <2>5, <3>1, HooksSteps DEF AwayInv
  <2>6. CASE screen = "knowledge"
    <3>1. Bases!Next \/ UNCHANGED Bases!vars
      BY <2>6 DEF Next, Step, vars, Bases!vars, Bases!listVars, Bases!pageVars
    <3> QED
      BY <2>1, <2>6, <3>1, BasesSteps DEF AwayInv
  <2>7. CASE screen = "documents"
    <3>1. Documents!Next \/ UNCHANGED Documents!vars
      BY <2>7 DEF Next, Step, vars, Documents!vars, Documents!serviceVars, Documents!pageVars
    <3> QED
      BY <2>1, <2>7, <3>1, IngestionSteps, DocumentsAwaySteps DEF AwayInv
  <2>8. CASE screen = "workflows"
    <3>1. Flows!Next \/ UNCHANGED Flows!vars
      BY <2>8 DEF Next, Step, vars, Flows!vars, Flows!listVars
    <3> QED
      BY <2>1, <2>8, <3>1, FlowsSteps DEF AwayInv
  <2> QED
    BY <2>1, <2>2, <2>3, <2>4, <2>5, <2>6, <2>7, <2>8 DEF AwayInv
<1>3. AwayInv => DeletedStaysAway
  BY InboxTold, ConnsTold, AiListTold, HooksTold, BasesTold, FlowsTold
  DEF AwayInv, DeletedStaysAway, DocumentsAway
<1> QED
  BY <1>1, <1>2, <1>3, PTL DEF Spec

CurrentInv ==
  /\ screen = "webhooks" => HooksInv
  /\ screen = "knowledge" => BasesInv
  /\ screen = "workflows" => FlowsInv
  /\ screen = "dead_letters" => DeskListInv

\* A page whose calls were all answered shows what the service has, of several
\* answers the one to the last request, for any number of rows, calls and outages.
THEOREM ListsStayCurrent == Spec => []ListIsCurrent
<1>1. Init => CurrentInv
  BY HooksStarts, BasesStarts, FlowsStarts, DeskListStarts
  DEF Init, CurrentInv
<1>2. CurrentInv /\ [Next]_vars => CurrentInv'
  <2> SUFFICES ASSUME CurrentInv, [Next]_vars PROVE CurrentInv'
    OBVIOUS
  <2>1. screen' = screen
    BY DEF Next, vars
  <2>2. CASE screen = "webhooks"
    <3>1. Hooks!Next \/ UNCHANGED Hooks!vars
      BY <2>2 DEF Next, Step, vars, Hooks!vars, Hooks!listVars, Hooks!formVars
    <3> QED
      BY <2>1, <2>2, <3>1, HooksSteps DEF CurrentInv
  <2>3. CASE screen = "knowledge"
    <3>1. Bases!Next \/ UNCHANGED Bases!vars
      BY <2>3 DEF Next, Step, vars, Bases!vars, Bases!listVars, Bases!pageVars
    <3> QED
      BY <2>1, <2>3, <3>1, BasesSteps DEF CurrentInv
  <2>4. CASE screen = "workflows"
    <3>1. Flows!Next \/ UNCHANGED Flows!vars
      BY <2>4 DEF Next, Step, vars, Flows!vars, Flows!listVars
    <3> QED
      BY <2>1, <2>4, <3>1, FlowsSteps DEF CurrentInv
  <2>5. CASE screen = "dead_letters"
    <3>1. Desk!Next \/ UNCHANGED Desk!vars
      BY <2>5 DEF Next, Step, vars, Desk!vars, Desk!listVars, Desk!pageVars, Desk!history
    <3> QED
      BY <2>1, <2>5, <3>1, DeskMoves DEF CurrentInv
  <2> QED
    BY <2>1, <2>2, <2>3, <2>4, <2>5 DEF CurrentInv
<1>3. CurrentInv => ListIsCurrent
  BY HooksTold, BasesTold, FlowsTold, DeskTold DEF CurrentInv, ListIsCurrent
<1> QED
  BY <1>1, <1>2, <1>3, PTL DEF Spec

FormsInv ==
  /\ screen = "ai" => AiDialogInv
  /\ screen = "connections" => ConnsInv
  /\ screen = "webhooks" => HooksInv

\* An answer enters only the dialog it was asked for, a connection has the
\* credential of its method, and a webhook a version of its workflow, for any
\* number of rows, dialogs, calls and outages.
THEOREM FormsStayFit == Spec => []FormsFit
<1>1. Init => FormsInv
  BY AiDialogStarts, ConnsStarts, HooksStarts
  DEF Init, FormsInv
<1>2. FormsInv /\ [Next]_vars => FormsInv'
  <2> SUFFICES ASSUME FormsInv, [Next]_vars PROVE FormsInv'
    OBVIOUS
  <2>1. screen' = screen
    BY DEF Next, vars
  <2>2. CASE screen = "ai"
    <3>1. AiConns!Next \/ UNCHANGED AiConns!vars
      BY <2>2 DEF Next, Step, vars, AiConns!vars, AiConns!listVars, AiConns!dialogVars
    <3> QED
      BY <2>1, <2>2, <3>1, AiDialogSteps DEF FormsInv
  <2>3. CASE screen = "connections"
    <3>1. Conns!Next \/ UNCHANGED Conns!vars
      BY <2>3 DEF Next, Step, vars, Conns!vars, Conns!listVars, Conns!saveVars, Conns!testVars
    <3> QED
      BY <2>1, <2>3, <3>1, ConnsSteps DEF FormsInv
  <2>4. CASE screen = "webhooks"
    <3>1. Hooks!Next \/ UNCHANGED Hooks!vars
      BY <2>4 DEF Next, Step, vars, Hooks!vars, Hooks!listVars, Hooks!formVars
    <3> QED
      BY <2>1, <2>4, <3>1, HooksSteps DEF FormsInv
  <2> QED
    BY <2>1, <2>2, <2>3, <2>4 DEF FormsInv
<1>3. FormsInv => FormsFit
  BY ConnsTold, HooksTold DEF FormsInv, FormsFit, AiDialogInv
<1> QED
  BY <1>1, <1>2, <1>3, PTL DEF Spec

HandledInv ==
  /\ screen = "dead_letters" => DeskInv
  /\ screen = "documents" => Ingested

\* An event is handled again after a failure only when it was read again, and a
\* document has one worker at a time and its chunks exactly while it is ready, for
\* any number of events, documents, workers, messages and faults.
THEOREM HandledOnlyOnce == Spec => []HandledOnce
<1>1. Init => HandledInv
  BY DeskStarts, IngestionStarts
  DEF Init, HandledInv
<1>2. HandledInv /\ [Next]_vars => HandledInv'
  <2> SUFFICES ASSUME HandledInv, [Next]_vars PROVE HandledInv'
    OBVIOUS
  <2>1. screen' = screen
    BY DEF Next, vars
  <2>2. CASE screen = "dead_letters"
    <3>1. Desk!Next \/ UNCHANGED Desk!vars
      BY <2>2 DEF Next, Step, vars, Desk!vars, Desk!listVars, Desk!pageVars, Desk!history
    <3> QED
      BY <2>1, <2>2, <3>1, DeskSteps DEF HandledInv
  <2>3. CASE screen = "documents"
    <3>1. Documents!Next \/ UNCHANGED Documents!vars
      BY <2>3 DEF Next, Step, vars, Documents!vars, Documents!serviceVars, Documents!pageVars
    <3> QED
      BY <2>1, <2>3, <3>1, IngestionSteps DEF HandledInv
  <2> QED
    BY <2>1, <2>2, <2>3 DEF HandledInv
<1>3. HandledInv => HandledOnce
  BY DEF HandledInv, HandledOnce, DeskInv, Ingested, OneWorker, ProgressShown, ChunksOfReady,
     Documents!IngestedOnce
<1> QED
  BY <1>1, <1>2, <1>3, PTL DEF Spec
=============================================================================
