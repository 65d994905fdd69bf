-------------------------- MODULE TaskProgress_proofs --------------------------
(***************************************************************************)
(* Theorems about TaskProgress for every set of activities and callers and *)
(* for all limits.                                                         *)
(***************************************************************************)
EXTENDS TaskProgress, SequenceTheorems, TLAPS

\* Every number that was given is that of one activity, which runs or has ended; the
\* counters and the visible lists follow the whole history.
CountInv ==
    /\ sequence = Len(history["succeeded"]) + Len(history["failed"]) + Len(running)
    /\ \A o \in Outcomes : /\ count[o] = Len(history[o])
                           /\ recent[o] = Newest(history[o], MaxVisible(o))
    /\ \A i, j \in DOMAIN running : running[i].number = running[j].number => i = j
    /\ \A i \in DOMAIN running, o \in Outcomes :
          \A k \in DOMAIN history[o] : history[o][k] # running[i].number
    /\ \A k \in DOMAIN history["succeeded"], l \in DOMAIN history["failed"] :
          history["succeeded"][k] # history["failed"][l]

FinishOps == {"finish well", "finish badly"}

\* What is still to be published is later than what was, and is scheduled or known to
\* be lost; a caller waits for a task that can answer; and after finish() no task, no
\* session and no activity of a session is left.
PublishInv ==
    /\ shown <= sent /\ sent <= revision
    /\ dirty => sent < revision
    /\ ~dirty /\ status = "running" => sent = revision
    /\ publisher # "updating" => shown = sent \/ SomeoneCancelled
    /\ \A w \in Callers : /\ caller[w].at = "waiting" => publisher \notin {"none", "dead"}
                          /\ caller[w].at = "idle" => caller[w].op = "none"
                          /\ caller[w].op \in FinishOps => ~attached
    /\ status # "running" => /\ publisher = "none" /\ ~dirty
                             /\ \E w \in Callers : caller[w].op \in FinishOps
                             /\ ~direct => running = <<>> /\ phase = status

-----------------------------------------------------------------------------
(* Sequences *)

\* The newest elements of a sequence are its last.
LEMMA NewestEffect ==
    ASSUME NEW S, NEW s \in Seq(S), NEW n \in Nat \ {0}
    PROVE  /\ Newest(s, n) \in Seq(S)
           /\ Len(Newest(s, n)) = IF Len(s) > n THEN n ELSE Len(s)
           /\ \A i \in 1 .. Len(Newest(s, n)) :
                 Newest(s, n)[i] = s[Len(s) - Len(Newest(s, n)) + i]
  <1> DEFINE m == IF Len(s) > n THEN Len(s) - n + 1 ELSE 1
  <1>1. Len(s) \in Nat /\ DOMAIN s = 1 .. Len(s)
        BY LenProperties
  <1>2. /\ m \in Nat \ {0} /\ m >= 1 /\ m <= Len(s) + 1
        /\ Len(s) - m + 1 = IF Len(s) > n THEN n ELSE Len(s)
        BY <1>1
  <1>3. Newest(s, n) = SubSeq(s, m, Len(s))
        BY DEF Newest
  <1> HIDE DEF m
  <1>4. /\ SubSeq(s, m, Len(s)) \in Seq(S)
        /\ Len(SubSeq(s, m, Len(s))) = IF m <= Len(s) THEN Len(s) - m + 1 ELSE 0
        /\ \A i \in 1 .. Len(s) - m + 1 : SubSeq(s, m, Len(s))[i] = s[m + i - 1]
        BY <1>1, <1>2, SubSeqProperties
  <1>5. Len(Newest(s, n)) = Len(s) - m + 1
        BY <1>1, <1>2, <1>3, <1>4
  <1>6. ASSUME NEW i \in 1 .. Len(Newest(s, n))
        PROVE  Newest(s, n)[i] = s[Len(s) - Len(Newest(s, n)) + i]
    <2>1. Newest(s, n)[i] = s[m + i - 1]
          BY <1>3, <1>4, <1>5
    <2>2. m + i - 1 = Len(s) - Len(Newest(s, n)) + i
          BY <1>1, <1>2, <1>5
    <2> QED
          BY <2>1, <2>2
  <1>7. Newest(s, n) \in Seq(S) /\ Len(Newest(s, n)) = IF Len(s) > n THEN n ELSE Len(s)
        BY <1>2, <1>3, <1>4, <1>5
  <1> QED
        BY <1>6, <1>7

\* What is dropped before more is added would be dropped afterwards.
LEMMA NewestOfConcat ==
    ASSUME NEW S, NEW s \in Seq(S), NEW t \in Seq(S), NEW n \in Nat \ {0}
    PROVE  Newest(Newest(s, n) \o t, n) = Newest(s \o t, n)
  <1> DEFINE u == Newest(s, n)
             c == u \o t
             d == s \o t
             a == Newest(c, n)
             b == Newest(d, n)
  <1>1. /\ u \in Seq(S) /\ Len(u) = (IF Len(s) > n THEN n ELSE Len(s))
        /\ \A i \in 1 .. Len(u) : u[i] = s[Len(s) - Len(u) + i]
        BY NewestEffect
  <1>2. Len(s) \in Nat /\ Len(t) \in Nat /\ Len(u) \in Nat
        BY <1>1, LenProperties
  <1> HIDE DEF u
  <1>3. /\ c \in Seq(S) /\ Len(c) = Len(u) + Len(t)
        /\ \A i \in 1 .. Len(u) + Len(t) :
              c[i] = IF i <= Len(u) THEN u[i] ELSE t[i - Len(u)]
        BY <1>1, ConcatProperties
  <1>4. /\ d \in Seq(S) /\ Len(d) = Len(s) + Len(t)
        /\ \A i \in 1 .. Len(s) + Len(t) :
              d[i] = IF i <= Len(s) THEN s[i] ELSE t[i - Len(s)]
        BY ConcatProperties
  <1> HIDE DEF c, d
  <1>5. /\ a \in Seq(S) /\ Len(a) = (IF Len(c) > n THEN n ELSE Len(c))
        /\ \A i \in 1 .. Len(a) : a[i] = c[Len(c) - Len(a) + i]
        BY <1>3, NewestEffect
  <1>6. /\ b \in Seq(S) /\ Len(b) = (IF Len(d) > n THEN n ELSE Len(d))
        /\ \A i \in 1 .. Len(b) : b[i] = d[Len(d) - Len(b) + i]
        BY <1>4, NewestEffect
  <1> HIDE DEF a, b
  <1>7. Len(a) = Len(b) /\ Len(a) \in Nat /\ Len(a) <= n
        BY <1>1, <1>2, <1>3, <1>4, <1>5, <1>6, SMTT(30)
  <1>8. ASSUME NEW i \in 1 .. Len(a) PROVE a[i] = b[i]
    <2> DEFINE k == Len(u) + Len(t) - Len(a) + i
               l == Len(s) + Len(t) - Len(a) + i
    <2>1. a[i] = c[k]
      <3>1. a[i] = c[Len(c) - Len(a) + i]
            BY <1>5
      <3> QED
            BY <1>3, <3>1
    <2>2. b[i] = d[l]
      <3>1. i \in 1 .. Len(b)
            BY <1>7
      <3>2. b[i] = d[Len(d) - Len(b) + i]
            BY <1>6, <3>1
      <3> QED
            BY <1>4, <1>7, <3>2
    <2>3. k \in 1 .. Len(u) + Len(t)
      <3>1. Len(a) <= Len(u) + Len(t)
            BY <1>2, <1>3, <1>5
      <3> QED
            BY <1>2, <1>7, <3>1
    <2>4. l \in 1 .. Len(s) + Len(t)
      <3>1. Len(a) <= Len(s) + Len(t)
            BY <1>2, <1>4, <1>6, <1>7
      <3> QED
            BY <1>2, <1>7, <3>1
    <2>5. k - Len(u) = l - Len(s) /\ l = Len(s) - Len(u) + k
          BY <1>2, <1>7
    <2> HIDE DEF k, l
    <2>6. c[k] = IF k <= Len(u) THEN u[k] ELSE t[k - Len(u)]
          BY <1>3, <2>3
    <2>7. d[l] = IF l <= Len(s) THEN s[l] ELSE t[l - Len(s)]
          BY <1>4, <2>4
    <2>8. CASE k <= Len(u)
      <3>1. k \in 1 .. Len(u) /\ l <= Len(s)
            BY <1>2, <2>3, <2>4, <2>5, <2>8
      <3>2. u[k] = s[Len(s) - Len(u) + k]
            BY <1>1, <3>1
      <3> QED
            BY <2>1, <2>2, <2>5, <2>6, <2>7, <2>8, <3>1, <3>2
    <2>9. CASE ~(k <= Len(u))
      <3>1. ~(l <= Len(s))
            BY <1>2, <2>3, <2>4, <2>5, <2>9
      <3> QED
            BY <2>1, <2>2, <2>5, <2>6, <2>7, <2>9, <3>1
    <2> QED
          BY <2>8, <2>9
  <1>9. a = b
        BY <1>5, <1>6, <1>7, <1>8, SeqEqual
  <1> QED
        BY <1>9 DEF a, b, c, d, u

\* What a removal leaves, and where.
LEMMA RemoveEffect ==
    ASSUME NEW S, NEW s \in Seq(S), NEW i \in 1 .. Len(s)
    PROVE  /\ RemoveAt(s, i) \in Seq(S) /\ Len(RemoveAt(s, i)) = Len(s) - 1
           /\ \A j \in 1 .. Len(s) - 1 : RemoveAt(s, i)[j] = s[IF j < i THEN j ELSE j + 1]
  <1> DEFINE a == SubSeq(s, 1, i - 1)
             b == SubSeq(s, i + 1, Len(s))
  <1>1. Len(s) \in Nat /\ DOMAIN s = 1 .. Len(s)
        BY LenProperties
  <1>2. /\ a \in Seq(S) /\ Len(a) = i - 1 /\ \A j \in 1 .. i - 1 : a[j] = s[j]
        BY <1>1, SubSeqProperties
  <1>3. /\ b \in Seq(S) /\ Len(b) = Len(s) - i
        /\ \A j \in 1 .. Len(s) - i : b[j] = s[i + j]
    <2>1. i \in Nat /\ i >= 1 /\ i <= Len(s) /\ \A k \in i + 1 .. Len(s) : s[k] \in S
          BY <1>1
    <2>2. /\ b \in Seq(S) /\ Len(b) = IF i + 1 <= Len(s) THEN Len(s) - (i + 1) + 1 ELSE 0
          /\ \A j \in 1 .. Len(s) - (i + 1) + 1 : b[j] = s[(i + 1) + j - 1]
          BY <1>1, <2>1, SubSeqProperties
    <2> HIDE DEF b
    <2>3. Len(b) = Len(s) - i
      <3>1. CASE i + 1 <= Len(s)
            BY <1>1, <2>1, <2>2, <3>1
      <3>2. CASE ~(i + 1 <= Len(s))
        <4>1. Len(s) \in Nat /\ i \in Nat /\ i <= Len(s)
              BY <1>1, <2>1
        <4>2. Len(s) - i = 0
              BY <3>2, <4>1
        <4> QED
              BY <2>2, <3>2, <4>2
      <3> QED
            BY <3>1, <3>2
    <2>4. ASSUME NEW j \in 1 .. Len(s) - i PROVE b[j] = s[i + j]
      <3>1. j \in 1 .. Len(s) - (i + 1) + 1 /\ (i + 1) + j - 1 = i + j
            BY <1>1, <2>1
      <3> QED
            BY <2>2, <3>1
    <2> QED
          BY <2>2, <2>3, <2>4
  <1> HIDE DEF a, b
  <1>4. /\ a \o b \in Seq(S) /\ Len(a \o b) = Len(s) - 1
        /\ \A j \in 1 .. Len(s) - 1 : (a \o b)[j] = IF j < i THEN a[j] ELSE b[j - (i - 1)]
    <2>1. /\ a \o b \in Seq(S) /\ Len(a \o b) = Len(a) + Len(b)
          /\ \A j \in 1 .. Len(a) + Len(b) :
                (a \o b)[j] = IF j <= Len(a) THEN a[j] ELSE b[j - Len(a)]
          BY <1>2, <1>3, ConcatProperties
    <2>2. Len(a) + Len(b) = Len(s) - 1
          BY <1>1, <1>2, <1>3
    <2>3. ASSUME NEW j \in 1 .. Len(s) - 1
          PROVE  (a \o b)[j] = IF j < i THEN a[j] ELSE b[j - (i - 1)]
      <3>1. (a \o b)[j] = IF j <= i - 1 THEN a[j] ELSE b[j - (i - 1)]
            BY <1>2, <2>1, <2>2
      <3> QED
            BY <1>1, <3>1
    <2> QED
          BY <2>1, <2>2, <2>3
  <1>5. ASSUME NEW j \in 1 .. Len(s) - 1
        PROVE  (a \o b)[j] = s[IF j < i THEN j ELSE j + 1]
        BY <1>1, <1>2, <1>3, <1>4
  <1> QED
        BY <1>4, <1>5 DEF RemoveAt, a, b

-----------------------------------------------------------------------------
(* Types *)

\* The part of TypeOK that is about activities, and the rest of it.
ListType ==
    /\ sequence \in Nat
    /\ running \in Seq([id : Ids, number : 1..sequence])
    /\ recent \in [Outcomes -> Seq(1..sequence)]
    /\ history \in [Outcomes -> Seq(1..sequence)]
    /\ count \in [Outcomes -> Nat]

RestType ==
    /\ revision \in Nat /\ sent \in Nat /\ shown \in Nat
    /\ status \in {"running", "completed", "failed"}
    /\ phase \in {"starting", "working", "responding", "completed", "failed"}
    /\ direct \in BOOLEAN /\ attached \in BOOLEAN /\ dirty \in BOOLEAN
    /\ publisher \in {"none", "created", "sleeping", "updating", "pausing", "dead"}
    /\ caller \in [Callers -> [op : Ops \cup {"none"},
          at : {"idle", "waiting", "woken", "returned", "cancelled", "dropped"}]]

\* The two parts are TypeOK.
LEMMA TypeParts == TypeOK <=> ListType /\ RestType
  BY DEF TypeOK, ListType, RestType

\* A change keeps the types.
LEMMA ChangedType ==
    ASSUME RestType, Changed
    PROVE  /\ revision' \in Nat /\ dirty' \in BOOLEAN
           /\ publisher' \in {"none", "created", "sleeping", "updating", "pausing", "dead"}
  <1>1. CASE status # "running"
        BY <1>1 DEF Changed, RestType
  <1>2. CASE status = "running"
    <2>1. revision' = revision + 1 /\ dirty' = TRUE /\ publisher' = Scheduled
          BY <1>2 DEF Changed
    <2>2. Scheduled \in {"none", "created", "sleeping", "updating", "pausing", "dead"}
          BY DEF RestType, Scheduled
    <2> QED
          BY <2>1, <2>2 DEF RestType
  <1> QED
        BY <1>1, <1>2

\* A caller that is given another operation or place keeps the type.
LEMMA CallerType ==
    ASSUME RestType, NEW w \in Callers, NEW op \in Ops \cup {"none"},
           NEW at \in {"idle", "waiting", "woken", "returned", "cancelled", "dropped"},
           caller' = [caller EXCEPT ![w] = [op |-> op, at |-> at]]
    PROVE  caller' \in [Callers -> [op : Ops \cup {"none"},
              at : {"idle", "waiting", "woken", "returned", "cancelled", "dropped"}]]
  BY DEF RestType

\* A report keeps the types of what is not a list.
LEMMA ReportType == RestType /\ ReportNext => RestType'
  <1> SUFFICES ASSUME RestType, ReportNext PROVE RestType'
        OBVIOUS
  <1> USE DEF RestType
  <1>1. CASE Attach
        BY <1>1 DEF Attach, activityVars, publishVars
  <1>2. ASSUME Reported, Changed,
               status' = status,
               phase' \in {"starting", "working", "responding", "completed", "failed"}
        PROVE  RestType'
        BY <1>2, ChangedType DEF Reported
  <1>3. CASE MarkResponding
        BY <1>2, <1>3 DEF MarkResponding
  <1>4. ASSUME NEW a \in Ids, StartActivity(a) PROVE RestType'
        BY <1>2, <1>4 DEF StartActivity
  <1>5. ASSUME NEW a \in Ids, UpdateActivity(a) PROVE RestType'
        BY <1>2, <1>5 DEF UpdateActivity
  <1>6. ASSUME NEW a \in Ids, NEW ok \in BOOLEAN, FinishActivity(a, ok) PROVE RestType'
        BY <1>2, <1>6 DEF FinishActivity
  <1> QED
        BY <1>1, <1>3, <1>4, <1>5, <1>6 DEF ReportNext

\* The publish task keeps them too.
LEMMA PublishType == RestType /\ PublishNext => RestType'
  <1> SUFFICES ASSUME RestType, PublishNext PROVE RestType'
        OBVIOUS
  <1> USE DEF RestType
  <1>1. Tell("woken") => caller' \in [Callers -> [op : Ops \cup {"none"},
           at : {"idle", "waiting", "woken", "returned", "cancelled", "dropped"}]]
        BY DEF Tell
  <1>2. CASE PublisherStarts
        BY <1>1, <1>2 DEF PublisherStarts, Round, activityVars
  <1>3. CASE PublisherWakes
        BY <1>1, <1>3 DEF PublisherWakes, Round, activityVars
  <1>4. CASE UpdateEnds
        BY <1>1, <1>4 DEF UpdateEnds, activityVars
  <1> QED
        BY <1>2, <1>3, <1>4 DEF PublishNext

\* A step of flush() leaves the activities, or ends the task.
LEMMA FlushEffect ==
    ASSUME NEW w \in Callers, NEW op, FlushStep(w, op)
    PROVE  \/ UNCHANGED activityVars
           \/ \E ok \in BOOLEAN : Terminate(ok)
  <1>1. (op = "finish well") \in BOOLEAN
        OBVIOUS
  <1>2. UNCHANGED activityVars \/ Terminate(op = "finish well")
        BY DEF FlushStep
  <1> QED
        BY <1>1, <1>2, Zenon

\* A step of flush() keeps them, with what finish() does after it.
LEMMA FlushType ==
    ASSUME RestType, NEW w \in Callers, NEW op \in Ops \cup {"none"}, FlushStep(w, op),
           UNCHANGED <<direct, dirty, sent, shown>>, attached' \in BOOLEAN
    PROVE  RestType'
  <1> USE DEF RestType
  <1>1. \/ UNCHANGED activityVars
        \/ \E ok \in BOOLEAN : Terminate(ok)
        BY FlushEffect
  <1>2. /\ revision' \in Nat /\ status' \in {"running", "completed", "failed"}
        /\ phase' \in {"starting", "working", "responding", "completed", "failed"}
    <2>1. CASE UNCHANGED activityVars
          BY <2>1 DEF activityVars
    <2>2. ASSUME NEW ok \in BOOLEAN, Terminate(ok)
          PROVE  revision' = revision + 1 /\ status' = Status(ok) /\ phase' = Status(ok)
          BY <2>2 DEF Terminate
    <2>3. \A ok \in BOOLEAN : Status(ok) \in {"completed", "failed"}
          BY DEF Status
    <2> QED
          BY <1>1, <2>1, <2>2, <2>3
  <1>3. publisher' \in {"none", "created", "sleeping", "updating", "pausing", "dead"}
        BY DEF FlushStep, Scheduled
  <1>4. caller' \in [Callers -> [op : Ops \cup {"none"},
           at : {"idle", "waiting", "woken", "returned", "cancelled", "dropped"}]]
    <2>1. \E at \in {"waiting", "dropped", "returned"} :
             caller' = [caller EXCEPT ![w] = [op |-> op, at |-> at]]
          BY DEF FlushStep, Returns
    <2> QED
          BY <2>1, CallerType
  <1> QED
        BY <1>2, <1>3, <1>4

\* And so do the calls.
LEMMA CallType == RestType /\ CallNext => RestType'
  <1> SUFFICES ASSUME RestType, NEW w \in Callers,
                      \/ Start(w) \/ Flush(w) \/ Finish(w, "finish well")
                      \/ Finish(w, "finish badly")
                      \/ Resume(w) \/ CancelCaller(w) \/ CancelWoken(w)
               PROVE  RestType'
        BY DEF CallNext
  <1>1. CASE Start(w)
    <2>1. caller' \in [Callers -> [op : Ops \cup {"none"},
             at : {"idle", "waiting", "woken", "returned", "cancelled", "dropped"}]]
      <3>1. \E at \in {"waiting", "dropped"} :
               caller' = [caller EXCEPT ![w] = [op |-> "start", at |-> at]]
            BY <1>1 DEF Start
      <3> QED
            BY <3>1, CallerType DEF Ops
    <2> QED
          BY <1>1, <2>1, ChangedType DEF RestType, Start
  <1>2. CASE Flush(w)
        BY <1>2, FlushType DEF RestType, Flush, Ops
  <1>3. ASSUME NEW op \in {"finish well", "finish badly"}, Finish(w, op) PROVE RestType'
        BY <1>3, FlushType DEF RestType, Finish, Ops
  <1>4. CASE Resume(w)
        BY <1>4, FlushType DEF RestType, Resume
  <1>5. CASE CancelCaller(w)
        BY <1>5 DEF RestType, CancelCaller, activityVars
  <1>6. CASE CancelWoken(w)
        BY <1>6 DEF RestType, CancelWoken, activityVars, publishVars
  <1> QED
        BY <1>1, <1>2, <1>3, <1>4, <1>5, <1>6

-----------------------------------------------------------------------------
(* Lists and counters *)

\* What leaves the lists alone leaves what is known of them.
LEMMA ListsStay ==
    ListType /\ CountInv /\ UNCHANGED <<sequence, running, recent, count, history>>
        => ListType' /\ CountInv'
  <1> SUFFICES ASSUME ListType, CountInv,
                      UNCHANGED <<sequence, running, recent, count, history>>
               PROVE  ListType' /\ CountInv'
        OBVIOUS
  <1>1. ListType'
        BY DEF ListType
  <1>2. CountInv'
        BY Zenon DEF CountInv, Newest, MaxVisible
  <1> QED
        BY <1>1, <1>2

\* Activities that end are appended to the history of their outcome, which the counter
\* and the visible list of that outcome follow.
LEMMA EndedEffect ==
    ASSUME ListType, NEW o \in Outcomes, NEW numbers \in Seq(1..sequence), Ended(o, numbers)
    PROVE  /\ history' \in [Outcomes -> Seq(1..sequence)]
           /\ recent' \in [Outcomes -> Seq(1..sequence)]
           /\ count' \in [Outcomes -> Nat]
           /\ history'[o] = history[o] \o numbers
           /\ count'[o] = count[o] + Len(numbers)
           /\ recent'[o] = Newest(recent[o] \o numbers, MaxVisible(o))
           /\ \A q \in Outcomes \ {o} : /\ history'[q] = history[q] /\ count'[q] = count[q]
                                        /\ recent'[q] = recent[q]
  <1> DEFINE S == Seq(1..sequence)
             h == history[o] \o numbers
             c == count[o] + Len(numbers)
             r == Newest(recent[o] \o numbers, MaxVisible(o))
  <1>1. MaxVisible(o) \in Nat \ {0}
        BY ProgressAssumption DEF MaxVisible
  <1>2. h \in S /\ recent[o] \o numbers \in S
        BY ConcatProperties DEF ListType
  <1>3. r \in S
        BY <1>1, <1>2, NewestEffect
  <1>4. c \in Nat
        BY LenProperties DEF ListType
  <1>5. /\ history' = [history EXCEPT ![o] = h]
        /\ count' = [count EXCEPT ![o] = c]
        /\ recent' = [recent EXCEPT ![o] = r]
        BY DEF Ended
  <1> HIDE DEF h, c, r
  <1>6. history \in [Outcomes -> S] /\ recent \in [Outcomes -> S] /\ count \in [Outcomes -> Nat]
        BY DEF ListType
  <1> HIDE DEF S
  <1>7. /\ history' \in [Outcomes -> S] /\ recent' \in [Outcomes -> S]
        /\ count' \in [Outcomes -> Nat]
        /\ history'[o] = h /\ count'[o] = c /\ recent'[o] = r
        /\ \A q \in Outcomes \ {o} : /\ history'[q] = history[q] /\ count'[q] = count[q]
                                     /\ recent'[q] = recent[q]
        BY <1>2, <1>3, <1>4, <1>5, <1>6
  <1> QED
        BY <1>7 DEF S, h, c, r

\* The counters and visible lists still follow the history.
LEMMA EndedCounts ==
    ASSUME ListType, CountInv,
           NEW o \in Outcomes, NEW numbers \in Seq(1..sequence), Ended(o, numbers)
    PROVE  \A q \in Outcomes : /\ count'[q] = Len(history'[q])
                               /\ recent'[q] = Newest(history'[q], MaxVisible(q))
  <1>1. MaxVisible(o) \in Nat \ {0}
        BY ProgressAssumption DEF MaxVisible
  <1>2. history[o] \in Seq(1..sequence)
        BY DEF ListType
  <1>3. count[o] = Len(history[o]) /\ recent[o] = Newest(history[o], MaxVisible(o))
        BY DEF CountInv
  <1>4. /\ count'[o] = Len(history'[o])
        /\ recent'[o] = Newest(history'[o], MaxVisible(o))
    <2>1. Len(history[o] \o numbers) = Len(history[o]) + Len(numbers)
          BY <1>2, ConcatProperties
    <2>2. Newest(Newest(history[o], MaxVisible(o)) \o numbers, MaxVisible(o))
             = Newest(history[o] \o numbers, MaxVisible(o))
          BY <1>1, <1>2, NewestOfConcat
    <2> QED
          BY <1>3, <2>1, <2>2, EndedEffect
  <1>5. ASSUME NEW q \in Outcomes \ {o}
        PROVE  /\ count'[q] = Len(history'[q])
               /\ recent'[q] = Newest(history'[q], MaxVisible(q))
    <2>1. history'[q] = history[q] /\ count'[q] = count[q] /\ recent'[q] = recent[q]
          BY EndedEffect
    <2>2. count[q] = Len(history[q]) /\ recent[q] = Newest(history[q], MaxVisible(q))
          BY DEF CountInv
    <2> QED
          BY <2>1, <2>2
  <1> QED
        BY <1>4, <1>5

\* An entry of a history was there before, or has just ended.
LEMMA HistoryOrigin ==
    ASSUME ListType, NEW o \in Outcomes, NEW numbers \in Seq(1..sequence), Ended(o, numbers),
           NEW q \in Outcomes, NEW k \in DOMAIN history'[q]
    PROVE  \/ k \in DOMAIN history[q] /\ history'[q][k] = history[q][k]
           \/ q = o /\ \E j \in DOMAIN numbers : history'[q][k] = numbers[j]
  <1>1. CASE q = o
    <2> DEFINE h == history[o]
    <2>1. h \in Seq(1..sequence) /\ history'[q] = h \o numbers
          BY <1>1, EndedEffect DEF ListType
    <2> HIDE DEF h
    <2>2. /\ Len(h) \in Nat /\ DOMAIN h = 1..Len(h)
          /\ Len(numbers) \in Nat /\ DOMAIN numbers = 1..Len(numbers)
          BY <2>1, LenProperties
    <2>3. /\ h \o numbers \in Seq(1..sequence) /\ Len(h \o numbers) = Len(h) + Len(numbers)
          /\ \A i \in 1..Len(h) + Len(numbers) :
                (h \o numbers)[i] = IF i <= Len(h) THEN h[i] ELSE numbers[i - Len(h)]
          BY <2>1, ConcatProperties
    <2> DEFINE g == h \o numbers
    <2>4. DOMAIN g = 1..Len(h) + Len(numbers)
          BY <2>3, LenProperties
    <2> HIDE DEF g
    <2>5. k \in 1..Len(h) + Len(numbers)
          BY <2>1, <2>4 DEF g
    <2>6. g[k] = IF k <= Len(h) THEN h[k] ELSE numbers[k - Len(h)]
          BY <2>3, <2>5 DEF g
    <2>7. CASE k <= Len(h)
          BY <2>1, <2>2, <2>5, <2>6, <2>7, <1>1 DEF g, h
    <2>8. CASE ~(k <= Len(h))
      <3>1. k - Len(h) \in DOMAIN numbers
            BY <2>2, <2>5, <2>8
      <3>2. history'[q][k] = numbers[k - Len(h)]
            BY <2>1, <2>6, <2>8 DEF g
      <3> QED
            BY <1>1, <3>1, <3>2
    <2> QED
          BY <2>7, <2>8
  <1>2. CASE q # o
        BY <1>2, EndedEffect
  <1> QED
        BY <1>1, <1>2

\* The numbers of what runs, by age.
LEMMA NumbersEffect ==
    ASSUME ListType
    PROVE  /\ Numbers(running) \in Seq(1..sequence) /\ Len(Numbers(running)) = Len(running)
           /\ DOMAIN Numbers(running) = DOMAIN running
           /\ \A i \in DOMAIN running : Numbers(running)[i] = running[i].number
  <1> DEFINE E == [id : Ids, number : 1..sequence]
             ns == Numbers(running)
  <1>1. running \in Seq(E) /\ Len(running) \in Nat /\ DOMAIN running = 1..Len(running)
        BY LenProperties DEF ListType
  <1>2. \A i \in DOMAIN running : running[i] \in E
        BY <1>1, ElementOfSeq
  <1>3. /\ DOMAIN ns = 1..Len(running)
        /\ \A i \in 1..Len(running) : ns[i] = running[i].number /\ ns[i] \in 1..sequence
        BY <1>1, <1>2 DEF Numbers
  <1>4. ns \in [1..Len(running) -> 1..sequence]
        BY <1>1, <1>3 DEF Numbers
  <1> HIDE DEF ns
  <1>5. [1..Len(running) -> 1..sequence] \in {[1..n -> 1..sequence] : n \in Nat}
        BY <1>1
  <1>6. ns \in UNION {[1..n -> 1..sequence] : n \in Nat}
        BY <1>4, <1>5, Zenon
  <1>7. ns \in Seq(1..sequence)
        BY <1>6, SeqDef, Zenon
  <1>8. Len(ns) = Len(running)
        BY <1>1, <1>3, <1>7, LenProperties
  <1> QED
        BY <1>1, <1>3, <1>7, <1>8 DEF ns

\* When all that ends was running, and what still runs is something else, the numbers
\* of the running and of the two histories stay apart.
LEMMA EndedApart ==
    ASSUME ListType, CountInv,
           NEW o \in Outcomes, NEW numbers \in Seq(1..sequence), Ended(o, numbers),
           \A k \in DOMAIN numbers :
              \E i \in DOMAIN running : numbers[k] = running[i].number,
           \A j \in DOMAIN running' :
              \E i \in DOMAIN running : /\ running'[j].number = running[i].number
                                        /\ \A k \in DOMAIN numbers : numbers[k] # running[i].number
    PROVE  /\ \A i \in DOMAIN running', q \in Outcomes :
                 \A k \in DOMAIN history'[q] : history'[q][k] # running'[i].number
           /\ \A k \in DOMAIN history'["succeeded"], l \in DOMAIN history'["failed"] :
                 history'["succeeded"][k] # history'["failed"][l]
  <1>1. ASSUME NEW j \in DOMAIN running', NEW q \in Outcomes, NEW k \in DOMAIN history'[q]
        PROVE  history'[q][k] # running'[j].number
    <2>1. PICK i \in DOMAIN running :
             /\ running'[j].number = running[i].number
             /\ \A n \in DOMAIN numbers : numbers[n] # running[i].number
          OBVIOUS
    <2>2. CASE k \in DOMAIN history[q] /\ history'[q][k] = history[q][k]
          BY <2>1, <2>2 DEF CountInv
    <2>3. CASE \E n \in DOMAIN numbers : history'[q][k] = numbers[n]
          BY <2>1, <2>3
    <2> QED
          BY <2>2, <2>3, HistoryOrigin
  <1>2. ASSUME NEW k \in DOMAIN history'["succeeded"], NEW l \in DOMAIN history'["failed"]
        PROVE  history'["succeeded"][k] # history'["failed"][l]
    <2>1. "succeeded" \in Outcomes /\ "failed" \in Outcomes
          BY DEF Outcomes
    <2>2. \/ k \in DOMAIN history["succeeded"] /\ history'["succeeded"][k] = history["succeeded"][k]
          \/ /\ o = "succeeded"
             /\ \E n \in DOMAIN numbers : history'["succeeded"][k] = numbers[n]
          BY <2>1, HistoryOrigin
    <2>3. \/ l \in DOMAIN history["failed"] /\ history'["failed"][l] = history["failed"][l]
          \/ o = "failed" /\ \E n \in DOMAIN numbers : history'["failed"][l] = numbers[n]
          BY <2>1, HistoryOrigin
    <2>4. CASE /\ k \in DOMAIN history["succeeded"]
               /\ history'["succeeded"][k] = history["succeeded"][k]
               /\ l \in DOMAIN history["failed"] /\ history'["failed"][l] = history["failed"][l]
          BY <2>4 DEF CountInv
    <2>5. CASE /\ k \in DOMAIN history["succeeded"]
               /\ history'["succeeded"][k] = history["succeeded"][k]
               /\ \E n \in DOMAIN numbers : history'["failed"][l] = numbers[n]
          BY <2>1, <2>5 DEF CountInv
    <2>6. CASE /\ l \in DOMAIN history["failed"]
               /\ history'["failed"][l] = history["failed"][l]
               /\ \E n \in DOMAIN numbers : history'["succeeded"][k] = numbers[n]
          BY <2>1, <2>6 DEF CountInv
    <2> QED
          BY <2>2, <2>3, <2>4, <2>5, <2>6
  <1> QED
        BY <1>1, <1>2

\* finish_activity() keeps what is known of the lists.
LEMMA FinishLists ==
    ASSUME ListType, CountInv, NEW a \in Ids, NEW ok \in BOOLEAN, FinishActivity(a, ok)
    PROVE  ListType' /\ CountInv'
  <1> DEFINE o == Outcome(ok)
             E == [id : Ids, number : 1..sequence]
  <1>1. PICK i \in DOMAIN running : /\ running' = RemoveAt(running, i)
                                    /\ Ended(o, <<running[i].number>>)
        BY DEF FinishActivity
  <1>2. sequence' = sequence
        BY DEF FinishActivity
  <1>3. o \in Outcomes
        BY DEF Outcome, Outcomes
  <1>4. running \in Seq(E) /\ Len(running) \in Nat /\ DOMAIN running = 1..Len(running)
        BY LenProperties DEF ListType
  <1>5. running[i] \in E
        BY <1>4, ElementOfSeq
  <1> DEFINE ns == <<running[i].number>>
  <1>6. ns \in Seq(1..sequence) /\ Len(ns) = 1 /\ DOMAIN ns = {1} /\ ns[1] = running[i].number
        BY <1>5
  <1> HIDE DEF o, ns
  <1>7. Ended(o, ns)
        BY <1>1 DEF ns
  <1>8. /\ running' \in Seq(E) /\ Len(running') = Len(running) - 1
        /\ \A j \in 1..Len(running) - 1 : running'[j] = running[IF j < i THEN j ELSE j + 1]
        BY <1>1, <1>4, RemoveEffect, ZenonT(30)
  <1>9. DOMAIN running' = 1..Len(running) - 1
        BY <1>8, LenProperties
  <1>10. ListType'
    <2>1. /\ history' \in [Outcomes -> Seq(1..sequence)]
          /\ recent' \in [Outcomes -> Seq(1..sequence)]
          /\ count' \in [Outcomes -> Nat]
          BY <1>3, <1>6, <1>7, EndedEffect
    <2> QED
          BY <1>2, <1>8, <2>1 DEF ListType
  <1>11. \A q \in Outcomes : /\ count'[q] = Len(history'[q])
                             /\ recent'[q] = Newest(history'[q], MaxVisible(q))
         BY <1>3, <1>6, <1>7, EndedCounts
  <1>12. \A j \in DOMAIN running' :
            /\ (IF j < i THEN j ELSE j + 1) \in DOMAIN running
            /\ (IF j < i THEN j ELSE j + 1) # i
            /\ running'[j] = running[IF j < i THEN j ELSE j + 1]
         BY <1>4, <1>8, <1>9, SMTT(30)
  <1>13. \A j, k \in DOMAIN running' : running'[j].number = running'[k].number => j = k
    <2> TAKE j, k \in DOMAIN running'
    <2> HAVE running'[j].number = running'[k].number
    <2> DEFINE m == IF j < i THEN j ELSE j + 1
               n == IF k < i THEN k ELSE k + 1
    <2>1. m \in DOMAIN running
          BY <1>12
    <2>2. n \in DOMAIN running
          BY <1>12
    <2>3. running[m].number = running[n].number
          BY <1>12
    <2> HIDE DEF m, n
    <2>4. m = n
          BY <2>1, <2>2, <2>3 DEF CountInv
    <2>5. j \in Int /\ k \in Int /\ i \in Int
          BY <1>4, <1>9
    <2> QED
          BY <2>4, <2>5 DEF m, n
  <1>14. \A j \in DOMAIN running' :
            \E m \in DOMAIN running : /\ running'[j].number = running[m].number
                                      /\ \A k \in DOMAIN ns : ns[k] # running[m].number
    <2> TAKE j \in DOMAIN running'
    <2> DEFINE m == IF j < i THEN j ELSE j + 1
    <2>1. m \in DOMAIN running /\ m # i /\ running'[j] = running[m]
          BY <1>12
    <2> HIDE DEF m
    <2>2. running[m].number # running[i].number
      <3>1. i \in DOMAIN running
            BY <1>1
      <3>2. \A x, y \in DOMAIN running : running[x].number = running[y].number => x = y
            BY DEF CountInv
      <3> QED
            BY <2>1, <3>1, <3>2
    <2> QED
          BY <1>6, <2>1, <2>2
  <1>15. /\ \A j \in DOMAIN running', q \in Outcomes :
               \A k \in DOMAIN history'[q] : history'[q][k] # running'[j].number
         /\ \A k \in DOMAIN history'["succeeded"], l \in DOMAIN history'["failed"] :
               history'["succeeded"][k] # history'["failed"][l]
         BY <1>3, <1>6, <1>7, <1>14, EndedApart
  <1>16. sequence = Len(history'["succeeded"]) + Len(history'["failed"]) + Len(running')
    <2>1. \A q \in Outcomes : Len(history[q]) \in Nat
          BY LenProperties DEF ListType
    <2>2. Len(history'[o]) = Len(history[o]) + 1
      <3>1. history'[o] = history[o] \o ns
            BY <1>3, <1>6, <1>7, EndedEffect
      <3>2. history[o] \in Seq(1..sequence)
            BY <1>3 DEF ListType
      <3>3. ns \in Seq(1..sequence) /\ Len(ns) = 1
            BY <1>6
      <3>4. Len(history[o] \o ns) = Len(history[o]) + Len(ns)
            BY <3>2, <3>3, ConcatProperties
      <3> QED
            BY <3>1, <3>3, <3>4
    <2>3. \A q \in Outcomes \ {o} : history'[q] = history[q]
          BY <1>3, <1>6, <1>7, EndedEffect
    <2>4. sequence = Len(history["succeeded"]) + Len(history["failed"]) + Len(running)
          BY DEF CountInv
    <2>5. Len(running) \in Nat /\ Len(running') = Len(running) - 1
          BY <1>4, <1>8
    <2> DEFINE x == Len(history["succeeded"])
               y == Len(history["failed"])
               z == Len(running)
               x2 == Len(history'["succeeded"])
               y2 == Len(history'["failed"])
               z2 == Len(running')
    <2>6. \/ x2 = x + 1 /\ y2 = y
          \/ x2 = x /\ y2 = y + 1
      <3>1. CASE o = "succeeded"
            BY <2>2, <2>3, <3>1 DEF Outcomes
      <3>2. CASE o = "failed"
            BY <2>2, <2>3, <3>2 DEF Outcomes
      <3> QED
            BY <1>3, <3>1, <3>2 DEF Outcomes
    <2>7. x \in Nat /\ y \in Nat /\ z \in Nat /\ sequence = x + y + z /\ z2 = z - 1
          BY <2>1, <2>4, <2>5 DEF Outcomes
    <2> HIDE DEF x, y, z, x2, y2, z2
    <2>8. sequence = x2 + y2 + z2
      <3>1. CASE x2 = x + 1 /\ y2 = y
            BY <2>7, <3>1
      <3>2. CASE x2 = x /\ y2 = y + 1
            BY <2>7, <3>2
      <3> QED
            BY <2>6, <3>1, <3>2
    <2> QED
          BY <2>8 DEF x2, y2, z2
  <1> QED
        BY <1>2, <1>10, <1>11, <1>13, <1>15, <1>16 DEF CountInv

\* And so does the end of the task.
LEMMA TerminateLists ==
    ASSUME ListType, CountInv, NEW ok \in BOOLEAN, Terminate(ok)
    PROVE  ListType' /\ CountInv'
  <1> DEFINE o == Outcome(ok)
             E == [id : Ids, number : 1..sequence]
             ns == Numbers(running)
  <1>1. running' = <<>> /\ sequence' = sequence /\ Ended(o, ns)
        BY DEF Terminate
  <1>2. o \in Outcomes
        BY DEF Outcome, Outcomes
  <1>3. running \in Seq(E) /\ Len(running) \in Nat
        BY LenProperties DEF ListType
  <1>4. /\ ns \in Seq(1..sequence) /\ Len(ns) = Len(running) /\ DOMAIN ns = DOMAIN running
        /\ \A i \in DOMAIN running : ns[i] = running[i].number
        BY NumbersEffect
  <1> HIDE DEF o, ns
  <1>5. DOMAIN running' = {} /\ Len(running') = 0 /\ running' \in Seq(E)
        BY <1>1
  <1>6. ListType'
    <2>1. /\ history' \in [Outcomes -> Seq(1..sequence)]
          /\ recent' \in [Outcomes -> Seq(1..sequence)]
          /\ count' \in [Outcomes -> Nat]
          BY <1>1, <1>2, <1>4, EndedEffect
    <2> QED
          BY <1>1, <1>5, <2>1 DEF ListType
  <1>7. \A q \in Outcomes : /\ count'[q] = Len(history'[q])
                            /\ recent'[q] = Newest(history'[q], MaxVisible(q))
        BY <1>1, <1>2, <1>4, EndedCounts
  <1>8. /\ \A j \in DOMAIN running', q \in Outcomes :
              \A k \in DOMAIN history'[q] : history'[q][k] # running'[j].number
        /\ \A k \in DOMAIN history'["succeeded"], l \in DOMAIN history'["failed"] :
              history'["succeeded"][k] # history'["failed"][l]
    <2>1. \A k \in DOMAIN ns : \E i \in DOMAIN running : ns[k] = running[i].number
          BY <1>4
    <2> QED
          BY <1>1, <1>2, <1>4, <1>5, <2>1, EndedApart
  <1>9. sequence = Len(history'["succeeded"]) + Len(history'["failed"]) + Len(running')
    <2>1. Len(history["succeeded"]) \in Nat /\ Len(history["failed"]) \in Nat
          BY LenProperties DEF ListType, Outcomes
    <2>2. Len(history'[o]) = Len(history[o]) + Len(running)
      <3>1. history'[o] = history[o] \o ns
            BY <1>1, <1>2, <1>4, EndedEffect
      <3>2. history[o] \in Seq(1..sequence)
            BY <1>2 DEF ListType
      <3>3. Len(history[o] \o ns) = Len(history[o]) + Len(ns)
            BY <1>4, <3>2, ConcatProperties
      <3> QED
            BY <1>4, <3>1, <3>3
    <2>3. \A q \in Outcomes \ {o} : history'[q] = history[q]
          BY <1>1, <1>2, <1>4, EndedEffect
    <2>4. sequence = Len(history["succeeded"]) + Len(history["failed"]) + Len(running)
          BY DEF CountInv
    <2>5. Len(running) \in Nat /\ Len(running') = 0
          BY <1>3, <1>5
    <2> DEFINE x == Len(history["succeeded"])
               y == Len(history["failed"])
               z == Len(running)
               x2 == Len(history'["succeeded"])
               y2 == Len(history'["failed"])
               z2 == Len(running')
    <2>6. \/ x2 = x + z /\ y2 = y
          \/ x2 = x /\ y2 = y + z
      <3>1. CASE o = "succeeded"
            BY <2>2, <2>3, <3>1 DEF Outcomes
      <3>2. CASE o = "failed"
            BY <2>2, <2>3, <3>2 DEF Outcomes
      <3> QED
            BY <1>2, <3>1, <3>2 DEF Outcomes
    <2>7. x \in Nat /\ y \in Nat /\ z \in Nat /\ sequence = x + y + z /\ z2 = 0
          BY <2>1, <2>4, <2>5 DEF Outcomes
    <2> HIDE DEF x, y, z, x2, y2, z2
    <2>8. sequence = x2 + y2 + z2
          BY <2>6, <2>7
    <2> QED
          BY <2>8 DEF x2, y2, z2
  <1>10. \A i, j \in DOMAIN running' : running'[i].number = running'[j].number => i = j
         BY <1>5
  <1> QED
        BY <1>1, <1>6, <1>7, <1>8, <1>9, <1>10 DEF CountInv

\* An activity that starts gets a number that nothing has.
LEMMA StartLists ==
    ASSUME ListType, CountInv, NEW a \in Ids, StartActivity(a)
    PROVE  ListType' /\ CountInv'
  <1>1. history' = history /\ recent' = recent /\ count' = count
        BY DEF StartActivity
  <1>2. CASE UNCHANGED <<running, sequence>>
        BY <1>1, <1>2, ListsStay
  <1>3. CASE /\ sequence' = sequence + 1
             /\ running' = Append(running, [id |-> a, number |-> sequence + 1])
    <2> DEFINE E == [id : Ids, number : 1..sequence]
               F == [id : Ids, number : 1..sequence + 1]
               e == [id |-> a, number |-> sequence + 1]
    <2>1. sequence \in Nat /\ 1..sequence \subseteq 1..sequence + 1 /\ E \subseteq F /\ e \in F
          BY DEF ListType
    <2>2. Seq(1..sequence) \subseteq Seq(1..sequence + 1) /\ Seq(E) \subseteq Seq(F)
          BY <2>1, SeqMonotonic
    <2>3. running \in Seq(F) /\ Len(running) \in Nat /\ DOMAIN running = 1..Len(running)
          BY <2>2, LenProperties DEF ListType
    <2>4. \A i \in DOMAIN running : running[i].number \in 1..sequence
      <3>1. running \in Seq(E)
            BY DEF ListType
      <3>2. \A i \in DOMAIN running : running[i] \in E
            BY <2>3, <3>1, ElementOfSeq
      <3> QED
            BY <3>2
    <2>5. e.number = sequence + 1
          OBVIOUS
    <2> HIDE DEF e, E, F
    <2>6. /\ running' \in Seq(F) /\ Len(running') = Len(running) + 1
          /\ DOMAIN running' = 1..Len(running) + 1
          /\ \A i \in 1..Len(running) : running'[i] = running[i]
          /\ running'[Len(running) + 1] = e
          BY <1>3, <2>1, <2>3, AppendProperties DEF e
    <2>7. ListType'
      <3>1. /\ history' \in [Outcomes -> Seq(1..sequence + 1)]
            /\ recent' \in [Outcomes -> Seq(1..sequence + 1)]
            /\ count' \in [Outcomes -> Nat]
            BY <1>1, <2>2 DEF ListType
      <3>2. sequence' \in Nat /\ running' \in Seq([id : Ids, number : 1..sequence'])
            BY <1>3, <2>1, <2>6 DEF F
      <3> QED
            BY <1>3, <3>1, <3>2 DEF ListType
    <2>8. \A q \in Outcomes : /\ count'[q] = Len(history'[q])
                              /\ recent'[q] = Newest(history'[q], MaxVisible(q))
          BY <1>1 DEF CountInv
    <2>9. \A i \in DOMAIN running' :
             \/ i \in DOMAIN running /\ running'[i].number = running[i].number
             \/ i = Len(running) + 1 /\ running'[i].number = sequence + 1
          BY <2>3, <2>5, <2>6
    <2>10. \A i, j \in DOMAIN running' : running'[i].number = running'[j].number => i = j
      <3>1. \A i, j \in DOMAIN running : running[i].number = running[j].number => i = j
            BY DEF CountInv
      <3>2. \A i \in DOMAIN running : running[i].number # sequence + 1
            BY <2>1, <2>4
      <3> QED
            BY <2>9, <3>1, <3>2
    <2>11. \A j \in DOMAIN running', q \in Outcomes :
              \A k \in DOMAIN history'[q] : history'[q][k] # running'[j].number
      <3> TAKE j \in DOMAIN running', q \in Outcomes
      <3> TAKE k \in DOMAIN history'[q]
      <3>1. history[q] \in Seq(1..sequence) /\ k \in DOMAIN history[q]
            BY <1>1 DEF ListType
      <3>2. history[q][k] \in 1..sequence
            BY <3>1, ElementOfSeq, LenProperties
      <3>3. history[q][k] # sequence + 1
            BY <2>1, <3>2
      <3>4. \A i \in DOMAIN running : history[q][k] # running[i].number
            BY <3>1 DEF CountInv
      <3> QED
            BY <1>1, <2>9, <3>3, <3>4
    <2>12. sequence' = Len(history'["succeeded"]) + Len(history'["failed"]) + Len(running')
      <3>1. Len(history["succeeded"]) \in Nat /\ Len(history["failed"]) \in Nat
            BY LenProperties DEF ListType, Outcomes
      <3>2. sequence = Len(history["succeeded"]) + Len(history["failed"]) + Len(running)
            BY DEF CountInv
      <3>3. Len(running') = Len(running) + 1 /\ sequence' = sequence + 1
            BY <1>3, <2>6
      <3>4. /\ Len(history'["succeeded"]) = Len(history["succeeded"])
            /\ Len(history'["failed"]) = Len(history["failed"])
            BY <1>1
      <3>5. Len(running) \in Nat
            BY <2>3
      <3> DEFINE x == Len(history["succeeded"])
                 y == Len(history["failed"])
                 z == Len(running)
                 x2 == Len(history'["succeeded"])
                 y2 == Len(history'["failed"])
                 z2 == Len(running')
      <3>6. x \in Nat /\ y \in Nat /\ z \in Nat /\ x2 = x /\ y2 = y /\ z2 = z + 1
            BY <3>1, <3>2, <3>3, <3>4, <3>5
      <3>7. sequence = x + y + z /\ sequence' = sequence + 1
            BY <3>2, <3>3
      <3> HIDE DEF x, y, z, x2, y2, z2
      <3>8. sequence' = x2 + y2 + z2
            BY <3>6, <3>7
      <3> QED
            BY <3>8 DEF x2, y2, z2
    <2>13. \A k \in DOMAIN history'["succeeded"], l \in DOMAIN history'["failed"] :
              history'["succeeded"][k] # history'["failed"][l]
          BY <1>1 DEF CountInv
    <2> QED
          BY <2>7, <2>8, <2>10, <2>11, <2>12, <2>13 DEF CountInv
  <1> QED
        BY <1>2, <1>3 DEF StartActivity

\* Every step keeps what is known of the lists.
LEMMA ListStep == ListType /\ CountInv /\ [Next]_vars => ListType' /\ CountInv'
  <1> SUFFICES ASSUME ListType, CountInv, [Next]_vars
               PROVE  ListType' /\ CountInv'
        OBVIOUS
  <1>1. CASE UNCHANGED vars
        BY <1>1, ListsStay DEF vars, activityVars
  <1>2. CASE Attach \/ MarkResponding
        BY <1>2, ListsStay DEF Attach, MarkResponding, activityVars
  <1>3. ASSUME NEW a \in Ids, UpdateActivity(a) PROVE ListType' /\ CountInv'
        BY <1>3, ListsStay DEF UpdateActivity
  <1>4. CASE ReportNext
        BY <1>2, <1>3, <1>4, StartLists, FinishLists DEF ReportNext
  <1>5. CASE PublishNext
        BY <1>5, ListsStay
           DEF PublishNext, PublisherStarts, PublisherWakes, UpdateEnds, activityVars
  <1>6. ASSUME NEW w \in Callers, NEW op, FlushStep(w, op) PROVE ListType' /\ CountInv'
    <2>1. CASE UNCHANGED activityVars
          BY <2>1, ListsStay DEF activityVars
    <2> QED
          BY <1>6, <2>1, FlushEffect, TerminateLists
  <1>7. CASE CallNext
    <2> SUFFICES ASSUME NEW w \in Callers,
                        \/ Start(w) \/ CancelCaller(w) \/ CancelWoken(w)
                        \/ \E op : FlushStep(w, op)
                 PROVE  ListType' /\ CountInv'
          BY <1>7 DEF CallNext, Flush, Finish, Resume
    <2>1. CASE Start(w)
          BY <2>1, ListsStay DEF Start
    <2>2. CASE CancelCaller(w) \/ CancelWoken(w)
          BY <2>2, ListsStay DEF CancelCaller, CancelWoken, activityVars
    <2> QED
          BY <1>6, <2>1, <2>2
  <1> QED
        BY <1>1, <1>4, <1>5, <1>7 DEF Next

\* Every step keeps the rest of the types.
LEMMA RestStep == RestType /\ [Next]_vars => RestType'
  <1>1. RestType /\ UNCHANGED vars => RestType'
        BY DEF RestType, vars, activityVars, publishVars
  <1> QED
        BY <1>1, ReportType, PublishType, CallType DEF Next

\* At the start nothing has been given a number.
LEMMA InitLists == Init => ListType /\ RestType /\ CountInv
  <1> SUFFICES ASSUME Init PROVE ListType /\ RestType /\ CountInv
        OBVIOUS
  <1>1. \A q \in Outcomes : MaxVisible(q) \in Nat \ {0}
        BY ProgressAssumption DEF MaxVisible
  <1>2. ListType
    <2>1. /\ [o \in Outcomes |-> <<>>] \in [Outcomes -> Seq(1..sequence)]
          /\ [o \in Outcomes |-> 0] \in [Outcomes -> Nat]
          /\ <<>> \in Seq([id : Ids, number : 1..sequence])
          OBVIOUS
    <2> QED
          BY <2>1 DEF Init, ListType
  <1>7. RestType
        BY DEF Init, RestType
  <1>3. \A n \in Nat \ {0} : Newest(<<>>, n) = <<>>
    <2> TAKE n \in Nat \ {0}
    <2>1. <<>> \in Seq({}) /\ Len(<<>>) = 0 /\ ~(Len(<<>>) > n)
          OBVIOUS
    <2>2. Newest(<<>>, n) \in Seq({}) /\ Len(Newest(<<>>, n)) = 0
          BY <2>1, NewestEffect
    <2> QED
          BY <2>2, EmptySeq
  <1>4. /\ history = [o \in Outcomes |-> <<>>] /\ recent = [o \in Outcomes |-> <<>>]
        /\ count = [o \in Outcomes |-> 0] /\ running = <<>> /\ sequence = 0
        BY DEF Init
  <1>5. "succeeded" \in Outcomes /\ "failed" \in Outcomes
        BY DEF Outcomes
  <1>6. CountInv
    <2>1. sequence = Len(history["succeeded"]) + Len(history["failed"]) + Len(running)
          BY <1>4, <1>5
    <2>2. \A q \in Outcomes : /\ count[q] = Len(history[q])
                              /\ recent[q] = Newest(history[q], MaxVisible(q))
          BY <1>1, <1>3, <1>4
    <2> QED
          BY <1>4, <1>5, <2>1, <2>2 DEF CountInv
  <1> QED
        BY <1>2, <1>6, <1>7

-----------------------------------------------------------------------------
(* Every activity is running or counted *)

\* The inductive invariant: types, and the lists and counters.
THEOREM ListsInductive == Spec => [](TypeOK /\ CountInv)
  <1> DEFINE I == ListType /\ RestType /\ CountInv
  <1>1. Init => I
        BY InitLists
  <1>2. I /\ [Next]_vars => I'
        BY ListStep, RestStep
  <1>3. I => TypeOK /\ CountInv
        BY TypeParts
  <1> QED
        BY <1>1, <1>2, <1>3, PTL DEF Spec

\* What a snapshot shows of a list, and what it says it leaves out, is all of it.
LEMMA ShownAndOmitted ==
    ASSUME NEW S, NEW s \in Seq(S), NEW n \in Nat \ {0}
    PROVE  Len(Newest(s, n)) + AtLeast0(Len(s) - n) = Len(s)
  <1> DEFINE l == Len(s)
             k == Len(Newest(s, n))
  <1>1. l \in Nat /\ k = IF l > n THEN n ELSE l
        BY NewestEffect, LenProperties
  <1> HIDE DEF l, k
  <1>2. k + AtLeast0(l - n) = l
        BY <1>1 DEF AtLeast0
  <1> QED
        BY <1>2 DEF l, k

\* The lists, the counters and what a snapshot says of them agree with what was
\* reported, for all ids, limits and callers (task_progress.py:288-358, 380-451).
THEOREM ProgressInvariant == Spec => []ProgressInv
  <1>1. TypeOK /\ CountInv => ProgressInv
    <2> SUFFICES ASSUME TypeOK, CountInv PROVE NothingIsLost
          BY DEF ProgressInv
    <2>1. ListType
          BY TypeParts
    <2>2. ToSet(history["succeeded"]) \cap ToSet(history["failed"]) = {}
          BY DEF CountInv, ToSet
    <2>3. "succeeded" \in Outcomes /\ "failed" \in Outcomes
          BY DEF Outcomes
    <2>4. Snapshot["succeeded"] = recent["succeeded"] /\ Snapshot["failed"] = recent["failed"]
          BY DEF Snapshot
    <2>5. \A o \in Outcomes : /\ count[o] = Len(history[o])
                              /\ Snapshot[o] = Newest(history[o], MaxVisible(o))
      <3>1. \A o \in Outcomes : o = "succeeded" \/ o = "failed"
            BY DEF Outcomes
      <3>2. \A o \in Outcomes : Snapshot[o] = recent[o]
            BY <2>4, <3>1
      <3> QED
            BY <3>2 DEF CountInv
    <2>6. \A o \in Outcomes : Len(recent[o]) + AtLeast0(count[o] - Len(recent[o])) = Len(history[o])
      <3> TAKE o \in Outcomes
      <3>1. history[o] \in Seq(1..sequence) /\ MaxVisible(o) \in Nat \ {0}
            BY <2>1, ProgressAssumption DEF ListType, MaxVisible
      <3>2. recent[o] = Newest(history[o], MaxVisible(o)) /\ count[o] = Len(history[o])
            BY DEF CountInv
      <3>3. /\ Len(recent[o]) = IF Len(history[o]) > MaxVisible(o) THEN MaxVisible(o)
                                                                   ELSE Len(history[o])
            /\ Len(history[o]) \in Nat
            BY <3>1, <3>2, NewestEffect, LenProperties
      <3> DEFINE r == Len(recent[o])
                 h == Len(history[o])
                 m == MaxVisible(o)
      <3>4. r = (IF h > m THEN m ELSE h) /\ h \in Nat /\ m \in Nat \ {0}
            BY <3>1, <3>3
      <3> HIDE DEF r, h, m
      <3>5. r + AtLeast0(h - r) = h
            BY <3>4 DEF AtLeast0
      <3> QED
            BY <3>2, <3>5 DEF r, h
    <2>7. Len(Newest(Numbers(running), MaxRunning)) + AtLeast0(Len(running) - MaxRunning)
             = Len(running)
      <3>1. Numbers(running) \in Seq(1..sequence) /\ Len(Numbers(running)) = Len(running)
            BY <2>1, NumbersEffect
      <3>2. MaxRunning \in Nat \ {0}
            BY ProgressAssumption
      <3>3. Len(Newest(Numbers(running), MaxRunning))
               + AtLeast0(Len(Numbers(running)) - MaxRunning) = Len(Numbers(running))
            BY <3>1, <3>2, ShownAndOmitted
      <3> QED
            BY <3>1, <3>3
    <2>8. sequence = Len(Snapshot.succeeded) + Len(Snapshot.failed) + Len(Snapshot.running)
             + Snapshot.omittedSucceeded + Snapshot.omittedFailed + Snapshot.omittedRunning
      <3> DEFINE s == Len(recent["succeeded"])
                 f == Len(recent["failed"])
                 r == Len(Newest(Numbers(running), MaxRunning))
                 os == AtLeast0(count["succeeded"] - Len(recent["succeeded"]))
                 of == AtLeast0(count["failed"] - Len(recent["failed"]))
                 or == AtLeast0(Len(running) - MaxRunning)
                 hs == Len(history["succeeded"])
                 hf == Len(history["failed"])
                 lr == Len(running)
      <3>1. /\ Len(Snapshot.succeeded) = s /\ Len(Snapshot.failed) = f
            /\ Len(Snapshot.running) = r /\ Snapshot.omittedSucceeded = os
            /\ Snapshot.omittedFailed = of /\ Snapshot.omittedRunning = or
            BY DEF Snapshot
      <3>2. s + os = hs /\ f + of = hf /\ r + or = lr
            BY <2>3, <2>6, <2>7
      <3>3. sequence = hs + hf + lr
            BY DEF CountInv
      <3>4. s \in Int /\ f \in Int /\ r \in Int /\ os \in Int /\ of \in Int /\ or \in Int
        <4>1. recent["succeeded"] \in Seq(1..sequence) /\ recent["failed"] \in Seq(1..sequence)
              BY <2>1, <2>3 DEF ListType
        <4>2. running \in Seq([id : Ids, number : 1..sequence])
              BY <2>1 DEF ListType
        <4>3. /\ Numbers(running) \in Seq(1..sequence) /\ MaxRunning \in Nat \ {0}
              BY <2>1, NumbersEffect, ProgressAssumption
        <4>4. Newest(Numbers(running), MaxRunning) \in Seq(1..sequence)
              BY <4>3, NewestEffect
        <4>5. /\ count["succeeded"] \in Nat /\ count["failed"] \in Nat
              BY <2>1, <2>3 DEF ListType
        <4>6. s \in Nat /\ f \in Nat /\ r \in Nat /\ lr \in Nat
              BY <4>1, <4>2, <4>4, LenProperties
        <4>7. \A m, n \in Nat : AtLeast0(m - n) \in Int
              BY DEF AtLeast0
        <4>8. os \in Int /\ of \in Int /\ or \in Int
              BY <4>3, <4>5, <4>6, <4>7
        <4> QED
              BY <4>6, <4>8
      <3> HIDE DEF s, f, r, os, of, or, hs, hf, lr
      <3>5. sequence = s + f + r + os + of + or
            BY <3>2, <3>3, <3>4
      <3> QED
            BY <3>1, <3>5
    <2> QED
          BY <2>2, <2>5, <2>8 DEF NothingIsLost
  <1> QED
        BY <1>1, ListsInductive, PTL

-----------------------------------------------------------------------------
(* Snapshots keep their order *)

\* What each step must satisfy.
OrderStep == RevisionsIncrease /\ FlushedIsShown /\ TerminalIsLast /\ TerminalIsFrozen

\* What leaves everything that PublishInv names as it is satisfies both.
LEMMA PublishStays ==
    ASSUME PublishInv, UNCHANGED <<revision, status, phase, running, count, direct, attached,
                                   dirty, publisher, sent, shown, caller>>
    PROVE  PublishInv' /\ OrderStep
  <1>1. SomeoneCancelled' = SomeoneCancelled
        BY DEF SomeoneCancelled
  <1>2. PublishInv'
        BY <1>1 DEF PublishInv
  <1>3. OrderStep
        BY DEF PublishInv, OrderStep, RevisionsIncrease, FlushedIsShown, TerminalIsLast,
               TerminalIsFrozen
  <1> QED
        BY <1>2, <1>3

\* After finish() only a program that reports itself can report.
LEMMA ReportedOrder ==
    ASSUME RestType, PublishInv, Reported, Changed, status' = status
    PROVE  PublishInv' /\ OrderStep
  <1>1. UNCHANGED <<direct, attached, sent, shown, caller>> /\ (direct \/ attached)
        BY DEF Reported
  <1>2. SomeoneCancelled' = SomeoneCancelled
        BY <1>1 DEF SomeoneCancelled
  <1>3. CASE status # "running"
    <2>1. UNCHANGED <<revision, dirty, publisher>>
          BY <1>3 DEF Changed
    <2>2. direct
          BY <1>1, <1>3 DEF PublishInv
    <2>3. PublishInv'
          BY <1>1, <1>2, <1>3, <2>1, <2>2 DEF PublishInv
    <2>4. OrderStep
          BY <1>1, <1>3, <2>1, <2>2
             DEF OrderStep, RevisionsIncrease, FlushedIsShown, TerminalIsLast, TerminalIsFrozen
    <2> QED
          BY <2>3, <2>4
  <1>4. CASE status = "running"
    <2>1. /\ revision' = revision + 1 /\ dirty' = TRUE
          /\ publisher' = IF publisher = "none" THEN "created" ELSE publisher
          BY <1>4 DEF Changed, Scheduled
    <2>2. PublishInv'
          BY <1>1, <1>2, <1>4, <2>1 DEF PublishInv, RestType
    <2>3. OrderStep
          BY <1>1, <1>4, <2>1
             DEF OrderStep, RevisionsIncrease, FlushedIsShown, TerminalIsLast, TerminalIsFrozen
    <2> QED
          BY <2>2, <2>3
  <1> QED
        BY <1>3, <1>4

\* Reports keep the order.
LEMMA ReportOrder ==
    ASSUME RestType, PublishInv, ReportNext
    PROVE  PublishInv' /\ OrderStep
  <1>1. CASE Attach
    <2>1. status = "running" /\ \A w \in Callers : caller[w].op \notin FinishOps
          BY <1>1 DEF Attach, PublishInv, FinishOps
    <2>2. SomeoneCancelled' = SomeoneCancelled
          BY <1>1 DEF Attach, SomeoneCancelled
    <2>3. PublishInv'
          BY <1>1, <2>1, <2>2 DEF Attach, PublishInv, activityVars, publishVars
    <2>4. OrderStep
          BY <1>1, <2>1 DEF Attach, activityVars, publishVars, OrderStep, RevisionsIncrease,
                            FlushedIsShown, TerminalIsLast, TerminalIsFrozen
    <2> QED
          BY <2>3, <2>4
  <1>2. CASE MarkResponding
        BY <1>2, ReportedOrder DEF MarkResponding
  <1>3. ASSUME NEW a \in Ids, StartActivity(a) PROVE PublishInv' /\ OrderStep
        BY <1>3, ReportedOrder DEF StartActivity
  <1>4. ASSUME NEW a \in Ids, UpdateActivity(a) PROVE PublishInv' /\ OrderStep
        BY <1>4, ReportedOrder DEF UpdateActivity
  <1>5. ASSUME NEW a \in Ids, NEW ok \in BOOLEAN, FinishActivity(a, ok)
        PROVE  PublishInv' /\ OrderStep
        BY <1>5, ReportedOrder DEF FinishActivity
  <1> QED
        BY <1>1, <1>2, <1>3, <1>4, <1>5 DEF ReportNext

\* Who waits is told, and nothing else changes for a caller.
LEMMA TellEffect ==
    ASSUME RestType, Tell("woken")
    PROVE  /\ \A w \in Callers : /\ caller'[w].op = caller[w].op
                                 /\ caller'[w].at # "waiting"
                                 /\ caller[w].at = "waiting" => caller'[w].at = "woken"
                                 /\ caller[w].at # "waiting" => caller'[w].at = caller[w].at
           /\ SomeoneCancelled' = SomeoneCancelled
  <1>1. \A w \in Callers :
           caller'[w] = IF caller[w].at = "waiting" THEN [caller[w] EXCEPT !.at = "woken"]
                                                    ELSE caller[w]
        BY DEF Tell
  <1>2. \A w \in Callers : /\ caller'[w].op = caller[w].op
                           /\ caller'[w].at # "waiting"
                           /\ caller[w].at = "waiting" => caller'[w].at = "woken"
                           /\ caller[w].at # "waiting" => caller'[w].at = caller[w].at
        BY <1>1 DEF RestType
  <1>3. SomeoneCancelled' = SomeoneCancelled
    <2>1. \A w \in Callers : caller'[w].at = "cancelled" <=> caller[w].at = "cancelled"
          BY <1>2
    <2> QED
          BY <2>1 DEF SomeoneCancelled
  <1> QED
        BY <1>2, <1>3

\* The publish task keeps the order.
LEMMA PublisherOrder ==
    ASSUME RestType, PublishInv, PublishNext
    PROVE  PublishInv' /\ OrderStep
  <1> USE DEF OrderStep, RevisionsIncrease, FlushedIsShown, TerminalIsLast, TerminalIsFrozen
  <1>1. /\ publisher # "none" /\ status = "running"
        /\ UNCHANGED <<revision, status, phase, running, count, direct, attached>>
        BY DEF PublishNext, PublisherStarts, PublisherWakes, UpdateEnds, PublishInv, activityVars
  <1>2. CASE /\ dirty /\ publisher # "updating" /\ dirty' = FALSE /\ sent' = revision
             /\ publisher' = "updating" /\ UNCHANGED <<shown, caller>>
        BY <1>1, <1>2 DEF PublishInv, RestType
  <1>3. CASE /\ ~dirty /\ publisher # "updating" /\ publisher' = "none" /\ Tell("woken")
             /\ UNCHANGED <<dirty, sent, shown>>
        BY <1>1, <1>3, TellEffect DEF PublishInv
  <1>4. CASE /\ publisher # "updating" /\ publisher' = "sleeping"
             /\ UNCHANGED <<dirty, sent, shown, caller>>
        BY <1>1, <1>4 DEF PublishInv, SomeoneCancelled
  <1>5. CASE /\ publisher = "updating" /\ shown' = sent /\ dirty /\ publisher' = "pausing"
             /\ UNCHANGED <<dirty, sent, caller>>
        BY <1>1, <1>5 DEF PublishInv, RestType
  <1>6. CASE /\ publisher = "updating" /\ shown' = sent /\ ~dirty /\ publisher' = "none"
             /\ Tell("woken") /\ UNCHANGED <<dirty, sent>>
        BY <1>1, <1>6, TellEffect DEF PublishInv, RestType
  <1>7. CASE Round /\ publisher # "updating" /\ UNCHANGED shown
        BY <1>2, <1>3, <1>7 DEF Round
  <1> QED
        BY <1>4, <1>5, <1>6, <1>7 DEF PublishNext, PublisherStarts, PublisherWakes, UpdateEnds

\* The call of w goes on, and nothing changes for another caller.
LEMMA CallerEffect ==
    ASSUME RestType, NEW w \in Callers, NEW op, NEW at,
           caller' = [caller EXCEPT ![w] = [op |-> op, at |-> at]]
    PROVE  /\ caller'[w].op = op /\ caller'[w].at = at
           /\ \A v \in Callers \ {w} : caller'[v] = caller[v]
  BY DEF RestType

\* While a call that was not cancelled goes on, those that were stay cancelled.
LEMMA StillCancelled ==
    ASSUME NEW w \in Callers, caller[w].at # "cancelled", SomeoneCancelled,
           \A v \in Callers \ {w} : caller'[v] = caller[v]
    PROVE  SomeoneCancelled'
  BY DEF SomeoneCancelled

\* A step of flush() keeps the order, and so does finish() after its flush.
LEMMA FlushOrder ==
    ASSUME ListType, RestType, PublishInv, NEW w \in Callers, NEW op, FlushStep(w, op),
           UNCHANGED <<direct, dirty, sent, shown>>,
           caller[w].at \in {"idle", "woken"}, caller[w].op \in {"none", op},
           attached' => attached, op \in FinishOps => ~attached'
    PROVE  PublishInv' /\ OrderStep
  <1> USE DEF OrderStep, RevisionsIncrease, FlushedIsShown, TerminalIsLast, TerminalIsFrozen
  <1>1. SomeoneCancelled => SomeoneCancelled'
    <2>1. \E at : caller' = [caller EXCEPT ![w] = [op |-> op, at |-> at]]
          BY DEF FlushStep, Returns
    <2> QED
          BY <2>1, CallerEffect, StillCancelled
  <1>2. status # "running" => \E v \in Callers :
           \/ v # w /\ caller[v].op \in FinishOps
           \/ v = w /\ op \in FinishOps
        BY DEF PublishInv, FinishOps
  <1>3. CASE /\ publisher \in {"created", "sleeping", "updating", "pausing"} \/ dirty
             /\ publisher # "dead"
             /\ publisher' = Scheduled
             /\ caller' = [caller EXCEPT ![w] = [op |-> op, at |-> "waiting"]]
             /\ UNCHANGED activityVars
    <2>1. status = "running"
          BY <1>3 DEF PublishInv
    <2>2. /\ publisher' # "none" /\ publisher' # "dead"
          /\ publisher' = "updating" <=> publisher = "updating"
          BY <1>3 DEF Scheduled
    <2>3. /\ caller'[w].op = op /\ caller'[w].at = "waiting"
          /\ \A v \in Callers \ {w} : caller'[v] = caller[v]
          BY <1>3, CallerEffect
    <2>4. PublishInv'
      <3>1. \A v \in Callers : /\ caller'[v].at = "waiting" => publisher' \notin {"none", "dead"}
                               /\ caller'[v].at = "idle" => caller'[v].op = "none"
                               /\ caller'[v].op \in FinishOps => ~attached'
        <4> TAKE v \in Callers
        <4>1. CASE v = w
              BY <1>3, <2>2, <2>3, <4>1 DEF PublishInv, FinishOps
        <4>2. CASE v # w
              BY <1>3, <2>2, <2>3, <4>2 DEF PublishInv
        <4> QED
              BY <4>1, <4>2
      <3> QED
            BY <1>1, <1>3, <2>1, <2>2, <3>1 DEF PublishInv, activityVars
    <2>5. OrderStep
          BY <1>3, <2>1, <2>2, <2>3 DEF activityVars
    <2> QED
          BY <2>4, <2>5
  <1>4. CASE /\ publisher = "dead"
             /\ caller' = [caller EXCEPT ![w] = [op |-> op, at |-> "dropped"]]
             /\ UNCHANGED <<activityVars, publisher>>
    <2>1. status = "running"
          BY <1>4 DEF PublishInv
    <2>2. /\ caller'[w].op = op /\ caller'[w].at = "dropped"
          /\ \A v \in Callers \ {w} : caller'[v] = caller[v]
          BY <1>4, CallerEffect
    <2>3. PublishInv'
      <3>1. \A v \in Callers : /\ caller'[v].at = "waiting" => publisher' \notin {"none", "dead"}
                               /\ caller'[v].at = "idle" => caller'[v].op = "none"
                               /\ caller'[v].op \in FinishOps => ~attached'
        <4> TAKE v \in Callers
        <4>1. CASE v = w
              BY <1>4, <2>2, <4>1 DEF PublishInv, FinishOps
        <4>2. CASE v # w
              BY <1>4, <2>2, <4>2 DEF PublishInv
        <4> QED
              BY <4>1, <4>2
      <3> QED
            BY <1>1, <1>4, <2>1, <3>1 DEF PublishInv, activityVars
    <2>4. OrderStep
          BY <1>4, <2>1, <2>2 DEF activityVars
    <2> QED
          BY <2>3, <2>4
  <1>5. CASE publisher = "none" /\ ~dirty /\ Returns(w, op) /\ UNCHANGED publisher
    <2>1. /\ caller'[w].op = op /\ caller'[w].at = "returned"
          /\ \A v \in Callers \ {w} : caller'[v] = caller[v]
          BY <1>5, CallerEffect DEF Returns
    <2>2. FlushedIsShown
          BY <1>5 DEF PublishInv
    <2>3. CASE UNCHANGED activityVars
      <3>1. \A v \in Callers : /\ caller'[v].at # "waiting"
                               /\ caller'[v].at = "idle" => caller'[v].op = "none"
                               /\ caller'[v].op \in FinishOps => ~attached'
        <4> TAKE v \in Callers
        <4>1. CASE v = w
              BY <2>1, <4>1
        <4>2. CASE v # w
              BY <1>5, <2>1, <4>2 DEF PublishInv
        <4> QED
              BY <4>1, <4>2
      <3>2. status # "running" => \E v \in Callers : caller'[v].op \in FinishOps
            BY <1>2, <2>1
      <3>3. PublishInv'
            BY <1>1, <1>5, <2>3, <3>1, <3>2 DEF PublishInv, activityVars
      <3>4. OrderStep
            BY <1>5, <2>2, <2>3 DEF PublishInv, activityVars
      <3> QED
            BY <3>3, <3>4
    <2>4. CASE op \in FinishOps /\ \E ok \in BOOLEAN : Terminate(ok)
      <3>1. PICK ok \in BOOLEAN : Terminate(ok)
            BY <2>4
      <3>2. /\ status' = Status(ok) /\ phase' = Status(ok) /\ running' = <<>>
            /\ revision' = revision + 1
            BY <3>1 DEF Terminate
      <3>3. status' # "running"
            BY <3>2 DEF Status
      <3>4. ~direct /\ status # "running" => running = <<>> /\ phase = status
            BY DEF PublishInv
      <3>5. running = <<>> => count' = count
        <4>1. count' = [count EXCEPT ![Outcome(ok)] = @ + Len(Numbers(running))]
              BY <3>1 DEF Terminate, Ended
        <4>2. running = <<>> => Len(Numbers(running)) = 0
              BY DEF Numbers
        <4> QED
              BY <4>1, <4>2 DEF ListType
      <3>6. PublishInv'
            BY <1>1, <1>5, <2>1, <2>4, <3>2, <3>3 DEF PublishInv, RestType
      <3>7. TerminalIsFrozen
            BY <3>2, <3>4, <3>5
      <3> QED
            BY <1>5, <2>2, <3>6, <3>7
    <2> QED
          BY <1>5, <2>3, <2>4 DEF FlushStep, FinishOps
  <1> QED
        BY <1>3, <1>4, <1>5 DEF FlushStep

\* start() keeps the order.
LEMMA StartOrder ==
    ASSUME RestType, PublishInv, NEW w \in Callers, Start(w)
    PROVE  PublishInv' /\ OrderStep
  <1>1. /\ status = "running" /\ revision' = revision + 1 /\ dirty' = TRUE
        /\ publisher' = IF publisher = "none" THEN "created" ELSE publisher
        /\ UNCHANGED <<status, phase, running, count, direct, attached, sent, shown>>
        BY DEF Start, Changed, Scheduled
  <1>2. shown' <= sent' /\ sent' <= revision' /\ sent' < revision'
    <2>1. shown <= sent /\ sent <= revision
          BY DEF PublishInv
    <2>2. revision \in Nat /\ sent \in Nat /\ shown \in Nat
          BY DEF RestType
    <2>3. revision' = revision + 1 /\ sent' = sent /\ shown' = shown
          BY <1>1
    <2> QED
          BY <2>1, <2>2, <2>3
  <1>3. PICK at \in {"waiting", "dropped"} :
           /\ caller' = [caller EXCEPT ![w] = [op |-> "start", at |-> at]]
           /\ at = "waiting" => publisher # "dead"
        BY DEF Start
  <1>4. /\ caller'[w].op = "start" /\ caller'[w].at = at
        /\ \A v \in Callers \ {w} : caller'[v] = caller[v]
        BY <1>3, CallerEffect
  <1>5. SomeoneCancelled => SomeoneCancelled'
        BY <1>4, StillCancelled DEF Start
  <1>6. PublishInv'
    <2>1. \A v \in Callers : /\ caller'[v].at = "waiting" => publisher' \notin {"none", "dead"}
                             /\ caller'[v].at = "idle" => caller'[v].op = "none"
                             /\ caller'[v].op \in FinishOps => ~attached'
      <3> TAKE v \in Callers
      <3>1. CASE v = w
            BY <1>1, <1>3, <1>4, <3>1 DEF FinishOps
      <3>2. CASE v # w
            BY <1>1, <1>4, <3>2 DEF PublishInv
      <3> QED
            BY <3>1, <3>2
    <2>2. publisher' # "updating" => shown' = sent' \/ SomeoneCancelled'
      <3>1. publisher # "updating" => shown = sent \/ SomeoneCancelled
            BY DEF PublishInv
      <3>2. publisher' # "updating" => publisher # "updating"
            BY <1>1
      <3> QED
            BY <1>1, <1>5, <3>1, <3>2
    <2>3. status' = "running" /\ dirty'
          BY <1>1
    <2> QED
          BY <1>2, <2>1, <2>2, <2>3 DEF PublishInv
  <1>7. OrderStep
        BY <1>1, <1>3, <1>4
           DEF OrderStep, RevisionsIncrease, FlushedIsShown, TerminalIsLast, TerminalIsFrozen
  <1> QED
        BY <1>6, <1>7

\* Calls keep the order.
LEMMA CallOrder ==
    ASSUME ListType, RestType, PublishInv, CallNext
    PROVE  PublishInv' /\ OrderStep
  <1> SUFFICES ASSUME NEW w \in Callers,
                      \/ Start(w) \/ Flush(w) \/ Finish(w, "finish well")
                      \/ Finish(w, "finish badly")
                      \/ Resume(w) \/ CancelCaller(w) \/ CancelWoken(w)
               PROVE  PublishInv' /\ OrderStep
        BY DEF CallNext
  <1>1. CASE Start(w)
        BY <1>1, StartOrder
  <1>2. CASE Flush(w)
    <2>1. caller[w].op = "none"
          BY <1>2 DEF Flush, PublishInv
    <2> QED
          BY <1>2, <2>1, FlushOrder DEF Flush, FinishOps
  <1>3. ASSUME NEW op \in FinishOps, Finish(w, op) PROVE PublishInv' /\ OrderStep
    <2>1. caller[w].op = "none"
          BY <1>3 DEF Finish, PublishInv
    <2> QED
          BY <1>3, <2>1, FlushOrder DEF Finish
  <1>4. CASE Resume(w)
    <2>1. caller[w].op \in FinishOps => ~attached
          BY DEF PublishInv
    <2> QED
          BY <1>4, <2>1, FlushOrder DEF Resume
  <1>5. CASE CancelCaller(w)
    <2>1. status = "running" /\ caller[w].at = "waiting"
          BY <1>5 DEF CancelCaller, PublishInv
    <2>2. /\ caller'[w].at = "cancelled"
          /\ \A v \in Callers : /\ caller'[v].op = caller[v].op /\ caller'[v].at # "waiting"
                                /\ caller'[v].at \in {"cancelled", "dropped", caller[v].at}
          BY <1>5 DEF CancelCaller, RestType
    <2>3. SomeoneCancelled'
          BY <2>2 DEF SomeoneCancelled
    <2>4. /\ publisher' \in {"dead", "created", "none"}
          /\ UNCHANGED <<revision, status, phase, running, count, direct, attached, dirty, sent,
                          shown>>
          BY <1>5 DEF CancelCaller, activityVars
    <2>5. PublishInv'
          BY <2>1, <2>2, <2>3, <2>4 DEF PublishInv
    <2>6. OrderStep
          BY <2>1, <2>2, <2>4
             DEF OrderStep, RevisionsIncrease, FlushedIsShown, TerminalIsLast, TerminalIsFrozen
    <2> QED
          BY <2>5, <2>6
  <1>6. CASE CancelWoken(w)
    <2>1. /\ caller'[w].at = "cancelled" /\ caller'[w].op = caller[w].op
          /\ \A v \in Callers \ {w} : caller'[v] = caller[v]
          BY <1>6 DEF CancelWoken, RestType
    <2>2. SomeoneCancelled'
          BY <2>1 DEF SomeoneCancelled
    <2>3. UNCHANGED <<revision, status, phase, running, count, direct, attached,
                      dirty, publisher, sent, shown>>
          BY <1>6 DEF CancelWoken, activityVars, publishVars
    <2>4. PublishInv'
          BY <2>1, <2>2, <2>3 DEF PublishInv
    <2>5. OrderStep
          BY <2>1, <2>3 DEF PublishInv, OrderStep, RevisionsIncrease, FlushedIsShown,
                            TerminalIsLast, TerminalIsFrozen
    <2> QED
          BY <2>4, <2>5
  <1> QED
        BY <1>1, <1>2, <1>3, <1>4, <1>5, <1>6 DEF FinishOps

\* The inductive invariant: types, and the order of what is published.
THEOREM PublishInductive == Spec => [](TypeOK /\ PublishInv)
  <1>1. Init => PublishInv
    <2> SUFFICES ASSUME Init PROVE PublishInv
          OBVIOUS
    <2>1. \A w \in Callers : caller[w].op = "none" /\ caller[w].at = "idle"
          BY DEF Init
    <2>2. /\ revision = 0 /\ sent = 0 /\ shown = 0 /\ status = "running"
          /\ ~attached /\ ~dirty /\ publisher = "none"
          BY DEF Init
    <2>3. \A w \in Callers : /\ caller[w].at = "waiting" => publisher \notin {"none", "dead"}
                             /\ caller[w].at = "idle" => caller[w].op = "none"
                             /\ caller[w].op \in FinishOps => ~attached
          BY <2>1 DEF FinishOps
    <2> QED
          BY <2>2, <2>3 DEF PublishInv
  <1>2. TypeOK /\ PublishInv /\ [Next]_vars => PublishInv'
    <2> SUFFICES ASSUME ListType, RestType, PublishInv, [Next]_vars PROVE PublishInv'
          BY TypeParts
    <2>1. UNCHANGED vars => PublishInv'
          BY PublishStays DEF vars, activityVars, publishVars
    <2> QED
          BY <2>1, ReportOrder, PublisherOrder, CallOrder DEF Next
  <1> QED
        BY <1>1, <1>2, ListsInductive, PTL DEF Spec

\* Snapshots are of ever later revisions, flush() returns when all that was reported
\* before is published, and the snapshot that finish() returns is the last and stays
\* as it is, for any callers and any interleaving (task_progress.py:375-408, 479-563).
THEOREM SnapshotsInOrder == Spec => SnapshotsKeepTheirOrder
  <1>1. TypeOK /\ PublishInv /\ [Next]_vars => [OrderStep]_vars
        BY TypeParts, ReportOrder, PublisherOrder, CallOrder DEF Next
  <1>2. [OrderStep]_vars
           => [RevisionsIncrease /\ FlushedIsShown /\ TerminalIsLast /\ TerminalIsFrozen]_vars
        BY DEF OrderStep
  <1> QED
        BY <1>1, <1>2, PublishInductive, PTL DEF Spec, SnapshotsKeepTheirOrder
==============================================================================
