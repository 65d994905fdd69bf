-------------------------- MODULE AgentSession_proofs --------------------------
(***************************************************************************)
(* Theorems about AgentSession for every set of runs and calls of steer()  *)
(* and for all bounds.                                                     *)
(***************************************************************************)
EXTENDS AgentSession, SequenceTheorems, TLAPS

\* The phases of a run whose prompt, turn or updates may still be under way.
Sent == {"prompting", "cancelling", "cancelled"}

\* The flag, the subscription and the phase of a run agree.
RunInv ==
    /\ running <=> handlers # {}
    /\ \A q, r \in handlers : q = r
    /\ \A r \in handlers : phase[r] \in InFlight \/ (phase[r] = "failed" /\ raises > 0)
    /\ \A r \in Runs : phase[r] \in InFlight => r \in handlers

\* A prompt, its turn, its updates and its answer follow each other, each once, and
\* only for a run that waits or has been abandoned.
StreamInv ==
    /\ ~rpc => toAgent = <<>> /\ fromAgent = <<>>
    /\ \A i, j \in DOMAIN toAgent :
          (toAgent[i].type = "prompt" /\ toAgent[j] = toAgent[i]) => i = j
    /\ \A i \in DOMAIN toAgent : toAgent[i].type = "prompt" =>
          /\ phase[toAgent[i].of] \in Sent
          /\ \A k \in DOMAIN turns : turns[k] # toAgent[i].of
          /\ \A k \in DOMAIN fromAgent : fromAgent[k].turn # toAgent[i].of
    /\ rpc => \A i, j \in DOMAIN turns : turns[i] = turns[j] => i = j
    /\ rpc => \A i \in DOMAIN turns :
          /\ phase[turns[i]] \in Sent
          /\ \A k \in DOMAIN fromAgent :
                fromAgent[k].turn = turns[i] => fromAgent[k].type # "answer"
    /\ \A k \in DOMAIN fromAgent : phase[fromAgent[k].turn] \in Sent
    /\ \A k, l \in DOMAIN fromAgent :
          (fromAgent[k].type = "answer" /\ fromAgent[l].turn = fromAgent[k].turn) => l <= k

\* A steering message is ahead of the prompt of every later run.
SteerInv ==
    /\ \A i \in DOMAIN toAgent : toAgent[i].type = "steer" =>
          LET s == toAgent[i].of IN
          /\ steer[s].at # "idle" /\ steer[s].run # None
          /\ \A t \in Runs : (t # steer[s].run /\ phase[t] = "prompting") =>
                /\ \A k \in DOMAIN turns : turns[k] # t
                /\ \A j \in DOMAIN toAgent : toAgent[j] = [type |-> "prompt", of |-> t] => i < j
    /\ SteersTheRunMeant

\* A list of events: what came from the agent is as it was sent, in that order.
Numbered(s) ==
    /\ \A i \in DOMAIN s : s[i].n = 0 => s[i].turn = None /\ s[i].type \notin Kinds
    /\ \A i \in DOMAIN s : s[i].n > 0 => s[i].n \in DOMAIN log /\ s[i] = log[s[i].n]
    /\ Ascending(s)

Below(s, n) == \A i \in DOMAIN s : s[i].n < n

\* The updates are numbered, wait in order, and are later than all that were taken.
OrderInv ==
    /\ \A k \in DOMAIN log : log[k].n = k /\ phase[log[k].turn] # "idle"
    /\ \A i \in DOMAIN fromAgent : fromAgent[i].type # "answer" =>
          /\ fromAgent[i].n \in DOMAIN log /\ fromAgent[i] = log[fromAgent[i].n]
          /\ \A r \in Runs : Below(events[r], fromAgent[i].n)
    /\ \A i, j \in DOMAIN fromAgent :
          (i < j /\ fromAgent[i].type # "answer" /\ fromAgent[j].type # "answer") =>
             fromAgent[i].n < fromAgent[j].n
    /\ \A r \in Runs : Numbered(events[r])

\* What was sent for a run is under way, in its events, or replaced there.
Taken(s, k) ==
    \/ log[k].type = "compaction"
    \/ log[k].type = "progress" /\ \E i \in Snapshots(s) : s[i].n >= k
    \/ log[k].type # "progress" /\ \E i \in DOMAIN s : s[i] = log[k]

DeliveryInv ==
    \A r \in Runs : phase[r] \in {"prompting", "answered", "returned"} =>
        \A k \in DOMAIN log : log[k].turn = r =>
            Taken(events[r], k) \/ \E i \in DOMAIN fromAgent : fromAgent[i] = log[k]

\* A list of events of a run that thinks, or not: one snapshot, one marker, and
\* thoughts between one start and one end.
Single == {"progress", "compaction", "thinking_start", "thinking_end"}
Has(s, type) == \E i \in DOMAIN s : s[i].type = type

Neat(s, active) ==
    /\ \A i, j \in DOMAIN s : (s[i].type = s[j].type /\ s[i].type \in Single) => i = j
    /\ \A i \in DOMAIN s : s[i].type = "thought" =>
          /\ \E j \in DOMAIN s : s[j].type = "thinking_start" /\ j < i
          /\ \A j \in DOMAIN s : s[j].type = "thinking_end" => i < j
    /\ active <=> Has(s, "thinking_start") /\ ~Has(s, "thinking_end")

\* The lists of the runs are neat, and a marker is in one of them.
ListInv ==
    /\ \A r \in Runs : /\ Neat(events[r], thinking[r])
                       /\ phase[r] = "idle" => events[r] = <<>>
                       /\ phase[r] = "returned" => ~thinking[r]
                       /\ r \in handlers => ~Has(events[r], "thinking_end")
                       /\ Has(events[r], "compaction") => seen
    /\ \A q, r \in Runs :
          Has(events[q], "compaction") /\ Has(events[r], "compaction") => q = r

IInv == TypeOK /\ RunInv /\ StreamInv /\ SteerInv /\ OrderInv /\ DeliveryInv /\ ListInv
        /\ ForeignOnlyAfterAbandon

-----------------------------------------------------------------------------
(* Sequences *)

\* What a removal leaves, and where.
LEMMA RemoveEffect ==
    ASSUME NEW S, NEW s \in Seq(S), NEW i \in 1 .. Len(s)
    PROVE  /\ RemoveAt(s, i) \in Seq(S) /\ Len(RemoveAt(s, i)) = Len(s) - 1
           /\ \A j \in 1 .. Len(s) - 1 : RemoveAt(s, i)[j] = s[IF j < i THEN j ELSE j + 1]
  <1> DEFINE a == SubSeq(s, 1, i - 1)
             b == SubSeq(s, i + 1, Len(s))
  <1>1. Len(s) \in Nat /\ DOMAIN s = 1 .. Len(s)
        BY LenProperties
  <1>2. /\ a \in Seq(S) /\ Len(a) = i - 1 /\ \A j \in 1 .. i - 1 : a[j] = s[j]
        BY <1>1, SubSeqProperties
  <1>3. /\ b \in Seq(S) /\ Len(b) = Len(s) - i
        /\ \A j \in 1 .. Len(s) - i : b[j] = s[i + j]
    <2>1. i \in Nat /\ i >= 1 /\ i <= Len(s) /\ \A k \in i + 1 .. Len(s) : s[k] \in S
          BY <1>1
    <2>2. /\ b \in Seq(S) /\ Len(b) = IF i + 1 <= Len(s) THEN Len(s) - (i + 1) + 1 ELSE 0
          /\ \A j \in 1 .. Len(s) - (i + 1) + 1 : b[j] = s[(i + 1) + j - 1]
          BY <1>1, <2>1, SubSeqProperties
    <2> HIDE DEF b
    <2>3. Len(b) = Len(s) - i
      <3>1. CASE i + 1 <= Len(s)
            BY <1>1, <2>1, <2>2, <3>1
      <3>2. CASE ~(i + 1 <= Len(s))
        <4>1. Len(s) \in Nat /\ i \in Nat /\ i <= Len(s)
              BY <1>1, <2>1
        <4>2. Len(s) - i = 0
              BY <3>2, <4>1
        <4> QED
              BY <2>2, <3>2, <4>2
      <3> QED
            BY <3>1, <3>2
    <2>4. ASSUME NEW j \in 1 .. Len(s) - i PROVE b[j] = s[i + j]
      <3>1. j \in 1 .. Len(s) - (i + 1) + 1 /\ (i + 1) + j - 1 = i + j
            BY <1>1, <2>1
      <3> QED
            BY <2>2, <3>1
    <2> QED
          BY <2>2, <2>3, <2>4
  <1> HIDE DEF a, b
  <1>4. /\ a \o b \in Seq(S) /\ Len(a \o b) = Len(s) - 1
        /\ \A j \in 1 .. Len(s) - 1 : (a \o b)[j] = IF j < i THEN a[j] ELSE b[j - (i - 1)]
    <2>1. /\ a \o b \in Seq(S) /\ Len(a \o b) = Len(a) + Len(b)
          /\ \A j \in 1 .. Len(a) + Len(b) :
                (a \o b)[j] = IF j <= Len(a) THEN a[j] ELSE b[j - Len(a)]
          BY <1>2, <1>3, ConcatProperties
    <2>2. Len(a) + Len(b) = Len(s) - 1
          BY <1>1, <1>2, <1>3
    <2>3. ASSUME NEW j \in 1 .. Len(s) - 1
          PROVE  (a \o b)[j] = IF j < i THEN a[j] ELSE b[j - (i - 1)]
      <3>1. (a \o b)[j] = IF j <= i - 1 THEN a[j] ELSE b[j - (i - 1)]
            BY <1>2, <2>1, <2>2
      <3> QED
            BY <1>1, <3>1
    <2> QED
          BY <2>1, <2>2, <2>3
  <1>5. ASSUME NEW j \in 1 .. Len(s) - 1
        PROVE  (a \o b)[j] = s[IF j < i THEN j ELSE j + 1]
        BY <1>1, <1>2, <1>3, <1>4
  <1> QED
        BY <1>4, <1>5 DEF RemoveAt, a, b

\* The list s with e at its end.
LEMMA AppendEffect ==
    ASSUME NEW S, NEW s \in Seq(S), NEW e \in S
    PROVE  /\ Append(s, e) \in Seq(S) /\ Len(s) \in Nat
           /\ DOMAIN s = 1 .. Len(s) /\ DOMAIN Append(s, e) = 1 .. Len(s) + 1
           /\ \A i \in 1 .. Len(s) : Append(s, e)[i] = s[i]
           /\ Append(s, e)[Len(s) + 1] = e
  <1>1. /\ Append(s, e) \in Seq(S) /\ Len(Append(s, e)) = Len(s) + 1
        /\ \A i \in 1 .. Len(s) : Append(s, e)[i] = s[i]
        /\ Append(s, e)[Len(s) + 1] = e
        BY AppendProperties
  <1>2. Len(s) \in Nat /\ DOMAIN s = 1 .. Len(s)
        BY LenProperties
  <1>3. DOMAIN Append(s, e) = 1 .. Len(Append(s, e))
        BY <1>1, LenProperties
  <1> QED
        BY <1>1, <1>2, <1>3

\* t is what is left of s.
Part(t, s) ==
    \E f \in [DOMAIN t -> DOMAIN s] :
        /\ \A i, j \in DOMAIN t : i < j => f[i] < f[j]
        /\ \A i \in DOMAIN t : t[i] = s[f[i]]

\* A list is what is left of itself, when nothing is taken.
LEMMA PartSelf == ASSUME NEW S, NEW s \in Seq(S) PROVE Part(s, s)
  <1>1. DOMAIN s = 1 .. Len(s) /\ Len(s) \in Nat
        BY LenProperties
  <1> DEFINE f == [i \in DOMAIN s |-> i]
  <1>2. /\ f \in [DOMAIN s -> DOMAIN s]
        /\ \A i, j \in DOMAIN s : i < j => f[i] < f[j]
        /\ \A i \in DOMAIN s : s[i] = s[f[i]]
        OBVIOUS
  <1> QED
        BY <1>2 DEF Part

\* Of every list nothing may be left.
LEMMA PartEmpty == ASSUME NEW S, NEW s \in Seq(S) PROVE Part(<<>>, s)
  <1>1. DOMAIN <<>> = {}
        OBVIOUS
  <1> DEFINE f == [i \in {} |-> i]
  <1>2. f \in [{} -> DOMAIN s]
        OBVIOUS
  <1> QED
        BY <1>1, <1>2 DEF Part

\* What is left when the head is taken (the reader, the agent).
LEMMA PartTail ==
    ASSUME NEW S, NEW s \in Seq(S), s # <<>>
    PROVE  /\ Tail(s) \in Seq(S) /\ Part(Tail(s), s)
           /\ Len(s) \in Nat \ {0} /\ DOMAIN s = 1 .. Len(s) /\ Head(s) = s[1]
           /\ DOMAIN Tail(s) = 1 .. Len(s) - 1
           /\ \A i \in DOMAIN Tail(s) : Tail(s)[i] = s[i + 1]
  <1> DEFINE t == Tail(s)
  <1>1. /\ t \in Seq(S) /\ Len(t) = Len(s) - 1 /\ \A i \in 1 .. Len(t) : t[i] = s[i + 1]
        BY HeadTailProperties
  <1>2. Len(s) \in Nat \ {0} /\ DOMAIN s = 1 .. Len(s)
        BY EmptySeq, LenProperties
  <1>3. DOMAIN t = 1 .. Len(t)
        BY <1>1, LenProperties
  <1>4. Head(s) = s[1]
        OBVIOUS
  <1> HIDE DEF t
  <1> DEFINE f == [i \in DOMAIN t |-> i + 1]
  <1>5. /\ f \in [DOMAIN t -> DOMAIN s]
        /\ \A i, j \in DOMAIN t : i < j => f[i] < f[j]
        /\ \A i \in DOMAIN t : t[i] = s[f[i]]
        BY <1>1, <1>2, <1>3
  <1>6. Part(t, s)
        BY <1>5 DEF Part
  <1> QED
        BY <1>1, <1>2, <1>3, <1>4, <1>6 DEF t

\* What is left when one element is taken: the others, each of them.
LEMMA PartRemove ==
    ASSUME NEW S, NEW s \in Seq(S), NEW k \in DOMAIN s
    PROVE  /\ RemoveAt(s, k) \in Seq(S) /\ Part(RemoveAt(s, k), s)
           /\ \A i \in DOMAIN s : i # k =>
                 \E j \in DOMAIN RemoveAt(s, k) : RemoveAt(s, k)[j] = s[i]
           /\ \A j \in DOMAIN RemoveAt(s, k) :
                 \E i \in DOMAIN s : i # k /\ RemoveAt(s, k)[j] = s[i]
  <1> DEFINE t == RemoveAt(s, k)
  <1>1. Len(s) \in Nat /\ DOMAIN s = 1 .. Len(s)
        BY LenProperties
  <1>2. /\ t \in Seq(S) /\ Len(t) = Len(s) - 1
        /\ \A j \in 1 .. Len(s) - 1 : t[j] = s[IF j < k THEN j ELSE j + 1]
        BY <1>1, RemoveEffect
  <1>3. DOMAIN t = 1 .. Len(t)
        BY <1>2, LenProperties
  <1> HIDE DEF t
  <1> DEFINE f == [j \in DOMAIN t |-> IF j < k THEN j ELSE j + 1]
  <1>4. /\ f \in [DOMAIN t -> DOMAIN s]
        /\ \A i, j \in DOMAIN t : i < j => f[i] < f[j]
        /\ \A i \in DOMAIN t : t[i] = s[f[i]]
        BY <1>1, <1>2, <1>3
  <1>5. Part(t, s)
        BY <1>4 DEF Part
  <1>6. ASSUME NEW i \in DOMAIN s, i # k PROVE \E j \in DOMAIN t : t[j] = s[i]
    <2>1. CASE i < k
      <3>1. i \in DOMAIN t /\ t[i] = s[i]
            BY <1>1, <1>2, <1>3, <2>1
      <3> QED
            BY <3>1
    <2>2. CASE ~(i < k)
      <3>1. i - 1 \in DOMAIN t /\ t[i - 1] = s[(i - 1) + 1] /\ (i - 1) + 1 = i
            BY <1>1, <1>2, <1>3, <1>6, <2>2
      <3> QED
            BY <3>1
    <2> QED
          BY <2>1, <2>2
  <1>7. \A j \in DOMAIN t : \E i \in DOMAIN s : i # k /\ t[j] = s[i]
    <2>1. \A j \in DOMAIN t : f[j] # k /\ f[j] \in DOMAIN s /\ t[j] = s[f[j]]
          BY <1>1, <1>2, <1>3, <1>4
    <2> QED
          BY <2>1
  <1> QED
        BY <1>2, <1>5, <1>6, <1>7 DEF t

-----------------------------------------------------------------------------
(* Types *)

Events == [type : Kinds \cup OwnTypes, turn : Runs \cup {None}, n : 0..MaxUpdates]
Up == [type : Kinds \cup {"answer"}, turn : Runs, n : 0..MaxUpdates]
Down == [type : {"prompt", "cancel"}, of : Runs] \cup [type : {"steer"}, of : Steers]
Updates == [type : Kinds, turn : Runs, n : 1..MaxUpdates]

StreamType ==
    /\ rpc \in BOOLEAN
    /\ toAgent \in Seq(Down) /\ fromAgent \in Seq(Up) /\ turns \in Seq(Runs) /\ log \in Seq(Updates)

EventType == events \in [Runs -> Seq(Events)]

RestType ==
    /\ closed \in BOOLEAN /\ running \in BOOLEAN
    /\ handlers \subseteq Runs
    /\ phase \in [Runs -> {"idle", "returned", "failed", "cancelled"} \cup InFlight]
    /\ thinking \in [Runs -> BOOLEAN] /\ seen \in BOOLEAN
    /\ steer \in [Steers -> [run : Runs \cup {None}, at : {"idle", "waiting", "returned", "failed"},
                             turn : Runs \cup {None}]]
    /\ raises \in 0..MaxRaises

\* The type invariant, split by what the steps change together.
LEMMA TypeParts == TypeOK <=> StreamType /\ EventType /\ RestType
  BY DEF TypeOK, StreamType, EventType, RestType, Events, Up, Down, Updates

\* The updates are sent by an agent that has the turn.
LEMMA SendsEffect ==
    ASSUME StreamType, NEW r \in Runs, NEW kind \in Kinds, AgentSends(r, kind)
    PROVE  LET u == [type |-> kind, turn |-> r, n |-> Len(log) + 1] IN
           /\ u \in Up /\ u \in Updates /\ u.n = Len(log) + 1
           /\ Len(log) \in Nat /\ Len(log) < MaxUpdates
           /\ fromAgent' = Append(fromAgent, u) /\ log' = Append(log, u)
           /\ rpc /\ \E i \in DOMAIN turns : turns[i] = r
  <1>1. Len(log) \in Nat /\ MaxUpdates \in Nat /\ Len(log) < MaxUpdates
        BY LenProperties, SessionAssumption DEF StreamType, AgentSends
  <1> DEFINE m == Len(log) + 1
  <1>2. m \in 0..MaxUpdates /\ m \in 1..MaxUpdates
        BY <1>1
  <1>3. \E i \in DOMAIN turns : turns[i] = r
        BY LenProperties DEF StreamType, AgentSends, Contains
  <1>4. fromAgent' = Append(fromAgent, [type |-> kind, turn |-> r, n |-> m])
        /\ log' = Append(log, [type |-> kind, turn |-> r, n |-> m]) /\ rpc
        BY DEF AgentSends
  <1> HIDE DEF m
  <1>5. /\ [type |-> kind, turn |-> r, n |-> m] \in Up
        /\ [type |-> kind, turn |-> r, n |-> m] \in Updates
        BY <1>2 DEF Up, Updates
  <1> QED
        BY <1>1, <1>3, <1>4, <1>5 DEF m

\* The streams, the turns and the history keep their types.
LEMMA StreamStepType == StreamType /\ [Next]_vars => StreamType'
  <1> SUFFICES ASSUME StreamType, [Next]_vars PROVE StreamType'
      OBVIOUS
  <1> USE DEF StreamType
  <1>1. /\ <<>> \in Seq(Down) /\ <<>> \in Seq(Up)
        BY EmptySeq
  <1>2. ASSUME NEW r \in Runs
        PROVE  /\ [type |-> "prompt", of |-> r] \in Down /\ [type |-> "cancel", of |-> r] \in Down
        BY DEF Down
  <1>3. ASSUME NEW r \in Runs, Start(r) \/ Cancelled(r) PROVE StreamType'
    <2>1. /\ Append(toAgent, [type |-> "prompt", of |-> r]) \in Seq(Down)
          /\ Append(toAgent, [type |-> "cancel", of |-> r]) \in Seq(Down)
          BY <1>2, AppendProperties
    <2> QED
          BY <1>3, <2>1 DEF Start, Cancelled, agentVars
  <1>4. ASSUME NEW r \in Runs, StartRaises(r) \/ Return(r) \/ ReturnRaises(r) \/ Fail(r)
        PROVE  StreamType'
        BY <1>4 DEF StartRaises, Return, ReturnRaises, Fail, agentVars
  <1>5. ASSUME NEW r \in Runs, Cancel(r) PROVE StreamType'
    <2>1. toAgent' \in Seq(Down)
          BY <1>5, PartRemove DEF Cancel
    <2> QED
          BY <1>5, <2>1 DEF Cancel, agentVars
  <1>6. ASSUME NEW r \in Runs, AgentAnswers(r) PROVE StreamType'
    <2>1. [type |-> "answer", turn |-> r, n |-> 0] \in Up
          BY SessionAssumption DEF Up
    <2>2. fromAgent' \in Seq(Up)
          BY <1>6, <2>1, AppendProperties DEF AgentAnswers
    <2>3. turns' \in Seq(Runs)
          BY <1>6, PartRemove DEF AgentAnswers
    <2> QED
          BY <1>6, <2>2, <2>3 DEF AgentAnswers
  <1>7. ASSUME NEW r \in Runs, NEW kind \in Kinds, AgentSends(r, kind) PROVE StreamType'
    <2> DEFINE u == [type |-> kind, turn |-> r, n |-> Len(log) + 1]
    <2>2. u \in Up /\ u \in Updates /\ fromAgent' = Append(fromAgent, u) /\ log' = Append(log, u)
          BY <1>7, SendsEffect
    <2> HIDE DEF u
    <2>1. fromAgent' \in Seq(Up) /\ log' \in Seq(Updates)
          BY <2>2, AppendProperties
    <2> QED
          BY <1>7, <2>1 DEF AgentSends
  <1>8. ASSUME Update \/ Answered PROVE StreamType'
    <2>1. fromAgent' = Tail(fromAgent) /\ fromAgent # <<>>
          BY <1>8 DEF Update, Answered
    <2>2. fromAgent' \in Seq(Up)
          BY <2>1, PartTail
    <2> QED
          BY <1>8, <2>2 DEF Update, Answered, agentVars
  <1>9. ASSUME UpdateRaises \/ \E b \in BOOLEAN : ConnectionEnds(b) PROVE StreamType'
        BY <1>1, <1>9 DEF UpdateRaises, ConnectionEnds, agentVars
  <1>10. ASSUME AgentReads PROVE StreamType'
    <2>1. toAgent' \in Seq(Down)
          BY <1>10, PartTail DEF AgentReads
    <2>2. Head(toAgent) \in Down
          BY <1>10, HeadTailProperties DEF AgentReads
    <2>3. Head(toAgent).type = "prompt" => Head(toAgent).of \in Runs
          BY <2>2 DEF Down
    <2>4. turns' \in Seq(Runs)
          BY <1>10, <2>3, AppendProperties DEF AgentReads
    <2> QED
          BY <1>10, <2>1, <2>4 DEF AgentReads
  <1>11. ASSUME NEW s \in Steers, Steer(s) PROVE StreamType'
    <2>1. [type |-> "steer", of |-> s] \in Down
          BY DEF Down
    <2>2. toAgent' \in Seq(Down)
          BY <1>11, <2>1, AppendProperties DEF Steer
    <2> QED
          BY <1>11, <2>2 DEF Steer, agentVars
  <1>12. ASSUME UNCHANGED vars PROVE StreamType'
         BY <1>12 DEF vars, agentVars
  <1> QED
      BY <1>3, <1>4, <1>5, <1>6, <1>7, <1>8, <1>9, <1>10, <1>11, <1>12 DEF Next

\* A listener that raises is counted within the bound.
LEMMA RaiseType == raises \in 0..MaxRaises /\ Raise => raises' \in 0..MaxRaises
  BY SessionAssumption DEF Raise

\* The flags, the phases and the calls of steer() keep their types.
LEMMA RestStepType == StreamType /\ RestType /\ [Next]_vars => RestType'
  <1> SUFFICES ASSUME StreamType, RestType, [Next]_vars PROVE RestType'
      OBVIOUS
  <1> USE SessionAssumption DEF RestType
  <1>1. ASSUME NEW r \in Runs, Start(r) \/ StartRaises(r) PROVE RestType'
        BY <1>1, RaiseType, ZenonT(30) DEF Start, StartRaises, InFlight
  <1>2. ASSUME NEW r \in Runs, Return(r) \/ ReturnRaises(r) PROVE RestType'
    <2>1. /\ Leave(r, "returned") \/ Leave(r, "failed")
          /\ thinking' = [thinking EXCEPT ![r] = FALSE]
          /\ UNCHANGED <<closed, seen, steer>>
          BY <1>2 DEF Return, ReturnRaises
    <2>2. raises' \in 0..MaxRaises
          BY <1>2, RaiseType DEF Return, ReturnRaises
    <2> QED
          BY <2>1, <2>2 DEF Leave
  <1>3. ASSUME NEW r \in Runs, Fail(r) \/ Cancel(r) \/ Cancelled(r) PROVE RestType'
        BY <1>3 DEF Fail, Cancel, Cancelled, Leave, InFlight, runVars
  <1>4. ASSUME NEW r \in Runs, AgentAnswers(r) \/ \E kind \in Kinds : AgentSends(r, kind)
        PROVE  RestType'
        BY <1>4 DEF AgentAnswers, AgentSends, runVars
  <1>5. ASSUME Update PROVE RestType'
        BY <1>5 DEF Update, Note
  <1>6. Rejected \in [Runs -> {"idle", "returned", "failed", "cancelled"} \cup InFlight]
        BY DEF Rejected, InFlight
  <1>7. SteersRejected \in [Steers -> [run : Runs \cup {None},
                                       at : {"idle", "waiting", "returned", "failed"},
                                       turn : Runs \cup {None}]]
        BY DEF SteersRejected
  <1>8. ASSUME UpdateRaises PROVE RestType'
        BY <1>6, <1>7, <1>8, RaiseType DEF UpdateRaises, Note
  <1>9. ASSUME Answered PROVE RestType'
        BY <1>9 DEF Answered, InFlight
  <1>10. ASSUME NEW b \in BOOLEAN, ConnectionEnds(b) PROVE RestType'
         BY <1>6, <1>7, <1>10 DEF ConnectionEnds
  <1>11. ASSUME NEW s \in Steers, Steer(s) PROVE RestType'
         BY <1>11 DEF Steer, runVars
  <1>12. ASSUME AgentReads PROVE RestType'
    <2>1. turns # <<>> => Last(turns) \in Runs
      <3>1. turns # <<>> => Len(turns) \in 1 .. Len(turns)
            BY EmptySeq, LenProperties DEF StreamType
      <3> QED
            BY <3>1, ElementOfSeq DEF StreamType, Last
    <2>2. steer' \in [Steers -> [run : Runs \cup {None},
                                 at : {"idle", "waiting", "returned", "failed"},
                                 turn : Runs \cup {None}]]
      <3>1. CASE Head(toAgent).type # "steer"
            BY <1>12, <3>1 DEF AgentReads
      <3>2. CASE Head(toAgent).type = "steer"
        <4>1. Head(toAgent) \in Down
              BY <1>12, HeadTailProperties DEF AgentReads, StreamType
        <4>2. Head(toAgent).of \in Steers
              BY <3>2, <4>1 DEF Down
        <4>3. PICK t \in Runs \cup {None} :
                 steer' = [steer EXCEPT ![Head(toAgent).of].at = "returned",
                                        ![Head(toAgent).of].turn = t]
              BY <1>12, <2>1, <3>2 DEF AgentReads
        <4> QED
            BY <4>2, <4>3
      <3> QED
          BY <3>1, <3>2
    <2> QED
          BY <1>12, <2>2 DEF AgentReads, runVars
  <1>13. ASSUME UNCHANGED vars PROVE RestType'
         BY <1>13 DEF vars, runVars
  <1> QED
      BY <1>1, <1>2, <1>3, <1>4, <1>5, <1>8, <1>9, <1>10, <1>11, <1>12, <1>13 DEF Next

-----------------------------------------------------------------------------
(* Events *)

\* Events that say nothing of the updates.
Plain == {e \in Events :
             e.n = 0 /\ e.turn = None /\ e.type \notin Kinds \cup Single \cup {"thought"}}

\* The events that a run makes itself: they carry no number and no turn, and only those of
\* the thinking are not plain.
LEMMA PlainEvents ==
    /\ \A type \in OwnTypes : /\ Event(type) \in Events /\ Event(type).type = type
                               /\ Event(type).n = 0 /\ Event(type).turn = None
    /\ \A type \in OwnTypes \ {"thinking_start", "thinking_end"} : Event(type) \in Plain
    /\ OwnTypes \cap Kinds = {} /\ "thought" \notin OwnTypes
  <1>1. OwnTypes \cap Kinds = {} /\ "thought" \notin OwnTypes
        BY SessionAssumption DEF OwnTypes
  <1>2. 0 \in 0..MaxUpdates
        BY SessionAssumption
  <1>3. \A type \in OwnTypes \ {"thinking_start", "thinking_end"} : type \notin Single
        BY DEF OwnTypes, Single
  <1>4. \A type \in OwnTypes : /\ Event(type) \in Events /\ Event(type).type = type
                               /\ Event(type).n = 0 /\ Event(type).turn = None
        BY <1>2 DEF Event, Events
  <1>5. \A type \in OwnTypes \ {"thinking_start", "thinking_end"} : Event(type) \in Plain
        BY <1>1, <1>3, <1>4 DEF Plain
  <1> QED
        BY <1>1, <1>4, <1>5

\* What a run adds on its own account: the end of the thinking, if it thinks, and the rest.
Closing(s, active) ==
    /\ s \in Seq(Events)
    /\ \A i \in DOMAIN s : s[i] \in Plain \/ (active /\ i = 1 /\ s[i] = Event("thinking_end"))
    /\ active => 1 \in DOMAIN s /\ s[1] = Event("thinking_end")

\* More plain events may follow.
LEMMA ClosingConcat ==
    ASSUME NEW s, NEW active, Closing(s, active), NEW t \in Seq(Plain)
    PROVE  Closing(s \o t, active)
  <1>1. s \in Seq(Events) /\ t \in Seq(Events) /\ Len(s) \in Nat /\ Len(t) \in Nat
        /\ DOMAIN s = 1 .. Len(s) /\ DOMAIN t = 1 .. Len(t)
        BY SeqMonotonic, LenProperties DEF Closing, Plain
  <1> DEFINE c == s \o t
  <1>2. /\ c \in Seq(Events) /\ Len(c) = Len(s) + Len(t)
        /\ \A i \in 1 .. Len(s) + Len(t) : c[i] = IF i <= Len(s) THEN s[i] ELSE t[i - Len(s)]
        BY <1>1, ConcatProperties
  <1>3. DOMAIN c = 1 .. Len(s) + Len(t)
        BY <1>2, LenProperties
  <1>4. \A i \in DOMAIN t : t[i] \in Plain
        BY <1>1, ElementOfSeq
  <1> DEFINE e == Event("thinking_end")
  <1>5. /\ \A i \in DOMAIN s : s[i] \in Plain \/ (active /\ i = 1 /\ s[i] = e)
        /\ active => 1 \in DOMAIN s /\ s[1] = e
        BY DEF Closing
  <1> HIDE DEF c, e
  <1>6. ASSUME NEW i \in DOMAIN c PROVE c[i] \in Plain \/ (active /\ i = 1 /\ c[i] = e)
    <2>1. CASE i <= Len(s)
          BY <1>1, <1>2, <1>3, <1>5, <2>1
    <2>2. CASE ~(i <= Len(s))
          BY <1>1, <1>2, <1>3, <1>4, <2>2
    <2> QED
        BY <2>1, <2>2
  <1>7. active => 1 \in DOMAIN c /\ c[1] = e
        BY <1>1, <1>2, <1>3, <1>5
  <1> QED
        BY <1>2, <1>6, <1>7 DEF Closing, c, e

\* A listener that raises cuts them short.
LEMMA ClosingPrefix ==
    ASSUME NEW s, NEW active, Closing(s, active), NEW k \in DOMAIN s
    PROVE  Closing(SubSeq(s, 1, k), active)
  <1>1. s \in Seq(Events) /\ Len(s) \in Nat /\ DOMAIN s = 1 .. Len(s)
        BY LenProperties DEF Closing
  <1> DEFINE c == SubSeq(s, 1, k)
  <1>2. k \in Nat /\ k >= 1 /\ k <= Len(s) /\ \A i \in 1 .. k : s[i] \in Events
        BY <1>1, ElementOfSeq
  <1>3. c \in Seq(Events) /\ Len(c) = k /\ \A i \in 1 .. k : c[i] = s[i]
        BY <1>2, SubSeqProperties
  <1>4. DOMAIN c = 1 .. k
        BY <1>3, LenProperties
  <1> HIDE DEF c
  <1> QED
        BY <1>1, <1>2, <1>3, <1>4 DEF Closing, c

\* The last events of a run end the thinking first, if it thinks (session.py:122-138).
LEMMA LastCloses == ASSUME NEW r \in Runs PROVE Closing(LastEvents(r), thinking[r])
  <1> DEFINE a == IF thinking[r] THEN <<Event("thinking_end")>> ELSE <<>>
             b == <<Event("content_end")>>
             c == IF "text" \in Types(r) THEN <<Event("assistant.message")>> ELSE <<>>
             d == <<Event("agent.end")>>
  <1>1. b \in Seq(Plain) /\ c \in Seq(Plain) /\ d \in Seq(Plain)
        BY PlainEvents DEF OwnTypes
  <1>2. Closing(a, thinking[r])
        BY PlainEvents DEF Closing, OwnTypes
  <1>3. LastEvents(r) = ((a \o b) \o c) \o d
        BY DEF LastEvents, Ending
  <1> HIDE DEF a, b, c, d
  <1>4. Closing(a \o b, thinking[r])
        BY <1>1, <1>2, ClosingConcat
  <1>5. Closing((a \o b) \o c, thinking[r])
        BY <1>1, <1>4, ClosingConcat
  <1>6. Closing(((a \o b) \o c) \o d, thinking[r])
        BY <1>1, <1>5, ClosingConcat
  <1> QED
        BY <1>3, <1>6

\* The list v of a run after the update u: what is left of the earlier one, and then
\* the event of the update, that of the thinking that starts, or both.
Collects(v, r, u) ==
    LET start == Event("thinking_start")
        starts == u.type = "thought" /\ ~thinking[r]
        known == u.type = "compaction" /\ seen
    IN \E k \in Seq(Events) :
        /\ Part(k, events[r])
        /\ u.type = "progress" => ~Has(k, "progress")
        /\ \A i \in DOMAIN events[r] :
              \/ u.type = "progress" /\ events[r][i].type = "progress"
              \/ \E j \in DOMAIN k : k[j] = events[r][i]
        /\ \/ known /\ v = k
           \/ ~known /\ ~starts /\ v = Append(k, u)
           \/ starts /\ v \in {Append(k, start), Append(Append(k, start), u)}

\* What a run keeps for an update: all but the snapshot that the update replaces
\* (session.py:292-304).
LEMMA KeptEffect ==
    ASSUME EventType, NEW r \in Runs, NEW u \in Events,
           \A i, j \in Snapshots(events[r]) : i = j
    PROVE  /\ Kept(r, u) \in Seq(Events) /\ Part(Kept(r, u), events[r])
           /\ u.type = "progress" => ~Has(Kept(r, u), "progress")
           /\ \A i \in DOMAIN events[r] :
                 \/ u.type = "progress" /\ events[r][i].type = "progress"
                 \/ \E j \in DOMAIN Kept(r, u) : Kept(r, u)[j] = events[r][i]
  <1>1. events[r] \in Seq(Events)
        BY DEF EventType
  <1>2. CASE u.type = "progress" /\ Snapshots(events[r]) # {}
    <2>1. PICK m \in DOMAIN events[r] : events[r][m].type = "progress"
          BY <1>2 DEF Snapshots
    <2>2. Snapshots(events[r]) = {m}
          BY <2>1 DEF Snapshots
    <2>3. Min({m}) = m
      <3>1. DOMAIN events[r] \subseteq Nat
            BY <1>1, LenProperties
      <3> QED
            BY <3>1 DEF Min
    <2>4. Kept(r, u) = RemoveAt(events[r], m)
          BY <1>2, <2>2, <2>3 DEF Kept
    <2> DEFINE t == RemoveAt(events[r], m)
    <2>5. /\ t \in Seq(Events) /\ Part(t, events[r])
          /\ \A i \in DOMAIN events[r] : i # m => \E j \in DOMAIN t : t[j] = events[r][i]
          /\ \A j \in DOMAIN t : \E i \in DOMAIN events[r] : i # m /\ t[j] = events[r][i]
          BY <1>1, PartRemove
    <2> HIDE DEF t
    <2>6. \A i \in DOMAIN events[r] : events[r][i].type = "progress" => i = m
          BY <2>2 DEF Snapshots
    <2>7. ~Has(t, "progress")
          BY <2>5, <2>6 DEF Has
    <2>8. Kept(r, u) = t
          BY <2>4 DEF t
    <2> QED
        BY <1>2, <2>1, <2>5, <2>6, <2>7, <2>8
  <1>3. CASE ~(u.type = "progress" /\ Snapshots(events[r]) # {})
    <2>1. Kept(r, u) = events[r]
          BY <1>3 DEF Kept
    <2>2. Part(events[r], events[r])
          BY <1>1, PartSelf
    <2> QED
        BY <1>1, <1>3, <2>1, <2>2 DEF Has, Snapshots
  <1> QED
      BY <1>2, <1>3

\* The list after an update, with all of its events or cut short by a listener that raises.
LEMMA UpdateEffect ==
    ASSUME EventType, NEW r \in Runs, NEW u \in Events,
           \A i, j \in Snapshots(events[r]) : i = j
    PROVE  /\ Collects(Kept(r, u) \o Emitted(r, u), r, u)
           /\ \A i \in 1 .. Len(Emitted(r, u)) :
                 Collects(Kept(r, u) \o SubSeq(Emitted(r, u), 1, i), r, u)
  <1> DEFINE k == Kept(r, u)
             start == Event("thinking_start")
             starts == u.type = "thought" /\ ~thinking[r]
             known == u.type = "compaction" /\ seen
  <1>1. /\ k \in Seq(Events) /\ Part(k, events[r])
        /\ u.type = "progress" => ~Has(k, "progress")
        /\ \A i \in DOMAIN events[r] :
              \/ u.type = "progress" /\ events[r][i].type = "progress"
              \/ \E j \in DOMAIN k : k[j] = events[r][i]
        BY KeptEffect
  <1>2. start \in Events
        BY PlainEvents DEF OwnTypes
  <1> HIDE DEF k
  <1>3. CASE known
    <2>1. Emitted(r, u) = <<>> /\ k \o <<>> = k /\ Len(<<>>) = 0
          BY <1>1, <1>3, ConcatEmptySeq DEF Emitted
    <2> QED
        BY <1>1, <1>3, <2>1 DEF Collects, k
  <1>4. CASE ~known /\ ~starts
    <2> DEFINE e == <<u>>
    <2>1. e \in Seq(Events) /\ Len(e) = 1 /\ <<>> \o e = e /\ Append(k, u) = k \o e
          BY <1>1, AppendIsConcat
    <2>2. Emitted(r, u) = <<>> \o e
          BY <1>4 DEF Emitted
    <2> HIDE DEF e
    <2>3. SubSeq(e, 1, 1) = e
          BY <2>1, SubSeqFull
    <2>4. Collects(Append(k, u), r, u)
          BY <1>1, <1>4 DEF Collects
    <2>5. \A i \in 1 .. Len(e) : i = 1
          BY <2>1
    <2>6. Collects(k \o e, r, u) /\ \A i \in 1 .. Len(e) : Collects(k \o SubSeq(e, 1, i), r, u)
          BY <2>1, <2>3, <2>4, <2>5
    <2> QED
        BY <2>1, <2>2, <2>6 DEF k
  <1>5. CASE starts
    <2> DEFINE a == <<start>>
               b == <<u>>
               e == a \o b
    <2>1. Emitted(r, u) = e
          BY <1>5 DEF Emitted
    <2>2. a \in Seq(Events) /\ b \in Seq(Events) /\ Len(a) = 1 /\ Len(b) = 1
          BY <1>2
    <2>3. k \o a = Append(k, start) /\ Append(k, start) \in Seq(Events)
          BY <1>1, <1>2, AppendIsConcat, AppendProperties
    <2>4. Append(k, start) \o b = Append(Append(k, start), u)
          BY <2>3, AppendIsConcat
    <2>5. Collects(Append(k, start), r, u) /\ Collects(Append(Append(k, start), u), r, u)
          BY <1>1, <1>5 DEF Collects
    <2> HIDE DEF a, b, start
    <2>6. k \o e = Append(Append(k, start), u)
      <3>1. k \o (a \o b) = (k \o a) \o b
        <4>1. \A x, y, z \in Seq(Events) : (x \o y) \o z = x \o (y \o z)
              BY ConcatAssociative
        <4> QED
              BY <1>1, <2>2, <4>1
      <3> QED
            BY <2>3, <2>4, <3>1
    <2>7. e \in Seq(Events) /\ Len(e) = 2 /\ e[1] = a[1]
      <3>1. /\ e \in Seq(Events) /\ Len(e) = Len(a) + Len(b)
            /\ \A i \in 1 .. Len(a) + Len(b) : e[i] = IF i <= Len(a) THEN a[i] ELSE b[i - Len(a)]
            BY <2>2, ConcatProperties
      <3> HIDE DEF e
      <3> QED
            BY <2>2, <3>1
    <2> HIDE DEF e
    <2>8. SubSeq(e, 1, 2) = e
          BY <2>7, SubSeqFull
    <2>9. SubSeq(e, 1, 1) = a
      <3>1. e[1] \in Events
            BY <2>2, <2>7, ElementOfSeq, SMTT(30)
      <3>2. /\ SubSeq(e, 1, 1) \in Seq(Events) /\ Len(SubSeq(e, 1, 1)) = 1
            /\ \A i \in 1 .. 1 : SubSeq(e, 1, 1)[i] = e[i]
            BY <3>1, SubSeqProperties
      <3> QED
            BY <2>2, <2>7, <3>2, SeqEqual
    <2>10. \A i \in 1 .. Len(e) : i = 1 \/ i = 2
           BY <2>7
    <2>11. Collects(k \o e, r, u) /\ \A i \in 1 .. Len(e) : Collects(k \o SubSeq(e, 1, i), r, u)
           BY <2>3, <2>5, <2>6, <2>8, <2>9, <2>10
    <2> QED
        BY <2>1, <2>11 DEF k
  <1> QED
      BY <1>3, <1>4, <1>5

-----------------------------------------------------------------------------
(* Lists of events *)

\* The number of an event is a number.
LEMMA EventNumbers == \A e \in Events : e.n \in Nat
  <1>1. 0..MaxUpdates \subseteq Nat
        BY SessionAssumption
  <1> QED
      BY <1>1 DEF Events

\* The elements of a list of events are events.
LEMMA EventsAre ==
    ASSUME NEW s \in Seq(Events)
    PROVE  /\ Len(s) \in Nat /\ DOMAIN s = 1 .. Len(s)
           /\ \A i \in DOMAIN s : s[i] \in Events /\ s[i].n \in Nat
  <1>1. Len(s) \in Nat /\ DOMAIN s = 1 .. Len(s) /\ \A i \in DOMAIN s : s[i] \in Events
        BY LenProperties, ElementOfSeq
  <1> QED
      BY <1>1, EventNumbers

\* What is left of a numbered list is numbered.
LEMMA NumberedPart ==
    ASSUME NEW s \in Seq(Events), NEW t \in Seq(Events), Part(t, s), Numbered(s)
    PROVE  Numbered(t) /\ \A n \in Nat : Below(s, n) => Below(t, n)
  <1>1. PICK f \in [DOMAIN t -> DOMAIN s] :
            /\ \A i, j \in DOMAIN t : i < j => f[i] < f[j]
            /\ \A i \in DOMAIN t : t[i] = s[f[i]]
        BY DEF Part
  <1> QED
      BY <1>1 DEF Numbered, Ascending, Below

\* An event at the end of a list.
LEMMA NumberedAppend ==
    ASSUME NEW s \in Seq(Events), NEW e \in Events, Numbered(s),
           e.n = 0 => e.turn = None /\ e.type \notin Kinds,
           e.n > 0 => e.n \in DOMAIN log /\ e = log[e.n] /\ Below(s, e.n)
    PROVE  /\ Numbered(Append(s, e))
           /\ \A n \in Nat : Below(s, n) /\ e.n < n => Below(Append(s, e), n)
  <1> DEFINE t == Append(s, e)
  <1>1. /\ Len(s) \in Nat /\ DOMAIN s = 1 .. Len(s) /\ DOMAIN t = 1 .. Len(s) + 1
        /\ \A i \in DOMAIN s : t[i] = s[i]
        /\ t[Len(s) + 1] = e
        BY AppendEffect
  <1>2. e.n \in Nat /\ \A i \in DOMAIN s : s[i].n \in Nat
        BY EventsAre, EventNumbers
  <1> HIDE DEF t
  <1>3. \A i \in DOMAIN t : i \in DOMAIN s \/ i = Len(s) + 1
        BY <1>1
  <1>4. \A i \in DOMAIN t : t[i].n = 0 => t[i].turn = None /\ t[i].type \notin Kinds
        BY <1>1, <1>3 DEF Numbered
  <1>5. \A i \in DOMAIN t : t[i].n > 0 => t[i].n \in DOMAIN log /\ t[i] = log[t[i].n]
        BY <1>1, <1>3 DEF Numbered
  <1>6. ASSUME NEW i \in DOMAIN t, NEW j \in DOMAIN t, i < j, t[i].n > 0, t[j].n > 0
        PROVE  t[i].n < t[j].n
    <2>1. i \in DOMAIN s
          BY <1>1, <1>3, <1>6
    <2> QED
        BY <1>1, <1>2, <1>3, <1>6, <2>1 DEF Numbered, Ascending, Below
  <1>7. \A n \in Nat : Below(s, n) /\ e.n < n => Below(t, n)
        BY <1>1, <1>3 DEF Below
  <1> QED
      BY <1>4, <1>5, <1>6, <1>7 DEF Numbered, Ascending, t

\* What a run adds on its own account.
LEMMA ClosesEffect ==
    ASSUME NEW s \in Seq(Events), NEW p, NEW active, Closing(p, active)
    PROVE  LET t == s \o p end == Event("thinking_end") IN
           /\ t \in Seq(Events)
           /\ Len(s) \in Nat /\ DOMAIN s = 1 .. Len(s) /\ DOMAIN s \subseteq DOMAIN t
           /\ \A i \in DOMAIN s : t[i] = s[i]
           /\ \A i \in DOMAIN t \ DOMAIN s :
                 i > Len(s) /\ (t[i] \in Plain \/ (active /\ i = Len(s) + 1 /\ t[i] = end))
           /\ active => Len(s) + 1 \in DOMAIN t /\ t[Len(s) + 1] = end
  <1> DEFINE t == s \o p
             end == Event("thinking_end")
  <1>1. p \in Seq(Events) /\ Len(s) \in Nat /\ Len(p) \in Nat
        /\ DOMAIN s = 1 .. Len(s) /\ DOMAIN p = 1 .. Len(p)
        BY LenProperties DEF Closing
  <1>2. /\ t \in Seq(Events) /\ Len(t) = Len(s) + Len(p)
        /\ \A i \in 1 .. Len(s) + Len(p) : t[i] = IF i <= Len(s) THEN s[i] ELSE p[i - Len(s)]
        BY <1>1, ConcatProperties
  <1>3. DOMAIN t = 1 .. Len(s) + Len(p)
        BY <1>2, LenProperties
  <1>4. /\ \A i \in DOMAIN p : p[i] \in Plain \/ (active /\ i = 1 /\ p[i] = end)
        /\ active => 1 \in DOMAIN p /\ p[1] = end
        BY DEF Closing
  <1> HIDE DEF t, end
  <1>5. ASSUME NEW i \in DOMAIN t \ DOMAIN s
        PROVE  i > Len(s) /\ (t[i] \in Plain \/ (active /\ i = Len(s) + 1 /\ t[i] = end))
    <2>1. i > Len(s) /\ i - Len(s) \in DOMAIN p /\ t[i] = p[i - Len(s)]
          BY <1>1, <1>2, <1>3
    <2> QED
        BY <1>1, <1>3, <1>4, <2>1
  <1>6. active => Len(s) + 1 \in DOMAIN t /\ t[Len(s) + 1] = end
        BY <1>1, <1>2, <1>3, <1>4
  <1>7. DOMAIN s \subseteq DOMAIN t /\ \A i \in DOMAIN s : t[i] = s[i]
        BY <1>1, <1>2, <1>3
  <1> QED
      BY <1>1, <1>2, <1>5, <1>6, <1>7 DEF t, end

\* So it is when a run adds events of its own.
LEMMA NumberedCloses ==
    ASSUME NEW s \in Seq(Events), NEW p, NEW active, Closing(p, active), Numbered(s)
    PROVE  /\ Numbered(s \o p)
           /\ \A n \in Nat : Below(s, n) /\ 0 < n => Below(s \o p, n)
  <1> DEFINE t == s \o p
             end == Event("thinking_end")
  <1>1. /\ Len(s) \in Nat /\ DOMAIN s = 1 .. Len(s) /\ DOMAIN s \subseteq DOMAIN t
        /\ \A i \in DOMAIN s : t[i] = s[i]
        /\ \A i \in DOMAIN t \ DOMAIN s : i > Len(s) /\ (t[i] \in Plain \/ t[i] = end)
        BY ClosesEffect
  <1>2. /\ end.n = 0 /\ end.turn = None /\ end.type \notin Kinds
        /\ \A e \in Plain : e.n = 0 /\ e.turn = None /\ e.type \notin Kinds
        BY PlainEvents DEF Plain, OwnTypes
  <1> HIDE DEF t, end
  <1>3. \A i \in DOMAIN t \ DOMAIN s : t[i].n = 0 /\ t[i].turn = None /\ t[i].type \notin Kinds
        BY <1>1, <1>2
  <1>4. \A i \in DOMAIN t : t[i].n = 0 => t[i].turn = None /\ t[i].type \notin Kinds
        BY <1>1, <1>3 DEF Numbered
  <1>5. \A i \in DOMAIN t : t[i].n > 0 => i \in DOMAIN s
        BY <1>3
  <1>6. \A i \in DOMAIN t : t[i].n > 0 => t[i].n \in DOMAIN log /\ t[i] = log[t[i].n]
        BY <1>1, <1>5 DEF Numbered
  <1>7. Ascending(t)
        BY <1>1, <1>5 DEF Numbered, Ascending
  <1>8. \A n \in Nat : Below(s, n) /\ 0 < n => Below(t, n)
        BY <1>1, <1>3 DEF Below
  <1> QED
      BY <1>4, <1>6, <1>7, <1>8 DEF Numbered, t

\* A neat list of which at most a snapshot is taken is neat.
LEMMA NeatPart ==
    ASSUME NEW s \in Seq(Events), NEW t \in Seq(Events), NEW active \in BOOLEAN, Part(t, s),
           Neat(s, active),
           \A i \in DOMAIN s : s[i].type = "progress" \/ \E j \in DOMAIN t : t[j] = s[i]
    PROVE  /\ Neat(t, active)
           /\ \A type : Has(t, type) => Has(s, type)
           /\ \A type : type # "progress" => (Has(s, type) => Has(t, type))
  <1>1. PICK f \in [DOMAIN t -> DOMAIN s] :
            /\ \A i, j \in DOMAIN t : i < j => f[i] < f[j]
            /\ \A i \in DOMAIN t : t[i] = s[f[i]]
        BY DEF Part
  <1>2. DOMAIN s \subseteq Nat /\ DOMAIN t \subseteq Nat
        BY EventsAre
  <1>3. \A i, j \in DOMAIN t : f[i] = f[j] => i = j
    <2>1. \A i, j \in DOMAIN t : i < j \/ j < i \/ i = j
          BY <1>2
    <2>2. \A i, j \in DOMAIN t : f[i] < f[j] => f[i] # f[j]
          BY <1>2
    <2> QED
        BY <1>1, <2>1, <2>2
  <1>4. \A type : Has(t, type) => Has(s, type)
        BY <1>1 DEF Has
  <1>5. \A type : type # "progress" => (Has(s, type) => Has(t, type))
        BY DEF Has
  <1>6. \A i, j \in DOMAIN t : (t[i].type = t[j].type /\ t[i].type \in Single) => i = j
        BY <1>1, <1>3 DEF Neat
  <1>7. ASSUME NEW i \in DOMAIN t, t[i].type = "thought"
        PROVE  /\ \E j \in DOMAIN t : t[j].type = "thinking_start" /\ j < i
               /\ \A j \in DOMAIN t : t[j].type = "thinking_end" => i < j
    <2>1. s[f[i]].type = "thought" /\ f[i] \in DOMAIN s
          BY <1>1, <1>7
    <2>2. PICK a \in DOMAIN s : s[a].type = "thinking_start" /\ a < f[i]
          BY <2>1 DEF Neat
    <2>3. PICK j \in DOMAIN t : t[j] = s[a]
          BY <2>2
    <2>4. f[j] = a
          BY <1>1, <2>2, <2>3 DEF Neat, Single
    <2>5. ~(i < j) /\ i # j
      <3>1. ~(f[i] < f[j]) /\ f[i] # f[j]
            BY <1>1, <1>2, <2>1, <2>2, <2>4
      <3> QED
          BY <1>1, <3>1
    <2>6. j < i
          BY <1>2, <2>5
    <2>7. ASSUME NEW b \in DOMAIN t, t[b].type = "thinking_end" PROVE i < b
      <3>1. f[i] < f[b]
            BY <1>1, <2>1, <2>7 DEF Neat
      <3>2. ~(b < i) /\ b # i
        <4>1. ~(f[b] < f[i]) /\ f[b] # f[i]
              BY <1>1, <1>2, <3>1
        <4> QED
            BY <1>1, <4>1
      <3> QED
          BY <1>2, <3>2
    <2> QED
        BY <2>3, <2>2, <2>6, <2>7
  <1>8. active <=> Has(t, "thinking_start") /\ ~Has(t, "thinking_end")
        BY <1>4, <1>5 DEF Neat
  <1> QED
      BY <1>4, <1>5, <1>6, <1>7, <1>8 DEF Neat

\* An event at the end of a list.
LEMMA NeatAppend ==
    ASSUME NEW s \in Seq(Events), NEW e \in Events, NEW active \in BOOLEAN, Neat(s, active),
           e.type \in Single => ~Has(s, e.type),
           e.type = "thought" => active,
           e.type = "thinking_start" => ~Has(s, "thinking_end"),
           e.type # "thinking_end"
    PROVE  /\ Neat(Append(s, e), active \/ e.type = "thinking_start")
           /\ \A type : Has(Append(s, e), type) <=> Has(s, type) \/ e.type = type
  <1> DEFINE t == Append(s, e)
  <1>1. /\ Len(s) \in Nat /\ DOMAIN s = 1 .. Len(s) /\ DOMAIN t = 1 .. Len(s) + 1
        /\ \A i \in DOMAIN s : t[i] = s[i]
        /\ t[Len(s) + 1] = e
        BY AppendEffect
  <1> HIDE DEF t
  <1> DEFINE m == Len(s) + 1
  <1>2. /\ DOMAIN s \subseteq DOMAIN t /\ m \in DOMAIN t /\ m \notin DOMAIN s /\ t[m] = e
        /\ \A i \in DOMAIN t : i \in DOMAIN s \/ i = m
        /\ \A i \in DOMAIN s : i < m
        BY <1>1
  <1> HIDE DEF m
  <1>3. \A type : Has(t, type) <=> Has(s, type) \/ e.type = type
        BY <1>1, <1>2 DEF Has
  <1>4. \A i, j \in DOMAIN t : (t[i].type = t[j].type /\ t[i].type \in Single) => i = j
        BY <1>1, <1>2 DEF Neat, Has
  <1>5. ASSUME NEW i \in DOMAIN t, t[i].type = "thought"
        PROVE  /\ \E j \in DOMAIN t : t[j].type = "thinking_start" /\ j < i
               /\ \A j \in DOMAIN t : t[j].type = "thinking_end" => i < j
    <2>1. CASE i \in DOMAIN s
          BY <1>1, <1>2, <1>5, <2>1 DEF Neat
    <2>2. CASE i = m
          BY <1>1, <1>2, <1>5, <2>2 DEF Neat, Has
    <2> QED
        BY <1>2, <2>1, <2>2
  <1>6. (active \/ e.type = "thinking_start")
            <=> Has(t, "thinking_start") /\ ~Has(t, "thinking_end")
        BY <1>3 DEF Neat
  <1> QED
      BY <1>3, <1>4, <1>5, <1>6 DEF Neat, t

\* A neat list stays neat when the run adds events of its own.
LEMMA NeatCloses ==
    ASSUME NEW s \in Seq(Events), NEW p, NEW active \in BOOLEAN, NEW th \in BOOLEAN,
           Closing(p, active), Neat(s, th), active => th
    PROVE  /\ Neat(s \o p, th /\ ~active)
           /\ \A type \in Single :
                 Has(s \o p, type) <=> Has(s, type) \/ (active /\ type = "thinking_end")
  <1> DEFINE t == s \o p
             end == Event("thinking_end")
  <1>1. /\ Len(s) \in Nat /\ DOMAIN s = 1 .. Len(s) /\ DOMAIN s \subseteq DOMAIN t
        /\ \A i \in DOMAIN s : t[i] = s[i]
        /\ \A i \in DOMAIN t \ DOMAIN s :
              i > Len(s) /\ (t[i] \in Plain \/ (active /\ i = Len(s) + 1 /\ t[i] = end))
        /\ active => Len(s) + 1 \in DOMAIN t /\ t[Len(s) + 1] = end
        BY ClosesEffect
  <1>2. /\ end.type = "thinking_end"
        /\ \A e \in Plain : e.type \notin Single /\ e.type # "thought"
        BY PlainEvents DEF Plain, OwnTypes
  <1> HIDE DEF t, end
  <1>3. /\ \A i \in DOMAIN t \ DOMAIN s :
              t[i].type \in Single => active /\ i = Len(s) + 1 /\ t[i].type = "thinking_end"
        /\ \A i \in DOMAIN t \ DOMAIN s : t[i].type # "thought"
        BY <1>1, <1>2
  <1>4. \A i \in DOMAIN s, j \in DOMAIN t \ DOMAIN s : i < j
        BY <1>1
  <1>5. "thinking_end" \in Single /\ "thinking_start" \in Single
        /\ "thinking_end" # "thinking_start"
        BY DEF Single
  <1>6. \A type \in Single :
           Has(t, type) <=> Has(s, type) \/ (active /\ type = "thinking_end")
        BY <1>1, <1>2, <1>3 DEF Has
  <1>7. active => ~Has(s, "thinking_end")
        BY DEF Neat
  <1>8. \A i, j \in DOMAIN t : (t[i].type = t[j].type /\ t[i].type \in Single) => i = j
        BY <1>1, <1>3, <1>7 DEF Neat, Has
  <1>9. ASSUME NEW i \in DOMAIN t, t[i].type = "thought"
        PROVE  /\ \E j \in DOMAIN t : t[j].type = "thinking_start" /\ j < i
               /\ \A j \in DOMAIN t : t[j].type = "thinking_end" => i < j
    <2>1. i \in DOMAIN s
          BY <1>3, <1>9
    <2> QED
        BY <1>1, <1>4, <1>9, <2>1 DEF Neat
  <1>10. (th /\ ~active) <=> Has(t, "thinking_start") /\ ~Has(t, "thinking_end")
         BY <1>5, <1>6 DEF Neat
  <1> QED
      BY <1>6, <1>8, <1>9, <1>10 DEF Neat, t

-----------------------------------------------------------------------------
(* What the steps do to the events *)

\* The run r adds the events p of its own.
Adds(r, p, active) ==
    /\ Closing(p, active)
    /\ events' = [events EXCEPT ![r] = @ \o p]
    /\ thinking' = [thinking EXCEPT ![r] = thinking[r] /\ ~active]
    /\ seen' = seen

\* Plain events end nothing.
LEMMA PlainCloses ==
    ASSUME NEW p \in Seq(Plain)
    PROVE  Closing(p, FALSE)
  <1>1. p \in Seq(Events) /\ \A i \in DOMAIN p : p[i] \in Plain
        BY SeqMonotonic, LenProperties, ElementOfSeq DEF Plain
  <1> QED
      BY <1>1 DEF Closing

\* What a run adds when it starts, fails or is cancelled.
LEMMA OwnEffect ==
    ASSUME RestType, NEW r \in Runs, Start(r) \/ StartRaises(r) \/ Fail(r) \/ Cancelled(r)
    PROVE  \E p : Adds(r, p, FALSE)
  <1> DEFINE a == Event("agent.start")
             b == Event("user.message")
             c == Event("agent.error")
  <1>1. a \in Plain /\ b \in Plain /\ c \in Plain
        BY PlainEvents DEF OwnTypes
  <1>2. \E p \in {<<a, b>>, <<a>>, <<c>>} :
           events' = [events EXCEPT ![r] = @ \o p] /\ thinking' = thinking /\ seen' = seen
        BY DEF Start, StartRaises, Fail, Cancelled, Emit
  <1> HIDE DEF a, b, c
  <1>3. \A p \in {<<a, b>>, <<a>>, <<c>>} : p \in Seq(Plain)
    <2>1. <<a, b>> \in Seq(Plain) /\ <<a>> \in Seq(Plain) /\ <<c>> \in Seq(Plain)
          BY <1>1
    <2> QED
        BY <2>1
  <1>4. thinking = [thinking EXCEPT ![r] = thinking[r] /\ ~FALSE]
        BY DEF RestType
  <1> QED
      BY <1>2, <1>3, <1>4, PlainCloses DEF Adds

\* What a run adds when it takes up the answer, though a listener may raise.
LEMMA ReturnEffect ==
    ASSUME RestType, NEW r \in Runs, Return(r) \/ ReturnRaises(r)
    PROVE  \E p : Adds(r, p, thinking[r])
  <1>1. Closing(LastEvents(r), thinking[r])
        BY LastCloses
  <1> DEFINE e == <<Event("agent.error")>>
  <1>2. e \in Seq(Plain)
        BY PlainEvents DEF OwnTypes
  <1>3. thinking' = [thinking EXCEPT ![r] = thinking[r] /\ ~thinking[r]]
    <2>1. thinking' = [thinking EXCEPT ![r] = FALSE]
          BY DEF Return, ReturnRaises
    <2> QED
        BY <2>1
  <1>4. seen' = seen
        BY DEF Return, ReturnRaises
  <1>5. \/ events' = [events EXCEPT ![r] = @ \o LastEvents(r)]
        \/ \E i \in DOMAIN LastEvents(r) :
              events' = [events EXCEPT ![r] = @ \o (SubSeq(LastEvents(r), 1, i) \o e)]
        BY DEF Return, ReturnRaises, Emit
  <1> HIDE DEF e
  <1>6. \A i \in DOMAIN LastEvents(r) : Closing(SubSeq(LastEvents(r), 1, i) \o e, thinking[r])
        BY <1>1, <1>2, ClosingPrefix, ClosingConcat
  <1> QED
      BY <1>1, <1>3, <1>4, <1>5, <1>6 DEF Adds

\* What the reader hands to the run in progress is an event.
LEMMA HeadEvent ==
    ASSUME StreamType, fromAgent # <<>>, Head(fromAgent).type # "answer"
    PROVE  Head(fromAgent) \in Events /\ Head(fromAgent) \in Up /\ Head(fromAgent).type \in Kinds
  <1>1. Head(fromAgent) \in Up
        BY HeadTailProperties DEF StreamType
  <1> QED
      BY <1>1 DEF Up, Events

\* The run in progress collects the update u, and no other run does.
Takes(u) ==
    /\ \A r \in handlers : Collects(events'[r], r, u)
    /\ \A r \in Runs \ handlers : events'[r] = events[r]
    /\ Note(handlers, u)

\* An update changes the list of the run in progress only, whether or not a listener raises.
LEMMA TakesEffect ==
    ASSUME StreamType, EventType, RestType, \A q, r \in handlers : q = r,
           \A r \in Runs : \A i, j \in Snapshots(events[r]) : i = j,
           Update \/ UpdateRaises
    PROVE  Takes(Head(fromAgent))
  <1> DEFINE u == Head(fromAgent)
  <1>1. u \in Events
        BY HeadEvent DEF Update, UpdateRaises
  <1>2. handlers \subseteq Runs /\ DOMAIN events = Runs
        BY DEF RestType, EventType
  <1> HIDE DEF u
  <1>3. CASE Update
    <2>1. /\ events' = [r \in Runs |->
                IF r \in handlers THEN Kept(r, u) \o Emitted(r, u) ELSE events[r]]
          /\ Note(handlers, u)
          BY <1>3 DEF Update, u
    <2>2. \A r \in handlers : Collects(Kept(r, u) \o Emitted(r, u), r, u)
          BY <1>1, <1>2, UpdateEffect
    <2> QED
        BY <1>2, <2>1, <2>2 DEF Takes, u
  <1>4. CASE UpdateRaises
    <2>1. Note(handlers, u)
          BY <1>4 DEF UpdateRaises, u
    <2>2. PICK r \in handlers : \E i \in 1..Len(Emitted(r, u)) :
             events' = [events EXCEPT ![r] = Kept(r, u) \o SubSeq(Emitted(r, u), 1, i)]
          BY <1>4 DEF UpdateRaises, u
    <2>3. PICK i \in 1..Len(Emitted(r, u)) :
             events' = [events EXCEPT ![r] = Kept(r, u) \o SubSeq(Emitted(r, u), 1, i)]
          BY <2>2
    <2>4. Collects(Kept(r, u) \o SubSeq(Emitted(r, u), 1, i), r, u)
          BY <1>1, <1>2, UpdateEffect
    <2>5. events'[r] = Kept(r, u) \o SubSeq(Emitted(r, u), 1, i)
          BY <1>2, <2>3
    <2> QED
        BY <1>2, <2>1, <2>3, <2>4, <2>5 DEF Takes, u
  <1> QED
      BY <1>3, <1>4

\* The other steps leave them alone.
OtherSteps ==
    \/ \E r \in Runs : Cancel(r) \/ AgentAnswers(r) \/ \E kind \in Kinds : AgentSends(r, kind)
    \/ Answered \/ AgentReads \/ \E s \in Steers : Steer(s)
    \/ \E byUser \in BOOLEAN : ConnectionEnds(byUser)
    \/ UNCHANGED vars

\* These leave the lists alone.
LEMMA OtherEffect == OtherSteps => UNCHANGED <<events, thinking, seen>>
  BY DEF OtherSteps, Cancel, AgentAnswers, AgentSends, Answered, AgentReads, Steer,
         ConnectionEnds,
         vars, runVars

\* Every step is of one of these sorts.
LEMMA StepCases ==
    [Next]_vars =>
        \/ \E r \in Runs : \/ Start(r) \/ StartRaises(r) \/ Fail(r) \/ Cancelled(r)
                           \/ Return(r) \/ ReturnRaises(r)
        \/ Update \/ UpdateRaises
        \/ OtherSteps
  BY DEF Next, OtherSteps

-----------------------------------------------------------------------------
(* The lists stay neat *)

\* What a run adds on its own account keeps its list neat.
LEMMA AddsEffect ==
    ASSUME EventType, RestType, NEW r \in Runs, NEW p, NEW active \in BOOLEAN,
           active => thinking[r],
           Neat(events[r], thinking[r]), Adds(r, p, active)
    PROVE  /\ events' \in [Runs -> Seq(Events)]
           /\ \A q \in Runs \ {r} : events'[q] = events[q] /\ thinking'[q] = thinking[q]
           /\ events'[r] = events[r] \o p
           /\ thinking'[r] <=> thinking[r] /\ ~active
           /\ Neat(events'[r], thinking'[r])
           /\ \A type \in Single : Has(events'[r], type) <=>
                 Has(events[r], type) \/ (active /\ type = "thinking_end")
  <1>1. events[r] \in Seq(Events) /\ thinking[r] \in BOOLEAN /\ Closing(p, active)
        BY DEF EventType, RestType, Adds
  <1>2. events[r] \o p \in Seq(Events)
        BY <1>1, ClosesEffect
  <1>3. /\ events' \in [Runs -> Seq(Events)]
        /\ events'[r] = events[r] \o p
        /\ \A q \in Runs \ {r} : events'[q] = events[q]
        BY <1>2 DEF EventType, Adds
  <1>4. /\ thinking'[r] = (thinking[r] /\ ~active)
        /\ \A q \in Runs \ {r} : thinking'[q] = thinking[q]
        BY DEF RestType, Adds
  <1>5. /\ Neat(events[r] \o p, thinking[r] /\ ~active)
        /\ \A type \in Single : Has(events[r] \o p, type) <=>
              Has(events[r], type) \/ (active /\ type = "thinking_end")
        BY <1>1, NeatCloses
  <1> QED
      BY <1>3, <1>4, <1>5

\* So does what it collects.
LEMMA CollectsEffect ==
    ASSUME EventType, RestType, NEW r \in Runs, NEW u \in Events, u.type \in Kinds, NEW v,
           Neat(events[r], thinking[r]), ~Has(events[r], "thinking_end"),
           Has(events[r], "compaction") => seen,
           Collects(v, r, u)
    PROVE  /\ v \in Seq(Events)
           /\ Neat(v, thinking[r] \/ u.type = "thought")
           /\ ~Has(v, "thinking_end")
           /\ Has(v, "compaction") =>
                 Has(events[r], "compaction") \/ (~seen /\ u.type = "compaction")
  <1> DEFINE start == Event("thinking_start")
             th == thinking[r]
             s == events[r]
  <1>1. PICK k \in Seq(Events) :
           /\ Part(k, s)
           /\ u.type = "progress" => ~Has(k, "progress")
           /\ \A i \in DOMAIN s :
                 \/ u.type = "progress" /\ s[i].type = "progress"
                 \/ \E j \in DOMAIN k : k[j] = s[i]
           /\ \/ u.type = "compaction" /\ seen /\ v = k
              \/ /\ ~(u.type = "compaction" /\ seen) /\ ~(u.type = "thought" /\ ~th)
                 /\ v = Append(k, u)
              \/ /\ u.type = "thought" /\ ~th
                 /\ v \in {Append(k, start), Append(Append(k, start), u)}
        BY DEF Collects
  <1>2. /\ start \in Events /\ start.type = "thinking_start" /\ u.type # "thinking_start"
        /\ u.type # "thinking_end" /\ "thinking_start" # "thinking_end"
        /\ "thinking_start" # "compaction" /\ "thought" # "compaction" /\ "thought" \notin Single
        /\ "thinking_start" # "thought" /\ "progress" # "compaction" /\ "progress" # "thinking_end"
        /\ "progress" # "thinking_start"
        BY PlainEvents DEF OwnTypes, Single
  <1>3. s \in Seq(Events) /\ th \in BOOLEAN
        BY DEF EventType, RestType
  <1> HIDE DEF start, th, s
  <1>4. /\ Neat(k, th)
        /\ \A type : Has(k, type) => Has(s, type)
        /\ \A type : type # "progress" => (Has(s, type) => Has(k, type))
        BY <1>1, <1>3, NeatPart DEF s, th
  <1>5. ~Has(k, "thinking_end") /\ (Has(k, "compaction") => Has(s, "compaction"))
        BY <1>4 DEF s
  <1>6. CASE v = k /\ u.type = "compaction"
    <2>1. (th \/ u.type = "thought") = th
          BY <1>2, <1>3, <1>6
    <2>2. Neat(v, th \/ u.type = "thought")
          BY <1>4, <1>6, <2>1
    <2> QED
        BY <1>5, <1>6, <2>2 DEF s, th
  <1>7. CASE /\ ~(u.type = "compaction" /\ seen) /\ ~(u.type = "thought" /\ ~th)
             /\ v = Append(k, u)
    <2>1. u.type \in Single => ~Has(k, u.type)
      <3>1. u.type \in Single => u.type \in {"progress", "compaction"}
            BY <1>2 DEF Single
      <3>2. u.type = "compaction" => ~Has(s, "compaction")
            BY <1>7 DEF s
      <3> QED
          BY <1>1, <1>5, <3>1, <3>2
    <2>2. /\ Neat(v, th \/ u.type = "thinking_start")
          /\ \A type : Has(v, type) <=> Has(k, type) \/ u.type = type
          BY <1>2, <1>3, <1>4, <1>5, <1>7, <2>1, NeatAppend
    <2>3. v \in Seq(Events)
          BY <1>7, AppendProperties
    <2>4. (th \/ u.type = "thinking_start") = (th \/ u.type = "thought")
          BY <1>2, <1>3, <1>7
    <2>5. Neat(v, th \/ u.type = "thought")
          BY <2>2, <2>4
    <2> QED
        BY <1>2, <1>5, <1>7, <2>2, <2>3, <2>5 DEF s, th
  <1>8. CASE /\ u.type = "thought" /\ ~th
             /\ v \in {Append(k, start), Append(Append(k, start), u)}
    <2> DEFINE w == Append(k, start)
    <2>1. ~Has(k, "thinking_start")
          BY <1>4, <1>5, <1>8 DEF Neat
    <2>2. /\ Neat(w, th \/ start.type = "thinking_start")
          /\ \A type : Has(w, type) <=> Has(k, type) \/ start.type = type
          BY <1>2, <1>3, <1>4, <1>5, <2>1, NeatAppend
    <2>3. w \in Seq(Events)
          BY <1>2, AppendProperties
    <2>4. Neat(w, TRUE) /\ ~Has(w, "thinking_end") /\ (Has(w, "compaction") => Has(s, "compaction"))
      <3>1. th \/ start.type = "thinking_start"
            BY <1>2
      <3>2. (th \/ start.type = "thinking_start") = TRUE
            BY <3>1
      <3> QED
          BY <1>2, <1>5, <2>2, <3>2
    <2> HIDE DEF w
    <2>5. /\ Neat(Append(w, u), TRUE \/ u.type = "thinking_start")
          /\ \A type : Has(Append(w, u), type) <=> Has(w, type) \/ u.type = type
          BY <1>2, <1>8, <2>3, <2>4, NeatAppend
    <2>6. Append(w, u) \in Seq(Events)
          BY <2>3, AppendProperties
    <2>7. (TRUE \/ u.type = "thinking_start") = TRUE /\ (thinking[r] \/ u.type = "thought") = TRUE
          BY <1>8
    <2>8. v = w \/ v = Append(w, u)
          BY <1>8 DEF w
    <2> QED
        BY <1>2, <1>8, <2>3, <2>4, <2>5, <2>6, <2>7, <2>8 DEF s
  <1> QED
      BY <1>1, <1>6, <1>7, <1>8

\* The lists of the runs stay neat, at every step.
LEMMA ListStep ==
    StreamType /\ EventType /\ RestType /\ RunInv /\ ListInv /\ [Next]_vars
        => EventType' /\ ListInv'
  <1> SUFFICES ASSUME StreamType, EventType, RestType, RunInv, ListInv, [Next]_vars
               PROVE  EventType' /\ ListInv'
      OBVIOUS
  <1> DEFINE Good(r) ==
                /\ Neat(events[r], thinking[r])
                /\ phase[r] = "idle" => events[r] = <<>>
                /\ phase[r] = "returned" => ~thinking[r]
                /\ r \in handlers => ~Has(events[r], "thinking_end")
                /\ Has(events[r], "compaction") => seen
  <1>1. \A r \in Runs : Good(r)
        BY DEF ListInv
  <1>2. ASSUME NEW r \in Runs, Start(r) \/ StartRaises(r) \/ Fail(r) \/ Cancelled(r)
        PROVE  EventType' /\ ListInv'
    <2>1. PICK p : Adds(r, p, FALSE)
          BY <1>2, OwnEffect
    <2>2. /\ events' \in [Runs -> Seq(Events)]
          /\ \A q \in Runs \ {r} : events'[q] = events[q] /\ thinking'[q] = thinking[q]
          /\ thinking'[r] <=> thinking[r]
          /\ Neat(events'[r], thinking'[r])
          /\ \A type \in Single : Has(events'[r], type) <=> Has(events[r], type)
          BY <1>1, <2>1, AddsEffect
    <2>3. /\ seen' = seen /\ \A q \in Runs \ {r} : phase'[q] = phase[q]
          /\ phase'[r] \notin {"idle", "returned"}
          /\ handlers' \subseteq handlers \cup {r}
          /\ r \in handlers' => r \in handlers \/ phase[r] = "idle"
          BY <1>2, <2>1 DEF Adds, Start, StartRaises, Fail, Cancelled, Leave, RestType
    <2>4. ~Has(<<>>, "thinking_end")
          BY DEF Has
    <2>5. Good(r)'
      <3>1. r \in handlers' => ~Has(events[r], "thinking_end")
            BY <1>1, <2>3, <2>4
      <3> QED
          BY <1>1, <2>2, <2>3, <3>1 DEF Single
    <2>6. \A q \in Runs \ {r} : Good(q)'
          BY <1>1, <2>2, <2>3
    <2>7. \A q \in Runs : Has(events'[q], "compaction") <=> Has(events[q], "compaction")
          BY <2>2 DEF Single
    <2> QED
        BY <2>2, <2>5, <2>6, <2>7 DEF EventType, ListInv
  <1>3. ASSUME NEW r \in Runs, Return(r) \/ ReturnRaises(r) PROVE EventType' /\ ListInv'
    <2>1. PICK p : Adds(r, p, thinking[r])
          BY <1>3, ReturnEffect
    <2>2. /\ events' \in [Runs -> Seq(Events)]
          /\ \A q \in Runs \ {r} : events'[q] = events[q] /\ thinking'[q] = thinking[q]
          /\ ~thinking'[r]
          /\ Neat(events'[r], thinking'[r])
          /\ Has(events'[r], "compaction") <=> Has(events[r], "compaction")
      <3>1. thinking[r] \in BOOLEAN
            BY DEF RestType
      <3> QED
          BY <1>1, <2>1, <3>1, AddsEffect DEF Single
    <2>3. /\ seen' = seen /\ \A q \in Runs \ {r} : phase'[q] = phase[q]
          /\ phase'[r] # "idle" /\ handlers' = handlers \ {r}
          BY <1>3, <2>1 DEF Adds, Return, ReturnRaises, Leave, RestType
    <2>4. Good(r)'
          BY <1>1, <2>2, <2>3
    <2>5. \A q \in Runs \ {r} : Good(q)'
          BY <1>1, <2>2, <2>3
    <2>6. \A q \in Runs : Has(events'[q], "compaction") <=> Has(events[q], "compaction")
          BY <2>2
    <2> QED
        BY <2>2, <2>4, <2>5, <2>6 DEF EventType, ListInv
  <1>4. ASSUME Update \/ UpdateRaises PROVE EventType' /\ ListInv'
    <2> DEFINE u == Head(fromAgent)
    <2>1. u \in Events /\ u.type \in Kinds
          BY <1>4, HeadEvent DEF Update, UpdateRaises
    <2>2. Takes(u)
      <3>1. \A r \in Runs : \A i, j \in Snapshots(events[r]) : i = j
            BY <1>1 DEF Neat, Snapshots, Single
      <3> QED
          BY <1>4, <3>1, TakesEffect DEF RunInv
    <2>3. /\ DOMAIN events' = Runs /\ handlers' = handlers
          /\ \A r \in Runs : /\ phase'[r] = "idle" => phase[r] = "idle"
                             /\ phase'[r] = "returned" => phase[r] = "returned"
          BY <1>4 DEF Update, UpdateRaises, Rejected, EventType, RestType
    <2> HIDE DEF u
    <2>4. \A r \in Runs : thinking'[r] <=> thinking[r] \/ (r \in handlers /\ u.type = "thought")
          BY <2>2 DEF Takes, Note
    <2>5. seen' <=> seen \/ (handlers # {} /\ u.type = "compaction")
          BY <2>2 DEF Takes, Note
    <2>6. ASSUME NEW r \in handlers
          PROVE  /\ r \in Runs /\ events'[r] \in Seq(Events) /\ Good(r)'
                 /\ Has(events'[r], "compaction") =>
                       Has(events[r], "compaction") \/ (~seen /\ u.type = "compaction")
      <3>1. r \in Runs
            BY DEF RestType
      <3>2. /\ events'[r] \in Seq(Events)
            /\ Neat(events'[r], thinking[r] \/ u.type = "thought")
            /\ ~Has(events'[r], "thinking_end")
            /\ Has(events'[r], "compaction") =>
                  Has(events[r], "compaction") \/ (~seen /\ u.type = "compaction")
            BY <1>1, <2>1, <2>2, <3>1, CollectsEffect DEF Takes
      <3>3. thinking'[r] = (thinking[r] \/ u.type = "thought")
            BY <2>2, <3>1 DEF Takes, Note, RestType
      <3>4. Neat(events'[r], thinking'[r])
            BY <3>2, <3>3
      <3>5. phase[r] \notin {"idle", "returned"}
            BY DEF RunInv, InFlight
      <3> QED
          BY <1>1, <2>3, <2>5, <3>1, <3>2, <3>4, <3>5
    <2>7. ASSUME NEW r \in Runs \ handlers
          PROVE  events'[r] = events[r] /\ thinking'[r] = thinking[r] /\ Good(r)'
      <3>1. events'[r] = events[r]
            BY <2>2 DEF Takes
      <3>2. thinking'[r] = thinking[r]
            BY <2>2 DEF Takes, Note, RestType
      <3> QED
          BY <1>1, <2>3, <2>5, <3>1, <3>2
    <2>8. EventType'
      <3>1. \A r \in Runs : events'[r] \in Seq(Events)
            BY <2>6, <2>7 DEF EventType
      <3>2. events' = [r \in Runs |-> events'[r]]
            BY <1>4, <2>3 DEF Update, UpdateRaises, EventType
      <3> QED
          BY <3>1, <3>2 DEF EventType
    <2>9. ASSUME NEW q \in Runs, NEW r \in Runs,
                 Has(events'[q], "compaction"), Has(events'[r], "compaction")
          PROVE  q = r
      <3>1. CASE q \in handlers /\ r \in handlers
            BY <3>1 DEF RunInv
      <3>2. CASE q \in handlers /\ r \notin handlers
            BY <1>1, <2>6, <2>7, <2>9, <3>2 DEF ListInv
      <3>3. CASE q \notin handlers /\ r \in handlers
            BY <1>1, <2>6, <2>7, <2>9, <3>3 DEF ListInv
      <3>4. CASE q \notin handlers /\ r \notin handlers
            BY <2>7, <2>9, <3>4 DEF ListInv
      <3> QED
          BY <3>1, <3>2, <3>3, <3>4
    <2> QED
        BY <2>6, <2>7, <2>8, <2>9 DEF ListInv
  <1>5. ASSUME OtherSteps PROVE EventType' /\ ListInv'
    <2>1. events' = events /\ thinking' = thinking /\ seen' = seen
          BY <1>5, OtherEffect
    <2>2. /\ handlers' = handlers
          /\ \A r \in Runs : /\ phase'[r] = "idle" => phase[r] = "idle"
                             /\ phase'[r] = "returned" => phase[r] = "returned"
          BY <1>5 DEF OtherSteps, Cancel, AgentAnswers, AgentSends, Answered, AgentReads, Steer,
                      ConnectionEnds, Rejected, RestType, vars, runVars
    <2> QED
        BY <2>1, <2>2 DEF EventType, ListInv
  <1> QED
      BY <1>2, <1>3, <1>4, <1>5, StepCases

-----------------------------------------------------------------------------
(* The run in progress *)

\* The flag, the subscription and the phases stay in agreement.
LEMMA RunStep == RestType /\ RunInv /\ [Next]_vars => RunInv'
  <1> SUFFICES ASSUME RestType, RunInv, [Next]_vars PROVE RunInv'
      OBVIOUS
  <1> DEFINE Owned(r) == phase[r] \in InFlight \/ (phase[r] = "failed" /\ raises > 0)
  <1>1. /\ running <=> handlers # {}
        /\ \A q, r \in handlers : q = r
        /\ \A r \in handlers : Owned(r)
        /\ \A r \in Runs : phase[r] \in InFlight => r \in handlers
        BY DEF RunInv
  <1>2. raises \in Nat /\ handlers \subseteq Runs
        BY DEF RestType
  <1>3. ASSUME NEW r \in Runs, Start(r) PROVE RunInv'
    <2>1. handlers = {} /\ handlers' = {r} /\ running'
          BY <1>1, <1>3 DEF Start
    <2>2. phase'[r] \in InFlight /\ \A q \in Runs \ {r} : phase'[q] = phase[q]
          BY <1>3 DEF Start, RestType, InFlight
    <2> QED
        BY <1>1, <2>1, <2>2 DEF RunInv
  <1>4. ASSUME NEW r \in Runs, StartRaises(r) PROVE RunInv'
    <2>1. handlers = {} /\ handlers' = {r} /\ running'
          BY <1>1, <1>4 DEF StartRaises
    <2>2. phase'[r] = "failed" /\ \A q \in Runs \ {r} : phase'[q] = phase[q]
          BY <1>4 DEF StartRaises, RestType
    <2>3. raises' > 0
          BY <1>2, <1>4 DEF StartRaises, Raise
    <2>4. "failed" \notin InFlight
          BY DEF InFlight
    <2> QED
        BY <1>1, <2>1, <2>2, <2>3, <2>4 DEF RunInv
  <1>5. ASSUME NEW r \in Runs, Return(r) \/ ReturnRaises(r) \/ Fail(r) \/ Cancelled(r)
        PROVE  RunInv'
    <2>1. /\ handlers' = handlers \ {r} /\ ~running'
          /\ phase[r] \in InFlight /\ phase'[r] \notin InFlight
          /\ \A q \in Runs \ {r} : phase'[q] = phase[q]
          BY <1>5 DEF Return, ReturnRaises, Fail, Cancelled, Leave, RestType, InFlight
    <2>2. handlers' = {}
          BY <1>1, <2>1
    <2> QED
        BY <1>1, <2>1, <2>2 DEF RunInv
  <1>6. ASSUME /\ running' = running /\ handlers' = handlers /\ raises' >= raises
               /\ raises' \in Nat
               /\ \A q \in Runs : /\ phase[q] \in InFlight <=> phase'[q] \in InFlight
                                  /\ phase[q] = "failed" => phase'[q] = "failed"
        PROVE  RunInv'
    <2>1. raises > 0 => raises' > 0
          BY <1>2, <1>6
    <2> QED
        BY <1>1, <1>2, <1>6, <2>1 DEF RunInv
  <1>7. ASSUME Update \/ UpdateRaises \/ OtherSteps PROVE RunInv'
    <2>1. running' = running /\ handlers' = handlers
          BY <1>7
             DEF Update, UpdateRaises, OtherSteps, Cancel, AgentAnswers, AgentSends, Answered,
                      AgentReads, Steer, ConnectionEnds, vars, runVars
    <2>2. raises' = raises \/ raises' = raises + 1
          BY <1>7 DEF Update, UpdateRaises, Raise, OtherSteps, Cancel, AgentAnswers, AgentSends,
                      Answered, AgentReads, Steer, ConnectionEnds, vars, runVars
    <2>3. \A q \in Runs : /\ phase[q] \in InFlight <=> phase'[q] \in InFlight
                          /\ phase[q] = "failed" => phase'[q] = "failed"
          BY <1>7
             DEF Update, UpdateRaises, OtherSteps, Cancel, AgentAnswers, AgentSends, Answered,
                      AgentReads, Steer, ConnectionEnds, vars, runVars, Rejected, RestType, InFlight
    <2>4. raises' >= raises /\ raises' \in Nat
          BY <1>2, <2>2
    <2> QED
        BY <1>6, <2>1, <2>3, <2>4
  <1> QED
      BY <1>3, <1>4, <1>5, <1>7, StepCases

-----------------------------------------------------------------------------
(* The streams *)

Gone == {"cancelling", "cancelled", "failed"}

\* What is of the run t.
OnTheWay(t) ==
    \/ \E i \in DOMAIN toAgent : toAgent[i] = [type |-> "prompt", of |-> t]
    \/ rpc /\ \E i \in DOMAIN turns : turns[i] = t
    \/ \E i \in DOMAIN fromAgent : fromAgent[i].turn = t

\* The elements of the streams and the turns.
LEMMA StreamElements ==
    ASSUME StreamType
    PROVE  /\ DOMAIN toAgent = 1 .. Len(toAgent) /\ Len(toAgent) \in Nat
           /\ DOMAIN fromAgent = 1 .. Len(fromAgent) /\ Len(fromAgent) \in Nat
           /\ DOMAIN turns = 1 .. Len(turns) /\ Len(turns) \in Nat
           /\ \A i \in DOMAIN toAgent :
                 /\ toAgent[i] \in Down
                 /\ toAgent[i].type = "prompt" =>
                       /\ toAgent[i].of \in Runs
                       /\ toAgent[i] = [type |-> "prompt", of |-> toAgent[i].of]
                 /\ toAgent[i].type = "steer" => toAgent[i].of \in Steers
           /\ \A i \in DOMAIN fromAgent : fromAgent[i] \in Up /\ fromAgent[i].turn \in Runs
           /\ \A i \in DOMAIN turns : turns[i] \in Runs
  <1>1. /\ DOMAIN toAgent = 1 .. Len(toAgent) /\ Len(toAgent) \in Nat
        /\ DOMAIN fromAgent = 1 .. Len(fromAgent) /\ Len(fromAgent) \in Nat
        /\ DOMAIN turns = 1 .. Len(turns) /\ Len(turns) \in Nat
        BY LenProperties DEF StreamType
  <1>2. /\ \A i \in DOMAIN toAgent : toAgent[i] \in Down
        /\ \A i \in DOMAIN fromAgent : fromAgent[i] \in Up
        /\ \A i \in DOMAIN turns : turns[i] \in Runs
        BY <1>1, ElementOfSeq DEF StreamType
  <1>3. \A m \in Down : /\ m.type = "prompt" =>
                              m.of \in Runs /\ m = [type |-> "prompt", of |-> m.of]
                        /\ m.type = "steer" => m.of \in Steers
        BY DEF Down
  <1>4. \A m \in Up : m.turn \in Runs
        BY DEF Up
  <1> QED
      BY <1>1, <1>2, <1>3, <1>4

\* Where the elements that are left stood, and that their order is kept.
LEMMA PartIndex ==
    ASSUME NEW S, NEW s \in Seq(S), NEW t \in Seq(S), Part(t, s)
    PROVE  \E f \in [DOMAIN t -> DOMAIN s] :
              /\ \A i \in DOMAIN t : t[i] = s[f[i]]
              /\ \A i, j \in DOMAIN t : /\ i < j <=> f[i] < f[j]
                                        /\ i <= j <=> f[i] <= f[j]
                                        /\ f[i] = f[j] => i = j
  <1>1. PICK f \in [DOMAIN t -> DOMAIN s] :
            /\ \A i, j \in DOMAIN t : i < j => f[i] < f[j]
            /\ \A i \in DOMAIN t : t[i] = s[f[i]]
        BY DEF Part
  <1>2. DOMAIN s \subseteq Nat /\ DOMAIN t \subseteq Nat
        BY LenProperties
  <1>3. ASSUME NEW i \in DOMAIN t, NEW j \in DOMAIN t
        PROVE  /\ i < j <=> f[i] < f[j]
               /\ i <= j <=> f[i] <= f[j]
               /\ f[i] = f[j] => i = j
    <2>1. i \in Nat /\ j \in Nat /\ f[i] \in Nat /\ f[j] \in Nat
          BY <1>2
    <2>2. i < j => f[i] < f[j]
          BY <1>1
    <2>3. j < i => f[j] < f[i]
          BY <1>1
    <2> QED
        BY <2>1, <2>2, <2>3
  <1> QED
      BY <1>1, <1>3

\* Messages are taken and nothing is added.
LEMMA StreamShrinks ==
    ASSUME StreamType, StreamType', StreamInv, rpc' => rpc,
           ~rpc' => toAgent' = <<>> /\ fromAgent' = <<>>,
           Part(toAgent', toAgent), Part(fromAgent', fromAgent), turns' = turns,
           \A t \in Runs : phase[t] \in Sent => phase'[t] \in Sent \/ ~OnTheWay(t)'
    PROVE  StreamInv'
  <1>1. PICK f \in [DOMAIN toAgent' -> DOMAIN toAgent] :
            /\ \A i \in DOMAIN toAgent' : toAgent'[i] = toAgent[f[i]]
            /\ \A i, j \in DOMAIN toAgent' : /\ i < j <=> f[i] < f[j]
                                             /\ i <= j <=> f[i] <= f[j]
                                             /\ f[i] = f[j] => i = j
    <2>1. toAgent \in Seq(Down) /\ toAgent' \in Seq(Down)
          BY DEF StreamType
    <2> QED
        BY <2>1, PartIndex
  <1>2. PICK g \in [DOMAIN fromAgent' -> DOMAIN fromAgent] :
            /\ \A i \in DOMAIN fromAgent' : fromAgent'[i] = fromAgent[g[i]]
            /\ \A i, j \in DOMAIN fromAgent' : /\ i < j <=> g[i] < g[j]
                                               /\ i <= j <=> g[i] <= g[j]
                                               /\ g[i] = g[j] => i = j
    <2>1. fromAgent \in Seq(Up) /\ fromAgent' \in Seq(Up)
          BY DEF StreamType
    <2> QED
        BY <2>1, PartIndex
  <1>3. ASSUME NEW i \in DOMAIN toAgent', NEW j \in DOMAIN toAgent',
               toAgent'[i].type = "prompt", toAgent'[j] = toAgent'[i]
        PROVE  i = j
    <2>1. f[i] = f[j]
          BY <1>1, <1>3 DEF StreamInv
    <2> QED
        BY <1>1, <2>1
  <1>4. ASSUME NEW i \in DOMAIN toAgent', toAgent'[i].type = "prompt"
        PROVE  /\ phase'[toAgent'[i].of] \in Sent
               /\ \A k \in DOMAIN turns' : turns'[k] # toAgent'[i].of
               /\ \A k \in DOMAIN fromAgent' : fromAgent'[k].turn # toAgent'[i].of
    <2>1. /\ phase[toAgent'[i].of] \in Sent
          /\ \A k \in DOMAIN turns : turns[k] # toAgent'[i].of
          /\ \A k \in DOMAIN fromAgent : fromAgent[k].turn # toAgent'[i].of
          BY <1>1, <1>4 DEF StreamInv
    <2>2. toAgent[f[i]].of \in Runs
          /\ toAgent[f[i]] = [type |-> "prompt", of |-> toAgent[f[i]].of]
          BY <1>1, <1>4, StreamElements
    <2>3. \A t \in Runs : toAgent'[i] = [type |-> "prompt", of |-> t] => OnTheWay(t)'
          BY DEF OnTheWay
    <2>4. phase'[toAgent'[i].of] \in Sent
          BY <1>1, <2>1, <2>2, <2>3
    <2> QED
        BY <1>2, <2>1, <2>4
  <1>5. rpc' => \A i, j \in DOMAIN turns' : turns'[i] = turns'[j] => i = j
        BY DEF StreamInv
  <1>6. ASSUME rpc', NEW i \in DOMAIN turns'
        PROVE  /\ phase'[turns'[i]] \in Sent
               /\ \A k \in DOMAIN fromAgent' :
                     fromAgent'[k].turn = turns'[i] => fromAgent'[k].type # "answer"
    <2>1. /\ phase[turns[i]] \in Sent /\ turns[i] \in Runs
          /\ \A k \in DOMAIN fromAgent :
                fromAgent[k].turn = turns[i] => fromAgent[k].type # "answer"
          BY <1>6, StreamElements DEF StreamInv
    <2>2. \A t \in Runs : turns'[i] = t => OnTheWay(t)'
          BY <1>6 DEF OnTheWay
    <2> QED
        BY <1>2, <2>1, <2>2
  <1>7. ASSUME NEW k \in DOMAIN fromAgent' PROVE phase'[fromAgent'[k].turn] \in Sent
    <2>1. phase[fromAgent'[k].turn] \in Sent /\ fromAgent'[k].turn \in Runs
          BY <1>2, StreamElements DEF StreamInv
    <2>2. \A t \in Runs : fromAgent'[k].turn = t => OnTheWay(t)'
          BY DEF OnTheWay
    <2> QED
        BY <2>1, <2>2
  <1>8. ASSUME NEW k \in DOMAIN fromAgent', NEW l \in DOMAIN fromAgent',
               fromAgent'[k].type = "answer", fromAgent'[l].turn = fromAgent'[k].turn
        PROVE  l <= k
    <2>1. g[l] <= g[k]
          BY <1>2, <1>8 DEF StreamInv
    <2> QED
        BY <1>2, <2>1
  <1> QED
      BY <1>3, <1>4, <1>5, <1>6, <1>7, <1>8 DEF StreamInv

\* The answer is the last of its run.
LEMMA AnsweredIsLast ==
    ASSUME StreamType, StreamInv, Answered
    PROVE  /\ Head(fromAgent).turn \in Runs
           /\ \A t \in Runs : t = Head(fromAgent).turn => ~OnTheWay(t)'
  <1>1. /\ fromAgent # <<>> /\ fromAgent' = Tail(fromAgent) /\ Head(fromAgent).type = "answer"
        /\ rpc /\ UNCHANGED <<rpc, toAgent, turns>>
        BY DEF Answered, agentVars
  <1>2. /\ Head(fromAgent) = fromAgent[1] /\ 1 \in DOMAIN fromAgent
        /\ \A i \in DOMAIN fromAgent' :
              i + 1 \in DOMAIN fromAgent /\ fromAgent'[i] = fromAgent[i + 1] /\ ~(i + 1 <= 1)
    <2>1. /\ Len(fromAgent) \in Nat \ {0} /\ DOMAIN fromAgent = 1 .. Len(fromAgent)
          /\ Head(fromAgent) = fromAgent[1]
          /\ DOMAIN fromAgent' = 1 .. Len(fromAgent) - 1
          /\ \A i \in DOMAIN fromAgent' : fromAgent'[i] = fromAgent[i + 1]
          BY <1>1, PartTail DEF StreamType
    <2> QED
        BY <2>1
  <1>3. Head(fromAgent).turn \in Runs
        BY <1>2, StreamElements
  <1>4. ASSUME NEW t \in Runs, t = Head(fromAgent).turn PROVE ~OnTheWay(t)'
    <2>1. \A i \in DOMAIN toAgent' : toAgent'[i] # [type |-> "prompt", of |-> t]
          BY <1>1, <1>2, <1>4 DEF StreamInv
    <2>2. \A i \in DOMAIN turns' : turns'[i] # t
          BY <1>1, <1>2, <1>4 DEF StreamInv
    <2>3. \A i \in DOMAIN fromAgent' : fromAgent'[i].turn # t
          BY <1>1, <1>2, <1>4 DEF StreamInv
    <2> QED
        BY <2>1, <2>2, <2>3 DEF OnTheWay
  <1> QED
      BY <1>3, <1>4

\* The steps that take messages, or none.
LEMMA ShrinkingSteps ==
    ASSUME StreamType, StreamType', RestType, StreamInv,
           \/ \E r \in Runs : \/ StartRaises(r) \/ Return(r) \/ ReturnRaises(r) \/ Fail(r)
                              \/ Cancel(r) \/ (~rpc /\ (Start(r) \/ Cancelled(r)))
           \/ Update \/ UpdateRaises \/ Answered \/ UNCHANGED vars
           \/ \E b \in BOOLEAN : ConnectionEnds(b)
    PROVE  StreamInv'
  <1>1. /\ Part(toAgent, toAgent) /\ Part(fromAgent, fromAgent)
        /\ Part(<<>>, toAgent) /\ Part(<<>>, fromAgent)
        BY PartSelf, PartEmpty DEF StreamType
  <1>2. ~rpc => toAgent = <<>> /\ fromAgent = <<>>
        BY DEF StreamInv
  <1>3. ASSUME NEW r \in Runs,
               \/ StartRaises(r) \/ Return(r) \/ ReturnRaises(r) \/ Fail(r)
               \/ ~rpc /\ (Start(r) \/ Cancelled(r))
        PROVE  StreamInv'
    <2>1. UNCHANGED <<rpc, toAgent, fromAgent, turns>>
          BY <1>3 DEF StartRaises, Return, ReturnRaises, Fail, Start, Cancelled, agentVars
    <2>2. \A t \in Runs : phase[t] \in Sent => phase'[t] \in Sent
          BY <1>3
             DEF StartRaises, Return, ReturnRaises, Fail, Start, Cancelled, Leave, Sent,
                 RestType
    <2> QED
        BY <1>1, <1>2, <2>1, <2>2, StreamShrinks
  <1>4. ASSUME NEW r \in Runs, Cancel(r) PROVE StreamInv'
    <2>1. UNCHANGED <<rpc, fromAgent, turns>>
          BY <1>4 DEF Cancel, agentVars
    <2>2. \A t \in Runs : phase[t] \in Sent => phase'[t] \in Sent
          BY <1>4 DEF Cancel, Sent, RestType
    <2>3. Part(toAgent', toAgent)
      <3>1. toAgent' = toAgent \/ \E i \in DOMAIN toAgent : toAgent' = RemoveAt(toAgent, i)
            BY <1>4 DEF Cancel
      <3> QED
          BY <1>1, <3>1, PartRemove DEF StreamType
    <2>4. toAgent = <<>> => toAgent' = <<>>
          BY <1>4 DEF Cancel
    <2> QED
        BY <1>1, <1>2, <2>1, <2>2, <2>3, <2>4, StreamShrinks
  <1>5. ASSUME Update PROVE StreamInv'
    <2>1. UNCHANGED <<rpc, toAgent, turns, phase>> /\ rpc /\ fromAgent' = Tail(fromAgent)
          /\ fromAgent # <<>>
          BY <1>5 DEF Update, agentVars
    <2>2. Part(fromAgent', fromAgent)
          BY <2>1, PartTail DEF StreamType
    <2> QED
        BY <1>1, <2>1, <2>2, StreamShrinks
  <1>6. ASSUME UpdateRaises \/ \E b \in BOOLEAN : ConnectionEnds(b) PROVE StreamInv'
    <2>1. ~rpc' /\ toAgent' = <<>> /\ fromAgent' = <<>> /\ turns' = turns
          BY <1>6 DEF UpdateRaises, ConnectionEnds, agentVars
    <2>2. \A t \in Runs : ~OnTheWay(t)'
          BY <2>1 DEF OnTheWay
    <2> QED
        BY <1>1, <2>1, <2>2, StreamShrinks
  <1>7. ASSUME Answered PROVE StreamInv'
    <2> DEFINE q == Head(fromAgent).turn
    <2>1. UNCHANGED <<rpc, toAgent, turns>> /\ rpc /\ fromAgent' = Tail(fromAgent)
          /\ fromAgent # <<>>
          BY <1>7 DEF Answered, agentVars
    <2>2. Part(fromAgent', fromAgent)
          BY <2>1, PartTail DEF StreamType
    <2>3. \A t \in Runs : (t = q => ~OnTheWay(t)') /\ (t # q => phase'[t] = phase[t])
      <3>1. q \in Runs /\ \A t \in Runs \ {q} : phase'[t] = phase[t]
            BY <1>7, AnsweredIsLast DEF Answered, RestType
      <3> QED
          BY <1>7, <3>1, AnsweredIsLast
    <2> QED
        BY <1>1, <2>1, <2>2, <2>3, StreamShrinks
  <1>8. ASSUME UNCHANGED vars PROVE StreamInv'
        BY <1>8 DEF vars, runVars, agentVars, StreamInv
  <1> QED
      BY <1>3, <1>4, <1>5, <1>6, <1>7, <1>8

\* A message that is no prompt is put at the end.
LEMMA MessageAdded ==
    ASSUME StreamType, StreamInv, rpc, NEW m \in Down, m.type # "prompt",
           toAgent' = Append(toAgent, m), UNCHANGED <<rpc, fromAgent, turns>>,
           \A t \in Runs : phase[t] \in Sent => phase'[t] \in Sent
    PROVE  StreamInv'
  <1>1. /\ DOMAIN toAgent = 1 .. Len(toAgent) /\ DOMAIN toAgent' = 1 .. Len(toAgent) + 1
        /\ \A i \in DOMAIN toAgent : toAgent'[i] = toAgent[i]
        /\ toAgent'[Len(toAgent) + 1] = m /\ Len(toAgent) \in Nat
        BY AppendEffect DEF StreamType
  <1>2. \A i \in DOMAIN toAgent' : toAgent'[i].type = "prompt" =>
            i \in DOMAIN toAgent /\ toAgent'[i] = toAgent[i] /\ toAgent[i].of \in Runs
    <2>1. \A i \in DOMAIN toAgent' : i \in DOMAIN toAgent \/ i = Len(toAgent) + 1
          BY <1>1
    <2> QED
        BY <1>1, <2>1, StreamElements
  <1>3. \A i, j \in DOMAIN toAgent' :
           (toAgent'[i].type = "prompt" /\ toAgent'[j] = toAgent'[i]) => i = j
        BY <1>2 DEF StreamInv
  <1>4. \A i \in DOMAIN toAgent' : toAgent'[i].type = "prompt" =>
           /\ phase'[toAgent'[i].of] \in Sent
           /\ \A k \in DOMAIN turns' : turns'[k] # toAgent'[i].of
           /\ \A k \in DOMAIN fromAgent' : fromAgent'[k].turn # toAgent'[i].of
        BY <1>2 DEF StreamInv
  <1>5. \A i \in DOMAIN turns' : phase'[turns'[i]] \in Sent
        BY StreamElements DEF StreamInv
  <1>6. \A k \in DOMAIN fromAgent' : phase'[fromAgent'[k].turn] \in Sent
        BY StreamElements DEF StreamInv
  <1> QED
      BY <1>3, <1>4, <1>5, <1>6 DEF StreamInv

\* A prompt is sent, by a run that has not been under way before.
LEMMA PromptAdded ==
    ASSUME StreamType, RestType, StreamInv, NEW r \in Runs, Start(r), rpc
    PROVE  StreamInv'
  <1> DEFINE m == [type |-> "prompt", of |-> r]
  <1>1. /\ m \in Down /\ m.type = "prompt" /\ m.of = r
        /\ \A q \in Runs : m = [type |-> "prompt", of |-> q] => q = r
    <2>1. \A q \in Runs : m = [type |-> "prompt", of |-> q] => m.of = q
          OBVIOUS
    <2> QED
        BY <2>1 DEF Down
  <1>2. /\ toAgent' = Append(toAgent, m) /\ UNCHANGED <<rpc, fromAgent, turns>>
        /\ phase[r] = "idle" /\ phase' = [phase EXCEPT ![r] = "prompting"]
        BY DEF Start, agentVars
  <1> HIDE DEF m
  <1>3. /\ phase'[r] \in Sent /\ phase[r] \notin Sent
        /\ \A t \in Runs : phase[t] \in Sent => phase'[t] \in Sent
        BY <1>2 DEF RestType, Sent
  <1>4. /\ DOMAIN toAgent = 1 .. Len(toAgent) /\ DOMAIN toAgent' = 1 .. Len(toAgent) + 1
        /\ \A i \in DOMAIN toAgent : toAgent'[i] = toAgent[i]
        /\ toAgent'[Len(toAgent) + 1] = m /\ Len(toAgent) \in Nat
        BY <1>1, <1>2, AppendEffect DEF StreamType
  <1> DEFINE z == Len(toAgent) + 1
  <1>5. /\ \A i \in DOMAIN toAgent' : i \in DOMAIN toAgent \/ i = z
        /\ toAgent'[z] = m
        BY <1>4
  <1> HIDE DEF z
  <1>6. /\ \A i \in DOMAIN toAgent : toAgent[i] # m
        /\ \A i \in DOMAIN turns : turns[i] # r
        /\ \A i \in DOMAIN fromAgent : fromAgent[i].turn # r
        BY <1>1, <1>3 DEF StreamInv
  <1>7. \A i, j \in DOMAIN toAgent' :
           (toAgent'[i].type = "prompt" /\ toAgent'[j] = toAgent'[i]) => i = j
        BY <1>4, <1>5, <1>6 DEF StreamInv
  <1>8. ASSUME NEW i \in DOMAIN toAgent', toAgent'[i].type = "prompt"
        PROVE  /\ phase'[toAgent'[i].of] \in Sent
               /\ \A k \in DOMAIN turns' : turns'[k] # toAgent'[i].of
               /\ \A k \in DOMAIN fromAgent' : fromAgent'[k].turn # toAgent'[i].of
    <2>1. CASE i \in DOMAIN toAgent
          BY <1>2, <1>3, <1>4, <1>8, <2>1, StreamElements DEF StreamInv
    <2>2. CASE i = z
          BY <1>1, <1>2, <1>3, <1>5, <1>6, <2>2
    <2> QED
        BY <1>5, <2>1, <2>2
  <1>9. \A i \in DOMAIN turns' : phase'[turns'[i]] \in Sent
        BY <1>2, <1>3, StreamElements DEF StreamInv
  <1>10. \A k \in DOMAIN fromAgent' : phase'[fromAgent'[k].turn] \in Sent
         BY <1>2, <1>3, StreamElements DEF StreamInv
  <1> QED
      BY <1>2, <1>7, <1>8, <1>9, <1>10 DEF StreamInv

\* The agent reads a message; a prompt becomes a turn.
LEMMA PromptRead ==
    ASSUME StreamType, StreamType', StreamInv, AgentReads
    PROVE  StreamInv'
  <1> DEFINE m == Head(toAgent)
  <1>1. /\ toAgent # <<>> /\ toAgent' = Tail(toAgent) /\ rpc
        /\ UNCHANGED <<rpc, fromAgent, phase>>
        BY DEF AgentReads, runVars
  <1>2. Part(toAgent', toAgent) /\ Part(fromAgent', fromAgent)
        BY <1>1, PartTail, PartSelf DEF StreamType
  <1>3. CASE m.type # "prompt"
    <2>1. turns' = turns
          BY <1>3 DEF AgentReads
    <2> QED
        BY <1>1, <1>2, <2>1, StreamShrinks
  <1>4. CASE m.type = "prompt"
    <2> DEFINE r == m.of
    <2>1. turns' = Append(turns, r)
          BY <1>4 DEF AgentReads
    <2>2. /\ m = toAgent[1] /\ 1 \in DOMAIN toAgent
          /\ \A i \in DOMAIN toAgent' :
                i + 1 \in DOMAIN toAgent /\ toAgent'[i] = toAgent[i + 1] /\ i + 1 # 1
          /\ \A i, j \in DOMAIN toAgent' : i + 1 = j + 1 => i = j
      <3>1. /\ Len(toAgent) \in Nat \ {0} /\ DOMAIN toAgent = 1 .. Len(toAgent)
            /\ Head(toAgent) = toAgent[1]
            /\ DOMAIN toAgent' = 1 .. Len(toAgent) - 1
            /\ \A i \in DOMAIN toAgent' : toAgent'[i] = toAgent[i + 1]
            BY <1>1, PartTail DEF StreamType
      <3> QED
          BY <3>1
    <2>3. r \in Runs /\ m = [type |-> "prompt", of |-> r]
          BY <1>4, <2>2, StreamElements
    <2>4. /\ phase[r] \in Sent
          /\ \A k \in DOMAIN turns : turns[k] # r
          /\ \A k \in DOMAIN fromAgent : fromAgent[k].turn # r
          BY <1>4, <2>2 DEF StreamInv
    <2>5. \A i \in DOMAIN toAgent' : toAgent'[i].type = "prompt" => toAgent'[i].of # r
      <3>1. \A i \in DOMAIN toAgent' : toAgent'[i] # m
            BY <1>4, <2>2 DEF StreamInv
      <3>2. \A i \in DOMAIN toAgent' : toAgent'[i].type = "prompt" =>
               toAgent'[i] = [type |-> "prompt", of |-> toAgent'[i].of]
            BY <2>2, StreamElements
      <3> QED
          BY <2>3, <3>1, <3>2
    <2> HIDE DEF r, m
    <2>6. /\ DOMAIN turns = 1 .. Len(turns) /\ DOMAIN turns' = 1 .. Len(turns) + 1
          /\ \A i \in DOMAIN turns : turns'[i] = turns[i]
          /\ turns'[Len(turns) + 1] = r /\ Len(turns) \in Nat
          BY <2>1, <2>3, AppendEffect DEF StreamType
    <2> DEFINE z == Len(turns) + 1
    <2>7. /\ \A i \in DOMAIN turns' : i \in DOMAIN turns \/ i = z
          /\ turns'[z] = r
          BY <2>6
    <2> HIDE DEF z
    <2>8. \A i, j \in DOMAIN toAgent' :
             (toAgent'[i].type = "prompt" /\ toAgent'[j] = toAgent'[i]) => i = j
          BY <2>2 DEF StreamInv
    <2>9. ASSUME NEW i \in DOMAIN toAgent', toAgent'[i].type = "prompt"
          PROVE  /\ phase'[toAgent'[i].of] \in Sent
                 /\ \A k \in DOMAIN turns' : turns'[k] # toAgent'[i].of
                 /\ \A k \in DOMAIN fromAgent' : fromAgent'[k].turn # toAgent'[i].of
      <3>1. /\ phase[toAgent'[i].of] \in Sent
            /\ \A k \in DOMAIN turns : turns[k] # toAgent'[i].of
            /\ \A k \in DOMAIN fromAgent : fromAgent[k].turn # toAgent'[i].of
            BY <2>2, <2>9 DEF StreamInv
      <3>2. toAgent'[i].of # r
            BY <2>5, <2>9
      <3> QED
          BY <1>1, <2>6, <2>7, <3>1, <3>2
    <2>10. \A i, j \in DOMAIN turns' : turns'[i] = turns'[j] => i = j
           BY <1>1, <2>4, <2>6, <2>7 DEF StreamInv
    <2>11. \A i \in DOMAIN turns' :
              /\ phase'[turns'[i]] \in Sent
              /\ \A k \in DOMAIN fromAgent' :
                    fromAgent'[k].turn = turns'[i] => fromAgent'[k].type # "answer"
           BY <1>1, <2>4, <2>6, <2>7 DEF StreamInv
    <2> QED
        BY <1>1, <2>8, <2>9, <2>10, <2>11 DEF StreamInv
  <1> QED
      BY <1>3, <1>4

\* The agent sends an update of a turn that it has.
LEMMA UpdateSent ==
    ASSUME StreamType, StreamInv, NEW r \in Runs, NEW kind \in Kinds, AgentSends(r, kind)
    PROVE  StreamInv'
  <1> DEFINE u == [type |-> kind, turn |-> r, n |-> Len(log) + 1]
  <1>1. /\ u \in Up /\ fromAgent' = Append(fromAgent, u) /\ u.turn = r /\ u.type # "answer"
        /\ rpc /\ UNCHANGED <<rpc, toAgent, turns, phase>>
        /\ \E i \in DOMAIN turns : turns[i] = r
    <2>1. /\ u \in Up /\ fromAgent' = Append(fromAgent, u) /\ rpc
          /\ \E i \in DOMAIN turns : turns[i] = r
          BY SendsEffect
    <2>2. u.turn = r /\ u.type # "answer"
          BY SessionAssumption
    <2> QED
        BY <2>1, <2>2 DEF AgentSends, runVars
  <1> HIDE DEF u
  <1>2. /\ DOMAIN fromAgent = 1 .. Len(fromAgent) /\ DOMAIN fromAgent' = 1 .. Len(fromAgent) + 1
        /\ \A i \in DOMAIN fromAgent : fromAgent'[i] = fromAgent[i]
        /\ fromAgent'[Len(fromAgent) + 1] = u /\ Len(fromAgent) \in Nat
        BY <1>1, AppendEffect DEF StreamType
  <1> DEFINE z == Len(fromAgent) + 1
  <1>3. /\ \A i \in DOMAIN fromAgent' : i \in DOMAIN fromAgent \/ i = z
        /\ fromAgent'[z] = u
        BY <1>2
  <1> HIDE DEF z
  <1>4. /\ phase[r] \in Sent
        /\ \A k \in DOMAIN fromAgent : fromAgent[k].turn = r => fromAgent[k].type # "answer"
        /\ \A i \in DOMAIN toAgent : toAgent[i].type = "prompt" => toAgent[i].of # r
        BY <1>1 DEF StreamInv
  <1>5. \A i \in DOMAIN toAgent' : toAgent'[i].type = "prompt" =>
           /\ phase'[toAgent'[i].of] \in Sent
           /\ \A k \in DOMAIN turns' : turns'[k] # toAgent'[i].of
           /\ \A k \in DOMAIN fromAgent' : fromAgent'[k].turn # toAgent'[i].of
        BY <1>1, <1>2, <1>3, <1>4 DEF StreamInv
  <1>6. \A i \in DOMAIN turns' :
           /\ phase'[turns'[i]] \in Sent
           /\ \A k \in DOMAIN fromAgent' :
                 fromAgent'[k].turn = turns'[i] => fromAgent'[k].type # "answer"
        BY <1>1, <1>2, <1>3 DEF StreamInv
  <1>7. \A k \in DOMAIN fromAgent' : phase'[fromAgent'[k].turn] \in Sent
        BY <1>1, <1>2, <1>3, <1>4 DEF StreamInv
  <1>8. \A k, l \in DOMAIN fromAgent' :
           (fromAgent'[k].type = "answer" /\ fromAgent'[l].turn = fromAgent'[k].turn) => l <= k
        BY <1>1, <1>2, <1>3, <1>4 DEF StreamInv
  <1> QED
      BY <1>1, <1>5, <1>6, <1>7, <1>8 DEF StreamInv

\* The agent answers, which ends the turn.
LEMMA AnswerSent ==
    ASSUME StreamType, StreamInv, NEW r \in Runs, AgentAnswers(r)
    PROVE  StreamInv'
  <1> DEFINE u == [type |-> "answer", turn |-> r, n |-> 0]
  <1>1. u \in Up /\ u.turn = r /\ u.type = "answer"
        BY SessionAssumption DEF Up
  <1>2. /\ fromAgent' = Append(fromAgent, u) /\ rpc /\ UNCHANGED <<rpc, toAgent, phase>>
        BY DEF AgentAnswers, runVars
  <1> HIDE DEF u
  <1>3. PICK m \in DOMAIN turns : turns[m] = r /\ turns' = RemoveAt(turns, m)
        BY DEF AgentAnswers
  <1>4. /\ turns' \in Seq(Runs) /\ Part(turns', turns)
        /\ \A j \in DOMAIN turns' : \E i \in DOMAIN turns : i # m /\ turns'[j] = turns[i]
        BY <1>3, PartRemove DEF StreamType
  <1>5. PICK f \in [DOMAIN turns' -> DOMAIN turns] :
           /\ \A i \in DOMAIN turns' : turns'[i] = turns[f[i]]
           /\ \A i, j \in DOMAIN turns' : f[i] = f[j] => i = j
    <2>1. turns \in Seq(Runs)
          BY DEF StreamType
    <2> QED
        BY <1>4, <2>1, PartIndex
  <1>6. \A j \in DOMAIN turns' : turns'[j] # r
        BY <1>2, <1>3, <1>4 DEF StreamInv
  <1>7. /\ DOMAIN fromAgent = 1 .. Len(fromAgent) /\ DOMAIN fromAgent' = 1 .. Len(fromAgent) + 1
        /\ \A i \in DOMAIN fromAgent : fromAgent'[i] = fromAgent[i]
        /\ fromAgent'[Len(fromAgent) + 1] = u /\ Len(fromAgent) \in Nat
        BY <1>1, <1>2, AppendEffect DEF StreamType
  <1> DEFINE z == Len(fromAgent) + 1
  <1>8. /\ \A i \in DOMAIN fromAgent' : (i \in DOMAIN fromAgent \/ i = z) /\ i <= z
        /\ fromAgent'[z] = u
        BY <1>7
  <1> HIDE DEF z
  <1>9. /\ phase[r] \in Sent
        /\ \A k \in DOMAIN fromAgent : fromAgent[k].turn = r => fromAgent[k].type # "answer"
        /\ \A i \in DOMAIN toAgent : toAgent[i].type = "prompt" => toAgent[i].of # r
        BY <1>2, <1>3 DEF StreamInv
  <1>10. \A i \in DOMAIN toAgent' : toAgent'[i].type = "prompt" =>
            /\ phase'[toAgent'[i].of] \in Sent
            /\ \A k \in DOMAIN turns' : turns'[k] # toAgent'[i].of
            /\ \A k \in DOMAIN fromAgent' : fromAgent'[k].turn # toAgent'[i].of
         BY <1>1, <1>2, <1>5, <1>7, <1>8, <1>9 DEF StreamInv
  <1>11. \A i, j \in DOMAIN turns' : turns'[i] = turns'[j] => i = j
         BY <1>2, <1>5 DEF StreamInv
  <1>12. \A i \in DOMAIN turns' :
            /\ phase'[turns'[i]] \in Sent
            /\ \A k \in DOMAIN fromAgent' :
                  fromAgent'[k].turn = turns'[i] => fromAgent'[k].type # "answer"
         BY <1>1, <1>2, <1>5, <1>6, <1>7, <1>8 DEF StreamInv
  <1>13. \A k \in DOMAIN fromAgent' : phase'[fromAgent'[k].turn] \in Sent
         BY <1>1, <1>2, <1>7, <1>8, <1>9 DEF StreamInv
  <1>14. \A k, l \in DOMAIN fromAgent' :
            (fromAgent'[k].type = "answer" /\ fromAgent'[l].turn = fromAgent'[k].turn) => l <= k
         BY <1>1, <1>2, <1>7, <1>8, <1>9 DEF StreamInv
  <1> QED
      BY <1>2, <1>10, <1>11, <1>12, <1>13, <1>14 DEF StreamInv

\* Prompts, turns, updates and answers follow each other, at every step.
LEMMA StreamStep == StreamType /\ RestType /\ StreamInv /\ [Next]_vars => StreamInv'
  <1> SUFFICES ASSUME StreamType, RestType, StreamInv, [Next]_vars PROVE StreamInv'
      OBVIOUS
  <1>1. StreamType'
        BY StreamStepType
  <1>2. ASSUME NEW r \in Runs, Cancelled(r), rpc PROVE StreamInv'
    <2> DEFINE m == [type |-> "cancel", of |-> r]
    <2>1. m \in Down /\ m.type # "prompt"
          BY DEF Down
    <2>2. toAgent' = Append(toAgent, m) /\ UNCHANGED <<rpc, fromAgent, turns>>
          BY <1>2 DEF Cancelled, agentVars
    <2>3. \A t \in Runs : phase[t] \in Sent => phase'[t] \in Sent
          BY <1>2 DEF Cancelled, Leave, Sent, RestType
    <2> QED
        BY <1>2, <2>1, <2>2, <2>3, MessageAdded
  <1>3. ASSUME NEW s \in Steers, Steer(s) PROVE StreamInv'
    <2> DEFINE m == [type |-> "steer", of |-> s]
    <2>1. m \in Down /\ m.type # "prompt"
          BY DEF Down
    <2>2. toAgent' = Append(toAgent, m) /\ UNCHANGED <<rpc, fromAgent, turns, phase>> /\ rpc
          BY <1>3 DEF Steer, agentVars, runVars
    <2> QED
        BY <2>1, <2>2, MessageAdded
  <1>4. ASSUME NEW r \in Runs PROVE Start(r) \/ Cancelled(r) \/ AgentAnswers(r) => StreamInv'
        BY <1>1, <1>2, PromptAdded, AnswerSent, ShrinkingSteps
  <1>5. ASSUME NEW r \in Runs, NEW kind \in Kinds PROVE AgentSends(r, kind) => StreamInv'
        BY UpdateSent
  <1>6. AgentReads => StreamInv'
        BY <1>1, PromptRead
  <1> QED
      BY <1>1, <1>3, <1>4, <1>5, <1>6, ShrinkingSteps DEF Next

-----------------------------------------------------------------------------
(* Steering *)

\* What steering relies on: where a waiting message is, and whom it was meant for.
LEMMA SteerShrinks ==
    ASSUME StreamType, StreamType', SteerInv,
           Part(toAgent', toAgent), turns' = turns,
           \A s \in Steers : /\ steer'[s].run = steer[s].run /\ steer'[s].turn = steer[s].turn
                             /\ steer[s].at # "idle" => steer'[s].at # "idle",
           \A t \in Runs : /\ phase'[t] = "prompting" => phase[t] = "prompting"
                           /\ phase[t] \in Gone => phase'[t] \in Gone,
           RestType
    PROVE  SteerInv'
  <1>1. PICK f \in [DOMAIN toAgent' -> DOMAIN toAgent] :
            /\ \A i \in DOMAIN toAgent' : toAgent'[i] = toAgent[f[i]]
            /\ \A i, j \in DOMAIN toAgent' : /\ i < j <=> f[i] < f[j]
                                             /\ i <= j <=> f[i] <= f[j]
                                             /\ f[i] = f[j] => i = j
    <2>1. toAgent \in Seq(Down) /\ toAgent' \in Seq(Down) /\ Part(toAgent', toAgent)
          BY DEF StreamType
    <2>2. \A s, t \in Seq(Down) : Part(t, s) => \E f \in [DOMAIN t -> DOMAIN s] :
              /\ \A i \in DOMAIN t : t[i] = s[f[i]]
              /\ \A i, j \in DOMAIN t : /\ i < j <=> f[i] < f[j]
                                        /\ i <= j <=> f[i] <= f[j]
                                        /\ f[i] = f[j] => i = j
          BY PartIndex
    <2> QED
        BY <2>1, <2>2
  <1>2. ASSUME NEW i \in DOMAIN toAgent', toAgent'[i].type = "steer", NEW s, s = toAgent'[i].of
        PROVE  /\ steer'[s].at # "idle" /\ steer'[s].run # None
               /\ \A t \in Runs : (t # steer'[s].run /\ phase'[t] = "prompting") =>
                     /\ \A k \in DOMAIN turns' : turns'[k] # t
                     /\ \A j \in DOMAIN toAgent' :
                           toAgent'[j] = [type |-> "prompt", of |-> t] => i < j
    <2>1. /\ s \in Steers /\ steer[s].at # "idle" /\ steer[s].run # None
          /\ \A t \in Runs : (t # steer[s].run /\ phase[t] = "prompting") =>
                /\ \A k \in DOMAIN turns : turns[k] # t
                /\ \A j \in DOMAIN toAgent :
                      toAgent[j] = [type |-> "prompt", of |-> t] => f[i] < j
          BY <1>1, <1>2, StreamElements DEF SteerInv
    <2>2. \A t \in Runs : (t # steer'[s].run /\ phase'[t] = "prompting") =>
             \A j \in DOMAIN toAgent' : toAgent'[j] = [type |-> "prompt", of |-> t] => f[i] < f[j]
          BY <1>1, <2>1
    <2> QED
        BY <1>1, <2>1, <2>2
  <1>3. SteersTheRunMeant'
    <2>1. \A s \in Steers : steer[s].turn \in Runs \cup {None}
          BY DEF RestType
    <2> QED
        BY <2>1 DEF SteerInv, SteersTheRunMeant, Gone
  <1> QED
      BY <1>2, <1>3 DEF SteerInv

\* Steering messages stay ahead of the later prompts, and get into the turn that was meant.
LEMMA SteerStep ==
    StreamType /\ RestType /\ RunInv /\ StreamInv /\ SteerInv /\ [Next]_vars => SteerInv'
  <1> SUFFICES ASSUME StreamType, RestType, RunInv, StreamInv, SteerInv, [Next]_vars
               PROVE  SteerInv'
      OBVIOUS
  <1>1. StreamType'
        BY StreamStepType
  <1>2. /\ Part(toAgent, toAgent) /\ Part(<<>>, toAgent)
        BY PartSelf, PartEmpty DEF StreamType
  <1>3. ASSUME NEW r \in Runs,
               \/ StartRaises(r) \/ Return(r) \/ ReturnRaises(r) \/ Fail(r)
               \/ ~rpc /\ (Start(r) \/ Cancelled(r))
        PROVE  SteerInv'
    <2>1. UNCHANGED <<toAgent, turns, steer>>
          BY <1>3 DEF StartRaises, Return, ReturnRaises, Fail, Start, Cancelled, agentVars
    <2>2. \A t \in Runs : /\ phase'[t] = "prompting" => phase[t] = "prompting"
                          /\ phase[t] \in Gone => phase'[t] \in Gone
          BY <1>3
             DEF StartRaises, Return, ReturnRaises, Fail, Start, Cancelled, Leave, Gone,
                 RestType
    <2> QED
        BY <1>1, <1>2, <2>1, <2>2, SteerShrinks
  <1>4. ASSUME NEW r \in Runs, Cancel(r) PROVE SteerInv'
    <2>1. UNCHANGED <<turns, steer>>
          BY <1>4 DEF Cancel, agentVars
    <2>2. \A t \in Runs : /\ phase'[t] = "prompting" => phase[t] = "prompting"
                          /\ phase[t] \in Gone => phase'[t] \in Gone
          BY <1>4 DEF Cancel, Gone, RestType
    <2>3. Part(toAgent', toAgent)
      <3>1. toAgent' = toAgent \/ \E i \in DOMAIN toAgent : toAgent' = RemoveAt(toAgent, i)
            BY <1>4 DEF Cancel
      <3> QED
          BY <1>2, <3>1, PartRemove DEF StreamType
    <2> QED
        BY <1>1, <2>1, <2>2, <2>3, SteerShrinks
  <1>5. ASSUME UpdateRaises \/ \E b \in BOOLEAN : ConnectionEnds(b) PROVE SteerInv'
    <2>1. toAgent' = <<>> /\ turns' = turns /\ phase' = Rejected /\ steer' = SteersRejected
          BY <1>5 DEF UpdateRaises, ConnectionEnds, agentVars
    <2>2. \A t \in Runs : /\ phase'[t] = "prompting" => phase[t] = "prompting"
                          /\ phase[t] \in Gone => phase'[t] \in Gone
          BY <2>1 DEF Rejected, Gone
    <2>3. \A s \in Steers : /\ steer'[s].run = steer[s].run /\ steer'[s].turn = steer[s].turn
                            /\ steer[s].at # "idle" => steer'[s].at # "idle"
          BY <2>1 DEF SteersRejected, RestType
    <2> QED
        BY <1>1, <1>2, <2>1, <2>2, <2>3, SteerShrinks
  <1>6. ASSUME Update \/ Answered \/ UNCHANGED vars PROVE SteerInv'
    <2>1. UNCHANGED <<toAgent, turns, steer>>
          BY <1>6 DEF Update, Answered, vars, agentVars
    <2>2. \A t \in Runs : /\ phase'[t] = "prompting" => phase[t] = "prompting"
                          /\ phase[t] \in Gone => phase'[t] \in Gone
          BY <1>6 DEF Update, Answered, vars, runVars, Gone, RestType
    <2> QED
        BY <1>1, <1>2, <2>1, <2>2, SteerShrinks
  <1>7. ASSUME NEW r \in Runs, NEW kind \in Kinds, AgentSends(r, kind) PROVE SteerInv'
    <2>1. UNCHANGED <<toAgent, turns, steer, phase>>
          BY <1>7 DEF AgentSends, runVars
    <2> QED
        BY <1>1, <1>2, <2>1, SteerShrinks
  <1>8. ASSUME NEW r \in Runs, AgentAnswers(r) PROVE SteerInv'
    <2>1. UNCHANGED <<toAgent, steer, phase>> /\ rpc
          BY <1>8 DEF AgentAnswers, runVars
    <2>2. \A j \in DOMAIN turns' : \E i \in DOMAIN turns : turns'[j] = turns[i]
      <3>1. \E i \in DOMAIN turns : turns' = RemoveAt(turns, i)
            BY <1>8 DEF AgentAnswers
      <3> QED
          BY <3>1, PartRemove DEF StreamType
    <2>3. \A t \in Runs : (\A k \in DOMAIN turns : turns[k] # t) =>
                              \A k \in DOMAIN turns' : turns'[k] # t
          BY <2>2
    <2> HIDE DEF SteerInv
    <2> QED
        BY <2>1, <2>3 DEF SteerInv, SteersTheRunMeant
  <1>9. ASSUME NEW r \in Runs, NEW m \in Down, toAgent' = Append(toAgent, m), m.type # "steer",
               turns' = turns, steer' = steer,
               \A t \in Runs \ {r} : phase'[t] = "prompting" => phase[t] = "prompting",
               phase'[r] = "prompting" => /\ \A k \in DOMAIN turns : turns[k] # r
                                          /\ \A j \in DOMAIN toAgent :
                                                toAgent[j] # [type |-> "prompt", of |-> r],
               \A t \in Runs \ {r} : m # [type |-> "prompt", of |-> t],
               \A t \in Runs : phase[t] \in Gone => phase'[t] \in Gone
        PROVE  SteerInv'
    <2>1. /\ DOMAIN toAgent = 1 .. Len(toAgent) /\ DOMAIN toAgent' = 1 .. Len(toAgent) + 1
          /\ \A i \in DOMAIN toAgent : toAgent'[i] = toAgent[i]
          /\ toAgent'[Len(toAgent) + 1] = m /\ Len(toAgent) \in Nat
          BY <1>9, AppendEffect DEF StreamType
    <2> DEFINE z == Len(toAgent) + 1
    <2>2. /\ \A i \in DOMAIN toAgent' : i \in DOMAIN toAgent \/ i = z
          /\ \A i \in DOMAIN toAgent : i < z
          /\ toAgent'[z] = m
          BY <2>1
    <2> HIDE DEF z
    <2>3. ASSUME NEW i \in DOMAIN toAgent', toAgent'[i].type = "steer", NEW s, s = toAgent'[i].of
          PROVE  /\ steer'[s].at # "idle" /\ steer'[s].run # None
                 /\ \A t \in Runs : (t # steer'[s].run /\ phase'[t] = "prompting") =>
                       /\ \A k \in DOMAIN turns' : turns'[k] # t
                       /\ \A j \in DOMAIN toAgent' :
                             toAgent'[j] = [type |-> "prompt", of |-> t] => i < j
      <3>1. i \in DOMAIN toAgent /\ toAgent'[i] = toAgent[i]
            BY <1>9, <2>1, <2>2, <2>3
      <3>2. /\ steer[s].at # "idle" /\ steer[s].run # None
            /\ \A t \in Runs : (t # steer[s].run /\ phase[t] = "prompting") =>
                  /\ \A k \in DOMAIN turns : turns[k] # t
                  /\ \A j \in DOMAIN toAgent :
                        toAgent[j] = [type |-> "prompt", of |-> t] => i < j
            BY <2>3, <3>1 DEF SteerInv
      <3>3. ASSUME NEW t \in Runs, t # steer'[s].run, phase'[t] = "prompting"
            PROVE  /\ \A k \in DOMAIN turns' : turns'[k] # t
                   /\ \A j \in DOMAIN toAgent' :
                         toAgent'[j] = [type |-> "prompt", of |-> t] => i < j
        <4>1. CASE t # r
              BY <1>9, <2>1, <2>2, <3>1, <3>2, <3>3, <4>1
        <4>2. CASE t = r
              BY <1>9, <2>1, <2>2, <3>1, <3>2, <3>3, <4>2
        <4> QED
            BY <4>1, <4>2
      <3> QED
          BY <1>9, <3>2, <3>3
    <2>4. SteersTheRunMeant'
      <3>1. \A s \in Steers : steer[s].turn \in Runs \cup {None}
            BY DEF RestType
      <3> QED
          BY <1>9, <3>1 DEF SteerInv, SteersTheRunMeant, Gone
    <2> QED
        BY <2>3, <2>4 DEF SteerInv
  <1>10. ASSUME NEW r \in Runs, Start(r), rpc PROVE SteerInv'
    <2> DEFINE m == [type |-> "prompt", of |-> r]
    <2>1. m \in Down /\ m.type # "steer" /\ \A t \in Runs \ {r} : m # [type |-> "prompt", of |-> t]
      <3>1. \A t \in Runs : m = [type |-> "prompt", of |-> t] => m.of = t
            OBVIOUS
      <3> QED
          BY <3>1 DEF Down
    <2>2. toAgent' = Append(toAgent, m) /\ turns' = turns /\ steer' = steer
          BY <1>10 DEF Start, agentVars
    <2>3. /\ phase[r] = "idle" /\ \A t \in Runs \ {r} : phase'[t] = phase[t]
          /\ \A t \in Runs : phase[t] \in Gone => phase'[t] \in Gone
          BY <1>10 DEF Start, RestType, Gone
    <2>4. /\ \A k \in DOMAIN turns : turns[k] # r
          /\ \A j \in DOMAIN toAgent : toAgent[j] # m
      <3>1. phase[r] \notin Sent
            BY <2>3 DEF Sent
      <3> QED
          BY <1>10, <3>1 DEF StreamInv
    <2> QED
        BY <1>9, <2>1, <2>2, <2>3, <2>4
  <1>11. ASSUME NEW r \in Runs, Cancelled(r), rpc PROVE SteerInv'
    <2> DEFINE m == [type |-> "cancel", of |-> r]
    <2>1. m \in Down /\ m.type # "steer" /\ \A t \in Runs : m # [type |-> "prompt", of |-> t]
      <3>1. \A t \in Runs : m = [type |-> "prompt", of |-> t] => m.type = "prompt"
            OBVIOUS
      <3> QED
          BY <3>1 DEF Down
    <2>2. toAgent' = Append(toAgent, m) /\ turns' = turns /\ steer' = steer
          BY <1>11 DEF Cancelled, agentVars
    <2>3. /\ phase'[r] # "prompting" /\ \A t \in Runs \ {r} : phase'[t] = phase[t]
          /\ \A t \in Runs : phase[t] \in Gone => phase'[t] \in Gone
          BY <1>11 DEF Cancelled, Leave, RestType, Gone
    <2> QED
        BY <1>9, <2>1, <2>2, <2>3
  <1>12. ASSUME NEW c \in Steers, Steer(c) PROVE SteerInv'
    <2> DEFINE m == [type |-> "steer", of |-> c]
    <2>1. m \in Down /\ m.type = "steer" /\ m.of = c
          /\ \A t \in Runs : m # [type |-> "prompt", of |-> t]
      <3>1. \A t \in Runs : m = [type |-> "prompt", of |-> t] => m.type = "prompt"
            OBVIOUS
      <3> QED
          BY <3>1 DEF Down
    <2>2. PICK r \in handlers : steer' = [steer EXCEPT ![c] = [run |-> r, at |-> "waiting",
                                                               turn |-> None]]
          BY <1>12 DEF Steer
    <2>3. toAgent' = Append(toAgent, m) /\ UNCHANGED <<turns, phase>> /\ steer[c].at = "idle"
          BY <1>12 DEF Steer, agentVars, runVars
    <2> HIDE DEF m
    <2>4. /\ r \in Runs /\ r # None /\ \A t \in Runs : phase[t] = "prompting" => t = r
          BY <2>2, SessionAssumption DEF RestType, RunInv, InFlight
    <2>5. /\ steer'[c].run = r /\ steer'[c].at = "waiting" /\ steer'[c].turn = None
          /\ \A s \in Steers \ {c} : steer'[s] = steer[s]
          BY <2>2 DEF RestType
    <2>6. /\ DOMAIN toAgent = 1 .. Len(toAgent) /\ DOMAIN toAgent' = 1 .. Len(toAgent) + 1
          /\ \A i \in DOMAIN toAgent : toAgent'[i] = toAgent[i]
          /\ toAgent'[Len(toAgent) + 1] = m /\ Len(toAgent) \in Nat
          BY <2>1, <2>3, AppendEffect DEF StreamType
    <2> DEFINE z == Len(toAgent) + 1
    <2>7. /\ \A i \in DOMAIN toAgent' : i \in DOMAIN toAgent \/ i = z
          /\ \A i \in DOMAIN toAgent : i < z
          /\ toAgent'[z] = m
          BY <2>6
    <2> HIDE DEF z
    <2>8. ASSUME NEW i \in DOMAIN toAgent', toAgent'[i].type = "steer", NEW s, s = toAgent'[i].of
          PROVE  /\ steer'[s].at # "idle" /\ steer'[s].run # None
                 /\ \A t \in Runs : (t # steer'[s].run /\ phase'[t] = "prompting") =>
                       /\ \A k \in DOMAIN turns' : turns'[k] # t
                       /\ \A j \in DOMAIN toAgent' :
                             toAgent'[j] = [type |-> "prompt", of |-> t] => i < j
      <3>1. CASE s = c
            BY <2>3, <2>4, <2>5, <3>1
      <3>2. CASE s # c
        <4>1. i \in DOMAIN toAgent /\ toAgent'[i] = toAgent[i]
              BY <2>1, <2>6, <2>7, <2>8, <3>2
        <4>2. /\ steer[s].at # "idle" /\ steer[s].run # None
              /\ \A t \in Runs : (t # steer[s].run /\ phase[t] = "prompting") =>
                    /\ \A k \in DOMAIN turns : turns[k] # t
                    /\ \A j \in DOMAIN toAgent :
                          toAgent[j] = [type |-> "prompt", of |-> t] => i < j
              BY <2>8, <4>1 DEF SteerInv
        <4>3. s \in Steers
              BY <2>8, <4>1, StreamElements
        <4> QED
            BY <2>1, <2>3, <2>5, <2>6, <2>7, <3>2, <4>1, <4>2, <4>3
      <3> QED
          BY <3>1, <3>2
    <2>9. SteersTheRunMeant'
          BY <2>3, <2>5 DEF SteerInv, SteersTheRunMeant
    <2> QED
        BY <2>8, <2>9 DEF SteerInv
  <1>13. ASSUME AgentReads PROVE SteerInv'
    <2> DEFINE m == Head(toAgent)
    <2>1. /\ rpc /\ toAgent # <<>> /\ toAgent' = Tail(toAgent) /\ phase' = phase
          /\ turns' = IF m.type = "prompt" THEN Append(turns, m.of) ELSE turns
          /\ m.type # "steer" => steer' = steer
          BY <1>13 DEF AgentReads, runVars
    <2>2. Part(toAgent', toAgent)
          BY <2>1, PartTail DEF StreamType
    <2>3. /\ m = toAgent[1] /\ 1 \in DOMAIN toAgent
          /\ \A i \in DOMAIN toAgent' :
                i + 1 \in DOMAIN toAgent /\ toAgent'[i] = toAgent[i + 1] /\ ~(i + 1 < 1)
          /\ \A i, j \in DOMAIN toAgent' : i + 1 < j + 1 => i < j
      <3>1. /\ Len(toAgent) \in Nat \ {0} /\ DOMAIN toAgent = 1 .. Len(toAgent)
            /\ Head(toAgent) = toAgent[1]
            /\ DOMAIN toAgent' = 1 .. Len(toAgent) - 1
            /\ \A i \in DOMAIN toAgent' : toAgent'[i] = toAgent[i + 1]
            BY <2>1, PartTail DEF StreamType
      <3> QED
          BY <3>1
    <2>4. ASSUME NEW i \in DOMAIN toAgent', toAgent'[i].type = "steer", NEW s, s = toAgent'[i].of
          PROVE  /\ s \in Steers /\ steer[s].at # "idle" /\ steer[s].run # None
                 /\ \A t \in Runs : (t # steer[s].run /\ phase'[t] = "prompting") =>
                       /\ \A k \in DOMAIN turns : turns[k] # t
                       /\ m # [type |-> "prompt", of |-> t]
                       /\ \A j \in DOMAIN toAgent' :
                             toAgent'[j] = [type |-> "prompt", of |-> t] => i < j
      <3>1. /\ s \in Steers /\ steer[s].at # "idle" /\ steer[s].run # None
            /\ \A t \in Runs : (t # steer[s].run /\ phase[t] = "prompting") =>
                  /\ \A k \in DOMAIN turns : turns[k] # t
                  /\ \A j \in DOMAIN toAgent :
                        toAgent[j] = [type |-> "prompt", of |-> t] => i + 1 < j
            BY <2>3, <2>4, StreamElements DEF SteerInv
      <3> QED
          BY <2>1, <2>3, <3>1
    <2>5. CASE m.type = "prompt"
      <3> DEFINE q == m.of
      <3>1. q \in Runs /\ m = [type |-> "prompt", of |-> q] /\ steer' = steer
            /\ turns' = Append(turns, q)
            BY <2>1, <2>3, <2>5, StreamElements
      <3> HIDE DEF q, m
      <3>2. \A k \in DOMAIN turns' : turns'[k] = q \/ \E j \in DOMAIN turns : turns'[k] = turns[j]
        <4>1. /\ DOMAIN turns = 1 .. Len(turns) /\ DOMAIN turns' = 1 .. Len(turns) + 1
              /\ \A i \in DOMAIN turns : turns'[i] = turns[i]
              /\ turns'[Len(turns) + 1] = q /\ Len(turns) \in Nat
              BY <3>1, AppendEffect DEF StreamType
        <4> QED
            BY <4>1
      <3>3. ASSUME NEW i \in DOMAIN toAgent', toAgent'[i].type = "steer", NEW s, s = toAgent'[i].of
            PROVE  /\ steer'[s].at # "idle" /\ steer'[s].run # None
                   /\ \A t \in Runs : (t # steer'[s].run /\ phase'[t] = "prompting") =>
                         /\ \A k \in DOMAIN turns' : turns'[k] # t
                         /\ \A j \in DOMAIN toAgent' :
                               toAgent'[j] = [type |-> "prompt", of |-> t] => i < j
        <4>1. /\ s \in Steers /\ steer[s].at # "idle" /\ steer[s].run # None
              /\ \A t \in Runs : (t # steer[s].run /\ phase'[t] = "prompting") =>
                    /\ \A k \in DOMAIN turns : turns[k] # t
                    /\ m # [type |-> "prompt", of |-> t]
                    /\ \A j \in DOMAIN toAgent' :
                          toAgent'[j] = [type |-> "prompt", of |-> t] => i < j
              BY <2>4, <3>3
        <4>2. ASSUME NEW t \in Runs, t # steer[s].run, phase'[t] = "prompting"
              PROVE  \A k \in DOMAIN turns' : turns'[k] # t
          <5>1. t # q
                BY <3>1, <4>1, <4>2
          <5> QED
              BY <3>2, <4>1, <4>2, <5>1
        <4> QED
            BY <3>1, <4>1, <4>2
      <3>4. SteersTheRunMeant'
            BY <2>1, <3>1 DEF SteerInv, SteersTheRunMeant
      <3> QED
          BY <3>3, <3>4 DEF SteerInv
    <2>6. CASE m.type = "steer"
      <3> DEFINE c == m.of
                 a == IF turns = <<>> THEN None ELSE Last(turns)
      <3>1. c \in Steers
            BY <2>3, <2>6, StreamElements
      <3>2. steer' = [steer EXCEPT ![c].at = "returned", ![c].turn = a]
            BY <1>13, <2>6 DEF AgentReads
      <3>3. turns' = turns
            BY <2>1, <2>6
      <3>4. a # None => \E k \in DOMAIN turns : a = turns[k]
        <4>1. turns # <<>> => Len(turns) \in DOMAIN turns
              BY EmptySeq, LenProperties DEF StreamType
        <4> QED
            BY <4>1 DEF Last
      <3>5. /\ steer[c].run # None
            /\ \A t \in Runs : (t # steer[c].run /\ phase[t] = "prompting") =>
                  \A k \in DOMAIN turns : turns[k] # t
            BY <2>3, <2>6 DEF SteerInv
      <3> HIDE DEF c, m, a
      <3>6. /\ \A s \in Steers \ {c} : steer'[s] = steer[s]
            /\ steer'[c].run = steer[c].run /\ steer'[c].at = "returned" /\ steer'[c].turn = a
            BY <3>1, <3>2 DEF RestType
      <3>7. a # None => a = steer[c].run \/ phase[a] \in Gone
        <4>1. ASSUME NEW k \in DOMAIN turns PROVE turns[k] \in Runs /\ phase[turns[k]] \in Sent
              BY <2>1, StreamElements DEF StreamInv
        <4> QED
            BY <3>4, <3>5, <4>1 DEF Sent, Gone
      <3>8. ASSUME NEW s \in Steers, steer'[s].turn # None
            PROVE  /\ steer'[s].run # None
                   /\ \/ steer'[s].turn = steer'[s].run
                      \/ phase'[steer'[s].turn] \in {"cancelling", "cancelled", "failed"}
        <4>1. CASE s = c
              BY <2>1, <3>5, <3>6, <3>7, <3>8, <4>1 DEF Gone
        <4>2. CASE s # c
              BY <2>1, <3>6, <3>8, <4>2 DEF SteerInv, SteersTheRunMeant
        <4> QED
            BY <4>1, <4>2
      <3>9. SteersTheRunMeant'
            BY <3>8 DEF SteersTheRunMeant
      <3>10. ASSUME NEW i \in DOMAIN toAgent', toAgent'[i].type = "steer", NEW s, s = toAgent'[i].of
             PROVE  /\ steer'[s].at # "idle" /\ steer'[s].run # None
                    /\ \A t \in Runs : (t # steer'[s].run /\ phase'[t] = "prompting") =>
                          /\ \A k \in DOMAIN turns' : turns'[k] # t
                          /\ \A j \in DOMAIN toAgent' :
                                toAgent'[j] = [type |-> "prompt", of |-> t] => i < j
        <4>1. /\ s \in Steers /\ steer[s].at # "idle" /\ steer[s].run # None
              /\ \A t \in Runs : (t # steer[s].run /\ phase'[t] = "prompting") =>
                    /\ \A k \in DOMAIN turns : turns[k] # t
                    /\ \A j \in DOMAIN toAgent' :
                          toAgent'[j] = [type |-> "prompt", of |-> t] => i < j
              BY <2>4, <3>10
        <4>2. steer'[s].at # "idle" /\ steer'[s].run = steer[s].run
              BY <3>6, <4>1
        <4> QED
            BY <3>3, <4>1, <4>2
      <3> QED
          BY <3>9, <3>10 DEF SteerInv
    <2>7. CASE m.type \notin {"prompt", "steer"}
          BY <1>1, <2>1, <2>2, <2>7, SteerShrinks
    <2> QED
        BY <2>5, <2>6, <2>7
  <1> QED
      BY <1>3, <1>4, <1>5, <1>6, <1>7, <1>8, <1>10, <1>11, <1>12, <1>13 DEF Next

-----------------------------------------------------------------------------
(* Whose updates a run takes *)

\* What is in the list after an update was there, or is of the update.
LEMMA CollectsElements ==
    ASSUME EventType, NEW r \in Runs, NEW u \in Events, NEW v, Collects(v, r, u)
    PROVE  \A i \in DOMAIN v : \/ v[i] = u \/ v[i] = Event("thinking_start")
                               \/ \E j \in DOMAIN events[r] : v[i] = events[r][j]
  <1> DEFINE start == Event("thinking_start")
  <1>1. PICK k \in Seq(Events) :
           /\ Part(k, events[r])
           /\ v \in {k, Append(k, u), Append(k, start), Append(Append(k, start), u)}
        BY DEF Collects
  <1>2. start \in Events
        BY PlainEvents DEF OwnTypes
  <1> HIDE DEF start
  <1>3. \A i \in DOMAIN k : \E j \in DOMAIN events[r] : k[i] = events[r][j]
        BY <1>1 DEF Part
  <1>4. \A w \in Seq(Events), e \in Events : \A i \in DOMAIN Append(w, e) :
           \/ Append(w, e)[i] = e
           \/ i \in DOMAIN w /\ Append(w, e)[i] = w[i]
    <2>1. ASSUME NEW w \in Seq(Events), NEW e \in Events, NEW i \in DOMAIN Append(w, e)
          PROVE  \/ Append(w, e)[i] = e
                 \/ i \in DOMAIN w /\ Append(w, e)[i] = w[i]
      <3> DEFINE x == Append(w, e)
      <3>1. /\ Len(w) \in Nat /\ DOMAIN w = 1 .. Len(w) /\ DOMAIN x = 1 .. Len(w) + 1
            /\ \A j \in 1 .. Len(w) : x[j] = w[j]
            /\ x[Len(w) + 1] = e
            BY AppendEffect
      <3> HIDE DEF x
      <3>2. i \in DOMAIN x
            BY DEF x
      <3>3. x[i] = e \/ (i \in DOMAIN w /\ x[i] = w[i])
            BY <3>1, <3>2
      <3> QED
          BY <3>3 DEF x
    <2> QED
        BY <2>1
  <1>5. Append(k, start) \in Seq(Events)
        BY <1>2, AppendProperties
  <1>6. CASE v = k
        BY <1>3, <1>6
  <1>7. CASE v = Append(k, u)
        BY <1>3, <1>4, <1>7
  <1>8. CASE v = Append(k, start)
        BY <1>2, <1>3, <1>4, <1>8 DEF start
  <1>9. CASE v = Append(Append(k, start), u)
    <2>1. \A i \in DOMAIN Append(k, start) :
             \/ Append(k, start)[i] = start
             \/ \E j \in DOMAIN events[r] : Append(k, start)[i] = events[r][j]
          BY <1>2, <1>3, <1>4
    <2>2. \A i \in DOMAIN v : \/ v[i] = u
                              \/ i \in DOMAIN Append(k, start) /\ v[i] = Append(k, start)[i]
          BY <1>4, <1>5, <1>9
    <2> QED
        BY <2>1, <2>2 DEF start
  <1> QED
      BY <1>1, <1>6, <1>7, <1>8, <1>9

\* What a run adds on its own account is behind what it had, and is of no turn.
LEMMA AddsElements ==
    ASSUME EventType, NEW r \in Runs, NEW p, NEW active \in BOOLEAN, Adds(r, p, active)
    PROVE  /\ DOMAIN events[r] \subseteq DOMAIN events'[r]
           /\ \A i \in DOMAIN events[r] : events'[r][i] = events[r][i]
           /\ \A i \in DOMAIN events'[r] \ DOMAIN events[r] : events'[r][i].turn = None
           /\ \A q \in Runs \ {r} : events'[q] = events[q]
  <1> DEFINE s == events[r]
             t == s \o p
  <1>1. s \in Seq(Events) /\ Closing(p, active) /\ events'[r] = t
        /\ \A q \in Runs \ {r} : events'[q] = events[q]
        BY DEF EventType, Adds
  <1>2. /\ DOMAIN s \subseteq DOMAIN t
        /\ \A i \in DOMAIN s : t[i] = s[i]
        /\ \A i \in DOMAIN t \ DOMAIN s : t[i] \in Plain \/ t[i] = Event("thinking_end")
        BY <1>1, ClosesEffect
  <1>3. /\ Event("thinking_end").turn = None
        /\ \A e \in Plain : e.turn = None
        BY PlainEvents DEF Plain, OwnTypes
  <1> HIDE DEF t
  <1> QED
      BY <1>1, <1>2, <1>3

\* Who is gone stays gone.
LEMMA StaysGone ==
    ASSUME RestType, [Next]_vars, NEW t \in Runs, phase[t] \in {"cancelled", "failed"}
    PROVE  phase'[t] \in {"cancelled", "failed"}
  <1>1. CASE Update \/ UpdateRaises \/ OtherSteps
        BY <1>1 DEF Update, UpdateRaises, OtherSteps, Cancel, AgentAnswers, AgentSends, Answered,
                    AgentReads, Steer, ConnectionEnds, vars, runVars, Rejected, RestType, InFlight
  <1>2. ASSUME NEW r \in Runs, \/ Start(r) \/ StartRaises(r) \/ Fail(r) \/ Cancelled(r)
                               \/ Return(r) \/ ReturnRaises(r)
        PROVE  phase'[t] \in {"cancelled", "failed"}
        BY <1>2 DEF Start, StartRaises, Fail, Cancelled, Return, ReturnRaises, Leave, RestType
  <1> QED
      BY <1>1, <1>2, StepCases

\* The update at the head is of the run in progress, or of one that was cancelled.
LEMMA HeadIsOfWhom ==
    ASSUME StreamType, RestType, RunInv, StreamInv, NEW r \in handlers, fromAgent # <<>>
    PROVE  Head(fromAgent).turn = r \/ phase[Head(fromAgent).turn] = "cancelled"
  <1>1. Head(fromAgent) = fromAgent[1] /\ 1 \in DOMAIN fromAgent
    <2>1. /\ Len(fromAgent) \in Nat \ {0} /\ DOMAIN fromAgent = 1 .. Len(fromAgent)
          /\ Head(fromAgent) = fromAgent[1]
          BY PartTail DEF StreamType
    <2> QED
        BY <2>1
  <1>2. phase[Head(fromAgent).turn] \in Sent /\ Head(fromAgent).turn \in Runs
        BY <1>1, StreamElements DEF StreamInv
  <1> QED
      BY <1>2 DEF RunInv, Sent, InFlight

\* Only an abandoned turn's updates are taken by another run, at every step.
LEMMA ForeignStep ==
    ASSUME StreamType, EventType, RestType, RunInv, StreamInv, ListInv,
           ForeignOnlyAfterAbandon, [Next]_vars
    PROVE  ForeignOnlyAfterAbandon'
  <1> DEFINE Fine(r, e) == e.turn \notin {r, None} => phase[e.turn] \in {"cancelled", "failed"}
  <1>1. \A r \in Runs : \A i \in DOMAIN events[r] :
           events[r][i].turn \in Runs \cup {None} /\ Fine(r, events[r][i])
    <2>1. \A r \in Runs : \A i \in DOMAIN events[r] : events[r][i] \in Events
          BY EventsAre DEF EventType
    <2> QED
        BY <2>1 DEF ForeignOnlyAfterAbandon, Events
  <1>2. \A t \in Runs :
           phase[t] \in {"cancelled", "failed"} => phase'[t] \in {"cancelled", "failed"}
        BY StaysGone
  <1>3. ASSUME \A r \in Runs : \A i \in DOMAIN events'[r] :
                  \/ events'[r][i].turn \in {r, None}
                  \/ \E j \in DOMAIN events[r] : events'[r][i] = events[r][j]
                  \/ events'[r][i].turn \in Runs /\ phase[events'[r][i].turn] = "cancelled"
        PROVE  ForeignOnlyAfterAbandon'
        BY <1>1, <1>2, <1>3 DEF ForeignOnlyAfterAbandon
  <1>4. ASSUME NEW r \in Runs, NEW p, NEW active \in BOOLEAN, Adds(r, p, active)
        PROVE  ForeignOnlyAfterAbandon'
        BY <1>3, <1>4, AddsElements
  <1>5. ASSUME NEW r \in Runs, \/ Start(r) \/ StartRaises(r) \/ Fail(r) \/ Cancelled(r)
                               \/ Return(r) \/ ReturnRaises(r)
        PROVE  ForeignOnlyAfterAbandon'
    <2>1. thinking[r] \in BOOLEAN
          BY DEF RestType
    <2> QED
        BY <1>4, <1>5, <2>1, OwnEffect, ReturnEffect
  <1>6. ASSUME Update \/ UpdateRaises PROVE ForeignOnlyAfterAbandon'
    <2> DEFINE u == Head(fromAgent)
    <2>1. u \in Events /\ fromAgent # <<>> /\ u.turn \in Runs
      <3>1. fromAgent # <<>> /\ u \in Events /\ u \in Up
            BY <1>6, HeadEvent DEF Update, UpdateRaises
      <3> QED
          BY <3>1 DEF Up
    <2>2. Takes(u)
      <3>1. \A r \in Runs : \A i, j \in Snapshots(events[r]) : i = j
            BY DEF ListInv, Neat, Snapshots, Single
      <3> QED
          BY <1>6, <3>1, TakesEffect DEF RunInv
    <2>3. \A r \in handlers : r \in Runs /\ (u.turn = r \/ phase[u.turn] = "cancelled")
          BY <2>1, HeadIsOfWhom DEF RestType
    <2> HIDE DEF u
    <2>4. Event("thinking_start").turn = None
          BY PlainEvents DEF OwnTypes
    <2>5. ASSUME NEW r \in Runs, NEW i \in DOMAIN events'[r]
          PROVE  \/ events'[r][i].turn \in {r, None}
                 \/ \E j \in DOMAIN events[r] : events'[r][i] = events[r][j]
                 \/ events'[r][i].turn \in Runs /\ phase[events'[r][i].turn] = "cancelled"
      <3>1. CASE r \in handlers
        <4>1. \/ events'[r][i] = u \/ events'[r][i] = Event("thinking_start")
              \/ \E j \in DOMAIN events[r] : events'[r][i] = events[r][j]
              BY <2>1, <2>2, <3>1, CollectsElements DEF Takes
        <4> QED
            BY <2>1, <2>3, <2>4, <3>1, <4>1
      <3>2. CASE r \notin handlers
            BY <2>2, <3>2 DEF Takes
      <3> QED
          BY <3>1, <3>2
    <2> QED
        BY <1>3, <2>5
  <1>7. ASSUME OtherSteps PROVE ForeignOnlyAfterAbandon'
        BY <1>3, <1>7, OtherEffect
  <1> QED
      BY <1>5, <1>6, <1>7, StepCases

-----------------------------------------------------------------------------
(* The updates stay in order *)

\* How the stream to the session changes.
LEMMA StreamChanges ==
    ASSUME StreamType, [Next]_vars
    PROVE  \/ Part(fromAgent', fromAgent) /\ log' = log
           \/ \E r \in Runs, kind \in Kinds : AgentSends(r, kind)
           \/ \E r \in Runs : AgentAnswers(r)
  <1>1. Part(fromAgent, fromAgent) /\ Part(<<>>, fromAgent)
        BY PartSelf, PartEmpty DEF StreamType
  <1>2. fromAgent # <<>> => Part(Tail(fromAgent), fromAgent)
        BY PartTail DEF StreamType
  <1>3. CASE Update \/ UpdateRaises \/ Answered
        BY <1>1, <1>2, <1>3 DEF Update, UpdateRaises, Answered, agentVars
  <1>4. ASSUME NEW r \in Runs, \/ Start(r) \/ StartRaises(r) \/ Return(r) \/ ReturnRaises(r)
                               \/ Fail(r) \/ Cancel(r) \/ Cancelled(r)
        PROVE  fromAgent' = fromAgent /\ log' = log
        BY <1>4 DEF Start, StartRaises, Return, ReturnRaises, Fail, Cancel, Cancelled, agentVars
  <1>5. CASE \/ AgentReads \/ \E s \in Steers : Steer(s)
             \/ \E byUser \in BOOLEAN : ConnectionEnds(byUser)
        BY <1>1, <1>5 DEF AgentReads, Steer, ConnectionEnds, agentVars
  <1>6. CASE UNCHANGED vars
        BY <1>1, <1>6 DEF vars, agentVars
  <1> QED
      BY <1>1, <1>3, <1>4, <1>5, <1>6 DEF Next

\* A run that starts does not become idle again.
LEMMA StaysStarted ==
    ASSUME RestType, [Next]_vars, NEW t \in Runs, phase[t] # "idle"
    PROVE  phase'[t] # "idle"
  <1>1. CASE Update \/ UpdateRaises \/ OtherSteps
        BY <1>1 DEF Update, UpdateRaises, OtherSteps, Cancel, AgentAnswers, AgentSends, Answered,
                    AgentReads, Steer, ConnectionEnds, vars, runVars, Rejected, RestType, InFlight
  <1>2. ASSUME NEW r \in Runs, \/ Start(r) \/ StartRaises(r) \/ Fail(r) \/ Cancelled(r)
                               \/ Return(r) \/ ReturnRaises(r)
        PROVE  phase'[t] # "idle"
        BY <1>2 DEF Start, StartRaises, Fail, Cancelled, Return, ReturnRaises, Leave, RestType
  <1> QED
      BY <1>1, <1>2, StepCases

\* The history of the updates only grows, at its end.
LEMMA LogGrows ==
    ASSUME StreamType, [Next]_vars
    PROVE  /\ DOMAIN log \subseteq DOMAIN log'
           /\ \A k \in DOMAIN log : log'[k] = log[k] /\ log[k] \in Updates
           /\ \/ log' = log
              \/ \E r \in Runs, kind \in Kinds :
                    LET u == [type |-> kind, turn |-> r, n |-> Len(log) + 1] IN
                    /\ AgentSends(r, kind)
                    /\ Len(log) \in Nat /\ DOMAIN log = 1 .. Len(log)
                    /\ DOMAIN log' = 1 .. Len(log) + 1 /\ log'[Len(log) + 1] = u
  <1>1. log \in Seq(Updates)
        BY DEF StreamType
  <1>2. \A k \in DOMAIN log : log[k] \in Updates
        BY <1>1, LenProperties, ElementOfSeq
  <1>3. ASSUME NEW r \in Runs, NEW kind \in Kinds, AgentSends(r, kind)
        PROVE  /\ \A k \in DOMAIN log : log'[k] = log[k]
               /\ Len(log) \in Nat /\ DOMAIN log = 1 .. Len(log)
               /\ DOMAIN log' = 1 .. Len(log) + 1
               /\ log'[Len(log) + 1] = [type |-> kind, turn |-> r, n |-> Len(log) + 1]
    <2> DEFINE u == [type |-> kind, turn |-> r, n |-> Len(log) + 1]
    <2>1. u \in Updates /\ log' = Append(log, u)
          BY <1>3, SendsEffect
    <2> QED
        BY <1>1, <2>1, AppendEffect
  <1>4. log' = log \/ \E r \in Runs, kind \in Kinds : AgentSends(r, kind)
        BY StreamChanges DEF AgentAnswers
  <1>5. ASSUME NEW r \in Runs, NEW kind \in Kinds, AgentSends(r, kind)
        PROVE  DOMAIN log \subseteq DOMAIN log'
    <2>1. Len(log) \in Nat /\ DOMAIN log = 1 .. Len(log) /\ DOMAIN log' = 1 .. Len(log) + 1
          BY <1>3, <1>5
    <2> QED
        BY <2>1
  <1> QED
      BY <1>2, <1>3, <1>4, <1>5

\* The stream: each update is as it was sent, the later ones behind the earlier ones.
InOrder ==
    /\ \A i \in DOMAIN fromAgent : fromAgent[i].type # "answer" =>
          fromAgent[i].n \in DOMAIN log /\ fromAgent[i] = log[fromAgent[i].n]
    /\ \A i, j \in DOMAIN fromAgent :
          (i < j /\ fromAgent[i].type # "answer" /\ fromAgent[j].type # "answer") =>
             fromAgent[i].n < fromAgent[j].n

\* The updates wait in order, at every step.
LEMMA InOrderStep ==
    ASSUME StreamType, InOrder, [Next]_vars
    PROVE  InOrder'
  <1>1. CASE Part(fromAgent', fromAgent) /\ log' = log
    <2>1. PICK f \in [DOMAIN fromAgent' -> DOMAIN fromAgent] :
             /\ \A i, j \in DOMAIN fromAgent' : i < j => f[i] < f[j]
             /\ \A i \in DOMAIN fromAgent' : fromAgent'[i] = fromAgent[f[i]]
          BY <1>1 DEF Part
    <2> QED
        BY <1>1, <2>1 DEF InOrder
  <1>2. ASSUME NEW r \in Runs, NEW kind \in Kinds, AgentSends(r, kind) PROVE InOrder'
    <2> DEFINE u == [type |-> kind, turn |-> r, n |-> Len(log) + 1]
    <2>1. u \in Up /\ u \in Updates /\ u.n = Len(log) + 1 /\ fromAgent' = Append(fromAgent, u)
          /\ log' = Append(log, u)
          BY <1>2, SendsEffect
    <2> HIDE DEF u
    <2>2. /\ Len(log) \in Nat /\ DOMAIN log = 1 .. Len(log) /\ DOMAIN log' = 1 .. Len(log) + 1
          /\ \A k \in DOMAIN log : log'[k] = log[k]
          /\ log'[Len(log) + 1] = u
          BY <2>1, AppendEffect DEF StreamType
    <2>3. /\ Len(fromAgent) \in Nat /\ DOMAIN fromAgent = 1 .. Len(fromAgent)
          /\ DOMAIN fromAgent' = 1 .. Len(fromAgent) + 1
          /\ \A i \in 1 .. Len(fromAgent) : fromAgent'[i] = fromAgent[i]
          /\ fromAgent'[Len(fromAgent) + 1] = u
          BY <2>1, AppendEffect DEF StreamType
    <2>4. \A i \in DOMAIN fromAgent' : fromAgent'[i].type # "answer" =>
             fromAgent'[i].n \in DOMAIN log' /\ fromAgent'[i] = log'[fromAgent'[i].n]
      <3>1. ASSUME NEW i \in DOMAIN fromAgent', fromAgent'[i].type # "answer"
            PROVE  fromAgent'[i].n \in DOMAIN log' /\ fromAgent'[i] = log'[fromAgent'[i].n]
        <4>1. CASE i = Len(fromAgent) + 1
          <5>1. Len(log) + 1 \in DOMAIN log'
                BY <2>2
          <5> QED
              BY <2>1, <2>2, <2>3, <4>1, <5>1
        <4>2. CASE i # Len(fromAgent) + 1
          <5>1. i \in DOMAIN fromAgent /\ fromAgent'[i] = fromAgent[i]
                BY <2>3, <4>2
          <5>2. DOMAIN log \subseteq DOMAIN log'
                BY <2>2
          <5> QED
              BY <2>2, <3>1, <5>1, <5>2 DEF InOrder
        <4> QED
            BY <4>1, <4>2
      <3> QED
          BY <3>1
    <2>5. ASSUME NEW i \in DOMAIN fromAgent', NEW j \in DOMAIN fromAgent', i < j,
                 fromAgent'[i].type # "answer", fromAgent'[j].type # "answer"
          PROVE  fromAgent'[i].n < fromAgent'[j].n
      <3>1. i \in DOMAIN fromAgent /\ fromAgent'[i] = fromAgent[i]
            BY <2>3, <2>5
      <3>2. CASE j = Len(fromAgent) + 1
        <4>1. fromAgent'[j].n = Len(log) + 1
              BY <2>1, <2>3, <3>2
        <4>2. fromAgent'[i].n \in 1 .. Len(log)
              BY <2>2, <2>5, <3>1 DEF InOrder
        <4> QED
            BY <2>2, <4>1, <4>2
      <3>3. CASE j # Len(fromAgent) + 1
        <4>1. j \in DOMAIN fromAgent /\ fromAgent'[j] = fromAgent[j]
              BY <2>3, <3>3
        <4> QED
            BY <2>5, <3>1, <4>1 DEF InOrder
      <3> QED
          BY <3>2, <3>3
    <2> QED
        BY <2>4, <2>5 DEF InOrder
  <1>3. ASSUME NEW r \in Runs, AgentAnswers(r) PROVE InOrder'
    <2> DEFINE u == [type |-> "answer", turn |-> r, n |-> 0]
    <2>1. u \in Up /\ u.type = "answer"
          BY SessionAssumption DEF Up
    <2>2. fromAgent' = Append(fromAgent, u) /\ log' = log
          BY <1>3 DEF AgentAnswers
    <2> HIDE DEF u
    <2>3. /\ Len(fromAgent) \in Nat /\ DOMAIN fromAgent = 1 .. Len(fromAgent)
          /\ DOMAIN fromAgent' = 1 .. Len(fromAgent) + 1
          /\ \A i \in 1 .. Len(fromAgent) : fromAgent'[i] = fromAgent[i]
          /\ fromAgent'[Len(fromAgent) + 1] = u
          BY <2>1, <2>2, AppendEffect DEF StreamType
    <2>4. \A i \in DOMAIN fromAgent' : fromAgent'[i].type # "answer" =>
             i \in DOMAIN fromAgent /\ fromAgent'[i] = fromAgent[i]
          BY <2>1, <2>3
    <2> QED
        BY <2>2, <2>4 DEF InOrder
  <1> QED
      BY <1>1, <1>2, <1>3, StreamChanges

\* A run collects the update u, which is later than all that it has.
LEMMA CollectsNumbered ==
    ASSUME EventType, NEW r \in Runs, NEW u \in Events, NEW v, Collects(v, r, u),
           Numbered(events[r]), Below(events[r], u.n), u.n > 0, u.n \in DOMAIN log, u = log[u.n]
    PROVE  /\ v \in Seq(Events) /\ Numbered(v)
           /\ \A n \in Nat : Below(events[r], n) /\ u.n < n => Below(v, n)
  <1> DEFINE start == Event("thinking_start")
             m == u.n
  <1>1. PICK k \in Seq(Events) :
           /\ Part(k, events[r])
           /\ v \in {k, Append(k, u), Append(k, start), Append(Append(k, start), u)}
        BY DEF Collects
  <1>2. start \in Events /\ start.n = 0 /\ start.turn = None /\ start.type \notin Kinds
        BY PlainEvents DEF OwnTypes
  <1>3. m \in Nat /\ m > 0
        BY EventNumbers
  <1>4. Numbered(k) /\ \A n \in Nat : Below(events[r], n) => Below(k, n)
    <2>1. events[r] \in Seq(Events)
          BY DEF EventType
    <2> QED
        BY <1>1, <2>1, NumberedPart
  <1> HIDE DEF start
  <1>5. ASSUME NEW w \in Seq(Events), Numbered(w), \A n \in Nat : Below(events[r], n) => Below(w, n)
        PROVE  /\ Append(w, u) \in Seq(Events) /\ Numbered(Append(w, u))
               /\ \A n \in Nat : Below(events[r], n) /\ m < n => Below(Append(w, u), n)
    <2>1. Below(w, m)
          BY <1>3, <1>5
    <2>2. u.n # 0
          BY <1>3
    <2> QED
        BY <1>5, <2>1, <2>2, NumberedAppend, AppendProperties
  <1>6. ASSUME NEW w \in Seq(Events), Numbered(w), \A n \in Nat : Below(events[r], n) => Below(w, n)
        PROVE  /\ Append(w, start) \in Seq(Events) /\ Numbered(Append(w, start))
               /\ \A n \in Nat : Below(events[r], n) /\ 0 < n => Below(Append(w, start), n)
    <2>1. ~(start.n > 0)
          BY <1>2
    <2> QED
        BY <1>2, <1>6, <2>1, NumberedAppend, AppendProperties
  <1>7. \A n \in Nat : m < n => 0 < n
        BY <1>3
  <1>8. CASE v = k
        BY <1>1, <1>4, <1>8
  <1>9. CASE v = Append(k, u)
        BY <1>1, <1>4, <1>5, <1>9
  <1>10. CASE v = Append(k, start)
         BY <1>1, <1>4, <1>6, <1>7, <1>10
  <1>11. CASE v = Append(Append(k, start), u)
    <2> DEFINE w == Append(k, start)
    <2>1. w \in Seq(Events) /\ Numbered(w)
          /\ \A n \in Nat : Below(events[r], n) /\ 0 < n => Below(w, n)
          BY <1>1, <1>4, <1>6
    <2> HIDE DEF w
    <2>2. Below(w, m)
          BY <1>3, <2>1
    <2>3. u.n # 0
          BY <1>3
    <2>4. /\ Append(w, u) \in Seq(Events) /\ Numbered(Append(w, u))
          /\ \A n \in Nat : Below(w, n) /\ u.n < n => Below(Append(w, u), n)
          BY <2>1, <2>2, <2>3, NumberedAppend, AppendProperties
    <2> QED
        BY <1>7, <1>11, <2>1, <2>4 DEF w
  <1> QED
      BY <1>1, <1>8, <1>9, <1>10, <1>11

\* The lists are numbered, and what waits is later than what they hold, at every step.
LEMMA NumberedStep ==
    ASSUME StreamType, EventType, RestType, RunInv, ListInv, OrderInv, [Next]_vars
    PROVE  /\ \A r \in Runs : Numbered(events[r])'
           /\ \A i \in DOMAIN fromAgent' : fromAgent'[i].type # "answer" =>
                 \A r \in Runs : Below(events'[r], fromAgent'[i].n)
  <1>1. /\ \A r \in Runs : Numbered(events[r])
        /\ \A i \in DOMAIN fromAgent : fromAgent[i].type # "answer" =>
              \A r \in Runs : Below(events[r], fromAgent[i].n)
        BY DEF OrderInv
  <1>2. \A r \in Runs : events[r] \in Seq(Events)
        BY DEF EventType
  <1>3. ASSUME NEW r \in Runs, NEW p, NEW active \in BOOLEAN, Adds(r, p, active),
               fromAgent' = fromAgent, log' = log
        PROVE  /\ \A q \in Runs : Numbered(events[q])'
               /\ \A i \in DOMAIN fromAgent' : fromAgent'[i].type # "answer" =>
                     \A q \in Runs : Below(events'[q], fromAgent'[i].n)
    <2> DEFINE w == events[r] \o p
    <2>1. Closing(p, active) /\ events'[r] = w /\ \A q \in Runs \ {r} : events'[q] = events[q]
          BY <1>3 DEF Adds, EventType
    <2>2. Numbered(w) /\ \A n \in Nat : Below(events[r], n) /\ 0 < n => Below(w, n)
          BY <1>1, <1>2, <2>1, NumberedCloses
    <2> HIDE DEF w
    <2>3. ASSUME NEW q \in Runs PROVE Numbered(events[q])'
      <3>1. CASE q = r
            BY <1>3, <2>1, <2>2, <3>1 DEF Numbered, Ascending
      <3>2. CASE q # r
        <4>1. Numbered(events[q]) /\ events'[q] = events[q]
              BY <1>1, <2>1, <3>2
        <4> QED
            BY <1>3, <4>1 DEF Numbered, Ascending
      <3> QED
          BY <3>1, <3>2
    <2>4. ASSUME NEW i \in DOMAIN fromAgent', fromAgent'[i].type # "answer", NEW q \in Runs
          PROVE  Below(events'[q], fromAgent'[i].n)
      <3>1. fromAgent'[i].n \in Nat /\ 0 < fromAgent'[i].n
        <4>1. fromAgent[i].n \in DOMAIN log /\ DOMAIN log = 1 .. Len(log) /\ Len(log) \in Nat
              BY <1>3, <2>4, LenProperties DEF OrderInv, StreamType
        <4> QED
            BY <1>3, <4>1
      <3>2. Below(events[q], fromAgent'[i].n)
            BY <1>1, <1>3, <2>4
      <3> QED
          BY <2>1, <2>2, <3>1, <3>2
    <2> QED
        BY <2>3, <2>4
  <1>4. ASSUME NEW r \in Runs, \/ Start(r) \/ StartRaises(r) \/ Fail(r) \/ Cancelled(r)
                               \/ Return(r) \/ ReturnRaises(r)
        PROVE  /\ \A q \in Runs : Numbered(events[q])'
               /\ \A i \in DOMAIN fromAgent' : fromAgent'[i].type # "answer" =>
                     \A q \in Runs : Below(events'[q], fromAgent'[i].n)
    <2>1. thinking[r] \in BOOLEAN
          BY DEF RestType
    <2>2. fromAgent' = fromAgent /\ log' = log
          BY <1>4 DEF Start, StartRaises, Fail, Cancelled, Return, ReturnRaises, agentVars
    <2> QED
        BY <1>3, <1>4, <2>1, <2>2, OwnEffect, ReturnEffect
  <1>5. ASSUME Update \/ UpdateRaises
        PROVE  /\ \A q \in Runs : Numbered(events[q])'
               /\ \A i \in DOMAIN fromAgent' : fromAgent'[i].type # "answer" =>
                     \A q \in Runs : Below(events'[q], fromAgent'[i].n)
    <2> DEFINE u == Head(fromAgent)
    <2>1. /\ fromAgent # <<>> /\ u.type # "answer" /\ u \in Events
          /\ log' = log /\ fromAgent' \in {Tail(fromAgent), <<>>}
          BY <1>5, HeadEvent DEF Update, UpdateRaises, agentVars
    <2>2. Takes(u)
      <3>1. \A r \in Runs : \A i, j \in Snapshots(events[r]) : i = j
            BY DEF ListInv, Neat, Snapshots, Single
      <3> QED
          BY <1>5, <3>1, TakesEffect DEF RunInv
    <2>3. /\ Len(fromAgent) \in Nat \ {0} /\ DOMAIN fromAgent = 1 .. Len(fromAgent)
          /\ u = fromAgent[1]
          /\ DOMAIN Tail(fromAgent) = 1 .. Len(fromAgent) - 1
          /\ \A i \in DOMAIN Tail(fromAgent) : Tail(fromAgent)[i] = fromAgent[i + 1]
          BY <2>1, PartTail DEF StreamType
    <2> HIDE DEF u
    <2>4. 1 \in DOMAIN fromAgent
          BY <2>3
    <2>5. /\ u.n \in DOMAIN log /\ u = log[u.n] /\ u.n > 0
          /\ \A r \in Runs : Below(events[r], u.n)
      <3>1. /\ u.n \in DOMAIN log /\ u = log[u.n]
            /\ \A r \in Runs : Below(events[r], u.n)
            BY <2>1, <2>3, <2>4 DEF OrderInv
      <3>2. DOMAIN log = 1 .. Len(log) /\ Len(log) \in Nat
            BY LenProperties DEF StreamType
      <3> QED
          BY <3>1, <3>2
    <2>6. ASSUME NEW q \in Runs
          PROVE  /\ Numbered(events'[q])
                 /\ \A n \in Nat : Below(events[q], n) /\ u.n < n => Below(events'[q], n)
      <3>1. CASE q \in handlers
        <4>1. Collects(events'[q], q, u)
              BY <2>2, <3>1 DEF Takes
        <4> QED
            BY <1>1, <2>1, <2>5, <4>1, CollectsNumbered
      <3>2. CASE q \notin handlers
            BY <1>1, <2>2, <3>2 DEF Takes
      <3> QED
          BY <3>1, <3>2
    <2>7. \A q \in Runs : Numbered(events[q])'
          BY <2>1, <2>6 DEF Numbered, Ascending
    <2>8. ASSUME NEW i \in DOMAIN fromAgent', fromAgent'[i].type # "answer", NEW q \in Runs
          PROVE  Below(events'[q], fromAgent'[i].n)
      <3>1. fromAgent' = Tail(fromAgent)
            BY <2>1, <2>8
      <3>2. /\ i + 1 \in DOMAIN fromAgent /\ 1 < i + 1
            /\ fromAgent'[i] = fromAgent[i + 1]
            BY <2>3, <2>8, <3>1
      <3>3. u.n < fromAgent'[i].n /\ fromAgent'[i].n \in DOMAIN log
            BY <2>1, <2>3, <2>4, <2>8, <3>2 DEF OrderInv
      <3>4. DOMAIN log \subseteq Nat
            BY LenProperties DEF StreamType
      <3>5. Below(events[q], fromAgent'[i].n)
            BY <1>1, <2>8, <3>2
      <3> QED
          BY <2>6, <3>3, <3>4, <3>5
    <2> QED
        BY <2>7, <2>8
  <1>6. ASSUME OtherSteps
        PROVE  /\ \A q \in Runs : Numbered(events[q])'
               /\ \A i \in DOMAIN fromAgent' : fromAgent'[i].type # "answer" =>
                     \A q \in Runs : Below(events'[q], fromAgent'[i].n)
    <2>1. events' = events
          BY <1>6, OtherEffect
    <2>2. /\ DOMAIN log \subseteq DOMAIN log'
          /\ \A k \in DOMAIN log : log'[k] = log[k]
          BY LogGrows
    <2>3. \A q \in Runs : Numbered(events[q])'
          BY <1>1, <2>1, <2>2 DEF Numbered, Ascending
    <2>4. CASE Part(fromAgent', fromAgent)
      <3>1. \A i \in DOMAIN fromAgent' : \E j \in DOMAIN fromAgent : fromAgent'[i] = fromAgent[j]
            BY <2>4 DEF Part
      <3> QED
          BY <1>1, <2>1, <2>3, <3>1
    <2>5. ASSUME NEW r \in Runs, NEW kind \in Kinds, AgentSends(r, kind)
          PROVE  \A i \in DOMAIN fromAgent' : fromAgent'[i].type # "answer" =>
                     \A q \in Runs : Below(events'[q], fromAgent'[i].n)
      <3> DEFINE x == [type |-> kind, turn |-> r, n |-> Len(log) + 1]
      <3>1. x \in Up /\ x.n = Len(log) + 1 /\ Len(log) \in Nat /\ fromAgent' = Append(fromAgent, x)
            BY <2>5, SendsEffect
      <3> HIDE DEF x
      <3>2. /\ Len(fromAgent) \in Nat /\ DOMAIN fromAgent = 1 .. Len(fromAgent)
            /\ DOMAIN fromAgent' = 1 .. Len(fromAgent) + 1
            /\ \A i \in 1 .. Len(fromAgent) : fromAgent'[i] = fromAgent[i]
            /\ fromAgent'[Len(fromAgent) + 1] = x
            BY <3>1, AppendEffect DEF StreamType
      <3>3. ASSUME NEW q \in Runs PROVE Below(events[q], Len(log) + 1)
        <4>1. \A i \in DOMAIN events[q] : events[q][i].n \in Nat
              BY <1>2, EventsAre
        <4>2. \A i \in DOMAIN events[q] : events[q][i].n > 0 => events[q][i].n \in 1 .. Len(log)
          <5>1. DOMAIN log = 1 .. Len(log)
                BY LenProperties DEF StreamType
          <5> QED
              BY <1>1, <5>1 DEF Numbered
        <4>3. ASSUME NEW i \in DOMAIN events[q] PROVE events[q][i].n < Len(log) + 1
              BY <3>1, <4>1, <4>2
        <4> QED
            BY <4>3 DEF Below
      <3>4. \A i \in DOMAIN fromAgent' :
               \/ i \in DOMAIN fromAgent /\ fromAgent'[i] = fromAgent[i]
               \/ fromAgent'[i].n = Len(log) + 1
            BY <3>1, <3>2
      <3> QED
          BY <1>1, <2>1, <3>3, <3>4
    <2>6. ASSUME NEW r \in Runs, AgentAnswers(r)
          PROVE  \A i \in DOMAIN fromAgent' : fromAgent'[i].type # "answer" =>
                     \A q \in Runs : Below(events'[q], fromAgent'[i].n)
      <3> DEFINE x == [type |-> "answer", turn |-> r, n |-> 0]
      <3>1. x \in Up /\ x.type = "answer" /\ fromAgent' = Append(fromAgent, x)
            BY <2>6, SessionAssumption DEF Up, AgentAnswers
      <3> HIDE DEF x
      <3>2. /\ Len(fromAgent) \in Nat /\ DOMAIN fromAgent = 1 .. Len(fromAgent)
            /\ DOMAIN fromAgent' = 1 .. Len(fromAgent) + 1
            /\ \A i \in 1 .. Len(fromAgent) : fromAgent'[i] = fromAgent[i]
            /\ fromAgent'[Len(fromAgent) + 1] = x
            BY <3>1, AppendEffect DEF StreamType
      <3>3. \A i \in DOMAIN fromAgent' : fromAgent'[i].type # "answer" =>
               i \in DOMAIN fromAgent /\ fromAgent'[i] = fromAgent[i]
            BY <3>1, <3>2
      <3> QED
          BY <1>1, <2>1, <3>3
    <2> QED
        BY <2>3, <2>4, <2>5, <2>6, StreamChanges
  <1> QED
      BY <1>4, <1>5, <1>6, StepCases

\* The updates are numbered as they are sent, by a run that has started.
LEMMA LogStep ==
    ASSUME StreamType, RestType, StreamInv, [Next]_vars,
           \A k \in DOMAIN log : log[k].n = k /\ phase[log[k].turn] # "idle"
    PROVE  \A k \in DOMAIN log' : log'[k].n = k /\ phase'[log'[k].turn] # "idle"
  <1>1. /\ \A k \in DOMAIN log : log'[k] = log[k] /\ log[k].turn \in Runs
        BY LogGrows DEF Updates
  <1>2. \A k \in DOMAIN log : log'[k].n = k /\ phase'[log'[k].turn] # "idle"
        BY <1>1, StaysStarted
  <1>3. ASSUME NEW r \in Runs, NEW kind \in Kinds, AgentSends(r, kind),
               DOMAIN log = 1 .. Len(log), DOMAIN log' = 1 .. Len(log) + 1, Len(log) \in Nat,
               log'[Len(log) + 1] = [type |-> kind, turn |-> r, n |-> Len(log) + 1]
        PROVE  \A k \in DOMAIN log' : log'[k].n = k /\ phase'[log'[k].turn] # "idle"
    <2>1. phase[r] # "idle"
      <3>1. rpc /\ \E i \in DOMAIN turns : turns[i] = r
            BY <1>3, SendsEffect
      <3> QED
          BY <3>1 DEF StreamInv, Sent
    <2>2. phase'[r] # "idle"
          BY <2>1, StaysStarted
    <2>3. log'[Len(log) + 1].n = Len(log) + 1 /\ log'[Len(log) + 1].turn = r
          BY <1>3
    <2>4. \A k \in DOMAIN log' : k \in DOMAIN log \/ k = Len(log) + 1
          BY <1>3
    <2> QED
        BY <1>2, <2>2, <2>3, <2>4
  <1> QED
      BY <1>2, <1>3, LogGrows

\* The numbers, the stream and the lists stay in the one order, at every step.
LEMMA OrderStep ==
    ASSUME StreamType, EventType, RestType, RunInv, StreamInv, ListInv, OrderInv, [Next]_vars
    PROVE  OrderInv'
  <1>1. InOrder'
        BY InOrderStep DEF InOrder, OrderInv
  <1>2. \A k \in DOMAIN log' : log'[k].n = k /\ phase'[log'[k].turn] # "idle"
        BY LogStep DEF OrderInv
  <1>3. /\ \A r \in Runs : Numbered(events[r])'
        /\ \A i \in DOMAIN fromAgent' : fromAgent'[i].type # "answer" =>
              \A r \in Runs : Below(events'[r], fromAgent'[i].n)
        BY NumberedStep
  <1> QED
      BY <1>1, <1>2, <1>3 DEF OrderInv, InOrder

-----------------------------------------------------------------------------
(* What was sent arrives *)

\* The phases of a run that still counts on what was sent for it.
Counts == {"prompting", "answered", "returned"}

\* What a run adds on its own account takes nothing away.
LEMMA TakenStays ==
    ASSUME NEW s, NEW t, NEW k, Taken(s, k), DOMAIN s \subseteq DOMAIN t,
           \A i \in DOMAIN s : t[i] = s[i]
    PROVE  Taken(t, k)
  <1>1. CASE log[k].type = "progress" /\ \E i \in Snapshots(s) : s[i].n >= k
    <2>1. PICK i \in Snapshots(s) : s[i].n >= k
          BY <1>1
    <2>2. i \in Snapshots(t) /\ t[i].n >= k
          BY <2>1 DEF Snapshots
    <2> QED
        BY <1>1, <2>2 DEF Taken
  <1>2. CASE log[k].type # "progress" /\ \E i \in DOMAIN s : s[i] = log[k]
    <2>1. PICK i \in DOMAIN s : s[i] = log[k]
          BY <1>2
    <2>2. i \in DOMAIN t /\ t[i] = log[k]
          BY <2>1
    <2> QED
        BY <1>2, <2>2 DEF Taken
  <1> QED
      BY <1>1, <1>2 DEF Taken

\* Nor does an update, of which a snapshot replaces an earlier one.
LEMMA TakenCollects ==
    ASSUME EventType, NEW r \in Runs, NEW u \in Events, NEW v, Collects(v, r, u),
           Below(events[r], u.n), NEW k \in DOMAIN log, k \in Nat, Taken(events[r], k)
    PROVE  Taken(v, k)
  <1> DEFINE start == Event("thinking_start")
             s == events[r]
             m == u.n
  <1>1. PICK b \in Seq(Events) :
           /\ \A i \in DOMAIN s :
                 \/ u.type = "progress" /\ s[i].type = "progress"
                 \/ \E j \in DOMAIN b : b[j] = s[i]
           /\ \/ u.type = "compaction" /\ v = b
              \/ v = Append(b, u)
              \/ u.type = "thought" /\ v \in {Append(b, start), Append(Append(b, start), u)}
        BY DEF Collects
  <1>2. start \in Events
        BY PlainEvents DEF OwnTypes
  <1>3. s \in Seq(Events)
        BY DEF EventType
  <1> HIDE DEF start
  <1>4. \A w \in Seq(Events), e \in Events :
           /\ DOMAIN w \subseteq DOMAIN Append(w, e)
           /\ \A i \in DOMAIN w : Append(w, e)[i] = w[i]
           /\ Len(w) + 1 \in DOMAIN Append(w, e) /\ Append(w, e)[Len(w) + 1] = e
    <2>1. ASSUME NEW w \in Seq(Events), NEW e \in Events
          PROVE  /\ DOMAIN w \subseteq DOMAIN Append(w, e)
                 /\ \A i \in DOMAIN w : Append(w, e)[i] = w[i]
                 /\ Len(w) + 1 \in DOMAIN Append(w, e) /\ Append(w, e)[Len(w) + 1] = e
      <3> DEFINE x == Append(w, e)
      <3>1. /\ Len(w) \in Nat /\ DOMAIN w = 1 .. Len(w) /\ DOMAIN x = 1 .. Len(w) + 1
            /\ \A i \in 1 .. Len(w) : x[i] = w[i]
            /\ x[Len(w) + 1] = e
            BY AppendEffect
      <3> HIDE DEF x
      <3>2. /\ DOMAIN w \subseteq DOMAIN x /\ \A i \in DOMAIN w : x[i] = w[i]
            /\ Len(w) + 1 \in DOMAIN x /\ x[Len(w) + 1] = e
            BY <3>1
      <3> QED
          BY <3>2 DEF x
    <2> QED
        BY <2>1
  <1>5. Append(b, start) \in Seq(Events)
        BY <1>2, AppendProperties
  <1>6. DOMAIN b \subseteq DOMAIN v /\ \A i \in DOMAIN b : v[i] = b[i]
    <2>1. CASE v \in {b, Append(b, u), Append(b, start)}
          BY <1>2, <1>4, <2>1
    <2>2. CASE v = Append(Append(b, start), u)
      <3>1. /\ DOMAIN b \subseteq DOMAIN Append(b, start)
            /\ \A i \in DOMAIN b : Append(b, start)[i] = b[i]
            BY <1>2, <1>4
      <3>2. /\ DOMAIN Append(b, start) \subseteq DOMAIN v
            /\ \A i \in DOMAIN Append(b, start) : v[i] = Append(b, start)[i]
            BY <1>4, <1>5, <2>2
      <3> QED
          BY <3>1, <3>2
    <2> QED
        BY <1>1, <2>1, <2>2
  <1>7. \A i \in DOMAIN s :
           \/ u.type = "progress" /\ s[i].type = "progress"
           \/ \E j \in DOMAIN v : v[j] = s[i]
        BY <1>1, <1>6
  <1>8. CASE log[k].type = "progress" /\ \E i \in Snapshots(s) : s[i].n >= k
    <2>1. PICK i \in DOMAIN s : s[i].type = "progress" /\ s[i].n >= k
          BY <1>8 DEF Snapshots
    <2>2. CASE u.type = "progress"
      <3>1. v = Append(b, u)
            BY <1>1, <2>2
      <3>2. PICK j \in DOMAIN v : v[j] = u
            BY <1>4, <3>1
      <3>3. s[i].n \in Nat /\ m \in Nat /\ s[i].n < m
            BY <1>3, EventsAre, EventNumbers DEF Below
      <3>4. m >= k
            BY <2>1, <3>3
      <3>5. j \in Snapshots(v) /\ v[j].n >= k
            BY <2>2, <3>2, <3>4 DEF Snapshots
      <3> QED
          BY <1>8, <3>5 DEF Taken
    <2>3. CASE u.type # "progress"
      <3>1. PICK j \in DOMAIN v : v[j] = s[i]
            BY <1>7, <2>3
      <3>2. j \in Snapshots(v) /\ v[j].n >= k
            BY <2>1, <3>1 DEF Snapshots
      <3> QED
          BY <1>8, <3>2 DEF Taken
    <2> QED
        BY <2>2, <2>3
  <1>9. CASE log[k].type # "progress" /\ \E i \in DOMAIN s : s[i] = log[k]
    <2>1. \E j \in DOMAIN v : v[j] = log[k]
          BY <1>7, <1>9
    <2> QED
        BY <1>9, <2>1 DEF Taken
  <1>10. CASE log[k].type = "compaction"
         BY <1>10 DEF Taken
  <1> QED
      BY <1>8, <1>9, <1>10 DEF Taken

\* An update whose listeners all return is in the list of the run in progress, unless
\* it is a marker.
LEMMA UpdateIsTaken ==
    ASSUME StreamType, EventType, RestType, Update, NEW r \in handlers,
           \A i, j \in Snapshots(events[r]) : i = j
    PROVE  LET u == Head(fromAgent) IN
           u.type = "compaction" \/ \E i \in DOMAIN events'[r] : events'[r][i] = u
  <1> DEFINE u == Head(fromAgent)
             start == Event("thinking_start")
             b == Kept(r, u)
  <1>1. u \in Events /\ start \in Events
        BY HeadEvent, PlainEvents DEF Update, OwnTypes
  <1>2. b \in Seq(Events)
    <2>1. r \in Runs
          BY DEF RestType
    <2> QED
        BY <1>1, <2>1, KeptEffect
  <1>3. events'[r] = b \o Emitted(r, u)
    <2>1. r \in Runs
          BY DEF RestType
    <2> QED
        BY <2>1 DEF Update
  <1> HIDE DEF b, u, start
  <1>4. ASSUME u.type # "compaction"
        PROVE  \E a \in {<<>>, <<start>>} : Emitted(r, u) = a \o <<u>>
    <2>1. CASE u.type = "thought" /\ ~thinking[r]
      <3>1. Emitted(r, u) = <<start>> \o <<u>>
            BY <1>4, <2>1, Zenon DEF Emitted, start
      <3> QED
          BY <3>1
    <2>2. CASE ~(u.type = "thought" /\ ~thinking[r])
      <3>1. Emitted(r, u) = <<>> \o <<u>>
            BY <1>4, <2>2, Zenon DEF Emitted
      <3> QED
          BY <3>1
    <2> QED
        BY <2>1, <2>2
  <1>5. ASSUME NEW x \in Seq(Events), NEW a \in Seq(Events)
        PROVE  \E i \in DOMAIN (x \o (a \o <<u>>)) : (x \o (a \o <<u>>))[i] = u
    <2> DEFINE y == x \o (a \o <<u>>)
    <2>1. <<u>> \in Seq(Events) /\ Len(<<u>>) = 1 /\ <<u>>[1] = u
          BY <1>1
    <2>2. /\ a \o <<u>> \in Seq(Events) /\ Len(a \o <<u>>) = Len(a) + 1
          /\ Len(a) \in Nat /\ Len(x) \in Nat /\ (a \o <<u>>)[Len(a) + 1] = u
      <3>1. Len(a) \in Nat /\ Len(x) \in Nat
            BY LenProperties
      <3>2. /\ a \o <<u>> \in Seq(Events) /\ Len(a \o <<u>>) = Len(a) + Len(<<u>>)
            /\ \A i \in 1 .. Len(a) + Len(<<u>>) :
                  (a \o <<u>>)[i] = IF i <= Len(a) THEN a[i] ELSE <<u>>[i - Len(a)]
            BY <2>1, ConcatProperties
      <3>3. Len(a) + 1 \in 1 .. Len(a) + 1 /\ ~(Len(a) + 1 <= Len(a)) /\ (Len(a) + 1) - Len(a) = 1
            BY <3>1
      <3> QED
          BY <2>1, <3>1, <3>2, <3>3
    <2> DEFINE c == a \o <<u>>
               n == Len(x) + (Len(a) + 1)
    <2>3. /\ y \in Seq(Events) /\ Len(y) = Len(x) + Len(c)
          /\ \A i \in 1 .. Len(x) + Len(c) : y[i] = IF i <= Len(x) THEN x[i] ELSE c[i - Len(x)]
          BY <2>2, ConcatProperties
    <2>4. DOMAIN y = 1 .. Len(x) + Len(c)
          BY <2>3, LenProperties
    <2>5. c[Len(a) + 1] = u /\ Len(c) = Len(a) + 1
          BY <2>2
    <2> HIDE DEF c, y
    <2>6. n \in 1 .. Len(x) + Len(c) /\ ~(n <= Len(x)) /\ n - Len(x) = Len(a) + 1
          BY <2>2, <2>5
    <2>7. n \in DOMAIN y /\ y[n] = u
          BY <2>3, <2>4, <2>5, <2>6
    <2> QED
        BY <2>7 DEF y, c
  <1>6. CASE u.type # "compaction"
    <2>1. PICK a \in {<<>>, <<start>>} : Emitted(r, u) = a \o <<u>>
          BY <1>4, <1>6
    <2>2. a \in Seq(Events)
      <3>1. <<>> \in Seq(Events) /\ <<start>> \in Seq(Events)
            BY <1>1 DEF start
      <3> QED
          BY <3>1, <2>1
    <2>3. \E i \in DOMAIN (b \o (a \o <<u>>)) : (b \o (a \o <<u>>))[i] = u
          BY <1>2, <1>5, <2>2
    <2>4. events'[r] = b \o (a \o <<u>>)
          BY <1>3, <2>1
    <2> QED
        BY <2>3, <2>4, Zenon DEF u
  <1> QED
      BY <1>6 DEF u

\* A run that counts on its updates did so before, or has just started.
LEMMA CountsBefore ==
    ASSUME RestType, [Next]_vars, NEW t \in Runs, phase'[t] \in Counts
    PROVE  phase[t] \in Counts \cup {"idle"}
  <1>1. CASE Update \/ UpdateRaises \/ OtherSteps
        BY <1>1 DEF Update, UpdateRaises, OtherSteps, Cancel, AgentAnswers, AgentSends, Answered,
                    AgentReads, Steer, ConnectionEnds, vars, runVars, Rejected, RestType, InFlight,
                    Counts
  <1>2. ASSUME NEW r \in Runs, \/ Start(r) \/ StartRaises(r) \/ Fail(r) \/ Cancelled(r)
                               \/ Return(r) \/ ReturnRaises(r)
        PROVE  phase[t] \in Counts \cup {"idle"}
        BY <1>2 DEF Start, StartRaises, Fail, Cancelled, Return, ReturnRaises, Leave, RestType,
                    Counts
  <1> QED
      BY <1>1, <1>2, StepCases

\* What was sent for a run stays under way or taken, at every step.
LEMMA DeliveryStep ==
    ASSUME StreamType, EventType, RestType, RunInv, StreamInv, ListInv, OrderInv, DeliveryInv,
           [Next]_vars
    PROVE  DeliveryInv'
  <1> DEFINE Done(r, k) == Taken(events[r], k) \/ \E i \in DOMAIN fromAgent : fromAgent[i] = log[k]
  <1>1. \A k \in DOMAIN log : /\ k \in Nat /\ log[k].turn \in Runs /\ log[k].type \in Kinds
                              /\ log'[k] = log[k] /\ k \in DOMAIN log'
    <2>1. \A k \in DOMAIN log : log'[k] = log[k] /\ log[k] \in Updates /\ k \in DOMAIN log'
          BY LogGrows
    <2>2. DOMAIN log \subseteq Nat
          BY LenProperties DEF StreamType
    <2> QED
        BY <2>1, <2>2 DEF Updates
  <1>2. ASSUME NEW r \in Runs, phase'[r] \in Counts, NEW k \in DOMAIN log, log[k].turn = r
        PROVE  phase[r] \in Counts /\ Done(r, k)
    <2>1. phase[r] \in Counts \cup {"idle"}
          BY <1>2, CountsBefore
    <2>2. phase[r] # "idle"
          BY <1>2 DEF OrderInv
    <2> QED
        BY <1>2, <2>1, <2>2 DEF DeliveryInv, Counts
  <1>3. ASSUME \A r \in Runs : phase'[r] \in Counts =>
                  \A k \in DOMAIN log : (log[k].turn = r /\ Done(r, k)) => Done(r, k)',
               log' = log
        PROVE  DeliveryInv'
        BY <1>2, <1>3 DEF DeliveryInv, Counts
  <1>4. ASSUME NEW q \in Runs, NEW p, NEW active \in BOOLEAN, Adds(q, p, active),
               fromAgent' = fromAgent, log' = log
        PROVE  DeliveryInv'
    <2>1. /\ DOMAIN events[q] \subseteq DOMAIN events'[q]
          /\ \A i \in DOMAIN events[q] : events'[q][i] = events[q][i]
          /\ \A r \in Runs \ {q} : events'[r] = events[r]
          BY <1>4, AddsElements
    <2>2. ASSUME NEW r \in Runs, NEW k, Taken(events[r], k) PROVE Taken(events'[r], k)
          BY <2>1, <2>2, TakenStays
    <2>3. ASSUME NEW r \in Runs, NEW k, Taken(events[r], k) PROVE Taken(events[r], k)'
          BY <1>4, <2>2, <2>3 DEF Taken
    <2> QED
        BY <1>3, <1>4, <2>3
  <1>5. ASSUME NEW r \in Runs, \/ Start(r) \/ StartRaises(r) \/ Fail(r) \/ Cancelled(r)
                               \/ Return(r) \/ ReturnRaises(r)
        PROVE  DeliveryInv'
    <2>1. thinking[r] \in BOOLEAN
          BY DEF RestType
    <2>2. fromAgent' = fromAgent /\ log' = log
          BY <1>5 DEF Start, StartRaises, Fail, Cancelled, Return, ReturnRaises, agentVars
    <2> QED
        BY <1>4, <1>5, <2>1, <2>2, OwnEffect, ReturnEffect
  <1>6. ASSUME Update \/ UpdateRaises PROVE DeliveryInv'
    <2> DEFINE u == Head(fromAgent)
    <2>1. /\ fromAgent # <<>> /\ u \in Events /\ log' = log
          BY <1>6, HeadEvent DEF Update, UpdateRaises, agentVars
    <2>2. /\ Len(fromAgent) \in Nat \ {0} /\ DOMAIN fromAgent = 1 .. Len(fromAgent)
          /\ u = fromAgent[1]
          /\ DOMAIN Tail(fromAgent) = 1 .. Len(fromAgent) - 1
          /\ \A i \in DOMAIN Tail(fromAgent) : Tail(fromAgent)[i] = fromAgent[i + 1]
          BY <2>1, PartTail DEF StreamType
    <2>3. Takes(u)
      <3>1. \A r \in Runs : \A i, j \in Snapshots(events[r]) : i = j
            BY DEF ListInv, Neat, Snapshots, Single
      <3> QED
          BY <1>6, <3>1, TakesEffect DEF RunInv
    <2>4. \A r \in Runs : Below(events[r], u.n)
      <3>1. 1 \in DOMAIN fromAgent /\ u.type # "answer"
            BY <1>6, <2>2 DEF Update, UpdateRaises
      <3> QED
          BY <2>2, <3>1 DEF OrderInv
    <2>5. \A i \in DOMAIN fromAgent : phase[fromAgent[i].turn] \in Sent
          BY DEF StreamInv
    <2>6. ASSUME Update PROVE
             \A r \in handlers :
                u.type = "compaction" \/ \E i \in DOMAIN events'[r] : events'[r][i] = u
      <3>1. \A r \in Runs : \A i, j \in Snapshots(events[r]) : i = j
            BY DEF ListInv, Neat, Snapshots, Single
      <3> QED
          BY <2>6, <3>1, UpdateIsTaken DEF RestType
    <2> HIDE DEF u
    <2>7. ASSUME NEW r \in Runs, NEW k \in DOMAIN log, Taken(events[r], k)
          PROVE  Taken(events[r], k)'
      <3>1. Taken(events'[r], k)
        <4>1. CASE r \in handlers
          <5>1. Collects(events'[r], r, u)
                BY <2>3, <4>1 DEF Takes
          <5> QED
              BY <1>1, <2>1, <2>4, <2>7, <5>1, TakenCollects
        <4>2. CASE r \notin handlers
              BY <2>3, <2>7, <4>2 DEF Takes
        <4> QED
            BY <4>1, <4>2
      <3> QED
          BY <2>1, <3>1 DEF Taken
    <2>8. ASSUME NEW r \in Runs, phase'[r] \in Counts, NEW k \in DOMAIN log, log[k].turn = r,
                 NEW i \in DOMAIN fromAgent, fromAgent[i] = log[k]
          PROVE  Done(r, k)'
      <3>1. phase[r] \in Sent
            BY <2>5, <2>8
      <3>2. CASE UpdateRaises
        <4>1. phase' = Rejected
              BY <3>2 DEF UpdateRaises
        <4>2. phase'[r] = IF phase[r] = "prompting" THEN "rejected" ELSE phase[r]
              BY <4>1 DEF Rejected
        <4> QED
            BY <2>8, <3>1, <4>2 DEF Sent, Counts
      <3>3. CASE Update
        <4>1. phase' = phase /\ fromAgent' = Tail(fromAgent)
              BY <3>3 DEF Update
        <4>2. phase[r] = "prompting"
              BY <2>8, <3>1, <4>1 DEF Sent, Counts
        <4>3. r \in handlers
              BY <4>2 DEF RunInv, InFlight
        <4>4. CASE i = 1
          <5>1. u = log[k] /\ u.n = k
            <6>1. u = log[k]
                  BY <2>2, <2>8, <4>4
            <6> QED
                BY <6>1 DEF OrderInv
          <5>2. u.type = "compaction" \/ \E j \in DOMAIN events'[r] : events'[r][j] = u
                BY <2>6, <3>3, <4>3
          <5>3. Taken(events'[r], k)
            <6>1. CASE u.type = "compaction"
                  BY <5>1, <6>1 DEF Taken
            <6>2. CASE \E j \in DOMAIN events'[r] : events'[r][j] = u
              <7>1. PICK j \in DOMAIN events'[r] : events'[r][j] = u
                    BY <6>2
              <7>2. events'[r][j].n >= k
                    BY <1>1, <5>1, <7>1
              <7>3. u.type = "progress" => j \in Snapshots(events'[r])
                    BY <7>1 DEF Snapshots
              <7> QED
                  BY <5>1, <7>1, <7>2, <7>3 DEF Taken
            <6> QED
                BY <5>2, <6>1, <6>2
          <5> QED
              BY <2>1, <5>3 DEF Taken
        <4>5. CASE i # 1
          <5>1. i - 1 \in DOMAIN Tail(fromAgent) /\ (i - 1) + 1 = i
                BY <2>2, <4>5
          <5>2. fromAgent'[i - 1] = log'[k] /\ i - 1 \in DOMAIN fromAgent'
                BY <2>1, <2>2, <2>8, <4>1, <5>1
          <5> QED
              BY <5>2
        <4> QED
            BY <4>4, <4>5
      <3> QED
          BY <1>6, <3>2, <3>3
    <2> QED
        BY <1>3, <2>1, <2>7, <2>8
  <1>7. ASSUME OtherSteps PROVE DeliveryInv'
    <2>1. events' = events
          BY <1>7, OtherEffect
    <2>2. ASSUME NEW r \in Runs, NEW k \in DOMAIN log, Taken(events[r], k)
          PROVE  Taken(events[r], k)'
          BY <1>1, <2>1, <2>2 DEF Taken
    <2>3. ASSUME log' = log,
                 \A i \in DOMAIN fromAgent :
                    \/ fromAgent[i].type = "answer"
                    \/ \E j \in DOMAIN fromAgent' : fromAgent'[j] = fromAgent[i]
          PROVE  DeliveryInv'
      <3>1. "answer" \notin Kinds
            BY SessionAssumption
      <3>2. ASSUME NEW r \in Runs, NEW k \in DOMAIN log, Done(r, k) PROVE Done(r, k)'
        <4>1. CASE \E i \in DOMAIN fromAgent : fromAgent[i] = log[k]
              BY <1>1, <2>3, <3>1, <4>1
        <4> QED
            BY <2>2, <3>2, <4>1
      <3> QED
          BY <1>3, <2>3, <3>2
    <2>4. CASE \/ \E r \in Runs : Cancel(r)
               \/ AgentReads \/ \E s \in Steers : Steer(s)
               \/ UNCHANGED vars
      <3>1. fromAgent' = fromAgent /\ log' = log
            BY <2>4 DEF Cancel, AgentReads, Steer, vars, agentVars
      <3> QED
          BY <2>3, <3>1
    <2>5. CASE Answered
      <3>1. /\ fromAgent # <<>> /\ fromAgent' = Tail(fromAgent) /\ log' = log
            /\ Head(fromAgent).type = "answer"
            BY <2>5 DEF Answered, agentVars
      <3>2. /\ Len(fromAgent) \in Nat \ {0} /\ DOMAIN fromAgent = 1 .. Len(fromAgent)
            /\ Head(fromAgent) = fromAgent[1]
            /\ DOMAIN fromAgent' = 1 .. Len(fromAgent) - 1
            /\ \A i \in DOMAIN fromAgent' : fromAgent'[i] = fromAgent[i + 1]
            BY <3>1, PartTail DEF StreamType
      <3>3. ASSUME NEW i \in DOMAIN fromAgent
            PROVE  \/ fromAgent[i].type = "answer"
                   \/ \E j \in DOMAIN fromAgent' : fromAgent'[j] = fromAgent[i]
        <4>1. CASE i = 1
              BY <3>1, <3>2, <4>1
        <4>2. CASE i # 1
          <5>1. i - 1 \in DOMAIN fromAgent' /\ (i - 1) + 1 = i
                BY <3>2, <4>2
          <5>2. fromAgent'[i - 1] = fromAgent[i]
                BY <3>2, <5>1
          <5> QED
              BY <5>1, <5>2
        <4> QED
            BY <4>1, <4>2
      <3> QED
          BY <2>3, <3>1, <3>3
    <2>6. ASSUME NEW r \in Runs, AgentAnswers(r) PROVE DeliveryInv'
      <3> DEFINE x == [type |-> "answer", turn |-> r, n |-> 0]
      <3>1. x \in Up /\ fromAgent' = Append(fromAgent, x) /\ log' = log
            BY <2>6, SessionAssumption DEF Up, AgentAnswers
      <3> HIDE DEF x
      <3>2. \A i \in DOMAIN fromAgent : i \in DOMAIN fromAgent' /\ fromAgent'[i] = fromAgent[i]
        <4>1. /\ Len(fromAgent) \in Nat /\ DOMAIN fromAgent = 1 .. Len(fromAgent)
              /\ DOMAIN fromAgent' = 1 .. Len(fromAgent) + 1
              /\ \A i \in 1 .. Len(fromAgent) : fromAgent'[i] = fromAgent[i]
              BY <3>1, AppendEffect DEF StreamType
        <4> QED
            BY <4>1
      <3> QED
          BY <2>3, <3>1, <3>2
    <2>7. ASSUME NEW q \in Runs, NEW kind \in Kinds, AgentSends(q, kind) PROVE DeliveryInv'
      <3> DEFINE x == [type |-> kind, turn |-> q, n |-> Len(log) + 1]
      <3>1. /\ x \in Up /\ x \in Updates /\ fromAgent' = Append(fromAgent, x)
            /\ log' = Append(log, x)
            BY <2>7, SendsEffect
      <3> HIDE DEF x
      <3>2. /\ Len(fromAgent) \in Nat /\ DOMAIN fromAgent = 1 .. Len(fromAgent)
            /\ DOMAIN fromAgent' = 1 .. Len(fromAgent) + 1
            /\ \A i \in 1 .. Len(fromAgent) : fromAgent'[i] = fromAgent[i]
            /\ fromAgent'[Len(fromAgent) + 1] = x
            BY <3>1, AppendEffect DEF StreamType
      <3>3. /\ Len(log) \in Nat /\ DOMAIN log = 1 .. Len(log)
            /\ DOMAIN log' = 1 .. Len(log) + 1
            /\ log'[Len(log) + 1] = x
            BY <3>1, AppendEffect DEF StreamType
      <3>4. /\ \A i \in DOMAIN fromAgent : i \in DOMAIN fromAgent' /\ fromAgent'[i] = fromAgent[i]
            /\ Len(fromAgent) + 1 \in DOMAIN fromAgent'
            BY <3>2
      <3>5. \A k \in DOMAIN log' : k \in DOMAIN log \/ log'[k] = x
            BY <3>3
      <3>6. ASSUME NEW r \in Runs, phase'[r] \in Counts, NEW k \in DOMAIN log', log'[k].turn = r
            PROVE  Done(r, k)'
        <4>1. CASE k \in DOMAIN log
          <5>1. log[k].turn = r /\ log'[k] = log[k]
                BY <1>1, <3>6, <4>1
          <5>2. Done(r, k)
                BY <1>2, <3>6, <4>1, <5>1
          <5>3. CASE \E i \in DOMAIN fromAgent : fromAgent[i] = log[k]
                BY <3>4, <5>1, <5>3
          <5>4. CASE Taken(events[r], k)
                BY <2>2, <4>1, <5>4
          <5> QED
              BY <5>2, <5>3, <5>4
        <4>2. CASE log'[k] = x
              BY <3>2, <3>4, <4>2
        <4> QED
            BY <3>5, <4>1, <4>2
      <3> QED
          BY <3>6 DEF DeliveryInv, Counts
    <2>8. ASSUME NEW byUser \in BOOLEAN, ConnectionEnds(byUser) PROVE DeliveryInv'
      <3>1. phase' = Rejected /\ log' = log
            BY <2>8 DEF ConnectionEnds, agentVars
      <3>2. ASSUME NEW r \in Runs, phase'[r] \in Counts, NEW k \in DOMAIN log, log[k].turn = r,
                   Done(r, k)
            PROVE  Done(r, k)'
        <4>1. phase[r] \notin Sent
              BY <3>1, <3>2 DEF Rejected, Sent, Counts
        <4>2. ~ \E i \in DOMAIN fromAgent : fromAgent[i] = log[k]
              BY <3>2, <4>1 DEF StreamInv
        <4> QED
            BY <2>2, <3>2, <4>2
      <3> QED
          BY <1>3, <3>1, <3>2
    <2> QED
        BY <1>7, <2>4, <2>5, <2>6, <2>7, <2>8 DEF OtherSteps
  <1> QED
      BY <1>5, <1>6, <1>7, StepCases

-----------------------------------------------------------------------------
(* The invariant *)

\* The first state satisfies it.
LEMMA SessionInit == Init => IInv
  <1> SUFFICES ASSUME Init PROVE IInv
      OBVIOUS
  <1> USE DEF Init
  <1>1. 0 \in 0..MaxRaises
        BY SessionAssumption
  <1>2. StreamType
        BY EmptySeq DEF StreamType
  <1>3. EventType
    <2>1. <<>> \in Seq(Events)
          BY EmptySeq
    <2> QED
        BY <2>1 DEF EventType
  <1>4. RestType
        BY <1>1 DEF RestType
  <1>5. RunInv
        BY DEF RunInv, InFlight
  <1>6. DOMAIN <<>> = {}
        OBVIOUS
  <1>7. StreamInv
        BY <1>6 DEF StreamInv
  <1>8. SteerInv
        BY <1>6 DEF SteerInv, SteersTheRunMeant
  <1>9. \A r \in Runs : events[r] = <<>>
        OBVIOUS
  <1>10. OrderInv
         BY <1>6, <1>9 DEF OrderInv, Numbered, Ascending
  <1>11. DeliveryInv
         BY <1>6 DEF DeliveryInv
  <1>12. ListInv
    <2>1. \A type : ~Has(<<>>, type)
          BY <1>6 DEF Has
    <2>2. Neat(<<>>, FALSE)
          BY <1>6, <2>1 DEF Neat
    <2>3. \A r \in Runs : thinking[r] = FALSE /\ phase[r] = "idle"
          OBVIOUS
    <2> QED
        BY <1>9, <2>1, <2>2, <2>3 DEF ListInv
  <1>13. ForeignOnlyAfterAbandon
         BY <1>6, <1>9 DEF ForeignOnlyAfterAbandon
  <1> QED
      BY <1>2, <1>3, <1>4, <1>5, <1>7, <1>8, <1>10, <1>11, <1>12, <1>13, TypeParts DEF IInv

\* Every step keeps it.
LEMMA SessionStep == IInv /\ [Next]_vars => IInv'
  <1> SUFFICES ASSUME IInv, [Next]_vars PROVE IInv'
      OBVIOUS
  <1>1. /\ StreamType /\ EventType /\ RestType /\ RunInv /\ StreamInv /\ SteerInv
        /\ OrderInv /\ DeliveryInv /\ ListInv /\ ForeignOnlyAfterAbandon
        BY TypeParts DEF IInv
  <1>2. StreamType'
        BY <1>1, StreamStepType
  <1>3. RestType'
        BY <1>1, RestStepType
  <1>4. EventType' /\ ListInv'
        BY <1>1, ListStep
  <1>5. RunInv'
        BY <1>1, RunStep
  <1>6. StreamInv'
        BY <1>1, StreamStep
  <1>7. SteerInv'
        BY <1>1, SteerStep
  <1>8. OrderInv'
        BY <1>1, OrderStep
  <1>9. DeliveryInv'
        BY <1>1, DeliveryStep
  <1>10. ForeignOnlyAfterAbandon'
         BY <1>1, ForeignStep
  <1>11. TypeOK'
         BY <1>2, <1>3, <1>4
         DEF TypeOK, StreamType, EventType, RestType, Events, Up, Down, Updates
  <1> QED
      BY <1>4, <1>5, <1>6, <1>7, <1>8, <1>9, <1>10, <1>11 DEF IInv

\* The inductive invariant of a session, from which the other theorems follow.
THEOREM SessionInductive == Spec => []IInv
  <1> QED
      BY SessionInit, SessionStep, PTL DEF Spec

-----------------------------------------------------------------------------
(* What it says *)

\* What was sent for a run that returned is in its events, or replaced there.
LEMMA ReturnedHasAll ==
    ASSUME IInv, NEW r \in Runs, phase[r] = "returned", NEW k \in DOMAIN log, log[k].turn = r
    PROVE  Taken(events[r], k) /\ log[k].n = k
  <1>1. Taken(events[r], k) \/ \E i \in DOMAIN fromAgent : fromAgent[i] = log[k]
        BY DEF IInv, DeliveryInv
  <1>2. \A i \in DOMAIN fromAgent : phase[fromAgent[i].turn] \in Sent
        BY DEF IInv, StreamInv
  <1>3. ~ \E i \in DOMAIN fromAgent : fromAgent[i] = log[k]
        BY <1>2 DEF Sent
  <1> QED
      BY <1>1, <1>3 DEF IInv, OrderInv

\* A run that returned collected every update of its turn, in the order in which they
\* were sent, whenever the answer was taken up and whatever an abandoned turn still
\* sends (session.py:105-138, 195-269).
THEOREM EveryUpdateReachesItsRun == Spec => []UpdatesReachTheirRun
  <1>1. IInv => UpdatesReachTheirRun
    <2> SUFFICES ASSUME IInv, NEW r \in Runs, phase[r] = "returned"
                 PROVE  /\ \A u \in Due(r) : u.type # "progress" => Contains(events[r], u)
                        /\ Ascending(events[r])
        BY DEF UpdatesReachTheirRun
    <2>1. Ascending(events[r])
          BY DEF IInv, OrderInv, Numbered
    <2>2. ASSUME NEW u \in Due(r), u.type # "progress" PROVE Contains(events[r], u)
      <3>1. PICK k \in DOMAIN log : u = log[k] /\ log[k].turn = r /\ log[k].type # "compaction"
            BY DEF Due
      <3>2. Taken(events[r], k)
            BY <3>1, ReturnedHasAll
      <3>3. \E i \in DOMAIN events[r] : events[r][i] = u
            BY <2>2, <3>1, <3>2 DEF Taken
      <3>4. DOMAIN events[r] = 1 .. Len(events[r])
        <4>1. events[r] \in Seq(Events)
              BY TypeParts DEF IInv, EventType
        <4> QED
            BY <4>1, LenProperties
      <3> QED
          BY <3>3, <3>4 DEF Contains
    <2> QED
        BY <2>1, <2>2
  <1> QED
      BY <1>1, SessionInductive, PTL

\* A steering message gets into the turn of the run that was in progress when steer()
\* was called, or into none, or into a turn that was abandoned before
\* (session.py:156-166).
THEOREM SteeringIsOfTheRunMeant == Spec => []SteersTheRunMeant
  <1>1. IInv => SteersTheRunMeant
        BY DEF IInv, SteerInv
  <1> QED
      BY <1>1, SessionInductive, PTL

\* Of the snapshots of a tool a run keeps one, the last of its turn if it returned
\* (session.py:292-309).
LEMMA OneSnapshot == IInv => LatestSnapshotOnly
  <1> SUFFICES ASSUME IInv, NEW r \in Runs
               PROVE  /\ \A i, j \in Snapshots(events[r]) : i = j
                      /\ phase[r] = "returned" => \A u \in Due(r) : u.type = "progress" =>
                            \E i \in Snapshots(events[r]) : events[r][i].n >= u.n
      BY DEF LatestSnapshotOnly
  <1>1. \A i, j \in Snapshots(events[r]) : i = j
        BY DEF IInv, ListInv, Neat, Snapshots, Single
  <1>2. ASSUME phase[r] = "returned", NEW u \in Due(r), u.type = "progress"
        PROVE  \E i \in Snapshots(events[r]) : events[r][i].n >= u.n
    <2>1. PICK k \in DOMAIN log : u = log[k] /\ log[k].turn = r
          BY DEF Due
    <2>2. Taken(events[r], k) /\ log[k].n = k
          BY <1>2, <2>1, ReturnedHasAll
    <2> QED
        BY <1>2, <2>1, <2>2 DEF Taken
  <1> QED
      BY <1>1, <1>2

\* A marker is in one list, once (session.py:197-203).
LEMMA OneMarker == IInv => CompactedOnce
  <1> SUFFICES ASSUME IInv, NEW q \in Runs, NEW r \in Runs,
                      NEW i \in DOMAIN events[q], NEW j \in DOMAIN events[r],
                      events[q][i].type = "compaction", events[r][j].type = "compaction"
               PROVE  q = r /\ i = j
      BY DEF CompactedOnce
  <1>1. q = r
        BY DEF IInv, ListInv, Has
  <1>2. \A a, b \in DOMAIN events[r] :
           (events[r][a].type = events[r][b].type /\ events[r][a].type \in Single) => a = b
        BY DEF IInv, ListInv, Neat
  <1> QED
      BY <1>1, <1>2 DEF Single

\* The thoughts of a run that returned are between one start and one end
\* (session.py:122-124, 211-220).
LEMMA Bracketed == IInv => ThinkingBracketed
  <1> SUFFICES ASSUME IInv, NEW r \in Runs, phase[r] = "returned", "thought" \in Types(r)
               PROVE  LET at(type) == {i \in 1..Len(events[r]) : events[r][i].type = type} IN
                      \E a, b \in 1..Len(events[r]) :
                         /\ at("thinking_start") = {a} /\ at("thinking_end") = {b}
                         /\ \A i \in at("thought") : a < i /\ i < b
      BY DEF ThinkingBracketed
  <1> DEFINE s == events[r]
             at(type) == {i \in 1..Len(s) : s[i].type = type}
  <1>1. DOMAIN s = 1..Len(s)
    <2>1. s \in Seq(Events)
          BY TypeParts DEF IInv, EventType
    <2> QED
        BY <2>1, LenProperties
  <1>2. PICK t \in DOMAIN s : s[t].type = "thought"
        BY <1>1 DEF Types
  <1>3. Neat(s, thinking[r]) /\ ~thinking[r]
        BY DEF IInv, ListInv
  <1> HIDE DEF s
  <1>4. PICK a \in DOMAIN s : s[a].type = "thinking_start"
        BY <1>2, <1>3 DEF Neat
  <1>5. PICK b \in DOMAIN s : s[b].type = "thinking_end"
        BY <1>3, <1>4 DEF Neat, Has
  <1>6. \A i \in DOMAIN s : /\ s[i].type = "thinking_start" => i = a
                            /\ s[i].type = "thinking_end" => i = b
        BY <1>3, <1>4, <1>5 DEF Neat, Single
  <1>7. \A i \in DOMAIN s : s[i].type = "thought" => a < i /\ i < b
        BY <1>3, <1>5, <1>6 DEF Neat
  <1>8. at("thinking_start") = {a} /\ at("thinking_end") = {b}
        BY <1>1, <1>4, <1>5, <1>6
  <1>9. \A i \in at("thought") : a < i /\ i < b
        BY <1>1, <1>7
  <1> QED
      BY <1>1, <1>8, <1>9 DEF s

\* What holds of a session at all times: whose updates its runs take, what it keeps of
\* them, and when it refuses a run (session.py:79-177).
THEOREM SessionIsSafe == Spec => []SessionInv
  <1>1. IInv => RefusesOnlyWhileRunning
        BY DEF IInv, RunInv, RefusesOnlyWhileRunning
  <1>2. IInv => SessionInv
        BY <1>1, OneSnapshot, OneMarker, Bracketed DEF IInv, SessionInv
  <1> QED
      BY <1>2, SessionInductive, PTL
=============================================================================
