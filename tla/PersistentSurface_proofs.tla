---------------------- MODULE PersistentSurface_proofs ----------------------
(***************************************************************************)
(* Theorems about UISurface and PersistentSurface for every set of calls,  *)
(* of handlers, and for every number of updates and events.                *)
(***************************************************************************)
EXTENDS PersistentSurface, SequenceTheorems, TLAPS

\* The messages that are under way in a stream.
In(s) == {s[i] : i \in 1 .. Len(s)}

\* Messages in the order of their numbers.
Ordered(s) == \A i, j \in 1 .. Len(s) : i < j => s[i].sequence < s[j].sequence

\* The handle that is registered is the one that the program may use, or that opens;
\* each opening has a number of its own.
HandleInv ==
    /\ \A h \in Handles :
          /\ registry = h => ~closed[h] /\ opening[h] \in {"opening", "active"}
          /\ opening[h] = "opening" => registry = h \/ closed[h]
          /\ opening[h] = "active" /\ ~closed[h] => registry = h
          /\ opening[h] = "new" => openSeq[h] = 0
          /\ closed[h] \/ opening[h] \in {"opening", "active", "abandoned"} => openSeq[h] > 0
          /\ connected => openSeq[h] <= sequence
    /\ connected => \A g, h \in Handles : openSeq[g] = openSeq[h] /\ openSeq[g] > 0 => g = h
    /\ ~connected => registry = None /\ toHost = <<>> /\ fromHost = <<>> /\ hostOpen = 0

\* A close() that asks the host holds the lock of its handle.
CloserInv ==
    /\ \A c \in Closers :
          /\ closer[c].at # "idle" => closer[c].of \in Handles /\ opening[closer[c].of] = "active"
          /\ closer[c].at = "asking" => closing[closer[c].of]
    /\ \A c, d \in Closers :
          closer[c].at = "asking" /\ closer[d].at = "asking" /\ closer[c].of = closer[d].of => c = d

\* What is on its way to the host is newer than the surface it shows, and a request to
\* open a surface is that of a handle which nothing has closed.
ToHostInv ==
    /\ Ordered(toHost)
    /\ \A m \in In(toHost) :
          /\ hostOpen < m.sequence /\ m.sequence <= sequence
          /\ m.type = "open" => /\ m.of \in Handles /\ openSeq[m.of] = m.sequence /\ ~closed[m.of]
                                /\ opening[m.of] \in {"opening", "abandoned"}
                                /\ opening[m.of] = "opening" => registry = m.of
          /\ m.type = "close" => m.of \in Closers /\ closer[m.of].at # "idle"
    /\ hostOpen <= sequence

\* What the host has said of a surface was true when it said it, and stays true: no
\* request that would open the surface again is on its way.
FromHostInv ==
    \A m \in In(fromHost) :
        /\ m.of = None =>
              /\ 0 < m.sequence /\ m.sequence <= sequence /\ m.sequence # hostOpen
              /\ \A q \in In(toHost) : m.sequence < q.sequence
        /\ m.of \in Handles =>
              /\ m.type \in {"opened", "refused"} /\ opening[m.of] # "new" /\ openSeq[m.of] > 0
              /\ \A q \in In(toHost) : q.type = "open" => q.of # m.of
              /\ m.type = "refused" => hostOpen # openSeq[m.of]
        /\ m.of \in Closers =>
              /\ closer[m.of].at # "idle"
              /\ m.type = "closed" => hostOpen # openSeq[closer[m.of].of]

\* The lines that wait are newer than those in the frame, and those than what was sent.
FrameInv ==
    \A h \in Handles :
        /\ sent[h] <= version[h] /\ pending[h] <= version[h] /\ flight[h].version <= version[h]
        /\ pending[h] # 0 => pending[h] > sent[h] /\ pending[h] > flight[h].version
        /\ flight[h].at = "created" => flight[h].version > sent[h]

HostInv == HostSurfaceIsOwned /\ ClosedAtHost

UInv == TypeOK /\ HandleInv /\ CloserInv /\ ToHostInv /\ FromHostInv /\ FrameInv /\ HostInv
-----------------------------------------------------------------------------
(* Streams *)

\* A message that is sent is under way, and nothing else changes.
LEMMA InAppend ==
    ASSUME NEW S, NEW s \in Seq(S), NEW e \in S
    PROVE  Append(s, e) \in Seq(S) /\ In(Append(s, e)) = In(s) \cup {e}
  <1>1. /\ Append(s, e) \in Seq(S) /\ Len(Append(s, e)) = Len(s) + 1
        /\ \A i \in 1 .. Len(s) : Append(s, e)[i] = s[i]
        /\ Append(s, e)[Len(s) + 1] = e
        OBVIOUS
  <1>2. 1 .. Len(s) + 1 = (1 .. Len(s)) \cup {Len(s) + 1}
        OBVIOUS
  <1> QED
        BY <1>1, <1>2 DEF In

\* A message that is read was under way; the others are still.
LEMMA InTail ==
    ASSUME NEW S, NEW s \in Seq(S), s # <<>>
    PROVE  /\ Tail(s) \in Seq(S) /\ Len(Tail(s)) = Len(s) - 1
           /\ Head(s) \in S /\ Head(s) \in In(s) /\ Head(s) = s[1]
           /\ \A i \in 1 .. Len(s) - 1 : Tail(s)[i] = s[i + 1]
           /\ In(Tail(s)) \subseteq In(s)
  <1>1. /\ Tail(s) \in Seq(S) /\ Len(Tail(s)) = Len(s) - 1 /\ Len(s) \in Nat /\ Len(s) > 0
        /\ \A i \in 1 .. Len(s) - 1 : Tail(s)[i] = s[i + 1]
        OBVIOUS
  <1>2. Head(s) \in S /\ Head(s) = s[1]
        OBVIOUS
  <1>3. In(Tail(s)) \subseteq In(s)
        BY <1>1 DEF In
  <1> QED
        BY <1>1, <1>2, <1>3 DEF In

\* What is under way is of the type of the stream.
LEMMA InType == ASSUME NEW S, NEW s \in Seq(S) PROVE In(s) \subseteq S
  BY DEF In

\* Nothing is under way in an empty stream.
LEMMA InEmpty == In(<<>>) = {}
  BY DEF In

\* Sending numbers a message and puts it behind the others.
LEMMA SendEffect ==
    ASSUME TypeOK, NEW type \in {"open", "frame", "close"}, NEW of \in Handles \cup Closers,
           Send(type, of)
    PROVE  /\ sequence' = sequence + 1 /\ sequence' \in Nat
           /\ toHost' \in Seq(Requests) /\ Message(type, of, sequence + 1) \in Requests
           /\ toHost' = Append(toHost, Message(type, of, sequence + 1))
           /\ In(toHost') = In(toHost) \cup {Message(type, of, sequence + 1)}
  <1>1. sequence \in Nat /\ toHost \in Seq(Requests)
        BY DEF TypeOK
  <1>2. Message(type, of, sequence + 1) \in Requests
        BY <1>1 DEF Message, Requests
  <1> QED
        BY <1>1, <1>2, InAppend DEF Send

\* What is sent has a number above all that is under way.
LEMMA SendOrdered ==
    ASSUME TypeOK, ToHostInv, NEW type \in {"open", "frame", "close"},
           NEW of \in Handles \cup Closers, Send(type, of)
    PROVE  Ordered(toHost')
  <1>1. /\ toHost' = Append(toHost, Message(type, of, sequence + 1))
        /\ toHost \in Seq(Requests) /\ Message(type, of, sequence + 1) \in Requests
        BY SendEffect DEF TypeOK
  <1>2. /\ Len(toHost') = Len(toHost) + 1 /\ Len(toHost) \in Nat
        /\ \A i \in 1 .. Len(toHost) : toHost'[i] = toHost[i] /\ toHost[i] \in Requests
        /\ toHost'[Len(toHost) + 1].sequence = sequence + 1
        BY <1>1 DEF Message
  <1>3. \A i \in 1 .. Len(toHost) : toHost[i].sequence \in Nat /\ toHost[i].sequence <= sequence
        BY <1>2 DEF ToHostInv, In, Requests
  <1>4. sequence \in Nat
        BY DEF TypeOK
  <1>5. ASSUME NEW i \in 1 .. Len(toHost'), NEW j \in 1 .. Len(toHost'), i < j
        PROVE  toHost'[i].sequence < toHost'[j].sequence
    <2>1. i \in 1 .. Len(toHost) /\ toHost'[i].sequence = toHost[i].sequence
          BY <1>2, <1>5
    <2>2. CASE j \in 1 .. Len(toHost)
          BY <1>2, <1>5, <2>1, <2>2 DEF ToHostInv, Ordered
    <2>3. CASE j = Len(toHost) + 1
          BY <1>2, <1>3, <1>4, <2>1, <2>3
    <2> QED
          BY <1>2, <2>2, <2>3
  <1> QED
        BY <1>5 DEF Ordered

\* What the host reads is older than the rest.
LEMMA ReadOrdered ==
    ASSUME TypeOK, ToHostInv, toHost # <<>>, toHost' = Tail(toHost)
    PROVE  /\ toHost' \in Seq(Requests) /\ In(toHost') \subseteq In(toHost)
           /\ Head(toHost) \in Requests /\ Head(toHost) \in In(toHost)
           /\ Ordered(toHost')
           /\ \A q \in In(toHost') : Head(toHost).sequence < q.sequence
  <1>1. toHost \in Seq(Requests)
        BY DEF TypeOK
  <1>2. /\ toHost' \in Seq(Requests) /\ In(toHost') \subseteq In(toHost)
        /\ Head(toHost) \in Requests /\ Head(toHost) \in In(toHost) /\ Head(toHost) = toHost[1]
        /\ Len(toHost') = Len(toHost) - 1 /\ Len(toHost) \in Nat
        /\ \A i \in 1 .. Len(toHost) - 1 : toHost'[i] = toHost[i + 1]
        BY <1>1, InTail
  <1>3. Ordered(toHost')
        BY <1>2 DEF ToHostInv, Ordered
  <1>4. \A i \in 1 .. Len(toHost') : Head(toHost).sequence < toHost'[i].sequence
        BY <1>2 DEF ToHostInv, Ordered
  <1> QED
        BY <1>2, <1>3, <1>4 DEF In

\* The host's answer goes behind what it said before.
LEMMA ReplyEffect ==
    ASSUME TypeOK, NEW type \in {"opened", "refused", "closed"},
           NEW of \in Handles \cup Closers \cup {None}, NEW n \in Nat, Reply(type, of, n)
    PROVE  /\ fromHost' \in Seq(Replies)
           /\ In(fromHost') = In(fromHost) \cup {Message(type, of, n)}
  <1>1. fromHost \in Seq(Replies) /\ Message(type, of, n) \in Replies
        BY DEF TypeOK, Message, Replies
  <1> QED
        BY <1>1, InAppend DEF Reply

\* The client takes the first of the host's messages.
LEMMA TakeEffect ==
    ASSUME TypeOK, fromHost # <<>>, TakeAnswer
    PROVE  /\ fromHost' \in Seq(Replies) /\ In(fromHost') \subseteq In(fromHost)
           /\ Head(fromHost) \in In(fromHost) /\ Head(fromHost) \in Replies
           /\ toHost' = toHost /\ hostOpen' = hostOpen
  <1>1. fromHost \in Seq(Replies)
        BY DEF TypeOK
  <1> QED
        BY <1>1, InTail DEF TakeAnswer

\* A handle's frame may become due; nothing else is in its flag.
LEMMA ScheduleEffect ==
    ASSUME TypeOK, NEW h \in Handles, NEW isClosing, NEW lines, NEW frame,
           Schedule(h, isClosing, lines, frame)
    PROVE  scheduled' \in [Handles -> BOOLEAN]
  BY DEF Schedule, TypeOK

\* A handle that is cleared is closed, and holds no lines.
LEMMA ClearEffect ==
    ASSUME TypeOK, NEW h \in Handles, Clear(h)
    PROVE  /\ closed' \in [Handles -> BOOLEAN] /\ pending' \in [Handles -> 0 .. MaxUpdates]
           /\ \A g \in Handles : /\ closed'[g] = (closed[g] \/ g = h)
                                 /\ pending'[g] = IF g = h THEN 0 ELSE pending[g]
  <1>1. 0 \in 0 .. MaxUpdates
        BY SurfaceAssumption
  <1> QED
        BY <1>1 DEF Clear, TypeOK

-----------------------------------------------------------------------------
(* The surfaces *)

\* To the surfaces, a step of the whole is a step of theirs or none.
LEMMA NextOfSurface == [SurfaceNext]_surfaceVars => [Next]_vars
  BY DEF SurfaceNext, surfaceVars, Joint, HostEmits, Routed, Subscriptions, Next

\* Every step keeps the types.
LEMMA StepType ==
    ASSUME TypeOK, CloserInv, [Next]_vars
    PROVE  TypeOK'
  <1>1. ASSUME NEW h \in Handles, OpenAnswered(h) PROVE TypeOK'
    <2>1. fromHost # <<>> /\ TakeAnswer
          BY <1>1 DEF OpenAnswered, Answer
    <2>2. registry' \in Handles \cup {None}
          BY <1>1 DEF OpenAnswered, Unregister, TypeOK
    <2>3. opening' \in [Handles -> {"new", "opening", "active", "failed", "abandoned"}]
          BY <1>1 DEF OpenAnswered, TypeOK
    <2> QED
          BY <1>1, <2>1, <2>2, <2>3, TakeEffect DEF OpenAnswered, TypeOK
  <1>2. ASSUME NEW c \in Closers, CloseAnswered(c) PROVE TypeOK'
    <2>1. fromHost # <<>> /\ TakeAnswer
          BY <1>2 DEF CloseAnswered, Answer
    <2>2. /\ registry' \in Handles \cup {None} /\ closer' \in [Closers -> CloseCalls]
          /\ closed' \in [Handles -> BOOLEAN] /\ closing' \in [Handles -> BOOLEAN]
          /\ pending' \in [Handles -> 0 .. MaxUpdates] /\ scheduled' \in [Handles -> BOOLEAN]
      <3>1. CASE closer[c].at # "asking"
            BY <1>2, <3>1 DEF CloseAnswered, TypeOK
      <3>2. CASE closer[c].at = "asking"
        <4>1. closer[c].of \in Handles /\ closing' = [closing EXCEPT ![closer[c].of] = FALSE]
              BY <1>2, <3>2 DEF CloseAnswered, CloserInv
        <4>2. CASE /\ closer' = [closer EXCEPT ![c].at = "returned"] /\ Clear(closer[c].of)
                   /\ Unregister(closer[c].of) /\ UNCHANGED scheduled
          <5>1. closer' \in [Closers -> CloseCalls]
                BY <4>2 DEF CloseCalls, TypeOK
          <5>2. pending' \in [Handles -> 0 .. MaxUpdates] /\ closed' \in [Handles -> BOOLEAN]
                BY <4>1, <4>2, ClearEffect
          <5>3. registry' \in Handles \cup {None} /\ scheduled' \in [Handles -> BOOLEAN]
                BY <4>2 DEF Unregister, TypeOK
          <5>4. closing' \in [Handles -> BOOLEAN]
                BY <4>1 DEF TypeOK
          <5> QED
                BY <5>1, <5>2, <5>3, <5>4
        <4>3. CASE /\ closer' = [closer EXCEPT ![c].at = "failed"]
                   /\ Schedule(closer[c].of, FALSE, pending[closer[c].of], flight[closer[c].of])
                   /\ UNCHANGED <<registry, closed, pending>>
          <5>1. scheduled' \in [Handles -> BOOLEAN]
                BY <4>1, <4>3, ScheduleEffect
          <5> QED
                BY <4>1, <4>3, <5>1, ZenonT(30) DEF CloseCalls, TypeOK
        <4> QED
              BY <1>2, <3>2, <4>2, <4>3 DEF CloseAnswered
      <3> QED
            BY <3>1, <3>2
    <2> QED
          BY <1>2, <2>1, <2>2, TakeEffect DEF CloseAnswered, TypeOK
  <1>3. ASSUME ClosedNotice PROVE TypeOK'
    <2>1. fromHost # <<>> /\ TakeAnswer
          BY <1>3 DEF ClosedNotice
    <2>2. /\ registry' \in Handles \cup {None} /\ closed' \in [Handles -> BOOLEAN]
          /\ pending' \in [Handles -> 0 .. MaxUpdates]
      <3>1. CASE registry \in Handles /\ Clear(registry) /\ registry' = None
            BY <3>1, ClearEffect
      <3>2. CASE UNCHANGED <<registry, closed, pending>>
            BY <3>2 DEF TypeOK
      <3> QED
            BY <1>3, <3>1, <3>2 DEF ClosedNotice, TypeOK
    <2> QED
          BY <1>3, <2>1, <2>2, TakeEffect DEF ClosedNotice, TypeOK
  <1>4. ASSUME NEW h \in Handles, Open(h) PROVE TypeOK'
    <2>1. CASE registry # None
          BY <1>4, <2>1 DEF Open, TypeOK
    <2>2. CASE registry = None
      <3>1. sequence' \in Nat /\ toHost' \in Seq(Requests) /\ sequence + 1 \in Nat
            BY <1>4, <2>2, SendEffect DEF Open, TypeOK
      <3> QED
            BY <1>4, <2>2, <3>1 DEF Open, TypeOK
    <2> QED
          BY <2>1, <2>2
  <1>5. ASSUME NEW h \in Handles, CancelOpen(h) PROVE TypeOK'
      BY <1>5 DEF CancelOpen, Unregister, TypeOK, hostVars
  <1>6. ASSUME NEW h \in Handles, Update(h) PROVE TypeOK'
    <2>1. scheduled' \in [Handles -> BOOLEAN]
          BY <1>6, ScheduleEffect DEF Update
    <2>2. version[h] + 1 \in 0 .. MaxUpdates
          BY <1>6, SurfaceAssumption DEF Update, TypeOK
    <2>3. version' \in [Handles -> 0 .. MaxUpdates] /\ pending' \in [Handles -> 0 .. MaxUpdates]
          BY <1>6, <2>2 DEF Update, TypeOK
    <2> QED
          BY <1>6, <2>1, <2>3 DEF Update, TypeOK, hostVars
  <1>7. ASSUME NEW h \in Handles, StartFrame(h) PROVE TypeOK'
    <2>1. pending' \in [Handles -> 0 .. MaxUpdates] /\ flight' \in [Handles -> Frames]
      <3>1. CASE UNCHANGED <<pending, flight>>
            BY <3>1 DEF TypeOK
      <3>2. CASE /\ flight' = [flight EXCEPT ![h] = [version |-> pending[h], at |-> "created"]]
                 /\ pending' = [pending EXCEPT ![h] = 0]
            BY <3>2, SurfaceAssumption DEF Frames, TypeOK
      <3> QED
            BY <1>7, <3>1, <3>2 DEF StartFrame
    <2> QED
          BY <1>7, <2>1 DEF StartFrame, TypeOK, hostVars
  <1>8. ASSUME NEW h \in Handles, RunFrame(h) PROVE TypeOK'
    <2>1. CASE closed[h] \/ closing[h] \/ ~connected
      <3>1. scheduled' \in [Handles -> BOOLEAN]
            BY <1>8, <2>1, ScheduleEffect DEF RunFrame
      <3>2. NoFrame \in Frames /\ flight[h].version \in 0 .. MaxUpdates
            BY SurfaceAssumption DEF NoFrame, Frames, TypeOK
      <3>3. flight' \in [Handles -> Frames] /\ pending' \in [Handles -> 0 .. MaxUpdates]
            BY <1>8, <2>1, <3>2, ZenonT(30) DEF RunFrame, TypeOK
      <3> QED
            BY <1>8, <2>1, <3>1, <3>3 DEF RunFrame, TypeOK
    <2>2. CASE ~(closed[h] \/ closing[h] \/ ~connected)
      <3>1. sequence' \in Nat /\ toHost' \in Seq(Requests)
            BY <1>8, <2>2, SendEffect DEF RunFrame
      <3>2. flight[h].version \in 0 .. MaxUpdates
            BY DEF Frames, TypeOK
      <3>3. sent' \in [Handles -> 0 .. MaxUpdates]
            BY <1>8, <2>2, <3>2 DEF RunFrame, TypeOK
      <3>4. flight' = [flight EXCEPT ![h].at = "sending"]
            BY <1>8, <2>2 DEF RunFrame
      <3>5. flight' \in [Handles -> Frames]
            BY <3>4 DEF Frames, TypeOK
      <3> QED
            BY <1>8, <2>2, <3>1, <3>3, <3>5 DEF RunFrame, TypeOK
    <2> QED
          BY <2>1, <2>2
  <1>9. ASSUME NEW h \in Handles, FrameSent(h) PROVE TypeOK'
    <2>1. scheduled' \in [Handles -> BOOLEAN]
          BY <1>9, ScheduleEffect DEF FrameSent
    <2>2. flight' \in [Handles -> Frames]
          BY <1>9, SurfaceAssumption DEF FrameSent, NoFrame, Frames, TypeOK
    <2> QED
          BY <1>9, <2>1, <2>2 DEF FrameSent, TypeOK, hostVars
  <1>10. ASSUME NEW c \in Closers, NEW h \in Handles, Close(c, h) PROVE TypeOK'
      BY <1>10 DEF Close, CloseCalls, TypeOK, handleVars, hostVars
  <1>11. ASSUME NEW c \in Closers, LockClose(c) PROVE TypeOK'
    <2>1. closer' \in [Closers -> CloseCalls]
      <3>1. PICK x \in {"returned", "failed", "asking"} : closer' = [closer EXCEPT ![c].at = x]
            BY <1>11 DEF LockClose
      <3> QED
            BY <3>1 DEF CloseCalls, TypeOK
    <2>2. CASE closed[closer[c].of] \/ ~connected
          BY <1>11, <2>1, <2>2 DEF LockClose, TypeOK
    <2>3. CASE ~(closed[closer[c].of] \/ ~connected)
      <3>1. sequence' \in Nat /\ toHost' \in Seq(Requests)
            BY <1>11, <2>3, SendEffect DEF LockClose
      <3>2. closing' \in [Handles -> BOOLEAN]
            BY <1>11, <2>3 DEF LockClose, TypeOK
      <3> QED
            BY <1>11, <2>1, <2>3, <3>1, <3>2 DEF LockClose, TypeOK
    <2> QED
          BY <2>2, <2>3
  <1>12. ASSUME NEW c \in Closers, CancelClose(c) PROVE TypeOK'
    <2>1. closer' \in [Closers -> CloseCalls]
      <3>1. closer' = [closer EXCEPT ![c].at = "cancelled"]
            BY <1>12 DEF CancelClose
      <3> QED
            BY <3>1 DEF CloseCalls, TypeOK
    <2>2. CASE closer[c].at = "asking"
      <3>1. closer[c].of \in Handles
            BY <2>2 DEF CloserInv
      <3>2. scheduled' \in [Handles -> BOOLEAN]
            BY <1>12, <2>2, <3>1, ScheduleEffect DEF CancelClose
      <3> QED
            BY <1>12, <2>1, <2>2, <3>1, <3>2 DEF CancelClose, TypeOK, hostVars
    <2>3. CASE closer[c].at # "asking"
          BY <1>12, <2>1, <2>3 DEF CancelClose, TypeOK, hostVars
    <2> QED
          BY <2>2, <2>3
  <1>13. ASSUME Disconnect PROVE TypeOK'
    <2>1. closer' \in [Closers -> CloseCalls]
      <3>1. \A c \in Closers : [closer[c] EXCEPT !.at = "failed"] \in CloseCalls
            BY DEF CloseCalls, TypeOK
      <3> QED
            BY <1>13, <3>1 DEF Disconnect, TypeOK
    <2>2. flight' \in [Handles -> Frames] /\ pending' \in [Handles -> 0 .. MaxUpdates]
          BY <1>13, SurfaceAssumption DEF Disconnect, NoFrame, Frames, TypeOK
    <2>3. closed' \in [Handles -> BOOLEAN] /\ closing' \in [Handles -> BOOLEAN]
          BY <1>13 DEF Disconnect, TypeOK
    <2>4. opening' \in [Handles -> {"new", "opening", "active", "failed", "abandoned"}]
          BY <1>13 DEF Disconnect, TypeOK
    <2>5. toHost' \in Seq(Requests) /\ fromHost' \in Seq(Replies)
          BY <1>13 DEF Disconnect
    <2> QED
          BY <1>13, <2>1, <2>2, <2>3, <2>4, <2>5 DEF Disconnect, TypeOK
  <1>14. ASSUME HostReads PROVE TypeOK'
    <2>1. toHost' \in Seq(Requests) /\ Head(toHost) \in Requests
          BY <1>14, InTail DEF HostReads, TypeOK
    <2>2. Head(toHost).sequence \in Nat /\ Head(toHost).of \in Handles \cup Closers
          BY <2>1 DEF Requests
    <2>3. hostOpen' \in Nat
          BY <1>14, <2>2 DEF HostReads, TypeOK
    <2>4. fromHost' \in Seq(Replies)
          BY <1>14, <2>2, ReplyEffect DEF HostReads, TypeOK
    <2> QED
          BY <1>14, <2>1, <2>3, <2>4 DEF HostReads, TypeOK, handleVars
  <1>15. ASSUME HostCloses PROVE TypeOK'
    <2>1. fromHost' \in Seq(Replies)
          BY <1>15, ReplyEffect DEF HostCloses, TypeOK
    <2> QED
          BY <1>15, <2>1 DEF HostCloses, TypeOK, handleVars
  <1>16. CASE UNCHANGED vars
      BY <1>16 DEF vars, handleVars, hostVars, TypeOK
  <1> QED
      BY <1>1, <1>2, <1>3, <1>4, <1>5, <1>6, <1>7, <1>8, <1>9, <1>10, <1>11, <1>12, <1>13,
         <1>14, <1>15, <1>16
         DEF Next, ReadNext, CallNext, HostNext

\* No frame overtakes a newer one, and a frame that is put back takes no newer one's place.
LEMMA StepFrame ==
    ASSUME TypeOK, CloserInv, FrameInv, [Next]_vars
    PROVE  FrameInv'
  <1>1. ASSUME NEW h \in Handles, OpenAnswered(h) PROVE FrameInv'
      BY <1>1 DEF OpenAnswered, Answer, TypeOK, FrameInv
  <1>2. ASSUME NEW c \in Closers, CloseAnswered(c) PROVE FrameInv'
    <2>1. UNCHANGED <<version, flight, sent>>
          BY <1>2 DEF CloseAnswered
    <2>2. CASE UNCHANGED pending
          BY <2>1, <2>2 DEF FrameInv
    <2>3. CASE closer[c].of \in Handles /\ Clear(closer[c].of)
      <3>1. \A g \in Handles : pending'[g] = 0 \/ pending'[g] = pending[g]
            BY <2>3, ClearEffect
      <3>2. \A g \in Handles : 0 <= version[g]
            BY DEF TypeOK
      <3> QED
            BY <2>1, <3>1, <3>2 DEF FrameInv
    <2> QED
          BY <1>2, <2>2, <2>3 DEF CloseAnswered, CloserInv
  <1>3. ASSUME ClosedNotice PROVE FrameInv'
      BY <1>3 DEF ClosedNotice, Clear, TypeOK, FrameInv
  <1>4. ASSUME NEW h \in Handles, Open(h) PROVE FrameInv'
      BY <1>4 DEF Open, TypeOK, Frames, FrameInv
  <1>5. ASSUME NEW h \in Handles, CancelOpen(h) PROVE FrameInv'
      BY <1>5 DEF CancelOpen, TypeOK, Frames, FrameInv
  <1>6. ASSUME NEW h \in Handles, Update(h) PROVE FrameInv'
      BY <1>6, SMTT(30) DEF Update, TypeOK, Frames, FrameInv
  <1>7. ASSUME NEW h \in Handles, StartFrame(h) PROVE FrameInv'
      BY <1>7, SMTT(30) DEF StartFrame, TypeOK, Frames, NoFrame, FrameInv
  <1>8. ASSUME NEW h \in Handles, RunFrame(h) PROVE FrameInv'
    <2>1. flight[h].at = "created" /\ UNCHANGED version
          BY <1>8 DEF RunFrame
    <2>2. CASE closed[h] \/ closing[h] \/ ~connected
      <3>1. /\ flight' = [flight EXCEPT ![h] = NoFrame] /\ UNCHANGED sent
            /\ \/ UNCHANGED pending
               \/ pending[h] = 0 /\ pending' = [pending EXCEPT ![h] = flight[h].version]
            BY <1>8, <2>2 DEF RunFrame, TypeOK
      <3> QED
            BY <2>1, <3>1, SMTT(30) DEF FrameInv, NoFrame, Frames, TypeOK
    <2>3. CASE ~(closed[h] \/ closing[h] \/ ~connected)
      <3>1. /\ flight' = [flight EXCEPT ![h].at = "sending"] /\ UNCHANGED pending
            /\ sent' = [sent EXCEPT ![h] = flight[h].version]
            BY <1>8, <2>3 DEF RunFrame
      <3> QED
            BY <2>1, <3>1 DEF FrameInv, Frames, TypeOK
    <2> QED
          BY <2>2, <2>3
  <1>9. ASSUME NEW h \in Handles, FrameSent(h) PROVE FrameInv'
      BY <1>9 DEF FrameSent, TypeOK, NoFrame, FrameInv
  <1>10. ASSUME NEW c \in Closers, NEW h \in Handles, Close(c, h) PROVE FrameInv'
      BY <1>10 DEF Close, TypeOK, FrameInv, handleVars
  <1>11. ASSUME NEW c \in Closers, LockClose(c) PROVE FrameInv'
      BY <1>11 DEF LockClose, TypeOK, Frames, FrameInv
  <1>12. ASSUME NEW c \in Closers, CancelClose(c) PROVE FrameInv'
      BY <1>12 DEF CancelClose, TypeOK, Frames, FrameInv
  <1>13. ASSUME Disconnect PROVE FrameInv'
      BY <1>13 DEF Disconnect, TypeOK, NoFrame, FrameInv
  <1>14. ASSUME HostReads PROVE FrameInv'
      BY <1>14 DEF HostReads, TypeOK, FrameInv, handleVars
  <1>15. ASSUME HostCloses PROVE FrameInv'
      BY <1>15 DEF HostCloses, TypeOK, FrameInv, handleVars
  <1>16. CASE UNCHANGED vars
      BY <1>16 DEF vars, handleVars, hostVars, FrameInv
  <1> QED
      BY <1>1, <1>2, <1>3, <1>4, <1>5, <1>6, <1>7, <1>8, <1>9, <1>10, <1>11, <1>12, <1>13,
         <1>14, <1>15, <1>16
         DEF Next, ReadNext, CallNext, HostNext

\* Only the call that holds the lock asks the host.
LEMMA StepCloser ==
    ASSUME TypeOK, HandleInv, CloserInv, [Next]_vars
    PROVE  CloserInv'
  <1>1. ASSUME NEW h \in Handles, OpenAnswered(h) PROVE CloserInv'
      BY <1>1 DEF OpenAnswered, Answer, TypeOK, CloserInv
  <1>2. ASSUME NEW c \in Closers, CloseAnswered(c) PROVE CloserInv'
    <2>1. UNCHANGED opening
          BY <1>2 DEF CloseAnswered
    <2>2. CASE closer[c].at # "asking"
          BY <1>2, <2>1, <2>2 DEF CloseAnswered, CloserInv
    <2>3. CASE closer[c].at = "asking"
      <3>1. PICK x \in {"returned", "failed"} : closer' = [closer EXCEPT ![c].at = x]
            BY <1>2, <2>3 DEF CloseAnswered
      <3>2. closing' = [closing EXCEPT ![closer[c].of] = FALSE]
            BY <1>2, <2>3 DEF CloseAnswered
      <3> QED
            BY <2>1, <2>3, <3>1, <3>2 DEF CloserInv, CloseCalls, TypeOK
    <2> QED
          BY <2>2, <2>3
  <1>3. ASSUME ClosedNotice PROVE CloserInv'
      BY <1>3 DEF ClosedNotice, TypeOK, CloseCalls, CloserInv
  <1>4. ASSUME NEW h \in Handles, Open(h) PROVE CloserInv'
      BY <1>4 DEF Open, TypeOK, CloseCalls, CloserInv
  <1>5. ASSUME NEW h \in Handles, CancelOpen(h) PROVE CloserInv'
      BY <1>5 DEF CancelOpen, TypeOK, CloseCalls, CloserInv
  <1>6. ASSUME NEW h \in Handles, Update(h) PROVE CloserInv'
      BY <1>6 DEF Update, TypeOK, CloseCalls, CloserInv
  <1>7. ASSUME NEW h \in Handles, StartFrame(h) PROVE CloserInv'
      BY <1>7 DEF StartFrame, TypeOK, CloseCalls, CloserInv
  <1>8. ASSUME NEW h \in Handles, RunFrame(h) PROVE CloserInv'
      BY <1>8 DEF RunFrame, TypeOK, CloseCalls, CloserInv
  <1>9. ASSUME NEW h \in Handles, FrameSent(h) PROVE CloserInv'
      BY <1>9 DEF FrameSent, TypeOK, CloseCalls, CloserInv
  <1>10. ASSUME NEW c \in Closers, NEW h \in Handles, Close(c, h) PROVE CloserInv'
      BY <1>10 DEF Close, TypeOK, CloserInv, handleVars
  <1>11. ASSUME NEW c \in Closers, LockClose(c) PROVE CloserInv'
    <2>1. closer[c].at = "locking" /\ LockFree(closer[c].of) /\ UNCHANGED opening
          BY <1>11 DEF LockClose
    <2>2. CASE closed[closer[c].of] \/ ~connected
      <3>1. PICK x \in {"returned", "failed"} : closer' = [closer EXCEPT ![c].at = x]
            BY <1>11, <2>2 DEF LockClose
      <3>2. UNCHANGED closing
            BY <1>11, <2>2 DEF LockClose
      <3> QED
            BY <2>1, <3>1, <3>2 DEF CloserInv, CloseCalls, TypeOK
    <2>3. CASE ~(closed[closer[c].of] \/ ~connected)
      <3>1. /\ closer' = [closer EXCEPT ![c].at = "asking"]
            /\ closing' = [closing EXCEPT ![closer[c].of] = TRUE]
            BY <1>11, <2>3 DEF LockClose
      <3> QED
            BY <2>1, <3>1 DEF CloserInv, LockFree, CloseCalls, TypeOK
    <2> QED
          BY <2>2, <2>3
  <1>12. ASSUME NEW c \in Closers, CancelClose(c) PROVE CloserInv'
      BY <1>12 DEF CancelClose, TypeOK, CloseCalls, CloserInv
  <1>13. ASSUME Disconnect PROVE CloserInv'
      BY <1>13 DEF Disconnect, TypeOK, CloseCalls, CloserInv
  <1>14. ASSUME HostReads PROVE CloserInv'
      BY <1>14 DEF HostReads, TypeOK, CloserInv, handleVars
  <1>15. ASSUME HostCloses PROVE CloserInv'
      BY <1>15 DEF HostCloses, TypeOK, CloserInv, handleVars
  <1>16. CASE UNCHANGED vars
      BY <1>16 DEF vars, handleVars, hostVars, CloserInv
  <1> QED
      BY <1>1, <1>2, <1>3, <1>4, <1>5, <1>6, <1>7, <1>8, <1>9, <1>10, <1>11, <1>12, <1>13,
         <1>14, <1>15, <1>16
         DEF Next, ReadNext, CallNext, HostNext

\* The registered handle is the present one.
LEMMA StepHandle ==
    ASSUME TypeOK, HandleInv, CloserInv, ToHostInv, FromHostInv, [Next]_vars
    PROVE  HandleInv'
  <1>1. ASSUME NEW h \in Handles, OpenAnswered(h) PROVE HandleInv'
    <2>1. /\ fromHost # <<>> /\ TakeAnswer /\ Head(fromHost).of = h
          /\ UNCHANGED <<connected, sequence, openSeq, closed>>
          BY <1>1 DEF OpenAnswered, Answer
    <2>2. connected /\ Head(fromHost).type \in {"opened", "refused"}
          BY <2>1, TakeEffect DEF HandleInv, FromHostInv
    <2>3. CASE opening[h] # "opening"
      <3>1. opening' = opening /\ registry' = registry
            BY <1>1, <2>3 DEF OpenAnswered, TypeOK
      <3> QED
            BY <2>1, <2>2, <3>1 DEF HandleInv
    <2>4. CASE opening[h] = "opening" /\ Head(fromHost).type = "opened"
      <3>1. /\ opening' = [opening EXCEPT ![h] = IF closed[h] THEN "failed" ELSE "active"]
            /\ registry' = registry
            BY <1>1, <2>4 DEF OpenAnswered
      <3> QED
            BY <2>1, <2>2, <2>4, <3>1 DEF HandleInv, TypeOK
    <2>5. CASE opening[h] = "opening" /\ Head(fromHost).type = "refused"
      <3>1. /\ opening' = [opening EXCEPT ![h] = "failed"]
            /\ registry' = IF registry = h THEN None ELSE registry
            BY <1>1, <2>5 DEF OpenAnswered, Unregister
      <3> QED
            BY <2>1, <2>2, <2>5, <3>1, SurfaceAssumption DEF HandleInv, TypeOK
    <2> QED
          BY <2>2, <2>3, <2>4, <2>5
  <1>2. ASSUME NEW c \in Closers, CloseAnswered(c) PROVE HandleInv'
    <2>1. /\ fromHost # <<>> /\ TakeAnswer
          /\ UNCHANGED <<connected, sequence, opening, openSeq>>
          BY <1>2 DEF CloseAnswered, Answer
    <2>2. connected
          BY <2>1 DEF HandleInv
    <2>3. CASE UNCHANGED <<registry, closed>>
          BY <2>1, <2>2, <2>3 DEF HandleInv
    <2>4. CASE closer[c].at = "asking" /\ Clear(closer[c].of) /\ Unregister(closer[c].of)
      <3>1. closer[c].of \in Handles /\ opening[closer[c].of] = "active"
            BY <2>4 DEF CloserInv
      <3>2. \A g \in Handles : closed'[g] = (closed[g] \/ g = closer[c].of)
            BY <2>4, <3>1, ClearEffect
      <3>3. registry' = IF registry = closer[c].of THEN None ELSE registry
            BY <2>4 DEF Unregister
      <3>4. \A g \in Handles : registry' = g => registry = g /\ g # closer[c].of
            BY <3>3, SurfaceAssumption
      <3>5. \A g \in Handles : closed'[g] \/ registry' = registry \/ registry # g
            BY <3>1, <3>2, <3>3
      <3>6. \A g \in Handles : closed'[g] => closed[g] \/ opening[g] = "active"
            BY <3>1, <3>2
      <3>7. \A g \in Handles : closed[g] => closed'[g]
            BY <3>2
      <3>8. \A g \in Handles : registry' = g => ~closed'[g]
            BY <3>2, <3>4 DEF HandleInv
      <3> QED
            BY <2>1, <2>2, <3>4, <3>5, <3>6, <3>7, <3>8 DEF HandleInv
    <2> QED
          BY <1>2, <2>3, <2>4 DEF CloseAnswered
  <1>3. ASSUME ClosedNotice PROVE HandleInv'
    <2>1. /\ fromHost # <<>> /\ TakeAnswer
          /\ UNCHANGED <<connected, sequence, opening, openSeq>>
          BY <1>3 DEF ClosedNotice
    <2>2. connected
          BY <2>1 DEF HandleInv
    <2>3. CASE UNCHANGED <<registry, closed>>
          BY <2>1, <2>2, <2>3 DEF HandleInv
    <2>4. CASE registry \in Handles /\ Clear(registry) /\ registry' = None
      <3>1. \A g \in Handles : closed'[g] = (closed[g] \/ g = registry)
            BY <2>4, ClearEffect
      <3> QED
            BY <2>1, <2>2, <2>4, <3>1, SurfaceAssumption DEF HandleInv, TypeOK
    <2> QED
          BY <1>3, <2>3, <2>4 DEF ClosedNotice, TypeOK
  <1>4. ASSUME NEW h \in Handles, Open(h) PROVE HandleInv'
    <2>1. opening[h] = "new" /\ connected /\ UNCHANGED <<connected, closed>>
          BY <1>4 DEF Open
    <2>2. CASE registry # None
      <3>1. /\ opening' = [opening EXCEPT ![h] = "failed"]
            /\ UNCHANGED <<registry, openSeq, sequence>>
            BY <1>4, <2>2 DEF Open
      <3> QED
            BY <2>1, <3>1 DEF HandleInv, TypeOK
    <2>3. CASE registry = None
      <3>1. /\ opening' = [opening EXCEPT ![h] = "opening"] /\ registry' = h
            /\ openSeq' = [openSeq EXCEPT ![h] = sequence + 1] /\ sequence' = sequence + 1
            BY <1>4, <2>3 DEF Open, Send
      <3>2. ~closed[h] /\ sequence \in Nat /\ openSeq \in [Handles -> Nat]
            BY <2>1 DEF HandleInv, TypeOK
      <3>3. \A g \in Handles \ {h} : openSeq'[g] = openSeq[g] /\ openSeq[g] <= sequence
            BY <2>1, <3>1, <3>2 DEF HandleInv
      <3>4. openSeq'[h] = sequence + 1
            BY <3>1, <3>2
      <3>5. \A g \in Handles \ {h} : opening'[g] = opening[g]
            BY <3>1 DEF TypeOK
      <3>6. opening'[h] = "opening" /\ opening[h] = "new"
            BY <2>1, <3>1 DEF TypeOK
      <3>7. \A g \in Handles : registry # g
            BY <2>3, SurfaceAssumption
      <3>8. /\ \A g \in Handles : openSeq'[g] <= sequence'
            /\ \A f, g \in Handles : openSeq'[f] = openSeq'[g] /\ openSeq'[f] > 0 => f = g
        <4>1. \A g \in Handles : openSeq[g] \in Nat
              BY <3>2
        <4>2. \A f, g \in Handles : openSeq[f] = openSeq[g] /\ openSeq[f] > 0 => f = g
              BY <2>1 DEF HandleInv
        <4> QED
              BY <3>1, <3>2, <3>3, <3>4, <4>1, <4>2
      <3>9. \A g \in Handles :
               /\ registry' = g => ~closed'[g] /\ opening'[g] \in {"opening", "active"}
               /\ opening'[g] = "opening" => registry' = g \/ closed'[g]
               /\ opening'[g] = "active" /\ ~closed'[g] => registry' = g
               /\ opening'[g] = "new" => openSeq'[g] = 0
               /\ closed'[g] \/ opening'[g] \in {"opening", "active", "abandoned"} =>
                     openSeq'[g] > 0
            BY <2>1, <3>1, <3>2, <3>3, <3>4, <3>5, <3>6, <3>7 DEF HandleInv
      <3> QED
            BY <2>1, <3>8, <3>9 DEF HandleInv
    <2> QED
          BY <2>2, <2>3
  <1>5. ASSUME NEW h \in Handles, CancelOpen(h) PROVE HandleInv'
      BY <1>5, SurfaceAssumption DEF CancelOpen, Unregister, TypeOK, HandleInv, hostVars
  <1>6. ASSUME NEW h \in Handles, Update(h) PROVE HandleInv'
      BY <1>6 DEF Update, TypeOK, HandleInv, hostVars
  <1>7. ASSUME NEW h \in Handles, StartFrame(h) PROVE HandleInv'
      BY <1>7 DEF StartFrame, TypeOK, HandleInv, hostVars
  <1>8. ASSUME NEW h \in Handles, RunFrame(h) PROVE HandleInv'
      BY <1>8, SMTT(30) DEF RunFrame, Send, TypeOK, HandleInv
  <1>9. ASSUME NEW h \in Handles, FrameSent(h) PROVE HandleInv'
      BY <1>9 DEF FrameSent, TypeOK, HandleInv, hostVars
  <1>10. ASSUME NEW c \in Closers, NEW h \in Handles, Close(c, h) PROVE HandleInv'
      BY <1>10 DEF Close, HandleInv, handleVars, hostVars
  <1>11. ASSUME NEW c \in Closers, LockClose(c) PROVE HandleInv'
      BY <1>11 DEF LockClose, Send, TypeOK, HandleInv
  <1>12. ASSUME NEW c \in Closers, CancelClose(c) PROVE HandleInv'
      BY <1>12 DEF CancelClose, TypeOK, HandleInv, hostVars
  <1>13. ASSUME Disconnect PROVE HandleInv'
      BY <1>13, SurfaceAssumption DEF Disconnect, TypeOK, HandleInv
  <1>14. ASSUME HostReads PROVE HandleInv'
      BY <1>14 DEF HostReads, Reply, HandleInv, handleVars
  <1>15. ASSUME HostCloses PROVE HandleInv'
      BY <1>15 DEF HostCloses, Reply, HandleInv, handleVars
  <1>16. CASE UNCHANGED vars
      BY <1>16 DEF vars, handleVars, hostVars, HandleInv
  <1> QED
      BY <1>1, <1>2, <1>3, <1>4, <1>5, <1>6, <1>7, <1>8, <1>9, <1>10, <1>11, <1>12, <1>13,
         <1>14, <1>15, <1>16
         DEF Next, ReadNext, CallNext, HostNext

\* What an answer to open_surface() changes: the call of that handle ends, and a refusal
\* frees the id, which the host does not show then.
LEMMA OpenAnsweredEffect ==
    ASSUME TypeOK, HandleInv, FromHostInv, NEW h \in Handles, OpenAnswered(h)
    PROVE  /\ UNCHANGED <<connected, sequence, openSeq, closed, closer, toHost, hostOpen>>
           /\ In(fromHost') \subseteq In(fromHost)
           /\ opening[h] # "new" /\ opening'[h] # "new"
           /\ \A q \in In(toHost) : q.type = "open" => q.of # h
           /\ \A g \in Handles : g # h => opening'[g] = opening[g]
           /\ opening[h] = "abandoned" => opening'[h] = "abandoned"
           /\ \/ registry' = registry
              \/ registry = h /\ registry' = None /\ hostOpen # openSeq[h]
  <1>1. /\ fromHost # <<>> /\ TakeAnswer /\ Head(fromHost).of = h
        /\ UNCHANGED <<connected, sequence, openSeq, closed, closer>>
        BY DEF OpenAnswered, Answer
  <1>2. /\ Head(fromHost) \in In(fromHost) /\ In(fromHost') \subseteq In(fromHost)
        /\ toHost' = toHost /\ hostOpen' = hostOpen
        BY <1>1, TakeEffect
  <1>3. /\ opening[h] # "new" /\ \A q \in In(toHost) : q.type = "open" => q.of # h
        /\ Head(fromHost).type = "refused" => hostOpen # openSeq[h]
        BY <1>1, <1>2 DEF FromHostInv
  <1>4. /\ \A g \in Handles : g # h => opening'[g] = opening[g]
        /\ opening[h] # "opening" => opening'[h] = opening[h]
        /\ opening[h] = "opening" => opening'[h] \in {"active", "failed"}
        BY DEF OpenAnswered, TypeOK
  <1>5. \/ registry' = registry
        \/ registry = h /\ registry' = None /\ hostOpen # openSeq[h]
        BY <1>3 DEF OpenAnswered, Unregister
  <1> QED
        BY <1>1, <1>2, <1>3, <1>4, <1>5

\* What closes a handle: the host does not show its surface, and nothing that would show
\* it again is on its way.
Cleared(h) ==
    /\ hostOpen # openSeq[h]
    /\ \A q \in In(toHost) : q.type = "open" => q.of # h
    /\ \A g \in Handles : closed'[g] = (closed[g] \/ g = h)
    /\ registry' = IF registry = h THEN None ELSE registry

\* What an answer to close() changes.
LEMMA CloseAnsweredEffect ==
    ASSUME TypeOK, CloserInv, ToHostInv, FromHostInv, NEW c \in Closers, CloseAnswered(c)
    PROVE  /\ UNCHANGED <<connected, sequence, opening, openSeq, toHost, hostOpen>>
           /\ In(fromHost') \subseteq In(fromHost)
           /\ \A d \in Closers : /\ closer'[d].of = closer[d].of
                                 /\ closer[d].at # "idle" => closer'[d].at # "idle"
           /\ \/ UNCHANGED <<registry, closed>>
              \/ \E h \in Handles : Cleared(h)
  <1>1. /\ fromHost # <<>> /\ TakeAnswer /\ Head(fromHost).of = c
        /\ UNCHANGED <<connected, sequence, opening, openSeq>>
        BY DEF CloseAnswered, Answer
  <1>2. /\ Head(fromHost) \in In(fromHost) /\ In(fromHost') \subseteq In(fromHost)
        /\ toHost' = toHost /\ hostOpen' = hostOpen
        BY <1>1, TakeEffect
  <1>3. \A d \in Closers : /\ closer'[d].of = closer[d].of
                           /\ closer[d].at # "idle" => closer'[d].at # "idle"
    <2>1. CASE closer' = closer
          BY <2>1
    <2>2. CASE closer' # closer
      <3>1. PICK x \in {"returned", "failed"} : closer' = [closer EXCEPT ![c].at = x]
            BY <2>2 DEF CloseAnswered
      <3> QED
            BY <3>1 DEF CloseCalls, TypeOK
    <2> QED
          BY <2>1, <2>2
  <1>4. CASE UNCHANGED <<registry, closed>>
        BY <1>1, <1>2, <1>3, <1>4
  <1>5. CASE /\ closer[c].at = "asking" /\ Head(fromHost).type = "closed"
             /\ Clear(closer[c].of) /\ Unregister(closer[c].of)
    <2>1. closer[c].of \in Handles /\ opening[closer[c].of] = "active"
          BY <1>5 DEF CloserInv
    <2>2. hostOpen # openSeq[closer[c].of]
          BY <1>1, <1>2, <1>5 DEF FromHostInv
    <2>3. \A q \in In(toHost) : q.type = "open" => q.of # closer[c].of
          BY <2>1 DEF ToHostInv
    <2>4. Cleared(closer[c].of)
          BY <1>5, <2>1, <2>2, <2>3, ClearEffect DEF Unregister, Cleared
    <2> QED
          BY <1>1, <1>2, <1>3, <2>1, <2>4
  <1> QED
        BY <1>4, <1>5 DEF CloseAnswered

\* What a notice of the host changes: it closes the handle whose opening it names.
LEMMA ClosedNoticeEffect ==
    ASSUME TypeOK, ToHostInv, FromHostInv, ClosedNotice
    PROVE  /\ UNCHANGED <<connected, sequence, opening, openSeq, closer, toHost, hostOpen>>
           /\ In(fromHost') \subseteq In(fromHost)
           /\ \/ UNCHANGED <<registry, closed>>
              \/ \E h \in Handles : Cleared(h)
  <1>1. /\ fromHost # <<>> /\ TakeAnswer /\ Head(fromHost).of = None
        /\ UNCHANGED <<connected, sequence, opening, openSeq, closer>>
        BY DEF ClosedNotice
  <1>2. /\ Head(fromHost) \in In(fromHost) /\ In(fromHost') \subseteq In(fromHost)
        /\ toHost' = toHost /\ hostOpen' = hostOpen
        BY <1>1, TakeEffect
  <1>3. CASE UNCHANGED <<registry, closed>>
        BY <1>1, <1>2, <1>3
  <1>4. CASE /\ registry \in Handles /\ openSeq[registry] = Head(fromHost).sequence
             /\ Clear(registry) /\ registry' = None
    <2>1. /\ hostOpen # openSeq[registry]
          /\ \A q \in In(toHost) : openSeq[registry] < q.sequence
          BY <1>1, <1>2, <1>4 DEF FromHostInv
    <2>2. \A q \in In(toHost) : q.type = "open" => q.of # registry
      <3>1. openSeq[registry] \in Nat
            BY <1>4 DEF TypeOK
      <3> QED
            BY <2>1, <3>1 DEF ToHostInv
    <2>3. Cleared(registry)
          BY <1>4, <2>1, <2>2, ClearEffect DEF Cleared
    <2> QED
          BY <1>1, <1>2, <1>4, <2>3
  <1> QED
        BY <1>3, <1>4 DEF ClosedNotice, TypeOK

\* A handle that is closed leaves what the streams say of the others.
LEMMA ClearedKeepsStream ==
    ASSUME TypeOK, ToHostInv, NEW h \in Handles, Cleared(h),
           UNCHANGED <<connected, opening, openSeq, toHost, hostOpen, sequence>>,
           \A c \in Closers : closer[c].at # "idle" => closer'[c].at # "idle"
    PROVE  ToHostInv'
  <1>1. \A m \in In(toHost) :
           m.type = "open" => /\ m.of # h /\ m.of \in Handles
                              /\ ~closed'[m.of] /\ (registry = m.of => registry' = m.of)
        BY DEF Cleared, ToHostInv
  <1> QED
        BY <1>1 DEF ToHostInv

\* A handle that is closed is not the one whose surface the host shows.
LEMMA ClearedKeepsHost ==
    ASSUME TypeOK, HostInv, NEW h \in Handles, Cleared(h),
           UNCHANGED <<connected, opening, openSeq, hostOpen>>
    PROVE  HostInv'
  <1>1. HostSurfaceIsOwned'
    <2>1. SUFFICES ASSUME hostOpen # 0
                   PROVE  \E g \in Handles : /\ openSeq[g] = hostOpen
                                             /\ registry' = g \/ opening[g] = "abandoned"
          BY DEF HostSurfaceIsOwned
    <2>2. PICK g \in Handles : openSeq[g] = hostOpen /\ (registry = g \/ opening[g] = "abandoned")
          BY <2>1 DEF HostInv, HostSurfaceIsOwned
    <2>3. g # h
          BY <2>2 DEF Cleared
    <2> QED
          BY <2>2, <2>3 DEF Cleared
  <1>2. ClosedAtHost'
        BY DEF Cleared, HostInv, ClosedAtHost
  <1> QED
        BY <1>1, <1>2 DEF HostInv

\* A message that asks for no surface only has to be numbered.
LEMMA SendKeeps ==
    ASSUME TypeOK, HandleInv, ToHostInv, FromHostInv,
           NEW type \in {"frame", "close"}, NEW of \in Handles \cup Closers, Send(type, of),
           type = "close" => of \in Closers /\ closer'[of].at # "idle",
           UNCHANGED <<connected, registry, opening, openSeq, closed, hostOpen, fromHost>>,
           \A c \in Closers : /\ closer'[c].of = closer[c].of
                              /\ closer[c].at # "idle" => closer'[c].at # "idle"
    PROVE  ToHostInv' /\ FromHostInv'
  <1> DEFINE n == Message(type, of, sequence + 1)
  <1>1. /\ sequence' = sequence + 1 /\ sequence \in Nat /\ hostOpen \in Nat
        /\ In(toHost') = In(toHost) \cup {n} /\ Ordered(toHost')
        /\ In(toHost) \subseteq Requests /\ In(fromHost) \subseteq Replies
        BY SendEffect, SendOrdered, InType DEF TypeOK
  <1>2. n.type = type /\ n.of = of /\ n.sequence = sequence + 1
        BY DEF Message
  <1>3. hostOpen <= sequence
        BY DEF ToHostInv
  <1>4. \A m \in In(toHost) : m.sequence \in Nat /\ m.sequence <= sequence
        BY <1>1 DEF ToHostInv, Requests
  <1>5. \A m \in In(fromHost) : m.sequence \in Nat
        BY <1>1 DEF Replies
  <1> HIDE DEF n
  <1>6. ToHostInv'
    <2>1. ASSUME NEW m \in In(toHost)
          PROVE  /\ hostOpen' < m.sequence /\ m.sequence <= sequence'
                 /\ m.type = "open" => /\ m.of \in Handles /\ openSeq'[m.of] = m.sequence
                                       /\ ~closed'[m.of]
                                       /\ opening'[m.of] \in {"opening", "abandoned"}
                                       /\ opening'[m.of] = "opening" => registry' = m.of
                 /\ m.type = "close" => m.of \in Closers /\ closer'[m.of].at # "idle"
          BY <1>1, <1>4, <2>1 DEF ToHostInv
    <2>2. /\ hostOpen' < n.sequence /\ n.sequence <= sequence' /\ n.type # "open"
          /\ n.type = "close" => n.of \in Closers /\ closer'[n.of].at # "idle"
          BY <1>1, <1>2, <1>3
    <2>3. hostOpen' <= sequence'
          BY <1>1, <1>3
    <2> QED
          BY <1>1, <2>1, <2>2, <2>3 DEF ToHostInv
  <1>7. FromHostInv'
    <2>1. ASSUME NEW m \in In(fromHost), NEW q \in In(toHost'), m.of = None
          PROVE  m.sequence < q.sequence /\ m.sequence <= sequence'
          BY <1>1, <1>2, <1>5, <2>1 DEF FromHostInv
    <2>2. ASSUME NEW m \in In(fromHost), NEW q \in In(toHost'), m.of \in Handles, q.type = "open"
          PROVE  q.of # m.of
          BY <1>1, <1>2, <2>2 DEF FromHostInv
    <2>3. \A m \in In(fromHost) : m.of = None => m.sequence <= sequence'
          BY <1>1, <1>5 DEF FromHostInv
    <2> QED
          BY <1>1, <2>1, <2>2, <2>3 DEF FromHostInv
  <1> QED
        BY <1>6, <1>7

\* What open_surface() changes: it fails at once, or the handle is registered and the
\* host asked under a new number.
LEMMA OpenEffect ==
    ASSUME TypeOK, HandleInv, ToHostInv, NEW h \in Handles, Open(h)
    PROVE  /\ UNCHANGED <<connected, closed, closer, fromHost, hostOpen>>
           /\ connected /\ opening[h] = "new" /\ openSeq[h] = 0 /\ ~closed[h]
           /\ \A g \in Handles : g # h => opening'[g] = opening[g] /\ openSeq'[g] = openSeq[g]
           /\ \A m \in In(toHost) : m.type = "open" => m.of # h
           /\ opening'[h] # "new" /\ opening'[h] # "abandoned"
           /\ \/ UNCHANGED <<registry, openSeq, sequence, toHost>>
              \/ /\ registry = None /\ registry' = h /\ opening'[h] = "opening"
                 /\ sequence' = sequence + 1 /\ openSeq'[h] = sequence + 1
                 /\ Ordered(toHost')
                 /\ \E m \in Requests : /\ In(toHost') = In(toHost) \cup {m}
                                        /\ m.type = "open" /\ m.of = h
                                        /\ m.sequence = sequence + 1
  <1>1. /\ UNCHANGED <<connected, closed, closer, fromHost, hostOpen>>
        /\ connected /\ opening[h] = "new"
        BY DEF Open
  <1>2. openSeq[h] = 0 /\ ~closed[h]
        BY <1>1 DEF HandleInv, TypeOK
  <1>3. \A m \in In(toHost) : m.type = "open" => m.of # h
        BY <1>1 DEF ToHostInv
  <1>4. CASE registry # None
        BY <1>1, <1>2, <1>3, <1>4 DEF Open, TypeOK
  <1>5. CASE registry = None
    <2>1. /\ opening' = [opening EXCEPT ![h] = "opening"] /\ registry' = h /\ Send("open", h)
          /\ openSeq' = [openSeq EXCEPT ![h] = sequence + 1]
          BY <1>5 DEF Open
    <2>2. /\ \A g \in Handles : g # h => opening'[g] = opening[g] /\ openSeq'[g] = openSeq[g]
          /\ opening'[h] = "opening" /\ openSeq'[h] = sequence + 1
          BY <2>1 DEF TypeOK
    <2>3. /\ sequence' = sequence + 1 /\ Ordered(toHost')
          /\ Message("open", h, sequence + 1) \in Requests
          /\ In(toHost') = In(toHost) \cup {Message("open", h, sequence + 1)}
          BY <2>1, SendEffect, SendOrdered
    <2>4. \E m \in Requests : /\ In(toHost') = In(toHost) \cup {m}
                             /\ m.type = "open" /\ m.of = h /\ m.sequence = sequence + 1
          BY <2>3 DEF Message
    <2> QED
          BY <1>1, <1>2, <1>3, <1>5, <2>1, <2>2, <2>3, <2>4
  <1> QED
        BY <1>4, <1>5

\* What the host's reading of a request changes.
LEMMA ReadEffect ==
    ASSUME TypeOK, HandleInv, ToHostInv, HostReads
    PROVE  \E m \in In(toHost) :
             /\ m \in Requests /\ connected
             /\ UNCHANGED <<connected, registry, sequence, opening, openSeq, closed, closer>>
             /\ In(toHost') \subseteq In(toHost) /\ Ordered(toHost')
             /\ \A q \in In(toHost') : m.sequence < q.sequence
             /\ \/ UNCHANGED <<hostOpen, fromHost>>
                \/ \E r \in Replies :
                      /\ In(fromHost') = In(fromHost) \cup {r} /\ r.of = m.of
                      /\ \/ m.type = "open" /\ r.type = "opened" /\ hostOpen' = m.sequence
                         \/ m.type = "close" /\ r.type = "closed" /\ hostOpen' = 0
                         \/ m.type # "frame" /\ r.type = "refused" /\ hostOpen' = hostOpen
  <1> DEFINE m == Head(toHost)
  <1>1. toHost # <<>> /\ toHost' = Tail(toHost)
        BY DEF HostReads
  <1>2. /\ m \in In(toHost) /\ m \in Requests
        /\ In(toHost') \subseteq In(toHost) /\ Ordered(toHost')
        /\ \A q \in In(toHost') : m.sequence < q.sequence
        BY <1>1, ReadOrdered
  <1>3. /\ connected
        /\ UNCHANGED <<connected, registry, sequence, opening, openSeq, closed, closer>>
        BY <1>1 DEF HostReads, HandleInv, handleVars
  <1>4. m.of \in Handles \cup Closers \cup {None} /\ m.sequence \in Nat
        BY <1>2 DEF Requests
  <1>5. ASSUME NEW type \in {"opened", "refused", "closed"}, Reply(type, m.of, m.sequence)
        PROVE  \E r \in Replies : /\ In(fromHost') = In(fromHost) \cup {r}
                                 /\ r.of = m.of /\ r.type = type
    <2>1. Message(type, m.of, m.sequence) \in Replies
          BY <1>4 DEF Message, Replies
    <2>2. In(fromHost') = In(fromHost) \cup {Message(type, m.of, m.sequence)}
          BY <1>4, <1>5, ReplyEffect
    <2> QED
          BY <2>1, <2>2 DEF Message
  <1>6. \/ UNCHANGED <<hostOpen, fromHost>>
        \/ m.type = "open" /\ hostOpen' = m.sequence /\ Reply("opened", m.of, m.sequence)
        \/ m.type = "close" /\ hostOpen' = 0 /\ Reply("closed", m.of, m.sequence)
        \/ m.type # "frame" /\ hostOpen' = hostOpen /\ Reply("refused", m.of, m.sequence)
        BY DEF HostReads
  <1> HIDE DEF m
  <1>7. \/ UNCHANGED <<hostOpen, fromHost>>
        \/ \E r \in Replies :
              /\ In(fromHost') = In(fromHost) \cup {r} /\ r.of = m.of
              /\ \/ m.type = "open" /\ r.type = "opened" /\ hostOpen' = m.sequence
                 \/ m.type = "close" /\ r.type = "closed" /\ hostOpen' = 0
                 \/ m.type # "frame" /\ r.type = "refused" /\ hostOpen' = hostOpen
        BY <1>5, <1>6
  <1> QED
        BY <1>2, <1>3, <1>7

\* What goes to the host stays in order, and a handle stays as it was when it asked to open.
LEMMA StepToHost ==
    ASSUME TypeOK, HandleInv, CloserInv, ToHostInv, FromHostInv, [Next]_vars
    PROVE  ToHostInv'
  <1>1. ASSUME NEW h \in Handles, OpenAnswered(h) PROVE ToHostInv'
    <2>1. \A m \in In(toHost) : m.type = "open" /\ registry = m.of => registry' = m.of
          BY <1>1, OpenAnsweredEffect DEF ToHostInv
    <2>2. \A m \in In(toHost) : m.type = "open" => opening'[m.of] = opening[m.of]
          BY <1>1, OpenAnsweredEffect DEF ToHostInv
    <2> QED
          BY <1>1, <2>1, <2>2, OpenAnsweredEffect DEF ToHostInv
  <1>2. ASSUME NEW c \in Closers, CloseAnswered(c) PROVE ToHostInv'
    <2>1. CASE UNCHANGED <<registry, closed>>
          BY <1>2, <2>1, CloseAnsweredEffect DEF ToHostInv
    <2>2. ASSUME NEW h \in Handles, Cleared(h) PROVE ToHostInv'
          BY <1>2, <2>2, CloseAnsweredEffect, ClearedKeepsStream
    <2> QED
          BY <1>2, <2>1, <2>2, CloseAnsweredEffect
  <1>3. ASSUME ClosedNotice PROVE ToHostInv'
    <2>1. CASE UNCHANGED <<registry, closed>>
          BY <1>3, <2>1, ClosedNoticeEffect DEF ToHostInv
    <2>2. ASSUME NEW h \in Handles, Cleared(h) PROVE ToHostInv'
          BY <1>3, <2>2, ClosedNoticeEffect, ClearedKeepsStream
    <2> QED
          BY <1>3, <2>1, <2>2, ClosedNoticeEffect
  <1>4. ASSUME NEW h \in Handles, Open(h) PROVE ToHostInv'
    <2>1. CASE UNCHANGED <<registry, openSeq, sequence, toHost>>
      <3>1. \A m \in In(toHost) : m.type = "open" => opening'[m.of] = opening[m.of]
            BY <1>4, OpenEffect DEF ToHostInv
      <3> QED
            BY <1>4, <2>1, <3>1, OpenEffect DEF ToHostInv
    <2>2. CASE registry = None /\ registry' = h
      <3>1. h # None /\ sequence \in Nat /\ hostOpen \in Nat /\ In(toHost) \subseteq Requests
            BY InType, SurfaceAssumption DEF TypeOK
      <3>2. PICK n \in Requests :
               /\ In(toHost') = In(toHost) \cup {n}
               /\ n.type = "open" /\ n.of = h /\ n.sequence = sequence + 1
               /\ Ordered(toHost') /\ sequence' = sequence + 1 /\ openSeq'[h] = sequence + 1
               /\ opening'[h] = "opening" /\ ~closed'[h]
            BY <1>4, <2>2, <3>1, OpenEffect
      <3>3. hostOpen' = hostOpen /\ hostOpen <= sequence
            BY <1>4, OpenEffect DEF ToHostInv
      <3>4. ASSUME NEW m \in In(toHost)
            PROVE  /\ hostOpen' < m.sequence /\ m.sequence <= sequence'
                   /\ m.type = "open" => /\ m.of \in Handles /\ openSeq'[m.of] = m.sequence
                                         /\ ~closed'[m.of]
                                         /\ opening'[m.of] \in {"opening", "abandoned"}
                                         /\ opening'[m.of] = "opening" => registry' = m.of
                   /\ m.type = "close" => m.of \in Closers /\ closer'[m.of].at # "idle"
        <4>1. m.sequence \in Nat /\ hostOpen < m.sequence /\ m.sequence <= sequence
              BY <3>1, <3>4 DEF ToHostInv, Requests
        <4>2. ASSUME m.type = "open"
              PROVE  /\ m.of \in Handles /\ openSeq'[m.of] = m.sequence /\ ~closed'[m.of]
                     /\ opening'[m.of] = "abandoned"
          <5>1. m.of # h /\ m.of \in Handles
                BY <1>4, <3>4, <4>2, OpenEffect DEF ToHostInv
          <5>2. opening'[m.of] = opening[m.of] /\ openSeq'[m.of] = openSeq[m.of]
                BY <1>4, <5>1, OpenEffect
          <5>3. closed' = closed /\ registry # m.of
                BY <1>4, <2>2, <5>1, OpenEffect, SurfaceAssumption
          <5> QED
                BY <3>4, <4>2, <5>1, <5>2, <5>3 DEF ToHostInv
        <4>3. closer' = closer
              BY <1>4, OpenEffect
        <4> QED
              BY <3>1, <3>2, <3>3, <3>4, <4>1, <4>2, <4>3 DEF ToHostInv
      <3>5. hostOpen' < n.sequence /\ n.sequence <= sequence' /\ hostOpen' <= sequence'
            BY <3>1, <3>2, <3>3
      <3> QED
            BY <2>2, <3>2, <3>4, <3>5 DEF ToHostInv
    <2> QED
          BY <1>4, <2>1, <2>2, OpenEffect
  <1>5. ASSUME NEW h \in Handles, CancelOpen(h) PROVE ToHostInv'
      BY <1>5 DEF CancelOpen, Unregister, TypeOK, ToHostInv, hostVars
  <1>6. ASSUME NEW h \in Handles, Update(h) PROVE ToHostInv'
      BY <1>6 DEF Update, TypeOK, ToHostInv, hostVars
  <1>7. ASSUME NEW h \in Handles, StartFrame(h) PROVE ToHostInv'
      BY <1>7 DEF StartFrame, TypeOK, ToHostInv, hostVars
  <1>8. ASSUME NEW h \in Handles, RunFrame(h) PROVE ToHostInv'
    <2>1. CASE closed[h] \/ closing[h] \/ ~connected
          BY <1>8, <2>1 DEF RunFrame, ToHostInv
    <2>2. CASE ~(closed[h] \/ closing[h] \/ ~connected)
          BY <1>8, <2>2, SendKeeps DEF RunFrame
    <2> QED
          BY <2>1, <2>2
  <1>9. ASSUME NEW h \in Handles, FrameSent(h) PROVE ToHostInv'
      BY <1>9 DEF FrameSent, TypeOK, ToHostInv, hostVars
  <1>10. ASSUME NEW c \in Closers, NEW h \in Handles, Close(c, h) PROVE ToHostInv'
      BY <1>10 DEF Close, ToHostInv, handleVars, hostVars
  <1>11. ASSUME NEW c \in Closers, LockClose(c) PROVE ToHostInv'
    <2>1. PICK x \in {"returned", "failed", "asking"} : closer' = [closer EXCEPT ![c].at = x]
          BY <1>11 DEF LockClose
    <2>2. \A d \in Closers : /\ closer'[d].of = closer[d].of
                             /\ closer[d].at # "idle" => closer'[d].at # "idle"
          BY <2>1 DEF CloseCalls, TypeOK
    <2>3. closer'[c].at # "idle"
          BY <2>1 DEF CloseCalls, TypeOK
    <2>4. CASE closed[closer[c].of] \/ ~connected
          BY <1>11, <2>2, <2>4 DEF LockClose, ToHostInv
    <2>5. CASE ~(closed[closer[c].of] \/ ~connected)
          BY <1>11, <2>2, <2>3, <2>5, SendKeeps DEF LockClose
    <2> QED
          BY <2>4, <2>5
  <1>12. ASSUME NEW c \in Closers, CancelClose(c) PROVE ToHostInv'
      BY <1>12 DEF CancelClose, TypeOK, ToHostInv, hostVars
  <1>13. ASSUME Disconnect PROVE ToHostInv'
    <2>1. toHost' = <<>> /\ fromHost' = <<>> /\ hostOpen' = 0 /\ sequence' = 0
          BY <1>13 DEF Disconnect
    <2> QED
          BY <2>1, InEmpty DEF ToHostInv, Ordered
  <1>14. ASSUME HostReads PROVE ToHostInv'
    <2>1. PICK m \in In(toHost) :
             /\ m \in Requests
             /\ UNCHANGED <<connected, registry, sequence, opening, openSeq, closed, closer>>
             /\ In(toHost') \subseteq In(toHost) /\ Ordered(toHost')
             /\ \A q \in In(toHost') : m.sequence < q.sequence
             /\ hostOpen' \in {hostOpen, m.sequence, 0}
          BY <1>14, ReadEffect
    <2>2. /\ In(toHost) \subseteq Requests /\ hostOpen \in Nat /\ sequence \in Nat
          /\ m.sequence \in Nat /\ m.sequence <= sequence /\ hostOpen <= sequence
          BY <2>1, InType DEF TypeOK, ToHostInv, Requests
    <2>3. ASSUME NEW q \in In(toHost') PROVE hostOpen' < q.sequence
      <3>1. q.sequence \in Nat /\ hostOpen < q.sequence /\ m.sequence < q.sequence
            BY <2>1, <2>2, <2>3 DEF ToHostInv, Requests
      <3> QED
            BY <2>1, <2>2, <3>1
    <2>4. hostOpen' <= sequence'
          BY <2>1, <2>2
    <2> QED
          BY <2>1, <2>3, <2>4 DEF ToHostInv
  <1>15. ASSUME HostCloses PROVE ToHostInv'
    <2>1. /\ hostOpen' = 0
          /\ UNCHANGED <<registry, sequence, opening, openSeq, closed, closer, toHost>>
          BY <1>15 DEF HostCloses, handleVars
    <2>2. In(toHost) \subseteq Requests /\ hostOpen \in Nat /\ sequence \in Nat
          BY InType DEF TypeOK
    <2>3. 0 <= sequence /\ \A m \in In(toHost) : 0 < m.sequence
          BY <2>2 DEF ToHostInv, Requests
    <2> QED
          BY <2>1, <2>3 DEF ToHostInv
  <1>16. CASE UNCHANGED vars
      BY <1>16 DEF vars, handleVars, hostVars, ToHostInv
  <1> QED
      BY <1>1, <1>2, <1>3, <1>4, <1>5, <1>6, <1>7, <1>8, <1>9, <1>10, <1>11, <1>12, <1>13,
         <1>14, <1>15, <1>16
         DEF Next, ReadNext, CallNext, HostNext

\* What the host said stays true.
LEMMA StepFromHost ==
    ASSUME TypeOK, HandleInv, CloserInv, ToHostInv, FromHostInv, [Next]_vars
    PROVE  FromHostInv'
  <1>1. ASSUME NEW h \in Handles, OpenAnswered(h) PROVE FromHostInv'
      BY <1>1, TakeEffect DEF OpenAnswered, Answer, FromHostInv
  <1>2. ASSUME NEW c \in Closers, CloseAnswered(c) PROVE FromHostInv'
    <2>1. \A m \in In(fromHost) :
             m.of \in Closers => closer'[m.of].of = closer[m.of].of /\ closer'[m.of].at # "idle"
          BY <1>2, CloseAnsweredEffect DEF FromHostInv
    <2> QED
          BY <1>2, <2>1, CloseAnsweredEffect DEF FromHostInv
  <1>3. ASSUME ClosedNotice PROVE FromHostInv'
      BY <1>3, TakeEffect DEF ClosedNotice, TakeAnswer, FromHostInv
  <1>4. ASSUME NEW h \in Handles, Open(h) PROVE FromHostInv'
    <2>1. /\ UNCHANGED <<fromHost, hostOpen, closer>> /\ In(fromHost) \subseteq Replies
          /\ sequence \in Nat
          BY <1>4, OpenEffect, InType DEF TypeOK
    <2>2. /\ sequence' \in {sequence, sequence + 1}
          /\ \A q \in In(toHost') : q \in In(toHost) \/ (q.sequence = sequence + 1 /\ q.of = h)
          BY <1>4, OpenEffect
    <2>3. ASSUME NEW m \in In(fromHost), m.of = None
          PROVE  /\ 0 < m.sequence /\ m.sequence <= sequence' /\ m.sequence # hostOpen
                 /\ \A q \in In(toHost') : m.sequence < q.sequence
      <3>1. /\ m.sequence \in Nat /\ 0 < m.sequence /\ m.sequence <= sequence
            /\ m.sequence # hostOpen /\ \A q \in In(toHost) : m.sequence < q.sequence
            BY <2>1, <2>3 DEF FromHostInv, Replies
      <3> QED
            BY <2>1, <2>2, <3>1
    <2>4. ASSUME NEW m \in In(fromHost), m.of \in Handles
          PROVE  /\ m.type \in {"opened", "refused"} /\ opening'[m.of] # "new"
                 /\ openSeq'[m.of] > 0
                 /\ \A q \in In(toHost') : q.type = "open" => q.of # m.of
                 /\ m.type = "refused" => hostOpen # openSeq'[m.of]
      <3>1. m.of # h /\ opening'[m.of] = opening[m.of] /\ openSeq'[m.of] = openSeq[m.of]
            BY <1>4, <2>4, OpenEffect DEF FromHostInv
      <3> QED
            BY <2>2, <2>4, <3>1 DEF FromHostInv
    <2>5. ASSUME NEW m \in In(fromHost), m.of \in Closers
          PROVE  /\ closer'[m.of].at # "idle"
                 /\ m.type = "closed" => hostOpen # openSeq'[closer'[m.of].of]
      <3>1. m.type = "closed" => hostOpen # openSeq[closer[m.of].of]
            BY <2>5 DEF FromHostInv
      <3>2. closer[m.of].of \in Handles \ {h}
            BY <1>4, <2>5, OpenEffect DEF FromHostInv, CloserInv
      <3>3. openSeq'[closer[m.of].of] = openSeq[closer[m.of].of]
            BY <1>4, <3>2, OpenEffect
      <3> QED
            BY <2>1, <2>5, <3>1, <3>3 DEF FromHostInv
    <2> QED
          BY <2>1, <2>3, <2>4, <2>5 DEF FromHostInv
  <1>5. ASSUME NEW h \in Handles, CancelOpen(h) PROVE FromHostInv'
      BY <1>5 DEF CancelOpen, Unregister, FromHostInv, hostVars
  <1>6. ASSUME NEW h \in Handles, Update(h) PROVE FromHostInv'
      BY <1>6 DEF Update, TypeOK, FromHostInv, hostVars
  <1>7. ASSUME NEW h \in Handles, StartFrame(h) PROVE FromHostInv'
      BY <1>7 DEF StartFrame, TypeOK, FromHostInv, hostVars
  <1>8. ASSUME NEW h \in Handles, RunFrame(h) PROVE FromHostInv'
    <2>1. CASE closed[h] \/ closing[h] \/ ~connected
          BY <1>8, <2>1 DEF RunFrame, FromHostInv
    <2>2. CASE ~(closed[h] \/ closing[h] \/ ~connected)
          BY <1>8, <2>2, SendKeeps DEF RunFrame
    <2> QED
          BY <2>1, <2>2
  <1>9. ASSUME NEW h \in Handles, FrameSent(h) PROVE FromHostInv'
      BY <1>9 DEF FrameSent, TypeOK, FromHostInv, hostVars
  <1>10. ASSUME NEW c \in Closers, NEW h \in Handles, Close(c, h) PROVE FromHostInv'
      BY <1>10 DEF Close, FromHostInv, handleVars, hostVars
  <1>11. ASSUME NEW c \in Closers, LockClose(c) PROVE FromHostInv'
    <2>1. PICK x \in {"returned", "failed", "asking"} : closer' = [closer EXCEPT ![c].at = x]
          BY <1>11 DEF LockClose
    <2>2. \A d \in Closers : /\ closer'[d].of = closer[d].of
                             /\ closer[d].at # "idle" => closer'[d].at # "idle"
          BY <2>1 DEF CloseCalls, TypeOK
    <2>3. closer'[c].at # "idle"
          BY <2>1 DEF CloseCalls, TypeOK
    <2>4. CASE closed[closer[c].of] \/ ~connected
          BY <1>11, <2>2, <2>4 DEF LockClose, FromHostInv
    <2>5. CASE ~(closed[closer[c].of] \/ ~connected)
          BY <1>11, <2>2, <2>3, <2>5, SendKeeps DEF LockClose
    <2> QED
          BY <2>4, <2>5
  <1>12. ASSUME NEW c \in Closers, CancelClose(c) PROVE FromHostInv'
      BY <1>12 DEF CancelClose, TypeOK, FromHostInv, hostVars
  <1>13. ASSUME Disconnect PROVE FromHostInv'
    <2>1. toHost' = <<>> /\ fromHost' = <<>> /\ hostOpen' = 0 /\ sequence' = 0
          BY <1>13 DEF Disconnect
    <2> QED
          BY <2>1, InEmpty DEF FromHostInv, Ordered
  <1>14. ASSUME HostReads PROVE FromHostInv'
    <2>1. PICK m \in In(toHost) :
             /\ m \in Requests /\ connected
             /\ UNCHANGED <<connected, registry, sequence, opening, openSeq, closed, closer>>
             /\ In(toHost') \subseteq In(toHost)
             /\ \A q \in In(toHost') : m.sequence < q.sequence
             /\ \/ UNCHANGED <<hostOpen, fromHost>>
                \/ \E r \in Replies :
                      /\ In(fromHost') = In(fromHost) \cup {r} /\ r.of = m.of
                      /\ \/ m.type = "open" /\ r.type = "opened" /\ hostOpen' = m.sequence
                         \/ m.type = "close" /\ r.type = "closed" /\ hostOpen' = 0
                         \/ m.type # "frame" /\ r.type = "refused" /\ hostOpen' = hostOpen
          BY <1>14, ReadEffect
    <2>2. /\ In(toHost) \subseteq Requests /\ In(fromHost) \subseteq Replies
          /\ m.sequence \in Nat /\ openSeq \in [Handles -> Nat]
          /\ hostOpen \in Nat /\ hostOpen < m.sequence
          BY <2>1, InType DEF TypeOK, ToHostInv, Requests
    <2>3. CASE UNCHANGED <<hostOpen, fromHost>>
          BY <2>1, <2>3 DEF FromHostInv
    <2>4. ASSUME NEW r \in Replies, In(fromHost') = In(fromHost) \cup {r}, r.of = m.of,
                 \/ m.type = "open" /\ r.type = "opened" /\ hostOpen' = m.sequence
                 \/ m.type = "close" /\ r.type = "closed" /\ hostOpen' = 0
                 \/ m.type # "frame" /\ r.type = "refused" /\ hostOpen' = hostOpen
          PROVE  FromHostInv'
      <3>1. hostOpen' \in {hostOpen, m.sequence, 0} /\ m.type \in {"open", "close"}
            BY <2>1, <2>4 DEF Requests
      <3>2. hostOpen' = m.sequence => m.type = "open"
            BY <2>2, <2>4
      <3>3. m.type = "open" => /\ m.of \in Handles /\ openSeq[m.of] = m.sequence
                               /\ opening[m.of] \in {"opening", "abandoned"}
            BY <2>1 DEF ToHostInv
      <3>4. m.type = "close" => m.of \in Closers /\ closer[m.of].at # "idle"
            BY <2>1 DEF ToHostInv
      <3>5. ASSUME NEW g \in Handles, hostOpen # openSeq[g], openSeq[g] > 0,
                   \A q \in In(toHost) : q.type = "open" => q.of # g
            PROVE  hostOpen' # openSeq[g]
        <4>1. CASE hostOpen' = m.sequence
          <5>1. m.of # g /\ m.of \in Handles /\ openSeq[m.of] = m.sequence
                BY <2>1, <3>2, <3>3, <3>5, <4>1
          <5> QED
                BY <2>1, <2>2, <3>5, <4>1, <5>1 DEF HandleInv
        <4>2. CASE hostOpen' # m.sequence
              BY <2>2, <3>1, <3>5, <4>2
        <4> QED
              BY <4>1, <4>2
      <3>6. ASSUME NEW f \in In(fromHost), f.of = None
            PROVE  /\ 0 < f.sequence /\ f.sequence <= sequence' /\ f.sequence # hostOpen'
                   /\ \A q \in In(toHost') : f.sequence < q.sequence
        <4>1. /\ f.sequence \in Nat /\ 0 < f.sequence /\ f.sequence <= sequence
              /\ f.sequence # hostOpen /\ \A q \in In(toHost) : f.sequence < q.sequence
              BY <2>2, <3>6 DEF FromHostInv, Replies
        <4> QED
              BY <2>1, <2>2, <3>1, <4>1
      <3>7. ASSUME NEW f \in In(fromHost), f.of \in Handles
            PROVE  /\ f.type \in {"opened", "refused"} /\ opening'[f.of] # "new"
                   /\ openSeq'[f.of] > 0
                   /\ \A q \in In(toHost') : q.type = "open" => q.of # f.of
                   /\ f.type = "refused" => hostOpen' # openSeq'[f.of]
            BY <2>1, <3>5, <3>7 DEF FromHostInv
      <3>8. ASSUME NEW f \in In(fromHost), f.of \in Closers
            PROVE  /\ closer'[f.of].at # "idle"
                   /\ f.type = "closed" => hostOpen' # openSeq'[closer'[f.of].of]
        <4>1. /\ closer[f.of].at # "idle"
              /\ f.type = "closed" => hostOpen # openSeq[closer[f.of].of]
              BY <3>8 DEF FromHostInv
        <4>2. /\ closer[f.of].of \in Handles /\ opening[closer[f.of].of] = "active"
              /\ openSeq[closer[f.of].of] > 0
              BY <3>8, <4>1 DEF CloserInv, HandleInv
        <4>3. \A q \in In(toHost) : q.type = "open" => q.of # closer[f.of].of
              BY <4>2 DEF ToHostInv
        <4> QED
              BY <2>1, <3>5, <4>1, <4>2, <4>3
      <3>9. ASSUME r.of \in Handles
            PROVE  /\ r.type \in {"opened", "refused"} /\ opening'[r.of] # "new"
                   /\ openSeq'[r.of] > 0
                   /\ \A q \in In(toHost') : q.type = "open" => q.of # r.of
                   /\ r.type = "refused" => hostOpen' # openSeq'[r.of]
        <4>1. m.type = "open"
              BY <2>4, <3>1, <3>4, <3>9, SurfaceAssumption
        <4>2. /\ r.type \in {"opened", "refused"}
              /\ r.type = "refused" => hostOpen' = hostOpen
              BY <2>4, <4>1
        <4>3. openSeq[r.of] = m.sequence /\ opening[r.of] # "new"
              BY <2>4, <3>3, <4>1
        <4>4. ASSUME NEW q \in In(toHost'), q.type = "open" PROVE q.of # r.of
          <5>1. q \in In(toHost) /\ q \in Requests /\ m.sequence < q.sequence
                BY <2>1, <2>2, <4>4
          <5>2. openSeq[q.of] = q.sequence /\ q.sequence \in Nat
                BY <4>4, <5>1 DEF ToHostInv, Requests
          <5> QED
                BY <2>2, <4>3, <5>1, <5>2
        <4> QED
              BY <2>1, <2>2, <4>2, <4>3, <4>4
      <3>10. ASSUME r.of \in Closers
             PROVE  /\ closer'[r.of].at # "idle"
                    /\ r.type = "closed" => hostOpen' # openSeq'[closer'[r.of].of]
        <4>1. m.type = "close" /\ closer[r.of].at # "idle"
              BY <2>4, <3>1, <3>3, <3>4, <3>10, SurfaceAssumption
        <4>2. r.type = "closed" => hostOpen' = 0
              BY <2>4, <4>1
        <4>3. openSeq[closer[r.of].of] > 0
              BY <3>10, <4>1 DEF CloserInv, HandleInv
        <4> QED
              BY <2>1, <4>1, <4>2, <4>3
      <3>11. r.of # None
             BY <2>4, <3>1, <3>3, <3>4, SurfaceAssumption
      <3> QED
            BY <2>4, <3>6, <3>7, <3>8, <3>9, <3>10, <3>11 DEF FromHostInv
    <2> QED
          BY <2>1, <2>3, <2>4
  <1>15. ASSUME HostCloses PROVE FromHostInv'
    <2> DEFINE r == Message("closed", None, hostOpen)
    <2>1. /\ hostOpen # 0 /\ hostOpen' = 0 /\ Reply("closed", None, hostOpen)
          /\ UNCHANGED <<sequence, opening, openSeq, closer, toHost>>
          BY <1>15 DEF HostCloses, handleVars
    <2>2. hostOpen \in Nat /\ In(fromHost') = In(fromHost) \cup {r}
          BY <2>1, ReplyEffect DEF TypeOK
    <2>3. r.of = None /\ r.sequence = hostOpen
          BY DEF Message
    <2> HIDE DEF r
    <2>4. /\ 0 < r.sequence /\ r.sequence <= sequence' /\ r.sequence # hostOpen'
          /\ \A q \in In(toHost') : r.sequence < q.sequence
          BY <2>1, <2>2, <2>3 DEF ToHostInv
    <2>5. ASSUME NEW m \in In(fromHost), m.of \in Closers, m.type = "closed"
          PROVE  hostOpen' # openSeq'[closer'[m.of].of]
          BY <2>1, <2>5 DEF FromHostInv, CloserInv, HandleInv
    <2>6. \A m \in In(fromHost) : m.of = None => 0 < m.sequence
          BY DEF FromHostInv
    <2>7. ASSUME NEW m \in In(fromHost)
          PROVE  /\ m.of = None =>
                       /\ 0 < m.sequence /\ m.sequence <= sequence' /\ m.sequence # hostOpen'
                       /\ \A q \in In(toHost') : m.sequence < q.sequence
                 /\ m.of \in Handles =>
                       /\ m.type \in {"opened", "refused"} /\ opening'[m.of] # "new"
                       /\ openSeq'[m.of] > 0
                       /\ \A q \in In(toHost') : q.type = "open" => q.of # m.of
                       /\ m.type = "refused" => hostOpen' # openSeq'[m.of]
                 /\ m.of \in Closers => closer'[m.of].at # "idle"
          BY <2>1, <2>6, <2>7 DEF FromHostInv
    <2>8. r.of \notin Handles \cup Closers
          BY <2>3, SurfaceAssumption
    <2> QED
          BY <2>2, <2>4, <2>5, <2>7, <2>8 DEF FromHostInv
  <1>16. CASE UNCHANGED vars
      BY <1>16 DEF vars, handleVars, hostVars, FromHostInv
  <1> QED
      BY <1>1, <1>2, <1>3, <1>4, <1>5, <1>6, <1>7, <1>8, <1>9, <1>10, <1>11, <1>12, <1>13,
         <1>14, <1>15, <1>16
         DEF Next, ReadNext, CallNext, HostNext

\* The host's surface and the registered handle agree.
LEMMA StepHost ==
    ASSUME TypeOK, HandleInv, CloserInv, ToHostInv, FromHostInv, HostInv, [Next]_vars
    PROVE  HostInv'
  <1>1. ASSUME NEW h \in Handles, OpenAnswered(h) PROVE HostInv'
    <2>1. ASSUME hostOpen # 0
          PROVE  \E g \in Handles : /\ openSeq[g] = hostOpen
                                    /\ registry' = g \/ opening'[g] = "abandoned"
      <3>1. PICK g \in Handles : openSeq[g] = hostOpen /\ (registry = g \/ opening[g] = "abandoned")
            BY <2>1 DEF HostInv, HostSurfaceIsOwned
      <3>2. registry = g => registry' = g
            BY <1>1, <3>1, OpenAnsweredEffect
      <3>3. opening[g] = "abandoned" => opening'[g] = "abandoned"
            BY <1>1, OpenAnsweredEffect
      <3> QED
            BY <3>1, <3>2, <3>3
    <2> QED
          BY <1>1, <2>1, OpenAnsweredEffect DEF HostInv, HostSurfaceIsOwned, ClosedAtHost
  <1>2. ASSUME NEW c \in Closers, CloseAnswered(c) PROVE HostInv'
    <2>1. CASE UNCHANGED <<registry, closed>>
          BY <1>2, <2>1, CloseAnsweredEffect DEF HostInv, HostSurfaceIsOwned, ClosedAtHost
    <2> QED
          BY <1>2, <2>1, CloseAnsweredEffect, ClearedKeepsHost
  <1>3. ASSUME ClosedNotice PROVE HostInv'
    <2>1. CASE UNCHANGED <<registry, closed>>
          BY <1>3, <2>1, ClosedNoticeEffect DEF HostInv, HostSurfaceIsOwned, ClosedAtHost
    <2> QED
          BY <1>3, <2>1, ClosedNoticeEffect, ClearedKeepsHost
  <1>4. ASSUME NEW h \in Handles, Open(h) PROVE HostInv'
    <2>1. ASSUME hostOpen # 0
          PROVE  \E g \in Handles : /\ openSeq'[g] = hostOpen
                                    /\ registry' = g \/ opening'[g] = "abandoned"
      <3>1. PICK g \in Handles : openSeq[g] = hostOpen /\ (registry = g \/ opening[g] = "abandoned")
            BY <2>1 DEF HostInv, HostSurfaceIsOwned
      <3>2. g # h
            BY <1>4, <2>1, <3>1, OpenEffect
      <3>3. openSeq'[g] = openSeq[g] /\ opening'[g] = opening[g]
            BY <1>4, <3>2, OpenEffect
      <3>4. registry = g => registry' = g
            BY <1>4, OpenEffect, SurfaceAssumption
      <3> QED
            BY <3>1, <3>3, <3>4
    <2>2. ASSUME NEW g \in Handles, closed'[g] /\ connected'
          PROVE  hostOpen # openSeq'[g]
      <3>1. g # h /\ closed[g] /\ connected
            BY <1>4, <2>2, OpenEffect, ZenonT(30)
      <3>2. openSeq'[g] = openSeq[g]
            BY <1>4, <3>1, OpenEffect
      <3> QED
            BY <3>1, <3>2 DEF HostInv, ClosedAtHost
    <2>3. hostOpen' = hostOpen
          BY <1>4, OpenEffect
    <2> QED
          BY <2>1, <2>2, <2>3 DEF HostInv, HostSurfaceIsOwned, ClosedAtHost
  <1>5. ASSUME NEW h \in Handles, CancelOpen(h) PROVE HostInv'
      BY <1>5
         DEF CancelOpen, Unregister, TypeOK, HostInv, HostSurfaceIsOwned, ClosedAtHost, hostVars
  <1>6. ASSUME NEW h \in Handles, Update(h) PROVE HostInv'
      BY <1>6 DEF Update, HostInv, HostSurfaceIsOwned, ClosedAtHost, hostVars
  <1>7. ASSUME NEW h \in Handles, StartFrame(h) PROVE HostInv'
      BY <1>7 DEF StartFrame, HostInv, HostSurfaceIsOwned, ClosedAtHost, hostVars
  <1>8. ASSUME NEW h \in Handles, RunFrame(h) PROVE HostInv'
      BY <1>8 DEF RunFrame, HostInv, HostSurfaceIsOwned, ClosedAtHost
  <1>9. ASSUME NEW h \in Handles, FrameSent(h) PROVE HostInv'
      BY <1>9 DEF FrameSent, HostInv, HostSurfaceIsOwned, ClosedAtHost, hostVars
  <1>10. ASSUME NEW c \in Closers, NEW h \in Handles, Close(c, h) PROVE HostInv'
      BY <1>10 DEF Close, HostInv, HostSurfaceIsOwned, ClosedAtHost, handleVars, hostVars
  <1>11. ASSUME NEW c \in Closers, LockClose(c) PROVE HostInv'
      BY <1>11 DEF LockClose, HostInv, HostSurfaceIsOwned, ClosedAtHost
  <1>12. ASSUME NEW c \in Closers, CancelClose(c) PROVE HostInv'
      BY <1>12 DEF CancelClose, HostInv, HostSurfaceIsOwned, ClosedAtHost, hostVars
  <1>13. ASSUME Disconnect PROVE HostInv'
      BY <1>13 DEF Disconnect, HostInv, HostSurfaceIsOwned, ClosedAtHost
  <1>14. ASSUME HostReads PROVE HostInv'
    <2>1. PICK m \in In(toHost) :
             /\ m \in Requests /\ connected
             /\ UNCHANGED <<connected, registry, sequence, opening, openSeq, closed, closer>>
             /\ \/ hostOpen' = hostOpen
                \/ hostOpen' = 0
                \/ m.type = "open" /\ hostOpen' = m.sequence
          BY <1>14, ReadEffect
    <2>2. CASE hostOpen' = hostOpen
          BY <2>1, <2>2 DEF HostInv, HostSurfaceIsOwned, ClosedAtHost
    <2>3. CASE hostOpen' = 0
      <3>1. \A g \in Handles : closed[g] => openSeq[g] > 0
            BY DEF HandleInv
      <3> QED
            BY <2>1, <2>3, <3>1 DEF HostInv, HostSurfaceIsOwned, ClosedAtHost
    <2>4. CASE m.type = "open" /\ hostOpen' = m.sequence
      <3>1. /\ m.of \in Handles /\ openSeq[m.of] = m.sequence /\ ~closed[m.of]
            /\ registry = m.of \/ opening[m.of] = "abandoned"
            BY <2>1, <2>4 DEF ToHostInv
      <3>2. \A g \in Handles : closed[g] => openSeq[g] # m.sequence
            BY <2>1, <3>1 DEF HandleInv
      <3> QED
            BY <2>1, <2>4, <3>1, <3>2 DEF HostInv, HostSurfaceIsOwned, ClosedAtHost
    <2> QED
          BY <2>1, <2>2, <2>3, <2>4
  <1>15. ASSUME HostCloses PROVE HostInv'
    <2>1. hostOpen' = 0 /\ UNCHANGED <<connected, registry, opening, openSeq, closed>>
          BY <1>15 DEF HostCloses, handleVars
    <2>2. \A g \in Handles : closed[g] => openSeq[g] > 0
          BY DEF HandleInv
    <2> QED
          BY <2>1, <2>2 DEF HostInv, HostSurfaceIsOwned, ClosedAtHost
  <1>16. CASE UNCHANGED vars
      BY <1>16 DEF vars, handleVars, hostVars, HostInv, HostSurfaceIsOwned, ClosedAtHost
  <1> QED
      BY <1>1, <1>2, <1>3, <1>4, <1>5, <1>6, <1>7, <1>8, <1>9, <1>10, <1>11, <1>12, <1>13,
         <1>14, <1>15, <1>16
         DEF Next, ReadNext, CallNext, HostNext

\* In every state the handles, the streams and the host agree.
THEOREM UInductive == SurfaceSpec => []UInv
  <1>1. SurfaceInit => UInv
    <2> SUFFICES ASSUME Init PROVE UInv
        BY DEF SurfaceInit
    <2>1. TypeOK
      <3>1. 0 \in 0 .. MaxUpdates
            BY SurfaceAssumption
      <3>2. NoFrame \in Frames
            BY <3>1 DEF NoFrame, Frames
      <3>3. closer \in [Closers -> CloseCalls]
            BY DEF Init, CloseCalls
      <3> QED
            BY <3>1, <3>2, <3>3 DEF Init, TypeOK
    <2>2. HandleInv
          BY SurfaceAssumption DEF Init, HandleInv
    <2>3. CloserInv
          BY DEF Init, CloserInv
    <2>4. ToHostInv /\ FromHostInv
          BY InEmpty DEF Init, ToHostInv, FromHostInv, Ordered
    <2>5. FrameInv
      <3> SUFFICES ASSUME NEW h \in Handles
                   PROVE  /\ sent[h] <= version[h] /\ pending[h] <= version[h]
                          /\ flight[h].version <= version[h]
                          /\ pending[h] = 0 /\ flight[h].at = "none"
          BY DEF FrameInv
      <3>1. sent[h] = 0 /\ version[h] = 0 /\ pending[h] = 0 /\ flight[h] = NoFrame
            BY DEF Init
      <3>2. flight[h].version = 0 /\ flight[h].at = "none"
            BY <3>1 DEF NoFrame
      <3> QED
            BY <3>1, <3>2
    <2>6. HostInv
          BY DEF Init, HostInv, HostSurfaceIsOwned, ClosedAtHost
    <2> QED
          BY <2>1, <2>2, <2>3, <2>4, <2>5, <2>6 DEF UInv
  <1>2. UInv /\ [SurfaceNext]_surfaceVars => UInv'
    <2> SUFFICES ASSUME UInv, [SurfaceNext]_surfaceVars PROVE UInv'
        OBVIOUS
    <2>1. [Next]_vars
          BY NextOfSurface
    <2> QED
          BY <2>1, StepType, StepHandle, StepCloser, StepToHost, StepFromHost, StepFrame,
             StepHost
             DEF UInv
  <1> QED
      BY <1>1, <1>2, PTL DEF SurfaceSpec

\* The host, the registry of the client and the handles agree on which opening of an id is
\* the present one, and what is sent about an id is sent in order.
THEOREM SurfaceInvariant == SurfaceSpec => []SurfaceInv
  <1>1. UInv => SurfaceInv
    <2> SUFFICES ASSUME UInv PROVE SurfaceInv
        OBVIOUS
    <2>1. TypeOK /\ UsableHandleOwnsId
          BY DEF UInv, HandleInv, UsableHandleOwnsId
    <2>2. HostSurfaceIsOwned /\ ClosedAtHost
          BY DEF UInv, HostInv
    <2>3. SentInOrder
      <3>1. Len(toHost) \in Nat
            BY <2>1 DEF TypeOK
      <3>2. \A i \in 1 .. Len(toHost) - 1 : toHost[i].sequence < toHost[i + 1].sequence
            BY <3>1 DEF UInv, ToHostInv, Ordered
      <3> QED
            BY <3>2 DEF UInv, FrameInv, SentInOrder
    <2> QED
          BY <2>1, <2>2, <2>3 DEF SurfaceInv
  <1> QED
      BY <1>1, UInductive, PTL

-----------------------------------------------------------------------------
(* The events of the watched handle *)

\* Numbers that grow.
Increasing(s) == \A i, j \in DOMAIN s : i < j => s[i] < s[j]

\* What EventType says of the events is what their own type invariant does, without the
\* sequences, which SeenInv and AcceptedInv bound by the latest event.
EventType ==
    /\ emitted \in Seq(Events!Kinds) /\ loop \in {"running", "failed"}
    /\ latest \in Nat /\ latest <= Len(emitted) /\ size \in 0 .. Len(emitted)
    /\ handlers \subseteq Events!Handlers /\ since \in [Events!Handlers -> Nat]
    /\ focus \in 0 .. latest /\ resize \in 0 .. latest
    /\ focus # 0 => emitted[focus] \in {"focus", "blur"}
    /\ resize # 0 => emitted[resize] = "resize"

\* A handler has seen events of its kind in the host's order, the latest at most.
SeenInv ==
    /\ seen \in [Events!Handlers -> Seq(1 .. latest)]
    /\ \A h \in Events!Handlers :
          /\ Increasing(seen[h])
          /\ \A i \in DOMAIN seen[h] : h \in Events!For(emitted[seen[h][i]])

\* What waits for a handler is older than all that a handler of its kind will see: no such
\* handler is subscribed, none was ever called, and nothing waits at a closed handle.
WaitingInv ==
    /\ EventPhase = "opening" =>
          handlers = {} /\ \A h \in Events!Handlers : seen[h] = <<>>
    /\ EventPhase = "closed" => focus = 0 /\ resize = 0
    /\ focus # 0 => /\ handlers \cap InputHandlers = {}
                    /\ \A h \in InputHandlers : seen[h] = <<>>
    /\ resize # 0 => /\ handlers \cap ResizeHandlers = {} /\ resize = size
                     /\ \A h \in ResizeHandlers : seen[h] = <<>>

\* A subscribed handler has seen all that was routed since.
AcceptedInv ==
    /\ accepted \in Seq(1 .. latest)
    /\ \A h \in Events!Handlers : since[h] <= latest
    /\ Events!SubscribersSeeAll

EInv == EventType /\ SeenInv /\ WaitingInv /\ AcceptedInv

\* An event behind older ones.
LEMMA AppendNewer ==
    ASSUME NEW m \in Nat, NEW n \in Nat, m < n, NEW s \in Seq(1 .. m)
    PROVE  /\ s \in Seq(1 .. n) /\ Append(s, n) \in Seq(1 .. n)
           /\ DOMAIN s = 1 .. Len(s) /\ Len(s) \in Nat
           /\ DOMAIN Append(s, n) = 1 .. Len(s) + 1
           /\ \A i \in 1 .. Len(s) : Append(s, n)[i] = s[i]
           /\ Append(s, n)[Len(s) + 1] = n
           /\ Increasing(s) => Increasing(Append(s, n))
  <1>1. 1 .. m \subseteq 1 .. n /\ n \in 1 .. n
        OBVIOUS
  <1>2. s \in Seq(1 .. n)
        BY <1>1
  <1>3. /\ Append(s, n) \in Seq(1 .. n) /\ Len(Append(s, n)) = Len(s) + 1
        /\ \A i \in 1 .. Len(s) : Append(s, n)[i] = s[i]
        /\ Append(s, n)[Len(s) + 1] = n
        BY <1>1, <1>2
  <1>4. /\ DOMAIN s = 1 .. Len(s) /\ Len(s) \in Nat
        /\ DOMAIN Append(s, n) = 1 .. Len(s) + 1
        BY <1>3
  <1>5. ASSUME Increasing(s), NEW i \in 1 .. Len(s) + 1, NEW j \in 1 .. Len(s) + 1, i < j
        PROVE  Append(s, n)[i] < Append(s, n)[j]
    <2>1. i \in 1 .. Len(s) /\ Append(s, n)[i] = s[i] /\ s[i] \in 1 .. m
          BY <1>3, <1>4, <1>5
    <2>2. CASE j \in 1 .. Len(s)
          BY <1>3, <1>4, <1>5, <2>1, <2>2 DEF Increasing
    <2>3. CASE j = Len(s) + 1
          BY <1>3, <2>1, <2>3
    <2> QED
          BY <1>4, <2>2, <2>3
  <1> QED
        BY <1>2, <1>3, <1>4, <1>5 DEF Increasing

\* What the routing of an event changes: the handlers of its kind are called with it, some
\* of them if one raises.
LEMMA RouteEffect ==
    ASSUME EInv, NEW n \in 1 .. MaxEvents, NEW raises \in BOOLEAN, Events!Route(n, raises)
    PROVE  /\ EventPhase # "closed" /\ EventPhase' = EventPhase
           /\ n \in Nat /\ n \in 1 .. Len(emitted) /\ latest < n /\ latest' = n
           /\ UNCHANGED <<emitted, handlers, since>>
           /\ accepted' = Append(accepted, n) /\ loop' \in {"running", "failed"}
           /\ \E called \in SUBSET (handlers \cap Events!For(emitted[n])) :
                 /\ seen' = [h \in Events!Handlers |->
                                IF h \in called THEN Append(seen[h], n) ELSE seen[h]]
                 /\ loop' = "running" => called = handlers \cap Events!For(emitted[n])
  <1>1. /\ EventPhase # "closed" /\ EventPhase' = EventPhase
        /\ n \in DOMAIN emitted /\ latest < n /\ latest' = n
        /\ UNCHANGED <<emitted, handlers, since>> /\ accepted' = Append(accepted, n)
        BY DEF Events!Route, Events!Fresh, EInv, EventType
  <1>2. n \in Nat /\ n \in 1 .. Len(emitted)
        BY <1>1 DEF EInv, EventType
  <1>3. CASE raises
    <2>1. PICK first \in SUBSET (handlers \cap Events!For(emitted[n])) :
             Events!Calls(first, n) /\ loop' = "failed"
          BY <1>3 DEF Events!Route
    <2> QED
          BY <1>1, <1>2, <2>1 DEF Events!Calls
  <1>4. CASE ~raises
    <2>1. Events!Calls(handlers \cap Events!For(emitted[n]), n) /\ loop' = loop
          BY <1>4 DEF Events!Route
    <2> QED
          BY <1>1, <1>2, <2>1 DEF Events!Calls, EInv, EventType
  <1> QED
        BY <1>3, <1>4

\* An event that is routed keeps the order, is seen by the handlers that are subscribed,
\* and waits for one only while the surface opens.
LEMMA RouteStep ==
    ASSUME EInv, NEW n \in 1 .. MaxEvents, NEW raises \in BOOLEAN, Events!Route(n, raises)
    PROVE  EInv'
  <1> DEFINE Called == handlers \cap Events!For(emitted[n])
  <1>1. /\ EventPhase # "closed" /\ EventPhase' = EventPhase
        /\ n \in Nat /\ n \in 1 .. Len(emitted) /\ latest < n /\ latest' = n
        /\ UNCHANGED <<emitted, handlers, since>>
        /\ accepted' = Append(accepted, n) /\ loop' \in {"running", "failed"}
        BY RouteEffect
  <1>2. PICK called \in SUBSET Called :
           /\ seen' = [h \in Events!Handlers |->
                          IF h \in called THEN Append(seen[h], n) ELSE seen[h]]
           /\ loop' = "running" => called = Called
        BY RouteEffect
  <1>3. /\ size' = IF emitted[n] = "resize" THEN n ELSE size
        /\ resize' = IF Called = {} THEN Events!PendingResize(n) ELSE resize
        /\ focus' = IF Called = {} THEN Events!PendingFocus(n) ELSE focus
        BY DEF Events!Route
  <1>4. EventPhase \in {"opening", "active", "closed"}
        BY DEF EventPhase
  <1>5. /\ latest \in Nat /\ Len(emitted) \in Nat /\ handlers \subseteq Events!Handlers
        /\ seen \in [Events!Handlers -> Seq(1 .. latest)]
        BY DEF EInv, EventType, SeenInv
  <1>6. ASSUME NEW h \in Events!Handlers
        PROVE  /\ seen'[h] \in Seq(1 .. n) /\ Increasing(seen'[h])
               /\ DOMAIN seen[h] = 1 .. Len(seen[h]) /\ Len(seen[h]) \in Nat
               /\ h \notin called => seen'[h] = seen[h]
               /\ h \in called => /\ DOMAIN seen'[h] = 1 .. Len(seen[h]) + 1
                                  /\ seen'[h][Len(seen[h]) + 1] = n
               /\ \A i \in DOMAIN seen[h] : i \in DOMAIN seen'[h] /\ seen'[h][i] = seen[h][i]
    <2>1. seen[h] \in Seq(1 .. latest) /\ Increasing(seen[h])
          BY <1>5 DEF EInv, SeenInv
    <2>2. CASE h \in called
      <3>1. seen'[h] = Append(seen[h], n)
            BY <1>2, <2>2
      <3>2. /\ DOMAIN seen[h] = 1 .. Len(seen[h]) /\ Len(seen[h]) \in Nat
            /\ DOMAIN seen'[h] = 1 .. Len(seen[h]) + 1
            /\ \A i \in 1 .. Len(seen[h]) : seen'[h][i] = seen[h][i]
            /\ seen'[h][Len(seen[h]) + 1] = n
            /\ seen'[h] \in Seq(1 .. n) /\ Increasing(seen'[h])
            BY <1>1, <1>5, <2>1, <3>1, AppendNewer
      <3> QED
            BY <2>2, <3>2
    <2>3. CASE h \notin called
      <3>1. seen'[h] = seen[h]
            BY <1>2, <2>3
      <3> QED
            BY <1>1, <1>5, <2>1, <2>3, <3>1, AppendNewer
    <2> QED
          BY <2>2, <2>3
  <1> HIDE DEF Called
  <1>7. EventType'
    <2>1. \/ focus' = focus
          \/ focus' = n /\ emitted[n] \in {"focus", "blur"}
          BY <1>3 DEF Events!PendingFocus
    <2>2. \/ resize' \in {resize, 0}
          \/ resize' = n /\ emitted[n] = "resize"
          BY <1>3 DEF Events!PendingResize
    <2>3. /\ focus' \in 0 .. latest' /\ resize' \in 0 .. latest' /\ size' \in 0 .. Len(emitted')
          BY <1>1, <1>3, <1>5, <2>1, <2>2 DEF EInv, EventType
    <2> QED
          BY <1>1, <1>5, <2>1, <2>2, <2>3 DEF EInv, EventType
  <1>8. SeenInv'
    <2>1. seen' \in [Events!Handlers -> Seq(1 .. latest')]
          BY <1>1, <1>2, <1>6
    <2>2. ASSUME NEW h \in Events!Handlers, NEW i \in DOMAIN seen'[h]
          PROVE  h \in Events!For(emitted[seen'[h][i]])
      <3>1. CASE i \in DOMAIN seen[h]
            BY <1>6, <3>1 DEF EInv, SeenInv
      <3>2. CASE i \notin DOMAIN seen[h]
        <4>1. h \in called /\ seen'[h][i] = n
              BY <1>6, <2>2, <3>2
        <4> QED
              BY <1>2, <4>1 DEF Called
      <3> QED
            BY <3>1, <3>2
    <2> QED
          BY <1>1, <1>6, <2>1, <2>2 DEF SeenInv
  <1>9. WaitingInv'
    <2>1. EventPhase = "opening" => Called = {} /\ \A h \in Events!Handlers : seen'[h] = seen[h]
          BY <1>2, <1>6 DEF EInv, WaitingInv, Called
    <2>2. ASSUME focus' # 0
          PROVE  handlers \cap InputHandlers = {} /\ \A h \in InputHandlers : seen'[h] = <<>>
      <3>1. /\ handlers \cap InputHandlers = {} /\ \A h \in InputHandlers : seen[h] = <<>>
        <4>1. CASE focus # 0
              BY <4>1 DEF EInv, WaitingInv
        <4>2. CASE focus = 0
          <5>1. EventPhase = "opening"
                BY <1>1, <1>3, <1>4, <2>2, <4>2 DEF Events!PendingFocus
          <5> QED
                BY <5>1 DEF EInv, WaitingInv, Events!Handlers
        <4> QED
              BY <4>1, <4>2
      <3>2. \A h \in InputHandlers : h \in Events!Handlers /\ h \notin called
            BY <1>2, <3>1 DEF Called, Events!Handlers
      <3> QED
            BY <1>6, <3>1, <3>2
    <2>3. ASSUME resize' # 0
          PROVE  /\ handlers \cap ResizeHandlers = {} /\ resize' = size'
                 /\ \A h \in ResizeHandlers : seen'[h] = <<>>
      <3>1. CASE resize # 0
        <4>1. /\ handlers \cap ResizeHandlers = {} /\ resize = size
              /\ \A h \in ResizeHandlers : seen[h] = <<>>
              BY <3>1 DEF EInv, WaitingInv
        <4>2. emitted[n] = "resize" => Called = {}
              BY <4>1 DEF Called, Events!For
        <4>3. resize' = size'
              BY <1>3, <2>3, <4>1, <4>2 DEF Events!PendingResize
        <4>4. \A h \in ResizeHandlers : h \in Events!Handlers /\ h \notin called
              BY <1>2, <4>1 DEF Called, Events!Handlers
        <4> QED
              BY <1>6, <4>1, <4>3, <4>4
      <3>2. CASE resize = 0
        <4>1. EventPhase = "opening" /\ resize' = size'
              BY <1>1, <1>3, <1>4, <2>3, <3>2 DEF Events!PendingResize
        <4> QED
              BY <2>1, <4>1 DEF EInv, WaitingInv, Events!Handlers
      <3> QED
            BY <3>1, <3>2
    <2> QED
          BY <1>1, <2>1, <2>2, <2>3 DEF EInv, WaitingInv
  <1>10. AcceptedInv'
    <2>1. accepted \in Seq(1 .. latest)
          BY DEF EInv, AcceptedInv
    <2>2. /\ accepted' \in Seq(1 .. latest') /\ Len(accepted) \in Nat
          /\ DOMAIN accepted = 1 .. Len(accepted) /\ DOMAIN accepted' = 1 .. Len(accepted) + 1
          /\ \A i \in 1 .. Len(accepted) : accepted'[i] = accepted[i]
          /\ accepted'[Len(accepted) + 1] = n
          BY <1>1, <1>5, <2>1, AppendNewer
    <2>3. \A h \in Events!Handlers : since'[h] <= latest'
      <3>1. since \in [Events!Handlers -> Nat] /\ \A h \in Events!Handlers : since[h] <= latest
            BY DEF EInv, EventType, AcceptedInv
      <3> QED
            BY <1>1, <1>5, <3>1
    <2>4. ASSUME loop' = "running", NEW h \in handlers, NEW i \in DOMAIN accepted',
                 accepted'[i] > since[h], h \in Events!For(emitted[accepted'[i]])
          PROVE  \E j \in DOMAIN seen'[h] : seen'[h][j] = accepted'[i]
      <3>1. h \in Events!Handlers
            BY <1>5
      <3>2. CASE i \in DOMAIN accepted
        <4>1. accepted'[i] = accepted[i] /\ loop = "running"
              BY <2>2, <3>2 DEF Events!Route
        <4>2. PICK j \in DOMAIN seen[h] : seen[h][j] = accepted[i]
              BY <2>4, <3>2, <4>1 DEF EInv, AcceptedInv, Events!SubscribersSeeAll
        <4> QED
              BY <1>6, <3>1, <4>1, <4>2
      <3>3. CASE i \notin DOMAIN accepted
        <4>1. accepted'[i] = n
              BY <2>2, <2>4, <3>3
        <4>2. h \in called
              BY <1>2, <2>4, <4>1 DEF Called
        <4>3. Len(seen[h]) + 1 \in DOMAIN seen'[h] /\ seen'[h][Len(seen[h]) + 1] = n
              BY <1>6, <3>1, <4>2
        <4> QED
              BY <4>1, <4>3
      <3> QED
            BY <3>2, <3>3
    <2> QED
          BY <1>1, <2>2, <2>3, <2>4 DEF AcceptedInv, Events!SubscribersSeeAll
  <1> QED
        BY <1>7, <1>8, <1>9, <1>10 DEF EInv

\* The host's next event changes nothing of the older ones.
LEMMA EmitStep ==
    ASSUME EInv, NEW kind \in Events!Kinds, Events!Emit(kind)
    PROVE  EInv'
  <1>1. /\ emitted' = Append(emitted, kind) /\ EventPhase' = EventPhase
        /\ UNCHANGED <<loop, latest, handlers, focus, resize, size, accepted, since, seen>>
        BY DEF Events!Emit, Events!pendingVars
  <1>2. emitted \in Seq(Events!Kinds) /\ latest \in Nat /\ latest <= Len(emitted)
        BY DEF EInv, EventType
  <1>3. /\ emitted' \in Seq(Events!Kinds) /\ Len(emitted') = Len(emitted) + 1
        /\ Len(emitted) \in Nat /\ \A i \in 1 .. latest : emitted'[i] = emitted[i]
        BY <1>1, <1>2
  <1>4. EventType'
    <2>1. /\ focus \in 0 .. latest /\ resize \in 0 .. latest /\ size \in 0 .. Len(emitted)
          /\ focus # 0 => emitted[focus] \in {"focus", "blur"}
          /\ resize # 0 => emitted[resize] = "resize"
          BY DEF EInv, EventType
    <2>2. /\ focus # 0 => emitted'[focus] \in {"focus", "blur"}
          /\ resize # 0 => emitted'[resize] = "resize"
          BY <1>2, <1>3, <2>1
    <2> QED
          BY <1>1, <1>2, <1>3, <2>1, <2>2 DEF EInv, EventType
  <1>5. SeenInv'
    <2>1. ASSUME NEW h \in Events!Handlers, NEW i \in DOMAIN seen[h]
          PROVE  emitted'[seen[h][i]] = emitted[seen[h][i]]
      <3>1. seen[h] \in Seq(1 .. latest)
            BY DEF EInv, SeenInv
      <3>2. seen[h][i] \in 1 .. latest
            BY <3>1, LenProperties, ElementOfSeq
      <3> QED
            BY <1>3, <3>2
    <2> QED
          BY <1>1, <2>1 DEF EInv, SeenInv
  <1>6. AcceptedInv'
    <2>1. ASSUME NEW i \in DOMAIN accepted PROVE emitted'[accepted[i]] = emitted[accepted[i]]
      <3>1. accepted \in Seq(1 .. latest)
            BY DEF EInv, AcceptedInv
      <3>2. accepted[i] \in 1 .. latest
            BY <3>1, LenProperties, ElementOfSeq
      <3> QED
            BY <1>3, <3>2
    <2> QED
          BY <1>1, <2>1 DEF EInv, AcceptedInv, Events!SubscribersSeeAll
  <1>7. WaitingInv'
        BY <1>1 DEF EInv, WaitingInv
  <1> QED
        BY <1>4, <1>5, <1>6, <1>7 DEF EInv

\* A new handler gets what waits for it, and that is the first event it sees.
LEMMA SubscribeStep ==
    ASSUME EInv, NEW h \in Events!Handlers, Events!Subscribe(h)
    PROVE  EInv'
  <1> DEFINE waiting == IF h \in InputHandlers THEN focus ELSE resize
  <1>1. /\ EventPhase # "opening" /\ EventPhase' = EventPhase
        /\ handlers' = handlers \cup {h} /\ since' = [since EXCEPT ![h] = latest]
        /\ seen' = IF waiting = 0 THEN seen ELSE [seen EXCEPT ![h] = Append(@, waiting)]
        /\ focus' = IF h \in InputHandlers THEN 0 ELSE focus
        /\ resize' = IF h \in ResizeHandlers THEN 0 ELSE resize
        /\ UNCHANGED <<emitted, loop, latest, size, accepted>>
        BY DEF Events!Subscribe
  <1>2. /\ latest \in Nat /\ since \in [Events!Handlers -> Nat]
        /\ seen \in [Events!Handlers -> Seq(1 .. latest)]
        /\ focus \in 0 .. latest /\ resize \in 0 .. latest
        BY DEF EInv, EventType, SeenInv
  <1>3. h \in InputHandlers \/ h \in ResizeHandlers
        BY DEF Events!Handlers
  <1>4. \A g \in Events!Handlers : g # h => seen'[g] = seen[g]
        BY <1>1, <1>2
  <1>5. \/ seen'[h] = seen[h]
        \/ /\ seen[h] = <<>> /\ seen'[h] = <<waiting>> /\ waiting \in 1 .. latest
           /\ h \in Events!For(emitted[waiting])
    <2>1. CASE waiting = 0
          BY <1>1, <2>1
    <2>2. CASE waiting # 0
      <3>1. seen'[h] = Append(seen[h], waiting) /\ waiting \in 1 .. latest
            BY <1>1, <1>2, <2>2
      <3>2. seen[h] = <<>> /\ h \in Events!For(emitted[waiting])
            BY <1>3, <2>2 DEF EInv, WaitingInv, EventType, Events!For
      <3> QED
            BY <3>1, <3>2
    <2> QED
          BY <2>1, <2>2
  <1>6. seen' \in [Events!Handlers -> Seq(1 .. latest)]
    <2>1. seen'[h] \in Seq(1 .. latest)
      <3>1. CASE seen'[h] = seen[h]
            BY <1>2, <3>1
      <3>2. CASE seen'[h] = <<waiting>> /\ waiting \in 1 .. latest
            BY <3>2
      <3> QED
            BY <1>5, <3>1, <3>2
    <2> QED
          BY <1>1, <1>2, <2>1
  <1> HIDE DEF waiting
  <1>7. EventType'
    <2>1. since' \in [Events!Handlers -> Nat] /\ handlers' \subseteq Events!Handlers
          BY <1>1, <1>2 DEF EInv, EventType
    <2>2. focus' \in {focus, 0} /\ resize' \in {resize, 0} /\ 0 \in 0 .. latest
          BY <1>1, <1>2
    <2> QED
          BY <1>1, <1>2, <2>1, <2>2 DEF EInv, EventType
  <1>8. SeenInv'
    <2>1. ASSUME NEW g \in Events!Handlers
          PROVE  /\ Increasing(seen'[g])
                 /\ \A i \in DOMAIN seen'[g] : g \in Events!For(emitted[seen'[g][i]])
      <3>1. CASE seen'[g] = seen[g]
            BY <3>1 DEF EInv, SeenInv
      <3>2. CASE g = h /\ seen'[h] = <<waiting>> /\ h \in Events!For(emitted[waiting])
        <4>1. DOMAIN seen'[g] = {1} /\ seen'[g][1] = waiting
              BY <3>2
        <4> QED
              BY <3>2, <4>1 DEF Increasing
      <3> QED
            BY <1>4, <1>5, <3>1, <3>2
    <2> QED
          BY <1>1, <1>6, <2>1 DEF SeenInv
  <1>9. WaitingInv'
    <2>1. ASSUME focus' # 0
          PROVE  handlers' \cap InputHandlers = {} /\ \A g \in InputHandlers : seen'[g] = <<>>
      <3>1. h \notin InputHandlers /\ focus # 0
            BY <1>1, <2>1
      <3> QED
            BY <1>1, <1>4, <3>1 DEF EInv, WaitingInv, Events!Handlers
    <2>2. ASSUME resize' # 0
          PROVE  /\ handlers' \cap ResizeHandlers = {} /\ resize' = size'
                 /\ \A g \in ResizeHandlers : seen'[g] = <<>>
      <3>1. h \notin ResizeHandlers /\ resize # 0 /\ resize' = resize
            BY <1>1, <2>2
      <3> QED
            BY <1>1, <1>4, <3>1 DEF EInv, WaitingInv, Events!Handlers
    <2>3. EventPhase = "closed" => focus' = 0 /\ resize' = 0
          BY <1>1 DEF EInv, WaitingInv
    <2> QED
          BY <1>1, <2>1, <2>2, <2>3 DEF WaitingInv
  <1>10. AcceptedInv'
    <2>1. accepted \in Seq(1 .. latest) /\ \A g \in Events!Handlers : since'[g] <= latest
          BY <1>1, <1>2 DEF EInv, AcceptedInv
    <2>2. ASSUME loop = "running", NEW g \in handlers', NEW i \in DOMAIN accepted,
                 accepted[i] > since'[g], g \in Events!For(emitted[accepted[i]])
          PROVE  \E j \in DOMAIN seen'[g] : seen'[g][j] = accepted[i]
      <3>1. since'[h] = latest /\ accepted[i] <= latest /\ accepted[i] \in Nat
            BY <1>1, <1>2, <2>1
      <3>2. g # h
            BY <1>2, <2>2, <3>1
      <3>3. g \in handlers /\ g \in Events!Handlers /\ since'[g] = since[g] /\ seen'[g] = seen[g]
            BY <1>1, <1>2, <1>4, <2>2, <3>2 DEF EInv, EventType
      <3> QED
            BY <2>2, <3>3 DEF EInv, AcceptedInv, Events!SubscribersSeeAll
    <2> QED
          BY <1>1, <2>1, <2>2 DEF AcceptedInv, Events!SubscribersSeeAll
  <1> QED
        BY <1>7, <1>8, <1>9, <1>10 DEF EInv

\* Every step of the watched handle and of the host keeps what the handlers see.
LEMMA EventStep ==
    ASSUME EInv, [Events!Next]_(Events!vars)
    PROVE  EInv'
  <1>1. ASSUME Events!Activate PROVE EInv'
    <2>1. /\ EventPhase' = "active" /\ UNCHANGED <<emitted, loop, latest, handlers, focus, resize>>
          /\ UNCHANGED <<size, accepted, since, seen>>
          BY <1>1 DEF Events!Activate, Events!pendingVars
    <2> QED
          BY <2>1 DEF EInv, EventType, SeenInv, WaitingInv, AcceptedInv, Events!SubscribersSeeAll
  <1>2. ASSUME NEW h \in Events!Handlers, Events!Unsubscribe(h) PROVE EInv'
    <2>1. /\ EventPhase' = EventPhase /\ handlers' = handlers \ {h}
          /\ UNCHANGED <<emitted, loop, latest, focus, resize, size, accepted, since, seen>>
          BY <1>2 DEF Events!Unsubscribe, Events!pendingVars
    <2> QED
          BY <2>1 DEF EInv, EventType, SeenInv, WaitingInv, AcceptedInv, Events!SubscribersSeeAll
  <1>3. ASSUME Events!Close PROVE EInv'
    <2>1. /\ EventPhase' = "closed" /\ handlers' = {} /\ focus' = 0 /\ resize' = 0
          /\ UNCHANGED <<emitted, loop, latest, size, accepted, since, seen>>
          BY <1>3 DEF Events!Close
    <2>2. 0 \in 0 .. latest
          BY DEF EInv, EventType
    <2> QED
          BY <2>1, <2>2
             DEF EInv, EventType, SeenInv, WaitingInv, AcceptedInv, Events!SubscribersSeeAll
  <1>4. ASSUME UNCHANGED Events!vars PROVE EInv'
    <2>1. /\ EventPhase' = EventPhase
          /\ UNCHANGED <<emitted, loop, latest, handlers, focus, resize>>
          /\ UNCHANGED <<size, accepted, since, seen>>
          BY <1>4 DEF Events!vars, Events!pendingVars
    <2> QED
          BY <2>1 DEF EInv, EventType, SeenInv, WaitingInv, AcceptedInv, Events!SubscribersSeeAll
  <1> QED
        BY <1>1, <1>2, <1>3, <1>4, EmitStep, RouteStep, SubscribeStep DEF Events!Next

\* To the watched handle, a step of the whole is a step of its events or none.
LEMMA NextOfEvents == [SurfaceNext]_surfaceVars => [Events!Next]_(Events!vars)
  <1>1. UNCHANGED vars => EventPhase' = EventPhase
        BY DEF vars, handleVars, EventPhase
  <1>2. EventPhase' = EventPhase /\ UNCHANGED eventVars => UNCHANGED Events!vars
        BY DEF eventVars, Events!vars, Events!pendingVars
  <1>3. UNCHANGED surfaceVars => UNCHANGED Events!vars
        BY <1>1, <1>2 DEF surfaceVars
  <1> QED
        BY <1>2, <1>3 DEF SurfaceNext, Joint, HostEmits, Routed, Subscriptions, Events!Next

\* In every state the handlers have seen what they should.
THEOREM EInductive == SurfaceSpec => []EInv
  <1>1. SurfaceInit => EInv
    <2> SUFFICES ASSUME Init, Events!Init PROVE EInv
        BY DEF SurfaceInit
    <2>1. /\ emitted = <<>> /\ loop = "running" /\ latest = 0 /\ handlers = {}
          /\ focus = 0 /\ resize = 0 /\ size = 0 /\ accepted = <<>>
          /\ since = [h \in Events!Handlers |-> 0] /\ seen = [h \in Events!Handlers |-> <<>>]
          BY DEF Events!Init
    <2>2. EventType
          BY <2>1 DEF EventType
    <2>3. SeenInv
          BY <2>1 DEF SeenInv, Increasing
    <2>4. WaitingInv
          BY <2>1 DEF WaitingInv
    <2>5. AcceptedInv
          BY <2>1 DEF AcceptedInv, Events!SubscribersSeeAll
    <2> QED
          BY <2>2, <2>3, <2>4, <2>5 DEF EInv
  <1>2. EInv /\ [SurfaceNext]_surfaceVars => EInv'
        BY NextOfEvents, EventStep
  <1> QED
      BY <1>1, <1>2, PTL DEF SurfaceSpec

\* What the handlers of the watched handle see, whoever opens, uses and closes it: events
\* in the host's order, none twice, all that are routed, and the size that it reports.
THEOREM EventsAreSeenAlways == SurfaceSpec => []EventsAreSeen
  <1>1. EInv => EventsAreSeen
    <2> SUFFICES ASSUME EInv PROVE EventsAreSeen
        OBVIOUS
    <2>1. /\ DOMAIN emitted = 1 .. Len(emitted) /\ Len(emitted) \in Nat
          /\ latest \in Nat /\ 1 .. latest \subseteq DOMAIN emitted
          BY DEF EInv, EventType
    <2>2. /\ accepted \in Seq(DOMAIN emitted)
          /\ \A h \in Events!Handlers : seen[h] \in Seq(DOMAIN emitted)
          BY <2>1 DEF EInv, SeenInv, AcceptedInv
    <2>3. EventPhase \in {"opening", "active", "closed"}
          BY DEF EventPhase
    <2>4. {latest, size} \subseteq 0 .. Len(emitted)
          BY <2>1 DEF EInv, EventType
    <2>5. Events!TypeOK
          BY <2>2, <2>3, <2>4 DEF EInv, EventType, Events!TypeOK
    <2>6. Events!SeenInOrder
          BY DEF EInv, SeenInv, Increasing, Events!SeenInOrder
    <2>7. Events!SubscribersSeeAll /\ Events!ReplayedSizeIsCurrent
          BY DEF EInv, AcceptedInv, WaitingInv, Events!ReplayedSizeIsCurrent
    <2> QED
          BY <2>5, <2>6, <2>7 DEF EventsAreSeen, Events!EventsInv
  <1> QED
      BY <1>1, EInductive, PTL

\* While a close() asks the host, and after it, no step sends a frame.
LEMMA QuietHost ==
    ASSUME TypeOK, CloserInv, [Next]_vars
    PROVE  NoFrameAfterClose
  <1>1. ASSUME NEW h \in Handles, RunFrame(h) PROVE NoFrameAfterClose
    <2>1. CASE closed[h] \/ closing[h] \/ ~connected
      <3>1. sent' = sent
            BY <1>1, <2>1 DEF RunFrame
      <3> QED
            BY <3>1 DEF NoFrameAfterClose
    <2>2. CASE ~(closed[h] \/ closing[h] \/ ~connected)
      <3>1. \A g \in Handles : sent'[g] # sent[g] => g = h
            BY <1>1, <2>2 DEF RunFrame, TypeOK
      <3>2. ~closed[h] /\ \A c \in Closers : closer[c].of = h => closer[c].at # "asking"
            BY <2>2 DEF CloserInv
      <3> QED
            BY <3>1, <3>2 DEF NoFrameAfterClose
    <2> QED
          BY <2>1, <2>2
  <1>2. CASE sent' = sent
        BY <1>2 DEF NoFrameAfterClose
  <1>3. sent' = sent \/ \E h \in Handles : RunFrame(h)
        BY DEF Next, ReadNext, CallNext, HostNext, OpenAnswered, CloseAnswered, ClosedNotice,
               Open,
               CancelOpen, Update, StartFrame, FrameSent, Close, LockClose, CancelClose,
               Disconnect, HostReads, HostCloses, vars, handleVars
  <1> QED
        BY <1>1, <1>2, <1>3

\* No step calls a handler of a closed handle.
LEMMA QuietHandlers ==
    ASSUME EInv, [Events!Next]_(Events!vars)
    PROVE  Events!NothingAfterClose
  <1>1. ASSUME NEW h \in Events!Handlers, Events!Subscribe(h), EventPhase = "closed"
        PROVE  seen' = seen
        BY <1>1 DEF Events!Subscribe, EInv, WaitingInv
  <1>2. ASSUME NEW n \in 1 .. MaxEvents, NEW raises \in BOOLEAN, Events!Route(n, raises)
        PROVE  EventPhase # "closed"
        BY <1>2 DEF Events!Route
  <1>3. \/ seen' = seen
        \/ \E h \in Events!Handlers : Events!Subscribe(h)
        \/ \E n \in 1 .. MaxEvents, raises \in BOOLEAN : Events!Route(n, raises)
        BY DEF Events!Next, Events!Emit, Events!Activate, Events!Unsubscribe, Events!Close,
               Events!vars
  <1> QED
        BY <1>1, <1>2, <1>3 DEF Events!NothingAfterClose

\* After a close neither side of a surface goes on, although other handles of the same id
\* may be open.
THEOREM QuietAfterCloseAlways == SurfaceSpec => QuietAfterClose
  <1>1. /\ UInv /\ EInv /\ [SurfaceNext]_surfaceVars
        => [NoFrameAfterClose /\ Events!NothingAfterClose]_surfaceVars
    <2> SUFFICES ASSUME UInv, EInv, [SurfaceNext]_surfaceVars
                 PROVE  NoFrameAfterClose /\ Events!NothingAfterClose
        OBVIOUS
    <2>1. NoFrameAfterClose
          BY NextOfSurface, QuietHost DEF UInv
    <2>2. Events!NothingAfterClose
          BY NextOfEvents, QuietHandlers
    <2> QED
          BY <2>1, <2>2
  <1> QED
      BY <1>1, UInductive, EInductive, PTL DEF SurfaceSpec, QuietAfterClose

=============================================================================
