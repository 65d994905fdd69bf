-------------------------- MODULE Extension_proofs --------------------------
(***************************************************************************)
(* Theorems about three parts of an extension's process, which share no    *)
(* state, for every value of the constants: its event handlers and its     *)
(* tables (Extension), the loop that reads the host's frames               *)
(* (FrameReading), and the leases that its handlers hold (Leases).         *)
(***************************************************************************)
EXTENDS Extension, FrameReading, Leases,
        FiniteSetTheorems, SequenceTheorems, WellFoundedInduction, TLAPS

-----------------------------------------------------------------------------
(* Induction, and what the folds compute *)

\* A set of natural numbers that has an element has a least one.
LEMMA LeastExists ==
    ASSUME NEW T, T \subseteq Nat, T # {}
    PROVE \E x \in T : \A y \in T : x =< y
<1> DEFINE R == {ss \in Nat \X Nat : ss[1] < ss[2]}
<1>1. R = OpToRel(<, Nat)
  BY DEF OpToRel
<1>2. IsWellFoundedOn(R, Nat)
  BY <1>1, NatLessThanWellFounded
<1>3. \A x, y \in Nat : <<y, x>> \notin R => x =< y
  OBVIOUS
<1> HIDE DEF R
<1>4. \E x \in T : \A y \in T : <<y, x>> \notin R
  BY <1>2, WFMin
<1> QED
  BY <1>3, <1>4

\* A set that holds 0, and with a number the next one, holds them all.
LEMMA Induction ==
    ASSUME NEW T, 0 \in T, \A n \in Nat : n \in T => n + 1 \in T
    PROVE Nat \subseteq T
<1> SUFFICES ASSUME Nat \ T # {} PROVE FALSE
  OBVIOUS
<1>1. PICK x \in Nat \ T : \A y \in Nat \ T : x =< y
  BY LeastExists
<1>2. x # 0 /\ x - 1 \in Nat
  BY <1>1
<1>3. x - 1 \in T
  BY <1>1, <1>2
<1> QED
  BY <1>1, <1>2, <1>3

\* The least element of a set of natural numbers.
LEMMA MinIsLeast ==
    ASSUME NEW T, T \subseteq Nat, T # {}
    PROVE Min(T) \in T /\ \A y \in T : Min(T) =< y
<1>1. \E x \in T : \A y \in T : x =< y
  BY LeastExists
<1> QED
  BY <1>1 DEF Min

\* A sequence over a set is one over a larger set.
LEMMA SeqWiden ==
    ASSUME NEW S, NEW T, S \subseteq T, NEW s \in Seq(S)
    PROVE s \in Seq(T)
<1>1. \A i \in 1 .. Len(s) : s[i] \in T
  OBVIOUS
<1>2. s = [i \in 1 .. Len(s) |-> s[i]] /\ Len(s) \in Nat
  OBVIOUS
<1> QED
  BY <1>1, <1>2

-----------------------------------------------------------------------------
(* Subscriptions *)

Handler == [event : EventNames, priority : Priorities, timeout : Timeouts]
Hint == [priority : Priorities, timeout : Timeouts]
Hints == [EventNames -> Hint \cup {None}]

NoHints == [e \in EventNames |-> None]
WithHandler(byEvent, h) == [byEvent EXCEPT ![h.event] = Merge(@, h)]

\* byEvent bounds the first n handlers.
Covers(byEvent, n) ==
    \A e \in EventNames :
        LET mine == {h \in 1 .. n : handlers[h].event = e} IN
        /\ (byEvent[e] = None) = (mine = {})
        /\ \A h \in mine :
              /\ handlers[h].priority =< byEvent[e].priority
              /\ handlers[h].timeout # None =>
                    /\ byEvent[e].timeout # None
                    /\ \/ byEvent[e].timeout = 0
                       \/ handlers[h].timeout \in 1 .. byEvent[e].timeout
        /\ mine # {} =>
              /\ \E h \in mine : handlers[h].priority = byEvent[e].priority
              /\ \E h \in mine : handlers[h].timeout = byEvent[e].timeout

\* The greatest element of a set, by a witness.
LEMMA MaxIs ==
    ASSUME NEW T, NEW x \in T, T \subseteq Int, \A y \in T : x >= y
    PROVE Max(T) = x
<1>1. \E m \in T : \A y \in T : m >= y
  OBVIOUS
<1>2. Max(T) \in T /\ \A y \in T : Max(T) >= y
  BY <1>1 DEF Max
<1> DEFINE m == Max(T)
<1>3. m \in Int /\ x \in Int /\ m >= x /\ x >= m
  BY <1>2
<1> HIDE DEF m
<1>4. m = x
  BY <1>3
<1> QED
  BY <1>4 DEF m

\* What f computes of a set of handlers' indices.
Folds(f, n) ==
    \A s \in SUBSET (1 .. n) :
        f[s] = IF s = {} THEN NoHints ELSE WithHandler(f[s \ {Max(s)}], handlers[Max(s)])

\* The function that the fold is defined by exists.
LEMMA FoldExists ==
    ASSUME NEW m \in Nat
    PROVE \E f : f = [s \in SUBSET (1 .. m) |->
                         IF s = {} THEN NoHints
                         ELSE WithHandler(f[s \ {Max(s)}], handlers[Max(s)])]
<1> DEFINE Ok(n) == \E f : /\ DOMAIN f = SUBSET (1 .. n)
                           /\ f = [s \in SUBSET (1 .. n) |-> f[s]]
                           /\ Folds(f, n)
           T == {n \in Nat : Ok(n)}
<1>1. Ok(0)
  <2> DEFINE f == [s \in SUBSET (1 .. 0) |-> NoHints]
  <2>1. \A s \in SUBSET (1 .. 0) : s = {}
    OBVIOUS
  <2>2. DOMAIN f = SUBSET (1 .. 0) /\ f = [s \in SUBSET (1 .. 0) |-> f[s]]
    OBVIOUS
  <2>3. \A s \in SUBSET (1 .. 0) : f[s] = NoHints
    OBVIOUS
  <2> HIDE DEF f
  <2>4. Folds(f, 0)
    BY <2>1, <2>3 DEF Folds
  <2> QED
    BY <2>2, <2>4
<1>2. ASSUME NEW n \in Nat, Ok(n) PROVE Ok(n + 1)
  <2>1. PICK f : DOMAIN f = SUBSET (1 .. n) /\ Folds(f, n)
    BY <1>2
  <2> DEFINE g == [s \in SUBSET (1 .. n + 1) |->
                     IF n + 1 \in s THEN WithHandler(f[s \ {n + 1}], handlers[n + 1])
                     ELSE f[s]]
  <2>2. ASSUME NEW s \in SUBSET (1 .. n + 1)
        PROVE g[s] = IF s = {} THEN NoHints
                     ELSE WithHandler(g[s \ {Max(s)}], handlers[Max(s)])
    <3>1. CASE n + 1 \in s
      <4>1. Max(s) = n + 1
        <5>1. s \subseteq Int /\ \A y \in s : n + 1 >= y
          OBVIOUS
        <5> QED
          BY <3>1, <5>1, MaxIs
      <4>2. s \ {n + 1} \in SUBSET (1 .. n + 1) /\ n + 1 \notin s \ {n + 1}
        OBVIOUS
      <4>3. g[s \ {n + 1}] = f[s \ {n + 1}]
        BY <4>2
      <4>4. g[s] = WithHandler(f[s \ {n + 1}], handlers[n + 1])
        BY <3>1
      <4> QED
        BY <3>1, <4>1, <4>3, <4>4
    <3>2. CASE n + 1 \notin s
      <4>1. s \in SUBSET (1 .. n) /\ g[s] = f[s]
        BY <3>2
      <4>2. g[s \ {Max(s)}] = f[s \ {Max(s)}]
        BY <3>2
      <4>3. f[s] = IF s = {} THEN NoHints
                   ELSE WithHandler(f[s \ {Max(s)}], handlers[Max(s)])
        BY <2>1, <4>1 DEF Folds
      <4> QED
        BY <4>1, <4>2, <4>3
    <3> QED
      BY <3>1, <3>2
  <2>3. DOMAIN g = SUBSET (1 .. n + 1) /\ g = [s \in SUBSET (1 .. n + 1) |-> g[s]]
    OBVIOUS
  <2> HIDE DEF g
  <2>4. Folds(g, n + 1)
    BY <2>2 DEF Folds
  <2> QED
    BY <2>3, <2>4
<1>3. m \in T
  <2> HIDE DEF Ok
  <2>1. 0 \in T /\ \A n \in Nat : n \in T => n + 1 \in T
    BY <1>1, <1>2
  <2> QED
    BY <2>1, Induction
<1>4. PICK f : /\ DOMAIN f = SUBSET (1 .. m)
               /\ f = [s \in SUBSET (1 .. m) |-> f[s]]
               /\ Folds(f, m)
  BY <1>3
<1>5. f = [s \in SUBSET (1 .. m) |->
              IF s = {} THEN NoHints ELSE WithHandler(f[s \ {Max(s)}], handlers[Max(s)])]
  BY <1>4 DEF Folds
<1> QED
  BY <1>5

\* Subscriptions adds the handlers one after another.
LEMMA SubscriptionsAdd ==
    ASSUME handlers \in Seq(Handler)
    PROVE \E f : /\ f[0] = NoHints
                 /\ \A k \in 0 .. Len(handlers) - 1 :
                       f[k + 1] = WithHandler(f[k], handlers[k + 1])
                 /\ Subscriptions = f[Len(handlers)]
<1> DEFINE n == Len(handlers)
           Eq(f) == f = [s \in SUBSET (1 .. n) |->
                            IF s = {} THEN NoHints
                            ELSE WithHandler(f[s \ {Max(s)}], handlers[Max(s)])]
           F == CHOOSE f : Eq(f)
<1>1. n \in Nat /\ DOMAIN handlers = 1 .. n
  BY LenProperties
<1>2. Eq(F)
  BY <1>1, FoldExists
<1>3. Subscriptions = F[1 .. n]
  BY <1>1 DEF Subscriptions, FoldLeft, MapThenFoldSet, NoHints, WithHandler
<1> HIDE DEF F, n
<1> DEFINE f == [k \in 0 .. n |-> F[1 .. k]]
<1>4. F[{}] = NoHints
  <2>1. {} \in SUBSET (1 .. n)
    OBVIOUS
  <2> QED
    BY <1>2, <2>1
<1>5. f[0] = NoHints
  <2>1. 1 .. 0 = {}
    OBVIOUS
  <2>2. f[0] = F[1 .. 0]
    BY <1>1
  <2> QED
    BY <1>4, <2>1, <2>2
<1>6. ASSUME NEW k \in 0 .. n - 1
      PROVE f[k + 1] = WithHandler(f[k], handlers[k + 1])
  <2>1. f[k + 1] = F[1 .. k + 1] /\ f[k] = F[1 .. k]
    BY <1>1
  <2>2. Max(1 .. k + 1) = k + 1
    <3>1. k + 1 \in 1 .. k + 1 /\ 1 .. k + 1 \subseteq Int /\ \A y \in 1 .. k + 1 : k + 1 >= y
      BY <1>1
    <3> QED
      BY <3>1, MaxIs
  <2>3. (1 .. k + 1) \ {k + 1} = 1 .. k /\ 1 .. k + 1 # {}
    <3>1. k \in Nat
      BY <1>1
    <3>2. \A x : x \in (1 .. k + 1) \ {k + 1} <=> x \in 1 .. k
      BY <3>1
    <3>3. 1 \in 1 .. k + 1
      BY <3>1
    <3> QED
      BY <3>2, <3>3
  <2>4. 1 .. k + 1 \in SUBSET (1 .. n)
    BY <1>1
  <2>5. F[1 .. k + 1] = WithHandler(F[(1 .. k + 1) \ {Max(1 .. k + 1)}], handlers[Max(1 .. k + 1)])
    BY <1>2, <2>3, <2>4
  <2> QED
    BY <2>1, <2>2, <2>3, <2>5
<1>7. f[n] = F[1 .. n]
  BY <1>1
<1> HIDE DEF f
<1> QED
  BY <1>3, <1>5, <1>6, <1>7 DEF n

\* What one handler adds to the subscription of its event.
LEMMA MergeCovers ==
    ASSUME NEW h \in Handler, NEW s \in Hint \cup {None}
    PROVE LET m == Merge(s, h) IN
          /\ m \in Hint /\ m # None
          /\ h.priority =< m.priority
          /\ h.timeout # None =>
                /\ m.timeout # None
                /\ m.timeout = 0 \/ h.timeout \in 1 .. m.timeout
          /\ s # None =>
                /\ s.priority =< m.priority
                /\ m.priority \in {s.priority, h.priority}
                /\ m.timeout \in {s.timeout, h.timeout}
                /\ s.timeout # None =>
                      /\ m.timeout # None
                      /\ m.timeout = 0 \/ (s.timeout # 0 /\ s.timeout =< m.timeout)
          /\ s = None => m.priority = h.priority /\ m.timeout = h.timeout
<1> DEFINE m == Merge(s, h)
<1>0. /\ h.priority \in Priorities /\ h.timeout \in Timeouts /\ Priorities \subseteq Int
      /\ Timeouts \subseteq Nat \cup {None} /\ None \notin Nat /\ None \notin Hint
  BY EventAssumption DEF Handler, Hint
<1>1. CASE s = None
  <2>1. m = [priority |-> h.priority, timeout |-> h.timeout]
    BY <1>1 DEF Merge
  <2>2. m \in Hint /\ m.priority = h.priority /\ m.timeout = h.timeout
    BY <1>0, <2>1 DEF Hint
  <2> HIDE DEF m
  <2>3. h.timeout # None => h.timeout \in Nat
    BY <1>0
  <2>4. h.timeout # None => m.timeout = 0 \/ h.timeout \in 1 .. m.timeout
    BY <2>2, <2>3
  <2> QED
    BY <1>0, <1>1, <2>2, <2>4 DEF m
<1>2. CASE s # None
  <2> DEFINE sp == s.priority
             st == s.timeout
             hp == h.priority
             ht == h.timeout
             mp == IF sp > hp THEN sp ELSE hp
             mt == MergeTimeout(st, ht)
  <2>1. /\ sp \in Priorities /\ st \in Timeouts
        /\ sp \in Int /\ hp \in Int /\ st \in Nat \cup {None} /\ ht \in Nat \cup {None}
    BY <1>0, <1>2 DEF Hint
  <2>2. m = [priority |-> mp, timeout |-> mt]
    BY <1>2 DEF Merge
  <2>3. mp \in {sp, hp} /\ sp =< mp /\ hp =< mp
    BY <2>1
  <2>4. mt \in {st, ht}
    <3> HIDE DEF st, ht
    <3> QED
      BY <2>1, <1>0 DEF MergeTimeout
  <2>5. /\ ht # None => mt # None /\ (mt = 0 \/ ht \in 1 .. mt)
        /\ st # None => mt # None /\ (mt = 0 \/ (st # 0 /\ st =< mt))
    <3> HIDE DEF st, ht
    <3> QED
      BY <2>1, <1>0 DEF MergeTimeout
  <2> HIDE DEF mp, mt
  <2>6. m.priority = mp /\ m.timeout = mt
    BY <2>2
  <2>7. m \in Hint
    BY <1>0, <2>1, <2>2, <2>3, <2>4 DEF Hint
  <2> HIDE DEF m
  <2> QED
    BY <1>0, <1>2, <2>3, <2>4, <2>5, <2>6, <2>7 DEF m
<1> QED
  BY <1>1, <1>2

\* A subscription that bounds n handlers bounds the next one too when it is merged.
LEMMA WithHandlerCovers ==
    ASSUME handlers \in Seq(Handler), NEW n \in 0 .. Len(handlers) - 1,
           NEW b \in Hints, Covers(b, n)
    PROVE /\ WithHandler(b, handlers[n + 1]) \in Hints
          /\ Covers(WithHandler(b, handlers[n + 1]), n + 1)
<1> DEFINE h == handlers[n + 1]
           c == WithHandler(b, h)
           m == Merge(b[h.event], h)
<1>1. /\ n \in Nat /\ n + 1 \in 1 .. Len(handlers)
      /\ h \in Handler /\ h.event \in EventNames /\ b[h.event] \in Hint \cup {None}
  <2>1. n \in Nat /\ n + 1 \in 1 .. Len(handlers)
    BY LenProperties
  <2>2. h \in Handler
    BY <2>1, ElementOfSeq
  <2> QED
    BY <2>1, <2>2 DEF Handler, Hints
<1> HIDE DEF h
<1>2. m \in Hint
  BY <1>1, MergeCovers
<1>3. /\ c = [b EXCEPT ![h.event] = m]
      /\ \A e \in EventNames : c[e] = IF e = h.event THEN m ELSE b[e]
  BY <1>1 DEF WithHandler, Hints
<1>4. c \in Hints
  BY <1>2, <1>3 DEF Hints
<1>5. ASSUME NEW e \in EventNames
      PROVE LET mine == {k \in 1 .. n + 1 : handlers[k].event = e} IN
            /\ (c[e] = None) = (mine = {})
            /\ \A k \in mine :
                  /\ handlers[k].priority =< c[e].priority
                  /\ handlers[k].timeout # None =>
                        /\ c[e].timeout # None
                        /\ \/ c[e].timeout = 0
                           \/ handlers[k].timeout \in 1 .. c[e].timeout
            /\ mine # {} =>
                  /\ \E k \in mine : handlers[k].priority = c[e].priority
                  /\ \E k \in mine : handlers[k].timeout = c[e].timeout
  <2> DEFINE mine == {k \in 1 .. n + 1 : handlers[k].event = e}
             old == {k \in 1 .. n : handlers[k].event = e}
  <2>1. /\ (b[e] = None) = (old = {})
        /\ \A k \in old :
              /\ handlers[k].priority =< b[e].priority
              /\ handlers[k].timeout # None =>
                    /\ b[e].timeout # None
                    /\ \/ b[e].timeout = 0
                       \/ handlers[k].timeout \in 1 .. b[e].timeout
        /\ old # {} =>
              /\ \E k \in old : handlers[k].priority = b[e].priority
              /\ \E k \in old : handlers[k].timeout = b[e].timeout
    BY DEF Covers
  <2>2. CASE e # h.event
    <3>1. mine = old /\ c[e] = b[e]
      BY <1>1, <1>3, <2>2 DEF h
    <3> HIDE DEF c, mine, old
    <3> QED
      BY <2>1, <3>1 DEF mine
  <2>3. CASE e = h.event
    <3>1. mine = old \cup {n + 1}
      BY <1>1, <2>3 DEF h
    <3>2. c[e] = m /\ m = Merge(b[e], h)
      BY <1>3, <2>3
    <3> DEFINE s == b[e]
    <3>3. /\ m \in Hint /\ m # None
          /\ h.priority =< m.priority
          /\ h.timeout # None =>
                /\ m.timeout # None
                /\ m.timeout = 0 \/ h.timeout \in 1 .. m.timeout
          /\ s # None =>
                /\ s.priority =< m.priority
                /\ m.priority \in {s.priority, h.priority}
                /\ m.timeout \in {s.timeout, h.timeout}
                /\ s.timeout # None =>
                      /\ m.timeout # None
                      /\ m.timeout = 0 \/ (s.timeout # 0 /\ s.timeout =< m.timeout)
          /\ s = None => m.priority = h.priority /\ m.timeout = h.timeout
      BY <1>1, <2>3, <3>2, MergeCovers
    <3>4. \A k \in old :
             /\ handlers[k].priority \in Int
             /\ handlers[k].timeout \in Nat \cup {None}
      <4>1. ASSUME NEW k \in old PROVE handlers[k] \in Handler
        <5>1. k \in 1 .. Len(handlers)
          BY <1>1
        <5> QED
          BY <5>1, ElementOfSeq
      <4> QED
        BY <4>1, EventAssumption DEF Handler
    <3>5. s # None => s.priority \in Int /\ s.timeout \in Nat \cup {None}
      BY EventAssumption DEF Hint, Hints
    <3>6. m.priority \in Int /\ m.timeout \in Nat \cup {None} /\ None \notin Nat
      BY <3>3, EventAssumption DEF Hint
    <3> HIDE DEF c, m, mine, old, s
    <3>7. ASSUME NEW k \in mine
          PROVE /\ handlers[k].priority =< m.priority
                /\ handlers[k].timeout # None =>
                      /\ m.timeout # None
                      /\ m.timeout = 0 \/ handlers[k].timeout \in 1 .. m.timeout
      <4>1. CASE k \in old
        <5> DEFINE kp == handlers[k].priority
                   kt == handlers[k].timeout
        <5>1. kp \in Int /\ kt \in Nat \cup {None}
          BY <3>4, <4>1
        <5>2. /\ s # None /\ kp =< s.priority
              /\ kt # None => s.timeout # None /\ (s.timeout = 0 \/ kt \in 1 .. s.timeout)
          BY <2>1, <4>1 DEF s
        <5> HIDE DEF kp, kt
        <5>3. kp =< m.priority
          BY <3>3, <3>5, <3>6, <5>1, <5>2
        <5>4. kt # None => m.timeout # None /\ (m.timeout = 0 \/ kt \in 1 .. m.timeout)
          BY <3>3, <3>5, <3>6, <5>1, <5>2
        <5> QED
          BY <5>3, <5>4 DEF kp, kt
      <4>2. CASE k = n + 1
        BY <3>3, <4>2 DEF h
      <4> QED
        BY <3>1, <4>1, <4>2
    <3>8. mine # {} /\ n + 1 \in mine /\ old \subseteq mine
      BY <3>1
    <3>9. /\ \E k \in mine : handlers[k].priority = m.priority
          /\ \E k \in mine : handlers[k].timeout = m.timeout
      <4>1. CASE s = None
        BY <3>3, <3>8, <4>1 DEF h
      <4>2. CASE s # None
        <5>1. /\ \E k \in old : handlers[k].priority = s.priority
              /\ \E k \in old : handlers[k].timeout = s.timeout
          BY <2>1, <4>2 DEF s
        <5> QED
          BY <3>3, <3>8, <4>2, <5>1 DEF h
      <4> QED
        BY <4>1, <4>2
    <3> QED
      BY <3>2, <3>3, <3>7, <3>8, <3>9 DEF mine
  <2> QED
    BY <2>2, <2>3
<1> HIDE DEF c
<1>6. Covers(c, n + 1)
  BY <1>5 DEF Covers
<1> QED
  BY <1>4, <1>6 DEF c, h

\* What the host is told bounds every handler.
LEMMA SubscriptionsCover ==
    ASSUME handlers \in Seq(Handler)
    PROVE Subscriptions \in Hints /\ Covers(Subscriptions, Len(handlers))
<1>1. PICK f : /\ f[0] = NoHints
               /\ \A k \in 0 .. Len(handlers) - 1 :
                     f[k + 1] = WithHandler(f[k], handlers[k + 1])
               /\ Subscriptions = f[Len(handlers)]
  BY SubscriptionsAdd
<1> DEFINE Good(k) == f[k] \in Hints /\ Covers(f[k], k)
           T == {k \in Nat : k =< Len(handlers) => Good(k)}
<1>2. Good(0)
  <2>1. NoHints \in Hints
    BY DEF NoHints, Hints
  <2>2. Covers(NoHints, 0)
    <3>1. \A e \in EventNames : NoHints[e] = None
      BY DEF NoHints
    <3>2. \A e \in EventNames : {h \in 1 .. 0 : handlers[h].event = e} = {}
      OBVIOUS
    <3> QED
      BY <3>1, <3>2 DEF Covers
  <2> QED
    BY <1>1, <2>1, <2>2
<1>3. ASSUME NEW k \in Nat, k + 1 =< Len(handlers), Good(k) PROVE Good(k + 1)
  <2>1. k \in 0 .. Len(handlers) - 1
    BY <1>3, LenProperties
  <2>2. f[k + 1] = WithHandler(f[k], handlers[k + 1])
    BY <1>1, <2>1
  <2> QED
    BY <1>3, <2>1, <2>2, WithHandlerCovers
<1>4. Len(handlers) \in Nat
  BY LenProperties
<1> HIDE DEF Good
<1>5. 0 \in T /\ \A k \in Nat : k \in T => k + 1 \in T
  BY <1>2, <1>3, <1>4
<1>6. Nat \subseteq T
  BY <1>5, Induction
<1>7. Good(Len(handlers))
  BY <1>4, <1>6
<1> QED
  BY <1>1, <1>7 DEF Good

-----------------------------------------------------------------------------
(* The order of the handlers *)

InOrder(q) == \A i, j \in DOMAIN q : i < j => Precedes(q[i], q[j])

\* Precedes is a strict order of all handlers.
LEMMA PrecedesOrders ==
    ASSUME handlers \in Seq(Handler)
    PROVE /\ \A h, k \in 1 .. Len(handlers) :
                /\ Precedes(h, k) => ~ Precedes(k, h) /\ h # k
                /\ ~ Precedes(h, k) => h = k \/ Precedes(k, h)
          /\ \A h, k, l \in 1 .. Len(handlers) :
                Precedes(h, k) /\ Precedes(k, l) => Precedes(h, l)
<1> DEFINE P(h) == handlers[h].priority
           D == 1 .. Len(handlers)
<1>1. ASSUME NEW h \in D PROVE P(h) \in Int /\ h \in Int
  <2>1. handlers[h] \in Handler
    BY ElementOfSeq
  <2>2. Len(handlers) \in Nat
    BY LenProperties
  <2> DEFINE p == handlers[h].priority
  <2>3. Priorities \subseteq Int /\ p \in Priorities
    BY <2>1, EventAssumption DEF Handler
  <2>4. h \in Int
    BY <2>2
  <2> HIDE DEF p
  <2>5. p \in Int
    BY <2>3
  <2> QED
    BY <2>4, <2>5 DEF p
<1>2. \A h, k : Precedes(h, k) <=> (P(h) > P(k) \/ (P(h) = P(k) /\ h < k))
  BY DEF Precedes
<1> HIDE DEF P, D
<1>3. \A h, k \in D : /\ Precedes(h, k) => ~ Precedes(k, h) /\ h # k
                      /\ ~ Precedes(h, k) => h = k \/ Precedes(k, h)
  <2> SUFFICES ASSUME NEW h \in D, NEW k \in D
               PROVE /\ Precedes(h, k) => ~ Precedes(k, h) /\ h # k
                     /\ ~ Precedes(h, k) => h = k \/ Precedes(k, h)
    OBVIOUS
  <2> DEFINE a == P(h)
             b == P(k)
  <2>1. a \in Int /\ b \in Int /\ h \in Int /\ k \in Int
    BY <1>1
  <2>2. /\ Precedes(h, k) <=> (a > b \/ (a = b /\ h < k))
        /\ Precedes(k, h) <=> (b > a \/ (b = a /\ k < h))
    BY <1>2
  <2> HIDE DEF a, b
  <2> QED
    BY <2>1, <2>2
<1>4. \A h, k, l \in D : Precedes(h, k) /\ Precedes(k, l) => Precedes(h, l)
  BY <1>1, <1>2
<1> QED
  BY <1>3, <1>4 DEF D

\* x has a place among the m handlers of q.
HasPlace(q, m, x) ==
    \E r \in [1 .. m + 1 -> 1 .. Len(handlers)] :
        InOrder(r) /\ ToSet(r) = ToSet(q) \cup {x}

\* A handler has its place among some that are in order.
LEMMA Inserted ==
    ASSUME handlers \in Seq(Handler), NEW m \in Nat,
           NEW q \in [1 .. m -> 1 .. Len(handlers)], InOrder(q),
           NEW x \in 1 .. Len(handlers), \A i \in 1 .. m : q[i] # x
    PROVE HasPlace(q, m, x)
<1> DEFINE D == 1 .. Len(handlers)
           after == {i \in 1 .. m + 1 : i = m + 1 \/ ~ Precedes(q[i], x)}
<1>0. /\ \A h, k \in D :
            /\ Precedes(h, k) => ~ Precedes(k, h) /\ h # k
            /\ ~ Precedes(h, k) => h = k \/ Precedes(k, h)
      /\ \A h, k, l \in D : Precedes(h, k) /\ Precedes(k, l) => Precedes(h, l)
  BY PrecedesOrders
<1> HIDE DEF D
<1>1. PICK p \in after : \A i \in after : p =< i
  <2>1. after \subseteq Nat /\ m + 1 \in after
    OBVIOUS
  <2> QED
    BY <2>1, LeastExists
<1>2. p \in 1 .. m + 1
  OBVIOUS
<1>3. \A i \in 1 .. m : q[i] \in D /\ q[i] # x
  BY DEF D
<1>4. x \in D
  BY DEF D
<1>5. \A i \in 1 .. m : i < p => Precedes(q[i], x)
  BY <1>1, <1>2
<1>6. \A i \in 1 .. m : p =< i => Precedes(x, q[i])
  <2> SUFFICES ASSUME NEW i \in 1 .. m, p =< i PROVE Precedes(x, q[i])
    OBVIOUS
  <2>1. p \in 1 .. m /\ ~ Precedes(q[p], x)
    BY <1>1, <1>2
  <2>2. Precedes(x, q[p])
    BY <1>0, <1>3, <1>4, <2>1
  <2>3. p < i => Precedes(q[p], q[i])
    BY <2>1 DEF InOrder
  <2> QED
    BY <1>0, <1>3, <1>4, <2>1, <2>2, <2>3
<1> DEFINE r == [i \in 1 .. m + 1 |-> IF i < p THEN q[i] ELSE IF i = p THEN x ELSE q[i - 1]]
<1>7. \A i \in 1 .. m + 1 :
         r[i] = IF i < p THEN q[i] ELSE IF i = p THEN x ELSE q[i - 1]
  OBVIOUS
<1>8. DOMAIN r = 1 .. m + 1 /\ DOMAIN q = 1 .. m
  OBVIOUS
<1>9. r \in [1 .. m + 1 -> D]
  <2>1. \A i \in 1 .. m + 1 : (i < p => i \in 1 .. m) /\ (i > p => i - 1 \in 1 .. m)
    BY <1>2
  <2> QED
    BY <1>2, <1>3, <1>4, <2>1
<1> HIDE DEF r
<1>10. InOrder(r)
  <2> SUFFICES ASSUME NEW i \in 1 .. m + 1, NEW j \in 1 .. m + 1, i < j
               PROVE Precedes(r[i], r[j])
    BY <1>8 DEF InOrder
  <2>1. CASE j < p
    <3>1. i \in 1 .. m /\ j \in 1 .. m /\ r[i] = q[i] /\ r[j] = q[j]
      BY <1>2, <1>7, <2>1
    <3> QED
      BY <1>8, <3>1 DEF InOrder
  <2>2. CASE j = p
    <3>1. i \in 1 .. m /\ r[i] = q[i] /\ r[j] = x
      BY <1>2, <1>7, <2>2
    <3> QED
      BY <1>5, <2>2, <3>1
  <2>3. CASE p < j
    <3>1. j - 1 \in 1 .. m /\ r[j] = q[j - 1] /\ p =< j - 1
      BY <1>2, <1>7, <2>3
    <3>2. CASE i < p
      <4>1. i \in 1 .. m /\ r[i] = q[i] /\ i < j - 1
        BY <1>2, <1>7, <2>3, <3>2
      <4> QED
        BY <1>8, <3>1, <4>1 DEF InOrder
    <3>3. CASE i = p
      BY <1>2, <1>6, <1>7, <3>1, <3>3
    <3>4. CASE p < i
      <4>1. i - 1 \in 1 .. m /\ r[i] = q[i - 1] /\ i - 1 < j - 1
        BY <1>2, <1>7, <3>4
      <4> QED
        BY <1>8, <3>1, <4>1 DEF InOrder
    <3> QED
      BY <1>2, <3>2, <3>3, <3>4
  <2> QED
    BY <1>2, <2>1, <2>2, <2>3
<1>11. ToSet(r) = ToSet(q) \cup {x}
  <2>1. ASSUME NEW i \in 1 .. m + 1 PROVE r[i] \in ToSet(q) \cup {x}
    <3>1. (i < p => i \in 1 .. m) /\ (i > p => i - 1 \in 1 .. m)
      BY <1>2
    <3>2. \A k \in 1 .. m : q[k] \in ToSet(q)
      BY <1>8 DEF ToSet
    <3> QED
      BY <1>2, <1>7, <3>1, <3>2
  <2>2. ASSUME NEW i \in 1 .. m PROVE q[i] \in ToSet(r)
    <3>1. CASE i < p
      <4>1. i \in 1 .. m + 1 /\ r[i] = q[i]
        BY <1>7, <3>1
      <4> QED
        BY <1>8, <4>1 DEF ToSet
    <3>2. CASE p =< i
      <4>1. i + 1 \in 1 .. m + 1 /\ ~ (i + 1 < p) /\ i + 1 # p /\ (i + 1) - 1 = i
        BY <1>2, <3>2
      <4>2. r[i + 1] = q[i]
        BY <1>7, <4>1
      <4> QED
        BY <1>8, <4>1, <4>2 DEF ToSet
    <3> QED
      BY <1>2, <3>1, <3>2
  <2>3. x \in ToSet(r)
    <3>1. r[p] = x
      BY <1>2, <1>7
    <3> QED
      BY <1>2, <1>8, <3>1 DEF ToSet
  <2>4. ToSet(r) \subseteq ToSet(q) \cup {x}
    BY <1>8, <2>1 DEF ToSet
  <2>5. ToSet(q) \subseteq ToSet(r)
    BY <1>8, <2>2 DEF ToSet
  <2> QED
    BY <2>3, <2>4, <2>5
<1> QED
  BY <1>9, <1>10, <1>11 DEF D, HasPlace

\* Every set of handlers can be put in order.
LEMMA OrderExists ==
    ASSUME handlers \in Seq(Handler), NEW S \in SUBSET (1 .. Len(handlers))
    PROVE \E q \in SeqOf(S, Len(handlers)) : ToSet(q) = S /\ InOrder(q)
<1> DEFINE Ok(n) == \E m \in 0 .. n : \E q \in [1 .. m -> 1 .. Len(handlers)] :
                        ToSet(q) = S \cap (1 .. n) /\ InOrder(q)
           T == {n \in Nat : n =< Len(handlers) => Ok(n)}
<1>0. Len(handlers) \in Nat
  BY LenProperties
<1>1. Ok(0)
  <2> DEFINE q == [i \in 1 .. 0 |-> 0]
  <2>1. \A i \in 1 .. 0 : FALSE
    OBVIOUS
  <2>2. q \in [1 .. 0 -> 1 .. Len(handlers)] /\ DOMAIN q = 1 .. 0
    BY <2>1
  <2> HIDE DEF q
  <2>3. ToSet(q) = S \cap (1 .. 0) /\ InOrder(q)
    BY <2>1, <2>2 DEF ToSet, InOrder
  <2>4. 0 \in 0 .. 0
    OBVIOUS
  <2> QED
    BY <2>2, <2>3, <2>4
<1>2. ASSUME NEW n \in Nat, n + 1 =< Len(handlers), Ok(n) PROVE Ok(n + 1)
  <2>0. PICK m \in 0 .. n :
            \E q \in [1 .. m -> 1 .. Len(handlers)] : ToSet(q) = S \cap (1 .. n) /\ InOrder(q)
    BY <1>2
  <2>1. PICK q \in [1 .. m -> 1 .. Len(handlers)] : ToSet(q) = S \cap (1 .. n) /\ InOrder(q)
    BY <2>0
  <2>2. CASE n + 1 \in S
    <3>1. \A i \in 1 .. m : q[i] # n + 1
      <4>1. \A i \in 1 .. m : q[i] \in ToSet(q)
        BY DEF ToSet
      <4> QED
        BY <2>1, <4>1
    <3>2. n + 1 \in 1 .. Len(handlers) /\ m \in Nat
      BY <1>0, <1>2
    <3>3. \E r \in [1 .. m + 1 -> 1 .. Len(handlers)] :
              InOrder(r) /\ ToSet(r) = ToSet(q) \cup {n + 1}
      <4>1. q \in [1 .. m -> 1 .. Len(handlers)] /\ InOrder(q)
        BY <2>1
      <4>2. n + 1 \in 1 .. Len(handlers)
        BY <3>2
      <4> DEFINE x == n + 1
      <4>3. x \in 1 .. Len(handlers) /\ \A i \in 1 .. m : q[i] # x
        BY <3>1, <4>2
      <4> HIDE DEF x
      <4>4. HasPlace(q, m, x)
        BY <3>2, <4>1, <4>3, Inserted
      <4> QED
        BY <4>4 DEF x, HasPlace
    <3>3a. PICK r \in [1 .. m + 1 -> 1 .. Len(handlers)] :
              InOrder(r) /\ ToSet(r) = ToSet(q) \cup {n + 1}
      BY <3>3
    <3>4. (S \cap (1 .. n)) \cup {n + 1} = S \cap (1 .. n + 1)
      BY <2>2
    <3>5. m + 1 \in 0 .. n + 1
      OBVIOUS
    <3> QED
      BY <2>1, <3>3a, <3>4, <3>5
  <2>3. CASE n + 1 \notin S
    <3>1. S \cap (1 .. n) = S \cap (1 .. n + 1) /\ m \in 0 .. n + 1
      BY <2>3
    <3> QED
      BY <2>1, <3>1
  <2> QED
    BY <2>2, <2>3
<1> HIDE DEF Ok
<1>3. 0 \in T /\ \A n \in Nat : n \in T => n + 1 \in T
  BY <1>0, <1>1, <1>2
<1>3a. Nat \subseteq T
  BY <1>3, Induction
<1>4. Ok(Len(handlers))
  BY <1>0, <1>3a
<1>4a. PICK m \in 0 .. Len(handlers) :
           \E q \in [1 .. m -> 1 .. Len(handlers)] :
               ToSet(q) = S \cap (1 .. Len(handlers)) /\ InOrder(q)
  BY <1>4 DEF Ok
<1>5. PICK q \in [1 .. m -> 1 .. Len(handlers)] :
               ToSet(q) = S \cap (1 .. Len(handlers)) /\ InOrder(q)
  BY <1>4a
<1>6. ToSet(q) = S
  BY <1>5
<1>7. q \in [1 .. m -> S]
  BY <1>6 DEF ToSet
<1>8. q \in SeqOf(S, Len(handlers))
  BY <1>7 DEF SeqOf
<1> QED
  BY <1>5, <1>6, <1>8

\* The queue of an event.
LEMMA SortedIsInOrder ==
    ASSUME handlers \in Seq(Handler), NEW S \in SUBSET (1 .. Len(handlers))
    PROVE Sorted(S) \in Seq(S) /\ ToSet(Sorted(S)) = S /\ InOrder(Sorted(S))
<1> DEFINE q == Sorted(S)
<1>1. q \in SeqOf(S, Len(handlers)) /\ ToSet(q) = S /\ InOrder(q)
  BY OrderExists DEF Sorted, InOrder
<1> HIDE DEF q
<1>2. PICK m \in 0 .. Len(handlers) : q \in [1 .. m -> S]
  BY <1>1 DEF SeqOf
<1>3. m \in Nat
  BY LenProperties
<1>4. q \in Seq(S)
  BY <1>2, <1>3, SeqDef
<1> QED
  BY <1>1, <1>4 DEF q

-----------------------------------------------------------------------------
(* The invariant of an event: what ran, what is left, and what was folded *)

Returned == [sets : SUBSET Replaced, adds : SUBSET Appended, data : BOOLEAN, block : Blocks]
Mine == {h \in 1 .. known : handlers[h].event = event}

CallTypes ==
    /\ EventTypeOK
    /\ told =< Len(handlers)
    /\ queue \in Seq(1 .. known)
    /\ log \in Seq([handler : 1 .. known, result : Returned])

\* The handlers of the event are in the log and the queue, in their order.
QueueInv ==
    /\ \A i \in DOMAIN log : log[i].handler \in Mine
    /\ \A i, j \in DOMAIN log : i < j => Precedes(log[i].handler, log[j].handler)
    /\ state = "running" =>
          /\ \A i \in DOMAIN queue : queue[i] \in Mine
          /\ InOrder(queue)
          /\ \A i \in DOMAIN log, j \in DOMAIN queue : Precedes(log[i].handler, queue[j])
          /\ \A h \in Mine : \/ \E i \in DOMAIN log : log[i].handler = h
                             \/ \E j \in DOMAIN queue : queue[j] = h

Gives(i, f) == f \in log[i].result.sets
Adds(i, f) == f \in log[i].result.adds

\* Each field is what the handlers in the log made of it.
FoldInv ==
    IF state \in {"idle", "failed"} THEN aggregate = NoAggregate
    ELSE /\ \A f \in Replaced :
               IF aggregate[f] = None THEN \A i \in DOMAIN log : ~ Gives(i, f)
               ELSE \E i \in DOMAIN log :
                        /\ Gives(i, f) /\ \A j \in DOMAIN log : Gives(j, f) => j =< i
                        /\ aggregate[f].by = log[i].handler
         /\ \A f \in Appended :
               /\ \A k \in DOMAIN aggregate[f] :
                     \E i \in DOMAIN log : Adds(i, f) /\ log[i].handler = aggregate[f][k]
               /\ \A i \in DOMAIN log :
                     Adds(i, f) => \E k \in DOMAIN aggregate[f] : aggregate[f][k] = log[i].handler
               /\ \A j, k \in DOMAIN aggregate[f] : j < k =>
                     \E i, l \in DOMAIN log :
                        /\ i < l /\ Adds(i, f) /\ Adds(l, f)
                        /\ aggregate[f][j] = log[i].handler
                        /\ aggregate[f][k] = log[l].handler

EventIInv ==
    /\ CallTypes
    /\ SubscriptionsCoverHandlers
    /\ QueueInv /\ OnlyABlockStops
    /\ FoldInv /\ LaterHandlersSeeTheAnswer /\ ReplacedOutputHasNoData

\* Nothing was handled when the extension starts.
LEMMA EventInitHolds == EventInit => EventIInv
<1> SUFFICES ASSUME EventInit PROVE EventIInv
  OBVIOUS
<1> USE DEF EventInit
<1>1. CallTypes
  <2>1. handlers \in Seq(Handler) /\ Len(handlers) = 0 /\ queue \in Seq(DOMAIN handlers)
    OBVIOUS
  <2>2. queue \in Seq(1 .. known) /\ log \in Seq([handler : 1 .. known, result : Returned])
    OBVIOUS
  <2>3. /\ DOMAIN aggregate = Replaced \cup Appended
        /\ \A f \in Replaced : aggregate[f] \in Value \cup {None}
        /\ \A f \in Appended : aggregate[f] \in Seq(1 .. Len(handlers))
    BY DEF NoAggregate, Replaced, Appended, ToolFields
  <2>4. tool \in [ToolFields -> Value \cup {None}]
    OBVIOUS
  <2>5. \A i \in DOMAIN log : log[i].handler \in 1 .. Len(handlers)
    OBVIOUS
  <2>6. EventTypeOK
    BY <2>1, <2>3, <2>4, <2>5 DEF EventTypeOK, Handler
  <2> QED
    BY <2>1, <2>2, <2>6 DEF CallTypes
<1>2. SubscriptionsCoverHandlers
  BY DEF SubscriptionsCoverHandlers
<1>3. QueueInv /\ OnlyABlockStops
  BY DEF QueueInv, OnlyABlockStops
<1>4. FoldInv
  BY DEF FoldInv
<1>5. LaterHandlersSeeTheAnswer /\ ReplacedOutputHasNoData
  BY DEF LaterHandlersSeeTheAnswer, ReplacedOutputHasNoData, ToolFields
<1> QED
  BY <1>1, <1>2, <1>3, <1>4, <1>5 DEF EventIInv

\* What the properties read of the handlers is not changed by one more.
LEMMA OnKeeps ==
    ASSUME EventIInv, NEW e \in EventNames, NEW p \in Priorities, NEW t \in Timeouts, On(e, p, t)
    PROVE EventIInv'
<1> DEFINE new == [event |-> e, priority |-> p, timeout |-> t]
<1>1. new \in Handler /\ handlers \in Seq(Handler)
  BY DEF Handler, EventIInv, CallTypes, EventTypeOK
<1>2. /\ handlers' = Append(handlers, new)
      /\ UNCHANGED <<subscribed, told, state, event, queue, tool, aggregate, log, known>>
  BY DEF On, callVars
<1> HIDE DEF new
<1>3. /\ handlers' \in Seq(Handler) /\ Len(handlers') = Len(handlers) + 1
      /\ \A h \in 1 .. Len(handlers) : handlers'[h] = handlers[h]
      /\ Len(handlers) \in Nat
      /\ DOMAIN handlers = 1 .. Len(handlers) /\ DOMAIN handlers' = 1 .. Len(handlers')
  BY <1>1, <1>2, AppendProperties, LenProperties
<1>4. known \in 0 .. Len(handlers) /\ told \in Nat /\ told =< Len(handlers)
  BY DEF EventIInv, CallTypes, EventTypeOK
<1>5. CallTypes'
  <2>1. known' \in 0 .. Len(handlers') /\ told' =< Len(handlers')
    BY <1>2, <1>3, <1>4
  <2>2. queue' \in Seq(1 .. known') /\ log' \in Seq([handler : 1 .. known', result : Returned])
    BY <1>2 DEF EventIInv, CallTypes
  <2>3. queue' \in Seq(DOMAIN handlers')
    <3>1. queue \in Seq(1 .. known) /\ 1 .. known \subseteq DOMAIN handlers'
      BY <1>3, <1>4 DEF EventIInv, CallTypes
    <3>2. queue \in Seq(DOMAIN handlers')
      BY <3>1, SeqWiden
    <3> QED
      BY <1>2, <3>2
  <2>4. \A f \in Appended : aggregate'[f] \in Seq(1 .. Len(handlers'))
    <3>1. \A f \in Appended : aggregate[f] \in Seq(1 .. Len(handlers))
      BY DEF EventIInv, CallTypes, EventTypeOK
    <3>2. 1 .. Len(handlers) \subseteq 1 .. Len(handlers')
      BY <1>3
    <3>3. \A f \in Appended : aggregate[f] \in Seq(1 .. Len(handlers'))
      BY <3>1, <3>2, SeqWiden
    <3> QED
      BY <1>2, <3>3
  <2>5. \A i \in DOMAIN log' : log'[i].handler \in 1 .. Len(handlers')
    BY <1>2, <1>3 DEF EventIInv, CallTypes, EventTypeOK
  <2>6. EventTypeOK
    BY DEF EventIInv, CallTypes
  <2>7. EventTypeOK'
    BY <1>2, <1>3, <2>1, <2>3, <2>4, <2>5, <2>6 DEF EventTypeOK, Handler
  <2> QED
    BY <2>1, <2>2, <2>7 DEF CallTypes
<1>6. \A h, k \in 1 .. known : Precedes(h, k)' = Precedes(h, k)
  BY <1>3, <1>4 DEF Precedes
<1>7. Mine' = Mine
  BY <1>2, <1>3, <1>4 DEF Mine
<1>8. SubscriptionsCoverHandlers'
  <2> SUFFICES ASSUME subscribed # None PROVE Covers(subscribed, told)'
    BY <1>2 DEF SubscriptionsCoverHandlers, Covers
  <2> SUFFICES ASSUME NEW x \in EventNames
               PROVE LET mine == {h \in 1 .. told : handlers'[h].event = x} IN
                     /\ (subscribed[x] = None) = (mine = {})
                     /\ \A h \in mine :
                           /\ handlers'[h].priority =< subscribed[x].priority
                           /\ handlers'[h].timeout # None =>
                                 /\ subscribed[x].timeout # None
                                 /\ \/ subscribed[x].timeout = 0
                                    \/ handlers'[h].timeout \in 1 .. subscribed[x].timeout
                     /\ mine # {} =>
                           /\ \E h \in mine : handlers'[h].priority = subscribed[x].priority
                           /\ \E h \in mine : handlers'[h].timeout = subscribed[x].timeout
    BY <1>2 DEF Covers
  <2> DEFINE old == {h \in 1 .. told : handlers[h].event = x}
             mine == {h \in 1 .. told : handlers'[h].event = x}
  <2>1. mine = old /\ \A h \in old : handlers'[h] = handlers[h]
    BY <1>3, <1>4
  <2>2. /\ (subscribed[x] = None) = (old = {})
        /\ \A h \in old :
              /\ handlers[h].priority =< subscribed[x].priority
              /\ handlers[h].timeout # None =>
                    /\ subscribed[x].timeout # None
                    /\ \/ subscribed[x].timeout = 0
                       \/ handlers[h].timeout \in 1 .. subscribed[x].timeout
        /\ old # {} =>
              /\ \E h \in old : handlers[h].priority = subscribed[x].priority
              /\ \E h \in old : handlers[h].timeout = subscribed[x].timeout
    BY DEF EventIInv, SubscriptionsCoverHandlers
  <2> HIDE DEF old, mine
  <2> QED
    BY <2>1, <2>2 DEF mine
<1>9. QueueInv'
  <2>1. QueueInv
    BY DEF EventIInv
  <2>2. \A h \in Mine : h \in 1 .. known
    BY DEF Mine
  <2> HIDE DEF Mine
  <2> QED
    BY <1>2, <1>6, <1>7, <2>1, <2>2 DEF QueueInv, InOrder
<1>10. OnlyABlockStops'
  <2>1. OnlyABlockStops
    BY DEF EventIInv
  <2>2. \A h \in 1 .. known : handlers'[h] = handlers[h]
    BY <1>3, <1>4
  <2> QED
    BY <1>2, <2>1, <2>2 DEF OnlyABlockStops
<1>11. FoldInv' /\ LaterHandlersSeeTheAnswer' /\ ReplacedOutputHasNoData'
  BY <1>2 DEF EventIInv, FoldInv, Gives, Adds, LaterHandlersSeeTheAnswer, ReplacedOutputHasNoData
<1> QED
  BY <1>5, <1>8, <1>9, <1>10, <1>11 DEF EventIInv

\* The host is told of every handler.
LEMMA InitializeKeeps == EventIInv /\ Initialize => EventIInv'
<1> SUFFICES ASSUME EventIInv, Initialize PROVE EventIInv'
  OBVIOUS
<1>1. handlers \in Seq(Handler)
  BY DEF Handler, EventIInv, CallTypes, EventTypeOK
<1>2. subscribed' \in Hints /\ Covers(subscribed', told') /\ told' = Len(handlers)
  BY <1>1, SubscriptionsCover DEF Initialize
<1>3. UNCHANGED <<handlers, state, event, queue, tool, aggregate, log, known>>
  BY DEF Initialize, callVars
<1>4. CallTypes'
  <2>1. told' \in Nat /\ told' =< Len(handlers')
    BY <1>1, <1>2, <1>3, LenProperties
  <2>2. CallTypes
    BY DEF EventIInv
  <2> QED
    BY <1>2, <1>3, <2>1, <2>2 DEF CallTypes, EventTypeOK, Hints, Hint
<1>5. SubscriptionsCoverHandlers'
  BY <1>2, <1>3 DEF SubscriptionsCoverHandlers, Covers
<1>6. Mine' = Mine /\ \A h, k : Precedes(h, k)' = Precedes(h, k)
  BY <1>3 DEF Mine, Precedes
<1>7. QueueInv' /\ OnlyABlockStops'
  BY <1>3, <1>6 DEF EventIInv, QueueInv, InOrder, OnlyABlockStops
<1>8. FoldInv' /\ LaterHandlersSeeTheAnswer' /\ ReplacedOutputHasNoData'
  BY <1>3 DEF EventIInv, FoldInv, Gives, Adds, LaterHandlersSeeTheAnswer, ReplacedOutputHasNoData
<1> QED
  BY <1>4, <1>5, <1>7, <1>8 DEF EventIInv

\* An event starts with all of its handlers in the queue.
LEMMA HandleEventKeeps ==
    ASSUME EventIInv, NEW e \in EventNames, NEW withTool \in BOOLEAN, HandleEvent(e, withTool)
    PROVE EventIInv'
<1> DEFINE S == {h \in DOMAIN handlers : handlers[h].event = e}
           q == Sorted(S)
<1>1. handlers \in Seq(Handler)
  BY DEF Handler, EventIInv, CallTypes, EventTypeOK
<1>2. Len(handlers) \in Nat /\ DOMAIN handlers = 1 .. Len(handlers)
  BY <1>1, LenProperties
<1>3. /\ q \in Seq(S) /\ ToSet(q) = S /\ InOrder(q)
      /\ S \in SUBSET (1 .. Len(handlers))
  BY <1>1, <1>2, SortedIsInOrder
<1>4. /\ state' = "running" /\ event' = e /\ queue' = q
      /\ tool' = [f \in ToolFields |->
                     IF withTool THEN [by |-> 0, data |-> TRUE, edits |-> {}] ELSE None]
      /\ aggregate' = NoAggregate /\ log' = <<>> /\ known' = Len(handlers)
      /\ UNCHANGED <<handlers, subscribed, told>>
  BY DEF HandleEvent
<1>5. Mine' = S
  BY <1>2, <1>4 DEF Mine
<1> HIDE DEF S, q
<1>6. DOMAIN log' = {} /\ DOMAIN queue' = DOMAIN q
  BY <1>4
<1>7. CallTypes'
  <2>1. known' \in 0 .. Len(handlers') /\ queue' \in Seq(1 .. known')
    <3>1. q \in Seq(1 .. Len(handlers))
      BY <1>3, SeqWiden
    <3> QED
      BY <1>2, <1>4, <3>1
  <2>2. log' \in Seq([handler : 1 .. known', result : Returned])
    BY <1>4
  <2>3. tool' \in [ToolFields -> Value \cup {None}]
    <3>1. [by |-> 0, data |-> TRUE, edits |-> {}] \in Value
      BY DEF Value
    <3> QED
      BY <1>4, <3>1
  <2>4. /\ DOMAIN aggregate' = Replaced \cup Appended
        /\ \A f \in Replaced : aggregate'[f] \in Value \cup {None}
        /\ \A f \in Appended : aggregate'[f] \in Seq(1 .. Len(handlers'))
    BY <1>4 DEF NoAggregate, Replaced, Appended, ToolFields
  <2>5. EventTypeOK
    BY DEF EventIInv, CallTypes
  <2>6. EventTypeOK'
    BY <1>2, <1>4, <1>6, <2>1, <2>3, <2>4, <2>5 DEF EventTypeOK
  <2> QED
    BY <1>4, <2>1, <2>2, <2>6 DEF EventIInv, CallTypes
<1>8. SubscriptionsCoverHandlers'
  BY <1>4 DEF EventIInv, SubscriptionsCoverHandlers
<1>9. QueueInv'
  <2>1. \A h, k : Precedes(h, k)' = Precedes(h, k)
    BY <1>4 DEF Precedes
  <2>2. \A i, j \in DOMAIN q : i < j => Precedes(q[i], q[j])
    BY <1>3 DEF InOrder
  <2>3. /\ \A i \in DOMAIN q : q[i] \in S
        /\ \A h \in S : \E j \in DOMAIN q : q[j] = h
    BY <1>3 DEF ToSet
  <2>4. InOrder(queue)'
    BY <1>4, <2>1, <2>2 DEF InOrder
  <2> QED
    BY <1>4, <1>5, <1>6, <2>3, <2>4 DEF QueueInv
<1>10. OnlyABlockStops'
  BY <1>4, <1>6 DEF OnlyABlockStops
<1>11. FoldInv'
  <2>1. \A f \in Replaced : aggregate'[f] = None
    BY <1>4 DEF NoAggregate
  <2>2. \A f \in Appended : DOMAIN aggregate'[f] = {}
    BY <1>4 DEF NoAggregate, Replaced, Appended, ToolFields
  <2> QED
    BY <1>4, <1>6, <2>1, <2>2 DEF FoldInv
<1>12. LaterHandlersSeeTheAnswer' /\ ReplacedOutputHasNoData'
  <2>1. \A f \in ToolFields : aggregate'[f] = None
    BY <1>4 DEF NoAggregate, Replaced
  <2> QED
    BY <1>6, <2>1 DEF LaterHandlersSeeTheAnswer, ReplacedOutputHasNoData
<1> QED
  BY <1>7, <1>8, <1>9, <1>10, <1>11, <1>12 DEF EventIInv

\* The handler that runs comes after those in the log.
LEMMA HeadIsNew ==
    ASSUME EventIInv, Running
    PROVE /\ Head(queue) = queue[1] /\ Head(queue) \in 1 .. known /\ Head(queue) \in Mine
          /\ Head(queue) \in Nat /\ Head(queue) > 0
          /\ \A i \in DOMAIN log : /\ Precedes(log[i].handler, Head(queue))
                                   /\ log[i].handler # Head(queue)
          /\ \A f \in Replaced :
                aggregate[f] # None => aggregate[f].by # Head(queue)
<1>1. queue \in Seq(1 .. known) /\ queue # <<>> /\ state = "running"
  BY DEF EventIInv, CallTypes, Running
<1>2. Head(queue) = queue[1] /\ 1 \in DOMAIN queue
  BY <1>1
<1>3. queue[1] \in Mine /\ \A i \in DOMAIN log : Precedes(log[i].handler, queue[1])
  BY <1>1, <1>2 DEF EventIInv, QueueInv
<1>4. queue[1] \in 1 .. known /\ \A i \in DOMAIN log : log[i].handler \in 1 .. known
  BY <1>3 DEF EventIInv, QueueInv, Mine
<1>5. known \in 0 .. Len(handlers) /\ handlers \in Seq(Handler)
  BY DEF Handler, EventIInv, CallTypes, EventTypeOK
<1>6. Len(handlers) \in Nat
  BY <1>5, LenProperties
<1>7. queue[1] \in 1 .. Len(handlers) /\ \A i \in DOMAIN log : log[i].handler \in 1 .. Len(handlers)
  BY <1>4, <1>5, <1>6
<1>8. \A i \in DOMAIN log : log[i].handler # queue[1]
  BY <1>3, <1>5, <1>7, PrecedesOrders
<1>9. \A f \in Replaced : aggregate[f] # None =>
         \E i \in DOMAIN log : aggregate[f].by = log[i].handler
  BY <1>1 DEF EventIInv, FoldInv
<1> QED
  BY <1>2, <1>3, <1>4, <1>6, <1>7, <1>8, <1>9

\* A change in place reaches the answer when it shares the object.
LEMMA EditKeeps ==
    ASSUME EventIInv, NEW f \in ToolFields, Edit(f)
    PROVE EventIInv'
<1> DEFINE h == Head(queue)
           same == aggregate[f] # None /\ aggregate[f] = tool[f]
<1>1. /\ Running /\ tool[f] # None
      /\ tool' = [tool EXCEPT ![f].edits = @ \cup {h}]
      /\ aggregate' = IF same THEN [aggregate EXCEPT ![f].edits = @ \cup {h}] ELSE aggregate
      /\ UNCHANGED <<handlers, subscribed, told, state, event, queue, log, known>>
  BY DEF Edit
<1>2. h \in Nat
  BY <1>1, HeadIsNew
<1> HIDE DEF h
<1>3. /\ tool \in [ToolFields -> Value \cup {None}]
      /\ DOMAIN aggregate = Replaced \cup Appended
      /\ \A g \in Replaced : aggregate[g] \in Value \cup {None}
      /\ None \notin Value
      /\ ToolFields \subseteq Replaced
  BY EventAssumption DEF EventIInv, CallTypes, EventTypeOK, Replaced
<1> DEFINE changed(v) == [v EXCEPT !.edits = @ \cup {h}]
<1>4. \A v \in Value : /\ changed(v) \in Value /\ changed(v) # None
                       /\ changed(v).by = v.by /\ changed(v).data = v.data
  BY <1>2, <1>3 DEF Value
<1>5. /\ tool' = [tool EXCEPT ![f] = changed(tool[f])]
      /\ same => aggregate' = [aggregate EXCEPT ![f] = changed(aggregate[f])]
  BY <1>1
<1> HIDE DEF changed
<1>6. tool[f] \in Value /\ (same => aggregate[f] = tool[f])
  BY <1>1, <1>3
<1>7. /\ tool' \in [ToolFields -> Value \cup {None}]
      /\ tool'[f] = changed(tool[f])
      /\ \A g \in ToolFields : g # f => tool'[g] = tool[g]
  BY <1>3, <1>4, <1>5, <1>6
<1>8. /\ DOMAIN aggregate' = Replaced \cup Appended
      /\ \A g \in Replaced \cup Appended : ~ (same /\ g = f) => aggregate'[g] = aggregate[g]
      /\ same => aggregate'[f] = changed(tool[f])
  BY <1>1, <1>3, <1>5
<1>9. \A g \in Replaced :
         /\ aggregate'[g] \in Value \cup {None}
         /\ (aggregate'[g] = None) = (aggregate[g] = None)
         /\ aggregate[g] # None => /\ aggregate'[g].by = aggregate[g].by
                                   /\ aggregate'[g].data = aggregate[g].data
  BY <1>3, <1>4, <1>6, <1>8
<1>10. \A g \in Appended : aggregate'[g] = aggregate[g]
  BY <1>8 DEF Appended, ToolFields
<1>11. CallTypes'
  <2>1. EventTypeOK'
    BY <1>1, <1>7, <1>8, <1>9, <1>10 DEF EventIInv, CallTypes, EventTypeOK
  <2> QED
    BY <1>1, <2>1 DEF EventIInv, CallTypes
<1>12. SubscriptionsCoverHandlers' /\ OnlyABlockStops'
  BY <1>1 DEF EventIInv, SubscriptionsCoverHandlers, OnlyABlockStops
<1>13. QueueInv'
  <2>1. Mine' = Mine /\ \A k, l : Precedes(k, l)' = Precedes(k, l)
    BY <1>1 DEF Mine, Precedes
  <2> QED
    BY <1>1, <2>1 DEF EventIInv, QueueInv, InOrder
<1>14. FoldInv'
  <2>1. state = "running" /\ state' = "running"
    BY <1>1 DEF Running
  <2>2. /\ \A i, g : Gives(i, g)' = Gives(i, g) /\ Adds(i, g)' = Adds(i, g)
        /\ log' = log
    BY <1>1 DEF Gives, Adds
  <2>3. FoldInv
    BY DEF EventIInv
  <2>4. \A g \in Replaced :
           IF aggregate'[g] = None THEN \A i \in DOMAIN log : ~ Gives(i, g)
           ELSE \E i \in DOMAIN log :
                    /\ Gives(i, g) /\ \A j \in DOMAIN log : Gives(j, g) => j =< i
                    /\ aggregate'[g].by = log[i].handler
    BY <1>9, <2>1, <2>3 DEF FoldInv
  <2>5. \A g \in Appended :
           /\ \A k \in DOMAIN aggregate'[g] :
                 \E i \in DOMAIN log : Adds(i, g) /\ log[i].handler = aggregate'[g][k]
           /\ \A i \in DOMAIN log :
                 Adds(i, g) => \E k \in DOMAIN aggregate'[g] : aggregate'[g][k] = log[i].handler
           /\ \A j, k \in DOMAIN aggregate'[g] : j < k =>
                 \E i, l \in DOMAIN log :
                    /\ i < l /\ Adds(i, g) /\ Adds(l, g)
                    /\ aggregate'[g][j] = log[i].handler
                    /\ aggregate'[g][k] = log[l].handler
    BY <1>10, <2>1, <2>3 DEF FoldInv
  <2> QED
    BY <2>1, <2>2, <2>4, <2>5 DEF FoldInv
<1>15. LaterHandlersSeeTheAnswer'
  <2>1. ASSUME NEW g \in ToolFields, aggregate'[g] # None, tool'[g] # None
        PROVE tool'[g] = aggregate'[g] \/ (tool'[g].by > 0 /\ tool'[g].by # aggregate'[g].by)
    <3>1. aggregate[g] # None /\ aggregate'[g].by = aggregate[g].by
      BY <1>3, <1>9, <2>1
    <3>2. tool[g] # None
      BY <1>1, <1>7, <2>1
    <3>3. tool[g] = aggregate[g] \/ (tool[g].by > 0 /\ tool[g].by # aggregate[g].by)
      BY <3>1, <3>2 DEF EventIInv, LaterHandlersSeeTheAnswer
    <3>4. tool'[g].by = tool[g].by
      BY <1>4, <1>6, <1>7
    <3>5. tool[g] = aggregate[g] => tool'[g] = aggregate'[g]
      BY <1>3, <1>7, <1>8, <3>1
    <3> QED
      BY <3>1, <3>3, <3>4, <3>5
  <2> QED
    BY <2>1 DEF LaterHandlersSeeTheAnswer
<1>16. ReplacedOutputHasNoData'
  <2>1. "output" \in ToolFields /\ "output" \in Replaced
    BY DEF ToolFields, Replaced
  <2>2. /\ (tool'["output"] = None) = (tool["output"] = None)
        /\ tool["output"] # None => /\ tool'["output"].by = tool["output"].by
                                    /\ tool'["output"].data = tool["output"].data
    BY <1>1, <1>3, <1>4, <1>6, <1>7, <2>1
  <2>3. ReplacedOutputHasNoData
    BY DEF EventIInv
  <2> QED
    BY <1>1, <1>9, <2>1, <2>2, <2>3 DEF ReplacedOutputHasNoData
<1> QED
  BY <1>11, <1>12, <1>13, <1>14, <1>15, <1>16 DEF EventIInv

\* A handler's own value is nobody else's.
LEMMA AssignKeeps ==
    ASSUME EventIInv, NEW f \in ToolFields, Assign(f)
    PROVE EventIInv'
<1> DEFINE h == Head(queue)
           v == [by |-> h, data |-> TRUE, edits |-> {}]
<1>1. /\ Running /\ tool' = [tool EXCEPT ![f] = v]
      /\ UNCHANGED <<handlers, subscribed, told, state, event, queue, aggregate, log, known>>
  BY DEF Assign
<1>2. h \in Nat /\ h > 0 /\ \A g \in Replaced : aggregate[g] # None => aggregate[g].by # h
  BY <1>1, HeadIsNew
<1> HIDE DEF h
<1>3. tool \in [ToolFields -> Value \cup {None}] /\ ToolFields \subseteq Replaced
  BY DEF EventIInv, CallTypes, EventTypeOK, Replaced
<1>4. v \in Value /\ v.by = h
  BY <1>2 DEF Value
<1> HIDE DEF v
<1>5. /\ tool' \in [ToolFields -> Value \cup {None}] /\ tool'[f] = v
      /\ \A g \in ToolFields : g # f => tool'[g] = tool[g]
  BY <1>1, <1>3, <1>4
<1>6. CallTypes'
  <2>1. EventTypeOK'
    BY <1>1, <1>5 DEF EventIInv, CallTypes, EventTypeOK
  <2> QED
    BY <1>1, <2>1 DEF EventIInv, CallTypes
<1>7. SubscriptionsCoverHandlers' /\ OnlyABlockStops'
  BY <1>1 DEF EventIInv, SubscriptionsCoverHandlers, OnlyABlockStops
<1>8. QueueInv'
  <2>1. Mine' = Mine /\ \A k, l : Precedes(k, l)' = Precedes(k, l)
    BY <1>1 DEF Mine, Precedes
  <2> QED
    BY <1>1, <2>1 DEF EventIInv, QueueInv, InOrder
<1>9. FoldInv'
  BY <1>1 DEF EventIInv, FoldInv, Gives, Adds
<1>10. LaterHandlersSeeTheAnswer'
  BY <1>1, <1>2, <1>3, <1>4, <1>5 DEF EventIInv, LaterHandlersSeeTheAnswer
<1>11. ReplacedOutputHasNoData'
  <2>1. "output" \in ToolFields
    BY DEF ToolFields
  <2>2. \/ tool'["output"] = tool["output"]
        \/ /\ tool'["output"].by > 0
           /\ aggregate["output"] # None => tool'["output"].by # aggregate["output"].by
    <3>1. CASE f = "output"
      BY <1>2, <1>3, <1>4, <1>5, <2>1, <3>1
    <3>2. CASE f # "output"
      <4>1. \A g \in ToolFields : g # f => tool'[g] = tool[g]
        BY <1>5
      <4>2. tool'["output"] = tool["output"]
        BY <2>1, <3>2, <4>1
      <4> QED
        BY <4>2
    <3> QED
      BY <3>1, <3>2
  <2>3. ReplacedOutputHasNoData
    BY DEF EventIInv
  <2> QED
    BY <1>1, <2>2, <2>3 DEF ReplacedOutputHasNoData
<1> QED
  BY <1>6, <1>7, <1>8, <1>9, <1>10, <1>11 DEF EventIInv

\* What is returned is a reply.
LEMMA RepliesAre == Results \cup {Nothing} \subseteq Returned
<1>1. Results \subseteq Returned
  BY EventAssumption DEF Returned
<1>2. Nothing \in Returned
  BY DEF Nothing, Returned, Blocks
<1> QED
  BY <1>1, <1>2

\* What a handler that returns does to the log and the queue.
LEMMA ReturnsEffect ==
    ASSUME EventIInv, NEW r \in Returned, Returns(r)
    PROVE LET h == Head(queue)  n == Len(log)  m == Len(queue) IN
          /\ n \in Nat /\ DOMAIN log = 1 .. n /\ DOMAIN log' = 1 .. n + 1 /\ Len(log') = n + 1
          /\ \A i \in 1 .. n : log'[i] = log[i]
          /\ log'[n + 1] = [handler |-> h, result |-> r]
          /\ log' \in Seq([handler : 1 .. known, result : Returned])
          /\ m \in Nat \ {0} /\ DOMAIN queue = 1 .. m /\ DOMAIN queue' = 1 .. m - 1
          /\ queue' \in Seq(1 .. known)
          /\ \A j \in 1 .. m - 1 : queue'[j] = queue[j + 1]
          /\ h = queue[1]
<1> DEFINE h == Head(queue)
           E == [handler : 1 .. known, result : Returned]
           entry == [handler |-> h, result |-> r]
<1>1. /\ Running /\ log' = Append(log, entry) /\ queue' = Tail(queue)
  BY DEF Returns
<1>2. /\ log \in Seq(E) /\ queue \in Seq(1 .. known) /\ queue # <<>>
  BY <1>1 DEF EventIInv, CallTypes, Running
<1>3. h = queue[1] /\ h \in 1 .. known
  BY <1>1, HeadIsNew
<1> HIDE DEF h
<1>4. entry \in E
  BY <1>3
<1> HIDE DEF E, entry
<1>5. /\ log' \in Seq(E) /\ Len(log') = Len(log) + 1
      /\ \A i \in 1 .. Len(log) : log'[i] = log[i]
      /\ log'[Len(log) + 1] = entry
  BY <1>1, <1>2, <1>4, AppendProperties
<1>6. /\ Len(log) \in Nat /\ DOMAIN log = 1 .. Len(log) /\ DOMAIN log' = 1 .. Len(log')
  BY <1>2, <1>5, LenProperties
<1>7. /\ queue' \in Seq(1 .. known) /\ Len(queue') = Len(queue) - 1
      /\ \A j \in 1 .. Len(queue') : queue'[j] = queue[j + 1]
  BY <1>1, <1>2, HeadTailProperties
<1>8. /\ Len(queue) \in Nat \ {0} /\ DOMAIN queue = 1 .. Len(queue)
      /\ DOMAIN queue' = 1 .. Len(queue')
  BY <1>2, <1>7, LenProperties, EmptySeq
<1>9. DOMAIN log' = 1 .. Len(log) + 1
  BY <1>5, <1>6
<1>10. /\ DOMAIN queue' = 1 .. Len(queue) - 1
       /\ \A j \in 1 .. Len(queue) - 1 : queue'[j] = queue[j + 1]
  BY <1>7, <1>8
<1> QED
  BY <1>3, <1>5, <1>6, <1>7, <1>8, <1>9, <1>10 DEF h, E, entry

\* What it does to the fields.
LEMMA FoldEffect ==
    ASSUME EventIInv, NEW r \in Returned, Returns(r)
    PROVE LET h == Head(queue) IN
          /\ DOMAIN aggregate' = Replaced \cup Appended
          /\ \A f \in Replaced :
                /\ f \in r.sets => /\ aggregate'[f] \in Value /\ aggregate'[f] # None
                                   /\ aggregate'[f].by = h
                                   /\ aggregate'[f] = Plain(h, f, r)
                /\ f \notin r.sets => aggregate'[f] = aggregate[f]
          /\ \A f \in Appended :
                aggregate'[f] = IF f \in r.adds THEN Append(aggregate[f], h) ELSE aggregate[f]
          /\ tool' \in [ToolFields -> Value \cup {None}]
          /\ \A f \in ToolFields :
                tool'[f] = IF f \in r.sets /\ tool[f] # None THEN Plain(h, f, r) ELSE tool[f]
<1> DEFINE h == Head(queue)
<1>1. Running /\ aggregate' = Fold(h, r) /\ tool' = Shown(h, r)
  BY DEF Returns
<1>2. h \in Nat
  BY <1>1, HeadIsNew
<1>3. /\ tool \in [ToolFields -> Value \cup {None}]
      /\ DOMAIN aggregate = Replaced \cup Appended /\ None \notin Value
  BY EventAssumption DEF EventIInv, CallTypes, EventTypeOK
<1>4. \A f \in Replaced : f \notin Appended
  BY DEF Replaced, Appended, ToolFields
<1> HIDE DEF h
<1>5. ASSUME NEW f PROVE Plain(h, f, r) \in Value /\ Plain(h, f, r).by = h /\ Plain(h, f, r) # None
  <2>1. r.data \in BOOLEAN
    BY DEF Returned
  <2>2. (r.data /\ ~ (f = "output" /\ event \in OutputEvents)) \in BOOLEAN
    OBVIOUS
  <2> DEFINE d == r.data /\ ~ (f = "output" /\ event \in OutputEvents)
  <2>3. Plain(h, f, r) = [by |-> h, edits |-> {}, data |-> d]
    BY DEF Plain
  <2>4. d \in BOOLEAN
    BY <2>2
  <2> HIDE DEF d
  <2>5. Plain(h, f, r) \in Value /\ Plain(h, f, r).by = h
    BY <1>2, <2>3, <2>4 DEF Value
  <2> QED
    BY <1>3, <2>5
<1>6. /\ DOMAIN aggregate' = Replaced \cup Appended
      /\ \A f \in Replaced :
            aggregate'[f] = IF f \in r.sets THEN Plain(h, f, r) ELSE aggregate[f]
      /\ \A f \in Appended :
            aggregate'[f] = IF f \in r.adds THEN Append(aggregate[f], h) ELSE aggregate[f]
  BY <1>1, <1>4 DEF Fold
<1>7. \A f \in ToolFields :
         tool'[f] = IF f \in r.sets /\ tool[f] # None THEN Plain(h, f, r) ELSE tool[f]
  BY <1>1 DEF Shown
<1>8. tool' \in [ToolFields -> Value \cup {None}]
  <2>1. \A f \in ToolFields :
           (IF f \in r.sets /\ tool[f] # None THEN Plain(h, f, r) ELSE tool[f])
               \in Value \cup {None}
    BY <1>3, <1>5
  <2> QED
    BY <1>1, <2>1 DEF Shown
<1> QED
  BY <1>5, <1>6, <1>7, <1>8 DEF h

\* A handler that returns is the last in the log, and its fields are the last.
LEMMA ReturnsKeeps ==
    ASSUME EventIInv, NEW r \in Returned, Returns(r)
    PROVE EventIInv'
<1> DEFINE h == Head(queue)
           n == Len(log)
           m == Len(queue)
           stops == Stops(r)
           GivesN(i, f) == f \in log'[i].result.sets
           AddsN(i, f) == f \in log'[i].result.adds
<1>1. /\ Running /\ state' = IF stops THEN "answered" ELSE "running"
      /\ UNCHANGED <<handlers, subscribed, told, event, known>>
  BY DEF Returns
<1>2. /\ n \in Nat /\ DOMAIN log = 1 .. n /\ DOMAIN log' = 1 .. n + 1 /\ Len(log') = n + 1
      /\ \A i \in 1 .. n : log'[i] = log[i]
      /\ log'[n + 1] = [handler |-> h, result |-> r]
      /\ log' \in Seq([handler : 1 .. known, result : Returned])
      /\ m \in Nat \ {0} /\ DOMAIN queue = 1 .. m /\ DOMAIN queue' = 1 .. m - 1
      /\ queue' \in Seq(1 .. known)
      /\ \A j \in 1 .. m - 1 : queue'[j] = queue[j + 1]
      /\ h = queue[1]
  BY ReturnsEffect
<1>3. /\ DOMAIN aggregate' = Replaced \cup Appended
      /\ \A f \in Replaced :
            /\ f \in r.sets => /\ aggregate'[f] \in Value /\ aggregate'[f] # None
                               /\ aggregate'[f].by = h
                               /\ aggregate'[f] = Plain(h, f, r)
            /\ f \notin r.sets => aggregate'[f] = aggregate[f]
      /\ \A f \in Appended :
            aggregate'[f] = IF f \in r.adds THEN Append(aggregate[f], h) ELSE aggregate[f]
      /\ tool' \in [ToolFields -> Value \cup {None}]
      /\ \A f \in ToolFields :
            tool'[f] = IF f \in r.sets /\ tool[f] # None THEN Plain(h, f, r) ELSE tool[f]
  BY FoldEffect
<1>4. /\ h \in 1 .. known /\ h \in Mine /\ h \in Nat
      /\ \A i \in DOMAIN log : Precedes(log[i].handler, h)
  BY <1>1, HeadIsNew
<1>5. state = "running"
  BY <1>1 DEF Running
<1>6. /\ handlers \in Seq(Handler) /\ known \in 0 .. Len(handlers) /\ Len(handlers) \in Nat
      /\ h \in 1 .. Len(handlers)
  <2>1. handlers \in Seq(Handler) /\ known \in 0 .. Len(handlers)
    BY DEF Handler, EventIInv, CallTypes, EventTypeOK
  <2>2. Len(handlers) \in Nat
    BY <2>1, LenProperties
  <2> QED
    BY <1>4, <2>1, <2>2
<1> HIDE DEF h, n, m, stops, GivesN, AddsN
<1>7. /\ log'[n + 1].handler = h /\ log'[n + 1].result = r
      /\ \A i \in DOMAIN log : i \in DOMAIN log' /\ log'[i] = log[i]
      /\ n + 1 \in DOMAIN log'
      /\ \A i \in DOMAIN log' : i \in DOMAIN log \/ i = n + 1
      /\ \A i \in DOMAIN log : i < n + 1
      /\ DOMAIN log' \subseteq Int
  BY <1>2
<1>8. Mine' = Mine /\ \A k, l : Precedes(k, l)' = Precedes(k, l)
  BY <1>1 DEF Mine, Precedes
<1>9. /\ \A f : GivesN(n + 1, f) = (f \in r.sets) /\ AddsN(n + 1, f) = (f \in r.adds)
      /\ \A i \in DOMAIN log : \A f : GivesN(i, f) = Gives(i, f) /\ AddsN(i, f) = Adds(i, f)
  BY <1>7 DEF Gives, Adds, GivesN, AddsN
<1>10. CallTypes'
  <2>1. EventTypeOK
    BY DEF EventIInv, CallTypes
  <2>2. queue' \in Seq(DOMAIN handlers')
    <3>1. 1 .. known \subseteq DOMAIN handlers
      BY <1>6, LenProperties
    <3>2. queue' \in Seq(DOMAIN handlers)
      BY <1>2, <3>1, SeqWiden
    <3> QED
      BY <1>1, <3>2
  <2>3. \A f \in Replaced : aggregate'[f] \in Value \cup {None}
    BY <1>3, <2>1 DEF EventTypeOK
  <2>4. \A f \in Appended : aggregate'[f] \in Seq(1 .. Len(handlers'))
    <3>1. \A f \in Appended : aggregate[f] \in Seq(1 .. Len(handlers))
      BY <2>1 DEF EventTypeOK
    <3>2. \A f \in Appended : Append(aggregate[f], h) \in Seq(1 .. Len(handlers))
      BY <1>6, <3>1, AppendProperties
    <3> QED
      BY <1>1, <1>3, <3>1, <3>2
  <2>5. \A i \in DOMAIN log' : log'[i].handler \in 1 .. Len(handlers')
    BY <1>1, <1>6, <1>7, <2>1 DEF EventTypeOK
  <2>6. EventTypeOK'
    BY <1>1, <1>3, <2>1, <2>2, <2>3, <2>4, <2>5 DEF EventTypeOK
  <2> QED
    BY <1>1, <1>2, <2>6 DEF EventIInv, CallTypes
<1>11. SubscriptionsCoverHandlers'
  BY <1>1 DEF EventIInv, SubscriptionsCoverHandlers
<1>12. QueueInv'
  <2>1. QueueInv
    BY DEF EventIInv
  <2>2. \A i \in DOMAIN log' : log'[i].handler \in Mine
    BY <1>4, <1>7, <2>1 DEF QueueInv
  <2>3. \A i, j \in DOMAIN log' : i < j => Precedes(log'[i].handler, log'[j].handler)
    <3> SUFFICES ASSUME NEW i \in DOMAIN log', NEW j \in DOMAIN log', i < j
                 PROVE Precedes(log'[i].handler, log'[j].handler)
      OBVIOUS
    <3>1. i \in DOMAIN log
      BY <1>2
    <3> QED
      BY <1>4, <1>7, <2>1, <3>1 DEF QueueInv
  <2>4. \A j \in DOMAIN queue' : j + 1 \in DOMAIN queue /\ queue'[j] = queue[j + 1]
    BY <1>2
  <2>5. \A j \in DOMAIN queue' : queue'[j] \in Mine /\ Precedes(h, queue'[j])
    <3>1. 1 \in DOMAIN queue /\ \A j \in DOMAIN queue' : 1 < j + 1
      BY <1>2
    <3> QED
      BY <1>2, <1>5, <2>1, <2>4, <3>1 DEF QueueInv, InOrder
  <2>6. \A i, j \in DOMAIN queue' : i < j => Precedes(queue'[i], queue'[j])
    <3> SUFFICES ASSUME NEW i \in DOMAIN queue', NEW j \in DOMAIN queue', i < j
                 PROVE Precedes(queue'[i], queue'[j])
      OBVIOUS
    <3>1. i + 1 < j + 1
      BY <1>2
    <3> QED
      BY <1>5, <2>1, <2>4, <3>1 DEF QueueInv, InOrder
  <2>7. \A i \in DOMAIN log', j \in DOMAIN queue' : Precedes(log'[i].handler, queue'[j])
    BY <1>5, <1>7, <2>1, <2>4, <2>5 DEF QueueInv
  <2>8. ASSUME NEW k \in Mine
        PROVE \/ \E i \in DOMAIN log' : log'[i].handler = k
              \/ (\E j \in DOMAIN queue' : queue'[j] = k)
    <3>1. (\E i \in DOMAIN log : log[i].handler = k) \/ (\E j \in DOMAIN queue : queue[j] = k)
      BY <1>5, <2>1 DEF QueueInv
    <3>2. ASSUME NEW j \in DOMAIN queue, queue[j] = k
          PROVE k = h \/ \E l \in DOMAIN queue' : queue'[l] = k
      <4>1. j = 1 \/ (j - 1 \in DOMAIN queue' /\ queue'[j - 1] = queue[j])
        BY <1>2
      <4> QED
        BY <1>2, <3>2, <4>1
    <3> QED
      BY <1>7, <3>1, <3>2
  <2> HIDE DEF Mine
  <2>9. InOrder(queue)'
    BY <1>8, <2>6 DEF InOrder
  <2> QED
    BY <1>8, <2>2, <2>3, <2>5, <2>7, <2>8, <2>9 DEF QueueInv
<1>13. OnlyABlockStops'
  <2>1. \A i \in DOMAIN log : log[i].result.block # "truthy"
    BY <1>5 DEF EventIInv, OnlyABlockStops
  <2>2. stops = (r.block = "truthy")
    BY DEF stops, Stops
  <2>3. log' # <<>> /\ log'[Len(log')].result = r
    BY <1>2, <1>7
  <2>4. \A i \in DOMAIN log' :
           log'[i].result.block = "truthy" => i = Len(log') /\ state' = "answered"
    BY <1>1, <1>2, <1>7, <2>1, <2>2
  <2>5. state' = "answered" => log' # <<>> /\ Last(log').result.block = "truthy"
    BY <1>1, <2>2, <2>3 DEF Last
  <2> QED
    BY <2>4, <2>5 DEF OnlyABlockStops
<1>14. \A f \in Replaced :
          IF aggregate'[f] = None THEN \A i \in DOMAIN log' : ~ GivesN(i, f)
          ELSE \E i \in DOMAIN log' :
                   /\ GivesN(i, f) /\ \A j \in DOMAIN log' : GivesN(j, f) => j =< i
                   /\ aggregate'[f].by = log'[i].handler
  <2> SUFFICES ASSUME NEW f \in Replaced
               PROVE IF aggregate'[f] = None THEN \A i \in DOMAIN log' : ~ GivesN(i, f)
                     ELSE \E i \in DOMAIN log' :
                              /\ GivesN(i, f) /\ \A j \in DOMAIN log' : GivesN(j, f) => j =< i
                              /\ aggregate'[f].by = log'[i].handler
    OBVIOUS
  <2>1. IF aggregate[f] = None THEN \A i \in DOMAIN log : ~ Gives(i, f)
        ELSE \E i \in DOMAIN log :
                 /\ Gives(i, f) /\ \A j \in DOMAIN log : Gives(j, f) => j =< i
                 /\ aggregate[f].by = log[i].handler
    BY <1>5 DEF EventIInv, FoldInv
  <2>2. CASE f \in r.sets
    <3>1. aggregate'[f] # None /\ aggregate'[f].by = h /\ GivesN(n + 1, f)
      BY <1>3, <1>9, <2>2
    <3>2. \A j \in DOMAIN log' : j =< n + 1
      BY <1>2
    <3> QED
      BY <1>7, <3>1, <3>2
  <2>3. CASE f \notin r.sets
    <3>1. aggregate'[f] = aggregate[f] /\ ~ GivesN(n + 1, f)
      BY <1>3, <1>9, <2>3
    <3> QED
      BY <1>7, <1>9, <2>1, <3>1
  <2> QED
    BY <2>2, <2>3
<1>15. \A f \in Appended :
          /\ \A k \in DOMAIN aggregate'[f] :
                \E i \in DOMAIN log' : AddsN(i, f) /\ log'[i].handler = aggregate'[f][k]
          /\ \A i \in DOMAIN log' :
                AddsN(i, f) => \E k \in DOMAIN aggregate'[f] : aggregate'[f][k] = log'[i].handler
          /\ \A j, k \in DOMAIN aggregate'[f] : j < k =>
                \E i, l \in DOMAIN log' :
                   /\ i < l /\ AddsN(i, f) /\ AddsN(l, f)
                   /\ aggregate'[f][j] = log'[i].handler
                   /\ aggregate'[f][k] = log'[l].handler
  <2> SUFFICES ASSUME NEW f \in Appended
               PROVE LET a == aggregate'[f] IN
                     /\ \A k \in DOMAIN a :
                           \E i \in DOMAIN log' : AddsN(i, f) /\ log'[i].handler = a[k]
                     /\ \A i \in DOMAIN log' :
                           AddsN(i, f) => \E k \in DOMAIN a : a[k] = log'[i].handler
                     /\ \A j, k \in DOMAIN a : j < k =>
                           \E i, l \in DOMAIN log' :
                              /\ i < l /\ AddsN(i, f) /\ AddsN(l, f)
                              /\ a[j] = log'[i].handler /\ a[k] = log'[l].handler
    OBVIOUS
  <2> DEFINE a == aggregate'[f]
             b == aggregate[f]
  <2>1. /\ \A k \in DOMAIN b : \E i \in DOMAIN log : Adds(i, f) /\ log[i].handler = b[k]
        /\ \A i \in DOMAIN log : Adds(i, f) => \E k \in DOMAIN b : b[k] = log[i].handler
        /\ \A j, k \in DOMAIN b : j < k =>
              \E i, l \in DOMAIN log :
                 /\ i < l /\ Adds(i, f) /\ Adds(l, f)
                 /\ b[j] = log[i].handler /\ b[k] = log[l].handler
    BY <1>5 DEF EventIInv, FoldInv
  <2>2. b \in Seq(1 .. Len(handlers))
    BY DEF EventIInv, CallTypes, EventTypeOK
  <2>3. CASE f \notin r.adds
    <3>1. a = b /\ ~ AddsN(n + 1, f)
      BY <1>3, <1>9, <2>3
    <3> HIDE DEF a, b
    <3> QED
      BY <1>7, <1>9, <2>1, <3>1 DEF a
  <2>4. CASE f \in r.adds
    <3>1. a = Append(b, h) /\ AddsN(n + 1, f)
      BY <1>3, <1>9, <2>4
    <3> DEFINE z == Len(b)
    <3> HIDE DEF a, b
    <3>2. /\ z \in Nat /\ DOMAIN b = 1 .. z /\ DOMAIN a = 1 .. z + 1
          /\ \A k \in 1 .. z : a[k] = b[k]
          /\ a[z + 1] = h
      <4>1. a \in Seq(1 .. Len(handlers)) /\ Len(a) = z + 1
        BY <1>6, <2>2, <3>1, AppendProperties
      <4>2. z \in Nat /\ DOMAIN b = 1 .. z /\ DOMAIN a = 1 .. z + 1
        BY <2>2, <4>1, LenProperties
      <4> QED
        BY <1>6, <2>2, <3>1, <4>2, AppendProperties
    <3> HIDE DEF z
    <3>3. /\ \A k \in DOMAIN b : k \in DOMAIN a /\ a[k] = b[k]
          /\ \A k \in DOMAIN a : k \in DOMAIN b \/ (k = z + 1 /\ a[k] = h)
          /\ z + 1 \in DOMAIN a /\ a[z + 1] = h
          /\ \A j, k \in DOMAIN a : j < k => j \in DOMAIN b
      BY <3>2
    <3>4. \A k \in DOMAIN a : \E i \in DOMAIN log' : AddsN(i, f) /\ log'[i].handler = a[k]
      <4> SUFFICES ASSUME NEW k \in DOMAIN a
                   PROVE \E i \in DOMAIN log' : AddsN(i, f) /\ log'[i].handler = a[k]
        OBVIOUS
      <4>1. CASE k \in DOMAIN b
        <5>1. PICK i \in DOMAIN log : Adds(i, f) /\ log[i].handler = b[k]
          BY <2>1, <4>1
        <5> QED
          BY <1>7, <1>9, <3>3, <4>1, <5>1
      <4>2. CASE k = z + 1 /\ a[k] = h
        BY <1>7, <3>1, <4>2
      <4> QED
        BY <3>3, <4>1, <4>2
    <3>5. \A i \in DOMAIN log' : AddsN(i, f) => \E k \in DOMAIN a : a[k] = log'[i].handler
      <4> SUFFICES ASSUME NEW i \in DOMAIN log', AddsN(i, f)
                   PROVE \E k \in DOMAIN a : a[k] = log'[i].handler
        OBVIOUS
      <4>1. CASE i \in DOMAIN log
        <5>1. Adds(i, f) /\ log'[i].handler = log[i].handler
          BY <1>7, <1>9, <4>1
        <5>2. PICK k \in DOMAIN b : b[k] = log[i].handler
          BY <2>1, <4>1, <5>1
        <5> QED
          BY <3>3, <5>1, <5>2
      <4>2. CASE i = n + 1
        BY <1>7, <1>9, <3>3, <4>2
      <4> QED
        BY <1>7, <1>9, <4>1, <4>2
    <3>6. \A j, k \in DOMAIN a : j < k =>
             \E i, l \in DOMAIN log' :
                /\ i < l /\ AddsN(i, f) /\ AddsN(l, f)
                /\ a[j] = log'[i].handler /\ a[k] = log'[l].handler
      <4> SUFFICES ASSUME NEW j \in DOMAIN a, NEW k \in DOMAIN a, j < k
                   PROVE \E i, l \in DOMAIN log' :
                            /\ i < l /\ AddsN(i, f) /\ AddsN(l, f)
                            /\ a[j] = log'[i].handler /\ a[k] = log'[l].handler
        OBVIOUS
      <4>1. j \in DOMAIN b /\ a[j] = b[j]
        BY <3>3
      <4>2. CASE k \in DOMAIN b
        <5>1. PICK i \in DOMAIN log, l \in DOMAIN log :
                  /\ i < l /\ Adds(i, f) /\ Adds(l, f)
                  /\ b[j] = log[i].handler /\ b[k] = log[l].handler
          BY <2>1, <4>1, <4>2
        <5> QED
          BY <1>7, <1>9, <3>3, <4>1, <4>2, <5>1
      <4>3. CASE k \notin DOMAIN b
        <5>1. PICK i \in DOMAIN log : Adds(i, f) /\ log[i].handler = b[j]
          BY <2>1, <4>1
        <5> QED
          BY <1>7, <1>9, <3>1, <3>3, <4>1, <4>3, <5>1
      <4> QED
        BY <4>2, <4>3
    <3> QED
      BY <3>4, <3>5, <3>6 DEF a
  <2> QED
    BY <2>3, <2>4
<1>16. FoldInv'
  BY <1>1, <1>14, <1>15 DEF FoldInv, Gives, Adds, GivesN, AddsN
<1>17. LaterHandlersSeeTheAnswer'
  <2>1. \A f \in ToolFields : f \in Replaced
    BY DEF Replaced
  <2>2. LaterHandlersSeeTheAnswer
    BY DEF EventIInv
  <2>3. ASSUME NEW f \in ToolFields, aggregate'[f] # None, tool'[f] # None
        PROVE tool'[f] = aggregate'[f] \/ (tool'[f].by > 0 /\ tool'[f].by # aggregate'[f].by)
    <3>1. CASE f \in r.sets
      <4>1. tool[f] # None
        BY <1>3, <2>3
      <4> QED
        BY <1>3, <2>1, <3>1, <4>1
    <3>2. CASE f \notin r.sets
      <4>1. tool'[f] = tool[f] /\ aggregate'[f] = aggregate[f]
        BY <1>3, <2>1, <3>2
      <4> QED
        BY <2>2, <2>3, <4>1 DEF LaterHandlersSeeTheAnswer
    <3> QED
      BY <3>1, <3>2
  <2> QED
    BY <2>3 DEF LaterHandlersSeeTheAnswer
<1>18. ReplacedOutputHasNoData'
  <2>1. "output" \in ToolFields /\ "output" \in Replaced
    BY DEF ToolFields, Replaced
  <2>2. CASE "output" \in r.sets
    <3>1. event \in OutputEvents => Plain(h, "output", r).data = FALSE
      BY DEF Plain
    <3>2. aggregate'["output"] = Plain(h, "output", r)
      BY <1>3, <2>1, <2>2
    <3>3. tool'["output"] # None => tool'["output"] = Plain(h, "output", r)
      BY <1>3, <2>1, <2>2
    <3> QED
      BY <1>1, <3>1, <3>2, <3>3 DEF ReplacedOutputHasNoData
  <2>3. CASE "output" \notin r.sets
    <3>1. tool'["output"] = tool["output"] /\ aggregate'["output"] = aggregate["output"]
      BY <1>3, <2>1, <2>3
    <3>2. (\E i \in DOMAIN log' : "output" \in log'[i].result.sets) =>
              \E i \in DOMAIN log : "output" \in log[i].result.sets
      BY <1>7, <2>3
    <3>3. ReplacedOutputHasNoData
      BY DEF EventIInv
    <3> QED
      BY <1>1, <3>1, <3>2, <3>3 DEF ReplacedOutputHasNoData
  <2> QED
    BY <2>2, <2>3
<1> QED
  BY <1>10, <1>11, <1>12, <1>13, <1>16, <1>17, <1>18 DEF EventIInv

\* A handler that raises drops what was folded.
LEMMA RaisesKeeps == EventIInv /\ Raises => EventIInv'
<1> SUFFICES ASSUME EventIInv, Raises PROVE EventIInv'
  OBVIOUS
<1>1. /\ state = "running" /\ state' = "failed" /\ aggregate' = NoAggregate
      /\ UNCHANGED <<handlers, subscribed, told, event, queue, tool, log, known>>
  BY DEF Raises, Running
<1>2. \A f \in Replaced : aggregate'[f] = None
  BY <1>1 DEF NoAggregate
<1>3. CallTypes'
  <2>1. /\ DOMAIN aggregate' = Replaced \cup Appended
        /\ \A f \in Appended : aggregate'[f] \in Seq(1 .. Len(handlers'))
    BY <1>1 DEF NoAggregate, Replaced, Appended, ToolFields
  <2>2. EventTypeOK'
    BY <1>1, <1>2, <2>1 DEF EventIInv, CallTypes, EventTypeOK
  <2> QED
    BY <1>1, <2>2 DEF EventIInv, CallTypes
<1>4. SubscriptionsCoverHandlers'
  BY <1>1 DEF EventIInv, SubscriptionsCoverHandlers
<1>5. QueueInv'
  <2>1. Mine' = Mine /\ \A k, l : Precedes(k, l)' = Precedes(k, l)
    BY <1>1 DEF Mine, Precedes
  <2> QED
    BY <1>1, <2>1 DEF EventIInv, QueueInv
<1>6. OnlyABlockStops'
  BY <1>1 DEF EventIInv, OnlyABlockStops
<1>7. FoldInv'
  BY <1>1 DEF FoldInv
<1>8. LaterHandlersSeeTheAnswer' /\ ReplacedOutputHasNoData'
  <2>1. \A f \in ToolFields : aggregate'[f] = None
    BY <1>2 DEF Replaced
  <2>2. "output" \in ToolFields /\ aggregate'["output"] = None
    BY <2>1 DEF ToolFields
  <2>3. LaterHandlersSeeTheAnswer'
    BY <2>1 DEF LaterHandlersSeeTheAnswer
  <2>4. ASSUME event \in OutputEvents, \E i \in DOMAIN log : "output" \in log[i].result.sets,
               tool["output"] # None, tool["output"].data
        PROVE tool["output"].by > 0
    BY <2>4 DEF EventIInv, ReplacedOutputHasNoData
  <2>5. ReplacedOutputHasNoData'
    BY <1>1, <2>2, <2>4 DEF ReplacedOutputHasNoData
  <2> QED
    BY <2>3, <2>5
<1> QED
  BY <1>3, <1>4, <1>5, <1>6, <1>7, <1>8 DEF EventIInv

\* An event is answered when nobody is left to run.
LEMMA AnswerKeeps == EventIInv /\ Answer => EventIInv'
<1> SUFFICES ASSUME EventIInv, Answer PROVE EventIInv'
  OBVIOUS
<1>1. /\ state = "running" /\ queue = <<>> /\ state' = "answered"
      /\ UNCHANGED <<handlers, subscribed, told, event, queue, tool, aggregate, log, known>>
  BY DEF Answer
<1>2. CallTypes'
  BY <1>1 DEF EventIInv, CallTypes, EventTypeOK
<1>3. SubscriptionsCoverHandlers'
  BY <1>1 DEF EventIInv, SubscriptionsCoverHandlers
<1>4. Mine' = Mine /\ \A k, l : Precedes(k, l)' = Precedes(k, l)
  BY <1>1 DEF Mine, Precedes
<1>5. QueueInv'
  BY <1>1, <1>4 DEF EventIInv, QueueInv
<1>6. OnlyABlockStops'
  <2>1. \A h \in Mine : \E i \in DOMAIN log : log[i].handler = h
    BY <1>1 DEF EventIInv, QueueInv
  <2>2. \A h \in 1 .. known : handlers[h].event = event => \E i \in DOMAIN log : log[i].handler = h
    BY <2>1 DEF Mine
  <2>3. \A i \in DOMAIN log : log[i].result.block # "truthy"
    BY <1>1 DEF EventIInv, OnlyABlockStops
  <2> QED
    BY <1>1, <2>2, <2>3 DEF OnlyABlockStops
<1>7. FoldInv'
  BY <1>1 DEF EventIInv, FoldInv, Gives, Adds
<1>8. LaterHandlersSeeTheAnswer' /\ ReplacedOutputHasNoData'
  BY <1>1 DEF EventIInv, LaterHandlersSeeTheAnswer, ReplacedOutputHasNoData
<1> QED
  BY <1>2, <1>3, <1>5, <1>6, <1>7, <1>8 DEF EventIInv

\* What is done with tools, commands and shortcuts leaves the events alone.
LEMMA EventUnchangedKeeps == EventIInv /\ UNCHANGED eventVars => EventIInv'
<1> SUFFICES ASSUME EventIInv, UNCHANGED eventVars PROVE EventIInv'
  OBVIOUS
<1>1. UNCHANGED <<handlers, subscribed, told, state, event, queue, tool, aggregate, log, known>>
  BY DEF eventVars, callVars
<1>2. CallTypes' /\ SubscriptionsCoverHandlers'
  <2>1. CallTypes'
    BY <1>1 DEF EventIInv, CallTypes, EventTypeOK
  <2>2. SubscriptionsCoverHandlers'
    BY <1>1 DEF EventIInv, SubscriptionsCoverHandlers
  <2> QED
    BY <2>1, <2>2
<1>3. Mine' = Mine /\ \A k, l : Precedes(k, l)' = Precedes(k, l)
  BY <1>1 DEF Mine, Precedes
<1>4. QueueInv' /\ OnlyABlockStops'
  BY <1>1, <1>3 DEF EventIInv, QueueInv, InOrder, OnlyABlockStops
<1>5. FoldInv' /\ LaterHandlersSeeTheAnswer' /\ ReplacedOutputHasNoData'
  BY <1>1 DEF EventIInv, FoldInv, Gives, Adds, LaterHandlersSeeTheAnswer, ReplacedOutputHasNoData
<1> QED
  BY <1>2, <1>4, <1>5 DEF EventIInv

\* Every step of the extension keeps the invariant of its events.
LEMMA EventStep ==
    ASSUME EventIInv, [ExtensionNext]_extensionVars
    PROVE EventIInv'
<1>1. CASE EventNext
  <2>1. CASE Registers
    BY <2>1, OnKeeps DEF Registers
  <2>2. ASSUME NEW e \in EventNames, NEW withTool \in BOOLEAN, HandleEvent(e, withTool)
        PROVE EventIInv'
    BY <2>2, HandleEventKeeps
  <2>3. ASSUME NEW f \in ToolFields, Edit(f) \/ Assign(f) PROVE EventIInv'
    BY <2>3, EditKeeps, AssignKeeps
  <2>4. ASSUME NEW r \in Results \cup {Nothing}, Returns(r) PROVE EventIInv'
    BY <2>4, RepliesAre, ReturnsKeeps
  <2> QED
    BY <1>1, <2>1, <2>2, <2>3, <2>4, RaisesKeeps, AnswerKeeps DEF EventNext, Handles
<1>2. CASE UNCHANGED eventVars
  BY <1>2, EventUnchangedKeeps
<1>3. CASE Initialize
  BY <1>3, InitializeKeeps
<1> QED
  BY <1>1, <1>2, <1>3
     DEF ExtensionNext, RegistryNext, ExtensionInitialize, extensionVars

\* The invariant gives what the run checks.
LEMMA EventIInvImplies == EventIInv => AnswerInv
<1> SUFFICES ASSUME EventIInv PROVE AnswerInv
  OBVIOUS
<1>1. log \in Seq([handler : 1 .. known, result : Returned]) /\ DOMAIN log \subseteq Int
  BY LenProperties DEF EventIInv, CallTypes
<1>2. RunInPriorityOrder
  <2>1. known \in 0 .. Len(handlers) /\ handlers \in Seq(Handler)
    BY DEF Handler, EventIInv, CallTypes, EventTypeOK
  <2>2. \A i \in DOMAIN log : log[i].handler \in 1 .. known
    BY DEF EventIInv, QueueInv, Mine
  <2>3. \A i \in DOMAIN log : log[i].handler =< known /\ log[i].handler \in 1 .. Len(handlers)
    BY <2>1, <2>2, LenProperties
  <2>4. \A h \in 1 .. Len(handlers) : handlers[h].priority \in Int
    <3>1. ASSUME NEW h \in 1 .. Len(handlers) PROVE handlers[h].priority \in Int
      <4>1. handlers[h] \in Handler
        BY <2>1, ElementOfSeq
      <4>2. handlers[h].priority \in Priorities /\ Priorities \subseteq Int
        BY <4>1, EventAssumption DEF Handler
      <4> DEFINE p == handlers[h].priority
      <4> HIDE DEF p
      <4>3. p \in Int
        BY <4>2 DEF p
      <4> QED
        BY <4>3 DEF p
    <3> QED
      BY <3>1
  <2>5. \A i, j \in DOMAIN log : i < j => Precedes(log[i].handler, log[j].handler)
    BY DEF EventIInv, QueueInv
  <2> QED
    BY <2>3, <2>4, <2>5 DEF RunInPriorityOrder, Precedes
<1>3. LastWriterWins
  <2> SUFFICES ASSUME state = "answered"
               PROVE /\ \A f \in Replaced :
                           LET givers == {i \in DOMAIN log : f \in log[i].result.sets} IN
                           IF givers = {} THEN aggregate[f] = None
                           ELSE aggregate[f].by = log[Max(givers)].handler
                     /\ \A f \in Appended :
                           LET givers == {i \in DOMAIN log : f \in log[i].result.adds} IN
                           /\ ToSet(aggregate[f]) = {log[i].handler : i \in givers}
                           /\ \A j, k \in DOMAIN aggregate[f] : j < k =>
                                 \E i, l \in givers : /\ i < l
                                                     /\ aggregate[f][j] = log[i].handler
                                                     /\ aggregate[f][k] = log[l].handler
    BY DEF LastWriterWins
  <2>1. ASSUME NEW f \in Replaced
        PROVE LET givers == {i \in DOMAIN log : f \in log[i].result.sets} IN
              IF givers = {} THEN aggregate[f] = None
              ELSE aggregate[f].by = log[Max(givers)].handler
    <3> DEFINE givers == {i \in DOMAIN log : f \in log[i].result.sets}
    <3>1. IF aggregate[f] = None THEN givers = {}
          ELSE \E i \in givers : (\A j \in givers : j =< i) /\ aggregate[f].by = log[i].handler
      BY DEF EventIInv, FoldInv, Gives
    <3>2. givers \subseteq Int
      BY <1>1
    <3> HIDE DEF givers
    <3>3. ASSUME NEW i \in givers, \A j \in givers : j =< i PROVE Max(givers) = i
      <4>1. \A j \in givers : i >= j
        BY <3>2, <3>3
      <4> QED
        BY <3>2, <4>1, MaxIs
    <3> QED
      BY <3>1, <3>3 DEF givers
  <2>2. ASSUME NEW f \in Appended
        PROVE LET givers == {i \in DOMAIN log : f \in log[i].result.adds} IN
              /\ ToSet(aggregate[f]) = {log[i].handler : i \in givers}
              /\ \A j, k \in DOMAIN aggregate[f] : j < k =>
                    \E i, l \in givers : /\ i < l
                                        /\ aggregate[f][j] = log[i].handler
                                        /\ aggregate[f][k] = log[l].handler
    <3> DEFINE givers == {i \in DOMAIN log : f \in log[i].result.adds}
               a == aggregate[f]
    <3>1. /\ \A k \in DOMAIN a : \E i \in givers : log[i].handler = a[k]
          /\ \A i \in givers : \E k \in DOMAIN a : a[k] = log[i].handler
          /\ \A j, k \in DOMAIN a : j < k =>
                \E i, l \in givers : i < l /\ a[j] = log[i].handler /\ a[k] = log[l].handler
      BY DEF EventIInv, FoldInv, Adds
    <3> HIDE DEF givers, a
    <3>2. ToSet(a) = {log[i].handler : i \in givers}
      BY <3>1 DEF ToSet
    <3> QED
      BY <3>1, <3>2 DEF givers, a
  <2> QED
    BY <2>1, <2>2
<1> QED
  BY <1>2, <1>3 DEF AnswerInv, EventIInv, CallTypes

\* The answer to an event is the fold of what its handlers returned, in the order of
\* their priorities, up to the first that blocks it, and each handler sees the input
\* and output that it would leave in the answer (api.py:926-1003, 1190-1193); for all
\* events, handlers, priorities and replies.
THEOREM AnswersAreFolds == ExtensionSpec => []AnswerInv
<1>1. ExtensionInit => EventIInv
  BY EventInitHolds DEF ExtensionInit
<1>2. EventIInv /\ [ExtensionNext]_extensionVars => EventIInv'
  BY EventStep
<1> QED
  BY <1>1, <1>2, EventIInvImplies, PTL DEF ExtensionSpec

\* The subscription that the host was told of an event bounds the priority and the
\* timeout of each handler that it stands for (api.py:1048-1078); for all priorities
\* and timeouts.
THEOREM SubscriptionsBound == ExtensionSpec => []SubscriptionsCoverHandlers
<1>1. ExtensionInit => EventIInv
  BY EventInitHolds DEF ExtensionInit
<1>2. EventIInv /\ [ExtensionNext]_extensionVars => EventIInv'
  BY EventStep
<1>3. EventIInv => SubscriptionsCoverHandlers
  BY DEF EventIInv
<1> QED
  BY <1>1, <1>2, <1>3, PTL DEF ExtensionSpec

-----------------------------------------------------------------------------
(* Chords *)

Parts(written) == [i \in DOMAIN written |-> Registry!Canonical(written[i])]
PartSet(written) == ToSet(Parts(written))
Chord(bases) == bases \ {"ctrl", "alt"}

\* The parts of a shortcut are those at its positions.
LEMMA PartsAre ==
    ASSUME NEW v \in Shortcuts
    PROVE /\ Len(v) \in Nat /\ DOMAIN v = 1 .. Len(v) /\ DOMAIN Parts(v) = 1 .. Len(v)
          /\ \A i \in 1 .. Len(v) : Parts(v)[i] = Registry!Canonical(v[i])
          /\ PartSet(v) = {Registry!Canonical(v[i]) : i \in 1 .. Len(v)}
          /\ PartSet(v) = {Registry!Canonical(p) : p \in ToSet(v)}
<1>1. v \in Seq(STRING)
  BY RegistryAssumption
<1>2. Len(v) \in Nat /\ DOMAIN v = 1 .. Len(v)
  BY <1>1, LenProperties
<1> QED
  BY <1>2 DEF Parts, PartSet, ToSet

\* How often a part occurs.
LEMMA CountIs ==
    ASSUME NEW v \in Shortcuts, NEW part
    PROVE /\ Registry!Count(v, part) \in Nat
          /\ (Registry!Count(v, part) = 0) = (part \notin PartSet(v))
          /\ Registry!Count(v, part) =< 1 =>
                \A i, j \in 1 .. Len(v) : Parts(v)[i] = part /\ Parts(v)[j] = part => i = j
          /\ IsInjective(Parts(v)) => Registry!Count(v, part) =< 1
<1> DEFINE S == {i \in DOMAIN v : Registry!Canonical(v[i]) = part}
           n == Len(v)
<1>1. /\ n \in Nat /\ DOMAIN v = 1 .. n /\ DOMAIN Parts(v) = 1 .. n
      /\ \A i \in 1 .. n : Parts(v)[i] = Registry!Canonical(v[i])
      /\ PartSet(v) = {Registry!Canonical(v[i]) : i \in 1 .. n}
  BY PartsAre
<1>2. Registry!Count(v, part) = Cardinality(S)
  BY DEF Registry!Count, Registry!Cardinality, Cardinality
<1>3. \A i : i \in S <=> i \in 1 .. n /\ Parts(v)[i] = part
  BY <1>1
<1>4. (S = {}) = (part \notin PartSet(v))
  BY <1>1
<1> HIDE DEF S, n
<1>5. IsFiniteSet(S) /\ Cardinality(S) \in Nat
  <2>1. IsFiniteSet(1 .. n)
    BY <1>1, FS_Interval
  <2>2. S \in SUBSET (1 .. n)
    BY <1>3
  <2>3. IsFiniteSet(S)
    BY <2>1, <2>2, FS_Subset
  <2> QED
    BY <2>3, FS_CardinalityType
<1>6. (Cardinality(S) = 0) = (S = {})
  BY <1>5, FS_EmptySet
<1>7. Cardinality(S) = 1 => \E x : S = {x}
  BY <1>5, FS_Singleton
<1>8. Cardinality(S) =< 1 => \A i, j \in S : i = j
  <2> SUFFICES ASSUME Cardinality(S) =< 1, NEW i \in S, NEW j \in S PROVE i = j
    OBVIOUS
  <2>1. Cardinality(S) = 0 \/ Cardinality(S) = 1
    BY <1>5
  <2> QED
    BY <1>6, <1>7, <2>1
<1>9. IsInjective(Parts(v)) => Cardinality(S) =< 1
  <2> SUFFICES ASSUME IsInjective(Parts(v)), S # {} PROVE Cardinality(S) =< 1
    BY <1>5, <1>6
  <2>1. PICK x : x \in S
    OBVIOUS
  <2>2. S = {x}
    BY <1>1, <1>3, <2>1 DEF IsInjective
  <2>3. Cardinality(S) = 1
    BY <2>2, FS_Singleton
  <2> QED
    BY <2>3
<1> QED
  BY <1>2, <1>3, <1>4, <1>5, <1>6, <1>8, <1>9 DEF n

\* A shortcut whose parts occur once is the same chord as those with the same parts.
LEMMA SameChordIs ==
    ASSUME NEW v \in Shortcuts, NEW w \in Shortcuts, IsInjective(Parts(w))
    PROVE Registry!SameChord(v, w) = (IsInjective(Parts(v)) /\ PartSet(v) = PartSet(w))
<1> DEFINE C(x, p) == Registry!Count(x, p)
<1>1. {Registry!Canonical(p) : p \in ToSet(v) \cup ToSet(w)} = PartSet(v) \cup PartSet(w)
  BY PartsAre
<1>2. Registry!SameChord(v, w) = \A p \in PartSet(v) \cup PartSet(w) : C(v, p) = C(w, p)
  BY <1>1 DEF Registry!SameChord, Registry!ToSet, ToSet
<1>3. \A p : /\ C(v, p) \in Nat /\ C(w, p) \in Nat /\ C(w, p) =< 1
             /\ (C(v, p) = 0) = (p \notin PartSet(v))
             /\ (C(w, p) = 0) = (p \notin PartSet(w))
             /\ C(v, p) =< 1 =>
                   \A i, j \in 1 .. Len(v) : Parts(v)[i] = p /\ Parts(v)[j] = p => i = j
             /\ IsInjective(Parts(v)) => C(v, p) =< 1
  BY CountIs
<1>4. /\ DOMAIN Parts(v) = 1 .. Len(v)
      /\ \A i \in 1 .. Len(v) : Parts(v)[i] \in PartSet(v)
  BY PartsAre
<1> HIDE DEF C
<1>5. ASSUME \A p \in PartSet(v) \cup PartSet(w) : C(v, p) = C(w, p)
      PROVE IsInjective(Parts(v)) /\ PartSet(v) = PartSet(w)
  <2>1. PartSet(v) = PartSet(w)
    <3>1. ASSUME NEW p \in PartSet(v) \cup PartSet(w) PROVE p \in PartSet(v) /\ p \in PartSet(w)
      <4>1. C(v, p) = C(w, p)
        BY <1>5
      <4> QED
        BY <1>3, <3>1, <4>1
    <3> QED
      BY <3>1
  <2>2. \A p \in PartSet(v) : C(v, p) =< 1
    BY <1>3, <1>5
  <2>3. \A i, j \in 1 .. Len(v) : Parts(v)[i] = Parts(v)[j] => i = j
    BY <1>3, <1>4, <2>2
  <2> QED
    BY <1>4, <2>1, <2>3 DEF IsInjective
<1>6. ASSUME IsInjective(Parts(v)), PartSet(v) = PartSet(w), NEW p \in PartSet(v) \cup PartSet(w)
      PROVE C(v, p) = C(w, p)
  <2>1. C(v, p) # 0 /\ C(w, p) # 0 /\ C(v, p) =< 1 /\ C(w, p) =< 1
    BY <1>3, <1>6
  <2> QED
    BY <1>3, <2>1
<1> QED
  BY <1>2, <1>5, <1>6

\* A combination of parts that a terminal reports, and its key.
Base(set) == CHOOSE b \in Chord(set) : TRUE
Reported(set) ==
    LET modifiers == set \cap {"ctrl", "alt"}  base == Base(set) IN
    /\ \E b \in Chord(set) : Chord(set) = {b}
    /\ \/ base \in FunctionKeys /\ modifiers = {}
       \/ /\ base \in Letters /\ modifiers # {}
          /\ ~ ("ctrl" \in modifiers /\ base \in {"i", "m"})
       \/ base \in Digits /\ modifiers = {"alt"}
Key(set) ==
    (IF "ctrl" \in set THEN <<"ctrl">> ELSE <<>>)
        \o (IF "alt" \in set THEN <<"alt">> ELSE <<>>) \o <<Base(set)>>

\* What a shortcut is called depends on the set of its parts.
LEMMA NormalizeIs ==
    ASSUME NEW v
    PROVE Registry!NormalizeShortcut(v) =
              IF IsInjective(Parts(v)) /\ Reported(PartSet(v)) THEN Key(PartSet(v)) ELSE <<>>
<1>1. /\ "ctrl" \in PartSet(v) \cap {"ctrl", "alt"} <=> "ctrl" \in PartSet(v)
      /\ "alt" \in PartSet(v) \cap {"ctrl", "alt"} <=> "alt" \in PartSet(v)
  OBVIOUS
<1> QED
  BY <1>1 DEF Registry!NormalizeShortcut, Registry!IsInjective, Registry!ToSet, IsInjective,
             ToSet, Reported, Key, Base, Chord, PartSet, Parts

\* Short tuples put together.
LEMMA Tuples ==
    ASSUME NEW a, NEW b, NEW c
    PROVE /\ <<>> \o <<a>> = <<a>> /\ <<a>> \o <<>> = <<a>> /\ <<>> \o <<>> = <<>>
          /\ <<a>> \o <<b>> = <<a, b>> /\ <<a, b>> \o <<c>> = <<a, b, c>>
<1> DEFINE S == {a, b, c}
           x == <<a>>
           y == <<b>>
           z == <<c>>
           xy == <<a, b>>
           xyz == <<a, b, c>>
<1>1. /\ x \in Seq(S) /\ Len(x) = 1 /\ x[1] = a /\ y \in Seq(S) /\ Len(y) = 1 /\ y[1] = b
      /\ z \in Seq(S) /\ Len(z) = 1 /\ z[1] = c
      /\ xy \in Seq(S) /\ Len(xy) = 2 /\ xy[1] = a /\ xy[2] = b
      /\ xyz \in Seq(S) /\ Len(xyz) = 3 /\ xyz[1] = a /\ xyz[2] = b /\ xyz[3] = c
  OBVIOUS
<1> HIDE DEF S, x, y, z, xy, xyz
<1>2. <<>> \o x = x /\ x \o <<>> = x /\ <<>> \o <<>> = <<>>
  <2>1. <<>> \in Seq(S)
    OBVIOUS
  <2> QED
    BY <1>1, <2>1, ConcatEmptySeq
<1>3. x \o y = xy
  <2>1. /\ x \o y \in Seq(S) /\ Len(x \o y) = 2
        /\ \A i \in 1 .. 2 : (x \o y)[i] = IF i <= 1 THEN x[i] ELSE y[i - 1]
    <3>1. /\ x \o y \in Seq(S) /\ Len(x \o y) = Len(x) + Len(y)
          /\ \A i \in 1 .. Len(x) + Len(y) :
                (x \o y)[i] = IF i <= Len(x) THEN x[i] ELSE y[i - Len(x)]
      BY <1>1, ConcatProperties
    <3> QED
      BY <1>1, <3>1
  <2>2. \A i \in 1 .. 2 : (x \o y)[i] = xy[i]
    BY <1>1, <2>1
  <2> QED
    BY <1>1, <2>1, <2>2, SeqEqual
<1>4. xy \o z = xyz
  <2>1. /\ xy \o z \in Seq(S) /\ Len(xy \o z) = 3
        /\ \A i \in 1 .. 3 : (xy \o z)[i] = IF i <= 2 THEN xy[i] ELSE z[i - 2]
    <3>1. /\ xy \o z \in Seq(S) /\ Len(xy \o z) = Len(xy) + Len(z)
          /\ \A i \in 1 .. Len(xy) + Len(z) :
                (xy \o z)[i] = IF i <= Len(xy) THEN xy[i] ELSE z[i - Len(xy)]
      BY <1>1, ConcatProperties
    <3> QED
      BY <1>1, <3>1
  <2>2. \A i \in 1 .. 3 : (xy \o z)[i] = xyz[i]
    BY <1>1, <2>1
  <2> QED
    BY <1>1, <2>1, <2>2, SeqEqual
<1> QED
  BY <1>2, <1>3, <1>4 DEF x, y, z, xy, xyz

\* The key of a combination consists of its parts.
LEMMA KeyIs ==
    ASSUME NEW set, Reported(set)
    PROVE Key(set) \in Registry!Keys /\ Key(set) # <<>> /\ ToSet(Key(set)) = set
<1> DEFINE b == Base(set)
           P == {"ctrl", "alt"} \cup Letters \cup Digits \cup FunctionKeys
<1>1. Chord(set) = {b} /\ b \in P
  <2>1. PICK x \in Chord(set) : Chord(set) = {x}
    BY DEF Reported
  <2>2. b \in Chord(set)
    BY <2>1 DEF Base
  <2> QED
    BY <2>1, <2>2 DEF Reported
<1>2. set = {b} \cup (set \cap {"ctrl", "alt"}) /\ b # "ctrl" /\ b # "alt"
  BY <1>1 DEF Chord
<1> HIDE DEF b
<1>3. \A p \in P, q \in P, r \in P :
         /\ <<p>> \in [1 .. 1 -> P] /\ <<p, q>> \in [1 .. 2 -> P] /\ <<p, q, r>> \in [1 .. 3 -> P]
         /\ ToSet(<<p>>) = {p} /\ ToSet(<<p, q>>) = {p, q} /\ ToSet(<<p, q, r>>) = {p, q, r}
  BY DEF ToSet
<1>4. "ctrl" \in P /\ "alt" \in P
  OBVIOUS
<1> HIDE DEF P
<1>5. \A p \in P, q \in P, r \in P :
         {<<p>>, <<p, q>>, <<p, q, r>>} \subseteq UNION {[1 .. n -> P] : n \in 1 .. 3}
  <2>1. \A n \in {1, 2, 3} : \A s \in [1 .. n -> P] : s \in UNION {[1 .. k -> P] : k \in 1 .. 3}
    OBVIOUS
  <2> QED
    BY <1>3, <2>1
<1>6. Registry!Keys = UNION {[1 .. n -> P] : n \in 1 .. 3}
  BY DEF Registry!Keys, P
<1>7. \/ Key(set) = <<b>> /\ set = {b}
      \/ Key(set) = <<"ctrl", b>> /\ set = {"ctrl", b}
      \/ Key(set) = <<"alt", b>> /\ set = {"alt", b}
      \/ Key(set) = <<"ctrl", "alt", b>> /\ set = {"ctrl", "alt", b}
  <2>1. CASE "ctrl" \notin set /\ "alt" \notin set
    <3>1. Key(set) = <<>> \o <<>> \o <<b>>
      BY <2>1 DEF Key, b
    <3>2. <<>> \o <<>> \o <<b>> = <<b>>
      BY Tuples
    <3> QED
      BY <1>2, <2>1, <3>1, <3>2
  <2>2. CASE "ctrl" \in set /\ "alt" \notin set
    <3>1. Key(set) = <<"ctrl">> \o <<>> \o <<b>>
      BY <2>2 DEF Key, b
    <3>2. <<"ctrl">> \o <<>> \o <<b>> = <<"ctrl", b>>
      BY Tuples
    <3> QED
      BY <1>2, <2>2, <3>1, <3>2
  <2>3. CASE "ctrl" \notin set /\ "alt" \in set
    <3>1. Key(set) = <<>> \o <<"alt">> \o <<b>>
      BY <2>3 DEF Key, b
    <3>2. <<>> \o <<"alt">> \o <<b>> = <<"alt", b>>
      BY Tuples
    <3> QED
      BY <1>2, <2>3, <3>1, <3>2
  <2>4. CASE "ctrl" \in set /\ "alt" \in set
    <3>1. Key(set) = <<"ctrl">> \o <<"alt">> \o <<b>>
      BY <2>4 DEF Key, b
    <3>2. <<"ctrl">> \o <<"alt">> \o <<b>> = <<"ctrl", "alt", b>>
      BY Tuples
    <3> QED
      BY <1>2, <2>4, <3>1, <3>2
  <2> QED
    BY <2>1, <2>2, <2>3, <2>4
<1>8. \A p, q, r : <<p>> # <<>> /\ <<p, q>> # <<>> /\ <<p, q, r>> # <<>>
  OBVIOUS
<1> DEFINE k == Key(set)
<1>9. CASE k = <<b>> /\ set = {b}
  BY <1>1, <1>3, <1>5, <1>6, <1>8, <1>9
<1>10. CASE k = <<"ctrl", b>> /\ set = {"ctrl", b}
  <2>1. ToSet(<<"ctrl", b>>) = {"ctrl", b}
    BY <1>1, <1>3, <1>4
  <2>2. <<"ctrl", b>> \in UNION {[1 .. n -> P] : n \in 1 .. 3}
    BY <1>1, <1>4, <1>5
  <2>3. <<"ctrl", b>> # <<>>
    BY <1>8
  <2> HIDE DEF k
  <2> QED
    BY <1>6, <1>10, <2>1, <2>2, <2>3 DEF k
<1>11. CASE k = <<"alt", b>> /\ set = {"alt", b}
  <2>1. ToSet(<<"alt", b>>) = {"alt", b}
    BY <1>1, <1>3, <1>4
  <2>2. <<"alt", b>> \in UNION {[1 .. n -> P] : n \in 1 .. 3}
    BY <1>1, <1>4, <1>5
  <2>3. <<"alt", b>> # <<>>
    BY <1>8
  <2> HIDE DEF k
  <2> QED
    BY <1>6, <1>11, <2>1, <2>2, <2>3 DEF k
<1>12. CASE k = <<"ctrl", "alt", b>> /\ set = {"ctrl", "alt", b}
  <2>1. ToSet(<<"ctrl", "alt", b>>) = {"ctrl", "alt", b}
    BY DEF ToSet
  <2>2. <<"ctrl", "alt", b>> \in UNION {[1 .. n -> P] : n \in 1 .. 3}
    BY <1>1, <1>4, <1>5
  <2>3. <<"ctrl", "alt", b>> # <<>>
    BY <1>8
  <2> HIDE DEF k
  <2> QED
    BY <1>6, <1>12, <2>1, <2>2, <2>3 DEF k
<1> QED
  BY <1>7, <1>9, <1>10, <1>11, <1>12

\* A chord has the key of a shortcut that was accepted when it is the same chord.
LEMMA ChordsAreKeys ==
    ASSUME NEW v \in Shortcuts, NEW w \in Shortcuts, Registry!NormalizeShortcut(w) # <<>>
    PROVE /\ Registry!NormalizeShortcut(w) \in Registry!Keys
          /\ Registry!SameChord(v, w) =
                (Registry!NormalizeShortcut(v) = Registry!NormalizeShortcut(w))
<1> DEFINE N(x) == Registry!NormalizeShortcut(x)
<1>1. \A x : N(x) = IF IsInjective(Parts(x)) /\ Reported(PartSet(x)) THEN Key(PartSet(x)) ELSE <<>>
  BY NormalizeIs
<1>2. N(w) # <<>>
  OBVIOUS
<1> HIDE DEF N
<1>3. /\ IsInjective(Parts(w)) /\ Reported(PartSet(w)) /\ N(w) = Key(PartSet(w))
  BY <1>1, <1>2
<1>4. N(w) \in Registry!Keys /\ ToSet(N(w)) = PartSet(w)
  BY <1>3, KeyIs
<1>5. Registry!SameChord(v, w) = (IsInjective(Parts(v)) /\ PartSet(v) = PartSet(w))
  BY <1>3, SameChordIs
<1>6. ASSUME N(v) = N(w) PROVE IsInjective(Parts(v)) /\ PartSet(v) = PartSet(w)
  <2>1. IsInjective(Parts(v)) /\ Reported(PartSet(v)) /\ N(v) = Key(PartSet(v))
    BY <1>1, <1>2, <1>6
  <2>2. ToSet(N(v)) = PartSet(v)
    BY <2>1, KeyIs
  <2> QED
    BY <1>4, <1>6, <2>1, <2>2
<1>7. IsInjective(Parts(v)) /\ PartSet(v) = PartSet(w) => N(v) = N(w)
  BY <1>1, <1>3
<1> QED
  BY <1>4, <1>5, <1>6, <1>7 DEF N

-----------------------------------------------------------------------------
(* The invariant of the tables and the calls *)

\* The names that are entered: a blank comes before a word only.
Entered == {n \in Registry!Names : n.form = "bare" \/ (n.form = "blank" /\ n.word # None)}

Command == [primary : Registry!Names, aliases : Seq(Registry!Written), handler : Signatures]
NamesOf(i) == Registry!CommandNames(commands[i].primary, commands[i].aliases)

TablesInv ==
    /\ tools \in [Tools -> Signatures \cup {None}]
    /\ commands \in Seq(Command) /\ Len(commands) =< MaxCommands
    /\ byName \in [Registry!Names -> DOMAIN commands \cup {None}]
    /\ \A i \in DOMAIN commands : \A n \in NamesOf(i) : byName[n] = i
    /\ \A n \in Registry!Names : byName[n] # None => n \in NamesOf(byName[n])
    /\ \A i \in DOMAIN commands : commands[i].primary \in Entered
    /\ advertised \in 0 .. Len(commands)
    /\ profiles \in BOOLEAN /\ submit \in BOOLEAN \cup {None}

ShortcutsInv ==
    \A k \in DOMAIN shortcuts :
        /\ shortcuts[k] \in Shortcuts
        /\ Registry!NormalizeShortcut(shortcuts[k]) = k /\ k # <<>>

\* A call is made with both arguments; when they do not fit, or the body raised a
\* TypeError, it is repeated with as few as the handler requires.
Fits(target, arguments, runs) ==
    \/ arguments = 2 /\ runs = <<>>
    \/ /\ arguments = target.required /\ target.required < 2
       /\ runs = IF Registry!Takes(target, 2) THEN <<"typeError">> ELSE <<>>

\* How the body of a handler has run when its call is answered: not at all, once, or
\* again after a TypeError.
Ends(target, arguments, runs) ==
    LET most == target.required + target.optional
        shortened ==
            target.required < 2 /\ target.optional > 0 /\ arguments = target.required
    IN
    \/ runs = <<>> /\ target.required > 2
    \/ /\ \E value : runs = <<value>>
       /\ target.required =< 2
       /\ \/ arguments = IF most < 2 THEN most ELSE 2
          \/ shortened /\ ~ Registry!Takes(target, 2)
    \/ /\ \E value : runs = <<"typeError", value>>
       /\ Registry!Takes(target, 2) /\ shortened

Kinds == {"tool", "command", "shortcut"}
Callable == Signatures \cup {[required |-> 1, optional |-> 0]}

CallInv ==
    /\ call.state \in {"idle", "calling", "answered"}
    /\ call.state = "calling" =>
          /\ call = Registry!Calling(call.kind, call.handler, call.arguments, call.runs)
          /\ call.kind \in Kinds /\ call.handler \in Callable
          /\ call.arguments \in 0 .. 2 /\ Fits(call.handler, call.arguments, call.runs)
    /\ call.state = "answered" => call.outcome \in Registry!Outcomes
    /\ Registry!SmallHandlersRun /\ Registry!RunsAgainOnlyAfterTypeError

RegistryIInv == TablesInv /\ ShortcutsInv /\ CallInv

\* A name that was written in some form, in another.
LEMMA FormChanged ==
    ASSUME NEW word, NEW other, NEW form
    PROVE Registry!NormalizeCommand([[form |-> other, word |-> word] EXCEPT !.form = form]) =
              [form |-> IF form = "slashBlank" /\ word # None THEN "blank" ELSE "bare",
               word |-> word]
<1> DEFINE w == [[form |-> other, word |-> word] EXCEPT !.form = form]
           f == IF form = "slashBlank" /\ word # None THEN "blank" ELSE "bare"
<1>1. w = [form |-> form, word |-> word]
  OBVIOUS
<1>2. w.form = form /\ w.word = word
  BY <1>1
<1> HIDE DEF w
<1>3. Registry!NormalizeCommand(w) = [w EXCEPT !.form = f]
  BY <1>1, <1>2 DEF Registry!NormalizeCommand
<1> HIDE DEF f
<1>4. [w EXCEPT !.form = f] = [form |-> f, word |-> word]
  BY <1>1
<1> QED
  BY <1>3, <1>4 DEF w, f

\* A written name is normalized to one that is registered.
LEMMA NormalizedIs ==
    ASSUME NEW w \in Registry!Written
    PROVE /\ Registry!NormalizeCommand(w) \in Registry!Names
          /\ Registry!NormalizeCommand(w) \in Entered
          /\ Registry!NormalizeCommand(w) =
                [form |-> IF w.form = "slashBlank" /\ w.word # None THEN "blank" ELSE "bare",
                 word |-> w.word]
<1> DEFINE f == IF w.form = "slashBlank" /\ w.word # None THEN "blank" ELSE "bare"
<1>1. w = [form |-> w.form, word |-> w.word] /\ w.word \in Words
  BY DEF Registry!Written
<1>2. Registry!NormalizeCommand(w) = [w EXCEPT !.form = f]
  BY <1>1 DEF Registry!NormalizeCommand
<1>3. f \in {"bare", "blank"} /\ (f = "blank" => w.word # None)
  OBVIOUS
<1> HIDE DEF f
<1>4. Registry!NormalizeCommand(w) = [form |-> f, word |-> w.word]
  BY <1>1, <1>2
<1>5. [form |-> f, word |-> w.word] \in Registry!Names
  BY <1>1, <1>3 DEF Registry!Names
<1>6. [form |-> f, word |-> w.word] \in Entered
  BY <1>3, <1>5 DEF Entered
<1> QED
  BY <1>4, <1>5, <1>6 DEF f

\* Nothing was registered or called when the extension starts.
LEMMA RegistryInitHolds == Registry!Init => RegistryIInv
<1> SUFFICES ASSUME Registry!Init PROVE RegistryIInv
  OBVIOUS
<1> USE DEF Registry!Init
<1>1. TablesInv
  <2>1. commands \in Seq(Command) /\ Len(commands) = 0 /\ DOMAIN commands = {}
    OBVIOUS
  <2>2. Len(commands) =< MaxCommands /\ advertised \in 0 .. Len(commands)
    BY <2>1, RegistryAssumption
  <2>3. \A n \in Registry!Names : byName[n] = None
    OBVIOUS
  <2> QED
    BY <2>1, <2>2, <2>3 DEF TablesInv
<1>2. ShortcutsInv
  BY DEF ShortcutsInv
<1>3. CallInv
  <2>1. call.state = "idle"
    BY DEF Registry!Idle
  <2> QED
    BY <2>1 DEF CallInv, Registry!SmallHandlersRun, Registry!RunsAgainOnlyAfterTypeError
<1> QED
  BY <1>1, <1>2, <1>3 DEF RegistryIInv

\* A tool fills the place of its name.
LEMMA RegisterToolKeeps ==
    ASSUME RegistryIInv, NEW n \in Tools, NEW h \in Signatures, Registry!RegisterTool(n, h)
    PROVE RegistryIInv'
<1>1. /\ tools' = [tools EXCEPT ![n] = h]
      /\ UNCHANGED <<commands, byName, shortcuts, profiles, submit, advertised, call>>
  BY DEF Registry!RegisterTool, Registry!hostVars
<1>2. TablesInv'
  BY <1>1 DEF RegistryIInv, TablesInv, NamesOf
<1>3. ShortcutsInv' /\ CallInv'
  BY <1>1 DEF RegistryIInv, ShortcutsInv, CallInv, Registry!SmallHandlersRun,
              Registry!RunsAgainOnlyAfterTypeError
<1> QED
  BY <1>2, <1>3 DEF RegistryIInv

\* A command takes names that nobody has.
LEMMA RegisterCommandKeeps ==
    ASSUME RegistryIInv, NEW w \in Registry!Written, NEW a \in Registry!SeqOf(Registry!Written, 2),
           NEW h \in Signatures, Registry!RegisterCommand(w, a, h)
    PROVE RegistryIInv'
<1> DEFINE name == Registry!NormalizeCommand(w)
           names == Registry!CommandNames(name, a)
           new == [primary |-> name, aliases |-> a, handler |-> h]
           n == Len(commands)
<1>1. /\ n < MaxCommands /\ \A x \in names : byName[x] = None
      /\ commands' = Append(commands, new)
      /\ byName' = [x \in Registry!Names |-> IF x \in names THEN n + 1 ELSE byName[x]]
      /\ UNCHANGED <<tools, shortcuts, profiles, submit, advertised, call>>
  BY DEF Registry!RegisterCommand, Registry!hostVars
<1>2. TablesInv
  BY DEF RegistryIInv
<1>3. a \in Seq(Registry!Written)
  <2>1. PICK m \in 0 .. 2 : a \in [1 .. m -> Registry!Written]
    BY DEF Registry!SeqOf
  <2> QED
    BY <2>1, SeqDef
<1>4. /\ name \in Registry!Names
      /\ \A i \in DOMAIN a : Registry!NormalizeCommand(a[i]) \in Registry!Names
  <2>1. \A i \in DOMAIN a : a[i] \in Registry!Written
    BY <1>3
  <2> QED
    BY <2>1, NormalizedIs
<1>5. names \subseteq Registry!Names
  BY <1>4 DEF Registry!CommandNames
<1>6. new \in Command /\ new.primary = name /\ new.aliases = a
  BY <1>3, <1>4 DEF Command
<1>7. name \in Entered
  BY NormalizedIs
<1> HIDE DEF name, names, new, n
<1>8. /\ commands' \in Seq(Command) /\ n \in Nat /\ Len(commands') = n + 1
      /\ DOMAIN commands = 1 .. n /\ DOMAIN commands' = 1 .. n + 1
      /\ \A i \in 1 .. n : commands'[i] = commands[i]
      /\ commands'[n + 1] = new
  <2>1. commands \in Seq(Command)
    BY <1>2 DEF TablesInv
  <2>2. /\ commands' \in Seq(Command) /\ Len(commands') = n + 1
        /\ \A i \in 1 .. n : commands'[i] = commands[i]
        /\ commands'[n + 1] = new
    BY <1>1, <1>6, <2>1, AppendProperties DEF n
  <2>3. n \in Nat /\ DOMAIN commands = 1 .. n /\ DOMAIN commands' = 1 .. Len(commands')
    BY <2>1, <2>2, LenProperties DEF n
  <2> QED
    BY <2>2, <2>3
<1> DEFINE Of(i) == Registry!CommandNames(commands'[i].primary, commands'[i].aliases)
<1>9. \A i \in 1 .. n : Of(i) = NamesOf(i)
  BY <1>8 DEF NamesOf
<1>10. Of(n + 1) = names
  BY <1>6, <1>8 DEF names
<1>11. \A i \in DOMAIN commands' : i \in 1 .. n \/ i = n + 1
  BY <1>8
<1> HIDE DEF Of
<1>12. None \notin Nat /\ \A x \in Registry!Names : byName[x] \in 1 .. n \cup {None}
  BY <1>2, <1>8, EventAssumption DEF TablesInv
<1>13. byName' \in [Registry!Names -> DOMAIN commands' \cup {None}]
  BY <1>1, <1>8, <1>12
<1>14. \A i \in DOMAIN commands' : \A x \in Of(i) : byName'[x] = i
  <2> SUFFICES ASSUME NEW i \in DOMAIN commands', NEW x \in Of(i) PROVE byName'[x] = i
    OBVIOUS
  <2>1. CASE i = n + 1
    BY <1>1, <1>5, <1>10, <2>1
  <2>2. CASE i \in 1 .. n
    <3>1. x \in NamesOf(i) /\ byName[x] = i
      BY <1>2, <1>8, <1>9, <2>2 DEF TablesInv
    <3>2. x \notin names
      BY <1>1, <1>8, <1>12, <2>2, <3>1
    <3>3. x \in Registry!Names
      <4>1. commands[i] \in Command
        BY <1>2, <1>8, <2>2, ElementOfSeq DEF TablesInv, n
      <4>2. commands[i].primary \in Registry!Names /\ commands[i].aliases \in Seq(Registry!Written)
        BY <4>1 DEF Command
      <4>3. \A j \in DOMAIN commands[i].aliases :
               Registry!NormalizeCommand(commands[i].aliases[j]) \in Registry!Names
        <5>1. \A j \in DOMAIN commands[i].aliases : commands[i].aliases[j] \in Registry!Written
          BY <4>2
        <5> QED
          BY <5>1, NormalizedIs
      <4> QED
        BY <3>1, <4>2, <4>3 DEF NamesOf, Registry!CommandNames
    <3> QED
      BY <1>1, <3>1, <3>2, <3>3
  <2> QED
    BY <1>11, <2>1, <2>2
<1>15. \A x \in Registry!Names : byName'[x] # None => x \in Of(byName'[x])
  <2> SUFFICES ASSUME NEW x \in Registry!Names, byName'[x] # None PROVE x \in Of(byName'[x])
    OBVIOUS
  <2>1. CASE x \in names
    BY <1>1, <1>10, <2>1
  <2>2. CASE x \notin names
    <3>1. byName'[x] = byName[x] /\ byName[x] \in 1 .. n
      BY <1>1, <1>12, <2>2
    <3>2. x \in NamesOf(byName[x])
      BY <1>2, <3>1 DEF TablesInv
    <3> QED
      BY <1>9, <3>1, <3>2
  <2> QED
    BY <2>1, <2>2
<1>16. \A i \in DOMAIN commands' : commands'[i].primary \in Entered
  BY <1>2, <1>6, <1>7, <1>8, <1>11 DEF TablesInv
<1>17. Len(commands') =< MaxCommands /\ advertised' \in 0 .. Len(commands')
  <2>1. advertised \in 0 .. n /\ MaxCommands \in Nat
    BY <1>2, RegistryAssumption DEF TablesInv, n
  <2> QED
    BY <1>1, <1>8, <2>1
<1>18. TablesInv'
  BY <1>1, <1>2, <1>8, <1>13, <1>14, <1>15, <1>16, <1>17 DEF TablesInv, NamesOf, Of
<1>19. ShortcutsInv' /\ CallInv'
  BY <1>1 DEF RegistryIInv, ShortcutsInv, CallInv, Registry!SmallHandlersRun,
              Registry!RunsAgainOnlyAfterTypeError
<1> QED
  BY <1>18, <1>19 DEF RegistryIInv

\* A shortcut is entered under its key.
LEMMA RegisterShortcutKeeps ==
    ASSUME RegistryIInv, NEW w \in Shortcuts, Registry!RegisterShortcut(w)
    PROVE RegistryIInv'
<1> DEFINE key == Registry!NormalizeShortcut(w)
<1>1. /\ key # <<>>
      /\ shortcuts' = [k \in DOMAIN shortcuts \cup {key} |-> IF k = key THEN w ELSE shortcuts[k]]
      /\ UNCHANGED <<tools, commands, byName, profiles, submit, advertised, call>>
  BY DEF Registry!RegisterShortcut, Registry!hostVars
<1>2. ShortcutsInv'
  <2>1. \A k \in DOMAIN shortcuts' :
           \/ k = key /\ shortcuts'[k] = w
           \/ k \in DOMAIN shortcuts /\ shortcuts'[k] = shortcuts[k]
    BY <1>1
  <2> QED
    BY <1>1, <2>1 DEF RegistryIInv, ShortcutsInv
<1>3. TablesInv' /\ CallInv'
  BY <1>1 DEF RegistryIInv, TablesInv, NamesOf, CallInv, Registry!SmallHandlersRun,
              Registry!RunsAgainOnlyAfterTypeError
<1> QED
  BY <1>2, <1>3 DEF RegistryIInv

\* A declared profile changes nothing else.
LEMMA RegisterProfileKeeps == RegistryIInv /\ Registry!RegisterProfile => RegistryIInv'
<1> SUFFICES ASSUME RegistryIInv, Registry!RegisterProfile PROVE RegistryIInv'
  OBVIOUS
<1>1. profiles' = TRUE /\ UNCHANGED <<tools, commands, byName, shortcuts, submit, advertised, call>>
  BY DEF Registry!RegisterProfile, Registry!hostVars
<1>2. TablesInv'
  BY <1>1 DEF RegistryIInv, TablesInv, NamesOf
<1>3. ShortcutsInv' /\ CallInv'
  BY <1>1 DEF RegistryIInv, ShortcutsInv, CallInv, Registry!SmallHandlersRun,
              Registry!RunsAgainOnlyAfterTypeError
<1> QED
  BY <1>2, <1>3 DEF RegistryIInv

\* The host is told of all commands.
LEMMA TellHostKeeps ==
    ASSUME RegistryIInv, NEW remote \in BOOLEAN, NEW takesSubmit \in BOOLEAN,
           Registry!Initialize(remote, takesSubmit)
    PROVE RegistryIInv'
<1>1. /\ submit' = takesSubmit /\ advertised' = Len(commands)
      /\ UNCHANGED <<tools, commands, byName, shortcuts, profiles, call>>
  BY DEF Registry!Initialize, Registry!tableVars
<1>2. TablesInv'
  <2>1. advertised' \in 0 .. Len(commands')
    <3>1. commands \in Seq(Command)
      BY DEF RegistryIInv, TablesInv
    <3>2. Len(commands) \in Nat
      BY <3>1, LenProperties
    <3> QED
      BY <1>1, <3>2
  <2> QED
    BY <1>1, <2>1 DEF RegistryIInv, TablesInv, NamesOf
<1>3. ShortcutsInv' /\ CallInv'
  BY <1>1 DEF RegistryIInv, ShortcutsInv, CallInv, Registry!SmallHandlersRun,
              Registry!RunsAgainOnlyAfterTypeError
<1> QED
  BY <1>2, <1>3 DEF RegistryIInv

\* A handler that can be called requires a number of parameters.
LEMMA CallableIs ==
    ASSUME NEW target \in Callable
    PROVE /\ target.required \in Nat /\ target.optional \in Nat
          /\ target \in Signatures \/ (target.required = 1 /\ target.optional = 0)
  BY RegistryAssumption DEF Callable

\* A call that is made, or repeated, with arguments that are due.
LEMMA CallStarts ==
    ASSUME NEW kind \in Kinds, NEW target \in Callable, NEW arguments \in 0 .. 2,
           NEW runs, Fits(target, arguments, runs),
           call' = Registry!Calling(kind, target, arguments, runs)
    PROVE CallInv'
<1>1. /\ call'.state = "calling" /\ call'.kind = kind /\ call'.handler = target
      /\ call'.arguments = arguments /\ call'.runs = runs
  BY DEF Registry!Calling
<1>2. Len(runs) =< 1
  <2>1. CASE runs = <<>>
    BY <2>1
  <2>2. CASE runs = <<"typeError">>
    <3>1. Len(<<"typeError">>) = 1
      OBVIOUS
    <3> QED
      BY <2>2, <3>1
  <2> QED
    BY <2>1, <2>2 DEF Fits
<1>3. Registry!SmallHandlersRun' /\ Registry!RunsAgainOnlyAfterTypeError'
  BY <1>1, <1>2 DEF Registry!SmallHandlersRun, Registry!RunsAgainOnlyAfterTypeError
<1> QED
  BY <1>1, <1>3 DEF CallInv

\* A call that finds none is answered without a run.
LEMMA CallFails ==
    ASSUME NEW outcome \in Registry!Outcomes, call' = Registry!NotCalled(outcome)
    PROVE CallInv'
<1>1. /\ call'.state = "answered" /\ call'.outcome = outcome /\ call'.handler = None
      /\ call'.runs = <<>>
  BY DEF Registry!NotCalled
<1>2. Registry!SmallHandlersRun' /\ Registry!RunsAgainOnlyAfterTypeError'
  BY <1>1 DEF Registry!SmallHandlersRun, Registry!RunsAgainOnlyAfterTypeError
<1> QED
  BY <1>1, <1>2 DEF CallInv

\* A call that was made is answered.
LEMMA CallEnds ==
    ASSUME NEW outcome \in Registry!Outcomes, NEW c,
           call' = Registry!Answered(c, outcome),
           c.handler \in Callable, Ends(c.handler, c.arguments, c.runs)
    PROVE CallInv'
<1> DEFINE h == c.handler
           a == c.arguments
           r == c.runs
           most == h.required + h.optional
           shortened == h.required < 2 /\ h.optional > 0 /\ a = h.required
<1>1. /\ call'.state = "answered" /\ call'.outcome = outcome /\ call'.handler = h
      /\ call'.runs = r /\ call'.arguments = a
  BY DEF Registry!Answered
<1>2. h.required \in Nat /\ h.optional \in Nat
  BY CallableIs
<1>3. \/ r = <<>> /\ h.required > 2
      \/ /\ \E value : r = <<value>>
         /\ h.required =< 2
         /\ a = (IF most < 2 THEN most ELSE 2) \/ (shortened /\ ~ Registry!Takes(h, 2))
      \/ /\ \E value : r = <<"typeError", value>>
         /\ Registry!Takes(h, 2) /\ shortened
  BY DEF Ends
<1> HIDE DEF h, a, r
<1>4. /\ r = <<>> <=> h.required > 2
      /\ r # <<>> =>
            \/ a = IF most < 2 THEN most ELSE 2
            \/ shortened /\ (Registry!Takes(h, 2) => Len(r) = 2)
  <2>1. CASE r = <<>> /\ h.required > 2
    BY <2>1
  <2>2. ASSUME NEW value, r = <<value>>, h.required =< 2,
               \/ a = (IF most < 2 THEN most ELSE 2)
               \/ shortened /\ ~ Registry!Takes(h, 2)
        PROVE /\ r = <<>> <=> h.required > 2
              /\ r # <<>> =>
                    \/ a = IF most < 2 THEN most ELSE 2
                    \/ shortened /\ (Registry!Takes(h, 2) => Len(r) = 2)
    <3>1. r # <<>> /\ ~ (h.required > 2)
      BY <1>2, <2>2
    <3> QED
      BY <2>2, <3>1
  <2>3. ASSUME NEW value, r = <<"typeError", value>>, Registry!Takes(h, 2), shortened
        PROVE /\ r = <<>> <=> h.required > 2
              /\ r # <<>> =>
                    \/ a = IF most < 2 THEN most ELSE 2
                    \/ shortened /\ (Registry!Takes(h, 2) => Len(r) = 2)
    <3>1. r # <<>> /\ Len(r) = 2 /\ ~ (h.required > 2)
      BY <1>2, <2>3
    <3> QED
      BY <2>3, <3>1
  <2> QED
    BY <1>3, <2>1, <2>2, <2>3
<1>5. \/ Len(r) =< 1
      \/ Len(r) = 2 /\ r[1] = "typeError" /\ Registry!Takes(h, 2) /\ shortened
  <2>1. CASE r = <<>>
    <3>1. Len(r) = 0
      BY <2>1
    <3> QED
      BY <3>1
  <2>2. ASSUME NEW value, r = <<value>> PROVE Len(r) =< 1
    <3>1. Len(r) = 1
      BY <2>2
    <3> QED
      BY <3>1
  <2>3. ASSUME NEW value, r = <<"typeError", value>> PROVE Len(r) = 2 /\ r[1] = "typeError"
    BY <2>3
  <2> QED
    BY <1>3, <2>1, <2>2, <2>3
<1>6. Registry!Shortened(call)' <=> shortened
  BY <1>1 DEF Registry!Shortened
<1>7. Registry!Takes(call.handler, 2)' <=> Registry!Takes(h, 2)
  BY <1>1 DEF Registry!Takes
<1>8. Registry!SmallHandlersRun'
  BY <1>1, <1>4, <1>6, <1>7 DEF Registry!SmallHandlersRun
<1>9. Registry!RunsAgainOnlyAfterTypeError'
  BY <1>1, <1>5, <1>6, <1>7 DEF Registry!RunsAgainOnlyAfterTypeError
<1> QED
  BY <1>1, <1>8, <1>9 DEF CallInv

\* What calls leave alone.
LEMMA TablesUnchanged ==
    ASSUME RegistryIInv,
           UNCHANGED <<tools, commands, byName, shortcuts, profiles, submit, advertised>>
    PROVE TablesInv' /\ ShortcutsInv'
<1>1. TablesInv'
  BY DEF RegistryIInv, TablesInv, NamesOf
<1>2. ShortcutsInv'
  BY DEF RegistryIInv, ShortcutsInv
<1> QED
  BY <1>1, <1>2

\* The outcomes of a call.
LEMMA OutcomesAre ==
    /\ \A outcome \in {"unknown", "invalid", "pass", "typeError", "unsupported"} :
          outcome \in Registry!Outcomes
    /\ \A kind, value : value \in {"value", "nothing", "error", "typeError"} =>
          Registry!Result(kind, value) \in Registry!Outcomes
  BY DEF Registry!Outcomes, Registry!Result

\* The host calls a tool.
LEMMA ExecuteToolKeeps ==
    ASSUME RegistryIInv, NEW n \in Tools, NEW valid \in BOOLEAN, Registry!ExecuteTool(n, valid)
    PROVE RegistryIInv'
<1>1. /\ call' = IF tools[n] = None THEN Registry!NotCalled("unknown")
                 ELSE IF ~ valid THEN Registry!NotCalled("invalid")
                 ELSE Registry!Calling("tool", tools[n], 2, <<>>)
      /\ UNCHANGED <<tools, commands, byName, shortcuts, profiles, submit, advertised>>
  BY DEF Registry!ExecuteTool, Registry!tableVars, Registry!hostVars
<1>2. CASE call' = Registry!NotCalled("unknown") \/ call' = Registry!NotCalled("invalid")
  <2>1. CallInv'
    BY <1>2, OutcomesAre, CallFails
  <2> QED
    BY <1>1, <2>1, TablesUnchanged DEF RegistryIInv
<1>3. CASE tools[n] # None /\ call' = Registry!Calling("tool", tools[n], 2, <<>>)
  <2>1. tools[n] \in Callable /\ "tool" \in Kinds /\ 2 \in 0 .. 2
    BY <1>3 DEF RegistryIInv, TablesInv, Callable, Kinds
  <2>2. Fits(tools[n], 2, <<>>)
    BY DEF Fits
  <2>3. CallInv'
    BY <1>3, <2>1, <2>2, CallStarts
  <2> QED
    BY <1>1, <2>3, TablesUnchanged DEF RegistryIInv
<1> QED
  BY <1>1, <1>2, <1>3

\* The host calls a command.
LEMMA ExecuteCommandKeeps ==
    ASSUME RegistryIInv, NEW w \in Registry!Written, NEW valid \in BOOLEAN,
           Registry!ExecuteCommand(w, valid)
    PROVE RegistryIInv'
<1> DEFINE found == byName[Registry!NormalizeCommand(w)]
           target == commands[found].handler
<1>1. /\ call' = IF found = None THEN Registry!NotCalled("unknown")
                 ELSE IF ~ valid THEN Registry!NotCalled("pass")
                 ELSE Registry!Calling("command", target, 2, <<>>)
      /\ UNCHANGED <<tools, commands, byName, shortcuts, profiles, submit, advertised>>
  BY DEF Registry!ExecuteCommand, Registry!tableVars, Registry!hostVars
<1>2. CASE call' = Registry!NotCalled("unknown") \/ call' = Registry!NotCalled("pass")
  <2>1. CallInv'
    BY <1>2, OutcomesAre, CallFails
  <2> QED
    BY <1>1, <2>1, TablesUnchanged DEF RegistryIInv
<1>3. CASE found # None /\ call' = Registry!Calling("command", target, 2, <<>>)
  <2>1. target \in Signatures
    <3>1. found \in DOMAIN commands /\ commands \in Seq(Command)
      BY <1>3, NormalizedIs DEF RegistryIInv, TablesInv
    <3> HIDE DEF found
    <3>2. commands[found] \in Command
      BY <3>1, LenProperties, ElementOfSeq
    <3> QED
      BY <3>2 DEF Command
  <2> HIDE DEF target
  <2>2. target \in Callable /\ "command" \in Kinds /\ 2 \in 0 .. 2
    BY <2>1 DEF Callable, Kinds
  <2>3. Fits(target, 2, <<>>)
    BY DEF Fits
  <2>4. CallInv'
    BY <1>3, <2>2, <2>3, CallStarts
  <2> QED
    BY <1>1, <2>4, TablesUnchanged DEF RegistryIInv
<1> QED
  BY <1>1, <1>2, <1>3

\* The host calls a shortcut.
LEMMA ExecuteShortcutKeeps ==
    ASSUME RegistryIInv, NEW w \in Shortcuts, Registry!ExecuteShortcut(w)
    PROVE RegistryIInv'
<1> DEFINE target == [required |-> 1, optional |-> 0]
<1>1. /\ \/ call' = Registry!NotCalled("unknown")
         \/ call' = Registry!Calling("shortcut", target, 1, <<>>)
      /\ UNCHANGED <<tools, commands, byName, shortcuts, profiles, submit, advertised>>
  BY DEF Registry!ExecuteShortcut, Registry!tableVars, Registry!hostVars
<1>2. CASE call' = Registry!NotCalled("unknown")
  <2>1. CallInv'
    BY <1>2, OutcomesAre, CallFails
  <2> QED
    BY <1>1, <2>1, TablesUnchanged DEF RegistryIInv
<1>3. CASE call' = Registry!Calling("shortcut", target, 1, <<>>)
  <2>1. target \in Callable /\ "shortcut" \in Kinds /\ 1 \in 0 .. 2
    BY DEF Callable, Kinds
  <2>2. Fits(target, 1, <<>>)
    BY DEF Fits, Registry!Takes
  <2> HIDE DEF target
  <2>3. CallInv'
    BY <1>3, <2>1, <2>2, CallStarts
  <2> QED
    BY <1>1, <2>3, TablesUnchanged DEF RegistryIInv
<1> QED
  BY <1>1, <1>2, <1>3

\* The fields of a call, and of one whose body ran.
LEMMA CallFields ==
    ASSUME CallInv, call.state = "calling", NEW value
    PROVE /\ call.kind \in Kinds /\ call.handler \in Callable
          /\ call.arguments \in 0 .. 2
          /\ Fits(call.handler, call.arguments, call.runs)
          /\ [call EXCEPT !.runs = Append(@, value)] =
                Registry!Calling(call.kind, call.handler, call.arguments,
                                 Append(call.runs, value))
<1>1. /\ call.kind \in Kinds /\ call.handler \in Callable
      /\ call.arguments \in 0 .. 2
      /\ Fits(call.handler, call.arguments, call.runs)
      /\ call = Registry!Calling(call.kind, call.handler, call.arguments, call.runs)
  BY DEF CallInv
<1> DEFINE k == call.kind
           h == call.handler
           a == call.arguments
           r == call.runs
           s == Append(r, value)
<1>2. call = [state |-> "calling", kind |-> k, handler |-> h, arguments |-> a, runs |-> r]
  BY <1>1 DEF Registry!Calling
<1>3. [call EXCEPT !.runs = Append(@, value)] = [call EXCEPT !.runs = s]
  OBVIOUS
<1> HIDE DEF k, h, a, r, s
<1>4. [call EXCEPT !.runs = s] =
          [state |-> "calling", kind |-> k, handler |-> h, arguments |-> a, runs |-> s]
  BY <1>2
<1> QED
  BY <1>1, <1>3, <1>4 DEF Registry!Calling, k, h, a, r, s

\* What is appended to one element makes two.
LEMMA AppendedIs ==
    ASSUME NEW u, NEW v
    PROVE Append(<<u>>, v) = <<u, v>>
<1> DEFINE s == <<u>>
           t == <<u, v>>
<1>1. s \in Seq({u, v}) /\ Len(s) = 1 /\ s[1] = u
  OBVIOUS
<1>2. t \in Seq({u, v}) /\ Len(t) = 2 /\ t[1] = u /\ t[2] = v
  OBVIOUS
<1> HIDE DEF s, t
<1>3. /\ Append(s, v) \in Seq({u, v}) /\ Len(Append(s, v)) = 2
      /\ Append(s, v)[1] = u /\ Append(s, v)[2] = v
  <2> DEFINE S == {u, v}
  <2>1. s \in Seq(S) /\ v \in S
    BY <1>1
  <2> HIDE DEF S
  <2>2. /\ Append(s, v) \in Seq(S) /\ Len(Append(s, v)) = Len(s) + 1
        /\ \A i \in 1 .. Len(s) : Append(s, v)[i] = s[i]
        /\ Append(s, v)[Len(s) + 1] = v
    BY <2>1, AppendProperties
  <2>3. Len(s) = 1 /\ s[1] = u
    BY <1>1
  <2> QED
    BY <2>2, <2>3 DEF S
<1> DEFINE a == Append(s, v)
<1>4. a \in Seq({u, v}) /\ Len(a) = Len(t)
  BY <1>2, <1>3
<1>5. ASSUME NEW i \in 1 .. Len(a) PROVE a[i] = t[i]
  <2>1. i = 1 \/ i = 2
    BY <1>3
  <2> QED
    BY <1>2, <1>3, <2>1
<1> HIDE DEF a
<1>6. a = t
  BY <1>2, <1>4, <1>5, SeqEqual
<1> QED
  BY <1>6 DEF a, s, t

\* A body that ran is run again after its TypeError, or has ended the call.
LEMMA RunFits ==
    ASSUME NEW target \in Callable, NEW arguments \in 0 .. 2, NEW runs, NEW value,
           Fits(target, arguments, runs), Registry!Takes(target, arguments)
    PROVE \/ /\ value = "typeError" /\ arguments = 2 /\ target.required < 2
             /\ Fits(target, target.required, Append(runs, value))
          \/ /\ ~ (value = "typeError" /\ arguments = 2 /\ target.required < 2)
             /\ Ends(target, arguments, Append(runs, value))
<1> DEFINE q == target.required
           o == target.optional
<1>1. q \in Nat /\ o \in Nat
  BY CallableIs
<1>2. \A n : Registry!Takes(target, n) <=> n \in q .. q + o
  BY DEF Registry!Takes
<1>3. CASE arguments = 2 /\ runs = <<>>
  <2>1. Append(runs, value) = <<value>>
    BY <1>3
  <2>2. 2 \in q .. q + o
    BY <1>2, <1>3
  <2>3. q =< 2 /\ q + o >= 2
    BY <1>1, <2>2
  <2>4. CASE value = "typeError" /\ q < 2
    BY <1>3, <2>1, <2>4 DEF Fits
  <2>5. CASE ~ (value = "typeError" /\ q < 2)
    <3>1. Ends(target, arguments, Append(runs, value))
      BY <1>1, <1>3, <2>1, <2>3 DEF Ends
    <3> QED
      BY <2>5, <3>1
  <2> QED
    BY <2>4, <2>5
<1>4. CASE arguments = q /\ q < 2 /\ runs = <<>> /\ ~ Registry!Takes(target, 2)
  <2>1. Append(runs, value) = <<value>>
    BY <1>4
  <2>2. q + o < 2
    BY <1>1, <1>2, <1>4
  <2>3. Ends(target, arguments, Append(runs, value))
    BY <1>1, <1>4, <2>1, <2>2 DEF Ends
  <2> QED
    BY <1>4, <2>3
<1>5. CASE arguments = q /\ q < 2 /\ runs = <<"typeError">> /\ Registry!Takes(target, 2)
  <2>1. Append(runs, value) = <<"typeError", value>>
    BY <1>5, AppendedIs
  <2>2. o > 0
    BY <1>1, <1>2, <1>5
  <2>3. Ends(target, arguments, Append(runs, value))
    BY <1>5, <2>1, <2>2 DEF Ends
  <2> QED
    BY <1>5, <2>3
<1> QED
  BY <1>3, <1>4, <1>5 DEF Fits

\* Arguments that do not fit are both of them: the call is repeated with fewer, or the
\* handler requires more.
LEMMA WrongFits ==
    ASSUME NEW target \in Callable, NEW arguments \in 0 .. 2, NEW runs,
           Fits(target, arguments, runs), ~ Registry!Takes(target, arguments)
    PROVE /\ arguments = 2
          /\ target.required < 2 => Fits(target, target.required, runs)
          /\ ~ (target.required < 2) => Ends(target, arguments, runs)
<1> DEFINE q == target.required
           o == target.optional
<1>1. q \in Nat /\ o \in Nat
  BY CallableIs
<1>2. \A n : Registry!Takes(target, n) <=> n \in q .. q + o
  BY DEF Registry!Takes
<1>3. arguments # q
  BY <1>1, <1>2
<1>4. arguments = 2 /\ runs = <<>>
  BY <1>3 DEF Fits
<1>5. q < 2 => Fits(target, q, runs)
  BY <1>4 DEF Fits
<1>6. ~ (q < 2) => Ends(target, arguments, runs)
  BY <1>1, <1>3, <1>4 DEF Ends
<1> QED
  BY <1>4, <1>5, <1>6

\* The body of a handler ran.
LEMMA BodyKeeps ==
    ASSUME RegistryIInv, NEW value \in {"value", "nothing", "error", "typeError"},
           Registry!Body(value)
    PROVE RegistryIInv'
<1> DEFINE k == call.kind
           h == call.handler
           a == call.arguments
           s == Append(call.runs, value)
           ran == Registry!Calling(k, h, a, s)
<1>1. /\ call.state = "calling" /\ Registry!Takes(h, a)
      /\ UNCHANGED <<tools, commands, byName, shortcuts, profiles, submit, advertised>>
  BY DEF Registry!Body, Registry!tableVars, Registry!hostVars
<1>2. /\ k \in Kinds /\ h \in Callable /\ a \in 0 .. 2 /\ Fits(h, a, call.runs)
      /\ [call EXCEPT !.runs = Append(@, value)] = ran
  BY <1>1, CallFields DEF RegistryIInv
<1>3. \/ value = "typeError" /\ a = 2 /\ h.required < 2 /\ Fits(h, h.required, s)
      \/ ~ (value = "typeError" /\ a = 2 /\ h.required < 2) /\ Ends(h, a, s)
  BY <1>1, <1>2, RunFits
<1>4. call' = IF value = "typeError" THEN Registry!AfterTypeError(ran)
              ELSE Registry!Answered(ran, Registry!Result(ran.kind, value))
  <2> DEFINE e == [call EXCEPT !.runs = Append(@, value)]
  <2>1. call' = IF value = "typeError" THEN Registry!AfterTypeError(e)
                ELSE Registry!Answered(e, Registry!Result(e.kind, value))
    BY DEF Registry!Body
  <2>2. e = ran
    BY <1>2
  <2> HIDE DEF e, ran
  <2> QED
    BY <2>1, <2>2
<1> HIDE DEF k, h, a, s
<1>5. ran.kind = k /\ ran.handler = h /\ ran.arguments = a /\ ran.runs = s
  BY DEF Registry!Calling
<1> HIDE DEF ran
<1>6. CASE /\ Ends(h, a, s)
           /\ \E outcome \in Registry!Outcomes : call' = Registry!Answered(ran, outcome)
  <2>1. CallInv'
    BY <1>2, <1>5, <1>6, CallEnds
  <2> QED
    BY <1>1, <2>1, TablesUnchanged DEF RegistryIInv
<1>7. CASE Fits(h, h.required, s) /\ h.required < 2 /\ call' = Registry!Calling(k, h, h.required, s)
  <2> DEFINE q == h.required
  <2>1. q \in 0 .. 2 /\ Fits(h, q, s) /\ call' = Registry!Calling(k, h, q, s)
    BY <1>2, <1>7, CallableIs
  <2> HIDE DEF q
  <2>2. CallInv'
    BY <1>2, <2>1, CallStarts
  <2> QED
    BY <1>1, <2>2, TablesUnchanged DEF RegistryIInv
<1>8. Registry!AfterTypeError(ran) =
          IF a = 2 /\ h.required < 2 THEN Registry!Calling(k, h, h.required, s)
          ELSE Registry!Answered(ran, "typeError")
  BY <1>5 DEF Registry!AfterTypeError, Registry!Retries
<1> QED
  BY <1>3, <1>4, <1>6, <1>7, <1>8, OutcomesAre

\* The arguments did not fit.
LEMMA WrongArgumentsKeeps == RegistryIInv /\ Registry!WrongArguments => RegistryIInv'
<1> SUFFICES ASSUME RegistryIInv, Registry!WrongArguments PROVE RegistryIInv'
  OBVIOUS
<1> DEFINE k == call.kind
           h == call.handler
           a == call.arguments
           r == call.runs
<1>1. /\ call.state = "calling" /\ ~ Registry!Takes(h, a)
      /\ UNCHANGED <<tools, commands, byName, shortcuts, profiles, submit, advertised>>
      /\ call' = IF a = 2 /\ h.required < 2 THEN Registry!Calling(k, h, h.required, r)
                 ELSE Registry!Answered(call, "typeError")
  BY DEF Registry!WrongArguments, Registry!AfterTypeError, Registry!Retries,
         Registry!tableVars, Registry!hostVars
<1>2. k \in Kinds /\ h \in Callable /\ a \in 0 .. 2 /\ Fits(h, a, r)
  BY <1>1, CallFields DEF RegistryIInv
<1>3. /\ a = 2 /\ h.required < 2 => Fits(h, h.required, r)
      /\ ~ (a = 2 /\ h.required < 2) => Ends(h, a, r)
  BY <1>1, <1>2, WrongFits
<1>4. CASE a = 2 /\ h.required < 2 /\ call' = Registry!Calling(k, h, h.required, r)
  <2> DEFINE q == h.required
  <2>1. q \in 0 .. 2 /\ Fits(h, q, r) /\ call' = Registry!Calling(k, h, q, r)
    BY <1>2, <1>3, <1>4, CallableIs
  <2> HIDE DEF k, h, a, r, q
  <2>2. CallInv'
    BY <1>2, <2>1, CallStarts
  <2> QED
    BY <1>1, <2>2, TablesUnchanged DEF RegistryIInv
<1>5. CASE ~ (a = 2 /\ h.required < 2) /\ call' = Registry!Answered(call, "typeError")
  <2>1. Ends(h, a, r) /\ "typeError" \in Registry!Outcomes
    BY <1>3, <1>5, OutcomesAre
  <2>2. CallInv'
    BY <1>2, <1>5, <2>1, CallEnds
  <2> QED
    BY <1>1, <2>2, TablesUnchanged DEF RegistryIInv
<1> QED
  BY <1>1, <1>4, <1>5

\* What is done with events leaves the tables and the calls alone.
LEMMA RegistryUnchangedKeeps == RegistryIInv /\ UNCHANGED registryVars => RegistryIInv'
<1> SUFFICES ASSUME RegistryIInv, UNCHANGED registryVars PROVE RegistryIInv'
  OBVIOUS
<1>1. UNCHANGED <<tools, commands, byName, shortcuts, profiles, submit, advertised, call>>
  BY DEF registryVars
<1>2. CallInv'
  BY <1>1
     DEF RegistryIInv, CallInv, Registry!SmallHandlersRun, Registry!RunsAgainOnlyAfterTypeError
<1> QED
  BY <1>1, <1>2, TablesUnchanged DEF RegistryIInv

\* Every step of the extension keeps the invariant of its tables.
LEMMA RegistryStep ==
    ASSUME RegistryIInv, [ExtensionNext]_extensionVars
    PROVE RegistryIInv'
<1>1. CASE RegistryNext
  <2>1. CASE Registry!ToolNext
    BY <2>1, RegisterToolKeeps, ExecuteToolKeeps DEF Registry!ToolNext
  <2>2. CASE Registry!CommandNext
    BY <2>2, RegisterCommandKeeps, ExecuteCommandKeeps DEF Registry!CommandNext
  <2>3. CASE Registry!ShortcutNext
    BY <2>3, RegisterShortcutKeeps, ExecuteShortcutKeeps DEF Registry!ShortcutNext
  <2>4. CASE Registry!RunNext
    BY <2>4, BodyKeeps, WrongArgumentsKeeps DEF Registry!RunNext
  <2> QED
    BY <1>1, <2>1, <2>2, <2>3, <2>4, RegisterProfileKeeps DEF RegistryNext
<1>2. CASE UNCHANGED registryVars
  BY <1>2, RegistryUnchangedKeeps
<1>3. ASSUME NEW remote \in BOOLEAN, NEW takesSubmit \in BOOLEAN,
             Registry!Initialize(remote, takesSubmit)
      PROVE RegistryIInv'
  BY <1>3, TellHostKeeps
<1> QED
  BY <1>1, <1>2, <1>3
     DEF ExtensionNext, EventNext, ExtensionInitialize, extensionVars, registryVars

\* The tables are typed and agree.
LEMMA TablesImply ==
    ASSUME RegistryIInv
    PROVE /\ Registry!TypeOK /\ Registry!NamesBelongToTheirCommand
          /\ Registry!ChordsReachTheirHandler
<1>1. TablesInv /\ ShortcutsInv /\ CallInv
  BY DEF RegistryIInv
<1>2. \A i \in DOMAIN commands : commands[i] \in Command
  <2>1. commands \in Seq(Command)
    BY <1>1 DEF TablesInv
  <2> QED
    BY <2>1, LenProperties, ElementOfSeq
<1>3. \A k \in DOMAIN shortcuts : k \in Registry!Keys /\ shortcuts[k] \in Shortcuts
  BY <1>1, ChordsAreKeys DEF ShortcutsInv
<1>4. Len(commands) \in Nat /\ advertised \in Nat
  <2>1. commands \in Seq(Command)
    BY <1>1 DEF TablesInv
  <2>2. Len(commands) \in Nat
    BY <2>1, LenProperties
  <2> QED
    BY <1>1, <2>2 DEF TablesInv
<1>5. Registry!TypeOK
  <2>1. /\ tools \in [Tools -> Signatures \cup {None}] /\ Len(commands) =< MaxCommands
        /\ byName \in [Registry!Names -> DOMAIN commands \cup {None}]
        /\ profiles \in BOOLEAN /\ submit \in BOOLEAN \cup {None}
    BY <1>1 DEF TablesInv
  <2>2. \A i \in DOMAIN commands : /\ commands[i].primary \in Registry!Names
                                   /\ commands[i].aliases \in Seq(Registry!Written)
                                   /\ commands[i].handler \in Signatures
    BY <1>2 DEF Command
  <2>3. /\ call.state \in {"idle", "calling", "answered"}
        /\ call.state = "calling" => call.arguments \in 0 .. 2
        /\ call.state = "answered" => call.outcome \in Registry!Outcomes
    BY <1>1 DEF CallInv
  <2> QED
    BY <1>3, <1>4, <2>1, <2>2, <2>3 DEF Registry!TypeOK
<1>6. Registry!NamesBelongToTheirCommand
  BY <1>1 DEF TablesInv, NamesOf, Registry!NamesBelongToTheirCommand
<1>7. Registry!ChordsReachTheirHandler
  <2> SUFFICES ASSUME NEW k \in DOMAIN shortcuts, NEW v \in Shortcuts
               PROVE Registry!SameChord(v, shortcuts[k]) = (Registry!NormalizeShortcut(v) = k)
    BY DEF Registry!ChordsReachTheirHandler
  <2> DEFINE w == shortcuts[k]
  <2>1. w \in Shortcuts /\ Registry!NormalizeShortcut(w) = k /\ k # <<>>
    BY <1>1 DEF ShortcutsInv
  <2> HIDE DEF w
  <2>2. Registry!SameChord(v, w) = (Registry!NormalizeShortcut(v) = Registry!NormalizeShortcut(w))
    BY <2>1, ChordsAreKeys
  <2> QED
    BY <2>1, <2>2 DEF w
<1> QED
  BY <1>5, <1>6, <1>7

\* What the host may write for a name that it was told of is normalized to that name.
LEMMA SpelledIs ==
    ASSUME NEW offered, NEW form \in Registry!Spellings(offered)
    PROVE /\ offered \in Entered =>
                Registry!NormalizeCommand([offered EXCEPT !.form = form]) = offered
          /\ offered \in Registry!Written /\ offered.word # None =>
                Registry!NormalizeCommand([offered EXCEPT !.form = form]) =
                    Registry!NormalizeCommand(offered)
<1> DEFINE w == offered.word
           f == offered.form
           spelled == Registry!NormalizeCommand([[form |-> f, word |-> w] EXCEPT !.form = form])
<1>1. IF f \in {"bare", "slash"} THEN form \in {"bare", "slash"} ELSE form = "slashBlank"
  BY DEF Registry!Spellings
<1>2. spelled =
          [form |-> IF form = "slashBlank" /\ w # None THEN "blank" ELSE "bare", word |-> w]
  BY FormChanged
<1>3. ASSUME offered \in Entered
      PROVE Registry!NormalizeCommand([offered EXCEPT !.form = form]) = offered
  <2>1. offered = [form |-> f, word |-> w] /\ (f = "bare" \/ (f = "blank" /\ w # None))
    BY <1>3 DEF Entered, Registry!Names
  <2> HIDE DEF f, w
  <2>2. f = IF form = "slashBlank" /\ w # None THEN "blank" ELSE "bare"
    BY <1>1, <2>1
  <2> QED
    BY <1>2, <2>1, <2>2
<1>4. ASSUME offered \in Registry!Written, w # None
      PROVE Registry!NormalizeCommand([offered EXCEPT !.form = form]) =
                Registry!NormalizeCommand(offered)
  <2>1. offered = [form |-> f, word |-> w] /\ f \in {"bare", "slash", "slashBlank"}
    BY <1>4, RegistryAssumption DEF Registry!Written
  <2>2. Registry!NormalizeCommand(offered) =
            [form |-> IF f = "slashBlank" /\ w # None THEN "blank" ELSE "bare", word |-> w]
    BY <1>4, NormalizedIs
  <2> HIDE DEF f, w
  <2>3. form = "slashBlank" <=> f = "slashBlank"
    BY <1>1, <2>1
  <2> QED
    BY <1>2, <2>1, <2>2, <2>3
<1> QED
  BY <1>3, <1>4

\* The names that the host was told of lead to the command that was offered with them.
LEMMA NamesImply ==
    ASSUME RegistryIInv
    PROVE Registry!AdvertisedNamesDispatch
<1> DEFINE Aliases(i) == {alias \in ToSet(commands[i].aliases) : alias.word # None}
<1> SUFFICES ASSUME NEW i \in 1 .. advertised,
                    NEW offered \in {commands[i].primary} \cup Aliases(i),
                    NEW form \in Registry!Spellings(offered)
             PROVE byName[Registry!NormalizeCommand([offered EXCEPT !.form = form])] = i
  BY DEF Registry!AdvertisedNamesDispatch, Registry!ToSet, ToSet
<1>1. TablesInv
  BY DEF RegistryIInv
<1>2. i \in DOMAIN commands /\ commands[i] \in Command
  <2>1. commands \in Seq(Command) /\ advertised \in 0 .. Len(commands)
    BY <1>1 DEF TablesInv
  <2>2. i \in 1 .. Len(commands)
    BY <2>1, LenProperties
  <2> QED
    BY <2>1, <2>2, LenProperties, ElementOfSeq
<1> DEFINE c == commands[i]
<1>3. c.primary \in Entered /\ c.aliases \in Seq(Registry!Written)
  BY <1>1, <1>2 DEF TablesInv, Command
<1> DEFINE spelled == Registry!NormalizeCommand([offered EXCEPT !.form = form])
           registered == Registry!NormalizeCommand(offered)
<1>4. c.primary \in NamesOf(i)
  BY DEF NamesOf, Registry!CommandNames
<1>5. \A j \in DOMAIN c.aliases :
         c.aliases[j].word # None => Registry!NormalizeCommand(c.aliases[j]) \in NamesOf(i)
  BY DEF NamesOf, Registry!CommandNames
<1> HIDE DEF c
<1>6. ASSUME offered = c.primary PROVE byName[spelled] = i
  <2>1. spelled = offered
    BY <1>3, <1>6, SpelledIs
  <2> HIDE DEF spelled
  <2> QED
    BY <1>1, <1>2, <1>4, <1>6, <2>1 DEF TablesInv
<1>7. ASSUME NEW j \in DOMAIN c.aliases, offered = c.aliases[j], offered.word # None
      PROVE byName[spelled] = i
  <2>1. offered \in Registry!Written
    BY <1>3, <1>7
  <2>2. registered \in NamesOf(i)
    BY <1>5, <1>7
  <2>3. spelled = registered
    BY <1>7, <2>1, SpelledIs
  <2> HIDE DEF spelled, registered
  <2> QED
    BY <1>1, <1>2, <2>2, <2>3 DEF TablesInv
<1> QED
  BY <1>6, <1>7 DEF ToSet, c

\* What the host was told of is reached as it was told, and runs with what its signature
\* takes, with the exceptions that the code makes: the two tables of commands agree,
\* whatever names a registration gives and whether it is refused; a chord reaches the
\* handler of its shortcut and no other does; a body is repeated only after its own
\* TypeError, once, and only where its handler has a default for one of two arguments
\* (api.py:577-720, 860-943, 1149-1168); for all words, names, signatures and shortcuts.
THEOREM RegisteredAreReached == ExtensionSpec => []RegisteredIsReached
<1>1. ExtensionInit => RegistryIInv
  BY RegistryInitHolds DEF ExtensionInit
<1>2. RegistryIInv /\ [ExtensionNext]_extensionVars => RegistryIInv'
  BY RegistryStep
<1>3. RegistryIInv => RegisteredIsReached
  <2> SUFFICES ASSUME RegistryIInv PROVE RegisteredIsReached
    OBVIOUS
  <2>1. Registry!SmallHandlersRun /\ Registry!RunsAgainOnlyAfterTypeError
    BY DEF RegistryIInv, CallInv
  <2> QED
    BY <2>1, TablesImply, NamesImply DEF RegisteredIsReached, Registry!RegistryInv
<1> QED
  BY <1>1, <1>2, <1>3, PTL DEF ExtensionSpec

-----------------------------------------------------------------------------
(* FrameReading: what concatenation computes *)

\* f holds the concatenations of the first elements of s.
Flattens(f, s, n) ==
    \A i \in 1 .. n : f[i] = IF i = 1 THEN s[i] ELSE f[i - 1] \o s[i]

\* Every sequence of sequences has its concatenations.
LEMMA FlattensExists ==
    ASSUME NEW S, NEW s \in Seq(Seq(S))
    PROVE \E f \in [1 .. Len(s) -> Seq(S)] : Flattens(f, s, Len(s))
<1> DEFINE Ok(n) == \E f \in [1 .. n -> Seq(S)] : Flattens(f, s, n)
           T == {n \in Nat : n =< Len(s) => Ok(n)}
<1>1. Ok(0)
  <2>1. [i \in 1 .. 0 |-> <<>>] \in [1 .. 0 -> Seq(S)]
    OBVIOUS
  <2>2. \A i \in 1 .. 0 : FALSE
    OBVIOUS
  <2>3. Flattens([i \in 1 .. 0 |-> <<>>], s, 0)
    BY <2>2 DEF Flattens
  <2> QED
    BY <2>1, <2>3
<1>2. ASSUME NEW n \in Nat, n + 1 =< Len(s), Ok(n) PROVE Ok(n + 1)
  <2>1. PICK f \in [1 .. n -> Seq(S)] : Flattens(f, s, n)
    BY <1>2
  <2> DEFINE g == [i \in 1 .. n + 1 |->
                     IF i =< n THEN f[i] ELSE IF n = 0 THEN s[1] ELSE f[n] \o s[n + 1]]
  <2>2. s[n + 1] \in Seq(S) /\ (n = 0 => s[1] \in Seq(S))
    BY <1>2
  <2>3. n # 0 => f[n] \o s[n + 1] \in Seq(S)
    BY <2>2, ConcatProperties
  <2>4. g \in [1 .. n + 1 -> Seq(S)]
    BY <2>2, <2>3
  <2>5. ASSUME NEW i \in 1 .. n + 1
        PROVE g[i] = IF i = 1 THEN s[i] ELSE g[i - 1] \o s[i]
    <3>1. CASE i =< n
      <4>0. i \in 1 .. n
        BY <3>1
      <4>1. f[i] = IF i = 1 THEN s[i] ELSE f[i - 1] \o s[i]
        BY <2>1, <4>0 DEF Flattens
      <4>2. i # 1 => g[i - 1] = f[i - 1]
        BY <3>1
      <4> QED
        BY <3>1, <4>1, <4>2
    <3>2. CASE i = n + 1
      BY <3>2
    <3> QED
      BY <3>1, <3>2
  <2> QED
    BY <2>4, <2>5 DEF Flattens
<1>3. 0 \in T
  BY <1>1
<1>3a. ASSUME NEW n \in Nat, n \in T PROVE n + 1 \in T
  <2> SUFFICES ASSUME n + 1 =< Len(s) PROVE Ok(n + 1)
    OBVIOUS
  <2>1. Ok(n)
    BY <1>3a
  <2> HIDE DEF Ok
  <2> QED
    BY <1>2, <2>1
<1> HIDE DEF Ok
<1>4. Nat \subseteq T
  BY <1>3, <1>3a, Induction
<1>5. Ok(Len(s))
  BY <1>4
<1> QED
  BY <1>5 DEF Ok

\* FlattenSeq is the last of them.
LEMMA FlattenIsLast ==
    ASSUME NEW S, NEW s \in Seq(Seq(S))
    PROVE \E f \in [1 .. Len(s) -> Seq(S)] :
              /\ Flattens(f, s, Len(s))
              /\ FlattenSeq(s) = IF Len(s) = 0 THEN <<>> ELSE f[Len(s)]
<1> DEFINE Eq(f) == f = [i \in 1 .. Len(s) |-> IF i = 1 THEN s[i] ELSE f[i - 1] \o s[i]]
           F == CHOOSE f : Eq(f)
<1>1. PICK f \in [1 .. Len(s) -> Seq(S)] : Flattens(f, s, Len(s))
  BY FlattensExists
<1>2. Eq(f)
  BY <1>1 DEF Flattens
<1>3. FlattenSeq(s) = IF Len(s) = 0 THEN s ELSE F[Len(s)]
  BY DEF FlattenSeq
<1>4. Eq(F)
  BY <1>2
<1> HIDE DEF F
<1>5. DOMAIN F = 1 .. Len(s) /\ Flattens(F, s, Len(s))
  BY <1>4 DEF Flattens
<1>6. \A i \in 1 .. Len(s) : F[i] \in Seq(S)
  <2> DEFINE T == {n \in Nat : n \in 1 .. Len(s) => F[n] \in Seq(S)}
  <2>1. 0 \in T
    OBVIOUS
  <2>2. ASSUME NEW n \in Nat, n \in T PROVE n + 1 \in T
    <3> SUFFICES ASSUME n + 1 =< Len(s) PROVE F[n + 1] \in Seq(S)
      OBVIOUS
    <3>1. s[n + 1] \in Seq(S)
      OBVIOUS
    <3>2. CASE n = 0
      <4>1. 1 \in 1 .. Len(s)
        BY <3>2
      <4>2. F[1] = s[1]
        BY <1>5, <4>1 DEF Flattens
      <4> QED
        BY <3>1, <3>2, <4>2
    <3>3. CASE n # 0
      <4>1. F[n] \in Seq(S)
        BY <2>2, <3>3
      <4>2. n + 1 \in 1 .. Len(s) /\ n + 1 # 1 /\ (n + 1) - 1 = n
        BY <3>3
      <4>3. F[n + 1] = F[n] \o s[n + 1]
        BY <1>5, <4>2 DEF Flattens
      <4> QED
        BY <3>1, <4>1, <4>3, ConcatProperties
    <3> QED
      BY <3>2, <3>3
  <2>3. Nat \subseteq T
    BY <2>1, <2>2, Induction
  <2> QED
    BY <2>3
<1>7. F \in [1 .. Len(s) -> Seq(S)]
  BY <1>4, <1>5, <1>6
<1>8. Len(s) = 0 => s = <<>>
  BY EmptySeq
<1> QED
  BY <1>3, <1>5, <1>7, <1>8

\* What a sequence is flattened to grows by what is added to it.
LEMMA FlattenAppend ==
    ASSUME NEW S, NEW s \in Seq(Seq(S)), NEW x \in Seq(S)
    PROVE /\ FlattenSeq(s) \in Seq(S)
          /\ FlattenSeq(Append(s, x)) = FlattenSeq(s) \o x
<1> DEFINE t == Append(s, x)
           n == Len(s)
<1>1. /\ t \in Seq(Seq(S)) /\ Len(t) = n + 1 /\ t[n + 1] = x
      /\ \A i \in 1 .. n : t[i] = s[i]
      /\ n \in Nat
  OBVIOUS
<1> HIDE DEF t, n
<1>2. PICK f \in [1 .. n -> Seq(S)] :
          Flattens(f, s, n) /\ FlattenSeq(s) = IF n = 0 THEN <<>> ELSE f[n]
  BY FlattenIsLast DEF n
<1>3. PICK g \in [1 .. n + 1 -> Seq(S)] :
          Flattens(g, t, n + 1) /\ FlattenSeq(t) = IF n + 1 = 0 THEN <<>> ELSE g[n + 1]
  BY <1>1, FlattenIsLast
<1>4. FlattenSeq(t) = g[n + 1]
  BY <1>1, <1>3
<1>5. \A i \in 1 .. n : g[i] = f[i]
  <2> DEFINE T == {i \in Nat : i \in 1 .. n => g[i] = f[i]}
  <2>1. 0 \in T
    OBVIOUS
  <2>2. ASSUME NEW i \in Nat, i \in T PROVE i + 1 \in T
    <3> SUFFICES ASSUME i + 1 \in 1 .. n PROVE g[i + 1] = f[i + 1]
      OBVIOUS
    <3>1. i + 1 \in 1 .. n + 1 /\ (i + 1) - 1 = i /\ t[i + 1] = s[i + 1]
      BY <1>1
    <3>2. g[i + 1] = IF i + 1 = 1 THEN t[i + 1] ELSE g[i] \o t[i + 1]
      BY <1>3, <3>1 DEF Flattens
    <3>3. f[i + 1] = IF i + 1 = 1 THEN s[i + 1] ELSE f[i] \o s[i + 1]
      BY <1>2, <3>1 DEF Flattens
    <3>4. i + 1 # 1 => g[i] = f[i]
      BY <1>1, <2>2
    <3> QED
      BY <3>1, <3>2, <3>3, <3>4
  <2>3. Nat \subseteq T
    BY <2>1, <2>2, Induction
  <2> QED
    BY <1>1, <2>3
<1>6. g[n + 1] = IF n = 0 THEN x ELSE g[n] \o x
  <2>1. n + 1 \in 1 .. n + 1 /\ (n + 1) - 1 = n /\ (n + 1 = 1) = (n = 0)
    BY <1>1
  <2>2. g[n + 1] = IF n + 1 = 1 THEN t[n + 1] ELSE g[n] \o t[n + 1]
    BY <1>3, <2>1 DEF Flattens
  <2> QED
    BY <1>1, <2>1, <2>2
<1>7. CASE n = 0
  <2>1. FlattenSeq(s) = <<>> /\ FlattenSeq(t) = x
    BY <1>2, <1>4, <1>6, <1>7
  <2>2. <<>> \o x = x /\ <<>> \in Seq(S)
    BY ConcatEmptySeq
  <2> QED
    BY <2>1, <2>2 DEF t
<1>8. CASE n # 0
  <2>1. n \in 1 .. n
    BY <1>1, <1>8
  <2>2. FlattenSeq(s) = f[n] /\ FlattenSeq(t) = f[n] \o x
    BY <1>2, <1>4, <1>5, <1>6, <1>8, <2>1
  <2> QED
    BY <1>2, <2>1, <2>2 DEF t
<1> QED
  BY <1>7, <1>8

-----------------------------------------------------------------------------
(* Frames and where they are in the stream *)

Pieces == [kind : {"other", "length", "noNumber", "open", "close", "word", "blank"}, value : Int]
Lines == {piece \in Pieces : piece.kind # "blank"}

\* The units of the first i frames of s, and how many they are.
Upto(s, i) == FlattenSeq([j \in 1 .. i |-> Units(s[j])])
Offset(s, i) == Len(Upto(s, i))

\* The units of a frame are its header, a blank line and its payload.
LEMMA UnitsShape ==
    ASSUME NEW frame \in Frames
    PROVE /\ frame.header \in Seq(Lines) /\ frame.payload \in Seq(Pieces)
          /\ Units(frame) \in Seq(Pieces)
          /\ Len(Units(frame)) = Len(frame.header) + 1 + Len(frame.payload)
          /\ \A k \in 1 .. Len(frame.header) : Units(frame)[k] = frame.header[k]
          /\ Units(frame)[Len(frame.header) + 1] = Unit("blank")
          /\ \A k \in 1 .. Len(frame.payload) :
                Units(frame)[Len(frame.header) + 1 + k] = frame.payload[k]
<1> DEFINE H == [kind : {"other", "length", "noNumber"}, value : Int]
           P == [kind : {"open", "close", "word", "blank", "length"}, value : Int]
           h == frame.header
           p == frame.payload
           b == <<Unit("blank")>>
<1>1. h \in Seq(H) /\ p \in Seq(P)
  BY FramesAssumption
<1>2. H \subseteq Lines /\ P \subseteq Pieces /\ Lines \subseteq Pieces
  BY DEF Lines, Pieces
<1> HIDE DEF H, P
<1>3. h \in Seq(Lines) /\ h \in Seq(Pieces) /\ p \in Seq(Pieces)
  <2>1. h \in Seq(Lines)
    BY <1>1, <1>2, SeqWiden
  <2>2. p \in Seq(Pieces)
    BY <1>1, <1>2, SeqWiden
  <2>3. h \in Seq(Pieces)
    BY <1>2, <2>1, SeqWiden
  <2> QED
    BY <2>1, <2>2, <2>3
<1>4. Unit("blank") \in Pieces
  BY DEF Pieces, Unit
<1>5. b \in Seq(Pieces) /\ Len(b) = 1 /\ b[1] = Unit("blank")
  BY <1>4
<1> HIDE DEF h, p, b
<1>6. /\ h \o b \in Seq(Pieces) /\ Len(h \o b) = Len(h) + 1
      /\ \A k \in 1 .. Len(h) : (h \o b)[k] = h[k]
      /\ (h \o b)[Len(h) + 1] = Unit("blank")
  <2>1. /\ h \o b \in Seq(Pieces) /\ Len(h \o b) = Len(h) + Len(b)
        /\ \A k \in 1 .. Len(h) + Len(b) :
              (h \o b)[k] = IF k <= Len(h) THEN h[k] ELSE b[k - Len(h)]
    BY <1>3, <1>5, ConcatProperties
  <2>2. Len(h) \in Nat /\ (Len(h) + 1) - Len(h) = 1
    BY <1>3
  <2> QED
    BY <1>5, <2>1, <2>2
<1>7. Units(frame) = (h \o b) \o p
  BY DEF Units, h, b, p
<1>8. Len(h) \in Nat /\ Len(p) \in Nat
  BY <1>3
<1>9. /\ Units(frame) \in Seq(Pieces) /\ Len(Units(frame)) = Len(h) + 1 + Len(p)
      /\ \A k \in 1 .. Len(h) + 1 : Units(frame)[k] = (h \o b)[k]
      /\ \A k \in 1 .. Len(p) : Units(frame)[Len(h) + 1 + k] = p[k]
  <2> DEFINE hb == h \o b
  <2>1. hb \in Seq(Pieces) /\ Len(hb) = Len(h) + 1
    BY <1>6
  <2> HIDE DEF hb
  <2>2. /\ hb \o p \in Seq(Pieces) /\ Len(hb \o p) = Len(hb) + Len(p)
        /\ \A k \in 1 .. Len(hb) + Len(p) :
              (hb \o p)[k] = IF k <= Len(hb) THEN hb[k] ELSE p[k - Len(hb)]
    BY <1>3, <2>1, ConcatProperties
  <2>3. Units(frame) = hb \o p
    BY <1>7 DEF hb
  <2>4. \A k \in 1 .. Len(h) + 1 : Units(frame)[k] = hb[k]
    BY <1>8, <2>1, <2>2, <2>3
  <2>5. ASSUME NEW k \in 1 .. Len(p) PROVE Units(frame)[Len(h) + 1 + k] = p[k]
    <3>1. /\ Len(h) + 1 + k \in 1 .. Len(hb) + Len(p)
          /\ ~ (Len(h) + 1 + k <= Len(hb)) /\ (Len(h) + 1 + k) - Len(hb) = k
      BY <1>8, <2>1
    <3> QED
      BY <2>2, <2>3, <3>1
  <2> QED
    BY <2>1, <2>2, <2>3, <2>4, <2>5 DEF hb
<1>10. /\ \A k \in 1 .. Len(h) : Units(frame)[k] = h[k]
       /\ Units(frame)[Len(h) + 1] = Unit("blank")
  <2>1. Len(h) + 1 \in 1 .. Len(h) + 1 /\ \A k \in 1 .. Len(h) : k \in 1 .. Len(h) + 1
    BY <1>8
  <2> QED
    BY <1>6, <1>9, <2>1
<1> QED
  BY <1>3, <1>9, <1>10 DEF h, p

\* Frame by frame the units add up to the stream.
LEMMA UptoStep ==
    ASSUME NEW s \in Seq(Frames), NEW i \in 0 .. Len(s)
    PROVE /\ Upto(s, i) \in Seq(Pieces) /\ Offset(s, i) \in Nat
          /\ Upto(s, 0) = <<>>
          /\ i < Len(s) => /\ Upto(s, i + 1) = Upto(s, i) \o Units(s[i + 1])
                           /\ Offset(s, i + 1) = Offset(s, i) + Len(Units(s[i + 1]))
<1> DEFINE U(n) == [j \in 1 .. n |-> Units(s[j])]
<1>1. ASSUME NEW j \in 1 .. Len(s) PROVE s[j] \in Frames /\ Units(s[j]) \in Seq(Pieces)
  <2>1. s[j] \in Frames
    OBVIOUS
  <2> QED
    BY <2>1, UnitsShape
<1>2. \A n \in 0 .. Len(s) : U(n) \in Seq(Seq(Pieces)) /\ Len(U(n)) = n
  BY <1>1
<1>3. Upto(s, i) \in Seq(Pieces)
  <2>1. U(i) \in Seq(Seq(Pieces)) /\ <<>> \in Seq(Pieces)
    BY <1>2
  <2> HIDE DEF U
  <2>2. FlattenSeq(U(i)) \in Seq(Pieces)
    BY <2>1, FlattenAppend
  <2> QED
    BY <2>2 DEF Upto, U
<1>4. Upto(s, 0) = <<>>
  <2>1. U(0) = <<>>
    OBVIOUS
  <2> QED
    BY <2>1 DEF Upto, FlattenSeq
<1>5. ASSUME i < Len(s) PROVE Upto(s, i + 1) = Upto(s, i) \o Units(s[i + 1])
  <2>1. i + 1 \in 1 .. Len(s) /\ Units(s[i + 1]) \in Seq(Pieces)
    BY <1>1, <1>5
  <2>2. U(i + 1) = Append(U(i), Units(s[i + 1]))
    BY <2>1
  <2>3. FlattenSeq(Append(U(i), Units(s[i + 1]))) = FlattenSeq(U(i)) \o Units(s[i + 1])
    BY <1>2, <2>1, FlattenAppend
  <2> QED
    BY <2>2, <2>3 DEF Upto
<1>6. Offset(s, i) \in Nat
  BY <1>3 DEF Offset
<1>7. ASSUME i < Len(s) PROVE Offset(s, i + 1) = Offset(s, i) + Len(Units(s[i + 1]))
  <2>1. Units(s[i + 1]) \in Seq(Pieces)
    BY <1>1, <1>7
  <2> QED
    BY <1>3, <1>5, <1>7, <2>1, ConcatProperties DEF Offset
<1> QED
  BY <1>3, <1>4, <1>5, <1>6, <1>7

\* A frame stays where it is in the stream when frames follow it.
LEMMA FrameIsPlaced ==
    ASSUME NEW s \in Seq(Frames), NEW i \in 0 .. Len(s), i < Len(s),
           NEW m \in i + 1 .. Len(s)
    PROVE /\ Offset(s, i + 1) =< Offset(s, m)
          /\ \A k \in 1 .. Len(Units(s[i + 1])) :
                Upto(s, m)[Offset(s, i) + k] = Units(s[i + 1])[k]
<1> DEFINE frame == s[i + 1]
           Placed(n) == /\ Offset(s, i + 1) =< Offset(s, n)
                        /\ \A k \in 1 .. Len(Units(frame)) :
                              Upto(s, n)[Offset(s, i) + k] = Units(frame)[k]
           T == {d \in Nat : i + 1 + d =< Len(s) => Placed(i + 1 + d)}
<1>1. frame \in Frames /\ Units(frame) \in Seq(Pieces) /\ i + 1 \in 0 .. Len(s)
  <2>1. frame \in Frames /\ i + 1 \in 0 .. Len(s)
    OBVIOUS
  <2> HIDE DEF frame
  <2> QED
    BY <2>1, UnitsShape
<1>2. Placed(i + 1)
  <2>1. /\ Upto(s, i + 1) = Upto(s, i) \o Units(frame)
        /\ Upto(s, i) \in Seq(Pieces) /\ Offset(s, i + 1) \in Nat
    BY <1>1, UptoStep
  <2> QED
    BY <1>1, <2>1, ConcatProperties DEF Offset
<1>3. 0 \in T
  BY <1>2
<1>4. ASSUME NEW d \in Nat, d \in T PROVE d + 1 \in T
  <2> SUFFICES ASSUME i + 1 + (d + 1) =< Len(s) PROVE Placed(i + 1 + (d + 1))
    OBVIOUS
  <2> DEFINE n == i + 1 + d
  <2>1. n \in 0 .. Len(s) /\ n < Len(s) /\ n + 1 = i + 1 + (d + 1)
    OBVIOUS
  <2>2. Placed(n)
    BY <1>4, <2>1
  <2> HIDE DEF n
  <2>3. /\ Upto(s, n) \in Seq(Pieces) /\ Offset(s, n) \in Nat
        /\ Upto(s, n + 1) = Upto(s, n) \o Units(s[n + 1])
        /\ Offset(s, n + 1) = Offset(s, n) + Len(Units(s[n + 1]))
        /\ Units(s[n + 1]) \in Seq(Pieces)
    <3>1. s[n + 1] \in Frames
      BY <2>1
    <3> QED
      BY <2>1, <3>1, UptoStep, UnitsShape
  <2>4. /\ Offset(s, i) \in Nat /\ Len(Units(frame)) \in Nat
        /\ Offset(s, i + 1) = Offset(s, i) + Len(Units(frame))
    BY <1>1, UptoStep
  <2>5. Offset(s, i + 1) =< Offset(s, n + 1)
    BY <2>2, <2>3, <2>4
  <2>6. ASSUME NEW k \in 1 .. Len(Units(frame))
        PROVE Upto(s, n + 1)[Offset(s, i) + k] = Units(frame)[k]
    <3>1. Offset(s, i) + k \in 1 .. Offset(s, n)
      <4> DEFINE o == Offset(s, i)
                 l == Len(Units(frame))
                 e == Offset(s, n)
      <4>1. o \in Nat /\ l \in Nat /\ e \in Nat /\ o + l =< e /\ k \in 1 .. l
        BY <2>2, <2>3, <2>4
      <4> HIDE DEF o, l, e
      <4>2. o + k \in 1 .. e
        BY <4>1
      <4> QED
        BY <4>2 DEF o, e
    <3>2. Upto(s, n + 1)[Offset(s, i) + k] = Upto(s, n)[Offset(s, i) + k]
      BY <2>3, <3>1, ConcatProperties DEF Offset
    <3> QED
      BY <2>2, <3>2
  <2>7. Placed(n + 1)
    BY <2>5, <2>6
  <2> QED
    BY <2>1, <2>7
<1>5. Nat \subseteq T
  BY <1>3, <1>4, Induction
<1>6. m - (i + 1) \in T /\ i + 1 + (m - (i + 1)) = m
  BY <1>5
<1> QED
  BY <1>6

\* The stream is made of all frames that were sent.
LEMMA StreamIsUpto ==
    ASSUME sent \in Seq(Frames)
    PROVE Stream = Upto(sent, Len(sent))
<1>1. DOMAIN sent = 1 .. Len(sent)
  OBVIOUS
<1> QED
  BY <1>1 DEF Stream, Upto

\* A header gives a number.
LEMMA ParseIsInt ==
    ASSUME NEW lines \in Seq(Lines)
    PROVE ParseContentLength(lines) \in Int
<1> DEFINE stops == {i \in DOMAIN lines : \/ lines[i].kind = "noNumber"
                                          \/ lines[i].kind = "length" /\ lines[i].value >= 0}
<1>1. \A i \in DOMAIN lines : lines[i].value \in Int
  BY DEF Lines, Pieces
<1>2. stops \subseteq Nat /\ stops \subseteq DOMAIN lines
  OBVIOUS
<1>3. stops # {} => Min(stops) \in DOMAIN lines
  <2> HIDE DEF stops
  <2> QED
    BY <1>2, MinIsLeast
<1>4. ParseContentLength(lines) =
        IF stops = {} \/ lines[Min(stops)].kind = "noNumber" THEN -1 ELSE lines[Min(stops)].value
  BY DEF ParseContentLength
<1> HIDE DEF stops
<1> QED
  BY <1>1, <1>3, <1>4

\* A well-formed header announces the payload of its frame.
LEMMA ParseWellFormed ==
    ASSUME NEW frame \in Frames, WellFormed(frame)
    PROVE ParseContentLength(frame.header) = Len(frame.payload)
<1> DEFINE lines == frame.header
           stops == {i \in DOMAIN lines : \/ lines[i].kind = "noNumber"
                                          \/ lines[i].kind = "length" /\ lines[i].value >= 0}
<1>1. PICK k \in DOMAIN lines :
          /\ lines[k] = Length(Len(frame.payload))
          /\ \A j \in 1 .. k - 1 : \/ lines[j].kind = "other"
                                   \/ lines[j].kind = "length" /\ lines[j].value < 0
  BY DEF WellFormed
<1>2. lines \in Seq(Lines) /\ Len(frame.payload) \in Nat
  <2>1. lines \in Seq(Lines) /\ frame.payload \in Seq(Pieces)
    BY UnitsShape
  <2> QED
    BY <2>1
<1>3. \A i \in DOMAIN lines : lines[i].value \in Int /\ i \in Nat /\ i >= 1
  BY <1>2 DEF Lines, Pieces
<1>4. k \in stops /\ lines[k].value = Len(frame.payload) /\ lines[k].kind = "length"
  BY <1>1, <1>2 DEF Length
<1>5. \A j \in 1 .. k - 1 : j \notin stops
  BY <1>1, <1>3
<1>6. stops \subseteq Nat /\ stops \subseteq DOMAIN lines
  BY <1>3
<1>7. ParseContentLength(lines) =
        IF stops = {} \/ lines[Min(stops)].kind = "noNumber" THEN -1 ELSE lines[Min(stops)].value
  BY DEF ParseContentLength
<1> HIDE DEF stops
<1>8. Min(stops) \in stops /\ Min(stops) =< k
  BY <1>4, <1>6, MinIsLeast
<1>9. Min(stops) = k
  BY <1>3, <1>4, <1>5, <1>6, <1>8
<1> QED
  BY <1>4, <1>7, <1>9

-----------------------------------------------------------------------------
(* The invariant of the read loop *)

\* The first k frames are well formed.
Sound(k) == \A j \in DOMAIN sent : j =< k => WellFormed(sent[j])

\* The lines that were read are the first ones of a frame's header.
Begins(frame) ==
    /\ Len(header) =< Len(frame.header)
    /\ \A k \in 1 .. Len(header) : header[k] = frame.header[k]

\* What was taken was consumed, and why the loop is where it is.
Counted ==
    /\ header \in Seq(Lines) /\ taken \in Seq(Seq(Pieces))
    /\ Len(taken) + Len(header) =< position
    /\ loop = "payload" =>
          ParseContentLength(header) >= 0 /\ Len(taken) + Len(header) < position
    /\ loop \in {"handling", "replying"} => header = <<>>
    /\ ~ output => eof
    /\ loop = "ended" => eof

\* After well-formed frames the loop reads the next frame from its first unit.
Aligned ==
    LET n == Len(taken) IN
    Sound(n) =>
        /\ n =< Len(sent)
        /\ loop \in {"handling", "replying"} => position = Offset(sent, n)
        /\ loop = "header" =>
              /\ position = Offset(sent, n) + Len(header)
              /\ n < Len(sent) => Begins(sent[n + 1])
              /\ n = Len(sent) => header = <<>>
        /\ loop = "payload" =>
              /\ n < Len(sent) /\ header = sent[n + 1].header
              /\ position = Offset(sent, n) + Len(header) + 1

ReadLoopInv == ReaderInv /\ Counted /\ Aligned

\* In the stream a frame's units follow those of the frames before it.
LEMMA StreamFacts ==
    ASSUME sent \in Seq(Frames)
    PROVE /\ Stream \in Seq(Pieces) /\ Offset(sent, 0) = 0
          /\ Len(Stream) = Offset(sent, Len(sent))
          /\ \A i \in 0 .. Len(sent) : Offset(sent, i) \in Nat
          /\ \A i \in 0 .. Len(sent) - 1 :
                /\ sent[i + 1] \in Frames
                /\ Offset(sent, i + 1) = Offset(sent, i) + Len(Units(sent[i + 1]))
                /\ \A m \in i + 1 .. Len(sent) : Offset(sent, i + 1) =< Offset(sent, m)
                /\ \A k \in 1 .. Len(Units(sent[i + 1])) :
                      Stream[Offset(sent, i) + k] = Units(sent[i + 1])[k]
<1>1. Stream = Upto(sent, Len(sent))
  BY StreamIsUpto
<1>2. Len(sent) \in Nat
  OBVIOUS
<1>3. ASSUME NEW i \in 0 .. Len(sent)
      PROVE Upto(sent, i) \in Seq(Pieces) /\ Offset(sent, i) \in Nat /\ Upto(sent, 0) = <<>>
  BY UptoStep
<1>4. Len(Stream) = Offset(sent, Len(sent)) /\ Stream \in Seq(Pieces)
  BY <1>1, <1>2, <1>3 DEF Offset
<1>5. Offset(sent, 0) = 0
  BY <1>2, <1>3 DEF Offset
<1>6. ASSUME NEW i \in 0 .. Len(sent) - 1
      PROVE /\ sent[i + 1] \in Frames
            /\ Offset(sent, i + 1) = Offset(sent, i) + Len(Units(sent[i + 1]))
            /\ \A m \in i + 1 .. Len(sent) : Offset(sent, i + 1) =< Offset(sent, m)
            /\ \A k \in 1 .. Len(Units(sent[i + 1])) :
                  Stream[Offset(sent, i) + k] = Units(sent[i + 1])[k]
  <2>1. i \in 0 .. Len(sent) /\ i < Len(sent) /\ Len(sent) \in i + 1 .. Len(sent)
    BY <1>2
  <2>2. sent[i + 1] \in Frames
    BY <2>1
  <2>3. Offset(sent, i + 1) = Offset(sent, i) + Len(Units(sent[i + 1]))
    BY <2>1, UptoStep
  <2>4. \A m \in i + 1 .. Len(sent) :
            /\ Offset(sent, i + 1) =< Offset(sent, m)
            /\ \A k \in 1 .. Len(Units(sent[i + 1])) :
                  Upto(sent, m)[Offset(sent, i) + k] = Units(sent[i + 1])[k]
    BY <2>1, FrameIsPlaced
  <2> QED
    BY <1>1, <2>1, <2>2, <2>3, <2>4
<1> QED
  BY <1>3, <1>4, <1>5, <1>6

\* What the host writes is added to the stream; the frames before it stay.
LEMMA WriteEffect ==
    ASSUME sent \in Seq(Frames), NEW frame \in Frames, sent' = Append(sent, frame)
    PROVE /\ sent' \in Seq(Frames) /\ Len(sent') = Len(sent) + 1
          /\ \A i \in 1 .. Len(sent) : sent'[i] = sent[i]
          /\ Stream' = Stream \o Units(frame) /\ Units(frame) \in Seq(Pieces)
          /\ \A i \in 0 .. Len(sent) : Offset(sent', i) = Offset(sent, i)
<1> DEFINE n == Len(sent)
           s == Append(sent, frame)
<1>1. /\ s \in Seq(Frames) /\ Len(s) = n + 1 /\ n \in Nat /\ s[n + 1] = frame
      /\ \A i \in 1 .. n : s[i] = sent[i]
  OBVIOUS
<1>2. Units(frame) \in Seq(Pieces)
  BY UnitsShape
<1>3. ASSUME NEW i \in 0 .. n PROVE Upto(s, i) = Upto(sent, i)
  <2>1. [j \in 1 .. i |-> Units(s[j])] = [j \in 1 .. i |-> Units(sent[j])]
    BY <1>1
  <2> QED
    BY <2>1 DEF Upto
<1>4. Stream = Upto(sent, n)
  BY StreamIsUpto
<1>5. Stream' = Upto(s, n + 1)
  <2>1. DOMAIN s = 1 .. n + 1
    BY <1>1
  <2> HIDE DEF s
  <2>2. sent' = s
    BY DEF s
  <2>3. Stream' = FlattenSeq([i \in DOMAIN s |-> Units(s[i])])
    BY <2>2 DEF Stream, Units, Unit
  <2> QED
    BY <2>1, <2>3 DEF Upto
<1> HIDE DEF s
<1>6. Upto(s, n + 1) = Upto(s, n) \o Units(frame)
  <2>1. n \in 0 .. Len(s) /\ n < Len(s)
    BY <1>1
  <2> QED
    BY <1>1, <2>1, UptoStep
<1>7. Stream' = Stream \o Units(frame)
  <2>1. Upto(s, n) = Upto(sent, n)
    BY <1>1, <1>3
  <2> QED
    BY <1>4, <1>5, <1>6, <2>1
<1>8. sent' = s
  BY DEF s
<1> QED
  BY <1>1, <1>2, <1>3, <1>7, <1>8 DEF Offset

\* At first nothing was sent.
LEMMA ReaderInitHolds ==
    ASSUME ReaderInit
    PROVE ReadLoopInv
<1>1. sent \in Seq(Frames) /\ Len(sent) = 0 /\ DOMAIN sent = {}
  BY DEF ReaderInit
<1>2. Stream \in Seq(Pieces) /\ Len(Stream) = 0 /\ Offset(sent, 0) = 0
  BY <1>1, StreamFacts
<1>3. /\ header = <<>> /\ taken = <<>> /\ Len(header) = 0 /\ Len(taken) = 0 /\ DOMAIN taken = {}
      /\ header \in Seq(Lines) /\ taken \in Seq(Seq(Pieces))
  BY DEF ReaderInit
<1>4. SubSeq(Stream, 1, 0) = <<>>
  BY <1>2
<1>5. ReaderTypeOK
  <2>1. Len(sent) =< MaxFrames
    BY <1>1, FramesAssumption
  <2>2. /\ arrived = 0 /\ position = 0 /\ eof \in BOOLEAN /\ output \in BOOLEAN
        /\ raised \in BOOLEAN /\ loop = "header"
    BY DEF ReaderInit
  <2>3. arrived \in 0 .. Len(Stream) /\ position \in 0 .. arrived /\ Len(taken) =< Len(Stream)
    BY <1>2, <1>3, <2>2
  <2>4. header = SubSeq(Stream, position - Len(header) + 1, position)
    BY <1>3, <1>4, <2>2
  <2> QED
    BY <1>1, <2>1, <2>2, <2>3, <2>4 DEF ReaderTypeOK
<1>6. TakesWhatWasSent /\ NoFrameIsLost /\ StopsForACause
  BY <1>3 DEF ReaderInit, TakesWhatWasSent, NoFrameIsLost, StopsForACause, Stopped
<1>7. Counted
  BY <1>3 DEF ReaderInit, Counted
<1>8. Aligned
  BY <1>1, <1>2, <1>3 DEF ReaderInit, Aligned
<1> QED
  BY <1>5, <1>6, <1>7, <1>8 DEF ReadLoopInv, ReaderInv

\* The host writes: what was read stays where it is in the stream.
LEMMA WriteKeeps ==
    ASSUME ReadLoopInv, NEW frame \in Frames, Write(frame)
    PROVE ReadLoopInv'
<1> DEFINE n == Len(taken)
           m == Len(sent)
<1>1. /\ sent \in Seq(Frames) /\ sent' = Append(sent, frame) /\ m \in Nat /\ m < MaxFrames
      /\ n \in Nat /\ ~ eof /\ header \in Seq(Lines) /\ Len(header) \in Nat
      /\ arrived' = arrived /\ eof' = eof /\ output' = output /\ loop' = loop /\ raised' = raised
      /\ position' = position /\ header' = header /\ taken' = taken
  BY DEF Write, ReadLoopInv, ReaderInv, ReaderTypeOK, Counted
<1>2. /\ sent' \in Seq(Frames) /\ Len(sent') = m + 1
      /\ \A i \in 1 .. m : sent'[i] = sent[i]
      /\ Stream' = Stream \o Units(frame) /\ Units(frame) \in Seq(Pieces)
      /\ \A i \in 0 .. m : Offset(sent', i) = Offset(sent, i)
  BY <1>1, WriteEffect
<1>3. /\ Stream \in Seq(Pieces) /\ Len(Stream) \in Nat
      /\ Stream' \in Seq(Pieces) /\ Len(Stream') >= Len(Stream)
      /\ \A i \in 1 .. Len(Stream) : Stream'[i] = Stream[i]
  <2>1. Stream \in Seq(Pieces)
    BY <1>1, StreamFacts
  <2> QED
    BY <1>2, <2>1, ConcatProperties
<1>4. DOMAIN sent = 1 .. m /\ DOMAIN sent' = 1 .. m + 1
  BY <1>1, <1>2
<1>5. ASSUME NEW k, \A j \in DOMAIN sent' : j =< k => WellFormed(sent'[j]) PROVE Sound(k)
  BY <1>2, <1>4, <1>5 DEF Sound
<1>6. ReaderTypeOK'
  <2>1. /\ arrived \in 0 .. Len(Stream') /\ position \in 0 .. arrived
        /\ Len(taken) =< Len(Stream')
    BY <1>3 DEF ReadLoopInv, ReaderInv, ReaderTypeOK
  <2>2. ASSUME loop = "header"
        PROVE header = SubSeq(Stream', position - Len(header) + 1, position)
    <3> DEFINE a == position - Len(header) + 1
    <3>1. /\ header = SubSeq(Stream, a, position) /\ position \in Nat /\ position =< Len(Stream)
          /\ a \in Nat /\ a >= 1
      BY <1>1, <1>3, <2>2 DEF ReadLoopInv, ReaderInv, ReaderTypeOK, Counted
    <3>2. SubSeq(Stream', a, position) = SubSeq(Stream, a, position)
      BY <1>3, <3>1
    <3> QED
      BY <3>1, <3>2
  <2>3. /\ eof \in BOOLEAN /\ output \in BOOLEAN /\ raised \in BOOLEAN
        /\ loop \in {"header", "payload", "handling", "replying", "ended", "failed"}
    BY DEF ReadLoopInv, ReaderInv, ReaderTypeOK
  <2>4. Len(sent') =< MaxFrames
    BY <1>1, <1>2, FramesAssumption
  <2> QED
    BY <1>1, <1>2, <2>1, <2>2, <2>3, <2>4 DEF ReaderTypeOK
<1>7. TakesWhatWasSent'
  <2> SUFFICES ASSUME NEW i \in DOMAIN taken,
                      \A j \in DOMAIN sent' : j =< i => WellFormed(sent'[j])
               PROVE i \in DOMAIN sent' /\ taken[i] = sent'[i].payload
    BY <1>1 DEF TakesWhatWasSent
  <2>1. Sound(i)
    BY <1>5
  <2>2. i \in DOMAIN sent /\ taken[i] = sent[i].payload
    BY <2>1 DEF ReadLoopInv, ReaderInv, TakesWhatWasSent, Sound
  <2> QED
    BY <1>1, <1>2, <1>4, <2>2
<1>8. NoFrameIsLost'
  BY <1>1 DEF NoFrameIsLost, ReadLoopInv, Counted
<1>9. StopsForACause'
  <2>1. ASSUME NEW i \in DOMAIN sent, ~ WellFormed(sent[i])
        PROVE i \in DOMAIN sent' /\ ~ WellFormed(sent'[i])
    BY <1>1, <1>2, <1>4, <2>1
  <2> QED
    BY <1>1, <2>1 DEF ReadLoopInv, ReaderInv, StopsForACause, Stopped, WellFormed, Length
<1>10. Counted'
  BY <1>1 DEF Counted, ReadLoopInv, ParseContentLength
<1>11. Aligned'
  <2> SUFFICES ASSUME \A j \in DOMAIN sent' : j =< n => WellFormed(sent'[j])
               PROVE /\ n =< m + 1
                     /\ loop \in {"handling", "replying"} => position = Offset(sent', n)
                     /\ loop = "header" =>
                           /\ position = Offset(sent', n) + Len(header)
                           /\ n < m + 1 =>
                                 /\ Len(header) =< Len(sent'[n + 1].header)
                                 /\ \A k \in 1 .. Len(header) : header[k] = sent'[n + 1].header[k]
                           /\ n = m + 1 => header = <<>>
                     /\ loop = "payload" =>
                           /\ n < m + 1 /\ header = sent'[n + 1].header
                           /\ position = Offset(sent', n) + Len(header) + 1
    BY <1>1, <1>2 DEF Aligned, Begins, Sound
  <2>1. Sound(n)
    BY <1>5
  <2>2. /\ n =< m
        /\ loop \in {"handling", "replying"} => position = Offset(sent, n)
        /\ loop = "header" =>
              /\ position = Offset(sent, n) + Len(header)
              /\ n < m => Begins(sent[n + 1])
              /\ n = m => header = <<>>
        /\ loop = "payload" =>
              /\ n < m /\ header = sent[n + 1].header
              /\ position = Offset(sent, n) + Len(header) + 1
    BY <2>1 DEF ReadLoopInv, Aligned
  <2>3. Offset(sent', n) = Offset(sent, n)
    BY <1>1, <1>2, <2>2
  <2>4. n < m => sent'[n + 1] = sent[n + 1]
    BY <1>1, <1>2
  <2>5. n = m => Len(sent'[n + 1].header) \in Nat
    <3>1. n = m => sent'[n + 1] \in Frames
      BY <1>1
    <3> QED
      BY <3>1, UnitsShape
  <2> QED
    BY <1>1, <2>2, <2>3, <2>4, <2>5 DEF Begins
<1> QED
  BY <1>6, <1>7, <1>8, <1>9, <1>10, <1>11 DEF ReadLoopInv, ReaderInv

\* Without a new frame the stream and its frames stay.
LEMMA SameFrames ==
    ASSUME sent' = sent
    PROVE /\ Stream' = Stream
          /\ \A k : Sound(k)' = Sound(k)
BY DEF Stream, Sound

\* A unit arrives.
LEMMA DeliverKeeps ==
    ASSUME ReadLoopInv, Deliver
    PROVE ReadLoopInv'
<1>1. /\ ~ eof /\ arrived < Len(Stream) /\ arrived' = arrived + 1
      /\ sent' = sent /\ eof' = eof /\ output' = output /\ loop' = loop /\ raised' = raised
      /\ position' = position /\ header' = header /\ taken' = taken
  BY DEF Deliver
<1>2. Stream' = Stream
  BY <1>1, SameFrames
<1>3. ReaderTypeOK'
  <2>1. arrived \in 0 .. Len(Stream) /\ position \in 0 .. arrived /\ Len(Stream) \in Nat
    BY StreamFacts DEF ReadLoopInv, ReaderInv, ReaderTypeOK
  <2>2. arrived' \in 0 .. Len(Stream) /\ position \in 0 .. arrived'
    BY <1>1, <2>1
  <2> QED
    BY <1>1, <1>2, <2>2 DEF ReadLoopInv, ReaderInv, ReaderTypeOK
<1>4. TakesWhatWasSent' /\ StopsForACause'
  BY <1>1 DEF ReadLoopInv, ReaderInv, TakesWhatWasSent, StopsForACause, Stopped
<1>5. NoFrameIsLost'
  BY <1>1 DEF NoFrameIsLost, ReadLoopInv, Counted
<1>6. Counted'
  BY <1>1 DEF ReadLoopInv, Counted
<1>7. Aligned'
  BY <1>1 DEF ReadLoopInv, Aligned, Sound, Begins
<1> QED
  BY <1>3, <1>4, <1>5, <1>6, <1>7 DEF ReadLoopInv, ReaderInv

\* The host closes the pipe, which had not ended before.
LEMMA HostClosesKeeps ==
    ASSUME ReadLoopInv, HostCloses
    PROVE ReadLoopInv'
<1>1. /\ ~ eof /\ eof' = TRUE /\ output' \in BOOLEAN /\ arrived' = arrived
      /\ sent' = sent /\ loop' = loop /\ raised' = raised
      /\ position' = position /\ header' = header /\ taken' = taken
  BY DEF HostCloses
<1>2. Stream' = Stream
  BY <1>1, SameFrames
<1>3. ReaderTypeOK'
  BY <1>1, <1>2 DEF ReadLoopInv, ReaderInv, ReaderTypeOK
<1>4. TakesWhatWasSent' /\ StopsForACause'
  BY <1>1 DEF ReadLoopInv, ReaderInv, TakesWhatWasSent, StopsForACause
<1>5. NoFrameIsLost'
  BY <1>1 DEF NoFrameIsLost, ReadLoopInv, Counted
<1>6. Counted'
  BY <1>1 DEF ReadLoopInv, Counted
<1>7. Aligned'
  BY <1>1 DEF ReadLoopInv, Aligned, Sound, Begins
<1> QED
  BY <1>3, <1>4, <1>5, <1>6, <1>7 DEF ReadLoopInv, ReaderInv

\* The loop goes on after an answer or a message.
LEMMA GoesOnKeeps ==
    ASSUME ReadLoopInv, Reply \/ Handle
    PROVE ReadLoopInv'
<1>1. /\ sent' = sent /\ arrived' = arrived /\ eof' = eof /\ output' = output
      /\ position' = position /\ header' = header /\ taken' = taken
      /\ loop \in {"replying", "handling"} /\ loop' \in {"header", "failed"}
      /\ loop' = "failed" => raised' \/ ~ output
      /\ raised' \in BOOLEAN
  BY DEF Reply, Handle, hostVars, ReadLoopInv, ReaderInv, ReaderTypeOK
<1>2. Stream' = Stream
  BY <1>1, SameFrames
<1>3. header = <<>> /\ Len(header) = 0 /\ (~ output => eof)
  BY <1>1 DEF ReadLoopInv, Counted
<1>4. position \in Nat /\ Stream \in Seq(Pieces) /\ Len(taken) \in Nat
  BY StreamFacts DEF ReadLoopInv, ReaderInv, ReaderTypeOK, Counted
<1>5. ReaderTypeOK'
  <2>1. header = SubSeq(Stream, position - Len(header) + 1, position)
    BY <1>3, <1>4
  <2> QED
    BY <1>1, <1>2, <2>1 DEF ReadLoopInv, ReaderInv, ReaderTypeOK
<1>6. TakesWhatWasSent'
  BY <1>1 DEF ReadLoopInv, ReaderInv, TakesWhatWasSent
<1>7. NoFrameIsLost' /\ StopsForACause'
  BY <1>1, <1>3 DEF NoFrameIsLost, StopsForACause, Stopped
<1>8. Counted'
  BY <1>1, <1>3 DEF ReadLoopInv, Counted
<1>9. Aligned'
  <2> SUFFICES ASSUME Sound(Len(taken)), loop' = "header"
               PROVE /\ Len(taken) =< Len(sent)
                     /\ position = Offset(sent, Len(taken)) + Len(header)
                     /\ Len(taken) < Len(sent) => Begins(sent[Len(taken) + 1])
    BY <1>1, <1>3 DEF ReadLoopInv, Aligned, Sound, Begins
  <2>1. Len(taken) =< Len(sent) /\ position = Offset(sent, Len(taken))
    BY <1>1 DEF ReadLoopInv, Aligned
  <2>2. Len(taken) < Len(sent) => Len(sent[Len(taken) + 1].header) \in Nat
    <3>1. Len(taken) < Len(sent) => sent[Len(taken) + 1] \in Frames
      BY <1>4 DEF ReadLoopInv, ReaderInv, ReaderTypeOK
    <3> QED
      BY <3>1, UnitsShape
  <2>3. position = Offset(sent, Len(taken)) + Len(header)
    BY <1>3, <1>4, <2>1
  <2> QED
    BY <1>3, <2>1, <2>2, <2>3 DEF Begins
<1> QED
  BY <1>5, <1>6, <1>7, <1>8, <1>9 DEF ReadLoopInv, ReaderInv

\* What the loop reads in a frame's header is the header's next line, and after them
\* the blank one.
LEMMA NextLine ==
    ASSUME ReadLoopInv, loop = "header", position < arrived, Sound(Len(taken)),
           NEW n, n = Len(taken)
    PROVE LET line == Stream[position + 1]
              frame == sent[n + 1] IN
          /\ n < Len(sent) /\ frame \in Frames /\ frame.header \in Seq(Lines)
          /\ position = Offset(sent, n) + Len(header)
          /\ Begins(frame)
          /\ line.kind = "blank" => header = frame.header
          /\ line.kind # "blank" =>
                Len(header) < Len(frame.header) /\ line = frame.header[Len(header) + 1]
<1> DEFINE frame == sent[n + 1]
           line == Stream[position + 1]
<1>1. /\ n =< Len(sent) /\ position = Offset(sent, n) + Len(header)
      /\ n < Len(sent) => Begins(frame)
      /\ n = Len(sent) => header = <<>>
  BY DEF ReadLoopInv, Aligned
<1>2. /\ sent \in Seq(Frames) /\ n \in Nat /\ position < Len(Stream) /\ position \in Nat
      /\ header \in Seq(Lines) /\ Len(header) \in Nat
  <2>1. arrived \in 0 .. Len(Stream) /\ Len(Stream) \in Nat /\ position \in 0 .. arrived
    BY StreamFacts DEF ReadLoopInv, ReaderInv, ReaderTypeOK
  <2> QED
    BY <2>1 DEF ReadLoopInv, ReaderInv, ReaderTypeOK, Counted
<1>3. n < Len(sent)
  <2> SUFFICES ASSUME n = Len(sent) PROVE FALSE
    BY <1>1, <1>2
  <2>1. Len(Stream) = Offset(sent, n) /\ Len(header) = 0 /\ Offset(sent, n) \in Nat
    BY <1>1, <1>2, StreamFacts
  <2> QED
    BY <1>1, <1>2, <2>1
<1>4. /\ frame \in Frames /\ Offset(sent, n) \in Nat
      /\ \A k \in 1 .. Len(Units(frame)) : Stream[Offset(sent, n) + k] = Units(frame)[k]
  <2>1. Len(sent) \in Nat
    BY <1>2, LenProperties
  <2>2. n \in 0 .. Len(sent) - 1 /\ n \in 0 .. Len(sent)
    BY <1>2, <1>3, <2>1
  <2> QED
    BY <1>2, <2>2, StreamFacts
<1> HIDE DEF frame
<1>5. /\ frame.header \in Seq(Lines)
      /\ Len(Units(frame)) = Len(frame.header) + 1 + Len(frame.payload)
      /\ Len(frame.header) \in Nat /\ Len(frame.payload) \in Nat
      /\ \A k \in 1 .. Len(frame.header) : Units(frame)[k] = frame.header[k]
      /\ Units(frame)[Len(frame.header) + 1] = Unit("blank")
  <2>1. frame \in Frames
    BY <1>4
  <2>2. frame.header \in Seq(Lines) /\ frame.payload \in Seq(Pieces)
    BY <2>1, UnitsShape
  <2>3. /\ Len(Units(frame)) = Len(frame.header) + 1 + Len(frame.payload)
        /\ \A k \in 1 .. Len(frame.header) : Units(frame)[k] = frame.header[k]
        /\ Units(frame)[Len(frame.header) + 1] = Unit("blank")
    BY <2>1, UnitsShape
  <2>4. Len(frame.header) \in Nat /\ Len(frame.payload) \in Nat
    BY <2>2, LenProperties
  <2> QED
    BY <2>2, <2>3, <2>4, Zenon
<1>6. Len(header) =< Len(frame.header) /\ \A k \in 1 .. Len(header) : header[k] = frame.header[k]
  BY <1>1, <1>3 DEF Begins
<1>7. position + 1 = Offset(sent, n) + (Len(header) + 1)
  BY <1>1, <1>2, <1>4
<1>8. line = Units(frame)[Len(header) + 1]
  <2>1. /\ Len(header) \in Nat /\ Len(frame.header) \in Nat /\ Len(frame.payload) \in Nat
        /\ Len(header) =< Len(frame.header)
        /\ Len(Units(frame)) = Len(frame.header) + 1 + Len(frame.payload)
    BY <1>2, <1>5, <1>6
  <2>2. Len(header) + 1 \in 1 .. Len(Units(frame))
    <3> DEFINE a == Len(header)
               b == Len(frame.header)
               c == Len(frame.payload)
    <3>1. a \in Nat /\ b \in Nat /\ c \in Nat /\ a =< b /\ Len(Units(frame)) = b + 1 + c
      BY <2>1
    <3> HIDE DEF a, b, c
    <3>2. a + 1 \in 1 .. b + 1 + c
      BY <3>1
    <3> QED
      BY <3>1, <3>2 DEF a
  <2> QED
    BY <1>4, <1>7, <2>2
<1>9. CASE Len(header) = Len(frame.header)
  <2>1. line = Unit("blank")
    BY <1>5, <1>8, <1>9
  <2>2. header = frame.header
    BY <1>2, <1>5, <1>6, <1>9, SeqEqual
  <2> QED
    BY <1>1, <1>3, <1>4, <1>5, <2>1, <2>2 DEF frame, Unit
<1>10. CASE Len(header) < Len(frame.header)
  <2>1. Len(header) + 1 \in 1 .. Len(frame.header)
    BY <1>2, <1>5, <1>10
  <2>2. line = frame.header[Len(header) + 1]
    BY <1>5, <1>8, <2>1
  <2>2a. frame.header[Len(header) + 1] \in Lines
    BY <1>5, <2>1, ElementOfSeq
  <2>3. line.kind # "blank"
    BY <2>2, <2>2a DEF Lines
  <2> QED
    BY <1>1, <1>3, <1>4, <1>5, <1>10, <2>2, <2>3 DEF frame
<1> QED
  BY <1>2, <1>5, <1>6, <1>9, <1>10

\* readline() returns a line of the header or the blank one.
LEMMA ReadLineKeeps ==
    ASSUME ReadLoopInv, ReadLine
    PROVE ReadLoopInv'
<1> DEFINE line == Stream[position + 1]
           n == Len(taken)
<1>1. /\ loop = "header" /\ position < arrived
      /\ sent' = sent /\ arrived' = arrived /\ eof' = eof /\ output' = output
      /\ position' = position + 1 /\ taken' = taken /\ raised' = raised
  BY DEF ReadLine, hostVars
<1>2. /\ line.kind # "blank" => header' = Append(header, line) /\ loop' = "header"
      /\ line.kind = "blank" =>
            /\ header' = header
            /\ loop' = IF ParseContentLength(header) >= 0 THEN "payload" ELSE "failed"
  BY DEF ReadLine
<1>3. Stream' = Stream /\ \A k : Sound(k)' = Sound(k)
  BY <1>1, SameFrames
<1>4. /\ Stream \in Seq(Pieces) /\ Len(Stream) \in Nat /\ position \in Nat /\ position < Len(Stream)
      /\ arrived \in 0 .. Len(Stream) /\ n \in Nat /\ n + Len(header) =< position
      /\ header \in Seq(Lines) /\ Len(header) \in Nat
      /\ header = SubSeq(Stream, position - Len(header) + 1, position)
      /\ sent \in Seq(Frames)
  <2>1. sent \in Seq(Frames) /\ header \in Seq(Lines) /\ taken \in Seq(Seq(Pieces))
    BY DEF ReadLoopInv, ReaderInv, ReaderTypeOK, Counted
  <2>2. Stream \in Seq(Pieces)
    BY <2>1, StreamFacts
  <2> QED
    BY <1>1, <2>1, <2>2 DEF ReadLoopInv, ReaderInv, ReaderTypeOK, Counted
<1>5. line \in Pieces
  BY <1>4
<1>6. loop' \in {"header", "payload", "failed"}
  BY <1>2
<1> HIDE DEF line
<1>7. header' \in Seq(Lines) /\ n + Len(header') =< position + 1
  <2>1. line.kind # "blank" => line \in Lines
    BY <1>5 DEF Lines
  <2>2. /\ header \in Seq(Lines) /\ Len(header) \in Nat /\ n \in Nat /\ position \in Nat
        /\ n + Len(header) =< position
    BY <1>4
  <2>3. CASE line.kind = "blank"
    BY <1>2, <2>2, <2>3
  <2>4. CASE line.kind # "blank"
    <3>1. header' = Append(header, line) /\ line \in Lines
      BY <1>2, <2>1, <2>4
    <3>2. header' \in Seq(Lines) /\ Len(header') = Len(header) + 1
      BY <2>2, <3>1
    <3> QED
      BY <2>2, <3>2
  <2> QED
    BY <2>3, <2>4
<1>8. loop' = "header" => header' = SubSeq(Stream, (position + 1) - Len(header') + 1, position + 1)
  <2> SUFFICES ASSUME line.kind # "blank"
               PROVE Append(header, line)
                       = SubSeq(Stream, (position + 1) - Len(Append(header, line)) + 1,
                                position + 1)
    BY <1>2
  <2> DEFINE a == position - Len(header) + 1
  <2>1. a \in Nat /\ a >= 1 /\ a =< position + 1
    BY <1>4
  <2>2. Len(Append(header, line)) = Len(header) + 1
    BY <1>4, <1>5 DEF Lines
  <2>3. (position + 1) - Len(Append(header, line)) + 1 = a
    BY <1>4, <2>2
  <2>4. SubSeq(Stream, a, position + 1) = Append(SubSeq(Stream, a, position), Stream[position + 1])
    <3>1. /\ Stream \in Seq(Pieces) /\ position \in Nat /\ position + 1 =< Len(Stream)
          /\ Len(Stream) \in Nat
      BY <1>4
    <3> HIDE DEF a
    <3> QED
      BY <2>1, <3>1
  <2> QED
    BY <1>4, <2>3, <2>4 DEF line
<1>9. ReaderTypeOK'
  <2>1. position + 1 \in 0 .. arrived
    BY <1>1, <1>4
  <2> QED
    BY <1>1, <1>3, <1>6, <1>8, <2>1 DEF ReadLoopInv, ReaderInv, ReaderTypeOK
<1>10. TakesWhatWasSent'
  BY <1>1 DEF ReadLoopInv, ReaderInv, TakesWhatWasSent
<1>11. NoFrameIsLost'
  BY <1>6 DEF NoFrameIsLost
<1>12. StopsForACause'
  <2> SUFFICES ASSUME \A i \in DOMAIN sent : WellFormed(sent[i]) PROVE loop' # "failed"
    BY <1>1, <1>6 DEF StopsForACause, Stopped
  <2>1. Sound(n)
    BY DEF Sound
  <2> SUFFICES ASSUME line.kind = "blank" PROVE ParseContentLength(header) >= 0
    BY <1>2
  <2>2. n < Len(sent) /\ sent[n + 1] \in Frames /\ header = sent[n + 1].header
    BY <1>1, <2>1, NextLine DEF line
  <2>3. WellFormed(sent[n + 1])
    BY <1>4, <2>2
  <2>4. ParseContentLength(header) = Len(sent[n + 1].payload)
    BY <2>2, <2>3, ParseWellFormed
  <2>5. sent[n + 1].payload \in Seq(Pieces)
    BY <2>2, UnitsShape
  <2> QED
    BY <2>4, <2>5
<1>13. Counted'
  <2>1. loop' = "payload" => header' = header /\ ParseContentLength(header) >= 0
    BY <1>2
  <2>2. loop' = "payload" => ParseContentLength(header') >= 0 /\ n + Len(header') < position + 1
    BY <1>4, <2>1
  <2> QED
    BY <1>1, <1>6, <1>7, <2>2 DEF ReadLoopInv, Counted
<1>14. Aligned'
  <2> SUFFICES ASSUME Sound(n)
               PROVE /\ n < Len(sent)
                     /\ loop' = "header" =>
                           /\ position + 1 = Offset(sent, n) + Len(header')
                           /\ Len(header') =< Len(sent[n + 1].header)
                           /\ \A k \in 1 .. Len(header') : header'[k] = sent[n + 1].header[k]
                     /\ loop' = "payload" =>
                           /\ header' = sent[n + 1].header
                           /\ position + 1 = Offset(sent, n) + Len(header') + 1
    BY <1>1, <1>4, <1>6 DEF Aligned, Sound, Begins
  <2>1. /\ n < Len(sent) /\ sent[n + 1] \in Frames /\ sent[n + 1].header \in Seq(Lines)
        /\ position = Offset(sent, n) + Len(header) /\ Begins(sent[n + 1])
        /\ line.kind = "blank" => header = sent[n + 1].header
        /\ line.kind # "blank" =>
              Len(header) < Len(sent[n + 1].header) /\ line = sent[n + 1].header[Len(header) + 1]
    BY <1>1, NextLine DEF line
  <2>2. Offset(sent, n) \in Nat
    <3>1. n \in 0 .. Len(sent) /\ sent \in Seq(Frames)
      BY <1>4, <2>1
    <3> QED
      BY <3>1, StreamFacts
  <2>3. CASE line.kind = "blank"
    BY <1>2, <1>4, <2>1, <2>2, <2>3
  <2>4. CASE line.kind # "blank"
    <3>1. /\ Len(header') = Len(header) + 1 /\ header'[Len(header) + 1] = line
          /\ \A k \in 1 .. Len(header) : header'[k] = header[k]
      <4>1. header' = Append(header, line) /\ header \in Seq(Pieces) /\ line \in Pieces
        <5>1. Lines \subseteq Pieces /\ header \in Seq(Lines)
          BY <1>4 DEF Lines
        <5> QED
          BY <1>2, <1>5, <2>4, <5>1, SeqWiden
      <4> QED
        BY <4>1
    <3>2. \A k \in 1 .. Len(header) : header[k] = sent[n + 1].header[k]
      BY <2>1 DEF Begins
    <3>3. \A k \in 1 .. Len(header') : header'[k] = sent[n + 1].header[k]
      <4>1. Len(header) \in Nat /\ line = sent[n + 1].header[Len(header) + 1]
        BY <1>4, <2>1, <2>4
      <4>2. \A k \in 1 .. Len(header') : k \in 1 .. Len(header) \/ k = Len(header) + 1
        BY <3>1, <4>1
      <4> QED
        BY <3>1, <3>2, <4>1, <4>2
    <3>4. position + 1 = Offset(sent, n) + Len(header') /\ Len(header') =< Len(sent[n + 1].header)
      <4>1. /\ Len(header) \in Nat /\ Len(sent[n + 1].header) \in Nat
            /\ position = Offset(sent, n) + Len(header)
            /\ Len(header) < Len(sent[n + 1].header)
        <5>1. sent[n + 1].header \in Seq(Lines)
          BY <2>1
        <5>2. Len(sent[n + 1].header) \in Nat
          BY <5>1, LenProperties
        <5> QED
          BY <1>4, <2>1, <2>4, <5>2
      <4> QED
        BY <2>2, <3>1, <4>1
    <3> QED
      BY <1>2, <2>1, <2>4, <3>3, <3>4
  <2> QED
    BY <2>3, <2>4
<1> QED
  BY <1>9, <1>10, <1>11, <1>12, <1>13, <1>14 DEF ReadLoopInv, ReaderInv

\* After well-formed frames and a well-formed header the next units are the payload
\* that it announced.
LEMMA NextPayload ==
    ASSUME ReadLoopInv, loop = "payload", NEW n, n = Len(taken), Sound(n + 1)
    PROVE LET frame == sent[n + 1] IN
          /\ n < Len(sent) /\ frame \in Frames /\ frame.payload \in Seq(Pieces)
          /\ ParseContentLength(header) = Len(frame.payload)
          /\ position + Len(frame.payload) = Offset(sent, n + 1)
          /\ \A k \in 1 .. Len(frame.payload) : Stream[position + k] = frame.payload[k]
<1> DEFINE frame == sent[n + 1]
           h == Len(frame.header)
           p == Len(frame.payload)
           o == Offset(sent, n)
<1>1. sent \in Seq(Frames) /\ n \in Nat
  BY DEF ReadLoopInv, ReaderInv, ReaderTypeOK, Counted
<1>2. Sound(n)
  BY <1>1 DEF Sound
<1>3. n < Len(sent) /\ header = frame.header /\ position = o + h + 1
  BY <1>2 DEF ReadLoopInv, Aligned
<1>4. /\ frame \in Frames /\ o \in Nat
      /\ Offset(sent, n + 1) = o + Len(Units(frame))
      /\ \A k \in 1 .. Len(Units(frame)) : Stream[o + k] = Units(frame)[k]
  <2>1. n \in 0 .. Len(sent) - 1 /\ n \in 0 .. Len(sent)
    BY <1>1, <1>3
  <2> QED
    BY <1>1, <2>1, StreamFacts
<1>5. WellFormed(frame)
  BY <1>1, <1>3 DEF Sound
<1> HIDE DEF frame
<1>6. /\ frame.header \in Seq(Lines) /\ frame.payload \in Seq(Pieces)
      /\ Len(Units(frame)) = h + 1 + p
      /\ \A k \in 1 .. p : Units(frame)[h + 1 + k] = frame.payload[k]
  BY <1>4, UnitsShape
<1>7. h \in Nat /\ p \in Nat
  BY <1>6, LenProperties
<1>8. ParseContentLength(header) = p
  BY <1>3, <1>4, <1>5, ParseWellFormed
<1> HIDE DEF h, p, o
<1>9. position + p = Offset(sent, n + 1)
  BY <1>3, <1>4, <1>6, <1>7
<1>10. ASSUME NEW k \in 1 .. p PROVE Stream[position + k] = frame.payload[k]
  <2>1. position + k = o + (h + 1 + k) /\ h + 1 + k \in 1 .. Len(Units(frame))
    BY <1>3, <1>4, <1>6, <1>7
  <2> QED
    BY <1>4, <1>6, <2>1
<1> QED
  BY <1>3, <1>4, <1>6, <1>8, <1>9, <1>10 DEF frame, p

\* read() returns the whole payload.
LEMMA ReadPayloadKeeps ==
    ASSUME ReadLoopInv, ReadPayload
    PROVE ReadLoopInv'
<1> DEFINE m == ParseContentLength(header)
           payload == SubSeq(Stream, position + 1, position + m)
           n == Len(taken)
<1>1. /\ loop = "payload" /\ position + m =< arrived
      /\ sent' = sent /\ arrived' = arrived /\ eof' = eof /\ output' = output
      /\ position' = position + m /\ header' = <<>> /\ taken' = Append(taken, payload)
      /\ raised' = raised /\ loop' = AfterPayload(payload)
  BY DEF ReadPayload, hostVars
<1>2. Stream' = Stream /\ \A k : Sound(k)' = Sound(k)
  BY <1>1, SameFrames
<1>3. /\ sent \in Seq(Frames) /\ taken \in Seq(Seq(Pieces)) /\ header \in Seq(Lines)
      /\ m >= 0 /\ n + Len(header) < position
  BY <1>1 DEF ReadLoopInv, ReaderInv, ReaderTypeOK, Counted
<1>4. Stream \in Seq(Pieces)
  BY <1>3, StreamFacts
<1>5. /\ m \in Nat /\ n \in Nat /\ Len(header) \in Nat /\ Len(Stream) \in Nat
      /\ arrived \in 0 .. Len(Stream) /\ position \in 0 .. arrived
  BY <1>3, <1>4, ParseIsInt DEF ReadLoopInv, ReaderInv, ReaderTypeOK
<1>6. loop' \in {"handling", "header", "replying"}
  BY <1>1 DEF AfterPayload
<1>7. /\ payload \in Seq(Pieces) /\ Len(payload) = m
      /\ \A k \in 1 .. m : payload[k] = Stream[position + k]
  <2> DEFINE a == position + 1
             b == position + m
  <2>1. a \in 1 .. Len(Stream) + 1 /\ b \in a - 1 .. Len(Stream) /\ b - a + 1 = m
    <3>1. m \in Nat /\ position + m =< arrived
      BY <1>1, <1>5
    <3> HIDE DEF m
    <3>2. Len(Stream) \in Nat /\ arrived \in 0 .. Len(Stream) /\ position \in 0 .. arrived
      BY <1>5
    <3> QED
      BY <3>1, <3>2
  <2>2. \A k \in 1 .. m : a + k - 1 = position + k
    BY <1>5
  <2> HIDE DEF a, b, m
  <2>3. /\ SubSeq(Stream, a, b) \in Seq(Pieces) /\ Len(SubSeq(Stream, a, b)) = b - a + 1
        /\ \A k \in 1 .. b - a + 1 : SubSeq(Stream, a, b)[k] = Stream[a + k - 1]
    BY <1>4, <2>1
  <2> QED
    BY <2>1, <2>2, <2>3 DEF a, b
<1> HIDE DEF m, payload
<1>8. /\ Len(taken') = n + 1 /\ taken'[n + 1] = payload /\ taken' \in Seq(Seq(Pieces))
      /\ \A i \in 1 .. n : taken'[i] = taken[i]
  BY <1>1, <1>3, <1>7
<1>9. header' = <<>> /\ Len(header') = 0 /\ header' \in Seq(Lines)
  BY <1>1
<1>10. position + m \in 0 .. arrived /\ n + 1 =< position + m
  BY <1>1, <1>3, <1>5
<1>11. ReaderTypeOK'
  <2>1. header' = SubSeq(Stream, (position + m) - Len(header') + 1, position + m)
    BY <1>4, <1>5, <1>9
  <2>2. n + 1 =< Len(Stream)
    BY <1>5, <1>10
  <2> QED
    BY <1>1, <1>2, <1>6, <1>8, <1>10, <2>1, <2>2 DEF ReadLoopInv, ReaderInv, ReaderTypeOK
<1>12. TakesWhatWasSent'
  <2> SUFFICES ASSUME NEW i \in 1 .. n + 1, Sound(i)
               PROVE i \in DOMAIN sent /\ taken'[i] = sent[i].payload
    <3>1. DOMAIN taken' = 1 .. n + 1
      BY <1>8
    <3> QED
      BY <1>1, <3>1 DEF TakesWhatWasSent, Sound
  <2>1. CASE i \in 1 .. n
    <3>1. i \in DOMAIN taken
      BY <1>3, <2>1
    <3>2. i \in DOMAIN sent /\ taken[i] = sent[i].payload
      BY <3>1 DEF ReadLoopInv, ReaderInv, TakesWhatWasSent, Sound
    <3> QED
      BY <1>8, <2>1, <3>2
  <2>2. CASE i = n + 1
    <3>1. /\ n < Len(sent) /\ sent[n + 1].payload \in Seq(Pieces)
          /\ m = Len(sent[n + 1].payload)
          /\ \A k \in 1 .. m : Stream[position + k] = sent[n + 1].payload[k]
      BY <1>1, <2>2, NextPayload DEF m
    <3>2. payload = sent[n + 1].payload
      <4> DEFINE s == sent[n + 1].payload
      <4>1. /\ s \in Seq(Pieces) /\ payload \in Seq(Pieces) /\ Len(payload) = Len(s)
            /\ \A k \in 1 .. Len(payload) : payload[k] = s[k]
        BY <1>7, <3>1
      <4> HIDE DEF s
      <4>2. payload = s
        BY <4>1, SeqEqual
      <4> QED
        BY <4>2 DEF s
    <3> QED
      BY <1>3, <1>5, <1>8, <2>2, <3>1, <3>2
  <2> QED
    BY <1>5, <2>1, <2>2
<1>13. NoFrameIsLost' /\ StopsForACause'
  BY <1>6 DEF NoFrameIsLost, StopsForACause, Stopped
<1>14. Counted'
  <2>1. Len(taken') + Len(header') =< position'
    BY <1>1, <1>5, <1>8, <1>9, <1>10
  <2> QED
    BY <1>1, <1>6, <1>8, <1>9, <2>1 DEF ReadLoopInv, Counted
<1>15. Aligned'
  <2> SUFFICES ASSUME Sound(n + 1)
               PROVE /\ n + 1 =< Len(sent)
                     /\ position + m = Offset(sent, n + 1) /\ Offset(sent, n + 1) \in Nat
                     /\ n + 1 < Len(sent) => 0 =< Len(sent[n + 1 + 1].header)
    BY <1>1, <1>6, <1>8, <1>9 DEF Aligned, Sound, Begins
  <2>1. /\ n < Len(sent) /\ m = Len(sent[n + 1].payload)
        /\ position + Len(sent[n + 1].payload) = Offset(sent, n + 1)
    BY <1>1, NextPayload DEF m
  <2>2. n + 1 \in 0 .. Len(sent)
    BY <1>3, <1>5, <2>1
  <2>3. Offset(sent, n + 1) \in Nat
    BY <1>3, <2>2, StreamFacts
  <2>4. ASSUME n + 1 < Len(sent) PROVE 0 =< Len(sent[n + 1 + 1].header)
    <3>1. sent[n + 1 + 1] \in Frames
      BY <1>3, <1>5, <2>4
    <3>2. sent[n + 1 + 1].header \in Seq(Lines)
      BY <3>1, UnitsShape
    <3> QED
      BY <3>2, LenProperties
  <2> QED
    BY <2>1, <2>2, <2>3, <2>4
<1> QED
  BY <1>11, <1>12, <1>13, <1>14, <1>15 DEF ReadLoopInv, ReaderInv

\* The pipe ends where no further frame is complete.
LEMMA EndOfPipeKeeps ==
    ASSUME ReadLoopInv, EndOfPipe
    PROVE ReadLoopInv'
<1> DEFINE n == Len(taken)
<1>1. /\ eof /\ loop' = "ended"
      /\ sent' = sent /\ arrived' = arrived /\ eof' = eof /\ output' = output
      /\ position' = position /\ header' = header /\ taken' = taken /\ raised' = raised
  BY DEF EndOfPipe, hostVars
<1>2. \/ loop = "header" /\ position = arrived
      \/ loop = "payload" /\ position + ParseContentLength(header) > arrived
  BY DEF EndOfPipe
<1>3. Stream' = Stream
  BY <1>1, SameFrames
<1>4. /\ sent \in Seq(Frames) /\ taken \in Seq(Seq(Pieces)) /\ n \in Nat
      /\ header \in Seq(Lines) /\ Len(header) \in Nat
      /\ Len(Stream) \in Nat /\ arrived \in Nat /\ position \in Nat
  <2>1. /\ sent \in Seq(Frames) /\ taken \in Seq(Seq(Pieces)) /\ header \in Seq(Lines)
        /\ arrived \in 0 .. Len(Stream) /\ position \in 0 .. arrived
    BY DEF ReadLoopInv, ReaderInv, ReaderTypeOK, Counted
  <2>2. Stream \in Seq(Pieces)
    BY <2>1, StreamFacts
  <2> QED
    BY <2>1, <2>2
<1>5. ReaderTypeOK'
  BY <1>1, <1>3 DEF ReadLoopInv, ReaderInv, ReaderTypeOK
<1>6. TakesWhatWasSent' /\ StopsForACause'
  BY <1>1 DEF ReadLoopInv, ReaderInv, TakesWhatWasSent, StopsForACause
<1>7. NoFrameIsLost'
  <2> SUFFICES ASSUME \A i \in DOMAIN sent : WellFormed(sent[i]),
                      NEW i \in DOMAIN sent, Offset(sent, i) =< arrived, i > n
               PROVE FALSE
    BY <1>1, <1>4 DEF NoFrameIsLost, Offset, Upto
  <2>1. Sound(n) /\ Sound(n + 1)
    BY DEF Sound
  <2>2. n \in 0 .. Len(sent) - 1 /\ i \in n + 1 .. Len(sent) /\ n \in 0 .. Len(sent)
        /\ n + 1 \in 0 .. Len(sent) /\ i \in 0 .. Len(sent)
    BY <1>4
  <2>3. /\ Offset(sent, n + 1) = Offset(sent, n) + Len(Units(sent[n + 1]))
        /\ Offset(sent, n + 1) =< Offset(sent, i) /\ sent[n + 1] \in Frames
        /\ Offset(sent, n) \in Nat /\ Offset(sent, n + 1) \in Nat /\ Offset(sent, i) \in Nat
    BY <1>4, <2>2, StreamFacts
  <2>4. CASE loop = "header" /\ position = arrived
    <3>1. position = Offset(sent, n) + Len(header) /\ Len(header) =< Len(sent[n + 1].header)
      BY <2>1, <2>2, <2>4 DEF ReadLoopInv, Aligned, Begins
    <3>2. /\ sent[n + 1].header \in Seq(Lines) /\ sent[n + 1].payload \in Seq(Pieces)
          /\ Len(Units(sent[n + 1])) = Len(sent[n + 1].header) + 1 + Len(sent[n + 1].payload)
      BY <2>3, UnitsShape
    <3>3. Len(sent[n + 1].header) \in Nat /\ Len(sent[n + 1].payload) \in Nat
      BY <3>2, LenProperties
    <3> DEFINE a == Len(header)
               h == Len(sent[n + 1].header)
               p == Len(sent[n + 1].payload)
               o == Offset(sent, n)
               q == Offset(sent, n + 1)
    <3>4. /\ a \in Nat /\ h \in Nat /\ p \in Nat /\ o \in Nat /\ a =< h
          /\ arrived = o + a /\ q = o + (h + 1 + p)
      BY <1>4, <2>3, <2>4, <3>1, <3>2, <3>3
    <3>5. q \in Nat /\ Offset(sent, i) \in Nat /\ q =< Offset(sent, i)
      BY <2>3
    <3> HIDE DEF a, h, p, o, q
    <3>6. q > arrived
      BY <3>4
    <3> QED
      BY <1>4, <3>5, <3>6
  <2>5. CASE loop = "payload" /\ position + ParseContentLength(header) > arrived
    <3>1. position + ParseContentLength(header) = Offset(sent, n + 1)
      BY <2>1, <2>5, NextPayload
    <3> QED
      BY <1>4, <2>3, <2>5, <3>1
  <2> QED
    BY <1>2, <2>4, <2>5
<1>8. Counted'
  BY <1>1 DEF ReadLoopInv, Counted
<1>9. Aligned'
  BY <1>1 DEF ReadLoopInv, Aligned, Sound
<1> QED
  BY <1>5, <1>6, <1>7, <1>8, <1>9 DEF ReadLoopInv, ReaderInv

\* Every step keeps the invariant.
LEMMA ReaderStep ==
    ASSUME ReadLoopInv, [ReaderNext]_readerVars
    PROVE ReadLoopInv'
<1>1. CASE UNCHANGED readerVars
  <2>1. /\ sent' = sent /\ arrived' = arrived /\ eof' = eof /\ output' = output /\ loop' = loop
        /\ position' = position /\ header' = header /\ taken' = taken /\ raised' = raised
    BY <1>1 DEF readerVars, hostVars
  <2>2. Stream' = Stream
    BY <2>1, SameFrames
  <2>3. ReaderTypeOK'
    BY <2>1, <2>2 DEF ReadLoopInv, ReaderInv, ReaderTypeOK
  <2>4. TakesWhatWasSent' /\ NoFrameIsLost' /\ StopsForACause'
    BY <2>1 DEF ReadLoopInv, ReaderInv, TakesWhatWasSent, NoFrameIsLost, StopsForACause, Stopped
  <2>5. Counted' /\ Aligned'
    BY <2>1 DEF ReadLoopInv, Counted, Aligned, Sound, Begins
  <2> QED
    BY <2>3, <2>4, <2>5 DEF ReadLoopInv, ReaderInv
<1>2. CASE \E frame \in Frames : Write(frame)
  BY <1>2, WriteKeeps
<1>3. CASE Deliver
  BY <1>3, DeliverKeeps
<1>4. CASE HostCloses
  BY <1>4, HostClosesKeeps
<1>5. CASE Handle \/ Reply
  BY <1>5, GoesOnKeeps
<1>6. CASE ReadLine
  BY <1>6, ReadLineKeeps
<1>7. CASE ReadPayload
  BY <1>7, ReadPayloadKeeps
<1>8. CASE EndOfPipe
  BY <1>8, EndOfPipeKeeps
<1> QED
  BY <1>1, <1>2, <1>3, <1>4, <1>5, <1>6, <1>7, <1>8 DEF ReaderNext, Loop

\* The read loop takes the frames that were sent, whole and in order, whatever they hold
\* and wherever reads were cut; at the end of the pipe it took every complete one, and it
\* stops for no other cause than the pipe's end, a malformed frame or a handler that
\* raises (runtime.py:425-446, 524-546).
THEOREM FramesAreRead == ReaderSpec => []ReaderInv
<1>1. ReaderInit => ReadLoopInv
  BY ReaderInitHolds
<1>2. ReadLoopInv /\ [ReaderNext]_readerVars => ReadLoopInv'
  BY ReaderStep
<1>3. ReadLoopInv => ReaderInv
  BY DEF ReadLoopInv
<1> QED
  BY <1>1, <1>2, <1>3, PTL DEF ReaderSpec

-----------------------------------------------------------------------------
(* Leases *)

\* The browser lease: only a connection that is held is released, a task is there for
\* somebody who called, and success is what the host did.
BrowserInv ==
    /\ task # "none" => \E c \in Releasers : releaser[c] # "idle"
    /\ (\E c \in Releasers : releaser[c] # "idle") => browser = "held"
    /\ task \in {"answered", "done"} => browserHost = "released"
    /\ \A c \in Releasers : releaser[c] = "ok" => task = "done"

\* The background task: only a lease that was acquired is closed, and what a call of
\* close() learnt is what the host did.
CloseInv ==
    /\ closed => lease \in {"held", "unneeded"}
    /\ \A c \in Closers :
          /\ closer[c].at # "idle" => lease \in {"held", "unneeded"}
          /\ closer[c].at = "answered" => leaseHost = "released"
          /\ closer[c].at = "ok" => closed
    /\ closed /\ lease = "held" => leaseHost = "released"

LeaseIInv == TypeOK /\ BrowserInv /\ CloseInv

-----------------------------------------------------------------------------
(* The invariant *)

\* Init satisfies every part of the invariant.
LEMMA LeaseInitInv == Init => LeaseIInv
  <1>1. Init => TypeOK
    <2>1. <<0, 0>> \in (0..MaxSends) \X (0..MaxSends)
          BY LeasesAssumption
    <2>2. [at |-> "idle", scoped |-> FALSE] \in CloserStates
          BY DEF CloserStates
    <2> QED
          BY <2>1, <2>2 DEF Init, TypeOK, HostStates, CloserStates
  <1>2. Init => BrowserInv /\ CloseInv
        BY DEF Init, BrowserInv, CloseInv
  <1> QED
        BY <1>1, <1>2 DEF LeaseIInv

\* Every step keeps the types.
LEMMA StepType ==
    ASSUME TypeOK, [Next]_vars
    PROVE  TypeOK'
  <1>1. ASSUME CancelHandler PROVE TypeOK'
        BY <1>1, LeasesAssumption
           DEF CancelHandler, browserVars, leaseVars, TypeOK, HostStates, CloserStates
  <1>2. ASSUME HandlerEnds PROVE TypeOK'
        BY <1>2, LeasesAssumption DEF HandlerEnds, TypeOK, HostStates, CloserStates
  <1>3. ASSUME Acquire PROVE TypeOK'
        BY <1>3, LeasesAssumption DEF Acquire, leaseVars, TypeOK, HostStates, CloserStates
  <1>4. ASSUME HostLeases PROVE TypeOK'
        BY <1>4, LeasesAssumption
           DEF HostLeases, leaseVars, TypeOK, HostStates, CloserStates
  <1>5. ASSUME Acquired PROVE TypeOK'
        BY <1>5, LeasesAssumption DEF Acquired, leaseVars, TypeOK, HostStates, CloserStates
  <1>6. ASSUME HostReleases PROVE TypeOK'
        BY <1>6, LeasesAssumption
           DEF HostReleases, leaseVars, TypeOK, HostStates, CloserStates
  <1>7. ASSUME Released PROVE TypeOK'
        BY <1>7, LeasesAssumption
           DEF Released, Told, leaseVars, TypeOK, HostStates, CloserStates
  <1>8. ASSUME ReleaseDone PROVE TypeOK'
        BY <1>8, LeasesAssumption
           DEF ReleaseDone, Told, leaseVars, TypeOK, HostStates, CloserStates
  <1>9. ASSUME NEW c \in Releasers, Release(c) PROVE TypeOK'
        BY <1>9, LeasesAssumption DEF Release, leaseVars, TypeOK, HostStates, CloserStates
  <1>10. ASSUME NEW c \in Releasers, CancelReleaser(c) PROVE TypeOK'
        BY <1>10, LeasesAssumption
           DEF CancelReleaser, leaseVars, TypeOK, HostStates, CloserStates
  <1>11. ASSUME AcquireTask PROVE TypeOK'
        BY <1>11, LeasesAssumption
           DEF AcquireTask, browserVars, TypeOK, HostStates, CloserStates
  <1>12. ASSUME TaskAcquired PROVE TypeOK'
        BY <1>12, LeasesAssumption
           DEF TaskAcquired, browserVars, TypeOK, HostStates, CloserStates
  <1>13. ASSUME NEW c \in Closers, Close(c) PROVE TypeOK'
    <2>1. sends' \in (0..MaxSends) \X (0..MaxSends)
      <3>1. CASE sends' = sends
            BY <3>1 DEF TypeOK
      <3>2. CASE sends[2] < MaxSends /\ sends' = [sends EXCEPT ![2] = @ + 1]
            BY <3>2, LeasesAssumption DEF TypeOK
      <3> QED
            BY <1>13, <3>1, <3>2 DEF Close
    <2>2. closed' \in BOOLEAN /\ UNCHANGED <<handler, browserVars, lease, leaseHost>>
          BY <1>13 DEF Close, TypeOK
    <2>3. closer' \in [Closers -> CloserStates]
      <3>1. CASE closer' = [closer EXCEPT ![c].at = "ok"]
            BY <3>1 DEF CloserStates, TypeOK
      <3>2. CASE closer' = [closer EXCEPT ![c] = [at |-> "asking", scoped |-> handler # "ended"]]
            BY <3>2 DEF CloserStates, TypeOK
      <3> QED
            BY <1>13, <3>1, <3>2 DEF Close, SetCloser
    <2> QED
          BY <2>1, <2>2, <2>3 DEF TypeOK, browserVars
  <1>14. ASSUME NEW c \in Closers, HostEndsLease(c) PROVE TypeOK'
        BY <1>14, LeasesAssumption
           DEF HostEndsLease, SetCloser, browserVars, TypeOK, HostStates, CloserStates
  <1>15. ASSUME NEW c \in Closers, Closes(c) PROVE TypeOK'
        BY <1>15, LeasesAssumption
           DEF Closes, SetCloser, browserVars, TypeOK, HostStates, CloserStates
  <1>16. ASSUME NEW c \in Closers, CancelCloser(c) PROVE TypeOK'
        BY <1>16, LeasesAssumption
           DEF CancelCloser, SetCloser, browserVars, TypeOK, HostStates, CloserStates
  <1>17. CASE UNCHANGED vars
      BY <1>17 DEF vars, browserVars, leaseVars, TypeOK, HostStates, CloserStates
  <1> QED
        BY <1>1, <1>2, <1>3, <1>4, <1>5, <1>6, <1>7, <1>8, <1>9, <1>10, <1>11, <1>12,
         <1>13, <1>14, <1>15, <1>16, <1>17
         DEF Next, BrowserNext, LeaseNext

\* Success of a release is what the host did, whoever waited for it.
LEMMA StepBrowser ==
    ASSUME TypeOK, BrowserInv, [Next]_vars
    PROVE  BrowserInv'
  <1>1. ASSUME CancelHandler PROVE BrowserInv'
        BY <1>1 DEF CancelHandler, browserVars, TypeOK, BrowserInv
  <1>2. ASSUME HandlerEnds PROVE BrowserInv'
        BY <1>2 DEF HandlerEnds, TypeOK, BrowserInv
  <1>3. ASSUME Acquire PROVE BrowserInv'
        BY <1>3 DEF Acquire, TypeOK, BrowserInv
  <1>4. ASSUME HostLeases PROVE BrowserInv'
        BY <1>4 DEF HostLeases, TypeOK, BrowserInv
  <1>5. ASSUME Acquired PROVE BrowserInv'
        BY <1>5 DEF Acquired, TypeOK, BrowserInv
  <1>6. ASSUME HostReleases PROVE BrowserInv'
        BY <1>6 DEF HostReleases, TypeOK, BrowserInv
  <1>7. ASSUME Released PROVE BrowserInv'
        BY <1>7 DEF Released, Told, TypeOK, BrowserInv
  <1>8. ASSUME ReleaseDone PROVE BrowserInv'
        BY <1>8 DEF ReleaseDone, Told, TypeOK, BrowserInv
  <1>9. ASSUME NEW c \in Releasers, Release(c) PROVE BrowserInv'
        BY <1>9 DEF Release, TypeOK, BrowserInv
  <1>10. ASSUME NEW c \in Releasers, CancelReleaser(c) PROVE BrowserInv'
        BY <1>10 DEF CancelReleaser, TypeOK, BrowserInv
  <1>11. ASSUME AcquireTask PROVE BrowserInv'
        BY <1>11 DEF AcquireTask, browserVars, TypeOK, BrowserInv
  <1>12. ASSUME TaskAcquired PROVE BrowserInv'
        BY <1>12 DEF TaskAcquired, browserVars, TypeOK, BrowserInv
  <1>13. ASSUME NEW c \in Closers, Close(c) PROVE BrowserInv'
        BY <1>13 DEF Close, SetCloser, browserVars, TypeOK, BrowserInv
  <1>14. ASSUME NEW c \in Closers, HostEndsLease(c) PROVE BrowserInv'
        BY <1>14 DEF HostEndsLease, SetCloser, browserVars, TypeOK, BrowserInv
  <1>15. ASSUME NEW c \in Closers, Closes(c) PROVE BrowserInv'
        BY <1>15 DEF Closes, SetCloser, browserVars, TypeOK, BrowserInv
  <1>16. ASSUME NEW c \in Closers, CancelCloser(c) PROVE BrowserInv'
        BY <1>16 DEF CancelCloser, SetCloser, browserVars, TypeOK, BrowserInv
  <1>17. CASE UNCHANGED vars
      BY <1>17 DEF vars, browserVars, leaseVars, TypeOK, BrowserInv
  <1> QED
        BY <1>1, <1>2, <1>3, <1>4, <1>5, <1>6, <1>7, <1>8, <1>9, <1>10, <1>11, <1>12,
         <1>13, <1>14, <1>15, <1>16, <1>17
         DEF Next, BrowserNext, LeaseNext

\* Calls of close() that overlap agree with the host.
LEMMA StepClose ==
    ASSUME TypeOK, CloseInv, [Next]_vars
    PROVE  CloseInv'
  <1>1. ASSUME CancelHandler PROVE CloseInv'
        BY <1>1 DEF CancelHandler, leaseVars, TypeOK, CloserStates, CloseInv
  <1>2. ASSUME HandlerEnds PROVE CloseInv'
        BY <1>2 DEF HandlerEnds, TypeOK, CloserStates, CloseInv
  <1>3. ASSUME Acquire PROVE CloseInv'
        BY <1>3 DEF Acquire, leaseVars, TypeOK, CloserStates, CloseInv
  <1>4. ASSUME HostLeases PROVE CloseInv'
        BY <1>4 DEF HostLeases, leaseVars, TypeOK, CloserStates, CloseInv
  <1>5. ASSUME Acquired PROVE CloseInv'
        BY <1>5 DEF Acquired, leaseVars, TypeOK, CloserStates, CloseInv
  <1>6. ASSUME HostReleases PROVE CloseInv'
        BY <1>6 DEF HostReleases, leaseVars, TypeOK, CloserStates, CloseInv
  <1>7. ASSUME Released PROVE CloseInv'
        BY <1>7 DEF Released, Told, leaseVars, TypeOK, CloserStates, CloseInv
  <1>8. ASSUME ReleaseDone PROVE CloseInv'
        BY <1>8 DEF ReleaseDone, Told, leaseVars, TypeOK, CloserStates, CloseInv
  <1>9. ASSUME NEW c \in Releasers, Release(c) PROVE CloseInv'
        BY <1>9 DEF Release, leaseVars, TypeOK, CloserStates, CloseInv
  <1>10. ASSUME NEW c \in Releasers, CancelReleaser(c) PROVE CloseInv'
        BY <1>10 DEF CancelReleaser, leaseVars, TypeOK, CloserStates, CloseInv
  <1>11. ASSUME AcquireTask PROVE CloseInv'
        BY <1>11 DEF AcquireTask, TypeOK, CloserStates, CloseInv
  <1>12. ASSUME TaskAcquired PROVE CloseInv'
        BY <1>12 DEF TaskAcquired, TypeOK, CloserStates, CloseInv
  <1>13. ASSUME NEW c \in Closers, Close(c) PROVE CloseInv'
    <2>1. CASE closed \/ lease = "unneeded"
      <3>1. closer' = [closer EXCEPT ![c].at = "ok"] /\ closed' = TRUE
            BY <1>13, <2>1 DEF Close, SetCloser
      <3>2. lease \in {"held", "unneeded"} /\ UNCHANGED <<lease, leaseHost>>
        BY <1>13 DEF Close
      <3> QED
        BY <2>1, <3>1, <3>2 DEF TypeOK, CloserStates, CloseInv
    <2>2. CASE ~closed /\ lease # "unneeded"
      <3>1. /\ closer' = [closer EXCEPT ![c] = [at |-> "asking", scoped |-> handler # "ended"]]
            /\ closed' = closed
            BY <1>13, <2>2 DEF Close, TypeOK
      <3>2. lease \in {"held", "unneeded"} /\ UNCHANGED <<lease, leaseHost>>
        BY <1>13 DEF Close
      <3> QED
        BY <2>2, <3>1, <3>2 DEF TypeOK, CloserStates, CloseInv
    <2> QED
          BY <2>1, <2>2
  <1>14. ASSUME NEW c \in Closers, HostEndsLease(c) PROVE CloseInv'
    <2>1. closer[c].at = "asking" /\ UNCHANGED <<lease, closed>>
          BY <1>14 DEF HostEndsLease
    <2>2. CASE closer' = [closer EXCEPT ![c].at = "answered"] /\ leaseHost' = "released"
          BY <2>1, <2>2 DEF TypeOK, CloserStates, CloseInv
    <2>3. CASE closer' = [closer EXCEPT ![c].at = "error"] /\ UNCHANGED leaseHost
          BY <2>1, <2>3 DEF TypeOK, CloserStates, CloseInv
    <2> QED
          BY <1>14, <2>2, <2>3 DEF HostEndsLease, SetCloser
  <1>15. ASSUME NEW c \in Closers, Closes(c) PROVE CloseInv'
        BY <1>15 DEF Closes, SetCloser, TypeOK, CloserStates, CloseInv
  <1>16. ASSUME NEW c \in Closers, CancelCloser(c) PROVE CloseInv'
        BY <1>16 DEF CancelCloser, SetCloser, TypeOK, CloserStates, CloseInv
  <1>17. CASE UNCHANGED vars
      BY <1>17 DEF vars, browserVars, leaseVars, TypeOK, CloserStates, CloseInv
  <1> QED
        BY <1>1, <1>2, <1>3, <1>4, <1>5, <1>6, <1>7, <1>8, <1>9, <1>10, <1>11, <1>12,
         <1>13, <1>14, <1>15, <1>16, <1>17
         DEF Next, BrowserNext, LeaseNext

-----------------------------------------------------------------------------
(* The theorems *)

\* The invariant holds in every state that the leases reach.
LEMMA LeaseInductiveInv == Spec => []LeaseIInv
  <1>1. Init => LeaseIInv
        BY LeaseInitInv
  <1>2. LeaseIInv /\ [Next]_vars => LeaseIInv'
        BY StepType, StepBrowser, StepClose DEF LeaseIInv
  <1> QED
        BY <1>1, <1>2, PTL DEF Spec

\* A call of release() or close() that returned means that the host released.
THEOREM LeaseInvariant == Spec => []LeaseInv
  <1>1. LeaseIInv => LeaseInv
        BY DEF LeaseIInv, BrowserInv, CloseInv, LeaseInv, ReturnedMeansReleased
  <1> QED
        BY <1>1, LeaseInductiveInv, PTL

\* After the first close() that returned, the host is not asked to end the lease again.
THEOREM NothingSent == Spec => [][NothingSentAfterClose]_vars
  <1>1. ASSUME LeaseIInv, [Next]_vars PROVE NothingSentAfterClose \/ UNCHANGED vars
    <2>1. ASSUME NEW d \in Closers, closer[d].at = "ok" PROVE sends'[2] = sends[2]
      <3>1. closed
            BY <1>1, <2>1 DEF LeaseIInv, CloseInv
      <3>2. ASSUME NEW c \in Closers, Close(c) PROVE sends' = sends
        BY <3>1, <3>2 DEF Close
      <3>3. ASSUME NEW c \in Releasers, Release(c) PROVE sends'[2] = sends[2]
            BY <1>1, <3>3 DEF Release, LeaseIInv, TypeOK
      <3> QED
        BY <1>1, <3>2, <3>3
           DEF Next, BrowserNext, LeaseNext, CancelHandler, HandlerEnds, Acquire,
               HostLeases, Acquired, HostReleases, Released, ReleaseDone, CancelReleaser,
               AcquireTask, TaskAcquired, HostEndsLease, Closes, CancelCloser, vars
    <2> QED
          BY <2>1 DEF NothingSentAfterClose
  <1> QED
        BY <1>1, LeaseInductiveInv, PTL DEF Spec

-----------------------------------------------------------------------------
(* release() implements the shared cleanup *)

\* At first nobody has called, and the shared cleanup is open.
LEMMA InitRefines == Init => Shared!Init
  BY DEF Init, Shared!Init, ReleasePhase

\* What is not a call, nor the end of an attempt, leaves the phase alone.
LEMMA SamePhase ==
    ASSUME UNCHANGED releaser, task' = task \/ (task = "asking" /\ task' \in {"answered", "failed"})
    PROVE  UNCHANGED Shared!vars
  BY DEF Shared!vars, ReleasePhase

\* Every step is one of the shared cleanup, or changes nothing of it.
LEMMA StepRefines ==
    ASSUME TypeOK, BrowserInv, [Next]_vars
    PROVE  [Shared!Next]_(Shared!vars)
  <1>1. ASSUME NEW c \in Releasers, Release(c) PROVE Shared!Ask(c)
      BY <1>1 DEF Release, Shared!Ask, ReleasePhase, TypeOK
  <1>2. ASSUME NEW c \in Releasers, CancelReleaser(c) PROVE Shared!GiveUp(c)
      BY <1>2 DEF CancelReleaser, Shared!GiveUp, ReleasePhase, TypeOK
  <1>3. ASSUME Released PROVE Shared!Succeed
      BY <1>3 DEF Released, Told, Shared!Succeed, Shared!Told, ReleasePhase
  <1>4. ASSUME ReleaseDone PROVE Shared!Fail
      BY <1>4 DEF ReleaseDone, Told, Shared!Fail, Shared!Told, ReleasePhase, BrowserInv, TypeOK
  <1>5. CASE CancelHandler \/ HandlerEnds \/ Acquire \/ HostLeases \/ Acquired \/ HostReleases
      BY <1>5, SamePhase
         DEF CancelHandler, HandlerEnds, Acquire, HostLeases, Acquired, HostReleases,
             browserVars
  <1>6. CASE LeaseNext \/ UNCHANGED vars
      BY <1>6, SamePhase
         DEF LeaseNext, AcquireTask, TaskAcquired, Close, HostEndsLease, Closes, CancelCloser,
             vars, browserVars
  <1> QED
      BY <1>1, <1>2, <1>3, <1>4, <1>5, <1>6 DEF Next, BrowserNext, Shared!Next

\* Concurrent calls of release() share one request: a call that is cancelled leaves it to
\* the others, and only a failure lets somebody ask again.
THEOREM ReleaseIsShared == Spec => Shared!Spec
  <1>1. Init => Shared!Init
        BY InitRefines
  <1>2. LeaseIInv /\ [Next]_vars => [Shared!Next]_(Shared!vars)
        BY StepRefines DEF LeaseIInv
  <1> QED
        BY <1>1, <1>2, LeaseInductiveInv, PTL DEF Spec, Shared!Spec

=============================================================================
