------------------------- MODULE AgentClient_proofs --------------------------
(***************************************************************************)
(* Theorems about AgentClient for every set of connections, of callers of  *)
(* Session.close() and of calls of Client.close().                         *)
(***************************************************************************)
EXTENDS AgentClient, TLAPS

\* What callers believe of a cleanup is true of it.
BeliefInv ==
    \A c \in Conns : \A x \in Callers :
        /\ knows[c][x] = "waiting" => phase[c] = "running"
        /\ knows[c][x] \in {"ok", "done"} => phase[c] = "confirmed"

\* A connection that is not there yet is in no set and asked to close by nobody.
NotThere ==
    \A c \in Conns : create[c] \in {"idle", "spawning"} =>
        /\ phase[c] = "none" /\ c \notin rpcs /\ c \notin sessions
        /\ \A x \in Callers : knows[c][x] = "idle"

\* Its creator asks when the creation fails, and then its cleanup has begun.
CreatorAsks ==
    \A c \in Conns :
        /\ create[c] \in {"asking", "answered"} => knows[c][Creator] = "idle"
        /\ create[c] = "cleaning" => phase[c] # "open"

\* The coroutines of a Client.close() are there when it has begun.
ChildrenAsk ==
    \A k \in Closers : closing[k] = "idle" =>
        \A c \in Conns : \A x \in Callers : x \in {k} \X Kinds => knows[c][x] = "idle"

IInv == TypeOK /\ AbandonedIsCleanedUp /\ BeliefInv /\ NotThere /\ CreatorAsks /\ ChildrenAsk

-----------------------------------------------------------------------------
(* Callers, and what an action with several of them changes *)

\* The callers are of disjoint kinds, and no two calls of Client.close() share one.
LEMMA Distinct ==
    /\ Creator \in Callers /\ Creator \notin Users /\ Creator \notin Children
    /\ \A u \in Users : u \in Callers /\ u # Creator /\ u \notin Children
    /\ Children \subseteq Callers
    /\ \A x \in Children : x # Creator /\ x \notin Users
  BY CallersAreDistinct DEF Callers, Children, Kinds

\* The coroutines that one Client.close() gathers are its own.
LEMMA OwnChildren ==
    /\ \A k \in Closers, kind \in Kinds :
          <<k, kind>> \in Children /\ <<k, kind>> \in {k} \X Kinds
    /\ \A k \in Closers : {k} \X Kinds \subseteq Children
    /\ \A k, l \in Closers : k # l => ({k} \X Kinds) \cap ({l} \X Kinds) = {}
    /\ "rpc" \in Kinds /\ "session" \in Kinds
  BY DEF Children, Kinds

\* Asking keeps the types and tells the truth to the one who asks.
LEMMA AskEffect ==
    ASSUME TypeOK, NEW c \in Conns, NEW x \in Callers, Ask(c, x)
    PROVE  /\ phase' \in [Conns -> {"none", "open", "running", "confirmed", "failed"}]
           /\ knows' \in [Conns -> [Callers ->
                 {"idle", "created", "waiting", "ok", "error", "gone", "done"}]]
           /\ phase'[c] = IF phase[c] = "confirmed" THEN "confirmed" ELSE "running"
           /\ knows'[c][x] = IF phase[c] = "confirmed" THEN "ok" ELSE "waiting"
           /\ \A d \in Conns : d # c => phase'[d] = phase[d] /\ knows'[d] = knows[d]
           /\ \A y \in Callers : y # x => knows'[c][y] = knows[c][y]
  BY DEF Ask, TypeOK

\* So the beliefs stay true.
LEMMA AskBelief ==
    ASSUME TypeOK, BeliefInv, NEW c \in Conns, NEW x \in Callers, Ask(c, x)
    PROVE  BeliefInv'
  BY AskEffect DEF BeliefInv

\* Client.close() only makes tasks, of its own, for connections that are owned.
LEMMA CloseEffect ==
    ASSUME TypeOK, NEW k \in Closers, Close(k)
    PROVE  /\ knows' \in [Conns -> [Callers ->
                 {"idle", "created", "waiting", "ok", "error", "gone", "done"}]]
           /\ \A c \in Conns, x \in Callers :
                 \/ knows'[c][x] = knows[c][x]
                 \/ /\ knows'[c][x] = "created" /\ c \in rpcs \cup sessions
                    /\ x \in Children /\ x \in {k} \X Kinds
  <1>1. ASSUME NEW c \in Conns, NEW x \in Callers, NEW kind \in Kinds,
               x = <<k, kind>>, c \in Found(kind)
        PROVE  c \in rpcs \cup sessions /\ x \in Children /\ x \in {k} \X Kinds
        BY <1>1, OwnChildren DEF Found
  <1> QED
      BY <1>1 DEF Close, TypeOK

\* The end of rpc.close() is told to one gathered coroutine.
LEMMA RpcClosedEffect ==
    ASSUME NEW c \in Conns, NEW k \in Closers, RpcClosed(c, k)
    PROVE  \E x \in Children :
               /\ knows[c][x] = "ok" /\ knows' = [knows EXCEPT ![c][x] = "done"]
               /\ UNCHANGED <<create, phase, rpcs, sessions, closing>>
  BY OwnChildren DEF RpcClosed

-----------------------------------------------------------------------------
(* Type correctness *)

\* The invariant holds when the client is made.
LEMMA InitInv == Init => IInv
  BY Distinct DEF Init, IInv, TypeOK, AbandonedIsCleanedUp, BeliefInv, NotThere, CreatorAsks,
                    ChildrenAsk

\* Every step keeps the types.
LEMMA StepType ==
    ASSUME TypeOK, [Next]_vars
    PROVE  TypeOK'
  <1> USE Distinct
  <1>1. ASSUME NEW c \in Conns, Create(c) PROVE TypeOK'
      BY <1>1 DEF Create, TypeOK
  <1>2. ASSUME NEW c \in Conns, Spawned(c) PROVE TypeOK'
      BY <1>2 DEF Spawned, TypeOK
  <1>3. ASSUME NEW c \in Conns, SpawnFails(c) PROVE TypeOK'
      BY <1>3 DEF SpawnFails, TypeOK
  <1>4. ASSUME NEW c \in Conns, Answered(c) PROVE TypeOK'
      BY <1>4 DEF Answered, TypeOK
  <1>5. ASSUME NEW c \in Conns, Created(c) PROVE TypeOK'
      BY <1>5 DEF Created, TypeOK
  <1>6. ASSUME NEW c \in Conns, CreateFails(c) PROVE TypeOK'
      BY <1>6, AskEffect DEF CreateFails, TypeOK
  <1>7. ASSUME NEW c \in Conns, CreateCleaned(c) PROVE TypeOK'
      BY <1>7 DEF CreateCleaned, TypeOK
  <1>8. ASSUME NEW c \in Conns, TransportFails(c) PROVE TypeOK'
      BY <1>8 DEF TransportFails, TypeOK
  <1>9. ASSUME NEW c \in Conns, CleanupEnds(c) PROVE TypeOK'
      BY <1>9 DEF CleanupEnds, TypeOK
  <1>10. ASSUME NEW c \in Conns, NEW x \in Callers, CancelWaiter(c, x) PROVE TypeOK'
      BY <1>10 DEF CancelWaiter, TypeOK
  <1>11. ASSUME NEW u \in Users, NEW c \in Conns, UserCloses(u, c) PROVE TypeOK'
      BY <1>11, AskEffect DEF UserCloses, TypeOK
  <1>12. ASSUME NEW c \in Conns, NEW x \in Callers, SessionClosed(c, x) PROVE TypeOK'
      BY <1>12 DEF SessionClosed, DeleteSession, TypeOK
  <1>13. ASSUME NEW k \in Closers, Close(k) PROVE TypeOK'
      BY <1>13, CloseEffect DEF Close, TypeOK
  <1>14. ASSUME NEW c \in Conns, NEW x \in Callers, ChildStarts(c, x) PROVE TypeOK'
      BY <1>14, AskEffect DEF ChildStarts, TypeOK
  <1>15. ASSUME NEW c \in Conns, NEW k \in Closers, RpcClosed(c, k) PROVE TypeOK'
      <2> PICK x \in Children :
            /\ knows' = [knows EXCEPT ![c][x] = "done"]
            /\ UNCHANGED <<create, phase, rpcs, sessions, closing>>
          BY <1>15, RpcClosedEffect
      <2> QED
          BY DEF TypeOK
  <1>16. ASSUME NEW k \in Closers, Gathered(k) PROVE TypeOK'
      BY <1>16 DEF Gathered, TypeOK
  <1>17. ASSUME NEW k \in Closers, GatherFails(k) PROVE TypeOK'
      BY <1>17 DEF GatherFails, TypeOK
  <1>18. ASSUME NEW k \in Closers, CancelClose(k) PROVE TypeOK'
      BY <1>18 DEF CancelClose, TypeOK
  <1>19. ASSUME NEW c \in Conns, NEW x \in Callers, ChildCancelled(c, x) PROVE TypeOK'
      BY <1>19 DEF ChildCancelled, TypeOK
  <1>20. CASE UNCHANGED vars
      BY <1>20 DEF vars, TypeOK
  <1> QED
      BY <1>1, <1>2, <1>3, <1>4, <1>5, <1>6, <1>7, <1>8, <1>9, <1>10, <1>11, <1>12, <1>13,
         <1>14, <1>15, <1>16, <1>17, <1>18, <1>19, <1>20
         DEF Next, CreateNext, ConnNext, CloseNext
-----------------------------------------------------------------------------
(* The invariant *)

\* A creation that raised leaves no connection open.
LEMMA StepAbandoned ==
    ASSUME TypeOK, AbandonedIsCleanedUp, NotThere, CreatorAsks, [Next]_vars
    PROVE  AbandonedIsCleanedUp'
  <1> USE Distinct
  <1>1. ASSUME NEW c \in Conns, Create(c)
        PROVE AbandonedIsCleanedUp'
      BY <1>1 DEF Create, AbandonedIsCleanedUp, NotThere
  <1>2. ASSUME NEW c \in Conns, Spawned(c)
        PROVE AbandonedIsCleanedUp'
      BY <1>2 DEF Spawned, AbandonedIsCleanedUp
  <1>3. ASSUME NEW c \in Conns, SpawnFails(c)
        PROVE AbandonedIsCleanedUp'
      BY <1>3 DEF SpawnFails, AbandonedIsCleanedUp, NotThere
  <1>4. ASSUME NEW c \in Conns, Answered(c)
        PROVE AbandonedIsCleanedUp'
      BY <1>4 DEF Answered, AbandonedIsCleanedUp
  <1>5. ASSUME NEW c \in Conns, Created(c)
        PROVE AbandonedIsCleanedUp'
      BY <1>5 DEF Created, AbandonedIsCleanedUp
  <1>6. ASSUME NEW c \in Conns, CreateFails(c)
        PROVE AbandonedIsCleanedUp'
      BY <1>6, AskEffect DEF CreateFails, AbandonedIsCleanedUp
  <1>7. ASSUME NEW c \in Conns, CreateCleaned(c)
        PROVE AbandonedIsCleanedUp'
      BY <1>7 DEF CreateCleaned, AbandonedIsCleanedUp, CreatorAsks
  <1>8. ASSUME NEW c \in Conns, TransportFails(c)
        PROVE AbandonedIsCleanedUp'
      BY <1>8 DEF TransportFails, AbandonedIsCleanedUp
  <1>9. ASSUME NEW c \in Conns, CleanupEnds(c)
        PROVE AbandonedIsCleanedUp'
      BY <1>9 DEF CleanupEnds, AbandonedIsCleanedUp
  <1>10. ASSUME NEW c \in Conns, NEW x \in Callers, CancelWaiter(c, x)
        PROVE AbandonedIsCleanedUp'
      BY <1>10 DEF CancelWaiter, AbandonedIsCleanedUp
  <1>11. ASSUME NEW u \in Users, NEW c \in Conns, UserCloses(u, c)
        PROVE AbandonedIsCleanedUp'
      BY <1>11, AskEffect DEF UserCloses, AbandonedIsCleanedUp
  <1>12. ASSUME NEW c \in Conns, NEW x \in Callers, SessionClosed(c, x)
        PROVE AbandonedIsCleanedUp'
      BY <1>12 DEF SessionClosed, AbandonedIsCleanedUp
  <1>13. ASSUME NEW k \in Closers, Close(k)
        PROVE AbandonedIsCleanedUp'
      BY <1>13, CloseEffect DEF Close, AbandonedIsCleanedUp
  <1>14. ASSUME NEW c \in Conns, NEW x \in Callers, ChildStarts(c, x)
        PROVE AbandonedIsCleanedUp'
      BY <1>14, AskEffect DEF ChildStarts, AbandonedIsCleanedUp
  <1>15. ASSUME NEW c \in Conns, NEW k \in Closers, RpcClosed(c, k)
        PROVE AbandonedIsCleanedUp'
      BY <1>15, RpcClosedEffect DEF AbandonedIsCleanedUp
  <1>16. ASSUME NEW k \in Closers, Gathered(k)
        PROVE AbandonedIsCleanedUp'
      BY <1>16 DEF Gathered, AbandonedIsCleanedUp
  <1>17. ASSUME NEW k \in Closers, GatherFails(k)
        PROVE AbandonedIsCleanedUp'
      BY <1>17 DEF GatherFails, AbandonedIsCleanedUp
  <1>18. ASSUME NEW k \in Closers, CancelClose(k)
        PROVE AbandonedIsCleanedUp'
      BY <1>18 DEF CancelClose, AbandonedIsCleanedUp
  <1>19. ASSUME NEW c \in Conns, NEW x \in Callers, ChildCancelled(c, x)
        PROVE AbandonedIsCleanedUp'
      BY <1>19 DEF ChildCancelled, AbandonedIsCleanedUp
  <1>20. CASE UNCHANGED vars
      BY <1>20 DEF vars, AbandonedIsCleanedUp
  <1> QED
      BY <1>1, <1>2, <1>3, <1>4, <1>5, <1>6, <1>7, <1>8, <1>9, <1>10, <1>11, <1>12, <1>13,
         <1>14, <1>15, <1>16, <1>17, <1>18, <1>19, <1>20
         DEF Next, CreateNext, ConnNext, CloseNext

\* What callers believe stays true.
LEMMA StepBelief ==
    ASSUME TypeOK, BeliefInv, NotThere, [Next]_vars
    PROVE  BeliefInv'
  <1> USE Distinct
  <1>1. ASSUME NEW c \in Conns, Create(c) PROVE BeliefInv'
      BY <1>1 DEF Create, BeliefInv
  <1>2. ASSUME NEW c \in Conns, Spawned(c) PROVE BeliefInv'
      BY <1>2 DEF Spawned, BeliefInv, NotThere
  <1>3. ASSUME NEW c \in Conns, SpawnFails(c) PROVE BeliefInv'
      BY <1>3 DEF SpawnFails, BeliefInv
  <1>4. ASSUME NEW c \in Conns, Answered(c) PROVE BeliefInv'
      BY <1>4 DEF Answered, BeliefInv
  <1>5. ASSUME NEW c \in Conns, Created(c) PROVE BeliefInv'
      BY <1>5 DEF Created, BeliefInv
  <1>6. ASSUME NEW c \in Conns, CreateFails(c) PROVE BeliefInv'
      BY <1>6, AskBelief DEF CreateFails, BeliefInv
  <1>7. ASSUME NEW c \in Conns, CreateCleaned(c) PROVE BeliefInv'
      BY <1>7 DEF CreateCleaned, BeliefInv
  <1>8. ASSUME NEW c \in Conns, TransportFails(c) PROVE BeliefInv'
      BY <1>8 DEF TransportFails, BeliefInv
  <1>9. ASSUME NEW c \in Conns, CleanupEnds(c) PROVE BeliefInv'
      BY <1>9 DEF CleanupEnds, BeliefInv, TypeOK
  <1>10. ASSUME NEW c \in Conns, NEW x \in Callers, CancelWaiter(c, x) PROVE BeliefInv'
      BY <1>10 DEF CancelWaiter, BeliefInv
  <1>11. ASSUME NEW u \in Users, NEW c \in Conns, UserCloses(u, c) PROVE BeliefInv'
      BY <1>11, AskBelief DEF UserCloses, BeliefInv
  <1>12. ASSUME NEW c \in Conns, NEW x \in Callers, SessionClosed(c, x) PROVE BeliefInv'
      BY <1>12 DEF SessionClosed, BeliefInv
  <1>13. ASSUME NEW k \in Closers, Close(k) PROVE BeliefInv'
      BY <1>13, CloseEffect DEF Close, BeliefInv
  <1>14. ASSUME NEW c \in Conns, NEW x \in Callers, ChildStarts(c, x) PROVE BeliefInv'
      BY <1>14, AskBelief DEF ChildStarts, BeliefInv
  <1>15. ASSUME NEW c \in Conns, NEW k \in Closers, RpcClosed(c, k) PROVE BeliefInv'
      BY <1>15, RpcClosedEffect DEF BeliefInv, TypeOK
  <1>16. ASSUME NEW k \in Closers, Gathered(k) PROVE BeliefInv'
      BY <1>16 DEF Gathered, BeliefInv
  <1>17. ASSUME NEW k \in Closers, GatherFails(k) PROVE BeliefInv'
      BY <1>17 DEF GatherFails, BeliefInv
  <1>18. ASSUME NEW k \in Closers, CancelClose(k) PROVE BeliefInv'
      BY <1>18 DEF CancelClose, BeliefInv
  <1>19. ASSUME NEW c \in Conns, NEW x \in Callers, ChildCancelled(c, x) PROVE BeliefInv'
      BY <1>19 DEF ChildCancelled, BeliefInv
  <1>20. CASE UNCHANGED vars
      BY <1>20 DEF vars, BeliefInv
  <1> QED
      BY <1>1, <1>2, <1>3, <1>4, <1>5, <1>6, <1>7, <1>8, <1>9, <1>10, <1>11, <1>12, <1>13,
         <1>14, <1>15, <1>16, <1>17, <1>18, <1>19, <1>20
         DEF Next, CreateNext, ConnNext, CloseNext

\* Nobody is asked before there is a connection.
LEMMA StepNotThere ==
    ASSUME TypeOK, NotThere, [Next]_vars
    PROVE  NotThere'
  <1> USE Distinct
  <1>1. ASSUME NEW c \in Conns, Create(c) PROVE NotThere'
      BY <1>1 DEF Create, NotThere
  <1>2. ASSUME NEW c \in Conns, Spawned(c) PROVE NotThere'
      BY <1>2 DEF Spawned, NotThere, TypeOK
  <1>3. ASSUME NEW c \in Conns, SpawnFails(c) PROVE NotThere'
      BY <1>3 DEF SpawnFails, NotThere
  <1>4. ASSUME NEW c \in Conns, Answered(c) PROVE NotThere'
      BY <1>4 DEF Answered, NotThere
  <1>5. ASSUME NEW c \in Conns, Created(c) PROVE NotThere'
      BY <1>5 DEF Created, NotThere
  <1>6. ASSUME NEW c \in Conns, CreateFails(c) PROVE NotThere'
      BY <1>6, AskEffect DEF CreateFails, NotThere
  <1>7. ASSUME NEW c \in Conns, CreateCleaned(c) PROVE NotThere'
      BY <1>7 DEF CreateCleaned, NotThere
  <1>8. ASSUME NEW c \in Conns, TransportFails(c) PROVE NotThere'
      BY <1>8 DEF TransportFails, NotThere
  <1>9. ASSUME NEW c \in Conns, CleanupEnds(c) PROVE NotThere'
      BY <1>9 DEF CleanupEnds, NotThere
  <1>10. ASSUME NEW c \in Conns, NEW x \in Callers, CancelWaiter(c, x) PROVE NotThere'
      BY <1>10 DEF CancelWaiter, NotThere
  <1>11. ASSUME NEW u \in Users, NEW c \in Conns, UserCloses(u, c) PROVE NotThere'
      BY <1>11, AskEffect DEF UserCloses, NotThere
  <1>12. ASSUME NEW c \in Conns, NEW x \in Callers, SessionClosed(c, x) PROVE NotThere'
      BY <1>12 DEF SessionClosed, DeleteSession, NotThere
  <1>13. ASSUME NEW k \in Closers, Close(k) PROVE NotThere'
      <2>1. /\ UNCHANGED <<create, phase, rpcs, sessions>>
            /\ \A d \in Conns, x \in Callers :
                  knows'[d][x] = knows[d][x] \/ d \in rpcs \cup sessions
            BY <1>13, CloseEffect DEF Close
      <2> QED
            BY <2>1 DEF NotThere
  <1>14. ASSUME NEW c \in Conns, NEW x \in Callers, ChildStarts(c, x) PROVE NotThere'
      BY <1>14, AskEffect DEF ChildStarts, NotThere
  <1>15. ASSUME NEW c \in Conns, NEW k \in Closers, RpcClosed(c, k) PROVE NotThere'
      BY <1>15, RpcClosedEffect DEF NotThere, TypeOK
  <1>16. ASSUME NEW k \in Closers, Gathered(k) PROVE NotThere'
      BY <1>16 DEF Gathered, NotThere
  <1>17. ASSUME NEW k \in Closers, GatherFails(k) PROVE NotThere'
      BY <1>17 DEF GatherFails, NotThere
  <1>18. ASSUME NEW k \in Closers, CancelClose(k) PROVE NotThere'
      BY <1>18 DEF CancelClose, NotThere
  <1>19. ASSUME NEW c \in Conns, NEW x \in Callers, ChildCancelled(c, x) PROVE NotThere'
      BY <1>19 DEF ChildCancelled, NotThere
  <1>20. CASE UNCHANGED vars
      BY <1>20 DEF vars, NotThere
  <1> QED
      BY <1>1, <1>2, <1>3, <1>4, <1>5, <1>6, <1>7, <1>8, <1>9, <1>10, <1>11, <1>12, <1>13,
         <1>14, <1>15, <1>16, <1>17, <1>18, <1>19, <1>20
         DEF Next, CreateNext, ConnNext, CloseNext

\* The creator asks once the creation failed.
LEMMA StepCreator ==
    ASSUME TypeOK, NotThere, CreatorAsks, [Next]_vars
    PROVE  CreatorAsks'
  <1> USE Distinct
  <1>1. ASSUME NEW c \in Conns, Create(c) PROVE CreatorAsks'
      BY <1>1 DEF Create, CreatorAsks
  <1>2. ASSUME NEW c \in Conns, Spawned(c) PROVE CreatorAsks'
      BY <1>2 DEF Spawned, NotThere, CreatorAsks
  <1>3. ASSUME NEW c \in Conns, SpawnFails(c) PROVE CreatorAsks'
      BY <1>3 DEF SpawnFails, CreatorAsks
  <1>4. ASSUME NEW c \in Conns, Answered(c) PROVE CreatorAsks'
      BY <1>4 DEF Answered, CreatorAsks
  <1>5. ASSUME NEW c \in Conns, Created(c) PROVE CreatorAsks'
      BY <1>5 DEF Created, CreatorAsks
  <1>6. ASSUME NEW c \in Conns, CreateFails(c) PROVE CreatorAsks'
      BY <1>6, AskEffect DEF CreateFails, CreatorAsks, TypeOK
  <1>7. ASSUME NEW c \in Conns, CreateCleaned(c) PROVE CreatorAsks'
      BY <1>7 DEF CreateCleaned, CreatorAsks
  <1>8. ASSUME NEW c \in Conns, TransportFails(c) PROVE CreatorAsks'
      BY <1>8 DEF TransportFails, CreatorAsks
  <1>9. ASSUME NEW c \in Conns, CleanupEnds(c) PROVE CreatorAsks'
      BY <1>9 DEF CleanupEnds, CreatorAsks
  <1>10. ASSUME NEW c \in Conns, NEW x \in Callers, CancelWaiter(c, x) PROVE CreatorAsks'
      BY <1>10 DEF CancelWaiter, CreatorAsks
  <1>11. ASSUME NEW u \in Users, NEW c \in Conns, UserCloses(u, c) PROVE CreatorAsks'
      BY <1>11, AskEffect DEF UserCloses, CreatorAsks
  <1>12. ASSUME NEW c \in Conns, NEW x \in Callers, SessionClosed(c, x) PROVE CreatorAsks'
      BY <1>12 DEF SessionClosed, CreatorAsks
  <1>13. ASSUME NEW k \in Closers, Close(k) PROVE CreatorAsks'
      <2>1. /\ UNCHANGED <<create, phase>>
            /\ \A d \in Conns, x \in Callers : knows'[d][x] = knows[d][x] \/ x \in Children
            BY <1>13, CloseEffect DEF Close
      <2> QED
            BY <2>1 DEF CreatorAsks
  <1>14. ASSUME NEW c \in Conns, NEW x \in Callers, ChildStarts(c, x) PROVE CreatorAsks'
      BY <1>14, AskEffect DEF ChildStarts, NotThere, CreatorAsks
  <1>15. ASSUME NEW c \in Conns, NEW k \in Closers, RpcClosed(c, k) PROVE CreatorAsks'
      BY <1>15, RpcClosedEffect DEF CreatorAsks, TypeOK
  <1>16. ASSUME NEW k \in Closers, Gathered(k) PROVE CreatorAsks'
      BY <1>16 DEF Gathered, CreatorAsks
  <1>17. ASSUME NEW k \in Closers, GatherFails(k) PROVE CreatorAsks'
      BY <1>17 DEF GatherFails, CreatorAsks
  <1>18. ASSUME NEW k \in Closers, CancelClose(k) PROVE CreatorAsks'
      BY <1>18 DEF CancelClose, CreatorAsks
  <1>19. ASSUME NEW c \in Conns, NEW x \in Callers, ChildCancelled(c, x) PROVE CreatorAsks'
      BY <1>19 DEF ChildCancelled, CreatorAsks
  <1>20. CASE UNCHANGED vars
      BY <1>20 DEF vars, CreatorAsks
  <1> QED
      BY <1>1, <1>2, <1>3, <1>4, <1>5, <1>6, <1>7, <1>8, <1>9, <1>10, <1>11, <1>12, <1>13,
         <1>14, <1>15, <1>16, <1>17, <1>18, <1>19, <1>20
         DEF Next, CreateNext, ConnNext, CloseNext

\* Nobody asks for a close() that has not begun.
LEMMA StepChildren ==
    ASSUME TypeOK, ChildrenAsk, [Next]_vars
    PROVE  ChildrenAsk'
  <1> USE Distinct
  <1>1. ASSUME NEW c \in Conns, Create(c) PROVE ChildrenAsk'
      BY <1>1, OwnChildren DEF Create, ChildrenAsk
  <1>2. ASSUME NEW c \in Conns, Spawned(c) PROVE ChildrenAsk'
      BY <1>2, OwnChildren DEF Spawned, ChildrenAsk
  <1>3. ASSUME NEW c \in Conns, SpawnFails(c) PROVE ChildrenAsk'
      BY <1>3, OwnChildren DEF SpawnFails, ChildrenAsk
  <1>4. ASSUME NEW c \in Conns, Answered(c) PROVE ChildrenAsk'
      BY <1>4, OwnChildren DEF Answered, ChildrenAsk
  <1>5. ASSUME NEW c \in Conns, Created(c) PROVE ChildrenAsk'
      BY <1>5, OwnChildren DEF Created, ChildrenAsk
  <1>6. ASSUME NEW c \in Conns, CreateFails(c) PROVE ChildrenAsk'
      BY <1>6, AskEffect, OwnChildren DEF CreateFails, ChildrenAsk
  <1>7. ASSUME NEW c \in Conns, CreateCleaned(c) PROVE ChildrenAsk'
      BY <1>7, OwnChildren DEF CreateCleaned, ChildrenAsk
  <1>8. ASSUME NEW c \in Conns, TransportFails(c) PROVE ChildrenAsk'
      BY <1>8, OwnChildren DEF TransportFails, ChildrenAsk
  <1>9. ASSUME NEW c \in Conns, CleanupEnds(c) PROVE ChildrenAsk'
      BY <1>9, OwnChildren DEF CleanupEnds, ChildrenAsk
  <1>10. ASSUME NEW c \in Conns, NEW x \in Callers, CancelWaiter(c, x) PROVE ChildrenAsk'
      BY <1>10, OwnChildren DEF CancelWaiter, ChildrenAsk
  <1>11. ASSUME NEW u \in Users, NEW c \in Conns, UserCloses(u, c) PROVE ChildrenAsk'
      <2>1. u \in Callers /\ \A k \in Closers : u \notin {k} \X Kinds
            BY OwnChildren
      <2>2. Ask(c, u) /\ UNCHANGED closing
            BY <1>11 DEF UserCloses
      <2>3. \A d \in Conns, x \in Callers : x # u => knows'[d][x] = knows[d][x]
            BY <2>1, <2>2, AskEffect
      <2> QED
            BY <2>1, <2>2, <2>3 DEF ChildrenAsk
  <1>12. ASSUME NEW c \in Conns, NEW x \in Callers, SessionClosed(c, x) PROVE ChildrenAsk'
      BY <1>12, OwnChildren DEF SessionClosed, ChildrenAsk
  <1>13. ASSUME NEW k \in Closers, Close(k) PROVE ChildrenAsk'
      BY <1>13, CloseEffect, OwnChildren DEF Close, ChildrenAsk, TypeOK
  <1>14. ASSUME NEW c \in Conns, NEW x \in Callers, ChildStarts(c, x) PROVE ChildrenAsk'
      BY <1>14, AskEffect, OwnChildren DEF ChildStarts, ChildrenAsk
  <1>15. ASSUME NEW c \in Conns, NEW k \in Closers, RpcClosed(c, k) PROVE ChildrenAsk'
      BY <1>15, RpcClosedEffect, OwnChildren DEF ChildrenAsk, TypeOK
  <1>16. ASSUME NEW k \in Closers, Gathered(k) PROVE ChildrenAsk'
      BY <1>16, OwnChildren DEF Gathered, ChildrenAsk
  <1>17. ASSUME NEW k \in Closers, GatherFails(k) PROVE ChildrenAsk'
      BY <1>17, OwnChildren DEF GatherFails, ChildrenAsk
  <1>18. ASSUME NEW k \in Closers, CancelClose(k) PROVE ChildrenAsk'
      BY <1>18, OwnChildren DEF CancelClose, ChildrenAsk
  <1>19. ASSUME NEW c \in Conns, NEW x \in Callers, ChildCancelled(c, x) PROVE ChildrenAsk'
      BY <1>19, OwnChildren DEF ChildCancelled, ChildrenAsk
  <1>20. CASE UNCHANGED vars
      BY <1>20 DEF vars, ChildrenAsk
  <1> QED
      BY <1>1, <1>2, <1>3, <1>4, <1>5, <1>6, <1>7, <1>8, <1>9, <1>10, <1>11, <1>12, <1>13,
         <1>14, <1>15, <1>16, <1>17, <1>18, <1>19, <1>20
         DEF Next, CreateNext, ConnNext, CloseNext

\* So the invariant holds at all times.
LEMMA InductiveInv == Spec => []IInv
  <1>1. Init => IInv
        BY InitInv
  <1>2. IInv /\ [Next]_vars => IInv'
        BY StepType, StepAbandoned, StepBelief, StepNotThere, StepCreator, StepChildren
           DEF IInv
  <1> QED
        BY <1>1, <1>2, PTL DEF Spec

\* The fields keep their types and no connection stays open after its creation
\* failed (client.py:139-150), whatever is cancelled and however many close it.
THEOREM AlwaysClientInv == Spec => []ClientInv
  <1>1. IInv => ClientInv
        BY DEF IInv, ClientInv
  <1> QED
        BY <1>1, InductiveInv, PTL

-----------------------------------------------------------------------------
(* Who stops owning a connection *)

\* Of all the steps only three take a connection out of _rpcs.
LEMMA WhoDrops ==
    ASSUME [Next]_vars, NEW c \in Conns, c \in rpcs, c \notin rpcs'
    PROVE  \/ CreateCleaned(c)
           \/ \E x \in Callers : SessionClosed(c, x)
           \/ \E k \in Closers : Gathered(k)
  BY ZenonT(30)
     DEF Next, CreateNext, ConnNext, CloseNext, vars, Create, Spawned, SpawnFails, Answered,
         Created, CreateFails, CreateCleaned, TransportFails, CleanupEnds, CancelWaiter,
         UserCloses, SessionClosed, DeleteSession, Close, ChildStarts, RpcClosed, GatherFails,
         CancelClose, ChildCancelled

\* Only Close(k) begins the close k, and only Gathered(k) lets it return.
LEMMA WhoCloses ==
    ASSUME TypeOK, [Next]_vars, NEW k \in Closers, closing'[k] # closing[k]
    PROVE  Close(k) \/ Gathered(k) \/ GatherFails(k) \/ CancelClose(k)
  <1>1. CreateNext => UNCHANGED closing
        BY DEF CreateNext, Create, Spawned, SpawnFails, Answered, Created, CreateFails,
               CreateCleaned
  <1>2. ConnNext => UNCHANGED closing
        BY DEF ConnNext, TransportFails, CleanupEnds, CancelWaiter, UserCloses, SessionClosed,
               ChildStarts, RpcClosed, ChildCancelled
  <1>3. ASSUME NEW l \in Closers, Close(l) \/ Gathered(l) \/ GatherFails(l) \/ CancelClose(l)
        PROVE  k = l
        BY <1>3 DEF Close, Gathered, GatherFails, CancelClose, TypeOK
  <1> QED
        BY <1>1, <1>2, <1>3 DEF Next, CloseNext, vars

\* When every gathered coroutine returned, the connections they were asked for
\* are cleaned up.
LEMMA GatheredConfirms ==
    ASSUME IInv, NEW k \in Closers, Gathered(k), NEW c \in Asked(k)
    PROVE  phase[c] = "confirmed"
  <1>1. PICK kind \in Kinds : knows[c][<<k, kind>>] # "idle"
        BY DEF Asked
  <1>2. c \in Conns /\ knows[c][<<k, kind>>] \in ChildStates(k)
        BY DEF Asked, ChildStates
  <1>3. knows[c][<<k, kind>>] = "done"
        BY <1>1, <1>2 DEF Gathered
  <1>4. <<k, kind>> \in Callers
        BY OwnChildren, Distinct
  <1> QED
        BY <1>2, <1>3, <1>4 DEF IInv, BeliefInv

\* Whoever drops a connection knows its cleanup confirmed, or it came too late.
LEMMA StepDrops == IInv /\ [Next]_vars => DropsOnlyConfirmed
  <1> SUFFICES ASSUME IInv, [Next]_vars, NEW c \in rpcs \ rpcs'
               PROVE  \/ phase[c] = "confirmed"
                      \/ \E k \in Closers : /\ closing[k] = "gathering"
                                            /\ closing'[k] = "returned"
                                            /\ c \notin Asked(k)
      BY DEF DropsOnlyConfirmed
  <1>1. c \in Conns
        BY DEF IInv, TypeOK
  <1>2. CASE CreateCleaned(c)
        BY <1>1, <1>2, Distinct DEF CreateCleaned, IInv, BeliefInv
  <1>3. CASE \E x \in Callers : SessionClosed(c, x)
        BY <1>1, <1>3 DEF SessionClosed, IInv, BeliefInv
  <1>4. ASSUME NEW k \in Closers, Gathered(k)
        PROVE  phase[c] = "confirmed" \/ (/\ closing[k] = "gathering"
                                          /\ closing'[k] = "returned"
                                          /\ c \notin Asked(k))
        BY <1>4, GatheredConfirms DEF Gathered, IInv, TypeOK
  <1> QED
        BY <1>1, <1>2, <1>3, <1>4, WhoDrops

\* A close() returns with everything it asked for confirmed.
LEMMA StepConfirms == IInv /\ [Next]_vars => CloseConfirms
  <1> SUFFICES ASSUME IInv, [Next]_vars, NEW k \in Closers, closing[k] = "gathering",
                      closing'[k] = "returned", NEW c \in Asked(k)
               PROVE  phase[c] = "confirmed"
      BY DEF CloseConfirms
  <1>1. Gathered(k)
        BY WhoCloses DEF IInv, TypeOK, Close, GatherFails, CancelClose
  <1> QED
        BY <1>1, GatheredConfirms

\* A close() that begins makes a task for every owned connection.
LEMMA StepAsksAll == IInv /\ [Next]_vars => CloseAsksAll
  <1> SUFFICES ASSUME IInv, [Next]_vars, NEW k \in Closers, closing[k] = "idle",
                      closing'[k] = "gathering", NEW c \in rpcs
               PROVE  c \in Asked(k)'
      BY DEF CloseAsksAll
  <1>1. Close(k)
        BY WhoCloses DEF IInv, TypeOK, Gathered, GatherFails, CancelClose
  <1>2. c \in Conns /\ <<k, "rpc">> \in Callers /\ c \in Found("rpc")
        BY OwnChildren, Distinct DEF IInv, TypeOK, Found
  <1>3. knows'[c][<<k, "rpc">>] = "created"
        BY <1>1, <1>2, OwnChildren DEF Close
  <1> QED
        BY <1>2, <1>3, OwnChildren DEF Asked

\* A connection is given up only by who knows its process cleaned up, and every
\* Client.close() asks, and when it returns has confirmed, all that was owned when it
\* was called (client.py:146-150, 158-167, 188-190), for any number of each.
THEOREM OwnershipKept == Spec => OwnershipIsKept
  <1>1. IInv /\ [Next]_vars => [DropsOnlyConfirmed /\ CloseConfirms /\ CloseAsksAll]_vars
        BY StepDrops, StepConfirms, StepAsksAll
  <1> QED
        BY <1>1, InductiveInv, PTL DEF Spec, OwnershipIsKept

-----------------------------------------------------------------------------
(* The connection is a shared cleanup *)

\* A step that its callers cannot tell: it spawns the process, makes a task or
\* resumes one that was told of the success.
Quiet(c) ==
    /\ phase'[c] = phase[c] \/ (phase[c] = "none" /\ phase'[c] = "open")
    /\ \A x \in Callers : Shown(knows'[c][x]) = Shown(knows[c][x])

\* What a step of the client may be for one connection.
Moves(c) ==
    \/ TransportFails(c)
    \/ CleanupEnds(c)
    \/ \E x \in Callers : knows[c][x] \in {"idle", "created"} /\ Ask(c, x)
    \/ \E x \in Callers : /\ knows[c][x] = "waiting" /\ UNCHANGED phase
                          /\ knows' = [knows EXCEPT ![c][x] = "gone"]
    \/ Quiet(c)

\* A quiet step is a stutter of the shared cleanup.
LEMMA QuietIsStutter ==
    ASSUME NEW c \in Conns, Quiet(c)
    PROVE  UNCHANGED <<Phase(c), Knows(c)>>
  BY DEF Quiet, Phase, Knows

\* Asking is the abstract Ask, for who had not asked before.
LEMMA AskIsAsk ==
    ASSUME TypeOK, NEW c \in Conns, NEW x \in Callers, Ask(c, x),
           knows[c][x] \in {"idle", "created"}
    PROVE  Shared(c)!Ask(x)
  <1>1. Phase(c) = "confirmed" <=> phase[c] = "confirmed"
        BY DEF Phase
  <1>2. Phase(c)' = IF Phase(c) = "confirmed" THEN "confirmed" ELSE "running"
        BY <1>1, AskEffect DEF Phase
  <1>3. Knows(c)[x] = "idle"
        BY DEF Knows, Shown
  <1>4. Knows(c)' = [Knows(c) EXCEPT ![x] = IF Phase(c) = "confirmed" THEN "ok" ELSE "waiting"]
    <2>1. \A y \in Callers : knows'[c][y] =
             IF y = x THEN IF phase[c] = "confirmed" THEN "ok" ELSE "waiting" ELSE knows[c][y]
          BY AskEffect
    <2> QED
          BY <1>1, <2>1 DEF Knows, Shown
  <1> QED
        BY <1>2, <1>3, <1>4 DEF Shared!Ask

\* A cancelled waiter is the abstract GiveUp.
LEMMA LeavingIsGiveUp ==
    ASSUME TypeOK, NEW c \in Conns, NEW x \in Callers, knows[c][x] = "waiting",
           knows' = [knows EXCEPT ![c][x] = "gone"], UNCHANGED phase
    PROVE  Shared(c)!GiveUp(x)
  <1>1. Knows(c)[x] = "waiting"
        BY DEF Knows, Shown
  <1>2. Knows(c)' = [Knows(c) EXCEPT ![x] = "gone"]
    <2>1. \A y \in Callers : knows'[c][y] = IF y = x THEN "gone" ELSE knows[c][y]
          BY DEF TypeOK
    <2>2. \A y \in Callers : Shown(knows'[c][y]) = IF y = x THEN "gone" ELSE Shown(knows[c][y])
          BY <2>1 DEF Shown
    <2> QED
          BY <2>2 DEF Knows
  <1>3. UNCHANGED Phase(c)
        BY DEF Phase
  <1> QED
        BY <1>1, <1>2, <1>3 DEF Shared!GiveUp

\* The end of an attempt is the abstract one.
LEMMA EndIsEnd ==
    ASSUME TypeOK, NEW c \in Conns, CleanupEnds(c)
    PROVE  Shared(c)!Succeed \/ Shared(c)!Fail
  BY DEF CleanupEnds, Shared!Succeed, Shared!Fail, Shared!Told, Knows, Shown, Phase, TypeOK

\* A failing transport begins the first attempt.
LEMMA FailureIsBegin ==
    ASSUME TypeOK, NEW c \in Conns, TransportFails(c)
    PROVE  Shared(c)!Begin
  BY DEF TransportFails, Shared!Begin, Knows, Phase, TypeOK

\* Every step is one of these for every connection.
LEMMA StepMoves ==
    ASSUME TypeOK, NotThere, CreatorAsks, ChildrenAsk, [Next]_vars, NEW c \in Conns
    PROVE  Moves(c)
  <1> USE Distinct DEF Moves
  <1>1. ASSUME NEW d \in Conns, Create(d) PROVE Moves(c)
      BY <1>1 DEF Create, Quiet
  <1>2. ASSUME NEW d \in Conns, Spawned(d) PROVE Moves(c)
      BY <1>2 DEF Spawned, NotThere, Quiet
  <1>3. ASSUME NEW d \in Conns, SpawnFails(d) PROVE Moves(c)
      BY <1>3 DEF SpawnFails, Quiet
  <1>4. ASSUME NEW d \in Conns, Answered(d) PROVE Moves(c)
      BY <1>4 DEF Answered, Quiet
  <1>5. ASSUME NEW d \in Conns, Created(d) PROVE Moves(c)
      BY <1>5 DEF Created, Quiet
  <1>6. ASSUME NEW d \in Conns, CreateFails(d) PROVE Moves(c)
      BY <1>6, AskEffect DEF CreateFails, CreatorAsks, Quiet
  <1>7. ASSUME NEW d \in Conns, CreateCleaned(d) PROVE Moves(c)
      BY <1>7 DEF CreateCleaned, Quiet
  <1>8. ASSUME NEW d \in Conns, TransportFails(d) PROVE Moves(c)
      BY <1>8 DEF TransportFails, Quiet, TypeOK
  <1>9. ASSUME NEW d \in Conns, CleanupEnds(d) PROVE Moves(c)
      <2>1. CASE d = c
            BY <1>9, <2>1
      <2>2. CASE d # c
            BY <1>9, <2>2 DEF CleanupEnds, Quiet
      <2> QED
            BY <2>1, <2>2
  <1>10. ASSUME NEW d \in Conns, NEW x \in Callers, CancelWaiter(d, x) PROVE Moves(c)
      <2>1. CASE d = c /\ knows[c][x] = "waiting"
        <3>1. knows' = [knows EXCEPT ![c][x] = "gone"] /\ UNCHANGED phase
              BY <1>10, <2>1 DEF CancelWaiter
        <3> QED
              BY <2>1, <3>1
      <2>2. CASE ~(d = c /\ knows[c][x] = "waiting")
        <3>1. UNCHANGED phase /\ \A y \in Callers :
                 (d # c \/ y # x) => knows'[c][y] = knows[c][y]
              BY <1>10 DEF CancelWaiter
        <3>2. d = c => Shown(knows'[c][x]) = Shown(knows[c][x])
              BY <1>10, <2>2 DEF CancelWaiter, Shown
        <3> QED
              BY <3>1, <3>2 DEF Quiet
      <2> QED
            BY <2>1, <2>2
  <1>11. ASSUME NEW u \in Users, NEW d \in Conns, UserCloses(u, d) PROVE Moves(c)
      BY <1>11, AskEffect DEF UserCloses, Quiet
  <1>12. ASSUME NEW d \in Conns, NEW x \in Callers, SessionClosed(d, x) PROVE Moves(c)
      BY <1>12 DEF SessionClosed, Shown, Quiet
  <1>13. ASSUME NEW k \in Closers, Close(k) PROVE Moves(c)
      <2>1. UNCHANGED phase /\ closing[k] = "idle"
            BY <1>13 DEF Close
      <2>2. \A x \in Callers : \/ knows'[c][x] = knows[c][x]
                               \/ knows'[c][x] = "created" /\ knows[c][x] = "idle"
            BY <1>13, <2>1, CloseEffect DEF ChildrenAsk
      <2> QED
            BY <2>1, <2>2 DEF Quiet, Shown
  <1>14. ASSUME NEW d \in Conns, NEW x \in Callers, ChildStarts(d, x) PROVE Moves(c)
      BY <1>14, AskEffect DEF ChildStarts, Quiet
  <1>15. ASSUME NEW d \in Conns, NEW k \in Closers, RpcClosed(d, k) PROVE Moves(c)
      BY <1>15, RpcClosedEffect DEF Shown, Quiet, TypeOK
  <1>16. ASSUME NEW k \in Closers, Gathered(k) PROVE Moves(c)
      BY <1>16 DEF Gathered, Quiet
  <1>17. ASSUME NEW k \in Closers, GatherFails(k) PROVE Moves(c)
      BY <1>17 DEF GatherFails, Quiet
  <1>18. ASSUME NEW k \in Closers, CancelClose(k) PROVE Moves(c)
      BY <1>18 DEF CancelClose, Quiet
  <1>19. ASSUME NEW d \in Conns, NEW x \in Callers, ChildCancelled(d, x) PROVE Moves(c)
      <2>1. CASE d = c /\ knows[c][x] = "waiting"
        <3>1. knows' = [knows EXCEPT ![c][x] = "gone"] /\ UNCHANGED phase
              BY <1>19, <2>1 DEF ChildCancelled
        <3> QED
              BY <2>1, <3>1
      <2>2. CASE ~(d = c /\ knows[c][x] = "waiting")
        <3>1. UNCHANGED phase /\ \A y \in Callers :
                 (d # c \/ y # x) => knows'[c][y] = knows[c][y]
              BY <1>19 DEF ChildCancelled
        <3>2. d = c => Shown(knows'[c][x]) = Shown(knows[c][x])
              BY <1>19, <2>2 DEF ChildCancelled, Shown
        <3> QED
              BY <3>1, <3>2 DEF Quiet
      <2> QED
            BY <2>1, <2>2
  <1>20. CASE UNCHANGED vars
      BY <1>20 DEF vars, Quiet
  <1> QED
      BY <1>1, <1>2, <1>3, <1>4, <1>5, <1>6, <1>7, <1>8, <1>9, <1>10, <1>11, <1>12, <1>13,
         <1>14, <1>15, <1>16, <1>17, <1>18, <1>19, <1>20
         DEF Next, CreateNext, ConnNext, CloseNext

\* Every step is a step of the shared cleanup of each connection, or none.
LEMMA StepShared ==
    ASSUME IInv, [Next]_vars, NEW c \in Conns
    PROVE  Shared(c)!Next \/ UNCHANGED <<Phase(c), Knows(c)>>
  <1>1. Moves(c)
        BY StepMoves DEF IInv
  <1>2. TypeOK
        BY DEF IInv
  <1>3. CASE TransportFails(c)
        BY <1>2, <1>3, FailureIsBegin DEF Shared!Next
  <1>4. CASE CleanupEnds(c)
        BY <1>2, <1>4, EndIsEnd DEF Shared!Next
  <1>5. ASSUME NEW x \in Callers, knows[c][x] \in {"idle", "created"}, Ask(c, x)
        PROVE  Shared(c)!Next
        BY <1>2, <1>5, AskIsAsk DEF Shared!Next
  <1>6. ASSUME NEW x \in Callers, knows[c][x] = "waiting", UNCHANGED phase,
               knows' = [knows EXCEPT ![c][x] = "gone"]
        PROVE  Shared(c)!Next
        BY <1>2, <1>6, LeavingIsGiveUp DEF Shared!Next
  <1>7. CASE Quiet(c)
        BY <1>7, QuietIsStutter
  <1> QED
        BY <1>1, <1>3, <1>4, <1>5, <1>6, <1>7 DEF Moves

\* Every connection of the client behaves as SharedCleanup says (rpc.py:183-201),
\* which AcpRpc implements: one attempt at a time, whose end all its callers learn.
THEOREM ConnectionsAreShared == Spec => UsesSharedCleanup
  <1>1. Init => \A c \in Conns : Shared(c)!Init
        BY DEF Init, Shared!Init, Phase, Knows, Shown
  <1>2. IInv /\ [Next]_vars =>
           [\A c \in Conns : Shared(c)!Next \/ UNCHANGED <<Phase(c), Knows(c)>>]_vars
        BY StepShared
  <1> QED
        BY <1>1, <1>2, InductiveInv, PTL DEF Spec, UsesSharedCleanup
=============================================================================
