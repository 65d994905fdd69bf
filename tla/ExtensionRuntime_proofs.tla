----------------------- MODULE ExtensionRuntime_proofs -----------------------
(***************************************************************************)
(* Proofs about ExtensionRuntime, for all sets of ids, generations, calls  *)
(* and notices.  The inductive invariant IInv adds to the properties what  *)
(* makes them inductive:                                                   *)
(*   - a generation whose cancellation is outstanding, or whose task is    *)
(*     over, has both flags down (FlagsOK);                                *)
(*   - the reader and the closer invalidate accepted generations, and the  *)
(*     reader always the newest of its id (TargetsOK);                     *)
(*   - the request table only ever names the newest generation of an id    *)
(*     (RegistryOK);                                                       *)
(*   - hence a superseded generation has both flags down, and a write that *)
(*     is in progress holds the guard of a generation that has not.        *)
(***************************************************************************)
EXTENDS ExtensionRuntime, TLAPS

Invalidating == {"mark", "marked", "finish", "finished"}

TargetsOK ==
    /\ \A w \in Workers : step[w] \in Invalidating =>
          /\ target[w] \in Generations /\ Accepted(target[w])
          /\ step[w] # "mark" => Silenced(target[w])
    /\ step["reader"] \in Invalidating =>
          latest[idOf[target["reader"]]] = target["reader"]
    /\ \A g \in todo : Accepted(g)

RegistryOK ==
    /\ \A g \in Generations : Accepted(g) => idOf[g] \in Ids
    /\ \A id \in Ids : latest[id] # None => Accepted(latest[id]) /\ idOf[latest[id]] = id
    /\ \A id \in Ids : requestStates[id] # None => requestStates[id] = latest[id]

FlagsOK ==
    \A g \in Generations :
        /\ cancelRequested[g] => Accepted(g) /\ Silenced(g)
        /\ stage[g] \in {"cleaned", "terminal", "terminated", "done", "gone"} => ~active[g]
        /\ stage[g] \in {"terminated", "done", "gone"} => ~terminalValid[g]

SupersededSilenced == \A g \in Generations : Superseded(g) => Silenced(g)

SendersOK ==
    /\ \A g \in Generations : /\ scope[g] = g /\ caller[g] = g
                              /\ InSend(g) => stage[g] = "send"
    /\ \A s \in Senders : at[s] = "idle" => job[s] = "none"

\* What concerns the generations, and what concerns the senders.
RequestsInv == TargetsOK /\ RegistryOK /\ FlagsOK /\ SupersededSilenced /\ LatestIsReachable
SendsInv == SendersOK /\ WritesAreLicensed
IInv == TypeOK /\ RequestsInv /\ SendsInv

USE DEF Workers, Stages, Positions, JobStates, Steps, MaybeGeneration

-----------------------------------------------------------------------------
(* Type correctness *)

LEMMA InitType == Init => TypeOK
  <1> SUFFICES ASSUME Init PROVE TypeOK
      OBVIOUS
  <1>1. \A s \in Senders : OwnGeneration(s) \in MaybeGeneration
      BY DEF OwnGeneration
  <1> QED
      BY <1>1 DEF Init, TypeOK

\* Leaving send() keeps the senders' variables well typed.
LEMMA LeaveType ==
    ASSUME NEW S, TypeOK, Leave(S)
    PROVE  /\ at' \in [Senders -> Positions]
           /\ job' \in [Senders -> JobStates]
           /\ writeLock' \in Senders \cup {None}
           /\ pending' \in SUBSET Calls
  BY DEF Leave, TypeOK

\* The steps of _close keep the workers' variables well typed.
LEMMA CloserType ==
    ASSUME NEW rest \in SUBSET Generations, NEW left \in SUBSET Calls,
           TypeOK, CloserGoesOn(rest, left)
    PROVE  /\ step' \in [Workers -> Steps]
           /\ target' \in [Workers -> MaybeGeneration]
           /\ todo' \in SUBSET Generations
           /\ pending' \in SUBSET Calls
           /\ clientClosed' \in BOOLEAN
  <1>1. CASE rest = {}
      BY <1>1 DEF CloserGoesOn, TypeOK
  <1>2. ASSUME NEW g \in rest,
               target' = [target EXCEPT !["closer"] = g], todo' = rest \ {g},
               step' = [step EXCEPT !["closer"] = "mark"], pending' = left,
               UNCHANGED clientClosed
        PROVE  /\ step' \in [Workers -> Steps]
               /\ target' \in [Workers -> MaybeGeneration]
               /\ todo' \in SUBSET Generations
               /\ pending' \in SUBSET Calls
               /\ clientClosed' \in BOOLEAN
      BY <1>2 DEF TypeOK
  <1> QED
      BY <1>1, <1>2 DEF CloserGoesOn

LEMMA StepType == TypeOK /\ TargetsOK /\ [Next]_vars => TypeOK'
  <1> SUFFICES ASSUME TypeOK, TargetsOK, [Next]_vars PROVE TypeOK'
      OBVIOUS
  <1> USE DEF taskVars, flagVars, registryVars, sendVars, ownerVars, workerVars, closedVars
  <1>1. ASSUME NEW id \in Ids, Accept(id) PROVE TypeOK'
      BY <1>1 DEF Accept, NewGeneration, GoTo, TypeOK
  <1>2. ASSUME NEW id \in Ids, BeginCancel(id) \/ BeginReuse(id) PROVE TypeOK'
    <2>1. CASE BeginCancel(id)
        BY <2>1 DEF BeginCancel, TypeOK
    <2>2. CASE BeginReuse(id)
        BY <2>2 DEF BeginReuse, TypeOK
    <2> QED
        BY <1>2, <2>1, <2>2
  <1>3. ASSUME NEW c \in Calls, HostResponds(c) PROVE TypeOK'
      BY <1>3 DEF HostResponds, TypeOK
  <1>4. CASE ReaderFinishesCancel
      BY <1>4 DEF ReaderFinishesCancel, Unrejected, TypeOK
  <1>5. CASE ReaderFinishesReuse
    <2>1. target["reader"] \in Generations /\ idOf[target["reader"]] \in Ids \cup {None}
        BY <1>5 DEF ReaderFinishesReuse, TargetsOK, Invalidating, TypeOK
    <2>2. pending' \in SUBSET Calls
        BY <1>5 DEF ReaderFinishesReuse, Unrejected, TypeOK
    <2>3. CASE dispClosed
        BY <1>5, <2>2, <2>3 DEF ReaderFinishesReuse, TypeOK
    <2>4. ASSUME NEW g \in Generations, NewGeneration(g, idOf[target["reader"]])
          PROVE  TypeOK'
        BY <1>5, <2>1, <2>2, <2>4 DEF ReaderFinishesReuse, NewGeneration, GoTo, TypeOK
    <2> QED
        BY <1>5, <2>3, <2>4 DEF ReaderFinishesReuse
  <1>6. ASSUME NEW w \in Workers, MarkCancelled(w) \/ MarkFinished(w) PROVE TypeOK'
    <2>1. CASE MarkCancelled(w)
        BY <2>1 DEF MarkCancelled, TypeOK
    <2>2. CASE MarkFinished(w)
        BY <2>2 DEF MarkFinished, TypeOK
    <2> QED
        BY <1>6, <2>1, <2>2
  <1>7. ASSUME NEW w \in Workers, CancelTask(w) PROVE TypeOK'
    <2>1. (stage[target[w]] \notin {"done", "gone"}) \in BOOLEAN
        OBVIOUS
    <2>2. cancelRequested' \in [Generations -> BOOLEAN]
        BY <1>7, <2>1, Zenon DEF CancelTask, TypeOK
    <2> QED
        BY <1>7, <2>2 DEF CancelTask, TypeOK
  <1>8. CASE Close
      BY <1>8 DEF Close, TypeOK
  <1>9. CASE CloserStarts
    <2>1. {requestStates[id] : id \in Ids} \ {None} \in SUBSET Generations
        BY DEF TypeOK
    <2>2. pending \in SUBSET Calls
        BY DEF TypeOK
    <2> QED
        BY <1>9, <2>1, <2>2, CloserType DEF CloserStarts, TypeOK
  <1>10. CASE CloserRejects
    <2>1. Unrejected(target["closer"]) \in SUBSET Calls /\ todo \in SUBSET Generations
        BY DEF Unrejected, TypeOK
    <2> QED
        BY <1>10, <2>1, CloserType DEF CloserRejects, TypeOK
  <1>11. CASE CloserGathers
      BY <1>11 DEF CloserGathers, TypeOK
  <1>12. ASSUME NEW g \in Generations,
                \/ StartTask(g) \/ HandlerRaisesCancelled(g)
                \/ ResumeTerminated(g) \/ MarkTerminalFinished(g)
         PROVE  TypeOK'
      BY <1>12 DEF StartTask, HandlerRaisesCancelled, ResumeTerminated,
                   MarkTerminalFinished, GoTo, TypeOK
  <1>13. ASSUME NEW g \in Generations, HandlerReturns(g) PROVE TypeOK'
    <2>1. shouldRespond' \in [Generations -> BOOLEAN]
        BY <1>13, Zenon DEF HandlerReturns, TypeOK
    <2> QED
        BY <1>13, <2>1 DEF HandlerReturns, GoTo, TypeOK
  <1>14. ASSUME NEW g \in Generations, MarkRequestFinished(g) PROVE TypeOK'
      BY <1>14 DEF MarkRequestFinished, GoTo, TypeOK
  <1>15. ASSUME NEW g \in Generations, ResumeFinished(g) PROVE TypeOK'
    <2>1. pending' \in SUBSET Calls
        BY <1>15 DEF ResumeFinished, Unrejected, TypeOK
    <2>2. stage' \in [Generations -> Stages] /\ at' \in [Senders -> Positions]
        BY <1>15 DEF ResumeFinished, GoTo, TypeOK, Senders
    <2> QED
        BY <1>15, <2>1, <2>2 DEF ResumeFinished, TypeOK
  <1>16. ASSUME NEW g \in Generations, ResumeCleaned(g) PROVE TypeOK'
      BY <1>16 DEF ResumeCleaned, Unrejected, GoTo, TypeOK
  <1>17. ASSUME NEW g \in Generations, DeliverCancel(g) PROVE TypeOK'
    <2>1. stage' \in [Generations -> Stages]
        BY <1>17 DEF DeliverCancel, GoTo, TypeOK
    <2>2. shouldRespond' \in [Generations -> BOOLEAN]
      <3>1. \/ UNCHANGED shouldRespond
            \/ shouldRespond' = [shouldRespond EXCEPT ![g] = FALSE]
            \/ shouldRespond' = [shouldRespond EXCEPT ![g] = active[g]]
          BY <1>17, Zenon DEF DeliverCancel
      <3>2. active[g] \in BOOLEAN /\ shouldRespond \in [Generations -> BOOLEAN]
          BY DEF TypeOK
      <3> QED
          BY <3>1, <3>2, ZenonT(30)
    <2>3. cancelRequested' \in [Generations -> BOOLEAN]
        BY <1>17 DEF DeliverCancel, TypeOK
    <2> QED
        BY <1>17, <2>1, <2>2, <2>3, LeaveType DEF DeliverCancel, TypeOK
  <1>18. ASSUME NEW g \in Generations, RequestDone(g) PROVE TypeOK'
      BY <1>18 DEF RequestDone, GoTo, TypeOK
  <1>19. ASSUME NEW c \in Calls, NEW for \in MaybeGeneration, NEW by \in MaybeGeneration,
                StartCall(c, for, by)
         PROVE  TypeOK'
      BY <1>19 DEF StartCall, TypeOK, Senders
  <1>20. ASSUME NEW n \in Notices, StartNotice(n) PROVE TypeOK'
      BY <1>20 DEF StartNotice, TypeOK, Senders
  <1>21. ASSUME NEW c \in Calls, CallReturns(c) PROVE TypeOK'
      BY <1>21, LeaveType DEF CallReturns, TypeOK
  <1>22. ASSUME NEW s \in Senders, AcquireLock(s) PROVE TypeOK'
      BY <1>22, LeaveType DEF AcquireLock, AfterSend, GoTo, TypeOK
  <1>23. ASSUME NEW s \in Senders, StartWrite(s) \/ EndWrite(s) PROVE TypeOK'
      BY <1>23 DEF StartWrite, EndWrite, TypeOK
  <1>24. ASSUME NEW s \in Senders, LeaveWrite(s) PROVE TypeOK'
      BY <1>24, LeaveType DEF LeaveWrite, AfterSend, GoTo, TypeOK
  <1>25. ASSUME NEW s \in Senders, AbandonSend(s) PROVE TypeOK'
      BY <1>25, LeaveType DEF AbandonSend, TypeOK
  <1>26. CASE UNCHANGED vars
      BY <1>26 DEF vars, TypeOK
  <1> QED
      BY <1>1, <1>2, <1>3, <1>4, <1>5, <1>6, <1>7, <1>8, <1>9, <1>10, <1>11, <1>12, <1>13,
         <1>14, <1>15, <1>16, <1>17, <1>18, <1>19, <1>20, <1>21, <1>22, <1>23, <1>24, <1>25,
         <1>26
      DEF Next, ReaderNext, CloserNext, WorkerNext, TaskNext, CallNext, SendNext

-----------------------------------------------------------------------------
(* The invariant of the requests *)

\* What accepting a generation does to the invariant, given that the newest
\* generation of the id, if there is one, has both flags down.
LEMMA NewGenerationKeeps ==
    ASSUME TypeOK, RequestsInv, NEW g \in Generations, NEW id \in Ids,
           NewGeneration(g, id), UNCHANGED cancelRequested,
           latest[id] # None => Silenced(latest[id]),
           \A w \in Workers : step'[w] \in Invalidating =>
               step'[w] = step[w] /\ target'[w] = target[w],
           step'["reader"] \notin Invalidating,
           todo' = todo
    PROVE  RequestsInv'
  <1> USE DEF TypeOK, RequestsInv, NewGeneration, GoTo, Accepted, Silenced
  <1>0. None \notin Generations
      BY SendersAreDisjoint
  <1>1. TargetsOK'
      BY DEF TargetsOK
  <1>2. RegistryOK'
      BY <1>0 DEF RegistryOK
  <1>3. FlagsOK'
      BY DEF FlagsOK
  <1>4. SupersededSilenced'
      BY <1>0 DEF SupersededSilenced, Superseded, RegistryOK
  <1>5. LatestIsReachable'
      BY <1>0 DEF LatestIsReachable, Superseded, RegistryOK
  <1> QED
      BY <1>1, <1>2, <1>3, <1>4, <1>5

\* A task that moves on keeps the invariant if the flags it leaves behind are down.
LEMMA TaskMoveKeeps ==
    ASSUME TypeOK, RequestsInv, NEW g \in Generations, NEW where \in Stages,
           Accepted(g), where \notin {"new", "gone"}, stage' = [stage EXCEPT ![g] = where],
           active' \in [Generations -> BOOLEAN], terminalValid' \in [Generations -> BOOLEAN],
           \A h \in Generations : /\ active'[h] => active[h]
                                  /\ terminalValid'[h] => terminalValid[h],
           where \in {"cleaned", "terminal", "terminated", "done"} => ~active'[g],
           where \in {"terminated", "done"} => ~terminalValid'[g],
           \A h \in Generations : cancelRequested'[h] => cancelRequested[h],
           UNCHANGED <<registryVars, workerVars>>, stage[g] # "gone"
    PROVE  RequestsInv'
  <1>0. \A h \in Generations : /\ ~active[h] => ~active'[h]
                               /\ ~terminalValid[h] => ~terminalValid'[h]
      OBVIOUS
  <1>1. \A h \in Generations : Silenced(h) => Silenced(h)'
      BY <1>0 DEF Silenced
  <1>9. \A h \in Generations : stage'[h] = IF h = g THEN where ELSE stage[h]
      BY DEF TypeOK
  <1>2. \A h \in Generations : Accepted(h)' <=> Accepted(h)
      BY <1>9 DEF Accepted
  <1>3. TargetsOK'
      BY <1>1, <1>2 DEF TargetsOK, TypeOK, RequestsInv, registryVars, workerVars
  <1>4. RegistryOK'
      BY <1>2 DEF RegistryOK, TypeOK, RequestsInv, registryVars
  <1>5. FlagsOK'
    <2>1. \A h \in Generations : cancelRequested'[h] => Accepted(h)' /\ Silenced(h)'
        BY <1>1, <1>2 DEF FlagsOK, RequestsInv
    <2>2. ASSUME NEW h \in Generations,
                 stage'[h] \in {"cleaned", "terminal", "terminated", "done", "gone"}
          PROVE  ~active'[h]
        BY <1>0, <1>9, <2>2 DEF FlagsOK, RequestsInv
    <2>3. ASSUME NEW h \in Generations, stage'[h] \in {"terminated", "done", "gone"}
          PROVE  ~terminalValid'[h]
        BY <1>0, <1>9, <2>3 DEF FlagsOK, RequestsInv
    <2> QED
        BY <2>1, <2>2, <2>3 DEF FlagsOK
  <1>6. \A h \in Generations : Superseded(h)' <=> Superseded(h)
      BY <1>2 DEF Superseded, registryVars
  <1>7. SupersededSilenced'
      BY <1>1, <1>6 DEF SupersededSilenced, RequestsInv
  <1>8. LatestIsReachable'
      BY <1>9, <1>2, <1>6 DEF LatestIsReachable, RequestsInv, registryVars
  <1> QED
      BY <1>3, <1>4, <1>5, <1>7, <1>8 DEF RequestsInv

\* A step that leaves tasks, flags and registry alone keeps the invariant if the
\* workers it starts or moves have an accepted target.
LEMMA FrameKeeps ==
    ASSUME TypeOK, RequestsInv, UNCHANGED <<stage, cancelRequested, flagVars, registryVars>>,
           TargetsOK'
    PROVE  RequestsInv'
  <1> USE DEF RequestsInv, Accepted, Silenced, registryVars, flagVars
  <1>2. RegistryOK'
      BY DEF RegistryOK
  <1>3. FlagsOK'
      BY DEF FlagsOK
  <1>4. SupersededSilenced'
      BY DEF SupersededSilenced, Superseded
  <1>5. LatestIsReachable'
      BY DEF LatestIsReachable, Superseded
  <1> QED
      BY <1>2, <1>3, <1>4, <1>5

\* The senders' steps leave the workers alone as well.
LEMMA QuietKeeps ==
    ASSUME TypeOK, RequestsInv,
           UNCHANGED <<stage, cancelRequested, flagVars, registryVars, workerVars>>
    PROVE  RequestsInv'
  <1>1. TargetsOK'
      BY DEF RequestsInv, TargetsOK, Accepted, Silenced, registryVars, flagVars, workerVars
  <1> QED
      BY <1>1, FrameKeeps

\* The next iteration of _close over accepted generations.
LEMMA CloserKeeps ==
    ASSUME TypeOK, RequestsInv, UNCHANGED <<stage, cancelRequested, flagVars, registryVars>>,
           NEW rest \in SUBSET Generations, NEW left, CloserGoesOn(rest, left),
           \A g \in rest : Accepted(g)
    PROVE  RequestsInv'
  <1> USE DEF TypeOK, RequestsInv, TargetsOK, Accepted, Silenced, registryVars, flagVars,
              Invalidating
  <1>1. CASE rest = {}
    <2>1. TargetsOK'
        BY <1>1 DEF CloserGoesOn
    <2> QED
        BY <2>1, FrameKeeps
  <1>2. ASSUME NEW g \in rest,
               target' = [target EXCEPT !["closer"] = g], todo' = rest \ {g},
               step' = [step EXCEPT !["closer"] = "mark"]
        PROVE  RequestsInv'
    <2>1. TargetsOK'
        BY <1>2
    <2> QED
        BY <2>1, FrameKeeps
  <1> QED
      BY <1>1, <1>2 DEF CloserGoesOn

\* Invalidating a request takes the flags of its target down, and cancels the
\* task only when both are.
LEMMA WorkerKeeps ==
    ASSUME TypeOK, RequestsInv, NEW w \in Workers,
           MarkCancelled(w) \/ CancelTask(w) \/ MarkFinished(w)
    PROVE  RequestsInv'
  <1> USE DEF taskVars, registryVars, Invalidating
  <1>1. target[w] \in Generations /\ Accepted(target[w])
      BY DEF MarkCancelled, CancelTask, MarkFinished, RequestsInv, TargetsOK
  <1>2. \A h \in Generations : Accepted(h)' <=> Accepted(h)
      BY DEF MarkCancelled, CancelTask, MarkFinished, Accepted
  <1>3. /\ \A h \in Generations : Superseded(h)' <=> Superseded(h)
        /\ RegistryOK' /\ LatestIsReachable'
      BY <1>2 DEF MarkCancelled, CancelTask, MarkFinished, Superseded, RequestsInv, RegistryOK,
                  LatestIsReachable, TypeOK
  <1>4. CASE MarkCancelled(w)
    <2>1. Silenced(target[w])' /\ \A h \in Generations : Silenced(h) => Silenced(h)'
        BY <1>1, <1>4 DEF MarkCancelled, Silenced, TypeOK
    <2>2. TargetsOK'
        BY <1>1, <1>2, <1>4, <2>1 DEF MarkCancelled, TargetsOK, RequestsInv, TypeOK
    <2>3. FlagsOK'
        BY <1>2, <1>4, <2>1 DEF MarkCancelled, FlagsOK, RequestsInv, TypeOK
    <2> QED
        BY <1>3, <2>1, <2>2, <2>3 DEF RequestsInv, SupersededSilenced
  <1>5. CASE CancelTask(w)
    <2>1. \A h \in Generations : Silenced(h)' <=> Silenced(h)
        BY <1>5 DEF CancelTask, Silenced, flagVars
    <2>2. Silenced(target[w])
        BY <1>5 DEF CancelTask, RequestsInv, TargetsOK
    <2>3. TargetsOK'
        BY <1>1, <1>2, <1>5, <2>1 DEF CancelTask, TargetsOK, RequestsInv, TypeOK
    <2>4. \A h \in Generations : h # target[w] => cancelRequested'[h] = cancelRequested[h]
        BY <1>5 DEF CancelTask, TypeOK
    <2>5. FlagsOK'
        BY <1>1, <1>2, <1>5, <2>1, <2>2, <2>4 DEF CancelTask, FlagsOK, RequestsInv, flagVars
    <2> QED
        BY <1>3, <2>1, <2>3, <2>5 DEF RequestsInv, SupersededSilenced
  <1>6. CASE MarkFinished(w)
    <2>1. \A h \in Generations : Silenced(h) => Silenced(h)'
        BY <1>1, <1>6 DEF MarkFinished, Silenced, TypeOK
    <2>2. TargetsOK'
        BY <1>1, <1>2, <1>6, <2>1 DEF MarkFinished, TargetsOK, RequestsInv, TypeOK
    <2>3. FlagsOK'
        BY <1>2, <1>6, <2>1 DEF MarkFinished, FlagsOK, RequestsInv, TypeOK
    <2> QED
        BY <1>3, <2>1, <2>2, <2>3 DEF RequestsInv, SupersededSilenced
  <1> QED
      BY <1>4, <1>5, <1>6

\* The done callback unregisters a generation whose flags are down.
LEMMA DoneKeeps ==
    ASSUME TypeOK, RequestsInv, NEW g \in Generations, RequestDone(g)
    PROVE  RequestsInv'
  <1> USE DEF RequestDone, GoTo, TypeOK
  <1>1. \A h \in Generations : /\ Accepted(h)' <=> Accepted(h)
                               /\ Silenced(h)' <=> Silenced(h)
                               /\ Superseded(h)' <=> Superseded(h)
      BY DEF Accepted, Silenced, Superseded, flagVars
  <1>2. TargetsOK'
      BY <1>1 DEF TargetsOK, RequestsInv, workerVars, Invalidating
  <1>3. RegistryOK'
      BY <1>1 DEF RegistryOK, RequestsInv
  <1>4. FlagsOK'
      BY <1>1 DEF FlagsOK, RequestsInv, flagVars
  <1>5. SupersededSilenced'
      BY <1>1 DEF SupersededSilenced, RequestsInv
  <1>6. LatestIsReachable'
      BY <1>1 DEF LatestIsReachable, RequestsInv, RegistryOK
  <1> QED
      BY <1>2, <1>3, <1>4, <1>5, <1>6 DEF RequestsInv

LEMMA StepRequests == IInv /\ [Next]_vars => RequestsInv'
  <1> SUFFICES ASSUME TypeOK, RequestsInv, SendersOK, [Next]_vars PROVE RequestsInv'
      BY DEF IInv, SendsInv
  <1>1. ASSUME NEW id \in Ids, Accept(id) PROVE RequestsInv'
    <2>1. latest[id] # None => Silenced(latest[id])
        BY <1>1 DEF Accept, RequestsInv, RegistryOK, FlagsOK, LatestIsReachable, Superseded,
                    Accepted, Silenced, TypeOK
    <2>2. PICK g \in Generations : NewGeneration(g, id)
        BY <1>1 DEF Accept
    <2> QED
        BY <1>1, <2>1, <2>2, NewGenerationKeeps DEF Accept, workerVars, Invalidating
  <1>2. ASSUME NEW id \in Ids, BeginCancel(id) \/ BeginReuse(id) PROVE RequestsInv'
    <2>1. /\ requestStates[id] \in Generations /\ Accepted(requestStates[id])
          /\ latest[idOf[requestStates[id]]] = requestStates[id]
        BY <1>2 DEF BeginCancel, BeginReuse, RequestsInv, RegistryOK, TypeOK
    <2>2. CASE BeginCancel(id)
      <3>1. TargetsOK'
          BY <2>1, <2>2 DEF BeginCancel, TargetsOK, RequestsInv, Invalidating, Accepted, Silenced,
                       taskVars, flagVars, registryVars, TypeOK
      <3> QED
          BY <2>2, <3>1, FrameKeeps DEF BeginCancel, taskVars
    <2>3. CASE BeginReuse(id)
      <3>1. TargetsOK'
          BY <2>1, <2>3 DEF BeginReuse, TargetsOK, RequestsInv, Invalidating, Accepted, Silenced,
                       taskVars, flagVars, registryVars, TypeOK
      <3> QED
          BY <2>3, <3>1, FrameKeeps DEF BeginReuse, taskVars
    <2> QED
        BY <1>2, <2>2, <2>3
  <1>3. ASSUME NEW c \in Calls, HostResponds(c) PROVE RequestsInv'
      BY <1>3, QuietKeeps DEF HostResponds, taskVars
  <1>4. CASE ReaderFinishesCancel
    <2>1. TargetsOK'
        BY <1>4 DEF ReaderFinishesCancel, TargetsOK, RequestsInv, Invalidating, Accepted,
                    Silenced, taskVars, flagVars, registryVars, TypeOK
    <2> QED
        BY <1>4, <2>1, FrameKeeps DEF ReaderFinishesCancel, taskVars
  <1>5. CASE ReaderFinishesReuse
    <2> DEFINE previous == target["reader"]
    <2>1. /\ previous \in Generations /\ Silenced(previous)
          /\ idOf[previous] \in Ids /\ latest[idOf[previous]] = previous
        BY <1>5 DEF ReaderFinishesReuse, RequestsInv, TargetsOK, RegistryOK, Invalidating
    <2>2. CASE dispClosed
      <3>1. TargetsOK'
          BY <1>5, <2>2 DEF ReaderFinishesReuse, TargetsOK, RequestsInv, Invalidating, Accepted,
                       Silenced, flagVars, registryVars, TypeOK
      <3> QED
          BY <1>5, <2>2, <3>1, FrameKeeps DEF ReaderFinishesReuse
    <2>3. CASE ~dispClosed
      <3>1. PICK g \in Generations : NewGeneration(g, idOf[previous])
          BY <1>5, <2>3 DEF ReaderFinishesReuse
      <3>2. /\ UNCHANGED <<cancelRequested, todo>>
            /\ step'["reader"] = "idle"
            /\ step'["closer"] = step["closer"] /\ target'["closer"] = target["closer"]
          BY <1>5 DEF ReaderFinishesReuse, TypeOK
      <3>3. /\ step'["reader"] \notin Invalidating
            /\ \A w \in Workers : step'[w] \in Invalidating =>
                  step'[w] = step[w] /\ target'[w] = target[w]
          BY <3>2 DEF Invalidating
      <3> QED
          BY <2>1, <3>1, <3>2, <3>3, NewGenerationKeeps
    <2> QED
        BY <2>2, <2>3
  <1>6. ASSUME NEW w \in Workers, MarkCancelled(w) \/ CancelTask(w) \/ MarkFinished(w)
        PROVE  RequestsInv'
      BY <1>6, WorkerKeeps
  <1>7. CASE Close
    <2>1. TargetsOK'
        BY <1>7 DEF Close, TargetsOK, RequestsInv, Invalidating, Accepted, Silenced, taskVars,
                    flagVars, registryVars, TypeOK
    <2> QED
        BY <1>7, <2>1, FrameKeeps DEF Close, taskVars
  <1>8. CASE CloserStarts
    <2> DEFINE rest == {requestStates[id] : id \in Ids} \ {None}
    <2>1. rest \in SUBSET Generations /\ \A g \in rest : Accepted(g)
        BY DEF TypeOK, RequestsInv, RegistryOK
    <2> QED
        BY <1>8, <2>1, CloserKeeps DEF CloserStarts, taskVars
  <1>9. CASE CloserRejects
    <2>1. todo \in SUBSET Generations /\ \A g \in todo : Accepted(g)
        BY DEF TypeOK, RequestsInv, TargetsOK
    <2> QED
        BY <1>9, <2>1, CloserKeeps DEF CloserRejects, taskVars
  <1>10. CASE CloserGathers
    <2>1. TargetsOK'
        BY <1>10 DEF CloserGathers, TargetsOK, RequestsInv, Invalidating, Accepted, Silenced,
                     taskVars, flagVars, registryVars, TypeOK
    <2> QED
        BY <1>10, <2>1, FrameKeeps DEF CloserGathers, taskVars
  <1>11. ASSUME NEW g \in Generations, StartTask(g) PROVE RequestsInv'
      BY <1>11, TaskMoveKeeps DEF StartTask, Resumable, GoTo, Accepted, flagVars, TypeOK
  <1>12. ASSUME NEW g \in Generations, HandlerReturns(g) PROVE RequestsInv'
      BY <1>12, TaskMoveKeeps DEF HandlerReturns, Resumable, GoTo, Accepted, flagVars, TypeOK
  <1>13. ASSUME NEW g \in Generations, HandlerRaisesCancelled(g) PROVE RequestsInv'
      BY <1>13, TaskMoveKeeps
      DEF HandlerRaisesCancelled, Resumable, GoTo, Accepted, flagVars, TypeOK
  <1>14. ASSUME NEW g \in Generations, MarkRequestFinished(g) PROVE RequestsInv'
    <2>1. /\ active' \in [Generations -> BOOLEAN] /\ ~active'[g]
          /\ \A h \in Generations : active'[h] => active[h]
        BY <1>14 DEF MarkRequestFinished, TypeOK
    <2>2. /\ Accepted(g) /\ stage[g] # "gone"
          /\ \E where \in {"finished", "cleaned"} : stage' = [stage EXCEPT ![g] = where]
        BY <1>14 DEF MarkRequestFinished, GoTo, Accepted
    <2> QED
        BY <1>14, <2>1, <2>2, TaskMoveKeeps DEF MarkRequestFinished, TypeOK
  <1>15. ASSUME NEW g \in Generations, ResumeFinished(g) PROVE RequestsInv'
      BY <1>15, TaskMoveKeeps DEF ResumeFinished, Resumable, GoTo, Accepted, flagVars, TypeOK
  <1>16. ASSUME NEW g \in Generations, ResumeCleaned(g) PROVE RequestsInv'
    <2>1. ~active[g]
        BY <1>16 DEF ResumeCleaned, Resumable, RequestsInv, FlagsOK
    <2> QED
        BY <1>16, <2>1, TaskMoveKeeps DEF ResumeCleaned, Resumable, GoTo, Accepted, flagVars, TypeOK
  <1>17. ASSUME NEW g \in Generations, MarkTerminalFinished(g) PROVE RequestsInv'
    <2>1. ~active[g]
        BY <1>17 DEF MarkTerminalFinished, RequestsInv, FlagsOK
    <2>2. /\ terminalValid' \in [Generations -> BOOLEAN] /\ ~terminalValid'[g]
          /\ \A h \in Generations : terminalValid'[h] => terminalValid[h]
        BY <1>17 DEF MarkTerminalFinished, TypeOK
    <2> QED
        BY <1>17, <2>1, <2>2, TaskMoveKeeps DEF MarkTerminalFinished, GoTo, Accepted, TypeOK
  <1>18. ASSUME NEW g \in Generations, ResumeTerminated(g) PROVE RequestsInv'
    <2>1. ~active[g] /\ ~terminalValid[g]
        BY <1>18 DEF ResumeTerminated, Resumable, RequestsInv, FlagsOK
    <2> QED
        BY <1>18, <2>1, TaskMoveKeeps
        DEF ResumeTerminated, Resumable, GoTo, Accepted, flagVars, TypeOK
  <1>19. ASSUME NEW g \in Generations, DeliverCancel(g) PROVE RequestsInv'
    <2>1. ~active[g] /\ ~terminalValid[g] /\ Accepted(g)
        BY <1>19 DEF DeliverCancel, RequestsInv, FlagsOK, Silenced
    <2>2. \A h \in Generations : cancelRequested'[h] => cancelRequested[h]
        BY <1>19 DEF DeliverCancel, TypeOK
    <2>3. PICK where \in {"done", "handler", "finish", "cleanup"} :
              stage' = [stage EXCEPT ![g] = where] /\ stage[g] # "gone"
        BY <1>19 DEF DeliverCancel, GoTo
    <2> QED
        BY <1>19, <2>1, <2>2, <2>3, TaskMoveKeeps DEF DeliverCancel, flagVars, TypeOK
  <1>20. ASSUME NEW g \in Generations, RequestDone(g) PROVE RequestsInv'
      BY <1>20, DoneKeeps
  <1>21. ASSUME NEW c \in Calls, NEW for \in MaybeGeneration, NEW by \in MaybeGeneration,
                StartCall(c, for, by)
         PROVE  RequestsInv'
      BY <1>21, QuietKeeps DEF StartCall, taskVars
  <1>22. ASSUME NEW n \in Notices, StartNotice(n) PROVE RequestsInv'
      BY <1>22, QuietKeeps DEF StartNotice, taskVars
  <1>23. ASSUME NEW c \in Calls, CallReturns(c) PROVE RequestsInv'
      BY <1>23, QuietKeeps DEF CallReturns, taskVars
  <1>24. ASSUME NEW s \in Senders, AcquireLock(s) \/ LeaveWrite(s) PROVE RequestsInv'
    <2>1. UNCHANGED <<cancelRequested, flagVars, registryVars, workerVars>>
        BY <1>24 DEF AcquireLock, LeaveWrite
    <2>2. CASE UNCHANGED stage
        BY <2>1, <2>2, QuietKeeps
    <2>3. CASE s \in Generations /\ GoTo(s, "cleanup")
      <3>1. stage[s] = "send"
          BY <1>24, <2>3 DEF AcquireLock, LeaveWrite, SendersOK, InSend
      <3> QED
          BY <2>1, <2>3, <3>1, TaskMoveKeeps DEF GoTo, Accepted, flagVars, TypeOK
    <2> QED
        BY <1>24, <2>2, <2>3 DEF AcquireLock, LeaveWrite, AfterSend
  <1>25. ASSUME NEW s \in Senders, StartWrite(s) \/ EndWrite(s) \/ AbandonSend(s)
         PROVE  RequestsInv'
      BY <1>25, QuietKeeps DEF StartWrite, EndWrite, AbandonSend, taskVars
  <1>26. CASE UNCHANGED vars
      BY <1>26, QuietKeeps DEF vars, taskVars
  <1> QED
      BY <1>1, <1>2, <1>3, <1>4, <1>5, <1>6, <1>7, <1>8, <1>9, <1>10, <1>11, <1>12, <1>13,
         <1>14, <1>15, <1>16, <1>17, <1>18, <1>19, <1>20, <1>21, <1>22, <1>23, <1>24, <1>25,
         <1>26
      DEF Next, ReaderNext, CloserNext, WorkerNext, TaskNext, CallNext, SendNext

-----------------------------------------------------------------------------
(* The invariant of the senders *)

\* The guard: taking flags of g down while no write of g is in progress.
LEMMA MarkKeepsLicenses ==
    ASSUME TypeOK, SendsInv, NEW g \in Generations, GuardFree(g), UNCHANGED <<job, scope>>,
           \A h \in Generations \ {g} : /\ active'[h] = active[h]
                                        /\ terminalValid'[h] = terminalValid[h]
    PROVE  WritesAreLicensed'
  <1> SUFFICES ASSUME NEW s \in Senders, job[s] = "writing"
               PROVE  Valid(s)'
      BY DEF WritesAreLicensed
  <1>1. Valid(s) /\ scope[s] # g /\ scope[s] \in MaybeGeneration
      BY DEF SendsInv, WritesAreLicensed, GuardFree, TypeOK
  <1>2. s \in Generations => scope[s] = s
      BY DEF SendsInv, SendersOK
  <1> QED
      BY <1>1, <1>2 DEF Valid

\* Flags that only go up, and writes that only end, keep writes licensed.
LEMMA UpKeepsLicenses ==
    ASSUME TypeOK, SendsInv, UNCHANGED scope,
           \A h \in Generations : /\ active[h] => active'[h]
                                  /\ terminalValid[h] => terminalValid'[h],
           \A s \in Senders : job'[s] = "writing" => job[s] = "writing"
    PROVE  WritesAreLicensed'
  <1> SUFFICES ASSUME NEW s \in Senders, job'[s] = "writing"
               PROVE  Valid(s)'
      BY DEF WritesAreLicensed
  <1>1. Valid(s) /\ scope[s] \in MaybeGeneration
      BY DEF SendsInv, WritesAreLicensed, TypeOK
  <1> QED
      BY <1>1 DEF Valid

\* Leaving send() starts no write.
LEMMA LeaveJobs ==
    ASSUME TypeOK, NEW S, Leave(S)
    PROVE  /\ \A s \in Senders : job'[s] = "writing" => job[s] = "writing"
           /\ \A s \in Senders : at'[s] = IF s \in S THEN "ended" ELSE at[s]
           /\ \A s \in Senders \ S : job'[s] = job[s]
  BY DEF Leave, TypeOK

\* What a step must do to the senders' positions for SendersOK to survive.
LEMMA SendersKeep ==
    ASSUME TypeOK, SendersOK, UNCHANGED ownerVars,
           \A s \in Senders : at'[s] = "idle" => at[s] = "idle" /\ job'[s] = job[s],
           \A g \in Generations : InSend(g)' /\ InSend(g) => stage'[g] = stage[g],
           \A g \in Generations : InSend(g)' /\ ~InSend(g) => stage'[g] = "send"
    PROVE  SendersOK'
  BY DEF SendersOK, ownerVars

\* A step that leaves flags, jobs, owners and positions alone, and moves no task
\* away from "send", keeps the senders' invariant.
LEMMA SendFrame ==
    ASSUME TypeOK, SendsInv, UNCHANGED <<flagVars, job, at, ownerVars>>,
           \A g \in Generations : stage[g] = "send" => stage'[g] = "send"
    PROVE  SendsInv'
  <1>1. SendersOK'
      BY SendersKeep DEF SendsInv, SendersOK, InSend
  <1>2. WritesAreLicensed'
      BY UpKeepsLicenses DEF SendsInv, flagVars, ownerVars
  <1> QED
      BY <1>1, <1>2 DEF SendsInv

\* So does a step that takes flags of one unguarded generation down.
LEMMA SendMark ==
    ASSUME TypeOK, SendsInv, NEW g \in Generations, GuardFree(g),
           UNCHANGED <<job, at, ownerVars>>,
           \A h \in Generations \ {g} : /\ active'[h] = active[h]
                                        /\ terminalValid'[h] = terminalValid[h],
           \A h \in Generations : stage[h] = "send" => stage'[h] = "send"
    PROVE  SendsInv'
  <1>1. SendersOK'
      BY SendersKeep DEF SendsInv, SendersOK, InSend
  <1>2. WritesAreLicensed'
      BY MarkKeepsLicenses DEF ownerVars
  <1> QED
      BY <1>1, <1>2 DEF SendsInv

\* So does a sender that leaves, whatever its task does next.
LEMMA SendLeave ==
    ASSUME TypeOK, SendsInv, NEW S, Leave(S), UNCHANGED <<flagVars, ownerVars>>,
           \A g \in Generations \ S : stage[g] = "send" /\ InSend(g) => stage'[g] = "send"
    PROVE  SendsInv'
  <1>1. SendersOK'
      BY LeaveJobs, SendersKeep DEF SendsInv, SendersOK, InSend, Senders
  <1>2. WritesAreLicensed'
      BY LeaveJobs, UpKeepsLicenses DEF flagVars, ownerVars
  <1> QED
      BY <1>1, <1>2 DEF SendsInv

LEMMA StepSends == IInv /\ [Next]_vars => SendsInv'
  <1> SUFFICES ASSUME TypeOK, RequestsInv, SendsInv, [Next]_vars PROVE SendsInv'
      BY DEF IInv
  <1>1. ASSUME NEW g \in Generations, NEW id, NewGeneration(g, id),
               UNCHANGED <<at, job, ownerVars>>
        PROVE  SendsInv'
    <2>1. /\ \A h \in Generations : /\ active[h] => active'[h]
                                    /\ terminalValid[h] => terminalValid'[h]
          /\ \A h \in Generations : stage[h] = "send" => stage'[h] = "send"
        BY <1>1 DEF NewGeneration, GoTo, TypeOK
    <2>2. WritesAreLicensed'
        BY <1>1, <2>1, UpKeepsLicenses DEF ownerVars
    <2>3. SendersOK'
        BY <1>1, <2>1, SendersKeep DEF SendsInv, SendersOK, InSend
    <2> QED
        BY <2>2, <2>3 DEF SendsInv
  <1>2. ASSUME NEW id \in Ids, Accept(id) PROVE SendsInv'
      BY <1>1, <1>2 DEF Accept, sendVars
  <1>3. ASSUME NEW id \in Ids, BeginCancel(id) \/ BeginReuse(id) PROVE SendsInv'
      BY <1>3, SendFrame DEF BeginCancel, BeginReuse, sendVars, taskVars
  <1>4. ASSUME NEW c \in Calls, HostResponds(c) PROVE SendsInv'
      BY <1>4, SendFrame DEF HostResponds, taskVars
  <1>5. CASE ReaderFinishesCancel
      BY <1>5, SendFrame DEF ReaderFinishesCancel, taskVars
  <1>6. CASE ReaderFinishesReuse
      BY <1>1, <1>6, SendFrame DEF ReaderFinishesReuse
  <1>7. ASSUME NEW w \in Workers, MarkCancelled(w) PROVE SendsInv'
    <2>1. target[w] \in Generations
        BY <1>7 DEF MarkCancelled, RequestsInv, TargetsOK, Invalidating
    <2>2. \A h \in Generations \ {target[w]} : /\ active'[h] = active[h]
                                               /\ terminalValid'[h] = terminalValid[h]
        BY <1>7 DEF MarkCancelled, TypeOK
    <2> QED
        BY <1>7, <2>1, <2>2, SendMark DEF MarkCancelled, sendVars, taskVars
  <1>8. ASSUME NEW w \in Workers, MarkFinished(w) PROVE SendsInv'
    <2>1. target[w] \in Generations
        BY <1>8 DEF MarkFinished, RequestsInv, TargetsOK, Invalidating
    <2>2. \A h \in Generations \ {target[w]} : /\ active'[h] = active[h]
                                               /\ terminalValid'[h] = terminalValid[h]
        BY <1>8 DEF MarkFinished, TypeOK
    <2> QED
        BY <1>8, <2>1, <2>2, SendMark DEF MarkFinished, sendVars, taskVars
  <1>9. ASSUME NEW w \in Workers, CancelTask(w) PROVE SendsInv'
      BY <1>9, SendFrame DEF CancelTask, sendVars
  <1>10. CASE Close \/ CloserStarts \/ CloserRejects \/ CloserGathers
      BY <1>10, SendFrame DEF Close, CloserStarts, CloserRejects, CloserGathers, sendVars, taskVars
  <1>11. ASSUME NEW g \in Generations,
                \/ StartTask(g) \/ HandlerReturns(g) \/ HandlerRaisesCancelled(g)
                \/ ResumeCleaned(g) \/ ResumeTerminated(g) \/ RequestDone(g)
         PROVE  SendsInv'
    <2>1. UNCHANGED <<flagVars, job, at, ownerVars>>
        BY <1>11 DEF StartTask, HandlerReturns, HandlerRaisesCancelled, ResumeCleaned,
                     ResumeTerminated, RequestDone, sendVars
    <2>2. stage[g] # "send" /\ \E where \in Stages : stage' = [stage EXCEPT ![g] = where]
        BY <1>11 DEF StartTask, HandlerReturns, HandlerRaisesCancelled, ResumeCleaned,
                     ResumeTerminated, RequestDone, Resumable, GoTo
    <2> QED
        BY <2>1, <2>2, SendFrame DEF TypeOK
  <1>12. ASSUME NEW g \in Generations, MarkRequestFinished(g) PROVE SendsInv'
    <2>1. /\ \A h \in Generations \ {g} : active'[h] = active[h]
          /\ \A h \in Generations : stage[h] = "send" => stage'[h] = "send"
        BY <1>12 DEF MarkRequestFinished, GoTo, TypeOK
    <2> QED
        BY <1>12, <2>1, SendMark DEF MarkRequestFinished, sendVars
  <1>13. ASSUME NEW g \in Generations, MarkTerminalFinished(g) PROVE SendsInv'
    <2>1. /\ \A h \in Generations \ {g} : terminalValid'[h] = terminalValid[h]
          /\ \A h \in Generations : stage[h] = "send" => stage'[h] = "send"
        BY <1>13 DEF MarkTerminalFinished, GoTo, TypeOK
    <2> QED
        BY <1>13, <2>1, SendMark DEF MarkTerminalFinished, sendVars
  <1>14. ASSUME NEW g \in Generations, ResumeFinished(g) PROVE SendsInv'
    <2>1. SendersOK'
        BY <1>14, SendersKeep
        DEF ResumeFinished, Resumable, GoTo, SendsInv, SendersOK, InSend, Senders, TypeOK
    <2>2. WritesAreLicensed'
        BY <1>14, UpKeepsLicenses DEF ResumeFinished, flagVars, ownerVars
    <2> QED
        BY <2>1, <2>2 DEF SendsInv
  <1>15. ASSUME NEW g \in Generations, DeliverCancel(g) PROVE SendsInv'
    <2>1. \A h \in Generations : h # g => stage'[h] = stage[h]
        BY <1>15 DEF DeliverCancel, GoTo, TypeOK
    <2>2. InSend(g) => g \in OpenSends(g)
        BY DEF OpenSends, SendsInv, SendersOK, Senders
    <2> QED
        BY <1>15, <2>1, <2>2, SendLeave DEF DeliverCancel
  <1>16. ASSUME NEW c \in Calls, NEW for \in MaybeGeneration, NEW by \in MaybeGeneration,
                StartCall(c, for, by)
         PROVE  SendsInv'
    <2>1. c \in Senders /\ c \notin Generations /\ job[c] = "none"
        BY <1>16, SendersAreDisjoint DEF StartCall, SendsInv, SendersOK, Senders
    <2>2. /\ \A s \in Senders : s # c =>
                scope'[s] = scope[s] /\ at'[s] = at[s] /\ caller'[s] = caller[s]
          /\ at'[c] = "lock"
          /\ UNCHANGED <<job, stage, flagVars>>
        BY <1>16, <2>1 DEF StartCall, taskVars, flagVars, TypeOK
    <2>3. SendersOK'
        BY <2>1, <2>2 DEF SendsInv, SendersOK, InSend, Senders
    <2>4. WritesAreLicensed'
        BY <2>1, <2>2 DEF SendsInv, WritesAreLicensed, Valid, flagVars
    <2> QED
        BY <2>3, <2>4 DEF SendsInv
  <1>17. ASSUME NEW n \in Notices, StartNotice(n) PROVE SendsInv'
    <2>1. n \notin Generations
        BY SendersAreDisjoint
    <2>2. SendersOK'
        BY <1>17, <2>1, SendersKeep
        DEF StartNotice, SendsInv, SendersOK, InSend, Senders, taskVars, TypeOK
    <2>3. WritesAreLicensed'
        BY <1>17, UpKeepsLicenses DEF StartNotice, flagVars, ownerVars
    <2> QED
        BY <2>2, <2>3 DEF SendsInv
  <1>18. ASSUME NEW c \in Calls, CallReturns(c) PROVE SendsInv'
      BY <1>18, SendLeave DEF CallReturns, taskVars
  <1>19. ASSUME NEW s \in Senders, AbandonSend(s) PROVE SendsInv'
      BY <1>19, SendLeave DEF AbandonSend, taskVars
  <1>20. ASSUME NEW s \in Senders, Leave({s}), AfterSend(s), UNCHANGED <<flagVars, ownerVars>>
         PROVE  SendsInv'
    <2>1. \A h \in Generations : h # s => stage'[h] = stage[h]
        BY <1>20 DEF AfterSend, GoTo, TypeOK
    <2> QED
        BY <1>20, <2>1, SendLeave
  <1>21. ASSUME NEW s \in Senders, AcquireLock(s) PROVE SendsInv'
    <2>1. CASE clientClosed
        BY <1>20, <1>21, <2>1 DEF AcquireLock
    <2>2. CASE ~clientClosed
      <3>1. /\ at[s] = "lock" /\ UNCHANGED <<stage, flagVars, ownerVars>>
            /\ \A r \in Senders : /\ at'[r] = IF r = s THEN "thread" ELSE at[r]
                                  /\ job'[r] = IF r = s THEN "queued" ELSE job[r]
          BY <1>21, <2>2 DEF AcquireLock, TypeOK
      <3>2. SendersOK'
          BY <3>1, SendersKeep DEF SendsInv, SendersOK, InSend, Senders
      <3>3. WritesAreLicensed'
          BY <3>1, UpKeepsLicenses DEF flagVars, ownerVars
      <3> QED
          BY <3>2, <3>3 DEF SendsInv
    <2> QED
        BY <2>1, <2>2
  <1>22. ASSUME NEW s \in Senders, LeaveWrite(s) PROVE SendsInv'
    <2>1. CASE Leave({s}) /\ AfterSend(s)
        BY <1>20, <1>22, <2>1 DEF LeaveWrite
    <2>2. CASE at' = [at EXCEPT ![s] = "wait"] /\ UNCHANGED <<job, stage>>
      <3>1. SendersOK'
          BY <1>22, <2>2, SendersKeep
          DEF LeaveWrite, SendsInv, SendersOK, InSend, Senders, TypeOK
      <3>2. WritesAreLicensed'
          BY <1>22, <2>2, UpKeepsLicenses DEF LeaveWrite, flagVars, ownerVars
      <3> QED
          BY <3>1, <3>2 DEF SendsInv
    <2> QED
        BY <1>22, <2>1, <2>2 DEF LeaveWrite
  <1>23. ASSUME NEW s \in Senders, StartWrite(s) \/ EndWrite(s) PROVE SendsInv'
    <2>1. /\ UNCHANGED <<at, stage, flagVars, ownerVars>>
          /\ job[s] \in {"queued", "writing"}
          /\ \A r \in Senders : r # s => job'[r] = job[r]
          /\ job'[s] = "writing" => Valid(s)
        BY <1>23 DEF StartWrite, EndWrite, taskVars, TypeOK
    <2>2. SendersOK'
        BY <2>1 DEF SendsInv, SendersOK, InSend, ownerVars
    <2>3. WritesAreLicensed'
        BY <2>1 DEF SendsInv, WritesAreLicensed, Valid, flagVars, ownerVars
    <2> QED
        BY <2>2, <2>3 DEF SendsInv
  <1>24. CASE UNCHANGED vars
      BY <1>24, SendFrame DEF vars, sendVars, taskVars
  <1> QED
      BY <1>2, <1>3, <1>4, <1>5, <1>6, <1>7, <1>8, <1>9, <1>10, <1>11, <1>12, <1>13,
         <1>14, <1>15, <1>16, <1>17, <1>18, <1>19, <1>21, <1>22, <1>23, <1>24
      DEF Next, ReaderNext, CloserNext, WorkerNext, TaskNext, CallNext, SendNext

-----------------------------------------------------------------------------
(* Theorems *)

LEMMA InitInv == Init => IInv
  <1> SUFFICES ASSUME Init PROVE IInv
      OBVIOUS
  <1>1. TypeOK
      BY InitType
  <1>2. RequestsInv
      BY DEF Init, RequestsInv, TargetsOK, RegistryOK, FlagsOK, SupersededSilenced, Superseded,
             LatestIsReachable, Accepted, Invalidating
  <1>3. SendsInv
      BY DEF Init, SendsInv, SendersOK, WritesAreLicensed, InSend, OwnGeneration, Senders
  <1> QED
      BY <1>1, <1>2, <1>3 DEF IInv

\* IInv holds in every reachable state.
THEOREM Invariance == Spec => []IInv
  <1>1. Init => IInv
      BY InitInv
  <1>2. IInv /\ [Next]_vars => IInv'
      BY StepType, StepRequests, StepSends DEF IInv, RequestsInv
  <1> QED
      BY <1>1, <1>2, PTL DEF Spec

\* Every reachable state is well typed: the table holds request states, the lock
\* a sender, only calls are pending (runtime.py:87-91,302-305).
THEOREM TypeCorrect == Spec => []TypeOK
  <1>1. IInv => TypeOK
      BY DEF IInv
  <1> QED
      BY <1>1, Invariance, PTL

\* A write in progress is always licensed by its request: cancelling, finishing
\* or answering a request waits for it (runtime.py:32-49,581-586).
THEOREM WritesLicensed == Spec => []WritesAreLicensed
  <1>1. IInv => WritesAreLicensed
      BY DEF IInv, SendsInv
  <1> QED
      BY <1>1, Invariance, PTL

\* The newest generation of an id is registered until its task is over, so a
\* cancellation or the close finds it (runtime.py:352-358).
THEOREM LatestReachable == Spec => []LatestIsReachable
  <1>1. IInv => LatestIsReachable
      BY DEF IInv, RequestsInv
  <1> QED
      BY <1>1, Invariance, PTL

\* After its id was reused a request writes neither its response nor a reverse
\* frame (runtime.py:338-352).
THEOREM SupersededSilent == Spec => []SupersededIsSilent
  <1>1. ASSUME IInv PROVE SupersededIsSilent
    <2> SUFFICES ASSUME NEW g \in Generations, Superseded(g), NEW s \in Senders, scope[s] = g,
                        job[s] = "writing"
                 PROVE  FALSE
        BY DEF SupersededIsSilent
    <2>1. Silenced(g)
        BY <1>1 DEF IInv, RequestsInv, SupersededSilenced
    <2>2. Valid(s) /\ (s \in Generations => s = g)
        BY <1>1 DEF IInv, SendsInv, WritesAreLicensed, SendersOK
    <2>3. g # None
        BY SendersAreDisjoint
    <2> QED
        BY <2>1, <2>2, <2>3 DEF Valid, Silenced
  <1> QED
      BY <1>1, Invariance, PTL

-----------------------------------------------------------------------------
(***************************************************************************)
(* ExtensionRuntime implements RequestContract, for all sets of ids,       *)
(* generations, calls and notices.  Each step of the runtime is a step of  *)
(* the contract or a stutter:                                              *)
(*   - a registration is Accept: whatever had the id is silenced;          *)
(*   - a write that a thread begins is Answer or SendFor: the flag it      *)
(*     checked says that the generation is open;                           *)
(*   - lowering the last flag of an unanswered generation closes it.       *)
(* StagesInv says what this needs of the stage of a task and the position  *)
(* of its send.                                                            *)
(***************************************************************************)

BeforeSend == {"new", "created", "handler", "finish", "finished"}

StagesInv ==
    /\ \A g \in Generations :
        /\ stage[g] \in BeforeSend => at[g] = "idle"
        /\ stage[g] = "new" => Silenced(g)
        /\ stage[g] = "finished" \/ at[g] # "idle" => ~active[g]
    /\ \A s \in Senders : at[s] \in {"idle", "lock"} => job[s] = "none"

-----------------------------------------------------------------------------
(* StagesInv is inductive, relative to IInv *)

\* A step that moves no sender, starts no write and raises no flag.
LEMMA StagesDown ==
    ASSUME TypeOK, StagesInv, at' = at, job' = job,
           \A g \in Generations : /\ active'[g] => active[g]
                                  /\ terminalValid'[g] => terminalValid[g]
                                  /\ stage'[g] \in BeforeSend => stage[g] \in BeforeSend
                                  /\ stage'[g] = "new" => stage[g] = "new"
                                  /\ stage'[g] = "finished" => stage[g] = "finished" \/ ~active'[g]
    PROVE  StagesInv'
  BY DEF StagesInv, Silenced

\* The registration of a new generation.
LEMMA StagesNew ==
    ASSUME TypeOK, StagesInv, at' = at, job' = job, NEW g \in Generations, NEW id,
           NewGeneration(g, id)
    PROVE  StagesInv'
  BY DEF StagesInv, Silenced, NewGeneration, GoTo, TypeOK, BeforeSend

\* Senders that leave were not idle.
LEMMA StagesLeave ==
    ASSUME TypeOK, SendersOK, StagesInv, NEW S, \A s \in S : InSend(s), Leave(S), UNCHANGED flagVars,
           \A g \in Generations :
              /\ stage'[g] \in BeforeSend => stage[g] \in BeforeSend
              /\ stage'[g] = "new" => stage[g] = "new"
              /\ stage'[g] = "finished" => stage[g] = "finished"
    PROVE  StagesInv'
  <1>2. \A s \in Senders : at'[s] \in {"idle", "lock"} => at[s] = at'[s] /\ job'[s] = job[s]
      BY DEF Leave, StagesInv
  <1>3. \A g \in Generations : at[g] = "idle" => at'[g] = "idle"
      BY DEF Leave, InSend, Senders
  <1>4. \A g \in Generations : at'[g] # "idle" => at[g] # "idle"
      BY <1>3
  <1> QED
      BY <1>2, <1>3, <1>4 DEF StagesInv, Silenced, flagVars, Senders

\* Every step keeps StagesInv.
LEMMA StepStages == IInv /\ StagesInv /\ [Next]_vars => StagesInv'
  <1> SUFFICES ASSUME IInv, StagesInv, [Next]_vars PROVE StagesInv'
      OBVIOUS
  <1>0. TypeOK /\ TargetsOK /\ FlagsOK /\ SendersOK
      BY DEF IInv, RequestsInv, SendsInv
  <1> USE DEF taskVars, flagVars, registryVars, sendVars, ownerVars, workerVars, closedVars
  <1>1. ASSUME NEW id \in Ids, Accept(id) PROVE StagesInv'
      BY <1>0, <1>1, StagesNew DEF Accept
  <1>2. CASE ReaderFinishesReuse
      BY <1>0, <1>2, StagesNew, StagesDown DEF ReaderFinishesReuse
  <1>3. ASSUME NEW id \in Ids, BeginCancel(id) \/ BeginReuse(id) PROVE StagesInv'
      BY <1>0, <1>3, StagesDown DEF BeginCancel, BeginReuse
  <1>4. ASSUME NEW c \in Calls, HostResponds(c) PROVE StagesInv'
      BY <1>0, <1>4, StagesDown DEF HostResponds
  <1>5. CASE ReaderFinishesCancel \/ Close \/ CloserStarts \/ CloserRejects \/ CloserGathers
      BY <1>0, <1>5, StagesDown
      DEF ReaderFinishesCancel, Close, CloserStarts, CloserRejects, CloserGathers
  <1>6. ASSUME NEW w \in Workers, MarkCancelled(w) \/ MarkFinished(w) PROVE StagesInv'
    <2>1. target[w] \in Generations
        BY <1>0, <1>6 DEF MarkCancelled, MarkFinished, TargetsOK, Invalidating
    <2>2. \A g \in Generations : /\ active'[g] => active[g]
                                 /\ terminalValid'[g] => terminalValid[g]
        BY <1>0, <1>6, <2>1 DEF MarkCancelled, MarkFinished, TypeOK
    <2> QED
        BY <1>0, <1>6, <2>2, StagesDown DEF MarkCancelled, MarkFinished
  <1>7. ASSUME NEW w \in Workers, CancelTask(w) PROVE StagesInv'
      BY <1>0, <1>7, StagesDown DEF CancelTask
  <1>8. ASSUME NEW g \in Generations,
               StartTask(g) \/ HandlerReturns(g) \/ HandlerRaisesCancelled(g) \/ ResumeCleaned(g)
               \/ ResumeTerminated(g) \/ RequestDone(g)
        PROVE  StagesInv'
    <2>1. \A h \in Generations : /\ stage'[h] \in BeforeSend => stage[h] \in BeforeSend
                                 /\ stage'[h] = "new" => stage[h] = "new"
                                 /\ stage'[h] = "finished" => stage[h] = "finished"
        BY <1>0, <1>8 DEF StartTask, HandlerReturns, HandlerRaisesCancelled, ResumeCleaned,
                          ResumeTerminated, RequestDone, Resumable, GoTo, TypeOK, BeforeSend
    <2>2. at' = at /\ job' = job /\ active' = active /\ terminalValid' = terminalValid
        BY <1>8 DEF StartTask, HandlerReturns, HandlerRaisesCancelled, ResumeCleaned,
                    ResumeTerminated, RequestDone
    <2> QED
        BY <1>0, <2>1, <2>2, StagesDown
  <1>9. ASSUME NEW g \in Generations, MarkRequestFinished(g) \/ MarkTerminalFinished(g)
        PROVE  StagesInv'
    <2>1. \A h \in Generations :
             /\ active'[h] => active[h]
             /\ terminalValid'[h] => terminalValid[h]
             /\ stage'[h] \in BeforeSend => stage[h] \in BeforeSend
             /\ stage'[h] = "new" => stage[h] = "new"
             /\ stage'[h] = "finished" => stage[h] = "finished" \/ ~active'[h]
        BY <1>0, <1>9 DEF MarkRequestFinished, MarkTerminalFinished, GoTo, TypeOK, BeforeSend
    <2> QED
        BY <1>0, <1>9, <2>1, StagesDown DEF MarkRequestFinished, MarkTerminalFinished
  <1>10. ASSUME NEW g \in Generations, ResumeFinished(g) PROVE StagesInv'
    <2>1. at[g] = "idle" /\ ~active[g] /\ job[g] = "none"
        BY <1>10 DEF ResumeFinished, Resumable, StagesInv, BeforeSend, Senders
    <2>2. CASE GoTo(g, "send") /\ at' = [at EXCEPT ![g] = "lock"]
        BY <1>0, <1>10, <2>1, <2>2 DEF ResumeFinished, Resumable, GoTo, StagesInv, Silenced, TypeOK,
                                       BeforeSend, Senders
    <2>3. CASE GoTo(g, "cleanup") /\ UNCHANGED at
      <3>1. \A h \in Generations :
             /\ stage'[h] \in BeforeSend => stage[h] \in BeforeSend
             /\ stage'[h] = "new" => stage[h] = "new"
             /\ stage'[h] = "finished" => stage[h] = "finished"
          BY <1>0, <2>3 DEF GoTo, TypeOK, BeforeSend
      <3> QED
          BY <1>0, <1>10, <2>3, <3>1, StagesDown DEF ResumeFinished
    <2> QED
        BY <1>10, <2>2, <2>3 DEF ResumeFinished
  <1>11. ASSUME NEW g \in Generations, DeliverCancel(g) PROVE StagesInv'
    <2>1. \A h \in Generations :
             /\ stage'[h] \in BeforeSend => stage[h] \in BeforeSend
             /\ stage'[h] = "new" => stage[h] = "new"
             /\ stage'[h] = "finished" => stage[h] = "finished"
        BY <1>0, <1>11 DEF DeliverCancel, GoTo, TypeOK, BeforeSend
    <2>2. Leave(OpenSends(g)) /\ UNCHANGED flagVars
        BY <1>11 DEF DeliverCancel
    <2> QED
        BY <1>0, <2>1, <2>2, StagesLeave DEF OpenSends
  <1>12. ASSUME NEW c \in Calls, NEW for, NEW by, StartCall(c, for, by) PROVE StagesInv'
      BY <1>0, <1>12, SendersAreDisjoint DEF StartCall, StagesInv, Silenced, TypeOK, Senders
  <1>13. ASSUME NEW n \in Notices, StartNotice(n) PROVE StagesInv'
      BY <1>0, <1>13, SendersAreDisjoint DEF StartNotice, StagesInv, Silenced, TypeOK, Senders
  <1>14. ASSUME NEW s \in Senders, AcquireLock(s) PROVE StagesInv'
    <2>1. CASE Leave({s}) /\ AfterSend(s)
      <3>1. \A h \in Generations :
             /\ stage'[h] \in BeforeSend => stage[h] \in BeforeSend
             /\ stage'[h] = "new" => stage[h] = "new"
             /\ stage'[h] = "finished" => stage[h] = "finished"
          BY <1>0, <2>1 DEF AfterSend, GoTo, TypeOK, BeforeSend
      <3> QED
          BY <1>0, <1>14, <2>1, <3>1, StagesLeave DEF AcquireLock, InSend
    <2>2. CASE /\ at' = [at EXCEPT ![s] = "thread"] /\ job' = [job EXCEPT ![s] = "queued"]
               /\ UNCHANGED stage
        BY <1>0, <1>14, <2>2 DEF AcquireLock, StagesInv, Silenced, TypeOK, Senders
    <2> QED
        BY <1>14, <2>1, <2>2 DEF AcquireLock
  <1>15. ASSUME NEW s \in Senders, StartWrite(s) \/ EndWrite(s) PROVE StagesInv'
      BY <1>0, <1>15 DEF StartWrite, EndWrite, StagesInv, Silenced, TypeOK
  <1>16. ASSUME NEW s \in Senders, LeaveWrite(s) PROVE StagesInv'
    <2>1. CASE Leave({s}) /\ AfterSend(s)
      <3>1. \A h \in Generations :
             /\ stage'[h] \in BeforeSend => stage[h] \in BeforeSend
             /\ stage'[h] = "new" => stage[h] = "new"
             /\ stage'[h] = "finished" => stage[h] = "finished"
          BY <1>0, <2>1 DEF AfterSend, GoTo, TypeOK, BeforeSend
      <3> QED
          BY <1>0, <1>16, <2>1, <3>1, StagesLeave DEF LeaveWrite, InSend
    <2>2. CASE s \in Calls /\ at' = [at EXCEPT ![s] = "wait"] /\ UNCHANGED <<job, stage>>
        BY <1>0, <1>16, <2>2, SendersAreDisjoint
        DEF LeaveWrite, StagesInv, Silenced, TypeOK, Senders
    <2> QED
        BY <1>16, <2>1, <2>2 DEF LeaveWrite
  <1>17. ASSUME NEW s \in Senders, CallReturns(s) \/ AbandonSend(s) PROVE StagesInv'
      BY <1>0, <1>17, StagesLeave DEF CallReturns, AbandonSend, InSend
  <1>18. CASE UNCHANGED vars
      BY <1>0, <1>18, StagesDown DEF vars
  <1> QED
      BY <1>1, <1>2, <1>3, <1>4, <1>5, <1>6, <1>7, <1>8, <1>9, <1>10, <1>11, <1>12, <1>13, <1>14,
         <1>15, <1>16, <1>17, <1>18
      DEF Next, ReaderNext, CloserNext, WorkerNext, TaskNext, CallNext, SendNext, Senders

\* No task has started at first.
LEMMA InitStages == Init => StagesInv
  BY DEF Init, StagesInv, Silenced, BeforeSend, Senders

\* StagesInv holds in every reachable state.
THEOREM StagesInvariance == Spec => []StagesInv
  <1>1. IInv /\ StagesInv /\ [Next]_vars => StagesInv'
      BY StepStages
  <1> QED
      BY InitStages, <1>1, Invariance, PTL DEF Spec

-----------------------------------------------------------------------------
(* Steps of the runtime as steps of the contract *)

\* The values of the contract's variables.
Statuses == [g \in Generations |-> ContractStatus(g)]
SentFor == [c \in Calls |-> IF FrameStarted(c) THEN scope[c] ELSE None]

\* No flag, id, acceptance or started frame changes: a stutter.
LEMMA Stutter ==
    ASSUME UNCHANGED flagVars, idOf' = idOf,
           \A g \in Generations : stage'[g] = "new" <=> stage[g] = "new",
           \A s \in Senders : FrameStarted(s)' <=> FrameStarted(s),
           \A c \in Calls : FrameStarted(c) => scope'[c] = scope[c]
    PROVE  UNCHANGED Contract!vars
  <1>1. \A g \in Generations : ContractStatus(g)' = ContractStatus(g)
      BY DEF ContractStatus, Accepted, Silenced, flagVars, Senders
  <1>2. \A c \in Calls :
           (IF FrameStarted(c) THEN scope[c] ELSE None)' = IF FrameStarted(c) THEN scope[c] ELSE None
      BY DEF Senders
  <1> QED
      BY <1>1, <1>2 DEF Contract!vars

\* Leaving send() starts no write and ends none.
LEMMA LeaveStarts ==
    ASSUME NEW S, Leave(S)
    PROVE  \A s \in Senders : FrameStarted(s)' <=> FrameStarted(s)
  BY DEF Leave, FrameStarted

\* A new generation is accepted when no open one has its id.
LEMMA NewGenerationAccepts ==
    ASSUME TypeOK, StagesInv, UNCHANGED <<job, scope>>, NEW g \in Generations, NEW id \in Ids,
           NewGeneration(g, id),
           \A h \in Generations : idOf[h] = id => ContractStatus(h) # "open"
    PROVE  Contract!Accept(g, id)
  <1>1. ContractStatus(g) = "absent"
      BY DEF NewGeneration, ContractStatus, Accepted
  <1>2. ContractStatus(g)' = "open"
    <2>1. job[g] = "none"
        BY DEF NewGeneration, StagesInv, BeforeSend, Senders
    <2> QED
        BY <2>1 DEF NewGeneration, GoTo, ContractStatus, Accepted, FrameStarted, Silenced, TypeOK
  <1>3. ASSUME NEW h \in Generations \ {g} PROVE ContractStatus(h)' = ContractStatus(h)
      BY <1>3 DEF NewGeneration, GoTo, ContractStatus, Accepted, FrameStarted, Silenced, TypeOK
  <1>4. Statuses' = [Statuses EXCEPT ![g] = "open"]
      BY <1>2, <1>3 DEF Statuses
  <1>5. SentFor' = SentFor
      BY DEF SentFor, FrameStarted
  <1>6. idOf' = [idOf EXCEPT ![g] = id]
      BY DEF NewGeneration
  <1> QED
      BY <1>1, <1>4, <1>5, <1>6 DEF Contract!Accept, Statuses, SentFor

\* Lowering flags of one generation closes it, or changes nothing.
LEMMA LoweringCloses ==
    ASSUME TypeOK, UNCHANGED <<job, scope, idOf>>, NEW g \in Generations,
           active'[g] => active[g], terminalValid'[g] => terminalValid[g],
           \A h \in Generations \ {g} : /\ active'[h] = active[h]
                                        /\ terminalValid'[h] = terminalValid[h],
           \A h \in Generations : stage'[h] = "new" <=> stage[h] = "new"
    PROVE  Contract!CloseUnanswered(g) \/ UNCHANGED Contract!vars
  <1>1. ASSUME NEW h \in Generations \ {g} PROVE ContractStatus(h)' = ContractStatus(h)
      BY <1>1 DEF ContractStatus, Accepted, FrameStarted, Silenced
  <1>2. SentFor' = SentFor
      BY DEF SentFor, FrameStarted
  <1>3. CASE ContractStatus(g)' = ContractStatus(g)
    <2>1. Statuses' = Statuses
        BY <1>1, <1>3 DEF Statuses
    <2> QED
        BY <1>2, <2>1 DEF Contract!vars, Statuses, SentFor
  <1>4. CASE ContractStatus(g)' # ContractStatus(g)
    <2>1. ContractStatus(g) = "open" /\ ContractStatus(g)' = "closed"
        BY <1>4 DEF ContractStatus, Accepted, FrameStarted, Silenced
    <2>2. Statuses' = [Statuses EXCEPT ![g] = "closed"]
        BY <1>1, <2>1 DEF Statuses
    <2> QED
        BY <1>2, <2>1, <2>2 DEF Contract!CloseUnanswered, Statuses, SentFor
  <1> QED
      BY <1>3, <1>4

\* No notification is scoped to a generation.
NoticesUnscoped == \A n \in Notices : scope[n] = None

\* Only a reverse call is ever given a scope.
LEMMA StepNotices == NoticesUnscoped /\ [Next]_vars => NoticesUnscoped'
  <1> SUFFICES ASSUME NoticesUnscoped, [Next]_vars PROVE NoticesUnscoped'
      OBVIOUS
  <1>1. CASE ReaderNext
      BY <1>1 DEF ReaderNext, Accept, BeginCancel, BeginReuse, HostResponds, ReaderFinishesCancel,
                  ReaderFinishesReuse, NoticesUnscoped, ownerVars
  <1>2. CASE CloserNext
      BY <1>2 DEF CloserNext, Close, CloserStarts, CloserRejects, CloserGathers, NoticesUnscoped,
                  ownerVars
  <1>3. CASE WorkerNext
      BY <1>3 DEF WorkerNext, MarkCancelled, CancelTask, MarkFinished, NoticesUnscoped, ownerVars
  <1>4. CASE TaskNext
      BY <1>4 DEF TaskNext, StartTask, HandlerReturns, HandlerRaisesCancelled, MarkRequestFinished,
                  ResumeFinished, ResumeCleaned, MarkTerminalFinished, ResumeTerminated,
                  DeliverCancel, RequestDone, NoticesUnscoped, ownerVars
  <1>5. CASE CallNext
    <2>1. ASSUME NEW c \in Calls, NEW for, NEW by, StartCall(c, for, by) PROVE NoticesUnscoped'
        BY <2>1, SendersAreDisjoint DEF StartCall, NoticesUnscoped
    <2>2. ASSUME NEW n \in Notices, StartNotice(n) PROVE NoticesUnscoped'
        BY <2>2 DEF StartNotice, NoticesUnscoped, ownerVars
    <2>3. ASSUME NEW c \in Calls, CallReturns(c) PROVE NoticesUnscoped'
        BY <2>3 DEF CallReturns, NoticesUnscoped, ownerVars
    <2> QED
        BY <1>5, <2>1, <2>2, <2>3 DEF CallNext
  <1>6. CASE SendNext
      BY <1>6 DEF SendNext, AcquireLock, StartWrite, EndWrite, LeaveWrite, AbandonSend,
                  NoticesUnscoped, ownerVars
  <1>7. CASE UNCHANGED vars
      BY <1>7 DEF vars, ownerVars, NoticesUnscoped
  <1> QED
      BY <1>1, <1>2, <1>3, <1>4, <1>5, <1>6, <1>7 DEF Next

\* NoticesUnscoped holds in every reachable state.
LEMMA NoticesInvariance == Spec => []NoticesUnscoped
  <1>1. Init => NoticesUnscoped
      BY SendersAreDisjoint DEF Init, NoticesUnscoped, OwnGeneration, Senders
  <1> QED
      BY <1>1, StepNotices, PTL DEF Spec

\* A write that begins answers, sends for an open generation, or names none.
LEMMA WriteSends ==
    ASSUME IInv, StagesInv, NoticesUnscoped, NEW s \in Senders, StartWrite(s)
    PROVE  Contract!Next \/ UNCHANGED Contract!vars
  <1>0. TypeOK /\ SendersOK
      BY DEF IInv, SendsInv
  <1>1. /\ active' = active /\ terminalValid' = terminalValid
        /\ idOf' = idOf /\ stage' = stage /\ scope' = scope
        /\ \A t \in Senders \ {s} : job'[t] = job[t]
        /\ job[s] = "queued"
        /\ job'[s] = IF Valid(s) THEN "writing" ELSE "void"
      BY <1>0 DEF StartWrite, TypeOK, registryVars, taskVars, ownerVars, flagVars
  <1>2. CASE ~Valid(s)
    <2>1. \A t \in Senders : FrameStarted(t)' <=> FrameStarted(t)
        BY <1>1, <1>2 DEF FrameStarted
    <2> QED
        BY <1>1, <2>1, Stutter DEF flagVars
  <1>3. ASSUME Valid(s), s \in Generations PROVE Contract!Answer(s)
    <2>1. terminalValid[s]
        BY <1>0, <1>3, SendersAreDisjoint DEF Valid, SendersOK
    <2>2. stage[s] # "new"
        BY <2>1, <1>3 DEF StagesInv, Silenced
    <2>3. ContractStatus(s) = "open"
        BY <1>1, <2>1, <2>2 DEF ContractStatus, Accepted, Silenced, FrameStarted
    <2>4. ContractStatus(s)' = "answered"
        BY <1>1, <1>3, <2>2 DEF ContractStatus, Accepted, FrameStarted
    <2>5. ASSUME NEW h \in Generations \ {s} PROVE ContractStatus(h)' = ContractStatus(h)
        BY <1>1, <2>5 DEF ContractStatus, Accepted, Silenced, FrameStarted, Senders
    <2>6. Statuses[s] = "open"
        BY <1>3, <2>3 DEF Statuses
    <2>7. Statuses' = [Statuses EXCEPT ![s] = "answered"]
        BY <2>4, <2>5 DEF Statuses
    <2>8. SentFor' = SentFor
        BY <1>1, <1>3, SendersAreDisjoint DEF SentFor, FrameStarted, Senders
    <2> QED
        BY <1>1, <2>6, <2>7, <2>8 DEF Contract!Answer, Statuses, SentFor
  <1>4. ASSUME Valid(s), s \notin Generations PROVE Statuses' = Statuses
      BY <1>1, <1>4 DEF Statuses, ContractStatus, Accepted, Silenced, FrameStarted, Senders
  <1>5. ASSUME Valid(s), s \notin Generations, scope[s] = None PROVE UNCHANGED Contract!vars
    <2>1. SentFor' = SentFor
        BY <1>1, <1>5 DEF SentFor, FrameStarted, Senders
    <2> QED
        BY <1>1, <1>4, <1>5, <2>1 DEF Contract!vars, Statuses, SentFor
  <1>6. ASSUME Valid(s), s \notin Generations, scope[s] # None, s \in Calls
        PROVE  scope[s] \in Generations /\ Contract!SendFor(s, scope[s])
    <2>1. scope[s] \in Generations
        BY <1>0, <1>6 DEF TypeOK, MaybeGeneration
    <2>2. active[scope[s]]
        BY <1>6 DEF Valid
    <2>3. stage[scope[s]] # "new" /\ job[scope[s]] = "none"
        BY <1>0, <2>1, <2>2 DEF StagesInv, Silenced, Senders, SendersOK
    <2>4. ContractStatus(scope[s]) = "open"
        BY <2>2, <2>3 DEF ContractStatus, Accepted, Silenced, FrameStarted
    <2>5. SentFor[s] = None
        BY <1>1, <1>6 DEF SentFor, FrameStarted
    <2>6. SentFor' = [SentFor EXCEPT ![s] = scope[s]]
        BY <1>1, <1>6 DEF SentFor, FrameStarted, Senders
    <2>7. Statuses[scope[s]] = "open"
        BY <2>1, <2>4 DEF Statuses
    <2> QED
        BY <1>1, <1>4, <1>6, <2>1, <2>5, <2>6, <2>7 DEF Contract!SendFor, Statuses, SentFor
  <1>7. CASE Valid(s) /\ s \in Generations
      BY <1>3, <1>7 DEF Contract!Next
  <1>8. CASE Valid(s) /\ s \in Calls
    <2>1. s \notin Generations
        BY <1>8, SendersAreDisjoint
    <2>2. CASE scope[s] = None
        BY <1>5, <1>8, <2>1, <2>2
    <2>3. CASE scope[s] # None
      <3>1. scope[s] \in Generations /\ Contract!SendFor(s, scope[s])
          BY <1>6, <1>8, <2>1, <2>3
      <3>2. ASSUME NEW g \in Generations, g = scope[s] PROVE Contract!Next
        <4>1. Contract!SendFor(s, g)
            BY <3>1, <3>2 DEF Contract!SendFor
        <4> QED
            BY <1>8, <4>1 DEF Contract!Next
      <3> QED
          BY <3>1, <3>2
    <2> QED
        BY <2>2, <2>3
  <1>9. CASE Valid(s) /\ s \in Notices
    <2>1. s \notin Generations /\ scope[s] = None
        BY <1>9, SendersAreDisjoint DEF NoticesUnscoped
    <2> QED
        BY <1>5, <1>9, <2>1
  <1> QED
      BY <1>2, <1>7, <1>8, <1>9 DEF Senders

\* Every step of the runtime is a step of the contract or a stutter.
LEMMA StepRefines ==
    IInv /\ StagesInv /\ NoticesUnscoped /\ [Next]_vars => [Contract!Next]_Contract!vars
  <1> SUFFICES ASSUME IInv, StagesInv, NoticesUnscoped, [Next]_vars
               PROVE  Contract!Next \/ UNCHANGED Contract!vars
      OBVIOUS
  <1>0. TypeOK /\ TargetsOK /\ RegistryOK /\ FlagsOK /\ SupersededSilenced /\ LatestIsReachable
        /\ SendersOK
      BY DEF IInv, RequestsInv, SendsInv
  <1> USE DEF taskVars, registryVars, sendVars, ownerVars, workerVars, closedVars
  <1>1. ASSUME NEW id \in Ids, Accept(id) PROVE Contract!Next
    <2>1. PICK g \in Generations : NewGeneration(g, id)
        BY <1>1 DEF Accept
    <2>2. ASSUME NEW h \in Generations, idOf[h] = id, Accepted(h) PROVE Silenced(h)
      <3>1. CASE Superseded(h)
          BY <1>0, <3>1 DEF SupersededSilenced
      <3>2. CASE ~Superseded(h)
        <4>1. stage[h] = "gone"
            BY <1>0, <1>1, <2>2, <3>2, SendersAreDisjoint DEF LatestIsReachable, Accept
        <4> QED
            BY <1>0, <4>1 DEF FlagsOK, Silenced
      <3> QED
          BY <3>1, <3>2
    <2>3. \A h \in Generations : idOf[h] = id => ContractStatus(h) # "open"
        BY <2>2 DEF ContractStatus
    <2>4. Contract!Accept(g, id)
        BY <1>0, <1>1, <2>1, <2>3, NewGenerationAccepts DEF Accept
    <2> QED
        BY <2>4 DEF Contract!Next
  <1>2. CASE ReaderFinishesReuse /\ dispClosed
    <2>1. UNCHANGED <<stage, flagVars, registryVars, job, scope>>
        BY <1>2 DEF ReaderFinishesReuse, NewGeneration
    <2> QED
        BY <2>1, Stutter DEF FrameStarted
  <1>3. CASE ReaderFinishesReuse /\ ~dispClosed
    <2> DEFINE old == target["reader"]
               id == idOf[old]
    <2>1. old \in Generations /\ Accepted(old) /\ Silenced(old) /\ latest[id] = old /\ id \in Ids
        BY <1>0, <1>3 DEF ReaderFinishesReuse, TargetsOK, RegistryOK, Invalidating, Workers
    <2>2. PICK g \in Generations : NewGeneration(g, id)
        BY <1>3 DEF ReaderFinishesReuse
    <2>3. ASSUME NEW h \in Generations, idOf[h] = id, Accepted(h) PROVE Silenced(h)
        BY <1>0, <2>1, <2>3 DEF SupersededSilenced, Superseded
    <2>4. \A h \in Generations : idOf[h] = id => ContractStatus(h) # "open"
        BY <2>3 DEF ContractStatus
    <2>5. UNCHANGED <<job, scope>>
        BY <1>3 DEF ReaderFinishesReuse
    <2>6. Contract!Accept(g, id)
        BY <1>0, <2>1, <2>2, <2>4, <2>5, NewGenerationAccepts
    <2> QED
        BY <2>1, <2>6 DEF Contract!Next
  <1>4. ASSUME NEW id \in Ids, BeginCancel(id) \/ BeginReuse(id) PROVE UNCHANGED Contract!vars
    <2>1. UNCHANGED <<stage, flagVars, registryVars, job, scope>>
        BY <1>4 DEF BeginCancel, BeginReuse
    <2> QED
        BY <2>1, Stutter DEF FrameStarted
  <1>5. ASSUME NEW c \in Calls, HostResponds(c) PROVE UNCHANGED Contract!vars
    <2>1. UNCHANGED <<stage, flagVars, registryVars, job, scope>>
        BY <1>5 DEF HostResponds
    <2> QED
        BY <2>1, Stutter DEF FrameStarted
  <1>6. CASE ReaderFinishesCancel \/ CloserNext
    <2>1. UNCHANGED <<stage, flagVars, registryVars, job, scope>>
        BY <1>6 DEF ReaderFinishesCancel, CloserNext, Close, CloserStarts, CloserRejects,
                    CloserGathers
    <2> QED
        BY <2>1, Stutter DEF FrameStarted
  <1>7. ASSUME NEW w \in Workers, MarkCancelled(w) \/ MarkFinished(w)
        PROVE  Contract!Next \/ UNCHANGED Contract!vars
    <2>1. target[w] \in Generations
        BY <1>0, <1>7 DEF MarkCancelled, MarkFinished, TargetsOK, Invalidating
    <2>2. /\ active'[target[w]] => active[target[w]]
          /\ terminalValid'[target[w]] => terminalValid[target[w]]
          /\ \A h \in Generations \ {target[w]} : /\ active'[h] = active[h]
                                                /\ terminalValid'[h] = terminalValid[h]
        BY <1>0, <1>7, <2>1 DEF MarkCancelled, MarkFinished, TypeOK
    <2>3. UNCHANGED <<stage, idOf, job, scope>>
        BY <1>7 DEF MarkCancelled, MarkFinished
    <2>4. Contract!CloseUnanswered(target[w]) \/ UNCHANGED Contract!vars
        BY <1>0, <2>1, <2>2, <2>3, LoweringCloses
    <2> QED
        BY <2>1, <2>4 DEF Contract!Next
  <1>8. ASSUME NEW w \in Workers, CancelTask(w) PROVE UNCHANGED Contract!vars
    <2>1. UNCHANGED <<stage, flagVars, registryVars, job, scope>>
        BY <1>8 DEF CancelTask
    <2> QED
        BY <2>1, Stutter DEF FrameStarted
  <1>9. ASSUME NEW g \in Generations, MarkRequestFinished(g) \/ MarkTerminalFinished(g)
        PROVE  Contract!Next \/ UNCHANGED Contract!vars
    <2>1. /\ active'[g] => active[g]
          /\ terminalValid'[g] => terminalValid[g]
          /\ \A h \in Generations \ {g} : /\ active'[h] = active[h]
                                        /\ terminalValid'[h] = terminalValid[h]
        BY <1>0, <1>9 DEF MarkRequestFinished, MarkTerminalFinished, TypeOK
    <2>2. \A h \in Generations : stage'[h] = "new" <=> stage[h] = "new"
        BY <1>0, <1>9 DEF MarkRequestFinished, MarkTerminalFinished, GoTo, TypeOK
    <2>3. UNCHANGED <<idOf, job, scope>>
        BY <1>9 DEF MarkRequestFinished, MarkTerminalFinished
    <2>4. Contract!CloseUnanswered(g) \/ UNCHANGED Contract!vars
        BY <1>0, <2>1, <2>2, <2>3, LoweringCloses
    <2> QED
        BY <2>4 DEF Contract!Next
  <1>10. ASSUME NEW g \in Generations,
                \/ StartTask(g) \/ HandlerReturns(g) \/ HandlerRaisesCancelled(g)
                \/ ResumeFinished(g) \/ ResumeCleaned(g) \/ ResumeTerminated(g) \/ RequestDone(g)
         PROVE  UNCHANGED Contract!vars
    <2>1. \A h \in Generations : stage'[h] = "new" <=> stage[h] = "new"
        BY <1>0, <1>10 DEF StartTask, HandlerReturns, HandlerRaisesCancelled, ResumeFinished,
                           ResumeCleaned, ResumeTerminated, RequestDone, Resumable, GoTo, TypeOK
    <2>2. UNCHANGED <<flagVars, idOf, job, scope>>
        BY <1>10 DEF StartTask, HandlerReturns, HandlerRaisesCancelled, ResumeFinished,
                     ResumeCleaned, ResumeTerminated, RequestDone
    <2> QED
        BY <2>1, <2>2, Stutter DEF FrameStarted
  <1>11. ASSUME NEW g \in Generations, DeliverCancel(g) PROVE UNCHANGED Contract!vars
    <2>1. \A h \in Generations : stage'[h] = "new" <=> stage[h] = "new"
        BY <1>0, <1>11 DEF DeliverCancel, GoTo, TypeOK
    <2>2. UNCHANGED <<flagVars, idOf, scope>> /\ Leave(OpenSends(g))
        BY <1>11 DEF DeliverCancel
    <2> QED
        BY <2>1, <2>2, LeaveStarts, Stutter
  <1>12. ASSUME NEW c \in Calls, NEW for, NEW by, StartCall(c, for, by)
         PROVE  UNCHANGED Contract!vars
    <2>1. ~FrameStarted(c) /\ UNCHANGED <<stage, flagVars, registryVars, job>>
        BY <1>0, <1>12 DEF StartCall, SendersOK, FrameStarted, Senders
    <2>2. \A d \in Calls : FrameStarted(d) => scope'[d] = scope[d]
        BY <1>0, <1>12, <2>1 DEF StartCall, TypeOK, Senders
    <2> QED
        BY <2>1, <2>2, Stutter DEF FrameStarted
  <1>13. ASSUME NEW n \in Notices, StartNotice(n) PROVE UNCHANGED Contract!vars
    <2>1. UNCHANGED <<stage, flagVars, registryVars, job, scope>>
        BY <1>13 DEF StartNotice
    <2> QED
        BY <2>1, Stutter DEF FrameStarted
  <1>14. ASSUME NEW s \in Senders,
                \/ AcquireLock(s) \/ EndWrite(s) \/ LeaveWrite(s) \/ CallReturns(s)
                \/ AbandonSend(s)
         PROVE  UNCHANGED Contract!vars
    <2>1. UNCHANGED <<flagVars, idOf, scope>>
        BY <1>14 DEF AcquireLock, EndWrite, LeaveWrite, CallReturns, AbandonSend
    <2>2. \A h \in Generations : stage'[h] = "new" <=> stage[h] = "new"
      <3>1. UNCHANGED stage \/ (s \in Generations /\ InSend(s) /\ GoTo(s, "cleanup"))
          BY <1>14 DEF AcquireLock, EndWrite, LeaveWrite, CallReturns, AbandonSend, AfterSend, InSend
      <3>2. CASE s \in Generations /\ InSend(s) /\ GoTo(s, "cleanup")
          BY <1>0, <3>2 DEF GoTo, SendersOK, TypeOK
      <3> QED
          BY <3>1, <3>2
    <2>3. \A t \in Senders : FrameStarted(t)' <=> FrameStarted(t)
      <3>1. CASE Leave({s})
          BY <3>1, LeaveStarts
      <3>2. CASE UNCHANGED job
          BY <3>2 DEF FrameStarted
      <3>3. CASE AcquireLock(s) /\ job' = [job EXCEPT ![s] = "queued"]
          BY <1>0, <3>3 DEF AcquireLock, StagesInv, FrameStarted, TypeOK
      <3>4. CASE EndWrite(s)
          BY <1>0, <3>4 DEF EndWrite, FrameStarted, TypeOK
      <3> QED
          BY <1>14, <3>1, <3>2, <3>3, <3>4 DEF AcquireLock, LeaveWrite, CallReturns, AbandonSend
    <2> QED
        BY <2>1, <2>2, <2>3, Stutter
  <1>15. ASSUME NEW s \in Senders, StartWrite(s) PROVE Contract!Next \/ UNCHANGED Contract!vars
      BY <1>15, WriteSends
  <1>16. CASE UNCHANGED vars
    <2>1. UNCHANGED <<stage, flagVars, registryVars, job, scope>>
        BY <1>16 DEF vars
    <2> QED
        BY <2>1, Stutter DEF FrameStarted
  <1> QED
      BY <1>1, <1>2, <1>3, <1>4, <1>5, <1>6, <1>7, <1>8, <1>9, <1>10, <1>11, <1>12, <1>13, <1>14,
         <1>15, <1>16
      DEF Next, ReaderNext, WorkerNext, TaskNext, CallNext, SendNext, Senders

\* At first no generation is accepted and no frame sent.
LEMMA RefinesInit == Init => Contract!Init
  BY DEF Init, Contract!Init, ContractStatus, Accepted, FrameStarted, Senders

\* The runtime implements the contract with the host: at most one open
\* generation per id, at most one answer for each, and a frame sent for a
\* generation only while it is open (runtime.py:327-352, 466-476, 581-586).
THEOREM RefinesContract == Spec => ImplementsContract
  <1>1. Spec => Contract!Spec
      BY RefinesInit, StepRefines, Invariance, StagesInvariance, NoticesInvariance,
         PTL DEF Spec, Contract!Spec
  <1> QED
      BY <1>1 DEF ImplementsContract

-----------------------------------------------------------------------------
(***************************************************************************)
(* What the end of a request and of a connection leaves behind, for all    *)
(* sets of ids, generations, calls and notices.                            *)
(*                                                                         *)
(* CoveredInv: a generation that was cancelled, or whose task has come     *)
(* past its second finish_request, has no reverse call registered and will *)
(* get none, or the reader or the closer is about to reject them.          *)
(* ClosedInv: what close() has established at each of its positions, and   *)
(* that the table of ids names only requests that are not over.            *)
(***************************************************************************)

Rejecting == {"marked", "finish", "finished"}
Past == {"terminal", "terminated", "done", "gone"}
Over == {"new", "gone"}

\* The worker w will reject the calls of g.
Rejects(w, g) == target[w] = g /\ step[w] \in Rejecting
Cleared(g) == ~active[g] /\ \A c \in pending : scope[c] # g
Covered(g) == (\E w \in Workers : Rejects(w, g)) \/ Cleared(g)

CoveredInv == \A g \in Generations : cancelRequested[g] \/ stage[g] \in Past => Covered(g)

ClosedInv ==
    /\ step["closer"] # "idle" => dispClosed
    /\ step["closer"] \in {"gather", "done"} => clientClosed
    /\ clientClosed => dispClosed /\ pending = {}
    /\ step["closer"] = "done" => \A g \in Generations : stage[g] \in Over
    /\ \A id \in Ids : requestStates[id] # None => stage[requestStates[id]] \notin Over

-----------------------------------------------------------------------------
(* ClosedInv is inductive, relative to IInv *)

\* A step of neither the registration nor the close that ends no task.
LEMMA ClosedKept ==
    ASSUME TypeOK, ClosedInv, pending' \subseteq pending, UNCHANGED <<closedVars, requestStates>>,
           step'["closer"] = step["closer"],
           \A g \in Generations : stage'[g] \in Over <=> stage[g] \in Over
    PROVE  ClosedInv'
  BY DEF ClosedInv, TypeOK, MaybeGeneration, closedVars

\* Every step keeps what the close has established.
LEMMA StepClosed == IInv /\ ClosedInv /\ [Next]_vars => ClosedInv'
  <1> SUFFICES ASSUME IInv, ClosedInv, [Next]_vars PROVE ClosedInv'
      OBVIOUS
  <1>0. TypeOK /\ TargetsOK /\ RegistryOK /\ SendersOK
      BY DEF IInv, RequestsInv, SendsInv
  <1> USE DEF taskVars, registryVars, sendVars, ownerVars, workerVars
  <1>1. ASSUME NEW id \in Ids, Accept(id) PROVE ClosedInv'
      BY <1>0, <1>1, SendersAreDisjoint
      DEF Accept, NewGeneration, GoTo, ClosedInv, TypeOK, MaybeGeneration, Over, closedVars
  <1>2. CASE ReaderFinishesReuse
    <2>1. target["reader"] \in Generations /\ idOf[target["reader"]] \in Ids
        BY <1>0, <1>2 DEF ReaderFinishesReuse, TargetsOK, RegistryOK, Invalidating, Workers
    <2>2. /\ pending' \subseteq pending /\ step'["closer"] = step["closer"] /\ UNCHANGED closedVars
        BY <1>0, <1>2 DEF ReaderFinishesReuse, Unrejected, TypeOK, Workers
    <2>3. CASE UNCHANGED <<stage, requestStates>>
        BY <1>0, <2>2, <2>3, ClosedKept
    <2>4. ASSUME ~dispClosed, NEW g \in Generations, NewGeneration(g, idOf[target["reader"]])
          PROVE  ClosedInv'
        BY <1>0, <2>1, <2>2, <2>4, SendersAreDisjoint
        DEF NewGeneration, GoTo, ClosedInv, TypeOK, MaybeGeneration, Over, closedVars
    <2> QED
        BY <1>2, <2>3, <2>4 DEF ReaderFinishesReuse
  <1>3. ASSUME NEW id \in Ids, BeginCancel(id) \/ BeginReuse(id) PROVE ClosedInv'
      BY <1>0, <1>3, ClosedKept DEF BeginCancel, BeginReuse, TypeOK, Workers
  <1>4. ASSUME NEW c \in Calls, HostResponds(c) PROVE ClosedInv'
      BY <1>0, <1>4, ClosedKept DEF HostResponds
  <1>5. CASE ReaderFinishesCancel
      BY <1>0, <1>5, ClosedKept DEF ReaderFinishesCancel, Unrejected, TypeOK, Workers
  <1>6. CASE Close
      BY <1>0, <1>6 DEF Close, ClosedInv, TypeOK, Workers
  <1>7. ASSUME NEW rest, NEW left, CloserGoesOn(rest, left), left \subseteq pending,
               step["closer"] \in {"starting", "finished"},
               UNCHANGED <<dispClosed, stage, requestStates>>
        PROVE  ClosedInv'
      BY <1>0, <1>7 DEF CloserGoesOn, ClosedInv, TypeOK, Workers
  <1>8. CASE CloserStarts \/ CloserRejects
      BY <1>7, <1>8 DEF CloserStarts, CloserRejects, Unrejected
  <1>9. CASE CloserGathers
      BY <1>0, <1>9 DEF CloserGathers, ClosedInv, TypeOK, Workers, Over, closedVars
  <1>10. ASSUME NEW w \in Workers, MarkCancelled(w) \/ CancelTask(w) \/ MarkFinished(w)
         PROVE  ClosedInv'
      BY <1>0, <1>10
      DEF MarkCancelled, CancelTask, MarkFinished, ClosedInv, TypeOK, Workers, closedVars
  <1>11. ASSUME NEW g \in Generations,
                \/ StartTask(g) \/ HandlerReturns(g) \/ HandlerRaisesCancelled(g)
                \/ MarkRequestFinished(g) \/ ResumeFinished(g) \/ ResumeCleaned(g)
                \/ MarkTerminalFinished(g) \/ ResumeTerminated(g) \/ DeliverCancel(g)
         PROVE  ClosedInv'
    <2>1. UNCHANGED <<closedVars, requestStates, step>> /\ pending' \subseteq pending
        BY <1>11
        DEF StartTask, HandlerReturns, HandlerRaisesCancelled, MarkRequestFinished, ResumeFinished,
            ResumeCleaned, MarkTerminalFinished, ResumeTerminated, DeliverCancel, Leave, Unrejected
    <2>2. /\ stage[g] \notin Over
          /\ \E where \in Stages \ Over : GoTo(g, where)
        BY <1>0, <1>11
        DEF StartTask, HandlerReturns, HandlerRaisesCancelled, MarkRequestFinished, ResumeFinished,
            ResumeCleaned, MarkTerminalFinished, ResumeTerminated, DeliverCancel, Resumable, Over,
            Stages
    <2>3. \A h \in Generations : stage'[h] \in Over <=> stage[h] \in Over
        BY <1>0, <2>2 DEF GoTo, TypeOK
    <2> QED
        BY <1>0, <2>1, <2>3, ClosedKept
  <1>12. ASSUME NEW g \in Generations, RequestDone(g) PROVE ClosedInv'
    <2>1. \A id \in Ids : requestStates'[id] # None =>
             requestStates'[id] = requestStates[id] /\ requestStates[id] # g
        BY <1>0, <1>12 DEF RequestDone, RegistryOK, TypeOK
    <2> QED
        BY <1>0, <1>12, <2>1
        DEF RequestDone, GoTo, ClosedInv, TypeOK, MaybeGeneration, Over, closedVars
  <1>13. ASSUME NEW c \in Calls, NEW for, NEW by, StartCall(c, for, by) PROVE ClosedInv'
      BY <1>0, <1>13 DEF StartCall, ClosedInv, closedVars
  <1>14. ASSUME NEW n \in Notices, StartNotice(n) PROVE ClosedInv'
      BY <1>0, <1>14, ClosedKept DEF StartNotice
  <1>15. ASSUME NEW s \in Senders,
                \/ AcquireLock(s) \/ StartWrite(s) \/ EndWrite(s) \/ LeaveWrite(s)
                \/ CallReturns(s) \/ AbandonSend(s)
         PROVE  ClosedInv'
    <2>1. UNCHANGED <<closedVars, requestStates, step>> /\ pending' \subseteq pending
        BY <1>15
        DEF AcquireLock, StartWrite, EndWrite, LeaveWrite, CallReturns, AbandonSend, Leave
    <2>2. UNCHANGED stage \/ (s \in Generations /\ InSend(s) /\ GoTo(s, "cleanup"))
        BY <1>15 DEF AcquireLock, StartWrite, EndWrite, LeaveWrite, CallReturns, AbandonSend,
                     AfterSend, InSend
    <2>3. \A h \in Generations : stage'[h] \in Over <=> stage[h] \in Over
        BY <1>0, <2>2 DEF GoTo, SendersOK, TypeOK, Over
    <2> QED
        BY <1>0, <2>1, <2>3, ClosedKept
  <1>16. CASE UNCHANGED vars
      BY <1>0, <1>16, ClosedKept DEF vars
  <1> QED
      BY <1>1, <1>2, <1>3, <1>4, <1>5, <1>6, <1>8, <1>9, <1>10, <1>11, <1>12, <1>13, <1>14, <1>15,
         <1>16
      DEF Next, ReaderNext, CloserNext, WorkerNext, TaskNext, CallNext, SendNext, Senders

\* Nothing is closed or registered at first.
LEMMA InitClosed == Init => ClosedInv
  BY DEF Init, ClosedInv, Workers

\* ClosedInv holds in every reachable state.
LEMMA ClosedInvariance == Spec => []ClosedInv
  BY InitClosed, StepClosed, Invariance, PTL DEF Spec

-----------------------------------------------------------------------------
(* CoveredInv is inductive, relative to IInv and ClosedInv *)

\* A step that registers no call, raises no flag and ends no rejection.
LEMMA CoverKept ==
    ASSUME CoveredInv, pending' \subseteq pending, scope' = scope,
           \A g \in Generations : active'[g] => active[g],
           \A w \in Workers, g \in Generations : Rejects(w, g) => Rejects(w, g)',
           \A g \in Generations :
              /\ cancelRequested'[g] => cancelRequested[g]
              /\ stage'[g] \in Past => stage[g] \in Past \/ cancelRequested[g]
    PROVE  CoveredInv'
  <1> SUFFICES ASSUME NEW g \in Generations, (cancelRequested[g] \/ stage[g] \in Past)'
               PROVE  Covered(g)'
      BY DEF CoveredInv
  <1>1. Covered(g)
      BY DEF CoveredInv
  <1>2. CASE \E w \in Workers : Rejects(w, g)
      BY <1>2 DEF Covered
  <1>3. CASE Cleared(g)
    <2>1. ~active'[g]
        BY <1>3 DEF Cleared
    <2>2. \A c \in pending' : scope'[c] # g
        BY <1>3 DEF Cleared
    <2> QED
        BY <2>1, <2>2 DEF Covered, Cleared
  <1> QED
      BY <1>1, <1>2, <1>3 DEF Covered

\* A worker that rejects the calls of its target leaves them cleared.
LEMMA CoverRejected ==
    ASSUME TypeOK, CoveredInv, NEW t \in Generations, ~active'[t], pending' \subseteq Unrejected(t),
           scope' = scope,
           \A g \in Generations : active[g] \/ ~active'[g] \/ stage[g] = "new",
           \A w \in Workers, g \in Generations \ {t} : Rejects(w, g) => Rejects(w, g)',
           \A g \in Generations :
              /\ cancelRequested'[g] => cancelRequested[g] /\ stage[g] # "new"
              /\ stage'[g] \in Past => stage[g] \in Past \/ g = t
    PROVE  CoveredInv'
  <1> SUFFICES ASSUME NEW g \in Generations, (cancelRequested[g] \/ stage[g] \in Past)'
               PROVE  Covered(g)'
      BY DEF CoveredInv
  <1>1. CASE g = t
    <2>1. \A c \in pending' : scope'[c] # t
        BY DEF Unrejected
    <2> QED
        BY <1>1, <2>1 DEF Covered, Cleared
  <1>2. CASE g # t
    <2>1. Covered(g) /\ stage[g] # "new"
        BY <1>2 DEF CoveredInv, Past
    <2>2. CASE \E w \in Workers : Rejects(w, g)
        BY <1>2, <2>2 DEF Covered
    <2>3. CASE Cleared(g)
      <3>1. ~active'[g]
          BY <2>1, <2>3 DEF Cleared
      <3>2. \A c \in pending' : scope'[c] # g
          BY <2>3 DEF Cleared, Unrejected
      <3> QED
          BY <3>1, <3>2 DEF Covered, Cleared
    <2> QED
        BY <2>1, <2>2, <2>3 DEF Covered
  <1> QED
      BY <1>1, <1>2

\* Every step keeps the calls of ended requests cleared, or about to be.
LEMMA StepCovered == IInv /\ ClosedInv /\ CoveredInv /\ [Next]_vars => CoveredInv'
  <1> SUFFICES ASSUME IInv, ClosedInv, CoveredInv, [Next]_vars PROVE CoveredInv'
      OBVIOUS
  <1>0. TypeOK /\ TargetsOK /\ RegistryOK /\ FlagsOK /\ SendersOK
      BY DEF IInv, RequestsInv, SendsInv
  <1> USE DEF taskVars, flagVars, registryVars, sendVars, ownerVars, workerVars, closedVars
  <1>1. ASSUME NEW id \in Ids, Accept(id) PROVE CoveredInv'
    <2>1. PICK g \in Generations : NewGeneration(g, id)
        BY <1>1 DEF Accept
    <2>2. ASSUME NEW h \in Generations, (cancelRequested[h] \/ stage[h] \in Past)'
          PROVE  Covered(h)'
      <3>1. h # g
          BY <1>0, <1>1, <2>1, <2>2 DEF Accept, NewGeneration, GoTo, FlagsOK, Accepted, TypeOK, Past
      <3>2. Covered(h)
          BY <1>0, <1>1, <2>1, <2>2, <3>1 DEF Accept, NewGeneration, GoTo, TypeOK, CoveredInv
      <3>3. active'[h] = active[h]
          BY <1>0, <2>1, <3>1 DEF NewGeneration, TypeOK
      <3> QED
          BY <1>1, <3>2, <3>3 DEF Accept, Covered, Cleared, Rejects
    <2> QED
        BY <2>2 DEF CoveredInv
  <1>2. CASE ReaderFinishesCancel
    <2>1. target["reader"] \in Generations /\ ~active[target["reader"]]
        BY <1>0, <1>2 DEF ReaderFinishesCancel, TargetsOK, Silenced, Invalidating, Workers
    <2>2. \A w \in Workers, g \in Generations \ {target["reader"]} : Rejects(w, g) => Rejects(w, g)'
        BY <1>0, <1>2 DEF ReaderFinishesCancel, Rejects, TypeOK, Workers
    <2>3. \A g \in Generations : cancelRequested[g] => stage[g] # "new"
        BY <1>0 DEF FlagsOK, Accepted
    <2> QED
        BY <1>0, <1>2, <2>1, <2>2, <2>3, CoverRejected DEF ReaderFinishesCancel
  <1>3. CASE ReaderFinishesReuse
    <2>1. target["reader"] \in Generations /\ ~active[target["reader"]] /\ stage[target["reader"]] # "new"
        BY <1>0, <1>3 DEF ReaderFinishesReuse, TargetsOK, Silenced, Accepted, Invalidating, Workers
    <2>2. \A w \in Workers, g \in Generations \ {target["reader"]} : Rejects(w, g) => Rejects(w, g)'
        BY <1>0, <1>3 DEF ReaderFinishesReuse, Rejects, TypeOK, Workers
    <2>3. \A g \in Generations : cancelRequested[g] => stage[g] # "new"
        BY <1>0 DEF FlagsOK, Accepted
    <2>4. UNCHANGED <<cancelRequested, scope>> /\ pending' = Unrejected(target["reader"])
        BY <1>3 DEF ReaderFinishesReuse
    <2>5. CASE dispClosed /\ UNCHANGED <<stage, active>>
        BY <1>0, <2>1, <2>2, <2>3, <2>4, <2>5, CoverRejected
    <2>6. ASSUME NEW g \in Generations, NewGeneration(g, idOf[target["reader"]]) PROVE CoveredInv'
      <3>1. /\ \A h \in Generations : active[h] \/ ~active'[h] \/ stage[h] = "new"
            /\ \A h \in Generations : stage'[h] \in Past => stage[h] \in Past
            /\ ~active'[target["reader"]]
          BY <1>0, <2>1, <2>6 DEF NewGeneration, GoTo, TypeOK, Past
      <3> QED
          BY <1>0, <2>1, <2>2, <2>3, <2>4, <3>1, CoverRejected
    <2> QED
        BY <1>3, <2>5, <2>6 DEF ReaderFinishesReuse
  <1>4. ASSUME NEW id \in Ids, BeginCancel(id) \/ BeginReuse(id) PROVE CoveredInv'
    <2>1. \A w \in Workers, g \in Generations : Rejects(w, g) => Rejects(w, g)'
        BY <1>0, <1>4 DEF BeginCancel, BeginReuse, Rejects, Rejecting, TypeOK, Workers
    <2> QED
        BY <1>4, <2>1, CoverKept DEF BeginCancel, BeginReuse
  <1>5. ASSUME NEW c \in Calls, HostResponds(c) PROVE CoveredInv'
      BY <1>5, CoverKept DEF HostResponds, Rejects
  <1>6. CASE Close \/ CloserGathers
    <2>1. \A w \in Workers, g \in Generations : Rejects(w, g) => Rejects(w, g)'
      <3>1. CASE CloserGathers
          BY <1>0, <3>1 DEF CloserGathers, Rejects, Rejecting, TypeOK, Workers
      <3>2. CASE Close
          BY <1>0, <3>2 DEF Close, ClosedInv, Rejects, Rejecting, TypeOK, Workers
      <3> QED
          BY <1>6, <3>1, <3>2
    <2> QED
        BY <1>6, <2>1, CoverKept DEF Close, CloserGathers
  <1>7. ASSUME NEW rest, NEW left, CloserGoesOn(rest, left), step["closer"] = "starting",
               left = pending, UNCHANGED <<taskVars, flagVars, scope>>
        PROVE  CoveredInv'
    <2>1. \A w \in Workers, g \in Generations : Rejects(w, g) => Rejects(w, g)'
        BY <1>0, <1>7 DEF CloserGoesOn, Rejects, Rejecting, TypeOK, Workers
    <2> QED
        BY <1>7, <2>1, CoverKept DEF CloserGoesOn
  <1>8. ASSUME CloserGoesOn(todo, Unrejected(target["closer"])), step["closer"] = "finished",
               UNCHANGED <<taskVars, flagVars, scope>>
        PROVE  CoveredInv'
    <2> DEFINE t == target["closer"]
    <2>1. t \in Generations /\ ~active[t]
        BY <1>0, <1>8 DEF TargetsOK, Silenced, Invalidating, Workers
    <2>2. \A w \in Workers, g \in Generations \ {t} : Rejects(w, g) => Rejects(w, g)'
        BY <1>0, <1>8 DEF CloserGoesOn, Rejects, TypeOK, Workers
    <2>3. \A g \in Generations : cancelRequested[g] => stage[g] # "new"
        BY <1>0 DEF FlagsOK, Accepted
    <2>4. pending' \subseteq Unrejected(t)
        BY <1>8 DEF CloserGoesOn
    <2> QED
        BY <1>0, <1>8, <2>1, <2>2, <2>3, <2>4, CoverRejected
  <1>9. CASE CloserStarts \/ CloserRejects
      BY <1>7, <1>8, <1>9 DEF CloserStarts, CloserRejects
  <1>10. ASSUME NEW w \in Workers, MarkCancelled(w) \/ MarkFinished(w) PROVE CoveredInv'
    <2>1. target[w] \in Generations
        BY <1>0, <1>10 DEF MarkCancelled, MarkFinished, TargetsOK, Invalidating
    <2>2. \A g \in Generations : active'[g] => active[g]
        BY <1>0, <1>10, <2>1 DEF MarkCancelled, MarkFinished, TypeOK
    <2>3. \A v \in Workers, g \in Generations : Rejects(v, g) => Rejects(v, g)'
        BY <1>0, <1>10 DEF MarkCancelled, MarkFinished, Rejects, Rejecting, TypeOK
    <2> QED
        BY <1>10, <2>2, <2>3, CoverKept DEF MarkCancelled, MarkFinished
  <1>11. ASSUME NEW w \in Workers, CancelTask(w) PROVE CoveredInv'
    <2>1. \A v \in Workers, g \in Generations : Rejects(v, g) => Rejects(v, g)'
        BY <1>0, <1>11 DEF CancelTask, Rejects, Rejecting, TypeOK
    <2>2. ASSUME NEW g \in Generations \ {target[w]}, (cancelRequested[g] \/ stage[g] \in Past)'
          PROVE  Covered(g)'
      <3>1. cancelRequested[g] \/ stage[g] \in Past
          BY <1>0, <1>11, <2>2 DEF CancelTask, TypeOK
      <3>2. Covered(g)
          BY <3>1 DEF CoveredInv
      <3> QED
          BY <1>11, <2>1, <3>2 DEF CancelTask, Covered, Cleared
    <2>3. ASSUME NEW g \in Generations, g = target[w] PROVE Covered(g)'
      <3>1. Rejects(w, g)'
          BY <1>0, <1>11, <2>3 DEF CancelTask, Rejects, Rejecting, TypeOK
      <3> QED
          BY <3>1 DEF Covered
    <2> QED
        BY <2>2, <2>3 DEF CoveredInv
  <1>12. ASSUME NEW g \in Generations,
                \/ StartTask(g) \/ HandlerReturns(g) \/ HandlerRaisesCancelled(g)
                \/ MarkRequestFinished(g) \/ ResumeFinished(g) \/ MarkTerminalFinished(g)
                \/ ResumeTerminated(g) \/ RequestDone(g)
         PROVE  CoveredInv'
    <2>1. UNCHANGED <<cancelRequested, scope, step, target>> /\ pending' \subseteq pending
        BY <1>12
        DEF StartTask, HandlerReturns, HandlerRaisesCancelled, MarkRequestFinished, ResumeFinished,
            MarkTerminalFinished, ResumeTerminated, RequestDone, Unrejected
    <2>2. \A h \in Generations : active'[h] => active[h]
        BY <1>0, <1>12
        DEF StartTask, HandlerReturns, HandlerRaisesCancelled, MarkRequestFinished, ResumeFinished,
            MarkTerminalFinished, ResumeTerminated, RequestDone, TypeOK
    <2>3. \A h \in Generations : stage'[h] \in Past => stage[h] \in Past
        BY <1>0, <1>12
        DEF StartTask, HandlerReturns, HandlerRaisesCancelled, MarkRequestFinished, ResumeFinished,
            MarkTerminalFinished, ResumeTerminated, RequestDone, Resumable, GoTo, TypeOK, Past
    <2> QED
        BY <2>1, <2>2, <2>3, CoverKept DEF Rejects
  <1>13. ASSUME NEW g \in Generations, ResumeCleaned(g) PROVE CoveredInv'
    <2>1. ~active[g]
        BY <1>0, <1>13 DEF ResumeCleaned, Resumable, FlagsOK
    <2>2. \A h \in Generations : stage'[h] \in Past => stage[h] \in Past \/ h = g
        BY <1>0, <1>13 DEF ResumeCleaned, GoTo, TypeOK
    <2>3. \A h \in Generations : cancelRequested[h] => stage[h] # "new"
        BY <1>0 DEF FlagsOK, Accepted
    <2> QED
        BY <1>0, <1>13, <2>1, <2>2, <2>3, CoverRejected DEF ResumeCleaned, Rejects
  <1>14. ASSUME NEW g \in Generations, DeliverCancel(g) PROVE CoveredInv'
    <2>1. \A h \in Generations :
             /\ cancelRequested'[h] => cancelRequested[h]
             /\ stage'[h] \in Past => stage[h] \in Past \/ cancelRequested[h]
        BY <1>0, <1>14 DEF DeliverCancel, GoTo, TypeOK
    <2> QED
        BY <1>14, <2>1, CoverKept DEF DeliverCancel, Leave, Rejects
  <1>15. ASSUME NEW c \in Calls, NEW for \in MaybeGeneration, NEW by, StartCall(c, for, by)
         PROVE  CoveredInv'
    <2>1. ASSUME NEW g \in Generations, Cleared(g) PROVE Cleared(g)'
      <3>1. for # g
          BY <1>15, <2>1, SendersAreDisjoint DEF StartCall, CallScope, Cleared
      <3>2. scope'[c] = for /\ \A d \in Calls \ {c} : scope'[d] = scope[d]
          BY <1>0, <1>15 DEF StartCall, TypeOK, Senders
      <3> QED
          BY <1>0, <1>15, <2>1, <3>1, <3>2 DEF StartCall, Cleared, TypeOK
    <2> QED
        BY <1>15, <2>1 DEF StartCall, CoveredInv, Covered, Rejects
  <1>16. ASSUME NEW n \in Notices, StartNotice(n) PROVE CoveredInv'
      BY <1>16, CoverKept DEF StartNotice, Rejects
  <1>17. ASSUME NEW s \in Senders,
                \/ AcquireLock(s) \/ StartWrite(s) \/ EndWrite(s) \/ LeaveWrite(s)
                \/ CallReturns(s) \/ AbandonSend(s)
         PROVE  CoveredInv'
    <2>1. UNCHANGED <<cancelRequested, active, scope, step, target>> /\ pending' \subseteq pending
        BY <1>17
        DEF AcquireLock, StartWrite, EndWrite, LeaveWrite, CallReturns, AbandonSend, Leave
    <2>2. UNCHANGED stage \/ (s \in Generations /\ GoTo(s, "cleanup"))
        BY <1>17 DEF AcquireLock, StartWrite, EndWrite, LeaveWrite, CallReturns, AbandonSend,
                     AfterSend
    <2>3. \A h \in Generations : stage'[h] \in Past => stage[h] \in Past
        BY <1>0, <2>2 DEF GoTo, TypeOK, Past
    <2> QED
        BY <2>1, <2>3, CoverKept DEF Rejects
  <1>18. CASE UNCHANGED vars
      BY <1>18, CoverKept DEF vars, Rejects
  <1> QED
      BY <1>1, <1>2, <1>3, <1>4, <1>5, <1>6, <1>9, <1>10, <1>11, <1>12, <1>13, <1>14, <1>15, <1>16,
         <1>17, <1>18
      DEF Next, ReaderNext, CloserNext, WorkerNext, TaskNext, CallNext, SendNext, Senders

\* No request has ended at first.
LEMMA InitCovered == Init => CoveredInv
  BY DEF Init, CoveredInv, Past

\* CoveredInv holds in every reachable state.
LEMMA CoveredInvariance == Spec => []CoveredInv
  BY InitCovered, StepCovered, Invariance, ClosedInvariance, PTL DEF Spec

-----------------------------------------------------------------------------
(* What is pending belongs to a call that waits *)

WaitingInv == \A c \in pending : InSend(c)

\* Nobody stops waiting, and nothing new is pending.
LEMMA WaitingKept ==
    ASSUME WaitingInv, pending' \subseteq pending,
           \A c \in pending : InSend(c) => InSend(c)'
    PROVE  WaitingInv'
  BY DEF WaitingInv

\* Who leaves takes its entry along.
LEMMA WaitingLeft ==
    ASSUME TypeOK, WaitingInv, NEW S, Leave(S)
    PROVE  WaitingInv'
  <1> SUFFICES ASSUME NEW c \in pending' PROVE InSend(c)'
      BY DEF WaitingInv
  <1>1. c \in pending /\ c \notin S /\ c \in Senders
      BY DEF Leave, TypeOK, Senders
  <1>2. at'[c] = at[c]
      BY <1>1 DEF Leave
  <1> QED
      BY <1>1, <1>2 DEF WaitingInv, InSend

\* Every step keeps WaitingInv.
LEMMA StepWaiting == IInv /\ WaitingInv /\ [Next]_vars => WaitingInv'
  <1> SUFFICES ASSUME IInv, WaitingInv, [Next]_vars PROVE WaitingInv'
      OBVIOUS
  <1>0. TypeOK /\ SendersOK
      BY DEF IInv, SendsInv
  <1> USE DEF taskVars, flagVars, registryVars, sendVars, ownerVars, workerVars, closedVars
  <1>1. CASE UNCHANGED at /\ pending' \subseteq pending
      BY <1>1, WaitingKept DEF InSend
  <1>2. ASSUME NEW S, Leave(S) PROVE WaitingInv'
      BY <1>0, <1>2, WaitingLeft
  <1>3. CASE CloserNext
    <2>1. Unrejected(target["closer"]) \subseteq pending
        BY DEF Unrejected
    <2>2. UNCHANGED at /\ pending' \subseteq pending
        BY <1>3, <2>1 DEF CloserNext, Close, CloserStarts, CloserRejects, CloserGathers, CloserGoesOn
    <2> QED
        BY <1>1, <2>2
  <1>4. CASE ReaderNext
    <2>1. Unrejected(target["reader"]) \subseteq pending
        BY DEF Unrejected
    <2>2. UNCHANGED at /\ pending' \subseteq pending
        BY <1>4, <2>1 DEF ReaderNext, Accept, BeginCancel, BeginReuse, HostResponds,
                          ReaderFinishesCancel, ReaderFinishesReuse
    <2> QED
        BY <1>1, <2>2
  <1>5. CASE WorkerNext
      BY <1>1, <1>5 DEF WorkerNext, MarkCancelled, CancelTask, MarkFinished
  <1>6. ASSUME NEW g \in Generations, ResumeFinished(g) PROVE WaitingInv'
    <2>1. pending' \subseteq pending /\ pending \subseteq Calls
        BY <1>0, <1>6 DEF ResumeFinished, Unrejected, TypeOK
    <2>2. at' = [at EXCEPT ![g] = "lock"] \/ at' = at
        BY <1>6 DEF ResumeFinished
    <2>3. g \notin Calls /\ Calls \subseteq Senders /\ at \in [Senders -> Positions]
        BY <1>0, SendersAreDisjoint DEF TypeOK, Senders
    <2>4. \A c \in Calls : at'[c] = at[c]
        BY <2>2, <2>3
    <2> QED
        BY <2>1, <2>4, WaitingKept DEF InSend
  <1>7. ASSUME NEW g \in Generations, ResumeCleaned(g) PROVE WaitingInv'
      BY <1>1, <1>7 DEF ResumeCleaned, Unrejected
  <1>8. CASE TaskNext
      BY <1>1, <1>2, <1>6, <1>7, <1>8
      DEF TaskNext, StartTask, HandlerReturns, HandlerRaisesCancelled, MarkRequestFinished,
          MarkTerminalFinished, ResumeTerminated, DeliverCancel, RequestDone
  <1>9. ASSUME NEW c \in Calls, NEW for \in MaybeGeneration, NEW by \in MaybeGeneration,
               StartCall(c, for, by)
        PROVE  WaitingInv'
    <2>1. /\ at' = [at EXCEPT ![c] = "lock"] /\ pending' = pending \cup {c}
          /\ at \in [Senders -> Positions] /\ c \in Senders
        BY <1>0, <1>9 DEF StartCall, TypeOK, Senders
    <2>2. \A d \in Senders : at'[d] = IF d = c THEN "lock" ELSE at[d]
        BY <2>1
    <2>3. pending \subseteq Senders
        BY <1>0 DEF TypeOK, Senders
    <2> QED
        BY <2>1, <2>2, <2>3 DEF WaitingInv, InSend
  <1>10. ASSUME NEW n \in Notices, StartNotice(n) PROVE WaitingInv'
    <2>1. UNCHANGED pending /\ pending \subseteq Calls
        BY <1>0, <1>10 DEF StartNotice, TypeOK
    <2>2. \A c \in Calls : at'[c] = at[c]
        BY <1>0, <1>10, SendersAreDisjoint DEF StartNotice, TypeOK
    <2> QED
        BY <2>1, <2>2, WaitingKept DEF InSend
  <1>11. ASSUME NEW c \in Calls, CallReturns(c) PROVE WaitingInv'
      BY <1>2, <1>11 DEF CallReturns
  <1>12. ASSUME NEW s \in Senders, at[s] \in {"lock", "thread"}, at'[s] \in {"thread", "wait"},
                UNCHANGED pending, at' = [at EXCEPT ![s] = at'[s]]
         PROVE  WaitingInv'
    <2>1. \A d \in Senders : at'[d] = at[d] \/ InSend(d)'
        BY <1>0, <1>12 DEF TypeOK, InSend
    <2>2. pending \subseteq Senders
        BY <1>0 DEF TypeOK, Senders
    <2> QED
        BY <1>12, <2>1, <2>2, WaitingKept DEF InSend
  <1>13. ASSUME NEW s \in Senders, AcquireLock(s) PROVE WaitingInv'
      BY <1>0, <1>2, <1>12, <1>13 DEF AcquireLock, TypeOK
  <1>14. ASSUME NEW s \in Senders, LeaveWrite(s) PROVE WaitingInv'
      BY <1>0, <1>2, <1>12, <1>14 DEF LeaveWrite, TypeOK
  <1>15. ASSUME NEW s \in Senders, StartWrite(s) \/ EndWrite(s) PROVE WaitingInv'
      BY <1>1, <1>15 DEF StartWrite, EndWrite
  <1>16. ASSUME NEW s \in Senders, AbandonSend(s) PROVE WaitingInv'
      BY <1>2, <1>16 DEF AbandonSend
  <1>17. CASE UNCHANGED vars
      BY <1>1, <1>17 DEF vars
  <1> QED
      BY <1>3, <1>4, <1>5, <1>8, <1>9, <1>10, <1>11, <1>13, <1>14, <1>15, <1>16, <1>17
      DEF Next, CallNext, SendNext

\* WaitingInv holds in every reachable state.
LEMMA WaitingInvariance == Spec => []WaitingInv
  <1>1. Init => WaitingInv
      BY DEF Init, WaitingInv
  <1> QED
      BY <1>1, StepWaiting, Invariance, PTL DEF Spec

-----------------------------------------------------------------------------
(* The theorems *)

\* What waits for the host belongs to a call that still waits.  When a request's task is
\* over, no reverse call scoped to it is left, unless the reader or the closer is about to
\* reject it, although a cancellation may cut the task's own finish_request short
\* (runtime.py:245-251, 472-476).
THEOREM CallsNotOrphaned == Spec => []NoOrphanCalls
  <1>1. IInv /\ WaitingInv /\ CoveredInv => NoOrphanCalls
    <2> SUFFICES ASSUME IInv, WaitingInv, CoveredInv, NEW c \in pending, scope[c] # None,
                        stage[scope[c]] \in {"done", "gone"}
                 PROVE  \E w \in Workers : /\ target[w] = scope[c]
                                           /\ step[w] \in {"marked", "finish", "finished"}
        BY DEF NoOrphanCalls, WaitingInv
    <2>1. scope[c] \in Generations
        BY DEF IInv, TypeOK, Senders, MaybeGeneration
    <2>2. Covered(scope[c])
        BY <2>1 DEF CoveredInv, Past
    <2> QED
        BY <2>2 DEF Covered, Cleared, Rejects, Rejecting
  <1> QED
      BY <1>1, Invariance, WaitingInvariance, CoveredInvariance, PTL

\* When close() has returned, every accepted request is over and unregistered,
\* none can write, no reverse call is pending and none will be (runtime.py:376-394).
THEOREM NothingLeft == Spec => []CloseLeavesNothing
  <1>1. IInv /\ StagesInv /\ ClosedInv => CloseLeavesNothing
    <2> SUFFICES ASSUME IInv, StagesInv, ClosedInv, step["closer"] = "done"
                 PROVE  /\ \A g \in Generations : stage[g] \in {"new", "gone"} /\ Silenced(g)
                        /\ \A id \in Ids : requestStates[id] = None
                        /\ pending = {}
        BY DEF CloseLeavesNothing
    <2>1. ASSUME NEW g \in Generations PROVE stage[g] \in {"new", "gone"} /\ Silenced(g)
        BY DEF ClosedInv, Over, StagesInv, IInv, RequestsInv, FlagsOK, Silenced
    <2>2. \A id \in Ids : requestStates[id] = None
        BY DEF ClosedInv, IInv, TypeOK, MaybeGeneration
    <2>3. pending = {}
        BY DEF ClosedInv
    <2> QED
        BY <2>1, <2>2, <2>3
  <1> QED
      BY <1>1, Invariance, StagesInvariance, ClosedInvariance, PTL
=============================================================================
