------------------------ MODULE ExtensionRelay_proofs ------------------------
(***************************************************************************)
(* Theorems about ExtensionRelay for every set of keys and of sessions.    *)
(***************************************************************************)
EXTENDS ExtensionRelay, SequenceTheorems, TLAPS

\* The session of the connection: what was bound is what creation returned, and what
\* every channel was made for; nothing is bound before creation asked.
BindInv ==
    /\ creation = "idle" => bound = None
    /\ creation \in {"idle", "asked"} => created = None
    /\ created # None => bound = created
    /\ \A k \in Keys : starts[k] > 0 => bound # None /\ session[k] = bound

\* A key is in one of two sets from its first frame on, until the relay is closed; it
\* leaves the first when its channel is disposed of.
ChannelInv ==
    /\ \A k \in Keys :
          /\ starts[k] <= 1
          /\ k \in channels => starts[k] = 1 /\ k \notin retired
          /\ k \in retired => starts[k] = 1
          /\ starts[k] = 1 /\ relay # "closed" => k \in channels \cup retired
          /\ starts[k] = 1 /\ k \notin channels <=> dispose[k] # "none"
    /\ relay # "open" => channels = {}
    /\ relay = "closed" => \A k \in Keys : dispose[k] \in {"none", "ended"}

\* A channel that was not made has no tasks.
StartInv == \A k \in Keys : starts[k] = 0 => worker[k] = "none" /\ tool[k] = "none"

\* The host is told at the end of a disposal, and never of a channel it closed.
ToldInv ==
    \A k \in Keys :
        /\ told[k] <= 1
        /\ told[k] = 1 => dispose[k] \in {"telling", "ended"}
        /\ hostClosed[k] => dispose[k] # "none" /\ ~notify[k] /\ told[k] = 0

\* What each step of a disposal has stopped, for good.
TaskInv ==
    \A k \in Keys :
        /\ dispose[k] \in {"dispatcher", "joining", "telling", "ended"} =>
              worker[k] \in {"cancelled", "ended"}
        /\ dispose[k] \in {"joining", "telling", "ended"} => tool[k] \in {"none", "ended"}
        /\ dispose[k] \in {"telling", "ended"} =>
              worker[k] = "ended" /\ ui[k] \in {"none", "ended"}

IInv == TypeOK /\ BindInv /\ ChannelInv /\ StartInv /\ ToldInv /\ TaskInv

-----------------------------------------------------------------------------
(* Steps that several actions share *)

\* _retire moves keys from one set to the other, and disposes of a channel once.
LEMMA RetireEffect ==
    ASSUME TypeOK, NEW K \in SUBSET Keys, NEW n \in BOOLEAN, Retire(K, n)
    PROVE  /\ channels' \subseteq Keys /\ retired' \subseteq Keys
           /\ dispose' \in [Keys -> {"none", "created", "dispatcher", "joining", "telling",
                                    "ended"}]
           /\ notify' \in [Keys -> BOOLEAN]
           /\ channels' = channels \ K /\ retired' = retired \cup K
           /\ \A k \in Keys : k \in K \cap channels => dispose'[k] = "created" /\ notify'[k] = n
           /\ \A k \in Keys : k \notin K \cap channels =>
                 dispose'[k] = dispose[k] /\ notify'[k] = notify[k]
  BY DEF Retire, TypeOK

\* The tasks of a channel leave the session and the relay alone; at most they fail the
\* channel, once it was started.
LEMMA TasksFail ==
    ASSUME TaskNext
    PROVE  /\ UNCHANGED <<rpc, bindVars, relay, historyVars>>
           /\ \/ UNCHANGED endVars
              \/ \E k \in Keys : (worker[k] # "none" \/ tool[k] # "none") /\ Retire({k}, TRUE)
  BY DEF TaskNext, WorkerStarts, WorkerTakes, WorkerEnds, ToolSends, FrameAcked, FrameFails,
         ToolAsksUI, ToolCancelled, ToolCleaned, UIAnswers, UIUnlinked, UICleaned, Fails,
         ToolActive

\* The steps that end a channel or the relay bind no session and start no channel.
LEMMA EndsLeave ==
    ASSUME EndNext
    PROVE  /\ UNCHANGED <<bound, created, starts, session, hostClosed>>
           /\ creation' = creation \/ creation' = "failed"
  BY DEF EndNext, DisposeStarts, CancelTool, DispatcherClosed, ChannelClosed, ToldHost,
         RpcCloses, CloseRelay, RelayClosed, bindVars, historyVars

-----------------------------------------------------------------------------
(* The invariant *)

\* Init satisfies every part of the invariant.
LEMMA InitInv == Init => IInv
  BY RelayAssumption
     DEF Init, IInv, TypeOK, BindInv, ChannelInv, StartInv, ToldInv, TaskInv, ToolActive

\* Every step keeps the types.
LEMMA StepType ==
    ASSUME TypeOK, [Next]_vars
    PROVE  TypeOK'
  <1>1. ASSUME NEW s \in Sessions, AskSession(s) PROVE TypeOK'
        BY <1>1 DEF AskSession, TypeOK, ToolActive, taskVars, endVars, historyVars
  <1>2. ASSUME NEW s \in Sessions, SessionAnswered(s) PROVE TypeOK'
        BY <1>2 DEF SessionAnswered, TypeOK, ToolActive, taskVars, endVars, historyVars
  <1>3. ASSUME NEW k \in Keys, NEW s \in Sessions, AcceptInitialize(k, s) PROVE TypeOK'
        BY <1>3 DEF AcceptInitialize, TypeOK, ToolActive
  <1>4. ASSUME NEW k \in Keys, NEW s \in Sessions, AcceptCall(k, s) PROVE TypeOK'
        BY <1>4
           DEF AcceptCall, TypeOK, ToolActive, bindVars, taskVars, endVars, historyVars
  <1>5. ASSUME NEW k \in Keys, NEW s \in Sessions, AcceptClose(k, s) PROVE TypeOK'
    <2>1. {k} \in SUBSET Keys /\ FALSE \in BOOLEAN
          OBVIOUS
    <2>2. hostClosed' \in [Keys -> BOOLEAN]
          BY <1>5 DEF AcceptClose, TypeOK
    <2> QED
          BY <1>5, <2>1, <2>2, RetireEffect DEF AcceptClose, TypeOK, bindVars, taskVars
  <1>6. ASSUME NEW k \in Keys, WorkerStarts(k) PROVE TypeOK'
    <2>1. CASE UNCHANGED endVars
          BY <1>6, <2>1 DEF WorkerStarts, ToolActive, TypeOK, bindVars, endVars, historyVars
    <2>2. CASE Retire({k}, TRUE)
      <3>1. {k} \in SUBSET Keys /\ TRUE \in BOOLEAN
            OBVIOUS
      <3>2. UNCHANGED <<rpc, bindVars, relay, messages, tool, ui, historyVars>>
            BY <1>6 DEF WorkerStarts
      <3>3. worker' \in [Keys -> {"none", "starting", "waiting", "cancelled", "ended"}]
            BY <1>6 DEF WorkerStarts, ToolActive, TypeOK
      <3> QED
            BY <2>2, <3>1, <3>2, <3>3, RetireEffect DEF TypeOK, bindVars, historyVars
    <2> QED
          BY <1>6, <2>1, <2>2 DEF WorkerStarts, Fails
  <1>7. ASSUME NEW k \in Keys, WorkerTakes(k) PROVE TypeOK'
    <2>1. messages[k] \in Seq({"initialize", "call"}) /\ messages[k] # <<>>
          BY <1>7 DEF WorkerTakes, TypeOK
    <2>2. Tail(messages[k]) \in Seq({"initialize", "call"})
          BY <2>1
    <2> QED
          BY <1>7, <2>2 DEF WorkerTakes, TypeOK, ToolActive, bindVars, endVars, historyVars
  <1>8. ASSUME NEW k \in Keys, WorkerEnds(k) PROVE TypeOK'
        BY <1>8 DEF WorkerEnds, TypeOK, ToolActive, bindVars, endVars, historyVars
  <1>9. ASSUME NEW k \in Keys, NEW x \in {"sending", "answering"}, ToolSends(k, x)
        PROVE  TypeOK'
    <2>1. CASE UNCHANGED endVars
          BY <1>9, <2>1
             DEF ToolSends, SetTool, ToolActive, TypeOK, bindVars, endVars, historyVars
    <2>2. CASE Retire({k}, TRUE)
      <3>1. {k} \in SUBSET Keys /\ TRUE \in BOOLEAN
            OBVIOUS
      <3>2. UNCHANGED <<rpc, bindVars, relay, messages, worker, ui, historyVars>>
            BY <1>9 DEF ToolSends
      <3>3. tool' \in [Keys -> {"none"} \cup ToolActive \cup {"cleaning", "ended"}]
        BY <1>9 DEF ToolSends, SetTool, ToolActive, TypeOK
      <3> QED
            BY <2>2, <3>1, <3>2, <3>3, RetireEffect DEF TypeOK, bindVars, historyVars
    <2> QED
          BY <1>9, <2>1, <2>2 DEF ToolSends, Fails
  <1>10. ASSUME NEW k \in Keys, FrameAcked(k) PROVE TypeOK'
        BY <1>10
           DEF FrameAcked, SetTool, TypeOK, ToolActive, bindVars, endVars, historyVars
  <1>11. ASSUME NEW k \in Keys, FrameFails(k) PROVE TypeOK'
    <2>1. {k} \in SUBSET Keys /\ TRUE \in BOOLEAN
          OBVIOUS
    <2>2. UNCHANGED <<rpc, bindVars, relay, messages, worker, ui, historyVars>> /\ Retire({k}, TRUE)
          BY <1>11 DEF FrameFails, Fails
    <2>3. tool' \in [Keys -> {"none"} \cup ToolActive \cup {"cleaning", "ended"}]
          BY <1>11 DEF FrameFails, SetTool, ToolActive, TypeOK
    <2> QED
          BY <1>11, <2>1, <2>2, <2>3, RetireEffect DEF TypeOK, bindVars, historyVars
  <1>12. ASSUME NEW k \in Keys, ToolAsksUI(k) PROVE TypeOK'
        BY <1>12
           DEF ToolAsksUI, SetTool, SetUI, TypeOK, ToolActive, bindVars, endVars,
               historyVars
  <1>13. ASSUME NEW k \in Keys, ToolCancelled(k) PROVE TypeOK'
        BY <1>13
           DEF ToolCancelled, SetTool, TypeOK, ToolActive, bindVars, endVars, historyVars
  <1>14. ASSUME NEW k \in Keys, ToolCleaned(k) PROVE TypeOK'
        BY <1>14
           DEF ToolCleaned, SetTool, TypeOK, ToolActive, bindVars, endVars, historyVars
  <1>15. ASSUME NEW k \in Keys, UIAnswers(k) PROVE TypeOK'
        BY <1>15
           DEF UIAnswers, SetTool, SetUI, TypeOK, ToolActive, bindVars, endVars,
               historyVars
  <1>16. ASSUME NEW k \in Keys, UIUnlinked(k) PROVE TypeOK'
        BY <1>16 DEF UIUnlinked, SetUI, TypeOK, ToolActive, bindVars, endVars, historyVars
  <1>17. ASSUME NEW k \in Keys, UICleaned(k) PROVE TypeOK'
        BY <1>17 DEF UICleaned, SetUI, TypeOK, ToolActive, bindVars, endVars, historyVars
  <1>18. ASSUME NEW k \in Keys, DisposeStarts(k) PROVE TypeOK'
        BY <1>18
           DEF DisposeStarts, SetDispose, SetUI, TypeOK, ToolActive, bindVars, endVars,
               historyVars
  <1>19. ASSUME NEW k \in Keys, CancelTool(k) PROVE TypeOK'
        BY <1>19
           DEF CancelTool, SetTool, TypeOK, ToolActive, bindVars, endVars, historyVars
  <1>20. ASSUME NEW k \in Keys, DispatcherClosed(k) PROVE TypeOK'
        BY <1>20
           DEF DispatcherClosed, SetDispose, TypeOK, ToolActive, bindVars, taskVars,
               endVars, historyVars
  <1>21. ASSUME NEW k \in Keys, ChannelClosed(k) PROVE TypeOK'
    <2>1. told' \in [Keys -> Nat]
      <3>1. told' = told \/ told' = [told EXCEPT ![k] = @ + 1]
            BY <1>21 DEF ChannelClosed
      <3>2. told \in [Keys -> Nat] /\ told[k] + 1 \in Nat
        BY DEF TypeOK
      <3> QED
            BY <3>1, <3>2
    <2>2. dispose' \in [Keys -> {"none", "created", "dispatcher", "joining", "telling", "ended"}]
          BY <1>21 DEF ChannelClosed, SetDispose, TypeOK
    <2> QED
          BY <1>21, <2>1, <2>2 DEF ChannelClosed, TypeOK, bindVars, taskVars
  <1>22. ASSUME NEW k \in Keys, ToldHost(k) PROVE TypeOK'
        BY <1>22
           DEF ToldHost, SetDispose, TypeOK, ToolActive, bindVars, taskVars, endVars,
               historyVars
  <1>23. ASSUME RpcCloses PROVE TypeOK'
        BY <1>23
           DEF RpcCloses, TypeOK, ToolActive, bindVars, taskVars, endVars, historyVars
  <1>24. ASSUME CloseRelay PROVE TypeOK'
    <2>1. channels \in SUBSET Keys /\ FALSE \in BOOLEAN
          BY DEF TypeOK
    <2> QED
          BY <1>24, <2>1, RetireEffect DEF CloseRelay, TypeOK, bindVars, taskVars, historyVars
  <1>25. ASSUME RelayClosed PROVE TypeOK'
        BY <1>25
           DEF RelayClosed, TypeOK, ToolActive, bindVars, taskVars, endVars, historyVars
  <1>26. CASE UNCHANGED vars
      BY <1>26 DEF vars, bindVars, taskVars, endVars, historyVars, TypeOK, ToolActive
  <1> QED
        BY <1>1, <1>2, <1>3, <1>4, <1>5, <1>6, <1>7, <1>8, <1>9, <1>10, <1>11, <1>12,
         <1>13, <1>14, <1>15, <1>16, <1>17, <1>18, <1>19, <1>20, <1>21, <1>22, <1>23, <1>24,
         <1>25, <1>26
         DEF Next, SessionNext, TaskNext, EndNext

\* The session that is bound stays the one that channels were made for.
LEMMA StepBind ==
    ASSUME TypeOK, BindInv, [Next]_vars
    PROVE  BindInv'
  <1>1. ASSUME NEW s \in Sessions, AskSession(s) PROVE BindInv'
      BY <1>1 DEF AskSession, TypeOK, BindInv, historyVars
  <1>2. ASSUME NEW s \in Sessions, SessionAnswered(s) PROVE BindInv'
      BY <1>2, RelayAssumption DEF SessionAnswered, MayBind, TypeOK, BindInv, historyVars
  <1>3. ASSUME NEW k \in Keys, NEW s \in Sessions, AcceptInitialize(k, s) PROVE BindInv'
      BY <1>3, RelayAssumption DEF AcceptInitialize, Admitted, MayBind, TypeOK, BindInv
  <1>4. ASSUME NEW k \in Keys, NEW s \in Sessions, AcceptCall(k, s) \/ AcceptClose(k, s)
        PROVE  BindInv'
      BY <1>4 DEF AcceptCall, AcceptClose, BindInv, bindVars, historyVars
  <1>5. CASE TaskNext
      BY <1>5, TasksFail DEF BindInv, bindVars, historyVars
  <1>6. CASE EndNext
      BY <1>6, EndsLeave DEF BindInv
  <1>7. CASE UNCHANGED vars
      BY <1>7 DEF BindInv, vars, bindVars, historyVars
  <1> QED
      BY <1>1, <1>2, <1>3, <1>4, <1>5, <1>6, <1>7 DEF Next, SessionNext

\* Channels that were made are retired without losing a key.
LEMMA RetireKeeps ==
    ASSUME TypeOK, ChannelInv, NEW K \in SUBSET Keys, NEW n \in BOOLEAN, Retire(K, n),
           \A k \in K : starts[k] = 1, starts' = starts, relay' = relay
    PROVE  ChannelInv'
  <1>1. ASSUME NEW k \in Keys
        PROVE  /\ starts'[k] <= 1
               /\ k \in channels' => starts'[k] = 1 /\ k \notin retired'
               /\ k \in retired' => starts'[k] = 1
               /\ starts'[k] = 1 /\ relay' # "closed" => k \in channels' \cup retired'
               /\ starts'[k] = 1 /\ k \notin channels' <=> dispose'[k] # "none"
    <2>1. channels' = channels \ K /\ retired' = retired \cup K
          BY RetireEffect, ZenonT(30)
    <2>2. k \in K \cap channels => dispose'[k] = "created"
          BY RetireEffect
    <2>3. k \notin K \cap channels => dispose'[k] = dispose[k]
          BY RetireEffect
    <2> QED
          BY <2>1, <2>2, <2>3 DEF ChannelInv
  <1>2. relay' # "open" => channels' = {}
        BY RetireEffect DEF ChannelInv
  <1>3. relay' = "closed" => \A k \in Keys : dispose'[k] \in {"none", "ended"}
        BY RetireEffect DEF ChannelInv
  <1> QED
        BY <1>1, <1>2, <1>3 DEF ChannelInv

\* Retiring a channel tells nobody yet, and never the host of a channel it closed.
LEMMA RetireTells ==
    ASSUME TypeOK, ChannelInv, ToldInv, NEW K \in SUBSET Keys, NEW n \in BOOLEAN, Retire(K, n),
           told' = told, hostClosed' = hostClosed
    PROVE  ToldInv'
  <1>1. ASSUME NEW k \in Keys
        PROVE  /\ told[k] = 1 => dispose'[k] \in {"telling", "ended"}
               /\ hostClosed[k] => dispose'[k] # "none" /\ ~notify'[k] /\ told[k] = 0
    <2>1. CASE k \in K \cap channels
          BY <2>1 DEF ChannelInv, ToldInv, TypeOK
    <2>2. CASE k \notin K \cap channels
      <3>1. dispose'[k] = dispose[k] /\ notify'[k] = notify[k]
            BY <2>2, RetireEffect
      <3> QED
            BY <3>1 DEF ToldInv
    <2> QED
          BY <2>1, <2>2
  <1> QED
        BY <1>1 DEF ToldInv

\* A key is never used again.
LEMMA StepChannel ==
    ASSUME TypeOK, ChannelInv, StartInv, [Next]_vars
    PROVE  ChannelInv'
  <1>1. ASSUME NEW s \in Sessions, AskSession(s) \/ SessionAnswered(s) PROVE ChannelInv'
      BY <1>1 DEF AskSession, SessionAnswered, ChannelInv, endVars, historyVars
  <1>2. ASSUME NEW k \in Keys, NEW s \in Sessions, AcceptInitialize(k, s) PROVE ChannelInv'
      BY <1>2 DEF AcceptInitialize, Admitted, TypeOK, ChannelInv
  <1>3. ASSUME NEW k \in Keys, NEW s \in Sessions, AcceptCall(k, s) PROVE ChannelInv'
      BY <1>3 DEF AcceptCall, ChannelInv, endVars, historyVars
  <1>4. ASSUME NEW k \in Keys, NEW s \in Sessions, AcceptClose(k, s) PROVE ChannelInv'
    <2>1. starts[k] = 1 /\ Retire({k}, FALSE) /\ starts' = starts /\ relay' = relay
          BY <1>4 DEF AcceptClose, ChannelInv
    <2>2. {k} \in SUBSET Keys /\ FALSE \in BOOLEAN
          OBVIOUS
    <2> QED
          BY <2>1, <2>2, RetireKeeps
  <1>5. CASE TaskNext
    <2>1. starts' = starts /\ relay' = relay
          BY <1>5, TasksFail DEF historyVars
    <2>2. CASE UNCHANGED endVars
          BY <2>1, <2>2 DEF ChannelInv, endVars
    <2>3. ASSUME NEW k \in Keys, worker[k] # "none" \/ tool[k] # "none", Retire({k}, TRUE)
          PROVE  ChannelInv'
      <3>1. starts[k] = 1
            BY <2>3 DEF StartInv, ChannelInv, TypeOK
      <3>2. {k} \in SUBSET Keys /\ TRUE \in BOOLEAN
            OBVIOUS
      <3> QED
            BY <2>1, <2>3, <3>1, <3>2, RetireKeeps
    <2> QED
          BY <1>5, <2>2, <2>3, TasksFail
  <1>6. ASSUME NEW k \in Keys,
               DisposeStarts(k) \/ DispatcherClosed(k) \/ ChannelClosed(k) \/ ToldHost(k)
        PROVE  ChannelInv'
      BY <1>6
         DEF DisposeStarts, DispatcherClosed, ChannelClosed, ToldHost, SetDispose, TypeOK,
             ChannelInv, historyVars
  <1>7. ASSUME NEW k \in Keys, CancelTool(k) PROVE ChannelInv'
      BY <1>7 DEF CancelTool, ChannelInv, endVars, historyVars
  <1>8. CASE RpcCloses
      BY <1>8 DEF RpcCloses, ChannelInv, endVars, historyVars
  <1>9. CASE CloseRelay
    <2>1. \A k \in Keys : k \in channels => starts[k] = 1
          BY DEF ChannelInv
    <2>2. /\ channels' = {} /\ retired' = retired \cup channels
          /\ starts' = starts /\ relay' = "gathering"
          /\ \A k \in Keys : dispose'[k] = IF k \in channels THEN "created" ELSE dispose[k]
          BY <1>9 DEF CloseRelay, Retire, TypeOK, historyVars
    <2>3. relay = "open"
          BY <1>9 DEF CloseRelay
    <2> QED
          BY <2>1, <2>2, <2>3 DEF ChannelInv
  <1>10. CASE RelayClosed
      BY <1>10 DEF RelayClosed, ChannelInv, historyVars
  <1>11. CASE UNCHANGED vars
      BY <1>11 DEF ChannelInv, vars, endVars, historyVars
  <1> QED
      BY <1>1, <1>2, <1>3, <1>4, <1>5, <1>6, <1>7, <1>8, <1>9, <1>10, <1>11
         DEF Next, SessionNext, EndNext

\* Only the first frame starts the worker, and only a worker the tool.
LEMMA StepStart ==
    ASSUME TypeOK, ChannelInv, StartInv, [Next]_vars
    PROVE  StartInv'
  <1>1. ASSUME NEW k \in Keys, NEW s \in Sessions, AcceptInitialize(k, s) PROVE StartInv'
      BY <1>1 DEF AcceptInitialize, TypeOK, StartInv
  <1>2. ASSUME NEW k \in Keys, NEW s \in Sessions,
               AcceptCall(k, s) \/ AcceptClose(k, s)
        PROVE  StartInv'
      BY <1>2 DEF AcceptCall, AcceptClose, StartInv, taskVars, historyVars
  <1>3. CASE TaskNext
      BY <1>3
         DEF TaskNext, WorkerStarts, WorkerTakes, WorkerEnds, ToolSends, FrameAcked,
             FrameFails, ToolAsksUI, ToolCancelled, ToolCleaned, UIAnswers, UIUnlinked,
             UICleaned, SetTool, ToolActive, TypeOK, StartInv, historyVars
  <1>4. ASSUME NEW k \in Keys, DisposeStarts(k) PROVE StartInv'
    <2>1. starts[k] = 1 /\ starts' = starts /\ tool' = tool
          BY <1>4 DEF DisposeStarts, ChannelInv, historyVars
    <2>2. \A j \in Keys \ {k} : worker'[j] = worker[j]
          BY <1>4 DEF DisposeStarts, TypeOK
    <2> QED
          BY <2>1, <2>2 DEF StartInv
  <1>5. ASSUME NEW k \in Keys, CancelTool(k) PROVE StartInv'
      BY <1>5 DEF CancelTool, SetTool, ToolActive, TypeOK, StartInv, historyVars
  <1>6. ASSUME NEW k \in Keys, DispatcherClosed(k) \/ ChannelClosed(k) \/ ToldHost(k)
        PROVE  StartInv'
      BY <1>6 DEF DispatcherClosed, ChannelClosed, ToldHost, StartInv, taskVars, historyVars
  <1>7. CASE RpcCloses \/ CloseRelay \/ RelayClosed
      BY <1>7 DEF RpcCloses, CloseRelay, RelayClosed, StartInv, taskVars, historyVars
  <1>8. CASE UNCHANGED vars
      BY <1>8 DEF StartInv, vars, taskVars, historyVars
  <1>9. ASSUME NEW s \in Sessions, AskSession(s) \/ SessionAnswered(s) PROVE StartInv'
      BY <1>9 DEF AskSession, SessionAnswered, StartInv, taskVars, historyVars
  <1> QED
      BY <1>1, <1>2, <1>3, <1>4, <1>5, <1>6, <1>7, <1>8, <1>9 DEF Next, SessionNext, EndNext

\* The host is told when a channel ends that it did not close.
LEMMA StepTold ==
    ASSUME TypeOK, ChannelInv, ToldInv, [Next]_vars
    PROVE  ToldInv'
  <1>1. ASSUME NEW s \in Sessions, AskSession(s) \/ SessionAnswered(s) PROVE ToldInv'
      BY <1>1 DEF AskSession, SessionAnswered, ToldInv, endVars, historyVars
  <1>2. ASSUME NEW k \in Keys, NEW s \in Sessions, AcceptInitialize(k, s) \/ AcceptCall(k, s)
        PROVE  ToldInv'
      BY <1>2 DEF AcceptInitialize, AcceptCall, ToldInv, endVars, historyVars
  <1>3. ASSUME NEW k \in Keys, NEW s \in Sessions, AcceptClose(k, s) PROVE ToldInv'
    <2>1. /\ Retire({k}, FALSE) /\ told' = told
          /\ hostClosed' = [hostClosed EXCEPT ![k] = @ \/ k \in channels]
          BY <1>3 DEF AcceptClose
    <2>2. {k} \in SUBSET Keys /\ FALSE \in BOOLEAN
          OBVIOUS
    <2>3. /\ \A j \in Keys : j \in {k} \cap channels =>
                dispose'[j] = "created" /\ notify'[j] = FALSE
          /\ \A j \in Keys : j \notin {k} \cap channels =>
                dispose'[j] = dispose[j] /\ notify'[j] = notify[j]
          BY <2>1, <2>2, RetireEffect
    <2>5. \A j \in Keys : j \notin {k} \cap channels => hostClosed'[j] = hostClosed[j]
          BY <2>1 DEF TypeOK
    <2>4. \A j \in channels : dispose[j] = "none" /\ j \in Keys
          BY DEF ChannelInv, TypeOK
    <2> QED
          BY <2>1, <2>3, <2>4, <2>5 DEF TypeOK, ToldInv
  <1>4. CASE TaskNext
    <2>1. told' = told /\ hostClosed' = hostClosed
          BY <1>4, TasksFail DEF historyVars
    <2>2. CASE UNCHANGED endVars
          BY <2>1, <2>2 DEF ToldInv, endVars
    <2>3. ASSUME NEW k \in Keys, Retire({k}, TRUE) PROVE ToldInv'
          BY <2>1, <2>3, RetireTells
    <2> QED
          BY <1>4, <2>2, <2>3, TasksFail
  <1>5. ASSUME NEW k \in Keys, DisposeStarts(k) \/ DispatcherClosed(k) \/ ToldHost(k)
        PROVE  ToldInv'
      BY <1>5
         DEF DisposeStarts, DispatcherClosed, ToldHost, SetDispose, TypeOK, ToldInv,
             historyVars
  <1>6. ASSUME NEW k \in Keys, ChannelClosed(k) PROVE ToldInv'
      BY <1>6 DEF ChannelClosed, SetDispose, TypeOK, ToldInv
  <1>7. ASSUME NEW k \in Keys, CancelTool(k) PROVE ToldInv'
      BY <1>7 DEF CancelTool, ToldInv, endVars, historyVars
  <1>8. CASE RpcCloses \/ RelayClosed
      BY <1>8 DEF RpcCloses, RelayClosed, ToldInv, endVars, historyVars
  <1>9. CASE CloseRelay
      BY <1>9, RetireTells DEF CloseRelay, TypeOK, historyVars
  <1>10. CASE UNCHANGED vars
      BY <1>10 DEF ToldInv, vars, endVars, historyVars
  <1> QED
      BY <1>1, <1>2, <1>3, <1>4, <1>5, <1>6, <1>7, <1>8, <1>9, <1>10
         DEF Next, SessionNext, EndNext
\* What a disposal has stopped stays stopped: no step of a task revives it.
LEMMA StepTask ==
    ASSUME TypeOK, ChannelInv, TaskInv, [Next]_vars
    PROVE  TaskInv'
  <1>1. ASSUME NEW s \in Sessions, AskSession(s) PROVE TaskInv'
        BY <1>1
           DEF AskSession, TypeOK, ToolActive, ChannelInv, TaskInv, taskVars, endVars,
               historyVars
  <1>2. ASSUME NEW s \in Sessions, SessionAnswered(s) PROVE TaskInv'
        BY <1>2
           DEF SessionAnswered, MayBind, TypeOK, ToolActive, ChannelInv, TaskInv, taskVars,
               endVars, historyVars
  <1>3. ASSUME NEW k \in Keys, NEW s \in Sessions, AcceptInitialize(k, s) PROVE TaskInv'
        BY <1>3
           DEF AcceptInitialize, Admitted, MayBind, TypeOK, ToolActive, ChannelInv, TaskInv
  <1>4. ASSUME NEW k \in Keys, NEW s \in Sessions, AcceptCall(k, s) PROVE TaskInv'
        BY <1>4
           DEF AcceptCall, Admitted, MayBind, TypeOK, ToolActive, ChannelInv, TaskInv,
               bindVars, taskVars, endVars, historyVars
  <1>5. ASSUME NEW k \in Keys, NEW s \in Sessions, AcceptClose(k, s) PROVE TaskInv'
        BY <1>5
           DEF AcceptClose, Admitted, MayBind, Retire, TypeOK, ToolActive, ChannelInv,
               TaskInv, bindVars, taskVars
  <1>6. ASSUME NEW k \in Keys, WorkerStarts(k) PROVE TaskInv'
    <2>1. worker[k] = "starting" /\ tool' = tool /\ ui' = ui
          /\ \A j \in Keys \ {k} : worker'[j] = worker[j]
          BY <1>6 DEF WorkerStarts, TypeOK
    <2>2. dispose[k] \in {"none", "created"}
          BY <2>1 DEF TaskInv, TypeOK
    <2>3. \A j \in Keys : dispose'[j] \in {dispose[j], "created"}
          BY <1>6 DEF WorkerStarts, Fails, Retire, endVars
    <2> QED
          BY <2>1, <2>2, <2>3 DEF TaskInv
  <1>7. ASSUME NEW k \in Keys, WorkerTakes(k) PROVE TaskInv'
        BY <1>7
           DEF WorkerTakes, Closed, TypeOK, ToolActive, ChannelInv, TaskInv, bindVars,
               endVars, historyVars
  <1>8. ASSUME NEW k \in Keys, WorkerEnds(k) PROVE TaskInv'
        BY <1>8
           DEF WorkerEnds, TypeOK, ToolActive, ChannelInv, TaskInv, bindVars, endVars,
               historyVars
  <1>9. ASSUME NEW k \in Keys, NEW x \in {"sending", "answering"}, ToolSends(k, x)
        PROVE  TaskInv'
        BY <1>9, ZenonT(30)
           DEF ToolSends, SetTool, Closed, Fails, Retire, TypeOK, ToolActive, ChannelInv,
               TaskInv, bindVars, endVars, historyVars
  <1>10. ASSUME NEW k \in Keys, FrameAcked(k) PROVE TaskInv'
        BY <1>10
           DEF FrameAcked, SetTool, TypeOK, ToolActive, ChannelInv, TaskInv, bindVars,
               endVars, historyVars
  <1>11. ASSUME NEW k \in Keys, FrameFails(k) PROVE TaskInv'
        BY <1>11
           DEF FrameFails, SetTool, Fails, Retire, TypeOK, ToolActive, ChannelInv, TaskInv,
               bindVars, historyVars
  <1>12. ASSUME NEW k \in Keys, ToolAsksUI(k) PROVE TaskInv'
        BY <1>12
           DEF ToolAsksUI, SetTool, SetUI, Closed, TypeOK, ToolActive, ChannelInv, TaskInv,
               bindVars, endVars, historyVars
  <1>13. ASSUME NEW k \in Keys, ToolCancelled(k) PROVE TaskInv'
        BY <1>13
           DEF ToolCancelled, SetTool, TypeOK, ToolActive, ChannelInv, TaskInv, bindVars,
               endVars, historyVars
  <1>14. ASSUME NEW k \in Keys, ToolCleaned(k) PROVE TaskInv'
        BY <1>14
           DEF ToolCleaned, SetTool, TypeOK, ToolActive, ChannelInv, TaskInv, bindVars,
               endVars, historyVars
  <1>15. ASSUME NEW k \in Keys, UIAnswers(k) PROVE TaskInv'
        BY <1>15
           DEF UIAnswers, SetTool, SetUI, Closed, TypeOK, ToolActive, ChannelInv, TaskInv,
               bindVars, endVars, historyVars
  <1>16. ASSUME NEW k \in Keys, UIUnlinked(k) PROVE TaskInv'
        BY <1>16
           DEF UIUnlinked, SetUI, TypeOK, ToolActive, ChannelInv, TaskInv, bindVars,
               endVars, historyVars
  <1>17. ASSUME NEW k \in Keys, UICleaned(k) PROVE TaskInv'
        BY <1>17
           DEF UICleaned, SetUI, TypeOK, ToolActive, ChannelInv, TaskInv, bindVars,
               endVars, historyVars
  <1>18. ASSUME NEW k \in Keys, DisposeStarts(k) PROVE TaskInv'
        BY <1>18
           DEF DisposeStarts, SetDispose, SetUI, TypeOK, ToolActive, ChannelInv, TaskInv,
               bindVars, historyVars
  <1>19. ASSUME NEW k \in Keys, CancelTool(k) PROVE TaskInv'
        BY <1>19
           DEF CancelTool, SetTool, TypeOK, ToolActive, ChannelInv, TaskInv, bindVars,
               endVars, historyVars
  <1>20. ASSUME NEW k \in Keys, DispatcherClosed(k) PROVE TaskInv'
        BY <1>20
           DEF DispatcherClosed, SetDispose, TypeOK, ToolActive, ChannelInv, TaskInv,
               bindVars, taskVars, historyVars
  <1>21. ASSUME NEW k \in Keys, ChannelClosed(k) PROVE TaskInv'
        BY <1>21
           DEF ChannelClosed, SetDispose, TypeOK, ToolActive, ChannelInv, TaskInv,
               bindVars, taskVars
  <1>22. ASSUME NEW k \in Keys, ToldHost(k) PROVE TaskInv'
        BY <1>22
           DEF ToldHost, SetDispose, TypeOK, ToolActive, ChannelInv, TaskInv, bindVars,
               taskVars, historyVars
  <1>23. ASSUME RpcCloses PROVE TaskInv'
        BY <1>23
           DEF RpcCloses, TypeOK, ToolActive, ChannelInv, TaskInv, taskVars, endVars,
               historyVars
  <1>24. ASSUME CloseRelay PROVE TaskInv'
        BY <1>24
           DEF CloseRelay, Retire, TypeOK, ToolActive, ChannelInv, TaskInv, bindVars,
               taskVars, historyVars
  <1>25. ASSUME RelayClosed PROVE TaskInv'
        BY <1>25
           DEF RelayClosed, TypeOK, ToolActive, ChannelInv, TaskInv, bindVars, taskVars,
               historyVars
  <1>26. CASE UNCHANGED vars
      BY <1>26
         DEF vars, bindVars, taskVars, endVars, historyVars, TypeOK, ToolActive, ChannelInv,
             TaskInv
  <1> QED
        BY <1>1, <1>2, <1>3, <1>4, <1>5, <1>6, <1>7, <1>8, <1>9, <1>10, <1>11, <1>12,
         <1>13, <1>14, <1>15, <1>16, <1>17, <1>18, <1>19, <1>20, <1>21, <1>22, <1>23, <1>24,
         <1>25, <1>26
         DEF Next, SessionNext, TaskNext, EndNext

-----------------------------------------------------------------------------
(* The theorems *)

\* The invariant holds in every state that the relay reaches.
LEMMA InductiveInv == Spec => []IInv
  <1>1. Init => IInv
        BY InitInv
  <1>2. IInv /\ [Next]_vars => IInv'
        BY StepType, StepBind, StepChannel, StepStart, StepTold, StepTask DEF IInv
  <1> QED
        BY <1>1, <1>2, PTL DEF Spec

\* A channel lives once: a key is not used again after its end, and the host is told at
\* most once of a failure, never of a channel that it had closed itself.
THEOREM RelayInvariant == Spec => []RelayInv
  <1>1. IInv => RelayInv
        BY DEF IInv, ChannelInv, ToldInv, RelayInv, NeverRestarts, ToldOfFailuresOnce
  <1> QED
        BY <1>1, InductiveInv, PTL

\* Every channel carries the session that the program got, also one that a runner opened
\* before creation was answered.
THEOREM ChannelsCarryTheSession == Spec => []ChannelsAreOfTheSession
  <1>1. IInv => ChannelsAreOfTheSession
        BY DEF IInv, BindInv, ChannelsAreOfTheSession
  <1> QED
        BY <1>1, InductiveInv, PTL

\* No worker, tool or interaction goes on once its channel is disposed of, nor in a closed
\* relay.
THEOREM NothingOutlives == Spec => []NothingOutlivesTheChannel
  <1>1. ASSUME IInv PROVE NothingOutlivesTheChannel
    <2>1. ASSUME NEW k \in Keys, relay = "closed", starts[k] > 0
          PROVE  dispose[k] = "ended"
          BY <1>1, <2>1 DEF IInv, TypeOK, ChannelInv
    <2> QED
          BY <1>1, <2>1 DEF IInv, TaskInv, NothingOutlivesTheChannel
  <1> QED
        BY <1>1, InductiveInv, PTL

=============================================================================
