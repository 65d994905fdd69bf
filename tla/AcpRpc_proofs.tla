---------------------------- MODULE AcpRpc_proofs ----------------------------
(***************************************************************************)
(* Theorems about AcpRpc for every set of requests, messages and callers   *)
(* of close().                                                             *)
(***************************************************************************)
EXTENDS AcpRpc, TLAPS

\* The client is open exactly as long as no cleanup was begun; while it is, the
\* reader and the exit watcher run, and once it is not, nothing is registered.
OpenInv ==
    /\ closed <=> cleanup # "none"
    /\ ~closed => task["stdout"] = "running" /\ task["wait"] = "running"
    /\ closed => pending = {}

\* A caller that waits for an unsettled future can be found and has sent its
\* request, or is about to.
WaitInv ==
    \A r \in Requests : (req[r] = "waiting" /\ future[r] = "none") =>
        /\ r \in pending
        /\ r \in wire \/ write[r] = "created"

\* What the positions of the cleanup say of the process and of the tasks.
CleanupInv ==
    /\ (cleanup = "relay" /\ confirmed) => proc = "exited"
    /\ cleanup = "confirmed" => /\ proc = "exited"
                                /\ \A t \in Tasks : task[t] = "ended"
                                /\ \A m \in Messages : ~Active(m)
    /\ \A c \in Closers : closer[c] = "returned" => cleanup = "confirmed"

IInv == TypeOK /\ OpenInv /\ WaitInv /\ CleanupInv

-----------------------------------------------------------------------------
(* The two ways in which an action treats the connection *)

\* FailTransport keeps the types of what it changes.
LEMMA FailType ==
    ASSUME TypeOK, Undisturbed \/ FailTransport
    PROVE  /\ closed' \in BOOLEAN /\ confirmed' \in BOOLEAN
           /\ cleanup' \in {"none", "terminated", "killed", "relay"} \cup Ended
           /\ pending' \in SUBSET Requests
           /\ future' \in [Requests -> {"none", "answered", "rejected", "cancelled"}]
  BY DEF Undisturbed, FailTransport, RejectPending, TypeOK

\* It leaves the client closed and nobody waiting for a registered future.
LEMMA FailEffect ==
    ASSUME TypeOK, OpenInv, WaitInv, FailTransport
    PROVE  /\ closed' /\ cleanup' # "none" /\ pending' = {}
           /\ \A r \in Requests : req[r] = "waiting" => future'[r] # "none"
           /\ confirmed' = confirmed
           /\ cleanup' \in {cleanup, "terminated"}
           /\ cleanup = "none" \/ cleanup' = cleanup
  BY DEF FailTransport, RejectPending, TypeOK, OpenInv, WaitInv

\* A future that was settled stays as it is.
LEMMA FailSettled ==
    ASSUME TypeOK, Undisturbed \/ FailTransport, NEW r \in Requests, future[r] # "none"
    PROVE  future'[r] = future[r]
  BY DEF Undisturbed, FailTransport, RejectPending, TypeOK

-----------------------------------------------------------------------------
(* Types *)

LEMMA InitType == Init => TypeOK
  <1> SUFFICES ASSUME Init PROVE TypeOK
      OBVIOUS
  <1>1. task \in [Tasks -> {"running", "ended"}]
      BY DEF Init, Tasks
  <1>2. closed \in BOOLEAN /\ cleanup \in {"none", "terminated"}
      BY DEF Init
  <1> QED
      BY <1>1, <1>2 DEF Init, TypeOK

LEMMA StepType == TypeOK /\ [Next]_vars => TypeOK'
  <1> SUFFICES ASSUME TypeOK, [Next]_vars PROVE TypeOK'
      OBVIOUS
  <1>1. ASSUME NEW r \in Requests, Request(r) \/ CancelCaller(r) \/ CallerResumes(r)
        PROVE  TypeOK'
      BY <1>1 DEF Request, CancelCaller, CallerResumes, EndWrite, TypeOK, Messages, writeVars,
                  reqVars, taskVars, closeVars
  <1>2. ASSUME NEW n \in Notices, Notify(n) \/ FrameArrives(n) PROVE TypeOK'
      BY <1>2 DEF Notify, FrameArrives, ReadOn, TypeOK, Messages, Tasks, reqVars, taskVars,
                  closeVars
  <1>3. ASSUME NEW m \in Messages, RunWrite(m) PROVE TypeOK'
    <2>1. Undisturbed \/ FailTransport
        BY <1>3 DEF RunWrite
    <2>2. wire' \in SUBSET Messages
          /\ write' \in [Messages -> {"none", "created", "draining", "ended"}]
        BY <1>3 DEF RunWrite, TypeOK
    <2> QED
        BY <1>3, <2>1, <2>2, FailType DEF RunWrite, TypeOK, taskVars
  <1>4. ASSUME NEW m \in Messages, Drained(m) PROVE TypeOK'
      BY <1>4, FailType DEF Drained, TypeOK, taskVars
  <1>5. ASSUME NEW r \in Requests, ResponseArrives(r) PROVE TypeOK'
      BY <1>5 DEF ResponseArrives, ReadOn, TypeOK, Tasks, writeVars, closeVars
  <1>6. ASSUME NEW p \in Replies, UnsupportedArrives(p) PROVE TypeOK'
    <2>1. Undisturbed \/ FailTransport
        BY <1>6 DEF UnsupportedArrives
    <2>2. /\ wire' \in SUBSET Messages
          /\ write' \in [Messages -> {"none", "created", "draining", "ended"}]
          /\ task' \in [Tasks -> {"running", "ended"}]
          /\ replying' \in Replies \cup {None}
        BY <1>6 DEF UnsupportedArrives, EndTask, TypeOK, Messages, Tasks
    <2> QED
        BY <1>6, <2>1, <2>2, FailType DEF UnsupportedArrives, TypeOK
  <1>7. ASSUME NEW p \in Replies, ReplyDrained(p) PROVE TypeOK'
    <2>1. Undisturbed \/ FailTransport
        BY <1>7 DEF ReplyDrained
    <2>2. /\ write' \in [Messages -> {"none", "created", "draining", "ended"}]
          /\ task' \in [Tasks -> {"running", "ended"}]
        BY <1>7 DEF ReplyDrained, ReadOn, EndTask, TypeOK, Messages, Tasks
    <2> QED
        BY <1>7, <2>1, <2>2, FailType DEF ReplyDrained, TypeOK
  <1>8. ASSUME LineArrives PROVE TypeOK'
      BY <1>8 DEF LineArrives, ReadOn, TypeOK, Tasks, reqVars, writeVars, closeVars
  <1>9. ASSUME ReadingFails \/ StderrEnds \/ ExitNoticed \/ WaitingFails PROVE TypeOK'
      BY <1>9, FailType DEF ReadingFails, StderrEnds, ExitNoticed, WaitingFails, EndTask, TypeOK,
                            Tasks, writeVars
  <1>10. ASSUME ProcessExits PROVE TypeOK'
      BY <1>10 DEF ProcessExits, TypeOK, reqVars, writeVars, taskVars, closeVars
  <1>11. ASSUME NEW c \in Closers, Close(c) PROVE TypeOK'
      BY <1>11 DEF Close, RejectPending, TypeOK, Ended, writeVars, taskVars
  <1>12. ASSUME NEW c \in Closers, CancelCloser(c) PROVE TypeOK'
      BY <1>12 DEF CancelCloser, TypeOK, reqVars, writeVars, taskVars, closeVars
  <1>13. ASSUME TerminateWaited \/ KillWaited PROVE TypeOK'
      BY <1>13 DEF TerminateWaited, KillWaited, TypeOK, reqVars, writeVars, taskVars
  <1>14. ASSUME CleanupEnds PROVE TypeOK'
      BY <1>14 DEF CleanupEnds, TypeOK, Ended, reqVars
  <1>15. CASE UNCHANGED vars
      BY <1>15 DEF vars, reqVars, writeVars, taskVars, closeVars, TypeOK
  <1> QED
      BY <1>1, <1>2, <1>3, <1>4, <1>5, <1>6, <1>7, <1>8, <1>9, <1>10, <1>11, <1>12, <1>13, <1>14,
         <1>15 DEF Next, CallerNext, WriteNext, ReadNext, WatchNext, CloseNext

-----------------------------------------------------------------------------
(* Open or closed *)

\* An action that leaves the connection alone and ends no watched task, or fails
\* it, keeps OpenInv when it registers nothing.
LEMMA FailKeepsOpen ==
    ASSUME TypeOK, OpenInv, WaitInv,
           FailTransport \/ (Undisturbed /\ task' = task)
    PROVE  OpenInv'
  <1>1. CASE FailTransport
      BY <1>1, FailEffect DEF OpenInv
  <1>2. CASE Undisturbed /\ task' = task
      BY <1>2 DEF Undisturbed, OpenInv
  <1> QED
      BY <1>1, <1>2

LEMMA StepOpen == TypeOK /\ OpenInv /\ WaitInv /\ [Next]_vars => OpenInv'
  <1> SUFFICES ASSUME TypeOK, OpenInv, WaitInv, [Next]_vars PROVE OpenInv'
      OBVIOUS
  <1>1. ASSUME NEW r \in Requests, Request(r) \/ CancelCaller(r) \/ CallerResumes(r)
        PROVE  OpenInv'
      BY <1>1 DEF Request, CancelCaller, CallerResumes, OpenInv, taskVars, closeVars
  <1>2. ASSUME NEW n \in Notices, Notify(n) PROVE OpenInv'
      BY <1>2 DEF Notify, OpenInv, reqVars, taskVars, closeVars
  <1>3. ASSUME NEW m \in Messages, RunWrite(m) \/ Drained(m) PROVE OpenInv'
      BY <1>3, FailKeepsOpen DEF RunWrite, Drained, taskVars
  <1>4. ASSUME NEW n \in Notices, FrameArrives(n) PROVE OpenInv'
      BY <1>4 DEF FrameArrives, ReadOn, OpenInv, TypeOK, Tasks, reqVars, closeVars
  <1>5. ASSUME NEW r \in Requests, ResponseArrives(r) PROVE OpenInv'
      BY <1>5 DEF ResponseArrives, ReadOn, OpenInv, TypeOK, Tasks, closeVars
  <1>6. ASSUME NEW p \in Replies, UnsupportedArrives(p) PROVE OpenInv'
    <2>1. CASE closed /\ Undisturbed
        BY <1>6, <2>1 DEF Undisturbed, OpenInv
    <2>2. CASE ~closed
        BY <1>6, <2>2, FailKeepsOpen DEF UnsupportedArrives
    <2> QED
        BY <1>6, <2>1, <2>2 DEF UnsupportedArrives
  <1>7. ASSUME NEW p \in Replies, ReplyDrained(p) PROVE OpenInv'
    <2>1. CASE ReadOn /\ Undisturbed
        BY <1>7, <2>1 DEF ReadOn, Undisturbed, OpenInv, TypeOK, Tasks
    <2>2. CASE FailTransport
        BY <2>2, FailKeepsOpen
    <2> QED
        BY <1>7, <2>1, <2>2 DEF ReplyDrained
  <1>8. ASSUME LineArrives PROVE OpenInv'
      BY <1>8 DEF LineArrives, ReadOn, OpenInv, TypeOK, Tasks, reqVars, closeVars
  <1>9. ASSUME ReadingFails \/ ExitNoticed \/ WaitingFails PROVE OpenInv'
      BY <1>9, FailKeepsOpen DEF ReadingFails, ExitNoticed, WaitingFails
  <1>10. ASSUME StderrEnds PROVE OpenInv'
    <2>1. CASE Undisturbed
        BY <1>10, <2>1 DEF StderrEnds, EndTask, Undisturbed, OpenInv, TypeOK, Tasks
    <2> QED
        BY <1>10, <2>1, FailKeepsOpen DEF StderrEnds
  <1>11. ASSUME ProcessExits PROVE OpenInv'
      BY <1>11 DEF ProcessExits, OpenInv, reqVars, taskVars, closeVars
  <1>12. ASSUME NEW c \in Closers, Close(c) PROVE OpenInv'
      BY <1>12 DEF Close, RejectPending, OpenInv
  <1>13. ASSUME NEW c \in Closers, CancelCloser(c) PROVE OpenInv'
      BY <1>13 DEF CancelCloser, OpenInv, reqVars, taskVars, closeVars
  <1>14. ASSUME TerminateWaited \/ KillWaited \/ CleanupEnds PROVE OpenInv'
      BY <1>14 DEF TerminateWaited, KillWaited, CleanupEnds, OpenInv, reqVars, taskVars
  <1>15. CASE UNCHANGED vars
      BY <1>15 DEF vars, reqVars, taskVars, closeVars, OpenInv
  <1> QED
      BY <1>1, <1>2, <1>3, <1>4, <1>5, <1>6, <1>7, <1>8, <1>9, <1>10, <1>11, <1>12, <1>13, <1>14,
         <1>15 DEF Next, CallerNext, WriteNext, ReadNext, WatchNext, CloseNext

-----------------------------------------------------------------------------
(* Waiting callers *)

\* An action that starts no request, keeps what was sent, and either fails the
\* transport or leaves the futures and the created writes of requests alone.
LEMMA FailKeepsWait ==
    ASSUME TypeOK, OpenInv, WaitInv, req' = req, wire \subseteq wire',
           \/ FailTransport
           \/ /\ Undisturbed
              /\ \A r \in Requests : write[r] = "created" =>
                     write'[r] = "created" \/ r \in wire' \/ pending = {}
    PROVE  WaitInv'
  <1>1. CASE FailTransport
      BY <1>1, FailEffect DEF WaitInv
  <1>2. CASE Undisturbed /\ \A r \in Requests : write[r] = "created" =>
                     write'[r] = "created" \/ r \in wire' \/ pending = {}
      BY <1>2 DEF Undisturbed, WaitInv
  <1> QED
      BY <1>1, <1>2

LEMMA StepWait == TypeOK /\ OpenInv /\ WaitInv /\ [Next]_vars => WaitInv'
  <1> SUFFICES ASSUME TypeOK, OpenInv, WaitInv, [Next]_vars PROVE WaitInv'
      OBVIOUS
  <1> USE DEF Messages
  <1>1. ASSUME NEW r \in Requests, Request(r) PROVE WaitInv'
      BY <1>1 DEF Request, WaitInv, TypeOK
  <1>2. ASSUME NEW r \in Requests, CancelCaller(r) PROVE WaitInv'
      BY <1>2 DEF CancelCaller, WaitInv, TypeOK, writeVars
  <1>3. ASSUME NEW r \in Requests, CallerResumes(r) PROVE WaitInv'
      BY <1>3 DEF CallerResumes, EndWrite, WaitInv, TypeOK
  <1>4. ASSUME NEW n \in Notices, Notify(n) \/ FrameArrives(n) PROVE WaitInv'
      BY <1>4 DEF Notify, FrameArrives, WaitInv, TypeOK, reqVars
  <1>5. ASSUME NEW m \in Messages, RunWrite(m) PROVE WaitInv'
    <2>1. CASE closed /\ Undisturbed /\ UNCHANGED wire
        BY <1>5, <2>1, FailKeepsWait DEF RunWrite, OpenInv
    <2>2. CASE ~closed /\ Undisturbed /\ wire' = wire \cup {m}
        BY <1>5, <2>2, FailKeepsWait DEF RunWrite, TypeOK
    <2>3. CASE FailTransport /\ wire' \in {wire, wire \cup {m}}
        BY <1>5, <2>3, FailKeepsWait DEF RunWrite
    <2> QED
        BY <1>5, <2>1, <2>2, <2>3 DEF RunWrite
  <1>6. ASSUME NEW m \in Messages, Drained(m) PROVE WaitInv'
      BY <1>6, FailKeepsWait DEF Drained, TypeOK
  <1>7. ASSUME NEW r \in Requests, ResponseArrives(r) PROVE WaitInv'
      BY <1>7 DEF ResponseArrives, WaitInv, TypeOK, writeVars
  <1>8. ASSUME NEW p \in Replies, UnsupportedArrives(p) PROVE WaitInv'
    <2>1. req' = req /\ wire \subseteq wire'
        BY <1>8 DEF UnsupportedArrives
    <2>2. \A r \in Requests : write[r] = "created" => write'[r] = "created"
        BY <1>8 DEF UnsupportedArrives, TypeOK
    <2>3. Undisturbed \/ FailTransport
        BY <1>8 DEF UnsupportedArrives
    <2> QED
        BY <2>1, <2>2, <2>3, FailKeepsWait
  <1>9. ASSUME NEW p \in Replies, ReplyDrained(p) PROVE WaitInv'
    <2>1. req' = req /\ wire = wire'
        BY <1>9 DEF ReplyDrained
    <2>2. \A r \in Requests : write'[r] = write[r]
        BY <1>9, MessagesAreDisjoint DEF ReplyDrained, TypeOK
    <2>3. Undisturbed \/ FailTransport
        BY <1>9 DEF ReplyDrained
    <2> QED
        BY <2>1, <2>2, <2>3, FailKeepsWait
  <1>10. ASSUME ReadingFails \/ StderrEnds \/ ExitNoticed \/ WaitingFails PROVE WaitInv'
      BY <1>10, FailKeepsWait DEF ReadingFails, StderrEnds, ExitNoticed, WaitingFails, writeVars
  <1>11. ASSUME LineArrives \/ ProcessExits PROVE WaitInv'
      BY <1>11 DEF LineArrives, ProcessExits, WaitInv, reqVars, writeVars
  <1>12. ASSUME NEW c \in Closers, Close(c) PROVE WaitInv'
      BY <1>12 DEF Close, RejectPending, WaitInv, TypeOK, writeVars
  <1>13. ASSUME NEW c \in Closers, CancelCloser(c) PROVE WaitInv'
      BY <1>13 DEF CancelCloser, WaitInv, reqVars, writeVars
  <1>14. ASSUME TerminateWaited \/ KillWaited PROVE WaitInv'
      BY <1>14 DEF TerminateWaited, KillWaited, WaitInv, reqVars, writeVars
  <1>15. ASSUME CleanupEnds PROVE WaitInv'
      BY <1>15 DEF CleanupEnds, OpenInv, WaitInv, reqVars
  <1>16. CASE UNCHANGED vars
      BY <1>16 DEF vars, reqVars, writeVars, WaitInv
  <1> QED
      BY <1>1, <1>2, <1>3, <1>4, <1>5, <1>6, <1>7, <1>8, <1>9, <1>10, <1>11, <1>12, <1>13, <1>14,
         <1>15, <1>16 DEF Next, CallerNext, WriteNext, ReadNext, WatchNext, CloseNext

-----------------------------------------------------------------------------
(* The cleanup *)

\* While no cleanup has succeeded, an action that does not move the cleanup to
\* "relay" or "confirmed" has nothing to keep but the process's exit.
LEMMA OtherKeepsCleanup ==
    ASSUME TypeOK, CleanupInv, cleanup # "confirmed", cleanup' # "confirmed",
           cleanup' = "relay" => cleanup = "relay" /\ confirmed' = confirmed,
           proc' = proc \/ proc' = "exited",
           \A c \in Closers : closer'[c] = "returned" => closer[c] = "returned"
    PROVE  CleanupInv'
  BY DEF CleanupInv

\* After it has, nothing runs that could change what it left.
LEMMA ConfirmedKeepsCleanup ==
    ASSUME TypeOK, CleanupInv, cleanup = "confirmed", cleanup' = "confirmed",
           proc' = proc \/ proc' = "exited",
           \A t \in Tasks : task'[t] = "ended",
           \A m \in Messages : write'[m] \notin {"created", "draining"}
    PROVE  CleanupInv'
  BY DEF CleanupInv, Active

LEMMA StepCleanup == TypeOK /\ OpenInv /\ WaitInv /\ CleanupInv /\ [Next]_vars => CleanupInv'
  <1> SUFFICES ASSUME TypeOK, OpenInv, WaitInv, CleanupInv, [Next]_vars PROVE CleanupInv'
      OBVIOUS
  <1> USE DEF Messages
  <1>1. ASSUME NEW r \in Requests, Request(r) \/ CancelCaller(r) \/ CallerResumes(r)
        PROVE  CleanupInv'
    <2>1. CASE cleanup = "confirmed"
      <3>1. closed /\ \A m \in Messages : ~Active(m)
          BY <2>1 DEF OpenInv, CleanupInv
      <3>2. \A m \in Messages : write'[m] = write[m]
          BY <1>1, <3>1 DEF Request, CancelCaller, CallerResumes, EndWrite, TypeOK, writeVars
      <3> QED
          BY <1>1, <2>1, <3>1, <3>2 DEF Request, CancelCaller, CallerResumes, CleanupInv, Active,
                                        taskVars, closeVars
    <2>2. CASE cleanup # "confirmed"
        BY <1>1, <2>2, OtherKeepsCleanup DEF Request, CancelCaller, CallerResumes, closeVars
    <2> QED
        BY <2>1, <2>2
  <1>2. ASSUME NEW n \in Notices, Notify(n) \/ FrameArrives(n) PROVE CleanupInv'
    <2>1. cleanup # "confirmed"
        BY <1>2 DEF Notify, FrameArrives, Reading, OpenInv, CleanupInv, Tasks
    <2> QED
        BY <1>2, <2>1, OtherKeepsCleanup DEF Notify, FrameArrives, closeVars
  <1>3. ASSUME NEW m \in Messages, RunWrite(m) \/ Drained(m) PROVE CleanupInv'
    <2>1. cleanup # "confirmed"
        BY <1>3 DEF RunWrite, Drained, CleanupInv, Active
    <2>2. CASE Undisturbed
        BY <1>3, <2>1, <2>2, OtherKeepsCleanup DEF RunWrite, Drained, Undisturbed
    <2>3. CASE FailTransport
        BY <1>3, <2>1, <2>3, FailEffect, OtherKeepsCleanup DEF RunWrite, Drained
    <2> QED
        BY <1>3, <2>2, <2>3 DEF RunWrite, Drained
  <1>4. ASSUME NEW r \in Requests, ResponseArrives(r) PROVE CleanupInv'
    <2>1. cleanup # "confirmed"
        BY <1>4 DEF ResponseArrives, Reading, CleanupInv, Tasks
    <2> QED
        BY <1>4, <2>1, OtherKeepsCleanup DEF ResponseArrives, closeVars
  <1>5. ASSUME NEW p \in Replies, UnsupportedArrives(p) \/ ReplyDrained(p) PROVE CleanupInv'
    <2>1. cleanup # "confirmed"
        BY <1>5 DEF UnsupportedArrives, ReplyDrained, Reading, CleanupInv, Tasks
    <2>2. proc' = proc /\ closer' = closer
        BY <1>5 DEF UnsupportedArrives, ReplyDrained
    <2>3. CASE Undisturbed
        BY <2>1, <2>2, <2>3, OtherKeepsCleanup DEF Undisturbed
    <2>4. CASE FailTransport
        BY <2>1, <2>2, <2>4, FailEffect, OtherKeepsCleanup
    <2> QED
        BY <1>5, <2>3, <2>4 DEF UnsupportedArrives, ReplyDrained
  <1>6. ASSUME LineArrives PROVE CleanupInv'
    <2>1. cleanup # "confirmed"
        BY <1>6 DEF LineArrives, Reading, CleanupInv, Tasks
    <2> QED
        BY <1>6, <2>1, OtherKeepsCleanup DEF LineArrives, closeVars
  <1>7. ASSUME ReadingFails \/ StderrEnds \/ ExitNoticed \/ WaitingFails PROVE CleanupInv'
    <2>1. cleanup # "confirmed"
        BY <1>7 DEF ReadingFails, StderrEnds, ExitNoticed, WaitingFails, Reading, CleanupInv, Tasks
    <2>2. proc' = proc /\ closer' = closer
        BY <1>7 DEF ReadingFails, StderrEnds, ExitNoticed, WaitingFails
    <2>3. CASE Undisturbed
        BY <2>1, <2>2, <2>3, OtherKeepsCleanup DEF Undisturbed
    <2>4. CASE FailTransport
        BY <2>1, <2>2, <2>4, FailEffect, OtherKeepsCleanup
    <2> QED
        BY <1>7, <2>3, <2>4 DEF ReadingFails, StderrEnds, ExitNoticed, WaitingFails
  <1>8. ASSUME ProcessExits PROVE CleanupInv'
      BY <1>8 DEF ProcessExits, CleanupInv, Active, writeVars, taskVars, closeVars
  <1>9. ASSUME NEW c \in Closers, Close(c) PROVE CleanupInv'
    <2>1. CASE cleanup = "confirmed"
        BY <1>9, <2>1, ConfirmedKeepsCleanup DEF Close, CleanupInv, Active, writeVars, taskVars
    <2>2. CASE cleanup # "confirmed"
      <3>1. \A d \in Closers : closer'[d] = "returned" => closer[d] = "returned"
          BY <1>9, <2>2 DEF Close, TypeOK
      <3> QED
          BY <1>9, <2>2, <3>1, OtherKeepsCleanup DEF Close
    <2> QED
        BY <2>1, <2>2
  <1>10. ASSUME NEW c \in Closers, CancelCloser(c) PROVE CleanupInv'
      BY <1>10 DEF CancelCloser, CleanupInv, Active, TypeOK, writeVars, taskVars, closeVars
  <1>11. ASSUME TerminateWaited \/ KillWaited PROVE CleanupInv'
      BY <1>11 DEF TerminateWaited, KillWaited, CleanupInv, writeVars, taskVars
  <1>12. ASSUME CleanupEnds PROVE CleanupInv'
    <2>1. CASE confirmed
      <3>1. /\ \A t \in Tasks : task'[t] = "ended"
            /\ \A m \in Messages : write'[m] \notin {"created", "draining"}
          BY <1>12 DEF CleanupEnds, Active
      <3> QED
          BY <1>12, <2>1, <3>1 DEF CleanupEnds, CleanupInv, Active
    <2>2. CASE ~confirmed
        BY <1>12, <2>2 DEF CleanupEnds, CleanupInv
    <2> QED
        BY <2>1, <2>2
  <1>13. CASE UNCHANGED vars
      BY <1>13 DEF vars, writeVars, taskVars, closeVars, CleanupInv, Active
  <1> QED
      BY <1>1, <1>2, <1>3, <1>4, <1>5, <1>6, <1>7, <1>8, <1>9, <1>10, <1>11, <1>12, <1>13
      DEF Next, CallerNext, WriteNext, ReadNext, WatchNext, CloseNext

-----------------------------------------------------------------------------
(* Theorems *)

LEMMA InitInv == Init => IInv
  <1> SUFFICES ASSUME Init PROVE IInv
      OBVIOUS
  <1>1. OpenInv
      BY DEF Init, OpenInv, Tasks
  <1>2. WaitInv /\ CleanupInv
      BY DEF Init, WaitInv, CleanupInv
  <1> QED
      BY <1>1, <1>2, InitType DEF IInv

\* The strengthened invariant is inductive.
THEOREM Invariance == Spec => []IInv
  <1>1. IInv /\ [Next]_vars => IInv'
      BY StepType, StepOpen, StepWait, StepCleanup DEF IInv
  <1> QED
      BY InitInv, <1>1, PTL DEF Spec

\* Every reachable state is well typed.
THEOREM TypeCorrect == Spec => []TypeOK
  <1>1. IInv => TypeOK
      BY DEF IInv
  <1> QED
      BY Invariance, <1>1, PTL

\* A caller that waits can be settled, and what would settle it is running.
THEOREM WaitsWatched == Spec => []EveryWaitIsWatched
  <1>1. IInv => EveryWaitIsWatched
      BY DEF IInv, OpenInv, WaitInv, EveryWaitIsWatched
  <1> QED
      BY Invariance, <1>1, PTL

\* A close() that returned has left neither process, task, write nor request.
THEOREM CloseComplete == Spec => []CloseIsComplete
  <1>1. IInv => CloseIsComplete
      BY DEF IInv, OpenInv, CleanupInv, CloseIsComplete
  <1> QED
      BY Invariance, <1>1, PTL

\* Nothing is given to the process after the client closed.
THEOREM SilentClosed == Spec => SilentAfterClose
  <1>1. [Next]_vars => [closed => wire' = wire]_vars
    <2> SUFFICES ASSUME Next, closed PROVE wire' = wire
        OBVIOUS
    <2> QED
        BY DEF Next, CallerNext, WriteNext, ReadNext, WatchNext, CloseNext, Request, CancelCaller,
               CallerResumes, Notify, RunWrite, Drained, ResponseArrives, LineArrives,
               FrameArrives, UnsupportedArrives, ReplyDrained, ReadingFails, StderrEnds,
               ExitNoticed, WaitingFails, ProcessExits, Close, CancelCloser, TerminateWaited,
               KillWaited, CleanupEnds, writeVars
  <1> QED
      BY <1>1, PTL DEF Spec, SilentAfterClose

\* A future that was settled is never settled again.
THEOREM Settled == Spec => SettledOnce
  <1>1. TypeOK /\ [Next]_vars =>
            [\A r \in Requests : future[r] # "none" => future'[r] = future[r]]_vars
    <2> SUFFICES ASSUME TypeOK, Next, NEW r \in Requests, future[r] # "none"
                 PROVE  future'[r] = future[r]
        OBVIOUS
    <2>1. CASE CallerNext
        BY <2>1 DEF CallerNext, Request, CancelCaller, CallerResumes, TypeOK
    <2>2. CASE WriteNext
        BY <2>2, FailSettled DEF WriteNext, Notify, RunWrite, Drained, reqVars
    <2>3. CASE ReadNext
      <3>1. ASSUME NEW s \in Requests, ResponseArrives(s) PROVE future'[r] = future[r]
          BY <3>1 DEF ResponseArrives, TypeOK
      <3>2. ASSUME NEW n \in Notices, FrameArrives(n) PROVE future'[r] = future[r]
          BY <3>2 DEF FrameArrives, reqVars
      <3>3. ASSUME NEW p \in Replies, UnsupportedArrives(p) \/ ReplyDrained(p)
            PROVE  future'[r] = future[r]
          BY <3>3, FailSettled DEF UnsupportedArrives, ReplyDrained
      <3> QED
          BY <2>3, <3>1, <3>2, <3>3, FailSettled DEF ReadNext, LineArrives, ReadingFails, reqVars
    <2>4. CASE WatchNext
        BY <2>4, FailSettled DEF WatchNext, StderrEnds, ExitNoticed, WaitingFails, ProcessExits,
                                 reqVars
    <2>5. CASE CloseNext
        BY <2>5 DEF CloseNext, Close, RejectPending, CancelCloser, TerminateWaited, KillWaited,
                    CleanupEnds, TypeOK, reqVars
    <2> QED
        BY <2>1, <2>2, <2>3, <2>4, <2>5 DEF Next
  <1> QED
      BY <1>1, TypeCorrect, PTL DEF Spec, SettledOnce

-----------------------------------------------------------------------------
(* The client implements the shared cleanup *)

AbstractCallers == [c \in Closers |-> Knows[closer[c]]]

LEMMA RefinesInit == Init => Shared!Init
  <1> SUFFICES ASSUME Init PROVE Shared!Init
      OBVIOUS
  <1>1. CleanupPhase \in {"open", "running"}
      BY DEF Init, CleanupPhase, Ended
  <1>2. AbstractCallers = [c \in Closers |-> "idle"]
      BY DEF Init, AbstractCallers, Knows
  <1> QED
      BY <1>1, <1>2 DEF Shared!Init, AbstractCallers

\* What leaves the callers alone and moves the cleanup at most from where nobody
\* began it, or within its attempt, begins it or stutters.
LEMMA QuietRefines ==
    ASSUME closer' = closer,
           \/ cleanup' = cleanup
           \/ cleanup = "none" /\ cleanup' = "terminated"
           \/ cleanup \in {"terminated", "killed"} /\ cleanup' \in {"killed", "relay"}
    PROVE  Shared!Begin \/ UNCHANGED Shared!vars
  <1>1. AbstractCallers' = AbstractCallers
      BY DEF AbstractCallers
  <1>2. CASE CleanupPhase' = CleanupPhase
      BY <1>1, <1>2 DEF Shared!vars, AbstractCallers
  <1>3. CASE cleanup = "none" /\ cleanup' = "terminated"
    <2>1. CleanupPhase = "open" /\ CleanupPhase' = "running"
        BY <1>3 DEF CleanupPhase, Ended
    <2> QED
        BY <1>1, <2>1 DEF Shared!Begin, AbstractCallers
  <1>4. CleanupPhase' = CleanupPhase \/ (cleanup = "none" /\ cleanup' = "terminated")
      BY DEF CleanupPhase, Ended
  <1> QED
      BY <1>2, <1>3, <1>4

LEMMA StepRefines == TypeOK /\ [Next]_vars => [Shared!Next]_Shared!vars
  <1> SUFFICES ASSUME TypeOK, [Next]_vars PROVE Shared!Next \/ UNCHANGED Shared!vars
      OBVIOUS
  <1>1. CASE CallerNext \/ WriteNext \/ ReadNext \/ WatchNext \/ TerminateWaited \/ KillWaited
             \/ UNCHANGED vars
    <2>1. closer' = closer
        BY <1>1 DEF CallerNext, WriteNext, ReadNext, WatchNext, Request, CancelCaller,
               CallerResumes, Notify, RunWrite, Drained, ResponseArrives, LineArrives,
               FrameArrives, UnsupportedArrives, ReplyDrained, ReadingFails, StderrEnds,
               ExitNoticed, WaitingFails, ProcessExits, TerminateWaited, KillWaited, vars
    <2>2. \/ cleanup' = cleanup \/ FailTransport \/ TerminateWaited \/ KillWaited
        BY <1>1 DEF CallerNext, WriteNext, ReadNext, WatchNext, Request, CancelCaller,
               CallerResumes, Notify, RunWrite, Drained, ResponseArrives, LineArrives,
               FrameArrives, UnsupportedArrives, ReplyDrained, ReadingFails, StderrEnds,
               ExitNoticed, WaitingFails, ProcessExits, vars, closeVars, Undisturbed
    <2>3. \/ cleanup' = cleanup
          \/ cleanup = "none" /\ cleanup' = "terminated"
          \/ cleanup \in {"terminated", "killed"} /\ cleanup' \in {"killed", "relay"}
        BY <2>2 DEF FailTransport, TerminateWaited, KillWaited
    <2> QED
        BY <2>1, <2>3, QuietRefines DEF Shared!Next
  <1>2. ASSUME NEW c \in Closers, Close(c) PROVE Shared!Next
    <2>1. Knows[closer[c]] = "idle"
        BY <1>2 DEF Close, Knows
    <2>2. CleanupPhase' = IF CleanupPhase = "confirmed" THEN "confirmed" ELSE "running"
        BY <1>2 DEF Close, CleanupPhase, Ended, TypeOK
    <2>3. CleanupPhase = "confirmed" <=> cleanup = "confirmed"
        BY DEF CleanupPhase, Ended, TypeOK
    <2>4. AbstractCallers' =
             [AbstractCallers EXCEPT ![c] = IF CleanupPhase = "confirmed" THEN "ok" ELSE "waiting"]
        BY <1>2, <2>3 DEF Close, AbstractCallers, Knows, TypeOK
    <2>5. Shared!Ask(c)
        BY <2>1, <2>2, <2>4 DEF Shared!Ask, AbstractCallers
    <2> QED
        BY <2>5 DEF Shared!Next
  <1>3. ASSUME NEW c \in Closers, CancelCloser(c) PROVE Shared!Next
    <2>1. Knows[closer[c]] = "waiting"
        BY <1>3 DEF CancelCloser, Knows
    <2>2. AbstractCallers' = [AbstractCallers EXCEPT ![c] = "gone"]
        BY <1>3 DEF CancelCloser, AbstractCallers, Knows, TypeOK
    <2>3. CleanupPhase' = CleanupPhase
        BY <1>3 DEF CancelCloser, CleanupPhase, closeVars
    <2>4. Shared!GiveUp(c)
        BY <2>1, <2>2, <2>3 DEF Shared!GiveUp, AbstractCallers
    <2> QED
        BY <2>4 DEF Shared!Next
  <1>4. ASSUME CleanupEnds PROVE Shared!Next
    <2>1. CleanupPhase = "running"
        BY <1>4 DEF CleanupEnds, CleanupPhase, Ended
    <2>2. \A c \in Closers : Knows[closer[c]] = "waiting" <=> closer[c] = "waiting"
        BY DEF Knows, TypeOK
    <2>3. CASE confirmed
      <3>1. CleanupPhase' = "confirmed"
          BY <1>4, <2>3 DEF CleanupEnds, CleanupPhase, Ended
      <3>2. AbstractCallers' =
               [c \in Closers |-> IF AbstractCallers[c] = "waiting" THEN "ok" ELSE AbstractCallers[c]]
          BY <1>4, <2>2, <2>3 DEF CleanupEnds, AbstractCallers, Knows
      <3>3. Shared!Succeed
          BY <2>1, <3>1, <3>2 DEF Shared!Succeed, Shared!Told, AbstractCallers
      <3> QED
          BY <3>3 DEF Shared!Next
    <2>4. CASE ~confirmed
      <3>1. CleanupPhase' = "failed"
          BY <1>4, <2>4 DEF CleanupEnds, CleanupPhase, Ended
      <3>2. AbstractCallers' =
               [c \in Closers |-> IF AbstractCallers[c] = "waiting" THEN "error" ELSE AbstractCallers[c]]
          BY <1>4, <2>2, <2>4 DEF CleanupEnds, AbstractCallers, Knows
      <3>3. Shared!Fail
          BY <2>1, <3>1, <3>2 DEF Shared!Fail, Shared!Told, AbstractCallers
      <3> QED
          BY <3>3 DEF Shared!Next
    <2> QED
        BY <2>3, <2>4
  <1> QED
      BY <1>1, <1>2, <1>3, <1>4 DEF Next, CloseNext

\* The cleanup of the connection behaves as a shared cleanup.
THEOREM RefinesSharedCleanup == Spec => ImplementsSharedCleanup
  <1>1. Spec => Shared!Spec
      BY RefinesInit, StepRefines, TypeCorrect, PTL DEF Spec, Shared!Spec
  <1> QED
      BY <1>1 DEF ImplementsSharedCleanup
=============================================================================
