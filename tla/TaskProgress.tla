---------------------------- MODULE TaskProgress ----------------------------
(***************************************************************************)
(* The progress of one long task (task_progress.py): the activities that   *)
(* the program, or the session it attached, reports; the one task that     *)
(* publishes snapshots of them; and start(), flush() and finish(), which   *)
(* wait for that task.                                                     *)
(*                                                                         *)
(* An activity is the number it was given when it started.  Labels and     *)
(* previews are left out: a change of them is a change of the revision.    *)
(***************************************************************************)
EXTENDS Integers, Sequences, SequencesExt

CONSTANTS Ids,           \* bound: names of activities
          Callers,       \* bound: calls of start(), flush() and finish()
          Cancellable,   \* the callers that may be cancelled
          MaxRevision,   \* bound: changes while the task runs
          MaxSucceeded, MaxFailed, MaxRunning   \* _MAX_VISIBLE_...

ASSUME ProgressAssumption ==
    /\ Cancellable \subseteq Callers
    /\ {MaxRevision, MaxSucceeded, MaxFailed, MaxRunning} \subseteq Nat \ {0}

VARIABLES
    revision, status, phase,   \* _revision, _status, _phase
    sequence,                  \* _sequence
    running,                   \* _running: activities by age, [id, number]
    recent,                    \* _recent_succeeded and _recent_failed
    count,                     \* _succeeded_count and _failed_count
    direct,                    \* the program also reports activities itself
    attached,                  \* _attached_session is not None
    dirty,                     \* _dirty
    publisher,                 \* _publish_task, and where it is
    sent,                      \* revision of the last snapshot given to ctx.update
    shown,                     \* the same, once the update has ended
    caller,                    \* each call of start(), flush() or finish()
    history                    \* history variable: all that ended, in order

activityVars == <<revision, status, phase, sequence, running, recent, count, history>>
publishVars == <<dirty, publisher>>
vars == <<activityVars, direct, attached, publishVars, sent, shown, caller>>

Outcomes == {"succeeded", "failed"}
Status(ok) == IF ok THEN "completed" ELSE "failed"
Outcome(ok) == IF ok THEN "succeeded" ELSE "failed"
MaxVisible(o) == IF o = "succeeded" THEN MaxSucceeded ELSE MaxFailed
Ops == {"start", "flush", "finish well", "finish badly"}

TypeOK ==
    /\ revision \in Nat /\ sequence \in Nat /\ sent \in Nat /\ shown \in Nat
    /\ status \in {"running", "completed", "failed"}
    /\ phase \in {"starting", "working", "responding", "completed", "failed"}
    /\ running \in Seq([id : Ids, number : 1..sequence])
    /\ recent \in [Outcomes -> Seq(1..sequence)] /\ history \in [Outcomes -> Seq(1..sequence)]
    /\ count \in [Outcomes -> Nat]
    /\ direct \in BOOLEAN /\ attached \in BOOLEAN /\ dirty \in BOOLEAN
    /\ publisher \in {"none", "created", "sleeping", "updating", "pausing", "dead"}
    /\ caller \in [Callers -> [op : Ops \cup {"none"},
          at : {"idle", "waiting", "woken", "returned", "cancelled", "dropped"}]]

Init ==
    /\ revision = 0 /\ sequence = 0 /\ sent = 0 /\ shown = 0
    /\ status = "running" /\ phase = "starting"
    /\ running = <<>>
    /\ recent = [o \in Outcomes |-> <<>>] /\ history = [o \in Outcomes |-> <<>>]
    /\ count = [o \in Outcomes |-> 0]
    /\ direct \in BOOLEAN /\ attached = FALSE /\ dirty = FALSE
    /\ publisher = "none"
    /\ caller = [w \in Callers |-> [op |-> "none", at |-> "idle"]]

-----------------------------------------------------------------------------
(* Helpers *)

\* `del seq[:-n]`
Newest(s, n) == SubSeq(s, IF Len(s) > n THEN Len(s) - n + 1 ELSE 1, Len(s))
Numbers(s) == [i \in DOMAIN s |-> s[i].number]
IsRunning(a) == \E i \in DOMAIN running : running[i].id = a

Scheduled == IF publisher = "none" THEN "created" ELSE publisher

\* Mutant: a change made while a snapshot is being published is left to the next.
ChangedUnlessPublishing ==
    IF status # "running" THEN UNCHANGED <<revision, dirty, publisher>>
    ELSE /\ revision < MaxRevision
         /\ revision' = revision + 1
         /\ dirty' = (publisher # "updating")
         /\ publisher' = Scheduled

\* _changed
Changed ==
    IF status # "running" THEN UNCHANGED <<revision, dirty, publisher>>
    ELSE /\ revision < MaxRevision
         /\ revision' = revision + 1
         /\ dirty' = TRUE
         /\ publisher' = Scheduled

\* Activities end with outcome o: they are counted, and the newest stay visible.
Ended(o, numbers) ==
    /\ count' = [count EXCEPT ![o] = @ + Len(numbers)]
    /\ recent' = [recent EXCEPT ![o] = Newest(@ \o numbers, MaxVisible(o))]
    /\ history' = [history EXCEPT ![o] = @ \o numbers]

AtLeast0(n) == IF n > 0 THEN n ELSE 0

\* snapshot(): what it shows of the activities, and how many it leaves out.
Snapshot ==
    [succeeded |-> recent["succeeded"], failed |-> recent["failed"],
     running |-> Newest(Numbers(running), MaxRunning),
     omittedSucceeded |-> AtLeast0(count["succeeded"] - Len(recent["succeeded"])),
     omittedFailed |-> AtLeast0(count["failed"] - Len(recent["failed"])),
     omittedRunning |-> AtLeast0(Len(running) - MaxRunning)]

\* Whoever reports: the program, or the session while it is attached.
Reported == (direct \/ attached) /\ UNCHANGED <<direct, attached, sent, shown, caller>>

-----------------------------------------------------------------------------
(* Reports *)

\* attach(), before the program asks for the end.
Attach ==
    /\ ~attached /\ \A w \in Callers : caller[w].op \notin {"finish well", "finish badly"}
    /\ attached' = TRUE
    /\ UNCHANGED <<activityVars, direct, publishVars, sent, shown, caller>>

\* start_activity, _on_tool_call: an activity that runs gets new labels only.
StartActivity(a) ==
    /\ Reported
    /\ IF IsRunning(a) THEN UNCHANGED <<running, sequence>>
       ELSE /\ sequence < MaxRevision
            /\ sequence' = sequence + 1
            /\ running' = Append(running, [id |-> a, number |-> sequence + 1])
    /\ phase' = "working"
    /\ Changed
    /\ UNCHANGED <<status, recent, count, history>>

\* update_activity, _on_tool_update, with a preview that differs.
UpdateActivity(a) ==
    /\ Reported /\ IsRunning(a)
    /\ Changed
    /\ UNCHANGED <<status, phase, sequence, running, recent, count, history>>

\* finish_activity, _on_tool_result
FinishActivity(a, ok) ==
    /\ Reported
    /\ \E i \in DOMAIN running : /\ running[i].id = a
                                /\ running' = RemoveAt(running, i)
                                /\ Ended(Outcome(ok), <<running[i].number>>)
    /\ Changed
    /\ UNCHANGED <<status, phase, sequence>>

\* mark_responding, _on_message_delta
MarkResponding ==
    /\ Reported /\ phase # "responding"
    /\ phase' = "responding"
    /\ Changed
    /\ UNCHANGED <<status, sequence, running, recent, count, history>>

-----------------------------------------------------------------------------
(* _publish *)

\* Whoever awaits the task learns that it ended.
Tell(news) == caller' = [w \in Callers |->
    IF caller[w].at = "waiting" THEN [caller[w] EXCEPT !.at = news] ELSE caller[w]]

\* One round of the loop, or the end of the task.
Round ==
    IF dirty
    THEN /\ dirty' = FALSE
         /\ sent' = revision
         /\ publisher' = "updating"
         /\ UNCHANGED caller
    ELSE /\ publisher' = "none"
         /\ Tell("woken")
         /\ UNCHANGED <<dirty, sent>>

\* The task begins, with a delay or without.
PublisherStarts ==
    /\ publisher = "created"
    /\ \/ publisher' = "sleeping" /\ UNCHANGED <<dirty, sent, caller>>
       \/ Round
    /\ UNCHANGED <<activityVars, direct, attached, shown>>

\* The interval has passed.
PublisherWakes ==
    /\ publisher \in {"sleeping", "pausing"}
    /\ Round
    /\ UNCHANGED <<activityVars, direct, attached, shown>>

\* Mutant: the loop is left without looking at what changed during the update.
UpdateEndsLast ==
    /\ publisher = "updating"
    /\ shown' = sent
    /\ publisher' = "none" /\ Tell("woken")
    /\ UNCHANGED <<activityVars, direct, attached, dirty, sent>>

\* ctx.update returns, or raises and a warning is logged.
UpdateEnds ==
    /\ publisher = "updating"
    /\ shown' = sent
    /\ \/ /\ dirty
          /\ publisher' = "pausing" /\ UNCHANGED caller
       \/ /\ ~dirty
          /\ publisher' = "none" /\ Tell("woken")
    /\ UNCHANGED <<activityVars, direct, attached, dirty, sent>>

-----------------------------------------------------------------------------
(* start(), flush() and finish() *)

Returns(w, op) == caller' = [caller EXCEPT ![w] = [op |-> op, at |-> "returned"]]

\* Mutant: finish() freezes the counts without the activities that still run.
TerminateRunningOnly(ok) ==
    /\ status' = Status(ok) /\ phase' = Status(ok)
    /\ running' = <<>>
    /\ revision' = revision + 1
    /\ UNCHANGED <<sequence, recent, count, history>>

\* finish() after its flush: what still runs ends with the task.
Terminate(ok) ==
    /\ status' = Status(ok) /\ phase' = Status(ok)
    /\ running' = <<>>
    /\ Ended(Outcome(ok), Numbers(running))
    /\ revision' = revision + 1
    /\ UNCHANGED sequence

\* The loop of flush(), from its top to its next await, and what follows it.  A
\* publish task that was cancelled before it began is still _publish_task.
FlushStep(w, op) ==
    \/ /\ publisher \in {"created", "sleeping", "updating", "pausing"} \/ dirty
       /\ publisher # "dead"
       /\ publisher' = Scheduled
       /\ caller' = [caller EXCEPT ![w] = [op |-> op, at |-> "waiting"]]
       /\ UNCHANGED activityVars
    \/ /\ publisher = "dead"
       /\ caller' = [caller EXCEPT ![w] = [op |-> op, at |-> "dropped"]]
       /\ UNCHANGED <<activityVars, publisher>>
    \/ /\ publisher = "none" /\ ~dirty
       /\ Returns(w, op)
       /\ IF op \in {"finish well", "finish badly"} THEN Terminate(op = "finish well")
          ELSE UNCHANGED activityVars
       /\ UNCHANGED publisher

\* start(): the change, and then its flush waits for the task it scheduled.
Start(w) ==
    /\ caller[w].at = "idle" /\ status = "running"
    /\ Changed
    /\ caller' = [caller EXCEPT ![w] =
          [op |-> "start", at |-> IF publisher = "dead" THEN "dropped" ELSE "waiting"]]
    /\ UNCHANGED <<status, phase, sequence, running, recent, count, history, direct, attached, sent, shown>>

Flush(w) ==
    /\ caller[w].at = "idle"
    /\ FlushStep(w, "flush")
    /\ UNCHANGED <<direct, attached, dirty, sent, shown>>

\* finish(): the session is detached before the flush.
Finish(w, op) ==
    /\ caller[w].at = "idle"
    /\ FlushStep(w, op)
    /\ attached' = FALSE
    /\ UNCHANGED <<direct, dirty, sent, shown>>

Resume(w) ==
    /\ caller[w].at = "woken"
    /\ FlushStep(w, caller[w].op)
    /\ UNCHANGED <<direct, attached, dirty, sent, shown>>

\* A caller is cancelled while it awaits the publish task, which is cancelled with
\* it, and with that task all who await it.  Before its first step the task ends
\* without its finally block; afterwards it is replaced if there is something left.
CancelCaller(w) ==
    /\ w \in Cancellable /\ caller[w].at = "waiting"
    /\ publisher' = IF publisher = "created" THEN "dead" ELSE IF dirty THEN "created" ELSE "none"
    /\ caller' = [v \in Callers |->
          IF v = w THEN [caller[v] EXCEPT !.at = "cancelled"]
          ELSE IF caller[v].at = "waiting" THEN [caller[v] EXCEPT !.at = "dropped"]
          ELSE caller[v]]
    /\ UNCHANGED <<activityVars, direct, attached, dirty, sent, shown>>

\* The same just after the task ended, when only the caller is cancelled.
CancelWoken(w) ==
    /\ w \in Cancellable /\ caller[w].at = "woken"
    /\ caller' = [caller EXCEPT ![w].at = "cancelled"]
    /\ UNCHANGED <<activityVars, direct, attached, publishVars, sent, shown>>

-----------------------------------------------------------------------------
ReportNext == \/ Attach \/ MarkResponding
              \/ \E a \in Ids : \/ StartActivity(a) \/ UpdateActivity(a)
                                \/ \E ok \in BOOLEAN : FinishActivity(a, ok)
PublishNext == PublisherStarts \/ PublisherWakes \/ UpdateEnds
CallNext == \E w \in Callers :
    \/ Start(w) \/ Flush(w) \/ Finish(w, "finish well") \/ Finish(w, "finish badly")
    \/ Resume(w) \/ CancelCaller(w) \/ CancelWoken(w)

Next == ReportNext \/ PublishNext \/ CallNext

Spec == Init /\ [][Next]_vars

\* The event loop resumes what is ready, the interval passes, and an update ends.
Fairness == /\ WF_vars(PublishNext)
            /\ \A w \in Callers : WF_vars(Resume(w))

FairSpec == Spec /\ Fairness

-----------------------------------------------------------------------------
(* Properties *)

\* Every activity that was ever started is running, or counted with its outcome
\* once, the visible lists are the newest of those, and a snapshot taken now shows
\* or counts them all: through ids used again, reports during and after finish(),
\* and a second finish() (task_progress.py:301-357, 380-395, 410-451).
NothingIsLost ==
    /\ ToSet(history["succeeded"]) \cap ToSet(history["failed"]) = {}
    /\ \A o \in Outcomes : /\ count[o] = Len(history[o])
                           /\ Snapshot[o] = Newest(history[o], MaxVisible(o))
    /\ sequence = Len(Snapshot.succeeded) + Len(Snapshot.failed) + Len(Snapshot.running)
                  + Snapshot.omittedSucceeded + Snapshot.omittedFailed + Snapshot.omittedRunning

\* The lists and counters of a progress agree at all times with what was reported
\* (task_progress.py:288-358, 410-451).
ProgressInv == TypeOK /\ NothingIsLost

SomeoneCancelled == \E w \in Callers : caller[w].at = "cancelled"

\* The snapshots given to the context are of ever later revisions, however many
\* tasks publish one after the other (task_progress.py:528-563).
RevisionsIncrease == (publisher # "updating" /\ publisher' = "updating") => sent' > sent

\* When start() or flush() returns, all that was reported before has been published,
\* unless a caller was cancelled (task_progress.py:398-408).
FlushedIsShown ==
    (\E w \in Callers : caller[w].at # "returned" /\ caller'[w].at = "returned") =>
        shown = revision \/ status # "running" \/ SomeoneCancelled

\* The snapshot that finish() returns is the last: nothing is published after it,
\* although reports may still come and other calls still flush
\* (task_progress.py:375-377, 529-530).
TerminalIsLast == status # "running" => sent' = sent /\ publisher' = publisher

\* When the activities come from the attached session alone, nothing changes them
\* after finish(), another finish() aside (task_progress.py:375-396, 479-487).
TerminalIsFrozen ==
    (~direct /\ status # "running" /\ status' = status) =>
        phase' = phase /\ running' = <<>> /\ count' = count

\* What a reader of the snapshots may rely on: they are in order, a flush waits for
\* them, and the one that finish() returns ends them.
SnapshotsKeepTheirOrder ==
    [][RevisionsIncrease /\ FlushedIsShown /\ TerminalIsLast /\ TerminalIsFrozen]_vars

\* Every change is published in the end, those that came while an older snapshot was
\* being published included, unless a caller was cancelled; and calls end, as soon as
\* reports pause (task_progress.py:398-408, 541-563).
ChangesAreShown ==
    /\ \A n \in 1..MaxRevision :
          (revision >= n /\ status = "running") ~> (shown >= n \/ SomeoneCancelled)
    /\ \A w \in Callers : caller[w].at \in {"waiting", "woken"} ~>
          caller[w].at \in {"returned", "cancelled", "dropped"}

\* "Publish bounded accumulated progress for a long-running task."
\* (task_progress.py:229): every change is published in the end, whatever became of a
\* call of start().
ProgressIsPublished ==
    \A n \in 1..MaxRevision : (revision >= n /\ status = "running") ~> shown >= n
=============================================================================
