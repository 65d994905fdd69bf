--------------------------- MODULE RequestContract ---------------------------
(***************************************************************************)
(* What the extension side of the stdio protocol promises the host about   *)
(* one request id: a generation of a request is open from its acceptance   *)
(* until it is answered or closed, at most one generation of an id is      *)
(* open, and a frame that names the id as its parent leaves only while the *)
(* generation that produced it is open.  How the runtime keeps this        *)
(* promise across its tasks, threads and locks is ExtensionRuntime's       *)
(* business, which is shown to implement this module.                      *)
(***************************************************************************)
CONSTANTS Ids,          \* request ids chosen by the host
          Generations,  \* accepted requests, one per acceptance
          Calls,        \* reverse calls an extension may issue
          None

VARIABLES status,       \* what the host can tell of each generation
          ownerId,      \* the id each generation was accepted under
          sentFor       \* the generation a reverse frame was sent for

vars == <<status, ownerId, sentFor>>

Statuses == {"absent", "open", "answered", "closed"}

Init == /\ status = [g \in Generations |-> "absent"]
        /\ ownerId = [g \in Generations |-> None]
        /\ sentFor = [c \in Calls |-> None]

\* A request is accepted; no other generation of its id may still be open.
Accept(g, id) == /\ status[g] = "absent"
                 /\ \A h \in Generations :
                        ownerId[h] = id => status[h] # "open"
                 /\ status' = [status EXCEPT ![g] = "open"]
                 /\ ownerId' = [ownerId EXCEPT ![g] = id]
                 /\ UNCHANGED sentFor

\* The response frame of an open generation starts to leave.
Answer(g) == /\ status[g] = "open"
             /\ status' = [status EXCEPT ![g] = "answered"]
             /\ UNCHANGED <<ownerId, sentFor>>

\* An open generation ends without a response.
CloseUnanswered(g) == /\ status[g] = "open"
                      /\ status' = [status EXCEPT ![g] = "closed"]
                      /\ UNCHANGED <<ownerId, sentFor>>

\* A reverse frame naming an open generation starts to leave.
SendFor(c, g) == /\ status[g] = "open"
                 /\ sentFor[c] = None
                 /\ sentFor' = [sentFor EXCEPT ![c] = g]
                 /\ UNCHANGED <<status, ownerId>>

Next == \/ \E g \in Generations, id \in Ids : Accept(g, id)
        \/ \E g \in Generations : Answer(g) \/ CloseUnanswered(g)
        \/ \E c \in Calls, g \in Generations : SendFor(c, g)

Spec == Init /\ [][Next]_vars
=============================================================================
