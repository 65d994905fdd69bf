----------------------------- MODULE FrameReading -----------------------------
(***************************************************************************)
(* The read loop of the extension runtime (runtime.py): read_frame() takes *)
(* the host's frames from a pipe that delivers them bit by bit and may end *)
(* anywhere; what was read goes to the dispatcher or, when it is no JSON,  *)
(* is answered with a parse error.                                         *)
(*                                                                         *)
(* The pipe carries units: a header line, a blank line, or a piece of      *)
(* payload.  A unit counts one in a Content-Length.                        *)
(***************************************************************************)
EXTENDS Integers, Sequences, SequencesExt

CONSTANTS
    Frames,      \* what the host may write: [header : Seq(units), payload : Seq(units)]
    MaxFrames    \* bound on frames written

Length(n) == [kind |-> "length", value |-> n]
Unit(kind) == [kind |-> kind, value |-> 0]

\* The blank line ends a header and is none of its lines.
ASSUME FramesAssumption ==
    /\ MaxFrames \in Nat
    /\ \A frame \in Frames :
          /\ frame.header \in Seq([kind : {"other", "length", "noNumber"}, value : Int])
          /\ frame.payload \in Seq([kind : {"open", "close", "word", "blank", "length"}, value : Int])

VARIABLES
    sent,        \* history variable: the frames that the host wrote
    arrived,     \* how many units of them came
    eof,         \* the host's end of the pipe is closed after these
    output,      \* the host still reads what the extension writes
    loop,        \* "header", "payload", "handling", "replying", "ended", "failed"
    raised,      \* history variable: handle_message() raised
    position,    \* the units taken from the pipe
    header,      \* header_lines
    taken        \* history variable: the payloads that read_frame() returned

hostVars == <<sent, arrived, eof, output>>
readerVars == <<hostVars, loop, raised, position, header, taken>>

Units(frame) == frame.header \o <<Unit("blank")>> \o frame.payload
Stream == FlattenSeq([i \in DOMAIN sent |-> Units(sent[i])])

ReaderTypeOK ==
    /\ sent \in Seq(Frames) /\ Len(sent) =< MaxFrames
    /\ arrived \in 0 .. Len(Stream) /\ position \in 0 .. arrived
    /\ eof \in BOOLEAN /\ output \in BOOLEAN
    /\ loop \in {"header", "payload", "handling", "replying", "ended", "failed"} /\ raised \in BOOLEAN
    /\ header = SubSeq(Stream, position - Len(header) + 1, position) \/ loop # "header"
    /\ Len(taken) =< Len(Stream)

ReaderInit ==
    /\ sent = <<>> /\ arrived = 0 /\ eof = FALSE /\ output = TRUE
    /\ loop = "header" /\ raised = FALSE /\ position = 0 /\ header = <<>> /\ taken = <<>>

-----------------------------------------------------------------------------
(* The host *)

Write(frame) ==
    /\ ~ eof /\ Len(sent) < MaxFrames
    /\ sent' = Append(sent, frame)
    /\ UNCHANGED <<arrived, eof, output, loop, raised, position, header, taken>>

Deliver ==
    /\ ~ eof /\ arrived < Len(Stream)
    /\ arrived' = arrived + 1
    /\ UNCHANGED <<sent, eof, output, loop, raised, position, header, taken>>

\* It exits, or closes the pipe, perhaps in the middle of a frame.
HostCloses ==
    /\ ~ eof
    /\ eof' = TRUE /\ output' \in BOOLEAN
    /\ UNCHANGED <<sent, arrived, loop, raised, position, header, taken>>

-----------------------------------------------------------------------------
(* The read loop *)

\* The first Content-Length that is not negative; -1 when there is none or when one
\* before it is no number.
ParseContentLength(lines) ==
    LET stops ==
            {i \in DOMAIN lines :
                \/ lines[i].kind = "noNumber"
                \/ lines[i].kind = "length" /\ lines[i].value >= 0}
    IN IF stops = {} \/ lines[Min(stops)].kind = "noNumber" THEN -1 ELSE lines[Min(stops)].value

\* readline() returns a line; the blank one ends the header, which may be refused.
ReadLine ==
    /\ loop = "header" /\ position < arrived
    /\ LET line == Stream[position + 1]  ends == line.kind = "blank" IN
       /\ position' = position + 1
       /\ header' = IF ends THEN header ELSE Append(header, line)
       /\ loop' = IF ~ ends THEN "header"
                  ELSE IF ParseContentLength(header) >= 0 THEN "payload" ELSE "failed"
    /\ UNCHANGED <<hostVars, raised, taken>>

\* A JSON object, another JSON value, or neither.
IsObject(payload) ==
    Len(payload) > 1 /\ Head(payload).kind = "open" /\ Last(payload).kind = "close"
AfterPayload(payload) ==
    IF IsObject(payload) THEN "handling"
    ELSE IF payload = <<Unit("word")>> THEN "header" ELSE "replying"

\* Mutant: what came before the end of the pipe is taken for the payload.
ReadPayloadShort ==
    LET n == ParseContentLength(header)
        end == IF position + n =< arrived THEN position + n ELSE arrived
        payload == SubSeq(Stream, position + 1, end)
    IN
    /\ loop = "payload" /\ (position + n =< arrived \/ eof)
    /\ position' = end /\ header' = <<>>
    /\ taken' = Append(taken, payload)
    /\ loop' = AfterPayload(payload)
    /\ UNCHANGED <<hostVars, raised>>

\* read(content_length) waits for the whole payload.
ReadPayload ==
    LET n == ParseContentLength(header)
        payload == SubSeq(Stream, position + 1, position + n)
    IN
    /\ loop = "payload" /\ position + n =< arrived
    /\ position' = position + n /\ header' = <<>>
    /\ taken' = Append(taken, payload)
    /\ loop' = AfterPayload(payload)
    /\ UNCHANGED <<hostVars, raised>>

\* Mutant: the end of the pipe in a header goes unnoticed.
EndOfPipePayload ==
    /\ eof
    /\ loop = "payload" /\ position + ParseContentLength(header) > arrived
    /\ loop' = "ended"
    /\ UNCHANGED <<hostVars, raised, position, header, taken>>

\* Between frames, in a header or in a payload: read_frame() returns None.
EndOfPipe ==
    /\ eof
    /\ \/ loop = "header" /\ position = arrived
       \/ loop = "payload" /\ position + ParseContentLength(header) > arrived
    /\ loop' = "ended"
    /\ UNCHANGED <<hostVars, raised, position, header, taken>>

\* The parse error is sent; a pipe that the host no longer reads raises.
Reply ==
    /\ loop = "replying"
    /\ loop' = IF output THEN "header" ELSE "failed"
    /\ UNCHANGED <<hostVars, raised, position, header, taken>>

\* handle_message() takes the object, and raises what a handler of notifications raises.
Handle ==
    /\ loop = "handling"
    /\ raised' \in BOOLEAN
    /\ loop' = IF raised' THEN "failed" ELSE "header"
    /\ UNCHANGED <<hostVars, position, header, taken>>

Loop == Handle \/ ReadLine \/ ReadPayload \/ EndOfPipe \/ Reply

ReaderNext ==
    \/ \E frame \in Frames : Write(frame)
    \/ Deliver
    \/ HostCloses
    \/ Loop

\* The reader thread and the loop go on; the pipe delivers what was written, but
\* nothing obliges the host to write or to close.
ReaderSpec == ReaderInit /\ [][ReaderNext]_readerVars /\ WF_readerVars(Loop) /\ WF_readerVars(Deliver)

-----------------------------------------------------------------------------
(* Properties *)

Stopped == loop \in {"ended", "failed"}

\* The header of a frame announces its payload, after nothing but other lines and
\* negative lengths.
WellFormed(frame) ==
    \E k \in DOMAIN frame.header :
        /\ frame.header[k] = Length(Len(frame.payload))
        /\ \A j \in 1 .. k - 1 :
              \/ frame.header[j].kind = "other"
              \/ frame.header[j].kind = "length" /\ frame.header[j].value < 0

\* As long as the host's frames are well formed, the loop takes their payloads, whole
\* and in order, whatever lines they hold and wherever reads were cut (runtime.py:524-545).
TakesWhatWasSent ==
    \A i \in DOMAIN taken :
        (\A j \in DOMAIN sent : j =< i => WellFormed(sent[j]))
            => i \in DOMAIN sent /\ taken[i] = sent[i].payload

\* When the loop ends at the end of the pipe, it took every frame that came complete
\* (runtime.py:426-430, 531-535, 542-545).
NoFrameIsLost ==
    loop = "ended" /\ (\A i \in DOMAIN sent : WellFormed(sent[i])) =>
        \A i \in DOMAIN sent :
            Len(FlattenSeq([j \in 1 .. i |-> Units(sent[j])])) =< arrived => i \in DOMAIN taken

\* The loop stops only because the pipe ended, a header announces another payload than
\* it has, or a handler of notifications raised; a payload that is no JSON or no object
\* does not stop it (runtime.py:432-445).
StopsForACause ==
    Stopped => eof \/ raised \/ \E i \in DOMAIN sent : ~ WellFormed(sent[i])

\* The loop takes the frames that were sent, all of them in order, and stops only for a
\* cause (runtime.py:425-446, 524-546).
ReaderInv == ReaderTypeOK /\ TakesWhatWasSent /\ NoFrameIsLost /\ StopsForACause

\* Once the host closed the pipe the loop ends, and with it the dispatcher
\* (runtime.py:429-447).
LoopEnds == eof ~> Stopped

\* A well-formed frame that was written is taken, unless the pipe is closed or the loop
\* fails first (runtime.py:426-445).
FramesAreTaken ==
    \A i \in 1 .. MaxFrames :
        (i =< Len(sent) /\ \A j \in DOMAIN sent : WellFormed(sent[j]))
            ~> (i =< Len(taken) \/ eof \/ raised \/ \E j \in DOMAIN sent : ~ WellFormed(sent[j]))

\* What the host writes is read to its end.
PipeIsRead == LoopEnds /\ FramesAreTaken
=============================================================================
