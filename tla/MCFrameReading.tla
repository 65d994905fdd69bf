---------------------------- MODULE MCFrameReading ----------------------------
(* The instance of FrameReading for TLC. *)
EXTENDS FrameReading

Frame(lines, payload) == [header |-> lines, payload |-> payload]

Object == <<Unit("open"), Unit("close")>>
\* Over lines of its own, one of them blank and one like a header.
LongObject == <<Unit("open"), Unit("blank"), Length(0), Unit("close")>>

\* A negative length before the good one, another one after it; a payload that is no
\* JSON, one that is no object, an empty one.
WellFormedFrames ==
    {Frame(<<Unit("other"), Length(2)>>, Object),
     Frame(<<Length(-1), Length(4), Length(2)>>, LongObject),
     Frame(<<Length(1)>>, <<Unit("word")>>),
     Frame(<<Length(1)>>, <<Unit("open")>>),
     Frame(<<Length(0)>>, <<>>)}

\* Without a length, without a number, without a header, longer and shorter than told.
AllFrames == WellFormedFrames \cup
    {Frame(<<Unit("other")>>, Object),
     Frame(<<Unit("noNumber"), Length(2)>>, Object),
     Frame(<<>>, <<>>),
     Frame(<<Length(1)>>, Object),
     Frame(<<Length(3)>>, Object)}
=============================================================================
