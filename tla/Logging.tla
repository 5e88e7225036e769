------------------------------- MODULE Logging -------------------------------
(***************************************************************************)
(* The two users of slog: requestLogMiddleware, which logs the bodies of a *)
(* request and of its answer, and EchoSlogAdapter, which echo logs with    *)
(* and which keeps a level of its own above that of the handler it wraps.  *)
(***************************************************************************)
EXTENDS LogTruncation

CONSTANTS
    Bodies,             \* trees and texts
    Sinks,              \* writers; Stderr is one of them
    Stderr, Stdout,
    Nothing

ASSUME SinksAssumption == {Stderr, Stdout} \subseteq Sinks
ASSUME BodiesAssumption == Bodies \subseteq JSON \cup Texts

DEBUG == 1
INFO  == 2
WARN  == 3
ERROR == 4
OFF   == 5
Levels == DEBUG..ERROR

VARIABLES
    default,            \* the handler of slog.Default: level and sink
    handler,            \* that of the adapter's logger
    level, output,      \* the adapter's own
    rebuilt,            \* history: SetOutput came after the last SetLevel
    last                \* the last thing logged, or tried, and whether it was written

vars == <<default, handler, level, output, rebuilt, last>>

Handler(l, sink) == [level |-> l, sink |-> sink]

TypeOK ==
    /\ {default, handler} \subseteq [level : Levels, sink : Sinks]
    /\ level \in DEBUG..OFF
    /\ output \in Sinks
    /\ rebuilt \in BOOLEAN
    /\ last = Nothing \/ last.op \in {"log", "fatal", "panic", "request"}

\* log.Init, whose level main gives as INFO, then NewEchoSlogAdapter, whose Output is
\* not where its logger writes.
Init ==
    /\ default \in [level : {DEBUG, INFO}, sink : {Stderr}]
    /\ handler = default
    /\ level = INFO
    /\ output = Stdout
    /\ rebuilt = FALSE
    /\ last = Nothing

LastIs(op) == last # Nothing /\ last.op = op
Ready == last = Nothing

\* Mutant: OFF is above every level.
EchoLevelToSlogOff(l) == l

EchoLevelToSlog(l) == IF l = OFF THEN INFO ELSE l

\* The handler that is there keeps its level.
SetLevel(l) ==
    /\ Ready
    /\ level' = l
    /\ rebuilt' = FALSE
    /\ UNCHANGED <<last, default, handler, output>>

\* Mutant: a handler without options.
SetOutputPlain(sink) ==
    /\ Ready
    /\ output' = sink
    /\ handler' = Handler(INFO, sink)
    /\ rebuilt' = TRUE
    /\ UNCHANGED <<last, default, level>>

SetOutput(sink) ==
    /\ Ready
    /\ output' = sink
    /\ handler' = Handler(EchoLevelToSlog(level), sink)
    /\ rebuilt' = TRUE
    /\ UNCHANGED <<last, default, level>>

Entry(op, l, passed) ==
    [op |-> op, level |-> l, written |-> passed /\ l >= handler.level, sink |-> handler.sink]

ShouldLog(l) == l >= level

\* Print, Debug, Info, Warn and Error with their f and j.
Log(l) ==
    /\ Ready
    /\ last' = Entry("log", l, ShouldLog(l))
    /\ UNCHANGED <<default, handler, level, output, rebuilt>>

\* Fatal and Panic do not ask for the level; Fatal ends the process.
FatalOrPanic(op) ==
    /\ Ready
    /\ last' = Entry(op, ERROR, TRUE)
    /\ UNCHANGED <<default, handler, level, output, rebuilt>>

\* requestLogMiddleware: one entry at INFO; the answer is not cut while debugging.
RequestDone(request, response) ==
    /\ Ready
    /\ last' = [op |-> "request", level |-> INFO, written |-> INFO >= default.level,
                sink |-> default.sink, asked |-> request, answered |-> response,
                request_body |-> TruncateBodyForLog(request),
                response_body |-> IF default.level =< DEBUG THEN response
                                  ELSE TruncateBodyForLog(response)]
    /\ UNCHANGED <<default, handler, level, output, rebuilt>>

\* One entry is looked at at a time; after that of Fatal there is no process.
Continue ==
    /\ ~Ready /\ ~LastIs("fatal")
    /\ last' = Nothing
    /\ UNCHANGED <<default, handler, level, output, rebuilt>>

Next ==
    \/ Continue
    \/ \E l \in DEBUG..OFF : SetLevel(l)
    \/ \E sink \in Sinks : SetOutput(sink)
    \/ \E l \in Levels : Log(l)
    \/ \E op \in {"fatal", "panic"} : FatalOrPanic(op)
    \/ \E body \in Bodies : RequestDone(body, body)   \* the two are treated alone

Spec == Init /\ [][Next]_vars

-----------------------------------------------------------------------------
(* What must hold. *)

\* In every order of the setters: the last words of Fatal and Panic are written, also
\* when the level is OFF; the adapter writes nothing else below its level; and from
\* SetOutput to the next SetLevel everything else, to its output.  (Before, and after
\* SetLevel, the handler that was there may keep more to itself.)
LevelIsHonoured ==
    /\ LastIs("fatal") \/ LastIs("panic") => last.written
    /\ LastIs("log") =>
          /\ last.written => last.level >= level
          /\ rebuilt /\ last.level >= level => last.written /\ last.sink = output

\* A body over the limit is logged without a long array at its top or in a field of
\* any object, however deep, markers counted as items.
LongArraysAreShortened ==
    LastIs("request") /\ IsLarge(last.asked) =>
        LET v == last.request_body
        IN  v.kind # "cut" => Short(v) /\ ShortFields[MaxNesting][v]

\* What is left out is counted: a logged body is an account of the body, at every
\* depth, and of a text no byte is shown twice.
NothingIsLostUncounted ==
    LastIs("request") =>
        LET a == last.asked  r == last.request_body
        IN  CASE r.kind = "text" -> r = a
              [] r.kind = "cut"  -> r.dropped >= 0 /\ r.dropped < Size(a)
              [] OTHER           -> Accounts[MaxNesting][<<a, r>>]
=============================================================================
