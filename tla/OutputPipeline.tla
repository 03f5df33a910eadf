---------------------------- MODULE OutputPipeline ----------------------------
(***************************************************************************)
(* The output of one worker's attempts on its way to the log: the child    *)
(* writes to two pipes, a pump per pipe sends chunks through one bounded   *)
(* channel, and run_child takes them, looks for the high-demand marker and *)
(* cuts them into log lines.  After the child's exit a deadline ends the   *)
(* attempt even if a descendant keeps a pipe open.                         *)
(* Source: retry_engine.rs: run_child, pump_stream, LineFramer,            *)
(* AttemptCapture, ByteMarkerScanner, OutputTail and the framers of        *)
(* LogSink.                                                                *)
(*                                                                         *)
(* The framers belong to the log and outlive an attempt; everything else   *)
(* is made anew for each.  A byte is a model value.                        *)
(***************************************************************************)
EXTENDS Naturals, Sequences, SequencesExt

CONSTANTS
    LF, CR,      \* the two bytes the framer looks at
    Letters,     \* all other bytes
    Markers,     \* HIGH_DEMAND_MARKERS
    MaxLine,     \* MAX_LOGICAL_LINE_BYTES
    ChunkBytes,  \* OUTPUT_CHUNK_BYTES
    Capacity,    \* OUTPUT_CHANNEL_CAPACITY
    Wide,        \* letters whose decoded character has two bytes, all others have one
    TailBytes,   \* OUTPUT_TAIL_MAX_BYTES
    TailChunks,  \* OUTPUT_TAIL_MAX_CHUNKS
    Blanks,      \* letters that are white space, besides LF and CR
    SnippetChars, \* characters a preview has at most: 280
    MaxOutput,   \* bound: bytes a child and its descendants write, both pipes together
    KeepAlive,   \* TRUE: the worker may go on in the keep-alive phase after losing the race
    Faults       \* TRUE: reading a pipe or writing the log may fail

Byte == Letters \cup {LF, CR}
StreamSource == {"stdout", "stderr"}

ASSUME OutputConstants ==
    /\ LF # CR /\ LF \notin Letters /\ CR \notin Letters
    /\ Markers # {} /\ IsFiniteSet(Markers) /\ Markers \subseteq Seq(Byte) \ {<<>>}
    /\ {MaxLine, ChunkBytes, Capacity, TailBytes} \subseteq Nat \ {0}
    /\ TailChunks \in Nat \ {0, 1}  \* room for a line and its end
    /\ Wide \subseteq Letters /\ Blanks \subseteq Letters
    /\ SnippetChars \in Nat
    /\ MaxOutput \in Nat
    /\ KeepAlive \in BOOLEAN /\ Faults \in BOOLEAN

VARIABLES
    at,       \* where run_child stands, or how it ended
    exited,   \* the child itself has exited
    observed, \* exit_status is known and the drain deadline armed
    open,     \* pipes that somebody can still write to
    pipe,     \* bytes in a pipe that the pump has not read
    pumping,  \* streams whose pump still reads
    channel,  \* the events between the pumps and run_child
    done,     \* stdout_done, stderr_done
    scanner,  \* the marker scanner of each stream
    framer,   \* LineFramer.pending of each stream
    lines,    \* lines of this attempt in the log, by stream
    tail,     \* OutputTail.chunks: the end of this attempt's text, both streams together
    written,  \* history: what was written to each pipe in this attempt
    taken,    \* history: what run_child has taken from the channel
    cut       \* history: the drain deadline ended the attempt

child == <<exited, open, pipe, pumping, written>>
loop == <<at, observed, done, scanner, framer, lines, tail, taken, cut>>
vars == <<child, channel, loop>>

-----------------------------------------------------------------------------
(* LineFramer, as functions on a frame: what is pending, the part of the   *)
(* current line in the present chunk, and the lines framed so far.         *)

FramedLine(bytes, continuation) == [bytes |-> bytes, continuation |-> continuation]

\* Mutant of ExtendBounded: one byte too many stays pending.
ExtendBoundedLate(frame) ==
    LET whole == frame.pending \o frame.segment
        full == IF Len(whole) < 2 THEN 0 ELSE (Len(whole) - 2) \div MaxLine
    IN [pending |-> SubSeq(whole, full * MaxLine + 1, Len(whole)),
        segment |-> <<>>,
        framed |-> frame.framed \o
            [k \in 1 .. full |->
                FramedLine(SubSeq(whole, (k - 1) * MaxLine + 1, k * MaxLine), TRUE)]]

\* `extend_bounded`: the segment joins what is pending; a piece of MaxLine bytes
\* leaves as a continued line whenever more follows.
ExtendBounded(frame) ==
    LET whole == frame.pending \o frame.segment
        full == IF whole = <<>> THEN 0 ELSE (Len(whole) - 1) \div MaxLine
    IN [pending |-> SubSeq(whole, full * MaxLine + 1, Len(whole)),
        segment |-> <<>>,
        framed |-> frame.framed \o
            [k \in 1 .. full |->
                FramedLine(SubSeq(whole, (k - 1) * MaxLine + 1, k * MaxLine), TRUE)]]

EndsWith(bytes, b) == bytes # <<>> /\ Last(bytes) = b
DropCR(bytes) == IF EndsWith(bytes, CR) THEN Front(bytes) ELSE bytes

\* Mutant of EndLine: a CR that arrived in an earlier chunk than its LF stays.
EndLineThisChunk(frame) ==
    LET extended == ExtendBounded([frame EXCEPT !.segment = DropCR(@)])
    IN [extended EXCEPT !.pending = <<>>,
                        !.framed = Append(@, FramedLine(extended.pending, FALSE))]

\* A line feed: CRLF counts as one end of line, also if the CR came with an
\* earlier chunk and is the last pending byte.
EndLine(frame) ==
    LET stripped == IF frame.segment = <<>>
                    THEN [frame EXCEPT !.pending = DropCR(@)]
                    ELSE [frame EXCEPT !.segment = DropCR(@)]
        extended == ExtendBounded(stripped)
    IN [extended EXCEPT !.pending = <<>>,
                        !.framed = Append(@, FramedLine(extended.pending, FALSE))]

PushByte(frame, b) ==
    IF b = LF THEN EndLine(frame) ELSE [frame EXCEPT !.segment = Append(@, b)]

Push(pending, bytes) ==
    ExtendBounded(FoldLeft(PushByte,
        [pending |-> pending, segment |-> <<>>, framed |-> <<>>], bytes))

\* `finish`: what is pending becomes the last line.
LastLine(s) == IF framer[s] = <<>> THEN <<>> ELSE << FramedLine(framer[s], FALSE) >>

-----------------------------------------------------------------------------
(* ByteMarkerScanner *)

Occurs(marker, bytes) ==
    \E i \in 0 .. Len(bytes) - Len(marker) :
        SubSeq(bytes, i + 1, i + Len(marker)) = marker

HasMarker(bytes) == \E marker \in Markers : Occurs(marker, bytes)

Overlap == Max({Len(marker) : marker \in Markers}) - 1

Suffix(bytes) ==
    SubSeq(bytes, IF Len(bytes) > Overlap THEN Len(bytes) - Overlap + 1 ELSE 1, Len(bytes))

\* Mutant of Scan: the chunk, not the window, provides the next suffix.
ScanForgets(state, bytes) ==
    IF state.found THEN state
    ELSE [suffix |-> Suffix(bytes), found |-> HasMarker(state.suffix \o bytes)]

\* Once found, a marker stays found.
Scan(state, bytes) ==
    LET window == state.suffix \o bytes
    IN IF state.found THEN state
       ELSE [suffix |-> Suffix(window), found |-> HasMarker(window)]

HighDemand == \E s \in StreamSource : scanner[s].found

-----------------------------------------------------------------------------
(* OutputTail, a sequence of texts of which the oldest go first.           *)

Width(text) == Len(text) + Cardinality({i \in DOMAIN text : text[i] \in Wide})
Flat(chunks) == FlattenSeq(chunks)

\* A text beyond the limit loses its head, but never part of a character
\* (floor_char_boundary): what stays may still be too long.
CutToLimit(text) ==
    IF Width(text) <= TailBytes THEN text
    ELSE CHOOSE rest \in Suffixes(text) :
           /\ Width(rest) >= TailBytes
           /\ rest = <<>> \/ Width(Tail(rest)) < TailBytes

TailFits(chunks) == Width(Flat(chunks)) <= TailBytes /\ Len(chunks) <= TailChunks

\* `push_normalized`: a framed line is pushed, and the end of a line as a text of its own;
\* an empty text is not pushed.
PushedFor(l) ==
    (IF l.bytes = <<>> THEN <<>> ELSE << CutToLimit(l.bytes) >>)
      \o (IF l.continuation THEN <<>> ELSE << <<LF>> >>)

Texts(framed) == FlattenSeq([i \in DOMAIN framed |-> PushedFor(framed[i])])

Longest(seqs) == CHOOSE s \in seqs : \A t \in seqs : Len(t) <= Len(s)
KeptOf(chunks) == Longest({s \in Suffixes(chunks) : TailFits(s)})

\* Mutant of PushNormalized: room is made for the last text before it is there.
PushNormalizedFirst(chunks, framed) ==
    LET all == chunks \o Texts(framed)
    IN IF framed = <<>> THEN chunks ELSE Append(KeptOf(Front(all)), Last(all))

\* `push`: whole texts leave at the front until the limits hold.  To push several one
\* by one keeps what pushing them at once keeps.
PushNormalized(chunks, framed) ==
    IF framed = <<>> THEN chunks ELSE KeptOf(chunks \o Texts(framed))

\* `get_snippet`, as places of the text: a row of white space counts as one character,
\* and as none at either end ...
IsBlank(b) == b \in Blanks \cup {LF, CR}
Squeezed(text) ==
    {i \in DOMAIN text :
        \/ ~IsBlank(text[i])
        \/ /\ i # 1 /\ ~IsBlank(text[i - 1])
           /\ \E j \in DOMAIN text : j > i /\ ~IsBlank(text[j])}

\* ... and the first SnippetChars of what is left are shown.
Snippet(text) ==
    {i \in Squeezed(text) : Cardinality({j \in Squeezed(text) : j <= i}) <= SnippetChars}

\* `preview`
Preview(chunks) == Snippet(Flat(chunks))

-----------------------------------------------------------------------------
Fresh == [s \in StreamSource |-> <<>>]
Unscanned == [s \in StreamSource |-> [suffix |-> <<>>, found |-> FALSE]]

\* The state run_child starts an attempt with; the framers are not part of it.
Init ==
    /\ at = "loop" /\ exited = FALSE /\ observed = FALSE /\ cut = FALSE
    /\ open = StreamSource /\ pumping = StreamSource /\ done = {}
    /\ pipe = Fresh /\ channel = <<>>
    /\ scanner = Unscanned
    /\ framer = Fresh /\ lines = Fresh /\ tail = <<>>
    /\ written = Fresh /\ taken = Fresh

----------------------------------------------------------------------------
(* The child, its descendants and the pumps *)

Output == Len(written["stdout"]) + Len(written["stderr"])

\* Whoever holds the pipe writes a byte; after the exit, a descendant.
ChildWrites(s, b) ==
    /\ at = "loop" /\ s \in open /\ Output < MaxOutput
    /\ pipe' = [pipe EXCEPT ![s] = Append(@, b)]
    /\ written' = [written EXCEPT ![s] = Append(@, b)]
    /\ UNCHANGED <<exited, open, pumping, channel, loop>>

PipeCloses(s) ==
    /\ at = "loop" /\ s \in open
    /\ open' = open \ {s}
    /\ UNCHANGED <<exited, pipe, pumping, written, channel, loop>>

ChildExits ==
    /\ at \in {"loop", "waiting"} /\ ~exited
    /\ exited' = TRUE
    /\ UNCHANGED <<open, pipe, pumping, written, channel, loop>>

Send(kind, s, bytes) ==
    /\ Len(channel) < Capacity
    /\ channel' = Append(channel, [kind |-> kind, source |-> s, bytes |-> bytes])

\* `read` returns what is there, up to the size of the buffer.
PumpChunk(s) ==
    LET n == Min({Len(pipe[s]), ChunkBytes})
    IN /\ at = "loop" /\ s \in pumping /\ pipe[s] # <<>>
       /\ Send("chunk", s, SubSeq(pipe[s], 1, n))
       /\ pipe' = [pipe EXCEPT ![s] = SubSeq(@, n + 1, Len(@))]
       /\ UNCHANGED <<exited, open, pumping, written, loop>>

\* Mutant of PumpEnds: the end is reported with bytes still in the pipe.
PumpEndsEarly(s) ==
    /\ at = "loop" /\ s \in pumping \ open
    /\ Send("done", s, <<>>)
    /\ pumping' = pumping \ {s}
    /\ UNCHANGED <<exited, open, pipe, written, loop>>

PumpEnds(s) ==
    /\ at = "loop" /\ s \in pumping \ open /\ pipe[s] = <<>>
    /\ Send("done", s, <<>>)
    /\ pumping' = pumping \ {s}
    /\ UNCHANGED <<exited, open, pipe, written, loop>>

PumpFails(s) ==
    /\ Faults
    /\ at = "loop" /\ s \in pumping
    /\ Send("error", s, <<>>)
    /\ pumping' = pumping \ {s}
    /\ UNCHANGED <<exited, open, pipe, written, loop>>

-----------------------------------------------------------------------------
(* run_child: one action per branch of its select!, with all it does       *)

\* run_child returns early: the process group is killed and the receiver dropped, so
\* that the pumps end and nobody reads what is left.
Return(outcome) ==
    /\ at' = outcome
    /\ channel' = <<>>
    /\ pipe' = Fresh
    /\ pumping' = {}
    /\ UNCHANGED <<exited, open, written>>

Received(kind, s) == channel # <<>> /\ Head(channel).kind = kind /\ Head(channel).source = s

\* The marker is looked for in the raw bytes, before they are framed.
TakeChunk(s) ==
    LET bytes == Head(channel).bytes
        frame == Push(framer[s], bytes)
    IN /\ at = "loop" /\ Received("chunk", s)
       /\ taken' = [taken EXCEPT ![s] = @ \o bytes]
       /\ scanner' = [scanner EXCEPT ![s] = Scan(@, bytes)]
       /\ framer' = [framer EXCEPT ![s] = frame.pending]
       /\ \/ /\ channel' = Tail(channel)
             /\ lines' = [lines EXCEPT ![s] = @ \o frame.framed]
             /\ tail' = PushNormalized(tail, frame.framed)
             /\ UNCHANGED <<child, at>>
          \/ /\ Faults /\ frame.framed # <<>>
             /\ Return("failed")
             /\ UNCHANGED <<lines, tail>>
       /\ UNCHANGED <<observed, done, cut>>

\* The stream is over; with the second one the loop ends, and if the exit has not
\* been seen yet, child.wait() follows.
TakeDone(s) ==
    /\ at = "loop" /\ Received("done", s)
    /\ framer' = [framer EXCEPT ![s] = <<>>]
    /\ \/ /\ channel' = Tail(channel)
          /\ lines' = [lines EXCEPT ![s] = @ \o LastLine(s)]
          /\ tail' = PushNormalized(tail, LastLine(s))
          /\ done' = done \cup {s}
          /\ at' = IF done' # StreamSource THEN "loop"
                   ELSE IF observed THEN "ok" ELSE "waiting"
          /\ UNCHANGED child
       \/ /\ Faults /\ framer[s] # <<>>
          /\ Return("failed")
          /\ UNCHANGED <<lines, tail, done>>
    /\ UNCHANGED <<observed, scanner, taken, cut>>

TakeError(s) ==
    /\ at = "loop" /\ Received("error", s)
    /\ Return("failed")
    /\ UNCHANGED <<observed, done, scanner, framer, lines, tail, taken, cut>>

\* Mutant of ObserveExit: the deadline is armed only when a stream is over.
ObserveExitLate ==
    /\ at = "loop" /\ exited /\ ~observed /\ done # {}
    /\ observed' = TRUE
    /\ UNCHANGED <<child, channel, at, done, scanner, framer, lines, tail, taken, cut>>

ObserveExit ==
    /\ at = "loop" /\ exited /\ ~observed
    /\ observed' = TRUE
    /\ UNCHANGED <<child, channel, at, done, scanner, framer, lines, tail, taken, cut>>

Waited ==
    /\ at = "waiting" /\ exited
    /\ at' = "ok"
    /\ observed' = TRUE
    /\ UNCHANGED <<child, channel, done, scanner, framer, lines, tail, taken, cut>>

\* POST_EXIT_DRAIN_TIMEOUT after the exit was seen: unfinished streams are
\* finished with what has been taken so far; the channel is not emptied.
DrainDeadline ==
    /\ at = "loop" /\ observed
    /\ \/ /\ Return("ok") /\ cut' = TRUE
          /\ lines' = [s \in StreamSource |-> lines[s] \o LastLine(s)]
          /\ tail' = PushNormalized(tail, LastLine("stdout") \o LastLine("stderr"))
          /\ framer' = Fresh
       \/ /\ Faults /\ framer # Fresh
          /\ Return("failed")
          /\ UNCHANGED <<lines, tail, framer, cut>>
    /\ UNCHANGED <<observed, done, scanner, taken>>

\* The user, another process, or the winner of the race; no stream is finished.
Stop ==
    /\ at = "loop"
    /\ Return("stopped")
    /\ UNCHANGED <<observed, done, scanner, framer, lines, tail, taken, cut>>

\* child.wait() or the read of the stop request fails.
WaitFails ==
    /\ Faults /\ at \in {"loop", "waiting"}
    /\ Return("failed")
    /\ UNCHANGED <<observed, done, scanner, framer, lines, tail, taken, cut>>

\* The next attempt of the same worker: after an attempt that was completed, or,
\* for worker 1, in the keep-alive phase although it lost the race.
NextAttempt ==
    /\ at = "ok" \/ (KeepAlive /\ at = "stopped")
    /\ at' = "loop" /\ exited' = FALSE /\ observed' = FALSE /\ cut' = FALSE
    /\ open' = StreamSource /\ pumping' = StreamSource /\ done' = {}
    /\ pipe' = Fresh /\ channel' = <<>>
    /\ scanner' = Unscanned
    /\ lines' = Fresh /\ tail' = <<>> /\ written' = Fresh /\ taken' = Fresh
    /\ UNCHANGED framer

\* A worker that stopped or failed makes no further attempt.
Over == at \in {"stopped", "failed"} /\ UNCHANGED vars

Next ==
    \/ \E s \in StreamSource :
        \/ \E b \in Byte : ChildWrites(s, b)
        \/ PipeCloses(s)
        \/ PumpChunk(s)
        \/ PumpEnds(s)
        \/ PumpFails(s)
        \/ TakeChunk(s)
        \/ TakeDone(s)
        \/ TakeError(s)
    \/ ChildExits
    \/ ObserveExit
    \/ Waited
    \/ DrainDeadline
    \/ Stop
    \/ WaitFails
    \/ NextAttempt
    \/ Over

Spec == Init /\ [][Next]_vars

\* The timer fires and select! takes its branch.  This is WF_vars(DrainDeadline), with
\* its ENABLED written out: nothing but the loop and the armed timer is required.
DeadlineFair == []<>~(at = "loop" /\ observed) \/ []<><<DrainDeadline>>_vars

\* tokio polls the task, and select! its ready branches in random order.
FairSpec ==
    /\ Spec
    /\ WF_vars(ObserveExit) /\ DeadlineFair /\ WF_vars(Waited)

-----------------------------------------------------------------------------
\* Types and limits: no line, pending line or chunk is longer than its bound, the
\* channel holds no more than its capacity, a scanner keeps less than a marker.
TypeOK ==
    /\ at \in {"loop", "waiting", "ok", "stopped", "failed"}
    /\ {exited, observed, cut} \subseteq BOOLEAN
    /\ open \subseteq StreamSource
    /\ pumping \subseteq StreamSource
    /\ done \subseteq StreamSource
    /\ Len(channel) <= Capacity
    /\ \A i \in DOMAIN channel : channel[i] \in
         [kind: {"chunk", "done", "error"}, source: StreamSource,
          bytes: BoundedSeq(Byte, ChunkBytes)]
    /\ scanner \in [StreamSource -> [suffix: BoundedSeq(Byte, Overlap), found: BOOLEAN]]
    /\ framer \in [StreamSource -> BoundedSeq(Byte, MaxLine)]
    /\ \A s \in StreamSource : \A i \in DOMAIN lines[s] :
         /\ lines[s][i].bytes \in BoundedSeq(Byte, MaxLine)
         /\ lines[s][i].continuation => Len(lines[s][i].bytes) = MaxLine
    /\ {pipe, written, taken} \subseteq [StreamSource -> BoundedSeq(Byte, MaxOutput)]

\* What the output says without regard to chunks: every CR before an LF dropped.
Normal(bytes) ==
    LET Kept(i) == ~(bytes[i] = CR /\ i < Len(bytes) /\ bytes[i + 1] = LF)
    IN FoldLeftDomain(LAMBDA text, i : IF Kept(i) THEN Append(text, bytes[i]) ELSE text,
                      <<>>, bytes)

Closed(text) == IF text = <<>> \/ Last(text) = LF THEN text ELSE Append(text, LF)

\* What the log says: continued lines joined.
LogText(ls) ==
    FoldLeft(LAMBDA text, l : text \o l.bytes \o (IF l.continuation THEN <<>> ELSE <<LF>>),
             <<>>, ls)

\* The log holds exactly what the child of this attempt wrote as far as it has been
\* taken: however reads cut the stream (within a line, within CRLF, beyond
\* MaxLine), no boundary is added, lost or moved, and no line carries bytes of an
\* earlier attempt (LineFramer, and the framers that outlive run_child).
LogIsOutput ==
    at # "failed" => \A s \in StreamSource :
        IF at = "ok" \/ s \in done
        THEN framer[s] = <<>> /\ LogText(lines[s]) = Closed(Normal(taken[s]))
        ELSE LogText(lines[s]) \o framer[s] = Normal(taken[s])

\* An attempt counts as high demand exactly if one of its streams, taken by itself,
\* contains a marker, whatever the reads cut it into (ByteMarkerScanner); a marker
\* of which one stream has the head and the other the tail is none.
MarkerFoundExactly ==
    HighDemand <=> \E s \in StreamSource : HasMarker(taken[s])

NewLines(s) == SubSeq(lines'[s], Len(lines[s]) + 1, Len(lines'[s]))

\* Whatever was last written to the log is at the end of the tail as soon as it is
\* written, if it fits with its end of line, and the tail keeps its two limits
\* (OutputTail.push, fed by push_normalized; a longer line evicts itself).  The failure
\* preview, which keeps the beginning of the tail, then shows all of that line exactly if
\* the whole tail fits in a snippet; otherwise the newest words are the ones it cuts.
PreviewShowsNewest ==
    [][\A s \in StreamSource :
         NewLines(s) # <<>> /\ (s = "stdout" => NewLines("stderr") = <<>>) =>
            LET newest == Last(NewLines(s))
                text == newest.bytes \o (IF newest.continuation THEN <<>> ELSE <<LF>>)
                all == Flat(tail')
                words == {i \in DOMAIN all : i > Len(all) - Len(text) /\ ~IsBlank(all[i])}
            IN /\ TailFits(tail')
               /\ Width(text) <= TailBytes =>
                    /\ IsSuffix(text, all)
                    /\ words # {} =>
                         (words \subseteq Preview(tail')
                            <=> Cardinality(Squeezed(all)) <= SnippetChars)]_vars

Queued(s) ==
    FoldLeft(LAMBDA bytes, event : IF event.source = s THEN bytes \o event.bytes ELSE bytes,
             <<>>, channel)

\* Between the pipe and run_child nothing is lost, doubled or overtaken, the end of
\* a stream included; an attempt that was not cut by the drain deadline has seen
\* every byte anybody wrote (pump_stream, the shared channel, the loop condition).
NothingLostUnlessCut ==
    /\ at = "loop" => \A s \in StreamSource : written[s] = taken[s] \o Queued(s) \o pipe[s]
    /\ at = "ok" /\ ~cut => taken = written

\* Once the child has exited the attempt ends, even if a descendant keeps a pipe open
\* and silent or both pipes were closed long before (run_child's drain deadline).
AttemptEnds == exited ~> at \notin {"loop", "waiting"}
=============================================================================
