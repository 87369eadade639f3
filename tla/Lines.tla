-------------------------------- MODULE Lines --------------------------------
(***************************************************************************)
(* The four readers of lines, each fed by a network that cuts its bytes    *)
(* wherever it likes: the provider's events (src/backend/src/llm.rs,       *)
(* SseDecoder), the browser's (src/frontend/src/stream.js, readEvents), an *)
(* MCP server's output (mcp/mod.rs, LineLimit), and the bound kept on an   *)
(* MCP server's event stream (mcp/wire.rs, EventSize and bounded_events).  *)
(* Each is stated twice: as the code reads, byte by byte with what it does *)
(* at a chunk's end, and as what is to be read of the whole.               *)
(***************************************************************************)
EXTENDS Integers, Sequences, FiniteSets

CONSTANTS
    MaxBytes,      \* length of a stream
    MaxSize        \* bytes of one event or line (8 MiB, 16 MiB)

VARIABLES
    stream,        \* whose bytes, all of them, how many were read, and of the chunk at hand
    read           \* the reader: what it keeps, and what it has given out

lineVars == <<stream, read>>

\* Bytes, as far as a reader tells them apart.  "data" stands for the five bytes of
\* `data:`, "lead" and "tail" for the two of one character, "step" and "end" for an
\* object of a line that is a progress event, or the last.
Bytes == [provider |-> {"CR", "LF", "data", "x", "BOM"},
          browser |-> {"CR", "LF", "lead", "tail", "step", "end"},
          output |-> {"CR", "LF", "x"},
          events |-> {"CR", "LF", "x", ":"}]

Readers == {"provider", "browser", "output", "events"}

\* The last place of a set of places, or none.
LastOf(places) == IF places = {} THEN 0 ELSE CHOOSE i \in places : \A j \in places : i >= j

-----------------------------------------------------------------------------
\* SseDecoder, byte by byte.
ProviderStart ==
    [line |-> <<>>, data |-> <<>>, size |-> 0, skip |-> FALSE, started |-> FALSE, hasData |-> FALSE,
     out |-> <<>>, failed |-> FALSE]

Unmarked(line) == IF line # <<>> /\ Head(line) = "BOM" THEN Tail(line) ELSE line
IsData(line) == line # <<>> /\ Head(line) = "data"

FinishLine(s) ==
    LET line == IF s.started THEN s.line ELSE Unmarked(s.line)
        next == [s EXCEPT !.line = <<>>, !.started = TRUE] IN
    IF line = <<>>
        THEN [next EXCEPT !.size = 0, !.hasData = FALSE, !.data = <<>>,
                          !.out = IF s.hasData THEN Append(@, s.data) ELSE @]
        ELSE IF IsData(line) THEN [next EXCEPT !.data = Append(@, Tail(line)), !.hasData = TRUE]
        ELSE next

FeedByte(s, byte) ==
    IF s.skip /\ byte = "LF" THEN [s EXCEPT !.skip = FALSE]
    ELSE LET t == [s EXCEPT !.skip = FALSE, !.size = @ + 1] IN
         IF t.size > MaxSize THEN [t EXCEPT !.failed = TRUE]
         ELSE IF byte \in {"CR", "LF"} THEN [FinishLine(t) EXCEPT !.skip = byte = "CR"]
         ELSE [t EXCEPT !.line = Append(@, byte)]

-----------------------------------------------------------------------------
\* readEvents.  The first byte of a character waits in the decoder for the other.
BrowserStart == [held |-> FALSE, part |-> <<>>, out |-> <<>>, failed |-> FALSE]

Trimmed(line) ==
    LET solid == {i \in DOMAIN line : line[i] # "CR"} IN
    IF solid = {} THEN <<>>
    ELSE SubSeq(line, CHOOSE i \in solid : \A j \in solid : i <= j, LastOf(solid))

\* eventOf, isFinal: a line whose first character begins an object is that object.
IsEvent(line) == line # <<>> /\ Head(line) \in {"step", "end"}
IsFinal(event) == Head(event) = "end"
Over(out) == out # <<>> /\ IsFinal(out[Len(out)])

\* `take` and `feed`: the parts of a line are put together at its newline.
TakeChar(s, char) ==
    IF char = "LF"
        THEN [s EXCEPT !.part = <<>>,
                       !.out = IF ~Over(@) /\ IsEvent(Trimmed(s.part)) THEN Append(@, Trimmed(s.part)) ELSE @]
        ELSE [s EXCEPT !.part = Append(@, char)]

\* TextDecoder, stream: true.  A character that never comes whole is a replacement
\* character, before what came in its place.
CharOf(held, byte) == IF byte # "tail" THEN byte ELSE IF held THEN "char" ELSE "?"

PageByte(s, byte) ==
    LET cut == s.held /\ byte # "tail"
        t == IF cut THEN TakeChar(s, "?") ELSE s IN
    IF byte = "lead" THEN [t EXCEPT !.held = TRUE]
    ELSE [TakeChar(t, CharOf(s.held, byte)) EXCEPT !.held = FALSE]

-----------------------------------------------------------------------------
\* LineLimit: the length is looked at once a chunk is read, of the line it leaves
\* unfinished.  A chunk is far shorter than a line may be.
OutputStart == [line |-> <<>>, out |-> <<>>, failed |-> FALSE]

\* `pass`, without what it mends.
Ended(line) == SubSeq(line, 1, LastOf({i \in DOMAIN line : line[i] \notin {"CR", "LF"}}))

TakeByte(s, byte) ==
    IF byte = "LF"
        THEN [s EXCEPT !.line = <<>>, !.out = Append(@, Ended(s.line))]
        ELSE [s EXCEPT !.line = Append(@, byte)]

-----------------------------------------------------------------------------
\* EventSize: `line` gathers what is not yet passed on.
EventsStart == [event |-> 0, size |-> 0, comment |-> FALSE, afterCr |-> FALSE, line |-> <<>>, out |-> <<>>, failed |-> FALSE]

\* EventSize::past.
SizeByte(s, byte) ==
    IF s.afterCr /\ byte = "LF" THEN [s EXCEPT !.afterCr = FALSE]
    ELSE IF byte \in {"CR", "LF"}
    THEN [s EXCEPT !.event = IF s.size = 0 THEN 0 ELSE IF s.comment THEN @ ELSE @ + s.size + 1,
                   !.size = 0, !.comment = FALSE, !.afterCr = byte = "CR"]
    ELSE [s EXCEPT !.comment = IF s.size = 0 THEN byte = ":" ELSE @, !.size = @ + 1, !.afterCr = FALSE]

\* The bytes of the whole lines of `line`.
WholeLines(line) == SubSeq(line, 1, LastOf({i \in DOMAIN line : line[i] \in {"CR", "LF"}}))

\* Past the limit the event is ended before the line that passes it.
TooLarge == <<"LF", "LF", "too large">>

BoundedByte(s, byte) ==
    LET t == SizeByte(s, byte) IN
    IF t.event + t.size > MaxSize
        THEN [t EXCEPT !.line = <<>>, !.out = @ \o WholeLines(s.line) \o TooLarge, !.failed = TRUE]
        ELSE [t EXCEPT !.line = Append(@, byte)]

\* Whole lines go on with their chunk.
PassLines(s) ==
    [s EXCEPT !.line = SubSeq(@, Len(WholeLines(@)) + 1, Len(@)), !.out = @ \o WholeLines(s.line)]

-----------------------------------------------------------------------------
Start == [provider |-> ProviderStart, browser |-> BrowserStart, output |-> OutputStart, events |-> EventsStart]

LinesInit ==
    /\ stream \in UNION {[of : {r}, bytes : UNION {[1..n -> Bytes[r]] : n \in 0..MaxBytes},
                          at : {0}, chunk : {0}, ended : {FALSE}] : r \in Readers}
    /\ read = Start[stream.of]

Listens(reader) == stream.of = reader /\ ~stream.ended /\ ~read.failed

Byte == stream.bytes[stream.at + 1]

NextByte(reader) ==
    /\ Listens(reader) /\ stream.at < Len(stream.bytes)
    /\ stream' = [stream EXCEPT !.at = @ + 1, !.chunk = @ + 1]

ChunkEnds(reader) ==
    /\ Listens(reader) /\ stream.chunk > 0
    /\ stream' = [stream EXCEPT !.chunk = 0]

\* The network ends the stream between two chunks.
InputEnds(reader) ==
    /\ Listens(reader) /\ stream.chunk = 0 /\ stream.at = Len(stream.bytes)
    /\ stream' = [stream EXCEPT !.ended = TRUE]

\* An event counts from its byte on; what the end of the stream leaves unfinished is none.
FeedProvider == NextByte("provider") /\ read' = FeedByte(read, Byte)
ProviderChunkEnds == ChunkEnds("provider") /\ UNCHANGED read
ProviderEnds == InputEnds("provider") /\ UNCHANGED read

\* Mutant: each chunk is decoded by itself.
PageChunkEndsAlone ==
    /\ ChunkEnds("browser")
    /\ read' = IF read.held THEN [TakeChar(read, "?") EXCEPT !.held = FALSE] ELSE read

\* No chunk is asked for after the last event.  At the end a last line goes without its
\* newline, and a character cut short with it.
FeedPage == NextByte("browser") /\ (stream.chunk = 0 => ~Over(read.out)) /\ read' = PageByte(read, Byte)
PageChunkEnds == ChunkEnds("browser") /\ UNCHANGED read
PageEnds == InputEnds("browser") /\ ~Over(read.out) /\ read' = PageByte(read, "LF")

FeedOutput == NextByte("output") /\ stream.chunk < MaxSize /\ read' = TakeByte(read, Byte)
OutputChunkEnds ==
    /\ ChunkEnds("output")
    /\ read' = IF Len(read.line) > MaxSize THEN [read EXCEPT !.line = <<>>, !.failed = TRUE] ELSE read
OutputEnds == InputEnds("output") /\ read' = IF read.line = <<>> THEN read ELSE TakeByte(read, "LF")

FeedEvents == NextByte("events") /\ read' = BoundedByte(read, Byte)
EventsChunkEnds == ChunkEnds("events") /\ read' = PassLines(read)
EventsEnd == InputEnds("events") /\ read' = [read EXCEPT !.line = <<>>, !.out = @ \o read.line]

LinesNext ==
    \/ FeedProvider \/ ProviderChunkEnds \/ ProviderEnds
    \/ FeedPage \/ PageChunkEnds \/ PageEnds
    \/ FeedOutput \/ OutputChunkEnds \/ OutputEnds
    \/ FeedEvents \/ EventsChunkEnds \/ EventsEnd

LinesSpec == LinesInit /\ [][LinesNext]_lineVars

-----------------------------------------------------------------------------
\* What is to be read of the first n bytes of a stream w.

\* The values a function has at the places of a set, in their order.
The(set) == CHOOSE x \in set : TRUE
At(places, k) == The({i \in places : Cardinality({j \in places : j <= i}) = k})
Each(f, places) == [k \in 1..Cardinality(places) |-> f[At(places, k)]]

\* The line that ends at i: what follows the break before it.
Breaks(w, n, ends) == {i \in 1..n : w[i] \in ends}
LineBegin(w, i, ends) == LastOf(Breaks(w, i - 1, ends)) + 1
Line(w, i, ends) == SubSeq(w, LineBegin(w, i, ends), i - 1)

\* A line of an event stream ends at a CR, or at an LF that is not the rest of a CRLF; a
\* byte order mark is no part of the first.  At each empty line the data lines since the
\* last are an event, if there are any.
Either == {"CR", "LF"}
LineEnds(w, n) == {i \in Breaks(w, n, Either) : ~(w[i] = "LF" /\ i > 1 /\ w[i - 1] = "CR")}
LineText(w, i) == IF Breaks(w, i - 1, Either) = {} THEN Unmarked(Line(w, i, Either)) ELSE Line(w, i, Either)
Values(w) == [i \in DOMAIN w |-> Tail(LineText(w, i))]
DataSince(w, n) ==
    {i \in LineEnds(w, n) : IsData(LineText(w, i)) /\ \A j \in LineEnds(w, n) : j > i => LineText(w, j) # <<>>}
DataEvent(w, i) == Each(Values(w), DataSince(w, i - 1))
DataEvents(w) == [i \in DOMAIN w |-> DataEvent(w, i)]
EventEnds(w, n) == {i \in LineEnds(w, n) : LineText(w, i) = <<>> /\ DataSince(w, i - 1) # {}}
ProviderEvents(w, n) == Each(DataEvents(w), EventEnds(w, n))

\* Every byte but one that waits for the rest of its character is the end of a character.
CharEnds(w, from, to) == {i \in from..to : ~(w[i] = "lead" /\ w[i + 1] = "tail")}
Chars(w) == [i \in DOMAIN w |-> IF w[i] = "lead" THEN "?" ELSE CharOf(i > 1 /\ w[i - 1] = "lead", w[i])]
PageLine(w, i) == Trimmed(Each(Chars(w), CharEnds(w, LineBegin(w, i, {"LF"}), i - 1)))
PageLines(w) == [i \in DOMAIN w |-> PageLine(w, i)]
IsLast(w, i) == IsEvent(PageLine(w, i)) /\ IsFinal(PageLine(w, i))
PageEnding(w, n) ==
    {i \in Breaks(w, n, {"LF"}) : IsEvent(PageLine(w, i)) /\ \A j \in Breaks(w, i - 1, {"LF"}) : ~IsLast(w, j)}
PageEvents(w, n) == Each(PageLines(w), PageEnding(w, n))

OutputLines(w, n) == Each([i \in DOMAIN w |-> Ended(Line(w, i, {"LF"}))], Breaks(w, n, {"LF"}))

\* However the network cuts them, the bytes read give the lines and events they are: the
\* provider's events (SseDecoder), the page's up to the last, with every character whole
\* (readEvents), a server's lines in order, the last without its end too (LineLimit), and
\* its event stream as it was sent, by whole lines, until an event is refused for its
\* size: then what came before the line refused (bounded_events).
LinesAreWhole ==
    LET w == stream.bytes
        n == stream.at
        ended == Append(w, "LF") IN
    CASE stream.of = "provider" -> ~read.failed => read.out = ProviderEvents(w, n)
      [] stream.of = "browser" -> read.out = PageEvents(ended, IF stream.ended THEN n + 1 ELSE n)
      [] stream.of = "output" ->
            read.out = OutputLines(ended, IF stream.ended /\ Line(ended, n + 1, {"LF"}) # <<>> THEN n + 1 ELSE n)
      [] stream.of = "events" ->
            IF read.failed THEN read.out = SubSeq(w, 1, LastOf(Breaks(w, n - 1, Either))) \o TooLarge
            ELSE read.out = SubSeq(w, 1, IF stream.ended THEN n ELSE LastOf(Breaks(w, n - stream.chunk, Either)))

=============================================================================
