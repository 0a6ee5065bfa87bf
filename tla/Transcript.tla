----------------------------- MODULE Transcript -----------------------------
(***************************************************************************)
(* The log of an agent and the text the Logs tab makes of it (pty, log.rs;   *)
(* core, transcript.rs).  All the sessions of an agent append to one file,   *)
(* which is renamed away when it is full; a session is recorded with the     *)
(* length the file had when it began, and its text is cut out of the file    *)
(* that is there when somebody reads, by that length and the next one's.     *)
(* A byte is a token; U1 and U2 are the two bytes of one character.  Sessions *)
(* of one agent do not overlap (Supervisor).  The rename of a rotation and    *)
(* the new file are one step; errors of the disk are left out.               *)
(***************************************************************************)
EXTENDS Integers, Sequences, FiniteSets, SequencesExt

CONSTANTS
    Tales,          \* scenes [outputs, limit, view, chunk]: what each session writes, the size
                    \* the log is rotated at, the bytes a view takes, and those of one read
    SessionsKept    \* the sessions of an agent whose rows are kept

VARIABLES
    tale, log,      \* the scene; the file, a sequence of [of, byte]
    sessions,       \* per session begun: [offset, left, row]
    logRows,        \* the recorded sessions, newest first
    reader          \* one reader: [at, id, kind, rows, range, end, text, cut, bytes] and,
                    \* as history: gone, a later session had rotated the log when it was
                    \* located; own, what the session had in the file when it was opened
VARIABLES rotated   \* history: the sessions that had begun at the last rotation

transcriptVars == <<tale, log, sessions, logRows, reader, rotated>>

\* ---- PlainText ----

Blank == [pending |-> <<>>, escape |-> "none", line |-> <<>>, cursor |-> 0,
          carriage |-> FALSE, done |-> <<>>]

\* feed's loop over from_utf8: whole characters, a replacement for each stray
\* byte, and the first byte of a character that ends the data waits.
CharsOf(data) ==
    FlattenSeq([i \in DOMAIN data |->
        CASE data[i] = "U1" -> IF i = Len(data) THEN <<>>
                               ELSE IF data[i + 1] = "U2" THEN <<"e'">> ELSE <<"?">>
          [] data[i] = "U2" -> IF i > 1 /\ data[i - 1] = "U1" THEN <<>> ELSE <<"?">>
          [] OTHER -> <<data[i]>>])
Waiting(data) == IF data # <<>> /\ Last(data) = "U1" THEN <<"U1">> ELSE <<>>

AfterEscape(state, c) ==
    CASE state = "start"   -> CASE c = "[" -> "csi" [] c = "]" -> "osc"
                                [] c = "(" -> "charset" [] OTHER -> "none"
      [] state = "csi"     -> IF c \in {"x", "y", "[", "]", "\\"} THEN "none" ELSE "csi"
      [] state = "osc"     -> CASE c = "BEL" -> "none" [] c = "ESC" -> "terminator" [] OTHER -> "osc"
      [] state = "terminator" -> IF c = "\\" THEN "none" ELSE "osc"
      [] OTHER -> "none"

Trimmed(line) ==
    LET kept == {i \in DOMAIN line : line[i] # " "}
    IN  SubSeq(line, 1, IF kept = {} THEN 0 ELSE CHOOSE i \in kept : \A j \in kept : j <= i)
PutAt(p, c) ==
    [p EXCEPT !.line = IF p.cursor < Len(p.line) THEN [p.line EXCEPT ![p.cursor + 1] = c]
                       ELSE Append(p.line, c),
              !.cursor = p.cursor + 1]
EndLine(p) ==
    [p EXCEPT !.done = Append(p.done \o Trimmed(p.line), "LF"), !.line = <<>>, !.cursor = 0]

\* A lone CR goes back to the start of the line: what follows overwrites.
Char(p, c) ==
    IF p.escape # "none" THEN [p EXCEPT !.escape = AfterEscape(p.escape, c)]
    ELSE LET q == IF p.carriage /\ c # "LF" THEN [p EXCEPT !.carriage = FALSE, !.cursor = 0] ELSE p
         IN  CASE c = "ESC" -> [q EXCEPT !.escape = "start"]
               [] c = "CR"  -> [q EXCEPT !.carriage = TRUE]
               [] c = "LF"  -> EndLine([q EXCEPT !.carriage = FALSE])
               [] c = "BS"  -> [q EXCEPT !.cursor = IF @ = 0 THEN 0 ELSE @ - 1]
               [] c = "BEL" -> q
               [] OTHER     -> PutAt(q, c)

\* CutFeeds is the mutant of Feed: what waited is not put before the new data.
CutFeeds(p, bytes) ==
    [FoldLeft(Char, p, CharsOf(bytes)) EXCEPT !.pending = Waiting(bytes)]
Feed(p, bytes) ==
    LET data == p.pending \o bytes
    IN  [FoldLeft(Char, p, CharsOf(data)) EXCEPT !.pending = Waiting(data)]

TakeLines(p) == [p EXCEPT !.done = <<>>]
Finish(p) ==
    LET q == IF p.pending = <<>> THEN p ELSE Char(p, "?") IN q.done \o Trimmed(q.line)

\* read_range, a chunk at a time: the view feeds, the export also writes the
\* lines that are closed so far.
PiecesOf(bytes) ==
    [k \in 1..((Len(bytes) + tale.chunk - 1) \div tale.chunk) |->
        SubSeq(bytes, (k - 1) * tale.chunk + 1,
               IF k * tale.chunk < Len(bytes) THEN k * tale.chunk ELSE Len(bytes))]
Viewed(bytes) == Finish(FoldLeft(Feed, Blank, PiecesOf(bytes)))
Exported(bytes) ==
    LET Next0(acc, piece) ==
            LET p == Feed(acc.plain, piece) IN [plain |-> TakeLines(p), out |-> acc.out \o p.done]
        all == FoldLeft(Next0, [plain |-> Blank, out |-> <<>>], PiecesOf(bytes))
    IN  all.out \o Finish(all.plain)

\* ---- the sessions and their log ----

NoReading == [at |-> "off", id |-> 0, kind |-> "view", rows |-> <<>>, range |-> <<0, 0>>,
              end |-> 0, text |-> <<>>, cut |-> FALSE, bytes |-> 0, own |-> <<>>, gone |-> FALSE]
TranscriptInit ==
    /\ tale \in Tales /\ log = <<>> /\ sessions = <<>> /\ logRows = <<>>
    /\ reader = NoReading /\ rotated = 0

\* start: the session begins where the file is, once the one before has ended.
LogBegins ==
    /\ Len(sessions) < Len(tale.outputs)
    /\ \A i \in DOMAIN sessions : sessions[i].left = <<>>
    /\ sessions' = Append(sessions, [offset |-> Len(log), row |-> "unrecorded",
                                     left |-> tale.outputs[Len(sessions) + 1]])
    /\ UNCHANGED <<tale, log, logRows, reader, rotated>>
\* start_session, later, or never; the oldest rows go.  A start records its
\* session before the agent can be started again.
Records0(i) ==
    /\ sessions[i].row = "unrecorded" /\ i = Len(sessions)
    /\ sessions' = [sessions EXCEPT ![i].row = "recorded"]
    /\ logRows' = LET all == <<i>> \o logRows
                  IN  SubSeq(all, 1, IF Len(all) < SessionsKept THEN Len(all) ELSE SessionsKept)
    /\ UNCHANGED <<tale, log, reader, rotated>>
\* The pump appends a chunk; a full file is renamed away and a new one begins.
Appends(i, n) ==
    /\ i = Len(sessions) /\ n \in 1..Len(sessions[i].left)
    /\ LET all == log \o [k \in 1..n |-> [of |-> i, byte |-> sessions[i].left[k]]]
       IN  IF Len(all) >= tale.limit THEN log' = <<>> /\ rotated' = i
           ELSE log' = all /\ UNCHANGED rotated
    /\ sessions' = [sessions EXCEPT ![i].left = SubSeq(@, n + 1, Len(@))]
    /\ UNCHANGED <<tale, logRows, reader>>

\* ---- session_transcript and session_export ----

Lists(i, kind) ==
    /\ reader.at = "off" /\ i \in ToSet(logRows)
    /\ reader' = [NoReading EXCEPT !.at = "locate", !.id = i, !.kind = kind, !.rows = logRows]
    /\ UNCHANGED <<tale, log, sessions, logRows, rotated>>

\* session_range: to where the newer of the rows begins; none if it begins
\* before, or if the file is shorter than the session's beginning.  0: no end.
Newer(rows, i) == LET k == CHOOSE k \in DOMAIN rows : rows[k] = i IN IF k = 1 THEN 0 ELSE rows[k - 1]
SessionRange(rows, i, len) ==
    LET start == sessions[i].offset
        newer == Newer(rows, i)
    IN  IF start > len THEN {}
        ELSE IF newer = 0 THEN {<<start, -1>>}
        ELSE IF sessions[newer].offset >= start THEN {<<start, sessions[newer].offset>>}
        ELSE {}

Locates ==
    /\ reader.at = "locate"
    /\ LET found == SessionRange(reader.rows, reader.id, Len(log))
       IN  \/ found = {} /\ reader' = [reader EXCEPT !.at = "unavailable"]
           \/ \E r \in found : reader' = [reader EXCEPT !.range = r, !.at = "size",
                                                           !.gone = rotated > reader.id]
    /\ UNCHANGED <<tale, log, sessions, logRows, rotated>>
Larger(a, b) == IF a > b THEN a ELSE b
Smaller(a, b) == IF a < b THEN a ELSE b
\* read_transcript measures the file again; from is the start or, in a view, so
\* many bytes before the end.
Sizes ==
    /\ reader.at = "size"
    /\ reader' = [reader EXCEPT !.at = "open",
                                  !.end = IF reader.range[2] = -1 THEN Len(log) ELSE reader.range[2]]
    /\ UNCHANGED <<tale, log, sessions, logRows, rotated>>
From == IF reader.kind = "export" THEN reader.range[1]
        ELSE Larger(reader.end - tale.view, reader.range[1])
\* A view that begins after the start drops what comes before its first line end.
AfterFirstLine(text) ==
    LET ends == {k \in DOMAIN text : text[k] = "LF"}
    IN  IF ends = {} THEN text
        ELSE SubSeq(text, 1 + CHOOSE k \in ends : \A j \in ends : k <= j, Len(text))
Opens ==
    /\ reader.at = "open"
    /\ LET end   == IF reader.range[2] = -1 THEN Len(log) ELSE Smaller(reader.range[2], Len(log))
           bytes == [k \in 1..Larger(end - From, 0) |-> log[From + k].byte]
           whole == IF reader.kind = "export" THEN Exported(bytes) ELSE Viewed(bytes)
           cut   == From > reader.range[1]
       IN  reader' = [reader EXCEPT
               !.at = "done", !.cut = cut, !.bytes = Larger(end - reader.range[1], 0),
               !.text = IF cut THEN AfterFirstLine(whole) ELSE whole,
               !.own = SelectSeq(log, LAMBDA b : b.of = reader.id)]
    /\ UNCHANGED <<tale, log, sessions, logRows, rotated>>

TranscriptNext ==
    \/ LogBegins \/ Locates \/ Sizes \/ Opens
    \/ \E i \in DOMAIN sessions :
         \/ Records0(i) \/ Lists(i, "view") \/ Lists(i, "export") \/ Appends(i, 1) \/ Appends(i, 2)
TranscriptSpec == TranscriptInit /\ [][TranscriptNext]_transcriptVars

\* ---- properties ----

\* The text of bytes read at once, from the first of them: what a terminal
\* would be left with.
PlainOf(bytes) == Finish(Feed(Blank, [k \in DOMAIN bytes |-> bytes[k].byte]))

\* Whatever the size of a read, and whoever writes meanwhile: if the log was
\* not rotated since the session began, and the session that began after it had
\* its row when the rows were listed, the text is that of what the session had
\* written, whole or, in a view that was cut, the end of it.
TextIsItsOwn ==
    (/\ reader.at = "done" /\ rotated < reader.id
     /\ reader.id < Len(sessions) => reader.id + 1 \in ToSet(reader.rows))
       => IF reader.cut THEN IsSuffix(reader.text, PlainOf(reader.own)) \/ "LF" \notin ToSet(reader.text)
          ELSE reader.text = PlainOf(reader.own)

\* "Se a seguinte começa antes (o log rotacionou no meio) ou o arquivo encolheu, o trecho não
\* existe mais" (transcript.rs:90): a session whose log was rotated away by a
\* later one is not answered with that one's text.  Refuted: the new file is
\* told from the old by its length alone, and it grows.
OthersAreNotShown == reader.at = "done" /\ reader.gone => reader.text = <<>>
=============================================================================
