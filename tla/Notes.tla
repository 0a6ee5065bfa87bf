-------------------------------- MODULE Notes --------------------------------
(***************************************************************************)
(* The notes of a team (core, notes.rs): one file per slug that its agents   *)
(* and the human append to, replace and delete at the same time.  append and *)
(* write hold a lock of the folder, which is of this process; delete and the *)
(* reads do not.  A note is the sequence of its blocks, and its hash is its  *)
(* content; titles, the index in BOOT.md and the search are left out.        *)
(***************************************************************************)
EXTENDS Naturals, Sequences, SequencesExt, FiniteSetsExt, Sift

CONSTANTS
    NotesAtFirst,    \* slug -> its blocks, or Missing
    NoteScenes,      \* the requests made at the same time
    NoteMax,         \* NOTE_MAX_BYTES, in blocks
    NotesMax         \* NOTES_MAX

VARIABLES
    note,        \* slug -> the file: [file, blocks], or Missing
    folderLock,  \* the request that holds dir_lock, or 0
    noteJobs,    \* per request: where it is, what it read, its file and its answer
    lastFile     \* how many files there were

noteVars == <<note, folderLock, noteJobs, lastFile>>

\* Texts are in lists, and a request is about a note the team may have.
ASSUME NoteAssumption ==
    /\ \A s \in DOMAIN NotesAtFirst : NotesAtFirst[s] \in Seq(ToSet(NotesAtFirst[s]))
    /\ \A scene \in NoteScenes : \A i \in DOMAIN scene :
         /\ i \in Nat \ {0} /\ scene[i].does \in {"append", "write", "delete"}
         /\ scene[i].slug \in DOMAIN NotesAtFirst
         /\ scene[i].does = "write" => /\ scene[i].reads \in BOOLEAN
                                       /\ scene[i].blocks \in Seq(ToSet(scene[i].blocks))

Missing == [file |-> 0, blocks |-> <<>>]
FileOf(slug) == note[slug]
Notes == {s \in DOMAIN note : note[s] # Missing}

NoteInit ==
    /\ note = [s \in DOMAIN NotesAtFirst |-> IF NotesAtFirst[s] = <<>> THEN Missing
                                             ELSE [file |-> 1, blocks |-> NotesAtFirst[s]]]
    /\ folderLock = 0 /\ lastFile = 1
    /\ \E scene \in NoteScenes :
         noteJobs = [i \in DOMAIN scene |->
             [ask |-> scene[i], seen |-> <<>>, disk |-> <<>>, file |-> 0, answer |-> "none", diff |-> <<>>,
              at |-> IF scene[i].does = "write" /\ scene[i].reads THEN "read"
                     ELSE IF scene[i].does = "delete" THEN "delete" ELSE "lock"]]

NoteAsk(i) == noteJobs[i].ask
SlugOf(i) == NoteAsk(i).slug
NoteStep(i, job) == noteJobs' = [noteJobs EXCEPT ![i] = job]
NoteAt(i, at) == NoteStep(i, [noteJobs[i] EXCEPT !.at = at])
Answers(i, answer) == NoteStep(i, [noteJobs[i] EXCEPT !.at = "end", !.answer = answer])
Unlocks(i, answer) == Answers(i, answer) /\ folderLock' = 0

\* read: the blocks, whose hash the caller keeps.
ReadNote(i) ==
    /\ noteJobs[i].at = "read"
    /\ IF FileOf(SlugOf(i)) = Missing THEN Answers(i, "notFound")
       ELSE NoteStep(i, [noteJobs[i] EXCEPT !.at = "lock", !.seen = FileOf(SlugOf(i)).blocks])
    /\ UNCHANGED <<note, folderLock, lastFile>>

\* dir_lock.  WritesLock, its mutant, lets append do without it.
WritesLock(i) == NoteAsk(i).does = "write"
TakesLock(i) == TRUE
TakeLock(i) ==
    /\ noteJobs[i].at = "lock" /\ (TakesLock(i) => folderLock = 0)
    /\ folderLock' = IF TakesLock(i) THEN i ELSE folderLock
    /\ NoteAt(i, IF NoteAsk(i).does = "append" THEN "size" ELSE "check")
    /\ UNCHANGED <<note, lastFile>>

-----------------------------------------------------------------------------
(* append: the size, the file, one write, and the note is read again         *)

AppendSize(i) ==
    /\ noteJobs[i].at = "size"
    /\ \/ FileOf(SlugOf(i)) = Missing /\ Unlocks(i, "notFound")
       \/ FileOf(SlugOf(i)) # Missing /\ Len(FileOf(SlugOf(i)).blocks) + 1 > NoteMax /\ Unlocks(i, "tooLarge")
       \/ /\ FileOf(SlugOf(i)) # Missing /\ Len(FileOf(SlugOf(i)).blocks) + 1 <= NoteMax
          /\ NoteAt(i, "open") /\ UNCHANGED folderLock
    /\ UNCHANGED <<note, lastFile>>
AppendOpen(i) ==
    /\ noteJobs[i].at = "open"
    /\ \/ FileOf(SlugOf(i)) = Missing /\ Unlocks(i, "io")
       \/ /\ FileOf(SlugOf(i)) # Missing /\ UNCHANGED folderLock
          /\ NoteStep(i, [noteJobs[i] EXCEPT !.at = "append", !.file = FileOf(SlugOf(i)).file])
    /\ UNCHANGED <<note, lastFile>>
\* The file may have lost its name meanwhile: the block goes with it.
AppendWrite(i) ==
    /\ noteJobs[i].at = "append" /\ NoteAt(i, "back")
    /\ note' = IF FileOf(SlugOf(i)).file = noteJobs[i].file
               THEN [note EXCEPT ![SlugOf(i)].blocks = Append(@, i)] ELSE note
    /\ UNCHANGED <<folderLock, lastFile>>
AppendBack(i) ==
    /\ noteJobs[i].at = "back"
    /\ Unlocks(i, IF FileOf(SlugOf(i)) = Missing THEN "notFound" ELSE "done")
    /\ UNCHANGED <<note, lastFile>>

-----------------------------------------------------------------------------
(* write: the hash is compared, a file is written aside and renamed          *)

\* line_diff: what both begin and end with is the same.  The suffix is looked
\* for in what the prefix leaves.
CommonPrefix(a, b) == Max({0} \cup {n \in 1..Min({Len(a), Len(b)}) : SubSeq(a, 1, n) = SubSeq(b, 1, n)})
CommonSuffix(a, b) ==
    LET cut(s) == SubSeq(s, CommonPrefix(a, b) + 1, Len(s))
    IN  CommonPrefix(Reverse(cut(a)), Reverse(cut(b)))
LineDiff(a, b) ==
    LET prefix == CommonPrefix(a, b)
        suffix == CommonSuffix(a, b)
        lines(kind, s) == [n \in DOMAIN s |-> [kind |-> kind, text |-> s[n]]]
    IN  lines("same", SubSeq(a, 1, prefix))
        \o lines("removed", SubSeq(a, prefix + 1, Len(a) - suffix))
        \o lines("added", SubSeq(b, prefix + 1, Len(b) - suffix))
        \o lines("same", SubSeq(a, Len(a) - suffix + 1, Len(a)))

Content(i) == noteJobs[i].seen \o NoteAsk(i).blocks
WriteCheck(i) ==
    LET now == FileOf(SlugOf(i))
        known == NoteAsk(i).reads
    IN  /\ noteJobs[i].at = "check"
        /\ \/ Len(Content(i)) > NoteMax /\ Unlocks(i, "tooLarge")
           \/ /\ Len(Content(i)) <= NoteMax
              /\ CASE now # Missing /\ known /\ now.blocks # noteJobs[i].seen ->
                        /\ NoteStep(i, [noteJobs[i] EXCEPT !.at = "end", !.answer = "stale",
                                                           !.disk = now.blocks, !.diff = LineDiff(now.blocks, Content(i))])
                        /\ folderLock' = 0
                   [] now # Missing /\ ~known -> Unlocks(i, "hashRequired")
                   [] now = Missing /\ known  -> Unlocks(i, "notFound")
                   [] now = Missing /\ ~known /\ Cardinality(Notes) >= NotesMax -> Unlocks(i, "tooMany")
                   [] OTHER -> NoteAt(i, "rename") /\ UNCHANGED folderLock
        /\ UNCHANGED <<note, lastFile>>
WriteRename(i) ==
    /\ noteJobs[i].at = "rename" /\ lastFile' = lastFile + 1
    /\ \/ Unlocks(i, "io") /\ UNCHANGED note
       \/ /\ Unlocks(i, "done")
          /\ note' = [note EXCEPT ![SlugOf(i)] = [file |-> lastFile', blocks |-> Content(i)]]

\* delete: by the human, and without the lock.
DeleteNote(i) ==
    /\ noteJobs[i].at = "delete"
    /\ Answers(i, IF FileOf(SlugOf(i)) = Missing THEN "notFound" ELSE "done")
    /\ note' = [note EXCEPT ![SlugOf(i)] = Missing]
    /\ UNCHANGED <<folderLock, lastFile>>

NoteNext == \E i \in DOMAIN noteJobs :
    \/ ReadNote(i) \/ TakeLock(i) \/ AppendSize(i) \/ AppendOpen(i) \/ AppendWrite(i) \/ AppendBack(i)
    \/ WriteCheck(i) \/ WriteRename(i) \/ DeleteNote(i)
NoteSpec == NoteInit /\ [][NoteNext]_noteVars

-----------------------------------------------------------------------------
(* What somebody wrote leaves a note only by the hand of somebody who had    *)
(* read it, or who deletes the note: no append is lost under a write that    *)
(* was checked before it.                                                    *)
NothingUnseenIsReplaced ==
    \A s \in DOMAIN note :
        LET lost == ToSet(note[s].blocks) \ ToSet(note'[s].blocks)
        IN  lost # {} => \E i \in DOMAIN noteJobs :
              /\ SlugOf(i) = s /\ noteJobs'[i].at = "end" /\ noteJobs[i].at \in {"rename", "delete"}
              /\ noteJobs[i].at = "rename" => lost \subseteq ToSet(noteJobs[i].seen)

(* Who is refused for a stale hash is shown both texts whole: the lines that *)
(* are the same or removed are those on the disk, the same or added his own. *)
StaleShowsBoth ==
    \A i \in DOMAIN noteJobs : noteJobs[i].answer = "stale" =>
        LET diff == noteJobs[i].diff
            without(kind) == Sifted(diff, {line \in ToSet(diff) : line.kind # kind})
            texts(s) == [n \in DOMAIN s |-> s[n].text]
        IN  /\ texts(without("removed")) = Content(i)
            /\ texts(without("added")) = noteJobs[i].disk

(* No text is lost in silence: neither what is on the disk, under a write,    *)
(* nor what a refused writer holds, in the answer he gets (notes.rs).         *)
NotesKeepTexts == [][NothingUnseenIsReplaced /\ StaleShowsBoth']_noteVars

=============================================================================
