------------------------------ MODULE Library ------------------------------
(***************************************************************************)
(* The library of skills (core, skill/{catalog,editor,library,watch}.rs and  *)
(* fswatch.rs; app, commands/skills.rs): a folder per skill on disk, the     *)
(* catalog read from them, its mirror in the database, and the watcher that  *)
(* reads the folders again 200 ms after a burst of events.  Commands of the  *)
(* editor, the user's own hands and the watcher run at once.  One read of    *)
(* all the folders is one step; the text of a skill is a value.              *)
(***************************************************************************)
EXTENDS Naturals, FiniteSets, Sequences, SequencesExt, FiniteSetsExt

CONSTANTS
    SkillFolders,    \* the folders, in the order of their names
    SkillNames,
    Builtin,         \* names that come with the program
    SkillsAtFirst,   \* folder -> what is in it
    LibraryScenes,   \* sequences of requests
    MaxSyncs         \* bound: syncs of the watcher in flight

VARIABLES
    shelves,       \* folder -> [file, tmp], or NoFolder
    skillCatalog,  \* name -> [text, dir], or NoSkill: the catalog in memory
    mirror,        \* name -> text: the table of skills, which forgets none
    events,        \* what the system told the watcher and it has not taken
    watcher,       \* [at, changed, loaded]
    libraryJobs,   \* commands, the user's changes and the watcher's syncs
    readsKept,     \* history: reads, in order, that no newer one was put over
    overtaken,     \* history: an older read was put over a newer one
    halves,        \* history: folders an import, or two saves at once, wrote, or
                   \* that were moved with half a file in them
    movedWhole     \* history: a whole folder was renamed

libraryVars == <<shelves, skillCatalog, mirror, events, watcher, libraryJobs,
                 readsKept, overtaken, halves, movedWhole>>
histories == <<readsKept, overtaken, halves, movedWhole>>

NoFolder == [there |-> "no folder"]
NoFile == [there |-> "no file"]
NoSkill == [there |-> "no skill"]
NoText == "none"
Half(name) == [name |-> name, text |-> "half"]
IsHalf(file) == file # NoFile /\ file.text = "half"
HasHalf(shelf) == IsHalf(shelf.file) \/ IsHalf(shelf.tmp)
HasSkill(disk, f) == disk[f] # NoFolder /\ disk[f].file # NoFile

\* load_user_dir: of two folders with one name the first wins, and any of them
\* wins over a skill that comes with the program.
Named(disk, name) ==
    {i \in DOMAIN SkillFolders :
        HasSkill(disk, SkillFolders[i]) /\ disk[SkillFolders[i]].file.name = name}
Loaded(disk) ==
    [name \in SkillNames |->
        IF Named(disk, name) # {}
        THEN LET f == SkillFolders[Min(Named(disk, name))] IN [text |-> disk[f].file.text, dir |-> f]
        ELSE IF name \in Builtin THEN [text |-> "builtin", dir |-> "builtin"] ELSE NoSkill]

IsText(file) == file = NoFile \/ DOMAIN file = {"name", "text"}
ASSUME LibraryAssumption ==
    /\ SkillFolders \in Seq(ToSet(SkillFolders))
    /\ DOMAIN SkillsAtFirst = ToSet(SkillFolders)
    /\ \A f \in ToSet(SkillFolders) : SkillsAtFirst[f] # NoFolder =>
         /\ DOMAIN SkillsAtFirst[f] = {"file", "tmp"} /\ ~HasHalf(SkillsAtFirst[f])
         /\ IsText(SkillsAtFirst[f].file) /\ IsText(SkillsAtFirst[f].tmp)
    /\ \A scene \in LibraryScenes : scene \in Seq(ToSet(scene)) /\ \A ask \in ToSet(scene) :
         /\ ask.op \in {"save", "import", "delete", "put", "move", "touch"}
         /\ ask.op # "touch" => ask.folder \in ToSet(SkillFolders)
         /\ ask.op = "move" => ask.to \in ToSet(SkillFolders)
         /\ ask.op \in {"save", "import", "put"} => ask.text # "half"

LibraryJob(request, at) == [ask |-> request, at |-> at, view |-> NoSkill]
FirstStep == [save |-> "check", import |-> "check", delete |-> "check",
              put |-> "user", move |-> "user", touch |-> "user"]
LibraryInit ==
    /\ shelves = SkillsAtFirst /\ skillCatalog = Loaded(SkillsAtFirst)
    /\ mirror = [n \in SkillNames |-> IF skillCatalog[n] = NoSkill THEN NoText ELSE skillCatalog[n].text]
    /\ events = <<>> /\ watcher = [at |-> "idle", changed |-> FALSE, loaded |-> NoSkill]
    /\ \E scene \in LibraryScenes :
         libraryJobs = [i \in DOMAIN scene |-> LibraryJob(scene[i], FirstStep[scene[i].op])]
    /\ readsKept = [catalog |-> <<>>, mirror |-> <<>>] /\ overtaken = FALSE /\ halves = {} /\ movedWhole = FALSE

Order0(i) == libraryJobs[i].ask
LibraryGoes(i, at) == libraryJobs' = [libraryJobs EXCEPT ![i].at = at]
Shelf(i) == Order0(i).folder
Event(kind, what) == [kind |-> kind, what |-> what]
Tells(event) == events' = IF IsSuffix(event, events) THEN events ELSE events \o event

\* check_skill: the name stays in an edit, and no other folder has it.
Refused(ask) ==
    LET held == skillCatalog[ask.name]
        before == {n \in SkillNames : skillCatalog[n] # NoSkill /\ skillCatalog[n].dir = ask.folder}
    IN  \/ held # NoSkill /\ held.dir \notin {"builtin", IF ask.editing THEN ask.folder ELSE "none"}
        \/ ask.editing /\ before # {} /\ ask.name \notin before
\* save_skill and import_skill refuse a folder that exists, and an edit one
\* that does not.
SkillChecked(i) ==
    /\ libraryJobs[i].at = "check" /\ Order0(i).op \in {"save", "import"}
    /\ LibraryGoes(i, CASE Refused(Order0(i)) -> "invalid"
                        [] ~Refused(Order0(i)) /\ (shelves[Shelf(i)] = NoFolder) = Order0(i).editing -> "refused"
                        [] OTHER -> "create")
    /\ UNCHANGED <<shelves, skillCatalog, mirror, events, watcher, histories>>
FolderMade(i) ==
    /\ libraryJobs[i].at = "create" /\ LibraryGoes(i, IF Order0(i).op = "save" THEN "open" ELSE "copy")
    /\ IF shelves[Shelf(i)] # NoFolder THEN UNCHANGED <<shelves, events>>
       ELSE /\ shelves' = [shelves EXCEPT ![Shelf(i)] = [file |-> NoFile, tmp |-> NoFile]]
            /\ Tells(<<Event("create", "folder")>>)
    /\ UNCHANGED <<skillCatalog, mirror, watcher, histories>>

\* fs::write of the temporary file, which all saves of a folder share.
Opened(shelf, name) == [shelf EXCEPT !.tmp = Half(name)]
OthersIn(f, i) == {j \in DOMAIN libraryJobs \ {i} : libraryJobs[j].at \in {"fill", "rename"} /\ Shelf(j) = f}
TmpOpened(i) ==
    /\ libraryJobs[i].at = "open"
    /\ IF shelves[Shelf(i)] = NoFolder THEN LibraryGoes(i, "io") /\ UNCHANGED <<shelves, events, halves>>
       ELSE /\ LibraryGoes(i, "fill") /\ Tells(<<Event("modify", "other")>>)
            /\ shelves' = [shelves EXCEPT ![Shelf(i)] = Opened(@, Order0(i).name)]
            /\ halves' = IF OthersIn(Shelf(i), i) = {} THEN halves ELSE halves \union {Shelf(i)}
    /\ UNCHANGED <<skillCatalog, mirror, watcher, readsKept, overtaken, movedWhole>>
\* The file that was opened may have been renamed meanwhile, or removed.
TmpFilled(i) ==
    LET f == Shelf(i)
        text == [name |-> Order0(i).name, text |-> Order0(i).text]
    IN  /\ libraryJobs[i].at = "fill" /\ LibraryGoes(i, "rename")
        /\ CASE shelves[f] # NoFolder /\ IsHalf(shelves[f].tmp) ->
                    shelves' = [shelves EXCEPT ![f].tmp = text] /\ Tells(<<Event("modify", "other")>>)
             [] shelves[f] # NoFolder /\ ~IsHalf(shelves[f].tmp) /\ IsHalf(shelves[f].file) ->
                    shelves' = [shelves EXCEPT ![f].file = text] /\ Tells(<<Event("modify", "skill")>>)
             [] OTHER -> UNCHANGED <<shelves, events>>
        /\ UNCHANGED <<skillCatalog, mirror, watcher, histories>>
TmpRenamed(i) ==
    LET f == Shelf(i)
    IN  /\ libraryJobs[i].at = "rename"
        /\ IF shelves[f] = NoFolder \/ (shelves[f] # NoFolder /\ shelves[f].tmp = NoFile)
           THEN LibraryGoes(i, "io") /\ UNCHANGED <<shelves, events>>
           ELSE /\ shelves' = [shelves EXCEPT ![f] = [file |-> @.tmp, tmp |-> NoFile]]
                /\ Tells(<<Event("modify", "skill")>>) /\ LibraryGoes(i, "load")
        /\ UNCHANGED <<skillCatalog, mirror, watcher, histories>>

\* copy_tree: SKILL.md grows where it will stay, then come the other files.
Copies(i, text, event, at) ==
    /\ IF shelves[Shelf(i)] = NoFolder THEN LibraryGoes(i, "io") /\ UNCHANGED <<shelves, events>>
       ELSE /\ shelves' = [shelves EXCEPT ![Shelf(i)].file = text] /\ Tells(<<event>>) /\ LibraryGoes(i, at)
    /\ halves' = halves \union {Shelf(i)}
    /\ UNCHANGED <<skillCatalog, mirror, watcher, readsKept, overtaken, movedWhole>>
SkillCopied(i) ==
    LET text == [name |-> Order0(i).name, text |-> Order0(i).text]
    IN  \/ libraryJobs[i].at = "copy" /\ Copies(i, Half(Order0(i).name), Event("create", "skill"), "rest")
        \/ libraryJobs[i].at = "rest" /\ Copies(i, text, Event("modify", "skill"), "files")
FilesCopied(i) ==
    /\ libraryJobs[i].at = "files"
    /\ IF shelves[Shelf(i)] = NoFolder THEN LibraryGoes(i, "io") /\ UNCHANGED events
       ELSE LibraryGoes(i, "load") /\ Tells(<<Event("create", "other")>>)
    /\ UNCHANGED <<shelves, skillCatalog, mirror, watcher, histories>>

\* delete_skill: the files, then the folder, which may not be empty any more.
FilesDeleted(i) ==
    LET f == Shelf(i)
    IN  /\ libraryJobs[i].at = "check" /\ Order0(i).op = "delete"
        /\ IF shelves[f] = NoFolder THEN LibraryGoes(i, "refused") /\ UNCHANGED <<shelves, events>>
           ELSE /\ shelves' = [shelves EXCEPT ![f] = [file |-> NoFile, tmp |-> NoFile]]
                /\ LibraryGoes(i, "folder")
                /\ IF HasSkill(shelves, f) THEN Tells(<<Event("remove", "skill")>>) ELSE UNCHANGED events
        /\ UNCHANGED <<skillCatalog, mirror, watcher, histories>>
FolderDeleted(i) ==
    LET f == Shelf(i)
    IN  /\ libraryJobs[i].at = "folder"
        /\ IF shelves[f] \in {NoFolder, [file |-> NoFile, tmp |-> NoFile]}
           THEN /\ shelves' = [shelves EXCEPT ![f] = NoFolder]
                /\ Tells(<<Event("remove", "folder")>>) /\ LibraryGoes(i, "load")
           ELSE LibraryGoes(i, "io") /\ UNCHANGED <<shelves, events>>
        /\ UNCHANGED <<skillCatalog, mirror, watcher, histories>>

\* The user's own hands: a file, a whole folder, or a file that is no skill.  What
\* somebody still writes into a folder that was moved away is lost.
UserPuts(i) ==
    /\ libraryJobs[i].at = "user" /\ Order0(i).op = "put" /\ LibraryGoes(i, "done")
    /\ shelves' = [shelves EXCEPT ![Shelf(i)] =
           [file |-> [name |-> Order0(i).name, text |-> Order0(i).text], tmp |-> NoFile]]
    /\ Tells(IF shelves[Shelf(i)] = NoFolder THEN <<Event("create", "folder"), Event("modify", "skill")>>
             ELSE <<Event("modify", "skill")>>)
    /\ UNCHANGED <<skillCatalog, mirror, watcher, histories>>
UserMoves(i) ==
    /\ libraryJobs[i].at = "user" /\ Order0(i).op = "move" /\ LibraryGoes(i, "done")
    /\ shelves[Shelf(i)] # NoFolder /\ shelves[Order0(i).to] = NoFolder
    /\ shelves' = [shelves EXCEPT ![Order0(i).to] = shelves[Shelf(i)], ![Shelf(i)] = NoFolder]
    /\ Tells(<<Event("modify", "folder")>>) /\ movedWhole' = TRUE
    /\ halves' = IF HasHalf(shelves[Shelf(i)]) THEN halves \union {Order0(i).to} ELSE halves
    /\ UNCHANGED <<skillCatalog, mirror, watcher, readsKept, overtaken>>
UserTouches(i) ==
    /\ libraryJobs[i].at = "user" /\ Order0(i).op = "touch" /\ LibraryGoes(i, "done")
    /\ Tells(<<Event("modify", "other")>>)
    /\ UNCHANGED <<shelves, skillCatalog, mirror, watcher, histories>>

\* DirWatcher: it takes the events until none comes for 200 ms, and reads the folders
\* if one of them was about a skill.  LastOneCounts is the mutant.
Touches(event) == \/ event.what = "skill"
                  \/ event.what = "folder" /\ event.kind # "modify"
LastOneCounts(before, burst) == Touches(Last(burst))
Changed(before, burst) == before \/ \E event \in ToSet(burst) : Touches(event)
EventsTaken ==
    /\ watcher.at \in {"idle", "burst"} /\ events # <<>> /\ events' = <<>>
    /\ watcher' = [watcher EXCEPT !.at = "burst", !.changed = Changed(@, events)]
    /\ UNCHANGED <<shelves, skillCatalog, mirror, libraryJobs, histories>>
BurstEnds ==
    /\ watcher.at = "burst" /\ events = <<>>
    /\ watcher' = [watcher EXCEPT !.at = IF watcher.changed THEN "load" ELSE "idle", !.changed = FALSE]
    /\ UNCHANGED <<shelves, skillCatalog, mirror, events, libraryJobs, histories>>
Watcher == 0
Begun(what, who) == readsKept' = [readsKept EXCEPT ![what] = Append(@, who)]
WatcherLoads ==
    /\ watcher.at = "load" /\ Begun("catalog", Watcher)
    /\ watcher' = [watcher EXCEPT !.at = "set", !.loaded = Loaded(shelves)]
    /\ UNCHANGED <<shelves, skillCatalog, mirror, events, libraryJobs, overtaken, halves, movedWhole>>

\* set_catalog and sync_skills keep what comes last, not what was read last.
Put(what, who) ==
    LET at == SelectInSeq(readsKept[what], LAMBDA other : other = who)
    IN  /\ overtaken' = (overtaken \/ at = 0)
        /\ readsKept' = [readsKept EXCEPT ![what] = SubSeq(@, at + 1, Len(@))]
WatcherSets ==
    LET sync == LibraryJob([op |-> "sync"], "read")
        free == {j \in DOMAIN libraryJobs : libraryJobs[j] = [sync EXCEPT !.at = "done"]}
    IN  /\ watcher.at = "set" /\ Cardinality({j \in DOMAIN libraryJobs : Order0(j).op = "sync"} \ free) < MaxSyncs
        /\ skillCatalog' = watcher.loaded /\ Put("catalog", Watcher)
        /\ watcher' = [watcher EXCEPT !.at = "idle", !.loaded = NoSkill]
        /\ libraryJobs' = IF free = {} THEN Append(libraryJobs, sync)
                          ELSE [libraryJobs EXCEPT ![Min(free)] = sync]
        /\ UNCHANGED <<shelves, mirror, events, halves, movedWhole>>

\* reload, and the task of the watcher from its second half on.
Reads(i, view, at) == libraryJobs' = [libraryJobs EXCEPT ![i].view = view, ![i].at = at]
FoldersRead(i) ==
    /\ libraryJobs[i].at = "load" /\ Reads(i, Loaded(shelves), "set") /\ Begun("catalog", i)
    /\ UNCHANGED <<shelves, skillCatalog, mirror, events, watcher, overtaken, halves, movedWhole>>
CatalogSet(i) ==
    /\ libraryJobs[i].at = "set" /\ skillCatalog' = libraryJobs[i].view /\ Put("catalog", i)
    /\ Reads(i, NoSkill, "read")
    /\ UNCHANGED <<shelves, mirror, events, watcher, halves, movedWhole>>
CatalogRead(i) ==
    /\ libraryJobs[i].at = "read" /\ Reads(i, skillCatalog, "sync") /\ Begun("mirror", i)
    /\ UNCHANGED <<shelves, skillCatalog, mirror, events, watcher, overtaken, halves, movedWhole>>
MirrorWritten(i) ==
    LET view == libraryJobs[i].view
    IN  /\ libraryJobs[i].at = "sync" /\ Reads(i, NoSkill, "done") /\ Put("mirror", i)
        /\ mirror' = [n \in SkillNames |-> IF view[n] = NoSkill THEN mirror[n] ELSE view[n].text]
        /\ UNCHANGED <<shelves, skillCatalog, events, watcher, halves, movedWhole>>

LibraryNext ==
    \/ \E i \in DOMAIN libraryJobs :
         \/ SkillChecked(i) \/ FolderMade(i) \/ TmpOpened(i) \/ TmpFilled(i) \/ TmpRenamed(i)
         \/ SkillCopied(i) \/ FilesCopied(i) \/ FilesDeleted(i) \/ FolderDeleted(i)
         \/ UserPuts(i) \/ UserMoves(i) \/ UserTouches(i)
         \/ FoldersRead(i) \/ CatalogSet(i) \/ CatalogRead(i) \/ MirrorWritten(i)
    \/ EventsTaken \/ BurstEnds \/ WatcherLoads \/ WatcherSets
LibrarySpec == LibraryInit /\ [][LibraryNext]_libraryVars

LibraryRests ==
    /\ events = <<>> /\ watcher.at = "idle"
    /\ \A i \in DOMAIN libraryJobs : libraryJobs[i].at \in {"done", "invalid", "refused", "io"}
\* Once everything is still, what the agents and the interface are shown is
\* what the folders hold, and the database agrees, however commands, edits by
\* hand and reloads overlapped; unless an old read was put over a newer one
\* (set_catalog and sync keep no order) or a whole folder was renamed.
CatalogCatchesUp ==
    LibraryRests /\ ~overtaken =>
        /\ movedWhole \/ skillCatalog = Loaded(shelves)
        /\ \A n \in SkillNames : skillCatalog[n] # NoSkill => mirror[n] = skillCatalog[n].text
\* "A escrita é atômica (arquivo temporário + rename): o hot-reload nunca lê
\* meio arquivo" (editor.rs:244): half a file is only ever shown of a folder
\* that an import wrote, or two saves at once, or that the user moved meanwhile.
HalvesAreNotSaves ==
    \A n \in SkillNames : skillCatalog[n] # NoSkill /\ skillCatalog[n].text = "half" => skillCatalog[n].dir \in halves

\* The library shows the folders: all of what they hold once the changes are
\* over, and before that nothing half written by a save (watch.rs, editor.rs).
LibraryIsSeen == CatalogCatchesUp /\ HalvesAreNotSaves
\* "Um SKILL.md, ou uma pasta inteira criada, removida ou renomeada"
\* (watch.rs:42): refuted, the rename of a folder is an event of kind modify.
FolderMovesAreSeen == LibraryRests /\ ~overtaken => skillCatalog = Loaded(shelves)
=============================================================================
