------------------------------- MODULE MCDesk -------------------------------
(* Instances of the parts of the program that share nothing with each other: *)
(* each behaviour picks one of them, and the others stay as they begin.      *)
EXTENDS Team, Proposals, Cards, BoardSetup, Notes, Native, Library, Bench, Ipc,
        Upgrade, Transcript, Settings, Runtimes

\* Team: calls on a team of two, alone and overlapping.
MCOrder == <<"a", "b">>
Ask(op) == [op |-> op, agent |-> "a"]
MCTeamScenes == {<<>>, <<Ask("archive")>>, <<Ask("restart"), Ask("start")>>,
    <<Ask("archive"), Ask("restart")>>, <<Ask("delete"), Ask("start")>>,
    <<Ask("retire"), Ask("delete")>>, <<Ask("stop"), Ask("restart")>>,
    <<Ask("retire"), Ask("restart")>>, <<Ask("delete"), Ask("restart")>>}

\* Proposals: decisions, creations and edits of agents, alone and overlapping.
MCFounders == <<"dev", "rev">>
Proposes(action)     == [does |-> "propose", of |-> 1, action |-> action]
Decision(of, accept) == [does |-> "decide", of |-> of, accept |-> accept]
Creation == Proposes([kind |-> "create", handle |-> <<"dev", 2>>])
Autonomy == Proposes([kind |-> "autonomy", handle |-> <<"rev", 0>>, to |-> "free"])
Columns  == Proposes([kind |-> "columns"])
Editing  == [does |-> "edit", of |-> 2]
Copying  == [does |-> "duplicate", of |-> 1]
Sorting  == [does |-> "reorder", order |-> <<2, 1>>]
Removal  == [does |-> "remove", of |-> 2]
MCProposalScenes == {<<>>, <<Creation, Decision(1, TRUE), Decision(1, TRUE), Copying>>,
    <<Autonomy, Decision(1, TRUE), Decision(1, FALSE), Editing>>,
    <<Autonomy, Decision(1, TRUE), Removal, Sorting>>,
    <<Columns, Decision(1, TRUE), Decision(1, FALSE), [Removal EXCEPT !.of = 1]>>,
    <<Creation, Creation, Decision(1, TRUE), Decision(2, TRUE)>>,
    <<Copying, Copying, Editing, Sorting>>}

\* Cards: two or three agents at the same card, and the edges that close a cycle.
MCCardIds == <<"c", "d", "e", "f">>
MCCardsAtFirst == "c" :> [NewRow("x", "none") EXCEPT !.owner = "y", !.items = <<FALSE, FALSE>>]
                  @@ "d" :> [NewRow("x", "none") EXCEPT !.items = <<TRUE>>]
                  @@ "e" :> NewRow("y", "none")
Updating(by, c, fields) == fields @@ [does |-> "update", by |-> by, card |-> c, owner |-> "same",
    labels |-> {}, removes |-> {}, items |-> 0, blockedBy |-> <<>>, unblock |-> <<>>]
Blocked(by, c, on) == Updating(by, c, [blockedBy |-> on])
Checking(by, index, done) ==
    [does |-> "check", by |-> by, card |-> "c", index |-> index, done |-> done]
Commenting(by) == [does |-> "comment", by |-> by, card |-> "c"]
Finishing(does, by) == [does |-> does, by |-> by, card |-> "c", note |-> TRUE]
Linking(by) == [does |-> "link", by |-> by, card |-> "c", target |-> "pr"]
Splitting == [does |-> "split", by |-> "x", card |-> "c", parts |-> 1]
MCCardScenes == {<<>>,
    <<Checking("x", 1, TRUE), Checking("y", 2, TRUE), Updating("x", "c", [items |-> 1])>>,
    <<Checking("x", 1, TRUE), Checking("y", 2, TRUE), Checking("z", 2, TRUE)>>,
    <<Checking("x", 1, TRUE), Checking("y", 2, TRUE), Linking("z")>>,
    <<Checking("x", 1, TRUE), Checking("y", 2, TRUE), Checking("y", 2, FALSE)>>,
    <<Checking("x", 3, TRUE), Linking("y"), Updating("z", "c", [labels |-> {"l"}, owner |-> "z"])>>,
    <<Blocked("x", "c", <<"d">>), Blocked("y", "d", <<"c">>)>>,
    <<Blocked("x", "c", <<"d">>), Blocked("y", "d", <<"e">>), Blocked("z", "e", <<"c">>)>>,
    <<Blocked("x", "c", <<"d", "e">>), Updating("y", "c", [unblock |-> <<"e">>, owner |-> "z"])>>,
    <<Commenting("z"), Commenting("x"), Commenting("w")>>,
    <<Commenting("z"), Finishing("done", "y"), Updating("x", "c", [owner |-> "nobody"])>>,
    <<Finishing("approve", "z"), Finishing("done", "y"), Commenting("x")>>,
    <<Splitting, Splitting, Updating("x", "c", [labels |-> {"l"}])>>}

\* BoardSetup: columns and rules saved while cards move and the timer ticks.
Column(id, slug) == [id |-> id, slug |-> slug]
MCBoardColumns == <<Column(1, "todo"), Column(2, "doing"), Column(3, "done")>>
RuleOf(when, column, move, create) ==
    [when |-> when, column |-> column, move |-> move, create |-> create]
Stands(column) == RuleOf("stale", column, "-", "-")
MCBoardRules ==
    <<Stands("doing"), RuleOf("enters", "doing", "done", "-"), RuleOf("created", "-", "-", "todo")>>
MCBoardCards == [c |-> 2, d |-> 1]

SaveColumns(drafts, moves) == [does |-> "columns", drafts |-> drafts, moves |-> moves]
Renaming == SaveColumns(<<Column(1, "todo"), Column(2, "work"), Column(3, "done")>>, {})
RenamesTodo == SaveColumns(<<Column(1, "open"), Column(2, "doing"), Column(3, "done")>>, {})
Removing == SaveColumns(<<Column(1, "todo"), Column(3, "done")>>, {<<"doing", "todo">>})
Swapping == SaveColumns(<<Column(1, "todo"), Column(4, "doing"), Column(3, "done")>>, {})
SetRules(new) == [does |-> "rules", rules |-> new]
Moving(card, slug) == [does |-> "move", card |-> card, slug |-> slug]
Ticking == [does |-> "tick"]
MCSetupScenes == {<<>>, <<Renaming, Moving("d", "doing"), Ticking>>,
    <<Removing, Moving("d", "doing"), Ticking>>,
    <<Swapping, Moving("c", "todo"), Moving("d", "doing")>>,
    <<Renaming, SetRules(<<Stands("work")>>), Removing>>,
    <<Ticking, Ticking, Moving("c", "todo"), Moving("c", "doing")>>,
    <<SetRules(<<RuleOf("stale", "doing", "todo", "-")>>), Ticking, Ticking>>,
    <<RenamesTodo, Ticking>>}

\* Notes: overlapping writes, appends and deletions of one note and of a new one.
MCNotesAtFirst == [plan |-> <<0>>, api |-> <<>>]
Appending(slug) == [does |-> "append", slug |-> slug]
WritingNote(slug, reads, blocks) ==
    [does |-> "write", slug |-> slug, reads |-> reads, blocks |-> blocks]
DeletingNote(slug) == [does |-> "delete", slug |-> slug]
MCNoteScenes == {<<>>,
  <<WritingNote("plan", TRUE, <<0>>), WritingNote("plan", TRUE, <<0>>),
    WritingNote("plan", TRUE, <<2, 0>>)>>,
  <<Appending("plan"), WritingNote("plan", TRUE, <<2>>), WritingNote("plan", TRUE, <<0>>)>>,
  <<Appending("plan"), WritingNote("plan", TRUE, <<2>>), DeletingNote("plan"), Appending("plan")>>,
  <<WritingNote("api", FALSE, <<1>>), WritingNote("api", FALSE, <<2>>), Appending("api"),
    DeletingNote("plan")>>,
  <<DeletingNote("plan"), WritingNote("plan", FALSE, <<2>>), Appending("plan"),
    WritingNote("plan", TRUE, <<0, 0>>)>>}

\* Native: starts of agents in one folder, and a user who puts a skill there.
Begin(agent, handle, skills) == [agent |-> agent, handle |-> handle, skills |-> skills]
UserPutsSkill(folder0) == [folder |-> folder0]
MCNativeScenes == {<<>>,
  <<Begin("p", "x", {"s"}), Begin("q", "y", {"s"}), Begin("p", "x", {}), UserPutsSkill("t")>>,
  <<Begin("p", "x", {"s", "t"}), UserPutsSkill("s"), Begin("p", "z", {"t"}),
    Begin("q", "y", {"s"})>>,
  <<Begin("p", "x", {"s"}), UserPutsSkill("s"), Begin("p", "x", {}), Begin("p", "x", {"s"})>>,
  <<Begin("p", "x", {"s"}), Begin("p", "y", {"s"}), Begin("q", "x", {"t"})>>}

\* Library: two saves, a save and a deletion, and changes made outside the program.
LibFolders == <<"a", "b", "c">>
LibNames == {"a", "b"}
LibBuiltin == {"b"}
LibFirst == [f \in {"a", "b", "c"} |->
    IF f = "a" THEN [file |-> [name |-> "a", text |-> "0"], tmp |-> NoFile] ELSE NoFolder]
SkillSaved(f, text, editing) ==
    [op |-> "save", name |-> f, folder |-> f, text |-> text, editing |-> editing]
SkillImported(f, text) ==
    [op |-> "import", name |-> f, folder |-> f, text |-> text, editing |-> FALSE]
SkillDeleted(f) == [op |-> "delete", folder |-> f]
SkillPut(f, name, text) == [op |-> "put", folder |-> f, name |-> name, text |-> text]
SkillTouched == [op |-> "touch"]
SkillMoved(f, to) == [op |-> "move", folder |-> f, to |-> to]
LibraryTales == {<<>>,
   <<SkillSaved("a", "1", TRUE), SkillSaved("a", "2", TRUE)>>,
   <<SkillSaved("a", "1", TRUE), SkillDeleted("a")>>,
   <<SkillSaved("b", "1", FALSE), SkillPut("b", "a", "2")>>,
   <<SkillImported("b", "1"), SkillTouched>>,
   <<SkillImported("b", "1"), SkillDeleted("b")>>,
   <<SkillPut("b", "b", "2"), SkillTouched>>,
   <<SkillMoved("a", "b"), SkillTouched>>,
   <<SkillImported("b", "1"), SkillMoved("b", "c")>>}

\* Bench: what surrounds a project, and the life of the folders of two agents.
BenchOp(op, b) == [op |-> op, bench |-> b]
Setting(mode, git, repo, onBranch, setup) ==
    [mode |-> mode, git |-> git, repo |-> repo, base |-> onBranch, setup |-> setup]
BenchSettings == {
    Setting("shared", "new", TRUE, TRUE, TRUE), Setting("per-agent", "old", TRUE, TRUE, TRUE),
    Setting("per-agent", "new", FALSE, TRUE, TRUE), Setting("per-agent", "new", TRUE, FALSE, TRUE),
    Setting("per-agent", "new", TRUE, TRUE, TRUE), Setting("per-agent", "new", TRUE, TRUE, FALSE) }
BenchTales == {<<>>,
  <<BenchOp("start", "x"), BenchOp("edit", "x"), BenchOp("remove", "x"), BenchOp("start", "x")>>,
  <<BenchOp("start", "x"), BenchOp("edit", "x"), BenchOp("base", "y"), BenchOp("sync", "x"),
    BenchOp("publish", "x")>>,
  <<BenchOp("start", "x"), BenchOp("start", "y"), BenchOp("vanish", "x"), BenchOp("start", "x")>>}

\* Ipc: clients that keep their connection or not, and what they ask.
IpcClient(t, keeps, asked) == [token |-> t, keeps |-> keeps, calls |-> asked]
IpcTales == {<<>>, <<IpcClient("t1", TRUE, <<"drain", "op", "op">>)>>,
              <<IpcClient("t1", FALSE, <<"op", "op">>), IpcClient("t2", TRUE, <<"broken", "op">>)>>,
              <<IpcClient("t1", TRUE, <<"hello", "large", "op">>)>> }

\* Upgrade: programs one after the other, the migrations each knows and the one that fails.
Program(knows, breaks) == [knows |-> knows, breaks |-> breaks]
UpgradeTales ==
    {<<>>, <<Program(1, 0), Program(3, 3), Program(3, 0)>>,
     <<Program(2, 0), Program(3, 3), Program(3, 3), Program(3, 3), Program(3, 0)>>,
     <<Program(3, 2), Program(2, 0), Program(3, 3), Program(2, 0), Program(3, 0)>>,
     <<Program(3, 0), Program(2, 0)>>}

\* Transcript: outputs of one or three sessions, cut and read at every size.
Scene0(outputs, limit, view, chunk) ==
    [outputs |-> outputs, limit |-> limit, view |-> view, chunk |-> chunk]
Writings ==
    {<<"x", "U1", "U2", "LF">>, <<"U1", "x", "U2">>, <<"x", "CR", "LF", "y", "U1">>,
     <<"x", "y", "CR", "x", "CR", "LF">>, <<"x", "BS", "BS", " ", "LF", "y">>,
     <<"ESC", "[", "U1", "U2", "x", "y">>, <<"ESC", "]", "y", "ESC", "\\", "x">>,
     <<"ESC", "]", "ESC", "x", "BEL", "y">>, <<"x", "ESC", "(", "y", "y", "LF", "x">>,
     <<"BEL", "U1", "CR", "x", "LF", "LF">>}
LogTales ==
    {Scene0(<<w>>, 20, v, c) : w \in Writings, v \in {3, 20}, c \in 1..2}
    \union {Scene0(<<<<"x", "LF">>, <<"y", "U1", "U2">>, <<"x">>>>, l, 20, 2) : l \in {3, 5, 20}}

\* Settings: the calls of the panel and of the tray.
PreferenceTales ==
    {{}, {"form", "secret", "forget"}, {"secret", "reset", "edit"},
     {"form", "mute"}, {"form", "team"}, {"onboarding", "reset", "form"}, {"reset", "team", "quit"}}

\* Runtimes: adapters saved, calibrated and removed under starts and overviews;
\* "b" is an adapter of the user's alone.
AdapterOf(command, r) == [command |-> command, rules |-> r]
BuiltinsOfScene == [id \in AdapterIds |-> IF id = "a" THEN AdapterOf("one", "r0") ELSE NoAdapter]
RuntimeTales ==
    LET saved(command, r) == [op |-> "save", id |-> "a", spec |-> AdapterOf(command, r)]
        calibrated(r) == [op |-> "calibrate", id |-> "a", rules |-> r]
        started == [op |-> "start", id |-> "a"]
        removed == [op |-> "save", id |-> "a", spec |-> NoAdapter]
        onlyOwn(spec) == [op |-> "save", id |-> "b", spec |-> spec]
        overview(refresh) == [op |-> "overview", id |-> "a", refresh |-> refresh]
    IN  {<<>>, <<saved("two", "r1"), calibrated("r2"), started, removed>>,
         <<calibrated("r1"), calibrated("r2"), started>>,
         <<saved("two", "r0"), removed, overview(FALSE), overview(TRUE), overview(FALSE)>>,
         <<onlyOwn(AdapterOf("two", "r1")), overview(FALSE), onlyOwn(NoAdapter), overview(FALSE)>>}

-----------------------------------------------------------------------------
(* One part plays, the others are at rest                                    *)

VARIABLE playing
deskVars == <<playing, teamVars, proposalVars, cardVars, setupVars, noteVars, nativeVars, libraryVars,
              benchVars, ipcVars, upgradeVars, transcriptVars, settingsVars, runtimesVars>>
Parts == {"team", "proposals", "cards", "setup", "notes", "native", "library", "bench", "ipc",
          "upgrade", "transcript", "settings", "runtimes"}
Rests(part) == playing # part
TeamRests == calls = <<>> /\ \A a \in Agents : ~Up(a)
BenchRests == /\ benchJobs = <<>> /\ \A b \in Benches : folders[b] = "none"
              /\ around = CHOOSE s \in Surroundings : TRUE

DeskInit ==
    /\ playing \in Parts
    /\ TeamInit       /\ (Rests("team") => TeamRests)
    /\ ProposalInit   /\ (Rests("proposals") => proposalJobs = <<>>)
    /\ CardInit       /\ (Rests("cards") => edits = <<>>)
    /\ SetupInit      /\ (Rests("setup") => setups = <<>>)
    /\ NoteInit       /\ (Rests("notes") => noteJobs = <<>>)
    /\ NativeInit     /\ (Rests("native") => nativeJobs = <<>>)
    /\ LibraryInit    /\ (Rests("library") => libraryJobs = <<>>)
    /\ BenchInit      /\ (Rests("bench") => BenchRests)
    /\ IpcInit        /\ (Rests("ipc") => clients = <<>>)
    /\ UpgradeInit    /\ (Rests("upgrade") => starts = <<>>)
    /\ TranscriptInit /\ (Rests("transcript") => tale = CHOOSE t \in Tales : TRUE)
    /\ SettingsInit   /\ (Rests("settings") => settingsScene = {})
    /\ RuntimesInit   /\ (Rests("runtimes") => runtimeJobs = <<>>)

\* The steps of one part, which leave every other part as it is.
Others(part) ==
    /\ playing = part /\ playing' = playing
    /\ part # "team" => UNCHANGED teamVars
    /\ part # "proposals" => UNCHANGED proposalVars
    /\ part # "cards" => UNCHANGED cardVars
    /\ part # "setup" => UNCHANGED setupVars
    /\ part # "notes" => UNCHANGED noteVars
    /\ part # "native" => UNCHANGED nativeVars
    /\ part # "library" => UNCHANGED libraryVars
    /\ part # "bench" => UNCHANGED benchVars
    /\ part # "ipc" => UNCHANGED ipcVars
    /\ part # "upgrade" => UNCHANGED upgradeVars
    /\ part # "transcript" => UNCHANGED transcriptVars
    /\ part # "settings" => UNCHANGED settingsVars
    /\ part # "runtimes" => UNCHANGED runtimesVars
DeskNext ==
    \/ Others("team") /\ TeamNext
    \/ Others("proposals") /\ ProposalNext
    \/ Others("cards") /\ CardNext
    \/ Others("setup") /\ SetupNext
    \/ Others("notes") /\ NoteNext
    \/ Others("native") /\ NativeNext
    \/ Others("library") /\ LibraryNext
    \/ Others("bench") /\ BenchNext
    \/ Others("ipc") /\ IpcNext
    \/ Others("upgrade") /\ UpgradeNext
    \/ Others("transcript") /\ TranscriptNext
    \/ Others("settings") /\ SettingsNext
    \/ Others("runtimes") /\ RuntimesNext
DeskSpec == DeskInit /\ [][DeskNext]_deskVars
\* The behaviours of the upgrade alone, for a claim about it.
UpgradeAlone == (DeskInit /\ playing = "upgrade") /\ [][DeskNext]_deskVars
=============================================================================
