------------------------------ MODULE Settings ------------------------------
(***************************************************************************)
(* The preferences: one JSON file written aside and renamed (core,            *)
(* settings.rs), the copy a program holds, and the secrets whose names are in  *)
(* the file and whose values are in the keychain (app, commands/settings.rs). *)
(* The commands that change them run one at a time, on the main thread of a   *)
(* program; programs come one after the other, and each may die at any step.  *)
(* Of the form's own fields two are kept: the days messages are kept for, and *)
(* whether agents are started again.                                          *)
(***************************************************************************)
EXTENDS Integers

CONSTANTS
    SecretSlots,    \* runtime and variable of a secret
    SecretValues,
    ShownTeams,     \* the teams the user may have open
    RunningAgents,
    SettingsScenes  \* sets of operations of the user
NotSet == "not set"
\* No secret reads like the absence of one, or of a word about it.
ASSUME SecretValuesAssumption == NotSet \notin SecretValues /\ "?" \notin SecretValues

VARIABLES
    settingsScene,
    settingsFile,   \* [kind, json]: missing, unreadable or json
    settingsTmp,    \* the file beside it
    corrupt,        \* whether there is a settings.json.corrupt
    vault,          \* the keychain: slot -> value
    app,            \* the program: [at, current, form, next, doing, limits, warning, relaunched]
    answered,       \* history: the settings last answered, or loaded
    attempted,      \* history: those last begun to be saved
    secretTold      \* history: slot -> the value the user was told is kept; NotSet, that it
                    \* is gone; "?", when an operation on it is on its way or failed

settingsVars ==
    <<settingsScene, settingsFile, settingsTmp, corrupt, vault, app, answered, attempted,
      secretTold>>

Defaults == [days |-> 2, relaunch |-> FALSE, muted |-> FALSE, onboarding |-> FALSE,
             lastTeam |-> NotSet, running |-> {}, secrets |-> {}]
NoSettings == [kind |-> "missing", json |-> Defaults]
Unreadable == [kind |-> "unreadable", json |-> Defaults]
Json(settings) == [kind |-> "json", json |-> settings]
Off == [at |-> "off", current |-> Defaults, form |-> Defaults, next |-> Defaults,
        doing |-> <<"none">>, limits |-> 0, warning |-> FALSE, relaunched |-> {}]

SameSlot(r, q) == r.slot = q.slot
\* normalized: the numbers are brought into their range; of two secrets for one
\* variable the later, just pushed, is kept.
Normalized(s) == [s EXCEPT !.days = IF @ < 1 THEN 1 ELSE @]
Pushed(secrets, new) == {r \in secrets : ~SameSlot(r, new)} \union {new}

SettingsInit ==
    /\ settingsScene \in SettingsScenes
    /\ settingsFile = NoSettings /\ settingsTmp = NoSettings /\ corrupt = FALSE
    /\ vault = [s \in SecretSlots |-> NotSet] /\ app = Off
    /\ answered = Defaults /\ attempted = Defaults /\ secretTold = [s \in SecretSlots |-> NotSet]

\* ---- starting: main reads the file for the log's level, setup once more ----

Read(file) == Normalized(file.json)
\* load: what cannot be parsed is moved aside, and the defaults are used.
Loads(from, to, warned) ==
    /\ app.at = from
    /\ app' = [app EXCEPT !.at = to, !.current = Read(settingsFile), !.warning = warned]
    /\ IF settingsFile = Unreadable
       THEN settingsFile' = NoSettings /\ corrupt' = TRUE ELSE UNCHANGED <<settingsFile, corrupt>>
    /\ UNCHANGED <<settingsScene, settingsTmp, vault, answered, secretTold, attempted>>
LogStarts == Loads("off", "starting", FALSE)
HubStarts == Loads("starting", "loaded", settingsFile = Unreadable)
\* The bus gets its limits, and relaunch starts those that ran.
ServesSettings ==
    /\ app.at = "loaded"
    /\ app' = [app EXCEPT !.at = "up", !.limits = app.current.days, !.form = app.current,
                          !.relaunched = IF app.current.relaunch THEN app.current.running ELSE {}]
    /\ answered' = app.current /\ attempted' = app.current
    /\ UNCHANGED <<settingsScene, settingsFile, settingsTmp, corrupt, vault, secretTold>>

\* ---- the commands: what each makes of the settings the program holds ----

\* WholeForm is the mutant of FromForm.
WholeForm(current, form) == [form EXCEPT !.lastTeam = current.lastTeam]
\* settings_save: what is not the form's stays as the program has it.
FromForm(current, form) ==
    [form EXCEPT !.secrets = current.secrets, !.lastTeam = current.lastTeam, !.running = current.running]
Reset(current) == [Defaults EXCEPT !.secrets = current.secrets, !.onboarding = current.onboarding]

Updates(next, doing) ==
    /\ app.at = "up" /\ doing[1] \in settingsScene
    /\ app' = [app EXCEPT !.at = "write", !.next = Normalized(next), !.doing = doing]
    /\ attempted' = app'.next
    /\ UNCHANGED <<settingsScene, settingsFile, settingsTmp, corrupt, answered>>
OpensForm ==
    /\ app.at = "up" /\ "form" \in settingsScene /\ app' = [app EXCEPT !.form = app.current]
    /\ UNCHANGED <<settingsScene, settingsFile, settingsTmp, corrupt, vault, answered, secretTold, attempted>>
SettingsSave ==
    /\ \E days \in 0..2, relaunch \in BOOLEAN :
         Updates(FromForm(app.current, [app.form EXCEPT !.days = days, !.relaunch = relaunch]), <<"form">>)
    /\ UNCHANGED <<vault, secretTold>>
SettingsReset == Updates(Reset(app.current), <<"reset">>) /\ UNCHANGED <<vault, secretTold>>
OnboardingDone ==
    Updates([app.current EXCEPT !.onboarding = TRUE], <<"onboarding">>) /\ UNCHANGED <<vault, secretTold>>
LastTeam ==
    /\ \E t \in (ShownTeams \union {NotSet}) \ {app.current.lastTeam} :
         Updates([app.current EXCEPT !.lastTeam = t], <<"team">>)
    /\ UNCHANGED <<vault, secretTold>>
ToggleMute ==
    Updates([app.current EXCEPT !.muted = ~@], <<"mute">>) /\ UNCHANGED <<vault, secretTold>>
\* The value goes to the keychain first, which may refuse; then the name is kept.
SecretSet(slot, value) ==
    /\ Updates([app.current EXCEPT !.secrets = Pushed(@, [slot |-> slot, masked |-> value])],
               <<"secret", slot, value>>)
    /\ vault' = [vault EXCEPT ![slot] = value] /\ secretTold' = [secretTold EXCEPT ![slot] = "?"]
SecretDelete(slot) ==
    /\ Updates([app.current EXCEPT !.secrets = {r \in @ : r.slot # slot}], <<"forget", slot, NotSet>>)
    /\ vault' = [vault EXCEPT ![slot] = NotSet] /\ secretTold' = [secretTold EXCEPT ![slot] = "?"]
\* shutdown: who runs is remembered, then the program ends.
RememberRunning ==
    /\ \E running \in SUBSET RunningAgents :
         Updates([app.current EXCEPT !.running = running], <<"quit">>)
    /\ UNCHANGED <<vault, secretTold>>

\* ---- SettingsFile::save, then the hub ----

SaveGoes(at) == app' = [app EXCEPT !.at = at]
WritesTmp ==
    /\ app.at = "write" /\ settingsTmp' = Unreadable /\ SaveGoes("written")
    /\ UNCHANGED <<settingsScene, settingsFile, corrupt, vault, answered, secretTold, attempted>>
FillsTmp ==
    /\ app.at = "written" /\ settingsTmp' = Json(app.next) /\ SaveGoes("rename")
    /\ UNCHANGED <<settingsScene, settingsFile, corrupt, vault, answered, secretTold, attempted>>
Renames ==
    /\ app.at = "rename"
    /\ settingsFile' = settingsTmp /\ settingsTmp' = NoSettings /\ SaveGoes("answer")
    /\ UNCHANGED <<settingsScene, corrupt, vault, answered, secretTold, attempted>>
Applies ==
    /\ app.at = "answer"
    /\ app' = IF app.doing[1] = "quit" THEN Off
              ELSE [app EXCEPT !.at = "up", !.current = app.next,
                    !.limits = IF app.doing[1] = "team" THEN @ ELSE app.next.days]
    /\ answered' = app.next
    /\ secretTold' = IF app.doing[1] \in {"secret", "forget"}
                     THEN [secretTold EXCEPT ![app.doing[2]] = app.doing[3]] ELSE secretTold
    /\ UNCHANGED <<settingsScene, settingsFile, settingsTmp, corrupt, vault, attempted>>
\* A write or a rename that fails: the command answers the error.
SaveFails ==
    /\ app.at \in {"write", "written", "rename"}
    /\ app' = IF app.doing[1] = "quit" THEN Off ELSE [app EXCEPT !.at = "up"]
    /\ UNCHANGED <<settingsScene, settingsFile, settingsTmp, corrupt, vault, answered, secretTold, attempted>>

AppDies ==
    /\ app.at # "off" /\ app' = Off
    /\ UNCHANGED <<settingsScene, settingsFile, settingsTmp, corrupt, vault, answered, secretTold, attempted>>
\* The user edits the file with no program up, and leaves a comma out.
EditsByHand ==
    /\ app.at = "off" /\ "edit" \in settingsScene /\ settingsFile.kind = "json"
    /\ settingsFile' = Unreadable /\ answered' = Defaults /\ attempted' = Defaults
    /\ secretTold' = [s \in SecretSlots |-> "?"]
    /\ UNCHANGED <<settingsScene, settingsTmp, corrupt, vault, app>>

SettingsNext ==
    \/ LogStarts \/ HubStarts \/ ServesSettings \/ OpensForm
    \/ SettingsSave \/ SettingsReset \/ OnboardingDone \/ LastTeam \/ ToggleMute \/ RememberRunning
    \/ \E s \in SecretSlots : SecretDelete(s) \/ \E v \in SecretValues : SecretSet(s, v)
    \/ WritesTmp \/ FillsTmp \/ Renames \/ Applies \/ SaveFails \/ AppDies \/ EditsByHand
SettingsSpec == SettingsInit /\ [][SettingsNext]_settingsVars

\* ---- properties ----

\* "uma queda no meio da gravação nunca deixa meio JSON" (settings.rs:4):
\* whenever the program dies, the next one finds the settings last answered, or
\* those that were about to be.
RestartKeepsSettings ==
    "edit" \notin settingsScene =>
        settingsFile # Unreadable /\ Read(settingsFile) \in {answered, attempted}

\* secret_env: the variables the agents of a runtime get.
SecretEnv == {<<r.slot, vault[r.slot]>> : r \in {q \in app.current.secrets : vault[q.slot] # NotSet}}
\* "Os segredos ... não vêm do formulário: continuam os que o app já tem"
\* (commands/settings.rs:166): a secret the user was told is kept is given to the
\* agents and shown by its own mask, and one that was forgotten is not given,
\* through every form, reset and restart in between.
ToldSecretsAreGiven ==
    app.at = "up" =>
        \A s \in SecretSlots :
            /\ secretTold[s] \in SecretValues =>
                 /\ <<s, secretTold[s]>> \in SecretEnv
                 /\ \A r \in app.current.secrets : r.slot = s => r.masked = secretTold[s]
            /\ secretTold[s] = NotSet => \A v \in SecretValues : <<s, v>> \notin SecretEnv

\* What the user was told was kept, settings and secrets, is kept.
PreferencesHold == RestartKeepsSettings /\ ToldSecretsAreGiven

\* "O arquivo existia e não deu para ler" (settings.rs:462), for the user to be told.
\* Refuted: the load before it, for the log's level, has moved the file away.
WarningIsGiven == app.at = "up" /\ corrupt => app.warning
=============================================================================
