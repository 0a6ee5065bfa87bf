------------------------------- MODULE Native -------------------------------
(***************************************************************************)
(* What an agent that starts puts into its working directory (core,          *)
(* skill/materialize.rs): its folder agents/<handle>, and its skills in the  *)
(* folder of the runtime, which it shares with the other agents and with the *)
(* user.  A manifest says which handles own which of the skills; it is read  *)
(* at first and written at last, under a lock, and any access to the disk    *)
(* may fail or be the last of the process.  Contents of files are left out.  *)
(***************************************************************************)
EXTENDS Naturals, Sequences, SequencesExt, FiniteSetsExt

CONSTANTS
    Handles,
    Skills,
    NativeScenes,    \* the starts [agent, handle, skills] and the user's [folder]
    MaxFailures      \* bound: starts that do not come to their end

VARIABLES
    homes,       \* handle -> the agent of agents/<handle>/agent.json, or NoAgentHere
    folder,      \* skill -> "none", "ours" or "user": what is in skills.dir
    manifest,    \* skill -> the handles that own it; no owner, no entry
    starting,    \* the start that holds the lock, or 0
    nativeJobs,  \* per request: where it is, its owners in memory, what is left
    holds,       \* history: agent -> the skills of its last start
    bare,        \* history: folders the user made when no manifest listed them
    failures

nativeVars == <<homes, folder, manifest, starting, nativeJobs, holds, bare, failures>>

ASSUME NativeAssumption ==
    /\ IsFiniteSet(Skills)
    /\ \A scene \in NativeScenes : scene \in Seq(ToSet(scene)) /\ \A ask \in ToSet(scene) :
         \/ DOMAIN ask = {"folder"} /\ ask.folder \in Skills
         \/ /\ DOMAIN ask = {"agent", "handle", "skills"}
            /\ ask.handle \in Handles /\ ask.skills \in SUBSET Skills

NoAgentHere == "none"
Start0(request) == [ask |-> request, at |-> IF "folder" \in DOMAIN request THEN "user" ELSE "lock",
                    owned |-> [s \in Skills |-> {}], old |-> {}, todo |-> <<>>, placed |-> {}]
NativeInit ==
    /\ homes = [h \in Handles |-> NoAgentHere] /\ folder = [s \in Skills |-> "none"]
    /\ manifest = [s \in Skills |-> {}] /\ starting = 0 /\ bare = {} /\ failures = 0
    /\ \E scene \in NativeScenes :
         /\ nativeJobs = [i \in DOMAIN scene |-> Start0(scene[i])]
         /\ holds = [a \in {scene[i].agent : i \in {j \in DOMAIN scene : "agent" \in DOMAIN scene[j]}} |-> {}]

Begins(i) == nativeJobs[i].ask
NativeStep(i, job) == nativeJobs' = [nativeJobs EXCEPT ![i] = job]
NativeAt(i, at) == NativeStep(i, [nativeJobs[i] EXCEPT !.at = at])

\* LOCK, in memory.  NeverLocks is the mutant of HasToWait.
NeverLocks == FALSE
HasToWait == starting # 0
EntersLock(i) ==
    /\ nativeJobs[i].at = "lock" /\ ~HasToWait /\ starting' = i /\ NativeAt(i, "home")
    /\ holds' = [holds EXCEPT ![Begins(i).agent] = {}]
    /\ UNCHANGED <<homes, folder, manifest, bare, failures>>

\* remove_stale_agent_dirs: the folders of the handles it had before.
HomeWritten(i) ==
    LET mine == {h \in Handles \ {Begins(i).handle} : homes[h] = Begins(i).agent}
    IN  /\ nativeJobs[i].at = "home"
        /\ homes' = [h \in Handles |-> IF h \in mine THEN NoAgentHere
                                       ELSE IF h = Begins(i).handle THEN Begins(i).agent ELSE homes[h]]
        /\ NativeStep(i, [nativeJobs[i] EXCEPT !.at = "manifest", !.old = mine])
        /\ UNCHANGED <<folder, manifest, starting, holds, bare, failures>>

\* sync_native: it lets go of what it does not use any more.
Released(i) ==
    [s \in Skills |-> (manifest[s] \ nativeJobs[i].old)
                        \ (IF s \in Begins(i).skills THEN {} ELSE {Begins(i).handle})]
ManifestRead(i) ==
    /\ nativeJobs[i].at = "manifest"
    /\ NativeStep(i, [nativeJobs[i] EXCEPT !.at = "orphans", !.owned = Released(i),
           !.todo = SetToSeq({s \in Skills : manifest[s] # {} /\ Released(i)[s] = {}})])
    /\ UNCHANGED <<homes, folder, manifest, starting, holds, bare, failures>>
OrphanGone(i) ==
    /\ nativeJobs[i].at = "orphans" /\ nativeJobs[i].todo # <<>>
    /\ folder' = [folder EXCEPT ![Head(nativeJobs[i].todo)] = "none"]
    /\ NativeStep(i, [nativeJobs[i] EXCEPT !.todo = Tail(@)])
    /\ UNCHANGED <<homes, manifest, starting, holds, bare, failures>>
OrphansGone(i) ==
    /\ nativeJobs[i].at = "orphans" /\ nativeJobs[i].todo = <<>>
    /\ NativeStep(i, [nativeJobs[i] EXCEPT !.at = "skills", !.todo = SetToSeq(Begins(i).skills)])
    /\ UNCHANGED <<homes, folder, manifest, starting, holds, bare, failures>>

\* What is there and is not listed is not ours, and is left as it is.
Foreign(i, s) == folder[s] # "none" /\ nativeJobs[i].owned[s] = {}
SkillWritten(i) ==
    /\ nativeJobs[i].at = "skills" /\ nativeJobs[i].todo # <<>>
    /\ LET s == Head(nativeJobs[i].todo)
           next == [nativeJobs[i] EXCEPT !.todo = Tail(@)]
       IN  IF Foreign(i, s) THEN NativeStep(i, next) /\ UNCHANGED folder
           ELSE /\ folder' = [folder EXCEPT ![s] = "ours"]
                /\ NativeStep(i, [next EXCEPT !.owned[s] = @ \cup {Begins(i).handle}, !.placed = @ \cup {s}])
    /\ UNCHANGED <<homes, manifest, starting, holds, bare, failures>>
ManifestWritten(i) ==
    /\ nativeJobs[i].at = "skills" /\ nativeJobs[i].todo = <<>>
    /\ manifest' = nativeJobs[i].owned /\ starting' = 0 /\ NativeAt(i, "end")
    /\ holds' = [holds EXCEPT ![Begins(i).agent] = nativeJobs[i].placed]
    /\ UNCHANGED <<homes, folder, bare, failures>>

\* The disk fails, or the process ends: what was done stays.
StartFails(i) ==
    /\ failures < MaxFailures /\ nativeJobs[i].at \in {"home", "manifest", "orphans", "skills"}
    /\ failures' = failures + 1 /\ starting' = 0 /\ NativeAt(i, "end")
    /\ UNCHANGED <<homes, folder, manifest, holds, bare>>

\* The user puts a skill of his own where there is none.
UserWrites(i) ==
    /\ nativeJobs[i].at = "user"
    /\ LET s == Begins(i).folder
       IN  IF folder[s] # "none" THEN UNCHANGED <<folder, bare>>
           ELSE /\ folder' = [folder EXCEPT ![s] = "user"]
                /\ bare' = IF manifest[s] = {} THEN bare \cup {s} ELSE bare
    /\ NativeAt(i, "end") /\ UNCHANGED <<homes, manifest, starting, holds, failures>>

NativeNext == \E i \in DOMAIN nativeJobs :
    \/ EntersLock(i) \/ HomeWritten(i) \/ ManifestRead(i) \/ OrphanGone(i) \/ OrphansGone(i)
    \/ SkillWritten(i) \/ ManifestWritten(i) \/ StartFails(i) \/ UserWrites(i)
NativeSpec == NativeInit /\ [][NativeNext]_nativeVars

-----------------------------------------------------------------------------
(* A skill that an agent's last start put there is there until its next       *)
(* start, whoever starts, is renamed or lets go of it meanwhile: unless an    *)
(* agent took over a handle that this one had, or a start failed half-way.    *)
Rehandled == \E i, j \in DOMAIN nativeJobs :
    /\ "agent" \in DOMAIN Begins(i) /\ "agent" \in DOMAIN Begins(j)
    /\ Begins(i).handle = Begins(j).handle /\ Begins(i).agent # Begins(j).agent
WantedSkillsStay ==
    starting = 0 /\ failures = 0 /\ ~Rehandled =>
        \A a \in DOMAIN holds : \A s \in holds[a] : folder[s] = "ours"

(* A folder the user made while no manifest listed it is never touched, also *)
(* after starts that failed half-way.                                         *)
UserFoldersStay == \A s \in bare : folder[s] = "user"

(* The folders of skills that several agents and the user share: each keeps   *)
(* its own, whoever starts and ends (materialize.rs).                         *)
SkillFoldersStay == WantedSkillsStay /\ UserFoldersStay

(* materialize.rs:18: never is a skill overwritten that AISENSE did not       *)
(* write.  A folder of the user under a name the manifest lists is.           *)
NeverOverwritesAUsers ==
    [][\A s \in Skills : folder[s] = "user" => folder'[s] = "user"]_nativeVars
=============================================================================
