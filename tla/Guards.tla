------------------------------- MODULE Guards -------------------------------
(***************************************************************************)
(* GuardState (aisense-core/src/bus/guards.rs): the anti-loop guards of    *)
(* the messages of agents.  One mutex is held by each operation, which     *)
(* reads the clock while it holds it.  The text of a message is a member   *)
(* of Bodies: two texts that differ only in blanks are the same member.    *)
(***************************************************************************)
EXTENDS Integers, Sequences, FiniteSets, SequencesExt, Sift

CONSTANTS
    Teams, Agents,
    Home,                \* the team of an agent
    Bodies,
    Configs,             \* limits that the settings may choose
    Minute, RepeatWindow, Hour,
    None

ASSUME GuardsAssumption ==
    /\ Home \in [Agents -> Teams]
    /\ Configs \subseteq [rate: Nat, identical: Nat, budget: Nat, depth: Nat]
    /\ Minute \in Nat /\ RepeatWindow \in Nat /\ Hour \in Nat
    /\ Minute < RepeatWindow /\ RepeatWindow < Hour
    /\ None \notin {"rate", "repeated", "budget"}

VARIABLES
    now, config,
    per_agent, per_team,        \* times of the messages that passed
    repeats,                    \* of an agent: its last message, how often, when
    paused, announced, announced_pause

guards == <<config, per_agent, per_team, repeats, paused, announced, announced_pause>>

NoRepeat == [key |-> None, n |-> 0, last |-> 0]
GuardsInit ==
    /\ now = 0 /\ config \in Configs
    /\ per_agent = [a \in Agents |-> <<>>] /\ per_team = [t \in Teams |-> <<>>]
    /\ repeats = [a \in Agents |-> NoRepeat]
    /\ paused = {} /\ announced = [a \in Agents |-> None] /\ announced_pause = {}

\* What a window of the given length still holds of a log.
Within(log, window) == Sifted(log, {t \in Nat : now - t < window})

Repeated(a, key) ==
    IF repeats[a].key = key /\ now - repeats[a].last < RepeatWindow THEN repeats[a].n ELSE 0

\* admit: the first guard that refuses.  ForgetfulVerdict is its mutant, which
\* looks at the rate alone.
ForgetfulVerdict(a, key) ==
    IF Home[a] \in paused THEN "budget"
    ELSE IF Len(Within(per_agent[a], Minute)) >= config.rate THEN "rate" ELSE "pass"
Verdict(a, key) ==
    IF Home[a] \in paused THEN "budget"
    ELSE IF Len(Within(per_agent[a], Minute)) >= config.rate THEN "rate"
    ELSE IF Repeated(a, key) >= config.identical THEN "repeated"
    ELSE IF Len(Within(per_team[Home[a]], Hour)) >= config.budget THEN "budget"
    ELSE "pass"

\* Counts a message that passes; any other message of the agent ends a repetition.
Count(a, key) ==
    /\ per_agent' = [per_agent EXCEPT ![a] = Append(Within(@, Minute), now)]
    /\ per_team' = [per_team EXCEPT ![Home[a]] = Append(Within(@, Hour), now)]
    /\ repeats' = [repeats EXCEPT ![a] = [key |-> key, n |-> Repeated(a, key) + 1, last |-> now]]
    /\ announced' = [announced EXCEPT ![a] = None]
    /\ UNCHANGED <<config, paused, announced_pause>>

\* A budget that is used up pauses the team.
Refuse(a, key) ==
    /\ paused' = IF Verdict(a, key) = "budget" THEN paused \cup {Home[a]} ELSE paused
    /\ per_agent' = IF Home[a] \in paused THEN per_agent
                    ELSE [per_agent EXCEPT ![a] = Within(@, Minute)]
    /\ per_team' = IF Verdict(a, key) = "budget" /\ Home[a] \notin paused
                   THEN [per_team EXCEPT ![Home[a]] = Within(@, Hour)] ELSE per_team
    /\ UNCHANGED <<config, repeats, announced, announced_pause>>

\* resume: a person lets the team go on.  The blocks announced to the agents of
\* every team are forgotten.
Resume(t) ==
    /\ paused' = paused \ {t} /\ per_team' = [per_team EXCEPT ![t] = <<>>]
    /\ announced' = [a \in Agents |-> None] /\ announced_pause' = announced_pause \ {t}
    /\ UNCHANGED <<config, per_agent, repeats>>

\* set_config: what was counted stays.
SetConfig(c) == config' = c /\ UNCHANGED <<per_agent, per_team, repeats, paused,
                                            announced, announced_pause>>

\* first_block: a person is told of the first block of an agent's episode, and
\* of the first of a pause.
IsFirst(a, reason) ==
    IF reason = "budget" THEN Home[a] \notin announced_pause ELSE announced[a] # reason
FirstBlock(a, reason) ==
    /\ IF reason = "budget"
       THEN announced_pause' = announced_pause \cup {Home[a]} /\ UNCHANGED announced
       ELSE announced' = [announced EXCEPT ![a] = reason] /\ UNCHANGED announced_pause
    /\ UNCHANGED <<config, per_agent, per_team, repeats, paused>>
=============================================================================
