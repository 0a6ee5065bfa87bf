----------------------------- MODULE AgentLife -----------------------------
(***************************************************************************)
(* What the supervisor promises of one agent, without saying how: the      *)
(* agent is up or down, and it comes up only as a session that was never   *)
(* current before.  A late exit, a late screen reading or a late timer may *)
(* take it down, or change nothing; none of them brings it up again.       *)
(***************************************************************************)
CONSTANTS Sessions, NoSession

VARIABLES up,     \* does the agent count as running?
          current,\* the session it runs, or ran last
          used    \* the sessions that have been current

life == <<up, current, used>>

LifeInit == up = FALSE /\ current = NoSession /\ used = {}

\* A new session takes the place of the last one.
Rise(s) ==
    /\ s \notin used
    /\ up' = TRUE /\ current' = s /\ used' = used \cup {s}

\* The agent goes down; its last session stays the current one.
Fall == up /\ up' = FALSE /\ UNCHANGED <<current, used>>

LifeNext == Fall \/ \E s \in Sessions : Rise(s)

LifeSpec == LifeInit /\ [][LifeNext]_life
=============================================================================
