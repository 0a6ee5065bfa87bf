------------------------------ MODULE MCBoard ------------------------------
(* A small board for TLC: a ready column, an active one with a place per agent, *)
(* a blocked one, and a terminal one behind a gate.                             *)
EXTENDS Board, TLC

SmallKind == [todo |-> "ready", doing |-> "active", blocked |-> "blocked", done |-> "terminal"]
SmallPosition == [todo |-> 0, doing |-> 1, blocked |-> 2, done |-> 3]
OneAtWork == [todo |-> NoLimit, doing |-> 1, blocked |-> NoLimit, done |-> NoLimit]
OneInDoing == [todo |-> NoLimit, doing |-> 1, blocked |-> NoLimit, done |-> NoLimit]
Unlimited == [todo |-> NoLimit, doing |-> NoLimit, blocked |-> NoLimit, done |-> NoLimit]

Rule(when, column, action) == [when |-> when, column |-> column, action |-> action]

\* What every team is born with (automation.rs:186).
Defaults == <<Rule("enters", "doing", [do |-> "own"]), Rule("enters", "done", [do |-> "unblock"])>>
\* Rules that send a card round in circles (tests.rs:565), hand it to an agent, and
\* ask for a move the board refuses.
Circle == <<Rule("enters", "doing", [do |-> "own"]),
            Rule("enters", "doing", [do |-> "move", to |-> "todo"]),
            Rule("enters", "todo", [do |-> "move", to |-> "doing"]),
            Rule("leaves", "blocked", [do |-> "assign", who |-> CHOOSE a \in Agents : TRUE]),
            Rule("enters", "blocked", [do |-> "move", to |-> "done"])>>
TwoTeams == {Defaults, Circle}
==============================================================================
