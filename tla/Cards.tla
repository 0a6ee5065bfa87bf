-------------------------------- MODULE Cards --------------------------------
(***************************************************************************)
(* The edits of a card that Board leaves out (core, board/service.rs): what *)
(* update() writes and links, the checklist, links, comments and who is     *)
(* told of them, done() and approve() with a note, split().  As in Board a  *)
(* call awaits the database at every read and write, and the calls of       *)
(* several agents go on at the same time.                                   *)
(***************************************************************************)
EXTENDS Naturals, Sequences, SequencesExt, FiniteSetsExt, TLC

CONSTANTS
    CardIds,         \* the cards there may be, in the order split() creates them
    CardsAtFirst,    \* card -> its row, for those there are at first
    CardScenes,      \* the requests made at the same time, sequences of records
    Attempts         \* WRITE_ATTEMPTS

VARIABLES
    cardRow,     \* card -> its row, or Gone
    edges,       \* <<card, what it depends on>>
    comments,    \* card -> the requests whose comments it has, in order
    activity,    \* card -> the actions of its history, in order
    heard,       \* <<agent, request>>: told of the comment of the request
    fired,       \* card -> how often checklist_complete fired
    completed,   \* history: card -> how often a write completed its checklist
    raced,       \* history: two calls looked for a cycle at the same time
    edits        \* per request: where it is and what it has read

cardVars == <<cardRow, edges, comments, activity, heard, fired, completed, raced, edits>>

Gone == [version |-> 0]
NoOwner == "nobody"

\* A request is of somebody, about a card and cards there may be, and as the
\* call it is has its fields; a row there is at first has been written.
ASSUME CardsAssumption ==
    /\ CardIds \in Seq(ToSet(CardIds))
    /\ \A c \in DOMAIN CardsAtFirst : "version" \in DOMAIN CardsAtFirst[c] /\ CardsAtFirst[c].version \in Nat \ {0}
    /\ \A scene \in CardScenes : IsFiniteSet(DOMAIN scene) /\ \A i \in DOMAIN scene :
         /\ scene[i].does \in {"update", "check", "link", "comment", "done", "approve", "split"}
         /\ scene[i].card \in ToSet(CardIds) /\ scene[i].by # NoOwner
         /\ scene[i].does = "update" => scene[i].blockedBy \in Seq(ToSet(CardIds))

HereCard(c) == cardRow[c] # Gone
NewRow(by, parent) == [version |-> 1, owner |-> NoOwner, creator |-> by, labels |-> {}, items |-> <<>>,
                       links |-> {}, col |-> "ready", archived |-> FALSE, parent |-> parent]
BegunEdit(request) == [ask |-> request, at |-> "find", before |-> Gone, tries |-> 0,
                   adds |-> <<>>, drops |-> <<>>, earlier |-> {}, parts |-> 0, past |-> {}, result |-> "none"]

CardInit ==
    /\ cardRow = [c \in ToSet(CardIds) |-> IF c \in DOMAIN CardsAtFirst THEN CardsAtFirst[c] ELSE Gone]
    /\ edges = {} /\ heard = {} /\ raced = FALSE
    /\ comments = [c \in ToSet(CardIds) |-> <<>>] /\ activity = [c \in ToSet(CardIds) |-> <<>>]
    /\ fired = [c \in ToSet(CardIds) |-> 0] /\ completed = fired
    /\ \E scene \in CardScenes : edits = [i \in DOMAIN scene |-> BegunEdit(scene[i])]

CardAsk(i) == edits[i].ask
OnCard(i) == CardAsk(i).card
DoesTo(i, kinds) == CardAsk(i).does \in kinds
PutsEdit(i, job) == edits' = [edits EXCEPT ![i] = job]
CardGoes(i, at) == PutsEdit(i, [edits[i] EXCEPT !.at = at])
CardEnds(i, result) == PutsEdit(i, [edits[i] EXCEPT !.at = "end", !.result = result])
LogsCard(c, action) == activity' = [activity EXCEPT ![c] = Append(@, action)]

-----------------------------------------------------------------------------
(* Dependencies: the cycle is looked for among the rows of before            *)

Reaches(from, set) ==
    LET reach[n \in 0..Len(CardIds)] ==
          IF n = 0 THEN set
          ELSE reach[n - 1] \cup {d \in ToSet(CardIds) : \E c \in reach[n - 1] : <<c, d>> \in from}
    IN  reach[Len(CardIds)]
\* check_dependency.
Closes(from, task, on) == task \in Reaches(from, {on})

AddsEdges(i) == IF DoesTo(i, {"update"}) THEN CardAsk(i).blockedBy ELSE <<>>
Looking(i) == /\ edits[i].at \in {"read", "write", "record", "complete", "edges"} /\ AddsEdges(i) # <<>>
              /\ edits[i].at = "edges" => edits[i].adds # <<>>

FindCard(i) ==
    /\ edits[i].at = "find"
    /\ \/ /\ HereCard(OnCard(i))
          /\ PutsEdit(i, [edits[i] EXCEPT !.before = cardRow[OnCard(i)],
                !.at = CASE DoesTo(i, {"comment"}) -> "earlier" [] DoesTo(i, {"split"}) -> "split"
                         [] DoesTo(i, {"update"}) /\ AddsEdges(i) # <<>> -> "cycle" [] OTHER -> "read",
                !.past = {j \in DOMAIN edits : edits[j].at = "end"}])
       \/ ~HereCard(OnCard(i)) /\ CardEnds(i, "unknown")
    /\ UNCHANGED <<cardRow, edges, comments, activity, heard, fired, completed, raced>>

LookForCycle(i) ==
    /\ edits[i].at = "cycle"
    /\ IF \E on \in ToSet(AddsEdges(i)) : Closes(edges, OnCard(i), on)
       THEN CardEnds(i, "cycle") /\ UNCHANGED raced
       ELSE CardGoes(i, "read") /\ raced' = (raced \/ \E j \in DOMAIN edits \ {i} : Looking(j))
    /\ UNCHANGED <<cardRow, edges, comments, activity, heard, fired, completed>>

-----------------------------------------------------------------------------
(* update_with(): read, edit, write if nobody wrote in between               *)

EditRefused(i, row) ==
    \/ DoesTo(i, {"check"}) /\ CardAsk(i).index \notin DOMAIN row.items
    \/ DoesTo(i, {"done", "approve"}) /\ row.archived
EditOf(i, row) ==
    CASE DoesTo(i, {"update"}) ->
           [row EXCEPT !.owner = IF CardAsk(i).owner = "same" THEN @ ELSE CardAsk(i).owner,
                       !.labels = (@ \ CardAsk(i).removes) \cup CardAsk(i).labels,
                       !.items = @ \o [n \in 1..CardAsk(i).items |-> FALSE]]
      [] DoesTo(i, {"check"}) -> [row EXCEPT !.items[CardAsk(i).index] = CardAsk(i).done]
      [] DoesTo(i, {"link"}) -> [row EXCEPT !.links = @ \cup {CardAsk(i).target}]
      [] OTHER -> [row EXCEPT !.col = "done"]

AfterCard(i) ==
    PutsEdit(i, [edits[i] EXCEPT !.at = "edges", !.adds = AddsEdges(i),
                             !.drops = IF DoesTo(i, {"update"}) THEN CardAsk(i).unblock ELSE <<>>])
ReadCard(i) ==
    /\ edits[i].at = "read"
    /\ LET row == cardRow[OnCard(i)]
       IN  IF EditRefused(i, row) THEN CardEnds(i, "refused")
           ELSE IF EditOf(i, row) = row /\ ~DoesTo(i, {"approve"}) THEN AfterCard(i)
           ELSE PutsEdit(i, [edits[i] EXCEPT !.at = "write", !.before = row])
    /\ UNCHANGED <<cardRow, edges, comments, activity, heard, fired, completed, raced>>

Complete(row) == row.items # <<>> /\ \A n \in DOMAIN row.items : row.items[n]
AfterEdit(i) == [EditOf(i, edits[i].before) EXCEPT !.version = @ + 1]
WriteCard(i) ==
    /\ edits[i].at = "write"
    /\ LET now == cardRow[OnCard(i)]
       IN  IF now.version = edits[i].before.version
           THEN /\ cardRow' = [cardRow EXCEPT ![OnCard(i)] = AfterEdit(i)]
                /\ completed' = IF Complete(AfterEdit(i)) /\ ~Complete(now)
                                THEN [completed EXCEPT ![OnCard(i)] = @ + 1] ELSE completed
                /\ CardGoes(i, "record")
           ELSE /\ UNCHANGED <<cardRow, completed>>
                /\ IF edits[i].tries + 1 < Attempts
                   THEN PutsEdit(i, [edits[i] EXCEPT !.at = "read", !.tries = @ + 1])
                   ELSE CardEnds(i, "conflict")
    /\ UNCHANGED <<edges, comments, activity, heard, fired, raced>>

\* after_write()
RecordCard(i) ==
    /\ edits[i].at = "record" /\ LogsCard(OnCard(i), CardAsk(i).does) /\ CardGoes(i, "complete")
    /\ UNCHANGED <<cardRow, edges, comments, heard, fired, completed, raced>>
\* FiresWhenFull, its mutant, does not ask what it was before the write.
FiresWhenFull(i) == Complete(AfterEdit(i))
Fires(i) == Complete(AfterEdit(i)) /\ ~Complete(edits[i].before)
FireComplete(i) ==
    /\ edits[i].at = "complete" /\ AfterCard(i)
    /\ fired' = IF Fires(i) THEN [fired EXCEPT ![OnCard(i)] = @ + 1] ELSE fired
    /\ UNCHANGED <<cardRow, edges, comments, activity, heard, completed, raced>>

\* The dependencies of update(), one row at a time, and then the note.
LinkEdge(i) ==
    /\ edits[i].at = "edges" /\ edits[i].adds # <<>>
    /\ edges' = edges \cup {<<OnCard(i), Head(edits[i].adds)>>} /\ LogsCard(OnCard(i), "dependency")
    /\ PutsEdit(i, [edits[i] EXCEPT !.adds = Tail(@)])
    /\ UNCHANGED <<cardRow, comments, heard, fired, completed, raced>>
UnlinkEdge(i) ==
    /\ edits[i].at = "edges" /\ edits[i].adds = <<>> /\ edits[i].drops # <<>>
    /\ edges' = edges \ {<<OnCard(i), Head(edits[i].drops)>>} /\ LogsCard(OnCard(i), "dependency")
    /\ PutsEdit(i, [edits[i] EXCEPT !.drops = Tail(@)])
    /\ UNCHANGED <<cardRow, comments, heard, fired, completed, raced>>
EdgesDone(i) ==
    /\ edits[i].at = "edges" /\ edits[i].adds = <<>> /\ edits[i].drops = <<>>
    /\ IF DoesTo(i, {"done", "approve"}) /\ CardAsk(i).note
       THEN PutsEdit(i, [edits[i] EXCEPT !.at = "earlier", !.before = cardRow[OnCard(i)]])
       ELSE CardEnds(i, "done")
    /\ UNCHANGED <<cardRow, edges, comments, activity, heard, fired, completed, raced>>

-----------------------------------------------------------------------------
(* comment_at(): who has written so far is read, and later the row inserted  *)

ReadEarlier(i) ==
    /\ edits[i].at = "earlier"
    /\ PutsEdit(i, [edits[i] EXCEPT !.at = "comment",
                                !.earlier = {CardAsk(j).by : j \in ToSet(comments[OnCard(i)])}])
    /\ UNCHANGED <<cardRow, edges, comments, activity, heard, fired, completed, raced>>
InsertComment(i) ==
    /\ edits[i].at = "comment" /\ CardGoes(i, "tell")
    /\ comments' = [comments EXCEPT ![OnCard(i)] = Append(@, i)] /\ LogsCard(OnCard(i), "commented")
    /\ UNCHANGED <<cardRow, edges, heard, fired, completed, raced>>
\* The owner and the creator, and who wrote before.
Audience(i) == (edits[i].earlier \cup {edits[i].before.owner, edits[i].before.creator})
                 \ {NoOwner, CardAsk(i).by}
TellComment(i) ==
    /\ edits[i].at = "tell" /\ CardEnds(i, "done")
    /\ heard' = heard \cup {<<who, i>> : who \in Audience(i)}
    /\ UNCHANGED <<cardRow, edges, comments, activity, fired, completed, raced>>

\* split(): one add() after the other; what was added stays when one fails.
SplitOff(i) ==
    /\ edits[i].at = "split"
    /\ \/ edits[i].parts = CardAsk(i).parts /\ CardEnds(i, "done") /\ UNCHANGED <<cardRow, activity>>
       \/ /\ edits[i].parts < CardAsk(i).parts
          /\ \E c \in ToSet(CardIds) :
               /\ ~HereCard(c) /\ LogsCard(c, "created")
               /\ cardRow' = [cardRow EXCEPT ![c] = [NewRow(CardAsk(i).by, OnCard(i))
                                                      EXCEPT !.labels = cardRow[OnCard(i)].labels]]
          /\ PutsEdit(i, [edits[i] EXCEPT !.parts = @ + 1])
       \/ edits[i].parts < CardAsk(i).parts /\ CardEnds(i, "refused") /\ UNCHANGED <<cardRow, activity>>
    /\ UNCHANGED <<edges, comments, heard, fired, completed, raced>>

CardEdit(i) ==
    \/ FindCard(i) \/ LookForCycle(i) \/ ReadCard(i) \/ WriteCard(i) \/ RecordCard(i) \/ FireComplete(i)
    \/ LinkEdge(i) \/ UnlinkEdge(i) \/ EdgesDone(i)
    \/ ReadEarlier(i) \/ InsertComment(i) \/ TellComment(i) \/ SplitOff(i)
CardNext == \E i \in DOMAIN edits : CardEdit(i)
CardSpec == CardInit /\ [][CardNext]_cardVars

-----------------------------------------------------------------------------
(* However the writes of several agents interleave and are tried again, the  *)
(* automation of a finished checklist runs once for every time the list      *)
(* became finished: once per write that finished it, when that call is over. *)
CompletionFiresOnce ==
    \A c \in ToSet(CardIds) :
        completed[c] = fired[c] + Quantify(DOMAIN edits, LAMBDA i :
            OnCard(i) = c /\ edits[i].at \in {"record", "complete"}
                      /\ Complete(AfterEdit(i)) /\ ~Complete(edits[i].before))

(* The dependencies are without a cycle as long as no two calls look for one *)
(* at the same time: a cycle of any length is refused, also one closed by a  *)
(* call that adds several edges.                                             *)
OnlyARaceClosesACycle ==
    (\E c \in ToSet(CardIds) : \E d \in ToSet(CardIds) : <<c, d>> \in edges /\ c \in Reaches(edges, {d}))
        => raced

(* Ciclos de dependencia sao recusados na criacao (docs/13-quadro-kanban.md, *)
(* line 141): with no proviso.  The code looks first and adds later.         *)
NoDependencyCycle ==
    \A c \in ToSet(CardIds) : \A d \in ToSet(CardIds) : <<c, d>> \in edges => c \notin Reaches(edges, {d})

(* A comment reaches everybody whose own comment was there when the call     *)
(* began, whatever was written meanwhile.                                    *)
CommentReachesItsPeople ==
    \A i \in DOMAIN edits : \A j \in edits[i].past :
        (/\ edits[i].result = "done" /\ i \in ToSet(comments[OnCard(i)])
         /\ OnCard(j) = OnCard(i) /\ j \in ToSet(comments[OnCard(j)]) /\ CardAsk(j).by # CardAsk(i).by)
            => <<CardAsk(j).by, i>> \in heard

(* What the calls on one card owe each other, in any interleaving of their   *)
(* reads and writes: automations, dependencies and people told.              *)
CardCallsHold == CompletionFiresOnce /\ OnlyARaceClosesACycle /\ CommentReachesItsPeople

=============================================================================
