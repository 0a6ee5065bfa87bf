------------------------------ MODULE BoardSetup ------------------------------
(***************************************************************************)
(* The columns and the automations of a board (core, board/service.rs and   *)
(* board/automation.rs): save_columns() and set_automations(), while cards   *)
(* move and tick() looks for cards that stand still.  Every operation reads  *)
(* the board and its columns at first and works with what it read; columns   *)
(* and automations are two writes, and the process may end between them.     *)
(* Names, limits and gates of columns, and the text of rules, are left out.  *)
(***************************************************************************)
EXTENDS Naturals, Sequences, SequencesExt, FiniteSetsExt, Sift

CONSTANTS
    BoardColumns,    \* the columns at first: <<[id, slug], ...>>
    BoardRules,      \* the automations at first: <<[when, column, move, create], ...>>
    BoardCards,      \* card -> the id of the column it starts in
    SetupScenes,     \* the requests made at the same time
    MaxCrashes       \* bound: how often the process ends

VARIABLES
    columns,     \* the rows of board_columns, in order
    rules,       \* boards.automations
    placed,      \* card -> [column, since]
    waited,      \* the cards that stand still for longer than after_h
    staleFired,  \* <<card, since, index>>: stale_fired, in memory
    setups,      \* per request: where it is and what it has read
    stalls,      \* history: <<card, since, rule>> -> how often its actions ran
    edition,     \* history: how often the rules were written
    overlapped,  \* history: two calls that write columns or rules overlapped
    crashes

setupVars == <<columns, rules, placed, waited, staleFired, setups, stalls, edition, overlapped, crashes>>

NoSlug == "-"
SlugsOf(cols) == {cols[n].slug : n \in DOMAIN cols}
IdsOf(cols) == {cols[n].id : n \in DOMAIN cols}
BySlug(cols, slug) == CHOOSE c \in ToSet(cols) : c.slug = slug

\* validate(): what a rule names has to be there.
Valid(rule, slugs) ==
    /\ rule.column \in slugs \cup {NoSlug}
    /\ rule.when \in {"enters", "stale"} => rule.column # NoSlug
    /\ {rule.move, rule.create} \subseteq slugs \cup {NoSlug}

\* The automations that there are at first were valid when they were written.
IsList(s) == s \in Seq(ToSet(s))
ASSUME SetupAssumption ==
    /\ IsList(BoardRules) /\ \A n \in DOMAIN BoardRules : Valid(BoardRules[n], SlugsOf(BoardColumns))
    /\ IsFiniteSet(DOMAIN BoardCards)
    /\ \A scene \in SetupScenes : \A i \in DOMAIN scene :
         /\ scene[i].does \in {"columns", "rules", "move", "tick"}
         /\ scene[i].does = "rules" => IsList(scene[i].rules)

SetupInit ==
    /\ columns = BoardColumns /\ rules = BoardRules /\ waited = {} /\ staleFired = {}
    /\ placed = [c \in DOMAIN BoardCards |-> [column |-> BoardCards[c], since |-> 0]]
    /\ \E scene \in SetupScenes :
         setups = [i \in DOMAIN scene |-> [ask |-> scene[i], at |-> "board", rules |-> <<>>,
                                           columns |-> <<>>, cards |-> <<>>, edition |-> 0, plan |-> <<>>]]
    /\ stalls = <<>> /\ edition = 0 /\ overlapped = FALSE /\ crashes = 0

Wants(i, kinds) == setups[i].ask.does \in kinds
Sets(i, job) == setups' = [setups EXCEPT ![i] = job]
SetsAt(i, at) == Sets(i, [setups[i] EXCEPT !.at = at])
WritesSetup(i) == Wants(i, {"columns", "rules"}) /\ setups[i].at \notin {"board", "end"}

\* ctx(): the board with its automations, and then the columns.
ReadBoard(i) ==
    /\ setups[i].at = "board"
    /\ Sets(i, [setups[i] EXCEPT !.at = "columns", !.rules = rules, !.edition = edition])
    /\ overlapped' = (overlapped \/ (Wants(i, {"columns", "rules"}) /\ \E j \in DOMAIN setups : WritesSetup(j)))
    /\ UNCHANGED <<columns, rules, placed, waited, staleFired, stalls, edition, crashes>>
ReadColumns(i) ==
    /\ setups[i].at = "columns"
    /\ Sets(i, [setups[i] EXCEPT !.columns = columns,
                                 !.at = IF Wants(i, {"rules"}) THEN "rules" ELSE "cards"])
    /\ UNCHANGED <<columns, rules, placed, waited, staleFired, stalls, edition, overlapped, crashes>>

-----------------------------------------------------------------------------
(* save_columns                                                              *)

Drafts(i) == setups[i].ask.drafts
Removed(i) == {c \in ToSet(setups[i].columns) : c.id \notin IdsOf(Drafts(i))}
\* Where the cards of a removed column go: what the caller says, if it is kept.
TargetOf(i, column) == {c \in ToSet(Drafts(i)) : <<column.slug, c.slug>> \in setups[i].ask.moves}

\* The slug a column of before has now.
Renamed(i, slug) ==
    LET old == {c \in ToSet(setups[i].columns) : c.slug = slug /\ c.id \in IdsOf(Drafts(i))}
    IN  IF old = {} THEN slug
        ELSE (CHOOSE c \in ToSet(Drafts(i)) : \E o \in old : o.id = c.id).slug
\* Rules follow the names; what create_card names does not.
Follows(i, rule) == [rule EXCEPT !.column = Renamed(i, @), !.move = Renamed(i, @)]
\* OutlivesColumn, the mutant of Survives, does not ask validate().
OutlivesColumn(i, rule) == rule.column \notin {c.slug : c \in Removed(i)}
Survives(i, rule) == /\ rule.column \notin {c.slug : c \in Removed(i)}
                     /\ Valid(rule, SlugsOf(Drafts(i)))
KeptRules(i, of) ==
    LET followed == [n \in DOMAIN of |-> Follows(i, of[n])]
    IN  Sifted(followed, {rule \in ToSet(followed) : Survives(i, rule)})

ListCards(i) ==
    /\ setups[i].at = "cards" /\ Wants(i, {"columns"})
    /\ LET full == {c \in Removed(i) : \E card \in DOMAIN placed : placed[card].column = c.id}
       IN  IF \E c \in full : TargetOf(i, c) = {} THEN SetsAt(i, "end")
           ELSE Sets(i, [setups[i] EXCEPT !.at = "replace", !.plan = KeptRules(i, setups[i].rules)])
    /\ UNCHANGED <<columns, rules, placed, waited, staleFired, stalls, edition, overlapped, crashes>>

\* replace_columns(): one transaction.  It fails if a card came into a removed
\* column meanwhile and has no target.  Moved cards pass into the column now.
NextColumn(i, id) ==
    IF id \in IdsOf(Drafts(i)) THEN id
    ELSE LET gone == {c \in Removed(i) : c.id = id}
         IN  (CHOOSE t \in UNION {TargetOf(i, c) : c \in gone} : TRUE).id
ReplaceColumns(i) ==
    /\ setups[i].at = "replace"
    /\ LET lost == {card \in DOMAIN placed :
                      placed[card].column \notin IdsOf(Drafts(i))
                      /\ \A c \in Removed(i) : c.id = placed[card].column => TargetOf(i, c) = {}}
           moved == {card \in DOMAIN placed : placed[card].column \notin IdsOf(Drafts(i))}
       IN  IF lost # {} THEN SetsAt(i, "end") /\ UNCHANGED <<columns, placed, waited>>
           ELSE /\ columns' = Drafts(i) /\ SetsAt(i, "rules")
                /\ placed' = [card \in DOMAIN placed |->
                       IF card \in moved THEN [column |-> NextColumn(i, placed[card].column),
                                               since |-> placed[card].since + 1]
                       ELSE placed[card]]
                /\ waited' = waited \ moved
    /\ UNCHANGED <<rules, staleFired, stalls, edition, overlapped, crashes>>

\* set_automations(), of either call.
WriteRules(i) ==
    /\ setups[i].at = "rules" /\ SetsAt(i, "end")
    /\ LET new == IF Wants(i, {"columns"}) THEN setups[i].plan ELSE setups[i].ask.rules
       IN  IF Wants(i, {"rules"}) /\ \E n \in DOMAIN new : ~Valid(new[n], SlugsOf(setups[i].columns))
           THEN UNCHANGED <<rules, edition>>
           ELSE rules' = new /\ edition' = edition + 1
    /\ UNCHANGED <<columns, placed, waited, staleFired, stalls, overlapped, crashes>>

-----------------------------------------------------------------------------
(* Cards move and wait; tick                                                 *)

\* The column is looked up by its slug in what was read; its row may be gone.
MoveCard(i) ==
    /\ setups[i].at = "cards" /\ Wants(i, {"move"}) /\ SetsAt(i, "end")
    /\ LET ask == setups[i].ask
           known == ask.slug \in SlugsOf(setups[i].columns)
           to == BySlug(setups[i].columns, ask.slug).id
       IN  IF known /\ to \in IdsOf(columns) /\ placed[ask.card].column # to
           THEN /\ placed' = [placed EXCEPT ![ask.card] = [column |-> to, since |-> @.since + 1]]
                /\ waited' = waited \ {ask.card}
           ELSE UNCHANGED <<placed, waited>>
    /\ UNCHANGED <<columns, rules, staleFired, stalls, edition, overlapped, crashes>>
Waits(c) ==
    /\ c \notin waited /\ waited' = waited \cup {c}
    /\ UNCHANGED <<columns, rules, placed, staleFired, setups, stalls, edition, overlapped, crashes>>

\* The stale rules and the cards of their columns that have waited, as listed.
Listed(i) ==
    LET known(rule) == rule.when = "stale" /\ rule.column \in SlugsOf(setups[i].columns)
        of(n) == {c \in waited : placed[c].column = BySlug(setups[i].columns, setups[i].rules[n].column).id}
        at == {n \in DOMAIN setups[i].rules : known(setups[i].rules[n])}
    IN  UNION {{<<c, placed[c].since, n>> : c \in of(n)} : n \in at}
TickCards(i) ==
    /\ setups[i].at = "cards" /\ Wants(i, {"tick"})
    /\ Sets(i, [setups[i] EXCEPT !.at = "fire", !.cards = SetToSeq(Listed(i))])
    /\ UNCHANGED <<columns, rules, placed, waited, staleFired, stalls, edition, overlapped, crashes>>
\* Once per passage: the key is in stale_fired from then on.
FiresNow(key) == key \notin staleFired
TickFire(i) ==
    /\ setups[i].at = "fire" /\ setups[i].cards # <<>>
    /\ LET key == Head(setups[i].cards)
           of == <<key[1], key[2], setups[i].rules[key[3]]>>
           before == IF of \in DOMAIN stalls THEN stalls[of] ELSE 0
       IN  IF FiresNow(key)
           THEN /\ staleFired' = staleFired \cup {key}
                /\ stalls' = [ran \in DOMAIN stalls \cup {of} |->
                                  IF ran = of THEN before + 1 ELSE stalls[ran]]
           ELSE UNCHANGED <<staleFired, stalls>>
    /\ Sets(i, [setups[i] EXCEPT !.cards = Tail(@), !.plan = Append(@, Head(setups[i].cards))])
    /\ UNCHANGED <<columns, rules, placed, waited, edition, overlapped, crashes>>
TickDone(i) ==
    /\ setups[i].at = "fire" /\ setups[i].cards = <<>> /\ SetsAt(i, "end")
    /\ UNCHANGED <<columns, rules, placed, waited, staleFired, stalls, edition, overlapped, crashes>>

\* The process ends, at any point of any call, and comes up again.
Dies ==
    /\ crashes < MaxCrashes /\ \E i \in DOMAIN setups : setups[i].at # "end"
    /\ crashes' = crashes + 1 /\ staleFired' = {}
    /\ setups' = [i \in DOMAIN setups |-> IF setups[i].at = "board" THEN setups[i]
                                          ELSE [setups[i] EXCEPT !.at = "end"]]
    /\ UNCHANGED <<columns, rules, placed, waited, stalls, edition, overlapped>>

SetupNext ==
    \/ \E i \in DOMAIN setups :
         \/ ReadBoard(i) \/ ReadColumns(i) \/ ListCards(i) \/ ReplaceColumns(i) \/ WriteRules(i)
         \/ MoveCard(i) \/ TickCards(i) \/ TickFire(i) \/ TickDone(i)
    \/ \E c \in DOMAIN placed : setups # <<>> /\ Waits(c)
    \/ Dies
SetupSpec == SetupInit /\ [][SetupNext]_setupVars

-----------------------------------------------------------------------------
(* The automations name only columns that are there, after any sequence of   *)
(* saves: unless two of them overlapped, or the process ended between the     *)
(* columns and the automations, which are two writes.                         *)
RulesKnowTheirColumns ==
    \/ overlapped \/ crashes > 0
    \/ \E i \in DOMAIN setups : setups[i].at = "rules" /\ Wants(i, {"columns"})
    \/ \A n \in DOMAIN rules : Valid(rules[n], SlugsOf(columns))

(* A card that stands still fires a rule once per passage through the column  *)
(* (service.rs:2056), with ticks that overlap and cards that come back: as    *)
(* long as the process lives and the rules are the same.                      *)
StaleFiresOnce ==
    edition = 0 /\ crashes = 0 =>
        /\ \A of \in DOMAIN stalls : stalls[of] = 1
        /\ \A i \in DOMAIN setups : Wants(i, {"tick"}) => \A key \in ToSet(setups[i].plan) :
               <<key[1], key[2], setups[i].rules[key[3]]>> \in DOMAIN stalls


(* Automations that outlive the edits of the board around them: they name     *)
(* what is there and fire once for each card that stands still.               *)
RulesAreSound == RulesKnowTheirColumns /\ StaleFiresOnce
(* The same with rules that change: the key of what has fired is the place of *)
(* the rule in the list, so that another rule in that place does not fire.    *)
EveryStaleRuleFires ==
    \A i \in DOMAIN setups : Wants(i, {"tick"}) /\ setups[i].at = "end" =>
        \A key \in ToSet(setups[i].plan) :
            <<key[1], key[2], setups[i].rules[key[3]]>> \in DOMAIN stalls

(* A save that only renames columns keeps every automation (service.rs:2230:  *)
(* they follow a renamed slug).  One that creates cards in a renamed column   *)
(* is dropped.                                                                *)
RenamesKeepRules ==
    \A i \in DOMAIN setups :
        Wants(i, {"columns"}) /\ setups[i].at \in {"replace", "rules"} /\ Removed(i) = {} =>
            Len(setups[i].plan) = Len(setups[i].rules)
=============================================================================
