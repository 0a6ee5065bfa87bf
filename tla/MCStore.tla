------------------------------- MODULE MCStore ------------------------------
(* An instance of StoreContract: two teams, two agents of the first and one  *)
(* of the other.                                                             *)
EXTENDS StoreContract
CONSTANTS t1, t2, a1, a2, b1, c1, c2, o1, o2, o3, k1, k2, n1, n2, p1

MCTeams    == {t1, t2}
MCAgents   == {a1, a2, b1}
MCChannels == {c1, c2}
MCColumns  == {o1, o2, o3}
MCCards    == {k1, k2}
MCComments == {n1, n2}
MCProposals == {p1}
MCSessions == 1 .. 3
MCMessages == 4 .. 5
MCHome == [x \in MCAgents \cup MCChannels \cup MCMessages \cup MCColumns \cup MCCards
                \cup MCProposals |-> IF x = b1 THEN t2 ELSE t1]
MCCast ==
    [team     |-> {t1, t2, a1, a2, b1},
     session  |-> {t1, a1, a2} \cup MCSessions,
     skill    |-> {t1, a1},
     channel  |-> {t1, a1, a2, c1, c2},
     message  |-> {t1, a1, a2, c1} \cup MCMessages,
     columns  |-> {t1, o1, o2, o3, k1, k2},
     cards    |-> {t1, a1, o1, o2, k1, k2},
     history  |-> {t1, a1, o1, k1, k2, n1, n2},
     proposal |-> {t1, a1, p1}]
MCOnCard == n1 :> k1 @@ n2 :> k2
=============================================================================
