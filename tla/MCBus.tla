-------------------------------- MODULE MCBus -------------------------------
(* An instance of Bus: two agents and a person of one team, two calls at a   *)
(* time.                                                                     *)
EXTENDS Bus
CONSTANTS t1, a1, a2, c1, b1, b2

Call(op, who, to, body, reply, for) ==
    [op |-> op, who |-> who, team |-> t1, to |-> to, body |-> body, reply |-> reply, for |-> for]
Edit(op, who, for) == Call(op, who, <<c1>>, b1, FALSE, for)
Interchangeable == Permutations(Procs)
MCHome == [a \in Agents |-> t1]
MCTight == {[rate |-> 2, identical |-> 1, budget |-> 2, depth |-> 2],
            [rate |-> 1, identical |-> 2, budget |-> 1, depth |-> 2]}
\* For the parts that are not about limits: none is reached.
MCLoose == {[rate |-> 9, identical |-> 9, budget |-> 9, depth |-> 2]}
MCLimits == [limits |-> MCTight, blocks |-> MCTight, threads |-> MCLoose, channels |-> MCLoose]
MCConfigs == MCTight \cup MCLoose
MCMaxAtOnce == [limits |-> 1, blocks |-> 2, threads |-> 2, channels |-> 2]
MCMaxCalls == [limits |-> 4, blocks |-> 4, threads |-> 4, channels |-> 3]
MCJobs ==
    [limits   |-> {Call("send", a1, <<"human">>, b1, FALSE, {}),
                   Call("send", a1, <<"human">>, b2, FALSE, {}),
                   Call("send", a2, <<"human">>, b1, FALSE, {})},
     blocks   |-> {Call("send", a1, <<"human">>, b1, FALSE, {}),
                   Call("send", a2, <<"human">>, b1, FALSE, {})},
     threads  |-> {Call("send", a1, <<a2>>, b1, TRUE, {}),
                   Call("send", a2, <<a1, "all">>, b1, TRUE, {}),
                   Call("send", "human", <<a1>>, b1, TRUE, {}),
                   Call("send", "human", <<a1>>, b1, FALSE, {})},
     channels |-> {Edit(op, a, {}) : op \in {"join", "leave"}, a \in {a1, a2}}
                  \cup {Edit("save", "human", {}), Edit("save", "human", {a1}),
                        Edit("delete", "human", {}),
                        Call("send", a2, <<c1>>, b1, FALSE, {}),
                        Call("send", "human", <<a1, c1>>, b1, FALSE, {})}]
=============================================================================
