------------------------------- MODULE MCBoot -------------------------------
(* An instance of Boot: two sessions, two changes of rules that lose a busy  *)
(* screen, and adapters with and without a text to type; or one of Runs: two *)
(* callers of the named commands of a project.  Each follows what a terminal *)
(* was asked to run from its start to its end.                               *)
EXTENDS Boot, Runs
Shipped == [prompt |-> {"idle"}, work |-> {"busy", "idle"}, text |-> {}]
MCRules == {Shipped, [Shipped EXCEPT !.work = {}]}
MCScreens == {<<"work", "prompt">>, <<"work", "text">>}
Adapter(flag, mcp, inject) ==
    [flag |-> flag, mcp |-> mcp, config |-> mcp, inject |-> inject, boot |-> TRUE]
MCAdapters == {Adapter(FALSE, FALSE, "stdin"), Adapter(FALSE, TRUE, "stdin")}
Budget(starts, outputs, calibrations) ==
    [starts |-> starts, outputs |-> outputs, calibrations |-> calibrations]
MCBudgets == {Budget(0, 0, 0), Budget(2, 1, 0), Budget(1, 2, 1), Budget(1, 1, 2)}
RunCommands == {"test", "lint"}
Cmd(line, timeout) == [line |-> line, timeout |-> timeout]
FileFound(commands, gates) == [kind |-> "found", commands |-> commands, gates |-> gates, copies |-> {"inside"}]
Files == { [kind |-> "missing"],
           FileFound([test |-> Cmd("t", 1), lint |-> Cmd("l", 1)], {"test"}),
           FileFound([test |-> Cmd("t", 3)], {}),
           FileFound([test |-> Cmd("t", 1)], {"lint"}),
           FileFound([lint |-> Cmd("l", 2)], {}) }
CliRun(c) == [by |-> "cli", commands |-> <<c>>]
GateRun == [by |-> "gate", commands |-> <<"lint", "test">>]
RunTales == { <<>>, <<CliRun("test"), GateRun>>, <<CliRun("test"), CliRun("test")>> }

RunRests == /\ runs = <<>> /\ lockDir = "writable"
            /\ projectFile = CHOOSE f \in ProjectFiles : f.kind = "missing"
BootRests == budget = Budget(0, 0, 0) /\ catalog = Shipped
MCInit == Init /\ RunInit /\ (RunRests \/ BootRests)
MCNext == (Next /\ UNCHANGED runVars) \/ (RunNext /\ UNCHANGED vars)
MCSpec == MCInit /\ [][MCNext]_<<vars, runVars>> /\ BootFairness /\ RunFairness
=============================================================================
