-------------------------------- MODULE Ipc --------------------------------
(***************************************************************************)
(* The local socket of the bus (ipc, transport.rs, frame.rs, client.rs,      *)
(* handler.rs; mcp and cli, main.rs; app, commands/bus.rs): the program      *)
(* binds it, clients of its agents connect with their token and send one     *)
(* request after the other.  A request is a kind: what the operations do is  *)
(* in the modules of the bus, the board and the notes.  A program may be     *)
(* started while another runs, and programs and connections may end at any   *)
(* moment.  The socket is the one of Unix, a file that outlives its program. *)
(***************************************************************************)
EXTENDS Naturals, Sequences, FiniteSets

CONSTANTS
    Apps,            \* programs, in the order in which they are started
    Tokens,          \* one for each session; the agent runs under the first program
    IpcScenes,       \* sequences of clients [token, keeps, calls]
    MaxAppCrashes    \* bound

Frames == {"hello", "op", "drain", "broken", "large"}
ASSUME AppsAssumption == Apps \subseteq Nat \ {0} /\ 1 \in Apps
ASSUME IpcScenesAssumption ==
    \A scene \in IpcScenes : \A c \in DOMAIN scene :
        scene[c] \in [token : Tokens, keeps : BOOLEAN, calls : Seq(Frames)]

VARIABLES
    apps,        \* program -> "off", a step of its start, "serving" or "ended"
    socket,      \* the program whose listener the file is, or NoSocket
    alive,       \* tokens recorded whose session has not ended
    valid,       \* tokens that find_token finds
    clients,     \* [ask, at, n, conn, answers]
    conns,       \* [app, at, in, out, token, who]
    acted,       \* history: <<client, call, was the session alive at its turn>>
    crossed,     \* history: two programs were between probing and binding
    appCrashes

ipcVars == <<apps, socket, alive, valid, clients, conns, acted, crossed, appCrashes>>

NoSocket == 0
IpcInit ==
    /\ apps = [a \in Apps |-> "off"] /\ socket = NoSocket /\ alive = {} /\ valid = {}
    /\ \E scene \in IpcScenes :
         clients = [c \in DOMAIN scene |-> [ask |-> scene[c], at |-> "idle", n |-> 1, conn |-> 0, answers |-> <<>>]]
    /\ conns = <<>> /\ acted = {} /\ crossed = FALSE /\ appCrashes = 0

Listens(a) == apps[a] \in {"serving", "stopping"}
AppGoes(a, at) == apps' = [apps EXCEPT ![a] = at]
SameClients == UNCHANGED <<clients, conns, acted>>

\* setup: the tokens of an earlier run are worth nothing any more.
Revokes(a) ==
    /\ apps[a] = "off" /\ AppGoes(a, "probe") /\ valid' = {}
    /\ \A other \in Apps : other < a => apps[other] # "off"
    /\ SameClients /\ UNCHANGED <<socket, alive, crossed, appCrashes>>
\* serve: a socket that answers is somebody's, another is left over.
Answers0 == socket # NoSocket /\ Listens(socket)
Probes(a) ==
    /\ apps[a] = "probe" /\ AppGoes(a, IF Answers0 THEN "deaf" ELSE "bind")
    /\ crossed' = (crossed \/ (~Answers0 /\ \E other \in Apps \ {a} : apps[other] = "bind"))
    /\ SameClients /\ UNCHANGED <<socket, alive, valid, appCrashes>>
Binds(a) ==
    /\ apps[a] = "bind" /\ AppGoes(a, "serving") /\ socket' = a
    /\ SameClients /\ UNCHANGED <<alive, valid, crossed, appCrashes>>
\* The supervisor of the program starts an agent, whose token is new.
\* Here the agents start before the first call.
SessionBegins(t) ==
    /\ t \notin alive /\ apps[1] = "serving" /\ conns = <<>> /\ acted = {}
    /\ alive' = alive \union {t} /\ valid' = valid \union {t}
    /\ SameClients /\ UNCHANGED <<apps, socket, crossed, appCrashes>>
\* finalize: the process has ended, its tokens are revoked.
SessionEnds(t) ==
    /\ t \in alive /\ alive' = alive \ {t} /\ valid' = valid \ {t}
    /\ SameClients /\ UNCHANGED <<apps, socket, crossed, appCrashes>>
\* At the end the listener leaves the file, whoever it is by then; a crash
\* leaves it where it is.  Connections and agents end with the program.
Leaves(a, at, file) ==
    /\ AppGoes(a, at) /\ socket' = file
    /\ conns' = [k \in DOMAIN conns |-> IF conns[k].app = a THEN [conns[k] EXCEPT !.at = "closed"] ELSE conns[k]]
    /\ alive' = IF a = 1 THEN {} ELSE alive
    /\ UNCHANGED <<valid, clients, acted, crossed>>
AppStops(a) == apps[a] = "serving" /\ a = 1 /\ AppGoes(a, "stopping")
               /\ SameClients /\ UNCHANGED <<socket, alive, valid, crossed, appCrashes>>
SocketRemoved(a) == apps[a] = "stopping" /\ Leaves(a, "ended", NoSocket) /\ UNCHANGED appCrashes
AppCrashes(a) ==
    /\ Listens(a) /\ appCrashes < MaxAppCrashes /\ appCrashes' = appCrashes + 1 /\ Leaves(a, "ended", socket)

\* A client (aisense-mcp keeps its connection, the command line makes one for
\* each call).
Says(c) == clients[c].ask
CallOf(c) == Says(c).calls[clients[c].n]
Sends(k, frame) == [conns EXCEPT ![k].in = Append(@, frame)]
Connects(c) ==
    /\ clients[c].at = "idle" /\ clients[c].n <= Len(Says(c).calls) /\ clients[c].conn = 0
    /\ Says(c).token \in alive
    /\ IF Answers0
       THEN /\ conns' = Append(conns, [app |-> socket, at |-> "hello", in |-> <<"hello">>, out |-> <<>>,
                                       token |-> Says(c).token, who |-> c])
            /\ clients' = [clients EXCEPT ![c].at = "greet", ![c].conn = Len(conns')]
       ELSE /\ clients' = [clients EXCEPT ![c].answers = Append(@, "unreachable"), ![c].n = @ + 1]
            /\ UNCHANGED conns
    /\ UNCHANGED <<apps, socket, alive, valid, acted, crossed, appCrashes>>
Asks(c) ==
    /\ clients[c].at = "idle" /\ clients[c].n <= Len(Says(c).calls) /\ clients[c].conn # 0
    /\ conns' = IF conns[clients[c].conn].at = "closed" THEN conns ELSE Sends(clients[c].conn, CallOf(c))
    /\ clients' = [clients EXCEPT ![c].at = "wait"]
    /\ UNCHANGED <<apps, socket, alive, valid, acted, crossed, appCrashes>>
\* A connection that fails, or brings an answer over MAX_FRAME (which nothing
\* keeps the server from writing), is dropped, its call is told and not repeated.
CallTold(c) ==
    [clients EXCEPT ![c].at = "idle", ![c].conn = 0, ![c].n = @ + 1, ![c].answers = Append(@, "error")]
Hears(c) ==
    LET k == clients[c].conn
    IN  /\ clients[c].at \in {"greet", "wait"}
        /\ \/ /\ conns[k].out # <<>> /\ conns' = [conns EXCEPT ![k].out = Tail(@)]
              /\ CASE clients[c].at = "greet" /\ Head(conns[k].out) = "ok" ->
                        clients' = [clients EXCEPT ![c].at = "idle"]
                   [] clients[c].at = "greet" /\ Head(conns[k].out) # "ok" -> clients' = CallTold(c)
                   [] clients[c].at = "wait" /\ Head(conns[k].out) = "huge" -> clients' = CallTold(c)
                   [] OTHER -> clients' = [clients EXCEPT ![c].at = "idle", ![c].n = @ + 1,
                                 ![c].answers = Append(@, Head(conns[k].out)), ![c].conn = IF Says(c).keeps THEN @ ELSE 0]
           \/ conns[k].out = <<>> /\ conns[k].at = "closed" /\ clients' = CallTold(c) /\ UNCHANGED conns
        /\ UNCHANGED <<apps, socket, alive, valid, acted, crossed, appCrashes>>

\* serve_connection: the first frame is hello with a token that is worth
\* something; then one answer for each frame, in their order.
Authenticates(t) == t \in valid
Replies(k, answer, at) ==
    conns' = [conns EXCEPT ![k].in = Tail(@), ![k].out = Append(@, answer), ![k].at = at]
Serves(k) == Listens(conns[k].app) /\ conns[k].in # <<>>
Greets(k) ==
    /\ Serves(k) /\ conns[k].at = "hello"
    /\ IF Authenticates(conns[k].token) THEN Replies(k, "ok", "open") ELSE Replies(k, "unauthorized", "closed")
    /\ UNCHANGED <<apps, socket, alive, valid, clients, acted, crossed, appCrashes>>
Skips(k) ==
    /\ Serves(k) /\ conns[k].at = "open" /\ Head(conns[k].in) \in {"broken", "hello", "large"}
    /\ CASE Head(conns[k].in) = "large" -> Replies(k, "too large", "closed")
         [] OTHER -> Replies(k, "invalid", "open")
    /\ UNCHANGED <<apps, socket, alive, valid, clients, acted, crossed, appCrashes>>
\* handle: the token is asked for at every operation.  GreetedOnce is the
\* mutant of StillValid.
GreetedOnce(k) == TRUE
StillValid(k) == Authenticates(conns[k].token)
Handles0(k) ==
    LET c == conns[k].who
    IN  /\ Serves(k) /\ conns[k].at = "open" /\ Head(conns[k].in) \in {"op", "drain"}
        /\ IF StillValid(k)
           THEN /\ acted' = acted \union {<<c, clients[c].n, k, conns[k].token \in alive>>}
                /\ conns' = [conns EXCEPT ![k].at = "acting"]
           ELSE Replies(k, "unauthorized", "open") /\ UNCHANGED acted
        /\ UNCHANGED <<apps, socket, alive, valid, clients, crossed, appCrashes>>
Acts(k) ==
    /\ Serves(k) /\ conns[k].at = "acting"
    /\ Replies(k, IF Head(conns[k].in) = "drain" THEN "huge" ELSE "done", "open")
    /\ UNCHANGED <<apps, socket, alive, valid, clients, acted, crossed, appCrashes>>

IpcNext ==
    \/ \E a \in Apps : \/ Revokes(a) \/ Probes(a) \/ Binds(a) \/ AppStops(a) \/ SocketRemoved(a) \/ AppCrashes(a)
    \/ \E t \in Tokens : SessionBegins(t) \/ SessionEnds(t)
    \/ \E c \in DOMAIN clients : Connects(c) \/ Asks(c) \/ Hears(c)
    \/ \E k \in DOMAIN conns : Greets(k) \/ Skips(k) \/ Handles0(k) \/ Acts(k)
IpcSpec == IpcInit /\ [][IpcNext]_ipcVars

\* "sessão encerrada no meio de uma conexão longa é recusada na hora"
\* (handler.rs:97): no operation starts for a session that has ended, however
\* long its connection has been open; unless two programs bound the socket at
\* once, and the one that serves is not the one whose sessions end.
EndedSessionsDoNothing == crossed \/ \A act \in acted : act[4]
\* A call is carried out once at most, though its connection, the program or
\* its answer was lost; what was answered as done was done.
CallsRunOnce ==
    \A c \in DOMAIN clients :
        /\ \A n \in 1..Len(Says(c).calls) : Cardinality({act \in acted : act[1] = c /\ act[2] = n}) <= 1
        /\ \A n \in DOMAIN clients[c].answers : clients[c].answers[n] = "done" =>
              \E act \in acted : act[1] = c /\ act[2] = n
\* "another AISENSE is already listening" (transport.rs:122): a program that
\* serves is the one its clients reach, unless two bound the socket at once.
ServerIsReachable == ~crossed => \A a \in Apps : apps[a] = "serving" => socket = a

\* What the command line may rely on: its calls reach the program that serves,
\* are carried out once, and only while its session lives.
SocketCallsHold == EndedSessionsDoNothing /\ CallsRunOnce /\ ServerIsReachable
\* "o token vale enquanto a sessão do agente estiver viva" (bus/service.rs:237):
\* refuted, the start of a second program revokes the tokens of the first one's
\* sessions, and only then finds the socket taken.
TokensLiveWithTheirSession == alive \subseteq valid
=============================================================================
