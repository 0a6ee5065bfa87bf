------------------------------ MODULE HostProofs -----------------------------
(***************************************************************************)
(* Proofs about what a program does for the agents it hosts, for any number *)
(* of programs, callers and sessions: the local socket (Ipc), the named     *)
(* commands (Runs), the detector and the boot text (Boot), the migrations   *)
(* of the database it opens (Upgrade), the skills it puts beside a project  *)
(* (Native), and the notes its agents keep in one folder (Notes).           *)
(***************************************************************************)
EXTENDS Ipc, Runs, Boot, Upgrade, Native, Notes, SiftProofs, FiniteSetTheorems, TLAPS

-----------------------------------------------------------------------------
(* The socket: whoever a client reaches is the program that runs its session,   *)
(* and each of its calls is at one place between the client and the handler.    *)

IpcAsked == [token : Tokens, keeps : BOOLEAN, calls : Seq(Frames)]
AnswerKinds == {"ok", "unauthorized", "too large", "invalid", "huge", "done", "error", "unreachable"}
ClientRows == [ask : IpcAsked, at : {"idle", "greet", "wait"}, n : Nat \ {0}, conn : Nat,
               answers : Seq(AnswerKinds)]
Callers == UNION {DOMAIN scene : scene \in IpcScenes}
ConnRows == [app : Apps, at : {"hello", "open", "acting", "closed"}, in : Seq(Frames),
             out : Seq(AnswerKinds), token : Tokens, who : Callers]
AppPlaces == {"off", "probe", "bind", "deaf", "serving", "stopping", "ended"}
ActRows == Callers \X Nat \X Nat \X BOOLEAN

\* The program whose agents the clients are is the first one.
ServerTypeOK ==
    /\ apps \in [Apps -> AppPlaces] /\ socket \in Apps \union {NoSocket}
    /\ crossed \in BOOLEAN /\ alive \subseteq Tokens /\ valid \subseteq Tokens
OneListens ==
    ~crossed =>
        /\ \A a, b \in Apps : apps[a] \in {"bind", "serving", "stopping"}
                              /\ apps[b] \in {"bind", "serving", "stopping"} => a = b
        /\ \A a \in Apps : Listens(a) => socket = a
SessionsAreOfTheFirst ==
    /\ alive # {} => Listens(1)
    /\ apps[1] # "ended" => valid \subseteq alive
    /\ ~crossed => /\ \A k \in DOMAIN conns : conns[k].app = 1
                   /\ \A act \in acted : act[4]

\* Where a call is: with the client, on its way, carried out, or answered.
ActedOn(acts, c, n) == \E act \in acts : act[1] = c /\ act[2] = n
Done(client, conn, acts) == ActedOn(acts, conn.who, client.n)
Fits(client, conn, acts) ==
    /\ client.at = "greet" =>
         /\ ~Done(client, conn, acts)
         /\ \/ conn.at = "hello" /\ conn.in = <<"hello">> /\ conn.out = <<>>
            \/ conn.at = "open" /\ conn.in = <<>> /\ conn.out = <<"ok">>
            \/ conn.at = "closed" /\ conn.out \in {<<>>, <<"ok">>, <<"unauthorized">>}
    /\ client.at = "idle" =>
         ~Done(client, conn, acts) /\ conn.out = <<>> /\ (conn.at = "closed" \/ (conn.at = "open" /\ conn.in = <<>>))
    /\ client.at = "wait" =>
         \/ conn.at = "open" /\ Len(conn.in) = 1 /\ conn.out = <<>> /\ ~Done(client, conn, acts)
         \/ conn.at = "acting" /\ Len(conn.in) = 1 /\ conn.out = <<>> /\ Done(client, conn, acts)
         \/ /\ conn.at = "open" /\ conn.in = <<>> /\ Len(conn.out) = 1
            /\ conn.out[1] = "done" => Done(client, conn, acts)
         \/ /\ conn.at = "closed" /\ Len(conn.out) =< 1
            /\ conn.out = <<"done">> => Done(client, conn, acts)
\* A connection that its client has given up brings no call any more.
GivenUp(conn) == conn.at = "closed" \/ (conn.at = "open" /\ conn.in = <<>>)

ClientTypeOK ==
    /\ clients \in [DOMAIN clients -> ClientRows] /\ DOMAIN clients \subseteq Callers
    /\ conns \in Seq(ConnRows) /\ acted \subseteq ActRows
CallsAreSomewhere ==
    /\ \A c \in DOMAIN clients :
         LET k == clients[c].conn
         IN  /\ k = 0 => clients[c].at = "idle" /\ ~ActedOn(acted, c, clients[c].n)
             /\ k # 0 => k \in DOMAIN conns /\ conns[k].who = c /\ Fits(clients[c], conns[k], acted)
    /\ \A k \in DOMAIN conns : /\ conns[k].who \in DOMAIN clients
                               /\ clients[conns[k].who].conn # k => GivenUp(conns[k])
ActsAreOne ==
    /\ \A x, y \in acted : x[1] = y[1] /\ x[2] = y[2] => x = y
    /\ \A act \in acted : act[1] \in DOMAIN clients /\ act[2] =< clients[act[1]].n
AnswersFollow ==
    \A c \in DOMAIN clients :
        /\ Len(clients[c].answers) = clients[c].n - 1
        /\ \A n \in DOMAIN clients[c].answers :
              clients[c].answers[n] = "done" => ActedOn(acted, c, n)

ServerInv == ServerTypeOK /\ OneListens /\ SessionsAreOfTheFirst
ClientInv == ClientTypeOK /\ CallsAreSomewhere /\ ActsAreOne /\ AnswersFollow
IpcInv == ServerInv /\ ClientInv

serverVars == <<apps, socket, alive, valid, crossed>>
callVars == <<clients, conns, acted>>

LEMMA ClientsRest == ClientInv /\ UNCHANGED callVars => ClientInv'
<1> SUFFICES ASSUME ClientInv, UNCHANGED callVars PROVE ClientInv'
  OBVIOUS
<1>1. ClientTypeOK' /\ ActsAreOne'
  BY DEF ClientInv, callVars, ClientTypeOK, ActsAreOne
<1>2. CallsAreSomewhere'
  BY DEF ClientInv, callVars, CallsAreSomewhere
<1>3. AnswersFollow'
  BY DEF ClientInv, callVars, AnswersFollow
<1> QED
  BY <1>1, <1>2, <1>3 DEF ClientInv

\* A step of the clients or of a connection leaves the server as it is.
LEMMA ServerRests ==
    ASSUME ServerInv, UNCHANGED serverVars,
           ~crossed => /\ \A k \in DOMAIN conns' : conns'[k].app = 1
                       /\ \A act \in acted' : act[4]
    PROVE  ServerInv'
<1>1. ServerTypeOK' /\ OneListens'
  BY DEF ServerInv, serverVars, ServerTypeOK, OneListens, Listens
<1>2. SessionsAreOfTheFirst'
  BY DEF ServerInv, serverVars, SessionsAreOfTheFirst, Listens
<1> QED
  BY <1>1, <1>2 DEF ServerInv

\* A program goes on in its start.
LEMMA AppFacts ==
    ASSUME ServerTypeOK, NEW a \in Apps, NEW at \in AppPlaces, AppGoes(a, at)
    PROVE  /\ apps' \in [Apps -> AppPlaces] /\ apps'[a] = at
           /\ \A b \in Apps : b # a => apps'[b] = apps[b]
BY DEF ServerTypeOK, AppGoes

LEMMA RevokesStep == ASSUME ServerInv, NEW a \in Apps, Revokes(a) PROVE ServerInv'
<1>1. /\ apps' \in [Apps -> AppPlaces] /\ apps'[a] = "probe"
      /\ \A b \in Apps : b # a => apps'[b] = apps[b]
  BY AppFacts DEF ServerInv, Revokes, AppPlaces
<1>2. /\ UNCHANGED <<socket, alive, crossed, conns, acted>> /\ valid' = {} /\ apps[a] = "off"
  BY DEF Revokes, SameClients
<1>3. \A b \in Apps : Listens(b)' <=> Listens(b)
  BY <1>1, <1>2 DEF Listens
<1>4. ServerTypeOK'
  BY <1>1, <1>2 DEF ServerInv, ServerTypeOK
<1>5. OneListens'
  BY <1>1, <1>2, <1>3 DEF ServerInv, OneListens
<1>6. SessionsAreOfTheFirst'
  BY <1>1, <1>2, <1>3, AppsAssumption DEF ServerInv, SessionsAreOfTheFirst
<1> QED
  BY <1>4, <1>5, <1>6 DEF ServerInv

LEMMA ProbesStep == ASSUME ServerInv, NEW a \in Apps, Probes(a) PROVE ServerInv'
<1>1. PICK at \in {"deaf", "bind"} : AppGoes(a, at) /\ (at = "bind" <=> ~Answers0)
  BY DEF Probes
<1>2. /\ apps' \in [Apps -> AppPlaces] /\ apps'[a] = at
      /\ \A b \in Apps : b # a => apps'[b] = apps[b]
  BY <1>1, AppFacts DEF ServerInv, AppPlaces
<1>3. /\ UNCHANGED <<socket, alive, valid, conns, acted>> /\ apps[a] = "probe"
      /\ crossed' = (crossed \/ (~Answers0 /\ \E other \in Apps \ {a} : apps[other] = "bind"))
  BY DEF Probes, SameClients
<1>4. \A b \in Apps : Listens(b)' <=> Listens(b)
  BY <1>1, <1>2, <1>3 DEF Listens
<1>5. ServerTypeOK'
  BY <1>2, <1>3 DEF ServerInv, ServerTypeOK
<1>6. OneListens'
  <2> SUFFICES ASSUME ~crossed' PROVE OneListens'
    BY DEF OneListens
  <2>1. ~crossed
    BY <1>3
  <2>2. \A b \in Apps : Listens(b)' => socket' = b
    BY <1>3, <1>4, <2>1 DEF ServerInv, OneListens
  <2>3. CASE at = "deaf"
    BY <1>2, <1>3, <2>1, <2>2, <2>3 DEF ServerInv, OneListens
  <2>4. CASE at = "bind"
    <3>1. ~Answers0 /\ \A b \in Apps \ {a} : apps[b] # "bind"
      BY <1>1, <1>3, <2>4
    <3>2. \A b \in Apps : ~Listens(b)
      BY <2>1, <3>1, AppsAssumption DEF ServerInv, OneListens, Answers0, NoSocket
    <3>3. \A b \in Apps \ {a} : apps'[b] \notin {"bind", "serving", "stopping"}
      BY <1>2, <3>1, <3>2 DEF Listens
    <3> QED
      BY <2>2, <3>3 DEF OneListens
  <2> QED
    BY <2>3, <2>4
<1>7. SessionsAreOfTheFirst'
  BY <1>1, <1>2, <1>3, <1>4, AppsAssumption DEF ServerInv, SessionsAreOfTheFirst
<1> QED
  BY <1>5, <1>6, <1>7 DEF ServerInv

LEMMA BindsStep == ASSUME ServerInv, NEW a \in Apps, Binds(a) PROVE ServerInv'
<1>1. /\ apps' \in [Apps -> AppPlaces] /\ apps'[a] = "serving"
      /\ \A b \in Apps : b # a => apps'[b] = apps[b]
  BY AppFacts DEF ServerInv, Binds, AppPlaces
<1>2. /\ UNCHANGED <<alive, valid, crossed, conns, acted>> /\ socket' = a /\ apps[a] = "bind"
  BY DEF Binds, SameClients
<1>3. \A b \in Apps : Listens(b) => Listens(b)'
  BY <1>1, <1>2 DEF Listens
<1>4. ServerTypeOK'
  BY <1>1, <1>2 DEF ServerInv, ServerTypeOK
<1>5. OneListens'
  BY <1>1, <1>2 DEF ServerInv, OneListens, Listens
<1>6. SessionsAreOfTheFirst'
  BY <1>1, <1>2, <1>3, AppsAssumption DEF ServerInv, SessionsAreOfTheFirst
<1> QED
  BY <1>4, <1>5, <1>6 DEF ServerInv

LEMMA AppStopsStep == ASSUME ServerInv, NEW a \in Apps, AppStops(a) PROVE ServerInv'
<1>1. /\ apps' \in [Apps -> AppPlaces] /\ apps'[a] = "stopping"
      /\ \A b \in Apps : b # a => apps'[b] = apps[b]
  BY AppFacts DEF ServerInv, AppStops, AppPlaces
<1>2. UNCHANGED <<socket, alive, valid, crossed, conns, acted>> /\ apps[a] = "serving"
  BY DEF AppStops, SameClients
<1>3. \A b \in Apps : Listens(b)' <=> Listens(b)
  BY <1>1, <1>2 DEF Listens
<1>4. ServerTypeOK'
  BY <1>1, <1>2 DEF ServerInv, ServerTypeOK
<1>5. OneListens'
  BY <1>1, <1>2, <1>3 DEF ServerInv, OneListens
<1>6. SessionsAreOfTheFirst'
  BY <1>1, <1>2, <1>3, AppsAssumption DEF ServerInv, SessionsAreOfTheFirst
<1> QED
  BY <1>4, <1>5, <1>6 DEF ServerInv

LEMMA SessionSteps ==
    ASSUME ServerInv, NEW t \in Tokens, SessionBegins(t) \/ SessionEnds(t) PROVE ServerInv'
<1>1. UNCHANGED <<apps, socket, crossed, conns, acted>>
  BY DEF SessionBegins, SessionEnds, SameClients
<1>2. ServerTypeOK' /\ OneListens'
  BY <1>1 DEF ServerInv, ServerTypeOK, OneListens, Listens, SessionBegins, SessionEnds
<1>3. SessionsAreOfTheFirst'
  BY <1>1 DEF ServerInv, SessionsAreOfTheFirst, Listens, SessionBegins, SessionEnds
<1> QED
  BY <1>2, <1>3 DEF ServerInv

\* A program has gone, with its connections.
LEMMA LeavesServer ==
    ASSUME ServerInv, ClientTypeOK, NEW a \in Apps, NEW file \in {socket, NoSocket},
           Listens(a), Leaves(a, "ended", file)
    PROVE  ServerInv'
<1>1. /\ apps' \in [Apps -> AppPlaces] /\ apps'[a] = "ended"
      /\ \A b \in Apps : b # a => apps'[b] = apps[b]
  BY AppFacts DEF ServerInv, Leaves, AppPlaces
<1>2. /\ UNCHANGED <<valid, crossed, acted>> /\ socket' = file
      /\ alive' = IF a = 1 THEN {} ELSE alive
      /\ conns' = [k \in DOMAIN conns |-> IF conns[k].app = a THEN [conns[k] EXCEPT !.at = "closed"]
                                          ELSE conns[k]]
  BY DEF Leaves
<1>3. /\ DOMAIN conns' = DOMAIN conns
      /\ \A k \in DOMAIN conns : conns[k] \in ConnRows => conns'[k].app = conns[k].app
  BY <1>2 DEF ConnRows
<1>4. \A k \in DOMAIN conns : conns[k] \in ConnRows
  BY DEF ClientTypeOK
<1>5. ServerTypeOK'
  BY <1>1, <1>2 DEF ServerInv, ServerTypeOK
<1>6. OneListens'
  <2>1. ~crossed => \A b \in Apps : b # a => ~Listens(b)
    BY DEF ServerInv, OneListens, Listens
  <2> QED
    BY <1>1, <1>2, <2>1 DEF ServerInv, OneListens, Listens
<1>7. SessionsAreOfTheFirst'
  BY <1>1, <1>2, <1>3, <1>4, AppsAssumption DEF ServerInv, SessionsAreOfTheFirst, Listens
<1> QED
  BY <1>5, <1>6, <1>7 DEF ServerInv

LEMMA FitsClosed ==
    ASSUME NEW client, NEW conn, NEW other, NEW acts, Fits(client, conn, acts),
           other.out = conn.out, other.who = conn.who, other.at = "closed"
    PROVE  Fits(client, other, acts)
<1>1. <<"done">>[1] = "done" /\ Len(<<>>) = 0 /\ <<>> # <<"done">>
  OBVIOUS
<1>2. CASE client.at = "greet"
  BY <1>1, <1>2 DEF Fits, Done
<1>3. CASE client.at = "idle"
  BY <1>3 DEF Fits, Done
<1>4. CASE client.at = "wait"
  <2>1. CASE conn.out = <<>>
    <3>1. Len(other.out) =< 1 /\ other.out # <<"done">>
      BY <1>1, <2>1
    <3> QED
      BY <1>4, <3>1 DEF Fits
  <2>2. CASE conn.out # <<>>
    <3>1. ASSUME conn.at = "closed"
          PROVE  Len(conn.out) =< 1 /\ (conn.out = <<"done">> => Done(client, conn, acts))
      BY <1>4, <2>2, <3>1 DEF Fits
    <3>2. ASSUME conn.at # "closed"
          PROVE  Len(conn.out) =< 1 /\ (conn.out = <<"done">> => Done(client, conn, acts))
      <4>1. Len(conn.out) = 1 /\ (conn.out[1] = "done" => Done(client, conn, acts))
        BY <1>4, <2>2, <3>2 DEF Fits
      <4>2. conn.out = <<"done">> => Done(client, conn, acts)
        BY <1>1, <4>1
      <4> QED
        BY <4>1, <4>2
    <3>3. Len(conn.out) =< 1 /\ (conn.out = <<"done">> => Done(client, conn, acts))
      BY <3>1, <3>2
    <3>4. Len(other.out) =< 1 /\ (other.out = <<"done">> => Done(client, other, acts))
      BY <3>3 DEF Done
    <3> QED
      BY <1>4, <3>4 DEF Fits
  <2> QED
    BY <2>1, <2>2
<1> QED
  BY <1>2, <1>3, <1>4 DEF Fits

LEMMA LeavesClients ==
    ASSUME ClientInv, NEW a \in Apps, NEW file, Leaves(a, "ended", file)
    PROVE  ClientInv'
<1>1. /\ UNCHANGED <<clients, acted>>
      /\ conns' = [k \in DOMAIN conns |-> IF conns[k].app = a THEN [conns[k] EXCEPT !.at = "closed"]
                                          ELSE conns[k]]
  BY DEF Leaves
<1>2. conns \in Seq(ConnRows)
  BY DEF ClientInv, ClientTypeOK
<1>3. ASSUME NEW k \in DOMAIN conns
      PROVE  /\ conns'[k] \in ConnRows /\ conns'[k].who = conns[k].who
             /\ conns'[k].in = conns[k].in /\ conns'[k].out = conns[k].out
             /\ conns'[k].at \in {conns[k].at, "closed"}
  <2>1. conns[k] \in ConnRows
    BY <1>2, <1>3
  <2> QED
    BY <1>1, <1>3, <2>1 DEF ConnRows
<1>4. DOMAIN conns' = DOMAIN conns /\ conns' \in Seq(ConnRows)
  <2>1. conns' = [k \in 1 .. Len(conns) |-> conns'[k]] /\ DOMAIN conns = 1 .. Len(conns)
    BY <1>1, <1>2
  <2> QED
    BY <1>2, <1>3, <2>1
<1>5. ClientTypeOK' /\ ActsAreOne' /\ AnswersFollow'
  BY <1>1, <1>4 DEF ClientInv, ClientTypeOK, ActsAreOne, AnswersFollow
<1>6. CallsAreSomewhere'
  <2>1. ASSUME NEW c \in DOMAIN clients, clients[c].conn # 0
        PROVE  /\ clients[c].conn \in DOMAIN conns' /\ conns'[clients[c].conn].who = c
               /\ Fits(clients[c], conns'[clients[c].conn], acted)
    <3>1. PICK k, acts, cl : k = clients[c].conn /\ acts = acted /\ cl = clients[c]
      OBVIOUS
    <3>2. k \in DOMAIN conns /\ conns[k].who = c /\ Fits(cl, conns[k], acts)
      BY <2>1, <3>1 DEF ClientInv, CallsAreSomewhere
    <3>3. PICK conn, other : conn = conns[k] /\ other = conns'[k]
      OBVIOUS
    <3>4. Fits(cl, conn, acts)
      BY <3>2, <3>3
    <3>5. ASSUME other.at = "closed" PROVE Fits(cl, other, acts)
      BY <1>3, <3>2, <3>3, <3>4, <3>5, FitsClosed
    <3>6. ASSUME other.at # "closed" PROVE Fits(cl, other, acts)
      <4>1. conn \in ConnRows
        BY <1>2, <3>2, <3>3
      <4>2. other = conn
        BY <1>1, <3>2, <3>3, <3>6, <4>1 DEF ConnRows
      <4> QED
        BY <3>4, <4>2
    <3>7. Fits(cl, other, acts)
      BY <3>4, <3>5, <3>6
    <3> QED
      BY <1>3, <1>4, <3>1, <3>2, <3>3, <3>7
  <2>2. ASSUME NEW k \in DOMAIN conns
        PROVE  /\ conns'[k].who \in DOMAIN clients
               /\ clients[conns'[k].who].conn # k => GivenUp(conns'[k])
    BY <1>3, <2>2 DEF ClientInv, CallsAreSomewhere, GivenUp
  <2>3. \A c \in DOMAIN clients :
          clients[c].conn = 0 => clients[c].at = "idle" /\ ~ActedOn(acted, c, clients[c].n)
    BY DEF ClientInv, CallsAreSomewhere
  <2> QED
    BY <1>1, <1>4, <2>1, <2>2, <2>3 DEF CallsAreSomewhere
<1> QED
  BY <1>5, <1>6 DEF ClientInv

\* At most call n of c is carried out, which was not.
CarriesOut(c, n) ==
    \/ acted' = acted
    \/ \E x \in ActRows : /\ x[1] = c /\ x[2] = n /\ ~ActedOn(acted, c, n)
                          /\ acted' = acted \union {x}

\* One call goes on: its client, its connection, and the handler.
LEMMA CallGoes ==
    ASSUME ClientInv, NEW c \in DOMAIN clients, NEW cl \in ClientRows,
           clients' = [clients EXCEPT ![c] = cl],
           conns' \in Seq(ConnRows), DOMAIN conns \subseteq DOMAIN conns',
           \A k \in DOMAIN conns : /\ conns'[k].who = conns[k].who
                                   /\ conns[k].who # c => conns'[k] = conns[k],
           \A k \in DOMAIN conns' \ DOMAIN conns : conns'[k].who = c,
           \A k \in DOMAIN conns' : conns'[k].who = c /\ cl.conn # k => GivenUp(conns'[k]),
           cl.conn = 0 => cl.at = "idle" /\ ~ActedOn(acted', c, cl.n),
           cl.conn # 0 => /\ cl.conn \in DOMAIN conns' /\ conns'[cl.conn].who = c
                          /\ Fits(cl, conns'[cl.conn], acted'),
           CarriesOut(c, cl.n), clients[c].n =< cl.n, Len(cl.answers) = cl.n - 1,
           \A n \in DOMAIN cl.answers : cl.answers[n] = "done" => ActedOn(acted', c, n)
    PROVE  ClientInv'
<1>1. /\ clients \in [DOMAIN clients -> ClientRows] /\ DOMAIN clients \subseteq Callers
      /\ conns \in Seq(ConnRows) /\ acted \subseteq ActRows
  BY DEF ClientInv, ClientTypeOK
<1>2. /\ clients' \in [DOMAIN clients -> ClientRows] /\ DOMAIN clients' = DOMAIN clients
      /\ clients'[c] = cl /\ \A d \in DOMAIN clients : d # c => clients'[d] = clients[d]
  BY <1>1
<1>3. /\ acted \subseteq acted' /\ acted' \subseteq ActRows
      /\ \A x \in acted' : x \in acted
           \/ (x[1] = c /\ x[2] = cl.n /\ ~ActedOn(acted, c, cl.n) /\ acted' = acted \union {x})
  BY <1>1 DEF CarriesOut
<1>4. \A d \in DOMAIN clients : \A n : d # c => (ActedOn(acted', d, n) <=> ActedOn(acted, d, n))
  BY <1>3 DEF ActedOn
<1>5. ClientTypeOK'
  BY <1>1, <1>2, <1>3 DEF ClientTypeOK
<1>6. CallsAreSomewhere'
  <2>1. ASSUME NEW d \in DOMAIN clients, d # c, clients[d].conn = 0
        PROVE  clients[d].at = "idle" /\ ~ActedOn(acted', d, clients[d].n)
    BY <1>4, <2>1 DEF ClientInv, CallsAreSomewhere
  <2>2. ASSUME NEW d \in DOMAIN clients, d # c, clients[d].conn # 0
        PROVE  /\ clients[d].conn \in DOMAIN conns' /\ conns'[clients[d].conn].who = d
               /\ Fits(clients[d], conns'[clients[d].conn], acted')
    <3>1. PICK k, cd : k = clients[d].conn /\ cd = clients[d]
      OBVIOUS
    <3>2. k \in DOMAIN conns /\ conns[k].who = d /\ Fits(cd, conns[k], acted)
      BY <2>2, <3>1 DEF ClientInv, CallsAreSomewhere
    <3>3. k \in DOMAIN conns' /\ conns'[k] = conns[k]
      BY <2>2, <3>2
    <3>4. PICK conn, olds, news : conn = conns[k] /\ olds = acted /\ news = acted'
      OBVIOUS
    <3>5. Done(cd, conn, news) <=> Done(cd, conn, olds)
      BY <1>4, <2>2, <3>2, <3>4 DEF Done
    <3>6. Fits(cd, conn, news)
      BY <3>2, <3>4, <3>5 DEF Fits
    <3> QED
      BY <3>1, <3>2, <3>3, <3>4, <3>6
  <2>3. ASSUME NEW d \in DOMAIN clients'
        PROVE  /\ clients'[d].conn = 0 =>
                    clients'[d].at = "idle" /\ ~ActedOn(acted', d, clients'[d].n)
               /\ clients'[d].conn # 0 =>
                    /\ clients'[d].conn \in DOMAIN conns' /\ conns'[clients'[d].conn].who = d
                    /\ Fits(clients'[d], conns'[clients'[d].conn], acted')
    <3>1. CASE d = c
      BY <1>2, <3>1
    <3>2. CASE d # c
      <4>1. clients'[d] = clients[d] /\ d \in DOMAIN clients
        BY <1>2, <2>3, <3>2
      <4> QED
        BY <2>1, <2>2, <3>2, <4>1
    <3> QED
      BY <3>1, <3>2
  <2>4. ASSUME NEW k \in DOMAIN conns'
        PROVE  /\ conns'[k].who \in DOMAIN clients'
               /\ clients'[conns'[k].who].conn # k => GivenUp(conns'[k])
    <3>1. CASE conns'[k].who = c
      BY <1>2, <2>4, <3>1
    <3>2. CASE conns'[k].who # c
      <4>1. k \in DOMAIN conns /\ conns'[k] = conns[k]
        BY <2>4, <3>2
      <4>2. /\ conns[k].who \in DOMAIN clients
            /\ clients[conns[k].who].conn # k => GivenUp(conns[k])
        BY <4>1 DEF ClientInv, CallsAreSomewhere
      <4> QED
        BY <1>2, <3>2, <4>1, <4>2
    <3> QED
      BY <3>1, <3>2
  <2> QED
    BY <2>3, <2>4 DEF CallsAreSomewhere
<1>7. ActsAreOne'
  <2>1. /\ \A x, y \in acted : x[1] = y[1] /\ x[2] = y[2] => x = y
        /\ \A act \in acted : act[1] \in DOMAIN clients /\ act[2] =< clients[act[1]].n
    BY DEF ClientInv, ActsAreOne
  <2>2. \A x \in acted : x[1] = c /\ x[2] = cl.n => ActedOn(acted, c, cl.n)
    BY DEF ActedOn
  <2>3. \A x, y \in acted' : x[1] = y[1] /\ x[2] = y[2] => x = y
    BY <1>3, <2>1, <2>2
  <2>4. \A act \in acted' : act[1] \in DOMAIN clients' /\ act[2] =< clients'[act[1]].n
    <3>1. clients[c].n \in Nat /\ cl.n \in Nat
      BY <1>1 DEF ClientRows
    <3> SUFFICES ASSUME NEW act \in acted'
                 PROVE  act[1] \in DOMAIN clients /\ act[2] =< clients'[act[1]].n
      BY <1>2
    <3>2. act[2] \in Nat
      BY <1>3 DEF ActRows
    <3>3. CASE act \in acted /\ act[1] # c
      BY <1>2, <2>1, <3>3
    <3>4. CASE act \in acted /\ act[1] = c
      <4>1. act[2] =< clients[c].n
        BY <2>1, <3>4
      <4> QED
        BY <1>2, <3>1, <3>2, <3>4, <4>1
    <3>5. CASE act[1] = c /\ act[2] = cl.n
      BY <1>2, <3>1, <3>5
    <3> QED
      BY <1>3, <3>3, <3>4, <3>5
  <2> QED
    BY <2>3, <2>4 DEF ActsAreOne
<1>8. AnswersFollow'
  <2>1. \A d, n : ActedOn(acted, d, n) => ActedOn(acted', d, n)
    BY <1>3 DEF ActedOn
  <2> QED
    BY <1>2, <2>1 DEF ClientInv, AnswersFollow
<1> QED
  BY <1>5, <1>6, <1>7, <1>8 DEF ClientInv

LEMMA RowReplaced ==
    ASSUME conns \in Seq(ConnRows), NEW k \in DOMAIN conns, NEW new \in ConnRows,
           conns' = [conns EXCEPT ![k] = new]
    PROVE  /\ conns' \in Seq(ConnRows) /\ DOMAIN conns' = DOMAIN conns /\ conns'[k] = new
           /\ \A l \in DOMAIN conns : l # k => conns'[l] = conns[l]
OBVIOUS

\* A connection that is served is the one of its client.
LEMMA ServedConn ==
    ASSUME ClientInv, NEW k \in DOMAIN conns, ~GivenUp(conns[k])
    PROVE  /\ conns[k].who \in DOMAIN clients /\ clients[conns[k].who].conn = k
           /\ Fits(clients[conns[k].who], conns[k], acted)
           /\ clients[conns[k].who] \in ClientRows /\ conns[k] \in ConnRows /\ k # 0
<1>1. conns \in Seq(ConnRows) /\ clients \in [DOMAIN clients -> ClientRows]
  BY DEF ClientInv, ClientTypeOK
<1>2. /\ conns[k].who \in DOMAIN clients /\ clients[conns[k].who].conn = k
      /\ conns[k] \in ConnRows /\ k # 0
  BY <1>1 DEF ClientInv, CallsAreSomewhere
<1> QED
  BY <1>1, <1>2 DEF ClientInv, CallsAreSomewhere

\* The server takes the frame, or answers it.
ConnGoes(k, new) == clients' = clients /\ conns' = [conns EXCEPT ![k] = new]
LEMMA ServeGoes ==
    ASSUME ClientInv, NEW k \in DOMAIN conns, ~GivenUp(conns[k]),
           NEW new \in ConnRows, new.who = conns[k].who, ConnGoes(k, new),
           CarriesOut(conns[k].who, clients[conns[k].who].n),
           Fits(clients[conns[k].who], new, acted')
    PROVE  ClientInv'
<1>1. PICK c, cl : c = conns[k].who /\ cl = clients[conns[k].who]
  OBVIOUS
<1>2. /\ c \in DOMAIN clients /\ cl.conn = k /\ k # 0 /\ cl = clients[c]
      /\ cl \in ClientRows /\ conns[k] \in ConnRows
  BY <1>1, ServedConn
<1>3. conns \in Seq(ConnRows) /\ clients \in [DOMAIN clients -> ClientRows]
  BY DEF ClientInv, ClientTypeOK
<1>4. /\ conns' \in Seq(ConnRows) /\ DOMAIN conns' = DOMAIN conns /\ conns'[k] = new
      /\ \A l \in DOMAIN conns : l # k => conns'[l] = conns[l]
  BY <1>3, RowReplaced DEF ConnGoes
<1>5. clients' = [clients EXCEPT ![c] = cl]
  BY <1>2, <1>3 DEF ConnGoes
<1>6. /\ \A l \in DOMAIN conns : /\ conns'[l].who = conns[l].who
                                 /\ conns[l].who # c => conns'[l] = conns[l]
      /\ \A l \in DOMAIN conns' \ DOMAIN conns : conns'[l].who = c
  BY <1>1, <1>4
<1>7. \A l \in DOMAIN conns' : conns'[l].who = c /\ cl.conn # l => GivenUp(conns'[l])
  BY <1>2, <1>4 DEF ClientInv, CallsAreSomewhere
<1>8. /\ cl.n =< cl.n /\ Len(cl.answers) = cl.n - 1 /\ acted \subseteq acted'
      /\ \A n \in DOMAIN cl.answers : cl.answers[n] = "done" => ActedOn(acted', c, n)
  <2>1. cl.n \in Nat /\ acted \subseteq acted'
    BY <1>2 DEF ClientRows, CarriesOut
  <2>2. \A n : ActedOn(acted, c, n) => ActedOn(acted', c, n)
    BY <2>1 DEF ActedOn
  <2> QED
    BY <1>2, <2>1, <2>2 DEF ClientInv, AnswersFollow
<1>9. Fits(cl, conns'[cl.conn], acted') /\ cl.conn \in DOMAIN conns' /\ conns'[cl.conn].who = c
  BY <1>1, <1>2, <1>4
<1>10. CarriesOut(c, cl.n)
  BY <1>1
<1>11. /\ cl.conn = 0 => cl.at = "idle" /\ ~ActedOn(acted', c, cl.n)
       /\ cl.conn # 0 => /\ cl.conn \in DOMAIN conns' /\ conns'[cl.conn].who = c
                         /\ Fits(cl, conns'[cl.conn], acted')
       /\ DOMAIN conns \subseteq DOMAIN conns' /\ clients[c].n =< cl.n
  BY <1>2, <1>4, <1>8, <1>9
<1>12. clients[c].n =< cl.n /\ Len(cl.answers) = cl.n - 1 /\ c \in DOMAIN clients /\ cl \in ClientRows
  BY <1>2, <1>8, <1>11
<1>13. \A n \in DOMAIN cl.answers : cl.answers[n] = "done" => ActedOn(acted', c, n)
  BY <1>8
<1>14. conns' \in Seq(ConnRows) /\ DOMAIN conns \subseteq DOMAIN conns'
  BY <1>4
<1> QED
  BY <1>5, <1>6, <1>7, <1>10, <1>11, <1>12, <1>13, <1>14, CallGoes

\* A client does something: nothing is carried out by that.
LEMMA ClientGoes ==
    ASSUME ClientInv, NEW c \in DOMAIN clients, NEW cl \in ClientRows, acted' = acted,
           clients' = [clients EXCEPT ![c] = cl],
           conns' \in Seq(ConnRows), DOMAIN conns \subseteq DOMAIN conns',
           \A k \in DOMAIN conns : k # clients[c].conn => conns'[k] = conns[k],
           clients[c].conn \in DOMAIN conns => conns'[clients[c].conn].who = c,
           cl.conn # clients[c].conn /\ clients[c].conn # 0 => GivenUp(conns'[clients[c].conn]),
           \A k \in DOMAIN conns' \ DOMAIN conns : conns'[k].who = c /\ k = cl.conn,
           cl.conn = 0 => cl.at = "idle" /\ ~ActedOn(acted, c, cl.n),
           cl.conn # 0 => /\ cl.conn \in DOMAIN conns' /\ conns'[cl.conn].who = c
                          /\ Fits(cl, conns'[cl.conn], acted),
           \/ cl.n = clients[c].n /\ cl.answers = clients[c].answers
           \/ /\ cl.n = clients[c].n + 1
              /\ \E answer \in AnswerKinds :
                   /\ cl.answers = Append(clients[c].answers, answer)
                   /\ answer = "done" => ActedOn(acted, c, clients[c].n)
    PROVE  ClientInv'
<1>1. /\ clients \in [DOMAIN clients -> ClientRows] /\ conns \in Seq(ConnRows)
      /\ clients[c] \in ClientRows
  BY DEF ClientInv, ClientTypeOK
<1>2. clients[c].conn # 0 => clients[c].conn \in DOMAIN conns /\ conns[clients[c].conn].who = c
  BY DEF ClientInv, CallsAreSomewhere
<1>3. 0 \notin DOMAIN conns /\ 0 \notin DOMAIN conns'
  BY <1>1
<1>4. /\ \A k \in DOMAIN conns : /\ conns'[k].who = conns[k].who
                                 /\ conns[k].who # c => conns'[k] = conns[k]
  BY <1>2, <1>3
<1>5. \A k \in DOMAIN conns' : conns'[k].who = c /\ cl.conn # k => GivenUp(conns'[k])
  <2> SUFFICES ASSUME NEW k \in DOMAIN conns', conns'[k].who = c, cl.conn # k
               PROVE  GivenUp(conns'[k])
    OBVIOUS
  <2>1. k \in DOMAIN conns
    OBVIOUS
  <2>2. CASE k = clients[c].conn
    BY <1>3, <2>1, <2>2
  <2>3. CASE k # clients[c].conn
    <3>1. conns'[k] = conns[k] /\ conns[k].who = c
      BY <2>1, <2>3
    <3> QED
      BY <2>1, <2>3, <3>1 DEF ClientInv, CallsAreSomewhere
  <2> QED
    BY <2>2, <2>3
<1>6. /\ clients[c].n =< cl.n /\ Len(cl.answers) = cl.n - 1
      /\ \A n \in DOMAIN cl.answers : cl.answers[n] = "done" => ActedOn(acted, c, n)
  <2>1. /\ clients[c].n \in Nat /\ clients[c].answers \in Seq(AnswerKinds)
        /\ Len(clients[c].answers) = clients[c].n - 1
        /\ \A n \in DOMAIN clients[c].answers :
              clients[c].answers[n] = "done" => ActedOn(acted, c, n)
    BY <1>1 DEF ClientRows, ClientInv, AnswersFollow
  <2>2. CASE cl.n = clients[c].n /\ cl.answers = clients[c].answers
    BY <2>1, <2>2
  <2>3. ASSUME NEW answer \in AnswerKinds, cl.n = clients[c].n + 1,
               cl.answers = Append(clients[c].answers, answer),
               answer = "done" => ActedOn(acted, c, clients[c].n)
        PROVE  /\ clients[c].n =< cl.n /\ Len(cl.answers) = cl.n - 1
               /\ \A n \in DOMAIN cl.answers : cl.answers[n] = "done" => ActedOn(acted, c, n)
    <3>1. PICK q, m : q = clients[c].answers /\ m = clients[c].n
      OBVIOUS
    <3>2. q \in Seq(AnswerKinds) /\ Len(q) = m - 1 /\ m \in Nat
      BY <2>1, <3>1
    <3>3. /\ Len(Append(q, answer)) = m /\ Append(q, answer)[m] = answer
          /\ DOMAIN Append(q, answer) = 1 .. m /\ DOMAIN q = 1 .. (m - 1)
          /\ \A n \in 1 .. (m - 1) : Append(q, answer)[n] = q[n]
      BY <2>3, <3>2
    <3>4. \A n \in 1 .. m : n = m \/ n \in 1 .. (m - 1)
      BY <3>2
    <3> QED
      BY <2>1, <2>3, <3>1, <3>2, <3>3, <3>4
  <2> QED
    BY <2>2, <2>3
<1>7. /\ cl.conn = 0 => cl.at = "idle" /\ ~ActedOn(acted', c, cl.n)
      /\ cl.conn # 0 => /\ cl.conn \in DOMAIN conns' /\ conns'[cl.conn].who = c
                        /\ Fits(cl, conns'[cl.conn], acted')
      /\ \A n \in DOMAIN cl.answers : cl.answers[n] = "done" => ActedOn(acted', c, n)
      /\ \A k \in DOMAIN conns' \ DOMAIN conns : conns'[k].who = c
  BY <1>6
<1>8. CarriesOut(c, cl.n)
  BY DEF CarriesOut
<1> QED
  BY <1>4, <1>5, <1>6, <1>7, <1>8, CallGoes, ZenonT(60)

\* A frame has come, and what the server answers to it.
LEMMA OneFrame ==
    ASSUME NEW S, NEW q \in Seq(S), Len(q) = 1
    PROVE  q # <<>> /\ Tail(q) = <<>> /\ Head(q) = q[1] /\ Head(q) \in S
<1>1. q # <<>> /\ Len(Tail(q)) = 0 /\ Tail(q) \in Seq(S) /\ Head(q) = q[1] /\ q[1] \in S
  OBVIOUS
<1>2. \A r \in Seq(S) : Len(r) = 0 => r = <<>>
  OBVIOUS
<1> QED
  BY <1>1, <1>2

LEMMA AloneFrame ==
    ASSUME NEW S, NEW q \in Seq(S), q # <<>>, Tail(q) = <<>>
    PROVE  Len(q) = 1
<1>1. Len(Tail(q)) = Len(q) - 1 /\ Len(q) \in Nat
  OBVIOUS
<1>2. PICK m, t : m = Len(t) /\ t = Tail(q)
  OBVIOUS
<1>3. m = 0
  BY <1>2
<1> QED
  BY <1>1, <1>2, <1>3

LEMMA OneAnswer ==
    ASSUME NEW answer \in AnswerKinds
    PROVE  /\ Append(<<>>, answer) = <<answer>> /\ <<answer>> \in Seq(AnswerKinds)
           /\ Len(<<answer>>) = 1 /\ <<answer>>[1] = answer /\ <<answer>> # <<>>
           /\ Len(<<>>) = 0 /\ <<>> \in Seq(AnswerKinds) /\ <<>> \in Seq(Frames)
           /\ \A other : <<other>> = <<answer>> => other = answer
OBVIOUS

\* What a connection has when its server serves it.
LEMMA ServesFacts ==
    ASSUME ClientInv, NEW k \in DOMAIN conns, Serves(k), conns[k].at # "closed"
    PROVE  LET client == clients[conns[k].who]
           IN  /\ ~GivenUp(conns[k]) /\ conns[k] \in ConnRows /\ conns[k].out = <<>>
               /\ conns[k].in # <<>> /\ Tail(conns[k].in) = <<>> /\ Head(conns[k].in) \in Frames
               /\ client \in ClientRows
               /\ conns[k].at = "hello" => client.at = "greet" /\ ~Done(client, conns[k], acted)
               /\ conns[k].at = "open" => client.at = "wait" /\ ~Done(client, conns[k], acted)
               /\ conns[k].at = "acting" => client.at = "wait" /\ Done(client, conns[k], acted)
<1>1. conns[k].in # <<>> /\ ~GivenUp(conns[k])
  BY DEF Serves, GivenUp
<1>2. PICK cl, conn, acts : cl = clients[conns[k].who] /\ conn = conns[k] /\ acts = acted
  OBVIOUS
<1>3. Fits(cl, conn, acts) /\ cl \in ClientRows /\ conn \in ConnRows
  BY <1>1, <1>2, ServedConn
<1>4. conn.in # <<>> /\ conn.at # "closed" /\ conn.in \in Seq(Frames)
      /\ cl.at \in {"idle", "greet", "wait"}
  BY <1>1, <1>2, <1>3 DEF ClientRows, ConnRows
<1>5. /\ conn.out = <<>> /\ Len(conn.in) = 1
      /\ conn.at = "hello" => cl.at = "greet" /\ ~Done(cl, conn, acts)
      /\ conn.at = "open" => cl.at = "wait" /\ ~Done(cl, conn, acts)
      /\ conn.at = "acting" => cl.at = "wait" /\ Done(cl, conn, acts)
  <2>1. CASE cl.at = "greet"
    <3>1. conn.at = "hello" /\ conn.in = <<"hello">> /\ conn.out = <<>> /\ ~Done(cl, conn, acts)
      BY <1>3, <1>4, <2>1 DEF Fits
    <3> QED
      BY <2>1, <3>1
  <2>2. CASE cl.at = "idle"
    BY <1>3, <1>4, <2>2 DEF Fits
  <2>3. CASE cl.at = "wait"
    BY <1>3, <1>4, <2>3 DEF Fits
  <2> QED
    BY <1>4, <2>1, <2>2, <2>3
<1>6. Tail(conn.in) = <<>> /\ Head(conn.in) \in Frames
  BY <1>4, <1>5, OneFrame
<1> QED
  BY <1>1, <1>2, <1>3, <1>5, <1>6

\* The answers that do not need the token to be carried out.
LEMMA AnswersStep ==
    ASSUME IpcInv, NEW k \in DOMAIN conns, Serves(k), NEW answer \in AnswerKinds,
           NEW at \in {"open", "closed"}, Replies(k, answer, at), acted' = acted, clients' = clients,
           UNCHANGED serverVars,
           \/ conns[k].at = "hello" /\ answer = "ok" /\ at = "open"
           \/ conns[k].at = "hello" /\ answer = "unauthorized" /\ at = "closed"
           \/ conns[k].at = "open" /\ answer # "done"
           \/ conns[k].at = "acting"
    PROVE  IpcInv'
<1>1. ClientInv /\ ServerInv /\ conns[k].at # "closed"
  BY DEF IpcInv
<1>2. PICK cl, conn, acts : cl = clients[conns[k].who] /\ conn = conns[k] /\ acts = acted
  OBVIOUS
<1>3. /\ ~GivenUp(conns[k]) /\ conns[k] \in ConnRows /\ conns[k].out = <<>>
      /\ conns[k].in # <<>> /\ Tail(conns[k].in) = <<>> /\ cl \in ClientRows
      /\ conn.at = "hello" => cl.at = "greet" /\ ~Done(cl, conn, acts)
      /\ conn.at = "open" => cl.at = "wait" /\ ~Done(cl, conn, acts)
      /\ conn.at = "acting" => cl.at = "wait" /\ Done(cl, conn, acts)
  BY <1>1, <1>2, ServesFacts
<1>4. PICK new \in ConnRows :
             /\ new.app = conns[k].app /\ new.who = conns[k].who /\ new.at = at
             /\ new.in = <<>> /\ new.out = <<answer>> /\ ConnGoes(k, new)
  <2>1. PICK new : new = [conns[k] EXCEPT !.in = <<>>, !.out = <<answer>>, !.at = at]
    OBVIOUS
  <2>2. /\ new \in ConnRows /\ new.app = conns[k].app /\ new.who = conns[k].who /\ new.at = at
        /\ new.in = <<>> /\ new.out = <<answer>>
    BY <1>3, <2>1, OneAnswer DEF ConnRows
  <2>3. conns' = [conns EXCEPT ![k] = new]
    BY <1>3, <2>1, OneAnswer DEF Replies
  <2> QED
    BY <2>2, <2>3 DEF ConnGoes
<1>5. Done(cl, new, acts) <=> Done(cl, conn, acts)
  BY <1>2, <1>4 DEF Done
<1>6. Fits(cl, new, acts)
  <2>1. CASE conn.at = "hello"
    BY <1>2, <1>3, <1>4, <1>5, <2>1, OneAnswer DEF Fits
  <2>2. CASE conn.at = "open" \/ conn.at = "acting"
    <3>1. Len(new.out) = 1 /\ new.out[1] = answer /\ (answer = "done" => Done(cl, new, acts))
      BY <1>2, <1>3, <1>4, <1>5, <2>2, OneAnswer
    <3>2. new.out = <<"done">> => Done(cl, new, acts)
      BY <1>4, <3>1, OneAnswer
    <3> QED
      BY <1>3, <1>4, <2>2, <3>1, <3>2 DEF Fits
  <2> QED
    BY <1>2, <2>1, <2>2
<1>7. ClientInv'
  BY <1>1, <1>2, <1>3, <1>4, <1>6, ServeGoes DEF CarriesOut
<1>8. ServerInv'
  <2>1. \A l \in DOMAIN conns' : l \in DOMAIN conns /\ conns'[l].app = conns[l].app
    BY <1>1, <1>4, RowReplaced DEF ClientInv, ClientTypeOK, ConnGoes
  <2> QED
    BY <1>1, <2>1, ServerRests DEF ServerInv, SessionsAreOfTheFirst
<1> QED
  BY <1>7, <1>8 DEF IpcInv

LEMMA GreetsStep == ASSUME IpcInv, NEW k \in DOMAIN conns, Greets(k) PROVE IpcInv'
<1>1. /\ Serves(k) /\ conns[k].at = "hello" /\ acted' = acted /\ clients' = clients
      /\ UNCHANGED serverVars
      /\ Replies(k, "ok", "open") \/ Replies(k, "unauthorized", "closed")
  BY DEF Greets, serverVars
<1> QED
  BY <1>1, AnswersStep DEF AnswerKinds

LEMMA SkipsStep == ASSUME IpcInv, NEW k \in DOMAIN conns, Skips(k) PROVE IpcInv'
<1>1. /\ Serves(k) /\ conns[k].at = "open" /\ acted' = acted /\ clients' = clients
      /\ UNCHANGED serverVars
      /\ Replies(k, "too large", "closed") \/ Replies(k, "invalid", "open")
  BY DEF Skips, serverVars
<1> QED
  BY <1>1, AnswersStep DEF AnswerKinds

LEMMA ActsStep == ASSUME IpcInv, NEW k \in DOMAIN conns, Acts(k) PROVE IpcInv'
<1>1. /\ Serves(k) /\ conns[k].at = "acting" /\ acted' = acted /\ clients' = clients
      /\ UNCHANGED serverVars
      /\ Replies(k, "huge", "open") \/ Replies(k, "done", "open")
  BY DEF Acts, serverVars
<1> QED
  BY <1>1, AnswersStep DEF AnswerKinds

LEMMA HandlesStep == ASSUME IpcInv, NEW k \in DOMAIN conns, Handles0(k) PROVE IpcInv'
<1>1. /\ Serves(k) /\ conns[k].at = "open" /\ clients' = clients /\ UNCHANGED serverVars
  BY DEF Handles0, serverVars
<1>2. CASE ~StillValid(k)
  BY <1>1, <1>2, AnswersStep DEF Handles0, AnswerKinds
<1>3. CASE StillValid(k)
  <2>1. ClientInv /\ ServerInv /\ conns[k].at # "closed"
    BY <1>1 DEF IpcInv
  <2>2. PICK c, cl, conn, x, b :
           /\ c = conns[k].who /\ cl = clients[c] /\ conn = conns[k]
           /\ b = (conns[k].token \in alive) /\ x = <<c, cl.n, k, b>>
    OBVIOUS
  <2>3. /\ ~GivenUp(conns[k]) /\ conn \in ConnRows /\ conn.out = <<>> /\ cl \in ClientRows
        /\ conns[k].in # <<>> /\ cl.at = "wait" /\ ~Done(cl, conn, acted) /\ Len(conn.in) = 1
    <3>1. /\ ~GivenUp(conns[k]) /\ conn \in ConnRows /\ conn.out = <<>> /\ cl \in ClientRows
          /\ conns[k].in # <<>> /\ cl.at = "wait" /\ ~Done(cl, conn, acted)
          /\ Tail(conn.in) = <<>>
      BY <1>1, <2>1, <2>2, ServesFacts
    <3>2. conn.in \in Seq(Frames) /\ conn.in # <<>>
      BY <2>2, <3>1 DEF ConnRows
    <3>3. Len(conn.in) = 1
      BY <3>1, <3>2, AloneFrame
    <3> QED
      BY <3>1, <3>3
  <2>4. acted' = acted \union {x} /\ conns' = [conns EXCEPT ![k].at = "acting"]
    BY <1>3, <2>2 DEF Handles0
  <2>5. PICK new : new = [conn EXCEPT !.at = "acting"]
    OBVIOUS
  <2>6. /\ new \in ConnRows /\ new.who = conn.who /\ new.at = "acting" /\ new.out = <<>>
        /\ new.in = conn.in /\ new.app = conn.app
    BY <2>3, <2>5 DEF ConnRows
  <2>7. ConnGoes(k, new)
    BY <1>1, <2>2, <2>4, <2>5 DEF ConnGoes
  <2>8. x \in ActRows /\ x[1] = c /\ x[2] = cl.n /\ x[4] = b
    <3>1. c \in Callers /\ cl.n \in Nat /\ k \in Nat /\ b \in BOOLEAN
      <4>1. conn.who \in Callers /\ cl.n \in Nat
        BY <2>3 DEF ConnRows, ClientRows
      <4>2. conns \in Seq(ConnRows)
        BY <2>1 DEF ClientInv, ClientTypeOK
      <4> QED
        BY <2>2, <4>1, <4>2
    <3> QED
      BY <2>2, <3>1 DEF ActRows
  <2>9. CarriesOut(c, cl.n) /\ Done(cl, new, acted')
    BY <2>2, <2>3, <2>4, <2>6, <2>8 DEF CarriesOut, Done, ActedOn
  <2>10. Fits(cl, new, acted')
    BY <2>3, <2>6, <2>9 DEF Fits
  <2>11. ClientInv'
    BY <2>1, <2>2, <2>3, <2>6, <2>7, <2>9, <2>10, ServeGoes
  <2>12. ASSUME ~crossed PROVE x[4]
    <3>1. conns[k].app = 1 /\ Listens(1)
      BY <1>1, <2>1, <2>12 DEF ServerInv, SessionsAreOfTheFirst, Serves
    <3>2. valid \subseteq alive
      BY <2>1, <3>1 DEF ServerInv, SessionsAreOfTheFirst, Listens
    <3> QED
      BY <1>3, <2>2, <2>8, <3>2 DEF StillValid, Authenticates
  <2>13. \A l \in DOMAIN conns' : l \in DOMAIN conns /\ conns'[l].app = conns[l].app
    BY <2>1, <2>2, <2>6, <2>7, RowReplaced DEF ClientInv, ClientTypeOK, ConnGoes
  <2>14. ServerInv'
    BY <1>1, <2>1, <2>4, <2>12, <2>13, ServerRests DEF ServerInv, SessionsAreOfTheFirst
  <2> QED
    BY <2>11, <2>14 DEF IpcInv
<1> QED
  BY <1>2, <1>3

\* The client connects, asks and hears.
LEMMA ConnectsStep == ASSUME IpcInv, NEW c \in DOMAIN clients, Connects(c) PROVE IpcInv'
<1>1. /\ ClientInv /\ ServerInv /\ clients \in [DOMAIN clients -> ClientRows]
      /\ conns \in Seq(ConnRows) /\ clients[c] \in ClientRows /\ c \in Callers
      /\ clients[c].conn = 0 /\ clients[c].at = "idle" /\ ~ActedOn(acted, c, clients[c].n)
  BY DEF IpcInv, ClientInv, ClientTypeOK, CallsAreSomewhere, Connects
<1>2. acted' = acted /\ UNCHANGED serverVars /\ alive # {} /\ Says(c).token \in alive
  BY DEF Connects, serverVars
<1>3. \A n : ActedOn(acted, c, n) => n =< clients[c].n
  BY <1>1 DEF ClientInv, ActsAreOne, ActedOn
<1>4. CASE ~Answers0
  <2>1. PICK cl : cl = [clients[c] EXCEPT !.answers = Append(@, "unreachable"), !.n = @ + 1]
    OBVIOUS
  <2>2. /\ cl \in ClientRows /\ cl.n = clients[c].n + 1 /\ cl.conn = 0 /\ cl.at = "idle"
        /\ cl.answers = Append(clients[c].answers, "unreachable") /\ clients[c].n \in Nat
    <3>1. /\ clients[c].n \in Nat /\ clients[c].n + 1 \in Nat \ {0}
          /\ Append(clients[c].answers, "unreachable") \in Seq(AnswerKinds)
      <4>1. clients[c].answers \in Seq(AnswerKinds) /\ clients[c].n \in Nat \ {0}
        BY <1>1 DEF ClientRows
      <4>2. "unreachable" \in AnswerKinds
        BY DEF AnswerKinds
      <4> QED
        BY <4>1, <4>2
    <3> QED
      BY <1>1, <2>1, <3>1 DEF ClientRows
  <2>3. clients' = [clients EXCEPT ![c] = cl] /\ conns' = conns
    BY <1>1, <1>4, <2>1 DEF Connects
  <2>4. ~ActedOn(acted, c, cl.n)
    BY <1>3, <2>2
  <2>5. ClientInv'
    <3>1. /\ conns' \in Seq(ConnRows) /\ DOMAIN conns' = DOMAIN conns /\ 0 \notin DOMAIN conns
          /\ \A k \in DOMAIN conns : conns'[k] = conns[k]
          /\ \A k \in DOMAIN conns' \ DOMAIN conns : conns'[k].who = c /\ k = cl.conn
      BY <1>1, <2>3
    <3>2. \E answer \in AnswerKinds : /\ cl.answers = Append(clients[c].answers, answer)
                                      /\ answer = "done" => ActedOn(acted, c, clients[c].n)
      BY <2>2 DEF AnswerKinds
    <3>3. clients' = [clients EXCEPT ![c] = cl]
      BY <2>3
    <3>4. /\ cl.conn # clients[c].conn /\ clients[c].conn # 0 => GivenUp(conns'[clients[c].conn])
          /\ cl.conn = 0 => cl.at = "idle" /\ ~ActedOn(acted, c, cl.n)
          /\ cl.conn # 0 => /\ cl.conn \in DOMAIN conns' /\ conns'[cl.conn].who = c
                            /\ Fits(cl, conns'[cl.conn], acted)
          /\ clients[c].conn \in DOMAIN conns => conns'[clients[c].conn].who = c
      BY <1>1, <2>2, <2>4, <3>1
    <3>5. \/ cl.n = clients[c].n /\ cl.answers = clients[c].answers
          \/ /\ cl.n = clients[c].n + 1
             /\ \E answer \in AnswerKinds :
                   /\ cl.answers = Append(clients[c].answers, answer)
                   /\ answer = "done" => ActedOn(acted, c, clients[c].n)
      <4>1. cl.n = clients[c].n + 1
        BY <2>2
      <4> QED
        BY <3>2, <4>1
    <3>6. ClientInv /\ acted' = acted /\ cl \in ClientRows /\ DOMAIN conns \subseteq DOMAIN conns'
      BY <1>1, <1>2, <2>2, <3>1
    <3> QED
      BY <3>1, <3>3, <3>4, <3>5, <3>6, ClientGoes
  <2>6. ServerInv'
    BY <1>1, <1>2, <2>3, ServerRests DEF ServerInv, SessionsAreOfTheFirst
  <2> QED
    BY <2>5, <2>6 DEF IpcInv
<1>5. CASE Answers0
  <2>1. PICK new, cl :
          /\ new = [app |-> socket, at |-> "hello", in |-> <<"hello">>, out |-> <<>>,
                    token |-> Says(c).token, who |-> c]
          /\ cl = [clients[c] EXCEPT !.at = "greet", !.conn = Len(conns) + 1]
    OBVIOUS
  <2>2. socket \in Apps /\ Listens(socket)
    BY <1>1, <1>5 DEF ServerInv, ServerTypeOK, Answers0
  <2>3. <<"hello">> \in Seq(Frames) /\ <<>> \in Seq(AnswerKinds)
    BY DEF Frames
  <2>4. /\ new \in ConnRows /\ new.app = socket /\ new.at = "hello" /\ new.in = <<"hello">>
        /\ new.out = <<>> /\ new.who = c
    BY <1>1, <1>2, <2>1, <2>2, <2>3 DEF ConnRows, ServerInv, ServerTypeOK
  <2>5. /\ cl \in ClientRows /\ cl.at = "greet" /\ cl.conn = Len(conns) + 1
        /\ cl.n = clients[c].n /\ cl.answers = clients[c].answers
    <3>1. Len(conns) + 1 \in Nat
      BY <1>1
    <3> QED
      BY <1>1, <2>1, <3>1 DEF ClientRows
  <2>6. conns' = Append(conns, new)
    BY <1>5, <2>1 DEF Connects
  <2>7. /\ conns' \in Seq(ConnRows) /\ DOMAIN conns' = DOMAIN conns \union {Len(conns) + 1}
        /\ conns'[Len(conns) + 1] = new /\ Len(conns') = Len(conns) + 1 /\ Len(conns) \in Nat
        /\ \A k \in DOMAIN conns : conns'[k] = conns[k] /\ k # Len(conns) + 1
        /\ 0 \notin DOMAIN conns
    BY <1>1, <2>4, <2>6
  <2>8. clients' = [clients EXCEPT ![c] = cl]
    BY <1>1, <1>5, <2>1, <2>7 DEF Connects
  <2>9. Fits(cl, conns'[cl.conn], acted) /\ cl.conn \in DOMAIN conns' /\ conns'[cl.conn].who = c
    <3>1. ~Done(cl, new, acted)
      BY <1>1, <2>4, <2>5 DEF Done
    <3>2. Fits(cl, new, acted)
      BY <2>4, <2>5, <3>1 DEF Fits
    <3> QED
      BY <2>4, <2>5, <2>7, <3>2
  <2>10. cl.conn # 0
    BY <2>5, <2>7
  <2>11. ClientInv'
    <3> HIDE <2>1, <2>6
    <3> QED
      BY <1>1, <1>2, <2>5, <2>7, <2>8, <2>9, <2>10, ClientGoes
  <2>12. ~crossed => socket = 1
    BY <1>1, <1>2, <2>2, AppsAssumption DEF ServerInv, SessionsAreOfTheFirst, OneListens
  <2>13. ServerInv'
    BY <1>1, <1>2, <2>4, <2>7, <2>12, ServerRests DEF ServerInv, SessionsAreOfTheFirst
  <2> QED
    BY <2>11, <2>13 DEF IpcInv
<1> QED
  BY <1>4, <1>5

LEMMA AsksStep == ASSUME IpcInv, NEW c \in DOMAIN clients, Asks(c) PROVE IpcInv'
<1>1. /\ ClientInv /\ ServerInv /\ clients \in [DOMAIN clients -> ClientRows]
      /\ conns \in Seq(ConnRows) /\ clients[c] \in ClientRows
      /\ clients[c].at = "idle" /\ clients[c].conn # 0
  BY DEF IpcInv, ClientInv, ClientTypeOK, Asks
<1>2. PICK k, cl : k = clients[c].conn /\ cl = [clients[c] EXCEPT !.at = "wait"]
  OBVIOUS
<1>3. k \in DOMAIN conns /\ conns[k].who = c /\ Fits(clients[c], conns[k], acted)
  BY <1>1, <1>2 DEF ClientInv, CallsAreSomewhere
<1>4. /\ cl \in ClientRows /\ cl.at = "wait" /\ cl.conn = k /\ cl.n = clients[c].n
      /\ cl.answers = clients[c].answers
  BY <1>1, <1>2 DEF ClientRows
<1>5. /\ acted' = acted /\ UNCHANGED serverVars /\ clients' = [clients EXCEPT ![c] = cl]
      /\ conns' = IF conns[k].at = "closed" THEN conns ELSE Sends(k, CallOf(c))
  BY <1>1, <1>2 DEF Asks, serverVars
<1>6. PICK conn, acts, old : conn = conns[k] /\ acts = acted /\ old = clients[c]
  OBVIOUS
<1>7. /\ ~Done(old, conn, acts) /\ conn.out = <<>> /\ conn \in ConnRows
      /\ conn.at = "closed" \/ (conn.at = "open" /\ conn.in = <<>>)
  BY <1>1, <1>3, <1>6 DEF Fits
<1>8. PICK new \in ConnRows :
        /\ new.who = c /\ new.app = conn.app /\ new.out = <<>> /\ conns' = [conns EXCEPT ![k] = new]
        /\ \/ new.at = "closed"
           \/ new.at = "open" /\ Len(new.in) = 1
  <2>1. CASE conn.at = "closed"
    <3>1. conns' = [conns EXCEPT ![k] = conn]
      BY <1>1, <1>3, <1>5, <1>6, <2>1
    <3> QED
      BY <1>3, <1>6, <1>7, <2>1, <3>1
  <2>2. CASE conn.at = "open" /\ conn.in = <<>>
    <3>1. PICK frame : frame = CallOf(c)
      OBVIOUS
    <3>2. frame \in Frames
      <4>1. /\ clients[c].n \in Nat \ {0} /\ clients[c].ask.calls \in Seq(Frames)
            /\ clients[c].n =< Len(clients[c].ask.calls)
        BY <1>1 DEF ClientRows, IpcAsked, Asks, Says
      <4> QED
        BY <3>1, <4>1 DEF CallOf, Says
    <3>3. /\ Append(<<>>, frame) = <<frame>> /\ <<frame>> \in Seq(Frames) /\ Len(<<frame>>) = 1
      BY <3>2
    <3>4. PICK new : new = [conn EXCEPT !.in = <<frame>>]
      OBVIOUS
    <3>5. /\ new \in ConnRows /\ new.who = conn.who /\ new.app = conn.app /\ new.out = conn.out
          /\ new.at = conn.at /\ new.in = <<frame>>
      BY <1>7, <3>3, <3>4 DEF ConnRows
    <3>6. conns' = [conns EXCEPT ![k] = new]
      BY <1>3, <1>5, <1>6, <2>2, <3>1, <3>3, <3>4 DEF Sends
    <3> QED
      BY <1>3, <1>6, <1>7, <2>2, <3>3, <3>5, <3>6
  <2> QED
    BY <1>7, <2>1, <2>2
<1>9. /\ conns' \in Seq(ConnRows) /\ DOMAIN conns' = DOMAIN conns /\ conns'[k] = new
      /\ \A l \in DOMAIN conns : l # k => conns'[l] = conns[l]
  BY <1>1, <1>3, <1>8, RowReplaced
<1>10. Fits(cl, new, acts)
  <2>1. ~Done(cl, new, acts)
    BY <1>3, <1>4, <1>6, <1>7, <1>8 DEF Done
  <2>2. Len(new.out) = 0 /\ new.out # <<"done">>
    BY <1>8
  <2> QED
    BY <1>4, <1>8, <2>1, <2>2 DEF Fits
<1>11. ClientInv'
  <2>1. conns'[k].who = c /\ Fits(cl, conns'[k], acted)
    BY <1>6, <1>8, <1>9, <1>10
  <2>2. clients' = [clients EXCEPT ![c] = cl] /\ acted' = acted
    BY <1>5
  <2>3. clients[c].conn = k /\ k # 0 /\ DOMAIN conns' = DOMAIN conns
    BY <1>1, <1>2, <1>9
  <2> QED
    BY <1>3, <1>4, <1>9, <1>1, <2>1, <2>2, <2>3, ClientGoes
<1>12. ServerInv'
  BY <1>1, <1>3, <1>5, <1>6, <1>8, <1>9, ServerRests DEF ServerInv, SessionsAreOfTheFirst
<1> QED
  BY <1>11, <1>12 DEF IpcInv

\* What a client hears ends its call, or lets it ask.
LEMMA HearsClient ==
    ASSUME ClientInv, NEW c \in DOMAIN clients, clients[c].at \in {"greet", "wait"}, Hears(c)
    PROVE  LET k == clients[c].conn
               conn == conns[k]
               old == clients[c]
           IN  \E cl \in ClientRows, new \in ConnRows :
                 /\ clients' = [clients EXCEPT ![c] = cl] /\ conns' = [conns EXCEPT ![k] = new]
                 /\ new.app = conn.app /\ new.who = conn.who /\ new.at = conn.at /\ new.in = conn.in
                 /\ new.out = IF conn.out = <<>> THEN <<>> ELSE Tail(conn.out)
                 /\ cl.at = "idle" /\ cl.conn \in {0, k}
                 /\ \/ /\ old.at = "greet" /\ cl.conn = k /\ cl.n = old.n /\ cl.answers = old.answers
                       /\ conn.out # <<>> /\ Head(conn.out) = "ok"
                    \/ /\ cl.n = old.n + 1 /\ cl.conn = 0
                       /\ conn.at = "closed" \/ conn.out # <<>>
                       /\ cl.answers = Append(old.answers, "error")
                       /\ ~(old.at = "greet" /\ conn.out # <<>> /\ Head(conn.out) = "ok")
                    \/ /\ cl.n = old.n + 1 /\ old.at = "wait" /\ conn.out # <<>>
                       /\ cl.answers = Append(old.answers, Head(conn.out))
<1>1. PICK k, conn, old : k = clients[c].conn /\ conn = conns[k] /\ old = clients[c]
  OBVIOUS
<1>2. /\ clients \in [DOMAIN clients -> ClientRows] /\ old \in ClientRows /\ conns \in Seq(ConnRows)
      /\ k \in DOMAIN conns /\ conn \in ConnRows /\ conn.out \in Seq(AnswerKinds)
      /\ k \in Nat /\ old.at \in {"greet", "wait"}
  <2>1. /\ clients \in [DOMAIN clients -> ClientRows] /\ old \in ClientRows
        /\ conns \in Seq(ConnRows)
    BY <1>1 DEF ClientInv, ClientTypeOK
  <2>2. k # 0
    BY <1>1 DEF ClientInv, CallsAreSomewhere
  <2>3. k \in DOMAIN conns
    BY <1>1, <2>2 DEF ClientInv, CallsAreSomewhere
  <2>4. conn \in ConnRows
    BY <1>1, <2>1, <2>3
  <2> QED
    BY <1>1, <2>1, <2>3, <2>4 DEF ConnRows
<1>3. /\ old.n \in Nat /\ old.n + 1 \in Nat \ {0} /\ old.answers \in Seq(AnswerKinds)
      /\ \A answer \in AnswerKinds : Append(old.answers, answer) \in Seq(AnswerKinds)
  <2>1. old.n \in Nat \ {0} /\ old.answers \in Seq(AnswerKinds)
    BY <1>2 DEF ClientRows
  <2> QED
    BY <2>1
<1>4. conn.out # <<>> => Head(conn.out) \in AnswerKinds /\ Tail(conn.out) \in Seq(AnswerKinds)
  BY <1>2
<1>5. PICK new \in ConnRows :
         /\ conns' = [conns EXCEPT ![k] = new]
         /\ new.app = conn.app /\ new.who = conn.who /\ new.at = conn.at /\ new.in = conn.in
         /\ new.out = IF conn.out = <<>> THEN <<>> ELSE Tail(conn.out)
  <2>1. CASE conn.out # <<>>
    <3>1. PICK new : new = [conn EXCEPT !.out = Tail(conn.out)]
      OBVIOUS
    <3>2. /\ new \in ConnRows /\ new.app = conn.app /\ new.who = conn.who /\ new.at = conn.at
          /\ new.in = conn.in /\ new.out = Tail(conn.out)
      BY <1>2, <1>4, <2>1, <3>1 DEF ConnRows
    <3>3. conns' = [conns EXCEPT ![k] = new]
      BY <1>1, <2>1, <3>1 DEF Hears
    <3> QED
      BY <2>1, <3>2, <3>3
  <2>2. CASE conn.out = <<>>
    <3>1. conns' = [conns EXCEPT ![k] = conn]
      BY <1>1, <1>2, <2>2 DEF Hears
    <3> QED
      BY <1>2, <2>2, <3>1
  <2> QED
    BY <2>1, <2>2
<1> DEFINE Goal(cl) ==
                 /\ clients' = [clients EXCEPT ![c] = cl]
                 /\ cl.at = "idle" /\ cl.conn \in {0, k}
                 /\ \/ /\ old.at = "greet" /\ cl.conn = k /\ cl.n = old.n /\ cl.answers = old.answers
                       /\ conn.out # <<>> /\ Head(conn.out) = "ok"
                    \/ /\ cl.n = old.n + 1 /\ cl.conn = 0
                       /\ conn.at = "closed" \/ conn.out # <<>>
                       /\ cl.answers = Append(old.answers, "error")
                       /\ ~(old.at = "greet" /\ conn.out # <<>> /\ Head(conn.out) = "ok")
                    \/ /\ cl.n = old.n + 1 /\ old.at = "wait" /\ conn.out # <<>>
                       /\ cl.answers = Append(old.answers, Head(conn.out))
<1>6. ASSUME clients' = CallTold(c), conn.at = "closed" \/ conn.out # <<>>,
             ~(old.at = "greet" /\ conn.out # <<>> /\ Head(conn.out) = "ok")
      PROVE  \E cl \in ClientRows : Goal(cl)
  <2>1. PICK cl : cl = [old EXCEPT !.at = "idle", !.conn = 0, !.n = old.n + 1,
                                   !.answers = Append(old.answers, "error")]
    OBVIOUS
  <2>2. "error" \in AnswerKinds
    BY DEF AnswerKinds
  <2>3. /\ cl \in ClientRows /\ cl.at = "idle" /\ cl.conn = 0 /\ cl.n = old.n + 1
        /\ cl.answers = Append(old.answers, "error")
    BY <1>2, <1>3, <2>1, <2>2 DEF ClientRows
  <2>4. clients' = [clients EXCEPT ![c] = cl]
    BY <1>1, <1>6, <2>1 DEF CallTold
  <2> QED
    BY <1>6, <2>3, <2>4
<1>7. CASE old.at = "greet" /\ conn.out # <<>> /\ Head(conn.out) = "ok"
  <2>1. PICK cl : cl = [old EXCEPT !.at = "idle"]
    OBVIOUS
  <2>2. /\ cl \in ClientRows /\ cl.at = "idle" /\ cl.conn = old.conn /\ cl.n = old.n
        /\ cl.answers = old.answers
    BY <1>2, <2>1 DEF ClientRows
  <2>3. clients' = [clients EXCEPT ![c] = cl]
    BY <1>1, <1>7, <2>1 DEF Hears
  <2>4. Goal(cl)
    BY <1>1, <1>7, <2>2, <2>3
  <2> HIDE DEF Goal
  <2>5. \E w \in ClientRows : Goal(w)
    BY <2>2, <2>4
  <2> QED
    BY <1>1, <1>5, <2>5 DEF Goal
<1>8. CASE old.at = "wait" /\ conn.out # <<>> /\ Head(conn.out) # "huge"
  <2>1. PICK cl : cl = [old EXCEPT !.at = "idle", !.n = old.n + 1,
                                   !.answers = Append(old.answers, Head(conn.out)),
                                   !.conn = IF Says(c).keeps THEN old.conn ELSE 0]
    OBVIOUS
  <2>2. /\ cl \in ClientRows /\ cl.at = "idle" /\ cl.conn \in {0, k} /\ cl.n = old.n + 1
        /\ cl.answers = Append(old.answers, Head(conn.out))
    BY <1>1, <1>2, <1>3, <1>4, <1>8, <2>1 DEF ClientRows
  <2>3. clients' = [clients EXCEPT ![c] = cl]
    BY <1>1, <1>8, <2>1 DEF Hears
  <2>4. Goal(cl)
    BY <1>8, <2>2, <2>3
  <2> HIDE DEF Goal
  <2>5. \E w \in ClientRows : Goal(w)
    BY <2>2, <2>4
  <2> QED
    BY <1>1, <1>5, <2>5 DEF Goal
<1>9. CASE ~(old.at = "greet" /\ conn.out # <<>> /\ Head(conn.out) = "ok")
           /\ ~(old.at = "wait" /\ conn.out # <<>> /\ Head(conn.out) # "huge")
  <2>1. clients' = CallTold(c) /\ (conn.at = "closed" \/ conn.out # <<>>)
    BY <1>1, <1>2, <1>9 DEF Hears
  <2>2. \E cl \in ClientRows : Goal(cl)
    BY <1>6, <1>9, <2>1
  <2> QED
    BY <1>1, <1>5, <2>2
<1> QED
  BY <1>7, <1>8, <1>9

LEMMA HeardFits ==
    ASSUME NEW old \in ClientRows, NEW conn \in ConnRows, NEW acts, Fits(old, conn, acts),
           old.at \in {"greet", "wait"}, conn.at = "closed" \/ conn.out # <<>>
    PROVE  /\ GivenUp(conn)
           /\ conn.out # <<>> => Len(conn.out) = 1 /\ Tail(conn.out) = <<>>
           /\ conn.out # <<>> /\ old.at = "wait" /\ Head(conn.out) = "done" => Done(old, conn, acts)
           /\ old.at = "greet" => ~Done(old, conn, acts)
<1>1. conn.out \in Seq(AnswerKinds)
  BY DEF ConnRows
<1>2. Len(<<>>) = 0 /\ \A w : Len(<<w>>) = 1
  OBVIOUS
<1>3. CASE old.at = "greet"
  <2>1. /\ conn.at = "closed" \/ (conn.at = "open" /\ conn.in = <<>>)
        /\ conn.out \in {<<>>, <<"ok">>, <<"unauthorized">>} /\ ~Done(old, conn, acts)
    BY <1>3 DEF Fits
  <2>2. conn.out # <<>> => Len(conn.out) = 1
    BY <1>2, <2>1
  <2> QED
    BY <1>1, <1>3, <2>1, <2>2, OneFrame DEF GivenUp
<1>4. CASE old.at = "wait"
  <2>1. /\ conn.at = "closed" \/ (conn.at = "open" /\ conn.in = <<>>)
        /\ conn.out # <<>> => \/ Len(conn.out) = 1 /\ (conn.out[1] = "done" => Done(old, conn, acts))
                              \/ Len(conn.out) =< 1 /\ (conn.out = <<"done">> => Done(old, conn, acts))
    BY <1>4 DEF Fits
  <2>2. ASSUME conn.out # <<>>
        PROVE  /\ Len(conn.out) = 1 /\ Tail(conn.out) = <<>> /\ Head(conn.out) = conn.out[1]
               /\ conn.out[1] = "done" => conn.out = <<"done">>
    <3>1. Len(conn.out) \in Nat /\ Len(conn.out) # 0
      BY <1>1, <2>2
    <3>2. Len(conn.out) = 1
      <4>1. Len(conn.out) = 1 \/ Len(conn.out) =< 1
        BY <2>1, <2>2, Zenon
      <4>2. \A m \in Nat : m # 0 /\ m =< 1 => m = 1
        OBVIOUS
      <4> QED
        BY <3>1, <4>1, <4>2, Zenon
    <3> QED
      BY <1>1, <3>2, OneFrame
  <2> QED
    BY <1>4, <2>1, <2>2 DEF GivenUp
<1> QED
  BY <1>3, <1>4

LEMMA HearsStep == ASSUME IpcInv, NEW c \in DOMAIN clients, Hears(c) PROVE IpcInv'
<1>1. /\ ClientInv /\ ServerInv /\ clients[c].at \in {"greet", "wait"}
      /\ acted' = acted /\ UNCHANGED serverVars
  BY DEF IpcInv, Hears, serverVars
<1>2. PICK k, conn, old : k = clients[c].conn /\ conn = conns[k] /\ old = clients[c]
  OBVIOUS
<1>3. /\ clients \in [DOMAIN clients -> ClientRows] /\ old \in ClientRows /\ conns \in Seq(ConnRows)
      /\ k \in DOMAIN conns /\ conn \in ConnRows /\ k # 0 /\ conn.who = c /\ old.n \in Nat
      /\ Fits(old, conn, acted)
  <2>1. /\ clients \in [DOMAIN clients -> ClientRows] /\ old \in ClientRows
        /\ conns \in Seq(ConnRows)
    BY <1>1, <1>2 DEF ClientInv, ClientTypeOK
  <2>2. k # 0
    BY <1>1, <1>2 DEF ClientInv, CallsAreSomewhere
  <2>3. k \in DOMAIN conns /\ conn.who = c /\ Fits(old, conn, acted)
    BY <1>1, <1>2, <2>2 DEF ClientInv, CallsAreSomewhere
  <2> QED
    BY <1>2, <2>1, <2>2, <2>3 DEF ClientRows
<1>4. PICK cl \in ClientRows, new \in ConnRows :
        /\ clients' = [clients EXCEPT ![c] = cl] /\ conns' = [conns EXCEPT ![k] = new]
        /\ new.app = conn.app /\ new.who = conn.who /\ new.at = conn.at /\ new.in = conn.in
        /\ new.out = IF conn.out = <<>> THEN <<>> ELSE Tail(conn.out)
        /\ cl.at = "idle" /\ cl.conn \in {0, k}
        /\ \/ /\ old.at = "greet" /\ cl.conn = k /\ cl.n = old.n /\ cl.answers = old.answers
              /\ conn.out # <<>> /\ Head(conn.out) = "ok"
           \/ /\ cl.n = old.n + 1 /\ cl.conn = 0
              /\ conn.at = "closed" \/ conn.out # <<>>
              /\ cl.answers = Append(old.answers, "error")
              /\ ~(old.at = "greet" /\ conn.out # <<>> /\ Head(conn.out) = "ok")
           \/ /\ cl.n = old.n + 1 /\ old.at = "wait" /\ conn.out # <<>>
              /\ cl.answers = Append(old.answers, Head(conn.out))
  BY <1>1, <1>2, HearsClient
<1>5. /\ GivenUp(conn) /\ GivenUp(new) /\ new.out = <<>>
      /\ conn.out # <<>> /\ old.at = "wait" /\ Head(conn.out) = "done" => Done(old, conn, acted)
      /\ old.at = "greet" => ~Done(old, conn, acted)
  <2>1. /\ GivenUp(conn)
        /\ conn.out # <<>> => Len(conn.out) = 1 /\ Tail(conn.out) = <<>>
        /\ conn.out # <<>> /\ old.at = "wait" /\ Head(conn.out) = "done" => Done(old, conn, acted)
        /\ old.at = "greet" => ~Done(old, conn, acted)
    <3>1. old.at \in {"greet", "wait"} /\ (conn.at = "closed" \/ conn.out # <<>>)
      BY <1>1, <1>2, <1>4
    <3> QED
      BY <1>3, <3>1, HeardFits
  <2> QED
    BY <1>4, <2>1 DEF GivenUp
<1>6. /\ conns' \in Seq(ConnRows) /\ DOMAIN conns' = DOMAIN conns /\ conns'[k] = new
      /\ \A l \in DOMAIN conns : l # k => conns'[l] = conns[l]
  BY <1>3, <1>4, RowReplaced
<1>7. clients' = [clients EXCEPT ![c] = cl]
  BY <1>4
<1>8. ~ActedOn(acted, c, old.n + 1)
  BY <1>1, <1>2, <1>3 DEF ClientInv, ActsAreOne, ActedOn
<1>9. ~ActedOn(acted, c, cl.n)
  <2>1. CASE cl.n = old.n + 1
    BY <1>8, <2>1
  <2>2. CASE cl.n = old.n /\ old.at = "greet"
    BY <1>3, <1>5, <2>2 DEF Done
  <2> QED
    BY <1>4, <2>1, <2>2
<1>10. Fits(cl, new, acted)
  <2>1. ~Done(cl, new, acted)
    BY <1>3, <1>4, <1>9 DEF Done
  <2> QED
    BY <1>4, <1>5, <2>1 DEF Fits, GivenUp
<1>11. \/ cl.n = old.n /\ cl.answers = old.answers
       \/ /\ cl.n = old.n + 1
          /\ \E answer \in AnswerKinds :
                /\ cl.answers = Append(old.answers, answer)
                /\ answer = "done" => ActedOn(acted, c, old.n)
  <2>1. CASE cl.n = old.n /\ cl.answers = old.answers
    BY <2>1
  <2>2. CASE cl.n = old.n + 1 /\ cl.answers = Append(old.answers, "error")
    <3>1. "error" \in AnswerKinds /\ "error" # "done"
      BY DEF AnswerKinds
    <3> QED
      BY <2>2, <3>1
  <2>3. CASE /\ cl.n = old.n + 1 /\ old.at = "wait" /\ conn.out # <<>>
             /\ cl.answers = Append(old.answers, Head(conn.out))
    <3>1. conn.out \in Seq(AnswerKinds)
      BY <1>3 DEF ConnRows
    <3>2. Head(conn.out) \in AnswerKinds
      BY <2>3, <3>1
    <3>3. Head(conn.out) = "done" => ActedOn(acted, c, old.n)
      BY <1>3, <1>5, <2>3 DEF Done
    <3> QED
      BY <2>3, <3>2, <3>3
  <2> QED
    BY <1>4, <2>1, <2>2, <2>3
<1>12. ClientInv'
  <2>1. /\ cl.conn \in {0, k} /\ cl.at = "idle" /\ conns'[k].who = c /\ GivenUp(conns'[k])
        /\ Fits(cl, conns'[k], acted)
    BY <1>3, <1>4, <1>5, <1>6, <1>10
  <2>2. clients[c].conn = k /\ clients[c] = old /\ acted' = acted
    BY <1>1, <1>2
  <2> HIDE <1>4
  <2> QED
    BY <1>1, <1>3, <1>6, <1>7, <1>9, <1>11, <2>1, <2>2, ClientGoes
<1>13. ServerInv'
  BY <1>1, <1>2, <1>3, <1>4, <1>6, ServerRests DEF ServerInv, SessionsAreOfTheFirst
<1> QED
  BY <1>12, <1>13 DEF IpcInv

LEMMA AppsStep ==
    ASSUME IpcInv, NEW a \in Apps,
           Revokes(a) \/ Probes(a) \/ Binds(a) \/ AppStops(a) \/ SocketRemoved(a) \/ AppCrashes(a)
    PROVE  IpcInv'
<1>1. CASE Revokes(a) \/ Probes(a) \/ Binds(a) \/ AppStops(a)
  <2>1. UNCHANGED callVars
    BY <1>1 DEF Revokes, Probes, Binds, AppStops, SameClients, callVars
  <2> QED
    BY <1>1, <2>1, ClientsRest, RevokesStep, ProbesStep, BindsStep, AppStopsStep DEF IpcInv
<1>2. CASE SocketRemoved(a) \/ AppCrashes(a)
  <2>1. PICK file \in {socket, NoSocket} : Leaves(a, "ended", file) /\ Listens(a)
    BY <1>2 DEF SocketRemoved, AppCrashes, Listens
  <2> QED
    BY <2>1, LeavesServer, LeavesClients DEF IpcInv, ClientInv
<1> QED
  BY <1>1, <1>2

LEMMA IpcInitInv == IpcInit => IpcInv
<1> SUFFICES ASSUME IpcInit PROVE IpcInv
  OBVIOUS
<1>1. PICK scene \in IpcScenes :
        clients = [c \in DOMAIN scene |-> [ask |-> scene[c], at |-> "idle", n |-> 1, conn |-> 0,
                                           answers |-> <<>>]]
  BY DEF IpcInit
<1>2. ASSUME NEW c \in DOMAIN clients
      PROVE  /\ clients[c] \in ClientRows /\ clients[c].at = "idle" /\ clients[c].conn = 0
             /\ clients[c].n = 1 /\ clients[c].answers = <<>>
  <2>1. scene[c] \in IpcAsked /\ <<>> \in Seq(AnswerKinds) /\ c \in DOMAIN scene
    BY <1>1, <1>2, IpcScenesAssumption DEF IpcAsked
  <2>2. clients[c] = [ask |-> scene[c], at |-> "idle", n |-> 1, conn |-> 0, answers |-> <<>>]
    BY <1>1, <2>1
  <2> QED
    BY <2>1, <2>2 DEF ClientRows
<1>3. DOMAIN clients \subseteq Callers /\ acted = {} /\ conns = <<>> /\ <<>> \in Seq(ConnRows)
      /\ DOMAIN conns = {} /\ clients \in [DOMAIN clients -> ClientRows]
  BY <1>1, <1>2 DEF IpcInit, Callers
<1>4. ClientTypeOK /\ ActsAreOne
  BY <1>3 DEF ClientTypeOK, ActsAreOne
<1>5. CallsAreSomewhere
  BY <1>2, <1>3 DEF CallsAreSomewhere, ActedOn
<1>6. AnswersFollow
  <2>1. Len(<<>>) = 0 /\ DOMAIN <<>> = {}
    OBVIOUS
  <2> QED
    BY <1>2, <2>1 DEF AnswersFollow
<1>7. ServerInv
  <2>1. ServerTypeOK
    BY DEF IpcInit, ServerTypeOK, AppPlaces
  <2>2. OneListens
    BY DEF IpcInit, OneListens, Listens
  <2>3. SessionsAreOfTheFirst
    BY <1>3 DEF IpcInit, SessionsAreOfTheFirst
  <2> QED
    BY <2>1, <2>2, <2>3 DEF ServerInv
<1> QED
  BY <1>4, <1>5, <1>6, <1>7 DEF IpcInv, ClientInv

LEMMA IpcInvStep == IpcInv /\ [IpcNext]_ipcVars => IpcInv'
<1> SUFFICES ASSUME IpcInv, [IpcNext]_ipcVars PROVE IpcInv'
  OBVIOUS
<1>1. CASE UNCHANGED ipcVars
  <2>1. UNCHANGED callVars /\ UNCHANGED serverVars /\ conns' = conns /\ acted' = acted
    BY <1>1 DEF ipcVars, callVars, serverVars
  <2>2. ServerInv'
    BY <2>1, ServerRests DEF IpcInv, ServerInv, SessionsAreOfTheFirst
  <2> QED
    BY <2>1, <2>2, ClientsRest DEF IpcInv
<1>2. ASSUME NEW a \in Apps,
             Revokes(a) \/ Probes(a) \/ Binds(a) \/ AppStops(a) \/ SocketRemoved(a) \/ AppCrashes(a)
      PROVE  IpcInv'
  BY <1>2, AppsStep
<1>3. ASSUME NEW t \in Tokens, SessionBegins(t) \/ SessionEnds(t) PROVE IpcInv'
  <2>1. UNCHANGED callVars
    BY <1>3 DEF SessionBegins, SessionEnds, SameClients, callVars
  <2> QED
    BY <1>3, <2>1, ClientsRest, SessionSteps DEF IpcInv
<1>4. ASSUME NEW c \in DOMAIN clients, Connects(c) \/ Asks(c) \/ Hears(c) PROVE IpcInv'
  BY <1>4, ConnectsStep, AsksStep, HearsStep
<1>5. ASSUME NEW k \in DOMAIN conns, Greets(k) \/ Skips(k) \/ Handles0(k) \/ Acts(k) PROVE IpcInv'
  BY <1>5, GreetsStep, SkipsStep, HandlesStep, ActsStep
<1> QED
  BY <1>1, <1>2, <1>3, <1>4, <1>5 DEF IpcNext

(* For any number of programs, clients and calls, whatever ends when: an        *)
(* operation is carried out once at most, and only while its session lives; an  *)
(* answer "done" means that it was; and the program that serves is the one that *)
(* clients reach, unless two bound the socket at once.                          *)
THEOREM SocketCallsHoldAlways == IpcSpec => []SocketCallsHold
<1>1. IpcInv => SocketCallsHold
  <2> SUFFICES ASSUME IpcInv PROVE SocketCallsHold
    OBVIOUS
  <2>1. EndedSessionsDoNothing
    BY DEF IpcInv, ServerInv, SessionsAreOfTheFirst, EndedSessionsDoNothing
  <2>2. ServerIsReachable
    BY DEF IpcInv, ServerInv, OneListens, ServerIsReachable, Listens
  <2>3. ASSUME NEW c \in DOMAIN clients, NEW n
        PROVE  Cardinality({act \in acted : act[1] = c /\ act[2] = n}) =< 1
    <3> DEFINE S == {act \in acted : act[1] = c /\ act[2] = n}
    <3>1. \A x, y \in S : x = y
      BY DEF IpcInv, ClientInv, ActsAreOne
    <3>2. CASE S = {}
      BY <3>2, FS_EmptySet
    <3>3. CASE S # {}
      <4>1. PICK x : S = {x}
        BY <3>1, <3>3
      <4>2. Cardinality(S) = 1
        <5> HIDE DEF S
        <5> QED
          BY <4>1, FS_Singleton
      <4> QED
        BY <4>2
    <3> QED
      BY <3>2, <3>3
  <2>4. CallsRunOnce
    BY <2>3 DEF IpcInv, ClientInv, AnswersFollow, CallsRunOnce, ActedOn
  <2> QED
    BY <2>1, <2>2, <2>4 DEF SocketCallsHold
<1> QED
  BY <1>1, IpcInitInv, IpcInvStep, PTL DEF IpcSpec

-----------------------------------------------------------------------------
(* The named commands: while no lock was taken for an old one, a command runs  *)
(* once at a time, because the lock names who runs it.                         *)

RunPlaces == {"resolve", "look", "remove", "open", "spawn", "wait", "join", "unlock", "unlock failed",
              "record", "passed", "failed", "dead"}
RunRows == [ask : [by : {"cli", "gate"}, commands : Seq(Commands)], at : RunPlaces, n : Nat \ {0},
            held : BOOLEAN, child : {"none", "running", "passed", "failed", "killed", "shell killed"},
            left : Background, exits : Seq({"passed", "failed", "timeout"})]
RunTypeOK ==
    /\ runs \in [DOMAIN runs -> RunRows] /\ DOMAIN runs \subseteq Nat \ {0}
    /\ \A i \in DOMAIN runs : runs[i].n \in DOMAIN runs[i].ask.commands
    /\ locks \in [Commands -> [by : Nat, stale : BOOLEAN]]
\* A lock that grew old was noted, whoever takes it away.
OldLocksAreLoose ==
    /\ \A c \in Commands : locks[c].stale => c \in loosened
    /\ \A i \in DOMAIN runs : runs[i].at = "remove" => Wanted(i) \in loosened
\* Who holds a lock is named in it, and who runs a command holds its lock.
RunnersHold ==
    \A i \in DOMAIN runs : Wanted(i) \notin loosened =>
        /\ runs[i].held => locks[Wanted(i)].by = i
        /\ runs[i].child = "running" \/ runs[i].at = "spawn" => runs[i].held
RunInv == RunTypeOK /\ OldLocksAreLoose /\ RunnersHold

LEMMA RunInitInv == RunInit => RunInv
<1> SUFFICES ASSUME RunInit PROVE RunInv
  OBVIOUS
<1>1. PICK scene \in RunScenes :
         runs = [i \in DOMAIN scene |->
                    [ask |-> scene[i], at |-> "resolve", n |-> 1, held |-> FALSE,
                     child |-> "none", left |-> {}, exits |-> <<>>]]
  BY DEF RunInit
<1>2. ASSUME NEW i \in DOMAIN scene
      PROVE  /\ i \in Nat \ {0} /\ scene[i] \in [by : {"cli", "gate"}, commands : Seq(Commands)]
             /\ 1 \in DOMAIN scene[i].commands
  BY <1>2, RunScenesAssumption
<1>3. RunTypeOK
  BY <1>1, <1>2 DEF RunInit, RunTypeOK, RunRows, RunPlaces, NoLock, Background
<1>4. OldLocksAreLoose /\ RunnersHold
  BY <1>1 DEF RunInit, OldLocksAreLoose, RunnersHold, NoLock
<1> QED
  BY <1>3, <1>4 DEF RunInv

LEMMA WantedIsACommand ==
    ASSUME RunTypeOK, NEW i \in DOMAIN runs PROVE Wanted(i) \in Commands /\ runs[i] \in RunRows
<1>1. runs[i].ask.commands \in Seq(Commands) /\ runs[i].n \in DOMAIN runs[i].ask.commands
  BY DEF RunTypeOK, RunRows
<1> QED
  BY <1>1 DEF RunTypeOK, Wanted

\* A step that changes one row, and neither what it runs nor what it holds.
RowGoesOn(i, row) ==
    /\ RunStep(i, row) /\ row \in RunRows
    /\ row.ask = runs[i].ask /\ row.n = runs[i].n /\ row.held = runs[i].held
    /\ row.child = "running" \/ row.at = "spawn" => runs[i].child = "running" \/ runs[i].at = "spawn"
    /\ row.at = "remove" => runs[i].at = "remove" \/ locks[Wanted(i)].stale
    /\ UNCHANGED <<locks, loosened>>
LEMMA RowGoesOnStep == ASSUME RunInv, NEW i \in DOMAIN runs, NEW row, RowGoesOn(i, row) PROVE RunInv'
<1> USE DEF RunInv
<1>1. DOMAIN runs' = DOMAIN runs /\ runs'[i] = row /\ \A j \in DOMAIN runs \ {i} : runs'[j] = runs[j]
  BY DEF RowGoesOn, RunStep, RunTypeOK
<1>2. \A j \in DOMAIN runs : Wanted(j)' = Wanted(j)
  BY <1>1 DEF RowGoesOn, Wanted
<1>3. RunTypeOK'
  BY <1>1 DEF RowGoesOn, RunStep, RunTypeOK
<1>4. OldLocksAreLoose'
  BY <1>1, <1>2, WantedIsACommand DEF RowGoesOn, OldLocksAreLoose
<1>5. RunnersHold'
  BY <1>1, <1>2 DEF RowGoesOn, RunnersHold
<1> QED
  BY <1>3, <1>4, <1>5

LEMMA RunsGoOn ==
    ASSUME RunInv, NEW i \in DOMAIN runs,
           \/ Resolves(i) \/ LooksAtLock(i) \/ Spawns(i) \/ SeesTheEnd(i) \/ OutputEnds(i)
           \/ RecordsRun(i) \/ CommandEnds(i) \/ LeftoverEnds(i) \/ Dies0(i)
    PROVE  RunInv'
<1>0. runs[i] \in RunRows
  BY DEF RunInv, RunTypeOK
<1>1. CASE \E at \in RunPlaces \ {"spawn"} :
             RunGoes(i, at) /\ (at = "remove" => locks[Wanted(i)].stale) /\ UNCHANGED <<locks, loosened>>
  BY <1>0, <1>1, RowGoesOnStep DEF RowGoesOn, RunGoes, RunRows
<1>2. CASE CommandEnds(i)
  BY <1>0, <1>2, RowGoesOnStep DEF RowGoesOn, CommandEnds, SameProject, RunRows
<1>3. CASE LeftoverEnds(i)
  BY <1>0, <1>3, RowGoesOnStep DEF RowGoesOn, LeftoverEnds, SameProject, RunRows, Background
<1>4. CASE SeesTheEnd(i)
  <2>1. ASSUME NEW exit \in {"passed", "failed", "timeout"}
        PROVE  Append(runs[i].exits, exit) \in Seq({"passed", "failed", "timeout"})
    <3>1. runs[i].exits \in Seq({"passed", "failed", "timeout"})
      BY <1>0, Zenon DEF RunRows
    <3> QED
      BY <2>1, <3>1
  <2>2. CASE runs[i].child = "running"
    <3>1. PICK background \in Background, child \in {"killed", "shell killed"} :
             RunStep(i, [runs[i] EXCEPT
                 !.at = "join", !.child = child, !.exits = Append(@, "timeout"),
                 !.left = IF child = "killed" THEN Survivors(background) ELSE background])
      BY <1>4, <2>2 DEF SeesTheEnd
    <3>2. PICK left \in Background :
             RunStep(i, [runs[i] EXCEPT
                 !.at = "join", !.child = child, !.exits = Append(@, "timeout"), !.left = left])
      <4>1. Survivors(background) \in Background
        BY DEF Survivors, Background
      <4> QED
        BY <3>1, <4>1, Zenon
    <3> QED
      BY <1>0, <1>4, <2>1, <3>2, RowGoesOnStep DEF RowGoesOn, SeesTheEnd, SameProject, RunRows, RunPlaces
  <2>3. CASE runs[i].child # "running"
    <3>1. /\ RunStep(i, [runs[i] EXCEPT !.at = "join", !.exits = Append(@, runs[i].child)])
          /\ runs[i].child \in {"passed", "failed"}
      BY <1>4, <2>3 DEF SeesTheEnd
    <3> QED
      BY <1>0, <1>4, <2>1, <3>1, RowGoesOnStep DEF RowGoesOn, SeesTheEnd, SameProject, RunRows, RunPlaces
  <2> QED
    BY <2>2, <2>3
<1>5. CASE Spawns(i) /\ RunStep(i, [runs[i] EXCEPT !.at = "wait", !.child = "running"])
  BY <1>0, <1>5, RowGoesOnStep DEF RowGoesOn, Spawns, SameProject, RunRows, RunPlaces
<1>6. CASE Resolves(i) \/ LooksAtLock(i) \/ (Spawns(i) /\ RunGoes(i, "unlock failed")) \/ OutputEnds(i)
           \/ RecordsRun(i) \/ Dies0(i)
  BY <1>1, <1>6
     DEF Resolves, LooksAtLock, Spawns, OutputEnds, RecordsRun, Dies0, SameProject, RunPlaces
<1> QED
  BY <1>2, <1>3, <1>4, <1>5, <1>6 DEF Spawns

\* A step that changes a row and the lock of its command.
RowAndLockGo(i, row, lock) ==
    /\ RunStep(i, row) /\ row \in RunRows /\ row.ask = runs[i].ask /\ row.n \in DOMAIN row.ask.commands
    /\ row.at # "remove"
    /\ lock \in [by : Nat, stale : BOOLEAN] /\ locks' = [locks EXCEPT ![Wanted(i)] = lock]
    /\ loosened \subseteq loosened'
\* Its own row agrees with the locks, and it takes nobody's lock.
RowAgrees(i, row, lock) ==
    /\ lock.stale => Wanted(i) \in loosened'
    /\ row.held => row.n = runs[i].n /\ (lock.by = i \/ Wanted(i) \in loosened')
    /\ row.child = "running" \/ row.at = "spawn" => row.held \/ (row.n = runs[i].n /\ Wanted(i) \in loosened')
    /\ \/ lock = locks[Wanted(i)]
       \/ Wanted(i) \in loosened' \/ runs[i].held \/ locks[Wanted(i)].by = 0
LEMMA RowAndLockGoStep ==
    ASSUME RunInv, NEW i \in DOMAIN runs, NEW row, NEW lock, RowAndLockGo(i, row, lock), RowAgrees(i, row, lock)
    PROVE  RunInv'
<1> USE DEF RunInv
<1>0. Wanted(i) \in Commands /\ runs[i] \in RunRows
  BY WantedIsACommand
<1>1. /\ DOMAIN runs' = DOMAIN runs /\ runs'[i] = row /\ \A j \in DOMAIN runs \ {i} : runs'[j] = runs[j]
      /\ locks'[Wanted(i)] = lock /\ \A c \in Commands \ {Wanted(i)} : locks'[c] = locks[c]
  BY <1>0 DEF RowAndLockGo, RunStep, RunTypeOK
<1>2. \A j \in DOMAIN runs \ {i} : Wanted(j)' = Wanted(j)
  BY <1>1 DEF Wanted
<1>3. RunTypeOK'
  BY <1>0, <1>1 DEF RowAndLockGo, RunStep, RunTypeOK
<1>4. OldLocksAreLoose'
  BY <1>1, <1>2 DEF RowAndLockGo, RowAgrees, OldLocksAreLoose
<1>5. row.n = runs[i].n => Wanted(i)' = Wanted(i)
  BY <1>1 DEF Wanted, RowAndLockGo
<1>6. ASSUME NEW j \in DOMAIN runs \ {i}, Wanted(j)' \notin loosened'
      PROVE  /\ runs'[j].held => locks'[Wanted(j)'].by = j
             /\ runs'[j].child = "running" \/ runs'[j].at = "spawn" => runs'[j].held
  <2>1. runs'[j] = runs[j] /\ Wanted(j)' = Wanted(j) /\ Wanted(j) \in Commands /\ Wanted(j) \notin loosened
        /\ j # 0 /\ i # j
    BY <1>1, <1>2, <1>6, WantedIsACommand DEF RowAndLockGo, RunTypeOK
  <2> QED
    BY <1>0, <1>1, <1>6, <2>1 DEF RowAgrees, RunnersHold
<1>7. ASSUME Wanted(i)' \notin loosened'
      PROVE  /\ row.held => locks'[Wanted(i)'].by = i
             /\ row.child = "running" \/ row.at = "spawn" => row.held
  BY <1>1, <1>5, <1>7 DEF RowAgrees
<1>8. RunnersHold'
  BY <1>1, <1>6, <1>7 DEF RunnersHold
<1> QED
  BY <1>3, <1>4, <1>8

LEMMA LockSteps ==
    ASSUME RunInv, NEW i \in DOMAIN runs, RemovesLock(i) \/ OpensLock(i) \/ Unlocks0(i)
    PROVE  RunInv'
<1>0. /\ runs[i] \in RunRows /\ Wanted(i) \in Commands /\ i \in Nat
      /\ runs[i].n \in DOMAIN runs[i].ask.commands
      /\ locks[Wanted(i)] \in [by : Nat, stale : BOOLEAN]
      /\ locks = [locks EXCEPT ![Wanted(i)] = locks[Wanted(i)]]
  BY WantedIsACommand DEF RunInv, RunTypeOK
<1>1. CASE RemovesLock(i)
  <2> DEFINE row == [runs[i] EXCEPT !.at = "open"]
  <2>1. row \in RunRows /\ row.ask = runs[i].ask /\ row.n = runs[i].n /\ row.held = runs[i].held
        /\ row.child = runs[i].child /\ row.at = "open" /\ Wanted(i) \in loosened
    BY <1>0, <1>1 DEF RemovesLock, RunRows, RunPlaces, RunInv, OldLocksAreLoose
  <2>2. RunStep(i, row) /\ locks' = [locks EXCEPT ![Wanted(i)] = NoLock] /\ loosened' = loosened
    BY <1>1 DEF RemovesLock, RunGoes
  <2>3. RowAndLockGo(i, row, NoLock) /\ RowAgrees(i, row, NoLock)
    <3> HIDE DEF row
    <3> QED
      BY <1>0, <2>1, <2>2 DEF RowAndLockGo, RowAgrees, NoLock
  <2> QED
    BY <2>3, RowAndLockGoStep
<1>2. CASE OpensLock(i) /\ CanOpen(Wanted(i)) /\ lockDir # "readonly"
  <2> DEFINE row == [runs[i] EXCEPT !.at = "spawn", !.held = TRUE]
             lock == [by |-> i, stale |-> FALSE]
  <2>1. row \in RunRows /\ row.ask = runs[i].ask /\ row.n = runs[i].n /\ row.held /\ row.at = "spawn"
    BY <1>0 DEF RunRows, RunPlaces
  <2>2. lock \in [by : Nat, stale : BOOLEAN] /\ locks[Wanted(i)].by = 0
    BY <1>0, <1>2 DEF CanOpen, NoLock
  <2>3. RunStep(i, row) /\ locks' = [locks EXCEPT ![Wanted(i)] = lock] /\ loosened' = loosened
    BY <1>2 DEF OpensLock
  <2>4. RowAndLockGo(i, row, lock) /\ RowAgrees(i, row, lock)
    <3> HIDE DEF row
    <3> QED
      BY <1>0, <2>1, <2>2, <2>3 DEF RowAndLockGo, RowAgrees
  <2> QED
    BY <2>4, RowAndLockGoStep
<1>3. CASE OpensLock(i) /\ lockDir = "readonly"
  <2> DEFINE row == [runs[i] EXCEPT !.at = "spawn"]
             lock == locks[Wanted(i)]
  <2>1. row \in RunRows /\ row.ask = runs[i].ask /\ row.n = runs[i].n /\ row.held = runs[i].held
        /\ row.at = "spawn"
    BY <1>0 DEF RunRows, RunPlaces
  <2>2. RunStep(i, row) /\ locks' = locks /\ loosened' = loosened \union {Wanted(i)}
    BY <1>3 DEF OpensLock, RunGoes
  <2>3. RowAndLockGo(i, row, lock) /\ RowAgrees(i, row, lock)
    <3> HIDE DEF row
    <3> QED
      BY <1>0, <2>1, <2>2 DEF RowAndLockGo, RowAgrees
  <2> QED
    BY <2>3, RowAndLockGoStep
<1>4. CASE OpensLock(i) /\ ~CanOpen(Wanted(i)) /\ lockDir # "readonly"
  <2>1. RowGoesOn(i, [runs[i] EXCEPT !.at = "failed"])
    BY <1>0, <1>4 DEF OpensLock, RowGoesOn, RunGoes, SameProject, RunRows, RunPlaces
  <2> QED
    BY <2>1, RowGoesOnStep
<1>5. CASE Unlocks0(i)
  <2> DEFINE ended == runs[i].exits # <<>> /\ runs[i].at = "unlock"
             passed == ended /\ runs[i].exits[Len(runs[i].exits)] = "passed"
             more == runs[i].ask.by = "gate" /\ passed /\ runs[i].n < Len(runs[i].ask.commands)
  <2>1. PICK n \in {runs[i].n, runs[i].n + 1} : n = (IF more THEN runs[i].n + 1 ELSE runs[i].n)
    OBVIOUS
  <2>2. PICK at \in {"resolve", "record", "passed", "failed"} :
          at = CASE more -> "resolve"
                 [] ~more /\ runs[i].ask.by = "cli" /\ ended -> "record"
                 [] ~more /\ runs[i].ask.by = "gate" /\ passed -> "passed"
                 [] OTHER -> "failed"
    OBVIOUS
  <2> DEFINE row == [runs[i] EXCEPT !.held = FALSE, !.child = "none", !.n = n, !.at = at]
             lock == IF runs[i].held THEN NoLock ELSE locks[Wanted(i)]
  <2>3. n \in DOMAIN runs[i].ask.commands /\ n \in Nat \ {0}
    <3>1. runs[i].ask.commands \in Seq(Commands) /\ runs[i].n \in Nat \ {0}
      BY <1>0, Zenon DEF RunRows
    <3>2. n = runs[i].n \/ (n = runs[i].n + 1 /\ runs[i].n < Len(runs[i].ask.commands))
      BY <2>1, Zenon
    <3> HIDE DEF ended, passed, more
    <3> QED
      BY <1>0, <3>1, <3>2
  <2>4. row \in RunRows /\ row.ask = runs[i].ask /\ row.n = n /\ row.held = FALSE
        /\ row.child = "none" /\ row.at = at
    BY <1>0, <2>3 DEF RunRows, RunPlaces
  <2>5. RunStep(i, row) /\ locks' = [locks EXCEPT ![Wanted(i)] = lock] /\ loosened' = loosened
    BY <1>0, <1>5, <2>1, <2>2 DEF Unlocks0
  <2>6. lock \in [by : Nat, stale : BOOLEAN] /\ (lock.stale => Wanted(i) \in loosened)
        /\ (lock = locks[Wanted(i)] \/ runs[i].held)
    BY <1>0 DEF NoLock, RunInv, OldLocksAreLoose
  <2>7. RowAndLockGo(i, row, lock) /\ RowAgrees(i, row, lock)
    <3> HIDE DEF row, lock
    <3> QED
      BY <1>0, <2>3, <2>4, <2>5, <2>6 DEF RowAndLockGo, RowAgrees
  <2> QED
    BY <2>7, RowAndLockGoStep
<1> QED
  BY <1>1, <1>2, <1>3, <1>4, <1>5 DEF OpensLock

LEMMA LockAgesStep == ASSUME RunInv, NEW c \in Commands, LockAges(c) PROVE RunInv'
<1>1. /\ locks' = [locks EXCEPT ![c] = [locks[c] EXCEPT !.stale = TRUE]]
      /\ loosened' = loosened \union {c} /\ runs' = runs
  BY DEF LockAges
<1>2. \A j \in DOMAIN runs : Wanted(j)' = Wanted(j)
  BY <1>1 DEF Wanted
<1>3. RunTypeOK'
  BY <1>1 DEF RunInv, RunTypeOK
<1>4. OldLocksAreLoose'
  BY <1>1, <1>2 DEF RunInv, RunTypeOK, OldLocksAreLoose
<1>5. RunnersHold'
  BY <1>1, <1>2, WantedIsACommand DEF RunInv, RunTypeOK, RunnersHold
<1> QED
  BY <1>3, <1>4, <1>5 DEF RunInv

LEMMA RunInvStep == RunInv /\ [RunNext]_runVars => RunInv'
<1> SUFFICES ASSUME RunInv, [RunNext]_runVars PROVE RunInv'
  OBVIOUS
<1>1. CASE UNCHANGED runVars
  BY <1>1 DEF runVars, RunInv, RunTypeOK, OldLocksAreLoose, RunnersHold, Wanted
<1>2. CASE \E i \in DOMAIN runs : Runner(i) \/ CommandEnds(i) \/ LeftoverEnds(i) \/ Dies0(i)
  BY <1>2, RunsGoOn, LockSteps DEF Runner
<1>3. CASE \E c \in Commands : LockAges(c)
  BY <1>3, LockAgesStep
<1> QED
  BY <1>1, <1>2, <1>3 DEF RunNext

\* A named command runs twice at once only when its lock grew old under a run
\* or could not be made (RunLock, run.rs:98).
THEOREM TwiceOnlyWhenLooseHolds == RunSpec => []TwiceOnlyWhenLoose
<1>1. RunInv => TwiceOnlyWhenLoose
  <2> SUFFICES ASSUME RunInv, NEW c \in Commands \ loosened
               PROVE  Cardinality({i \in DOMAIN runs : IsRunning(i, c)}) < 2
    BY DEF TwiceOnlyWhenLoose
  <2> DEFINE S == {i \in DOMAIN runs : IsRunning(i, c)}
  <2>1. \A i, j \in S : i = j
    BY DEF RunInv, RunnersHold, IsRunning
  <2>2. CASE S = {}
    BY <2>2, FS_EmptySet
  <2>3. CASE S # {}
    <3>1. PICK i : S = {i}
      BY <2>1, <2>3
    <3>2. Cardinality(S) = 1
      <4> HIDE DEF S
      <4> QED
        BY <3>1, FS_Singleton
    <3> QED
      BY <3>2
  <2> QED
    BY <2>2, <2>3
<1> QED
  BY <1>1, RunInitInv, RunInvStep, PTL DEF RunSpec

-----------------------------------------------------------------------------
(* The detector of the states and the boot text: the text an agent is owed is  *)
(* in one place, and a timer that is due is never past.                        *)

DetectorRows == [state : Running, sure : BOOLEAN, silent : 0 .. LongSilence, evaluated : BOOLEAN,
                 guessed : BOOLEAN, rules : Rules, screen : Screens \union {<<>>}]
Inputs == [kind : {"output"}, of : Screens] \union [kind : {"rules"}, of : Rules]
AgentRows == [session : 0 .. MaxSessions, state : Running \union {"stopped", "failed"},
              boot : Statuses \union {Nothing}, pending : BOOLEAN, rules : Rules, listens : BOOLEAN]
\* Sessions are minted one after the other and their number is bounded.
SessionsAreCounted ==
    /\ budget \in [starts : 0 .. MaxSessions, outputs : Nat, calibrations : Nat]
    /\ agent.session + budget.starts <= MaxSessions
    /\ agent.state \in Running \/ agent.pending \/ agent.listens => agent.session # 0
    /\ \A s \in Sessions : s > agent.session => process[s] = "none"
TasksTyped ==
    /\ agent \in AgentRows /\ wire \in 0 .. agent.session /\ catalog \in Rules
    /\ process \in [Sessions -> {"none", "up", "gone", "told"}]
    /\ queue \in [Sessions -> Seq(Inputs)]
    /\ detector \in [Sessions -> DetectorRows]
    /\ task \in [Sessions -> {"loop", "apply", "type", "typed", "refused", "over"}]
    /\ timer \in [Sessions -> Off .. BootTimeout]
    /\ \A s \in Sessions : process[s] = "none" => task[s] = "over" /\ timer[s] = Off
    /\ agent.pending => agent.boot \in {"waiting", "delivered", "failed"}
\* The text of a session is with the agent until the detector or the timer
\* takes it away, and only one of them does.
Held(s) == agent.session = s /\ agent.pending
Free(s) == typed[s] = 0 /\ s \notin gaveUp
TextIsInOnePlace ==
    /\ typed \in [Sessions -> 0 .. 1]
    /\ \A s \in Sessions :
         /\ process[s] = "none" => Free(s)
         /\ Held(s) => Free(s) /\ task[s] # "type"
         /\ task[s] = "type" => Free(s)
         /\ typed[s] = 1 => s \notin gaveUp
BootInv == SessionsAreCounted /\ TasksTyped /\ TextIsInOnePlace

LEMMA BootFacts == Off \notin Nat /\ Off \in Int /\ Running = {"idle", "busy", "awaiting", "starting"}
                  /\ Quiet \in Nat /\ LongSilence \in Nat /\ BootTimeout \in Nat /\ MaxSessions \in Nat
                  /\ Quiet < LongSilence /\ BootTimeout # 0
BY BootAssumption DEF Off, Running, Seen

\* What each operation of the detector returns.
LEMMA SetKeeps ==
    ASSUME NEW d \in DetectorRows, NEW state \in Running, NEW sure \in BOOLEAN
    PROVE  Set(d, state, sure) \in DetectorRows
BY DEF Set, DetectorRows
LEMMA DecideSees == ASSUME NEW rules, NEW screen PROVE Decide(rules, screen) \in Seen \union {Nothing}
BY DEF Decide, First, Seen
LEMMA EvaluateKeeps == ASSUME NEW d \in DetectorRows PROVE Evaluate(d) \in DetectorRows
<1> DEFINE e == [d EXCEPT !.evaluated = TRUE]
<1>1. e \in DetectorRows
  BY DEF DetectorRows
<1>2. PICK seen \in Seen \union {Nothing} : seen = Decide(d.rules, d.screen)
  BY DecideSees
<1>3. seen # Nothing => seen \in Running
  BY <1>2 DEF Running
<1>4. Evaluate(d) = IF seen = Nothing THEN e ELSE Set(e, seen, TRUE)
  BY <1>2 DEF Evaluate
<1> HIDE DEF e
<1> QED
  BY <1>1, <1>3, <1>4, SetKeeps
LEMMA JudgeKeeps == ASSUME NEW d \in DetectorRows PROVE Judge(d) \in DetectorRows
<1> DEFINE e == IF ~d.evaluated /\ d.silent >= Quiet THEN Evaluate(d) ELSE d
<1>1. e \in DetectorRows
  BY EvaluateKeeps
<1>2. [e EXCEPT !.guessed = TRUE] \in DetectorRows
  BY <1>1 DEF DetectorRows
<1>3. Set([e EXCEPT !.guessed = TRUE], "idle", FALSE) \in DetectorRows
  BY <1>2, SetKeeps DEF Running, Seen
<1>4. Judge(d) = e \/ Judge(d) = Set([e EXCEPT !.guessed = TRUE], "idle", FALSE)
  BY DEF Judge
<1> QED
  BY <1>1, <1>3, <1>4
LEMMA FeedKeeps == ASSUME NEW d \in DetectorRows, NEW text \in Screens PROVE Feed(d, text) \in DetectorRows
<1> DEFINE e == [d EXCEPT !.screen = text, !.silent = 0, !.evaluated = FALSE, !.guessed = FALSE]
<1>0. 0 \in 0 .. LongSilence /\ text \in Screens \union {<<>>}
  BY BootFacts
<1>1. e \in DetectorRows
  BY <1>0 DEF DetectorRows
<1>2. Set(e, "busy", TRUE) \in DetectorRows
  BY <1>1, SetKeeps DEF Running, Seen
<1>3. Feed(d, text) = e \/ Feed(d, text) = Set(e, "busy", TRUE)
  BY DEF Feed
<1> QED
  BY <1>1, <1>2, <1>3
LEMMA RulesKeep ==
    ASSUME NEW d \in DetectorRows, NEW rules \in Rules PROVE SetRules(d, rules) \in DetectorRows
BY DEF SetRules, DetectorRows
LEMMA NewRow == ASSUME NEW rules \in Rules PROVE New(rules) \in DetectorRows
BY BootFacts DEF New, DetectorRows

\* next_deadline is never after a decision of tick, in any state of a detector.
LEMMA DeadlineIsDue ==
    ASSUME NEW d \in DetectorRows, NEW silent \in 0 .. LongSilence,
           Tells(d, Judge([d EXCEPT !.silent = silent]))
    PROVE  NextDeadline(d) <= silent
<1> DEFINE f == [d EXCEPT !.silent = silent]
           e == IF ~f.evaluated /\ f.silent >= Quiet THEN Evaluate(f) ELSE f
<1>1. f.silent = silent /\ f.evaluated = d.evaluated /\ f.guessed = d.guessed /\ f.state = d.state
      /\ f.sure = d.sure /\ silent \in Nat /\ d.evaluated \in BOOLEAN
  BY BootFacts DEF DetectorRows
<1>2. CASE ~d.evaluated
  <2>1. CASE silent >= Quiet
    BY <1>2, <2>1 DEF NextDeadline
  <2>2. CASE silent < Quiet
    <3>0. ~(f.silent >= Quiet) /\ ~(f.silent >= LongSilence)
      BY <1>1, <2>2, BootFacts
    <3>1. Judge(f) = f
      <4> HIDE DEF f
      <4> QED
        BY <3>0 DEF Judge
    <3> QED
      BY <1>1, <3>1 DEF Tells
  <2> QED
    BY <1>1, <2>1, <2>2, BootFacts
<1>3. CASE d.evaluated
  <2>1. CASE ~d.guessed /\ silent >= LongSilence /\ Waits(d)
    BY <1>3, <2>1 DEF NextDeadline
  <2>2. CASE ~(~d.guessed /\ silent >= LongSilence /\ Waits(d))
    <3>1. Judge(f) = f
      BY <1>1, <1>3, <2>2 DEF Judge, Waits
    <3> QED
      BY <1>1, <3>1 DEF Tells
  <2> QED
    BY <2>1, <2>2
<1> QED
  BY <1>1, <1>2, <1>3

LEMMA BootInitInv == Init => BootInv
<1> SUFFICES ASSUME Init PROVE BootInv
  OBVIOUS
<1>1. budget \in [starts : 0 .. MaxSessions, outputs : Nat, calibrations : Nat]
  BY BootAssumption DEF Init
<1>2. \A s \in Sessions : s # 0
  BY BootFacts DEF Sessions
<1>3. SessionsAreCounted
  BY <1>1, <1>2, BootFacts DEF Init, SessionsAreCounted
<1>4. TasksTyped
  BY <1>2, NewRow, BootFacts DEF Init, TasksTyped, AgentRows, Statuses, Nothing
<1>5. TextIsInOnePlace
  BY DEF Init, TextIsInOnePlace, Held, Free
<1> QED
  BY <1>3, <1>4, <1>5 DEF BootInv

LEMMA StartStep == BootInv /\ Start => BootInv'
<1> SUFFICES ASSUME BootInv, Start PROVE BootInv'
  OBVIOUS
<1> DEFINE new == agent.session + 1
<1>1. PICK adapter \in Adapters, materialized \in BOOLEAN :
         agent' = [session |-> new, state |-> "starting", boot |-> BootOf(adapter, materialized).status,
                   pending |-> BootOf(adapter, materialized).pending, rules |-> catalog, listens |-> TRUE]
  BY DEF Start
<1>2. PICK boot \in Statuses, pending \in BOOLEAN :
        /\ agent' = [session |-> new, state |-> "starting", boot |-> boot,
                     pending |-> pending, rules |-> catalog, listens |-> TRUE]
        /\ pending => boot = "waiting"
  BY <1>1 DEF BootOf, Statuses
<1>3. /\ budget' = [budget EXCEPT !.starts = budget.starts - 1] /\ budget.starts > 0
      /\ UNCHANGED <<wire, process, queue, detector, task, timer, catalog, typed, gaveUp>>
  BY DEF Start, history
<1>4. new \in Sessions /\ budget.starts \in Nat /\ agent.session \in Nat /\ process[new] = "none"
      /\ new + budget'.starts <= MaxSessions
      /\ budget' \in [starts : 0 .. MaxSessions, outputs : Nat, calibrations : Nat]
  <2>1. /\ budget \in [starts : 0 .. MaxSessions, outputs : Nat, calibrations : Nat]
        /\ agent.session + budget.starts <= MaxSessions /\ agent.session \in 0 .. MaxSessions
    BY DEF BootInv, SessionsAreCounted, TasksTyped, AgentRows
  <2>2. budget.starts \in Nat /\ agent.session \in Nat /\ budget.starts - 1 \in 0 .. MaxSessions
        /\ new \in Sessions
    BY <1>3, <2>1, BootFacts DEF Sessions
  <2>3. budget'.starts = budget.starts - 1
        /\ budget' \in [starts : 0 .. MaxSessions, outputs : Nat, calibrations : Nat]
    BY <1>3, <2>1, <2>2
  <2>4. process[new] = "none"
    BY <2>1, <2>2 DEF BootInv, SessionsAreCounted
  <2> QED
    BY <2>1, <2>2, <2>3, <2>4, BootFacts
<1>5. SessionsAreCounted'
  BY <1>2, <1>3, <1>4, BootFacts DEF BootInv, SessionsAreCounted, Sessions
<1>6. TasksTyped'
  <2>1. agent' \in AgentRows
    BY <1>2, <1>3, <1>4, BootFacts DEF BootInv, TasksTyped, AgentRows, Sessions, Running
  <2>2. wire \in 0 .. agent'.session
    BY <1>2, <1>4, BootFacts DEF BootInv, TasksTyped
  <2>3. agent'.pending => agent'.boot \in {"waiting", "delivered", "failed"}
    BY <1>2
  <2> QED
    BY <1>3, <2>1, <2>2, <2>3 DEF BootInv, TasksTyped
<1>7. TextIsInOnePlace'
  <2>1. task[new] = "over"
    BY <1>4 DEF BootInv, TasksTyped
  <2> QED
    BY <1>2, <1>3, <1>4, <2>1 DEF BootInv, TextIsInOnePlace, Held, Free
<1> QED
  BY <1>5, <1>6, <1>7 DEF BootInv

LEMMA SpawnStep == BootInv /\ Spawn => BootInv'
<1> SUFFICES ASSUME BootInv, Spawn PROVE BootInv'
  OBVIOUS
<1> DEFINE s == agent.session
<1>0. s \in Sessions /\ process[s] = "none" /\ agent.state = "starting" /\ agent \in AgentRows
      /\ UNCHANGED <<queue, catalog, budget, typed, gaveUp>>
  BY BootFacts DEF Spawn, BootInv, SessionsAreCounted, TasksTyped, AgentRows, Sessions, history
<1>1. CASE agent' = [agent EXCEPT !.state = "failed"] /\ UNCHANGED <<wire, process, detector, task, timer>>
  <2>1. agent' \in AgentRows /\ agent'.session = s /\ agent'.pending = agent.pending /\ agent'.boot = agent.boot
        /\ agent'.listens = agent.listens /\ agent'.state = "failed"
    BY <1>0, <1>1 DEF AgentRows
  <2>2. SessionsAreCounted'
    BY <1>0, <1>1, <2>1, BootFacts DEF BootInv, SessionsAreCounted
  <2>3. TasksTyped'
    BY <1>0, <1>1, <2>1 DEF BootInv, TasksTyped
  <2>4. TextIsInOnePlace'
    BY <1>0, <1>1, <2>1 DEF BootInv, TextIsInOnePlace, Held, Free
  <2> QED
    BY <2>2, <2>3, <2>4 DEF BootInv
<1>2. CASE /\ wire' = s /\ process' = [process EXCEPT ![s] = "up"]
           /\ detector' = [detector EXCEPT ![s] = New(agent.rules)]
           /\ task' = [task EXCEPT ![s] = "loop"]
           /\ timer' = [timer EXCEPT ![s] = IF agent.boot = "waiting" THEN 0 ELSE Off]
           /\ UNCHANGED agent
  <2>1. New(agent.rules) \in DetectorRows /\ 0 \in Off .. BootTimeout /\ Off \in Off .. BootTimeout
    BY <1>0, NewRow, BootFacts DEF AgentRows, Off
  <2>2. SessionsAreCounted'
    <3>1. s \in Nat /\ \A x \in Sessions : x > s => x # s
      BY <1>0 DEF Sessions
    <3>2. \A x \in Sessions : x > s => process'[x] = "none"
      BY <1>2, <3>1 DEF BootInv, SessionsAreCounted, TasksTyped
    <3> QED
      BY <1>0, <1>2, <3>2 DEF BootInv, SessionsAreCounted
  <2>3. TasksTyped'
    <3>1. s \in 0 .. s
      BY <1>0 DEF Sessions
    <3> QED
      BY <1>0, <1>2, <2>1, <3>1 DEF BootInv, TasksTyped
  <2>4. TextIsInOnePlace'
    BY <1>0, <1>2 DEF BootInv, TextIsInOnePlace, TasksTyped, Held, Free
  <2> QED
    BY <2>2, <2>3, <2>4 DEF BootInv
<1> QED
  BY <1>1, <1>2 DEF Spawn

\* The task goes on: the text and the agent stay as they are.
TaskGoesOn(s, d, at) ==
    /\ detector' = [detector EXCEPT ![s] = d] /\ d \in DetectorRows
    /\ task' = [task EXCEPT ![s] = at] /\ at \in {"loop", "apply", "over"}
    /\ queue' \in [Sessions -> Seq(Inputs)]
    /\ UNCHANGED <<agent, wire, process, timer, catalog, budget, typed, gaveUp>>
LEMMA TaskGoesOnStep ==
    ASSUME BootInv, NEW s \in Sessions, NEW d, NEW at, process[s] = "none" => at = "over", TaskGoesOn(s, d, at)
    PROVE  BootInv'
<1>1. SessionsAreCounted'
  BY DEF TaskGoesOn, BootInv, SessionsAreCounted
<1>2. TasksTyped'
  BY DEF TaskGoesOn, BootInv, TasksTyped
<1>3. TextIsInOnePlace'
  BY DEF TaskGoesOn, BootInv, TextIsInOnePlace, TasksTyped, Held, Free
<1> QED
  BY <1>1, <1>2, <1>3 DEF BootInv

LEMMA ReceiveStep == ASSUME BootInv, NEW s \in Sessions, Receive(s) PROVE BootInv'
<1>0. detector[s] \in DetectorRows /\ queue[s] \in Seq(Inputs) /\ queue[s] # <<>> /\ task[s] = "loop"
      /\ process[s] # "none" /\ queue \in [Sessions -> Seq(Inputs)]
      /\ queue' = [queue EXCEPT ![s] = Tail(queue[s])]
      /\ UNCHANGED <<agent, wire, process, timer, catalog, budget, typed, gaveUp>>
  BY DEF Receive, BootInv, TasksTyped, history
<1>1. PICK input \in Inputs : input = Head(queue[s])
  BY <1>0
<1>2. queue' \in [Sessions -> Seq(Inputs)]
  <2>1. Tail(queue[s]) \in Seq(Inputs)
    BY <1>0
  <2> QED
    BY <1>0, <2>1
<1>3. PICK d \in DetectorRows : Step(s, d)
  <2>1. CASE input.kind = "output"
    <3>1. input.of \in Screens
      BY <2>1 DEF Inputs
    <3> QED
      BY <1>0, <1>1, <2>1, <3>1, FeedKeeps DEF Receive
  <2>2. CASE input.kind # "output"
    <3>1. input.of \in Rules
      BY <2>2 DEF Inputs
    <3> QED
      BY <1>0, <1>1, <2>2, <3>1, RulesKeep DEF Receive
  <2> QED
    BY <2>1, <2>2
<1>4. PICK at \in {"loop", "apply"} : at = (IF Tells(detector[s], d) THEN "apply" ELSE "loop")
  OBVIOUS
<1>5. TaskGoesOn(s, d, at)
  BY <1>0, <1>2, <1>3, <1>4 DEF TaskGoesOn, Step
<1> QED
  BY <1>0, <1>5, TaskGoesOnStep

LEMMA WakeStep == ASSUME BootInv, NEW s \in Sessions, Wake(s) PROVE BootInv'
<1>0. detector[s] \in DetectorRows /\ task[s] = "loop" /\ process[s] # "none"
      /\ queue' \in [Sessions -> Seq(Inputs)]
      /\ UNCHANGED <<agent, wire, process, timer, catalog, budget, typed, gaveUp>>
  BY DEF Wake, BootInv, TasksTyped, history
<1>1. PICK d \in DetectorRows : d = Judge(detector[s])
  BY <1>0, JudgeKeeps
<1>2. PICK at \in {"loop", "apply"} : at = (IF Tells(detector[s], d) THEN "apply" ELSE "loop")
  OBVIOUS
<1>3. TaskGoesOn(s, d, at)
  BY <1>0, <1>1, <1>2 DEF TaskGoesOn, Wake, Step
<1> QED
  BY <1>0, <1>3, TaskGoesOnStep

LEMMA EndsStep ==
    ASSUME BootInv, NEW s \in Sessions, End(s),
           UNCHANGED <<agent, wire, process, timer, catalog, budget, typed, gaveUp>>
    PROVE  BootInv'
<1>1. detector[s] \in DetectorRows /\ queue \in [Sessions -> Seq(Inputs)] /\ <<>> \in Seq(Inputs)
  BY DEF BootInv, TasksTyped
<1>2. New(detector[s].rules) \in DetectorRows
  BY <1>1, NewRow DEF DetectorRows
<1>3. TaskGoesOn(s, New(detector[s].rules), "over")
  BY <1>1, <1>2 DEF TaskGoesOn, End
<1> QED
  BY <1>3, TaskGoesOnStep

LEMMA ApplyStep == ASSUME BootInv, NEW s \in Sessions, Apply(s) PROVE BootInv'
<1>0. detector[s] \in DetectorRows /\ task[s] = "apply" /\ process[s] # "none" /\ agent \in AgentRows
      /\ UNCHANGED <<wire, process, timer, catalog, budget, typed, gaveUp>>
  BY DEF Apply, BootInv, TasksTyped, history
<1>1. CASE End(s) /\ agent' = agent
  BY <1>0, <1>1, EndsStep
<1>2. CASE Decided(s) /\ agent.session = s
  <2>1. PICK prompt \in BOOLEAN : prompt = (detector[s].state = "idle" /\ detector[s].sure)
    BY <1>0 DEF DetectorRows
  <2>2. PICK at \in {"type", "loop"} : at = IF agent.pending /\ prompt THEN "type" ELSE "loop"
    OBVIOUS
  <2>3. /\ agent' = [agent EXCEPT !.state = detector[s].state, !.pending = agent.pending /\ ~prompt]
        /\ task' = [task EXCEPT ![s] = at] /\ queue' = queue /\ detector' = detector
    BY <1>2, <2>1, <2>2 DEF Decided
  <2>4. PICK pending \in BOOLEAN : pending = (agent.pending /\ ~prompt)
    OBVIOUS
  <2>5. agent' = [agent EXCEPT !.state = detector[s].state, !.pending = pending]
        /\ (pending => agent.pending) /\ (at = "type" => agent.pending /\ ~pending)
    BY <1>0, <2>2, <2>3, <2>4 DEF AgentRows
  <2>6. agent' \in AgentRows /\ agent'.session = agent.session /\ agent'.boot = agent.boot
        /\ agent'.listens = agent.listens /\ agent'.pending = pending
    BY <1>0, <2>5 DEF AgentRows, DetectorRows
  <2>7. SessionsAreCounted'
    BY <1>0, <1>2, <2>3, <2>6, BootFacts DEF BootInv, SessionsAreCounted, Sessions
  <2>8. TasksTyped'
    BY <1>0, <2>3, <2>5, <2>6 DEF BootInv, TasksTyped
  <2>9. TextIsInOnePlace'
    BY <1>0, <1>2, <2>3, <2>5, <2>6 DEF BootInv, TextIsInOnePlace, TasksTyped, Held, Free
  <2> QED
    BY <2>7, <2>8, <2>9 DEF BootInv
<1> QED
  BY <1>1, <1>2 DEF Apply

LEMMA TypeStep == ASSUME BootInv, NEW s \in Sessions, Type(s) PROVE BootInv'
<1>1. PICK at \in {"typed", "refused"} : task' = [task EXCEPT ![s] = at]
  BY DEF Type
<1>2. /\ task[s] = "type" /\ typed[s] = 0 /\ s \notin gaveUp /\ typed' = [typed EXCEPT ![s] = 1]
      /\ process[s] # "none" /\ ~Held(s)
      /\ UNCHANGED <<agent, wire, process, queue, detector, timer, catalog, budget, gaveUp>>
  <2>1. task[s] = "type" /\ typed[s] = 0 /\ s \notin gaveUp /\ ~Held(s)
    BY DEF Type, BootInv, TextIsInOnePlace, Free
  <2>2. process[s] # "none"
    BY <2>1 DEF BootInv, TasksTyped
  <2>3. typed' = [typed EXCEPT ![s] = 1]
    BY <2>1 DEF Type
  <2> QED
    BY <2>1, <2>2, <2>3 DEF Type
<1>3. SessionsAreCounted'
  BY <1>2 DEF BootInv, SessionsAreCounted
<1>4. TasksTyped'
  BY <1>1, <1>2 DEF BootInv, TasksTyped
<1>5. TextIsInOnePlace'
  BY <1>1, <1>2 DEF BootInv, TextIsInOnePlace, TasksTyped, Held, Free
<1> QED
  BY <1>3, <1>4, <1>5 DEF BootInv

LEMMA RecordStep == ASSUME BootInv, NEW s \in Sessions, Record(s) PROVE BootInv'
<1>1. PICK boot \in {"delivered", "failed"} : agent' = [agent EXCEPT !.boot = boot]
  BY DEF Record
<1>2. /\ task[s] \in {"typed", "refused"} /\ task' = [task EXCEPT ![s] = "loop"] /\ agent \in AgentRows
      /\ process[s] # "none"
      /\ UNCHANGED <<wire, process, queue, detector, timer, catalog, budget, typed, gaveUp>>
  BY DEF Record, BootInv, TasksTyped, history
<1>3. agent' \in AgentRows /\ agent'.session = agent.session /\ agent'.pending = agent.pending
      /\ agent'.listens = agent.listens /\ agent'.state = agent.state /\ agent'.boot = boot
  BY <1>1, <1>2 DEF AgentRows, Statuses
<1>4. SessionsAreCounted'
  BY <1>2, <1>3 DEF BootInv, SessionsAreCounted
<1>5. TasksTyped'
  BY <1>2, <1>3 DEF BootInv, TasksTyped
<1>6. TextIsInOnePlace'
  BY <1>2, <1>3 DEF BootInv, TextIsInOnePlace, TasksTyped, Held, Free
<1> QED
  BY <1>4, <1>5, <1>6 DEF BootInv

LEMMA TimeOutStep == ASSUME BootInv, NEW s \in Sessions, TimeOut(s) PROVE BootInv'
<1>0. /\ timer' = [timer EXCEPT ![s] = Off] /\ agent \in AgentRows /\ timer[s] # Off /\ process[s] # "none"
      /\ Off \in Off .. BootTimeout
      /\ UNCHANGED <<wire, process, queue, detector, task, catalog, budget, typed>>
  BY BootFacts DEF TimeOut, BootInv, TasksTyped, Off
<1>1. CASE Held(s)
  <2>1. /\ agent' = [agent EXCEPT !.boot = "failed", !.pending = FALSE] /\ gaveUp' = gaveUp \union {s}
        /\ typed[s] = 0 /\ task[s] # "type"
    BY <1>1 DEF TimeOut, Held, BootInv, TextIsInOnePlace, Free
  <2>2. agent' \in AgentRows /\ agent'.session = agent.session /\ agent'.pending = FALSE
        /\ agent'.listens = agent.listens /\ agent'.state = agent.state
    BY <1>0, <2>1 DEF AgentRows, Statuses
  <2>3. SessionsAreCounted'
    BY <1>0, <2>2 DEF BootInv, SessionsAreCounted
  <2>4. TasksTyped'
    BY <1>0, <2>2 DEF BootInv, TasksTyped
  <2>5. TextIsInOnePlace'
    BY <1>0, <2>1, <2>2 DEF BootInv, TextIsInOnePlace, TasksTyped, Held, Free
  <2> QED
    BY <2>3, <2>4, <2>5 DEF BootInv
<1>2. CASE ~Held(s)
  <2>1. UNCHANGED <<agent, gaveUp>>
    BY <1>2 DEF TimeOut, Held
  <2>2. SessionsAreCounted'
    BY <1>0, <2>1 DEF BootInv, SessionsAreCounted
  <2>3. TasksTyped'
    BY <1>0, <2>1 DEF BootInv, TasksTyped
  <2>4. TextIsInOnePlace'
    BY <1>0, <2>1 DEF BootInv, TextIsInOnePlace, Held, Free
  <2> QED
    BY <2>2, <2>3, <2>4 DEF BootInv
<1> QED
  BY <1>1, <1>2

\* The process, the clock and the catalogue: the text stays where it is.
TextStays == UNCHANGED <<task, typed, gaveUp>> /\ agent'.session = agent.session /\ agent'.pending = agent.pending
             /\ \A s \in Sessions : process'[s] = "none" <=> process[s] = "none"
LEMMA TextStaysStep == BootInv /\ TextStays => TextIsInOnePlace'
BY DEF BootInv, TextStays, TextIsInOnePlace, Held, Free

LEMMA OutputStep == ASSUME BootInv, NEW s \in Sessions, Output(s) PROVE BootInv'
<1>0. /\ budget' = [budget EXCEPT !.outputs = budget.outputs - 1] /\ budget.outputs > 0 /\ process[s] = "up"
      /\ UNCHANGED <<agent, wire, process, detector, task, timer, catalog, typed, gaveUp>>
      /\ budget \in [starts : 0 .. MaxSessions, outputs : Nat, calibrations : Nat]
      /\ queue \in [Sessions -> Seq(Inputs)]
  BY DEF Output, history, BootInv, SessionsAreCounted, TasksTyped
<1>1. queue' \in [Sessions -> Seq(Inputs)]
  <2>1. PICK text \in Screens : Send(s, "output", text)
    BY DEF Output
  <2>2. Append(queue[s], [kind |-> "output", of |-> text]) \in Seq(Inputs)
    BY <1>0 DEF Inputs
  <2> QED
    BY <1>0, <2>1, <2>2 DEF Send
<1>2. budget' \in [starts : 0 .. MaxSessions, outputs : Nat, calibrations : Nat]
      /\ budget'.starts = budget.starts
  BY <1>0
<1>3. SessionsAreCounted'
  BY <1>0, <1>2 DEF BootInv, SessionsAreCounted
<1>4. TasksTyped'
  BY <1>0, <1>1 DEF BootInv, TasksTyped
<1>5. TextIsInOnePlace'
  BY <1>0, TextStaysStep DEF TextStays
<1> QED
  BY <1>3, <1>4, <1>5 DEF BootInv

LEMMA CalibrateStep == BootInv /\ Calibrate => BootInv'
<1> SUFFICES ASSUME BootInv, Calibrate PROVE BootInv'
  OBVIOUS
<1>0. /\ budget' = [budget EXCEPT !.calibrations = budget.calibrations - 1] /\ budget.calibrations > 0
      /\ UNCHANGED <<agent, wire, process, detector, task, timer, typed, gaveUp>>
      /\ budget \in [starts : 0 .. MaxSessions, outputs : Nat, calibrations : Nat]
      /\ queue \in [Sessions -> Seq(Inputs)]
  BY DEF Calibrate, history, BootInv, SessionsAreCounted, TasksTyped
<1>1. PICK rules \in Rules : catalog' = rules /\ (Send(agent.session, "rules", rules) \/ queue' = queue)
  BY DEF Calibrate
<1>2. queue' \in [Sessions -> Seq(Inputs)]
  <2>1. ASSUME NEW s \in Sessions PROVE Append(queue[s], [kind |-> "rules", of |-> rules]) \in Seq(Inputs)
    BY <1>0 DEF Inputs
  <2> QED
    BY <1>0, <1>1, <2>1 DEF Send
<1>3. budget' \in [starts : 0 .. MaxSessions, outputs : Nat, calibrations : Nat]
      /\ budget'.starts = budget.starts
  BY <1>0
<1>4. SessionsAreCounted'
  BY <1>0, <1>3 DEF BootInv, SessionsAreCounted
<1>5. TasksTyped'
  BY <1>0, <1>1, <1>2 DEF BootInv, TasksTyped
<1>6. TextIsInOnePlace'
  BY <1>0, TextStaysStep DEF TextStays
<1> QED
  BY <1>4, <1>5, <1>6 DEF BootInv

LEMMA EndOfProcessSteps == ASSUME BootInv, NEW s \in Sessions, Die(s) \/ OnExit(s) PROVE BootInv'
<1>0. /\ UNCHANGED <<wire, queue, detector, task, timer, catalog, budget, typed, gaveUp>>
      /\ agent \in AgentRows /\ process[s] # "none"
  BY DEF Die, OnExit, BootInv, TasksTyped, history
<1>1. PICK at \in {"gone", "told"} : process' = [process EXCEPT ![s] = at]
  BY DEF Die, OnExit
<1>2. agent' \in AgentRows /\ agent'.session = agent.session /\ agent'.pending = agent.pending
      /\ agent'.boot = agent.boot /\ (agent'.listens => agent.listens)
      /\ (agent'.state \in Running => agent.state \in Running)
  <2>1. CASE agent' = agent
    BY <1>0, <2>1
  <2>2. CASE agent' # agent
    <3>1. PICK state \in {"stopped", "failed"} : agent' = [agent EXCEPT !.state = state, !.listens = FALSE]
      BY <2>2 DEF Die, OnExit
    <3> QED
      BY <1>0, <3>1 DEF AgentRows, Running, Seen
  <2> QED
    BY <2>1, <2>2
<1>3. SessionsAreCounted'
  BY <1>0, <1>1, <1>2 DEF BootInv, SessionsAreCounted, TasksTyped
<1>4. TasksTyped'
  BY <1>0, <1>1, <1>2 DEF BootInv, TasksTyped
<1>5. TextIsInOnePlace'
  <2>1. \A x \in Sessions : process'[x] = "none" <=> process[x] = "none"
    BY <1>0, <1>1 DEF BootInv, TasksTyped
  <2> QED
    BY <1>0, <1>2, <2>1, TextStaysStep DEF TextStays
<1> QED
  BY <1>3, <1>4, <1>5 DEF BootInv

LEMMA ClockStep == BootInv /\ Clock => BootInv'
<1> SUFFICES ASSUME BootInv, Clock PROVE BootInv'
  OBVIOUS
<1>0. /\ UNCHANGED <<agent, wire, process, queue, task, catalog, budget, typed, gaveUp>>
      /\ detector \in [Sessions -> DetectorRows] /\ timer \in [Sessions -> Off .. BootTimeout]
  BY DEF Clock, BootInv, TasksTyped, history
<1>1. detector' \in [Sessions -> DetectorRows]
  <2>1. ASSUME NEW s \in Sessions, detector[s].silent < LongSilence
        PROVE  [detector[s] EXCEPT !.silent = @ + 1] \in DetectorRows
    <3>1. detector[s] \in DetectorRows /\ detector[s].silent + 1 \in 0 .. LongSilence
      BY <1>0, <2>1, BootFacts DEF DetectorRows
    <3> QED
      BY <3>1 DEF DetectorRows
  <2> QED
    BY <1>0, <2>1 DEF Clock
<1>2. timer' \in [Sessions -> Off .. BootTimeout]
      /\ \A s \in Sessions : timer[s] = Off => timer'[s] = Off
  <2>1. ASSUME NEW s \in Sessions
        PROVE  /\ timer'[s] \in Off .. BootTimeout /\ (timer[s] = Off => timer'[s] = Off)
    BY <1>0, BootFacts DEF Clock, Off
  <2>2. timer' = [s \in Sessions |-> timer'[s]]
    BY DEF Clock
  <2> QED
    BY <2>1, <2>2
<1>3. SessionsAreCounted'
  BY <1>0 DEF BootInv, SessionsAreCounted
<1>4. TasksTyped'
  BY <1>0, <1>1, <1>2 DEF BootInv, TasksTyped
<1>5. TextIsInOnePlace'
  BY <1>0, TextStaysStep DEF TextStays
<1> QED
  BY <1>3, <1>4, <1>5 DEF BootInv

LEMMA BootInvStep == BootInv /\ [Next]_vars => BootInv'
<1> SUFFICES ASSUME BootInv, [Next]_vars PROVE BootInv'
  OBVIOUS
<1>1. CASE UNCHANGED vars
  BY <1>1 DEF vars, BootInv, SessionsAreCounted, TasksTyped, TextIsInOnePlace, Held, Free
<1>2. CASE \E s \in Sessions : Task(s)
  <2>1. PICK s \in Sessions : Task(s)
    BY <1>2
  <2>2. CASE Close(s)
    BY <2>2, EndsStep DEF Close, history
  <2> QED
    BY <2>1, <2>2, ReceiveStep, WakeStep, ApplyStep, TypeStep, RecordStep DEF Task
<1>3. CASE \E s \in Sessions : TimeOut(s) \/ Output(s) \/ Die(s) \/ OnExit(s)
  BY <1>3, TimeOutStep, OutputStep, EndOfProcessSteps
<1> QED
  BY <1>1, <1>2, <1>3, StartStep, SpawnStep, CalibrateStep, ClockStep DEF Next

\* The detector never sleeps past its own decision, and the text of a session
\* is typed once at most, or given up (detector.rs, boot_timed_out).
THEOREM DetectorIsExactHolds == Spec => []DetectorIsExact
<1>1. BootInv => DetectorIsExact
  <2> SUFFICES ASSUME BootInv PROVE DetectorIsExact
    OBVIOUS
  <2>1. TypeOK
    BY DEF BootInv, TasksTyped, TextIsInOnePlace, TypeOK, AgentRows, DetectorRows
  <2>2. NeverOversleeps
    BY DeadlineIsDue DEF NeverOversleeps, BootInv, TasksTyped
  <2>3. TypedOrGivenUp
    BY DEF BootInv, TextIsInOnePlace, TypedOrGivenUp
  <2> QED
    BY <2>1, <2>2, <2>3 DEF DetectorIsExact
<1> QED
  BY <1>1, BootInitInv, BootInvStep, PTL DEF Spec

-----------------------------------------------------------------------------
(* The migrations: one that fails costs nothing, whatever dies, but for a copy *)
(* back that is cut short.                                                     *)

(* Versions                                                                  *)

\* Versions that are pending, or applied, have a first and a last one.
LEMMA VersionsHaveEnds ==
    ASSUME NEW V \in SUBSET Versions, V # {}
    PROVE  Min(V) \in V /\ Max(V) \in V
<1>1. PICK n \in Nat : Versions = 1 .. n
  BY UpgradeAssumption, FS_CardinalityType
<1>2. V \subseteq Nat
  BY <1>1
<1>3. \E x \in V : \A y \in V : x =< y
  <2>1. PICK x \in V : \A y \in V : ~ (<<y, x>> \in OpToRel(<, Nat))
    BY <1>2, NatLessThanWellFounded, WFMin DEF OpToRel
  <2>2. \A y \in V : ~ (y < x)
    BY <1>2, <2>1 DEF OpToRel
  <2> QED
    BY <1>2, <2>2
<1>4. \E x \in V : \A y \in V : x >= y
  <2> DEFINE Above == {n - v : v \in V}
  <2>1. Above \subseteq Nat /\ Above # {}
    <3>1. \A v \in V : n - v \in Nat
      BY <1>1
    <3> QED
      BY <3>1
  <2>2. PICK a \in Above : \A b \in Above : ~ (<<b, a>> \in OpToRel(<, Nat))
    BY <2>1, NatLessThanWellFounded, WFMin DEF OpToRel
  <2>3. PICK x \in V : a = n - x
    OBVIOUS
  <2>4. \A y \in V : ~ (n - y < n - x)
    BY <2>1, <2>2, <2>3 DEF OpToRel
  <2> QED
    BY <1>1, <1>2, <2>4
<1> QED
  BY <1>3, <1>4 DEF Min, Max

-----------------------------------------------------------------------------
(* The invariant                                                             *)

Files == [kind : {"absent", "torn", "empty", "whole"}, applied : SUBSET Versions,
          rows : SUBSET Records]
Looking == {"look", "remove", "vacuum", "vacuuming"}
Migrating == {"migrate", "undo", "restore", "copy"}
Places == {"off", "run"} \cup Looking \cup Migrating \cup Gone0
StartRows == [ask : [knows : Nat, breaks : Nat], at : Places, saved : {0} \cup Versions,
          before : Files]

UpgradeTypeOK ==
    /\ database \in Files
    /\ backups \in [Versions -> Files]
    /\ starts \in Seq(StartRows)
    /\ written \subseteq Records
    /\ torn \in BOOLEAN

\* The programs come one after the other.
InTurn ==
    \A i, j \in DOMAIN starts : j < i /\ starts[i].at # "off" => starts[j].at \in Gone0

\* What a program found is still there: in the file while it only looks, in the
\* backup it made once it migrates; and all the user was told of was in it.
FoundIsKept(i) ==
    LET s == starts[i]
    IN  /\ s.at \in {"off", "look"} => s.saved = 0
        /\ s.at \in {"remove", "vacuum", "vacuuming", "restore", "copy"} => s.saved # 0
        /\ s.at \in Looking => database = s.before
        /\ s.at \in Migrating /\ s.saved # 0 => backups[s.saved] = s.before
        /\ s.at \in Looking \cup Migrating => torn \/ written \subseteq s.before.rows

\* The file holds what the user was told of, except while it is copied back.
FileIsWhole ==
    torn \/ (\E i \in DOMAIN starts : starts[i].at = "copy") \/ written \subseteq database.rows

UpgradeInv ==
    UpgradeTypeOK /\ InTurn /\ (\A i \in DOMAIN starts : FoundIsKept(i)) /\ FileIsWhole

\* A program goes from one record to the next while nobody else is on its way.
LEMMA OneMoves ==
    ASSUME UpgradeTypeOK, InTurn, \A k \in DOMAIN starts : FoundIsKept(k),
           NEW i \in DOMAIN starts, starts[i].at \notin Gone0,
           starts[i].at = "off" => \A j \in 1 .. (i - 1) : starts[j].at \in Gone0,
           NEW s \in StartRows, s.at # "off", starts' = [starts EXCEPT ![i] = s]
    PROVE  /\ starts' \in Seq(StartRows) /\ DOMAIN starts' = DOMAIN starts /\ starts'[i] = s
           /\ InTurn'
           /\ \A j \in DOMAIN starts \ {i} :
                /\ starts[j].at \in {"off"} \cup Gone0 /\ starts'[j] = starts[j]
                /\ FoundIsKept(j)'
<1>1. starts' \in Seq(StartRows) /\ DOMAIN starts' = DOMAIN starts /\ starts'[i] = s
      /\ \A j \in DOMAIN starts \ {i} : starts'[j] = starts[j]
  BY DEF UpgradeTypeOK
<1>2. DOMAIN starts \subseteq Nat /\ \A j \in DOMAIN starts : j >= 1
  BY DEF UpgradeTypeOK
<1>3. ASSUME NEW j \in DOMAIN starts, j < i
      PROVE  starts[j].at \in Gone0
  <2>1. CASE starts[i].at = "off"
    BY <1>2, <1>3, <2>1
  <2>2. CASE starts[i].at # "off"
    BY <1>3, <2>2 DEF InTurn
  <2> QED
    BY <2>1, <2>2
<1>4. ASSUME NEW j \in DOMAIN starts, i < j
      PROVE  starts[j].at = "off"
  BY <1>4 DEF InTurn
<1>5. InTurn'
  <2> SUFFICES ASSUME NEW j \in DOMAIN starts, NEW k \in DOMAIN starts, k < j,
                      starts'[j].at # "off"
               PROVE  starts'[k].at \in Gone0
    BY <1>1 DEF InTurn
  <2>1. CASE j = i
    BY <1>1, <1>2, <1>3, <2>1
  <2>2. CASE j # i
    <3>1. starts[j].at # "off" /\ ~ (i < j)
      BY <1>1, <1>4, <2>2
    <3>2. k # i /\ starts[k].at \in Gone0
      BY <1>2, <3>1, <2>2 DEF InTurn
    <3> QED
      BY <1>1, <3>2
  <2> QED
    BY <2>1, <2>2
<1>6. \A j \in DOMAIN starts \ {i} : starts[j].at \in {"off"} \cup Gone0
  BY <1>2, <1>3, <1>4
<1>7. ASSUME NEW j \in DOMAIN starts \ {i}
      PROVE  FoundIsKept(j)'
  BY <1>1, <1>6, <1>7 DEF FoundIsKept, Gone0, Looking, Migrating
<1> QED
  BY <1>1, <1>5, <1>6, <1>7

\* So a step of that program has to be looked at for that program alone.
LEMMA OneKeeps ==
    ASSUME UpgradeInv, NEW i \in DOMAIN starts, starts[i].at \notin Gone0,
           starts[i].at = "off" => \A j \in 1 .. (i - 1) : starts[j].at \in Gone0,
           NEW s \in StartRows, s.at # "off", starts' = [starts EXCEPT ![i] = s],
           database' \in Files, backups' \in [Versions -> Files],
           written' \subseteq Records, torn' \in BOOLEAN,
           starts'[i] = s => FoundIsKept(i)',
           torn' \/ s.at = "copy" \/ written' \subseteq database'.rows
    PROVE  UpgradeInv'
<1>1. /\ starts' \in Seq(StartRows) /\ DOMAIN starts' = DOMAIN starts /\ starts'[i] = s
      /\ InTurn' /\ \A j \in DOMAIN starts \ {i} : FoundIsKept(j)'
  BY OneMoves DEF UpgradeInv
<1>2. UpgradeTypeOK'
  BY <1>1 DEF UpgradeTypeOK
<1>3. \A j \in DOMAIN starts' : FoundIsKept(j)'
  BY <1>1
<1>4. FileIsWhole'
  BY <1>1 DEF FileIsWhole
<1> QED
  BY <1>1, <1>2, <1>3, <1>4 DEF UpgradeInv

\* The file is whole while a program that does not copy is on its way.
LEMMA NobodyCopies ==
    ASSUME UpgradeInv, NEW i \in DOMAIN starts, starts[i].at \notin Gone0, starts[i].at # "copy",
           starts[i].at = "off" => \A j \in 1 .. (i - 1) : starts[j].at \in Gone0
    PROVE  torn \/ written \subseteq database.rows
<1>1. DOMAIN starts \subseteq Nat /\ \A j \in DOMAIN starts : j >= 1
  BY DEF UpgradeInv, UpgradeTypeOK
<1>2. ASSUME NEW j \in DOMAIN starts, starts[j].at = "copy"
      PROVE  FALSE
  <2>1. j # i
    BY <1>2
  <2>2. CASE j < i
    <3>1. CASE starts[i].at = "off"
      <4>1. i \in Nat /\ j \in Nat /\ j >= 1
        BY <1>1
      <4>2. j \in 1 .. (i - 1)
        BY <2>2, <4>1
      <4> QED
        BY <1>2, <3>1, <4>2 DEF Gone0
    <3>2. CASE starts[i].at # "off"
      BY <1>2, <2>2, <3>2 DEF UpgradeInv, InTurn, Gone0
    <3> QED
      BY <3>1, <3>2
  <2>3. CASE i < j
    BY <1>2, <2>3 DEF UpgradeInv, InTurn
  <2> QED
    BY <1>1, <2>1, <2>2, <2>3
<1> QED
  BY <1>2 DEF UpgradeInv, FileIsWhole

-----------------------------------------------------------------------------
(* Every step keeps it                                                       *)

\* The record of a program after a step that only takes it to another place.
LEMMA Goes ==
    ASSUME UpgradeInv, NEW i \in DOMAIN starts, NEW at \in Places, StartGoes(i, at)
    PROVE  /\ [starts[i] EXCEPT !.at = at] \in StartRows
           /\ starts' = [starts EXCEPT ![i] = [starts[i] EXCEPT !.at = at]]
           /\ [starts[i] EXCEPT !.at = at].at = at
           /\ starts[i] \in StartRows
<1>1. starts[i] \in StartRows
  BY DEF UpgradeInv, UpgradeTypeOK
<1> QED
  BY <1>1 DEF StartRows, StartGoes

\* A step that only looks, or gives up, changes the place of the program.
LEMMA LookingKeeps ==
    ASSUME UpgradeInv, NEW i \in DOMAIN starts, LooksAtVersions(i)
    PROVE  UpgradeInv'
<1> DEFINE saved == Max(database.applied)
           s == IF database.applied = {} \/ Misses(i) = {}
                THEN [starts[i] EXCEPT !.at = "migrate"]
                ELSE [starts[i] EXCEPT !.at = "remove", !.saved = saved]
<1>1. /\ starts[i] \in StartRows /\ starts[i].at = "look" /\ FoundIsKept(i)
      /\ database \in Files
  BY DEF UpgradeInv, UpgradeTypeOK, LooksAtVersions
<1>2. database.applied # {} => saved \in Versions /\ saved # 0
  <2>1. database.applied \in SUBSET Versions
    BY <1>1 DEF Files
  <2>2. \A v \in Versions : v # 0
    BY UpgradeAssumption, FS_CardinalityType
  <2> QED
    BY <2>1, <2>2, VersionsHaveEnds
<1> HIDE DEF saved
<1>3. s \in StartRows /\ s.at \in {"migrate", "remove"} /\ starts' = [starts EXCEPT ![i] = s]
  BY <1>1, <1>2 DEF LooksAtVersions, StartGoes, StartRows, Places, Looking, Migrating, saved
<1>4. /\ s.before = starts[i].before
      /\ s.at = "migrate" => s.saved = 0
      /\ s.at = "remove" => s.saved # 0
  BY <1>1, <1>2 DEF StartRows, FoundIsKept
<1> HIDE DEF s
<1>5. starts'[i] = s => FoundIsKept(i)'
  BY <1>1, <1>3, <1>4 DEF FoundIsKept, LooksAtVersions, Looking, Migrating
<1>6. torn \/ written \subseteq database.rows
  BY <1>1, NobodyCopies DEF Gone0
<1> QED
  BY <1>1, <1>3, <1>5, <1>6, OneKeeps DEF LooksAtVersions, Gone0, UpgradeInv, UpgradeTypeOK

\* A step to another place: what is left to be shown of it.
LEMMA GoesKeeps ==
    ASSUME UpgradeInv, NEW i \in DOMAIN starts,
           starts[i].at \notin Gone0, starts[i].at # "off",
           NEW at \in Places, at # "off", at # "look", StartGoes(i, at),
           database' \in Files, backups' \in [Versions -> Files],
           written' \subseteq Records, torn' \in BOOLEAN,
           at \in {"remove", "vacuum", "vacuuming", "restore", "copy"} => starts[i].saved # 0,
           at \in Looking => database' = starts[i].before,
           at \in Migrating /\ starts[i].saved # 0 => backups'[starts[i].saved] = starts[i].before,
           at \in Looking \cup Migrating => torn' \/ written' \subseteq starts[i].before.rows,
           torn' \/ at = "copy" \/ written' \subseteq database'.rows
    PROVE  UpgradeInv'
<1> DEFINE s == [starts[i] EXCEPT !.at = at]
<1>1. /\ s \in StartRows /\ starts' = [starts EXCEPT ![i] = s] /\ s.at = at
      /\ starts[i] \in StartRows
  BY Goes
<1>2. s.saved = starts[i].saved /\ s.before = starts[i].before
  BY <1>1 DEF StartRows
<1> HIDE DEF s
<1>3. starts'[i] = s => FoundIsKept(i)'
  BY <1>1, <1>2 DEF FoundIsKept
<1> QED
  BY <1>1, <1>3, OneKeeps

\* The backup is made while the file is as it was found.
LEMMA BackupKeeps ==
    ASSUME UpgradeInv, NEW i \in DOMAIN starts,
           RemovesBackup(i) \/ VacuumBegins(i) \/ VacuumEnds(i)
    PROVE  UpgradeInv'
<1>1. /\ starts[i] \in StartRows /\ starts[i].at \in {"remove", "vacuum", "vacuuming"}
      /\ starts[i].saved \in Versions /\ database = starts[i].before
      /\ torn \/ written \subseteq starts[i].before.rows
  <2>1. starts[i] \in StartRows /\ FoundIsKept(i)
    BY DEF UpgradeInv, UpgradeTypeOK
  <2>2. starts[i].at \in {"remove", "vacuum", "vacuuming"}
    BY DEF RemovesBackup, VacuumBegins, VacuumEnds
  <2> QED
    BY <2>1, <2>2 DEF FoundIsKept, StartRows, Looking
<1>2. /\ database \in Files /\ backups \in [Versions -> Files]
      /\ written \subseteq Records /\ torn \in BOOLEAN
  BY DEF UpgradeInv, UpgradeTypeOK
<1>3. Torn \in Files /\ NoDatabase \in Files
  BY DEF Torn, NoDatabase, Files
<1>4. /\ {"vacuum", "vacuuming", "migrate", "failed"} \subseteq Places
      /\ "vacuum" \in Looking /\ "vacuuming" \in Looking /\ "migrate" \in Migrating
      /\ "failed" \notin Looking \cup Migrating
      /\ "migrate" \notin Looking /\ "vacuum" \notin Migrating /\ "vacuuming" \notin Migrating
      /\ starts[i].at \notin Gone0 /\ starts[i].at # "off"
  BY <1>1 DEF Places, Looking, Migrating, Gone0
<1>5. starts[i].saved # 0
  BY <1>1 DEF UpgradeInv, FoundIsKept
<1>6. CASE RemovesBackup(i)
  BY <1>1, <1>2, <1>3, <1>4, <1>5, <1>6, GoesKeeps DEF RemovesBackup
<1>7. CASE VacuumBegins(i)
  <2>1. CASE backups[starts[i].saved] = NoDatabase
    BY <1>1, <1>2, <1>3, <1>4, <1>5, <1>7, <2>1, GoesKeeps DEF VacuumBegins
  <2>2. CASE backups[starts[i].saved] # NoDatabase
    BY <1>1, <1>2, <1>3, <1>4, <1>5, <1>7, <2>2, GoesKeeps DEF VacuumBegins
  <2> QED
    BY <2>1, <2>2
<1>8. CASE VacuumEnds(i)
  <2>1. CASE backups' = [backups EXCEPT ![starts[i].saved] = database] /\ StartGoes(i, "migrate")
    BY <1>1, <1>2, <1>3, <1>4, <1>5, <1>8, <2>1, GoesKeeps DEF VacuumEnds
  <2>2. CASE StartGoes(i, "failed") /\ UNCHANGED backups
    BY <1>1, <1>2, <1>3, <1>4, <1>5, <1>8, <2>2, GoesKeeps DEF VacuumEnds
  <2> QED
    BY <1>8, <2>1, <2>2 DEF VacuumEnds
<1> QED
  BY <1>6, <1>7, <1>8

\* Migrations keep the rows, and the copy back brings what was found.
LEMMA MigrationKeeps ==
    ASSUME UpgradeInv, NEW i \in DOMAIN starts,
           Migrates(i) \/ Undoes(i) \/ RestoreBegins(i) \/ RestoreEnds(i)
    PROVE  UpgradeInv'
<1>1. /\ starts[i] \in StartRows /\ starts[i].at \in Migrating
      /\ starts[i].saved # 0 => starts[i].saved \in Versions /\ backups[starts[i].saved] = starts[i].before
      /\ starts[i].at \in {"restore", "copy"} => starts[i].saved # 0
      /\ torn \/ written \subseteq starts[i].before.rows
  <2>1. starts[i] \in StartRows /\ FoundIsKept(i)
    BY DEF UpgradeInv, UpgradeTypeOK
  <2>2. starts[i].at \in Migrating
    BY DEF Migrates, Undoes, RestoreBegins, RestoreEnds, Migrating
  <2> QED
    BY <2>1, <2>2 DEF FoundIsKept, StartRows
<1>2. /\ database \in Files /\ backups \in [Versions -> Files]
      /\ written \subseteq Records /\ torn \in BOOLEAN
  BY DEF UpgradeInv, UpgradeTypeOK
<1>3. EmptyFile \in Files
  BY DEF EmptyFile, Files
<1>4. /\ {"undo", "run", "failed", "restore", "copy", "rolled back"} \subseteq Places
      /\ {"undo", "restore", "copy"} \subseteq Migrating
      /\ {"undo", "run", "failed", "restore", "copy", "rolled back"} \cap Looking = {}
      /\ {"run", "failed", "rolled back"} \cap Migrating = {}
      /\ starts[i].at \notin Gone0 /\ starts[i].at # "off"
  BY <1>1 DEF Places, Looking, Migrating, Gone0
<1>5. starts[i].at # "copy" => torn \/ written \subseteq database.rows
  BY <1>4, NobodyCopies
<1>6. CASE Migrates(i)
  <2>1. CASE StartGoes(i, "undo") /\ UNCHANGED database
    BY <1>1, <1>2, <1>4, <1>5, <1>6, <2>1, GoesKeeps DEF Migrates
  <2>2. CASE StartGoes(i, "run") /\ UNCHANGED database
    BY <1>1, <1>2, <1>4, <1>5, <1>6, <2>2, GoesKeeps DEF Migrates
  <2>3. CASE /\ Misses(i) # {} /\ UNCHANGED starts
             /\ database' = Whole(database.applied \union {Min(Misses(i))}, database.rows)
    <3>1. Min(Misses(i)) \in Versions
      BY <2>3, VersionsHaveEnds DEF Misses
    <3>2. database' \in Files /\ database'.rows = database.rows
      BY <1>2, <2>3, <3>1 DEF Whole, Files
    <3>3. starts' = [starts EXCEPT ![i] = starts[i]]
      BY <2>3 DEF UpgradeInv, UpgradeTypeOK
    <3>4. starts'[i] = starts[i] => FoundIsKept(i)'
      BY <1>1, <1>6 DEF UpgradeInv, FoundIsKept, Migrates, Looking, Migrating
    <3> QED
      BY <1>1, <1>2, <1>4, <1>5, <1>6, <3>2, <3>3, <3>4, OneKeeps DEF Migrates
  <2> QED
    BY <1>6, <2>1, <2>2, <2>3 DEF Migrates
<1>7. CASE Undoes(i)
  <2>1. CASE starts[i].saved = 0
    BY <1>1, <1>2, <1>4, <1>5, <1>7, <2>1, GoesKeeps DEF Undoes
  <2>2. CASE starts[i].saved # 0
    BY <1>1, <1>2, <1>4, <1>5, <1>7, <2>2, GoesKeeps DEF Undoes
  <2> QED
    BY <2>1, <2>2
<1>8. CASE RestoreBegins(i)
  <2>1. CASE database' = EmptyFile /\ StartGoes(i, "copy")
    BY <1>1, <1>2, <1>3, <1>4, <1>8, <2>1, GoesKeeps DEF RestoreBegins
  <2>2. CASE StartGoes(i, "failed") /\ UNCHANGED database
    BY <1>1, <1>2, <1>4, <1>5, <1>8, <2>2, GoesKeeps DEF RestoreBegins
  <2> QED
    BY <1>8, <2>1, <2>2 DEF RestoreBegins
<1>9. CASE RestoreEnds(i)
  <2>1. database' = starts[i].before /\ database' \in Files
    BY <1>1, <1>2, <1>9 DEF RestoreEnds
  <2> QED
    BY <1>1, <1>2, <1>4, <1>9, <2>1, GoesKeeps DEF RestoreEnds
<1> QED
  BY <1>6, <1>7, <1>8, <1>9

\* A program begins with what it finds, and the user works while it runs.
LEMMA RunKeeps ==
    ASSUME UpgradeInv, NEW i \in DOMAIN starts,
           Connects0(i) \/ UserAddsRow(i) \/ Quits(i) \/ StartDies(i)
    PROVE  UpgradeInv'
<1>1. starts[i] \in StartRows /\ FoundIsKept(i)
  BY DEF UpgradeInv, UpgradeTypeOK
<1>2. /\ database \in Files /\ backups \in [Versions -> Files]
      /\ written \subseteq Records /\ torn \in BOOLEAN
  BY DEF UpgradeInv, UpgradeTypeOK
<1>3. /\ {"failed", "closed", "dead"} \subseteq Places \cap Gone0
      /\ {"failed", "closed", "dead"} \cap (Looking \cup Migrating) = {}
      /\ "run" \notin Looking \cup Migrating /\ "off" \notin Gone0 /\ "run" \notin Gone0
  BY DEF Places, Looking, Migrating, Gone0
<1>4. CASE Connects0(i)
  <2> starts[i].at = "off" /\ \A j \in 1 .. (i - 1) : starts[j].at \in Gone0
    BY <1>4 DEF Connects0
  <2>1. torn \/ written \subseteq database.rows
    BY <1>3, NobodyCopies
  <2>2. CASE database.kind = "torn"
    <3> DEFINE s == [starts[i] EXCEPT !.at = "failed"]
    <3>1. /\ s \in StartRows /\ starts' = [starts EXCEPT ![i] = s] /\ s.at = "failed"
          /\ UNCHANGED <<database, backups, written, torn>>
      BY <1>3, <1>4, <2>2, Goes DEF Connects0
    <3> HIDE DEF s
    <3>2. starts'[i] = s => FoundIsKept(i)'
      BY <3>1 DEF FoundIsKept, Looking, Migrating
    <3> QED
      BY <1>2, <1>3, <2>1, <3>1, <3>2, OneKeeps
  <2>3. CASE database.kind # "torn"
    <3> DEFINE s == [starts[i] EXCEPT !.at = "look", !.before = database']
    <3>1. database' \in Files /\ database'.rows = database.rows
      BY <1>2, <1>4, <2>3 DEF Connects0, Whole, Files
    <3>2. /\ s \in StartRows /\ starts' = [starts EXCEPT ![i] = s] /\ s.at = "look"
          /\ s.before = database' /\ s.saved = starts[i].saved
          /\ UNCHANGED <<backups, written, torn>>
      BY <1>1, <1>4, <2>3, <3>1 DEF Connects0, StartRows, Places, Looking
    <3> HIDE DEF s
    <3>3. starts'[i] = s => FoundIsKept(i)'
      BY <1>1, <1>4, <2>1, <3>1, <3>2 DEF Connects0, FoundIsKept, Looking, Migrating
    <3> QED
      BY <1>2, <1>3, <2>1, <3>1, <3>2, <3>3, OneKeeps
  <2> QED
    BY <2>2, <2>3
<1>5. CASE UserAddsRow(i)
  <2>1. PICK r \in Records \ written :
          /\ database' = Whole(database.applied, database.rows \union {r})
          /\ written' = written \union {r}
    BY <1>5 DEF UserAddsRow
  <2>2. starts[i].at = "run" /\ UNCHANGED <<backups, starts, torn>>
    BY <1>5 DEF UserAddsRow
  <2>3. torn \/ written \subseteq database.rows
    BY <1>3, <2>2, NobodyCopies
  <2>4. /\ database' \in Files /\ written' \subseteq Records
        /\ torn' \/ written' \subseteq database'.rows
    BY <1>2, <2>1, <2>2, <2>3 DEF Whole, Files
  <2>5. starts' = [starts EXCEPT ![i] = starts[i]]
    BY <2>2 DEF UpgradeInv, UpgradeTypeOK
  <2>6. FoundIsKept(i)'
    BY <1>3, <2>2 DEF FoundIsKept
  <2> QED
    BY <1>1, <1>2, <1>3, <2>2, <2>4, <2>5, <2>6, OneKeeps
<1>6. CASE Quits(i)
  <2>1. torn \/ written \subseteq database.rows
    BY <1>3, <1>6, NobodyCopies DEF Quits
  <2> QED
    BY <1>2, <1>3, <1>6, <2>1, GoesKeeps DEF Quits
<1>7. CASE StartDies(i)
  <2>1. starts[i].at \notin Gone0 /\ starts[i].at # "off" /\ StartGoes(i, "dead")
    BY <1>7 DEF StartDies
  <2>2. CASE starts[i].at = "copy"
    <3>1. database' \in Files /\ torn' = TRUE /\ UNCHANGED <<backups, written>>
      BY <1>7, <2>2 DEF StartDies, EmptyFile, Torn, Files
    <3> QED
      BY <1>2, <1>3, <2>1, <3>1, GoesKeeps
  <2>3. CASE starts[i].at # "copy"
    <3>1. torn \/ written \subseteq database.rows
      BY <2>1, <2>3, NobodyCopies
    <3> QED
      BY <1>2, <1>3, <1>7, <2>1, <2>3, <3>1, GoesKeeps DEF StartDies
  <2> QED
    BY <2>2, <2>3
<1> QED
  BY <1>4, <1>5, <1>6, <1>7

LEMMA InitUpgrade == UpgradeInit => UpgradeInv
<1> SUFFICES ASSUME UpgradeInit PROVE UpgradeInv
  OBVIOUS
<1>1. PICK scene \in UpgradeScenes :
        starts = [i \in DOMAIN scene |->
                    [ask |-> scene[i], at |-> "off", saved |-> 0, before |-> NoDatabase]]
  BY DEF UpgradeInit
<1>2. NoDatabase \in Files
  BY DEF NoDatabase, Files
<1>3. scene \in Seq([knows : Nat, breaks : Nat])
  BY UpgradeAssumption
<1>4. \A i \in DOMAIN starts : starts[i] \in StartRows /\ starts[i].at = "off" /\ starts[i].saved = 0
  <2>1. \A i \in DOMAIN scene : scene[i] \in [knows : Nat, breaks : Nat]
    <3>1. ASSUME NEW S, scene \in Seq(S)
          PROVE  \A i \in DOMAIN scene : scene[i] \in S
      BY <3>1
    <3> QED
      BY <1>3, <3>1, Zenon
  <2>2. "off" \in Places
    BY DEF Places
  <2> QED
    BY <1>1, <1>2, <2>1, <2>2 DEF StartRows
<1>5. starts \in Seq(StartRows)
  <2>1. /\ Len(scene) \in Nat /\ DOMAIN scene = 1 .. Len(scene)
        /\ DOMAIN starts = 1 .. Len(scene)
    BY <1>1, <1>3
  <2>2. starts \in [1 .. Len(scene) -> StartRows]
    BY <1>1, <1>4, <2>1
  <2> QED
    BY <2>1, <2>2
<1>6. UpgradeTypeOK
  BY <1>2, <1>5 DEF UpgradeInit, UpgradeTypeOK
<1>7. InTurn /\ \A i \in DOMAIN starts : FoundIsKept(i)
  BY <1>4 DEF InTurn, FoundIsKept, Looking, Migrating
<1>8. FileIsWhole
  BY DEF UpgradeInit, FileIsWhole
<1> QED
  BY <1>6, <1>7, <1>8 DEF UpgradeInv

LEMMA StepUpgrade == UpgradeInv /\ [UpgradeNext]_upgradeVars => UpgradeInv'
<1>1. UpgradeInv /\ UpgradeNext => UpgradeInv'
  BY LookingKeeps, BackupKeeps, MigrationKeeps, RunKeeps DEF UpgradeNext
<1>2. UpgradeInv /\ UNCHANGED upgradeVars => UpgradeInv'
  BY DEF UpgradeInv, UpgradeTypeOK, InTurn, FoundIsKept, FileIsWhole, upgradeVars
<1> QED
  BY <1>1, <1>2

LEMMA UpgradeInvHolds == UpgradeSpec => []UpgradeInv
BY InitUpgrade, StepUpgrade, PTL DEF UpgradeSpec

-----------------------------------------------------------------------------
(* What follows from it                                                      *)

\* Who goes to a place is there afterwards.
LEMMA PlaceIsReached ==
    ASSUME UpgradeInv, NEW i \in DOMAIN starts, NEW at \in Places, StartGoes(i, at)
    PROVE  starts'[i].at = at
<1>1. starts' = [starts EXCEPT ![i] = [starts[i] EXCEPT !.at = at]]
      /\ [starts[i] EXCEPT !.at = at].at = at
  BY Goes
<1> QED
  BY <1>1

\* Whatever fails or dies, what the user was told of is in the file or in a
\* backup, unless a copy back was cut short.
THEOREM DataIsKeptHolds == UpgradeSpec => []DataIsKept
<1>1. UpgradeInv => DataIsKept
  <2> SUFFICES ASSUME UpgradeInv, ~torn PROVE written \subseteq Kept
    BY DEF DataIsKept
  <2>1. CASE written \subseteq database.rows
    BY <2>1 DEF Kept
  <2>2. ASSUME NEW i \in DOMAIN starts, starts[i].at = "copy"
        PROVE  written \subseteq Kept
    <3>1. /\ starts[i].saved \in Versions /\ backups[starts[i].saved] = starts[i].before
          /\ written \subseteq starts[i].before.rows
      <4>1. starts[i] \in StartRows /\ FoundIsKept(i)
        BY DEF UpgradeInv, UpgradeTypeOK
      <4> QED
        BY <2>2, <4>1 DEF StartRows, FoundIsKept, Migrating
    <3> QED
      BY <3>1 DEF Kept
  <2> QED
    BY <2>1, <2>2 DEF UpgradeInv, FileIsWhole
<1> QED
  BY <1>1, UpgradeInvHolds, PTL

\* A start that answers that it rolled back leaves the database it found.
THEOREM RollbackRestoresHolds == UpgradeSpec => RollbackRestores
<1> DEFINE Restores ==
        \A i \in DOMAIN starts :
            starts[i].at = "copy" /\ starts'[i].at = "rolled back" => database' = starts[i].before
<1>1. ASSUME UpgradeInv, UpgradeNext PROVE Restores
  <2> SUFFICES ASSUME NEW i \in DOMAIN starts, starts[i].at = "copy", starts'[i].at = "rolled back"
               PROVE  database' = starts[i].before
    OBVIOUS
  <2>1. PICK j \in DOMAIN starts :
          \/ Connects0(j) \/ LooksAtVersions(j) \/ RemovesBackup(j) \/ VacuumBegins(j) \/ VacuumEnds(j)
          \/ Migrates(j) \/ Undoes(j) \/ RestoreBegins(j) \/ RestoreEnds(j)
          \/ UserAddsRow(j) \/ Quits(j) \/ StartDies(j)
    BY <1>1 DEF UpgradeNext
  <2>2. starts[i].saved # 0 /\ backups[starts[i].saved] = starts[i].before
    BY <1>1 DEF UpgradeInv, FoundIsKept, Migrating
  <2>3. j # i => starts'[i] = starts[i]
    BY <1>1, <2>1 DEF StartGoes, Connects0, LooksAtVersions, RemovesBackup, VacuumBegins,
       VacuumEnds, Migrates, Undoes, RestoreBegins, RestoreEnds, UserAddsRow, Quits, StartDies
  <2>4. j = i
    BY <2>3
  <2>5. RestoreEnds(i) \/ StartDies(i)
    BY <2>1, <2>4 DEF Connects0, LooksAtVersions, RemovesBackup, VacuumBegins,
       VacuumEnds, Migrates, Undoes, RestoreBegins, UserAddsRow, Quits
  <2>6. ~ StartDies(i)
    <3>1. "dead" \in Places
      BY DEF Places, Gone0
    <3>2. StartGoes(i, "dead") => starts'[i].at = "dead"
      BY <1>1, <3>1, PlaceIsReached
    <3> QED
      BY <3>2 DEF StartDies
  <2> QED
    BY <2>2, <2>5, <2>6 DEF RestoreEnds
<1>2. UpgradeInv /\ [UpgradeNext]_upgradeVars => [Restores]_upgradeVars
  BY <1>1
<1> QED
  BY <1>2, UpgradeInvHolds, PTL DEF UpgradeSpec, RollbackRestores

-----------------------------------------------------------------------------
(* Skills beside a project: a folder that several agents and the user share.      *)
(* What an agent holds is under the handle of its home, in the manifest and in     *)
(* the memory of whoever starts; what the user made is in neither.                 *)

\* The starts, as they were asked for, and the requests of the user.
IsStart(ask) == DOMAIN ask = {"agent", "handle", "skills"} /\ ask.handle \in Handles /\ ask.skills \in SUBSET Skills
IsUsers(ask) == DOMAIN ask = {"folder"} /\ ask.folder \in Skills
Inside == {"home", "manifest", "orphans", "skills"}
NativeFits(job) ==
    /\ DOMAIN job = {"ask", "at", "owned", "old", "todo", "placed"}
    /\ job.owned \in [Skills -> SUBSET Handles] /\ job.old \in SUBSET Handles
    /\ job.todo \in Seq(Skills) /\ job.placed \in SUBSET Skills
    /\ \/ IsUsers(job.ask) /\ job.at \in {"user", "end"}
       \/ IsStart(job.ask) /\ job.at \in {"lock", "end"} \cup Inside
\* One start at a time is between the lock and its end.
NativeShape ==
    /\ DOMAIN homes = Handles /\ folder \in [Skills -> {"none", "ours", "user"}]
    /\ manifest \in [Skills -> SUBSET Handles] /\ bare \in SUBSET Skills /\ failures \in Nat
    /\ 0 \notin DOMAIN nativeJobs /\ \A i \in DOMAIN nativeJobs : NativeFits(nativeJobs[i])
    /\ \A i \in DOMAIN nativeJobs : nativeJobs[i].at \in Inside <=> starting = i
    /\ \A i \in DOMAIN nativeJobs : IsStart(Begins(i)) => Begins(i).agent \in DOMAIN holds

\* Who owns what in the memory of a start, and what the disk says of it.
OwnersKnown(job, listed, disk) ==
    /\ job.at = "orphans" =>
         /\ \A s \in Skills : job.owned[s] \subseteq listed[s]
         /\ \A s \in ToSet(job.todo) : listed[s] # {} /\ job.owned[s] = {}
    /\ job.at = "skills" => \A s \in Skills : job.owned[s] # {} => listed[s] # {} \/ disk[s] = "ours"
BareUnlisted ==
    /\ \A s \in bare : folder[s] = "user" /\ manifest[s] = {}
    /\ \A i \in DOMAIN nativeJobs : OwnersKnown(nativeJobs[i], manifest, folder)

\* What an agent holds is listed under the handle of its folder, on the disk and
\* in the memory of whoever starts.
Keeps(a, h) ==
    /\ h \in Handles /\ homes[h] = a
    /\ \E j \in DOMAIN nativeJobs :
         IsStart(Begins(j)) /\ Begins(j).agent = a /\ Begins(j).handle = h
    /\ \A s \in holds[a] : s \in Skills /\ folder[s] = "ours" /\ h \in manifest[s]
    /\ \A i \in DOMAIN nativeJobs :
         /\ nativeJobs[i].at \in {"manifest", "orphans", "skills"} => h \notin nativeJobs[i].old
         /\ nativeJobs[i].at \in {"orphans", "skills"} => \A s \in holds[a] : h \in nativeJobs[i].owned[s]
\* A start has let go of what its agent held, and what it placed so far is there.
StartKeeps(job, held, dwellers, disk) ==
    /\ job.at \in Inside => held[job.ask.agent] = {}
    /\ job.at \in {"manifest", "orphans", "skills"} =>
         /\ dwellers[job.ask.handle] = job.ask.agent
         /\ job.ask.handle \notin job.old
    /\ job.at \in {"lock", "home", "manifest", "orphans"} => job.placed = {}
    /\ job.at = "skills" => \A s \in job.placed : disk[s] = "ours" /\ job.ask.handle \in job.owned[s]
Untroubled == failures = 0 /\ ~Rehandled
HeldStays ==
    Untroubled =>
        /\ \A a \in DOMAIN holds : holds[a] # {} => \E h \in Handles : Keeps(a, h)
        /\ \A i \in DOMAIN nativeJobs : StartKeeps(nativeJobs[i], holds, homes, folder)
NativeInv == NativeShape /\ BareUnlisted /\ HeldStays

------------------------------------------------------------------------------
(* What a step of one request leaves of the others.                             *)

LEMMA NativeMoves ==
    ASSUME NEW i \in DOMAIN nativeJobs, NEW job, NativeStep(i, job), job.ask = nativeJobs[i].ask
    PROVE  /\ DOMAIN nativeJobs' = DOMAIN nativeJobs /\ nativeJobs'[i] = job
           /\ \A k \in DOMAIN nativeJobs : k # i => nativeJobs'[k] = nativeJobs[k]
           /\ \A k \in DOMAIN nativeJobs : Begins(k)' = Begins(k)
           /\ Rehandled' <=> Rehandled
<1>1. /\ DOMAIN nativeJobs' = DOMAIN nativeJobs /\ nativeJobs'[i] = job
      /\ \A k \in DOMAIN nativeJobs : k # i => nativeJobs'[k] = nativeJobs[k]
  BY DEF NativeStep
<1>2. \A k \in DOMAIN nativeJobs : Begins(k)' = Begins(k)
  BY <1>1 DEF Begins
<1>3. Rehandled' <=> Rehandled
  BY <1>1, <1>2 DEF Rehandled
<1> QED BY <1>1, <1>2, <1>3

\* The shape of a step: who is inside afterwards holds the lock.
LEMMA NativeShapeMoves ==
    ASSUME NativeShape, NEW i \in DOMAIN nativeJobs, NEW job, NativeStep(i, job),
           job.ask = nativeJobs[i].ask, NativeFits(job), DOMAIN holds' = DOMAIN holds,
           DOMAIN homes' = Handles, folder' \in [Skills -> {"none", "ours", "user"}],
           manifest' \in [Skills -> SUBSET Handles], bare' \in SUBSET Skills, failures' \in Nat,
           job.at \in Inside <=> starting' = i,
           \A k \in DOMAIN nativeJobs : k # i => (starting' = k <=> starting = k)
    PROVE  NativeShape'
<1>1. /\ DOMAIN nativeJobs' = DOMAIN nativeJobs /\ nativeJobs'[i] = job
      /\ \A k \in DOMAIN nativeJobs : k # i => nativeJobs'[k] = nativeJobs[k]
  BY NativeMoves
<1>2. \A k \in DOMAIN nativeJobs : NativeFits(nativeJobs'[k])
  BY <1>1 DEF NativeShape
<1>4. \A k \in DOMAIN nativeJobs : Begins(k)' = Begins(k)
  BY NativeMoves
<1>3. \A k \in DOMAIN nativeJobs : nativeJobs'[k].at \in Inside <=> starting' = k
  BY <1>1 DEF NativeShape
<1> QED BY <1>1, <1>2, <1>3, <1>4 DEF NativeShape

LEMMA OneStarts ==
    ASSUME NativeShape, NEW i \in DOMAIN nativeJobs, nativeJobs[i].at \in Inside
    PROVE  /\ starting = i /\ i # 0
           /\ \A k \in DOMAIN nativeJobs : k # i => nativeJobs[k].at \notin Inside
BY DEF NativeShape

LEMMA HandlesDiffer ==
    ASSUME ~Rehandled, NEW i \in DOMAIN nativeJobs, IsStart(Begins(i)), NEW a, NEW h, Keeps(a, h),
           a # Begins(i).agent
    PROVE  h # Begins(i).handle
<1>1. PICK j \in DOMAIN nativeJobs :
         IsStart(Begins(j)) /\ Begins(j).agent = a /\ Begins(j).handle = h
  BY DEF Keeps
<1> QED BY <1>1 DEF Rehandled, IsStart

\* Whoever is not the agent that starts keeps what it held.
LEMMA OthersKeep ==
    ASSUME NEW i \in DOMAIN nativeJobs, NEW job, NativeStep(i, job), job.ask = nativeJobs[i].ask,
           NEW a, NEW h, Keeps(a, h), holds'[a] = holds[a], homes'[h] = a,
           \A s \in holds[a] : folder'[s] = "ours" /\ h \in manifest'[s],
           job.at \in {"manifest", "orphans", "skills"} => h \notin job.old,
           job.at \in {"orphans", "skills"} => \A s \in holds[a] : h \in job.owned[s]
    PROVE  Keeps(a, h)'
<1>1. /\ DOMAIN nativeJobs' = DOMAIN nativeJobs /\ nativeJobs'[i] = job
      /\ \A k \in DOMAIN nativeJobs : k # i => nativeJobs'[k] = nativeJobs[k]
      /\ \A k \in DOMAIN nativeJobs : Begins(k)' = Begins(k)
  BY NativeMoves
<1>2. \E j \in DOMAIN nativeJobs' :
         IsStart(Begins(j)') /\ Begins(j)'.agent = a /\ Begins(j)'.handle = h
  BY <1>1 DEF Keeps
<1>3. \A k \in DOMAIN nativeJobs' :
         /\ nativeJobs'[k].at \in {"manifest", "orphans", "skills"} => h \notin nativeJobs'[k].old
         /\ nativeJobs'[k].at \in {"orphans", "skills"} => \A s \in holds'[a] : h \in nativeJobs'[k].owned[s]
  BY <1>1 DEF Keeps
<1> QED BY <1>2, <1>3 DEF Keeps

\* A step of the start that holds the lock, or takes it.
LEMMA StartMoves ==
    ASSUME NativeInv, NativeShape', NEW i \in DOMAIN nativeJobs, NEW job, NativeStep(i, job),
           job.ask = nativeJobs[i].ask, IsStart(job.ask),
           \A k \in DOMAIN nativeJobs : k # i => nativeJobs[k].at \notin Inside,
           failures' = 0 => failures = 0, DOMAIN holds' = DOMAIN holds,
           \A a \in DOMAIN holds : a # job.ask.agent => holds'[a] = holds[a],
           \A s \in bare' : folder'[s] = "user" /\ manifest'[s] = {},
           OwnersKnown(job, manifest', folder'),
           Untroubled /\ failures' = 0 =>
             /\ StartKeeps(job, holds', homes', folder')
             /\ holds'[job.ask.agent] = {} \/ Keeps(job.ask.agent, job.ask.handle)'
             /\ \A a \in DOMAIN holds, h \in Handles :
                  Keeps(a, h) /\ a # job.ask.agent /\ h # job.ask.handle =>
                    /\ homes'[h] = a /\ \A s \in holds[a] : folder'[s] = "ours" /\ h \in manifest'[s]
                    /\ job.at \in {"manifest", "orphans", "skills"} => h \notin job.old
                    /\ job.at \in {"orphans", "skills"} => \A s \in holds[a] : h \in job.owned[s]
    PROVE  NativeInv'
<1>1. /\ DOMAIN nativeJobs' = DOMAIN nativeJobs /\ nativeJobs'[i] = job
      /\ \A k \in DOMAIN nativeJobs : k # i => nativeJobs'[k] = nativeJobs[k]
      /\ \A k \in DOMAIN nativeJobs : Begins(k)' = Begins(k)
      /\ Rehandled' <=> Rehandled
  BY NativeMoves
<1>2. BareUnlisted'
  <2>1. \A k \in DOMAIN nativeJobs : k # i => OwnersKnown(nativeJobs'[k], manifest', folder')
    BY <1>1 DEF OwnersKnown, Inside
  <2> QED BY <1>1, <2>1 DEF BareUnlisted
<1>3. ASSUME Untroubled'
      PROVE  /\ \A a \in DOMAIN holds' : holds'[a] # {} => \E h \in Handles : Keeps(a, h)'
             /\ \A k \in DOMAIN nativeJobs' : StartKeeps(nativeJobs'[k], holds', homes', folder')
  <2>1. Untroubled /\ failures' = 0 /\ ~Rehandled
    BY <1>1, <1>3 DEF Untroubled
  <2>2. ASSUME NEW a \in DOMAIN holds, holds'[a] # {} PROVE \E h \in Handles : Keeps(a, h)'
    <3>1. CASE a = job.ask.agent
      BY <2>1, <2>2, <3>1 DEF IsStart
    <3>2. CASE a # job.ask.agent
      <4>1. holds'[a] = holds[a]
        BY <3>2
      <4>2. PICK h \in Handles : Keeps(a, h)
        BY <2>1, <2>2, <4>1 DEF NativeInv, HeldStays
      <4>3. h # job.ask.handle
        BY <2>1, <3>2, <4>2, HandlesDiffer DEF Begins
      <4>4. /\ homes'[h] = a /\ \A s \in holds[a] : folder'[s] = "ours" /\ h \in manifest'[s]
            /\ job.at \in {"manifest", "orphans", "skills"} => h \notin job.old
            /\ job.at \in {"orphans", "skills"} => \A s \in holds[a] : h \in job.owned[s]
        BY <2>1, <3>2, <4>2, <4>3
      <4> QED BY <4>1, <4>2, <4>4, OthersKeep
    <3> QED BY <3>1, <3>2
  <2>3. ASSUME NEW k \in DOMAIN nativeJobs PROVE StartKeeps(nativeJobs'[k], holds', homes', folder')
    <3>1. CASE k = i
      BY <1>1, <2>1, <3>1
    <3>2. CASE k # i
      <4>1. StartKeeps(nativeJobs[k], holds, homes, folder) /\ nativeJobs[k].at \notin Inside /\ nativeJobs'[k] = nativeJobs[k]
        BY <1>1, <2>1, <3>2 DEF NativeInv, HeldStays
      <4> QED BY <4>1 DEF StartKeeps, Inside
    <3> QED BY <3>1, <3>2
  <2> QED BY <1>1, <2>2, <2>3
<1>4. HeldStays'
  BY <1>3 DEF HeldStays
<1> QED BY <1>2, <1>4 DEF NativeInv

LEMMA SetIsListed ==
    ASSUME NEW S, IsFiniteSet(S)
    PROVE  SetToSeq(S) \in Seq(S) /\ ToSet(SetToSeq(S)) \subseteq S
<1> DEFINE n == Cardinality(S)
<1>1. n \in Nat /\ ExistsBijection(1 .. n, S)
  BY FS_CardinalityType
<1>2. PICK f \in [1 .. n -> S] : IsInjective(f)
  BY <1>1 DEF ExistsBijection, Bijection, Injection, IsInjective
<1>3. SetToSeq(S) \in [1 .. n -> S]
  BY <1>2 DEF SetToSeq
<1> HIDE DEF n
<1> QED BY <1>1, <1>3 DEF ToSet

\* What a start and its lock are, whatever its step.
LEMMA StartInside ==
    ASSUME NativeInv, NEW i \in DOMAIN nativeJobs, nativeJobs[i].at \in Inside
    PROVE  /\ IsStart(nativeJobs[i].ask) /\ starting = i /\ i # 0 /\ NativeFits(nativeJobs[i])
           /\ nativeJobs[i].ask.agent \in DOMAIN holds
           /\ \A k \in DOMAIN nativeJobs : k # i => nativeJobs[k].at \notin Inside /\ starting # k /\ k # 0
           /\ OwnersKnown(nativeJobs[i], manifest, folder)
           /\ Untroubled => StartKeeps(nativeJobs[i], holds, homes, folder)
<1>1. NativeShape /\ BareUnlisted /\ HeldStays
  BY DEF NativeInv
<1>2. NativeFits(nativeJobs[i]) /\ IsStart(nativeJobs[i].ask)
  BY <1>1 DEF NativeShape, NativeFits, Inside
<1> QED BY <1>1, <1>2, OneStarts DEF NativeShape, BareUnlisted, HeldStays, Begins

LEMMA EntersLockKeeps ==
    ASSUME NativeInv, NEW i \in DOMAIN nativeJobs, EntersLock(i)
    PROVE  NativeInv'
<1> DEFINE job == [nativeJobs[i] EXCEPT !.at = "home"]
<1>1. NativeShape /\ BareUnlisted /\ HeldStays
  BY DEF NativeInv
<1>2. /\ nativeJobs[i].at = "lock" /\ starting = 0 /\ starting' = i /\ NativeStep(i, job)
      /\ holds' = [holds EXCEPT ![nativeJobs[i].ask.agent] = {}]
      /\ UNCHANGED <<homes, folder, manifest, bare, failures>>
  BY DEF EntersLock, HasToWait, NativeAt, Begins
<1>3. NativeFits(nativeJobs[i]) /\ IsStart(nativeJobs[i].ask) /\ nativeJobs[i].ask.agent \in DOMAIN holds
  BY <1>1, <1>2 DEF NativeShape, NativeFits, Begins
<1>4. /\ job.ask = nativeJobs[i].ask /\ job.at = "home" /\ job.placed = nativeJobs[i].placed
      /\ NativeFits(job)
  BY <1>3 DEF NativeFits, Inside
<1> HIDE DEF job
<1>5. \A k \in DOMAIN nativeJobs : nativeJobs[k].at \notin Inside
  BY <1>1, <1>2 DEF NativeShape
<1>6. NativeShape'
  BY <1>1, <1>2, <1>3, <1>4, NativeShapeMoves DEF NativeShape, Inside
<1>7. /\ DOMAIN holds' = DOMAIN holds /\ holds'[job.ask.agent] = {}
      /\ \A a \in DOMAIN holds : a # job.ask.agent => holds'[a] = holds[a]
  BY <1>2, <1>3, <1>4
<1>8. Untroubled => StartKeeps(job, holds', homes', folder')
  BY <1>1, <1>2, <1>4, <1>7 DEF HeldStays, StartKeeps
<1>9. OwnersKnown(job, manifest', folder')
  BY <1>4 DEF OwnersKnown
<1>10. \A a \in DOMAIN holds, h \in Handles : Keeps(a, h) =>
          homes'[h] = a /\ \A s \in holds[a] : folder'[s] = "ours" /\ h \in manifest'[s]
  BY <1>2 DEF Keeps
<1>11. \A s \in bare' : folder'[s] = "user" /\ manifest'[s] = {}
  BY <1>1, <1>2 DEF BareUnlisted
<1>12. job.at \notin {"manifest", "orphans", "skills"} /\ (failures' = 0 => failures = 0)
  BY <1>2, <1>4
<1>13. NativeStep(i, job) /\ IsStart(job.ask)
  BY <1>2, <1>3, <1>4
<1> QED BY <1>4, <1>5, <1>6, <1>7, <1>8, <1>9, <1>10, <1>11, <1>12, <1>13, StartMoves

LEMMA HomeWrittenKeeps ==
    ASSUME NativeInv, NEW i \in DOMAIN nativeJobs, HomeWritten(i)
    PROVE  NativeInv'
<1> DEFINE ask == nativeJobs[i].ask
           mine == {h \in Handles \ {ask.handle} : homes[h] = ask.agent}
           job == [nativeJobs[i] EXCEPT !.at = "manifest", !.old = mine]
<1>1. /\ nativeJobs[i].at = "home" /\ NativeStep(i, job)
      /\ homes' = [h \in Handles |-> IF h \in mine THEN NoAgentHere
                                     ELSE IF h = ask.handle THEN ask.agent ELSE homes[h]]
      /\ UNCHANGED <<folder, manifest, starting, holds, bare, failures>>
  BY DEF HomeWritten, Begins
<1>2. /\ IsStart(ask) /\ starting = i /\ i # 0 /\ NativeFits(nativeJobs[i]) /\ ask.agent \in DOMAIN holds
      /\ \A k \in DOMAIN nativeJobs : k # i => nativeJobs[k].at \notin Inside /\ starting # k
      /\ Untroubled => StartKeeps(nativeJobs[i], holds, homes, folder)
  BY <1>1, StartInside DEF Inside
<1>3. /\ job.ask = ask /\ job.at = "manifest" /\ job.placed = nativeJobs[i].placed /\ job.old = mine
      /\ NativeFits(job)
  <2>1. mine \in SUBSET Handles
    OBVIOUS
  <2> QED BY <1>2, <2>1 DEF NativeFits, Inside
<1>4. NativeShape /\ BareUnlisted /\ HeldStays
  BY DEF NativeInv
<1>5. /\ homes'[ask.handle] = ask.agent /\ ask.handle \notin mine
      /\ \A h \in Handles : h # ask.handle /\ homes[h] # ask.agent => homes'[h] = homes[h] /\ h \notin mine
  BY <1>1, <1>2 DEF IsStart
<1> HIDE DEF job, mine
<1>6. NativeShape'
  BY <1>1, <1>2, <1>3, <1>4, NativeShapeMoves DEF NativeShape, Inside
<1>7. Untroubled => StartKeeps(job, holds', homes', folder') /\ holds'[ask.agent] = {}
  BY <1>1, <1>2, <1>3, <1>5 DEF StartKeeps, Inside
<1>8. OwnersKnown(job, manifest', folder')
  BY <1>3 DEF OwnersKnown
<1>9. \A a \in DOMAIN holds, h \in Handles : Keeps(a, h) /\ a # ask.agent /\ h # ask.handle =>
         /\ homes'[h] = a /\ \A s \in holds[a] : folder'[s] = "ours" /\ h \in manifest'[s]
         /\ h \notin job.old
  BY <1>1, <1>3, <1>5 DEF Keeps
<1>10. \A s \in bare' : folder'[s] = "user" /\ manifest'[s] = {}
  BY <1>1, <1>4 DEF BareUnlisted
<1> HIDE DEF ask
<1>11. job.at \notin {"orphans", "skills"} /\ (failures' = 0 => failures = 0) /\ DOMAIN holds' = DOMAIN holds
       /\ \A a \in DOMAIN holds : holds'[a] = holds[a]
  BY <1>1, <1>3
<1> QED BY <1>1, <1>2, <1>3, <1>6, <1>7, <1>8, <1>9, <1>10, <1>11, StartMoves DEF ask

LEMMA ManifestReadKeeps ==
    ASSUME NativeAssumption, NativeInv, NEW i \in DOMAIN nativeJobs, ManifestRead(i)
    PROVE  NativeInv'
<1> DEFINE ask == nativeJobs[i].ask
           owned == Released(i)
           gone == {s \in Skills : manifest[s] # {} /\ owned[s] = {}}
           job == [nativeJobs[i] EXCEPT !.at = "orphans", !.owned = owned, !.todo = SetToSeq(gone)]
<1>1. /\ nativeJobs[i].at = "manifest" /\ NativeStep(i, job)
      /\ UNCHANGED <<homes, folder, manifest, starting, holds, bare, failures>>
  BY DEF ManifestRead
<1>2. /\ IsStart(ask) /\ starting = i /\ i # 0 /\ NativeFits(nativeJobs[i]) /\ ask.agent \in DOMAIN holds
      /\ \A k \in DOMAIN nativeJobs : k # i => nativeJobs[k].at \notin Inside /\ starting # k
      /\ Untroubled => StartKeeps(nativeJobs[i], holds, homes, folder)
  BY <1>1, StartInside DEF Inside
<1>3. NativeShape /\ BareUnlisted /\ HeldStays
  BY DEF NativeInv
<1>4. /\ owned \in [Skills -> SUBSET Handles] /\ \A s \in Skills : owned[s] \subseteq manifest[s]
      /\ \A s \in Skills : \A h \in manifest[s] :
           h \notin nativeJobs[i].old /\ h # ask.handle => h \in owned[s]
  BY <1>3 DEF Released, Begins, NativeShape
<1>5. SetToSeq(gone) \in Seq(Skills) /\ \A s \in ToSet(SetToSeq(gone)) : s \in gone
  <2>1. IsFiniteSet(gone)
    BY FS_Subset DEF NativeAssumption
  <2>2. gone \subseteq Skills
    OBVIOUS
  <2> HIDE DEF gone
  <2>3. SetToSeq(gone) \in Seq(gone) /\ ToSet(SetToSeq(gone)) \subseteq gone
    BY <2>1, SetIsListed
  <2> QED BY <2>2, <2>3
<1> HIDE DEF owned
<1>6. /\ job.ask = ask /\ job.at = "orphans" /\ job.placed = nativeJobs[i].placed
      /\ job.old = nativeJobs[i].old /\ job.owned = owned /\ job.todo = SetToSeq(gone)
      /\ NativeFits(job)
  BY <1>2, <1>4, <1>5 DEF NativeFits, Inside
<1>7. OwnersKnown(job, manifest', folder')
  BY <1>1, <1>4, <1>5, <1>6 DEF OwnersKnown
<1> HIDE DEF job, gone
<1>8. NativeShape'
  BY <1>1, <1>2, <1>3, <1>6, NativeShapeMoves DEF NativeShape, Inside
<1>9. Untroubled => StartKeeps(job, holds', homes', folder') /\ holds'[ask.agent] = {}
  BY <1>1, <1>2, <1>6 DEF StartKeeps, Inside
<1>10. \A a \in DOMAIN holds, h \in Handles : Keeps(a, h) /\ a # ask.agent /\ h # ask.handle =>
         /\ homes'[h] = a /\ \A s \in holds[a] : folder'[s] = "ours" /\ h \in manifest'[s]
         /\ h \notin job.old /\ \A s \in holds[a] : h \in job.owned[s]
  BY <1>1, <1>4, <1>6 DEF Keeps
<1>11. \A s \in bare' : folder'[s] = "user" /\ manifest'[s] = {}
  BY <1>1, <1>3 DEF BareUnlisted
<1> HIDE DEF ask
<1>12. (failures' = 0 => failures = 0) /\ DOMAIN holds' = DOMAIN holds
       /\ \A a \in DOMAIN holds : holds'[a] = holds[a]
  BY <1>1
<1> QED BY <1>1, <1>2, <1>6, <1>7, <1>8, <1>9, <1>10, <1>11, <1>12, StartMoves DEF ask

LEMMA OrphanGoneKeeps ==
    ASSUME NativeInv, NEW i \in DOMAIN nativeJobs, OrphanGone(i)
    PROVE  NativeInv'
<1> DEFINE ask == nativeJobs[i].ask
           o == Head(nativeJobs[i].todo)
           job == [nativeJobs[i] EXCEPT !.todo = Tail(nativeJobs[i].todo)]
<1>1. /\ nativeJobs[i].at = "orphans" /\ nativeJobs[i].todo # <<>>
      /\ folder' = [folder EXCEPT ![o] = "none"]
      /\ UNCHANGED <<homes, manifest, starting, holds, bare, failures>>
  BY DEF OrphanGone
<1>2. /\ IsStart(ask) /\ starting = i /\ i # 0 /\ NativeFits(nativeJobs[i]) /\ ask.agent \in DOMAIN holds
      /\ \A k \in DOMAIN nativeJobs : k # i => nativeJobs[k].at \notin Inside /\ starting # k
      /\ OwnersKnown(nativeJobs[i], manifest, folder)
      /\ Untroubled => StartKeeps(nativeJobs[i], holds, homes, folder)
  BY <1>1, StartInside DEF Inside
<1>3. NativeShape /\ BareUnlisted /\ HeldStays
  BY DEF NativeInv
<1>4. /\ o \in Skills /\ o \in ToSet(nativeJobs[i].todo) /\ Tail(nativeJobs[i].todo) \in Seq(Skills)
      /\ ToSet(Tail(nativeJobs[i].todo)) \subseteq ToSet(nativeJobs[i].todo)
  BY <1>1, <1>2 DEF NativeFits, ToSet
<1>5. manifest[o] # {} /\ nativeJobs[i].owned[o] = {}
  BY <1>1, <1>2, <1>4 DEF OwnersKnown
<1>6. /\ NativeStep(i, job) /\ job.ask = ask /\ job.at = "orphans" /\ job.placed = nativeJobs[i].placed
      /\ job.old = nativeJobs[i].old /\ job.owned = nativeJobs[i].owned
      /\ job.todo = Tail(nativeJobs[i].todo) /\ NativeFits(job)
  BY <1>1, <1>2, <1>4 DEF OrphanGone, NativeFits, Inside
<1> HIDE DEF job
<1>7. OwnersKnown(job, manifest', folder')
  BY <1>1, <1>2, <1>4, <1>6 DEF OwnersKnown
<1>8. folder' \in [Skills -> {"none", "ours", "user"}] /\ \A s \in Skills : s # o => folder'[s] = folder[s]
  BY <1>1, <1>3, <1>4 DEF NativeShape
<1>9. NativeShape'
  BY <1>1, <1>2, <1>3, <1>6, <1>8, NativeShapeMoves DEF NativeShape, Inside
<1>10. Untroubled => StartKeeps(job, holds', homes', folder') /\ holds'[ask.agent] = {}
  BY <1>1, <1>2, <1>6 DEF StartKeeps, Inside
<1>11. \A a \in DOMAIN holds, h \in Handles : Keeps(a, h) /\ a # ask.agent /\ h # ask.handle =>
         /\ homes'[h] = a /\ \A s \in holds[a] : folder'[s] = "ours" /\ h \in manifest'[s]
         /\ h \notin job.old /\ \A s \in holds[a] : h \in job.owned[s]
  <2>1. ASSUME NEW a \in DOMAIN holds, NEW h \in Handles, Keeps(a, h)
        PROVE  /\ homes[h] = a /\ \A s \in holds[a] : s \in Skills /\ folder[s] = "ours" /\ h \in manifest[s]
               /\ h \notin nativeJobs[i].old /\ \A s \in holds[a] : h \in nativeJobs[i].owned[s]
    BY <1>1, <2>1 DEF Keeps
  <2>2. ASSUME NEW a \in DOMAIN holds, NEW h \in Handles, Keeps(a, h) PROVE o \notin holds[a]
    BY <1>5, <2>1, <2>2
  <2> QED BY <1>1, <1>6, <1>8, <2>1, <2>2
<1>12. \A s \in bare' : folder'[s] = "user" /\ manifest'[s] = {}
  BY <1>1, <1>3, <1>5, <1>8 DEF BareUnlisted, NativeShape
<1> HIDE DEF ask, o
<1>13. (failures' = 0 => failures = 0) /\ DOMAIN holds' = DOMAIN holds
       /\ \A a \in DOMAIN holds : holds'[a] = holds[a]
  BY <1>1
<1>14. NativeStep(i, job) /\ job.ask = nativeJobs[i].ask /\ IsStart(job.ask) /\ job.ask = ask
  BY <1>2, <1>6 DEF ask
<1>15. /\ \A k \in DOMAIN nativeJobs : k # i => nativeJobs[k].at \notin Inside
       /\ \A a \in DOMAIN holds : a # job.ask.agent => holds'[a] = holds[a]
  BY <1>2, <1>13
<1>16. PICK j : j = job
  OBVIOUS
<1>17. /\ NativeStep(i, j) /\ j.ask = nativeJobs[i].ask /\ IsStart(j.ask) /\ OwnersKnown(j, manifest', folder')
       /\ \A a \in DOMAIN holds : a # j.ask.agent => holds'[a] = holds[a]
  BY <1>7, <1>14, <1>15, <1>16
<1>18. Untroubled /\ failures' = 0 =>
         /\ StartKeeps(j, holds', homes', folder')
         /\ holds'[j.ask.agent] = {}
         /\ \A a \in DOMAIN holds, h \in Handles :
              Keeps(a, h) /\ a # j.ask.agent /\ h # j.ask.handle =>
                /\ homes'[h] = a /\ \A s \in holds[a] : folder'[s] = "ours" /\ h \in manifest'[s]
                /\ h \notin j.old /\ \A s \in holds[a] : h \in j.owned[s]
  BY <1>10, <1>11, <1>14, <1>16
<1> QED BY <1>9, <1>12, <1>13, <1>15, <1>17, <1>18, StartMoves, SMTT(30)

LEMMA OrphansGoneKeeps ==
    ASSUME NativeAssumption, NativeInv, NEW i \in DOMAIN nativeJobs, OrphansGone(i)
    PROVE  NativeInv'
<1> DEFINE ask == nativeJobs[i].ask
           job == [nativeJobs[i] EXCEPT !.at = "skills", !.todo = SetToSeq(ask.skills)]
<1>1. /\ nativeJobs[i].at = "orphans" /\ NativeStep(i, job)
      /\ UNCHANGED <<homes, folder, manifest, starting, holds, bare, failures>>
  BY DEF OrphansGone, Begins
<1>2. /\ IsStart(ask) /\ starting = i /\ i # 0 /\ NativeFits(nativeJobs[i]) /\ ask.agent \in DOMAIN holds
      /\ \A k \in DOMAIN nativeJobs : k # i => nativeJobs[k].at \notin Inside /\ starting # k
      /\ OwnersKnown(nativeJobs[i], manifest, folder)
      /\ Untroubled => StartKeeps(nativeJobs[i], holds, homes, folder)
  BY <1>1, StartInside DEF Inside
<1>3. NativeShape /\ BareUnlisted /\ HeldStays
  BY DEF NativeInv
<1>4. SetToSeq(ask.skills) \in Seq(Skills)
  <2>1. ask.skills \subseteq Skills /\ IsFiniteSet(ask.skills)
    BY <1>2, FS_Subset DEF NativeAssumption, IsStart
  <2>2. SetToSeq(ask.skills) \in Seq(ask.skills)
    BY <2>1, SetIsListed
  <2> QED BY <2>1, <2>2
<1>5. /\ job.ask = ask /\ job.at = "skills" /\ job.placed = nativeJobs[i].placed
      /\ job.old = nativeJobs[i].old /\ job.owned = nativeJobs[i].owned /\ NativeFits(job)
  BY <1>2, <1>4 DEF NativeFits, Inside
<1> HIDE DEF job
<1>6. OwnersKnown(job, manifest', folder')
  BY <1>1, <1>2, <1>5 DEF OwnersKnown
<1>7. NativeShape'
  BY <1>1, <1>2, <1>3, <1>5, NativeShapeMoves DEF NativeShape, Inside
<1>8. Untroubled => StartKeeps(job, holds', homes', folder') /\ holds'[ask.agent] = {}
  BY <1>1, <1>2, <1>5 DEF StartKeeps, Inside
<1>9. \A a \in DOMAIN holds, h \in Handles : Keeps(a, h) /\ a # ask.agent /\ h # ask.handle =>
         /\ homes'[h] = a /\ \A s \in holds[a] : folder'[s] = "ours" /\ h \in manifest'[s]
         /\ h \notin job.old /\ \A s \in holds[a] : h \in job.owned[s]
  BY <1>1, <1>5 DEF Keeps
<1>10. \A s \in bare' : folder'[s] = "user" /\ manifest'[s] = {}
  BY <1>1, <1>3 DEF BareUnlisted
<1> HIDE DEF ask
<1>11. (failures' = 0 => failures = 0) /\ DOMAIN holds' = DOMAIN holds
       /\ \A a \in DOMAIN holds : holds'[a] = holds[a]
  BY <1>1
<1> QED BY <1>1, <1>2, <1>5, <1>6, <1>7, <1>8, <1>9, <1>10, <1>11, StartMoves DEF ask

LEMMA SkillWrittenKeeps ==
    ASSUME NativeInv, NEW i \in DOMAIN nativeJobs, SkillWritten(i)
    PROVE  NativeInv'
<1> DEFINE ask == nativeJobs[i].ask
           s0 == Head(nativeJobs[i].todo)
           next == [nativeJobs[i] EXCEPT !.todo = Tail(nativeJobs[i].todo)]
           more == [nativeJobs[i].owned EXCEPT ![s0] = nativeJobs[i].owned[s0] \cup {ask.handle}]
           mine == [next EXCEPT !.owned = more, !.placed = nativeJobs[i].placed \cup {s0}]
           job == IF Foreign(i, s0) THEN next ELSE mine
<1>1. /\ nativeJobs[i].at = "skills" /\ nativeJobs[i].todo # <<>>
      /\ UNCHANGED <<homes, manifest, starting, holds, bare, failures>>
  BY DEF SkillWritten
<1>2. /\ IsStart(ask) /\ starting = i /\ i # 0 /\ NativeFits(nativeJobs[i]) /\ ask.agent \in DOMAIN holds
      /\ \A k \in DOMAIN nativeJobs : k # i => nativeJobs[k].at \notin Inside /\ starting # k
      /\ OwnersKnown(nativeJobs[i], manifest, folder)
      /\ Untroubled => StartKeeps(nativeJobs[i], holds, homes, folder)
  BY <1>1, StartInside DEF Inside
<1>3. NativeShape /\ BareUnlisted /\ HeldStays
  BY DEF NativeInv
<1>4. s0 \in Skills /\ Tail(nativeJobs[i].todo) \in Seq(Skills)
  BY <1>1, <1>2 DEF NativeFits
<1>5. /\ more \in [Skills -> SUBSET Handles] /\ ask.handle \in more[s0]
      /\ \A s \in Skills : nativeJobs[i].owned[s] \subseteq more[s]
      /\ \A s \in Skills : s # s0 => more[s] = nativeJobs[i].owned[s]
  BY <1>2, <1>4 DEF NativeFits, IsStart
<1>6. /\ NativeStep(i, job)
      /\ IF Foreign(i, s0) THEN UNCHANGED folder ELSE folder' = [folder EXCEPT ![s0] = "ours"]
  <2>1. next.owned = nativeJobs[i].owned /\ next.placed = nativeJobs[i].placed
    BY <1>2 DEF NativeFits
  <2>2. CASE Foreign(i, s0)
    BY <2>2 DEF SkillWritten
  <2>3. CASE ~Foreign(i, s0)
    <3>1. /\ NativeStep(i, [next EXCEPT !.owned[s0] = next.owned[s0] \cup {ask.handle},
                                      !.placed = next.placed \cup {s0}])
          /\ folder' = [folder EXCEPT ![s0] = "ours"]
      BY <2>3 DEF SkillWritten, Begins
    <3> QED BY <2>1, <2>3, <3>1
  <2> QED BY <2>2, <2>3
<1>7. next.ask = ask /\ next.at = "skills" /\ next.placed = nativeJobs[i].placed
      /\ next.old = nativeJobs[i].old /\ next.owned = nativeJobs[i].owned /\ NativeFits(next)
  BY <1>1, <1>2, <1>4 DEF NativeFits, Inside
<1>8. mine.ask = ask /\ mine.at = "skills" /\ mine.placed = nativeJobs[i].placed \cup {s0}
      /\ mine.old = nativeJobs[i].old /\ mine.owned = more /\ NativeFits(mine)
  <2> HIDE DEF more, s0, next
  <2> QED BY <1>2, <1>4, <1>5, <1>7 DEF NativeFits, Inside
<1> HIDE DEF next, mine, more
<1>9. /\ job.ask = ask /\ job.at = "skills" /\ job.old = nativeJobs[i].old /\ NativeFits(job)
      /\ \A s \in Skills : nativeJobs[i].owned[s] \subseteq job.owned[s]
  BY <1>5, <1>7, <1>8
<1>10. /\ folder' \in [Skills -> {"none", "ours", "user"}]
       /\ \A s \in Skills : folder[s] = "ours" => folder'[s] = "ours"
       /\ \A s \in Skills : s # s0 => folder'[s] = folder[s]
  BY <1>3, <1>4, <1>6 DEF NativeShape
<1>11. ~Foreign(i, s0) => folder'[s0] = "ours"
  BY <1>3, <1>4, <1>6 DEF NativeShape
<1>12. OwnersKnown(job, manifest', folder')
  <2>1. ASSUME NEW s \in Skills, job.owned[s] # {} PROVE manifest[s] # {} \/ folder'[s] = "ours"
    BY <1>1, <1>2, <1>5, <1>7, <1>8, <1>10, <1>11, <2>1 DEF OwnersKnown
  <2> QED BY <1>1, <1>9, <2>1 DEF OwnersKnown
<1>13. ASSUME Untroubled PROVE StartKeeps(job, holds', homes', folder') /\ holds'[ask.agent] = {}
  <2>1. /\ holds[ask.agent] = {} /\ homes[ask.handle] = ask.agent /\ ask.handle \notin nativeJobs[i].old
        /\ \A s \in nativeJobs[i].placed : s \in Skills /\ folder[s] = "ours" /\ ask.handle \in nativeJobs[i].owned[s]
    BY <1>1, <1>2, <1>13 DEF StartKeeps, Inside, NativeFits
  <2>2. \A s \in job.placed : folder'[s] = "ours" /\ ask.handle \in job.owned[s]
    <3>1. CASE Foreign(i, s0)
      BY <1>7, <1>10, <2>1, <3>1
    <3>2. CASE ~Foreign(i, s0)
      <4>1. job.placed = nativeJobs[i].placed \cup {s0} /\ job.owned = more
        BY <1>8, <3>2
      <4>2. folder'[s0] = "ours" /\ ask.handle \in job.owned[s0]
        BY <1>5, <1>11, <3>2, <4>1
      <4> QED BY <1>9, <1>10, <2>1, <4>1, <4>2
    <3> QED BY <3>1, <3>2
  <2> QED BY <1>1, <1>9, <2>1, <2>2 DEF StartKeeps
<1>14. ASSUME NEW s \in bare' PROVE folder'[s] = "user" /\ manifest'[s] = {}
  <2>1. s \in Skills /\ folder[s] = "user" /\ manifest[s] = {} /\ manifest' = manifest
    BY <1>1, <1>3 DEF BareUnlisted, NativeShape
  <2>2. nativeJobs[i].owned[s] = {}
    BY <1>1, <1>2, <2>1 DEF OwnersKnown
  <2>3. s = s0 => Foreign(i, s0)
    BY <2>1, <2>2 DEF Foreign
  <2> QED BY <1>6, <1>10, <2>1, <2>3
<1> HIDE DEF job
<1>15. NativeShape'
  BY <1>1, <1>2, <1>3, <1>6, <1>9, <1>10, NativeShapeMoves DEF NativeShape, Inside
<1>16. \A a \in DOMAIN holds, h \in Handles : Keeps(a, h) /\ a # ask.agent /\ h # ask.handle =>
         /\ homes'[h] = a /\ \A s \in holds[a] : folder'[s] = "ours" /\ h \in manifest'[s]
         /\ h \notin job.old /\ \A s \in holds[a] : h \in job.owned[s]
  <2>1. ASSUME NEW a \in DOMAIN holds, NEW h \in Handles, Keeps(a, h)
        PROVE  /\ homes[h] = a /\ \A s \in holds[a] : s \in Skills /\ folder[s] = "ours" /\ h \in manifest[s]
               /\ h \notin nativeJobs[i].old /\ \A s \in holds[a] : h \in nativeJobs[i].owned[s]
    BY <1>1, <2>1 DEF Keeps
  <2> QED BY <1>1, <1>9, <1>10, <2>1
<1> HIDE DEF ask
<1>17. (failures' = 0 => failures = 0) /\ DOMAIN holds' = DOMAIN holds
       /\ \A a \in DOMAIN holds : holds'[a] = holds[a]
  BY <1>1
<1> QED BY <1>1, <1>2, <1>6, <1>9, <1>12, <1>13, <1>14, <1>15, <1>16, <1>17, StartMoves DEF ask

LEMMA ManifestWrittenKeeps ==
    ASSUME NativeInv, NEW i \in DOMAIN nativeJobs, ManifestWritten(i)
    PROVE  NativeInv'
<1> DEFINE ask == nativeJobs[i].ask
           job == [nativeJobs[i] EXCEPT !.at = "end"]
<1>1. /\ nativeJobs[i].at = "skills" /\ NativeStep(i, job) /\ manifest' = nativeJobs[i].owned /\ starting' = 0
      /\ holds' = [holds EXCEPT ![ask.agent] = nativeJobs[i].placed]
      /\ UNCHANGED <<homes, folder, bare, failures>>
  BY DEF ManifestWritten, NativeAt, Begins
<1>2. /\ IsStart(ask) /\ starting = i /\ i # 0 /\ NativeFits(nativeJobs[i]) /\ ask.agent \in DOMAIN holds
      /\ \A k \in DOMAIN nativeJobs : k # i => nativeJobs[k].at \notin Inside /\ starting # k /\ k # 0
      /\ OwnersKnown(nativeJobs[i], manifest, folder)
      /\ Untroubled => StartKeeps(nativeJobs[i], holds, homes, folder)
  BY <1>1, StartInside DEF Inside
<1>3. NativeShape /\ BareUnlisted /\ HeldStays
  BY DEF NativeInv
<1>4. job.ask = ask /\ job.at = "end" /\ NativeFits(job)
  BY <1>2 DEF NativeFits, Inside
<1> HIDE DEF job
<1>5. /\ DOMAIN holds' = DOMAIN holds /\ holds'[ask.agent] = nativeJobs[i].placed
      /\ \A a \in DOMAIN holds : a # ask.agent => holds'[a] = holds[a]
  BY <1>1, <1>2
<1>6. NativeShape'
  <2>1. manifest' \in [Skills -> SUBSET Handles]
    BY <1>1, <1>2 DEF NativeFits
  <2> QED BY <1>1, <1>2, <1>3, <1>4, <1>5, <2>1, NativeShapeMoves DEF NativeShape, Inside
<1>7. OwnersKnown(job, manifest', folder') /\ StartKeeps(job, holds', homes', folder')
  BY <1>4 DEF OwnersKnown, StartKeeps, Inside
<1>8. \A s \in bare' : folder'[s] = "user" /\ manifest'[s] = {}
  BY <1>1, <1>2, <1>3 DEF BareUnlisted, OwnersKnown, NativeShape
<1>13. PICK a0 : a0 = ask.agent
  OBVIOUS
<1>14. PICK h0 : h0 = ask.handle
  OBVIOUS
<1>9. ASSUME Untroubled PROVE Keeps(a0, h0)'
  <2>1. /\ homes[h0] = a0 /\ h0 \in Handles
        /\ \A s \in nativeJobs[i].placed : s \in Skills /\ folder[s] = "ours" /\ h0 \in nativeJobs[i].owned[s]
    BY <1>1, <1>2, <1>9, <1>13, <1>14 DEF StartKeeps, NativeFits, IsStart
  <2>2. \A k \in DOMAIN nativeJobs' : nativeJobs'[k].at \notin Inside
    BY <1>1, <1>2, <1>4, NativeMoves DEF Inside
  <2>3. i \in DOMAIN nativeJobs' /\ Begins(i)' = ask
    BY <1>1, <1>4, NativeMoves DEF Begins
  <2>4. IsStart(Begins(i)') /\ Begins(i)'.agent = a0 /\ Begins(i)'.handle = h0
    BY <1>2, <1>13, <1>14, <2>3
  <2>5. homes'[h0] = a0 /\ \A s \in holds'[a0] : s \in Skills /\ folder'[s] = "ours" /\ h0 \in manifest'[s]
    BY <1>1, <1>5, <1>13, <2>1
  <2> HIDE DEF ask
  <2> QED BY <2>1, <2>2, <2>3, <2>4, <2>5 DEF Keeps, Inside
<1>10. \A a \in DOMAIN holds, h \in Handles : Keeps(a, h) /\ a # ask.agent /\ h # ask.handle =>
         homes'[h] = a /\ \A s \in holds[a] : folder'[s] = "ours" /\ h \in manifest'[s]
  BY <1>1 DEF Keeps
<1>11. job.at \notin {"manifest", "orphans", "skills"} /\ (failures' = 0 => failures = 0)
  BY <1>1, <1>4
<1> HIDE DEF ask
<1>12. NativeStep(i, job) /\ job.ask = nativeJobs[i].ask /\ IsStart(job.ask)
  BY <1>1, <1>2, <1>4 DEF ask
<1>15. job.ask.agent = a0 /\ job.ask.handle = h0
  BY <1>4, <1>13, <1>14
<1> QED BY <1>2, <1>4, <1>5, <1>6, <1>7, <1>8, <1>9, <1>10, <1>11, <1>12, <1>15, StartMoves

LEMMA StartFailsKeeps ==
    ASSUME NativeInv, NEW i \in DOMAIN nativeJobs, StartFails(i)
    PROVE  NativeInv'
<1> DEFINE ask == nativeJobs[i].ask
           job == [nativeJobs[i] EXCEPT !.at = "end"]
<1>1. /\ nativeJobs[i].at \in Inside /\ NativeStep(i, job) /\ failures' = failures + 1 /\ starting' = 0
      /\ UNCHANGED <<homes, folder, manifest, holds, bare>>
  BY DEF StartFails, NativeAt, Inside
<1>2. /\ IsStart(ask) /\ starting = i /\ i # 0 /\ NativeFits(nativeJobs[i]) /\ ask.agent \in DOMAIN holds
      /\ \A k \in DOMAIN nativeJobs : k # i => nativeJobs[k].at \notin Inside /\ starting # k /\ k # 0
  BY <1>1, StartInside
<1>3. NativeShape /\ BareUnlisted /\ HeldStays
  BY DEF NativeInv
<1>4. job.ask = ask /\ job.at = "end" /\ NativeFits(job)
  BY <1>2 DEF NativeFits, Inside
<1> HIDE DEF job
<1>5. failures' \in Nat /\ failures' # 0
  BY <1>1, <1>3 DEF NativeShape
<1>6. NativeShape'
  BY <1>1, <1>2, <1>3, <1>4, <1>5, NativeShapeMoves DEF NativeShape, Inside
<1>7. OwnersKnown(job, manifest', folder')
  BY <1>4 DEF OwnersKnown
<1>8. \A s \in bare' : folder'[s] = "user" /\ manifest'[s] = {}
  BY <1>1, <1>3 DEF BareUnlisted
<1> HIDE DEF ask
<1>9. NativeStep(i, job) /\ job.ask = nativeJobs[i].ask /\ IsStart(job.ask) /\ holds' = holds
  BY <1>1, <1>2, <1>4 DEF ask
<1> QED BY <1>2, <1>5, <1>6, <1>7, <1>8, <1>9, StartMoves

\* The user writes only where there is nothing, and what is there is kept.
LEMMA UserWritesKeeps ==
    ASSUME NativeInv, NEW i \in DOMAIN nativeJobs, UserWrites(i)
    PROVE  NativeInv'
<1> DEFINE s0 == nativeJobs[i].ask.folder
           job == [nativeJobs[i] EXCEPT !.at = "end"]
<1>1. /\ nativeJobs[i].at = "user" /\ NativeStep(i, job)
      /\ IF folder[s0] # "none" THEN UNCHANGED <<folder, bare>>
         ELSE /\ folder' = [folder EXCEPT ![s0] = "user"]
              /\ bare' = IF manifest[s0] = {} THEN bare \cup {s0} ELSE bare
      /\ UNCHANGED <<homes, manifest, starting, holds, failures>>
  BY DEF UserWrites, NativeAt, Begins
<1>2. NativeShape /\ BareUnlisted /\ HeldStays
  BY DEF NativeInv
<1>3. s0 \in Skills /\ NativeFits(nativeJobs[i]) /\ IsUsers(nativeJobs[i].ask)
  BY <1>1, <1>2 DEF NativeShape, NativeFits, IsUsers, Inside
<1>4. job.ask = nativeJobs[i].ask /\ job.at = "end" /\ NativeFits(job)
  BY <1>3 DEF NativeFits
<1> HIDE DEF job
<1>5. /\ DOMAIN nativeJobs' = DOMAIN nativeJobs /\ nativeJobs'[i] = job
      /\ \A k \in DOMAIN nativeJobs : k # i => nativeJobs'[k] = nativeJobs[k]
      /\ \A k \in DOMAIN nativeJobs : Begins(k)' = Begins(k)
      /\ Rehandled' <=> Rehandled
  BY <1>1, <1>4, NativeMoves
<1>6. /\ folder' \in [Skills -> {"none", "ours", "user"}] /\ bare' \in SUBSET Skills
      /\ \A s \in Skills : folder[s] # "none" => folder'[s] = folder[s]
      /\ \A s \in bare' : s \in bare \/ (s = s0 /\ folder'[s] = "user" /\ manifest[s] = {})
  <2>1. CASE folder[s0] # "none"
    BY <1>1, <1>2, <2>1 DEF NativeShape
  <2>2. CASE folder[s0] = "none"
    BY <1>1, <1>2, <1>3, <2>2 DEF NativeShape
  <2> QED BY <2>1, <2>2
<1>7. NativeShape'
  <2>1. job.at \notin Inside /\ starting' # i
    BY <1>1, <1>2, <1>4 DEF NativeShape, Inside
  <2> QED BY <1>1, <1>2, <1>4, <1>6, <2>1, NativeShapeMoves DEF NativeShape
<1>8. BareUnlisted'
  <2>1. \A s \in bare' : folder'[s] = "user" /\ manifest'[s] = {}
    BY <1>1, <1>2, <1>6 DEF BareUnlisted, NativeShape
  <2>2. \A k \in DOMAIN nativeJobs : OwnersKnown(nativeJobs'[k], manifest', folder')
    BY <1>1, <1>2, <1>4, <1>5, <1>6 DEF BareUnlisted, OwnersKnown
  <2> QED BY <1>5, <2>1, <2>2 DEF BareUnlisted
<1>9. HeldStays'
  <2>1. ASSUME Untroubled'
        PROVE  /\ \A a \in DOMAIN holds' : holds'[a] # {} => \E h \in Handles : Keeps(a, h)'
               /\ \A k \in DOMAIN nativeJobs' : StartKeeps(nativeJobs'[k], holds', homes', folder')
    <3>1. Untroubled
      BY <1>1, <1>5, <2>1 DEF Untroubled
    <3>2. ASSUME NEW a \in DOMAIN holds, NEW h \in Handles, Keeps(a, h) PROVE Keeps(a, h)'
      <4>1. \A s \in holds[a] : folder'[s] = "ours" /\ h \in manifest'[s]
        BY <1>1, <1>6, <3>2 DEF Keeps
      <4>2. homes'[h] = a /\ holds' = holds /\ job.at \notin {"manifest", "orphans", "skills"}
        BY <1>1, <1>4, <3>2 DEF Keeps
      <4> QED BY <1>1, <1>4, <3>2, <4>1, <4>2, OthersKeep
    <3>3. ASSUME NEW k \in DOMAIN nativeJobs PROVE StartKeeps(nativeJobs'[k], holds', homes', folder')
      <4>1. CASE k = i
        BY <1>4, <1>5, <4>1 DEF StartKeeps, Inside
      <4>2. CASE k # i
        <5>1. StartKeeps(nativeJobs[k], holds, homes, folder) /\ nativeJobs'[k] = nativeJobs[k]
              /\ nativeJobs[k].placed \in SUBSET Skills
          BY <1>2, <1>5, <3>1, <4>2 DEF HeldStays, NativeShape, NativeFits
        <5> QED BY <1>1, <1>6, <5>1 DEF StartKeeps
      <4> QED BY <4>1, <4>2
    <3> QED BY <1>1, <1>2, <1>5, <3>1, <3>2, <3>3 DEF HeldStays
  <2> QED BY <2>1 DEF HeldStays
<1> QED BY <1>7, <1>8, <1>9 DEF NativeInv

LEMMA NativeBegins ==
    ASSUME NativeAssumption, NativeInit
    PROVE  NativeInv
<1>1. /\ homes = [h \in Handles |-> NoAgentHere] /\ folder = [s \in Skills |-> "none"]
      /\ manifest = [s \in Skills |-> {}] /\ starting = 0 /\ bare = {} /\ failures = 0
  BY DEF NativeInit
<1>2. PICK scene \in NativeScenes :
         /\ nativeJobs = [i \in DOMAIN scene |-> Start0(scene[i])]
         /\ holds = [a \in {scene[i].agent : i \in {j \in DOMAIN scene : "agent" \in DOMAIN scene[j]}} |-> {}]
  BY DEF NativeInit
<1>3. /\ DOMAIN nativeJobs = DOMAIN scene /\ 0 \notin DOMAIN scene
      /\ \A i \in DOMAIN scene : IsUsers(scene[i]) \/ IsStart(scene[i])
      /\ \A i \in DOMAIN scene : nativeJobs[i] = Start0(scene[i])
  <2>1. scene \in Seq(ToSet(scene)) /\ \A i \in DOMAIN scene : IsUsers(scene[i]) \/ IsStart(scene[i])
    BY DEF NativeAssumption, ToSet, IsUsers, IsStart
  <2>2. DOMAIN scene = 1 .. Len(scene) /\ Len(scene) \in Nat
    BY <2>1
  <2> QED BY <1>2, <2>1, <2>2
<1>4. ASSUME NEW i \in DOMAIN nativeJobs
      PROVE  /\ NativeFits(nativeJobs[i]) /\ nativeJobs[i].at \in {"user", "lock"}
             /\ nativeJobs[i].placed = {} /\ Begins(i) = scene[i]
  <2>1. IsUsers(scene[i]) \/ IsStart(scene[i])
    BY <1>3
  <2>2. /\ IsUsers(scene[i]) => Start0(scene[i]).at = "user"
        /\ IsStart(scene[i]) => Start0(scene[i]).at = "lock"
    BY DEF Start0, IsUsers, IsStart
  <2>3. /\ Start0(scene[i]).ask = scene[i] /\ Start0(scene[i]).owned \in [Skills -> SUBSET Handles]
        /\ Start0(scene[i]).old = {} /\ Start0(scene[i]).todo = <<>> /\ Start0(scene[i]).placed = {}
        /\ DOMAIN Start0(scene[i]) = {"ask", "at", "owned", "old", "todo", "placed"}
    BY DEF Start0
  <2>4. nativeJobs[i] = Start0(scene[i])
    BY <1>3
  <2> DEFINE job == Start0(scene[i])
  <2>5. job.at \in {"user", "lock"} /\ job.todo \in Seq(Skills) /\ job.old \in SUBSET Handles
        /\ job.placed \in SUBSET Skills
    BY <2>1, <2>2, <2>3
  <2> HIDE DEF job
  <2>6. NativeFits(job)
    BY <2>1, <2>2, <2>3, <2>5 DEF NativeFits, job
  <2> QED BY <2>3, <2>4, <2>5, <2>6 DEF Begins, job
<1>5. NativeShape
  <2>1. \A i \in DOMAIN nativeJobs : IsStart(Begins(i)) => Begins(i).agent \in DOMAIN holds
    BY <1>2, <1>3, <1>4 DEF IsStart
  <2>2. /\ DOMAIN homes = Handles /\ folder \in [Skills -> {"none", "ours", "user"}]
        /\ manifest \in [Skills -> SUBSET Handles] /\ bare \in SUBSET Skills /\ failures \in Nat
    BY <1>1
  <2>3. \A i \in DOMAIN nativeJobs : nativeJobs[i].at \notin Inside /\ starting # i
    BY <1>1, <1>3, <1>4 DEF Inside
  <2> QED BY <1>3, <1>4, <2>1, <2>2, <2>3 DEF NativeShape
<1>6. BareUnlisted
  BY <1>1, <1>4 DEF BareUnlisted, OwnersKnown
<1>7. HeldStays
  <2>1. \A a \in DOMAIN holds : holds[a] = {}
    BY <1>2
  <2>2. \A i \in DOMAIN nativeJobs : StartKeeps(nativeJobs[i], holds, homes, folder)
    BY <1>4 DEF StartKeeps, Inside
  <2> QED BY <2>1, <2>2 DEF HeldStays
<1> QED BY <1>5, <1>6, <1>7 DEF NativeInv

LEMMA NativeGoesOn ==
    ASSUME NativeAssumption, NativeInv, [NativeNext]_nativeVars
    PROVE  NativeInv'
<1>1. CASE UNCHANGED nativeVars
  <2>1. UNCHANGED <<homes, folder, manifest, starting, nativeJobs, holds, bare, failures>>
    BY <1>1 DEF nativeVars
  <2>2. NativeShape'
    BY <2>1 DEF NativeInv, NativeShape, Begins
  <2>3. BareUnlisted'
    BY <2>1 DEF NativeInv, BareUnlisted
  <2>4. \A a, h : Keeps(a, h)' <=> Keeps(a, h)
    BY <2>1 DEF Keeps, Begins
  <2>5. Untroubled' <=> Untroubled
    BY <2>1 DEF Untroubled, Rehandled, Begins
  <2>6. HeldStays'
    BY <2>1, <2>4, <2>5 DEF NativeInv, HeldStays
  <2> QED BY <2>2, <2>3, <2>6 DEF NativeInv
<1>2. CASE NativeNext
  BY <1>2, EntersLockKeeps, HomeWrittenKeeps, ManifestReadKeeps, OrphanGoneKeeps, OrphansGoneKeeps,
     SkillWrittenKeeps, ManifestWrittenKeeps, StartFailsKeeps, UserWritesKeeps DEF NativeNext
<1> QED BY <1>1, <1>2

\* A skill that the last start of an agent placed stays in the shared folder until
\* its next start, if no start failed and no agent took over another's handle; and
\* what the user put there while no manifest listed it is never touched, whatever
\* fails: for any agents, handles, skills and starts (materialize.rs:331 to 395).
THEOREM SkillFoldersStayHolds == NativeSpec => []SkillFoldersStay
<1>1. NativeInit => NativeInv
  BY NativeAssumption, NativeBegins
<1>2. NativeInv /\ [NativeNext]_nativeVars => NativeInv'
  BY NativeAssumption, NativeGoesOn
<1>3. NativeInv => SkillFoldersStay
  <2>1. NativeInv => UserFoldersStay
    BY DEF NativeInv, BareUnlisted, UserFoldersStay
  <2>2. NativeInv => WantedSkillsStay
    BY DEF NativeInv, HeldStays, Untroubled, WantedSkillsStay, Keeps
  <2> QED BY <2>1, <2>2 DEF SkillFoldersStay
<1> QED BY <1>1, <1>2, <1>3, PTL DEF NativeSpec

-----------------------------------------------------------------------------
(* Notes: what two texts have in common.                                         *)

\* Max is defined for a set of numbers that does not go on for ever.
LEMMA GreatestIsIn ==
    ASSUME NEW n \in Nat, NEW U \in SUBSET (0 .. n), U # {}
    PROVE  Max(U) \in U
<1> DEFINE Left == {k \in 0 .. n : n - k \in U}
<1>1. Left \in SUBSET Nat
  OBVIOUS
<1>2. Left # {}
  <2>1. PICK x \in U : TRUE
    OBVIOUS
  <2>2. x \in 0 .. n /\ n - x \in 0 .. n /\ n - (n - x) = x
    OBVIOUS
  <2> QED BY <2>1, <2>2
<1>3. PICK least \in Left : \A k \in Left : least =< k
  BY <1>1, <1>2, LeastOne
<1>4. least \in Nat /\ n - least \in U
  BY <1>1, <1>3
<1>5. \A y \in U : n - least >= y
  <2> TAKE y \in U
  <2>1. y \in 0 .. n /\ n - y \in 0 .. n /\ n - (n - y) = y
    OBVIOUS
  <2>2. least =< n - y
    BY <1>3, <2>1
  <2> QED BY <1>4, <2>1, <2>2
<1> QED BY <1>4, <1>5 DEF Max

\* A common prefix is one, and is within both texts.
LEMMA CommonPrefixIs ==
    ASSUME NEW S, NEW a \in Seq(S), NEW b \in Seq(S), NEW p, p = CommonPrefix(a, b)
    PROVE  p \in Nat /\ p =< Len(a) /\ p =< Len(b) /\ \A j \in 1 .. p : a[j] = b[j]
<1> DEFINE common == {n \in 1 .. Min({Len(a), Len(b)}) : SubSeq(a, 1, n) = SubSeq(b, 1, n)}
<1>1. Len(a) \in Nat /\ Len(b) \in Nat
  OBVIOUS
<1>2. Min({Len(a), Len(b)}) \in Nat /\ Min({Len(a), Len(b)}) =< Len(a) /\ Min({Len(a), Len(b)}) =< Len(b)
  BY <1>1 DEF Min
<1>3. p \in {0} \cup common
  <2>1. ({0} \cup common) \in SUBSET (0 .. Min({Len(a), Len(b)}))
    BY <1>2
  <2>2. p = Max({0} \cup common)
    BY DEF CommonPrefix
  <2> HIDE DEF common
  <2> QED BY <1>2, <2>1, <2>2, GreatestIsIn
<1>4. CASE p = 0
  BY <1>1, <1>4
<1>5. CASE p \in common
  <2>1. p \in 1 .. Min({Len(a), Len(b)}) /\ SubSeq(a, 1, p) = SubSeq(b, 1, p)
    BY <1>5
  <2>2. p \in Nat /\ p =< Len(a) /\ p =< Len(b)
    BY <1>1, <1>2, <2>1
  <2>3. \A j \in 1 .. p : SubSeq(a, 1, p)[j] = a[j] /\ SubSeq(b, 1, p)[j] = b[j]
    BY <1>1, <2>2
  <2> QED BY <2>1, <2>2, <2>3
<1> QED BY <1>3, <1>4, <1>5

\* A list without what it begins with, and a list backwards.
LEMMA RestIs ==
    ASSUME NEW S, NEW s \in Seq(S), NEW p \in Nat, p =< Len(s), NEW c, c = SubSeq(s, p + 1, Len(s))
    PROVE  c \in Seq(S) /\ Len(c) = Len(s) - p /\ \A j \in 1 .. (Len(s) - p) : c[j] = s[p + j]
<1>1. c \in Seq(S) /\ Len(c) = Len(s) - p
  OBVIOUS
<1>2. \A j \in 1 .. (Len(s) - p) : c[j] = s[p + j]
  OBVIOUS
<1> QED BY <1>1, <1>2

LEMMA ReverseHas ==
    ASSUME NEW S, NEW q \in Seq(S), NEW n \in Nat, n = Len(q)
    PROVE  /\ Reverse(q) \in Seq(S) /\ Len(Reverse(q)) = n
           /\ \A j \in 1 .. n : Reverse(q)[j] = q[n - j + 1]
<1>1. Reverse(q) = [j \in 1 .. n |-> q[n - j + 1]]
  BY DEF Reverse
<1>2. \A j \in 1 .. n : n - j + 1 \in 1 .. n /\ q[n - j + 1] \in S
  OBVIOUS
<1> QED BY <1>1, <1>2

\* A common suffix is one, and does not reach into the prefix in either text.
LEMMA CommonSuffixIs ==
    ASSUME NEW S, NEW a \in Seq(S), NEW b \in Seq(S), NEW p, p = CommonPrefix(a, b),
           NEW k, k = CommonSuffix(a, b)
    PROVE  /\ k \in Nat /\ p + k =< Len(a) /\ p + k =< Len(b)
           /\ \A j \in 1 .. k : a[Len(a) - k + j] = b[Len(b) - k + j]
<1> DEFINE cut(s) == SubSeq(s, p + 1, Len(s))
           back(s) == Reverse(cut(s))
<1>1. p \in Nat /\ p =< Len(a) /\ p =< Len(b)
  BY CommonPrefixIs
<1>2. ASSUME NEW s \in Seq(S), p =< Len(s)
      PROVE  /\ back(s) \in Seq(S) /\ Len(back(s)) = Len(s) - p /\ Len(s) \in Nat
             /\ \A j \in 1 .. (Len(s) - p) : back(s)[j] = s[Len(s) - j + 1]
  <2>1. Len(s) \in Nat
    OBVIOUS
  <2>2. PICK c : c = cut(s)
    OBVIOUS
  <2>3. c \in Seq(S) /\ Len(c) = Len(s) - p /\ \A j \in 1 .. (Len(s) - p) : c[j] = s[p + j]
    <3>1. c = SubSeq(s, p + 1, Len(s))
      BY <2>2
    <3> QED BY <1>1, <1>2, <3>1, RestIs
  <2>4. Reverse(c) = back(s)
    BY <2>2
  <2> HIDE DEF cut, back
  <2>5. back(s) \in Seq(S) /\ Len(back(s)) = Len(s) - p
        /\ \A j \in 1 .. (Len(s) - p) : back(s)[j] = c[(Len(s) - p) - j + 1]
    <3>1. Len(s) - p \in Nat
      BY <1>1, <1>2, <2>1
    <3>2. Reverse(c) \in Seq(S) /\ Len(Reverse(c)) = Len(s) - p
          /\ \A j \in 1 .. (Len(s) - p) : Reverse(c)[j] = c[(Len(s) - p) - j + 1]
      BY <2>3, <3>1, ReverseHas
    <3> QED BY <2>4, <3>2
  <2>6. ASSUME NEW j \in 1 .. (Len(s) - p) PROVE back(s)[j] = s[Len(s) - j + 1]
    <3>1. Len(s) - p - j + 1 \in 1 .. (Len(s) - p) /\ p + (Len(s) - p - j + 1) = Len(s) - j + 1
      BY <1>1, <1>2, <2>1
    <3> QED BY <2>3, <2>5, <3>1
  <2> QED BY <2>1, <2>5, <2>6
<1>3. k = CommonPrefix(back(a), back(b))
  BY DEF CommonSuffix
<1> HIDE DEF back, cut
<1>4. /\ back(a) \in Seq(S) /\ Len(back(a)) = Len(a) - p /\ back(b) \in Seq(S) /\ Len(back(b)) = Len(b) - p
      /\ Len(a) \in Nat /\ Len(b) \in Nat
  BY <1>1, <1>2
<1>5. k \in Nat /\ k =< Len(a) - p /\ k =< Len(b) - p /\ \A j \in 1 .. k : back(a)[j] = back(b)[j]
  BY <1>3, <1>4, CommonPrefixIs
<1>6. ASSUME NEW j \in 1 .. k PROVE a[Len(a) - k + j] = b[Len(b) - k + j]
  <2> DEFINE n == k - j + 1
  <2>1. n \in 1 .. k /\ n \in 1 .. (Len(a) - p) /\ n \in 1 .. (Len(b) - p)
    BY <1>1, <1>4, <1>5
  <2>2. back(a)[n] = a[Len(a) - n + 1] /\ back(b)[n] = b[Len(b) - n + 1]
    BY <1>1, <1>2, <2>1
  <2>3. Len(a) - n + 1 = Len(a) - k + j /\ Len(b) - n + 1 = Len(b) - k + j
    BY <1>4, <1>5
  <2> QED BY <1>5, <2>1, <2>2, <2>3
<1> QED BY <1>1, <1>4, <1>5, <1>6

-----------------------------------------------------------------------------
(* A diff, line by line: it shows both texts whole.                            *)

Lines(kind, s) == [n \in DOMAIN s |-> [kind |-> kind, text |-> s[n]]]
LineRows(S) == [kind : {"same", "removed", "added"}, text : S]
AreLines(x, S, kind, s) ==
    /\ x \in Seq(LineRows(S)) /\ Len(x) = Len(s)
    /\ \A n \in 1 .. Len(s) : x[n].kind = kind /\ x[n].text = s[n]
LEMMA LinesAre ==
    ASSUME NEW S, NEW s \in Seq(S), NEW kind \in {"same", "removed", "added"}
    PROVE  AreLines(Lines(kind, s), S, kind, s)
<1>1. Lines(kind, s) = [n \in 1 .. Len(s) |-> [kind |-> kind, text |-> s[n]]] /\ Len(s) \in Nat
  BY DEF Lines
<1>2. \A n \in 1 .. Len(s) : [kind |-> kind, text |-> s[n]] \in LineRows(S)
  BY DEF LineRows
<1>3. Lines(kind, s) \in Seq(LineRows(S)) /\ Len(Lines(kind, s)) = Len(s)
  BY <1>1, <1>2
<1>4. ASSUME NEW n \in 1 .. Len(s) PROVE Lines(kind, s)[n].kind = kind /\ Lines(kind, s)[n].text = s[n]
  BY <1>1
<1> QED BY <1>3, <1>4 DEF AreLines

LEMMA StretchIs ==
    ASSUME NEW S, NEW s \in Seq(S), NEW p \in Nat, NEW n \in Nat, p + n =< Len(s)
    PROVE  /\ SubSeq(s, p + 1, p + n) \in Seq(S) /\ Len(SubSeq(s, p + 1, p + n)) = n
           /\ \A j \in 1 .. n : SubSeq(s, p + 1, p + n)[j] = s[p + j]
<1>1. \A j \in 1 .. n : p + j \in 1 .. Len(s) /\ s[p + j] \in S
  OBVIOUS
<1>2. SubSeq(s, p + 1, p + n) \in Seq(S) /\ Len(SubSeq(s, p + 1, p + n)) = n
  OBVIOUS
<1>3. \A j \in 1 .. n : SubSeq(s, p + 1, p + n)[j] = s[p + j]
  BY <1>1
<1> QED BY <1>2, <1>3

\* x has, line by line, the n texts of s after its p-th.
IsStretch(x, S, kind, s, p, n) ==
    /\ x \in Seq(LineRows(S)) /\ Len(x) = n
    /\ \A j \in 1 .. n : x[j].kind = kind /\ x[j].text = s[p + j]
LEMMA StretchLines ==
    ASSUME NEW S, NEW s \in Seq(S), NEW p \in Nat, NEW n \in Nat, p + n =< Len(s),
           NEW kind \in {"same", "removed", "added"}
    PROVE  IsStretch(Lines(kind, SubSeq(s, p + 1, p + n)), S, kind, s, p, n)
<1>1. PICK y : y = SubSeq(s, p + 1, p + n)
  OBVIOUS
<1>2. y \in Seq(S) /\ Len(y) = n /\ \A j \in 1 .. n : y[j] = s[p + j]
  BY <1>1, StretchIs
<1>3. PICK x : x = Lines(kind, y)
  OBVIOUS
<1>4. x \in Seq(LineRows(S)) /\ Len(x) = Len(y) /\ \A j \in 1 .. Len(y) : x[j].kind = kind /\ x[j].text = y[j]
  <2>1. AreLines(x, S, kind, y)
    BY <1>2, <1>3, LinesAre
  <2> QED BY <2>1 DEF AreLines
<1>5. x \in Seq(LineRows(S)) /\ Len(x) = n /\ \A j \in 1 .. n : x[j].kind = kind /\ x[j].text = s[p + j]
  BY <1>2, <1>4
<1> QED BY <1>1, <1>3, <1>5 DEF IsStretch

\* z is x and then y.
IsJoined(z, R, x, y) ==
    /\ z \in Seq(R) /\ Len(z) = Len(x) + Len(y)
    /\ \A j \in 1 .. Len(x) : z[j] = x[j]
    /\ \A j \in 1 .. Len(y) : z[Len(x) + j] = y[j]
LEMMA TwoLists ==
    ASSUME NEW R, NEW x \in Seq(R), NEW y \in Seq(R)
    PROVE  IsJoined(x \o y, R, x, y)
<1>1. x \o y \in Seq(R) /\ Len(x \o y) = Len(x) + Len(y)
  OBVIOUS
<1>2. \A j \in 1 .. Len(x) : (x \o y)[j] = x[j]
  OBVIOUS
<1>3. \A j \in 1 .. Len(y) : (x \o y)[Len(x) + j] = y[j]
  OBVIOUS
<1> QED BY <1>1, <1>2, <1>3 DEF IsJoined

\* d has the lines of four lists, so long.
IsFour(d, R, l1, l2, l3, l4, p, u, v, k) ==
    /\ d \in Seq(R) /\ Len(d) = p + u + v + k
    /\ \A j \in 1 .. p : d[j] = l1[j]
    /\ \A j \in 1 .. u : d[p + j] = l2[j]
    /\ \A j \in 1 .. v : d[p + u + j] = l3[j]
    /\ \A j \in 1 .. k : d[p + u + v + j] = l4[j]
LEMMA FourLists ==
    ASSUME NEW R, NEW l1 \in Seq(R), NEW l2 \in Seq(R), NEW l3 \in Seq(R), NEW l4 \in Seq(R),
           NEW p \in Nat, NEW u \in Nat, NEW v \in Nat, NEW k \in Nat,
           Len(l1) = p, Len(l2) = u, Len(l3) = v, Len(l4) = k
    PROVE  IsFour(l1 \o l2 \o l3 \o l4, R, l1, l2, l3, l4, p, u, v, k)
<1>1. PICK x : x = l1 \o l2
  OBVIOUS
<1>2. PICK y : y = x \o l3
  OBVIOUS
<1>3. PICK d : d = y \o l4
  OBVIOUS
<1>4. IsJoined(x, R, l1, l2)
  BY <1>1, TwoLists
<1>5. x \in Seq(R)
  BY <1>4 DEF IsJoined
<1>6. IsJoined(y, R, x, l3)
  BY <1>2, <1>5, TwoLists
<1>7. y \in Seq(R)
  BY <1>6 DEF IsJoined
<1>8. IsJoined(d, R, y, l4)
  BY <1>3, <1>7, TwoLists
<1>9. /\ Len(x) = p + u
      /\ \A j \in 1 .. p : x[j] = l1[j]
      /\ \A j \in 1 .. u : x[p + j] = l2[j]
  BY <1>4 DEF IsJoined
<1>10. /\ Len(y) = p + u + v
       /\ \A j \in 1 .. (p + u) : y[j] = x[j]
       /\ \A j \in 1 .. v : y[p + u + j] = l3[j]
  BY <1>6, <1>9 DEF IsJoined
<1>11. /\ d \in Seq(R) /\ Len(d) = p + u + v + k
       /\ \A j \in 1 .. (p + u + v) : d[j] = y[j]
       /\ \A j \in 1 .. k : d[p + u + v + j] = l4[j]
  BY <1>8, <1>10 DEF IsJoined
<1>12. /\ \A j \in 1 .. p : j \in 1 .. (p + u) /\ j \in 1 .. (p + u + v)
       /\ \A j \in 1 .. u : p + j \in 1 .. (p + u) /\ p + j \in 1 .. (p + u + v)
       /\ \A j \in 1 .. v : p + u + j \in 1 .. (p + u + v)
  OBVIOUS
<1>13. \A j \in 1 .. p : d[j] = l1[j]
  BY <1>9, <1>10, <1>11, <1>12
<1>14. \A j \in 1 .. u : d[p + j] = l2[j]
  BY <1>9, <1>10, <1>11, <1>12
<1>15. \A j \in 1 .. v : d[p + u + j] = l3[j]
  BY <1>10, <1>11, <1>12
<1>16. d = l1 \o l2 \o l3 \o l4
  BY <1>1, <1>2, <1>3
<1>17. IsFour(d, R, l1, l2, l3, l4, p, u, v, k)
  BY <1>11, <1>13, <1>14, <1>15 DEF IsFour
<1> QED BY <1>16, <1>17

\* A diff by the lengths of what is the same, removed, added and the same, and
\* what its lines are.
DiffOf(a, b, p, u, v, k) ==
    Lines("same", SubSeq(a, 0 + 1, 0 + p)) \o Lines("removed", SubSeq(a, p + 1, p + u))
    \o Lines("added", SubSeq(b, p + 1, p + v)) \o Lines("same", SubSeq(a, (p + u) + 1, (p + u) + k))
IsDiff(d, S, a, b, p, u, v, k) ==
    /\ d \in Seq(LineRows(S)) /\ Len(d) = p + u + v + k
    /\ \A j \in 1 .. p : d[j].kind = "same" /\ d[j].text = a[j]
    /\ \A j \in 1 .. u : d[p + j].kind = "removed" /\ d[p + j].text = a[p + j]
    /\ \A j \in 1 .. v : d[p + u + j].kind = "added" /\ d[p + u + j].text = b[p + j]
    /\ \A j \in 1 .. k : d[p + u + v + j].kind = "same" /\ d[p + u + v + j].text = a[p + u + j]
LEMMA DiffIs ==
    ASSUME NEW S, NEW a \in Seq(S), NEW b \in Seq(S), NEW p \in Nat, NEW u \in Nat, NEW v \in Nat, NEW k \in Nat,
           Len(a) = p + u + k, Len(b) = p + v + k
    PROVE  IsDiff(DiffOf(a, b, p, u, v, k), S, a, b, p, u, v, k)
<1>1. PICK l1 : l1 = Lines("same", SubSeq(a, 0 + 1, 0 + p))
  OBVIOUS
<1>2. PICK l2 : l2 = Lines("removed", SubSeq(a, p + 1, p + u))
  OBVIOUS
<1>3. PICK l3 : l3 = Lines("added", SubSeq(b, p + 1, p + v))
  OBVIOUS
<1>4. PICK l4 : l4 = Lines("same", SubSeq(a, (p + u) + 1, (p + u) + k))
  OBVIOUS
<1>5. IsStretch(l1, S, "same", a, 0, p)
  <2>1. 0 + p =< Len(a) /\ 0 \in Nat
    OBVIOUS
  <2> QED BY <1>1, <2>1, StretchLines
<1>6. IsStretch(l2, S, "removed", a, p, u)
  <2>1. p + u =< Len(a)
    OBVIOUS
  <2> QED BY <1>2, <2>1, StretchLines
<1>7. IsStretch(l3, S, "added", b, p, v)
  <2>1. p + v =< Len(b)
    OBVIOUS
  <2> QED BY <1>3, <2>1, StretchLines
<1>8. IsStretch(l4, S, "same", a, p + u, k)
  <2>1. (p + u) + k =< Len(a) /\ p + u \in Nat
    OBVIOUS
  <2> QED BY <1>4, <2>1, StretchLines
<1>9. PICK d : d = l1 \o l2 \o l3 \o l4
  OBVIOUS
<1>10. d = DiffOf(a, b, p, u, v, k)
  BY <1>1, <1>2, <1>3, <1>4, <1>9 DEF DiffOf
<1>11. /\ l1 \in Seq(LineRows(S)) /\ Len(l1) = p /\ l2 \in Seq(LineRows(S)) /\ Len(l2) = u
       /\ l3 \in Seq(LineRows(S)) /\ Len(l3) = v /\ l4 \in Seq(LineRows(S)) /\ Len(l4) = k
  BY <1>5, <1>6, <1>7, <1>8 DEF IsStretch
<1>12. IsFour(d, LineRows(S), l1, l2, l3, l4, p, u, v, k)
  BY <1>9, <1>11, FourLists
<1>13. d \in Seq(LineRows(S)) /\ Len(d) = p + u + v + k
  BY <1>12 DEF IsFour
<1>14. \A j \in 1 .. p : d[j].kind = "same" /\ d[j].text = a[j]
  <2>1. \A j \in 1 .. p : 0 + j = j
    OBVIOUS
  <2> QED BY <1>5, <1>12, <2>1 DEF IsFour, IsStretch
<1>15. \A j \in 1 .. u : d[p + j].kind = "removed" /\ d[p + j].text = a[p + j]
  BY <1>6, <1>12 DEF IsFour, IsStretch
<1>16. \A j \in 1 .. v : d[p + u + j].kind = "added" /\ d[p + u + j].text = b[p + j]
  BY <1>7, <1>12 DEF IsFour, IsStretch
<1>17. \A j \in 1 .. k : d[p + u + v + j].kind = "same" /\ d[p + u + v + j].text = a[p + u + j]
  BY <1>8, <1>12 DEF IsFour, IsStretch
<1>18. IsDiff(d, S, a, b, p, u, v, k)
  BY <1>13, <1>14, <1>15, <1>16, <1>17 DEF IsDiff
<1> QED BY <1>10, <1>18

Without(d, kind) == Sifted(d, {line \in ToSet(d) : line.kind # kind})
Texts(s) == [n \in DOMAIN s |-> s[n].text]

\* What is left of a list of lines when the part in its middle goes.
MiddleIs(d, t, kind, p, q, k) ==
    /\ Len(d) = p + q + k /\ Len(t) = p + k
    /\ \A j \in 1 .. p : d[j].kind # kind /\ d[j].text = t[j]
    /\ \A j \in 1 .. q : d[p + j].kind = kind
    /\ \A j \in 1 .. k : d[p + q + j].kind # kind /\ d[p + q + j].text = t[p + j]
LEMMA MiddleGoes ==
    ASSUME NEW S, NEW d \in Seq(LineRows(S)), NEW p \in Nat, NEW q \in Nat, NEW k \in Nat, NEW t \in Seq(S),
           NEW kind, MiddleIs(d, t, kind, p, q, k)
    PROVE  Texts(Without(d, kind)) = t
<1>0. /\ Len(d) = p + q + k /\ Len(t) = p + k
      /\ \A j \in 1 .. p : d[j].kind # kind /\ d[j].text = t[j]
      /\ \A j \in 1 .. q : d[p + j].kind = kind
      /\ \A j \in 1 .. k : d[p + q + j].kind # kind /\ d[p + q + j].text = t[p + j]
  BY DEF MiddleIs
<1> DEFINE T == {line \in ToSet(d) : line.kind # kind}
<1>1. DOMAIN d = 1 .. (p + q + k) /\ \A j \in 1 .. (p + q + k) : d[j] \in ToSet(d)
  <2>1. DOMAIN d = 1 .. (p + q + k)
    BY <1>0
  <2>2. \A j \in DOMAIN d : d[j] \in ToSet(d)
    BY ZenonT(60) DEF ToSet
  <2> QED BY <2>1, <2>2
<1>2. \A j \in DOMAIN d : d[j] \in T <=> (j =< p \/ j > p + q)
  <2> TAKE j \in DOMAIN d
  <2>1. d[j] \in ToSet(d)
    BY <1>1
  <2>2. CASE j =< p
    BY <1>0, <1>1, <2>1, <2>2
  <2>3. CASE j > p /\ j =< p + q
    <3>1. PICK i \in 1 .. q : j = p + i
      <4>1. j - p \in 1 .. q /\ j = p + (j - p)
        BY <1>1, <2>3
      <4> QED BY <4>1
    <3>2. ~(j =< p) /\ ~(j > p + q)
      BY <1>1, <2>3
    <3> QED BY <1>0, <3>1, <3>2
  <2>4. CASE j > p + q
    <3>1. PICK i \in 1 .. k : j = p + q + i
      <4>1. j - (p + q) \in 1 .. k /\ j = p + q + (j - (p + q))
        BY <1>1, <2>4
      <4> QED BY <4>1
    <3> QED BY <1>0, <2>1, <2>4, <3>1
  <2> QED BY <1>1, <2>2, <2>3, <2>4
<1>3. PICK w : w = Without(d, kind)
  OBVIOUS
<1>4. w = Sifted(d, T)
  BY <1>3 DEF Without
<1> HIDE DEF T
<1>5. PICK e \in Nat : e = p + q
  OBVIOUS
<1>6. p =< e /\ e =< Len(d) /\ Len(d) - (e - p) = p + k
  BY <1>0, <1>5
<1>7. /\ w \in Seq(LineRows(S)) /\ Len(w) = p + k
      /\ \A j \in 1 .. (p + k) : w[j] = d[PlaceBut(j, p, e)]
  <2>1. KeepsBut(d, T, p, e)
    BY <1>2, <1>5, <1>6 DEF KeepsBut
  <2>2. IsBut(w, LineRows(S), d, p, e)
    BY <1>4, <2>1, SiftedBut
  <2> QED BY <1>6, <2>2 DEF IsBut
<1>8. ASSUME NEW j \in 1 .. (p + k) PROVE w[j].text = t[j]
  <2>1. CASE j =< p
    <3>1. PlaceBut(j, p, e) = j /\ j \in 1 .. p
      BY <2>1 DEF PlaceBut
    <3> QED BY <1>0, <1>7, <3>1
  <2>2. CASE ~(j =< p)
    <3>1. PICK i \in 1 .. k : j = p + i
      <4>1. j - p \in 1 .. k /\ j = p + (j - p)
        BY <2>2
      <4> QED BY <4>1
    <3>2. PlaceBut(j, p, e) = p + q + i
      BY <1>5, <2>2, <3>1 DEF PlaceBut
    <3> QED BY <1>0, <1>7, <3>1, <3>2
  <2> QED BY <2>1, <2>2
<1>9. Texts(w) = [j \in 1 .. (p + k) |-> t[j]]
  BY <1>7, <1>8 DEF Texts
<1>10. t = [j \in 1 .. (p + k) |-> t[j]]
  BY <1>0
<1> QED BY <1>3, <1>9, <1>10

\* Two texts that begin and end with the same.
Meets(a, b, p, u, v, k) ==
    /\ Len(a) = p + u + k /\ Len(b) = p + v + k
    /\ \A j \in 1 .. p : a[j] = b[j]
    /\ \A j \in 1 .. k : a[p + u + j] = b[p + v + j]
LEMMA DiffOfShows ==
    ASSUME NEW S, NEW a \in Seq(S), NEW b \in Seq(S), NEW p \in Nat, NEW u \in Nat, NEW v \in Nat, NEW k \in Nat,
           NEW d, d = DiffOf(a, b, p, u, v, k),
           Meets(a, b, p, u, v, k)
    PROVE  Texts(Without(d, "removed")) = b /\ Texts(Without(d, "added")) = a
<1>1. /\ d \in Seq(LineRows(S)) /\ Len(d) = p + u + v + k
      /\ \A j \in 1 .. p : d[j].kind = "same" /\ d[j].text = a[j]
      /\ \A j \in 1 .. u : d[p + j].kind = "removed" /\ d[p + j].text = a[p + j]
      /\ \A j \in 1 .. v : d[p + u + j].kind = "added" /\ d[p + u + j].text = b[p + j]
      /\ \A j \in 1 .. k : d[p + u + v + j].kind = "same" /\ d[p + u + v + j].text = a[p + u + j]
  <2>1. Len(a) = p + u + k /\ Len(b) = p + v + k
    BY DEF Meets
  <2>2. IsDiff(d, S, a, b, p, u, v, k)
    BY <2>1, DiffIs
  <2> QED BY <2>2 DEF IsDiff
<1>4. /\ Len(a) = p + u + k /\ Len(b) = p + v + k
      /\ \A j \in 1 .. p : a[j] = b[j]
      /\ \A j \in 1 .. k : a[p + u + j] = b[p + v + j]
  BY DEF Meets
<1>2. Texts(Without(d, "removed")) = b
  <2>1. PICK n \in Nat : n = v + k
    OBVIOUS
  <2>2. Len(d) = p + u + n /\ Len(b) = p + n
    BY <1>1, <1>4, <2>1
  <2>3. \A j \in 1 .. p : d[j].kind # "removed" /\ d[j].text = b[j]
    BY <1>1, <1>4
  <2>4. \A j \in 1 .. u : d[p + j].kind = "removed"
    BY <1>1
  <2>5. \A j \in 1 .. n : d[p + u + j].kind # "removed" /\ d[p + u + j].text = b[p + j]
    <3> TAKE j \in 1 .. n
    <3>1. CASE j =< v
      <4>1. j \in 1 .. v
        BY <3>1
      <4>2. d[p + u + j].kind = "added" /\ d[p + u + j].text = b[p + j]
        BY <1>1, <4>1
      <4> QED BY <4>2
    <3>2. CASE ~(j =< v)
      <4>1. PICK i \in 1 .. k : j = v + i
        <5>1. j - v \in 1 .. k /\ j = v + (j - v)
          BY <2>1, <3>2
        <5> QED BY <5>1
      <4>2. p + u + j = p + u + v + i /\ p + j = p + v + i
        BY <4>1
      <4>3. d[p + u + v + i].kind = "same" /\ d[p + u + v + i].text = a[p + u + i]
        BY <1>1, <4>1
      <4>4. a[p + u + i] = b[p + v + i]
        BY <1>4, <4>1
      <4> QED BY <4>2, <4>3, <4>4
    <3> QED BY <3>1, <3>2
  <2>6. MiddleIs(d, b, "removed", p, u, n)
    BY <2>2, <2>3, <2>4, <2>5 DEF MiddleIs
  <2> QED BY <1>1, <2>6, MiddleGoes
<1>3. Texts(Without(d, "added")) = a
  <2>1. PICK n \in Nat : n = p + u
    OBVIOUS
  <2>2. Len(d) = n + v + k /\ Len(a) = n + k
    BY <1>1, <1>4, <2>1
  <2>3. \A j \in 1 .. n : d[j].kind # "added" /\ d[j].text = a[j]
    <3> TAKE j \in 1 .. n
    <3>1. CASE j =< p
      BY <1>1, <3>1
    <3>2. CASE ~(j =< p)
      <4>1. PICK i \in 1 .. u : j = p + i
        <5>1. j - p \in 1 .. u /\ j = p + (j - p)
          BY <2>1, <3>2
        <5> QED BY <5>1
      <4> QED BY <1>1, <4>1
    <3> QED BY <3>1, <3>2
  <2>4. \A j \in 1 .. v : d[n + j].kind = "added"
    BY <1>1, <2>1
  <2>5. \A j \in 1 .. k : d[n + v + j].kind # "added" /\ d[n + v + j].text = a[n + j]
    BY <1>1, <2>1
  <2>6. MiddleIs(d, a, "added", n, v, k)
    BY <2>2, <2>3, <2>4, <2>5 DEF MiddleIs
  <2> QED BY <1>1, <2>6, MiddleGoes
<1> QED BY <1>2, <1>3

LEMMA DiffShows ==
    ASSUME NEW S, NEW a \in Seq(S), NEW b \in Seq(S)
    PROVE  /\ Texts(Without(LineDiff(a, b), "removed")) = b
           /\ Texts(Without(LineDiff(a, b), "added")) = a
<1>1. PICK p, k : p = CommonPrefix(a, b) /\ k = CommonSuffix(a, b)
  OBVIOUS
<1>2. p \in Nat /\ \A j \in 1 .. p : a[j] = b[j]
  BY <1>1, CommonPrefixIs
<1>3. k \in Nat /\ p + k =< Len(a) /\ p + k =< Len(b) /\ \A j \in 1 .. k : a[Len(a) - k + j] = b[Len(b) - k + j]
  BY <1>1, CommonSuffixIs
<1>4. Len(a) \in Nat /\ Len(b) \in Nat
  OBVIOUS
<1>5. PICK u \in Nat, v \in Nat : Len(a) = p + u + k /\ Len(b) = p + v + k
  <2>1. /\ Len(a) - p - k \in Nat /\ Len(b) - p - k \in Nat
        /\ Len(a) = p + (Len(a) - p - k) + k /\ Len(b) = p + (Len(b) - p - k) + k
    BY <1>2, <1>3, <1>4
  <2> QED BY <2>1
<1>6. /\ Len(a) - k = p + u /\ Len(b) - k = p + v /\ Len(a) = (p + u) + k /\ 0 + p = p /\ 0 + 1 = 1
      /\ Len(a) - k + 1 = (p + u) + 1
  BY <1>2, <1>3, <1>5
<1>7. LineDiff(a, b) = DiffOf(a, b, p, u, v, k)
  BY <1>1, <1>6 DEF LineDiff, DiffOf, Lines
<1>8. \A j \in 1 .. k : a[p + u + j] = b[p + v + j]
  BY <1>3, <1>6
<1>9. Meets(a, b, p, u, v, k)
  BY <1>2, <1>5, <1>8 DEF Meets
<1> QED BY <1>2, <1>3, <1>5, <1>7, <1>9, DiffOfShows

-----------------------------------------------------------------------------
(* Notes: who changes a note but to delete it holds the lock, and who is to      *)
(* replace one holds it since he compared what he had read.                      *)

WordsOf(ask) == IF ask.does = "write" THEN ToSet(ask.blocks) ELSE {}
WordsIn(scene) == DOMAIN scene \cup UNION {WordsOf(scene[i]) : i \in DOMAIN scene}
FirstWords == UNION {ToSet(NotesAtFirst[s]) : s \in DOMAIN NotesAtFirst}
AskedWords == UNION {WordsIn(scene) : scene \in NoteScenes}
NoteWords == FirstWords \cup AskedWords
NoteTexts == Seq(NoteWords)
NotePlaces(does) ==
    IF does = "append" THEN {"lock", "size", "open", "append", "back", "end"}
    ELSE IF does = "write" THEN {"read", "lock", "check", "rename", "end"} ELSE {"delete", "end"}
NoteHeld == {"size", "open", "append", "back", "check", "rename"}
NoteRows == [file : Nat, blocks : NoteTexts]
IsNoteAsk(ask) ==
    /\ ask.does \in {"append", "write", "delete"} /\ ask.slug \in DOMAIN NotesAtFirst
    /\ ask.does = "write" => ask.reads \in BOOLEAN /\ ask.blocks \in NoteTexts
NoteFits(job) ==
    /\ DOMAIN job = {"ask", "seen", "disk", "file", "answer", "diff", "at"}
    /\ IsNoteAsk(job.ask) /\ job.at \in NotePlaces(job.ask.does) /\ job.seen \in NoteTexts
\* Who is refused for a stale hash has both texts, and their diff.
StaleKnows(job) ==
    job.answer = "stale" =>
        /\ job.at = "end" /\ job.ask.does = "write" /\ job.disk \in NoteTexts
        /\ job.diff = LineDiff(job.disk, job.seen \o job.ask.blocks)
\* Who is about to rename has read what is there, unless there is nothing.
RenameKnows(job, n) ==
    job.at = "rename" => n[job.ask.slug].blocks = <<>> \/ n[job.ask.slug].blocks = job.seen
NoteShape ==
    /\ note \in [DOMAIN NotesAtFirst -> NoteRows] /\ lastFile \in Nat
    /\ \A i \in DOMAIN noteJobs : i \in NoteWords /\ i # 0 /\ NoteFits(noteJobs[i]) /\ StaleKnows(noteJobs[i])
WritersHold ==
    \A i \in DOMAIN noteJobs : /\ noteJobs[i].at \in NoteHeld => folderLock = i
                               /\ RenameKnows(noteJobs[i], note)
NoteInv == NoteShape /\ WritersHold

\* What NoteAssumption says, in terms of one set of texts.
LEMMA TextsAreWords ==
    /\ \A s \in DOMAIN NotesAtFirst : NotesAtFirst[s] \in NoteTexts
    /\ \A scene \in NoteScenes : \A i \in DOMAIN scene : i \in NoteWords /\ i # 0 /\ IsNoteAsk(scene[i])
<1>1. ASSUME NEW W, W \subseteq NoteWords, NEW q \in Seq(W) PROVE q \in NoteTexts
  BY <1>1 DEF NoteTexts
<1>2. ASSUME NEW s \in DOMAIN NotesAtFirst PROVE NotesAtFirst[s] \in NoteTexts
  <2>1. NotesAtFirst[s] \in Seq(ToSet(NotesAtFirst[s]))
    BY NoteAssumption
  <2>2. ToSet(NotesAtFirst[s]) \subseteq NoteWords
    BY DEF NoteWords, FirstWords
  <2> QED BY <1>1, <2>1, <2>2
<1>3. ASSUME NEW scene \in NoteScenes, NEW i \in DOMAIN scene
      PROVE  i \in NoteWords /\ i # 0 /\ IsNoteAsk(scene[i])
  <2>1. /\ i \in Nat \ {0} /\ scene[i].does \in {"append", "write", "delete"}
        /\ scene[i].slug \in DOMAIN NotesAtFirst
        /\ scene[i].does = "write" => /\ scene[i].reads \in BOOLEAN
                                      /\ scene[i].blocks \in Seq(ToSet(scene[i].blocks))
    BY NoteAssumption
  <2>5. WordsIn(scene) \subseteq NoteWords
    <3>1. NoteWords = FirstWords \cup AskedWords
      BY DEF NoteWords
    <3>2. WordsIn(scene) \subseteq AskedWords
      <4> SUFFICES ASSUME NEW w \in WordsIn(scene) PROVE w \in UNION {WordsIn(other) : other \in NoteScenes}
        BY DEF AskedWords
      <4> HIDE DEF WordsIn
      <4> QED OBVIOUS
    <3> QED BY <3>1, <3>2
  <2>2. i \in NoteWords
    BY <2>5 DEF WordsIn
  <2>6. WordsOf(scene[i]) \subseteq NoteWords
    BY <2>5 DEF WordsIn
  <2>3. scene[i].does = "write" => ToSet(scene[i].blocks) \subseteq NoteWords
    BY <2>6 DEF WordsOf
  <2>4. scene[i].does = "write" => scene[i].blocks \in NoteTexts
    BY <1>1, <2>1, <2>3
  <2> QED BY <2>1, <2>2, <2>4 DEF IsNoteAsk
<1> QED BY <1>2, <1>3

\* The invariant holds at first.
LEMMA NoteStarts == NoteInit => NoteInv
<1> SUFFICES ASSUME NoteInit PROVE NoteInv
  OBVIOUS
<1>1. /\ note = [s \in DOMAIN NotesAtFirst |-> IF NotesAtFirst[s] = <<>> THEN Missing
                                               ELSE [file |-> 1, blocks |-> NotesAtFirst[s]]]
      /\ lastFile = 1
  BY DEF NoteInit
<1>2. note \in [DOMAIN NotesAtFirst -> NoteRows]
  <2>1. Missing \in NoteRows
    BY DEF Missing, NoteRows, NoteTexts
  <2> QED BY <1>1, <2>1, TextsAreWords DEF NoteRows
<1>3. PICK scene \in NoteScenes : noteJobs = [i \in DOMAIN scene |->
             [ask |-> scene[i], seen |-> <<>>, disk |-> <<>>, file |-> 0, answer |-> "none", diff |-> <<>>,
              at |-> IF scene[i].does = "write" /\ scene[i].reads THEN "read"
                     ELSE IF scene[i].does = "delete" THEN "delete" ELSE "lock"]]
  BY DEF NoteInit
<1>4. ASSUME NEW i \in DOMAIN noteJobs
      PROVE  /\ i \in NoteWords /\ i # 0 /\ NoteFits(noteJobs[i]) /\ StaleKnows(noteJobs[i])
             /\ noteJobs[i].at \notin NoteHeld /\ RenameKnows(noteJobs[i], note)
  <2>1. i \in DOMAIN scene /\ i \in NoteWords /\ i # 0 /\ IsNoteAsk(scene[i])
    BY <1>3, TextsAreWords
  <2>2. /\ DOMAIN noteJobs[i] = {"ask", "seen", "disk", "file", "answer", "diff", "at"}
        /\ noteJobs[i].ask = scene[i] /\ noteJobs[i].seen = <<>> /\ noteJobs[i].answer = "none"
        /\ noteJobs[i].at = IF scene[i].does = "write" /\ scene[i].reads THEN "read"
                            ELSE IF scene[i].does = "delete" THEN "delete" ELSE "lock"
    BY <1>3, <2>1
  <2>3. noteJobs[i].at \in NotePlaces(scene[i].does) /\ noteJobs[i].at \notin NoteHeld
    BY <2>1, <2>2 DEF NotePlaces, NoteHeld, IsNoteAsk
  <2>4. <<>> \in NoteTexts
    BY DEF NoteTexts
  <2>5. NoteFits(noteJobs[i])
    BY <2>1, <2>2, <2>3, <2>4 DEF NoteFits
  <2>6. noteJobs[i].at # "rename"
    BY <2>3 DEF NoteHeld
  <2> QED BY <2>1, <2>2, <2>3, <2>5, <2>6 DEF StaleKnows, RenameKnows
<1> QED BY <1>1, <1>2, <1>4 DEF NoteInv, NoteShape, WritersHold

\* A step moves one request: what it has to leave true of that request, and of
\* the note, for the others to stay as they are.
LEMMA NoteGoes ==
    ASSUME NoteInv, NEW i \in DOMAIN noteJobs, NEW job, NoteStep(i, job), NoteFits(job), StaleKnows(job),
           job.at \in NoteHeld => folderLock' = i, RenameKnows(job, note'),
           note' \in [DOMAIN NotesAtFirst -> NoteRows], lastFile' \in Nat,
           folderLock' = folderLock \/ folderLock \in {0, i},
           \A s \in DOMAIN NotesAtFirst : note'[s] = note[s] \/ note'[s].blocks = <<>> \/ folderLock = i
    PROVE  NoteInv'
<1>1. DOMAIN noteJobs' = DOMAIN noteJobs /\ noteJobs'[i] = job
      /\ \A k \in DOMAIN noteJobs : k # i => noteJobs'[k] = noteJobs[k]
  BY DEF NoteStep
<1>2. NoteShape'
  BY <1>1 DEF NoteInv, NoteShape
<1>3. ASSUME NEW k \in DOMAIN noteJobs
      PROVE  (noteJobs'[k].at \in NoteHeld => folderLock' = k) /\ RenameKnows(noteJobs'[k], note')
  <2>1. CASE k = i
    BY <1>1, <2>1
  <2>2. CASE k # i
    <3>1. PICK other : other = noteJobs[k]
      OBVIOUS
    <3>2. /\ noteJobs'[k] = other /\ k # 0 /\ (other.at \in NoteHeld => folderLock = k)
          /\ RenameKnows(other, note) /\ other.ask.slug \in DOMAIN NotesAtFirst
      BY <1>1, <2>2, <3>1 DEF NoteInv, NoteShape, WritersHold, NoteFits, IsNoteAsk
    <3>3. other.at \in NoteHeld => folderLock' = k /\ folderLock # i
      BY <2>2, <3>2
    <3>4. other.at = "rename" => other.at \in NoteHeld
      BY DEF NoteHeld
    <3>5. RenameKnows(other, note')
      BY <3>2, <3>3, <3>4 DEF RenameKnows
    <3> QED BY <3>2, <3>3, <3>5
  <2> QED BY <2>1, <2>2
<1>4. WritersHold'
  BY <1>1, <1>3 DEF WritersHold
<1> QED BY <1>2, <1>4 DEF NoteInv

\* What the invariant says of one request.
LEMMA NoteJobKnown ==
    ASSUME NoteInv, NEW i \in DOMAIN noteJobs
    PROVE  LET j == noteJobs[i]
           IN  /\ NoteFits(j) /\ StaleKnows(j) /\ RenameKnows(j, note) /\ (j.at \in NoteHeld => folderLock = i)
               /\ j.ask.slug \in DOMAIN NotesAtFirst /\ i \in NoteWords /\ lastFile \in Nat
               /\ note \in [DOMAIN NotesAtFirst -> NoteRows] /\ note[j.ask.slug] \in NoteRows
  BY DEF NoteInv, NoteShape, WritersHold, NoteFits, IsNoteAsk

\* A request that only moves on, or answers, knows no more and no less.
MovesOn(new, job, at) ==
    /\ DOMAIN new = DOMAIN job /\ new.ask = job.ask /\ new.at = at
    /\ new.answer = job.answer \/ new.answer # "stale"
    /\ new.seen = job.seen \/ new.seen \in NoteTexts
OnTheWay(job) == NoteFits(job) /\ StaleKnows(job) /\ job.at # "end"
Moved(new) == NoteFits(new) /\ StaleKnows(new)
LEMMA MovedFits ==
    ASSUME NEW job, NEW new, NEW at, OnTheWay(job), at \in NotePlaces(job.ask.does), MovesOn(new, job, at)
    PROVE  Moved(new)
<1>1. DOMAIN job = {"ask", "seen", "disk", "file", "answer", "diff", "at"} /\ job.answer # "stale"
  BY DEF OnTheWay, NoteFits, StaleKnows
<1>2. NoteFits(new)
  BY <1>1 DEF OnTheWay, MovesOn, NoteFits
<1>3. StaleKnows(new)
  BY <1>1 DEF MovesOn, StaleKnows
<1> QED BY <1>2, <1>3 DEF Moved

\* What a step that leaves the note leaves the others.
LEMMA NoteMoves ==
    ASSUME NoteInv, NEW i \in DOMAIN noteJobs, NEW job, NoteStep(i, job), NoteFits(job), StaleKnows(job),
           job.at # "rename", job.at \in NoteHeld => folderLock' = i,
           folderLock' = folderLock \/ folderLock \in {0, i}, UNCHANGED lastFile,
           UNCHANGED note \/ note' = [note EXCEPT ![noteJobs[i].ask.slug] = Missing]
    PROVE  NoteInv'
<1>1. note \in [DOMAIN NotesAtFirst -> NoteRows] /\ lastFile \in Nat /\ Missing \in NoteRows /\ Missing.blocks = <<>>
  BY NoteJobKnown DEF Missing, NoteRows, NoteTexts
<1>2. /\ note' \in [DOMAIN NotesAtFirst -> NoteRows]
      /\ \A s \in DOMAIN NotesAtFirst : note'[s] = note[s] \/ note'[s].blocks = <<>>
  BY <1>1
<1>3. RenameKnows(job, note')
  BY DEF RenameKnows
<1>4. lastFile' \in Nat
  BY <1>1
<1> QED BY <1>2, <1>3, <1>4, NoteGoes

\* read keeps the invariant.
LEMMA ReadNoteKeeps ==
    ASSUME NoteInv, NEW i \in DOMAIN noteJobs, ReadNote(i)
    PROVE  NoteInv'
<1>1. PICK job, slug : job = noteJobs[i] /\ slug = job.ask.slug
  OBVIOUS
<1>2. /\ NoteFits(job) /\ StaleKnows(job) /\ job.at = "read" /\ note[slug] \in NoteRows
      /\ UNCHANGED <<note, folderLock, lastFile>>
  BY <1>1, NoteJobKnown DEF ReadNote
<1>3. /\ job.ask.does = "write" /\ "end" \in NotePlaces(job.ask.does) /\ "lock" \in NotePlaces(job.ask.does)
      /\ "lock" \notin NoteHeld /\ "end" \notin NoteHeld
  BY <1>2 DEF NoteFits, IsNoteAsk, NotePlaces, NoteHeld
<1>4. OnTheWay(job)
  BY <1>2 DEF OnTheWay
<1>5. \/ NoteStep(i, [job EXCEPT !.at = "end", !.answer = "notFound"])
      \/ \E seen \in NoteTexts : NoteStep(i, [job EXCEPT !.at = "lock", !.seen = seen])
  BY <1>1, <1>2 DEF ReadNote, FileOf, SlugOf, NoteAsk, Answers, NoteRows
<1>6. PICK new : NoteStep(i, new) /\ NoteFits(new) /\ StaleKnows(new) /\ new.at \in {"end", "lock"}
  <2>1. CASE NoteStep(i, [job EXCEPT !.at = "end", !.answer = "notFound"])
    <3>1. PICK new : new = [job EXCEPT !.at = "end", !.answer = "notFound"]
      OBVIOUS
    <3>2. MovesOn(new, job, "end")
      BY <1>2, <3>1 DEF NoteFits, MovesOn
    <3>3. Moved(new)
      BY <1>3, <1>4, <3>2, MovedFits
    <3> QED BY <2>1, <3>1, <3>2, <3>3 DEF Moved, MovesOn
  <2>2. CASE \E seen \in NoteTexts : NoteStep(i, [job EXCEPT !.at = "lock", !.seen = seen])
    <3>1. PICK seen \in NoteTexts : NoteStep(i, [job EXCEPT !.at = "lock", !.seen = seen])
      BY <2>2
    <3>2. PICK new : new = [job EXCEPT !.at = "lock", !.seen = seen]
      OBVIOUS
    <3>3. MovesOn(new, job, "lock")
      BY <1>2, <3>2 DEF NoteFits, MovesOn
    <3>4. Moved(new)
      BY <1>3, <1>4, <3>3, MovedFits
    <3> QED BY <3>1, <3>2, <3>3, <3>4 DEF Moved, MovesOn
  <2> QED BY <1>5, <2>1, <2>2
<1> QED BY <1>2, <1>3, <1>6, NoteMoves

\* The steps of an append, of who is refused, and of a deletion.
LEMMA AnswersKeep ==
    ASSUME NoteInv, NEW i \in DOMAIN noteJobs, noteJobs[i].at # "end", NEW answer, answer # "stale",
           Answers(i, answer), UNCHANGED lastFile, folderLock' = folderLock \/ folderLock \in {0, i},
           UNCHANGED note \/ note' = [note EXCEPT ![noteJobs[i].ask.slug] = Missing]
    PROVE  NoteInv'
<1>1. PICK job : job = noteJobs[i]
  OBVIOUS
<1>2. NoteFits(job) /\ StaleKnows(job) /\ job.at # "end"
  BY <1>1, NoteJobKnown
<1>3. "end" \in NotePlaces(job.ask.does) /\ "end" \notin NoteHeld
  BY <1>2 DEF NoteFits, IsNoteAsk, NotePlaces, NoteHeld
<1>4. PICK new : new = [job EXCEPT !.at = "end", !.answer = answer]
  OBVIOUS
<1>5. NoteFits(new) /\ StaleKnows(new) /\ new.at = "end"
  <2>1. MovesOn(new, job, "end")
    BY <1>2, <1>4 DEF NoteFits, MovesOn
  <2>2. OnTheWay(job)
    BY <1>2 DEF OnTheWay
  <2>3. Moved(new)
    BY <1>3, <2>1, <2>2, MovedFits
  <2> QED BY <2>1, <2>3 DEF MovesOn, Moved
<1>6. NoteStep(i, new)
  BY <1>1, <1>4 DEF Answers
<1> QED BY <1>3, <1>5, <1>6, NoteMoves

LEMMA StepsOnKeep ==
    ASSUME NoteInv, NEW i \in DOMAIN noteJobs, noteJobs[i].at # "end", NEW at, at \in NotePlaces(noteJobs[i].ask.does),
           at # "rename", NoteAt(i, at) \/ \E file : NoteStep(i, [noteJobs[i] EXCEPT !.at = at, !.file = file]),
           UNCHANGED <<note, lastFile>>, folderLock' = folderLock \/ folderLock \in {0, i},
           at \in NoteHeld => folderLock' = i
    PROVE  NoteInv'
<1>1. PICK job : job = noteJobs[i]
  OBVIOUS
<1>2. NoteFits(job) /\ StaleKnows(job) /\ job.at # "end" /\ at \in NotePlaces(job.ask.does)
  BY <1>1, NoteJobKnown
<1>3. PICK new : /\ NoteStep(i, new)
                 /\ new = [job EXCEPT !.at = at] \/ \E file : new = [job EXCEPT !.at = at, !.file = file]
  BY <1>1 DEF NoteAt
<1>4. NoteFits(new) /\ StaleKnows(new) /\ new.at = at
  <2>1. MovesOn(new, job, at)
    BY <1>2, <1>3 DEF NoteFits, MovesOn
  <2>2. OnTheWay(job)
    BY <1>2 DEF OnTheWay
  <2>3. Moved(new)
    BY <1>2, <2>1, <2>2, MovedFits
  <2> QED BY <2>1, <2>3 DEF MovesOn, Moved
<1> QED BY <1>3, <1>4, NoteMoves

\* The other steps keep it: none of them changes a note but to delete it.
LEMMA AppendsKeep ==
    ASSUME NoteInv, NEW i \in DOMAIN noteJobs,
           \/ TakeLock(i) \/ AppendSize(i) \/ AppendOpen(i) \/ AppendBack(i) \/ DeleteNote(i)
    PROVE  NoteInv'
<1>1. PICK job : job = noteJobs[i]
  OBVIOUS
<1>2. NoteFits(job) /\ (job.at \in NoteHeld => folderLock = i) /\ IsNoteAsk(job.ask)
  BY <1>1, NoteJobKnown DEF NoteFits
<1>3. CASE TakeLock(i)
  <2>1. /\ job.at = "lock" /\ folderLock = 0 /\ folderLock' = i /\ UNCHANGED <<note, lastFile>>
        /\ NoteAt(i, IF job.ask.does = "append" THEN "size" ELSE "check")
    BY <1>1, <1>3 DEF TakeLock, TakesLock, NoteAsk
  <2>2. PICK at : at = IF job.ask.does = "append" THEN "size" ELSE "check"
    OBVIOUS
  <2>3. at \in NotePlaces(job.ask.does) /\ at # "rename"
    BY <1>2, <2>1, <2>2 DEF NoteFits, IsNoteAsk, NotePlaces
  <2> QED BY <1>1, <2>1, <2>2, <2>3, StepsOnKeep
<1>4. CASE AppendSize(i)
  <2>1. /\ job.at = "size" /\ UNCHANGED <<note, lastFile>>
        /\ \/ \E answer \in {"notFound", "tooLarge"} : Unlocks(i, answer)
           \/ NoteAt(i, "open") /\ UNCHANGED folderLock
    BY <1>1, <1>4 DEF AppendSize
  <2>2. "open" \in NotePlaces(job.ask.does) /\ folderLock = i
    BY <1>2, <2>1 DEF NoteFits, IsNoteAsk, NotePlaces, NoteHeld
  <2>3. CASE \E answer \in {"notFound", "tooLarge"} : Unlocks(i, answer)
    BY <1>1, <2>1, <2>2, <2>3, AnswersKeep DEF Unlocks
  <2>4. CASE NoteAt(i, "open") /\ UNCHANGED folderLock
    BY <1>1, <2>1, <2>2, <2>4, StepsOnKeep
  <2> QED BY <2>1, <2>3, <2>4
<1>5. CASE AppendOpen(i)
  <2>1. /\ job.at = "open" /\ UNCHANGED <<note, lastFile>>
        /\ \/ Unlocks(i, "io")
           \/ /\ UNCHANGED folderLock
              /\ \E file : NoteStep(i, [noteJobs[i] EXCEPT !.at = "append", !.file = file])
    BY <1>1, <1>5 DEF AppendOpen
  <2>2. "append" \in NotePlaces(job.ask.does) /\ folderLock = i
    BY <1>2, <2>1 DEF NoteFits, IsNoteAsk, NotePlaces, NoteHeld
  <2>3. CASE Unlocks(i, "io")
    BY <1>1, <2>1, <2>2, <2>3, AnswersKeep DEF Unlocks
  <2>4. CASE UNCHANGED folderLock /\ \E file : NoteStep(i, [noteJobs[i] EXCEPT !.at = "append", !.file = file])
    BY <1>1, <2>1, <2>2, <2>4, StepsOnKeep
  <2> QED BY <2>1, <2>3, <2>4
<1>6. CASE AppendBack(i)
  <2>1. /\ job.at = "back" /\ UNCHANGED <<note, lastFile>> /\ \E answer \in {"notFound", "done"} : Unlocks(i, answer)
    BY <1>1, <1>6 DEF AppendBack
  <2>2. folderLock = i
    BY <1>2, <2>1 DEF NoteHeld
  <2> QED BY <1>1, <2>1, <2>2, AnswersKeep DEF Unlocks
<1>7. CASE DeleteNote(i)
  <2>1. /\ job.at = "delete" /\ UNCHANGED <<folderLock, lastFile>> /\ \E answer \in {"notFound", "done"} : Answers(i, answer)
        /\ note' = [note EXCEPT ![noteJobs[i].ask.slug] = Missing]
    BY <1>1, <1>7 DEF DeleteNote, SlugOf, NoteAsk
  <2> QED BY <1>1, <2>1, AnswersKeep
<1> QED BY <1>3, <1>4, <1>5, <1>6, <1>7

\* A block goes to the end of the file it was opened for.
LEMMA AppendWriteKeeps ==
    ASSUME NoteInv, NEW i \in DOMAIN noteJobs, AppendWrite(i)
    PROVE  NoteInv'
<1>1. PICK job, slug : job = noteJobs[i] /\ slug = job.ask.slug
  OBVIOUS
<1>2. /\ NoteFits(job) /\ StaleKnows(job) /\ job.at = "append" /\ folderLock = i /\ folderLock' = i /\ lastFile' \in Nat
      /\ slug \in DOMAIN NotesAtFirst /\ note \in [DOMAIN NotesAtFirst -> NoteRows] /\ i \in NoteWords
      /\ NoteStep(i, [job EXCEPT !.at = "back"])
      /\ \/ UNCHANGED note
         \/ note' = [note EXCEPT ![slug].blocks = Append(@, i)]
  BY <1>1, NoteJobKnown DEF AppendWrite, NoteAt, SlugOf, NoteAsk, NoteHeld
<1>3. PICK new : new = [job EXCEPT !.at = "back"]
  OBVIOUS
<1>4. NoteFits(new) /\ StaleKnows(new) /\ new.at = "back"
  <2>1. "back" \in NotePlaces(job.ask.does)
    BY <1>2 DEF NoteFits, IsNoteAsk, NotePlaces
  <2>2. MovesOn(new, job, "back")
    BY <1>2, <1>3 DEF NoteFits, MovesOn
  <2>3. OnTheWay(job)
    BY <1>2 DEF OnTheWay
  <2>4. Moved(new)
    BY <2>1, <2>2, <2>3, MovedFits
  <2> QED BY <2>2, <2>4 DEF MovesOn, Moved
<1>5. note' \in [DOMAIN NotesAtFirst -> NoteRows]
  <2>1. CASE UNCHANGED note
    BY <1>2, <2>1
  <2>2. CASE note' = [note EXCEPT ![slug].blocks = Append(@, i)]
    <3>1. PICK row : row = note[slug]
      OBVIOUS
    <3>2. row.file \in Nat /\ row.blocks \in NoteTexts /\ DOMAIN row = {"file", "blocks"}
      BY <1>2, <3>1 DEF NoteRows
    <3>3. Append(row.blocks, i) \in NoteTexts
      BY <1>2, <3>2 DEF NoteTexts
    <3>4. [row EXCEPT !.blocks = Append(row.blocks, i)] \in NoteRows
      BY <1>2, <3>1, <3>2, <3>3 DEF NoteRows
    <3>5. note' = [note EXCEPT ![slug] = [row EXCEPT !.blocks = Append(row.blocks, i)]]
      BY <2>2, <3>1
    <3> QED BY <1>2, <3>4, <3>5
  <2> QED BY <1>2, <2>1, <2>2
<1>6. RenameKnows(new, note')
  BY <1>4 DEF RenameKnows
<1>7. "back" \in NoteHeld
  BY DEF NoteHeld
<1> QED BY <1>2, <1>3, <1>4, <1>5, <1>6, <1>7, NoteGoes

\* A write replaces what it was checked against.
LEMMA WriteRenameKeeps ==
    ASSUME NoteInv, NEW i \in DOMAIN noteJobs, WriteRename(i)
    PROVE  NoteInv'
<1>1. PICK job, slug : job = noteJobs[i] /\ slug = job.ask.slug
  OBVIOUS
<1>2. /\ NoteFits(job) /\ StaleKnows(job) /\ job.at = "rename" /\ folderLock = i /\ lastFile' \in Nat
      /\ slug \in DOMAIN NotesAtFirst /\ note \in [DOMAIN NotesAtFirst -> NoteRows]
      /\ \E answer \in {"io", "done"} : NoteStep(i, [job EXCEPT !.at = "end", !.answer = answer])
      /\ \/ UNCHANGED note
         \/ note' = [note EXCEPT ![slug] = [file |-> lastFile', blocks |-> job.seen \o job.ask.blocks]]
  BY <1>1, NoteJobKnown DEF WriteRename, Unlocks, Answers, SlugOf, NoteAsk, NoteHeld, Content
<1>3. PICK answer \in {"io", "done"} : NoteStep(i, [job EXCEPT !.at = "end", !.answer = answer])
  BY <1>2
<1>4. PICK new : new = [job EXCEPT !.at = "end", !.answer = answer]
  OBVIOUS
<1>5. NoteFits(new) /\ StaleKnows(new) /\ new.at = "end"
  <2>1. "end" \in NotePlaces(job.ask.does)
    BY <1>2 DEF NoteFits, IsNoteAsk, NotePlaces
  <2>2. MovesOn(new, job, "end")
    BY <1>2, <1>4 DEF NoteFits, MovesOn
  <2>3. OnTheWay(job)
    BY <1>2 DEF OnTheWay
  <2>4. Moved(new)
    BY <2>1, <2>2, <2>3, MovedFits
  <2> QED BY <2>2, <2>4 DEF MovesOn, Moved
<1>6. job.seen \o job.ask.blocks \in NoteTexts
  <2>1. job.seen \in NoteTexts /\ job.ask.blocks \in NoteTexts
    BY <1>2 DEF NoteFits, IsNoteAsk, NotePlaces
  <2> QED BY <2>1 DEF NoteTexts
<1>7. note' \in [DOMAIN NotesAtFirst -> NoteRows]
  <2>1. [file |-> lastFile', blocks |-> job.seen \o job.ask.blocks] \in NoteRows
    BY <1>2, <1>6 DEF NoteRows
  <2> QED BY <1>2, <2>1
<1>8. RenameKnows(new, note') /\ new.at \notin NoteHeld
  BY <1>5 DEF RenameKnows, NoteHeld
<1> QED BY <1>2, <1>3, <1>4, <1>5, <1>7, <1>8, NoteGoes

\* The check of a write: refused, shown both texts, or about to rename.
LEMMA WriteCheckKeeps ==
    ASSUME NoteInv, NEW i \in DOMAIN noteJobs, WriteCheck(i)
    PROVE  NoteInv'
<1>1. PICK job, now : job = noteJobs[i] /\ now = note[job.ask.slug]
  OBVIOUS
<1>2. /\ NoteFits(job) /\ StaleKnows(job) /\ job.at = "check" /\ folderLock = i /\ UNCHANGED <<note, lastFile>>
      /\ now \in NoteRows /\ lastFile \in Nat /\ note \in [DOMAIN NotesAtFirst -> NoteRows]
  BY <1>1, NoteJobKnown DEF WriteCheck, NoteHeld
<1>3. \/ \E answer \in {"tooLarge", "hashRequired", "notFound", "tooMany"} : Unlocks(i, answer)
      \/ /\ folderLock' = 0
         /\ NoteStep(i, [job EXCEPT !.at = "end", !.answer = "stale", !.disk = now.blocks,
                                    !.diff = LineDiff(now.blocks, job.seen \o job.ask.blocks)])
      \/ /\ NoteAt(i, "rename") /\ UNCHANGED folderLock
         /\ now = Missing \/ now.blocks = job.seen
  BY <1>1, <1>2 DEF WriteCheck, FileOf, SlugOf, NoteAsk, Content
<1>4. /\ job.ask.does = "write" /\ "rename" \in NotePlaces(job.ask.does) /\ "end" \in NotePlaces(job.ask.does)
      /\ "end" \notin NoteHeld /\ job.ask.slug \in DOMAIN NotesAtFirst
  BY <1>2 DEF NoteFits, IsNoteAsk, NotePlaces, NoteHeld
<1>5. CASE \E answer \in {"tooLarge", "hashRequired", "notFound", "tooMany"} : Unlocks(i, answer)
  BY <1>1, <1>2, <1>5, AnswersKeep DEF Unlocks
<1>6. CASE /\ folderLock' = 0
           /\ NoteStep(i, [job EXCEPT !.at = "end", !.answer = "stale", !.disk = now.blocks,
                                      !.diff = LineDiff(now.blocks, job.seen \o job.ask.blocks)])
  <2>1. PICK diff : diff = LineDiff(now.blocks, job.seen \o job.ask.blocks)
    OBVIOUS
  <2>2. PICK new : new = [job EXCEPT !.at = "end", !.answer = "stale", !.disk = now.blocks, !.diff = diff]
    OBVIOUS
  <2>3. DOMAIN job = {"ask", "seen", "disk", "file", "answer", "diff", "at"}
    BY <1>2 DEF NoteFits
  <2>4. /\ DOMAIN new = DOMAIN job /\ new.ask = job.ask /\ new.seen = job.seen /\ new.at = "end"
        /\ new.disk = now.blocks /\ new.diff = diff
    BY <2>2, <2>3
  <2>5. now.blocks \in NoteTexts
    BY <1>2 DEF NoteRows
  <2>6. NoteFits(new)
    BY <1>2, <1>4, <2>4 DEF NoteFits
  <2>7. StaleKnows(new)
    BY <1>4, <2>1, <2>4, <2>5 DEF StaleKnows
  <2> QED BY <1>2, <1>4, <1>6, <2>1, <2>2, <2>4, <2>6, <2>7, NoteMoves
<1>7. CASE NoteAt(i, "rename") /\ UNCHANGED folderLock /\ (now = Missing \/ now.blocks = job.seen)
  <2>1. PICK new : new = [job EXCEPT !.at = "rename"]
    OBVIOUS
  <2>2. NoteFits(new) /\ StaleKnows(new) /\ new.at = "rename" /\ new.ask = job.ask
    <3>1. MovesOn(new, job, "rename")
      BY <1>2, <2>1 DEF NoteFits, MovesOn
    <3>2. OnTheWay(job)
      BY <1>2 DEF OnTheWay
    <3>3. Moved(new)
      BY <1>4, <3>1, <3>2, MovedFits
    <3> QED BY <3>1, <3>3 DEF MovesOn, Moved
  <2>3. new.seen = job.seen
    BY <2>1
  <2>4. RenameKnows(new, note)
    BY <1>1, <1>7, <2>2, <2>3 DEF RenameKnows, Missing
  <2>5. NoteStep(i, new) /\ RenameKnows(new, note')
    BY <1>1, <1>2, <1>7, <2>1, <2>4 DEF NoteAt
  <2> QED BY <1>2, <1>7, <2>2, <2>5, NoteGoes
<1> QED BY <1>3, <1>5, <1>6, <1>7

\* Every step of the notes.
LEMMA NoteStepKeeps == NoteInv /\ [NoteNext]_noteVars => NoteInv'
<1> SUFFICES ASSUME NoteInv, [NoteNext]_noteVars PROVE NoteInv'
  OBVIOUS
<1>1. CASE UNCHANGED noteVars
  BY <1>1 DEF noteVars, NoteInv, NoteShape, WritersHold
<1>2. CASE NoteNext
  <2>1. PICK i \in DOMAIN noteJobs :
            \/ ReadNote(i) \/ TakeLock(i) \/ AppendSize(i) \/ AppendOpen(i) \/ AppendWrite(i) \/ AppendBack(i)
            \/ WriteCheck(i) \/ WriteRename(i) \/ DeleteNote(i)
    BY <1>2 DEF NoteNext
  <2>2. CASE ReadNote(i)
    BY <2>2, ReadNoteKeeps
  <2>3. CASE TakeLock(i) \/ AppendSize(i) \/ AppendOpen(i) \/ AppendBack(i) \/ DeleteNote(i)
    BY <2>3, AppendsKeep
  <2>4. CASE AppendWrite(i)
    BY <2>4, AppendWriteKeeps
  <2>5. CASE WriteCheck(i)
    BY <2>5, WriteCheckKeeps
  <2>6. CASE WriteRename(i)
    BY <2>6, WriteRenameKeeps
  <2> QED BY <2>1, <2>2, <2>3, <2>4, <2>5, <2>6
<1> QED BY <1>1, <1>2

\* Of a diff of line_diff, both texts can be read (DiffShows).
LEMMA StaleIsShown == NoteInv => StaleShowsBoth
<1> SUFFICES ASSUME NoteInv PROVE StaleShowsBoth
  OBVIOUS
<1>1. ASSUME NEW i \in DOMAIN noteJobs, noteJobs[i].answer = "stale"
      PROVE  /\ Texts(Without(noteJobs[i].diff, "removed")) = Content(i)
             /\ Texts(Without(noteJobs[i].diff, "added")) = noteJobs[i].disk
  <2>1. PICK job, disk, mine : /\ job = noteJobs[i] /\ disk = job.disk
                               /\ mine = job.seen \o job.ask.blocks
    OBVIOUS
  <2>2. /\ disk \in NoteTexts /\ job.diff = LineDiff(disk, mine) /\ job.seen \in NoteTexts
        /\ job.ask.blocks \in NoteTexts /\ mine = Content(i)
    BY <1>1, <2>1, NoteJobKnown DEF NoteFits, StaleKnows, IsNoteAsk, Content, NoteAsk
  <2>3. mine \in NoteTexts
    <3>1. job.seen \o job.ask.blocks \in NoteTexts
      <4>1. job.seen \in NoteTexts /\ job.ask.blocks \in NoteTexts
        BY <2>2
      <4> QED BY <4>1 DEF NoteTexts
    <3> QED BY <2>1, <3>1
  <2>4. /\ Texts(Without(LineDiff(disk, mine), "removed")) = mine
        /\ Texts(Without(LineDiff(disk, mine), "added")) = disk
    BY <2>2, <2>3, DiffShows DEF NoteTexts
  <2> QED BY <2>1, <2>2, <2>4
<1> QED BY <1>1, ZenonT(60) DEF StaleShowsBoth, Texts, Without

\* The blocks that a step takes out of a note.
LEMMA NoneUnseenGoes == NoteInv /\ NoteNext => NothingUnseenIsReplaced
<1> SUFFICES ASSUME NoteInv, NoteNext, NEW s \in DOMAIN note,
                    NEW lost, lost = ToSet(note[s].blocks) \ ToSet(note'[s].blocks), lost # {}
             PROVE  \E i \in DOMAIN noteJobs :
                      /\ SlugOf(i) = s /\ noteJobs'[i].at = "end" /\ noteJobs[i].at \in {"rename", "delete"}
                      /\ noteJobs[i].at = "rename" => lost \subseteq ToSet(noteJobs[i].seen)
  BY DEF NothingUnseenIsReplaced
<1>1. PICK i \in DOMAIN noteJobs :
            \/ ReadNote(i) \/ TakeLock(i) \/ AppendSize(i) \/ AppendOpen(i) \/ AppendWrite(i) \/ AppendBack(i)
            \/ WriteCheck(i) \/ WriteRename(i) \/ DeleteNote(i)
  BY DEF NoteNext
<1>2. note'[s] # note[s]
  OBVIOUS
<1>3. PICK job, slug : job = noteJobs[i] /\ slug = job.ask.slug
  OBVIOUS
<1>4. /\ NoteFits(job) /\ RenameKnows(job, note) /\ note \in [DOMAIN NotesAtFirst -> NoteRows]
      /\ slug \in DOMAIN NotesAtFirst /\ SlugOf(i) = slug
  BY <1>3, NoteJobKnown DEF SlugOf, NoteAsk
<1>5. ~(ReadNote(i) \/ TakeLock(i) \/ AppendSize(i) \/ AppendOpen(i) \/ AppendBack(i) \/ WriteCheck(i))
  BY <1>2 DEF ReadNote, TakeLock, AppendSize, AppendOpen, AppendBack, WriteCheck
<1>6. DOMAIN job = {"ask", "seen", "disk", "file", "answer", "diff", "at"}
  BY <1>4 DEF NoteFits
<1>7. ~AppendWrite(i)
  <2> SUFFICES ASSUME AppendWrite(i) PROVE FALSE
    OBVIOUS
  <2>1. note' = [note EXCEPT ![slug].blocks = Append(@, i)] /\ s = slug
    BY <1>2, <1>3, <1>4 DEF AppendWrite
  <2>2. note[s].blocks \in NoteTexts /\ note'[s].blocks = Append(note[s].blocks, i)
    BY <1>4, <2>1 DEF NoteRows
  <2>3. ASSUME NEW q \in NoteTexts PROVE ToSet(q) \subseteq ToSet(Append(q, i))
    BY <2>3 DEF NoteTexts, ToSet
  <2> QED BY <2>2, <2>3
<1>8. CASE WriteRename(i)
  <2>1. job.at = "rename" /\ s = slug /\ noteJobs'[i].at = "end"
    BY <1>2, <1>3, <1>4, <1>6, <1>8 DEF WriteRename, Unlocks, Answers, NoteStep
  <2>2. note[s].blocks = <<>> \/ note[s].blocks = job.seen
    BY <1>3, <1>4, <2>1 DEF RenameKnows
  <2>3. lost \subseteq ToSet(job.seen)
    BY <2>2 DEF ToSet
  <2> QED BY <1>3, <1>4, <2>1, <2>3
<1>9. CASE DeleteNote(i)
  <2>1. job.at = "delete" /\ s = slug /\ noteJobs'[i].at = "end"
    BY <1>2, <1>3, <1>4, <1>6, <1>9 DEF DeleteNote, Answers, NoteStep
  <2> QED BY <1>3, <1>4, <2>1
<1> QED BY <1>1, <1>5, <1>7, <1>8, <1>9

\* No text is lost in silence, neither on the disk under a write nor in the
\* answer to a refused writer (write, append, delete and line_diff of notes.rs),
\* for any number of requests about any notes.
THEOREM NotesKeepTextsHolds == NoteSpec => NotesKeepTexts
<1>1. NoteInv /\ NoteInv' /\ [NoteNext]_noteVars => [NothingUnseenIsReplaced /\ StaleShowsBoth']_noteVars
  <2> SUFFICES ASSUME NoteInv, NoteInv', NoteNext PROVE NothingUnseenIsReplaced /\ StaleShowsBoth'
    OBVIOUS
  <2>1. NothingUnseenIsReplaced
    BY NoneUnseenGoes
  <2>2. StaleShowsBoth'
    BY StaleIsShown, PTL
  <2> QED BY <2>1, <2>2
<1> QED BY <1>1, NoteStarts, NoteStepKeeps, PTL DEF NoteSpec, NotesKeepTexts
=============================================================================
