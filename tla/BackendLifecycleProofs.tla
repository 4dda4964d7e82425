------------------------ MODULE BackendLifecycleProofs ------------------------
(***************************************************************************)
(* Theorems about BackendLifecycle, for every set of backend processes, of *)
(* frontends and of builds.                                                *)
(***************************************************************************)
EXTENDS BackendLifecycle, FiniteSetTheorems, TLAPS

-----------------------------------------------------------------------------
(* The invariant *)

(* The goroutine that closes the listener runs exactly in the process that *)
(* listens.                                                                *)
ServersInOrder ==
  \A s \in Servers :
    /\ server[s].unlisten <=> port = s
    /\ server[s].unlisten => server[s].pc \in {"accept", "wait"}
    /\ server[s].pc = "exited" => server[s].wg = 0

(* A connection has a goroutine once it was made, to a process that        *)
(* accepted connections by then; it is queued only while that process      *)
(* listens, and past the handshake only if the builds agree.               *)
ConnectionsInOrder ==
  \A f \in Frontends :
    /\ frontend[f].server = Nobody <=> handler[f] = "none"
    /\ frontend[f].pc \in {"idle", "retry"} => handler[f] = "none"
    /\ handler[f] # "none" => server[frontend[f].server].pc \in {"accept", "wait", "exited"}
    /\ handler[f] = "queued" => port = frontend[f].server
    /\ f \in closer => handler[f] \notin {"none", "queued", "accepted"}
    /\ handler[f] \in {"receive", "execute"} =>
         Build[f] = server[frontend[f].server].build

HandlerState == {"none", "queued", "accepted", "handshake", "receive", "execute", "returned"}

Handled == {"accepted", "handshake", "receive", "execute"}

Handling(s) == {f \in Connections(s) : handler[f] \in Handled}

Closing(s) == {f \in Connections(s) : f \in closer}

One(running) == IF running THEN 1 ELSE 0

Own(x) == One(x.trim) + One(x.cleanup) + One(x.unlisten)

(* The wait group of a process counts its goroutines: its own three, and   *)
(* those that handle and that close its connections.                       *)
Counted(s) ==
  /\ IsFiniteSet(Handling(s))
  /\ IsFiniteSet(Closing(s))
  /\ server[s].wg = Own(server[s]) + Cardinality(Handling(s)) + Cardinality(Closing(s))

GoroutinesCounted == \A s \in Servers : Counted(s)

LifeInv ==
  /\ TypeOK
  /\ ServersInOrder
  /\ ConnectionsInOrder
  /\ GoroutinesCounted

LEMMA DefaultType == Default \in Builds
BY BuildsAssumption DEF Default

LEMMA ProcessType ==
  ASSUME NEW pc \in {"none", "wipe", "create", "listen", "accept", "wait", "exited", "dead"},
         NEW b \in Builds
  PROVE  Process(pc, b) \in Server
BY DEF Process, Server

LEMMA InitLifeInv == Init => LifeInv
<1>. SUFFICES ASSUME Init PROVE LifeInv
  OBVIOUS
<1>1. server \in [Servers -> Server]
  BY ProcessType, DefaultType DEF Init
<1>2. frontend \in [Frontends -> Frontend]
  <2>1. <<>> \in Seq({"handshake", "request"})
    OBVIOUS
  <2>. QED  BY <2>1 DEF Init, Frontend
<1>3. TypeOK
  BY <1>1, <1>2 DEF Init, TypeOK
<1>4. \A s \in Servers : /\ server[s].pc = "none" /\ server[s].wg = 0
                         /\ ~server[s].trim /\ ~server[s].cleanup /\ ~server[s].unlisten
  BY DEF Init, Process
<1>5. ServersInOrder
  BY <1>4, NobodyAssumption DEF Init, ServersInOrder
<1>6. ConnectionsInOrder
  BY DEF Init, ConnectionsInOrder
<1>7. ASSUME NEW s \in Servers PROVE Counted(s)
  <2>1. Handling(s) = {} /\ Closing(s) = {}
    BY DEF Init, Handling, Closing, Handled, Connections
  <2>. QED  BY <1>4, <2>1, FS_EmptySet DEF Counted, Own, One
<1>. QED  BY <1>3, <1>5, <1>6, <1>7 DEF LifeInv, GoroutinesCounted

-----------------------------------------------------------------------------
(* Counting *)

LEMMA OneMore ==
  ASSUME NEW S, IsFiniteSet(S), NEW x, x \notin S
  PROVE  IsFiniteSet(S \union {x}) /\ Cardinality(S \union {x}) = Cardinality(S) + 1
BY FS_AddElement

LEMMA OneLess ==
  ASSUME NEW S, IsFiniteSet(S), NEW x, x \in S
  PROVE  /\ IsFiniteSet(S \ {x})
         /\ Cardinality(S) = Cardinality(S \ {x}) + 1
<1>1. /\ IsFiniteSet(S \ {x}) /\ x \notin S \ {x}
      /\ S = (S \ {x}) \union {x}
  BY FS_RemoveElement
<1>. QED  BY <1>1, OneMore

LEMMA CountType ==
  ASSUME NEW s \in Servers, Counted(s)
  PROVE  Cardinality(Handling(s)) \in Nat /\ Cardinality(Closing(s)) \in Nat
BY FS_CardinalityType DEF Counted

(* Goroutines that are left alone are counted as before. *)
LEMMA SameCount ==
  ASSUME NEW s \in Servers, Counted(s),
         Handling(s)' = Handling(s), Closing(s)' = Closing(s),
         server'[s] = server[s]
  PROVE  Counted(s)'
BY DEF Counted

(* While a goroutine runs, the counter of its process is positive. *)
LEMMA Positive ==
  ASSUME NEW s \in Servers, Counted(s),
         \/ server[s].trim \/ server[s].cleanup \/ server[s].unlisten
         \/ Handling(s) # {} \/ Closing(s) # {}
  PROVE  server[s].wg \in Nat \ {0}
<1>1. Cardinality(Handling(s)) \in Nat /\ Cardinality(Closing(s)) \in Nat
  BY CountType
<1>2. /\ Handling(s) # {} => Cardinality(Handling(s)) # 0
      /\ Closing(s) # {} => Cardinality(Closing(s)) # 0
  BY FS_EmptySet DEF Counted
<1>3. /\ One(server[s].trim) \in Nat /\ One(server[s].cleanup) \in Nat
      /\ One(server[s].unlisten) \in Nat
      /\ server[s].trim => One(server[s].trim) # 0
      /\ server[s].cleanup => One(server[s].cleanup) # 0
      /\ server[s].unlisten => One(server[s].unlisten) # 0
  BY DEF One
<1>4. server[s].wg = One(server[s].trim) + One(server[s].cleanup) + One(server[s].unlisten)
                       + Cardinality(Handling(s)) + Cardinality(Closing(s))
  BY DEF Counted, Own
<1>. QED  BY <1>1, <1>2, <1>3, <1>4

LEMMA OwnType ==
  ASSUME NEW x
  PROVE  Own(x) \in Nat
BY DEF Own, One

-----------------------------------------------------------------------------
(* The steps of a backend process *)

(* The process itself has as many goroutines more as its counter. *)
LEMMA Recounted ==
  ASSUME NEW s \in Servers, server[s] \in Server, Counted(s), NEW x \in Server,
         x.wg + Own(server[s]) = server[s].wg + Own(x)
  PROVE  x.wg = Own(x) + Cardinality(Handling(s)) + Cardinality(Closing(s))
<1>1. /\ Own(x) \in Nat /\ Own(server[s]) \in Nat
      /\ x.wg \in Nat /\ server[s].wg \in Nat
      /\ Cardinality(Handling(s)) \in Nat /\ Cardinality(Closing(s)) \in Nat
  BY OwnType, CountType DEF Server
<1>2. server[s].wg = Own(server[s]) + Cardinality(Handling(s)) + Cardinality(Closing(s))
  BY DEF Counted
<1>. QED  BY <1>1, <1>2

(* No connection was made to a process before it accepts any. *)
LEMMA NoConnections ==
  ASSUME LifeInv, NEW s \in Servers, server[s].pc \in {"none", "wipe", "create", "listen", "dead"}
  PROVE  Connections(s) = {}
BY NobodyAssumption DEF LifeInv, ConnectionsInOrder, Connections

(* A step of process s, to the state x, that may reset the connections     *)
(* that wait to be accepted.                                               *)
LEMMA ServerMoves ==
  ASSUME LifeInv, NEW s \in Servers, NEW x \in Server,
         server' = [server EXCEPT ![s] = x],
         port' \in Servers \union {Nobody}, files' \subseteq Servers,
         \A f \in Frontends : frontend'[f].server = frontend[f].server,
         \A f \in Frontends : frontend'[f].pc \in {"idle", "retry"} =>
                               frontend[f].pc \in {"idle", "retry"},
         frontend' \in [Frontends -> Frontend],
         handler' \in [Frontends -> HandlerState], closer' = closer,
         \A f \in Frontends : handler'[f] # handler[f] =>
                               handler[f] = "queued" /\ handler'[f] = "returned",
         \A f \in Frontends : handler'[f] = "queued" => port' = frontend[f].server,
         x.unlisten <=> port' = s,
         \A t \in Servers \ {s} : port' = t <=> port = t,
         x.unlisten => x.pc \in {"accept", "wait"},
         x.pc = "exited" => x.wg = 0,
         Connections(s) # {} => /\ x.pc \in {"accept", "wait", "exited"}
                                /\ x.build = server[s].build,
         x.wg + Own(server[s]) = server[s].wg + Own(x)
  PROVE  LifeInv'
<1>1. TypeOK'
  BY DEF LifeInv, TypeOK, HandlerState
<1>2. server'[s] = x /\ \A t \in Servers \ {s} : server'[t] = server[t]
  BY DEF LifeInv, TypeOK
<1>3. ServersInOrder'
  BY <1>2 DEF LifeInv, ServersInOrder
<1>4. ASSUME NEW f \in Frontends, handler[f] # "none"
      PROVE  /\ frontend[f].server \in Servers
             /\ frontend[f].server = s => Connections(s) # {}
  BY <1>4 DEF LifeInv, ConnectionsInOrder, Connections, TypeOK, Frontend
<1>5. ConnectionsInOrder'
  <2>. SUFFICES ASSUME NEW f \in Frontends
       PROVE  /\ frontend'[f].server = Nobody <=> handler'[f] = "none"
              /\ frontend'[f].pc \in {"idle", "retry"} => handler'[f] = "none"
              /\ handler'[f] # "none" =>
                   server'[frontend'[f].server].pc \in {"accept", "wait", "exited"}
              /\ handler'[f] = "queued" => port' = frontend'[f].server
              /\ f \in closer' => handler'[f] \notin {"none", "queued", "accepted"}
              /\ handler'[f] \in {"receive", "execute"} =>
                   Build[f] = server'[frontend'[f].server].build
    BY DEF ConnectionsInOrder
  <2>1. /\ frontend'[f].server = frontend[f].server
        /\ handler'[f] = "none" <=> handler[f] = "none"
        /\ handler'[f] \in {"receive", "execute"} => handler[f] = handler'[f]
        /\ f \in closer => handler'[f] = handler[f]
    BY DEF LifeInv, ConnectionsInOrder
  <2>2. /\ handler[f] # "none" =>
             server'[frontend[f].server].pc \in {"accept", "wait", "exited"}
        /\ handler[f] \in {"receive", "execute"} =>
             Build[f] = server'[frontend[f].server].build
    <3>1. CASE frontend[f].server = s
      BY <1>2, <1>4, <3>1 DEF LifeInv, ConnectionsInOrder
    <3>2. CASE frontend[f].server # s
      BY <1>2, <1>4, <3>2 DEF LifeInv, ConnectionsInOrder
    <3>. QED  BY <3>1, <3>2
  <2>. QED  BY <2>1, <2>2 DEF LifeInv, ConnectionsInOrder
<1>6. \A t \in Servers : Handling(t)' = Handling(t) /\ Closing(t)' = Closing(t)
  BY DEF Handling, Closing, Connections, Handled
<1>7. ASSUME NEW t \in Servers PROVE Counted(t)'
  <2>1. Counted(t)
    BY DEF LifeInv, GoroutinesCounted
  <2>2. CASE t # s
    BY <1>2, <1>6, <2>1, <2>2, SameCount
  <2>3. CASE t = s
    <3>1. server[s] \in Server
      BY DEF LifeInv, TypeOK
    <3>2. x.wg = Own(x) + Cardinality(Handling(s)) + Cardinality(Closing(s))
      BY <2>1, <2>3, <3>1, Recounted
    <3>. QED  BY <1>2, <1>6, <2>1, <2>3, <3>2 DEF Counted
  <2>. QED  BY <2>2, <2>3
<1>. QED  BY <1>1, <1>3, <1>5, <1>7 DEF LifeInv, GoroutinesCounted

(* A step of process s that neither listens nor stops to. *)
LEMMA ServerWorks ==
  ASSUME LifeInv, NEW s \in Servers, NEW x \in Server,
         server' = [server EXCEPT ![s] = x], files' \subseteq Servers,
         UNCHANGED <<port, frontend, handler, closer>>,
         x.unlisten = server[s].unlisten,
         x.unlisten => x.pc \in {"accept", "wait"},
         x.pc = "exited" => x.wg = 0,
         Connections(s) # {} => /\ x.pc \in {"accept", "wait", "exited"}
                                /\ x.build = server[s].build,
         x.wg + Own(server[s]) = server[s].wg + Own(x)
  PROVE  LifeInv'
<1>1. /\ port' \in Servers \union {Nobody}
      /\ frontend' \in [Frontends -> Frontend]
      /\ x.unlisten <=> port' = s
  BY DEF LifeInv, TypeOK, ServersInOrder
<1>2. \A f \in Frontends : /\ frontend'[f].server = frontend[f].server
                            /\ frontend'[f].pc = frontend[f].pc
  OBVIOUS
<1>3. closer' = closer /\ \A t \in Servers \ {s} : port' = t <=> port = t
  OBVIOUS
<1>4. /\ handler' \in [Frontends -> HandlerState]
      /\ \A f \in Frontends : handler'[f] = handler[f]
      /\ \A f \in Frontends : handler'[f] = "queued" => port' = frontend[f].server
  BY DEF LifeInv, TypeOK, HandlerState, ConnectionsInOrder
<1>. QED  BY <1>1, <1>2, <1>3, <1>4, ServerMoves

LEMMA StartupKeepsLifeInv ==
  ASSUME LifeInv, NEW s \in Servers,
         Serve(s) \/ WipeFiles(s) \/ CreateBackendState(s) \/ StartupFails(s) \/ Listen(s)
  PROVE  LifeInv'
<1>1. /\ TypeOK /\ server[s] \in Server /\ s # Nobody
      /\ server[s].unlisten <=> port = s
      /\ server[s].unlisten => server[s].pc \in {"accept", "wait"}
  BY NobodyAssumption DEF LifeInv, TypeOK, ServersInOrder
<1>2. server[s].pc \in {"none", "wipe", "create", "listen"}
  BY DEF Serve, WipeFiles, CreateBackendState, StartupFails, Listen
<1>3. /\ Connections(s) = {} /\ ~server[s].unlisten /\ port # s
      /\ server[s].wg = Own(server[s])
  <2>1. Connections(s) = {}
    BY <1>2, NoConnections
  <2>2. Handling(s) = {} /\ Closing(s) = {}
    BY <2>1 DEF Handling, Closing
  <2>3. Counted(s) /\ Own(server[s]) \in Nat
    BY OwnType DEF LifeInv, GoroutinesCounted
  <2>4. server[s].wg = Own(server[s])
    BY <2>2, <2>3, FS_EmptySet DEF Counted
  <2>. QED  BY <1>1, <1>2, <2>1, <2>4
<1>4. /\ server[s].wg \in Nat /\ Own(server[s]) \in Nat
      /\ files \subseteq Servers /\ {} \subseteq Servers /\ {s} \subseteq Servers
  BY <1>1, OwnType DEF Server, TypeOK
<1>5. ASSUME NEW pc \in {"none", "wipe", "create", "listen", "accept", "wait", "exited", "dead"},
             pc # "exited", NEW b \in Builds, server' = [server EXCEPT ![s] = Process(pc, b)],
             UNCHANGED <<port, files, frontend, handler, closer>>
      PROVE  LifeInv'
  <2>. DEFINE x == Process(pc, b)
  <2>1. /\ x \in Server /\ x.pc = pc /\ x.wg = 0 /\ ~x.unlisten
        /\ ~x.trim /\ ~x.cleanup
    BY <1>5, ProcessType DEF Process
  <2>2. Own(x) = 0
    BY <2>1 DEF Own, One
  <2>3. x.unlisten = server[s].unlisten /\ x.wg + Own(server[s]) = server[s].wg + Own(x)
    <3>1. x.wg + Own(server[s]) = server[s].wg + Own(x)
      BY <1>3, <1>4, <2>1, <2>2
    <3>2. x.unlisten = FALSE /\ server[s].unlisten = FALSE
      BY <1>1, <1>3 DEF Server, Process
    <3>. QED  BY <3>1, <3>2
  <2>4. server' = [server EXCEPT ![s] = x] /\ files' \subseteq Servers
    BY <1>4, <1>5
  <2>. HIDE DEF x
  <2>. QED  BY <1>3, <1>5, <2>1, <2>3, <2>4, ServerWorks
<1>6. CASE Serve(s)
  BY <1>5, <1>6 DEF Serve
<1>7. CASE StartupFails(s)
  BY <1>5, <1>7, DefaultType DEF StartupFails
<1>8. CASE WipeFiles(s)
  <2>. DEFINE x == [server[s] EXCEPT !.pc = "create"]
  <2>1. /\ x \in Server /\ x.pc = "create" /\ x.unlisten = server[s].unlisten
        /\ x.wg = server[s].wg /\ x.trim = server[s].trim
        /\ x.cleanup = server[s].cleanup
    BY <1>1 DEF Server
  <2>2. x.wg + Own(server[s]) = server[s].wg + Own(x)
    BY <2>1 DEF Own
  <2>3. /\ server' = [server EXCEPT ![s] = x] /\ files' \subseteq Servers
        /\ UNCHANGED <<port, frontend, handler, closer>>
    BY <1>8 DEF WipeFiles
  <2>. HIDE DEF x
  <2>. QED  BY <1>3, <2>1, <2>2, <2>3, ServerWorks
<1>9. CASE CreateBackendState(s)
  <2>. DEFINE x == [server[s] EXCEPT !.pc = "listen", !.wg = 2, !.trim = TRUE,
                                     !.cleanup = TRUE]
  <2>1. /\ x \in Server /\ x.pc = "listen" /\ x.unlisten = server[s].unlisten
        /\ x.wg = 2 /\ x.trim /\ x.cleanup
    BY <1>1 DEF Server
  <2>2. Own(x) = 2
    BY <1>3, <2>1 DEF Own, One
  <2>3. /\ server' = [server EXCEPT ![s] = x] /\ files' = {s}
        /\ UNCHANGED <<port, frontend, handler, closer>>
    BY <1>9 DEF CreateBackendState
  <2>. HIDE DEF x
  <2>4. x.wg + Own(server[s]) = server[s].wg + Own(x) /\ ~x.unlisten
    BY <1>3, <1>4, <2>1, <2>2
  <2>. QED  BY <1>3, <1>4, <2>1, <2>3, <2>4, ServerWorks
<1>10. CASE Listen(s)
  <2>. DEFINE n == server[s].wg + 1
              x == [server[s] EXCEPT !.pc = "accept", !.wg = n, !.unlisten = TRUE]
  <2>1. n \in Nat
    BY <1>4
  <2>2. server' = [server EXCEPT ![s] = x]
    BY <1>10 DEF Listen
  <2>. HIDE DEF n
  <2>3. /\ x \in Server /\ x.pc = "accept" /\ x.unlisten /\ x.wg = n
        /\ x.trim = server[s].trim /\ x.cleanup = server[s].cleanup
    BY <1>1, <2>1 DEF Server
  <2>. HIDE DEF x
  <2>4. Own(x) = Own(server[s]) + 1
    BY <1>3, <2>3 DEF Own, One
  <2>5. x.wg + Own(server[s]) = server[s].wg + Own(x)
    BY <1>4, <2>3, <2>4 DEF n
  <2>6. /\ port' = s /\ port = Nobody
        /\ UNCHANGED <<files, frontend, handler, closer>>
    BY <1>10 DEF Listen
  <2>7. /\ port' \in Servers \union {Nobody} /\ files' \subseteq Servers
        /\ frontend' \in [Frontends -> Frontend]
        /\ \A t \in Servers \ {s} : port' = t <=> port = t
    BY <1>1, <2>6, NobodyAssumption DEF TypeOK
  <2>8. \A f \in Frontends : /\ frontend'[f].server = frontend[f].server
                             /\ frontend'[f].pc = frontend[f].pc
    BY <2>6
  <2>9. /\ handler' \in [Frontends -> HandlerState]
        /\ \A f \in Frontends : handler'[f] = handler[f]
        /\ \A f \in Frontends : handler'[f] # "queued"
    BY <1>1, <2>6, NobodyAssumption DEF LifeInv, TypeOK, HandlerState, ConnectionsInOrder
  <2>. QED  BY <1>3, <2>2, <2>3, <2>5, <2>6, <2>7, <2>8, <2>9, ServerMoves
<1>. QED  BY <1>6, <1>7, <1>8, <1>9, <1>10

LEMMA RunningKeepsLifeInv ==
  ASSUME LifeInv, NEW s \in Servers,
         Kill(s) \/ AcceptFails(s) \/ TrimReturns(s) \/ Cleanup(s) \/ Exit(s)
  PROVE  LifeInv'
<1>1. /\ TypeOK /\ server[s] \in Server
      /\ server[s].unlisten => server[s].pc \in {"accept", "wait"}
      /\ server[s].pc = "exited" => server[s].wg = 0
      /\ Counted(s)
  BY DEF LifeInv, TypeOK, ServersInOrder, GoroutinesCounted
<1>2. /\ server[s].wg \in Nat /\ Own(server[s]) \in Nat
      /\ files \subseteq Servers /\ {} \subseteq Servers
  BY <1>1, OwnType DEF Server, TypeOK
<1>3. Connections(s) # {} => server[s].pc \in {"accept", "wait", "exited"}
  BY <1>1, NoConnections DEF Server
<1>4. CASE Kill(s)
  <2>. DEFINE x == [server[s] EXCEPT !.killed = TRUE]
  <2>1. /\ x \in Server /\ x.pc = server[s].pc /\ x.unlisten = server[s].unlisten
        /\ x.wg = server[s].wg /\ x.trim = server[s].trim
        /\ x.cleanup = server[s].cleanup /\ x.build = server[s].build
    BY <1>1 DEF Server
  <2>2. x.wg + Own(server[s]) = server[s].wg + Own(x)
    BY <2>1 DEF Own
  <2>3. /\ server' = [server EXCEPT ![s] = x]
        /\ UNCHANGED <<port, files, frontend, handler, closer>>
    BY <1>4 DEF Kill
  <2>. HIDE DEF x
  <2>. QED  BY <1>1, <1>2, <1>3, <2>1, <2>2, <2>3, ServerWorks
<1>5. CASE AcceptFails(s)
  <2>. DEFINE x == [server[s] EXCEPT !.pc = "wait", !.killed = TRUE]
  <2>1. /\ x \in Server /\ x.pc = "wait" /\ x.unlisten = server[s].unlisten
        /\ x.wg = server[s].wg /\ x.trim = server[s].trim
        /\ x.cleanup = server[s].cleanup /\ x.build = server[s].build
    BY <1>1 DEF Server
  <2>2. x.wg + Own(server[s]) = server[s].wg + Own(x)
    BY <2>1 DEF Own
  <2>3. /\ server' = [server EXCEPT ![s] = x]
        /\ UNCHANGED <<port, files, frontend, handler, closer>>
    BY <1>5 DEF AcceptFails
  <2>. HIDE DEF x
  <2>. QED  BY <1>2, <1>3, <2>1, <2>2, <2>3, ServerWorks
<1>6. CASE TrimReturns(s)
  <2>. DEFINE n == server[s].wg - 1
              x == [server[s] EXCEPT !.wg = n, !.trim = FALSE]
  <2>1. server[s].trim /\ server[s].wg \in Nat \ {0} /\ n \in Nat
    BY <1>1, <1>6, Positive DEF TrimReturns
  <2>2. /\ server' = [server EXCEPT ![s] = x]
        /\ UNCHANGED <<port, files, frontend, handler, closer>>
    BY <1>6 DEF TrimReturns
  <2>3. server[s].wg = n + 1 /\ server[s].pc # "exited"
    BY <1>1, <2>1
  <2>. HIDE DEF n
  <2>4. /\ x \in Server /\ x.pc = server[s].pc /\ x.build = server[s].build /\ x.wg = n
        /\ ~x.trim /\ x.cleanup = server[s].cleanup /\ x.unlisten = server[s].unlisten
    BY <1>1, <2>1 DEF Server
  <2>. HIDE DEF x
  <2>5. Own(server[s]) = Own(x) + 1 /\ Own(x) \in Nat
    BY <2>1, <2>4, OwnType DEF Own, One
  <2>6. x.wg + Own(server[s]) = server[s].wg + Own(x)
    BY <2>1, <2>3, <2>4, <2>5
  <2>. QED  BY <1>1, <1>2, <1>3, <2>2, <2>3, <2>4, <2>6, ServerWorks
<1>7. CASE Cleanup(s)
  <2>. DEFINE n == server[s].wg - 1
              x == [server[s] EXCEPT !.wg = n, !.cleanup = FALSE]
  <2>1. server[s].cleanup /\ server[s].wg \in Nat \ {0} /\ n \in Nat
    BY <1>1, <1>7, Positive DEF Cleanup
  <2>2. /\ server' = [server EXCEPT ![s] = x] /\ files' = {}
        /\ UNCHANGED <<port, frontend, handler, closer>>
    BY <1>7 DEF Cleanup
  <2>3. server[s].wg = n + 1 /\ server[s].pc # "exited"
    BY <1>1, <2>1
  <2>. HIDE DEF n
  <2>4. /\ x \in Server /\ x.pc = server[s].pc /\ x.build = server[s].build /\ x.wg = n
        /\ x.trim = server[s].trim /\ ~x.cleanup /\ x.unlisten = server[s].unlisten
    BY <1>1, <2>1 DEF Server
  <2>. HIDE DEF x
  <2>5. Own(server[s]) = Own(x) + 1 /\ Own(x) \in Nat
    BY <2>1, <2>4, OwnType DEF Own, One
  <2>6. x.wg + Own(server[s]) = server[s].wg + Own(x)
    BY <2>1, <2>3, <2>4, <2>5
  <2>. QED  BY <1>1, <1>2, <1>3, <2>2, <2>3, <2>4, <2>6, ServerWorks
<1>8. CASE Exit(s)
  <2>. DEFINE x == [server[s] EXCEPT !.pc = "exited"]
  <2>1. server[s].pc = "wait" /\ server[s].wg = 0 /\ ~server[s].unlisten
    BY <1>1, <1>8, Positive DEF Exit
  <2>2. /\ x \in Server /\ x.pc = "exited" /\ x.unlisten = server[s].unlisten
        /\ x.wg = server[s].wg /\ x.trim = server[s].trim
        /\ x.cleanup = server[s].cleanup /\ x.build = server[s].build
    BY <1>1 DEF Server
  <2>3. x.wg + Own(server[s]) = server[s].wg + Own(x)
    BY <2>2 DEF Own
  <2>4. /\ server' = [server EXCEPT ![s] = x]
        /\ UNCHANGED <<port, files, frontend, handler, closer>>
    BY <1>8 DEF Exit
  <2>. HIDE DEF x
  <2>. QED  BY <1>2, <1>3, <2>1, <2>2, <2>3, <2>4, ServerWorks
<1>. QED  BY <1>4, <1>5, <1>6, <1>7, <1>8

(* The backend closes its end of a connection. *)
LEMMA Closed ==
  ASSUME NEW y \in Frontend
  PROVE  LET z == [y EXCEPT !.open = FALSE]
         IN  z \in Frontend /\ z.server = y.server /\ z.pc = y.pc
BY DEF Frontend

LEMMA CloseListenerKeepsLifeInv ==
  ASSUME LifeInv, NEW s \in Servers, CloseListener(s)
  PROVE  LifeInv'
<1>. DEFINE n == server[s].wg - 1
            x == [server[s] EXCEPT !.wg = n, !.unlisten = FALSE]
<1>1. /\ TypeOK /\ server[s] \in Server /\ Counted(s)
      /\ server[s].unlisten /\ port = s
      /\ server[s].pc \in {"accept", "wait"}
  BY DEF LifeInv, TypeOK, ServersInOrder, GoroutinesCounted, CloseListener
<1>2. server[s].wg \in Nat \ {0} /\ n \in Nat /\ server[s].wg = n + 1
  BY <1>1, Positive
<1>3. server' = [server EXCEPT ![s] = x]
  BY DEF CloseListener
<1>. HIDE DEF n
<1>4. /\ x \in Server /\ x.pc = server[s].pc /\ x.build = server[s].build /\ x.wg = n
      /\ x.trim = server[s].trim /\ x.cleanup = server[s].cleanup /\ ~x.unlisten
  BY <1>1, <1>2 DEF Server
<1>. HIDE DEF x
<1>5. Own(server[s]) = Own(x) + 1 /\ Own(x) \in Nat
  BY <1>1, <1>4, OwnType DEF Own, One
<1>6. x.wg + Own(server[s]) = server[s].wg + Own(x)
  BY <1>2, <1>4, <1>5
<1>7. /\ port' = Nobody /\ files' \subseteq Servers /\ closer' = closer
      /\ port' \in Servers \union {Nobody} /\ port' # s
      /\ \A t \in Servers \ {s} : port' = t <=> port = t
  BY <1>1, NobodyAssumption DEF TypeOK, CloseListener
<1>8. /\ frontend' \in [Frontends -> Frontend]
      /\ \A f \in Frontends : /\ frontend'[f].server = frontend[f].server
                              /\ frontend'[f].pc = frontend[f].pc
  <2>1. \A f \in Frontends : frontend[f] \in Frontend
    BY <1>1 DEF TypeOK
  <2>2. \A f \in Frontends : \/ frontend'[f] = frontend[f]
                             \/ frontend'[f] = [frontend[f] EXCEPT !.open = FALSE]
    BY DEF CloseListener
  <2>3. frontend' = [f \in Frontends |-> frontend'[f]]
    BY DEF CloseListener
  <2>4. \A f \in Frontends : /\ frontend'[f] \in Frontend
                             /\ frontend'[f].server = frontend[f].server
                             /\ frontend'[f].pc = frontend[f].pc
    BY <2>1, <2>2, Closed
  <2>. QED  BY <2>3, <2>4
<1>9. /\ handler' \in [Frontends -> HandlerState]
      /\ \A f \in Frontends : handler'[f] # handler[f] =>
                                handler[f] = "queued" /\ handler'[f] = "returned"
      /\ \A f \in Frontends : handler'[f] # "queued"
  BY <1>1 DEF LifeInv, TypeOK, HandlerState, ConnectionsInOrder, CloseListener
<1>10. /\ x.unlisten <=> port' = s
       /\ x.unlisten => x.pc \in {"accept", "wait"}
       /\ x.pc = "exited" => x.wg = 0
       /\ x.pc \in {"accept", "wait", "exited"} /\ x.build = server[s].build
  BY <1>1, <1>4, <1>7
<1>11. x \in Server
  BY <1>4
<1>12. \A f \in Frontends : handler'[f] = "queued" => port' = frontend[f].server
  BY <1>9
<1>. QED  BY <1>3, <1>6, <1>7, <1>8, <1>9, <1>10, <1>11, <1>12, ServerMoves

-----------------------------------------------------------------------------
(* The steps of a connection *)

(* No goroutine starts or ends. *)
LEMMA FrontendMoves ==
  ASSUME LifeInv, NEW f \in Frontends, NEW h \in HandlerState,
         UNCHANGED <<server, port, files, closer>>,
         handler' = [handler EXCEPT ![f] = h],
         frontend' \in [Frontends -> Frontend],
         \A g \in Frontends : frontend'[g].server = frontend[g].server,
         \A g \in Frontends : frontend'[g].pc \in {"idle", "retry"} =>
                               frontend[g].pc \in {"idle", "retry"},
         \/ h = handler[f]
         \/ /\ {h, handler[f]} \subseteq Handled
            /\ h # "accepted"
            /\ Build[f] = server[frontend[f].server].build
  PROVE  LifeInv'
<1>1. TypeOK' /\ ServersInOrder'
  BY DEF LifeInv, TypeOK, HandlerState, ServersInOrder
<1>2. \A g \in Frontends :
        /\ handler'[g] = IF g = f THEN h ELSE handler[g]
        /\ handler'[g] \in Handled <=> handler[g] \in Handled
  BY DEF LifeInv, TypeOK
<1>3. ConnectionsInOrder'
  BY <1>2 DEF LifeInv, ConnectionsInOrder, Handled
<1>4. \A t \in Servers : Handling(t)' = Handling(t) /\ Closing(t)' = Closing(t)
  BY <1>2 DEF Handling, Closing, Connections
<1>5. GoroutinesCounted'
  BY <1>4, SameCount DEF LifeInv, GoroutinesCounted
<1>. QED  BY <1>1, <1>3, <1>5 DEF LifeInv

(* A goroutine of the connection f to the process s starts or ends, which  *)
(* leaves the counter of s at n.                                           *)
LEMMA GoroutineMoves ==
  ASSUME LifeInv, NEW f \in Frontends, NEW s \in Servers, frontend[f].server = s,
         NEW n \in Nat, server' = [server EXCEPT ![s].wg = n],
         server[s].pc # "exited",
         NEW h \in HandlerState \ {"none", "queued"},
         h \in {"receive", "execute"} => h = handler[f],
         handler' = [handler EXCEPT ![f] = h], handler[f] # "none",
         closer' \subseteq Frontends,
         \A g \in Frontends : g # f => (g \in closer' <=> g \in closer),
         f \in closer' => h # "accepted",
         frontend' \in [Frontends -> Frontend],
         \A g \in Frontends : /\ frontend'[g].server = frontend[g].server
                              /\ frontend'[g].pc = frontend[g].pc,
         UNCHANGED <<port, files>>,
         Counted(s)'
  PROVE  LifeInv'
<1>. DEFINE x == [server[s] EXCEPT !.wg = n]
<1>1. server \in [Servers -> Server] /\ server[s] \in Server
  BY DEF LifeInv, TypeOK
<1>2. /\ x \in Server /\ x.pc = server[s].pc /\ x.build = server[s].build
      /\ x.unlisten = server[s].unlisten
  BY <1>1 DEF Server
<1>3. server' = [server EXCEPT ![s] = x]
  OBVIOUS
<1>. HIDE DEF x
<1>4. server' \in [Servers -> Server] /\ server'[s] = x
      /\ \A t \in Servers \ {s} : server'[t] = server[t]
  BY <1>1, <1>2, <1>3
<1>5. TypeOK'
  BY <1>4 DEF LifeInv, TypeOK, HandlerState
<1>6. ServersInOrder'
  BY <1>2, <1>4 DEF LifeInv, ServersInOrder
<1>7. \A t \in Servers : server'[t].pc = server[t].pc /\ server'[t].build = server[t].build
  BY <1>2, <1>4
<1>8. handler'[f] = h /\ \A g \in Frontends \ {f} : handler'[g] = handler[g]
  BY DEF LifeInv, TypeOK
<1>9. \A g \in Frontends : handler[g] # "none" => frontend[g].server \in Servers
  BY DEF LifeInv, ConnectionsInOrder, TypeOK, Frontend
<1>10. ConnectionsInOrder'
  <2>1. ASSUME NEW g \in Frontends, g # f
        PROVE  /\ frontend'[g].server = Nobody <=> handler'[g] = "none"
               /\ frontend'[g].pc \in {"idle", "retry"} => handler'[g] = "none"
               /\ handler'[g] # "none" =>
                    server'[frontend'[g].server].pc \in {"accept", "wait", "exited"}
               /\ handler'[g] = "queued" => port' = frontend'[g].server
               /\ g \in closer' => handler'[g] \notin {"none", "queued", "accepted"}
               /\ handler'[g] \in {"receive", "execute"} =>
                    Build[g] = server'[frontend'[g].server].build
    BY <1>7, <1>8, <1>9, <2>1 DEF LifeInv, ConnectionsInOrder
  <2>2. /\ frontend'[f].server = Nobody <=> handler'[f] = "none"
        /\ frontend'[f].pc \in {"idle", "retry"} => handler'[f] = "none"
        /\ handler'[f] # "none" =>
             server'[frontend'[f].server].pc \in {"accept", "wait", "exited"}
        /\ f \in closer' => handler'[f] \notin {"none", "queued", "accepted"}
    BY <1>7, <1>8, <1>9 DEF LifeInv, ConnectionsInOrder
  <2>3. /\ handler'[f] # "queued"
        /\ handler'[f] \in {"receive", "execute"} =>
             Build[f] = server'[frontend'[f].server].build
    BY <1>7, <1>8, <1>9 DEF LifeInv, ConnectionsInOrder
  <2>. QED  BY <2>1, <2>2, <2>3 DEF ConnectionsInOrder
<1>11. ASSUME NEW t \in Servers, t # s PROVE Counted(t)'
  <2>1. Handling(t)' = Handling(t) /\ Closing(t)' = Closing(t)
    BY <1>8, <1>11 DEF Handling, Closing, Connections
  <2>. QED  BY <1>4, <1>11, <2>1, SameCount DEF LifeInv, GoroutinesCounted
<1>. QED  BY <1>5, <1>6, <1>10, <1>11 DEF LifeInv, GoroutinesCounted

(* What a process knows of a connection with a goroutine. *)
LEMMA Connected ==
  ASSUME LifeInv, NEW f \in Frontends, handler[f] # "none",
         NEW s, s = frontend[f].server
  PROVE  /\ s \in Servers /\ server[s] \in Server /\ server[s].wg \in Nat /\ Counted(s)
         /\ f \in Connections(s)
         /\ handler[f] \in Handled \/ f \in closer =>
              server[s].wg # 0 /\ server[s].pc # "exited"
<1>1. s \in Servers
  BY DEF LifeInv, TypeOK, Frontend, ConnectionsInOrder
<1>2. server[s] \in Server /\ server[s].wg \in Nat /\ Counted(s)
  BY <1>1 DEF LifeInv, TypeOK, Server, GoroutinesCounted
<1>3. f \in Connections(s)
  BY DEF Connections
<1>4. ASSUME handler[f] \in Handled \/ f \in closer PROVE server[s].wg # 0
  <2>1. Handling(s) # {} \/ Closing(s) # {}
    BY <1>3, <1>4 DEF Handling, Closing
  <2>. QED  BY <1>1, <1>2, <2>1, Positive
<1>5. server[s].pc = "exited" => server[s].wg = 0
  BY <1>1 DEF LifeInv, ServersInOrder
<1>. QED  BY <1>1, <1>2, <1>3, <1>4, <1>5

(* One more, or one less, goroutine of a connection, and of the counter.   *)
LEMMA CountedAgain ==
  ASSUME LifeInv, NEW s \in Servers, NEW n \in Nat, server' = [server EXCEPT ![s].wg = n],
         IsFiniteSet(Handling(s))', IsFiniteSet(Closing(s))',
         \/ /\ n = server[s].wg + 1
            /\ Cardinality(Handling(s))' = Cardinality(Handling(s)) + 1
            /\ Cardinality(Closing(s))' = Cardinality(Closing(s))
         \/ /\ n = server[s].wg + 1
            /\ Cardinality(Handling(s))' = Cardinality(Handling(s))
            /\ Cardinality(Closing(s))' = Cardinality(Closing(s)) + 1
         \/ /\ n + 1 = server[s].wg
            /\ Cardinality(Handling(s))' + 1 = Cardinality(Handling(s))
            /\ Cardinality(Closing(s))' = Cardinality(Closing(s))
         \/ /\ n + 1 = server[s].wg
            /\ Cardinality(Handling(s))' = Cardinality(Handling(s))
            /\ Cardinality(Closing(s))' + 1 = Cardinality(Closing(s))
  PROVE  Counted(s)'
<1>. DEFINE x == [server[s] EXCEPT !.wg = n]
<1>1. server \in [Servers -> Server] /\ server[s] \in Server /\ Counted(s)
  BY DEF LifeInv, TypeOK, GoroutinesCounted
<1>2. /\ x.wg = n /\ x.trim = server[s].trim /\ x.cleanup = server[s].cleanup
      /\ x.unlisten = server[s].unlisten
  BY <1>1 DEF Server
<1>3. server'[s] = x
  BY <1>1
<1>. HIDE DEF x
<1>4. Own(server'[s]) = Own(server[s]) /\ server'[s].wg = n
  BY <1>2, <1>3 DEF Own
<1>5. PICK own \in Nat, h \in Nat, c \in Nat :
        /\ own = Own(server[s])
        /\ h = Cardinality(Handling(s)) /\ c = Cardinality(Closing(s))
  BY <1>1, OwnType, CountType
<1>6. PICK hNext \in Nat, cNext \in Nat :
        hNext = Cardinality(Handling(s))' /\ cNext = Cardinality(Closing(s))'
  BY FS_CardinalityType
<1>7. server[s].wg = own + h + c
  BY <1>1, <1>5 DEF Counted
<1>8. n = own + hNext + cNext
  <2>1. \/ n = own + h + c + 1 /\ hNext = h + 1 /\ cNext = c
        \/ n = own + h + c + 1 /\ hNext = h /\ cNext = c + 1
        \/ n + 1 = own + h + c /\ hNext + 1 = h /\ cNext = c
        \/ n + 1 = own + h + c /\ hNext = h /\ cNext + 1 = c
    BY <1>5, <1>6, <1>7
  <2>. QED  BY <2>1
<1>9. server'[s].wg = Own(server'[s]) + Cardinality(Handling(s))' + Cardinality(Closing(s))'
  BY <1>4, <1>5, <1>6, <1>8
<1>. QED  BY <1>9 DEF Counted

LEMMA AcceptKeepsLifeInv ==
  ASSUME LifeInv, NEW f \in Frontends, Accept(f),
         NEW s, s = frontend[f].server
  PROVE  LifeInv'
<1>. DEFINE n == server[s].wg + 1
<1>1. handler[f] = "queued" /\ server[s].pc = "accept" /\ f \notin closer
  BY DEF Accept, LifeInv, ConnectionsInOrder
<1>2. /\ s \in Servers /\ server[s].wg \in Nat /\ Counted(s) /\ f \in Connections(s)
  BY <1>1, Connected
<1>3. /\ server' = [server EXCEPT ![s].wg = n] /\ n \in Nat
      /\ handler' = [handler EXCEPT ![f] = "accepted"]
      /\ UNCHANGED <<port, files, frontend, closer>>
  BY <1>2 DEF Accept, StartGoroutine
<1>4. /\ Handling(s)' = Handling(s) \union {f} /\ f \notin Handling(s)
      /\ Closing(s)' = Closing(s)
  BY <1>1, <1>2, <1>3 DEF LifeInv, TypeOK, Handling, Closing, Connections, Handled
<1>5. Counted(s)'
  <2>1. IsFiniteSet(Handling(s)) /\ IsFiniteSet(Closing(s))
    BY <1>2 DEF Counted
  <2>2. IsFiniteSet(Handling(s))' /\ Cardinality(Handling(s))' = Cardinality(Handling(s)) + 1
    BY <1>4, <2>1, OneMore
  <2>3. IsFiniteSet(Closing(s))' /\ Cardinality(Closing(s))' = Cardinality(Closing(s))
    BY <1>4, <2>1
  <2>4. n = server[s].wg + 1
    OBVIOUS
  <2>. HIDE DEF n
  <2>. QED  BY <1>2, <1>3, <2>2, <2>3, <2>4, CountedAgain
<1>6. /\ frontend' \in [Frontends -> Frontend] /\ closer' \subseteq Frontends
      /\ "accepted" \in HandlerState \ {"none", "queued"}
  BY <1>3 DEF LifeInv, TypeOK, HandlerState
<1>. HIDE DEF n
<1>. QED  BY <1>1, <1>2, <1>3, <1>5, <1>6, GoroutineMoves

LEMMA StartHandlerKeepsLifeInv ==
  ASSUME LifeInv, NEW f \in Frontends, StartHandler(f),
         NEW s, s = frontend[f].server
  PROVE  LifeInv'
<1>. DEFINE n == server[s].wg + 1
<1>1. handler[f] = "accepted" /\ f \notin closer
  BY DEF StartHandler, LifeInv, ConnectionsInOrder
<1>2. /\ s \in Servers /\ server[s].wg \in Nat /\ Counted(s) /\ f \in Connections(s)
      /\ server[s].pc # "exited"
  BY <1>1, Connected DEF Handled
<1>3. /\ server' = [server EXCEPT ![s].wg = n] /\ n \in Nat
      /\ handler' = [handler EXCEPT ![f] = "handshake"]
      /\ closer' = closer \union {f}
      /\ UNCHANGED <<port, files, frontend>>
  BY <1>2 DEF StartHandler, StartGoroutine
<1>4. /\ Closing(s)' = Closing(s) \union {f} /\ f \notin Closing(s)
      /\ Handling(s)' = Handling(s)
  BY <1>1, <1>2, <1>3 DEF LifeInv, TypeOK, Handling, Closing, Connections, Handled
<1>5. Counted(s)'
  <2>1. IsFiniteSet(Handling(s)) /\ IsFiniteSet(Closing(s))
    BY <1>2 DEF Counted
  <2>2. IsFiniteSet(Closing(s))' /\ Cardinality(Closing(s))' = Cardinality(Closing(s)) + 1
    BY <1>4, <2>1, OneMore
  <2>3. IsFiniteSet(Handling(s))' /\ Cardinality(Handling(s))' = Cardinality(Handling(s))
    BY <1>4, <2>1
  <2>4. n = server[s].wg + 1
    OBVIOUS
  <2>. HIDE DEF n
  <2>. QED  BY <1>2, <1>3, <2>2, <2>3, <2>4, CountedAgain
<1>6. /\ frontend' \in [Frontends -> Frontend] /\ closer' \subseteq Frontends
      /\ "handshake" \in HandlerState \ {"none", "queued"}
  BY <1>3 DEF LifeInv, TypeOK, HandlerState
<1>. HIDE DEF n
<1>. QED  BY <1>1, <1>2, <1>3, <1>5, <1>6, GoroutineMoves

(* The frontends after the backend closed the connection of f. *)
LEMMA FrontendClosed ==
  ASSUME TypeOK, NEW f \in Frontends, frontend' = [frontend EXCEPT ![f].open = FALSE]
  PROVE  /\ frontend' \in [Frontends -> Frontend]
         /\ \A g \in Frontends : /\ frontend'[g].server = frontend[g].server
                                 /\ frontend'[g].pc = frontend[g].pc
<1>. DEFINE y == [frontend[f] EXCEPT !.open = FALSE]
<1>1. frontend \in [Frontends -> Frontend] /\ frontend[f] \in Frontend
  BY DEF TypeOK
<1>2. y \in Frontend /\ y.server = frontend[f].server /\ y.pc = frontend[f].pc
  BY <1>1, Closed
<1>3. frontend' = [frontend EXCEPT ![f] = y]
  OBVIOUS
<1>. HIDE DEF y
<1>. QED  BY <1>1, <1>2, <1>3

LEMMA ReturnKeepsLifeInv ==
  ASSUME LifeInv, NEW f \in Frontends, handler[f] \in Handled \ {"accepted"}, Return(f),
         NEW s, s = frontend[f].server
  PROVE  LifeInv'
<1>. DEFINE n == server[s].wg - 1
<1>1. /\ s \in Servers /\ server[s].wg \in Nat \ {0} /\ Counted(s) /\ f \in Connections(s)
      /\ server[s].pc # "exited" /\ handler[f] # "none"
  BY Connected DEF Handled
<1>2. /\ server' = [server EXCEPT ![s].wg = n] /\ n \in Nat /\ server[s].wg = n + 1
      /\ handler' = [handler EXCEPT ![f] = "returned"]
      /\ frontend' = [frontend EXCEPT ![f].open = FALSE]
      /\ UNCHANGED <<port, files, closer>>
  BY <1>1 DEF Return, Done
<1>3. /\ frontend' \in [Frontends -> Frontend]
      /\ \A g \in Frontends : /\ frontend'[g].server = frontend[g].server
                              /\ frontend'[g].pc = frontend[g].pc
  BY <1>2, FrontendClosed DEF LifeInv
<1>4. /\ Handling(s)' = Handling(s) \ {f} /\ f \in Handling(s)
      /\ Closing(s)' = Closing(s)
  BY <1>1, <1>2, <1>3 DEF LifeInv, TypeOK, Handling, Closing, Connections, Handled
<1>. HIDE DEF n
<1>5. Counted(s)'
  <2>1. IsFiniteSet(Handling(s)) /\ IsFiniteSet(Closing(s))
    BY <1>1 DEF Counted
  <2>2. /\ IsFiniteSet(Handling(s))' /\ Cardinality(Handling(s))' + 1 = Cardinality(Handling(s))
    BY <1>4, <2>1, OneLess
  <2>3. IsFiniteSet(Closing(s))' /\ Cardinality(Closing(s))' = Cardinality(Closing(s))
    BY <1>4, <2>1
  <2>. QED  BY <1>1, <1>2, <2>2, <2>3, CountedAgain
<1>6. /\ closer' \subseteq Frontends
      /\ "returned" \in HandlerState \ {"none", "queued"}
  BY <1>2 DEF LifeInv, TypeOK, HandlerState
<1>. QED  BY <1>1, <1>2, <1>3, <1>5, <1>6, GoroutineMoves

LEMMA CloseConnectionKeepsLifeInv ==
  ASSUME LifeInv, NEW f \in Frontends, CloseConnection(f),
         NEW s, s = frontend[f].server
  PROVE  LifeInv'
<1>. DEFINE n == server[s].wg - 1
<1>1. f \in closer /\ handler[f] \notin {"none", "queued", "accepted"}
  BY DEF CloseConnection, LifeInv, ConnectionsInOrder
<1>2. /\ s \in Servers /\ server[s].wg \in Nat \ {0} /\ Counted(s) /\ f \in Connections(s)
      /\ server[s].pc # "exited"
  BY <1>1, Connected
<1>3. /\ server' = [server EXCEPT ![s].wg = n] /\ n \in Nat /\ n + 1 = server[s].wg
      /\ closer' = closer \ {f}
      /\ frontend' = [frontend EXCEPT ![f].open = FALSE]
      /\ UNCHANGED <<port, files, handler>>
  BY <1>2 DEF CloseConnection, Done
<1>4. /\ frontend' \in [Frontends -> Frontend]
      /\ \A g \in Frontends : /\ frontend'[g].server = frontend[g].server
                              /\ frontend'[g].pc = frontend[g].pc
  BY <1>3, FrontendClosed DEF LifeInv
<1>5. /\ Closing(s)' = Closing(s) \ {f} /\ f \in Closing(s)
      /\ Handling(s)' = Handling(s)
  BY <1>1, <1>2, <1>3, <1>4 DEF Handling, Closing, Connections
<1>. HIDE DEF n
<1>6. Counted(s)'
  <2>1. IsFiniteSet(Handling(s)) /\ IsFiniteSet(Closing(s))
    BY <1>2 DEF Counted
  <2>2. /\ IsFiniteSet(Closing(s))' /\ Cardinality(Closing(s))' + 1 = Cardinality(Closing(s))
    BY <1>5, <2>1, OneLess
  <2>3. IsFiniteSet(Handling(s))' /\ Cardinality(Handling(s))' = Cardinality(Handling(s))
    BY <1>5, <2>1
  <2>. QED  BY <1>2, <1>3, <2>2, <2>3, CountedAgain
<1>7. /\ closer' \subseteq Frontends /\ handler[f] \in HandlerState \ {"none", "queued"}
      /\ handler' = [handler EXCEPT ![f] = handler[f]]
      /\ f \notin closer' /\ \A g \in Frontends : g # f => (g \in closer' <=> g \in closer)
  BY <1>1, <1>3 DEF LifeInv, TypeOK, HandlerState
<1>. QED  BY <1>1, <1>2, <1>3, <1>4, <1>6, <1>7, GoroutineMoves

(* The frontends after a change to that of f. *)
LEMMA FrontendChanged ==
  ASSUME TypeOK, NEW f \in Frontends, NEW y \in Frontend,
         frontend' = [frontend EXCEPT ![f] = y], y.server = frontend[f].server,
         y.pc \in {"idle", "retry"} => frontend[f].pc \in {"idle", "retry"}
  PROVE  /\ frontend' \in [Frontends -> Frontend]
         /\ \A g \in Frontends : frontend'[g].server = frontend[g].server
         /\ \A g \in Frontends : frontend'[g].pc \in {"idle", "retry"} =>
                                   frontend[g].pc \in {"idle", "retry"}
BY DEF TypeOK

LEMMA ReceivedKeepsLifeInv ==
  ASSUME LifeInv, NEW f \in Frontends, NEW to \in {"receive", "execute"}, Received(f, to),
         handler[f] \in Handled, Build[f] = server[frontend[f].server].build
  PROVE  LifeInv'
<1>. DEFINE q == Tail(frontend[f].inbox)
            y == [frontend[f] EXCEPT !.inbox = q]
<1>1. TypeOK /\ frontend[f] \in Frontend /\ frontend[f].inbox \in Seq({"handshake", "request"})
  BY DEF LifeInv, TypeOK, Frontend
<1>2. q \in Seq({"handshake", "request"})
  BY <1>1 DEF Received
<1>3. frontend' = [frontend EXCEPT ![f] = y]
  BY DEF Received
<1>. HIDE DEF q
<1>4. y \in Frontend /\ y.server = frontend[f].server /\ y.pc = frontend[f].pc
  BY <1>1, <1>2 DEF Frontend
<1>. HIDE DEF y
<1>5. /\ UNCHANGED <<server, port, files, closer>>
      /\ handler' = [handler EXCEPT ![f] = to]
      /\ to \in HandlerState /\ {to, handler[f]} \subseteq Handled /\ to # "accepted"
  BY DEF Received, HandlerState, Handled
<1>. QED  BY <1>1, <1>3, <1>4, <1>5, FrontendChanged, FrontendMoves

LEMMA SendResponseKeepsLifeInv ==
  ASSUME LifeInv, NEW f \in Frontends, SendResponse(f)
  PROVE  LifeInv'
<1>. DEFINE y == [frontend[f] EXCEPT !.reply = TRUE]
<1>1. TypeOK /\ frontend[f] \in Frontend
  BY DEF LifeInv, TypeOK
<1>2. frontend' = [frontend EXCEPT ![f] = y]
  BY DEF SendResponse
<1>3. y \in Frontend /\ y.server = frontend[f].server /\ y.pc = frontend[f].pc
  BY <1>1 DEF Frontend
<1>. HIDE DEF y
<1>4. /\ UNCHANGED <<server, port, files, closer>>
      /\ handler' = [handler EXCEPT ![f] = "receive"]
      /\ "receive" \in HandlerState /\ {"receive", handler[f]} \subseteq Handled
      /\ Build[f] = server[frontend[f].server].build
  BY DEF SendResponse, HandlerState, Handled, LifeInv, ConnectionsInOrder
<1>. QED  BY <1>1, <1>2, <1>3, <1>4, FrontendChanged, FrontendMoves

LEMMA HandlerKeepsLifeInv ==
  ASSUME LifeInv, NEW f \in Frontends, HandlerStep(f) \/ CloseConnection(f)
  PROVE  LifeInv'
<1>1. CASE Accept(f)
  BY <1>1, AcceptKeepsLifeInv
<1>2. CASE StartHandler(f)
  BY <1>2, StartHandlerKeepsLifeInv
<1>3. CASE ValidateHandshake(f)
  BY <1>3, ReceivedKeepsLifeInv DEF ValidateHandshake, SameBuild, Handled
<1>4. CASE RejectHandshake(f)
  BY <1>4, ReturnKeepsLifeInv DEF RejectHandshake, Handled
<1>5. CASE ReceiveRequest(f)
  <2>1. Build[f] = server[frontend[f].server].build
    BY <1>5 DEF ReceiveRequest, LifeInv, ConnectionsInOrder
  <2>. QED  BY <1>5, <2>1, ReceivedKeepsLifeInv DEF ReceiveRequest, Handled
<1>6. CASE ConnectionEnds(f)
  BY <1>6, ReturnKeepsLifeInv DEF ConnectionEnds, Handled
<1>7. CASE SendResponse(f)
  BY <1>7, SendResponseKeepsLifeInv
<1>8. CASE SendFails(f)
  BY <1>8, ReturnKeepsLifeInv DEF SendFails, Handled
<1>9. CASE CloseConnection(f)
  BY <1>9, CloseConnectionKeepsLifeInv
<1>. QED
  BY <1>1, <1>2, <1>3, <1>4, <1>5, <1>6, <1>7, <1>8, <1>9 DEF HandlerStep

-----------------------------------------------------------------------------
(* The steps of a frontend *)

LEMMA ConnectKeepsLifeInv ==
  ASSUME LifeInv, NEW f \in Frontends, Connect(f)
  PROVE  LifeInv'
<1>. DEFINE y == [pc |-> "connected", server |-> port, open |-> TRUE,
                  inbox |-> <<"handshake">>, reply |-> FALSE]
<1>1. /\ handler[f] = "none" /\ frontend[f].server = Nobody /\ f \notin closer
      /\ port \in Servers
  BY DEF LifeInv, TypeOK, ConnectionsInOrder, Connect
<1>2. y \in Frontend /\ y.pc = "connected" /\ y.server = port
  <2>1. <<"handshake">> \in Seq({"handshake", "request"})
    OBVIOUS
  <2>. QED  BY <1>1, <2>1 DEF Frontend
<1>3. /\ frontend' = [frontend EXCEPT ![f] = y]
      /\ handler' = [handler EXCEPT ![f] = "queued"]
      /\ UNCHANGED <<server, port, files, closer>>
  BY DEF Connect
<1>. HIDE DEF y
<1>4. /\ frontend'[f] = y /\ handler'[f] = "queued"
      /\ \A g \in Frontends \ {f} : frontend'[g] = frontend[g] /\ handler'[g] = handler[g]
  BY <1>3 DEF LifeInv, TypeOK
<1>5. TypeOK' /\ ServersInOrder'
  BY <1>2, <1>3 DEF LifeInv, TypeOK, ServersInOrder
<1>6. server[port].pc \in {"accept", "wait"} /\ port # Nobody
  BY <1>1, NobodyAssumption DEF LifeInv, ServersInOrder
<1>7. ConnectionsInOrder'
  BY <1>1, <1>2, <1>3, <1>4, <1>6 DEF LifeInv, ConnectionsInOrder
<1>8. ASSUME NEW s \in Servers PROVE Counted(s)'
  <2>1. s # Nobody
    BY NobodyAssumption
  <2>2. Handling(s)' = Handling(s) /\ Closing(s)' = Closing(s)
    BY <1>1, <1>3, <1>4, <2>1 DEF Handling, Closing, Connections, Handled
  <2>. QED  BY <1>3, <2>2, SameCount DEF LifeInv, GoroutinesCounted
<1>. QED  BY <1>5, <1>7, <1>8 DEF LifeInv, GoroutinesCounted

LEMMA StartBackendKeepsLifeInv ==
  ASSUME LifeInv, NEW f \in Frontends, StartBackend(f)
  PROVE  LifeInv'
<1>1. PICK s \in Servers : /\ server[s].pc = "none"
                           /\ server' = [server EXCEPT ![s] = Process("wipe", Build[f])]
  BY DEF StartBackend
<1>. DEFINE x == Process("wipe", Build[f])
            y == [frontend[f] EXCEPT !.pc = "retry"]
<1>2. /\ TypeOK /\ server[s] \in Server /\ Counted(s) /\ frontend[f] \in Frontend
      /\ server[s].unlisten <=> port = s
      /\ server[s].unlisten => server[s].pc \in {"accept", "wait"}
      /\ Build[f] \in Builds
  BY FrontendAssumption DEF LifeInv, TypeOK, ServersInOrder, GoroutinesCounted
<1>3. x \in Server /\ x.pc = "wipe" /\ x.wg = 0 /\ ~x.unlisten /\ Own(x) = 0
  BY <1>2, ProcessType DEF Process, Own, One
<1>4. Connections(s) = {} /\ port # s /\ server[s].wg = Own(server[s])
  <2>1. Connections(s) = {}
    BY <1>1, NoConnections
  <2>2. Handling(s) = {} /\ Closing(s) = {}
    BY <2>1 DEF Handling, Closing
  <2>3. Own(server[s]) \in Nat
    BY OwnType
  <2>. QED  BY <1>1, <1>2, <2>1, <2>2, <2>3, FS_EmptySet DEF Counted
<1>5. x.wg + Own(server[s]) = server[s].wg + Own(x)
  <2>1. server[s].wg \in Nat
    BY <1>2 DEF Server
  <2>. QED  BY <1>3, <1>4, <2>1
<1>6. y \in Frontend /\ y.server = frontend[f].server /\ y.pc = "retry"
  BY <1>2 DEF Frontend
<1>7. /\ server' = [server EXCEPT ![s] = x]
      /\ frontend' = [frontend EXCEPT ![f] = y]
      /\ frontend[f].pc = "idle"
      /\ UNCHANGED <<port, files, handler, closer>>
  BY <1>1 DEF StartBackend
<1>. HIDE DEF x, y
<1>8. /\ frontend' \in [Frontends -> Frontend]
      /\ \A g \in Frontends : frontend'[g].server = frontend[g].server
      /\ \A g \in Frontends : frontend'[g].pc \in {"idle", "retry"} =>
                                frontend[g].pc \in {"idle", "retry"}
  BY <1>2, <1>6, <1>7, FrontendChanged
<1>9. /\ handler' \in [Frontends -> HandlerState]
      /\ \A g \in Frontends : handler'[g] = handler[g]
      /\ \A g \in Frontends : handler'[g] = "queued" => port' = frontend[g].server
      /\ port' \in Servers \union {Nobody} /\ files' \subseteq Servers
      /\ port' # s /\ \A t \in Servers \ {s} : port' = t <=> port = t
  BY <1>2, <1>4, <1>7 DEF LifeInv, TypeOK, HandlerState, ConnectionsInOrder
<1>. QED  BY <1>3, <1>4, <1>5, <1>7, <1>8, <1>9, ServerMoves

(* A frontend goes on or ends. *)
LEMMA FrontendGoesOn ==
  ASSUME LifeInv, NEW f \in Frontends, NEW y \in Frontend,
         frontend' = [frontend EXCEPT ![f] = y], y.server = frontend[f].server,
         y.pc \notin {"idle", "retry"},
         UNCHANGED <<server, port, files, handler, closer>>
  PROVE  LifeInv'
<1>1. TypeOK /\ handler[f] \in HandlerState /\ handler' = [handler EXCEPT ![f] = handler[f]]
  BY DEF LifeInv, TypeOK, HandlerState
<1>. QED  BY <1>1, FrontendChanged, FrontendMoves

LEMMA FrontendKeepsLifeInv ==
  ASSUME LifeInv, NEW f \in Frontends, FrontendStep(f)
  PROVE  LifeInv'
<1>1. frontend[f] \in Frontend /\ frontend[f].inbox \in Seq({"handshake", "request"})
  BY DEF LifeInv, TypeOK, Frontend
<1>2. CASE Connect(f)
  BY <1>2, ConnectKeepsLifeInv
<1>3. CASE StartBackend(f)
  BY <1>3, StartBackendKeepsLifeInv
<1>4. CASE GiveUp(f) \/ ConnectionLost(f) \/ Quit(f)
  <2>. DEFINE y == [frontend[f] EXCEPT !.pc = "done"]
  <2>1. y \in Frontend /\ y.server = frontend[f].server /\ y.pc = "done"
    BY <1>1 DEF Frontend
  <2>2. /\ frontend' = [frontend EXCEPT ![f] = y]
        /\ UNCHANGED <<server, port, files, handler, closer>>
    BY <1>4 DEF GiveUp, ConnectionLost, Quit
  <2>. HIDE DEF y
  <2>. QED  BY <2>1, <2>2, FrontendGoesOn
<1>5. CASE SendRequest(f)
  <2>. DEFINE q == Append(frontend[f].inbox, "request")
              y == [frontend[f] EXCEPT !.pc = "requested", !.inbox = q]
  <2>1. q \in Seq({"handshake", "request"})
    BY <1>1
  <2>2. /\ frontend' = [frontend EXCEPT ![f] = y]
        /\ UNCHANGED <<server, port, files, handler, closer>>
    BY <1>5 DEF SendRequest
  <2>. HIDE DEF q
  <2>3. y \in Frontend /\ y.server = frontend[f].server /\ y.pc = "requested"
    BY <1>1, <2>1 DEF Frontend
  <2>. HIDE DEF y
  <2>. QED  BY <2>2, <2>3, FrontendGoesOn
<1>6. CASE ReceiveResponse(f)
  <2>1. PICK pc \in {"connected", "done"} :
          frontend' = [frontend EXCEPT ![f] = [frontend[f] EXCEPT !.pc = pc, !.reply = FALSE]]
    BY <1>6 DEF ReceiveResponse
  <2>. DEFINE y == [frontend[f] EXCEPT !.pc = pc, !.reply = FALSE]
  <2>2. y \in Frontend /\ y.server = frontend[f].server /\ y.pc = pc
    BY <1>1 DEF Frontend
  <2>3. frontend' = [frontend EXCEPT ![f] = y]
    BY <2>1
  <2>4. UNCHANGED <<server, port, files, handler, closer>>
    BY <1>6 DEF ReceiveResponse
  <2>. HIDE DEF y
  <2>. QED  BY <2>2, <2>3, <2>4, FrontendGoesOn
<1>. QED  BY <1>2, <1>3, <1>4, <1>5, <1>6 DEF FrontendStep

-----------------------------------------------------------------------------
(* Theorems *)

LEMMA NextLifeInv ==
  ASSUME LifeInv, [Next]_vars
  PROVE  LifeInv'
<1>1. ASSUME NEW s \in Servers,
             Serve(s) \/ StartupFails(s) \/ Kill(s) \/ AcceptFails(s) \/ ServerStep(s)
               \/ KilledStep(s)
      PROVE  LifeInv'
  BY <1>1, StartupKeepsLifeInv, RunningKeepsLifeInv, CloseListenerKeepsLifeInv
     DEF ServerStep, KilledStep, PortTaken
<1>2. ASSUME NEW f \in Frontends, HandlerStep(f) \/ CloseConnection(f) \/ FrontendStep(f)
      PROVE  LifeInv'
  BY <1>2, HandlerKeepsLifeInv, FrontendKeepsLifeInv
<1>3. CASE UNCHANGED vars
  <2>1. TypeOK' /\ ServersInOrder' /\ ConnectionsInOrder'
    BY <1>3 DEF LifeInv, TypeOK, ServersInOrder, ConnectionsInOrder, vars
  <2>2. \A s \in Servers : Handling(s)' = Handling(s) /\ Closing(s)' = Closing(s)
    BY <1>3 DEF vars, Handling, Closing, Connections
  <2>. QED  BY <1>3, <2>1, <2>2, SameCount DEF LifeInv, GoroutinesCounted, vars
<1>. QED  BY <1>1, <1>2, <1>3 DEF Next

LEMMA LifeInvAlways == Spec => []LifeInv
BY InitLifeInv, NextLifeInv, PTL DEF Spec

(* Every variable has its type: in particular the counter of the wait      *)
(* group never falls below zero, which would be a panic                    *)
(* (BackendSync.waitGroup, sync.go:14).                                   *)
THEOREM TypeCorrect == Spec => []TypeOK
<1>1. LifeInv => TypeOK
  BY DEF LifeInv
<1>. QED  BY <1>1, LifeInvAlways, PTL

(* A command is executed for a frontend of the same build only             *)
(* (connect.go:43): a handler is past the handshake only if the builds     *)
(* agree, and the backend of a connection does not change its build while  *)
(* the connection exists.                                                  *)
THEOREM SameBuildExecutes == Spec => []SameBuildOnly
<1>1. LifeInv => SameBuildOnly
  BY DEF LifeInv, ConnectionsInOrder, SameBuildOnly
<1>. QED  BY <1>1, LifeInvAlways, PTL

(* When RunServer returns no goroutine of the backend is left              *)
(* (connect.go:193), because the wait group counts exactly those that run, *)
(* and no connection is left in the queue of the closed listener.          *)
THEOREM AllGoroutinesReturn == Spec => []NoGoroutineSurvives
<1>1. LifeInv => NoGoroutineSurvives
  <2>. SUFFICES ASSUME LifeInv, NEW s \in Servers, server[s].pc = "exited"
       PROVE  /\ ~server[s].trim /\ ~server[s].cleanup /\ ~server[s].unlisten
              /\ \A f \in Connections(s) : f \notin closer /\ handler[f] = "returned"
    BY DEF NoGoroutineSurvives
  <2>1. Counted(s) /\ server[s].wg = 0 /\ port # s
    BY DEF LifeInv, GoroutinesCounted, ServersInOrder
  <2>2. /\ ~server[s].trim /\ ~server[s].cleanup /\ ~server[s].unlisten
        /\ Handling(s) = {} /\ Closing(s) = {}
    BY <2>1, Positive
  <2>3. ASSUME NEW f \in Connections(s)
        PROVE  f \notin closer /\ handler[f] = "returned"
    <3>1. f \in Frontends /\ frontend[f].server = s /\ s # Nobody
      BY NobodyAssumption DEF Connections
    <3>2. handler[f] \notin Handled /\ f \notin closer
      BY <2>2, <3>1 DEF Handling, Closing, Connections
    <3>3. handler[f] # "none" /\ handler[f] # "queued"
      BY <2>1, <3>1 DEF LifeInv, ConnectionsInOrder
    <3>4. handler[f] \in HandlerState
      BY <3>1 DEF LifeInv, TypeOK, HandlerState
    <3>. QED  BY <3>2, <3>3, <3>4 DEF Handled, HandlerState
  <2>. QED  BY <2>2, <2>3
<1>. QED  BY <1>1, LifeInvAlways, PTL

=============================================================================
