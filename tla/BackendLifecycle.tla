--------------------------- MODULE BackendLifecycle ---------------------------
(***************************************************************************)
(* The life of backend processes ("spieven serve") and of the connections  *)
(* that frontends make to them, from the start, which a frontend may       *)
(* trigger, to the shutdown, which waits for every goroutine.              *)
(*                                                                         *)
(* All the processes here use one port, and therefore one directory of     *)
(* files.  What a command does is in Scheduler and DisplayWatch; here it   *)
(* is one step that ends.  A packet is sent and received as a whole.       *)
(***************************************************************************)
EXTENDS Naturals, Sequences

CONSTANTS
  Servers,    \* backend processes
  Frontends,  \* frontend processes, each with one connection
  Builds,     \* hashes of Spieven binaries
  Build,      \* the hash of the binary of a frontend
  Autorun,    \* frontends that may start a backend
  Nobody

ASSUME FrontendAssumption ==
  /\ Build \in [Frontends -> Builds]
  /\ Autorun \subseteq Frontends

ASSUME NobodyAssumption == Nobody \notin Servers

ASSUME BuildsAssumption == Builds # {}

VARIABLES
  server,    \* the backend processes
  port,      \* the process that listens on the port
  files,     \* the processes whose files are in the directory
  frontend,  \* the frontend processes and their ends of the connections
  handler,   \* the HandleConnection goroutine of each connection
  closer     \* connections with a goroutine that closes them when killed

vars == <<server, port, files, frontend, handler, closer>>

(* wg: the counter of BackendSync.waitGroup.  trim, cleanup, unlisten: do  *)
(* the goroutines that trim, clean up and close the listener still run?    *)
Server == [pc : {"none", "wipe", "create", "listen", "accept", "wait", "exited",
                 "dead"},
           build : Builds, killed : BOOLEAN, wg : Nat,
           trim : BOOLEAN, cleanup : BOOLEAN, unlisten : BOOLEAN]

(* inbox: packets the backend has not received yet; reply: a response the  *)
(* frontend has not received yet; open: not closed by the backend.         *)
Frontend == [pc : {"idle", "retry", "connected", "requested", "done"},
             server : Servers \union {Nobody},
             inbox : Seq({"handshake", "request"}), reply : BOOLEAN, open : BOOLEAN]

TypeOK ==
  /\ server \in [Servers -> Server]
  /\ port \in Servers \union {Nobody}
  /\ files \subseteq Servers
  /\ frontend \in [Frontends -> Frontend]
  /\ handler \in [Frontends -> {"none", "queued", "accepted", "handshake",
                                "receive", "execute", "returned"}]
  /\ closer \subseteq Frontends

(* A process that is not running, or just starts. *)
Process(pc, b) ==
  [pc |-> pc, build |-> b, killed |-> FALSE, wg |-> 0,
   trim |-> FALSE, cleanup |-> FALSE, unlisten |-> FALSE]

Default == CHOOSE b \in Builds : TRUE

Init ==
  /\ server = [s \in Servers |-> Process("none", Default)]
  /\ port = Nobody
  /\ files = {}
  /\ frontend = [f \in Frontends |-> [pc |-> "idle", server |-> Nobody, inbox |-> <<>>,
                                      reply |-> FALSE, open |-> FALSE]]
  /\ handler = [f \in Frontends |-> "none"]
  /\ closer = {}

-----------------------------------------------------------------------------
(* RunServer: startup *)

Serve(s) ==
  /\ server[s].pc = "none"
  /\ \E b \in Builds : server' = [server EXCEPT ![s] = Process("wipe", b)]
  /\ UNCHANGED <<port, files, frontend, handler, closer>>

(* CreateFilePathProvider empties the directory, ...                       *)
WipeFiles(s) ==
  /\ server[s].pc = "wipe"
  /\ server' = [server EXCEPT ![s].pc = "create"]
  /\ files' = {}
  /\ UNCHANGED <<port, frontend, handler, closer>>

(* ... and creates or truncates the files; CreateBackendState goes on to   *)
(* start the goroutines that trim and clean up.                            *)
CreateBackendState(s) ==
  /\ server[s].pc = "create"
  /\ server' = [server EXCEPT ![s] = [@ EXCEPT !.pc = "listen", !.wg = 2,
                                               !.trim = TRUE, !.cleanup = TRUE]]
  /\ files' = {s}
  /\ UNCHANGED <<port, frontend, handler, closer>>

(* A file cannot be created, because another process empties the directory *)
(* for example, or the hash of the binary cannot be computed: the process  *)
(* exits and does not wait for its goroutines.                             *)
StartupFails(s) ==
  /\ server[s].pc \in {"wipe", "create", "listen"}
  /\ server' = [server EXCEPT ![s] = Process("dead", Default)]
  /\ UNCHANGED <<port, files, frontend, handler, closer>>

Listen(s) ==
  /\ server[s].pc = "listen"
  /\ port = Nobody
  /\ port' = s
  /\ server' = [server EXCEPT ![s] = [@ EXCEPT !.pc = "accept", !.wg = server[s].wg + 1,
                                               !.unlisten = TRUE]]
  /\ UNCHANGED <<files, frontend, handler, closer>>

PortTaken(s) == port # Nobody /\ StartupFails(s) /\ server[s].pc = "listen"

-----------------------------------------------------------------------------
(* RunServer: accepting connections, and the shutdown *)

(* Mutant: the goroutine of the connection is not counted. *)
StartUncounted(s) == server' = server

StartGoroutine(s) == server' = [server EXCEPT ![s].wg = @ + 1]

Accept(f) ==
  LET s == frontend[f].server
  IN  /\ handler[f] = "queued"
      /\ server[s].pc = "accept"
      /\ StartGoroutine(s)
      /\ handler' = [handler EXCEPT ![f] = "accepted"]
      /\ UNCHANGED <<port, files, frontend, closer>>

Kill(s) ==
  /\ server[s].pc \notin {"none", "exited", "dead"}
  /\ ~server[s].killed
  /\ server' = [server EXCEPT ![s].killed = TRUE]
  /\ UNCHANGED <<port, files, frontend, handler, closer>>

(* Closing the listener resets the connections that wait to be accepted.   *)
CloseListener(s) ==
  LET waiting == {f \in Frontends : handler[f] = "queued" /\ frontend[f].server = s}
  IN  /\ server[s].killed /\ server[s].unlisten
      /\ port' = Nobody
      /\ server' = [server EXCEPT ![s] = [@ EXCEPT !.wg = server[s].wg - 1,
                                                   !.unlisten = FALSE]]
      /\ frontend' = [f \in Frontends |-> IF f \in waiting
                                          THEN [frontend[f] EXCEPT !.open = FALSE]
                                          ELSE frontend[f]]
      /\ handler' = [f \in Frontends |-> IF f \in waiting THEN "returned" ELSE handler[f]]
      /\ UNCHANGED <<files, closer>>

(* The listener was closed or fails: the context is killed, then RunServer *)
(* waits.                                                                  *)
AcceptFails(s) ==
  /\ server[s].pc = "accept"
  /\ server' = [server EXCEPT ![s] = [@ EXCEPT !.pc = "wait", !.killed = TRUE]]
  /\ UNCHANGED <<port, files, frontend, handler, closer>>

TrimReturns(s) ==
  /\ server[s].killed /\ server[s].trim
  /\ server' = [server EXCEPT ![s] = [@ EXCEPT !.wg = server[s].wg - 1,
                                               !.trim = FALSE]]
  /\ UNCHANGED <<port, files, frontend, handler, closer>>

(* The directory is removed, whoever wrote to it last. *)
Cleanup(s) ==
  /\ server[s].killed /\ server[s].cleanup
  /\ server' = [server EXCEPT ![s] = [@ EXCEPT !.wg = server[s].wg - 1,
                                               !.cleanup = FALSE]]
  /\ files' = {}
  /\ UNCHANGED <<port, frontend, handler, closer>>

Exit(s) ==
  /\ server[s].pc = "wait"
  /\ server[s].wg = 0
  /\ server' = [server EXCEPT ![s].pc = "exited"]
  /\ UNCHANGED <<port, files, frontend, handler, closer>>

-----------------------------------------------------------------------------
(* HandleConnection *)

Done(s) == server' = [server EXCEPT ![s].wg = @ - 1]

Return(f) ==
  /\ handler' = [handler EXCEPT ![f] = "returned"]
  /\ frontend' = [frontend EXCEPT ![f].open = FALSE]
  /\ Done(frontend[f].server)
  /\ UNCHANGED <<port, files, closer>>

(* Mutant: nothing closes the connection. *)
StartWithoutCloser(f) ==
  /\ handler[f] = "accepted"
  /\ handler' = [handler EXCEPT ![f] = "handshake"]
  /\ UNCHANGED <<server, port, files, frontend, closer>>

StartHandler(f) ==
  /\ handler[f] = "accepted"
  /\ StartGoroutine(frontend[f].server)
  /\ closer' = closer \union {f}
  /\ handler' = [handler EXCEPT ![f] = "handshake"]
  /\ UNCHANGED <<port, files, frontend>>

(* ReceivePacket, which fails once the backend closed the connection.      *)
Received(f, to) ==
  /\ frontend[f].open
  /\ frontend[f].inbox # <<>>
  /\ frontend' = [frontend EXCEPT ![f].inbox = Tail(@)]
  /\ handler' = [handler EXCEPT ![f] = to]
  /\ UNCHANGED <<server, port, files, closer>>

(* Mutant: a handshake is a handshake. *)
AnyBuild(f) == TRUE

SameBuild(f) == Build[f] = server[frontend[f].server].build

ValidateHandshake(f) ==
  /\ handler[f] = "handshake"
  /\ SameBuild(f)
  /\ Received(f, "receive")

(* Mutant: the connection stays open. *)
ReturnWithoutClose(f) ==
  /\ handler[f] = "handshake"
  /\ ~SameBuild(f)
  /\ frontend[f].inbox # <<>>
  /\ handler' = [handler EXCEPT ![f] = "returned"]
  /\ Done(frontend[f].server)
  /\ UNCHANGED <<port, files, frontend, closer>>

RejectHandshake(f) ==
  /\ handler[f] = "handshake"
  /\ ~SameBuild(f)
  /\ frontend[f].inbox # <<>>
  /\ Return(f)

ReceiveRequest(f) ==
  /\ handler[f] = "receive"
  /\ Received(f, "execute")

Gone(f) == frontend[f].pc = "done"

ConnectionEnds(f) ==
  /\ handler[f] \in {"handshake", "receive"}
  /\ ~frontend[f].open \/ (Gone(f) /\ frontend[f].inbox = <<>>)
  /\ Return(f)

SendResponse(f) ==
  /\ handler[f] = "execute"
  /\ frontend[f].open /\ ~Gone(f)
  /\ frontend' = [frontend EXCEPT ![f].reply = TRUE]
  /\ handler' = [handler EXCEPT ![f] = "receive"]
  /\ UNCHANGED <<server, port, files, closer>>

SendFails(f) ==
  /\ handler[f] = "execute"
  /\ ~frontend[f].open \/ Gone(f)
  /\ Return(f)

CloseConnection(f) ==
  /\ f \in closer
  /\ server[frontend[f].server].killed
  /\ closer' = closer \ {f}
  /\ frontend' = [frontend EXCEPT ![f].open = FALSE]
  /\ Done(frontend[f].server)
  /\ UNCHANGED <<port, files, handler>>

-----------------------------------------------------------------------------
(* Frontends *)

(* ConnectToBackend: the kernel completes the connection while somebody    *)
(* listens; the handshake is sent and no answer to it expected.            *)
Connect(f) ==
  /\ frontend[f].pc \in {"idle", "retry"}
  /\ port # Nobody
  /\ frontend' = [frontend EXCEPT ![f] = [pc |-> "connected", server |-> port, open |-> TRUE,
                                          inbox |-> <<"handshake">>, reply |-> FALSE]]
  /\ handler' = [handler EXCEPT ![f] = "queued"]
  /\ UNCHANGED <<server, port, files, closer>>

StartBackend(f) ==
  /\ frontend[f].pc = "idle"
  /\ port = Nobody
  /\ f \in Autorun
  /\ \E s \in Servers :
       /\ server[s].pc = "none"
       /\ server' = [server EXCEPT ![s] = Process("wipe", Build[f])]
  /\ frontend' = [frontend EXCEPT ![f].pc = "retry"]
  /\ UNCHANGED <<port, files, handler, closer>>

(* Nobody listens, and no backend may be started or none came up in time.  *)
GiveUp(f) ==
  /\ port = Nobody
  /\ frontend[f].pc = "retry" \/ (frontend[f].pc = "idle" /\ f \notin Autorun)
  /\ frontend' = [frontend EXCEPT ![f].pc = "done"]
  /\ UNCHANGED <<server, port, files, handler, closer>>

SendRequest(f) ==
  /\ frontend[f].pc = "connected"
  /\ frontend' = [frontend EXCEPT ![f] = [@ EXCEPT !.pc = "requested",
                                                   !.inbox = Append(frontend[f].inbox,
                                                                    "request")]]
  /\ UNCHANGED <<server, port, files, handler, closer>>

(* A frontend that peeks goes on to ask whether the task is active.        *)
ReceiveResponse(f) ==
  /\ frontend[f].pc = "requested"
  /\ frontend[f].reply
  /\ \E pc \in {"connected", "done"} :
       frontend' = [frontend EXCEPT ![f] = [@ EXCEPT !.pc = pc, !.reply = FALSE]]
  /\ UNCHANGED <<server, port, files, handler, closer>>

ConnectionLost(f) ==
  /\ frontend[f].pc \in {"connected", "requested"}
  /\ ~frontend[f].open
  /\ frontend' = [frontend EXCEPT ![f].pc = "done"]
  /\ UNCHANGED <<server, port, files, handler, closer>>

(* The user interrupts the frontend. *)
Quit(f) ==
  /\ frontend[f].pc \in {"retry", "connected", "requested"}
  /\ frontend' = [frontend EXCEPT ![f].pc = "done"]
  /\ UNCHANGED <<server, port, files, handler, closer>>

-----------------------------------------------------------------------------
(* Specification *)

ServerStep(s) ==
  \/ WipeFiles(s)
  \/ CreateBackendState(s)
  \/ Listen(s)
  \/ PortTaken(s)
  \/ Exit(s)

KilledStep(s) ==
  \/ CloseListener(s)
  \/ AcceptFails(s) /\ port # s
  \/ TrimReturns(s)
  \/ Cleanup(s)

HandlerStep(f) ==
  \/ Accept(f)
  \/ StartHandler(f)
  \/ ValidateHandshake(f)
  \/ RejectHandshake(f)
  \/ ReceiveRequest(f)
  \/ ConnectionEnds(f)
  \/ SendResponse(f)
  \/ SendFails(f)

FrontendStep(f) ==
  \/ Connect(f)
  \/ StartBackend(f)
  \/ GiveUp(f)
  \/ SendRequest(f)
  \/ ReceiveResponse(f)
  \/ ConnectionLost(f)
  \/ Quit(f)

Next ==
  \/ \E s \in Servers :
       Serve(s) \/ StartupFails(s) \/ Kill(s) \/ AcceptFails(s) \/ ServerStep(s)
         \/ KilledStep(s)
  \/ \E f \in Frontends : HandlerStep(f) \/ CloseConnection(f) \/ FrontendStep(f)

Spec == Init /\ [][Next]_vars

(* Goroutines that can go on do; a frontend reads the response it waits    *)
(* for.  Nobody has to start or to kill a backend, or to send a request.   *)
FairSpec ==
  /\ Spec
  /\ \A s \in Servers : /\ WF_vars(ServerStep(s))
                        /\ WF_vars(CloseListener(s))
                        /\ WF_vars(AcceptFails(s) /\ port # s)
                        /\ WF_vars(TrimReturns(s))
                        /\ WF_vars(Cleanup(s))
  /\ \A f \in Frontends : /\ WF_vars(HandlerStep(f))
                          /\ WF_vars(CloseConnection(f))
                          /\ WF_vars(ReceiveResponse(f) \/ ConnectionLost(f))

-----------------------------------------------------------------------------
(* Properties *)

Connections(s) == {f \in Frontends : frontend[f].server = s}

(* A command is executed for a frontend of the same build only             *)
(* (connect.go:43), whichever backend was started by whom.                 *)
SameBuildOnly ==
  \A f \in Frontends :
    handler[f] = "execute" => Build[f] = server[frontend[f].server].build

(* When RunServer returns no goroutine of the backend is left              *)
(* (connect.go:193): none is started without being counted, and none is    *)
(* counted twice.                                                          *)
NoGoroutineSurvives ==
  \A s \in Servers :
    server[s].pc = "exited" =>
      /\ ~server[s].trim /\ ~server[s].cleanup /\ ~server[s].unlisten
      /\ \A f \in Connections(s) : f \notin closer /\ handler[f] = "returned"

(* A killed backend exits, although its handlers wait for packets of       *)
(* frontends that send none, and although a connection may be accepted     *)
(* after the kill (connect.go:38 and 159).                                 *)
ShutdownReturns ==
  \A s \in Servers : server[s].killed ~> server[s].pc \in {"exited", "dead"}

(* A frontend never waits for ever for a response: it gets one, or the     *)
(* connection is closed, by a rejected handshake or the shutdown           *)
(* (connect.go:35).                                                        *)
RequestEnds ==
  \A f \in Frontends : frontend[f].pc = "requested" ~> frontend[f].pc # "requested"

(* README.md:14: the backend does not forget tasks, their logs can be      *)
(* inspected; so its files are there while it accepts connections.         *)
FilesIntact ==
  \A s \in Servers : server[s].pc = "accept" /\ ~server[s].killed => s \in files

=============================================================================
