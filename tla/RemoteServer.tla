---------------------------- MODULE RemoteServer ----------------------------
(***************************************************************************)
(* The remote server of the shell (tinyos_shell.c): the console thread,    *)
(* the listener thread, one detached thread and one child process for each *)
(* connection, and the clients.  The globals of the server live on the     *)
(* stack of the console thread: once it has returned, what a thread that   *)
(* is left does with them is not defined, and no such thread is followed.  *)
(*                                                                         *)
(* Children inherit every open fid of the server.  A stream is closed when *)
(* the last process that holds it lets go (Streams), so a socket end stays *)
(* open as long as a child that was started while it was open.             *)
(***************************************************************************)
EXTENDS Integers, FiniteSets

CONSTANTS
  Clients,
  MaxSockets,    \* fids the server can have open for connections
  EagerConsole   \* q may be typed before the listener listens

ASSUME ServerAssumption ==
  /\ IsFiniteSet(Clients) /\ {"server", "listener", "none"} \cap Clients = {}
  /\ MaxSockets \in Nat
  /\ EagerConsole \in BOOLEAN

VARIABLES
  console,       \* where the console thread is
  listener,      \* where the listener is, and the count it has loaded
  quit,          \* GS(quit)
  active_conn,   \* GS(active_conn)
  log,           \* records in GS(log)
  listenerSocket,\* whether GS(listener_socket) has been assigned
  served,        \* the thread rsrv_client of each connection
  loaded,        \* the count that the thread about to store it has loaded
  overlapped,    \* two updates of active_conn have overlapped (history)
  command,       \* the process rsrv_process of each connection
  client,        \* the program at the other end
  holds          \* who holds the listening socket, and each accepted one

serverVars == <<console, listener, quit, active_conn, log, listenerSocket,
                served, loaded, overlapped, command, client, holds>>

(* The server process, and the children named by their connections.        *)
Holders == Clients \cup {"server"}

ServerTypeOK ==
  /\ console \in {"off", "prompt", "quit", "join", "wait", "truncate", "returned", "left"}
  /\ listener \in [at : {"off", "start", "listens", "accept", "accepting", "count", "ended"},
                   conn : Clients \cup {"none"}, loaded : Int]
  /\ quit \in BOOLEAN /\ listenerSocket \in BOOLEAN /\ overlapped \in BOOLEAN
  /\ active_conn \in Int /\ log \in Nat
  /\ served \in [Clients -> {"none", "started", "request", "executed", "wait", "finish", "ending", "gone"}]
  /\ loaded \in Int
  /\ command \in [Clients -> {"none", "failed", "running", "exited", "reaped"}]
  /\ client \in [Clients -> {"idle", "connecting", "dropped", "refused", "sending", "reading", "aborted", "done"}]
  /\ holds \in [Clients \cup {"listener"} -> SUBSET Holders]

ServerInit ==
  /\ console = "off"
  /\ listener = [at |-> "off", conn |-> "none", loaded |-> 0]
  /\ quit = FALSE /\ listenerSocket = FALSE /\ overlapped = FALSE
  /\ active_conn = 0 /\ log = 0 /\ loaded = 0
  /\ served = [c \in Clients |-> "none"]
  /\ command = [c \in Clients |-> "none"]
  /\ client = [c \in Clients |-> "idle"]
  /\ holds = [k \in Clients \cup {"listener"} |-> {}]

Listening == holds["listener"] # {}

(* The frame of RemoteServer is still there, and the globals with it.      *)
GlobalsAlive == console \notin {"returned", "left"}

(* GS(mx): held for more than a step only around active_conn--.            *)
MutexFree == \A c \in Clients : served[c] # "ending"

-----------------------------------------------------------------------------
(* Mutants.                                                                *)
WaitOneConnection == active_conn <= 1
CloseTooLate(c)   == UNCHANGED holds

-----------------------------------------------------------------------------
(* RemoteServer: the globals are set up and the listener thread created.   *)
ServerStarts ==
  /\ console = "off" /\ console' = "prompt"
  /\ listener' = [listener EXCEPT !.at = "start"]
  /\ UNCHANGED <<quit, active_conn, log, listenerSocket, served, loaded, overlapped, command, client, holds>>

(* A record is appended to the log, under the mutex.                       *)
log_message == MutexFree /\ log' = log + 1

-----------------------------------------------------------------------------
(* The listener thread.                                                    *)

(* Socket and Listen; the port may belong to another server.               *)
ListenOnPort ==
  /\ listener.at = "start"
  /\ \/ /\ listener' = [listener EXCEPT !.at = "listens"]
        /\ holds' = [holds EXCEPT !["listener"] = {"server"}]
     \/ /\ listener' = [listener EXCEPT !.at = "ended"]
        /\ UNCHANGED holds
  /\ UNCHANGED <<console, quit, active_conn, log, listenerSocket, served, loaded, overlapped, command, client>>

PublishSocket ==
  /\ listener.at = "listens"
  /\ listenerSocket' = TRUE
  /\ listener' = [listener EXCEPT !.at = "accept"]
  /\ UNCHANGED <<console, quit, active_conn, log, served, loaded, overlapped, command, client, holds>>

(* Accept(lsock): the fid may be closed already.                           *)
CallAccept ==
  /\ listener.at = "accept"
  /\ "server" \in holds["listener"]
  /\ listener' = [listener EXCEPT !.at = "accepting"]
  /\ UNCHANGED <<console, quit, active_conn, log, listenerSocket, served, loaded, overlapped, command, client, holds>>

(* Fids the server has left for connections.                               *)
FidLeft == Cardinality({c \in Clients : "server" \in holds[c]}) < MaxSockets

(* Accept has connected c: the fid, and the load of active_conn++.         *)
AcceptConnection(c) ==
  /\ listener.at = "accepting" /\ Listening /\ FidLeft
  /\ client[c] = "connecting"
  /\ client' = [client EXCEPT ![c] = "sending"]
  /\ holds' = [holds EXCEPT ![c] = {"server"}]
  /\ listener' = [at |-> "count", conn |-> c, loaded |-> active_conn]
  /\ UNCHANGED <<console, quit, active_conn, log, listenerSocket, served, loaded, overlapped, command>>

(* The store of active_conn++, which is not under the mutex, CreateThread  *)
(* and ThreadDetach.                                                       *)
StartServing ==
  /\ listener.at = "count"
  /\ active_conn' = listener.loaded + 1 /\ overlapped' = (overlapped \/ ~ MutexFree)
  /\ served' = [served EXCEPT ![listener.conn] = "started"]
  /\ listener' = [listener EXCEPT !.at = "accept", !.conn = "none", !.loaded = 0]
  /\ UNCHANGED <<console, quit, log, listenerSocket, loaded, command, client, holds>>

MustQuit == quit

(* Accept returns NOFILE: the fid or the socket is closed, or a request    *)
(* was taken from the queue and there is no fid for it, or no FCB, which   *)
(* the server shares with every other process.                             *)
NoConnection ==
  \/ listener.at = "accept" /\ "server" \notin holds["listener"] /\ UNCHANGED client
  \/ listener.at = "accepting" /\ ~ Listening /\ UNCHANGED client
  \/ /\ listener.at = "accepting" /\ Listening
     /\ \E c \in Clients : client[c] = "connecting"
                         /\ client' = [client EXCEPT ![c] = "dropped"]

(* The listener quits, or logs the failure and tries again.                *)
AcceptFails ==
  /\ NoConnection
  /\ \/ MustQuit /\ listener' = [listener EXCEPT !.at = "ended"] /\ UNCHANGED log
     \/ ~ MustQuit /\ log_message /\ listener' = [listener EXCEPT !.at = "accept"]
  /\ UNCHANGED <<console, quit, active_conn, listenerSocket, served, loaded, overlapped, command, holds>>

-----------------------------------------------------------------------------
(* The console.                                                            *)

(* The command q.                                                          *)
ConsoleQuit ==
  /\ console = "prompt"
  /\ EagerConsole \/ listenerSocket \/ listener.at = "ended"
  /\ quit' = TRUE /\ console' = "quit"
  /\ UNCHANGED <<listener, active_conn, log, listenerSocket, served, loaded, overlapped, command, client, holds>>

(* The end of the input breaks the loop, and RemoteServer returns with the *)
(* listener and the threads of connections still there.  A terminal has no *)
(* end; module Machine says what the console reads.                        *)
ConsoleEnds ==
  /\ console = "prompt" /\ console' = "left"
  /\ UNCHANGED <<listener, quit, active_conn, log, listenerSocket, served, loaded, overlapped, command, client, holds>>

(* Sockets.QuietClose: the listening socket is not closed for good while a *)
(* client is in Connect.                                                   *)
NobodyConnects == \A c \in Clients : client[c] \notin {"connecting", "dropped"}
QuietClose(h)  == holds["listener"] = {h} => NobodyConnects

(* Close(GS(listener_socket)).  Unassigned it is any fid: of no stream, or *)
(* of the listening socket.                                                *)
CloseListener ==
  /\ console = "quit"
  /\ \/ QuietClose("server") /\ holds' = [holds EXCEPT !["listener"] = @ \ {"server"}]
     \/ ~ listenerSocket /\ UNCHANGED holds
  /\ console' = "join"
  /\ UNCHANGED <<listener, quit, active_conn, log, listenerSocket, served, loaded, overlapped, command, client>>

JoinListener ==
  /\ console = "join" /\ listener.at = "ended"
  /\ console' = "wait"
  /\ UNCHANGED <<listener, quit, active_conn, log, listenerSocket, served, loaded, overlapped, command, client, holds>>

ConnectionsDone == active_conn = 0

(* The loop on conn_done: each client thread broadcasts after its          *)
(* decrement, so the console looks again after each.                       *)
WaitConnections ==
  /\ console = "wait" /\ MutexFree /\ ConnectionsDone
  /\ console' = "truncate"
  /\ UNCHANGED <<listener, quit, active_conn, log, listenerSocket, served, loaded, overlapped, command, client, holds>>

log_truncate ==
  /\ console = "truncate"
  /\ log' = 0
  /\ console' = "returned"
  /\ UNCHANGED <<listener, quit, active_conn, listenerSocket, served, loaded, overlapped, command, client, holds>>

-----------------------------------------------------------------------------
(* rsrv_client, for the connection of c.                                   *)

(* It takes its ID and logs that it has started.                           *)
StartClientThread(c) ==
  /\ served[c] = "started" /\ log_message
  /\ served' = [served EXCEPT ![c] = "request"]
  /\ UNCHANGED <<console, listener, quit, active_conn, listenerSocket, loaded, overlapped, command, client, holds>>

(* recv_message reads until all bytes or the end of the stream have come.  *)
recv_message(c, complete) == client[c] = IF complete THEN "reading" ELSE "aborted"

(* It fails: the thread logs it and finishes; the socket stays open in the *)
(* server.                                                                 *)
BadRequest(c) ==
  /\ served[c] = "request" /\ recv_message(c, FALSE) /\ log_message
  /\ served' = [served EXCEPT ![c] = "finish"]
  /\ UNCHANGED <<console, listener, quit, active_conn, listenerSocket, loaded, overlapped, command, client, holds>>

(* Both parts of the request have come; their length is in the range that  *)
(* rsrv_client asserts.  Execute: the child gets a copy of every fid that  *)
(* the server has open.                                                    *)
Inherited(c) == [k \in DOMAIN holds |-> IF "server" \in holds[k] THEN holds[k] \cup {c} ELSE holds[k]]

(* Execute has failed for want of a free PCB, and the thread has not yet   *)
(* called WaitChild(NOPROC), which waits for any child of the server.      *)
TableFull == \E d \in Clients : command[d] = "failed" /\ served[d] \in {"executed", "wait"}

(* Execute fails only when the server has no child, and none is started    *)
(* before that WaitChild, so that no thread reaps the child of another     *)
(* (Proc.OneReaperPerChild).                                               *)
ServerHasChild == \E d \in Clients : command[d] \in {"running", "exited"}

ExecuteRequest(c) ==
  /\ served[c] = "request" /\ recv_message(c, TRUE)
  /\ \/ ~ TableFull /\ command' = [command EXCEPT ![c] = "running"] /\ holds' = Inherited(c)
     \/ ~ ServerHasChild /\ command' = [command EXCEPT ![c] = "failed"] /\ UNCHANGED holds
  /\ served' = [served EXCEPT ![c] = "executed"]
  /\ UNCHANGED <<console, listener, quit, active_conn, log, listenerSocket, loaded, overlapped, client>>

(* Close(sock) in the server.                                              *)
CloseSocket(c) == holds' = [holds EXCEPT ![c] = @ \ {"server"}]

CloseRequest(c) ==
  /\ served[c] = "executed"
  /\ CloseSocket(c)
  /\ served' = [served EXCEPT ![c] = "wait"]
  /\ UNCHANGED <<console, listener, quit, active_conn, log, listenerSocket, loaded, overlapped, command, client>>

(* rsrv_process: the command runs on the socket and ends; the exit of the  *)
(* process closes what it holds.                                           *)
rsrv_process(c) ==
  /\ command[c] = "running" /\ QuietClose(c)
  /\ command' = [command EXCEPT ![c] = "exited"]
  /\ holds' = [k \in DOMAIN holds |-> holds[k] \ {c}]
  /\ UNCHANGED <<console, listener, quit, active_conn, log, listenerSocket, served, loaded, overlapped, client>>

(* WaitChild, and the log of the exit status.  WaitChild(NOPROC) returns   *)
(* at once, there being no child.                                          *)
ReapRequest(c) ==
  /\ served[c] = "wait" /\ command[c] \in {"exited", "failed"} /\ log_message
  /\ command' = [command EXCEPT ![c] = IF @ = "exited" THEN "reaped" ELSE "failed"]
  /\ served' = [served EXCEPT ![c] = "finish"]
  /\ UNCHANGED <<console, listener, quit, active_conn, listenerSocket, loaded, overlapped, client, holds>>

(* active_conn-- under the mutex: the load, the store and Cond_Broadcast.  *)
LoadCount(c) ==
  /\ served[c] = "finish" /\ MutexFree
  /\ loaded' = active_conn
  /\ served' = [served EXCEPT ![c] = "ending"]
  /\ UNCHANGED <<console, listener, quit, active_conn, log, listenerSocket, overlapped, command, client, holds>>

FinishConnection(c) ==
  /\ served[c] = "ending"
  /\ active_conn' = loaded - 1 /\ loaded' = 0 /\ overlapped' = (overlapped \/ listener.at = "count")
  /\ served' = [served EXCEPT ![c] = "gone"]
  /\ UNCHANGED <<console, listener, quit, log, listenerSocket, command, client, holds>>

rsrv_client(c) ==
  /\ GlobalsAlive
  /\ \/ StartClientThread(c) \/ BadRequest(c) \/ ExecuteRequest(c) \/ CloseRequest(c)
     \/ ReapRequest(c) \/ LoadCount(c) \/ FinishConnection(c)

-----------------------------------------------------------------------------
(* RemoteClient, in a process of its own.                                  *)

(* One client at a time is in Connect (Sockets.OneConnect).                *)
ConnectClient(c) ==
  /\ client[c] = "idle" /\ console # "off" /\ NobodyConnects
  /\ client' = [client EXCEPT ![c] = IF Listening THEN "connecting" ELSE "refused"]
  /\ UNCHANGED <<console, listener, quit, active_conn, log, listenerSocket, served, loaded, overlapped, command, holds>>

(* The timeout of Connect.                                                 *)
ConnectFails(c) ==
  /\ client[c] \in {"connecting", "dropped"}
  /\ client' = [client EXCEPT ![c] = "refused"]
  /\ UNCHANGED <<console, listener, quit, active_conn, log, listenerSocket, served, loaded, overlapped, command, holds>>

(* send_message writes all bytes, or the client exits after part of them.  *)
send_message == {"reading", "aborted"}

(* Both messages and ShutDown.                                             *)
SendRequest(c) ==
  /\ client[c] = "sending"
  /\ \E next \in send_message : client' = [client EXCEPT ![c] = next]
  /\ UNCHANGED <<console, listener, quit, active_conn, log, listenerSocket, served, loaded, overlapped, command, holds>>

(* The output ends when nobody holds the other end of the socket.          *)
OutputEnds(c) ==
  /\ client[c] = "reading" /\ holds[c] = {}
  /\ client' = [client EXCEPT ![c] = "done"]
  /\ UNCHANGED <<console, listener, quit, active_conn, log, listenerSocket, served, loaded, overlapped, command, holds>>

RemoteClient(c) == ConnectClient(c) \/ ConnectFails(c) \/ SendRequest(c) \/ OutputEnds(c)

-----------------------------------------------------------------------------
rsrv_listener_thread ==
  /\ GlobalsAlive
  /\ \/ ListenOnPort \/ PublishSocket \/ CallAccept \/ StartServing \/ AcceptFails
     \/ \E c \in Clients : AcceptConnection(c)
QuitConsole == CloseListener \/ JoinListener \/ WaitConnections \/ log_truncate

ServerNext ==
  \/ rsrv_listener_thread \/ ConsoleQuit \/ QuitConsole
  \/ \E c \in Clients : rsrv_client(c) \/ rsrv_process(c) \/ RemoteClient(c)

(* Threads and processes are scheduled; nobody has to type q, and a client *)
(* need not come.  A connecting client is accepted or gives up.            *)
ServerFairness ==
  /\ WF_serverVars(rsrv_listener_thread) /\ WF_serverVars(QuitConsole)
  /\ \A c \in Clients :
       /\ WF_serverVars(rsrv_client(c)) /\ WF_serverVars(rsrv_process(c))
       /\ WF_serverVars(ConnectFails(c) \/ SendRequest(c) \/ OutputEnds(c))

-----------------------------------------------------------------------------
(* The thread of a connection has begun and not passed its Close(sock), or *)
(* it never will, as it did not get its request.                           *)
KeepsSocket(c) ==
  \/ listener.conn = c \/ served[c] \in {"started", "request", "executed"}
  \/ served[c] \in {"finish", "ending", "gone"} /\ command[c] = "none"

(* "Synchronize with active threads": as long as no active_conn++ of the   *)
(* listener, which takes no mutex, has overlapped an active_conn--, it     *)
(* counts the connections whose threads have not finished, and when the    *)
(* console returns after q no thread of the server is left that uses the   *)
(* globals; the listener has ended by then in any case.                    *)
(*                                                                         *)
(* A client sees the end of its output only after its command has ended or *)
(* could not be started, also when threads of other connections execute    *)
(* theirs between its Execute and its Close: a socket is held by the       *)
(* server until the Close, which a bad request never reaches, and          *)
(* otherwise only by commands that run, its own among them.                *)
ServerInvariant ==
  /\ ServerTypeOK
  /\ ~ overlapped =>
       /\ active_conn = Cardinality({c \in Clients : served[c] \notin {"none", "gone"}})
       /\ console = "returned" => \A c \in Clients : served[c] \in {"none", "gone"}
  /\ console \in {"wait", "truncate", "returned"} => listener.at = "ended"
  /\ \A c \in Clients :
       /\ "server" \in holds[c] <=> KeepsSocket(c)
       /\ c \in holds[c] <=> command[c] = "running"
       /\ \A d \in holds[c] \ {"server"} : command[d] = "running"
       /\ client[c] = "done" => command[c] \in {"failed", "exited", "reaped"}

(* A server that was told to quit has not returned, or a client that has   *)
(* sent its request has not seen the end of its output, although the       *)
(* console has not left by the end of its input and the count is right.    *)
ServerGoesOn ==
  /\ console # "left" /\ ~ overlapped
  /\ \/ console \in {"quit", "join", "wait", "truncate"}
     \/ \E c \in Clients : client[c] = "reading"
=============================================================================
