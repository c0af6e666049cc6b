------------------------------ MODULE Sockets -------------------------------
(***************************************************************************)
(* Sockets (kernel_socket.c): listeners bound to ports, the rendezvous of  *)
(* Connect and Accept, and the two pipes of a connection.                  *)
(*                                                                         *)
(* Every system call is atomic in the kernel monitor except where it       *)
(* sleeps: Accept and Connect sleep on the one condition variable of the   *)
(* listener (KernelMonitor: the first waiter is woken first, a timeout     *)
(* takes a waiter away), Read and Write on the pipe, for any time (module  *)
(* Pipe).  While a Read or Write is under way the stream stays open        *)
(* (module Streams); Accept and Connect hold no such reference.            *)
(*                                                                         *)
(* sys_Connect stores the address of its local variable request in the     *)
(* queue, so what Accept follows leads into the stack of the connecting    *)
(* thread: a request is named by that thread.  In the debug build the word *)
(* after request is socket, which Accept reads as the peer, and Accept's   *)
(* admitted = 1 overwrites request.  Where the code follows a pointer that *)
(* is not, or no longer, what it takes it for, wild becomes TRUE and the   *)
(* model stops: nothing is said of what comes after such an access.        *)
(* refcount is left out: it is unsigned, so refcount < 0 never holds and   *)
(* no SCB is freed.                                                        *)
(***************************************************************************)
EXTENDS Integers, SequencesExt

CONSTANTS
  Threads,
  MaxSockets,  \* bound: SCBs allocated, and so streams opened
  MAX_PORT,
  MaxPipes,    \* bound: pipes allocated
  Modes,       \* the modes of ShutDown
  Orderly,     \* TRUE: programs keep to the rules below
  NULL

NOPORT == 0
Ports  == 1 .. MAX_PORT
Socks  == 1 .. MaxSockets
Pipes  == 1 .. MaxPipes

ASSUME SocketsAssumption ==
  /\ MaxSockets \in Nat /\ MaxPipes \in Nat
  /\ MAX_PORT \in Nat
  /\ Modes \subseteq {"SHUTDOWN_READ", "SHUTDOWN_WRITE", "SHUTDOWN_BOTH"}
  /\ Orderly \in BOOLEAN
  /\ NULL \notin Threads \cup Socks \cup Pipes

VARIABLES
  type, port,             \* of each SCB; type "NONE" if not allocated
  peer, read_pipe, write_pipe,
  open,                   \* the sockets whose stream is open
  PORT_MAP,
  queue,                  \* the requests at each listener
  req_available,          \* the threads asleep on its condition variable
  ends,                   \* the open ends of each pipe
  freed,                  \* the pipes freed
  call,                   \* what each thread is blocked in
  wild

scbVars  == <<type, port, peer, read_pipe, write_pipe>>
pipeVars == <<ends, freed>>
waitVars == <<queue, req_available>>
vars == <<scbVars, open, PORT_MAP, waitVars, pipeVars, call, wild>>

Types == {"NONE", "SOCKET_UNBOUND", "SOCKET_PEER", "SOCKET_LISTENER"}
Ends  == {"reader", "writer"}

(* on: the listener of Accept and Connect, the pipe of Read and Write.     *)
NoCall == [op |-> "none", sock |-> NULL, on |-> NULL, at |-> "running", admitted |-> FALSE]
Blocked(op, s, on, at) == [op |-> op, sock |-> s, on |-> on, at |-> at, admitted |-> FALSE]

TypeOK ==
  /\ type \in [Socks -> Types]
  /\ port \in [Socks -> Ports \cup {NOPORT}]
  /\ peer \in [Socks -> Socks \cup {NULL}]
  /\ read_pipe \in [Socks -> Pipes \cup {NULL}]
  /\ write_pipe \in [Socks -> Pipes \cup {NULL}]
  /\ open \subseteq Socks
  /\ PORT_MAP \in [Ports -> Socks \cup {NULL}]
  /\ queue \in [Socks -> Seq(Threads)]
  /\ req_available \in [Socks -> Seq(Threads)]
  /\ ends \in [Pipes -> SUBSET Ends]
  /\ freed \subseteq Pipes
  /\ call \in [Threads -> [op : {"none", "accept", "connect", "read", "write"},
                           sock : Socks \cup {NULL},
                           on : Socks \cup Pipes \cup {NULL},
                           at : {"running", "asleep", "signalled", "expired"},
                           admitted : BOOLEAN]]
  /\ wild \in BOOLEAN

Init ==
  /\ type = [s \in Socks |-> "NONE"]
  /\ port = [s \in Socks |-> NOPORT]
  /\ peer = [s \in Socks |-> NULL]
  /\ read_pipe = [s \in Socks |-> NULL]
  /\ write_pipe = [s \in Socks |-> NULL]
  /\ open = {}
  /\ PORT_MAP = [p \in Ports |-> NULL]
  /\ queue = [s \in Socks |-> << >>]
  /\ req_available = [s \in Socks |-> << >>]
  /\ ends = [p \in Pipes |-> {}]
  /\ freed = {}
  /\ call = [t \in Threads |-> NoCall]
  /\ wild = FALSE

-----------------------------------------------------------------------------
(* The rules of orderly programs, which the tests keep to.  They restrict  *)
(* what programs call, not when a timeout of Connect runs out.             *)

Idle(t)       == call[t].op = "none"
In(t, op, on) == call[t].op = op /\ call[t].on = on
Waits(t, op, on) == In(t, op, on) /\ call[t].at = "asleep"

OneAccept(l) == Orderly => \A t \in Threads : ~ In(t, "accept", l)
OneConnect(s, l) ==
  Orderly => \A t \in Threads : call[t].op = "connect" =>
               /\ call[t].sock # s
               /\ call[t].on = l => call[t].at = "signalled"
QuietClose(s) ==
  Orderly => \A t \in Threads : call[t].op = "connect" /\ call[t].at # "signalled" =>
               s \notin {call[t].sock, call[t].on}
QuietListen(s) ==
  Orderly => \A t \in Threads : call[t].op = "connect" => call[t].sock # s
QuietShutDown(s, how) ==
  Orderly => \A t \in Threads : call[t].sock = s =>
               /\ call[t].op = "read" => how = "SHUTDOWN_WRITE"
               /\ call[t].op = "write" => how = "SHUTDOWN_READ"

-----------------------------------------------------------------------------
(* kernel_signal on the listener's condition variable.                     *)
Signalled(calls, l) ==
  IF req_available[l] = << >> THEN calls
  ELSE [calls EXCEPT ![Head(req_available[l])].at = "signalled"]
Rest(waiters) == IF waiters = << >> THEN << >> ELSE Tail(waiters)

FreeSCBs == {s \in Socks : type[s] = "NONE"}
NewSCB   == CHOOSE s \in FreeSCBs : \A r \in FreeSCBs : s <= r
NewPipes == {p \in Pipes : ends[p] = {} /\ p \notin freed}
NewPipe1 == CHOOSE p \in NewPipes : \A q \in NewPipes : p <= q
NewPipe2 == CHOOSE p \in NewPipes \ {NewPipe1} : \A q \in NewPipes \ {NewPipe1} : p <= q

-----------------------------------------------------------------------------
(* Mutants: what a plausible slip in kernel_socket.c would do.             *)
OnePortMore(p)       == p <= MAX_PORT + 1
ListenedTo(s)        == type[s] # "SOCKET_LISTENER"
StayBound(s)         == PORT_MAP
SignalNobody(calls, l) == calls
Uncrossed(client, server, p1, p2) ==
  /\ read_pipe' = [read_pipe EXCEPT ![server] = p2, ![client] = p2]
  /\ write_pipe' = [write_pipe EXCEPT ![server] = p1, ![client] = p1]
KeepRequest(t)       == queue

-----------------------------------------------------------------------------
LegalPort(p) == p >= 0 /\ p <= MAX_PORT

sys_Socket(p) ==
  /\ ~ wild
  /\ \E t \in Threads : Idle(t)
  /\ LegalPort(p)
  /\ FreeSCBs # {}
  /\ type' = [type EXCEPT ![NewSCB] = "SOCKET_UNBOUND"]
  /\ port' = [port EXCEPT ![NewSCB] = p]
  /\ open' = open \cup {NewSCB}
  /\ UNCHANGED <<peer, read_pipe, write_pipe, PORT_MAP, waitVars, pipeVars, call, wild>>

sys_Listen(s) ==
  /\ ~ wild
  /\ \E t \in Threads : Idle(t)
  /\ s \in open /\ type[s] = "SOCKET_UNBOUND"
  /\ port[s] \in Ports /\ PORT_MAP[port[s]] = NULL
  /\ QuietListen(s)
  /\ type' = [type EXCEPT ![s] = "SOCKET_LISTENER"]
  /\ PORT_MAP' = [PORT_MAP EXCEPT ![port[s]] = s]
  /\ queue' = [queue EXCEPT ![s] = << >>]
  /\ req_available' = [req_available EXCEPT ![s] = << >>]
  /\ UNCHANGED <<port, peer, read_pipe, write_pipe, open, pipeVars, call, wild>>

-----------------------------------------------------------------------------
(* sys_Accept: one round of its loop and what follows it.                  *)

AcceptWaits(t, l) ==
  /\ queue[l] = << >> /\ port[l] # NOPORT
  /\ call' = [call EXCEPT ![t] = Blocked("accept", NULL, l, "asleep")]
  /\ req_available' = [req_available EXCEPT ![l] = Append(@, t)]
  /\ UNCHANGED <<scbVars, open, PORT_MAP, queue, pipeVars, wild>>

AcceptClosed(t, l) ==
  /\ port[l] = NOPORT
  /\ call' = [call EXCEPT ![t] = NoCall]
  /\ UNCHANGED <<scbVars, open, PORT_MAP, waitVars, pipeVars, wild>>

(* The process has no file id, or the system no FCB, for the new socket.   *)
AcceptFails(t, l) ==
  /\ queue[l] # << >> /\ port[l] # NOPORT
  /\ queue' = [queue EXCEPT ![l] = Tail(@)]
  /\ call' = [call EXCEPT ![t] = NoCall]
  /\ UNCHANGED <<scbVars, open, PORT_MAP, req_available, pipeVars, wild>>

(* Connect has returned, or its socket was closed and its FCB may serve    *)
(* another stream by now.                                                  *)
StaleRequest(u) == call[u].op # "connect" \/ call[u].sock \notin open

(* The server writes to p1 and reads from p2, the client the reverse.      *)
LinkPipes(client, server, p1, p2) ==
  /\ read_pipe' = [read_pipe EXCEPT ![server] = p2, ![client] = p1]
  /\ write_pipe' = [write_pipe EXCEPT ![server] = p1, ![client] = p2]

Admit(t, l) ==
  LET u == Head(queue[l])
      client == call[u].sock
      server == NewSCB
  IN
  /\ queue[l] # << >> /\ port[l] # NOPORT
  /\ FreeSCBs # {} /\ Cardinality(NewPipes) >= 2
  /\ queue' = [queue EXCEPT ![l] = Tail(@)]
  /\ type' = [type EXCEPT ![server] = "SOCKET_PEER", ![client] = "SOCKET_PEER"]
  /\ port' = [port EXCEPT ![server] = port[l]]
  /\ open' = open \cup {server}
  /\ peer' = [peer EXCEPT ![server] = client, ![client] = server]
  /\ LinkPipes(client, server, NewPipe1, NewPipe2)
  /\ ends' = [ends EXCEPT ![NewPipe1] = Ends, ![NewPipe2] = Ends]
  /\ call' = Signalled([call EXCEPT ![t] = NoCall, ![u].admitted = TRUE], l)
  /\ req_available' = [req_available EXCEPT ![l] = Rest(@)]
  /\ wild' = (wild \/ StaleRequest(u))
  /\ UNCHANGED <<PORT_MAP, freed>>

AcceptRound(t, l) ==
  AcceptWaits(t, l) \/ AcceptClosed(t, l) \/ AcceptFails(t, l) \/ Admit(t, l)

sys_Accept(t, l) ==
  /\ ~ wild
  /\ Idle(t)
  /\ l \in open /\ type[l] = "SOCKET_LISTENER"
  /\ OneAccept(l)
  /\ AcceptRound(t, l)

WokenAccept(t) ==
  /\ ~ wild
  /\ call[t].op = "accept" /\ call[t].at = "signalled"
  /\ AcceptRound(t, call[t].on)

-----------------------------------------------------------------------------
(* sys_Connect, up to its sleep and after it.                              *)

Connectable(s) == type[s] = "SOCKET_UNBOUND"

(* kernel_signal in sys_Connect.                                           *)
Announce(calls, l) == Signalled(calls, l)

sys_Connect(t, s, p) ==
  LET l == PORT_MAP[p] IN
  /\ ~ wild
  /\ Idle(t)
  /\ s \in open /\ Connectable(s)
  /\ l # NULL /\ type[l] = "SOCKET_LISTENER"
  /\ OneConnect(s, l)
  /\ queue' = [queue EXCEPT ![l] = Append(@, t)]
  /\ call' = Announce([call EXCEPT ![t] = Blocked("connect", s, l, "asleep")], l)
  /\ req_available' = [req_available EXCEPT ![l] = Append(Rest(@), t)]
  /\ UNCHANGED <<scbVars, open, PORT_MAP, pipeVars, wild>>

(* Signalled: Connect returns 0, without looking at admitted.              *)
ConnectReturns(t) ==
  /\ ~ wild
  /\ call[t].op = "connect" /\ call[t].at = "signalled"
  /\ call' = [call EXCEPT ![t] = NoCall]
  /\ UNCHANGED <<scbVars, open, PORT_MAP, waitVars, pipeVars, wild>>

(* The timeout of kernel_timedwait, when it comes before a signal.  The    *)
(* thread goes on later, and until then its request is in the queue.       *)
Expire(t) ==
  /\ ~ wild
  /\ call[t].op = "connect" /\ call[t].at = "asleep"
  /\ call' = [call EXCEPT ![t].at = "expired"]
  /\ req_available' = [req_available EXCEPT ![call[t].on] = RemoveFirst(@, t)]
  /\ UNCHANGED <<scbVars, open, PORT_MAP, queue, pipeVars, wild>>

(* rlist_remove: the thread's latest request leaves the queue, if it is    *)
(* still there.                                                            *)
DropRequest(t) ==
  LET l == call[t].on
      i == SelectLastInSeq(queue[l], LAMBDA u : u = t)
  IN IF i = 0 THEN queue ELSE [queue EXCEPT ![l] = RemoveAt(@, i)]

(* If Accept has overwritten request, that is what is removed and freed.   *)
ConnectTimesOut(t) ==
  /\ ~ wild
  /\ call[t].op = "connect" /\ call[t].at = "expired"
  /\ queue' = DropRequest(t)
  /\ call' = [call EXCEPT ![t] = NoCall]
  /\ wild' = (wild \/ call[t].admitted)
  /\ UNCHANGED <<scbVars, open, PORT_MAP, req_available, pipeVars>>

-----------------------------------------------------------------------------
(* pipe_reader_close and pipe_writer_close for a set of pairs of a pipe    *)
(* and an end: the pipe is freed when its other end is closed too.         *)
IsOpen(e) == e[1] # NULL /\ e[2] \in ends[e[1]]

FreedBy(closed) == {e[1] : e \in {d \in closed : ends[d[1]] = {d[2]}}}

CloseEnds(closed) ==
  /\ ends' = [p \in Pipes |-> ends[p] \ {e \in Ends : <<p, e>> \in closed}]
  /\ freed' = freed \cup FreedBy(closed)

ReadEnd(s)  == <<read_pipe[s], "reader">>
WriteEnd(s) == <<write_pipe[s], "writer">>

(* PORT_MAP after the close of a listener.                                 *)
Unbind(s) == [PORT_MAP EXCEPT ![port[s]] = NULL]

(* kernel_signal in socket_close.                                          *)
WakeOne(calls, l) == Signalled(calls, l)

(* socket_close, when the last reference to the stream is dropped.         *)
MayClose(s) ==
  /\ ~ wild
  /\ s \in open
  /\ \A t \in Threads : call[t].sock = s => call[t].op \notin {"read", "write"}
  /\ QuietClose(s)

(* The requests left are freed by the node inside them, which is not what  *)
(* was allocated.                                                          *)
CloseListener(s) ==
  /\ MayClose(s) /\ type[s] = "SOCKET_LISTENER"
  /\ queue' = [queue EXCEPT ![s] = << >>]
  /\ wild' = (wild \/ queue[s] # << >>)
  /\ PORT_MAP' = Unbind(s)
  /\ port' = [port EXCEPT ![s] = NOPORT]
  /\ open' = open \ {s}
  /\ call' = WakeOne(call, s)
  /\ req_available' = [req_available EXCEPT ![s] = Rest(@)]
  /\ UNCHANGED <<type, peer, read_pipe, write_pipe, pipeVars>>

ClosePeer(s) ==
  /\ MayClose(s) /\ type[s] = "SOCKET_PEER"
  /\ CloseEnds({e \in {ReadEnd(s), WriteEnd(s)} : IsOpen(e)})
  /\ open' = open \ {s}
  /\ UNCHANGED <<scbVars, PORT_MAP, waitVars, call, wild>>

CloseUnbound(s) ==
  /\ MayClose(s) /\ type[s] = "SOCKET_UNBOUND"
  /\ open' = open \ {s}
  /\ UNCHANGED <<scbVars, PORT_MAP, waitVars, pipeVars, call, wild>>

(* What sys_ShutDown closes, and the pointers it clears on success.  Since *)
(* pipe_reader_close returns 0 on success, SHUTDOWN_BOTH closes the write  *)
(* end only if the read end was closed before.                             *)
ShutDownCloses(s, how) ==
  IF how = "SHUTDOWN_READ" \/ (how = "SHUTDOWN_BOTH" /\ IsOpen(ReadEnd(s)))
  THEN {ReadEnd(s)} ELSE {WriteEnd(s)}

sys_ShutDown(s, how) ==
  /\ ~ wild
  /\ \E t \in Threads : Idle(t)
  /\ s \in open /\ type[s] = "SOCKET_PEER"
  /\ QuietShutDown(s, how)
  /\ \A e \in ShutDownCloses(s, how) : IsOpen(e)
  /\ CloseEnds(ShutDownCloses(s, how))
  /\ read_pipe' = IF how = "SHUTDOWN_WRITE" THEN read_pipe ELSE [read_pipe EXCEPT ![s] = NULL]
  /\ write_pipe' = IF how = "SHUTDOWN_READ" THEN write_pipe ELSE [write_pipe EXCEPT ![s] = NULL]
  /\ UNCHANGED <<type, port, peer, open, PORT_MAP, waitVars, call, wild>>

-----------------------------------------------------------------------------
(* socket_read and socket_write enter the pipe's function, which comes     *)
(* back to the pipe whenever it wakes up.                                  *)

socket_read(t, s) ==
  /\ ~ wild
  /\ Idle(t)
  /\ s \in open /\ type[s] = "SOCKET_PEER"
  /\ IsOpen(ReadEnd(s))
  /\ call' = [call EXCEPT ![t] = Blocked("read", s, read_pipe[s], "asleep")]
  /\ UNCHANGED <<scbVars, open, PORT_MAP, waitVars, pipeVars, wild>>

socket_write(t, s) ==
  /\ ~ wild
  /\ Idle(t)
  /\ s \in open /\ type[s] = "SOCKET_PEER"
  /\ IsOpen(WriteEnd(s)) /\ IsOpen(<<write_pipe[s], "reader">>)
  /\ call' = [call EXCEPT ![t] = Blocked("write", s, write_pipe[s], "asleep")]
  /\ UNCHANGED <<scbVars, open, PORT_MAP, waitVars, pipeVars, wild>>

EndIO(t) ==
  /\ ~ wild
  /\ call[t].op \in {"read", "write"}
  /\ call' = [call EXCEPT ![t] = NoCall]
  /\ wild' = (wild \/ call[t].on \in freed)
  /\ UNCHANGED <<scbVars, open, PORT_MAP, waitVars, pipeVars>>

-----------------------------------------------------------------------------
Next ==
  \/ \E p \in 0 .. MAX_PORT + 1 : sys_Socket(p)
  \/ \E s \in Socks :
       \/ sys_Listen(s)
       \/ CloseListener(s) \/ ClosePeer(s) \/ CloseUnbound(s)
       \/ \E how \in Modes : sys_ShutDown(s, how)
  \/ \E t \in Threads, s \in Socks :
       \/ sys_Accept(t, s) \/ socket_read(t, s) \/ socket_write(t, s)
       \/ \E p \in Ports : sys_Connect(t, s, p)
  \/ \E t \in Threads :
       \/ WokenAccept(t)
       \/ ConnectReturns(t) \/ Expire(t) \/ ConnectTimesOut(t)
       \/ EndIO(t)

Spec == Init /\ [][Next]_vars

-----------------------------------------------------------------------------
(* Accept follows no stale request: whatever the order of timeouts,        *)
(* closes and failing Accepts, each request in a listener's queue is there *)
(* once and is that of a Connect still under way at this listener, asleep  *)
(* or just timed out, for a socket that is open and not yet connected.     *)
NoStaleRequest ==
  \A l \in Socks :
    /\ IsInjective(queue[l])
    /\ \A t \in ToSet(queue[l]) :
         /\ In(t, "connect", l) /\ ~ call[t].admitted
         /\ call[t].sock \in open /\ type[call[t].sock] = "SOCKET_UNBOUND"

(* tinyos.h on Connect: "If sucessful, the sock stream is connected to the *)
(* new stream created by the listener."  A Connect that is to return 0 was *)
(* admitted by an Accept, whoever else sleeps on the condition variable    *)
(* and as long as no stale pointer was followed.  It is not so when two    *)
(* Connects wait at one listener (the run sockets_two_connects).           *)
ConnectIsConnected ==
  \A t \in Threads : ~ wild /\ call[t].op = "connect" /\ call[t].at = "signalled" =>
    LET s == call[t].sock IN type[s] = "SOCKET_PEER" /\ peer[s] # NULL /\ peer[peer[s]] = s

(* tinyos.h on Listen: "On each port there must be a unique listening      *)
(* socket".  Listen and the close of a listener keep PORT_MAP exact.       *)
PortMapExact ==
  \A p \in Ports, s \in Socks :
    PORT_MAP[p] = s <=> s \in open /\ type[s] = "SOCKET_LISTENER" /\ port[s] = p

(* The pointers of a connection, for ever: each socket is the peer of its  *)
(* peer, although Connect tests the type before it sleeps and Accept sets  *)
(* it later, so none is connected twice; what one socket writes the other  *)
(* reads, a pointer that is not cleared leads to an open end, and a pipe   *)
(* is freed only when both its ends are closed and no Read or Write is in  *)
(* it, in whatever order the two sockets are shut down and closed.         *)
PipesCrossed ==
  /\ \A s \in Socks : type[s] = "SOCKET_PEER" => peer[peer[s]] = s
  /\ \A s \in open : type[s] = "SOCKET_PEER" =>
       /\ read_pipe[s] # NULL => IsOpen(ReadEnd(s))
       /\ write_pipe[s] # NULL => IsOpen(WriteEnd(s))
       /\ \A r \in open \ {s} :
            read_pipe[s] # NULL /\ read_pipe[s] = write_pipe[r] <=>
              peer[s] = r /\ read_pipe[s] # NULL /\ write_pipe[r] # NULL
  /\ \A p \in freed : ends[p] = {}
  /\ \A t \in Threads : call[t].op \in {"read", "write"} => ends[call[t].on] # {}

(* Nobody sleeps through the event it waits for: in Accept while there is  *)
(* a request to take or the listener is closed, or in Connect after Accept *)
(* has admitted it.  Their signals go to one condition variable, to the    *)
(* first who came.                                                         *)
NobodyForgotten ==
  \A t \in Threads, l \in Socks :
    /\ Waits(t, "accept", l) => queue[l] = << >> /\ port[l] # NOPORT
    /\ Waits(t, "connect", l) => ~ call[t].admitted

(* tinyos.h on ShutDown: SHUTDOWN_BOTH "is equivalent to shutting down     *)
(* both read and write".  So an end that is open is held by a socket that  *)
(* can still use or close it, or the other side waits for ever.            *)
EndsHeld ==
  \A p \in Pipes :
    /\ "reader" \in ends[p] => \E s \in open : read_pipe[s] = p
    /\ "writer" \in ends[p] => \E s \in open : write_pipe[s] = p

(* The sockets are linked as they should be: the port map to the listeners *)
(* and the peers to the pipes of their connection, each end once.          *)
SocketInvariant == TypeOK /\ PortMapExact /\ PipesCrossed

=============================================================================
