------------------------------ MODULE Startup ------------------------------
(***************************************************************************)
(* The life of the process around the connections: main shares the ports   *)
(* (PortBalance), looks at the options (Options), spawns a thread per      *)
(* chunk and joins them; each thread sets up its runtime, creates a        *)
(* SO_REUSEPORT listener per address, one after the other, and accepts; a  *)
(* task per connection does the handshake, serves, and gives the           *)
(* descriptor back when the client has left; the kernel queues a client on *)
(* any socket that listens on its port, from the moment that socket        *)
(* listens.  Listeners, runtimes and connections share the descriptors     *)
(* that the process may have.                                              *)
(*                                                                         *)
(* What a thread does when a listener cannot be created depends on the     *)
(* runtime: tokio, mcp and smol return the error, tokio_uring, monoio and  *)
(* compio log it and return without one, and all of these close the        *)
(* listeners they had; glommio returns the error too, but it had turned    *)
(* its listeners into raw descriptors, which nothing closes.  A panic      *)
(* aborts the process, as the release profile says.                        *)
(***************************************************************************)
EXTENDS PortBalance, Options

CONSTANTS
  Connections,  \* bound: connections the clients make
  MaxThreads,   \* no scenario starts more threads
  SetupCost     \* the descriptors of a runtime: epoll or rings, and wakers

ReturnError == {"tokio", "smol", "glommio"}

(***************************************************************************)
(* These try the accept call before they wait for the listener: as long as *)
(* it has a result, a connection or an error, the loop does not yield.     *)
(***************************************************************************)
AcceptAtOnce == {"smol", "glommio"}

(***************************************************************************)
(* broken: ports that create_listener fails to bind; portZero: the port is *)
(* 0, and the kernel chooses; limit: the descriptors that the process may  *)
(* have beyond those it has when main spawns the threads; clients: what    *)
(* kinds of clients there are.                                             *)
(***************************************************************************)
ASSUME StartupAssumption ==
  /\ MaxThreads \in Nat /\ SetupCost \in Nat /\ IsFiniteSet(Connections)
  /\ \A s \in Scenarios :
       /\ IsOptions(s)
       /\ s.threads <= MaxThreads \/ Refused(s)
       /\ s.broken \subseteq 0..(s.ports - 1)
       /\ s.portZero \in BOOLEAN
       /\ s.portZero => s.ports = 1 /\ s.threads <= 1
       /\ s.limit \in Nat
       /\ s.clients \subseteq ClientKinds
       /\ \A k \in s.clients : ~k.tls => \E p \in k.offers : k.offers = {p}

VARIABLES
  mainpc,   \* "options", "refused", "spawn", "join", "returned" or "aborted"
  spawned,  \* threads spawned
  joined,   \* threads joined
  wpc,      \* per thread: "unborn", "setup", "bind", "accept" or "ended"
  result,   \* what run_thread returned: "none", "ok" or "err"
  made,     \* listeners the thread has created
  sockets,  \* the sockets that listen, as <<thread, port>>
  conns     \* per connection: its state, thread, port and kind of client

workerVars == <<wpc, result, made, sockets, conns>>
mainVars   == <<mainpc, spawned, joined>>
vars == <<balanceVars, mainVars, workerVars>>

AnyThread == 0..(MaxThreads - 1)
NoClient == [tls |-> FALSE, offers |-> {}]
NoConn == [state |-> "none", thread |-> -1, port |-> -1, client |-> NoClient]

(***************************************************************************)
(* A connection is queued by the kernel; open once it is accepted; served, *)
(* ignored or failed after its first bytes; left by its client; closed.    *)
(***************************************************************************)
Holding == {"open", "served", "ignored", "left"}
ConnStates ==
  Holding \cup {"none", "queued", "failed", "closed", "refused", "reset"}

Connection ==
  [state : ConnStates, thread : AnyThread \cup {-1}, port : Nat \cup {-1},
   client : ClientKinds]

TypeOK ==
  /\ mainpc \in {"options", "refused", "spawn", "join", "returned", "aborted"}
  /\ spawned \in 0..conf.threads /\ joined \in 0..conf.threads
  /\ wpc \in [AnyThread -> {"unborn", "setup", "bind", "accept", "ended"}]
  /\ result \in [AnyThread -> {"none", "ok", "err"}]
  /\ made \in [AnyThread -> Nat]
  /\ sockets \subseteq AnyThread \X (0..(conf.ports - 1))
  /\ conns \in [Connections -> Connection]

Init ==
  /\ BalanceInit
  /\ mainpc = "options" /\ spawned = 0 /\ joined = 0
  /\ wpc = [t \in AnyThread |-> "unborn"]
  /\ result = [t \in AnyThread |-> "none"]
  /\ made = [t \in AnyThread |-> 0]
  /\ sockets = {}
  /\ conns = [c \in Connections |-> NoConn]

Running == mainpc \notin {"refused", "returned", "aborted"}

(***************************************************************************)
(* Closing sockets resets the connections queued on them.                  *)
(***************************************************************************)
Close(closed) ==
  /\ sockets' = sockets \ closed
  /\ conns' = [c \in Connections |->
       IF conns[c].state = "queued" /\ <<conns[c].thread, conns[c].port>> \in closed
         THEN [conns[c] EXCEPT !.state = "reset"] ELSE conns[c]]

(***************************************************************************)
(* A panic: the process ends with all its sockets.                         *)
(***************************************************************************)
Abort ==
  /\ mainpc' = "aborted"
  /\ sockets' = {}
  /\ conns' = [c \in Connections |->
       IF conns[c].state \in Holding \cup {"queued"}
         THEN [conns[c] EXCEPT !.state = "reset"] ELSE conns[c]]
  /\ UNCHANGED <<spawned, joined, wpc, result, made>>
-----------------------------------------------------------------------------
(***************************************************************************)
(* main                                                                    *)
(***************************************************************************)
BalanceStep == Balance /\ UNCHANGED <<mainVars, workerVars>>

CheckOptions ==
  /\ mainpc = "options" /\ pc = "done"
  /\ mainpc' = IF Refused(conf) THEN "refused" ELSE "spawn"
  /\ UNCHANGED <<balanceVars, spawned, joined, workerVars>>

(***************************************************************************)
(* A runtime is set up before the listeners, after them, or, smol's        *)
(* reactor, which the process has one of, with the first of them.          *)
(***************************************************************************)
SetupFirst == conf.runtime \in {"tokio_uring", "monoio", "compio"}
SetupLast  == conf.runtime \in {"tokio", "glommio"}
Entry      == IF SetupFirst THEN "setup" ELSE "bind"

Spawn ==
  /\ mainpc = "spawn"
  /\ spawned < conf.threads
  /\ wpc' = [wpc EXCEPT ![spawned] = Entry]
  /\ spawned' = spawned + 1
  /\ UNCHANGED <<balanceVars, mainpc, joined, result, made, sockets, conns>>

AllSpawned ==
  /\ mainpc = "spawn"
  /\ spawned = conf.threads
  /\ mainpc' = "join"
  /\ UNCHANGED <<balanceVars, spawned, joined, workerVars>>

Join ==
  /\ mainpc = "join"
  /\ joined < conf.threads
  /\ wpc[joined] = "ended"
  /\ joined' = joined + 1
  /\ UNCHANGED <<balanceVars, mainpc, spawned, workerVars>>

(***************************************************************************)
(* The meter thread is joined last, and never ends.  When main returns the *)
(* process ends, and whatever is still open is closed.                     *)
(***************************************************************************)
Return ==
  /\ mainpc = "join"
  /\ joined = conf.threads
  /\ ~conf.meter
  /\ mainpc' = "returned"
  /\ Close(sockets)
  /\ UNCHANGED <<balanceVars, spawned, joined, wpc, result, made>>
-----------------------------------------------------------------------------
(***************************************************************************)
(* A worker thread: run_thread of its runtime.                             *)
(***************************************************************************)
End(t, r) ==
  /\ wpc' = [wpc EXCEPT ![t] = "ended"]
  /\ result' = [result EXCEPT ![t] = r]

(***************************************************************************)
(* select_all over the listeners; over none of them, its stream is at its  *)
(* end at once, and run_thread returns Ok.                                 *)
(***************************************************************************)
Listen(t) ==
  IF made[t] = 0
    THEN End(t, "ok")
    ELSE /\ wpc' = [wpc EXCEPT ![t] = "accept"]
         /\ UNCHANGED result

(***************************************************************************)
(* The descriptors in use: of listeners, of runtimes, of connections.      *)
(***************************************************************************)
Held == {c \in Connections : conns[c].state \in Holding}

Reactor == \E t \in AnyThread : made[t] > 0 /\ wpc[t] # "setup"

HasRuntime(t) ==
  wpc[t] \in IF SetupFirst THEN {"bind", "accept"} ELSE {"accept"}

Built ==
  IF conf.runtime = "smol" THEN IF Reactor THEN 1 ELSE 0
  ELSE Cardinality({t \in AnyThread : HasRuntime(t)})

Used == Cardinality(sockets) + SetupCost * Built + Cardinality(Held)

Exhausted == Used >= conf.limit

(***************************************************************************)
(* The builder of a runtime: the kernel refuses it a ring of these sizes,  *)
(* or the descriptors it takes.  tokio and compio return the error; the    *)
(* others unwrap it.                                                       *)
(***************************************************************************)
RingRefused == conf.runtime \in UringRuntimes /\ ~RingGranted(conf)

SetupShort ==
  ~(conf.runtime = "smol" /\ Reactor) /\ Used + SetupCost > conf.limit

UnwrapsSetup == conf.runtime \notin {"tokio", "compio"}

Own(t) == {s \in sockets : s[1] = t}

Setup(t) ==
  /\ wpc[t] = "setup"
  /\ ~RingRefused /\ ~SetupShort
  /\ IF SetupLast
       THEN Listen(t)
       ELSE /\ wpc' = [wpc EXCEPT ![t] = "bind"]
            /\ UNCHANGED result
  /\ UNCHANGED <<balanceVars, mainVars, made, sockets, conns>>

SetupFails(t) ==
  /\ wpc[t] = "setup"
  /\ RingRefused \/ SetupShort
  /\ IF UnwrapsSetup
       THEN Abort
       ELSE End(t, "err") /\ Close(Own(t)) /\ UNCHANGED <<mainVars, made>>
  /\ UNCHANGED balanceVars

(***************************************************************************)
(* create_listener, which needs a descriptor before it looks at the port.  *)
(***************************************************************************)
NextPort(t) == (chunks[t].from + made[t]) % conf.ports
CannotListen(t) == Exhausted \/ NextPort(t) \in conf.broken

CreateListener(t) ==
  /\ wpc[t] = "bind"
  /\ made[t] < chunks[t].size
  /\ ~CannotListen(t)
  /\ sockets' = sockets \cup {<<t, NextPort(t)>>}
  /\ made' = [made EXCEPT ![t] = @ + 1]
  /\ wpc' = [wpc EXCEPT ![t] =
               IF conf.runtime = "smol" /\ made[t] = 0 THEN "setup" ELSE "bind"]
  /\ UNCHANGED <<balanceVars, mainVars, result, conns>>

(* Mutant of ClosedOnError: every runtime leaks its listeners.             *)
ClosedNever(t) == {}

ClosedOnError(t) == IF conf.runtime = "glommio" THEN {} ELSE Own(t)

(* Mutant of ListenerFails: the thread goes on with its other ports.       *)
ListenerSkipped(t) ==
  /\ wpc[t] = "bind"
  /\ made[t] < chunks[t].size
  /\ CannotListen(t)
  /\ made' = [made EXCEPT ![t] = @ + 1]
  /\ UNCHANGED <<balanceVars, mainVars, wpc, result, sockets, conns>>

ListenerFails(t) ==
  /\ wpc[t] = "bind"
  /\ made[t] < chunks[t].size
  /\ CannotListen(t)
  /\ End(t, IF conf.runtime \in ReturnError THEN "err" ELSE "ok")
  /\ Close(ClosedOnError(t))
  /\ UNCHANGED <<balanceVars, mainVars, made>>

Bound(t) ==
  /\ wpc[t] = "bind"
  /\ made[t] = chunks[t].size
  /\ IF SetupLast
       THEN /\ wpc' = [wpc EXCEPT ![t] = "setup"]
            /\ UNCHANGED result
       ELSE Listen(t)
  /\ UNCHANGED <<balanceVars, mainVars, made, sockets, conns>>
-----------------------------------------------------------------------------
(***************************************************************************)
(* The accept loop and the tasks of its connections.                       *)
(***************************************************************************)
QueuedOn(t) == {c \in Connections : conns[c].state = "queued" /\ conns[c].thread = t}

SetState(c, s) == conns' = [conns EXCEPT ![c].state = s]

(***************************************************************************)
(* port_counters(port) panics: the port the kernel chose for port 0 is not *)
(* among the registered ones.  The servers on hyper look it up in the      *)
(* accept loop, the pipelined handlers when their task begins.             *)
(***************************************************************************)
Unregistered == conf.meter /\ conf.portZero

(* Mutant of Accept: only the first listener is polled.                    *)
AcceptFirst(t) ==
  /\ wpc[t] = "accept"
  /\ ~Exhausted
  /\ \E c \in QueuedOn(t) :
       /\ conns[c].port = chunks[t].from % conf.ports
       /\ SetState(c, "open") /\ UNCHANGED <<mainVars, wpc, result, made, sockets>>
  /\ UNCHANGED balanceVars

Accept(t) ==
  /\ wpc[t] = "accept"
  /\ ~Exhausted
  /\ \E c \in QueuedOn(t) :
       IF Unregistered /\ OnHyper(conf)
         THEN Abort
         ELSE SetState(c, "open") /\ UNCHANGED <<mainVars, wpc, result, made, sockets>>
  /\ UNCHANGED balanceVars

(* Mutant of AcceptFails: the error is unwrapped.                          *)
AcceptUnwrapped(t) ==
  /\ wpc[t] = "accept"
  /\ Exhausted
  /\ QueuedOn(t) # {}
  /\ Abort
  /\ UNCHANGED balanceVars

(***************************************************************************)
(* Without a descriptor to spare accept is an error, which is logged; the  *)
(* listener is kept, the connection stays queued, and the loop goes on.    *)
(***************************************************************************)
AcceptFails(t) ==
  /\ wpc[t] = "accept"
  /\ Exhausted
  /\ QueuedOn(t) # {}
  /\ UNCHANGED vars

(* Mutant of TasksRun: every runtime polls its accept loop first.          *)
TasksRunLast(t) == QueuedOn(t) = {}

(***************************************************************************)
(* A task of the thread runs when its accept loop has yielded.             *)
(***************************************************************************)
TasksRun(t) == Server(conf) \in AcceptAtOnce => QueuedOn(t) = {}

Begin(c) ==
  /\ conns[c].state = "open"
  /\ TasksRun(conns[c].thread)
  /\ IF Unregistered
       THEN Abort
       ELSE /\ SetState(c, Session(conf, conns[c].client))
            /\ UNCHANGED <<mainVars, wpc, result, made, sockets>>
  /\ UNCHANGED balanceVars

Leave(c) ==
  /\ conns[c].state = "left"
  /\ TasksRun(conns[c].thread)
  /\ SetState(c, "closed")
  /\ UNCHANGED <<balanceVars, mainVars, wpc, result, made, sockets>>

TasksOf(t) == \E c \in Connections : conns[c].thread = t /\ (Begin(c) \/ Leave(c))

Worker(t) ==
  Running /\
    (Setup(t) \/ SetupFails(t) \/ CreateListener(t) \/ ListenerFails(t) \/ Bound(t)
       \/ Accept(t) \/ AcceptFails(t) \/ TasksOf(t))
-----------------------------------------------------------------------------
(***************************************************************************)
(* A client connects: the kernel picks a socket of the port, or refuses.   *)
(***************************************************************************)
Connect(c, p) ==
  /\ Running
  /\ conns[c].state = "none"
  /\ \E s \in sockets, k \in conf.clients : s[2] = p /\
       conns' = [conns EXCEPT ![c] =
                   [state |-> "queued", thread |-> s[1], port |-> p, client |-> k]]
  /\ UNCHANGED <<balanceVars, mainVars, wpc, result, made, sockets>>

Refuse(c, p) ==
  /\ conns[c].state = "none" /\ conf.clients # {}
  /\ \A s \in sockets : s[2] # p
  /\ conns' = [conns EXCEPT ![c].state = "refused", ![c].port = p]
  /\ UNCHANGED <<balanceVars, mainVars, wpc, result, made, sockets>>

HangUp(c) ==
  /\ Running
  /\ conns[c].state \in {"open", "served", "ignored"}
  /\ SetState(c, "left")
  /\ UNCHANGED <<balanceVars, mainVars, wpc, result, made, sockets>>

(***************************************************************************)
(* A client makes a request: the task of its connection runs the service.  *)
(* Here it matters only where that panics.                                 *)
(***************************************************************************)
Request(c) ==
  /\ Running
  /\ conns[c].state = "served"
  /\ TasksRun(conns[c].thread)
  /\ SleepPanics(conf)
  /\ Abort
  /\ UNCHANGED balanceVars

Main == BalanceStep \/ CheckOptions \/ Spawn \/ AllSpawned \/ Join \/ Return

Client ==
  \E c \in Connections :
    HangUp(c) \/ Request(c) \/ \E p \in 0..(conf.ports - 1) : Connect(c, p) \/ Refuse(c, p)

Next ==
  \/ (Running /\ Main)
  \/ \E t \in AnyThread : Worker(t)
  \/ Client

(***************************************************************************)
(* Every thread of the process is scheduled; the clients owe nothing.      *)
(***************************************************************************)
Fairness ==
  WF_vars(Running /\ Main) /\ \A t \in AnyThread : WF_vars(Worker(t))

Spec == Init /\ [][Next]_vars /\ Fairness
-----------------------------------------------------------------------------
(***************************************************************************)
(* Properties.                                                             *)
(***************************************************************************)
Settled ==
  mainpc = "join" /\ \A t \in Threads : wpc[t] \in {"accept", "ended"}

(***************************************************************************)
(* The descriptors that the process takes if every thread gets all its     *)
(* listeners and its runtime, and every client connects.  If it may not    *)
(* have so many, clients of the threads that accept can use up those that  *)
(* a later thread needs.                                                   *)
(***************************************************************************)
Wanted == {s \in Threads \X (0..(conf.ports - 1)) : s[2] \in PortsOf(s[1])}

Demand ==
  Cardinality(Wanted) + Cardinality(Connections)
    + SetupCost * IF conf.runtime = "smol" THEN 1 ELSE conf.threads

Scarce == conf.limit < Demand

(***************************************************************************)
(* A thread serves all its ports or none.  One that was given ports and    *)
(* serves none was given a broken one, or its ring was refused, or there   *)
(* are not descriptors for everyone: as long as there are, one port that   *)
(* cannot be bound takes its chunk down, and nothing else, whatever        *)
(* clients do while threads bind.                                          *)
(***************************************************************************)
OnlyChunksFail ==
  Settled =>
    \A t \in Threads :
      IF wpc[t] = "accept"
        THEN /\ PortsOf(t) # {} /\ PortsOf(t) \cap conf.broken = {}
             /\ \A p \in PortsOf(t) : <<t, p>> \in sockets
        ELSE \/ PortsOf(t) = {} \/ PortsOf(t) \cap conf.broken # {}
             \/ RingRefused \/ Scarce

(***************************************************************************)
(* The process outlives every thread that serves: main returns only when   *)
(* none is left, and no connection was waiting then, or being served.  It  *)
(* dies of a panic only for a port that was not registered, for a ring     *)
(* that is refused, at a request to smol with --body-delay, or while a     *)
(* thread sets up a runtime that it unwraps and there are not descriptors  *)
(* for everyone.  When all threads have set up, clients that connect,      *)
(* leave and use up the descriptors cannot make it.                        *)
(***************************************************************************)
Outlives ==
  /\ mainpc = "returned" =>
       /\ \A t \in Threads : wpc[t] = "ended"
       /\ \A c \in Connections : conns[c].state \notin Holding \cup {"queued"}
  /\ mainpc = "aborted" =>
       \/ Unregistered \/ RingRefused \/ SleepPanics(conf)
       \/ UnwrapsSetup /\ Scarce /\ \E t \in Threads : wpc[t] = "setup"

(***************************************************************************)
(* The kernel balances connections across threads: a connection waits only *)
(* on a socket whose thread is there to accept it.  A glommio thread that  *)
(* could not bind a later port is the exception, see AcrossThreads.        *)
(***************************************************************************)
Stranded(c) ==
  conns[c].state = "queued" /\ wpc[conns[c].thread] = "ended"

NoneStranded ==
  \A c \in Connections :
    Stranded(c) => conf.runtime = "glommio" /\ result[conns[c].thread] = "err"

(***************************************************************************)
(* A connection that was accepted is spoken to in the protocol, and over   *)
(* the transport, that the command line asks for, and fails only if the    *)
(* client does not offer it: no option is dropped on the way to the        *)
(* server.  The exception is TLS under a runtime other than tokio, which   *)
(* is not refused, and not done.                                           *)
(***************************************************************************)
AskedTls == {"cert", "key"} \subseteq conf.asks
AskedProtocol == IF "http2" \in conf.asks THEN "h2" ELSE "http/1.1"
Offers(k) == IF k.offers = {} THEN {"http/1.1"} ELSE k.offers

ServedAsAsked ==
  \A c \in Connections :
    LET k == conns[c].client
        agreed == k.tls = AskedTls /\ AskedProtocol \in Offers(k)
    IN  (AskedTls => conf.runtime = "tokio") =>
          /\ conns[c].state = "served" => agreed
          /\ conns[c].state \in {"failed", "ignored"} => ~agreed

(***************************************************************************)
(* Every connection the kernel took is accepted or reset in the end, if    *)
(* there is a descriptor for it again and again: a failed accept loses     *)
(* neither the connection nor the listener.                                *)
(***************************************************************************)
ConnectionsSettle ==
  ([]<>~Exhausted) =>
    \A c \in Connections :
      conns[c].state = "queued" ~> conns[c].state # "queued" \/ Stranded(c)

(***************************************************************************)
(* A client that has left gives its descriptor back, unless the accept     *)
(* loop of its thread spins for want of a descriptor and, under smol or    *)
(* glommio, never yields: these never get back those they hold.            *)
(***************************************************************************)
Spinning(c) ==
  /\ Server(conf) \in AcceptAtOnce
  /\ Exhausted /\ QueuedOn(conns[c].thread) # {}

DescriptorsReturn ==
  \A c \in Connections :
    ([]<>~Spinning(c)) => (conns[c].state = "left" ~> conns[c].state # "left")

(***************************************************************************)
(* README: "Kernel load-balances connections across threads via            *)
(* SO_REUSEPORT": no connection is given to a socket that has no thread.   *)
(***************************************************************************)
AcrossThreads == \A c \in Connections : ~Stranded(c)

(***************************************************************************)
(* README: "HTTPS with HTTP/2 (ALPN negotiates h2)": a client that         *)
(* negotiates a protocol in its handshake is then served in it.            *)
(***************************************************************************)
AlpnHonoured ==
  \A c \in Connections :
    LET k == conns[c].client
    IN  UsesTls(conf) /\ k.tls /\ Negotiable(conf, k) # {} => conns[c].state # "failed"

(***************************************************************************)
(* README, on --uring-entries: "Size of the io_uring Submission Queue      *)
(* (SQ)": a thread that has its ring has one of that size, rounded up.     *)
(***************************************************************************)
RingAsAsked ==
  conf.runtime \in UringRuntimes =>
    \A t \in Threads : HasRuntime(t) => SqEntries(conf) \in conf.entries..(2 * conf.entries)
=============================================================================
