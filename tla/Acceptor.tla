------------------------------ MODULE Acceptor ------------------------------
(***************************************************************************)
(* The life of BaseServer::Acceptor: the acceptor thread runs Start, which *)
(* sets the listening socket and the network threads up and then serves    *)
(* accepts in m_IOService.run; the main thread runs Close at shutdown and  *)
(* joins the network threads.  Both hold m_Mutex around their work, by a   *)
(* macro that locks, acts and unlocks: a return inside the action leaves   *)
(* the mutex locked for good.                                              *)
(***************************************************************************)
EXTENDS Naturals, FiniteSets

CONSTANTS
    Threads,        \* the network threads of the pool
    MaxAccepts,     \* bound on the connections peers open
    None

ASSUME AcceptorAssumption ==
    /\ Threads # {} /\ IsFiniteSet(Threads)
    /\ MaxAccepts \in Nat
    /\ None \notin {"acceptor", "main"}

VARIABLES
    start,      \* where the acceptor thread is
    close,      \* where the main thread is
    mutex,      \* who holds m_Mutex
    closed,     \* m_Closed
    ioStopped,  \* m_IOService.stop() was called
    listener,   \* m_Acceptor
    armed,      \* an async_accept is outstanding
    socket,     \* m_CurrentAcceptSocket # nullptr
    net,        \* every network thread
    netStopped, \* its m_Stopped, with its io_service stopped
    accepted    \* connections handed to a network thread

mainVars == <<close, closed, ioStopped>>
vars == <<start, close, mutex, closed, ioStopped, listener, armed, socket, net, netStopped, accepted>>

Init ==
    /\ start = "lock"
    /\ close = "serving"
    /\ mutex = None
    /\ closed = FALSE
    /\ ioStopped = FALSE
    /\ listener = "new"
    /\ armed = FALSE
    /\ socket = FALSE
    /\ net = [t \in Threads |-> "none"]
    /\ netStopped = [t \in Threads |-> FALSE]
    /\ accepted = 0

Lock(thread) == mutex = None /\ mutex' = thread
Unlock(thread) == mutex = thread /\ mutex' = None

-----------------------------------------------------------------------------
(* The acceptor thread: Start.                                             *)

StartStep(from, to) == start = from /\ start' = to

StartLock ==
    /\ StartStep("lock", "check")
    /\ Lock("acceptor")
    /\ UNCHANGED <<mainVars, listener, armed, socket, net, netStopped, accepted>>

\* if (m_Closed) return, inside the critical section.
StartClosed ==
    /\ closed
    /\ StartStep("check", "returned")
    /\ UNCHANGED <<mainVars, mutex, listener, armed, socket, net, netStopped, accepted>>

\* The address is wrong, or open, set_option or bind fails: again a return
\* inside the critical section.
StartFails ==
    /\ ~closed
    /\ StartStep("check", "returned")
    /\ UNCHANGED <<mainVars, mutex, listener, armed, socket, net, netStopped, accepted>>

\* Mutation: Start does not look at m_Closed.
StartListensAnyway ==
    /\ StartStep("check", "threads")
    /\ listener' = "listening"
    /\ UNCHANGED <<mainVars, mutex, armed, socket, net, netStopped, accepted>>

StartListens ==
    /\ ~closed
    /\ StartStep("check", "threads")
    /\ listener' = "listening"
    /\ UNCHANGED <<mainVars, mutex, armed, socket, net, netStopped, accepted>>

StartNetworkThread(t) ==
    /\ start = "threads"
    /\ net[t] = "none"
    /\ net' = [net EXCEPT ![t] = "running"]
    /\ UNCHANGED <<start, mainVars, mutex, listener, armed, socket, netStopped, accepted>>

\* Accept(false), with the mutex held already.
StartAccepts ==
    /\ \A t \in Threads : net[t] # "none"
    /\ StartStep("threads", "unlock")
    /\ armed' = ~closed
    /\ socket' = ~closed
    /\ UNCHANGED <<mainVars, mutex, listener, net, netStopped, accepted>>

StartUnlock ==
    /\ StartStep("unlock", "run")
    /\ Unlock("acceptor")
    /\ UNCHANGED <<mainVars, listener, armed, socket, net, netStopped, accepted>>

\* m_IOService.run() returns once it is stopped, or out of work, that is with
\* no accept outstanding; then OnStopIOService deletes the accept socket.
RunReturns ==
    /\ start = "run"
    /\ ioStopped \/ ~armed
    /\ start' = "returned"
    /\ socket' = FALSE
    /\ UNCHANGED <<mainVars, mutex, listener, armed, net, netStopped, accepted>>

-----------------------------------------------------------------------------
(* The acceptor thread inside run: HandleAccept.                           *)

\* An error ends the accepting; the accept socket stays behind.
AcceptFails ==
    /\ StartStep("run", "run")
    /\ armed /\ ~ioStopped
    /\ armed' = FALSE
    /\ UNCHANGED <<mainVars, mutex, listener, socket, net, netStopped, accepted>>

\* A peer has connected.
AcceptSucceeds ==
    /\ StartStep("run", "hook")
    /\ armed /\ ~ioStopped /\ listener = "listening"
    /\ accepted < MaxAccepts
    /\ armed' = FALSE
    /\ UNCHANGED <<mainVars, mutex, listener, socket, net, netStopped, accepted>>

\* The hooks of the connection to come are created.
AcceptHooks ==
    /\ StartStep("hook", "connect")
    /\ UNCHANGED <<mainVars, mutex, listener, armed, socket, net, netStopped, accepted>>

\* The connection takes the socket, AddConnection gives it to the network thread.
AcceptConnection ==
    /\ StartStep("connect", "notify")
    /\ socket' = FALSE
    /\ accepted' = accepted + 1
    /\ UNCHANGED <<mainVars, mutex, listener, armed, net, netStopped>>

\* The observers are told of it.
AcceptNotifies ==
    /\ StartStep("notify", "accept")
    /\ UNCHANGED <<mainVars, mutex, listener, armed, socket, net, netStopped, accepted>>

\* Accept(): go on unless closed; the next socket is made before the lock.
AcceptNext ==
    /\ start = "accept"
    /\ start' = IF closed THEN "run" ELSE "acceptLock"
    /\ socket' = ~closed
    /\ UNCHANGED <<mainVars, mutex, listener, armed, net, netStopped, accepted>>

AcceptLock ==
    /\ StartStep("acceptLock", "arm")
    /\ Lock("acceptor")
    /\ UNCHANGED <<mainVars, listener, armed, socket, net, netStopped, accepted>>

AcceptArms ==
    /\ StartStep("arm", "run")
    /\ armed' = TRUE
    /\ Unlock("acceptor")
    /\ UNCHANGED <<mainVars, listener, socket, net, netStopped, accepted>>

-----------------------------------------------------------------------------
(* The main thread: Close, then acceptorThread.join().                     *)

CloseStep(from, to) == close = from /\ close' = to

CloseMark ==
    /\ CloseStep("serving", "stop")
    /\ closed' = TRUE
    /\ UNCHANGED <<start, mutex, ioStopped, listener, armed, socket, net, netStopped, accepted>>

CloseStopsService ==
    /\ CloseStep("stop", "lock")
    /\ ioStopped' = TRUE
    /\ UNCHANGED <<start, mutex, closed, listener, armed, socket, net, netStopped, accepted>>

CloseLock ==
    /\ CloseStep("lock", "threads")
    /\ Lock("main")
    /\ UNCHANGED <<start, closed, ioStopped, listener, armed, socket, net, netStopped, accepted>>

\* Mutation: the threads are waited for without being stopped.
CloseStopsNoThread ==
    /\ CloseStep("threads", "wait")
    /\ listener' = "closed"
    /\ UNCHANGED <<start, mutex, closed, ioStopped, armed, socket, net, netStopped, accepted>>

\* The listening socket is closed, then every network thread is stopped.
CloseStopsThreads ==
    /\ CloseStep("threads", "wait")
    /\ listener' = "closed"
    /\ netStopped' = [t \in Threads |-> TRUE]
    /\ UNCHANGED <<start, mutex, closed, ioStopped, armed, socket, net, accepted>>

\* Started() and Wait() for one thread after the other.
CloseWaits(t) ==
    /\ close = "wait"
    /\ net[t] = "ended"
    /\ net' = [net EXCEPT ![t] = "none"]
    /\ UNCHANGED <<start, mainVars, mutex, listener, armed, socket, netStopped, accepted>>

CloseUnlock ==
    /\ \A t \in Threads : net[t] = "none"
    /\ CloseStep("wait", "join")
    /\ Unlock("main")
    /\ UNCHANGED <<start, closed, ioStopped, listener, armed, socket, net, netStopped, accepted>>

MainJoins ==
    /\ start = "returned"
    /\ CloseStep("join", "joined")
    /\ UNCHANGED <<start, mutex, closed, ioStopped, listener, armed, socket, net, netStopped, accepted>>

-----------------------------------------------------------------------------
\* NetworkThread::Run returns when its io_service is stopped.
NetworkThreadEnds(t) ==
    /\ net[t] = "running" /\ netStopped[t]
    /\ net' = [net EXCEPT ![t] = "ended"]
    /\ UNCHANGED <<start, mainVars, mutex, listener, armed, socket, netStopped, accepted>>

Start ==
    \/ StartLock
    \/ StartClosed
    \/ StartFails
    \/ StartListens
    \/ \E t \in Threads : StartNetworkThread(t)
    \/ StartAccepts
    \/ StartUnlock
    \/ RunReturns

\* What HandleAccept does besides calling hook factory and observers.
Reaccept == AcceptConnection \/ AcceptNext \/ AcceptLock \/ AcceptArms

HandleAccept == AcceptHooks \/ AcceptNotifies \/ Reaccept

Close ==
    \/ CloseStopsService
    \/ CloseLock
    \/ CloseStopsThreads
    \/ \E t \in Threads : CloseWaits(t)
    \/ CloseUnlock
    \/ MainJoins

Next ==
    \/ Start
    \/ HandleAccept
    \/ AcceptFails
    \/ AcceptSucceeds
    \/ CloseMark
    \/ Close
    \/ \E t \in Threads : NetworkThreadEnds(t)

Spec == Init /\ [][Next]_vars

-----------------------------------------------------------------------------
TypeOK ==
    /\ start \in {"lock", "check", "threads", "unlock", "run", "hook", "connect", "notify",
                  "accept", "acceptLock", "arm", "returned"}
    /\ close \in {"serving", "stop", "lock", "threads", "wait", "join", "joined"}
    /\ mutex \in {None, "acceptor", "main"}
    /\ closed \in BOOLEAN /\ ioStopped \in BOOLEAN
    /\ listener \in {"new", "listening", "closed"}
    /\ armed \in BOOLEAN /\ socket \in BOOLEAN
    /\ net \in [Threads -> {"none", "running", "ended"}]
    /\ netStopped \in [Threads -> BOOLEAN]
    /\ accepted \in 0 .. MaxAccepts

\* Start returned from inside its critical section.
MutexLeaked == start = "returned" /\ mutex = "acceptor"

\* When Close has returned, no network thread is left running, whatever point
\* Start had reached, and none is started later (Acceptor.h:65 against :104).
NoThreadOutlivesClose ==
    close \in {"join", "joined"} => \A t \in Threads : net[t] = "none"

\* Shutdown terminates, with every thread joined, unless Start returned early
\* and took the mutex with it: then Close waits for it for ever.
ShutdownTerminates == closed ~> (close = "joined" \/ MutexLeaked)
=============================================================================
