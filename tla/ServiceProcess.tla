--------------------------- MODULE ServiceProcess ---------------------------
EXTENDS Naturals, SequencesExt, FiniteSets

(***************************************************************************)
(* WindowsServiceManager: the commands that install, remove, start and     *)
(* stop the service, and the two threads of the service process that       *)
(* report to the service control manager (SCM): ServiceMain and            *)
(* ServiceCtrlHandler.  Both assign g_service_status and then pass it on,  *)
(* without a lock.  The SCM is external: it delivers a stop only to a      *)
(* service that it was told is running.                                    *)
(***************************************************************************)

CONSTANT SmMaxStarts   \* bound: starts of the service

ASSUME SmConstants == SmMaxStarts \in Nat

VARIABLES smService,   \* SCM: "absent", "installed", "marked" (deleted when it ends)
          smSeen,      \* SCM: the state it was told last
          smStatus,    \* g_service_status.dwCurrentState
          smMain,      \* ServiceMain: "none" or the step it is about to take
          smHandler,   \* ServiceCtrlHandler: "none" or the step it is about to take
          smGoOn,      \* g_running, cleared by the SIGTERM handler
          smStarts

smVars == <<smService, smSeen, smStatus, smMain, smHandler, smGoOn, smStarts>>

SmInit ==
  /\ smService = "absent" /\ smSeen = "STOPPED" /\ smStatus = "NONE" /\ smMain = "none"
  /\ smHandler = "none" /\ smGoOn = TRUE /\ smStarts = 0

SmProcessGone == smMain = "none" /\ smHandler = "none"

\* install_service(): CreateService refuses a name that is still in use.
SmInstall ==
  /\ smService = "absent" /\ smService' = "installed"
  /\ UNCHANGED <<smSeen, smStatus, smMain, smHandler, smGoOn, smStarts>>

\* remove_service()
SmRemove ==
  /\ smService = "installed" /\ smService' = IF SmProcessGone THEN "absent" ELSE "marked"
  /\ UNCHANGED <<smSeen, smStatus, smMain, smHandler, smGoOn, smStarts>>

\* start_service() and run_service_dispatcher() in the new process.
SmStart ==
  /\ smService = "installed" /\ SmProcessGone /\ smStarts < SmMaxStarts
  /\ smStarts' = smStarts + 1 /\ smMain' = "register" /\ smSeen' = "START_PENDING" /\ smStatus' = "NONE" /\ smGoOn' = TRUE
  /\ UNCHANGED <<smService, smHandler>>

\* stop_service(), or the machine goes down; the handler begins.
SmStop ==
  /\ smSeen = "RUNNING" /\ smHandler = "none" /\ smHandler' = "pending"
  /\ UNCHANGED <<smService, smSeen, smStatus, smMain, smGoOn, smStarts>>

\* Any other control only passes the status on.
SmInterrogate ==
  /\ smSeen # "STOPPED" /\ smMain \notin {"none", "register"} /\ smHandler = "none" /\ smHandler' = "tellLast"
  /\ UNCHANGED <<smService, smSeen, smStatus, smMain, smGoOn, smStarts>>

\* ServiceMain: RegisterServiceCtrlHandler may fail, and the process ends.
SmRegister ==
  /\ smMain = "register"
  /\ \/ smMain' = "starting" /\ UNCHANGED smSeen
     \/ smMain' = "none" /\ smSeen' = "STOPPED"
  /\ UNCHANGED <<smService, smStatus, smHandler, smGoOn, smStarts>>

SmMainAssign(from, state, to) ==
  /\ smMain = from /\ smStatus' = state /\ smMain' = to
  /\ UNCHANGED <<smService, smSeen, smHandler, smGoOn, smStarts>>

SmMainTell(from, to) ==
  /\ smMain = from /\ smSeen' = smStatus /\ smMain' = to
  /\ UNCHANGED <<smService, smStatus, smHandler, smGoOn, smStarts>>

SmStarting ==
  \/ SmMainAssign("starting", "START_PENDING", "tellStarting") \/ SmMainTell("tellStarting", "running")
  \/ SmMainAssign("running", "RUNNING", "tellRunning") \/ SmMainTell("tellRunning", "daemon")

\* g_daemon_entry_fn(): the engines may fail to start; else it goes on until
\* it sees the flag.
SmDaemon ==
  /\ \/ smMain = "daemon" /\ smMain' \in {"loop", "stopped"}
     \/ smMain = "loop" /\ ~smGoOn /\ smMain' = "stopped"
  /\ UNCHANGED <<smService, smSeen, smStatus, smHandler, smGoOn, smStarts>>

SmStopping == SmMainAssign("stopped", "STOPPED", "tellStopped") \/ SmMainTell("tellStopped", "none")

SmHandlerAssign(from, state, to) ==
  /\ smHandler = from /\ smStatus' = state /\ smHandler' = to
  /\ UNCHANGED <<smService, smSeen, smMain, smGoOn, smStarts>>

SmHandlerTell(from, to) ==
  /\ smHandler = from /\ smSeen' = smStatus /\ smHandler' = to
  /\ UNCHANGED <<smService, smStatus, smMain, smGoOn, smStarts>>

SmRaise ==
  /\ smHandler = "raise" /\ smGoOn' = FALSE /\ smHandler' = "stopped"
  /\ UNCHANGED <<smService, smSeen, smStatus, smMain, smStarts>>

\* Fault: only the daemon's end is reported as stopped.
SmHandleStopHalf ==
  \/ SmHandlerAssign("pending", "STOP_PENDING", "tellPending") \/ SmHandlerTell("tellPending", "raise") \/ SmRaise
  \/ SmHandlerAssign("stopped", smStatus, "tellStopped") \/ SmHandlerTell("tellStopped", "tellLast")

\* ServiceCtrlHandler, SERVICE_CONTROL_STOP and SERVICE_CONTROL_SHUTDOWN
SmHandleStop ==
  \/ SmHandlerAssign("pending", "STOP_PENDING", "tellPending") \/ SmHandlerTell("tellPending", "raise") \/ SmRaise
  \/ SmHandlerAssign("stopped", "STOPPED", "tellStopped") \/ SmHandlerTell("tellStopped", "tellLast")

SmHandlerEnds == SmHandlerTell("tellLast", "none")

\* SCM: a marked service goes when its process has ended.
SmForget ==
  /\ smService = "marked" /\ SmProcessGone /\ smService' = "absent"
  /\ UNCHANGED <<smSeen, smStatus, smMain, smHandler, smGoOn, smStarts>>

SmNext ==
  \/ SmInstall \/ SmRemove \/ SmStart \/ SmStop \/ SmInterrogate \/ SmForget
  \/ SmRegister \/ SmStarting \/ SmDaemon \/ SmStopping \/ SmHandleStop \/ SmHandlerEnds

SmSpec == SmInit /\ [][SmNext]_smVars

\* Whatever order the two threads' assignments and reports take, the last
\* report of a service process says that the service is stopped.
SmEndsStopped == SmProcessGone => smSeen = "STOPPED"

\* The SCM believes the service running only while ServiceMain is between
\* setting that status and reporting the end.
SmRunningIsAlive == smSeen = "RUNNING" => smMain \in {"tellRunning", "daemon", "loop", "stopped", "tellStopped"}

\* What the service control manager is told is what the process does, although
\* the control handler and ServiceMain() write the status side by side.
ServiceStateTrue == SmRunningIsAlive /\ SmEndsStopped

-----------------------------------------------------------------------------
(***************************************************************************)
(* ServiceIpcServer and ServiceIpcClient: threat events broadcast over     *)
(* named pipes to the user interface, and the text form of an event.  One  *)
(* server and one client object; other programs may open the pipe too, and *)
(* read when they like.  The pipes are the operating system's: one         *)
(* instance waits for a client at a time, an end that is closed fails the  *)
(* other end, closing an end ends a read that waits on it, a write to a    *)
(* full pipe waits, and the ends of a process are closed with it.          *)
(***************************************************************************)

CONSTANTS IpMaxConn, IpMaxMsg,  \* bounds on connections and broadcasts
          IpBuffer              \* messages a pipe holds in each direction

ASSUME IpConstants == {IpMaxConn, IpMaxMsg, IpBuffer} \subseteq Nat \ {0}

VARIABLES ipRunning, ipServer,  \* running_; server_loop(): where it is
          ipInstance,           \* the pipe instance that waits for a client, and the connection that took it
          ipClients,            \* client_pipes_
          ipStop,               \* where stop() is
          ipCast,               \* broadcast under way, which holds clients_mtx_: the pipes left, the ones kept
          ipMsgs,               \* broadcasts begun
          ipPipe,               \* ipPipe[c]: ends that are open, messages on their way in each direction
          ipConn, ipConnected, ipListener, ipGot,  \* client: pipe_handle_, connected_, listener_thread_, events received
          ipUser,               \* "idle", "ping" (waits in WriteFile with io_mtx_), "gone" or "terminated"
          ipCodec               \* the question asked of the codec

ipServerVars == <<ipRunning, ipServer, ipInstance, ipClients, ipStop, ipCast, ipMsgs>>
ipClientVars == <<ipConn, ipConnected, ipListener, ipGot, ipUser>>
ipVars == <<ipServerVars, ipPipe, ipClientVars, ipCodec>>

IpNoInstance == [state |-> "none", by |-> 0]
IpFree == [state |-> "free", by |-> 0]
IpTaken(c) == [state |-> "taken", by |-> c]   \* c = 0: by stop() itself
IpNoCast == [msg |-> 0, left |-> {}, kept |-> {}]

IpInit ==
  /\ ipRunning = FALSE /\ ipServer = "none" /\ ipInstance = IpNoInstance /\ ipClients = {}
  /\ ipStop = "idle" /\ ipCast = IpNoCast /\ ipMsgs = 0 /\ ipPipe = <<>>
  /\ ipConn = 0 /\ ipConnected = FALSE /\ ipListener = "none" /\ ipGot = <<>> /\ ipUser = "idle"
  /\ ipCodec = [ask |-> "idle"]

IpLockFree == ipCast = IpNoCast

\* start(), and a turn of server_loop(): it looks at running_, ...
IpStart ==
  /\ ~ipRunning /\ ipStop = "idle" /\ ipServer = "none"
  /\ ipRunning' = TRUE /\ ipServer' = "top"
  /\ UNCHANGED <<ipInstance, ipClients, ipStop, ipCast, ipMsgs, ipPipe, ipClientVars, ipCodec>>

IpTop ==
  /\ ipServer = "top"
  /\ ipServer' = IF ipRunning THEN "create" ELSE "ended"
  /\ UNCHANGED <<ipRunning, ipInstance, ipClients, ipStop, ipCast, ipMsgs, ipPipe, ipClientVars, ipCodec>>

\* ... creates an instance of the pipe, or tries again, ...
IpCreate ==
  /\ ipServer = "create"
  /\ \/ ipInstance' = IpFree /\ ipServer' = "connect"
     \/ ipServer' = "top" /\ UNCHANGED ipInstance
  /\ UNCHANGED <<ipRunning, ipClients, ipStop, ipCast, ipMsgs, ipPipe, ipClientVars, ipCodec>>

\* ... waits for a client, looks at running_ again and keeps the pipe; it
\* closes it when it is to stop or when ConnectNamedPipe() failed.
IpAccept ==
  /\ ipServer = "connect" /\ ipInstance.state = "taken" /\ ipInstance' = IpNoInstance
  /\ \/ /\ ipRunning /\ IpLockFree /\ ipServer' = "top"
        /\ ipClients' = ipClients \union {ipInstance.by} /\ UNCHANGED ipPipe
     \/ /\ ipServer' = (IF ipRunning THEN "top" ELSE "ended") /\ UNCHANGED ipClients
        /\ ipPipe' = [c \in DOMAIN ipPipe |-> [ipPipe[c] EXCEPT !.server = @ /\ c # ipInstance.by]]
  /\ UNCHANGED <<ipRunning, ipStop, ipCast, ipMsgs, ipClientVars, ipCodec>>

\* stop(): the flag; a connection of its own, if an instance is free; the join,
\* after which each pipe is closed once its client has read everything.
IpStopFlag ==
  /\ ipRunning /\ ipStop = "idle" /\ ipRunning' = FALSE /\ ipStop' = "dummy"
  /\ UNCHANGED <<ipServer, ipInstance, ipClients, ipCast, ipMsgs, ipPipe, ipClientVars, ipCodec>>

IpStopDummy ==
  /\ ipStop = "dummy" /\ ipStop' = "join"
  /\ ipInstance' = IF ipInstance = IpFree THEN IpTaken(0) ELSE ipInstance
  /\ UNCHANGED <<ipRunning, ipServer, ipClients, ipCast, ipMsgs, ipPipe, ipClientVars, ipCodec>>

IpStopClose ==
  /\ ipStop = "join" /\ ipServer = "ended" /\ IpLockFree
  /\ \A c \in ipClients : ipPipe[c].client => ipPipe[c].down = <<>>
  /\ ipStop' = "idle" /\ ipServer' = "none"
  /\ ipPipe' = [c \in DOMAIN ipPipe |-> [ipPipe[c] EXCEPT !.server = @ /\ c \notin ipClients]]
  /\ ipClients' = {}
  /\ UNCHANGED <<ipRunning, ipInstance, ipCast, ipMsgs, ipClientVars, ipCodec>>

\* broadcast_threat() (and broadcast_status()) writes to one pipe after the
\* other under the lock.
IpBroadcast ==
  /\ IpLockFree /\ ipMsgs < IpMaxMsg /\ ipClients # {}
  /\ ipMsgs' = ipMsgs + 1
  /\ ipCast' = [msg |-> ipMsgs + 1, left |-> ipClients, kept |-> {}]
  /\ UNCHANGED <<ipRunning, ipServer, ipInstance, ipClients, ipStop, ipPipe, ipClientVars, ipCodec>>

IpKeeps(c) == ipPipe[c].client /\ ipPipe[c].server

\* Fault: a pipe that failed is tried again.
IpWriteRetries(c) ==
  /\ c \in ipCast.left
  /\ IpKeeps(c) => Len(ipPipe[c].down) < IpBuffer
  /\ ipCast' = IF IpKeeps(c) THEN [ipCast EXCEPT !.left = @ \ {c}, !.kept = @ \union {c}] ELSE ipCast
  /\ ipPipe' = [ipPipe EXCEPT ![c].down = IF ipPipe[c].client THEN Append(@, ipCast.msg) ELSE @,
                              ![c].server = @ /\ IpKeeps(c)]
  /\ UNCHANGED <<ipRunning, ipServer, ipInstance, ipClients, ipStop, ipMsgs, ipClientVars, ipCodec>>

IpWrite(c) ==
  /\ c \in ipCast.left
  /\ IpKeeps(c) => Len(ipPipe[c].down) < IpBuffer
  /\ ipCast' = [ipCast EXCEPT !.left = @ \ {c}, !.kept = IF IpKeeps(c) THEN @ \union {c} ELSE @]
  /\ ipPipe' = [ipPipe EXCEPT ![c].down = IF ipPipe[c].client THEN Append(@, ipCast.msg) ELSE @,
                              ![c].server = @ /\ IpKeeps(c)]
  /\ UNCHANGED <<ipRunning, ipServer, ipInstance, ipClients, ipStop, ipMsgs, ipClientVars, ipCodec>>

IpCastEnds ==
  /\ ipCast.msg # 0 /\ ipCast.left = {}
  /\ ipClients' = ipCast.kept /\ ipCast' = IpNoCast
  /\ UNCHANGED <<ipRunning, ipServer, ipInstance, ipStop, ipMsgs, ipPipe, ipClientVars, ipCodec>>

\* The client's process closes its end, or ends itself.
IpLeave == [c \in DOMAIN ipPipe |-> [ipPipe[c] EXCEPT !.client = @ /\ c # ipConn]]

IpOpened(client) == [server |-> TRUE, client |-> client, down |-> <<>>, up |-> 0]

\* connect(): a thread is assigned to listener_thread_; if that still holds
\* one that was not joined, the program is terminated.
IpConnect ==
  /\ ipUser = "idle" /\ ~ipConnected /\ ipInstance = IpFree /\ Len(ipPipe) < IpMaxConn
  /\ ipConn' = Len(ipPipe) + 1 /\ ipInstance' = IpTaken(Len(ipPipe) + 1)
  /\ ipGot' = <<>> /\ ipConnected' = TRUE
  /\ \/ /\ ipListener = "none" /\ ipListener' = "read" /\ UNCHANGED ipUser
        /\ ipPipe' = Append(ipPipe, IpOpened(TRUE))
     \/ /\ ipListener # "none" /\ ipUser' = "terminated" /\ UNCHANGED ipListener
        /\ ipPipe' = Append(IpLeave, IpOpened(FALSE))
  /\ UNCHANGED <<ipRunning, ipServer, ipClients, ipStop, ipCast, ipMsgs, ipCodec>>

\* Fault: disconnect() leaves the thread to itself.
IpDisconnectOnly ==
  /\ ipUser = "idle" /\ ipConnected /\ ipConnected' = FALSE
  /\ ipPipe' = IpLeave
  /\ ipConn' = 0 /\ UNCHANGED <<ipListener, ipUser, ipGot, ipServerVars, ipCodec>>

\* disconnect() does nothing when connected_ is false already; else it closes
\* the pipe, which ends the listener, and joins it.
IpDisconnect ==
  /\ ipUser = "idle" /\ ipConnected /\ ipConnected' = FALSE
  /\ ipPipe' = IpLeave
  /\ ipConn' = 0 /\ ipListener' = "none"
  /\ UNCHANGED <<ipUser, ipGot, ipServerVars, ipCodec>>

\* The destructor calls disconnect(); a thread that is still to be joined
\* then terminates the program.
IpDestroy ==
  /\ ipUser = "idle" /\ ~ipConnected
  /\ ipUser' = (IF ipListener = "none" THEN "gone" ELSE "terminated") /\ ipPipe' = IpLeave
  /\ UNCHANGED <<ipConn, ipConnected, ipListener, ipGot, ipServerVars, ipCodec>>

\* ping() and request_status() write; nothing at the server reads.  When the
\* pipe is full they wait, with io_mtx_.
IpPing ==
  /\ ipUser = "idle" /\ ipConnected /\ ipConn # 0
  /\ IF ipPipe[ipConn].up < IpBuffer THEN ipPipe' = [ipPipe EXCEPT ![ipConn].up = @ + 1] /\ UNCHANGED ipUser
     ELSE ipUser' = "ping" /\ UNCHANGED ipPipe
  /\ UNCHANGED <<ipConn, ipConnected, ipListener, ipGot, ipServerVars, ipCodec>>

IpPingFails ==
  /\ ipUser = "ping" /\ ~ipPipe[ipConn].server /\ ipUser' = "idle"
  /\ UNCHANGED <<ipConn, ipConnected, ipListener, ipGot, ipPipe, ipServerVars, ipCodec>>

\* A turn of listen_loop(): an event is passed on (io_mtx_ guards the
\* callback); ...
IpRead ==
  /\ ipListener = "read" /\ ipPipe[ipConn].down # <<>> /\ ipUser # "ping"
  /\ ipGot' = Append(ipGot, Head(ipPipe[ipConn].down))
  /\ ipPipe' = [ipPipe EXCEPT ![ipConn].down = Tail(@)]
  /\ UNCHANGED <<ipConn, ipConnected, ipListener, ipUser, ipServerVars, ipCodec>>

\* ... when ReadFile() fails, connected_ is cleared and the thread ends, not
\* joined and the handle still open.  It fails once the server's end is closed
\* and all is read, and before that on a message beyond 16384 bytes.
IpLost ==
  /\ ipListener = "read" /\ (ipPipe[ipConn].down = <<>> => ~ipPipe[ipConn].server)
  /\ ipConnected' = FALSE /\ ipListener' = "ended"
  /\ UNCHANGED <<ipConn, ipGot, ipUser, ipPipe, ipServerVars, ipCodec>>

\* Another program opens the pipe, reads from it and leaves, or does not.
IpOtherConnects ==
  /\ ipInstance = IpFree /\ Len(ipPipe) < IpMaxConn
  /\ ipPipe' = Append(ipPipe, IpOpened(TRUE)) /\ ipInstance' = IpTaken(Len(ipPipe) + 1)
  /\ UNCHANGED <<ipRunning, ipServer, ipClients, ipStop, ipCast, ipMsgs, ipClientVars, ipCodec>>

IpOtherReads(c) ==
  /\ c # ipConn /\ ipPipe[c].client /\ ipPipe[c].down # <<>>
  /\ ipPipe' = [ipPipe EXCEPT ![c].down = Tail(@)]
  /\ UNCHANGED <<ipServerVars, ipClientVars, ipCodec>>

IpOtherLeaves(c) ==
  /\ c # ipConn /\ ipPipe[c].client /\ ipPipe' = [ipPipe EXCEPT ![c].client = FALSE]
  /\ UNCHANGED <<ipServerVars, ipClientVars, ipCodec>>

IpFields == 1..11
IpNumbers == {1, 2, 3, 4, 9}   \* id, level, category, process, port
IpTexts == {5, 6, 7, 8}

\* serialize_threat() joins the fields by tabs; a text that has tabs itself is
\* the sequence of its parts.
IpSerialize(ev) ==
  ev[1] \o ev[2] \o ev[3] \o ev[4] \o ev[5] \o ev[6] \o ev[7] \o ev[8] \o ev[9] \o ev[10] \o ev[11]

\* deserialize_threat() takes the first eleven parts; a number that does not
\* parse ends it and leaves what follows at its default.
IpDeserialize(parts) ==
  LET bad == {i \in IpNumbers : parts[i] = "text" \/ parts[i] = ""}
  IN  [i \in IpFields |-> IF \E b \in bad : b <= i THEN <<>> ELSE <<parts[i]>>]

\* An event with tabs in the texts ``cut'', the other texts empty or not.
IpEvent(cut, empty) ==
  [i \in IpFields |->
     IF i \in cut THEN <<"text", "text">> ELSE IF i \in empty THEN <<"">> ELSE IF i \in IpTexts THEN <<"text">> ELSE <<"1">>]

IpAskCodec ==
  /\ ipCodec.ask = "idle" /\ ipServer = "none" /\ ipMsgs = 0
  /\ \E cut, empty \in SUBSET IpTexts :
       ipCodec' = [ask |-> "event", cut |-> cut, ev |-> IpEvent(cut, empty),
                   back |-> IpDeserialize(IpSerialize(IpEvent(cut, empty)))]
  /\ UNCHANGED <<ipServerVars, ipPipe, ipClientVars>>

IpServerStep == IpTop \/ IpCreate \/ IpAccept
IpCastStep == (\E c \in ipCast.left : IpWrite(c)) \/ IpCastEnds
IpListenStep == ipUser # "terminated" /\ (IpRead \/ IpLost)
IpOtherStep == IpOtherConnects \/ \E c \in DOMAIN ipPipe : IpOtherReads(c) \/ IpOtherLeaves(c)
IpUserStep == ipUser # "terminated" /\ (IpConnect \/ IpDisconnect \/ IpDestroy \/ IpPing \/ IpPingFails)

IpNext ==
  \/ IpAskCodec
  \/ /\ ipCodec.ask = "idle"
     /\ \/ IpStart \/ IpServerStep \/ IpStopFlag \/ IpStopDummy \/ IpStopClose
        \/ IpBroadcast \/ IpCastStep \/ IpUserStep \/ IpListenStep \/ IpOtherStep

\* The threads are run; the destructor or a later call is not certain, nor that
\* other programs ever read.
IpFair ==
  /\ WF_ipVars(ipCodec.ask = "idle" /\ IpServerStep)
  /\ WF_ipVars(ipCodec.ask = "idle" /\ IpCastStep)
  /\ WF_ipVars(ipCodec.ask = "idle" /\ IpListenStep)

IpSpec == IpInit /\ [][IpNext]_ipVars /\ IpFair

\* Within a connection the client receives the broadcasts in order and with
\* no gap: a pipe that failed once gets nothing more.
IpNoGap == \A i \in 1 .. Len(ipGot) - 1 : ipGot[i + 1] = ipGot[i] + 1

\* The client is terminated only by a thread that left its loop by itself:
\* connecting again after disconnect() is safe.
IpTerminatedByLoss == ipUser = "terminated" => ipListener = "ended"

\* A pipe that the broadcast has still to write to is full and nobody reads it:
\* it is another program's, or the reader of this client has left its loop or
\* waits for the lock that a ping() holds.
IpHeldUp ==
  \E c \in ipCast.left :
    /\ IpKeeps(c) /\ Len(ipPipe[c].down) >= IpBuffer
    /\ ~(c = ipConn /\ ipListener = "read" /\ ipUser # "ping")

\* A broadcast, which has the lock of all the clients, ends again and again,
\* unless one client that does not read holds it up; it goes on when that one
\* reads or leaves.
IpBroadcastReturns == (ipCast.msg # 0) ~> (ipCast.msg = 0 \/ IpHeldUp)

\* An event whose texts have no tab is read as it was written; with tabs, the
\* fields before the first cut one still are.
IpCodecPrefix ==
  ipCodec.ask = "event" =>
    \A i \in IpFields : (\A c \in ipCodec.cut : i < c) => ipCodec.back[i] = ipCodec.ev[i]

\* The client receives the events of a connection without gaps, decodes what
\* was encoded up to the first tab inside a text, and connecting again is unsafe
\* only after the listener left its loop by itself.
PipeFaithful == IpNoGap /\ IpTerminatedByLoss /\ IpCodecPrefix
=============================================================================
