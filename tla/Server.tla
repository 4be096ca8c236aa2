-------------------------------- MODULE Server --------------------------------
(***************************************************************************)
(* The life of the process: main.go, runHTTP of http.go, the RTSP server   *)
(* of rtsp.go (Start, Close, handle) and gateway.close.                    *)
(*                                                                         *)
(* main starts the RTSP server, serves HTTP until a signal, gives its      *)
(* handlers five seconds, and returns through the deferred calls: the RTSP *)
(* server is closed and waited for, then the store is closed.  An RTSP     *)
(* connection has one deadline, set when it is accepted; the requests on   *)
(* it do not extend it.                                                    *)
(*                                                                         *)
(* What a handler does in between (catalogue, resolution, streaming) is in *)
(* the other modules; here it ends, or, for HTTP, it may not.              *)
(***************************************************************************)
EXTENDS Naturals

CONSTANTS
  Conns,      \* RTSP connections at a time
  Https,      \* HTTP requests at a time
  Deadline    \* rtsp_client_timeout_seconds, in ticks

ASSUME ServerAssumption == Deadline \in Nat \ {0} /\ "acceptor" \notin Conns

VARIABLES
  main,       \* where main is
  signalled,  \* ctx is done: SIGTERM or an interrupt came
  listening,  \* the RTSP listener is open
  acceptor,   \* the goroutine of Start
  wg,         \* who is counted in the WaitGroup
  pc,         \* where each connection's handler is
  left,       \* time to its deadline
  gone,       \* its client has left
  asked,      \* a request's first line was read, and it was not answered
  malformed,  \* history: its header could not be parsed
  https,      \* HTTP handlers running
  cut,        \* HTTP handlers were not waited for
  store       \* the database

vars == <<main, signalled, listening, acceptor, wg, pc, left, gone, asked,
          malformed, https, cut, store>>

TypeOK ==
  /\ main \in {"start", "listen", "serve", "shutdown", "closeRTSP",
               "waitRTSP", "closeStore", "exit"}
  /\ signalled \in BOOLEAN
  /\ listening \in BOOLEAN
  /\ acceptor \in {"off", "accept", "spawn", "done"}
  /\ wg \subseteq Conns \cup {"acceptor"}
  /\ pc \in [Conns -> {"none", "accepted", "read", "header", "handle",
                       "resolve", "end"}]
  /\ left \in [Conns -> 0..Deadline]
  /\ gone \in [Conns -> BOOLEAN]
  /\ asked \in [Conns -> BOOLEAN]
  /\ malformed \in [Conns -> BOOLEAN]
  /\ https \subseteq Https
  /\ cut \in BOOLEAN
  /\ store \in {"open", "closed"}

Init ==
  /\ main = "start"
  /\ signalled = FALSE
  /\ listening = FALSE
  /\ acceptor = "off"
  /\ wg = {}
  /\ pc = [c \in Conns |-> "none"]
  /\ left = [c \in Conns |-> 0]
  /\ gone = [c \in Conns |-> FALSE]
  /\ asked = [c \in Conns |-> FALSE]
  /\ malformed = [c \in Conns |-> FALSE]
  /\ https = {}
  /\ cut = FALSE
  /\ store = "open"

server == <<listening, acceptor, wg>>
conns  == <<pc, left, gone, asked, malformed>>
Alive  == main # "exit"

----------------------------------------------------------------------------
(* main                                                                    *)

(* rtsp.Start: nothing if disabled; on an error log.Fatal, which runs no   *)
(* deferred call.                                                          *)
Start ==
  /\ main = "start"
  /\ \/ /\ main' = "listen" /\ listening' = TRUE /\ acceptor' = "accept"
        /\ wg' = wg \cup {"acceptor"}
     \/ main' = "listen" /\ UNCHANGED server
     \/ main' = "exit" /\ UNCHANGED server
  /\ UNCHANGED <<signalled, conns, https, cut, store>>

(* runHTTP listens and serves, or returns the error.                       *)
ListenHTTP ==
  /\ main = "listen"
  /\ main' \in {"serve", "closeRTSP"}
  /\ UNCHANGED <<signalled, server, conns, https, cut, store>>

(* The signal is seen: server.Shutdown stops taking requests.              *)
Shutdown ==
  /\ main = "serve" /\ signalled
  /\ main' = "shutdown"
  /\ UNCHANGED <<signalled, server, conns, https, cut, store>>

(* server.Serve fails: runHTTP returns and leaves the handlers running.    *)
ServeFails ==
  /\ main = "serve"
  /\ main' = "closeRTSP" /\ cut' = TRUE
  /\ UNCHANGED <<signalled, server, conns, https, store>>

(* Shutdown returns when no handler is running, or after five seconds.     *)
ShutdownEnds ==
  /\ main = "shutdown"
  /\ main' = "closeRTSP"
  /\ cut' = (cut \/ https # {})
  /\ UNCHANGED <<signalled, server, conns, https, store>>

(* rtsp.Close: the listener, ...                                           *)
CloseListener ==
  /\ main = "closeRTSP"
  /\ main' = "waitRTSP" /\ listening' = FALSE
  /\ UNCHANGED <<signalled, acceptor, wg, conns, https, cut, store>>

(* ... and wg.Wait.                                                        *)
WaitRTSP ==
  /\ main = "waitRTSP" /\ wg = {}
  /\ main' = "closeStore"
  /\ UNCHANGED <<signalled, server, conns, https, cut, store>>

(* g.close, and main returns.                                              *)
CloseStore ==
  /\ main = "closeStore"
  /\ main' = "exit" /\ store' = "closed"
  /\ UNCHANGED <<signalled, server, conns, https, cut>>

----------------------------------------------------------------------------
(* The acceptor.                                                           *)

(* A client has connected.                                                 *)
Accept(c) ==
  /\ Alive /\ acceptor = "accept" /\ listening
  /\ pc[c] = "none"
  /\ acceptor' = "spawn"
  /\ pc' = [pc EXCEPT ![c] = "accepted"]
  /\ UNCHANGED <<main, signalled, listening, wg, left, gone, asked, malformed,
                 https, cut, store>>

(* Mutation of Spawn: the handler counts itself when it runs, not before.  *)
SpawnUncounted(c) ==
  /\ Alive /\ acceptor = "spawn" /\ pc[c] = "accepted"
  /\ acceptor' = "accept"
  /\ pc' = [pc EXCEPT ![c] = "read"]
  /\ left' = [left EXCEPT ![c] = Deadline]
  /\ gone' = [gone EXCEPT ![c] = FALSE]
  /\ asked' = [asked EXCEPT ![c] = FALSE]
  /\ malformed' = [malformed EXCEPT ![c] = FALSE]
  /\ UNCHANGED <<main, signalled, listening, wg, https, cut, store>>

(* wg.Add, and handle begins: the connection gets its deadline.            *)
Spawn(c) ==
  /\ Alive /\ acceptor = "spawn" /\ pc[c] = "accepted"
  /\ acceptor' = "accept"
  /\ wg' = wg \cup {c}
  /\ pc' = [pc EXCEPT ![c] = "read"]
  /\ left' = [left EXCEPT ![c] = Deadline]
  /\ gone' = [gone EXCEPT ![c] = FALSE]
  /\ asked' = [asked EXCEPT ![c] = FALSE]
  /\ malformed' = [malformed EXCEPT ![c] = FALSE]
  /\ UNCHANGED <<main, signalled, listening, https, cut, store>>

(* Accept fails: the listener is closed, or broken.                        *)
AcceptFails ==
  /\ Alive /\ acceptor = "accept"
  /\ acceptor' = "done"
  /\ wg' = wg \ {"acceptor"}
  /\ UNCHANGED <<main, signalled, listening, conns, https, cut, store>>

----------------------------------------------------------------------------
(* A connection's handler.                                                 *)

(* ReadLine gives the first line of a request, while there is time.        *)
ReadLine(c) ==
  /\ Alive /\ pc[c] = "read" /\ left[c] > 0 /\ ~gone[c]
  /\ pc' = [pc EXCEPT ![c] = "header"]
  /\ asked' = [asked EXCEPT ![c] = TRUE]
  /\ UNCHANGED <<main, signalled, server, left, gone, malformed, https, cut,
                 store>>

(* A line that has no three parts is refused at once.                      *)
BadLine(c) ==
  /\ Alive /\ pc[c] = "read" /\ left[c] > 0 /\ ~gone[c]
  /\ pc' = [pc EXCEPT ![c] = "end"]
  /\ UNCHANGED <<main, signalled, server, left, gone, asked, malformed, https,
                 cut, store>>

(* ReadMIMEHeader gives the rest of the request, ...                       *)
ReadHeader(c) ==
  /\ Alive /\ pc[c] = "header" /\ left[c] > 0 /\ ~gone[c]
  /\ pc' = [pc EXCEPT ![c] = "handle"]
  /\ UNCHANGED <<main, signalled, server, left, gone, asked, malformed, https,
                 cut, store>>

(* ... or finds it malformed: the connection is closed without a word.     *)
BadHeader(c) ==
  /\ Alive /\ pc[c] = "header" /\ left[c] > 0 /\ ~gone[c]
  /\ pc' = [pc EXCEPT ![c] = "end"]
  /\ malformed' = [malformed EXCEPT ![c] = TRUE]
  /\ UNCHANGED <<main, signalled, server, left, gone, asked, https, cut,
                 store>>

(* Both fail when the time is over or the client is gone.                  *)
ReadFails(c) ==
  /\ Alive /\ pc[c] \in {"read", "header"} /\ (left[c] = 0 \/ gone[c])
  /\ pc' = [pc EXCEPT ![c] = "end"]
  /\ UNCHANGED <<main, signalled, server, left, gone, asked, malformed, https,
                 cut, store>>

(* rtspResponse: written if the client is there and there is time; errors  *)
(* are ignored.                                                            *)
Respond(c) ==
  asked' = [asked EXCEPT ![c] = @ /\ (gone[c] \/ left[c] = 0)]

(* Mutation of Options: the deadline starts anew.                          *)
OptionsExtends(c) ==
  /\ Alive /\ pc[c] = "handle"
  /\ Respond(c)
  /\ left' = [left EXCEPT ![c] = Deadline]
  /\ pc' = [pc EXCEPT ![c] = "read"]
  /\ UNCHANGED <<main, signalled, server, gone, malformed, https, cut, store>>

(* OPTIONS is answered, and the handler reads on.                          *)
Options(c) ==
  /\ Alive /\ pc[c] = "handle"
  /\ Respond(c)
  /\ pc' = [pc EXCEPT ![c] = "read"]
  /\ UNCHANGED <<main, signalled, server, left, gone, malformed, https, cut,
                 store>>

(* Any other method, another path or bad parameters are refused.           *)
Refuse(c) ==
  /\ Alive /\ pc[c] = "handle"
  /\ Respond(c)
  /\ pc' = [pc EXCEPT ![c] = "end"]
  /\ UNCHANGED <<main, signalled, server, left, gone, malformed, https, cut,
                 store>>

Describe(c) ==
  /\ Alive /\ pc[c] = "handle"
  /\ pc' = [pc EXCEPT ![c] = "resolve"]
  /\ UNCHANGED <<main, signalled, server, left, gone, asked, malformed, https,
                 cut, store>>

(* Mutation of Resolved: a failed resolution is only logged.               *)
ResolvedSilently(c) ==
  /\ Alive /\ pc[c] = "resolve"
  /\ Respond(c) \/ UNCHANGED asked
  /\ pc' = [pc EXCEPT ![c] = "end"]
  /\ UNCHANGED <<main, signalled, server, left, gone, malformed, https, cut,
                 store>>

(* resolveFinalCatchup returns and addCatchupLog writes to the store: 302, *)
(* or 502.                                                                 *)
Resolved(c) ==
  /\ Alive /\ pc[c] = "resolve"
  /\ Respond(c)
  /\ pc' = [pc EXCEPT ![c] = "end"]
  /\ UNCHANGED <<main, signalled, server, left, gone, malformed, https, cut,
                 store>>

(* The deferred conn.Close and wg.Done.                                    *)
End(c) ==
  /\ Alive /\ pc[c] = "end"
  /\ pc' = [pc EXCEPT ![c] = "none"]
  /\ wg' = wg \ {c}
  /\ UNCHANGED <<main, signalled, listening, acceptor, left, gone, asked,
                 malformed, https, cut, store>>

----------------------------------------------------------------------------
(* The world.                                                              *)

(* NotifyContext is called before the servers start; a second signal has   *)
(* no effect.                                                              *)
Signal ==
  /\ Alive /\ ~signalled
  /\ signalled' = TRUE
  /\ UNCHANGED <<main, server, conns, https, cut, store>>

Tick(c) ==
  /\ Alive /\ left[c] > 0 /\ pc[c] \notin {"none", "accepted"}
  /\ left' = [left EXCEPT ![c] = @ - 1]
  /\ UNCHANGED <<main, signalled, server, pc, gone, asked, malformed, https,
                 cut, store>>

ClientLeaves(c) ==
  /\ Alive /\ pc[c] \notin {"none", "accepted"} /\ ~gone[c]
  /\ gone' = [gone EXCEPT ![c] = TRUE]
  /\ UNCHANGED <<main, signalled, server, pc, left, asked, malformed, https,
                 cut, store>>

(* An HTTP request comes, while they are taken, and ends some time.        *)
BeginHTTP(h) ==
  /\ main = "serve" /\ h \notin https
  /\ https' = https \cup {h}
  /\ UNCHANGED <<main, signalled, server, conns, cut, store>>

EndHTTP(h) ==
  /\ Alive /\ h \in https
  /\ https' = https \ {h}
  /\ UNCHANGED <<main, signalled, server, conns, cut, store>>

MainStep ==
  \/ Start \/ ListenHTTP \/ Shutdown \/ ServeFails \/ ShutdownEnds
  \/ CloseListener \/ WaitRTSP \/ CloseStore

(* What arrives from the client: nothing obliges it to send.               *)
Request(c) == ReadLine(c) \/ BadLine(c) \/ ReadHeader(c) \/ BadHeader(c)

HandlerStep(c) ==
  \/ ReadFails(c) \/ Options(c) \/ Refuse(c) \/ Describe(c)
  \/ Resolved(c) \/ End(c)

Next ==
  \/ MainStep \/ AcceptFails \/ Signal
  \/ \E c \in Conns :
       \/ Accept(c) \/ Spawn(c) \/ Request(c) \/ HandlerStep(c)
       \/ Tick(c) \/ ClientLeaves(c)
  \/ \E h \in Https : BeginHTTP(h) \/ EndHTTP(h)

Spec == Init /\ [][Next]_vars

(* Goroutines are scheduled and time passes; a resolution ends because all *)
(* its requests have timeouts.  Nothing is said of HTTP handlers: a stream *)
(* may go on for ever.  main sees the signal, and Accept the closed        *)
(* listener.                                                               *)
FairSpec ==
  /\ Spec
  /\ WF_vars(Start) /\ WF_vars(ListenHTTP)
  /\ WF_vars(Shutdown) /\ WF_vars(ShutdownEnds)
  /\ WF_vars(CloseListener) /\ WF_vars(WaitRTSP) /\ WF_vars(CloseStore)
  /\ WF_vars(~listening /\ AcceptFails)
  /\ \A c \in Conns :
       WF_vars(Spawn(c)) /\ WF_vars(HandlerStep(c)) /\ WF_vars(Tick(c))

----------------------------------------------------------------------------
(* The store outlives the handlers that use it: every RTSP handler, and    *)
(* the HTTP handlers unless they outstayed the five seconds of Shutdown.   *)
(* The scheduler and a running refresh, whom nobody waits for, get errors  *)
(* from a closed store.                                                    *)
StoreOutlivesHandlers ==
  store = "closed" =>
    /\ acceptor \in {"off", "done"}
    /\ \A c \in Conns : pc[c] = "none"
    /\ https # {} => cut

(* wg.Wait is final: once it has returned no connection is accepted and no *)
(* handler starts, although Add is called while it waits.                  *)
WaitIsFinal ==
  [][main = "closeStore" =>
       \A c \in Conns : pc[c] = "none" /\ pc'[c] = "none"
    ]_vars

(* A connection is closed with a request unanswered only because its time  *)
(* was over, also while it was being resolved, because its client was      *)
(* gone, or because the request's header made no sense.                    *)
Answered ==
  \A c \in Conns :
    pc[c] = "end" /\ asked[c] => left[c] = 0 \/ gone[c] \/ malformed[c]

(* The process ends after a signal, whatever its clients do: a stream      *)
(* without end or a client that keeps a connection busy does not hold it.  *)
Exits == signalled ~> main = "exit"
=============================================================================
