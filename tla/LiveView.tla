----------------------------- MODULE LiveView -----------------------------
(***************************************************************************)
(* The live page of a run: tasks publish progress on the run's channel     *)
(* (update_progress), the API relays the channel to a socket (ws_runs),    *)
(* and the page collects what arrives (useWebSocket, EvaluationStream).    *)
(*                                                                         *)
(* A message names its worker and not its run.  React commits a change of  *)
(* the page first and runs the effects for it later, before the next       *)
(* change: the hook's effect, which closes the old socket and opens a new  *)
(* one, and then the reset of what is displayed.  A socket that is closed  *)
(* before it is open ends with an abnormal code, and so may any other.     *)
(* What a message says beyond its worker is left out.                      *)
(***************************************************************************)
EXTENDS Naturals, Sequences

CONSTANTS
    LiveRuns, LiveWorkers,
    MaxSockets,             \* bound: sockets the page opens
    ReconnectAttempts,      \* reconnectAttempts of the hook
    MaxInFlight             \* bound: messages on their way to one socket

ASSUME LiveAssumption ==
    MaxSockets \in Nat /\ ReconnectAttempts \in Nat /\ MaxInFlight \in Nat

VARIABLES
    here,       \* the page has not been left
    screen,     \* activeRunId
    hooked,     \* the run for which the effects ran last
    mountedRef, wsRef, retriesRef,
    sockets,    \* socket -> its state, and the run in the closure of its handlers
    joined,     \* sockets whose handler at the API has subscribed
    inFlight,   \* socket -> messages sent to it and not yet received
    timers,     \* closed sockets whose reconnection is due
    data,       \* the last message, if EvaluationStream has not taken it yet
    workers,    \* worker -> the run its displayed progress is about
    earlier,    \* sockets opened before the effects ran last
    strayed     \* one of three things happened that mix up runs

liveVars == <<here, screen, hooked, mountedRef, wsRef, retriesRef, sockets, joined,
              inFlight, timers, data, workers, earlier, strayed>>
pageVars == <<here, screen, hooked, earlier>>
wireVars == <<joined, inFlight>>
viewVars == <<data, workers>>

\* Sockets in the order in which they are opened.
Sockets == 1 .. MaxSockets

NoRun == [none |-> "run"]
NoSocket == 0
NoData == [none |-> "data"]

MaybeRun == LiveRuns \cup {NoRun}
Messages == [worker : LiveWorkers, about : LiveRuns]
Unused == [at |-> "unused", run |-> NoRun]
SocketRow == {Unused} \cup [at : {"connecting", "open", "closing", "closed"}, run : LiveRuns]

LiveTypeOK ==
    /\ here \in BOOLEAN /\ mountedRef \in BOOLEAN /\ strayed \in BOOLEAN
    /\ screen \in MaybeRun /\ hooked \in MaybeRun
    /\ wsRef \in Sockets \cup {NoSocket}
    /\ retriesRef \in 0 .. ReconnectAttempts
    /\ sockets \in [Sockets -> SocketRow]
    /\ joined \subseteq Sockets /\ timers \subseteq Sockets /\ earlier \subseteq Sockets
    /\ inFlight \in [Sockets -> Seq(Messages)]
    /\ data \in Messages \cup {NoData}
    /\ workers \in [LiveWorkers -> MaybeRun]

\* The page is there, with no run to follow yet.
LiveInit ==
    /\ here = TRUE /\ mountedRef = TRUE /\ strayed = FALSE
    /\ screen = NoRun /\ hooked = NoRun
    /\ wsRef = NoSocket /\ retriesRef = 0
    /\ sockets = [s \in Sockets |-> Unused]
    /\ joined = {} /\ timers = {} /\ earlier = {}
    /\ inFlight = [s \in Sockets |-> <<>>]
    /\ data = NoData
    /\ workers = [w \in LiveWorkers |-> NoRun]

IsLive(s) == sockets[s].at \in {"connecting", "open"}
Moved(s, place) == [sockets EXCEPT ![s].at = place]

---------------------------------------------------------------------------
(***************************************************************************)
(* The tasks and the API                                                   *)
(***************************************************************************)

Reached(r) == {s \in joined : sockets[s].run = r /\ sockets[s].at = "open"}

\* update_progress publishes; nobody keeps a message for those not subscribed.
PublishProgress(r, w) ==
    /\ Reached(r) # {}
    /\ \A s \in Reached(r) : Len(inFlight[s]) < MaxInFlight
    /\ inFlight' = [s \in Sockets |->
                       IF s \in Reached(r)
                       THEN Append(inFlight[s], [worker |-> w, about |-> r])
                       ELSE inFlight[s]]
    /\ UNCHANGED <<pageVars, mountedRef, wsRef, retriesRef, sockets, joined, timers, viewVars,
                   strayed>>

\* stream_run_progress subscribes to the channel.
Subscribe(s) ==
    /\ sockets[s].at = "open"
    /\ s \notin joined
    /\ joined' = joined \cup {s}
    /\ UNCHANGED <<pageVars, mountedRef, wsRef, retriesRef, sockets, inFlight, timers,
                   viewVars, strayed>>

---------------------------------------------------------------------------
(***************************************************************************)
(* The handlers of a socket                                                *)
(***************************************************************************)

\* onopen
Opened(s) ==
    /\ sockets[s].at = "connecting"
    /\ sockets' = Moved(s, "open")
    /\ retriesRef' = IF mountedRef THEN 0 ELSE retriesRef
    /\ UNCHANGED <<pageVars, mountedRef, wsRef, wireVars, timers, viewVars, strayed>>

\* onmessage: a message that comes before the last was taken replaces it.  The
\* page may have moved on to a run whose effects are yet to run.
OnMessage(s) ==
    /\ sockets[s].at = "open"
    /\ inFlight[s] # <<>>
    /\ inFlight' = [inFlight EXCEPT ![s] = Tail(@)]
    /\ data' = IF mountedRef /\ here THEN Head(inFlight[s]) ELSE data
    /\ strayed' = (strayed \/ hooked # screen)
    /\ UNCHANGED <<pageVars, mountedRef, wsRef, retriesRef, sockets, joined, timers, workers>>

\* onclose: a timer is set after any code but 1000, if there are attempts left;
\* the handler at the API unsubscribes.
OnClose(s, code) ==
    /\ sockets' = Moved(s, "closed")
    /\ inFlight' = [inFlight EXCEPT ![s] = <<>>]
    /\ IF mountedRef /\ code # 1000 /\ retriesRef < ReconnectAttempts
       THEN timers' = timers \cup {s} /\ retriesRef' = retriesRef + 1
       ELSE UNCHANGED <<timers, retriesRef>>
    /\ joined' = joined \ {s}
    /\ UNCHANGED <<pageVars, mountedRef, wsRef, viewVars, strayed>>

\* The connection fails or is lost.
ConnectionLost(s) == IsLive(s) /\ OnClose(s, 1006)

\* The handler at the API ends after an error: websocket.close(), code 1000.
ServerCloses(s) == sockets[s].at = "open" /\ OnClose(s, 1000)

\* The end of a socket the hook has closed.
CloseEnds(s) == sockets[s].at = "closing" /\ \E code \in {1000, 1006} : OnClose(s, code)

\* new WebSocket
Fresh(s) == sockets[s] = Unused /\ \A k \in Sockets : k < s => sockets[k] # Unused

\* connect()
Connected(row, s, r) == [row EXCEPT ![s] = [at |-> "connecting", run |-> r]]

\* The reconnection, by a handler that still has the URL of its own effect.
TimerFires(t) ==
    /\ t \in timers
    /\ timers' = timers \ {t}
    /\ IF mountedRef
       THEN \E s \in Sockets :
               /\ Fresh(s)
               /\ sockets' = Connected(sockets, s, sockets[t].run)
               /\ wsRef' = s
               /\ strayed' = (strayed \/ t \in earlier)
       ELSE UNCHANGED <<sockets, wsRef, strayed>>
    /\ UNCHANGED <<pageVars, mountedRef, retriesRef, wireVars, viewVars>>

---------------------------------------------------------------------------
(***************************************************************************)
(* The page                                                                *)
(***************************************************************************)

\* The user goes to another run, or the run shown starts or ends being live.
\* A message not yet taken is committed with the change and reset with it, or
\* left for the next render.
Navigate(r) ==
    /\ here
    /\ hooked = screen /\ r # screen
    /\ screen' = r
    /\ data' \in {data, NoData}
    /\ strayed' = (strayed \/ data' # NoData)
    /\ UNCHANGED <<here, hooked, earlier, mountedRef, wsRef, retriesRef, sockets, wireVars,
                   timers, workers>>

\* Mutant: the hook forgets the socket without closing it.
Forgotten == sockets
\* close(): the socket in wsRef.
Closed ==
    IF wsRef # NoSocket /\ hooked # NoRun /\ IsLive(wsRef)
    THEN Moved(wsRef, "closing")
    ELSE sockets

\* The effects: the cleanup of the last one, which there is only if that one
\* connected; the new connection; the reset of the display.
RunEffects ==
    /\ here
    /\ hooked # screen
    /\ hooked' = screen
    /\ mountedRef' = TRUE
    /\ earlier' = {s \in Sockets : sockets[s] # Unused}
    /\ workers' = [w \in LiveWorkers |-> NoRun]
    /\ IF screen = NoRun
       THEN sockets' = Closed /\ wsRef' = IF hooked = NoRun THEN wsRef ELSE NoSocket
       ELSE \E s \in Sockets :
               Fresh(s) /\ sockets' = Connected(Closed, s, screen) /\ wsRef' = s
    /\ UNCHANGED <<here, screen, retriesRef, wireVars, timers, data, strayed>>

\* The render after a message, and the effect that adds it to the display.
TakeData ==
    /\ here
    /\ data # NoData
    /\ hooked = screen
    /\ workers' = [workers EXCEPT ![data.worker] = data.about]
    /\ data' = NoData
    /\ UNCHANGED <<pageVars, mountedRef, wsRef, retriesRef, sockets, wireVars, timers, strayed>>

\* The page is left with its state; the cleanup, if the last effect connected.
LeavePage ==
    /\ here
    /\ hooked = screen
    /\ here' = FALSE
    /\ mountedRef' = (hooked = NoRun)
    /\ sockets' = Closed
    /\ wsRef' = IF hooked = NoRun THEN wsRef ELSE NoSocket
    /\ data' = NoData
    /\ workers' = [w \in LiveWorkers |-> NoRun]
    /\ UNCHANGED <<screen, hooked, earlier, retriesRef, wireVars, timers, strayed>>

LiveNext ==
    \/ \E r \in LiveRuns, w \in LiveWorkers : PublishProgress(r, w)
    \/ \E s \in Sockets :
        \/ Subscribe(s) \/ Opened(s) \/ OnMessage(s)
        \/ ConnectionLost(s) \/ ServerCloses(s) \/ CloseEnds(s) \/ TimerFires(s)
    \/ \E r \in MaybeRun : Navigate(r)
    \/ RunEffects \/ TakeData \/ LeavePage

LiveSpec == LiveInit /\ [][LiveNext]_liveVars

---------------------------------------------------------------------------
\* Messages do not name their run, so the page relies on its sockets alone.  It
\* displays progress of the run on screen only, and leaves no connection behind
\* when it is left, through any number of lost connections and changes of the
\* run; unless a reconnection set up for an earlier run fires, or a message
\* falls between a change of the run and the effects that follow it.
StreamShowsItsRun ==
    ~strayed =>
        /\ here /\ hooked = screen => \A w \in LiveWorkers : workers[w] \in {NoRun, screen}
        /\ ~here => \A s \in Sockets : ~IsLive(s)
===========================================================================
