------------------------------ MODULE Renderer ------------------------------
(***************************************************************************)
(* renderer.c: the thread of the activity that draws the X server's root   *)
(* window, with the threads it works with:                                 *)
(*   - the renderer thread, which sleeps on stateCond under stateLock;     *)
(*   - the GUI thread, which hands it windows, the server's shared state   *)
(*     and buffers, and waits until a window or a state has been taken;    *)
(*   - the proxy thread, which waits for the condition variable in the     *)
(*     shared state and passes its signals on to stateCond;                *)
(*   - the X server (InitOutput.c), which asks for frames through flags in *)
(*     the shared state, without a lock.                                   *)
(*                                                                         *)
(* The lists of buffers are guarded by the spin lock bufferLock: what is   *)
(* done under it is one step here.  So is what the proxy thread does under *)
(* proxy.lock.  A thread that waits may also wake up for no reason.        *)
(***************************************************************************)
EXTENDS Naturals

CONSTANTS
    Window,     \* the windows (ANativeWindow) the GUI thread gets
    Mapping,    \* the places the shared state may be mapped to
    Buffer,     \* the buffers (LorieBuffer) received
    BufferId,   \* desc.id of a buffer
    MaxCalls,   \* bound on the calls of the GUI thread
    MaxChanges, \* bound on the drawings and cursor changes of the server
    NULL

ASSUME InputAssumption ==
    /\ Window # {} /\ Mapping # {} /\ Buffer # {}
    /\ BufferId \in [Buffer -> Nat \ {0}]
    /\ MaxCalls \in Nat /\ MaxChanges \in Nat

Id == {BufferId[b] : b \in Buffer}

VARIABLES
    renderer,   \* the renderer thread and its variables
    request,    \* what the GUI thread asks of it
    gui,        \* the GUI thread
    proxy,      \* the proxy thread and the variable proxy
    stateLock,  \* the thread that has locked stateLock
    list,       \* the list a buffer is in
    mapped,     \* the mappings of the shared state that exist
    shared,     \* the shared state
    server      \* the main thread of the X server

vars == <<renderer, request, gui, proxy, stateLock, list, mapped, shared,
          server>>

Default == "default"    \* defaultWin, defaultSfc and proxy.def
SetWindow(w) == [op |-> "window", arg |-> w]
SetState(m) == [op |-> "state", arg |-> m]
Call == {SetWindow(w) : w \in Window \cup {NULL}}
            \cup {SetState(m) : m \in Mapping \cup {NULL}}

ASSUME NullAssumption ==
    /\ NULL \notin Window \cup Mapping \cup Buffer
    /\ NULL \notin {Default, "added", "buffers", "removed"}
    /\ NULL \notin Call
    /\ Default \notin Window \cup Mapping

RendererLabel ==
    {"test", "sleep", "asleep", "woken", "take", "listen", "listening",
     "listened", "apply", "check", "draw", "end", "release", "relock"}
RendererThread ==
    [pc : RendererLabel,
     state : Mapping \cup {NULL}, oldState : Mapping \cup {NULL},
     win : Window \cup {Default}, sfc : Window \cup {Default, NULL},
     stuck : SUBSET Window,
     buffer : Buffer \cup {NULL}, waitingForBuffers : BOOLEAN,
     lastRequestedBufferId : Id \cup {0}]
Request ==
    [stateChanged : BOOLEAN, windowChanged : BOOLEAN,
     pendingState : Mapping \cup {NULL}, pendingWin : Window \cup {NULL}]
GuiThread ==
    [pc : {"idle", "check", "wait", "waiting", "woken", "removeAll"},
     call : Call \cup {NULL}, calls : 0..MaxCalls,
     wanted : Window \cup {NULL}, early : BOOLEAN]
ProxyThread ==
    [pc : {"start", "asleep", "woken"}, current : Mapping \cup {Default},
     pending : Mapping \cup {Default, NULL}, relocked : BOOLEAN]
SharedState ==
    [surfaceAvailable : BOOLEAN, waitForNextFrame : BOOLEAN,
     drawRequested : BOOLEAN, moved : BOOLEAN, updated : BOOLEAN,
     rootWindowTextureID : Id \cup {0}]
ServerThread ==
    [pc : {"idle", "damage", "signal"}, connected : BOOLEAN, root : Id,
     damage : BOOLEAN, changes : 0..MaxChanges, owed : BOOLEAN,
     drawn : Id \cup {0}]

TypeOK ==
    /\ renderer \in RendererThread /\ request \in Request
    /\ gui \in GuiThread /\ proxy \in ProxyThread
    /\ stateLock \in {"renderer", "gui", NULL}
    /\ list \in [Buffer -> {NULL, "added", "buffers", "removed"}]
    /\ mapped \in SUBSET Mapping
    /\ shared \in SharedState /\ server \in ServerThread

(***************************************************************************)
(* Two places to start from.  At boot rendererInit() has created the proxy *)
(* thread and the renderer thread, which enters rendererThread() without   *)
(* having locked stateLock.  Or a root window is shown on a window and     *)
(* everyone is asleep.                                                     *)
(*                                                                         *)
(* gui.wanted is the window of the last rendererSetWindow(), gui.early     *)
(* whether a call came before both threads had slept once, server.owed     *)
(* whether the server has drawn what is not on the screen, server.drawn    *)
(* the id of the buffer shown last, renderer.stuck the windows whose       *)
(* surface EGL has failed to let go: for the properties, and for what EGL  *)
(* does next.                                                              *)
(***************************************************************************)
Init ==
    \E boot \in BOOLEAN :
        LET first(S) == CHOOSE x \in S : TRUE
            id == BufferId[first(Buffer)]
            after(value, running) == IF boot THEN value ELSE running
            m == first(Mapping)
            w == first(Window)
        IN  /\ renderer = [pc |-> after("test", "asleep"),
                           state |-> after(NULL, m), oldState |-> NULL,
                           win |-> after(Default, w),
                           sfc |-> after(Default, w), stuck |-> {},
                           buffer |-> NULL, waitingForBuffers |-> FALSE,
                           lastRequestedBufferId |-> after(0, id)]
            /\ request = [stateChanged |-> FALSE, windowChanged |-> FALSE,
                          pendingState |-> NULL, pendingWin |-> NULL]
            /\ gui = [pc |-> "idle", call |-> NULL, calls |-> 0,
                      wanted |-> after(NULL, w), early |-> FALSE]
            /\ proxy = [pc |-> after("start", "asleep"),
                        current |-> after(Default, m), pending |-> NULL,
                        relocked |-> ~boot]
            /\ stateLock = NULL
            /\ list = [b \in Buffer |-> IF ~boot /\ b = first(Buffer)
                                        THEN "buffers" ELSE NULL]
            /\ mapped = after({}, {m})
            /\ shared = [surfaceAvailable |-> ~boot,
                         waitForNextFrame |-> FALSE, drawRequested |-> FALSE,
                         moved |-> FALSE, updated |-> FALSE,
                         rootWindowTextureID |-> after(0, id)]
            /\ server = [pc |-> "idle", connected |-> ~boot, root |-> id,
                         damage |-> FALSE, changes |-> 0, owed |-> FALSE,
                         drawn |-> after(0, id)]

-----------------------------------------------------------------------------
(***************************************************************************)
(* pthread_cond_signal(&stateCond): only the renderer thread waits for it. *)
(* pthread_cond_signal(&state->cond): the proxy thread, if it is there.    *)
(***************************************************************************)
Signalled(thread) ==
    [thread EXCEPT !.pc = CASE @ = "asleep" -> "woken"
                            [] @ = "listening" -> "listened"
                            [] OTHER -> @]

signalStateCond == renderer' = Signalled(renderer)

signalSharedCond ==
    proxy' = IF proxy.current \in Mapping THEN Signalled(proxy) ELSE proxy

InList(name) == {b \in Buffer : list[b] = name}
MoveAll(from, to) ==
    list' = [b \in Buffer |-> IF list[b] = from THEN to ELSE list[b]]

changeVisible == shared.drawRequested \/ shared.moved \/ shared.updated

-----------------------------------------------------------------------------
(***************************************************************************)
(* The renderer thread.                                                    *)
(***************************************************************************)
At(label) == renderer.pc = label
Goto(label) == renderer' = [renderer EXCEPT !.pc = label]

pendingChanges ==
    \/ request.stateChanged \/ request.windowChanged
    \/ InList("added") \cup InList("removed") # {}

(***************************************************************************)
(* rendererShouldWait().  The flags it reads one after the other are only  *)
(* set by other threads while it does: it waits only if it would have      *)
(* waited at the moment it read the first of the flags.                    *)
(***************************************************************************)
rendererShouldWait(waiting) ==
    /\ ~pendingChanges
    /\ \/ renderer.state = NULL \/ ~shared.surfaceAvailable
       \/ shared.waitForNextFrame \/ waiting \/ ~changeVisible

Test ==
    /\ At("test")
    /\ LET id == IF pendingChanges \/ renderer.state = NULL
                 THEN renderer.lastRequestedBufferId
                 ELSE shared.rootWindowTextureID
           waiting == renderer.waitingForBuffers
                        /\ renderer.lastRequestedBufferId = id
       IN  renderer' = [renderer EXCEPT
                          !.waitingForBuffers = waiting,
                          !.lastRequestedBufferId = id,
                          !.pc = IF rendererShouldWait(waiting)
                                 THEN "sleep" ELSE "take"]
    /\ UNCHANGED <<request, gui, proxy, stateLock, list, mapped, shared, server>>

\* pthread_cond_wait(&stateCond, &stateLock)
Sleep ==
    /\ At("sleep")
    /\ Goto("asleep")
    /\ stateLock' = NULL
    /\ UNCHANGED <<request, gui, proxy, list, mapped, shared, server>>

Relock ==
    /\ At("woken") \/ At("relock")
    /\ stateLock = NULL
    /\ stateLock' = "renderer"
    /\ Goto("test")
    /\ UNCHANGED <<request, gui, proxy, list, mapped, shared, server>>

\* if (stateChanged): up to pthreadCondVarProxyListenOtherCondVar()
TakeState ==
    /\ At("take")
    /\ IF request.stateChanged
       THEN LET new == request.pendingState
            IN  /\ renderer' = [renderer EXCEPT
                                  !.oldState = IF new = renderer.state
                                               THEN NULL ELSE renderer.state,
                                  !.state = new,
                                  !.waitingForBuffers = FALSE,
                                  !.pc = "listen"]
                /\ request' = [request EXCEPT !.pendingState = NULL,
                                              !.stateChanged = FALSE]
                /\ shared' = [shared EXCEPT
                                !.surfaceAvailable =
                                    IF new # NULL THEN renderer.win # Default
                                    ELSE @]
       ELSE Goto("apply") /\ UNCHANGED <<request, shared>>
    /\ UNCHANGED <<gui, proxy, stateLock, list, mapped, server>>

(***************************************************************************)
(* pthreadCondVarProxyListenOtherCondVar(): wake the proxy thread wherever *)
(* it waits, and wait, still under stateLock, until it has answered.       *)
(***************************************************************************)
OtherCond == IF renderer.state = NULL THEN Default ELSE renderer.state

\* Mutant: relocked is not reset
MutantListen ==
    /\ At("listen")
    /\ proxy' = [Signalled(proxy) EXCEPT !.pending = OtherCond]
    /\ Goto("listening")
    /\ UNCHANGED <<request, gui, stateLock, list, mapped, shared, server>>

Listen ==
    /\ At("listen")
    /\ proxy' = [Signalled(proxy) EXCEPT !.pending = OtherCond,
                                         !.relocked = FALSE]
    /\ Goto("listening")
    /\ UNCHANGED <<request, gui, stateLock, list, mapped, shared, server>>

\* woken up: wait again, or go on and unmap the old state
Listened ==
    /\ At("listened")
    /\ IF proxy.relocked
       THEN /\ renderer' = [renderer EXCEPT !.pc = "apply", !.oldState = NULL]
            /\ mapped' = mapped \ {renderer.oldState}
       ELSE Goto("listening") /\ mapped' = mapped
    /\ UNCHANGED <<request, gui, proxy, stateLock, list, shared, server>>

(***************************************************************************)
(* rendererRefreshContext().  releaseWinAndSurface() returns early, with   *)
(* the surface as it was, when the default surface cannot be made current  *)
(* or the surface not be destroyed.  A window without a size is released,  *)
(* which puts defaultWin in its place.  Creating the surface, and making   *)
(* it current, may fail; the first of these leaves surfaceAvailable alone. *)
(* EGL creates no second surface for a window.  The results: window,       *)
(* surface, stuck, and what becomes of the shared state.                   *)
(***************************************************************************)
Context(w, surface, left, flags) ==
    [win |-> w, sfc |-> surface, stuck |-> left,
     shared |-> IF renderer.state # NULL THEN flags ELSE shared]

\* the surface and stuck after releaseWinAndSurface()
releaseWinAndSurface ==
    IF renderer.sfc \in Window
    THEN { [sfc |-> Default, stuck |-> renderer.stuck \ {renderer.sfc}],
           [sfc |-> renderer.sfc, stuck |-> renderer.stuck \cup {renderer.sfc}] }
    ELSE { [sfc |-> renderer.sfc, stuck |-> renderer.stuck] }

\* Mutant: surfaceAvailable is not reset
MutantNoWindow(r) == Context(Default, r.sfc, r.stuck, shared)

NoWindow(r) ==
    Context(Default, r.sfc, r.stuck, [shared EXCEPT !.surfaceAvailable = FALSE])

\* a surface is created for w and made current, or not
Creations(w, r) ==
    { Context(w, NULL, r.stuck, shared),
      Context(w, w, r.stuck, [shared EXCEPT !.surfaceAvailable = FALSE]),
      Context(w, w, r.stuck, [shared EXCEPT !.surfaceAvailable = w # Default,
                                            !.drawRequested = w # Default,
                                            !.updated = w # Default]) }

NewWindow(w, r) == {c \in Creations(w, r) : w \in r.stuck => c.sfc = NULL}

rendererRefreshContext ==
    UNION { IF request.pendingWin = NULL THEN {NoWindow(r)}
            ELSE NewWindow(request.pendingWin, r) \cup NewWindow(Default, r) :
            r \in releaseWinAndSurface }

\* the rest of the iteration under stateLock: take the window, attach the
\* buffers, tell the GUI thread
Apply ==
    /\ At("apply")
    /\ \E c \in IF request.windowChanged THEN rendererRefreshContext
              ELSE {Context(renderer.win, renderer.sfc, renderer.stuck, shared)} :
        /\ renderer' = [renderer EXCEPT
                          !.win = c.win, !.sfc = c.sfc, !.stuck = c.stuck,
                          !.waitingForBuffers = @ /\ InList("added") = {},
                          !.pc = "check"]
        /\ shared' = c.shared
    /\ request' = [request EXCEPT !.windowChanged = FALSE,
                                  !.pendingWin = IF request.windowChanged
                                                 THEN NULL ELSE @]
    /\ MoveAll("added", "buffers")
    /\ gui' = [gui EXCEPT !.pc = IF @ = "waiting" THEN "woken" ELSE @]
    /\ stateLock' = NULL
    /\ UNCHANGED <<proxy, mapped, server>>

Matching(name) ==
    {b \in InList(name) : BufferId[b] = shared.rootWindowTextureID}

\* whether to draw, and the first part of rendererRedrawLocked()
CheckRedraw ==
    /\ At("check")
    /\ IF /\ renderer.state # NULL /\ shared.surfaceAvailable
          /\ ~shared.waitForNextFrame /\ changeVisible
       THEN LET found == IF Matching("buffers") # {} THEN Matching("buffers")
                         ELSE Matching("removed")
            IN  \E b \in IF found = {} THEN {NULL} ELSE found :
                   renderer' = [renderer EXCEPT
                                  !.buffer = b,
                                  !.waitingForBuffers = @ \/ b = NULL,
                                  !.pc = IF b = NULL THEN "release" ELSE "draw"]
       ELSE Goto("release")
    /\ UNCHANGED <<request, gui, proxy, stateLock, list, mapped, shared, server>>

\* with state->lock: the root window is copied
DrawBegin ==
    /\ At("draw")
    /\ shared' = [shared EXCEPT !.drawRequested = FALSE]
    /\ LET id == BufferId[renderer.buffer]
       IN  server' = [server EXCEPT !.drawn = id,
                                    !.owed = @ /\ id # server.root]
    /\ Goto("end")
    /\ UNCHANGED <<request, gui, proxy, stateLock, list, mapped>>

\* the cursor is drawn, state->lock unlocked, the buffers of sfc swapped
DrawEnd ==
    /\ At("end")
    /\ shared' = [shared EXCEPT !.updated = FALSE, !.moved = FALSE,
                                !.waitForNextFrame = TRUE]
    /\ renderer' = [renderer EXCEPT !.buffer = NULL, !.pc = "release"]
    /\ UNCHANGED <<request, gui, proxy, stateLock, list, mapped, server>>

\* Mutant: the request is cleared once more at the end
MutantReleaseRemoved ==
    /\ At("release")
    /\ MoveAll("removed", NULL)
    /\ shared' = [shared EXCEPT !.drawRequested = FALSE]
    /\ Goto("relock")
    /\ UNCHANGED <<request, gui, proxy, stateLock, mapped, server>>

ReleaseRemoved ==
    /\ At("release")
    /\ MoveAll("removed", NULL)
    /\ Goto("relock")
    /\ UNCHANGED <<request, gui, proxy, stateLock, mapped, shared, server>>

-----------------------------------------------------------------------------
(***************************************************************************)
(* pthreadCondVarProxyThread().                                            *)
(***************************************************************************)
ProxyStart ==
    /\ proxy.pc = "start"
    /\ proxy' = [proxy EXCEPT !.pc = "asleep"]
    /\ UNCHANGED <<renderer, request, gui, stateLock, list, mapped, shared, server>>

ProxyWoken ==
    /\ proxy.pc = "woken"
    /\ proxy' = [pc |-> "asleep",
                 current |-> IF proxy.pending # NULL THEN proxy.pending
                             ELSE proxy.current,
                 pending |-> NULL,
                 relocked |-> TRUE]
    /\ signalStateCond
    /\ UNCHANGED <<request, gui, stateLock, list, mapped, shared, server>>

-----------------------------------------------------------------------------
(***************************************************************************)
(* The GUI thread.                                                         *)
(***************************************************************************)

\* where the renderer thread has locked stateLock, its first time apart
UnderLock ==
    {"test", "sleep", "take", "listen", "listening", "listened", "apply"}

\* rendererSetWindow() and rendererSetSharedState(), up to their loops
Entered(c, w) ==
    [pc |-> "check", call |-> c, calls |-> gui.calls + 1, wanted |-> w,
     early |-> \/ gui.early \/ proxy.pc = "start"
               \/ renderer.pc \in UnderLock]

MayCall == gui.pc = "idle" /\ gui.calls < MaxCalls

\* Mutant: the renderer is not signalled
MutantSetWindow(w) ==
    /\ MayCall /\ stateLock = NULL
    /\ stateLock' = "gui"
    /\ gui' = Entered(SetWindow(w), w)
    /\ request' = [request EXCEPT !.pendingWin = w, !.windowChanged = TRUE]
    /\ UNCHANGED <<renderer, proxy, list, mapped, shared, server>>

\* rendererSetWindow() returns at once when w is pending already, and
\* releases another window that is: neither can be, since the GUI thread
\* has waited in its last call until there was none
rendererSetWindow(w) ==
    /\ MayCall /\ stateLock = NULL
    /\ stateLock' = "gui"
    /\ gui' = Entered(SetWindow(w), w)
    /\ request' = [request EXCEPT !.pendingWin = w, !.windowChanged = TRUE]
    /\ signalStateCond
    /\ UNCHANGED <<proxy, list, mapped, shared, server>>

\* EVENT_SHARED_SERVER_STATE maps the state anew, a hang-up passes NULL
rendererSetSharedState(m) ==
    /\ MayCall /\ stateLock = NULL
    /\ IF m = NULL THEN renderer.state # NULL
       ELSE server.connected /\ renderer.state = NULL /\ m \notin mapped
    /\ mapped' = mapped \cup ({m} \ {NULL})
    /\ server' = [server EXCEPT !.connected = m # NULL]
    /\ stateLock' = "gui"
    /\ gui' = Entered(SetState(m), gui.wanted)
    /\ request' = [request EXCEPT !.pendingState = m, !.stateChanged = TRUE]
    /\ signalStateCond
    /\ UNCHANGED <<proxy, list, shared>>

\* Mutant: a new window is not waited for
MutantStillPending == gui.call.op = "state" /\ request.stateChanged

\* while(stateChanged), while(windowChanged)
StillPending ==
    IF gui.call.op = "state" THEN request.stateChanged
    ELSE request.windowChanged

GuiCheck ==
    /\ gui.pc = "check"
    /\ IF StillPending
       THEN gui' = [gui EXCEPT !.pc = "wait"] /\ stateLock' = stateLock
       ELSE /\ gui' = [gui EXCEPT !.call = NULL,
                                  !.pc = IF gui.call = SetState(NULL)
                                         THEN "removeAll" ELSE "idle"]
            /\ stateLock' = NULL
    /\ UNCHANGED <<renderer, request, proxy, list, mapped, shared, server>>

GuiWait ==
    /\ gui.pc = "wait"
    /\ gui' = [gui EXCEPT !.pc = "waiting"]
    /\ stateLock' = NULL
    /\ UNCHANGED <<renderer, request, proxy, list, mapped, shared, server>>

GuiRelock ==
    /\ gui.pc = "woken" /\ stateLock = NULL
    /\ gui' = [gui EXCEPT !.pc = "check"]
    /\ stateLock' = "gui"
    /\ UNCHANGED <<renderer, request, proxy, list, mapped, shared, server>>

\* while there is a connection
MayHandleEvent == MayCall /\ server.connected /\ renderer.state # NULL
CountCall == gui' = [gui EXCEPT !.calls = @ + 1]

rendererAddBuffer(b) ==
    /\ MayHandleEvent
    /\ list[b] = NULL
    /\ list' = [list EXCEPT ![b] = "added"]
    /\ CountCall
    /\ signalStateCond
    /\ UNCHANGED <<request, proxy, stateLock, mapped, shared, server>>

\* Mutant: an attached buffer is released at once
MutantRemoved(name) == NULL
\* a buffer that is not attached is released here, an attached one is left
\* to the renderer thread
Removed(name) == IF name = "added" THEN NULL ELSE "removed"

rendererRemoveBuffer(id) ==
    /\ MayHandleEvent
    /\ LET with(name) == {b \in InList(name) : BufferId[b] = id}
       IN  \E b \in IF with("added") # {} THEN with("added") ELSE with("buffers") :
              list' = [list EXCEPT ![b] = Removed(@)]
    /\ CountCall
    /\ UNCHANGED <<renderer, request, proxy, stateLock, mapped, shared, server>>

\* after rendererSetSharedState(NULL)
rendererRemoveAllBuffers ==
    /\ gui.pc = "removeAll"
    /\ list' = [b \in Buffer |-> IF list[b] = NULL THEN NULL ELSE Removed(list[b])]
    /\ gui' = [gui EXCEPT !.pc = "idle"]
    /\ UNCHANGED <<renderer, request, proxy, stateLock, mapped, shared, server>>

-----------------------------------------------------------------------------
(***************************************************************************)
(* The X server.                                                           *)
(***************************************************************************)
MayChange == server.pc = "idle" /\ server.changes < MaxChanges
CountChange == server' = [server EXCEPT !.changes = @ + 1]

lorieActivityConnected ==
    /\ MayChange
    /\ ~server.connected /\ renderer.state = NULL /\ gui.pc = "idle"
    /\ shared' = [shared EXCEPT !.drawRequested = TRUE, !.updated = TRUE]
    /\ server' = [server EXCEPT !.changes = @ + 1, !.connected = TRUE]
    /\ UNCHANGED <<renderer, request, gui, proxy, stateLock, list, mapped>>

\* a client draws, or the root window gets another buffer;
\* loriePrepareAccess() waits for state->lock
Draw(id) ==
    /\ MayChange
    /\ ~At("end")
    /\ server' = [server EXCEPT !.changes = @ + 1, !.root = id,
                                !.damage = TRUE, !.owed = TRUE]
    /\ UNCHANGED <<renderer, request, gui, proxy, stateLock, list, mapped, shared>>

lorieMoveCursor ==
    /\ MayChange
    /\ shared' = [shared EXCEPT !.moved = TRUE]
    /\ CountChange
    /\ signalSharedCond
    /\ UNCHANGED <<renderer, request, gui, stateLock, list, mapped>>

lorieSetCursor ==
    /\ MayChange
    /\ shared' = [shared EXCEPT !.updated = TRUE, !.moved = TRUE]
    /\ CountChange
    /\ signalSharedCond
    /\ UNCHANGED <<renderer, request, gui, stateLock, list, mapped>>

\* lorieRedraw(), at every frame: a next frame may be drawn ...
Redraw ==
    /\ server.pc = "idle"
    /\ shared' = [shared EXCEPT !.waitForNextFrame = FALSE]
    /\ server' = [server EXCEPT !.pc = IF /\ server.connected
                                          /\ shared.surfaceAvailable
                                       THEN "damage" ELSE "idle"]
    /\ UNCHANGED <<renderer, request, gui, proxy, stateLock, list, mapped>>

\* ... it is requested if something has been drawn ...
RedrawDamage ==
    /\ server.pc = "damage"
    /\ shared' = [shared EXCEPT !.drawRequested = @ \/ server.damage]
    /\ server' = [server EXCEPT !.pc = "signal", !.damage = FALSE]
    /\ UNCHANGED <<renderer, request, gui, proxy, stateLock, list, mapped>>

\* Mutant: the renderer is not signalled
MutantRedrawSignal ==
    /\ server.pc = "signal"
    /\ shared' = [shared EXCEPT !.rootWindowTextureID =
                                   IF changeVisible THEN server.root ELSE @]
    /\ server' = [server EXCEPT !.pc = "idle"]
    /\ UNCHANGED <<renderer, request, gui, proxy, stateLock, list, mapped>>

\* ... and the renderer is told which buffer to draw
RedrawSignal ==
    /\ server.pc = "signal"
    /\ IF changeVisible
       THEN /\ shared' = [shared EXCEPT !.rootWindowTextureID = server.root]
            /\ signalSharedCond
       ELSE UNCHANGED <<shared, proxy>>
    /\ server' = [server EXCEPT !.pc = "idle"]
    /\ UNCHANGED <<renderer, request, gui, stateLock, list, mapped>>

-----------------------------------------------------------------------------
\* pthread_cond_wait() may return without a signal; for the proxy thread
\* this is like a cursor that moves
SpuriousWakeup ==
    /\ \/ /\ At("asleep") \/ At("listening")
          /\ signalStateCond /\ gui' = gui
       \/ /\ gui.pc = "waiting"
          /\ gui' = [gui EXCEPT !.pc = "woken"] /\ renderer' = renderer
    /\ UNCHANGED <<request, proxy, stateLock, list, mapped, shared, server>>

RendererStep ==
    \/ Test \/ Sleep \/ Relock \/ TakeState \/ Listen \/ Listened \/ Apply
    \/ CheckRedraw \/ DrawBegin \/ DrawEnd \/ ReleaseRemoved

ProxyStep == ProxyStart \/ ProxyWoken

GuiStep == GuiCheck \/ GuiWait \/ GuiRelock \/ rendererRemoveAllBuffers

GuiCall ==
    \/ \E w \in Window \cup {NULL} : rendererSetWindow(w)
    \/ \E m \in Mapping \cup {NULL} : rendererSetSharedState(m)
    \/ \E b \in Buffer : rendererAddBuffer(b)
    \/ \E id \in Id : rendererRemoveBuffer(id)

ServerStep ==
    \/ lorieActivityConnected \/ lorieMoveCursor \/ lorieSetCursor
    \/ \E id \in Id : Draw(id)
    \/ Redraw \/ RedrawDamage \/ RedrawSignal

Next ==
    \/ RendererStep \/ ProxyStep \/ GuiStep \/ GuiCall \/ ServerStep
    \/ SpuriousWakeup

Spec == Init /\ [][Next]_vars

(***************************************************************************)
(* Every thread runs, a thread that keeps finding stateLock free gets it,  *)
(* and the server's frame timer keeps ticking.                             *)
(***************************************************************************)
Fairness ==
    /\ WF_vars(RendererStep) /\ SF_vars(Relock)
    /\ WF_vars(ProxyStep)
    /\ WF_vars(GuiStep) /\ SF_vars(GuiRelock)
    /\ WF_vars(Redraw) /\ WF_vars(RedrawDamage) /\ WF_vars(RedrawSignal)

LiveSpec == Spec /\ Fairness

-----------------------------------------------------------------------------
(***************************************************************************)
(* The buffer rendererRedrawLocked() draws is not released under it,       *)
(* although the GUI thread may remove it, or everything, meanwhile         *)
(* (renderer.c 518: "The buffer will not be released until this function   *)
(* ends, but main thread can modify buffer list").                         *)
(***************************************************************************)
BufferNotReleased ==
    renderer.pc \in {"draw", "end"}
        => list[renderer.buffer] \in {"buffers", "removed"}

(***************************************************************************)
(* No thread uses memory of the shared state that has been unmapped: the   *)
(* renderer thread unmaps the old state only after the proxy thread has    *)
(* moved to another condition variable.                                    *)
(***************************************************************************)
NothingUnmappedUsed ==
    /\ renderer.state # NULL => renderer.state \in mapped
    /\ proxy.current # Default => proxy.current \in mapped

(***************************************************************************)
(* When rendererSetWindow() has returned, no surface of an earlier window  *)
(* is left (renderer.c 439: "We should wait until renderer destroys        *)
(* EGLSurface before SurfaceCallback::surfaceDestroyed finishes"), except  *)
(* where EGL has failed to let it go: then the function returns all the    *)
(* same, and the surface stays.                                            *)
(***************************************************************************)
EarlierSurfaceGone ==
    gui.call = NULL
        => renderer.sfc \in {gui.wanted, Default, NULL} \cup renderer.stuck

(***************************************************************************)
(* The server is told to draw frames only while there is a window to show  *)
(* them: surfaceAvailable is never left over from a window that is gone,   *)
(* not even when its surface is stuck, except by a window whose surface    *)
(* could not be created.                                                   *)
(***************************************************************************)
FramesNeedWindow ==
    renderer.state # NULL /\ shared.surfaceAvailable /\ renderer.sfc # NULL
        => renderer.sfc \in Window /\ renderer.sfc = renderer.win

(***************************************************************************)
(* What clients draw on the root window while the renderer works is not    *)
(* lost: as long as the root window keeps its buffer, it stays in the      *)
(* damaged region or requested until it is copied to the screen, although  *)
(* neither side locks anything for the flags.                              *)
(***************************************************************************)
Shown == renderer.sfc \in Window /\ shared.surfaceAvailable

FrameStaysRequested ==
    server.owed /\ Shown /\ server.drawn = server.root
        => server.damage \/ shared.drawRequested

(***************************************************************************)
(* A GUI call always returns: the renderer thread takes the window or the  *)
(* state and wakes the GUI thread.  Not so when the call came before the   *)
(* two threads slept for the first time.                                   *)
(***************************************************************************)
CallReturns == (gui.pc # "idle" /\ ~gui.early) ~> (gui.pc = "idle")

(***************************************************************************)
(* A requested frame is drawn, although signals to a thread that is not    *)
(* waiting yet are lost, unless there is nothing to draw it on or the      *)
(* buffer has not arrived.                                                 *)
(***************************************************************************)
Drawable ==
    /\ ~gui.early /\ renderer.state # NULL /\ shared.surfaceAvailable
    /\ \E b \in Buffer : list[b] \in {"added", "buffers"} /\ BufferId[b] = server.root

FrameIsDrawn ==
    (shared.drawRequested /\ Drawable)
        ~> (~shared.drawRequested \/ ~Drawable)

(***************************************************************************)
(* InitOutput.c 439-442: the renderer is told about "pending root window   *)
(* changes" and "will check the `drawRequested` flag right before going to *)
(* sleep".  So what is drawn on a new root buffer stays requested until    *)
(* it is copied.                                                           *)
(***************************************************************************)
RootChangeStaysRequested ==
    server.owed /\ Shown => server.damage \/ shared.drawRequested

=============================================================================
