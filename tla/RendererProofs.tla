--------------------------- MODULE RendererProofs ---------------------------
(***************************************************************************)
(* Proofs about Renderer: what its safety invariants say holds for any     *)
(* windows, mappings and buffers, and any number of calls and drawings.    *)
(***************************************************************************)
EXTENDS Renderer, TLAPS

-----------------------------------------------------------------------------
(***************************************************************************)
(* The inductive invariant.                                                *)
(***************************************************************************)

\* While the renderer thread waits for the proxy thread to leave the old
\* state, the proxy thread has been told where to go, or has gone there
States ==
    /\ renderer.state \in mapped \cup {NULL}
    /\ proxy.current \in mapped \cup {Default}
    /\ renderer.oldState # NULL =>
           /\ renderer.pc \in {"listen", "listening", "listened"}
           /\ renderer.oldState \in mapped
           /\ renderer.oldState # renderer.state
    /\ proxy.pending # NULL =>
           /\ renderer.pc \in {"listening", "listened"}
           /\ proxy.pending = OtherCond
    /\ renderer.pc \in {"listening", "listened"} =>
           IF proxy.relocked THEN proxy.current = OtherCond /\ proxy.pending = NULL
           ELSE proxy.pending = OtherCond

\* A pending state is a new mapping, or there is one to let go
Pending ==
    request.stateChanged =>
        IF request.pendingState = NULL
        THEN renderer.state # NULL /\ ~server.connected
        ELSE /\ renderer.state = NULL /\ server.connected
             /\ request.pendingState \in mapped
             /\ request.pendingState # renderer.oldState

Drawing ==
    renderer.pc \in {"draw", "end"} =>
        /\ renderer.state # NULL
        /\ renderer.buffer \in Buffer
        /\ list[renderer.buffer] \in {"buffers", "removed"}

\* A window that is not pending any more has replaced the surface, unless EGL
\* has failed to let it go
Windows ==
    /\ \/ renderer.sfc \in {renderer.win, NULL}
       \/ renderer.win = Default /\ renderer.sfc \in renderer.stuck
    /\ IF request.windowChanged
       THEN /\ gui.pc \in {"check", "wait", "waiting", "woken"}
            /\ gui.call \in {SetWindow(w) : w \in Window \cup {NULL}}
            /\ request.pendingWin = gui.wanted
       ELSE renderer.sfc \in {gui.wanted, Default, NULL} \cup renderer.stuck
    /\ renderer.state # NULL /\ shared.surfaceAvailable /\ renderer.sfc # NULL
           => renderer.win # Default

\* Without a state the renderer thread clears no flag of the server
Frames ==
    /\ renderer.state = NULL /\ server.connected => shared.drawRequested
    /\ shared.surfaceAvailable /\ server.owed /\ server.drawn = server.root
           => server.damage \/ shared.drawRequested

IInv == TypeOK /\ States /\ Pending /\ Drawing /\ Windows /\ Frames

\* What rendererRefreshContext() leaves
Contexts ==
    IF request.windowChanged THEN rendererRefreshContext
    ELSE {Context(renderer.win, renderer.sfc, renderer.stuck, shared)}

\* What releaseWinAndSurface() leaves
LEMMA Released ==
    ASSUME TypeOK, Windows, NEW r \in releaseWinAndSurface
    PROVE  /\ r.stuck \in SUBSET Window
           /\ r.sfc \in {Default, NULL} \cup r.stuck
<1>1. renderer.sfc \in Window \cup {Default, NULL} /\ renderer.stuck \in SUBSET Window
  BY DEF TypeOK, RendererThread
<1>2. CASE renderer.sfc \in Window
  BY <1>1, <1>2 DEF releaseWinAndSurface
<1>3. CASE renderer.sfc \notin Window
  BY <1>1, <1>3 DEF releaseWinAndSurface
<1> QED BY <1>2, <1>3

\* The surface is the window's, if there is one, or stuck, and surfaceAvailable
\* is only set along with drawRequested, and only for a window
LEMMA RefreshedContext ==
    ASSUME TypeOK, Windows, NEW c \in Contexts
    PROVE  /\ c.win \in Window \cup {Default}
           /\ c.stuck \in SUBSET Window
           /\ c.sfc \in {c.win, NULL} \/ (c.win = Default /\ c.sfc \in c.stuck)
           /\ c.shared \in SharedState
           /\ request.windowChanged
                  => c.sfc \in {request.pendingWin, Default, NULL} \cup c.stuck
           /\ ~request.windowChanged => c.sfc = renderer.sfc /\ c.stuck = renderer.stuck
           /\ renderer.state = NULL => c.shared = shared
           /\ renderer.state # NULL /\ c.shared.surfaceAvailable /\ c.sfc # NULL
                  => c.win # Default
           /\ c.shared.surfaceAvailable /\ ~c.shared.drawRequested
                  => shared.surfaceAvailable /\ ~shared.drawRequested
<1> USE DEF Context
<1>1. shared \in SharedState
  BY DEF TypeOK
<1>2. CASE ~request.windowChanged
  <2>1. c = Context(renderer.win, renderer.sfc, renderer.stuck, shared)
    BY <1>2, Zenon DEF Contexts
  <2>2. /\ c.win = renderer.win /\ c.sfc = renderer.sfc /\ c.stuck = renderer.stuck
        /\ c.shared = shared
    BY <2>1
  <2> QED BY <1>1, <1>2, <2>2 DEF TypeOK, RendererThread, RendererLabel, Windows
<1>3. ASSUME request.windowChanged, NEW r \in releaseWinAndSurface, c = NoWindow(r)
      PROVE  /\ c.win = Default /\ c.sfc = r.sfc /\ c.stuck = r.stuck
             /\ c.shared \in SharedState
             /\ renderer.state = NULL => c.shared = shared
             /\ renderer.state # NULL => c.shared.surfaceAvailable = FALSE
  <2> DEFINE flags == [shared EXCEPT !.surfaceAvailable = FALSE]
  <2>1. flags \in SharedState /\ flags.surfaceAvailable = FALSE
    BY <1>1, Zenon DEF SharedState
  <2>2. /\ c.win = Default /\ c.sfc = r.sfc /\ c.stuck = r.stuck
        /\ c.shared = IF renderer.state # NULL THEN flags ELSE shared
    BY <1>3 DEF NoWindow
  <2> HIDE DEF flags
  <2> QED BY <1>1, <1>3, <2>1, <2>2
<1>4. ASSUME request.windowChanged,
             NEW w \in {request.pendingWin, Default}, w # NULL,
             NEW r \in releaseWinAndSurface, c \in Creations(w, r)
      PROVE  /\ c.win = w /\ c.sfc \in {w, NULL} /\ c.stuck = r.stuck
             /\ c.shared \in SharedState
             /\ renderer.state = NULL => c.shared = shared
             /\ renderer.state # NULL /\ c.shared.surfaceAvailable
                    => c.sfc = NULL \/ w # Default
             /\ c.shared.surfaceAvailable /\ ~c.shared.drawRequested
                    => shared.surfaceAvailable /\ ~shared.drawRequested
  <2>1. CASE c = Context(w, NULL, r.stuck, shared)
    BY <1>1, <2>1
  <2>2. CASE c = Context(w, w, r.stuck, [shared EXCEPT !.surfaceAvailable = FALSE])
    <3> DEFINE flags == [shared EXCEPT !.surfaceAvailable = FALSE]
    <3>1. flags \in SharedState /\ flags.surfaceAvailable = FALSE
      BY <1>1, Zenon DEF SharedState
    <3>2. /\ c.win = w /\ c.sfc = w /\ c.stuck = r.stuck
          /\ c.shared = IF renderer.state # NULL THEN flags ELSE shared
      BY <2>2
    <3> HIDE DEF flags
    <3> QED BY <1>1, <3>1, <3>2
  <2>3. CASE c = Context(w, w, r.stuck,
                         [shared EXCEPT !.surfaceAvailable = w # Default,
                                        !.drawRequested = w # Default,
                                        !.updated = w # Default])
    <3> DEFINE flags == [shared EXCEPT !.surfaceAvailable = w # Default,
                                       !.drawRequested = w # Default,
                                       !.updated = w # Default]
    <3>1. /\ flags \in SharedState
          /\ flags.surfaceAvailable = (w # Default)
          /\ flags.drawRequested = (w # Default)
      BY <1>1, Zenon DEF SharedState
    <3>2. /\ c.win = w /\ c.sfc = w /\ c.stuck = r.stuck
          /\ c.shared = IF renderer.state # NULL THEN flags ELSE shared
      BY <2>3
    <3> HIDE DEF flags
    <3> QED BY <1>1, <3>1, <3>2, Zenon
  <2> QED BY <1>4, <2>1, <2>2, <2>3, Zenon DEF Creations
<1>5. CASE request.windowChanged
  <2>1. PICK r \in releaseWinAndSurface :
            c \in IF request.pendingWin = NULL THEN {NoWindow(r)}
                  ELSE NewWindow(request.pendingWin, r) \cup NewWindow(Default, r)
    BY <1>5, Zenon DEF Contexts, rendererRefreshContext
  <2>2. r.stuck \in SUBSET Window /\ r.sfc \in {Default, NULL} \cup r.stuck
    BY <2>1, Released
  <2>3. CASE c = NoWindow(r)
    BY <1>3, <1>5, <2>1, <2>2, <2>3
  <2>4. CASE c # NoWindow(r)
    <3>1. PICK w \in {request.pendingWin, Default} : w # NULL /\ c \in Creations(w, r)
      BY <2>1, <2>4, NullAssumption DEF NewWindow
    <3>2. w \in Window \cup {Default}
      BY <3>1 DEF TypeOK, Request
    <3> QED BY <1>4, <1>5, <2>1, <2>2, <3>1, <3>2
  <2> QED BY <2>3, <2>4
<1> QED BY <1>2, <1>5

-----------------------------------------------------------------------------
(***************************************************************************)
(* Type correctness, thread by thread.                                     *)
(***************************************************************************)

\* The renderer thread goes to one of its labels
LEMMA LabelTypes ==
    ASSUME TypeOK, NEW label \in RendererLabel
    PROVE  [renderer EXCEPT !.pc = label] \in RendererThread
BY Zenon DEF TypeOK, RendererThread

\* Moving buffers between the lists keeps them in the lists
LEMMA MoveTypes ==
    ASSUME TypeOK, NEW from,
           NEW to \in {NULL, "added", "buffers", "removed"}, MoveAll(from, to)
    PROVE  list' \in [Buffer -> {NULL, "added", "buffers", "removed"}]
BY DEF TypeOK, MoveAll

\* The renderer thread, up to the unmapping of the old state
LEMMA TakeTypes ==
    ASSUME TypeOK, Test \/ Sleep \/ Relock \/ TakeState \/ Listen \/ Listened
    PROVE  TypeOK'
<1>1. CASE Test
  <2> DEFINE id == IF pendingChanges \/ renderer.state = NULL
                   THEN renderer.lastRequestedBufferId
                   ELSE shared.rootWindowTextureID
             waiting == renderer.waitingForBuffers
                          /\ renderer.lastRequestedBufferId = id
             next == IF rendererShouldWait(waiting) THEN "sleep" ELSE "take"
  <2>1. renderer' = [renderer EXCEPT !.waitingForBuffers = waiting,
                                     !.lastRequestedBufferId = id, !.pc = next]
    BY <1>1, Zenon DEF Test
  <2>2. id \in Id \cup {0}
    BY DEF TypeOK, RendererThread, RendererLabel, SharedState
  <2>3. waiting \in BOOLEAN
    OBVIOUS
  <2>4. next \in RendererLabel
    BY Zenon DEF RendererLabel
  <2> HIDE DEF id, waiting, next
  <2>5. renderer' \in RendererThread
    BY <2>1, <2>2, <2>3, <2>4, Zenon DEF TypeOK, RendererThread
  <2> QED BY <1>1, <2>5 DEF TypeOK, Test
<1>2. CASE Sleep \/ Relock
  <2>1. renderer' \in RendererThread
    BY <1>2 DEF TypeOK, RendererThread, RendererLabel, Sleep, Relock, Goto
  <2> QED BY <1>2, <2>1 DEF TypeOK, Sleep, Relock
<1>3. CASE TakeState /\ request.stateChanged
  <2> DEFINE old == IF request.pendingState = renderer.state THEN NULL
                    ELSE renderer.state
             available == IF request.pendingState # NULL
                          THEN renderer.win # Default
                          ELSE shared.surfaceAvailable
  <2>1. /\ renderer' = [renderer EXCEPT !.oldState = old,
                                        !.state = request.pendingState,
                                        !.waitingForBuffers = FALSE,
                                        !.pc = "listen"]
        /\ request' = [request EXCEPT !.pendingState = NULL,
                                      !.stateChanged = FALSE]
        /\ shared' = [shared EXCEPT !.surfaceAvailable = available]
    BY <1>3, Zenon DEF TakeState
  <2>2. old \in Mapping \cup {NULL}
    BY DEF TypeOK, RendererThread, RendererLabel
  <2>3. available \in BOOLEAN
    BY Zenon DEF TypeOK, SharedState
  <2> HIDE DEF old, available
  <2>4. renderer' \in RendererThread
    <3>1. "listen" \in RendererLabel
      BY DEF RendererLabel
    <3> QED BY <2>1, <2>2, <3>1, Zenon DEF TypeOK, RendererThread, Request
  <2>5. request' \in Request
    BY <2>1, Zenon DEF TypeOK, Request
  <2>6. shared' \in SharedState
    BY <2>1, <2>3, Zenon DEF TypeOK, SharedState
  <2> QED BY <1>3, <2>4, <2>5, <2>6 DEF TypeOK, TakeState
<1>4. CASE TakeState /\ ~request.stateChanged
  <2>1. renderer' \in RendererThread
    BY <1>4 DEF TypeOK, RendererThread, RendererLabel, TakeState, Goto
  <2> QED BY <1>4, <2>1 DEF TypeOK, TakeState
<1>5. CASE Listen
  <2>1. renderer' \in RendererThread
    BY <1>5 DEF TypeOK, RendererThread, RendererLabel, Listen, Goto
  <2>2. OtherCond \in Mapping \cup {Default, NULL}
    BY DEF TypeOK, RendererThread, RendererLabel, OtherCond
  <2>3. Signalled(proxy) \in ProxyThread
    BY DEF TypeOK, ProxyThread, Signalled
  <2>4. proxy' \in ProxyThread
    BY <1>5, <2>2, <2>3, Zenon DEF ProxyThread, Listen
  <2> QED BY <1>5, <2>1, <2>4 DEF TypeOK, Listen
<1>6. CASE Listened /\ proxy.relocked
  <2>1. renderer' = [renderer EXCEPT !.pc = "apply", !.oldState = NULL]
    BY <1>6, Zenon DEF Listened
  <2>2. renderer' \in RendererThread
    <3>1. "apply" \in RendererLabel
      BY DEF RendererLabel
    <3> QED BY <2>1, <3>1, Zenon DEF TypeOK, RendererThread
  <2> QED BY <1>6, <2>2 DEF TypeOK, Listened
<1>7. CASE Listened /\ ~proxy.relocked
  <2>1. renderer' \in RendererThread
    BY <1>7 DEF TypeOK, RendererThread, RendererLabel, Listened, Goto
  <2> QED BY <1>7, <2>1 DEF TypeOK, Listened
<1> QED
  BY <1>1, <1>2, <1>3, <1>4, <1>5, <1>6, <1>7

\* The renderer thread, from the window on
LEMMA DrawTypes ==
    ASSUME TypeOK, Windows, Drawing,
           Apply \/ CheckRedraw \/ DrawBegin \/ DrawEnd \/ ReleaseRemoved
    PROVE  TypeOK'
<1>1. CASE Apply
  <2> DEFINE waiting == renderer.waitingForBuffers /\ InList("added") = {}
  <2>1. PICK c \in Contexts :
          /\ renderer' = [renderer EXCEPT !.win = c.win, !.sfc = c.sfc,
                                          !.stuck = c.stuck,
                                          !.waitingForBuffers = waiting,
                                          !.pc = "check"]
          /\ shared' = c.shared
    BY <1>1, Zenon DEF Apply, Contexts
  <2>2. waiting \in BOOLEAN
    OBVIOUS
  <2> HIDE DEF waiting
  <2>3. /\ c.win \in Window \cup {Default} /\ c.sfc \in Window \cup {Default, NULL}
        /\ c.stuck \in SUBSET Window
        /\ shared' \in SharedState
    BY <2>1, RefreshedContext
  <2>4. renderer' \in RendererThread
    <3>1. "check" \in RendererLabel
      BY DEF RendererLabel
    <3> QED BY <2>1, <2>2, <2>3, <3>1, ZenonT(40) DEF TypeOK, RendererThread
  <2>5. request' \in Request
    <3> DEFINE win == IF request.windowChanged THEN NULL ELSE request.pendingWin
    <3>1. request' = [request EXCEPT !.windowChanged = FALSE, !.pendingWin = win]
      BY <1>1, Zenon DEF Apply
    <3>2. win \in Window \cup {NULL}
      BY DEF TypeOK, Request
    <3> HIDE DEF win
    <3> QED BY <3>1, <3>2, Zenon DEF TypeOK, Request
  <2>6. gui' \in GuiThread
    <3> DEFINE next == IF gui.pc = "waiting" THEN "woken" ELSE gui.pc
    <3>1. gui' = [gui EXCEPT !.pc = next]
      BY <1>1, Zenon DEF Apply
    <3> QED BY <3>1 DEF TypeOK, GuiThread
  <2>7. list' \in [Buffer -> {NULL, "added", "buffers", "removed"}]
    BY <1>1, MoveTypes, Zenon DEF Apply
  <2> QED BY <1>1, <2>3, <2>4, <2>5, <2>6, <2>7, Zenon DEF TypeOK, Apply
<1>2. CASE CheckRedraw
  <2>1. CASE Goto("release")
    <3>1. renderer' \in RendererThread
      BY <2>1, LabelTypes, Zenon DEF Goto, RendererLabel
    <3> QED BY <1>2, <3>1, Zenon DEF TypeOK, CheckRedraw
  <2>2. CASE ~Goto("release")
    <3> DEFINE waiting(b) == renderer.waitingForBuffers \/ b = NULL
               next(b) == IF b = NULL THEN "release" ELSE "draw"
    <3>1. PICK b \in Buffer \cup {NULL} :
            renderer' = [renderer EXCEPT !.buffer = b,
                                         !.waitingForBuffers = waiting(b),
                                         !.pc = next(b)]
      <4> DEFINE found == IF Matching("buffers") # {} THEN Matching("buffers")
                          ELSE Matching("removed")
      <4>1. \E b \in IF found = {} THEN {NULL} ELSE found :
               renderer' = [renderer EXCEPT !.buffer = b,
                                            !.waitingForBuffers = waiting(b),
                                            !.pc = next(b)]
        BY <1>2, <2>2, Zenon DEF CheckRedraw
      <4>2. (IF found = {} THEN {NULL} ELSE found) \subseteq Buffer \cup {NULL}
        BY Zenon DEF Matching, InList
      <4> HIDE DEF found, waiting, next
      <4> QED BY <4>1, <4>2, Zenon
    <3>2. waiting(b) \in BOOLEAN /\ next(b) \in RendererLabel
      BY DEF RendererLabel
    <3> HIDE DEF waiting, next
    <3>3. renderer' \in RendererThread
      BY <3>1, <3>2, Zenon DEF TypeOK, RendererThread
    <3> QED BY <1>2, <3>3, Zenon DEF TypeOK, CheckRedraw
  <2> QED BY <2>1, <2>2
<1>3. CASE DrawBegin
  <2> DEFINE id == BufferId[renderer.buffer]
             owed == server.owed /\ id # server.root
  <2>1. /\ server' = [server EXCEPT !.drawn = id, !.owed = owed]
        /\ shared' = [shared EXCEPT !.drawRequested = FALSE]
    BY <1>3, Zenon DEF DrawBegin
  <2>2. id \in Id
    BY <1>3 DEF Drawing, DrawBegin, At, Id
  <2>3. owed \in BOOLEAN
    OBVIOUS
  <2> HIDE DEF id, owed
  <2>4. server' \in ServerThread
    BY <2>1, <2>2, <2>3, Zenon DEF TypeOK, ServerThread
  <2>5. shared' \in SharedState
    BY <2>1, Zenon DEF TypeOK, SharedState
  <2>6. renderer' \in RendererThread
    BY <1>3 DEF TypeOK, RendererThread, RendererLabel, DrawBegin, Goto
  <2> QED BY <1>3, <2>4, <2>5, <2>6 DEF TypeOK, DrawBegin
<1>4. CASE DrawEnd
  <2>1. renderer' \in RendererThread
    <3>1. "release" \in RendererLabel
      BY DEF RendererLabel
    <3> QED BY <1>4, <3>1, Zenon DEF TypeOK, RendererThread, DrawEnd
  <2>2. shared' \in SharedState
    BY <1>4, Zenon DEF TypeOK, SharedState, DrawEnd
  <2> QED BY <1>4, <2>1, <2>2 DEF TypeOK, DrawEnd
<1>5. CASE ReleaseRemoved
  <2>1. renderer' \in RendererThread
    BY <1>5, LabelTypes DEF ReleaseRemoved, Goto, RendererLabel
  <2>2. list' \in [Buffer -> {NULL, "added", "buffers", "removed"}]
    BY <1>5, MoveTypes, Zenon DEF ReleaseRemoved
  <2> QED BY <1>5, <2>1, <2>2, Zenon DEF TypeOK, ReleaseRemoved
<1> QED BY <1>1, <1>2, <1>3, <1>4, <1>5

\* pthread_cond_signal() keeps the types
LEMMA SignalTypes ==
    ASSUME TypeOK
    PROVE  /\ Signalled(renderer) \in RendererThread
           /\ Signalled(proxy) \in ProxyThread
<1>1. Signalled(renderer) \in RendererThread
  BY DEF TypeOK, RendererThread, RendererLabel, Signalled
<1>2. Signalled(proxy) \in ProxyThread
  BY DEF TypeOK, ProxyThread, Signalled
<1> QED BY <1>1, <1>2

\* The proxy thread, and wake-ups for no reason
LEMMA ProxyTypes ==
    ASSUME TypeOK, ProxyStep \/ SpuriousWakeup
    PROVE  TypeOK'
<1>1. CASE ProxyStart
  <2>1. proxy' \in ProxyThread
    BY <1>1 DEF TypeOK, ProxyThread, ProxyStart
  <2> QED BY <1>1, <2>1 DEF TypeOK, ProxyStart
<1>2. CASE ProxyWoken
  <2>1. proxy' \in ProxyThread
    BY <1>2 DEF TypeOK, ProxyThread, ProxyWoken
  <2>2. renderer' \in RendererThread
    BY <1>2, SignalTypes DEF ProxyWoken, signalStateCond
  <2> QED BY <1>2, <2>1, <2>2 DEF TypeOK, ProxyWoken
<1>3. CASE SpuriousWakeup
  <2>1. renderer' \in RendererThread
    BY <1>3, SignalTypes DEF TypeOK, SpuriousWakeup, signalStateCond
  <2>2. gui' \in GuiThread
    BY <1>3 DEF TypeOK, GuiThread, SpuriousWakeup
  <2> QED BY <1>3, <2>1, <2>2 DEF TypeOK, SpuriousWakeup
<1> QED BY <1>1, <1>2, <1>3 DEF ProxyStep

\* The GUI thread in the loop of a call
LEMMA GuiTypes ==
    ASSUME TypeOK, GuiStep
    PROVE  TypeOK'
<1>1. CASE GuiCheck /\ StillPending
  <2>1. gui' \in GuiThread
    BY <1>1 DEF TypeOK, GuiThread, GuiCheck
  <2> QED BY <1>1, <2>1 DEF TypeOK, GuiCheck
<1>2. CASE GuiCheck /\ ~StillPending
  <2> DEFINE next == IF gui.call = SetState(NULL) THEN "removeAll" ELSE "idle"
  <2>1. gui' = [gui EXCEPT !.call = NULL, !.pc = next] /\ stateLock' = NULL
    BY <1>2, Zenon DEF GuiCheck
  <2>2. next \in {"removeAll", "idle"}
    BY Zenon
  <2> HIDE DEF next
  <2>3. gui' \in GuiThread
    BY <2>1, <2>2, Zenon DEF TypeOK, GuiThread
  <2> QED BY <1>2, <2>1, <2>3 DEF TypeOK, GuiCheck
<1>3. CASE GuiWait \/ GuiRelock
  <2>1. gui' \in GuiThread
    BY <1>3 DEF TypeOK, GuiThread, GuiWait, GuiRelock
  <2> QED BY <1>3, <2>1 DEF TypeOK, GuiWait, GuiRelock
<1>4. CASE rendererRemoveAllBuffers
  <2>1. gui' \in GuiThread
    BY <1>4 DEF TypeOK, GuiThread, rendererRemoveAllBuffers
  <2> QED BY <1>4, <2>1 DEF TypeOK, rendererRemoveAllBuffers, Removed
<1> QED BY <1>1, <1>2, <1>3, <1>4 DEF GuiStep

\* The calls of the GUI thread
LEMMA CallTypes ==
    ASSUME TypeOK, GuiCall
    PROVE  TypeOK'
<1> USE InputAssumption
<1>1. ASSUME NEW c \in Call, NEW w \in Window \cup {NULL}, MayCall
      PROVE  Entered(c, w) \in GuiThread
  <2> DEFINE early == \/ gui.early \/ proxy.pc = "start"
                      \/ renderer.pc \in UnderLock
  <2>1. gui.calls + 1 \in 0..MaxCalls
    BY <1>1 DEF TypeOK, GuiThread, MayCall
  <2>2. early \in BOOLEAN
    OBVIOUS
  <2>3. Entered(c, w) = [pc |-> "check", call |-> c, calls |-> gui.calls + 1,
                         wanted |-> w, early |-> early]
    BY Zenon DEF Entered
  <2> HIDE DEF early
  <2> QED BY <2>1, <2>2, <2>3 DEF GuiThread
<1>2. ASSUME NEW w \in Window \cup {NULL}, rendererSetWindow(w)
      PROVE  TypeOK'
  <2>1. gui' \in GuiThread
    BY <1>1, <1>2 DEF rendererSetWindow, Call
  <2>2. request' \in Request
    BY <1>2, Zenon DEF TypeOK, Request, rendererSetWindow
  <2>3. renderer' \in RendererThread
    BY <1>2, SignalTypes DEF rendererSetWindow, signalStateCond
  <2> QED BY <1>2, <2>1, <2>2, <2>3 DEF TypeOK, rendererSetWindow
<1>3. ASSUME NEW m \in Mapping \cup {NULL}, rendererSetSharedState(m)
      PROVE  TypeOK'
  <2>1. gui' \in GuiThread
    BY <1>1, <1>3 DEF TypeOK, GuiThread, rendererSetSharedState, Call
  <2>2. request' \in Request
    BY <1>3, Zenon DEF TypeOK, Request, rendererSetSharedState
  <2>3. renderer' \in RendererThread
    BY <1>3, SignalTypes DEF rendererSetSharedState, signalStateCond
  <2>4. server' \in ServerThread
    BY <1>3, Zenon DEF TypeOK, ServerThread, rendererSetSharedState
  <2>5. mapped' \in SUBSET Mapping
    BY <1>3 DEF TypeOK, rendererSetSharedState
  <2> QED BY <1>3, <2>1, <2>2, <2>3, <2>4, <2>5 DEF TypeOK, rendererSetSharedState
<1>4. ASSUME NEW b \in Buffer, rendererAddBuffer(b)
      PROVE  TypeOK'
  <2>1. gui' \in GuiThread
    BY <1>4 DEF TypeOK, GuiThread, rendererAddBuffer, MayHandleEvent, MayCall, CountCall
  <2>2. renderer' \in RendererThread
    BY <1>4, SignalTypes DEF rendererAddBuffer, signalStateCond
  <2> QED BY <1>4, <2>1, <2>2 DEF TypeOK, rendererAddBuffer
<1>5. ASSUME NEW id \in Id, rendererRemoveBuffer(id)
      PROVE  TypeOK'
  <2>1. gui' \in GuiThread
    BY <1>5 DEF TypeOK, GuiThread, rendererRemoveBuffer, MayHandleEvent, MayCall,
                CountCall
  <2>2. list' \in [Buffer -> {NULL, "added", "buffers", "removed"}]
    BY <1>5 DEF TypeOK, rendererRemoveBuffer, Removed, InList
  <2> QED BY <1>5, <2>1, <2>2 DEF TypeOK, rendererRemoveBuffer
<1> QED BY <1>2, <1>3, <1>4, <1>5, Zenon DEF GuiCall

\* The X server
LEMMA ServerTypes ==
    ASSUME TypeOK, ServerStep
    PROVE  TypeOK'
<1> USE InputAssumption
<1>1. server.changes \in 0..MaxChanges /\ server.changes \in Nat
  BY DEF TypeOK, ServerThread
<1>2. MayChange => server.changes + 1 \in 0..MaxChanges
  BY <1>1 DEF MayChange
<1>3. signalSharedCond => proxy' \in ProxyThread
  BY SignalTypes DEF TypeOK, signalSharedCond
<1>4. CASE lorieActivityConnected
  <2>1. server' \in ServerThread
    BY <1>2, <1>4, Zenon DEF TypeOK, ServerThread, lorieActivityConnected
  <2>2. shared' \in SharedState
    BY <1>4, Zenon DEF TypeOK, SharedState, lorieActivityConnected
  <2> QED BY <1>4, <2>1, <2>2 DEF TypeOK, lorieActivityConnected
<1>5. CASE lorieMoveCursor \/ lorieSetCursor
  <2>1. server' \in ServerThread
    BY <1>2, <1>5, Zenon DEF TypeOK, ServerThread, lorieMoveCursor, lorieSetCursor,
                             CountChange
  <2>2. shared' \in SharedState
    <3>1. CASE lorieMoveCursor
      BY <3>1, Zenon DEF TypeOK, SharedState, lorieMoveCursor
    <3>2. CASE lorieSetCursor
      BY <3>2, Zenon DEF TypeOK, SharedState, lorieSetCursor
    <3> QED BY <1>5, <3>1, <3>2
  <2> QED BY <1>3, <1>5, <2>1, <2>2 DEF TypeOK, lorieMoveCursor, lorieSetCursor
<1>6. ASSUME NEW id \in Id, Draw(id)
      PROVE  TypeOK'
  <2>1. server' \in ServerThread
    BY <1>2, <1>6, Zenon DEF TypeOK, ServerThread, Draw
  <2> QED BY <1>6, <2>1 DEF TypeOK, Draw
<1>7. CASE Redraw
  <2>1. server' \in ServerThread
    BY <1>7, Zenon DEF TypeOK, ServerThread, Redraw
  <2>2. shared' \in SharedState
    BY <1>7, Zenon DEF TypeOK, SharedState, Redraw
  <2> QED BY <1>7, <2>1, <2>2 DEF TypeOK, Redraw
<1>8. CASE RedrawDamage
  <2>1. server' \in ServerThread
    BY <1>8, Zenon DEF TypeOK, ServerThread, RedrawDamage
  <2>2. shared' \in SharedState
    BY <1>8, Zenon DEF TypeOK, SharedState, RedrawDamage
  <2> QED BY <1>8, <2>1, <2>2 DEF TypeOK, RedrawDamage
<1>9. CASE RedrawSignal
  <2>1. server' \in ServerThread
    BY <1>9 DEF TypeOK, ServerThread, RedrawSignal
  <2>2. shared' \in SharedState
    BY <1>9 DEF TypeOK, SharedState, ServerThread, RedrawSignal
  <2>3. proxy' \in ProxyThread
    BY <1>3, <1>9 DEF TypeOK, RedrawSignal
  <2> QED BY <1>9, <2>1, <2>2, <2>3 DEF TypeOK, RedrawSignal
<1> QED BY <1>4, <1>5, <1>6, <1>7, <1>8, <1>9, Zenon DEF ServerStep

\* Every step
LEMMA TypesKept ==
    ASSUME IInv, [Next]_vars
    PROVE  TypeOK'
<1>1. TypeOK /\ Windows /\ Drawing
  BY DEF IInv
<1>2. CASE RendererStep
  BY <1>1, <1>2, TakeTypes, DrawTypes DEF RendererStep
<1>3. CASE ProxyStep \/ SpuriousWakeup
  BY <1>1, <1>3, ProxyTypes
<1>4. CASE GuiStep
  BY <1>1, <1>4, GuiTypes
<1>5. CASE GuiCall
  BY <1>1, <1>5, CallTypes
<1>6. CASE ServerStep
  BY <1>1, <1>6, ServerTypes
<1>7. CASE UNCHANGED vars
  BY <1>1, <1>7 DEF TypeOK, vars
<1> QED BY <1>2, <1>3, <1>4, <1>5, <1>6, <1>7 DEF Next

-----------------------------------------------------------------------------
(***************************************************************************)
(* The rest of the invariant, thread by thread.                            *)
(***************************************************************************)
Rest == States /\ Pending /\ Drawing /\ Windows /\ Frames

\* The renderer thread, up to the unmapping of the old state: here the proxy
\* thread leaves it
LEMMA TakeKeeps ==
    ASSUME IInv, TypeOK',
           Test \/ Sleep \/ Relock \/ TakeState \/ Listen \/ Listened
    PROVE  Rest'
<1> USE NullAssumption
<1>1. TypeOK /\ Rest
  BY DEF IInv, Rest
<1>2. CASE Test \/ Sleep \/ Relock
  <2>1. /\ renderer.pc \notin {"listen", "listening", "listened"}
        /\ renderer'.pc \in {"sleep", "take", "asleep", "test"}
        /\ renderer'.state = renderer.state /\ renderer'.oldState = renderer.oldState
        /\ renderer'.win = renderer.win /\ renderer'.sfc = renderer.sfc
        /\ renderer'.stuck = renderer.stuck
        /\ UNCHANGED <<request, gui, proxy, list, mapped, shared, server>>
    <3>1. CASE Test
      <4> DEFINE id == IF pendingChanges \/ renderer.state = NULL
                       THEN renderer.lastRequestedBufferId
                       ELSE shared.rootWindowTextureID
                 waiting == renderer.waitingForBuffers
                              /\ renderer.lastRequestedBufferId = id
                 next == IF rendererShouldWait(waiting) THEN "sleep" ELSE "take"
      <4>1. renderer' = [renderer EXCEPT !.waitingForBuffers = waiting,
                                         !.lastRequestedBufferId = id,
                                         !.pc = next]
        BY <3>1, Zenon DEF Test
      <4>2. next \in {"sleep", "take"}
        BY Zenon
      <4> HIDE DEF id, waiting, next
      <4> QED
        BY <1>1, <3>1, <4>1, <4>2, Zenon DEF TypeOK, RendererThread, Test, At
    <3>2. CASE Sleep \/ Relock
      BY <1>1, <3>2 DEF TypeOK, RendererThread, RendererLabel, Sleep, Relock, At, Goto
    <3> QED BY <1>2, <3>1, <3>2
  <2>2. States' /\ Pending'
    BY <1>1, <2>1 DEF Rest, States, Pending, OtherCond
  <2>3. Drawing' /\ Windows' /\ Frames'
    BY <1>1, <2>1 DEF Rest, Drawing, Windows, Frames
  <2> QED BY <2>2, <2>3 DEF Rest
<1>3. CASE TakeState /\ request.stateChanged
  <2>1. /\ renderer.pc = "take" /\ renderer'.pc = "listen"
        /\ renderer'.state = request.pendingState
        /\ renderer'.oldState = IF request.pendingState = renderer.state THEN NULL
                                ELSE renderer.state
        /\ renderer'.win = renderer.win /\ renderer'.sfc = renderer.sfc
        /\ renderer'.stuck = renderer.stuck
        /\ request'.stateChanged = FALSE
        /\ request'.windowChanged = request.windowChanged
        /\ request'.pendingWin = request.pendingWin
        /\ shared'.surfaceAvailable = IF request.pendingState # NULL
                                      THEN renderer.win # Default
                                      ELSE shared.surfaceAvailable
        /\ shared'.drawRequested = shared.drawRequested
        /\ UNCHANGED <<gui, proxy, list, mapped, server>>
    <3> DEFINE old == IF request.pendingState = renderer.state THEN NULL
                      ELSE renderer.state
               available == IF request.pendingState # NULL
                            THEN renderer.win # Default
                            ELSE shared.surfaceAvailable
    <3>1. /\ renderer' = [renderer EXCEPT !.oldState = old,
                                          !.state = request.pendingState,
                                          !.waitingForBuffers = FALSE,
                                          !.pc = "listen"]
          /\ request' = [request EXCEPT !.pendingState = NULL,
                                        !.stateChanged = FALSE]
          /\ shared' = [shared EXCEPT !.surfaceAvailable = available]
      BY <1>3, Zenon DEF TakeState
    <3>2. /\ renderer.pc = "take"
          /\ UNCHANGED <<gui, proxy, list, mapped, server>>
      BY <1>3, Zenon DEF TakeState, At
    <3>3. /\ renderer'.pc = "listen" /\ renderer'.state = request.pendingState
          /\ renderer'.oldState = old
          /\ renderer'.win = renderer.win /\ renderer'.sfc = renderer.sfc
          /\ renderer'.stuck = renderer.stuck
      BY <1>1, <3>1, Zenon DEF TypeOK, RendererThread
    <3>4. /\ request'.stateChanged = FALSE
          /\ request'.windowChanged = request.windowChanged
          /\ request'.pendingWin = request.pendingWin
      BY <1>1, <3>1, Zenon DEF TypeOK, Request
    <3>5. /\ shared'.surfaceAvailable = available
          /\ shared'.drawRequested = shared.drawRequested
      BY <1>1, <3>1, Zenon DEF TypeOK, SharedState
    <3> QED BY <3>2, <3>3, <3>4, <3>5, Zenon
  <2>2. States'
    BY <1>1, <1>3, <2>1 DEF Rest, States, Pending
  <2>3. Pending' /\ Drawing'
    BY <2>1 DEF Pending, Drawing
  <2>4. Windows'
    BY <1>1, <2>1, Zenon DEF Rest, Windows
  <2>5. Frames'
    BY <1>1, <1>3, <2>1 DEF Rest, Pending, Frames
  <2> QED BY <2>2, <2>3, <2>4, <2>5 DEF Rest
<1>4. CASE TakeState /\ ~request.stateChanged
  <2>1. /\ renderer.pc = "take" /\ renderer'.pc = "apply"
        /\ renderer'.state = renderer.state /\ renderer'.oldState = renderer.oldState
        /\ renderer'.win = renderer.win /\ renderer'.sfc = renderer.sfc
        /\ renderer'.stuck = renderer.stuck
        /\ UNCHANGED <<request, gui, proxy, list, mapped, shared, server>>
    BY <1>1, <1>4 DEF TypeOK, RendererThread, RendererLabel, TakeState, At, Goto
  <2>2. States' /\ Pending'
    BY <1>1, <2>1 DEF Rest, States, Pending
  <2>3. Drawing' /\ Windows' /\ Frames'
    BY <1>1, <2>1 DEF Rest, Drawing, Windows, Frames
  <2> QED BY <2>2, <2>3 DEF Rest
<1>5. CASE Listen
  <2>1. /\ renderer.pc = "listen" /\ renderer'.pc = "listening"
        /\ renderer'.state = renderer.state /\ renderer'.oldState = renderer.oldState
        /\ renderer'.win = renderer.win /\ renderer'.sfc = renderer.sfc
        /\ renderer'.stuck = renderer.stuck
        /\ UNCHANGED <<request, gui, list, mapped, shared, server>>
    BY <1>1, <1>5 DEF TypeOK, RendererThread, RendererLabel, Listen, At, Goto
  <2>2. /\ proxy'.pending = OtherCond /\ proxy'.relocked = FALSE
        /\ proxy'.current = proxy.current
    <3>1. /\ Signalled(proxy) \in ProxyThread
          /\ Signalled(proxy).current = proxy.current
      BY <1>1, SignalTypes DEF TypeOK, ProxyThread, Signalled
    <3> QED BY <1>5, <3>1, Zenon DEF ProxyThread, Listen
  <2>3. OtherCond' = OtherCond
    BY <2>1 DEF OtherCond
  <2>4. States'
    BY <1>1, <2>1, <2>2, <2>3 DEF Rest, States
  <2>5. Pending' /\ Drawing'
    BY <1>1, <2>1 DEF Rest, Pending, Drawing
  <2>6. Windows' /\ Frames'
    BY <1>1, <2>1 DEF Rest, Windows, Frames
  <2> QED BY <2>4, <2>5, <2>6 DEF Rest
<1>6. CASE Listened /\ proxy.relocked
  <2>1. /\ renderer.pc = "listened" /\ renderer'.pc = "apply"
        /\ renderer'.state = renderer.state /\ renderer'.oldState = NULL
        /\ renderer'.win = renderer.win /\ renderer'.sfc = renderer.sfc
        /\ renderer'.stuck = renderer.stuck
        /\ mapped' = mapped \ {renderer.oldState}
        /\ UNCHANGED <<request, gui, proxy, list, shared, server>>
    <3>1. /\ renderer' = [renderer EXCEPT !.pc = "apply", !.oldState = NULL]
          /\ mapped' = mapped \ {renderer.oldState}
      BY <1>6, Zenon DEF Listened
    <3>2. /\ renderer.pc = "listened"
          /\ UNCHANGED <<request, gui, proxy, list, shared, server>>
      BY <1>6, Zenon DEF Listened, At
    <3> QED BY <1>1, <3>1, <3>2, Zenon DEF TypeOK, RendererThread
  <2>2. proxy.pending = NULL /\ proxy.current = OtherCond
    BY <1>1, <1>6, <2>1 DEF Rest, States
  <2>3. OtherCond \in mapped' \cup {Default} /\ renderer.state \in mapped' \cup {NULL}
    BY <1>1, <2>1 DEF TypeOK, RendererThread, RendererLabel, Rest, States, OtherCond
  <2>4. States'
    BY <2>1, <2>2, <2>3 DEF States
  <2>5. Pending' /\ Drawing'
    BY <1>1, <2>1 DEF Rest, Pending, Drawing
  <2>6. Windows' /\ Frames'
    BY <1>1, <2>1 DEF Rest, Windows, Frames
  <2> QED BY <2>4, <2>5, <2>6 DEF Rest
<1>7. CASE Listened /\ ~proxy.relocked
  <2>1. /\ renderer.pc = "listened" /\ renderer'.pc = "listening"
        /\ renderer'.state = renderer.state /\ renderer'.oldState = renderer.oldState
        /\ renderer'.win = renderer.win /\ renderer'.sfc = renderer.sfc
        /\ renderer'.stuck = renderer.stuck
        /\ UNCHANGED <<request, gui, proxy, list, mapped, shared, server>>
    BY <1>1, <1>7 DEF TypeOK, RendererThread, RendererLabel, Listened, At, Goto
  <2>2. States' /\ Pending'
    BY <1>1, <2>1 DEF Rest, States, Pending, OtherCond
  <2>3. Drawing' /\ Windows' /\ Frames'
    BY <1>1, <2>1 DEF Rest, Drawing, Windows, Frames
  <2> QED BY <2>2, <2>3 DEF Rest
<1> QED BY <1>2, <1>3, <1>4, <1>5, <1>6, <1>7

\* The renderer thread, from the window on
LEMMA DrawKeeps ==
    ASSUME IInv, TypeOK',
           Apply \/ CheckRedraw \/ DrawBegin \/ DrawEnd \/ ReleaseRemoved
    PROVE  Rest'
<1> USE NullAssumption
<1>1. TypeOK /\ Rest
  BY DEF IInv, Rest
<1>2. CASE Apply
  <2>1. PICK c \in Contexts :
          /\ renderer' = [renderer EXCEPT
                            !.win = c.win, !.sfc = c.sfc, !.stuck = c.stuck,
                            !.waitingForBuffers = @ /\ InList("added") = {},
                            !.pc = "check"]
          /\ shared' = c.shared
    BY <1>2, Zenon DEF Apply, Contexts
  <2>2. /\ renderer.pc = "apply" /\ renderer'.pc = "check"
        /\ renderer'.state = renderer.state /\ renderer'.oldState = renderer.oldState
        /\ renderer'.win = c.win /\ renderer'.sfc = c.sfc /\ renderer'.stuck = c.stuck
        /\ UNCHANGED <<proxy, mapped, server>>
    BY <1>1, <1>2, <2>1, Zenon DEF TypeOK, RendererThread, Apply, At
  <2>3. /\ request'.stateChanged = request.stateChanged
        /\ request'.pendingState = request.pendingState
        /\ request'.windowChanged = FALSE /\ gui'.wanted = gui.wanted
    BY <1>1, <1>2, Zenon DEF TypeOK, Request, GuiThread, Apply
  <2>4. /\ c.sfc \in {c.win, NULL} \/ (c.win = Default /\ c.sfc \in c.stuck)
        /\ request.windowChanged
               => c.sfc \in {request.pendingWin, Default, NULL} \cup c.stuck
        /\ ~request.windowChanged => c.sfc = renderer.sfc /\ c.stuck = renderer.stuck
        /\ renderer.state = NULL => c.shared = shared
        /\ renderer.state # NULL /\ c.shared.surfaceAvailable /\ c.sfc # NULL
               => c.win # Default
        /\ c.shared.surfaceAvailable /\ ~c.shared.drawRequested
               => shared.surfaceAvailable /\ ~shared.drawRequested
    BY <1>1, RefreshedContext DEF Rest
  <2>5. States' /\ Pending' /\ Drawing'
    BY <1>1, <2>2, <2>3 DEF Rest, States, Pending, Drawing
  <2>6. Windows'
    BY <1>1, <2>1, <2>2, <2>3, <2>4 DEF Rest, Windows
  <2>7. Frames'
    BY <1>1, <2>1, <2>2, <2>4 DEF Rest, Frames
  <2> QED BY <2>5, <2>6, <2>7 DEF Rest
<1>3. CASE CheckRedraw
  <2>1. /\ renderer.pc = "check"
        /\ UNCHANGED <<request, gui, proxy, list, mapped, shared, server>>
    BY <1>3, Zenon DEF CheckRedraw, At
  <2>2. /\ renderer'.pc \in {"draw", "release"}
        /\ renderer'.state = renderer.state /\ renderer'.oldState = renderer.oldState
        /\ renderer'.win = renderer.win /\ renderer'.sfc = renderer.sfc
        /\ renderer'.stuck = renderer.stuck
        /\ renderer'.pc = "draw" =>
               /\ renderer.state # NULL /\ renderer'.buffer \in Buffer
               /\ list[renderer'.buffer] \in {"buffers", "removed"}
    <3>1. CASE Goto("release")
      BY <1>1, <3>1 DEF TypeOK, RendererThread, RendererLabel, Goto
    <3>2. CASE ~Goto("release")
      <4> DEFINE found == IF Matching("buffers") # {} THEN Matching("buffers")
                          ELSE Matching("removed")
                 waiting(b) == renderer.waitingForBuffers \/ b = NULL
                 next(b) == IF b = NULL THEN "release" ELSE "draw"
      <4>1. /\ renderer.state # NULL
            /\ \E b \in IF found = {} THEN {NULL} ELSE found :
                  renderer' = [renderer EXCEPT
                                 !.buffer = b,
                                 !.waitingForBuffers = waiting(b),
                                 !.pc = next(b)]
        BY <1>3, <3>2, Zenon DEF CheckRedraw
      <4>2. \A b \in IF found = {} THEN {NULL} ELSE found :
               b # NULL => b \in Buffer /\ list[b] \in {"buffers", "removed"}
        BY Zenon DEF Matching, InList
      <4> HIDE DEF found, waiting
      <4>3. PICK b : /\ b # NULL => b \in Buffer /\ list[b] \in {"buffers", "removed"}
                     /\ renderer' = [renderer EXCEPT
                                       !.buffer = b,
                                       !.waitingForBuffers = waiting(b),
                                       !.pc = next(b)]
        BY <4>1, <4>2, Zenon
      <4>4. /\ next(b) \in {"draw", "release"}
            /\ next(b) = "draw" => b # NULL
        OBVIOUS
      <4> HIDE DEF next
      <4>5. /\ renderer'.pc = next(b) /\ renderer'.buffer = b
            /\ renderer'.state = renderer.state
            /\ renderer'.oldState = renderer.oldState
            /\ renderer'.win = renderer.win /\ renderer'.sfc = renderer.sfc
            /\ renderer'.stuck = renderer.stuck
        BY <1>1, <4>3, Zenon DEF TypeOK, RendererThread
      <4> QED BY <4>1, <4>3, <4>4, <4>5, Zenon
    <3> QED BY <3>1, <3>2
  <2>3. States' /\ Pending'
    BY <1>1, <2>1, <2>2 DEF Rest, States, Pending
  <2>4. Drawing'
    BY <2>1, <2>2 DEF Drawing
  <2>5. Windows' /\ Frames'
    BY <1>1, <2>1, <2>2 DEF Rest, Windows, Frames
  <2> QED BY <2>3, <2>4, <2>5 DEF Rest
<1>4. CASE DrawBegin
  <2>1. /\ renderer.pc = "draw" /\ renderer'.pc = "end"
        /\ renderer'.state = renderer.state /\ renderer'.oldState = renderer.oldState
        /\ renderer'.win = renderer.win /\ renderer'.sfc = renderer.sfc
        /\ renderer'.stuck = renderer.stuck
        /\ renderer'.buffer = renderer.buffer
        /\ UNCHANGED <<request, gui, proxy, list, mapped>>
    BY <1>1, <1>4 DEF TypeOK, RendererThread, RendererLabel, DrawBegin, At, Goto
  <2>2. /\ shared'.surfaceAvailable = shared.surfaceAvailable
        /\ server'.connected = server.connected
    BY <1>1, <1>4, Zenon DEF TypeOK, SharedState, ServerThread, DrawBegin
  <2>3. server'.owed => server'.drawn # server'.root
    BY <1>1, <1>4, Zenon DEF TypeOK, ServerThread, DrawBegin
  <2>4. States' /\ Pending'
    BY <1>1, <2>1, <2>2 DEF Rest, States, Pending
  <2>5. Drawing' /\ Windows'
    BY <1>1, <2>1, <2>2 DEF Rest, Drawing, Windows
  <2>6. Frames'
    BY <1>1, <2>1, <2>3 DEF Rest, Drawing, Frames
  <2> QED BY <2>4, <2>5, <2>6 DEF Rest
<1>5. CASE DrawEnd \/ ReleaseRemoved
  <2>1. /\ renderer.pc \in {"end", "release"} /\ renderer'.pc \in {"release", "relock"}
        /\ renderer'.state = renderer.state /\ renderer'.oldState = renderer.oldState
        /\ renderer'.win = renderer.win /\ renderer'.sfc = renderer.sfc
        /\ renderer'.stuck = renderer.stuck
        /\ shared'.surfaceAvailable = shared.surfaceAvailable
        /\ shared'.drawRequested = shared.drawRequested
        /\ UNCHANGED <<request, gui, proxy, mapped, server>>
    <3>1. CASE DrawEnd
      BY <1>1, <3>1, Zenon DEF TypeOK, RendererThread, SharedState, DrawEnd, At
    <3>2. CASE ReleaseRemoved
      BY <1>1, <3>2 DEF TypeOK, RendererThread, RendererLabel, ReleaseRemoved, At, Goto
    <3> QED BY <1>5, <3>1, <3>2
  <2>2. States' /\ Pending' /\ Drawing'
    BY <1>1, <2>1 DEF Rest, States, Pending, Drawing
  <2>3. Windows' /\ Frames'
    BY <1>1, <2>1 DEF Rest, Windows, Frames
  <2> QED BY <2>2, <2>3 DEF Rest
<1> QED BY <1>2, <1>3, <1>4, <1>5

\* What a signal to the renderer thread changes
SignalledRenderer ==
    /\ renderer'.state = renderer.state /\ renderer'.oldState = renderer.oldState
    /\ renderer'.win = renderer.win /\ renderer'.sfc = renderer.sfc
    /\ renderer'.stuck = renderer.stuck
    /\ renderer'.buffer = renderer.buffer
    /\ \/ renderer'.pc = renderer.pc
       \/ renderer.pc = "asleep" /\ renderer'.pc = "woken"
       \/ renderer.pc = "listening" /\ renderer'.pc = "listened"

\* It may wake the renderer thread, and does nothing else
LEMMA SignalChanges ==
    ASSUME TypeOK, signalStateCond
    PROVE  SignalledRenderer
BY DEF TypeOK, RendererThread, RendererLabel, signalStateCond, Signalled, SignalledRenderer

\* The proxy thread: where it goes is where the renderer thread has told it to
LEMMA ProxyKeeps ==
    ASSUME IInv, TypeOK', ProxyStep \/ SpuriousWakeup
    PROVE  Rest'
<1>1. TypeOK /\ Rest
  BY DEF IInv, Rest
<1>2. CASE ProxyStart
  <2>1. /\ proxy'.current = proxy.current /\ proxy'.pending = proxy.pending
        /\ proxy'.relocked = proxy.relocked
        /\ UNCHANGED <<renderer, request, gui, list, mapped, shared, server>>
    BY <1>1, <1>2 DEF TypeOK, ProxyThread, ProxyStart
  <2>2. States'
    BY <1>1, <2>1 DEF Rest, States, OtherCond
  <2>3. Pending' /\ Drawing' /\ Windows' /\ Frames'
    BY <1>1, <2>1 DEF Rest, Pending, Drawing, Windows, Frames
  <2> QED BY <2>2, <2>3 DEF Rest
<1>3. CASE ProxyWoken
  <2>1. /\ proxy'.current = IF proxy.pending # NULL THEN proxy.pending
                            ELSE proxy.current
        /\ proxy'.pending = NULL /\ proxy'.relocked = TRUE
        /\ UNCHANGED <<request, gui, list, mapped, shared, server>>
    BY <1>3 DEF ProxyWoken
  <2>2. SignalledRenderer
    BY <1>1, <1>3, SignalChanges DEF ProxyWoken
  <2>3. OtherCond' = OtherCond
    BY <2>2 DEF SignalledRenderer, OtherCond
  <2>4. OtherCond \in mapped \cup {Default} /\ OtherCond # NULL
    BY <1>1, NullAssumption DEF Rest, States, OtherCond
  <2>5. States'
    BY <1>1, <2>1, <2>2, <2>3, <2>4 DEF Rest, States, SignalledRenderer
  <2>6. Pending' /\ Drawing' /\ Windows' /\ Frames'
    BY <1>1, <2>1, <2>2 DEF Rest, Pending, Drawing, Windows, Frames,
                            SignalledRenderer
  <2> QED BY <2>5, <2>6 DEF Rest
<1>4. CASE SpuriousWakeup
  <2>1. /\ SignalledRenderer \/ renderer' = renderer
        /\ UNCHANGED <<request, proxy, list, mapped, shared, server>>
    BY <1>1, <1>4, SignalChanges DEF SpuriousWakeup
  <2>2. /\ gui'.call = gui.call /\ gui'.wanted = gui.wanted
        /\ gui'.pc = gui.pc \/ gui'.pc = "woken"
    BY <1>1, <1>4 DEF TypeOK, GuiThread, SpuriousWakeup
  <2>3. OtherCond' = OtherCond
    BY <2>1 DEF SignalledRenderer, OtherCond
  <2>4. States'
    BY <1>1, <2>1, <2>3 DEF Rest, States, SignalledRenderer
  <2>5. Pending' /\ Drawing' /\ Frames'
    BY <1>1, <2>1 DEF Rest, Pending, Drawing, Frames, SignalledRenderer
  <2>6. Windows'
    BY <1>1, <2>1, <2>2 DEF Rest, Windows, SignalledRenderer
  <2> QED BY <2>4, <2>5, <2>6 DEF Rest
<1> QED BY <1>2, <1>3, <1>4 DEF ProxyStep

\* The GUI thread in the loop of a call: it returns when the window is taken
LEMMA GuiKeeps ==
    ASSUME IInv, TypeOK', GuiStep
    PROVE  Rest'
<1>1. TypeOK /\ Rest
  BY DEF IInv, Rest
<1>2. CASE GuiCheck \/ GuiWait \/ GuiRelock
  <2>1. UNCHANGED <<renderer, request, proxy, list, mapped, shared, server>>
    BY <1>2 DEF GuiCheck, GuiWait, GuiRelock
  <2>2. States' /\ Pending'
    BY <1>1, <2>1 DEF Rest, States, Pending, OtherCond
  <2>3. Drawing' /\ Frames'
    BY <1>1, <2>1 DEF Rest, Drawing, Frames
  <2>4. gui'.wanted = gui.wanted
    <3>1. CASE GuiCheck
      BY <1>1, <3>1, Zenon DEF TypeOK, GuiThread, GuiCheck
    <3>2. CASE GuiWait \/ GuiRelock
      BY <1>1, <3>2 DEF TypeOK, GuiThread, GuiWait, GuiRelock
    <3> QED BY <1>2, <3>1, <3>2
  <2>5. request.windowChanged =>
          /\ gui'.pc \in {"check", "wait", "waiting", "woken"}
          /\ gui'.call = gui.call
    <3>1. CASE GuiCheck /\ request.windowChanged
      <4>1. gui.call.op = "window"
        BY <1>1, <3>1 DEF Rest, Windows, SetWindow
      <4>2. StillPending
        BY <3>1, <4>1 DEF StillPending
      <4> QED BY <1>1, <3>1, <4>2 DEF TypeOK, GuiThread, GuiCheck
    <3>2. CASE GuiWait \/ GuiRelock
      BY <1>1, <3>2 DEF TypeOK, GuiThread, GuiWait, GuiRelock
    <3> QED BY <1>2, <3>1, <3>2
  <2>6. Windows'
    BY <1>1, <2>1, <2>4, <2>5 DEF Rest, Windows
  <2> QED BY <2>2, <2>3, <2>6 DEF Rest
<1>3. CASE rendererRemoveAllBuffers
  <2>1. /\ gui.pc = "removeAll" /\ gui'.wanted = gui.wanted
        /\ UNCHANGED <<renderer, request, proxy, mapped, shared, server>>
        /\ list' = [b \in Buffer |-> IF list[b] = NULL THEN NULL ELSE Removed(list[b])]
    BY <1>1, <1>3 DEF TypeOK, GuiThread, rendererRemoveAllBuffers
  <2>2. States' /\ Pending' /\ Frames'
    BY <1>1, <2>1 DEF Rest, States, Pending, Frames, OtherCond
  <2>3. Drawing'
    BY <1>1, <2>1, NullAssumption DEF Rest, Drawing, Removed
  <2>4. Windows'
    BY <1>1, <2>1 DEF Rest, Windows
  <2> QED BY <2>2, <2>3, <2>4 DEF Rest
<1> QED BY <1>2, <1>3 DEF GuiStep

\* The calls of the GUI thread
LEMMA CallKeeps ==
    ASSUME IInv, TypeOK', GuiCall
    PROVE  Rest'
<1> USE NullAssumption
<1>1. TypeOK /\ Rest
  BY DEF IInv, Rest
<1>2. ASSUME NEW w \in Window \cup {NULL}, rendererSetWindow(w)
      PROVE  Rest'
  <2>1. /\ SignalledRenderer
        /\ UNCHANGED <<proxy, list, mapped, shared, server>>
    BY <1>1, <1>2, SignalChanges DEF rendererSetWindow
  <2>2. /\ request'.pendingWin = w /\ request'.windowChanged = TRUE
        /\ request'.stateChanged = request.stateChanged
        /\ request'.pendingState = request.pendingState
    BY <1>1, <1>2, Zenon DEF TypeOK, Request, rendererSetWindow
  <2>3. gui'.pc = "check" /\ gui'.call = SetWindow(w) /\ gui'.wanted = w
    BY <1>2 DEF rendererSetWindow, Entered
  <2>4. OtherCond' = OtherCond
    BY <2>1 DEF SignalledRenderer, OtherCond
  <2>5. States'
    BY <1>1, <2>1, <2>4 DEF Rest, States, SignalledRenderer
  <2>6. Pending' /\ Drawing' /\ Frames'
    BY <1>1, <2>1, <2>2 DEF Rest, Pending, Drawing, Frames, SignalledRenderer
  <2>7. Windows'
    BY <1>1, <2>1, <2>2, <2>3 DEF Rest, Windows, SignalledRenderer
  <2> QED BY <2>5, <2>6, <2>7 DEF Rest
<1>3. ASSUME NEW m \in Mapping \cup {NULL}, rendererSetSharedState(m)
      PROVE  Rest'
  <2>1. /\ SignalledRenderer
        /\ IF m = NULL THEN renderer.state # NULL
           ELSE server.connected /\ renderer.state = NULL /\ m \notin mapped
        /\ gui.pc = "idle"
        /\ mapped' = mapped \cup ({m} \ {NULL})
        /\ UNCHANGED <<proxy, list, shared>>
    BY <1>1, <1>3, SignalChanges DEF rendererSetSharedState, MayCall
  <2>2. /\ request'.pendingState = m /\ request'.stateChanged = TRUE
        /\ request'.windowChanged = request.windowChanged
        /\ request'.pendingWin = request.pendingWin
    BY <1>1, <1>3, Zenon DEF TypeOK, Request, rendererSetSharedState
  <2>3. /\ server'.connected = (m # NULL) /\ server'.owed = server.owed
        /\ server'.drawn = server.drawn /\ server'.root = server.root
        /\ server'.damage = server.damage
    BY <1>1, <1>3, Zenon DEF TypeOK, ServerThread, rendererSetSharedState
  <2>4. gui'.wanted = gui.wanted
    BY <1>3 DEF rendererSetSharedState, Entered
  <2>5. OtherCond' = OtherCond
    BY <2>1 DEF SignalledRenderer, OtherCond
  <2>6. States'
    BY <1>1, <2>1, <2>5 DEF Rest, States, SignalledRenderer
  <2>7. Pending'
    BY <1>1, <2>1, <2>2, <2>3, Zenon DEF Rest, States, Pending, SignalledRenderer
  <2>8. Drawing' /\ Frames'
    BY <1>1, <2>1, <2>3 DEF Rest, Drawing, Frames, SignalledRenderer
  <2>9. Windows'
    BY <1>1, <2>1, <2>2, <2>4 DEF Rest, Windows, SignalledRenderer
  <2> QED BY <2>6, <2>7, <2>8, <2>9 DEF Rest
<1>4. CASE \/ \E b \in Buffer : rendererAddBuffer(b)
           \/ \E id \in Id : rendererRemoveBuffer(id)
  <2>1. /\ SignalledRenderer \/ renderer' = renderer
        /\ gui.pc = "idle"
        /\ UNCHANGED <<request, proxy, mapped, shared, server>>
    BY <1>1, <1>4, SignalChanges DEF rendererAddBuffer, rendererRemoveBuffer,
                                     MayHandleEvent, MayCall
  <2>2. gui'.wanted = gui.wanted
    BY <1>1, <1>4 DEF TypeOK, GuiThread, rendererAddBuffer, rendererRemoveBuffer,
                      CountCall
  <2>3. ASSUME NEW drawn \in Buffer, list[drawn] \in {"buffers", "removed"}
        PROVE  list'[drawn] \in {"buffers", "removed"}
    <3>1. CASE \E b \in Buffer : rendererAddBuffer(b)
      BY <1>1, <2>3, <3>1 DEF TypeOK, rendererAddBuffer
    <3>2. CASE \E id \in Id : rendererRemoveBuffer(id)
      BY <1>1, <2>3, <3>2 DEF TypeOK, rendererRemoveBuffer, Removed, InList
    <3> QED BY <1>4, <3>1, <3>2
  <2>4. OtherCond' = OtherCond
    BY <2>1 DEF SignalledRenderer, OtherCond
  <2>5. States'
    BY <1>1, <2>1, <2>4 DEF Rest, States, SignalledRenderer
  <2>6. Pending' /\ Frames'
    BY <1>1, <2>1 DEF Rest, Pending, Frames, SignalledRenderer
  <2>7. Drawing'
    BY <1>1, <2>1, <2>3 DEF Rest, Drawing, SignalledRenderer
  <2>8. Windows'
    BY <1>1, <2>1, <2>2 DEF Rest, Windows, SignalledRenderer
  <2> QED BY <2>5, <2>6, <2>7, <2>8 DEF Rest
<1> QED BY <1>2, <1>3, <1>4, Zenon DEF GuiCall

\* The X server: it changes the flags, and what the flags are about
LEMMA ServerKeeps ==
    ASSUME IInv, TypeOK', ServerStep
    PROVE  Rest'
<1>1. TypeOK /\ Rest
  BY DEF IInv, Rest
<1>2. /\ UNCHANGED <<renderer, request, gui, list, mapped>>
      /\ proxy'.current = proxy.current /\ proxy'.pending = proxy.pending
      /\ proxy'.relocked = proxy.relocked
  <2>1. signalSharedCond => /\ proxy'.current = proxy.current
                            /\ proxy'.pending = proxy.pending
                            /\ proxy'.relocked = proxy.relocked
    BY <1>1 DEF TypeOK, ProxyThread, signalSharedCond, Signalled
  <2> QED BY <2>1, Zenon DEF ServerStep, lorieActivityConnected, lorieMoveCursor,
                             lorieSetCursor, Draw, Redraw, RedrawDamage,
                             RedrawSignal
<1>3. States' /\ Drawing'
  BY <1>1, <1>2 DEF Rest, States, Drawing, OtherCond
<1>4. CASE lorieActivityConnected
  <2>1. /\ renderer.state = NULL /\ ~server.connected
        /\ server'.connected = TRUE /\ shared'.drawRequested = TRUE
        /\ shared'.surfaceAvailable = shared.surfaceAvailable
    BY <1>1, <1>4, Zenon DEF TypeOK, SharedState, ServerThread,
                             lorieActivityConnected
  <2> QED BY <1>1, <1>2, <1>3, <2>1 DEF Rest, Pending, Windows, Frames
<1>5. CASE lorieMoveCursor \/ lorieSetCursor \/ RedrawSignal
  <2>1. /\ shared'.surfaceAvailable = shared.surfaceAvailable
        /\ shared'.drawRequested = shared.drawRequested
    <3>1. CASE lorieMoveCursor
      BY <1>1, <3>1, Zenon DEF TypeOK, SharedState, lorieMoveCursor
    <3>2. CASE lorieSetCursor
      BY <1>1, <3>2, Zenon DEF TypeOK, SharedState, lorieSetCursor
    <3>3. CASE RedrawSignal
      BY <1>1, <3>3 DEF TypeOK, SharedState, RedrawSignal
    <3> QED BY <1>5, <3>1, <3>2, <3>3
  <2>2. /\ server'.connected = server.connected /\ server'.owed = server.owed
        /\ server'.drawn = server.drawn /\ server'.root = server.root
        /\ server'.damage = server.damage
    BY <1>1, <1>5 DEF TypeOK, ServerThread, lorieMoveCursor, lorieSetCursor,
                      RedrawSignal, CountChange
  <2> QED BY <1>1, <1>2, <1>3, <2>1, <2>2 DEF Rest, Pending, Windows, Frames
<1>6. CASE \E id \in Id : Draw(id)
  <2>1. /\ shared' = shared /\ server'.damage = TRUE
        /\ server'.connected = server.connected
    BY <1>1, <1>6, Zenon DEF TypeOK, ServerThread, Draw
  <2> QED BY <1>1, <1>2, <1>3, <2>1 DEF Rest, Pending, Windows, Frames
<1>7. CASE Redraw
  <2>1. /\ shared'.surfaceAvailable = shared.surfaceAvailable
        /\ shared'.drawRequested = shared.drawRequested
    BY <1>1, <1>7 DEF TypeOK, SharedState, Redraw
  <2>2. /\ server'.connected = server.connected /\ server'.owed = server.owed
        /\ server'.drawn = server.drawn /\ server'.root = server.root
        /\ server'.damage = server.damage
    BY <1>1, <1>7 DEF TypeOK, ServerThread, Redraw
  <2> QED BY <1>1, <1>2, <1>3, <2>1, <2>2 DEF Rest, Pending, Windows, Frames
<1>8. CASE RedrawDamage
  <2>1. /\ shared'.surfaceAvailable = shared.surfaceAvailable
        /\ shared.drawRequested \/ server.damage => shared'.drawRequested
    BY <1>1, <1>8 DEF TypeOK, SharedState, RedrawDamage
  <2>2. /\ server'.connected = server.connected /\ server'.owed = server.owed
        /\ server'.drawn = server.drawn /\ server'.root = server.root
    BY <1>1, <1>8, Zenon DEF TypeOK, ServerThread, RedrawDamage
  <2> QED BY <1>1, <1>2, <1>3, <2>1, <2>2 DEF Rest, Pending, Windows, Frames
<1> QED BY <1>4, <1>5, <1>6, <1>7, <1>8 DEF ServerStep

-----------------------------------------------------------------------------
(***************************************************************************)
(* The theorems.                                                           *)
(***************************************************************************)

\* It holds at boot, and when a root window is shown
LEMMA InitInv == Init => IInv
<1> SUFFICES ASSUME Init PROVE IInv
  OBVIOUS
<1> USE InputAssumption, NullAssumption
<1> DEFINE first(S) == CHOOSE x \in S : TRUE
           m == first(Mapping)
           w == first(Window)
           id == BufferId[first(Buffer)]
<1>1. m \in Mapping /\ w \in Window /\ first(Buffer) \in Buffer
  BY Zenon
<1>2. id \in Id
  BY <1>1, Zenon DEF Id
<1>3. PICK boot \in BOOLEAN :
        /\ renderer = [pc |-> IF boot THEN "test" ELSE "asleep",
                       state |-> IF boot THEN NULL ELSE m, oldState |-> NULL,
                       win |-> IF boot THEN Default ELSE w,
                       sfc |-> IF boot THEN Default ELSE w, stuck |-> {},
                       buffer |-> NULL, waitingForBuffers |-> FALSE,
                       lastRequestedBufferId |-> IF boot THEN 0 ELSE id]
        /\ request = [stateChanged |-> FALSE, windowChanged |-> FALSE,
                      pendingState |-> NULL, pendingWin |-> NULL]
        /\ gui = [pc |-> "idle", call |-> NULL, calls |-> 0,
                  wanted |-> IF boot THEN NULL ELSE w, early |-> FALSE]
        /\ proxy = [pc |-> IF boot THEN "start" ELSE "asleep",
                    current |-> IF boot THEN Default ELSE m, pending |-> NULL,
                    relocked |-> ~boot]
        /\ stateLock = NULL
        /\ list = [b \in Buffer |-> IF ~boot /\ b = first(Buffer)
                                    THEN "buffers" ELSE NULL]
        /\ mapped = IF boot THEN {} ELSE {m}
        /\ shared = [surfaceAvailable |-> ~boot, waitForNextFrame |-> FALSE,
                     drawRequested |-> FALSE, moved |-> FALSE, updated |-> FALSE,
                     rootWindowTextureID |-> IF boot THEN 0 ELSE id]
        /\ server = [pc |-> "idle", connected |-> ~boot, root |-> id,
                     damage |-> FALSE, changes |-> 0, owed |-> FALSE,
                     drawn |-> IF boot THEN 0 ELSE id]
  BY ZenonT(40) DEF Init
<1> HIDE DEF first, m, w, id
<1>4. TypeOK
  <2>1. renderer \in RendererThread
    BY <1>1, <1>2, <1>3, SMTT(40) DEF RendererThread, RendererLabel
  <2>2. request \in Request
    BY <1>3, SMTT(40) DEF Request
  <2>3. gui \in GuiThread
    BY <1>1, <1>3, SMTT(40) DEF GuiThread
  <2>4. proxy \in ProxyThread
    BY <1>1, <1>3, SMTT(40) DEF ProxyThread
  <2>5. shared \in SharedState
    BY <1>2, <1>3, SMTT(40) DEF SharedState
  <2>6. server \in ServerThread
    BY <1>2, <1>3, SMTT(40) DEF ServerThread
  <2>7. /\ list \in [Buffer -> {NULL, "added", "buffers", "removed"}]
        /\ mapped \in SUBSET Mapping
    BY <1>1, <1>3, SMTT(40)
  <2> QED
    BY <1>3, <2>1, <2>2, <2>3, <2>4, <2>5, <2>6, <2>7, SMTT(40) DEF TypeOK
<1>5. /\ renderer.pc \in {"test", "asleep"} /\ renderer.oldState = NULL
      /\ renderer.state = (IF boot THEN NULL ELSE m)
      /\ renderer.win = (IF boot THEN Default ELSE w)
      /\ renderer.sfc = renderer.win /\ gui.wanted = (IF boot THEN NULL ELSE w)
      /\ request.stateChanged = FALSE /\ request.windowChanged = FALSE
  BY <1>3, SMTT(40)
<1>6. /\ proxy.current = (IF boot THEN Default ELSE m) /\ proxy.pending = NULL
      /\ mapped = (IF boot THEN {} ELSE {m})
      /\ server.owed = FALSE
  BY <1>3, SMTT(40)
<1>7. boot => server.connected = FALSE /\ shared.surfaceAvailable = FALSE
  BY <1>3, Zenon
<1> QED
  <2>1. States /\ Pending /\ Drawing
    BY <1>1, <1>5, <1>6 DEF States, Pending, Drawing
  <2>2. Windows /\ Frames
    BY <1>1, <1>5, <1>6, <1>7 DEF Windows, Frames
  <2> QED BY <1>4, <2>1, <2>2 DEF IInv

\* Every step keeps it
LEMMA StepInv == IInv /\ [Next]_vars => IInv'
<1> SUFFICES ASSUME IInv, [Next]_vars PROVE IInv'
  OBVIOUS
<1>1. TypeOK'
  BY TypesKept
<1>2. CASE RendererStep
  BY <1>1, <1>2, TakeKeeps, DrawKeeps DEF RendererStep, IInv, Rest
<1>3. CASE ProxyStep \/ SpuriousWakeup
  BY <1>1, <1>3, ProxyKeeps DEF IInv, Rest
<1>4. CASE GuiStep
  BY <1>1, <1>4, GuiKeeps DEF IInv, Rest
<1>5. CASE GuiCall
  BY <1>1, <1>5, CallKeeps DEF IInv, Rest
<1>6. CASE ServerStep
  BY <1>1, <1>6, ServerKeeps DEF IInv, Rest
<1>7. CASE UNCHANGED vars
  BY <1>1, <1>7 DEF IInv, States, Pending, Drawing, Windows, Frames, OtherCond, vars
<1> QED BY <1>2, <1>3, <1>4, <1>5, <1>6, <1>7 DEF Next

\* The threads keep the types and the invariant
THEOREM Invariance == Spec => []IInv
BY InitInv, StepInv, PTL DEF Spec

\* The renderer thread never draws a buffer that has been released
THEOREM BufferSafety == Spec => []BufferNotReleased
<1>1. IInv => BufferNotReleased
  BY DEF IInv, Drawing, BufferNotReleased
<1> QED BY <1>1, Invariance, PTL

\* No thread is left with a shared state that has been unmapped
THEOREM UnmapSafety == Spec => []NothingUnmappedUsed
<1>1. IInv => NothingUnmappedUsed
  BY DEF IInv, States, NothingUnmappedUsed
<1> QED BY <1>1, Invariance, PTL

\* A call of rendererSetWindow() leaves no earlier surface that EGL lets go
THEOREM SurfaceSafety == Spec => []EarlierSurfaceGone
<1>1. IInv => EarlierSurfaceGone
  BY NullAssumption DEF IInv, Windows, EarlierSurfaceGone, Call
<1> QED BY <1>1, Invariance, PTL

\* The server draws frames only for a window
THEOREM WindowSafety == Spec => []FramesNeedWindow
<1>1. IInv => FramesNeedWindow
  BY DEF IInv, TypeOK, RendererThread, RendererLabel, Windows, FramesNeedWindow
<1> QED BY <1>1, Invariance, PTL

\* The flags without a lock lose no drawing on the same root window
THEOREM FrameSafety == Spec => []FrameStaysRequested
<1>1. IInv => FrameStaysRequested
  BY DEF IInv, Frames, FrameStaysRequested, Shown
<1> QED BY <1>1, Invariance, PTL

=============================================================================
