-------------------------- MODULE ConnectionProofs --------------------------
(***************************************************************************)
(* Proofs about module Connection, for any buffers and any number of       *)
(* connections: the inductive invariant and what follows from it.          *)
(***************************************************************************)
EXTENDS Connection, SequenceTheorems, TLAPS

\* The step that tells the activity that buffer b comes or goes.
Tell(type, b) == Do("send", [type |-> type, id |-> b])
SendState == Do("send", Plain("state"))

(***************************************************************************)
(* What the main thread may have before it: the rest of addFd(), of a      *)
(* flip, of the destruction of a pixmap, of a new screen, or a notice.     *)
(***************************************************************************)
Accepting(s) ==
    \/ work = <<Do("watch", s), Do("fd", s), SendState, Do("register", screen)>>
    \/ work = <<Do("fd", s), SendState, Do("register", screen)>>
Registering(b) ==
    \/ work = <<Do("register", b)>>
    \/ work = <<Tell("add", b), Do("list", b)>>
    \/ work = <<Do("list", b)>>
Unregistering(b) ==
    \/ work = <<Do("unregister", b)>>
    \/ work = <<Tell("remove", b), Do("unlist", b)>>
    \/ work = <<Do("unlist", b)>>
Replacing(b) ==
    \/ work = <<Do("unregister", b), Do("register", screen)>>
    \/ work = <<Tell("remove", b), Do("unlist", b), Do("register", screen)>>
    \/ work = <<Do("unlist", b), Do("register", screen)>>
Noticing(type) == work = <<Do("send", Plain(type))>>

WorkOK ==
    \/ work = <<>>
    \/ \E s \in Socket : Accepting(s)
    \/ work = <<SendState, Do("register", screen)>>
    \/ \E b \in Buffer : Registering(b)
    \/ \E b \in Buffer \ {screen} : Unregistering(b) \/ Replacing(b)
    \/ \E type \in {"clipboard", "focus"} : Noticing(type)

\* What is said of buffers is said of real ones.
StreamOK ==
    \A s \in Socket : \A i \in 1..Len(stream[s]) :
        stream[s][i].type \in {"add", "remove"} => stream[s][i].id \in Buffer

\* The main thread has taken up socket s and not yet set conn_fd.
Taken(s) == (First("watch") \/ First("fd")) /\ arg = s

\* Sockets are taken up in the order they were made: conn_fd is older than the
\* one taken up, and that one older than those in the queue.
QueueOK ==
    /\ conn_fd <= used
    /\ \A i \in 1..Len(queue) :
        /\ conn_fd < queue[i] /\ queue[i] <= used
        /\ \A j \in 1..Len(queue) : i < j => queue[i] < queue[j]
    /\ \A s \in Socket : Taken(s) =>
        /\ conn_fd < s /\ s <= used
        /\ \A i \in 1..Len(queue) : s < queue[i]

\* The socket has still to be given to conn_fd.
Waiting(s) == Taken(s) \/ \E i \in 1..Len(queue) : queue[i] = s

\* The activity has one socket.  As long as the server has not taken it up,
\* nothing has come through it; until a hang-up the server keeps its end.
ActivityOK ==
    /\ activity_fd <= used
    /\ activityEnd = {activity_fd} \ {0}
    /\ \A s \in Socket : s # activity_fd => stream[s] = <<>>
    /\ activity_fd = 0 => buffers = {} /\ torn = FALSE
    /\ activity_fd # 0 /\ Waiting(activity_fd) =>
        stream[activity_fd] = <<>> /\ buffers = {} /\ torn = FALSE
    /\ activity_fd # 0 /\ (Waiting(activity_fd) \/ Connected) => activity_fd \in serverEnd

\* The next step concerns the list of an activity that is connected.
Listing ==
    \/ First("send") /\ arg.type \in {"add", "remove"}
    \/ First("list") \/ First("unlist")

\* As long as the threads have not met in a hang-up, a hang-up finds the main
\* thread idle, the list is empty without a connection, and no buffer is told
\* of without one.
HangUpOK ==
    raced = FALSE =>
        /\ hangup # "none" => work = <<>>
        /\ hangup = "cleared" => conn_fd = 0
        /\ hangup # "cleared" /\ conn_fd = 0 => registeredBuffers = {}
        /\ Listing => conn_fd # 0

\* The screen's buffer is listed, or that is the last of the main thread's work.
ScreenLast ==
    work # <<>> /\ work[Len(work)] \in {Do("register", screen), Do("list", screen)}
ScreenOK ==
    /\ screen \notin fresh
    /\ raced = FALSE /\ conn_fd # 0 => screen \in registeredBuffers \/ ScreenLast

\* What the activity has been told is the list, but for the buffer told of last.
AgreeOK ==
    Connected /\ raced = FALSE /\ torn = FALSE =>
        Received = IF First("list") THEN registeredBuffers \cup {arg}
                   ELSE IF First("unlist") THEN registeredBuffers \ {arg}
                   ELSE registeredBuffers

IInv == /\ TypeOK /\ WorkOK /\ StreamOK /\ QueueOK /\ ActivityOK
        /\ HangUpOK /\ ScreenOK /\ AgreeOK

-----------------------------------------------------------------------------
(* What the activity will know: handling the messages one by one. *)

\* No message changes nothing.
LEMMA AfterNothing ==
  ASSUME NEW known \in SUBSET Buffer
  PROVE  After(known, <<>>) = known
BY DEF After

\* One message more has the effect of Handle() on what all before it left.
LEMMA AfterAppend ==
  ASSUME NEW known \in SUBSET Buffer, NEW q \in Seq(Message), NEW m \in Message,
         m.type \in {"add", "remove"} => m.id \in Buffer
  PROVE  After(known, Append(q, m)) = Handle(After(known, q), m)
<1> DEFINE n == Len(q)
           r == Append(q, m)
           Has(i, b) == IF i = 0 THEN b \in known ELSE Adds(q[i], b)
<1>1. /\ n \in Nat /\ Len(r) = n + 1 /\ r[n + 1] = m
      /\ \A i \in 1..n : r[i] = q[i]
  OBVIOUS
<1>2. ASSUME NEW b \in Buffer
      PROVE  b \in After(known, r) <=>
               ((b \in After(known, q) \/ Adds(m, b)) /\ ~Removes(m, b))
  <2>0. ~(Adds(m, b) /\ Removes(m, b))
    BY DEF Adds, Removes
  <2>1. ASSUME b \in After(known, r)
        PROVE  (b \in After(known, q) \/ Adds(m, b)) /\ ~Removes(m, b)
    <3>1. PICK i \in 0..(n + 1) : /\ IF i = 0 THEN b \in known ELSE Adds(r[i], b)
                                  /\ \A j \in (i + 1)..(n + 1) : ~Removes(r[j], b)
      BY <1>1, <2>1 DEF After
    <3>2. CASE i = n + 1
      BY <1>1, <2>0, <3>1, <3>2
    <3>3. CASE i # n + 1
      <4>1. i \in 0..n /\ Has(i, b)
        BY <1>1, <3>1, <3>3
      <4>2. \A j \in (i + 1)..n : ~Removes(q[j], b)
        BY <1>1, <3>1, <3>3
      <4>3. ~Removes(m, b)
        BY <1>1, <3>1, <3>3
      <4> QED BY <4>1, <4>2, <4>3 DEF After
    <3> QED BY <3>2, <3>3
  <2>2. ASSUME b \in After(known, q), ~Removes(m, b)
        PROVE  b \in After(known, r)
    <3>1. PICK i \in 0..n : Has(i, b) /\ \A j \in (i + 1)..n : ~Removes(q[j], b)
      BY <2>2 DEF After
    <3>2. i \in 0..Len(r) /\ IF i = 0 THEN b \in known ELSE Adds(r[i], b)
      BY <1>1, <3>1
    <3>3. ASSUME NEW j \in (i + 1)..Len(r) PROVE ~Removes(r[j], b)
      BY <1>1, <2>2, <3>1
    <3> QED BY <3>2, <3>3 DEF After
  <2>3. ASSUME Adds(m, b)
        PROVE  b \in After(known, r)
    <3>1. n + 1 \in 0..Len(r) /\ n + 1 # 0 /\ Adds(r[n + 1], b)
      BY <1>1, <2>3
    <3>2. \A j \in (n + 1 + 1)..Len(r) : ~Removes(r[j], b)
      BY <1>1
    <3> QED BY <3>1, <3>2 DEF After
  <2> QED BY <2>0, <2>1, <2>2, <2>3
<1>3. /\ \A b \in Buffer : Adds(m, b) <=> m.type = "add" /\ m.id = b
      /\ \A b \in Buffer : Removes(m, b) <=> m.type = "remove" /\ m.id = b
  BY DEF Adds, Removes, Message
<1>4. After(known, r) \in SUBSET Buffer /\ After(known, q) \in SUBSET Buffer
  BY Zenon DEF After
<1> HIDE DEF r
<1>5. After(known, r) = Handle(After(known, q), m)
  BY <1>2, <1>3, <1>4, Zenon DEF Handle
<1> QED BY <1>5 DEF r

\* Handling the first message leaves what it will know in the end.
LEMMA AfterHead ==
  ASSUME NEW known \in SUBSET Buffer, NEW q \in Seq(Message), q # <<>>,
         Head(q).type \in {"add", "remove"} => Head(q).id \in Buffer
  PROVE  After(Handle(known, Head(q)), Tail(q)) = After(known, q)
<1> DEFINE n == Len(q)
           m == Head(q)
           r == Tail(q)
<1>1. /\ n \in Nat \ {0} /\ Len(r) = n - 1 /\ q[1] = m /\ m \in Message
      /\ \A i \in 1..(n - 1) : r[i] = q[i + 1]
  OBVIOUS
<1>2. ASSUME NEW b \in Buffer
      PROVE  b \in Handle(known, m) <=> (b \in known /\ ~Removes(m, b)) \/ Adds(m, b)
  BY <1>1 DEF Handle, Adds, Removes, Message
<1>3. ASSUME NEW b \in Buffer, b \in After(known, q)
      PROVE  b \in After(Handle(known, m), r)
  <2>1. PICK i \in 0..n : /\ IF i = 0 THEN b \in known ELSE Adds(q[i], b)
                          /\ \A j \in (i + 1)..n : ~Removes(q[j], b)
    BY <1>3 DEF After
  <2>2. CASE i <= 1
    <3>1. b \in Handle(known, m)
      BY <1>1, <1>2, <2>1, <2>2
    <3>2. \A j \in 1..(n - 1) : ~Removes(r[j], b)
      BY <1>1, <2>1, <2>2
    <3>3. 0 \in 0..Len(r) /\ \A j \in (0 + 1)..Len(r) : ~Removes(r[j], b)
      BY <1>1, <3>2
    <3> QED BY <3>1, <3>3 DEF After
  <2>3. CASE i > 1
    <3>1. i - 1 \in 0..Len(r) /\ i - 1 # 0 /\ Adds(r[i - 1], b)
      BY <1>1, <2>1, <2>3
    <3>2. \A j \in (i - 1 + 1)..Len(r) : ~Removes(r[j], b)
      BY <1>1, <2>1, <2>3
    <3> QED BY <3>1, <3>2, Zenon DEF After
  <2> QED BY <2>1, <2>2, <2>3
<1>4. ASSUME NEW b \in Buffer, b \in After(Handle(known, m), r)
      PROVE  b \in After(known, q)
  <2>1. PICK i \in 0..(n - 1) : /\ IF i = 0 THEN b \in Handle(known, m) ELSE Adds(r[i], b)
                                /\ \A j \in (i + 1)..(n - 1) : ~Removes(r[j], b)
    BY <1>1, <1>4 DEF After
  <2>2. \A j \in (i + 2)..n : ~Removes(q[j], b)
    <3> TAKE j \in (i + 2)..n
    <3>1. j - 1 \in (i + 1)..(n - 1) /\ r[j - 1] = q[j]
      BY <1>1, <2>1
    <3> QED BY <2>1, <3>1
  <2>3. CASE i > 0 \/ Adds(m, b)
    <3>1. i + 1 \in 0..n /\ i + 1 # 0 /\ Adds(q[i + 1], b)
      BY <1>1, <2>1, <2>3
    <3>2. \A j \in (i + 1 + 1)..n : ~Removes(q[j], b)
      BY <2>1, <2>2
    <3> QED BY <3>1, <3>2 DEF After
  <2>4. CASE i = 0 /\ ~Adds(m, b)
    <3>1. b \in known /\ ~Removes(q[1], b)
      BY <1>1, <1>2, <2>1, <2>4
    <3>2. 0 \in 0..n /\ \A j \in (0 + 1)..n : ~Removes(q[j], b)
      BY <1>1, <2>2, <2>4, <3>1
    <3> QED BY <3>1, <3>2 DEF After
  <2> QED BY <2>1, <2>3, <2>4
<1>5. After(Handle(known, m), r) \in SUBSET Buffer /\ After(known, q) \in SUBSET Buffer
  BY Zenon DEF After
<1> HIDE DEF m, r
<1>6. After(Handle(known, m), r) = After(known, q)
  BY <1>3, <1>4, <1>5, Zenon
<1> QED BY <1>6 DEF m, r

-----------------------------------------------------------------------------
(* The work of the main thread by its first step. *)

\* The first step of a piece of work w, what it is done to, what is left after
\* it, and the last step.
Step(w, op, a, rest) ==
    /\ w # <<>> /\ Head(w).op = op /\ Head(w).arg = a
    /\ Tail(w) = rest
    /\ w[Len(w)] = IF rest = <<>> THEN Do(op, a) ELSE rest[Len(rest)]

\* One or two steps put before others.
LEMMA Join ==
  /\ \A a : <<a>> \o <<>> = <<a>>
  /\ \A a, b : <<a>> \o <<b>> = <<a, b>>
  /\ \A a, b : <<a, b>> \o <<>> = <<a, b>>
  /\ \A a, b, c : <<a, b>> \o <<c>> = <<a, b, c>>
<1>1. ASSUME NEW a PROVE <<a>> \o <<>> = <<a>>
  OBVIOUS
<1>2. ASSUME NEW a, NEW b PROVE <<a>> \o <<b>> = <<a, b>>
  <2> DEFINE t == <<a>> \o <<b>>
             u == <<a, b>>
             S == {a, b}
  <2>1. t \in Seq(S) /\ u \in Seq(S)
    OBVIOUS
  <2>2. Len(t) = Len(u) /\ \A i \in 1..Len(t) : t[i] = u[i]
    OBVIOUS
  <2> HIDE DEF t, u, S
  <2>3. t = u
    BY <2>1, <2>2, SeqEqual
  <2> QED BY <2>3 DEF t, u
<1>3. ASSUME NEW a, NEW b PROVE <<a, b>> \o <<>> = <<a, b>>
  OBVIOUS
<1>4. ASSUME NEW a, NEW b, NEW c PROVE <<a, b>> \o <<c>> = <<a, b, c>>
  <2> DEFINE t == <<a, b>> \o <<c>>
             u == <<a, b, c>>
             S == {a, b, c}
  <2>1. t \in Seq(S) /\ u \in Seq(S)
    OBVIOUS
  <2>2. Len(t) = Len(u) /\ \A i \in 1..Len(t) : t[i] = u[i]
    OBVIOUS
  <2> HIDE DEF t, u, S
  <2>3. t = u
    BY <2>1, <2>2, SeqEqual
  <2> QED BY <2>3 DEF t, u
<1> QED BY <1>1, <1>2, <1>3, <1>4, Zenon

LEMMA Steps ==
  ASSUME NEW w
  PROVE  /\ \A op, a : w = <<Do(op, a)>> => Step(w, op, a, <<>>)
         /\ \A op, a, b : w = <<Do(op, a), b>> => Step(w, op, a, <<b>>)
         /\ \A op, a, b, c : w = <<Do(op, a), b, c>> => Step(w, op, a, <<b, c>>)
         /\ \A op, a, b, c, d : w = <<Do(op, a), b, c, d>> => Step(w, op, a, <<b, c, d>>)
<1>0. \A op, a : Do(op, a).op = op /\ Do(op, a).arg = a
  BY DEF Do
<1>1. ASSUME NEW op, NEW a, w = <<Do(op, a)>>
      PROVE  Step(w, op, a, <<>>)
  BY <1>0, <1>1 DEF Step
<1>2. ASSUME NEW op, NEW a, NEW b, w = <<Do(op, a), b>>
      PROVE  Step(w, op, a, <<b>>)
  BY <1>0, <1>2 DEF Step
<1>3. ASSUME NEW op, NEW a, NEW b, NEW c, w = <<Do(op, a), b, c>>
      PROVE  Step(w, op, a, <<b, c>>)
  BY <1>0, <1>3 DEF Step
<1>4. ASSUME NEW op, NEW a, NEW b, NEW c, NEW d, w = <<Do(op, a), b, c, d>>
      PROVE  Step(w, op, a, <<b, c, d>>)
  BY <1>0, <1>4 DEF Step
<1> QED BY <1>1, <1>2, <1>3, <1>4, Zenon

LEMMA StepsJoin ==
  ASSUME NEW op, NEW a, NEW b, NEW c, NEW rest \in {<<>>, <<c>>}
  PROVE  /\ Step(<<Do(op, a)>> \o rest, op, a, rest)
         /\ Step(<<Do(op, a), b>> \o rest, op, a, <<b>> \o rest)
<1>1. CASE rest = <<>>
  <2>1. /\ <<Do(op, a)>> \o rest = <<Do(op, a)>>
        /\ <<Do(op, a), b>> \o rest = <<Do(op, a), b>>
        /\ <<b>> \o rest = <<b>>
    BY <1>1, Join, Zenon
  <2>2. Step(<<Do(op, a)>>, op, a, <<>>) /\ Step(<<Do(op, a), b>>, op, a, <<b>>)
    BY Steps, Zenon
  <2> QED BY <1>1, <2>1, <2>2, Zenon
<1>2. CASE rest = <<c>>
  <2>1. /\ <<Do(op, a)>> \o rest = <<Do(op, a), c>>
        /\ <<Do(op, a), b>> \o rest = <<Do(op, a), b, c>>
        /\ <<b>> \o rest = <<b, c>>
    BY <1>2, Join, Zenon
  <2>2. Step(<<Do(op, a), c>>, op, a, <<c>>) /\ Step(<<Do(op, a), b, c>>, op, a, <<b, c>>)
    BY Steps, Zenon
  <2> QED BY <1>2, <2>1, <2>2, Zenon
<1> QED BY <1>1, <1>2, Zenon

\* The work that may be before the main thread, by its first step.
LEMMA WorkSteps ==
  ASSUME WorkOK
  PROVE  \/ work = <<>>
         \/ \E s \in Socket :
              \/ Step(work, "watch", s, <<Do("fd", s), SendState, Do("register", screen)>>)
              \/ Step(work, "fd", s, <<SendState, Do("register", screen)>>)
         \/ Step(work, "send", Plain("state"), <<Do("register", screen)>>)
         \/ \E b \in Buffer :
              \/ work = <<Do("register", b)>> /\ Step(work, "register", b, <<>>)
              \/ Step(work, "send", [type |-> "add", id |-> b], <<Do("list", b)>>)
              \/ Step(work, "list", b, <<>>)
         \/ \E b \in Buffer \ {screen} : \E rest \in {<<>>, <<Do("register", screen)>>} :
              \/ Step(work, "unregister", b, rest)
              \/ Step(work, "send", [type |-> "remove", id |-> b], <<Do("unlist", b)>> \o rest)
              \/ Step(work, "unlist", b, rest)
         \/ \E type \in {"clipboard", "focus"} : Step(work, "send", Plain(type), <<>>)
<1>1. ASSUME NEW s \in Socket, Accepting(s)
      PROVE  \/ Step(work, "watch", s, <<Do("fd", s), SendState, Do("register", screen)>>)
             \/ Step(work, "fd", s, <<SendState, Do("register", screen)>>)
  BY <1>1, Steps, Zenon DEF Accepting
<1>2. ASSUME work = <<SendState, Do("register", screen)>>
      PROVE  Step(work, "send", Plain("state"), <<Do("register", screen)>>)
  BY <1>2, Steps, Zenon DEF SendState
<1>3. ASSUME NEW b \in Buffer, Registering(b)
      PROVE  \/ work = <<Do("register", b)>> /\ Step(work, "register", b, <<>>)
             \/ Step(work, "send", [type |-> "add", id |-> b], <<Do("list", b)>>)
             \/ Step(work, "list", b, <<>>)
  BY <1>3, Steps, Zenon DEF Registering, Tell
<1>4. ASSUME NEW b \in Buffer \ {screen}, Unregistering(b)
      PROVE  \/ Step(work, "unregister", b, <<>>)
             \/ Step(work, "send", [type |-> "remove", id |-> b], <<Do("unlist", b)>>)
             \/ Step(work, "unlist", b, <<>>)
  BY <1>4, Steps, Zenon DEF Unregistering, Tell
<1>5. ASSUME NEW b \in Buffer \ {screen}, Replacing(b)
      PROVE  \/ Step(work, "unregister", b, <<Do("register", screen)>>)
             \/ Step(work, "send", [type |-> "remove", id |-> b],
                     <<Do("unlist", b), Do("register", screen)>>)
             \/ Step(work, "unlist", b, <<Do("register", screen)>>)
  BY <1>5, Steps, Zenon DEF Replacing, Tell
<1>6. ASSUME NEW type \in {"clipboard", "focus"}, Noticing(type)
      PROVE  Step(work, "send", Plain(type), <<>>)
  BY <1>6, Steps, Zenon DEF Noticing
<1> QED
  BY <1>1, <1>2, <1>3, <1>4, <1>5, <1>6, Join, Zenon DEF WorkOK

\* What is before the main thread before and after it watches a socket, ...
LEMMA WatchStep ==
  ASSUME WorkOK, Watch
  PROVE  \E s \in Socket :
           /\ Step(work, "watch", s, <<Do("fd", s), SendState, Do("register", screen)>>)
           /\ work' = <<Do("fd", s), SendState, Do("register", screen)>>
           /\ Step(work', "fd", s, <<SendState, Do("register", screen)>>)
<1>1. First("watch") /\ work' = Tail(work)
  BY Zenon DEF Watch
<1>2. PICK s \in Socket : Step(work, "watch", s, <<Do("fd", s), SendState, Do("register", screen)>>)
  BY <1>1, WorkSteps, Zenon DEF Step, First
<1>3. work' = <<Do("fd", s), SendState, Do("register", screen)>>
  BY <1>1, <1>2, Zenon DEF Step
<1> QED BY <1>2, <1>3, Steps, Zenon

\* ... sets conn_fd, ...
LEMMA FdStep ==
  ASSUME WorkOK, SetFd
  PROVE  \E s \in Socket :
           /\ Step(work, "fd", s, <<SendState, Do("register", screen)>>)
           /\ conn_fd' = s
           /\ work' = <<SendState, Do("register", screen)>>
           /\ Step(work', "send", Plain("state"), <<Do("register", screen)>>)
<1>1. First("fd") /\ work' = Tail(work) /\ conn_fd' = arg
  BY Zenon DEF SetFd
<1>2. PICK s \in Socket : Step(work, "fd", s, <<SendState, Do("register", screen)>>)
  BY <1>1, WorkSteps, Zenon DEF Step, First
<1>3. work' = <<SendState, Do("register", screen)>> /\ conn_fd' = s
  BY <1>1, <1>2, Zenon DEF Step, arg
<1> QED BY <1>2, <1>3, Steps, Zenon DEF SendState

\* ... writes a message, ...
LEMMA SendStep ==
  ASSUME WorkOK, Send
  PROVE  \/ /\ Step(work, "send", Plain("state"), <<Do("register", screen)>>)
            /\ work' = <<Do("register", screen)>>
            /\ Step(work', "register", screen, <<>>)
         \/ \E b \in Buffer :
              /\ Step(work, "send", [type |-> "add", id |-> b], <<Do("list", b)>>)
              /\ work' = <<Do("list", b)>>
              /\ Step(work', "list", b, <<>>)
         \/ \E b \in Buffer \ {screen} : \E rest \in {<<>>, <<Do("register", screen)>>} :
              /\ Step(work, "send", [type |-> "remove", id |-> b], <<Do("unlist", b)>> \o rest)
              /\ work' = <<Do("unlist", b)>> \o rest
              /\ Step(work', "unlist", b, rest)
         \/ \E type \in {"clipboard", "focus"} :
              Step(work, "send", Plain(type), <<>>) /\ work' = <<>>
<1>1. First("send") /\ work' = Tail(work)
  BY Zenon DEF Send
<1>2. \/ Step(work, "send", Plain("state"), <<Do("register", screen)>>)
      \/ \E b \in Buffer :
           Step(work, "send", [type |-> "add", id |-> b], <<Do("list", b)>>)
      \/ \E b \in Buffer \ {screen} : \E rest \in {<<>>, <<Do("register", screen)>>} :
           Step(work, "send", [type |-> "remove", id |-> b], <<Do("unlist", b)>> \o rest)
      \/ \E type \in {"clipboard", "focus"} : Step(work, "send", Plain(type), <<>>)
  BY <1>1, WorkSteps, Zenon DEF Step, First
<1>3. \A op, a, rest : Step(work, op, a, rest) => work' = rest
  BY <1>1, Zenon DEF Step
<1>4. \A b : \A rest \in {<<>>, <<Do("register", screen)>>} :
        Step(<<Do("unlist", b)>> \o rest, "unlist", b, rest)
  BY StepsJoin, Zenon
<1>5. /\ Step(<<Do("register", screen)>>, "register", screen, <<>>)
      /\ \A b : Step(<<Do("list", b)>>, "list", b, <<>>)
  BY Steps, Zenon
<1> QED BY <1>2, <1>3, <1>4, <1>5, Zenon

\* ... tests whether a buffer is registered, ...
LEMMA RegisterStep ==
  ASSUME WorkOK, lorieRegisterBuffer
  PROVE  \E b \in Buffer :
           /\ Step(work, "register", b, <<>>)
           /\ \/ (conn_fd = 0 \/ b \in registeredBuffers) /\ work' = <<>>
              \/ /\ conn_fd # 0 /\ b \notin registeredBuffers
                 /\ work' = <<Tell("add", b), Do("list", b)>>
                 /\ Step(work', "send", [type |-> "add", id |-> b], <<Do("list", b)>>)
<1>1. /\ First("register")
      /\ work' = IF conn_fd = 0 \/ arg \in registeredBuffers THEN Tail(work)
                 ELSE <<Tell("add", arg), Do("list", arg)>> \o Tail(work)
  BY Zenon DEF lorieRegisterBuffer, Tell
<1>2. PICK b \in Buffer : Step(work, "register", b, <<>>)
  BY <1>1, WorkSteps, Zenon DEF Step, First
<1>3. work' = IF conn_fd = 0 \/ b \in registeredBuffers THEN <<>>
              ELSE <<Tell("add", b), Do("list", b)>>
  BY <1>1, <1>2, Join, Zenon DEF Step, arg
<1> QED BY <1>2, <1>3, Steps, Zenon DEF Tell

LEMMA UnregisterStep ==
  ASSUME WorkOK, lorieUnregisterBuffer
  PROVE  \E b \in Buffer \ {screen} : \E rest \in {<<>>, <<Do("register", screen)>>} :
           /\ Step(work, "unregister", b, rest)
           /\ \/ (conn_fd = 0 \/ b \notin registeredBuffers) /\ work' = rest
              \/ /\ conn_fd # 0 /\ b \in registeredBuffers
                 /\ work' = <<Tell("remove", b), Do("unlist", b)>> \o rest
                 /\ Step(work', "send", [type |-> "remove", id |-> b], <<Do("unlist", b)>> \o rest)
<1>1. /\ First("unregister")
      /\ work' = IF conn_fd = 0 \/ arg \notin registeredBuffers THEN Tail(work)
                 ELSE <<Tell("remove", arg), Do("unlist", arg)>> \o Tail(work)
  BY Zenon DEF lorieUnregisterBuffer, Tell
<1>2. PICK b \in Buffer \ {screen}, rest \in {<<>>, <<Do("register", screen)>>} :
        Step(work, "unregister", b, rest)
  BY <1>1, WorkSteps, Zenon DEF Step, First
<1>3. work' = IF conn_fd = 0 \/ b \notin registeredBuffers THEN rest
              ELSE <<Tell("remove", b), Do("unlist", b)>> \o rest
  BY <1>1, <1>2, Zenon DEF Step, arg
<1>4. Step(<<Tell("remove", b), Do("unlist", b)>> \o rest,
           "send", [type |-> "remove", id |-> b], <<Do("unlist", b)>> \o rest)
  BY StepsJoin, Zenon DEF Tell
<1> QED BY <1>2, <1>3, <1>4, Zenon

\* ... and changes the list.
LEMMA ListStep ==
  ASSUME WorkOK, ChangeList
  PROVE  \/ \E b \in Buffer :
              /\ Step(work, "list", b, <<>>) /\ work' = <<>>
              /\ registeredBuffers' = registeredBuffers \cup {b}
         \/ \E b \in Buffer \ {screen} : \E rest \in {<<>>, <<Do("register", screen)>>} :
              /\ Step(work, "unlist", b, rest) /\ work' = rest
              /\ registeredBuffers' = registeredBuffers \ {b}
<1>1. /\ First("list") \/ First("unlist")
      /\ registeredBuffers' = IF First("list") THEN registeredBuffers \cup {arg}
                              ELSE registeredBuffers \ {arg}
      /\ work' = Tail(work)
  BY Zenon DEF ChangeList
<1>2. \/ \E b \in Buffer : Step(work, "list", b, <<>>)
      \/ \E b \in Buffer \ {screen} : \E rest \in {<<>>, <<Do("register", screen)>>} :
           Step(work, "unlist", b, rest)
  BY <1>1, WorkSteps, Zenon DEF Step, First
<1>3. \A a, rest : Step(work, "unlist", a, rest) => ~First("list")
  BY DEF Step, First
<1> QED BY <1>1, <1>2, <1>3, Zenon DEF Step, arg, First

-----------------------------------------------------------------------------
(* The steps of the main thread keep the invariant. *)

\* Whatever is before the main thread are steps of it.
WorkTyped == \A i \in 1..Len(work) : work[i].op \in Op

LEMMA WorkTypes == WorkOK => WorkTyped
<1> SUFFICES ASSUME WorkOK PROVE WorkTyped
  OBVIOUS
<1> USE DEF WorkTyped, Op, Do, Tell, SendState
<1>1. ASSUME NEW s \in Socket, Accepting(s) PROVE WorkTyped
  BY <1>1 DEF Accepting
<1>2. ASSUME work = <<SendState, Do("register", screen)>> PROVE WorkTyped
  BY <1>2
<1>3. ASSUME NEW b \in Buffer, Registering(b) PROVE WorkTyped
  BY <1>3 DEF Registering
<1>4. ASSUME NEW b \in Buffer, Unregistering(b) PROVE WorkTyped
  BY <1>4 DEF Unregistering
<1>5. ASSUME NEW b \in Buffer, Replacing(b) PROVE WorkTyped
  BY <1>5 DEF Replacing
<1>6. ASSUME NEW type, Noticing(type) PROVE WorkTyped
  BY <1>6 DEF Noticing
<1>7. ASSUME work = <<>> PROVE WorkTyped
  BY <1>7
<1> HIDE DEF WorkTyped
<1> QED BY <1>1, <1>2, <1>3, <1>4, <1>5, <1>6, <1>7, Zenon DEF WorkOK

LEMMA WorkTypesNext == WorkOK' => WorkTyped'
BY WorkTypes, PTL

\* What the activity will have does not depend on the server's state.
LEMMA SameReceived ==
  ASSUME UNCHANGED <<stream, activity_fd, buffers>>
  PROVE  Received' = Received
BY Zenon DEF Received

\* addFd() takes up the oldest socket in the queue.
LEMMA AddFdIInv ==
  ASSUME IInv, addFd
  PROVE  IInv'
<1> DEFINE s == Head(queue)
<1> USE BoundsAssumption
<1>1. /\ work = <<>> /\ queue # <<>>
      /\ work' = <<Do("watch", s), Do("fd", s), SendState, Do("register", screen)>>
      /\ queue' = Tail(queue)
      /\ raced' = (raced \/ hangup # "none")
      /\ UNCHANGED <<conn_fd, registeredBuffers, devices, hangup, screen, fresh,
                     works, activityVars, socketVars>>
  BY Zenon DEF addFd, SendState
<1>2. /\ s \in Socket /\ s = queue[1] /\ Len(queue) \in Nat /\ Len(queue) > 0
      /\ queue' \in Seq(Socket) /\ Len(queue') = Len(queue) - 1
      /\ \A i \in 1..Len(queue') : queue'[i] = queue[i + 1]
  BY <1>1 DEF IInv, TypeOK
<1>3. Step(work', "watch", s, <<Do("fd", s), SendState, Do("register", screen)>>)
  BY <1>1, Steps, Zenon
<1> HIDE DEF s
<1>4. WorkOK'
  BY <1>1, <1>2, Zenon DEF WorkOK, Accepting
<1>5. TypeOK'
  BY <1>1, <1>2, <1>4, WorkTypesNext, Zenon DEF IInv, TypeOK, WorkTyped, activityVars, socketVars
<1>6. StreamOK'
  BY <1>1, Zenon DEF IInv, StreamOK, socketVars
<1>7. /\ \A t : Taken(t)' <=> t = s
      /\ ~Listing' /\ ~First("list")' /\ ~First("unlist")'
  BY <1>3 DEF Taken, Listing, First, arg, Step
<1>8. QueueOK'
  <2>1. \A i \in 1..Len(queue') : i + 1 \in 1..Len(queue) /\ 1 \in 1..Len(queue) /\ 1 < i + 1
    BY <1>2
  <2>2. conn_fd <= used /\ conn_fd < s /\ s <= used
    BY <1>2 DEF IInv, QueueOK
  <2>3. \A i \in 1..Len(queue') : conn_fd < queue'[i] /\ queue'[i] <= used /\ s < queue'[i]
    BY <1>2, <2>1, Zenon DEF IInv, QueueOK
  <2>4. \A i, j \in 1..Len(queue') : i < j => i + 1 < j + 1
    BY <1>2
  <2>5. \A i, j \in 1..Len(queue') : i < j => queue'[i] < queue'[j]
    BY <1>2, <2>1, <2>4, Zenon DEF IInv, QueueOK
  <2>6. conn_fd' = conn_fd /\ used' = used
    BY <1>1, Zenon DEF socketVars
  <2>7. \A t \in Socket : Taken(t)' => /\ conn_fd' < t /\ t <= used'
                                      /\ \A i \in 1..Len(queue') : t < queue'[i]
    BY <1>7, <2>2, <2>3, <2>6
  <2> QED BY <2>2, <2>3, <2>5, <2>6, <2>7, Zenon DEF QueueOK
<1>9. ActivityOK'
  <2>1. \A i \in 1..Len(queue') : i + 1 \in 1..Len(queue) /\ 1 \in 1..Len(queue)
    BY <1>2
  <2>2. 1 \in 1..Len(queue)
    BY <1>2
  <2>3. \A t : Waiting(t)' => Waiting(t)
    BY <1>2, <1>7, <2>1, <2>2, Zenon DEF Waiting
  <2> QED BY <1>1, <2>3, Zenon DEF IInv, ActivityOK, Connected, activityVars, socketVars
<1>10. HangUpOK'
  BY <1>1, <1>7, Zenon DEF IInv, TypeOK, HangUpOK
<1>11. ScreenLast'
  BY <1>1, <1>3 DEF ScreenLast, Step
<1>12. Received' = Received
  BY <1>1, SameReceived, Zenon DEF activityVars, socketVars
<1>13. ~First("list") /\ ~First("unlist")
  BY <1>1, Zenon DEF First
<1>14. AgreeOK'
  BY <1>1, <1>7, <1>12, <1>13 DEF IInv, TypeOK, AgreeOK, Connected, activityVars
<1>15. ScreenOK'
  BY <1>1, <1>11, Zenon DEF IInv, ScreenOK
<1> QED
  BY <1>4, <1>5, <1>6, <1>8, <1>9, <1>10, <1>14, <1>15, Zenon DEF IInv

\* A step that takes no socket up and leaves the sockets and the activity alone.
LEMMA SameSockets ==
  ASSUME IInv, UNCHANGED <<conn_fd, queue, activityVars, socketVars>>,
         \A t : Taken(t)' => Taken(t)
  PROVE  StreamOK' /\ QueueOK' /\ ActivityOK'
<1>1. StreamOK'
  BY Zenon DEF IInv, StreamOK, socketVars
<1>2. QueueOK'
  BY Zenon DEF IInv, QueueOK, socketVars
<1>3. ActivityOK'
  BY Zenon DEF IInv, ActivityOK, Waiting, Connected, activityVars, socketVars
<1> QED BY <1>1, <1>2, <1>3, Zenon

\* The main thread takes up some other work.
LEMMA BeginIInv ==
  ASSUME IInv, NEW ops, Begin(ops), screen' \in Buffer, fresh' \in SUBSET Buffer,
         WorkOK', ScreenOK',
         NEW op \in {"register", "unregister", "send"}, NEW a, NEW rest, Step(ops, op, a, rest),
         op = "send" => a.type \notin {"add", "remove"}
  PROVE  IInv'
<1> USE BoundsAssumption
<1>1. /\ work = <<>> /\ works < MaxWork
      /\ works' = works + 1
      /\ work' = ops
      /\ raced' = (raced \/ hangup # "none")
      /\ UNCHANGED <<conn_fd, registeredBuffers, queue, devices, hangup,
                     activityVars, socketVars>>
  BY Zenon DEF Begin
<1>2. /\ \A t : ~Taken(t)'
      /\ ~Listing' /\ ~First("list")' /\ ~First("unlist")'
  BY <1>1 DEF Taken, Listing, First, arg, Step
<1>3. works' \in 0..MaxWork
  BY <1>1 DEF IInv, TypeOK
<1>4. TypeOK'
  BY <1>1, <1>3, WorkTypesNext, Zenon DEF IInv, TypeOK, WorkTyped, activityVars, socketVars
<1>5. StreamOK' /\ QueueOK' /\ ActivityOK'
  BY <1>1, <1>2, SameSockets, Zenon
<1>6. HangUpOK'
  BY <1>1, <1>2, Zenon DEF IInv, TypeOK, HangUpOK
<1>7. Received' = Received
  BY <1>1, SameReceived, Zenon DEF activityVars, socketVars
<1>8. ~First("list") /\ ~First("unlist")
  BY <1>1, Zenon DEF First
<1>9. AgreeOK'
  BY <1>1, <1>2, <1>7, <1>8 DEF IInv, TypeOK, AgreeOK, Connected, activityVars
<1> QED
  BY <1>4, <1>5, <1>6, <1>9, Zenon DEF IInv

\* The work that may be taken up: a new screen, a flip, the destruction of a
\* pixmap, a notice.
LEMMA MainWorkIInv ==
  ASSUME IInv, MainWork
  PROVE  IInv'
<1>1. ASSUME NEW b \in Buffer, lorieRRScreenSetSize(b)
      PROVE  IInv'
  <2> DEFINE ops == <<Do("unregister", screen), Do("register", b)>>
  <2>1. /\ b \in fresh /\ fresh' = fresh \ {b} /\ screen' = b /\ Begin(ops)
    BY <1>1, Zenon DEF lorieRRScreenSetSize
  <2>2. screen \in Buffer \ {b} /\ fresh' \in SUBSET Buffer /\ work' = ops
    BY <2>1, Zenon DEF IInv, TypeOK, ScreenOK, Begin
  <2>3. WorkOK'
    BY <2>1, <2>2, Zenon DEF WorkOK, Replacing
  <2>4. Step(ops, "unregister", screen, <<Do("register", b)>>)
    BY Steps, Zenon
  <2>5. ScreenLast'
    BY <2>1, <2>2 DEF ScreenLast
  <2> HIDE DEF ops
  <2>6. ScreenOK'
    BY <2>1, <2>5, Zenon DEF ScreenOK
  <2> QED BY <2>1, <2>2, <2>3, <2>4, <2>6, BeginIInv
<1>2. ASSUME NEW b \in Buffer, loriePresentFlip(b)
      PROVE  IInv'
  <2> DEFINE ops == <<Do("register", b)>>
  <2>1. b \in fresh /\ fresh' = fresh \ {b} /\ screen' = screen /\ Begin(ops)
    BY <1>2, Zenon DEF loriePresentFlip
  <2>2. /\ screen' \in Buffer /\ fresh' \in SUBSET Buffer
        /\ work = <<>> /\ work' = ops /\ raced' = (raced \/ hangup # "none")
        /\ UNCHANGED <<conn_fd, registeredBuffers>>
    BY <2>1, Zenon DEF IInv, TypeOK, Begin
  <2>3. WorkOK'
    BY <2>1, <2>2, Zenon DEF WorkOK, Registering
  <2>4. Step(ops, "register", b, <<>>)
    BY Steps, Zenon
  <2> HIDE DEF ops
  <2>5. ScreenOK'
    BY <2>1, <2>2, Zenon DEF IInv, TypeOK, ScreenOK, ScreenLast
  <2> QED BY <2>1, <2>2, <2>3, <2>4, <2>5, BeginIInv
<1>3. ASSUME NEW b \in Buffer, lorieExaDestroyPixmap(b)
      PROVE  IInv'
  <2> DEFINE ops == <<Do("unregister", b)>>
  <2>1. b \in Buffer \ {screen} /\ UNCHANGED <<fresh, screen>> /\ Begin(ops)
    BY <1>3, Zenon DEF lorieExaDestroyPixmap
  <2>2. /\ screen' \in Buffer /\ fresh' \in SUBSET Buffer
        /\ work = <<>> /\ work' = ops /\ raced' = (raced \/ hangup # "none")
        /\ UNCHANGED <<conn_fd, registeredBuffers>>
    BY <2>1, Zenon DEF IInv, TypeOK, Begin
  <2>3. WorkOK'
    BY <2>1, <2>2, Zenon DEF WorkOK, Unregistering
  <2>4. Step(ops, "unregister", b, <<>>)
    BY Steps, Zenon
  <2> HIDE DEF ops
  <2>5. ScreenOK'
    BY <2>1, <2>2, Zenon DEF IInv, TypeOK, ScreenOK, ScreenLast
  <2> QED BY <2>1, <2>2, <2>3, <2>4, <2>5, BeginIInv
<1>4. ASSUME NEW type \in {"clipboard", "focus"}, Notify(type)
      PROVE  IInv'
  <2> DEFINE ops == <<Do("send", Plain(type))>>
  <2>1. UNCHANGED <<fresh, screen>> /\ Begin(ops)
    BY <1>4, Zenon DEF Notify
  <2>2. /\ screen' \in Buffer /\ fresh' \in SUBSET Buffer
        /\ work = <<>> /\ work' = ops /\ raced' = (raced \/ hangup # "none")
        /\ UNCHANGED <<conn_fd, registeredBuffers>>
    BY <2>1, Zenon DEF IInv, TypeOK, Begin
  <2>3. WorkOK'
    BY <2>1, <2>2, Zenon DEF WorkOK, Noticing
  <2>4. Step(ops, "send", Plain(type), <<>>) /\ Plain(type).type \notin {"add", "remove"}
    <3>1. Step(ops, "send", Plain(type), <<>>)
      BY Steps, Zenon
    <3> QED BY <3>1 DEF Plain
  <2> HIDE DEF ops
  <2>5. ScreenOK'
    BY <2>1, <2>2, Zenon DEF IInv, TypeOK, ScreenOK, ScreenLast
  <2> QED BY <2>1, <2>2, <2>3, <2>4, <2>5, BeginIInv
<1> QED BY <1>1, <1>2, <1>3, <1>4, Zenon DEF MainWork

\* The steps of the main thread that touch neither the sockets nor the activity.
LEMMA WatchIInv ==
  ASSUME IInv, Watch
  PROVE  IInv'
<1>1. PICK s \in Socket :
        /\ Step(work, "watch", s, <<Do("fd", s), SendState, Do("register", screen)>>)
        /\ work' = <<Do("fd", s), SendState, Do("register", screen)>>
        /\ Step(work', "fd", s, <<SendState, Do("register", screen)>>)
  BY WatchStep, Zenon DEF IInv
<1>2. /\ First("watch") /\ hangup = "none" /\ devices' = devices \cup {s}
      /\ UNCHANGED <<conn_fd, registeredBuffers, queue, hangup, screen, fresh, works, raced,
                     activityVars, socketVars>>
  BY <1>1, Zenon DEF Watch, Step, arg
<1>3. WorkOK'
  BY <1>1, <1>2, Zenon DEF WorkOK, Accepting
<1>4. TypeOK'
  BY <1>2, <1>3, WorkTypesNext, Zenon DEF IInv, TypeOK, WorkTyped, activityVars, socketVars
<1>5. /\ \A t : Taken(t)' => Taken(t)
      /\ ~Listing' /\ ~First("list")' /\ ~First("unlist")' /\ ~First("list") /\ ~First("unlist")
  BY <1>1 DEF Taken, Listing, First, arg, Step
<1>6. StreamOK' /\ QueueOK' /\ ActivityOK'
  BY <1>2, <1>5, SameSockets, Zenon
<1>7. HangUpOK'
  BY <1>2, <1>5, Zenon DEF IInv, TypeOK, HangUpOK, First
<1>8. ScreenLast'
  BY <1>1, <1>2 DEF ScreenLast, Step
<1>9. ScreenOK'
  BY <1>2, <1>8, Zenon DEF IInv, ScreenOK
<1>10. Received' = Received
  BY <1>2, SameReceived, Zenon DEF activityVars, socketVars
<1>11. AgreeOK'
  BY <1>2, <1>5, <1>10, Zenon DEF IInv, AgreeOK, Connected, activityVars
<1> QED
  BY <1>3, <1>4, <1>6, <1>7, <1>9, <1>11, Zenon DEF IInv

LEMMA RegisterIInv ==
  ASSUME IInv, lorieRegisterBuffer
  PROVE  IInv'
<1>1. PICK b \in Buffer :
        /\ Step(work, "register", b, <<>>)
        /\ \/ (conn_fd = 0 \/ b \in registeredBuffers) /\ work' = <<>>
           \/ /\ conn_fd # 0 /\ b \notin registeredBuffers
              /\ work' = <<Tell("add", b), Do("list", b)>>
              /\ Step(work', "send", [type |-> "add", id |-> b], <<Do("list", b)>>)
  BY RegisterStep, Zenon DEF IInv
<1>2. /\ First("register")
      /\ UNCHANGED <<conn_fd, registeredBuffers, queue, devices, hangup, screen,
                     fresh, works, raced, activityVars, socketVars>>
  BY Zenon DEF lorieRegisterBuffer
<1>3. WorkOK'
  BY <1>1, <1>2, Zenon DEF WorkOK, Registering
<1>4. TypeOK'
  BY <1>2, <1>3, WorkTypesNext, Zenon DEF IInv, TypeOK, WorkTyped, activityVars, socketVars
<1>5. /\ \A t : ~Taken(t)'
      /\ ~First("list")' /\ ~First("unlist")' /\ ~First("list") /\ ~First("unlist")
      /\ Listing' => conn_fd # 0
  BY <1>1 DEF Taken, Listing, First, arg, Step
<1>6. StreamOK' /\ QueueOK' /\ ActivityOK'
  BY <1>2, <1>5, SameSockets, Zenon
<1>7. HangUpOK'
  BY <1>2, <1>5, Zenon DEF IInv, TypeOK, HangUpOK, First
<1>8. ScreenOK'
  <2>1. ScreenLast => b = screen
    BY <1>1 DEF ScreenLast, Step, Do
  <2>2. CASE work' = <<>>
    BY <1>1, <1>2, <2>1, <2>2, Zenon DEF IInv, ScreenOK, Step
  <2>3. CASE work' # <<>>
    <3>1. b = screen => ScreenLast'
      BY <1>1, <1>2, <2>3 DEF ScreenLast, Step
    <3> QED BY <1>2, <2>1, <3>1, Zenon DEF IInv, ScreenOK
  <2> QED BY <2>2, <2>3
<1>9. Received' = Received
  BY <1>2, SameReceived, Zenon DEF activityVars, socketVars
<1>10. AgreeOK'
  BY <1>2, <1>5, <1>9, Zenon DEF IInv, AgreeOK, Connected, activityVars
<1> QED
  BY <1>3, <1>4, <1>6, <1>7, <1>8, <1>10, Zenon DEF IInv

LEMMA UnregisterIInv ==
  ASSUME IInv, lorieUnregisterBuffer
  PROVE  IInv'
<1>1. PICK b \in Buffer \ {screen}, rest \in {<<>>, <<Do("register", screen)>>} :
        /\ Step(work, "unregister", b, rest)
        /\ \/ (conn_fd = 0 \/ b \notin registeredBuffers) /\ work' = rest
           \/ /\ conn_fd # 0 /\ b \in registeredBuffers
              /\ work' = <<Tell("remove", b), Do("unlist", b)>> \o rest
              /\ Step(work', "send", [type |-> "remove", id |-> b], <<Do("unlist", b)>> \o rest)
  BY UnregisterStep, Zenon DEF IInv
<1>2. /\ First("unregister")
      /\ UNCHANGED <<conn_fd, registeredBuffers, queue, devices, hangup, screen,
                     fresh, works, raced, activityVars, socketVars>>
  BY Zenon DEF lorieUnregisterBuffer
<1>3. WorkOK'
  <2>1. \/ work' = <<>>
        \/ work' = <<Do("register", screen)>>
        \/ work' = <<Tell("remove", b), Do("unlist", b)>>
        \/ work' = <<Tell("remove", b), Do("unlist", b), Do("register", screen)>>
    <3> DEFINE told == <<Tell("remove", b), Do("unlist", b)>>
    <3>1. /\ told \o <<>> = told
          /\ told \o <<Do("register", screen)>>
               = <<Tell("remove", b), Do("unlist", b), Do("register", screen)>>
      BY Join, ZenonT(30)
    <3> QED BY <1>1, <3>1, Zenon
  <2>2. screen \in Buffer /\ screen' = screen
    BY <1>2, Zenon DEF IInv, TypeOK
  <2> QED BY <2>1, <2>2, Zenon DEF WorkOK, Registering, Unregistering, Replacing
<1>4. TypeOK'
  BY <1>2, <1>3, WorkTypesNext, Zenon DEF IInv, TypeOK, WorkTyped, activityVars, socketVars
<1>5. Step(<<Do("register", screen)>>, "register", screen, <<>>)
  BY Steps, Zenon
<1>6. /\ \A t : ~Taken(t)'
      /\ ~First("list")' /\ ~First("unlist")' /\ ~First("list") /\ ~First("unlist")
      /\ Listing' => conn_fd # 0
  BY <1>1, <1>5 DEF Taken, Listing, First, arg, Step
<1>7. StreamOK' /\ QueueOK' /\ ActivityOK'
  BY <1>2, <1>6, SameSockets, Zenon
<1>8. HangUpOK'
  BY <1>2, <1>6, Zenon DEF IInv, TypeOK, HangUpOK, First
<1>9. ScreenOK'
  <2>1. ScreenLast => rest = <<Do("register", screen)>>
    BY <1>1 DEF ScreenLast, Step, Do
  <2>2. <<Do("unlist", b)>> \o <<Do("register", screen)>> = <<Do("unlist", b), Do("register", screen)>>
    BY Join, Zenon
  <2>3. \A w : w = <<Do("register", screen)>> \/ w = <<Do("unlist", b), Do("register", screen)>>
              => w # <<>> /\ w[Len(w)] = Do("register", screen)
    OBVIOUS
  <2>4. rest = <<Do("register", screen)>> => ScreenLast'
    BY <1>1, <1>2, <2>2, <2>3, Zenon DEF ScreenLast, Step
  <2> QED BY <1>2, <2>1, <2>4, Zenon DEF IInv, ScreenOK
<1>10. Received' = Received
  BY <1>2, SameReceived, Zenon DEF activityVars, socketVars
<1>11. AgreeOK'
  BY <1>2, <1>6, <1>10, Zenon DEF IInv, AgreeOK, Connected, activityVars
<1> QED
  BY <1>3, <1>4, <1>7, <1>8, <1>9, <1>11, Zenon DEF IInv

\* The list changes when the activity has been told of the change.
LEMMA ListIInv ==
  ASSUME IInv, ChangeList
  PROVE  IInv'
<1>0. UNCHANGED <<conn_fd, queue, devices, hangup, screen, fresh, works, raced,
                  activityVars, socketVars>>
  BY Zenon DEF ChangeList
<1>1. \/ \E b \in Buffer :
           /\ Step(work, "list", b, <<>>) /\ work' = <<>>
           /\ registeredBuffers' = registeredBuffers \cup {b}
      \/ \E b \in Buffer \ {screen} : \E rest \in {<<>>, <<Do("register", screen)>>} :
           /\ Step(work, "unlist", b, rest) /\ work' = rest
           /\ registeredBuffers' = registeredBuffers \ {b}
  BY ListStep, Zenon DEF IInv
<1>2. Step(<<Do("register", screen)>>, "register", screen, <<>>)
  BY Steps, Zenon
<1>3. work' = <<>> \/ work' = <<Do("register", screen)>>
  BY <1>1, Zenon
<1>4. WorkOK'
  BY <1>0, <1>3, Zenon DEF WorkOK, Registering, IInv, TypeOK
<1>5. registeredBuffers' \in SUBSET Buffer
  BY <1>1 DEF IInv, TypeOK
<1>6. TypeOK'
  BY <1>0, <1>4, <1>5, WorkTypesNext, Zenon DEF IInv, TypeOK, WorkTyped, activityVars, socketVars
<1>7. /\ \A t : ~Taken(t)'
      /\ ~First("list")' /\ ~First("unlist")' /\ ~Listing'
  BY <1>2, <1>3 DEF Taken, Listing, First, arg, Step
<1>8. StreamOK' /\ QueueOK' /\ ActivityOK'
  BY <1>0, <1>7, SameSockets, Zenon
<1>9. Listing /\ work # <<>>
  BY <1>1, Zenon DEF Step, Listing, First
<1>10. HangUpOK'
  BY <1>0, <1>7, <1>9, Zenon DEF IInv, TypeOK, HangUpOK
<1>11. ScreenOK'
  <2>1. ASSUME NEW b \in Buffer, Step(work, "list", b, <<>>),
               registeredBuffers' = registeredBuffers \cup {b}
        PROVE  ScreenOK'
    <3>1. ScreenLast => b = screen
      BY <2>1 DEF ScreenLast, Step, Do
    <3> QED BY <1>0, <2>1, <3>1, Zenon DEF IInv, ScreenOK
  <2>2. ASSUME NEW b \in Buffer \ {screen}, NEW rest \in {<<>>, <<Do("register", screen)>>},
               Step(work, "unlist", b, rest), work' = rest,
               registeredBuffers' = registeredBuffers \ {b}
        PROVE  ScreenOK'
    <3>1. ScreenLast => rest = <<Do("register", screen)>>
      BY <2>2 DEF ScreenLast, Step, Do
    <3>2. rest = <<Do("register", screen)>> => ScreenLast'
      BY <1>0, <2>2 DEF ScreenLast
    <3> QED BY <1>0, <2>2, <3>1, <3>2, Zenon DEF IInv, ScreenOK
  <2> QED BY <1>1, <2>1, <2>2, Zenon
<1>12. Received' = Received
  BY <1>0, SameReceived, Zenon DEF activityVars, socketVars
<1>13. \/ First("list") /\ registeredBuffers' = registeredBuffers \cup {arg}
       \/ ~First("list") /\ First("unlist") /\ registeredBuffers' = registeredBuffers \ {arg}
  BY <1>1 DEF Step, First, arg
<1>14. AgreeOK'
  BY <1>0, <1>7, <1>12, <1>13, Zenon DEF IInv, AgreeOK, Connected, activityVars
<1> QED
  BY <1>4, <1>6, <1>8, <1>10, <1>11, <1>14, Zenon DEF IInv

\* conn_fd is set: the activity of that socket has been told nothing yet.
LEMMA FdIInv ==
  ASSUME IInv, SetFd
  PROVE  IInv'
<1> USE BoundsAssumption
<1>1. PICK s \in Socket :
        /\ Step(work, "fd", s, <<SendState, Do("register", screen)>>)
        /\ conn_fd' = s
        /\ work' = <<SendState, Do("register", screen)>>
        /\ Step(work', "send", Plain("state"), <<Do("register", screen)>>)
  BY FdStep, Zenon DEF IInv
<1>2. /\ raced' = (raced \/ conn_fd # 0)
      /\ UNCHANGED <<registeredBuffers, queue, devices, hangup, screen, fresh,
                     works, activityVars, socketVars>>
  BY Zenon DEF SetFd
<1>3. WorkOK'
  BY <1>1, <1>2, Zenon DEF WorkOK
<1>4. TypeOK'
  BY <1>1, <1>2, <1>3, WorkTypesNext, Zenon DEF IInv, TypeOK, WorkTyped, activityVars, socketVars
<1>5. StreamOK'
  BY <1>2, Zenon DEF IInv, StreamOK, socketVars
<1>6. /\ Taken(s) /\ work # <<>> /\ \A t : ~Taken(t)'
      /\ ~First("list")' /\ ~First("unlist")' /\ ~Listing'
  BY <1>1 DEF Taken, Listing, First, arg, Step, Plain
<1>7. QueueOK'
  BY <1>1, <1>2, <1>6, Zenon DEF IInv, QueueOK, socketVars
<1>8. s # 0 /\ (activity_fd = s => Waiting(activity_fd))
  BY <1>6 DEF Waiting, Socket
<1>9. ActivityOK'
  BY <1>1, <1>2, <1>6, <1>8, Zenon DEF IInv, ActivityOK, Waiting, Connected, activityVars, socketVars
<1>10. HangUpOK'
  BY <1>1, <1>2, <1>6, <1>8, Zenon DEF IInv, TypeOK, HangUpOK
<1>11. ScreenLast'
  BY <1>1, <1>2 DEF ScreenLast, Step
<1>12. ScreenOK'
  BY <1>2, <1>11, Zenon DEF IInv, ScreenOK
<1>13. AgreeOK'
  <2> SUFFICES ASSUME activity_fd = s, raced = FALSE, hangup = "none", conn_fd = 0
               PROVE  Received' = {} /\ registeredBuffers' = {}
    BY <1>1, <1>2, <1>6, Zenon DEF IInv, TypeOK, HangUpOK, AgreeOK, Connected, activityVars
  <2>1. stream'[activity_fd'] = <<>> /\ buffers' = {}
    BY <1>2, <1>8, Zenon DEF IInv, ActivityOK, activityVars, socketVars
  <2>2. Received' = {}
    BY <2>1, AfterNothing DEF Received
  <2>3. registeredBuffers' = {}
    BY <1>2 DEF IInv, HangUpOK
  <2> QED BY <2>2, <2>3
<1> QED
  BY <1>3, <1>4, <1>5, <1>7, <1>9, <1>10, <1>12, <1>13, Zenon DEF IInv

\* A message that is sent comes to the activity behind what it has been sent.
LEMMA SendIInv ==
  ASSUME IInv, Send
  PROVE  IInv'
<1> USE BoundsAssumption
<1>0. /\ First("send")
      /\ stream' = IF conn_fd \in serverEnd \cap activityEnd
                   THEN [stream EXCEPT ![conn_fd] = Append(@, arg)]
                   ELSE stream
      /\ UNCHANGED <<conn_fd, registeredBuffers, queue, devices, hangup, screen, fresh,
                     works, raced, activityVars, serverEnd, activityEnd, used>>
  BY Zenon DEF Send
<1>1. \/ /\ Step(work, "send", Plain("state"), <<Do("register", screen)>>)
         /\ work' = <<Do("register", screen)>>
         /\ Step(work', "register", screen, <<>>)
      \/ \E b \in Buffer :
           /\ Step(work, "send", [type |-> "add", id |-> b], <<Do("list", b)>>)
           /\ work' = <<Do("list", b)>>
           /\ Step(work', "list", b, <<>>)
      \/ \E b \in Buffer \ {screen} : \E rest \in {<<>>, <<Do("register", screen)>>} :
           /\ Step(work, "send", [type |-> "remove", id |-> b], <<Do("unlist", b)>> \o rest)
           /\ work' = <<Do("unlist", b)>> \o rest
           /\ Step(work', "unlist", b, rest)
      \/ \E type \in {"clipboard", "focus"} :
           Step(work, "send", Plain(type), <<>>) /\ work' = <<>>
  BY SendStep, Zenon DEF IInv
<1>2. /\ arg \in Message
      /\ arg.type \in {"add", "remove"} => arg.id \in Buffer
  <2>1. \/ arg = Plain("state")
        \/ \E b \in Buffer : arg = [type |-> "add", id |-> b] \/ arg = [type |-> "remove", id |-> b]
        \/ \E type \in {"clipboard", "focus"} : arg = Plain(type)
    BY <1>1, Zenon DEF Step, arg
  <2> QED BY <2>1 DEF Plain, Message
<1>3. WorkOK'
  <2>1. \/ work' = <<>>
        \/ work' = <<Do("register", screen)>>
        \/ \E b \in Buffer : work' = <<Do("list", b)>>
        \/ \E b \in Buffer \ {screen} :
             work' = <<Do("unlist", b)>> \/ work' = <<Do("unlist", b), Do("register", screen)>>
    <3>1. \A b : /\ <<Do("unlist", b)>> \o <<>> = <<Do("unlist", b)>>
                 /\ <<Do("unlist", b)>> \o <<Do("register", screen)>>
                      = <<Do("unlist", b), Do("register", screen)>>
      BY Join, ZenonT(30)
    <3> QED BY <1>1, <3>1, Zenon
  <2>2. screen \in Buffer /\ screen' = screen
    BY <1>0, Zenon DEF IInv, TypeOK
  <2> QED BY <2>1, <2>2, Zenon DEF WorkOK, Registering, Unregistering, Replacing
<1>4. stream' \in [Socket -> Seq(Message)]
  <2>1. \A q \in Seq(Message) : Append(q, arg) \in Seq(Message)
    BY <1>2
  <2> QED BY <1>0, <2>1, Zenon DEF IInv, TypeOK
<1>5. TypeOK'
  BY <1>0, <1>3, <1>4, WorkTypesNext, Zenon DEF IInv, TypeOK, WorkTyped, activityVars
<1>6. conn_fd \in serverEnd \cap activityEnd <=> Connected
  <2>1. conn_fd \in activityEnd <=> Connected
    BY DEF IInv, ActivityOK, Connected
  <2> QED BY <2>1, Zenon DEF IInv, ActivityOK, Connected
<1>7. /\ Connected => /\ conn_fd \in Socket /\ conn_fd = activity_fd /\ conn_fd # 0
                      /\ stream' = [stream EXCEPT ![activity_fd] = Append(stream[activity_fd], arg)]
      /\ ~Connected => stream' = stream
  BY <1>0, <1>6, Zenon DEF IInv, TypeOK, Connected
<1>8. StreamOK'
  <2>1. CASE ~Connected
    BY <1>7, <2>1, Zenon DEF IInv, StreamOK
  <2>2. CASE Connected
    <3> DEFINE q == stream[activity_fd]
    <3>1. /\ q \in Seq(Message) /\ stream'[activity_fd] = Append(q, arg)
          /\ \A s \in Socket : s # activity_fd => stream'[s] = stream[s]
      BY <1>7, <2>2, Zenon DEF IInv, TypeOK
    <3>2. \A i \in 1..Len(q) : q[i].type \in {"add", "remove"} => q[i].id \in Buffer
      BY <1>7, <2>2, Zenon DEF IInv, StreamOK
    <3> HIDE DEF q
    <3>3. \A i \in 1..Len(Append(q, arg)) :
            Append(q, arg)[i].type \in {"add", "remove"} => Append(q, arg)[i].id \in Buffer
      BY <1>2, <3>1, <3>2
    <3> QED BY <3>1, <3>3, Zenon DEF IInv, StreamOK
  <2> QED BY <2>1, <2>2
<1>9. \A t : ~Taken(t)' /\ ~Taken(t)
  BY <1>0, <1>1, Zenon DEF Taken, First, arg, Step
<1>10. QueueOK'
  BY <1>0, <1>9, Zenon DEF IInv, QueueOK
<1>11. ActivityOK'
  <2>1. \A t : Waiting(t)' <=> Waiting(t)
    BY <1>0, <1>9, Zenon DEF Waiting
  <2>2. Connected => ~Waiting(activity_fd)
    <3>1. ASSUME NEW i \in 1..Len(queue), queue[i] = activity_fd, Connected
          PROVE  FALSE
      <4>1. conn_fd < queue[i] /\ conn_fd \in Nat
        BY DEF IInv, TypeOK, QueueOK, Socket
      <4> QED BY <3>1, <4>1 DEF Connected
    <3> QED BY <1>9, <3>1, Zenon DEF Waiting
  <2>3. \A s \in Socket : s # activity_fd => stream'[s] = stream[s]
    BY <1>7, Zenon DEF IInv, TypeOK
  <2>4. ~Connected => stream' = stream
    BY <1>7, Zenon
  <2>5. Connected' <=> Connected
    BY <1>0, Zenon DEF Connected, activityVars
  <2> QED BY <1>0, <2>1, <2>2, <2>3, <2>4, <2>5, Zenon DEF IInv, ActivityOK, activityVars
<1>12. Listing' => Listing
  <2>1. \A b : /\ [type |-> "add", id |-> b].type = "add"
               /\ [type |-> "remove", id |-> b].type = "remove"
    OBVIOUS
  <2> QED BY <1>1, <2>1, ZenonT(30) DEF Listing, First, arg, Step
<1>13. HangUpOK'
  BY <1>0, <1>12, Zenon DEF IInv, TypeOK, HangUpOK, First
<1>14. ScreenLast => ScreenLast'
  <2>1. ASSUME Step(work, "send", Plain("state"), <<Do("register", screen)>>),
               work' = <<Do("register", screen)>>
        PROVE  ScreenLast'
    BY <1>0, <2>1 DEF ScreenLast
  <2>2. ASSUME NEW b \in Buffer, work' = <<Do("list", b)>>, ScreenLast,
               Step(work, "send", [type |-> "add", id |-> b], <<Do("list", b)>>)
        PROVE  ScreenLast'
    BY <1>0, <2>2 DEF ScreenLast, Step, Do
  <2>3. ASSUME NEW b \in Buffer, NEW rest \in {<<>>, <<Do("register", screen)>>}, ScreenLast,
               Step(work, "send", [type |-> "remove", id |-> b], <<Do("unlist", b)>> \o rest),
               work' = <<Do("unlist", b)>> \o rest
        PROVE  ScreenLast'
    <3>1. work' # <<>>
      BY <2>3
    <3>2. work[Len(work)] = work'[Len(work')]
      BY <2>3, <3>1, Zenon DEF Step
    <3> QED BY <1>0, <2>3, <3>1, <3>2, Zenon DEF ScreenLast
  <2>4. ASSUME NEW type, Step(work, "send", Plain(type), <<>>), ScreenLast
        PROVE  FALSE
    BY <2>4 DEF ScreenLast, Step, Do
  <2> QED BY <1>1, <2>1, <2>2, <2>3, <2>4, Zenon
<1>15. ScreenOK'
  BY <1>0, <1>14, Zenon DEF IInv, ScreenOK
<1>16. Connected => Received' = Handle(Received, arg)
  <2> SUFFICES ASSUME Connected PROVE Received' = Handle(Received, arg)
    OBVIOUS
  <2>1. /\ stream'[activity_fd'] = Append(stream[activity_fd], arg) /\ buffers' = buffers
        /\ stream[activity_fd] \in Seq(Message) /\ buffers \in SUBSET Buffer
    BY <1>0, <1>7, Zenon DEF IInv, TypeOK, activityVars
  <2> QED BY <1>2, <2>1, AfterAppend DEF Received
<1>17. AgreeOK'
  <2> SUFFICES ASSUME Connected, raced = FALSE, torn = FALSE
               PROVE  Received' = IF First("list")' THEN registeredBuffers \cup {arg'}
                                  ELSE IF First("unlist")' THEN registeredBuffers \ {arg'}
                                  ELSE registeredBuffers
    BY <1>0, Zenon DEF AgreeOK, Connected, activityVars
  <2>1. Received = registeredBuffers /\ Received' = Handle(registeredBuffers, arg)
    <3>1. ~First("list") /\ ~First("unlist")
      BY <1>0 DEF First
    <3> QED BY <1>16, <3>1, Zenon DEF IInv, AgreeOK
  <2>2. ASSUME arg.type \notin {"add", "remove"}, ~First("list")', ~First("unlist")'
        PROVE  Received' = registeredBuffers
    BY <2>1, <2>2 DEF Handle
  <2>3. ASSUME NEW b, arg = [type |-> "add", id |-> b]
        PROVE  Received' = registeredBuffers \cup {b}
    BY <2>1, <2>3 DEF Handle
  <2>4. ASSUME NEW b, arg = [type |-> "remove", id |-> b]
        PROVE  Received' = registeredBuffers \ {b}
    BY <2>1, <2>4 DEF Handle
  <2>5. \/ arg.type \notin {"add", "remove"} /\ ~First("list")' /\ ~First("unlist")'
        \/ \E b : arg = [type |-> "add", id |-> b] /\ First("list")' /\ arg' = b
        \/ \E b : arg = [type |-> "remove", id |-> b] /\ ~First("list")' /\ First("unlist")' /\ arg' = b
    <3>1. \A type : Plain(type).type = type
      BY DEF Plain
    <3> QED BY <1>1, <3>1, ZenonT(30) DEF Step, First, arg
  <2> QED BY <2>2, <2>3, <2>4, <2>5, Zenon
<1> QED
  BY <1>3, <1>5, <1>8, <1>10, <1>11, <1>13, <1>15, <1>17, Zenon DEF IInv

-----------------------------------------------------------------------------
(* The input thread's hang-up, and a new server. *)

\* Only a socket that the activity has let go is hung up on.
LEMMA HangUpCloseIInv ==
  ASSUME IInv, NEW s \in Socket, HangUpClose(s)
  PROVE  IInv'
<1>1. /\ hangup = "none" /\ s \in devices \ activityEnd
      /\ devices' = devices \ {s} /\ serverEnd' = serverEnd \ {s} /\ hangup' = "closed"
      /\ work' = work /\ raced' = (raced \/ work # <<>> \/ conn_fd \notin {0, s})
      /\ UNCHANGED <<conn_fd, registeredBuffers, queue, screen, fresh, works,
                     activityVars, activityEnd, stream, used>>
  BY Zenon DEF HangUpClose
<1>2. /\ WorkOK' /\ Listing' = Listing /\ ScreenLast' = ScreenLast
      /\ \A t : Taken(t)' = Taken(t)
      /\ arg' = arg /\ \A op : First(op)' = First(op)
  BY <1>1, Zenon DEF IInv, WorkOK, Accepting, Registering, Unregistering, Replacing, Noticing,
                    Listing, ScreenLast, Taken, First, arg
<1>3. TypeOK'
  BY <1>1, <1>2, WorkTypesNext, Zenon DEF IInv, TypeOK, WorkTyped, activityVars
<1>4. StreamOK' /\ QueueOK'
  BY <1>1, <1>2, Zenon DEF IInv, StreamOK, QueueOK
<1>5. activity_fd # 0 => activity_fd # s
  BY <1>1, Zenon DEF IInv, ActivityOK
<1>6. ActivityOK'
  BY <1>1, <1>2, <1>5, Zenon DEF IInv, ActivityOK, Waiting, Connected, activityVars
<1>7. HangUpOK'
  BY <1>1, <1>2, Zenon DEF IInv, TypeOK, HangUpOK
<1>8. ScreenOK'
  BY <1>1, <1>2, Zenon DEF IInv, TypeOK, ScreenOK
<1>9. Received' = Received
  BY <1>1, SameReceived, Zenon DEF activityVars
<1>10. AgreeOK'
  BY <1>1, <1>2, <1>9, Zenon DEF IInv, TypeOK, AgreeOK, Connected, activityVars
<1> QED
  BY <1>2, <1>3, <1>4, <1>6, <1>7, <1>8, <1>10, Zenon DEF IInv

\* The connection is forgotten ...
LEMMA HangUpFdIInv ==
  ASSUME IInv, HangUpFd
  PROVE  IInv'
<1> USE BoundsAssumption
<1>1. /\ hangup = "closed" /\ conn_fd' = 0 /\ hangup' = "cleared"
      /\ UNCHANGED <<registeredBuffers, work, queue, devices, screen, fresh,
                     works, raced, activityVars, socketVars>>
  BY Zenon DEF HangUpFd
<1>2. /\ WorkOK' /\ ScreenLast' = ScreenLast
      /\ \A t : Taken(t)' = Taken(t)
  BY <1>1, Zenon DEF IInv, WorkOK, Accepting, Registering, Unregistering, Replacing, Noticing,
                    ScreenLast, Taken, First, arg
<1>3. TypeOK'
  BY <1>1, <1>2, WorkTypesNext, Zenon DEF IInv, TypeOK, WorkTyped, activityVars, socketVars
<1>4. StreamOK'
  BY <1>1, Zenon DEF IInv, StreamOK, socketVars
<1>5. QueueOK'
  <2>1. /\ 0 <= used
        /\ \A i \in 1..Len(queue) : 0 < queue[i]
        /\ \A t \in Socket : 0 < t
    <3>1. \A i \in 1..Len(queue) : queue[i] \in Socket
      BY DEF IInv, TypeOK
    <3> QED BY <3>1 DEF IInv, TypeOK, Socket
  <2> QED BY <1>1, <1>2, <2>1, Zenon DEF IInv, QueueOK, socketVars
<1>6. ActivityOK'
  BY <1>1, <1>2, Zenon DEF IInv, ActivityOK, Waiting, Connected, activityVars, socketVars
<1>7. HangUpOK'
  <2>1. raced = FALSE => work = <<>>
    BY <1>1 DEF IInv, HangUpOK
  <2>2. work = <<>> => ~Listing'
    BY <1>1, Zenon DEF Listing, First
  <2>3. hangup' # "none"
    BY <1>1
  <2> QED BY <1>1, <2>1, <2>2, <2>3, Zenon DEF HangUpOK
<1>8. ScreenOK' /\ AgreeOK'
  BY <1>1, <1>2, Zenon DEF IInv, ScreenOK, AgreeOK, Connected
<1> QED
  BY <1>2, <1>3, <1>4, <1>5, <1>6, <1>7, <1>8, Zenon DEF IInv

\* ... and then the list is emptied.
LEMMA HangUpListIInv ==
  ASSUME IInv, HangUpList
  PROVE  IInv'
<1>1. /\ hangup = "cleared" /\ registeredBuffers' = {} /\ hangup' = "none"
      /\ UNCHANGED <<conn_fd, work, queue, devices, screen, fresh, works, raced,
                     activityVars, socketVars>>
  BY Zenon DEF HangUpList
<1>2. WorkOK' /\ \A t : Taken(t)' = Taken(t)
  BY <1>1, Zenon DEF IInv, WorkOK, Accepting, Registering, Unregistering, Replacing, Noticing,
                    Taken, First, arg
<1>3. TypeOK'
  BY <1>1, <1>2, WorkTypesNext, Zenon DEF IInv, TypeOK, WorkTyped, activityVars, socketVars
<1>4. StreamOK' /\ QueueOK' /\ ActivityOK'
  BY <1>1, <1>2, SameSockets, Zenon
<1>5. raced = FALSE => conn_fd = 0 /\ work = <<>>
  <2>1. hangup # "none" /\ hangup = "cleared"
    BY <1>1
  <2> QED BY <2>1, Zenon DEF IInv, HangUpOK
<1>6. work = <<>> => ~Listing'
  BY <1>1, Zenon DEF Listing, First
<1>7. HangUpOK'
  BY <1>1, <1>5, <1>6, Zenon DEF HangUpOK
<1>8. ScreenOK' /\ AgreeOK'
  BY <1>1, <1>5, Zenon DEF IInv, ScreenOK, AgreeOK, Connected
<1> QED
  BY <1>2, <1>3, <1>4, <1>7, <1>8, Zenon DEF IInv

\* A new server has nothing to do and no connection.
LEMMA RestartIInv ==
  ASSUME IInv, Restart
  PROVE  IInv'
<1> USE BoundsAssumption
<1>1. /\ conn_fd' = 0 /\ registeredBuffers' = {} /\ work' = <<>>
      /\ queue' = <<>> /\ devices' = {} /\ hangup' = "none"
      /\ screen' \in Buffer /\ fresh' = Buffer \ {screen'}
      /\ serverEnd' = {} /\ works < MaxWork /\ works' = works + 1 /\ raced' = FALSE
      /\ UNCHANGED <<activityVars, activityEnd, stream, used>>
  BY Zenon DEF Restart
<1>2. \A op : ~First(op)'
  BY <1>1, Zenon DEF First
<1>3. WorkOK' /\ ~Listing' /\ \A t : ~Taken(t)'
  BY <1>1, <1>2, Zenon DEF WorkOK, Listing, Taken
<1>4. TypeOK'
  <2>1. works' \in 0..MaxWork
    BY <1>1 DEF IInv, TypeOK
  <2>2. /\ <<>> \in Seq(Socket)
        /\ \A S : {} \in SUBSET S
        /\ Buffer \ {screen'} \in SUBSET Buffer
        /\ "none" \in {"none", "closed", "cleared"} /\ FALSE \in BOOLEAN
    OBVIOUS
  <2> QED BY <1>1, <1>3, <2>1, <2>2, WorkTypesNext, Zenon DEF IInv, TypeOK, WorkTyped, activityVars
<1>5. Len(queue') = 0 /\ 0 <= used
  BY <1>1 DEF IInv, TypeOK
<1>6. StreamOK' /\ QueueOK'
  <2>1. \A i : i \notin 1..Len(queue')
    BY <1>5
  <2> QED BY <1>1, <1>3, <1>5, <2>1, Zenon DEF IInv, StreamOK, QueueOK
<1>7. ActivityOK'
  <2>1. \A i : i \notin 1..Len(queue')
    BY <1>5
  <2> QED BY <1>1, <1>3, <2>1, Zenon DEF IInv, ActivityOK, Waiting, Connected, activityVars
<1>8. HangUpOK' /\ ScreenOK' /\ AgreeOK'
  BY <1>1, <1>3, Zenon DEF HangUpOK, ScreenOK, AgreeOK, Connected
<1> QED
  BY <1>3, <1>4, <1>6, <1>7, <1>8, Zenon DEF IInv

-----------------------------------------------------------------------------
(* The activity. *)

\* A new pair of sockets is younger than all before it.
LEMMA TryConnectIInv ==
  ASSUME IInv, tryConnect
  PROVE  IInv'
<1> USE BoundsAssumption
<1> DEFINE s == used + 1
<1>1. /\ activity_fd = 0 /\ used < MaxConnections
      /\ used' = s /\ activity_fd' = s /\ queue' = Append(queue, s)
      /\ serverEnd' = serverEnd \cup {s} /\ activityEnd' = activityEnd \cup {s}
      /\ UNCHANGED <<conn_fd, registeredBuffers, work, devices, hangup, screen,
                     fresh, works, raced, state, buffers, torn, stream>>
  BY Zenon DEF tryConnect
<1>2. /\ WorkOK' /\ Listing' = Listing /\ ScreenLast' = ScreenLast
      /\ \A t : Taken(t)' = Taken(t)
  BY <1>1, Zenon DEF IInv, WorkOK, Accepting, Registering, Unregistering, Replacing, Noticing,
                    Listing, ScreenLast, Taken, First, arg
<1>3. s \in Socket /\ s \in 0..MaxConnections /\ s # 0 /\ used < s /\ used \in Nat
  BY <1>1 DEF IInv, TypeOK, Socket
<1>4. TypeOK'
  <2>1. queue' \in Seq(Socket)
    BY <1>1, <1>3 DEF IInv, TypeOK
  <2> QED BY <1>1, <1>2, <1>3, <2>1, WorkTypesNext, Zenon DEF IInv, TypeOK, WorkTyped
<1>5. StreamOK'
  BY <1>1, Zenon DEF IInv, StreamOK
<1>6. /\ queue \in Seq(Socket) /\ conn_fd \in Nat
      /\ Len(queue') = Len(queue) + 1 /\ Len(queue) \in Nat /\ queue'[Len(queue) + 1] = s
      /\ \A i \in 1..Len(queue) : queue'[i] = queue[i] /\ queue[i] \in Nat
  <2>1. queue \in Seq(Socket) /\ conn_fd \in Socket \cup {0}
    BY DEF IInv, TypeOK
  <2> QED BY <1>1, <1>3, <2>1 DEF Socket
<1> HIDE DEF s
<1>7. QueueOK'
  <2>1. conn_fd' <= used' /\ conn_fd < s
    BY <1>1, <1>3, <1>6 DEF IInv, QueueOK
  <2>2. ASSUME NEW i \in 1..Len(queue')
        PROVE  conn_fd' < queue'[i] /\ queue'[i] <= used'
    BY <1>1, <1>3, <1>6, <2>1 DEF IInv, QueueOK
  <2>3. ASSUME NEW i \in 1..Len(queue'), NEW j \in 1..Len(queue'), i < j
        PROVE  queue'[i] < queue'[j]
    <3>1. i \in 1..Len(queue) /\ (j \in 1..Len(queue) \/ j = Len(queue) + 1)
      BY <1>6, <2>3
    <3>2. /\ queue[i] \in Nat /\ queue[i] <= used
          /\ j \in 1..Len(queue) => queue[i] < queue[j]
      BY <1>6, <2>3, <3>1, Zenon DEF IInv, QueueOK
    <3> QED BY <1>3, <1>6, <3>1, <3>2
  <2>4. ASSUME NEW t \in Socket, Taken(t)
        PROVE  /\ conn_fd' < t /\ t <= used'
               /\ \A i \in 1..Len(queue') : t < queue'[i]
    <3>1. conn_fd < t /\ t <= used /\ \A i \in 1..Len(queue) : t < queue[i]
      BY <2>4, Zenon DEF IInv, QueueOK
    <3> QED BY <1>1, <1>3, <1>6, <3>1 DEF Socket
  <2> QED BY <1>2, <2>1, <2>2, <2>3, <2>4, Zenon DEF QueueOK
<1>8. conn_fd # s
  BY <1>3, <1>6 DEF IInv, QueueOK
<1>9. s <= used'
  BY <1>1, <1>3
<1>10. ActivityOK'
  <2>1. activityEnd = {} /\ buffers = {} /\ torn = FALSE
    BY <1>1, Zenon DEF IInv, ActivityOK
  <2>2. \A t \in Socket : stream[t] = <<>>
    <3>1. \A t \in Socket : t # 0
      BY DEF Socket
    <3> QED BY <1>1, <3>1, Zenon DEF IInv, ActivityOK
  <2>3. /\ activityEnd' = {activity_fd'} \ {0} /\ activity_fd' # 0 /\ activity_fd' \in serverEnd'
        /\ activity_fd' \in Socket /\ activity_fd' <= used'
    BY <1>1, <1>3, <1>9, <2>1, Zenon
  <2> QED BY <1>1, <2>1, <2>2, <2>3, Zenon DEF ActivityOK
<1>11. HangUpOK' /\ ScreenOK'
  BY <1>1, <1>2, Zenon DEF IInv, HangUpOK, ScreenOK
<1>12. AgreeOK'
  BY <1>1, <1>8, Zenon DEF AgreeOK, Connected
<1> QED
  BY <1>2, <1>4, <1>5, <1>7, <1>10, <1>11, <1>12, Zenon DEF IInv

\* An activity that lets its socket go forgets what came through it.
LEMMA DisconnectIInv ==
  ASSUME IInv, Disconnect
  PROVE  IInv'
<1> USE BoundsAssumption
<1>1. /\ activity_fd # 0 /\ activityEnd' = activityEnd \ {activity_fd}
      /\ stream' = [stream EXCEPT ![activity_fd] = <<>>]
      /\ activity_fd' = 0 /\ state' = FALSE /\ buffers' = {} /\ torn' = FALSE
      /\ UNCHANGED <<serverVars, serverEnd, used>>
  BY Zenon DEF Disconnect
<1>2. UNCHANGED <<conn_fd, registeredBuffers, work, queue, devices, hangup, screen, fresh,
                  works, raced, serverEnd, used>>
  BY <1>1, Zenon DEF serverVars
<1>3. /\ WorkOK' /\ Listing' = Listing /\ ScreenLast' = ScreenLast
      /\ \A t : Taken(t)' = Taken(t)
  BY <1>2, Zenon DEF IInv, WorkOK, Accepting, Registering, Unregistering, Replacing, Noticing,
                    Listing, ScreenLast, Taken, First, arg
<1>4. \A t \in Socket : stream'[t] = <<>>
  BY <1>1, Zenon DEF IInv, TypeOK, ActivityOK
<1>5. TypeOK'
  <2>1. stream' \in [Socket -> Seq(Message)]
    BY <1>1 DEF IInv, TypeOK
  <2>2. {} \in SUBSET Buffer /\ FALSE \in BOOLEAN /\ activityEnd' \in SUBSET Socket
    BY <1>1 DEF IInv, TypeOK
  <2> QED BY <1>1, <1>2, <1>3, <2>1, <2>2, WorkTypesNext, Zenon DEF IInv, TypeOK, WorkTyped
<1>6. StreamOK'
  <2>1. \A i : i \notin 1..Len(<<>>)
    OBVIOUS
  <2> QED BY <1>4, <2>1, Zenon DEF StreamOK
<1>7. QueueOK' /\ HangUpOK' /\ ScreenOK'
  BY <1>2, <1>3, Zenon DEF IInv, QueueOK, HangUpOK, ScreenOK
<1>8. ActivityOK'
  <2>1. 0 <= used
    BY DEF IInv, TypeOK
  <2>2. activityEnd' = {}
    BY <1>1, Zenon DEF IInv, ActivityOK
  <2> QED BY <1>1, <1>2, <1>4, <2>1, <2>2, Zenon DEF ActivityOK
<1>9. AgreeOK'
  BY <1>1, Zenon DEF AgreeOK, Connected
<1> QED
  BY <1>3, <1>5, <1>6, <1>7, <1>8, <1>9, Zenon DEF IInv

\* xcallback() handles the first message that has come; what the activity
\* will know in the end is the same, unless the stream falls out of step.
LEMMA XcallbackIInv ==
  ASSUME IInv, xcallback
  PROVE  IInv'
<1> USE BoundsAssumption
<1> DEFINE q == stream[activity_fd]
<1>1. /\ activity_fd # 0 /\ q # <<>>
      /\ stream' = [stream EXCEPT ![activity_fd] = Tail(q)]
      /\ torn' = (torn \/ (Head(q).type = "clipboard" /\ Tail(q) # <<>>))
      /\ state' = (state \/ (~torn /\ Head(q).type = "state"))
      /\ buffers' = IF torn THEN buffers ELSE Handle(buffers, Head(q))
      /\ UNCHANGED <<serverVars, activity_fd, serverEnd, activityEnd, used>>
  BY Zenon DEF xcallback
<1>2. UNCHANGED <<conn_fd, registeredBuffers, work, queue, devices, hangup, screen, fresh,
                  works, raced, activity_fd, serverEnd, activityEnd, used>>
  BY <1>1, Zenon DEF serverVars
<1>3. /\ WorkOK' /\ Listing' = Listing /\ ScreenLast' = ScreenLast
      /\ \A t : Taken(t)' = Taken(t)
      /\ arg' = arg /\ \A op : First(op)' = First(op)
  BY <1>2, Zenon DEF IInv, WorkOK, Accepting, Registering, Unregistering, Replacing, Noticing,
                    Listing, ScreenLast, Taken, First, arg
<1>4. /\ activity_fd \in Socket /\ q \in Seq(Message) /\ buffers \in SUBSET Buffer
      /\ \A i \in 1..Len(q) : q[i].type \in {"add", "remove"} => q[i].id \in Buffer
      /\ stream'[activity_fd] = Tail(q)
      /\ \A t \in Socket : t # activity_fd => stream'[t] = stream[t]
  BY <1>1, Zenon DEF IInv, TypeOK, StreamOK
<1> HIDE DEF q
<1>5. /\ Tail(q) \in Seq(Message) /\ Head(q) = q[1] /\ 1 \in 1..Len(q)
      /\ \A i \in 1..Len(Tail(q)) : i + 1 \in 1..Len(q) /\ Tail(q)[i] = q[i + 1]
  BY <1>1, <1>4
<1>6. Handle(buffers, Head(q)) \in SUBSET Buffer
  <2>1. Head(q).type \in {"add", "remove"} => Head(q).id \in Buffer
    BY <1>4, <1>5, Zenon
  <2> QED BY <1>4, <2>1 DEF Handle
<1>7. TypeOK'
  <2>1. stream' \in [Socket -> Seq(Message)]
    BY <1>1, <1>5, Zenon DEF IInv, TypeOK
  <2>2. torn' \in BOOLEAN /\ state' \in BOOLEAN /\ buffers' \in SUBSET Buffer
    BY <1>1, <1>4, <1>6, Zenon
  <2> QED BY <1>2, <1>3, <2>1, <2>2, WorkTypesNext, Zenon DEF IInv, TypeOK, WorkTyped
<1>8. StreamOK'
  <2>1. \A i \in 1..Len(Tail(q)) :
          Tail(q)[i].type \in {"add", "remove"} => Tail(q)[i].id \in Buffer
    BY <1>4, <1>5, Zenon
  <2> QED BY <1>4, <2>1, Zenon DEF IInv, StreamOK
<1>9. QueueOK' /\ HangUpOK' /\ ScreenOK'
  BY <1>2, <1>3, Zenon DEF IInv, QueueOK, HangUpOK, ScreenOK
<1>10. ActivityOK'
  <2>1. ~Waiting(activity_fd) /\ \A t : Waiting(t)' = Waiting(t)
    BY <1>1, <1>2, <1>3, Zenon DEF IInv, ActivityOK, Waiting, q
  <2> QED BY <1>1, <1>2, <1>4, <2>1, Zenon DEF IInv, ActivityOK, Connected
<1>11. AgreeOK'
  <2> SUFFICES ASSUME torn' = FALSE
               PROVE  torn = FALSE /\ Received' = Received
    BY <1>2, <1>3, Zenon DEF IInv, AgreeOK, Connected
  <2>1. torn = FALSE
    BY <1>1, Zenon DEF IInv, TypeOK
  <2>2. Received' = After(Handle(buffers, Head(q)), Tail(q))
    BY <1>1, <1>2, <1>4, <2>1, Zenon DEF Received
  <2>3. After(Handle(buffers, Head(q)), Tail(q)) = After(buffers, q)
    BY <1>1, <1>4, AfterHead
  <2> QED BY <2>1, <2>2, <2>3, Zenon DEF Received, q
<1> QED
  BY <1>3, <1>7, <1>8, <1>9, <1>10, <1>11, Zenon DEF IInv

-----------------------------------------------------------------------------
(* The theorems. *)

\* Before anything happens, nothing is connected, listed or under way.
LEMMA InitIInv ==
  ASSUME Init
  PROVE  IInv
<1> USE BoundsAssumption
<1>1. /\ conn_fd = 0 /\ registeredBuffers = {} /\ work = <<>> /\ queue = <<>>
      /\ devices = {} /\ hangup = "none"
      /\ screen \in Buffer /\ fresh = Buffer \ {screen}
      /\ activity_fd = 0 /\ state = FALSE /\ buffers = {} /\ torn = FALSE
      /\ serverEnd = {} /\ activityEnd = {}
      /\ stream = [s \in Socket |-> <<>>]
      /\ used = 0 /\ works = 0 /\ raced = FALSE
  BY Zenon DEF Init
<1>2. WorkOK /\ \A op : ~First(op)
  BY <1>1, Zenon DEF WorkOK, First
<1>3. ~Listing /\ \A t : ~Taken(t)
  BY <1>2, Zenon DEF Listing, Taken
<1>4. TypeOK
  <2>1. /\ <<>> \in Seq(Socket) /\ <<>> \in Seq(Message)
        /\ \A S : {} \in SUBSET S
        /\ Buffer \ {screen} \in SUBSET Buffer
        /\ "none" \in {"none", "closed", "cleared"} /\ FALSE \in BOOLEAN
        /\ 0 \in 0..MaxConnections /\ 0 \in 0..MaxWork
    OBVIOUS
  <2> QED BY <1>1, <1>2, <2>1, WorkTypes, Zenon DEF TypeOK, WorkTyped
<1>5. \A i : i \notin 1..Len(<<>>)
  OBVIOUS
<1>6. StreamOK
  BY <1>1, <1>5, Zenon DEF StreamOK
<1>7. 0 <= 0
  OBVIOUS
<1>8. QueueOK /\ ActivityOK
  BY <1>1, <1>3, <1>5, <1>7, Zenon DEF QueueOK, ActivityOK
<1>9. HangUpOK /\ ScreenOK /\ AgreeOK
  BY <1>1, <1>3, Zenon DEF HangUpOK, ScreenOK, AgreeOK, Connected
<1> QED BY <1>2, <1>4, <1>6, <1>8, <1>9, Zenon DEF IInv

\* Every step preserves the invariant.
LEMMA NextIInv ==
  ASSUME IInv, [Next]_vars
  PROVE  IInv'
<1>1. CASE addFd
  BY <1>1, AddFdIInv, Zenon
<1>2. CASE MainWork
  BY <1>2, MainWorkIInv, Zenon
<1>3. CASE MainStep
  BY <1>3, WatchIInv, FdIInv, SendIInv, RegisterIInv, UnregisterIInv, ListIInv, Zenon DEF MainStep
<1>4. CASE InputStep
  BY <1>4, HangUpCloseIInv, HangUpFdIInv, HangUpListIInv, Zenon DEF InputStep
<1>5. CASE Restart \/ tryConnect \/ Disconnect \/ xcallback
  BY <1>5, RestartIInv, TryConnectIInv, DisconnectIInv, XcallbackIInv, Zenon
<1>6. CASE UNCHANGED vars
  <2>1. UNCHANGED <<conn_fd, registeredBuffers, work, queue, devices, hangup, screen, fresh,
                    works, raced, activity_fd, state, buffers, torn,
                    serverEnd, activityEnd, stream, used>>
    BY <1>6, Zenon DEF vars, serverVars, activityVars, socketVars
  <2>2. WorkOK'
    BY <2>1, Zenon DEF IInv, WorkOK, Accepting, Registering, Unregistering, Replacing, Noticing
  <2>3. TypeOK'
    BY <2>1, Zenon DEF IInv, TypeOK
  <2>4. StreamOK' /\ QueueOK'
    BY <2>1, Zenon DEF IInv, StreamOK, QueueOK, Taken, First, arg
  <2>5. ActivityOK' /\ HangUpOK' /\ ScreenOK' /\ AgreeOK'
    BY <2>1, ZenonT(30) DEF IInv, ActivityOK, Waiting, Taken, Connected, HangUpOK, Listing, ScreenOK,
                      ScreenLast, AgreeOK, Received, First, arg
  <2> QED BY <2>2, <2>3, <2>4, <2>5, Zenon DEF IInv
<1> QED BY <1>1, <1>2, <1>3, <1>4, <1>5, <1>6, Zenon DEF Next

\* The inductive invariant of the connection.
THEOREM Invariance == Spec => []IInv
<1>1. Init => IInv
  BY InitIInv
<1>2. IInv /\ [Next]_vars => IInv'
  BY NextIInv
<1> QED BY <1>1, <1>2, PTL DEF Spec

\* The descriptors, the lists of buffers, the main thread's work and the streams
\* have their types, however the two threads, the activity and restarts take
\* turns (handleLorieEvents(), lorieRegisterBuffer(), xcallback()).
THEOREM TypeCorrect == Spec => []TypeOK
<1>1. IInv => TypeOK
  BY Zenon DEF IInv
<1> QED BY <1>1, Invariance, PTL

\* registeredBuffers agrees with what the activity has or has been sent, and
\* holds the screen's buffer, for any number of buffers, connections, hang-ups
\* and restarts (lorieRegisterBuffer(), lorieUnregisterBuffer(), xcallback()).
THEOREM BuffersAlwaysAgree == Spec => []BuffersAgree
<1>1. IInv => BuffersAgree
  <2> SUFFICES ASSUME IInv, Connected, work = <<>>, ~raced, ~torn
               PROVE  Received = registeredBuffers /\ screen \in registeredBuffers
    BY Zenon DEF BuffersAgree
  <2>1. raced = FALSE /\ torn = FALSE /\ conn_fd # 0
    BY Zenon DEF IInv, TypeOK, Connected
  <2>2. ~First("list") /\ ~First("unlist") /\ ~ScreenLast
    BY Zenon DEF First, ScreenLast
  <2> QED BY <2>1, <2>2, Zenon DEF IInv, ScreenOK, AgreeOK
<1> QED BY <1>1, Invariance, PTL

=============================================================================
