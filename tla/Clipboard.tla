----------------------------- MODULE Clipboard -----------------------------
(***************************************************************************)
(* The clipboard that X clients share with Android (clipboard.c, the       *)
(* clipboard events of cmdentrypoint.c and activity.c, LorieView.java).    *)
(*                                                                         *)
(* When a client takes the CLIPBOARD selection the server asks for its     *)
(* TARGETS, then for its text, and sends it to the activity, which puts it *)
(* into Android's clipboard.  The other direction is not modelled: what    *)
(* announces a copy in Android to the server, checkForClipboardChange(),   *)
(* is only called by a listener that nothing registers, since              *)
(* onWindowFocusChanged() is commented out (LorieView.java 916).  Hence    *)
(* the server never takes the selection.                                   *)
(***************************************************************************)
EXTENDS ClipboardText, Functions

CONSTANTS
    Client,
    Text,           \* texts, sequences of code points
    Truncated,      \* bytes a client offers, UTF-8 that is cut short
    MaxChanges,     \* bound on copies, exits, toggles, hang-ups and focus events
    NULL            \* no text, no owner

\* texts without NUL, of what UTF-8 can encode
ASSUME TextAssumption ==
    /\ Text \subseteq Seq(CodePoint)
    /\ \A b \in Truncated : ~lorieCheckUTF8(b, {})

VARIABLES
    \* the server
    owner,              \* the owner of CLIPBOARD
    clipboardEnabled,
    \* the clients
    offer,              \* what a client has to paste: its target and text
    asked,              \* the SelectionRequests sent to a client
    \* the activity
    connected, sync, clip,
    torn,               \* whether the stream is read out of step
    \* the socket
    toServer, toActivity,
    changes,
    overtaken,          \* a text was taken from a client that is not the owner
    disturbed,          \* the sync was off, or the connection lost
    copied              \* a text was copied in Android after the last from X

clientVars == <<offer, asked>>
activityVars == <<connected, sync, clip, torn>>
ghosts == <<overtaken, disturbed, copied>>
vars == <<owner, clipboardEnabled, clientVars, activityVars, toServer,
          toActivity, changes, ghosts>>

Target == {"TARGETS", "UTF8_STRING", "STRING"}

\* A client offers a text as UTF-8 or, where that can hold it, as Latin-1
Offer ==
    {[utf8 |-> ~IsLatin1(t), text |-> t,
      bytes |-> IF IsLatin1(t) THEN Latin1(t) ELSE UTF8(t)] : t \in Text}
        \cup {[utf8 |-> TRUE, text |-> NULL, bytes |-> b] : b \in Truncated}

\* the texts Android may have: the clients' come without carriage returns
ClipText == Text \cup {lorieConvertLF(t) : t \in Text} \cup {<<Replacement>>}
Encoded == [t \in ClipText |-> UTF8(t)]

ASSUME DistinctAssumption ==
    NULL \notin ClipText /\ NULL \notin Offer /\ NULL \notin Client

TypeOK ==
    /\ owner \in Client \cup {NULL}
    /\ clipboardEnabled \in BOOLEAN /\ connected \in BOOLEAN
    /\ sync \in BOOLEAN /\ torn \in BOOLEAN
    /\ clip \in ClipText \cup {NULL}
    /\ \A c \in Client : Range(asked[c]) \subseteq Target

Init ==
    /\ owner = NULL /\ clipboardEnabled = FALSE
    /\ offer = [c \in Client |-> NULL]
    /\ asked = [c \in Client |-> <<>>]
    /\ connected = TRUE /\ sync = TRUE /\ clip = NULL /\ torn = FALSE
    /\ toServer = <<TRUE>> /\ toActivity = <<>>
    /\ changes = 0
    /\ overtaken = FALSE /\ disturbed = FALSE /\ copied = FALSE

Change == changes < MaxChanges /\ changes' = changes + 1

ToActivity(m) ==
    toActivity' = IF connected THEN Append(toActivity, m) ELSE toActivity

-----------------------------------------------------------------------------
(***************************************************************************)
(* The server and its clients.                                             *)
(***************************************************************************)

\* a SelectionRequest to the owner, if the sync is enabled
lorieSelectionRequest(requests, own, target) ==
    IF clipboardEnabled /\ own \in Client
    THEN [requests EXCEPT ![own] = Append(@, target)] ELSE requests

(***************************************************************************)
(* SetSelectionOwner, and lorieSelectionCallback().  What was overtaken or *)
(* disturbed before does not matter to the new owner's text, unless the    *)
(* sync is, or is about to be, off.                                        *)
(***************************************************************************)
lorieSelectionCallback(c, o) ==
    /\ Change
    /\ owner' = c
    /\ offer' = [offer EXCEPT ![c] = o]
    /\ asked' = lorieSelectionRequest(asked, c, "TARGETS")
    /\ overtaken' = FALSE
    /\ disturbed' = (~clipboardEnabled \/ toServer # <<>>)
    /\ UNCHANGED <<clipboardEnabled, activityVars, toServer, toActivity,
                   copied>>

\* a client exits: the callback is not for a SelectionClientClose
ClientGone(c) ==
    /\ Change
    /\ owner' = IF owner = c THEN NULL ELSE owner
    /\ asked' = [asked EXCEPT ![c] = <<>>]
    /\ UNCHANGED <<clipboardEnabled, offer, activityVars, toServer, toActivity,
                   ghosts>>

\* the bytes of a text, which is kept with them for the properties
lorieSendClipboardData(bytes, text) ==
    ToActivity([type |-> "text", bytes |-> bytes, text |-> text])

(***************************************************************************)
(* A client answers: lorieProcSendEvent(), lorieHandleSelection().  The    *)
(* sender is not compared with the owner.                                  *)
(***************************************************************************)
Asked(c, target) == asked[c] # <<>> /\ Head(asked[c]) = target
Answered(c) == [asked EXCEPT ![c] = Tail(@)]

\* Mutant: the text is only asked for in UTF-8
MutantHandleTargets(c) ==
    /\ Asked(c, "TARGETS")
    /\ asked' = lorieSelectionRequest(Answered(c), owner, "UTF8_STRING")
    /\ UNCHANGED <<owner, clipboardEnabled, offer, activityVars, toServer,
                   toActivity, changes, ghosts>>

HandleTargets(c) ==
    /\ Asked(c, "TARGETS")
    /\ LET target == IF offer[c].utf8 THEN "UTF8_STRING" ELSE "STRING"
       IN  asked' = lorieSelectionRequest(Answered(c), owner, target)
    /\ UNCHANGED <<owner, clipboardEnabled, offer, activityVars, toServer,
                   toActivity, changes, ghosts>>

\* Mutant: bytes are passed on as they are, whatever their encoding
MutantFiltered(o) == lorieConvertLF(o.bytes)

\* what is sent of an offer
Filtered(o) ==
    IF o.utf8 THEN lorieConvertLF(o.bytes)
    ELSE lorieLatin1ToUTF8(lorieConvertLF(o.bytes))

(***************************************************************************)
(* An owner asked for a target that it does not have refuses.  The bytes   *)
(* after the property that look like the rest of a sequence are any.       *)
(***************************************************************************)
HandleText(c, past) ==
    /\ Asked(c, "UTF8_STRING") \/ Asked(c, "STRING")
    /\ asked' = Answered(c)
    /\ LET o == offer[c]
           given == clipboardEnabled
                        /\ o.utf8 = Asked(c, "UTF8_STRING")
                        /\ (o.utf8 => lorieCheckUTF8(o.bytes, past))
       IN  /\ IF given THEN lorieSendClipboardData(Filtered(o), o.text)
              ELSE UNCHANGED toActivity
           /\ overtaken' = (overtaken \/ (given /\ owner # c))
    /\ UNCHANGED <<owner, clipboardEnabled, offer, activityVars, toServer,
                   changes, disturbed, copied>>

\* a client that has lost the selection may refuse
Refuse(c) ==
    /\ asked[c] # <<>> /\ owner # c
    /\ asked' = Answered(c)
    /\ UNCHANGED <<owner, clipboardEnabled, offer, activityVars, toServer,
                   toActivity, changes, ghosts>>

\* handleLorieEvents() on the input thread: EVENT_CLIPBOARD_ENABLE
handleLorieEvents ==
    /\ toServer # <<>>
    /\ clipboardEnabled' = Head(toServer)
    /\ toServer' = Tail(toServer)
    /\ UNCHANGED <<owner, clientVars, activityVars, toActivity, changes, ghosts>>

\* another event for the activity
DDXNotifyFocusChanged ==
    /\ Change
    /\ ToActivity([type |-> "focus"])
    /\ UNCHANGED <<owner, clipboardEnabled, clientVars, activityVars, toServer,
                   ghosts>>

-----------------------------------------------------------------------------
(***************************************************************************)
(* The activity.                                                           *)
(***************************************************************************)

\* a text is copied in Android, which the server is not told
Copy(t) ==
    /\ Change
    /\ clip' = t
    /\ copied' = TRUE
    /\ UNCHANGED <<owner, clipboardEnabled, clientVars, connected, sync, torn,
                   toServer, toActivity, overtaken, disturbed>>

\* CharsetDecoder of UTF-8: the text with these bytes; what is malformed is
\* replaced
Decode(bytes) ==
    IF \E t \in ClipText : Encoded[t] = bytes
    THEN CHOOSE t \in ClipText : Encoded[t] = bytes
    ELSE <<Replacement>>

(***************************************************************************)
(* xcallback(), setClipboardText(): one event.  A text is read with one    *)
(* byte more than it has, which takes a byte of the event after it, if     *)
(* that has been written: nothing is understood from then on.              *)
(***************************************************************************)
xcallback ==
    /\ toActivity # <<>>
    /\ LET m == Head(toActivity)
           stored == ~torn /\ m.type = "text" /\ m.bytes # <<>>
       IN  /\ clip' = IF stored THEN Decode(m.bytes) ELSE clip
           /\ torn' = (torn \/ (stored /\ Tail(toActivity) # <<>>))
           /\ copied' = (copied /\ ~stored)
    /\ toActivity' = Tail(toActivity)
    /\ UNCHANGED <<owner, clipboardEnabled, clientVars, connected, sync,
                   toServer, changes, overtaken, disturbed>>

\* reloadPreferences() after the preference has changed
reloadPreferences ==
    /\ Change
    /\ sync' = ~sync
    /\ toServer' = IF connected THEN Append(toServer, sync') ELSE toServer
    /\ disturbed' = TRUE
    /\ UNCHANGED <<owner, clipboardEnabled, clientVars, connected, clip, torn,
                   toActivity, overtaken, copied>>

(***************************************************************************)
(* The connection is lost, with what is on its way; the server disables    *)
(* the sync.  tryConnect() makes another and calls reloadPreferences().    *)
(***************************************************************************)
HangUp ==
    /\ Change
    /\ connected
    /\ connected' = FALSE /\ torn' = FALSE
    /\ toServer' = <<>> /\ toActivity' = <<>>
    /\ clipboardEnabled' = FALSE
    /\ disturbed' = TRUE
    /\ UNCHANGED <<owner, clientVars, sync, clip, overtaken, copied>>

\* Mutant: reloadPreferences() is not called
MutantTryConnect ==
    /\ ~connected
    /\ connected' = TRUE
    /\ UNCHANGED <<owner, clipboardEnabled, clientVars, sync, clip, torn,
                   toServer, toActivity, changes, ghosts>>

tryConnect ==
    /\ ~connected
    /\ connected' = TRUE
    /\ toServer' = <<sync>>
    /\ UNCHANGED <<owner, clipboardEnabled, clientVars, sync, clip, torn,
                   toActivity, changes, ghosts>>

-----------------------------------------------------------------------------
ClientStep(c) ==
    \/ HandleTargets(c) \/ Refuse(c) \/ ClientGone(c)
    \/ \E past \in SUBSET (1..3) : HandleText(c, past)
    \/ \E o \in Offer : lorieSelectionCallback(c, o)

Next ==
    \/ handleLorieEvents \/ DDXNotifyFocusChanged \/ xcallback
    \/ reloadPreferences \/ HangUp \/ tryConnect
    \/ \E t \in Text : Copy(t)
    \/ \E c \in Client : ClientStep(c)

Spec == Init /\ [][Next]_vars

-----------------------------------------------------------------------------
(***************************************************************************)
(* When all has been said, Android has the text of the client that owns    *)
(* the selection, whichever target it was given as, without carriage       *)
(* returns (lorieHandleSelection()).  Not so if, since the client took the *)
(* selection, a former owner's text came later, the sync was off or the    *)
(* connection lost; if the stream is out of step; or if a text was copied  *)
(* in Android afterwards.  A text with nothing else than carriage returns  *)
(* is not put into Android's clipboard.                                    *)
(***************************************************************************)
Quiet ==
    /\ toServer = <<>> /\ toActivity = <<>>
    /\ \A c \in Client : asked[c] = <<>>

AndroidHasOwnersText ==
    (Quiet /\ owner \in Client /\ ~overtaken /\ ~disturbed /\ ~torn /\ ~copied)
        => \/ offer[owner].text = NULL
           \/ lorieConvertLF(offer[owner].text) \in {clip, <<>>}

(***************************************************************************)
(* Every text on its way to Android is one a client offered, in UTF-8 and  *)
(* without carriage returns, whether the client had it in UTF-8 or in      *)
(* Latin-1 (lorieHandleSelection()).                                       *)
(***************************************************************************)
SentIsText ==
    \A i \in DOMAIN toActivity :
        toActivity[i].type = "text" /\ toActivity[i].text # NULL
            => toActivity[i].bytes = UTF8(lorieConvertLF(toActivity[i].text))

(***************************************************************************)
(* The server syncs the clipboard if and only if the preference says so,   *)
(* as soon as it has read what the activity wrote, whatever preferences    *)
(* were changed, with or without a connection, and connections lost before *)
(* (reloadPreferences(), lorieEnableClipboardSync()).                      *)
(***************************************************************************)
SyncAgrees == connected /\ toServer = <<>> => clipboardEnabled = sync

=============================================================================
