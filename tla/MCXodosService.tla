--------------------------- MODULE MCXodosService ---------------------------
(* Instances of XodosService. *)
EXTENDS XodosService

Intent(runner, plugin, pending, mode) ==
  [runner |-> runner, plugin |-> plugin, pending |-> pending, mode |-> mode, shellName |-> "n"]

\* A task a plugin waits for, one that is started only if no task has its name
\* and whose result nobody waits for, a session of each of these sorts, which the
\* other way round has a result, and a request the service rejects.
AllKinds ==
  {Intent("app-shell", TRUE, TRUE, "always"),
   Intent("app-shell", TRUE, FALSE, "no-shell-with-name"),
   Intent("terminal-session", TRUE, TRUE, "no-shell-with-name"),
   Intent("terminal-session", FALSE, FALSE, "always"),
   Intent("app-shell", TRUE, TRUE, "unsupported")}

\* The commands are interchangeable: no definition of XodosService or of its
\* properties tells one from another.  So of two assignments of kinds that differ
\* by a swap of the commands, one is enough.
Rank(k) ==
  IF k.mode = "unsupported" THEN 0
  ELSE 1 + (IF k.runner = "app-shell" THEN 2 ELSE 0)
         + (IF k.mode = "always" THEN 1 ELSE 0)

First == CHOOSE c \in Command : TRUE

MCInit == Init /\ \A c \in Command : Rank(kind[First]) <= Rank(kind[c])

MCLiveSpec == MCInit /\ [][Next]_vars /\ Fairness

\* Tasks a plugin waits for, and a request the service rejects.
WaitedFor == {Intent("app-shell", TRUE, TRUE, m) : m \in {"always", "unsupported"}}

Names == {"n"}
=============================================================================
