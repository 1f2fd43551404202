--------------------------- MODULE ResourceClients ---------------------------
(***************************************************************************)
(* Those in the GUI thread who wait for a resource of a dictionary without  *)
(* a network reply: a page element of the web engine                        *)
(* (src/src/resourceschemehandler.cc) and the saving of a page's resource   *)
(* to a file (ResourceToSaveHandler of src/src/ui/articleview.cc).  The     *)
(* first looks whether the request is finished and, if not, connects to its *)
(* finished() signal; the second connects and then looks.                   *)
(***************************************************************************)
EXTENDS Naturals

CONSTANTS
  Elements,  \* page elements, each with a request
  Saves      \* resources to save, each with a request

Clients == Elements \cup Saves

ASSUME ResourceClientsAssumption == Elements \cap Saves = {}

VARIABLES
  worker,     \* what serves the client's request: "working", "emitting", "gone"
  step,       \* where the client is
  connected,  \* whether it is connected to finished()
  posted,     \* whether a finished() event is posted to it
  served      \* how often it got its answer

clientVars == <<step, connected, served>>
vars == <<worker, clientVars, posted>>

IsFinished(c) == worker[c] # "working"

Init ==
  /\ worker = [c \in Clients |-> "working"]
  /\ step = [c \in Clients |-> "start"]
  /\ connected = [c \in Clients |-> FALSE]
  /\ posted = [c \in Clients |-> FALSE]
  /\ served = [c \in Clients |-> 0]

-----------------------------------------------------------------------------
(* The worker: Request::finish(). *)

RaiseFlag(c) ==
  /\ worker[c] = "working"
  /\ worker' = [worker EXCEPT ![c] = "emitting"]
  /\ UNCHANGED <<clientVars, posted>>

EmitFinished(c) ==
  /\ worker[c] = "emitting"
  /\ worker' = [worker EXCEPT ![c] = "gone"]
  /\ posted' = [posted EXCEPT ![c] = connected[c]]
  /\ UNCHANGED clientVars

-----------------------------------------------------------------------------
(* requestStarted(). *)

Serve(c) ==
  /\ step' = [step EXCEPT ![c] = "served"]
  /\ served' = [served EXCEPT ![c] = @ + 1]

Check(c) ==
  /\ c \in Elements /\ step[c] = "start"
  /\ IF IsFinished(c) THEN Serve(c)
     ELSE step' = [step EXCEPT ![c] = "connect"] /\ UNCHANGED served
  /\ UNCHANGED <<worker, connected, posted>>

Connect(c) ==
  /\ c \in Elements /\ step[c] = "connect"
  /\ connected' = [connected EXCEPT ![c] = TRUE]
  /\ step' = [step EXCEPT ![c] = "wait"]
  /\ UNCHANGED <<worker, posted, served>>

\* replyJob(), called by finished().
Finished(c) ==
  /\ c \in Elements /\ posted[c]
  /\ posted' = [posted EXCEPT ![c] = FALSE]
  /\ Serve(c)
  /\ UNCHANGED <<worker, connected>>

-----------------------------------------------------------------------------
(* ResourceToSaveHandler. *)

AddRequest(c) ==
  /\ c \in Saves /\ step[c] = "start"
  /\ connected' = [connected EXCEPT ![c] = TRUE]
  /\ step' = [step EXCEPT ![c] = "check"]
  /\ UNCHANGED <<worker, posted, served>>

\* Mutated form: saveResource() leaves it to the signal.
NoCheck(c) ==
  /\ step[c] = "check"
  /\ step' = [step EXCEPT ![c] = "wait"]
  /\ UNCHANGED <<worker, connected, posted, served>>

\* saveResource() calls downloadFinished() once itself.
CheckDownload(c) ==
  /\ step[c] = "check"
  /\ IF IsFinished(c) THEN Serve(c)
     ELSE step' = [step EXCEPT ![c] = "wait"] /\ UNCHANGED served
  /\ UNCHANGED <<worker, connected, posted>>

\* Mutated form: a stray signal is answered.
AnswerStray(c) == FALSE

\* The request has been dealt with and dropped.
Stray(c) == step[c] = "served"

\* downloadFinished(), called by finished().
DownloadFinished(c) ==
  /\ c \in Saves /\ posted[c]
  /\ posted' = [posted EXCEPT ![c] = FALSE]
  /\ IF Stray(c) THEN UNCHANGED <<step, served>> ELSE Serve(c)
  /\ UNCHANGED <<worker, connected>>

-----------------------------------------------------------------------------
Worker(c) == RaiseFlag(c) \/ EmitFinished(c)

Gui(c) ==
  \/ Check(c) \/ Connect(c) \/ Finished(c)
  \/ AddRequest(c) \/ CheckDownload(c) \/ DownloadFinished(c)

Next == \E c \in Clients : Worker(c) \/ Gui(c)

\* Workers run to their end and the event loop delivers what is posted.
Fairness == \A c \in Clients : WF_vars(Worker(c)) /\ WF_vars(Gui(c))

Spec == Init /\ [][Next]_vars /\ Fairness

-----------------------------------------------------------------------------
(* Properties. *)

\* Whenever its request finishes, a resource to save is dealt with, and once only,
\* although its end may be both seen and heard of.  An element of a page is
\* answered too, unless its request came to an end after the look and before the
\* connection, in the order the comment of class Request advises: "before
\* connecting to it, check the result of isFinished()"
\* (src/src/dict/dictionary.hh:42).
ClientsAnswered ==
  /\ \A c \in Saves : <>[](served[c] = 1)
  /\ \A c \in Elements :
       <>[](served[c] = 1) \/ <>(step[c] = "connect" /\ worker[c] = "gone")
=============================================================================
