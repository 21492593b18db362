------------------------------- MODULE Clients -------------------------------
(***************************************************************************)
(* Connections of clients. The main loop polls the listeners and accepts   *)
(* one connection from each that is ready; there is a thread for every       *)
(* client, which handles its requests one after the other. When there are  *)
(* enough clients the main loop stops listening, and starts again when     *)
(* poll() has returned nothing and some have gone.                         *)
(***************************************************************************)
EXTENDS Integers, Sequences, FiniteSets

CONSTANTS
  NumListeners,  \* system->num_listeners
  Conns,         \* connections, which may be made again when they are closed
  MaxClients     \* system->max_clients

Listeners == 1..NumListeners

VARIABLES
  main,        \* where the main loop is: in poll() (0), at the listener that it looks
               \* at, or past the last one
  revents,     \* listeners for which poll() has reported POLLIN
  polling,     \* the listeners' events are POLLIN
  backlog,     \* each listener: the connections that wait to be accepted
  num_clients, \* system->num_clients
  cpc,         \* each connection: what its thread does, "none" if it has none
  method,      \* the method of its request
  answers,     \* the final responses that its request has got
  declined     \* its Upgrade or Expect was refused

clientVars == <<main, revents, polling, backlog, num_clients, cpc, method,
                answers, declined>>
mainVars   == <<main, revents, polling, backlog>>

\* HEAD goes as GET, and the methods that are not handled go as PUT.
Methods == {"OPTIONS", "GET", "POST", "PUT"}

Init ==
  /\ main = 0 /\ revents = {} /\ polling = TRUE
  /\ backlog = [l \in Listeners |-> << >>]
  /\ num_clients = 0
  /\ cpc = [c \in Conns |-> "none"]
  /\ method = [c \in Conns |-> "GET"]
  /\ answers = [c \in Conns |-> 0]
  /\ declined = [c \in Conns |-> FALSE]

-----------------------------------------------------------------------------
(* The main loop, papplSystemRun.                                          *)

\* A client connects: the system has the connection wait.
Connect(c, l) ==
  /\ cpc[c] = "none"
  /\ cpc' = [cpc EXCEPT ![c] = "waiting"]
  /\ backlog' = [backlog EXCEPT ![l] = Append(@, c)]
  /\ UNCHANGED <<main, revents, polling, num_clients, method, answers, declined>>

Poll ==
  /\ main = 0 /\ polling
  /\ revents' = {l \in Listeners : backlog[l] # << >>}
  /\ revents' # {}
  /\ main' = 1
  /\ UNCHANGED <<polling, backlog, num_clients, cpc, method, answers, declined>>

\* poll() times out or is interrupted. Nothing keeps it from doing so, with as
\* little time to wait as there may be. (Mutant: the listeners stay off.)
PollTimeoutStaysOff ==
  /\ main = 0
  /\ UNCHANGED clientVars
PollTimeout ==
  /\ main = 0
  /\ polling' = (polling \/ num_clients < MaxClients)
  /\ UNCHANGED <<main, revents, backlog, num_clients, cpc, method, answers, declined>>

Skip ==
  /\ main \in Listeners \ revents
  /\ main' = main + 1
  /\ UNCHANGED <<revents, polling, backlog, num_clients, cpc, method, answers,
                 declined>>

\* The listener's first connection gets a client and a thread, or is closed when
\* it cannot be accepted or there is no thread for it (papplClientDelete undoes
\* the count).
Accept ==
  /\ main \in revents
  /\ backlog[main] # << >>
  /\ LET c == Head(backlog[main]) IN
     \/ /\ cpc' = [cpc EXCEPT ![c] = "idle"]
        /\ num_clients' = num_clients + 1
     \/ /\ cpc' = [cpc EXCEPT ![c] = "none"]
        /\ UNCHANGED num_clients
  /\ backlog' = [backlog EXCEPT ![main] = Tail(@)]
  /\ main' = main + 1
  /\ UNCHANGED <<revents, polling, method, answers, declined>>

Limit ==
  /\ main = NumListeners + 1
  /\ polling' = (polling /\ num_clients < MaxClients)
  /\ main' = 0 /\ revents' = {}
  /\ UNCHANGED <<backlog, num_clients, cpc, method, answers, declined>>

MainLoop == Poll \/ PollTimeout \/ Skip \/ Accept \/ Limit

-----------------------------------------------------------------------------
(* A client's thread: _papplClientRun and _papplClientProcessHTTP.         *)

At(c, pc) == cpc[c] = pc /\ UNCHANGED <<mainVars, num_clients>>
Go(c, pc) == cpc' = [cpc EXCEPT ![c] = pc]

Forget(c) ==
  /\ method'  = [method EXCEPT ![c] = "GET"]
  /\ answers' = [answers EXCEPT ![c] = 0]
  /\ declined' = [declined EXCEPT ![c] = FALSE]

\* The client is deleted, whatever its request has got.
Close(c) == Go(c, "freed") /\ Forget(c)

\* papplClientRespond with a final status; when it fails the client is deleted.
Respond(c, pc, refuses) ==
  \/ /\ Go(c, pc)
     /\ answers' = [answers EXCEPT ![c] = @ + 1]
     /\ declined' = [declined EXCEPT ![c] = @ \/ refuses]
     /\ UNCHANGED method
  \/ Close(c)

Pass(c, pc) == Go(c, pc) /\ UNCHANGED <<method, answers, declined>>

\* httpWait times out, TLS cannot be negotiated, or the request is bad.
Leave(c) == At(c, "idle") /\ Close(c)

ReadRequest(c, m) ==
  /\ At(c, "idle")
  /\ Go(c, "upgrade")
  /\ method' = [method EXCEPT ![c] = m]
  /\ UNCHANGED <<answers, declined>>

\* No Upgrade, or one to TLS that succeeds (the final status is still to come);
\* TLS that fails; what cannot be upgraded, which is declined and goes on.
Upgrade(c) ==
  /\ At(c, "upgrade")
  /\ Pass(c, "expect") \/ Close(c) \/ Respond(c, "expect", TRUE)

\* No Expect, or 100-continue; anything else is declined and goes on.
Expect(c) ==
  /\ At(c, "expect")
  /\ \/ Pass(c, "serve")
     \/ method[c] \in {"POST", "PUT"} /\ (Close(c) \/ Respond(c, "serve", TRUE))

\* OPTIONS is answered whatever the resource is.
ServeOptions(c) ==
  /\ At(c, "serve") /\ method[c] = "OPTIONS"
  /\ Respond(c, "done", FALSE)

\* POST: a form, for which the callback of its resource answers or fails; what is
\* neither a form nor IPP; an IPP request, which may not be readable.
ServePost(c) ==
  /\ At(c, "serve") /\ method[c] = "POST"
  /\ Respond(c, "done", FALSE) \/ Pass(c, "header") \/ Close(c)

\* GET and HEAD: what the resource is or that it has not changed, unless there
\* is none or its file cannot be opened.
ServeResource(c) ==
  /\ At(c, "serve") /\ method[c] = "GET"
  /\ Respond(c, "done", FALSE) \/ Pass(c, "lost")

NotFound(c) == At(c, "lost") /\ Respond(c, "done", FALSE)

\* Other methods get no answer.
ServeNone(c) ==
  /\ At(c, "serve") /\ method[c] = "PUT"
  /\ Pass(c, "done")

-----------------------------------------------------------------------------
(* IPP requests. The header is validated and the printer or the job is     *)
(* looked up, then the operation is dispatched.                            *)

\* _papplClientProcessIPP: what is wrong with the header goes to the reply.
ProcessIPP(c) ==
  /\ At(c, "header")
  /\ \E target \in {"system", "printer", "job", "reply"} : Pass(c, target)

\* What an operation answers is sent with the reply, but for a client that is not
\* authorized and for a document that follows its attributes.
Answer(c) == Pass(c, "reply") \/ Respond(c, "reply", FALSE)

\* _papplJobProcessIPP and _papplPrinterProcessIPP; operations of output devices
\* are not supported by printers that have none.
JobProcessIPP(c)     == At(c, "job") /\ Answer(c)
PrinterProcessIPP(c) == At(c, "printer") /\ Answer(c)

\* _papplSystemProcessIPP; what it is asked of a printer is about the default one.
SystemProcessIPP(c) == At(c, "system") /\ (Answer(c) \/ Pass(c, "printer"))

\* The rest of the request is read, and it is answered if it has not been. (Mutant:
\* it is answered in any case.)
ReplyAgain(c) == At(c, "reply") /\ Respond(c, "done", FALSE)
Reply(c) ==
  /\ At(c, "reply")
  /\ \/ answers[c] = 0 /\ Respond(c, "done", FALSE)
     \/ answers[c] # 0 /\ Pass(c, "done")

\* The client's temporary files are removed, and its next request is waited for.
CleanTempFiles(c) == At(c, "done") /\ Go(c, "idle") /\ Forget(c)

\* _papplClientDelete counts the client when it has freed it.
Uncount(c) ==
  /\ cpc[c] = "freed"
  /\ num_clients' = num_clients - 1
  /\ Go(c, "none")
  /\ UNCHANGED <<mainVars, method, answers, declined>>

ClientStep(c) ==
  \/ \E l \in Listeners : Connect(c, l)
  \/ Leave(c) \/ (\E m \in Methods : ReadRequest(c, m))
  \/ Upgrade(c) \/ Expect(c)
  \/ ServeOptions(c) \/ ServePost(c) \/ ServeResource(c) \/ NotFound(c)
  \/ ServeNone(c)
  \/ ProcessIPP(c) \/ JobProcessIPP(c) \/ PrinterProcessIPP(c)
  \/ SystemProcessIPP(c) \/ Reply(c)
  \/ CleanTempFiles(c) \/ Uncount(c)

Next == MainLoop \/ \E c \in Conns : ClientStep(c)

\* The main loop runs on, whatever the clients do.
Fairness == WF_clientVars(MainLoop)

Spec == Init /\ [][Next]_clientVars /\ Fairness

-----------------------------------------------------------------------------
(* Properties.                                                             *)

\* Every variable has its type.
TypeOK ==
  /\ main \in 0..(NumListeners + 1)
  /\ revents \in SUBSET Listeners /\ polling \in BOOLEAN
  /\ backlog \in [Listeners -> Seq(Conns)]
  /\ num_clients \in Nat
  /\ cpc \in [Conns -> {"none", "waiting", "idle", "upgrade", "expect", "serve",
                        "lost", "header", "system", "printer", "job", "reply",
                        "done", "freed"}]
  /\ method \in [Conns -> Methods] /\ declined \in [Conns -> BOOLEAN]
  /\ answers \in [Conns -> 0..3]

Counted == {c \in Conns : cpc[c] \notin {"none", "waiting"}}

\* num_clients counts the clients that have a thread, and there are never more
\* than one short of the limit and one from each listener: the limit is only
\* looked at when all listeners have been served, while threads end.
ClientsBounded ==
  /\ num_clients = Cardinality(Counted)
  /\ num_clients <= MaxClients - 1 + NumListeners

\* A connection that waits is taken from its listener, or the limit of clients
\* is reached: a system that has stopped listening listens again when clients
\* have gone.
ListensAgain ==
  \A c \in Conns : (cpc[c] = "waiting") ~>
                     (cpc[c] # "waiting" \/ num_clients >= MaxClients)

\* A request that has been handled has got one final response, unless its method
\* is not known or its Upgrade or Expect was declined before.
AnsweredOnce ==
  \A c \in Conns :
    (cpc[c] = "done" /\ ~declined[c] /\ method[c] # "PUT") =>
      answers[c] = 1
=============================================================================
