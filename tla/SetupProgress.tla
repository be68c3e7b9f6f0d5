--------------------------- MODULE SetupProgress ---------------------------
(***************************************************************************)
(* The progress page and its server (src/src/android/backend/webview.rs,   *)
(* src/assets/setup-progress.html), beside the orchestrating thread and    *)
(* the threads of the stages, which send it messages.  Two threads serve:  *)
(* one takes the messages out of the channel and sends them to the active  *)
(* client, the other accepts a page, greets it and makes it the active     *)
(* client.  Every resume of the activity opens one more page.              *)
(***************************************************************************)
EXTENDS Orchestrator, Sequences

CONSTANTS
    Pages,          \* bound: the pages that are ever opened
    MaxSays,        \* bound: messages the threads of the stages send
    NoPage

ASSUME PageAssumption ==
    /\ NoPage \notin Pages
    /\ MaxSays \in Nat

VARIABLES
    channel,        \* the messages sent and not yet received
    receiver,       \* the thread that receives them, and what it has read
    acceptor,       \* the thread that accepts pages, and what it has read
    active,         \* the active client
    page,           \* "unopened", "connecting", "open" or "closed"
    inbox,          \* what is on its way to a page
    shown,          \* the last message a page has handled
    alerted,        \* the pages that said "Installation finished"
    says            \* counts against MaxSays

server == <<channel, receiver, acceptor, active>>
pageVars == <<page, inbox, shown, alerted>>
vars == <<orchVars, server, pageVars, says>>

\* Of the two kinds in the code, Progress and Error, the last of each is told
\* apart from those before it.
Messages == {"log", "error", "finished", "failed"}

IsError(kind) == kind \in {"error", "failed"}

\* What goes over the socket: the message, and the progress that was read.
Frames == [kind : Messages \cup {"hello"}, progress : 0 .. 100]

TypeOK ==
    /\ OrchTypeOK
    /\ channel \in Seq(Messages)
    /\ receiver \in [at : {"wait"}] \cup [at : {"send"}, frame : Frames]
    /\ acceptor \in [at : {"wait"}]
                      \cup [at : {"greet", "publish"}, page : Pages,
                            progress : 0 .. 100]
    /\ active \in Pages \cup {NoPage}
    /\ page \in [Pages -> {"unopened", "connecting", "open", "closed"}]
    /\ inbox \in [Pages -> Seq(Frames)]
    /\ shown \in [Pages -> Frames \cup {[kind |-> "nothing", progress |-> 0]}]
    /\ alerted \subseteq Pages
    /\ says \in 0 .. MaxSays

\* "Your device is supported!" is in the channel before anyone receives.
Init ==
    /\ OrchInit
    /\ channel = <<"log">>
    /\ receiver = [at |-> "wait"]
    /\ acceptor = [at |-> "wait"]
    /\ active = NoPage
    /\ page = [p \in Pages |-> "unopened"]
    /\ inbox = [p \in Pages |-> <<>>]
    /\ shown = [p \in Pages |-> [kind |-> "nothing", progress |-> 0]]
    /\ alerted = {}
    /\ says = 0

-----------------------------------------------------------------------------
(* The threads of setup, and what they send *)

\* A stage with work to do was found: the backend that is built shows the
\* page, and its threads serve.
Install ==
    /\ \E i \in 0 .. Stages - 1 : Spawn(i)
    /\ UNCHANGED <<server, pageVars, says>>

SendMessage(message) == channel' = Append(channel, message)

\* Slip: the error of a stage is not sent.
OrchestrateSilently ==
    /\ \/ (Announce \/ Advance \/ Complete \/ Die \/ Fail) /\ UNCHANGED channel
       \/ Tell /\ SendMessage("finished")
    /\ UNCHANGED <<receiver, acceptor, active, pageVars, says>>

Orchestrate ==
    /\ \/ (Announce \/ Advance \/ Complete \/ Die) /\ UNCHANGED channel
       \/ Tell /\ SendMessage("finished")
       \/ Fail /\ SendMessage("failed")
    /\ UNCHANGED <<receiver, acceptor, active, pageVars, says>>

\* Lines of pacman's output, a percentage of the download, an archive that
\* did not unpack.
StageSays ==
    /\ orch \in {"spawned", "working"}
    /\ says < MaxSays
    /\ says' = says + 1
    /\ \E message \in {"log", "error"} : SendMessage(message)
    /\ UNCHANGED <<orchVars, receiver, acceptor, active, pageVars>>

-----------------------------------------------------------------------------
(* The server *)

Serving == orch # "none"

SendTo(p, frame) == inbox' = [inbox EXCEPT ![p] = Append(@, frame)]

\* The receiving thread takes a message and reads the progress ...
Receive ==
    /\ Serving
    /\ receiver.at = "wait"
    /\ channel # <<>>
    /\ receiver' = [at |-> "send",
                    frame |-> [kind |-> Head(channel), progress |-> progress]]
    /\ channel' = Tail(channel)
    /\ UNCHANGED <<orchVars, acceptor, active, pageVars, says>>

\* ... and sends both to whatever client is active by then, if any.  A client
\* that is gone is noticed, at the first message or the next.
Forward ==
    /\ receiver.at = "send"
    /\ receiver' = [at |-> "wait"]
    /\ \/ active = NoPage /\ UNCHANGED <<active, inbox>>
       \/ /\ active # NoPage
          /\ page[active] = "open"
          /\ SendTo(active, receiver.frame)
          /\ UNCHANGED active
       \/ /\ active # NoPage
          /\ page[active] = "closed"
          /\ active' \in {active, NoPage}
          /\ UNCHANGED inbox
    /\ UNCHANGED <<orchVars, channel, acceptor, page, shown, alerted, says>>

\* Slip: the page is active before it is greeted, and greeted after.
AcceptPublishes(p) ==
    /\ Serving
    /\ acceptor.at = "wait"
    /\ page[p] = "connecting"
    /\ page' = [page EXCEPT ![p] = "open"]
    /\ acceptor' = [at |-> "greet", page |-> p, progress |-> progress]
    /\ active' = p
    /\ UNCHANGED <<orchVars, channel, receiver, inbox, shown, alerted, says>>

\* The accepting thread completes the handshake of a page that connects, and
\* reads the progress, ...
Accept(p) ==
    /\ Serving
    /\ acceptor.at = "wait"
    /\ page[p] = "connecting"
    /\ page' = [page EXCEPT ![p] = "open"]
    /\ acceptor' = [at |-> "greet", page |-> p, progress |-> progress]
    /\ UNCHANGED <<orchVars, channel, receiver, active, inbox, shown,
                   alerted, says>>

\* ... tells the page, and gives up if it is gone, ...
Greet ==
    /\ acceptor.at = "greet"
    /\ IF page[acceptor.page] = "open"
       THEN /\ SendTo(acceptor.page,
                      [kind |-> "hello", progress |-> acceptor.progress])
            /\ acceptor' = [acceptor EXCEPT !.at = "publish"]
       ELSE /\ acceptor' = [at |-> "wait"]
            /\ UNCHANGED inbox
    /\ UNCHANGED <<orchVars, channel, receiver, active, page, shown, alerted,
                   says>>

\* ... and puts it in the place of the active client, whose socket closes.
Publish ==
    /\ acceptor.at = "publish"
    /\ active' = acceptor.page
    /\ acceptor' = [at |-> "wait"]
    /\ UNCHANGED <<orchVars, channel, receiver, pageVars, says>>

-----------------------------------------------------------------------------
(* The pages *)

\* resumed() opens a page over those that are there.
Resume(p) ==
    /\ Serving
    /\ page[p] = "unopened"
    /\ page' = [page EXCEPT ![p] = "connecting"]
    /\ UNCHANGED <<orchVars, server, inbox, shown, alerted, says>>

\* The process of the web view may die, and its sockets with it.
Close(p) ==
    /\ page[p] \in {"connecting", "open"}
    /\ page' = [page EXCEPT ![p] = "closed"]
    /\ UNCHANGED <<orchVars, server, inbox, shown, alerted, says>>

Handle(p) ==
    /\ page[p] = "open"
    /\ inbox[p] # <<>>
    /\ LET frame == Head(inbox[p]) IN
         /\ shown' = [shown EXCEPT ![p] = frame]
         /\ alerted' = IF frame.progress = 100 /\ ~IsError(frame.kind)
                       THEN alerted \cup {p} ELSE alerted
    /\ inbox' = [inbox EXCEPT ![p] = Tail(@)]
    /\ UNCHANGED <<orchVars, server, page, says>>

Next ==
    \/ Install \/ Orchestrate \/ StageSays
    \/ Receive \/ Forward
    \/ \E p \in Pages : Accept(p)
    \/ Greet \/ Publish
    \/ \E p \in Pages : Resume(p) \/ Close(p) \/ Handle(p)

Spec == Init /\ [][Next]_vars

\* Threads are scheduled and stages come to an end; pages handle what they
\* are sent.  No page need be opened or closed.
FairSpec ==
    /\ Spec
    /\ WF_vars(Orchestrate)
    /\ WF_vars(Receive \/ Forward)
    /\ WF_vars(Greet \/ Publish)
    /\ \A p \in Pages : WF_vars(Accept(p)) /\ WF_vars(Handle(p))

-----------------------------------------------------------------------------
(* Properties *)

\* A page says that the installation is finished only when every stage is.
AlertIsTrue == alerted # {} => orch \in {"done", "told"}

\* The last word of the setup stands: nothing that was read before it, or
\* sent by the other thread, is shown after it.
LastWordStands ==
    [][\A p \in Pages :
         shown[p].kind \in {"finished", "failed"} => shown'[p] = shown[p]]_vars

\* A page that is the active client while the setup is at work, and stays
\* it, is told how the setup ended (unless a stage panicked on the
\* orchestrating thread, which tells nobody).
ActivePageLearns ==
    \A p \in Pages :
        active = p /\ orch \in {"spawned", "working"} ~>
            \/ active # p \/ page[p] = "closed"
            \/ orch = "dead"
            \/ shown[p].kind \in {"finished", "failed"}
=============================================================================
