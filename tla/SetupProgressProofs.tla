------------------------ MODULE SetupProgressProofs ------------------------
(***************************************************************************)
(* Proofs about the progress page and its server: the types, that a page   *)
(* announces the end only when every stage is over (FullIsDone follows a   *)
(* progress of 100 through both threads and the sockets), and that nothing *)
(* is shown after the last word (LastInv follows it from the channel to    *)
(* the page, Unheard keeps the two threads' messages to a page in order).  *)
(***************************************************************************)
EXTENDS SetupProgress, SequenceTheorems, TLAPS

LEMMA PercentBelow ==
  ASSUME NEW i \in 0 .. Stages - 1
  PROVE  Percent(i) \in 0 .. 99
<1>1. Stages \in Nat /\ Stages > 0 /\ i \in Nat /\ i < Stages
  BY StagesAssumption
<1>2. i * 100 \in Nat /\ i * 100 < 100 * Stages
  BY <1>1
<1>3. ASSUME NEW n \in Nat, NEW d \in Nat, d > 0, n < 100 * d
      PROVE  n \div d \in 0 .. 99
  BY <1>3, Z3
<1> QED BY <1>1, <1>2, <1>3 DEF Percent

LEMMA OrchTypes ==
  ASSUME OrchTypeOK,
         (\E i \in 0 .. Stages - 1 : Spawn(i)) \/ Announce \/ Advance
           \/ Complete \/ Tell \/ Fail \/ Die
  PROVE  OrchTypeOK'
BY StagesAssumption, PercentBelow
DEF OrchTypeOK, OrchStates, Spawn, Announce, Advance, Complete, Tell, Fail, Die

LEMMA SendToType ==
  ASSUME inbox \in [Pages -> Seq(Frames)], NEW p \in Pages, NEW f \in Frames,
         SendTo(p, f)
  PROVE  inbox' \in [Pages -> Seq(Frames)]
<1>1. Append(inbox[p], f) \in Seq(Frames) OBVIOUS
<1> QED BY <1>1 DEF SendTo

LEMMA SendMessageType ==
  ASSUME channel \in Seq(Messages), NEW m \in Messages, SendMessage(m)
  PROVE  channel' \in Seq(Messages)
BY DEF SendMessage

LEMMA TypeStep == TypeOK /\ [Next]_vars => TypeOK'
<1> SUFFICES ASSUME TypeOK, [Next]_vars PROVE TypeOK'
  OBVIOUS
<1> USE PageAssumption DEF TypeOK, server, pageVars
<1>1. CASE Install
  BY <1>1, OrchTypes DEF Install
<1>2. CASE Orchestrate
  <2>1. OrchTypeOK' BY <1>2, OrchTypes DEF Orchestrate
  <2>2. channel' \in Seq(Messages)
    <3>1. {"finished", "failed"} \subseteq Messages BY DEF Messages
    <3> QED BY <1>2, <3>1, SendMessageType DEF Orchestrate
  <2> QED BY <1>2, <2>1, <2>2 DEF Orchestrate
<1>3. CASE StageSays
  <2>1. channel' \in Seq(Messages)
    BY <1>3 DEF StageSays, SendMessage, Messages
  <2>2. says' \in 0 .. MaxSays
    BY <1>3 DEF StageSays
  <2> QED BY <1>3, <2>1, <2>2 DEF StageSays, OrchTypeOK, orchVars
<1>4. CASE Receive
  <2>1. Head(channel) \in Messages /\ channel' \in Seq(Messages)
    BY <1>4 DEF Receive
  <2>2. receiver' \in [at : {"send"}, frame : Frames]
    BY <1>4, <2>1 DEF Receive, Frames, OrchTypeOK
  <2> QED BY <1>4, <2>1, <2>2 DEF Receive, OrchTypeOK, orchVars
<1>5. CASE Forward
  <2>1. receiver.frame \in Frames
    BY <1>5 DEF Forward
  <2>2. inbox' \in [Pages -> Seq(Frames)]
    BY <1>5, <2>1, SendToType DEF Forward
  <2>3. active' \in Pages \cup {NoPage} /\ receiver' \in [at : {"wait"}]
    BY <1>5 DEF Forward
  <2> QED BY <1>5, <2>2, <2>3 DEF Forward, OrchTypeOK, orchVars
<1>6. ASSUME NEW p \in Pages, Accept(p) PROVE TypeOK'
  BY <1>6 DEF Accept, OrchTypeOK, orchVars
<1>7. CASE Greet
  <2>1. acceptor \in [at : {"greet", "publish"}, page : Pages, progress : 0 .. 100]
    BY <1>7 DEF Greet
  <2>2. inbox' \in [Pages -> Seq(Frames)]
    <3>1. [kind |-> "hello", progress |-> acceptor.progress] \in Frames
      BY <2>1 DEF Frames
    <3> QED BY <1>7, <2>1, <3>1, SendToType DEF Greet
  <2>3. acceptor' \in [at : {"wait"}] \cup
                      [at : {"greet", "publish"}, page : Pages, progress : 0 .. 100]
    <3>1. CASE acceptor' = [acceptor EXCEPT !.at = "publish"]
      BY <2>1, <3>1
    <3>2. CASE acceptor' = [at |-> "wait"]
      BY <3>2
    <3> QED BY <1>7, <3>1, <3>2 DEF Greet
  <2> QED BY <1>7, <2>2, <2>3 DEF Greet, OrchTypeOK, orchVars
<1>8. CASE Publish
  BY <1>8 DEF Publish, OrchTypeOK, orchVars
<1>9. ASSUME NEW p \in Pages, Resume(p) \/ Close(p) PROVE TypeOK'
  <2>1. page' \in [Pages -> {"unopened", "connecting", "open", "closed"}]
    BY <1>9 DEF Resume, Close
  <2>2. OrchTypeOK'
    BY <1>9 DEF Resume, Close, OrchTypeOK, orchVars
  <2> QED BY <1>9, <2>1, <2>2 DEF Resume, Close
<1>10. ASSUME NEW p \in Pages, Handle(p) PROVE TypeOK'
  <2>1. Head(inbox[p]) \in Frames /\ Tail(inbox[p]) \in Seq(Frames)
    BY <1>10 DEF Handle
  <2>2. inbox' \in [Pages -> Seq(Frames)]
    BY <1>10, <2>1 DEF Handle
  <2>3. shown' \in [Pages -> Frames \cup {[kind |-> "nothing", progress |-> 0]}]
    BY <1>10, <2>1 DEF Handle
  <2>4. alerted' \subseteq Pages
    BY <1>10 DEF Handle
  <2> QED BY <1>10, <2>2, <2>3, <2>4 DEF Handle, OrchTypeOK, orchVars
<1>11. CASE UNCHANGED vars
  BY <1>11 DEF vars, orchVars, OrchTypeOK
<1> QED
  BY <1>1, <1>2, <1>3, <1>4, <1>5, <1>6, <1>7, <1>8, <1>9, <1>10, <1>11 DEF Next

-----------------------------------------------------------------------------
\* Every stage is over.
AllDone == orch \in {"done", "told"}

\* Wherever a progress of 100 is read, sent or shown, every stage is over.
FullIsDone ==
  /\ progress = 100 => AllDone
  /\ receiver.at = "send" /\ receiver.frame.progress = 100 => AllDone
  /\ acceptor.at # "wait" /\ acceptor.progress = 100 => AllDone
  /\ \A p \in Pages : \A k \in 1 .. Len(inbox[p]) :
       inbox[p][k].progress = 100 => AllDone
  /\ AlertIsTrue

LEMMA OrchKeepsDone ==
  ASSUME OrchTypeOK, progress = 100 => AllDone,
         (\E i \in 0 .. Stages - 1 : Spawn(i)) \/ Announce \/ Advance
           \/ Complete \/ Tell \/ Fail \/ Die
  PROVE  (AllDone => AllDone') /\ (progress' = 100 => AllDone')
<1>1. Announce => progress' # 100
  BY PercentBelow DEF Announce, OrchTypeOK
<1>2. Advance => progress' # 100
  <2> SUFFICES ASSUME Advance PROVE progress' # 100
    OBVIOUS
  <2>1. stage + 1 \in 0 .. Stages - 1
    BY StagesAssumption DEF Advance, OrchTypeOK
  <2> QED BY <2>1, PercentBelow DEF Advance
<1> QED
  BY <1>1, <1>2 DEF AllDone, Spawn, Announce, Advance, Complete, Tell, Fail, Die

\* A frame that joins those on their way to a page, and one that leaves them.
LEMMA Joins ==
  ASSUME inbox \in [Pages -> Seq(Frames)], NEW q \in Pages, NEW f \in Frames,
         SendTo(q, f), NEW p \in Pages, NEW k \in 1 .. Len(inbox'[p])
  PROVE  \/ k \in 1 .. Len(inbox[p]) /\ inbox'[p][k] = inbox[p][k]
         \/ p = q /\ k = Len(inbox[p]) + 1 /\ inbox'[p][k] = f
<1>1. CASE p = q
  <2>1. inbox'[p] = Append(inbox[p], f) /\ inbox[p] \in Seq(Frames)
    BY <1>1 DEF SendTo
  <2> QED BY <1>1, <2>1
<1>2. CASE p # q
  BY <1>2 DEF SendTo
<1> QED BY <1>1, <1>2

LEMMA Leaves ==
  ASSUME inbox \in [Pages -> Seq(Frames)], NEW q \in Pages, Handle(q),
         NEW p \in Pages, NEW k \in 1 .. Len(inbox'[p])
  PROVE  \/ p # q /\ k \in 1 .. Len(inbox[p]) /\ inbox'[p] = inbox[p]
         \/ p = q /\ k + 1 \in 1 .. Len(inbox[p]) /\ inbox'[p][k] = inbox[p][k + 1]
<1>1. CASE p = q
  <2>1. inbox'[p] = Tail(inbox[p]) /\ inbox[p] \in Seq(Frames) /\ inbox[p] # <<>>
    BY <1>1 DEF Handle
  <2> QED BY <1>1, <2>1
<1>2. CASE p # q
  BY <1>2 DEF Handle
<1> QED BY <1>1, <1>2

LEMMA FullStep == TypeOK /\ FullIsDone /\ [Next]_vars => FullIsDone'
<1> SUFFICES ASSUME TypeOK, FullIsDone, [Next]_vars PROVE FullIsDone'
  OBVIOUS
<1>0. ASSUME UNCHANGED pageVars, UNCHANGED <<receiver, acceptor>>,
             AllDone => AllDone', progress' = 100 => AllDone'
      PROVE  FullIsDone'
  BY <1>0 DEF FullIsDone, AlertIsTrue, AllDone, pageVars
<1>00. UNCHANGED orchVars => (AllDone' <=> AllDone) /\ progress' = progress
  BY DEF orchVars, AllDone
<1>1. CASE Install
  BY <1>0, <1>1, OrchKeepsDone DEF Install, TypeOK, FullIsDone, server
<1>2. CASE Orchestrate
  BY <1>0, <1>2, OrchKeepsDone DEF Orchestrate, TypeOK, FullIsDone
<1>3. CASE StageSays
  BY <1>0, <1>00, <1>3 DEF StageSays, FullIsDone
<1>4. CASE Receive
  BY <1>00, <1>4 DEF Receive, FullIsDone, AlertIsTrue, AllDone, pageVars
<1>5. CASE Forward
  <2>1. receiver.frame \in Frames /\ (receiver.frame.progress = 100 => AllDone)
    BY <1>5 DEF Forward, TypeOK, FullIsDone
  <2>2. \/ UNCHANGED inbox
        \/ active \in Pages /\ SendTo(active, receiver.frame)
    BY <1>5 DEF Forward, TypeOK
  <2>3. ASSUME NEW p \in Pages, NEW k \in 1 .. Len(inbox'[p]),
               inbox'[p][k].progress = 100
        PROVE  AllDone
    <3>1. CASE UNCHANGED inbox
      BY <2>3, <3>1 DEF FullIsDone
    <3>2. CASE active \in Pages /\ SendTo(active, receiver.frame)
      <4>1. inbox \in [Pages -> Seq(Frames)] BY DEF TypeOK
      <4>2. \/ k \in 1 .. Len(inbox[p]) /\ inbox'[p][k] = inbox[p][k]
            \/ inbox'[p][k] = receiver.frame
        BY <2>1, <3>2, <4>1, Joins
      <4> QED BY <2>1, <2>3, <4>2 DEF FullIsDone
    <3> QED BY <2>2, <3>1, <3>2
  <2> QED
    BY <1>00, <1>5, <2>3 DEF Forward, FullIsDone, AlertIsTrue, AllDone
<1>6. ASSUME NEW p \in Pages, Accept(p) PROVE FullIsDone'
  BY <1>00, <1>6 DEF Accept, FullIsDone, AlertIsTrue, AllDone
<1>7. CASE Greet
  <2>1. /\ acceptor.page \in Pages
        /\ [kind |-> "hello", progress |-> acceptor.progress] \in Frames
        /\ acceptor.progress = 100 => AllDone
    BY <1>7 DEF Greet, TypeOK, Frames, FullIsDone
  <2>2. \/ UNCHANGED inbox
        \/ SendTo(acceptor.page, [kind |-> "hello", progress |-> acceptor.progress])
    BY <1>7 DEF Greet
  <2>3. ASSUME NEW p \in Pages, NEW k \in 1 .. Len(inbox'[p]),
               inbox'[p][k].progress = 100
        PROVE  AllDone
    BY <2>1, <2>2, <2>3, Joins DEF TypeOK, FullIsDone
  <2>4. acceptor'.at # "wait" /\ acceptor'.progress = 100 => AllDone
    BY <1>7, <2>1 DEF Greet, TypeOK
  <2> QED
    BY <1>00, <1>7, <2>3, <2>4 DEF Greet, FullIsDone, AlertIsTrue, AllDone
<1>8. CASE Publish
  BY <1>00, <1>8 DEF Publish, FullIsDone, AlertIsTrue, AllDone, pageVars
<1>9. ASSUME NEW p \in Pages, Resume(p) \/ Close(p) PROVE FullIsDone'
  BY <1>00, <1>9 DEF Resume, Close, FullIsDone, AlertIsTrue, AllDone, server
<1>10. ASSUME NEW q \in Pages, Handle(q) PROVE FullIsDone'
  <2>1. ASSUME NEW p \in Pages, NEW k \in 1 .. Len(inbox'[p]),
               inbox'[p][k].progress = 100
        PROVE  AllDone
    <3>1. CASE p # q
      BY <1>10, <2>1, <3>1, Leaves DEF TypeOK, FullIsDone
    <3>2. CASE p = q
      <4>1. k + 1 \in 1 .. Len(inbox[p]) /\ inbox[p][k + 1].progress = 100
        BY <1>10, <2>1, <3>2, Leaves DEF TypeOK
      <4> QED BY <4>1 DEF FullIsDone
    <3> QED BY <3>1, <3>2
  <2>2. inbox[q] # <<>> /\ Head(inbox[q]) = inbox[q][1] /\ 1 \in 1 .. Len(inbox[q])
    BY <1>10 DEF Handle, TypeOK
  <2>3. alerted' # {} => AllDone
    BY <1>10, <2>2 DEF Handle, FullIsDone, AlertIsTrue, AllDone
  <2> QED
    BY <1>00, <1>10, <2>1, <2>3 DEF Handle, FullIsDone, AlertIsTrue, AllDone, server
<1>11. CASE UNCHANGED vars
  BY <1>0, <1>00, <1>11 DEF vars, FullIsDone, server
<1> QED
  BY <1>1, <1>2, <1>3, <1>4, <1>5, <1>6, <1>7, <1>8, <1>9, <1>10, <1>11 DEF Next

Final(kind) == kind \in {"finished", "failed"}

\* Nothing that was sent to p, or will be, has yet to be handled.
Quiet(p) ==
  /\ orch \in {"told", "failed"}
  /\ channel = <<>>
  /\ receiver.at = "wait"
  /\ ~(acceptor.at = "greet" /\ acceptor.page = p)
  /\ page[p] \in {"open", "closed"}

\* A page hears nothing before it is greeted.
Unheard ==
  /\ acceptor.at # "wait" => page[acceptor.page] \in {"open", "closed"}
  /\ \A p \in Pages :
       page[p] \in {"unopened", "connecting"}
         \/ (acceptor.at = "greet" /\ acceptor.page = p)
       => inbox[p] = <<>> /\ shown[p].kind = "nothing" /\ active # p

\* The last word is the last, wherever it is on its way.
LastInv ==
  /\ \A k \in 1 .. Len(channel) :
       Final(channel[k]) => k = Len(channel) /\ orch \in {"told", "failed"}
  /\ receiver.at = "send" /\ Final(receiver.frame.kind)
       => channel = <<>> /\ orch \in {"told", "failed"}
  /\ \A p \in Pages : \A k \in 1 .. Len(inbox[p]) :
       Final(inbox[p][k].kind) => k = Len(inbox[p]) /\ Quiet(p)
  /\ \A p \in Pages : Final(shown[p].kind) => inbox[p] = <<>> /\ Quiet(p)

LEMMA UnheardStep == TypeOK /\ Unheard /\ [Next]_vars => Unheard'
<1> SUFFICES ASSUME TypeOK, Unheard, [Next]_vars PROVE Unheard'
  OBVIOUS
<1> USE DEF Unheard
<1>1. CASE Install
  BY <1>1 DEF Install, server, pageVars
<1>2. CASE Orchestrate \/ StageSays
  BY <1>2 DEF Orchestrate, StageSays, pageVars
<1>3. CASE Receive
  BY <1>3 DEF Receive, pageVars
<1>4. CASE Forward
  <2>1. \/ UNCHANGED inbox
        \/ active \in Pages /\ page[active] = "open" /\ SendTo(active, receiver.frame)
    BY <1>4 DEF Forward, TypeOK
  <2>2. \A p \in Pages : p # active => inbox'[p] = inbox[p]
    BY <2>1 DEF SendTo, TypeOK
  <2>3. active' \in {active, NoPage}
    BY <1>4 DEF Forward
  <2> QED BY <1>4, <2>2, <2>3, PageAssumption DEF Forward
<1>5. ASSUME NEW q \in Pages, Accept(q) PROVE Unheard'
  BY <1>5 DEF Accept, TypeOK
<1>6. CASE Greet
  <2>1. acceptor.at = "greet" /\ acceptor'.at \in {"wait", "publish"}
    BY <1>6 DEF Greet, TypeOK
  <2>2. \A p \in Pages : page[p] \in {"unopened", "connecting"} => inbox'[p] = inbox[p]
    BY <1>6 DEF Greet, SendTo, TypeOK
  <2>3. \/ acceptor' = [acceptor EXCEPT !.at = "publish"]
        \/ acceptor' = [at |-> "wait"]
    BY <1>6 DEF Greet
  <2>4. acceptor'.at # "wait" => acceptor'.page = acceptor.page
    <3>1. acceptor \in [at : {"greet", "publish"}, page : Pages, progress : 0 .. 100]
      BY <2>1 DEF TypeOK
    <3> QED BY <2>3, <3>1
  <2>5. acceptor'.at # "wait" => page'[acceptor'.page] \in {"open", "closed"}
    BY <1>6, <2>1, <2>4 DEF Greet
  <2> QED BY <1>6, <2>1, <2>2, <2>5 DEF Greet
<1>7. CASE Publish
  BY <1>7 DEF Publish, TypeOK, pageVars
<1>8. ASSUME NEW q \in Pages, Resume(q) \/ Close(q) PROVE Unheard'
  BY <1>8 DEF Resume, Close, TypeOK, server
<1>9. ASSUME NEW q \in Pages, Handle(q) PROVE Unheard'
  <2>1. page[q] = "open" /\ inbox[q] # <<>>
    BY <1>9 DEF Handle
  <2>2. \A p \in Pages : p # q => inbox'[p] = inbox[p] /\ shown'[p] = shown[p]
    BY <1>9 DEF Handle, TypeOK
  <2> QED BY <1>9, <2>1, <2>2 DEF Handle, server
<1>10. CASE UNCHANGED vars
  BY <1>10 DEF vars, server, pageVars
<1> QED
  BY <1>1, <1>2, <1>3, <1>4, <1>5, <1>6, <1>7, <1>8, <1>9, <1>10 DEF Next

LEMMA LastStep == TypeOK /\ Unheard /\ LastInv /\ [Next]_vars => LastInv'
<1> SUFFICES ASSUME TypeOK, Unheard, LastInv, [Next]_vars PROVE LastInv'
  OBVIOUS
<1> DEFINE Ended == orch \in {"told", "failed"}
<1>0. ~Ended => /\ \A k \in 1 .. Len(channel) : ~Final(channel[k])
                /\ receiver.at = "send" => ~Final(receiver.frame.kind)
  BY DEF LastInv
<1>00. ASSUME NEW p \in Pages, ~Quiet(p)
       PROVE  /\ \A k \in 1 .. Len(inbox[p]) : ~Final(inbox[p][k].kind)
              /\ ~Final(shown[p].kind)
  BY <1>00 DEF LastInv
<1>1. CASE Install
  <2>1. ~Ended /\ UNCHANGED <<server, pageVars>>
    BY <1>1 DEF Install, Spawn
  <2>2. \A p \in Pages : ~Quiet(p)
    BY <2>1 DEF Quiet
  <2> QED BY <1>0, <1>00, <2>1, <2>2 DEF LastInv, server, pageVars
<1>2. CASE Orchestrate \/ StageSays
  <2>1. ~Ended /\ UNCHANGED <<receiver, acceptor, pageVars>>
    BY <1>2 DEF Orchestrate, StageSays, Announce, Advance, Complete, Tell, Fail, Die
  <2>2. \A p \in Pages : ~Quiet(p)
    BY <2>1 DEF Quiet
  <2>3. \/ UNCHANGED channel
        \/ \E m \in Messages : channel' = Append(channel, m) /\ (Final(m) => Ended')
    BY <1>2 DEF Orchestrate, StageSays, SendMessage, Messages, Tell, Fail, Final
  <2>4. ASSUME NEW k \in 1 .. Len(channel'), Final(channel'[k])
        PROVE  k = Len(channel') /\ Ended'
    <3>1. CASE UNCHANGED channel
      BY <1>0, <2>1, <2>4, <3>1
    <3>2. ASSUME NEW m \in Messages, channel' = Append(channel, m), Final(m) => Ended'
          PROVE  k = Len(channel') /\ Ended'
      <4>1. channel \in Seq(Messages) BY DEF TypeOK
      <4>2. \/ k \in 1 .. Len(channel) /\ channel'[k] = channel[k]
            \/ k = Len(channel') /\ channel'[k] = m
        BY <3>2, <4>1
      <4> QED BY <1>0, <2>1, <2>4, <3>2, <4>2
    <3> QED BY <2>3, <3>1, <3>2
  <2> QED BY <1>0, <1>00, <2>1, <2>2, <2>4 DEF LastInv, pageVars
<1>3. CASE Receive
  <2>1. /\ channel \in Seq(Messages) /\ channel # <<>> /\ channel' = Tail(channel)
        /\ receiver' = [at |-> "send",
                        frame |-> [kind |-> Head(channel), progress |-> progress]]
        /\ UNCHANGED <<orch, pageVars>>
    BY <1>3 DEF Receive, TypeOK, orchVars
  <2>2. \A p \in Pages : ~Quiet(p)
    BY <2>1 DEF Quiet
  <2>3. Final(channel[1]) => channel' = <<>> /\ Ended'
    BY <2>1 DEF LastInv
  <2>4. ASSUME NEW k \in 1 .. Len(channel'), Final(channel'[k])
        PROVE  k = Len(channel') /\ Ended'
    <3>1. k + 1 \in 1 .. Len(channel) /\ channel'[k] = channel[k + 1]
          /\ Len(channel') = Len(channel) - 1
      <4>1. channel \in Seq(Messages) /\ channel # <<>> /\ channel' = Tail(channel)
        BY <2>1
      <4> QED BY <4>1
    <3>2. k + 1 = Len(channel) /\ orch \in {"told", "failed"}
      <4>1. \A j \in 1 .. Len(channel) :
              Final(channel[j]) => j = Len(channel) /\ orch \in {"told", "failed"}
        BY DEF LastInv
      <4>2. Final(channel[k + 1])
        BY <2>4, <3>1
      <4> QED BY <3>1, <4>1, <4>2
    <3>3. k \in Nat /\ Len(channel) \in Nat
      BY <2>1, <2>4
    <3>4. k = Len(channel')
      BY <3>1, <3>2, <3>3
    <3> QED BY <2>1, <3>2, <3>4
  <2>5. receiver'.frame.kind = channel[1]
    BY <2>1
  <2> QED BY <1>00, <2>1, <2>2, <2>3, <2>4, <2>5 DEF LastInv, pageVars
<1>4. CASE Forward
  <2>1. /\ receiver.at = "send" /\ receiver' = [at |-> "wait"]
        /\ UNCHANGED <<orch, channel, acceptor, page, shown>>
    BY <1>4 DEF Forward, orchVars
  <2>2. \A p \in Pages : ~Quiet(p)
    BY <2>1 DEF Quiet
  <2>3. \/ UNCHANGED inbox
        \/ active \in Pages /\ page[active] = "open" /\ SendTo(active, receiver.frame)
    BY <1>4 DEF Forward, TypeOK
  <2>4. ASSUME NEW p \in Pages, NEW k \in 1 .. Len(inbox'[p]),
               Final(inbox'[p][k].kind)
        PROVE  k = Len(inbox'[p]) /\ Quiet(p)'
    <3>1. CASE UNCHANGED inbox
      BY <1>00, <2>2, <2>4, <3>1
    <3>2. CASE active \in Pages /\ page[active] = "open" /\ SendTo(active, receiver.frame)
      <4>1. inbox \in [Pages -> Seq(Frames)] /\ receiver.frame \in Frames
        BY <2>1 DEF TypeOK
      <4>2. p = active /\ k = Len(inbox[p]) + 1 /\ inbox'[p][k] = receiver.frame
        BY <1>00, <2>2, <2>4, <3>2, <4>1, Joins
      <4>3. Len(inbox'[p]) = Len(inbox[p]) + 1
        BY <3>2, <4>1, <4>2 DEF SendTo
      <4>4. channel = <<>> /\ Ended
        BY <2>1, <2>4, <4>2 DEF LastInv
      <4>5. ~(acceptor.at = "greet" /\ acceptor.page = p)
        BY <3>2, <4>2 DEF Unheard
      <4> QED BY <2>1, <3>2, <4>2, <4>3, <4>4, <4>5 DEF Quiet
    <3> QED BY <2>3, <3>1, <3>2
  <2> QED BY <1>00, <2>1, <2>2, <2>4 DEF LastInv
<1>5. ASSUME NEW q \in Pages, Accept(q) PROVE LastInv'
  <2>1. ASSUME NEW p \in Pages, p # q, Quiet(p) PROVE Quiet(p)'
    BY <1>5, <2>1 DEF Accept, Quiet, TypeOK, orchVars
  <2>2. ~Quiet(q)
    BY <1>5 DEF Accept, Quiet
  <2> QED BY <1>00, <1>5, <2>1, <2>2 DEF Accept, LastInv, orchVars
<1>6. CASE Greet
  <2> DEFINE a == acceptor.page
  <2>1. /\ acceptor \in [at : {"greet", "publish"}, page : Pages, progress : 0 .. 100]
        /\ a \in Pages /\ acceptor.at = "greet" /\ acceptor'.at # "greet"
        /\ UNCHANGED <<orch, channel, receiver, page, shown>>
    BY <1>6 DEF Greet, TypeOK, orchVars
  <2>2. ~Quiet(a)
    BY <2>1 DEF Quiet
  <2>3. \A p \in Pages : Quiet(p) => Quiet(p)'
    BY <2>1 DEF Quiet
  <2>4. \A p \in Pages : p # a => inbox'[p] = inbox[p]
    BY <1>6 DEF Greet, SendTo, TypeOK
  <2>5. ASSUME NEW k \in 1 .. Len(inbox'[a]) PROVE ~Final(inbox'[a][k].kind)
    <3>1. CASE UNCHANGED inbox
      BY <1>00, <2>1, <2>2, <2>5, <3>1
    <3>2. CASE SendTo(a, [kind |-> "hello", progress |-> acceptor.progress])
      <4>1. /\ inbox \in [Pages -> Seq(Frames)]
            /\ [kind |-> "hello", progress |-> acceptor.progress] \in Frames
        BY <2>1 DEF TypeOK, Frames
      <4>2. \/ k \in 1 .. Len(inbox[a]) /\ inbox'[a][k] = inbox[a][k]
            \/ inbox'[a][k].kind = "hello"
        BY <2>1, <2>5, <3>2, <4>1, Joins
      <4> QED BY <1>00, <2>1, <2>2, <4>2 DEF Final
    <3> QED BY <1>6, <3>1, <3>2 DEF Greet
  <2> HIDE DEF a
  <2>6. ASSUME NEW p \in Pages, NEW k \in 1 .. Len(inbox'[p]),
               Final(inbox'[p][k].kind)
        PROVE  k = Len(inbox'[p]) /\ Quiet(p)'
    <3>1. p # a
      BY <2>5, <2>6
    <3> QED BY <2>3, <2>4, <2>6, <3>1 DEF LastInv
  <2>7. ASSUME NEW p \in Pages, Final(shown'[p].kind)
        PROVE  inbox'[p] = <<>> /\ Quiet(p)'
    <3>1. Final(shown[p].kind)
      BY <2>1, <2>7
    <3>2. p # a
      BY <1>00, <2>1, <2>2, <3>1
    <3> QED BY <2>3, <2>4, <3>1, <3>2 DEF LastInv
  <2> QED BY <2>1, <2>6, <2>7 DEF LastInv
<1>7. CASE Publish
  BY <1>7 DEF Publish, LastInv, Quiet, pageVars, orchVars
<1>8. ASSUME NEW q \in Pages, Resume(q) \/ Close(q) PROVE LastInv'
  <2>1. UNCHANGED <<orch, channel, receiver, acceptor, inbox, shown>>
    BY <1>8 DEF Resume, Close, orchVars, server
  <2>2. ASSUME NEW p \in Pages, Quiet(p) PROVE Quiet(p)'
    BY <1>8, <2>1, <2>2 DEF Resume, Close, Quiet, TypeOK
  <2> QED BY <2>1, <2>2 DEF LastInv
<1>9. ASSUME NEW q \in Pages, Handle(q) PROVE LastInv'
  <2>1. UNCHANGED <<orch, channel, receiver, acceptor, page>>
    BY <1>9 DEF Handle, orchVars, server
  <2>2. \A p \in Pages : Quiet(p) => Quiet(p)'
    BY <2>1 DEF Quiet
  <2>3. ASSUME NEW p \in Pages, NEW k \in 1 .. Len(inbox'[p]),
               Final(inbox'[p][k].kind)
        PROVE  k = Len(inbox'[p]) /\ Quiet(p)'
    <3>1. CASE p # q
      <4>1. inbox'[p] = inbox[p]
        BY <1>9, <3>1 DEF Handle, TypeOK
      <4> QED BY <2>2, <2>3, <4>1 DEF LastInv
    <3>2. CASE p = q
      <4>1. k + 1 \in 1 .. Len(inbox[p]) /\ inbox'[p][k] = inbox[p][k + 1]
        BY <1>9, <2>3, <3>2, Leaves DEF TypeOK
      <4>2. k + 1 = Len(inbox[p]) /\ Quiet(p)
        BY <2>3, <4>1 DEF LastInv
      <4>3. Len(inbox'[p]) = Len(inbox[p]) - 1
        <5>1. inbox[p] \in Seq(Frames) /\ inbox[p] # <<>> /\ inbox'[p] = Tail(inbox[p])
          BY <1>9, <3>2 DEF Handle, TypeOK
        <5> QED BY <5>1
      <4> QED BY <2>2, <2>3, <4>2, <4>3
    <3> QED BY <3>1, <3>2
  <2>4. ASSUME NEW p \in Pages, Final(shown'[p].kind)
        PROVE  inbox'[p] = <<>> /\ Quiet(p)'
    <3>1. CASE p # q
      <4>1. inbox'[p] = inbox[p] /\ shown'[p] = shown[p]
        BY <1>9, <3>1 DEF Handle, TypeOK
      <4> QED BY <2>2, <2>4, <4>1 DEF LastInv
    <3>2. CASE p = q
      <4>1. /\ inbox[p] \in Seq(Frames) /\ inbox[p] # <<>>
            /\ inbox'[p] = Tail(inbox[p]) /\ shown'[p] = inbox[p][1]
        BY <1>9, <3>2 DEF Handle, TypeOK
      <4>2. 1 \in 1 .. Len(inbox[p])
        BY <4>1
      <4>3. Final(inbox[p][1].kind)
        BY <2>4, <4>1
      <4>4. 1 = Len(inbox[p]) /\ Quiet(p)
        <5>1. \A j \in 1 .. Len(inbox[p]) :
                Final(inbox[p][j].kind) => j = Len(inbox[p]) /\ Quiet(p)
          BY DEF LastInv
        <5> QED BY <4>2, <4>3, <5>1
      <4>5. Tail(inbox[p]) = <<>>
        <5>1. Tail(inbox[p]) \in Seq(Frames) /\ Len(Tail(inbox[p])) = 0
          BY <4>1, <4>4
        <5> QED BY <5>1, EmptySeq
      <4> QED BY <2>2, <4>1, <4>4, <4>5
    <3> QED BY <3>1, <3>2
  <2> QED BY <2>1, <2>3, <2>4 DEF LastInv
<1>10. CASE UNCHANGED vars
  BY <1>10 DEF vars, server, pageVars, orchVars, LastInv, Quiet
<1> QED
  BY <1>1, <1>2, <1>3, <1>4, <1>5, <1>6, <1>7, <1>8, <1>9, <1>10 DEF Next

LEMMA Stands ==
  ASSUME TypeOK, LastInv, [Next]_vars
  PROVE  [\A p \in Pages :
            shown[p].kind \in {"finished", "failed"} => shown'[p] = shown[p]]_vars
<1> SUFFICES ASSUME NEW p \in Pages, Final(shown[p].kind) PROVE shown'[p] = shown[p]
  BY DEF Final
<1>1. inbox[p] = <<>>
  BY DEF LastInv
<1>2. ASSUME NEW q \in Pages, Handle(q) PROVE shown'[p] = shown[p]
  BY <1>1, <1>2 DEF Handle, TypeOK
<1>3. CASE \A q \in Pages : ~Handle(q)
  BY <1>3 DEF Next, vars, pageVars, server, Install, Orchestrate, StageSays, Receive,
     Forward, Accept, Greet, Publish, Resume, Close
<1> QED BY <1>2, <1>3

LEMMA Initially == Init => TypeOK /\ FullIsDone /\ Unheard /\ LastInv
<1> SUFFICES ASSUME Init PROVE TypeOK /\ FullIsDone /\ Unheard /\ LastInv
  OBVIOUS
<1>1. OrchTypeOK
  BY StagesAssumption DEF Init, OrchInit, OrchTypeOK, OrchStates
<1>2. channel \in Seq(Messages)
  BY DEF Init, Messages
<1>3. TypeOK
  BY <1>1, <1>2, PageAssumption DEF Init, TypeOK
<1>4. FullIsDone
  BY DEF Init, OrchInit, FullIsDone, AlertIsTrue
<1>5. Unheard
  BY PageAssumption DEF Init, Unheard
<1>6. LastInv
  BY DEF Init, LastInv, Final
<1> QED BY <1>3, <1>4, <1>5, <1>6

(* The types of all variables. *)
THEOREM Typing == Spec => []TypeOK
BY Initially, TypeStep, PTL DEF Spec

(* setup-progress.html says that the installation finished on a progress   *)
(* of 100, and no thread reads 100 before the last stage is over.          *)
THEOREM Alerts == Spec => []AlertIsTrue
<1>1. TypeOK /\ FullIsDone /\ [Next]_vars => (TypeOK /\ FullIsDone)'
  BY TypeStep, FullStep
<1>2. FullIsDone => AlertIsTrue
  BY DEF FullIsDone
<1> QED BY Initially, <1>1, <1>2, PTL DEF Spec

(* After the last word of the setup a page is shown nothing: the channel   *)
(* is empty, the receiving thread waits, and the greeting, which another   *)
(* thread sends, was sent before the page became the active client.        *)
THEOREM LastWord == Spec => LastWordStands
<1>1. TypeOK /\ Unheard /\ LastInv /\ [Next]_vars => (TypeOK /\ Unheard /\ LastInv)'
  BY TypeStep, UnheardStep, LastStep
<1>2. TypeOK /\ LastInv /\ [Next]_vars
        => [\A p \in Pages :
              shown[p].kind \in {"finished", "failed"} => shown'[p] = shown[p]]_vars
  BY Stands
<1> QED BY Initially, <1>1, <1>2, PTL DEF Spec, LastWordStands
=============================================================================
