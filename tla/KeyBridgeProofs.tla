--------------------------- MODULE KeyBridgeProofs ---------------------------
(***************************************************************************)
(* Theorems about KeyBridge, for any keys and any bound: that no queued    *)
(* event is forgotten, that at most one comes late, and that the guest     *)
(* agrees with the keyboard.  The last speaks of a fold over the queues,   *)
(* so that what the fold comes to is proved first, by induction.           *)
(***************************************************************************)
EXTENDS KeyBridge, TLAPS, WellFoundedInduction

\* Both properties need only the types of the bridge, and each is inductive with
\* them: a key is queued one step before its event is posted by the same thread,
\* and after a deactivation the check is never passed again.
BridgeInv == BridgeTypeOK /\ QueuedIsAnnounced /\ OneLateKey

\* The steps that leave alone all the bridge is made of.
LEMMA BridgeStutters ==
  ASSUME BridgeInv, UNCHANGED <<ui, active, pending, ready>>
  PROVE  BridgeInv'
  BY DEF BridgeInv, BridgeTypeOK, QueuedIsAnnounced, OneLateKey, KeyEvent, Key

\* A key is taken on: by the service, of an active runtime only, or forwarded.
LEMMA TakingKeeps ==
  ASSUME BridgeInv, NEW e \in KeyEvent, ServiceTakes(e) \/ Forward(e)
  PROVE  BridgeInv'
<1>1. /\ ui = Idle /\ ui' = [at |-> "push", event |-> e]
      /\ UNCHANGED <<active, pending, ready>>
  BY DEF ServiceTakes, Forward, Bridged, Strikes, loopVars
<1>2. active \/ ~e.asked
  BY DEF ServiceTakes, Forward, PassedOn
<1>3. BridgeTypeOK'
  BY <1>1 DEF BridgeInv, BridgeTypeOK
<1>4. QueuedIsAnnounced'
  BY <1>1 DEF BridgeInv, QueuedIsAnnounced, Idle
<1>5. OneLateKey'
  BY <1>1, <1>2 DEF BridgeInv, OneLateKey
<1> QED
  BY <1>3, <1>4, <1>5 DEF BridgeInv

\* The event in hand is queued, as the only one of the service's if late.
LEMMA PushKeeps ==
  ASSUME BridgeInv, Push
  PROVE  BridgeInv'
<1> DEFINE last == Len(pending) + 1
<1>1. /\ ui.at = "push" /\ ui.event \in KeyEvent
      /\ ui' = [at |-> "send", event |-> ui.event]
      /\ UNCHANGED <<active, ready>>
  BY DEF Push, BridgeInv, BridgeTypeOK
<1>2. pending \in Seq(KeyEvent) /\ pending' = Append(pending, ui.event)
  BY DEF Push, BridgeInv, BridgeTypeOK
<1>3. BridgeTypeOK'
  BY <1>1, <1>2 DEF BridgeInv, BridgeTypeOK
<1>4. QueuedIsAnnounced'
  BY <1>1 DEF QueuedIsAnnounced
<1>5. OneLateKey'
  <2> SUFFICES ASSUME ~active,
                      NEW i \in DOMAIN pending', NEW j \in DOMAIN pending',
                      pending'[i].asked, pending'[j].asked
               PROVE  i = j
    BY <1>1 DEF OneLateKey
  <2>1. DOMAIN pending = 1 .. Len(pending) /\ DOMAIN pending' = 1 .. last
    BY <1>1, <1>2
  <2>2. pending'[last] = ui.event /\ \A k \in DOMAIN pending : pending'[k] = pending[k]
    BY <1>1, <1>2
  <2>3. CASE i # last /\ j # last
    BY <2>1, <2>2, <2>3 DEF BridgeInv, OneLateKey
  <2>4. CASE i = last \/ j = last
    BY <1>1, <2>1, <2>2, <2>4 DEF BridgeInv, OneLateKey
  <2> QED
    BY <2>3, <2>4
<1> QED
  BY <1>3, <1>4, <1>5 DEF BridgeInv

LEMMA SendKeeps ==
  ASSUME BridgeInv, Send
  PROVE  BridgeInv'
<1>1. /\ ui.at = "send" /\ ui' = Idle /\ ready \in Nat /\ ready' = ready + 1
      /\ UNCHANGED <<active, pending>>
  BY DEF Send, BridgeInv, BridgeTypeOK
<1> QED
  BY <1>1 DEF BridgeInv, BridgeTypeOK, QueuedIsAnnounced, OneLateKey, Idle, KeyEvent, Key

\* The queue is emptied, by a handler that drains it or by a deactivation.
LEMMA EmptyingKeeps ==
  ASSUME BridgeInv, UNCHANGED ui, pending' = <<>>, active' \in BOOLEAN, ready' \in Nat
  PROVE  BridgeInv'
<1>1. pending' \in Seq(KeyEvent) /\ DOMAIN pending' = {}
  OBVIOUS
<1> QED
  BY <1>1 DEF BridgeInv, BridgeTypeOK, QueuedIsAnnounced, OneLateKey, KeyEvent, Key

\* Every step of the system, one by one.
LEMMA BridgeStep ==
  ASSUME BridgeInv, [Next]_vars
  PROVE  BridgeInv'
<1> USE DEF vars, loopVars
<1>1. CASE UNCHANGED vars
  BY <1>1, BridgeStutters
<1>2. ASSUME NEW e \in KeyEvent, ServiceTakes(e) \/ Forward(e) \/ WindowGets(e)
      PROVE  BridgeInv'
  <2>1. CASE WindowGets(e)
    BY <2>1, BridgeStutters DEF WindowGets
  <2> QED
    BY <1>2, <2>1, TakingKeeps
<1>3. CASE Push
  BY <1>3, PushKeeps
<1>4. CASE Send
  BY <1>4, SendKeeps
<1>5. CASE ReadyArrives
  <2>1. /\ ready' \in Nat /\ pending' = <<>>
        /\ active' \in BOOLEAN /\ UNCHANGED ui
    BY <1>5 DEF ReadyArrives, BridgeInv, BridgeTypeOK
  <2> QED
    BY <2>1, EmptyingKeeps
<1>6. CASE KeyArrives
  BY <1>6, BridgeStutters DEF KeyArrives
<1>7. ASSUME Deactivate, UNCHANGED <<ui, ready>>
      PROVE  BridgeInv'
  <2>1. /\ ready' \in Nat /\ pending' = <<>>
        /\ active' \in BOOLEAN /\ UNCHANGED ui
    BY <1>7 DEF Deactivate, BridgeInv, BridgeTypeOK
  <2> QED
    BY <2>1, EmptyingKeeps
<1>8. CASE RenderFails
  BY <1>7, <1>8 DEF RenderFails
<1>9. ASSUME NEW bound \in BOOLEAN, Resumed(bound)
      PROVE  BridgeInv'
  <2>1. CASE renderer'
    <3>1. active' = TRUE /\ UNCHANGED <<ui, pending, ready>>
      BY <1>9, <2>1 DEF Resumed
    <3> QED
      BY <3>1 DEF BridgeInv, BridgeTypeOK, QueuedIsAnnounced, OneLateKey, KeyEvent, Key
  <2>2. CASE ~renderer'
    BY <1>7, <1>9, <2>2 DEF Resumed
  <2> QED
    BY <2>1, <2>2
<1>10. ASSUME NEW monitor \in BOOLEAN, Suspended(monitor)
       PROVE  BridgeInv'
  BY <1>7, <1>10 DEF Suspended
<1> QED
  BY <1>1, <1>2, <1>3, <1>4, <1>5, <1>6, <1>8, <1>9, <1>10 DEF Next

LEMMA BridgeAlways == Spec => []BridgeInv
<1>1. Init => BridgeInv
  <2> SUFFICES ASSUME Init PROVE BridgeInv
    OBVIOUS
  <2>1. ui = Idle /\ ui.at = "idle" /\ active = FALSE /\ pending = <<>> /\ ready = 0
    BY DEF Init, Idle
  <2>2. pending \in Seq(KeyEvent) /\ DOMAIN pending = {}
    BY <2>1
  <2>3. BridgeTypeOK
    BY <2>1, <2>2 DEF BridgeTypeOK, Idle
  <2> QED
    BY <2>1, <2>2, <2>3 DEF BridgeInv, QueuedIsAnnounced, OneLateKey
<1>2. BridgeInv /\ [Next]_vars => BridgeInv'
  BY BridgeStep
<1> QED
  BY <1>1, <1>2, PTL DEF Spec

\* No queued key is forgotten: whatever sits in pending_events has a wake-up
\* posted, or about to be (inject_key, user_event).
THEOREM Announcement == Spec => []QueuedIsAnnounced
<1>1. BridgeInv => QueuedIsAnnounced
  BY DEF BridgeInv
<1> QED
  BY <1>1, BridgeAlways, PTL

\* The gap between the check of enqueue_key_event and its push lets one key
\* event of the service through, never two (set_runtime_active, inject_key).
THEOREM LateKeys == Spec => []OneLateKey
<1>1. BridgeInv => OneLateKey
  BY DEF BridgeInv
<1> QED
  BY <1>1, BridgeAlways, PTL

-----------------------------------------------------------------------------
(* What a sequence of key events comes to.  Induction is by the least number: *)
(* were there one for which the fold and Latest differ, there would be a least. *)

\* The order of the natural numbers, as a relation.
Under == {ss \in Nat \X Nat : ss[1] < ss[2]}

\* A set of numbers that is not empty has a least one.
LEMMA Least ==
  ASSUME NEW T \in SUBSET Nat, T # {}
  PROVE \E x \in T : \A y \in T : x <= y
<1>1. OpToRel(<, Nat) = Under
  BY DEF OpToRel, Under
<1>2. IsWellFoundedOn(Under, Nat)
  BY <1>1, NatLessThanWellFounded, Zenon
<1>3. PICK x \in T : \A y \in T : ~ (<<y, x>> \in Under)
  BY <1>2, WFMin
<1>4. ASSUME NEW y \in T PROVE x <= y
  <2>1. x \in Nat /\ y \in Nat /\ <<y, x>> \notin Under
    BY <1>3
  <2> QED
    BY <2>1 DEF Under
<1> QED
  BY <1>4

\* So does a set of numbers with a bound have a greatest, which Max is.
LEMMA MaxIs ==
  ASSUME NEW n \in Nat, NEW s \in SUBSET (1 .. n), s # {}
  PROVE  Max(s) \in s /\ \A i \in s : i <= Max(s)
<1> DEFINE T == {n - i : i \in s}
<1>0. \A i \in s : i \in Nat /\ n - i \in T /\ n - i \in Nat
  OBVIOUS
<1>1. T \in SUBSET Nat /\ T # {}
  BY <1>0
<1>2. PICK t \in T : \A y \in T : t <= y
  BY <1>1, Least
<1>3. PICK m \in s : t = n - m
  BY <1>2
<1>4. ASSUME NEW i \in s PROVE m >= i
  <2>1. t <= n - i
    BY <1>0, <1>2
  <2>2. n - m <= n - i /\ m \in Nat /\ i \in Nat
    BY <1>0, <1>3, <2>1
  <2> QED
    BY <2>2
<1>5. \E x \in s : \A y \in s : x >= y
  BY <1>4
<1> QED
  BY <1>5 DEF Max

\* What the guest holds once the events of `s` have come upon `down`.
Latest(down, events, s) ==
  {k \in Key :
     \/ k \in down /\ \A j \in s : events[j].key # k
     \/ \E i \in s : /\ events[i].key = k /\ events[i].down
                     /\ \A j \in s : j > i => events[j].key # k}

\* The last event of `s` comes upon what those before it have left.
LEMMA LatestStep ==
  ASSUME NEW down \in SUBSET Key, NEW events \in Seq(KeyEvent),
         NEW s \in SUBSET DOMAIN events, s # {}
  PROVE  /\ Max(s) \in s
         /\ s \ {Max(s)} \in SUBSET (1 .. (Max(s) - 1))
         /\ Latest(down, events, s) = Press(Latest(down, events, s \ {Max(s)}), events[Max(s)])
<1> DEFINE m == Max(s)
<1>1. DOMAIN events = 1 .. Len(events) /\ Len(events) \in Nat
  OBVIOUS
<1>2. m \in s /\ \A i \in s : i <= m
  BY <1>1, MaxIs
<1> HIDE DEF m
<1>3. events[m] \in KeyEvent
  BY <1>1, <1>2
<1>4. ASSUME NEW k \in Key, k # events[m].key
      PROVE  k \in Latest(down, events, s) <=> k \in Latest(down, events, s \ {m})
  BY <1>1, <1>2, <1>4 DEF Latest
<1>5. events[m].key \in Latest(down, events, s) <=> events[m].down
  BY <1>1, <1>2, <1>3 DEF Latest, KeyEvent
<1>6. Latest(down, events, s) = Press(Latest(down, events, s \ {m}), events[m])
  BY <1>3, <1>4, <1>5 DEF Press, KeyEvent, Latest
<1>7. s \ {m} \in SUBSET (1 .. (m - 1))
  BY <1>1, <1>2
<1> QED
  BY <1>2, <1>6, <1>7 DEF m

\* The fold of KeyBridge is what its last events say.
LEMMA FoldIsLatest ==
  ASSUME NEW down \in SUBSET Key, NEW events \in Seq(KeyEvent)
  PROVE  FoldLeft(Press, down, events) = Latest(down, events, DOMAIN events)
<1> DEFINE S == DOMAIN events
           Eq(g) == g = [s \in SUBSET S |->
                           IF s = {} THEN down
                           ELSE Press(g[s \ {Max(s)}], events[Max(s)])]
           h == [s \in SUBSET S |-> Latest(down, events, s)]
           f == CHOOSE g : Eq(g)
<1>1. FoldLeft(Press, down, events) = f[S]
  BY DEF FoldLeft, MapThenFoldSet
<1>2. Eq(h)
  <2>1. ASSUME NEW s \in SUBSET S
        PROVE  h[s] = IF s = {} THEN down
                      ELSE Press(h[s \ {Max(s)}], events[Max(s)])
    <3>1. CASE s = {}
      BY <3>1 DEF Latest
    <3>2. CASE s # {}
      <4>1. s \ {Max(s)} \in SUBSET S
        OBVIOUS
      <4> QED
        BY <3>2, <4>1, LatestStep
    <3> QED
      BY <3>1, <3>2
  <2> QED
    BY <2>1
<1>3. Eq(f)
  BY <1>2
<1> HIDE DEF f
<1>4. \A s \in SUBSET S : f[s] = IF s = {} THEN down ELSE Press(f[s \ {Max(s)}], events[Max(s)])
  <2> DEFINE F == [s \in SUBSET S |->
                     IF s = {} THEN down ELSE Press(f[s \ {Max(s)}], events[Max(s)])]
  <2>1. f = F
    BY <1>3
  <2>2. \A s \in SUBSET S : F[s] = IF s = {} THEN down ELSE Press(f[s \ {Max(s)}], events[Max(s)])
    OBVIOUS
  <2> HIDE DEF F
  <2> QED
    BY <2>1, <2>2
<1> DEFINE Odd == {n \in Nat : \E s \in SUBSET S :
                      s \subseteq 1 .. n /\ f[s] # Latest(down, events, s)}
<1>5. Odd = {}
  <2> SUFFICES ASSUME Odd # {} PROVE FALSE
    OBVIOUS
  <2>1. PICK n \in Odd : \A y \in Odd : n <= y
    BY Least
  <2>2. PICK s \in SUBSET S : s \subseteq 1 .. n /\ f[s] # Latest(down, events, s)
    BY <2>1
  <2>3. s # {}
    BY <2>2, <1>4 DEF Latest
  <2>4. /\ Max(s) \in s
        /\ s \ {Max(s)} \in SUBSET (1 .. (Max(s) - 1))
        /\ Latest(down, events, s) = Press(Latest(down, events, s \ {Max(s)}), events[Max(s)])
    BY <2>3, LatestStep
  <2>5. Max(s) \in 1 .. n /\ Max(s) - 1 \in Nat /\ Max(s) - 1 < n
    BY <2>1, <2>2, <2>4
  <2>6. Max(s) - 1 \notin Odd
    BY <2>1, <2>5
  <2>7. f[s \ {Max(s)}] = Latest(down, events, s \ {Max(s)})
    BY <2>4, <2>5, <2>6
  <2>8. f[s] = Press(f[s \ {Max(s)}], events[Max(s)])
    BY <1>4, <2>3
  <2> QED
    BY <2>2, <2>4, <2>7, <2>8
<1>6. f[S] = Latest(down, events, S)
  <2>1. S = 1 .. Len(events) /\ Len(events) \in Nat /\ S \in SUBSET S
    OBVIOUS
  <2>2. Len(events) \notin Odd
    BY <1>5
  <2> QED
    BY <2>1, <2>2
<1> QED
  BY <1>1, <1>6

\* What the guest holds once all of `events` have come upon `down`.
After(down, events) == Latest(down, events, DOMAIN events)

LEMMA AfterIsKeys ==
  ASSUME NEW down, NEW events
  PROVE  After(down, events) \in SUBSET Key
  BY DEF After, Latest

LEMMA AfterNone ==
  ASSUME NEW down \in SUBSET Key
  PROVE  After(down, <<>>) = down
  BY DEF After, Latest

\* One event more comes upon what the others have left.
LEMMA AfterAppend ==
  ASSUME NEW down \in SUBSET Key, NEW events \in Seq(KeyEvent), NEW e \in KeyEvent
  PROVE  After(down, Append(events, e)) = Press(After(down, events), e)
<1> DEFINE all == Append(events, e)
           n == Len(events) + 1
<1>1. /\ DOMAIN events = 1 .. Len(events) /\ DOMAIN all = 1 .. n /\ Len(events) \in Nat
      /\ all[n] = e /\ \A i \in DOMAIN events : all[i] = events[i]
  OBVIOUS
<1> HIDE DEF all
<1>2. ASSUME NEW k \in Key, k # e.key
      PROVE  k \in After(down, all) <=> k \in After(down, events)
  BY <1>1, <1>2 DEF After, Latest
<1>3. e.key \in After(down, all) <=> e.down
  BY <1>1 DEF After, Latest, KeyEvent
<1>4. After(down, all) = Press(After(down, events), e)
  BY <1>2, <1>3, AfterIsKeys DEF Press, KeyEvent
<1> QED
  BY <1>4 DEF all

LEMMA AfterOne ==
  ASSUME NEW down \in SUBSET Key, NEW e \in KeyEvent
  PROVE  After(down, <<e>>) = Press(down, e)
<1>1. <<e>> = Append(<<>>, e) /\ <<>> \in Seq(KeyEvent)
  OBVIOUS
<1>2. After(down, Append(<<>>, e)) = Press(After(down, <<>>), e)
  BY <1>1, AfterAppend
<1> QED
  BY <1>1, <1>2, AfterNone

\* Some events and then others: what counts is the last of a key's.
LEMMA AfterBoth ==
  ASSUME NEW down \in SUBSET Key, NEW a \in Seq(KeyEvent), NEW b \in Seq(KeyEvent)
  PROVE  After(down, a \o b) = After(After(down, a), b)
<1> DEFINE all == a \o b
           m == Len(a)
           n == Len(b)
<1>1. /\ m \in Nat /\ n \in Nat
      /\ DOMAIN a = 1 .. m /\ DOMAIN b = 1 .. n /\ DOMAIN all = 1 .. (m + n)
      /\ \A i \in 1 .. m : all[i] = a[i]
      /\ \A i \in 1 .. n : m + i \in 1 .. (m + n) /\ all[m + i] = b[i]
      /\ \A i \in (m + 1) .. (m + n) : i - m \in 1 .. n /\ all[i] = b[i - m]
  OBVIOUS
<1> HIDE DEF all, m, n
<1>2. ASSUME NEW k \in Key, NEW i \in 1 .. n, b[i].key = k,
             \A j \in 1 .. n : j > i => b[j].key # k
      PROVE  /\ k \in After(down, all) <=> b[i].down
             /\ k \in After(After(down, a), b) <=> b[i].down
  <2>1. \A j \in 1 .. (m + n) : j > m + i => all[j].key # k
    BY <1>1, <1>2
  <2>2. m + i \in 1 .. (m + n) /\ all[m + i] = b[i]
    BY <1>1
  <2>3. k \in After(down, all) <=> b[i].down
    BY <1>1, <1>2, <2>1, <2>2 DEF After, Latest
  <2>4. ASSUME NEW d PROVE k \in After(d, b) <=> b[i].down
    <3>1. i \in DOMAIN b /\ \A j \in DOMAIN b : j > i => b[j].key # k
      BY <1>1, <1>2
    <3>2. b[i].down => k \in After(d, b)
      BY <1>2, <3>1 DEF After, Latest
    <3>3. ASSUME NEW j \in DOMAIN b, b[j].key = k,
                 \A l \in DOMAIN b : l > j => b[l].key # k
          PROVE  j = i
      BY <1>1, <1>2, <3>1, <3>3
    <3>4. k \in After(d, b) => b[i].down
      BY <1>2, <3>1, <3>3 DEF After, Latest
    <3> QED
      BY <3>2, <3>4
  <2> QED
    BY <2>3, <2>4
<1>3. ASSUME NEW k \in Key, \A j \in 1 .. n : b[j].key # k
      PROVE  k \in After(down, all) <=> k \in After(After(down, a), b)
  <2>1. k \in After(After(down, a), b) <=> k \in After(down, a)
    BY <1>1, <1>3 DEF After, Latest
  <2>2. \A j \in (m + 1) .. (m + n) : all[j].key # k
    BY <1>1, <1>3
  <2>3. k \in After(down, all) <=> k \in After(down, a)
    BY <1>1, <2>2 DEF After, Latest
  <2> QED
    BY <2>1, <2>3
<1>4. ASSUME NEW k \in Key, NEW j \in 1 .. n, b[j].key = k
      PROVE  \E i \in 1 .. n : b[i].key = k /\ \A l \in 1 .. n : l > i => b[l].key # k
  <2> DEFINE s == {i \in 1 .. n : b[i].key = k}
  <2>1. s \in SUBSET (1 .. n) /\ s # {}
    BY <1>4
  <2>2. Max(s) \in s /\ \A i \in s : i <= Max(s)
    BY <1>1, <2>1, MaxIs
  <2> QED
    BY <1>1, <2>2
<1>5. ASSUME NEW k \in Key
      PROVE  k \in After(down, all) <=> k \in After(After(down, a), b)
  <2>1. CASE \A j \in 1 .. n : b[j].key # k
    BY <1>3, <2>1
  <2>2. CASE \E j \in 1 .. n : b[j].key = k
    <3>1. PICK i \in 1 .. n : b[i].key = k /\ \A l \in 1 .. n : l > i => b[l].key # k
      BY <1>4, <2>2
    <3> QED
      BY <1>2, <3>1
  <2> QED
    BY <2>1, <2>2
<1>6. After(down, all) = After(After(down, a), b)
  <2>1. After(down, all) \subseteq Key /\ After(After(down, a), b) \subseteq Key
    BY DEF After, Latest
  <2> QED
    BY <1>5, <2>1, Zenon
<1> QED
  BY <1>6 DEF all

\* A key that none of the events is about stays as it was ...
LEMMA AfterOthers ==
  ASSUME NEW down \in SUBSET Key, NEW events, NEW k \in Key,
         \A i \in DOMAIN events : events[i].key # k
  PROVE  k \in After(down, events) <=> k \in down
  BY DEF After, Latest

\* ... and what becomes of a key is not for other keys to say.
LEMMA AfterIsPerKey ==
  ASSUME NEW a \in SUBSET Key, NEW b \in SUBSET Key, NEW events, NEW k \in Key,
         k \in a <=> k \in b
  PROVE  k \in After(a, events) <=> k \in After(b, events)
  BY DEF After, Latest

-----------------------------------------------------------------------------
(* GuestAgrees *)

Typed ==
  /\ ui \in [at : {"idle"}, event : {NoEvent}] \cup [at : {"push", "send"}, event : KeyEvent]
  /\ pending \in Seq(KeyEvent) /\ window \in Seq(KeyEvent)
  /\ service \in BOOLEAN /\ active \in BOOLEAN /\ front \in BOOLEAN /\ renderer \in BOOLEAN
  /\ held \subseteq Key /\ guest \subseteq Key /\ whole \subseteq Key

\* A key that is whole has events on one of the two ways at most, and none in
\* the window unless there is a renderer to give it to.
OnItsWay(k, events) == \E i \in DOMAIN events : events[i].key = k

Apart ==
  /\ window # <<>> => front
  /\ \A k \in whole :
       OnItsWay(k, window) =>
         /\ renderer
         /\ ~OnItsWay(k, pending)
         /\ ui.at = "push" => ui.event.key # k

InHand == IF ui.at = "push" THEN <<ui.event>> ELSE <<>>

\* The guest's keys once everything under way has arrived.
InTheEnd == After(After(After(guest, window), pending), InHand)

AgreeInv ==
  /\ Typed
  /\ Apart
  /\ \A k \in whole : k \in InTheEnd <=> k \in held

LEMMA AgreeIsEnough == AgreeInv => GuestAgrees
<1> SUFFICES ASSUME AgreeInv PROVE GuestAgrees
  OBVIOUS
<1> DEFINE underWay == window \o pending \o InHand
<1>1. window \in Seq(KeyEvent) /\ pending \in Seq(KeyEvent) /\ guest \in SUBSET Key
  BY DEF AgreeInv, Typed
<1>2. InHand \in Seq(KeyEvent)
  BY DEF AgreeInv, Typed, InHand
<1>3. window \o pending \in Seq(KeyEvent) /\ underWay \in Seq(KeyEvent)
  BY <1>1, <1>2
<1>4. /\ After(guest, window \o pending) = After(After(guest, window), pending)
      /\ After(guest, underWay) = After(After(guest, window \o pending), InHand)
  BY <1>1, <1>2, <1>3, AfterBoth
<1>5. FoldLeft(Press, guest, underWay) = InTheEnd
  BY <1>1, <1>3, <1>4, FoldIsLatest DEF After, InTheEnd
<1> QED
  BY <1>5 DEF GuestAgrees, AgreeInv, InHand

\* Nothing moves that the keys depend on.
LEMMA AgreeStutters ==
  ASSUME AgreeInv, UNCHANGED vars
  PROVE  AgreeInv'
<1>1. UNCHANGED <<service, held, ui, active, pending, window, front, renderer, guest, whole>>
  BY DEF vars
<1>2. UNCHANGED InHand
  BY <1>1 DEF InHand
<1>3. UNCHANGED InTheEnd
  BY <1>1, <1>2 DEF InTheEnd
<1>4. Typed' /\ Apart'
  BY <1>1 DEF AgreeInv, Typed, Apart, OnItsWay
<1> QED
  BY <1>1, <1>3, <1>4 DEF AgreeInv

\* A key event that goes to the bridge is the last of all that is under way.
LEMMA AgreeTaking ==
  ASSUME AgreeInv, NEW e \in KeyEvent, ServiceTakes(e) \/ Forward(e)
  PROVE  AgreeInv'
<1> USE DEF loopVars
<1>1. /\ ui = Idle /\ ui' = [at |-> "push", event |-> e]
      /\ whole' = Followed(e, window)
      /\ held' = IF e.down THEN held \cup {e.key} ELSE held \ {e.key}
      /\ UNCHANGED <<service, active, pending, window, front, renderer, guest>>
  BY DEF ServiceTakes, Forward, Bridged, Strikes
<1>2. e.key \in Key /\ e.down \in BOOLEAN
  BY DEF KeyEvent
<1>3. /\ whole' \subseteq whole \cup {e.key}
      /\ e.key \in whole' => ~OnItsWay(e.key, window)
      /\ whole' \subseteq Key
  BY <1>1, <1>2 DEF Followed, OnItsWay, AgreeInv, Typed
<1>4. Typed'
  BY <1>1, <1>2, <1>3 DEF AgreeInv, Typed
<1>5. Apart'
  BY <1>1, <1>3 DEF AgreeInv, Apart, OnItsWay
<1> DEFINE D == After(After(guest, window), pending)
<1>6. UNCHANGED D
  BY <1>1
<1>7. D \in SUBSET Key
  BY AfterIsKeys
<1>8. InHand = <<>> /\ InHand' = <<e>>
  BY <1>1 DEF InHand, Idle
<1>9. InTheEnd = D
  BY <1>7, <1>8, AfterNone DEF InTheEnd
<1>10. InTheEnd' = Press(D, e)
  <2>1. InTheEnd' = After(D, <<e>>)
    BY <1>6, <1>8 DEF InTheEnd
  <2> QED
    BY <1>7, <2>1, AfterOne
<1>11. ASSUME NEW k \in whole'
       PROVE  k \in InTheEnd' <=> k \in held'
  <2>1. CASE k = e.key
    BY <1>1, <1>10, <2>1 DEF Press
  <2>2. CASE k # e.key
    BY <1>1, <1>3, <1>9, <1>10, <2>2 DEF Press, AgreeInv
  <2> QED
    BY <2>1, <2>2
<1> QED
  BY <1>4, <1>5, <1>11 DEF AgreeInv

\* A key event that goes to the window may overtake what is in the bridge, which
\* is about other keys, as far as they are whole.
LEMMA AgreeWindow ==
  ASSUME AgreeInv, NEW e \in KeyEvent, WindowGets(e)
  PROVE  AgreeInv'
<1>1. /\ ui = Idle /\ ui.at = "idle"
      /\ held' = IF e.down THEN held \cup {e.key} ELSE held \ {e.key}
      /\ window' = IF front THEN Append(window, e) ELSE window
      /\ whole' = IF front /\ renderer THEN Followed(e, pending) ELSE whole \ {e.key}
      /\ UNCHANGED <<service, ui, active, pending, front, renderer, guest>>
  BY DEF WindowGets, Strikes, Idle
<1>2. e.key \in Key /\ e.down \in BOOLEAN
  BY DEF KeyEvent
<1>3. /\ window \in Seq(KeyEvent) /\ pending \in Seq(KeyEvent)
      /\ guest \in SUBSET Key
  BY DEF AgreeInv, Typed
<1>4. window' \in Seq(KeyEvent)
  BY <1>1, <1>3
<1>5. /\ whole' \subseteq whole \cup {e.key} /\ whole' \subseteq Key
      /\ e.key \in whole' => front /\ renderer /\ ~OnItsWay(e.key, pending)
  BY <1>1, <1>2 DEF Followed, OnItsWay, AgreeInv, Typed
<1>6. Typed'
  BY <1>1, <1>2, <1>4, <1>5 DEF AgreeInv, Typed
<1>7. ASSUME NEW k \in Key, k # e.key, OnItsWay(k, window')
      PROVE  OnItsWay(k, window)
  BY <1>1, <1>3, <1>7 DEF OnItsWay
<1>8. Apart'
  <2>1. window' # <<>> => front'
    BY <1>1 DEF AgreeInv, Apart
  <2>2. ASSUME NEW k \in whole', OnItsWay(k, window')
        PROVE  renderer /\ ~OnItsWay(k, pending)
    <3>1. CASE k = e.key
      BY <1>5, <2>2, <3>1
    <3>2. CASE k # e.key
      BY <1>5, <1>7, <2>2, <3>2 DEF AgreeInv, Apart
    <3> QED
      BY <3>1, <3>2
  <2> QED
    BY <1>1, <2>1, <2>2 DEF Apart, OnItsWay
<1> DEFINE W == After(guest, window)
<1>9. W \in SUBSET Key /\ W' \in SUBSET Key
  BY AfterIsKeys
<1>10. InHand = <<>> /\ InHand' = <<>>
  BY <1>1 DEF InHand, Idle
<1>11. InTheEnd = After(W, pending)
  BY <1>10, AfterNone, AfterIsKeys DEF InTheEnd
<1>12. InTheEnd' = After(W', pending)
  <2>1. InTheEnd' = After(After(W', pending), <<>>)
    BY <1>1, <1>10 DEF InTheEnd
  <2> QED
    BY <2>1, AfterNone, AfterIsKeys
<1>13. W' = IF front THEN Press(W, e) ELSE W
  <2>1. CASE front
    BY <1>1, <1>3, <2>1, AfterAppend
  <2>2. CASE ~front
    BY <1>1, <2>2
  <2> QED
    BY <2>1, <2>2
<1> HIDE DEF W
<1>14. ASSUME NEW k \in whole'
       PROVE  k \in InTheEnd' <=> k \in held'
  <2>0. k \in Key
    BY <1>5
  <2>1. CASE k = e.key
    <3>1. front
      BY <1>5, <2>1
    <3>2. \A i \in DOMAIN pending : pending[i].key # k
      BY <1>5, <2>1 DEF OnItsWay
    <3>3. k \in After(W', pending) <=> k \in W'
      BY <1>9, <2>0, <3>2, AfterOthers
    <3> QED
      BY <1>1, <1>12, <1>13, <2>1, <3>1, <3>3 DEF Press
  <2>2. CASE k # e.key
    <3>1. k \in W' <=> k \in W
      BY <1>13, <2>2 DEF Press
    <3>2. k \in After(W', pending) <=> k \in After(W, pending)
      BY <1>9, <2>0, <3>1, AfterIsPerKey
    <3>3. k \in whole /\ (k \in held' <=> k \in held)
      BY <1>1, <1>5, <2>2
    <3> QED
      BY <1>11, <1>12, <3>2, <3>3 DEF AgreeInv
  <2> QED
    BY <2>1, <2>2
<1> QED
  BY <1>6, <1>8, <1>14 DEF AgreeInv

LEMMA AgreePush ==
  ASSUME AgreeInv, Push
  PROVE  AgreeInv'
<1>1. /\ ui.at = "push" /\ ui.event \in KeyEvent
      /\ ui' = [at |-> "send", event |-> ui.event]
      /\ pending \in Seq(KeyEvent) /\ pending' = Append(pending, ui.event)
      /\ UNCHANGED <<service, held, active, window, front, renderer, guest, whole>>
  BY DEF Push, AgreeInv, Typed
<1>2. Typed'
  BY <1>1 DEF AgreeInv, Typed
<1>3. ASSUME NEW k \in Key, OnItsWay(k, pending')
      PROVE  OnItsWay(k, pending) \/ ui.event.key = k
  BY <1>1, <1>3 DEF OnItsWay
<1>4. Apart'
  <2>1. whole \subseteq Key /\ (window # <<>> => front)
    BY DEF AgreeInv, Typed, Apart
  <2>2. ASSUME NEW k \in whole, OnItsWay(k, window)
        PROVE  renderer /\ ~OnItsWay(k, pending')
    BY <1>1, <1>3, <2>1, <2>2 DEF AgreeInv, Apart
  <2> QED
    BY <1>1, <2>1, <2>2 DEF Apart, OnItsWay
<1> DEFINE W == After(guest, window)
<1>5. UNCHANGED W /\ W \in SUBSET Key
  BY <1>1, AfterIsKeys
<1>6. InHand = <<ui.event>> /\ InHand' = <<>>
  BY <1>1 DEF InHand
<1>7. InTheEnd = After(After(W, pending), <<ui.event>>)
  BY <1>6 DEF InTheEnd
<1>8. InTheEnd' = After(After(W, pending'), <<>>)
  BY <1>5, <1>6 DEF InTheEnd
<1>9. After(W, pending') = Press(After(W, pending), ui.event)
  BY <1>1, <1>5, AfterAppend
<1>10. UNCHANGED InTheEnd
  BY <1>1, <1>7, <1>8, <1>9, AfterNone, AfterOne, AfterIsKeys
<1> QED
  BY <1>1, <1>2, <1>4, <1>10 DEF AgreeInv

LEMMA AgreeSend ==
  ASSUME AgreeInv, Send
  PROVE  AgreeInv'
<1>1. /\ ui.at = "send" /\ ui' = Idle
      /\ UNCHANGED <<service, held, active, pending, window, front, renderer, guest, whole>>
  BY DEF Send
<1>2. UNCHANGED InHand
  BY <1>1 DEF InHand, Idle
<1>3. UNCHANGED InTheEnd
  BY <1>1, <1>2 DEF InTheEnd
<1>4. Typed' /\ Apart'
  BY <1>1 DEF AgreeInv, Typed, Apart, OnItsWay, Idle
<1> QED
  BY <1>1, <1>3, <1>4 DEF AgreeInv

\* The bridge's events overtake the window's, which are about other keys, as far
\* as they are whole.
LEMMA AgreeReady ==
  ASSUME AgreeInv, ReadyArrives
  PROVE  AgreeInv'
<1>1. /\ pending \in Seq(KeyEvent) /\ guest \in SUBSET Key /\ pending' = <<>>
      /\ guest' = FoldLeft(Press, guest, pending)
      /\ UNCHANGED <<service, held, ui, active, window, front, renderer, whole>>
  BY DEF ReadyArrives, AgreeInv, Typed
<1>2. guest' = After(guest, pending)
  BY <1>1, FoldIsLatest DEF After
<1>3. guest' \in SUBSET Key /\ pending' \in Seq(KeyEvent) /\ DOMAIN pending' = {}
  BY <1>1, <1>2, AfterIsKeys
<1>4. Typed' /\ Apart'
  BY <1>1, <1>3 DEF AgreeInv, Typed, Apart, OnItsWay
<1>5. UNCHANGED InHand
  BY <1>1 DEF InHand
<1> DEFINE W == After(guest, window)
           B == After(guest, pending)
<1>6. W \in SUBSET Key /\ B \in SUBSET Key
  BY AfterIsKeys
<1>7. InTheEnd = After(After(W, pending), InHand)
  BY DEF InTheEnd
<1>8. InTheEnd' = After(After(B, window), InHand)
  <2>1. After(After(B, window), <<>>) = After(B, window)
    BY AfterNone, AfterIsKeys
  <2> QED
    BY <1>1, <1>2, <1>5, <2>1 DEF InTheEnd
<1>9. ASSUME NEW k \in whole'
      PROVE  k \in InTheEnd' <=> k \in held'
  <2>1. k \in whole /\ k \in Key
    BY <1>1 DEF AgreeInv, Typed
  <2>2. \/ \A i \in DOMAIN window : window[i].key # k
        \/ \A i \in DOMAIN pending : pending[i].key # k
    BY <2>1 DEF AgreeInv, Apart, OnItsWay
  <2>3. CASE \A i \in DOMAIN window : window[i].key # k
    <3>1. k \in W <=> k \in guest
      BY <1>1, <2>1, <2>3, AfterOthers
    <3>2. k \in After(W, pending) <=> k \in B
      BY <1>1, <1>6, <2>1, <3>1, AfterIsPerKey
    <3>3. k \in After(B, window) <=> k \in B
      BY <1>6, <2>1, <2>3, AfterOthers
    <3> QED
      BY <3>2, <3>3, <2>1, <1>1, <1>7, <1>8, AfterIsKeys, AfterIsPerKey DEF AgreeInv
  <2>4. CASE \A i \in DOMAIN pending : pending[i].key # k
    <3>1. k \in B <=> k \in guest
      BY <1>1, <2>1, <2>4, AfterOthers
    <3>2. k \in After(B, window) <=> k \in W
      BY <1>1, <1>6, <2>1, <3>1, AfterIsPerKey
    <3>3. k \in After(W, pending) <=> k \in W
      BY <1>6, <2>1, <2>4, AfterOthers
    <3> QED
      BY <3>2, <3>3, <2>1, <1>1, <1>7, <1>8, AfterIsKeys, AfterIsPerKey DEF AgreeInv
  <2> QED
    BY <2>2, <2>3, <2>4
<1> QED
  BY <1>4, <1>9 DEF AgreeInv

LEMMA AgreeArrives ==
  ASSUME AgreeInv, KeyArrives
  PROVE  AgreeInv'
<1> DEFINE e == Head(window)
<1>1. /\ window \in Seq(KeyEvent) /\ window # <<>> /\ guest \in SUBSET Key
      /\ window' = Tail(window)
      /\ guest' = IF renderer THEN Press(guest, e) ELSE guest
      /\ UNCHANGED <<service, held, ui, active, pending, front, renderer, whole>>
  BY DEF KeyArrives, AgreeInv, Typed
<1>2. /\ e \in KeyEvent /\ window' \in Seq(KeyEvent)
      /\ window = <<e>> \o window' /\ e = window[1] /\ 1 \in DOMAIN window
      /\ \A i \in DOMAIN window' : i + 1 \in DOMAIN window /\ window'[i] = window[i + 1]
  BY <1>1
<1>3. guest' \in SUBSET Key
  BY <1>1, <1>2 DEF Press, KeyEvent
<1>4. Typed' /\ Apart'
  <2>1. ASSUME NEW k, OnItsWay(k, window') PROVE OnItsWay(k, window)
    BY <1>2, <2>1 DEF OnItsWay
  <2>2. window' # <<>> => front
    BY <1>1 DEF AgreeInv, Apart
  <2>3. Typed'
    BY <1>1, <1>2, <1>3 DEF AgreeInv, Typed
  <2>4. \A k \in whole : OnItsWay(k, window') =>
           renderer /\ ~OnItsWay(k, pending) /\ (ui.at = "push" => ui.event.key # k)
    BY <2>1 DEF AgreeInv, Apart
  <2> QED
    BY <1>1, <2>2, <2>3, <2>4 DEF Apart, OnItsWay
<1>5. UNCHANGED InHand
  BY <1>1 DEF InHand
<1>6. After(guest, window) = After(Press(guest, e), window')
  <2>1. <<e>> \in Seq(KeyEvent) /\ After(guest, <<e>>) = Press(guest, e)
    BY <1>1, <1>2, AfterOne
  <2>2. After(guest, <<e>> \o window') = After(After(guest, <<e>>), window')
    BY <1>1, <1>2, <2>1, AfterBoth
  <2> QED
    BY <1>2, <2>1, <2>2
<1> HIDE DEF e
<1>7. ASSUME NEW k \in whole'
      PROVE  k \in InTheEnd' <=> k \in held'
  <2>1. k \in whole /\ k \in Key
    BY <1>1 DEF AgreeInv, Typed
  <2>2. k \in Press(guest, e) <=> k \in guest'
    <3>1. CASE renderer
      BY <1>1, <3>1
    <3>2. CASE ~renderer
      <4>1. ~OnItsWay(k, window)
        BY <2>1, <3>2 DEF AgreeInv, Apart
      <4>2. k # e.key
        BY <1>2, <4>1 DEF OnItsWay
      <4> QED
        BY <1>1, <3>2, <4>2 DEF Press
    <3> QED
      BY <3>1, <3>2
  <2>3. Press(guest, e) \in SUBSET Key
    BY <1>1, <1>2 DEF Press, KeyEvent
  <2>4. k \in After(guest, window) <=> k \in After(guest', window')
    BY <1>3, <1>6, <2>1, <2>2, <2>3, AfterIsPerKey
  <2>5. k \in After(After(guest, window), pending) <=> k \in After(After(guest', window'), pending)
    BY <2>1, <2>4, AfterIsPerKey, AfterIsKeys
  <2>6. k \in After(After(After(guest, window), pending), InHand)
          <=> k \in After(After(After(guest', window'), pending), InHand)
    BY <2>1, <2>5, AfterIsPerKey, AfterIsKeys
  <2>7. k \in InTheEnd <=> k \in InTheEnd'
    BY <1>1, <1>5, <2>6 DEF InTheEnd
  <2> QED
    BY <1>1, <2>1, <2>7 DEF AgreeInv
<1> QED
  BY <1>4, <1>7 DEF AgreeInv

\* After a deactivation no key is whole until it is pressed again.
LEMMA AgreeDeactivate ==
  ASSUME AgreeInv, Deactivate, UNCHANGED <<service, held, ui, guest>>,
         front' \in BOOLEAN, renderer' \in BOOLEAN,
         window' = window \/ window' = <<>>, window' # <<>> => front'
  PROVE  AgreeInv'
<1>1. /\ active' = FALSE /\ pending' = <<>> /\ whole' = {}
      /\ pending' \in Seq(KeyEvent) /\ DOMAIN pending' = {}
      /\ window \in Seq(KeyEvent)
  BY DEF Deactivate, AgreeInv, Typed
<1>2. <<>> \in Seq(KeyEvent) /\ DOMAIN <<>> = {}
  OBVIOUS
<1>3. window' \in Seq(KeyEvent)
  BY <1>1, <1>2
<1>5. Typed'
  BY <1>1, <1>3 DEF AgreeInv, Typed
<1>6. Apart'
  BY <1>1 DEF Apart
<1> QED
  BY <1>1, <1>5, <1>6 DEF AgreeInv

LEMMA AgreeResumed ==
  ASSUME AgreeInv, NEW bound \in BOOLEAN, Resumed(bound)
  PROVE  AgreeInv'
<1>1. /\ ~front /\ front' = TRUE /\ renderer \in BOOLEAN /\ renderer' = (renderer \/ bound)
      /\ UNCHANGED <<service, held, ui, window, guest>>
  BY DEF Resumed, AgreeInv, Typed
<1>2. CASE renderer'
  <2>1. active' = TRUE /\ UNCHANGED <<pending, whole>>
    BY <1>2 DEF Resumed
  <2>2. window = <<>>
    BY <1>1 DEF AgreeInv, Apart
  <2>3. UNCHANGED InHand
    BY <1>1 DEF InHand
  <2>4. UNCHANGED InTheEnd
    BY <1>1, <2>1, <2>3 DEF InTheEnd
  <2>5. Typed'
    BY <1>1, <1>2, <2>1 DEF AgreeInv, Typed
  <2>6. Apart'
    BY <1>1, <2>2 DEF Apart, OnItsWay
  <2> QED
    BY <1>1, <2>1, <2>4, <2>5, <2>6 DEF AgreeInv
<1>3. CASE ~renderer'
  <2>1. Deactivate
    BY <1>3 DEF Resumed
  <2> QED
    BY <1>1, <1>3, <2>1, AgreeDeactivate
<1> QED
  BY <1>2, <1>3

LEMMA AgreeStep ==
  ASSUME AgreeInv, [Next]_vars
  PROVE  AgreeInv'
<1>1. CASE UNCHANGED vars
  BY <1>1, AgreeStutters
<1>2. ASSUME NEW e \in KeyEvent, ServiceTakes(e) \/ Forward(e) \/ WindowGets(e)
      PROVE  AgreeInv'
  BY <1>2, AgreeTaking, AgreeWindow
<1>3. CASE Push
  BY <1>3, AgreePush
<1>4. CASE Send
  BY <1>4, AgreeSend
<1>5. CASE ReadyArrives
  BY <1>5, AgreeReady
<1>6. CASE KeyArrives
  BY <1>6, AgreeArrives
<1>7. CASE RenderFails
  <2>1. /\ Deactivate /\ renderer' = FALSE /\ front' = front /\ front' \in BOOLEAN
        /\ window' = window /\ (window' # <<>> => front')
        /\ UNCHANGED <<service, held, ui, guest>>
    BY <1>7 DEF RenderFails, AgreeInv, Typed, Apart
  <2> QED
    BY <2>1, AgreeDeactivate
<1>8. ASSUME NEW bound \in BOOLEAN, Resumed(bound)
      PROVE  AgreeInv'
  BY <1>8, AgreeResumed
<1>9. ASSUME NEW monitor \in BOOLEAN, Suspended(monitor)
      PROVE  AgreeInv'
  <2>1. /\ Deactivate /\ renderer' = (renderer /\ monitor) /\ renderer' \in BOOLEAN
        /\ front' = FALSE /\ window' = <<>>
        /\ UNCHANGED <<service, held, ui, guest>>
    BY <1>9 DEF Suspended, AgreeInv, Typed
  <2> QED
    BY <2>1, AgreeDeactivate
<1> QED
  BY <1>1, <1>2, <1>3, <1>4, <1>5, <1>6, <1>7, <1>8, <1>9 DEF Next

LEMMA AgreeAlways == Spec => []AgreeInv
<1>1. Init => AgreeInv
  <2> SUFFICES ASSUME Init PROVE AgreeInv
    OBVIOUS
  <2>1. window = <<>> /\ pending = <<>> /\ DOMAIN window = {} /\ DOMAIN pending = {}
        /\ window \in Seq(KeyEvent) /\ pending \in Seq(KeyEvent)
    BY DEF Init
  <2>2. Typed
    BY <2>1 DEF Init, Typed, Idle
  <2>3. Apart
    BY <2>1 DEF Init, Apart, Idle
  <2> QED
    BY <2>2, <2>3 DEF Init, AgreeInv
<1>2. AgreeInv /\ [Next]_vars => AgreeInv'
  BY AgreeStep
<1> QED
  BY <1>1, <1>2, PTL DEF Spec

\* The guest has a key down just when its last event was a press, whichever of
\* the two ways its events go and whatever is still under way (inject_key,
\* centralize, user_event, set_runtime_active), for every key that no
\* deactivation came upon, that no window without a renderer got, and that was
\* not on both ways at once.
THEOREM KeysAgree == Spec => []GuestAgrees
BY AgreeAlways, AgreeIsEnough, PTL

-----------------------------------------------------------------------------
(* The type invariant *)

\* A key is only struck where there is room for it and for its wake-up.
RoomLeft ==
  /\ ready \in Nat /\ ready <= MaxWaiting
  /\ Len(pending) <= MaxWaiting /\ Len(window) <= MaxWaiting
  /\ ui.at = "push" => Len(pending) < MaxWaiting
  /\ ui.at # "idle" => ready < MaxWaiting

LEMMA RoomStep == ASSUME AgreeInv, RoomLeft, [Next]_vars PROVE RoomLeft'
<1> USE BoundType DEF RoomLeft
<1>0. /\ pending \in Seq(KeyEvent) /\ window \in Seq(KeyEvent)
      /\ Len(pending) \in Nat /\ Len(window) \in Nat
  BY DEF AgreeInv, Typed
<1>1. ASSUME NEW e \in KeyEvent, ServiceTakes(e) \/ Forward(e) PROVE RoomLeft'
  BY <1>1 DEF ServiceTakes, Forward, Bridged, Strikes, loopVars
<1>2. ASSUME NEW e \in KeyEvent, WindowGets(e) PROVE RoomLeft'
  <2>1. Len(window') <= MaxWaiting
    BY <1>0, <1>2 DEF WindowGets
  <2> QED
    BY <1>2, <2>1 DEF WindowGets
<1>3. CASE Push
  <2>1. ui'.at = "send" /\ ui.event \in KeyEvent
    BY <1>3 DEF Push, AgreeInv, Typed
  <2>2. Len(pending') = Len(pending) + 1
    BY <1>0, <1>3, <2>1 DEF Push
  <2> QED
    BY <1>0, <1>3, <2>1, <2>2 DEF Push
<1>4. CASE Send
  BY <1>4 DEF Send, Idle
<1>5. CASE ReadyArrives
  <2>1. Len(pending') = 0 /\ ready' = ready - 1 /\ ready > 0
    BY <1>5 DEF ReadyArrives
  <2> QED
    BY <1>5, <2>1 DEF ReadyArrives
<1>6. CASE KeyArrives
  <2>1. Len(window') = Len(window) - 1
    BY <1>0, <1>6 DEF KeyArrives
  <2> QED
    BY <1>0, <1>6, <2>1 DEF KeyArrives
<1>7. ASSUME Deactivate, UNCHANGED <<ui, ready>>, window' = window \/ window' = <<>>
      PROVE  RoomLeft'
  <2>1. Len(pending') = 0 /\ Len(window') <= MaxWaiting
    BY <1>7 DEF Deactivate
  <2> QED
    BY <1>7, <2>1
<1>8. CASE RenderFails
  BY <1>7, <1>8 DEF RenderFails
<1>9. ASSUME NEW bound \in BOOLEAN, Resumed(bound) PROVE RoomLeft'
  <2>1. CASE renderer'
    BY <1>9, <2>1 DEF Resumed
  <2>2. CASE ~renderer'
    BY <1>7, <1>9, <2>2 DEF Resumed
  <2> QED
    BY <2>1, <2>2
<1>10. ASSUME NEW monitor \in BOOLEAN, Suspended(monitor) PROVE RoomLeft'
  BY <1>7, <1>10 DEF Suspended
<1>11. CASE UNCHANGED vars
  BY <1>11 DEF vars
<1> QED
  BY <1>1, <1>2, <1>3, <1>4, <1>5, <1>6, <1>8, <1>9, <1>10, <1>11 DEF Next

\* The bridge, the window and the guest hold keys and key events, and the bounds
\* of the model are kept without cutting a handler short.
THEOREM Typing == Spec => []TypeOK
<1>1. Init => RoomLeft
  <2> SUFFICES ASSUME Init PROVE RoomLeft
    OBVIOUS
  <2>1. Len(pending) = 0 /\ Len(window) = 0 /\ ready = 0 /\ ui.at = "idle"
    BY DEF Init, Idle
  <2> QED
    BY <2>1, BoundType DEF RoomLeft
<1>2. AgreeInv /\ RoomLeft /\ [Next]_vars => RoomLeft'
  BY RoomStep
<1>3. AgreeInv /\ RoomLeft => TypeOK
  BY DEF AgreeInv, Typed, RoomLeft, TypeOK, BridgeTypeOK
<1>4. Spec => []AgreeInv
  BY AgreeAlways
<1> QED
  BY <1>1, <1>2, <1>3, <1>4, PTL DEF Spec
=============================================================================
