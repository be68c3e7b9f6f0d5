--------------------------- MODULE GesturesProofs ---------------------------
(***************************************************************************)
(* Theorems about Gestures, for any fingers, any scenes and any number of  *)
(* reports.  The handlers are functions on the seat, so each is first told *)
(* by what it does to the seat's parts, whichever case of it is taken; the *)
(* invariant is about gestures that were not cut short, and about what one *)
(* that was leaves behind.                                                 *)
(***************************************************************************)
EXTENDS Gestures, TLAPS, FiniteSetTheorems, WellFoundedInduction

-----------------------------------------------------------------------------
(* What the handlers make of the seat *)

\* The compositor between two gestures.
AtRest(s) ==
  /\ s.points = {} /\ s.mode = "Undecided" /\ s.down = "none"
  /\ s.most = 0 /\ ~s.pressed

\* The buttons the guest has pressed without a drag.
Loose(s) == s.guest \ (IF s.pressed THEN {"left"} ELSE {})

\* The seats with finitely many fingers: the code counts them.
Seat == {s \in SeatState : IsFiniteSet(s.points)}

\* A finger lands, on either display ...
Lands(s, t, f) ==
  /\ t \in Seat
  /\ t.points = s.points \cup {f} /\ t.centroid
  /\ t.pressed = s.pressed /\ t.guest = s.guest
  /\ t.external = s.external /\ t.clicked = s.clicked
  /\ t.mode # "LongPress"
  /\ t.mode = "Drag" => s.mode = "Drag"
  /\ s.points = {} => t.mode = "Undecided" /\ t.down = "recent"
  /\ s.points \ {f} # {} => t.down = s.down

\* ... moves ...
Moves(s, t, f, past) ==
  /\ t \in Seat
  /\ t.points = s.points \cup {f} /\ (s.centroid => t.centroid)
  /\ t.down = s.down /\ t.most = s.most
  /\ t.external = s.external /\ t.clicked = s.clicked
  /\ Loose(t) \subseteq Loose(s)
  /\ t.mode \in {"Undecided", "LongPress"} =>
       t.mode = s.mode /\ ~(past /\ s.centroid /\ s.down # "none")
  /\ s.mode \in {"Undecided", "LongPress"} /\ ~past =>
       t.mode = s.mode /\ t.pressed = s.pressed
  /\ t.mode = "Drag" => s.mode = "Drag" \/ (s.mode = "LongPress" /\ past)
  /\ t.pressed /\ ~s.pressed => t.mode = "Drag"

\* ... and some fingers are gone: the last ones end the gesture.
Leave(s, t, gone) ==
  /\ t \in Seat
  /\ t.points = s.points \ gone
  /\ t.external = s.external /\ Loose(t) \subseteq Loose(s)
  /\ t.pressed => s.pressed
  /\ IF t.points = {} THEN AtRest(t)
     ELSE /\ t.centroid
          /\ t.mode = s.mode /\ t.down = s.down /\ t.most = s.most
          /\ t.pressed = s.pressed /\ t.clicked = s.clicked

\* Whether a finger is the only one is told by the count.
LEMMA OneMore ==
  ASSUME NEW s \in Seat, NEW f \in Finger
  PROVE  /\ IsFiniteSet(s.points \cup {f}) /\ Cardinality(s.points \cup {f}) \in Nat
         /\ Cardinality(s.points \cup {f}) >= 1
         /\ s.points \ {f} = {} <=> Cardinality(s.points \cup {f}) = 1
         /\ s.points \cup {f} \in SUBSET Finger
<1> DEFINE P == s.points \cup {f}
<1>1. s.points \in SUBSET Finger /\ IsFiniteSet(s.points)
  BY DEF Seat, SeatState
<1>2. IsFiniteSet(P)
  BY <1>1, FS_AddElement
<1>3. Cardinality(P) \in Nat
  BY <1>2, FS_CardinalityType
<1>4. Cardinality(P) # 0
  BY <1>2, FS_EmptySet
<1>5. (\E x : P = {x}) <=> Cardinality(P) = 1
  BY <1>2, FS_Singleton
<1>6. (s.points \ {f} = {}) <=> (P = {f})
  OBVIOUS
<1> QED
  BY <1>1, <1>2, <1>3, <1>4, <1>5, <1>6

\* centralize, TouchPhase::Started: a second finger makes a scroll of it.
LEMMA PhoneLands ==
  ASSUME NEW s \in Seat, NEW f \in Finger
  PROVE  /\ Lands(s, PhoneStarted(s, f), f)
         /\ PhoneStarted(s, f).most = s.most
         /\ s.points \ {f} # {} => PhoneStarted(s, f).mode = "Scroll"
<1> DEFINE t == PhoneStarted(s, f)
           P == s.points \cup {f}
<1>0. s \in SeatState
  BY DEF Seat
<1>1. /\ IsFiniteSet(P) /\ Cardinality(P) \in Nat /\ Cardinality(P) >= 1 /\ P \in SUBSET Finger
      /\ s.points \ {f} = {} <=> Cardinality(P) = 1
  BY OneMore
<1>2. CASE s.points \ {f} # {}
  <2>1. t = [s EXCEPT !.points = P, !.centroid = TRUE, !.mode = "Scroll"]
    <3>1. Cardinality(P) >= 2
      BY <1>1, <1>2
    <3> QED
      BY <1>0, <3>1 DEF PhoneStarted, SeatState
  <2> HIDE DEF t, P
  <2>2. t \in SeatState
    BY <1>0, <1>1, <2>1 DEF SeatState, Modes
  <2>3. /\ t.points = P /\ t.centroid /\ t.mode = "Scroll" /\ t.pressed = s.pressed
        /\ t.guest = s.guest /\ t.external = s.external /\ t.clicked = s.clicked
        /\ t.down = s.down /\ t.most = s.most
    BY <1>0, <2>1 DEF SeatState
  <2> QED
    BY <1>1, <1>2, <2>2, <2>3 DEF Lands, Seat, t, P
<1>3. CASE s.points \ {f} = {}
  <2>1. t = [s EXCEPT !.points = P, !.centroid = TRUE, !.mode = "Undecided", !.down = "recent"]
    <3>1. ~ (Cardinality(P) >= 2)
      BY <1>1, <1>3
    <3> QED
      BY <1>0, <3>1 DEF PhoneStarted, SeatState
  <2> HIDE DEF t, P
  <2>2. t \in SeatState
    BY <1>0, <1>1, <2>1 DEF SeatState, Modes
  <2>3. /\ t.points = P /\ t.centroid /\ t.mode = "Undecided" /\ t.pressed = s.pressed
        /\ t.guest = s.guest /\ t.external = s.external /\ t.clicked = s.clicked
        /\ t.down = "recent" /\ t.most = s.most
    BY <1>0, <2>1 DEF SeatState
  <2> QED
    BY <1>1, <1>3, <2>2, <2>3 DEF Lands, Seat, t, P
<1> QED
  BY <1>2, <1>3

\* centralize_trackpad, TouchPhase::Started: a second finger is still a tap.
LEMMA TrackpadLands ==
  ASSUME NEW s \in Seat, NEW f \in Finger
  PROVE  /\ Lands(s, TrackpadStarted(s, f), f)
         /\ TrackpadStarted(s, f).most = Bigger(s.most, Cardinality(s.points \cup {f}))
         /\ s.points \ {f} # {} =>
              (TrackpadStarted(s, f).mode = "Undecided" <=> s.mode \in {"Undecided", "LongPress"})
<1> DEFINE t == TrackpadStarted(s, f)
           P == s.points \cup {f}
           n == Bigger(s.most, Cardinality(P))
<1>0. s \in SeatState /\ s.most \in Nat
  BY DEF Seat, SeatState
<1>1. /\ IsFiniteSet(P) /\ Cardinality(P) \in Nat /\ Cardinality(P) >= 1 /\ P \in SUBSET Finger
      /\ s.points \ {f} = {} <=> Cardinality(P) = 1
  BY OneMore
<1>2. n \in Nat
  BY <1>0, <1>1 DEF Bigger
<1>3. CASE s.points \ {f} = {}
  <2>1. t = [s EXCEPT !.points = P, !.centroid = TRUE, !.most = n,
                      !.mode = "Undecided", !.down = "recent"]
    BY <1>0, <1>1, <1>3 DEF TrackpadStarted, SeatState
  <2> HIDE DEF t, P, n
  <2>2. t \in SeatState
    BY <1>0, <1>1, <1>2, <2>1 DEF SeatState, Modes
  <2>3. /\ t.points = P /\ t.centroid /\ t.mode = "Undecided" /\ t.pressed = s.pressed
        /\ t.guest = s.guest /\ t.external = s.external /\ t.clicked = s.clicked
        /\ t.down = "recent" /\ t.most = n
    BY <1>0, <2>1 DEF SeatState
  <2> QED
    BY <1>1, <1>3, <2>2, <2>3 DEF Lands, Seat, t, P, n
<1>4. CASE s.points \ {f} # {} /\ s.mode = "LongPress"
  <2>1. t = [s EXCEPT !.points = P, !.centroid = TRUE, !.most = n, !.mode = "Undecided"]
    BY <1>0, <1>1, <1>4 DEF TrackpadStarted, SeatState
  <2> HIDE DEF t, P, n
  <2>2. t \in SeatState
    BY <1>0, <1>1, <1>2, <2>1 DEF SeatState, Modes
  <2>3. /\ t.points = P /\ t.centroid /\ t.mode = "Undecided" /\ t.pressed = s.pressed
        /\ t.guest = s.guest /\ t.external = s.external /\ t.clicked = s.clicked
        /\ t.down = s.down /\ t.most = n
    BY <1>0, <2>1 DEF SeatState
  <2> QED
    BY <1>1, <1>4, <2>2, <2>3 DEF Lands, Seat, t, P, n
<1>5. CASE s.points \ {f} # {} /\ s.mode # "LongPress"
  <2>1. t = [s EXCEPT !.points = P, !.centroid = TRUE, !.most = n]
    BY <1>0, <1>1, <1>5 DEF TrackpadStarted, SeatState
  <2> HIDE DEF t, P, n
  <2>2. t \in SeatState
    BY <1>0, <1>1, <1>2, <2>1 DEF SeatState, Modes
  <2>3. /\ t.points = P /\ t.centroid /\ t.mode = s.mode /\ t.pressed = s.pressed
        /\ t.guest = s.guest /\ t.external = s.external /\ t.clicked = s.clicked
        /\ t.down = s.down /\ t.most = n
    BY <1>0, <2>1 DEF SeatState
  <2> QED
    BY <1>1, <1>5, <2>2, <2>3 DEF Lands, Seat, t, P, n
<1> QED
  BY <1>3, <1>4, <1>5

\* What a handler may do to the buttons of a gesture, and nothing else.
OnlyButtons(s, t) ==
  /\ t \in Seat
  /\ t.points = s.points /\ t.mode = s.mode /\ t.down = s.down /\ t.most = s.most
  /\ t.external = s.external
  /\ s.centroid => t.centroid
  /\ Loose(t) \subseteq Loose(s)

\* ensure_pressed: the left button is the drag's.
LEMMA GrabIs ==
  ASSUME NEW s \in Seat
  PROVE  OnlyButtons(s, Grab(s)) /\ Grab(s).pressed /\ Grab(s).clicked = s.clicked
<1> DEFINE t == Grab(s)
<1>0. s \in SeatState /\ s.guest \in SUBSET Button
  BY DEF Seat, SeatState
<1>1. CASE s.pressed
  BY <1>1 DEF Grab, OnlyButtons
<1>2. CASE ~s.pressed
  <2>1. t = [s EXCEPT !.guest = s.guest \cup {"left"}, !.pressed = TRUE]
    BY <1>0, <1>2 DEF Grab, Press, SeatState
  <2> HIDE DEF t
  <2>2. t \in SeatState
    BY <1>0, <2>1 DEF SeatState, Button
  <2>3. /\ t.points = s.points /\ t.mode = s.mode /\ t.down = s.down /\ t.most = s.most
        /\ t.external = s.external /\ t.centroid = s.centroid /\ t.clicked = s.clicked
        /\ t.guest = s.guest \cup {"left"} /\ t.pressed = TRUE
    BY <1>0, <2>1 DEF SeatState
  <2>4. Loose(t) \subseteq Loose(s)
    BY <1>2, <2>3 DEF Loose
  <2> QED
    BY <2>2, <2>3, <2>4 DEF OnlyButtons, Seat, t
<1> QED
  BY <1>1, <1>2, <1>0 DEF SeatState

\* The drag's end takes its button along.
LEMMA LetGoIs ==
  ASSUME NEW s \in Seat
  PROVE  OnlyButtons(s, LetGo(s)) /\ ~LetGo(s).pressed /\ LetGo(s).clicked = s.clicked
<1> DEFINE t == LetGo(s)
<1>0. s \in SeatState /\ s.guest \in SUBSET Button
  BY DEF Seat, SeatState
<1>1. CASE ~s.pressed
  BY <1>1 DEF LetGo, OnlyButtons
<1>2. CASE s.pressed
  <2>1. t = [s EXCEPT !.guest = s.guest \ {"left"}, !.pressed = FALSE]
    BY <1>0, <1>2 DEF LetGo, Release, SeatState
  <2> HIDE DEF t
  <2>2. t \in SeatState
    BY <1>0, <2>1 DEF SeatState, Button
  <2>3. /\ t.points = s.points /\ t.mode = s.mode /\ t.down = s.down /\ t.most = s.most
        /\ t.external = s.external /\ t.centroid = s.centroid /\ t.clicked = s.clicked
        /\ t.guest = s.guest \ {"left"} /\ t.pressed = FALSE
    BY <1>0, <2>1 DEF SeatState
  <2>4. Loose(t) \subseteq Loose(s)
    BY <1>2, <2>3 DEF Loose
  <2> QED
    BY <2>2, <2>3, <2>4 DEF OnlyButtons, Seat, t
<1> QED
  BY <1>1, <1>2, <1>0 DEF SeatState

\* A scroll lets go of the drag's button, if anything.
LEMMA ScrollIs ==
  ASSUME NEW s \in Seat, NEW still \in BOOLEAN
  PROVE  /\ OnlyButtons(s, Scroll(s, still)) /\ Scroll(s, still).clicked = s.clicked
         /\ Scroll(s, still).pressed => s.pressed
<1> DEFINE t == [s EXCEPT !.centroid = TRUE]
<1>0. s \in SeatState
  BY DEF Seat
<1>1. OnlyButtons(s, t) /\ t.clicked = s.clicked /\ t.pressed = s.pressed
  <2>1. t \in SeatState
    BY <1>0 DEF SeatState
  <2>2. /\ t.points = s.points /\ t.mode = s.mode /\ t.down = s.down /\ t.most = s.most
        /\ t.external = s.external /\ t.clicked = s.clicked /\ t.centroid
        /\ t.guest = s.guest /\ t.pressed = s.pressed
    BY <1>0 DEF SeatState
  <2> HIDE DEF t
  <2> QED
    BY <2>1, <2>2 DEF OnlyButtons, Seat, Loose
<1>2. OnlyButtons(s, s)
  BY DEF OnlyButtons
<1> QED
  BY <1>1, <1>2, LetGoIs DEF Scroll

\* A click leaves no button pressed.
LEMMA ClickIs ==
  ASSUME NEW s \in Seat, NEW b \in Button
  PROVE  /\ OnlyButtons(s, Click(s, b)) /\ Click(s, b).clicked = b
         /\ Click(s, b).pressed = s.pressed
<1> DEFINE t == Click(s, b)
<1>0. s \in SeatState /\ s.guest \in SUBSET Button
  BY DEF Seat, SeatState
<1>1. t = [s EXCEPT !.guest = (s.guest \cup {b}) \ {b}, !.clicked = b]
  BY <1>0 DEF Click, Release, Press, SeatState
<1> HIDE DEF t
<1>2. t \in SeatState
  BY <1>0, <1>1 DEF SeatState, Button
<1>3. /\ t.points = s.points /\ t.mode = s.mode /\ t.down = s.down /\ t.most = s.most
      /\ t.external = s.external /\ t.centroid = s.centroid /\ t.clicked = b
      /\ t.guest = (s.guest \cup {b}) \ {b} /\ t.pressed = s.pressed
  BY <1>0, <1>1 DEF SeatState
<1>4. Loose(t) \subseteq Loose(s)
  BY <1>3 DEF Loose
<1> QED
  BY <1>2, <1>3, <1>4 DEF OnlyButtons, Seat, t

\* A finger where it is now, and perhaps another mode.
Put(s, P, m, c) == [s EXCEPT !.points = P, !.mode = m, !.centroid = c]

IsPut(s, p, P, m, c) ==
  /\ p \in Seat
  /\ p.points = P /\ p.mode = m /\ p.centroid = c /\ p.down = s.down
  /\ p.most = s.most /\ p.pressed = s.pressed /\ p.external = s.external
  /\ p.clicked = s.clicked /\ Loose(p) = Loose(s)

\* Where the finger is does not touch the buttons.
LEMMA PutIs ==
  ASSUME NEW s \in Seat, NEW P \in SUBSET Finger, IsFiniteSet(P), NEW m \in Modes,
         NEW c \in BOOLEAN
  PROVE  IsPut(s, Put(s, P, m, c), P, m, c)
<1> DEFINE t == Put(s, P, m, c)
<1>0. s \in SeatState
  BY DEF Seat
<1>1. t \in SeatState
  BY <1>0 DEF SeatState, Put
<1>2. /\ t.points = P /\ t.mode = m /\ t.centroid = c /\ t.down = s.down
      /\ t.most = s.most /\ t.pressed = s.pressed /\ t.external = s.external
      /\ t.clicked = s.clicked /\ t.guest = s.guest
  BY <1>0 DEF SeatState, Put
<1> HIDE DEF t
<1> QED
  BY <1>1, <1>2 DEF Seat, Loose, IsPut, t

\* centralize, TouchPhase::Moved.
LEMMA PhoneMoves ==
  ASSUME NEW s \in Seat, NEW f \in Finger, NEW past \in BOOLEAN, NEW still \in BOOLEAN
  PROVE  Moves(s, PhoneMoved(s, f, past, still), f, past)
<1> DEFINE t == PhoneMoved(s, f, past, still)
           P == s.points \cup {f}
           stay == Put(s, P, s.mode, s.centroid)
<1>0. s \in SeatState /\ s.mode \in Modes /\ s.centroid \in BOOLEAN /\ s.pressed \in BOOLEAN
  BY DEF Seat, SeatState
<1>1. P \in SUBSET Finger /\ IsFiniteSet(P)
  BY OneMore
<1>2. IsPut(s, stay, P, s.mode, s.centroid)
  BY <1>0, <1>1, PutIs
<1> DEFINE at == [s EXCEPT !.points = @ \cup {f}]
<1>21. /\ at = stay /\ [at EXCEPT !.mode = "Drag"] = Put(s, P, "Drag", s.centroid)
       /\ [at EXCEPT !.mode = "Scroll", !.centroid = TRUE] = Put(s, P, "Scroll", TRUE)
  BY <1>0 DEF Put, SeatState
<1>22. at.mode = s.mode
  BY <1>2, <1>21 DEF IsPut
<1>3. t = CASE s.mode = "Undecided" /\ Strays(s, past) -> Put(s, P, "Scroll", TRUE)
            [] s.mode = "LongPress" /\ Strays(s, past) -> Grab(Put(s, P, "Drag", s.centroid))
            [] s.mode = "Scroll" -> Scroll(stay, still)
            [] s.mode = "Drag" -> Grab(stay)
            [] OTHER -> stay
  BY <1>21, <1>22 DEF PhoneMoved
<1>4. CASE s.mode = "Undecided" /\ Strays(s, past)
  <2>1. t = Put(s, P, "Scroll", TRUE)
    BY <1>3, <1>4
  <2>2. IsPut(s, t, P, "Scroll", TRUE)
    BY <1>1, <2>1, PutIs DEF Modes
  <2> HIDE DEF t
  <2> QED
    BY <1>0, <1>4, <2>2 DEF Moves, Strays, IsPut, t
<1>5. CASE s.mode = "LongPress" /\ Strays(s, past)
  <2> DEFINE p == Put(s, P, "Drag", s.centroid)
  <2>1. t = Grab(p)
    BY <1>3, <1>5
  <2>2. IsPut(s, p, P, "Drag", s.centroid)
    BY <1>0, <1>1, PutIs DEF Modes
  <2> HIDE DEF t, p
  <2> QED
    BY <1>0, <1>5, <2>1, <2>2, GrabIs DEF Moves, OnlyButtons, Strays, IsPut, t
<1> HIDE DEF stay
<1>7. CASE s.mode = "Scroll"
  <2>1. t = Scroll(stay, still)
    BY <1>3, <1>7
  <2>2. OnlyButtons(stay, t) /\ t.clicked = stay.clicked /\ (t.pressed => stay.pressed)
    BY <1>2, <2>1, ScrollIs DEF IsPut
  <2> HIDE DEF t
  <2> QED
    BY <1>0, <1>2, <1>7, <2>2 DEF Moves, OnlyButtons, IsPut, t
<1>8. CASE s.mode = "Drag"
  <2>1. t = Grab(stay)
    BY <1>3, <1>8
  <2> HIDE DEF t
  <2> QED
    BY <1>0, <1>2, <1>8, <2>1, GrabIs DEF Moves, OnlyButtons, IsPut, t
<1>9. CASE /\ s.mode \notin {"Scroll", "Drag"}
           /\ ~(s.mode \in {"Undecided", "LongPress"} /\ Strays(s, past))
  <2>1. t = stay
    BY <1>3, <1>9
  <2> HIDE DEF t
  <2> QED
    BY <1>0, <1>2, <1>9, <2>1 DEF Moves, Strays, IsPut, t
<1> QED
  BY <1>4, <1>5, <1>7, <1>8, <1>9

\* centralize_trackpad, TouchPhase::Moved.
LEMMA TrackpadMoves ==
  ASSUME NEW s \in Seat, NEW f \in Finger, NEW past \in BOOLEAN, NEW still \in BOOLEAN
  PROVE  Moves(s, TrackpadMoved(s, f, past, still), f, past)
<1> DEFINE t == TrackpadMoved(s, f, past, still)
           P == s.points \cup {f}
           many == Cardinality(P) >= 2
           mode == CASE s.mode = "Undecided" /\ Strays(s, past) -> "Move"
                     [] s.mode = "LongPress" /\ Strays(s, past) -> "Drag"
                     [] OTHER -> s.mode
           stay == Put(s, P, s.mode, s.centroid)
           scroll == Put(s, P, "Scroll", s.centroid)
           go == Put(s, P, mode, s.centroid)
<1>0. s \in SeatState /\ s.mode \in Modes /\ s.centroid \in BOOLEAN /\ s.pressed \in BOOLEAN
  BY DEF Seat, SeatState
<1>1. P \in SUBSET Finger /\ IsFiniteSet(P) /\ (Cardinality(P) = 1 <=> ~many)
  BY OneMore
<1>2. mode \in Modes
  BY <1>0 DEF Modes
<1>3. IsPut(s, stay, P, s.mode, s.centroid) /\ IsPut(s, go, P, mode, s.centroid)
  BY <1>0, <1>1, <1>2, PutIs
<1>5. IsPut(s, scroll, P, "Scroll", s.centroid)
  BY <1>0, <1>1, PutIs DEF Modes
<1> DEFINE at == [s EXCEPT !.points = @ \cup {f}]
<1>6. /\ at = stay /\ [at EXCEPT !.mode = "Scroll"] = scroll
      /\ [at EXCEPT !.mode = mode] = go
  <2> HIDE DEF mode
  <2> QED
    BY <1>0 DEF Put, SeatState
<1>11. at.points = P
  BY <1>3, <1>6 DEF IsPut
<1>4. t = CASE many /\ s.mode # "Scroll" -> IF s.centroid /\ past THEN scroll ELSE stay
            [] s.mode = "Scroll" -> Scroll(stay, still)
            [] ~many /\ s.mode # "Scroll" ->
                 IF mode = "Drag" /\ f \in s.points THEN Grab(go) ELSE go
  BY <1>1, <1>6, <1>11 DEF TrackpadMoved
<1> HIDE DEF stay, go, scroll, many
<1>7. CASE many /\ s.mode # "Scroll" /\ s.centroid /\ past
  <2>1. t = scroll
    BY <1>4, <1>7
  <2> HIDE DEF t
  <2> QED
    BY <1>0, <1>5, <1>7, <2>1 DEF Moves, IsPut, t
<1>8. CASE many /\ s.mode # "Scroll" /\ ~(s.centroid /\ past)
  <2>1. t = stay
    BY <1>4, <1>8
  <2> HIDE DEF t
  <2> QED
    BY <1>0, <1>3, <1>8, <2>1 DEF Moves, IsPut, t
<1>9. CASE s.mode = "Scroll"
  <2>1. t = Scroll(stay, still)
    BY <1>4, <1>9
  <2>2. OnlyButtons(stay, t) /\ t.clicked = stay.clicked /\ (t.pressed => stay.pressed)
    BY <1>3, <2>1, ScrollIs DEF IsPut
  <2> HIDE DEF t
  <2> QED
    BY <1>0, <1>3, <1>9, <2>2 DEF Moves, OnlyButtons, IsPut, t
<1>10. CASE ~many /\ s.mode # "Scroll"
  <2>1. t = IF mode = "Drag" /\ f \in s.points THEN Grab(go) ELSE go
    BY <1>4, <1>10
  <2>2. /\ mode \in {"Undecided", "LongPress"} => mode = s.mode /\ ~(past /\ s.down # "none")
        /\ mode = "Drag" => s.mode = "Drag" \/ (s.mode = "LongPress" /\ past)
        /\ s.mode \in {"Undecided", "LongPress"} /\ ~past => mode = s.mode
    BY <1>0 DEF Strays, Modes
  <2> HIDE DEF t, mode
  <2> QED
    BY <1>0, <1>3, <2>1, <2>2, GrabIs DEF Moves, OnlyButtons, IsPut, t
<1> QED
  BY <1>7, <1>8, <1>9, <1>10

\* The fingers that stay keep the gesture, and the last ones end it.
GoesOn(s, gone) == [Without(s, gone) EXCEPT !.centroid = TRUE]
Done(s, gone) == Reset(Without(s, gone))

\* What stays is a gesture, or the rest between two, ready to be clicked.
LEMMA WithoutIs ==
  ASSUME NEW s \in Seat, NEW gone
  PROVE  /\ Without(s, gone).points = s.points \ gone
         /\ s.points \ gone # {} => Leave(s, GoesOn(s, gone), gone)
         /\ Done(s, gone) \in Seat
         /\ Done(s, gone).external = s.external /\ Done(s, gone).clicked = s.clicked
         /\ Done(s, gone).pressed = s.pressed /\ Loose(Done(s, gone)) = Loose(s)
         /\ s.points \ gone = {} =>
              /\ Leave(s, LetGo(Done(s, gone)), gone)
              /\ LetGo(Done(s, gone)).clicked = s.clicked
              /\ ~s.pressed => Leave(s, Done(s, gone), gone)
<1> DEFINE left == Without(s, gone)
           P == s.points \ gone
           on == GoesOn(s, gone)
           done == Done(s, gone)
<1>0. s \in SeatState /\ IsFiniteSet(s.points) /\ s.pressed \in BOOLEAN
  BY DEF Seat, SeatState
<1>1. IsFiniteSet(P) /\ P \in SUBSET Finger
  BY <1>0, FS_Subset DEF SeatState
<1>2. left = [s EXCEPT !.points = P]
  BY DEF Without
<1>3. /\ left \in SeatState /\ left.points = P /\ left.mode = s.mode /\ left.down = s.down
      /\ left.most = s.most /\ left.pressed = s.pressed /\ left.external = s.external
      /\ left.clicked = s.clicked /\ left.guest = s.guest
  BY <1>0, <1>1, <1>2 DEF SeatState
<1>4. left \in Seat
  BY <1>1, <1>3 DEF Seat
<1>5. /\ on \in SeatState /\ on.points = P /\ on.mode = s.mode /\ on.down = s.down
      /\ on.most = s.most /\ on.pressed = s.pressed /\ on.external = s.external
      /\ on.clicked = s.clicked /\ on.guest = s.guest /\ on.centroid
  BY <1>3 DEF SeatState, GoesOn
<1>6. /\ done \in SeatState /\ done.points = {} /\ done.mode = "Undecided"
      /\ done.down = "none" /\ done.most = 0 /\ done.pressed = s.pressed
      /\ done.external = s.external /\ done.clicked = s.clicked /\ done.guest = s.guest
  BY <1>3 DEF Done, Reset, SeatState, Modes
<1> HIDE DEF left, P, on, done
<1>8. P # {} => Leave(s, on, gone)
  BY <1>1, <1>5 DEF Leave, Loose, Seat, P
<1>9. done \in Seat /\ Loose(done) = Loose(s)
  BY <1>6, FS_EmptySet DEF Seat, Loose
<1>10. P = {} /\ ~s.pressed => Leave(s, done, gone)
  BY <1>0, <1>6, <1>9 DEF Leave, AtRest, P
<1>11. P = {} => Leave(s, LetGo(done), gone) /\ LetGo(done).clicked = s.clicked
  BY <1>0, <1>6, <1>9, LetGoIs DEF Leave, AtRest, P, OnlyButtons
<1> QED
  BY <1>3, <1>4, <1>6, <1>8, <1>9, <1>10, <1>11 DEF left, P, on, done

\* A click, with which a gesture ends.
LEMMA ClickEnds ==
  ASSUME NEW s \in Seat, NEW gone, s.points \ gone = {}, ~s.pressed, NEW b \in Button
  PROVE  /\ Leave(s, Click(Done(s, gone), b), gone)
         /\ Click(Done(s, gone), b).clicked = b
<1> DEFINE done == Done(s, gone)
<1>1. /\ done \in Seat /\ Leave(s, done, gone) /\ Loose(done) = Loose(s)
  BY WithoutIs
<1>2. /\ OnlyButtons(done, Click(done, b)) /\ Click(done, b).clicked = b
      /\ Click(done, b).pressed = done.pressed
  BY <1>1, ClickIs
<1> HIDE DEF done
<1> QED
  BY <1>1, <1>2 DEF Leave, OnlyButtons, AtRest, done

\* centralize, TouchPhase::Ended: one finger's tap is left or right.
LEMMA PhoneLeaves ==
  ASSUME NEW s \in Seat, NEW f \in Finger, NEW t, t = PhoneEnded(s, f)
  PROVE  /\ Leave(s, t, {f})
         /\ \/ t.clicked = s.clicked
            \/ t.clicked = "left" /\ s.mode = "Undecided"
            \/ t.clicked = "right" /\ s.mode = "LongPress"
         /\ s.points \ {f} = {} /\ ~s.pressed /\ s.mode \in {"Undecided", "LongPress"} =>
              t.clicked # "none"
<1> DEFINE left == Without(s, {f})
           done == Done(s, {f})
<1>0. left.points = s.points \ {f} /\ s.pressed \in BOOLEAN
  BY WithoutIs DEF Seat, SeatState
<1>1. CASE left.points # {}
  <2>1. t = GoesOn(s, {f})
    BY <1>1 DEF PhoneEnded, GoesOn
  <2>2. Leave(s, t, {f})
    BY <1>0, <1>1, <2>1, WithoutIs
  <2> QED
    BY <1>0, <1>1, <2>2 DEF Leave
<1>2. CASE left.points = {} /\ s.pressed
  <2>1. t = LetGo(done)
    BY <1>2 DEF PhoneEnded, Done
  <2> QED
    BY <1>0, <1>2, <2>1, WithoutIs
<1>3. CASE left.points = {} /\ ~s.pressed
  <2>1. t = CASE s.mode = "Undecided" -> Click(done, "left")
              [] s.mode = "LongPress" -> Click(done, "right")
              [] OTHER -> done
    BY <1>3 DEF PhoneEnded, Done
  <2>2. Leave(s, done, {f}) /\ done.clicked = s.clicked
    BY <1>0, <1>3, WithoutIs
  <2>3. \A b \in Button : Leave(s, Click(done, b), {f}) /\ Click(done, b).clicked = b
    BY <1>0, <1>3, ClickEnds
  <2> HIDE DEF done
  <2> QED
    BY <2>1, <2>2, <2>3 DEF Button
<1> QED
  BY <1>0, <1>1, <1>2, <1>3

\* centralize_trackpad, TouchPhase::Ended: a tap is by the fingers it had.
LEMMA TrackpadLeaves ==
  ASSUME NEW s \in Seat, NEW f \in Finger, NEW t, t = TrackpadEnded(s, f)
  PROVE  /\ Leave(s, t, {f})
         /\ \/ t.clicked = s.clicked
            \/ t.clicked = "left" /\ s.mode = "Undecided" /\ s.most = 1
            \/ t.clicked = "right" /\ s.mode = "Undecided" /\ s.most = 2
            \/ t.clicked = "right" /\ s.mode = "LongPress" /\ s.most = 1
            \/ t.clicked = "middle" /\ s.mode = "Undecided" /\ s.most \notin {1, 2}
         /\ /\ s.points \ {f} = {} /\ ~s.pressed
            /\ s.mode = "Undecided" \/ (s.mode = "LongPress" /\ s.most = 1)
            => t.clicked # "none"
<1> DEFINE left == Without(s, {f})
           done == Done(s, {f})
<1>0. left.points = s.points \ {f} /\ s.pressed \in BOOLEAN
  BY WithoutIs DEF Seat, SeatState
<1>1. CASE left.points # {}
  <2>1. t = GoesOn(s, {f})
    BY <1>1 DEF TrackpadEnded, GoesOn
  <2>2. Leave(s, t, {f})
    BY <1>0, <1>1, <2>1, WithoutIs
  <2> QED
    BY <1>0, <1>1, <2>2 DEF Leave
<1>2. CASE left.points = {} /\ s.pressed
  <2>1. t = LetGo(done)
    BY <1>2 DEF TrackpadEnded, Done
  <2> QED
    BY <1>0, <1>2, <2>1, WithoutIs
<1>3. CASE left.points = {} /\ ~s.pressed
  <2>1. t = CASE s.mode = "Undecided" /\ s.most = 1 -> Click(done, "left")
              [] s.mode = "Undecided" /\ s.most = 2 -> Click(done, "right")
              [] s.mode = "Undecided" /\ s.most \notin {1, 2} -> Click(done, "middle")
              [] s.mode = "LongPress" /\ s.most = 1 -> Click(done, "right")
              [] OTHER -> done
    BY <1>3 DEF TrackpadEnded, Done
  <2>2. Leave(s, done, {f}) /\ done.clicked = s.clicked
    BY <1>0, <1>3, WithoutIs
  <2>3. \A b \in Button : Leave(s, Click(done, b), {f}) /\ Click(done, b).clicked = b
    BY <1>0, <1>3, ClickEnds
  <2> HIDE DEF done
  <2> QED
    BY <2>1, <2>2, <2>3 DEF Button
<1> QED
  BY <1>0, <1>1, <1>2, <1>3

\* TouchPhase::Cancelled: nothing is clicked.
LEMMA CancelledLeaves ==
  ASSUME NEW s \in Seat, NEW gone
  PROVE  Leave(s, Cancelled(s, gone), gone) /\ Cancelled(s, gone).clicked = s.clicked
<1> DEFINE left == Without(s, gone)
           t == Cancelled(s, gone)
<1>0. left.points = s.points \ gone
  BY WithoutIs
<1>1. CASE left.points # {}
  <2>1. t = GoesOn(s, gone)
    BY <1>1 DEF Cancelled, GoesOn
  <2>2. Leave(s, t, gone)
    BY <1>0, <1>1, <2>1, WithoutIs
  <2> HIDE DEF t
  <2>3. t.clicked = s.clicked
    BY <1>0, <1>1, <2>2 DEF Leave
  <2> QED
    BY <2>2, <2>3 DEF t
<1>2. CASE left.points = {}
  <2>1. t = LetGo(Done(s, gone))
    BY <1>2 DEF Cancelled, Done
  <2> QED
    BY <1>0, <1>2, <2>1, WithoutIs
<1> QED
  BY <1>1, <1>2

\* A gesture that is dropped: only what the guest holds is left of it.
LEMMA ResetIs ==
  ASSUME NEW s \in Seat
  PROVE  /\ Reset(s) \in Seat /\ Reset(s).points = {} /\ Reset(s).mode = "Undecided"
         /\ Reset(s).down = "none" /\ Reset(s).most = 0 /\ Reset(s).pressed = s.pressed
         /\ Reset(s).external = s.external /\ Reset(s).guest = s.guest
         /\ Reset(s).clicked = s.clicked
<1> DEFINE t == Reset(s)
<1>1. /\ t \in SeatState /\ t.points = {} /\ t.mode = "Undecided"
      /\ t.down = "none" /\ t.most = 0 /\ t.pressed = s.pressed
      /\ t.external = s.external /\ t.guest = s.guest /\ t.clicked = s.clicked
  BY DEF Reset, Seat, SeatState, Modes
<1> HIDE DEF t
<1>2. t \in Seat
  BY <1>1, FS_EmptySet DEF Seat
<1> QED
  BY <1>1, <1>2 DEF t

-----------------------------------------------------------------------------
(* What the mouse's reports come to, by induction *)

\* The order of the natural numbers, as a relation.
Under == {ss \in Nat \X Nat : ss[1] < ss[2]}

\* A set of numbers that is not empty has a least one.
LEMMA Least ==
  ASSUME NEW T \in SUBSET Nat, T # {}
  PROVE \E x \in T : \A y \in T : x <= y
<1>1. OpToRel(<, Nat) = Under
  BY DEF OpToRel, Under
<1>2. IsWellFoundedOn(Under, Nat)
  BY <1>1, NatLessThanWellFounded, Zenon
<1>3. PICK x \in T : \A y \in T : ~ (<<y, x>> \in Under)
  BY <1>2, WFMin
<1>4. ASSUME NEW y \in T PROVE x <= y
  <2>1. x \in Nat /\ y \in Nat /\ <<y, x>> \notin Under
    BY <1>3
  <2> QED
    BY <2>1 DEF Under
<1> QED
  BY <1>4

\* So does a set of numbers with a bound have a greatest, which Max is.
LEMMA MaxIs ==
  ASSUME NEW n \in Nat, NEW s \in SUBSET (1 .. n), s # {}
  PROVE  Max(s) \in s /\ \A i \in s : i <= Max(s)
<1> DEFINE T == {n - i : i \in s}
<1>0. \A i \in s : i \in Nat /\ n - i \in T /\ n - i \in Nat
  OBVIOUS
<1>1. T \in SUBSET Nat /\ T # {}
  BY <1>0
<1>2. PICK t \in T : \A y \in T : t <= y
  BY <1>1, Least
<1>3. PICK m \in s : t = n - m
  BY <1>2
<1>4. ASSUME NEW i \in s PROVE m >= i
  <2>1. t <= n - i
    BY <1>0, <1>2
  <2>2. n - m <= n - i /\ m \in Nat /\ i \in Nat
    BY <1>0, <1>3, <2>1
  <2> QED
    BY <2>2
<1>5. \E x \in s : \A y \in s : x >= y
  BY <1>4
<1> QED
  BY <1>5 DEF Max

\* The mouse's buttons by the last of those `t` of its reports ...
Reported(s, told, t) == IF t = {} THEN s.external ELSE told[Max(t)]

\* ... and the guest's: those no report says anything new of stay as they are.
Pressed(s, told, t) ==
  {b \in Button :
     IF \A i \in t : b \in told[i] <=> b \in s.external
       THEN b \in s.guest ELSE b \in told[Max(t)]}

Told(s, told, t) ==
  [s EXCEPT !.guest = Pressed(s, told, t), !.external = Reported(s, told, t)]

\* The last report comes upon what those before it have told.
LEMMA ToldStep ==
  ASSUME NEW s \in Seat, NEW told \in Seq(SUBSET Button),
         NEW t \in SUBSET DOMAIN told, t # {}
  PROVE  /\ Max(t) \in t
         /\ t \ {Max(t)} \in SUBSET (1 .. (Max(t) - 1))
         /\ Told(s, told, t) = External(Told(s, told, t \ {Max(t)}), told[Max(t)])
<1> DEFINE m == Max(t)
           r == t \ {m}
           ext == Reported(s, told, r)
           now == told[m]
<1>0. s \in SeatState /\ s.external \in SUBSET Button /\ s.guest \in SUBSET Button
  BY DEF Seat, SeatState
<1>1. DOMAIN told = 1 .. Len(told) /\ Len(told) \in Nat
  OBVIOUS
<1>2. m \in t /\ \A i \in t : i <= m
  BY <1>1, MaxIs
<1> HIDE DEF m
<1>3. now \in SUBSET Button /\ Reported(s, told, t) = now
  BY <1>1, <1>2 DEF Reported, m
<1>4. r \in SUBSET (1 .. (m - 1))
  BY <1>1, <1>2
<1>5. r # {} => Max(r) \in r
  BY <1>1, MaxIs
<1>6. ext \in SUBSET Button
  <2>1. CASE r = {}
    BY <1>0, <2>1 DEF Reported
  <2>2. CASE r # {}
    <3>1. Max(r) \in DOMAIN told /\ ext = told[Max(r)]
      BY <1>1, <1>5, <2>2 DEF Reported
    <3> QED
      BY <3>1
  <2> QED
    BY <2>1, <2>2
<1>7. ASSUME NEW b \in Button
      PROVE  b \in Pressed(s, told, t) <=>
             b \in (Pressed(s, told, r) \cup (now \ ext)) \ (ext \ now)
  <2> DEFINE Same(x) == \A i \in x : b \in told[i] <=> b \in s.external
  <2>1. b \in Pressed(s, told, t) <=> IF Same(t) THEN b \in s.guest ELSE b \in now
    BY DEF Pressed, m
  <2>2. b \in Pressed(s, told, r) <=> IF Same(r) THEN b \in s.guest ELSE b \in ext
    <3>1. r # {} => ext = told[Max(r)]
      BY DEF Reported
    <3>2. r = {} => Same(r)
      OBVIOUS
    <3> QED
      BY <3>1, <3>2 DEF Pressed
  <2>3. Same(t) <=> Same(r) /\ (b \in now <=> b \in s.external)
    BY <1>2
  <2>4. Same(r) => (b \in ext <=> b \in s.external)
    BY <1>5 DEF Reported
  <2> HIDE DEF Same, ext, now, r
  <2> QED
    BY <2>1, <2>2, <2>3, <2>4
<1>8. Pressed(s, told, t) = (Pressed(s, told, r) \cup (now \ ext)) \ (ext \ now)
  <2>1. Pressed(s, told, t) \subseteq Button /\ Pressed(s, told, r) \subseteq Button
    BY DEF Pressed
  <2> HIDE DEF ext, now, r
  <2> QED
    BY <1>3, <1>7, <2>1
<1> HIDE DEF ext, now, r
<1>9. Told(s, told, r) = [s EXCEPT !.guest = Pressed(s, told, r), !.external = ext]
  BY DEF Told, ext
<1>10. External(Told(s, told, r), now) =
         [s EXCEPT !.guest = (Pressed(s, told, r) \cup (now \ ext)) \ (ext \ now),
                   !.external = now]
  BY <1>0, <1>9 DEF External, SeatState
<1>11. Told(s, told, t) = External(Told(s, told, r), now)
  BY <1>3, <1>8, <1>10 DEF Told
<1> QED
  BY <1>2, <1>4, <1>11 DEF m, r, now

\* The fold of ExternalPointer is what its reports tell.
LEMMA FoldIsTold ==
  ASSUME NEW s \in Seat, NEW told \in Seq(SUBSET Button)
  PROVE  FoldLeft(External, s, told) = Told(s, told, DOMAIN told)
<1> DEFINE S == DOMAIN told
           Eq(g) == g = [t \in SUBSET S |->
                           IF t = {} THEN s
                           ELSE External(g[t \ {Max(t)}], told[Max(t)])]
           h == [t \in SUBSET S |-> Told(s, told, t)]
           f == CHOOSE g : Eq(g)
<1>0. Told(s, told, {}) = s
  <2>1. Pressed(s, told, {}) = s.guest /\ Reported(s, told, {}) = s.external
    BY DEF Pressed, Reported, Seat, SeatState
  <2> QED
    BY <2>1 DEF Told, Seat, SeatState
<1>1. FoldLeft(External, s, told) = f[S]
  BY DEF FoldLeft, MapThenFoldSet
<1>2. Eq(h)
  <2>1. ASSUME NEW t \in SUBSET S
        PROVE  h[t] = IF t = {} THEN s
                      ELSE External(h[t \ {Max(t)}], told[Max(t)])
    <3>1. CASE t = {}
      BY <1>0, <3>1
    <3>2. CASE t # {}
      <4>1. t \ {Max(t)} \in SUBSET S
        OBVIOUS
      <4> QED
        BY <3>2, <4>1, ToldStep
    <3> QED
      BY <3>1, <3>2
  <2> QED
    BY <2>1
<1>3. Eq(f)
  BY <1>2
<1> HIDE DEF f
<1>4. \A t \in SUBSET S :
        f[t] = IF t = {} THEN s ELSE External(f[t \ {Max(t)}], told[Max(t)])
  <2> DEFINE F == [t \in SUBSET S |->
                     IF t = {} THEN s ELSE External(f[t \ {Max(t)}], told[Max(t)])]
  <2>1. f = F
    BY <1>3
  <2>2. \A t \in SUBSET S :
          F[t] = IF t = {} THEN s ELSE External(f[t \ {Max(t)}], told[Max(t)])
    OBVIOUS
  <2> HIDE DEF F
  <2> QED
    BY <2>1, <2>2
<1> DEFINE Odd == {n \in Nat : \E t \in SUBSET S :
                      t \subseteq 1 .. n /\ f[t] # Told(s, told, t)}
<1>5. Odd = {}
  <2> SUFFICES ASSUME Odd # {} PROVE FALSE
    OBVIOUS
  <2>1. PICK n \in Odd : \A y \in Odd : n <= y
    BY Least
  <2>2. PICK t \in SUBSET S : t \subseteq 1 .. n /\ f[t] # Told(s, told, t)
    BY <2>1
  <2>3. t # {}
    BY <1>0, <1>4, <2>2
  <2>4. /\ Max(t) \in t
        /\ t \ {Max(t)} \in SUBSET (1 .. (Max(t) - 1))
        /\ Told(s, told, t) = External(Told(s, told, t \ {Max(t)}), told[Max(t)])
    BY <2>3, ToldStep
  <2>5. Max(t) \in 1 .. n /\ Max(t) - 1 \in Nat /\ Max(t) - 1 < n
    BY <2>1, <2>2, <2>4
  <2>6. Max(t) - 1 \notin Odd
    BY <2>1, <2>5
  <2>7. f[t \ {Max(t)}] = Told(s, told, t \ {Max(t)})
    BY <2>4, <2>5, <2>6
  <2>8. f[t] = External(f[t \ {Max(t)}], told[Max(t)])
    BY <1>4, <2>3
  <2> QED
    BY <2>2, <2>4, <2>7, <2>8
<1>6. f[S] = Told(s, told, S)
  <2>1. S = 1 .. Len(told) /\ Len(told) \in Nat /\ S \in SUBSET S
    OBVIOUS
  <2>2. Len(told) \notin Odd
    BY <1>5
  <2> QED
    BY <2>1, <2>2
<1> QED
  BY <1>1, <1>6

\* The mouse's reports leave the gesture alone, and add no button to the
\* guest's but the mouse's own.
LEMMA ReportsAre ==
  ASSUME NEW s \in Seat, NEW told \in Seq(SUBSET Button)
  PROVE  LET t == FoldLeft(External, s, told)
         IN  /\ t \in Seat
             /\ t.points = s.points /\ t.mode = s.mode /\ t.centroid = s.centroid
             /\ t.down = s.down /\ t.most = s.most /\ t.pressed = s.pressed
             /\ t.clicked = s.clicked
             /\ t.guest \ t.external \subseteq s.guest \ s.external
             /\ told # <<>> => t.external = Last(told)
<1> DEFINE D == DOMAIN told
           G == Pressed(s, told, D)
           E == Reported(s, told, D)
           t == FoldLeft(External, s, told)
<1>0. s \in SeatState /\ s.external \in SUBSET Button
  BY DEF Seat, SeatState
<1>1. D # {} => Max(D) \in D
  <2>1. D \in SUBSET (1 .. Len(told)) /\ Len(told) \in Nat
    OBVIOUS
  <2> QED
    BY <2>1, MaxIs
<1>2. E \in SUBSET Button /\ G \in SUBSET Button
  <2>1. CASE D = {}
    BY <1>0, <2>1 DEF Reported, Pressed
  <2>2. CASE D # {}
    <3>1. Max(D) \in DOMAIN told /\ E = told[Max(D)]
      BY <1>1, <2>2 DEF Reported
    <3>2. G \in SUBSET Button
      BY DEF Pressed
    <3> QED
      BY <3>1, <3>2
  <2> QED
    BY <2>1, <2>2
<1>3. G \ E \subseteq s.guest \ s.external
  BY <1>1 DEF Reported, Pressed
<1>7. told # <<>> => E = Last(told)
  <2> SUFFICES ASSUME told # <<>> PROVE E = Last(told)
    OBVIOUS
  <2>1. D = 1 .. Len(told) /\ Len(told) \in Nat /\ Len(told) \in D
    OBVIOUS
  <2>2. Max(D) = Len(told)
    <3>1. Max(D) \in D /\ Len(told) <= Max(D)
      BY <2>1, MaxIs
    <3> QED
      BY <2>1, <3>1
  <2> QED
    BY <2>1, <2>2 DEF Reported, Last
<1>4. t = [s EXCEPT !.guest = G, !.external = E]
  BY FoldIsTold DEF Told
<1> HIDE DEF t, G, E
<1>5. /\ t \in SeatState
      /\ t.points = s.points /\ t.mode = s.mode /\ t.centroid = s.centroid
      /\ t.down = s.down /\ t.most = s.most /\ t.pressed = s.pressed
      /\ t.clicked = s.clicked /\ t.guest = G /\ t.external = E
  BY <1>0, <1>2, <1>4 DEF SeatState
<1>6. t \in Seat
  BY <1>5 DEF Seat
<1> QED
  BY <1>3, <1>5, <1>6, <1>7 DEF t

-----------------------------------------------------------------------------
(* Sums over fingers, by induction on how many they are *)

Pick(t) == CHOOSE x \in t : TRUE

\* The sum over `t`, from those over smaller sets.
Adds(g, at, t) == IF t = {} THEN 0 ELSE at[Pick(t)] + g[t \ {Pick(t)}]

\* The recursion of MapThenSumSet.
Sums(g, at, S) == g = [t \in SUBSET S |-> Adds(g, at, t)]

\* One finger is taken out of those that are left.
LEMMA PickIs ==
  ASSUME NEW t, IsFiniteSet(t), t # {}
  PROVE  /\ Pick(t) \in t /\ IsFiniteSet(t \ {Pick(t)})
         /\ Cardinality(t) \in Nat /\ Cardinality(t \ {Pick(t)}) \in Nat
         /\ Cardinality(t) = Cardinality(t \ {Pick(t)}) + 1
<1>1. Pick(t) \in t
  BY DEF Pick
<1>2. /\ IsFiniteSet(t \ {Pick(t)})
      /\ Cardinality(t \ {Pick(t)}) = Cardinality(t) - 1
  BY <1>1, FS_RemoveElement
<1>3. Cardinality(t) \in Nat /\ Cardinality(t \ {Pick(t)}) \in Nat
  BY <1>2, FS_CardinalityType
<1> QED
  BY <1>1, <1>2, <1>3

\* There is a function that recursion defines, and it is of integers.
LEMMA SumsExist ==
  ASSUME NEW S \in SUBSET Finger, IsFiniteSet(S), NEW at \in [Finger -> Int]
  PROVE  \E g \in [SUBSET S -> Int] : Sums(g, at, S)
<1> DEFINE Upto(n) == {t \in SUBSET S : Cardinality(t) <= n}
           Good(n) == \E g \in [Upto(n) -> Int] : \A t \in Upto(n) : g[t] = Adds(g, at, t)
           Odd == {n \in Nat : ~Good(n)}
<1>1. \A t \in SUBSET S : /\ IsFiniteSet(t) /\ Cardinality(t) \in Nat
                          /\ Cardinality(t) <= Cardinality(S)
  BY FS_Subset, FS_CardinalityType
<1>2. Cardinality(S) \in Nat
  BY FS_CardinalityType
<1>3. Good(0)
  <2> DEFINE g == [t \in Upto(0) |-> 0]
  <2>1. ASSUME NEW t \in Upto(0)
        PROVE  t = {}
    <3>1. Cardinality(t) = 0 /\ IsFiniteSet(t)
      BY <1>1
    <3> QED
      BY <3>1, FS_EmptySet
  <2>2. \A t \in Upto(0) : g[t] = Adds(g, at, t)
    BY <2>1 DEF Adds
  <2>3. g \in [Upto(0) -> Int]
    OBVIOUS
  <2> HIDE DEF g
  <2> QED
    BY <2>2, <2>3
<1>4. ASSUME NEW n \in Nat, Good(n)
      PROVE  Good(n + 1)
  <2>1. PICK g \in [Upto(n) -> Int] : \A t \in Upto(n) : g[t] = Adds(g, at, t)
    BY <1>4
  <2> DEFINE h == [t \in Upto(n + 1) |-> Adds(g, at, t)]
  <2>2. ASSUME NEW t \in Upto(n + 1), t # {}
        PROVE  Pick(t) \in Finger /\ t \ {Pick(t)} \in Upto(n)
    <3>1. /\ Pick(t) \in t /\ Cardinality(t \ {Pick(t)}) + 1 = Cardinality(t)
          /\ Cardinality(t \ {Pick(t)}) \in Nat
      BY <1>1, <2>2, PickIs
    <3>2. t \ {Pick(t)} \in SUBSET S
      OBVIOUS
    <3> QED
      BY <3>1, <3>2
  <2>3. h \in [Upto(n + 1) -> Int]
    <3>1. ASSUME NEW t \in Upto(n + 1) PROVE Adds(g, at, t) \in Int
      BY <2>1, <2>2 DEF Adds
    <3> QED
      BY <3>1
  <2>4. \A t \in Upto(n) : t \in Upto(n + 1) /\ h[t] = g[t]
    <3>1. ASSUME NEW t \in Upto(n) PROVE t \in Upto(n + 1)
      BY <1>1
    <3>2. ASSUME NEW t \in Upto(n) PROVE h[t] = g[t]
      BY <2>1, <3>1
    <3> QED
      BY <3>1, <3>2
  <2> HIDE DEF Upto
  <2>5. ASSUME NEW t \in Upto(n + 1) PROVE h[t] = Adds(h, at, t)
    <3>1. h[t] = Adds(g, at, t)
      OBVIOUS
    <3> HIDE DEF h
    <3>2. t # {} => h[t \ {Pick(t)}] = g[t \ {Pick(t)}]
      BY <2>2, <2>4
    <3> QED
      BY <3>1, <3>2 DEF Adds
  <2> HIDE DEF h
  <2> QED
    BY <2>3, <2>5
<1>5. Odd = {}
  <2> SUFFICES ASSUME Odd # {} PROVE FALSE
    OBVIOUS
  <2> HIDE DEF Good
  <2>1. PICK n \in Odd : \A y \in Odd : n <= y
    BY Least
  <2>2. n # 0
    BY <1>3, <2>1
  <2>3. n - 1 \in Nat /\ n - 1 \notin Odd /\ (n - 1) + 1 = n
    BY <2>1, <2>2
  <2> QED
    BY <1>4, <2>1, <2>3
<1>6. Good(Cardinality(S))
  <2> HIDE DEF Good
  <2> QED
    BY <1>2, <1>5
<1>7. Upto(Cardinality(S)) = SUBSET S
  BY <1>1
<1>8. PICK g \in [SUBSET S -> Int] : \A t \in SUBSET S : g[t] = Adds(g, at, t)
  <2> HIDE DEF Upto
  <2> QED
    BY <1>6, <1>7
<1>9. g = [t \in SUBSET S |-> Adds(g, at, t)]
  BY <1>8
<1> QED
  BY <1>9 DEF Sums

\* What holds of no finger, and of some if it holds of one less, holds of all.
LEMMA OneByOne ==
  ASSUME NEW S, IsFiniteSet(S), NEW Q, {} \in Q,
         \A t \in SUBSET S : t # {} /\ t \ {Pick(t)} \in Q => t \in Q
  PROVE  \A t \in SUBSET S : t \in Q
<1> DEFINE Odd == {Cardinality(t) : t \in (SUBSET S) \ Q}
<1>1. \A t \in SUBSET S : IsFiniteSet(t) /\ Cardinality(t) \in Nat
  BY FS_Subset, FS_CardinalityType
<1> SUFFICES ASSUME Odd # {} PROVE FALSE
  OBVIOUS
<1>2. Odd \in SUBSET Nat
  BY <1>1
<1>3. PICK n \in Odd : \A y \in Odd : n <= y
  <2> HIDE DEF Odd
  <2> QED
    BY <1>2, Least
<1>4. PICK t \in (SUBSET S) \ Q : n = Cardinality(t)
  BY <1>3
<1>5. t # {} /\ t \ {Pick(t)} \in SUBSET S /\ t \ {Pick(t)} \notin Q
  <2>1. t \in SUBSET S /\ t \notin Q /\ t # {}
    BY <1>4
  <2>2. t \ {Pick(t)} \in SUBSET S
    BY <2>1
  <2> QED
    BY <2>1, <2>2
<1>6. Cardinality(t \ {Pick(t)}) \in Odd
  BY <1>5
<1>7. Cardinality(t) = Cardinality(t \ {Pick(t)}) + 1 /\ Cardinality(t \ {Pick(t)}) \in Nat
  BY <1>1, <1>5, PickIs
<1> HIDE DEF Odd
<1>8. Cardinality(t) <= Cardinality(t \ {Pick(t)})
  BY <1>3, <1>4, <1>6
<1> QED
  BY <1>7, <1>8

\* So the sum is that function's.
LEMMA SumIs ==
  ASSUME NEW S \in SUBSET Finger, IsFiniteSet(S), NEW at \in [Finger -> Int]
  PROVE  \E g \in [SUBSET S -> Int] :
           /\ \A t \in SUBSET S : g[t] = Adds(g, at, t)
           /\ Centroid(S, at) = [sum |-> g[S], of |-> Cardinality(S)]
<1> DEFINE f == CHOOSE g : Sums(g, at, S)
           Q == {t \in SUBSET S : f[t] \in Int}
<1>1. Sums(f, at, S)
  BY SumsExist
<1>2. Centroid(S, at) = [sum |-> f[S], of |-> Cardinality(S)]
  BY DEF Centroid, MapThenSumSet, MapThenFoldSet, Sums, Adds, Pick
<1> HIDE DEF f
<1>3. \A t \in SUBSET S : f[t] = Adds(f, at, t)
  <2> DEFINE F == [t \in SUBSET S |-> Adds(f, at, t)]
  <2>1. f = F
    BY <1>1 DEF Sums
  <2>2. \A t \in SUBSET S : F[t] = Adds(f, at, t)
    OBVIOUS
  <2> HIDE DEF F
  <2> QED
    BY <2>1, <2>2
<1>4. \A t \in SUBSET S : t \in Q
  <2>1. {} \in Q
    <3>1. f[{}] = 0
      BY <1>3 DEF Adds
    <3> QED
      BY <3>1
  <2>2. ASSUME NEW t \in SUBSET S, t # {}, t \ {Pick(t)} \in Q
        PROVE  t \in Q
    <3>1. Pick(t) \in Finger
      BY <2>2, PickIs, FS_Subset
    <3>2. f[t] = at[Pick(t)] + f[t \ {Pick(t)}]
      BY <1>3, <2>2 DEF Adds
    <3> QED
      BY <2>2, <3>1, <3>2
  <2> HIDE DEF Q
  <2> QED
    BY <2>1, <2>2, OneByOne
<1>5. f \in [SUBSET S -> Int]
  <2>1. f = [t \in SUBSET S |-> Adds(f, at, t)]
    BY <1>1 DEF Sums
  <2>2. \A t \in SUBSET S : Adds(f, at, t) \in Int
    BY <1>3, <1>4
  <2> QED
    BY <2>1, <2>2
<1> QED
  BY <1>2, <1>3, <1>5

\* A centroid is a mean, of as many as there are fingers.
LEMMA CentroidIs ==
  ASSUME NEW S \in SUBSET Finger, IsFiniteSet(S), NEW at \in [Finger -> Int]
  PROVE  Centroid(S, at) \in Mean /\ Centroid(S, at).of = Cardinality(S)
<1>1. PICK g \in [SUBSET S -> Int] :
        Centroid(S, at) = [sum |-> g[S], of |-> Cardinality(S)]
  BY SumIs
<1>2. Cardinality(S) \in Nat /\ g[S] \in Int
  BY FS_CardinalityType
<1> QED
  BY <1>1, <1>2 DEF Mean

\* If each finger is by at most `c` farther than it was, so is their sum by
\* that many times `c`.
LEMMA SumBound ==
  ASSUME NEW S \in SUBSET Finger, IsFiniteSet(S), NEW a \in [Finger -> Int],
         NEW b \in [Finger -> Int], NEW c \in Int, \A f \in S : a[f] - b[f] <= c
  PROVE  Centroid(S, a).sum - Centroid(S, b).sum <= c * Cardinality(S)
<1>1. PICK g \in [SUBSET S -> Int] :
        /\ \A t \in SUBSET S : g[t] = Adds(g, a, t)
        /\ Centroid(S, a) = [sum |-> g[S], of |-> Cardinality(S)]
  BY SumIs
<1>2. PICK h \in [SUBSET S -> Int] :
        /\ \A t \in SUBSET S : h[t] = Adds(h, b, t)
        /\ Centroid(S, b) = [sum |-> h[S], of |-> Cardinality(S)]
  BY SumIs
<1> DEFINE Q == {t \in SUBSET S : g[t] - h[t] <= c * Cardinality(t)}
<1>3. \A t \in SUBSET S : t \in Q
  <2>1. {} \in Q
    <3>1. g[{}] = 0 /\ h[{}] = 0
      BY <1>1, <1>2 DEF Adds
    <3>2. Cardinality({}) = 0
      BY FS_EmptySet
    <3>3. c * 0 = 0
      OBVIOUS
    <3> QED
      BY <3>1, <3>2, <3>3
  <2>2. ASSUME NEW t \in SUBSET S, t # {}, t \ {Pick(t)} \in Q
        PROVE  t \in Q
    <3> DEFINE p == Pick(t)
               r == t \ {Pick(t)}
               n == Cardinality(r)
    <3>1. p \in S /\ n \in Nat /\ Cardinality(t) = n + 1 /\ r \in SUBSET S
      BY <2>2, PickIs, FS_Subset
    <3>2. g[t] = a[p] + g[r] /\ h[t] = b[p] + h[r]
      BY <1>1, <1>2, <2>2 DEF Adds
    <3>3. g[r] - h[r] <= c * n
      BY <2>2
    <3>4. a[p] - b[p] <= c /\ a[p] \in Int /\ b[p] \in Int
      BY <3>1
    <3>5. g[r] \in Int /\ h[r] \in Int
      BY <3>1
    <3> HIDE DEF p, r, n
    <3>6. c * (n + 1) = c * n + c /\ c * n \in Int
      BY <3>1
    <3>7. g[t] - h[t] <= c * (n + 1)
      BY <3>2, <3>3, <3>4, <3>5, <3>6
    <3> QED
      BY <3>1, <3>7
  <2> HIDE DEF Q
  <2> QED
    BY <2>1, <2>2, OneByOne
<1>4. g[S] - h[S] <= c * Cardinality(S)
  BY <1>3
<1> QED
  BY <1>1, <1>2, <1>4

\* A larger number, so many times.
LEMMA TimesMore ==
  ASSUME NEW x \in Int, NEW y \in Int, NEW n \in Nat, n >= 1, x <= y
  PROVE  x * n <= y * n
OBVIOUS

\* The slop of a centroid: fingers that are all within it do not move it off,
\* and fingers that are all off on one side do.
LEMMA Near ==
  ASSUME NEW S \in SUBSET Finger, IsFiniteSet(S), NEW a \in [Finger -> Int],
         NEW b \in [Finger -> Int], S # {}, \A f \in S : ~Off(a[f], b[f])
  PROVE  ~MeansOff(Centroid(S, a), Centroid(S, b))
<1> DEFINE n == Cardinality(S)
           x == Centroid(S, a).sum
           y == Centroid(S, b).sum
<1>1. /\ Centroid(S, a).of = n /\ Centroid(S, b).of = n /\ x \in Int /\ y \in Int
      /\ n \in Nat /\ n >= 1
  BY CentroidIs, FS_CardinalityType, FS_EmptySet DEF Mean
<1>2. /\ \A f \in S : a[f] - b[f] <= Slop /\ b[f] - a[f] <= Slop
      /\ Slop \in Int
  BY SlopType DEF Off
<1>3. x - y <= Slop * n /\ y - x <= Slop * n
  BY <1>2, SumBound
<1> HIDE DEF n, x, y
<1>4. /\ (x - y) * n <= (Slop * n) * n /\ (y - x) * n <= (Slop * n) * n
      /\ (x - y) * n = x * n - y * n /\ (y - x) * n = y * n - x * n
  BY <1>1, <1>2, <1>3, TimesMore
<1>5. x * n \in Int /\ y * n \in Int /\ (Slop * n) * n \in Int
  BY <1>1, <1>2
<1> QED
  BY <1>1, <1>4, <1>5 DEF MeansOff, n, x, y

LEMMA Far ==
  ASSUME NEW S \in SUBSET Finger, IsFiniteSet(S), NEW a \in [Finger -> Int],
         NEW b \in [Finger -> Int], S # {}, \A f \in S : a[f] - b[f] > Slop
  PROVE  LET m == Centroid(S, a)
             k == Centroid(S, b)
         IN  m.sum * k.of - k.sum * m.of > Slop * m.of * k.of
<1> DEFINE n == Cardinality(S)
           x == Centroid(S, a).sum
           y == Centroid(S, b).sum
           c == -Slop - 1
<1>1. /\ Centroid(S, a).of = n /\ Centroid(S, b).of = n /\ x \in Int /\ y \in Int
      /\ n \in Nat /\ n >= 1
  BY CentroidIs, FS_CardinalityType, FS_EmptySet DEF Mean
<1>2. Slop \in Int /\ c \in Int /\ \A f \in S : b[f] - a[f] <= c
  BY SlopType
<1>3. y - x <= c * n
  <2> HIDE DEF c
  <2> QED
    BY <1>2, SumBound
<1> HIDE DEF n, x, y
<1>4. c * n = -(Slop * n) - n /\ Slop * n \in Int
  BY <1>1, <1>2
<1>5. (Slop * n) + 1 <= x - y
  <2> HIDE DEF c
  <2> QED
    BY <1>1, <1>3, <1>4
<1>6. ((Slop * n) + 1) * n <= (x - y) * n
  BY <1>1, <1>4, <1>5, TimesMore
<1>7. ((Slop * n) + 1) * n = (Slop * n) * n + n /\ (x - y) * n = x * n - y * n
  BY <1>1, <1>2
<1>8. x * n \in Int /\ y * n \in Int /\ (Slop * n) * n \in Int
  BY <1>1, <1>2
<1>9. x * n - y * n > (Slop * n) * n
  BY <1>1, <1>6, <1>7, <1>8
<1> QED
  BY <1>1, <1>9 DEF n, x, y

-----------------------------------------------------------------------------
(* The invariant *)

TypeInv ==
  /\ scene \in Scenes
  /\ fingers \in SUBSET Finger /\ IsFiniteSet(fingers)
  /\ place \in [Finger -> Int]
  /\ reports \in Seq(SUBSET Button)
  /\ seat \in Seat /\ marks \in MarkState
  /\ renderer \in BOOLEAN /\ trackpad \in BOOLEAN /\ monitor \in BOOLEAN
  /\ active \in BOOLEAN /\ awake \in BOOLEAN /\ alarm \in BOOLEAN
  /\ hist \in HistState

\* With no gesture, and with no activity, nothing is left of the last one.
RestInv ==
  /\ (renderer /\ fingers = {}) \/ ~active => AtRest(seat)
  /\ ~active => fingers = {}

\* What any gesture that is handled has come from, cut short or not.
ModeInv ==
  renderer =>
    /\ seat.points \subseteq fingers
    /\ seat.mode \in {"LongPress", "Drag"} => hist.long

\* The buttons of a mouse that is not heard any more are given up, although
\* its last reports are still to be handled.
LostInv == ~monitor /\ reports # <<>> => Last(reports) \subseteq hist.lost

\* A gesture that was not cut short: the compositor knows every finger ...
WholeInv ==
  ~hist.broken =>
    /\ seat.points = fingers
    /\ fingers # {} =>
         /\ renderer /\ active /\ hist.pad = trackpad
         /\ seat.centroid /\ seat.down # "none"
         /\ seat.clicked = "none" /\ ~hist.cancelled /\ hist.most >= 1
         /\ hist.pad => seat.most = hist.most

\* ... one finger is one finger all the time ...
OneInv == ~hist.broken /\ hist.most = 1 => ~hist.lifted /\ \A f, g \in fingers : f = g

\* ... those of a tap are measured from where they landed ...
SeenInv ==
  ~hist.broken /\ fingers # {} /\ ~hist.lifted /\ seat.mode \in {"Undecided", "LongPress"} =>
    /\ marks.anchor = Centroid(fingers, hist.from)
    /\ \A f \in fingers : fingers = {f} => marks.origin = hist.from[f]

\* ... and the mode is what they have done: no tap if they moved off, a drag
\* only if the one finger did, and a tap if they kept still.
TapInv ==
  ~hist.broken /\ fingers # {} =>
    /\ seat.mode \in {"Undecided", "LongPress"} => ~hist.moved /\ (~hist.pad => hist.most = 1)
    /\ seat.mode = "Undecided" /\ hist.most = 1 => ~hist.long
    /\ seat.mode = "Drag" /\ hist.most = 1 => hist.moved
    /\ ~hist.restless /\ (hist.most = 1 \/ hist.pad) =>
         /\ seat.mode \in {"Undecided", "LongPress"} /\ ~seat.pressed
         /\ \A f \in fingers : ~Off(place[f], hist.from[f])

\* What is said of gestures that were not cut short.
GoodInv == WholeInv /\ OneInv /\ SeenInv /\ TapInv /\ ClicksAreTaps

GestureInv == TypeInv /\ NoStuckButton /\ RestInv /\ ModeInv /\ LostInv /\ GoodInv

\* Nothing is said of the others.
LEMMA BrokenIsGood ==
  ASSUME hist.broken
  PROVE  GoodInv
BY DEF GoodInv, WholeInv, OneInv, SeenInv, TapInv, ClicksAreTaps

LEMMA BrokenIsGoodNext ==
  ASSUME hist'.broken
  PROVE  GoodInv'
BY DEF GoodInv, WholeInv, OneInv, SeenInv, TapInv, ClicksAreTaps

\* The marks are what the handler leaves of them.
LEMMA MarksAre ==
  ASSUME NEW h, NEW m, Handle(h, m), marks \in MarkState, m \in MarkState
  PROVE  marks' \in MarkState
<1>1. NoMarks \in MarkState
  BY DEF NoMarks, MarkState, Mean, Home
<1> QED
  BY <1>1 DEF Handle

\* Who holds a button holds it still, if nothing is done to the others'.
LEMMA StuckIs ==
  ASSUME NoStuckButton, Loose(seat') \subseteq Loose(seat), seat'.external = seat.external,
         UNCHANGED <<reports, monitor>>, renderer, renderer',
         hist.lost \cap seat.guest \subseteq hist'.lost
  PROVE  NoStuckButton'
BY DEF NoStuckButton, Loose, DragsButton

\* A finger that lands where nobody handles it: the gesture is not whole.
LEMMA StartedUnseen ==
  ASSUME GestureInv, NEW f \in Finger, NEW at \in Int, TouchStarted(f, at), ~renderer
  PROVE  GestureInv'
<1>1. /\ active /\ UNCHANGED <<scene, reports, renderer, trackpad, monitor, active, alarm,
                               seat, marks>>
      /\ fingers' = fingers \cup {f} /\ awake' = TRUE /\ place' = [place EXCEPT ![f] = at]
      /\ hist' = IF fingers = {} THEN Fresh(StillLost, place')
                 ELSE [hist EXCEPT !.most = Bigger(@, Cardinality(fingers')),
                                   !.from = IF hist.broken THEN @ ELSE place']
  BY DEF TouchStarted, Handle, displays
<1>2. /\ IsFiniteSet(fingers') /\ Cardinality(fingers') \in Nat
      /\ place' \in [Finger -> Int] /\ hist \in HistState /\ trackpad \in BOOLEAN
  BY <1>1, FS_AddElement, FS_CardinalityType DEF GestureInv, TypeInv
<1>3. /\ hist'.broken /\ hist' \in HistState /\ hist.lost \cap seat.guest \subseteq hist'.lost
      /\ reports # <<>> => hist'.lost = hist.lost
  <2>1. CASE fingers = {}
    <3>1. hist' = Fresh(StillLost, place')
      BY <1>1, <2>1
    <3>2. /\ StillLost \in SUBSET Button /\ hist.lost \cap seat.guest \subseteq StillLost
          /\ reports # <<>> => StillLost = hist.lost
      BY <1>2 DEF StillLost, HistState
    <3> HIDE DEF StillLost
    <3> QED
      BY <1>2, <3>1, <3>2 DEF Fresh, HistState
  <2>2. CASE fingers # {}
    <3> DEFINE n == Bigger(hist.most, Cardinality(fingers'))
    <3>1. n \in Nat
      BY <1>2 DEF Bigger, HistState
    <3>3. hist.broken
      BY <2>2 DEF GestureInv, GoodInv, WholeInv
    <3>2. hist' = [hist EXCEPT !.most = n]
      BY <1>1, <1>2, <2>2, <3>3 DEF HistState
    <3> HIDE DEF n
    <3> QED
      BY <1>2, <3>1, <3>2, <3>3 DEF HistState
  <2> QED
    BY <2>1, <2>2
<1>4. TypeInv'
  BY <1>1, <1>2, <1>3 DEF GestureInv, TypeInv
<1>5. NoStuckButton'
  BY <1>1, <1>3 DEF GestureInv, NoStuckButton, DragsButton
<1>6. RestInv' /\ ModeInv'
  BY <1>1 DEF GestureInv, RestInv, ModeInv
<1>7. LostInv'
  BY <1>1, <1>3 DEF GestureInv, LostInv
<1>8. GoodInv'
  BY <1>3, BrokenIsGoodNext
<1> QED
  BY <1>4, <1>5, <1>6, <1>7, <1>8 DEF GestureInv

\* The first finger of a gesture.
LEMMA FirstStarted ==
  ASSUME GestureInv, NEW f \in Finger, NEW at \in Int, TouchStarted(f, at), renderer,
         fingers = {}
  PROVE  GestureInv'
<1> DEFINE s == [seat EXCEPT !.clicked = "none"]
           handled == IF trackpad THEN TrackpadStarted(s, f) ELSE PhoneStarted(s, f)
           marked == [anchor |-> Centroid(s.points \cup {f}, place'),
                      origin |-> IF s.points \cup {f} = {f} THEN at ELSE marks.origin]
<1>1. /\ active /\ UNCHANGED <<scene, reports, renderer, trackpad, monitor, active, alarm>>
      /\ fingers' = {f} /\ awake' = TRUE /\ place' = [place EXCEPT ![f] = at]
      /\ Handle(handled, marked)
      /\ hist' = Fresh(StillLost, place')
  BY DEF TouchStarted, Handle, displays
<1>2. /\ AtRest(seat) /\ seat \in Seat /\ trackpad \in BOOLEAN /\ hist \in HistState
      /\ marks \in MarkState /\ place' \in [Finger -> Int]
  BY <1>1 DEF GestureInv, RestInv, TypeInv
<1>3. /\ s \in Seat /\ s.points = {} /\ s.most = 0 /\ s.clicked = "none"
      /\ s.guest = seat.guest /\ s.external = seat.external /\ s.pressed = seat.pressed
      /\ ~s.pressed
  BY <1>2 DEF AtRest, Seat, SeatState
<1> HIDE DEF s
<1>11. s.points \cup {f} = {f} /\ Cardinality({f}) = 1 /\ IsFiniteSet({f})
  BY <1>3, FS_Singleton
<1>4. Lands(s, seat', f) /\ (trackpad => seat'.most = 1)
  <2>1. seat' = handled
    BY <1>1 DEF Handle
  <2> QED
    BY <1>3, <1>11, <2>1, PhoneLands, TrackpadLands DEF Bigger
<1>12. marked = [anchor |-> Centroid({f}, place'), origin |-> at]
  BY <1>11
<1>13. marked \in MarkState /\ marked.anchor = Centroid({f}, place') /\ marked.origin = at
  BY <1>2, <1>11, <1>12, CentroidIs DEF MarkState
<1>14. marks' = marked
  <2>1. seat' = handled /\ handled.points = {f}
    BY <1>1, <1>3, <1>4 DEF Handle, Lands
  <2> HIDE DEF handled, marked
  <2> QED
    BY <1>1, <2>1 DEF Handle
<1>15. /\ StillLost \in SUBSET Button /\ hist.lost \cap seat.guest \subseteq StillLost
       /\ reports # <<>> => StillLost = hist.lost
  BY <1>2 DEF StillLost, HistState
<1> HIDE DEF handled, marked
<1>5. /\ hist' \in HistState /\ hist'.most = 1 /\ ~hist'.moved /\ ~hist'.long
      /\ ~hist'.lifted /\ ~hist'.restless /\ hist'.from = place'
      /\ hist'.pad = trackpad /\ ~hist'.broken /\ ~hist'.cancelled
      /\ hist'.lost = StillLost
  <2> HIDE DEF StillLost
  <2> QED
    BY <1>1, <1>2, <1>15 DEF Fresh, HistState
<1>6. TypeInv'
  BY <1>1, <1>2, <1>4, <1>5, <1>13, <1>14, FS_Singleton DEF GestureInv, TypeInv, Lands
<1>7. NoStuckButton'
  <2>1. /\ Loose(seat') = Loose(seat) /\ seat'.external = seat.external
        /\ hist.lost \cap seat.guest \subseteq hist'.lost
    BY <1>3, <1>4, <1>5, <1>15 DEF Lands, Loose
  <2> QED
    BY <1>1, <2>1, StuckIs DEF GestureInv
<1>8. RestInv' /\ ModeInv'
  BY <1>1, <1>3, <1>4 DEF RestInv, ModeInv, Lands
<1>16. LostInv'
  BY <1>1, <1>5, <1>15 DEF GestureInv, LostInv
<1>17. WholeInv' /\ OneInv' /\ ClicksAreTaps'
  BY <1>1, <1>3, <1>4, <1>5 DEF WholeInv, OneInv, ClicksAreTaps, TapMade, Lands
<1>18. place'[f] = at
  BY <1>1 DEF GestureInv, TypeInv
<1>9. SeenInv'
  BY <1>1, <1>5, <1>13, <1>14, <1>18 DEF SeenInv
<1>19. TapInv'
  <2>1. ~Off(at, at)
    BY SlopType DEF Off
  <2> QED
    BY <1>1, <1>3, <1>4, <1>5, <1>18, <2>1 DEF TapInv, Lands
<1> QED
  BY <1>6, <1>7, <1>8, <1>9, <1>16, <1>17, <1>19 DEF GestureInv, GoodInv

\* One finger more: on the phone that is a scroll, on the trackpad another tap.
LEMMA MoreStarted ==
  ASSUME GestureInv, NEW f \in Finger, NEW at \in Int, TouchStarted(f, at), renderer,
         fingers # {}
  PROVE  GestureInv'
<1> DEFINE n == Bigger(hist.most, Cardinality(fingers'))
           from == IF hist.broken THEN hist.from ELSE place'
           handled == IF trackpad THEN TrackpadStarted(seat, f) ELSE PhoneStarted(seat, f)
           marked == [anchor |-> Centroid(seat.points \cup {f}, place'),
                      origin |-> IF seat.points \cup {f} = {f} THEN at ELSE marks.origin]
<1>1. /\ active /\ UNCHANGED <<scene, reports, renderer, trackpad, monitor, active, alarm>>
      /\ f \notin fingers /\ fingers' = fingers \cup {f} /\ awake' = TRUE
      /\ place' = [place EXCEPT ![f] = at]
      /\ Handle(handled, marked)
      /\ hist' = [hist EXCEPT !.most = n, !.from = from]
  BY DEF TouchStarted, Handle, displays, GestureInv, TypeInv, HistState
<1>2. /\ seat \in Seat /\ trackpad \in BOOLEAN /\ hist \in HistState /\ marks \in MarkState
      /\ IsFiniteSet(fingers) /\ fingers \in SUBSET Finger /\ place' \in [Finger -> Int]
      /\ IsFiniteSet(seat.points \cup {f}) /\ seat.points \cup {f} \in SUBSET Finger
  BY <1>1, OneMore DEF GestureInv, TypeInv
<1>21. seat' = handled
  BY <1>1 DEF Handle
<1>3. Lands(seat, seat', f)
  BY <1>2, <1>21, PhoneLands, TrackpadLands
<1>4. /\ IsFiniteSet(fingers') /\ Cardinality(fingers') \in Nat /\ Cardinality(fingers') >= 2
  <2>1. IsFiniteSet(fingers') /\ Cardinality(fingers') = Cardinality(fingers) + 1
    BY <1>1, <1>2, FS_AddElement
  <2>2. Cardinality(fingers) \in Nat /\ Cardinality(fingers) # 0
    BY <1>2, FS_CardinalityType, FS_EmptySet
  <2> QED
    BY <2>1, <2>2
<1>5. n \in Nat /\ n >= 2 /\ from \in [Finger -> Int]
  BY <1>2, <1>4 DEF Bigger, HistState
<1>22. /\ marked \in MarkState /\ marked.anchor = Centroid(seat.points \cup {f}, place')
  <2>1. Centroid(seat.points \cup {f}, place') \in Mean
    BY <1>2, CentroidIs
  <2> QED
    BY <1>2, <2>1 DEF MarkState
<1> HIDE DEF n, from, handled, marked
<1>23. marks' \in MarkState /\ marks' = marked
  <2>1. handled.points # {}
    BY <1>3, <1>21 DEF Lands
  <2> QED
    BY <1>1, <1>22, <2>1 DEF Handle
<1>6. /\ hist' \in HistState /\ hist'.most = n /\ hist'.moved = hist.moved
      /\ hist'.restless = hist.restless /\ hist'.lifted = hist.lifted /\ hist'.from = from
      /\ hist'.long = hist.long /\ hist'.pad = hist.pad /\ hist'.broken = hist.broken
      /\ hist'.cancelled = hist.cancelled /\ hist'.lost = hist.lost
  BY <1>1, <1>2, <1>5 DEF HistState
<1>7. TypeInv'
  BY <1>1, <1>2, <1>3, <1>4, <1>6, <1>23 DEF GestureInv, TypeInv, Lands
<1>8. NoStuckButton'
  BY <1>1, <1>3, <1>6, StuckIs DEF GestureInv, Lands, Loose
<1>9. RestInv' /\ ModeInv'
  BY <1>1, <1>3, <1>6 DEF GestureInv, RestInv, ModeInv, Lands
<1>24. LostInv'
  BY <1>1, <1>6 DEF GestureInv, LostInv
<1>10. ASSUME ~hist.broken
       PROVE  GoodInv'
  <2>1. /\ seat.points = fingers /\ hist.pad = trackpad /\ seat.centroid
        /\ seat.down # "none" /\ seat.clicked = "none" /\ ~hist.cancelled
        /\ hist.pad => seat.most = hist.most
    BY <1>10 DEF GestureInv, GoodInv, WholeInv
  <2>2. seat.points \ {f} # {} /\ seat.points \cup {f} = fingers'
    BY <1>1, <2>1
  <2>3. trackpad => seat'.most = n
    BY <1>2, <1>21, <2>1, <2>2, TrackpadLands DEF n, handled
  <2>4. seat'.mode = "Undecided" <=> trackpad /\ seat.mode \in {"Undecided", "LongPress"}
    <3>1. CASE trackpad
      BY <1>2, <1>21, <2>2, <3>1, TrackpadLands DEF handled
    <3>2. CASE ~trackpad
      BY <1>2, <1>21, <2>2, <3>2, PhoneLands DEF handled
    <3> QED
      BY <3>1, <3>2
  <2>5. WholeInv' /\ OneInv'
    BY <1>1, <1>3, <1>5, <1>6, <2>1, <2>2, <2>3 DEF WholeInv, OneInv, Lands
  <2>6. SeenInv'
    <3>1. marks'.anchor = Centroid(fingers', hist'.from)
      BY <1>6, <1>10, <1>22, <1>23, <2>2 DEF from
    <3>2. \A g \in fingers' : fingers' # {g}
      BY <1>1
    <3> QED
      BY <3>1, <3>2 DEF SeenInv
  <2>7. TapInv'
    <3>1. \A g \in fingers' : ~Off(place'[g], hist'.from[g])
      <4>1. \A i \in Int : ~Off(i, i)
        BY SlopType DEF Off
      <4>2. hist'.from = place' /\ \A g \in fingers' : place'[g] \in Int
        BY <1>1, <1>2, <1>6, <1>10 DEF from
      <4> QED
        BY <4>1, <4>2
    <3>2. ~(n = 1) /\ seat'.mode # "LongPress" /\ seat'.pressed = seat.pressed
      BY <1>3, <1>5 DEF Lands
    <3>3. seat.mode \in {"Undecided", "LongPress"} => ~hist.moved
      BY <1>10 DEF GestureInv, GoodInv, TapInv
    <3>4. ~hist.restless /\ hist.pad =>
            seat.mode \in {"Undecided", "LongPress"} /\ ~seat.pressed
      BY <1>10 DEF GestureInv, GoodInv, TapInv
    <3> QED
      BY <1>6, <2>1, <2>4, <3>1, <3>2, <3>3, <3>4 DEF TapInv
  <2>8. ClicksAreTaps'
    BY <1>1, <1>3, <2>1 DEF ClicksAreTaps, TapMade, Lands
  <2> QED
    BY <2>5, <2>6, <2>7, <2>8 DEF GoodInv
<1>11. ASSUME hist.broken
       PROVE  GoodInv'
  BY <1>6, <1>11, BrokenIsGoodNext
<1> QED
  BY <1>7, <1>8, <1>9, <1>10, <1>11, <1>24 DEF GestureInv

\* What the code asks of a finger that has come to where it is now.
Past(f) ==
  IF trackpad /\ Cardinality(seat.points \cup {f}) >= 2
    THEN MeansOff(Centroid(seat.points \cup {f}, place'), marks.anchor)
    ELSE Off(place'[f], marks.origin)

\* Its answer, of a tap: fingers that moved off together are past the slop,
\* fingers that kept still are not, and one finger that is past it moved off.
LEMMA PastIs ==
  ASSUME GestureInv, NEW f \in fingers, ~hist.broken, ~hist.lifted,
         place' \in [Finger -> Int], \A g \in fingers : g # f => place'[g] = place[g],
         seat.mode \in {"Undecided", "LongPress"}
  PROVE  /\ Together(hist.from) => Past(f)
         /\ ~hist.restless /\ hist.pad /\ ~Off(place'[f], hist.from[f]) => ~Past(f)
         /\ hist.most = 1 => (Past(f) <=> Together(hist.from))
         /\ hist.most = 1 => (Past(f) <=> Off(place'[f], hist.from[f]))
<1>1. /\ fingers \in SUBSET Finger /\ IsFiniteSet(fingers) /\ fingers # {}
      /\ hist.from \in [Finger -> Int] /\ seat.points \cup {f} = fingers
      /\ hist.pad = trackpad
  BY DEF GestureInv, GoodInv, TypeInv, HistState, WholeInv
<1>2. /\ marks.anchor = Centroid(fingers, hist.from)
      /\ fingers = {f} => marks.origin = hist.from[f]
  BY <1>1 DEF GestureInv, GoodInv, SeenInv
<1>3. /\ ~trackpad => fingers = {f}
      /\ hist.most = 1 => fingers = {f}
  BY <1>1 DEF GestureInv, GoodInv, TapInv, OneInv
<1>4. Cardinality(fingers) >= 2 <=> fingers # {f}
  <2>1. Cardinality({f}) = 1
    BY FS_Singleton
  <2>2. ASSUME fingers # {f} PROVE Cardinality(fingers) >= 2
    <3>1. Cardinality(fingers) \in Nat /\ Cardinality(fingers) # 0
      BY <1>1, FS_CardinalityType, FS_EmptySet
    <3>2. Cardinality(fingers) = 1 => \E x : fingers = {x}
      BY <1>1, FS_Singleton
    <3>3. Cardinality(fingers) # 1
      BY <2>2, <3>2
    <3> QED
      BY <3>1, <3>3
  <2> QED
    BY <2>1, <2>2
<1>5. CASE fingers = {f}
  <2>1. Past(f) <=> Off(place'[f], hist.from[f])
    BY <1>1, <1>2, <1>4, <1>5 DEF Past
  <2>2. Together(hist.from) <=> Off(place'[f], hist.from[f])
    BY <1>5 DEF Together, Off
  <2> QED
    BY <2>1, <2>2
<1>6. CASE fingers # {f}
  <2> DEFINE a == Centroid(fingers, place')
             b == Centroid(fingers, hist.from)
  <2>1. Past(f) <=> MeansOff(a, b)
    BY <1>1, <1>2, <1>3, <1>4, <1>6 DEF Past
  <2>2. Together(hist.from) => MeansOff(a, b)
    <3>1. CASE \A g \in fingers : place'[g] - hist.from[g] > Slop
      <4>1. a.sum * b.of - b.sum * a.of > Slop * a.of * b.of
        BY <1>1, <3>1, Far
      <4> QED
        BY <4>1 DEF MeansOff
    <3>2. CASE \A g \in fingers : hist.from[g] - place'[g] > Slop
      <4>1. b.sum * a.of - a.sum * b.of > Slop * b.of * a.of
        BY <1>1, <3>2, Far
      <4>2. Slop * b.of * a.of = Slop * a.of * b.of
        <5>1. a.of = b.of
          BY <1>1, CentroidIs
        <5> QED
          BY <5>1
      <4> QED
        BY <4>1, <4>2 DEF MeansOff
    <3> QED
      BY <3>1, <3>2 DEF Together
  <2>3. ~hist.restless /\ hist.pad /\ ~Off(place'[f], hist.from[f]) => ~MeansOff(a, b)
    <3> SUFFICES ASSUME ~hist.restless, hist.pad, ~Off(place'[f], hist.from[f])
                 PROVE  ~MeansOff(a, b)
      OBVIOUS
    <3>1. \A g \in fingers : ~Off(place[g], hist.from[g])
      BY <1>1 DEF GestureInv, GoodInv, TapInv
    <3>2. \A g \in fingers : ~Off(place'[g], hist.from[g])
      BY <3>1
    <3> QED
      BY <1>1, <3>2, Near
  <2> QED
    BY <1>3, <1>6, <2>1, <2>2, <2>3
<1> QED
  BY <1>5, <1>6

\* A finger moves: a step of the seat's that is told by Past.
LEMMA MovedIs ==
  ASSUME GestureInv, NEW f \in Finger, NEW at \in Int, TouchMoved(f, at)
  PROVE  /\ f \in fingers
         /\ UNCHANGED <<fingers, scene, reports, renderer, trackpad, monitor, active, alarm>>
         /\ awake' = TRUE
         /\ place' = [place EXCEPT ![f] = at] /\ place' \in [Finger -> Int]
         /\ marks' \in MarkState
         /\ renderer => Moves(seat, seat', f, Past(f))
         /\ renderer /\ seat'.mode # "Scroll" => marks' = marks
         /\ ~renderer => UNCHANGED <<seat, marks>>
         /\ hist' = IF hist.broken THEN hist
                    ELSE [hist EXCEPT !.moved = @ \/ (~hist.lifted /\ Together(hist.from)),
                                      !.restless = @ \/ hist.lifted \/ Off(at, hist.from[f])]
<1> DEFINE points == seat.points \cup {f}
           now == Centroid(points, place')
           still == now.sum * marks.anchor.of = marks.anchor.sum * now.of
           handled == IF trackpad THEN TrackpadMoved(seat, f, Past(f), still)
                      ELSE PhoneMoved(seat, f, Past(f), still)
           marked == IF handled.mode = "Scroll" THEN [marks EXCEPT !.anchor = now] ELSE marks
<1>1. /\ f \in fingers /\ place' = [place EXCEPT ![f] = at] /\ UNCHANGED fingers
      /\ hist' = IF hist.broken THEN hist
                 ELSE [hist EXCEPT !.moved = @ \/ (~hist.lifted /\ Together(hist.from)),
                                   !.restless = @ \/ hist.lifted \/ Off(at, hist.from[f])]
  BY DEF TouchMoved
<1>2. /\ seat \in Seat /\ marks \in MarkState /\ trackpad \in BOOLEAN
      /\ place' \in [Finger -> Int] /\ place'[f] = at
  BY <1>1 DEF GestureInv, TypeInv
<1>3. Handle(handled, marked)
  BY <1>2 DEF TouchMoved, Past
<1>4. Past(f) \in BOOLEAN /\ still \in BOOLEAN
  BY DEF Past, MeansOff, Off
<1>5. Moves(seat, handled, f, Past(f))
  <2> HIDE DEF still
  <2>1. Moves(seat, PhoneMoved(seat, f, Past(f), still), f, Past(f))
    BY <1>2, <1>4, PhoneMoves
  <2>2. Moves(seat, TrackpadMoved(seat, f, Past(f), still), f, Past(f))
    BY <1>2, <1>4, TrackpadMoves
  <2> QED
    BY <1>2, <2>1, <2>2
<1>6. now \in Mean
  BY <1>2, OneMore, CentroidIs
<1> HIDE DEF now, handled
<1>7. marked \in MarkState
  BY <1>2, <1>6 DEF MarkState
<1>8. handled.points # {}
  BY <1>5 DEF Moves
<1>9. marks' \in MarkState
  BY <1>2, <1>3, <1>7, MarksAre
<1> QED
  BY <1>1, <1>2, <1>3, <1>5, <1>8, <1>9 DEF Handle, displays

LEMMA MovedKeeps ==
  ASSUME GestureInv, NEW f \in Finger, NEW at \in Int, TouchMoved(f, at)
  PROVE  GestureInv'
<1> DEFINE moved == hist.moved \/ (~hist.lifted /\ Together(hist.from))
           restless == hist.restless \/ hist.lifted \/ Off(at, hist.from[f])
<1>2. /\ f \in fingers
      /\ UNCHANGED <<fingers, scene, reports, renderer, trackpad, monitor, active, alarm>>
      /\ awake' = TRUE
      /\ place' = [place EXCEPT ![f] = at] /\ place' \in [Finger -> Int]
      /\ marks' \in MarkState
      /\ renderer => Moves(seat, seat', f, Past(f))
      /\ renderer /\ seat'.mode # "Scroll" => marks' = marks
      /\ ~renderer => UNCHANGED <<seat, marks>>
      /\ hist' = IF hist.broken THEN hist
                 ELSE [hist EXCEPT !.moved = moved, !.restless = restless]
  <2>1. hist \in HistState
    BY DEF GestureInv, TypeInv
  <2> QED
    BY <2>1, MovedIs DEF HistState
<1>3. seat \in Seat /\ trackpad \in BOOLEAN /\ hist \in HistState
  BY DEF GestureInv, TypeInv
<1>4. moved \in BOOLEAN /\ restless \in BOOLEAN
  BY <1>3 DEF HistState, Together, Off
<1> HIDE DEF moved, restless
<1>5. /\ hist' \in HistState /\ hist'.most = hist.most /\ hist'.from = hist.from
      /\ hist'.lifted = hist.lifted
      /\ hist'.long = hist.long /\ hist'.pad = hist.pad /\ hist'.broken = hist.broken
      /\ hist'.cancelled = hist.cancelled /\ hist'.lost = hist.lost
      /\ ~hist.broken => hist'.moved = moved /\ hist'.restless = restless
  BY <1>2, <1>3, <1>4 DEF HistState
<1>6. TypeInv'
  BY <1>2, <1>5 DEF GestureInv, TypeInv, Moves
<1>7. NoStuckButton'
  <2>1. CASE renderer
    BY <1>2, <1>5, <2>1, StuckIs DEF GestureInv, Moves
  <2>2. CASE ~renderer
    BY <1>2, <1>5, <2>2 DEF GestureInv, NoStuckButton, DragsButton
  <2> QED
    BY <2>1, <2>2
<1>8. RestInv' /\ ModeInv'
  BY <1>2, <1>5 DEF GestureInv, RestInv, ModeInv, Moves
<1>9. LostInv'
  BY <1>2, <1>5 DEF GestureInv, LostInv
<1>10. ASSUME ~hist.broken
       PROVE  GoodInv'
  <2>1. /\ renderer /\ seat.points = fingers /\ active /\ hist.pad = trackpad
        /\ seat.centroid /\ seat.down # "none" /\ seat.clicked = "none"
        /\ ~hist.cancelled /\ hist.most >= 1 /\ (hist.pad => seat.most = hist.most)
    BY <1>2, <1>10 DEF GestureInv, GoodInv, WholeInv
  <2>2. Moves(seat, seat', f, Past(f))
    BY <1>2, <2>1
  <2>3. WholeInv' /\ OneInv'
    BY <1>2, <1>5, <2>1, <2>2 DEF GestureInv, GoodInv, WholeInv, OneInv, Moves
  <2>4. ClicksAreTaps'
    BY <1>2, <1>5, <2>1, <2>2 DEF ClicksAreTaps, TapMade, Moves
  <2>5. SeenInv'
    BY <1>2, <1>5, <1>10, <2>1, <2>2 DEF GestureInv, GoodInv, SeenInv, Moves
  <2> DEFINE tap == seat.mode \in {"Undecided", "LongPress"}
             near == ~Off(place'[f], hist.from[f])
  <2>6. tap /\ ~hist.lifted =>
          /\ Together(hist.from) => Past(f)
          /\ ~hist.restless /\ hist.pad /\ near => ~Past(f)
          /\ hist.most = 1 => (Past(f) <=> Together(hist.from))
          /\ hist.most = 1 => (Past(f) <=> ~near)
    BY <1>2, <1>10, PastIs
  <2>7. place'[f] = at /\ \A g \in fingers : g # f => place'[g] = place[g]
    BY <1>2 DEF GestureInv, TypeInv
  <2>8. /\ tap => ~hist.moved /\ (~hist.pad => hist.most = 1)
        /\ seat.mode = "Undecided" /\ hist.most = 1 => ~hist.long
        /\ seat.mode = "Drag" /\ hist.most = 1 => hist.moved
        /\ ~hist.restless /\ (hist.most = 1 \/ hist.pad) =>
             /\ tap /\ ~seat.pressed
             /\ \A g \in fingers : ~Off(place[g], hist.from[g])
        /\ hist.most = 1 => ~hist.lifted
    BY <1>2, <1>10 DEF GestureInv, GoodInv, TapInv, OneInv
  <2>9. ASSUME seat'.mode \in {"Undecided", "LongPress"}
        PROVE  ~moved /\ (~hist.pad => hist.most = 1) /\ seat'.mode = seat.mode
    <3>1. seat'.mode = seat.mode /\ ~Past(f)
      BY <2>1, <2>2, <2>9 DEF Moves
    <3> QED
      BY <2>6, <2>8, <2>9, <3>1 DEF moved
  <2>10. ASSUME seat'.mode = "Drag", hist.most = 1
         PROVE  moved
    <3>1. seat.mode = "Drag" \/ (seat.mode = "LongPress" /\ Past(f))
      BY <2>2, <2>10 DEF Moves
    <3> QED
      BY <2>6, <2>8, <2>10, <3>1 DEF moved
  <2>11. ASSUME ~restless, hist.most = 1 \/ hist.pad
         PROVE  /\ seat'.mode \in {"Undecided", "LongPress"} /\ ~seat'.pressed
                /\ \A g \in fingers : ~Off(place'[g], hist.from[g])
    <3>1. ~hist.restless /\ ~hist.lifted /\ near
      BY <2>7, <2>11 DEF restless
    <3>2. tap /\ ~seat.pressed /\ ~Past(f)
      BY <2>6, <2>8, <2>11, <3>1
    <3>3. seat'.mode = seat.mode /\ seat'.pressed = seat.pressed
      BY <2>2, <3>2 DEF Moves
    <3>4. \A g \in fingers : ~Off(place'[g], hist.from[g])
      BY <2>7, <2>8, <2>11, <3>1
    <3> QED
      BY <3>2, <3>3, <3>4
  <2> HIDE DEF tap, near
  <2>12. TapInv'
    <3>1. seat'.mode = "Undecided" /\ hist.most = 1 => ~hist.long
      BY <2>8, <2>9
    <3> QED
      BY <1>2, <1>5, <1>10, <2>9, <2>10, <2>11, <3>1 DEF TapInv
  <2> QED
    BY <2>3, <2>4, <2>5, <2>12 DEF GoodInv
<1>11. ASSUME hist.broken
       PROVE  GoodInv'
  BY <1>5, <1>11, BrokenIsGoodNext
<1> QED
  BY <1>6, <1>7, <1>8, <1>9, <1>10, <1>11 DEF GestureInv

\* Fingers go, one or all: the gesture goes on, or is over and was a tap.
LEMMA LeavingKeeps ==
  ASSUME GestureInv, NEW gone, gone \subseteq fingers, gone # {},
         fingers' = fingers \ gone,
         UNCHANGED <<scene, reports, renderer, trackpad, monitor, active, alarm>>,
         awake' = TRUE, place' \in [Finger -> Int], marks' \in MarkState,
         \A f \in fingers' : place'[f] = place[f] /\ hist'.from[f] = hist.from[f],
         hist' \in HistState,
         hist'.most = hist.most, hist'.moved = hist.moved, hist'.restless = hist.restless,
         hist'.long = hist.long, hist'.pad = hist.pad, hist'.broken = hist.broken,
         hist'.lost = hist.lost,
         renderer => Leave(seat, seat', gone),
         ~renderer => UNCHANGED seat,
         ~hist.broken => ClicksAreTaps',
         ~hist.broken /\ fingers' # {} => hist'.lifted /\ hist'.cancelled = hist.cancelled,
         ~hist.broken /\ fingers' = {} => hist'.lifted = hist.lifted
  PROVE  GestureInv'
<1>1. IsFiniteSet(fingers') /\ fingers' \in SUBSET Finger
  BY FS_Subset DEF GestureInv, TypeInv
<1>2. active
  BY DEF GestureInv, RestInv
<1>4. TypeInv'
  BY <1>1 DEF GestureInv, TypeInv, Leave
<1>5. NoStuckButton'
  <2>1. CASE renderer
    BY <2>1, StuckIs DEF GestureInv, Leave
  <2>2. CASE ~renderer
    BY <2>2 DEF GestureInv, NoStuckButton, DragsButton
  <2> QED
    BY <2>1, <2>2
<1>6. RestInv' /\ ModeInv'
  BY <1>2 DEF GestureInv, RestInv, ModeInv, Leave, AtRest
<1>7. LostInv'
  BY DEF GestureInv, LostInv
<1>8. ASSUME ~hist.broken
      PROVE  GoodInv'
  <2>1. renderer /\ seat.points = fingers
    BY <1>8 DEF GestureInv, GoodInv, WholeInv
  <2>2. WholeInv'
    BY <1>2, <1>8, <2>1 DEF GestureInv, GoodInv, WholeInv, Leave, AtRest
  <2>3. OneInv'
    <3>1. hist.most = 1 => fingers' = {} /\ ~hist.lifted
      BY <1>8 DEF GestureInv, GoodInv, OneInv
    <3> QED
      BY <1>8, <3>1 DEF OneInv
  <2>4. SeenInv'
    BY <1>8 DEF SeenInv
  <2>5. TapInv'
    BY <1>8, <2>1 DEF GestureInv, GoodInv, TapInv, Leave
  <2> QED
    BY <1>8, <2>2, <2>3, <2>4, <2>5 DEF GoodInv
<1>9. ASSUME hist.broken
      PROVE  GoodInv'
  BY <1>9, BrokenIsGoodNext
<1> QED
  BY <1>4, <1>5, <1>6, <1>7, <1>8, <1>9 DEF GestureInv

\* Of a centroid that is left behind only the type matters.
LEMMA LeftMarks ==
  ASSUME GestureInv, NEW gone, NEW h,
         Handle(h, [marks EXCEPT !.anchor = Centroid(seat.points \ gone, place)])
  PROVE  marks' \in MarkState
<1> DEFINE m == Centroid(seat.points \ gone, place)
<1>1. m \in Mean
  <2>1. seat.points \ gone \in SUBSET Finger /\ IsFiniteSet(seat.points \ gone)
    BY FS_Subset DEF GestureInv, TypeInv, Seat, SeatState
  <2> QED
    BY <2>1, CentroidIs DEF GestureInv, TypeInv
<1>2. marks \in MarkState
  BY DEF GestureInv, TypeInv
<1> HIDE DEF m
<1>3. [marks EXCEPT !.anchor = m] \in MarkState
  BY <1>1, <1>2 DEF MarkState
<1> QED
  BY <1>2, <1>3, MarksAre DEF m

\* A finger is lifted: if it was the last, its click is the tap it made.
LEMMA EndedKeeps ==
  ASSUME GestureInv, NEW f \in Finger, TouchEnded(f)
  PROVE  GestureInv'
<1> DEFINE lifted == hist.lifted \/ fingers' # {}
<1>1. /\ f \in fingers /\ fingers' = fingers \ {f} /\ awake' = TRUE
      /\ place' = [place EXCEPT ![f] = Home]
      /\ UNCHANGED <<scene, reports, renderer, trackpad, monitor, active, alarm>>
      /\ seat' = IF renderer THEN IF trackpad THEN TrackpadEnded(seat, f) ELSE PhoneEnded(seat, f)
                 ELSE seat
      /\ hist' = IF hist.broken THEN hist
                 ELSE [hist EXCEPT !.lifted = lifted, !.from[f] = Home]
  BY DEF TouchEnded, Handle, displays, GestureInv, TypeInv, HistState
<1>2. /\ seat \in Seat /\ trackpad \in BOOLEAN /\ hist \in HistState /\ lifted \in BOOLEAN
      /\ place \in [Finger -> Int] /\ fingers \in SUBSET Finger
  BY DEF GestureInv, TypeInv, HistState
<1> HIDE DEF lifted
<1>3. renderer => Leave(seat, seat', {f})
  BY <1>1, <1>2, PhoneLeaves, TrackpadLeaves
<1>5. /\ hist' \in HistState
      /\ hist'.most = hist.most /\ hist'.moved = hist.moved /\ hist'.restless = hist.restless
      /\ hist'.long = hist.long /\ hist'.pad = hist.pad /\ hist'.broken = hist.broken
      /\ hist'.lost = hist.lost /\ hist'.cancelled = hist.cancelled
      /\ ~hist.broken => hist'.lifted = lifted
      /\ \A g \in fingers' : hist'.from[g] = hist.from[g]
  <2> DEFINE from == [hist.from EXCEPT ![f] = Home]
  <2>1. /\ from \in [Finger -> Int]
        /\ \A g \in fingers' : from[g] = hist.from[g]
    BY <1>1, <1>2 DEF HistState, Home
  <2>2. hist' = IF hist.broken THEN hist
                ELSE [hist EXCEPT !.lifted = lifted, !.from = from]
    BY <1>1, <1>2 DEF HistState
  <2> HIDE DEF from
  <2> QED
    BY <1>2, <2>1, <2>2 DEF HistState
<1>6. /\ place' \in [Finger -> Int]
      /\ \A g \in fingers' : place'[g] = place[g]
  BY <1>1, <1>2 DEF Home
<1>7. marks' \in MarkState
  BY LeftMarks DEF TouchEnded
<1>4. ASSUME ~hist.broken
      PROVE  ClicksAreTaps'
  <2>1. /\ renderer /\ seat.clicked = "none" /\ ~hist.cancelled /\ hist.most >= 1
        /\ hist.pad = trackpad /\ (hist.pad => seat.most = hist.most)
        /\ seat.points = fingers
    BY <1>1, <1>4 DEF GestureInv, GoodInv, WholeInv
  <2>2. /\ seat.mode \in {"Undecided", "LongPress"} =>
             ~hist.moved /\ (~hist.pad => hist.most = 1)
        /\ seat.mode = "Undecided" /\ hist.most = 1 => ~hist.long
        /\ seat.mode = "LongPress" => hist.long
        /\ ~hist.restless /\ (hist.most = 1 \/ hist.pad) =>
             seat.mode \in {"Undecided", "LongPress"} /\ ~seat.pressed
    BY <1>1, <1>4, <2>1 DEF GestureInv, GoodInv, TapInv, ModeInv
  <2>3. hist.most \in Nat
    BY <1>2 DEF HistState
  <2>6. TapMade' => /\ seat.points \ {f} = {} /\ ~seat.pressed
                    /\ seat.mode \in {"Undecided", "LongPress"}
                    /\ hist.most = 1 \/ (hist.pad /\ seat.mode = "Undecided")
    <3>1. TapMade' => /\ fingers' = {} /\ ~hist.restless
                      /\ hist.most = 1 \/ (hist.pad /\ ~hist.long)
      BY <1>5 DEF TapMade
    <3> QED
      BY <1>1, <2>1, <2>2, <3>1
  <2>4. CASE trackpad
    <3>0. seat' = TrackpadEnded(seat, f)
      BY <1>1, <2>1, <2>4
    <3>1. \/ seat'.clicked = seat.clicked
          \/ seat'.clicked = "left" /\ seat.mode = "Undecided" /\ seat.most = 1
          \/ seat'.clicked = "right" /\ seat.mode = "Undecided" /\ seat.most = 2
          \/ seat'.clicked = "right" /\ seat.mode = "LongPress" /\ seat.most = 1
          \/ seat'.clicked = "middle" /\ seat.mode = "Undecided" /\ seat.most \notin {1, 2}
      BY <1>2, <3>0, TrackpadLeaves
    <3>2. TapMade' => seat'.clicked # "none"
      BY <1>2, <2>1, <2>4, <2>6, <3>0, TrackpadLeaves
    <3> QED
      BY <1>5, <2>1, <2>2, <2>3, <2>4, <3>1, <3>2 DEF ClicksAreTaps
  <2>5. CASE ~trackpad
    <3>0. seat' = PhoneEnded(seat, f)
      BY <1>1, <2>1, <2>5
    <3>1. \/ seat'.clicked = seat.clicked
          \/ seat'.clicked = "left" /\ seat.mode = "Undecided"
          \/ seat'.clicked = "right" /\ seat.mode = "LongPress"
      BY <1>2, <3>0, PhoneLeaves
    <3>2. TapMade' => seat'.clicked # "none"
      BY <1>2, <2>6, <3>0, PhoneLeaves
    <3> QED
      BY <1>5, <2>1, <2>2, <2>3, <2>5, <3>1, <3>2 DEF ClicksAreTaps
  <2> QED
    BY <2>4, <2>5
<1>8. (fingers' # {} => lifted) /\ (fingers' = {} => lifted = hist.lifted)
  BY <1>2 DEF lifted, HistState
<1>9. ~renderer => UNCHANGED seat
  BY <1>1
<1> QED
  BY <1>1, <1>3, <1>4, <1>5, <1>6, <1>7, <1>8, <1>9, LeavingKeeps

\* Android takes all fingers back.
LEMMA CancelledKeeps ==
  ASSUME GestureInv, TouchCancelled
  PROVE  GestureInv'
<1>1. /\ fingers # {} /\ fingers' = fingers \ fingers /\ awake' = TRUE /\ place' = Nowhere
      /\ UNCHANGED <<scene, reports, renderer, trackpad, monitor, active, alarm>>
      /\ seat' = IF renderer THEN Cancelled(seat, fingers) ELSE seat
      /\ hist' = IF hist.broken THEN hist
                 ELSE [hist EXCEPT !.cancelled = TRUE, !.from = Nowhere]
  BY DEF TouchCancelled, Handle, displays
<1>2. seat \in Seat /\ hist \in HistState
  BY DEF GestureInv, TypeInv
<1>3. /\ hist' \in HistState
      /\ hist'.most = hist.most /\ hist'.moved = hist.moved /\ hist'.restless = hist.restless
      /\ hist'.long = hist.long /\ hist'.pad = hist.pad /\ hist'.broken = hist.broken
      /\ hist'.lost = hist.lost /\ hist'.lifted = hist.lifted
      /\ ~hist.broken => hist'.cancelled
  <2>1. Nowhere \in [Finger -> Int]
    BY DEF Nowhere, Home
  <2> QED
    BY <1>1, <1>2, <2>1 DEF HistState
<1>4. renderer => Leave(seat, seat', fingers) /\ seat'.clicked = seat.clicked
  BY <1>1, <1>2, CancelledLeaves
<1>5. ASSUME ~hist.broken
      PROVE  ClicksAreTaps'
  <2>1. seat'.clicked = "none"
    BY <1>1, <1>4, <1>5 DEF GestureInv, GoodInv, WholeInv
  <2>2. ~TapMade'
    BY <1>3, <1>5 DEF TapMade
  <2> QED
    BY <2>1, <2>2 DEF ClicksAreTaps
<1>6. fingers' = {}
  BY <1>1
<1>7. marks' \in MarkState
  BY LeftMarks DEF TouchCancelled
<1>8. place' \in [Finger -> Int]
  BY <1>1 DEF Nowhere, Home
<1> QED
  BY <1>1, <1>3, <1>4, <1>5, <1>6, <1>7, <1>8, LeavingKeeps

\* Steps that leave the gesture, the displays and the activity alone.
LEMMA ElsewhereKeeps ==
  ASSUME GestureInv, UNCHANGED <<scene, fingers, place, reports, seat, marks, renderer,
                                 trackpad, monitor, active, hist>>,
         awake' \in BOOLEAN, alarm' \in BOOLEAN
  PROVE  GestureInv'
<1>1. TypeInv' /\ NoStuckButton' /\ RestInv' /\ ModeInv' /\ LostInv'
  BY DEF GestureInv, TypeInv, NoStuckButton, DragsButton, RestInv, ModeInv, LostInv
<1>2. WholeInv' /\ OneInv' /\ SeenInv' /\ TapInv' /\ ClicksAreTaps'
  BY DEF GestureInv, GoodInv, WholeInv, OneInv, SeenInv, TapInv, ClicksAreTaps, TapMade
<1> QED
  BY <1>1, <1>2 DEF GestureInv, GoodInv

\* Steps that leave the gesture alone, and perhaps add to what is lost.
LEMMA GoodStays ==
  ASSUME GoodInv, hist \in HistState, UNCHANGED <<fingers, place, marks, trackpad, renderer>>,
         NEW lost, hist' = [hist EXCEPT !.lost = lost],
         seat'.points = seat.points, seat'.mode = seat.mode, seat'.centroid = seat.centroid,
         seat'.down = seat.down \/ seat'.down = "due", seat'.most = seat.most,
         seat'.pressed = seat.pressed, seat'.clicked = seat.clicked, active => active'
  PROVE  GoodInv'
<1>1. /\ hist'.most = hist.most /\ hist'.moved = hist.moved /\ hist'.restless = hist.restless
      /\ hist'.long = hist.long /\ hist'.pad = hist.pad /\ hist'.broken = hist.broken
      /\ hist'.lifted = hist.lifted /\ hist'.from = hist.from
      /\ hist'.cancelled = hist.cancelled
  BY DEF HistState
<1>2. WholeInv' /\ OneInv'
  BY <1>1 DEF GoodInv, WholeInv, OneInv
<1>3. SeenInv' /\ TapInv'
  BY <1>1 DEF GoodInv, SeenInv, TapInv
<1>4. ClicksAreTaps'
  BY <1>1 DEF GoodInv, ClicksAreTaps, TapMade
<1> QED
  BY <1>2, <1>3, <1>4 DEF GoodInv

\* A report waits in the bridge.
LEMMA MouseKeeps ==
  ASSUME GestureInv, MouseReports
  PROVE  GestureInv'
<1>1. PICK buttons \in SUBSET scene.mouse : reports' = Append(reports, buttons)
  BY DEF MouseReports
<1>2. buttons \in SUBSET Button /\ reports \in Seq(SUBSET Button)
  BY ScenesType DEF GestureInv, TypeInv, Scene
<1>3. reports' \in Seq(SUBSET Button)
  BY <1>1, <1>2
<1>4. /\ monitor /\ UNCHANGED <<scene, fingers, place, seat, marks, renderer, trackpad,
                                monitor, active, awake, alarm, hist>>
  BY DEF MouseReports, touches, displays, loopState
<1>5. TypeInv' /\ RestInv' /\ ModeInv' /\ LostInv'
  BY <1>3, <1>4 DEF GestureInv, TypeInv, RestInv, ModeInv, LostInv
<1>6. NoStuckButton'
  BY <1>4 DEF GestureInv, NoStuckButton, DragsButton
<1>7. hist' = [hist EXCEPT !.lost = hist.lost] /\ hist \in HistState
  BY <1>4 DEF GestureInv, TypeInv, HistState
<1>8. GoodInv'
  BY <1>4, <1>7, GoodStays DEF GestureInv
<1> QED
  BY <1>5, <1>6, <1>8 DEF GestureInv

\* The mouse's reports are for its own buttons.
LEMMA ExternalKeeps ==
  ASSUME GestureInv, ExternalPointer
  PROVE  GestureInv'
<1>1. /\ reports # <<>> /\ reports' = <<>> /\ seat' = FoldLeft(External, seat, reports)
      /\ hist' = [hist EXCEPT !.lost = hist.lost \cap seat'.guest] /\ awake' = TRUE
      /\ UNCHANGED <<scene, fingers, place, marks, renderer, trackpad, monitor, active, alarm>>
  BY DEF ExternalPointer, touches, displays, GestureInv, TypeInv, HistState
<1>2. seat \in Seat /\ reports \in Seq(SUBSET Button) /\ hist \in HistState
  BY DEF GestureInv, TypeInv
<1>3. /\ seat' \in Seat
      /\ seat'.points = seat.points /\ seat'.mode = seat.mode
      /\ seat'.centroid = seat.centroid /\ seat'.down = seat.down
      /\ seat'.most = seat.most /\ seat'.pressed = seat.pressed
      /\ seat'.clicked = seat.clicked
      /\ seat'.guest \ seat'.external \subseteq seat.guest \ seat.external
      /\ seat'.external = Last(reports)
  BY <1>1, <1>2, ReportsAre
<1>4. hist' \in HistState /\ hist'.long = hist.long /\ hist'.lost = hist.lost \cap seat'.guest
  BY <1>1, <1>2 DEF HistState
<1>5. TypeInv'
  BY <1>1, <1>3, <1>4 DEF GestureInv, TypeInv
<1>6. NoStuckButton'
  <2> SUFFICES ASSUME NEW b \in seat'.guest
               PROVE  \/ b \in (IF renderer THEN DragsButton ELSE {})
                      \/ b \in (IF monitor THEN seat'.external ELSE {})
                      \/ b \in hist.lost
    BY <1>1, <1>3, <1>4 DEF NoStuckButton, DragsButton
  <2>1. CASE b \in seat'.external
    <3>1. ~monitor => b \in hist.lost
      BY <1>1, <1>3, <2>1 DEF GestureInv, LostInv
    <3> QED
      BY <2>1, <3>1
  <2>2. CASE b \notin seat'.external
    <3>1. b \in seat.guest /\ b \notin seat.external
      BY <1>3, <2>2
    <3> QED
      BY <3>1 DEF GestureInv, NoStuckButton
  <2> QED
    BY <2>1, <2>2
<1>7. RestInv' /\ ModeInv' /\ LostInv'
  BY <1>1, <1>3, <1>4 DEF GestureInv, RestInv, ModeInv, LostInv, AtRest
<1>8. GoodInv'
  BY <1>1, <1>2, <1>3, GoodStays DEF GestureInv
<1> QED
  BY <1>5, <1>6, <1>7, <1>8 DEF GestureInv

\* The long press is armed, if one finger is held still.
LEMMA IdleKeeps ==
  ASSUME GestureInv, Idle
  PROVE  GestureInv'
<1> DEFINE armed == Holding(seat) /\ seat.down = "due"
<1>1. /\ seat' = IF armed THEN [seat EXCEPT !.mode = "LongPress"] ELSE seat
      /\ hist' = [hist EXCEPT !.long = @ \/ armed]
      /\ alarm' = Holding(seat') /\ awake' = FALSE
      /\ UNCHANGED <<scene, fingers, place, reports, marks, renderer, trackpad, monitor, active>>
  BY DEF Idle, touches, displays
<1>2. seat \in Seat /\ hist \in HistState
  BY DEF GestureInv, TypeInv
<1>3. /\ seat' \in Seat
      /\ seat'.points = seat.points /\ seat'.centroid = seat.centroid
      /\ seat'.down = seat.down /\ seat'.most = seat.most /\ seat'.pressed = seat.pressed
      /\ seat'.external = seat.external /\ seat'.guest = seat.guest
      /\ seat'.clicked = seat.clicked
      /\ seat'.mode = IF armed THEN "LongPress" ELSE seat.mode
  BY <1>1, <1>2 DEF Seat, SeatState, Modes
<1>4. /\ hist' \in HistState /\ hist'.most = hist.most /\ hist'.moved = hist.moved
      /\ hist'.restless = hist.restless /\ hist'.lifted = hist.lifted
      /\ hist'.from = hist.from
      /\ hist'.long = (hist.long \/ armed) /\ hist'.pad = hist.pad
      /\ hist'.broken = hist.broken /\ hist'.cancelled = hist.cancelled
      /\ hist'.lost = hist.lost
  BY <1>1, <1>2 DEF HistState
<1>5. armed => seat.mode = "Undecided" /\ seat.points # {}
  BY FS_EmptySet DEF Holding
<1>6. alarm' \in BOOLEAN
  BY <1>1 DEF Holding
<1>21. /\ armed => seat'.mode = "LongPress" /\ hist'.long
       /\ ~armed => seat'.mode = seat.mode /\ (hist'.long <=> hist.long)
  BY <1>3, <1>4
<1> HIDE DEF armed
<1>7. TypeInv'
  BY <1>1, <1>3, <1>4, <1>6 DEF GestureInv, TypeInv
<1>8. NoStuckButton'
  BY <1>1, <1>3, <1>4 DEF GestureInv, NoStuckButton, DragsButton
<1>9. RestInv'
  BY <1>1, <1>3, <1>5, <1>21 DEF GestureInv, RestInv, AtRest
<1>22. ModeInv'
  <2>1. CASE armed
    BY <1>1, <1>3, <1>21, <2>1 DEF GestureInv, ModeInv
  <2>2. CASE ~armed
    BY <1>1, <1>3, <1>4, <1>21, <2>2 DEF GestureInv, ModeInv
  <2> QED
    BY <2>1, <2>2
<1>23. LostInv'
  BY <1>1, <1>4 DEF GestureInv, LostInv
<1>10. WholeInv' /\ OneInv'
  BY <1>1, <1>3, <1>4 DEF GestureInv, GoodInv, WholeInv, OneInv
<1>24. SeenInv'
  <2>1. seat'.mode \in {"Undecided", "LongPress"} => seat.mode \in {"Undecided", "LongPress"}
    BY <1>5, <1>21
  <2> QED
    BY <1>1, <1>4, <2>1 DEF GestureInv, GoodInv, SeenInv
<1>11. TapInv'
  <2>1. CASE armed
    <3>1. seat.mode = "Undecided" /\ seat'.mode = "LongPress"
      BY <1>5, <1>21, <2>1
    <3> QED
      BY <1>1, <1>3, <1>4, <3>1 DEF GestureInv, GoodInv, TapInv
  <2>2. CASE ~armed
    <3>1. seat'.mode = seat.mode /\ hist'.long = hist.long
      BY <1>2, <1>4, <1>21, <2>2 DEF HistState
    <3> QED
      BY <1>1, <1>3, <1>4, <3>1 DEF GestureInv, GoodInv, TapInv
  <2> QED
    BY <2>1, <2>2
<1>12. ClicksAreTaps'
  <2>1. ~hist.broken /\ armed => seat.clicked = "none" /\ fingers # {}
    BY <1>5 DEF GestureInv, GoodInv, WholeInv
  <2>2. TapMade' => TapMade
    BY <1>1, <1>4 DEF TapMade
  <2> QED
    BY <1>3, <1>4, <2>1, <2>2 DEF GestureInv, GoodInv, ClicksAreTaps
<1> QED
  BY <1>7, <1>8, <1>9, <1>22, <1>23, <1>10, <1>24, <1>11, <1>12 DEF GestureInv, GoodInv

\* The long press becomes due.
LEMMA TimeoutKeeps ==
  ASSUME GestureInv, TimeoutPasses
  PROVE  GestureInv'
<1>1. /\ seat.down = "recent" /\ seat' = [seat EXCEPT !.down = "due"]
      /\ UNCHANGED <<scene, fingers, place, reports, marks, renderer, trackpad, monitor,
                     active, awake, alarm, hist>>
  BY DEF TimeoutPasses, touches, displays, loopState
<1>2. /\ seat' \in Seat
      /\ seat'.points = seat.points /\ seat'.centroid = seat.centroid
      /\ seat'.down = "due" /\ seat'.most = seat.most /\ seat'.pressed = seat.pressed
      /\ seat'.external = seat.external /\ seat'.guest = seat.guest
      /\ seat'.clicked = seat.clicked /\ seat'.mode = seat.mode
  BY <1>1 DEF GestureInv, TypeInv, Seat, SeatState
<1>3. TypeInv' /\ NoStuckButton'
  BY <1>1, <1>2 DEF GestureInv, TypeInv, NoStuckButton, DragsButton
<1>4. RestInv' /\ ModeInv' /\ LostInv'
  BY <1>1, <1>2 DEF GestureInv, RestInv, ModeInv, LostInv, AtRest
<1>5. hist' = [hist EXCEPT !.lost = hist.lost] /\ hist \in HistState
  BY <1>1 DEF GestureInv, TypeInv, HistState
<1>6. GoodInv'
  BY <1>1, <1>2, <1>5, GoodStays DEF GestureInv
<1> QED
  BY <1>3, <1>4, <1>6 DEF GestureInv

\* A monitor comes.
LEMMA ComesKeeps ==
  ASSUME GestureInv, MonitorComes
  PROVE  GestureInv'
<1>1. /\ ~monitor /\ monitor' = TRUE
      /\ UNCHANGED <<scene, fingers, place, reports, seat, marks, renderer, trackpad,
                     active, awake, alarm, hist>>
  BY DEF MonitorComes, touches, loopState
<1>2. TypeInv' /\ RestInv' /\ ModeInv' /\ LostInv'
  BY <1>1 DEF GestureInv, TypeInv, RestInv, ModeInv, LostInv
<1>3. NoStuckButton'
  BY <1>1 DEF GestureInv, NoStuckButton, DragsButton
<1>4. hist' = [hist EXCEPT !.lost = hist.lost] /\ hist \in HistState
  BY <1>1 DEF GestureInv, TypeInv, HistState
<1>5. GoodInv'
  BY <1>1, <1>4, GoodStays DEF GestureInv
<1> QED
  BY <1>2, <1>3, <1>5 DEF GestureInv

\* A monitor goes, with what its mouse holds.
LEMMA GoesKeeps ==
  ASSUME GestureInv, MonitorGoes
  PROVE  GestureInv'
<1>1. /\ monitor /\ monitor' = FALSE
      /\ hist' = [hist EXCEPT !.lost = hist.lost \cup MousesButtons]
      /\ UNCHANGED <<scene, fingers, place, reports, seat, marks, renderer, trackpad,
                     active, awake, alarm>>
  BY DEF MonitorGoes, touches, loopState, GestureInv, TypeInv, HistState
<1>2. /\ seat.external \in SUBSET Button /\ hist \in HistState
      /\ reports \in Seq(SUBSET Button)
  BY DEF GestureInv, TypeInv, Seat, SeatState
<1>3. MousesButtons \in SUBSET Button
  <2>1. reports # <<>> => Last(reports) \in SUBSET Button
    BY <1>2 DEF Last
  <2> QED
    BY <1>2, <2>1 DEF MousesButtons
<1>4. hist' \in HistState /\ hist'.long = hist.long
      /\ hist'.lost = hist.lost \cup MousesButtons
  BY <1>1, <1>2, <1>3 DEF HistState
<1>5. TypeInv' /\ RestInv' /\ ModeInv'
  BY <1>1, <1>4 DEF GestureInv, TypeInv, RestInv, ModeInv
<1>6. NoStuckButton'
  BY <1>1, <1>4 DEF GestureInv, NoStuckButton, DragsButton, MousesButtons
<1>7. LostInv'
  BY <1>1, <1>4 DEF LostInv, MousesButtons
<1>8. GoodInv'
  BY <1>1, <1>2, GoodStays DEF GestureInv
<1> QED
  BY <1>5, <1>6, <1>7, <1>8 DEF GestureInv

\* What cuts a gesture short leaves nothing to be said of its taps.
LEMMA BreakIs ==
  ASSUME GestureInv, NEW h, h = Broken
  PROVE  /\ h \in HistState /\ h.lost = hist.lost /\ h.long = hist.long
         /\ fingers = {} => h = hist
         /\ fingers # {} => h.broken
<1>1. Nowhere \in [Finger -> Int]
  BY DEF Nowhere, Home
<1> QED
  BY <1>1 DEF Broken, GestureInv, TypeInv, HistState

\* A gesture that is over stays what it was.
LEMMA OverIsGood ==
  ASSUME GestureInv, NEW lost, hist' = [Broken EXCEPT !.lost = lost],
         lost \in SUBSET Button, fingers' = {} \/ fingers' = fingers,
         seat'.points \subseteq seat.points, seat'.clicked = seat.clicked
  PROVE  GoodInv'
<1>1. hist \in HistState /\ Broken \in HistState
  BY BreakIs DEF GestureInv, TypeInv
<1>2. CASE fingers # {}
  <2>1. Broken.broken
    BY <1>2, BreakIs
  <2>2. hist'.broken
    BY <1>1, <2>1 DEF HistState
  <2> QED
    BY <2>2, BrokenIsGoodNext
<1>3. CASE fingers = {}
  <2>1. hist' = [hist EXCEPT !.lost = lost]
    BY <1>3, BreakIs
  <2>2. /\ hist'.most = hist.most /\ hist'.moved = hist.moved /\ hist'.restless = hist.restless
        /\ hist'.long = hist.long /\ hist'.pad = hist.pad /\ hist'.broken = hist.broken
        /\ hist'.lifted = hist.lifted /\ hist'.cancelled = hist.cancelled /\ fingers' = {}
    BY <1>1, <1>3, <2>1 DEF HistState
  <2>3. WholeInv' /\ OneInv' /\ SeenInv' /\ TapInv'
    BY <1>3, <2>2 DEF GestureInv, GoodInv, WholeInv, OneInv, SeenInv, TapInv
  <2>4. ClicksAreTaps'
    BY <1>3, <2>2 DEF GestureInv, GoodInv, ClicksAreTaps, TapMade
  <2> QED
    BY <2>3, <2>4 DEF GoodInv
<1> QED
  BY <1>2, <1>3

\* The desktop moves: a gesture under way is dropped.
LEMMA DisplayKeeps ==
  ASSUME GestureInv, DisplayChanged
  PROVE  GestureInv'
<1>1. /\ trackpad' \in BOOLEAN /\ seat' = Reset(seat) /\ marks' = NoMarks
      /\ hist' = Broken /\ awake' = TRUE
      /\ renderer /\ UNCHANGED <<scene, fingers, place, reports, renderer, monitor,
                                 active, alarm>>
  BY DEF DisplayChanged, touches, GestureInv, TypeInv
<1>2. /\ seat' \in Seat /\ seat'.points = {} /\ seat'.mode = "Undecided"
      /\ seat'.down = "none" /\ seat'.most = 0 /\ seat'.pressed = seat.pressed
      /\ seat'.external = seat.external /\ seat'.guest = seat.guest
      /\ seat'.clicked = seat.clicked
  BY <1>1, ResetIs DEF GestureInv, TypeInv
<1>3. /\ hist' \in HistState /\ hist'.lost = hist.lost /\ hist'.long = hist.long
      /\ hist' = [Broken EXCEPT !.lost = hist.lost]
  <2>1. Broken \in HistState /\ Broken.lost = hist.lost
    BY BreakIs
  <2>2. hist' \in HistState /\ hist'.lost = hist.lost /\ hist'.long = hist.long
    BY <1>1, BreakIs
  <2> QED
    BY <1>1, <2>1, <2>2 DEF HistState
<1>4. NoMarks \in MarkState
  BY DEF NoMarks, MarkState, Mean, Home
<1>5. TypeInv' /\ NoStuckButton'
  BY <1>1, <1>2, <1>3, <1>4 DEF GestureInv, TypeInv, NoStuckButton, DragsButton
<1>6. RestInv' /\ ModeInv' /\ LostInv'
  BY <1>1, <1>2, <1>3 DEF GestureInv, RestInv, ModeInv, LostInv, AtRest
<1>7. hist.lost \in SUBSET Button
  BY DEF GestureInv, TypeInv, HistState
<1>8. GoodInv'
  BY <1>1, <1>2, <1>3, <1>7, OverIsGood
<1> QED
  BY <1>5, <1>6, <1>8 DEF GestureInv

\* A frame fails: nothing is handled until the next activity, and what a drag
\* holds is lost.
LEMMA RenderKeeps ==
  ASSUME GestureInv, RenderFails
  PROVE  GestureInv'
<1>1. /\ renderer' = FALSE /\ trackpad' = FALSE /\ awake' = TRUE
      /\ hist' = [Broken EXCEPT !.lost = Broken.lost \cup DragsButton]
      /\ UNCHANGED <<scene, fingers, place, reports, seat, marks, monitor, active, alarm>>
  <2>1. Broken \in HistState
    BY BreakIs
  <2> QED
    BY <2>1 DEF RenderFails, touches, HistState
<1>2. /\ Broken \in HistState /\ Broken.lost = hist.lost /\ Broken.long = hist.long
      /\ DragsButton \in SUBSET Button
  BY BreakIs DEF DragsButton, Button
<1>3. hist' \in HistState /\ hist'.lost = hist.lost \cup DragsButton
  BY <1>1, <1>2 DEF HistState
<1>4. TypeInv' /\ NoStuckButton'
  BY <1>1, <1>3 DEF GestureInv, TypeInv, NoStuckButton
<1>5. RestInv' /\ ModeInv' /\ LostInv'
  BY <1>1, <1>3 DEF GestureInv, RestInv, ModeInv, LostInv
<1>6. GoodInv'
  <2>1. hist' = [Broken EXCEPT !.lost = hist.lost \cup DragsButton]
        /\ hist.lost \cup DragsButton \in SUBSET Button
    BY <1>1, <1>2 DEF HistState
  <2> QED
    BY <1>1, <2>1, OverIsGood
<1> QED
  BY <1>4, <1>5, <1>6 DEF GestureInv

\* The activity stops: what the drag held is lost.
LEMMA SuspendKeeps ==
  ASSUME GestureInv, Suspended
  PROVE  GestureInv'
<1>0. Broken \in HistState /\ Broken.lost = hist.lost /\ Broken.long = hist.long
      /\ DragsButton \in SUBSET Button
  BY BreakIs DEF DragsButton, Button
<1>1. /\ active' = FALSE /\ fingers' = {} /\ place' = Nowhere
      /\ seat' = [Reset(seat) EXCEPT !.pressed = FALSE] /\ marks' = NoMarks
      /\ renderer' = trackpad
      /\ hist' = [Broken EXCEPT !.lost = hist.lost \cup DragsButton]
      /\ awake' = TRUE /\ alarm' = FALSE /\ UNCHANGED <<scene, reports, trackpad, monitor>>
  BY <1>0 DEF Suspended, HistState
<1>2. seat \in Seat
  BY DEF GestureInv, TypeInv
<1>3. /\ Reset(seat) \in Seat /\ Reset(seat).points = {} /\ Reset(seat).mode = "Undecided"
      /\ Reset(seat).down = "none" /\ Reset(seat).most = 0
      /\ Reset(seat).external = seat.external /\ Reset(seat).guest = seat.guest
      /\ Reset(seat).clicked = seat.clicked
  BY <1>2, ResetIs
<1>4. /\ seat' \in Seat /\ seat'.points = {} /\ seat'.mode = "Undecided"
      /\ seat'.down = "none" /\ seat'.most = 0 /\ seat'.pressed = FALSE
      /\ seat'.external = seat.external /\ seat'.guest = seat.guest
      /\ seat'.clicked = seat.clicked
  BY <1>1, <1>3 DEF Seat, SeatState
<1>5. hist' \in HistState /\ hist'.lost = hist.lost \cup DragsButton
  BY <1>0, <1>1 DEF HistState
<1>6. NoMarks \in MarkState /\ Nowhere \in [Finger -> Int]
  BY DEF NoMarks, MarkState, Mean, Home, Nowhere
<1>7. TypeInv'
  BY <1>1, <1>4, <1>5, <1>6, FS_EmptySet DEF GestureInv, TypeInv
<1>8. NoStuckButton'
  BY <1>1, <1>4, <1>5 DEF GestureInv, NoStuckButton, DragsButton
<1>9. RestInv' /\ ModeInv' /\ LostInv'
  BY <1>1, <1>4, <1>5 DEF GestureInv, RestInv, ModeInv, LostInv, AtRest
<1>10. GoodInv'
  <2>1. hist.lost \cup DragsButton \in SUBSET Button
    BY <1>0 DEF HistState
  <2> QED
    BY <1>1, <1>4, <2>1, OverIsGood
<1> QED
  BY <1>7, <1>8, <1>9, <1>10 DEF GestureInv

\* The activity comes back to a compositor at rest.
LEMMA ResumeKeeps ==
  ASSUME GestureInv, Resumed
  PROVE  GestureInv'
<1>1. /\ ~active /\ active' = TRUE /\ renderer' \in {TRUE, renderer} /\ awake' = TRUE
      /\ trackpad' \in BOOLEAN /\ seat' \in {seat, Reset(seat)}
      /\ UNCHANGED <<scene, fingers, place, reports, marks, monitor, alarm, hist>>
  BY DEF Resumed, touches, GestureInv, TypeInv
<1>2. fingers = {} /\ AtRest(seat) /\ seat \in Seat
  BY <1>1 DEF GestureInv, RestInv, TypeInv
<1>3. /\ seat' \in Seat /\ seat'.points = seat.points /\ seat'.mode = seat.mode
      /\ seat'.down = seat.down /\ seat'.most = seat.most /\ seat'.pressed = seat.pressed
      /\ seat'.external = seat.external /\ seat'.guest = seat.guest
      /\ seat'.clicked = seat.clicked
  BY <1>1, <1>2, ResetIs DEF AtRest
<1>4. TypeInv'
  BY <1>1, <1>3 DEF GestureInv, TypeInv
<1>5. NoStuckButton'
  BY <1>1, <1>2, <1>3 DEF GestureInv, NoStuckButton, DragsButton, AtRest
<1>6. RestInv' /\ ModeInv' /\ LostInv'
  BY <1>1, <1>2, <1>3 DEF GestureInv, RestInv, ModeInv, LostInv, AtRest
<1>7. WholeInv' /\ OneInv' /\ SeenInv' /\ TapInv' /\ ClicksAreTaps'
  BY <1>1, <1>2, <1>3 DEF GestureInv, GoodInv, WholeInv, OneInv, SeenInv, TapInv,
                          ClicksAreTaps, TapMade
<1> QED
  BY <1>4, <1>5, <1>6, <1>7 DEF GestureInv, GoodInv

\* Every step of the system, one by one.
LEMMA GestureStep ==
  ASSUME GestureInv, [Next]_vars
  PROVE  GestureInv'
<1>0. awake \in BOOLEAN /\ alarm \in BOOLEAN
  BY DEF GestureInv, TypeInv
<1>1. CASE UNCHANGED vars
  BY <1>0, <1>1, ElsewhereKeeps DEF vars
<1>2. scene.touching \subseteq Finger /\ scene.places \subseteq Int
  BY ScenesType DEF GestureInv, TypeInv, Scene
<1>3. ASSUME NEW f \in scene.touching, NEW at \in scene.places,
             TouchStarted(f, at) \/ TouchMoved(f, at)
      PROVE  GestureInv'
  BY <1>2, <1>3, StartedUnseen, FirstStarted, MoreStarted, MovedKeeps
<1>4. ASSUME NEW f \in scene.touching, TouchEnded(f)
      PROVE  GestureInv'
  BY <1>2, <1>4, EndedKeeps
<1>5. CASE WakeAtDeadline
  BY <1>0, <1>5, ElsewhereKeeps DEF WakeAtDeadline, touches, displays
<1> QED
  BY <1>1, <1>3, <1>4, <1>5, CancelledKeeps, MouseKeeps, ExternalKeeps, IdleKeeps,
     TimeoutKeeps, ComesKeeps, GoesKeeps, DisplayKeeps, RenderKeeps, SuspendKeeps,
     ResumeKeeps DEF Next

\* The invariant holds from the start on.
LEMMA GestureAlways == Spec => []GestureInv
<1>1. Init => GestureInv
  <2> SUFFICES ASSUME Init PROVE GestureInv
    OBVIOUS
  <2>1. seat \in Seat /\ AtRest(seat) /\ seat.guest = {} /\ seat.clicked = "none"
    BY FS_EmptySet DEF Init, Seat, SeatState, Modes, AtRest
  <2>2. /\ trackpad \in BOOLEAN /\ NoMarks \in MarkState /\ Nowhere \in [Finger -> Int]
    BY DEF Init, NoMarks, MarkState, Mean, Home, Nowhere
  <2>3. hist \in HistState /\ hist.broken
    BY <2>2 DEF Init, Fresh, HistState
  <2>4. TypeInv
    <3>1. reports \in Seq(SUBSET Button)
      BY DEF Init
    <3> QED
      BY <2>1, <2>2, <2>3, <3>1, FS_EmptySet DEF Init, TypeInv
  <2>5. NoStuckButton /\ RestInv /\ ModeInv /\ LostInv
    BY <2>1 DEF Init, NoStuckButton, DragsButton, RestInv, ModeInv, LostInv, AtRest
  <2> QED
    BY <2>3, <2>4, <2>5, BrokenIsGood DEF GestureInv
<1>2. GestureInv /\ [Next]_vars => GestureInv'
  BY GestureStep
<1> QED
  BY <1>1, <1>2, PTL DEF Spec

-----------------------------------------------------------------------------
(* The theorems *)

\* The state of a gesture stays what WaylandBackend declares it to be, however
\* many fingers, reports and interrupts there are.
THEOREM TypeCorrect == Spec => []TypeOK
<1>1. GestureInv => TypeOK
  BY DEF GestureInv, TypeInv, TypeOK, Seat
<1> QED
  BY <1>1, GestureAlways, PTL

\* Fingers that keep still click, and fingers that move off together do not:
\* the history is of each finger's own path, and the code's centroid decides as
\* it does, for any number of fingers and any slop.
THEOREM TapsOnly == Spec => []ClicksAreTaps
<1>1. GestureInv => ClicksAreTaps
  BY DEF GestureInv, GoodInv
<1> QED
  BY <1>1, GestureAlways, PTL

\* No button of the guest's is without somebody to release it who is still
\* there, but for those the three events in hist.lost took with them.
THEOREM NothingStuck == Spec => []NoStuckButton
<1>1. GestureInv => NoStuckButton
  BY DEF GestureInv
<1> QED
  BY <1>1, GestureAlways, PTL

\* A gesture is over for the compositor when it is for the hand.
THEOREM GesturesEnd == Spec => []GestureEndsWithFingers
<1>1. GestureInv => GestureEndsWithFingers
  BY DEF GestureInv, RestInv, ModeInv, AtRest, GestureEndsWithFingers,
         DragEndsWithFingers, PointsOnScreen
<1> QED
  BY <1>1, GestureAlways, PTL

\* The left button is taken for a drag only, after a long press, and by a finger
\* that is the gesture's only one if it moved off from where it landed
\* (centralize and centralize_trackpad, through ensure_pressed).
THEOREM DragsOnly == Spec => DragAfterLongPress
<1> DEFINE Right == /\ seat'.mode = "Drag" /\ hist.long
                    /\ hist.most = 1 /\ ~hist.broken => hist'.moved
           Drag == seat'.pressed /\ ~seat.pressed => Right
<1>1. GestureInv /\ [Next]_vars => [Drag]_vars
  <2> SUFFICES ASSUME GestureInv, Next, seat'.pressed, ~seat.pressed
               PROVE  Right
    OBVIOUS
  <2>1. /\ seat \in Seat /\ scene.touching \subseteq Finger /\ scene.places \subseteq Int
        /\ reports \in Seq(SUBSET Button) /\ hist \in HistState
    BY ScenesType DEF GestureInv, TypeInv, Scene
  <2>2. ASSUME NEW f \in Finger, NEW at \in Int, TouchMoved(f, at)
        PROVE  Right
    <3>0. /\ UNCHANGED <<fingers, renderer>> /\ f \in fingers
          /\ renderer => Moves(seat, seat', f, Past(f))
          /\ ~renderer => seat' = seat
      BY <2>2, MovedIs
    <3>9. renderer
      BY <3>0
    <3>1. renderer /\ Moves(seat, seat', f, Past(f)) /\ f \in fingers' /\ renderer'
      BY <3>0, <3>9
    <3>2. seat'.mode = "Drag"
      BY <3>1 DEF Moves
    <3>3. GestureInv' /\ hist'.long = hist.long /\ hist'.most = hist.most
          /\ hist'.broken = hist.broken
      <4>1. hist' = IF hist.broken THEN hist
                    ELSE [hist EXCEPT !.moved = @ \/ (~hist.lifted /\ Together(hist.from)),
                                      !.restless = @ \/ hist.lifted \/ Off(at, hist.from[f])]
        BY <2>2, MovedIs
      <4>2. GestureInv'
        BY <2>2, MovedKeeps
      <4> QED
        BY <2>1, <4>1, <4>2 DEF HistState
    <3>4. hist'.long
      BY <3>1, <3>2, <3>3 DEF GestureInv, ModeInv
    <3>5. ~hist'.broken /\ hist'.most = 1 => hist'.moved
      BY <3>1, <3>2, <3>3 DEF GestureInv, GoodInv, TapInv
    <3> QED
      BY <3>2, <3>3, <3>4, <3>5
  <2>3. ASSUME NEW f \in Finger, NEW at \in Int, TouchStarted(f, at)
        PROVE  FALSE
    <3>1. CASE renderer
      <4> DEFINE s == IF fingers = {} THEN [seat EXCEPT !.clicked = "none"] ELSE seat
      <4>1. s \in Seat /\ s.pressed = seat.pressed
        BY <2>1 DEF Seat, SeatState
      <4>2. seat' = IF trackpad THEN TrackpadStarted(s, f) ELSE PhoneStarted(s, f)
        BY <2>3, <3>1 DEF TouchStarted, Handle
      <4> HIDE DEF s
      <4>3. Lands(s, PhoneStarted(s, f), f) /\ Lands(s, TrackpadStarted(s, f), f)
        BY <4>1, PhoneLands, TrackpadLands
      <4>4. Lands(s, seat', f)
        BY <4>2, <4>3
      <4> QED
        BY <4>1, <4>4 DEF Lands
    <3>2. CASE ~renderer
      BY <2>3, <3>2 DEF TouchStarted, Handle
    <3> QED
      BY <3>1, <3>2
  <2>4. ASSUME NEW f \in Finger, TouchEnded(f)
        PROVE  FALSE
    <3>1. CASE renderer
      <4>1. seat' = IF trackpad THEN TrackpadEnded(seat, f) ELSE PhoneEnded(seat, f)
        BY <2>4, <3>1 DEF TouchEnded, Handle
      <4>2. Leave(seat, seat', {f})
        BY <2>1, <2>4, <4>1, PhoneLeaves, TrackpadLeaves
      <4> QED
        BY <4>2 DEF Leave
    <3>2. CASE ~renderer
      BY <2>4, <3>2 DEF TouchEnded, Handle
    <3> QED
      BY <3>1, <3>2
  <2>5. CASE TouchCancelled
    <3>1. seat' = IF renderer THEN Cancelled(seat, fingers) ELSE seat
      BY <2>5 DEF TouchCancelled, Handle
    <3>2. Leave(seat, Cancelled(seat, fingers), fingers)
      BY <2>1, CancelledLeaves
    <3> QED
      BY <3>1, <3>2 DEF Leave
  <2>6. CASE ExternalPointer
    <3>1. seat' = FoldLeft(External, seat, reports)
      BY <2>6 DEF ExternalPointer
    <3>2. seat'.pressed = seat.pressed
      BY <2>1, <3>1, ReportsAre
    <3> QED
      BY <3>2
  <2>7. ASSUME Idle \/ TimeoutPasses
        PROVE  FALSE
    <3>1. seat'.pressed = seat.pressed
      BY <2>1, <2>7 DEF Idle, TimeoutPasses, Seat, SeatState
    <3> QED
      BY <3>1
  <2>8. ASSUME seat' \in {seat, Reset(seat)}
        PROVE  FALSE
    BY <2>1, <2>8, ResetIs
  <2>9. ASSUME DisplayChanged \/ Resumed \/ MouseReports \/ WakeAtDeadline \/ RenderFails
                 \/ MonitorComes \/ MonitorGoes
        PROVE  seat' \in {seat, Reset(seat)}
    BY <2>9 DEF DisplayChanged, Resumed, MouseReports, WakeAtDeadline, RenderFails,
                MonitorComes, MonitorGoes
  <2>10. CASE Suspended
    <3>1. Reset(seat) \in Seat /\ seat' = [Reset(seat) EXCEPT !.pressed = FALSE]
      BY <2>1, <2>10, ResetIs DEF Suspended
    <3>2. seat'.pressed = FALSE
      BY <3>1 DEF Seat, SeatState
    <3> QED
      BY <3>2
  <2>11. ASSUME NEW f \in scene.touching, NEW at \in scene.places,
                TouchStarted(f, at) \/ TouchMoved(f, at)
         PROVE  Right
    BY <2>1, <2>2, <2>3, <2>11
  <2>12. ASSUME NEW f \in scene.touching, TouchEnded(f)
         PROVE  Right
    BY <2>1, <2>4, <2>12
  <2> HIDE DEF Right
  <2> QED
    BY <2>5, <2>6, <2>7, <2>8, <2>9, <2>10, <2>11, <2>12 DEF Next
<1>2. Spec => [][Drag]_vars
  BY <1>1, GestureAlways, PTL DEF Spec
<1> QED
  BY <1>2 DEF DragAfterLongPress
=============================================================================
