----------------------------- MODULE FrontProofs -----------------------------
(***************************************************************************)
(* A press of the knob has one meaning, the password goes only after the   *)
(* whole of a hold, and the panel is in time: for every length of a press, *)
(* of a hold and of a turn of the loop, any bindings of fingers to keys,   *)
(* and any number of events.                                               *)
(***************************************************************************)
EXTENDS Front, Integers, FiniteSetTheorems, TLAPS

LEMMA Lengths ==
  /\ Hold \in Nat /\ Hold > 0 /\ LongPress \in Nat /\ IdleExit \in Nat /\ Dwell \in Nat
  /\ Nothing \notin Nat
  BY FrontAssumption DEF FrontAssumption, K!ControlsAssumption

-----------------------------------------------------------------------------
(* What the two gestures need of the controls' types. *)
HandsTyped ==
  /\ press \in [K!Keys -> Int \cup {Nothing}]
  /\ rescue \in [minus : BOOLEAN, plus : BOOLEAN, counting : BOOLEAN, fired : BOOLEAN, age : Int]
  /\ hold \in [down : BOOLEAN, counting : BOOLEAN, fired : BOOLEAN, age : Int]
  /\ happened \in [held : [K!Keys -> 0 .. Hold \cup {Nothing}], seen : Int, quiet : Int,
                   meant : SUBSET {"press", "setup"}, rescued : BOOLEAN]

(* Why the two meanings exclude each other.  A hold that has become a      *)
(* request discards the press that it was, so that its release means       *)
(* nothing (SetupTick); and a hold that still counts began with a press    *)
(* that has meant nothing yet.                                             *)
MeaningsExclude ==
  /\ "setup" \in happened.meant => press["knob"] = Nothing
  /\ hold.counting => "press" \notin happened.meant
  /\ ~({"press", "setup"} \subseteq happened.meant)

(* The gesture follows the fingers: it knows of each key whether it is     *)
(* held, it counts for no longer than both have been, and it has rung for  *)
(* this hold if the password was cleared by it.                            *)
GestureFollows ==
  /\ \A k \in {"minus", "plus"} : rescue[k] <=> happened.held[k] # Nothing
  /\ rescue.counting <=> rescue.minus /\ rescue.plus
  /\ rescue.counting => /\ rescue.age <= happened.held["minus"]
                        /\ rescue.age <= happened.held["plus"]
  /\ happened.rescued => rescue.counting /\ rescue.fired

HandsInv == HandsTyped /\ MeaningsExclude /\ GestureFollows

(* What RescueTakesTheWholeHold says of one step. *)
WholeHold ==
  password /\ ~password' =>
    /\ happened.held["minus"] = Hold
    /\ happened.held["plus"] = Hold
    /\ ~happened.rescued

-----------------------------------------------------------------------------
(* What is remembered of an event. *)
LEMMA HeardRemembers ==
  ASSUME HandsTyped, NEW ks \in SUBSET K!Keys, NEW half, K!Heard(ks, half)
  PROVE  /\ happened' \in [held : [K!Keys -> 0 .. Hold \cup {Nothing}], seen : Int, quiet : Int,
                           meant : SUBSET {"press", "setup"}, rescued : BOOLEAN]
         /\ \A k \in K!Keys :
              happened'.held[k] = IF k \notin ks THEN happened.held[k]
                                  ELSE IF half # "down" THEN Nothing
                                  ELSE IF happened.held[k] = Nothing THEN 0 ELSE happened.held[k]
         /\ "knob" \notin ks => happened'.meant = happened.meant
         /\ "knob" \in ks =>
              \/ happened'.meant = IF half = "up" THEN happened.meant ELSE {}
              \/ /\ happened'.meant = (IF half = "up" THEN happened.meant ELSE {}) \cup {"press"}
                 /\ ~state.splash /\ <<nav, rotation, state>>' # <<nav, rotation, state>>
         /\ happened'.rescued = (happened.rescued
                                   /\ (half = "down" \/ ks \cap {"minus", "plus"} = {}))
<1> DEFINE held == [k \in K!Keys |-> IF k \notin ks THEN happened.held[k]
                                     ELSE IF half # "down" THEN Nothing
                                     ELSE IF happened.held[k] = Nothing THEN 0
                                     ELSE happened.held[k]]
           changed == ~state.splash /\ <<nav, rotation, state>>' # <<nav, rotation, state>>
           meant == IF "knob" \notin ks THEN happened.meant
                    ELSE (IF half = "up" THEN happened.meant ELSE {})
                           \cup (IF changed THEN {"press"} ELSE {})
           seen == IF rotation'.app # rotation.app THEN 0 ELSE happened.seen
           rescued == happened.rescued /\ (half = "down" \/ ks \cap {"minus", "plus"} = {})
<1>1. happened' = [happened EXCEPT !.held = held, !.quiet = 0, !.seen = seen, !.meant = meant,
                                   !.rescued = rescued]
  BY DEF K!Heard
<1>2. held \in [K!Keys -> 0 .. Hold \cup {Nothing}]
  BY Lengths DEF HandsTyped
<1>3. meant \in SUBSET {"press", "setup"} /\ seen \in Int /\ rescued \in BOOLEAN
  BY DEF HandsTyped
<1>4. \A k \in K!Keys :
        held[k] = IF k \notin ks THEN happened.held[k]
                  ELSE IF half # "down" THEN Nothing
                  ELSE IF happened.held[k] = Nothing THEN 0 ELSE happened.held[k]
  OBVIOUS
<1> HIDE DEF held, seen
<1>5. /\ happened'.held = held /\ happened'.meant = meant /\ happened'.rescued = rescued
  BY <1>1 DEF HandsTyped
<1>6. happened' \in [held : [K!Keys -> 0 .. Hold \cup {Nothing}], seen : Int, quiet : Int,
                     meant : SUBSET {"press", "setup"}, rescued : BOOLEAN]
  <2> DEFINE H == [K!Keys -> 0 .. Hold \cup {Nothing}]
             M == SUBSET {"press", "setup"}
  <2>1. happened \in [held : H, seen : Int, quiet : Int, meant : M, rescued : BOOLEAN]
    BY DEF HandsTyped
  <2>2. held \in H /\ meant \in M /\ seen \in Int /\ rescued \in BOOLEAN /\ 0 \in Int
    BY <1>2, <1>3
  <2> HIDE DEF meant, rescued, H, M
  <2>3. happened' \in [held : H, seen : Int, quiet : Int, meant : M, rescued : BOOLEAN]
    BY <1>1, <2>1, <2>2
  <2> QED
    BY <2>3 DEF H, M
<1>7. "knob" \in ks =>
        \/ happened'.meant = IF half = "up" THEN happened.meant ELSE {}
        \/ /\ happened'.meant = (IF half = "up" THEN happened.meant ELSE {}) \cup {"press"}
           /\ changed
  <2>1. CASE changed
    BY <1>5, <2>1
  <2>2. CASE ~changed
    BY <1>5, <2>2
  <2> QED
    BY <2>1, <2>2
<1> QED
  BY <1>4, <1>5, <1>6, <1>7
-----------------------------------------------------------------------------
(* The gesture of two keys, at an event of one of them or of another. *)
LEMMA GestureHears ==
  ASSUME HandsTyped, GestureFollows, NEW k \in K!Keys, NEW down \in BOOLEAN,
         K!RescueHears(k, down),
         \A x \in K!Keys : happened'.held[x] = IF x # k THEN happened.held[x]
                                               ELSE IF ~down THEN Nothing
                                               ELSE IF happened.held[x] = Nothing THEN 0
                                               ELSE happened.held[x],
         happened'.rescued = (happened.rescued /\ (down \/ k \notin {"minus", "plus"}))
  PROVE  /\ GestureFollows'
         /\ rescue' \in [minus : BOOLEAN, plus : BOOLEAN, counting : BOOLEAN,
                         fired : BOOLEAN, age : Int]
<1> DEFINE R == [minus : BOOLEAN, plus : BOOLEAN, counting : BOOLEAN, fired : BOOLEAN, age : Int]
           after(r) == IF ~(r.minus /\ r.plus)
                       THEN [r EXCEPT !.counting = FALSE, !.fired = FALSE, !.age = 0]
                       ELSE IF r.counting THEN r
                       ELSE [r EXCEPT !.counting = TRUE, !.age = 0]
<1>1. /\ rescue \in R /\ happened.held \in [K!Keys -> 0 .. Hold \cup {Nothing}]
      /\ happened.rescued \in BOOLEAN
  BY DEF HandsTyped
<1>2. {"minus", "plus"} \subseteq K!Keys /\ 0 # Nothing /\ 0 \in Int
  BY Lengths DEF K!Keys
<1>3. \A x \in {"minus", "plus"} : happened.held[x] # Nothing => happened.held[x] \in Nat
  BY <1>1, <1>2, Lengths
<1>4. CASE k \notin {"minus", "plus"}
  <2>1. rescue' = rescue /\ happened'.rescued = happened.rescued
    BY <1>1, <1>4 DEF K!RescueHears
  <2>2. \A x \in {"minus", "plus"} : happened'.held[x] = happened.held[x]
    BY <1>2, <1>4
  <2> QED
    BY <1>1, <2>1, <2>2 DEF GestureFollows
<1>5. ASSUME NEW r \in R, NEW old \in R, rescue' = after(r),
             r.counting = old.counting, r.fired = old.fired, r.age = old.age,
             \A x \in {"minus", "plus"} : r[x] <=> happened'.held[x] # Nothing,
             \A x \in {"minus", "plus"} : happened'.held[x] # Nothing => happened'.held[x] \in Nat,
             r.minus /\ r.plus /\ old.counting =>
               r.age <= happened'.held["minus"] /\ r.age <= happened'.held["plus"],
             happened'.rescued /\ r.minus /\ r.plus => old.counting /\ old.fired,
             happened'.rescued => r.minus /\ r.plus
      PROVE  GestureFollows' /\ rescue' \in R
  <2>1. CASE ~(r.minus /\ r.plus)
    <3>1. rescue' = [r EXCEPT !.counting = FALSE, !.fired = FALSE, !.age = 0]
      BY <1>5, <2>1
    <3>2. rescue' \in R
      BY <1>2, <3>1
    <3>3. /\ rescue'.minus = r.minus /\ rescue'.plus = r.plus /\ rescue'.counting = FALSE
          /\ rescue'["minus"] = r["minus"] /\ rescue'["plus"] = r["plus"]
      BY <3>1
    <3> HIDE DEF R
    <3> QED
      BY <1>5, <2>1, <3>2, <3>3 DEF GestureFollows
  <2>2. CASE r.minus /\ r.plus /\ r.counting
    <3>1. rescue' = r
      BY <1>5, <2>2
    <3> QED
      BY <1>5, <2>2, <3>1 DEF GestureFollows
  <2>3. CASE r.minus /\ r.plus /\ ~r.counting
    <3>1. rescue' = [r EXCEPT !.counting = TRUE, !.age = 0]
      BY <1>5, <2>3
    <3>2. rescue' \in R
      BY <1>2, <3>1
    <3>3. /\ rescue'.minus = r.minus /\ rescue'.plus = r.plus /\ rescue'.counting = TRUE
          /\ rescue'["minus"] = r["minus"] /\ rescue'["plus"] = r["plus"]
          /\ rescue'.age = 0
      BY <3>1
    <3>4. happened'.held["minus"] \in Nat /\ happened'.held["plus"] \in Nat
      BY <1>5, <2>3
    <3>5. ~happened'.rescued
      BY <1>5, <2>3
    <3> HIDE DEF R
    <3> QED
      BY <1>5, <2>3, <3>2, <3>3, <3>4, <3>5 DEF GestureFollows
  <2> QED
    BY <2>1, <2>2, <2>3
<1>6. CASE k = "minus"
  <2> DEFINE r == [rescue EXCEPT !.minus = down]
  <2>1. rescue' = after(r)
    BY <1>6 DEF K!RescueHears
  <2>2. /\ r \in R /\ r.counting = rescue.counting /\ r.fired = rescue.fired
        /\ r.age = rescue.age /\ r.minus = down /\ r.plus = rescue.plus
        /\ r["minus"] = down /\ r["plus"] = rescue["plus"]
    BY <1>1
  <2>3. /\ happened'.held["plus"] = happened.held["plus"]
        /\ happened'.held["minus"] = IF ~down THEN Nothing
                                     ELSE IF happened.held["minus"] = Nothing THEN 0
                                     ELSE happened.held["minus"]
        /\ happened'.rescued = (happened.rescued /\ down)
    BY <1>2, <1>6
  <2> HIDE DEF r, after, R
  <2>4. /\ \A x \in {"minus", "plus"} : r[x] <=> happened'.held[x] # Nothing
        /\ \A x \in {"minus", "plus"} : happened'.held[x] # Nothing => happened'.held[x] \in Nat
    BY <1>2, <1>3, <2>2, <2>3 DEF GestureFollows
  <2>5. /\ r.minus /\ r.plus /\ rescue.counting =>
             r.age <= happened'.held["minus"] /\ r.age <= happened'.held["plus"]
        /\ happened'.rescued /\ r.minus /\ r.plus => rescue.counting /\ rescue.fired
        /\ happened'.rescued => r.minus /\ r.plus
    BY <1>2, <1>3, <2>2, <2>3 DEF GestureFollows
  <2> QED
    BY <1>1, <1>5, <2>1, <2>2, <2>4, <2>5 DEF R
<1>7. CASE k = "plus"
  <2> DEFINE r == [rescue EXCEPT !.plus = down]
  <2>1. rescue' = after(r)
    BY <1>7 DEF K!RescueHears
  <2>2. /\ r \in R /\ r.counting = rescue.counting /\ r.fired = rescue.fired
        /\ r.age = rescue.age /\ r.plus = down /\ r.minus = rescue.minus
        /\ r["plus"] = down /\ r["minus"] = rescue["minus"]
    BY <1>1
  <2>3. /\ happened'.held["minus"] = happened.held["minus"]
        /\ happened'.held["plus"] = IF ~down THEN Nothing
                                    ELSE IF happened.held["plus"] = Nothing THEN 0
                                    ELSE happened.held["plus"]
        /\ happened'.rescued = (happened.rescued /\ down)
    BY <1>2, <1>7
  <2> HIDE DEF r, after, R
  <2>4. /\ \A x \in {"minus", "plus"} : r[x] <=> happened'.held[x] # Nothing
        /\ \A x \in {"minus", "plus"} : happened'.held[x] # Nothing => happened'.held[x] \in Nat
    BY <1>2, <1>3, <2>2, <2>3 DEF GestureFollows
  <2>5. /\ r.minus /\ r.plus /\ rescue.counting =>
             r.age <= happened'.held["minus"] /\ r.age <= happened'.held["plus"]
        /\ happened'.rescued /\ r.minus /\ r.plus => rescue.counting /\ rescue.fired
        /\ happened'.rescued => r.minus /\ r.plus
    BY <1>2, <1>3, <2>2, <2>3 DEF GestureFollows
  <2> QED
    BY <1>1, <1>5, <2>1, <2>2, <2>4, <2>5 DEF R
<1> QED
  BY <1>4, <1>6, <1>7
(* The gesture of the knob. *)
LEMMA KnobHears ==
  ASSUME HandsTyped, NEW k \in K!Keys, NEW down \in BOOLEAN, K!HoldHears(k, down)
  PROVE  /\ hold' \in [down : BOOLEAN, counting : BOOLEAN, fired : BOOLEAN, age : Int]
         /\ hold'.counting => IF k = "knob" THEN down ELSE hold.counting
  BY DEF HandsTyped, K!HoldHears

-----------------------------------------------------------------------------
(* A key goes down, on the device or from afar. *)
LEMMA KeyDownKeeps ==
  ASSUME HandsInv, NEW k \in K!Keys, K!KeyDown(k)
  PROVE  HandsInv'
<1>1. /\ K!RescueHears(k, TRUE) /\ K!HoldHears(k, TRUE) /\ K!Heard({k}, "down")
      /\ \/ K!EndSplash /\ state.splash
         \/ press' = [press EXCEPT ![k] = 0] /\ UNCHANGED <<nav, rotation, state>>
  BY DEF K!KeyDown, K!Hears
<1>2. /\ happened' \in [held : [K!Keys -> 0 .. Hold \cup {Nothing}], seen : Int, quiet : Int,
                        meant : SUBSET {"press", "setup"}, rescued : BOOLEAN]
      /\ \A x \in K!Keys : happened'.held[x] = IF x # k THEN happened.held[x]
                                               ELSE IF happened.held[x] = Nothing THEN 0
                                               ELSE happened.held[x]
      /\ happened'.rescued = happened.rescued
  BY <1>1, HeardRemembers DEF HandsInv, HandsTyped
<1>3. happened'.meant = IF k = "knob" THEN {} ELSE happened.meant
  BY <1>1, HeardRemembers DEF HandsInv, K!EndSplash
<1>4. press' \in [K!Keys -> Int \cup {Nothing}] /\ (k # "knob" /\ press["knob"] = Nothing
        => press'["knob"] = Nothing)
  BY <1>1 DEF HandsInv, HandsTyped, K!EndSplash, K!Keys
<1>5. GestureFollows' /\ rescue' \in [minus : BOOLEAN, plus : BOOLEAN, counting : BOOLEAN,
                                      fired : BOOLEAN, age : Int]
  <2>1. happened'.rescued = (happened.rescued /\ (TRUE \/ k \notin {"minus", "plus"}))
    BY <1>2 DEF HandsInv, HandsTyped
  <2> QED
    BY <1>1, <1>2, <2>1, GestureHears DEF HandsInv
<1>6. /\ hold' \in [down : BOOLEAN, counting : BOOLEAN, fired : BOOLEAN, age : Int]
      /\ hold'.counting => k = "knob" \/ hold.counting
  BY <1>1, KnobHears DEF HandsInv
<1>7. HandsTyped'
  BY <1>2, <1>4, <1>5, <1>6 DEF HandsTyped
<1>8. MeaningsExclude'
  BY <1>3, <1>4, <1>6 DEF HandsInv, MeaningsExclude
<1> QED
  BY <1>5, <1>7, <1>8 DEF HandsInv

(* A key comes up, or a whole press of it comes from afar. *)
LEMMA UpKeeps ==
  ASSUME HandsInv, NEW k \in K!Keys, NEW half \in {"up", "whole"},
         K!RescueHears(k, FALSE), K!HoldHears(k, FALSE), K!Heard({k}, half),
         press' \in [K!Keys -> Int \cup {Nothing}],
         press'["knob"] \in {press["knob"], Nothing},
         k = "knob" /\ half = "up" => press'["knob"] = Nothing,
         k = "knob" /\ half = "up" /\ press["knob"] = Nothing
           => state.splash \/ UNCHANGED <<nav, rotation, state>>
  PROVE  HandsInv'
<1>1. /\ happened' \in [held : [K!Keys -> 0 .. Hold \cup {Nothing}], seen : Int, quiet : Int,
                        meant : SUBSET {"press", "setup"}, rescued : BOOLEAN]
      /\ \A x \in K!Keys : happened'.held[x] = IF x # k THEN happened.held[x] ELSE Nothing
      /\ happened'.rescued = (happened.rescued /\ {k} \cap {"minus", "plus"} = {})
  <2>1. {k} \in SUBSET K!Keys /\ half # "down" /\ \A x \in K!Keys : x \in {k} <=> x = k
    OBVIOUS
  <2>2. happened.rescued \in BOOLEAN
    BY DEF HandsInv, HandsTyped
  <2> QED
    BY <2>1, <2>2, HeardRemembers DEF HandsInv
<1>2. ASSUME k # "knob" PROVE happened'.meant = happened.meant
  <2>1. {k} \in SUBSET K!Keys /\ "knob" \notin {k}
    BY <1>2
  <2> QED
    BY <2>1, HeardRemembers DEF HandsInv
<1>3. k = "knob" /\ half = "whole" => "setup" \notin happened'.meant
  BY HeardRemembers DEF HandsInv
<1>8. ASSUME k = "knob", half = "up"
      PROVE  /\ happened'.meant \subseteq happened.meant \cup {"press"}
             /\ press["knob"] = Nothing => happened'.meant = happened.meant
  <2>1. \/ happened'.meant = happened.meant
        \/ /\ happened'.meant = happened.meant \cup {"press"}
           /\ ~state.splash /\ <<nav, rotation, state>>' # <<nav, rotation, state>>
    BY <1>8, HeardRemembers DEF HandsInv
  <2>2. press["knob"] = Nothing
          => state.splash \/ (nav' = nav /\ rotation' = rotation /\ state' = state)
    BY <1>8
  <2> QED
    BY <2>1, <2>2
<1>4. GestureFollows' /\ rescue' \in [minus : BOOLEAN, plus : BOOLEAN, counting : BOOLEAN,
                                      fired : BOOLEAN, age : Int]
  <2>1. happened'.rescued = (happened.rescued /\ (FALSE \/ k \notin {"minus", "plus"}))
    BY <1>1 DEF HandsInv, HandsTyped
  <2> QED
    BY <1>1, <2>1, GestureHears DEF HandsInv
<1>5. /\ hold' \in [down : BOOLEAN, counting : BOOLEAN, fired : BOOLEAN, age : Int]
      /\ hold'.counting => k # "knob" /\ hold.counting
  BY KnobHears DEF HandsInv
<1>6. HandsTyped'
  BY <1>1, <1>4, <1>5 DEF HandsTyped
<1>7. MeaningsExclude'
  <2>1. CASE k # "knob"
    BY <1>2, <1>5, <2>1 DEF HandsInv, MeaningsExclude
  <2>2. CASE k = "knob" /\ half = "whole"
    BY <1>3, <1>5, <2>2 DEF HandsInv, MeaningsExclude
  <2>3. CASE k = "knob" /\ half = "up"
    BY <1>5, <1>8, <2>3 DEF HandsInv, MeaningsExclude
  <2> QED
    BY <2>1, <2>2, <2>3
<1> QED
  BY <1>4, <1>6, <1>7 DEF HandsInv
LEMMA KeyUpKeeps ==
  ASSUME HandsInv, NEW k \in K!Keys, K!KeyUp(k)
  PROVE  HandsInv'
<1>1. /\ K!RescueHears(k, FALSE) /\ K!HoldHears(k, FALSE) /\ K!Heard({k}, "up")
      /\ \/ K!EndSplash /\ state.splash
         \/ /\ press' = [press EXCEPT ![k] = Nothing]
            /\ press[k] = Nothing => UNCHANGED <<nav, rotation, state>>
  BY DEF K!KeyUp, K!Hears, K!Release
<1>2. /\ press' \in [K!Keys -> Int \cup {Nothing}]
      /\ press'["knob"] \in {press["knob"], Nothing}
      /\ k = "knob" => press'["knob"] = Nothing
  BY <1>1 DEF HandsInv, HandsTyped, K!EndSplash, K!Keys
<1> QED
  BY <1>1, <1>2, UpKeeps

LEMMA PressFromAfarKeeps ==
  ASSUME HandsInv, NEW k \in K!Keys, NEW long \in BOOLEAN, K!PressFromAfar(k, long)
  PROVE  HandsInv'
<1>1. /\ K!RescueHears(k, FALSE) /\ K!HoldHears(k, FALSE) /\ K!Heard({k}, "whole")
      /\ K!EndSplash \/ press' = [press EXCEPT ![k] = Nothing]
  BY DEF K!PressFromAfar, K!Hears
<1>2. /\ press' \in [K!Keys -> Int \cup {Nothing}]
      /\ press'["knob"] \in {press["knob"], Nothing}
  BY <1>1 DEF HandsInv, HandsTyped, K!EndSplash, K!Keys
<1> QED
  BY <1>1, <1>2, UpKeeps

(* The knob turns: no key, and no meaning of a press. *)
LEMMA DetentKeeps ==
  ASSUME HandsInv, NEW a, K!Detent(a)
  PROVE  HandsInv'
<1>1. /\ K!Heard({}, "whole") /\ rescue' = rescue /\ hold' = hold
      /\ K!EndSplash \/ press' = press
  BY DEF K!Detent
<1>2. {} \in SUBSET K!Keys
  OBVIOUS
<1>3. /\ happened' \in [held : [K!Keys -> 0 .. Hold \cup {Nothing}], seen : Int, quiet : Int,
                        meant : SUBSET {"press", "setup"}, rescued : BOOLEAN]
      /\ \A k \in K!Keys : happened'.held[k] = happened.held[k]
      /\ happened'.meant = happened.meant
  BY <1>1, <1>2, HeardRemembers DEF HandsInv
<1>4. happened'.rescued = happened.rescued
  <2>1. happened'.rescued = (happened.rescued /\ ("whole" = "down" \/ {} \cap {"minus", "plus"} = {}))
    BY <1>1, <1>2, HeardRemembers DEF HandsInv
  <2>2. happened.rescued \in BOOLEAN
    BY DEF HandsInv, HandsTyped
  <2> QED
    BY <2>1, <2>2
<1>5. press' \in [K!Keys -> Int \cup {Nothing}] /\ press'["knob"] \in {press["knob"], Nothing}
  BY <1>1 DEF HandsInv, HandsTyped, K!EndSplash, K!Keys
<1>6. HandsTyped'
  BY <1>1, <1>3, <1>5 DEF HandsInv, HandsTyped
<1>7. MeaningsExclude'
  BY <1>1, <1>3, <1>5 DEF HandsInv, MeaningsExclude
<1>8. GestureFollows'
  BY <1>1, <1>3, <1>4 DEF HandsInv, GestureFollows, K!Keys
<1> QED
  BY <1>6, <1>7, <1>8 DEF HandsInv

-----------------------------------------------------------------------------
(* Two ages grow alike, up to their limit. *)
LEMMA AgesGrow ==
  ASSUME NEW a \in Int, NEW b \in 0 .. Hold, NEW d \in {0, 1}
  PROVE  /\ K!Older(a, d, Hold) \in Int /\ K!Older(b, d, Hold) \in 0 .. Hold
         /\ a <= b => K!Older(a, d, Hold) <= K!Older(b, d, Hold)
  BY Lengths DEF K!Older

(* The turn begins: time passes for everything. *)
LEMMA BeginKeeps ==
  ASSUME HandsInv, NEW d \in {0, 1}, K!Begin(d)
  PROVE  HandsInv'
<1> DEFINE P1 == [k \in K!Keys |-> IF press[k] = Nothing THEN Nothing
                                   ELSE K!Older(press[k], d, LongPress)]
           age == IF rescue.counting THEN K!Older(rescue.age, d, Hold) ELSE rescue.age
           grown == IF hold.down THEN K!Older(hold.age, d, Hold) ELSE hold.age
           held == [k \in K!Keys |-> IF happened.held[k] = Nothing THEN Nothing
                                     ELSE K!Older(happened.held[k], d, Hold)]
           seen == IF nav.open /\ nav.was THEN 0 ELSE K!Older(happened.seen, d, Dwell)
           quiet == IF nav.open THEN K!Older(happened.quiet, d, IdleExit) ELSE 0
           H == [K!Keys -> 0 .. Hold \cup {Nothing}]
<1>1. /\ press' = P1
      /\ rescue' = [rescue EXCEPT !.age = age]
      /\ hold' = [hold EXCEPT !.age = grown]
      /\ happened' = [happened EXCEPT !.held = held, !.seen = seen, !.quiet = quiet]
  BY DEF K!Begin
<1>2. /\ press \in [K!Keys -> Int \cup {Nothing}]
      /\ rescue \in [minus : BOOLEAN, plus : BOOLEAN, counting : BOOLEAN, fired : BOOLEAN,
                     age : Int]
      /\ hold \in [down : BOOLEAN, counting : BOOLEAN, fired : BOOLEAN, age : Int]
      /\ happened \in [held : H, seen : Int, quiet : Int,
                       meant : SUBSET {"press", "setup"}, rescued : BOOLEAN]
  BY DEF HandsInv, HandsTyped
<1>3. /\ \A a, limit \in Int : K!Older(a, d, limit) \in Int
      /\ Hold \in Int /\ LongPress \in Int /\ Dwell \in Int /\ IdleExit \in Int
      /\ rescue.age \in Int /\ hold.age \in Int
      /\ happened.seen \in Int /\ happened.quiet \in Int
  BY <1>2, Lengths DEF K!Older
<1>4. age \in Int /\ grown \in Int
  BY <1>3
<1>5. P1 \in [K!Keys -> Int \cup {Nothing}] /\ (press["knob"] = Nothing => P1["knob"] = Nothing)
  <2>1. ASSUME NEW k \in K!Keys PROVE P1[k] \in Int \cup {Nothing}
    <3>1. press[k] = Nothing \/ press[k] \in Int
      BY <1>2
    <3> QED
      BY <1>3, <3>1
  <2>2. "knob" \in K!Keys
    BY DEF K!Keys
  <2> QED
    BY <2>1, <2>2
<1>6. held \in H
  <2>1. ASSUME NEW k \in K!Keys PROVE held[k] \in 0 .. Hold \cup {Nothing}
    <3>1. CASE happened.held[k] = Nothing
      BY <3>1
    <3>2. CASE happened.held[k] # Nothing
      <4>1. happened.held[k] \in 0 .. Hold
        BY <1>2, <3>2
      <4>2. K!Older(happened.held[k], d, Hold) \in 0 .. Hold
        BY <4>1, AgesGrow
      <4> QED
        BY <3>2, <4>2
    <3> QED
      BY <3>1, <3>2
  <2> QED
    BY <2>1
<1>7. seen \in Int /\ quiet \in Int
  <2>1. K!Older(happened.seen, d, Dwell) \in Int /\ K!Older(happened.quiet, d, IdleExit) \in Int
    BY <1>3
  <2> QED
    BY <2>1
<1>8. \A k \in {"minus", "plus"} : k \in K!Keys /\ (held[k] # Nothing <=> happened.held[k] # Nothing)
  <2>1. ASSUME NEW k \in {"minus", "plus"}, happened.held[k] # Nothing PROVE held[k] # Nothing
    <3>1. k \in K!Keys
      BY DEF K!Keys
    <3>2. happened.held[k] \in 0 .. Hold
      BY <1>2, <2>1, <3>1
    <3>3. K!Older(happened.held[k], d, Hold) \in 0 .. Hold
      BY <3>2, AgesGrow
    <3> QED
      BY <2>1, <3>1, <3>3, Lengths
  <2> QED
    BY <2>1 DEF K!Keys
<1>9. ASSUME rescue.counting, NEW k \in {"minus", "plus"}, rescue.age <= happened.held[k],
             happened.held[k] # Nothing
      PROVE  age <= held[k]
  <2>1. k \in K!Keys
    BY DEF K!Keys
  <2>2. happened.held[k] \in 0 .. Hold /\ rescue.age \in Int
    BY <1>2, <1>9, <2>1
  <2>3. K!Older(rescue.age, d, Hold) <= K!Older(happened.held[k], d, Hold)
    BY <1>9, <2>2, AgesGrow
  <2> QED
    BY <1>9, <2>1, <2>3
<1> HIDE DEF P1, age, grown, held, seen, quiet, H
<1>10. /\ happened' \in [held : H, seen : Int, quiet : Int,
                         meant : SUBSET {"press", "setup"}, rescued : BOOLEAN]
       /\ happened'.held = held /\ happened'.meant = happened.meant
       /\ happened'.rescued = happened.rescued
  BY <1>1, <1>2, <1>6, <1>7
<1>11. /\ rescue' \in [minus : BOOLEAN, plus : BOOLEAN, counting : BOOLEAN, fired : BOOLEAN,
                       age : Int]
       /\ rescue'["minus"] = rescue["minus"] /\ rescue'["plus"] = rescue["plus"]
       /\ rescue'.minus = rescue.minus /\ rescue'.plus = rescue.plus
       /\ rescue'.counting = rescue.counting /\ rescue'.fired = rescue.fired
       /\ rescue'.age = age
  BY <1>1, <1>2, <1>4
<1>12. /\ hold' \in [down : BOOLEAN, counting : BOOLEAN, fired : BOOLEAN, age : Int]
       /\ hold'.counting = hold.counting
  BY <1>1, <1>2, <1>4
<1>13. HandsTyped'
  BY <1>1, <1>5, <1>10, <1>11, <1>12 DEF HandsTyped, H
<1>14. MeaningsExclude'
  BY <1>1, <1>5, <1>10, <1>12 DEF HandsInv, MeaningsExclude
<1>15. GestureFollows'
  <2>1. \A k \in {"minus", "plus"} : rescue'[k] <=> happened'.held[k] # Nothing
    BY <1>8, <1>10, <1>11 DEF HandsInv, GestureFollows
  <2>2. ASSUME rescue.counting PROVE age <= held["minus"] /\ age <= held["plus"]
    <3>1. /\ rescue.age <= happened.held["minus"] /\ rescue.age <= happened.held["plus"]
          /\ rescue.minus /\ rescue.plus
      BY <2>2 DEF HandsInv, GestureFollows
    <3>2. happened.held["minus"] # Nothing /\ happened.held["plus"] # Nothing
      BY <3>1 DEF HandsInv, GestureFollows
    <3> QED
      BY <1>9, <2>2, <3>1, <3>2
  <2>3. rescue'.counting <=> rescue'.minus /\ rescue'.plus
    BY <1>11 DEF HandsInv, GestureFollows
  <2>4. happened'.rescued => rescue'.counting /\ rescue'.fired
    BY <1>10, <1>11 DEF HandsInv, GestureFollows
  <2> QED
    BY <1>10, <1>11, <2>1, <2>2, <2>3, <2>4 DEF GestureFollows
<1> QED
  BY <1>13, <1>14, <1>15 DEF HandsInv
-----------------------------------------------------------------------------
(* The turn ends: the gestures ring.  The password goes with the one, and  *)
(* the press that is the other is discarded.                               *)
LEMMA FinishKeeps ==
  ASSUME HandsInv, K!Finish
  PROVE  HandsInv' /\ WholeHold
<1> DEFINE H == [K!Keys -> 0 .. Hold \cup {Nothing}]
           seen == IF rotation'.app # rotation.app \/ (nav.open /\ ~state'.splash) THEN 0
                   ELSE happened.seen
           meant == IF K!SetupFires THEN happened.meant \cup {"setup"} ELSE happened.meant
           rescued == happened.rescued \/ K!RescueFires
           fired == rescue.fired \/ K!RescueFires
           rang == hold.fired \/ K!SetupFires
           counting == hold.counting /\ ~K!SetupFires
<1>1. /\ rescue' = [rescue EXCEPT !.fired = fired]
      /\ password' = (password /\ ~K!RescueFires)
      /\ hold' = [hold EXCEPT !.fired = rang, !.counting = counting]
      /\ press' = IF K!SetupFires THEN [k \in K!Keys |-> Nothing] ELSE press
      /\ happened' = [happened EXCEPT !.seen = seen, !.meant = meant, !.rescued = rescued]
  BY DEF K!Finish, K!RescueTick, K!SetupTick
<1>2. /\ press \in [K!Keys -> Int \cup {Nothing}]
      /\ rescue \in [minus : BOOLEAN, plus : BOOLEAN, counting : BOOLEAN, fired : BOOLEAN,
                     age : Int]
      /\ hold \in [down : BOOLEAN, counting : BOOLEAN, fired : BOOLEAN, age : Int]
      /\ happened \in [held : H, seen : Int, quiet : Int,
                       meant : SUBSET {"press", "setup"}, rescued : BOOLEAN]
  BY DEF HandsInv, HandsTyped
<1>3. K!SetupFires => hold.counting
  BY DEF K!SetupFires
<1>4. K!RescueFires => rescue.counting /\ ~rescue.fired /\ rescue.age >= Hold
  BY DEF K!RescueFires
<1>5. meant \in SUBSET {"press", "setup"} /\ seen \in Int
  BY <1>2
<1>6. rescued \in BOOLEAN /\ fired \in BOOLEAN /\ rang \in BOOLEAN /\ counting \in BOOLEAN
  OBVIOUS
<1>7. /\ press' \in [K!Keys -> Int \cup {Nothing}]
      /\ press["knob"] = Nothing \/ K!SetupFires => press'["knob"] = Nothing
  BY <1>1, <1>2 DEF K!Keys
<1>8. meant = happened.meant \/ (K!SetupFires /\ meant = happened.meant \cup {"setup"})
  OBVIOUS
<1> HIDE DEF seen, meant, rescued, fired, rang, counting, H
<1>9. /\ happened' \in [held : H, seen : Int, quiet : Int,
                        meant : SUBSET {"press", "setup"}, rescued : BOOLEAN]
      /\ happened'.held = happened.held /\ happened'.meant = meant
      /\ happened'.rescued = rescued
  BY <1>1, <1>2, <1>5, <1>6
<1>10. /\ rescue' \in [minus : BOOLEAN, plus : BOOLEAN, counting : BOOLEAN, fired : BOOLEAN,
                       age : Int]
       /\ rescue'["minus"] = rescue["minus"] /\ rescue'["plus"] = rescue["plus"]
       /\ rescue'.minus = rescue.minus /\ rescue'.plus = rescue.plus
       /\ rescue'.counting = rescue.counting /\ rescue'.age = rescue.age
       /\ rescue'.fired = fired
  BY <1>1, <1>2, <1>6
<1>11. /\ hold' \in [down : BOOLEAN, counting : BOOLEAN, fired : BOOLEAN, age : Int]
       /\ hold'.counting = counting
  BY <1>1, <1>2, <1>6
<1>12. HandsTyped'
  BY <1>7, <1>9, <1>10, <1>11 DEF HandsTyped, H
<1>13. MeaningsExclude'
  <2>1. hold'.counting => hold.counting /\ ~K!SetupFires
    BY <1>11 DEF counting
  <2> QED
    BY <1>3, <1>7, <1>8, <1>9, <2>1 DEF HandsInv, MeaningsExclude
<1>14. GestureFollows'
  <2>1. happened'.rescued => rescue'.counting /\ rescue'.fired
    BY <1>4, <1>9, <1>10 DEF HandsInv, GestureFollows, rescued, fired
  <2> QED
    BY <1>9, <1>10, <2>1 DEF HandsInv, GestureFollows
<1>15. WholeHold
  <2> SUFFICES ASSUME K!RescueFires
               PROVE  /\ happened.held["minus"] = Hold /\ happened.held["plus"] = Hold
                      /\ ~happened.rescued
    BY <1>1 DEF WholeHold
  <2>1. /\ rescue.counting /\ ~rescue.fired /\ rescue.age >= Hold
        /\ rescue.age <= happened.held["minus"] /\ rescue.age <= happened.held["plus"]
        /\ rescue.minus /\ rescue.plus
    BY <1>4 DEF HandsInv, GestureFollows
  <2>2. happened.held["minus"] \in 0 .. Hold /\ happened.held["plus"] \in 0 .. Hold
    <3>1. /\ happened.held["minus"] \in 0 .. Hold \cup {Nothing}
          /\ happened.held["plus"] \in 0 .. Hold \cup {Nothing}
      BY <1>2 DEF H, K!Keys
    <3>2. happened.held["minus"] # Nothing /\ happened.held["plus"] # Nothing
      BY <2>1 DEF HandsInv, GestureFollows
    <3> QED
      BY <3>1, <3>2
  <2>3. rescue.age \in Int
    BY <1>2
  <2>4. happened.held["minus"] = Hold /\ happened.held["plus"] = Hold
    BY <2>1, <2>2, <2>3, Lengths
  <2>5. ~happened.rescued
    BY <2>1 DEF HandsInv, GestureFollows
  <2> QED
    BY <2>4, <2>5
<1> QED
  BY <1>12, <1>13, <1>14, <1>15 DEF HandsInv

LEMMA HandsInitially == K!Init => HandsInv
<1> SUFFICES ASSUME K!Init PROVE HandsInv
  OBVIOUS
<1>1. /\ press = [k \in K!Keys |-> Nothing]
      /\ rescue = [minus |-> FALSE, plus |-> FALSE, counting |-> FALSE, fired |-> FALSE,
                   age |-> 0]
      /\ hold = [down |-> FALSE, counting |-> FALSE, fired |-> FALSE, age |-> 0]
      /\ happened = [held |-> [k \in K!Keys |-> Nothing], seen |-> 0, quiet |-> 0,
                     meant |-> {}, rescued |-> FALSE]
  BY DEF K!Init
<1>2. HandsTyped
  BY <1>1 DEF HandsTyped
<1>3. MeaningsExclude /\ GestureFollows
  BY <1>1 DEF MeaningsExclude, GestureFollows, K!Keys
<1> QED
  BY <1>2, <1>3 DEF HandsInv

LEMMA HandsSteps ==
  ASSUME HandsInv, [K!Next]_(K!vars)
  PROVE  HandsInv' /\ [WholeHold]_(K!vars)
<1>1. ASSUME HandsInv', password' = password PROVE HandsInv' /\ [WholeHold]_(K!vars)
  BY <1>1 DEF WholeHold
<1>2. ASSUME NEW k \in K!Keys, K!KeyDown(k) PROVE HandsInv' /\ [WholeHold]_(K!vars)
  BY <1>1, <1>2, KeyDownKeeps DEF K!KeyDown
<1>3. ASSUME NEW k \in K!Keys, K!KeyUp(k) PROVE HandsInv' /\ [WholeHold]_(K!vars)
  BY <1>1, <1>3, KeyUpKeeps DEF K!KeyUp
<1>4. ASSUME NEW a, K!Detent(a) PROVE HandsInv' /\ [WholeHold]_(K!vars)
  BY <1>1, <1>4, DetentKeeps DEF K!Detent
<1>5. CASE K!HandleInput
  <2>1. ASSUME NEW k \in K!Keys, NEW long \in BOOLEAN, K!PressFromAfar(k, long)
        PROVE  HandsInv' /\ [WholeHold]_(K!vars)
    BY <1>1, <2>1, PressFromAfarKeeps DEF K!PressFromAfar
  <2> QED
    BY <1>2, <1>3, <1>4, <1>5, <2>1 DEF K!HandleInput
<1>6. CASE K!PumpInput
  BY <1>2, <1>3, <1>4, <1>6 DEF K!PumpInput
<1>7. CASE K!SetPassword
  <2>1. /\ press' = press /\ rescue' = rescue /\ hold' = hold /\ happened' = happened
        /\ password' = TRUE
    BY <1>7 DEF K!SetPassword
  <2>2. HandsInv'
    BY <2>1 DEF HandsInv, HandsTyped, MeaningsExclude, GestureFollows
  <2> QED
    BY <2>1, <2>2 DEF WholeHold
<1>8. ASSUME NEW d \in {0, 1}, K!Begin(d) PROVE HandsInv' /\ [WholeHold]_(K!vars)
  BY <1>1, <1>8, BeginKeeps DEF K!Begin
<1>9. CASE K!Finish
  BY <1>9, FinishKeeps
<1>10. CASE UNCHANGED K!vars
  <2>1. press' = press /\ rescue' = rescue /\ hold' = hold /\ happened' = happened
    BY <1>10 DEF K!vars
  <2>2. HandsInv'
    BY <2>1 DEF HandsInv, HandsTyped, MeaningsExclude, GestureFollows
  <2> QED
    BY <1>10, <2>2
<1> QED
  BY <1>5, <1>6, <1>7, <1>8, <1>9, <1>10 DEF K!Next

LEMMA HandsInvHolds == K!Spec => []HandsInv
<1>1. HandsInv /\ [K!Next]_(K!vars) => HandsInv'
  BY HandsSteps
<1> QED
  BY <1>1, HandsInitially, PTL DEF K!Spec

(* One press of the knob is a short press, a long press or a request for   *)
(* the hotspot, and never two of them, although three parts measure it by  *)
(* clocks of their own (ApplicationHost::handleInput, SetupHold::tick).    *)
THEOREM APressHasOneMeaning == K!Spec => []OnePressOneMeaning
<1>1. HandsInv => OnePressOneMeaning
  <2> SUFFICES ASSUME HandsInv PROVE Cardinality(happened.meant) <= 1
    BY DEF OnePressOneMeaning, K!OnePressOneMeaning, K!Cardinality, Cardinality
  <2>1. happened.meant = {} \/ \E m : happened.meant = {m}
    <3>1. happened.meant \subseteq {"press", "setup"}
      BY DEF HandsInv, HandsTyped
    <3>2. "press" \notin happened.meant \/ "setup" \notin happened.meant
      BY DEF HandsInv, MeaningsExclude
    <3> QED
      BY <3>1, <3>2
  <2>2. CASE happened.meant = {}
    <3>1. Cardinality(happened.meant) = 0
      BY <2>2, FS_EmptySet
    <3> QED
      BY <3>1
  <2>3. ASSUME NEW m, happened.meant = {m} PROVE Cardinality(happened.meant) <= 1
    <3>1. Cardinality(happened.meant) = 1
      BY <2>3, FS_Singleton
    <3> QED
      BY <3>1
  <2> QED
    BY <2>1, <2>2, <2>3
<1> QED
  BY <1>1, HandsInvHolds, PTL

(* The password goes only at the end of a hold of both keys that lasted    *)
(* its whole time, and once for that hold, whatever the splash, other keys *)
(* and halves of a press from afar do meanwhile (Rescue::handle, tick).    *)
THEOREM OnlyTheWholeHoldRescues == K!Spec => RescueTakesTheWholeHold
<1>1. HandsInv /\ [K!Next]_(K!vars) => [WholeHold]_(K!vars)
  BY HandsSteps
<1> QED
  BY <1>1, HandsInvHolds, PTL
     DEF K!Spec, RescueTakesTheWholeHold, K!RescueTakesTheWholeHold, WholeHold
-----------------------------------------------------------------------------
(* The panel. *)
LEMMA Paces ==
  /\ Interval \in Nat /\ Interval > 0 /\ Refresh \in Nat /\ Refresh > 0 /\ Late \in Nat
  /\ Countdown \in Nat /\ Late + Interval < Countdown /\ Nothing \notin Nat
  BY FrontAssumption DEF FrontAssumption, P!PanelAssumption

Modes ==
  [safe : BOOLEAN, splash : BOOLEAN, notice : BOOLEAN, menu : BOOLEAN, power : BOOLEAN, alert : BOOLEAN]

PanelTyped ==
  /\ waited \in 0 .. Late
  /\ sched \in [dirty : BOOLEAN, rendered : BOOLEAN, evaluated : 0 .. Interval,
                presented : 0 .. Refresh]
  /\ gesture \in 0 .. Countdown \cup {Nothing}
  /\ hint \in BOOLEAN
  /\ mode \in Modes
  /\ fact \in [owner : Nat, wrong : Nat, silent : BOOLEAN, seen : BOOLEAN, asked : BOOLEAN]

(* Whom the panel belongs to, from who claims it. *)
Showing(claims) ==
  LET first == CHOOSE i \in DOMAIN P!Owners :
                 claims[P!Owners[i]] /\ \A j \in 1 .. i - 1 : ~claims[P!Owners[j]]
  IN  P!Owners[first]

(* The claims as the last turn saw them: the countdowns of that turn, and  *)
(* the rest, which does not change without a word.                         *)
AsDrawn ==
  [safe |-> mode.safe, reset |-> drawn.count # Nothing, setup |-> drawn.hint,
   notice |-> mode.notice, menu |-> mode.menu, dark |-> ~mode.power, splash |-> mode.splash, alert |-> mode.alert,
   app |-> TRUE]

(* Somebody has seen the countdown, or safe mode does not show it. *)
Seen == fact.seen \/ mode.safe

(* Something has lasted no longer than since the frame before last was due:*)
(* evaluated counts up to Interval, and then it is at the next turn.       *)
Since(age, evaluated, late) ==
  IF evaluated < Interval THEN age <= evaluated ELSE age <= Interval - 1 + late

(* Why the panel is in time.  A scheduler with nothing to draw has drawn   *)
(* what the last turn saw; whatever else there is to show, and a countdown *)
(* that nobody has seen, is no older than the last frame that was due; and *)
(* what nobody announced lasts no longer than the refresh besides.         *)
PanelKeepsUp ==
  /\ ~sched.rendered => sched.dirty
  /\ sched.rendered /\ ~sched.dirty /\ ~fact.silent => panel.layer = Showing(AsDrawn)
  /\ ~fact.silent => Since(fact.owner, sched.evaluated, waited)
  /\ gesture # Nothing /\ ~Seen => Since(gesture, sched.evaluated, waited)
  /\ ~sched.dirty /\ drawn.count # Nothing => Seen
  /\ sched.presented < Refresh => fact.wrong <= sched.presented
  /\ Since(fact.wrong - Refresh, sched.evaluated, waited)

PanelInv == PanelTyped /\ PanelKeepsUp

-----------------------------------------------------------------------------
(* The order of the owners. *)
LEMMA OwnersAre ==
  /\ DOMAIN P!Owners = 1 .. 9
  /\ P!Owners[1] = "safe" /\ P!Owners[2] = "reset" /\ P!Owners[3] = "setup"
  /\ P!Owners[4] = "notice" /\ P!Owners[5] = "menu" /\ P!Owners[6] = "dark"
  /\ P!Owners[7] = "splash" /\ P!Owners[8] = "alert" /\ P!Owners[9] = "app"
  BY DEF P!Owners

LEMMA FirstShows ==
  ASSUME NEW claims, NEW k \in 1 .. 9, claims[P!Owners[k]],
         \A j \in 1 .. k - 1 : ~claims[P!Owners[j]]
  PROVE  Showing(claims) = P!Owners[k]
<1> DEFINE Fits(i) == claims[P!Owners[i]] /\ \A j \in 1 .. i - 1 : ~claims[P!Owners[j]]
<1>1. ASSUME NEW i \in 1 .. 9, Fits(i) PROVE i = k
  <2>1. ~(i < k)
    BY <1>1
  <2>2. ~(k < i)
    BY <1>1
  <2> QED
    BY <2>1, <2>2
<1>2. Fits(k)
  OBVIOUS
<1>3. (CHOOSE i \in 1 .. 9 : Fits(i)) = k
  <2> HIDE DEF Fits
  <2> QED
    BY <1>1, <1>2
<1> QED
  BY <1>3, OwnersAre DEF Showing

LEMMA LayerIsShown == P!Layer = Showing(P!Claims)
  BY DEF P!Layer, Showing

LEMMA ResetIsNext ==
  ASSUME NEW claims, claims.reset, ~claims.safe
  PROVE  Showing(claims) = "reset"
<1>1. claims[P!Owners[2]] /\ \A j \in 1 .. 2 - 1 : ~claims[P!Owners[j]]
  <2>1. \A j \in 1 .. 2 - 1 : j = 1
    OBVIOUS
  <2> QED
    BY <2>1, OwnersAre
<1> QED
  BY <1>1, OwnersAre, FirstShows

(* A message that goes while the panel is off was not what it showed. *)
LEMMA DarkHidesMessages ==
  ASSUME NEW a, NEW b, a.dark, b.dark = a.dark, b.safe = a.safe, b.reset = a.reset,
         b.setup = a.setup, b.notice = a.notice, b.menu = a.menu
  PROVE  Showing(a) = Showing(b)
<1>1. \A k \in 1 .. 6 : a[P!Owners[k]] = b[P!Owners[k]]
  <2>1. ASSUME NEW k \in 1 .. 6 PROVE a[P!Owners[k]] = b[P!Owners[k]]
    <3>1. k = 1 \/ k = 2 \/ k = 3 \/ k = 4 \/ k = 5 \/ k = 6
      OBVIOUS
    <3>2. P!Owners[k] \in {"safe", "reset", "setup", "notice", "menu", "dark"}
      BY <3>1, OwnersAre
    <3> QED
      BY <3>2
  <2> QED
    BY <2>1
<1>2. \E k \in 1 .. 6 : a[P!Owners[k]] /\ \A j \in 1 .. k - 1 : ~a[P!Owners[j]]
  <2>1. CASE a.safe
    BY <2>1, OwnersAre
  <2>2. CASE ~a.safe /\ a.reset
    BY <2>2, OwnersAre
  <2>3. CASE ~a.safe /\ ~a.reset /\ a.setup
    BY <2>3, OwnersAre
  <2>4. CASE ~a.safe /\ ~a.reset /\ ~a.setup /\ a.notice
    BY <2>4, OwnersAre
  <2>5. CASE ~a.safe /\ ~a.reset /\ ~a.setup /\ ~a.notice /\ a.menu
    BY <2>5, OwnersAre
  <2>6. CASE ~a.safe /\ ~a.reset /\ ~a.setup /\ ~a.notice /\ ~a.menu
    BY <2>6, OwnersAre
  <2> QED
    BY <2>1, <2>2, <2>3, <2>4, <2>5, <2>6
<1>3. PICK k \in 1 .. 6 : a[P!Owners[k]] /\ \A j \in 1 .. k - 1 : ~a[P!Owners[j]]
  BY <1>2
<1>4. b[P!Owners[k]] /\ \A j \in 1 .. k - 1 : ~b[P!Owners[j]]
  <2>1. \A j \in 1 .. k - 1 : j \in 1 .. 6
    BY <1>3
  <2> QED
    BY <1>1, <1>3, <2>1
<1> QED
  BY <1>3, <1>4, FirstShows

-----------------------------------------------------------------------------
(* What comes from outside: it says so, or it is silent, or it leaves who  *)
(* claims the panel to the countdowns.                                     *)
LEMMA EventKeeps ==
  ASSUME PanelInv, waited' = waited, drawn' = drawn, panel' = panel,
         mode' \in Modes, mode'.safe = mode.safe, hint' \in BOOLEAN,
         gesture' \in {gesture, 0, Nothing},
         fact' \in {[fact EXCEPT !.asked = TRUE], [fact EXCEPT !.silent = TRUE]},
         sched' \in {sched, [sched EXCEPT !.dirty = TRUE]},
         sched'.dirty \/ fact'.silent \/ mode' = mode
  PROVE  PanelInv'
<1>1. /\ sched \in [dirty : BOOLEAN, rendered : BOOLEAN, evaluated : 0 .. Interval,
                    presented : 0 .. Refresh]
      /\ fact \in [owner : Nat, wrong : Nat, silent : BOOLEAN, seen : BOOLEAN, asked : BOOLEAN]
  BY DEF PanelInv, PanelTyped
<1>2. /\ sched' \in [dirty : BOOLEAN, rendered : BOOLEAN, evaluated : 0 .. Interval,
                     presented : 0 .. Refresh]
      /\ sched'.evaluated = sched.evaluated /\ sched'.presented = sched.presented
      /\ sched'.rendered = sched.rendered /\ (sched.dirty => sched'.dirty)
  BY <1>1
<1>3. /\ fact' \in [owner : Nat, wrong : Nat, silent : BOOLEAN, seen : BOOLEAN, asked : BOOLEAN]
      /\ fact'.owner = fact.owner /\ fact'.wrong = fact.wrong /\ fact'.seen = fact.seen
      /\ fact.silent => fact'.silent
  BY <1>1
<1>4. PanelTyped'
  BY <1>2, <1>3, Paces DEF PanelInv, PanelTyped
<1>5. ASSUME sched'.rendered, ~sched'.dirty, ~fact'.silent
      PROVE  panel'.layer = Showing(AsDrawn)'
  <2>1. mode' = mode /\ sched.rendered /\ ~sched.dirty /\ ~fact.silent
    BY <1>2, <1>3, <1>5
  <2>2. AsDrawn' = AsDrawn
    BY <2>1 DEF AsDrawn
  <2>3. panel.layer = Showing(AsDrawn)
    BY <2>1 DEF PanelInv, PanelKeepsUp
  <2> QED
    BY <2>2, <2>3 DEF Showing
<1>8. Seen' <=> Seen
  BY <1>3 DEF Seen
<1>6. gesture' # Nothing /\ ~Seen' => Since(gesture, sched.evaluated, waited)'
  <2>1. CASE gesture' = gesture
    BY <1>2, <1>3, <1>8, <2>1 DEF PanelInv, PanelKeepsUp, Since
  <2>2. CASE gesture' = 0
    BY <1>1, <1>2, <2>2, Paces DEF PanelInv, PanelTyped, Since
  <2> QED
    BY <2>1, <2>2
<1>7. /\ ~sched'.rendered => sched'.dirty
      /\ ~fact'.silent => Since(fact.owner, sched.evaluated, waited)'
      /\ ~sched'.dirty /\ drawn'.count # Nothing => Seen'
      /\ sched'.presented < Refresh => fact'.wrong <= sched'.presented
      /\ Since(fact.wrong - Refresh, sched.evaluated, waited)'
  BY <1>2, <1>3, <1>8 DEF PanelInv, PanelKeepsUp, Since
<1> QED
  BY <1>4, <1>5, <1>6, <1>7 DEF PanelInv, PanelKeepsUp
LEMMA OutsideKeeps ==
  ASSUME PanelInv, P!Http \/ P!Mqtt \/ P!Notice
  PROVE  PanelInv'
<1>1. mode \in Modes /\ hint \in BOOLEAN
  BY DEF PanelInv, PanelTyped
<1>2. waited' = waited /\ drawn' = drawn /\ panel' = panel
  BY DEF P!Http, P!Mqtt, P!Notice, P!Event
<1>3. /\ gesture' = gesture /\ hint' = hint
      /\ \/ mode' = mode
         \/ mode' = [mode EXCEPT !.power = ~@]
         \/ mode' = [mode EXCEPT !.alert = ~@]
         \/ mode' = [mode EXCEPT !.notice = ~@]
  BY DEF P!Http, P!Mqtt, P!Notice, P!Change
<1>4. mode' \in Modes /\ mode'.safe = mode.safe
  BY <1>1, <1>3 DEF Modes
<1>5. CASE P!Http \/ P!Notice
  <2>1. sched' = [sched EXCEPT !.dirty = TRUE] /\ fact' = [fact EXCEPT !.asked = TRUE]
    BY <1>5 DEF P!Http, P!Notice, P!AfterRequest, P!Announced
  <2>2. sched'.dirty
    BY <2>1 DEF PanelInv, PanelTyped
  <2> QED
    BY <1>1, <1>2, <1>3, <1>4, <2>1, <2>2, EventKeeps
<1>6. CASE P!Mqtt
  <2>1. sched' = sched /\ fact' = [fact EXCEPT !.silent = TRUE]
    BY <1>6 DEF P!Mqtt, P!Silent
  <2>2. fact'.silent
    BY <2>1 DEF PanelInv, PanelTyped
  <2> QED
    BY <1>1, <1>2, <1>3, <1>4, <2>1, <2>2, EventKeeps
<1> QED
  BY <1>5, <1>6

LEMMA InputKeeps ==
  ASSUME PanelInv, P!HandleInput
  PROVE  PanelInv'
<1>1. mode \in Modes /\ hint \in BOOLEAN
  BY DEF PanelInv, PanelTyped
<1>2. /\ waited' = waited /\ drawn' = drawn /\ panel' = panel
      /\ gesture' \in {gesture, 0, Nothing} /\ hint' \in BOOLEAN
  BY <1>1 DEF P!HandleInput, P!Event
<1>3. /\ \/ P!Announced /\ (P!EndSplash \/ P!Act)
         \/ mode' = mode /\ sched' = sched /\ fact' = [fact EXCEPT !.asked = TRUE]
  BY DEF P!HandleInput
<1>4. CASE P!Announced /\ (P!EndSplash \/ P!Act)
  <2>1. sched' = [sched EXCEPT !.dirty = TRUE] /\ fact' = [fact EXCEPT !.asked = TRUE]
    BY <1>4 DEF P!Announced
  <2>2. sched'.dirty
    BY <2>1 DEF PanelInv, PanelTyped
  <2>3. \/ mode' = mode
        \/ mode' = [mode EXCEPT !.splash = FALSE]
        \/ mode' = [mode EXCEPT !.menu = ~@]
        \/ mode' = [mode EXCEPT !.alert = FALSE]
        \/ \E raises \in BOOLEAN : mode' = [mode EXCEPT !.power = @ \/ raises]
    BY <1>4 DEF P!EndSplash, P!Act
  <2>4. mode' \in Modes /\ mode'.safe = mode.safe
    BY <1>1, <2>3 DEF Modes
  <2> QED
    BY <1>2, <2>1, <2>2, <2>4, EventKeeps
<1>5. CASE mode' = mode /\ sched' = sched /\ fact' = [fact EXCEPT !.asked = TRUE]
  BY <1>1, <1>2, <1>5, EventKeeps
<1> QED
  BY <1>3, <1>4, <1>5

-----------------------------------------------------------------------------
(* Time passes: what lasts grows no faster than what it is measured by. *)
LEMMA SinceLasts ==
  ASSUME NEW evaluated \in 0 .. Interval, NEW late \in Nat, NEW d \in Nat,
         NEW age \in Int, Since(age, evaluated, late), NEW grown \in Int, grown <= age + d
  PROVE  Since(grown, P!Later(evaluated, d, Interval), late + d)
<1>1. CASE evaluated + d < Interval
  BY <1>1, Paces DEF Since, P!Later
<1>2. CASE evaluated < Interval /\ ~(evaluated + d < Interval)
  BY <1>2, Paces DEF Since, P!Later
<1>3. CASE evaluated = Interval
  BY <1>3, Paces DEF Since, P!Later
<1> QED
  BY <1>1, <1>2, <1>3, Paces

LEMMA ElapseKeeps ==
  ASSUME PanelInv, NEW d \in 1 .. Late, P!Elapse(d)
  PROVE  PanelInv'
<1> DEFINE limit == P!Healed + 1
           owner == IF panel.layer = P!Layer THEN 0 ELSE P!Later(fact.owner, d, limit)
           wrong == IF panel = P!Wanted THEN 0 ELSE P!Later(fact.wrong, d, limit)
           evaluated == P!Later(sched.evaluated, d, Interval)
           presented == P!Later(sched.presented, d, Refresh)
<1>1. /\ waited + d <= Late /\ waited' = waited + d
      /\ sched' = [sched EXCEPT !.evaluated = evaluated, !.presented = presented]
      /\ gesture' = IF gesture = Nothing THEN Nothing ELSE P!Later(gesture, d, Countdown)
      /\ fact' = [fact EXCEPT !.owner = owner, !.wrong = wrong]
      /\ hint' = hint /\ drawn' = drawn /\ mode' = mode /\ panel' = panel
  BY DEF P!Elapse
<1>2. /\ waited \in Nat /\ d \in Nat
      /\ sched \in [dirty : BOOLEAN, rendered : BOOLEAN, evaluated : 0 .. Interval,
                    presented : 0 .. Refresh]
      /\ gesture \in 0 .. Countdown \cup {Nothing}
      /\ fact \in [owner : Nat, wrong : Nat, silent : BOOLEAN, seen : BOOLEAN, asked : BOOLEAN]
  BY Paces DEF PanelInv, PanelTyped
<1>3. /\ sched.evaluated \in 0 .. Interval /\ sched.presented \in 0 .. Refresh
      /\ fact.owner \in Nat /\ fact.wrong \in Nat
  BY <1>2
<1>4. evaluated \in 0 .. Interval /\ presented \in 0 .. Refresh
  BY <1>2, <1>3, Paces DEF P!Later
<1>5. limit \in Nat
  BY Paces DEF P!Healed
<1>6. owner \in Nat /\ owner <= fact.owner + d /\ wrong \in Nat /\ wrong <= fact.wrong + d
  <2> HIDE DEF limit
  <2>1. /\ P!Later(fact.owner, d, limit) \in Nat /\ P!Later(fact.owner, d, limit) <= fact.owner + d
        /\ P!Later(fact.wrong, d, limit) \in Nat /\ P!Later(fact.wrong, d, limit) <= fact.wrong + d
    BY <1>2, <1>3, <1>5 DEF P!Later
  <2> QED
    BY <1>2, <1>3, <2>1
<1>7. presented < Refresh => presented = sched.presented + d
  BY <1>2, <1>3, Paces DEF P!Later
<1>14. Since(fact.wrong - Refresh, sched.evaluated, waited)
         => Since(wrong - Refresh, evaluated, waited + d)
  <2>1. fact.wrong - Refresh \in Int /\ wrong - Refresh \in Int
        /\ wrong - Refresh <= (fact.wrong - Refresh) + d
    BY <1>2, <1>3, <1>6, Paces
  <2> QED
    BY <1>2, <1>3, <2>1, SinceLasts
<1>15. Since(fact.owner, sched.evaluated, waited) => Since(owner, evaluated, waited + d)
  BY <1>2, <1>3, <1>6, SinceLasts
<1> HIDE DEF owner, wrong, evaluated, presented, limit
<1>8. /\ sched' \in [dirty : BOOLEAN, rendered : BOOLEAN, evaluated : 0 .. Interval,
                     presented : 0 .. Refresh]
      /\ sched'.evaluated = evaluated /\ sched'.presented = presented
      /\ sched'.dirty = sched.dirty /\ sched'.rendered = sched.rendered
  BY <1>1, <1>2, <1>4
<1>9. /\ fact' \in [owner : Nat, wrong : Nat, silent : BOOLEAN, seen : BOOLEAN, asked : BOOLEAN]
      /\ fact'.owner = owner /\ fact'.wrong = wrong /\ fact'.silent = fact.silent
      /\ fact'.seen = fact.seen
  BY <1>1, <1>2, <1>6
<1>10. /\ gesture' \in 0 .. Countdown \cup {Nothing}
       /\ gesture' # Nothing => gesture # Nothing /\ gesture \in Nat /\ gesture' \in Nat
                                /\ gesture' <= gesture + d
  <2>1. CASE gesture = Nothing
    BY <1>1, <2>1
  <2>2. CASE gesture # Nothing
    <3>1. gesture \in 0 .. Countdown
      BY <1>2, <2>2
    <3>2. P!Later(gesture, d, Countdown) \in 0 .. Countdown /\ P!Later(gesture, d, Countdown) <= gesture + d
      BY <1>2, <3>1, Paces DEF P!Later
    <3> QED
      BY <1>1, <2>2, <3>1, <3>2, Paces
  <2> QED
    BY <2>1, <2>2
<1>11. PanelTyped'
  <2>1. waited' \in 0 .. Late
    BY <1>1, <1>2, Paces
  <2> QED
    BY <1>1, <1>8, <1>9, <1>10, <2>1 DEF PanelInv, PanelTyped
<1>18. Seen' <=> Seen
  BY <1>1, <1>9 DEF Seen
<1>12. gesture' # Nothing /\ ~Seen' => Since(gesture', evaluated, waited + d)
  <2> SUFFICES ASSUME gesture' # Nothing, ~Seen' PROVE Since(gesture', evaluated, waited + d)
    OBVIOUS
  <2>1. Since(gesture, sched.evaluated, waited)
    BY <1>10, <1>18 DEF PanelInv, PanelKeepsUp
  <2>2. gesture \in Int /\ gesture' \in Int /\ gesture' <= gesture + d
    BY <1>10
  <2> QED
    BY <1>2, <1>3, <2>1, <2>2, SinceLasts DEF evaluated
<1>13. sched'.rendered /\ ~sched'.dirty /\ ~fact'.silent => panel'.layer = Showing(AsDrawn)'
  <2>1. AsDrawn' = AsDrawn
    BY <1>1 DEF AsDrawn
  <2> QED
    BY <1>1, <1>8, <1>9, <2>1 DEF PanelInv, PanelKeepsUp, Showing
<1>16. presented < Refresh => wrong <= presented
  BY <1>2, <1>3, <1>4, <1>6, <1>7, Paces DEF PanelInv, PanelKeepsUp
<1>17. PanelKeepsUp'
  BY <1>1, <1>8, <1>9, <1>12, <1>13, <1>14, <1>15, <1>16, <1>18 DEF PanelInv, PanelKeepsUp, Since
<1> QED
  BY <1>11, <1>17 DEF PanelInv
-----------------------------------------------------------------------------
(* A turn of the loop draws what is due, or there is nothing to draw. *)
LEMMA TurnKeeps ==
  ASSUME PanelInv, P!Turn
  PROVE  PanelInv'
<1>1. /\ waited > 0 /\ waited' = 0 /\ gesture' = gesture
      /\ hint' \in {hint, ~hint}
  BY DEF P!Turn, P!SetupTick
<1>2. PICK splash \in BOOLEAN, moved \in BOOLEAN, expired \in BOOLEAN, leaves \in BOOLEAN :
        /\ splash => mode.splash
        /\ splash \/ mode.safe => ~moved /\ ~expired
        /\ expired => mode.alert
        /\ leaves => mode.menu
        /\ mode' = [mode EXCEPT !.splash = splash, !.alert = @ /\ ~expired,
                                !.menu = @ /\ ~leaves]
        /\ P!Advances(moved)
        /\ LET rests == splash \/ mode.safe
               dirty == \/ sched.dirty \/ P!CountdownMoved \/ mode.splash \/ leaves
                        \/ ~rests /\ P!Stirs(moved, expired)
               draws == P!DrawsNow(dirty)
               due == ~sched.rendered \/ sched.evaluated >= Interval
               age == IF rests THEN move.age ELSE P!Begun(moved)
               blends == P!TransitionRunning(age)
                         /\ ~(mode.notice \/ gesture # Nothing \/ hint')
           IN  /\ UNCHANGED <<gesture, readout>>
               /\ move' = [move EXCEPT !.age = IF draws /\ ~blends THEN Nothing ELSE age]
               /\ panel' = IF draws THEN [P!Wanted' EXCEPT !.blend = blends] ELSE panel
               /\ fact' = [fact EXCEPT
                    !.owner = IF panel'.layer = P!Layer' THEN 0 ELSE @,
                    !.wrong = IF draws THEN 0 ELSE @,
                    !.silent = @ /\ ~draws, !.asked = (@ \/ P!Stirred(leaves)) /\ ~draws,
                    !.seen = gesture # Nothing /\ (@ \/ (draws /\ P!Layer' = "reset"))]
               /\ sched' = [dirty |-> dirty /\ ~draws, rendered |-> sched.rendered \/ draws,
                            evaluated |-> IF due THEN 0 ELSE sched.evaluated,
                            presented |-> IF draws THEN 0 ELSE sched.presented]
               /\ drawn' = [count |-> gesture, hint |-> hint',
                            power |-> IF rests THEN drawn.power ELSE mode.power,
                            version |-> IF draws THEN shown'.version ELSE drawn.version]
  BY DEF P!Turn
<1> DEFINE rests == splash \/ mode.safe
           dirty == \/ sched.dirty \/ P!CountdownMoved \/ mode.splash \/ leaves
                    \/ ~rests /\ P!Stirs(moved, expired)
           draws == P!DrawsNow(dirty)
           due == ~sched.rendered \/ sched.evaluated >= Interval
           age == IF rests THEN move.age ELSE P!Begun(moved)
           blends == P!TransitionRunning(age) /\ ~(mode.notice \/ gesture # Nothing \/ hint')
           owner == IF panel'.layer = P!Layer' THEN 0 ELSE fact.owner
           wrong == IF draws THEN 0 ELSE fact.wrong
           silent == fact.silent /\ ~draws
           asked == (fact.asked \/ P!Stirred(leaves)) /\ ~draws
           seen == gesture # Nothing /\ (fact.seen \/ (draws /\ P!Layer' = "reset"))
<1>3. /\ splash => mode.splash
      /\ mode.safe => ~expired
      /\ mode' = [mode EXCEPT !.splash = splash, !.alert = @ /\ ~expired, !.menu = @ /\ ~leaves]
      /\ panel' = IF draws THEN [P!Wanted' EXCEPT !.blend = blends] ELSE panel
      /\ fact' = [fact EXCEPT !.owner = owner, !.wrong = wrong, !.silent = silent,
                              !.asked = asked, !.seen = seen]
      /\ sched' = [dirty |-> dirty /\ ~draws, rendered |-> sched.rendered \/ draws,
                   evaluated |-> IF due THEN 0 ELSE sched.evaluated,
                   presented |-> IF draws THEN 0 ELSE sched.presented]
      /\ drawn'.count = gesture /\ drawn'.hint = hint'
  BY <1>2
<1>4. /\ waited \in Nat /\ hint \in BOOLEAN
      /\ sched \in [dirty : BOOLEAN, rendered : BOOLEAN, evaluated : 0 .. Interval,
                    presented : 0 .. Refresh]
      /\ gesture \in 0 .. Countdown \cup {Nothing} /\ mode \in Modes
      /\ fact \in [owner : Nat, wrong : Nat, silent : BOOLEAN, seen : BOOLEAN, asked : BOOLEAN]
  BY Paces DEF PanelInv, PanelTyped
<1>5. mode' \in Modes /\ mode'.safe = mode.safe /\ hint' \in BOOLEAN
  BY <1>1, <1>3, <1>4 DEF Modes
<1>6. owner \in Nat /\ wrong \in Nat /\ silent \in BOOLEAN /\ asked \in BOOLEAN /\ seen \in BOOLEAN
  <2> HIDE DEF draws
  <2> QED
    BY <1>4
(* Not due, nothing to draw, or drawn. *)
<1>7. draws <=> due /\ (dirty \/ sched.presented >= Refresh)
  BY DEF P!DrawsNow
<1>8. ~dirty => /\ ~sched.dirty /\ gesture = drawn.count /\ hint' = drawn.hint /\ ~mode.splash
                /\ ~leaves /\ ~splash /\ (mode.safe \/ ~P!Stirs(moved, expired))
  BY <1>3 DEF P!CountdownMoved
<1>9. draws => panel'.layer = P!Layer'
  <2> SUFFICES ASSUME draws PROVE panel'.layer = P!Layer'
    OBVIOUS
  <2> HIDE DEF draws, blends
  <2>1. panel' = [P!Wanted' EXCEPT !.blend = blends]
    BY <1>3
  <2>2. P!Wanted'.layer = P!Layer' /\ panel'.layer = P!Wanted'.layer
    BY <2>1 DEF P!Wanted
  <2> QED
    BY <2>2
<1>10. gesture # Nothing /\ ~mode.safe => P!Layer' = "reset"
  <2>1. P!Claims'.reset = (gesture' # Nothing) /\ P!Claims'.safe = mode'.safe
    BY DEF P!Claims
  <2>2. P!Layer' = Showing(P!Claims')
    BY LayerIsShown DEF P!Layer, Showing
  <2> SUFFICES ASSUME gesture # Nothing, ~mode.safe PROVE Showing(P!Claims') = "reset"
    BY <2>2
  <2> DEFINE claims == P!Claims'
  <2>3. claims.reset /\ ~claims.safe
    BY <1>1, <1>5, <2>1
  <2> HIDE DEF claims
  <2>4. Showing(claims) = "reset"
    BY <2>3, ResetIsNext
  <2> QED
    BY <2>4 DEF claims
<1>11. P!Layer' = Showing(AsDrawn')
  <2>1. P!Claims' = AsDrawn'
    BY <1>1, <1>3 DEF P!Claims, AsDrawn
  <2> QED
    BY <2>1 DEF P!Layer, Showing
<1>12. ASSUME ~dirty PROVE Showing(AsDrawn) = P!Layer'
  <2>1. CASE ~expired
    <3>1. mode'.safe = mode.safe /\ mode'.alert = mode.alert /\ mode'.menu = mode.menu /\ mode'.splash = mode.splash
          /\ mode'.notice = mode.notice /\ mode'.power = mode.power
      BY <1>3, <1>4, <1>5, <1>8, <1>12, <2>1 DEF Modes
    <3>2. AsDrawn' = AsDrawn
      BY <1>3, <1>8, <1>12, <3>1 DEF AsDrawn
    <3> QED
      BY <1>11, <3>2
  <2>2. CASE expired
    <3>1. ~mode'.power
      BY <1>3, <1>8, <1>12, <2>2 DEF P!Stirs, P!Redraws
    <3>2. mode'.power = mode.power /\ mode'.menu = mode.menu /\ mode'.notice = mode.notice
      BY <1>3, <1>4, <1>8, <1>12 DEF Modes
    <3>3. /\ AsDrawn.dark /\ AsDrawn'.dark = AsDrawn.dark /\ AsDrawn'.safe = AsDrawn.safe
          /\ AsDrawn'.reset = AsDrawn.reset
          /\ AsDrawn'.setup = AsDrawn.setup /\ AsDrawn'.notice = AsDrawn.notice
          /\ AsDrawn'.menu = AsDrawn.menu
      BY <1>3, <1>5, <1>8, <1>12, <3>1, <3>2 DEF AsDrawn
    <3>4. Showing(AsDrawn) = Showing(AsDrawn')
      BY <3>3, DarkHidesMessages
    <3> QED
      BY <1>11, <3>4
  <2> QED
    BY <2>1, <2>2
<1> HIDE DEF dirty, draws, blends, owner, wrong, silent, asked, seen
<1>13. /\ sched'.dirty = (dirty /\ ~draws) /\ sched'.rendered = (sched.rendered \/ draws)
       /\ sched'.evaluated = IF due THEN 0 ELSE sched.evaluated
       /\ sched'.presented = IF draws THEN 0 ELSE sched.presented
  BY <1>3
<1>14. /\ fact' \in [owner : Nat, wrong : Nat, silent : BOOLEAN, seen : BOOLEAN,
                     asked : BOOLEAN]
       /\ fact'.owner = owner /\ fact'.wrong = wrong /\ fact'.silent = silent
       /\ fact'.seen = seen
  BY <1>3, <1>4, <1>6
<1>15. PanelTyped'
  <2>1. sched' \in [dirty : BOOLEAN, rendered : BOOLEAN, evaluated : 0 .. Interval,
                    presented : 0 .. Refresh]
    <3> DEFINE e == IF due THEN 0 ELSE sched.evaluated
               p == IF draws THEN 0 ELSE sched.presented
    <3>1. e \in 0 .. Interval /\ p \in 0 .. Refresh
      BY <1>4, Paces
    <3>2. (dirty /\ ~draws) \in BOOLEAN /\ (sched.rendered \/ draws) \in BOOLEAN
      OBVIOUS
    <3>3. sched' = [dirty |-> dirty /\ ~draws, rendered |-> sched.rendered \/ draws,
                    evaluated |-> e, presented |-> p]
      BY <1>3
    <3> HIDE DEF e, p
    <3> QED
      BY <3>1, <3>2, <3>3
  <2>2. waited' \in 0 .. Late
    BY <1>1, Paces
  <2> QED
    BY <1>1, <1>4, <1>5, <1>14, <2>1, <2>2 DEF PanelTyped
(* Due and not drawn: the scheduler had nothing to draw, and knew of the   *)
(* countdown there is.                                                     *)
<1>16. due /\ ~draws => ~dirty /\ sched.rendered /\ sched.presented < Refresh
  <2>1. ~sched.rendered => dirty
    BY DEF dirty, PanelInv, PanelKeepsUp
  <2>2. sched.presented \in Nat /\ Refresh \in Nat
    BY <1>4, Paces
  <2> QED
    BY <1>7, <2>1, <2>2
<1>17. ~dirty /\ ~draws => (gesture # Nothing => Seen) /\ (~fact.silent => owner = 0)
  <2> SUFFICES ASSUME ~dirty, ~draws
               PROVE  (gesture # Nothing => Seen) /\ (~fact.silent => owner = 0)
    OBVIOUS
  <2>1. gesture # Nothing => Seen
    BY <1>8 DEF PanelInv, PanelKeepsUp
  <2>2. sched.rendered
    BY <1>8 DEF PanelInv, PanelKeepsUp
  <2>3. ~fact.silent => panel.layer = Showing(AsDrawn)
    BY <1>8, <2>2 DEF PanelInv, PanelKeepsUp
  <2>4. panel' = panel
    BY <1>3
  <2> QED
    BY <1>12, <2>1, <2>3, <2>4 DEF owner
<1>18. ~sched'.rendered => sched'.dirty
  BY <1>13 DEF PanelInv, PanelKeepsUp, dirty
<1>19. sched'.rendered /\ ~sched'.dirty /\ ~fact'.silent => panel'.layer = Showing(AsDrawn')
  <2>1. CASE draws
    BY <1>9, <1>11, <2>1
  <2>2. CASE ~draws
    <3> SUFFICES ASSUME sched'.rendered, ~sched'.dirty, ~fact'.silent
                 PROVE  panel'.layer = Showing(AsDrawn')
      OBVIOUS
    <3>1. ~dirty /\ sched.rendered /\ ~fact.silent /\ panel' = panel
      BY <1>3, <1>13, <1>14, <2>2 DEF silent
    <3>2. panel.layer = Showing(AsDrawn)
      BY <1>8, <3>1 DEF PanelInv, PanelKeepsUp
    <3> QED
      BY <1>11, <1>12, <3>1, <3>2
  <2> QED
    BY <2>1, <2>2
<1>20. ASSUME ~due PROVE sched'.evaluated = sched.evaluated /\ sched.evaluated < Interval /\ ~draws
  BY <1>4, <1>7, <1>13, <1>20, Paces
<1>21. Since(0, sched'.evaluated, 0) /\ sched'.evaluated \in Nat
  BY <1>4, <1>13, Paces DEF Since
<1>22. ~fact'.silent => Since(fact'.owner, sched'.evaluated, 0)
  <2> SUFFICES ASSUME ~fact'.silent PROVE Since(owner, sched'.evaluated, 0)
    BY <1>14
  <2>1. CASE draws
    BY <1>9, <1>21, <2>1 DEF owner
  <2>2. CASE ~draws /\ due
    BY <1>14, <1>16, <1>17, <1>21, <2>2 DEF silent
  <2>3. CASE ~due
    <3>1. ~fact.silent /\ Since(fact.owner, sched.evaluated, waited)
      BY <1>14, <1>20, <2>3 DEF PanelInv, PanelKeepsUp, silent
    <3>2. Since(fact.owner, sched.evaluated, 0)
      BY <1>20, <2>3, <3>1 DEF Since
    <3> QED
      BY <1>20, <1>21, <2>3, <3>2 DEF owner
  <2> QED
    BY <2>1, <2>2, <2>3
<1>23. gesture' # Nothing /\ ~Seen' => Since(gesture', sched'.evaluated, 0)
  <2> SUFFICES ASSUME gesture # Nothing, ~Seen' PROVE Since(gesture, sched'.evaluated, 0)
    BY <1>1
  <2>1. ~Seen /\ ~draws
    BY <1>5, <1>10, <1>14 DEF seen, Seen
  <2>2. ~due
    BY <1>16, <1>17, <2>1
  <2>3. Since(gesture, sched.evaluated, waited)
    BY <2>1 DEF PanelInv, PanelKeepsUp
  <2> QED
    BY <1>20, <2>2, <2>3 DEF Since
<1>24. ~sched'.dirty /\ drawn'.count # Nothing => Seen'
  <2> SUFFICES ASSUME ~sched'.dirty, gesture # Nothing PROVE Seen'
    BY <1>3
  <2> QED
    BY <1>5, <1>10, <1>13, <1>14, <1>17 DEF seen, Seen
<1>25. sched'.presented < Refresh => fact'.wrong <= sched'.presented
  BY <1>13, <1>14, Paces DEF PanelInv, PanelKeepsUp, wrong
<1>26. Since(fact'.wrong - Refresh, sched'.evaluated, 0)
  <2>1. CASE draws
    BY <1>14, <1>21, <2>1, Paces DEF wrong, Since
  <2>2. CASE ~draws /\ due
    <3>1. fact.wrong <= sched.presented /\ sched.presented < Refresh
      BY <1>16, <2>2 DEF PanelInv, PanelKeepsUp
    <3> QED
      BY <1>4, <1>14, <1>21, <2>2, <3>1, Paces DEF wrong, Since
  <2>3. CASE ~due
    <3>1. Since(fact.wrong - Refresh, sched.evaluated, waited)
      BY DEF PanelInv, PanelKeepsUp
    <3> QED
      BY <1>14, <1>20, <2>3, <3>1 DEF Since, wrong
  <2> QED
    BY <2>1, <2>2, <2>3
<1>27. PanelKeepsUp'
  BY <1>1, <1>18, <1>19, <1>22, <1>23, <1>24, <1>25, <1>26 DEF PanelKeepsUp, Showing, Since
<1> QED
  BY <1>15, <1>27 DEF PanelInv

LEMMA PanelInitially == P!Init => PanelInv
<1> SUFFICES ASSUME P!Init PROVE PanelInv
  OBVIOUS
<1>1. /\ waited = 0 /\ gesture = Nothing /\ hint = FALSE
      /\ sched = [dirty |-> TRUE, rendered |-> FALSE, evaluated |-> 0, presented |-> 0]
      /\ fact = [owner |-> 0, wrong |-> 0, silent |-> FALSE, seen |-> FALSE, asked |-> TRUE]
  BY DEF P!Init
<1>2. mode \in Modes
  BY DEF P!Init, Modes
<1>5. /\ sched.dirty = TRUE /\ sched.rendered = FALSE
      /\ sched.evaluated = 0 /\ sched.presented = 0
  BY <1>1
<1>6. 0 \in 0 .. Late /\ 0 \in 0 .. Interval /\ 0 \in 0 .. Refresh
  BY Paces
<1>7. sched \in [dirty : BOOLEAN, rendered : BOOLEAN, evaluated : 0 .. Interval,
                 presented : 0 .. Refresh]
  BY <1>1, <1>6
<1>8. fact \in [owner : Nat, wrong : Nat, silent : BOOLEAN, seen : BOOLEAN, asked : BOOLEAN]
  BY <1>1
<1>3. PanelTyped
  BY <1>1, <1>2, <1>6, <1>7, <1>8 DEF PanelTyped
<1>4. PanelKeepsUp
  BY <1>1, Paces DEF PanelKeepsUp, Since
<1> QED
  BY <1>3, <1>4 DEF PanelInv

LEMMA PanelSteps ==
  ASSUME PanelInv, [P!Next]_(P!vars)
  PROVE  PanelInv'
<1>1. CASE UNCHANGED P!vars
  <2>1. /\ waited' = waited /\ sched' = sched /\ gesture' = gesture /\ hint' = hint
        /\ drawn' = drawn /\ mode' = mode /\ panel' = panel /\ fact' = fact
    BY <1>1 DEF P!vars
  <2> QED
    BY <2>1 DEF PanelInv, PanelTyped, PanelKeepsUp, AsDrawn, Showing, Seen, Since
<1> QED
  BY <1>1, ElapseKeeps, OutsideKeeps, InputKeeps, TurnKeeps DEF P!Next

LEMMA PanelInvHolds == P!Spec => []PanelInv
<1>1. PanelInv /\ [P!Next]_(P!vars) => PanelInv'
  BY PanelSteps
<1> QED
  BY <1>1, PanelInitially, PTL DEF P!Spec

(* The panel belongs to whom it should within a frame and a turn, at the   *)
(* next refresh if nobody said so, in safe mode as well; and outside safe  *)
(* mode, whose screen stays, no countdown clears a password that nobody    *)
(* could see (FrameScheduler::beginFrame, ApplicationHost::tick): whatever *)
(* the intervals, and however often the controls, HTTP, MQTT and the       *)
(* hotspot change what there is to show.                                   *)
THEOREM ThePanelIsInTime == P!Spec => []PanelIsPrompt
<1>1. PanelInv => PanelIsPrompt
  <2> SUFFICES ASSUME PanelInv
               PROVE  P!CountdownIsSeen /\ P!OwnerIsPrompt /\ P!WrongIsHealed
    BY DEF PanelIsPrompt, P!PanelIsPrompt
  <2>1. /\ waited \in 0 .. Late /\ sched.evaluated \in 0 .. Interval
        /\ fact.owner \in Nat /\ fact.wrong \in Nat
    BY DEF PanelInv, PanelTyped
  <2>2. P!CountdownIsSeen
    BY <2>1, Paces DEF P!CountdownIsSeen, PanelInv, PanelKeepsUp, Seen, Since
  <2>3. P!OwnerIsPrompt
    BY <2>1, Paces DEF P!OwnerIsPrompt, P!Prompt, PanelInv, PanelKeepsUp, Since
  <2>4. P!WrongIsHealed
    BY <2>1, Paces DEF P!WrongIsHealed, P!Healed, PanelInv, PanelKeepsUp, Since
  <2> QED
    BY <2>2, <2>3, <2>4
<1> QED
  BY <1>1, PanelInvHolds, PTL
=============================================================================
