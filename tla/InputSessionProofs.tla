-------------------------- MODULE InputSessionProofs --------------------------
(***************************************************************************)
(* Proofs about InputSession, for any pads, players and controls: no two   *)
(* pads drive one presenter, the escape latch lasts exactly as long as the *)
(* hold that set it, a presenter that is not driven and a keyboard that is *)
(* not routed to are at rest, and whatever is down is held by a pad.       *)
(*                                                                         *)
(* None is inductive alone.  That slots stay distinct needs that a slot    *)
(* given by a poll is free once the pads that left are retired.  That the  *)
(* latch is held needs that only claimed pads are watched (GuideIsClaimed) *)
(* and that the latch stands from an escape to the release (LatchIsEscape).*)
(* What a presenter shows must be known to be held by its pad (Driven) and *)
(* be down there (Backed); what the keyboard shows must be held in a map,  *)
(* by a latch or a button that the pad has down (KeymapInv), unless a      *)
(* repeat pressed it astray.                                               *)
(***************************************************************************)
EXTENDS InputSession, TLAPS

SlotType == slot \in [Pads -> Slots \cup {NoSlot}]

GuideType ==
  /\ guide \in [Pads -> {"up", "down", "fired"}]
  /\ latched \in BOOLEAN /\ escaped \in BOOLEAN

GuideIsClaimed == \A p \in Pads : guide[p] # "up" => slot[p] # NoSlot
LatchIsGuide   == latched => \E p \in Pads : guide[p] # "up"
LatchIsEscape  == latched = escaped

SlotInv  == SlotType /\ SlotsAreDistinct
GuideInv == SlotType /\ GuideType /\ GuideIsClaimed /\ LatchIsGuide /\ LatchIsEscape

-----------------------------------------------------------------------------
(* What a poll gives is a free slot to each pad, and to no two the same    *)
(* (fleet.rs, admit).                                                      *)
LEMMA AdmissionsAreFree ==
  ASSUME NEW opened, NEW free, NEW given \in Admissions(opened, free)
  PROVE  /\ DOMAIN given \subseteq opened
         /\ given \in [DOMAIN given -> free]
         /\ \A p, q \in DOMAIN given : given[p] = given[q] => p = q
<1>. DEFINE n == IF Cardinality(opened) <= Cardinality(free)
                 THEN Cardinality(opened) ELSE Cardinality(free)
            lowest == {s \in free : Cardinality({t \in free : t < s}) < n}
            Given(admitted) == {f \in [admitted -> lowest] :
                                  \A p, q \in admitted : f[p] = f[q] => p = q}
<1>1. given \in UNION {Given(admitted) :
                      admitted \in {a \in SUBSET opened : Cardinality(a) = n}}
  BY DEF Admissions
<1>2. PICK admitted \in SUBSET opened : given \in Given(admitted)
  BY <1>1
<1>3. DOMAIN given = admitted /\ given \in [admitted -> lowest]
  BY <1>2
<1>4. lowest \subseteq free
  OBVIOUS
<1>. QED BY <1>2, <1>3, <1>4

(* A poll changes slots only so: those of the pads that left are free, the *)
(* free ones are given out (session.rs, poll).                             *)
LEMMA PollSlots ==
  ASSUME SlotInv, Poll
  PROVE  SlotInv'
<1>. DEFINE gone == Fleet \ plugged
            free == Slots \ {slot[p] : p \in Fleet \ gone}
<1>1. PICK opened \in SUBSET (plugged \ Fleet) :
        \E given \in Admissions(opened, free) :
          slot' = [p \in Pads |-> IF p \in gone THEN NoSlot
                                  ELSE IF p \in DOMAIN given THEN given[p]
                                  ELSE slot[p]]
  BY DEF Poll
<1>2. PICK given \in Admissions(opened, free) :
        slot' = [p \in Pads |-> IF p \in gone THEN NoSlot
                                ELSE IF p \in DOMAIN given THEN given[p]
                                ELSE slot[p]]
  BY <1>1
<1>3. /\ DOMAIN given \subseteq opened
      /\ \A p \in DOMAIN given : given[p] \in free
      /\ \A p, q \in DOMAIN given : given[p] = given[q] => p = q
  BY AdmissionsAreFree
<1>4. \A p \in DOMAIN given : p \notin Fleet
  BY <1>3
<1>5. SlotType'
  BY <1>2, <1>3 DEF SlotType, SlotInv
<1>6. ASSUME NEW p \in Pads, NEW q \in Pads, slot'[p] = slot'[q], slot'[p] # NoSlot
      PROVE  p = q
  <2>1. p \notin gone /\ q \notin gone
    BY <1>2, <1>6
  <2>2. CASE p \in DOMAIN given /\ q \in DOMAIN given
    BY <1>2, <1>3, <1>6, <2>1, <2>2
  <2>3. CASE p \in DOMAIN given /\ q \notin DOMAIN given
    BY <1>2, <1>3, <1>6, <2>1, <2>3 DEF Fleet, SlotInv, SlotType
  <2>4. CASE p \notin DOMAIN given /\ q \in DOMAIN given
    BY <1>2, <1>3, <1>6, <2>1, <2>4 DEF Fleet, SlotInv, SlotType
  <2>5. CASE p \notin DOMAIN given /\ q \notin DOMAIN given
    BY <1>2, <1>6, <2>1, <2>5 DEF SlotInv, SlotsAreDistinct
  <2>. QED BY <2>2, <2>3, <2>4, <2>5
<1>7. SlotsAreDistinct'
  BY <1>6 DEF SlotsAreDistinct
<1>. QED BY <1>5, <1>7 DEF SlotInv

(* The steps that leave every slot alone. *)
LEMMA SlotsUnchanged ==
  ASSUME SlotInv, UNCHANGED slot
  PROVE  SlotInv'
BY DEF SlotInv, SlotType, SlotsAreDistinct

(* Every step keeps the slots distinct. *)
LEMMA SlotStep ==
  ASSUME SlotInv, [Next]_vars
  PROVE  SlotInv'
<1>1. CASE UNCHANGED vars
  BY <1>1, SlotsUnchanged DEF vars
<1>2. CASE Poll
  BY <1>2, PollSlots
<1>3. CASE Shutdown
  BY <1>3 DEF Shutdown, SlotInv, SlotType, SlotsAreDistinct
<1>4. ASSUME NEW p \in Pads, StreamError(p)
      PROVE  SlotInv'
  BY <1>4 DEF StreamError, SlotInv, SlotType, SlotsAreDistinct
<1>5. ASSUME NEW p \in Pads,
             \/ Plug(p) \/ Unplug(p) \/ Unheard(p)
             \/ GuidePress(p) \/ GuideRelease(p) \/ GuideUnheard(p)
             \/ \E c \in Controls[p] : Button(p, c) \/ Axis(p, c)
      PROVE  UNCHANGED slot
  BY <1>5 DEF Plug, Unplug, Unheard, GuidePress, GuideRelease, GuideUnheard,
              Button, Axis, fleetVars
<1>6. CASE Tick
  BY <1>6, SlotsUnchanged DEF Tick, fleetVars
<1>7. ASSUME NEW to \in Owners, SetOwner(to)
      PROVE  SlotInv'
  BY <1>7, SlotsUnchanged DEF SetOwner, fleetVars
<1>. QED
  BY <1>1, <1>2, <1>3, <1>4, <1>5, <1>6, <1>7, SlotsUnchanged DEF Next

(* No two pads ever drive the same presenter, however many pads and        *)
(* players there are.                                                      *)
THEOREM SlotsDistinct == Spec => []SlotsAreDistinct
<1>1. Init => SlotInv
  BY DEF Init, SlotInv, SlotType, SlotsAreDistinct
<1>2. SlotInv /\ [Next]_vars => SlotInv'
  BY SlotStep
<1>3. SlotInv => SlotsAreDistinct
  BY DEF SlotInv
<1>. QED BY <1>1, <1>2, <1>3, PTL DEF Spec

-----------------------------------------------------------------------------
(* Retiring pads leaves the latch to the holds that remain (session.rs,    *)
(* retire).                                                                *)
LEMMA RetireGuides ==
  ASSUME GuideInv, NEW gone, Retire(gone)
  PROVE  /\ guide' = [p \in Pads |-> IF p \in gone THEN "up" ELSE guide[p]]
         /\ GuideType' /\ LatchIsGuide' /\ LatchIsEscape'
<1>1. guide' = [p \in Pads |-> IF p \in gone THEN "up" ELSE guide[p]]
  BY DEF Retire, GuidesWithout
<1>2. ClearLatch(guide')
  BY DEF Retire
<1>3. GuideType' /\ LatchIsGuide'
  BY <1>1, <1>2 DEF ClearLatch, GuideInv, GuideType, LatchIsGuide
<1>4. LatchIsEscape'
  BY <1>2 DEF ClearLatch, GuideInv, LatchIsEscape
<1>. QED BY <1>1, <1>3, <1>4

(* The steps that touch no Guide. *)
LEMMA GuideUnchanged ==
  ASSUME GuideInv, UNCHANGED slot, UNCHANGED escapeVars
  PROVE  GuideInv'
BY DEF GuideInv, SlotType, GuideType, GuideIsClaimed, LatchIsGuide,
       LatchIsEscape, escapeVars

(* Every step keeps the latch to the hold that set it. *)
LEMMA GuideStep ==
  ASSUME SlotInv, GuideInv, [Next]_vars
  PROVE  GuideInv'
<1>0. SlotType'
  BY SlotStep DEF SlotInv
<1>1. CASE UNCHANGED vars
  BY <1>1, GuideUnchanged DEF vars, escapeVars
<1>2. CASE Poll
  <2>. DEFINE gone == Fleet \ plugged
              free == Slots \ {slot[p] : p \in Fleet \ gone}
  <2>1. Retire(gone)
    BY <1>2 DEF Poll
  <2>2. PICK opened \in SUBSET (plugged \ Fleet) :
          \E given \in Admissions(opened, free) :
            slot' = [p \in Pads |-> IF p \in gone THEN NoSlot
                                    ELSE IF p \in DOMAIN given THEN given[p]
                                    ELSE slot[p]]
    BY <1>2 DEF Poll
  <2>3. PICK given \in Admissions(opened, free) :
          slot' = [p \in Pads |-> IF p \in gone THEN NoSlot
                                  ELSE IF p \in DOMAIN given THEN given[p]
                                  ELSE slot[p]]
    BY <2>2
  <2>4. \A p \in DOMAIN given : p \notin Fleet
    BY AdmissionsAreFree
  <2>5. \A p \in Pads : guide[p] # "up" => p \in Fleet
    BY DEF GuideInv, GuideIsClaimed, Fleet
  <2>6. guide' = [p \in Pads |-> IF p \in gone THEN "up" ELSE guide[p]]
    BY <2>1, RetireGuides
  <2>7. \A p \in Pads : guide'[p] # "up" => slot'[p] = slot[p]
    BY <2>3, <2>4, <2>5, <2>6
  <2>8. GuideIsClaimed'
    BY <2>5, <2>6, <2>7 DEF GuideIsClaimed, Fleet
  <2>. QED BY <1>0, <2>1, <2>8, RetireGuides DEF GuideInv
<1>3. CASE Shutdown
  <2>1. Retire(Fleet)
    BY <1>3 DEF Shutdown
  <2>2. \A p \in Pads : guide'[p] = "up"
    BY <2>1, RetireGuides DEF GuideInv, GuideIsClaimed, Fleet
  <2>. QED BY <1>0, <2>1, <2>2, RetireGuides DEF GuideInv, GuideIsClaimed
<1>4. ASSUME NEW p \in Pads, StreamError(p)
      PROVE  GuideInv'
  <2>1. Retire({p}) /\ slot' = [slot EXCEPT ![p] = NoSlot]
    BY <1>4 DEF StreamError
  <2>2. GuideIsClaimed'
    BY <2>1, RetireGuides DEF GuideInv, GuideIsClaimed, SlotType
  <2>. QED BY <1>0, <2>1, <2>2, RetireGuides DEF GuideInv
<1>5. ASSUME NEW p \in Pads, GuidePress(p)
      PROVE  GuideInv'
  BY <1>0, <1>5 DEF GuidePress, Readable, Fleet, fleetVars, GuideInv, SlotType,
    GuideType, GuideIsClaimed, LatchIsGuide, LatchIsEscape
<1>6. ASSUME NEW p \in Pads, GuideRelease(p)
      PROVE  GuideInv'
  <2>1. /\ guide' = [guide EXCEPT ![p] = "up"]
        /\ ClearLatch(guide') /\ slot' = slot
    BY <1>6 DEF GuideRelease, fleetVars
  <2>2. GuideType' /\ LatchIsGuide' /\ GuideIsClaimed'
    BY <2>1 DEF ClearLatch, GuideInv, GuideType, GuideIsClaimed, LatchIsGuide
  <2>3. LatchIsEscape'
    BY <2>1 DEF ClearLatch, GuideInv, LatchIsEscape
  <2>. QED BY <1>0, <2>2, <2>3 DEF GuideInv
<1>7. CASE Tick
  <2>1. PICK due \in SUBSET Holding :
          /\ guide' = [p \in Pads |-> IF p \in due THEN "fired" ELSE guide[p]]
          /\ latched' = (latched \/ due # {})
          /\ escaped' = (escaped \/ Fires(due))
    BY <1>7 DEF Tick
  <2>2. slot' = slot
    BY <1>7 DEF Tick, fleetVars
  <2>3. GuideType' /\ GuideIsClaimed'
    BY <2>1, <2>2 DEF GuideInv, GuideType, GuideIsClaimed, Holding, Fleet
  <2>4. LatchIsGuide'
    BY <2>1 DEF GuideInv, GuideType, LatchIsGuide, Holding, Fleet
  <2>5. LatchIsEscape'
    BY <2>1 DEF GuideInv, LatchIsEscape, Fires
  <2>. QED BY <1>0, <2>3, <2>4, <2>5 DEF GuideInv
<1>8. ASSUME NEW p \in Pads,
             \/ Plug(p) \/ Unplug(p) \/ Unheard(p) \/ GuideUnheard(p)
             \/ \E c \in Controls[p] : Button(p, c) \/ Axis(p, c)
      PROVE  GuideInv'
  <2>1. UNCHANGED slot /\ UNCHANGED escapeVars
    BY <1>8 DEF Plug, Unplug, Unheard, GuideUnheard, Button, Axis, fleetVars
  <2>. QED BY <2>1, GuideUnchanged
<1>9. ASSUME NEW to \in Owners, SetOwner(to)
      PROVE  GuideInv'
  BY <1>9, GuideUnchanged DEF SetOwner, fleetVars
<1>. QED
  BY <1>1, <1>2, <1>3, <1>4, <1>5, <1>6, <1>7, <1>8, <1>9 DEF Next

(* The two invariants hold in every reachable state. *)
LEMMA Invariants == Spec => [](SlotInv /\ GuideInv)
<1>1. Init => SlotInv /\ GuideInv
  BY DEF Init, SlotInv, GuideInv, SlotType, SlotsAreDistinct, GuideType,
         GuideIsClaimed, LatchIsGuide, LatchIsEscape
<1>2. SlotInv /\ GuideInv /\ [Next]_vars => (SlotInv /\ GuideInv)'
  BY SlotStep, GuideStep
<1>. QED BY <1>1, <1>2, PTL DEF Spec

(* The latch never outlives the hold that set it: the next hold of any pad *)
(* can escape, even after a pad was unplugged in the middle of one.        *)
THEOREM LatchHeld == Spec => []LatchIsHeld
<1>1. GuideInv => LatchIsHeld
  BY DEF GuideInv, LatchIsGuide, GuideIsClaimed, LatchIsHeld, Fleet
<1>. QED BY <1>1, Invariants, PTL

(* Pads that hold Guide together escape once. *)
THEOREM EscapeOnce == Spec => EscapeOncePerGesture
<1>1. GuideInv /\ [Next]_vars =>
        [\A p \in Pads : guide[p] = "down" /\ guide'[p] = "fired" =>
           ~(escaped /\ ~latched)]_vars
  BY DEF GuideInv, LatchIsEscape
<1>. QED BY <1>1, Invariants, PTL DEF Spec, EscapeOncePerGesture
-----------------------------------------------------------------------------
(* Presenters *)

PresenterType ==
  /\ heldKeys \in [Pads -> SUBSET Buttons]
  /\ presenter \in [Slots -> [keys : SUBSET Buttons, axes : SUBSET Axes]]

\* What a presenter shows is some pad's, and its keys are known to be.
DrivenBy(s, p) ==
  slot[p] = s /\ p \in Fleet /\ presenter[s].keys \subseteq heldKeys[p]

Driven ==
  \A s \in Slots : presenter[s] # Rest =>
    Route(owner) = "app" /\ \E p \in Pads : DrivenBy(s, p)

PresenterInv == PresenterType /\ Driven

(* Every button and axis is one the presenter can show.                    *)
LEMMA RestIsPresenter == Rest \in [keys : SUBSET Buttons, axes : SUBSET Axes]
BY DEF Rest

(* Once these pads are quiesced, the presenter of each is at rest and the  *)
(* others show what they did (session.rs, retire and quiesce_route).       *)
LEMMA QuiescedPresenters ==
  ASSUME SlotInv, PresenterInv, NEW gone \in SUBSET Fleet
  PROVE  /\ PresentersWithout(gone) \in
              [Slots -> [keys : SUBSET Buttons, axes : SUBSET Axes]]
         /\ \A s \in Slots : IF \E p \in gone : slot[p] = s
                             THEN PresentersWithout(gone)[s] = Rest
                             ELSE PresentersWithout(gone)[s] = presenter[s]
<1>. DEFINE heldBy(s) == UNION {heldKeys[p] : p \in {q \in gone : slot[q] = s}}
<1>0. gone \subseteq Pads
  BY DEF Fleet
<1>1. ASSUME NEW s \in Slots, \E p \in gone : slot[p] = s
      PROVE  PresentersWithout(gone)[s] = Rest
  <2>1. PICK p \in gone : slot[p] = s
    BY <1>1
  <2>2. presenter[s].keys \subseteq heldBy(s)
    <3>1. CASE presenter[s] = Rest
      BY <3>1 DEF Rest
    <3>2. CASE presenter[s] # Rest
      <4>1. PICK q \in Pads : DrivenBy(s, q)
        BY <3>2 DEF PresenterInv, Driven
      <4>2. q = p
        BY <1>0, <2>1, <4>1 DEF DrivenBy, SlotInv, SlotsAreDistinct, Fleet
      <4>. QED BY <2>1, <4>1, <4>2 DEF DrivenBy
    <3>. QED BY <3>1, <3>2
  <2>3. PresentersWithout(gone)[s] = [keys |-> presenter[s].keys \ heldBy(s), axes |-> {}]
    BY <1>1 DEF PresentersWithout
  <2>4. presenter[s].keys \ heldBy(s) = {}
    BY <2>2
  <2>. QED BY <2>3, <2>4 DEF Rest
<1>2. ASSUME NEW s \in Slots, ~ \E p \in gone : slot[p] = s
      PROVE  PresentersWithout(gone)[s] = presenter[s]
  BY <1>2 DEF PresentersWithout
<1>3. \A s \in Slots :
        PresentersWithout(gone)[s] \in [keys : SUBSET Buttons, axes : SUBSET Axes]
  BY <1>1, <1>2, RestIsPresenter DEF PresenterInv, PresenterType
<1>4. PresentersWithout(gone) = [s \in Slots |-> PresentersWithout(gone)[s]]
  BY DEF PresentersWithout
<1>. QED BY <1>1, <1>2, <1>3, <1>4

(* Pads retired while the rest keep their slots.                           *)
LEMMA RetirePresenters ==
  ASSUME SlotInv, PresenterInv, NEW gone \in SUBSET Fleet, Retire(gone),
         owner' = owner,
         \A p \in Fleet \ gone : slot'[p] = slot[p]
  PROVE  PresenterInv'
<1>1. /\ presenter' = PresentersWithout(gone)
      /\ heldKeys' = [p \in Pads |-> IF p \in gone THEN {} ELSE heldKeys[p]]
  BY DEF Retire
<1>2. PresenterType'
  BY <1>1, QuiescedPresenters DEF PresenterInv, PresenterType
<1>3. ASSUME NEW s \in Slots, presenter'[s] # Rest
      PROVE  Route(owner)' = "app" /\ \E p \in Pads : DrivenBy(s, p)'
  <2>1. /\ ~ \E p \in gone : slot[p] = s
        /\ presenter'[s] = presenter[s]
    BY <1>1, <1>3, QuiescedPresenters
  <2>2. /\ Route(owner) = "app"
        /\ \E p \in Pads : DrivenBy(s, p)
    BY <1>3, <2>1 DEF PresenterInv, Driven
  <2>3. PICK p \in Pads : DrivenBy(s, p)
    BY <2>2
  <2>4. p \in Fleet \ gone /\ slot'[p] = s
    BY <2>1, <2>3 DEF DrivenBy
  <2>5. p \in Fleet'
    BY <2>4 DEF Fleet, SlotInv, SlotType
  <2>6. heldKeys'[p] = heldKeys[p]
    BY <1>1, <2>4
  <2>7. DrivenBy(s, p)'
    BY <2>1, <2>3, <2>4, <2>5, <2>6 DEF DrivenBy
  <2>. QED BY <2>2, <2>7 DEF Route
<1>. QED BY <1>2, <1>3 DEF PresenterInv, Driven

(* The pads move and the presenters stay as they are. *)
LEMMA PresentersUnchanged ==
  ASSUME PresenterInv, UNCHANGED <<slot, owner, heldKeys, presenter>>
  PROVE  PresenterInv'
BY DEF PresenterInv, PresenterType, Driven, DrivenBy, Route, Fleet, Rest

(* A claimed pad's presenter shows no key it is not known to hold.         *)
LEMMA OwnPresenter ==
  ASSUME SlotInv, PresenterInv, NEW p \in Fleet
  PROVE  slot[p] \in Slots /\ presenter[slot[p]].keys \subseteq heldKeys[p]
<1>1. slot[p] \in Slots /\ p \in Pads
  BY DEF Fleet, SlotInv, SlotType
<1>2. CASE presenter[slot[p]] = Rest
  BY <1>1, <1>2 DEF Rest
<1>3. CASE presenter[slot[p]] # Rest
  <2>1. PICK q \in Pads : DrivenBy(slot[p], q)
    BY <1>1, <1>3 DEF PresenterInv, Driven
  <2>2. q = p
    BY <1>1, <2>1 DEF DrivenBy, SlotInv, SlotsAreDistinct, Fleet
  <2>. QED BY <1>1, <2>1, <2>2 DEF DrivenBy
<1>. QED BY <1>1, <1>2, <1>3

(* What a pad sends on the app route goes to its own presenter, and what   *)
(* it holds is noted first (session.rs, forward).                          *)
LEMMA ForwardPresenters ==
  ASSUME SlotInv, PresenterInv, NEW p \in Fleet, Route(owner) = "app",
         UNCHANGED <<slot, owner>>,
         NEW shown \in [keys : SUBSET Buttons, axes : SUBSET Axes],
         NEW holds \in SUBSET Buttons, shown.keys \subseteq holds,
         presenter' = [presenter EXCEPT ![slot[p]] = shown],
         heldKeys' = [heldKeys EXCEPT ![p] = holds]
  PROVE  PresenterInv'
<1>1. slot[p] \in Slots /\ p \in Pads
  BY OwnPresenter DEF Fleet
<1>2. PresenterType'
  BY <1>1 DEF PresenterInv, PresenterType
<1>3. ASSUME NEW s \in Slots, presenter'[s] # Rest
      PROVE  \E q \in Pads : DrivenBy(s, q)'
  <2>1. CASE s = slot[p]
    <3>1. presenter'[s] = shown /\ heldKeys'[p] = holds
      BY <1>1, <2>1 DEF PresenterInv, PresenterType
    <3>2. DrivenBy(s, p)'
      BY <1>1, <2>1, <3>1 DEF DrivenBy, Fleet
    <3>. QED BY <1>1, <3>2
  <2>2. CASE s # slot[p]
    <3>1. presenter'[s] = presenter[s]
      BY <1>1, <2>2 DEF PresenterInv, PresenterType
    <3>2. PICK q \in Pads : DrivenBy(s, q)
      BY <1>3, <3>1 DEF PresenterInv, Driven
    <3>3. q # p
      BY <2>2, <3>2 DEF DrivenBy
    <3>4. heldKeys'[q] = heldKeys[q]
      BY <1>1, <3>3 DEF PresenterInv, PresenterType
    <3>5. DrivenBy(s, q)'
      BY <3>1, <3>2, <3>4 DEF DrivenBy, Fleet
    <3>. QED BY <3>5
  <2>. QED BY <2>1, <2>2
<1>. QED BY <1>2, <1>3 DEF PresenterInv, Driven, Route

(* A presenter with its keys, or its axes, replaced.                       *)
LEMMA PresenterExcept ==
  ASSUME NEW r \in [keys : SUBSET Buttons, axes : SUBSET Axes], NEW x
  PROVE  /\ [r EXCEPT !.keys = x] = [keys |-> x, axes |-> r.axes]
         /\ [r EXCEPT !.axes = x] = [keys |-> r.keys, axes |-> x]
OBVIOUS

(* A button.                                                               *)
LEMMA ButtonPresenters ==
  ASSUME SlotInv, PresenterInv, NEW p \in Pads, NEW b, Button(p, b)
  PROVE  PresenterInv'
<1>1. p \in Fleet /\ b \in Buttons /\ UNCHANGED <<slot, owner>>
  BY DEF Button, Readable, fleetVars, routeVars
<1>2. CASE Route(owner) = "shell"
  <2>1. UNCHANGED appVars
    BY <1>2 DEF Button, ShellButton
  <2>. QED BY <1>1, <2>1, PresentersUnchanged DEF appVars
<1>3. CASE Route(owner) # "shell"
  <2>. DEFINE s == slot[p]
              down == position[p][b] = Centre
              after(set) == IF down THEN set \cup {b} ELSE set \ {b}
              shown == [keys |-> after(presenter[s].keys), axes |-> presenter[s].axes]
  <2>1. Route(owner) = "app"
    BY <1>3 DEF Route
  <2>2. s \in Slots /\ presenter[s].keys \subseteq heldKeys[p]
    BY <1>1, OwnPresenter
  <2>3. AppButton(p, b, down)
    BY <1>3 DEF Button
  <2>4. /\ presenter[s] \in [keys : SUBSET Buttons, axes : SUBSET Axes]
        /\ heldKeys[p] \in SUBSET Buttons
    BY <1>1, <2>2 DEF PresenterInv, PresenterType
  <2>5. heldKeys' = [heldKeys EXCEPT ![p] = after(heldKeys[p])]
    BY <2>3 DEF AppButton
  <2>6. presenter' = [presenter EXCEPT ![s] = shown]
    <3>1. presenter' = [presenter EXCEPT ![s] =
                          [presenter[s] EXCEPT !.keys = after(presenter[s].keys)]]
      BY <2>3 DEF AppButton
    <3>2. [presenter[s] EXCEPT !.keys = after(presenter[s].keys)] = shown
      BY <2>4, PresenterExcept
    <3>. QED BY <3>1, <3>2
  <2>7. /\ shown \in [keys : SUBSET Buttons, axes : SUBSET Axes]
        /\ after(heldKeys[p]) \in SUBSET Buttons
        /\ shown.keys \subseteq after(heldKeys[p])
    BY <1>1, <2>2, <2>4
  <2>. HIDE DEF shown, after
  <2>. QED BY <1>1, <2>1, <2>5, <2>6, <2>7, ForwardPresenters
<1>. QED BY <1>2, <1>3

(* An axis.                                                                *)
LEMMA AxisPresenters ==
  ASSUME SlotInv, PresenterInv, NEW p \in Pads, NEW a, Axis(p, a)
  PROVE  PresenterInv'
<1>1. p \in Fleet /\ a \in Axes /\ UNCHANGED <<slot, owner>>
  BY DEF Axis, Readable, fleetVars, routeVars
<1>2. CASE Route(owner) = "shell"
  <2>1. UNCHANGED appVars
    BY <1>2 DEF Axis, ShellAxis
  <2>. QED BY <1>1, <2>1, PresentersUnchanged DEF appVars
<1>3. CASE Route(owner) # "shell"
  <2>1. PICK dir \in Directions \cup {Centre} : AppAxis(p, a, dir)
    BY <1>3 DEF Axis
  <2>. DEFINE s == slot[p]
              shown == [keys |-> presenter[s].keys,
                        axes |-> IF dir # Centre THEN presenter[s].axes \cup {a}
                                 ELSE presenter[s].axes \ {a}]
  <2>2. Route(owner) = "app"
    BY <1>3 DEF Route
  <2>3. s \in Slots /\ presenter[s].keys \subseteq heldKeys[p]
    BY <1>1, OwnPresenter
  <2>4. /\ presenter[s] \in [keys : SUBSET Buttons, axes : SUBSET Axes]
        /\ heldKeys[p] \in SUBSET Buttons
    BY <1>1, <2>3 DEF PresenterInv, PresenterType
  <2>5. heldKeys' = [heldKeys EXCEPT ![p] = heldKeys[p]]
    BY <2>1 DEF AppAxis, PresenterInv, PresenterType
  <2>6. presenter' = [presenter EXCEPT ![s] = shown]
    <3>1. presenter' = [presenter EXCEPT ![s] =
                          [presenter[s] EXCEPT !.axes = shown.axes]]
      BY <2>1 DEF AppAxis
    <3>2. [presenter[s] EXCEPT !.axes = shown.axes] = shown
      BY <2>4, PresenterExcept
    <3>. QED BY <3>1, <3>2
  <2>7. /\ shown \in [keys : SUBSET Buttons, axes : SUBSET Axes]
        /\ shown.keys \subseteq heldKeys[p]
    BY <1>1, <2>3, <2>4
  <2>. HIDE DEF shown
  <2>. QED BY <1>1, <2>2, <2>4, <2>5, <2>6, <2>7, ForwardPresenters
<1>. QED BY <1>2, <1>3

(* A change of owner leaves every presenter at rest (session.rs, set_owner).*)
LEMMA OwnerPresenters ==
  ASSUME SlotInv, PresenterInv, NEW to, SetOwner(to)
  PROVE  PresenterInv'
<1>0. slot' = slot
  BY DEF SetOwner, fleetVars
<1>1. CASE Route(owner) = "shell"
  <2>1. UNCHANGED appVars
    BY <1>1 DEF SetOwner, SwitchQuiescing
  <2>2. \A s \in Slots : presenter'[s] = Rest
    BY <1>1, <2>1 DEF appVars, PresenterInv, Driven
  <2>. QED BY <2>1, <2>2 DEF PresenterInv, PresenterType, Driven, appVars, Rest
<1>2. CASE Route(owner) # "shell"
  <2>1. /\ presenter' = PresentersWithout(Fleet)
        /\ heldKeys' = [p \in Pads |-> {}]
    BY <1>2 DEF SetOwner, SwitchQuiescing
  <2>2. \A s \in Slots : presenter'[s] = Rest
    <3>. TAKE s \in Slots
    <3>1. CASE \E p \in Fleet : slot[p] = s
      BY <2>1, <3>1, QuiescedPresenters
    <3>2. CASE ~ \E p \in Fleet : slot[p] = s
      BY <2>1, <3>2, QuiescedPresenters DEF PresenterInv, Driven, DrivenBy
    <3>. QED BY <3>1, <3>2
  <2>3. PresenterType'
    BY <2>1, QuiescedPresenters DEF PresenterInv, PresenterType
  <2>. QED BY <2>2, <2>3 DEF PresenterInv, Driven, Rest
<1>. QED BY <1>1, <1>2

(* Every step keeps what the presenters show to what their pads hold.      *)
LEMMA PresenterStep ==
  ASSUME SlotInv, PresenterInv, [Next]_vars
  PROVE  PresenterInv'
<1>1. CASE UNCHANGED vars
  BY <1>1, PresentersUnchanged DEF vars
<1>2. CASE Poll
  <2>. DEFINE gone == Fleet \ plugged
              free == Slots \ {slot[p] : p \in Fleet \ gone}
  <2>1. Retire(gone) /\ owner' = owner
    BY <1>2 DEF Poll, routeVars
  <2>2. PICK opened \in SUBSET (plugged \ Fleet) :
          \E given \in Admissions(opened, free) :
            slot' = [p \in Pads |-> IF p \in gone THEN NoSlot
                                    ELSE IF p \in DOMAIN given THEN given[p]
                                    ELSE slot[p]]
    BY <1>2 DEF Poll
  <2>3. PICK given \in Admissions(opened, free) :
          slot' = [p \in Pads |-> IF p \in gone THEN NoSlot
                                  ELSE IF p \in DOMAIN given THEN given[p]
                                  ELSE slot[p]]
    BY <2>2
  <2>4. \A p \in DOMAIN given : p \notin Fleet
    BY AdmissionsAreFree
  <2>5. \A p \in Fleet \ gone : slot'[p] = slot[p]
    BY <2>3, <2>4 DEF Fleet
  <2>. QED BY <2>1, <2>5, RetirePresenters
<1>3. CASE Shutdown
  BY <1>3, RetirePresenters DEF Shutdown, routeVars
<1>4. ASSUME NEW p \in Pads, StreamError(p)
      PROVE  PresenterInv'
  <2>1. Retire({p}) /\ owner' = owner /\ slot' = [slot EXCEPT ![p] = NoSlot]
    BY <1>4 DEF StreamError, routeVars
  <2>2. CASE p \in Fleet
    <3>1. \A q \in Fleet \ {p} : slot'[q] = slot[q]
      BY <2>1 DEF Fleet, SlotInv, SlotType
    <3>. QED BY <2>1, <2>2, <3>1, RetirePresenters
  <2>3. CASE p \notin Fleet
    <3>1. slot[p] = NoSlot
      BY <2>3 DEF Fleet
    <3>2. PresentersWithout({p}) = presenter
      BY <3>1, PlayersAssumption DEF PresentersWithout, PresenterInv,
        PresenterType, Slots
    <3>3. heldKeys' = [heldKeys EXCEPT ![p] = {}]
      BY <2>1 DEF Retire, PresenterInv, PresenterType
    <3>4. slot' = slot /\ presenter' = presenter
      BY <2>1, <3>1, <3>2 DEF Retire, SlotInv, SlotType
    <3>5. PresenterType'
      BY <3>3, <3>4 DEF PresenterInv, PresenterType
    <3>6. \A s \in Slots, q \in Pads : DrivenBy(s, q) => DrivenBy(s, q)'
      BY <2>3, <3>3, <3>4 DEF DrivenBy, Fleet, PresenterInv, PresenterType
    <3>. QED BY <2>1, <3>4, <3>5, <3>6 DEF PresenterInv, Driven, Route, Rest
  <2>. QED BY <2>2, <2>3
<1>5. ASSUME NEW p \in Pads,
             \/ Plug(p) \/ Unplug(p) \/ Unheard(p)
             \/ GuidePress(p) \/ GuideRelease(p) \/ GuideUnheard(p)
      PROVE  PresenterInv'
  <2>1. UNCHANGED <<slot, owner, heldKeys, presenter>>
    BY <1>5 DEF Plug, Unplug, Unheard, GuidePress, GuideRelease, GuideUnheard,
      fleetVars, appVars, routeVars
  <2>. QED BY <2>1, PresentersUnchanged
<1>6. ASSUME NEW p \in Pads, NEW c, Button(p, c) \/ Axis(p, c)
      PROVE  PresenterInv'
  BY <1>6, ButtonPresenters, AxisPresenters
<1>7. CASE Tick
  BY <1>7, PresentersUnchanged DEF Tick, fleetVars, appVars, routeVars
<1>8. ASSUME NEW to \in Owners, SetOwner(to)
      PROVE  PresenterInv'
  BY <1>8, OwnerPresenters
<1>. QED
  BY <1>1, <1>2, <1>3, <1>4, <1>5, <1>6, <1>7, <1>8 DEF Next

(* A presenter that is not routed to, or that no pad drives, is at rest,   *)
(* whatever pads come and go and whoever takes the screen.                 *)
THEOREM PresenterRests == Spec => []PresenterRestsWhenNotRouted
<1>1. Init => SlotInv /\ PresenterInv
  BY RestIsPresenter DEF Init, SlotInv, SlotType, SlotsAreDistinct, PresenterInv,
    PresenterType, Driven
<1>2. SlotInv /\ PresenterInv /\ [Next]_vars => (SlotInv /\ PresenterInv)'
  BY SlotStep, PresenterStep
<1>3. PresenterInv => PresenterRestsWhenNotRouted
  BY DEF PresenterInv, Driven, DrivenBy, PresenterRestsWhenNotRouted
<1>. QED BY <1>1, <1>2, <1>3, PTL DEF Spec
-----------------------------------------------------------------------------
(* Types *)

OutsideType ==
  /\ plugged \subseteq Pads /\ guideDown \subseteq Pads
  /\ position \in [Pads -> [Buttons \cup Axes -> Directions \cup {"down", None}]]

ShellType ==
  /\ latch \in [Pads -> [Axes -> Directions \cup {None}]]
  /\ armed \in [Pads -> SUBSET {"stickX"}]
  /\ held \in [Pads -> SUBSET Keys] /\ keyboard \subseteq Keys
  /\ strayed \subseteq keyboard
  /\ \A p \in Pads : \A a \in armed[p] : latch[p][a] # None

RestType ==
  /\ broken \subseteq Fleet /\ owner \in Owners \cup {"shell"}
  /\ pinned \in BOOLEAN /\ running \in BOOLEAN

(* TypeOK in its parts, some of which the sections above keep; an axis     *)
(* whose auto-repeat is armed has a key to repeat.                         *)
LEMMA TypesInParts ==
  SlotType /\ GuideType /\ PresenterType /\ OutsideType /\ ShellType /\ RestType
    => TypeOK
BY DEF SlotType, GuideType, PresenterType, OutsideType, ShellType, RestType, TypeOK

(* Pads come and go, and are moved, heard of or not.                       *)
LEMMA OutsideTyped ==
  ASSUME OutsideType, [Next]_vars
  PROVE  OutsideType'
<1>1. ASSUME UNCHANGED envVars PROVE OutsideType'
  BY <1>1 DEF OutsideType, envVars
<1>2. ASSUME NEW p \in Pads, Plug(p) \/ GuidePress(p) \/ GuideRelease(p) \/ GuideUnheard(p)
      PROVE  OutsideType'
  BY <1>2 DEF Plug, GuidePress, GuideRelease, GuideUnheard, OutsideType
<1>3. ASSUME NEW p \in Pads, Unplug(p) PROVE OutsideType'
  BY <1>3 DEF Unplug, OutsideType, AtRest, Centre
<1>4. ASSUME NEW p \in Pads, NEW c, NEW to \in Directions \cup {"down", None},
             position' = [position EXCEPT ![p][c] = to],
             UNCHANGED <<plugged, guideDown>>
      PROVE  OutsideType'
  BY <1>4 DEF OutsideType
<1>5. ASSUME NEW p \in Pads, Unheard(p) PROVE OutsideType'
  BY <1>4, <1>5 DEF Unheard, Centre
<1>6. ASSUME NEW p \in Pads, NEW c, Button(p, c) PROVE OutsideType'
  BY <1>4, <1>6 DEF Button, Centre
<1>7. ASSUME NEW p \in Pads, NEW c, Axis(p, c) PROVE OutsideType'
  BY <1>4, <1>7 DEF Axis, Centre
<1>8. ASSUME \/ \E p \in Pads : StreamError(p)
             \/ Poll \/ Tick \/ Shutdown \/ \E to \in Owners : SetOwner(to)
      PROVE  OutsideType'
  BY <1>1, <1>8 DEF StreamError, Poll, Tick, Shutdown, SetOwner
<1>9. CASE UNCHANGED vars
  BY <1>1, <1>9 DEF vars, envVars
<1>. QED
  BY <1>2, <1>3, <1>5, <1>6, <1>7, <1>8, <1>9 DEF Next

(* A broken stream is a claimed pad's, and only decisions move the route.  *)
LEMMA RestTyped ==
  ASSUME SlotInv, RestType, [Next]_vars
  PROVE  RestType'
<1>1. CASE UNCHANGED vars
  BY <1>1 DEF vars, RestType, Fleet
<1>2. CASE Poll
  <2>. DEFINE gone == Fleet \ plugged
              free == Slots \ {slot[p] : p \in Fleet \ gone}
  <2>1. broken' = broken \ gone /\ UNCHANGED <<owner, pinned, running>>
    BY <1>2 DEF Poll, Retire, routeVars
  <2>2. PICK opened \in SUBSET (plugged \ Fleet) :
          \E given \in Admissions(opened, free) :
            slot' = [p \in Pads |-> IF p \in gone THEN NoSlot
                                    ELSE IF p \in DOMAIN given THEN given[p]
                                    ELSE slot[p]]
    BY <1>2 DEF Poll
  <2>3. PICK given \in Admissions(opened, free) :
          slot' = [p \in Pads |-> IF p \in gone THEN NoSlot
                                  ELSE IF p \in DOMAIN given THEN given[p]
                                  ELSE slot[p]]
    BY <2>2
  <2>4. \A p \in DOMAIN given : p \notin Fleet
    BY AdmissionsAreFree
  <2>5. \A p \in Fleet \ gone : slot'[p] = slot[p]
    BY <2>3, <2>4 DEF Fleet
  <2>. QED BY <2>1, <2>5 DEF RestType, Fleet
<1>3. CASE Shutdown
  BY <1>3 DEF Shutdown, Retire, routeVars, RestType, Fleet
<1>4. ASSUME NEW p \in Pads, StreamError(p)
      PROVE  RestType'
  BY <1>4 DEF StreamError, Retire, routeVars, RestType, Fleet, SlotInv, SlotType
<1>5. ASSUME NEW p \in Pads, Unplug(p) PROVE RestType'
  BY <1>5 DEF Unplug, routeVars, RestType, Fleet
<1>6. ASSUME NEW p \in Pads,
             \/ Plug(p) \/ Unheard(p)
             \/ GuidePress(p) \/ GuideRelease(p) \/ GuideUnheard(p)
             \/ \E c \in Controls[p] : Button(p, c) \/ Axis(p, c)
      PROVE  RestType'
  BY <1>6 DEF Plug, Unheard, GuidePress, GuideRelease, GuideUnheard,
              Button, Axis, fleetVars, routeVars, RestType, Fleet
<1>7. CASE Tick
  BY <1>7 DEF Tick, fleetVars, routeVars, RestType, Fleet
<1>8. ASSUME NEW to \in Owners, SetOwner(to)
      PROVE  RestType'
  BY <1>8 DEF SetOwner, fleetVars, RestType, Fleet
<1>. QED
  BY <1>1, <1>2, <1>3, <1>4, <1>5, <1>6, <1>7, <1>8 DEF Next

(* Quiescing keeps the types, whichever pads it is for.                    *)
LEMMA QuiesceTyped ==
  ASSUME ShellType, NEW pads, QuiesceKeymaps(pads)
  PROVE  ShellType'
BY DEF ShellType, QuiesceKeymaps, KeyboardBecomes, NoLatches

(* A release and a press of two keys, of which either may be none.         *)
LEMMA RekeyTyped ==
  ASSUME ShellType, NEW p \in Pads, NEW old, NEW new \in Keys \cup {None},
         Rekey(p, old, new)
  PROVE  /\ held' \in [Pads -> SUBSET Keys] /\ keyboard' \subseteq Keys
         /\ strayed' \subseteq keyboard'
BY DEF ShellType, Rekey, KeyboardBecomes

(* What a pad's control does on the shell's route.                         *)
LEMMA ForwardTyped ==
  ASSUME ShellType, NEW p \in Pads, NEW c, Button(p, c) \/ Axis(p, c)
  PROVE  ShellType'
<1>0. KeyFor(c) \in Keys \cup {None} /\ None \in Keys \cup {None}
  BY DEF KeyFor, Keys
<1>1. CASE Button(p, c)
  <2>1. CASE Route(owner) = "shell"
    <3>1. PICK old \in Keys \cup {None}, new \in Keys \cup {None} :
            Rekey(p, old, new) /\ UNCHANGED <<latch, armed>>
      BY <1>0, <1>1, <2>1 DEF Button, ShellButton
    <3>. QED BY <3>1, RekeyTyped DEF ShellType
  <2>2. CASE Route(owner) # "shell"
    BY <1>1, <2>2 DEF Button, AppButton, ShellType, shellVars
  <2>. QED BY <2>1, <2>2
<1>2. CASE Axis(p, c)
  <2>1. PICK dir \in Directions \cup {None} :
          IF Route(owner) = "shell" THEN ShellAxis(p, c, dir) ELSE AppAxis(p, c, dir)
    BY <1>2 DEF Axis, Centre
  <2>2. CASE UNCHANGED shellVars
    BY <2>2 DEF ShellType, shellVars
  <2>3. CASE /\ latch' = [latch EXCEPT ![p][c] = dir]
             /\ armed' = [armed EXCEPT ![p] = IF dir # None /\ c = "stickX"
                                              THEN @ \cup {c} ELSE @ \ {c}]
             /\ Rekey(p, latch[p][c], dir)
    <3>1. dir \in Keys \cup {None}
      BY DEF Directions, Keys
    <3>2. latch' \in [Pads -> [Axes -> Directions \cup {None}]]
      BY <2>3 DEF ShellType
    <3>3. armed' \in [Pads -> SUBSET {"stickX"}]
      BY <2>3 DEF ShellType
    <3>4. ASSUME NEW q \in Pads, NEW a \in armed'[q] PROVE latch'[q][a] # None
      <4>1. CASE q # p
        <5>1. armed'[q] = armed[q] /\ latch'[q] = latch[q]
          BY <2>3, <4>1 DEF ShellType
        <5>. QED BY <3>4, <5>1 DEF ShellType
      <4>2. CASE q = p
        <5>1. /\ armed'[p] = IF dir # None /\ c = "stickX"
                             THEN armed[p] \cup {c} ELSE armed[p] \ {c}
              /\ latch'[p] = [latch[p] EXCEPT ![c] = dir]
          BY <2>3 DEF ShellType
        <5>2. latch[p] \in [Axes -> Directions \cup {None}] /\ armed[p] \subseteq Axes
          BY DEF ShellType, Axes
        <5>3. CASE a = c
          BY <3>4, <4>2, <5>1, <5>2, <5>3 DEF Axes
        <5>4. CASE a # c
          <6>1. a \in armed[p] /\ latch'[p][a] = latch[p][a]
            BY <3>4, <4>2, <5>1, <5>2, <5>4
          <6>. QED BY <4>2, <6>1 DEF ShellType
        <5>. QED BY <5>3, <5>4
      <4>. QED BY <4>1, <4>2
    <3>. QED BY <2>3, <3>1, <3>2, <3>3, <3>4, RekeyTyped DEF ShellType
  <2>. QED BY <2>1, <2>2, <2>3 DEF ShellAxis, AppAxis
<1>. QED BY <1>1, <1>2

(* The keys that are down on the keyboard are keys.                        *)
LEMMA ShellTyped ==
  ASSUME ShellType, [Next]_vars
  PROVE  ShellType'
<1>1. ASSUME UNCHANGED shellVars PROVE ShellType'
  BY <1>1 DEF ShellType, shellVars
<1>2. CASE UNCHANGED vars
  BY <1>1, <1>2 DEF vars, shellVars
<1>3. ASSUME NEW pads, Retire(pads) PROVE ShellType'
  BY <1>3, QuiesceTyped DEF Retire
<1>4. CASE Poll \/ Shutdown \/ \E p \in Pads : StreamError(p)
  BY <1>3, <1>4 DEF Poll, Shutdown, StreamError
<1>5. ASSUME NEW p \in Pads,
             Plug(p) \/ Unplug(p) \/ Unheard(p) \/ GuidePress(p) \/ GuideUnheard(p)
      PROVE  ShellType'
  BY <1>1, <1>5 DEF Plug, Unplug, Unheard, GuidePress, GuideUnheard
<1>6. ASSUME NEW p \in Pads, GuideRelease(p) PROVE ShellType'
  BY <1>6 DEF GuideRelease, KeyboardBecomes, ShellType
<1>7. CASE Tick
  <2>1. PICK repeats \in SUBSET Repeating :
          Repeats(repeats) /\ UNCHANGED <<latch, armed, held>>
    BY <1>7 DEF Tick
  <2>2. \A r \in repeats : latch[r[1]][r[2]] \in Keys
    <3>. TAKE r \in repeats
    <3>1. r[1] \in Pads /\ r[2] \in Axes /\ r[2] \in armed[r[1]]
      BY DEF Repeating, Fleet
    <3>2. latch[r[1]][r[2]] \in Directions
      BY <3>1 DEF ShellType
    <3>. QED BY <3>2 DEF Directions, Keys
  <2>3. keyboard' = keyboard \cup {latch[r[1]][r[2]] : r \in repeats}
    BY <2>1 DEF Repeats
  <2>4. strayed' \subseteq keyboard'
    BY <2>1 DEF Repeats, ShellType
  <2>. QED BY <2>1, <2>2, <2>3, <2>4 DEF ShellType
<1>8. ASSUME NEW to \in Owners, SetOwner(to) PROVE ShellType'
  BY <1>1, <1>8, QuiesceTyped DEF SetOwner, SwitchQuiescing
<1>9. ASSUME NEW p \in Pads, NEW c, Button(p, c) \/ Axis(p, c) PROVE ShellType'
  BY <1>9, ForwardTyped
<1>. QED
  BY <1>2, <1>4, <1>5, <1>6, <1>7, <1>8, <1>9 DEF Next

(* What the types rest on, with the invariants above.                      *)
LEMMA TypedInvariants ==
  Spec => [](SlotInv /\ GuideInv /\ PresenterInv /\ OutsideType /\ ShellType /\ RestType)
<1>0. Init => SlotInv /\ PresenterInv
  BY RestIsPresenter DEF Init, SlotInv, SlotType, SlotsAreDistinct, PresenterInv,
    PresenterType, Driven
<1>1. Init => GuideInv
  BY DEF Init, GuideInv, SlotType, GuideType, GuideIsClaimed, LatchIsGuide,
    LatchIsEscape
<1>2. Init => OutsideType /\ ShellType /\ RestType
  BY ControlsAssumption DEF Init, OutsideType, ShellType, RestType, AtRest,
    Centre, NoLatches
<1>3. SlotInv /\ GuideInv /\ PresenterInv /\ OutsideType /\ ShellType /\ RestType
        /\ [Next]_vars
      => (SlotInv /\ GuideInv /\ PresenterInv /\ OutsideType /\ ShellType /\ RestType)'
  BY SlotStep, GuideStep, PresenterStep, OutsideTyped, ShellTyped, RestTyped
<1>. QED BY <1>0, <1>1, <1>2, <1>3, PTL DEF Spec

(* Every reachable state is well typed: a slot is one of the presenters',  *)
(* and only keys of the shell's keyboard are ever down on it, whatever     *)
(* controls the pads have.                                                 *)
THEOREM TypeCorrect == Spec => []TypeOK
<1>1. SlotInv /\ GuideInv /\ PresenterInv => SlotType /\ GuideType /\ PresenterType
  BY DEF SlotInv, GuideInv, PresenterInv
<1>. QED BY <1>1, TypedInvariants, TypesInParts, PTL

-----------------------------------------------------------------------------
(* What is down on the keyboard                                            *)

\* An axis that holds a key is a claimed pad's, pushed that way.
LatchOf(p) ==
  \A a \in Axes : latch[p][a] # None =>
    /\ p \in Fleet /\ a \in Controls[p]
    /\ p \notin broken => position[p][a] = latch[p][a]

\* A key that is held is an axis's, or a pressed button's.
ButtonHolds(p, key) ==
  \E b \in Controls[p] \cap Buttons :
    KeyFor(b) = key /\ (p \notin broken => position[p][b] = "down")

HeldOf(p) ==
  \A key \in held[p] :
    /\ p \in Fleet
    /\ (\E a \in Axes : latch[p][a] = key) \/ ButtonHolds(p, key)

AtRestOf(p) == latch[p] = NoLatches /\ armed[p] = {} /\ held[p] = {}

KeymapOf(p) ==
  /\ LatchOf(p) /\ HeldOf(p)
  /\ Route(owner) = "app" => AtRestOf(p)

KeyboardHeld == \A key \in keyboard \ strayed : \E p \in Pads : key \in held[p]

KeymapInv == KeyboardHeld /\ \A p \in Pads : KeymapOf(p)

(* A pad's map at rest holds nothing.                                      *)
LEMMA RestedKeymap ==
  ASSUME NEW p \in Pads, AtRestOf(p)'
  PROVE  KeymapOf(p)'
BY DEF AtRestOf, KeymapOf, LatchOf, HeldOf, NoLatches

(* What a pad holds stays held while its map, its claim and its controls   *)
(* stay as they are; a pad whose stream has failed may be in any position. *)
LEMMA KeymapKept ==
  ASSUME NEW p \in Pads, KeymapOf(p),
         latch'[p] = latch[p], armed'[p] = armed[p], held'[p] = held[p],
         p \in Fleet => p \in Fleet',
         p \notin Fleet \/ p \in broken' \/ (p \notin broken /\ position'[p] = position[p]),
         Route(owner') = Route(owner)
  PROVE  KeymapOf(p)'
<1>1. LatchOf(p)'
  BY DEF KeymapOf, LatchOf
<1>2. HeldOf(p)'
  BY DEF KeymapOf, HeldOf, ButtonHolds
<1>3. Route(owner') = "app" => AtRestOf(p)'
  BY DEF KeymapOf, AtRestOf
<1>. QED BY <1>1, <1>2, <1>3 DEF KeymapOf

(* Quiescing maps lifts their keys, and no others.                         *)
LEMMA QuiescedKeyboard ==
  ASSUME KeyboardHeld, NEW pads \in SUBSET Pads, QuiesceKeymaps(pads)
  PROVE  /\ KeyboardHeld'
         /\ \A p \in pads : AtRestOf(p)'
         /\ \A p \in Pads \ pads : latch'[p] = latch[p] /\ armed'[p] = armed[p]
                                     /\ held'[p] = held[p]
<1>1. \A p \in pads : AtRestOf(p)'
  BY DEF QuiesceKeymaps, AtRestOf
<1>2. \A p \in Pads \ pads : latch'[p] = latch[p] /\ armed'[p] = armed[p]
                               /\ held'[p] = held[p]
  BY DEF QuiesceKeymaps
<1>3. KeyboardHeld'
  <2>. SUFFICES ASSUME NEW key \in keyboard' \ strayed' PROVE \E p \in Pads : key \in held'[p]
    BY DEF KeyboardHeld
  <2>1. key \in keyboard \ strayed /\ \A p \in pads : key \notin held[p]
    BY DEF QuiesceKeymaps, KeyboardBecomes
  <2>. QED BY <1>2, <2>1 DEF KeyboardHeld
<1>. QED BY <1>1, <1>2, <1>3

(* Pads retired while the rest stay as they are.                           *)
LEMMA RetireKeymaps ==
  ASSUME KeymapInv, NEW gone \in SUBSET Pads, Retire(gone),
         \A p \in Fleet \ gone : p \in Fleet',
         UNCHANGED <<position, owner>>
  PROVE  KeymapInv'
<1>1. QuiesceKeymaps(gone) /\ broken' = broken \ gone
  BY DEF Retire
<1>2. KeyboardHeld'
  BY <1>1, QuiescedKeyboard DEF KeymapInv
<1>3. ASSUME NEW p \in Pads PROVE KeymapOf(p)'
  <2>1. CASE p \in gone
    BY <1>1, <2>1, QuiescedKeyboard, RestedKeymap DEF KeymapInv
  <2>2. CASE p \notin gone
    <3>1. latch'[p] = latch[p] /\ armed'[p] = armed[p] /\ held'[p] = held[p]
      BY <1>1, <2>2, QuiescedKeyboard DEF KeymapInv
    <3>2. KeymapOf(p) /\ (p \in broken' <=> p \in broken)
      BY <1>1, <2>2 DEF KeymapInv
    <3>. QED BY <2>2, <3>1, <3>2, KeymapKept
  <2>. QED BY <2>1, <2>2
<1>. QED BY <1>2, <1>3 DEF KeymapInv

(* A release and a press keep the keyboard to what is held: a key that one *)
(* pad lets go of stays down only if another pad holds it.                 *)
LEMMA RekeyedKeyboard ==
  ASSUME ShellType, KeyboardHeld, NEW p \in Pads, NEW old, NEW new,
         Rekey(p, old, new)
  PROVE  /\ KeyboardHeld'
         /\ held'[p] = (held[p] \ {old}) \cup ({new} \ {None})
         /\ \A q \in Pads \ {p} : held'[q] = held[q]
<1>1. /\ held'[p] = (held[p] \ {old}) \cup ({new} \ {None})
      /\ \A q \in Pads \ {p} : held'[q] = held[q]
  BY DEF Rekey, ShellType
<1>2. ASSUME NEW key \in keyboard' \ strayed' PROVE \E q \in Pads : key \in held'[q]
  <2>1. CASE key \in {new} \ {None}
    BY <1>1, <2>1
  <2>2. CASE key \in keyboard \ strayed /\ key \notin held[p] \cap {old}
    <3>1. PICK q \in Pads : key \in held[q]
      BY <2>2 DEF KeyboardHeld
    <3>. QED BY <1>1, <2>2, <3>1
  <2>. QED BY <1>2, <2>1, <2>2 DEF Rekey, KeyboardBecomes
<1>. QED BY <1>1, <1>2 DEF KeyboardHeld

(* A control of one pad is in no other pad's map.                          *)
LEMMA OtherKeymaps ==
  ASSUME OutsideType, ShellType, KeymapInv, NEW p \in Pads, NEW c,
         Button(p, c) \/ Axis(p, c), NEW q \in Pads \ {p}
  PROVE  KeymapOf(q)'
<1>1. UNCHANGED <<slot, broken, owner>> /\ position'[q] = position[q]
  BY DEF Button, Axis, fleetVars, routeVars, OutsideType
<1>2. latch'[q] = latch[q] /\ armed'[q] = armed[q] /\ held'[q] = held[q]
  <2>1. CASE UNCHANGED shellVars
    BY <2>1 DEF shellVars
  <2>2. CASE Button(p, c) /\ Route(owner) = "shell"
    BY <2>2, RekeyedKeyboard DEF Button, ShellButton, Rekey, ShellType
  <2>3. CASE Axis(p, c) /\ Route(owner) = "shell"
    <3>1. PICK dir : ShellAxis(p, c, dir)
      BY <2>3 DEF Axis
    <3>. QED BY <3>1, <2>1 DEF ShellAxis, Rekey, ShellType
  <2>4. CASE Route(owner) # "shell"
    BY <2>1, <2>4 DEF Button, Axis, AppButton, AppAxis
  <2>. QED BY <2>2, <2>3, <2>4
<1>3. KeymapOf(q)
  BY DEF KeymapInv
<1>4. q \in Fleet => q \in Fleet'
  BY <1>1 DEF Fleet
<1>. QED BY <1>1, <1>2, <1>3, <1>4, KeymapKept

(* A button of the shell's route: its key is held while it is down.        *)
LEMMA ButtonKeymap ==
  ASSUME OutsideType, ShellType, KeymapInv, NEW p \in Pads, NEW b, Button(p, b)
  PROVE  KeymapInv'
<1>1. /\ p \in Fleet /\ p \notin broken /\ b \in Controls[p] \cap Buttons
      /\ UNCHANGED <<slot, broken, owner>>
  BY DEF Button, Readable, fleetVars, routeVars
<1>2. KeymapOf(p)
  BY DEF KeymapInv
<1>3. CASE Route(owner) # "shell"
  <2>1. UNCHANGED shellVars /\ Route(owner) = "app"
    BY <1>3 DEF Button, AppButton, Route
  <2>2. AtRestOf(p)'
    BY <1>2, <2>1 DEF KeymapOf, AtRestOf, shellVars
  <2>3. KeyboardHeld'
    BY <2>1 DEF KeymapInv, KeyboardHeld, shellVars
  <2>. QED BY <2>2, <2>3, RestedKeymap, OtherKeymaps DEF KeymapInv
<1>4. CASE Route(owner) = "shell"
  <2>. DEFINE down == position[p][b] = Centre
              old == IF down THEN None ELSE KeyFor(b)
              new == IF down THEN KeyFor(b) ELSE None
  <2>1. Rekey(p, old, new) /\ UNCHANGED <<latch, armed>>
    BY <1>4 DEF Button, ShellButton
  <2>2. /\ KeyboardHeld'
        /\ held'[p] = (held[p] \ {old}) \cup ({new} \ {None})
    BY <2>1, RekeyedKeyboard DEF KeymapInv
  <2>3. /\ position'[p][b] = IF down THEN "down" ELSE Centre
        /\ \A c \in (Buttons \cup Axes) \ {b} : position'[p][c] = position[p][c]
    BY <1>1 DEF Button, OutsideType
  <2>4. b \notin Axes /\ KeyFor(b) \notin Directions
    BY <1>1, ControlsAssumption DEF Buttons, Axes, KeyFor, Directions, Keys
  <2>5. LatchOf(p)'
    <3>. SUFFICES ASSUME NEW a \in Axes, latch[p][a] # None
                  PROVE  p \in Fleet /\ a \in Controls[p] /\ position'[p][a] = latch[p][a]
      BY <1>1, <2>1 DEF LatchOf, Fleet
    <3>. QED BY <1>1, <1>2, <2>3, <2>4 DEF KeymapOf, LatchOf
  <2>6. HeldOf(p)'
    <3>. SUFFICES ASSUME NEW key \in held'[p]
                  PROVE  (\E a \in Axes : latch[p][a] = key) \/ ButtonHolds(p, key)'
      BY <1>1, <2>1 DEF HeldOf, Fleet
    <3>1. CASE key \in {new} \ {None}
      <4>1. down /\ KeyFor(b) = key
        BY <3>1
      <4>. QED BY <1>1, <2>3, <4>1 DEF ButtonHolds
    <3>2. CASE key \in held[p] /\ key # old /\ key # None
      <4>1. CASE \E a \in Axes : latch[p][a] = key
        BY <4>1
      <4>2. CASE ButtonHolds(p, key)
        <5>1. PICK d \in Controls[p] \cap Buttons :
                KeyFor(d) = key /\ position[p][d] = "down"
          BY <1>1, <4>2 DEF ButtonHolds
        <5>2. d # b \/ (down /\ position'[p][b] = "down")
          BY <2>3, <3>2, <5>1
        <5>3. position'[p][d] = "down"
          BY <2>3, <5>1, <5>2
        <5>. QED BY <5>1, <5>3 DEF ButtonHolds
      <4>. QED BY <1>2, <3>2, <4>1, <4>2 DEF KeymapOf, HeldOf
    <3>3. None \notin held[p]
      BY ControlsAssumption DEF ShellType
    <3>. QED BY <2>2, <3>1, <3>2, <3>3
  <2>7. KeymapOf(p)'
    BY <1>1, <1>4, <2>5, <2>6 DEF KeymapOf, Route
  <2>. QED BY <2>2, <2>7, OtherKeymaps DEF KeymapInv
<1>. QED BY <1>3, <1>4

(* An axis of the shell's route: the old direction is let go of and the    *)
(* new one held.                                                           *)
LEMMA AxisKeymap ==
  ASSUME OutsideType, ShellType, KeymapInv, NEW p \in Pads, NEW a, Axis(p, a)
  PROVE  KeymapInv'
<1>1. /\ p \in Fleet /\ p \notin broken /\ a \in Controls[p] \cap Axes
      /\ UNCHANGED <<slot, broken, owner>>
  BY DEF Axis, Readable, fleetVars, routeVars
<1>2. KeymapOf(p)
  BY DEF KeymapInv
<1>3. PICK dir \in Directions \cup {None} :
        /\ position' = [position EXCEPT ![p][a] = dir]
        /\ IF Route(owner) = "shell" THEN ShellAxis(p, a, dir) ELSE AppAxis(p, a, dir)
  BY DEF Axis, Centre
<1>4. /\ position'[p][a] = dir
      /\ \A c \in (Buttons \cup Axes) \ {a} : position'[p][c] = position[p][c]
  BY <1>1, <1>3 DEF OutsideType
<1>5. a \notin Buttons
  BY <1>1 DEF Buttons, Axes
<1>6. CASE Route(owner) # "shell"
  <2>1. UNCHANGED shellVars /\ Route(owner) = "app"
    BY <1>3, <1>6 DEF AppAxis, Route
  <2>2. AtRestOf(p)'
    BY <1>2, <2>1 DEF KeymapOf, AtRestOf, shellVars
  <2>3. KeyboardHeld'
    BY <2>1 DEF KeymapInv, KeyboardHeld, shellVars
  <2>. QED BY <2>2, <2>3, RestedKeymap, OtherKeymaps DEF KeymapInv
<1>7. CASE Route(owner) = "shell" /\ latch[p][a] = dir
  <2>1. UNCHANGED shellVars
    BY <1>3, <1>7 DEF ShellAxis
  <2>2. ASSUME NEW c \in Axes, latch[p][c] # None
        PROVE  c \in Controls[p] /\ position'[p][c] = latch[p][c]
    <3>1. CASE c = a
      BY <1>1, <1>4, <1>7, <3>1
    <3>2. CASE c # a
      BY <1>1, <1>2, <1>4, <2>2, <3>2 DEF KeymapOf, LatchOf
    <3>. QED BY <3>1, <3>2
  <2>3. LatchOf(p)'
    BY <1>1, <2>1, <2>2 DEF LatchOf, Fleet, shellVars
  <2>4. HeldOf(p)'
    BY <1>1, <1>2, <1>4, <1>5, <2>1 DEF KeymapOf, HeldOf, ButtonHolds, Fleet, shellVars
  <2>5. KeymapOf(p)'
    BY <1>1, <1>2, <1>7, <2>1, <2>3, <2>4 DEF KeymapOf, Route, shellVars
  <2>6. KeyboardHeld'
    BY <2>1 DEF KeymapInv, KeyboardHeld, shellVars
  <2>. QED BY <2>5, <2>6, OtherKeymaps DEF KeymapInv
<1>8. CASE Route(owner) = "shell" /\ latch[p][a] # dir
  <2>. DEFINE old == latch[p][a]
  <2>1. /\ latch' = [latch EXCEPT ![p][a] = dir]
        /\ armed' = [armed EXCEPT ![p] = IF dir # None /\ a = "stickX"
                                         THEN @ \cup {a} ELSE @ \ {a}]
        /\ Rekey(p, old, dir)
    BY <1>3, <1>8 DEF ShellAxis
  <2>2. /\ KeyboardHeld'
        /\ held'[p] = (held[p] \ {old}) \cup ({dir} \ {None})
    BY <2>1, RekeyedKeyboard DEF KeymapInv
  <2>3. /\ latch'[p][a] = dir
        /\ \A c \in Axes \ {a} : latch'[p][c] = latch[p][c]
    BY <1>1, <2>1 DEF ShellType
  <2>4. LatchOf(p)'
    <3>. SUFFICES ASSUME NEW c \in Axes, latch'[p][c] # None
                  PROVE  c \in Controls[p] /\ position'[p][c] = latch'[p][c]
      BY <1>1 DEF LatchOf, Fleet
    <3>1. CASE c = a
      BY <1>1, <1>4, <2>3, <3>1
    <3>2. CASE c # a
      BY <1>1, <1>2, <1>4, <2>3, <3>2 DEF KeymapOf, LatchOf
    <3>. QED BY <3>1, <3>2
  <2>5. HeldOf(p)'
    <3>. SUFFICES ASSUME NEW key \in held'[p]
                  PROVE  (\E c \in Axes : latch'[p][c] = key) \/ ButtonHolds(p, key)'
      BY <1>1 DEF HeldOf, Fleet
    <3>1. CASE key = dir
      BY <1>1, <2>3, <3>1
    <3>2. CASE key \in held[p] /\ key # old
      <4>1. CASE \E c \in Axes : latch[p][c] = key
        BY <2>3, <3>2, <4>1
      <4>2. CASE ButtonHolds(p, key)
        BY <1>1, <1>4, <1>5, <4>2 DEF ButtonHolds
      <4>. QED BY <1>2, <3>2, <4>1, <4>2 DEF KeymapOf, HeldOf
    <3>. QED BY <2>2, <3>1, <3>2
  <2>6. KeymapOf(p)'
    BY <1>1, <1>8, <2>4, <2>5 DEF KeymapOf, Route
  <2>. QED BY <2>2, <2>6, OtherKeymaps DEF KeymapInv
<1>. QED BY <1>6, <1>7, <1>8

(* Leaving a route leaves every map at rest.                               *)
LEMMA OwnerKeymaps ==
  ASSUME ShellType, KeymapInv, NEW to, SetOwner(to)
  PROVE  KeymapInv'
<1>1. CASE Route(owner) = "shell"
  <2>1. QuiesceKeymaps(Pads)
    BY <1>1 DEF SetOwner, SwitchQuiescing
  <2>. QED BY <2>1, QuiescedKeyboard, RestedKeymap DEF KeymapInv
<1>2. CASE Route(owner) # "shell"
  <2>1. UNCHANGED shellVars /\ Route(owner) = "app"
    BY <1>2 DEF SetOwner, SwitchQuiescing, Route
  <2>2. \A p \in Pads : AtRestOf(p)'
    BY <2>1 DEF KeymapInv, KeymapOf, AtRestOf, shellVars
  <2>3. KeyboardHeld'
    BY <2>1 DEF KeymapInv, KeyboardHeld, shellVars
  <2>. QED BY <2>2, <2>3, RestedKeymap DEF KeymapInv
<1>. QED BY <1>1, <1>2

(* A repeat presses what is held, or leaves it astray.                     *)
LEMMA TickKeymaps ==
  ASSUME ShellType, KeymapInv, Tick
  PROVE  KeymapInv'
<1>1. /\ UNCHANGED <<position, slot, broken, owner, latch, armed, held>>
      /\ \E repeats \in SUBSET Repeating : Repeats(repeats)
  BY DEF Tick, envVars, fleetVars, routeVars
<1>2. PICK repeats \in SUBSET Repeating : Repeats(repeats)
  BY <1>1
<1>3. KeyboardHeld'
  <2>. SUFFICES ASSUME NEW key \in keyboard' \ strayed'
                PROVE  \E p \in Pads : key \in held[p]
    BY <1>1 DEF KeyboardHeld
  <2>1. CASE key \in keyboard
    <3>1. key \notin strayed
      BY <1>2 DEF Repeats
    <3>. QED BY <2>1, <3>1 DEF KeymapInv, KeyboardHeld
  <2>2. CASE key \notin keyboard
    <3>1. PICK r \in repeats : key = latch[r[1]][r[2]]
      BY <1>2, <2>2 DEF Repeats
    <3>2. key \in held[r[1]]
      BY <1>2, <3>1 DEF Repeats
    <3>3. r[1] \in Pads
      BY DEF Repeating, Fleet
    <3>. QED BY <3>2, <3>3
  <2>. QED BY <2>1, <2>2
<1>4. ASSUME NEW p \in Pads PROVE KeymapOf(p)'
  <2>1. KeymapOf(p) /\ Fleet' = Fleet
    BY <1>1 DEF KeymapInv, Fleet
  <2>. QED BY <1>1, <2>1, KeymapKept
<1>. QED BY <1>3, <1>4 DEF KeymapInv

(* A poll keeps every pad that it does not retire.                         *)
LEMMA PollKeeps ==
  ASSUME Poll
  PROVE  \A p \in Fleet \cap plugged : slot'[p] = slot[p] /\ p \in Fleet'
<1>. DEFINE gone == Fleet \ plugged
            free == Slots \ {slot[p] : p \in Fleet \ gone}
<1>1. PICK opened \in SUBSET (plugged \ Fleet) :
        \E given \in Admissions(opened, free) :
          slot' = [p \in Pads |-> IF p \in gone THEN NoSlot
                                  ELSE IF p \in DOMAIN given THEN given[p]
                                  ELSE slot[p]]
  BY DEF Poll
<1>2. PICK given \in Admissions(opened, free) :
        slot' = [p \in Pads |-> IF p \in gone THEN NoSlot
                                ELSE IF p \in DOMAIN given THEN given[p]
                                ELSE slot[p]]
  BY <1>1
<1>3. \A p \in DOMAIN given : p \notin Fleet
  BY AdmissionsAreFree
<1>. QED BY <1>2, <1>3 DEF Fleet

(* Every step keeps the keyboard to what the pads hold.                    *)
LEMMA KeymapStep ==
  ASSUME SlotInv, OutsideType, ShellType, RestType, KeymapInv, [Next]_vars
  PROVE  KeymapInv'
<1>1. ASSUME UNCHANGED <<slot, latch, armed, held, keyboard, strayed, owner>>,
             \A p \in Pads : \/ p \notin Fleet \/ p \in broken'
                             \/ p \notin broken /\ position'[p] = position[p]
      PROVE  KeymapInv'
  <2>1. ASSUME NEW p \in Pads PROVE KeymapOf(p)'
    <3>1. KeymapOf(p) /\ Fleet' = Fleet
      BY <1>1 DEF KeymapInv, Fleet
    <3>. QED BY <1>1, <3>1, KeymapKept
  <2>2. KeyboardHeld'
    BY <1>1 DEF KeymapInv, KeyboardHeld
  <2>. QED BY <2>1, <2>2 DEF KeymapInv
<1>2. CASE UNCHANGED vars
  BY <1>1, <1>2 DEF vars
<1>3. CASE Poll
  <2>. DEFINE gone == Fleet \ plugged
  <2>1. Retire(gone) /\ UNCHANGED <<position, owner>> /\ gone \in SUBSET Pads
    BY <1>3 DEF Poll, envVars, routeVars, Fleet
  <2>2. \A p \in Fleet \ gone : p \in Fleet'
    BY <1>3, PollKeeps
  <2>. QED BY <2>1, <2>2, RetireKeymaps
<1>4. CASE Shutdown
  <2>1. Retire(Fleet) /\ UNCHANGED <<position, owner>> /\ Fleet \in SUBSET Pads
    BY <1>4 DEF Shutdown, envVars, routeVars, Fleet
  <2>. QED BY <2>1, RetireKeymaps
<1>5. ASSUME NEW p \in Pads, StreamError(p) PROVE KeymapInv'
  <2>1. Retire({p}) /\ UNCHANGED <<position, owner>> /\ slot' = [slot EXCEPT ![p] = NoSlot]
    BY <1>5 DEF StreamError, envVars, routeVars
  <2>2. \A q \in Fleet \ {p} : q \in Fleet'
    BY <2>1 DEF Fleet, SlotInv, SlotType
  <2>. QED BY <2>1, <2>2, RetireKeymaps
<1>6. ASSUME NEW p \in Pads, Plug(p) \/ GuidePress(p) \/ GuideUnheard(p)
      PROVE  KeymapInv'
  BY <1>1, <1>6 DEF Plug, GuidePress, GuideUnheard, fleetVars, shellVars, routeVars
<1>7. ASSUME NEW p \in Pads, Unplug(p) PROVE KeymapInv'
  <2>1. /\ UNCHANGED <<slot, latch, armed, held, keyboard, strayed, owner>>
        /\ broken' = IF p \in Fleet THEN broken \cup {p} ELSE broken
        /\ \A q \in Pads \ {p} : position'[q] = position[q]
    BY <1>7 DEF Unplug, shellVars, routeVars, OutsideType
  <2>. QED BY <1>1, <2>1
<1>8. ASSUME NEW p \in Pads, Unheard(p) PROVE KeymapInv'
  <2>1. /\ UNCHANGED <<slot, broken, latch, armed, held, keyboard, strayed, owner>>
        /\ p \notin Fleet
        /\ \A q \in Pads \ {p} : position'[q] = position[q]
    BY <1>8 DEF Unheard, fleetVars, shellVars, routeVars, OutsideType
  <2>. QED BY <1>1, <2>1
<1>9. ASSUME NEW p \in Pads, GuideRelease(p) PROVE KeymapInv'
  <2>1. UNCHANGED <<slot, broken, position, latch, armed, held, owner>>
    BY <1>9 DEF GuideRelease, fleetVars, routeVars
  <2>2. keyboard' \ strayed' \subseteq keyboard \ strayed
    BY <1>9 DEF GuideRelease, KeyboardBecomes
  <2>3. KeyboardHeld'
    BY <2>1, <2>2 DEF KeymapInv, KeyboardHeld
  <2>4. ASSUME NEW q \in Pads PROVE KeymapOf(q)'
    <3>1. KeymapOf(q) /\ Fleet' = Fleet
      BY <2>1 DEF KeymapInv, Fleet
    <3>. QED BY <2>1, <3>1, KeymapKept
  <2>. QED BY <2>3, <2>4 DEF KeymapInv
<1>10. ASSUME NEW p \in Pads, NEW c, Button(p, c) \/ Axis(p, c) PROVE KeymapInv'
  BY <1>10, ButtonKeymap, AxisKeymap
<1>11. CASE Tick
  BY <1>11, TickKeymaps
<1>12. ASSUME NEW to \in Owners, SetOwner(to) PROVE KeymapInv'
  BY <1>12, OwnerKeymaps
<1>. QED
  BY <1>2, <1>3, <1>4, <1>5, <1>6, <1>7, <1>8, <1>9, <1>10, <1>11, <1>12 DEF Next

(* The shell's keyboard is at rest while an app has the pads, but for a    *)
(* key that a repeat pressed astray, whatever controls the pads have.      *)
THEOREM KeyboardRests == Spec => []KeyboardRestsWhenNotRouted
<1>1. Init => KeymapInv
  BY DEF Init, KeymapInv, KeyboardHeld, KeymapOf, LatchOf, HeldOf,
    AtRestOf, NoLatches
<1>2. SlotInv /\ OutsideType /\ ShellType /\ RestType /\ KeymapInv /\ [Next]_vars
        => KeymapInv'
  BY KeymapStep
<1>3. KeymapInv => KeyboardRestsWhenNotRouted
  BY DEF KeymapInv, KeyboardHeld, KeymapOf, AtRestOf, KeyboardRestsWhenNotRouted
<1>. QED BY <1>1, <1>2, <1>3, TypedInvariants, PTL DEF Spec
-----------------------------------------------------------------------------
(* What is down is held                                                    *)

\* What its presenter shows of a claimed pad, the pad has down.
BackedBy(p) ==
  \A c \in presenter[slot[p]].keys \cup presenter[slot[p]].axes :
    c \in Controls[p] /\ position[p][c] # Centre

Backed == \A p \in Fleet : p \notin broken => BackedBy(p)

(* A presenter at rest shows nothing.                                      *)
LEMMA RestIsBacked ==
  ASSUME NEW p, presenter'[slot'[p]] = Rest
  PROVE  BackedBy(p)'
BY DEF BackedBy, Rest

(* A pad that stays where it is, with its presenter as it was or at rest.  *)
LEMMA BackedKept ==
  ASSUME Backed, NEW p \in Fleet, p \notin broken,
         slot'[p] = slot[p], position'[p] = position[p],
         presenter'[slot[p]] \in {presenter[slot[p]], Rest}
  PROVE  BackedBy(p)'
<1>1. BackedBy(p)
  BY DEF Backed
<1>. QED BY <1>1 DEF BackedBy, Rest

(* Pads retired, and others claimed, while the rest keep their slots: a    *)
(* presenter that a new pad drives is at rest.                             *)
LEMMA RetireBacked ==
  ASSUME SlotInv, SlotInv', PresenterInv, Backed, position' = position,
         NEW gone \in SUBSET Fleet, Retire(gone),
         \A p \in Fleet' :
           \/ p \in Fleet \ gone /\ slot'[p] = slot[p]
           \/ \A q \in Fleet \ gone : slot[q] # slot'[p]
  PROVE  Backed'
<1>1. presenter' = PresentersWithout(gone) /\ broken' = broken \ gone
  BY DEF Retire
<1>2. \A s \in Slots : IF \E p \in gone : slot[p] = s
                       THEN presenter'[s] = Rest
                       ELSE presenter'[s] = presenter[s]
  BY <1>1, QuiescedPresenters
<1>. SUFFICES ASSUME NEW p \in Fleet', p \notin broken'
              PROVE  BackedBy(p)'
  BY DEF Backed
<1>3. slot'[p] \in Slots
  BY DEF SlotInv, SlotType, Fleet
<1>4. CASE p \in Fleet \ gone /\ slot'[p] = slot[p]
  <2>1. p \notin broken
    BY <1>1, <1>4
  <2>2. presenter'[slot[p]] \in {presenter[slot[p]], Rest}
    BY <1>2, <1>3, <1>4
  <2>. QED BY <1>4, <2>1, <2>2, BackedKept
<1>5. CASE \A q \in Fleet \ gone : slot[q] # slot'[p]
  <2>1. CASE \E q \in gone : slot[q] = slot'[p]
    BY <1>2, <1>3, <2>1, RestIsBacked
  <2>2. CASE ~ \E q \in gone : slot[q] = slot'[p]
    <3>1. presenter[slot'[p]] = Rest
      BY <1>3, <1>5, <2>2 DEF PresenterInv, Driven, DrivenBy
    <3>2. presenter'[slot'[p]] = Rest
      BY <1>2, <1>3, <2>2, <3>1
    <3>. QED BY <3>2, RestIsBacked
  <2>. QED BY <2>1, <2>2
<1>. QED BY <1>4, <1>5

(* A control that a claimed pad moves: on the app's route its presenter    *)
(* follows, and no other pad's does.                                       *)
LEMMA ForwardBacked ==
  ASSUME SlotInv, Backed, OutsideType, NEW p \in Readable, NEW c \in Controls[p],
         c \in Buttons \cup Axes, NEW to,
         position' = [position EXCEPT ![p][c] = to], UNCHANGED <<slot, broken>>,
         \/ \A s \in Slots : presenter'[s] = Rest
         \/ /\ \A s \in Slots \ {slot[p]} : presenter'[s] = presenter[s]
            /\ \A d \in presenter'[slot[p]].keys \cup presenter'[slot[p]].axes :
                 IF d = c THEN to # Centre
                 ELSE d \in presenter[slot[p]].keys \cup presenter[slot[p]].axes
  PROVE  Backed'
<1>1. /\ p \in Fleet /\ p \notin broken /\ p \in Pads /\ Fleet' = Fleet
      /\ \A q \in Fleet : slot[q] \in Slots
  BY DEF Readable, Fleet, SlotInv, SlotType
<1>. SUFFICES ASSUME NEW q \in Fleet, q \notin broken
              PROVE  BackedBy(q)'
  BY <1>1 DEF Backed
<1>2. CASE \A s \in Slots : presenter'[s] = Rest
  BY <1>1, <1>2, RestIsBacked
<1>3. CASE /\ \A s \in Slots \ {slot[p]} : presenter'[s] = presenter[s]
           /\ \A d \in presenter'[slot[p]].keys \cup presenter'[slot[p]].axes :
                IF d = c THEN to # Centre
                ELSE d \in presenter[slot[p]].keys \cup presenter[slot[p]].axes
  <2>1. CASE q = p
    <3>1. BackedBy(p)
      BY <1>1 DEF Backed
    <3>2. /\ position'[p][c] = to
          /\ \A d : d # c => position'[p][d] = position[p][d]
      BY <1>1 DEF OutsideType
    <3>. QED BY <1>3, <2>1, <3>1, <3>2 DEF BackedBy
  <2>2. CASE q # p
    <3>1. slot[q] # slot[p] /\ slot[q] \in Slots
      BY <1>1, <2>2 DEF SlotInv, SlotsAreDistinct, Fleet
    <3>2. position'[q] = position[q]
      BY <2>2 DEF OutsideType
    <3>. QED BY <1>3, <3>1, <3>2, BackedKept
  <2>. QED BY <2>1, <2>2
<1>. QED BY <1>2, <1>3

(* A button.                                                               *)
LEMMA ButtonBacked ==
  ASSUME SlotInv, PresenterInv, OutsideType, Backed, NEW p \in Pads, NEW b, Button(p, b)
  PROVE  Backed'
<1>. DEFINE s == slot[p]
            down == position[p][b] = Centre
            to == IF down THEN "down" ELSE Centre
<1>1. /\ p \in Readable /\ b \in Controls[p] /\ b \in Buttons
      /\ position' = [position EXCEPT ![p][b] = to]
      /\ UNCHANGED <<slot, broken, owner>>
  BY DEF Button, fleetVars, routeVars
<1>2. CASE Route(owner) = "shell"
  <2>1. \A t \in Slots : presenter'[t] = Rest
    BY <1>2 DEF Button, ShellButton, appVars, PresenterInv, Driven
  <2>. QED BY <1>1, <2>1, ForwardBacked
<1>3. CASE Route(owner) # "shell"
  <2>1. s \in Slots
    BY <1>1, OwnPresenter DEF Readable
  <2>2. presenter[s] \in [keys : SUBSET Buttons, axes : SUBSET Axes]
    BY <2>1 DEF PresenterInv, PresenterType
  <2>3. presenter' = [presenter EXCEPT ![s].keys = IF down THEN @ \cup {b} ELSE @ \ {b}]
    BY <1>3 DEF Button, AppButton
  <2>4. /\ \A t \in Slots \ {s} : presenter'[t] = presenter[t]
        /\ presenter'[s] = [presenter[s] EXCEPT !.keys = IF down THEN @ \cup {b} ELSE @ \ {b}]
    BY <2>1, <2>3 DEF PresenterInv, PresenterType
  <2>5. /\ presenter'[s].keys = IF down THEN presenter[s].keys \cup {b}
                                        ELSE presenter[s].keys \ {b}
        /\ presenter'[s].axes = presenter[s].axes
    BY <2>2, <2>4, PresenterExcept
  <2>6. b \notin presenter[s].axes
    BY <1>1, <2>2 DEF Buttons, Axes
  <2>7. "down" # Centre
    BY ControlsAssumption DEF Centre
  <2>8. \A d \in presenter'[s].keys \cup presenter'[s].axes :
          IF d = b THEN to # Centre ELSE d \in presenter[s].keys \cup presenter[s].axes
    BY <2>5, <2>6, <2>7
  <2>. HIDE DEF to
  <2>. QED BY <1>1, <2>4, <2>8, ForwardBacked
<1>. QED BY <1>2, <1>3

(* An axis.                                                                *)
LEMMA AxisBacked ==
  ASSUME SlotInv, PresenterInv, OutsideType, Backed, NEW p \in Pads, NEW a, Axis(p, a)
  PROVE  Backed'
<1>. DEFINE s == slot[p]
<1>1. PICK dir :
        /\ position' = [position EXCEPT ![p][a] = dir]
        /\ IF Route(owner) = "shell" THEN ShellAxis(p, a, dir) ELSE AppAxis(p, a, dir)
  BY DEF Axis
<1>2. /\ p \in Readable /\ a \in Controls[p] /\ a \in Axes
      /\ UNCHANGED <<slot, broken, owner>>
  BY DEF Axis, fleetVars, routeVars
<1>3. CASE Route(owner) = "shell"
  <2>1. \A t \in Slots : presenter'[t] = Rest
    BY <1>1, <1>3 DEF ShellAxis, appVars, PresenterInv, Driven
  <2>. QED BY <1>1, <1>2, <2>1, ForwardBacked
<1>4. CASE Route(owner) # "shell"
  <2>1. s \in Slots
    BY <1>2, OwnPresenter DEF Readable
  <2>2. presenter[s] \in [keys : SUBSET Buttons, axes : SUBSET Axes]
    BY <2>1 DEF PresenterInv, PresenterType
  <2>3. presenter' = [presenter EXCEPT ![s].axes =
                        IF dir # Centre THEN @ \cup {a} ELSE @ \ {a}]
    BY <1>1, <1>4 DEF AppAxis
  <2>4. /\ \A t \in Slots \ {s} : presenter'[t] = presenter[t]
        /\ presenter'[s] = [presenter[s] EXCEPT !.axes =
                              IF dir # Centre THEN @ \cup {a} ELSE @ \ {a}]
    BY <2>1, <2>3 DEF PresenterInv, PresenterType
  <2>5. /\ presenter'[s].axes = IF dir # Centre THEN presenter[s].axes \cup {a}
                                                ELSE presenter[s].axes \ {a}
        /\ presenter'[s].keys = presenter[s].keys
    BY <2>2, <2>4, PresenterExcept
  <2>6. a \notin presenter[s].keys
    BY <1>2, <2>2 DEF Buttons, Axes
  <2>7. \A d \in presenter'[s].keys \cup presenter'[s].axes :
          IF d = a THEN dir # Centre ELSE d \in presenter[s].keys \cup presenter[s].axes
    BY <2>5, <2>6
  <2>. QED BY <1>1, <1>2, <2>4, <2>7, ForwardBacked
<1>. QED BY <1>3, <1>4

(* Every step keeps what the presenters show to what their pads have down. *)
LEMMA BackedStep ==
  ASSUME SlotInv, PresenterInv, OutsideType, RestType, Backed, [Next]_vars
  PROVE  Backed'
<1>0. SlotInv'
  BY SlotStep
<1>1. ASSUME UNCHANGED <<slot, presenter>>,
             \A p \in Fleet : p \in broken' \/ (p \notin broken /\ position'[p] = position[p])
      PROVE  Backed'
  <2>1. Fleet' = Fleet
    BY <1>1 DEF Fleet
  <2>. SUFFICES ASSUME NEW p \in Fleet, p \notin broken' PROVE BackedBy(p)'
    BY <2>1 DEF Backed
  <2>. QED BY <1>1, BackedKept
<1>2. CASE UNCHANGED vars
  BY <1>1, <1>2 DEF vars
<1>3. CASE Poll
  <2>. DEFINE gone == Fleet \ plugged
              free == Slots \ {slot[p] : p \in Fleet \ gone}
  <2>1. Retire(gone) /\ position' = position
    BY <1>3 DEF Poll, envVars
  <2>2. PICK opened \in SUBSET (plugged \ Fleet) :
          \E given \in Admissions(opened, free) :
            slot' = [p \in Pads |-> IF p \in gone THEN NoSlot
                                    ELSE IF p \in DOMAIN given THEN given[p]
                                    ELSE slot[p]]
    BY <1>3 DEF Poll
  <2>3. PICK given \in Admissions(opened, free) :
          slot' = [p \in Pads |-> IF p \in gone THEN NoSlot
                                  ELSE IF p \in DOMAIN given THEN given[p]
                                  ELSE slot[p]]
    BY <2>2
  <2>4. /\ \A p \in DOMAIN given : p \notin Fleet
        /\ \A p \in DOMAIN given : given[p] \in free
    BY AdmissionsAreFree
  <2>5. ASSUME NEW p \in Fleet'
        PROVE  \/ p \in Fleet \ gone /\ slot'[p] = slot[p]
               \/ \A q \in Fleet \ gone : slot[q] # slot'[p]
    <3>1. p \in Pads /\ slot'[p] # NoSlot
      BY <2>5 DEF Fleet
    <3>2. CASE p \in DOMAIN given
      <4>1. slot'[p] \in free
        BY <2>3, <2>4, <3>1, <3>2
      <4>. QED BY <4>1
    <3>3. CASE p \notin DOMAIN given
      BY <2>3, <3>1, <3>3 DEF Fleet
    <3>. QED BY <3>2, <3>3
  <2>. QED BY <1>0, <2>1, <2>5, RetireBacked
<1>4. CASE Shutdown
  <2>1. /\ Retire(Fleet) /\ position' = position
        /\ slot' = [p \in Pads |-> NoSlot]
    BY <1>4 DEF Shutdown, envVars
  <2>. QED BY <2>1 DEF Backed, Fleet
<1>5. ASSUME NEW p \in Pads, StreamError(p) PROVE Backed'
  <2>1. /\ Retire({p}) /\ position' = position
        /\ slot' = [slot EXCEPT ![p] = NoSlot] /\ p \in Fleet
    BY <1>5 DEF StreamError, envVars, RestType
  <2>2. \A q \in Fleet' : q \in Fleet \ {p} /\ slot'[q] = slot[q]
    BY <2>1 DEF Fleet, SlotInv, SlotType
  <2>. QED BY <1>0, <2>1, <2>2, RetireBacked
<1>6. ASSUME NEW p \in Pads,
             Plug(p) \/ GuidePress(p) \/ GuideRelease(p) \/ GuideUnheard(p)
      PROVE  Backed'
  BY <1>1, <1>6 DEF Plug, GuidePress, GuideRelease, GuideUnheard, fleetVars, appVars
<1>7. ASSUME NEW p \in Pads, Unplug(p) PROVE Backed'
  <2>1. /\ UNCHANGED <<slot, presenter>>
        /\ broken' = IF p \in Fleet THEN broken \cup {p} ELSE broken
        /\ \A q \in Pads \ {p} : position'[q] = position[q]
    BY <1>7 DEF Unplug, appVars, OutsideType
  <2>2. ASSUME NEW q \in Fleet
        PROVE  q \in broken' \/ (q \notin broken /\ position'[q] = position[q])
    <3>1. CASE q = p
      BY <2>1, <3>1
    <3>2. CASE q # p
      <4>1. broken \subseteq broken'
        BY <2>1
      <4>2. q \in Pads \ {p}
        BY <3>2 DEF Fleet
      <4>. QED BY <2>1, <4>1, <4>2
    <3>. QED BY <3>1, <3>2
  <2>. QED BY <1>1, <2>1, <2>2
<1>8. ASSUME NEW p \in Pads, Unheard(p) PROVE Backed'
  <2>1. /\ UNCHANGED <<slot, broken, presenter>> /\ p \notin Fleet
        /\ \A q \in Pads \ {p} : position'[q] = position[q]
    BY <1>8 DEF Unheard, fleetVars, appVars, OutsideType
  <2>2. ASSUME NEW q \in Fleet
        PROVE  q \in broken' \/ (q \notin broken /\ position'[q] = position[q])
    BY <2>1 DEF Fleet
  <2>. QED BY <1>1, <2>1, <2>2
<1>9. ASSUME NEW p \in Pads, NEW c, Button(p, c) \/ Axis(p, c) PROVE Backed'
  BY <1>9, ButtonBacked, AxisBacked
<1>10. CASE Tick
  BY <1>1, <1>10 DEF Tick, envVars, fleetVars, appVars
<1>11. ASSUME NEW to \in Owners, SetOwner(to) PROVE Backed'
  <2>1. UNCHANGED <<slot, broken, position>>
    BY <1>11 DEF SetOwner, envVars, fleetVars
  <2>2. /\ Fleet' = Fleet
        /\ \A p \in Fleet : slot[p] \in Slots
    BY <2>1 DEF Fleet, SlotInv, SlotType
  <2>3. \A s \in Slots : presenter'[s] \in {presenter[s], Rest}
    BY <1>11, QuiescedPresenters DEF SetOwner, SwitchQuiescing, appVars
  <2>. SUFFICES ASSUME NEW p \in Fleet, p \notin broken PROVE BackedBy(p)'
    BY <2>1, <2>2 DEF Backed
  <2>. QED BY <2>1, <2>2, <2>3, BackedKept
<1>. QED
  BY <1>2, <1>3, <1>4, <1>5, <1>6, <1>7, <1>8, <1>9, <1>10, <1>11 DEF Next

(* A key that is down, and not astray, is driven by a claimed pad, or by   *)
(* one whose stream has failed.                                            *)
LEMMA KeyboardIsDriven ==
  ASSUME ShellType, KeymapInv, NEW key \in keyboard \ strayed
  PROVE  \E p \in Fleet : p \in broken \/ Drives(p, key)
<1>1. PICK p \in Pads : key \in held[p]
  BY DEF KeymapInv, KeyboardHeld
<1>2. /\ p \in Fleet
      /\ (\E a \in Axes : latch[p][a] = key) \/ ButtonHolds(p, key)
  BY <1>1 DEF KeymapInv, KeymapOf, HeldOf
<1>3. CASE ButtonHolds(p, key)
  BY <1>2, <1>3 DEF ButtonHolds, Drives
<1>4. ASSUME NEW a \in Axes, latch[p][a] = key, p \notin broken
      PROVE  Drives(p, key)
  <2>1. key # None
    BY ControlsAssumption DEF ShellType
  <2>2. a \in Controls[p] /\ position[p][a] = key
    BY <1>1, <1>4, <2>1 DEF KeymapInv, KeymapOf, LatchOf
  <2>. QED BY <2>2 DEF Drives
<1>. QED BY <1>2, <1>3, <1>4

(* What is down downstream is held by somebody: nothing that a presenter   *)
(* or the keyboard shows outlives the control that put it down, except for *)
(* a pad that is about to be retired and for a key that a repeat pressed   *)
(* astray, whatever controls the pads have.                                *)
THEOREM DownHeld == Spec => []DownIsHeldUnlessStrayed
<1>. DEFINE Inv == PresenterInv /\ KeymapInv /\ Backed
<1>1. Init => Inv
  <2>1. Init => PresenterInv /\ Backed
    BY RestIsPresenter DEF Init, PresenterInv, PresenterType, Driven, Backed, Fleet
  <2>2. Init => KeymapInv
    BY DEF Init, KeymapInv, KeyboardHeld, KeymapOf, LatchOf, HeldOf,
      AtRestOf, NoLatches
  <2>. QED BY <2>1, <2>2
<1>2. SlotInv /\ OutsideType /\ ShellType /\ RestType /\ Inv /\ [Next]_vars => Inv'
  BY PresenterStep, KeymapStep, BackedStep
<1>3. ShellType /\ Inv => DownIsHeldUnlessStrayed
  <2>. SUFFICES ASSUME ShellType, Inv PROVE DownIsHeldUnlessStrayed
    OBVIOUS
  <2>1. ASSUME NEW s \in Slots, presenter[s] # Rest
        PROVE  \E p \in Fleet : slot[p] = s /\ (p \notin broken => BackedBy(p))
    BY <2>1 DEF PresenterInv, Driven, DrivenBy, Backed
  <2>2. PresentersAreHeld
    BY <2>1 DEF PresentersAreHeld, BackedBy
  <2>3. AreHeld(keyboard \ strayed)
    BY KeyboardIsDriven DEF AreHeld
  <2>. QED BY <2>2, <2>3 DEF DownIsHeldUnlessStrayed
<1>. HIDE DEF Inv
<1>. QED BY <1>1, <1>2, <1>3, Invariants, TypedInvariants, PTL DEF Spec
=============================================================================
