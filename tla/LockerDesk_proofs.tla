--------------------------- MODULE LockerDesk_proofs ---------------------------
(***************************************************************************)
(* Proofs about LockerDesk, for any units, prescriptions and restarts.      *)
(*                                                                         *)
(* Shape relates what a thread has in hand to its place.  Page says, of a   *)
(* unit whose page two threads have not been about at once, what memory and *)
(* flash hold at each step of SetPresId and NoticeFromMemory.  Search says  *)
(* what a thread still knows of the units since it looked, if no other has  *)
(* changed which unit has what.                                             *)
(***************************************************************************)
EXTENDS LockerDesk, WellFoundedInduction, TLAPS

Busy == {"store", "notice", "fill"} \cup Writing
Carried == Prescriptions \cup {Junk}

\* What SetPresId stores.
Wanted(t) == IF goal[t] = "deposit" THEN <<pres[t]>> ELSE <<>>

\* A thread's place p, goal g, prescription r and units d go together; k are
\* the units that are known.
ShapeOf(t, p, g, r, d, k) ==
  /\ d \subseteq k
  /\ p \in {"idle", "find", "empty"} <=> d = {}
  /\ p \in {"notice", "fill"} => t = Worker
  /\ g = "none" <=> p \in {"idle", "notice", "fill"}
  /\ p = "find" => g # "clear"
  /\ p \in {"empty", "bytes"} => g = "deposit"
  /\ p = "rfid" => g # "deposit"
  /\ g \in {"deposit", "fetch"} \/ p = "fill" => r \in Prescriptions
  /\ g \in {"deposit", "fetch"} /\ d # {} => d = {Min(d)}

Shape(t) == ShapeOf(t, pc[t], goal[t], pres[t], todo[t], known)

Unknown == \A u \in Units \ known : PresId[u] = <<>> /\ Untouched(u)

Visited ==
  /\ visited \subseteq known
  /\ upc \in {"ids", "pres"} => \A u \in visited : ~Untouched(u)

\* What thread t, about the unit u, has done of its work.
Progress(t, u) ==
  /\ pc[t] \in {"notice", "fill"} => PresId[u] = <<>>
  /\ pc[t] = "fill" => ~Untouched(u)
  /\ pc[t] = "length" => length[u] = "blank"
  /\ pc[t] = "bytes" => length[u] = "some" /\ bytes[u] = Blank
  /\ pc[t] \in Writing /\ Untouched(u) => PresId[u] = Wanted(t)

Page(u) ==
  ~clash[u] =>
    /\ \A s, t \in Threads : About(s, u) /\ About(t, u) => s = t
    /\ length[u] = "blank" => bytes[u] = Blank
    /\ Len(PresId[u]) <= 1
    /\ \A t \in Threads : About(t, u) => Progress(t, u)
    /\ u \in known /\ Untouched(u) /\ ~(\E t \in Threads : About(t, u))
         => Memory(u) = PresId[u]

Search(t) ==
  ~stale[t] =>
    /\ pc[t] \in {"empty", "store"} /\ goal[t] = "deposit" => Holders(pres[t]) = {}
    /\ pc[t] = "store" /\ goal[t] = "deposit" => Turn(t) \in Empties
    /\ pc[t] \in Writing \cup {"open"} /\ goal[t] = "deposit" => Turn(t) \in Holders(pres[t])
    /\ pc[t] = "open" /\ goal[t] = "fetch" => Turn(t) \in Holders(pres[t])

\* The types, in groups.
UnitTypes ==
  /\ PresId \in [Units -> Seq(Carried)]
  /\ IsRfid \in [Units -> BOOLEAN] /\ left \in [Units -> BOOLEAN]
  /\ lastType \in [Units -> 0..2] /\ changed \in [Units -> BOOLEAN]

FlashTypes ==
  /\ length \in [Units -> {"blank", "zero", "some"}]
  /\ bytes \in [Units -> Prescriptions \cup {Blank, Junk}]

ThreadTypes ==
  /\ pc \in [Threads -> Places] /\ goal \in [Threads -> Goals]
  /\ pres \in [Threads -> Prescriptions \cup {Nothing}]
  /\ todo \in [Threads -> SUBSET Units]

OtherTypes ==
  /\ known \in SUBSET Units
  /\ upc \in {"idle", "check", "ids", "pres"} /\ visited \in SUBSET Units
  /\ restarts \in 0..MaxRestarts
  /\ stale \in [Threads -> BOOLEAN] /\ clash \in [Units -> BOOLEAN]

Types == UnitTypes /\ FlashTypes /\ ThreadTypes /\ OtherTypes

IInv ==
  /\ Types /\ Unknown /\ Visited
  /\ \A t \in Threads : Shape(t) /\ Search(t)
  /\ \A u \in Units : Page(u)

LEMMA TypesSuffice == Types => TypeOK
  BY DEF Types, UnitTypes, FlashTypes, ThreadTypes, OtherTypes, TypeOK, Carried

-----------------------------------------------------------------------------
(* The unit whose turn it is. *)

\* The searches of UnitManager end at a unit that they have found.
LEMMA MinIn ==
  ASSUME NEW S \in SUBSET Nat, S # {}
  PROVE  Min(S) \in S
<1>1. \E x \in S : \A y \in S : ~(<<y, x>> \in OpToRel(<, Nat))
  BY WFMin, NatLessThanWellFounded, Zenon
<1>2. PICK x \in S : \A y \in S : ~(y < x)
  BY <1>1, Zenon DEF OpToRel
<1>3. \A y \in S : x <= y
  BY <1>2
<1> QED
  BY <1>3 DEF Min

LEMMA MinUnits ==
  /\ \A S \in SUBSET Units : S # {} => Min(S) \in S
  /\ \A u \in Units : Min({u}) = u
<1>1. Units \subseteq Nat
  BY LockerDeskAssumption
<1>2. ASSUME NEW u \in Units PROVE Min({u}) = u
  <2>1. Min({u}) \in {u}
    BY <1>1, MinIn
  <2> QED
    BY <2>1
<1> QED
  BY <1>1, <1>2, MinIn

LEMMA TurnIn ==
  ASSUME Types, NEW t \in Threads, todo[t] # {}
  PROVE  Turn(t) \in todo[t] /\ Turn(t) \in Units
  BY MinUnits DEF Types, ThreadTypes, Turn

-----------------------------------------------------------------------------
(* One thread moves. *)

Moved(t, p, g, r, d) ==
  /\ pc' = [pc EXCEPT ![t] = p] /\ goal' = [goal EXCEPT ![t] = g]
  /\ pres' = [pres EXCEPT ![t] = r] /\ todo' = [todo EXCEPT ![t] = d]

Others(t) ==
  \A s \in Threads \ {t} :
    pc'[s] = pc[s] /\ goal'[s] = goal[s] /\ pres'[s] = pres[s] /\ todo'[s] = todo[s]

LEMMA MovedIs ==
  ASSUME Types, NEW t \in Threads, NEW p \in Places, NEW g \in Goals,
         NEW r \in Prescriptions \cup {Nothing}, NEW d \in SUBSET Units, Moved(t, p, g, r, d)
  PROVE  /\ ThreadTypes' /\ Others(t)
         /\ pc'[t] = p /\ goal'[t] = g /\ pres'[t] = r /\ todo'[t] = d
         /\ Turn(t)' = Min(d)
  BY DEF Types, ThreadTypes, Moved, Others, Turn

\* The shapes after a step of one thread.
LEMMA ShapesMoved ==
  ASSUME \A s \in Threads : Shape(s), known \subseteq known', NEW t \in Threads, Others(t),
         ShapeOf(t, pc'[t], goal'[t], pres'[t], todo'[t], known')
  PROVE  \A s \in Threads : Shape(s)'
<1>1. ASSUME NEW s \in Threads, s # t
      PROVE  Shape(s)'
  <2>1. pc'[s] = pc[s] /\ goal'[s] = goal[s] /\ pres'[s] = pres[s] /\ todo'[s] = todo[s]
    BY <1>1 DEF Others
  <2>2. Shape(s)
    BY <1>1
  <2> QED
    BY <2>1, <2>2 DEF Shape, ShapeOf
<1> QED
  BY <1>1 DEF Shape

\* Done, Goto, TurnTo and NextUnit move one thread.
LEMMA DoneMoves ==
  ASSUME NEW t \in Threads, Done(t)
  PROVE  Moved(t, "idle", "none", Nothing, {})
  BY DEF Done, Moved

LEMMA GotoMoves ==
  ASSUME Types, NEW t \in Threads, NEW p, Goto(t, p)
  PROVE  Moved(t, p, goal[t], pres[t], todo[t])
  BY DEF Types, ThreadTypes, Goto, Moved, commandVars

LEMMA TurnToMoves ==
  ASSUME Types, NEW t \in Threads, NEW u, NEW p, TurnTo(t, u, p)
  PROVE  Moved(t, p, goal[t], pres[t], {u})
  BY DEF Types, ThreadTypes, TurnTo, Moved

\* What a thread has, as constants.
LEMMA ThreadValues ==
  ASSUME IInv, NEW t \in Threads
  PROVE  \E p \in Places, g \in Goals, r \in Prescriptions \cup {Nothing}, d \in SUBSET Units :
           /\ p = pc[t] /\ g = goal[t] /\ r = pres[t] /\ d = todo[t]
           /\ ShapeOf(t, p, g, r, d, known)
  BY DEF IInv, Types, ThreadTypes, Shape

LEMMA ThreadStep ==
  ASSUME IInv, NEW t \in Threads, NEW p \in Places, NEW g \in Goals,
         NEW r \in Prescriptions \cup {Nothing}, NEW d \in SUBSET Units, Moved(t, p, g, r, d),
         known \subseteq known', ShapeOf(t, p, g, r, d, known')
  PROVE  /\ ThreadTypes' /\ Others(t) /\ \A s \in Threads : Shape(s)'
         /\ pc'[t] = p /\ goal'[t] = g /\ pres'[t] = r /\ todo'[t] = d
         /\ Turn(t)' = Min(d)
<1>1. /\ ThreadTypes' /\ Others(t) /\ Turn(t)' = Min(d)
      /\ pc'[t] = p /\ goal'[t] = g /\ pres'[t] = r /\ todo'[t] = d
  BY MovedIs DEF IInv
<1> QED
  BY <1>1, ShapesMoved DEF IInv

-----------------------------------------------------------------------------
(* The pages. *)

\* A step that leaves what the unit u has alone, and those who are about it.
LEMMA PageSame ==
  ASSUME NEW u \in Units, Page(u),
         \A s \in Threads :
           /\ About(s, u)' <=> About(s, u)
           /\ About(s, u) => pc'[s] = pc[s] /\ goal'[s] = goal[s] /\ pres'[s] = pres[s],
         PresId'[u] = PresId[u], length'[u] = length[u], bytes'[u] = bytes[u],
         Untouched(u)' => Untouched(u), u \in known' /\ Untouched(u)' => u \in known,
         clash[u] => clash'[u]
  PROVE  Page(u)'
<1>1. ASSUME NEW s \in Threads, About(s, u), Progress(s, u)
      PROVE  Progress(s, u)'
  BY <1>1 DEF Progress, Wanted
<1>2. Memory(u)' = Memory(u)
  BY DEF Memory
<1> QED
  BY <1>1, <1>2 DEF Page

\* A step of t, which is not about the unit u before or after.
LEMMA PageKept ==
  ASSUME NEW t \in Threads, Others(t), NEW u \in Units, Page(u), ~About(t, u), ~About(t, u)',
         PresId'[u] = PresId[u], length'[u] = length[u], bytes'[u] = bytes[u],
         Untouched(u)' => Untouched(u), u \in known' /\ Untouched(u)' => u \in known,
         clash[u] => clash'[u]
  PROVE  Page(u)'
<1>1. \A s \in Threads : About(s, u)' <=> About(s, u)
  BY DEF Others, About, Turn
<1>2. \A s \in Threads : About(s, u) => s # t
  OBVIOUS
<1> QED
  BY <1>1, <1>2, PageSame DEF Others

\* t becomes about the unit u.
LEMMA PageEnter ==
  ASSUME NEW t \in Threads, Others(t), NEW u \in Units, Page(u), About(t, u)',
         clash \in [Units -> BOOLEAN], clash' = [clash EXCEPT ![u] = @ \/ Crossing(t, u)],
         length'[u] = length[u], bytes'[u] = bytes[u],
         ~clash[u] => Len(PresId'[u]) <= 1, ~clash[u] => Progress(t, u)'
  PROVE  Page(u)'
<1>1. clash'[u] = (clash[u] \/ Crossing(t, u))
  OBVIOUS
<1>2. CASE clash'[u]
  BY <1>2 DEF Page
<1>3. CASE ~clash'[u]
  <2>1. ~clash[u] /\ \A s \in Threads : s # t => ~About(s, u)
    BY <1>1, <1>3 DEF Crossing
  <2>2. \A s \in Threads : s # t => ~About(s, u)'
    BY <2>1 DEF Others, About, Turn
  <2> QED
    BY <2>1, <2>2 DEF Page
<1> QED
  BY <1>2, <1>3

\* t goes on with its work about the unit u, or ends it.
LEMMA PageOwn ==
  ASSUME NEW t \in Threads, Others(t), NEW u \in Units, Page(u), About(t, u), clash' = clash,
         ~clash[u] => /\ length'[u] = "blank" => bytes'[u] = Blank
                      /\ Len(PresId'[u]) <= 1
                      /\ About(t, u)' => Progress(t, u)'
                      /\ ~About(t, u)' /\ Untouched(u)' => Memory(u)' = PresId'[u]
  PROVE  Page(u)'
<1>1. CASE clash[u]
  BY <1>1 DEF Page
<1>2. CASE ~clash[u]
  <2>1. \A s \in Threads : s # t => ~About(s, u)
    BY <1>2 DEF Page
  <2>2. \A s \in Threads : s # t => ~About(s, u)'
    BY <2>1 DEF Others, About, Turn
  <2> QED
    BY <1>2, <2>2 DEF Page
<1> QED
  BY <1>1, <1>2

-----------------------------------------------------------------------------
(* What the searches found. *)

LEMMA SearchStale ==
  ASSUME NEW t \in Threads, stale'[t] \/ pc'[t] \in {"idle", "find", "rfid", "notice", "fill"}
  PROVE  Search(t)'
  BY DEF Search, Writing

LEMMA SearchKept ==
  ASSUME NEW t \in Threads, Search(t), PresId' = PresId, known' = known,
         pc'[t] = pc[t], goal'[t] = goal[t], pres'[t] = pres[t], todo'[t] = todo[t],
         stale[t] => stale'[t]
  PROVE  Search(t)'
<1>1. /\ Holders(pres[t])' = Holders(pres[t]) /\ Empties' = Empties /\ Turn(t)' = Turn(t)
  BY DEF Holders, Empties, Turn
<1> QED
  BY <1>1 DEF Search

\* A step of t that leaves alone which unit has what, or tells the others.
LEMMA SearchOthers ==
  ASSUME IInv, NEW t \in Threads, Others(t),
         \/ PresId' = PresId /\ known' = known /\ (Calm \/ UNCHANGED stale)
         \/ Disturb(t)
  PROVE  \A s \in Threads : s # t => Search(s)'
<1> SUFFICES ASSUME NEW s \in Threads, s # t PROVE Search(s)'
  OBVIOUS
<1>1. CASE Disturb(t)
  <2>1. stale'[s] = (pc'[s] # "idle" /\ (stale[s] \/ s # t))
    BY <1>1 DEF Disturb
  <2>2. stale'[s] \/ pc'[s] = "idle"
    BY <2>1
  <2> QED
    BY <2>2, SearchStale
<1>2. CASE PresId' = PresId /\ known' = known /\ (Calm \/ UNCHANGED stale)
  <2>1. CASE pc'[s] = "idle"
    BY <2>1, SearchStale
  <2>2. CASE pc'[s] # "idle"
    <3>1. stale[s] => stale'[s]
      BY <1>2, <2>2 DEF Calm
    <3> QED
      BY <1>2, <3>1, SearchKept DEF IInv, Others
  <2> QED
    BY <2>1, <2>2
<1> QED
  BY <1>1, <1>2

LEMMA StaleType ==
  ASSUME IInv, NEW t, Calm \/ Disturb(t) \/ UNCHANGED stale
  PROVE  stale' \in [Threads -> BOOLEAN]
<1>1. CASE Calm
  BY <1>1 DEF Calm
<1>2. CASE Disturb(t)
  BY <1>2 DEF Disturb
<1>3. CASE UNCHANGED stale
  BY <1>3 DEF IInv, Types, OtherTypes
<1> QED
  BY <1>1, <1>2, <1>3

-----------------------------------------------------------------------------
(* Steps of a command that change no unit. *)

LEMMA QuietStep ==
  ASSUME IInv, NEW t \in Threads, NEW p \in Places, NEW g \in Goals,
         NEW r \in Prescriptions \cup {Nothing}, NEW d \in SUBSET Units, Moved(t, p, g, r, d),
         ShapeOf(t, p, g, r, d, known),
         UNCHANGED <<known, unitVars, flashVars, unitsVars, restarts, clash>>,
         Calm \/ UNCHANGED stale, pc[t] \notin Busy, p \notin Busy, Search(t)'
  PROVE  IInv'
<1>1. /\ UNCHANGED <<known, PresId, IsRfid, left, lastType, changed, length, bytes, upc,
                     visited, restarts, clash>>
  BY DEF unitVars, flashVars, unitsVars
<1>2. /\ ThreadTypes' /\ Others(t) /\ (\A s \in Threads : Shape(s)') /\ pc'[t] = p
  BY <1>1, ThreadStep
<1>3. stale' \in [Threads -> BOOLEAN]
  BY StaleType
<1>4. Types'
  BY <1>1, <1>2, <1>3 DEF IInv, Types, UnitTypes, FlashTypes, OtherTypes
<1>5. Unknown' /\ Visited'
  BY <1>1 DEF IInv, Unknown, Visited, Untouched
<1>6. \A s \in Threads : Search(s)'
  BY <1>1, <1>2, SearchOthers
<1>7. ASSUME NEW u \in Units
      PROVE  Page(u)'
  <2>1. ~About(t, u) /\ ~About(t, u)'
    BY <1>2 DEF About, Busy
  <2> QED
    BY <1>1, <1>2, <2>1, PageKept DEF IInv, Untouched
<1> QED
  BY <1>2, <1>4, <1>5, <1>6, <1>7 DEF IInv

LEMMA BeginKeeps ==
  ASSUME IInv, NEW t \in Threads, NEW g \in {"deposit", "fetch"}, NEW p \in Prescriptions,
         Begin(t, g, p)
  PROVE  IInv'
<1>1. PICK d \in SUBSET Units : d = todo[t] /\ d = {} /\ pc[t] = "idle"
  BY ThreadValues DEF Begin, ShapeOf
<1>2. Moved(t, "find", g, p, d)
  BY <1>1 DEF Begin, Moved, IInv, Types, ThreadTypes
<1>3. "find" \in Places /\ g \in Goals /\ "find" \notin Busy /\ pc[t] \notin Busy
  BY <1>1 DEF Places, Goals, Busy, Writing
<1>4. ShapeOf(t, "find", g, p, d, known)
  BY <1>1 DEF ShapeOf
<1>5. Search(t)'
  <2>1. pc'[t] = "find"
    BY <1>2, <1>3, MovedIs DEF IInv
  <2> QED
    BY <2>1, SearchStale
<1> QED
  BY <1>2, <1>3, <1>4, <1>5, QuietStep DEF Begin

LEMMA BeginOpenKeeps ==
  ASSUME IInv, NEW t \in Threads, NEW units \in SUBSET known, BeginOpen(t, units)
  PROVE  IInv'
<1>1. PICK r \in Prescriptions \cup {Nothing} : r = pres[t] /\ pc[t] = "idle"
  BY ThreadValues DEF BeginOpen
<1>2. units \in SUBSET Units /\ units # {}
  BY DEF BeginOpen, IInv, Types, OtherTypes
<1>3. Moved(t, "open", "clear", r, units)
  BY <1>1 DEF BeginOpen, Moved, IInv, Types, ThreadTypes
<1>4. "open" \in Places /\ "clear" \in Goals /\ "open" \notin Busy /\ pc[t] \notin Busy
  BY <1>1 DEF Places, Goals, Busy, Writing
<1>5. ShapeOf(t, "open", "clear", r, units, known)
  BY <1>2 DEF ShapeOf
<1>6. Search(t)'
  <2>1. pc'[t] = "open" /\ goal'[t] = "clear"
    BY <1>2, <1>3, <1>4, MovedIs DEF IInv
  <2> QED
    BY <2>1 DEF Search
<1> QED
  BY <1>2, <1>3, <1>4, <1>5, <1>6, QuietStep DEF BeginOpen

\* A command ends.
LEMMA DoneKeeps ==
  ASSUME IInv, NEW t \in Threads, Done(t), pc[t] \notin Busy, Calm,
         UNCHANGED <<known, unitVars, flashVars, unitsVars, restarts, clash>>
  PROVE  IInv'
<1>1. Moved(t, "idle", "none", Nothing, {})
  BY DoneMoves
<1>2. /\ "idle" \in Places /\ "none" \in Goals /\ "idle" \notin Busy
      /\ {} \in SUBSET Units /\ Nothing \in Prescriptions \cup {Nothing}
  BY DEF Places, Goals, Busy, Writing
<1>3. ShapeOf(t, "idle", "none", Nothing, {}, known)
  BY DEF ShapeOf
<1>4. Search(t)'
  <2>1. pc'[t] = "idle"
    BY <1>1, <1>2, MovedIs DEF IInv
  <2> QED
    BY <2>1, SearchStale
<1> QED
  BY <1>1, <1>2, <1>3, <1>4, QuietStep

LEMMA FindHolderKeeps ==
  ASSUME IInv, NEW t \in Threads, FindHolder(t)
  PROVE  IInv'
<1>1. PICK g \in Goals, r \in Prescriptions \cup {Nothing}, d \in SUBSET Units :
        /\ g = goal[t] /\ r = pres[t] /\ d = todo[t]
        /\ ShapeOf(t, "find", g, r, d, known)
  BY ThreadValues DEF FindHolder
<1>2. /\ pc[t] = "find" /\ pc[t] \notin Busy /\ "empty" \notin Busy /\ "open" \notin Busy
      /\ "empty" \in Places /\ "open" \in Places
      /\ UNCHANGED <<known, unitVars, flashVars, unitsVars, restarts, clash>> /\ Calm
  BY DEF FindHolder, Busy, Writing, Places
<1>3. CASE Done(t)
  BY <1>2, <1>3, DoneKeeps
<1>4. CASE g = "deposit" /\ Holders(r) = {} /\ Goto(t, "empty")
  <2>1. Moved(t, "empty", g, r, d)
    BY <1>1, <1>4, GotoMoves DEF IInv
  <2>2. ShapeOf(t, "empty", g, r, d, known)
    BY <1>1, <1>4 DEF ShapeOf
  <2>3. pc'[t] = "empty" /\ goal'[t] = g /\ pres'[t] = r
    BY <1>2, <2>1, MovedIs DEF IInv
  <2>4. Holders(r)' = {}
    BY <1>2, <1>4 DEF Holders, unitVars
  <2>5. Search(t)'
    BY <2>3, <2>4 DEF Search, Writing
  <2> QED
    BY <1>2, <2>1, <2>2, <2>5, QuietStep
<1>5. CASE g # "deposit" /\ Holders(r) # {} /\ TurnTo(t, Min(Holders(r)), "open")
  <2>1. g = "fetch"
    BY <1>1, <1>5 DEF ShapeOf, Goals
  <2>2. Holders(r) \subseteq known /\ known \in SUBSET Units
    BY DEF Holders, IInv, Types, OtherTypes
  <2>3. PICK u \in Units : u = Min(Holders(r)) /\ u \in Holders(r)
    BY <1>5, <2>2, MinUnits
  <2>4. Moved(t, "open", g, r, {u})
    BY <1>1, <1>5, <2>3, TurnToMoves DEF IInv
  <2>5. Min({u}) = u
    BY MinUnits
  <2>6. ShapeOf(t, "open", g, r, {u}, known)
    BY <1>1, <2>1, <2>2, <2>3, <2>5 DEF ShapeOf
  <2>7. pc'[t] = "open" /\ goal'[t] = g /\ pres'[t] = r /\ Turn(t)' = u
    BY <1>2, <2>4, <2>5, MovedIs DEF IInv
  <2>8. Holders(r)' = Holders(r)
    BY <1>2 DEF Holders, unitVars
  <2>9. Search(t)'
    BY <2>1, <2>3, <2>7, <2>8 DEF Search, Writing
  <2> QED
    BY <1>2, <2>4, <2>6, <2>9, QuietStep
<1> QED
  BY <1>1, <1>3, <1>4, <1>5 DEF FindHolder

LEMMA OpenKeeps ==
  ASSUME IInv, NEW t \in Threads, Open(t)
  PROVE  IInv'
<1>1. PICK g \in Goals, r \in Prescriptions \cup {Nothing}, d \in SUBSET Units :
        /\ g = goal[t] /\ r = pres[t] /\ d = todo[t]
        /\ ShapeOf(t, "open", g, r, d, known)
  BY ThreadValues DEF Open
<1>2. /\ pc[t] = "open" /\ pc[t] \notin Busy /\ "rfid" \notin Busy /\ "rfid" \in Places
      /\ UNCHANGED <<known, unitVars, flashVars, unitsVars, restarts, clash>> /\ Calm
  BY DEF Open, Busy, Writing, Places
<1>3. CASE Done(t)
  BY <1>2, <1>3, DoneKeeps
<1>4. CASE g # "deposit" /\ Goto(t, "rfid")
  <2>1. Moved(t, "rfid", g, r, d)
    BY <1>1, <1>4, GotoMoves DEF IInv
  <2>2. ShapeOf(t, "rfid", g, r, d, known)
    BY <1>1, <1>4 DEF ShapeOf
  <2>3. pc'[t] = "rfid"
    BY <1>2, <2>1, MovedIs DEF IInv
  <2> QED
    BY <1>2, <2>1, <2>2, <2>3, QuietStep, SearchStale
<1> QED
  BY <1>1, <1>3, <1>4 DEF Open

\* A thread sets about the page of the unit u.
LEMMA StoreNext ==
  ASSUME IInv, NEW t \in Threads, NEW g \in Goals, NEW r \in Prescriptions \cup {Nothing},
         NEW d \in SUBSET Units, Moved(t, "store", g, r, d), ShapeOf(t, "store", g, r, d, known),
         NEW u \in Units, u = Min(d), d # {},
         clash' = [clash EXCEPT ![u] = @ \/ Crossing(t, u)],
         UNCHANGED <<known, unitVars, flashVars, unitsVars, restarts>>,
         Calm, pc[t] \notin Busy, Search(t)'
  PROVE  IInv'
<1>1. /\ UNCHANGED <<known, PresId, IsRfid, left, lastType, changed, length, bytes, upc,
                     visited, restarts>>
  BY DEF unitVars, flashVars, unitsVars
<1>2. "store" \in Places /\ "store" \in Busy /\ "store" \notin Writing
  BY DEF Places, Busy, Writing
<1>3. /\ ThreadTypes' /\ Others(t) /\ (\A s \in Threads : Shape(s)')
      /\ pc'[t] = "store" /\ todo'[t] = d /\ Turn(t)' = u
  BY <1>1, <1>2, ThreadStep
<1>4. clash \in [Units -> BOOLEAN]
  BY DEF IInv, Types, OtherTypes
<1>5. clash'[u] = (clash[u] \/ Crossing(t, u)) /\ \A v \in Units : v # u => clash'[v] = clash[v]
  BY <1>4
<1>6. clash' \in [Units -> BOOLEAN]
  BY <1>4, ZenonT(60) DEF Crossing
<1>7. Types'
  BY <1>1, <1>3, <1>6, StaleType DEF IInv, Types, UnitTypes, FlashTypes, OtherTypes
<1>8. Unknown' /\ Visited'
  BY <1>1 DEF IInv, Unknown, Visited, Untouched
<1>9. \A s \in Threads : Search(s)'
  BY <1>1, <1>3, SearchOthers
<1>10. ASSUME NEW v \in Units, v # u
       PROVE  Page(v)'
  <2>1. ~About(t, v) /\ ~About(t, v)'
    BY <1>3, <1>10 DEF About, Busy
  <2> QED
    BY <1>1, <1>3, <1>5, <1>10, <2>1, PageKept DEF IInv, Untouched
<1>11. Page(u)'
  <2>1. About(t, u)'
    BY <1>2, <1>3 DEF About
  <2>2. Progress(t, u)'
    BY <1>2, <1>3 DEF Progress
  <2>3. Page(u) /\ (~clash[u] => Len(PresId'[u]) <= 1)
    BY <1>1 DEF IInv, Page
  <2> QED
    BY <1>1, <1>3, <1>4, <2>1, <2>2, <2>3, PageEnter
<1> QED
  BY <1>3, <1>7, <1>8, <1>9, <1>10, <1>11 DEF IInv

LEMMA FindEmptyKeeps ==
  ASSUME IInv, NEW t \in Threads, FindEmpty(t)
  PROVE  IInv'
<1>1. PICK g \in Goals, r \in Prescriptions \cup {Nothing}, d \in SUBSET Units :
        /\ g = goal[t] /\ r = pres[t] /\ d = todo[t]
        /\ ShapeOf(t, "empty", g, r, d, known)
  BY ThreadValues DEF FindEmpty
<1>2. /\ pc[t] = "empty" /\ pc[t] \notin Busy
      /\ UNCHANGED <<known, unitVars, flashVars, unitsVars, restarts>> /\ Calm
  BY DEF FindEmpty, Busy, Writing
<1>3. CASE Empties = {}
  BY <1>2, <1>3, DoneKeeps DEF FindEmpty
<1>4. CASE Empties # {}
  <2>1. Empties \subseteq known /\ known \in SUBSET Units
    BY DEF Empties, IInv, Types, OtherTypes
  <2>2. PICK u \in Units : u = Min(Empties) /\ u \in Empties
    BY <1>4, <2>1, MinUnits
  <2>3. TurnTo(t, u, "store") /\ clash' = [clash EXCEPT ![u] = @ \/ Crossing(t, u)]
    BY <1>4, <2>2 DEF FindEmpty
  <2>4. Moved(t, "store", g, r, {u})
    BY <1>1, <2>3, TurnToMoves DEF IInv
  <2>5. Min({u}) = u
    BY MinUnits
  <2>6. g = "deposit" /\ ShapeOf(t, "store", g, r, {u}, known)
    BY <1>1, <2>1, <2>2, <2>5 DEF ShapeOf
  <2>7. Holders(r)' = Holders(r) /\ Empties' = Empties
    BY <1>2 DEF Holders, Empties, unitVars
  <2>8. "store" \in Places /\ "store" \notin Writing
    BY DEF Places, Writing
  <2>9. pc'[t] = "store" /\ goal'[t] = g /\ pres'[t] = r /\ Turn(t)' = u
    BY <2>4, <2>5, <2>8, MovedIs DEF IInv
  <2>10. ~stale'[t] => ~stale[t]
    BY <1>2, <2>9 DEF Calm
  <2>11. ~stale[t] => Holders(r) = {}
    BY <1>1, <1>2, <2>6 DEF IInv, Search
  <2>12. Search(t)'
    BY <2>2, <2>7, <2>8, <2>9, <2>10, <2>11 DEF Search
  <2>13. {u} \in SUBSET Units /\ {u} # {}
    OBVIOUS
  <2> QED
    BY <1>2, <2>3, <2>4, <2>5, <2>6, <2>12, <2>13, StoreNext
<1> QED
  BY <1>3, <1>4

\* The command ends, or turns to the next of the units to open.
LEMMA NextUnitMoves ==
  ASSUME IInv, NEW t \in Threads, NextUnit(t), pc[t] \in {"rfid", "length"}
  PROVE  \E p \in {"idle", "open"}, g \in Goals, r \in Prescriptions \cup {Nothing},
            d \in SUBSET Units :
           /\ Moved(t, p, g, r, d) /\ ShapeOf(t, p, g, r, d, known)
           /\ p = "open" => g = "clear"
<1>1. PICK p \in Places, g \in Goals, r \in Prescriptions \cup {Nothing}, d \in SUBSET Units :
        /\ p = pc[t] /\ g = goal[t] /\ r = pres[t] /\ d = todo[t]
        /\ ShapeOf(t, p, g, r, d, known)
  BY ThreadValues
<1>2. d # {}
  BY <1>1 DEF ShapeOf
<1>3. PICK u \in Units : u = Min(d) /\ u \in d
  BY <1>2, MinUnits
<1>4. Turn(t) = u
  BY <1>1, <1>3 DEF Turn
<1>5. CASE d = {u}
  <2>1. Moved(t, "idle", "none", Nothing, {})
    BY <1>1, <1>4, <1>5, DoneMoves DEF NextUnit
  <2>2. ShapeOf(t, "idle", "none", Nothing, {}, known)
    BY DEF ShapeOf
  <2>3. "none" \in Goals /\ {} \in SUBSET Units /\ Nothing \in Prescriptions \cup {Nothing}
    BY DEF Goals
  <2> QED
    BY <2>1, <2>2, <2>3
<1>6. CASE d # {u}
  <2>1. g = "clear"
    BY <1>1, <1>2, <1>3, <1>6 DEF ShapeOf, Goals
  <2>2. Moved(t, "open", g, r, d \ {u})
    BY <1>1, <1>4, <1>6 DEF NextUnit, Moved, IInv, Types, ThreadTypes
  <2>3. d \ {u} # {} /\ d \ {u} \subseteq known /\ d \ {u} \in SUBSET Units
    BY <1>1, <1>3, <1>6 DEF ShapeOf
  <2>4. ShapeOf(t, "open", g, r, d \ {u}, known)
    BY <2>1, <2>3 DEF ShapeOf
  <2> QED
    BY <2>1, <2>2, <2>3, <2>4
<1> QED
  BY <1>5, <1>6

LEMMA CheckRfidKeeps ==
  ASSUME IInv, NEW t \in Threads, CheckRfid(t)
  PROVE  IInv'
<1>1. PICK g \in Goals, r \in Prescriptions \cup {Nothing}, d \in SUBSET Units :
        /\ g = goal[t] /\ r = pres[t] /\ d = todo[t]
        /\ ShapeOf(t, "rfid", g, r, d, known)
  BY ThreadValues DEF CheckRfid
<1>2. /\ pc[t] = "rfid" /\ pc[t] \notin Busy
      /\ UNCHANGED <<known, unitVars, flashVars, unitsVars, restarts>> /\ Calm
  BY DEF CheckRfid, Busy, Writing
<1>3. d # {} /\ g # "deposit"
  BY <1>1 DEF ShapeOf
<1>4. CASE IsRfid[Turn(t)]
  <2>1. NextUnit(t) /\ UNCHANGED clash
    BY <1>4 DEF CheckRfid
  <2>2. PICK p \in {"idle", "open"}, h \in Goals, q \in Prescriptions \cup {Nothing},
             e \in SUBSET Units :
          /\ Moved(t, p, h, q, e) /\ ShapeOf(t, p, h, q, e, known)
          /\ p = "open" => h = "clear"
    BY <1>2, <2>1, NextUnitMoves
  <2>3. p \in Places /\ p \notin Busy
    BY DEF Places, Busy, Writing
  <2>4. pc'[t] = p /\ goal'[t] = h
    BY <2>2, <2>3, MovedIs DEF IInv
  <2>5. Search(t)'
    BY <2>2, <2>4 DEF Search, Writing
  <2> QED
    BY <1>2, <2>1, <2>2, <2>3, <2>5, QuietStep
<1>5. CASE ~IsRfid[Turn(t)]
  <2>1. PICK u \in Units : u = Turn(t) /\ u = Min(d)
    BY <1>1, <1>3, TurnIn DEF IInv, Turn
  <2>2. Goto(t, "store") /\ clash' = [clash EXCEPT ![u] = @ \/ Crossing(t, u)]
    BY <1>5, <2>1 DEF CheckRfid
  <2>3. Moved(t, "store", g, r, d)
    BY <1>1, <2>2, GotoMoves DEF IInv
  <2>4. ShapeOf(t, "store", g, r, d, known)
    BY <1>1, <1>3 DEF ShapeOf
  <2>5. "store" \in Places /\ "store" \notin Writing
    BY DEF Places, Writing
  <2>6. pc'[t] = "store" /\ goal'[t] # "deposit"
    BY <1>3, <2>3, <2>5, MovedIs DEF IInv
  <2>7. Search(t)'
    BY <2>5, <2>6 DEF Search
  <2> QED
    BY <1>2, <1>3, <2>1, <2>2, <2>3, <2>4, <2>7, StoreNext
<1> QED
  BY <1>4, <1>5

-----------------------------------------------------------------------------
(* SetPresId.                                                               *)

\* A step of the work about the page of the unit u.
LEMMA WorkKeeps ==
  ASSUME IInv, NEW t \in Threads, NEW p \in Places, NEW g \in Goals,
         NEW r \in Prescriptions \cup {Nothing}, NEW d \in SUBSET Units, Moved(t, p, g, r, d),
         ShapeOf(t, p, g, r, d, known), NEW u \in Units, About(t, u),
         p \in Busy => Min(d) = u,
         \A v \in Units : v # u => /\ PresId'[v] = PresId[v]
                                   /\ length'[v] = length[v] /\ bytes'[v] = bytes[v],
         UNCHANGED <<known, left, lastType, unitsVars, restarts, clash>>,
         UnitTypes', FlashTypes', Page(u)', Search(t)',
         \/ PresId' = PresId /\ (Calm \/ UNCHANGED stale)
         \/ Disturb(t)
  PROVE  IInv'
<1>1. UNCHANGED <<known, left, lastType, upc, visited, restarts, clash>>
  BY DEF unitsVars
<1>2. /\ ThreadTypes' /\ Others(t) /\ (\A s \in Threads : Shape(s)')
      /\ pc'[t] = p /\ todo'[t] = d /\ Turn(t)' = Min(d)
  BY <1>1, ThreadStep
<1>3. Types'
  BY <1>1, <1>2, StaleType DEF IInv, Types, OtherTypes
<1>4. u \in known
  BY TurnIn DEF About, IInv, Shape, ShapeOf
<1>5. Unknown' /\ Visited'
  BY <1>1, <1>4 DEF IInv, Unknown, Visited, Untouched
<1>6. \A s \in Threads : Search(s)'
  BY <1>1, <1>2, SearchOthers
<1>7. ASSUME NEW v \in Units, v # u
      PROVE  Page(v)'
  <2>1. ~About(t, v) /\ ~About(t, v)'
    BY <1>2, <1>7 DEF About, Busy
  <2> QED
    BY <1>1, <1>2, <1>7, <2>1, PageKept DEF IInv, Untouched
<1> QED
  BY <1>2, <1>3, <1>5, <1>6, <1>7 DEF IInv

LEMMA BusyPlaces ==
  /\ {"prepare", "length", "bytes"} \subseteq Busy /\ {"store", "prepare", "length", "bytes"} \subseteq Busy
  /\ {"idle", "open"} \cap Busy = {}
  /\ {"prepare", "length", "bytes", "open", "idle"} \subseteq Places
  /\ {"store", "open", "idle"} \cap Writing = {}
  BY DEF Busy, Writing, Places

\* What a thread about a page has, as constants.
LEMMA WorkValues ==
  ASSUME IInv, NEW t \in Threads, pc[t] \in {"store", "prepare", "length", "bytes"}
  PROVE  \E g \in Goals, r \in Prescriptions \cup {Nothing}, d \in SUBSET Units, u \in Units :
           /\ g = goal[t] /\ r = pres[t] /\ d = todo[t] /\ d # {}
           /\ ShapeOf(t, pc[t], g, r, d, known)
           /\ u = Turn(t) /\ u = Min(d) /\ u \in known /\ About(t, u) /\ Page(u)
<1>1. PICK p \in Places, g \in Goals, r \in Prescriptions \cup {Nothing}, d \in SUBSET Units :
        /\ p = pc[t] /\ g = goal[t] /\ r = pres[t] /\ d = todo[t]
        /\ ShapeOf(t, p, g, r, d, known)
  BY ThreadValues
<1>2. d # {} /\ d \subseteq known
  BY <1>1 DEF ShapeOf
<1>3. PICK u \in Units : u = Turn(t) /\ u = Min(d) /\ u \in d
  BY <1>1, <1>2, MinUnits DEF Turn
<1>4. About(t, u)
  BY <1>1, <1>2, <1>3 DEF About, Writing
<1> QED
  BY <1>1, <1>2, <1>3, <1>4 DEF IInv

LEMMA StoreKeeps ==
  ASSUME IInv, NEW t \in Threads, Store(t)
  PROVE  IInv'
<1>1. PICK g \in Goals, r \in Prescriptions \cup {Nothing}, d \in SUBSET Units, u \in Units :
        /\ g = goal[t] /\ r = pres[t] /\ d = todo[t] /\ d # {}
        /\ ShapeOf(t, "store", g, r, d, known)
        /\ u = Turn(t) /\ u = Min(d) /\ u \in known /\ About(t, u) /\ Page(u)
  BY WorkValues DEF Store
<1>2. PICK w \in Seq(Carried) : w = (IF g = "deposit" THEN <<r>> ELSE <<>>) /\ Len(w) <= 1
  <2> DEFINE x == IF g = "deposit" THEN <<r>> ELSE <<>>
  <2>1. CASE g = "deposit"
    <3>1. r \in Carried
      BY <1>1, <2>1 DEF ShapeOf, Carried
    <3>2. x = <<r>>
      BY <2>1
    <3>3. x \in Seq(Carried) /\ Len(x) <= 1
      BY <3>1, <3>2
    <3> QED
      BY <3>3
  <2>2. CASE g # "deposit"
    <3>1. x = <<>>
      BY <2>2
    <3>2. x \in Seq(Carried) /\ Len(x) <= 1
      BY <3>1
    <3> QED
      BY <3>2
  <2> QED
    BY <2>1, <2>2
<1>3. /\ PresId' = [PresId EXCEPT ![u] = w]
      /\ Goto(t, "prepare") /\ Disturb(t)
      /\ UNCHANGED <<known, IsRfid, left, lastType, changed, length, bytes, unitsVars, restarts,
                     clash>>
  BY <1>1, <1>2 DEF Store, flashVars
<1>4. PresId'[u] = w /\ \A v \in Units : v # u => PresId'[v] = PresId[v]
  BY <1>3 DEF IInv, Types, UnitTypes
<1>5. UnitTypes' /\ FlashTypes'
  BY <1>2, <1>3 DEF IInv, Types, UnitTypes, FlashTypes
<1>6. Moved(t, "prepare", g, r, d)
  BY <1>1, <1>3, GotoMoves DEF IInv
<1>7. ShapeOf(t, "prepare", g, r, d, known)
  BY <1>1 DEF ShapeOf
<1>8. /\ Others(t) /\ pc'[t] = "prepare" /\ goal'[t] = g /\ pres'[t] = r /\ todo'[t] = d
      /\ Turn(t)' = u
  BY <1>1, <1>3, <1>6, <1>7, BusyPlaces, ThreadStep
<1>9. Wanted(t)' = w
  BY <1>2, <1>8 DEF Wanted
<1>10. Progress(t, u)'
  BY <1>4, <1>8, <1>9 DEF Progress
<1>11. About(t, u)'
  BY <1>1, <1>8 DEF About, Writing
<1>12. Page(u)'
  BY <1>1, <1>2, <1>3, <1>4, <1>8, <1>10, <1>11, PageOwn DEF Page
<1>13. Search(t)'
  <2>1. CASE g = "deposit"
    BY <1>1, <1>2, <1>3, <1>4, <1>8, <2>1, BusyPlaces DEF Search, Holders
  <2>2. CASE g # "deposit"
    BY <1>8, <2>2 DEF Search
  <2> QED
    BY <2>1, <2>2
<1> QED
  BY <1>1, <1>3, <1>4, <1>5, <1>6, <1>7, <1>12, <1>13, BusyPlaces, WorkKeeps

LEMMA PrepareKeeps ==
  ASSUME IInv, NEW t \in Threads, Prepare(t)
  PROVE  IInv'
<1>1. PICK g \in Goals, r \in Prescriptions \cup {Nothing}, d \in SUBSET Units, u \in Units :
        /\ g = goal[t] /\ r = pres[t] /\ d = todo[t] /\ d # {}
        /\ ShapeOf(t, "prepare", g, r, d, known)
        /\ u = Turn(t) /\ u = Min(d) /\ u \in known /\ About(t, u) /\ Page(u)
  BY WorkValues DEF Prepare
<1>2. /\ Goto(t, "length") /\ pc[t] = "prepare"
      /\ UNCHANGED <<known, PresId, IsRfid, left, lastType, changed, unitsVars, restarts, stale,
                     clash>>
  BY DEF Prepare, unitVars
<1>3. /\ FlashTypes'
      /\ \A v \in Units : v # u => length'[v] = length[v] /\ bytes'[v] = bytes[v]
      /\ length'[u] = "blank" /\ (bytes'[u] = Blank \/ (length[u] = "blank" /\ bytes'[u] = bytes[u]))
  BY <1>1 DEF Prepare, flashVars, IInv, Types, FlashTypes
<1>4. UnitTypes'
  BY <1>2 DEF IInv, Types, UnitTypes
<1>5. Moved(t, "length", g, r, d)
  BY <1>1, <1>2, GotoMoves DEF IInv
<1>6. ShapeOf(t, "length", g, r, d, known)
  BY <1>1 DEF ShapeOf
<1>7. /\ Others(t) /\ pc'[t] = "length" /\ goal'[t] = g /\ pres'[t] = r /\ todo'[t] = d
      /\ Turn(t)' = u
  BY <1>1, <1>2, <1>5, <1>6, BusyPlaces, ThreadStep
<1>8. About(t, u)'
  BY <1>1, <1>7 DEF About, Writing
<1>9. ~clash[u] => Progress(t, u)'
  <2>1. Wanted(t)' = Wanted(t)
    BY <1>1, <1>7 DEF Wanted
  <2>2. ~clash[u] => Progress(t, u)
    BY <1>1 DEF Page
  <2> QED
    BY <1>2, <1>3, <1>7, <2>1, <2>2 DEF Progress, Untouched, Writing
<1>10. Page(u)'
  BY <1>1, <1>2, <1>3, <1>7, <1>8, <1>9, PageOwn DEF Page
<1>11. Search(t)'
  <2>1. Search(t) /\ Holders(r)' = Holders(r)
    BY <1>2 DEF IInv, Holders
  <2> QED
    BY <1>1, <1>2, <1>7, <2>1 DEF Search, Writing
<1> QED
  BY <1>1, <1>2, <1>3, <1>4, <1>5, <1>6, <1>10, <1>11, BusyPlaces, WorkKeeps

LEMMA ProgramLengthKeeps ==
  ASSUME IInv, NEW t \in Threads, ProgramLength(t)
  PROVE  IInv'
<1>1. PICK g \in Goals, r \in Prescriptions \cup {Nothing}, d \in SUBSET Units, u \in Units :
        /\ g = goal[t] /\ r = pres[t] /\ d = todo[t] /\ d # {}
        /\ ShapeOf(t, "length", g, r, d, known)
        /\ u = Turn(t) /\ u = Min(d) /\ u \in known /\ About(t, u) /\ Page(u)
  BY WorkValues DEF ProgramLength
<1>2. /\ pc[t] = "length" /\ Calm
      /\ UNCHANGED <<known, PresId, IsRfid, left, lastType, changed, bytes, unitsVars, restarts,
                     clash>>
  BY DEF ProgramLength, unitVars
<1>3. PICK l \in {"some", "zero"} :
        /\ l = IF g = "deposit" /\ length[u] # "zero" THEN "some" ELSE "zero"
        /\ length' = [length EXCEPT ![u] = l]
  BY <1>1 DEF ProgramLength
<1>4. /\ FlashTypes' /\ UnitTypes' /\ length'[u] = l
      /\ \A v \in Units : v # u => length'[v] = length[v]
  BY <1>2, <1>3 DEF IInv, Types, FlashTypes, UnitTypes
<1>5. ~clash[u] => Progress(t, u) /\ length[u] = "blank" /\ bytes[u] = Blank /\ Len(PresId[u]) <= 1
  BY <1>1, <1>2 DEF Page, Progress
<1>6. CASE g = "deposit"
  <2>1. Goto(t, "bytes")
    BY <1>1, <1>6 DEF ProgramLength
  <2>2. Moved(t, "bytes", g, r, d)
    BY <1>1, <2>1, GotoMoves DEF IInv
  <2>3. ShapeOf(t, "bytes", g, r, d, known)
    BY <1>1, <1>6 DEF ShapeOf
  <2>4. /\ Others(t) /\ pc'[t] = "bytes" /\ goal'[t] = g /\ pres'[t] = r /\ todo'[t] = d
        /\ Turn(t)' = u
    BY <1>1, <1>2, <2>2, <2>3, BusyPlaces, ThreadStep
  <2>5. About(t, u)'
    BY <1>1, <2>4 DEF About, Writing
  <2>6. ~clash[u] => Progress(t, u)'
    <3>1. Wanted(t)' = Wanted(t)
      BY <1>1, <2>4 DEF Wanted
    <3>2. ~clash[u] => length'[u] = "some"
      BY <1>3, <1>4, <1>5, <1>6
    <3> QED
      BY <1>2, <1>5, <2>4, <3>1, <3>2 DEF Progress, Untouched, Writing
  <2>7. Page(u)'
    <3>1. length'[u] # "blank"
      BY <1>4
    <3> QED
      BY <1>1, <1>2, <1>5, <2>4, <2>5, <2>6, <3>1, PageOwn
  <2>8. Search(t)'
    <3>1. Search(t) /\ Holders(r)' = Holders(r)
      BY <1>2 DEF IInv, Holders
    <3>2. ~stale'[t] => ~stale[t]
      BY <1>2, <2>4 DEF Calm
    <3> QED
      BY <1>1, <1>2, <2>4, <3>1, <3>2 DEF Search, Writing
  <2> QED
    BY <1>1, <1>2, <1>4, <2>2, <2>3, <2>7, <2>8, BusyPlaces, WorkKeeps
<1>7. CASE g # "deposit"
  <2>1. NextUnit(t)
    BY <1>1, <1>7 DEF ProgramLength
  <2>2. PICK p \in {"idle", "open"}, h \in Goals, q \in Prescriptions \cup {Nothing},
             e \in SUBSET Units :
          /\ Moved(t, p, h, q, e) /\ ShapeOf(t, p, h, q, e, known)
          /\ p = "open" => h = "clear"
    BY <1>2, <2>1, NextUnitMoves
  <2>3. p \in Places /\ p \notin Busy
    BY BusyPlaces
  <2>4. Others(t) /\ pc'[t] = p /\ goal'[t] = h
    BY <1>2, <2>2, <2>3, ThreadStep
  <2>5. Search(t)'
    BY <2>2, <2>4 DEF Search, Writing
  <2>6. ~About(t, u)'
    BY <2>3, <2>4 DEF About, Busy
  <2>7. ~clash[u] /\ Untouched(u) => PresId[u] = <<>>
    BY <1>1, <1>2, <1>5, <1>7 DEF Progress, Wanted, Writing
  <2>8. Memory(u)' = <<>> /\ length'[u] # "blank"
    BY <1>3, <1>4, <1>7 DEF Memory
  <2>9. Page(u)'
    BY <1>1, <1>2, <1>5, <2>4, <2>6, <2>7, <2>8, PageOwn DEF Untouched
  <2> QED
    BY <1>1, <1>2, <1>4, <2>2, <2>3, <2>5, <2>9, WorkKeeps
<1> QED
  BY <1>6, <1>7

LEMMA ProgramBytesKeeps ==
  ASSUME IInv, NEW t \in Threads, ProgramBytes(t)
  PROVE  IInv'
<1>1. PICK g \in Goals, r \in Prescriptions \cup {Nothing}, d \in SUBSET Units, u \in Units :
        /\ g = goal[t] /\ r = pres[t] /\ d = todo[t] /\ d # {}
        /\ ShapeOf(t, "bytes", g, r, d, known)
        /\ u = Turn(t) /\ u = Min(d) /\ u \in known /\ About(t, u) /\ Page(u)
  BY WorkValues DEF ProgramBytes
<1>2. /\ pc[t] = "bytes" /\ Goto(t, "open")
      /\ UNCHANGED <<known, PresId, IsRfid, left, lastType, changed, length, unitsVars, restarts,
                     stale, clash>>
  BY DEF ProgramBytes, unitVars
<1>3. g = "deposit" /\ r \in Prescriptions
  BY <1>1 DEF ShapeOf
<1>4. PICK b \in Prescriptions \cup {Blank, Junk} :
        /\ b = IF bytes[u] \in {Blank, r} THEN r ELSE Junk
        /\ bytes' = [bytes EXCEPT ![u] = b]
  BY <1>1, <1>3 DEF ProgramBytes
<1>5. /\ FlashTypes' /\ UnitTypes' /\ bytes'[u] = b
      /\ \A v \in Units : v # u => bytes'[v] = bytes[v]
  BY <1>2, <1>4 DEF IInv, Types, FlashTypes, UnitTypes
<1>6. ~clash[u] => /\ Progress(t, u) /\ length[u] = "some" /\ bytes[u] = Blank
                   /\ Len(PresId[u]) <= 1
  BY <1>1, <1>2 DEF Page, Progress
<1>7. Moved(t, "open", g, r, d)
  BY <1>1, <1>2, GotoMoves DEF IInv
<1>8. ShapeOf(t, "open", g, r, d, known)
  BY <1>1 DEF ShapeOf
<1>9. /\ Others(t) /\ pc'[t] = "open" /\ goal'[t] = g /\ pres'[t] = r /\ todo'[t] = d
      /\ Turn(t)' = u
  BY <1>1, <1>2, <1>7, <1>8, BusyPlaces, ThreadStep
<1>10. ~About(t, u)'
  BY <1>9 DEF About, Writing
<1>11. ~clash[u] /\ Untouched(u) => PresId[u] = <<r>>
  BY <1>1, <1>2, <1>3, <1>6 DEF Progress, Wanted, Writing
<1>12. ~clash[u] => Memory(u)' = <<r>> /\ length'[u] # "blank"
  BY <1>2, <1>3, <1>4, <1>5, <1>6 DEF Memory
<1>13. Page(u)'
  BY <1>1, <1>2, <1>6, <1>9, <1>10, <1>11, <1>12, PageOwn DEF Untouched
<1>14. Search(t)'
  <2>1. Search(t) /\ Holders(r)' = Holders(r)
    BY <1>2 DEF IInv, Holders
  <2> QED
    BY <1>1, <1>2, <1>3, <1>9, <2>1 DEF Search, Writing
<1> QED
  BY <1>1, <1>2, <1>5, <1>7, <1>8, <1>13, <1>14, BusyPlaces, WorkKeeps

-----------------------------------------------------------------------------
(* UpdateWorker: new units, cards and tags.                                 *)

LEMMA WorkerThread == Worker \in Threads
  BY DEF Threads

LEMMA AttendKeeps ==
  ASSUME IInv, NEW u \in Units, NEW place \in {"notice", "fill"}, Attend(u, place),
         NEW r \in Prescriptions \cup {Nothing}, pres' = [pres EXCEPT ![Worker] = r],
         place = "fill" => r \in Prescriptions /\ ~Untouched(u)',
         Disturb(Worker), known' = known \cup {u}, PresId'[u] = <<>>,
         \A v \in Units : v # u => /\ PresId'[v] = PresId[v]
                                   /\ lastType'[v] = lastType[v] /\ left'[v] = left[v],
         u \notin known \/ ~Untouched(u)',
         UnitTypes', UNCHANGED <<flashVars, unitsVars, restarts>>
  PROVE  IInv'
<1>1. UNCHANGED <<length, bytes, upc, visited, restarts>>
  BY DEF flashVars, unitsVars
<1>2. /\ pc[Worker] = "idle" /\ goal[Worker] = "none" /\ Worker \in Threads
      /\ clash' = [clash EXCEPT ![u] = @ \/ Crossing(Worker, u)]
  BY WorkerThread, ThreadValues DEF Attend, ShapeOf
<1>3. Moved(Worker, place, "none", r, {u})
  BY <1>2 DEF Attend, Moved, IInv, Types, ThreadTypes
<1>4. /\ place \in Places /\ "none" \in Goals /\ {u} \in SUBSET Units /\ Min({u}) = u
      /\ place \in Busy /\ place \notin Writing
  BY MinUnits DEF Places, Goals, Busy, Writing
<1>5. ShapeOf(Worker, place, "none", r, {u}, known')
  BY DEF ShapeOf
<1>6. /\ ThreadTypes' /\ Others(Worker) /\ (\A s \in Threads : Shape(s)')
      /\ pc'[Worker] = place /\ todo'[Worker] = {u} /\ Turn(Worker)' = u
  <2>1. known \subseteq known'
    OBVIOUS
  <2>2. place \in Places /\ "none" \in Goals /\ {u} \in SUBSET Units /\ Worker \in Threads
    BY <1>2, <1>4
  <2>3. /\ ThreadTypes' /\ Others(Worker)
        /\ pc'[Worker] = place /\ goal'[Worker] = "none" /\ pres'[Worker] = r
        /\ todo'[Worker] = {u} /\ Turn(Worker)' = Min({u})
    BY <1>3, <2>2, MovedIs DEF IInv
  <2>4. ShapeOf(Worker, pc'[Worker], goal'[Worker], pres'[Worker], todo'[Worker], known')
    BY <1>5, <2>3
  <2>5. \A s \in Threads : Shape(s)'
    BY <2>1, <2>2, <2>3, <2>4, ShapesMoved DEF IInv
  <2> QED
    BY <1>4, <2>3, <2>5
<1>7. clash \in [Units -> BOOLEAN]
  BY DEF IInv, Types, OtherTypes
<1>8. clash' \in [Units -> BOOLEAN] /\ \A v \in Units : v # u => clash'[v] = clash[v]
  <2>1. clash' \in [Units -> BOOLEAN]
    BY <1>2, <1>7, ZenonT(60) DEF Crossing
  <2> QED
    BY <1>2, <1>7, <2>1
<1>9. FlashTypes' /\ OtherTypes'
  BY <1>1, <1>8, StaleType DEF IInv, Types, FlashTypes, OtherTypes
<1>10. Unknown' /\ Visited'
  <2>1. Unknown'
    BY DEF IInv, Unknown, Untouched
  <2>2. visited \subseteq known
    BY DEF IInv, Visited
  <2>3. \A v \in visited : v \in Units
    BY DEF IInv, Types, OtherTypes
  <2> QED
    BY <1>1, <2>1, <2>2, <2>3 DEF IInv, Visited, Untouched
<1>11. \A s \in Threads : Search(s)'
  BY <1>2, <1>6, SearchOthers, SearchStale
<1>12. ASSUME NEW v \in Units, v # u
       PROVE  Page(v)'
  <2>1. ~About(Worker, v) /\ ~About(Worker, v)'
    BY <1>2, <1>6, <1>12 DEF About, Writing
  <2> QED
    BY <1>1, <1>2, <1>6, <1>8, <1>12, <2>1, PageKept DEF IInv, Untouched
<1>13. Page(u)'
  <2>1. About(Worker, u)'
    BY <1>4, <1>6 DEF About, Busy
  <2>2. Progress(Worker, u)'
    BY <1>4, <1>6 DEF Progress
  <2>3. Len(PresId'[u]) <= 1
    OBVIOUS
  <2> QED
    BY <1>1, <1>2, <1>6, <1>7, <2>1, <2>2, <2>3, PageEnter DEF IInv
<1> QED
  BY <1>6, <1>9, <1>10, <1>11, <1>12, <1>13 DEF IInv, Types

LEMMA RegisterKeeps ==
  ASSUME IInv, NEW u \in Units, Register(u)
  PROVE  IInv'
<1>1. /\ Attend(u, "notice") /\ u \notin known /\ known' = known \cup {u} /\ Disturb(Worker)
      /\ UNCHANGED <<PresId, IsRfid, left, lastType, changed, flashVars, pres, unitsVars, restarts>>
  BY DEF Register, unitVars
<1>2. PICK r \in Prescriptions \cup {Nothing} : r = pres[Worker]
  BY WorkerThread, ThreadValues
<1>3. pres' = [pres EXCEPT ![Worker] = r]
  BY <1>1, <1>2, WorkerThread DEF IInv, Types, ThreadTypes
<1>4. PresId'[u] = <<>>
  BY <1>1 DEF IInv, Unknown
<1>5. UnitTypes'
  BY <1>1 DEF IInv, Types, UnitTypes
<1> QED
  BY <1>1, <1>3, <1>4, <1>5, AttendKeeps

LEMMA CardArrivesKeeps ==
  ASSUME IInv, NEW u \in CardUnits, NEW p \in Prescriptions, CardArrives(u, p)
  PROVE  IInv'
<1>1. u \in Units
  BY LockerDeskAssumption
<1>2. /\ Attend(u, "fill") /\ u \in known /\ known' = known \cup {u} /\ Disturb(Worker)
      /\ lastType' = [lastType EXCEPT ![u] = 2]
      /\ changed' = [changed EXCEPT ![u] = TRUE]
      /\ left' = [left EXCEPT ![u] = FALSE]
      /\ IsRfid' = [IsRfid EXCEPT ![u] = FALSE]
      /\ PresId' = [PresId EXCEPT ![u] = <<>>]
      /\ pres' = [pres EXCEPT ![Worker] = p]
      /\ UNCHANGED <<flashVars, unitsVars, restarts>>
  BY DEF CardArrives
<1>3. UnitTypes'
  <2>1. <<>> \in Seq(Carried) /\ 2 \in 0..2
    OBVIOUS
  <2> QED
    BY <1>1, <1>2, <2>1 DEF IInv, Types, UnitTypes
<1>4. /\ PresId'[u] = <<>> /\ lastType'[u] = 2
      /\ \A v \in Units : v # u => /\ PresId'[v] = PresId[v]
                                   /\ lastType'[v] = lastType[v] /\ left'[v] = left[v]
  BY <1>1, <1>2 DEF IInv, Types, UnitTypes
<1>5. ~Untouched(u)'
  BY <1>4 DEF Untouched
<1> QED
  BY <1>1, <1>2, <1>3, <1>4, <1>5, AttendKeeps

LEMMA MemoryType ==
  ASSUME IInv, NEW u \in Units
  PROVE  Memory(u) \in Seq(Carried) /\ Len(Memory(u)) <= 1
<1>1. CASE length[u] # "some"
  BY <1>1 DEF Memory
<1>2. CASE length[u] = "some"
  <2>1. PICK b \in Carried : Memory(u) = <<b>>
    <3>1. CASE bytes[u] \in Prescriptions
      BY <1>2, <3>1 DEF Memory, Carried
    <3>2. CASE bytes[u] \notin Prescriptions
      BY <1>2, <3>2 DEF Memory, Carried
    <3> QED
      BY <3>1, <3>2
  <2>2. <<b>> \in Seq(Carried) /\ Len(<<b>>) = 1
    OBVIOUS
  <2> QED
    BY <2>1, <2>2
<1> QED
  BY <1>1, <1>2

\* Worker ends its work about the unit u.
LEMMA WorkerDone ==
  ASSUME IInv, NEW place \in {"notice", "fill"}, pc[Worker] = place, Done(Worker),
         NEW u \in Units, u = Turn(Worker), NEW w \in Seq(Carried),
         PresId' = [PresId EXCEPT ![u] = w],
         ~clash[u] /\ Page(u) => Len(w) <= 1 /\ (Untouched(u) => Memory(u) = w),
         IsRfid' \in [Units -> BOOLEAN], Disturb(Worker),
         UNCHANGED <<known, left, lastType, changed, flashVars, unitsVars, restarts, clash>>
  PROVE  IInv'
<1>1. PICK d \in SUBSET Units : d = todo[Worker] /\ d # {} /\ ShapeOf(Worker, place, goal[Worker],
        pres[Worker], d, known)
  BY WorkerThread, ThreadValues DEF ShapeOf
<1>2. About(Worker, u)
  BY <1>1 DEF About
<1>3. Moved(Worker, "idle", "none", Nothing, {})
  BY WorkerThread, DoneMoves
<1>4. ShapeOf(Worker, "idle", "none", Nothing, {}, known)
  BY DEF ShapeOf
<1>5. "none" \in Goals /\ {} \in SUBSET Units /\ Nothing \in Prescriptions \cup {Nothing}
  BY DEF Goals
<1>6. UNCHANGED <<known, left, lastType, changed, length, bytes, unitsVars, restarts, clash>>
  BY DEF flashVars
<1>7. Others(Worker) /\ pc'[Worker] = "idle"
  <2>1. "idle" \in Places /\ Worker \in Threads
    BY WorkerThread, BusyPlaces
  <2> QED
    BY <1>3, <1>5, <2>1, MovedIs DEF IInv
<1>8. /\ PresId'[u] = w /\ \A v \in Units : v # u => PresId'[v] = PresId[v]
      /\ UnitTypes' /\ FlashTypes'
  BY <1>6 DEF IInv, Types, UnitTypes, FlashTypes
<1>9. ~About(Worker, u)'
  BY <1>7 DEF About, Writing
<1>10. Memory(u)' = Memory(u)
  BY <1>6 DEF Memory
<1>11. Page(u)'
  <2>1. Page(u) /\ (~clash[u] => (length[u] = "blank" => bytes[u] = Blank))
    BY DEF IInv, Page
  <2> QED
    BY <1>2, <1>6, <1>7, <1>8, <1>9, <1>10, <2>1, WorkerThread, PageOwn DEF Untouched
<1>12. Search(Worker)'
  BY <1>7, WorkerThread, SearchStale
<1> QED
  BY <1>2, <1>3, <1>4, <1>5, <1>6, <1>8, <1>11, <1>12, WorkerThread, BusyPlaces, WorkKeeps

LEMMA WorkerTurn ==
  ASSUME IInv, pc[Worker] \in {"notice", "fill"}
  PROVE  \E u \in Units : u = Turn(Worker) /\ About(Worker, u)
<1>1. todo[Worker] # {}
  BY WorkerThread, ThreadValues DEF ShapeOf
<1> QED
  BY <1>1, WorkerThread, TurnIn DEF IInv, About

LEMMA NoticeKeeps ==
  ASSUME IInv, NoticeFromMemory
  PROVE  IInv'
<1>1. PICK u \in Units : u = Turn(Worker) /\ About(Worker, u)
  BY WorkerTurn DEF NoticeFromMemory
<1>2. PICK x \in Seq(Carried), m \in Seq(Carried) : x = PresId[u] /\ m = Memory(u) /\ Len(m) <= 1
  BY MemoryType DEF IInv, Types, UnitTypes
<1>3. PICK w \in Seq(Carried) : w = x \o m
  <2>1. x \o m \in Seq(Carried)
    OBVIOUS
  <2> QED
    BY <2>1
<1>4. /\ pc[Worker] = "notice" /\ Done(Worker) /\ Disturb(Worker)
      /\ PresId' = [PresId EXCEPT ![u] = w]
      /\ UNCHANGED <<known, IsRfid, left, lastType, changed, flashVars, unitsVars, restarts, clash>>
  BY <1>1, <1>2, <1>3 DEF NoticeFromMemory
<1>5. ~clash[u] /\ Page(u) => x = <<>>
  BY <1>1, <1>2, <1>4, WorkerThread DEF Page, Progress
<1>6. x = <<>> => w = m
  BY <1>3
<1>7. IsRfid' \in [Units -> BOOLEAN]
  BY <1>4 DEF IInv, Types, UnitTypes
<1> QED
  BY <1>1, <1>2, <1>4, <1>5, <1>6, <1>7, WorkerDone

LEMMA FillKeeps ==
  ASSUME IInv, Fill
  PROVE  IInv'
<1>1. PICK u \in Units : u = Turn(Worker) /\ About(Worker, u)
  BY WorkerTurn DEF Fill
<1>2. PICK x \in Seq(Carried), r \in Carried : x = PresId[u] /\ r = pres[Worker]
  <2>1. pres[Worker] \in Carried
    BY WorkerThread DEF IInv, Shape, ShapeOf, Fill, Carried
  <2>2. PresId[u] \in Seq(Carried)
    BY DEF IInv, Types, UnitTypes
  <2> QED
    BY <2>1, <2>2
<1>3. PICK w \in Seq(Carried) : w = Append(x, r) /\ Len(w) = Len(x) + 1
  <2>1. Append(x, r) \in Seq(Carried) /\ Len(Append(x, r)) = Len(x) + 1
    OBVIOUS
  <2> QED
    BY <2>1
<1>4. /\ pc[Worker] = "fill" /\ Done(Worker) /\ Disturb(Worker)
      /\ PresId' = [PresId EXCEPT ![u] = w] /\ IsRfid' = [IsRfid EXCEPT ![u] = TRUE]
      /\ UNCHANGED <<known, left, lastType, changed, flashVars, unitsVars, restarts, clash>>
  BY <1>1, <1>2, <1>3 DEF Fill
<1>5. ~clash[u] /\ Page(u) => x = <<>> /\ ~Untouched(u)
  BY <1>1, <1>2, <1>4, WorkerThread DEF Page, Progress
<1>6. x = <<>> => Len(w) <= 1
  BY <1>3
<1>7. IsRfid' \in [Units -> BOOLEAN]
  BY <1>4 DEF IInv, Types, UnitTypes
<1> QED
  BY <1>1, <1>4, <1>5, <1>6, <1>7, WorkerDone

-----------------------------------------------------------------------------
(* Cards and tags come and go; UpdateCard; the power.                       *)

\* A step that moves no thread and leaves alone which unit has what.
LEMMA CardStep ==
  ASSUME IInv, UNCHANGED <<known, PresId, flashVars, pc, commandVars, restarts, stale, clash>>,
         UnitTypes', upc' \in {"idle", "check", "ids", "pres"}, visited' \in SUBSET Units,
         Visited', \A v \in Units : Untouched(v)' => Untouched(v),
         \A v \in Units \ known : Untouched(v) => Untouched(v)'
  PROVE  IInv'
<1>1. /\ UNCHANGED <<known, PresId, length, bytes, pc, goal, pres, todo, restarts, stale, clash>>
  BY DEF flashVars, commandVars
<1>2. Types'
  BY <1>1 DEF IInv, Types, FlashTypes, ThreadTypes, OtherTypes
<1>3. Unknown'
  BY <1>1 DEF IInv, Unknown
<1>4. ASSUME NEW t \in Threads
      PROVE  Shape(t)' /\ Search(t)'
  <2>1. Shape(t)'
    BY <1>1 DEF IInv, Shape
  <2>2. Search(t)'
    BY <1>1, SearchKept DEF IInv
  <2> QED
    BY <2>1, <2>2
<1>5. ASSUME NEW u \in Units
      PROVE  Page(u)'
  <2>1. \A s \in Threads : About(s, u)' <=> About(s, u)
    BY <1>1 DEF About, Turn
  <2> QED
    BY <1>1, <2>1, PageSame DEF IInv
<1> QED
  BY <1>2, <1>3, <1>4, <1>5 DEF IInv

LEMMA CardLeavesKeeps ==
  ASSUME IInv, NEW u \in CardUnits, CardLeaves(u) \/ TagArrives(u)
  PROVE  IInv'
<1>1. u \in Units /\ u \in known
  BY LockerDeskAssumption DEF CardLeaves, TagArrives
<1>2. /\ UNCHANGED <<known, PresId, IsRfid, flashVars, pc, commandVars, upc, visited, restarts,
                     stale, clash>>
  BY DEF CardLeaves, TagArrives, unitsVars
<1>3. UnitTypes'
  <2>1. PICK k \in 0..2 : lastType' = [lastType EXCEPT ![u] = k]
    <3>1. CASE CardLeaves(u)
      BY <3>1 DEF CardLeaves
    <3>2. CASE TagArrives(u)
      BY <3>2 DEF TagArrives
    <3> QED
      BY <3>1, <3>2
  <2>2. lastType' \in [Units -> 0..2]
    BY <2>1 DEF IInv, Types, UnitTypes
  <2>3. changed' \in [Units -> BOOLEAN]
    BY ZenonT(60) DEF CardLeaves, TagArrives, IInv, Types, UnitTypes
  <2>4. left' \in [Units -> BOOLEAN]
    BY ZenonT(60) DEF CardLeaves, TagArrives, IInv, Types, UnitTypes
  <2> QED
    BY <1>2, <2>2, <2>3, <2>4 DEF IInv, Types, UnitTypes
<1>4. ~Untouched(u)' /\ \A v \in Units : v # u => (Untouched(v)' <=> Untouched(v))
  BY <1>1 DEF CardLeaves, TagArrives, Untouched, IInv, Types, UnitTypes
<1>5. visited \in SUBSET Units /\ upc \in {"idle", "check", "ids", "pres"}
  BY DEF IInv, Types, OtherTypes
<1>6. Visited'
  BY <1>2, <1>4, <1>5 DEF IInv, Visited
<1> QED
  BY <1>1, <1>2, <1>3, <1>4, <1>5, <1>6, CardStep

LEMMA UpdateCardKeeps ==
  ASSUME IInv, NEW u \in CardUnits,
         Visit(u) \/ StillThere(u) \/ ForgetCard(u) \/ ForgetCardId(u)
  PROVE  IInv'
<1>1. u \in Units
  BY LockerDeskAssumption
<1>2. /\ UNCHANGED <<known, PresId, left, lastType, flashVars, pc, commandVars, restarts,
                     stale, clash>>
  BY DEF Visit, StillThere, ForgetCard, ForgetCardId, unitVars
<1>3. UnitTypes'
  BY <1>1 DEF Visit, StillThere, ForgetCard, ForgetCardId, unitVars, IInv, Types, UnitTypes
<1>4. \A v \in Units : Untouched(v)' <=> Untouched(v)
  BY <1>2 DEF Untouched
<1>5. visited' \in SUBSET Units /\ upc' \in {"idle", "check", "ids", "pres"}
  BY <1>1 DEF Visit, StillThere, ForgetCard, ForgetCardId, IInv, Types, OtherTypes
<1>6. Visited'
  <2>1. CASE Visit(u)
    BY <1>2, <2>1 DEF Visit, Visited
  <2>2. CASE StillThere(u)
    BY <1>2, <2>2 DEF StillThere, Visited
  <2>3. CASE ForgetCard(u)
    BY <1>2, <2>3 DEF ForgetCard, Visited, Untouched, IInv
  <2>4. CASE ForgetCardId(u)
    BY <1>2, <2>4 DEF ForgetCardId, Visited, Untouched, IInv
  <2> QED
    BY <2>1, <2>2, <2>3, <2>4
<1> QED
  BY <1>2, <1>3, <1>4, <1>5, <1>6, CardStep

LEMMA ForgetPresIdKeeps ==
  ASSUME IInv, NEW u \in CardUnits, ForgetPresId(u)
  PROVE  IInv'
<1>1. u \in Units /\ ~Untouched(u)
  BY LockerDeskAssumption DEF ForgetPresId, IInv, Visited
<1>2. /\ UNCHANGED <<known, IsRfid, left, lastType, changed, length, bytes, pc, goal, pres, todo,
                     restarts, clash>>
      /\ PresId' = [PresId EXCEPT ![u] = <<>>] /\ upc' = "idle" /\ visited' = {}
      /\ stale' = [t \in Threads |-> stale[t] \/ pc[t] # "idle"]
  BY DEF ForgetPresId, flashVars, commandVars
<1>3. PresId'[u] = <<>> /\ \A v \in Units : v # u => PresId'[v] = PresId[v]
  BY <1>1, <1>2 DEF IInv, Types, UnitTypes
<1>4. UnitTypes'
  <2>1. <<>> \in Seq(Carried)
    OBVIOUS
  <2> QED
    BY <1>1, <1>2, <2>1 DEF IInv, Types, UnitTypes
<1>5. stale' \in [Threads -> BOOLEAN]
  BY <1>2
<1>6. Types'
  BY <1>2, <1>4, <1>5 DEF IInv, Types, FlashTypes, ThreadTypes, OtherTypes
<1>7. Unknown' /\ Visited'
  BY <1>2, <1>3 DEF IInv, Unknown, Visited, Untouched
<1>8. ASSUME NEW t \in Threads
      PROVE  Shape(t)' /\ Search(t)'
  <2>1. Shape(t)'
    BY <1>2 DEF IInv, Shape
  <2>2. stale'[t] = (stale[t] \/ pc[t] # "idle")
    BY <1>2
  <2>3. stale'[t] \/ pc'[t] = "idle"
    BY <1>2, <2>2
  <2> QED
    BY <2>1, <2>3, SearchStale
<1>9. ASSUME NEW v \in Units
      PROVE  Page(v)'
  <2>1. \A s \in Threads : About(s, v)' <=> About(s, v)
    BY <1>2 DEF About, Turn
  <2>2. CASE v = u
    <3>1. Len(PresId'[u]) <= 1 /\ ~Untouched(u)'
      BY <1>1, <1>2, <1>3 DEF Untouched
    <3>2. ASSUME NEW t \in Threads, Progress(t, u)
          PROVE  Progress(t, u)'
      BY <1>2, <1>3, <3>1, <3>2 DEF Progress
    <3> QED
      BY <1>2, <2>1, <2>2, <3>1, <3>2 DEF IInv, Page
  <2>3. CASE v # u
    BY <1>2, <1>3, <2>1, <2>3, PageSame DEF IInv, Untouched
  <2> QED
    BY <2>2, <2>3
<1> QED
  BY <1>6, <1>7, <1>8, <1>9 DEF IInv

\* What Start says, whatever flash holds, makes the invariant.
LEMMA RestartKeeps ==
  ASSUME IInv, Restart
  PROVE  IInv'
<1>1. /\ known' = {} /\ PresId' = [u \in Units |-> <<>>]
      /\ IsRfid' = [u \in Units |-> FALSE] /\ left' = [u \in Units |-> FALSE]
      /\ lastType' = [u \in Units |-> 0] /\ changed' = [u \in Units |-> FALSE]
      /\ pc' = [t \in Threads |-> "idle"] /\ goal' = [t \in Threads |-> "none"]
      /\ pres' = [t \in Threads |-> Nothing] /\ todo' = [t \in Threads |-> {}]
      /\ upc' = "idle" /\ visited' = {} /\ stale' = [t \in Threads |-> FALSE]
      /\ restarts' = restarts + 1 /\ restarts < MaxRestarts
      /\ UNCHANGED <<length, bytes, clash>>
  BY DEF Restart, flashVars
<1>2. UnitTypes'
  <2>1. <<>> \in Seq(Carried) /\ 0 \in 0..2
    OBVIOUS
  <2> QED
    BY <1>1, <2>1 DEF UnitTypes
<1>3. restarts' \in 0..MaxRestarts
  BY <1>1, LockerDeskAssumption DEF IInv, Types, OtherTypes
<1>4. Types'
  BY <1>1, <1>2, <1>3 DEF IInv, Types, FlashTypes, ThreadTypes, OtherTypes, Places, Goals
<1>5. Unknown' /\ Visited'
  BY <1>1 DEF Unknown, Visited, Untouched
<1>6. ASSUME NEW t \in Threads
      PROVE  Shape(t)' /\ Search(t)'
  <2>1. pc'[t] = "idle" /\ goal'[t] = "none" /\ pres'[t] = Nothing /\ todo'[t] = {}
    BY <1>1
  <2>2. Shape(t)'
    BY <1>1, <2>1 DEF Shape, ShapeOf
  <2> QED
    BY <2>1, <2>2, SearchStale
<1>7. ASSUME NEW u \in Units
      PROVE  Page(u)'
  <2>1. \A t \in Threads : ~About(t, u)'
    BY <1>1 DEF About, Writing
  <2>2. Len(PresId'[u]) <= 1 /\ u \notin known'
    BY <1>1
  <2>3. ~clash'[u] => (length'[u] = "blank" => bytes'[u] = Blank)
    BY <1>1 DEF IInv, Page
  <2> QED
    BY <2>1, <2>2, <2>3 DEF Page
<1> QED
  BY <1>4, <1>5, <1>6, <1>7 DEF IInv

-----------------------------------------------------------------------------
(* The invariant. *)

LEMMA InitIInv == Init => IInv
<1> SUFFICES ASSUME Init PROVE IInv
  OBVIOUS
<1>1. /\ known = {} /\ PresId = [u \in Units |-> <<>>]
      /\ IsRfid = [u \in Units |-> FALSE] /\ left = [u \in Units |-> FALSE]
      /\ lastType = [u \in Units |-> 0] /\ changed = [u \in Units |-> FALSE]
      /\ pc = [t \in Threads |-> "idle"] /\ goal = [t \in Threads |-> "none"]
      /\ pres = [t \in Threads |-> Nothing] /\ todo = [t \in Threads |-> {}]
      /\ upc = "idle" /\ visited = {} /\ stale = [t \in Threads |-> FALSE]
      /\ restarts = 0 /\ clash = [u \in Units |-> FALSE]
      /\ length = [u \in Units |-> "blank"] /\ bytes = [u \in Units |-> Blank]
  BY DEF Init, Start
<1>2. UnitTypes
  <2>1. <<>> \in Seq(Carried) /\ 0 \in 0..2
    OBVIOUS
  <2> QED
    BY <1>1, <2>1 DEF UnitTypes
<1>3. restarts \in 0..MaxRestarts
  BY <1>1, LockerDeskAssumption
<1>4. Types
  BY <1>1, <1>2, <1>3 DEF Types, FlashTypes, ThreadTypes, OtherTypes, Places, Goals
<1>5. Unknown /\ Visited
  BY <1>1 DEF Unknown, Visited, Untouched
<1>6. ASSUME NEW t \in Threads
      PROVE  Shape(t) /\ Search(t)
  <2>1. pc[t] = "idle" /\ goal[t] = "none" /\ pres[t] = Nothing /\ todo[t] = {}
    BY <1>1
  <2>2. Shape(t)
    BY <1>1, <2>1 DEF Shape, ShapeOf
  <2>3. Search(t)
    BY <2>1 DEF Search, Writing
  <2> QED
    BY <2>2, <2>3
<1>7. ASSUME NEW u \in Units
      PROVE  Page(u)
  <2>1. \A t \in Threads : ~About(t, u)
    BY <1>1 DEF About, Writing
  <2>2. Len(PresId[u]) <= 1 /\ u \notin known /\ bytes[u] = Blank
    BY <1>1
  <2> QED
    BY <2>1, <2>2 DEF Page
<1> QED
  BY <1>4, <1>5, <1>6, <1>7 DEF IInv

LEMMA CommandKeeps ==
  ASSUME IInv, NEW t \in Threads, Command(t)
  PROVE  IInv'
<1>1. CASE \E p \in Prescriptions : Begin(t, "deposit", p) \/ Begin(t, "fetch", p)
  BY <1>1, BeginKeeps
<1>2. CASE BeginOpen(t, known) \/ \E u \in known : BeginOpen(t, {u})
  BY <1>2, BeginOpenKeeps
<1>3. CASE FindHolder(t) \/ FindEmpty(t) \/ Open(t) \/ CheckRfid(t)
  BY <1>3, FindHolderKeeps, FindEmptyKeeps, OpenKeeps, CheckRfidKeeps
<1>4. CASE Store(t) \/ Prepare(t) \/ ProgramLength(t) \/ ProgramBytes(t)
  BY <1>4, StoreKeeps, PrepareKeeps, ProgramLengthKeeps, ProgramBytesKeeps
<1> QED
  BY <1>1, <1>2, <1>3, <1>4 DEF Command

LEMMA NextIInv == IInv /\ [Next]_vars => IInv'
<1> SUFFICES ASSUME IInv, [Next]_vars PROVE IInv'
  OBVIOUS
<1>1. CASE \E t \in Threads : Command(t)
  BY <1>1, CommandKeeps
<1>2. CASE \E u \in Units : Register(u)
  BY <1>2, RegisterKeeps
<1>3. CASE NoticeFromMemory \/ Fill
  BY <1>3, NoticeKeeps, FillKeeps
<1>4. CASE \E u \in CardUnits : \E p \in Prescriptions : CardArrives(u, p)
  BY <1>4, CardArrivesKeeps
<1>5. CASE \E u \in CardUnits : CardLeaves(u) \/ TagArrives(u)
  BY <1>5, CardLeavesKeeps
<1>6. CASE \E u \in CardUnits : Visit(u) \/ StillThere(u) \/ ForgetCard(u) \/ ForgetCardId(u)
  BY <1>6, UpdateCardKeeps
<1>7. CASE \E u \in CardUnits : ForgetPresId(u)
  BY <1>7, ForgetPresIdKeeps
<1>8. CASE Restart
  BY <1>8, RestartKeeps
<1>9. CASE UNCHANGED vars
  <2>1. UNCHANGED <<known, PresId, IsRfid, left, lastType, changed, length, bytes, pc, goal,
                    pres, todo, upc, visited, restarts, stale, clash>>
    BY <1>9 DEF vars
  <2>2. UnitTypes' /\ Visited'
    BY <2>1 DEF IInv, Types, UnitTypes, Visited, Untouched
  <2>3. visited \in SUBSET Units /\ upc \in {"idle", "check", "ids", "pres"}
    BY DEF IInv, Types, OtherTypes
  <2>4. \A v \in Units : Untouched(v)' <=> Untouched(v)
    BY <2>1 DEF Untouched
  <2> QED
    BY <2>1, <2>2, <2>3, <2>4, CardStep DEF flashVars, commandVars
<1> QED
  BY <1>1, <1>2, <1>3, <1>4, <1>5, <1>6, <1>7, <1>8, <1>9 DEF Next

LEMMA Invariant == Spec => []IInv
  BY InitIInv, NextIInv, PTL DEF Spec

-----------------------------------------------------------------------------
(* What follows. *)

LEMMA PagesAgree == IInv => MemoryAgrees /\ OnePrescription
<1> SUFFICES ASSUME IInv PROVE MemoryAgrees /\ OnePrescription
  OBVIOUS
<1>1. known \subseteq Units
  BY DEF IInv, Types, OtherTypes
<1> QED
  BY <1>1 DEF IInv, Page, MemoryAgrees, OnePrescription

(* The types, of every restart too. *)
THEOREM TypesHold == Spec => []TypeOK
  BY Invariant, TypesSuffice, PTL DEF IInv

(* What a restart would find in a unit's page is what the unit has, whenever  *)
(* nobody is about the unit: SetPresId's two stores agree, however the power  *)
(* was lost, unless two threads were at once or a card or a tag came.         *)
THEOREM StoresAgree == Spec => []MemoryAgrees
<1>1. IInv => MemoryAgrees
  BY PagesAgree
<1> QED
  BY <1>1, Invariant, PTL

(* A deposit goes into an empty unit, and its prescription is nowhere else,   *)
(* unless another thread has changed something since it looked.               *)
THEOREM DepositsAreSafe == Spec => DepositSafe
<1>1. IInv /\ [Next]_vars =>
        [\A t \in Threads :
           pc[t] = "store" /\ pc'[t] # "store" /\ goal[t] = "deposit" =>
             stale[t] \/ known' = {} \/ (Turn(t) \in Empties /\ Holders(pres[t]) = {})]_vars
  BY DEF IInv, Search
<1> QED
  BY <1>1, Invariant, PTL DEF Spec, DepositSafe

(* The door that a deposit or a fetch opens is that of the unit with the      *)
(* prescription, unless another thread has changed something since it looked. *)
THEOREM DoorsAreRight == Spec => RightDoor
<1>1. IInv /\ [Next]_vars =>
        [\A t \in Threads :
           pc[t] = "open" /\ pc'[t] # "open" /\ goal[t] \in {"deposit", "fetch"} =>
             stale[t] \/ known' = {} \/ Turn(t) \in Holders(pres[t])]_vars
  BY DEF IInv, Search
<1> QED
  BY <1>1, Invariant, PTL DEF Spec, RightDoor

(* All of it where cards and tags come too, and a unit never has more than    *)
(* one prescription, although what a card brings is appended.                 *)
THEOREM CardsAreSafe == Spec => CardsSafe
<1>1. IInv => OnePrescription /\ MemoryAgrees
  BY PagesAgree
<1>2. Spec => [](OnePrescription /\ MemoryAgrees)
  BY <1>1, Invariant, PTL
<1> QED
  BY <1>2, DepositsAreSafe, DoorsAreRight DEF CardsSafe
===============================================================================
