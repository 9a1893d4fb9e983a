----------------------- MODULE FIREQSystemNode_proofs -----------------------
(***************************************************************************)
(* For any design, sizes and configuration: no part of a run overflows a     *)
(* FIFO, the trigger generator makes the shots of the part, every package    *)
(* holds what its header says, and a run that returns has delivered the      *)
(* shots asked for.                                                          *)
(***************************************************************************)
EXTENDS FIREQSystemNode, WellFoundedInduction, TLAPS

-----------------------------------------------------------------------------
(* The invariant.                                                           *)

\* The shots the hardware makes in the part that runs: the references are those of
\* this part until they are saved.
Current == IF pc = "save" THEN hwShots ELSE savedShots

Running == pc \in {"save", "plan", "transfer", "wait"}

\* Input j of the switch of d has no more to send in this part, and no more to deliver.
Received(d, j) == ~transferring[d] \/ j < index[d] \/ (j = index[d] /\ ~armed[d])
Put(d, j) == ~transferring[d] \/ j < index[d]

\* The inputs before the one that is received have nothing to send.
First(d) == \A j \in DOMAIN inputs[d] : j < index[d] => Unit(inputs[d][j]) = 0

\* The register holds the shots planned whenever the hash says so; the parts sum to
\* the shots.
Planned ==
    /\ cachedHw \in {Unhashed, hwShots}
    /\ hwShots > 0 /\ cachedHw = hwShots => register = hwShots - 1
    /\ pc \notin {"idle", "failing"} => hwShots > 0 /\ cachedHw = hwShots /\ part = hwShots
    /\ pc # "idle" => hwShots <= MaxHwShots
    /\ pc = "idle" => executed = 0 /\ part = 0
    /\ pc \in {"init", "start", "save", "plan"} => part <= shots - executed
    /\ pc \in {"transfer", "wait"} =>
           executed <= shots /\ (executed < shots => part <= shots - executed)

\* The loops over the DMAs: which of them are transferring.
Turns ==
    /\ pc = "init" => \A d \in Dmas : transferring[d] <=> d < dma
    /\ pc \in {"start", "save", "plan"} => \A d \in Dmas : transferring[d]
    /\ pc = "transfer" => \A d \in Dmas : transferring[d] <=> d >= dma
    /\ pc \in {"idle", "wait"} => \A d \in Dmas : ~transferring[d]
    /\ pc \in {"idle", "start", "save", "plan", "wait"} => dma = 1

\* A channel waits for the input that the node is at, one that has something to send;
\* while shots are made no packet has arrived.
Selected ==
    /\ \A d \in Dmas : route[d] \in DOMAIN inputs[d]
    /\ pc # "failing" => \A d \in Dmas :
           /\ transferring[d] => index[d] = route[d] /\ Unit(inputs[d][index[d]]) > 0
           /\ armed[d] => transferring[d]
           /\ left > 0 => transferring[d] /\ armed[d]
           /\ pc \in {"init", "start"} /\ transferring[d] => armed[d]
           /\ pc \in {"init", "start", "save", "plan"} /\ transferring[d] => First(d)
           /\ left > 0 => First(d)

\* The shots to come find room.
Room ==
    /\ ~overflown
    /\ \A f \in Fifos : level[f] + left * Unit(f) <= FifoSize
    /\ pc \in {"idle", "init", "start"} => left = 0

\* A FIFO holds what the shots made so far sent to it, until it is received.
Levels ==
    /\ pc \in {"idle", "init", "start"} => \A f \in Fifos : level[f] = 0
    /\ Running => \A d \in Dmas : \A j \in DOMAIN inputs[d] :
           level[inputs[d][j]] =
               IF Received(d, j) THEN 0 ELSE (Current - left) * Unit(inputs[d][j])
    /\ Running => \A d \in Dmas :
           transferring[d] /\ ~armed[d] => buffer[d] = Current * Unit(inputs[d][index[d]])

\* What was saved describes the part that runs; what each FIFO delivered.
Counted ==
    /\ \A f \in Fifos : saved[f] = savedShots * Unit(f)
    /\ pc = "idle" => savedShots = 0 /\ \A f \in Fifos : delivered[f] = 0
    /\ pc = "plan" => savedShots = part
    /\ pc \in {"plan", "transfer"} => savedShots > 0
    /\ pc \in {"init", "start", "save", "plan"} =>
           \A f \in Fifos : Unit(f) > 0 => delivered[f] = executed
    /\ pc \in {"transfer", "wait"} => \A d \in Dmas : \A j \in DOMAIN inputs[d] :
           Unit(inputs[d][j]) > 0 =>
               delivered[inputs[d][j]] = IF Put(d, j) THEN executed ELSE executed - savedShots

Inv == TypeOK /\ Planned /\ Turns /\ Selected /\ Room /\ Levels /\ Counted

-----------------------------------------------------------------------------
(* Minima, products and quotients.                                          *)

\* A set of numbers has a least one.
LEMMA LeastIsMin ==
    ASSUME NEW S, S \subseteq Nat, S # {}
    PROVE  Min(S) \in S /\ \A x \in S : Min(S) <= x
<1> DEFINE below == {ss \in Nat \X Nat : ss[1] < ss[2]}
<1>1. IsWellFoundedOn(below, Nat)
    BY NatLessThanWellFounded DEF OpToRel
<1> HIDE DEF below
<1>2. PICK x \in S : \A y \in S : ~(<<y, x>> \in below)
    BY <1>1, WFMin
<1>3. ASSUME NEW y \in S PROVE x <= y
  <2>1. x \in Nat /\ y \in Nat
      OBVIOUS
  <2>2. <<y, x>> \in Nat \X Nat /\ <<y, x>>[1] = y /\ <<y, x>>[2] = x
      BY <2>1
  <2>3. y < x => <<y, x>> \in below
      BY <2>2 DEF below
  <2> QED
      BY <1>2, <2>1, <2>3
<1> QED
    BY <1>3 DEF Min

\* The lesser of two.
LEMMA LesserOfTwo ==
    ASSUME NEW x \in Nat, NEW y \in Nat
    PROVE  Min({x, y}) = IF x <= y THEN x ELSE y
BY LeastIsMin

\* Products are numbers.
LEMMA Product == ASSUME NEW x \in Nat, NEW y \in Nat PROVE x * y \in Nat
OBVIOUS

\* A quotient is a number, and that many fit.
LEMMA Quotient ==
    ASSUME NEW x \in Nat, NEW y \in Nat \ {0}
    PROVE  x \div y \in Nat /\ (x \div y) * y <= x
OBVIOUS

\* Fewer shots need less room.
LEMMA FewerFit ==
    ASSUME NEW m \in Nat, NEW n \in Nat, m <= n, NEW u \in Nat PROVE m * u <= n * u
OBVIOUS

\* A shot more, and a shot less to come.
LEMMA OneShot ==
    ASSUME NEW n \in Int, NEW m \in Int, NEW u \in Int
    PROVE  /\ (n - (m - 1)) * u = (n - m) * u + u
           /\ (m - 1) * u + u = m * u
           /\ 0 * u = 0 /\ n * 0 = 0 /\ (n - 0) * u = n * u
OBVIOUS

-----------------------------------------------------------------------------
(* The design and the update functions.                                     *)

\* A FIFO is behind an input of a switch, behind one, and every DMA has an input.
LEMMA Wiring ==
    ASSUME TypeOK
    PROVE  /\ Len(inputs) \in Nat \ {0} /\ Dmas = 1..Len(inputs)
           /\ \A d \in Dmas :
                  /\ DOMAIN inputs[d] \subseteq Nat \ {0} /\ 1 \in DOMAIN inputs[d]
                  /\ \A j \in DOMAIN inputs[d] : inputs[d][j] \in Fifos
           /\ \A d, e \in Dmas : \A i \in DOMAIN inputs[d], j \in DOMAIN inputs[e] :
                  inputs[d][i] = inputs[e][j] => d = e /\ i = j
           /\ \A f \in Fifos : \E d \in Dmas : \E j \in DOMAIN inputs[d] : f = inputs[d][j]
           /\ Fifos \subseteq Outputs
<1>1. inputs \in Topologies
    BY DEF TypeOK
<1>2. inputs \in Seq(Seq(Outputs)) /\ inputs # <<>> /\ \A d \in Dmas : inputs[d] # <<>>
    BY <1>1, TopologyAssumption DEF Dmas
<1>3. Len(inputs) \in Nat \ {0} /\ Dmas = 1..Len(inputs)
    BY <1>2 DEF Dmas
<1>4. ASSUME NEW d \in Dmas
      PROVE  /\ DOMAIN inputs[d] \subseteq Nat \ {0} /\ 1 \in DOMAIN inputs[d]
             /\ \A j \in DOMAIN inputs[d] : inputs[d][j] \in Fifos \cap Outputs
  <2>1. inputs[d] \in Seq(Outputs) /\ inputs[d] # <<>>
      BY <1>2, <1>3
  <2>2. \A j \in DOMAIN inputs[d] : inputs[d][j] \in Fifos
      BY DEF Fifos, Range
  <2> QED
      BY <2>1, <2>2
<1>5. \A f \in Fifos : \E d \in Dmas : \E j \in DOMAIN inputs[d] : f = inputs[d][j]
    BY DEF Fifos, Range
<1>6. Fifos \subseteq Outputs
    BY <1>4, <1>5
<1>7. \A d, e \in Dmas : \A i \in DOMAIN inputs[d], j \in DOMAIN inputs[e] :
          inputs[d][i] = inputs[e][j] => d = e /\ i = j
    BY <1>1, StreamAssumption DEF Dmas
<1> QED
    BY <1>3, <1>4, <1>5, <1>6, <1>7

\* What an acquisition sends in a shot is a number of bytes.
LEMMA UnitNat == ASSUME TypeOK, NEW f \in Fifos PROVE Unit(f) \in Nat
<1>1. f[1] \in Acqs
    BY Wiring DEF Outputs
<1> DEFINE c == cache[f[1]]
<1>2. c \in [active : BOOLEAN, duration : Nat, mode : {"none"} \cup Modes]
    BY <1>1 DEF TypeOK
<1>3. ASSUME c.mode # "none" PROVE Size(c) \in Nat
  <2>1. c.duration \in Nat /\ (c.duration + 1) \div 2 \in Nat
      BY <1>2
  <2>2. RawWidth \in Nat /\ DecimatedWidth \in Nat
      BY SizeAssumption
  <2>3. c.duration * RawWidth \in Nat /\ ((c.duration + 1) \div 2) * DecimatedWidth \in Nat
      BY <2>1, <2>2, Product
  <2>4. /\ (c.duration * RawWidth) \div 8 \in Nat
        /\ (((c.duration + 1) \div 2) * DecimatedWidth) \div 8 \in Nat
        /\ DecimatedWidth \div 8 \in Nat
      BY <2>2, <2>3, Quotient
  <2>5. c.mode \in {"raw", "decimated", "accumulated"}
      BY <1>2, <1>3 DEF Modes
  <2> QED
      BY <2>4, <2>5 DEF Size
<1> QED
    BY <1>3 DEF Unit

\* Nothing else than the acquisitions and the design decides what they send.
LEMMA SameUnits ==
    ASSUME cache' = cache, inputs' = inputs
    PROVE  /\ \A f : Unit(f)' = Unit(f)
           /\ MaxHwShots' = MaxHwShots /\ Fifos' = Fifos /\ Dmas' = Dmas
BY DEF Unit, MaxHwShots, Fifos, Dmas

\* As many shots as a part may have fit in every FIFO.
LEMMA PartFits ==
    ASSUME TypeOK
    PROVE  /\ MaxHwShots \in 0..MaxRepetitions
           /\ \A f \in Fifos, n \in Nat : n <= MaxHwShots => n * Unit(f) <= FifoSize
<1> DEFINE used == {f \in Fifos : Unit(f) > 0}
           room == {FifoSize \div Unit(f) : f \in used}
           limits == room \cup {MaxRepetitions}
<1>1. FifoSize \in Nat /\ MaxRepetitions \in Nat
    BY SizeAssumption
<1>2. \A f \in used : Unit(f) \in Nat \ {0} /\ FifoSize \div Unit(f) \in room
    BY UnitNat
<1>3. limits \subseteq Nat /\ limits # {}
    BY <1>1, <1>2, Quotient
<1>4. MaxHwShots = IF room = {} \/ 0 \in room THEN 0 ELSE Min(limits)
    BY DEF MaxHwShots
<1> HIDE DEF room, limits
<1>5. limits = room \cup {MaxRepetitions}
    BY DEF limits
<1>6. MaxHwShots \in 0..MaxRepetitions /\ \A x \in room : MaxHwShots <= x
  <2>1. CASE room = {} \/ 0 \in room
      BY <1>1, <1>3, <1>4, <1>5, <2>1
  <2>2. CASE ~(room = {} \/ 0 \in room)
    <3>1. Min(limits) \in limits /\ \A x \in limits : Min(limits) <= x
        BY <1>3, LeastIsMin
    <3>2. MaxHwShots = Min(limits)
        BY <1>4, <2>2
    <3>3. MaxHwShots \in Nat /\ MaxHwShots <= MaxRepetitions
        BY <1>3, <1>5, <3>1, <3>2
    <3> QED
        BY <1>1, <1>5, <3>1, <3>2, <3>3
  <2> QED
      BY <2>1, <2>2
<1>7. ASSUME NEW f \in Fifos, NEW n \in Nat, n <= MaxHwShots PROVE n * Unit(f) <= FifoSize
  <2>1. CASE f \in used
    <3>1. Unit(f) \in Nat \ {0} /\ FifoSize \div Unit(f) \in room
        BY <1>2, <2>1
    <3>2. FifoSize \div Unit(f) \in Nat /\ (FifoSize \div Unit(f)) * Unit(f) <= FifoSize
        BY <1>1, <3>1, Quotient
    <3>3. n <= FifoSize \div Unit(f)
        BY <1>1, <1>6, <1>7, <3>1, <3>2
    <3>4. n * Unit(f) <= (FifoSize \div Unit(f)) * Unit(f)
        BY <3>1, <3>2, <3>3, FewerFit
    <3>5. n * Unit(f) \in Nat /\ (FifoSize \div Unit(f)) * Unit(f) \in Nat
        BY <3>1, <3>2, Product
    <3> QED
        BY <1>1, <3>2, <3>4, <3>5
  <2>2. CASE f \notin used
    <3>1. Unit(f) = 0
        BY <2>2, UnitNat
    <3> QED
        BY <1>1, <3>1
  <2> QED
      BY <2>1, <2>2
<1> QED
    BY <1>6, <1>7

\* An update plans at most what was asked for and what fits, and leaves the register
\* as it should be, whether it writes it or not.
LEMMA UpdateFacts ==
    ASSUME TypeOK, Planned, NEW count \in Nat, Update(count)
    PROVE  /\ hwShots' \in Nat /\ hwShots' <= MaxHwShots /\ hwShots' <= count
           /\ cachedHw' = hwShots'
           /\ hwShots' > 0 => register' = hwShots' - 1
           /\ register' \in 0..MaxRepetitions - 1
<1>1. MaxHwShots \in Nat /\ MaxHwShots <= MaxRepetitions /\ MaxRepetitions \in Nat
    BY PartFits, SizeAssumption
<1>2. hwShots' \in Nat /\ hwShots' <= MaxHwShots /\ hwShots' <= count
    BY <1>1, LesserOfTwo DEF Update
<1>3. cachedHw' = hwShots'
    BY DEF Update
<1>4. hwShots' > 0 => register' = hwShots' - 1
  <2>1. CASE hwShots' # cachedHw
      BY <1>2, <2>1 DEF Update
  <2>2. CASE hwShots' = cachedHw
      BY <1>2, <2>2, HashAssumption DEF Update, Planned
  <2> QED
      BY <2>1, <2>2
<1>5. register' \in 0..MaxRepetitions - 1
  <2>1. CASE hwShots' \notin {0, cachedHw}
      BY <1>1, <1>2, <2>1 DEF Update
  <2>2. CASE hwShots' \in {0, cachedHw}
      BY <2>2 DEF Update, TypeOK
  <2> QED
      BY <2>1, <2>2
<1> QED
    BY <1>2, <1>3, <1>4, <1>5

-----------------------------------------------------------------------------
(* The initial states, and the configuration between two runs.              *)

\* What holds of a state between two runs.
AtRest ==
    /\ TypeOK
    /\ pc = "idle" /\ dma = 1 /\ executed = 0 /\ part = 0 /\ left = 0 /\ savedShots = 0 /\ ~overflown
    /\ cachedHw \in {Unhashed, hwShots}
    /\ hwShots > 0 /\ cachedHw = hwShots => register = hwShots - 1
    /\ \A d \in Dmas : ~transferring[d] /\ ~armed[d] /\ route[d] \in DOMAIN inputs[d]
    /\ \A f \in Fifos : level[f] = 0 /\ saved[f] = 0 /\ delivered[f] = 0

\* When the system is at rest the invariant says no more than that.
LEMMA AtRestInv == AtRest => Inv
<1> SUFFICES ASSUME AtRest PROVE Inv
    OBVIOUS
<1> USE DEF AtRest
<1>1. \A f \in Fifos : Unit(f) \in Nat
    BY UnitNat
<1>2. Planned
    BY DEF Planned
<1>3. Turns
    BY DEF Turns
<1>4. Selected
    BY DEF Selected, TypeOK
<1>5. Room
    BY <1>1, SizeAssumption DEF Room
<1>6. Levels
    BY DEF Levels, Running
<1>7. Counted
    BY <1>1 DEF Counted
<1> QED
    BY <1>2, <1>3, <1>4, <1>5, <1>6, <1>7 DEF Inv

\* A system that runs no part is at rest: nothing is enabled, armed or buffered.
LEMMA IdleAtRest == ASSUME Inv, pc = "idle" PROVE AtRest
<1>1. \A f \in Fifos : Unit(f) \in Nat
    BY UnitNat DEF Inv
<1>2. savedShots = 0
    BY DEF Inv, Counted
<1>3. \A f \in Fifos : saved[f] = 0
    BY <1>1, <1>2 DEF Inv, Counted
<1> QED
    BY <1>2, <1>3 DEF Inv, Planned, Turns, Selected, Room, Levels, Counted, AtRest

\* The system starts at rest.
LEMMA InitInv == Init => Inv
<1> SUFFICES ASSUME Init PROVE AtRest
    BY AtRestInv
<1>1. inputs \in Topologies /\ Len(inputs) \in Nat \ {0} /\ Dmas = 1..Len(inputs)
    BY TopologyAssumption DEF Init, Dmas
<1>2. TypeOK
  <2>1. cache \in [Acqs -> [active : BOOLEAN, duration : Nat, mode : {"none"} \cup Modes]]
      BY DEF Init, Inactive
  <2>2. level \in [Fifos -> 0..FifoSize] /\ register \in 0..MaxRepetitions - 1
      BY SizeAssumption DEF Init
  <2>3. transferring \in [Dmas -> BOOLEAN] /\ armed \in [Dmas -> BOOLEAN]
      BY DEF Init
  <2>4. /\ index \in [Dmas -> Nat] /\ route \in [Dmas -> Nat] /\ buffer \in [Dmas -> Nat]
        /\ saved \in [Fifos -> Nat] /\ delivered \in [Fifos -> Nat]
      BY DEF Init
  <2>5. dma \in Dmas
      BY <1>1 DEF Init
  <2> QED
      BY <1>1, <2>1, <2>2, <2>3, <2>4, <2>5 DEF Init, TypeOK
<1>3. \A d \in Dmas : 1 \in DOMAIN inputs[d]
    BY <1>2, Wiring
<1> QED
    BY <1>2, <1>3, HashAssumption DEF Init, AtRest

\* A setting of an acquisition has the type of its field.
LEMMA CacheType ==
    ASSUME TypeOK, SetDuration \/ SetOutputMode \/ SetTriggerChannel
    PROVE  cache' \in [Acqs -> [active : BOOLEAN, duration : Nat, mode : {"none"} \cup Modes]]
<1>1. CASE SetDuration
  <2>1. PICK a \in Acqs, n \in Durations : cache' = [cache EXCEPT ![a].duration = n]
      BY <1>1 DEF SetDuration, SetAcquisition
  <2>2. n \in Nat
      BY InputAssumption
  <2> QED
      BY <2>1, <2>2 DEF TypeOK
<1>2. CASE SetOutputMode
    BY <1>2 DEF SetOutputMode, SetAcquisition, TypeOK
<1>3. CASE SetTriggerChannel
    BY <1>3 DEF SetTriggerChannel, SetAcquisition, TypeOK
<1> QED
    BY <1>1, <1>2, <1>3

\* A setting changes what the next run will do, and nothing of the last one.
LEMMA ConfigureInv == ASSUME Inv, Configure PROVE Inv'
<1>1. pc = "idle"
    BY DEF Configure, SetShots, SetDuration, SetOutputMode, SetTriggerChannel, SetAcquisition,
           ResetAll
<1>2. AtRest
    BY <1>1, IdleAtRest
<1>3. AtRest'
  <2>1. CASE SetShots
    <3>1. shots' \in Nat /\ configured' \in BOOLEAN
        BY <2>1, InputAssumption DEF SetShots
    <3> QED
        BY <1>2, <2>1, <3>1 DEF SetShots, AtRest, TypeOK, Dmas, Fifos, refVars, dmaVars, hardwareVars
  <2>2. CASE SetDuration \/ SetOutputMode \/ SetTriggerChannel
    <3>1. cache' \in [Acqs -> [active : BOOLEAN, duration : Nat, mode : {"none"} \cup Modes]]
        BY <1>2, <2>2, CacheType DEF AtRest
    <3>2. UNCHANGED <<inputs, shots, refVars, dmaVars, pc, dma, executed, part, hardwareVars,
                      historyVars>>
        BY <2>2 DEF SetDuration, SetOutputMode, SetTriggerChannel, SetAcquisition
    <3> QED
        BY <1>2, <3>1, <3>2 DEF AtRest, TypeOK, Dmas, Fifos, refVars, dmaVars, hardwareVars, historyVars
  <2>3. CASE ResetAll
    <3>1. cache' \in [Acqs -> [active : BOOLEAN, duration : Nat, mode : {"none"} \cup Modes]]
        BY <2>3 DEF ResetAll, Inactive
    <3>2. register' \in 0..MaxRepetitions - 1
        BY <2>3, SizeAssumption DEF ResetAll
    <3>3. /\ transferring' \in [Dmas -> BOOLEAN] /\ index' \in [Dmas -> Nat]
          /\ \A d \in Dmas : ~transferring'[d]
        BY <2>3 DEF ResetAll
    <3>4. cachedHw' = Unhashed /\ hwShots' = hwShots
        BY <2>3 DEF ResetAll
    <3>5. cachedHw' # hwShots'
        BY <1>2, <3>4, HashAssumption DEF AtRest, TypeOK
    <3>6. UNCHANGED <<inputs, shots, saved, savedShots, pc, dma, executed, part, hardwareVars,
                      clean, delivered>>
        BY <2>3 DEF ResetAll
    <3>7. configured' = FALSE
        BY <2>3 DEF ResetAll
    <3>8. Dmas' = Dmas /\ Fifos' = Fifos
        BY <3>6 DEF Dmas, Fifos
    <3>9. TypeOK'
        BY <1>2, <3>1, <3>2, <3>3, <3>4, <3>6, <3>7, <3>8 DEF AtRest, TypeOK, hardwareVars
    <3> QED
        BY <1>2, <3>3, <3>4, <3>5, <3>6, <3>8, <3>9 DEF AtRest, hardwareVars
  <2> QED
      BY <2>1, <2>2, <2>3 DEF Configure
<1>4. AtRest' => Inv'
    BY AtRestInv, PTL
<1> QED
    BY <1>3, <1>4

-----------------------------------------------------------------------------
(* The steps of a run.                                                      *)

\* A positive multiple is positive exactly when what is multiplied is.
LEMMA Multiple ==
    ASSUME NEW n \in Nat \ {0}, NEW u \in Nat PROVE n * u > 0 <=> u > 0
<1>1. CASE u = 0
    BY <1>1
<1>2. CASE u > 0
    BY <1>2
<1> QED
    BY <1>1, <1>2

\* The inputs with something to send, and the first of them.
LEMMA PendingFacts ==
    ASSUME TypeOK, NEW d \in Dmas, NEW i \in Nat, NEW n \in Nat \ {0}, NEW content,
           \A f \in Fifos : content[f] = n * Unit(f)
    PROVE  LET pending == Pending(content, d, i)
           IN  /\ pending = {} => \A j \in DOMAIN inputs[d] : j > i => Unit(inputs[d][j]) = 0
               /\ pending # {} =>
                      /\ Min(pending) \in DOMAIN inputs[d] /\ Min(pending) \in Nat /\ Min(pending) > i
                      /\ Unit(inputs[d][Min(pending)]) > 0
                      /\ \A j \in DOMAIN inputs[d] :
                             j > i /\ j < Min(pending) => Unit(inputs[d][j]) = 0
<1> DEFINE pending == Pending(content, d, i)
<1>1. \A j \in DOMAIN inputs[d] : j \in Nat /\ inputs[d][j] \in Fifos /\ Unit(inputs[d][j]) \in Nat
    BY Wiring, UnitNat
<1>2. \A j \in DOMAIN inputs[d] : content[inputs[d][j]] > 0 <=> Unit(inputs[d][j]) > 0
    BY <1>1, Multiple
<1>3. \A j : j \in pending <=> j \in DOMAIN inputs[d] /\ j > i /\ Unit(inputs[d][j]) > 0
    BY <1>2 DEF Pending
<1> HIDE DEF pending
<1>4. \A j \in DOMAIN inputs[d] : j > i /\ j \notin pending => Unit(inputs[d][j]) = 0
    BY <1>1, <1>3
<1>5. ASSUME pending # {}
      PROVE  Min(pending) \in pending /\ \A j \in pending : Min(pending) <= j
  <2>1. pending \subseteq Nat
      BY <1>1, <1>3
  <2> QED
      BY <1>5, <2>1, LeastIsMin
<1>6. ASSUME pending # {}, NEW j \in DOMAIN inputs[d], j > i, j < Min(pending)
      PROVE  Unit(inputs[d][j]) = 0
  <2>1. Min(pending) \in Nat /\ j \in Nat
      BY <1>1, <1>3, <1>5, <1>6
  <2>2. j \notin pending
      BY <1>5, <1>6, <2>1
  <2> QED
      BY <1>4, <1>6, <2>2
<1>7. pending = Pending(content, d, i)
    BY DEF pending
<1>8. pending # {} => /\ Min(pending) \in DOMAIN inputs[d] /\ Min(pending) \in Nat /\ Min(pending) > i
                      /\ Unit(inputs[d][Min(pending)]) > 0
    BY <1>1, <1>3, <1>5
<1>9. pending = {} => \A j \in DOMAIN inputs[d] : j > i => Unit(inputs[d][j]) = 0
    BY <1>4
<1> QED
    BY <1>6, <1>7, <1>8, <1>9

\* A part has room for its shots.
LEMMA BeginRunInv == ASSUME Inv, BeginRun PROVE Inv'
<1>1. AtRest /\ shots \in Nat /\ Update(shots)
    BY IdleAtRest DEF BeginRun, Inv, TypeOK
<1>2. /\ hwShots' \in Nat /\ hwShots' <= MaxHwShots /\ hwShots' <= shots
      /\ cachedHw' = hwShots'
      /\ hwShots' > 0 => register' = hwShots' - 1
      /\ register' \in 0..MaxRepetitions - 1
    BY <1>1, UpdateFacts DEF Inv
<1>3. /\ UNCHANGED <<inputs, cache, shots, dmaVars, dma, executed, hardwareVars, historyVars>>
      /\ part' = hwShots' /\ pc' = IF hwShots' = 0 THEN "idle" ELSE "init"
    BY DEF BeginRun
<1>4. /\ \A f : Unit(f)' = Unit(f)
      /\ MaxHwShots' = MaxHwShots /\ Fifos' = Fifos /\ Dmas' = Dmas
    BY <1>3, SameUnits
<1>5. TypeOK'
    BY <1>1, <1>2, <1>3, <1>4 DEF AtRest, TypeOK, dmaVars, hardwareVars, historyVars
<1>6. CASE hwShots' = 0
  <2>1. AtRest'
      BY <1>1, <1>2, <1>3, <1>4, <1>5, <1>6 DEF AtRest, dmaVars, hardwareVars, historyVars
  <2> QED
      BY <2>1, AtRestInv, PTL
<1>7. CASE hwShots' # 0
  <2>1. pc' = "init"
      BY <1>3, <1>7
  <2>2. Planned'
    <3>1. part' <= shots' - executed'
        BY <1>1, <1>2, <1>3 DEF AtRest, TypeOK
    <3>2. hwShots' > 0 /\ hwShots' <= MaxHwShots'
        BY <1>2, <1>4, <1>7
    <3>3. cachedHw' = hwShots' /\ register' = hwShots' - 1 /\ part' = hwShots'
        BY <1>2, <1>3, <3>2
    <3> QED
        BY <2>1, <3>1, <3>2, <3>3 DEF Planned
  <2>3. Turns'
      BY <1>1, <1>3, <1>4, <2>1, Wiring DEF AtRest, Turns, dmaVars
  <2>4. Selected'
      BY <1>1, <1>3, <1>4, <2>1 DEF AtRest, Selected, dmaVars, hardwareVars
  <2>5. Room'
      BY <1>1, <1>3, <1>4, <2>1 DEF Inv, AtRest, Room, hardwareVars
  <2>6. Levels'
      BY <1>1, <1>3, <1>4, <2>1 DEF AtRest, Levels, Running, hardwareVars
  <2>7. Counted'
      BY <1>1, <1>3, <1>4, <2>1 DEF Inv, AtRest, Counted, dmaVars, historyVars
  <2> QED
      BY <1>5, <2>2, <2>3, <2>4, <2>5, <2>6, <2>7 DEF Inv
<1> QED
    BY <1>6, <1>7

\* A DMA that has nothing to receive, or is receiving already, fails the run.
LEMMA InitDmaFailsInv == ASSUME Inv, InitDmaFails PROVE Inv'
<1>1. /\ UNCHANGED <<inputs, cache, shots, refVars, dmaVars, dma, executed, part, hardwareVars,
                     historyVars>>
      /\ pc = "init" /\ pc' = "failing"
    BY DEF InitDmaFails
<1>2. /\ \A f : Unit(f)' = Unit(f)
      /\ MaxHwShots' = MaxHwShots /\ Fifos' = Fifos /\ Dmas' = Dmas
    BY <1>1, SameUnits
<1> USE <1>1, <1>2 DEF Inv, refVars, dmaVars, hardwareVars, historyVars
<1>3. TypeOK'
    BY DEF TypeOK
<1>4. Planned' /\ Turns'
    BY DEF Planned, Turns
<1>5. Selected' /\ Room'
    BY DEF Selected, Room
<1>6. Levels' /\ Counted'
    BY DEF Levels, Running, Counted
<1> QED
    BY <1>3, <1>4, <1>5, <1>6

\* The DMA is set to the first input that has something to send.
LEMMA InitDmaInv == ASSUME Inv, InitDma PROVE Inv'
<1> DEFINE m == Min(Pending(Payload, dma, 0))
<1>1. /\ UNCHANGED <<inputs, cache, shots, refVars, saved, savedShots, executed, part,
                     left, level, overflown, buffer, historyVars>>
      /\ pc = "init" /\ ~transferring[dma] /\ Pending(Payload, dma, 0) # {}
      /\ index' = [index EXCEPT ![dma] = m] /\ route' = [route EXCEPT ![dma] = m]
      /\ transferring' = [transferring EXCEPT ![dma] = TRUE]
      /\ armed' = [armed EXCEPT ![dma] = TRUE]
    BY DEF InitDma
<1>2. \/ dma = Len(inputs) /\ dma' = 1 /\ pc' = "start"
      \/ dma # Len(inputs) /\ dma' = dma + 1 /\ pc' = "init"
      \/ dma' = dma /\ pc' = "failing"
    BY DEF InitDma, NextDma
<1>3. /\ \A f : Unit(f)' = Unit(f)
      /\ MaxHwShots' = MaxHwShots /\ Fifos' = Fifos /\ Dmas' = Dmas
    BY <1>1, SameUnits
<1>4. Len(inputs) \in Nat \ {0} /\ Dmas = 1..Len(inputs) /\ dma \in Dmas /\ TypeOK
    BY Wiring DEF Inv, TypeOK
<1>5. /\ m \in DOMAIN inputs[dma] /\ m \in Nat /\ Unit(inputs[dma][m]) > 0
      /\ \A j \in DOMAIN inputs[dma] : j < m => Unit(inputs[dma][j]) = 0
  <2>1. hwShots \in Nat \ {0}
      BY <1>1 DEF Inv, TypeOK, Planned
  <2>2. \A f \in Fifos : Payload[f] = hwShots * Unit(f)
      BY DEF Payload
  <2>3. \A j \in DOMAIN inputs[dma] : j > 0
      BY <1>4, Wiring
  <2> QED
      BY <1>1, <1>4, <2>1, <2>2, <2>3, PendingFacts
<1> HIDE DEF m
<1>6. TypeOK'
    BY <1>1, <1>2, <1>3, <1>4, <1>5 DEF TypeOK, refVars, historyVars
<1>7. Planned'
    BY <1>1, <1>2, <1>3 DEF Inv, Planned, refVars
<1>8. Turns'
  <2>1. \A d \in Dmas : transferring'[d] <=> d <= dma
      BY <1>1, <1>4 DEF Inv, TypeOK, Turns
  <2> QED
      BY <1>2, <1>3, <1>4, <2>1 DEF Turns
<1>9. Selected'
  <2>1. pc' \in {"init", "start", "failing"} /\ left' = 0
      BY <1>1, <1>2 DEF Inv, Room
  <2>2. ASSUME NEW d \in Dmas
        PROVE  /\ route'[d] \in DOMAIN inputs'[d]
               /\ transferring'[d] =>
                      /\ index'[d] = route'[d] /\ Unit(inputs[d][index'[d]]) > 0
                      /\ armed'[d]
                      /\ \A j \in DOMAIN inputs[d] : j < index'[d] => Unit(inputs[d][j]) = 0
               /\ armed'[d] => transferring'[d]
    <3>1. CASE d = dma
        BY <1>1, <1>3, <1>4, <1>5, <3>1 DEF TypeOK
    <3>2. CASE d # dma
        BY <1>1, <1>3, <1>4, <3>2 DEF Inv, Selected, First, TypeOK
    <3> QED
        BY <3>1, <3>2
  <2>3. \A d \in Dmas : DOMAIN inputs'[d] = DOMAIN inputs[d]
      BY <1>1
  <2> QED
      BY <1>1, <1>3, <2>1, <2>2 DEF Selected, First
<1>10. Room'
    BY <1>1, <1>2, <1>3 DEF Inv, Room
<1>11. Levels'
    BY <1>1, <1>2, <1>3 DEF Inv, Levels, Running
<1>12. Counted'
    BY <1>1, <1>2, <1>3 DEF Inv, Counted, historyVars
<1> QED
    BY <1>6, <1>7, <1>8, <1>9, <1>10, <1>11, <1>12 DEF Inv

\* The hardware makes the shots of the part, and they fit.
LEMMA StartExperimentInv == ASSUME Inv, StartExperiment PROVE Inv'
<1>1. /\ UNCHANGED <<inputs, cache, shots, refVars, dmaVars, dma, executed, part, level, overflown,
                     armed, route, buffer, historyVars>>
      /\ pc = "start" /\ pc' = "save" /\ left' = register + 1
    BY DEF StartExperiment
<1>2. /\ \A f : Unit(f)' = Unit(f)
      /\ MaxHwShots' = MaxHwShots /\ Fifos' = Fifos /\ Dmas' = Dmas
    BY <1>1, SameUnits
<1>3. TypeOK /\ hwShots \in Nat \ {0} /\ hwShots <= MaxHwShots /\ left' = hwShots
    BY <1>1 DEF Inv, TypeOK, Planned
<1>4. TypeOK'
    BY <1>1, <1>2, <1>3 DEF TypeOK, refVars, dmaVars, historyVars
<1>5. Planned' /\ Turns'
    BY <1>1, <1>2 DEF Inv, Planned, Turns, refVars, dmaVars
<1>6. Selected'
    BY <1>1, <1>2 DEF Inv, Turns, Selected, First, dmaVars
<1>7. Room'
  <2>1. ASSUME NEW f \in Fifos PROVE level[f] + hwShots * Unit(f) <= FifoSize
    <3>1. level[f] = 0 /\ hwShots * Unit(f) <= FifoSize
        BY <1>1, <1>3, PartFits DEF Inv, Levels
    <3>2. hwShots * Unit(f) \in Nat
        BY <1>3, UnitNat, Product
    <3> QED
        BY <3>1, <3>2
  <2> QED
      BY <1>1, <1>2, <1>3, <2>1 DEF Inv, Room
<1>8. Levels'
  <2>1. ASSUME NEW d \in Dmas
        PROVE  /\ transferring[d] /\ armed[d]
               /\ \A j \in DOMAIN inputs[d] :
                      level[inputs[d][j]] = 0 /\ (hwShots - left') * Unit(inputs[d][j]) = 0
    <3>1. transferring[d] /\ armed[d]
        BY <1>1 DEF Inv, Turns, Selected
    <3>2. ASSUME NEW j \in DOMAIN inputs[d]
          PROVE  level[inputs[d][j]] = 0 /\ (hwShots - left') * Unit(inputs[d][j]) = 0
      <4>1. inputs[d][j] \in Fifos /\ Unit(inputs[d][j]) \in Nat /\ hwShots - left' = 0
          BY <1>3, Wiring, UnitNat
      <4> QED
          BY <1>1, <4>1 DEF Inv, Levels
    <3> QED
        BY <3>1, <3>2
  <2>2. Current' = hwShots
      BY <1>1 DEF Current, refVars
  <2> QED
      BY <1>1, <1>2, <2>1, <2>2 DEF Levels, Running, Received, dmaVars
<1>9. Counted'
    BY <1>1, <1>2 DEF Inv, Counted, dmaVars, historyVars
<1> QED
    BY <1>4, <1>5, <1>6, <1>7, <1>8, <1>9 DEF Inv

\* What is saved is what the references say of the part that runs.
LEMMA SaveVariablesInv == ASSUME Inv, SaveVariables PROVE Inv'
<1>1. /\ UNCHANGED <<inputs, cache, shots, refVars, transferring, index, dma, executed, part,
                     hardwareVars, historyVars>>
      /\ pc = "save" /\ pc' = "plan" /\ saved' = Payload /\ savedShots' = hwShots
    BY DEF SaveVariables
<1>2. /\ \A f : Unit(f)' = Unit(f)
      /\ MaxHwShots' = MaxHwShots /\ Fifos' = Fifos /\ Dmas' = Dmas
    BY <1>1, SameUnits
<1>3. TypeOK /\ hwShots \in Nat \ {0} /\ part = hwShots
    BY <1>1 DEF Inv, TypeOK, Planned
<1>4. TypeOK'
  <2>1. \A f \in Fifos : hwShots * Unit(f) \in Nat
      BY <1>3, UnitNat, Product
  <2>2. saved' \in [Fifos -> Nat]
      BY <1>1, <2>1 DEF Payload
  <2> QED
      BY <1>1, <1>2, <1>3, <2>2 DEF TypeOK, refVars, hardwareVars, historyVars
<1>5. Planned' /\ Turns'
    BY <1>1, <1>2 DEF Inv, Planned, Turns, refVars
<1>6. Selected' /\ Room'
    BY <1>1, <1>2 DEF Inv, Selected, Room, First, hardwareVars
<1>7. Levels'
  <2>1. Current = hwShots /\ Current' = hwShots
      BY <1>1 DEF Current
  <2> QED
      BY <1>1, <1>2, <2>1 DEF Inv, Levels, Running, Received, hardwareVars
<1>8. Counted'
    BY <1>1, <1>2, <1>3 DEF Inv, Counted, Payload, refVars, historyVars
<1> QED
    BY <1>4, <1>5, <1>6, <1>7, <1>8 DEF Inv

\* The references may describe the next part now; what was saved describes this one.
LEMMA PlanNextInv == ASSUME Inv, PlanNext PROVE Inv'
<1> DEFINE remaining == shots - executed'
<1>1. /\ UNCHANGED <<inputs, cache, shots, dmaVars, dma, hardwareVars, historyVars>>
      /\ pc = "plan" /\ executed' = executed + part
    BY DEF PlanNext
<1>2. /\ \A f : Unit(f)' = Unit(f)
      /\ MaxHwShots' = MaxHwShots /\ Fifos' = Fifos /\ Dmas' = Dmas
    BY <1>1, SameUnits
<1>3. /\ TypeOK /\ hwShots \in Nat \ {0} /\ part = hwShots /\ executed \in Nat /\ shots \in Nat
      /\ executed' \in Nat /\ remaining \in Nat
    BY <1>1 DEF Inv, TypeOK, Planned
<1>4. /\ pc' \in {"transfer", "failing"} /\ part' \in Nat
      /\ hwShots' \in Nat /\ cachedHw' \in Nat \cup {Unhashed}
      /\ register' \in 0..MaxRepetitions - 1
      /\ Planned'
  <2>1. CASE part > remaining /\ remaining > 0
    <3>1. part' = remaining /\ Update(remaining) /\ pc' \in {"transfer", "failing"}
          /\ (pc' = "transfer" => hwShots' = remaining)
        BY <2>1 DEF PlanNext
    <3>2. /\ hwShots' \in Nat /\ hwShots' <= MaxHwShots /\ hwShots' <= remaining
          /\ cachedHw' = hwShots'
          /\ hwShots' > 0 => register' = hwShots' - 1
          /\ register' \in 0..MaxRepetitions - 1
        BY <1>3, <3>1, UpdateFacts DEF Inv
    <3> HIDE DEF remaining
    <3>3. Planned'
      <4>1. executed' <= shots' /\ remaining <= shots' - executed'
          BY <1>1, <1>3 DEF remaining
      <4>2. hwShots' <= MaxHwShots'
          BY <1>2, <3>2
      <4> QED
          BY <2>1, <3>1, <3>2, <4>1, <4>2 DEF Planned
    <3> QED
        BY <1>3, <3>1, <3>2, <3>3
  <2>2. CASE ~(part > remaining /\ remaining > 0)
    <3>1. pc' = "transfer" /\ UNCHANGED <<hwShots, cachedHw, register, part>>
        BY <2>2 DEF PlanNext, refVars
    <3>2. executed' <= shots' /\ (executed' < shots' => part' <= shots' - executed')
        BY <1>1, <1>3, <2>2, <3>1
    <3>3. Planned'
        BY <1>1, <1>2, <3>1, <3>2 DEF Inv, Planned
    <3> QED
        BY <1>3, <3>1, <3>3 DEF TypeOK
  <2> QED
      BY <2>1, <2>2
<1>5. TypeOK'
    BY <1>1, <1>2, <1>3, <1>4 DEF TypeOK, dmaVars, hardwareVars, historyVars
<1>6. Turns'
    BY <1>1, <1>2, <1>4, Wiring DEF Inv, Turns, dmaVars
<1>7. Selected' /\ Room'
    BY <1>1, <1>2, <1>4 DEF Inv, Selected, Room, First, dmaVars, hardwareVars
<1>8. Levels'
  <2>1. Current' = Current
      BY <1>1, <1>4 DEF Current, dmaVars
  <2> QED
      BY <1>1, <1>2, <1>4, <2>1 DEF Inv, Levels, Running, Received, dmaVars, hardwareVars
<1>9. Counted'
  <2>1. ASSUME NEW d \in Dmas, NEW j \in DOMAIN inputs[d], Unit(inputs[d][j]) > 0
        PROVE  ~Put(d, j) /\ delivered[inputs[d][j]] = executed' - savedShots
    <3>1. transferring[d] /\ ~(j < index[d])
        BY <1>1, <2>1 DEF Inv, Turns, Selected, First
    <3>2. delivered[inputs[d][j]] = executed
        BY <1>1, <1>3, <2>1, Wiring DEF Inv, Counted
    <3>3. savedShots = part
        BY <1>1 DEF Inv, Counted
    <3> QED
        BY <1>1, <1>3, <3>1, <3>2, <3>3 DEF Put
  <2> QED
      BY <1>1, <1>2, <1>4, <2>1 DEF Inv, Counted, Put, dmaVars, historyVars
<1> QED
    BY <1>4, <1>5, <1>6, <1>7, <1>8, <1>9 DEF Inv

\* A channel in error fails the run.
LEMMA TransferErrorInv == ASSUME Inv, TransferError PROVE Inv'
<1>1. /\ UNCHANGED <<inputs, cache, shots, refVars, saved, savedShots, dma, executed, part,
                     hardwareVars, configured, delivered>>
      /\ pc = "transfer" /\ pc' = "failing" /\ clean' = FALSE
      /\ transferring' = [transferring EXCEPT ![dma] = FALSE] /\ index' = [index EXCEPT ![dma] = 0]
    BY DEF TransferError
<1>2. /\ \A f : Unit(f)' = Unit(f)
      /\ MaxHwShots' = MaxHwShots /\ Fifos' = Fifos /\ Dmas' = Dmas
    BY <1>1, SameUnits
<1>3. TypeOK'
    BY <1>1, <1>2 DEF Inv, TypeOK, refVars, hardwareVars
<1>4. Planned' /\ Turns'
    BY <1>1, <1>2 DEF Inv, Planned, Turns, refVars
<1>5. Selected' /\ Room'
    BY <1>1, <1>2 DEF Inv, Selected, Room, hardwareVars
<1>6. Levels' /\ Counted'
    BY <1>1, <1>2 DEF Inv, Levels, Running, Counted
<1> QED
    BY <1>3, <1>4, <1>5, <1>6 DEF Inv

\* After a failure everything is at rest.
LEMMA FailRunInv == ASSUME Inv, FailRun PROVE Inv'
<1>1. /\ UNCHANGED <<inputs, cache, shots, refVars, overflown, route, configured>>
      /\ transferring' = [d \in Dmas |-> FALSE] /\ index' = [d \in Dmas |-> 0]
      /\ pc' = "idle" /\ dma' = 1 /\ left' = 0 /\ executed' = 0 /\ part' = 0 /\ savedShots' = 0
      /\ level' = [f \in Fifos |-> 0] /\ armed' = [d \in Dmas |-> FALSE]
      /\ saved' = [f \in Fifos |-> 0] /\ buffer' = [d \in Dmas |-> 0]
      /\ delivered' = [f \in Fifos |-> 0]
      /\ clean' \in BOOLEAN
    BY DEF FailRun, Abandon, Return, Inv, TypeOK
<1>2. Fifos' = Fifos /\ Dmas' = Dmas
    BY <1>1, SameUnits
<1>3. AtRest'
  <2>1. level' \in [Fifos -> 0..FifoSize]
      BY <1>1, SizeAssumption
  <2>2. dma' \in Dmas
      BY <1>1, Wiring DEF Inv
  <2>3. TypeOK'
      BY <1>1, <1>2, <2>1, <2>2 DEF Inv, TypeOK, refVars
  <2> QED
      BY <1>1, <1>2, <2>3 DEF Inv, Planned, Selected, Room, AtRest, refVars
<1> QED
    BY <1>3, AtRestInv, PTL

\* When all has been transferred the part has ended, nothing is left in a FIFO and
\* every FIFO in use has delivered what was executed.
LEMMA Ended ==
    ASSUME Inv, pc = "wait"
    PROVE  /\ left = 0 /\ executed <= shots
           /\ \A d \in Dmas : ~transferring[d] /\ ~armed[d]
           /\ \A f \in Fifos : level[f] = 0 /\ (Unit(f) > 0 => delivered[f] = executed)
<1>1. \A d \in Dmas : ~transferring[d] /\ ~armed[d]
    BY DEF Inv, Turns, Selected
<1>2. left = 0
  <2>1. 1 \in Dmas /\ left \in Nat
      BY Wiring DEF Inv, TypeOK
  <2> QED
      BY <1>1, <2>1 DEF Inv, Selected
<1>3. ASSUME NEW f \in Fifos PROVE level[f] = 0 /\ (Unit(f) > 0 => delivered[f] = executed)
  <2>1. PICK d \in Dmas : \E j \in DOMAIN inputs[d] : f = inputs[d][j]
      BY Wiring DEF Inv
  <2>2. PICK j \in DOMAIN inputs[d] : f = inputs[d][j]
      BY <2>1
  <2> QED
      BY <1>1, <2>2 DEF Inv, Levels, Counted, Running, Received, Put
<1> QED
    BY <1>1, <1>2, <1>3 DEF Inv, Planned

\* The next part begins, or the run returns.
LEMMA WaitDoneInv == ASSUME Inv, WaitDone PROVE Inv'
<1>1. /\ UNCHANGED <<inputs, cache, shots, refVars, transferring, index, dma,
                     left, level, overflown, armed, route, clean, configured>>
      /\ pc = "wait"
    BY DEF WaitDone
<1>2. /\ \A f : Unit(f)' = Unit(f)
      /\ MaxHwShots' = MaxHwShots /\ Fifos' = Fifos /\ Dmas' = Dmas
    BY <1>1, SameUnits
<1>3. /\ left = 0 /\ dma = 1
      /\ \A d \in Dmas : ~transferring[d] /\ ~armed[d]
      /\ \A f \in Fifos : level[f] = 0 /\ (Unit(f) > 0 => delivered[f] = executed)
    BY <1>1, Ended DEF Inv, Turns
<1>4. CASE executed < shots
  <2>1. pc' = "init" /\ UNCHANGED <<executed, part, saved, savedShots, buffer, delivered>>
      BY <1>4 DEF WaitDone
  <2>2. TypeOK'
      BY <1>1, <1>2, <2>1 DEF Inv, TypeOK, refVars
  <2>3. Planned'
      BY <1>1, <1>2, <1>4, <2>1 DEF Inv, Planned, refVars
  <2>4. Turns'
      BY <1>1, <1>2, <1>3, <2>1, Wiring DEF Inv, Turns
  <2>5. Selected' /\ Room'
      BY <1>1, <1>2, <1>3, <2>1 DEF Inv, Selected, Room
  <2>6. Levels' /\ Counted'
      BY <1>1, <1>2, <1>3, <2>1 DEF Inv, Levels, Running, Counted
  <2> QED
      BY <2>2, <2>3, <2>4, <2>5, <2>6 DEF Inv
<1>5. CASE ~(executed < shots)
  <2>1. /\ pc' = "idle" /\ executed' = 0 /\ part' = 0 /\ savedShots' = 0
        /\ saved' = [f \in Fifos |-> 0] /\ buffer' = [d \in Dmas |-> 0]
        /\ delivered' = [f \in Fifos |-> 0]
      BY <1>5 DEF WaitDone, Return
  <2>2. TypeOK'
      BY <1>1, <1>2, <2>1 DEF Inv, TypeOK, refVars
  <2>3. AtRest'
      BY <1>1, <1>2, <1>3, <2>1, <2>2 DEF Inv, Planned, Selected, Room, AtRest, refVars
  <2> QED
      BY <2>3, AtRestInv, PTL
<1> QED
    BY <1>4, <1>5

\* A package of the input that was received is put in the queue.
LEMMA TransferPutInv == ASSUME Inv, TransferPut PROVE Inv'
<1> DEFINE at == index[dma]
           g == inputs[dma][at]
           pending == Pending(saved, dma, at)
<1>1. /\ UNCHANGED <<inputs, cache, shots, refVars, saved, savedShots, executed, part,
                     left, level, overflown, buffer, clean, configured>>
      /\ pc = "transfer" /\ transferring[dma] /\ ~armed[dma]
      /\ delivered' = [delivered EXCEPT ![g] = @ + savedShots]
    BY DEF TransferPut, Labels
<1>2. /\ \A f : Unit(f)' = Unit(f)
      /\ MaxHwShots' = MaxHwShots /\ Fifos' = Fifos /\ Dmas' = Dmas
    BY <1>1, SameUnits
<1>3. /\ TypeOK /\ dma \in Dmas /\ Dmas = 1..Len(inputs) /\ Len(inputs) \in Nat
      /\ at \in DOMAIN inputs[dma] /\ at \in Nat /\ g \in Fifos /\ Unit(g) > 0
      /\ left = 0 /\ savedShots \in Nat \ {0}
  <2>1. TypeOK /\ dma \in Dmas
      BY DEF Inv, TypeOK
  <2>2. at \in DOMAIN inputs[dma] /\ Unit(g) > 0
      BY <1>1, <2>1 DEF Inv, Selected
  <2>3. left = 0
      BY <1>1, <2>1 DEF Inv, Selected, TypeOK
  <2>4. savedShots \in Nat \ {0}
      BY <1>1 DEF Inv, Counted, TypeOK
  <2> QED
      BY <2>1, <2>2, <2>3, <2>4, Wiring
<1>4. /\ pending = {} => \A j \in DOMAIN inputs[dma] : j > at => Unit(inputs[dma][j]) = 0
      /\ pending # {} =>
             /\ Min(pending) \in DOMAIN inputs[dma] /\ Min(pending) \in Nat /\ Min(pending) > at
             /\ Unit(inputs[dma][Min(pending)]) > 0
             /\ \A j \in DOMAIN inputs[dma] :
                    j > at /\ j < Min(pending) => Unit(inputs[dma][j]) = 0
  <2>1. \A f \in Fifos : saved[f] = savedShots * Unit(f)
      BY DEF Inv, Counted
  <2> QED
      BY <1>3, <2>1, PendingFacts
\* The next input of the switch, or the next DMA.
<1>5. \/ /\ pending = {}
         /\ transferring' = [transferring EXCEPT ![dma] = FALSE]
         /\ index' = [index EXCEPT ![dma] = 0]
         /\ UNCHANGED <<armed, route>>
         /\ \/ dma = Len(inputs) /\ dma' = 1 /\ pc' = "wait"
            \/ dma # Len(inputs) /\ dma' = dma + 1 /\ pc' = "transfer"
      \/ /\ pending # {}
         /\ index' = [index EXCEPT ![dma] = Min(pending)]
         /\ route' = [route EXCEPT ![dma] = Min(pending)]
         /\ armed' = [armed EXCEPT ![dma] = TRUE]
         /\ UNCHANGED <<transferring, pc, dma>>
    BY DEF TransferPut, NextDma
<1>6. pc' \in {"transfer", "wait"}
    BY <1>1, <1>5
<1>7. /\ transferring' \in [Dmas -> BOOLEAN] /\ armed' \in [Dmas -> BOOLEAN]
      /\ index' \in [Dmas -> Nat] /\ route' \in [Dmas -> Nat]
  <2>1. CASE pending = {}
      BY <1>3, <1>5, <2>1 DEF TypeOK
  <2>2. CASE pending # {}
    <3>1. Min(pending) \in Nat
        BY <1>4, <2>2
    <3>2. /\ index' = [index EXCEPT ![dma] = Min(pending)]
          /\ route' = [route EXCEPT ![dma] = Min(pending)]
          /\ armed' = [armed EXCEPT ![dma] = TRUE] /\ transferring' = transferring
        BY <1>5, <2>2
    <3> HIDE DEF pending
    <3> QED
        BY <1>3, <3>1, <3>2 DEF TypeOK
  <2> QED
      BY <2>1, <2>2
<1>8. \A d \in Dmas : d # dma =>
      /\ transferring'[d] = transferring[d] /\ armed'[d] = armed[d]
      /\ index'[d] = index[d] /\ route'[d] = route[d]
    BY <1>3, <1>5 DEF TypeOK
<1>9. IF pending = {}
      THEN ~transferring'[dma] /\ ~armed'[dma] /\ route'[dma] = route[dma]
      ELSE /\ transferring'[dma] /\ armed'[dma]
           /\ index'[dma] = Min(pending) /\ route'[dma] = Min(pending)
    BY <1>1, <1>3, <1>5 DEF TypeOK
<1>10. dma' \in Dmas
    BY <1>3, <1>5
\* What the switch has received and delivered now.
<1>11. ASSUME NEW d \in Dmas, NEW j \in DOMAIN inputs[d]
       PROVE  /\ Unit(inputs[d][j]) > 0 => (Received(d, j)' <=> Received(d, j))
              /\ Received(d, j) => Received(d, j)'
              /\ Unit(inputs[d][j]) > 0 =>
                     (Put(d, j)' <=> Put(d, j) \/ (d = dma /\ j = at))
  <2>1. j \in Nat
      BY <1>3, Wiring
  <2>2. CASE d # dma
      BY <1>8, <2>2 DEF Received, Put
  <2>3. CASE d = dma
      BY <1>1, <1>3, <1>4, <1>9, <2>1, <2>3 DEF Received, Put
  <2> QED
      BY <2>2, <2>3
<1> HIDE DEF at, pending
<1>12. TypeOK'
  <2>1. delivered' \in [Fifos -> Nat]
      BY <1>1, <1>3 DEF TypeOK
  <2> QED
      BY <1>1, <1>2, <1>3, <1>6, <1>7, <1>10, <2>1 DEF TypeOK, refVars
<1>13. Planned'
    BY <1>1, <1>2, <1>6 DEF Inv, Planned, refVars
<1>14. Turns'
  <2>1. CASE pending = {}
    <3>1. \A d \in Dmas : transferring'[d] <=> d > dma
        BY <1>1, <1>3, <1>8, <1>9, <2>1 DEF Inv, Turns
    <3> QED
        BY <1>2, <1>3, <1>5, <2>1, <3>1 DEF Turns
  <2>2. CASE pending # {}
    <3>1. \A d \in Dmas : transferring'[d] <=> d >= dma
        BY <1>1, <1>3, <1>5, <2>2 DEF Inv, Turns
    <3> QED
        BY <1>1, <1>2, <1>5, <2>2, <3>1 DEF Turns
  <2> QED
      BY <2>1, <2>2
<1>15. Selected'
  <2>1. ASSUME NEW d \in Dmas
        PROVE  /\ route'[d] \in DOMAIN inputs[d]
               /\ transferring'[d] => index'[d] = route'[d] /\ Unit(inputs[d][index'[d]]) > 0
               /\ armed'[d] => transferring'[d]
    <3>1. CASE d = dma
        BY <1>4, <1>9, <3>1 DEF Inv, Selected
    <3>2. CASE d # dma
        BY <1>1, <1>8, <3>2 DEF Inv, Selected
    <3> QED
        BY <3>1, <3>2
  <2> QED
      BY <1>1, <1>2, <1>3, <1>6, <2>1 DEF Selected
<1>16. Room'
    BY <1>1, <1>2, <1>6 DEF Inv, Room
<1>17. Levels'
  <2>1. Current = savedShots /\ Current' = savedShots /\ Running
      BY <1>1, <1>6 DEF Current, Running
  <2>2. ASSUME NEW d \in Dmas, NEW j \in DOMAIN inputs[d]
        PROVE  level[inputs[d][j]] =
                   IF Received(d, j)' THEN 0 ELSE (savedShots - left) * Unit(inputs[d][j])
    <3>1. level[inputs[d][j]] =
              IF Received(d, j) THEN 0 ELSE (savedShots - left) * Unit(inputs[d][j])
        BY <2>1 DEF Inv, Levels
    <3>2. CASE Unit(inputs[d][j]) > 0
        BY <1>11, <3>1, <3>2
    <3>3. CASE ~(Unit(inputs[d][j]) > 0)
      <4>1. Unit(inputs[d][j]) = 0 /\ savedShots - left \in Int
          BY <1>3, <3>3, Wiring, UnitNat
      <4>2. (savedShots - left) * Unit(inputs[d][j]) = 0
          BY <4>1
      <4> QED
          BY <3>1, <4>2
    <3> QED
        BY <3>2, <3>3
  <2>3. ASSUME NEW d \in Dmas, transferring'[d], ~armed'[d]
        PROVE  buffer'[d] = savedShots * Unit(inputs[d][index'[d]])
    <3>1. d # dma
        BY <1>9, <2>3
    <3> QED
        BY <1>1, <1>8, <2>1, <2>3, <3>1 DEF Inv, Levels
  <2> QED
      BY <1>1, <1>2, <1>6, <2>1, <2>2, <2>3 DEF Levels
<1>18. Counted'
  <2>1. ASSUME NEW d \in Dmas, NEW j \in DOMAIN inputs[d], Unit(inputs[d][j]) > 0
        PROVE  delivered'[inputs[d][j]] = IF Put(d, j)' THEN executed ELSE executed - savedShots
    <3>1. delivered[inputs[d][j]] = IF Put(d, j) THEN executed ELSE executed - savedShots
        BY <1>1, <2>1 DEF Inv, Counted
    <3>2. CASE d = dma /\ j = at
      <4>1. ~Put(d, j) /\ Put(d, j)'
          BY <1>1, <1>3, <1>11, <2>1, <3>2 DEF Put, at
      <4>2. delivered'[inputs[d][j]] = delivered[inputs[d][j]] + savedShots
          BY <1>1, <1>3, <3>2 DEF TypeOK
      <4> QED
          BY <1>3, <3>1, <4>1, <4>2 DEF TypeOK
    <3>3. CASE ~(d = dma /\ j = at)
      <4>1. inputs[d][j] # g
          BY <1>3, <3>3, Wiring DEF at
      <4>2. delivered'[inputs[d][j]] = delivered[inputs[d][j]]
          BY <1>1, <1>3, <4>1, Wiring DEF TypeOK
      <4> QED
          BY <1>11, <2>1, <3>1, <3>3, <4>2
    <3> QED
        BY <3>2, <3>3
  <2> QED
      BY <1>1, <1>2, <1>6, <2>1 DEF Inv, Counted
<1> QED
    BY <1>12, <1>13, <1>14, <1>15, <1>16, <1>17, <1>18 DEF Inv

-----------------------------------------------------------------------------
(* The steps of the hardware.                                               *)

\* While shots are made nothing is received, and every FIFO takes what is sent to it.
LEMMA ShotInv == ASSUME Inv, Shot PROVE Inv'
<1>1. /\ UNCHANGED <<inputs, cache, shots, refVars, dmaVars, pc, dma, executed, part,
                     armed, route, buffer, historyVars>>
      /\ left > 0 /\ left' = left - 1
      /\ level' = [f \in Fifos |-> Min({level[f] + Unit(f), FifoSize})]
      /\ overflown' = (overflown \/ \E f \in Fifos : level[f] + Unit(f) > FifoSize)
    BY DEF Shot
<1>2. /\ \A f : Unit(f)' = Unit(f)
      /\ MaxHwShots' = MaxHwShots /\ Fifos' = Fifos /\ Dmas' = Dmas
    BY <1>1, SameUnits
<1>3. TypeOK /\ left \in Nat \ {0} /\ left' \in Nat /\ pc \notin {"idle", "init", "start"}
    BY <1>1 DEF Inv, TypeOK, Room
<1>4. ASSUME NEW f \in Fifos
      PROVE  /\ Unit(f) \in Nat /\ level[f] \in Nat
             /\ level[f] + Unit(f) <= FifoSize
             /\ level'[f] = level[f] + Unit(f)
             /\ level'[f] + left' * Unit(f) <= FifoSize
  <2>1. Unit(f) \in Nat /\ level[f] \in Nat /\ FifoSize \in Nat
      BY <1>3, UnitNat, SizeAssumption DEF TypeOK
  <2>2. left' * Unit(f) + Unit(f) = left * Unit(f) /\ left' * Unit(f) \in Nat
      BY <1>1, <1>3, <2>1, OneShot, Product
  <2>3. level[f] + left * Unit(f) <= FifoSize
      BY DEF Inv, Room
  <2>4. level[f] + Unit(f) <= FifoSize /\ level[f] + Unit(f) + left' * Unit(f) <= FifoSize
      BY <2>1, <2>2, <2>3
  <2>5. level'[f] = level[f] + Unit(f)
      BY <1>1, <2>1, <2>4, LesserOfTwo
  <2> QED
      BY <2>1, <2>4, <2>5
<1>5. level' \in [Fifos -> 0..FifoSize]
  <2>1. \A f \in Fifos : level'[f] \in 0..FifoSize
      BY <1>4, SizeAssumption
  <2> QED
      BY <1>1, <2>1
<1>6. overflown' = FALSE
  <2>1. ~\E f \in Fifos : level[f] + Unit(f) > FifoSize
      BY <1>4, SizeAssumption
  <2> QED
      BY <1>1, <2>1 DEF Inv, Room
<1>7. TypeOK'
    BY <1>1, <1>2, <1>3, <1>5, <1>6 DEF TypeOK, refVars, dmaVars, historyVars
<1>8. Planned' /\ Turns'
    BY <1>1, <1>2 DEF Inv, Planned, Turns, refVars, dmaVars
<1>9. Selected'
    BY <1>1, <1>2, <1>3 DEF Inv, Selected, First, dmaVars
<1>10. Room'
    BY <1>1, <1>2, <1>3, <1>4, <1>6 DEF Room
<1>11. Levels'
  <2>1. CASE pc = "failing"
      BY <1>1, <2>1 DEF Levels, Running
  <2>2. CASE pc # "failing"
    <3>1. Running /\ Current \in Nat /\ Current' = Current
        BY <1>1, <1>3, <2>2 DEF TypeOK, Running, Current, refVars, dmaVars
    <3>2. \A d \in Dmas : transferring[d] /\ armed[d] /\ First(d)
        BY <1>1, <2>2 DEF Inv, Selected
    <3>3. ASSUME NEW d \in Dmas, NEW j \in DOMAIN inputs[d]
          PROVE  level'[inputs[d][j]] =
                     IF Received(d, j) THEN 0 ELSE (Current - left') * Unit(inputs[d][j])
      <4> DEFINE f == inputs[d][j]
      <4>1. f \in Fifos /\ Unit(f) \in Nat /\ level'[f] = level[f] + Unit(f)
          BY <1>3, <1>4, Wiring
      <4>2. level[f] = IF Received(d, j) THEN 0 ELSE (Current - left) * Unit(f)
          BY <3>1 DEF Inv, Levels
      <4>3. (Current - left') * Unit(f) = (Current - left) * Unit(f) + Unit(f)
          BY <1>1, <1>3, <3>1, <4>1, OneShot
      <4>4. Received(d, j) => Unit(f) = 0
          BY <3>2 DEF Received, First
      <4> QED
          BY <4>1, <4>2, <4>3, <4>4
    <3> QED
      <4>1. \A d, j : Received(d, j)' <=> Received(d, j)
          BY <1>1 DEF Received, dmaVars
      <4>2. inputs' = inputs /\ transferring' = transferring /\ armed' = armed /\ pc' = pc
          BY <1>1, <1>2 DEF dmaVars
      <4> QED
          BY <1>2, <1>3, <3>1, <3>2, <3>3, <4>1, <4>2 DEF Levels
  <2> QED
      BY <2>1, <2>2
<1>12. Counted'
    BY <1>1, <1>2, <1>3 DEF Inv, Counted, Put, dmaVars, historyVars
<1> QED
    BY <1>7, <1>8, <1>9, <1>10, <1>11, <1>12 DEF Inv

\* A packet is what the FIFO holds after the last shot; no other FIFO is emptied.
LEMMA ReceiveInv == ASSUME Inv, NEW e \in Dmas, Receive(e) PROVE Inv'
<1> DEFINE g == inputs[e][route[e]]
<1>1. /\ UNCHANGED <<inputs, cache, shots, refVars, dmaVars, pc, dma, executed, part,
                     left, overflown, route, historyVars>>
      /\ armed[e] /\ left = 0 /\ level[g] > 0
      /\ buffer' = [buffer EXCEPT ![e] = level[g]]
      /\ level' = [level EXCEPT ![g] = 0]
      /\ armed' = [armed EXCEPT ![e] = FALSE]
    BY DEF Receive
<1>2. /\ \A f : Unit(f)' = Unit(f)
      /\ MaxHwShots' = MaxHwShots /\ Fifos' = Fifos /\ Dmas' = Dmas
    BY <1>1, SameUnits
<1>3. /\ TypeOK /\ route[e] \in DOMAIN inputs[e] /\ route[e] \in Nat
      /\ g \in Fifos /\ level[g] \in 0..FifoSize
  <2>1. TypeOK /\ route[e] \in DOMAIN inputs[e]
      BY DEF Inv, Selected
  <2> QED
      BY <2>1, Wiring DEF TypeOK
<1>4. pc \notin {"idle", "init", "start"}
    BY <1>1, <1>3 DEF Inv, Levels
<1>5. TypeOK'
  <2>1. level' \in [Fifos -> 0..FifoSize] /\ buffer' \in [Dmas -> Nat] /\ armed' \in [Dmas -> BOOLEAN]
      BY <1>1, <1>3, SizeAssumption DEF TypeOK
  <2> QED
      BY <1>1, <1>2, <1>3, <2>1 DEF TypeOK, refVars, dmaVars, historyVars
<1>6. Planned' /\ Turns'
    BY <1>1, <1>2 DEF Inv, Planned, Turns, refVars, dmaVars
<1>7. Selected'
  <2>1. \A d \in Dmas : armed'[d] => armed[d]
      BY <1>1, <1>3 DEF TypeOK
  <2> QED
      BY <1>1, <1>2, <1>3, <1>4, <2>1 DEF Inv, Selected, First, dmaVars
<1>8. Room'
  <2>1. ASSUME NEW f \in Fifos PROVE level'[f] + left * Unit(f) <= FifoSize
    <3>1. /\ level[f] \in Nat /\ level'[f] \in Nat /\ level'[f] <= level[f]
          /\ left * Unit(f) \in Nat /\ FifoSize \in Nat
        BY <1>1, <1>3, UnitNat, SizeAssumption DEF TypeOK
    <3> QED
        BY <3>1 DEF Inv, Room
  <2> QED
      BY <1>1, <1>2, <1>4, <2>1 DEF Inv, Room
<1>9. Levels'
  <2>1. CASE pc = "failing"
      BY <1>1, <2>1 DEF Levels, Running
  <2>2. CASE pc # "failing"
    <3>1. Running /\ Current \in Nat /\ Current' = Current
        BY <1>1, <1>3, <1>4, <2>2 DEF TypeOK, Running, Current, refVars, dmaVars
    <3>2. transferring[e] /\ index[e] = route[e]
        BY <1>1, <2>2 DEF Inv, Selected
    <3>3. ASSUME NEW d \in Dmas, NEW j \in DOMAIN inputs[d]
          PROVE  level'[inputs[d][j]] =
                     IF Received(d, j)' THEN 0 ELSE (Current - left) * Unit(inputs[d][j])
      <4>1. level[inputs[d][j]] =
                IF Received(d, j) THEN 0 ELSE (Current - left) * Unit(inputs[d][j])
          BY <3>1 DEF Inv, Levels
      <4>2. CASE d = e /\ j = route[e]
        <5>1. Received(d, j)'
            BY <1>1, <1>3, <3>2, <4>2 DEF Received, TypeOK, dmaVars
        <5>2. level'[inputs[d][j]] = 0
            BY <1>1, <1>3, <4>2 DEF TypeOK
        <5> QED
            BY <5>1, <5>2
      <4>3. CASE ~(d = e /\ j = route[e])
        <5>1. inputs[d][j] # g
            BY <1>3, <4>3, Wiring
        <5>2. level'[inputs[d][j]] = level[inputs[d][j]]
            BY <1>1, <1>3, <5>1, Wiring DEF TypeOK
        <5>3. Received(d, j)' <=> Received(d, j)
            BY <1>1, <1>3, <3>2, <4>3 DEF Received, TypeOK, dmaVars
        <5> QED
            BY <4>1, <5>2, <5>3
      <4> QED
          BY <4>2, <4>3
    <3>4. ASSUME NEW d \in Dmas, transferring[d], ~armed'[d]
          PROVE  buffer'[d] = Current * Unit(inputs[d][index[d]])
      <4>1. CASE d = e
        <5>1. ~Received(e, route[e])
            BY <1>1, <1>3, <3>2 DEF Received
        <5>2. level[g] = (Current - 0) * Unit(g)
            BY <1>1, <1>3, <3>1, <5>1 DEF Inv, Levels
        <5>3. Unit(g) \in Nat
            BY <1>3, UnitNat
        <5>4. level[g] = Current * Unit(g)
            BY <3>1, <5>2, <5>3
        <5> QED
            BY <1>1, <1>3, <3>2, <4>1, <5>4 DEF TypeOK
      <4>2. CASE d # e
        <5>1. ~armed[d] /\ buffer'[d] = buffer[d]
            BY <1>1, <1>3, <3>4, <4>2 DEF TypeOK
        <5> QED
            BY <3>1, <3>4, <5>1 DEF Inv, Levels
      <4> QED
          BY <4>1, <4>2
    <3> QED
        BY <1>1, <1>2, <1>4, <3>1, <3>3, <3>4 DEF Levels, dmaVars
  <2> QED
      BY <2>1, <2>2
<1>10. Counted'
    BY <1>1, <1>2 DEF Inv, Counted, Put, dmaVars, historyVars
<1> QED
    BY <1>5, <1>6, <1>7, <1>8, <1>9, <1>10 DEF Inv

\* Stuttering changes nothing.
LEMMA StutterInv == ASSUME Inv, UNCHANGED vars PROVE Inv'
<1> USE DEF vars, refVars, dmaVars, hardwareVars, historyVars
<1>1. inputs' = inputs /\ cache' = cache
    OBVIOUS
<1>2. /\ \A f : Unit(f)' = Unit(f)
      /\ MaxHwShots' = MaxHwShots /\ Fifos' = Fifos /\ Dmas' = Dmas
    BY <1>1, SameUnits
<1>3. TypeOK' /\ Planned' /\ Turns'
    BY <1>2 DEF Inv, TypeOK, Planned, Turns
<1>4. Selected' /\ Room'
    BY <1>2 DEF Inv, Selected, Room, First
<1>5. Levels' /\ Counted'
    BY <1>2 DEF Inv, Levels, Counted, Running, Current, Received, Put
<1> QED
    BY <1>3, <1>4, <1>5 DEF Inv

-----------------------------------------------------------------------------
(* The theorems.                                                            *)

\* Every step preserves the invariant.
LEMMA NextInv == Inv /\ [Next]_vars => Inv'
<1> SUFFICES ASSUME Inv, [Next]_vars PROVE Inv'
    OBVIOUS
<1>1. CASE Configure
    BY <1>1, ConfigureInv
<1>2. CASE BeginRun
    BY <1>2, BeginRunInv
<1>3. CASE InitDmaFails
    BY <1>3, InitDmaFailsInv
<1>4. CASE InitDma
    BY <1>4, InitDmaInv
<1>5. CASE StartExperiment
    BY <1>5, StartExperimentInv
<1>6. CASE SaveVariables
    BY <1>6, SaveVariablesInv
<1>7. CASE PlanNext
    BY <1>7, PlanNextInv
<1>8. CASE TransferPut
    BY <1>8, TransferPutInv
<1>9. CASE WaitDone
    BY <1>9, WaitDoneInv
<1>10. CASE FailRun
    BY <1>10, FailRunInv
<1>11. CASE TransferError
    BY <1>11, TransferErrorInv
<1>12. CASE Shot
    BY <1>12, ShotInv
<1>13. CASE \E d \in Dmas : Receive(d)
    BY <1>13, ReceiveInv
<1>14. CASE UNCHANGED vars
    BY <1>14, StutterInv
<1> QED
    BY <1>1, <1>2, <1>3, <1>4, <1>5, <1>6, <1>7, <1>8, <1>9, <1>10, <1>11, <1>12, <1>13, <1>14
    DEF Next, Step, Hardware

\* The invariant holds in every behaviour.
LEMMA AlwaysInv == Spec => []Inv
<1> QED
    BY InitInv, NextInv, PTL DEF Spec

\* Every variable has its type; the register never exceeds what the trigger generator
\* can count, and the level of a FIFO never its size.
THEOREM SystemTypes == Spec => []TypeOK
<1>1. Inv => TypeOK
    BY DEF Inv
<1> QED
    BY <1>1, AlwaysInv, PTL

\* No FIFO overflows, whatever the payloads, the sizes and the design: the parts that
\* update_hw_shots() plans fit.
THEOREM PartsFit == Spec => []NoOverflow
<1>1. Inv => NoOverflow
    BY DEF Inv, Room, NoOverflow
<1> QED
    BY <1>1, AlwaysInv, PTL

\* Whenever the trigger generator is started its register holds the shots of the part,
\* though the hash lets most writes be left out.
THEOREM RegisterWritten == Spec => []RegisterIsPart
<1>1. Inv => RegisterIsPart
    BY DEF Inv, TypeOK, Planned, RegisterIsPart
<1> QED
    BY <1>1, AlwaysInv, PTL

\* A run that returns has delivered the shots asked for from every acquisition in use,
\* no more and no less, and leaves every FIFO empty and no channel waiting.
THEOREM RunsComplete == Spec => []RunComplete
<1>1. Inv => RunComplete
    BY Ended DEF RunComplete
<1> QED
    BY <1>1, AlwaysInv, PTL

\* Between runs no DMA node is transferring, however the last run ended.
THEOREM NodesReleased == Spec => []NoneTransferring
<1>1. Inv => NoneTransferring
    BY DEF Inv, Turns, NoneTransferring
<1> QED
    BY <1>1, AlwaysInv, PTL

\* The packet that is put in the queue is the one that its header describes: transfer_all()
\* uses what save_variables() kept, and the references may already plan the next part.
THEOREM PackagesAreTrue == Spec => PackagesTrue
<1> DEFINE True == LET f == inputs[dma][index[dma]]
                   IN  buffer[dma] = Labels(f).size /\ Labels(f).size = Labels(f).shots * Unit(f)
<1>1. Inv /\ [Next]_vars => [TransferPut /\ clean => True]_vars
  <2> SUFFICES ASSUME Inv, TransferPut PROVE True
      OBVIOUS
  <2>1. pc = "transfer" /\ transferring[dma] /\ ~armed[dma] /\ dma \in Dmas
      BY DEF TransferPut, Inv, TypeOK
  <2>2. inputs[dma][index[dma]] \in Fifos
      BY <2>1, Wiring DEF Inv, Selected
  <2> QED
      BY <2>1, <2>2 DEF Inv, Levels, Counted, Running, Current, Labels
<1> QED
    BY <1>1, AlwaysInv, PTL DEF Spec, PackagesTrue
=============================================================================
