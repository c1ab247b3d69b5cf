------------------------------ MODULE AbrProofs ------------------------------
(***************************************************************************)
(* AbrClient: the buffer and the sleep are bounded, the rate requested is  *)
(* an encoded one and rises only on a measurement that carries it, for     *)
(* every ladder of rates, segment duration, target buffer, number of       *)
(* segments and measurement.                                               *)
(***************************************************************************)
EXTENDS AbrClient, TLAPS

Encoded(r) == \E l \in Levels : r = Rates[l]

(* While a client fetches or decides, its next pause is long enough for    *)
(* the buffer it will have.                                                *)
PauseFits ==
  /\ player \in {"Proposed", "Conventional"}
       => target \in 0 .. Seg /\ (pc # "done" /\ buff >= Target => target = Seg)
  /\ player = "PANDA" /\ pc # "done" /\ QuietSamples
       => target >= (buff - Target) \div 5 /\ target <= Seg + (5 * Seg + 4) \div 5
  /\ player = "PANDA" /\ QuietSamples => target <= 3 * Seg
  /\ player = "FESTIVE" => /\ target \in 0 .. 3 * Seg
                           /\ pc = "fetching" => target > buff - Target - Seg
  /\ player = "BOLA" => /\ target \in 0 .. 2 * Seg
                        /\ pc = "fetching" => target >= buff - Target + Seg

(* The filters stay above the least sample while no interval is too long.  *)
FiltersAboveLeast ==
  player \in Paced /\ seen.slowest <= 5 /\ idx > 0 => est >= seen.least /\ smooth >= seen.least

AbrInv ==
  /\ AbrTypeOK
  /\ pc = "fetching" /\ idx = 0 => target = 0 /\ buff = 0 /\ buffering
  /\ buffering => buff < Target
  /\ (player = "PANDA" => QuietSamples) => buff <= BufferBound
  /\ PauseFits
  /\ FiltersAboveLeast
  /\ pc = "measured" => thrp >= seen.least /\ (idx > 0 => actual <= seen.slowest \/ player \notin Paced)
  /\ RateOffered

-----------------------------------------------------------------------------
(* Arithmetic of the filters and of the pause.                             *)

(* A step of a filter towards a sample by a share of at most one does not  *)
(* pass below both.                                                        *)
LEMMA FilterStep ==
  ASSUME NEW c \in {14, 20}, NEW a \in 0 .. 5, NEW e \in Int, NEW x \in Int, NEW low \in Int,
         e >= low, x >= low
  PROVE  /\ e + (c * ((x - e) * a)) \div 100 \in Int
         /\ e + (c * ((x - e) * a)) \div 100 >= low
  <1>1. CASE a = 0 BY <1>1, SMT
  <1>2. CASE a = 1 BY <1>2, SMT
  <1>3. CASE a = 2 BY <1>3, SMT
  <1>4. CASE a = 3 BY <1>4, SMT
  <1>5. CASE a = 4 BY <1>5, SMT
  <1>6. CASE a = 5 BY <1>6, SMT
  <1> QED BY <1>1, <1>2, <1>3, <1>4, <1>5, <1>6, SMT

LEMMA DivisionBound ==
  ASSUME NEW r \in Nat, NEW s \in Nat, NEW y \in Nat \ {0}, r <= y
  PROVE  (r * s) \div y \in 0 .. s
  <1>1. r * s \in Nat /\ y * s \in Nat BY SMT
  <1>2. r * s <= y * s BY SMT
  <1>3. DEFINE q == (r * s) \div y
  <1>4. q \in Int /\ y * q <= r * s /\ r * s < y * q + y BY <1>1, SMT
  <1>5. q >= 0 BY <1>1, <1>4, SMT
  <1>6. q <= s BY <1>1, <1>2, <1>4, SMT
  <1> QED BY <1>4, <1>5, <1>6

LEMMA QuotientIsInteger ==
  ASSUME NEW a \in Int, NEW b \in Int
  PROVE  (b > 0 => a \div b \in Int) /\ (b < 0 => -(a \div (-b)) \in Int)
  <1>1. b > 0 => a \div b \in Int BY SMT
  <1>2. ASSUME b < 0 PROVE -(a \div (-b)) \in Int
    <2>1. -b \in Int /\ -b > 0 BY <1>2, SMT
    <2>2. a \div (-b) \in Int BY <2>1, SMT
    <2> QED BY <2>2, SMT
  <1> QED BY <1>1, <1>2

LEMMA FifthOfExcess ==
  ASSUME NEW b \in Int, NEW t \in Nat, NEW s \in Nat, b <= t + (5 * s + 4)
  PROVE  /\ (b - t) \div 5 \in Int /\ (5 * s + 4) \div 5 \in Int
         /\ (b - t) \div 5 <= (5 * s + 4) \div 5
  <1> QED BY SMT

LEMMA MarginIsSmaller ==
  ASSUME NEW a \in Int, NEW b \in Int, 100 * a <= 85 * b, b >= 0
  PROVE  a <= b
  <1> QED BY SMT

-----------------------------------------------------------------------------
(* The invariant.                                                          *)

LEMMA AbrInitInv == AbrInit => AbrInv
  <1> SUFFICES ASSUME AbrInit PROVE AbrInv OBVIOUS
  <1> USE AbrAssumption
  <1>1. AbrTypeOK
    BY DEF AbrInit, AbrTypeOK, Levels, AllPlayers
  <1>2. (-Target) \div 5 <= 0 BY SMT
  <1>3. PauseFits
    BY <1>2, SMT DEF AbrInit, PauseFits, QuietSamples
  <1>4. FiltersAboveLeast /\ RateOffered /\ buff <= BufferBound
    BY SMT DEF AbrInit, FiltersAboveLeast, RateOffered, BufferBound
  <1> QED BY <1>1, <1>3, <1>4 DEF AbrInv, AbrInit

(* What the end of a push measures: the extremes only become more extreme. *)
LEMMA MeasureStep ==
  ASSUME AbrInv, NEW x \in Throughputs, NEW d \in Durations, Measure(x, d), actual' \in Nat
  PROVE  /\ player' = player /\ idx' = idx /\ target' = target /\ ref' = ref
         /\ est' = est /\ smooth' = smooth
         /\ pc = "fetching" /\ pc' = "measured"
         /\ thrp' \in Nat /\ download' = d /\ d \in Nat
         /\ chosen' = (IF idx = 0 THEN Rates[1] ELSE chosen)
         /\ Encoded(chosen') \/ (~QuietSamples' /\ player \in {"PANDA", "Conventional"})
         /\ seen' \in [least : Nat, most : Nat, slowest : Nat, held : Nat]
         /\ thrp' >= seen'.least
         /\ idx > 0 => seen'.least <= seen.least /\ seen'.slowest >= seen.slowest
                       /\ actual' <= seen'.slowest
         /\ QuietSamples' => QuietSamples \/ idx = 0
  <1> USE AbrAssumption
  <1>1. thrp' = x /\ x \in Nat /\ d \in Nat /\ seen.least \in Nat /\ seen.slowest \in Nat
        /\ idx \in Nat /\ chosen \in Int
    BY DEF Measure, AbrInv, AbrTypeOK
  <1>2. seen' \in [least : Nat, most : Nat, slowest : Nat, held : Nat]
    BY <1>1 DEF Measure, AbrInv, AbrTypeOK, Larger, Smaller
  <1>3. /\ seen'.least = (IF idx = 0 THEN x ELSE Smaller(seen.least, x))
        /\ seen'.slowest = (IF idx = 0 THEN 0 ELSE Larger(seen.slowest, actual'))
    BY DEF Measure, AbrInv, AbrTypeOK
  <1>4. idx > 0 => seen'.least <= seen.least /\ seen'.slowest >= seen.slowest
                   /\ actual' <= seen'.slowest
    BY <1>1, <1>3, SMT DEF Larger, Smaller
  <1>5. x >= seen'.least
    BY <1>1, <1>3, SMT DEF Smaller
  <1>6. Rates[1] \in Int /\ 1 \in Levels
    BY SMT DEF Levels
  <1>8. QuietSamples' => QuietSamples \/ idx = 0
    <2>1. Rates[1] \in Nat /\ seen'.slowest \in Nat /\ seen'.least \in Nat BY <1>2, <1>6
    <2> QED BY <1>1, <2>1, <1>4, SMT DEF QuietSamples
  <1>7. Encoded(chosen') \/ (~QuietSamples' /\ player \in {"PANDA", "Conventional"})
    <2>1. CASE idx = 0
      BY <2>1, <1>6 DEF Measure, Encoded
    <2>2. CASE idx > 0
      <3>1. chosen' = chosen BY <2>2, <1>1, SMT DEF Measure
      <3>2. Encoded(chosen) \/ (~QuietSamples /\ player \in {"PANDA", "Conventional"})
        BY <2>2, <1>1 DEF AbrInv, RateOffered, Encoded
      <3>3. ~QuietSamples => ~QuietSamples'
        BY <2>2, <1>8, <1>1, SMT
      <3> QED BY <3>1, <3>2, <3>3
    <2> QED BY <2>1, <2>2, <1>1
  <1> QED BY <1>1, <1>2, <1>4, <1>5, <1>7, <1>8 DEF Measure, estimates

LEMMA PacedPushStep ==
  ASSUME AbrInv, NEW x \in Throughputs, NEW d \in Durations, PacedPushClosed(x, d)
  PROVE  AbrInv'
  <1> USE AbrAssumption
  <1>1. d \in Nat /\ target \in Int /\ idx \in Nat
    BY DEF AbrInv, AbrTypeOK
  <1>2. actual' \in Nat /\ player \in Paced /\ buff' = buff /\ buffering' = buffering
    BY <1>1, SMT DEF PacedPushClosed, Larger, buffer
  <1>3. Measure(x, d) BY DEF PacedPushClosed
  <1> HIDE DEF Measure
  <1>m. /\ player' = player /\ idx' = idx /\ target' = target /\ ref' = ref
        /\ est' = est /\ smooth' = smooth
        /\ pc = "fetching" /\ pc' = "measured"
        /\ thrp' \in Nat /\ download' = d /\ d \in Nat
        /\ chosen' = (IF idx = 0 THEN Rates[1] ELSE chosen)
        /\ Encoded(chosen') \/ (~QuietSamples' /\ player \in {"PANDA", "Conventional"})
        /\ seen' \in [least : Nat, most : Nat, slowest : Nat, held : Nat]
        /\ thrp' >= seen'.least
        /\ idx > 0 => seen'.least <= seen.least /\ seen'.slowest >= seen.slowest
                      /\ actual' <= seen'.slowest
        /\ QuietSamples' => QuietSamples \/ idx = 0
    BY <1>2, <1>3, MeasureStep
  <1>4. AbrTypeOK'
    BY <1>2, <1>m DEF AbrInv, AbrTypeOK, Levels
  <1>6. idx = 0 => target = 0 /\ buff = 0 /\ buffering
    BY <1>m DEF AbrInv
  <1>7. ((player' = "PANDA" => QuietSamples') => buff' <= BufferBound')
    BY <1>2, <1>6, <1>m, SMT DEF AbrInv, BufferBound, AbrTypeOK
  <1>8. PauseFits'
    <2>1. (-Target) \div 5 <= 0 /\ 0 <= (5 * Seg + 4) \div 5 BY SMT
    <2> QED BY <2>1, <1>2, <1>6, <1>m, SMT DEF AbrInv, PauseFits, AbrTypeOK, Paced
  <1>9. FiltersAboveLeast'
    BY <1>1, <1>m, SMT DEF AbrInv, AbrTypeOK, FiltersAboveLeast
  <1>10. RateOffered'
    BY <1>m DEF RateOffered, Encoded
  <1> QED BY <1>2, <1>4, <1>6, <1>7, <1>8, <1>9, <1>10, <1>m DEF AbrInv

LEMMA DelayedPushStep ==
  ASSUME AbrInv, NEW x \in Throughputs, NEW d \in Durations, NEW o \in Overheads,
         DelayedPushClosed(x, d, o)
  PROVE  AbrInv'
  <1> USE AbrAssumption
  <1>1. /\ d \in Nat /\ o \in Nat /\ target \in Int /\ idx \in Nat /\ buff \in Int
        /\ buffering \in BOOLEAN
        /\ player \in Players /\ player \in AllPlayers /\ player \notin Paced
    BY DEF AbrInv, AbrTypeOK, DelayedPushClosed
  <1>2. actual' = actual /\ actual \in Nat /\ Record(target + o + d)
    BY DEF AbrInv, AbrTypeOK, DelayedPushClosed
  <1>3. Measure(x, d) BY DEF DelayedPushClosed
  <1> HIDE DEF Measure
  <1>m. /\ player' = player /\ idx' = idx /\ target' = target /\ ref' = ref
        /\ est' = est /\ smooth' = smooth
        /\ pc = "fetching" /\ pc' = "measured"
        /\ thrp' \in Nat /\ download' = d /\ d \in Nat
        /\ chosen' = (IF idx = 0 THEN Rates[1] ELSE chosen)
        /\ Encoded(chosen') \/ (~QuietSamples' /\ player \in {"PANDA", "Conventional"})
        /\ seen' \in [least : Nat, most : Nat, slowest : Nat, held : Nat]
        /\ thrp' >= seen'.least
    BY <1>2, <1>3, MeasureStep
  <1>4. buff' = (IF ~buffering THEN buff + Seg - (target + o + d)
                 ELSE IF idx = 0 THEN Seg ELSE buff + Seg)
        /\ buff' \in Int
    BY <1>1, <1>2, SMT DEF Record
  <1>5. buffering' \in BOOLEAN /\ (buffering' => buff' < Target)
    BY <1>1, <1>2, <1>4, SMT DEF Record
  <1>6. AbrTypeOK'
    BY <1>2, <1>4, <1>5, <1>m DEF AbrInv, AbrTypeOK, Levels
  <1>7. player \in {"FESTIVE", "BOLA"}
    BY <1>1 DEF AllPlayers, Paced
  <1>8. buff' <= BufferBound'
    <2>1. buffering => buff < Target BY DEF AbrInv
    <2>2. player = "FESTIVE" => target > buff - Target - Seg
      BY <1>m DEF AbrInv, PauseFits
    <2>3. player = "BOLA" => target >= buff - Target + Seg
      BY <1>m DEF AbrInv, PauseFits
    <2> QED BY <2>1, <2>2, <2>3, <1>1, <1>4, <1>7, <1>m, SMT DEF BufferBound
  <1>9. PauseFits'
    BY <1>7, <1>m DEF AbrInv, PauseFits
  <1>10. FiltersAboveLeast'
    BY <1>1, <1>m DEF FiltersAboveLeast
  <1>11. RateOffered'
    BY <1>m, <1>7 DEF RateOffered, Encoded
  <1> QED BY <1>1, <1>5, <1>6, <1>8, <1>9, <1>10, <1>11, <1>m DEF AbrInv

(* The record of a paced client after its sleep keeps the bound.           *)
LEMMA PauseStep ==
  ASSUME AbrInv, pc = "measured", player \in Paced, Pause
  PROVE  /\ buff' \in Int /\ buffering' \in BOOLEAN
         /\ buffering' => buff' < Target
         /\ (player = "PANDA" => QuietSamples) => buff' <= BufferBound
  <1> USE AbrAssumption
  <1>1. /\ download \in Nat /\ target \in Int /\ buff \in Int /\ buffering \in BOOLEAN
        /\ buffering => buff < Target
        /\ (player = "PANDA" => QuietSamples) => buff <= BufferBound
        /\ PauseFits
    BY DEF AbrInv, AbrTypeOK
  <1>2. PICK o \in Overheads : Record(o + Larger(download, target))
    BY DEF Pause
  <1>3. Larger(download, target) \in Int /\ Larger(download, target) >= target
        /\ Larger(download, target) >= 0
    BY <1>1, SMT DEF Larger
  <1>4. /\ buff' = (IF ~buffering THEN buff + Seg - (o + Larger(download, target))
                    ELSE IF idx = 0 THEN Seg ELSE buff + Seg)
        /\ buffering' \in BOOLEAN
        /\ buffering' => (buffering /\ buff' < Target) \/ buff' <= Seg
    BY <1>2 DEF Record
  <1>5. o \in Nat OBVIOUS
  <1>6. buff' \in Int /\ (buffering' => buff' < Target)
    BY <1>1, <1>3, <1>4, <1>5, SMT
  <1>7. ASSUME player = "PANDA" => QuietSamples PROVE buff' <= BufferBound
    <2>1. CASE buffering
      BY <2>1, <1>1, <1>4, SMT DEF BufferBound
    <2>2. CASE ~buffering /\ player = "PANDA"
      <3>1. target >= (buff - Target) \div 5 /\ buff <= Target + (5 * Seg + 4)
        BY <2>2, <1>1, <1>7, SMT DEF PauseFits, BufferBound
      <3>2. buff' <= buff + Seg - target
        BY <2>2, <1>1, <1>3, <1>4, <1>5, SMT
      <3>3. DEFINE y == (buff - Target) \div 5
      <3>4. y \in Int /\ buff - Target < 5 * y + 5 BY <1>1, SMT
      <3>6. buff' <= Target + (5 * Seg + 4)
        BY <3>1, <3>2, <3>4, <1>1, <1>6, SMT
      <3> QED BY <3>6, <2>2 DEF BufferBound
    <2>3. CASE ~buffering /\ player # "PANDA"
      <3>1. player \in {"Proposed", "Conventional"} BY <2>3 DEF Paced
      <3>2. target \in 0 .. Seg /\ (buff >= Target => target = Seg)
        BY <3>1, <1>1 DEF PauseFits
      <3> QED BY <3>1, <3>2, <2>3, <1>1, <1>3, <1>4, <1>5, <1>7, SMT DEF BufferBound
    <2> QED BY <2>1, <2>2, <2>3, <1>1
  <1> QED BY <1>4, <1>6, <1>7

(* Without a further request only pc and the buffer change.                *)
LEMMA FinishStep ==
  ASSUME AbrInv, pc = "measured", Finish,
         buff' \in Int, buffering' \in BOOLEAN, buffering' => buff' < Target,
         (player = "PANDA" => QuietSamples) => buff' <= BufferBound
  PROVE  AbrInv'
  <1> USE AbrAssumption
  <1>1. /\ pc' = "done" /\ player' = player /\ idx' = idx /\ thrp' = thrp /\ download' = download
        /\ actual' = actual /\ est' = est /\ smooth' = smooth /\ chosen' = chosen
        /\ target' = target /\ ref' = ref /\ seen' = seen
    BY DEF Finish, samples, estimates
  <1>2. QuietSamples' = QuietSamples /\ BufferBound' = BufferBound
    BY <1>1 DEF QuietSamples, BufferBound
  <1>3. AbrTypeOK'
    BY <1>1 DEF AbrInv, AbrTypeOK
  <1>4. PauseFits'
    BY <1>1, <1>2 DEF AbrInv, PauseFits
  <1>5. FiltersAboveLeast'
    BY <1>1 DEF AbrInv, FiltersAboveLeast
  <1>6. RateOffered'
    BY <1>1, <1>2 DEF AbrInv, RateOffered
  <1> QED BY <1>1, <1>2, <1>3, <1>4, <1>5, <1>6 DEF AbrInv

(* The filters after a decision: integers, and above the least sample      *)
(* while no interval is longer than five seconds.                          *)
LEMMA FiltersStep ==
  ASSUME AbrInv, pc = "measured", player \in Paced,
         NEW e, e = NextEstimate \/ e = thrp
  PROVE  /\ e \in Int /\ Smoothed(e) \in Int
         /\ seen.slowest <= 5 => e >= seen.least /\ Smoothed(e) >= seen.least
  <1> USE AbrAssumption
  <1>1. /\ thrp \in Nat /\ est \in Int /\ smooth \in Int /\ actual \in Nat /\ idx \in Nat
        /\ seen.least \in Nat /\ seen.slowest \in Nat /\ W \in Nat
        /\ thrp >= seen.least /\ (idx > 0 => actual <= seen.slowest)
    BY DEF AbrInv, AbrTypeOK
  <1>2. seen.slowest <= 5 /\ idx > 0 => est >= seen.least /\ smooth >= seen.least /\ actual \in 0 .. 5
    BY <1>1, SMT DEF AbrInv, FiltersAboveLeast
  <1> DEFINE g == W - Larger(0, est - thrp + W)
  <1>3. g \in Int /\ (g = W \/ g = thrp - est)
    BY <1>1, SMT DEF Larger
  <1>4. NextEstimate \in Int /\ (seen.slowest <= 5 => NextEstimate >= seen.least)
    <2>1. CASE idx = 0
      BY <2>1, <1>1 DEF NextEstimate
    <2>2. CASE idx > 0
      <3>1. NextEstimate = est + (14 * (g * actual)) \div 100
        BY <2>2, <1>1, SMT DEF NextEstimate
      <3>2. g * actual \in Int BY <1>1, <1>3, SMT
      <3> HIDE DEF g
      <3>3. NextEstimate \in Int BY <3>1, <3>2, <1>1, SMT
      <3>4. ASSUME seen.slowest <= 5 PROVE NextEstimate >= seen.least
        <4>1. actual \in 0 .. 5 /\ est >= seen.least BY <3>4, <2>2, <1>2
        <4>2. CASE g = W
          <5>1. g * actual >= 0 BY <4>2, <1>1, SMT
          <5> QED BY <5>1, <3>1, <3>2, <4>1, <1>1, SMT
        <4>3. CASE g = thrp - est
          BY <4>3, <4>1, <3>1, <1>1, FilterStep
        <4> QED BY <4>2, <4>3, <1>3
      <3> QED BY <3>3, <3>4
    <2> QED BY <2>1, <2>2, <1>1
  <1>5. e \in Int /\ (seen.slowest <= 5 => e >= seen.least)
    BY <1>1, <1>4
  <1>6. Smoothed(e) \in Int /\ (seen.slowest <= 5 => Smoothed(e) >= seen.least)
    <2>1. CASE idx = 0
      BY <2>1, <1>5 DEF Smoothed
    <2>2. CASE idx > 0
      <3>1. Smoothed(e) = smooth + (20 * ((e - smooth) * actual)) \div 100
        BY <2>2, <1>1, SMT DEF Smoothed
      <3>2. (e - smooth) * actual \in Int BY <1>1, <1>5, SMT
      <3>3. Smoothed(e) \in Int BY <3>1, <3>2, <1>1, SMT
      <3>4. ASSUME seen.slowest <= 5 PROVE Smoothed(e) >= seen.least
        BY <3>4, <3>1, <2>2, <1>1, <1>2, <1>5, FilterStep
      <3> QED BY <3>3, <3>4
    <2> QED BY <2>1, <2>2, <1>1
  <1> QED BY <1>5, <1>6

(* A quiet estimate can carry the lowest rate, so both thresholds exist    *)
(* and the dead zone yields an encoded rate the estimate can carry.        *)
LEMMA DeadZoneStep ==
  ASSUME AbrInv, pc = "measured", ChooseInDeadZone, smooth' \in Int,
         seen.slowest <= 5 => smooth' >= seen.least
  PROVE  /\ chosen' \in Int
         /\ QuietSamples => Encoded(chosen') /\ chosen' <= smooth'
         /\ QuietSamples /\ chosen' > chosen => 100 * chosen' <= 85 * smooth'
  <1> USE AbrAssumption
  <1>1. chosen \in Int /\ (QuietSamples => Encoded(chosen))
    BY DEF AbrInv, AbrTypeOK, RateOffered, Encoded
  <1>2. PICK up \in Thresholds(85, smooth'), down \in Thresholds(100, smooth') :
               chosen' = DeadZone(up, down)
    BY DEF ChooseInDeadZone
  <1>3. up \in Int /\ down \in Int
    BY DEF Thresholds, Highest
  <1>4. ASSUME QuietSamples
        PROVE  Encoded(up) /\ 100 * up <= 85 * smooth' /\ Encoded(down) /\ down <= smooth'
    <2>1. 1 \in Levels /\ Rates[1] \in Nat /\ seen.least \in Nat
      BY SMT DEF Levels, AbrInv, AbrTypeOK
    <2>2. 100 * Rates[1] <= 85 * smooth' /\ smooth' >= 0
      BY <1>4, <2>1, SMT DEF QuietSamples
    <2>3. 1 \in {l \in Levels : 100 * Rates[l] <= 85 * smooth'}
          /\ 1 \in {l \in Levels : 100 * Rates[l] <= 100 * smooth'}
      BY <2>1, <2>2, SMT
    <2>4. /\ \E l \in Levels : 100 * Rates[l] <= 85 * smooth' /\ up = Rates[l]
          /\ \E l \in Levels : 100 * Rates[l] <= 100 * smooth' /\ down = Rates[l]
      BY <2>3 DEF Thresholds, Highest
    <2> QED BY <2>4, SMT DEF Encoded
  <1>5. chosen' \in Int BY <1>1, <1>2, <1>3 DEF DeadZone
  <1>6. ASSUME QuietSamples PROVE Encoded(chosen') /\ chosen' <= smooth'
    <2>1. smooth' >= 0
      <3>1. smooth' >= seen.least /\ seen.least \in Nat
        BY <1>6 DEF QuietSamples, AbrInv, AbrTypeOK
      <3> QED BY <3>1, SMT
    <2>2. up <= smooth'
      <3>1. 100 * up <= 85 * smooth' BY <1>4, <1>6
      <3> QED BY <3>1, <2>1, <1>3, MarginIsSmaller
    <2>3. chosen' = up \/ (chosen' = chosen /\ chosen <= down) \/ chosen' = down
      BY <1>2 DEF DeadZone
    <2>4. Encoded(chosen')
      BY <2>3, <1>1, <1>4, <1>6
    <2>5. chosen' <= smooth'
      BY <2>2, <2>3, <1>1, <1>3, <1>4, <1>6, SMT
    <2> QED BY <2>4, <2>5
  <1>7. ASSUME QuietSamples, chosen' > chosen PROVE 100 * chosen' <= 85 * smooth'
    <2>1. chosen' = up BY <1>1, <1>2, <1>3, <1>7, SMT DEF DeadZone
    <2> QED BY <1>4, <1>7, <2>1
  <1> QED BY <1>5, <1>6, <1>7

(* The decisions of the paced clients, when there is a further request.    *)
LEMMA AdaptStep ==
  ASSUME AbrInv, pc = "measured", player \in Paced, Request, UNCHANGED <<ref, seen>>,
         buff' \in Int, buffering' \in BOOLEAN, buffering' => buff' < Target,
         (player = "PANDA" => QuietSamples) => buff' <= BufferBound,
         est' \in Int, smooth' \in Int,
         seen.slowest <= 5 => est' >= seen.least /\ smooth' >= seen.least,
         chosen' \in Int,
         Encoded(chosen') \/ (~QuietSamples /\ player \in {"PANDA", "Conventional"}),
         target' \in Int,
         player \in {"Proposed", "Conventional"}
           => target' \in 0 .. Seg /\ (buff' >= Target => target' = Seg),
         player = "PANDA" /\ QuietSamples
           => target' >= (buff' - Target) \div 5 /\ target' <= Seg + (5 * Seg + 4) \div 5
  PROVE  AbrInv'
  <1> USE AbrAssumption
  <1>1. /\ pc' = "fetching" /\ idx' = idx + 1 /\ player' = player /\ ref' = ref /\ seen' = seen
        /\ thrp' = thrp /\ download' = download /\ actual' = actual
        /\ idx # NumSegs - 1 /\ idx \in 0 .. NumSegs - 1
    BY DEF Request, LastSegment, samples, AbrInv, AbrTypeOK
  <1>2. QuietSamples' = QuietSamples /\ BufferBound' = BufferBound
    BY <1>1 DEF QuietSamples, BufferBound
  <1>3. idx' \in 0 .. NumSegs - 1 /\ idx' # 0
    BY <1>1, SMT
  <1>4. AbrTypeOK'
    BY <1>1, <1>3 DEF AbrInv, AbrTypeOK
  <1>5. Seg + (5 * Seg + 4) \div 5 <= 3 * Seg
    BY SMT
  <1>6. player = "PANDA" /\ QuietSamples => target' <= 3 * Seg
    BY <1>5, SMT
  <1>7. PauseFits'
    BY <1>1, <1>2, <1>6 DEF PauseFits, Paced
  <1>8. FiltersAboveLeast'
    BY <1>1 DEF FiltersAboveLeast
  <1>9. RateOffered'
    BY <1>1, <1>2 DEF RateOffered, Encoded
  <1> QED BY <1>1, <1>2, <1>3, <1>4, <1>7, <1>8, <1>9 DEF AbrInv

LEMMA PandaStep == AbrInv /\ Panda => AbrInv'
  <1> SUFFICES ASSUME AbrInv, Panda PROVE AbrInv' OBVIOUS
  <1> USE AbrAssumption
  <1>1. pc = "measured" /\ player = "PANDA" /\ player \in Paced /\ Pause
    BY DEF Panda, PacedDecides, Decide, Paced
  <1>2. /\ buff' \in Int /\ buffering' \in BOOLEAN /\ (buffering' => buff' < Target)
        /\ (player = "PANDA" => QuietSamples) => buff' <= BufferBound
    BY <1>1, PauseStep
  <1>3. CASE Finish
    BY <1>1, <1>2, <1>3, FinishStep
  <1>4. CASE Request /\ PandaAdapts /\ UNCHANGED <<ref, seen>>
    <2>1. /\ est' = NextEstimate /\ smooth' = Smoothed(est') /\ ChooseInDeadZone
      BY <1>4 DEF PandaAdapts, Smooth
    <2>2. PICK t \in PerRate(chosen' * Seg, smooth') : target' = t + (buff' - Target) \div 5
      BY <1>4 DEF PandaAdapts
    <2>3. /\ est' \in Int /\ smooth' \in Int
          /\ seen.slowest <= 5 => est' >= seen.least /\ smooth' >= seen.least
      BY <1>1, <2>1, FiltersStep
    <2>4. chosen' \in Int /\ (QuietSamples => Encoded(chosen') /\ chosen' <= smooth')
      BY <1>1, <2>1, <2>3, DeadZoneStep
    <2>5. t \in Int
      <3>1. chosen' * Seg \in Int BY <2>4, SMT
      <3>2. /\ smooth' > 0 => (chosen' * Seg) \div smooth' \in Int
            /\ smooth' < 0 => -((chosen' * Seg) \div (-smooth')) \in Int
        BY <3>1, <2>3, QuotientIsInteger
      <3> QED BY <2>2, <3>2 DEF PerRate
    <2>6. ASSUME QuietSamples PROVE t \in 0 .. Seg
      <3>1. Encoded(chosen') /\ chosen' <= smooth' BY <2>4, <2>6
      <3>2. chosen' \in Nat \ {0} BY <3>1 DEF Encoded
      <3>3. smooth' \in Nat \ {0} BY <3>1, <3>2, <2>3, SMT
      <3>4. t = (chosen' * Seg) \div smooth'
        <4>1. smooth' > 0 BY <3>3, SMT
        <4> QED BY <2>2, <4>1 DEF PerRate
      <3> QED BY <3>1, <3>2, <3>3, <3>4, DivisionBound
    <2>7. target' \in Int BY <2>2, <2>5, <1>2, SMT
    <2>8. ASSUME QuietSamples
          PROVE  target' >= (buff' - Target) \div 5 /\ target' <= Seg + (5 * Seg + 4) \div 5
      <3>1. t \in 0 .. Seg BY <2>6, <2>8
      <3>2. buff' <= Target + (5 * Seg + 4)
        <4>1. BufferBound = Target + (5 * Seg + 4) BY <1>1 DEF BufferBound
        <4> QED BY <4>1, <1>2, <2>8
      <3>3. buff' \in Int /\ Seg \in Nat /\ Target \in Nat BY <1>2
      <3>4. /\ (buff' - Target) \div 5 \in Int /\ (5 * Seg + 4) \div 5 \in Int
            /\ (buff' - Target) \div 5 <= (5 * Seg + 4) \div 5
        BY <3>2, <3>3, FifthOfExcess
      <3> QED BY <3>1, <3>4, <2>2, SMT
    <2> QED BY <1>1, <1>2, <1>4, <2>3, <2>4, <2>7, <2>8, AdaptStep
  <1> QED BY <1>3, <1>4 DEF Panda, PacedDecides

LEMMA KeepPaceStep ==
  ASSUME KeepPace, buff' \in Int
  PROVE  target' \in Int /\ target' \in 0 .. Seg /\ (buff' >= Target => target' = Seg)
  <1> QED BY AbrAssumption, SMT DEF KeepPace

LEMMA ConventionalStep == AbrInv /\ Conventional => AbrInv'
  <1> SUFFICES ASSUME AbrInv, Conventional PROVE AbrInv' OBVIOUS
  <1> USE AbrAssumption
  <1>1. pc = "measured" /\ player = "Conventional" /\ player \in Paced /\ Pause
    BY DEF Conventional, PacedDecides, Decide, Paced
  <1>2. /\ buff' \in Int /\ buffering' \in BOOLEAN /\ (buffering' => buff' < Target)
        /\ (player = "PANDA" => QuietSamples) => buff' <= BufferBound
    BY <1>1, PauseStep
  <1>3. CASE Finish
    BY <1>1, <1>2, <1>3, FinishStep
  <1>4. CASE Request /\ ConventionalAdapts /\ UNCHANGED <<ref, seen>>
    <2>1. est' = thrp /\ smooth' = Smoothed(est') /\ ChooseInDeadZone /\ KeepPace
      BY <1>4 DEF ConventionalAdapts, Smooth
    <2>2. /\ est' \in Int /\ smooth' \in Int
          /\ seen.slowest <= 5 => est' >= seen.least /\ smooth' >= seen.least
      BY <1>1, <2>1, FiltersStep
    <2>3. chosen' \in Int /\ (QuietSamples => Encoded(chosen'))
      BY <1>1, <2>1, <2>2, DeadZoneStep
    <2>4. target' \in Int /\ target' \in 0 .. Seg /\ (buff' >= Target => target' = Seg)
      BY <1>2, <2>1, KeepPaceStep
    <2> QED BY <1>1, <1>2, <1>4, <2>2, <2>3, <2>4, AdaptStep
  <1> QED BY <1>3, <1>4 DEF Conventional, PacedDecides

-----------------------------------------------------------------------------
(* The cap of Proposed.cc and BOLA.cc yields an encoded rate.              *)
LEMMA CappedEncoded ==
  ASSUME Encoded(chosen), NEW best \in Levels, NEW safe \in Levels, NEW k \in Levels
  PROVE  Encoded(Capped(best, safe, Rates[k]))
  <1> QED BY DEF Encoded, Capped

LEMMA ClosestIsLevel == \A y : Closest(y) \subseteq Levels
  <1>1. 1 \in Levels BY AbrAssumption, SMT DEF Levels
  <1> QED BY <1>1 DEF Closest, Highest

LEMMA ProposedStep == AbrInv /\ Proposed => AbrInv'
  <1> SUFFICES ASSUME AbrInv, Proposed PROVE AbrInv' OBVIOUS
  <1> USE AbrAssumption
  <1>1. pc = "measured" /\ player = "Proposed" /\ player \in Paced /\ Pause
    BY DEF Proposed, PacedDecides, Decide, Paced
  <1>2. /\ buff' \in Int /\ buffering' \in BOOLEAN /\ (buffering' => buff' < Target)
        /\ (player = "PANDA" => QuietSamples) => buff' <= BufferBound
    BY <1>1, PauseStep
  <1>3. CASE Finish
    BY <1>1, <1>2, <1>3, FinishStep
  <1>4. CASE Request /\ ProposedAdapts /\ UNCHANGED <<ref, seen>>
    <2>1. est' = NextEstimate /\ smooth' = Smoothed(est') /\ KeepPace
      BY <1>4 DEF ProposedAdapts, Smooth
    <2>2. /\ est' \in Int /\ smooth' \in Int
          /\ seen.slowest <= 5 => est' >= seen.least /\ smooth' >= seen.least
      BY <1>1, <2>1, FiltersStep
    <2>3. Encoded(chosen)
      BY <1>1 DEF AbrInv, RateOffered, Encoded
    <2>4. PICK best \in BestRewards(buff', {NumRates}), safe \in Closest(smooth') :
            chosen' = Capped(best, safe,
                             Rates[IF ~buffering' /\ buff' >= Target - Seg
                                   THEN Smaller(safe + 1, NumRates) ELSE safe])
      BY <1>4 DEF ProposedAdapts
    <2>5. best \in Levels /\ safe \in Levels
      <3>1. NumRates \in Levels BY SMT DEF Levels
      <3> QED BY <3>1, ClosestIsLevel DEF BestRewards
    <2>6. Smaller(safe + 1, NumRates) \in Levels
      BY <2>5, SMT DEF Levels, Smaller
    <2>7. Encoded(chosen')
      BY <2>3, <2>4, <2>5, <2>6, CappedEncoded
    <2>8. chosen' \in Int BY <2>7 DEF Encoded
    <2>9. target' \in Int /\ target' \in 0 .. Seg /\ (buff' >= Target => target' = Seg)
      BY <1>2, <2>1, KeepPaceStep
    <2> QED BY <1>1, <1>2, <1>4, <2>2, <2>7, <2>8, <2>9, AdaptStep
  <1> QED BY <1>3, <1>4 DEF Proposed, PacedDecides

-----------------------------------------------------------------------------
(* FESTIVE.cc and BOLA.cc.                                                 *)
LEMMA DelayStep ==
  ASSUME AbrInv, pc = "measured", player \notin Paced, Request,
         UNCHANGED buffer, UNCHANGED estimates,
         Encoded(chosen'), ref' \in [level : Levels, counter : Int],
         seen' \in [least : Nat, most : Nat, slowest : Nat, held : Nat],
         target' \in Int,
         player = "FESTIVE" => target' \in 0 .. 3 * Seg /\ target' > buff - Target - Seg,
         player = "BOLA" => target' \in 0 .. 2 * Seg /\ target' >= buff - Target + Seg
  PROVE  AbrInv'
  <1> USE AbrAssumption
  <1>1. /\ pc' = "fetching" /\ idx' = idx + 1 /\ player' = player
        /\ thrp' = thrp /\ download' = download /\ actual' = actual
        /\ buff' = buff /\ buffering' = buffering /\ est' = est /\ smooth' = smooth
        /\ idx # NumSegs - 1 /\ idx \in 0 .. NumSegs - 1
    BY DEF Request, LastSegment, samples, buffer, estimates, AbrInv, AbrTypeOK
  <1>2. player \in {"FESTIVE", "BOLA"}
    BY DEF AbrInv, AbrTypeOK, AllPlayers, Paced
  <1>3. idx' \in 0 .. NumSegs - 1 /\ idx' # 0
    BY <1>1, SMT
  <1>4. chosen' \in Int
    BY DEF Encoded
  <1>5. AbrTypeOK'
    BY <1>1, <1>3, <1>4 DEF AbrInv, AbrTypeOK
  <1>6. buff' <= BufferBound'
    BY <1>1, <1>2 DEF AbrInv, BufferBound
  <1>7. PauseFits'
    BY <1>1, <1>2 DEF PauseFits
  <1>8. FiltersAboveLeast'
    BY <1>1 DEF FiltersAboveLeast
  <1>9. RateOffered'
    BY DEF RateOffered, Encoded
  <1> QED BY <1>1, <1>3, <1>5, <1>6, <1>7, <1>8, <1>9 DEF AbrInv

LEMMA FestiveStep == AbrInv /\ Festive => AbrInv'
  <1> SUFFICES ASSUME AbrInv, Festive PROVE AbrInv' OBVIOUS
  <1> USE AbrAssumption
  <1>1. pc = "measured" /\ player = "FESTIVE" /\ player \notin Paced /\ UNCHANGED buffer
    BY DEF Festive, DelayedDecides, Decide, Paced
  <1>2. /\ buff \in Int /\ buffering \in BOOLEAN /\ (buffering => buff < Target)
        /\ buff <= Target + 2 * Seg /\ buff' = buff /\ buffering' = buffering
    BY <1>1 DEF AbrInv, AbrTypeOK, BufferBound, buffer
  <1>3. CASE Finish
    <2>1. buff' <= BufferBound BY <1>1, <1>2 DEF BufferBound
    <2> QED BY <1>1, <1>2, <1>3, <2>1, FinishStep
  <1>4. CASE Request /\ FestiveAdapts /\ UNCHANGED estimates
    <2>1. PICK e \in seen.least .. seen.most : ref' = NextRef(e)
      BY <1>4 DEF FestiveAdapts
    <2>2. ref.level \in Levels /\ ref.counter \in Int /\ ref \in [level : Levels, counter : Int]
      BY DEF AbrInv, AbrTypeOK
    <2>3. /\ Larger(ref.level - 1, 1) \in Levels
          /\ ref.level < NumRates => ref.level + 1 \in Levels
          /\ \A l \in Levels : l \in Int
      BY <2>2, SMT DEF Levels, Larger
    <2>4. ref.counter - 1 \in Int
      BY <2>2, SMT
    <2>5. ref' \in [level : Levels, counter : Int]
      BY <2>1, <2>2, <2>3, <2>4 DEF NextRef
    <2>6. Encoded(chosen')
      BY <1>1, <1>4, <2>5 DEF FestiveAdapts, AbrInv, RateOffered, Encoded
    <2>7. seen' \in [least : Nat, most : Nat, slowest : Nat, held : Nat]
      BY <1>4, SMT DEF FestiveAdapts, AbrInv, AbrTypeOK
    <2>8. PICK randbuff \in (Target - Seg) .. (Target + Seg - 1) :
            target' = Larger(0, buff - randbuff)
      BY <1>4 DEF FestiveAdapts
    <2>9. target' \in Int /\ target' \in 0 .. 3 * Seg /\ target' > buff - Target - Seg
      BY <1>2, <2>8, SMT DEF Larger
    <2> QED BY <1>1, <1>4, <2>5, <2>6, <2>7, <2>9, DelayStep
  <1> QED BY <1>3, <1>4 DEF Festive, DelayedDecides

LEMMA BolaStep == AbrInv /\ Bola => AbrInv'
  <1> SUFFICES ASSUME AbrInv, Bola PROVE AbrInv' OBVIOUS
  <1> USE AbrAssumption
  <1>1. pc = "measured" /\ player = "BOLA" /\ player \notin Paced /\ UNCHANGED buffer
    BY DEF Bola, DelayedDecides, Decide, Paced
  <1>2. /\ buff \in Int /\ buffering \in BOOLEAN /\ (buffering => buff < Target)
        /\ buff <= Target + Seg /\ buff' = buff /\ buffering' = buffering
    BY <1>1 DEF AbrInv, AbrTypeOK, BufferBound, buffer
  <1>3. CASE Finish
    <2>1. buff' <= BufferBound BY <1>1, <1>2 DEF BufferBound
    <2> QED BY <1>1, <1>2, <1>3, <2>1, FinishStep
  <1>4. CASE Request /\ BolaAdapts /\ UNCHANGED estimates
    <2>1. Encoded(chosen)
      BY <1>1 DEF AbrInv, RateOffered, Encoded
    <2>2. Encoded(chosen')
      <3>1. CASE chosen' = chosen BY <3>1, <2>1
      <3>2. CASE \E best \in BestRewards(buff, {}), safe \in Closest(thrp) :
                   chosen' = Capped(best, safe, Rates[safe])
        <4>1. PICK best \in BestRewards(buff, {}), safe \in Closest(thrp) :
                     chosen' = Capped(best, safe, Rates[safe])
          BY <3>2
        <4>2. best \in Levels /\ safe \in Levels
          BY ClosestIsLevel DEF BestRewards
        <4> QED BY <2>1, <4>1, <4>2, CappedEncoded
      <3> QED BY <3>1, <3>2, <1>4 DEF BolaAdapts
    <2>3. target' = Larger(0, buff - (Target - Seg)) /\ ref' = ref /\ seen' = seen
      BY <1>4 DEF BolaAdapts
    <2>4. target' \in Int /\ target' \in 0 .. 2 * Seg /\ target' >= buff - Target + Seg
      BY <1>2, <2>3, SMT DEF Larger
    <2>5. /\ ref' \in [level : Levels, counter : Int]
          /\ seen' \in [least : Nat, most : Nat, slowest : Nat, held : Nat]
      BY <2>3 DEF AbrInv, AbrTypeOK
    <2> QED BY <1>1, <1>4, <2>2, <2>4, <2>5, DelayStep
  <1> QED BY <1>3, <1>4 DEF Bola, DelayedDecides

-----------------------------------------------------------------------------
(* Theorems                                                                *)

LEMMA AbrStutter == AbrInv /\ UNCHANGED abrVars => AbrInv'
  <1> SUFFICES ASSUME AbrInv, UNCHANGED abrVars PROVE AbrInv' OBVIOUS
  <1>1. /\ player' = player /\ pc' = pc /\ idx' = idx /\ thrp' = thrp /\ download' = download
        /\ actual' = actual /\ est' = est /\ smooth' = smooth /\ chosen' = chosen /\ buff' = buff
        /\ buffering' = buffering /\ target' = target /\ ref' = ref /\ seen' = seen
    BY DEF abrVars
  <1>2. QuietSamples' = QuietSamples /\ BufferBound' = BufferBound
    BY <1>1 DEF QuietSamples, BufferBound
  <1>3. AbrTypeOK' BY <1>1 DEF AbrInv, AbrTypeOK
  <1>4. PauseFits' BY <1>1, <1>2 DEF AbrInv, PauseFits
  <1>5. FiltersAboveLeast' /\ RateOffered'
    BY <1>1, <1>2 DEF AbrInv, FiltersAboveLeast, RateOffered
  <1> QED BY <1>1, <1>2, <1>3, <1>4, <1>5 DEF AbrInv

LEMMA AbrInvariant == AbrSpec => []AbrInv
  <1>1. AbrInv /\ [AbrNext]_abrVars => AbrInv'
    <2> SUFFICES ASSUME AbrInv, AbrNext \/ UNCHANGED abrVars PROVE AbrInv' OBVIOUS
    <2>1. CASE \E x \in Throughputs, d \in Durations : PacedPushClosed(x, d)
      BY <2>1, PacedPushStep
    <2>2. CASE \E x \in Throughputs, d \in Durations, o \in Overheads : DelayedPushClosed(x, d, o)
      BY <2>2, DelayedPushStep
    <2>3. CASE Panda BY <2>3, PandaStep
    <2>4. CASE Conventional BY <2>4, ConventionalStep
    <2>5. CASE Proposed BY <2>5, ProposedStep
    <2>6. CASE Festive BY <2>6, FestiveStep
    <2>7. CASE Bola BY <2>7, BolaStep
    <2>8. CASE UNCHANGED abrVars BY <2>8, AbrStutter
    <2> QED BY <2>1, <2>2, <2>3, <2>4, <2>5, <2>6, <2>7, <2>8 DEF AbrNext
  <1> QED BY <1>1, AbrInitInv, PTL DEF AbrSpec

(* The variables keep their types; in particular the index of the segment  *)
(* stays below NUM_OF_SEGS and the reference level within the ladder.      *)
THEOREM AbrTypeCorrect == AbrSpec => []AbrTypeOK
  <1>1. AbrInv => AbrTypeOK BY DEF AbrInv
  <1> QED BY <1>1, AbrInvariant, PTL

(* The buffer stays near its target for every client, whatever the network *)
(* gives; for PANDA.cc as long as its estimate does.                       *)
THEOREM BufferStaysBounded == AbrSpec => []BufferBounded
  <1>1. AbrInv => BufferBounded BY DEF AbrInv, BufferBounded
  <1> QED BY <1>1, AbrInvariant, PTL

(* The sleep inside the callback lasts at most three segments.             *)
THEOREM SleepBounded == AbrSpec => []PauseBounded
  <1>1. AbrInv => PauseBounded
    <2> SUFFICES ASSUME AbrInv, player = "PANDA" => QuietSamples PROVE target <= 3 * Seg
      BY DEF PauseBounded
    <2>1. target \in Int /\ player \in AllPlayers /\ PauseFits
      BY AbrAssumption DEF AbrInv, AbrTypeOK
    <2>2. \/ target \in 0 .. Seg \/ target <= 3 * Seg \/ target \in 0 .. 3 * Seg
          \/ target \in 0 .. 2 * Seg
      BY <2>1 DEF PauseFits, AllPlayers
    <2> QED BY <2>1, <2>2, AbrAssumption, SMT
  <1> QED BY <1>1, AbrInvariant, PTL

(* The rate requested is an encoded one, for PANDA.cc and Conventional.cpp *)
(* as long as every sample can carry the lowest rate.                      *)
THEOREM RatesAreOffered == AbrSpec => []RateOffered
  <1>1. AbrInv => RateOffered BY DEF AbrInv
  <1> QED BY <1>1, AbrInvariant, PTL

-----------------------------------------------------------------------------
(* Rises. FESTIVE.cc stays at or above the level below its reference, and  *)
(* counts down as many decisions as its reference level before it rises.   *)
RefInv ==
  /\ player = "FESTIVE" \/ ref.level = 1
  /\ ref.level > 1 => idx > 0 /\ chosen >= Rates[ref.level - 1]
  /\ seen.held + ref.counter >= ref.level

Rise == idx' > idx /\ chosen' > chosen

(* What RiseIsBacked says of one step.                                     *)
Backed ==
  /\ Rise => Supported(chosen')
  /\ ref'.level > ref.level => ref'.level = ref.level + 1 /\ seen.held + 1 >= ref.level

LEMMA RefKept ==
  ASSUME RefInv, player' = player, ref' = ref, seen'.held = seen.held, idx' >= idx,
         AbrTypeOK, AbrTypeOK', player # "FESTIVE" \/ chosen' = chosen \/ idx = 0
  PROVE  RefInv' /\ ~(ref'.level > ref.level)
  <1>1. /\ ref.level \in Int /\ idx \in Int /\ idx' \in Int
    BY AbrAssumption, SMT DEF AbrTypeOK, Levels
  <1>2. player = "FESTIVE" /\ idx > 0 => chosen' = chosen BY <1>1, SMT
  <1>3. ref.level > 1 => player = "FESTIVE" /\ idx > 0 BY <1>1, SMT DEF RefInv
  <1>4. ref.level > 1 => idx' > 0 /\ chosen' >= Rates[ref.level - 1]
    BY <1>1, <1>2, <1>3, SMT DEF RefInv
  <1>5. RefInv' BY <1>4 DEF RefInv
  <1> QED BY <1>1, <1>5, SMT

(* The push measures and requests nothing.                                 *)
LEMMA PushBacked ==
  ASSUME AbrInv, AbrInv', RefInv, NEW x \in Throughputs, NEW d \in Durations, Measure(x, d)
  PROVE  RefInv' /\ Backed
  <1>1. /\ player' = player /\ ref' = ref /\ idx' = idx /\ seen'.held = seen.held
        /\ idx > 0 => chosen' = chosen
    BY DEF Measure, estimates, AbrInv, AbrTypeOK
  <1>2. idx \in Nat BY DEF AbrInv, AbrTypeOK
  <1>3. RefInv' /\ ~(ref'.level > ref.level) BY <1>1, <1>2, RefKept DEF AbrInv
  <1>4. ~Rise BY <1>1, <1>2, SMT DEF Rise
  <1> QED BY <1>3, <1>4 DEF Backed

LEMMA FinishBacked ==
  ASSUME AbrInv, AbrInv', RefInv, Finish PROVE RefInv' /\ Backed
  <1>1. player' = player /\ ref' = ref /\ idx' = idx /\ seen' = seen /\ chosen' = chosen
    BY DEF Finish
  <1>2. idx \in Nat BY DEF AbrInv, AbrTypeOK
  <1>3. RefInv' /\ ~(ref'.level > ref.level) BY <1>1, <1>2, RefKept DEF AbrInv
  <1>4. ~Rise BY <1>1, <1>2, SMT DEF Rise
  <1> QED BY <1>3, <1>4 DEF Backed

(* A request leaves the reference alone in all clients but FESTIVE.cc.     *)
LEMMA RequestBacked ==
  ASSUME AbrInv, AbrInv', RefInv, Request, player # "FESTIVE", UNCHANGED <<ref, seen>>,
         chosen' > chosen => Supported(chosen')
  PROVE  RefInv' /\ Backed
  <1>1. player' = player /\ idx' = idx + 1 BY DEF Request
  <1>2. idx \in Nat BY DEF AbrInv, AbrTypeOK
  <1>3. idx' >= idx BY <1>1, <1>2
  <1>4. RefInv' /\ ~(ref'.level > ref.level) BY <1>1, <1>3, RefKept DEF AbrInv
  <1> QED BY <1>4 DEF Backed, Rise

LEMMA PandaBacked == ASSUME AbrInv, AbrInv', RefInv, Panda PROVE RefInv' /\ Backed
  <1>1. pc = "measured" /\ player = "PANDA" /\ player \in Paced
    BY DEF Panda, PacedDecides, Decide, Paced
  <1>2. CASE Finish BY <1>2, FinishBacked
  <1>3. CASE Request /\ PandaAdapts /\ UNCHANGED <<ref, seen>>
    <2>1. est' = NextEstimate /\ smooth' = Smoothed(est') /\ ChooseInDeadZone
      BY <1>3 DEF PandaAdapts, Smooth
    <2>2. smooth' \in Int /\ (seen.slowest <= 5 => smooth' >= seen.least)
      BY <1>1, <2>1, FiltersStep
    <2>3. QuietSamples /\ chosen' > chosen => 100 * chosen' <= 85 * smooth'
      BY <1>1, <2>1, <2>2, DeadZoneStep
    <2>4. chosen' > chosen => Supported(chosen') BY <1>1, <2>3 DEF Supported
    <2> QED BY <1>1, <1>3, <2>4, RequestBacked
  <1> QED BY <1>2, <1>3 DEF Panda, PacedDecides

LEMMA ConventionalBacked == ASSUME AbrInv, AbrInv', RefInv, Conventional PROVE RefInv' /\ Backed
  <1>1. pc = "measured" /\ player = "Conventional" /\ player \in Paced
    BY DEF Conventional, PacedDecides, Decide, Paced
  <1>2. CASE Finish BY <1>2, FinishBacked
  <1>3. CASE Request /\ ConventionalAdapts /\ UNCHANGED <<ref, seen>>
    <2>1. est' = thrp /\ smooth' = Smoothed(est') /\ ChooseInDeadZone
      BY <1>3 DEF ConventionalAdapts, Smooth
    <2>2. smooth' \in Int /\ (seen.slowest <= 5 => smooth' >= seen.least)
      BY <1>1, <2>1, FiltersStep
    <2>3. QuietSamples /\ chosen' > chosen => 100 * chosen' <= 85 * smooth'
      BY <1>1, <2>1, <2>2, DeadZoneStep
    <2>4. chosen' > chosen => Supported(chosen') BY <1>1, <2>3 DEF Supported
    <2> QED BY <1>1, <1>3, <2>4, RequestBacked
  <1> QED BY <1>2, <1>3 DEF Conventional, PacedDecides

(* The highest level a throughput carries is the lowest one or carried.    *)
LEMMA ClosestFits ==
  ASSUME NEW y, NEW l \in Closest(y) PROVE l \in Levels /\ (l = 1 \/ 100 * Rates[l] < 85 * y)
  <1>1. 1 \in Levels BY AbrAssumption, SMT DEF Levels
  <1> QED BY <1>1 DEF Closest, Highest

LEMMA CappedRise ==
  ASSUME NEW best \in Levels, NEW safe \in Levels, NEW above \in Nat, chosen \in Int,
         Capped(best, safe, above) > chosen
  PROVE  Capped(best, safe, above) <= Rates[safe] \/ Capped(best, safe, above) = above
  <1>1. Rates[best] \in Int /\ Rates[safe] \in Int BY AbrAssumption
  <1> QED BY <1>1, SMT DEF Capped

LEMMA NextLevel ==
  ASSUME NEW l \in Levels
  PROVE  /\ Smaller(l + 1, NumRates) \in Levels /\ Rates[l] <= Rates[Smaller(l + 1, NumRates)]
         /\ Rates[1] <= Rates[l]
  <1> USE AbrAssumption
  <1>1. /\ Smaller(l + 1, NumRates) \in Levels /\ 1 \in Levels
        /\ Smaller(l + 1, NumRates) = l \/ l < Smaller(l + 1, NumRates)
        /\ 1 = l \/ 1 < l
    BY SMT DEF Levels, Smaller
  <1>2. \A k \in Levels : Rates[k] \in Int OBVIOUS
  <1>3. \A k, m \in Levels : k < m => Rates[k] <= Rates[m] BY <1>2, SMT
  <1>4. \A k \in Levels : Rates[k] <= Rates[k] BY <1>2, SMT
  <1> QED BY <1>1, <1>3, <1>4

LEMMA ProposedBacked == ASSUME AbrInv, AbrInv', RefInv, Proposed PROVE RefInv' /\ Backed
  <1> USE AbrAssumption
  <1>1. player = "Proposed" BY DEF Proposed, PacedDecides, Decide
  <1>2. CASE Finish BY <1>2, FinishBacked
  <1>3. CASE Request /\ ProposedAdapts /\ UNCHANGED <<ref, seen>>
    <2>1. PICK best \in BestRewards(buff', {NumRates}), safe \in Closest(smooth') :
            chosen' = Capped(best, safe,
                             Rates[IF ~buffering' /\ buff' >= Target - Seg
                                   THEN Smaller(safe + 1, NumRates) ELSE safe])
      BY <1>3 DEF ProposedAdapts
    <2> DEFINE next == Smaller(safe + 1, NumRates)
               k == IF ~buffering' /\ buff' >= Target - Seg THEN next ELSE safe
    <2>2. best \in Levels
      <3>1. NumRates \in Levels BY SMT DEF Levels
      <3> QED BY <3>1 DEF BestRewards
    <2>3. safe \in Levels /\ (safe = 1 \/ 100 * Rates[safe] < 85 * smooth') BY ClosestFits
    <2>4. next \in Levels /\ Rates[safe] <= Rates[next] BY <2>3, NextLevel
    <2>5. k \in Levels /\ (k = next \/ k = safe) BY <2>3, <2>4
    <2>6. Rates[k] \in Nat /\ Rates[safe] \in Int /\ Rates[next] \in Int /\ chosen \in Int /\ chosen' \in Int
      BY <2>3, <2>4, <2>5 DEF AbrInv, AbrTypeOK
    <2> HIDE DEF next, k
    <2>7. ASSUME chosen' > chosen PROVE chosen' <= Rates[next]
      <3>1. chosen' = Capped(best, safe, Rates[k]) BY <2>1 DEF k, next
      <3>2. chosen' <= Rates[safe] \/ chosen' = Rates[k] BY <2>2, <2>3, <2>6, <2>7, <3>1, CappedRise
      <3> QED BY <2>4, <2>5, <2>6, <3>2, SMT
    <2>8. chosen' > chosen => Supported(chosen') BY <1>1, <2>3, <2>7 DEF Supported, next
    <2> QED BY <1>1, <1>3, <2>8, RequestBacked
  <1> QED BY <1>2, <1>3 DEF Proposed, PacedDecides

LEMMA BolaBacked == ASSUME AbrInv, AbrInv', RefInv, Bola PROVE RefInv' /\ Backed
  <1> USE AbrAssumption
  <1>1. pc = "measured" /\ player = "BOLA" BY DEF Bola, DelayedDecides, Decide
  <1>2. CASE Finish BY <1>2, FinishBacked
  <1>3. CASE Request /\ BolaAdapts
    <2>1. chosen \in Int /\ chosen' \in Int /\ thrp \in Int BY DEF AbrInv, AbrTypeOK
    <2>2. ASSUME chosen' > chosen PROVE 100 * chosen' < 85 * thrp
      <3>1. chosen' # chosen BY <2>1, <2>2, SMT
      <3>2. PICK best \in BestRewards(buff, {}), safe \in Closest(thrp) :
                   chosen' = Capped(best, safe, Rates[safe])
        BY <1>3, <3>1 DEF BolaAdapts
      <3>3. safe \in Levels /\ (safe = 1 \/ 100 * Rates[safe] < 85 * thrp) BY ClosestFits
      <3>4. best \in Levels BY DEF BestRewards
      <3>5. Rates[safe] \in Nat /\ Rates[1] \in Nat
        <4>1. 1 \in Levels BY SMT DEF Levels
        <4> QED BY <3>3, <4>1
      <3>6. chosen' <= Rates[safe]
        <4>1. chosen' <= Rates[safe] \/ chosen' = Rates[safe]
          BY <2>1, <2>2, <3>2, <3>3, <3>4, <3>5, CappedRise
        <4> QED BY <2>1, <3>5, <4>1, SMT
      <3>7. chosen >= Rates[1]
        <4>1. PICK l \in Levels : chosen = Rates[l] BY <1>1 DEF AbrInv, RateOffered
        <4>2. Rates[1] <= Rates[l] /\ Rates[l] \in Int BY NextLevel
        <4> QED BY <3>5, <4>1, <4>2, SMT
      <3>8. safe # 1
        <4> SUFFICES ASSUME safe = 1 PROVE FALSE OBVIOUS
        <4>1. chosen' <= Rates[1] BY <3>6
        <4> QED BY <2>1, <2>2, <3>5, <3>7, <4>1, SMT
      <3>9. 100 * Rates[safe] < 85 * thrp BY <3>3, <3>8
      <3>10. \A a, b, y \in Int : a <= b /\ 100 * b < 85 * y => 100 * a < 85 * y BY SMT
      <3>11. Rates[safe] \in Int BY <3>5
      <3> QED BY <2>1, <3>6, <3>9, <3>10, <3>11
    <2>3. chosen' > chosen => Supported(chosen') BY <1>1, <2>2 DEF Supported
    <2>4. UNCHANGED <<ref, seen>> BY <1>3 DEF BolaAdapts
    <2> QED BY <1>1, <1>3, <2>3, <2>4, RequestBacked
  <1> QED BY <1>2, <1>3 DEF Bola, DelayedDecides

(* The three things chooseRefRate does with the reference.                 *)
LEMMA NextRefCases ==
  ASSUME NEW e, ref \in [level : Levels, counter : Int]
  PROVE  \/ /\ NextRef(e).level = Larger(ref.level - 1, 1)
            /\ NextRef(e).counter = Larger(ref.level - 1, 1)
         \/ /\ ref.counter - 1 <= 0 /\ Rates[ref.level] = chosen /\ ref.level < NumRates
            /\ NextRef(e).level = ref.level + 1 /\ NextRef(e).counter = ref.level + 1
         \/ NextRef(e).level = ref.level /\ NextRef(e).counter = ref.counter - 1
  BY DEF NextRef

LEMMA FestiveBacked == ASSUME AbrInv, AbrInv', RefInv, Festive PROVE RefInv' /\ Backed
  <1> USE AbrAssumption
  <1>1. pc = "measured" /\ player = "FESTIVE" BY DEF Festive, DelayedDecides, Decide
  <1>2. CASE Finish BY <1>2, FinishBacked
  <1>3. CASE Request /\ FestiveAdapts
    <2> DEFINE old == ref.level
               new == ref'.level
               low == Larger(old - 1, 1)
    <2>1. PICK e \in seen.least .. seen.most : ref' = NextRef(e) BY <1>3 DEF FestiveAdapts
    <2>2. /\ ref \in [level : Levels, counter : Int] /\ ref' \in [level : Levels, counter : Int]
          /\ chosen \in Int /\ chosen' \in Int /\ seen.held \in Nat /\ idx \in Nat
      BY DEF AbrInv, AbrTypeOK
    <2>3. \/ new = low /\ ref'.counter = low
          \/ /\ ref.counter - 1 <= 0 /\ Rates[old] = chosen
             /\ new = old + 1 /\ ref'.counter = old + 1
          \/ new = old /\ ref'.counter = ref.counter - 1
      BY <2>1, <2>2, NextRefCases
    <2>4. old \in Levels /\ new \in Levels /\ old \in Int /\ new \in Int /\ old >= 1 /\ new >= 1
          /\ ref.counter \in Int
      <3>1. old \in Levels /\ new \in Levels /\ ref.counter \in Int BY <2>2
      <3> QED BY <3>1, SMT DEF Levels
    <2>5. seen'.held = (IF new = old THEN seen.held + 1 ELSE 0)
      BY <1>3 DEF FestiveAdapts, AbrInv, AbrTypeOK
    <2>6. chosen' = chosen \/ chosen' = Rates[new] BY <1>3 DEF FestiveAdapts
    <2>7. idx' = idx + 1 /\ player' = player BY <1>3 DEF Request
    <2>8. seen.held + ref.counter >= old /\ (old > 1 => chosen >= Rates[old - 1]) BY DEF RefInv
    <2>9. low = IF old = 1 THEN 1 ELSE old - 1 BY <2>4, SMT DEF Larger
    <2> HIDE DEF old, new, low
    <2>10. new > 1 => new - 1 \in Levels /\ Rates[new - 1] \in Int /\ Rates[new] \in Int /\ Rates[new] > Rates[new - 1]
      <3> SUFFICES ASSUME new > 1 PROVE new - 1 \in Levels /\ new - 1 < new BY <2>4
      <3> QED BY <2>4, SMT DEF Levels
    <2>11. seen'.held + ref'.counter >= new
      BY <2>2, <2>3, <2>4, <2>5, <2>8, <2>9, SMT
    <2>12. new > 1 => chosen >= Rates[new - 1]
      <3> SUFFICES ASSUME new > 1 PROVE chosen >= Rates[new - 1] OBVIOUS
      <3>1. CASE new = old BY <2>8, <3>1
      <3>2. CASE new = old + 1 /\ Rates[old] = chosen
        <4>1. new - 1 = old BY <2>4, <3>2, SMT
        <4> QED BY <2>2, <3>2, <4>1, SMT
      <3>3. CASE new = low /\ new # old
        <4>1. old > 1 /\ new = old - 1 BY <2>4, <2>9, <3>3, SMT
        <4>2. chosen >= Rates[new] BY <2>8, <4>1
        <4> QED BY <2>2, <2>10, <4>2, SMT
      <3> QED BY <2>3, <3>1, <3>2, <3>3
    <2>13. new > 1 => chosen' >= Rates[new - 1]
      BY <2>2, <2>6, <2>10, <2>12, SMT
    <2>14. RefInv'
      <3>1. idx' > 0 BY <2>2, <2>7, SMT
      <3> QED BY <1>1, <2>7, <2>11, <2>13, <3>1 DEF RefInv, new
    <2>15. new > old => new = old + 1 /\ seen.held + 1 >= old
      <3>1. new > old => new = old + 1 /\ ref.counter - 1 <= 0 BY <2>3, <2>4, <2>9, SMT
      <3>2. ref.counter - 1 <= 0 => seen.held + 1 >= old BY <2>2, <2>4, <2>8, SMT
      <3> QED BY <3>1, <3>2
    <2>16. chosen' > chosen => Supported(chosen')
      <3>1. chosen' > chosen => chosen' = Rates[new] BY <2>2, <2>6, SMT
      <3>2. chosen' = Rates[new] => \E l \in Levels : chosen' = Rates[l] /\ (l > 1 => chosen >= Rates[l - 1])
        BY <2>4, <2>12
      <3> QED BY <1>1, <3>1, <3>2 DEF Supported
    <2> QED BY <2>14, <2>15, <2>16 DEF Backed, Rise, old, new
  <1> QED BY <1>2, <1>3 DEF Festive, DelayedDecides

(* No client switches up beyond what its estimate supports, for every      *)
(* ladder of rates and whatever the network gives.                         *)
THEOREM RisesAreBacked == AbrSpec => RiseIsBacked
  <1>1. AbrInit => RefInv
    <2> SUFFICES ASSUME AbrInit PROVE RefInv OBVIOUS
    <2> QED BY SMT DEF AbrInit, RefInv
  <1>2. AbrInv /\ AbrInv' /\ RefInv /\ [AbrNext]_abrVars => RefInv' /\ (AbrNext => Backed)
    <2> SUFFICES ASSUME AbrInv, AbrInv', RefInv, AbrNext \/ UNCHANGED abrVars
                 PROVE  RefInv' /\ (AbrNext => Backed)
      OBVIOUS
    <2>1. CASE UNCHANGED abrVars /\ ~AbrNext
      BY <2>1 DEF abrVars, RefInv
    <2>2. CASE \E x \in Throughputs, d \in Durations : PacedPushClosed(x, d)
      BY <2>2, PushBacked DEF PacedPushClosed
    <2>3. CASE \E x \in Throughputs, d \in Durations, o \in Overheads : DelayedPushClosed(x, d, o)
      BY <2>3, PushBacked DEF DelayedPushClosed
    <2>4. CASE Panda BY <2>4, PandaBacked
    <2>5. CASE Conventional BY <2>5, ConventionalBacked
    <2>6. CASE Proposed BY <2>6, ProposedBacked
    <2>7. CASE Festive BY <2>7, FestiveBacked
    <2>8. CASE Bola BY <2>8, BolaBacked
    <2> QED BY <2>1, <2>2, <2>3, <2>4, <2>5, <2>6, <2>7, <2>8 DEF AbrNext
  <1>3. Backed => (Rise => Supported(chosen'))
                  /\ (ref'.level > ref.level => ref'.level = ref.level + 1 /\ seen.held + 1 >= ref.level)
    BY DEF Backed
  <1>4. [AbrNext]_abrVars /\ (AbrNext => Backed) =>
          [/\ idx' > idx /\ chosen' > chosen => Supported(chosen')
           /\ ref'.level > ref.level => ref'.level = ref.level + 1 /\ seen.held + 1 >= ref.level]_abrVars
    BY <1>3 DEF Rise
  <1> QED BY <1>1, <1>2, <1>4, AbrInvariant, PTL DEF AbrSpec, RiseIsBacked
=============================================================================
