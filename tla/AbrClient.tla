------------------------------ MODULE AbrClient ------------------------------
(***************************************************************************)
(* Rate adaptation and buffer control of the five adaptive clients:        *)
(* testbed/Proposed.cc, PANDA.cc, Conventional.cpp, FESTIVE.cc, BOLA.cc.   *)
(*                                                                         *)
(* A segment is fetched by two streams. The pushed one closes first        *)
(* (on_stream_close_callback, even identifier: measurements), then the     *)
(* request (odd identifier: hung_KPush_method chooses the next rate, lets  *)
(* the thread sleep and sends the next request). Module Streaming shows    *)
(* that the two close in this order.                                       *)
(*                                                                         *)
(* Abstractions: time is in seconds, rates and throughput in any unit; the *)
(* doubles of the estimators are rounded down. The argument of the largest *)
(* BOLA reward, FESTIVE's harmonic mean and its comparison of costs are    *)
(* free choices within the bounds the formulas have.                       *)
(***************************************************************************)
EXTENDS Integers

CONSTANTS Players,      (* which clients are run                           *)
          NumSegs,      (* NUM_OF_SEGS                                     *)
          Seg, Target,  (* hung_sd and TARGET_BUFFER                       *)
          NumRates, Rates,        (* hung_rate_set, from index 1           *)
          W,            (* w, the additive increase of the estimate        *)
          Throughputs, Durations, (* what a push may measure               *)
          Overheads,    (* round trips and callbacks around a push         *)
          Garbage       (* what an uninitialized int may hold              *)

AllPlayers == {"Proposed", "PANDA", "Conventional", "FESTIVE", "BOLA"}
Levels     == 1 .. NumRates

ASSUME AbrAssumption ==
  /\ Players \subseteq AllPlayers
  /\ NumSegs \in Nat \ {0} /\ Seg \in Nat \ {0} /\ Target \in Nat /\ Target > Seg
  /\ NumRates \in Nat \ {0} /\ Rates \in [Levels -> Nat \ {0}]
  /\ \A l, k \in Levels : l < k => Rates[l] < Rates[k]
  /\ W \in Nat
  /\ Throughputs \subseteq Nat /\ Durations \subseteq Nat /\ Overheads \subseteq Nat
  /\ Garbage \subseteq Int

VARIABLES player,
          pc,         (* "fetching", "measured" (the push closed), "done"  *)
          idx,        (* dang_seg_index                                    *)
          thrp, download, actual,  (* dang_thrp, _download_time and        *)
                      (* _actual_interRequest at idx                       *)
          est, smooth,             (* dang_estimated_thrp, _smoothedThrp   *)
          chosen,     (* dang_chosen_rate at idx                           *)
          buff, buffering,         (* the last dang_curr_buff written,     *)
                      (* dang_on_buffering                                 *)
          target,     (* dang_target_interRequest; the delay before the    *)
                      (* request in FESTIVE.cc and BOLA.cc                 *)
          ref,        (* dang_refRateLevel, dang_counter                   *)
          seen        (* history: extreme samples, the longest actual and  *)
                      (* for how many decisions the level of ref was kept  *)

abrVars == <<player, pc, idx, thrp, download, actual, est, smooth, chosen, buff,
             buffering, target, ref, seen>>
samples   == <<thrp, download, actual>>
estimates == <<est, smooth>>
buffer    == <<buff, buffering>>

Larger(a, b)  == IF a > b THEN a ELSE b
Smaller(a, b) == IF a < b THEN a ELSE b

AbrInit ==
  /\ player \in Players
  /\ pc = "fetching" /\ idx = 0
  /\ thrp = 0 /\ download = 0 /\ actual = 0
  /\ est = 0 /\ smooth = 0 /\ chosen = 0
  /\ buff = 0 /\ buffering = TRUE
  /\ target = 0
  /\ ref  = [level |-> 1, counter |-> 1]
  /\ seen = [least |-> 0, most |-> 0, slowest |-> 0, held |-> 0]

-----------------------------------------------------------------------------
(* The recorded buffer: while buffering nothing is taken from it; after    *)
(* that, the time since the last record. Only Proposed.cc never returns to *)
(* buffering.                                                              *)
Record(elapsed) ==
  /\ buff' = IF ~buffering THEN buff + Seg - elapsed
             ELSE IF idx = 0 THEN Seg ELSE buff + Seg
  /\ buffering' = \/ buffering /\ buff' < Target
                  \/ player # "Proposed" /\ buff' <= Seg

(* on_stream_close_callback of a pushed stream, the part common to all.    *)
Measure(x, d) ==
  /\ pc = "fetching" /\ pc' = "measured"
  /\ thrp' = x /\ download' = d
  /\ chosen' = IF idx = 0 THEN Rates[1] ELSE chosen
  /\ seen' = [seen EXCEPT !.least = IF idx = 0 THEN x ELSE Smaller(@, x),
                          !.most  = Larger(@, x),
                          !.slowest = IF idx = 0 THEN 0 ELSE Larger(@, actual')]
  /\ UNCHANGED <<player, idx, estimates, target, ref>>

(* In these clients the request is sent without delay and the pause comes  *)
(* before the decision.                                                    *)
Paced == {"Proposed", "PANDA", "Conventional"}

PacedPushClosed(x, d) ==
  /\ player \in Paced
  /\ actual' = Larger(target, d)
  /\ UNCHANGED buffer
  /\ Measure(x, d)

(* FESTIVE.cc and BOLA.cc wait before the request, and record the buffer   *)
(* when the push has closed.                                               *)
DelayedPushClosed(x, d, o) ==
  /\ player \notin Paced
  /\ UNCHANGED actual
  /\ Record(target + o + d)
  /\ Measure(x, d)

-----------------------------------------------------------------------------
(* hung_KPush_method. The last segment is followed by no request: both     *)
(* requests of the segment are processed, and the session is terminated.   *)

(* Mutant: the index runs up to NUM_OF_SEGS. *)
LastSegment_Late == idx = NumSegs

LastSegment == idx = NumSegs - 1

Decide(p) == pc = "measured" /\ player = p

Finish == /\ LastSegment
          /\ pc' = "done"
          /\ UNCHANGED <<player, idx, samples, estimates, chosen, target, ref, seen>>

Request == /\ ~LastSegment
           /\ pc' = "fetching" /\ idx' = idx + 1
           /\ UNCHANGED <<player, samples>>

(* Mutant: the thread does not sleep. *)
Pause_NotSlept == \E o \in Overheads : Record(o + download)

(* The sleep of the paced clients: a request every target at the earliest. *)
Pause == \E o \in Overheads : Record(o + Larger(download, target))

(* update_estimatedThrp and update_smoothedThrp: k = 0.14, alpha = 0.2.    *)
NextEstimate ==
  IF idx = 0 THEN thrp
  ELSE est + (14 * ((W - Larger(0, est - thrp + W)) * actual)) \div 100

Smoothed(e) ==
  IF idx = 0 THEN e ELSE smooth + (20 * ((e - smooth) * actual)) \div 100

Highest(S) == {l \in S : \A k \in S : k <= l}

(* Mutant: the search ends before index 0. *)
Thresholds_SkipsLowest(pct, y) ==
  LET fits == {l \in Levels \ {1} : 100 * Rates[l] <= pct * y}
  IN  IF fits = {} THEN Garbage ELSE {Rates[l] : l \in Highest(fits)}

(* rateUp and rateDown: the highest rate within pct percent of y; if there *)
(* is none the local variable is never written.                            *)
Thresholds(pct, y) ==
  LET fits == {l \in Levels : 100 * Rates[l] <= pct * y}
  IN  IF fits = {} THEN Garbage ELSE {Rates[l] : l \in Highest(fits)}

DeadZone(up, down) ==
  IF chosen < up THEN up ELSE IF chosen <= down THEN chosen ELSE down

(* rateClosestThrp: the highest level below 85 percent of y, or the lowest. *)
Closest(y) == Highest({1} \cup {l \in Levels : 100 * Rates[l] < 85 * y})

(* Mutant: the size of the segment is taken for its duration. *)
PerRate_Undivided(bits, y) == {bits}

(* The int of an int divided by a double; by zero it is undefined.         *)
PerRate(bits, y) ==
  IF y > 0 THEN {bits \div y} ELSE IF y < 0 THEN {-(bits \div (-y))} ELSE Garbage

(* BOLA's choice with its cap: best has the largest reward; above is taken *)
(* when the throughput allows less than best but more than the rate now.   *)
Capped(best, safe, above) ==
  IF Rates[best] <= chosen \/ Rates[safe] >= Rates[best] THEN Rates[best]
  ELSE IF Rates[safe] < chosen THEN chosen ELSE above

(* maxRewardRate: the reward of the top rate is positive below Target -    *)
(* Seg, those of the others only further below.                            *)
BestRewards(b, default) == IF b < Target - Seg THEN Levels ELSE default

Smooth(e) == est' = e /\ smooth' = Smoothed(e)

ChooseInDeadZone ==
  \E up \in Thresholds(85, smooth'), down \in Thresholds(100, smooth') :
    chosen' = DeadZone(up, down)

(* PANDA.cc *)
PandaAdapts ==
  /\ Smooth(NextEstimate)
  /\ ChooseInDeadZone
  /\ \E t \in PerRate(chosen' * Seg, smooth') : target' = t + (buff' - Target) \div 5

(* update_targetInterRequest of Conventional.cpp and Proposed.cc.          *)
KeepPace == target' = IF buff' >= Target THEN Seg ELSE 0

ConventionalAdapts ==
  /\ Smooth(thrp)
  /\ ChooseInDeadZone
  /\ KeepPace

(* Proposed.cc: 28000 is TARGET_BUFFER less one segment.                   *)
ProposedAdapts ==
  /\ Smooth(NextEstimate)
  /\ \E best \in BestRewards(buff', {NumRates}), safe \in Closest(smooth') :
       chosen' = Capped(best, safe,
                        Rates[IF ~buffering' /\ buff' >= Target - Seg
                              THEN Smaller(safe + 1, NumRates) ELSE safe])
  /\ KeepPace

PacedDecides(p, adapts) ==
  /\ Decide(p)
  /\ Pause
  /\ \/ Finish
     \/ Request /\ adapts /\ UNCHANGED <<ref, seen>>

Panda        == PacedDecides("PANDA", PandaAdapts)
Conventional == PacedDecides("Conventional", ConventionalAdapts)
Proposed     == PacedDecides("Proposed", ProposedAdapts)

(* Mutant: the counter is not reset when the level is raised. *)
NextRef_KeepsCounting(e) ==
  LET lower == Larger(ref.level - 1, 1)
      count == ref.counter - 1
  IN  IF 10 * chosen > 9 * e THEN [level |-> lower, counter |-> lower]
      ELSE IF count <= 0 /\ Rates[ref.level] = chosen /\ ref.level < NumRates
           THEN [level |-> ref.level + 1, counter |-> count]
           ELSE [ref EXCEPT !.counter = count]

(* chooseRefRate of FESTIVE.cc, at the index of the next segment.          *)
NextRef(e) ==
  LET lower == Larger(ref.level - 1, 1)
      count == ref.counter - 1
  IN  IF 10 * chosen > 9 * e THEN [level |-> lower, counter |-> lower]
      ELSE IF count <= 0 /\ Rates[ref.level] = chosen /\ ref.level < NumRates
           THEN [level |-> ref.level + 1, counter |-> ref.level + 1]
           ELSE [ref EXCEPT !.counter = count]

(* The harmonic mean lies between the samples; either rate may cost less.  *)
(* createRandBuff draws the level above which the request is delayed.      *)
FestiveAdapts ==
  /\ \E e \in seen.least .. seen.most : ref' = NextRef(e)
  /\ chosen' \in {chosen, Rates[ref'.level]}
  /\ seen' = [seen EXCEPT !.held = IF ref'.level = ref.level THEN @ + 1 ELSE 0]
  /\ \E randbuff \in (Target - Seg) .. (Target + Seg - 1) : target' = Larger(0, buff - randbuff)

(* Without a positive reward BOLA.cc stays at its rate.                    *)
BolaAdapts ==
  /\ \/ \E best \in BestRewards(buff, {}), safe \in Closest(thrp) :
          chosen' = Capped(best, safe, Rates[safe])
     \/ BestRewards(buff, {}) = {} /\ chosen' = chosen
  /\ target' = Larger(0, buff - (Target - Seg))
  /\ UNCHANGED <<ref, seen>>

DelayedDecides(p, adapts) ==
  /\ Decide(p)
  /\ UNCHANGED buffer
  /\ \/ Finish
     \/ Request /\ adapts /\ UNCHANGED estimates

Festive == DelayedDecides("FESTIVE", FestiveAdapts)
Bola    == DelayedDecides("BOLA", BolaAdapts)

AbrNext ==
  \/ \E x \in Throughputs, d \in Durations : PacedPushClosed(x, d)
  \/ \E x \in Throughputs, d \in Durations, o \in Overheads : DelayedPushClosed(x, d, o)
  \/ Panda \/ Conventional \/ Proposed \/ Festive \/ Bola

AbrSpec == AbrInit /\ [][AbrNext]_abrVars

-----------------------------------------------------------------------------
(* Properties                                                              *)

AbrTypeOK ==
  /\ player \in Players /\ pc \in {"fetching", "measured", "done"}
  /\ idx \in 0 .. NumSegs - 1
  /\ thrp \in Nat /\ download \in Nat /\ actual \in Nat
  /\ est \in Int /\ smooth \in Int /\ chosen \in Int
  /\ buff \in Int /\ buffering \in BOOLEAN /\ target \in Int
  /\ ref \in [level : Levels, counter : Int]
  /\ seen \in [least : Nat, most : Nat, slowest : Nat, held : Nat]

(* No inter-request time exceeded five seconds (1 / alpha), and every      *)
(* sample can carry the lowest rate. The filters multiply by elapsed time: *)
(* only then do they not overshoot below the samples and even below zero.  *)
QuietSamples == seen.slowest <= 5 /\ 85 * seen.least >= 100 * Rates[1]

(* The recorded buffer stays near TARGET_BUFFER although a segment is      *)
(* added with every fetch: the pause or delay computed at the decision     *)
(* before is slept in time. A sleep lost, shortened or computed from an    *)
(* old buffer level lets the buffer grow with every fast segment. PANDA    *)
(* converges where a fifth of the excess is one segment, unless a negative *)
(* estimate makes its pause negative: then its buffer has no bound.        *)
BufferBound ==
  Target + (IF player = "PANDA" THEN 5 * Seg + 4 ELSE IF player = "FESTIVE" THEN 2 * Seg ELSE Seg)

BufferBounded == (player = "PANDA" => QuietSamples) => buff <= BufferBound

(* hung_KPush_method sleeps inside a callback: nothing is read from the    *)
(* connection meanwhile. The sleep is limited by the level of the buffer   *)
(* and, in PANDA.cc, by an estimate that can carry the chosen rate.        *)
PauseBounded == (player = "PANDA" => QuietSamples) => target <= 3 * Seg

(* The rate requested is one of the encoded rates. Without QuietSamples    *)
(* PANDA.cc and Conventional.cpp may read thresholds that nobody wrote and *)
(* ask for anything.                                                       *)
RateOffered ==
  \/ pc = "fetching" /\ idx = 0
  \/ ~QuietSamples /\ player \in {"PANDA", "Conventional"}
  \/ \E l \in Levels : chosen = Rates[l]

(* No client switches up beyond what its own estimate supports: FESTIVE by *)
(* one level and only after as many decisions at a level as its number;    *)
(* BOLA and PANDA below the estimate less the margin, Proposed one level   *)
(* above that.                                                             *)
Supported(r) ==
  CASE player = "FESTIVE" -> \E l \in Levels : r = Rates[l] /\ (l > 1 => chosen >= Rates[l - 1])
    [] player = "BOLA"     -> 100 * r < 85 * thrp
    [] player = "Proposed" -> \E l \in Levels : /\ l = 1 \/ 100 * Rates[l] < 85 * smooth'
                                                /\ r <= Rates[Smaller(l + 1, NumRates)]
    [] OTHER               -> QuietSamples => 100 * r <= 85 * smooth'

RiseIsBacked ==
  [][/\ idx' > idx /\ chosen' > chosen => Supported(chosen')
     /\ ref'.level > ref.level => /\ ref'.level = ref.level + 1
                                  /\ seen.held + 1 >= ref.level]_abrVars
=============================================================================
