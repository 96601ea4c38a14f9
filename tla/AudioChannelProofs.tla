------------------------- MODULE AudioChannelProofs -------------------------
(* A channel of any widths, with whatever the program writes; and the      *)
(* noise of any widths of the shift register, the timer and the periods.   *)
EXTENDS NoiseChannel, FiniteSetTheorems, TLAPS

-----------------------------------------------------------------------------
(* Powers of two, which the provers do not compute: 2^n counts the subsets *)
(* of a set of n members.                                                  *)
LEMMA Subsets ==
    ASSUME NEW n \in Nat
    PROVE  IsFiniteSet(SUBSET (1..n)) /\ Cardinality(SUBSET (1..n)) = 2^n
  <1>1. IsFiniteSet(1..n) /\ Cardinality(1..n) = n
    BY FS_Interval
  <1> QED  BY <1>1, FS_SUBSET

LEMMA PowerPositive == \A n \in Nat : 2^n \in Nat \ {0}
  <1> SUFFICES ASSUME NEW n \in Nat PROVE 2^n \in Nat \ {0}
    OBVIOUS
  <1>1. 2^n \in Nat
    BY Subsets, FS_CardinalityType
  <1>2. Cardinality(SUBSET (1..n)) # 0
    <2>1. {} \in SUBSET (1..n)
      OBVIOUS
    <2> QED  BY <2>1, Subsets, FS_EmptySet
  <1> QED  BY <1>1, <1>2, Subsets

\* With a new member there are the subsets without it and as many with it.
LEMMA PowerDoubles == \A n \in Nat : 2^(n + 1) = 2 * 2^n
  <1> SUFFICES ASSUME NEW n \in Nat PROVE 2^(n + 1) = 2 * 2^n
    OBVIOUS
  <1> DEFINE old == SUBSET (1..n)
             new == {T \in SUBSET (1..(n + 1)) : n + 1 \in T}
             extend == [T \in old |-> T \cup {n + 1}]
  <1>0. n + 1 \notin 1..n /\ 1..(n + 1) = (1..n) \cup {n + 1}
    OBVIOUS
  <1>1. extend \in Bijection(old, new)
    <2>1. extend \in [old -> new]
      BY <1>0
    <2>2. ASSUME NEW S \in old, NEW T \in old, extend[S] = extend[T] PROVE S = T
      <3>1. S \cup {n + 1} = T \cup {n + 1}
        BY <2>2
      <3> QED  BY <3>1, <1>0, <2>2
    <2>3. ASSUME NEW T \in new PROVE \E S \in old : extend[S] = T
      <3>1. T \ {n + 1} \in old
        BY <1>0, <2>3
      <3>2. extend[T \ {n + 1}] = T
        BY <3>1, <2>3
      <3> QED  BY <3>1, <3>2
    <2> HIDE DEF old, new, extend
    <2> QED  BY <2>1, <2>2, <2>3 DEF Bijection, Injection, Surjection, IsInjective
  <1>2. IsFiniteSet(old) /\ Cardinality(old) = 2^n
    BY Subsets
  <1>3. IsFiniteSet(new) /\ Cardinality(new) = 2^n
    <2> HIDE DEF old, new
    <2> QED  BY <1>1, <1>2, FS_Bijection DEF ExistsBijection
  <1>4. old \cup new = SUBSET (1..(n + 1)) /\ old \cap new = {}
    BY <1>0
  <1>5. Cardinality(old \cup new) = Cardinality(old) + Cardinality(new) - Cardinality(old \cap new)
    <2> HIDE DEF old, new
    <2> QED  BY <1>2, <1>3, FS_Union
  <1>6. Cardinality(SUBSET (1..(n + 1))) = 2^(n + 1)
    BY Subsets, n + 1 \in Nat
  <1>7. Cardinality({}) = 0 /\ 2^n \in Nat
    BY FS_EmptySet, PowerPositive
  <1> HIDE DEF old, new, extend
  <1>8. 2^(n + 1) = 2^n + 2^n - 0
    BY <1>2, <1>3, <1>4, <1>5, <1>6, <1>7, Zenon
  <1> QED  BY <1>7, <1>8

LEMMA LeastExists ==
    ASSUME NEW S \in SUBSET Nat, S # {}
    PROVE  \E i \in S : \A j \in S : i <= j
  <1> DEFINE Less == {p \in Nat \X Nat : p[1] < p[2]}
  <1>1. IsWellFoundedOn(Less, Nat)
    BY NatLessThanWellFounded DEF OpToRel
  <1>2. PICK i \in S : \A j \in S : ~(<<j, i>> \in Less)
    BY <1>1, WFMin
  <1>3. \A a, b \in Nat : a < b => <<a, b>> \in Less
    OBVIOUS
  <1> HIDE DEF Less
  <1>4. ASSUME NEW j \in S PROVE i <= j
    <2>1. i \in Nat /\ j \in Nat
      BY <1>2, <1>4
    <2>2. ~(j < i)
      BY <1>2, <1>3, <1>4, <2>1
    <2> QED  BY <2>1, <2>2
  <1> QED  BY <1>2, <1>4

\* Twice a power of two divides the higher powers: no exponent is the least
\* that it fails for.
LEMMA PowerDivides ==
    ASSUME NEW a \in Nat
    PROVE  \A d \in Nat : \E k \in Nat \ {0} : 2^(a + d + 1) = (2 * 2^a) * k
  <1> DEFINE p == 2^a
             Divides(d) == \E k \in Nat \ {0} : 2^(a + d + 1) = (2 * p) * k
             failing == {d \in Nat : ~Divides(d)}
  <1>1. p \in Nat \ {0}
    BY PowerPositive
  <1>2. Divides(0)
    <2>1. 2^(a + 0 + 1) = 2 * p
      <3>1. 2^(a + 1) = 2 * 2^a
        BY PowerDoubles
      <3>2. a + 0 + 1 = a + 1
        OBVIOUS
      <3> QED  BY <3>1, <3>2, Zenon
    <2> HIDE DEF p
    <2>2. 2 * p = (2 * p) * 1 /\ 1 \in Nat \ {0}
      BY <1>1
    <2> QED  BY <2>1, <2>2, Zenon
  <1>3. ASSUME NEW d \in Nat, Divides(d) PROVE Divides(d + 1)
    <2>1. PICK k \in Nat \ {0} : 2^(a + d + 1) = (2 * p) * k
      BY <1>3
    <2>2. 2^(a + (d + 1) + 1) = 2 * 2^(a + d + 1)
      <3>1. a + d + 1 \in Nat /\ a + (d + 1) + 1 = (a + d + 1) + 1
        OBVIOUS
      <3>2. 2^((a + d + 1) + 1) = 2 * 2^(a + d + 1)
        BY <3>1, PowerDoubles
      <3> QED  BY <3>1, <3>2, Zenon
    <2> HIDE DEF p
    <2>3. 2 * ((2 * p) * k) = (2 * p) * (2 * k) /\ 2 * k \in Nat \ {0}
      BY <1>1
    <2> QED  BY <2>1, <2>2, <2>3, Zenon
  <1>4. failing = {}
    <2> SUFFICES ASSUME failing # {} PROVE FALSE
      OBVIOUS
    <2>1. failing \in SUBSET Nat
      OBVIOUS
    <2>2. PICK d \in failing : \A e \in failing : d <= e
      BY <2>1, LeastExists
    <2> HIDE DEF Divides
    <2>3. d # 0
      BY <1>2, <2>2
    <2>4. d - 1 \in Nat /\ (d - 1) + 1 = d /\ ~(d <= d - 1)
      BY <2>1, <2>2, <2>3
    <2>5. Divides(d - 1)
      BY <2>1, <2>2, <2>4
    <2>6. Divides((d - 1) + 1)
      BY <1>3, <2>4, <2>5
    <2> QED  BY <2>2, <2>4, <2>6
  <1> QED  BY <1>4

-----------------------------------------------------------------------------
(* Quotients. *)
LEMMA QuotientBounded ==
    ASSUME NEW n \in Nat, NEW m \in Nat \ {0} PROVE n \div m \in 0..n
<1>. DEFINE q == n \div m
           r == n % m
<1>1. q \in Int /\ r \in 0..(m - 1) /\ n = m * q + r
  OBVIOUS
<1>. HIDE DEF q, r
<1>2. q >= 0
  <2>. SUFFICES ASSUME q <= -1 PROVE FALSE
    BY <1>1
  <2>1. m * q <= -m
    BY <1>1
  <2>. QED BY <1>1, <2>1
<1>3. q <= m * q
  BY <1>1, <1>2
<1>. QED BY <1>1, <1>2, <1>3 DEF q

LEMMA QuotientRemainder ==
    ASSUME NEW a \in Nat, NEW k \in Nat \ {0}, NEW n \in Nat, NEW low \in 0..(k - 1),
           n = a * k
    PROVE  \A f \in 0..(n - 1) : (f \div k) * k + low \in 0..(n - 1)
<1>. SUFFICES ASSUME NEW f \in 0..(n - 1) PROVE (f \div k) * k + low \in 0..(n - 1)
  OBVIOUS
<1>. DEFINE q == f \div k
           r == f % k
<1>1. q \in Nat /\ r \in 0..(k - 1) /\ f = q * k + r
  BY QuotientBounded
<1>. HIDE DEF q, r
<1>2. q < a
  <2>. SUFFICES ASSUME q >= a PROVE FALSE
    BY <1>1
  <2>1. q * k >= a * k
    BY <1>1
  <2>. QED BY <1>1, <2>1
<1>3. q * k + k <= a * k
  <2>1. (q + 1) * k <= a * k
    BY <1>1, <1>2
  <2>. QED BY <1>1, <2>1
<1>. QED BY <1>1, <1>3 DEF q

-----------------------------------------------------------------------------
\* What the registers hold: values the program may write, or the first ones.
Held ==
    /\ channel \in Channels
    /\ sweep \in Sweep /\ 2^sweep.step \in Nat \ {0}
    /\ length \in Int
    /\ envelope \in Envelope
    /\ enabled \in BOOLEAN
    /\ envelopeTimer \in Nat

IInv == Held /\ TypeOK /\ NoEndlessNote

LEMMA Constants ==
    /\ MaxFrequency \in Nat \ {0} /\ FrequencyLow \in Nat \ {0}
    /\ LengthRange \in Nat \ {0} /\ MaxVolume \in Nat \ {0} /\ NoPace \in Nat \ {0}
    /\ \A c \in Channels :
           /\ \A s \in Sweeps[c] : s \in Sweep /\ 2^s.step \in Nat \ {0}
           /\ MaxLength[c] \in Nat /\ Lengths[c] \subseteq Int
           /\ \A e \in Envelopes[c] : e \in Envelope /\ (c = 3 => e.period = 0)
           /\ Lows[c] \subseteq 0..(FrequencyLow - 1)
<1>1. \A s \in Sweep : 2^s.step \in Nat \ {0}
  <2>. SUFFICES ASSUME NEW s \in Sweep PROVE 2^s.step \in Nat \ {0}
    OBVIOUS
  <2>1. s.step \in Nat
    BY DEF Sweep
  <2>. QED BY <2>1, PowerPositive
<1>2. \A c \in Channels : \A s \in Sweeps[c] : s \in Sweep /\ 2^s.step \in Nat \ {0}
  BY <1>1, ChannelAssumption
<1>3. /\ MaxFrequency \in Nat \ {0} /\ FrequencyLow \in Nat \ {0}
      /\ LengthRange \in Nat \ {0} /\ MaxVolume \in Nat \ {0} /\ NoPace \in Nat \ {0}
      /\ \A c \in Channels :
             /\ MaxLength[c] \in Nat /\ Lengths[c] \subseteq Int
             /\ \A e \in Envelopes[c] : e \in Envelope /\ (c = 3 => e.period = 0)
             /\ Lows[c] \subseteq 0..(FrequencyLow - 1)
  BY ChannelAssumption
<1>. QED BY <1>2, <1>3, Zenon

\* The counter keeps eight bits of any length.
LEMMA LengthFits ==
    ASSUME channel \in Channels, NEW l \in Int
    PROVE  LengthOf(l) \in 0..(LengthRange - 1)
<1>. DEFINE n == MaxLength[channel] - l
<1>1. n \in Int
  BY Constants
<1>. HIDE DEF n
<1>2. n % LengthRange \in 0..(LengthRange - 1)
  BY <1>1, Constants
<1>. QED BY <1>2 DEF n, LengthOf

LEMMA CountedAlike == UNCHANGED <<channel, length>> => (Uncounted' <=> Uncounted)
  BY DEF Uncounted, LengthOf

LEMMA InvInit == Init => IInv
<1>. SUFFICES ASSUME Init PROVE IInv
  OBVIOUS
<1>. USE Constants DEF Init
<1>1. channel \in Channels /\ enabled \in BOOLEAN /\ envelopeTimer = 0
  OBVIOUS
<1>2. sweep \in Sweep /\ 2^sweep.step \in Nat \ {0}
  BY ChannelAssumption DEF Sweep
<1>3. length \in Int
  BY <1>1
<1>4. envelope \in Envelope /\ envelope.period = 0
  <2>1. CASE IsWave
    BY <1>1, <2>1 DEF IsWave
  <2>2. CASE ~IsWave
    <3>1. envelope = [volume |-> 0, up |-> FALSE, period |-> 0]
      BY <2>2
    <3>2. 0 \in 0..MaxVolume /\ 0 \in 0..255
      OBVIOUS
    <3>. QED BY <3>1, <3>2 DEF Envelope
  <2>. QED BY <2>1, <2>2
<1>6. frequency \in 0..MaxFrequency /\ volume \in 0..MaxVolume
  OBVIOUS
<1>5. Held
  BY <1>1, <1>2, <1>3, <1>4 DEF Held
<1>7. TypeOK /\ NoEndlessNote
  BY <1>1, <1>4, <1>6 DEF TypeOK, NoEndlessNote
<1>. QED BY <1>5, <1>7 DEF IInv

\* A step of the sweep, taken or looked at, starts from a frequency.
LEMMA ShiftedSides ==
    ASSUME NEW f \in 0..MaxFrequency, Held
    PROVE  /\ Shifted(f, sweep) \in Nat
           /\ IF sweep.down THEN Shifted(f, sweep) <= f ELSE Shifted(f, sweep) >= f
<1>1. f \div 2^sweep.step \in 0..f
  BY QuotientBounded, Constants DEF Held
<1>. DEFINE delta == f \div 2^sweep.step
<1>2. Shifted(f, sweep) = IF sweep.down THEN f - delta ELSE f + delta
  BY DEF Shifted
<1>. HIDE DEF delta
<1>3. delta \in 0..f
  BY <1>1 DEF delta
<1>. QED BY <1>2, <1>3, Constants

LEMMA SweepTickFits ==
    ASSUME IInv, SweepTick
    PROVE  /\ frequency' \in 0..MaxFrequency /\ shadowRegister' \in 0..MaxFrequency
           /\ sweepTimer' \in Nat /\ currentSweepPace' \in Nat
           /\ frequency' # frequency =>
                  IF sweep.down THEN frequency' <= shadowRegister
                  ELSE frequency' >= shadowRegister
<1>. USE Constants
<1>0. /\ frequency \in 0..MaxFrequency /\ shadowRegister \in 0..MaxFrequency
      /\ sweepTimer \in Nat /\ currentSweepPace \in Nat
      /\ sweep.pace \in Nat /\ Held
  BY DEF IInv, Held, TypeOK, Sweep
<1>1. CASE ~IsFirst \/ ~sweepEnabled
  BY <1>0, <1>1 DEF SweepTick, sweepVars
<1>2. CASE IsFirst /\ sweepEnabled /\ sweepTimer > 1
  <2>1. ~(sweepTimer <= 1)
    BY <1>0, <1>2
  <2>2. sweepTimer' = sweepTimer - 1
        /\ UNCHANGED <<frequency, currentSweepPace, shadowRegister>>
    BY <1>2, <2>1 DEF SweepTick
  <2>. QED BY <1>0, <1>2, <2>2
<1>3. CASE IsFirst /\ sweepEnabled /\ sweepTimer <= 1
  <2>. DEFINE f == Shifted(shadowRegister, sweep)
  <2>1. SweepOver
    BY <1>3 DEF SweepTick
  <2>2. f \in Nat /\ IF sweep.down THEN f <= shadowRegister ELSE f >= shadowRegister
    BY <1>0, ShiftedSides
  <2>3. CASE UNCHANGED <<frequency, shadowRegister>>
    BY <1>0, <2>1, <2>3 DEF SweepOver
  <2>4. CASE ~Overflows(f) /\ shadowRegister' = f /\ SetFrequency(f)
    <3>1. f \in 0..MaxFrequency
      BY <1>0, <2>2, <2>4 DEF Overflows
    <3>2. frequency' = f
      BY <2>4, <3>1 DEF SetFrequency
    <3>. QED BY <1>0, <2>1, <2>2, <2>4, <3>1, <3>2 DEF SweepOver
  <2>. QED BY <2>1, <2>3, <2>4 DEF SweepOver
<1>. QED BY <1>0, <1>1, <1>2, <1>3

LEMMA EnvelopeTickFits ==
    ASSUME IInv, EnvelopeTick
    PROVE  /\ volume' \in 0..MaxVolume
           /\ envelopeTimer' \in Nat /\ envelopeTimer' <= envelope.period
           /\ envelope.period > 0 => envelopeTimer' > 0
<1>. DEFINE period == envelope.period
<1>1. /\ period \in 0..255 /\ volume \in 0..MaxVolume /\ envelopeTimer \in Nat
      /\ envelopeTimer <= period /\ (period > 0 => envelopeTimer > 0)
  BY DEF IInv, Held, TypeOK, Envelope
<1>2. Louder(volume) \in 0..MaxVolume /\ Quieter(volume) \in 0..MaxVolume
  BY <1>1, Constants DEF Louder, Quieter
<1>3. CASE period = 0
  BY <1>1, <1>3 DEF EnvelopeTick
<1>4. CASE period # 0 /\ envelopeTimer = 1
  BY <1>1, <1>2, <1>4 DEF EnvelopeTick
<1>5. CASE period # 0 /\ envelopeTimer # 1
  <2>1. envelopeTimer' = (envelopeTimer - 1) % 256 /\ volume' = volume
    BY <1>5 DEF EnvelopeTick
  <2>2. (envelopeTimer - 1) % 256 = envelopeTimer - 1
    BY <1>1, <1>5
  <2>. QED BY <1>1, <1>5, <2>1, <2>2
<1>. QED BY <1>3, <1>4, <1>5

LEMMA LengthTickFits ==
    ASSUME IInv, LengthTick, UNCHANGED registers
    PROVE  /\ lengthTimer' \in 0..(LengthRange - 1) /\ enabled' \in BOOLEAN
           /\ NoEndlessNote'
<1>1. lengthTimer \in 0..(LengthRange - 1) /\ enabled \in BOOLEAN /\ touched' = touched
  BY DEF IInv, Held, TypeOK, LengthTick
<1>0. Uncounted' <=> Uncounted
  BY CountedAlike DEF registers
<1>2. CASE lengthOn /\ lengthTimer # 0
  <2>1. lengthTimer' = lengthTimer - 1 /\ lengthTimer' \in 0..(LengthRange - 1)
    BY <1>1, <1>2, Constants DEF LengthTick
  <2>2. enabled' = (enabled /\ lengthTimer' # 0)
    BY <1>2 DEF LengthTick, Silenced
  <2>. QED BY <2>1, <2>2 DEF NoEndlessNote
<1>3. CASE ~(lengthOn /\ lengthTimer # 0)
  BY <1>0, <1>1, <1>3 DEF LengthTick, IInv, NoEndlessNote
<1>. QED BY <1>2, <1>3

LEMMA IncreaseStep == IInv /\ IncreaseDiv => IInv'
<1>. SUFFICES ASSUME IInv, IncreaseDiv PROVE IInv'
  OBVIOUS
<1>1. UNCHANGED registers /\ div' \in 0..7
  BY DEF IncreaseDiv, IInv, TypeOK
<1>2. /\ volume' \in 0..MaxVolume
      /\ envelopeTimer' \in Nat /\ envelopeTimer' <= envelope.period
      /\ envelope.period > 0 => envelopeTimer' > 0
  BY EnvelopeTickFits DEF IncreaseDiv, IInv, Held, TypeOK, envelopeVars
<1>3. lengthTimer' \in 0..(LengthRange - 1) /\ enabled' \in BOOLEAN /\ NoEndlessNote'
  <2>1. CASE LengthTick
    BY <1>1, <2>1, LengthTickFits
  <2>2. CASE UNCHANGED lengthVars
    BY <1>1, <2>2, CountedAlike DEF IInv, Held, TypeOK, NoEndlessNote, lengthVars, registers
  <2>. QED BY <2>1, <2>2 DEF IncreaseDiv
<1>4. /\ frequency' \in 0..MaxFrequency /\ shadowRegister' \in 0..MaxFrequency
      /\ sweepTimer' \in Nat /\ currentSweepPace' \in Nat
  BY SweepTickFits DEF IncreaseDiv, IInv, TypeOK, sweepVars
<1>5. Held'
  BY <1>1, <1>2, <1>3 DEF IInv, Held, registers
<1>6. TypeOK'
  BY <1>1, <1>2, <1>3, <1>4 DEF TypeOK, registers
<1>. QED BY <1>3, <1>5, <1>6 DEF IInv

LEMMA LowFits ==
    ASSUME NEW f \in 0..MaxFrequency, NEW low \in 0..(FrequencyLow - 1)
    PROVE  (f \div FrequencyLow) * FrequencyLow + low \in 0..MaxFrequency
<1>. DEFINE a == (MaxFrequency + 1) \div FrequencyLow
<1>1. a \in Nat /\ MaxFrequency + 1 = a * FrequencyLow
  BY ChannelAssumption, Constants, QuotientBounded
<1>. HIDE DEF a
<1>2. MaxFrequency + 1 \in Nat /\ f \in 0..((MaxFrequency + 1) - 1)
  BY Constants
<1>3. (f \div FrequencyLow) * FrequencyLow + low \in 0..((MaxFrequency + 1) - 1)
  BY <1>1, <1>2, QuotientRemainder, Constants
<1>. QED BY <1>3, Constants

LEMMA HighFits ==
    ASSUME NEW f \in 0..MaxFrequency,
           NEW high \in 0..((MaxFrequency + 1) \div FrequencyLow - 1)
    PROVE  high * FrequencyLow + (f % FrequencyLow) \in 0..MaxFrequency
<1>. DEFINE a == (MaxFrequency + 1) \div FrequencyLow
           r == f % FrequencyLow
<1>1. a \in Nat /\ MaxFrequency + 1 = a * FrequencyLow
  BY ChannelAssumption, Constants, QuotientBounded
<1>2. r \in 0..(FrequencyLow - 1) /\ high \in 0..(a - 1)
  BY Constants
<1>. HIDE DEF a, r
<1>3. (high + 1) * FrequencyLow <= a * FrequencyLow
  BY <1>1, <1>2, Constants
<1>4. high * FrequencyLow + r \in 0..MaxFrequency
  BY <1>1, <1>2, <1>3, Constants
<1>. QED BY <1>4 DEF r

LEMMA WriteStep == IInv /\ Write => IInv'
<1>. SUFFICES ASSUME IInv, Write PROVE IInv'
  OBVIOUS
<1>. USE Constants
<1>0. Held /\ TypeOK /\ NoEndlessNote
  BY DEF IInv
<1>1. CASE WriteSweep
  <2>1. sweep' \in Sweep /\ 2^sweep'.step \in Nat \ {0}
    BY <1>0, <1>1 DEF WriteSweep, Held
  <2>. QED BY <1>0, <1>1, <2>1, CountedAlike
       DEF WriteSweep, IInv, Held, TypeOK, NoEndlessNote, lengthVars, envelopeVars
<1>2. CASE WriteLength
  <2>1. length' \in Int /\ channel' = channel
    BY <1>0, <1>2 DEF WriteLength, Held
  <2>2. lengthTimer' = LengthOf(length') /\ lengthTimer' \in 0..(LengthRange - 1)
    BY <1>0, <1>2, <2>1, LengthFits DEF WriteLength, Held
  <2>3. lengthTimer' = 0 => Uncounted'
    BY <2>1, <2>2 DEF Uncounted, LengthOf
  <2>. QED BY <1>0, <1>2, <2>1, <2>2, <2>3
       DEF WriteLength, IInv, Held, TypeOK, NoEndlessNote, envelopeVars, sweepVars
<1>3. CASE WriteEnvelope
  <2>1. envelope' \in Envelope
    BY <1>0, <1>3 DEF WriteEnvelope, Held
  <2>2. envelope'.volume \in 0..MaxVolume /\ envelope'.period \in Nat
    BY <2>1 DEF Envelope
  <2>3. volume' \in 0..MaxVolume /\ envelopeTimer' = envelope'.period
    BY <1>3, <2>2 DEF WriteEnvelope, PeriodOf
  <2>. QED BY <1>0, <1>3, <2>1, <2>2, <2>3, CountedAlike
       DEF WriteEnvelope, IInv, Held, TypeOK, NoEndlessNote, lengthVars, sweepVars
<1>4. CASE WriteLow
  <2>1. frequency' \in 0..MaxFrequency
    BY <1>0, <1>4, LowFits DEF WriteLow, Held, TypeOK
  <2>. QED BY <1>0, <1>4, <2>1, CountedAlike
       DEF WriteLow, IInv, Held, TypeOK, NoEndlessNote, registers, lengthVars, envelopeVars, sweepVars
<1>5. CASE WriteControl
  <2>1. frequency' \in 0..MaxFrequency
    BY <1>0, <1>5, HighFits DEF WriteControl, SetHigh, TypeOK
  <2>. QED BY <1>0, <1>5, <2>1, CountedAlike
       DEF WriteControl, IInv, Held, TypeOK, NoEndlessNote, lengthVars, envelopeVars, sweepVars
<1>6. CASE Trigger
  <2>1. frequency' \in 0..MaxFrequency
    BY <1>0, <1>6, HighFits DEF Trigger, SetHigh, TypeOK
  <2>2. /\ lengthTimer' \in 0..(LengthRange - 1)
        /\ lengthTimer' = 0 => LengthOf(length) = 0
    BY <1>0, <1>6, LengthFits DEF Trigger, Reloaded, Held, TypeOK
  <2>5. lengthTimer' = 0 => Uncounted'
    BY <1>6, <2>2, CountedAlike DEF Trigger, Uncounted
  <2>3. envelope.volume \in 0..MaxVolume /\ envelope.period \in Nat
    BY <1>0 DEF Held, Envelope
  <2>4. shadowRegister' \in 0..MaxFrequency /\ sweepTimer' \in Nat /\ currentSweepPace' \in Nat
    <3>1. sweep.pace \in Nat
      BY <1>0 DEF Held, Sweep
    <3>. QED BY <1>0, <1>6, <2>1, <3>1 DEF Trigger, SweepTrigger, TypeOK, sweepVars
  <2>. QED BY <1>0, <1>6, <2>1, <2>2, <2>3, <2>4, <2>5
       DEF Trigger, IInv, Held, TypeOK, NoEndlessNote
<1>. QED BY <1>1, <1>2, <1>3, <1>4, <1>5, <1>6 DEF Write

LEMMA InvStep == IInv /\ [Next]_vars => IInv'
<1>1. IInv /\ UNCHANGED vars => IInv'
  BY CountedAlike
     DEF vars, registers, lengthVars, envelopeVars, sweepVars, IInv, Held, TypeOK, NoEndlessNote
<1>. QED BY <1>1, IncreaseStep, WriteStep DEF Next

(* The registers and counters of a channel keep their widths (TypeOK): a   *)
(* period of zero never reaches the envelope's decrement.                  *)
THEOREM TypeCorrect == Spec => []TypeOK
<1>1. IInv => TypeOK
  BY DEF IInv
<1>. QED BY <1>1, InvInit, InvStep, PTL DEF Spec

(* No note sounds on an exhausted length counter, but for the wave's of     *)
(* its full length, which eight bits hold as none (NoEndlessNote).         *)
THEOREM NotesHaveLength == Spec => []NoEndlessNote
<1>1. IInv => NoEndlessNote
  BY DEF IInv
<1>. QED BY <1>1, InvInit, InvStep, PTL DEF Spec

(* No step of the sweep wraps the frequency (SweepNeverWraps).             *)
THEOREM SweepsStayInRange == Spec => SweepNeverWraps
<1>1. IInv /\ [Next]_vars =>
          [IncreaseDiv /\ frequency' # frequency =>
               IF sweep.down THEN frequency' <= shadowRegister
               ELSE frequency' >= shadowRegister]_vars
  <2>. SUFFICES ASSUME IInv, IncreaseDiv, frequency' # frequency
                PROVE  IF sweep.down THEN frequency' <= shadowRegister
                       ELSE frequency' >= shadowRegister
    OBVIOUS
  <2>1. SweepTick
    BY DEF IncreaseDiv
  <2>. QED BY <2>1, SweepTickFits
<1>. QED BY <1>1, InvInit, InvStep, PTL DEF Spec, SweepNeverWraps

-----------------------------------------------------------------------------
(***************************************************************************)
(* The envelope.  Its age is q periods and r steps, of which the timer has *)
(* the rest, until the volume can move no further.                         *)
(***************************************************************************)
Moved(e, q) == Clamped(e.volume + (IF e.up THEN q ELSE -q))

Follows(e, left, v, a) ==
    IF e.period = 0 THEN v = e.volume
    ELSE \E q \in Nat, r \in 0..(e.period - 1) :
             /\ a = q * e.period + r
             /\ v = Moved(e, q)
             /\ a < e.period * (MaxVolume + 1) => r = e.period - left

\* A channel powers up counting upwards, which its envelope of no period hides.
Followed ==
    /\ age \in Int
    /\ envelope.period > 0 => (envelopeIncrease <=> envelope.up)
    /\ age >= 0 => Follows(envelope, envelopeTimer, volume, age)

LEMMA Products ==
    ASSUME NEW p \in Nat \ {0}, NEW q \in Nat, NEW m \in Nat, NEW r \in 0..(p - 1)
    PROVE  q * p + r \in Nat /\ (q < m <=> q * p + r < m * p)
<1>1. q * p \in Nat /\ m * p \in Nat
  OBVIOUS
<1>2. ASSUME q < m PROVE q * p + p <= m * p
  <2>1. (q + 1) * p <= m * p
    BY <1>2
  <2>2. (q + 1) * p = q * p + p
    OBVIOUS
  <2> QED  BY <2>1, <2>2
<1>3. ASSUME m <= q PROVE m * p <= q * p
  BY <1>3
<1> QED  BY <1>1, <1>2, <1>3

LEMMA Periods ==
    ASSUME NEW p \in Nat \ {0}, NEW q \in Nat, NEW r \in 0..(p - 1)
    PROVE  (q * p + r) \div p = q
<1> DEFINE n == q * p + r
           k == n \div p
           l == n % p
<1>1. n \in Nat
  BY Products
<1>2. k \in Nat /\ l \in 0..(p - 1) /\ n = k * p + l
  <2> HIDE DEF n
  <2>1. k \in 0..n
    BY <1>1, QuotientBounded
  <2>2. n = p * k + l /\ l \in 0..(p - 1)
    BY <1>1
  <2>3. p * k = k * p
    BY <1>1, <2>1
  <2> QED  BY <1>1, <2>1, <2>2, <2>3
<1> HIDE DEF k, l
<1>3. ~(k < q)
  <2>1. k < q <=> n < q * p
    BY <1>2, Products
  <2> QED  BY <1>1, <2>1
<1>4. ~(q < k)
  <2>1. q < k <=> q * p + r < k * p
    BY <1>2, Products
  <2> QED  BY <1>1, <1>2, <2>1
<1> QED  BY <1>2, <1>3, <1>4 DEF k

LEMMA Moves ==
    ASSUME NEW e \in Envelope, NEW q \in Nat
    PROVE  /\ Moved(e, 0) = e.volume
           /\ Moved(e, q + 1) = IF e.up THEN Louder(Moved(e, q)) ELSE Quieter(Moved(e, q))
           /\ q > MaxVolume => Moved(e, q) = IF e.up THEN MaxVolume ELSE 0
<1>1. e.volume \in 0..MaxVolume /\ MaxVolume \in Nat
  BY Constants DEF Envelope
<1>2. CASE e.up
  BY <1>1, <1>2 DEF Moved, Clamped, Louder
<1>3. CASE ~e.up
  BY <1>1, <1>3 DEF Moved, Clamped, Quieter
<1> QED  BY <1>2, <1>3

\* Set or triggered, it starts anew.
LEMMA StartsAnew ==
    ASSUME NEW e \in Envelope
    PROVE  Follows(e, e.period, e.volume, 0)
<1>1. e.period \in Nat
  BY DEF Envelope
<1>2. CASE e.period # 0
  <2>1. /\ 0 \in Nat /\ 0 \in 0..(e.period - 1)
        /\ 0 = 0 * e.period + 0 /\ 0 = e.period - e.period
    BY <1>1, <1>2
  <2>2. e.volume = Moved(e, 0)
    BY Moves
  <2> QED  BY <1>2, <2>1, <2>2, Zenon DEF Follows
<1> QED  BY <1>2 DEF Follows

LEMMA EnvelopeFollows ==
    ASSUME IInv, Followed, EnvelopeTick, UNCHANGED envelope
    PROVE  Followed'
<1> DEFINE p == envelope.period
           limit == p * (MaxVolume + 1)
           turn == IF envelopeIncrease THEN Louder(volume) ELSE Quieter(volume)
<1>1. /\ envelope \in Envelope /\ p \in 0..255 /\ MaxVolume \in Nat /\ envelopeTimer \in Nat
      /\ envelopeTimer <= p /\ (p > 0 => envelopeTimer > 0) /\ age \in Int /\ limit \in Nat
  BY Constants DEF IInv, Held, TypeOK, Envelope, Followed
<1>2. /\ envelopeIncrease' = envelopeIncrease
      /\ age' = IF age \in 0..(limit - 1) THEN age + 1 ELSE age
  BY DEF EnvelopeTick, OldAge
<1>3. age' \in Int /\ (age' >= 0 => age >= 0)
  BY <1>1, <1>2
<1>4. ASSUME age >= 0 PROVE Follows(envelope, envelopeTimer', volume', age')
  <2>1. CASE p = 0
    <3>1. volume' = volume
      BY <2>1 DEF EnvelopeTick
    <3> QED  BY <1>4, <2>1, <3>1 DEF Followed, Follows
  <2>2. CASE p # 0
    <3>1. PICK q \in Nat, r \in 0..(p - 1) :
              age = q * p + r /\ volume = Moved(envelope, q) /\ (age < limit => r = p - envelopeTimer)
      BY <1>4, <2>2 DEF Followed, Follows
    <3>2. q * p \in Nat /\ (q + 1) * p = q * p + p
      BY <1>1
    <3>3. turn = Moved(envelope, q + 1)
      <4>1. envelopeIncrease <=> envelope.up
        BY <1>1, <2>2 DEF Followed
      <4>2. Moved(envelope, q + 1) = IF envelope.up THEN Louder(volume) ELSE Quieter(volume)
        BY <1>1, <3>1, Moves
      <4> QED  BY <4>1, <4>2
    <3>4. \/ envelopeTimer = 1 /\ envelopeTimer' = p /\ volume' = turn
          \/ envelopeTimer # 1 /\ envelopeTimer' = envelopeTimer - 1 /\ volume' = volume
      <4>1. CASE envelopeTimer = 1
        BY <2>2, <4>1 DEF EnvelopeTick
      <4>2. CASE envelopeTimer # 1
        <5>1. envelopeTimer' = (envelopeTimer - 1) % 256 /\ volume' = volume
          BY <2>2, <4>2 DEF EnvelopeTick
        <5>2. (envelopeTimer - 1) % 256 = envelopeTimer - 1
          BY <1>1, <2>2, <4>2
        <5> QED  BY <4>2, <5>1, <5>2
      <4> QED  BY <4>1, <4>2
    <3> HIDE DEF turn, limit
    <3>5. CASE age < limit
      <4>1. age' = age + 1 /\ r = p - envelopeTimer
        BY <1>1, <1>2, <1>4, <3>1, <3>5
      <4>2. CASE envelopeTimer = 1
        <5>1. /\ envelopeTimer' = p /\ volume' = Moved(envelope, q + 1)
              /\ age' = (q + 1) * p + 0 /\ q + 1 \in Nat
              /\ 0 \in 0..(p - 1) /\ 0 = p - envelopeTimer'
          BY <1>1, <2>2, <3>1, <3>2, <3>3, <3>4, <4>1, <4>2
        <5> QED  BY <2>2, <5>1, Zenon DEF Follows
      <4>3. CASE envelopeTimer # 1
        <5>1. /\ volume' = Moved(envelope, q) /\ age' = q * p + (r + 1)
              /\ r + 1 \in 0..(p - 1) /\ r + 1 = p - envelopeTimer'
          BY <1>1, <2>2, <3>1, <3>2, <3>4, <4>1, <4>3
        <5> QED  BY <2>2, <5>1, Zenon DEF Follows
      <4> QED  BY <4>2, <4>3
    <3>6. CASE age >= limit
      <4>1. age' = age /\ ~(age' < limit)
        BY <1>1, <1>2, <3>6
      <4>2. q > MaxVolume
        <5>1. q < MaxVolume + 1 <=> q * p + r < (MaxVolume + 1) * p
          BY <1>1, <2>2, Products
        <5>2. (MaxVolume + 1) * p = limit
          BY <1>1 DEF limit
        <5> QED  BY <1>1, <3>1, <3>6, <5>1, <5>2
      <4>3. Moved(envelope, q + 1) = Moved(envelope, q)
        <5>1. q + 1 \in Nat /\ q + 1 > MaxVolume
          BY <1>1, <4>2
        <5> QED  BY <1>1, <4>2, <5>1, Moves
      <4>4. volume' = Moved(envelope, q)
        BY <3>1, <3>3, <3>4, <4>3
      <4>5. age' = q * p + r
        BY <3>1, <4>1
      <4> QED  BY <2>2, <4>1, <4>4, <4>5, Zenon DEF Follows, limit
    <3> QED  BY <1>1, <3>5, <3>6
  <2> QED  BY <2>1, <2>2
<1>5. p > 0 => (envelopeIncrease' <=> envelope.up)
  BY <1>2 DEF Followed
<1> QED  BY <1>3, <1>4, <1>5 DEF Followed

LEMMA FollowedStep == IInv /\ Followed /\ [Next]_vars => Followed'
<1> SUFFICES ASSUME IInv, Followed, [Next]_vars PROVE Followed'
  OBVIOUS
<1>1. ASSUME UNCHANGED <<envelope, envelopeVars>> PROVE Followed'
  BY <1>1 DEF Followed, envelopeVars
<1>2. CASE IncreaseDiv
  BY <1>1, <1>2, EnvelopeFollows DEF IncreaseDiv, registers
<1>3. CASE WriteSweep \/ WriteLength \/ WriteLow \/ WriteControl \/ UNCHANGED vars
  BY <1>1, <1>3 DEF WriteSweep, WriteLength, WriteLow, WriteControl, vars, registers
<1>4. CASE WriteEnvelope
  <2>1. /\ envelope' \in Envelope /\ volume' = envelope'.volume
        /\ envelopeTimer' = envelope'.period /\ age' = 0
    BY <1>4, Constants DEF WriteEnvelope, PeriodOf, IInv, Held
  <2>2. envelopeIncrease' <=> envelope'.up
    BY <1>4 DEF WriteEnvelope
  <2>3. Follows(envelope', envelopeTimer', volume', age')
    BY <2>1, StartsAnew
  <2> QED  BY <2>1, <2>2, <2>3 DEF Followed
<1>5. CASE Trigger
  <2>1. /\ envelope' = envelope /\ envelope \in Envelope /\ volume' = envelope.volume
        /\ envelopeTimer' = envelope.period /\ age' = 0
    BY <1>5 DEF Trigger, IInv, Held
  <2>2. envelopeIncrease' = envelopeIncrease
    BY <1>5 DEF Trigger
  <2>3. Follows(envelope', envelopeTimer', volume', age')
    BY <2>1, StartsAnew
  <2> QED  BY <2>1, <2>2, <2>3 DEF Followed
<1> QED  BY <1>2, <1>3, <1>4, <1>5 DEF Next, Write

(* The volume is what NRx2 says, moved by one for each period since it was *)
(* set or triggered and up to the limit, however the sequencer's steps     *)
(* interleave with writes, and for every period and volume.                *)
THEOREM VolumesFollow == Spec => []VolumeFollowsEnvelope
<1>1. Init => Followed
  <2> SUFFICES ASSUME Init PROVE Followed
    OBVIOUS
  <2>1. age = -1
    BY DEF Init
  <2>2. ~(envelope.period > 0)
    <3>1. CASE IsWave
      BY <3>1, Constants DEF Init, IsWave
    <3>2. CASE ~IsWave
      BY <3>2 DEF Init
    <3> QED  BY <3>1, <3>2
  <2> QED  BY <2>1, <2>2 DEF Followed
<1>2. IInv /\ Followed => VolumeFollowsEnvelope
  <2> SUFFICES ASSUME IInv, Followed, age >= 0
               PROVE  volume = Moved(envelope, IF envelope.period = 0 THEN 0
                                               ELSE age \div envelope.period)
    BY DEF VolumeFollowsEnvelope, Moved
  <2>1. envelope \in Envelope /\ envelope.period \in Nat
    BY DEF IInv, Held, Envelope
  <2>2. CASE envelope.period = 0
    BY <2>1, <2>2, Moves DEF Followed, Follows
  <2>3. CASE envelope.period # 0
    <3>1. PICK q \in Nat, r \in 0..(envelope.period - 1) :
              age = q * envelope.period + r /\ volume = Moved(envelope, q)
      BY <2>3 DEF Followed, Follows
    <3>2. age \div envelope.period = q
      BY <2>1, <2>3, <3>1, Periods
    <3> QED  BY <2>3, <3>1, <3>2
  <2> QED  BY <2>2, <2>3
<1> QED  BY <1>1, <1>2, FollowedStep, InvInit, InvStep, PTL DEF Spec

-----------------------------------------------------------------------------
(* The shift register. *)
LEMMA Divides ==
    ASSUME NEW x \in Nat, NEW w \in Nat \ {0}
    PROVE  /\ x \div w \in Nat /\ x % w \in 0..(w - 1)
           /\ x = w * (x \div w) + (x % w)
  BY SMT

LEMMA Unique ==
    ASSUME NEW x \in Nat, NEW w \in Nat \ {0}, NEW q \in Nat, NEW r \in 0..(w - 1),
           x = w * q + r
    PROVE  x \div w = q /\ x % w = r
  <1> DEFINE p == x \div w
             k == x % w
  <1>1. p \in Nat /\ k \in 0..(w - 1) /\ x = w * p + k
    BY Divides
  <1> HIDE DEF p, k
  <1>2. p = q
    <2>1. CASE p > q
      <3>1. w * p >= w * q + w
        BY <1>1, <2>1, SMT
      <3> QED  BY <3>1, <1>1, SMT
    <2>2. CASE q > p
      <3>1. w * q >= w * p + w
        BY <1>1, <2>2, SMT
      <3> QED  BY <3>1, <1>1, SMT
    <2> QED  BY <2>1, <2>2, <1>1
  <1>3. k = r
    BY <1>1, <1>2, SMT
  <1> QED  BY <1>2, <1>3 DEF p, k

\* The bit fed to a register whose lowest part holds only its lowest bit.
Fed(l) == (l + (l \div 2)) % 2

LEMMA LastBitFeeds ==
    ASSUME NEW l \in Nat, NEW h \in Nat \ {0}, l % (4 * h) = 1 PROVE Fed(l) = 1
  <1> DEFINE q == l \div (4 * h)
  <1>1. 4 * h \in Nat \ {0} /\ 2 * h \in Nat
    OBVIOUS
  <1>2. q \in Nat /\ l = (4 * h) * q + 1
    BY <1>1, Divides
  <1> HIDE DEF q
  <1>3. h * q \in Nat /\ (4 * h) * q = 4 * (h * q)
    BY <1>2, SMT
  <1> DEFINE n == h * q
  <1>4. n \in Nat /\ l = 4 * n + 1
    BY <1>2, <1>3
  <1> HIDE DEF n
  <1>5. l \div 2 = 2 * n
    BY <1>4
  <1>6. (l + (l \div 2)) % 2 = 1
    <2>1. l + (l \div 2) = 6 * n + 1
      BY <1>4, <1>5
    <2> QED  BY <1>4, <2>1
  <1> QED  BY <1>6 DEF Fed

\* A bit put above the lowest part, and the whole shifted down.
Put(f, w, v) == (f - ((f \div w) % 2) * w) + (v * w)

LEMMA PutFits ==
    ASSUME NEW f \in Nat, NEW w \in Nat \ {0}, NEW v \in {0, 1}
    PROVE  \E s \in Nat : Put(f, w, v) = w * (2 * s + v) + (f % w)
  <1> DEFINE q == f \div w
             r == f % w
             s == q \div 2
             e == q % 2
  <1>1. q \in Nat /\ r \in 0..(w - 1) /\ f = w * q + r
    BY Divides
  <1>2. s \in Nat /\ e \in 0..1 /\ q = 2 * s + e
    <2> HIDE DEF q, r
    <2> QED  BY <1>1
  <1>3. Put(f, w, v) = (f - e * w) + v * w
    BY DEF Put
  <1> HIDE DEF q, r, s, e
  <1>4. w * q = w * (2 * s) + w * e
    BY <1>1, <1>2, SMT
  <1>5. w * (2 * s + v) = w * (2 * s) + w * v /\ e * w = w * e /\ v * w = w * v
    BY <1>1, <1>2, SMT
  <1>6. w * (2 * s) \in Int /\ w * e \in Int /\ w * v \in Int
    BY <1>1, <1>2, SMT
  <1>7. Put(f, w, v) = w * (2 * s + v) + r
    <2> DEFINE a == w * (2 * s)
               b == w * e
               c == w * v
    <2>1. a \in Int /\ b \in Int /\ c \in Int
      BY <1>6
    <2>2. f = a + b + r /\ Put(f, w, v) = (f - b) + c /\ w * (2 * s + v) = a + c
      BY <1>1, <1>3, <1>4, <1>5, Zenon
    <2> HIDE DEF a, b, c
    <2> QED  BY <1>1, <2>1, <2>2
  <1> QED  BY <1>2, <1>7 DEF r

\* What is shifted out leaves something behind: the lowest part of the
\* register had a bit above its lowest, or only that one, which is fed back.
LEMMA ShiftKeeps ==
    ASSUME NEW l \in Nat, NEW f \in Nat, NEW h \in Nat \ {0},
           l % (4 * h) # 0, f % (4 * h) = l % (4 * h)
    PROVE  /\ Put(f, 4 * h, Fed(l)) \in Nat
           /\ (Put(f, 4 * h, Fed(l)) \div 2) % (4 * h) # 0
  <1> DEFINE w == 4 * h
             r == l % w
             v == Fed(l)
             t == r \div 2
             u == r % 2
  <1>0. w \in Nat \ {0} /\ v \in {0, 1}
    BY DEF Fed
  <1>1. r \in 0..(w - 1) /\ r # 0
    <2>1. l % w \in 0..(w - 1)
      BY <1>0, Divides
    <2> QED  BY <2>1
  <1>2. PICK s \in Nat : Put(f, w, v) = w * (2 * s + v) + r
    <2> HIDE DEF w, v
    <2>1. \E s \in Nat : Put(f, w, v) = w * (2 * s + v) + (f % w)
      BY <1>0, PutFits
    <2>2. f % w = r
      BY DEF w
    <2> QED  BY <2>1, <2>2
  <1>3. t \in Nat /\ u \in 0..1 /\ r = 2 * t + u /\ t < 2 * h
    <2>1. r \in 0..(4 * h - 1)
      BY <1>1
    <2> HIDE DEF r, w
    <2> QED  BY <2>1
  <1>4. r = 1 => v = 1
    BY LastBitFeeds
  <1> HIDE DEF r, v, t, u
  <1> DEFINE n == 2 * h * s
             c == h * v
  <1>5. /\ w * (2 * s + v) = 4 * n + 4 * c
        /\ w * s = 2 * n
        /\ n \in Nat /\ c \in Nat /\ c = (IF v = 1 THEN h ELSE 0)
    <2>1. w * (2 * s + v) = 4 * n + 4 * c
      BY <1>0, SMT
    <2>2. w * s = 2 * n /\ n \in Nat /\ c \in Nat
      BY <1>0, SMT
    <2>3. c = (IF v = 1 THEN h ELSE 0)
      BY <1>0
    <2> QED  BY <2>1, <2>2, <2>3
  <1> DEFINE m == t + 2 * c
  <1>6. m \in 0..(w - 1) /\ m # 0
    <2> HIDE DEF c
    <2> QED  BY <1>0, <1>1, <1>3, <1>4, <1>5
  <1>7. Put(f, w, v) \in Nat /\ Put(f, w, v) \div 2 = w * s + m
    <2> HIDE DEF n, c
    <2>1. Put(f, w, v) = 4 * n + 4 * c + r /\ w * s = 2 * n
      BY <1>2, <1>5, Zenon
    <2> HIDE DEF w
    <2> QED  BY <2>1, <1>3, <1>5
  <1>8. w * s + m \in Nat /\ s \in Nat
    <2> HIDE DEF n, c, m, w
    <2> QED  BY <1>5, <1>6
  <1>9. (w * s + m) % w = m
    <2> HIDE DEF m, w
    <2> QED  BY <1>0, <1>6, <1>8, Unique
  <1> QED  BY <1>6, <1>7, <1>9 DEF v

\* Both widths are multiples of four, and the long one of the short one.
LEMMA Widths ==
    /\ 2^Bits \in Nat \ {0} /\ 2^ShortBits \in Nat \ {0}
    /\ \E h \in Nat \ {0} : 2^ShortBits = 4 * h
    /\ \E h \in Nat \ {0} : 2^Bits = 4 * h
    /\ \E k \in Nat \ {0} : 2^Bits = 2^ShortBits * k
  <1>1. Bits \in Nat /\ ShortBits \in Nat /\ 2 <= ShortBits /\ ShortBits < Bits
    BY NoiseAssumption
  <1>2. ASSUME NEW b \in Nat, 2 <= b PROVE \E h \in Nat \ {0} : 2^b = 4 * h
    <2>1. b - 2 \in Nat /\ 1 + (b - 2) + 1 = b /\ 2 * 2^1 = 4
      BY <1>2
    <2>2. \E k \in Nat \ {0} : 2^(1 + (b - 2) + 1) = (2 * 2^1) * k
      BY <2>1, 1 \in Nat, PowerDivides
    <2> QED  BY <2>1, <2>2, Zenon
  <1>3. \E k \in Nat \ {0} : 2^Bits = 2^ShortBits * k
    <2> DEFINE d == Bits - ShortBits - 1
    <2>1. d \in Nat /\ ShortBits + d + 1 = Bits
      BY <1>1
    <2>2. PICK k \in Nat \ {0} : 2^(ShortBits + d + 1) = (2 * 2^ShortBits) * k
      <3> HIDE DEF d
      <3> QED  BY <1>1, <2>1, PowerDivides
    <2>3. 2^Bits = (2 * 2^ShortBits) * k
      BY <2>1, <2>2, Zenon
    <2> DEFINE p == 2^ShortBits
    <2>4. p \in Nat
      BY <1>1, PowerPositive
    <2> HIDE DEF p
    <2>5. (2 * p) * k = p * (2 * k) /\ 2 * k \in Nat \ {0}
      BY <2>4
    <2>6. 2^Bits = 2^ShortBits * (2 * k)
      BY <2>3, <2>5, Zenon DEF p
    <2>7. 2 * k \in Nat \ {0}
      OBVIOUS
    <2> QED  BY <2>6, <2>7, Zenon
  <1>4. 2^Bits \in Nat \ {0} /\ 2^ShortBits \in Nat \ {0}
    BY <1>1, PowerPositive
  <1>5. 2 <= Bits
    BY <1>1
  <1> QED  BY <1>1, <1>2, <1>3, <1>4, <1>5, Zenon

\* What the short width leaves, the long one leaves too.
LEMMA ShortInLong ==
    ASSUME NEW l \in Nat, l % 2^ShortBits # 0 PROVE l % 2^Bits # 0
  <1> DEFINE w == 2^ShortBits
             p == 2^Bits
  <1>1. w \in Nat \ {0} /\ p \in Nat \ {0} /\ \E k \in Nat \ {0} : p = w * k
    BY Widths
  <1> HIDE DEF w, p
  <1>2. SUFFICES ASSUME l % p = 0 PROVE l % w = 0
    BY DEF w, p
  <1>3. PICK k \in Nat \ {0} : p = w * k
    BY <1>1
  <1> DEFINE q == l \div p
  <1>4. q \in Nat /\ l = p * q
    <2>1. q \in Nat /\ l = p * q + (l % p)
      BY <1>1, Divides
    <2> HIDE DEF q
    <2>2. p * q \in Nat
      BY <1>1, <2>1, SMT
    <2> QED  BY <1>2, <2>1, <2>2
  <1> HIDE DEF q
  <1>5. l = w * (k * q) /\ k * q \in Nat
    BY <1>1, <1>3, <1>4, SMT
  <1> DEFINE n == k * q
  <1>6. n \in Nat /\ l = w * n + 0 /\ 0 \in 0..(w - 1)
    BY <1>1, <1>5
  <1> HIDE DEF n
  <1> QED  BY <1>1, <1>6, Unique

\* Putting a bit above the short width leaves what is below.
LEMMA PutAbove ==
    ASSUME NEW l \in Nat, NEW v \in {0, 1}
    PROVE  /\ Put(l, 2^Bits, v) \in Nat
           /\ Put(l, 2^Bits, v) % 2^ShortBits = l % 2^ShortBits
  <1> DEFINE w == 2^ShortBits
             p == 2^Bits
  <1>1. w \in Nat \ {0} /\ p \in Nat \ {0} /\ \E k \in Nat \ {0} : p = w * k
    BY Widths
  <1> HIDE DEF w, p
  <1>2. PICK k \in Nat \ {0} : p = w * k
    BY <1>1
  <1>3. PICK s \in Nat : Put(l, p, v) = p * (2 * s + v) + (l % p)
    BY <1>1, PutFits
  <1> DEFINE q == l \div p
             r == l % p
             a == r \div w
             z == r % w
  <1>4. q \in Nat /\ r \in Nat /\ l = p * q + r
    <2>1. q \in Nat /\ r \in 0..(p - 1) /\ l = p * q + r
      BY <1>1, Divides, Zenon
    <2> QED  BY <1>1, <2>1
  <1>5. a \in Nat /\ z \in 0..(w - 1) /\ r = w * a + z
    <2> HIDE DEF r
    <2> QED  BY <1>1, <1>4, Divides
  <1>6. Put(l, p, v) = p * (2 * s + v) + r
    BY <1>3
  <1> HIDE DEF q, r, a, z
  <1> DEFINE n == k * (2 * s + v) + a
             m == k * q + a
  <1>7. n \in Nat /\ m \in Nat
    <2>1. 2 * s + v \in Nat
      OBVIOUS
    <2> QED  BY <2>1, <1>4, <1>5, SMT
  <1>8. Put(l, p, v) = w * n + z
    <2> DEFINE x == 2 * s + v
    <2>1. x \in Nat
      OBVIOUS
    <2> HIDE DEF x
    <2>2. p * x = w * (k * x) /\ w * (k * x + a) = w * (k * x) + w * a /\ w * (k * x) \in Nat
      BY <1>1, <1>2, <1>5, <2>1, SMT
    <2>3. w * a \in Nat
      BY <1>1, <1>5, SMT
    <2>4. Put(l, p, v) = p * x + (w * a + z)
      BY <1>5, <1>6 DEF x
    <2>5. w * n = w * (k * x) + w * a
      BY <2>2 DEF x
    <2> HIDE DEF n
    <2> QED  BY <1>1, <1>5, <2>2, <2>3, <2>4, <2>5
  <1>9. l = w * m + z
    <2>1. p * q = w * (k * q) /\ w * (k * q + a) = w * (k * q) + w * a
      BY <1>1, <1>2, <1>4, <1>5, SMT
    <2>2. w * (k * q) \in Nat /\ w * a \in Nat
      BY <1>1, <1>2, <1>4, <1>5, SMT
    <2>3. l = p * q + (w * a + z) /\ w * m = w * (k * q) + w * a
      BY <1>4, <1>5, <2>1
    <2> HIDE DEF m
    <2> QED  BY <1>1, <1>5, <2>1, <2>2, <2>3
  <1> HIDE DEF n, m
  <1>10. Put(l, p, v) \in Nat
    BY <1>1, <1>5, <1>7, <1>8, SMT
  <1>11. Put(l, p, v) % w = z /\ l % w = z
    BY <1>1, <1>5, <1>7, <1>8, <1>9, <1>10, Unique
  <1> QED  BY <1>10, <1>11 DEF w, p

-----------------------------------------------------------------------------
(* The noise channel. *)

\* A channel's steps leave it the one it is.
LEMMA ChannelKept == Next => channel' = channel
  BY DEF Next, Write, IncreaseDiv, WriteSweep, WriteLength, WriteEnvelope, WriteLow, WriteControl,
     Trigger, registers

\* The part of the register in use holds a bit.
Holds(l, short) == (short => l % 2^ShortBits # 0) /\ (~short => l % 2^Bits # 0)

LEMMA SeedHolds == Seed \in Nat /\ \A short \in BOOLEAN : Holds(Seed, short)
  <1> DEFINE w == 2^ShortBits
             p == 2^Bits
  <1>1. p \in Nat \ {0} /\ w \in Nat \ {0} /\ \E h \in Nat \ {0} : w = 4 * h
    BY Widths
  <1> HIDE DEF w, p
  <1>2. PICK h \in Nat \ {0} : w = 4 * h
    BY <1>1
  <1>3. \E k \in Nat \ {0} : p = w * k
    BY Widths DEF w, p
  <1>4. PICK k \in Nat \ {0} : p = w * k
    BY <1>3
  <1>5. p - 1 \in Nat
    BY <1>1
  <1>6. (p - 1) % w = w - 1
    <2>1. w * (k - 1) = w * k - w /\ k - 1 \in Nat
      BY <1>1, SMT
    <2>2. w * k \in Nat
      BY <1>1, SMT
    <2>3. p - 1 = w * (k - 1) + (w - 1) /\ w - 1 \in 0..(w - 1)
      BY <1>1, <1>4, <2>1, <2>2
    <2> QED  BY <1>1, <1>5, <2>1, <2>3, Unique
  <1>7. w - 1 # 0
    BY <1>2
  <1>8. (p - 1) % w # 0
    BY <1>6, <1>7
  <1>9. (p - 1) % p # 0
    BY <1>5, <1>8, ShortInLong DEF w, p
  <1> QED  BY <1>5, <1>8, <1>9, Zenon DEF Seed, Holds, w, p

LEMMA StepHolds ==
    ASSUME lfsr \in Nat, noise.short \in BOOLEAN
    PROVE  Stepped \in Nat /\ (Holds(lfsr, noise.short) => Holds(Stepped, noise.short))
  <1> DEFINE v == Fed(lfsr)
             f == Put(lfsr, 2^Bits, v)
  <1>1. v \in {0, 1}
    BY DEF Fed
  <1>2. f \in Nat /\ f % 2^ShortBits = lfsr % 2^ShortBits
    <2> HIDE DEF v
    <2> QED  BY <1>1, PutAbove
  <1>3. Stepped = (IF noise.short THEN Put(f, 2^ShortBits, v) ELSE f) \div 2
    BY Zenon DEF Stepped, SetBit, Put, Fed
  <1>4. ASSUME NEW g \in Nat PROVE g \div 2 \in Nat
    OBVIOUS
  <1>5. ASSUME NEW w \in Nat \ {0}, NEW g \in Nat PROVE Put(g, w, v) \in Nat
    <2>1. PICK s \in Nat : Put(g, w, v) = w * (2 * s + v) + (g % w)
      <3> HIDE DEF v, f
      <3> QED  BY <1>1, PutFits
    <2> HIDE DEF v, f
    <2>2. 2 * s + v \in Nat /\ g % w \in Nat
      BY <1>1, Divides
    <2>3. w * (2 * s + v) \in Nat
      BY <2>2, SMT
    <2> QED  BY <2>1, <2>2, <2>3
  <1>6. Stepped \in Nat
    <2> HIDE DEF v, f
    <2>1. Put(f, 2^ShortBits, v) \in Nat
      BY <1>2, <1>5, Widths
    <2> QED  BY <1>2, <1>3, <1>4, <2>1
  <1>7. ASSUME noise.short, lfsr % 2^ShortBits # 0 PROVE Stepped % 2^ShortBits # 0
    <2>1. PICK h \in Nat \ {0} : 2^ShortBits = 4 * h
      BY Widths
    <2>2. lfsr % (4 * h) # 0 /\ f % (4 * h) = lfsr % (4 * h)
      BY <1>2, <1>7, <2>1, Zenon
    <2>3. (Put(f, 4 * h, v) \div 2) % (4 * h) # 0
      <3> HIDE DEF f
      <3> QED  BY <1>2, <2>2, ShiftKeeps
    <2>4. Stepped = Put(f, 2^ShortBits, v) \div 2
      BY <1>3, <1>7, Zenon
    <2> HIDE DEF v, f
    <2> QED  BY <2>1, <2>3, <2>4, Zenon
  <1>8. ASSUME ~noise.short, lfsr % 2^Bits # 0 PROVE Stepped % 2^Bits # 0
    <2>1. PICK h \in Nat \ {0} : 2^Bits = 4 * h
      BY Widths
    <2>2. lfsr % (4 * h) # 0
      BY <1>8, <2>1, Zenon
    <2>3. (Put(lfsr, 4 * h, v) \div 2) % (4 * h) # 0
      BY <2>2, ShiftKeeps
    <2>4. Stepped = Put(lfsr, 2^Bits, v) \div 2
      BY <1>3, <1>8, Zenon
    <2> HIDE DEF v, f
    <2> QED  BY <2>1, <2>3, <2>4, Zenon
  <1> QED  BY <1>6, <1>7, <1>8 DEF Holds

\* What the noise keeps: its register holds a bit, and its timer fits.
Alive ==
    /\ lfsr \in Nat
    /\ noise \in Noise
    /\ narrowed \in BOOLEAN /\ overflowed \in BOOLEAN
    /\ ~narrowed => Holds(lfsr, noise.short)
    /\ IsNoise /\ ~overflowed => timer \in 1..(PeriodRange - 1)

LEMMA AliveNoise == Alive => NoiseAlive
  <1> SUFFICES ASSUME Alive PROVE NoiseAlive
    OBVIOUS
  <1>1. noise.short \in BOOLEAN
    BY DEF Alive, Noise
  <1>2. ~narrowed => lfsr % 2^(IF noise.short THEN ShortBits ELSE Bits) # 0
    BY <1>1, Zenon DEF Alive, Holds
  <1> QED  BY <1>2, Zenon DEF Alive, NoiseAlive

LEMMA ExactPositive == \A n \in Noise : Exact(n) \in Nat \ {0}
  <1> SUFFICES ASSUME NEW n \in Noise PROVE Exact(n) \in Nat \ {0}
    OBVIOUS
  <1> DEFINE base == IF n.divider = 0 THEN NoiseBase ELSE 2 * NoiseBase * n.divider
             scale == 2^n.shift
  <1>1. base \in Nat \ {0}
    <2>1. NoiseBase \in Nat \ {0} /\ n.divider \in 0..7
      BY NoiseAssumption DEF Noise
    <2>2. 2 * NoiseBase * n.divider \in Nat
      BY <2>1, SMT
    <2>3. n.divider # 0 => 2 * NoiseBase * n.divider # 0
      BY <2>1, SMT
    <2> QED  BY <2>1, <2>2, <2>3
  <1>2. scale \in Nat \ {0}
    <2>1. n.shift \in Nat
      BY DEF Noise
    <2> QED  BY <2>1, PowerPositive
  <1>3. Exact(n) = base * scale
    BY Zenon DEF Exact
  <1> HIDE DEF base, scale
  <1> QED  BY <1>1, <1>2, <1>3, SMT

LEMMA LoadFits ==
    ASSUME NEW n \in Noise, NEW t, NEW o, t = TimerPeriod(n), o = (Exact(n) >= PeriodRange)
    PROVE  o \in BOOLEAN /\ (~o => t \in 1..(PeriodRange - 1))
  <1> DEFINE e == Exact(n)
  <1>1. e \in Nat \ {0} /\ PeriodRange \in Nat \ {0}
    BY ExactPositive, NoiseAssumption
  <1> HIDE DEF e
  <1>2. o \in BOOLEAN
    OBVIOUS
  <1>3. ASSUME ~o PROVE t \in 1..(PeriodRange - 1)
    <2>1. e < PeriodRange
      <3>1. ~(e >= PeriodRange)
        BY <1>3, Zenon DEF e
      <3> QED  BY <1>1, <3>1
    <2>2. e % PeriodRange = e
      BY <1>1, <2>1
    <2>3. t = e
      BY <2>2 DEF TimerPeriod, e
    <2> QED  BY <1>1, <2>1, <2>3
  <1> QED  BY <1>2, <1>3, Zenon

LEMMA AliveInit == NoiseInit => Alive
  <1> SUFFICES ASSUME NoiseInit PROVE Alive
    OBVIOUS
  <1>1. noise \in Noise /\ noise.short = FALSE /\ narrowed = FALSE
    BY DEF NoiseInit, Noise
  <1>2. lfsr \in Nat /\ Holds(lfsr, noise.short)
    BY <1>1, SeedHolds DEF NoiseInit
  <1>3. ASSUME IsNoise PROVE overflowed \in BOOLEAN /\ (~overflowed => timer \in 1..(PeriodRange - 1))
    <2>1. PICK n \in Noises : timer = TimerPeriod(n) /\ overflowed = (Exact(n) >= PeriodRange)
      BY <1>3 DEF NoiseInit
    <2>2. n \in Noise
      BY NoiseAssumption
    <2> QED  BY <2>1, <2>2, LoadFits
  <1>4. ~IsNoise => overflowed = FALSE
    BY Zenon DEF NoiseInit
  <1>5. overflowed \in BOOLEAN
    BY <1>3, <1>4
  <1> QED  BY <1>1, <1>2, <1>3, <1>5, Zenon DEF Alive

LEMMA TickAlive == Alive /\ Tick => Alive'
  <1> SUFFICES ASSUME Alive, Tick PROVE Alive'
    OBVIOUS
  <1>0. noise' = noise /\ narrowed' = narrowed /\ IsNoise
    BY DEF Tick
  <1>1. noise.short \in BOOLEAN /\ noise \in Noise /\ lfsr \in Nat
    BY DEF Alive, Noise
  <1>2. CASE timer = 1
    <2>1. lfsr' = Stepped /\ Load(noise)
      BY <1>2 DEF Tick
    <2>2. lfsr' \in Nat /\ (~narrowed' => Holds(lfsr', noise'.short))
      BY <1>0, <1>1, <2>1, StepHolds, Zenon DEF Alive
    <2>3. overflowed' \in BOOLEAN /\ (~overflowed' => timer' \in 1..(PeriodRange - 1))
      BY <1>1, <2>1, LoadFits DEF Load
    <2> QED  BY <1>0, <2>2, <2>3, Zenon DEF Alive
  <1>3. CASE timer # 1
    <2>1. timer' = (timer - 1) % TimerRange /\ lfsr' = lfsr /\ overflowed' = overflowed
      BY <1>3 DEF Tick
    <2>2. ASSUME ~overflowed PROVE timer' \in 1..(PeriodRange - 1)
      <3>1. timer \in 1..(PeriodRange - 1)
        BY <1>0, <2>2 DEF Alive
      <3>2. PeriodRange \in Nat /\ TimerRange \in Nat \ {0} /\ PeriodRange <= TimerRange
        BY NoiseAssumption
      <3>3. timer - 1 \in 1..(PeriodRange - 2) /\ timer - 1 < TimerRange
        BY <1>3, <3>1, <3>2
      <3>4. (timer - 1) % TimerRange = timer - 1
        BY <3>2, <3>3
      <3> QED  BY <2>1, <3>2, <3>3, <3>4
    <2> QED  BY <1>0, <2>1, <2>2, Zenon DEF Alive
  <1> QED  BY <1>2, <1>3

\* NR43 may widen the register; if it narrows it, that is remembered.
LEMMA WriteNoiseAlive == Alive /\ WriteNoise => Alive'
  <1> SUFFICES ASSUME Alive, WriteNoise PROVE Alive'
    OBVIOUS
  <1>1. /\ noise' \in Noise /\ noise.short \in BOOLEAN /\ noise'.short \in BOOLEAN
    BY NoiseAssumption DEF WriteNoise, Alive, Noise
  <1>2. narrowed' \in BOOLEAN /\ (~narrowed' => ~narrowed /\ ~(noise'.short /\ ~noise.short))
    BY Zenon DEF WriteNoise, Alive
  <1>3. ~narrowed' => Holds(lfsr, noise'.short)
    <2> SUFFICES ASSUME ~narrowed' PROVE Holds(lfsr, noise'.short)
      OBVIOUS
    <2>1. Holds(lfsr, noise.short) /\ lfsr \in Nat
      BY <1>2 DEF Alive
    <2>2. lfsr % 2^ShortBits # 0 => lfsr % 2^Bits # 0
      BY <2>1, ShortInLong
    <2> QED  BY <1>1, <1>2, <2>1, <2>2, Zenon DEF Holds
  <1>4. /\ lfsr' = lfsr /\ overflowed' = overflowed /\ timer' = timer /\ channel' = channel
    BY DEF WriteNoise, vars, registers
  <1>5. IsNoise' <=> IsNoise
    BY <1>4 DEF IsNoise
  <1> QED  BY <1>1, <1>2, <1>3, <1>4, <1>5, Zenon DEF Alive

LEMMA TriggerAlive == Alive /\ NoiseTrigger => Alive'
  <1> SUFFICES ASSUME Alive, NoiseTrigger PROVE Alive'
    OBVIOUS
  <1>1. channel' = channel
    BY DEF NoiseTrigger, Trigger
  <1>2. CASE IsNoise
    <2>1. lfsr' = Seed /\ Load(noise) /\ narrowed' = FALSE /\ noise' = noise
      BY <1>2 DEF NoiseTrigger, Reseeded
    <2>2. noise \in Noise /\ noise.short \in BOOLEAN
      BY DEF Alive, Noise
    <2>3. lfsr' \in Nat /\ Holds(lfsr', noise'.short)
      BY <2>1, <2>2, SeedHolds, Zenon
    <2>4. overflowed' \in BOOLEAN /\ (~overflowed' => timer' \in 1..(PeriodRange - 1))
      BY <2>1, <2>2, LoadFits DEF Load
    <2> QED  BY <2>1, <2>2, <2>3, <2>4, Zenon DEF Alive
  <1>3. CASE ~IsNoise
    <2>1. UNCHANGED noiseVars
      BY <1>3 DEF NoiseTrigger
    <2> QED  BY <1>1, <2>1 DEF noiseVars, Alive, IsNoise
  <1> QED  BY <1>2, <1>3

LEMMA AliveStep == Alive /\ [NoiseNext]_allVars => Alive'
  <1> SUFFICES ASSUME Alive, [NoiseNext]_allVars PROVE Alive'
    OBVIOUS
  <1>1. CASE UNCHANGED noiseVars /\ channel' = channel
    BY <1>1 DEF noiseVars, Alive, IsNoise
  <1>2. ASSUME Next PROVE channel' = channel
    BY <1>2, ChannelKept
  <1>3. UNCHANGED allVars => UNCHANGED noiseVars /\ channel' = channel
    BY DEF allVars, vars, registers
  <1> QED
    BY <1>1, <1>2, <1>3, TickAlive, WriteNoiseAlive, TriggerAlive DEF NoiseNext, Next, Write

(* The noise never dies: however writes, triggers and steps interleave,    *)
(* the part of the register in use holds a bit, unless it was made short   *)
(* while it ran, and its clock does not stall, unless the period did not   *)
(* fit (NoiseAlive).                                                       *)
THEOREM NoiseNeverDies == NoiseSpec => []NoiseAlive
  <1> QED  BY AliveInit, AliveStep, AliveNoise, PTL DEF NoiseSpec

(* The noise channel is a channel: what the other theorems say holds of it.*)
THEOREM NoiseIsAChannel == NoiseSpec => Spec
  <1>1. NoiseInit => Init
    BY DEF NoiseInit
  <1>2. [NoiseNext]_allVars => [Next]_vars
    BY DEF NoiseNext, Tick, WriteNoise, NoiseTrigger, Next, Write, allVars
  <1> QED  BY <1>1, <1>2, PTL DEF NoiseSpec, Spec
=============================================================================
