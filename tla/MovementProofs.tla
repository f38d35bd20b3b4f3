----------------------------- MODULE MovementProofs -----------------------------
(***************************************************************************)
(* Proofs about Movement, for any parts that are given together, any       *)
(* values and as many updates of an interval as the header can count: its  *)
(* types, that a packet gives the parts of its interval and no others and  *)
(* when it says more than was given, that the packets of a batch are told  *)
(* apart, and that an interval with one complete frame is sent.            *)
(*                                                                         *)
(* They rest on what the header is: a bit for each part that was given     *)
(* since the buffer was cleared and, above these, the number of updates    *)
(* that found a limb.                                                      *)
(***************************************************************************)
EXTENDS Movement, WellFoundedInduction, NaturalsInduction, SequenceTheorems,
        FiniteSetTheorems, TLAPS

Weight(S, n) == IF n \in S THEN Bit[n] ELSE 0

Digit(S, n) == IF n \in S THEN 1 ELSE 0

\* The header after the parts S were given, and a limb was found k times.
Word(S, k) ==
    Weight(S, "basePos") + Weight(S, "baseRot")
        + Weight(S, "headPos") + Weight(S, "headRot")
        + Weight(S, "leftHandPos") + Weight(S, "leftHandRot")
        + Weight(S, "rightHandPos") + Weight(S, "rightHandRot")
        + Weight(S, "gamePiecePos") + Weight(S, "gamePieceRot")
        + 1024 * k

\* The header tells what was given, and how often a limb was found.
HeaderTells == header = Word(GivenIn(given), Cardinality(LimbUpdates(given)))

\* The buffer holds what was given last.
BufferHolds == \A n \in Names : buffer[n] = LastGiven(given, n)

\* The inductive invariant.
IInv ==
    /\ TypeOK
    /\ HeaderTells
    /\ BufferHolds
    /\ PacketIsItsInterval
    /\ BatchIsToldApart

-----------------------------------------------------------------------------
(* The header as a number.                                                 *)

\* The ten parts by name.
LEMMA TenNames ==
    Names = {"basePos", "baseRot", "headPos", "headRot", "leftHandPos", "leftHandRot",
             "rightHandPos", "rightHandRot", "gamePiecePos", "gamePieceRot"}
BY DEF Names, Bit

\* Their bits.
LEMMA TenBits ==
    /\ Bit["basePos"] = 1 /\ Bit["baseRot"] = 2 /\ Bit["headPos"] = 4 /\ Bit["headRot"] = 8
    /\ Bit["leftHandPos"] = 16 /\ Bit["leftHandRot"] = 32
    /\ Bit["rightHandPos"] = 64 /\ Bit["rightHandRot"] = 128
    /\ Bit["gamePiecePos"] = 256 /\ Bit["gamePieceRot"] = 512
BY DEF Bit

\* What they count for.
LEMMA TenWeights ==
    ASSUME NEW S
    PROVE  /\ Weight(S, "basePos") \in {0, 1} /\ Weight(S, "baseRot") \in {0, 2}
           /\ Weight(S, "headPos") \in {0, 4} /\ Weight(S, "headRot") \in {0, 8}
           /\ Weight(S, "leftHandPos") \in {0, 16} /\ Weight(S, "leftHandRot") \in {0, 32}
           /\ Weight(S, "rightHandPos") \in {0, 64} /\ Weight(S, "rightHandRot") \in {0, 128}
           /\ Weight(S, "gamePiecePos") \in {0, 256} /\ Weight(S, "gamePieceRot") \in {0, 512}
           /\ \A n \in Names : Weight(S, n) \in Nat /\ (Weight(S, n) = 0 <=> n \notin S)
BY TenNames, TenBits DEF Weight

\* The header in the digits of its parts.
LEMMA WordSum ==
    ASSUME NEW S, NEW k \in Nat
    PROVE  /\ Word(S, k) = Digit(S, "basePos") + 2 * Digit(S, "baseRot")
                  + 4 * Digit(S, "headPos") + 8 * Digit(S, "headRot")
                  + 16 * Digit(S, "leftHandPos") + 32 * Digit(S, "leftHandRot")
                  + 64 * Digit(S, "rightHandPos") + 128 * Digit(S, "rightHandRot")
                  + 256 * Digit(S, "gamePiecePos") + 512 * Digit(S, "gamePieceRot")
                  + 1024 * k
           /\ \A n : Digit(S, n) \in 0..1 /\ (Digit(S, n) = 1 <=> n \in S)
BY TenBits DEF Word, Weight, Digit

\* A bit is set when its part was given, fullPacket when a limb was found an odd
\* number of times, and the bit behind it as the sum of fullPacket has it.
LEMMA WordHas ==
    ASSUME NEW S, NEW k \in Nat
    PROVE  /\ \A n \in Names : Has(Word(S, k), n) <=> n \in S
           /\ HasBit(Word(S, k), FullPacket) <=> k % 2 = 1
           /\ HasBit(Word(S, k), Frequent) <=> (k \div 2) % 2 = 1
<1>0. /\ Digit(S, "basePos") \in 0..1 /\ Digit(S, "baseRot") \in 0..1
      /\ Digit(S, "headPos") \in 0..1 /\ Digit(S, "headRot") \in 0..1
      /\ Digit(S, "leftHandPos") \in 0..1 /\ Digit(S, "leftHandRot") \in 0..1
      /\ Digit(S, "rightHandPos") \in 0..1 /\ Digit(S, "rightHandRot") \in 0..1
      /\ Digit(S, "gamePiecePos") \in 0..1 /\ Digit(S, "gamePieceRot") \in 0..1
  BY WordSum
<1>1. PICK a \in 0..1, b \in 0..1, c \in 0..1, d \in 0..1, e \in 0..1,
           f \in 0..1, g \in 0..1, h \in 0..1, i \in 0..1, j \in 0..1 :
          /\ a = Digit(S, "basePos") /\ b = Digit(S, "baseRot")
          /\ c = Digit(S, "headPos") /\ d = Digit(S, "headRot")
          /\ e = Digit(S, "leftHandPos") /\ f = Digit(S, "leftHandRot")
          /\ g = Digit(S, "rightHandPos") /\ h = Digit(S, "rightHandRot")
          /\ i = Digit(S, "gamePiecePos") /\ j = Digit(S, "gamePieceRot")
  BY <1>0
<1> DEFINE r10 == k
           r9 == j + 2*r10
           r8 == i + 2*r9
           r7 == h + 2*r8
           r6 == g + 2*r7
           r5 == f + 2*r6
           r4 == e + 2*r5
           r3 == d + 2*r4
           r2 == c + 2*r3
           r1 == b + 2*r2
           r0 == a + 2*r1
           w == a + 2*b + 4*c + 8*d + 16*e + 32*f + 64*g + 128*h + 256*i + 512*j + 1024*k
<1>2. /\ r10 \in Nat /\ r9 \in Nat /\ r8 \in Nat /\ r7 \in Nat /\ r6 \in Nat /\ r5 \in Nat
      /\ r4 \in Nat /\ r3 \in Nat /\ r2 \in Nat /\ r1 \in Nat /\ r0 \in Nat
  OBVIOUS
<1>3. /\ w \div 1 = r0 /\ w \div 2 = r1 /\ w \div 4 = r2 /\ w \div 8 = r3
      /\ w \div 16 = r4 /\ w \div 32 = r5 /\ w \div 64 = r6 /\ w \div 128 = r7
      /\ w \div 256 = r8 /\ w \div 512 = r9 /\ w \div 1024 = r10
  OBVIOUS
<1>10. w \div 2048 = k \div 2
  <2>1. PICK q \in Nat, m \in 0..1 : k = 2*q + m
    <3>1. k \div 2 \in Nat /\ k % 2 \in 0..1 /\ k = 2 * (k \div 2) + (k % 2)
      OBVIOUS
    <3> QED
      BY <3>1
  <2>2. k \div 2 = q
    BY <2>1
  <2> DEFINE low == a + 2*b + 4*c + 8*d + 16*e + 32*f + 64*g + 128*h + 256*i + 512*j
  <2>3. low \in 0..1023
    OBVIOUS
  <2>4. w = low + 1024 * m + 2048 * q
    BY <2>1
  <2> HIDE DEF low, w
  <2>5. w \div 2048 = q
    BY <2>1, <2>3, <2>4
  <2> QED
    BY <2>2, <2>5
<1>4. /\ r0 = a + 2*r1 /\ r1 = b + 2*r2 /\ r2 = c + 2*r3 /\ r3 = d + 2*r4
      /\ r4 = e + 2*r5 /\ r5 = f + 2*r6 /\ r6 = g + 2*r7 /\ r7 = h + 2*r8
      /\ r8 = i + 2*r9 /\ r9 = j + 2*r10 /\ r10 = k
  OBVIOUS
<1>5. w = Word(S, k)
  BY <1>1, WordSum
<1> HIDE DEF r0, r1, r2, r3, r4, r5, r6, r7, r8, r9, r10, w
<1>6. ASSUME NEW x \in 0..1, NEW y \in Nat
      PROVE  (x + 2*y) % 2 = x
  OBVIOUS
<1>7. /\ r0 % 2 = a /\ r1 % 2 = b /\ r2 % 2 = c /\ r3 % 2 = d /\ r4 % 2 = e
      /\ r5 % 2 = f /\ r6 % 2 = g /\ r7 % 2 = h /\ r8 % 2 = i /\ r9 % 2 = j
  BY <1>2, <1>4, <1>6
<1>8. /\ a = 1 <=> "basePos" \in S
      /\ b = 1 <=> "baseRot" \in S
      /\ c = 1 <=> "headPos" \in S
      /\ d = 1 <=> "headRot" \in S
      /\ e = 1 <=> "leftHandPos" \in S
      /\ f = 1 <=> "leftHandRot" \in S
      /\ g = 1 <=> "rightHandPos" \in S
      /\ h = 1 <=> "rightHandRot" \in S
      /\ i = 1 <=> "gamePiecePos" \in S
      /\ j = 1 <=> "gamePieceRot" \in S
  <2>1. \A n : Digit(S, n) = 1 <=> n \in S
    BY DEF Digit
  <2> QED
    BY <1>1, <2>1, Zenon
<1>9. /\ HasBit(w, 1) <=> "basePos" \in S
      /\ HasBit(w, 2) <=> "baseRot" \in S
      /\ HasBit(w, 4) <=> "headPos" \in S
      /\ HasBit(w, 8) <=> "headRot" \in S
      /\ HasBit(w, 16) <=> "leftHandPos" \in S
      /\ HasBit(w, 32) <=> "leftHandRot" \in S
      /\ HasBit(w, 64) <=> "rightHandPos" \in S
      /\ HasBit(w, 128) <=> "rightHandRot" \in S
      /\ HasBit(w, 256) <=> "gamePiecePos" \in S
      /\ HasBit(w, 512) <=> "gamePieceRot" \in S
      /\ HasBit(w, 1024) <=> k % 2 = 1
      /\ HasBit(w, 2048) <=> (k \div 2) % 2 = 1
  BY <1>3, <1>4, <1>7, <1>8, <1>10 DEF HasBit
<1> QED
  BY <1>5, <1>9, TenNames, TenBits DEF Has, FullPacket, Frequent

\* The header stays positive, and within what one interval can add up to.
LEMMA WordRange ==
    ASSUME NEW S, NEW k \in 0..MaxUpdates
    PROVE  Word(S, k) \in Headers /\ 0 <= Word(S, k) /\ Word(S, k) < 32768
<1>1. MaxUpdates \in 1..31
  BY MovementAssumption
<1>2. PICK low \in 0..1023 : Word(S, k) = low + 1024 * k
  BY TenWeights DEF Word
<1>3. k \in Nat /\ k <= MaxUpdates /\ 1024 * k <= 1024 * MaxUpdates
  BY <1>1
<1> QED
  BY <1>1, <1>2, <1>3 DEF Headers, FullPacket

\* The cleared header is one.
LEMMA ZeroHeader == 0 \in Headers
BY MovementAssumption DEF Headers, FullPacket

\* The cleared header.
LEMMA EmptyWord == Word({}, 0) = 0
BY TenBits DEF Word, Weight

\* setInputHeaderBitIdempotently, for all parts of a frame.
LEMMA WordWithBits ==
    ASSUME NEW S, NEW T \in SUBSET Names, NEW k \in Nat
    PROVE  WithBits(Word(S, k), T) = Word(S \cup T, k)
<1> DEFINE Add(n) == IF n \in T /\ ~ Has(Word(S, k), n) THEN Bit[n] ELSE 0
<1>1. \A n \in Names : Weight(S \cup T, n) = Weight(S, n) + Add(n)
  <2> SUFFICES ASSUME NEW n \in Names
               PROVE  Weight(S \cup T, n) = Weight(S, n) + Add(n)
    OBVIOUS
  <2>1. Has(Word(S, k), n) <=> n \in S
    BY WordHas
  <2>2. Bit[n] \in Nat
    BY TenNames, TenBits
  <2> QED
    BY <2>1, <2>2 DEF Weight
<1>2. \A n \in Names : Weight(S, n) \in Nat /\ Add(n) \in Nat
  BY TenNames, TenBits DEF Weight
<1>3. WithBits(Word(S, k), T) =
          Word(S, k) + Add("basePos") + Add("baseRot") + Add("headPos") + Add("headRot")
             + Add("leftHandPos") + Add("leftHandRot")
             + Add("rightHandPos") + Add("rightHandRot")
             + Add("gamePiecePos") + Add("gamePieceRot")
  BY DEF WithBits
<1> HIDE DEF Add
<1>4. /\ Weight(S \cup T, "basePos") = Weight(S, "basePos") + Add("basePos")
      /\ Weight(S \cup T, "baseRot") = Weight(S, "baseRot") + Add("baseRot")
      /\ Weight(S \cup T, "headPos") = Weight(S, "headPos") + Add("headPos")
      /\ Weight(S \cup T, "headRot") = Weight(S, "headRot") + Add("headRot")
      /\ Weight(S \cup T, "leftHandPos") = Weight(S, "leftHandPos") + Add("leftHandPos")
      /\ Weight(S \cup T, "leftHandRot") = Weight(S, "leftHandRot") + Add("leftHandRot")
      /\ Weight(S \cup T, "rightHandPos") = Weight(S, "rightHandPos") + Add("rightHandPos")
      /\ Weight(S \cup T, "rightHandRot") = Weight(S, "rightHandRot") + Add("rightHandRot")
      /\ Weight(S \cup T, "gamePiecePos") = Weight(S, "gamePiecePos") + Add("gamePiecePos")
      /\ Weight(S \cup T, "gamePieceRot") = Weight(S, "gamePieceRot") + Add("gamePieceRot")
  BY <1>1, TenNames
<1>5. PICK a0 \in Nat, a1 \in Nat, a2 \in Nat, a3 \in Nat, a4 \in Nat,
           a5 \in Nat, a6 \in Nat, a7 \in Nat, a8 \in Nat, a9 \in Nat :
          /\ a0 = Weight(S, "basePos") /\ a1 = Weight(S, "baseRot")
          /\ a2 = Weight(S, "headPos") /\ a3 = Weight(S, "headRot")
          /\ a4 = Weight(S, "leftHandPos") /\ a5 = Weight(S, "leftHandRot")
          /\ a6 = Weight(S, "rightHandPos") /\ a7 = Weight(S, "rightHandRot")
          /\ a8 = Weight(S, "gamePiecePos") /\ a9 = Weight(S, "gamePieceRot")
  BY <1>2, TenNames
<1>6. PICK b0 \in Nat, b1 \in Nat, b2 \in Nat, b3 \in Nat, b4 \in Nat,
           b5 \in Nat, b6 \in Nat, b7 \in Nat, b8 \in Nat, b9 \in Nat :
          /\ b0 = Add("basePos") /\ b1 = Add("baseRot")
          /\ b2 = Add("headPos") /\ b3 = Add("headRot")
          /\ b4 = Add("leftHandPos") /\ b5 = Add("leftHandRot")
          /\ b6 = Add("rightHandPos") /\ b7 = Add("rightHandRot")
          /\ b8 = Add("gamePiecePos") /\ b9 = Add("gamePieceRot")
  BY <1>2, TenNames
<1>7. Word(S, k) = a0 + a1 + a2 + a3 + a4 + a5 + a6 + a7 + a8 + a9 + 1024 * k
  BY <1>5 DEF Word
<1>8. Word(S \cup T, k) = (a0 + b0) + (a1 + b1) + (a2 + b2) + (a3 + b3) + (a4 + b4)
             + (a5 + b5) + (a6 + b6) + (a7 + b7) + (a8 + b8) + (a9 + b9) + 1024 * k
  BY <1>4, <1>5, <1>6 DEF Word
<1>9. WithBits(Word(S, k), T) = Word(S, k) + b0 + b1 + b2 + b3 + b4 + b5 + b6 + b7 + b8 + b9
  BY <1>3, <1>6
<1> QED
  BY <1>7, <1>8, <1>9

\* The carry to the bits above those of the parts.
LEMMA WordWithFullPacket ==
    ASSUME NEW S, NEW k \in 0..(MaxUpdates - 1)
    PROVE  WithFullPacket(Word(S, k)) =
               IF S \cap Carriers = {} THEN Word(S, k) ELSE Word(S, k + 1)
<1>0. k \in Nat
  BY MovementAssumption
<1>1. (\E n \in Carriers : Has(Word(S, k), n)) <=> S \cap Carriers # {}
  BY <1>0, WordHas, TenNames DEF Carriers
<1>2. Word(S, k) + FullPacket = Word(S, k + 1)
  BY <1>0, TenWeights DEF Word, FullPacket
<1>3. Wrapped(Word(S, k + 1)) = Word(S, k + 1)
  <2>1. PICK m \in 0..MaxUpdates : m = k + 1
    BY MovementAssumption
  <2>2. Word(S, m) \in Int /\ 0 <= Word(S, m) /\ Word(S, m) < 32768
    BY <2>1, WordRange, MovementAssumption DEF Headers, FullPacket
  <2>3. ASSUME NEW w \in Int, 0 <= w, w < 32768
        PROVE  (w + 32768) % 65536 = w + 32768
    BY <2>3
  <2> QED
    BY <2>1, <2>2, <2>3 DEF Wrapped
<1> QED
  BY <1>1, <1>2, <1>3 DEF WithFullPacket

\* What fits the small packet is known by a header below 15.
LEMMA WordSmall ==
    ASSUME NEW S \in SUBSET Names, NEW k \in Nat
    PROVE  Word(S, k) < 15 <=> k = 0 /\ S \subseteq SmallNames /\ S # SmallNames
<1>1. k = 0 /\ S \subseteq SmallNames <=> k = 0 /\ \A n \in Names \ SmallNames : Weight(S, n) = 0
  BY TenWeights
<1>2. SmallNames \subseteq Names /\ \A n \in Names : Weight(S, n) = 0 <=> n \notin S
  BY TenWeights, TenNames DEF SmallNames
<1>3. Word(S, k) < 15 <=>
          /\ k = 0
          /\ \A n \in Names \ SmallNames : Weight(S, n) = 0
          /\ \E n \in SmallNames : Weight(S, n) = 0
  BY TenWeights, TenNames DEF Word, SmallNames
<1> QED
  BY <1>1, <1>2, <1>3
-----------------------------------------------------------------------------
(* What was given.                                                         *)

\* The places of the frames that give a part.
With(frames, n) == {i \in DOMAIN frames : n \in frames[i].parts}

\* A set of places in a sequence has a last one.
LEMMA LastPlace ==
    ASSUME NEW N \in Nat, NEW W \in SUBSET (1..N), W # {}
    PROVE  Max(W) \in W /\ \A x \in W : x <= Max(W)
<1> DEFINE T == {N - x : x \in W}
<1>1. T # {} /\ T \subseteq Nat
  <2>1. \A x \in W : N - x \in Nat
    OBVIOUS
  <2> QED
    BY <2>1
<1>2. PICK t \in T : \A u \in T : ~ (<<u, t>> \in OpToRel(<, Nat))
  BY <1>1, NatLessThanWellFounded, WFMin
<1>3. \A u \in T : ~ (u < t)
  BY <1>1, <1>2 DEF OpToRel
<1>4. PICK m \in W : t = N - m
  OBVIOUS
<1>5. \A x \in W : m >= x
  <2> SUFFICES ASSUME NEW x \in W
               PROVE  m >= x
    OBVIOUS
  <2>1. ~ (N - x < N - m)
    BY <1>3, <1>4
  <2> QED
    BY <2>1
<1>6. Max(W) = CHOOSE y \in W : \A x \in W : y >= x
  BY DEF Max
<1>7. Max(W) \in W /\ \A x \in W : Max(W) >= x
  BY <1>5, <1>6
<1> QED
  BY <1>7

\* A frame gives the last of its parts and leaves the others.
LEMMA LastGivenAppend ==
    ASSUME NEW frames \in Seq(Frame), NEW f \in Frame, NEW n
    PROVE  LastGiven(Append(frames, f), n) =
               IF n \in f.parts THEN f.value ELSE LastGiven(frames, n)
<1> DEFINE N == Len(frames)
           more == Append(frames, f)
<1>1. N \in Nat /\ DOMAIN frames = 1..N /\ DOMAIN more = 1..(N + 1)
  BY LenProperties, AppendProperties
<1>2. more[N + 1] = f /\ \A i \in 1..N : more[i] = frames[i]
  BY AppendProperties
<1>3. With(frames, n) \subseteq 1..N /\ With(more, n) \subseteq 1..(N + 1)
  BY <1>1 DEF With
<1>4. \A fs : LastGiven(fs, n) =
          IF With(fs, n) = {} THEN Cleared ELSE fs[Max(With(fs, n))].value
  BY DEF LastGiven, With
<1> HIDE DEF more, N
<1>5. CASE n \in f.parts
  <2>1. N + 1 \in With(more, n)
    BY <1>1, <1>2, <1>5 DEF With
  <2>2. PICK M \in Nat : M = N + 1
    BY <1>1
  <2>3. With(more, n) \in SUBSET (1..M) /\ M \in With(more, n)
    BY <1>3, <2>1, <2>2
  <2>4. Max(With(more, n)) \in 1..M /\ M <= Max(With(more, n))
    BY <2>3, LastPlace
  <2>5. Max(With(more, n)) = N + 1
    BY <2>2, <2>4
  <2> QED
    BY <1>2, <1>4, <1>5, <2>1, <2>5 DEF more
<1>6. CASE n \notin f.parts
  <2>1. With(more, n) = With(frames, n)
    BY <1>1, <1>2, <1>6 DEF With
  <2>2. CASE With(frames, n) = {}
    BY <1>4, <1>6, <2>1, <2>2 DEF more
  <2>3. CASE With(frames, n) # {}
    <3>1. Max(With(frames, n)) \in 1..N
      BY <1>1, <1>3, <2>3, LastPlace
    <3> QED
      BY <1>2, <1>4, <1>6, <2>1, <2>3, <3>1 DEF more
  <2> QED
    BY <2>2, <2>3
<1> QED
  BY <1>5, <1>6

\* It adds to what was given.
LEMMA GivenInAppend ==
    ASSUME NEW frames \in Seq(Frame), NEW f \in Frame
    PROVE  GivenIn(Append(frames, f)) = GivenIn(frames) \cup f.parts
<1>1. /\ Len(frames) \in Nat /\ DOMAIN frames = 1..Len(frames)
      /\ DOMAIN Append(frames, f) = 1..(Len(frames) + 1)
      /\ Append(frames, f)[Len(frames) + 1] = f
      /\ \A i \in 1..Len(frames) : Append(frames, f)[i] = frames[i]
  BY LenProperties, AppendProperties
<1>2. ASSUME NEW n
      PROVE  n \in GivenIn(Append(frames, f)) <=> n \in GivenIn(frames) \cup f.parts
  BY <1>1 DEF GivenIn
<1> QED
  BY <1>2

\* How many updates find a limb.
LEMMA LimbUpdatesCount ==
    ASSUME NEW frames \in Seq(Frame)
    PROVE  /\ LimbUpdates(frames) \subseteq 1..Len(frames)
           /\ IsFiniteSet(LimbUpdates(frames))
           /\ Cardinality(LimbUpdates(frames)) \in Nat
           /\ Cardinality(LimbUpdates(frames)) <= Len(frames)
           /\ Cardinality(LimbUpdates(frames)) = 0 <=> GivenIn(frames) \cap Carriers = {}
<1>1. Len(frames) \in Nat /\ DOMAIN frames = 1..Len(frames)
  BY LenProperties
<1>2. LimbUpdates(frames) \subseteq 1..Len(frames)
  BY <1>1 DEF LimbUpdates
<1>3. IsFiniteSet(1..Len(frames)) /\ Cardinality(1..Len(frames)) = Len(frames)
  BY <1>1, FS_Interval
<1>4. /\ IsFiniteSet(LimbUpdates(frames))
      /\ Cardinality(LimbUpdates(frames)) \in Nat
      /\ Cardinality(LimbUpdates(frames)) <= Len(frames)
  BY <1>2, <1>3, FS_Subset, FS_CardinalityType
<1>5. Cardinality(LimbUpdates(frames)) = 0 <=> LimbUpdates(frames) = {}
  BY <1>4, FS_EmptySet
<1>6. LimbUpdates(frames) = {} <=> GivenIn(frames) \cap Carriers = {}
  <2>1. ASSUME NEW i \in LimbUpdates(frames)
        PROVE  GivenIn(frames) \cap Carriers # {}
    <3>1. PICK j \in 1..i : frames[j].parts \cap Carriers # {}
      BY DEF LimbUpdates
    <3>2. j \in DOMAIN frames
      BY <1>1, <1>2
    <3> QED
      BY <3>1, <3>2 DEF GivenIn
  <2>2. ASSUME NEW n \in GivenIn(frames) \cap Carriers
        PROVE  LimbUpdates(frames) # {}
    <3>1. PICK i \in DOMAIN frames : n \in frames[i].parts
      BY DEF GivenIn
    <3>2. i \in 1..i
      BY <1>1
    <3> QED
      BY <3>1, <3>2 DEF LimbUpdates
  <2> QED
    BY <2>1, <2>2
<1> QED
  BY <1>2, <1>4, <1>5, <1>6

\* One more frame finds a limb when it or an earlier one gives one.
LEMMA LimbUpdatesAppend ==
    ASSUME NEW frames \in Seq(Frame), NEW f \in Frame
    PROVE  Cardinality(LimbUpdates(Append(frames, f))) =
               Cardinality(LimbUpdates(frames))
                 + IF GivenIn(Append(frames, f)) \cap Carriers = {} THEN 0 ELSE 1
<1> DEFINE N == Len(frames)
           more == Append(frames, f)
<1>1. /\ N \in Nat /\ DOMAIN frames = 1..N /\ DOMAIN more = 1..(N + 1)
      /\ more[N + 1] = f /\ \A i \in 1..N : more[i] = frames[i]
  BY LenProperties, AppendProperties
<1>2. /\ LimbUpdates(frames) \subseteq 1..N
      /\ IsFiniteSet(LimbUpdates(frames))
  BY LimbUpdatesCount
<1> HIDE DEF N, more
<1>3. LimbUpdates(more) =
          LimbUpdates(frames)
            \cup IF GivenIn(more) \cap Carriers = {} THEN {} ELSE {N + 1}
  <2>1. \A i \in 1..N : i \in LimbUpdates(more) <=> i \in LimbUpdates(frames)
    BY <1>1 DEF LimbUpdates
  <2>2. N + 1 \in LimbUpdates(more) <=> GivenIn(more) \cap Carriers # {}
    BY <1>1 DEF LimbUpdates, GivenIn
  <2>3. LimbUpdates(more) \subseteq 1..(N + 1)
    BY <1>1 DEF LimbUpdates
  <2>4. 1..(N + 1) = 1..N \cup {N + 1}
    BY <1>1
  <2> QED
    BY <1>2, <2>1, <2>2, <2>3, <2>4
<1>4. N + 1 \notin LimbUpdates(frames)
  BY <1>1, <1>2
<1>5. CASE GivenIn(more) \cap Carriers = {}
  <2>1. LimbUpdates(more) = LimbUpdates(frames)
    BY <1>3, <1>5
  <2>2. Cardinality(LimbUpdates(frames)) \in Nat
    BY LimbUpdatesCount
  <2> QED
    BY <1>5, <2>1, <2>2 DEF more
<1>6. CASE GivenIn(more) \cap Carriers # {}
  <2>1. LimbUpdates(more) = LimbUpdates(frames) \cup {N + 1}
    BY <1>3, <1>6
  <2>2. Cardinality(LimbUpdates(more)) = Cardinality(LimbUpdates(frames)) + 1
    BY <1>2, <1>4, <2>1, FS_AddElement
  <2> QED
    BY <1>6, <2>2 DEF more
<1> QED
  BY <1>5, <1>6

\* Nothing is given before the first frame.
LEMMA NothingGiven ==
    /\ GivenIn(<<>>) = {} /\ \A n : LastGiven(<<>>, n) = Cleared
    /\ Cardinality(LimbUpdates(<<>>)) = 0
BY FS_EmptySet DEF GivenIn, LastGiven, LimbUpdates

\* Only parts are given.
LEMMA GivenAreNames ==
    ASSUME NEW frames \in Seq(Frame)
    PROVE  GivenIn(frames) \subseteq Names
<1>1. \A i \in DOMAIN frames : frames[i] \in Frame
  BY LenProperties, ElementOfSeq
<1> QED
  BY <1>1, MovementAssumption DEF GivenIn, Frame

-----------------------------------------------------------------------------
(* The inductive invariant.                                                *)

\* What goes out at the end of an interval is what was given in it.
LEMMA PacketOfTheInterval ==
    ASSUME TypeOK, HeaderTells, BufferHolds,
           NEW p \in channel', Timer
    PROVE  /\ \A n \in DOMAIN MovementToJSON(p).parts :
                  MovementToJSON(p).parts[n] = LastGiven(p.of, n)
           /\ DOMAIN MovementToJSON(p).parts \cap (Carriers \cup {"basePos"}) =
                  GivenIn(p.of) \cap (Carriers \cup {"basePos"})
           /\ MovementToJSON(p).frequent <=> Cardinality(LimbUpdates(p.of)) % 4 = 3
           /\ PackedSize(p) = p.size
<1> DEFINE S == GivenIn(given)
           k == Cardinality(LimbUpdates(given))
<1>1. header = Word(S, k)
  BY DEF HeaderTells
<1>2. S \subseteq Names /\ k \in Nat
  BY GivenAreNames, LimbUpdatesCount DEF TypeOK
<1> HIDE DEF S, k
<1>3. /\ \A n \in Names : Has(header, n) <=> n \in S
      /\ HasBit(header, FullPacket) <=> k % 2 = 1
      /\ HasBit(header, Frequent) <=> (k \div 2) % 2 = 1
      /\ header < 15 <=> k = 0 /\ S \subseteq SmallNames /\ S # SmallNames
  BY <1>1, <1>2, WordHas, WordSmall
<1>4. /\ p.word = header /\ p.data = buffer /\ p.of = given
      /\ p.size \in {36, 78}
      /\ "basePos" \in S
      /\ p.size = 78 => k % 2 = 1
      /\ p.size = 36 => k = 0 /\ S \subseteq SmallNames
  BY <1>3, TenNames DEF Timer, Packet, SendsBig, SendsSmall
<1>5. Reads(p.word) =
          {"basePos", "baseRot", "headRot"}
            \cup (IF "gamePiecePos" \in S THEN {"gamePiecePos", "gamePieceRot"} ELSE {})
            \cup (IF "leftHandPos" \in S THEN {"leftHandPos", "leftHandRot"} ELSE {})
            \cup (IF "rightHandPos" \in S THEN {"rightHandPos", "rightHandRot"} ELSE {})
  BY <1>3, <1>4, TenNames DEF Reads
<1>6. Reads(p.word) \subseteq Names
  BY <1>5, TenNames
<1>7. p.size = 36 => Reads(p.word) \subseteq SmallNames
  BY <1>4, <1>5 DEF SmallNames
<1>8. DOMAIN MovementToJSON(p).parts = Reads(p.word)
  BY DEF MovementToJSON
<1>9. \A n \in Reads(p.word) : MovementToJSON(p).parts[n] = buffer[n]
  BY <1>4, <1>7 DEF MovementToJSON
<1>12. MovementToJSON(p).frequent <=> k % 4 = 3
  <2>1. MovementToJSON(p).frequent <=> (k \div 2) % 2 = 1
    BY <1>3, <1>4, TenNames DEF MovementToJSON
  <2>2. k = 0 \/ k % 2 = 1
    BY <1>4
  <2>3. (k \div 2) % 2 = 1 <=> k % 4 = 3
    BY <1>2, <2>2
  <2> QED
    BY <2>1, <2>3
<1>10. PackedSize(p) = p.size
  BY <1>3, <1>4 DEF PackedSize
<1>11. Reads(p.word) \cap (Carriers \cup {"basePos"}) = S \cap (Carriers \cup {"basePos"})
  BY <1>4, <1>5 DEF Carriers
<1> QED
  BY <1>4, <1>6, <1>8, <1>9, <1>10, <1>11, <1>12 DEF BufferHolds, S, k

\* What is in the channel keeps saying what it said.
LEMMA ChannelKept ==
    ASSUME PacketIsItsInterval, BatchIsToldApart, channel' \subseteq channel
    PROVE  PacketIsItsInterval' /\ BatchIsToldApart'
BY DEF PacketIsItsInterval, BatchIsToldApart

\* There is one packet at most.
LEMMA NoneOrOne == Cardinality({}) <= 1 /\ \A x : Cardinality({x}) <= 1
BY FS_EmptySet, FS_Singleton

\* The types of the initial state and of every step.
LEMMA InitTypes == Init => TypeOK
<1> SUFFICES ASSUME Init
             PROVE  TypeOK
  OBVIOUS
<1>1. header \in Headers
  BY ZeroHeader DEF Init
<1>2. given \in Seq(Frame) /\ Len(given) <= MaxUpdates
  BY EmptySeq, MovementAssumption DEF Init
<1>3. channel = {} /\ Cardinality(channel) <= 1
  BY NoneOrOne DEF Init
<1> QED
  BY <1>1, <1>2, <1>3 DEF Init, TypeOK, ClearedBuffer

\* The header counts the limbs of the updates.
LEMMA HeaderAfter ==
    ASSUME TypeOK, HeaderTells, NEW f \in Frame, SetMovement(f)
    PROVE  HeaderTells' /\ header' \in Headers
<1> DEFINE S == GivenIn(given)
           T == GivenIn(given')
           k == Cardinality(LimbUpdates(given))
           m == Cardinality(LimbUpdates(given'))
<1>1. /\ Len(given) \in Nat /\ Len(given) < MaxUpdates /\ MaxUpdates \in 1..31
      /\ given \in Seq(Frame) /\ given' = Append(given, f)
  BY LenProperties, MovementAssumption DEF TypeOK, SetMovement
<1>2. /\ k \in 0..Len(given)
      /\ m = k + IF T \cap Carriers = {} THEN 0 ELSE 1
  BY <1>1, LimbUpdatesAppend, LimbUpdatesCount
<1>3. f.parts \in SUBSET Names /\ T = S \cup f.parts
  BY <1>1, GivenInAppend, MovementAssumption DEF Frame
<1>4. header' = WithFullPacket(WithBits(Word(S, k), f.parts))
  BY DEF SetMovement, HeaderTells
<1> HIDE DEF S, T, k, m
<1>5. k \in Nat /\ k \in 0..(MaxUpdates - 1) /\ m \in 0..MaxUpdates
  BY <1>1, <1>2
<1>6. header' = Word(T, m)
  BY <1>2, <1>3, <1>4, <1>5, WordWithBits, WordWithFullPacket
<1> QED
  BY <1>5, <1>6, WordRange DEF HeaderTells, T, m

\* The inductive invariant holds.
THEOREM InvariantHolds == Spec => []IInv
<1>1. Init => IInv
  <2> SUFFICES ASSUME Init
               PROVE  IInv
    OBVIOUS
  <2>2. HeaderTells
    BY EmptyWord, NothingGiven DEF Init, HeaderTells
  <2>3. BufferHolds
    BY NothingGiven DEF Init, BufferHolds, ClearedBuffer
  <2> QED
    BY <2>2, <2>3, InitTypes DEF IInv, Init, PacketIsItsInterval, BatchIsToldApart
<1>2. IInv /\ [Next]_vars => IInv'
  <2> SUFFICES ASSUME IInv, [Next]_vars
               PROVE  IInv'
    OBVIOUS
  <2>0. TypeOK /\ HeaderTells /\ BufferHolds /\ PacketIsItsInterval /\ BatchIsToldApart
    BY DEF IInv
  <2>1. ASSUME NEW f \in Frame, SetMovement(f)
        PROVE  IInv'
    <3>1. HeaderTells' /\ header' \in Headers
      BY <2>0, <2>1, HeaderAfter
    <3>2. BufferHolds'
      <4> SUFFICES ASSUME NEW n \in Names
                   PROVE  buffer'[n] = LastGiven(given', n)
        BY DEF BufferHolds
      <4>1. buffer'[n] = IF n \in f.parts THEN f.value ELSE buffer[n]
        BY <2>1 DEF SetMovement
      <4>2. LastGiven(given', n) = IF n \in f.parts THEN f.value ELSE LastGiven(given, n)
        BY <2>0, <2>1, LastGivenAppend DEF SetMovement, TypeOK
      <4> QED
        BY <2>0, <4>1, <4>2 DEF BufferHolds
    <3>3. TypeOK'
      <4>1. buffer' \in [Names -> Values \cup {Cleared}]
        BY <2>0, <2>1 DEF SetMovement, TypeOK, Frame
      <4>2. given' \in Seq(Frame) /\ Len(given') <= MaxUpdates
        BY <2>0, <2>1, LenProperties, AppendProperties, MovementAssumption
           DEF SetMovement, TypeOK
      <4>3. sending' \in BOOLEAN /\ channel' = channel
        BY <2>0, <2>1 DEF SetMovement, TypeOK
      <4> QED
        BY <2>0, <3>1, <4>1, <4>2, <4>3 DEF TypeOK
    <3>4. PacketIsItsInterval' /\ BatchIsToldApart'
      BY <2>0, <2>1, ChannelKept DEF SetMovement
    <3> QED
      BY <3>1, <3>2, <3>3, <3>4 DEF IInv
  <2>2. CASE Timer
    <3>1. HeaderTells'
      BY <2>2, EmptyWord, NothingGiven DEF Timer, ClearedHeader, HeaderTells
    <3>2. BufferHolds'
      BY <2>2, NothingGiven DEF Timer, BufferHolds, ClearedBuffer
    <3>3. channel' = {} \/ channel' = {Packet(78)} \/ channel' = {Packet(36)}
      BY <2>2 DEF Timer
    <3>4. channel' \subseteq [word : Headers, size : {36, 78},
                              data : [Names -> Values \cup {Cleared}], of : Seq(Frame)]
      BY <2>0, <3>3 DEF TypeOK, Packet
    <3>5. Cardinality(channel') <= 1
      BY <3>3, NoneOrOne
    <3>6. /\ header' \in Headers /\ buffer' \in [Names -> Values \cup {Cleared}]
          /\ given' \in Seq(Frame) /\ Len(given') <= MaxUpdates
          /\ sending' \in BOOLEAN
      <4>1. header' \in Headers
        BY <2>2, ZeroHeader DEF Timer, ClearedHeader
      <4>2. given' \in Seq(Frame) /\ Len(given') <= MaxUpdates
        BY <2>2, EmptySeq, MovementAssumption DEF Timer
      <4> QED
        BY <2>0, <2>2, <4>1, <4>2 DEF Timer, TypeOK, ClearedBuffer
    <3>7. TypeOK'
      BY <3>4, <3>5, <3>6 DEF TypeOK
    <3>8. PacketIsItsInterval' /\ BatchIsToldApart'
      BY <2>0, <2>2, PacketOfTheInterval DEF PacketIsItsInterval, BatchIsToldApart
    <3> QED
      BY <3>1, <3>2, <3>7, <3>8 DEF IInv
  <2>3. ASSUME PacketGone \/ StartSendingMovement \/ StopSendingMovement \/ UNCHANGED vars
        PROVE  IInv'
    <3>1. /\ UNCHANGED <<header, buffer, given>>
          /\ channel' = channel \/ channel' = {}
          /\ sending' \in BOOLEAN
      BY <2>0, <2>3 DEF PacketGone, StartSendingMovement, StopSendingMovement, vars, TypeOK
    <3>2. HeaderTells' /\ BufferHolds'
      BY <2>0, <3>1 DEF HeaderTells, BufferHolds
    <3>3. PacketIsItsInterval' /\ BatchIsToldApart'
      BY <2>0, <3>1, ChannelKept
    <3>4. TypeOK'
      <4>1. Cardinality(channel') <= 1
        BY <2>0, <3>1, NoneOrOne DEF TypeOK
      <4> QED
        BY <2>0, <3>1, <4>1 DEF TypeOK
    <3> QED
      BY <3>2, <3>3, <3>4 DEF IInv
  <2> QED
    BY <2>1, <2>2, <2>3 DEF Next
<1> QED
  BY <1>1, <1>2, PTL DEF Spec

-----------------------------------------------------------------------------
(* The theorems.                                                           *)

\* The state keeps its types; in particular the header counts the updates of one
\* interval only and never becomes negative, which takes 32 of them with a limb.
THEOREM TypesKept == Spec => []TypeOK
<1>1. IInv => TypeOK
  BY DEF IInv
<1> QED
  BY <1>1, InvariantHolds, PTL

\* Whatever parts are given together, and in whatever order, the receiver makes
\* of a packet the parts that were given in its interval and no others, and takes
\* it for frequent, which nobody gives, after three updates with a limb, or seven
\* and so on.
THEOREM PacketsAreTheirIntervals == Spec => []PacketIsItsInterval
<1>1. IInv => PacketIsItsInterval
  BY DEF IInv
<1> QED
  BY <1>1, InvariantHolds, PTL

\* The receiver of a batch finds the end of every packet.
THEOREM BatchesAreToldApart == Spec => []BatchIsToldApart
<1>1. IInv => BatchIsToldApart
  BY DEF IInv
<1> QED
  BY <1>1, InvariantHolds, PTL

\* An interval with one frame that gives the base and a limb, or part of what
\* fits the small packet, is sent.
THEOREM SingleFramesAreSent == Spec => SingleFrameIsSent
<1>1. IInv /\ [Next]_vars => [SentWhenDue]_vars
  <2> SUFFICES ASSUME IInv, [Next]_vars,
                      Len(given) = 1, given' = <<>>, "basePos" \in given[1].parts,
                      \/ given[1].parts \cap Carriers # {}
                      \/ given[1].parts \subseteq SmallNames,
                      given[1].parts # SmallNames
               PROVE  channel' # {}
    BY DEF SentWhenDue
  <2> DEFINE S == GivenIn(given)
  <2>1. given \in Seq(Frame) /\ HeaderTells
    BY DEF IInv, TypeOK
  <2>2. S = given[1].parts
    <3>1. DOMAIN given = {1}
      BY <2>1, LenProperties
    <3> QED
      BY <3>1 DEF GivenIn
  <2>3. PICK k \in 0..1 : header = Word(S, k) /\ (k = 0 <=> S \cap Carriers = {})
    <3>1. /\ Cardinality(LimbUpdates(given)) \in Nat
          /\ Cardinality(LimbUpdates(given)) <= Len(given)
          /\ Cardinality(LimbUpdates(given)) = 0 <=> GivenIn(given) \cap Carriers = {}
      BY <2>1, LimbUpdatesCount
    <3>2. Cardinality(LimbUpdates(given)) \in 0..1
      BY <3>1
    <3> QED
      BY <2>1, <3>1, <3>2 DEF HeaderTells
  <2>4. S \in SUBSET Names /\ k \in Nat
    BY <2>1, GivenAreNames
  <2>5. Has(header, "basePos") /\ (HasBit(header, FullPacket) \/ header < 15)
    <3>1. Has(header, "basePos")
      BY <2>2, <2>3, <2>4, WordHas, TenNames
    <3>2. CASE S \cap Carriers # {}
      <4>1. k = 1 /\ k % 2 = 1
        BY <2>3, <3>2
      <4> QED
        BY <2>3, <2>4, <3>1, <4>1, WordHas
    <3>3. CASE S \cap Carriers = {}
      <4>1. header < 15
        BY <2>2, <2>3, <2>4, <3>3, WordSmall
      <4> QED
        BY <3>1, <4>1
    <3> QED
      BY <3>2, <3>3
  <2>6. given # <<>>
    BY EmptySeq
  <2>7. Timer
    <3>1. given' # given
      BY <2>6
    <3>2. ASSUME NEW f \in Frame, SetMovement(f)
          PROVE  FALSE
      <4>1. Len(given') = 2
        BY <2>1, <3>2, AppendProperties DEF SetMovement
      <4> QED
        BY <4>1, EmptySeq
    <3> QED
      BY <3>1, <3>2
         DEF Next, vars, PacketGone, StartSendingMovement, StopSendingMovement
  <2> QED
    BY <2>5, <2>7 DEF Timer, SendsBig, SendsSmall
<1> QED
  BY <1>1, InvariantHolds, PTL DEF Spec, SingleFrameIsSent
=============================================================================
