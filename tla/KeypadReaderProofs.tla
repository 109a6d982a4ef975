------------------------- MODULE KeypadReaderProofs -------------------------
(***************************************************************************)
(* Safety of KeypadReader for any number of keys typed, any length of a    *)
(* code and any capacity of the channel.                                   *)
(*                                                                         *)
(* TimerInv says which timers run while bits or keys wait, FrameInv that   *)
(* the bits on their way are the frames of the keys typed and not yet read,*)
(* except while the reading is damaged.  With both, the reader implements  *)
(* the safety part of KeypadContract.                                      *)
(***************************************************************************)
EXTENDS KeypadReader, SequenceTheorems, TLAPS

Bits == 0..1
Keys == 0..12

-----------------------------------------------------------------------------
(* Sequences.                                                              *)

\* The head of one queue that joins the end of the queue before it.
LEMMA HeadMovesOver ==
  ASSUME NEW S, NEW a \in Seq(S), NEW b \in Seq(S), b # <<>>
  PROVE  /\ Append(a, Head(b)) \o Tail(b) = a \o b
         /\ Append(a, Head(b)) \in Seq(S) /\ Tail(b) \in Seq(S) /\ Head(b) \in S
         /\ Len(Append(a, Head(b))) = Len(a) + 1
OBVIOUS

\* To append to a concatenation is to append to its second part.
LEMMA AppendToSecond ==
  ASSUME NEW S, NEW a \in Seq(S), NEW b \in Seq(S), NEW e \in S
  PROVE  a \o Append(b, e) = Append(a \o b, e)
OBVIOUS

\* A queue without one of its elements.
LEMMA RemoveAtType ==
  ASSUME NEW S, NEW s \in Seq(S), NEW i \in 1..Len(s)
  PROVE  RemoveAt(s, i) \in Seq(S)
BY DEF RemoveAt

\* A queue without its head.
LEMMA RemoveAtOne ==
  ASSUME NEW S, NEW s \in Seq(S), s # <<>>
  PROVE  RemoveAt(s, 1) = Tail(s)
BY DEF RemoveAt

\* Four bits make a key.
LEMMA ParseType ==
  ASSUME NEW bits \in Seq(Bits), Len(bits) = 4
  PROVE  ParseKeypad4(bits) \in Keys
<1>0. \A i \in 1..4: bits[i] \in Bits
  BY ElementOfSeq
<1>1. /\ bits[1] \in 0..1 /\ bits[2] \in 0..1 /\ bits[3] \in 0..1 /\ bits[4] \in 0..1
  BY <1>0 DEF Bits
<1>2. Value(bits) \in 0..15
  BY <1>1 DEF Value
<1> QED
  BY <1>2 DEF ParseKeypad4, Keys

\* A press is a sequence of four bits.
LEMMA PressType ==
  ASSUME NEW bits \in Presses
  PROVE  bits \in Seq(Bits) /\ Len(bits) = 4
<1>1. bits \in [1..4 -> Bits]
  BY KeypadReaderAssumption DEF Bits
<1>a. /\ bits[1] \in Bits /\ bits[2] \in Bits /\ bits[3] \in Bits /\ bits[4] \in Bits
      /\ DOMAIN bits = 1..4
  BY <1>1
<1>b. <<bits[1], bits[2], bits[3], bits[4]>> \in Seq(Bits)
  BY <1>a
<1>c. bits = <<bits[1], bits[2], bits[3], bits[4]>>
  BY <1>1
<1>2. bits \in Seq(Bits)
  BY <1>b, <1>c
<1>3. Len(bits) \in Nat /\ DOMAIN bits = 1..Len(bits)
  BY <1>2, LenProperties
<1>4. 1..Len(bits) = 1..4
  BY <1>1, <1>3
<1> QED
  BY <1>2, <1>3, <1>4

-----------------------------------------------------------------------------
(* Type correctness.                                                       *)

\* What the fourth bit does, with the key that it completes.
LEMMA LastBit ==
  ASSUME KeypadTypeOK, TakeLastBit
  PROVE  \E key \in Keys:
           /\ key = ParseKeypad4(Append(keyBits, Head(bitCh)))
           /\ read' = Append(read, key) /\ keys' = Append(keys, key)
           /\ \/ /\ Len(keys') < maxKeysPerCode /\ keyBits' = <<>> /\ UNCHANGED <<busy, handed>>
              \/ /\ Len(keys') = maxKeysPerCode /\ busy' = "full"
                 /\ handed' = handed \o keys' /\ UNCHANGED keyBits
<1> DEFINE key == ParseKeypad4(Append(keyBits, Head(bitCh)))
<1>1. bitCh \in Seq(Bits) /\ keyBits \in Seq(Bits) /\ bitCh # <<>> /\ Len(keyBits) = 3
  BY DEF KeypadTypeOK, Bits, TakeLastBit
<1>2. Head(bitCh) \in Bits
  BY <1>1
<1>a. /\ Append(keyBits, Head(bitCh)) \in Seq(Bits)
      /\ Len(Append(keyBits, Head(bitCh))) = Len(keyBits) + 1
  BY <1>1, <1>2, AppendProperties, Zenon
<1>3. Append(keyBits, Head(bitCh)) \in Seq(Bits) /\ Len(Append(keyBits, Head(bitCh))) = 4
  BY <1>1, <1>a
<1>4. key \in Keys
  BY <1>3, ParseType
<1>5. /\ read' = Append(read, key) /\ keys' = Append(keys, key)
      /\ \/ /\ Len(keys') < maxKeysPerCode /\ keyBits' = <<>> /\ UNCHANGED <<busy, handed>>
         \/ /\ Len(keys') = maxKeysPerCode /\ busy' = "full"
            /\ handed' = handed \o keys' /\ UNCHANGED keyBits
  BY Zenon DEF TakeLastBit
<1> QED
  BY <1>4, <1>5, Zenon

\* The steps of the keypad and its reader, for a case distinction.
LEMMA KeypadCases ==
  ASSUME [KeypadNext]_keypadVars
  PROVE  \/ \E bits \in Presses: Press(bits)
         \/ Pulse
         \/ \E b \in Bits: EnqueueBit(b)
         \/ TakeBit \/ TakeLastBit \/ KeyTimeout \/ CodeTimeout \/ CodeReturns
         \/ KeyTimerFires \/ CodeTimerFires
         \/ UNCHANGED keypadVars
BY DEF KeypadNext, Run, Bits

\* A step keeps the types.
LEMMA KeypadTypeStep ==
  ASSUME KeypadTypeOK, [KeypadNext]_keypadVars
  PROVE  KeypadTypeOK'
<1>0. /\ pulses \in Seq(Bits) /\ edges \in Seq(Bits)
      /\ bitCh \in Seq(Bits) /\ keyBits \in Seq(Bits)
      /\ Len(bitCh) <= ChannelSize /\ Len(keyBits) < 4
      /\ keys \in Seq(Keys) /\ typed \in Seq(Keys)
      /\ read \in Seq(Keys) /\ handed \in Seq(Keys)
      /\ Len(keys) <= maxKeysPerCode
      /\ keyTimer \in TimerStates /\ codeTimer \in TimerStates
      /\ busy \in {"no", "full", "timeout"}
      /\ intact \in BOOLEAN /\ late \in BOOLEAN
  BY DEF KeypadTypeOK, Bits, Keys
<1>e. <<>> \in Seq(Bits) /\ <<>> \in Seq(Keys) /\ Len(<<>>) = 0 /\ Len(<<>>) < 4
  OBVIOUS
<1>t. {"off", "running", "fired"} = TimerStates
  BY DEF TimerStates
<1>1. ASSUME NEW bits \in Presses, Press(bits)
      PROVE  KeypadTypeOK'
  <2>1. bits \in Seq(Bits) /\ ParseKeypad4(bits) \in Keys
    BY PressType, ParseType
  <2>2. typed' \in Seq(Keys)
    BY <1>0, <1>1, <2>1 DEF Press
  <2>3. intact' \in BOOLEAN
    BY <1>1, Zenon DEF Press
  <2> QED
    BY <1>0, <1>1, <2>1, <2>2, <2>3 DEF Press, locals, KeypadTypeOK, Bits, Keys
<1>2. CASE Pulse
  <2>1. edges' \in Seq(Bits) /\ pulses' \in Seq(Bits)
    BY <1>0, <1>2, HeadMovesOver DEF Pulse
  <2> QED
    BY <1>0, <1>2, <2>1 DEF Pulse, locals, KeypadTypeOK, Bits, Keys
<1>3. ASSUME NEW b \in Bits, EnqueueBit(b)
      PROVE  KeypadTypeOK'
  <2>1. PICK i \in DOMAIN edges:
          /\ edges' = RemoveAt(edges, i)
          /\ bitCh' = IF Len(bitCh) < ChannelSize THEN Append(bitCh, b) ELSE bitCh
          /\ intact' = (intact /\ i = 1 /\ Len(bitCh) < ChannelSize)
          /\ UNCHANGED <<pulses, locals, typed, read, handed, late>>
    BY <1>3 DEF EnqueueBit
  <2>2. edges' \in Seq(Bits)
    BY <1>0, <2>1, RemoveAtType
  <2>3. bitCh' \in Seq(Bits) /\ Len(bitCh') <= ChannelSize
    BY <1>0, <2>1, KeypadReaderAssumption
  <2>4. intact' \in BOOLEAN
    BY <2>1, Zenon
  <2> QED
    BY <1>0, <2>1, <2>2, <2>3, <2>4 DEF locals, KeypadTypeOK, Bits, Keys
<1>4. CASE TakeBit
  <2>1. keyBits' \in Seq(Bits) /\ Len(keyBits') < 4 /\ bitCh' \in Seq(Bits) /\ Len(bitCh') <= ChannelSize
    BY <1>0, <1>4, HeadMovesOver, KeypadReaderAssumption DEF TakeBit
  <2> QED
    BY <1>0, <1>4, <1>t, <2>1 DEF TakeBit, KeypadTypeOK, Bits, Keys
<1>5. CASE TakeLastBit
  <2>1. PICK key \in Keys:
          /\ key = ParseKeypad4(Append(keyBits, Head(bitCh)))
          /\ read' = Append(read, key) /\ keys' = Append(keys, key)
          /\ \/ /\ Len(keys') < maxKeysPerCode /\ keyBits' = <<>> /\ UNCHANGED <<busy, handed>>
             \/ /\ Len(keys') = maxKeysPerCode /\ busy' = "full"
                /\ handed' = handed \o keys' /\ UNCHANGED keyBits
    BY <1>5, LastBit
  <2>2. keys' \in Seq(Keys) /\ read' \in Seq(Keys)
    BY <1>0, <2>1, AppendProperties
  <2>3. Len(keys') \in Nat /\ Len(keys') <= maxKeysPerCode
    BY <2>1, <2>2, LenProperties, KeypadReaderAssumption
  <2>4. handed' \in Seq(Keys)
    <3>1. handed \o keys' \in Seq(Keys)
      BY <1>0, <2>2, ConcatProperties, Zenon
    <3>2. handed' = handed \/ handed' = handed \o keys'
      BY <2>1, Zenon
    <3> QED
      BY <1>0, <3>1, <3>2, Zenon
  <2>5. keyBits' \in Seq(Bits) /\ Len(keyBits') < 4
    <3>1. keyBits' = keyBits \/ keyBits' = <<>>
      BY <2>1, Zenon
    <3> QED
      BY <1>0, <1>e, <3>1, Zenon
  <2>6. bitCh' \in Seq(Bits) /\ Len(bitCh') <= ChannelSize
    <3>1. bitCh # <<>> /\ bitCh' = Tail(bitCh)
      BY <1>5 DEF TakeLastBit
    <3> QED
      BY <1>0, <3>1, KeypadReaderAssumption
  <2>7. /\ pulses' = pulses /\ edges' = edges /\ typed' = typed /\ intact' = intact /\ late' = late
        /\ codeTimer' = "running" /\ keyTimer' \in {"off", "running"}
    BY <1>5, Zenon DEF TakeLastBit, RestartCodeTimer
  <2>8. busy' \in {"no", "full", "timeout"}
    BY <1>0, <2>1
  <2> QED
    BY <1>0, <1>t, <2>2, <2>3, <2>4, <2>5, <2>6, <2>7, <2>8 DEF KeypadTypeOK, Bits, Keys
<1>6. CASE KeyTimeout
  <2>1. intact' \in BOOLEAN
    BY <1>6, Zenon DEF KeyTimeout
  <2> QED
    BY <1>0, <1>6, <1>e, <1>t, <2>1 DEF KeyTimeout, wires, KeypadTypeOK, Bits, Keys
<1>7. CASE CodeTimeout
  <2>1. handed' \in Seq(Keys)
    BY <1>0, <1>7, ConcatProperties DEF CodeTimeout
  <2> QED
    BY <1>0, <1>7, <1>t, <2>1 DEF CodeTimeout, wires, KeypadTypeOK, Bits, Keys
<1>8. CASE CodeReturns
  <2>1. keys' \in Seq(Keys) /\ Len(keys') <= maxKeysPerCode
    BY <1>8, <1>e, KeypadReaderAssumption DEF CodeReturns
  <2>a. keyBits' = keyBits \/ keyBits' = <<>>
    BY <1>8, Zenon DEF CodeReturns
  <2>2. keyBits' \in Seq(Bits) /\ Len(keyBits') < 4
    BY <1>0, <1>e, <2>a, Zenon
  <2>3. keyTimer' \in TimerStates /\ codeTimer' \in TimerStates /\ busy' = "no"
    BY <1>0, <1>8, <1>t DEF CodeReturns
  <2>4. UNCHANGED <<pulses, edges, bitCh, typed, read, handed, intact, late>>
    BY <1>8 DEF CodeReturns, wires
  <2> QED
    BY <1>0, <2>1, <2>2, <2>3, <2>4 DEF KeypadTypeOK, Bits, Keys
<1>9. CASE KeyTimerFires
  <2>1. late' \in BOOLEAN
    BY <1>9, Zenon DEF KeyTimerFires
  <2> QED
    BY <1>0, <1>9, <1>t, <2>1 DEF KeyTimerFires, wires, KeypadTypeOK, Bits, Keys
<1>10. CASE CodeTimerFires
  BY <1>0, <1>10, <1>t DEF CodeTimerFires, wires, KeypadTypeOK, Bits, Keys
<1>11. CASE UNCHANGED keypadVars
  BY <1>0, <1>11 DEF keypadVars, wires, locals, KeypadTypeOK, Bits, Keys
<1> QED
  BY <1>1, <1>2, <1>3, <1>4, <1>5, <1>6, <1>7, <1>8, <1>9, <1>10, <1>11, KeypadCases

\* The channel is never over its capacity, half a key is less than four bits, a
\* code no longer than the longest, and only keys of the keypad are read.
THEOREM KeypadTypeCorrect == KeypadSpec => []KeypadTypeOK
<1>1. ASSUME KeypadInit
      PROVE  KeypadTypeOK
  <2>1. intact \in BOOLEAN /\ late \in BOOLEAN
    BY <1>1, Zenon DEF KeypadInit
  <2> QED
    BY <1>1, <2>1, KeypadReaderAssumption DEF KeypadInit, KeypadTypeOK, TimerStates
<1> QED
  BY <1>1, KeypadTypeStep, PTL DEF KeypadSpec

-----------------------------------------------------------------------------
(* Timers and keys.                                                        *)

\* Half a key has a timer also during a call; keys that are being handed over
\* may have none.
TimerInv ==
  /\ keyBits # <<>> => keyTimer # "off"
  /\ busy = "no" /\ keys # <<>> => codeTimer # "off"

\* No half key and no half code waits without a timer, in any state.
THEOREM HalvesAlwaysTimed == KeypadSpec => []HalvesAreTimed
<1>1. KeypadInit => TimerInv
  BY DEF KeypadInit, TimerInv
<1>2. ASSUME TimerInv, [KeypadNext]_keypadVars
      PROVE  TimerInv'
  <2> USE <1>2 DEF TimerInv
  <2>1. ASSUME NEW bits \in Presses, Press(bits)
        PROVE  TimerInv'
    BY <2>1 DEF Press, locals
  <2>2. ASSUME NEW b \in Bits, EnqueueBit(b)
        PROVE  TimerInv'
    BY <2>2 DEF EnqueueBit, locals
  <2>3. CASE Pulse \/ CodeReturns \/ UNCHANGED keypadVars
    BY <2>3 DEF Pulse, CodeReturns, keypadVars, locals
  <2>4. CASE TakeBit \/ TakeLastBit
    BY <2>4 DEF TakeBit, TakeLastBit, RestartCodeTimer
  <2>5. CASE KeyTimeout \/ CodeTimeout
    BY <2>5 DEF KeyTimeout, CodeTimeout
  <2>6. CASE KeyTimerFires \/ CodeTimerFires
    BY <2>6 DEF KeyTimerFires, CodeTimerFires
  <2> QED
    BY <2>1, <2>2, <2>3, <2>4, <2>5, <2>6, KeypadCases
<1>3. TimerInv => HalvesAreTimed
  BY DEF TimerInv, HalvesAreTimed
<1> QED
  BY <1>1, <1>2, <1>3, PTL DEF KeypadSpec

\* Every key that was read is handed over once, in its place, or waits.
THEOREM KeysAlwaysConserved == KeypadSpec => []KeysConserved
<1>1. KeypadInit => KeysConserved
  BY DEF KeypadInit, KeysConserved
<1>2. ASSUME KeypadTypeOK, KeysConserved, [KeypadNext]_keypadVars
      PROVE  KeysConserved'
  <2>0. keys \in Seq(Keys) /\ handed \in Seq(Keys) /\ read \in Seq(Keys)
    BY <1>2 DEF KeypadTypeOK, Bits, Keys
  <2>1. ASSUME UNCHANGED <<keys, busy, read, handed>>
        PROVE  KeysConserved'
    BY <1>2, <2>1 DEF KeysConserved
  <2>2. CASE TakeLastBit
    <3>1. PICK key \in Keys:
            /\ key = ParseKeypad4(Append(keyBits, Head(bitCh)))
            /\ read' = Append(read, key) /\ keys' = Append(keys, key)
            /\ \/ /\ Len(keys') < maxKeysPerCode /\ keyBits' = <<>> /\ UNCHANGED <<busy, handed>>
               \/ /\ Len(keys') = maxKeysPerCode /\ busy' = "full"
                  /\ handed' = handed \o keys' /\ UNCHANGED keyBits
      BY <1>2, <2>2, LastBit
    <3>2. read = handed \o keys /\ busy = "no"
      BY <1>2, <2>2 DEF TakeLastBit, KeysConserved
    <3>3. handed \o Append(keys, key) = Append(handed \o keys, key)
      BY <2>0, AppendToSecond
    <3>4. read' = handed \o keys'
      BY <3>1, <3>2, <3>3
    <3>5. read' \in Seq(Keys)
      BY <2>0, <3>1, AppendProperties
    <3>6. (handed \o keys') \o <<>> = handed \o keys'
      BY <3>4, <3>5, ConcatEmptySeq
    <3> QED
      BY <3>1, <3>2, <3>4, <3>6 DEF KeysConserved
  <2>3. CASE CodeTimeout
    <3>1. read = handed \o keys /\ (handed \o keys) \o <<>> = handed \o keys
      BY <1>2, <2>0, <2>3, ConcatProperties, ConcatEmptySeq DEF CodeTimeout, KeysConserved
    <3> QED
      BY <1>2, <2>3, <3>1 DEF CodeTimeout, KeysConserved
  <2>4. CASE CodeReturns
    BY <1>2, <2>4 DEF CodeReturns, KeysConserved
  <2>5. (\E bits \in Presses: Press(bits)) \/ (\E b \in Bits: EnqueueBit(b)) \/ Pulse \/ TakeBit
          \/ KeyTimeout \/ KeyTimerFires \/ CodeTimerFires \/ UNCHANGED keypadVars
        => UNCHANGED <<keys, busy, read, handed>>
    BY DEF Press, EnqueueBit, Pulse, TakeBit, KeyTimeout, KeyTimerFires, CodeTimerFires,
           keypadVars, locals
  <2> QED
    BY <1>2, <2>1, <2>2, <2>3, <2>4, <2>5, KeypadCases
<1> QED
  BY <1>1, <1>2, KeypadTypeCorrect, PTL DEF KeypadSpec

-----------------------------------------------------------------------------
(* The frames of the keys.                                                 *)

\* The four bits of the i-th key of a stream.
Frame(s, i) == <<s[4*i - 3], s[4*i - 2], s[4*i - 1], s[4*i]>>

\* What was read is how the typed keys begin, and the stream s is the frames of
\* the others.
Framed(s, r, t) ==
  /\ Len(r) <= Len(t) /\ Len(s) = 4 * (Len(t) - Len(r))
  /\ \A i \in 1..Len(r): r[i] = t[i]
  /\ \A i \in 1..Len(t) - Len(r): t[Len(r) + i] = ParseKeypad4(Frame(s, i))

\* The bits of the key that is being read; a full code keeps the first three of
\* its last key until it has been handed over.
Half == IF busy = "full" THEN <<>> ELSE keyBits

\* Every bit on its way, oldest first.
Stream == (Half \o bitCh) \o (edges \o pulses)

\* While the reading is intact, a key timer that has fired finds half a key only
\* if it fired in the call for a code cut short.
FrameInv ==
  intact => /\ Framed(Stream, read, typed)
            /\ keyTimer = "fired" /\ Half # <<>> => late

\* A key depends on its four bits only.
LEMMA ParseSame ==
  ASSUME NEW a, NEW b, a[1] = b[1], a[2] = b[2], a[3] = b[3], a[4] = b[4]
  PROVE  ParseKeypad4(a) = ParseKeypad4(b)
BY DEF ParseKeypad4, Value

\* A press adds a frame.
LEMMA PressFrames ==
  ASSUME NEW s \in Seq(Bits), NEW r \in Seq(Keys), NEW t \in Seq(Keys),
         NEW bits \in Seq(Bits), Len(bits) = 4, Framed(s, r, t)
  PROVE  Framed(s \o bits, r, Append(t, ParseKeypad4(bits)))
<1> DEFINE k == ParseKeypad4(bits)
<1> DEFINE u == Append(t, k)
<1> DEFINE z == s \o bits
<1>1. k \in Keys
  BY ParseType
<1>a. Len(r) \in Nat /\ Len(t) \in Nat /\ Len(s) \in Nat
  OBVIOUS
<1>2. /\ Len(r) \in Nat /\ Len(t) \in Nat /\ Len(s) \in Nat
      /\ Len(r) <= Len(t) /\ Len(s) = 4 * (Len(t) - Len(r))
  BY <1>a DEF Framed
<1>3. /\ Len(u) = Len(t) + 1 /\ u[Len(t) + 1] = k
      /\ \A i \in 1..Len(t): u[i] = t[i]
  BY <1>1, AppendProperties
<1>b. /\ Len(z) = Len(s) + Len(bits)
      /\ \A i \in 1..Len(s) + Len(bits): z[i] = IF i <= Len(s) THEN s[i] ELSE bits[i - Len(s)]
  BY ConcatProperties, Zenon
<1>4. /\ Len(z) = Len(s) + 4
      /\ \A i \in 1..Len(s) + 4: z[i] = IF i <= Len(s) THEN s[i] ELSE bits[i - Len(s)]
  BY <1>b
<1>c. /\ \A i \in 1..Len(s): z[i] = s[i]
      /\ z[Len(s) + 1] = bits[1] /\ z[Len(s) + 2] = bits[2]
      /\ z[Len(s) + 3] = bits[3] /\ z[Len(s) + 4] = bits[4]
  <2> HIDE DEF z
  <2>1. \A i \in 1..Len(s): i \in 1..Len(s) + 4 /\ i <= Len(s)
    BY <1>a
  <2>2. \A j \in 1..4: Len(s) + j \in 1..Len(s) + 4 /\ ~(Len(s) + j <= Len(s)) /\ (Len(s) + j) - Len(s) = j
    BY <1>a
  <2>3. \A j \in 1..4: z[Len(s) + j] = bits[j]
    BY <1>4, <2>2, Zenon
  <2>4. \A i \in 1..Len(s): z[i] = s[i]
    BY <1>4, <2>1
  <2> QED
    BY <2>3, <2>4
<1> HIDE DEF u, z, k
<1>5. Len(r) <= Len(u) /\ Len(z) = 4 * (Len(u) - Len(r))
  BY <1>2, <1>3, <1>4
<1>6. \A i \in 1..Len(r): r[i] = u[i]
  BY <1>2, <1>3 DEF Framed
<1>7. ASSUME NEW i \in 1..Len(u) - Len(r)
      PROVE  u[Len(r) + i] = ParseKeypad4(Frame(z, i))
  <2>1. CASE i <= Len(t) - Len(r)
    <3>1. i \in 1..Len(t) - Len(r) /\ Len(r) + i \in 1..Len(t)
      BY <1>2, <1>3, <2>1
    <3>a. /\ 4*i - 3 \in 1..Len(s) /\ 4*i - 2 \in 1..Len(s)
          /\ 4*i - 1 \in 1..Len(s) /\ 4*i \in 1..Len(s)
      BY <1>2, <3>1
    <3>2. Frame(z, i) = Frame(s, i)
      BY <1>c, <3>a DEF Frame
    <3> QED
      BY <1>3, <3>1, <3>2 DEF Framed
  <2>2. CASE i = Len(t) - Len(r) + 1
    <3>1. /\ z[4*i - 3] = bits[1] /\ z[4*i - 2] = bits[2]
          /\ z[4*i - 1] = bits[3] /\ z[4*i] = bits[4]
      <4>1. /\ 4*i - 3 = Len(s) + 1 /\ 4*i - 2 = Len(s) + 2
            /\ 4*i - 1 = Len(s) + 3 /\ 4*i = Len(s) + 4
        BY <1>2, <2>2
      <4> QED
        BY <1>c, <4>1
    <3>2. ParseKeypad4(Frame(z, i)) = ParseKeypad4(bits)
      BY <3>1, ParseSame DEF Frame
    <3> QED
      BY <1>2, <1>3, <2>2, <3>2 DEF k
  <2>3. i <= Len(t) - Len(r) \/ i = Len(t) - Len(r) + 1
    BY <1>2, <1>3
  <2> QED
    BY <2>1, <2>2, <2>3
<1> QED
  BY <1>5, <1>6, <1>7 DEF Framed, u, z, k

\* The last bit of a key takes its frame off the stream.
LEMMA ReadFrame ==
  ASSUME NEW s \in Seq(Bits), NEW z \in Seq(Bits), NEW r \in Seq(Keys), NEW t \in Seq(Keys),
         NEW k \in Keys,
         Len(s) = Len(z) + 4, \A i \in 1..Len(z): z[i] = s[i + 4],
         k = ParseKeypad4(Frame(s, 1)), Framed(s, r, t)
  PROVE  Framed(z, Append(r, k), t)
<1> DEFINE q == Append(r, k)
<1>a. Len(r) \in Nat /\ Len(t) \in Nat /\ Len(z) \in Nat
  OBVIOUS
<1>1. /\ Len(r) \in Nat /\ Len(t) \in Nat /\ Len(z) \in Nat
      /\ Len(r) < Len(t) /\ Len(z) + 4 = 4 * (Len(t) - Len(r))
  BY <1>a DEF Framed
<1>2. /\ Len(q) = Len(r) + 1 /\ q[Len(r) + 1] = k
      /\ \A i \in 1..Len(r): q[i] = r[i]
  BY AppendProperties
<1> HIDE DEF q
<1>3. Len(q) <= Len(t) /\ Len(z) = 4 * (Len(t) - Len(q))
  BY <1>1, <1>2
<1>4. ASSUME NEW i \in 1..Len(q)
      PROVE  q[i] = t[i]
  <2>1. CASE i \in 1..Len(r)
    BY <1>2, <2>1 DEF Framed
  <2>2. CASE i = Len(r) + 1
    BY <1>1, <1>2, <2>2 DEF Framed
  <2> QED
    BY <1>1, <1>2, <2>1, <2>2
<1>5. ASSUME NEW i \in 1..Len(t) - Len(q)
      PROVE  t[Len(q) + i] = ParseKeypad4(Frame(z, i))
  <2>1. i + 1 \in 1..Len(t) - Len(r) /\ Len(q) + i = Len(r) + (i + 1)
    BY <1>1, <1>2
  <2>2. /\ z[4*i - 3] = s[4*(i+1) - 3] /\ z[4*i - 2] = s[4*(i+1) - 2]
        /\ z[4*i - 1] = s[4*(i+1) - 1] /\ z[4*i] = s[4*(i+1)]
    <3>1. /\ 4*i - 3 \in 1..Len(z) /\ 4*i - 2 \in 1..Len(z)
          /\ 4*i - 1 \in 1..Len(z) /\ 4*i \in 1..Len(z)
      BY <1>1, <1>2
    <3>2. /\ (4*i - 3) + 4 = 4*(i+1) - 3 /\ (4*i - 2) + 4 = 4*(i+1) - 2
          /\ (4*i - 1) + 4 = 4*(i+1) - 1 /\ 4*i + 4 = 4*(i+1)
      OBVIOUS
    <3>3. /\ z[4*i - 3] = s[(4*i - 3) + 4] /\ z[4*i - 2] = s[(4*i - 2) + 4]
          /\ z[4*i - 1] = s[(4*i - 1) + 4] /\ z[4*i] = s[4*i + 4]
      BY <3>1, Zenon
    <3> QED
      BY <3>2, <3>3, Zenon
  <2>3. Frame(z, i) = Frame(s, i + 1)
    BY <2>2 DEF Frame
  <2> QED
    BY <2>1, <2>3 DEF Framed
<1> QED
  BY <1>3, <1>4, <1>5 DEF Framed, q

\* A bit that the handler of its line puts into the channel stays in its place.
LEMMA EnqueueMoves ==
  \A h, b, e, p \in Seq(Bits):
    e # <<>> => (h \o Append(b, Head(e))) \o (Tail(e) \o p) = (h \o b) \o (e \o p)
<1> DEFINE S == Bits
<1> HIDE DEF S
<1> SUFFICES ASSUME NEW h \in Seq(S), NEW b \in Seq(S), NEW e \in Seq(S), NEW p \in Seq(S),
                    e # <<>>
             PROVE  (h \o Append(b, Head(e))) \o (Tail(e) \o p) = (h \o b) \o (e \o p)
  BY DEF S
<1>1. Head(e) \in S /\ Tail(e) \in Seq(S)
  OBVIOUS
<1>2. h \o Append(b, Head(e)) = Append(h \o b, Head(e))
  BY <1>1, AppendToSecond
<1>3. h \o b \in Seq(S) /\ e \o p \in Seq(S)
  BY ConcatProperties, Zenon
<1>4. e \o p # <<>> /\ Head(e \o p) = Head(e) /\ Tail(e \o p) = Tail(e) \o p
  OBVIOUS
<1>5. \A x, y \in Seq(S): y # <<>> => Append(x, Head(y)) \o Tail(y) = x \o y
  BY HeadMovesOver
<1>6. Append(h \o b, Head(e \o p)) \o Tail(e \o p) = (h \o b) \o (e \o p)
  BY <1>3, <1>4, <1>5, Zenon
<1> QED
  BY <1>2, <1>4, <1>6

\* The elements of a sequence one longer.
LEMMA AppendAt ==
  ASSUME NEW S, NEW a \in Seq(S), NEW e \in S
  PROVE  /\ \A i \in 1..Len(a): Append(a, e)[i] = a[i]
         /\ Append(a, e)[Len(a) + 1] = e
BY AppendProperties

\* The fourth bit takes the first four bits off the stream.
LEMMA TakesFour ==
  \A k, b, w \in Seq(Bits):
    Len(k) = 3 /\ b # <<>> =>
      /\ (k \o b) \o w \in Seq(Bits) /\ Tail(b) \o w \in Seq(Bits)
      /\ Len((k \o b) \o w) = Len(Tail(b) \o w) + 4
      /\ \A i \in 1..Len(Tail(b) \o w): (Tail(b) \o w)[i] = ((k \o b) \o w)[i + 4]
      /\ Frame((k \o b) \o w, 1) = Frame(Append(k, Head(b)), 1)
<1> DEFINE S == Bits
<1> HIDE DEF S
<1> SUFFICES ASSUME NEW k \in Seq(S), NEW b \in Seq(S), NEW w \in Seq(S), Len(k) = 3, b # <<>>
             PROVE  /\ (k \o b) \o w \in Seq(S) /\ Tail(b) \o w \in Seq(S)
                    /\ Len((k \o b) \o w) = Len(Tail(b) \o w) + 4
                    /\ \A i \in 1..Len(Tail(b) \o w): (Tail(b) \o w)[i] = ((k \o b) \o w)[i + 4]
                    /\ Frame((k \o b) \o w, 1) = Frame(Append(k, Head(b)), 1)
  BY Zenon DEF S
<1> DEFINE kb == k \o b
<1> DEFINE s == kb \o w
<1> DEFINE z == Tail(b) \o w
<1>a. \A x, y \in Seq(S): /\ x \o y \in Seq(S) /\ Len(x \o y) = Len(x) + Len(y)
                          /\ \A i \in 1..Len(x) + Len(y):
                                (x \o y)[i] = IF i <= Len(x) THEN x[i] ELSE y[i - Len(x)]
  BY ConcatProperties
<1>1. /\ Tail(b) \in Seq(S) /\ Head(b) \in S /\ Len(b) = Len(Tail(b)) + 1
      /\ \A i \in 1..Len(Tail(b)): Tail(b)[i] = b[i + 1]
      /\ b[1] = Head(b)
  OBVIOUS
<1>3. z \in Seq(S) /\ Len(z) = Len(Tail(b)) + Len(w)
      /\ \A i \in 1..Len(Tail(b)) + Len(w):
            z[i] = IF i <= Len(Tail(b)) THEN Tail(b)[i] ELSE w[i - Len(Tail(b))]
  BY <1>a, <1>1, Zenon
<1>4. kb \in Seq(S) /\ Len(kb) = Len(k) + Len(b)
      /\ \A i \in 1..Len(k) + Len(b): kb[i] = IF i <= Len(k) THEN k[i] ELSE b[i - Len(k)]
  BY <1>a, Zenon
<1> HIDE DEF kb
<1>5. s \in Seq(S) /\ Len(s) = Len(kb) + Len(w)
      /\ \A i \in 1..Len(kb) + Len(w): s[i] = IF i <= Len(kb) THEN kb[i] ELSE w[i - Len(kb)]
  BY <1>a, <1>4, Zenon
<1>6. Len(b) \in Nat /\ Len(w) \in Nat /\ Len(Tail(b)) \in Nat /\ Len(b) >= 1
  BY <1>1
<1>7. Append(k, Head(b))[4] = Head(b) /\ \A i \in 1..3: Append(k, Head(b))[i] = k[i]
  <2>1. Len(k) + 1 = 4
    OBVIOUS
  <2> QED
    <3>1. Head(b) \in S
      BY <1>1
    <3>2. /\ \A i \in 1..Len(k): Append(k, Head(b))[i] = k[i]
          /\ Append(k, Head(b))[Len(k) + 1] = Head(b)
      BY <3>1, AppendAt
    <3> QED
      BY <2>1, <3>2
<1> HIDE DEF s, z
<1>8. Len(s) = Len(z) + 4
  BY <1>1, <1>3, <1>4, <1>5, <1>6
<1>9. ASSUME NEW i \in 1..Len(z)
      PROVE  z[i] = s[i + 4]
  <2>1. CASE i <= Len(Tail(b))
    <3>1. /\ i \in 1..Len(Tail(b)) + Len(w) /\ i \in 1..Len(Tail(b))
          /\ i + 4 \in 1..Len(kb) + Len(w) /\ i + 4 <= Len(kb)
          /\ i + 4 \in 1..Len(k) + Len(b) /\ ~(i + 4 <= Len(k)) /\ (i + 4) - Len(k) = i + 1
      BY <1>1, <1>3, <1>4, <1>6, <2>1
    <3>2. z[i] = Tail(b)[i]
      BY <1>3, <2>1, <3>1, Zenon
    <3>3. s[i + 4] = kb[i + 4]
      BY <1>5, <3>1, Zenon
    <3>4. kb[i + 4] = b[i + 1]
      BY <1>4, <3>1, Zenon
    <3>5. Tail(b)[i] = b[i + 1]
      BY <1>1, <3>1, Zenon
    <3> QED
      BY <3>2, <3>3, <3>4, <3>5, Zenon
  <2>2. CASE i > Len(Tail(b))
    <3>1. i + 4 \in 1..Len(kb) + Len(w) /\ ~(i + 4 <= Len(kb)) /\ ~(i <= Len(Tail(b)))
          /\ (i + 4) - Len(kb) = i - Len(Tail(b)) /\ i \in 1..Len(Tail(b)) + Len(w)
      BY <1>1, <1>3, <1>4, <1>6, <2>2
    <3> QED
      BY <1>3, <1>5, <3>1
  <2> QED
    BY <1>3, <1>6, <2>1, <2>2
<1>10. ASSUME NEW i \in 1..4
       PROVE  s[i] = Append(k, Head(b))[i]
  <2>1. i \in 1..Len(kb) + Len(w) /\ i <= Len(kb) /\ i \in 1..Len(k) + Len(b)
    BY <1>4, <1>6
  <2>2. s[i] = IF i <= 3 THEN k[i] ELSE b[i - 3]
    BY <1>4, <1>5, <2>1
  <2>3. CASE i = 4
    <3>1. s[4] = b[1]
      BY <2>2, <2>3
    <3> QED
      BY <1>1, <1>7, <2>3, <3>1, Zenon
  <2>4. CASE i \in 1..3
    <3>1. s[i] = k[i]
      BY <2>2, <2>4
    <3> QED
      BY <1>7, <2>4, <3>1, Zenon
  <2>5. i = 4 \/ i \in 1..3
    OBVIOUS
  <2> QED
    BY <2>3, <2>4, <2>5, Zenon
<1>11. Frame(s, 1) = Frame(Append(k, Head(b)), 1)
  <2>1. 1 \in 1..4 /\ 2 \in 1..4 /\ 3 \in 1..4 /\ 4 \in 1..4
    OBVIOUS
  <2>2. /\ s[1] = Append(k, Head(b))[1] /\ s[2] = Append(k, Head(b))[2]
        /\ s[3] = Append(k, Head(b))[3] /\ s[4] = Append(k, Head(b))[4]
    BY <1>10, <2>1, Zenon
  <2>3. 4*1 - 3 = 1 /\ 4*1 - 2 = 2 /\ 4*1 - 1 = 3 /\ 4*1 = 4
    OBVIOUS
  <2> QED
    BY <2>2, <2>3, Zenon DEF Frame
<1> QED
  BY <1>3, <1>5, <1>8, <1>9, <1>11, Zenon DEF s, z, kb

\* The queues of FrameInv are sequences of bits.
LEMMA StreamType ==
  ASSUME KeypadTypeOK
  PROVE  /\ Half \in Seq(Bits) /\ bitCh \in Seq(Bits) /\ keyBits \in Seq(Bits)
         /\ edges \in Seq(Bits) /\ pulses \in Seq(Bits)
         /\ Half \o bitCh \in Seq(Bits) /\ edges \o pulses \in Seq(Bits)
         /\ Stream \in Seq(Bits)
<1>1. /\ bitCh \in Seq(Bits) /\ keyBits \in Seq(Bits)
      /\ edges \in Seq(Bits) /\ pulses \in Seq(Bits) /\ <<>> \in Seq(Bits)
  BY DEF KeypadTypeOK, Bits
<1>2. Half \in Seq(Bits)
  BY <1>1, Zenon DEF Half
<1>3. \A x, y \in Seq(Bits): x \o y \in Seq(Bits)
  BY ConcatProperties
<1>4. Half \o bitCh \in Seq(Bits) /\ edges \o pulses \in Seq(Bits)
  BY <1>1, <1>2, <1>3, Zenon
<1>5. Stream \in Seq(Bits)
  BY <1>3, <1>4, Zenon DEF Stream
<1> QED
  BY <1>1, <1>2, <1>4, <1>5

\* A step keeps the frames.
LEMMA FrameStep ==
  ASSUME KeypadTypeOK, FrameInv, [KeypadNext]_keypadVars
  PROVE  FrameInv'
<1>0. read \in Seq(Keys) /\ typed \in Seq(Keys)
  BY DEF KeypadTypeOK, Keys
<1>m. \A x, y \in Seq(Bits): y # <<>> => Append(x, Head(y)) \o Tail(y) = x \o y
  BY HeadMovesOver
<1>s. ASSUME Stream' = Stream, read' = read, typed' = typed, intact' => intact,
             intact => (keyTimer' = "fired" /\ Half' # <<>> => late')
      PROVE  FrameInv'
  BY <1>s, Zenon DEF FrameInv
<1>1. ASSUME NEW bits \in Presses, Press(bits)
      PROVE  FrameInv'
  <2>1. bits \in Seq(Bits) /\ Len(bits) = 4
    BY PressType
  <2>2. /\ pulses = <<>> /\ edges = <<>> /\ pulses' = bits /\ edges' = edges
        /\ bitCh' = bitCh /\ Half' = Half /\ keyTimer' = keyTimer /\ late' = late
        /\ read' = read
    BY <1>1, Zenon DEF Press, locals, Half
  <2>3. <<>> \o <<>> = <<>> /\ <<>> \o bits = bits /\ (Half \o bitCh) \o <<>> = Half \o bitCh
    BY <2>1, StreamType, ConcatEmptySeq
  <2>4. Stream = Half \o bitCh /\ Stream' = (Half \o bitCh) \o bits
    BY <2>2, <2>3, Zenon DEF Stream
  <2>5. CASE intact /\ typed' = Append(typed, ParseKeypad4(bits))
    <3>1. Framed(Stream', read', typed')
      BY <1>0, <2>1, <2>2, <2>4, <2>5, StreamType, PressFrames, Zenon DEF FrameInv
    <3> QED
      BY <2>2, <2>5, <3>1, Zenon DEF FrameInv
  <2>6. CASE NothingOnItsWay /\ typed' = Append(read, ParseKeypad4(bits))
    <3>1. Half = <<>> /\ bitCh = <<>>
      BY <2>6 DEF NothingOnItsWay, Half
    <3>2. Half \o bitCh = <<>> /\ <<>> \in Seq(Bits)
      BY <2>3, <3>1
    <3>3. Framed(<<>>, read, read)
      BY <1>0 DEF Framed
    <3>4. Framed(Stream', read', typed')
      BY <1>0, <2>1, <2>2, <2>4, <2>6, <3>2, <3>3, PressFrames, Zenon
    <3> QED
      BY <2>2, <3>1, <3>4, Zenon DEF FrameInv
  <2>7. CASE ~intact'
    BY <2>7 DEF FrameInv
  <2> QED
    BY <1>1, <2>5, <2>6, <2>7 DEF Press
<1>2. CASE Pulse
  <2>1. /\ pulses # <<>> /\ edges' = Append(edges, Head(pulses)) /\ pulses' = Tail(pulses)
        /\ bitCh' = bitCh /\ Half' = Half /\ keyTimer' = keyTimer /\ intact' = intact
        /\ late' = late /\ read' = read /\ typed' = typed
    BY <1>2, Zenon DEF Pulse, locals, Half
  <2>2. edges' \o pulses' = edges \o pulses
    <3>1. Append(edges, Head(pulses)) \o Tail(pulses) = edges \o pulses
      BY <1>m, <2>1, StreamType, Zenon
    <3> QED
      BY <2>1, <3>1
  <2>3. Stream' = Stream
    BY <2>1, <2>2, Zenon DEF Stream
  <2> QED
    BY <1>s, <2>1, <2>3, Zenon DEF FrameInv
<1>3. ASSUME NEW b \in Bits, EnqueueBit(b)
      PROVE  FrameInv'
  <2>1. PICK i \in DOMAIN edges:
          /\ edges[i] = b
          /\ edges' = RemoveAt(edges, i)
          /\ bitCh' = IF Len(bitCh) < ChannelSize THEN Append(bitCh, b) ELSE bitCh
          /\ intact' = (intact /\ i = 1 /\ Len(bitCh) < ChannelSize)
          /\ UNCHANGED <<pulses, locals, typed, read, handed, late>>
    BY <1>3 DEF EnqueueBit
  <2>2. /\ pulses' = pulses /\ Half' = Half /\ keyTimer' = keyTimer
        /\ late' = late /\ read' = read /\ typed' = typed
    BY <2>1, Zenon DEF locals, Half
  <2>3. CASE ~intact'
    BY <2>3 DEF FrameInv
  <2>4. CASE intact'
    <3>1. intact /\ i = 1 /\ bitCh' = Append(bitCh, b)
      BY <2>1, <2>4
    <3>2. edges # <<>> /\ b = Head(edges) /\ edges' = Tail(edges)
      BY <2>1, <3>1, StreamType, RemoveAtOne
    <3>3. (Half \o Append(bitCh, Head(edges))) \o (Tail(edges) \o pulses) = Stream
      <4>1. /\ Half \in Seq(Bits) /\ bitCh \in Seq(Bits)
            /\ edges \in Seq(Bits) /\ pulses \in Seq(Bits) /\ edges # <<>>
        BY <3>2, StreamType
      <4>2. \A e, p \in Seq(Bits):
              e # <<>> => (Half \o Append(bitCh, Head(e))) \o (Tail(e) \o p)
                            = (Half \o bitCh) \o (e \o p)
        BY <4>1, EnqueueMoves
      <4>3. (Half \o Append(bitCh, Head(edges))) \o (Tail(edges) \o pulses)
               = (Half \o bitCh) \o (edges \o pulses)
        BY <4>1, <4>2, Zenon
      <4> QED
        BY <4>3, Zenon DEF Stream
    <3>4. Stream' = Stream
      BY <2>2, <3>1, <3>2, <3>3, Zenon DEF Stream
    <3> QED
      BY <1>s, <2>2, <3>1, <3>4, Zenon DEF FrameInv
  <2> QED
    BY <2>3, <2>4
<1>4. CASE TakeBit
  <2>1. /\ busy = "no" /\ busy' = "no" /\ bitCh # <<>>
        /\ keyBits' = Append(keyBits, Head(bitCh)) /\ bitCh' = Tail(bitCh)
        /\ keyTimer' = "running" /\ edges' = edges /\ pulses' = pulses
        /\ read' = read /\ typed' = typed /\ intact' = intact
    BY <1>4 DEF TakeBit
  <2>2. Half = keyBits /\ Half' = Append(keyBits, Head(bitCh))
    BY <2>1 DEF Half
  <2>3. Append(keyBits, Head(bitCh)) \o Tail(bitCh) = keyBits \o bitCh
    BY <1>m, <2>1, StreamType, Zenon
  <2>4. Stream' = Stream
    BY <2>1, <2>2, <2>3, Zenon DEF Stream
  <2>5. keyTimer' # "fired"
    BY <2>1
  <2> QED
    BY <1>s, <2>1, <2>4, <2>5, Zenon
<1>5. CASE TakeLastBit
  <2>1. PICK key \in Keys:
          /\ key = ParseKeypad4(Append(keyBits, Head(bitCh)))
          /\ read' = Append(read, key) /\ keys' = Append(keys, key)
          /\ \/ /\ Len(keys') < maxKeysPerCode /\ keyBits' = <<>> /\ UNCHANGED <<busy, handed>>
             \/ /\ Len(keys') = maxKeysPerCode /\ busy' = "full"
                /\ handed' = handed \o keys' /\ UNCHANGED keyBits
    BY <1>5, LastBit
  <2>2. /\ busy = "no" /\ bitCh # <<>> /\ Len(keyBits) = 3 /\ bitCh' = Tail(bitCh)
        /\ keyTimer' \in {"off", "running"}
        /\ edges' = edges /\ pulses' = pulses /\ typed' = typed /\ intact' = intact
    BY <1>5, Zenon DEF TakeLastBit
  <2>3. Half = keyBits /\ Half' = <<>>
    BY <2>1, <2>2 DEF Half
  <2>4. /\ Stream = (keyBits \o bitCh) \o (edges \o pulses)
        /\ Stream' = Tail(bitCh) \o (edges \o pulses)
    <3>1. <<>> \o Tail(bitCh) = Tail(bitCh)
      BY <2>2, StreamType, ConcatEmptySeq
    <3> QED
      BY <2>2, <2>3, <3>1, Zenon DEF Stream
  <2>5. /\ Stream' \in Seq(Bits) /\ Len(Stream) = Len(Stream') + 4
        /\ \A i \in 1..Len(Stream'): Stream'[i] = Stream[i + 4]
        /\ Frame(Stream, 1) = Frame(Append(keyBits, Head(bitCh)), 1)
    <3>1. keyBits \in Seq(Bits) /\ bitCh \in Seq(Bits) /\ edges \o pulses \in Seq(Bits)
          /\ Len(keyBits) = 3 /\ bitCh # <<>>
      BY <2>2, StreamType
    <3> QED
      <4> DEFINE w == edges \o pulses
      <4> DEFINE s == (keyBits \o bitCh) \o w
      <4> DEFINE z == Tail(bitCh) \o w
      <4>1. w \in Seq(Bits)
        BY <3>1
      <4>2. Stream = s /\ Stream' = z
        BY <2>4
      <4> HIDE DEF w
      <4>3. s \in Seq(Bits) /\ z \in Seq(Bits) /\ Len(s) = Len(z) + 4
        BY <3>1, <4>1, TakesFour, Zenon
      <4>4. \A i \in 1..Len(z): z[i] = s[i + 4]
        BY <3>1, <4>1, TakesFour, Zenon
      <4>5. Frame(s, 1) = Frame(Append(keyBits, Head(bitCh)), 1)
        BY <3>1, <4>1, TakesFour, Zenon
      <4> HIDE DEF s, z
      <4> QED
        BY <4>2, <4>3, <4>4, <4>5
  <2>6. key = ParseKeypad4(Frame(Stream, 1))
    <3> DEFINE bits == Append(keyBits, Head(bitCh))
    <3> HIDE DEF bits
    <3>1. Frame(bits, 1) = <<bits[1], bits[2], bits[3], bits[4]>>
      BY DEF Frame
    <3>2. ParseKeypad4(Frame(bits, 1)) = ParseKeypad4(bits)
      BY <3>1, ParseSame
    <3> QED
      BY <2>1, <2>5, <3>2 DEF bits
  <2>7. intact => Framed(Stream', read', typed)
    BY <1>0, <2>1, <2>5, <2>6, StreamType, ReadFrame DEF FrameInv
  <2> QED
    BY <2>2, <2>3, <2>7, Zenon DEF FrameInv
<1>6. CASE KeyTimeout
  <2>1. /\ busy = "no" /\ busy' = busy /\ keyTimer = "fired" /\ keyTimer' = "off" /\ keyBits' = <<>>
        /\ bitCh' = bitCh /\ edges' = edges /\ pulses' = pulses
        /\ read' = read /\ typed' = typed
        /\ intact' => intact /\ ~(late /\ keyBits # <<>>)
    BY <1>6, Zenon DEF KeyTimeout, wires
  <2>2. Half = keyBits /\ Half' = keyBits' /\ keyTimer' # "fired"
    BY <2>1 DEF Half
  <2>3. intact' => Half' = Half
    BY <2>1, <2>2, Zenon DEF FrameInv
  <2>4. intact' => Stream' = Stream
    BY <2>1, <2>3, Zenon DEF Stream
  <2> QED
    BY <2>1, <2>2, <2>4, Zenon DEF FrameInv
<1>7. CASE CodeTimeout
  <2>1. /\ busy = "no" /\ busy' \in {"no", "timeout"} /\ keyBits' = keyBits /\ keyTimer' = keyTimer
        /\ bitCh' = bitCh /\ edges' = edges /\ pulses' = pulses
        /\ read' = read /\ typed' = typed /\ intact' = intact /\ late' = late
    BY <1>7 DEF CodeTimeout, wires
  <2>2. Half' = Half
    BY <2>1 DEF Half
  <2>3. Stream' = Stream
    BY <2>1, <2>2, Zenon DEF Stream
  <2> QED
    BY <1>s, <2>1, <2>2, <2>3, Zenon DEF FrameInv
<1>8. CASE CodeReturns
  <2>1. /\ busy' = "no" /\ bitCh' = bitCh /\ edges' = edges /\ pulses' = pulses
        /\ read' = read /\ typed' = typed /\ intact' = intact /\ late' = late
        /\ \/ busy = "full" /\ keyTimer' = "off" /\ keyBits' = <<>>
           \/ busy = "timeout" /\ UNCHANGED <<keyTimer, keyBits>>
    BY <1>8 DEF CodeReturns, wires
  <2>2. Half' = Half /\ (keyTimer' = "fired" => keyTimer = "fired")
    BY <2>1 DEF Half
  <2>3. Stream' = Stream
    BY <2>1, <2>2, Zenon DEF Stream
  <2> QED
    BY <1>s, <2>1, <2>2, <2>3, Zenon DEF FrameInv
<1>9. CASE KeyTimerFires
  <2>1. /\ pulses = <<>> /\ edges = <<>> /\ (bitCh = <<>> \/ busy # "no")
        /\ late' = (busy = "timeout")
        /\ UNCHANGED <<wires, keyBits, busy, typed, read, intact>>
    BY <1>9 DEF KeyTimerFires
  <2>2. Stream' = Stream /\ Half' = Half
    BY <2>1, Zenon DEF wires, Stream, Half
  <2>3. CASE busy = "timeout"
    <3>1. late'
      BY <2>1, <2>3, Zenon
    <3> QED
      BY <1>s, <2>1, <2>2, <3>1, Zenon
  <2>4. CASE busy = "full"
    <3>1. Half = <<>>
      BY <2>4 DEF Half
    <3> QED
      BY <1>s, <2>1, <2>2, <3>1, Zenon
  <2>5. CASE busy = "no"
    <3>1. bitCh = <<>> /\ Half = keyBits
      BY <2>1, <2>5 DEF Half
    <3>2. keyBits \o <<>> = keyBits /\ <<>> \o <<>> = <<>>
      BY StreamType, ConcatEmptySeq
    <3>3. Stream = keyBits
      BY <2>1, <3>1, <3>2, Zenon DEF Stream
    <3>4. intact => Len(keyBits) = 4 * (Len(typed) - Len(read)) /\ Len(read) <= Len(typed)
      BY <3>3, Zenon DEF FrameInv, Framed
    <3>5. Len(keyBits) < 4
      BY DEF KeypadTypeOK
    <3>6. Len(typed) \in Nat /\ Len(read) \in Nat
      BY <1>0
    <3>7. intact => Len(keyBits) = 0
      BY <3>4, <3>5, <3>6
    <3>8. intact => Half = <<>>
      BY <3>1, <3>7, StreamType
    <3> QED
      BY <1>s, <2>1, <2>2, <3>8, Zenon
  <2> QED
    BY <2>3, <2>4, <2>5 DEF KeypadTypeOK
<1>10. CASE CodeTimerFires
  <2>1. /\ Half' = Half /\ Stream' = Stream /\ keyTimer' = keyTimer
        /\ read' = read /\ typed' = typed /\ intact' = intact /\ late' = late
    BY <1>10, Zenon DEF CodeTimerFires, wires, Stream, Half
  <2> QED
    BY <1>s, <2>1, Zenon DEF FrameInv
<1>11. CASE UNCHANGED keypadVars
  <2>1. /\ Half' = Half /\ Stream' = Stream /\ keyTimer' = keyTimer
        /\ read' = read /\ typed' = typed /\ intact' = intact /\ late' = late
    BY <1>11, Zenon DEF keypadVars, locals, wires, Stream, Half
  <2> QED
    BY <1>s, <2>1, Zenon DEF FrameInv
<1> QED
  BY <1>1, <1>2, <1>3, <1>4, <1>5, <1>6, <1>7, <1>8, <1>9, <1>10, <1>11, KeypadCases

\* At first nothing is on its way.
LEMMA FramesStart ==
  ASSUME KeypadInit
  PROVE  FrameInv
<1>1. Half = <<>> /\ <<>> \o <<>> = <<>> /\ keyTimer = "off"
  BY DEF KeypadInit, Half
<1>2. Stream = <<>>
  BY <1>1, Zenon DEF KeypadInit, Stream
<1>3. Framed(<<>>, <<>>, <<>>)
  BY DEF Framed
<1>4. Framed(Stream, read, typed)
  BY <1>2, <1>3, Zenon DEF KeypadInit
<1> QED
  BY <1>1, <1>4 DEF FrameInv

\* Whenever nothing is on its way and no damage is left, what was read is what
\* was typed: calls may take as long as they like, and a dropped bit, one that
\* overtakes another or a key cut in two spoils only what was on its way with it.
THEOREM AlwaysReadAsTyped == KeypadSpec => []ReadAsTyped
<1>1. ASSUME KeypadTypeOK, FrameInv
      PROVE  ReadAsTyped
  <2> SUFFICES ASSUME CaughtUp, intact
               PROVE  read = typed /\ keyBits = <<>>
    BY DEF ReadAsTyped
  <2>1. /\ bitCh = <<>> /\ edges = <<>> /\ pulses = <<>> /\ Half = keyBits
    BY DEF CaughtUp, Half
  <2>2. keyBits \o <<>> = keyBits /\ <<>> \o <<>> = <<>>
    BY <1>1, StreamType, ConcatEmptySeq
  <2>3. Stream = keyBits
    BY <2>1, <2>2, Zenon DEF Stream
  <2>4. /\ Len(read) <= Len(typed) /\ Len(keyBits) = 4 * (Len(typed) - Len(read))
        /\ \A i \in 1..Len(read): read[i] = typed[i]
    BY <1>1, <2>3, Zenon DEF FrameInv, Framed
  <2>5. Len(keyBits) < 4
    BY <1>1 DEF KeypadTypeOK
  <2>6. read \in Seq(Keys) /\ typed \in Seq(Keys)
    BY <1>1 DEF KeypadTypeOK, Keys
  <2>7. Len(read) \in Nat /\ Len(typed) \in Nat
    BY <2>6
  <2>8. Len(keyBits) = 0 /\ Len(read) = Len(typed)
    BY <2>4, <2>5, <2>7
  <2>9. keyBits = <<>>
    BY <1>1, <2>8, StreamType
  <2>10. read = typed
    BY <2>4, <2>6, <2>8, SeqEqual, Zenon
  <2> QED
    BY <2>9, <2>10
<1> QED
  BY <1>1, FramesStart, KeypadTypeCorrect, FrameStep, PTL DEF KeypadSpec

-----------------------------------------------------------------------------
(* The reader keeps its contract.                                          *)

\* The key that is read next is the next that was typed, while nothing is garbled.
LEMMA NextIsRead ==
  ASSUME KeypadTypeOK, FrameInv', TakeLastBit, intact
  PROVE  /\ Len(read) < Len(typed)
         /\ read' = Append(read, typed[Len(read) + 1])
<1>1. PICK key \in Keys: read' = Append(read, key)
  BY LastBit
<1>2. intact' /\ typed' = typed
  BY Zenon DEF TakeLastBit
<1>3. read \in Seq(Keys) /\ typed \in Seq(Keys)
  BY DEF KeypadTypeOK, Keys
<1>4. Len(read') <= Len(typed') /\ \A i \in 1..Len(read'): read'[i] = typed'[i]
  BY <1>2, Zenon DEF FrameInv, Framed
<1>5. Len(read') = Len(read) + 1 /\ read'[Len(read) + 1] = key /\ Len(read) \in Nat
  BY <1>1, <1>3
<1>6. Len(typed) \in Nat
  BY <1>3
<1>7. Len(read) + 1 \in 1..Len(read')
  BY <1>5
<1>8. key = typed[Len(read) + 1]
  BY <1>2, <1>4, <1>5, <1>7
<1> QED
  BY <1>1, <1>2, <1>4, <1>5, <1>6, <1>8

\* Every step is one of the contract, or none.
LEMMA KeypadContractStep ==
  ASSUME KeypadTypeOK, KeysConserved, KeysConserved', FrameInv', [KeypadNext]_keypadVars
  PROVE  [Contract!Next]_(Contract!readerVars)
<1>0. /\ keys \in Seq(Keys) /\ handed \in Seq(Keys) /\ read \in Seq(Keys)
      /\ maxKeysPerCode \in Nat
  BY KeypadReaderAssumption DEF KeypadTypeOK, Keys
<1>1. ASSUME NEW bits \in Presses, Press(bits)
      PROVE  Contract!Next
  <2>1. ParseKeypad4(bits) \in 0..12
    BY PressType, ParseType DEF Keys, Bits
  <2>2. CASE ~intact /\ NothingOnItsWay
    <3>1. Contract!Recover(ParseKeypad4(bits))
      BY <1>1, <2>2, Zenon DEF Press, Contract!Recover
    <3> QED
      BY <2>1, <3>1 DEF Contract!Next
  <2>3. CASE ~(~intact /\ NothingOnItsWay)
    <3>1. (intact \/ (~intact /\ NothingOnItsWay)) \in BOOLEAN /\ intact \in BOOLEAN
      BY Zenon DEF KeypadTypeOK
    <3>2. intact' = (intact \/ (~intact /\ NothingOnItsWay))
      BY <1>1, Zenon DEF Press
    <3>3. intact' = intact
      BY <2>3, <3>1, <3>2
    <3>4. typed' = Append(typed, ParseKeypad4(bits)) /\ UNCHANGED <<read, handed>>
      BY <1>1, <2>3, Zenon DEF Press
    <3>5. Contract!Type(ParseKeypad4(bits))
      BY <3>3, <3>4, Zenon DEF Contract!Type
    <3> QED
      BY <2>1, <3>5 DEF Contract!Next
  <2> QED
    BY <2>2, <2>3
<1>2. CASE TakeLastBit
  <2>1. PICK key \in Keys:
          /\ read' = Append(read, key) /\ keys' = Append(keys, key)
          /\ \/ /\ Len(keys') < maxKeysPerCode /\ keyBits' = <<>> /\ UNCHANGED <<busy, handed>>
             \/ /\ Len(keys') = maxKeysPerCode /\ busy' = "full"
                /\ handed' = handed \o keys' /\ UNCHANGED keyBits
    BY <1>2, LastBit
  <2>2. busy = "no" /\ read = handed \o keys /\ typed' = typed /\ intact' = intact
    BY <1>2, Zenon DEF TakeLastBit, KeysConserved
  <2>3. Len(read) = Len(handed) + Len(keys)
    BY <1>0, <2>2
  <2>4. Len(read') = Len(read) + 1 /\ Len(keys') = Len(keys) + 1
    BY <1>0, <2>1
  <2>5. Len(read') - Len(handed) = Len(keys')
    BY <1>0, <2>3, <2>4
  <2>6. \/ Len(read') - Len(handed) < maxKeysPerCode /\ handed' = handed
        \/ Len(read') - Len(handed) = maxKeysPerCode /\ handed' = read'
    <3>1. CASE Len(keys') < maxKeysPerCode /\ handed' = handed
      BY <2>5, <3>1
    <3>2. CASE Len(keys') = maxKeysPerCode /\ busy' = "full" /\ handed' = handed \o keys'
      <4>1. handed' = read'
        <5>1. handed \o Append(keys, key) = Append(handed \o keys, key)
          BY <1>0, AppendToSecond
        <5> QED
          BY <2>1, <2>2, <3>2, <5>1
      <4> QED
        BY <2>5, <3>2, <4>1
    <3> QED
      BY <2>1, <3>1, <3>2
  <2>7. Contract!Read(key)
    BY <2>1, <2>2, <2>6 DEF Contract!Read
  <2>8. CASE intact
    <3>1. Len(read) < Len(typed) /\ read' = Append(read, typed[Len(read) + 1])
      BY <1>2, <2>8, NextIsRead
    <3>2. Contract!Read(typed[Len(read) + 1])
      BY <2>2, <2>6, <3>1 DEF Contract!Read
    <3> QED
      BY <2>8, <3>1, <3>2 DEF Contract!Next, Contract!NextKey
  <2>9. CASE ~ intact
    BY <2>7, <2>9 DEF Contract!Next, Contract!Misread, Keys
  <2> QED
    BY <2>8, <2>9
<1>3. CASE CodeTimeout
  <2>1. busy = "no" /\ typed' = typed /\ read' = read /\ intact' = intact
    BY <1>3, Zenon DEF CodeTimeout
  <2>2. read = handed \o keys
    BY <2>1 DEF KeysConserved
  <2>3. CASE keys # <<>> /\ handed' = handed \o keys
    <3>1. handed' = read'
      BY <2>1, <2>2, <2>3
    <3>2. handed # read
      <4>1. Len(keys) > 0
        BY <1>0, <2>3
      <4>2. Len(read) = Len(handed) + Len(keys)
        BY <1>0, <2>2
      <4> QED
        BY <1>0, <4>1, <4>2
    <3>3. Contract!HandOver
      BY <2>1, <3>1, <3>2 DEF Contract!HandOver
    <3> QED
      BY <3>3 DEF Contract!Next
  <2>4. CASE handed' = handed
    BY <2>1, <2>4 DEF Contract!readerVars
  <2> QED
    BY <1>3, <2>3, <2>4 DEF CodeTimeout
<1>4. CASE (\E b \in Bits: EnqueueBit(b)) \/ KeyTimeout
  <2>1. /\ typed' = typed /\ read' = read /\ handed' = handed
        /\ intact \in BOOLEAN /\ intact' \in BOOLEAN /\ (intact' => intact)
    BY <1>4, Zenon DEF EnqueueBit, KeyTimeout, KeypadTypeOK
  <2>2. intact' = FALSE \/ intact' = intact
    BY <2>1
  <2> QED
    BY <2>1, <2>2 DEF Contract!Next, Contract!Garble, Contract!readerVars
<1>5. ASSUME Pulse \/ TakeBit \/ KeyTimerFires \/ CodeReturns \/ CodeTimerFires
             \/ UNCHANGED keypadVars
      PROVE  UNCHANGED Contract!readerVars
  BY <1>5 DEF Pulse, TakeBit, KeyTimerFires, CodeReturns, CodeTimerFires, keypadVars,
              Contract!readerVars
<1> QED
  BY <1>1, <1>2, <1>3, <1>4, <1>5, KeypadCases

\* Bits, channel, timers and calls together do what KeypadContract says, its
\* liveness apart: what was typed is read in its turn except while something
\* is garbled, and what was read is handed over once, in codes that are not too long.
THEOREM ReaderKeepsContract == KeypadSpec => Contract!SafeSpec
<1>1. KeypadInit => Contract!Init
  BY Zenon DEF KeypadInit, Contract!Init
<1>2. ASSUME KeypadTypeOK, FrameInv, KeysConserved, KeysConserved', [KeypadNext]_keypadVars
      PROVE  [Contract!Next]_(Contract!readerVars)
  BY <1>2, FrameStep, KeypadContractStep
<1> QED
  BY <1>1, <1>2, FramesStart, FrameStep, KeypadTypeCorrect, KeysAlwaysConserved, PTL
     DEF KeypadSpec, Contract!SafeSpec

-----------------------------------------------------------------------------
(* What the contract is worth by itself.                                   *)

\* Beginnings of a sequence, and what appending does to them.
LEMMA BeginningsGrow ==
  ASSUME NEW S, NEW p \in Seq(S), NEW q \in Seq(S), NEW e \in S, Contract!Begins(p, q)
  PROVE  /\ Contract!Begins(p, Append(q, e))
         /\ Len(p) < Len(q) => Contract!Begins(Append(p, q[Len(p) + 1]), q)
         /\ Contract!Begins(q, q)
BY DEF Contract!Begins

\* A beginning of a beginning is a beginning.
LEMMA BeginningsChain ==
  ASSUME NEW S, NEW p \in Seq(S), NEW q \in Seq(S), NEW r \in Seq(S),
         Contract!Begins(p, q), Contract!Begins(q, r)
  PROVE  Contract!Begins(p, r)
BY DEF Contract!Begins

\* The three histories of keys; a code has not been full for long.
HistoryInv ==
  /\ typed \in Seq(Keys) /\ read \in Seq(Keys) /\ handed \in Seq(Keys)
  /\ intact \in BOOLEAN
  /\ Contract!Begins(handed, read)
  /\ Len(read) - Len(handed) < maxKeysPerCode
  /\ intact => Contract!Begins(read, typed)

\* The contract alone has the gate get the keys in the order of typing, each
\* once: what implements it needs no other argument.
THEOREM ContractKeepsOrder == Contract!SafeSpec => []Contract!HadInOrder
<1>1. Contract!Init => HistoryInv
  <2> SUFFICES ASSUME Contract!Init
               PROVE  HistoryInv
    OBVIOUS
  <2>1. typed = <<>> /\ read = <<>> /\ handed = <<>> /\ intact \in BOOLEAN
    BY Zenon DEF Contract!Init
  <2> QED
    BY <2>1, KeypadReaderAssumption DEF HistoryInv, Contract!Begins
<1>2. HistoryInv /\ [Contract!Next]_(Contract!readerVars) => HistoryInv'
  <2> SUFFICES ASSUME HistoryInv, [Contract!Next]_(Contract!readerVars)
               PROVE  HistoryInv'
    OBVIOUS
  <2>1. ASSUME NEW k \in Keys, Contract!Type(k)
        PROVE  HistoryInv'
    <3>1. intact' = intact /\ read' = read /\ handed' = handed /\ typed' = Append(typed, k)
      BY <2>1, Zenon DEF Contract!Type
    <3>2. intact => Contract!Begins(read, typed')
      BY <3>1, BeginningsGrow DEF HistoryInv
    <3> QED
      BY <3>1, <3>2 DEF HistoryInv, Contract!Begins
  <2>8. ASSUME NEW k \in Keys, Contract!Recover(k)
        PROVE  HistoryInv'
    <3>1. intact' = TRUE /\ read' = read /\ handed' = handed /\ typed' = Append(read, k)
      BY <2>8, Zenon DEF Contract!Recover
    <3>2. Contract!Begins(read, typed') /\ typed' \in Seq(Keys)
      BY <3>1, BeginningsGrow DEF HistoryInv, Contract!Begins
    <3> QED
      BY <3>1, <3>2 DEF HistoryInv, Contract!Begins
  <2>2. CASE Contract!Garble
    BY <2>2 DEF Contract!Garble, HistoryInv, Contract!Begins
  <2>3. ASSUME NEW k \in Keys, Contract!Read(k),
               intact => Len(read) < Len(typed) /\ k = typed[Len(read) + 1]
        PROVE  HistoryInv'
    <3>1. read' = Append(read, k) /\ typed' = typed /\ intact' = intact
      BY <2>3, Zenon DEF Contract!Read
    <3>2. read' \in Seq(Keys) /\ Len(read') = Len(read) + 1
      BY <3>1 DEF HistoryInv
    <3>3. Contract!Begins(handed, read') /\ Contract!Begins(read', read')
      BY <3>1, <3>2, BeginningsGrow DEF HistoryInv
    <3>4. intact => Contract!Begins(read', typed)
      BY <2>3, <3>1, BeginningsGrow DEF HistoryInv
    <3>5. \/ handed' = handed /\ Len(read') - Len(handed) < maxKeysPerCode
          \/ handed' = read'
      BY <2>3 DEF Contract!Read
    <3>6. Contract!Begins(handed', read') /\ handed' \in Seq(Keys)
      BY <3>2, <3>3, <3>5 DEF HistoryInv
    <3>7. Len(read') - Len(handed') < maxKeysPerCode
      BY <3>2, <3>5, KeypadReaderAssumption
    <3> QED
      BY <3>1, <3>2, <3>4, <3>6, <3>7 DEF HistoryInv, Contract!Begins
  <2>4. CASE Contract!HandOver
    <3>1. handed' = read /\ read' = read /\ typed' = typed /\ intact' = intact
      BY <2>4, Zenon DEF Contract!HandOver
    <3>2. Contract!Begins(read, read) /\ Len(read) - Len(read) < maxKeysPerCode
      BY KeypadReaderAssumption DEF HistoryInv, Contract!Begins
    <3> QED
      BY <3>1, <3>2 DEF HistoryInv, Contract!Begins
  <2>5. CASE UNCHANGED Contract!readerVars
    BY <2>5 DEF Contract!readerVars, HistoryInv, Contract!Begins
  <2>6. Contract!NextKey => HistoryInv'
    <3> SUFFICES ASSUME Contract!NextKey
                 PROVE  HistoryInv'
      OBVIOUS
    <3>1. Len(read) < Len(typed) /\ Contract!Read(typed[Len(read) + 1])
      BY DEF Contract!NextKey
    <3>2. typed[Len(read) + 1] \in Keys
      BY <3>1 DEF HistoryInv
    <3> QED
      BY <2>3, <3>1, <3>2
  <2>7. Contract!Misread => HistoryInv'
    BY <2>3 DEF Contract!Misread, Keys
  <2> QED
    BY <2>1, <2>2, <2>4, <2>5, <2>6, <2>7, <2>8 DEF Contract!Next, Keys
<1>3. HistoryInv => Contract!HadInOrder
  BY BeginningsChain DEF HistoryInv, Contract!HadInOrder
<1> QED
  BY <1>1, <1>2, <1>3, PTL DEF Contract!SafeSpec

=============================================================================
