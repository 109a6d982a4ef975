---------------------------- MODULE KeypadReader ----------------------------
(***************************************************************************)
(* The keypad reader of pigate/pkg/gate/keypad.go.                         *)
(*                                                                         *)
(* A press on the keypad is four pulses on two lines, D0 for the bit 0 and *)
(* D1 for the bit 1.  Each line has an edge handler in a goroutine of its  *)
(* own, which enqueues the bit without blocking.  The goroutine run()      *)
(* selects among the bits and two timers, makes a key of every four bits   *)
(* and a code of up to five keys, and calls the gate with the code, in the *)
(* middle of its loop.                                                     *)
(*                                                                         *)
(* Time is abstracted to what the two timers see.  A press is over, its    *)
(* pulses handled and, unless run() is busy with a call, its bits taken    *)
(* before 100 ms have passed; 3 s after a key may be at any moment.  A     *)
(* call, which queries a database, may take longer than either timer.      *)
(***************************************************************************)
EXTENDS Integers, SequencesExt

CONSTANTS
  Presses,          \* the keys somebody types: sequences of four bits
  maxKeysPerCode,
  ChannelSize,      \* capacity of bitCh
  MaxPresses        \* bound: keys that are typed

ASSUME KeypadReaderAssumption ==
  /\ Presses \subseteq [1..4 -> 0..1]
  /\ maxKeysPerCode \in Nat \ {0}
  /\ ChannelSize \in Nat \ {0}
  /\ MaxPresses \in Nat

VARIABLES
  pulses,     \* bits of the present press still to come
  edges,      \* bits not yet handled by the edge handlers, oldest first
  bitCh,      \* the channel of bits
  keyBits, keys, keyTimer, codeTimer,   \* locals of run()
  busy,       \* the call of onCodeReceived run() is in: "no", "full", "timeout"
  \* History, read by properties only:
  typed,      \* keys typed so far; after a damage they are counted anew, from
              \* what had been read when nothing of it was left
  read,       \* keys read so far
  handed,     \* keys handed over so far, code after code
  intact,     \* nothing is left of a damage: of a dropped bit, of one that
              \* overtook another, of half a key that a call made late
  late        \* the key timer fired last in the call for a code cut short

wires == <<pulses, edges, bitCh>>
locals == <<keyBits, keys, keyTimer, codeTimer, busy>>
keypadVars == <<wires, locals, typed, read, handed, intact, late>>

Value(bits) == 8 * bits[1] + 4 * bits[2] + 2 * bits[3] + bits[4]

\* Mutant of ParseKeypad4: the other values are keys of their own.
ParseKeypad4Raw(bits) == Value(bits)

\* 0-9, then * and #; the other four values are all the key "?", here 12.
ParseKeypad4(bits) == IF Value(bits) < 12 THEN Value(bits) ELSE 12

TimerStates == {"off", "running", "fired"}

KeypadTypeOK ==
  /\ pulses \in Seq(0..1) /\ edges \in Seq(0..1)
  /\ bitCh \in Seq(0..1) /\ keyBits \in Seq(0..1)
  /\ Len(bitCh) <= ChannelSize /\ Len(keyBits) < 4
  /\ keys \in Seq(0..12) /\ handed \in Seq(0..12)
  /\ typed \in Seq(0..12) /\ read \in Seq(0..12)
  /\ Len(keys) <= maxKeysPerCode
  /\ keyTimer \in TimerStates /\ codeTimer \in TimerStates
  /\ busy \in {"no", "full", "timeout"}
  /\ intact \in BOOLEAN /\ late \in BOOLEAN

KeypadInit ==
  /\ pulses = <<>> /\ edges = <<>> /\ bitCh = <<>>
  /\ keyBits = <<>> /\ keys = <<>>
  /\ keyTimer = "off" /\ codeTimer = "off"
  /\ busy = "no"
  /\ typed = <<>> /\ read = <<>> /\ handed = <<>>
  /\ intact = TRUE /\ late = FALSE

-----------------------------------------------------------------------------
(* The wires.                                                              *)

\* No bit of a key is on its way: a full code has made a key of those it keeps.
NothingOnItsWay ==
  pulses = <<>> /\ edges = <<>> /\ bitCh = <<>> /\ (keyBits = <<>> \/ busy = "full")

\* A key is pressed, well after the one before.
Press(bits) ==
  LET anew == ~intact /\ NothingOnItsWay
      before == IF anew THEN read ELSE typed
  IN
  /\ pulses = <<>> /\ edges = <<>>
  /\ bitCh = <<>> \/ busy # "no"
  /\ keyBits = <<>> \/ busy # "no"
  /\ Len(before) < MaxPresses
  /\ pulses' = bits
  /\ typed' = Append(before, ParseKeypad4(bits))
  /\ intact' = (intact \/ anew)
  /\ UNCHANGED <<edges, bitCh, locals, read, handed, late>>

Pulse ==
  /\ pulses # <<>>
  /\ edges' = Append(edges, Head(pulses))
  /\ pulses' = Tail(pulses)
  /\ UNCHANGED <<bitCh, locals, typed, read, handed, intact, late>>

\* enqueueBit, called by the handler of line b for its oldest edge, which need
\* not be the oldest of both lines.  A full channel drops the bit.
EnqueueBit(b) ==
  \E i \in DOMAIN edges:
    /\ edges[i] = b
    /\ \A j \in 1..i-1: edges[j] # b
    /\ edges' = RemoveAt(edges, i)
    /\ bitCh' = IF Len(bitCh) < ChannelSize THEN Append(bitCh, b) ELSE bitCh
    /\ intact' = (intact /\ i = 1 /\ Len(bitCh) < ChannelSize)
    /\ UNCHANGED <<pulses, locals, typed, read, handed, late>>

-----------------------------------------------------------------------------
(* run().                                                                  *)

\* A bit that does not complete a key.
TakeBit ==
  /\ busy = "no"
  /\ bitCh # <<>>
  /\ Len(keyBits) < 3
  /\ keyBits' = Append(keyBits, Head(bitCh))
  /\ bitCh' = Tail(bitCh)
  /\ keyTimer' = "running"
  /\ UNCHANGED <<pulses, edges, keys, codeTimer, busy, typed, read, handed, intact, late>>

\* Mutant of RestartCodeTimer: the timer of the code is left as it is.
ForgetCodeTimer == UNCHANGED codeTimer

RestartCodeTimer == codeTimer' = "running"

\* The fourth bit: a key, and with the last key a code, which is handed over
\* while the two timers run.
TakeLastBit ==
  LET key == ParseKeypad4(Append(keyBits, Head(bitCh))) IN
  /\ busy = "no"
  /\ bitCh # <<>>
  /\ Len(keyBits) = 3
  /\ bitCh' = Tail(bitCh)
  /\ read' = Append(read, key)
  /\ keys' = Append(keys, key)
  /\ RestartCodeTimer
  /\ \/ /\ Len(keys') < maxKeysPerCode
        /\ keyBits' = <<>>
        /\ keyTimer' = "off"
        /\ UNCHANGED <<busy, handed>>
     \/ /\ Len(keys') = maxKeysPerCode
        /\ busy' = "full"
        /\ handed' = handed \o keys'
        /\ keyTimer' = "running"
        /\ UNCHANGED keyBits
  /\ UNCHANGED <<pulses, edges, typed, intact, late>>

\* Mutant of KeyTimeout: the timer is not noticed to be over, the bits stay.
KeyTimeoutKeepsBits ==
  /\ busy = "no"
  /\ keyTimer = "fired"
  /\ keyTimer' = "off"
  /\ UNCHANGED <<wires, keyBits, keys, codeTimer, busy, typed, read, handed, intact, late>>

\* The gap inside a key is too long, or run() was too long in a call to take the
\* next bit: the bits are discarded.
KeyTimeout ==
  /\ busy = "no"
  /\ keyTimer = "fired"
  /\ keyTimer' = "off"
  /\ keyBits' = <<>>
  /\ intact' = (intact /\ ~(late /\ keyBits # <<>>))
  /\ UNCHANGED <<wires, keys, codeTimer, busy, typed, read, handed, late>>

\* The gap between keys is too long: what there is is handed over.
CodeTimeout ==
  /\ busy = "no"
  /\ codeTimer = "fired"
  /\ codeTimer' = "off"
  /\ \/ /\ keys # <<>>
        /\ busy' = "timeout"
        /\ handed' = handed \o keys
     \/ /\ keys = <<>>
        /\ UNCHANGED <<busy, handed>>
  /\ UNCHANGED <<wires, keyBits, keys, keyTimer, typed, read, intact, late>>

\* Mutant of CodeReturns: the keys that were handed over are kept.
CodeReturnsKeepsKeys ==
  /\ busy # "no"
  /\ busy' = "no"
  /\ \/ /\ busy = "full"
        /\ keys' = <<>>
        /\ codeTimer' = "off" /\ keyTimer' = "off" /\ keyBits' = <<>>
     \/ busy = "timeout" /\ UNCHANGED <<keys, codeTimer, keyTimer, keyBits>>
  /\ UNCHANGED <<wires, typed, read, handed, intact, late>>

\* Mutant of CodeReturns: a key that is half read is dropped with the code.
CodeReturnsClears ==
  /\ busy # "no"
  /\ busy' = "no"
  /\ keys' = <<>> /\ keyBits' = <<>>
  /\ keyTimer' = "off" /\ codeTimer' = "off"
  /\ UNCHANGED <<wires, typed, read, handed, intact, late>>

\* onCodeReceived returns.  After a full code both timers are stopped and
\* drained; after a code timeout a key may be half read, and its timer may have
\* fired meanwhile.
CodeReturns ==
  /\ busy # "no"
  /\ busy' = "no"
  /\ keys' = <<>>
  /\ \/ /\ busy = "full"
        /\ codeTimer' = "off" /\ keyTimer' = "off" /\ keyBits' = <<>>
     \/ busy = "timeout" /\ UNCHANGED <<codeTimer, keyTimer, keyBits>>
  /\ UNCHANGED <<wires, typed, read, handed, intact, late>>

-----------------------------------------------------------------------------
(* Time.                                                                   *)

\* 100 ms since the last bit was taken: there is none left of its press, or
\* run() has not come to take it.
KeyTimerFires ==
  /\ keyTimer = "running"
  /\ pulses = <<>> /\ edges = <<>>
  /\ bitCh = <<>> \/ busy # "no"
  /\ keyTimer' = "fired"
  /\ late' = (busy = "timeout")
  /\ UNCHANGED <<wires, keyBits, keys, codeTimer, busy, typed, read, handed, intact>>

\* 3 s since the last key.
CodeTimerFires ==
  /\ codeTimer = "running"
  /\ codeTimer' = "fired"
  /\ UNCHANGED <<wires, keyBits, keys, keyTimer, busy, typed, read, handed, intact, late>>

-----------------------------------------------------------------------------
Run == TakeBit \/ TakeLastBit \/ KeyTimeout \/ CodeTimeout

KeypadNext ==
  \/ \E bits \in Presses: Press(bits)
  \/ Pulse
  \/ \E b \in 0..1: EnqueueBit(b)
  \/ Run
  \/ CodeReturns
  \/ KeyTimerFires
  \/ CodeTimerFires

\* Timers fire, run() and the handlers are run, and every query behind
\* onCodeReceived has a timeout.  select is fair to a timer that has fired:
\* Go chooses among the ready cases at random.
KeypadFairness ==
  /\ WF_keypadVars(Pulse)
  /\ \A b \in 0..1: WF_keypadVars(EnqueueBit(b))
  /\ WF_keypadVars(Run)
  /\ WF_keypadVars(CodeReturns)
  /\ WF_keypadVars(KeyTimerFires)
  /\ WF_keypadVars(CodeTimerFires)

KeypadSpec == KeypadInit /\ [][KeypadNext]_keypadVars /\ KeypadFairness

-----------------------------------------------------------------------------
(* Properties.                                                             *)

\* The keys that were handed over and those that wait for the end of their code
\* are the keys that were read: whichever of the two cases ends a code, and
\* whatever the timers do during the call, none is handed over twice or dropped.
KeysConserved == handed \o (IF busy = "no" THEN keys ELSE <<>>) = read

\* Half a key or half a code never waits without a timer, so that a press that
\* lost a pulse does not shift the frames of everybody after.
HalvesAreTimed ==
  busy = "no" => /\ keyBits # <<>> => keyTimer # "off"
                 /\ keys # <<>> => codeTimer # "off"

\* The keys that were read are the keys that were typed, however many were typed
\* during a call and however long it took.  Three things damage the reading: a
\* dropped bit, one that overtakes another, and half a key discarded because
\* its timer fired in the call for a code cut short.  No damage outlives what
\* was on its way: from the next press after that, keys are read as typed.
CaughtUp == pulses = <<>> /\ edges = <<>> /\ bitCh = <<>> /\ busy = "no"
ReadAsTyped == CaughtUp /\ intact => read = typed /\ keyBits = <<>>

\* Without bits and timers: until something is garbled every typed key is read,
\* in its turn and in the end, and whatever happens the keys that were read are
\* handed to the gate, in the end, each once, in codes that are not too long.
Contract == INSTANCE KeypadContract WITH Keys <- 0..12, MaxKeys <- maxKeysPerCode
KeepsKeypadContract == Contract!Spec

=============================================================================
