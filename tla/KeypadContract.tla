--------------------------- MODULE KeypadContract ---------------------------
(***************************************************************************)
(* What the keypad reader promises to the gate and to whoever types,       *)
(* without bits, channels and timers: keys are read one after the other,   *)
(* as they were typed except while something is garbled; those read are    *)
(* handed over in codes, each once and in the order of reading, at once    *)
(* when a code is full, and otherwise after a while.                       *)
(***************************************************************************)
EXTENDS Naturals, Sequences

CONSTANTS
  Keys,
  MaxKeys   \* longest code

VARIABLES
  typed,    \* keys typed so far; after a garble, counted anew from those read
  read,     \* keys read so far
  handed,   \* keys handed over so far, code after code
  intact    \* nothing is left of what was garbled

readerVars == <<typed, read, handed, intact>>

Init == typed = <<>> /\ read = <<>> /\ handed = <<>> /\ intact = TRUE

Type(k) == typed' = Append(typed, k) /\ UNCHANGED <<read, handed, intact>>

\* What was garbled has gone by: the next key is typed, and keys are read as they
\* were typed again.
Recover(k) ==
  /\ ~ intact
  /\ typed' = Append(read, k)
  /\ intact' = TRUE
  /\ UNCHANGED <<read, handed>>

Garble == intact' = FALSE /\ UNCHANGED <<typed, read, handed>>

\* One more key is read, and with the last key of a code the code is handed over.
Read(k) ==
  /\ read' = Append(read, k)
  /\ \/ Len(read') - Len(handed) < MaxKeys /\ UNCHANGED handed
     \/ Len(read') - Len(handed) = MaxKeys /\ handed' = read'
  /\ UNCHANGED <<typed, intact>>

NextKey == intact /\ Len(read) < Len(typed) /\ Read(typed[Len(read) + 1])

Misread == ~ intact /\ \E k \in Keys: Read(k)

\* The keys that wait are handed over as a code.
HandOver == handed # read /\ handed' = read /\ UNCHANGED <<typed, read, intact>>

Next ==
  \/ \E k \in Keys: Type(k) \/ Recover(k)
  \/ Garble \/ NextKey \/ Misread \/ HandOver

SafeSpec == Init /\ [][Next]_readerVars

Spec == SafeSpec /\ WF_readerVars(NextKey) /\ WF_readerVars(HandOver)

-----------------------------------------------------------------------------
(* What follows from the contract.                                         *)

Begins(p, q) == Len(p) <= Len(q) /\ p = SubSeq(q, 1, Len(p))

\* The gate has had the keys in the order in which they were typed, none twice
\* and none left out, less than a code behind what was read.
HadInOrder ==
  /\ Begins(handed, read)
  /\ Len(read) - Len(handed) < MaxKeys
  /\ intact => Begins(read, typed) /\ Begins(handed, typed)

=============================================================================
