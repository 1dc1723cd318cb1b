------------------------------ MODULE FlashDb ------------------------------
(***************************************************************************)
(* The configuration database of the application, db.c: integer items in   *)
(* RAM, changed one by one or with a JSON string, saved to a flash page as *)
(* the items and a checksum and restored at the start. Power can fail at   *)
(* any point, also between the two half words of a word.                   *)
(***************************************************************************)
EXTENDS Integers

CONSTANTS
    NumInts,      \* NUM_INTS, the last of them without a name
    Half,         \* a half word counts modulo this number
    Values,       \* what items are set to
    Factory,      \* the initializer of db.intArray
    NONE

Word == 0..Half * Half - 1
Items == 1..NumInts

ASSUME FlashAssumption ==
    /\ NumInts \in Nat \ {0} /\ Half \in Nat \ {0, 1}
    /\ Values \subseteq Word /\ Factory \in [Items -> Values]
    /\ NONE \notin [Items -> Word]

VARIABLES
    intArray, Checksum,   \* db, in RAM
    flash,                \* the words of the page, the last is the checksum
    stage,                \* "ready", or how far dbSave() is
    item,                 \* its loop counter i
    asked,                \* history: the items to be saved when the page was last erased
    durable               \* history: the same once that save has returned 0

ram == <<intArray, Checksum>>
dbvars == <<ram, flash, stage, item, durable, asked>>

Erased == [n \in 1..NumInts + 1 |-> Half * Half - 1]

FlashTypeOK ==
    /\ intArray \in [Items -> Word]
    /\ Checksum \in Word
    /\ flash \in [1..NumInts + 1 -> Word]
    /\ stage \in {"ready", "erase", "low", "high", "verify"}
    /\ item \in 1..NumInts + 1
    /\ durable \in [Items -> Word] \cup {NONE}
    /\ asked \in [Items -> Word] \cup {NONE}

FlashInit ==
    /\ intArray = Factory /\ Checksum = 0
    /\ flash = Erased
    /\ stage = "ready" /\ item = 1
    /\ durable = NONE /\ asked = NONE

----------------------------------------------------------------------------
(* Changes in RAM *)

dbSetInt ==
    /\ stage = "ready"
    /\ \E n \in Items, v \in Values : intArray' = [intArray EXCEPT ![n] = v]
    /\ UNCHANGED <<Checksum, flash, stage, item, durable, asked>>

\* Several named items at once; a string with an unknown name changes none.
dbSetJSON ==
    /\ stage = "ready"
    /\ \E named \in SUBSET (1..NumInts - 1) : \E v \in [named -> Values] :
          intArray' = [n \in Items |-> IF n \in named THEN v[n] ELSE intArray[n]]
    /\ UNCHANGED <<Checksum, flash, stage, item, durable, asked>>

----------------------------------------------------------------------------
(* dbSave() *)

Sum(items) ==
    LET sum[n \in 0..NumInts] ==
            IF n = 0 THEN 0 ELSE (sum[n - 1] + items[n]) % (Half * Half)
    IN sum[NumInts]

NewChecksum == Sum(intArray)

dbSave ==
    /\ stage = "ready"
    /\ stage' = "erase"
    /\ UNCHANGED <<ram, flash, item, durable, asked>>

\* The page is erased; an error may be reported before or after that.
EraseFails ==
    /\ stage = "erase"
    /\ \/ UNCHANGED <<flash, durable, asked>>
       \/ flash' = Erased /\ durable' = NONE /\ asked' = intArray
    /\ stage' = "ready"
    /\ UNCHANGED <<ram, item>>

Erase ==
    /\ stage = "erase"
    /\ flash' = Erased
    /\ Checksum' = NewChecksum
    /\ stage' = "low" /\ item' = 1
    /\ durable' = NONE /\ asked' = intArray
    /\ UNCHANGED intArray

Data(n) == IF n <= NumInts THEN intArray[n] ELSE Checksum

\* Faulty: the cast to a half word is missing.
Uncut(word) == word

LowHalf(word) == word % Half
HighHalf(word) == word \div Half

\* FLASH_ProgramWord() writes one half word after the other. A worn out cell
\* keeps its erased half word, and nobody tells.
ProgramLow ==
    /\ stage = "low"
    /\ \/ flash' = [flash EXCEPT ![item] = HighHalf(@) * Half + LowHalf(Data(item))]
       \/ UNCHANGED flash
    /\ stage' = "high"
    /\ UNCHANGED <<ram, item, durable, asked>>

ProgramHigh ==
    /\ stage = "high"
    /\ \/ flash' = [flash EXCEPT ![item] = HighHalf(Data(item)) * Half + LowHalf(@)]
       \/ UNCHANGED flash
    /\ stage' = "verify"
    /\ UNCHANGED <<ram, item, durable, asked>>

\* An error is reported: dbSave() returns 3.
ProgramFails ==
    /\ stage \in {"low", "high", "verify"}
    /\ stage' = "ready"
    /\ UNCHANGED <<ram, flash, item, durable, asked>>

\* Faulty: what was written is not read back.
Trusted(n) == TRUE

Verified(n) == flash[n] = Data(n)

\* dbSave() returns 2 when the word differs, 0 behind the last one.
Verify ==
    /\ stage = "verify"
    /\ \/ ~Verified(item) /\ stage' = "ready" /\ UNCHANGED <<item, durable>>
       \/ /\ Verified(item) /\ item <= NumInts
          /\ stage' = "low" /\ item' = item + 1
          /\ UNCHANGED durable
       \/ /\ Verified(item) /\ item > NumInts
          /\ stage' = "ready" /\ durable' = asked
          /\ UNCHANGED item
    /\ UNCHANGED <<ram, flash, asked>>

----------------------------------------------------------------------------
(* dbRestore(), from the console and at the start *)

\* Faulty: a page is good when it is not erased.
NotErased == flash # Erased

Image == [n \in Items |-> flash[n]]

ChecksumFits == Sum(Image) = flash[NumInts + 1]

dbRestore ==
    /\ stage = "ready"
    /\ ChecksumFits
    /\ intArray' = Image /\ Checksum' = flash[NumInts + 1]
    /\ UNCHANGED <<flash, stage, item, durable, asked>>

\* Power fails; main() starts with the initializer and calls dbRestore().
PowerUp ==
    /\ stage' = "ready"
    /\ IF ChecksumFits
       THEN intArray' = Image /\ Checksum' = flash[NumInts + 1]
       ELSE intArray' = Factory /\ Checksum' = 0
    /\ UNCHANGED <<flash, item, durable, asked>>

FlashNext ==
    \/ dbSetInt \/ dbSetJSON \/ dbRestore
    \/ dbSave \/ EraseFails \/ Erase \/ ProgramLow \/ ProgramHigh \/ ProgramFails \/ Verify
    \/ PowerUp

FlashSpec == FlashInit /\ [][FlashNext]_dbvars

----------------------------------------------------------------------------
(* Properties *)

\* A save that returned 0 is what the next restore brings back, until another one
\* erases the page, whatever fails or restarts (db.c:452-523).
SavedIsRestored == durable # NONE => ChecksumFits /\ Image = durable

\* What the page was last erased for; a new device was erased for the factory's items.
Saved == IF asked = NONE THEN Factory ELSE asked

\* A save of the items that stopped at word n, with this in it: the rest of the
\* page is erased.
Torn(items, n, word) ==
    [m \in Items |-> IF m < n THEN items[m] ELSE IF m = n THEN word ELSE Half * Half - 1]

\* A word each half of which was programmed or not.
TornWords(word) ==
    {high * Half + low : high \in {word \div Half, Half - 1}, low \in {word % Half, Half - 1}}

\* A torn page of the items whose sum is that of its checksum, which is erased.
LooksWhole(items, page) ==
    /\ \E n \in Items : \E word \in TornWords(items[n]) : page = Torn(items, n, word)
    /\ Sum(page) = Half * Half - 1

Restores == PowerUp \/ dbRestore

\* The items that are found on the page are those of one save as a whole, and never a
\* mix of two saves; of a save that was torn by power or a failing flash they may only
\* be those that sum up to an erased checksum (db.c:500-523).
RestoresWholeSaves ==
    [][Restores => \/ intArray' \in {Factory, asked}
                   \/ LooksWhole(Saved, intArray')]_dbvars

\* The items that are found are always those of one save as a whole: with all zeros
\* stored, as a production database should have it (db.c:32-33), they are not.
TornPagesAreRejected ==
    [][Restores => intArray' \in {Factory, asked}]_dbvars
============================================================================
