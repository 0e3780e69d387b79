--------------------------- MODULE Configuration ---------------------------
(***************************************************************************)
(* The device's configuration and its backup and restore (DM-OCD-B and     *)
(* DM-BR-B): the table of Analog Values clients created, File 1 "Ivory",   *)
(* the staging area of a restore, and the main loop's part in applying it. *)
(*                                                                         *)
(* The stack calls every handler here from inside BACnetStack_Tick; the    *)
(* main loop applies an accepted restore after Tick has returned.  The     *)
(* stack's own object database and the order in which it drives a backup   *)
(* or restore session are modelled from how main.cpp uses them.  How many  *)
(* requests one Tick serves is the stack's affair, so any handler may run  *)
(* between the acceptance of a restore and its application.                *)
(***************************************************************************)
EXTENDS ConfigurationImage

CONSTANTS
    Instances,        \* object instances clients create Analog Values with
    Values,           \* Present_Values clients write
    FileMaxSize,      \* FILE_MAX_SIZE, in cells
    Chunks,           \* what clients send in one AtomicWriteFile
    Offsets,          \* fileStart values of AtomicWriteFile (int32_t); -1 appends
    Word,             \* 2^32, the range of a uint32_t
    Sizes             \* File_Size values clients write

Slots == 1..MaxAnalogValues
Free == [instance |-> -1, value |-> 0]
NoEntry == [instance |-> 0, value |-> 0]
Cells == {Header, Newline, ZeroOctet}
            \cup ({"digit"} \X (0..9)) \cup ({"exponent"} \X (Nat \ {0}))
            \cup ({"analog-value"} \X Instances)

ASSUME ConfigurationAssumption ==
    /\ Instances \subseteq Nat
    /\ Values \subseteq Nat
    /\ FileMaxSize \in Nat
    /\ Chunks \subseteq Seq(Cells)
    /\ Offsets \subseteq Int
    /\ Word \in Nat
    /\ Sizes \subseteq Nat

\* FILE_MAX_SIZE has room for the header and a line of the greatest length for every
\* object (in the code 4096 octets, for 22 of the header and 8 lines of at most 34).
ASSUME RoomAssumption == FileMaxSize > 1 + MaxAnalogValues * (SignificantDigits + 3)

\* FILE_MAX_SIZE, an int32_t offset of either sign and what a client sends at a time are
\* each at most half of a uint32_t: a write from 0 up ends within one, and a negative
\* start is past the file.
ASSUME WordAssumption ==
    /\ \A offset \in Offsets : offset < 0 => FileMaxSize < offset + Word
    /\ \A data \in Chunks : /\ FileMaxSize + Len(data) < Word
                            /\ \A offset \in Offsets : offset + Len(data) < Word

VARIABLES
    table,        \* g_createdAnalogValues: per slot an Analog Value or Free
    database,     \* the Analog Value instances in the stack's object database
    fileData,     \* g_fileData, all FILE_MAX_SIZE cells of it
    fileLength,   \* g_fileDataLength
    dateCurrent,  \* Modification_Date is the time of the last content change
    intact,       \* nothing was ever written outside g_fileData
    session,      \* the stack's backup/restore session
    staged,       \* g_restoredAnalogValues
    stagedCount,  \* g_restoredAnalogValueCount
    pending,      \* g_restorePending
    awaited       \* the entries of the image that waits to be applied, until a line of a
                  \* rejected one is staged over them (history): one sequence or none

configuration == <<table, database>>
file == <<fileData, fileLength, dateCurrent, intact>>
staging == <<staged, stagedCount, pending, awaited>>
vars == <<configuration, file, session, staging>>

-----------------------------------------------------------------------------
Content == SubSeq(fileData, 1, fileLength)

\* FindCreatedAnalogValue and FindFreeAnalogValueSlot: the first slot that fits.
SlotsOf(t, i) == {s \in Slots : t[s].instance = i}
FindCreatedAnalogValue(t, i) == Min(SlotsOf(t, i))
FreeSlots(t) == {s \in Slots : t[s] = Free}
\* Mutant: the first slot is always taken for a free one.
FindFirstSlot(t) == Min(Slots)

FindFreeAnalogValueSlot(t) == Min(FreeSlots(t))

\* The objects in use, in table order, and the configuration they make up.
InUse(t) == Picked(t, {s \in Slots : t[s] # Free})
Held(t) == {t[s] : s \in {x \in Slots : t[x] # Free}}

-----------------------------------------------------------------------------
(***************************************************************************)
(* CreateObject, DeleteObject and WriteProperty of Present_Value.          *)
(***************************************************************************)

\* CreateObject, for an instance the stack does not have yet: the handler takes
\* a free slot, then the stack adds the object.
CreateObject(i) ==
    /\ i \notin database
    /\ SlotsOf(table, i) = {}
    /\ FreeSlots(table) # {}
    /\ table' = [table EXCEPT ![FindFreeAnalogValueSlot(table)] = [instance |-> i, value |-> 0]]
    /\ database' = database \cup {i}
    /\ UNCHANGED <<file, session, staging>>

\* DeleteObject.  (As the rollback of a CreateObject the stack could not finish it
\* undoes the slot within the same request, so that leaves no trace.)
DeleteObject(i) ==
    /\ i \in database
    /\ SlotsOf(table, i) # {}
    /\ table' = [table EXCEPT ![FindCreatedAnalogValue(table, i)] = Free]
    /\ database' = database \ {i}
    /\ UNCHANGED <<file, session, staging>>

\* SetPropertyReal on a created Analog Value's Present_Value.
SetPropertyReal(i, v) ==
    /\ i \in database
    /\ SlotsOf(table, i) # {}
    /\ table' = [table EXCEPT ![FindCreatedAnalogValue(table, i)].value = v]
    /\ UNCHANGED <<database, file, session, staging>>

-----------------------------------------------------------------------------
(***************************************************************************)
(* File 1 "Ivory".                                                         *)
(***************************************************************************)

\* Mutant: the limit is checked for where the write starts.
WriteFileFromWithin(offset, data) ==
    LET start == IF offset = -1 THEN fileLength ELSE offset % Word
        end == (start + Len(data)) % Word
    IN  /\ start <= FileMaxSize
        /\ intact' = (start + Len(data) <= FileMaxSize)
        /\ fileData' = [k \in 1..FileMaxSize |->
                          IF k \in (start + 1)..(start + Len(data)) THEN data[k - start]
                                                                   ELSE fileData[k]]
        /\ fileLength' = IF end > fileLength THEN end ELSE fileLength
        /\ dateCurrent' = TRUE
        /\ UNCHANGED <<configuration, session, staging>>

\* WriteFile at an offset, or at the end of the file for offset -1.  Start and end are
\* uint32_t, and a write whose end passes FILE_MAX_SIZE is refused.  Whether the octets
\* land in g_fileData is another matter, and intact says so.
WriteFile(offset, data) ==
    LET start == IF offset = -1 THEN fileLength ELSE offset % Word
        end == (start + Len(data)) % Word
    IN  /\ end <= FileMaxSize
        /\ intact' = (start + Len(data) <= FileMaxSize)
        /\ fileData' = [k \in 1..FileMaxSize |->
                          IF k \in (start + 1)..(start + Len(data)) THEN data[k - start]
                                                                   ELSE fileData[k]]
        /\ fileLength' = IF end > fileLength THEN end ELSE fileLength
        /\ dateCurrent' = TRUE
        /\ UNCHANGED <<configuration, session, staging>>

\* Mutant: a change of the size leaves the date.
SetIvoryFileSizeUndated(newSize) ==
    /\ newSize <= FileMaxSize
    /\ fileData' = [k \in 1..FileMaxSize |->
                      IF k \in (fileLength + 1)..newSize THEN ZeroOctet ELSE fileData[k]]
    /\ fileLength' = newSize
    /\ UNCHANGED <<configuration, dateCurrent, intact, session, staging>>

\* WriteProperty File_Size: truncate, or expand with zero octets.
SetIvoryFileSize(newSize) ==
    /\ newSize <= FileMaxSize
    /\ fileData' = [k \in 1..FileMaxSize |->
                      IF k \in (fileLength + 1)..newSize THEN ZeroOctet ELSE fileData[k]]
    /\ fileLength' = newSize
    /\ dateCurrent' = TRUE
    /\ UNCHANGED <<configuration, intact, session, staging>>

-----------------------------------------------------------------------------
(***************************************************************************)
(* The backup and restore sessions the stack drives.                       *)
(***************************************************************************)

\* PrepareBackup: BuildConfigurationImage overwrites the front of the file.
\* snprintf ends what it prints with a NUL octet, the last one of the buffer if
\* the image does not fit.
PrepareBackup ==
    LET image == Image(InUse(table))
        nul == Min({Len(image) + 1, FileMaxSize})
    IN  /\ session = "None"
        /\ fileData' = [k \in 1..FileMaxSize |->
                          IF k < nul THEN image[k]
                          ELSE IF k = nul THEN ZeroOctet ELSE fileData[k]]
        /\ fileLength' = Min({Len(image), FileMaxSize})
        /\ dateCurrent' = TRUE
        /\ session' = "Backup"
        /\ UNCHANGED <<configuration, intact, staging>>

\* CompleteBackup.
CompleteBackup ==
    /\ session = "Backup"
    /\ session' = "None"
    /\ UNCHANGED <<configuration, file, staging>>

\* PrepareRestore: the file is emptied by its length alone and keeps its date.
PrepareRestore ==
    /\ session = "None"
    /\ fileLength' = 0
    /\ dateCurrent' = (dateCurrent /\ fileLength = 0)
    /\ session' = "Restore"
    /\ UNCHANGED <<configuration, fileData, intact, staging>>

\* CompleteRestore after ENDRESTORE, with an image that parses.
CompleteRestoreAccepted ==
    /\ session = "Restore"
    /\ Accepted(Content)
    /\ staged' = StagedBy(Content, staged)
    /\ stagedCount' = LinesRead(Content)
    /\ pending' = TRUE
    /\ awaited' = {Entries(Content)}
    /\ session' = "None"
    /\ UNCHANGED <<configuration, file>>

\* CompleteRestore after ENDRESTORE, with one that does not.
CompleteRestoreRejected ==
    /\ session = "Restore"
    /\ ~Accepted(Content)
    /\ staged' = StagedBy(Content, staged)
    /\ awaited' = IF HasHeader(Content) /\ LinesRead(Content) > 0 THEN {} ELSE awaited
    /\ session' = "None"
    /\ UNCHANGED <<configuration, file, stagedCount, pending>>

\* CompleteRestore with wasAborted: ABORTRESTORE or the stack's own timeout.
CompleteRestoreAborted ==
    /\ session = "Restore"
    /\ session' = "None"
    /\ UNCHANGED <<configuration, file, staging>>

-----------------------------------------------------------------------------
(***************************************************************************)
(* The main loop: an accepted restore is applied after Tick.               *)
(***************************************************************************)
StagedEntries == SubSeq(staged, 1, stagedCount)
InStaged(i) == \E k \in 1..stagedCount : staged[k].instance = i

\* Delete what the image does not have.
Pruned == [s \in Slots |-> IF InStaged(table[s].instance) THEN table[s] ELSE Free]

\* Mutant: an object that still exists keeps its value.
PutBackMissingOnly(t, db, e, fails) ==
    IF SlotsOf(t, e.instance) # {} \/ FreeSlots(t) = {} \/ e.instance \in db \/ fails THEN t
    ELSE [t EXCEPT ![FindFreeAnalogValueSlot(t)] = e]

\* Put one restored value back into table t, recreating its object if the table
\* does not have it.  Without a free slot the value is skipped, and also when
\* BACnetStack_AddObject fails: the stack has the object already, or refuses it for
\* reasons of its own (fails).
PutBack(t, db, e, fails) ==
    IF SlotsOf(t, e.instance) # {}
    THEN [t EXCEPT ![FindCreatedAnalogValue(t, e.instance)] = e]
    ELSE IF FreeSlots(t) = {} \/ e.instance \in db \/ fails THEN t
    ELSE [t EXCEPT ![FindFreeAnalogValueSlot(t)] = e]

\* ApplyRestoredConfiguration, and the objects it removes from and adds to the
\* stack's database on the way; refused are the entries whose object the stack would
\* not add if it were asked to.
ApplyRestoredConfiguration(refused) ==
    LET removed == {table[s].instance : s \in {x \in Slots : table[x] # Free /\ Pruned[x] = Free}}
        after[k \in 0..stagedCount] ==
            IF k = 0 THEN [tbl |-> Pruned, db |-> database \ removed]
            ELSE LET t == after[k-1].tbl
                     u == PutBack(t, after[k-1].db, staged[k], k \in refused)
                 IN  [tbl |-> u,
                      db |-> IF SlotsOf(t, staged[k].instance) = {} /\ FreeSlots(t) # {} /\ k \notin refused
                             THEN after[k-1].db \cup {staged[k].instance}
                             ELSE after[k-1].db]
    IN  /\ pending
        /\ pending' = FALSE
        /\ awaited' = {}
        /\ table' = after[stagedCount].tbl
        /\ database' = after[stagedCount].db
        /\ UNCHANGED <<file, session, staged, stagedCount>>

-----------------------------------------------------------------------------
Init ==
    /\ table = [s \in Slots |-> Free]
    /\ database = {}
    /\ fileData = [k \in 1..FileMaxSize |-> ZeroOctet]
    /\ fileLength = 0
    /\ dateCurrent = TRUE
    /\ intact = TRUE
    /\ session = "None"
    /\ staged = [s \in Slots |-> NoEntry]
    /\ stagedCount = 0
    /\ pending = FALSE
    /\ awaited = {}

\* One handler, or the main loop.
Step ==
    \/ \E i \in Instances : CreateObject(i) \/ DeleteObject(i)
    \/ \E i \in Instances, v \in Values : SetPropertyReal(i, v)
    \/ \E offset \in Offsets, data \in Chunks : WriteFile(offset, data)
    \/ \E n \in Sizes : SetIvoryFileSize(n)
    \/ PrepareBackup \/ CompleteBackup
    \/ PrepareRestore
    \/ CompleteRestoreAccepted \/ CompleteRestoreRejected \/ CompleteRestoreAborted
    \/ \E refused \in SUBSET (1..stagedCount) : ApplyRestoredConfiguration(refused)

\* What the program does after a write outside g_fileData is undefined, and nothing is
\* said of it: the other properties are about the device until then.
Undefined == ~intact /\ UNCHANGED vars

Next == (intact /\ Step) \/ Undefined

Spec == Init /\ [][Next]_vars

-----------------------------------------------------------------------------
(***************************************************************************)
(* Properties.                                                             *)
(***************************************************************************)
AnalogValues == [instance : Instances, value : Nat]

\* Every variable has its type.
TypeOK ==
    /\ table \in [Slots -> AnalogValues \cup {Free}]
    /\ database \subseteq Instances
    /\ fileData \in [1..FileMaxSize -> Cells]
    /\ fileLength \in 0..FileMaxSize
    /\ dateCurrent \in BOOLEAN
    /\ intact \in BOOLEAN
    /\ session \in {"None", "Backup", "Restore"}
    /\ staged \in [Slots -> AnalogValues \cup {NoEntry}]
    /\ stagedCount \in 0..MaxAnalogValues
    /\ pending \in BOOLEAN
    /\ awaited \subseteq Seq(AnalogValues)

\* The host-side table and the stack's object database name the same Analog
\* Values, each once: CreateObject and DeleteObject call a disagreement something
\* that "should not happen", and ApplyRestoredConfiguration edits both by hand.
TableMatchesDatabase ==
    /\ database = {av.instance : av \in Held(table)}
    /\ \A s1, s2 \in Slots : (s1 # s2 /\ table[s1] # Free) => table[s1].instance # table[s2].instance

\* The last of the entries es that names instance i, the one that prevails.
Prevailing(es) == {es[k] : k \in {x \in 1..Len(es) : \A y \in (x+1)..Len(es) :
                                                        es[y].instance # es[x].instance}}

\* The entry e is in the table after a restore: its object was there, or the stack
\* adds it for one of the entries that name it.
Recreated(e, refused) ==
    \/ SlotsOf(table, e.instance) # {}
    \/ \E k \in (1..stagedCount) \ refused : staged[k].instance = e.instance

\* Applying a restore makes the created Analog Values exactly the set of the image that
\* was accepted last, less those the stack refused to add, whatever was created, deleted
\* or written since, whichever sessions came in between and however full the table is:
\* there is always a free slot, and a refused object takes none and leaves no value
\* behind.  The exception is an image rejected in the meantime: "nothing staged" is not so
\* (ParseConfigurationImage), the lines read before the bad one replaced those that
\* waited, and what is then applied is exactly the mixture.
RestoreIsExact ==
    [][\A refused \in SUBSET (1..stagedCount) :
         ApplyRestoredConfiguration(refused) =>
           /\ Held(table') = {e \in Prevailing(StagedEntries) : Recreated(e, refused)}
           /\ \A accepted \in awaited : StagedEntries = accepted]_vars

\* A backup taken now fits the file with its closing NUL, is accepted by a restore
\* and gives back every object, with every value as "%.6g" rounds it.  The variables
\* keep their types on the way: the file's length stays within FILE_MAX_SIZE and no
\* entry is past the table.
BackupRestoresRounded ==
    LET image == Image(InUse(table))
    IN  /\ TypeOK
        /\ Len(image) < FileMaxSize
        /\ Accepted(image)
        /\ Prevailing(Entries(image)) =
              {[instance |-> av.instance, value |-> Rounded(av.value)] : av \in Held(table)}

\* "Ivory holds at most FILE_MAX_SIZE octets": a write that is not refused lands within
\* g_fileData, however full the file is, if it appends or its offset is 0 or more.  For
\* the other negative offsets the test in WriteFile is passed only because
\* start + fileDataLength wraps in 32 bits, and then it never does.
WrittenWithinFile ==
    [][\A offset \in Offsets, data \in Chunks :
         WriteFile(offset, data) => (intact' <=> offset >= -1)]_vars

\* Modification_Date is "when the file's content last changed" (ReadFileDateTime's
\* comment), whichever of the three writers changed it, except that STARTRESTORE empties
\* the file without a new date: a file with a date too old is an empty one.
OldDateMeansEmptied == ~dateCurrent => fileLength = 0

\* "False (and nothing staged) if it is not an image this device wrote": an image
\* is accepted only if some configuration of this device prints as it.
OnlyOwnImagesAccepted ==
    [][CompleteRestoreAccepted =>
         /\ \A j, k \in 1..Len(Entries(Content)) :
               j # k => Entries(Content)[j].instance # Entries(Content)[k].instance
         /\ Content = Image(Entries(Content))]_vars

=============================================================================
