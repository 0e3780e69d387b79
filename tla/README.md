# Verification of the B-AEC example

TLA+ models of `BACnetProfileExample-B-AEC-CPP`, an advanced elevator controller
built on the CAS BACnet Stack, with TLC runs on small instances and TLAPS proofs
for all of them. Line numbers refer to the repository's files.

## The system

One process, one thread. `main.cpp`'s loop (2895-3022) repeats: `BACnetStack_Tick`
(which calls the host's callbacks for every request that arrived), apply a restored
configuration, move the car, flip the simulated alarm, perform a due restart, act
on a key, sleep 1 ms. Handlers are atomic with respect to each other; what varies is
their order, how late a pass is, and which requests clients send between passes.

| Component | State | Operations | Hard part |
|---|---|---|---|
| Elevator car, Elevator Group | position, direction, door, phase and deadline, list of calls, last control value | `SetElevatorGroupLandingCallControl`, `LiftCarTick`, COLDSTART | writes in mid-journey, list compaction, unchecked `uint8_t` step, starvation |
| Created Analog Values | table of 8 slots; the stack's own object database | `CreateObject`, `DeleteObject`, Present_Value write | two copies that must agree |
| File 1, backup and restore | file octets, length, date; session; staging array; pending flag | `WriteFile`, `SetIvoryFileSize`, `PrepareBackup`, `CompleteBackup`, `PrepareRestore`, `CompleteRestore`, `ApplyRestoredConfiguration` | parsed inside Tick, applied after it; damaged images; a full table |
| Deferred restart | pending flag, deadline, kind | `RequestRestart`, `RestartDue`, `ReinitializeDevice` | several clients, answer against restart, late passes |
| Commandable outputs | three priority arrays (flag and value per slot) | writes and relinquishes of clients and of the schedule, COLDSTART | many writers of one value; slots that start with no valid value |
| Main loop, COV, passenger alarm | input value, alarm flag and time of the last flip, what subscribers know | tick, alarm, restart, key | changes nobody is told of; a wall clock that is set back |
| Device clock | offset from the host clock | `SetSystemTime`, date and time reads | `mktime` and dates that do not exist; the weekday |
| Start-up | what the stack was told so far | some sixty stack calls in order, each may fail | order the stack insists on; a device announced half built |
| Property reads | none of their own | one callback per datatype, list pages, array elements | one read is several calls; a branch missing in one of them |
| UDP transport | table of sockets, last peer of each, which port is next | `SetupUDP`, receive, send, broadcast test | fairness between ports; copies of a broadcast |
| Frame decoder, name tables | none | decode a frame for the log, look names up | lengths stated by the frame; three walks of the same octets |
| Keyboard | none between polls | `EnableRawInput`, `PollKey` | keys that arrive together; an input that blocks |
| Wire-test client (Python) | invoke id, attempts | request, retry, wait | late and repeated answers |

Components meet in few places: the stack calls the callbacks inside Tick; a restore is
handed from `CompleteRestore` to the loop through `g_restorePending`; a restart is
handed from `ReinitializeDevice` to the loop through the helper's deadline; a
COLDSTART resets the car, the outputs, the input and the alarm; every frame the transport
moves is decoded for the log, and the transport reads its octets once more to choose a
destination. Each module covers one of these knots; requests from outside it are
arbitrary, so what holds there holds whatever the other parts do.

## Modules

| Module | Models |
|---|---|
| `LiftCar` | the car and the list of landing calls |
| `LandingCalls` | what the people at the landings are promised, without the car's motion |
| `MCLiftCar` | the writes TLC tries |
| `LiftCarProofs` | the theorems about `LiftCar`, its refinement of `LandingCalls` included |
| `ConfigurationImage` | the text image: printing, cutting into lines, parsing |
| `Configuration` | the created objects, File 1, sessions, staging and its application |
| `MCConfiguration` | the blocks and offsets of TLC's AtomicWriteFile requests |
| `ConfigurationProofs` | the theorems about `Configuration` |
| `Restart` | the deferred restart and the loop around it |
| `TimekeepingProofs` | the theorems about `Restart` and `DeviceClock` |
| `PriorityArray` | what a commandable output promises |
| `Commandable` | the outputs' flags and values, the callbacks that write and read them |
| `CommandableProofs` | the theorems about `Commandable`, its refinement of `PriorityArray` included |
| `Controller`, `ControllerProofs` | a pass of the main loop: alarm, restart, keyboard, what subscribers were told; its theorem |
| `DeviceClock`, `MCDeviceClock` | the clock offset over a calendar; a small calendar for TLC |
| `ServedProperties` | which typed callback has a branch for which property |
| `Startup` | `main()` up to its loop |
| `PropertyReads`, `MCPropertyReads` | start-up followed by reads; states and values for TLC |
| `PropertyReadsProofs` | the theorems about `Startup` and `PropertyReads` |
| `UdpTransport`, `MCUdpTransport` | sockets, receive and send callbacks; destinations for TLC |
| `FrameDecoder` | the log's walk over a frame, the views printed from it, the transport's walk |
| `NameLookup` | the binary search in the name tables |
| `FrameLog`, `MCFrameLog` | one log line: the walk, then the look-ups; frames and tables for TLC |
| `FrameLogProofs` | the theorems about `FrameDecoder`, `NameLookup` and `FrameLog` |
| `WireClient` | the wire tests' request, retry and wait |
| `TransportProofs` | the theorems about `UdpTransport` and `WireClient` |

In each module a callback or a branch of the loop is one action with the code's
guards; a refused request changes nothing and is a stuttering step. Definitions named
"Mutant" are plausible mistakes in that code; each property is known to catch one.

**LiftCar.** `calls` is `calls[0 .. callCount-1]`; `remaining` is `phaseDeadline - now`
(only the difference is ever compared), negative when a pass is late, bounded below by
`MaxLag`. `LiftCarTick` is split by phase and branch. `reported` is what
`BACnetStack_UpdateValue` last passed on. `NextFloor` keeps `uint8_t` arithmetic. The
refinement mapping to `LandingCalls` forgets the order of the list and reads a floor's
door as open while `doorStatus` is OPENED there.

**ConfigurationImage and Configuration.** The file is a sequence of cells: the header
line, `analog-value <n> `, single digits, an exponent, a newline, a NUL octet. Printing
is `"%.6g"` with the number of digits as a constant, rounding half to even, with the
exponent form for longer numbers; values are whole numbers, as fractions round the
same way, of any size. The whole buffer is kept, octets past the length included, since
a later write can expose them. `RoomAssumption` says that the file has room for the header
and a longest line for every object, as the 4096 octets of the code do for 8 lines. `WriteFile` takes any signed offset and
computes start and end modulo `Word`, as the code does in 32 bits; where the octets then
land is a matter of its own, so `intact` says whether they landed in `g_fileData`. After a
write that did not, the program's behaviour is undefined and the model stops (`Undefined`):
every other property is about the device until then. A line is staged as soon as it parses,
before the image is known to be good. `ApplyRestoredConfiguration` takes the set of entries
for which `BACnetStack_AddObject` would fail (`refused`), any set of them, besides failing
for an object the stack has already. `awaited` (history) keeps what the image accepted last
held, until lines of a rejected one are staged over it. The stack's object database and the order of its sessions are modelled from their use.
The stack decides how many requests one Tick serves, so every handler may run between
the acceptance of a restore and its application.

**Restart.** `dueIn` is `g_restartDueAtMs - now`. A pass is Tick, Check, Sleep; time may
pass at any point, at least one unit (the loop sleeps 1 ms) and at most `MaxPass` per
pass, which is less than the delay (`DelayAssumption`; the header calls the delay
"comfortably longer than one tick"). Answers encoded in one Tick go out in the next,
as the header states. `promises` records what each client was promised. `main.cpp`
passes one delay; the runs use two, as the helper's contract is about any.

**PriorityArray and Commandable.** `isSet` and `value` are the two arrays the code keeps
per output; the abstract array holds a value or nothing. The refinement mapping forgets
the value of a slot that is not set, which the code leaves in place. `request` records what
the stack asked last, so that `PriorityArray` can say for each request which slot of which
output changes, to what, and which requests are refused; a step that changed another slot
would be none of its steps. Each Set callback is
an operator with the code's order of tests; a priority of 0 or above 16 becomes the
lowest. Present_Value is resolved by the stack from the reads the callbacks answer
(external). The schedule is one more writer.

**Controller.** A pass is the phases tick, alarm, restart, key. `age` is
`now - lastAlarmToggle` on the host's wall clock, negative after the clock is set back
(at most `MaxStepBack` in all). `told` is what `BACnetStack_UpdateValue` passed on and
`replaced` the properties a COLDSTART overwrote since. The keyboard is modelled as built
for POSIX: one read takes up to three octets and acts on the first of them, or on the
arrow key they spell, and a terminal, a pipe, a file and a closed input differ in whether a read may wait.

**DeviceClock.** The host's clock counts hours of a calendar given as constants.
`SetSystemTime` is modelled with `mktime`'s normalisation of fields out of range and the
refusal of unspecified ones. `expected` runs on beside the device as a calendar that was
set by hand and knows no offset. The year is the octet of a BACnet date, so it wraps
after 255.

**ServedProperties, Startup, PropertyReads.** The callbacks' `if` chains are sets of
(object type, property) pairs, one set per callback. `main()` is a sequence of calls;
the stack's preconditions are taken from the comments that record them and marked
external. A read calls the callbacks the way the stack does, scalar, length and
elements, pages, slots, in any state of the car's list, the priority arrays and the
created objects, and only callbacks that were registered answer.

**UdpTransport.** The table of bindings with its failed entries, the receive turn, the
remembered peer, the three kinds of destination and the copy. Hosts are the few the code
tells apart. A datagram may be empty, or be dropped by the kernel between `select` and
`recvfrom`. `bound` is the entry's flag and `open` what its socket is: `SetupUDP` may be
called for a port that is bound already, and `SimpleUDP::Connect` gives the old socket up
before it has a new one, so when it fails the flag stays set over a closed socket and
`SetupUDP` returns false. (`Connect` leaves the descriptor at -1 when `socket()` fails; a
later poll of that entry passes it to `FD_SET`, which is undefined. The model has the
outcome that nothing is received; a fortified C library stops the program instead.) The
peer is kept when an instance is set up on another port; `heardOn` records the port it was
heard on.

**FrameDecoder, NameLookup, FrameLog.** The frame is a sequence of octets and each part
of the walk (BVLC, NPDU, the addresses, the message type, the APDU, each tag) is a step
with the code's length tests; `lastRead` is the furthest octet read, and a decoded field
is the range of octets it came from. The tests of a tag's length octets are an IF chain in
the code's order, since they overlap. `Summary` and `XmlBlock` are the sets of fields the
two views state. `FrameLog` then looks the names up, one turn of the search per step.

**WireClient.** The datagrams under way are a set, from which any may be lost or taken in
any order; the network copies none, but a request is sent several times and answered as
often as it arrives, so a call may have several answers. A datagram outlives at most
`MaxAge` calls, fewer than there are invoke ids (`WireClientAssumption`: 256
ids against a few seconds of delay).

## Runs

| Run | Shows |
|---|---|
| `lift_car` | 5 floors, 3 calls, every kind of refused write, passes up to 3 units late: shaft, heading, interlock, one call per button, order of arrival, no floor passed by, COV, refinement of `LandingCalls`; every call is answered if the buttons at the car's own floor are one day left alone |
| `configuration` | 3 instances, 2 slots, blocks appended, sent to offsets of both signs, cut off and expanded, any AddObject of a restore refused: table and database agree, a backup is accepted and gives back the rounded values, a restore gives exactly what was accepted last less what was refused, and a write stays in the file exactly if its offset is -1 or more (266,437 states) |
| `foreign_image` | violation: an image whose end was lost is accepted |
| `restart` | 3 clients, 2 delays, 2 units per pass: earliest and strongest promise win, on time, answered before the own delay is over, and it happens |
| `restart_unacknowledged` | violation: a client that asks just before another's deadline has no answer yet when the device restarts |
| `commandable` | 3 outputs, 2 priorities, requests without one, with one past the array and with values out of range too: refinement of `PriorityArray`, a commanded priority holds against all lower ones (110,161 states) |
| `controller` | every kind of input, keys, restarts, a clock set back: the loop never stops, the alarm goes on, `q` is obeyed, only a COLDSTART leaves subscribers behind |
| `device_clock` | synchronisations to real and impossible dates: the device shows the time it was set to, run on, and the right weekday |
| `property_reads` | start-up with every call failing in turn, then every documented property read in every state: announced means whole, nothing declined, the parts add up |
| `udp_transport` | 2 entries and a third instance, set-ups that succeed or fail, repeated, on another port and after a shutdown: reported where it arrived, a broadcast leaves and reaches a peer once, set up means bound and open, no port starves (49,732 states) |
| `frame_log` | every header, APDU and tag, cut off at every octet: nothing read past the end, the summary states what the XML block does, the transport copies what the log calls a broadcast but for two named kinds, names found, the line printed (108,771 states) |
| `wire_client` | 5 calls, 3 invoke ids, one retry: an answer is the answer to this call, an answer to any of its attempts counts, every call ends (21,981 states) |

The type invariant of a module is a conjunct of one of the invariants its run checks, or
(`LiftCar`, `Restart`, `Commandable`, `NameLookup`) a theorem of its own.

Bounds. Five floors are enough for a journey with floors on both sides of the start,
a stop on the way and a floor beyond the target; three calls for an oldest call, one
answered on the way and one that fills the list. Three instances and two slots are
the smallest table that is full while an object of the image is missing from it; the
file has room for a two-line image and not for a third. The image clients send has a bad
third line, the NUL octet its last block is padded with: whole it is rejected after two
lines, cut off within its second number it is accepted with another value. `Word` is small enough
that a start of -2 and a block's length wrap round to an end within the file. Three clients give a
request that arms, one that upgrades and one that is too late to count. Two priorities
are a higher and a lower one; the proofs are about any number. The calendar has months of different lengths, a
leap day and years of both kinds, and the host's clock runs over a year's end.
Two sockets and three instances fill the table of bindings. The frames hold one and two
octets where the code tells lengths apart, and lengths that are not true. Three invoke
ids wrap round within five calls.

Fairness. Nothing is assumed of clients or of the network, nor that anyone presses a
key. `LiftCar` and `Restart` assume that the loop keeps running and that time passes;
`Controller` does not take the first for granted but derives it (`KeepsTicking`) from a
loop whose steps happen unless a read waits, which `EnableRawInput` prevents. `UdpTransport`
assumes that the stack polls the receive callback, which every tick does. Logging a
frame is one call without a wait. A wire-test request times out, which `wait_for`'s
deadline ensures.

## Where comments say more than the code does

The two violation runs are listed in `PROJECT.json` under `findings`. In other places
the code falls short of a comment in a way a property states as its exception:

- The floor where the car stands is served before the oldest call, so presses there can
  hold the car for ever (main.cpp:573, against "first come, first served" at 487); hence the proviso of
  `EveryCallAnsweredIfLeftAlone`.
- `"%.6g"` rounds (main.cpp:2097), so a restore gives back rounded values;
  `BackupRestoresRounded`.
- A rejected image has already overwritten staged entries (main.cpp:2141, against "nothing
  staged" at 2105). They are read only if an accepted restore still waits, which takes two
  restore sessions before the main loop comes to it; `RestoreIsExact` has this as its
  exception, and the run reaches it.
- `WriteFile` refuses no negative start as such (main.cpp:2031): below -1 the sum tested
  wraps in 32 bits and the octets land outside `g_fileData`, against "Ivory holds at most
  FILE_MAX_SIZE octets" (2047). `WrittenWithinFile` says exactly when. Whether the stack
  passes such a start on is not visible in the repository.
- "make the created Analog Values exactly the restored set" (main.cpp:2150): less those
  `AddObject` refuses, of which only the console hears (2176); `RestoreIsExact`.
- The transport tests the NPDU's version and that the announced addresses are there, the
  log does not (CASExampleHelper.cpp:249 and 1682): a network message that ends before
  them, or a frame of another version, is logged as a broadcast and not copied to the peer;
  `TransportAgreesWithLog` has both as its exceptions.
- A peer remembered on one port is kept when `SetupUDP` moves the instance to another,
  which may be the peer's own (CASExampleHelper.cpp:2096); `BroadcastReachesPeersOnce`.
- STARTRESTORE empties the file and leaves Modification_Date alone (main.cpp:2213);
  `OldDateMeansEmptied`.
- A network message cut off in its header is logged with type 0
  (CASExampleHelper.cpp:1682, against "degrades to "?""); `LogStatesTheFrame`.
- `mktime` turns an impossible date into another one (main.cpp:1862) instead of refusing
  it; `FollowsSynchronisedTime` is about requests that name a moment.
- A `q` that waits behind another key is read with it and lost
  (CASExampleHelper.cpp:2213); `QuitIsObeyed`.
- A COLDSTART tells subscribers nothing (main.cpp:2931); `OnlyColdStartIsUntold`.
- Schedule's Reliability is documented and no callback serves it (docs/objects.json:172);
  `EveryCallAnswered` leaves it out.

## Proofs

`LiftCarProofs` proves `Spec => []P` for `TypeOK`, `InShaft`, `HeadsForOldestCall`,
`DoorInterlock` and `OneCallPerButton`, from the assumptions that the floors are
`uint8_t` values with the start floor among them, the times and the list length are
positive, and the writes are of their type.

`InShaft` is not inductive: `LiftCarTick` steps the position without looking. It
follows from `HeadsForOldestCall` (a moving car has `calls[0]` ahead of it), from the
type of `calls` (every call is at a floor of the shaft) and from the arithmetic of one
step. `HeadsForOldestCall` in turn needs that a write goes behind the oldest call, and
that a car which reaches that call's floor stops. So the inductive invariant `IInv` is
the conjunction of all five. Opening the door compacts the list; `CallsNotAtFacts`
says what the loop keeps, by induction on its turns. The induction is done on a set of
naturals (`NatSetInduction`, from the well-foundedness of `<`), which also shows that
the recursive function exists.

`TimekeepingProofs` proves `TypeOK`, `StrongestPromiseWins`, `PromisesKeptInTime` and
`AcknowledgedBeforeOwnDelayEnds` of `Restart` for any clients and delays, assuming only that a pass
is shorter than every delay. Two facts make them inductive: `Punctual` (counted from
the start of the pass a pending restart is at most one pass late, and not late at all
once it was asked for in this pass) and `AskedInThisPass` (a client whose answer still
waits asked in this very pass, so its delay reaches beyond it).

The same module proves `FollowsSynchronisedTime` and `WeekdayFollowsDate` of `DeviceClock`
for any calendar of months with days in them (`CalendarAssumption`) and any requests made
of octets (`RequestAssumption`). `DaysBefore` is a sum over the months: it exists and grows
(`DaysBeforeFacts`, `MonthsAscend`), so every day of a year lies in one month and in one
only (`MonthExists`, `MonthIsUnique`). From this, a moment that `mktime` computed from a
date shows that date again (`ShownAsSet`), and one hour later the date shown is the one a
calendar turns to, in each of the four ways it can (`ShowsHourLater`: within the day, the
month, the year, or over its end). `ClockInv` then says that the device shows what is
expected of it, however the offset came about; the year octet wraps in step because 256
years are whole leap cycles.

`CommandableProofs` proves, for any number of priorities and states and any values, that
the outputs keep their types, serve only values in range, hold a commanded priority
against everything asked below it, and that every request is answered as `PriorityArray`
says, or does something it does not see. A slot of the
Multi-state Output starts as 0, which is no state, so the range is not an invariant of
the values: `CommandedInRange` says it of the slots that are set. The value served is
the highest commanded slot's, which `FirstSlot` shows to exist; a step at a lower priority
leaves that slot and all above it alone, so the choice is the same afterwards.

From the same `IInv` follow the action properties `ArrivalOrderKept`, `StopsOnTheWay` and
`SubscribersFollowTheCar`, and that `LiftCar` implements `LandingCalls`
(`CallsAnsweredAtTheirLanding`). Both need the other half of what the compacting loop
does: `CallsNotAtKeeps` says that every other call stays, in its order. A write is a
`Press` because a list has no more different calls than entries (`ListIsBounded`); an
opening is an `Answer` because the interlock says that no door was open.

`ConfigurationProofs` proves, for any table and file size, any instances and values and
any blocks clients write at any offset, `TableMatchesDatabase`, `RestoreIsExact`,
`BackupRestoresRounded`, `OldDateMeansEmptied` and `WrittenWithinFile`. The last needs
`WordAssumption`: no block is so long that an end from a start of 0 or more passes 2^32,
and a negative `int32_t` is past the file as a `uint32_t`. What was accepted is what is
applied by `AwaitedIsStaged`. The agreement of table and database goes round in a circle:
`ApplyRestoredConfiguration` puts the staging array into the table, so the staging array
must name objects (an entry that looked like a free slot would break both); it is
parsed from the file, so the file's cells must (`FileOK`); and a backup prints the table
into the file. So `IInv` says it of all three at once, which needs what the image loops
produce (`ImageLines`, `PickedFacts`, `LinesFacts`). That a restore is exact is an
invariant of the restore loop (`Restored`): after k entries the table holds objects of the
image only, and every value read so far that no later line replaces and whose object was
there or was added. `AlwaysRoom` shows by the pigeonhole principle that a free slot is
there whenever an object is missing, refused ones included: of the two "could not
recreate" exits only a failing `AddObject` is ever taken.

That a backup can be restored (`BackupsRestore`) is a theorem about the image of whatever
the table holds. Powers of ten are a recursive function; with what is proved of them
(`TenToFacts`, `TenToSum`) rounding leaves at most `SignificantDigits` digits, also when it
carries into one more (`MantissaFacts`), so an image fits by `RoomAssumption`. The digits
read one after the other are the number divided by ever smaller powers of ten, so the whole
reads as the number printed (`PrintedReads`), which is at most half a unit of its last
digit away from the value (`RoundedIsNear`). Every line stands where the loop put it
(`ImageLines`, `LinesStand`), the parser finds these lines and no others (`StartsOfImage`),
each of them up to its end (`LineEnds`), and since the objects in use are each picked once
(`InUseIsHeld`) no entry replaces another. The 8 lines the parser has room for are as many
as the table has slots.

`FrameLogProofs` proves `NeverReadsPastFrame`, `LogStatesTheFrame` and
`TransportAgreesWithLog` for every frame, of octets of any length, and `FindsExactlyTheId`
for every ascending table, for the search alone and as `FrameLog` runs it. The walk's
invariant `WalkInv` says that the offset and every field stay within the frame
(`Safe`), and, for the agreement of the walks, what was read on the way: the routing
octets (`RouteRead`), the headers (`HeaderRead`), where in the frame the walk then stands
(`StandsWhere`), which fields were found (`FoundWhat`), and that an address the control
octet announces is found unless the frame ends before it (`RouteFound`), which the exact
agreement with the transport needs. The inductive part of the
search is `RuledOut`: no row outside `lo..hi` holds the id.

`TransportProofs` proves `ReportedWhereItArrived`, `BroadcastReachesPeersOnce` and
`SetUpMeansBound` for any sockets, ports and hosts. `OneEntryEach` says that an instance
has one entry of the table, also after an attempt that failed, `PeerOnAnotherPort` that
the remembered peer is none that hears the broadcasts of the port it was heard on,
`SetUpIsBound` that a set-up that succeeded last is bound to its port and open, and `WaitingWhereSent`
that a datagram waits at the socket it was sent to. Of `WireClient` it proves
`AnswerIsMine`, from the assumption that a datagram outlives fewer calls than there are
invoke ids: `IdShowsAge` says that among the datagrams under way the invoke id tells the
call.

`ControllerProofs` proves `OnlyColdStartIsUntold`, with `TimerFollowsClock` for the
alarm's timer.

`PropertyReadsProofs` proves `WholeBeforeAnnounced`, `EveryCallAnswered` and
`ReadsWhatIsThere`, for priority arrays, state texts and lists of landing calls of any
length, any doors and any created objects (`ReadsAssumption`: the arrays of slots and doors
are not empty, a commanded slot is one of the array, no created object goes by the name of
another). The list of `main()`'s calls is taken apart into its parts (`MainLists`,
`PlaceInPart`); `InOrder` says that every call before the current one succeeded, so what
a call needs is there (`AlwaysAccepted`), and behind the last one the device is whole
(`StartedWhole`). `DocumentedBacked` compares the documented properties with the
callbacks' tables. `ReadInv` says of each kind of read what it has so far: the pages before
the offset are the first calls of the list (`AsList`), the slots before the index are null
(`AsSlots`), there are as many elements as the index says (`AsArray`). A read is declined
only where a callback that has no branch was asked, which is the Schedule's Reliability.

Only model-checked: all liveness properties (the provers do not do fairness). The runs
that expect a violation have nothing to prove.

## Not modelled

The stack itself (a submodule that is not in the repository), with Event Log, Schedule,
Calendar and Notification Class, which it runs; the data of the constants and name
tables; log output and its wording; the parsers of the command line's port, instance,
name and password, which return their argument or a default; which network interface
the operating system reports; DeviceCommunicationControl and AcknowledgeAlarm, which
change no state here; the Windows branch of `PollKey`; minutes, seconds and daylight
saving; the wire tests' codec, scripts and simulated peers.
