# aio-remeha-modbus: specification

TLA+ models of `aio_remeha_modbus`, the asyncio library that reads and controls
Remeha heating appliances through their GTW-08 and GTW-26 Modbus gateways. TLC
checks the models on small instances, TLAPS proves the safety properties of the passing
runs for every instance. Paths below are relative to `src/src/aio_remeha_modbus/`; a definition's
source lines are in `PROJECT.json` under `map`.

## The system

The library is used by a long-running asyncio program (Home Assistant): several
tasks share one facade object per gateway, one of them polling periodically, others
setting modes, schedules or the clock when a user asks for it. Tasks interleave only
at an `await`, every `await` is a Modbus request that can be lost, refused, answered
late or cancelled, and the controller on the other end keeps running by itself.

| Component | State it keeps | Operations | What makes it hard |
|---|---|---|---|
| GTW26 identity probe (`gtw26/system_discovery_table.py`) | the outcome of each identity block | `async_detect`, `async_detect_base`, `async_probe` | a busy or unreachable controller between two blocks |
| GTW26 facade (`gtw26/gtw26.py`) | layout, generation, setup flag and lock, component set, read-once bundles still pending | `async_ensure_setup`, three polls, mode and clock writes, raw reads, health check | concurrent setup, partial failures of a poll, a write during a poll |
| GTW26 mode writes (`gtw26/gtw26.py`, `gtw26/const.py`) | `_write_lock`, values retained by components | `async_set_heating_mode`, `async_set_hot_water_mode` | read-modify-write of a shared word across awaits |
| GTW26 clock (`gtw26/gtw26.py`) | `_write_lock` | `async_set_clock` | two blocks that are not written atomically, to a clock that runs |
| GTW26 read-once bundles (`gtw26/config.py`, `schedule.py`, `model.py`) | cached values | `Config.write`, `WeekProgram.async_set_day` | the latch, and the writes that open it |
| Retrying unit (`helpers/modbus.py`) | a loop counter per call | reads that are retried, writes that are not | lost replies, cancellation between two tries |
| GTW26 day codec (`helpers/gtw26.py`) | none | `decode_day`, `encode_day` | midnight, registers' ends, periods that touch or overlap |
| Register fields (`helpers/fields.py`, `helpers/validation.py`) and the fields the components declare | what was read or written last | encodings and validators, `write` | sentinels, sign and magnitude, limits off the step, rounding |
| GTW08 gateway (`gtw08/gtw08.py`) | discovery table, zones found, whether setup is done | detection, health check, lazy setup, three polls, reset, `async_repair_invalid_schedules` | setup that breaks off at any read and starts again; a repair that needs a table only polls read; an unreadable day that blocks every poll |
| GTW08 climate zone (`gtw08/climate_zone.py`) | zone registers | mode, setpoints, schedules, holiday, temporary override | calls of several writes without a lock, decided from values that may be stale, with a failure in between |
| GTW08 time programs (`gtw08/time_program.py`, `schedule.py`, `helpers/gtw08.py`) | slots of a day | encode and decode, `generate_dhw_day_schedule`, `get_current_timeslot` | steps of ten minutes, six slots a day, blocks of hours at the end of a day |
| GTW08 appliance (`gtw08/appliance.py`) | readings | setters of one register | none of its own |
| Query tool (`query.py`), protocols (`model/`) | none | argument parsing and printing; type declarations | none |

How they interact: the facade calls the probe under its setup lock and builds one
component per bundle for the layout the probe reports. A poll reads the regular
bundles in one pooled request and, when a register error comes back, one by one; then
it reads the read-once bundles that are still pending. The read-once components call
back into the facade (`_invalidate_read_once`) when a write to them is acknowledged.
Mode and clock writes share `_write_lock` and copy the word they wrote into the
components (`_retain_written_word`), which the polls, that take no lock, replace. All
of them reach the wire through a unit that may be wrapped in `RetryingModbusUnit`.

The GTW-08 half has no lock and no callback. The first poll sets the gateway up: it reads
the discovery table and three more components, restricts the appliance's fields to the main
board, and asks each zone for its function to keep a component per enabled zone; a zone's setters choose a register from the values its component holds, write it,
and keep what they wrote until the next poll. Day schedules that are written go through
a component made for that write, so a zone shows them after a poll only; the repair works
on the raw schedules of all zones, because a zone with an unreadable one cannot be polled.
The zone's current setpoint under a schedule is looked up with `get_current_timeslot`.

What makes each component correct, in the order of the table: a verdict that names what
is there; one setup and reports that account for every bundle; no lost update; no torn
calendar; every write reread; no write twice; the same half hours after a round trip; exact
field encodings; polls that never lose a zone for good; setters that reach all their
registers and the one that is read back; slots that are read as they were written, and the
one in force at each time of the day.

## Modules

| Module | Models | Kind |
|---|---|---|
| `GTW26Identity` | the verdict of the probe as a function of the answers | operators |
| `GTW26Probe`, `GTW26Probe_proofs` | one probe, block by block | state machine, EXTENDS `GTW26Identity` |
| `GTW26Facade`, `GTW26Facade_proofs` | setup, polls, read-once bundles and writes by several tasks | state machine, EXTENDS `GTW26Identity`: the probe a task runs ends in one of the verdicts that module allows |
| `ModeRegisters` | what a mode call promises of the words it shares | abstract specification |
| `GTW26ModeWrites`, `GTW26ModeWrites_proofs` | how the mode calls do it | state machine, implements `ModeRegisters` |
| `GTW26Clock`, `GTW26Clock_proofs` | `async_set_clock` against a running clock | state machine |
| `RetryingUnit` | `retry_on_transient` and the operations under it | actions of a task, by itself a specification `UnitSpec` |
| `GTW08Gateway`, `GTW08Gateway_proofs` | detection, setup, polls, reset and repair of a GTW-08 | state machine composed with `RetryingUnit`, whose specification it is proved to implement |
| `GTW08Zone`, `GTW08Zone_proofs` | a climate zone's calls, its polls and the repair, by several tasks | state machine |
| `GTW08TimeProgram`, `GTW08TimeProgram_proofs` | a day's slots: the register, the generated day, the current slot | state machine over operators |
| `RegisterFields` | one writable number field: validator, encoding, retention, poll; and the tables of all such fields | state machine over operators |
| `GTW26DayCodec` | the loops of `decode_day` and `encode_day` | state machine, one iteration a step |
| `ComponentFields_proofs` | proofs about the day codec and the number fields | EXTENDS both |
| `MCGTW26ModeWrites`, `MCGTW08Gateway`, `MCGTW08Zone`, `MCComponentFields` | the base layout's registers; installations; symmetry; the day codecs and the number fields, of which a behaviour takes one | TLC instances |

An operator commented `Slip:` is a plausible mistake in the definition that follows
it. It is not part of the specification; replacing the definition by it makes the
property named beside it in `PROJECT.json` (`mutants`) fail.

**Steps.** One action is what a task does between two awaits. A write is three
steps where the order matters: it is sent, it takes effect in the controller, and
its reply arrives. `Raises` is every exception that leaves a call at an await, from
a lost link or a refusal to a cancelled task; what has taken effect stays.

**Data.** Register contents are reduced to what a property tells apart: a bundle's
writable field is a version number that grows with each write, a mode word is the
set of its bits, a clock is a tick of the day, a weekday and a day number, a type code is
its class. The facade keeps the names of bundles, not their registers.

**GTW26Probe.** `device` is the controller: which register sets it implements and
which class of type code it has, and whether an iSystem that does not answer the base blocks
shows that code at least (`showsType`: register 457 is within the iSystem windows of `gtw26/const.py`). `ReadBlock` is one turn of the loop of
`_async_read_blocks`, `LinkFails` the two exceptions that abandon the probe,
`Conclude` the rest of `_async_probe` and the entry points.

**GTW26Facade.** `pc` names the await a task is at: `locking` (the setup lock),
`probing`, `pool`, `each` and `once` (the three stages of a poll), `writing` and
`landed`. `todo` is what a loop has not read; for `once` it is the snapshot
`_poll_read_once` takes of `_pending_once`. `seen` and `acked` are history: the
version a bundle's last completed read met, and the newest version whose write was
acknowledged. A read-once bundle is read in two steps, served and completed,
because it takes several requests (`gtw26/const.py` splits the week programs into one
day per read) and its values are replaced when all of them are answered. The order in
which the snapshot's bundles are read is left open.

**GTW26ModeWrites.** `word` holds the words a task carries across awaits, `next` the
index of the target it is at. The lock's queue is explicit, since `asyncio.Lock` is
fair and a waiter can be cancelled in it. A poller reads all mode registers at
`PollServed` and replaces the components' values at `PollCompletes`. In the abstract
specification a call is a set of targets of which each is served once, by a step after
which one register holds the call's mode (`Holds`) and is as it was but for that mode's bits
(`Keeps`); `intent` and `applied` are the mapping. How the code gets there, `current & ~MASK |
mode`, is `SetMode`; the components show what a masked field makes of a word, also of one
whose mode is none the code knows.

**GTW26Clock.** `elapsed`, `midnight` and `torn` are history: the ticks since the
first block of the latest call, whether a midnight passed between its blocks, and
whether the two blocks stem from different moments.

**RetryingUnit.** A call of the unit is a sequence of requests, one under way at a time. Each
is answered, fails and is repeated, fails for good, or is abandoned by a cancellation; one that
is not answered may have taken effect or not. `landed` counts how often a call's write did.
The errors are the classes the code tells apart. The statistics the unit prints are left out.

**GTW08Gateway.** A component is read with one request, and a request is a call of the
unit by the task `Client`: `Sends` makes it, and each thing that can end it is a conjunction
of the unit's action and of what the gateway does next, so that a failure may be met at every
request, at its first try or its last. `phase` names the request, `todo`, `zone` and `day` are
the loop variables of `_async_setup`, the polls and the repair. The installation behind the unit
is chosen at the start: boards and zone functions, listed by the code or not; damaged days; a
discovery table that is true, empty, or shows no zones until a `reset` puts it right. The
polls themselves are the base class `Device` of `modbus_connection`: it awaits
`_async_setup` before the first poll and again after one that failed, then reads the
components by name and puts an error of one of them, other than a lost link, in its report.
An exception that is not a Modbus error, such as the decoder's, leaves the poll.

**GTW08Zone.** What a call writes is decided when it is made, from `shown`, and kept in
`plan`: the code has no await between the decision and the first write and takes none of
it back later. `SetpointPlan`, `WeekPlan`, `HolidayPlan` and the rest are the bodies of the
setters; a call that is refused before its first await leaves no trace and is not made. The
end of an override is computed when it is sent (`Sends`), after the first write. The repair
is a plan of the days of all four schedules, of which each is read, and written only if it
could not be parsed. `shown` gets a value when its write is acknowledged and all values when a
poll ends. A day schedule is unreadable, the default or a caller's; a setpoint 0 is whatever
the zone was left with, a time 0 the epoch that stands for "not set". `Tick` and `Damage` are
the appliance's own steps; the holiday is what the appliance makes of the two times. `alone`,
`broken`, `quiet` and `fresh` are history: `Remember` sets them when a call begins, `Forget` and
the other actions drop them when something comes between.

**GTW08TimeProgram.** `register` is the day's register: a count and slots of a setpoint and steps. The
registers it starts with have any count, also more than fit, steps past midnight and
setpoints the code does not know. `WriteListed` writes a list of a caller's, `WriteGenerated` one that
`generate_dhw_day_schedule` makes of a forecast. The yields are whole kWh per hour, as
in the code after its `int(...)`; the activity of a slot, which every path copies, is left out.
A season allows a range of hours, as each of the three in `schedule.py` does. The hours at which a
generated program switches are a set (`SlotHours`) that is sorted: two of its slots never begin
in the same hour, so the list the code sorts has no equal members.

**RegisterFields.** A field is a record: its encoding (tenths in sign and magnitude, a scaled
number, or the steps of a time), the words it reads as `None`, its validator with step and
limits, and whether its component keeps what the validator returned or what the caller passed.
`FieldWrite`, `FieldRefuses`, `FieldWriteLost` and `FieldPoll` are what can happen to it.
`ComponentFields` lists the writable number fields of all components, each combination once.
Values are whole hundredths, times are minutes: the code's floats are decimal, and a value
half way between two steps, where their rounding depends on the binary fraction, may go either
way in the model.

**GTW26DayCodec.** A register is the set of its set bits. A behaviour starts with the words of
a day, which are decoded and encoded again, or with periods a caller may pass, which are
encoded and decoded again. Times are in quarter hours, so that half of them are off the
half-hour boundary.

## What the runs check

| Run | Instance | Shows |
|---|---|---|
| `probe` | every device, entry point and sequence of answers | a layout that is reported exists and carries its generation, whatever answers were transient; with definite answers the verdict is the right one |
| `facade_concurrent` | 2 tasks, constructed without a layout or with the base layout | setup exclusive and final, exact reports, nothing given up unread, every call returns |
| `facade_sequential` | 1 task, iSystem, 2 read-once bundles, 2 writes to each | a write re-arms its bundle and is reread, no `KeyError` |
| `mode_writes` | 2 tasks, 1 poller, registers 17 and 26, nudge, 2 calls | the lock excludes and is always passed on, no update is lost, the calls implement `ModeRegisters`, a call that returns has done all its work, polls heal what the components show |
| `clock` | 2 tasks, both layouts, days of 2 ticks, 3 calls, 3 ticks | the calendar is torn only by a failure or a midnight between two blocks; a call that returns has set the clock |
| `retrying_unit` | the gateway and one other task on the unit, 2 tries, 3 faults, 32 installations of up to 2 zones with 2 days | no write takes effect twice; setup that ends has the enabled zones of all the table shows then and the fields of its first main board, however often it broke off, and no later call changes them; the verdicts of detection are founded; a repair that returns has left nothing unreadable; a host that updates, repairs and resets gets every listed installation going |
| `zone` | 2 tasks, a heating and a hot-water zone with and without cooling, callers ask for schedules 2 and 4, weeks of 2 days, 2 calls, 3 hours, 1 damaged day | a call that returns and was not overlapped has done all of it: all days and, when the component showed the appliance's selection, the schedule in force, schedule 1 standing for 4; the setpoint written is the one read back, no override is armed with another call's setpoint, the repair spares readable days |
| `component_fields` | 3 registers of 2 half hours, every bitmap, every list of up to 2 periods; days of 8 hours of 2 steps, registers of 5 slots, every list of up to 2 slots, every forecast of 0 or 1 kWh an hour for 3 seasons; every writable number field of the library, requests around its limits and points of rounding | round trips of a GTW-26 day in both directions, and what is refused; what is accepted for a GTW-08 day is read back to the step, and a generated day heats in exactly the accepted hours; a field that was written reads back within its limits, within half a step of a legal request |

The remaining runs show where the code departs from what it says about itself:

| Run | The code says | TLC finds |
|---|---|---|
| `facade_lost_rearm` | "Re-arm a cached bundle after a successful write." | a poll that began reading the bundle before the write deletes the entry the write has just restored |
| `facade_key_error` | `async_update` documents what it raises | two polls read the same pending bundle, the second `del` raises `KeyError` |
| `current_slot` | the test of `get_current_timeslot`: "the latest timeslot that has started is returned" | only the hours are compared, so a slot that starts later in the present hour is returned |
| `current_schedule` | "Setting the current schedule also updates `selected_schedule` to `schedule_id`." | schedule 4 is selected as schedule 1, and reads as 4 only in scheduling mode while the appliance requires cooling: otherwise schedule 1 is selected, in the appliance and in the component |

`facade_sequential` and `facade_lost_rearm` check the same invariant: with one task
at a time the code keeps it, with a poll and a write that overlap it does not. `zone` and `current_schedule` share an instance:
`OkMeansDone` says what `async_set_current_schedule` achieves, `CurrentScheduleSelected` what its
docstring says, both for a call that nothing overlaps and that began with a component showing
the appliance's selection. With a stale component the call may leave the selection alone.

**Bounds.** Two tasks meet in every way a pair of calls can; a third would only
repeat one of their roles. One bundle per pool tells the pools apart; two read-once
bundles let one be latched while the other is pending, and one that raises cut the
other off. `MaxWrites` bounds the versions: two writes of a bundle let a read
carry a version that is one behind and one that is two behind. Two registers, two
values per mode field, a bit of neither field and a word of unknown modes show a lost or a
spilled update. Two mode calls are one pair that
overlaps, and the abandoned first call that the second one repairs. Days of two ticks
let a midnight fall before, between and after the blocks within three ticks.

Two tries are a first that is repeated and a last that is not. `MaxFaults` bounds the failed
requests, cancellations and days damaged on the way: three suffice to fail all tries of a
request and break off the setup or the repair once more, or damage a day again behind a broken
repair. `MCInstallations` varies one thing at a time: which days are damaged and what the
table shows for two zones, the first of them disabled or not; the boards; an unlisted function;
no GTW-08; another task. The other task meets an installation without damage, because the
two share nothing but the unit.

In the zone the unit of time is the length of an override, which is two hours in the code: a
clock of three values sees one armed, run out and armed again. `Schedules` bounds what callers
ask for and what is damaged: 2 can be selected, 4 is selected as 1, which is neither; the repair
visits all four. In a week of two days a call can fail between the selection and the days or
between two days, and leave a week half written. Two calls are an overlapping
pair, or one that raised and one that comes after.

A codec's day of three registers has a first, a middle and a last one, and periods that cross
their boundaries. `MCRequests` asks a field for the values at its limits, at the points where
rounding turns, next to each, and far outside; `Unlimited` does so for fields without limits;
`MCFirstWords` are the words it may hold before: sentinels, a negative number, a plain one. A
generated day of eight hours has room for two blocks of three hours that are apart, touch or
overlap, for one that is cut short by the end of the usable hours, and for usable hours that end
before the day does.

`CHECK_DEADLOCK FALSE` is set where the model ends: a probe that has returned, `MaxCalls` calls
made on the zone, a day that has made its round trip or been refused, a register that cannot be
parsed. The facade, the mode writes, the clock and the gateway never stop, which their runs check.

**Fairness.** `FairSpec` resumes a task whose request has been answered or has
failed: a Modbus request ends in one or the other because the transport has a
timeout. The setup lock is modelled without its queue, and strong fairness of
taking it stands for the first-come-first-served order `asyncio.Lock` gives; the mode
writes model the queue and need only weak fairness. `PollingSpec` and the pollers
add what the host contributes: polls are periodic, and a poll that is repeated again
and again is answered at some point. Without the latter a broken link keeps every
value stale, and nothing in the code could change that. No fairness is assumed of
calls that set modes, of losses or of cancellations. The gateway's `Fairness` says that
the event loop runs its task (`Sends`), that a request which does not fail is answered
(`Answers`), and that the host goes on calling `async_update`, the repair and the reset whenever
no call is under way for good (strong, since other calls come between). `Recovers` is about
what these calls can achieve once the faults, of which there are finitely many, have stopped.

## What is proved

| Theorem | States | Module |
|---|---|---|
| `TypeCorrect` | `TypeOK` of the facade | `GTW26Facade_proofs` |
| `SetupIsExclusive` | `SetupExclusive` | |
| `LatchedIsRead` | `LatchedWasRead` | |
| `BuildsOnce` | `BuiltOnce` | |
| `ReportsAccount` | `ReportAccounts` | |
| `NoKeyErrorApart` | `NoKeyError`, as long as no two tasks are in the read-once part of a poll (`PollsApart`) | |
| `RereadsApart` | `RereadAfterWrite`, as long as no bundle is being read while a write to it that has landed awaits its reply (`WritesApart`) | |
| `ShowsWhatWasRead` | a read-once component that is not pending shows what its last completed read found, with any overlap | |
| `LatchedIsCurrent` | and what the controller holds, if `WritesApart` holds and the newest write to it was acknowledged | |
| `RereadsAlone`, `NoKeyErrorAlone` | both, when there is one task | |
| `TypeCorrect` | `TypeOK` of the mode writes | `GTW26ModeWrites_proofs` |
| `LockMutex` | `MutualExclusion` | |
| `NoLostUpdate` | `WordIsCurrent` | |
| `OkIsDone` | `OkMeansDone` | |
| `FieldsApart` | a step changes a mode only for a call of that kind that holds the lock, never the other mode of the word or the bits that are neither | |
| `NobodyIsForgotten` | while a task waits, the lock is held by a task inside, or free for the first of the queue, which waits too | |
| `Refinement` | `ImplementsModeRegisters`: every behaviour of the mode writes is one of `ModeRegisters` | |
| `TypeCorrect`, `Consistent`, `OkIsSet` | `TypeOK`, `CalendarConsistent`, `OkSetsClock` of the clock | `GTW26Clock_proofs` |
| `TypeCorrect`, `ReportedExists`, `DefiniteIdentify` | `TypeOK`, `ReportedLayoutExists`, `DefiniteAnswersIdentify` of the probe | `GTW26Probe_proofs` |
| `TypeCorrect`, `ReadDaysSurvive`, `WrittenDaysSurvive` | `TypeOK`, `WordsSurvive`, `PeriodsSurvive` of the day codec | `ComponentFields_proofs` |
| `FieldsReadBack` | `WrittenReadsBack` | |
| `TypeCorrect`, `WrittenReads`, `GeneratedHeat` | `ProgramTypeOK`, `WrittenIsRead`, `GeneratedHeats` of the time programs | `GTW08TimeProgram_proofs` |
| `GeneratedHasStarted` | while a generated program is in force, `CurrentHasStarted`, which other programs violate | |
| `HasStartedUnlessThisHour` | for every program, the current slot has started unless a slot begins later within the present hour | |
| `GeneratedFits` | a generated program has at most five slots, so a register with room for five never refuses it | |
| `WritesOnce` | `WritesAtMostOnce` of the unit, whoever uses it | `GTW08Gateway_proofs` |
| `GatewayUsesUnit` | every behaviour of the gateway is one of the unit | |
| `GatewayTypeCorrect`, `GatewayWritesOnce`, `SetupCompletes`, `RepairsAll`, `DetectionFounded` | `TypeOK`, `WritesAtMostOnce`, `SetupIsComplete`, `RepairLeavesNoDamage`, `DetectionIsFounded` of the gateway | |
| `TypeCorrect`, `OkIsDone`, `ReadsBack`, `ArmsOwn`, `RepairSpares` | `TypeOK`, `OkMeansDone`, `SetpointReadsBack`, `ArmsItsOwnSetpoint`, `RepairSparesReadableDays` of the zone | `GTW08Zone_proofs` |

Each holds for every value of the constants that meets the assumption its module declares
(`FacadeAssumption`, `ModeWritesAssumption`, `ClockAssumption`, `ZoneAssumption` and so on): any
number of tasks, bundles, registers, tries, faults, zones, days and schedules up to the code's
four. The assumptions say that the model values that mean "nothing" are not among the others
and what the declarations of the code fix, such as disjoint pools and distinct hot-water
registers. `FieldsAssumption` says more, and is discussed below.

*Facade.* `SetupExclusive` and `LatchedWasRead` are not inductive by themselves: a read
that completes must carry a version the controller has held, and a refused one must
not touch the pending set. `IInv` adds `Locals`, which says what a task's local variables
hold at each await: a loop over the snapshot holds read-once bundles only, a bundle being
read carries a version other than 0, a write has a target. The pending set shrinks only
in `ReadOnceAnswers`, which records the version carried, hence `LatchedWasRead`; a setup
needs `~setupComplete`, hence `BuiltOnce`. `AllAccount` follows the report through a poll:
what is reported so far and what a loop has still to read are disjoint and together what
the poll set out to read. What the two violation
runs refute is proved under the condition that they break. `PollsApart` lets any number of tasks
poll, write and set up, but only one read the pending bundles at a time; then what is left of its
snapshot is pending (`AllHeld`), so it deletes nothing twice. `WritesApart` lets a poll and
a write overlap unless the bundle that is being read has just been written; then (`Rearmed`) a
bundle that is not pending was read after its newest acknowledged write, a read under way
carries that write, and a reply that is due re-arms what it must.
`ShowsWhatWasRead` needs no such condition: a write that retains its value in a component arms it
in the same step, and only a completed read takes an entry out of the pending set. What was read
may be old, though. `LatchedIsCurrent` says when it is not, and its hypothesis that the newest
write was acknowledged is what a lost reply takes away.

*Mode writes.* `IInv` is `TypeOK`, `MutualExclusion`, `CallActive` (a task with a call in
progress has arguments, and its index stays within them) and `WordIsCurrent`. The last
is kept because only a holder of the lock writes registers, so no other task holds a word
that could age, and because writing one target of a call does not change another, the
targets being distinct. From `WordIsCurrent` follows the refinement: the word written is
the register's present word with the call's field replaced, which is the abstract step. That
clearing a mask and or-ing a mode in replaces just that field (`SetModeWord`) needs each mode
within its mask, which is what the assumption says of the enumerations; that it leaves the other
mode alone (`SetsOneField`) needs the two masks of `const.py` to have no bit in common.
`OkMeansDone` needs the refinement's ghost in the other direction: that all targets
already written still show the call's mode when the last reply arrives. `NobodyIsForgotten` is the
safety half of `EveryCallReturns`: `QueueIsSound` says that the queue holds each waiting task once,
which taking its head and leaving it from the middle by a cancellation (`WithoutOne`) preserve.

*Clock.* `Locked` gives the holder of the lock the steps of its layout, so no other call comes
between its blocks. `HalfSet` is what the first block has established when the second is
sent, `AllSet` what both have: the moment of the call and the ticks since. That a day after
the last tick of a date comes the first of the next, with the next weekday, is arithmetic
(`OneMore`) about any length of a day.

*Probe.* The blocks that have been read are a prefix of the order, and each answer recorded is
one the controller gives; the verdict is drawn from all of them (`Inv`). The two properties are
then facts about `Detection`, proved by cases on the layout reported.

*Fields.* `FieldsAssumption` is what a field's declaration must be for a written value to read
back, and TLC checks it of every field of the library: the limits are multiples of what the register
can hold and of the validator's step, no legal value is encoded as a word the field reads as
`None`, and a component that keeps what the caller passed has a validator that does not round. The
proof follows a value: `Nearest` moves it by at most half a step, clamping keeps it on a step
because the limits are steps, encoding is exact on the steps of the register, and decoding
inverts it because the word has no sign bit and is not a sentinel. A field without limits leaves the
sentinels to the caller (`RequestIsSound`): 25.5 degrees of a field of 8 bits is such a value.

*Retrying unit.* A request under way is the one its loop counts (`Counted`), and a write
under way has not taken effect (`Fresh`), since nothing repeats it.

*Gateway.* `Working` ties the request to the call and its kind to the unit's operation, so that
only a reset and a repair write. `Discovered` says the table held is empty or the true one.
`SettingUp` is the loop invariant of the setup, which names the components still to be read,
the boards examined once the second is read and the zones found below the one at hand; setup
clears the zones when it starts on them, which is why attempts that broke off do no harm. When the
last zone has been asked it amounts to `FoundAll`, which compares with the table shown in the step that ends the
setup, and only a setup that is not done assigns these again.
`Repairing` says the days before the one at hand can be read, which lasts because days are damaged
only between two calls. Detection needs `Counted`: a read that ends in the error "not served"
has used all its tries. `Typed` adds that a poll under way has a component left to read.

*Zone.* `Good` is what every plan is: distinct targets, nothing but the writes its call
promises, and an override's end only behind the override's own setpoint. `Follows` keeps a task
on such a plan, `Writing` says that what it has written is still there as long as no call
overlaps, and `Repairing` that the days passed can be read. For `SetpointReadsBack`, `Unmoved` adds
that what the component shows has not changed since the call looked at it, so that the register
written and the one read are chosen by the same values. `Selecting` says of a week's
call that its plan either selects the schedule or writes days only, and then the appliance already
has the selection, which lasts while nothing overlaps.

*Day codec.* The theorems assume `DayAssumption` only: at least one register of at least one bit.
`IInv` says what each loop has established at its slot or period: the slots before `slot` are
those of the periods found and of the one that is open, and each period found ends before
what follows (`Decoding`); the bits set are the slots of the periods before `index` (`Encoding`).
The two together carry a day through its round trip. The arithmetic is in `DivMod`, `BitType`
and `BitInjective` (a half hour is one bit of one register), `PeriodOfSlots` (the
times a period is given stand for its slots, midnight included) and `ClosePeriod`.

*Time programs.* `IInv` says that the register is one that was found or the encoding of the
list written last, that the slots are that list or its decoding, and that a generated list
is the day of accepted blocks. `WrittenIsRead` is then the arithmetic of steps (`StepOfTime`).
The sort is a bijection because the ranks of a finite set of hours are a pigeonhole (`SortedIs`),
and a generated day is in order; so the current slot at an hour is the last that starts no later
(`CurrentOfDay`), and the hour is accepted or not as the start of its block or group says
(`LastStartDecides`), blocks and groups having no gaps. A generated slot begins on the hour, which
is why `CurrentHasStarted` holds of it. A program of a caller's need not, and
`HasStartedUnlessThisHour` says how far the code departs from it: a slot at 6:30
is returned from 6:00 on. Two blocks make at most three groups of what is left
(`GroupFollows`), hence five slots. The yields do not matter: whatever blocks are accepted, they
are ranges of usable hours.

Model-checked only: liveness (`EveryCallReturns`, `WritesAreReread`, `StalenessHeals`,
`Recovers`), which rests on fairness and is out of the prover's reach.
`mode_writes` runs with the panel nudge; the theorems hold with and without it.

## Where the code and its words differ

Four differences are runs of their own, above. Others were met while modelling; the models
contain the behaviour, but no run is spent on them:

- A GTW-08 that is overloaded answers with errors the code documents as transient, and
  `async_detect` takes them for a definite "not a GTW-08" when the last try ends in one.
  `DetectionIsFounded` states what remains true: not before all tries of a read failed.
- `async_repair_invalid_schedules` on a gateway that has read no table finds no zones and
  returns as if all was well; and a table that shows zero zones sets a gateway up
  without any, for good.
- `SETTINGS` holds the discovery table, so `async_update` reads it every time.
- `float10_range` checks a value and returns it unrounded, so a component shows what was
  asked for until the next poll shows what the register holds; `in_range` refuses whatever is
  between its steps, half degrees among them.
- Overrides of two tasks that overlap can arm one with the other's setpoint, a day written while
  a repair runs can be overwritten with the default, and a mode call that raises can leave the
  panel register set. Nothing in the code excludes this; the properties say what holds without.
- A busy answer to one identity block may decide the probe's verdict, and a poll may put an older
  value over one a write has retained.

## What is not modelled

- The controller's own panel changing a mode between the read and the write of a mode
  call. `_write_lock` cannot exclude it and nothing in the code claims it does.
- The facade's raw reads, health check and presence predicates: they keep no state, and
  what they do to the facade, running the setup, is the call `async_ensure_setup`.
- Validation of arguments before anything is awaited, except that of the fields, and the
  wording of errors.
- Framing, transports and the pooling of `modbus_connection`, a dependency. The facade and
  the mode writes use two facts about it: a group's update replaces the values when it
  has been answered, and a failed update leaves them. The gateway uses what is said of `Device`
  above, and reads every component with one request, where a component whose
  registers are far apart takes several.
- Two tasks in the gateway at once: its calls are made one at a time, and the overlap of
  repair, polls and setters is in `GTW08Zone`. A zone's function does not change while the
  gateway is set up, and a `reset` makes the table true.
- Of the zone, the setters that write one register of their own, and the weekly setpoints that
  `current_setpoint` shows under a schedule. Of the GTW-08 appliance and the buffer tank, the
  readings: declarations without control flow.
- Enumerated settings, which are written as they are; the date and time-of-day fields; and the
  fields that take one byte of a word.
- The forecast's conversion to kWh in `generate_dhw_day_schedule`: floating-point arithmetic
  whose result is an input of `GTW08TimeProgram`.
- `query.py`, which parses arguments and prints, and `model/`, which declares protocols.

## Plan

What could be added, in this order:

1. An abstract zone in which each call takes effect at once, and the zone as its refinement for
   calls that do not overlap.
2. The date and time-of-day fields.
3. Two tasks that poll and repair one gateway, with a setup that other polls wait for.

New questions about a module that has a run are added to that run, so that the project stays
one that is checked in minutes.
