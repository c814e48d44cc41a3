# A verification development for the paparazzi quadcopter swarm

This repository is the Paparazzi autopilot with a swarm added by its authors: a
ground control station for several quadcopters (`GCS/`), and an airborne module
(`sw/airborne/modules/quad_swarm/`) that lets that station lead them through
negotiation, engine start, take-off, rounds of movement and landing.  Under the
swarm lies the rotorcraft firmware (`sw/airborne/firmwares/rotorcraft/`), which
decides when motors run and which mode flies; it hears its pilot through
`subsystems/radio_control`, its sensors through an SPI bus, and its parts hear each
other through the state interface (`state.c`).

The development models these: the arming and mode logic, the radio control, the
flight plan, and one aircraft made of the three; the swarm from the operator's
buttons to the quads' flight plans; the state interface; and the SPI driver with the
sensor drivers of an IMU.  TLC checks them on small instances.  TLAPS proves every
safety invariant, action property and refinement that these runs check, for every value
of the constants that the builds allow: the safety of the autopilot, that the composed
aircraft implements it and is the quad the swarm is made of, that the swarm's targets do
not get mixed up and its rounds are those that were promised, that a marked value of the
state interface is the one last set, and that the SPI driver with its interrupts is the
fifo its users were promised.

## 1. Inventory

| part | source | state it keeps | operations | hard behaviours | what makes it correct |
|---|---|---|---|---|---|
| arming | `autopilot_arming_{yaw,throttle,switch}.h` | state, counter, `unarmed_in_auto` | init, set, check on each RC frame | a countdown interrupted by kill, mode change or RC loss | no counter wraps; motors start only after the gesture |
| autopilot | `autopilot.c`, `autopilot.h`, `main.c` | mode, motors, in-flight flag and counter, ground-detect flags | `autopilot_set_mode`, `autopilot_on_rc_frame`, `autopilot_periodic`, `failsafe_check`, settings, swarm acknowledgements | five callers change mode and motors in any order | motors only with attitude; guidance follows the mode; RC loss ends in FAILSAFE |
| radio control | `subsystems/radio_control.{c,h}`, `radio_control/ppm.{c,h}` | status, age of last frame, count of good frames, decoder | pulse interrupt, frame event, periodic task | the interrupt runs within the event's handler; loss and recovery alternate | RC_OK means a recent frame and no remainder of an old one |
| navigation and flight plan | `navigation.c`, `common_flight_plan.c`, `conf/flight_plans/` | block, stage, waypoints | `nav_goto_block`, `nav_init`, `auto_nav` with calls into the autopilot | blocks change by themselves, by the ground and by an acknowledgement; a call is made once | a block that kills the motors keeps them off |
| state interface | `state.c`, `state.h`, `math/pprz_orientation_conversion.c` | 35 representations of 7 quantities, their status words, two local frames | set, get, convert, new origin | what a getter returns depends on every earlier read and set | a marked representation is the value last set |
| SPI bus | `arch/stm32/mcu_periph/spi_arch.c` | ring of transactions, lock, two DMA channels | submit, lock, resume, DMA interrupts | interrupts against the main loop; buffers of unequal length | one transaction at a time, in order, complete |
| Booz2 IMU | `imu_b2.{c,h}`, `max1168.c`, `ms2100.c`, their arch files | a state per device, the axis | periodic request, end-of-conversion interrupt, event | a bus locked between two transactions | both sensors go on delivering; no buffer changes under its reader |
| swarm module | `quad_swarm.c`, `quad_swarm.h`, `datalink.c` | `quad_swarm_state`, target | 10 s periodic, target, acknowledgement, block | samples what changes faster than it looks | a target is flown only on command |
| operator's threads | `Ground_Station.cpp` | `GCS_busy`, `target[]`, `ref`, locals of `wait_all_quads` | one thread per button, `wait_all_quads`, data handler | lost, late and repeated messages; states read without a lock; waits without a timeout | rounds are all-or-none; each thread ends |
| Swarm class | `Swarm.cpp` | cached state, position, counter of each quad | set by the data handler, scanned by threads | the scan is no snapshot | |
| radio link | XBee modems; `XBEE.cpp`, `XBEE_msg.cpp` | frames under way | send, parse | loss, corruption, escapes | a frame is delivered or dropped |
| guidance, stabilization | `guidance/*`, `stabilization*` | modes of two loops, set points | mode change, run | numeric | follows the autopilot's mode |
| AHRS, INS, GPS | `subsystems/*` | filter state, status | align, update | numeric; loss of fix | |
| serial framing, I2C, UART, timers | `subsystems/datalink/*.h`, `mcu_periph/*` | parser state, ring buffers, timers | interrupt handlers and tasks | interrupts between tasks | no transaction is lost |
| fixed-wing firmware | `firmwares/fixedwing/*`, `inter_mcu.*` | modes of two processors | | links between processors fail | |
| ground segment, generators, simulator | `sw/ground_segment`, `sw/tools`, `sw/lib`, `sw/simulator` | | | | |

How they interact.  The firmware is one loop: `main_periodic`, `main_event` and
the periodic tasks run to their end one after another, so interleaving is between
handlers.  RC frames, `failsafe_check`, the flight plan's `NavKillThrottle` and
`NavResurrect`, ground settings and swarm acknowledgements all call
`autopilot_set_mode` or `autopilot_set_motors_on`.  The swarm module reads
`nav_block` and `autopilot_mode` and reports its state by radio.  On the ground
each button starts a POSIX thread that takes `GCS_busy` by `trylock`; another
thread stores reports in the Swarm object; the button's thread reads them without
a lock and repeats messages until all quads report the state it waits for.

Two interfaces of the firmware do have concurrency: the PPM decoder is an interrupt
that shares `ppm_frame_available` with the main loop, and the SPI driver's DMA and
end-of-conversion interrupts share the ring, the transactions and the drivers' states
with it.  The state interface is called from the main loop only; what is hard there is
the order of calls.

`PROJECT.json` lists all components, including those left out with the reason,
and the hazards at their lines.

## 2. Modules

| module | models | state |
|---|---|---|
| `Arming` | the three arming headers; `ARMING` says which one is compiled in; each `case` of a state machine is one operator | fields of the autopilot record |
| `Autopilot` (extends `Arming`) | `autopilot.c` and its callers | `ap` (globals of `autopilot.c`, modes of the guidance loops), `ahrs`, `rc_ok`, `gps_lost` |
| `MCAutopilot` | the above with a history of the pilot's gesture | `gesture` |
| `AutopilotProofs` | theorems about arming and autopilot | |
| `RadioControl` | PPM decoder, frame event, periodic task | `ppm`, `radio_control` |
| `AutopilotRadio` (extends `RadioControl`, instantiates `Autopilot`) | the autopilot with `rc_ok` computed by its radio | these, Autopilot's, `handling` |
| `MCAutopilotRadio` | the above with histories of pulses and of good frames | `pulses`, `steady` |
| `AutopilotRadioProofs` | theorems, the refinement of `Autopilot`, and what it carries over | |
| `Rotorcraft` (extends `Autopilot`, instantiates `QuadSwarm`) | one aircraft: autopilot, flight plan, swarm module, datalink | Autopilot's, `nav`, `swarm` |
| `MCRotorcraft` | the above with histories of gesture, killed block and left flare | `gesture`, `held`, `loose` |
| `RotorcraftProofs` | theorems, the refinement of `Autopilot`, the steps of a quad, the pilot's gesture | |
| `State` | the state interface, for a firmware given by its calls | `profile`, `nedInit`, `utmInit`, `status`, `right`, `given` |
| `MCState` | the firmwares of the runs | |
| `StateProofs` | theorems for every firmware whose calls are sound and steady | |
| `Spi` | ring, lock, DMA exchange of the stm32 SPI driver | `spi`, `trans`, `irq` |
| `ImuB2` (extends `Spi`) | the Booz2 IMU's drivers on that bus, with one driver more | these, `at`, `max1168`, `ms2100`, `cur_axe`, `converting` |
| `MCImuB2` | the transactions of the Lisa/L board | |
| `SpiFifo` | abstract: what the SPI interface promises | `queue`, `active`, `owner` |
| `ImuB2Proofs` | theorems about `ImuB2`, the refinement of `SpiFifo` | |
| `SwarmLink` | swarm states, blocks, messages, the radio link (external) | `down`, `up` |
| `QuadSwarm` (extends `SwarmLink`) | `quad_swarm.c/.h`, `DL_BLOCK`, the flight plan's blocks | `quad[q]` |
| `GroundStation` (extends `SwarmLink`) | `Ground_Station.cpp`, `Swarm.cpp` | `gcs` |
| `SwarmSystem` | composition of the two sides over the link | all of these |
| `MCSwarmSystem` | the above with its directions as model values | |
| `SwarmRound` | abstract: what a round promises | `phase`, `st` |
| `SwarmProofs`, `SwarmReferenceProofs` | theorems about `SwarmSystem` | |
| `SwarmRoundProofs` | its rounds in flight, the refinement of `SwarmRound` | |

Correspondence.  In `Autopilot` the C functions that call one another
(`autopilot_set_mode`, `autopilot_set_motors_on`, `autopilot_arming_set`,
`autopilot_check_in_flight`, ...) are operators from a record to a record, and an
action is one handler: `RcFrame(s)` is `RadioControlEvent` with the sticks `s`,
`AutopilotPeriodic` is `autopilot_periodic` with whatever call the flight plan
makes, `FailsafeCheck` is `failsafe_check`, and so on.  A frame is what
`autopilot_rc_helpers.h` derives from it (throttle down, sticks centred, yaw
pushed, kill switch, mode switch).

In `GroundStation` the job is the thread that holds `GCS_busy`; `PressWait`,
`PressGo` and `PressExecute` are its start, `ScanQuad` is one comparison of
`Swarm::all_in_state`, `GoTarget` one turn of a go thread's loop, `SendQuad` one
turn of the loop of `wait_all_quads`, `HandleReport` one report stored.  A step
reads one quad's entry, as finely as the threads race.  `last_timestamp` and the
counters of the Swarm class are kept as `fresh[q]`: a report came since the last
message to `q`; the counters are not initialised, so `heard` is arbitrary at the
start.  A target is whose it is, in which direction, and whether the reference of
the local plane had been taken from a reported position of the leader.

In `QuadSwarm`, `SwarmPeriodic` is the whole of `quad_swarm_periodic` (it reports
the state before its switch changes it), `Deliver` is one datalink message handled
and `FlightPlan` a block of `conf/flight_plans/rotorcraft_basic.xml` left because
its own condition was met.  The module's `quad_swarm_reach_tar` always succeeds
in the code, so `SWARM_EXEC_CMD` is left at the next period.

In `RadioControl` a pulse is its class of length; `AutopilotRadio` splits
`RadioControlEvent` at the end of its handler, because a frame that the interrupt
completes within the handler is cleared with the handled one.  All other handlers run
with `~handling`, as the main loop does.

In `Rotorcraft` a block is its number and whether the call of its first stage was
made; `NavNext` and `CallOf` are `auto_nav`, with the exception of a block looked at
first, as `gen_flight_plan` generates it, and run in whatever mode the autopilot is
(`nav_periodic_task` is called from `autopilot_periodic` without asking).  `Quad` is
what `QuadSwarm` knows of the aircraft.  Everything a handler calls in the same run of
the main loop is in one action: `SwarmAck` is `quad_swarm_ack_datalink` with
`autopilot_set_mode` and `nav_init`.

In `State` a quantity's memory is abstracted to the set `right` of representations that
hold the value last set, in the current frame; each `stateCalc` function is the list of
its branches with what they read, mark and forget to mark.  A firmware is a profile:
the setters and getters it calls, and the origin it defines.  `Sound` says of a profile
that no conversion its reads can take uses a source that is not right; `MCState` has
TLC evaluate it for the firmwares in service.

In `Spi` the words that a DMA channel has to move, those on the wire and those moved
are counted; `TxWord` and `RxWord` are the hardware (external), `Interrupt` the two
handlers.  In `ImuB2` an action is one statement of the main loop between two accesses
to what interrupts share, and `at` is the statement that is next.

Definitions whose comment begins "A slip" are plausible mistakes in the code; no
specification uses them.  They show that each property can fail.

## 3. Runs

| run | asks | distinct states |
|---|---|---|
| `AutopilotYaw` | types, motors after alignment, in-flight pair, guidance, countdown, starts only in active modes and only after the held gesture; yaw arming, two `auto2` settings, ground detection, kill as failsafe | 93,548 |
| `RotorcraftSwitch` | one aircraft of the swarm with the kill-switch arming: no start without the gesture, blocks that kill keep the motors off, every ground detection was asked for, every step is one of a quad of `QuadSwarm` | 107,908 under its view |
| `AutopilotRadio` | the autopilot with the pulses of its radio: frames are whole, RC_OK is recent and counted, a loss is handled (liveness), silence ends in FAILSAFE, a steady radio is found again | 259,546 |
| `StateInService` | firmwares in service: reads are fresh, what is marked stays right until it is set again | 25,744 |
| `ImuB2` | SPI with unequal lengths, lock and interrupts: exclusive bus, clock, whole transactions, own buffers, the promised fifo, both sensors deliver (liveness) | 457,180 |
| `SwarmFlight` | two flying quads, rounds in two directions and land here, lossy link: the threads implement `SwarmRound`; followers fly to their own target; a landing stands | 3,988,152 |
| `SwarmBroken` | pilots leave NAV and the station restarts at any time: still all-or-none, still its own waypoint | 3,045,324 |
| `SwarmGround` | from power-up through every button to rounds: a target is computed only after the reference | 2,473,781 |
| `SwarmRounds` | liveness: go, execute, end-negotiate and start-engine threads end | 90,268 |
| `AutopilotThrottleRestart` | violation, finding 1 | |
| `SwarmGoLost` | violation, finding 2 | |
| `SwarmTakeoffHangs` | violation, finding 3 | |

Findings (quoted in `PROJECT.json`):

1. Throttle arming: motors killed in `STATE_UNARMING` start again on the next frame
   in an active mode, with no gesture.
2. The go threads send every quad's first target to the leader; when the leader's
   own is lost it keeps another quad's and the wait succeeds.
3. A quad that climbs through block Takeoff between two runs of the 10 s task never
   reports take-off; the take-off thread holds `GCS_busy` for ever.

Bounds and why they are enough.
- `ARMING_DELAY = 2`, `IN_FLIGHT_TIME = 2` (the code: 10 or 40, and 40): the state
  machines compare with the bound and with 0 only; 2 gives an intermediate value.
  The theorems hold for every value above 1.
- Modes of the mode switch: attitude (3), hover z-hold (11) or attitude with climb
  by stick (5), NAV (12), and the `auto2` setting, which may name any mode; the runs
  use FAILSAFE, NAV and RATE_RC_CLIMB for it, the values with special cases.
- `QUAD_NB = 2`: one leader and one follower; `GCS/Makefile` builds for 3, which
  `SwarmGoLost` uses.  The followers do not interact with one another, only with the
  leader and with the scans, of which two entries already make something other than a snapshot.
  All safety properties of the swarm are proved for every number.
- `DOWN_CAP`, `UP_CAP` (1): the link drops what does not fit, which the sender cannot
  tell from a loss.  A message of an earlier button, or an old report, may still be the
  one under way.  `SwarmFlight` without land here was also run with two (1.1 million
  states), which adds a repeat that is sent before the first arrived.
- `SwarmFlight` treats the two directions as interchangeable (symmetry): a target keeps
  which way it leads, and no definition prefers a way.
- `DIRECTIONS`: two where a target of an earlier round must differ from one of this
  round, one elsewhere.
- `START`: where the quads are when the ground station starts.  `"flying"`,
  `"engine"` and `"negotiated"` are states the ground station can lead them to, used
  so that a run need not go through the steps of another; `SwarmGround` starts from
  power-up.
- `RotorcraftSwitch`: the ground sends BLOCK 3 (start engine), 4 (take-off) and 11 (land
  here), the blocks of the buttons; ground detection is built in, which no airframe of
  the swarm does, so that the flare's end is reached.  Its `VIEW` leaves out thrust and
  flight detection: with the kill-switch header nothing but themselves reads them.
  `MCSticks` keeps of the frames one per case that the header and the modes distinguish.
- `AutopilotRadio`: `RC_LOST_TIME` 1, `RC_REALLY_LOST_TIME` 2, `RC_OK_CPT` 2 (the code: 30,
  60 and 15 periods and frames), two PPM channels: each counter has its bound and a value
  on the way.  The theorems hold for all values.
- `StateInService`: the firmwares are the rotorcraft with its origin set at boot or at
  the first fix, the fixed wing with the float INS, and any AHRS.  Numbers of calls are
  not bounded.  Attitude has a profile of its own because no other code touches it.
- `ImuB2`: a ring of 6 (the code: 8), which the five transactions cannot fill, a result
  of 2 words (the code: 8), and a third driver whose transaction sends more, receives
  more, or receives nothing.  `LATE = FALSE` says that a transmit interrupt is served
  before the next transaction's words are out (see Observations); a conversion outlasts
  the main loop's way from its request to the status.
- `CHECK_DEADLOCK FALSE` for the swarm: with no pilot and no restart the system may
  really stop, for instance when every quad waits for a button that is not used.
  All other runs check deadlock.

Fairness.  `AutopilotRadio!Fairness`: the main loop takes a frame that is available,
ends its handler and runs the radio's periodic task (weak), and `failsafe_check`, which
`handle_periodic_tasks` runs at 20 Hz whatever happens, gets its turn though it is not
enabled while a frame is handled (strong).  No fairness of pulses.  `ImuB2!Fairness`:
main loop, interrupts and words of the DMA go on (weak); the timer is due again and
again at the start of the loop, and a conversion that was requested ends (strong, since
the statements during which the model holds it back come and go).
`SwarmSystem!Fairness`:
the thread that holds `GCS_busy` spins, the quads' periodic task and flight plan
run, time passes (weak); a message that is sent again and again is handled at last
(strong, of delivery, the usual assumption on a link that loses messages).  No
fairness of buttons, pilots or losses.  `ClockFairness`, used in `SwarmRounds`
only, is more: `wait_all_quads(SWARM_EXEC_CMD)` has one clock for all quads, and
whichever quad's turn it is when two seconds are over gets the acknowledgement.
Nothing in the code makes that turn fall on a particular quad; the loop spins
millions of times in that interval and the clock knows nothing of it, so each quad
is taken to be met infinitely often.  Without this assumption `RoundEnds` fails:
the one starved quad is the hazard at `Ground_Station.cpp:767`.

## 4. Proofs

`AutopilotProofs` proves for every choice of arming variant, delay, detection time,
airframe modes and build options allowed by `AutopilotAssumption`:

| theorem | property | extra assumption |
|---|---|---|
| `Inductive` | `Spec => []IInv` | |
| `TypeCorrect` | `TypeOK` | |
| `MotorsWaitForAhrs` | `MotorsNeedAhrs` | |
| `FlightCounterInStep` | `InFlightCounter` | |
| `CountdownNeverWraps` | `CountdownArmed` | |
| `GuidanceInStep` | `GuidanceFollowsMode` | `AHRS_KILL` |
| `StartsOnlyInActiveMode` | `StartsInActiveMode` | `ARMING # "switch"` |

The inductive invariant is `IInv`: the Boolean inputs have their types, and
`Good(ap, aligned)`, which is the conjunction of the type of `ap`, `CounterInv`,
`FlightCounter`, `Unaligned` unless aligned, and `Guidance` if `AHRS_KILL`.  The
properties are not inductive alone.  `TypeOK` needs to know that the arming counter
is at least 1 in the states that decrement it (`M_ON_STICK_PUSHED`, `UNARMING`) and
below the delay in those that increment it (`M_OFF_STICK_PUSHED`, `ARMING`): that is `CounterInv`, which holds because each such state is entered
from one that reloads the counter and because every way out of them that leaves the
counter alone also leaves the state.  `MotorsNeedAhrs` needs that before alignment
the mode is KILL and, with the switch header, which does not look at the mode, that
the arming state is not `MOTORS_ON` and nothing has set `unarmed_in_auto`:
`Unaligned`.

The proof follows the code.  There is one lemma per state-machine case and
per `autopilot_arming_set`, saying that it preserves `Good`'s parts; the next lemmas
compose them for `SetMotorsOn`, `SetMode`, `OnRcFrame`, `Periodic` and the two halves
of `failsafe_check`; the theorem splits on the disjuncts of `Next` and cites one
lemma each.  The two extra assumptions are the builds where the property is false:
without `AHRS_KILL` `autopilot_init` leaves guidance in KILL with the mode NAV, and the
switch header has no test of the mode (see Observations).

`AutopilotRadioProofs`:

| theorem | property |
|---|---|
| `RadioInductive` | `Spec => []RadioInv` |
| `RadioIsFresh` | `FreshRadio` |
| `RadioTypeCorrect` | `TypeOK` |
| `RadioRefinesAutopilot` | `Spec => A!Spec` |
| `OnlyWholeFrames` | `MCSpec => FramesAreWhole` |
| `OkIsSteady` | `MCSpec => SteadyBeforeOk` |

`RadioInv` is the type of decoder and counters with `FreshRadio`, which is inductive
because every step that starts the count anew also takes back RC_OK.  The refinement
needs it: `Autopilot` lets `rc_ok` begin only in `RcFrame`, and a frame makes RC_OK only
when it is handed on.  So every theorem of `AutopilotProofs` holds of the composition.
`RadioTypeCorrect` takes that step for the types.  To the provers the autopilot that the
composition instantiates and the one `AutopilotProofs` extends are different operators
with the same bodies; the lemmas from `SameModes` to `SameNext` show them equal from the
modes up, one function of the code on top of another.
The last two speak of the histories of `MCAutopilotRadio`, and rest on `HistoryInv`:
within a frame `cur_pulse` is the number of pulses since the synchro blank and the frame
is not yet valid, a valid one has as many pulses as channels, and `steady` and
`radio_ok_cpt` add up to `RC_OK_CPT` at least.

`RotorcraftProofs`:

| theorem | property |
|---|---|
| `RotorcraftRefinesAutopilot` | `RotorcraftSpec => Spec` |
| `RotorcraftWaitsForAhrs` | `MotorsNeedAhrs` |
| `RotorcraftTypeCorrect` | `RotorcraftTypeOK` |
| `AircraftIsAQuad` | `ImplementsQuad` |
| `HoldingStaysKilled` | `HoldingKills` |
| `DetectionIsAsked` | `DetectionExplained` |
| `StartsAfterGesture` | `MCSpec => StartNeedsGesture`, `ARMING # "throttle"` |
| `AircraftStartsAfterGesture` | `MCRotorcraftSpec => StartNeedsGesture`, `ARMING # "throttle"` |

The first is a step refinement: what the flight plan calls is one of the calls that
`Autopilot` allows at any time, an acknowledgement is its `SwarmAckMode` or nothing, a
block is a stutter.  `AircraftIsAQuad` connects the two halves of the development: the
swarm is checked and proved about with quads whose mode is a Boolean that may change at
any time, and this says that what the firmware does to block, swarm state and mode is
what such a quad may do.  It rests on `SetModeMode` (the mode `autopilot_set_mode` ends
in, once aligned) and `PeriodicRun` (a run of `autopilot_periodic` neither enters nor
leaves NAV and starts nothing that the flight plan's call did not).  The formulas about
records are stated on `Known`, one field at a time.  `HoldingStaysKilled` is inductive
with the converse about a block that has not run: it is one of the blocks that kill and
its call is yet to be made (`HoldInv`).  `DetectionIsAsked` needs that a touch-down is
never latched while another is waited for (`DetectionInv`): the event that latches one
ends the wait, and a flare looks for its exception before it asks; the lemmas show that
modes, arming and failsafes leave both flags alone, and that what follows the flight
plan's call in `autopilot_periodic` at most takes a touch-down back.

`StartNeedsGesture` relates a frame that starts the motors to the frames before it, so its
invariant (`Promised`) relates the state machine to the history: `M_OFF_STICK_PUSHED` has
counted fewer frames than the pilot has held the stick, the states that start motors are
reached with the gesture complete, and with the motors off the machine is in none of
those that run them.  What makes it inductive is that everything but a frame either leaves
the machine alone or, through `autopilot_arming_set`, brings it in line with the motors
(`Outside`, `Settled`), and that the mode becomes KILL only that way.  This is where the
throttle header differs: its `autopilot_arming_set` leaves ARMING and UNARMING as they are
(finding 1), and the theorem excludes it.  TLC checked `Promised` for both headers before
the proof.  For the aircraft, `AircraftHistory` shows that its specification with
histories implements the autopilot's.

`StateProofs`, for any set of firmwares all of which are `Sound`:

| theorem | property |
|---|---|
| `StateInductive` | `Spec => []IInv` |
| `StateTypeCorrect` | `TypeOK` |
| `ReadsAreFresh` | `FreshReads` |
| `MarksAreKept` | `MarkedStaysRight` (firmwares also `Steady`) |

`FreshReads` is not inductive alone, because a getter marks all that it went through:
`IInv` adds that marks stay inside what the profile lists and that only the firmware's own
kind of frame is ever defined.  `Sound` is a condition on tables alone, without
reachability, and `MCState` has TLC evaluate it for the firmwares in service, so that the
theorem holds of them for any number and order of calls.  `MarksAreKept` is about what a
conversion writes on its way: `Steady` says that the branch a getter may take goes only
through representations that earlier branches have looked for and not found marked, so
that nothing marked is overwritten.  TLC evaluates it too (`InServiceSteady`).

`ImuB2Proofs`, assuming `InTime` (interrupts are served before the next transaction's
words are out):

| theorem | property |
|---|---|
| `SpiInductive` | `Spec => []IInv` |
| `SpiTypeCorrect` | `TypeOK` |
| `ClockKeepsRunning` | `ClockRuns` |
| `SuccessIsComplete` | `Complete` |
| `BusInductive` | `Spec => []BInv` (with `Wired`) |
| `BusIsExclusive` | `BusExclusive` (with `Wired`) |
| `BuffersAreOwn` | `OwnBuffers` (with `Wired`) |
| `DriverImplementsFifo` | `ImplementsFifo` (with `Wired`) |

for every length of the ring, any words of a result and any lengths of the third
driver.  `IInv` is conservation of words: of the transaction that is exchanged, the words on
the wire and those still to be sent are as many as those still to be received, counting
what the second part of a transaction of unequal lengths adds to either side (`Words`).  That the clock runs and that success means all words
follow from it at the places where they are asked.

The last four add how the board is wired (`Wired`): the ADC's request leaves it selected
and the fifo locked, its reading unselects it, all other transactions select and unselect,
and the ring has room for all five drivers' transactions.  They first read the ring as a
sequence, `QueueOf`: the lemmas `QueueAppend` and `QueueTail` say that `spi_submit` with
its wrapping index appends to it and that the end of a transaction takes its head, for a
ring of any length.  `BInv` has two halves.  `BusOK` is about the bus: the slaves selected
are the head's or the locked one; statuses are Pending and Running exactly for what is in
the sequence; nothing is in it twice; and a reading of the ADC comes right behind its
request, which is last only while the main loop is about to submit the reading.  It needs
to know that no driver submits what is still under way, which is the other half:
`AdcPhase` and `MagPhase` say for each place of the main loop and each state of a driver
which of its transactions may be pending and whether a conversion runs.  The two halves
rest on each other, so the theorem proves them together: each handler has a lemma for what
it does to the bus, one for what it leaves alone (`Kept`), and one per driver.
`DriverImplementsFifo` then shows, handler by handler (`Did...`), that queue, active
transaction and owner change as `SpiFifo` says or not at all.

`SwarmProofs` proves of `SwarmSystem`, for every number of quads, leader, capacity of
the link, set of buttons and start, with or without losses, pilots and restarts:

| theorem | property |
|---|---|
| `SwarmInductive` | `Spec => []IInv` |
| `SwarmTypeCorrect` | `TypeOK` |
| `WaypointsOwn` | `OwnWaypoint` |

`OwnWaypoint` speaks of the waypoint alone; where a waypoint comes from decides
whether it is kept.  A target goes from the ground station's table into a message,
from the message into `quad_swarm_target` and from there, on the acknowledgement of
execution, into the waypoint.  `IInv` says of each of these four places that what it
holds for a quad other than the leader is null or that quad's own: `GcsOK` of the
table, `DownOK` of the messages to each quad (`MessagesTo`), `QuadOK` of target and
waypoint.  The leader is left out because the go threads send everybody's target to
it (finding 3).  That the table is filled with a direction at all needs `GcsOK`'s
other part, that only a go thread computes targets.  The proof has a lemma per
handler and per step of the threads, and `NextOK` splits on the disjuncts of `Next`.
Its assumptions are those the modules state of their constants.

`SwarmReferenceProofs` proves `TargetsReferenced` of `SwarmSystem`: with
`START = {"ground"}` and no restart of the ground station, `TargetReferenced`, for all
other constants (`SwarmGround` has two quads and no pilots).  Neither the go threads nor
`end_negotiate_thread` test that the leader's position is known; it is the order of
events that makes it so.  `RefInv` says what cannot have happened yet.  As long as
"init" has not been pressed and the leader not been heard of (`NavAsked`), no quad has
left `Idle`; as long as there is no reference, none has got beyond
SWARM_NEGOTIATE_REF (`States`), in flight, in a report under way, or in
`Swarm::state`; and ACK_NAV and ACK_REF are under way only where they were asked for
(`Sendable`).  These three grow with the steps of the ground station (`Grown`), since
"init" ends only when all have reported, the leader and its position among them, and an
"end negotiate" pressed before that never ends.

`SwarmRoundProofs`, for every number of quads, leader, capacity of the link and set of
directions, where the quads fly and the operator uses go, execute and land here
(`RoundsOnly`):

| theorem | property | extra assumption |
|---|---|---|
| `NobodyLeftBehind` | `NoneLeftBehind` | |
| `RoundsImplemented` | `ImplementsRound` | `Undisturbed` |
| `FollowersReachOwn` | `FollowersOwnTarget` | `Undisturbed` |
| `LandingIsFinal` | `LandingStands` | `Undisturbed` |

The first holds with pilots who leave NAV and with restarts of the ground station, as in
`SwarmBroken`.  The others assume neither (`Undisturbed`), as in `SwarmFlight`: a quad that
its pilot takes out of NAV, or a ground station that has forgotten its round, breaks the
promise of a round.  The other buttons are those from power-up to take-off
(`SwarmGround`, `SwarmRounds`).

The ground station decides by reports that are old.  Three invariants say what they are
worth.  `FlightInv` says which states, blocks and messages there are in flight and which
wait each thread can be in.  `PastInv`, for `NobodyLeftBehind`, says that nothing of a quad
that has its first target (report under way, table) is earlier than the quad, and that an
execute acknowledgement is under way only when all have theirs.  `RoundInv` speaks of the
stage the ground station is in: collecting, moving, landing, or between them.  In each
stage all quads, with their reports under way and the ground station's table of them, are
in one of few sets of states (`Spread`, `Together`); of a quad the table, the reports and
the quad itself follow one another in the order of the round (`Rank`, `Ordered`); and what
an earlier stage has left on the link to a quad comes before what replaced it and finds
the quad in a state that ignores it (`Channel`).  That is why `all_in_state`, which
is no snapshot, may be believed when it ends: those it has gone past are where it saw
them or further (`ScanRank`).  `LandsTogether` and `OwnTarget` are what the last two
theorems need.  TLC checked `RoundInv` with two quads and two messages on each link before
the proof.

The proof splits steps in those of one quad with its messages (`RoundOneQuad`), those of
the ground station within a stage (`RoundSameStage`) and those into another one
(`RoundNewStage`); in the last, what all quads are known to be in is taken from the scan
that ended.  `RoundsImplemented` shows for each of them what becomes of the phase and of
the quads as `SwarmRound` sees them (`SeenAs`, `View`): the first quad that moves begins
the execution, the end of the scan after it ends it, and nothing else changes the phase.

Model-checked only: every liveness property (`RcLossHandled`, `SilenceEndsInFailsafe`,
`RcRecovers`, `SensorsDeliver`, `NegotiationEnds`, `RoundEnds`), since fairness and ENABLED
are out of the prover's reach; and the three violations.  Every other property that a run
checks is proved.

## 5. Observations not stated by a run

Seen while translating the code, and kept in the models.

Autopilot and aircraft:

- `autopilot_init` assigns `AP_MODE_NAV` before calling
  `autopilot_set_mode(MODE_STARTUP)`, which returns early when the mode is the same.
  With the AHRS test compiled in the call becomes KILL and does its work; without it
  guidance stays in KILL while the mode is NAV.
- The switch header does not look at the mode (`autopilot_arming_switch.h:78`): motors
  last disarmed in an automatic mode can be switched on in KILL.
- The `kill_throttle` setting starts the motors in any mode.
- In FAILSAFE without ground detection `guidance_v_run` is not called, so the
  in-flight check without RC reads an old thrust.
- The airframes of the swarm define no `GROUND_DETECT` option, so `DetectGroundEvent` is
  not compiled in and block flare never ends by itself.  Where it is, a flare that is left
  before the touch-down, or a FAILSAFE, leaves the detection latched, and a later flare
  ends at once (`DetectionExplained` says that nothing else does it).
- `NavKillThrottle` and `NavResurrect` are called once, at the first run of their block,
  and do nothing if the mode is not NAV at that run; they are not called again.
- With the switch header `NavKillThrottle` in an automatic mode sets
  `unarmed_in_auto`, so the next frame with throttle down, sticks centred and the kill
  switch off starts the motors in Holding point, of which
  `rotorcraft_basic_YI_new.xml` says "make sure the throttle is killed";
  `HoldingKills` therefore excepts the pilot.
- A kill acknowledgement between BLOCK 3 and the next run of the flight plan, followed by a
  frame in NAV, lets `NavResurrect` start the motors.
- Acknowledgement 0xfe in flight runs `nav_init`: the plan starts at block 0, whose
  `NavKillThrottle` stops the motors.
- `DL_HOVER_POINT_CHANGE_ECEF` has no break after a fix of 3 and falls through into
  `DL_BLOCK` (`datalink.c:94`).

Radio: `radio_ok_cpt` is 0 at boot, so the first frame of all is trusted at once;
`autopilot_rc` is set and never cleared.

State interface:

- `stateCalcSpeedEnu_f` marks a bit in `pos_status` instead of `speed_status`
  (`state.c:916`): a rotorcraft with a reader of float speeds, such as
  `modules/multi/tcas.c`, then reads a stale float position.  With
  `PROFILES <- WithTcas` TLC shows it; `Sound` rejects that profile.
- Getters set their bit even when nothing was computed: before the first fix, or right
  after `nav_reset_alt`, they return what was in memory until the next INS output.
- Conversions that no firmware in service reaches are garbled: LLA_I to `lla_pos_f`
  converts the float to itself; ECEF_F from NED_I marks ECEF_F for ECEF_I;
  speeds between ENU_I and ENU_F are scaled as positions; an `else` is missing in
  `stateCalcSpeedEnu_i`; speeds and accelerations ECEF_F from ECEF_I read the NED
  integers; directions are scaled as speeds; wind conversions set bits in
  `rate_status` and write `.x` twice.
- `stateSetLocalOrigin_*` leaves norm and direction of the horizontal speed marked.
- The tests of validity of wind and airspeed assign with `&= ~`; nothing calls them.

SPI: with `LATE = TRUE`, where the transmit interrupt of a transaction may be served
after the receive interrupt has started the next one, TLC violates `ClockRuns`; and where
a reading of the ADC is refused, its driver does not release the bus it has locked
(`max1168.c:118`), which the length of the ring keeps from happening.

Swarm:

- `wait_all_quads(SWARM_INIT)` waits for all quads to be in SWARM_INIT at once, while
  each leaves it by itself: it may wait for ever (`SwarmGround` has these states; no
  property says that init ends).
- A BLOCK message is obeyed in any swarm state, so start engine may be obeyed before
  the reference is acknowledged.
- Land here is repeated to quads that have already landed (`SWARM_LANDED` is not
  excluded), which restarts their landing block: its thread may not end.
- A ground station restarted in flight has no reference and computes targets from
  none; `TargetReferenced` is therefore checked without restarts.
- The ground station's `kill_all_quads` is never installed as a signal handler.
- The data handler hands the GTK thread the address of a variable of its loop
  (`Ground_Station.cpp:1117`), which may hold the next message when it is read; only the
  window shows it.

## 6. Not modelled

- Numbers: control laws, filters, geometry and geodesy.  The models keep whether a value
  is right, a thrust positive or a target referenced.
- Byte layouts: message coding, XBee frames and the PPRZ parser.  Their faults lose
  messages, which `SwarmLink` allows at any time; it alters none.
- I2C, UART and the timers.  The I2C ring is the SPI ring again with other
  interrupts; its stm32 driver is written against the peripheral's documented faults,
  which would have to be modelled with it.
- The fixed-wing autopilot and its link between two processors, other firmwares, and
  the drivers and modules that no aircraft of the swarm uses.
- The OCaml ground segment, the generators and the simulator.  What the generators make
  of a flight plan is modelled where it is control.

The repository's code is for the most part of these kinds: hundreds of drivers, boards,
numeric filters and telemetry tables, each with little control of its own.  The models
follow the control of one aircraft and of its swarm from the pulses and buttons to the
motors, and cover a small share of all the lines.

## 7. Plan

What would come next, in this order: a proof that the rounds hold again once a pilot has
given the quad back to NAV; the XBee frame's sender and parser as
functions over short strings of bytes; the I2C driver of the stm32 with its error
interrupts; the fixed wing's modes across its two processors.
