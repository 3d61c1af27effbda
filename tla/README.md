# OT1M in TLA+

A verification project for the firmware of the OT1M OpenThread module: TLA+
modules that follow the C sources, TLC configurations that check them on small
instances, and TLAPS proofs of the main safety properties for every value of the
constants. Paths are relative to the root of the repository (`src/` here).

- [The system](#the-system)
- [The modules](#the-modules)
- [What the runs check](#what-the-runs-check)
- [Disagreements found](#disagreements-found)
- [What is proved](#what-is-proved)
- [Fairness](#fairness)
- [Not modelled, and the plan](#not-modelled-and-the-plan)

## The system

The repository holds several firmware images on Zephyr 2.7.1. Zephyr, OpenThread and
the LwM2M engine are external; the code here is what runs on top of them. Three
kinds of context meet in it: interrupt handlers (UART, GPIOTE), the system work queue
(cooperative: one item at a time, interrupted but not preempted by the others), and
threads (the lowest-priority console thread, the OpenThread thread, `main`).

| Component | State it keeps | Operations | Correct when |
|---|---|---|---|
| Button (`lib/button`) | `btn_state`, `updatetime`, `btn_value`, a delayed work | edge interrupt, confirmation by the work, initialisation | every press is reported once as the gesture that was made; no state without a timer |
| AT console, receiving (`at_server/src/app_at_modem.c`) | `at_buf`, `cmd_len`, `inside_quotes`, `at_buf_len`, the receive mask | one byte in the interrupt, the command in the work queue | the command executed is the line typed; one command at a time; never deaf |
| AT console, sending and power | transmit ring, semaphore, `uart_power_state`, the pin, a delayed work | put and give, transmit interrupt, console thread, pin interrupt, switch-off | no output stranded; power follows the pin; nothing left on unnoticed |
| AT command tables (`at_modem/*.c`) | `at_param_list`, `rsp_buf` | parse, find the handler | the command that runs is the one typed |
| AT OpenThread commands (`at_openthread.c`) | poll period, link mode, joiner, stored settings | SED, JOIN, PING, SNTP, SCAN, ... | the poll period returns to the configured one; a refused command changes nothing |
| AT LwM2M commands (`at_lwm2m.c`, `app_lwm2m.c`) | stored server, client, typed resources | server, object, value | the client serves the server last acknowledged; what is read back is what was written |
| CoAP client (`lib/coap`) | one socket | request inside a power bracket | socket closed and radio asleep on every path; success means an answer |
| OpenThread wrapper (`lib/openthread`) | `is_connected`, cached SED settings | join and its callback, role change, power state | the flag follows the role |
| LwM2M wrapper (`lib/lwm2m`) | `client_status`, the client | setup, start, stop, engine events | the status is that of the last deciding event |
| LwM2M sensor (`applications/lwm2m_sensor`) | five work items, a ring of addresses, `lwm2m_setup` | network, ping, registration, supervision, reading | supervision never ends and is never doubled |
| LwM2M display (`applications/lwm2m_display`) | `serverFound`, work items, sensor values, the panel | one ping, one registration, display loop | the panel shows what was measured last; one client, for the server that answered first |
| ThingsBoard sensor (`thingsboard_coap_sensor`) | last values sent, timer, work | read, compare, send | the server's values stay near the measured ones; nothing stays on between measurements |
| SHT30 (`lib/sht30d`), sensor thread (`lib/sensor`) | power of the sensor and the bus | read with CRC, convert | powered down after every read; conversions within rounding |
| Settings (`lib/settings`) | flash records | get, set | a read returns what was written |
| Paint, e-paper driver, fonts | frame buffer, panel | draw, refresh | nothing is written outside the frame or read outside a font; no torn picture is shown; a busy panel is only asked for its status |

Interactions: the UART interrupt hands a line to the work queue through `at_buf` and
`at_cmd_work`, and masks itself; the work queue answers through the transmit ring and
`tx_sem`, which wakes the console thread, which unmasks the transmit interrupt. The pin
interrupt, the thread and `turn_off_uart_work` all switch one power state. In the
sensor node, work items schedule each other; OpenThread's callbacks fill the ring of
addresses and the connection flag they read; the LwM2M engine's callback sets the status
`manageLWM2M` reads. In the display, the sensor thread writes the values that `main` and the
engine read without a lock; only a semaphore tells `main` to look. The ThingsBoard sensor's
work item sleeps inside the driver and sends reports nobody acknowledges.

What is hard: interrupts between a test and its use; expired work that waits while the
state it was armed for changes; masks that must be undone on every path; retries that
race with late success; sleeps inside the shared work queue; buffers at their limit; an
`int` that holds a 64-bit time. `PROJECT.json` lists these hazards line by line.

## The modules

**`Button`** is `lib/button/button.c`. `Toggle` is the pin, `IsrSwallow` and `IsrAccept`
are `button_state_change_handler` (which returns early, or not), `HandlerConfirm` and
`HandlerReset` the two halves of `confirm_btn_state_work_handler` around the callback,
because the interrupt may come between them; `EnableEvents` and `FinishInit` the order of
`app_button_init`. A timer that expires only submits the work (`TimerExpire`): between
`timer = 0`, `queued` and the handler other things happen. Time is in ticks; `uptime` is
cyclic with `Wrap` values and `AsInt` reinterprets it as the code's `int` does. The
environment is not restricted; the history variable `upset` keeps the worst thing that has
happened since the last restart: nothing, an edge or time that overtook a due work (`late`),
a bounce or an uptime beyond the `int` (`rough`), an edge inside the initialisation (`early`).

**`AtConsole`** is the receiving half of `app_at_modem.c`: `EraseChar`, `DropChar`,
`StoreChar` and `SubmitLine` are the outcomes of `at_data_handler` for one byte of the read
loop in `uart_interrupt_handler`, `CmdStart` and `CmdEnd` are `at_cmd_handler`. The bytes in
the FIFO, the buffer with what is left in it from earlier lines, and the static position and
quote flag are all kept. Characters are `Plain` ones, NUL, carriage return, erase and quote.
`submitted` is a ghost. **`AtSession`** is the abstract line session: type, erase, execute,
answer. `AtConsole` implements it through `Session`, where the line is the part of `at_buf`
before the position.

**`AtUart`** is the sending half and the power state: `Put` and `Give` a writer's
`ring_buf_put` and `k_sem_give`, `TxIsr` and `RxIsr` the interrupt (a received character
echoes none, one or, at a carriage return, two), `Take`, `CheckPower`,
`Resume`, `Listen`, `Unmask` the console thread with `enable_at_console` split where it can
be preempted, `PinOff` and `PinOn` the pin interrupt, `OffDecide`, `OffForget`,
`OffSuspend` the delayed `disable_at_console`. Bytes are counted. The code has two
unprotected windows, and the history variable `clash` says whether they were hit: an edge of
the pin between the reading of the pin and the enabling of its interrupt (`missed`, until the
next edge is seen), and a power switch that preempts another one (`preempted`, for good).
A build without the enable pin behaves as one whose pin stays asserted.

**`SensorNode`** is `applications/lwm2m_sensor/src/main.c` with the parts of `lib/openthread`
and `lib/lwm2m` it uses. A work item is in `delayed`, in `queue`, or `running`;
`EndScheduling` and `EndSubmitting` are what `k_work_schedule` and `k_work_submit` do at the
end of a handler (nothing, if the item already waits). All threads involved are cooperative,
so a handler is one step, or two where it sleeps (`NetWait`; `StopClient`, `RestartClient`).
The ring holds the bytes of addresses as pairs of node and index, so that a torn address is
visible. Delays end in any order. **`Supervisor`** is the abstract stage machine it
implements.

**`AtThread`** is what the console's commands do to the Thread node: `at_openthread.c`,
`at_coap.c` and `app_coap.c` with the power bracket of `app_openthread.c` and the settings of
`app_settings.c`. Commands run one after another in the work queue, so `cmd` and `stage` say
where the one in progress sleeps or blocks: `SedLink` changes the link, `SedStore` or
`SedStoreFails` the flash after it, and `SedAnswer` is the final line of `at_cmd_handler`; a restart
may come between any two of them; `Ask` and `Asked` open and close the bracket of AT+PING and
AT+SNTP; `CoapStart`, `CoapOpen`, `CoapSend`, `CoapWait`, `CoapExit` are
`app_coap_send_request` with all its failures; `JoinRefused`, `JoinStart` and `JoinEnd` are
AT+JOIN, and `JoinerDone` is the callback, which may come before, with or long after the answer.
`Reset` may happen anywhere, `Wipe` is the end of AT+FRST, and both end in `Boot`,
`app_openthread_network_start`. `stored` is flash and `cached` the copy in RAM. The value a
request returns is kept by its sign, which is what the callers test. `promised`
(the settings of the last AT+SED answered OK), `tried` (those an AT+SED has given the link since, with or
without success), `seen` and `spoiled` are ghosts.

**`AtDispatch`** is how a line finds its handler. A line is a sequence of characters: the letters
of a name (`Letters`), a tail (nothing, parameters, a question mark or a slip) and the carriage return,
which `at_data_handler` leaves in `at_buf` and which the comparison relies on. `Commands` is the
concatenation of the four tables in the order of `at_cmd_parsers`, `Matches` is
`app_at_modem_cmd_casecmp`, `Dispatch` the first entry that matches. `Meant` is the reference. **`LwValue`** is the arithmetic of
AT+LWV...: `Stored` what the write half computes from the numbers of the command at each width,
`Printed` what the read half makes of it, `Asked` the reference. Both modules hold pure
operators only. **`AtLwm2m`** uses them: every command is reached by a line that dispatches to
it. AT+LWSER is `SaveServer`, which writes flash or fails to, and `StartServer`, which starts the client and
answers (`pending` is what it knows in between, where a restart may come); `ClientStart` is
`app_lwm2m_client_start` (it zeroes the client first, also one that is in use: `st = "wiped"`); `ReadServer`,
`WriteValue` and `Other` are the rest, `Report` is `rd_client_event`, `Reset` a restart with
`app_lwm2m_init_client`. `flash` is the stored record, `res` the engine's resources of objects 0
and 1; the ghosts are `told` (the settings of the last AT+LWSER answered OK; nothing else changes it),
`strayed` (their save failed, or others were saved that had no OK), `restarted` and `wasBoot`.

**`Sht30d`** is the data of the driver: the checksum as operations on sets of bit positions,
the damage an error does to a word, the conversions in exact units of 1/65535. **`TbSensor`** is
`thingsboard_coap_sensor/src/main.c` on top of it: `Wake`, `Command`, `NoData`, `ReadAnswer` are
`app_sht30d_fetch_raw` cut at its two sleeps, `Compare` is the comparison of
`sensor_work_handler`, `Payload` what its `%.1f` makes of the values, `Open`, `Send`, `Exit` the request of `lib/coap` for a message that is
not confirmed. The network (`Deliver`, `Lose`) delivers the datagrams of `flight` in any order
or not at all. `missed` is a ghost. Values are exact; the
rounding of a `float`, at the sixth decimal, is not modelled.

**`Paint`** holds the operators of `epdpaint.c`: `Frame` the rounding of `Paint_Init`,
`DrawPixel` the rotation and the byte touched, `FirstRead` and `LastRead` the bytes of a font a
character reads, the `Draw...` operators the box a drawing may darken and the characters it
reads. **`DisplayNode`** is the display: the sensor thread (`Fetch`, `WriteWord`, `Give`), which
`main` stops between any two words; `main` from the panel's initialisation (`InitStep`, one
command of `InitCommands` each) over the wait for the network to its round `Take`, `Draw`,
`Transfer` (the drawing goes into the panel's memory, `ram`), `Refresh` (what is there goes to the
`glass`), `Settle`, `Awake`; `TransferFails`, which leaves the old picture or a torn one in the memory, and
`RefreshFails`; the panel's busy line; the ping and start work items (`SendPing`,
`Reply`, `StartLWM2M`, `Setup`); the engine's events. Reads, the server's and the
drawing's, are answered from `sensors` by callbacks and change nothing, and so does the status query
`w4in2_busy_wait` sends while it waits. Two things are assumed of the hardware: the SoC's port can be
read, and the panel is busy by the time the driver looks. `Drawing` is
`app_display_update` as a sequence of boxes. There is no restart: the node stores nothing of
its own.

Operators whose comment begins with *Mutant* are variants of an action with one plausible
mistake; no specification uses them. `PROJECT.json` says which property each must violate, as
evidence that the property depends on the code.

## What the runs check

| Run | Environment and bounds | Shows |
|---|---|---|
| `button` | anything the pin, the queue and the clock can do; waits 2, 3, 4, 5, clock of 36, fair | `NoStuckGesture`, `StateMatchesLevel`, `PressIsReported`, `GestureEnds` under every interleaving but an edge inside the initialisation; `GesturesMean` (a long press means held, a click released that long) while undisturbed |
| `console` | any host; buffer of 4, FIFO of 2 | `Terminated`; `HandOver`: one command at a time, and reception masked exactly while one is |
| `console_session` | host that waits; buffer of 4, two plain characters | `PendingIntact`, `ImplementsSession` (with its fairness) |
| `uart` | enable pin, full preemption, ring of 2, fair | `PowerManaged`: a console that is on listens and one nobody asks for is going to be switched off, always; believed and real power agree and the pin is followed, unless a switch was preempted or an edge missed. `NoLostWakeup`, `SpeaksAndSleeps`: output is never stranded, a released console goes to sleep, under the same conditions |
| `at_thread` | two periods, one below OpenThread's minimum; any result of every call, a joiner of any duration, a restart anywhere, fair | `AtRest`, `SettingsKept`, `StaysOnline`, `VerdictTells`; `CommandEnds` |
| `at_lwm2m` | 8-bit words for 32-bit ones, 2 addresses, 2 keys, numbers 0, 1, 127, 128, 255; every name with every tail | `ServerAsTold` through accepted and refused commands, failing saves and restarts, also between a save and its answer; `RightCommand` for every line; `ValuesReadBack` for all eleven types at their limits |
| `tb_sensor` | six pairs of samples around the thresholds and the roundings, errors of up to two bits in a word, two datagrams under way | `QuietAtRest`, `OnlyMeasured`, `ServerNear` |
| `display` | two readings, two servers, two replies; every interleaving of sensor thread, main, panel, work queue and engine, fair | `ShownIsCurrent`, `GlassWhole`, `OneServer`, `DrawnInside`; `KeepsUp` |
| `sensor` | 2 servers, addresses of 2 bytes, ring of 4, 3 replies, 2 looks before a join, fair | `OneSupervisor` (one stage at a time, and never none but after the one early return), `ClientAsFound` (the client follows its setup, for the whole address of one server), `ImplementsSupervisor`; `KeepsGoing` (readings, watching and restarting never end) |

Why the bounds are enough. Button: the code compares times only with its four waits, whose
order the small ones keep; half the clock is long enough for each gesture to be made and
reported before the `int` overflows, and the clock wraps without end. Console: a
buffer of four characters has a first, an inner, a last and an overflowing position; the
proofs below cover every length. Uart: a ring of two is empty, partly full or full. Sensor:
a ring of two addresses is the code's (32 bytes, 16 each), and two looks stand for the ten.
`AtThread`: the code compares periods with nothing, so one that is refused and one that is
not stand for all: with the configured default they make the three that tell the stored period, the cached
one and the link's apart; the proofs
cover any set. `SensorNode` needs the ring's capacity to be a whole number of addresses: with a
capacity of 3 for addresses of 2, `WholeAddress` fails, so a ring implementation that keeps one
of its 32 bytes free would tear addresses. `SensorNodeAssumption` states it; the ring of Zephyr
uses all of its bytes.

`at_lwm2m` uses `Unit = 2`, so that the widths are 2, 4, 8 and 16 bits: the operators only
multiply `Unit`, and the numbers chosen are zero, one, the two sides of the sign bit of a word
and all ones (`LwValuesReadBack` proves the same for every unit, the code's 65536 included, and
all numbers). `MCNext` checks the commands for the server and those for values side by side instead
of in every combination (they share only `answer`), follows a report of the engine only with
further reports and restarts (no command reads `client_event` but to print it), and does not
choose a key when none is used. Addresses and keys are symmetric. `tb_sensor` takes samples on
both sides of a tenth of a degree and of a percent and of a rounding, among them 25.048, printed 25.0, and
25.144, less than a tenth away from it, and a pair within a tenth of the zeros the node starts with; `MaxFlips = 2` includes every single and double error of the 24 bits
(`TbOnlyMeasured` proves three; four are too many, because the generator polynomial itself has
four ones), and `MaxFlight = 2` one reordering. `display` has a second reading all of whose words differ from the
first's, so that a torn copy is visible; `MCNext` lets the network change only until the first
drawing and the start of the client (nothing reads it later), takes the servers in one order,
and lets the client register when the answers have come. `BatValues` holds both sides of each
of the code's thresholds, `OutdoorValues` the ends of the 32-bit range.

Deadlock is checked in every run: no component can stop.

## Disagreements found

Three runs are expected to end in a violation; each contrasts what a comment says with what
the code does (`findings` in `PROJECT.json` quotes them).

- `button_race`: a release that meets the expired work in the queue is confirmed at once.
- `console_eager`: bytes after a carriage return in one interrupt overwrite the waiting line.
- `sensor_give_up`: the node that cannot join never enters the announced low power mode.

Other properties carry a condition because the code breaks them without it, while nothing in
the repository claims more:

- Button, `rough`: a tap shorter than the debounce time loses its release and is reported as
  a long press; after 24.8 days the `int` time swallows edges, with the same effect.
- Button, `early`: an edge between enabling the events and initialising the work arms a work
  that is then wiped; the gesture has no timer until the next edge.
- Uart, `preempted`: the pin interrupt can come between the assignment of `uart_power_state`
  and the switch of the device, which then disagree for good. `missed`: a console may stay in
  the wrong power state until the pin changes again.
- Uart: `enable_at_console` unmasks reception also while a command runs, so that
  `HandOver` of `AtConsole` holds only where the console is not powered up by its own answer.
- Sensor, `Abandoned`: `startLWM2M` returns without scheduling anything when the engine does
  not find its URL resource; it has stopped the client by then.
- AtThread, `AtRest`: AT+SED stores a period that `otLinkSetPollPeriod` refused, without
  looking at its result. After a restart with such a period every return to it is refused too,
  and the radio stays at the active period from the first request on.
- AtThread, `SettingsKept`: AT+SED does not update the copy in RAM, so that the next ping or
  request puts back the period of the last start; the property asks for the period only while
  the two agree. AT+SED changes the link, then flash, then answers: after a failed write the link has
  what flash does not, after a restart before the answer both have what the host had no OK for, and
  OpenThread's own copy of the mode decides unless the settings say that the node sleeps. The property
  says that nothing else can get there: the settings are always the acknowledged ones or some in
  `tried`, until the next OK or a start with settings that make the node sleep.
- AtThread, `StaysOnline`: AT+JOIN takes Thread down before it looks at its parameters, so that
  a mistyped command costs the network (`spoiled`). AT+FRST erases what OpenThread stored and
  leaves the settings of the application.
- AtThread, `VerdictTells`: AT+COAPGET and AT+COAPPOST return what `poll` returned, 1 for an
  answer, which `at_cmd_handler` reports as ERROR, while silence is 0 and reported as OK. Only
  AT+COAPTB turns a positive value into OK. OK after AT+JOIN says that the joiner is idle, also
  when it failed. A join that failed leaves Thread disabled.
- AtLwm2m, `ServerAsTold`: AT+LWSER saves before it tries and ignores a failing save, so that after a
  restart the node may run for settings the host was refused, or not for those it had an OK for
  (`strayed`). `app_lwm2m_client_start` zeroes the client before it checks anything, so that a refused
  AT+LWSER wipes the client the engine is running (`wiped`); and what marks a bootstrap server is never
  withdrawn before the restart (`wasBoot`).
- AtLwm2m, `ValuesReadBack`: the sign of a float is kept in its integer part; between -1 and 0 it
  is lost, and an integer part of 0 is read back as negative. `abs` cuts a 64-bit integer part
  to an `int`. `Holds` excludes these.
- TbSensor, `QuietAtRest`: every error return of `app_sht30d_fetch_raw` leaves the sensor and
  its bus powered until the next measurement.
- TbSensor, `ServerNear`: the values are recorded before they are sent, so that those of a lost
  report are not sent again (`missed`); the next ones are compared with them as measured, not as printed
  with one decimal, so that the server may be up to 0.15 off and not a tenth.
- DisplayNode, `fault`: when the panel's initialisation failed, the device pointer is null and
  the first round calls through it (`app_display.c:109`).
- DisplayNode, `OneServer`: the display orders one ping and starts once; when no server answers,
  no connection is there or the setup is refused, it never registers (`gaveUp`).

Noted while reading, and in no property: `APP_AT_DEV_ALWAYS_ON` (a Kconfig option) is read
nowhere; -0.5 degrees are shown as -1 and .5, because the sensor API rounds down and the
fraction is drawn as it is; the comment at `sht30d.c:149` has a zero less than the
scale it explains, in a function nobody calls; drawing in a rotated frame loses the
first row or column (`RotationLosesEdge`), and no application rotates.

## What is proved

Eight modules are checked by TLAPS, each for all values of the constants that satisfy the named
assumption of the module it is about. Three assumptions are about no constant: `PowersOfTwo` and
`PowersOfTen`, truths of arithmetic that the provers' library does not have, and `Spelling`, what
characters the command names consist of, because a string has no parts for the provers. TLC
evaluates all three.

- The type invariants: `ButtonTypeOK`, `AtConsoleTypeOK`, `AtUartTypeOK`, `AtThreadTypeOK`,
  `DisplayTypeOK`, `SensorTypeOK`, `LwTypeOK`, `TbTypeOK`.
- `ButtonNoStuckGesture`, `ButtonStateMatchesLevel`: `SafeInv` adds that before the initialisation
  has finished nothing has moved, unless it was hit: without that a wiped work would strand a
  gesture.
- `ButtonTiming`: `GesturesMean`. The argument is `TimingInv`: until the first disturbance every
  edge is accepted in the tick it happens, so a running timer and the age of the level always
  add up to at least the wait it was armed with.
- `ButtonGestureKept`: what `PressIsReported` and `GestureEnds` rest on apart from fairness. A gesture
  is kept until its report or a restart (`PressKept`), and never goes back, nor is its timer re-armed
  without its going on (`GoesForward`), so that bouncing puts its end off three times at most.
- `AtConsoleTerminated`, `AtConsoleHandOver`, for any host. The receive mask is off exactly while
  a line waits or is executed; the position stays below the last byte.
- `AtConsoleImplementsSession`: for a host that waits, `PendingIntact`, and each step of the
  console is a step of `AtSession` or none (`SessionSafety`). The invariant says what a polite
  host guarantees: nothing in the FIFO while a command is in progress. One lemma per action
  maps the buffer before and after to the line.
- `AtUartNoLostWakeup`, `AtUartPowerManaged`, for every ring, with and without the enable pin.
  `UartInv` adds what holds in the middle of a switch: in which order its two variables change
  (`SwitchInv`), that a switch-off begins with an empty ring and what is written since calls the
  thread (`OffInv`), that the thread about to unmask finds the UART on or is called again
  (`UnmaskInv`), and that an edge missed at the start has scheduled nothing (`MissedInv`).
- `AtThreadAtRest`, `AtThreadSettingsKept`, `AtThreadStaysOnline`, for any set of periods and of
  refused ones. None of them is inductive. `ThreadInv` adds which stage belongs to which command
  (`StageInv`), that a sleepy radio polls fast only inside a bracket (`QuietInv`), that AT+SED's draft
  counts as tried and the link follows it until the answer, although flash may not (`DraftInv`), that
  between write and answer flash holds the draft, and that a full Thread device never stores that it
  sleeps (`FlashInv`), without which a restart would refuse the mode; and that the period of a sleepy start
  survives a phase in which the node always listens (`PeriodInv`). `SedSteps` reduces the four steps of
  AT+SED to what these parts need of them.
- `AtThreadVerdictTells`: from `SeenInv`, which says what must have been seen at each stage.
- `AtThreadShrinks`: what `CommandEnds` rests on apart from fairness. A command in progress is at one of
  the stages that have an action with a fairness condition (`Waits`), and every step of the node,
  the joiner's report included, ends it or lowers `StepsLeft`: no failure path starts over.
- `DisplayGlassWhole`, `DisplayOneServer`, for any readings, servers and number of replies: `main` comes
  to the refresh only by a whole transfer of its drawing, and to that only when the panel was configured
  to the end; the panel is busy only at the two places that wait for it; a start is possible only while
  none has happened.
- `DisplayShownIsCurrent`. The thread may be stopped between any two words, so that what `main`
  draws can be half old. `CurrentInv` says that as long as the semaphore was not given again and
  nothing is being written, frame and panel in turn agree with the sensors.
- `DisplayDrawnInside`, for every reading, outdoor value and battery level: `Drawing` is taken item
  by item, and what `sprintf` makes of an `int` has at most eleven characters (`PowersOfTen`).
  Two lemmas of `Paint` carry it: `CircleStaysInSquare` and `CircleEnds`, for every radius, with the
  invariant of the loop of `Paint_DrawCircle`, err = (x + 1)^2 + (y + 1)^2 - r^2, by a smallest
  counterexample. The attempt corrected `Inside`: a negative humidity of three digits runs
  into its unit, and is no *ordinary* value.
- `SensorClientAsFound`, `SensorOneSupervisor` and `SensorImplementsSupervisor`, for any servers,
  number of replies, length of an address and ring of whole addresses. `NodeInv` says that each work
  item is in one place only, that of those which hand the node on exactly one is busy unless the
  node was abandoned, and that the ring is a row of whole addresses (`RingInv`), so that the read
  of one by `setup_lwm2m` never straddles two. Under it each step is a step of `Supervisor` or none.
- `LwServerAsTold`, for any addresses and keys. `LwInv` relates flash, the command between its save and
  its answer, the client and the last OK: flash is what the last OK said, unless a save went astray or is
  pending (`FlashInv`), and a client that runs does so for one of the two (`RunsInv`).
  `LwValuesReadBack`, for every `Unit` and all numbers a type can hold (`CellInv`: the cell holds what was
  stored of the words given); the cases are the widths, the signs and the two halves of a 64-bit number.
- `LwRightCommand`, for every name of the tables and every tail, followed by the carriage return. By
  `Spelling` no name contains a character that may follow one, so an entry that matches a line is the
  name it begins with (`OnlyItself`): a longer name would need one of those characters, a shorter one
  leaves two or more over. The typed name matches its own line unless there was a slip (`FindsItself`),
  and no two entries are spelled alike.
- `TbQuietAtRest`, for any air and any errors.
- `TbOnlyMeasured`, for any air and errors of up to three of the 24 bits of a word and its checksum.
  One round of `sht3xd_compute_crc` is linear (`StepLinear`), so the difference an error makes does
  not depend on the word. The 24 single bits leave the residues of `Chain`: all different, and each
  with an odd number of ones, so that one, two or three of them never cancel (`ChecksumDetects`).
  An undamaged word is read back as the sample (`SampleReadBack`). Larger damages, beyond what the run
  can enumerate: any odd number of bits is detected (`OddDamageIsSeen`, by counting residues), and
  so is anything within eight consecutive bits, as a disturbance of the bus leaves it
  (`BurstIsSeen`: moving a damage one place on applies one more round to its residue, and a round
  maps nothing but 0 to 0). Four bits far apart may cancel.
- `TbServerNear`, `TbTypeOK`, under the same condition. `NearInv` says that a request carries the
  recorded values as printed, that the recorded ones are near the last sample whenever the work rests, and
  that the server has them as printed unless `missed`; printing adds at most half a tenth
  (`TenthsNear`, `NearThenClose`). `NearIfMeasured` and `TypeIfMeasured` state both for errors of any
  size in behaviours that satisfy `OnlyMeasured`.
- `PixelStaysInside`, `PixelsApart`, `RotationLosesEdge`, for frames of every size: no byte outside
  the buffer is written, no two pixels share a bit, and what a rotation loses is exactly the
  first row or column. `GlyphsInTable`: every character is read inside its table.

Only model-checked: all liveness and the refinements' fairness, because temporal fairness and
`ENABLED` are out of the prover's reach. Every invariant and every action property of the passing
runs is proved. `FullScale` and `Tenth` are definitions, not numbers in place, because the provers count
large literals one by one.

## Fairness

- Button: weak fairness of the interrupt, the initialisation, the timeout and the two halves
  of the handler (interrupts and a work queue that never blocks for ever), strong fairness
  of `Tick`: time passes although edges keep interrupting it.
- AtConsole: weak fairness of the interrupt's steps and of the command.
- AtUart: weak fairness of a writer's `Give`, the transmit interrupt, the command, and the
  delay; strong fairness of the thread, the pin interrupt and the switch-off, which are
  disabled while another context runs and get to run again and again. No fairness on the host
  or the pin.
- AtThread: weak fairness of every step of a command that has begun, because each sleep and each
  blocking call in it has a time limit (3 s, 10 s, 60 looks of 1 s). None on the joiner, the
  callers or restarts: commands end although the joiner never reports.
- SensorNode: weak fairness of the delays, the work queue and the end of a join (OpenThread
  always calls back); strong fairness of a ping reply, without which an unanswered ping
  settles everything. No fairness on attaching or on the engine.
- DisplayNode: weak fairness of `main`, which waits with time limits only, and of the panel's
  busy line; strong fairness of the sensor thread, which gets the processor again and again
  because `main` blocks for seconds in each round, and of a measurement, a transfer and a refresh that
  work: a bus that fails sometimes works again. None on the network, the servers or the engine.
- AtLwm2m and TbSensor have safety properties only and no fairness.

## Not modelled, and the plan

Next in the plan:

| Module | Shows | Proof |
|---|---|---|
| `AtThread`, further | tokens and ports: a late answer to an earlier request (`app_coap.c:156`); failing reads of settings | extends `ThreadInv` |
| `AtUart` with `AtConsole` | reception enabled by `enable_at_console` during a command (`app_at_modem.c:113`); a torn `ring_buf_put` of two producers (`:125`) | |

Not modelled, and why:

- The shapes of fonts and icons. The tables are about 12,000 of the 18,000 lines of the
  repository: data in which nothing happens. `Paint` has their cells and lengths; `icons.c` is in no
  build.
- The parts of `epdpaint.c` nobody calls (oblique lines, rectangles, filled shapes), the
  `blanking_on` of the panel, `app_sht30d_fetch_sensor`; the panel's memory is
  one frame, the drawing; the white one sent before it is a part of the transfer.
- AT commands that only read and answer (EUI, SCAN, STATE, IPADDR, LWSTATE, LWEVENT, GMR); AT+LWOBJ
  and AT+LWVSTR, whose effect is a copy inside the engine.
- The CO2 sensor's Modbus read, led drivers, start-up code and test programs: nothing in them
  runs concurrently or is used by a property.
- A settings read that fails although something is stored; an initialisation of the I2C bus or of
  the GPIOTE that fails.
- Whether a sensor node has a dataset (`main.c:71`: a commissioned node whose router takes more
  than ten seconds is taken out of its network); the same sequence is modelled for AT+JOIN.
- Formatting and logging, and everything inside Zephyr, OpenThread and the LwM2M engine except what
  the code above observes of it.
