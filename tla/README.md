# A TLA+ model of the alarm clock

The program is a network-connected alarm clock for an STM32 board under Zephyr
(`src/exsamene/src/*.c`) with a small Flask proxy on a PC
(`src/python_proxi/proxi.py`).  This directory models its threads and what they
share, model-checks the models on small instances with TLC, and proves the
central properties for all values of the constants with TLAPS.

## 1. The system

Six kinds of threads run on one core (`CONFIG_MP_MAX_NUM_CPUS=1`) with fixed
priorities (a smaller number is more urgent); threads of equal priority share
the processor in time slices of 20 ms (`CONFIG_TIMESLICING=y`).

| component | source | state | operations |
|---|---|---|---|
| wifi thread (1) and event handler | `wifi_connect.c` | `wifi_ready_sem` (limit 1), `ip_handled` | connect, wait 30 s for an address, give two tokens; the handler gives one on the first address |
| /info thread (2) | `network_config.c` | `g_info`, `info_mutex`, `http_mutex`, `shared_http_buf` | wait 60 s for a token, then every 30 s: lock, request, parse, unlock |
| /news thread (2) | `networking_config_news.c` | `g_news`, `news_mutex`, `news_buf` | the same, but gives `http_mutex` back before it receives; repeats every 15 s until it has the news, then sleeps for ever |
| screen thread (2) | `screen.c`, `rgb_lcd.c` | a copy of `g_info`, the panel | seven views in turn, two seconds each |
| sensor thread (2) | `tem_hum.c`, `main.c` | two doubles | read the sensor every two seconds |
| alarm thread (3) | `alarm.c` | clock, alarm flags and counters, last button levels | one pass per second: clock, buttons, alarm time, snooze, automatic mute |
| speaker thread (4) | `alarm.c` | none | beeps while `alarm_active`, a burst of 200 pulses at a time |
| proxy | `proxi.py` | none | `/info` and `/news`, one request at a time, each with up to three requests to other servers |

They interact through the semaphore (wifi, /info, /news), three mutexes
(/info, /news, screen), unprotected variables (alarm to screen and speaker;
sensor to screen) and TCP connections (network threads to proxy).  The buttons,
the access point, the other servers and the I2C bus are the environment.

What is hard: three threads that wait on one semaphore with a limit of 1; calls
that fail, return late or never; five error paths per request that must each
give back what they hold; responses that stop at any byte, or are longer than
their buffer; buttons that change between and within polls; periods counted by
hand in six functions; variables read by a thread that preempts their writer
between two stores; messages to the panel that get lost; a server that may work
for clients that have given up.  `PROJECT.json` lists these hazards with their
lines and the properties that watch them.

What makes each component correct:

* **alarm**: one mode at a time; rings at the alarm time exactly when armed;
  each press acts once; every ringing and snooze lasts its period; never rings
  for ever; rings again day after day; a reader that preempts it sees no mode
  that neither was nor comes.
* **speaker**: follows the alarm within a burst.
* **wifi gate**: both network threads run once there is an address; no token
  lost; no wait without an end.
* **/info, /news**: nothing held while asleep; snapshots are whole; neither
  keeps the other from its turn beyond what the design accepts; a cut response
  leaves the prefix of the new over the old; success means that all of it came.
  What comes should stay in its buffer, which it does not (`NewsBuffer`).
* **screen**: the display keeps going; what the alarm does is shown before it
  ends; the date is right; a lost message to the panel harms one view only.
* **proxy**: a backlog goes away once the other servers are prompt again, and
  does not come back while they are.

## 2. Modules

| module | models | state and actions in terms of the code |
|---|---|---|
| `AlarmPromise` | the abstract specification of the alarm | second of the day, a mode, how long it has lasted, whether a decision to ring is due |
| `Alarm` | the alarm thread | `pc` is the function the pass calls next, `clock`, `alarm` and `last` are the static variables of `alarm.c`; one action per function, with the functions of `alarm.h` as operators on the flags; `PinChange` is the user |
| `AlarmHistory` | `Alarm` with histories | presses not yet acted upon, seconds since the present mode began |
| `AlarmSeen` | `AlarmHistory` with the memory other threads read | `mem` is what has been stored, `goals` what the operations under way will have stored; `Store` is one store, in any order within an operation |
| `WifiGate` | `wifi_connect`, `event_handler`, the first waits of the network threads | explicit seconds; `sem` is the semaphore; time stands still while a thread can run |
| `Fetch` | the two network threads and the screen's snapshots | `pc` per thread names the blocking call that is next; mutexes with owner and queue; a socket call succeeds, fails or hangs; `g_info` changes one field per step |
| `HttpReceive` | the receive loop, `parse_info`, `parse_news_titles`, the result of a request | `total` and `content_length` are the variables of `http_request`; a chunk or a break per step, then a field or a title per step |
| `EpochDate` | `epoch_to_datetime` | the two loops, one iteration per step |
| `Lcd` | `lcd_show`, `lcd_write_string`, `boot`, the driver | one message to the panel per step, each may be lost, and the board may be reset; the panel's memory and cursor are external state |
| `Display` | screen, sensor, alarm and speaker thread together | `asleep` is what each thread still sleeps, `view` the view that is next; a pass of the alarm thread is one step built from the operators of `Alarm`; a word of memory per load and store of the sample; a pulse of the speaker per step |
| `Proxy` | `proxi.py` as a server and its two clients | `queue` holds the connections, `work` the seconds the first of them still takes, `at` and `left` what each client does and for how long |
| `MCEpochDate`, `MCHttpReceive`, `MCLcd`, `MCProxy` | constants of the runs | |
| `AlarmProofs`, `WifiGateProofs`, `FetchProofs`, `HttpReceiveProofs`, `EpochDateProofs`, `LcdProofs`, `DisplayProofs`, `ProxyProofs` | the proofs | each extends the module it is about, `AlarmProofs` that of the run, `AlarmSeen` |

`AlarmSeen` and `Display` are compositions: the first puts the alarm thread
together with a reader that preempts it at any moment, the second instantiates
`Alarm` and puts it beside the three other threads that share its variables or
the display.  `Fetch` composes three threads.  `HttpReceive` opens up the one
step `Recv` of `Fetch`, and `Proxy` the environment that answers it.

Definitions whose comment begins with *Mutant* are not part of any
specification: each is the form a definition takes with a plausible mistake in
it, and putting it in the place of that definition makes the named property
fail.  `PROJECT.json` pairs them; they show that every property depends on the
code it is about.

Abstractions worth knowing:

* `Alarm` takes each function of the pass as one step.  The alarm thread is the
  only writer of its variables, so its own behaviour is unaffected; `AlarmSeen`
  has what a preempting reader sees in the middle of a function.  There the
  stores of one operation come in any order, as they are to plain static
  variables, but before the operation's `printk`.
* In `Fetch` a field of `g_info` is a model value.  A response is described by
  how far it got: `nothing`, `headers` (ended within the headers, so that no
  Content-Length is known), `part`, `all`.  An error answer of the proxy is a
  complete response without keys.
* In `HttpReceive` a response is a number of bytes: the headers, then items of
  three (key, two halves of the value).  The buffer is cleared before the loop,
  so a NUL follows what came, unless that fills the buffer (`Unterminated`).  Then
  `parse_news_titles` reads on into the memory behind it: the bytes written there
  may still be found or not (`Body`), a value that is cut there may end in
  anything (`Readings`), and any number of further texts may be found, among them
  titles that an earlier chunk left (`ParseStray`).  What such a write destroys is
  left out.
* `Lcd` leaves out the pauses between messages, and `rgb_init`, which sends
  nothing to a light at this board's address.  If boot does not find the bus, the
  device is NULL and the first view faults; only a reset leads on (`Fault`).
* In `Display` any buttons may be newly pressed at each poll, which includes all
  that a user can do.  The alarm thread's own delays within a second are left
  out.  The speaker looks at `alarm_active` at least once a second: its loop
  takes 150 ms, and the threads above it mostly sleep.
* The kernel's semaphore and mutexes are modelled from their use: a give wakes
  the most urgent waiter and hands the token over, an unlock hands the mutex
  over.

## 3. Runs

| run | instance | result |
|---|---|---|
| `Alarm` (of `AlarmSeen`) | a day of 4 x 2 x 3 seconds, ringing 3 s, snooze 4 s | flags agree; no phantom press; periods exact; a preempting reader sees a mode that was or comes, and a time at most a carry away; implements `AlarmPromise`; ringing stops; rings again |
| `WifiGate` | second by second; start delays of 0 s, as in `main.c`, or 7 or 9 s | with the real delays both network threads get a token; with all of them the last token is never lost, none runs without an address, and every wait ends |
| `WifiGateLate` | real delays, address while or after the wifi thread waits | **violated**: a network thread gives up although there is an address |
| `Fetch` | two fields, one value and the empty string | sleeping threads hold nothing; snapshots are whole; the display goes on, /info and /news get their turns |
| `NewsPartial` | one field, one value | **violated**: sleeps for ever with a partial list |
| `HttpReceive` | headers of 3 bytes, buffer of 27, chunks of up to 5, lists of up to 10 items, 3 of them kept | a field early in a response is never older than a later one; a whole response is shown whole; titles in order; success means all; no needless wait; every request ends |
| `NewsBuffer` | as `HttpReceive` | **violated**: the last chunk of a long response is written past the buffer |
| `Titles` | as `HttpReceive` | **violated**: the proxy's list of titles is not found |
| `EpochDate` | both ends of the days around the end of January and of February and the turn of the year, 1970-2038, with negative values and 2^31 - 1 | date, time and weekday are right |
| `Lcd` | two columns of three stored, a short and a cut text | errors last one view; what of the setup survives which losses |
| `Display` | a day of 12 s, ringing 10 s, snooze 11 s, seven views of 1 s, one more second per round | a new status is shown within a round; every ringing and snooze that runs its course was shown; a sample is torn by one age at most; the speaker follows |
| `Proxy` | the real seconds, up to 4 connections | one open connection per polling client; once the other servers are prompt the backlog shrinks every second, and without one all are answered for good |

Why the bounds are enough.

* The alarm's day has all three carries, is longer than a snooze, and shorter
  than a few snoozes in a row, so the alarm time comes in every mode.  With four hours a clock may be farther off
  than `ClockSeen` allows, the carry of an hour included: 12 seconds, where it
  allows 9.  A press
  is a boolean: one before and one during a pass act alike.  Presses at other
  moments of the pass than its poll are taken to happen while the thread sleeps,
  which no poll can tell from it.
* `WifiGate` needs no scaling: it runs with the real seconds up to `Horizon`,
  which lies beyond the last wait; `ConnectCall` bounds how long the connect
  request may take.  The start delays are chosen at the start and kept
  (`StartDelays`): 7 and 9 seconds lie beyond the five of `Settle`, on either side
  of the connect request's end, so that the two waits may begin after the address
  or after the whole handoff.  `HandoffReachesBoth` is about delays that do not
  (`HandoffTiming`), `main.c`'s among them.
* In `Fetch` two fields make a half-copied record visible; the empty string and
  one value tell an old field from a new one.
* In `HttpReceive` a whole `/info` response fits the buffer, as it does on the
  board, while `/news` has answers of up to 18 bytes, one of 27, which fills the
  buffer and leaves no room for a NUL, one of 30, which may end with the chunk
  that overruns the buffer, and one of 33, which no chunk can take up.  The
  chunks do not divide the sizes, so that every offset of a chunk against an
  item occurs.  Ages are *last response* and *older*: the order of two fields is
  lost at once if it is ever lost.
* The panel of `Lcd` is small, but lines shorter and longer than it occur, and
  the cursor can run over the end of a stored line.
* In `Display` a round of views (7 s and one of overhead) is shorter than
  ringing less one; on the board the numbers are 7 x 2 + 2 = 16 and 19.  With
  periods shorter than a round `PeriodsAreShown` fails, which is why the value
  of `ALARM_AUTO_MUTE_SECONDS` matters.
* `Proxy` has the real seconds: poll 8, pauses 30 and 15, other servers up to 25
  and 10.  As long as those are slow, connections arrive faster than they are
  served and the backlog grows to whatever bound there is; `MaxQueue` of 4 is
  reached.  A client does not connect then, as with the listen queue full.

`WifiGate`, `WifiGateLate`, `EpochDate`, `HttpReceive`,
`NewsBuffer` and `Titles` do not check for deadlock: time ends at the horizon, the function
returns, the news thread sleeps for ever.  In all other runs deadlock is
checked.

### What the violated properties show

* `ResponseStaysInBuffer` (`networking_config_news.c:174`): the loop goes on while
  there is room for one byte and then copies up to 255, so that the last chunk of a
  longer response ends behind `news_buf`, which is said to have comfortable
  headroom (`networking_config_news.c:26`).  The loop of `/info` is the same
  (`network_config.c:131`, `146`), but its answers are well below 3072 bytes.
* `NobodyGivesUpWithAddress` (`wifi_connect.c:98`): after the wifi thread's
  timeout nobody gives the second token.
* `NewsSleepsWithAll` (`networking_config_news.c:215`): a request that ends in
  its headers counts as success, and titles of an earlier, cut response are
  still there.
* `NewsOfProxyAreFound` (`networking_config_news.c:236`): the proxy answers
  `/news` with a list of strings under `"titles"` (`proxi.py:189`), the parser
  looks for `"title":` (`networking_config_news.c:49`).  No title is ever found
  and the news thread never ends its retries.

Noted while reading: `alarm.h` wants its functions called when a button is
pressed, but the code polls once a second, so that a press shorter than a second
may go unnoticed (`alarm.c:200`); ringing and snooze last one second less than
their constants say, because the pass that begins them counts them too
(`PeriodsAreKept` states the exact length); `ALARM_AUTO_MUTE_SECONDS` is still
at its test value of 20 (`alarm.c:13`), where the assignment asks for ten
minutes; `screen_show_news` is not called (`screen.c:331`); if boot does not
find the bus, the views are still written, to a device that is NULL, and the
processor faults at the first (`screen.c:50`, `Fault` of `Lcd`).

## 4. Fairness

* `AlarmSeen`: weak fairness of the alarm thread, its stores included.  All
  threads above it sleep or block in every round of their loops, and the speaker
  thread, which does busy waiting, is below it.  The buttons have none.
* `WifiGate`: weak fairness of time, of the wifi thread and of each network
  thread.  None of the address, which may never come.
* `Fetch`: weak fairness of each thread, because threads of equal priority
  share the processor and sleeps and timed waits end.  A hung call takes no
  further step, and no fairness makes a call hang or succeed.  Properties that
  need calls to return say so as a premise (`InfoGetsItsTurn`,
  `NewsGetsItsTurn`).
* `HttpReceive`: weak fairness of the thread: `zsock_poll` has a limit of 8
  seconds, and `zsock_recv` is called only when it will not block.  Nothing makes
  bytes come rather than the connection break.
* `Proxy`: weak fairness of everything but the recovery of the other servers.
  Each of its requests to them has a time limit.
* `Display` has none: its properties bound seconds, and time passes only when
  the threads have done what is due.

`ScreenKeepsGoing` would hold even without the time limit of
`get_info_snapshot`, because no call that can hang is made with `info_mutex`
held; the limit protects against later changes.

## 5. Proofs

All are about the specification for every value of the constants that the named
assumptions of the module allow.

* `AlarmProofs!Typing`, `FlagsAlwaysAgree`.  `FlagsAgree` together with the type
  invariant is inductive: each of the functions maps a record that agrees to
  one that agrees (`OperationsAgree`), whatever order they are called in.
* `AlarmProofs!KeepsPromise`: `Spec => Promise!Spec`.  The clock is mapped to
  the second of the day, the flags to a mode, the counters to the time spent in
  it.  Needed are that digits of a time determine it (`SecondOfDayUnique`), that
  the three carries add one second (`LaterCounts`), and that two or three
  buttons in one poll amount to one step of the promise (`ButtonsStatus`).
* `AlarmProofs!PreemptedThread`: each step of `AlarmSeen` is a step of
  `Alarm` or none (`ThreadSteps`), so the three results hold of it too.
* `AlarmProofs!EveryPressActsOnce`: `NoPhantomPress` is inductive with types.
* `AlarmProofs!NoStrangeStatus`: each flag in memory is that of the last
  operation stored or that of the one being stored (`Mixed`), the flags of each
  agree (`OneMode`), and then no mixture gives a strange status
  (`MixedStatus`).  The order of the stores does not matter.
* `AlarmProofs!PeriodsLast`: the counter of the present mode is the number
  of seconds since it began, and one more between the pass that counts and the
  end of the sleep (`PeriodInv`).
* `AlarmProofs!TimeIsNearlyRight`: while `update_clock` stores, memory lies
  halfway between a time and the next (`ClockInv`), and the distance of anything
  halfway is what the carry under way counts (`HalfwayDistance`).
* `WifiGateProofs!TokensAndAddress`: whatever the delays and limits, there is a
  token or a running network thread exactly if there has been an address.
  `TokensFromAddress`, which has the wifi thread's places besides, makes it
  inductive.
* `WifiGateProofs!HandoffReached`: if both start delays are below `Settle` and
  `Settle + ConnectCall + WifiWait < NetWait` (`HandoffTiming`, which the values
  of the code satisfy), both network threads run once the wifi thread is done.
  `TimingInvariant` bounds the clock in each place of the threads, for all values
  of the constants; `OnTime` is what it says under `HandoffTiming`.
* `WifiGateProofs!DeadlinesKept`: the same bounds, without any hypothesis, say
  when each thread is through (`DeadlinesHold`).  It is the safe part of `WaitsEnd`, which adds
  that the clock reaches those times.
* `EpochDateProofs!DatesAreRight`, `Typing`: for every long of 32 bits.  The loop invariant says that the first day of the year (month)
  reached and the `d` days left add up to the day wanted; `YearLength` and
  `MonthLength` compare the loops' tables with the closed calendar formula.  It
  follows that the bound 2100 and the correction of a month 13 are never needed.
* `FetchProofs`.  A table gives for each thread the places at which it holds a
  mutex, waits for it, or has its socket open (`Critical`, `Waiting`,
  `Connected`).  `MutexInv` says that the mutexes agree with the table, owner and
  queue alike, and is inductive with the types because every step either takes a
  mutex where the table says, gives one back where it says, or is neutral.
  `NothingHeldAtRest` is then a look into the table (`RestsEmptyHanded`).  For
  `SnapshotsAreWhole` it takes besides that `g_info` is what was published
  unless the info thread is between its lock and its unlock (`PublishedInv`);
  the screen thread owns `info_mutex` when it copies (`SnapshotsWhole`).
  `HungHolds` and `LocksOrdered` are the safe part of what the liveness runs of
  `Fetch` show: a call that hangs does so with no mutex held but `http_mutex`,
  and /news with none while it downloads; and waits lead from `http_mutex` to the
  mutexes of the data and never back.
* `HttpReceiveProofs`, for every size of chunks, headers and buffer such that an
  answer to `/info` fits (`BufferAssumption`, true of 3072 bytes, as it is of the
  run) and every set of answers to `/news`.  `ReceiveInv` bounds `total` by the
  size of the response and ties `content_length` and `seen` to it, from which
  `PollsForMore` and `SuccessIsWhole` follow; that it stays within the buffer
  cannot be proved (`NewsBuffer`).  `NewerFirst` is not inductive, because `parse_info` goes by another
  order than the response: while it parses, only the fields not yet replaced are
  in order (`RestOrdered`); those found are a prefix of the response
  (`FoundFirst`), which restores the order at the end (`FieldsInOrder`).
  `TitlesInv` says that the list has the titles among the items looked at, all
  and in order, and that strays come only behind a full buffer and after all
  items.  What is in the list as whole came whole (`TakenAreWhole`); that these
  are the first whole titles is then a matter of counting (`FewBefore`), and
  that only the last entry may be a part one of the order of the bytes
  (`PartIsLast`).  `LoopsEnd` gives for each loop what a round
  of it uses up.
* `LcdProofs`, for every panel and all texts.  `ViewInv`: as long as nothing of
  the view was lost the cursor follows `row` and `i`, and the panel shows what is
  written so far and blanks, whatever was there before the clear (`OneViewHeals`).
  `CountInv` counts the losses against the commands sent, three of which set the
  two lines (`SetUpIsSafe`).
* `DisplayProofs`, for every length of the day, of views, samples and bursts and
  every bound of the overhead (`PaceAssumption`: samples and bursts take some
  time).  The parts of `DisplayInv`: a status that waits, with what is left of
  the round of views, never exceeds a round (`ShownInv`, for `StatusIsShown`);
  the screen thread does not sleep while it reads, so that the sensor thread
  stores at most one new sample meanwhile (`PairInv`, for `PairShown`); pulses
  since the alarm stopped and pulses left are at most a burst, and a second
  without a pulse ends with a look (`BeepInv`, for `SpeakerFollows`).
  `NoPeriodUnseen` proves `PeriodsAreShown` from its only premises, that ringing
  and snooze are longer than a round: a status not yet shown has waited as long as
  the alarm has rung or slept (`PeriodInv`), which takes that a pass adds a second
  at most, whatever buttons it finds (`PassSteady`).  With 20 seconds and views of
  two the premise leaves four seconds of overhead; it is the theorem's only
  dependence on the values of the constants.

* `ProxyProofs`, for all pauses and time limits and every bound of the queue.
  `OneOpenConnection`: that a polling client has exactly one open connection is
  inductive with the types (`QueueInv`), once it is said place by place of the
  queue instead of by counting.  The other two need that the proxy keeps pace
  with its clients while the other servers are prompt (`KeepsPace`: two answers
  take less than the 8 seconds of a poll, and it answers more than they ask; true
  with 3 seconds an answer).  `CaughtUpForGood`: a queue in which every connection
  is open and has its answer before its client's patience ends stays like that,
  because there is one connection per client in it (`OneEach`), and in such a
  queue nobody gives up (`NobodyGivesUp`).  `BacklogGoesAway`: `Load` weighs the
  work in the queue, for clients that have left too, and the part of each pause
  that is over; a new request costs what the pause before it has already been
  counted for (`LoadOfSend`), and a second takes 1 from the work and adds at most
  1 to what each client has rested (`LoadOfSecond`).  With the seconds of the code
  `Spare` is 30 * 15 - 3 * (30 + 15) = 315, and with four connections, the first
  of which still takes 25 seconds, `Load` is at most 450 * (25 + 9) + 3 * 900 =
  18000, so that the queue is empty within 58 seconds.  Together they are the
  safe part of `AllAnswered`, which adds that time passes.

Only model-checked is liveness, which is beyond the provers used, as is whatever
a fairness condition says.  What it rests on is proved where it is a safety
property: periods (`PeriodsLast`) for `RingingStops`, deadlines for `WaitsEnd`,
`HungHolds` and `LocksOrdered` for the three of `Fetch`, `LoopsEnd` for
`RequestEnds`, the two results on the backlog for `AllAnswered`.  `RingsAgain` has
no such part beyond the promise itself.  The four violated properties are shown by their counterexamples.

The proofs of `DisplayProofs` use the operators of `Alarm` as `Display`
instantiates them (`Before`, `After`).  The assumptions of an instance with a
parameter cannot be cited, so that `Display` states those it needs itself.

## 6. Not modelled, and what comes next

Every safety property that a passing run checks is proved.  Next would be the
parts of the screen that are left out below, and a queue of `Proxy` that several
boards share.

Not modelled:

* the wording and layout of the views, with it the sign of a temperature between
  -1 and 0 (`screen.c:95`), and the accumulation of the epoch's digits in a long
  (`screen.c:252-255`), which exceeds 32 bits from 2038 on;
* `screen_show_news`, which nothing calls;
* what the answers of the proxy say, and how it looks things up;
* lights at other addresses than this board's (`rgb_init`);
* stack sizes, the sensor's driver, TCP and Wi-Fi below the socket calls, build
  files and generated files under `build/`.
