# Verification of NLP

NLP switches electrical devices by a schedule.  It has two programs:

* a **web application** (`src/src/node_master_page/WebApp`, Node.js, PostgreSQL)
  where users keep a calendar of events and switch devices by hand;
* the **firmware of a device** (`src/src/esp8266_slave`, C, ESP8266 non-OS SDK)
  with a relay, two keys, a WiFi connection, and a web server for its
  configuration, whose files are packed by a tool of the build.

A device keeps one WebSocket connection to the application.  All that crosses it
is `hi` (the device's chip id), `let` (switch on, off, or on for some seconds),
`state` (the relay changed), and the pings of the WebSocket protocol.

This directory holds TLA+ modules of both programs, the configurations with
which TLC checks them, and theorems that TLAPS proves.  Line numbers below are
those of the source files named with them.

## Inventory

| component | state | operations | hard behaviour |
|---|---|---|---|
| event scheduler, `devicesScheduler.js` | `_jobs` per device, the jobs of node-schedule, calls of `updateForDevice` that await their query | `updateForDevice`, `_startTask`, `_stopTask`, a job's callback | calls overlap, queries are answered in any order, a job fires between a call and its answer, refused jobs, restarts |
| repetition, `Repeating.js` | none | `addDaysToTimeByRepeating` | weekday arithmetic, loops over occurrences and their bounds |
| web API, `routesWebApi.js` | table `event` | GET, PUT, DELETE of events | answers before the database has; each change calls the scheduler later |
| device sessions, `routesWSdevices.js`, `devices.js` | `_clients`, `ws.id`, `ws.isAlive` | connect, hi, close, ping round, pong, commands | a new connection before the old one has closed, a close during the lookup, half-open connections |
| pages, `routesPages.js`, `views` | none | switch by hand, timed or not | a hand against the schedule |
| entities and start, `db.js`, `entity`, `server.js` | wiring | start | loss of everything in memory |
| WebSocket client, `websocket_client.c` | `_connected`, `_handshakeInited`, the timeout timer | SDK callbacks, connect, send | callbacks and timers race, no callback after a refusal, frames in one segment |
| WebSocket worker, `ws_worker.c` | the retry timer | retry, status, obey | the timer is the only way back |
| port worker, `port_worker.c` | relay, its timer | enable, disable, toggle, enable for a time | a timed switch-on against later commands |
| keys, `driver/key.c`, `io.c`, `webserver.c` | level, two timers per key, configuration mode | interrupt, 50 ms, 5 s | bounces, lost edges |
| WiFi manager, `wifi_manager.c` | internet flag, ignored stations, wanted SSID, two timers | scan, connect, events | refused scans, no timeout for an address, late disconnects |
| known networks, `wifi_list.c` | linked list, one flash sector | add, delete, load, save | power failure while saving, 31 records |
| configuration pages, `cgi_wifi_manager.c`, `user_json.c` | last scan, position of each answer | scan, list, connect, delete, save | state shared by answers that are sent in pieces |
| HTTP server, `libesphttpd/core` | slots, phase of each request, backlog, the CGI function to call | connect, receive, sent, disconnect | one packet at a time, continuations, files to be closed |
| files, `libesphttpd/espfs`, `lib/heatshrink`, `httpdespfs.c` | the image; encoder and decoder; the position in a file; a template's token | pack, open, read, expand | tokens cut by bytes, feeds and chunks, boundaries of all three |
| drivers, start, encodings, the rest of `libesphttpd` | | I/O, or not run by the firmware | |

What makes each one correct, in a sentence: the scheduler never loses a change and
never sleeps through a start or an end, so the device is on exactly while an event
is due (on while one is due holds as long as calls do not overlap; off in between
does not, see the exceptions); repetition gives the occurrences that the calendar
shows; the sessions' table names the device's live connection; the client
on the device always comes back; the relay follows the last command; a known
network is used again after any failure; what was saved is what is loaded; an
answer of the web server is the whole answer, in order; a file that was packed is
the file that is served.

## Modules

| module | models | checked by | proved in |
|---|---|---|---|
| `Repeating` | `Repeating.js`, the choice of the next edge in `devicesScheduler.js`, the occurrences of `GET /api/events`, as operators | `closest_loop` | `SchedulerProofs` |
| `ClosestLoop`, `MCClosestLoop` | the two loops over occurrences, one iteration a step | `closest_loop` | `SchedulerProofs` |
| `Scheduler`, `MCScheduler` | `devicesScheduler.js` with its callers | `scheduler_*` | `SchedulerProofs` |
| `Sessions` | `routesWSdevices.js`, `devices.js` | `sessions*` | `SessionsProofs` |
| `WsLink` | `websocket_client.c`, `ws_worker.c` | `ws_link` | `WsLinkProofs` |
| `Relay`, `MCRelay` | `port_worker.c`, `driver/key.c`, `io.c`, the messages of `ws_worker.c`, the form of a device's page, and the reports as the application takes them | `relay` | `RelayProofs` |
| `WifiManager`, `MCWifiManager` | `wifi_manager.c` with the pages' scans and wishes | `wifi` | `WifiManagerProofs` |
| `NetworkStore` | what the device promises of the networks it knows (abstract) | `pages` | |
| `WifiList` | `wifi_list.c`, as an implementation of `NetworkStore` | `pages` | `WifiListProofs` |
| `Pages`, `MCPages` | `cgi_wifi_manager.c`, composed with `WifiList` | `pages` | `WifiListProofs` |
| `Httpd`, `MCHttpd` | `httpd.c`, `httpd-nonos.c`, the table of `webserver.c`, `cgiEspFsHook` | `httpd` | `HttpdProofs` |
| `EspFs`, `MCEspFs` | `mkespfsimage`, `heatshrink`, `espfs.c`, `cgiEspFsTemplate` | `espfs` | `EspFsProofs` |

`PROJECT.json` maps every definition to its lines.  Operators called mutants in
the modules' comments are changed versions of the definition after them, the way
a bug would change it; each property of a passing run is violated by one of them.

### Repeating and ClosestLoop

An instant is a number of ticks, `DayTicks` to a day, and day 0 is a Sunday.
Days are equally long: JavaScript's `setDate` keeps the local time over a change
of daylight saving, and the model does not have one.  `Repeating` says in closed
form on which days an event occurs (`OccursOn`), which occurrences a user sees
(`Shown`), which rows the scheduler's query selects (`Selected`), which
occurrence it works with (`ClosestDate`), and what it schedules (`Decisions`, a
set because rows that tie come in no particular order).  `ClosestLoop` walks the
loops of the code from `AddedDays`, and `closest_loop` checks that they end with
what the closed forms say.  That is what allows `Scheduler` to take a whole loop
as one step, as the code does: JavaScript runs a handler to its end.

### Scheduler

No statement of the code reads another device's entry, so there is one device.
A call of `updateForDevice` is an element of `Calls`.  It reads the clock,
cancels the job in `_jobs[id]` and issues its query (`UpdateForDevice`, part of
whichever handler calls it); the database reads the rows (`ReadRows`); `.then`
runs (`NothingToDo`, `StartTask`, `StartTaskThrows`); the job fires (`Fire`) and
that is the next call.  Calls overlap because PUT, DELETE, hi and jobs all make
them.  `scheduleJob` of node-schedule 1.2.5 returns null for a date that has
passed and `.enabled =` then throws, inside `.then`, after which nothing is
scheduled: `StartTaskThrows`.

`relay` is the relay of the device; commands reach it while `online`.  `Hi` is
the answer to the device's lookup, which registers the device and calls
`updateForDevice`; a reconnection that overtakes the old connection is a `Bye`
and a `Hi`.  `ws.send` to a dying connection throws: in a job's callback that
ends the process, which is `Restart`, and in `.then` it is the last statement
and has the effect of a device that is not online.

`Env` selects what the environment does; `MinGap` is how far apart the events
are that users store.  The code stores any, so `scheduler_concurrent` lets them
overlap.

### Sessions

The connections of one device, numbered in the order it makes them.  The library
`ws` is external: `close` and `terminate` are followed by a close event, whose
handler is `Close`.  `Found` and `NotFound` are the callback of the lookup and do
not look at the connection, as in the code.  `overtaken` is a history variable:
it says whether the table's entry was made while another connection of the device
was unfinished.

### WsLink

Each callback of the SDK, each timer and each action of server and network is an
action; the SDK runs one callback at a time.  A text frame is modelled by its
effect.  The answer to the handshake is the right one, one with another key, or
one without the header; the device closes the connection on either of the last
two.  `status_change_callback` of `ws_worker.c` is `RetryAfter` and `HiSaid`.  A lookup may
last through other attempts and connections, and espconn may refuse an attempt at any
time.  `attempt` is a history variable: the last attempt was begun by the client, or by
a late lookup after the handshake of another connection, or refused.
`stable` turns true once and for all when network and server stop failing.
Assumed of the SDK: it refuses to connect a structure that has a connection,
reports the end of a connection once, and hands over no data after
`espconn_disconnect`.  An answer cut into two segments would be taken for a wrong
one; the model delivers it whole.  `Segment` is where segments are cut: any number
of frames up to `MaxSegment` comes at once, of which `Receive` takes the first, as
`receive_data_cb` does.  `cutOff` is a history variable: the last command came
behind another frame of its segment.  Of the pong that the code sends for every text
frame too (line 149, `&` and `==` in an order that was hardly meant) nothing
follows, and it is left out.

### Relay

The relay, with everything that sets it: `let` messages, the timer of a timed
switch-on, and its key; the second key, which starts and stops the configuration
pages (`pages`, with `WebserverStart` and `WebserverStop`), shares the interrupt
handler.  A `let` message starts as a form of the device's page or a command of
the scheduler, becomes JSON (`EnableMessage`, `DisableMessage`) and is read by
`ws_message_set` (`WsMessageSet`), which has a value for what is missing.
Contacts bounce (`PinMoves`) for `Bounce` ticks after the finger has moved; an
awaited edge sets the key's bit in `GPIO_STATUS`, and the handler runs later, when
the input may have moved again.  `owed` (presses less calls) and `lastCommand` are
history variables.  The callback of 50 ms reads the input and sets the edge in one
step: the input would have to move within those microseconds, which needs a finger
that moves after less than `MinHold`.  The reported state (`view`) is stored by
the application and read by no code of it so far.

Each end of a connection has its own state, as in the code: `link` is the connection
for which the device is `_connected`, `app` what each is to the application,
`toServer` the reports on their way on each, and `entry` the one the table names.
The device loses its connection (`LinkLost`) and drops its reports from then on
(`ws_worker.c:218`), while the application keeps entry and view until it closes
(`Close`) for whatever reason; meanwhile the device may connect again and be
registered, in any order.  `Close` removes the entry whatever connection it is of,
and a late report of an old connection is written into the entry of a new one, as
in the code; `reporter` (history) tells whose report the view is.  A command takes no
time here, reports do; commands on their way are in `WsLink`, and a close during
the lookup is in `Sessions`.  The application passes over what arrives before the
device's lookup has ended.

### WifiManager

`wifi_scan_cb` is four actions, by how it ends: with an error (`ScanFails`), with
an address got meanwhile (`ScanTooLate`), with nothing to try (`ScanFindsNone`,
which clears the ignored stations) and with a station to join (`ScanChooses`,
which ignores it from now on).  `wifi_event_cb` is `HandleEvent`; the events of
the SDK wait in a queue, so a flag of the manager may lag behind the link.
`link` is the SDK's station: its state and the access point of its configuration.
The pages use the same radio: `PageScan` is `wifiStartScan`, and while it runs the
manager's own scan is refused, which nobody looks at (`refused`, a history
variable).  What the pages show of the link is `PageState`, `Summary` and
`StationInfo`.

Timers run for any time.  Assumed of the SDK: it refuses a scan while one runs,
and tells every end of an attempt or link by an event.  The empty name is not a
network (`None`, which stands for no wish, is not in `Ssid`): in the code a
hidden network has that name, and once it is known and seen a scan takes it for
the network wished for (line 149); `Recovers` would not hold with one.

### NetworkStore and WifiList

`NetworkStore` is a set of networks that are known, the set a restart would bring
back, and whether they are being kept.  It promises that a network or secret that
was replaced never returns once it is being kept, that after keeping no more than
31 networks, none of them nameless, all of them are kept, and that a restart in
between loses no more than what was being kept and damages at most one secret.

`WifiList` is the linked list and the sector: every change saves the whole list,
erasing the sector and writing record by record.  `at` is the record to be written
next.  Login and password are one secret, since they are stored, replaced and
saved together.  `PowerLoss` may come between any two writes or within one; an
interrupted write leaves the name and a damaged secret, because flash is written
in ascending order.  A name that is cut short is left out: it is nobody's.
`wifi_list_load` reads no further than the first record without a name, so a
nameless network hides those after it.  `Store` is the
refinement mapping, from the list to the set of its nodes and from the sector to
the set it would load.

### Pages

The requests for the access points and for the known networks are answered by
several calls of a CGI function; between two of them another client's request may
start a scan, replace its result, or free the node the next call begins with.
`answer` holds, for each client, where its answer stands, and as history which
items were in the list all along, which of them are not yet sent, and whether the
answer was *disturbed*: by a scan for access points, for networks only by the end
of the very node it had stopped at.  A freed node reads as anything.  An empty
password field stands for the old password, but the pointer to it is used after
its node has been freed (line 494): the new secret may be the old one, none, or a
damaged one (`Given`).  The SDK runs one callback at a time, so nothing happens
during a save but a power failure.

### Httpd

A connection of a client has a slot of `connData` and in it what `Fresh` lists:
how much of the head and the body has come, the CGI function's next call, the
backlog, and espconn's packet under way.  `Recv` takes any number of segments at
once, across the end of the head; when the request is complete the first function
of the table `BuiltInUrls` that matches and does not say "not found" is called,
which redirects, sends a file in chunks, or makes a page.  `SentCb` sends what
waits, or closes the connection, or calls the function again.  An answer is a
status line with its headers, then a number for each piece of its body, then the
chunk of length zero: the properties tell no more of it apart.

The head of a request is a sequence of lines (`ParseHeader`): the version turns
chunks on, `Connection: close` turns them off again, `Content-Length` tells how
much is to follow.  `Kept` says what the client expects by the same lines.  A file
that was gzipped when the image was built (`GZIP_COMPRESSION`, off by default) is
refused to a client that does not name gzip (`Refused`): by a message of its own,
without chunks, that announces the end of the connection.  The function looks for
the word in a buffer that `httpdGetHeader` leaves unwritten when there is no such
header (`httpdespfs.c:65`), so what the buffer held before may decide; the request
carries that choice as `stale`.  On a connection of HTTP/1.1 the refusal is not
followed by the end it announces; a client that believes it sends no more.

Assumed: memory suffices; a request fits in the buffers of its head and its body;
a client sends its next request when it has the whole answer to the last; a
connection that finds no free slot is closed at once and never has one.  Whether a
file is open is derived from the call that is to come (`FileOpen`): the model shows
a clean-up call that is not made, and would not show an `espFsClose` that is missing
where the function itself ends (`httpdespfs.c:69`, `httpdespfs.c:89`).

### EspFs

One file goes the whole way: through the options of `mkespfsimage` (`Options`),
the encoder of heatshrink with the widths of the level (`Sink`, `Search`,
`SaveBacklog`, `Packed`), gzipped if its extension asks for it and the tool was
built so (`HandleGzip`), or stored as it is (`HandlePlain`), into the image among
other files (`Entry`), to `espFsOpen`, which walks the headers, and by `Feed`,
`Decode` and `Polled` through the decoder, which gets a few bytes at a time and
puts out at most a chunk a call.  Of the other files only the lengths matter.
Tokens are sequences of bits, and a byte has `ByteBits` of them (`Pow2` is `1 <<
n`); the widths keep the order they have in the program, where a token never fits
into the padding of the last byte.  A name is listed once, since `find` makes the
list.  A request names the file whose content is known, or one that is not there.
The encoder's index of equal bytes is modelled, since which of several matches is
taken depends on it.  `cgiEspFsTemplate` is an operator over the chunks of the
file; what a template's callback sends for a token is external, here the token in
brackets, and `Expanded` is the reference it is checked against.  No URL of
`webserver.c` leads to it: this firmware carries the function and does not run it.

## Runs

| run | bounds | expected | shows |
|---|---|---|---|
| `scheduler_concurrent` | 2 rows from a single and a daily event that overlap, 3 calls, 2 awaiting their query, 3 ticks, timers and queries up to a tick late | pass | `NoLostUpdate`, `NoMissedEdge`, `HandleTellsRelay` with everything in the environment |
| `scheduler_serial` | disjoint single and daily events, 7 ticks (3 days), one call at a time | pass | `OneJob`, `OnWhenDue` |
| `scheduler_refused` | one daily event | violation of `ScheduleGoesOn` | `updateForDevice` at an occurrence's very end: the job is refused and the schedule stops |
| `closest_loop` | 6 starts, 3 lengths, 5 repetitions, 4 last days, 8 instants | pass | loops and closed forms agree, loops end |
| `ws_link` | 2 lookups and 3 frames under way, segments of one or two | pass | `NeverStuck`, `ObeysLastCommand`, `Recovers` |
| `sessions` | 3 connections | pass | `ReachableUnlessOvertaken`, `OnlyLateGhosts`, `GivenUpIsReaped` |
| `sessions_takeover` | 2 connections | violation of `Reachable` | a connected device that no command reaches |
| `relay` | contacts bounce for a tick, the check comes 2 ticks after an edge, a key stays 2 ticks; both keys; 2 connections with 2 reports under way on each | pass | `OnePressOneCall`, `TimerIsOfLastCommand`, `ViewIsTrue` |
| `wifi` | 2 networks with an access point each, the weaker always there; a person acts twice; no attempt fails while an event is held | pass | `NeverSilent`, `ViewIsTrue`, `Recovers`, `WishIsTried` |
| `pages` | 2 clients, 3 names (one empty), 2 records, 2 access points | pass | `AnswersAreWhole`, the refinement `KeepsNetworks` |
| `httpd` | 3 clients on 2 slots, 12 requests of up to 3 calls, heads of up to 3 lines, each a segment, bodies of 1 | pass | `AnswersInOrder`, `FilesClosed`, `Answered` |
| `espfs` | all files of up to 7 bytes of two kinds, files of 18 and 21 bytes that repeat; windows of 16 and 8 bytes, matches up to 4, feeds of 2, chunks of 3; other files of each length modulo 4 | pass | `ServesFile`, `FindsFile`, `TemplatesAreWhole`, `Ends` |

Why the bounds are enough.  Two calls awaiting their query at once and a third with
a job are the fewest that show every overlap that two calls can have while a job
fires; a further call only repeats the roles.  Two rows show ties, overlaps and a
row that replaces another.  Seven ticks of half a day reach a third occurrence of
the daily event.  Three connections let an old close, an old lookup and a new hi
meet; the theorems hold for any number.  In `WsLink` three frames under way are the
answer to a handshake, a segment with it, and what follows; two frames a segment
have a first and one that is passed over; of two lookups one is late.  In `relay`
the device has one connection while the application closes another, or registers it
late; a third would be one more that the application has yet to close.  Starts in
`closest_loop` cover the days from Sunday to Saturday that `AddedDays`
distinguishes, and last days before, at and after an occurrence's end.  In `relay`
`MinHold` is the shortest for which `OnePressOneCall` holds: it is violated when a
key is released while the check of its pressing is still to come, because that check
then finds the key up while it bounces.

In `wifi` the better network is the one that may refuse, and the ignored stations
have to get the device past it; a third would be passed over in the same way.  Two
acts of a person are a wish and the deletion or the wish that crosses it.  In
`pages` more networks can be known than the sector holds, one of them nameless,
and two answers meet in every pair of positions.  In `httpd` an answer of three
calls has a first, a middle and a last one, the second slot tells whether the
right one is found, and the third client meets a full pool.  In `espfs` the files
fill the smaller window more than twice and the larger one more than once, so that
the backlog is none, partial and filled; distances need one byte at one level and
two at the other; a token of up to seven bits crosses feeds of six, and chunks cut
matches and template tokens at every place.

Clock, frames, connections, events held and acts of a person are the only
counters, and each has its bound as a constant.  Runs whose clock or connections
run out are checked without deadlock, as are the loops, which end, and `wifi`: a
WiFi manager whose scan was refused really stops, which is what `NeverSilent`
says.  So does the client of `ws_link` that espconn has refused (`NeverStuck`).

Violation runs state what the repository's README promises ("in accordance with
a given schedule, without manual operations"; "remotely and automatically control
electrical devices"); PROJECT.json quotes it with each finding and tells its
story.  In short:

* `scheduler_refused`: the first occurrence of a repeating event ends at the very
  instant of `updateForDevice`.  The loop (line 69) goes on only while the end is
  *before* now, so it is not entered, and the edge to be scheduled is that end; when
  the query is answered it has passed, `scheduleJob` returns null, and line 123
  throws.  A later occurrence that ends at now leads to the same, since the search
  neither passes nor takes it (line 72).
* `sessions_takeover`: the close of an old connection removes the entry of a new one.
  The page then says "Disconnected"; where a late lookup has put a dead connection
  into the table, the page may say "Connected", and commands go nowhere.

`scheduler_serial` and `OnWhenDue` hold with one call at a time, whose query is
answered before the next begins.  With overlapping calls the model has more than
one live job, and `scheduler_concurrent` checks what the code still guarantees
then: some job fires in time and looks again.

What the bounds keep out, and the code does not:

* An occurrence that begins after the last day of its event (the loop looks at
  the date before it has moved on) is switched on and not off again.
* Events that touch: a device that reconnects at that instant stays off during
  one of them, if the rows come in the wrong order (`MinGap`).

## What holds only with an exception

A property names the exception where the code does not do what one would expect:

* `NeverStuck`: unless espconn refused the last attempt, for want of memory or because
  the name cannot be looked up.  Nobody looks at the result
  (`websocket_client.c:198`, `websocket_client.c:374-388`), and no timer is armed.
* `Recovers` (`WsLink`): unless the last attempt was refused, or begun by a lookup
  that lasted until another attempt had made its connection and lost it.  The state of
  that one's handshake is then still set (`websocket_client.c:181`), so the answer to
  the new one is not read, and the connection stays as long as the server keeps it.
* `ObeysLastCommand`: unless the command came behind another frame of its segment,
  of which `receive_data_cb` parses the first only (`websocket_client.c:142-156`).
* `ViewIsTrue` (`Relay`): it speaks of reports of the connection that the device has.
  While the device has lost that connection and the application has not, the stored
  state may be false, for as long as two ping rounds; after a late report of an older
  connection, until the next report.  No code reads that state so far.
* `OnWhenDue`: calls may not overlap (above).  That the device is *off* when nothing is
  due does not follow and does not hold, and no run checks it:
  - an event under way is deleted and no row is left: `updateForDevice` returns
    (`devicesScheduler.js:44`) before it would switch the device off (line 104);
  - the end of an event comes while the device is away: `nowEnabled` (line 17) is what
    the job in `_jobs` is about to do and not what the device is, so the hi that
    follows a missed start repeats it, and one that follows a missed end does not;
  - two calls overlap: `nowEnabled` is read before the query and used after it, so what
    an older call, or a job, switches on meanwhile a newer call does not switch off.

  In the last two cases the device stays on until the end of the next event.
* `WishIsTried`: a wish whose attempt is cut by the half-second timer that it armed
  itself counts as tried.
* `NeverSilent`: unless the SDK refused a scan of the manager, because a scan of
  the pages was running.  Nobody looks at the result; no timer is armed.
* `Recovers` (`WifiManager`): if no scan is refused.
* `AnswersAreWhole`: an answer under way when another request starts a scan may
  get a second head, or items of two scans; one whose next node is deleted reads
  freed memory.
* `Answered`: without chunks, a file of a multiple of 1024 bytes has a last call
  that sends nothing; there is no callback in which the connection would be
  closed, and the browser waits.
* `KeepsNetworks`: what was being saved when the power failed may be lost, all of
  it: the sector is erased first.

## Fairness

`Scheduler`, `Relay` and `Pages` have safety properties only; `MaxLate` bounds how
late queries and timers of the scheduler are.  `ClosestLoop` assumes that the loop
goes on.  `Sessions` assumes that the ping interval goes on, that the database
answers, and that a connection the server terminates emits its close event;
nothing is assumed of the device.  `WsLink` assumes that armed timers fire, that
lookups and attempts end, that the SDK reports the end of a connection, that
segments are handed over, and that a server that was asked answers.  `EspFs`
assumes that a loop goes on; `Httpd` that packets arrive and are acknowledged and
that the end of a connection is told: nothing of the browser, which may stop
sending or leave.  All these are weak fairness of actions that stay enabled until
they happen, because each is a timer, a callback that is due, or the next
iteration of a loop.

`WifiManager` needs more.  The timer that disconnects, scans of the pages and
events are weakly fair; rescans and scans that succeed strongly, because a rescan
waits for events and a scan may fail in between; the queue of events is empty again
and again, because the device is faster than the radio.  Strongly fair are also
joining a steady access point and getting its address: of the attempts made, not
all fail.  That is a promise of the network, not of the code, and `Recovers` is
about what the code does with it.

Nothing obliges the network to stop failing; `Recovers` of `WsLink` speaks of what
follows if it does (`stable`).

## Proofs

Every theorem holds for all values of the constants, unless it says what it
assumes of them: which events, keys or servers the code works for.  Each module
proves its invariant from `Init` and over each action, and each theorem from the
invariant.

### Scheduler

* `TypeCorrect`: the types.
* `NoUpdateIsLost`: `NoLostUpdate`.  The property is not inductive, because it
  speaks only of states in which no call is under way.  The invariant is `Fresh`:
  while the device is online, no `.then` threw, and every write has had its call,
  some call is *current*: it has yet to read the table, or has read what is
  still in it, or has a job decided from that.  A write leaves a `.then` to come,
  whose call is current when it begins; a job is cancelled only by a call that is
  current itself; time only removes rows from what the query selects
  (`SelectedShrinks`).
* `HandleIsTrue`: `HandleTellsRelay`, inductive with the types.
* `NoEdgeIsMissed`: `NoMissedEdge`, repetitions included, if events start no later
  than they end and an occurrence is over when the next one of the same event
  begins (`Apart`).  It follows from `NoLostUpdate`: the date that was decided
  earlier is no later than any edge still ahead (`EdgeInTime`), because the search
  ends at an occurrence the calendar shows and has passed none that was not over
  (`ClosestIsShown`).  `NoSingleEdgeIsMissed` says it of events that do not
  repeat, whatever the repeating ones are.
* `NeverTwoJobs`: `OneJob`, if calls do not overlap (`MaxOutstanding <= 1`).  The
  invariant `Serial` adds that while a call waits for its query no job is armed, no
  handle kept, and no other call waits.  `scheduler_concurrent` is the run where
  calls overlap, and does not check it.
* `DueMeansOn`: `OnWhenDue`, if calls do not overlap, if events neither overlap nor
  touch (`MinGap >= 1`), start before they end, are `Apart`, and do not end beyond
  the bound on the clock (`EndsInTime`).  The last is about the bound, not the
  code: the model compares events up to `Horizon` only.  The argument: what was
  decided while an event is due can only be its end, because the start of another
  one would have to come before that (`NextIsAnEnd`, from `Disjoint`: the table
  holds no two events that clash); a job that will switch off is named by `_jobs`;
  and then `HandleTellsRelay` says that the device is on.

### Loops over occurrences

The last part of `SchedulerProofs`, for all events, windows and instants:

* `SearchIsCorrect` (`SearchFindsClosestDate`) and `PageIsCorrect`
  (`PageShowsSchedule`): the loops compute what `Repeating` says in closed form,
  which is what `Scheduler` is modelled with.  The invariant `OnTheWay` says that
  there is a day `n` with the loop at its occurrence (`Reached`), everything before
  it passed (`Searched`) or looked at (`Collected`).  What would be an induction on
  the days is the induction over the steps; the lemma under it, `NextOccurs`, says
  that `addDaysToTimeByRepeating` leads to the *next* day on which the event occurs,
  for every kind of repetition and every weekday.
* `ClosestIsEarliest`: `ClosestIsTheEarliest`, if events start no later than they end.
* `LoopsAreTyped`: the types.

### Sessions and links

`SessionsProofs`, for any number of connections: `TypeCorrect` (the types),
`ReachableWhenNotOvertaken` and `GhostsAreLate`.  The invariant `Alone` adds that
the connections other than the last have neither a lookup nor a close event to come.

`WsLinkProofs`, for all bounds, with lookups that last and attempts that are refused:

* `TypeCorrect`: the types.
* `ClientNeverStuck`: `NeverStuck`.  The invariant adds
  that an open link has its timeout armed and that a client which believes to be
  connected has a link; the retry timer, which is used up on a connected client,
  relies on it.
* `CommandsAreObeyed`: `ObeysLastCommand`, for segments of any size, any number of
  frames under way.  The invariant `CommandsOnTheWay` says
  that in a session the handshake is over, so that no command is taken for its
  answer, and how the relay *will* be when the frames on their way have been obeyed
  (`Settles`), as long as the last command has not been passed over.  What a segment
  takes away with its first frame does not change how the rest settles, unless the
  last command is among it, and then it is `cutOff` (`SettlesRest`).

### Relay and keys

`RelayProofs`, for all lengths of timers, any number of connections and of reports
under way:

* `TypeCorrect`, `NoOldTimer` (`TimerIsOfLastCommand`) and `NoFalseReport`
  (`ViewIsTrue`).  The last speaks of states in which the device's own connection
  made the last report and none is under way; the invariant `ReportsAreInOrder` adds
  that otherwise the last one under way tells the relay's state, that on a connection
  the application has closed nothing is under way, and that there is a view only
  where there is an entry, so that a close, which removes the entry, leaves none.
* `EveryPressCountsOnce`: `OnePressOneCall`, if contacts settle before the 50 ms are
  over and a finger stays on or off longer than bouncing and check last
  (`LongHold`).  The invariant `KeyLife` is the cycle a key goes through: untouched,
  press begun, checked, pressed, release begun, checked again.  It says in each part
  what the driver waits for, how the contacts stand once they rest, and how much time
  the check has left before the finger may move.

### WiFi manager

`WifiManagerProofs`, for all networks, access points and bounds: `TypeCorrect`,
`LinkIsKnown` (`ViewIsTrue`) and `ManagerNeverSilent` (`NeverSilent`).  The last two
speak of flags that follow the link only when its events have been delivered.  The
invariant therefore says what the flags *will* be when they are: `Online` and
`Names` go through the queue, and an idle link has a rescan armed, a scan running,
or a disconnection in the queue that will arm it.  The lemmas say how these change
when an event is appended or taken.

### Known networks and pages

`WifiListProofs`, for all clients, access points, names, secrets and sizes of the
sector:

* `ListInvariant` (no network twice in the list, and the sector holds what has been
  written of it) and `NetworksKept`: `Pages`, with its list and sector, implements
  `NetworkStore`.  Each action maps to a step of the store or to a stutter: `Add`
  and `Delete` to `Put` and `Forget`, a record written to `Keep`, the blank record
  to `Kept`, a power failure to `Restart`.  That names differ is needed to turn the
  position of a node into a network, and the shape of the sector to count what it
  holds.
* `TypeCorrect` and `AnswersWhole` (`AnswersAreWhole`).  The property speaks of
  answers that are over; the invariant `AnswersInv` says what is still to come of
  the others.  An answer of access points that no scan disturbed has to send those
  from its counter on (`ScanUnderWay`); one of networks, those that have stayed in
  the list and stand at or behind the node it goes on with (`ListUnderWay`).  The
  lemmas about it say that saving and deleting keep the order of the nodes they do
  not touch (`KeepsOrder`).

### HTTP server

`HttpdProofs`, for any number of connections and slots, any requests, and segments
of any size:

* `TypeCorrect`: the types, which bound the positions in a head and a body and the
  number of a call.
* `FilesAreClosed`: `FilesClosed`.
* `AnswersStayInOrder`: `AnswersInOrder`.  The invariant says in which phase each
  connection is: `Unasked`, `ReadingHead`, `ReadingBody`, `Answering` or `Done`.
  Each says where the position in the request is, what is known of its length and
  its chunks, and that what the client got, what is on its way and what waits are
  together the pieces of the calls so far (`Begun`).  A kept connection that is
  done is already ready for the next head.  What the header lines leave behind is
  proved from the least line that is wrong, and that a head's end is found once
  from the head's shape.

### Files

`EspFsProofs`, for every file and every list of files, for all widths, and for
every size of feed and chunk:

* `FileIsFound`: `FindsFile`.  The invariant `ImageInv` says that each header of the
  image is where the one before it ends, aligned; that the file is among them once
  as soon as it has been handled; and that `espFsOpen` stands at one of them and has
  passed none that has the name it looks for.
* `FileIsServed`: `ServesFile`, that the decoder undoes the encoder.  Two invariants
  meet at the bits.  `FileInv` says of the encoder that its buffer is the file around
  the place it has reached, and that the bits it has put out *stand for* the file up
  to there: a set of marks, pairs of a place in the bits and a place in the file,
  with one token between two of them.  `ServedInv` says of the decoder that it has
  used the bits up to some place, holds those behind it (`Stream`), is at a mark or
  within the token of one, and has sent the file up to there.  The zeros that fill
  the last byte are too few for a token, so the decoder has come to its end too.
* `TypeCorrect`: the types.  What the decoder holds is typed only as long as it reads
  what the encoder wrote, so this needs all of the invariant.
* `TemplatesExpand`: `TemplatesAreWhole`.  `Sends` says what the calls have sent of
  the first k bytes: all that `Expanded` makes of them, but for a token that has
  begun.  A byte takes it from k to k + 1 (`ByteSends`), a chunk from its first byte
  to its last (`CallSends`), and at the end of the file it is `Expanded`.

The library's theorems of induction take an operator as a parameter, which the
provers cannot instantiate.  Here induction is over *sets* of numbers:
`LeastNatural`, `Induction`, `InductionTo`, and `Recursion`, which gives the
function that a recursive definition chooses.  With them powers of two, the bits of
a number, the encoder's search and the template's calls are proved for every
argument.

### Assumptions

The assumptions on constants (`...Assumption`) say what kind of values they have.
Four say more: an erased or blank record is not a network (`WifiList`); a scan
shows at least one access point and the mark for no item is neither a network nor
a position (`Pages`, without which an answer's first item would be out of range);
a request begins with its version and has a body exactly if a field gives its
length, and a file is sent by at least two calls of its CGI function (`Httpd`);
and no file is listed twice, the one that is asked for is the one whose content is
known or is not listed, the widths are such that a token is longer than a byte and
its parts are not longer than two bytes and one, which those of `mkespfsimage`
are, and of a template's token at least one byte is kept, of 63 (`EspFs`).

### Only model-checked

* Liveness: `Recovers` of both modules, `WishIsTried`, `GivenUpIsReaped`,
  `LoopsEnd`, `Answered`, `Ends`.  The prover has neither `ENABLED` nor fairness.

Every invariant and every safety property of an action that a passing run checks is
proved.  The types of `Scheduler`, `Sessions` and `WsLink` are proved and no run
checks them: they say nothing of the code that its other properties do not.

## Not modelled

Of the application: rendering and assets, the format of answers, HTTP errors,
authentication, `GET /api/devices`; failing writes of the database, after which
the code does nothing; daylight saving; a timed switch-on whose time is not a
number, which becomes a plain one (`routesPages.js:90`, `devices.js:61`).

Of the device: how long a timed switch-on lasts, and the overflow of its
milliseconds (`port_worker.c:89`); a refusal of `espconn_send`; the characters of
JSON; the bytes, lengths and masks of frames, and the parser's errors for lengths
it does not take (`websocket_client.c:201-263`); `websocket_client_disconnect` and
`wifi_manager_stop`, which nothing calls; that a device's name is compared in
three letters only; failing allocations, also the second one of a scan, after
which the result has entries that point nowhere (`cgi_wifi_manager.c:84-88`); that
at most 32 characters of a password are kept (`wifi_list.c:35`, of 64 that there
is room for); a station-info that is answered without its head when the network
does not exist (`cgi_wifi_manager.c:356-360`); heads longer than 1024 bytes and
pipelined requests; what zlib makes of a file; form arguments and authentication
of the HTTP server, and header fields other than three, which no page of the
device uses.

`-l -1` of `mkespfsimage` is refused, though its usage text offers -1 for the
default (`main.c:305`, `main.c:336`).

Not run by the firmware, or not compiled: `captdns.c`, `cgiwebsocket.c`,
`cgiflash.c`, `cgiwifi.c` and `auth.c` (no URL of `webserver.c` leads to them),
`httpd-freertos.c`; `heatshrink.c` is a command of its own and `greatest.h` a
test framework.  Pure I/O or pure calculation: the serial line, the SDK's example
drivers, SHA-1, Base64.

## Plan

1. Composition of `Sessions` with `WsLink` as an implementation of the connection
   that `Scheduler` sees (`Hi`, `Bye`, `Send`).
2. The composition of 1 as a theorem of refinement.
3. Refusals of `espconn_send`, with what is then lost of reports and hi.
