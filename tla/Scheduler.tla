----------------------------- MODULE Scheduler -----------------------------
(***************************************************************************)
(* devicesScheduler.js with its callers: the table of events, the HTTP     *)
(* handlers that change it, the device's connection, and the timers of     *)
(* node-schedule.                                                          *)
(*                                                                         *)
(* Every piece of state in the code is indexed by the device's id and no   *)
(* statement reads another device's entry, so one device is modelled.      *)
(*                                                                         *)
(* A call of updateForDevice is an element of Calls and goes through the   *)
(* phases                                                                  *)
(*    idle -> asked     the call cancelled the job and issued its query    *)
(*         -> answered  the database read the rows, .then has not run      *)
(*         -> armed     .then ran and the job it scheduled is waiting      *)
(*         -> idle      the job was cancelled, or there was nothing to do  *)
(* A call schedules at most one job, so the call also names its job.       *)
(***************************************************************************)
EXTENDS Repeating, FiniteSets

CONSTANTS
    EventIds,        \* primary keys of the table
    Rows,            \* the rows users may store
    Calls,           \* calls of updateForDevice that wait or have a job
    None,            \* null
    Horizon,         \* bound: the clock stops here
    MaxLate,         \* bound: ticks by which a query or a timer may be late
    MaxOutstanding,  \* bound: calls that await their query at a time
    MaxPending,      \* bound: stored changes not yet followed by a call
    MinGap,          \* ticks users leave between two events: 0 lets them
                     \* touch, -1 lets them overlap
    Env              \* what the environment does: see the guards below

ASSUME SchedulerAssumption ==
    /\ Rows \subseteq EventRows
    /\ None \notin Calls /\ None \notin EventRows
    /\ Horizon \in Nat /\ MaxLate \in Nat
    /\ MaxOutstanding \in Nat /\ MaxPending \in Nat
    /\ MinGap \in Nat \cup {-1}
    /\ Env \subseteq {"put", "delete", "connection", "restart", "manual"}

VARIABLES
    clock,       \* Date.now()
    table,       \* the rows of the device in public.event
    pending,     \* writes of the table whose .then has not run yet
    phase,       \* of each call
    asOf,        \* `now', captured when the call began
    nowEnabled,  \* the flag of the job that the call cancelled
    rows,        \* the rows its query returned
    job,         \* date and mode of the job it scheduled
    handle,      \* _jobs[id], by the call that made the job
    online,      \* devices.isOnline(id)
    relay,       \* whether the device's relay is on
    manual,      \* the last command to the relay came from a user
    refused      \* .then threw since the last call began

envVars == <<table, pending, online>>
callVars == <<phase, asOf, nowEnabled, rows, job, handle, refused>>
vars == <<clock, table, pending, online, relay, manual, callVars>>

Phases == {"idle", "asked", "answered", "armed"}
Jobs   == [date : Nat, enable : BOOLEAN]
NoJob  == [date |-> 0, enable |-> FALSE]

TypeOK ==
    /\ clock \in Nat
    /\ table \in [EventIds -> Rows \cup {None}]
    /\ pending \in Nat
    /\ phase \in [Calls -> Phases]
    /\ asOf \in [Calls -> Nat]
    /\ nowEnabled \in [Calls -> BOOLEAN]
    /\ rows \in [Calls -> SUBSET Rows]
    /\ job \in [Calls -> Jobs]
    /\ handle \in Calls \cup {None}
    /\ online \in BOOLEAN /\ relay \in BOOLEAN
    /\ manual \in BOOLEAN /\ refused \in BOOLEAN

Stored == {table[i] : i \in EventIds} \ {None}
SelectedRows(t) == {e \in Stored : Selected(e, t)}

Waiting(c)  == phase[c] \in {"asked", "answered"}
Outstanding == {c \in Calls : Waiting(c)}

(***************************************************************************)
(* updateForDevice up to its query: read the clock, remember whether the   *)
(* current job was going to switch the device off, cancel that job.        *)
(* _jobs[id].enabled is the opposite of what the job will do.              *)
(***************************************************************************)
WasEnabled == handle # None /\ ~job[handle].enable

(* Mutant: the old job keeps running. *)
UpdateForDeviceNoCancel(c) ==
    /\ asOf' = [asOf EXCEPT ![c] = clock]
    /\ nowEnabled' = [nowEnabled EXCEPT ![c] = WasEnabled]
    /\ phase' = [phase EXCEPT ![c] = "asked"]
    /\ job' = [job EXCEPT ![c] = NoJob]
    /\ rows' = [rows EXCEPT ![c] = {}]
    /\ handle' = None
    /\ refused' = FALSE

UpdateForDevice(c) ==
    /\ asOf' = [x \in Calls |-> IF x = c THEN clock
                                ELSE IF x = handle THEN 0 ELSE asOf[x]]
    /\ nowEnabled' = [nowEnabled EXCEPT ![c] = WasEnabled]
    /\ phase' = [x \in Calls |-> IF x = c THEN "asked"
                                 ELSE IF x = handle THEN "idle" ELSE phase[x]]
    /\ job' = [x \in Calls |-> IF x \in {c, handle} THEN NoJob ELSE job[x]]
    /\ rows' = [rows EXCEPT ![c] = {}]
    /\ handle' = None
    /\ refused' = FALSE

MayCall(c) == phase[c] = "idle" /\ Cardinality(Outstanding) < MaxOutstanding

(* devices.enable and devices.disable reach the device while it is online. *)
Send(on) ==
    /\ relay' = IF online THEN on ELSE relay
    /\ manual' = IF online THEN FALSE ELSE manual

(* The database runs the query of call c. *)
ReadRows(c) ==
    /\ phase[c] = "asked"
    /\ phase' = [phase EXCEPT ![c] = "answered"]
    /\ rows' = [rows EXCEPT ![c] = SelectedRows(asOf[c])]
    /\ UNCHANGED <<clock, envVars, relay, manual,
                   asOf, nowEnabled, job, handle, refused>>

Finish(c) ==
    /\ phase' = [phase EXCEPT ![c] = "idle"]
    /\ rows' = [rows EXCEPT ![c] = {}]
    /\ asOf' = [asOf EXCEPT ![c] = 0]
    /\ nowEnabled' = [nowEnabled EXCEPT ![c] = FALSE]

(* .then with no rows returns: no job, and no command to the device. *)
NothingToDo(c) ==
    /\ phase[c] = "answered"
    /\ rows[c] = {}
    /\ Finish(c)
    /\ UNCHANGED <<clock, envVars, relay, manual, job, handle, refused>>

(* Mutant: an event that is under way is not switched on. *)
CommandNowOnlyOff(c, d) ==
    IF d.enable /\ nowEnabled[c] THEN Send(FALSE)
    ELSE UNCHANGED <<relay, manual>>

(* The commands after _startTask: switch on if the next edge is an end,    *)
(* off if it is a start and the cancelled job was going to switch off.     *)
CommandNow(c, d) ==
    IF ~d.enable THEN Send(TRUE)
    ELSE IF nowEnabled[c] THEN Send(FALSE)
    ELSE UNCHANGED <<relay, manual>>

(* .then with rows: schedule the closest edge.  A job that _jobs[id]       *)
(* named until now is forgotten, not cancelled.                            *)
StartTask(c) ==
    /\ phase[c] = "answered"
    /\ \E d \in Decisions(rows[c], asOf[c]) :
          /\ d.date >= clock
          /\ job' = [job EXCEPT ![c] = d]
          /\ CommandNow(c, d)
    /\ phase' = [phase EXCEPT ![c] = "armed"]
    /\ rows' = [rows EXCEPT ![c] = {}]
    /\ nowEnabled' = [nowEnabled EXCEPT ![c] = FALSE]
    /\ handle' = c
    /\ UNCHANGED <<clock, envVars, asOf, refused>>

(* node-schedule returns null for a date in the past, and .then throws     *)
(* where it sets .enabled: no job, no command, _jobs[id] is null.          *)
StartTaskThrows(c) ==
    /\ phase[c] = "answered"
    /\ \E d \in Decisions(rows[c], asOf[c]) : d.date < clock
    /\ Finish(c)
    /\ handle' = None
    /\ refused' = TRUE
    /\ UNCHANGED <<clock, envVars, relay, manual, job>>

(* Mutant: the callback does not look for the next edge. *)
FireOnce(c) ==
    /\ phase[c] = "armed"
    /\ job[c].date <= clock
    /\ Send(job[c].enable)
    /\ phase' = [phase EXCEPT ![c] = "idle"]
    /\ job' = [job EXCEPT ![c] = NoJob]
    /\ asOf' = [asOf EXCEPT ![c] = 0]
    /\ handle' = IF handle = c THEN None ELSE handle
    /\ UNCHANGED <<clock, envVars, nowEnabled, rows, refused>>

(* A job's callback: the command, then updateForDevice. *)
Fire(c) ==
    /\ phase[c] = "armed"
    /\ job[c].date <= clock
    /\ Send(job[c].enable)
    /\ UpdateForDevice(c)
    /\ UNCHANGED <<clock, envVars>>

(***************************************************************************)
(* The environment.                                                        *)
(***************************************************************************)
Clash(e, f) == \E t \in 0..Horizon, g \in 0..MinGap :
                  ActiveAt(e, t) /\ ActiveAt(f, t + g)

Fits(e, i) == \A k \in EventIds \ {i} :
                 table[k] # None => ~Clash(e, table[k]) /\ ~Clash(table[k], e)

(* PUT /api/events creates or updates a row, and calls updateForDevice     *)
(* when the database has confirmed it.                                     *)
PutEvent(i, e) ==
    /\ "put" \in Env
    /\ pending < MaxPending
    /\ Fits(e, i)
    /\ table' = [table EXCEPT ![i] = e]
    /\ pending' = pending + 1
    /\ UNCHANGED <<clock, online, relay, manual, callVars>>

(* Mutant: the handler forgets to call updateForDevice. *)
DeleteEventQuietly(i) ==
    /\ "delete" \in Env
    /\ table[i] # None
    /\ table' = [table EXCEPT ![i] = None]
    /\ UNCHANGED <<clock, pending, online, relay, manual, callVars>>

DeleteEvent(i) ==
    /\ "delete" \in Env
    /\ pending < MaxPending
    /\ table[i] # None
    /\ table' = [table EXCEPT ![i] = None]
    /\ pending' = pending + 1
    /\ UNCHANGED <<clock, online, relay, manual, callVars>>

(* The .then of a PUT or a DELETE. *)
StoredThen(c) ==
    /\ pending > 0
    /\ MayCall(c)
    /\ pending' = pending - 1
    /\ UpdateForDevice(c)
    /\ UNCHANGED <<clock, table, online, relay, manual>>

(* The device says hi on a new connection: after a mere loss of the link   *)
(* its relay is as it was, after a restart of the device it is off.        *)
Hi(c) ==
    /\ ~online
    /\ MayCall(c)
    /\ online' = TRUE
    /\ relay' \in {relay, FALSE}
    /\ UpdateForDevice(c)
    /\ UNCHANGED <<clock, table, pending, manual>>

Bye ==
    /\ "connection" \in Env
    /\ online
    /\ online' = FALSE
    /\ UNCHANGED <<clock, table, pending, relay, manual, callVars>>

(* POST /device/:id *)
SwitchByHand(on) ==
    /\ "manual" \in Env
    /\ online
    /\ relay' = on
    /\ manual' = TRUE
    /\ UNCHANGED <<clock, envVars, callVars>>

(* The server process stops and starts: only the table survives. *)
Restart ==
    /\ "restart" \in Env
    /\ phase' = [c \in Calls |-> "idle"]
    /\ asOf' = [c \in Calls |-> 0]
    /\ nowEnabled' = [c \in Calls |-> FALSE]
    /\ rows' = [c \in Calls |-> {}]
    /\ job' = [c \in Calls |-> NoJob]
    /\ handle' = None
    /\ refused' = FALSE
    /\ pending' = 0
    /\ online' = FALSE
    /\ UNCHANGED <<clock, table, relay, manual>>

(* Time passes while no timer and no query is later than MaxLate. *)
Tick ==
    /\ clock < Horizon
    /\ \A c \in Calls :
          /\ phase[c] = "armed" => clock < job[c].date + MaxLate
          /\ Waiting(c) => clock < asOf[c] + MaxLate
    /\ clock' = clock + 1
    /\ UNCHANGED <<envVars, relay, manual, callVars>>

(* The server has just started, on the table as it was left. *)
Init ==
    /\ clock = 0
    /\ table \in [EventIds -> Rows \cup {None}]
    /\ \A i \in EventIds : table[i] # None => Fits(table[i], i)
    /\ pending = 0
    /\ phase = [c \in Calls |-> "idle"]
    /\ asOf = [c \in Calls |-> 0]
    /\ nowEnabled = [c \in Calls |-> FALSE]
    /\ rows = [c \in Calls |-> {}]
    /\ job = [c \in Calls |-> NoJob]
    /\ handle = None
    /\ online = FALSE
    /\ relay = FALSE
    /\ manual = FALSE
    /\ refused = FALSE

Update(c) == ReadRows(c) \/ NothingToDo(c) \/ StartTask(c) \/ StartTaskThrows(c)

Next ==
    \/ \E c \in Calls : Update(c) \/ Fire(c) \/ StoredThen(c) \/ Hi(c)
    \/ \E i \in EventIds : DeleteEvent(i) \/ \E e \in Rows : PutEvent(i, e)
    \/ Bye
    \/ \E on \in BOOLEAN : SwitchByHand(on)
    \/ Restart
    \/ Tick

Spec == Init /\ [][Next]_vars

-----------------------------------------------------------------------------
(* The device is connected and nothing about its schedule is under way. *)
Calm == online /\ pending = 0 /\ Outstanding = {}

Settled == Calm /\ ~refused

Armed == {c \in Calls : phase[c] = "armed"}

Quiet == Settled /\ \A c \in Armed : job[c].date > clock

Wanted == \E e \in Stored : Selected(e, clock) /\ ActiveAt(e, clock)

(***************************************************************************)
(* No change of the table is lost.  However calls of updateForDevice       *)
(* overlap, once all have finished and while some row is still selected,   *)
(* a live job is what the code decides from the table as it is now.        *)
(***************************************************************************)
NoLostUpdate ==
    Settled /\ SelectedRows(clock) # {} =>
       \E c \in Armed : job[c] \in Decisions(SelectedRows(asOf[c]), asOf[c])

(* The starts and ends ahead of a row, as the calendar shows them. *)
EdgesAhead(e) ==
    {x \in UNION {{Shift(e, n).start, Shift(e, n).end} :
                     n \in {m \in DaysTo(e, clock) : Shown(e, m)}} : x > clock}

EdgesCovered == \A e \in SelectedRows(clock) : \A x \in EdgesAhead(e) :
                   \E c \in Armed : job[c].date <= x

(***************************************************************************)
(* For every start and end that lies ahead, of every row that the query    *)
(* still selects, some job fires no later than that, and its call of       *)
(* updateForDevice looks again: no start and no end is slept through.      *)
(***************************************************************************)
NoMissedEdge == Settled => EdgesCovered

(***************************************************************************)
(* nowEnabled is what the code takes for "the device is on": while _jobs   *)
(* names a job that will switch off, a connected device that no user has   *)
(* switched is on, so a call that cancels the job can switch it off.       *)
(***************************************************************************)
HandleTellsRelay ==
    online /\ WasEnabled /\ ~manual => relay

(***************************************************************************)
(* With one call at a time a device never has two jobs: _stopTask cancels  *)
(* the only one.                                                           *)
(***************************************************************************)
OneJob == \A c \in Armed : c = handle

(***************************************************************************)
(* What the README promises: while an event is due the device is on, once  *)
(* the code has dealt with all that happened, through lost connections,    *)
(* restarts of either side and late timers.                                *)
(***************************************************************************)
OnWhenDue == Quiet /\ ~manual /\ Wanted => relay

(***************************************************************************)
(* The same as NoMissedEdge without the exemption of calls whose .then     *)
(* threw: the device goes on "in accordance with a given schedule, without *)
(* manual operations" (README).                                            *)
(***************************************************************************)
ScheduleGoesOn == Calm => EdgesCovered
=============================================================================
