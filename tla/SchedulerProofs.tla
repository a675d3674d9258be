-------------------------- MODULE SchedulerProofs --------------------------
(***************************************************************************)
(* Proofs about Scheduler, for every table of events, any number of        *)
(* overlapping calls of updateForDevice and every bound.                   *)
(*                                                                         *)
(* The inductive invariant behind NoLostUpdate is Fresh: while the device  *)
(* is connected, no .then threw and every write has had its call, some     *)
(* call is current.  A current call has yet to read the table, or read     *)
(* what the table still holds, or holds a job decided from that.  Only the *)
(* handle's job is ever cancelled, and by a call that is itself current.   *)
(*                                                                         *)
(* From NoLostUpdate follow, by what Repeating decides, NoMissedEdge and,  *)
(* with calls that do not overlap (Serial), OnWhenDue.                     *)
(*                                                                         *)
(* The last part is about ClosestLoop: the two loops over the occurrences  *)
(* of a repeating event compute what Repeating says they compute, for      *)
(* every event, every length of a day and every instant.  What recursion   *)
(* on the days would have to be proved by induction for is there an        *)
(* invariant of the iterations.                                            *)
(***************************************************************************)
EXTENDS Scheduler, ClosestLoop, FiniteSetTheorems, TLAPS

Current(c) ==
    \/ phase[c] = "asked"
    \/ phase[c] = "answered" /\ rows[c] = SelectedRows(asOf[c])
    \/ phase[c] = "armed"
       /\ job[c] \in Decisions(SelectedRows(asOf[c]), asOf[c])

Fresh == online /\ ~refused /\ pending = 0 =>
            \/ \E c \in Calls : Current(c)
            \/ SelectedRows(clock) = {}

AsOfPast == \A c \in Calls : asOf[c] <= clock

HandleArmed == handle # None => phase[handle] = "armed"

IInv == TypeOK /\ AsOfPast /\ HandleArmed /\ Fresh

-----------------------------------------------------------------------------
(* Facts about the calendar arithmetic. *)

(* Moving an occurrence by whole days keeps it a pair of instants. *)
LEMMA ShiftType ==
    ASSUME NEW e \in EventRows, NEW n \in Nat
    PROVE  Shift(e, n) \in Portion
<1>1. n * DayTicks \in Nat
  BY RepeatingAssumption
<1>2. /\ e.start + n * DayTicks \in Nat
      /\ e.end + n * DayTicks \in Nat
  BY <1>1 DEF EventRows
<1> QED
  BY <1>2 DEF Shift, Portion

(* The scheduler always works with a pair of instants. *)
LEMMA ClosestDateType ==
    ASSUME NEW e \in EventRows, NEW t \in Nat
    PROVE  ClosestDate(e, t) \in Portion
<1> DEFINE Days == DaysTo(e, t)
           Stop == {n \in Days :
                      /\ ~SchedulerPasses(e, Shift(e, n), t)
                      /\ \A m \in Days :
                             m < n => SchedulerPasses(e, Shift(e, m), t)}
           Later == {n \in Stop : n > 0 /\ Shift(e, n).end > t}
<1>1. Own(e) \in Portion
  BY DEF Own, Portion, EventRows
<1>2. CASE e.repeating = "None" \/ Later = {}
  <2>1. ClosestDate(e, t) = Own(e)
    BY <1>2 DEF ClosestDate
  <2> QED
    BY <1>1, <2>1
<1>3. CASE ~(e.repeating = "None" \/ Later = {})
  <2> DEFINE n == CHOOSE k \in Later : TRUE
  <2>1. n \in Later
    BY <1>3
  <2>2. Later \subseteq DaysTo(e, t)
    OBVIOUS
  <2>3. n \in Nat
    <3>1. \A k \in DaysTo(e, t) : k \in 0..(t + LongestGap(e))
      BY DEF DaysTo
    <3>2. LongestGap(e) \in Nat
      BY DEF LongestGap, EventRows, Repetitions, Spacing
    <3> HIDE DEF Later, n
    <3>3. n \in 0..(t + LongestGap(e))
      BY <2>1, <2>2, <3>1
    <3> QED
      BY <3>2, <3>3
  <2>4. ClosestDate(e, t) = Shift(e, n)
    BY <1>3 DEF ClosestDate
  <2> HIDE DEF n
  <2> QED
    BY <2>3, <2>4, ShiftType
<1> QED
  BY <1>2, <1>3

(* A decision is a date and a mode. *)
LEMMA DecisionsType ==
    ASSUME NEW R \in SUBSET Rows, NEW t \in Nat
    PROVE  Decisions(R, t) \subseteq Jobs
<1>1. \A e \in R : ClosestDate(e, t) \in Portion
  BY SchedulerAssumption, ClosestDateType
<1>2. \A p \in Portion : Edge(p, t) \in Jobs
  BY DEF Edge, Portion, Jobs
<1>3. \A e \in R : Edge(ClosestDate(e, t), t) \in Jobs
  BY <1>1, <1>2
<1> QED
  BY <1>3 DEF Decisions

(* Time only removes rows from what the query selects. *)
LEMMA SelectedShrinks ==
    ASSUME NEW e \in EventRows, NEW t \in Nat, NEW u \in Nat, t <= u,
           Selected(e, u)
    PROVE  Selected(e, t)
<1>1. CASE e.repeating = "None"
  BY <1>1 DEF Selected, EventRows
<1>2. CASE e.repeating # "None" /\ e.until = Forever
  BY <1>2 DEF Selected, StillRepeats
<1>3. CASE e.repeating # "None" /\ e.until # Forever
  <2>1. e.until \in Nat
    BY <1>3 DEF EventRows
  <2> QED
    BY <1>3, <2>1 DEF Selected, StillRepeats
<1> QED
  BY <1>1, <1>2, <1>3

(* The same for the rows of the table. *)
LEMMA SelectedRowsShrink ==
    ASSUME TypeOK, NEW t \in Nat, NEW u \in Nat, t <= u
    PROVE  SelectedRows(u) \subseteq SelectedRows(t)
<1>1. Stored \subseteq EventRows
  BY SchedulerAssumption DEF Stored, TypeOK
<1> QED
  BY <1>1, SelectedShrinks DEF SelectedRows
-----------------------------------------------------------------------------
(* Type correctness. *)

(* The part of a call up to its query keeps the types of its variables. *)
LEMMA UpdateForDeviceType ==
    ASSUME TypeOK, NEW c \in Calls, UpdateForDevice(c)
    PROVE  /\ phase' \in [Calls -> Phases]
           /\ asOf' \in [Calls -> Nat]
           /\ nowEnabled' \in [Calls -> BOOLEAN]
           /\ rows' \in [Calls -> SUBSET Rows]
           /\ job' \in [Calls -> Jobs]
           /\ handle' \in Calls \cup {None}
           /\ refused' \in BOOLEAN
<1>1. NoJob \in Jobs
  BY DEF NoJob, Jobs
<1>2. WasEnabled \in BOOLEAN
  BY DEF WasEnabled
<1>3. phase' \in [Calls -> Phases]
  BY DEF TypeOK, UpdateForDevice, Phases
<1>4. asOf' \in [Calls -> Nat]
  BY DEF TypeOK, UpdateForDevice
<1>5. nowEnabled' \in [Calls -> BOOLEAN]
  BY <1>2 DEF TypeOK, UpdateForDevice
<1>6. job' \in [Calls -> Jobs]
  BY <1>1 DEF TypeOK, UpdateForDevice
<1> QED
  BY <1>3, <1>4, <1>5, <1>6 DEF TypeOK, UpdateForDevice

(* The model starts in a typed state and every step leads to one. *)
LEMMA TypeInit == Init => TypeOK
<1> SUFFICES ASSUME Init PROVE TypeOK
  OBVIOUS
<1>1. NoJob \in Jobs
  BY DEF NoJob, Jobs
<1>2. table \in [EventIds -> Rows \cup {None}]
  BY DEF Init
<1>3. phase \in [Calls -> Phases] /\ job \in [Calls -> Jobs]
  BY <1>1 DEF Init, Phases
<1>4. /\ asOf \in [Calls -> Nat] /\ nowEnabled \in [Calls -> BOOLEAN]
      /\ rows \in [Calls -> SUBSET Rows]
  BY DEF Init
<1>5. /\ clock \in Nat /\ pending \in Nat /\ handle \in Calls \cup {None}
      /\ online \in BOOLEAN /\ relay \in BOOLEAN
      /\ manual \in BOOLEAN /\ refused \in BOOLEAN
  BY DEF Init
<1> QED
  BY <1>2, <1>3, <1>4, <1>5 DEF TypeOK

(* Every step keeps the types: one step of the proof per action. *)
LEMMA TypeNext == TypeOK /\ [Next]_vars => TypeOK'
<1> SUFFICES ASSUME TypeOK, [Next]_vars PROVE TypeOK'
  OBVIOUS
<1>1. NoJob \in Jobs
  BY DEF NoJob, Jobs
<1>2. ASSUME NEW c \in Calls, ReadRows(c) PROVE TypeOK'
  <2>1. SelectedRows(asOf[c]) \subseteq Rows
    BY DEF SelectedRows, Stored, TypeOK
  <2> QED
    BY <1>2, <2>1 DEF TypeOK, ReadRows, envVars, Phases
<1>3. ASSUME NEW c \in Calls, NothingToDo(c) PROVE TypeOK'
  BY <1>3 DEF TypeOK, NothingToDo, Finish, envVars, Phases
<1>4. ASSUME NEW c \in Calls, StartTask(c) PROVE TypeOK'
  <2>1. PICK d \in Decisions(rows[c], asOf[c]) :
           job' = [job EXCEPT ![c] = d] /\ CommandNow(c, d)
    BY <1>4 DEF StartTask
  <2>2. d \in Jobs
    BY <2>1, DecisionsType DEF TypeOK
  <2>3. relay' \in BOOLEAN /\ manual' \in BOOLEAN
    BY <2>1 DEF TypeOK, CommandNow, Send
  <2> QED
    BY <1>4, <2>1, <2>2, <2>3 DEF TypeOK, StartTask, envVars, Phases
<1>5. ASSUME NEW c \in Calls, StartTaskThrows(c) PROVE TypeOK'
  BY <1>5 DEF TypeOK, StartTaskThrows, Finish, envVars, Phases
<1>6. ASSUME NEW c \in Calls, Fire(c) PROVE TypeOK'
  <2>1. job[c].enable \in BOOLEAN
    BY DEF TypeOK, Jobs
  <2>2. relay' \in BOOLEAN /\ manual' \in BOOLEAN
    BY <1>6, <2>1 DEF Fire, Send, TypeOK
  <2>3. UpdateForDevice(c)
    BY <1>6 DEF Fire
  <2> QED
    BY <1>6, <2>2, <2>3, UpdateForDeviceType DEF TypeOK, Fire, envVars
<1>7. ASSUME NEW c \in Calls, StoredThen(c) PROVE TypeOK'
  <2>1. UpdateForDevice(c)
    BY <1>7 DEF StoredThen
  <2> QED
    BY <1>7, <2>1, UpdateForDeviceType DEF TypeOK, StoredThen
<1>8. ASSUME NEW c \in Calls, Hi(c) PROVE TypeOK'
  <2>1. UpdateForDevice(c)
    BY <1>8 DEF Hi
  <2> QED
    BY <1>8, <2>1, UpdateForDeviceType DEF TypeOK, Hi
<1>9. ASSUME NEW i \in EventIds, NEW e \in Rows, PutEvent(i, e) PROVE TypeOK'
  BY <1>9 DEF TypeOK, PutEvent, callVars
<1>10. ASSUME NEW i \in EventIds, DeleteEvent(i) PROVE TypeOK'
  BY <1>10 DEF TypeOK, DeleteEvent, callVars
<1>11. CASE Bye
  BY <1>11 DEF TypeOK, Bye, callVars
<1>12. ASSUME NEW on \in BOOLEAN, SwitchByHand(on) PROVE TypeOK'
  BY <1>12 DEF TypeOK, SwitchByHand, envVars, callVars
<1>13. CASE Restart
  BY <1>1, <1>13 DEF TypeOK, Restart, Phases
<1>14. CASE Tick
  BY <1>14 DEF TypeOK, Tick, envVars, callVars
<1>15. CASE UNCHANGED vars
  BY <1>15 DEF TypeOK, vars, envVars, callVars
<1> QED
  BY <1>2, <1>3, <1>4, <1>5, <1>6, <1>7, <1>8, <1>9, <1>10, <1>11, <1>12,
     <1>13, <1>14, <1>15 DEF Next, Update

(* Every state of the scheduler is typed. *)
THEOREM TypeCorrect == Spec => []TypeOK
<1> QED
  BY TypeInit, TypeNext, PTL DEF Spec
-----------------------------------------------------------------------------
(* No update is lost. *)

(* A call that just began is current, and it cancelled an armed call. *)
LEMMA BeginIsFresh ==
    ASSUME NEW c \in Calls, TypeOK, UpdateForDevice(c)
    PROVE  phase'[c] = "asked" /\ Fresh'
<1>1. phase'[c] = "asked"
  BY DEF UpdateForDevice
<1> QED
  BY <1>1 DEF Fresh, Current

(* A call that begins does so at the present instant; no other call's      *)
(* instant moves forward.                                                  *)
LEMMA BeginKeepsPast ==
    ASSUME NEW c \in Calls, TypeOK, AsOfPast, UpdateForDevice(c), clock' = clock
    PROVE  AsOfPast'
BY DEF UpdateForDevice, AsOfPast, TypeOK

(* Where the table, the clock and a call do not change, the call stays     *)
(* current.                                                                *)
LEMMA StaysCurrent ==
    ASSUME NEW c \in Calls, Current(c), UNCHANGED table,
           phase'[c] = phase[c], rows'[c] = rows[c],
           asOf'[c] = asOf[c], job'[c] = job[c]
    PROVE  Current(c)'
<1>1. (SelectedRows(asOf[c]))' = SelectedRows(asOf[c])
  BY DEF SelectedRows, Stored
<1>2. (Decisions(SelectedRows(asOf[c]), asOf[c]))'
         = Decisions(SelectedRows(asOf[c]), asOf[c])
  BY <1>1 DEF Decisions
<1> QED
  BY <1>1, <1>2 DEF Current

(* The invariant holds where the server starts: nobody is connected. *)
LEMMA FreshInit == Init => AsOfPast /\ HandleArmed /\ Fresh
BY DEF Init, AsOfPast, HandleArmed, Fresh

(* Every step keeps the invariant: a change of the table leaves a call to  *)
(* come, and a call that begins is current.                                *)
LEMMA FreshNext == IInv /\ [Next]_vars => (AsOfPast /\ HandleArmed /\ Fresh)'
<1> SUFFICES ASSUME IInv, [Next]_vars
             PROVE  AsOfPast' /\ HandleArmed' /\ Fresh'
  OBVIOUS
<1> USE DEF IInv
<1>1. ASSUME NEW c \in Calls, ReadRows(c) PROVE AsOfPast' /\ HandleArmed' /\ Fresh'
  <2>1. AsOfPast' /\ HandleArmed'
    BY <1>1 DEF AsOfPast, HandleArmed, ReadRows, TypeOK
  <2>2. Current(c)'
    <3>1. rows'[c] = SelectedRows(asOf[c]) /\ phase'[c] = "answered"
      BY <1>1 DEF ReadRows, TypeOK
    <3>2. (SelectedRows(asOf[c]))' = SelectedRows(asOf[c])
      BY <1>1 DEF ReadRows, envVars, SelectedRows, Stored
    <3> QED
      BY <3>1, <3>2 DEF Current
  <2> QED
    BY <2>1, <2>2 DEF Fresh
<1>2. ASSUME NEW c \in Calls, NothingToDo(c) PROVE AsOfPast' /\ HandleArmed' /\ Fresh'
  <2>1. AsOfPast' /\ HandleArmed'
    BY <1>2 DEF AsOfPast, HandleArmed, NothingToDo, Finish, TypeOK
  <2>2. SelectedRows(clock)' = SelectedRows(clock)
    BY <1>2 DEF NothingToDo, envVars, SelectedRows, Stored
  <2>3. Current(c) => SelectedRows(clock) = {}
    <3>1. SelectedRows(clock) \subseteq SelectedRows(asOf[c])
      BY SelectedRowsShrink DEF AsOfPast, TypeOK
    <3> QED
      BY <1>2, <3>1 DEF NothingToDo, Current
  <2>4. ASSUME NEW x \in Calls \ {c}, Current(x) PROVE Current(x)'
    BY <1>2, <2>4, StaysCurrent DEF NothingToDo, Finish, envVars, TypeOK
  <2> QED
    BY <1>2, <2>1, <2>2, <2>3, <2>4 DEF Fresh, NothingToDo, envVars
<1>3. ASSUME NEW c \in Calls, StartTask(c) PROVE AsOfPast' /\ HandleArmed' /\ Fresh'
  <2>1. AsOfPast' /\ HandleArmed'
    BY <1>3 DEF AsOfPast, HandleArmed, StartTask, TypeOK
  <2>2. SelectedRows(clock)' = SelectedRows(clock)
    BY <1>3 DEF StartTask, envVars, SelectedRows, Stored
  <2>3. Current(c) => Current(c)'
    <3>1. /\ phase'[c] = "armed" /\ asOf'[c] = asOf[c]
          /\ job'[c] \in Decisions(rows[c], asOf[c])
      BY <1>3 DEF StartTask, TypeOK
    <3>2. (SelectedRows(asOf[c]))' = SelectedRows(asOf[c])
      BY <1>3 DEF StartTask, envVars, SelectedRows, Stored
    <3>3. (Decisions(SelectedRows(asOf[c]), asOf[c]))'
             = Decisions(SelectedRows(asOf[c]), asOf[c])
      BY <1>3, <3>2 DEF StartTask, Decisions
    <3> QED
      BY <1>3, <3>1, <3>2, <3>3 DEF StartTask, Current
  <2>4. ASSUME NEW x \in Calls \ {c}, Current(x) PROVE Current(x)'
    BY <1>3, <2>4, StaysCurrent DEF StartTask, envVars, TypeOK
  <2> QED
    BY <1>3, <2>1, <2>2, <2>3, <2>4 DEF Fresh, StartTask, envVars
<1>4. ASSUME NEW c \in Calls, StartTaskThrows(c) PROVE AsOfPast' /\ HandleArmed' /\ Fresh'
  BY <1>4 DEF AsOfPast, HandleArmed, StartTaskThrows, Finish, Fresh, TypeOK
<1>5. ASSUME NEW c \in Calls, UpdateForDevice(c), clock' = clock
      PROVE  AsOfPast' /\ HandleArmed' /\ Fresh'
  <2>1. HandleArmed'
    BY <1>5 DEF UpdateForDevice, HandleArmed
  <2> QED
    BY <1>5, <2>1, BeginIsFresh, BeginKeepsPast
<1>6. ASSUME NEW c \in Calls, Fire(c) \/ StoredThen(c) \/ Hi(c)
      PROVE  AsOfPast' /\ HandleArmed' /\ Fresh'
  BY <1>5, <1>6 DEF Fire, StoredThen, Hi
<1>7. ASSUME NEW i \in EventIds,
             DeleteEvent(i) \/ \E e \in Rows : PutEvent(i, e)
      PROVE  AsOfPast' /\ HandleArmed' /\ Fresh'
  BY <1>7 DEF AsOfPast, HandleArmed, Fresh, DeleteEvent, PutEvent, callVars,
              TypeOK
<1>8. CASE Bye
  BY <1>8 DEF AsOfPast, HandleArmed, Fresh, Bye, callVars
<1>9. ASSUME UNCHANGED <<callVars, table, pending, online>>, clock' = clock
      PROVE  AsOfPast' /\ HandleArmed' /\ Fresh'
  <2>1. \A c \in Calls : Current(c) => Current(c)'
    BY <1>9, StaysCurrent DEF callVars
  <2>2. SelectedRows(clock)' = SelectedRows(clock)
    BY <1>9 DEF SelectedRows, Stored
  <2> QED
    BY <1>9, <2>1, <2>2 DEF AsOfPast, HandleArmed, Fresh, callVars
<1>10. ASSUME NEW on \in BOOLEAN, SwitchByHand(on)
       PROVE  AsOfPast' /\ HandleArmed' /\ Fresh'
  BY <1>9, <1>10 DEF SwitchByHand, envVars
<1>11. CASE Restart
  BY <1>11 DEF AsOfPast, HandleArmed, Fresh, Restart, TypeOK
<1>12. CASE Tick
  <2>1. \A c \in Calls : Current(c) => Current(c)'
    BY <1>12, StaysCurrent DEF Tick, envVars, callVars
  <2>2. SelectedRows(clock)' \subseteq SelectedRows(clock)
    <3>1. SelectedRows(clock)' = SelectedRows(clock + 1)
      BY <1>12 DEF Tick, envVars, SelectedRows, Stored
    <3>2. clock + 1 \in Nat /\ clock \in Nat /\ clock <= clock + 1
      BY DEF TypeOK
    <3> QED
      BY <3>1, <3>2, SelectedRowsShrink
  <2>3. AsOfPast' /\ HandleArmed'
    BY <1>12 DEF AsOfPast, HandleArmed, Tick, callVars, TypeOK
  <2> QED
    BY <1>12, <2>1, <2>2, <2>3 DEF Fresh, Tick, envVars, callVars
<1>13. CASE UNCHANGED vars
  BY <1>9, <1>13 DEF vars
<1> QED
  BY <1>1, <1>2, <1>3, <1>4, <1>6, <1>7, <1>8, <1>10, <1>11, <1>12, <1>13
     DEF Next, Update

(* When nothing is under way, the call that is current has armed its job.  *)
LEMMA FreshImplies == IInv => NoLostUpdate
<1> SUFFICES ASSUME IInv, Settled, SelectedRows(clock) # {}
             PROVE  \E c \in Armed :
                       job[c] \in Decisions(SelectedRows(asOf[c]), asOf[c])
  BY DEF NoLostUpdate
<1>1. PICK c \in Calls : Current(c)
  BY DEF IInv, Fresh, Settled, Calm
<1>2. phase[c] \notin {"asked", "answered"}
  BY DEF Settled, Calm, Outstanding, Waiting
<1> QED
  BY <1>1, <1>2 DEF Current, Armed

(***************************************************************************)
(* No change of the table is lost, however the calls overlap.              *)
(***************************************************************************)
THEOREM NoUpdateIsLost == Spec => []NoLostUpdate
<1>1. Init => IInv
  BY TypeInit, FreshInit DEF IInv
<1>2. IInv /\ [Next]_vars => IInv'
  BY TypeNext, FreshNext DEF IInv
<1> QED
  BY <1>1, <1>2, FreshImplies, PTL DEF Spec
-----------------------------------------------------------------------------
(* What _jobs says of the relay. *)

(* A call that begins leaves no handle, so nothing is claimed. *)
LEMMA BeginTellsNothing ==
    ASSUME NEW c \in Calls, UpdateForDevice(c)
    PROVE  HandleTellsRelay'
BY DEF UpdateForDevice, HandleTellsRelay, WasEnabled

(* Every step keeps HandleTellsRelay: a handle that will switch off is     *)
(* named together with the command that switches on.                       *)
LEMMA HandleTellsRelayNext ==
    TypeOK /\ HandleTellsRelay /\ [Next]_vars => HandleTellsRelay'
<1> SUFFICES ASSUME TypeOK, HandleTellsRelay, [Next]_vars
             PROVE  HandleTellsRelay'
  OBVIOUS
<1>1. ASSUME NEW c \in Calls, Fire(c) \/ StoredThen(c) \/ Hi(c)
      PROVE  HandleTellsRelay'
  BY <1>1, BeginTellsNothing DEF Fire, StoredThen, Hi
<1>2. ASSUME NEW c \in Calls, StartTask(c) PROVE HandleTellsRelay'
  <2>1. PICK d \in Decisions(rows[c], asOf[c]) :
           job' = [job EXCEPT ![c] = d] /\ CommandNow(c, d)
    BY <1>2 DEF StartTask
  <2>2. handle' = c /\ job'[c] = d /\ online' = online
    BY <1>2, <2>1 DEF StartTask, envVars, TypeOK
  <2>3. CASE ~d.enable
    BY <2>1, <2>2, <2>3 DEF CommandNow, Send, HandleTellsRelay, WasEnabled
  <2>4. CASE d.enable
    BY <2>2, <2>4 DEF HandleTellsRelay, WasEnabled
  <2> QED
    BY <2>3, <2>4
<1>3. ASSUME NEW c \in Calls, ReadRows(c) \/ NothingToDo(c)
      PROVE  HandleTellsRelay'
  BY <1>3 DEF ReadRows, NothingToDo, HandleTellsRelay, WasEnabled, envVars
<1>4. ASSUME NEW c \in Calls, StartTaskThrows(c) PROVE HandleTellsRelay'
  BY <1>4 DEF StartTaskThrows, HandleTellsRelay, WasEnabled
<1>5. ASSUME NEW i \in EventIds,
             DeleteEvent(i) \/ \E e \in Rows : PutEvent(i, e)
      PROVE  HandleTellsRelay'
  BY <1>5 DEF DeleteEvent, PutEvent, HandleTellsRelay, WasEnabled, callVars
<1>6. CASE Bye
  BY <1>6 DEF Bye, HandleTellsRelay
<1>7. ASSUME NEW on \in BOOLEAN, SwitchByHand(on) PROVE HandleTellsRelay'
  BY <1>7 DEF SwitchByHand, HandleTellsRelay
<1>8. CASE Restart
  BY <1>8 DEF Restart, HandleTellsRelay
<1>9. CASE Tick
  BY <1>9 DEF Tick, HandleTellsRelay, WasEnabled, envVars, callVars
<1>10. CASE UNCHANGED vars
  BY <1>10 DEF vars, HandleTellsRelay, WasEnabled, envVars, callVars
<1> QED
  BY <1>1, <1>2, <1>3, <1>4, <1>5, <1>6, <1>7, <1>8, <1>9, <1>10
     DEF Next, Update

(***************************************************************************)
(* While _jobs names a job that will switch off, a connected device that   *)
(* no user has switched is on.                                             *)
(***************************************************************************)
THEOREM HandleIsTrue == Spec => []HandleTellsRelay
<1>1. Init => TypeOK /\ HandleTellsRelay
  BY TypeInit DEF Init, HandleTellsRelay
<1>2. TypeOK /\ HandleTellsRelay /\ [Next]_vars => (TypeOK /\ HandleTellsRelay)'
  BY TypeNext, HandleTellsRelayNext
<1> QED
  BY <1>1, <1>2, PTL DEF Spec

-----------------------------------------------------------------------------
(* No start and no end of a single event is slept through. *)

NoMissedSingleEdge ==
    Settled => \A e \in SelectedRows(clock) :
                  e.repeating = "None" =>
                     \A x \in {e.start, e.end} :
                        x > clock => \E c \in Armed : job[c].date <= x

(* Seen from an earlier instant, the next edge of a single event is no     *)
(* later than any edge that is still ahead.                                *)
LEMMA SingleEdge ==
    ASSUME NEW e \in EventRows, e.repeating = "None", e.start <= e.end,
           NEW t \in Nat, NEW u \in Nat, t <= u,
           NEW x \in {e.start, e.end}, x > u
    PROVE  Edge(ClosestDate(e, t), t).date <= x
<1>1. ClosestDate(e, t) = Own(e)
  BY DEF ClosestDate
<1>2. e.start \in Nat /\ e.end \in Nat
  BY DEF EventRows
<1> QED
  BY <1>1, <1>2 DEF Edge, Own

(***************************************************************************)
(* If users store events that start before they end, then once all calls   *)
(* have finished a job is armed no later than each start and end ahead of  *)
(* each single event.                                                      *)
(***************************************************************************)
THEOREM NoSingleEdgeIsMissed ==
    ASSUME \A e \in Rows : e.start <= e.end
    PROVE  Spec => []NoMissedSingleEdge
<1>1. ASSUME IInv PROVE NoMissedSingleEdge
  <2> SUFFICES ASSUME Settled, NEW e \in SelectedRows(clock),
                      e.repeating = "None",
                      NEW x \in {e.start, e.end}, x > clock
               PROVE  \E c \in Armed : job[c].date <= x
    BY DEF NoMissedSingleEdge
  <2>1. e \in Rows /\ e \in EventRows
    BY <1>1, SchedulerAssumption DEF SelectedRows, Stored, IInv, TypeOK
  <2>2. PICK c \in Armed :
           job[c] \in Decisions(SelectedRows(asOf[c]), asOf[c])
    BY <1>1, FreshImplies DEF NoLostUpdate
  <2>3. asOf[c] \in Nat /\ clock \in Nat /\ asOf[c] <= clock
    BY <1>1 DEF IInv, TypeOK, AsOfPast, Armed
  <2>4. e \in SelectedRows(asOf[c])
    BY <1>1, <2>3, SelectedRowsShrink DEF IInv
  <2>5. job[c].date <= Edge(ClosestDate(e, asOf[c]), asOf[c]).date
    BY <2>2, <2>4 DEF Decisions
  <2>6. Edge(ClosestDate(e, asOf[c]), asOf[c]).date <= x
    BY <2>1, <2>3, SingleEdge
  <2>7. job[c].date \in Nat
    BY <1>1 DEF IInv, TypeOK, Jobs, Armed
  <2>8. Edge(ClosestDate(e, asOf[c]), asOf[c]).date \in Nat
    <3>1. ClosestDate(e, asOf[c]) \in Portion
      BY <2>1, <2>3, ClosestDateType
    <3> QED
      BY <3>1 DEF Edge, Portion
  <2>9. x \in Nat
    BY <2>1 DEF EventRows
  <2> QED
    BY <2>5, <2>6, <2>7, <2>8, <2>9
<1>2. Init => IInv
  BY TypeInit, FreshInit DEF IInv
<1>3. IInv /\ [Next]_vars => IInv'
  BY TypeNext, FreshNext DEF IInv
<1> QED
  BY <1>1, <1>2, <1>3, PTL DEF Spec
-----------------------------------------------------------------------------
(* No start and no end of any event is slept through. *)

(* Users store events that begin before they end, and an occurrence is     *)
(* over when the next one of the same event begins.                        *)
Apart(e) ==
    \A m, n \in Nat :
       m < n /\ OccursOn(e, m) /\ OccursOn(e, n)
          => Shift(e, m).end <= Shift(e, n).start

(* A later day shifts no less. *)
LEMMA ShiftOrder ==
    ASSUME NEW e \in EventRows, NEW m \in Nat, NEW n \in Nat, m <= n
    PROVE  /\ Shift(e, m).start <= Shift(e, n).start
           /\ Shift(e, m).end <= Shift(e, n).end
<1>1. m * DayTicks \in Nat /\ n * DayTicks \in Nat /\ (n - m) * DayTicks \in Nat
  BY RepeatingAssumption
<1>2. n * DayTicks = m * DayTicks + (n - m) * DayTicks
  BY RepeatingAssumption
<1> QED
  BY <1>1, <1>2 DEF Shift, EventRows

(* The search ends at an occurrence that the calendar shows, and has left  *)
(* every earlier one behind, over and done.                                *)
LEMMA ClosestIsShown ==
    ASSUME NEW e \in EventRows, NEW t \in Nat
    PROVE  \E k \in DaysTo(e, t) :
              /\ Shown(e, k)
              /\ ClosestDate(e, t) = Shift(e, k)
              /\ \A m \in 0..(k - 1) : OccursOn(e, m) => Shift(e, m).end < t
<1> DEFINE Days == DaysTo(e, t)
           Stop == {n \in Days :
                      /\ ~SchedulerPasses(e, Shift(e, n), t)
                      /\ \A m \in Days :
                             m < n => SchedulerPasses(e, Shift(e, m), t)}
           Later == {n \in Stop : n > 0 /\ Shift(e, n).end > t}
<1>1. LongestGap(e) \in Nat
  BY DEF LongestGap, EventRows, Repetitions, Spacing
<1>2. CASE e.repeating = "None" \/ Later = {}
  <2>1. ClosestDate(e, t) = Own(e)
    BY <1>2 DEF ClosestDate
  <2>2. Own(e) = Shift(e, 0)
    BY RepeatingAssumption DEF Own, Shift, EventRows
  <2>3. 0 \in DaysTo(e, t)
    BY <1>1 DEF DaysTo, OccursOn
  <2>4. \A m \in 0..(0 - 1) : FALSE
    OBVIOUS
  <2>5. Shown(e, 0)
    BY <2>4 DEF Shown, OccursOn
  <2> QED
    BY <2>1, <2>2, <2>3, <2>4, <2>5
<1>3. CASE ~(e.repeating = "None" \/ Later = {})
  <2> DEFINE k == CHOOSE n \in Later : TRUE
  <2>1. k \in Later
    BY <1>3
  <2>2. ClosestDate(e, t) = Shift(e, k)
    BY <1>3 DEF ClosestDate
  <2>3. \A n \in Later : /\ n \in Days
                          /\ \A m \in Days : m < n => SchedulerPasses(e, Shift(e, m), t)
    OBVIOUS
  <2> HIDE DEF k, Later, Stop
  <2>4. k \in DaysTo(e, t) /\ \A m \in Days : m < k => SchedulerPasses(e, Shift(e, m), t)
    BY <2>1, <2>3
  <2>5. k \in 0..(t + LongestGap(e)) /\ OccursOn(e, k)
    BY <2>4 DEF DaysTo
  <2>6. ASSUME NEW m \in 0..(k - 1), OccursOn(e, m)
        PROVE  SchedulerPasses(e, Shift(e, m), t)
    <3>1. m \in 0..(t + LongestGap(e)) /\ m < k
      BY <1>1, <2>5
    <3> QED
      BY <2>4, <2>6, <3>1 DEF DaysTo
  <2>7. Shown(e, k)
    BY <2>5, <2>6 DEF Shown, SchedulerPasses
  <2>8. \A m \in 0..(k - 1) : OccursOn(e, m) => Shift(e, m).end < t
    BY <2>6 DEF SchedulerPasses
  <2> QED
    BY <2>2, <2>4, <2>7, <2>8
<1> QED
  BY <1>2, <1>3

(* Seen from an earlier instant, the edge the scheduler goes for is no     *)
(* later than any edge of the event that is still ahead.                   *)
LEMMA EdgeInTime ==
    ASSUME NEW e \in EventRows, e.start <= e.end, Apart(e),
           NEW t \in Nat, NEW u \in Nat, t <= u,
           NEW n \in DaysTo(e, u),
           NEW x \in {Shift(e, n).start, Shift(e, n).end}, x > u
    PROVE  Edge(ClosestDate(e, t), t).date <= x
<1>1. PICK k \in DaysTo(e, t) :
         /\ ClosestDate(e, t) = Shift(e, k)
         /\ \A m \in 0..(k - 1) : OccursOn(e, m) => Shift(e, m).end < t
  BY ClosestIsShown
<1>2. LongestGap(e) \in Nat
  BY DEF LongestGap, EventRows, Repetitions, Spacing
<1>3. k \in Nat /\ OccursOn(e, k) /\ n \in Nat /\ OccursOn(e, n)
  BY <1>2 DEF DaysTo
<1>4. Shift(e, k) \in Portion /\ Shift(e, n) \in Portion
  BY <1>3, ShiftType
<1>5. Shift(e, n).start <= Shift(e, n).end
  BY <1>3, RepeatingAssumption DEF Shift, EventRows
<1>6. k <= n
  <2>1. ASSUME n < k PROVE FALSE
    <3>1. Shift(e, n).end < t
      BY <1>1, <1>3, <2>1
    <3> QED
      BY <1>4, <1>5, <3>1 DEF Portion
  <2> QED
    BY <1>3, <2>1
<1>7. CASE Shift(e, k).start > t
  <2>1. Edge(Shift(e, k), t).date = Shift(e, k).start
    BY <1>7 DEF Edge
  <2>2. Shift(e, k).start <= Shift(e, n).start
    BY <1>3, <1>6, ShiftOrder
  <2> QED
    BY <1>1, <1>4, <1>5, <2>1, <2>2 DEF Portion
<1>8. CASE ~(Shift(e, k).start > t)
  <2>1. Edge(Shift(e, k), t).date = Shift(e, k).end
    BY <1>8 DEF Edge
  <2>2. CASE k = n
    BY <1>1, <1>4, <1>8, <2>1, <2>2 DEF Portion
  <2>3. CASE k # n
    <3>1. Shift(e, k).end <= Shift(e, n).start
      BY <1>3, <1>6, <2>3 DEF Apart
    <3> QED
      BY <1>1, <1>4, <1>5, <2>1, <3>1 DEF Portion
  <2> QED
    BY <2>2, <2>3
<1> QED
  BY <1>7, <1>8

(* A job decided from the table as it is now is due no later than any edge *)
(* ahead of a selected row.                                                *)
LEMMA JobInTime ==
    ASSUME IInv, NEW e \in SelectedRows(clock), e.start <= e.end, Apart(e),
           NEW c \in Armed,
           job[c] \in Decisions(SelectedRows(asOf[c]), asOf[c]),
           NEW n \in DaysTo(e, clock),
           NEW x \in {Shift(e, n).start, Shift(e, n).end}, x > clock
    PROVE  job[c].date <= x
<1>1. e \in Rows /\ e \in EventRows
  BY SchedulerAssumption DEF SelectedRows, Stored, IInv, TypeOK
<1>2. asOf[c] \in Nat /\ clock \in Nat /\ asOf[c] <= clock
  BY DEF IInv, TypeOK, AsOfPast, Armed
<1>3. e \in SelectedRows(asOf[c])
  BY <1>2, SelectedRowsShrink DEF IInv
<1>4. job[c].date <= Edge(ClosestDate(e, asOf[c]), asOf[c]).date
  BY <1>3 DEF Decisions
<1>5. Edge(ClosestDate(e, asOf[c]), asOf[c]).date <= x
  BY <1>1, <1>2, EdgeInTime
<1>6. job[c].date \in Nat
  BY DEF IInv, TypeOK, Jobs, Armed
<1>7. Edge(ClosestDate(e, asOf[c]), asOf[c]).date \in Nat
  <2>1. ClosestDate(e, asOf[c]) \in Portion
    BY <1>1, <1>2, ClosestDateType
  <2> QED
    BY <2>1 DEF Edge, Portion
<1>8. x \in Nat
  <2>1. n \in Nat
    <3>1. LongestGap(e) \in Nat
      BY <1>1 DEF LongestGap, EventRows, Repetitions, Spacing
    <3> QED
      BY <1>2, <3>1 DEF DaysTo
  <2>2. Shift(e, n) \in Portion
    BY <1>1, <2>1, ShiftType
  <2> QED
    BY <2>2 DEF Portion
<1> QED
  BY <1>4, <1>5, <1>6, <1>7, <1>8

(***************************************************************************)
(* Whatever repetitions, and however calls of updateForDevice overlap: once*)
(* all have finished, every start and end ahead has a job that fires no    *)
(* later, if the occurrences of each single event follow one another.      *)
(***************************************************************************)
THEOREM NoEdgeIsMissed ==
    ASSUME \A e \in Rows : e.start <= e.end /\ Apart(e)
    PROVE  Spec => []NoMissedEdge
<1>1. ASSUME IInv PROVE NoMissedEdge
  <2> SUFFICES ASSUME Settled, NEW e \in SelectedRows(clock),
                      NEW x \in EdgesAhead(e)
               PROVE  \E c \in Armed : job[c].date <= x
    BY DEF NoMissedEdge, EdgesCovered
  <2>1. e \in Rows
    BY <1>1 DEF SelectedRows, Stored, IInv, TypeOK
  <2>2. PICK n \in DaysTo(e, clock) :
           x \in {Shift(e, n).start, Shift(e, n).end} /\ x > clock
    BY DEF EdgesAhead
  <2>3. PICK c \in Armed :
           job[c] \in Decisions(SelectedRows(asOf[c]), asOf[c])
    BY <1>1, FreshImplies DEF NoLostUpdate
  <2> QED
    BY <1>1, <2>1, <2>2, <2>3, JobInTime
<1>2. Init => IInv
  BY TypeInit, FreshInit DEF IInv
<1>3. IInv /\ [Next]_vars => IInv'
  BY TypeNext, FreshNext DEF IInv
<1> QED
  BY <1>1, <1>2, <1>3, PTL DEF Spec
-----------------------------------------------------------------------------
(* One call of updateForDevice at a time. *)

(* OneJob is not inductive: a call that waits for its query will arm a job,*)
(* so there must be no other call that waits, and no job.                  *)
Serial ==
    /\ OneJob
    /\ \A c \in Calls : Waiting(c) =>
          /\ handle = None
          /\ \A d \in Calls : phase[d] # "armed" /\ (Waiting(d) => d = c)

(* A call begins only when none is waiting. *)
LEMMA CallsWait ==
    ASSUME MaxOutstanding <= 1, Serial, NEW c \in Calls, MayCall(c)
    PROVE  \A d \in Calls : ~Waiting(d)
<1>1. ASSUME NEW d \in Calls, Waiting(d) PROVE FALSE
  <2>1. Outstanding = {d}
    BY <1>1 DEF Outstanding, Serial
  <2>2. Cardinality(Outstanding) = 1
    BY <2>1, FS_Singleton
  <2>3. MaxOutstanding \in Nat
    BY SchedulerAssumption DEF SchedulerAssumption
  <2> QED
    BY <2>2, <2>3 DEF MayCall
<1> QED
  BY <1>1

(* A call that begins cancels the only job. *)
LEMMA BeginIsSerial ==
    ASSUME TypeOK, Serial, NEW c \in Calls, UpdateForDevice(c),
           \A d \in Calls : ~Waiting(d)
    PROVE  Serial'
<1>1. /\ phase'[c] = "asked" /\ handle' = None
      /\ \A d \in Calls \ {c} : phase'[d] = IF d = handle THEN "idle" ELSE phase[d]
  BY DEF UpdateForDevice
<1>2. \A d \in Calls \ {c} : phase'[d] \notin {"asked", "answered", "armed"}
  BY <1>1 DEF Serial, OneJob, Armed, Waiting, TypeOK, Phases
<1> QED
  BY <1>1, <1>2 DEF Serial, OneJob, Armed, Waiting

(* Every step keeps Serial. *)
LEMMA SerialNext ==
    ASSUME MaxOutstanding <= 1, TypeOK, Serial, [Next]_vars
    PROVE  Serial'
<1>1. ASSUME NEW c \in Calls, ReadRows(c) PROVE Serial'
  <2>1. /\ Waiting(c) /\ phase'[c] = "answered" /\ handle' = handle
        /\ \A d \in Calls \ {c} : phase'[d] = phase[d]
    BY <1>1 DEF ReadRows, Waiting, TypeOK
  <2> QED
    BY <2>1 DEF Serial, OneJob, Armed, Waiting
<1>2. ASSUME NEW c \in Calls, NothingToDo(c) \/ StartTaskThrows(c) PROVE Serial'
  <2>1. /\ Waiting(c) /\ phase'[c] = "idle"
        /\ \A d \in Calls \ {c} : phase'[d] = phase[d]
    BY <1>2 DEF NothingToDo, StartTaskThrows, Finish, Waiting, TypeOK
  <2> QED
    BY <2>1 DEF Serial, OneJob, Armed, Waiting
<1>3. ASSUME NEW c \in Calls, StartTask(c) PROVE Serial'
  <2>1. /\ Waiting(c) /\ phase'[c] = "armed" /\ handle' = c
        /\ \A d \in Calls \ {c} : phase'[d] = phase[d]
    BY <1>3 DEF StartTask, Waiting, TypeOK
  <2> QED
    BY <2>1 DEF Serial, OneJob, Armed, Waiting
<1>4. ASSUME NEW c \in Calls, Fire(c) PROVE Serial'
  <2>1. \A d \in Calls : ~Waiting(d)
    BY <1>4 DEF Fire, Serial
  <2> QED
    BY <1>4, <2>1, BeginIsSerial DEF Fire
<1>5. ASSUME NEW c \in Calls, StoredThen(c) \/ Hi(c) PROVE Serial'
  <2>1. UpdateForDevice(c) /\ \A d \in Calls : ~Waiting(d)
    BY <1>5, CallsWait DEF StoredThen, Hi
  <2> QED
    BY <2>1, BeginIsSerial
<1>6. ASSUME UNCHANGED callVars PROVE Serial'
  BY <1>6 DEF callVars, Serial, OneJob, Armed, Waiting
<1>7. ASSUME NEW i \in EventIds,
             DeleteEvent(i) \/ \E e \in Rows : PutEvent(i, e)
      PROVE  Serial'
  BY <1>6, <1>7 DEF DeleteEvent, PutEvent
<1>8. CASE Bye \/ (\E on \in BOOLEAN : SwitchByHand(on)) \/ Tick \/ UNCHANGED vars
  BY <1>6, <1>8 DEF Bye, SwitchByHand, Tick, vars
<1>9. CASE Restart
  BY <1>9 DEF Restart, Serial, OneJob, Armed, Waiting
<1> QED
  BY <1>1, <1>2, <1>3, <1>4, <1>5, <1>7, <1>8, <1>9 DEF Next, Update

LEMMA SerialInit == Init => Serial
BY DEF Init, Serial, OneJob, Armed, Waiting

(***************************************************************************)
(* If calls of updateForDevice do not overlap, a device never has a job    *)
(* besides the one _jobs names, so _stopTask cancels all there is.         *)
(***************************************************************************)
THEOREM NeverTwoJobs ==
    ASSUME MaxOutstanding <= 1
    PROVE  Spec => []OneJob
<1>1. Init => TypeOK /\ Serial
  BY TypeInit, SerialInit
<1>2. TypeOK /\ Serial /\ [Next]_vars => (TypeOK /\ Serial)'
  BY TypeNext, SerialNext
<1>3. Serial => OneJob
  BY DEF Serial
<1> QED
  BY <1>1, <1>2, <1>3, PTL DEF Spec
-----------------------------------------------------------------------------
(* On while an event is due. *)

(* Events of the device are kept apart by PutEvent, and the clock stops at *)
(* Horizon.                                                                *)
Disjoint ==
    /\ clock <= Horizon
    /\ \A i, j \in EventIds :
          i # j /\ table[i] # None /\ table[j] # None => ~Clash(table[i], table[j])

LEMMA DisjointInit == Init => Disjoint
<1> SUFFICES ASSUME Init PROVE Disjoint
  OBVIOUS
<1>1. clock <= Horizon
  BY SchedulerAssumption DEF Init
<1>2. \A i, j \in EventIds :
         i # j /\ table[i] # None /\ table[j] # None => ~Clash(table[i], table[j])
  BY DEF Init, Fits
<1> QED
  BY <1>1, <1>2 DEF Disjoint

LEMMA DisjointNext ==
    ASSUME TypeOK, Disjoint, [Next]_vars
    PROVE  Disjoint'
<1>1. ASSUME UNCHANGED <<clock, table>> PROVE Disjoint'
  BY <1>1 DEF Disjoint
<1>2. ASSUME NEW c \in Calls, Update(c) \/ Fire(c) \/ StoredThen(c) \/ Hi(c)
      PROVE  Disjoint'
  BY <1>1, <1>2 DEF Update, ReadRows, NothingToDo, StartTask, StartTaskThrows, Fire,
                    StoredThen, Hi, envVars
<1>3. ASSUME NEW i \in EventIds, NEW e \in Rows, PutEvent(i, e) PROVE Disjoint'
  <2>1. clock' = clock /\ table' = [table EXCEPT ![i] = e] /\ Fits(e, i)
    BY <1>3 DEF PutEvent
  <2>2. ASSUME NEW j \in EventIds, NEW k \in EventIds, j # k,
               table'[j] # None, table'[k] # None
        PROVE  ~Clash(table'[j], table'[k])
    <3>1. CASE j = i
      BY <2>1, <2>2, <3>1 DEF Fits, TypeOK
    <3>2. CASE k = i
      BY <2>1, <2>2, <3>2 DEF Fits, TypeOK
    <3>3. CASE j # i /\ k # i
      BY <2>1, <2>2, <3>3 DEF Disjoint, TypeOK
    <3> QED
      BY <3>1, <3>2, <3>3
  <2> QED
    BY <2>1, <2>2 DEF Disjoint
<1>4. ASSUME NEW i \in EventIds, DeleteEvent(i) PROVE Disjoint'
  <2>1. clock' = clock /\ table' = [table EXCEPT ![i] = None]
    BY <1>4 DEF DeleteEvent
  <2>2. \A j \in EventIds : table'[j] # None => table'[j] = table[j]
    BY <2>1 DEF TypeOK
  <2>3. ASSUME NEW j \in EventIds, NEW k \in EventIds, j # k,
               table'[j] # None, table'[k] # None
        PROVE  ~Clash(table'[j], table'[k])
    BY <2>2, <2>3 DEF Disjoint
  <2> QED
    BY <2>1, <2>3 DEF Disjoint
<1>5. CASE Bye \/ (\E on \in BOOLEAN : SwitchByHand(on)) \/ Restart \/ UNCHANGED vars
  BY <1>1, <1>5 DEF Bye, SwitchByHand, Restart, vars, envVars
<1>6. CASE Tick
  <2>1. clock' = clock + 1 /\ clock < Horizon /\ table' = table
    BY <1>6 DEF Tick, envVars
  <2>2. clock' <= Horizon
    BY <2>1, SchedulerAssumption DEF TypeOK
  <2> QED
    BY <2>1, <2>2 DEF Disjoint
<1> QED
  BY <1>2, <1>3, <1>4, <1>5, <1>6 DEF Next

(* The bound on the clock cuts no occurrence short of its end by more than *)
(* a tick, so that Clash sees all of it.                                   *)
EndsInTime(e) ==
    \A n \in Nat :
       OccursOn(e, n) /\ Shift(e, n).start <= Horizon => Shift(e, n).end <= Horizon + 1

(* While an event is under way the scheduler is not on its way to the      *)
(* start of one: it would have to begin before the one under way ends.     *)
LEMMA NextIsAnEnd ==
    ASSUME MinGap >= 1,
           \A r \in Rows : r.start < r.end /\ Apart(r) /\ EndsInTime(r),
           IInv, Disjoint, Wanted,
           NEW c \in Armed, job[c].date > clock,
           job[c] \in Decisions(SelectedRows(asOf[c]), asOf[c])
    PROVE  ~job[c].enable
<1> DEFINE t == asOf[c]
<1>1. t \in Nat /\ clock \in Nat /\ t <= clock /\ Horizon \in Nat /\ clock <= Horizon
  BY SchedulerAssumption DEF IInv, TypeOK, AsOfPast, Armed, Disjoint
<1>2. PICK e \in Stored : Selected(e, clock) /\ ActiveAt(e, clock)
  BY DEF Wanted
<1>3. PICK n \in DaysTo(e, clock) :
         Shown(e, n) /\ Shift(e, n).start <= clock /\ clock < Shift(e, n).end
  BY <1>2 DEF ActiveAt
<1>4. PICK f \in SelectedRows(t) : job[c] = Edge(ClosestDate(f, t), t)
  BY DEF Decisions
<1>5. PICK i \in EventIds : e = table[i] /\ table[i] # None
  BY DEF Stored
<1>6. PICK j \in EventIds : f = table[j] /\ table[j] # None
  BY DEF SelectedRows, Stored
<1>7. e \in Rows /\ f \in Rows /\ e \in EventRows /\ f \in EventRows
  BY <1>5, <1>6, SchedulerAssumption DEF IInv, TypeOK
<1>8. PICK k \in DaysTo(f, t) :
         /\ Shown(f, k) /\ ClosestDate(f, t) = Shift(f, k)
         /\ \A m \in 0..(k - 1) : OccursOn(f, m) => Shift(f, m).end < t
  BY <1>1, <1>7, ClosestIsShown
<1>9. LongestGap(e) \in Nat /\ LongestGap(f) \in Nat
  BY <1>7 DEF LongestGap, EventRows, Repetitions, Spacing
<1>10. n \in Nat /\ k \in Nat /\ OccursOn(e, n) /\ n <= clock + LongestGap(e)
       /\ k <= t + LongestGap(f) /\ OccursOn(f, k)
  BY <1>1, <1>3, <1>8, <1>9 DEF DaysTo
<1>11. Shift(e, n) \in Portion /\ Shift(f, k) \in Portion
  BY <1>7, <1>10, ShiftType
<1> DEFINE s == Shift(f, k).start
<1>12. s \in Nat /\ Shift(e, n).end \in Nat /\ Shift(e, n).start \in Nat /\ Shift(f, k).end \in Nat
  BY <1>11 DEF Portion
<1>13. s < Shift(f, k).end
  BY <1>7, <1>10, RepeatingAssumption DEF Shift, EventRows
<1>14. job[c].date <= Shift(e, n).end
  <2>1. e \in SelectedRows(clock)
    BY <1>2 DEF SelectedRows
  <2>2. e.start <= e.end /\ Apart(e)
    BY <1>7 DEF EventRows
  <2> QED
    BY <1>3, <2>1, <2>2, JobInTime
<1>15. SUFFICES ASSUME job[c].enable PROVE FALSE
  OBVIOUS
<1>16. clock < s /\ s <= Shift(e, n).end
  BY <1>4, <1>8, <1>12, <1>14, <1>15 DEF Edge
<1>17. CASE i = j
  <2>1. n < k
    <3>1. ASSUME k <= n PROVE FALSE
      <4>1. s <= Shift(e, n).start
        BY <1>5, <1>6, <1>7, <1>10, <1>17, <3>1, ShiftOrder
      <4> QED
        BY <1>1, <1>3, <1>12, <1>16, <4>1
    <3> QED
      BY <1>10, <3>1
  <2>2. n \in 0..(k - 1) /\ OccursOn(f, n)
    BY <1>5, <1>6, <1>10, <1>17, <2>1
  <2>3. Shift(e, n).end < t
    BY <1>5, <1>6, <1>8, <1>17, <2>2
  <2> QED
    BY <1>1, <1>3, <1>12, <2>3
<1>18. CASE i # j
  <2>1. Shift(e, n).end <= Horizon + 1
    BY <1>1, <1>3, <1>7, <1>10, <1>12 DEF EndsInTime
  <2>2. s - 1 \in 0..Horizon
    BY <1>1, <1>12, <1>16, <2>1
  <2>3. ActiveAt(e, s - 1)
    <3>1. n \in DaysTo(e, s - 1)
      BY <1>1, <1>9, <1>10, <1>12, <1>16 DEF DaysTo
    <3>2. Shift(e, n).start <= s - 1 /\ s - 1 < Shift(e, n).end
      BY <1>1, <1>3, <1>12, <1>16
    <3> QED
      BY <1>3, <3>1, <3>2 DEF ActiveAt
  <2>4. ActiveAt(f, (s - 1) + 1)
    <3>1. (s - 1) + 1 = s
      BY <1>12
    <3>2. k \in DaysTo(f, s)
      BY <1>1, <1>9, <1>10, <1>12, <1>16 DEF DaysTo
    <3>3. ActiveAt(f, s)
      BY <1>8, <1>12, <1>13, <3>2 DEF ActiveAt
    <3> QED
      BY <3>1, <3>3
  <2>5. 1 \in 0..MinGap
    BY SchedulerAssumption
  <2>6. Clash(e, f)
    BY <2>2, <2>3, <2>4, <2>5 DEF Clash
  <2> QED
    BY <1>5, <1>6, <1>18, <2>6 DEF Disjoint
<1> QED
  BY <1>17, <1>18

(***************************************************************************)
(* If events of the device neither overlap nor touch, and calls of         *)
(* updateForDevice do not overlap, then a connected device on whose        *)
(* schedule all has been dealt with is on while an event is due: through   *)
(* lost connections, restarts of either side, late timers and changes of   *)
(* the table, for every kind of repetition.                                *)
(***************************************************************************)
THEOREM DueMeansOn ==
    ASSUME MaxOutstanding <= 1, MinGap >= 1,
           \A e \in Rows : e.start < e.end /\ Apart(e) /\ EndsInTime(e)
    PROVE  Spec => []OnWhenDue
<1> DEFINE DInv == IInv /\ Serial /\ Disjoint /\ HandleTellsRelay
<1>1. Init => DInv
  BY TypeInit, FreshInit, SerialInit, DisjointInit DEF IInv, Init, HandleTellsRelay
<1>2. DInv /\ [Next]_vars => DInv'
  BY TypeNext, FreshNext, SerialNext, DisjointNext, HandleTellsRelayNext DEF IInv
<1>3. DInv => OnWhenDue
  <2> SUFFICES ASSUME DInv, Quiet, ~manual, Wanted
               PROVE  relay
    BY DEF OnWhenDue
  <2>1. SelectedRows(clock) # {}
    BY DEF Wanted, SelectedRows
  <2>2. PICK c \in Armed : job[c] \in Decisions(SelectedRows(asOf[c]), asOf[c])
    BY <2>1, FreshImplies DEF NoLostUpdate, Quiet
  <2>3. job[c].date > clock
    BY DEF Quiet
  <2>4. ~job[c].enable
    BY <2>2, <2>3, NextIsAnEnd
  <2>5. handle = c
    BY DEF Serial, OneJob
  <2>6. WasEnabled
    BY <2>4, <2>5, SchedulerAssumption DEF WasEnabled, Armed
  <2> QED
    BY <2>6 DEF HandleTellsRelay, Quiet, Settled, Calm
<1> HIDE DEF DInv
<1> QED
  BY <1>1, <1>2, <1>3, PTL DEF Spec
-----------------------------------------------------------------------------
(* The loops over the occurrences of a repeating event. *)

(* Moving an occurrence by whole days moves both its dates alike. *)
LEMMA ShiftIs ==
  ASSUME NEW e \in EventRows, NEW n \in Nat
  PROVE  /\ Shift(e, n) \in Portion
         /\ Shift(e, n).start = e.start + n * DayTicks
         /\ Shift(e, n).end = e.end + n * DayTicks
         /\ n * DayTicks \in Nat
<1>1. n * DayTicks \in Nat
  BY RepeatingAssumption
<1>2. QED  BY <1>1, ShiftType DEF Shift

(* Each day is a tick at least. *)
LEMMA DaysAreTicks ==
  ASSUME NEW e \in EventRows, NEW n \in Nat, NEW t \in Nat, Shift(e, n).start < t
  PROVE  n < t
<1>1. n * DayTicks \in Nat /\ n <= n * DayTicks
  BY RepeatingAssumption
<1>2. QED  BY <1>1 DEF Shift, EventRows

(* Shifting twice. *)
LEMMA ShiftShift ==
  ASSUME NEW e \in EventRows, NEW m \in Nat, NEW n \in Nat
  PROVE  Shift(Shift(e, m), n) = Shift(e, m + n)
<1>1. m * DayTicks \in Nat /\ n * DayTicks \in Nat
      /\ (m + n) * DayTicks = m * DayTicks + n * DayTicks
  BY RepeatingAssumption
<1>2. QED  BY <1>1 DEF Shift, EventRows

(* The days of the week follow one another. *)
LEMMA WeekdayShift ==
  ASSUME NEW s \in Nat, NEW n \in Nat
  PROVE  /\ s \div DayTicks \in Nat
         /\ Weekday(s + n * DayTicks) = (s \div DayTicks + n) % 7
<1>1. /\ s \div DayTicks \in Nat
      /\ (s + n * DayTicks) \div DayTicks = s \div DayTicks + n
  BY RepeatingAssumption
<1>2. QED  BY <1>1 DEF Weekday

(* A day later it is the next weekday. *)
LEMMA NextWeekday ==
  ASSUME NEW k \in Nat
  PROVE  /\ k % 7 \in 0..6
         /\ (k + 1) % 7 = IF k % 7 = 6 THEN 0 ELSE (k % 7) + 1
  OBVIOUS

(***************************************************************************)
(* addDaysToTimeByRepeating leads from an occurrence to the next one: none *)
(* is skipped, for every period and every weekday.                         *)
(***************************************************************************)
LEMMA NextOccurs ==
  ASSUME NEW e \in EventRows, e.repeating # "None",
         NEW n \in Nat, OccursOn(e, n),
         NEW a, a = AddedDays(Shift(e, n).start, e.repeating)
  PROVE  /\ a \in 1..LongestGap(e)
         /\ OccursOn(e, n + a)
         /\ \A m \in Nat : n < m /\ m < n + a => ~OccursOn(e, m)
<1>1. CASE e.repeating = "WorkingDays"
  <2> DEFINE k == e.start \div DayTicks
             w(i) == (k + i) % 7
  <2>1. \A i \in Nat : k + i \in Nat /\ Weekday(e.start + i * DayTicks) = w(i)
    <3>1. e.start \in Nat
      BY DEF EventRows
    <3>2. TAKE i \in Nat
    <3>3. e.start \div DayTicks \in Nat
      BY <3>1, WeekdayShift
    <3>4. Weekday(e.start + i * DayTicks) = (e.start \div DayTicks + i) % 7
      BY <3>1, WeekdayShift
    <3>5. QED  BY <3>3, <3>4
  <2>2. \A i \in Nat : /\ w(i) \in 0..6
                       /\ w(i + 1) = IF w(i) = 6 THEN 0 ELSE w(i) + 1
    <3> SUFFICES ASSUME NEW i \in Nat
                 PROVE  /\ w(i) \in 0..6
                        /\ w(i + 1) = IF w(i) = 6 THEN 0 ELSE w(i) + 1
      OBVIOUS
    <3>1. k \in Nat
      BY WeekdayShift DEF EventRows
    <3>2. k + i \in Nat /\ k + (i + 1) = (k + i) + 1
      BY <3>1
    <3> HIDE DEF k
    <3>3. QED  BY <3>2, NextWeekday
  <2> HIDE DEF w, k
  <2>3. \A i \in Nat : OccursOn(e, i) <=> i = 0 \/ w(i) \in 1..5
    BY <1>1, <2>1 DEF OccursOn, Spacing
  <2>4. a = IF w(n) >= 5 THEN 8 - w(n) ELSE 1
    BY <1>1, <2>1 DEF AddedDays, Shift
  <2>5. LongestGap(e) = 3
    BY <1>1 DEF LongestGap
  <2>6. n = 0 \/ w(n) \in 1..5
    BY <2>3
  <2>7. CASE w(n) = 5
    <3>1. w(n + 1) = 6 /\ w(n + 2) = 0 /\ w(n + 3) = 1 /\ a = 3
      <4>1. w(n + 1) = 6
        BY <2>2, <2>7
      <4>2. w((n + 1) + 1) = 0
        BY <4>1, <2>2
      <4>3. w(((n + 1) + 1) + 1) = 1
        BY <4>2, <2>2
      <4>4. (n + 1) + 1 = n + 2 /\ ((n + 1) + 1) + 1 = n + 3
        OBVIOUS
      <4>5. QED  BY <4>1, <4>2, <4>3, <4>4, <2>4, <2>7
    <3>2. \A m \in Nat : n < m /\ m < n + 3 => m = n + 1 \/ m = n + 2
      OBVIOUS
    <3>3. QED  BY <3>1, <3>2, <2>3, <2>5
  <2>8. CASE w(n) = 6
    <3>1. w(n + 1) = 0 /\ w(n + 2) = 1 /\ a = 2
      <4>1. w(n + 1) = 0
        BY <2>2, <2>8
      <4>2. w((n + 1) + 1) = 1
        BY <4>1, <2>2
      <4>3. (n + 1) + 1 = n + 2
        OBVIOUS
      <4>4. QED  BY <4>1, <4>2, <4>3, <2>4, <2>8
    <3>2. \A m \in Nat : n < m /\ m < n + 2 => m = n + 1
      OBVIOUS
    <3>3. QED  BY <3>1, <3>2, <2>3, <2>5
  <2>9. CASE w(n) \in 0..4
    <3>1. w(n + 1) \in 1..5 /\ a = 1
      BY <2>2, <2>4, <2>9
    <3>2. QED  BY <3>1, <2>3, <2>5
  <2>10. w(n) \in 0..6
    BY <2>2
  <2>11. QED  BY <2>7, <2>8, <2>9, <2>10
<1>2. CASE e.repeating # "WorkingDays"
  <2> DEFINE d == Spacing[e.repeating]
  <2>1. /\ e.repeating \in DOMAIN Spacing
        /\ d \in {1, 7, 30, 365}
        /\ a = d
        /\ LongestGap(e) = d
    BY <1>2 DEF EventRows, Repetitions, Spacing, AddedDays, LongestGap
  <2>2. \A i \in Nat : OccursOn(e, i) <=> i = 0 \/ i % d = 0
    BY <1>2, <2>1 DEF OccursOn
  <2> HIDE DEF d
  <2>3. n % d = 0
    BY <2>1, <2>2
  <2>4. /\ (n + d) % d = 0
        /\ \A m \in Nat : n < m /\ m < n + d => m # 0 /\ m % d # 0
    <3>1. CASE d = 1
      BY <2>3, <3>1
    <3>2. CASE d = 7
      BY <2>3, <3>2
    <3>3. CASE d = 30
      BY <2>3, <3>3
    <3>4. CASE d = 365
      BY <2>3, <3>4
    <3>5. QED  BY <3>1, <3>2, <3>3, <3>4, <2>1
  <2>5. QED  BY <2>1, <2>2, <2>4
<1>3. QED  BY <1>1, <1>2
-----------------------------------------------------------------------------
(***************************************************************************)
(* Where the loops are: they have reached the occurrence of day n.         *)
(***************************************************************************)
Reached(n) ==
    /\ current = Shift(event, n)
    /\ OccursOn(event, n)

(* Looking for closestDate, everything before day n has been passed. *)
Searched(n) ==
    /\ n \in DaysTo(event, from)
    /\ \A m \in Nat : m < n /\ OccursOn(event, m) =>
                          SchedulerPasses(event, Shift(event, m), from)
    /\ closest = IF n > 0 /\ Shift(event, n).end > from
                 THEN Shift(event, n) ELSE Own(event)

(* Collecting portions, everything up to day n has been looked at. *)
Collected(n) ==
    /\ n \in DaysTo(event, to)
    /\ \A m \in Nat : m < n /\ OccursOn(event, m) =>
                          BeforeUntil(event, Shift(event, m).end)
    /\ portions = {Own(event)} \cup
                  {Shift(event, m) : m \in {i \in 1..n :
                      OccursOn(event, i) /\ Shift(event, i).end > from}}

OnTheWay ==
    \E n \in Nat :
        /\ Reached(n)
        /\ loop \in {"closest", "closest done"} => Searched(n)
        /\ loop \in {"portions", "portions done"} => Collected(n)
        /\ loop = "closest done" => ~Searches
        /\ loop = "portions done" => ~Collects

LoopIInv == LoopTypeOK /\ OnTheWay

(* The first day of an event is an occurrence that both loops start from. *)
LEMMA OwnIsFirst ==
  ASSUME NEW e \in EventRows
  PROVE  Own(e) = Shift(e, 0) /\ Own(e) \in Portion /\ OccursOn(e, 0)
<1>1. 0 * DayTicks = 0 /\ e.start + 0 = e.start /\ e.end + 0 = e.end
  BY RepeatingAssumption DEF EventRows
<1>2. QED  BY <1>1 DEF Own, Shift, OccursOn, Portion, EventRows

LEMMA EventsRepeat ==
  ASSUME NEW e \in Events
  PROVE  e \in EventRows /\ e.repeating # "None" /\ LongestGap(e) \in Nat
<1>1. e \in EventRows /\ e.repeating # "None"
  BY ClosestLoopAssumption
<1>2. QED  BY <1>1 DEF EventRows, Repetitions, LongestGap, Spacing

LEMMA InitOnTheWay == LoopInit => LoopIInv
<1> SUFFICES ASSUME LoopInit PROVE LoopIInv
  OBVIOUS
<1>1. /\ event \in EventRows /\ event.repeating # "None"
      /\ LongestGap(event) \in Nat
  BY EventsRepeat DEF LoopInit
<1>2. /\ Own(event) = Shift(event, 0) /\ Own(event) \in Portion
      /\ OccursOn(event, 0)
  BY <1>1, OwnIsFirst
<1>3. from \in Nat /\ to \in Nat /\ from \in Instants /\ to \in Instants
  BY ClosestLoopAssumption DEF LoopInit
<1>4. LoopTypeOK
  BY <1>2, <1>3 DEF LoopInit, LoopTypeOK
<1>5. Reached(0)
  BY <1>2 DEF Reached, LoopInit
<1>6. Searched(0)
  BY <1>1, <1>2, <1>3 DEF Searched, DaysTo, LoopInit
<1>7. Collected(0)
  <2>1. {i \in 1..0 : OccursOn(event, i) /\ Shift(event, i).end > from} = {}
    OBVIOUS
  <2>2. {Shift(event, m) : m \in {i \in 1..0 :
             OccursOn(event, i) /\ Shift(event, i).end > from}} = {}
    BY <2>1
  <2>3. QED  BY <1>1, <1>2, <1>3, <2>2 DEF Collected, DaysTo, LoopInit
<1>8. loop \in {"closest", "portions"}
  BY DEF LoopInit
<1>9. QED  BY <1>4, <1>5, <1>6, <1>7, <1>8 DEF LoopIInv, OnTheWay

(***************************************************************************)
(* An iteration of either loop goes on to the next occurrence.             *)
(***************************************************************************)
LEMMA StepReaches ==
  ASSUME event \in Events, NEW n \in Nat, Reached(n),
         current' = NextOccurrence(current), event' = event
  PROVE  \E k \in Nat :
           /\ Reached(k)'
           /\ n < k /\ k <= n + LongestGap(event)
           /\ \A m \in Nat : OccursOn(event, m) /\ m < k => m <= n
<1>1. /\ event \in EventRows /\ event.repeating # "None"
      /\ LongestGap(event) \in Nat
  BY EventsRepeat
<1>2. PICK a \in 1..LongestGap(event) :
           /\ a = AddedDays(Shift(event, n).start, event.repeating)
           /\ OccursOn(event, n + a)
           /\ \A m \in Nat : n < m /\ m < n + a => ~OccursOn(event, m)
  BY <1>1, NextOccurs DEF Reached
<1>3. current' = Shift(Shift(event, n), a)
  BY <1>2 DEF Reached, NextOccurrence
<1>4. a \in Nat /\ n + a \in Nat /\ n < n + a /\ n + a <= n + LongestGap(event)
  BY <1>1, <1>2
<1>5. current' = Shift(event, n + a)
  BY <1>1, <1>3, <1>4, ShiftShift
<1>6. Reached(n + a)'
  BY <1>2, <1>5 DEF Reached
<1>7. \A m \in Nat : OccursOn(event, m) /\ m < n + a => m <= n
  BY <1>2, <1>4
<1> DEFINE k == n + a
<1>8. k \in Nat /\ Reached(k)' /\ n < k /\ k <= n + LongestGap(event)
      /\ \A m \in Nat : OccursOn(event, m) /\ m < k => m <= n
  BY <1>4, <1>6, <1>7
<1> HIDE DEF k
<1>9. QED  BY <1>8

LEMMA SearchStepOnTheWay ==
  ASSUME LoopIInv, SearchStep
  PROVE  LoopIInv'
<1>1. /\ event \in EventRows /\ event.repeating # "None"
      /\ LongestGap(event) \in Nat
      /\ event \in Events
  BY EventsRepeat DEF LoopIInv, LoopTypeOK
<1>2. PICK n \in Nat : Reached(n) /\ Searched(n)
  BY DEF LoopIInv, OnTheWay, SearchStep
<1>3. PICK k \in Nat : /\ Reached(k)'
                       /\ n < k /\ k <= n + LongestGap(event)
                       /\ \A m \in Nat : OccursOn(event, m) /\ m < k => m <= n
  BY <1>1, <1>2, StepReaches DEF SearchStep
<1>4. /\ event' = event /\ from' = from /\ to' = to /\ loop' = loop
      /\ portions' = portions /\ loop = "closest"
  BY DEF SearchStep
<1>5. from \in Nat
  BY ClosestLoopAssumption DEF LoopIInv, LoopTypeOK
<1>6. SchedulerPasses(event, Shift(event, n), from)
  BY <1>2 DEF SearchStep, Searches, Reached
<1>7. /\ current' = Shift(event, k) /\ OccursOn(event, k)
      /\ current' \in Portion
  BY <1>1, <1>3, <1>4, ShiftIs DEF Reached
<1>8. n < from
  BY <1>1, <1>5, <1>6, DaysAreTicks DEF SchedulerPasses
<1>9. closest = Own(event)
  <2>1. Shift(event, n).end < from /\ Shift(event, n).end \in Nat
    BY <1>1, <1>6, ShiftIs DEF SchedulerPasses, Portion
  <2>2. ~(Shift(event, n).end > from)
    BY <2>1, <1>5
  <2>3. QED  BY <2>2, <1>2 DEF Searched
<1>10. Searched(k)'
  <2>1. k \in DaysTo(event, from)
    BY <1>1, <1>3, <1>5, <1>7, <1>8 DEF DaysTo
  <2>2. ASSUME NEW m \in Nat, m < k, OccursOn(event, m)
        PROVE  SchedulerPasses(event, Shift(event, m), from)
    <3>1. m <= n
      BY <1>3, <2>2
    <3>2. CASE m = n
      BY <3>2, <1>6
    <3>3. CASE m < n
      BY <3>3, <2>2, <1>2 DEF Searched
    <3>4. QED  BY <3>1, <3>2, <3>3
  <2>3. closest' = IF k > 0 /\ Shift(event, k).end > from
                   THEN Shift(event, k) ELSE Own(event)
    BY <1>3, <1>7, <1>9 DEF SearchStep
  <2>4. QED  BY <1>4, <2>1, <2>2, <2>3 DEF Searched
<1>11. LoopTypeOK'
  <2>1. closest' \in Portion
    BY <1>7 DEF SearchStep, LoopIInv, LoopTypeOK
  <2>2. QED  BY <1>4, <1>7, <2>1 DEF LoopIInv, LoopTypeOK
<1>12. QED  BY <1>3, <1>4, <1>10, <1>11 DEF LoopIInv, OnTheWay

LEMMA CollectStepOnTheWay ==
  ASSUME LoopIInv, CollectStep
  PROVE  LoopIInv'
<1>1. /\ event \in EventRows /\ event.repeating # "None"
      /\ LongestGap(event) \in Nat
      /\ event \in Events
  BY EventsRepeat DEF LoopIInv, LoopTypeOK
<1>2. PICK n \in Nat : Reached(n) /\ Collected(n)
  BY DEF LoopIInv, OnTheWay, CollectStep
<1>3. PICK k \in Nat : /\ Reached(k)'
                       /\ n < k /\ k <= n + LongestGap(event)
                       /\ \A m \in Nat : OccursOn(event, m) /\ m < k => m <= n
  BY <1>1, <1>2, StepReaches DEF CollectStep
<1>4. /\ event' = event /\ from' = from /\ to' = to /\ loop' = loop
      /\ closest' = closest /\ loop = "portions"
  BY DEF CollectStep
<1>5. from \in Nat /\ to \in Nat
  BY ClosestLoopAssumption DEF LoopIInv, LoopTypeOK
<1>6. /\ Shift(event, n).start < to
      /\ BeforeUntil(event, Shift(event, n).end)
  BY <1>2 DEF CollectStep, Collects, Reached
<1>7. /\ current' = Shift(event, k) /\ OccursOn(event, k)
      /\ current' \in Portion
  BY <1>1, <1>3, <1>4, ShiftIs DEF Reached
<1>8. n < to
  BY <1>1, <1>5, <1>6, DaysAreTicks
<1>9. Collected(k)'
  <2>1. k \in DaysTo(event, to)
    BY <1>1, <1>3, <1>5, <1>7, <1>8 DEF DaysTo
  <2>2. ASSUME NEW m \in Nat, m < k, OccursOn(event, m)
        PROVE  BeforeUntil(event, Shift(event, m).end)
    <3>1. m <= n
      BY <1>3, <2>2
    <3>2. CASE m = n
      BY <3>2, <1>6
    <3>3. CASE m < n
      BY <3>3, <2>2, <1>2 DEF Collected
    <3>4. QED  BY <3>1, <3>2, <3>3
  <2> DEFINE Drawn(j) == {i \in 1..j : OccursOn(event, i)
                                       /\ Shift(event, i).end > from}
  <2>3. Drawn(k) = IF Shift(event, k).end > from
                   THEN Drawn(n) \cup {k} ELSE Drawn(n)
    <3>1. ASSUME NEW i \in 1..k, OccursOn(event, i), i # k
          PROVE  i \in 1..n
      BY <1>3, <3>1
    <3>2. 1..n \subseteq 1..k /\ k \in 1..k
      BY <1>3
    <3>3. QED  BY <3>1, <3>2, <1>7
  <2>4. portions = {Own(event)} \cup {Shift(event, m) : m \in Drawn(n)}
    BY <1>2 DEF Collected
  <2>5. portions' = IF Shift(event, k).end > from
                    THEN portions \cup {Shift(event, k)} ELSE portions
    BY <1>7 DEF CollectStep
  <2> HIDE DEF Drawn
  <2>6. portions' = {Own(event)} \cup {Shift(event, m) : m \in Drawn(k)}
    BY <2>3, <2>4, <2>5
  <2>7. QED  BY <1>4, <2>1, <2>2, <2>6 DEF Collected, Drawn
<1>10. LoopTypeOK'
  <2>1. portions' \subseteq Portion
    BY <1>7 DEF CollectStep, LoopIInv, LoopTypeOK
  <2>2. QED  BY <1>4, <1>7, <2>1 DEF LoopIInv, LoopTypeOK
<1>11. QED  BY <1>3, <1>4, <1>9, <1>10 DEF LoopIInv, OnTheWay

LEMMA NextOnTheWay == LoopIInv /\ [LoopNext]_loopVars => LoopIInv'
<1> SUFFICES ASSUME LoopIInv, [LoopNext]_loopVars PROVE LoopIInv'
  OBVIOUS
<1>1. CASE SearchStep
  BY <1>1, SearchStepOnTheWay
<1>2. CASE CollectStep
  BY <1>2, CollectStepOnTheWay
<1>3. CASE Leave
  <2>1. LoopTypeOK'
    BY <1>3 DEF Leave, LoopIInv, LoopTypeOK
  <2>2. OnTheWay'
    BY <1>3 DEF Leave, LoopIInv, OnTheWay, Reached, Searched, Collected, Searches,
                Collects
  <2>3. QED  BY <2>1, <2>2 DEF LoopIInv
<1>4. CASE UNCHANGED loopVars
  BY <1>4 DEF loopVars, LoopIInv, LoopTypeOK, OnTheWay, Reached, Searched, Collected,
              Searches, Collects
<1>5. QED  BY <1>1, <1>2, <1>3, <1>4 DEF LoopNext

LEMMA AlwaysOnTheWay == LoopSpec => []LoopIInv
<1>1. LoopInit => LoopIInv
  BY InitOnTheWay
<1>2. LoopIInv /\ [LoopNext]_loopVars => LoopIInv'
  BY NextOnTheWay
<1>3. QED  BY <1>1, <1>2, PTL DEF LoopSpec
-----------------------------------------------------------------------------
(***************************************************************************)
(* The variables of both loops keep their types, whatever the events.      *)
(***************************************************************************)
THEOREM LoopsAreTyped == LoopSpec => []LoopTypeOK
<1>1. LoopIInv => LoopTypeOK
  BY DEF LoopIInv
<1>2. QED  BY <1>1, AlwaysOnTheWay, PTL

(* Where the search ends is where ClosestDate says. *)
LEMMA SearchEnds ==
  LoopIInv => SearchFindsClosestDate
<1>0. SUFFICES ASSUME LoopIInv, loop = "closest done"
             PROVE  closest = ClosestDate(event, from)
  BY DEF SearchFindsClosestDate
<1>1. /\ event \in EventRows /\ event.repeating # "None"
  BY <1>0, EventsRepeat DEF LoopIInv, LoopTypeOK
<1>2. PICK n \in Nat : Reached(n) /\ Searched(n) /\ ~Searches
  BY <1>0 DEF LoopIInv, OnTheWay
<1> DEFINE Days == DaysTo(event, from)
           Passed(m) == SchedulerPasses(event, Shift(event, m), from)
           Stop == {i \in Days : /\ ~Passed(i)
                                 /\ \A m \in Days : m < i => Passed(m)}
           Later == {i \in Stop : i > 0 /\ Shift(event, i).end > from}
<1>3. n \in Days /\ ~Passed(n)
  BY <1>2 DEF Searched, Reached, Searches
<1>4. \A m \in Days : m \in Nat /\ OccursOn(event, m)
  <2>1. from \in Nat /\ LongestGap(event) \in Nat
    BY <1>0, EventsRepeat, ClosestLoopAssumption DEF LoopIInv, LoopTypeOK
  <2>2. \A m \in 0..(from + LongestGap(event)) : m \in Nat
    BY <2>1
  <2>3. QED  BY <2>2 DEF DaysTo
<1>5. \A m \in Days : m < n => Passed(m)
  BY <1>2, <1>4 DEF Searched
<1>6. ClosestDate(event, from) =
          IF Later = {} THEN Own(event)
          ELSE Shift(event, CHOOSE i \in Later : TRUE)
  BY <1>1 DEF ClosestDate
<1> HIDE DEF Days, Passed
<1>7. Stop = {n}
  <2>1. n \in Stop
    BY <1>3, <1>5
  <2>2. ASSUME NEW i \in Stop PROVE i = n
    <3>1. i \in Nat /\ i \in Days /\ ~Passed(i)
          /\ \A m \in Days : m < i => Passed(m)
      BY <1>4
    <3>2. ~(n < i) /\ ~(i < n)
      BY <3>1, <1>3, <1>5
    <3>3. QED  BY <3>1, <3>2, <1>2
  <2>3. QED  BY <2>1, <2>2
<1> HIDE DEF Stop
<1>8. CASE n > 0 /\ Shift(event, n).end > from
  <2>1. Later = {n}
    BY <1>7, <1>8
  <2>2. (CHOOSE i \in Later : TRUE) = n
    BY <2>1
  <2>3. QED  BY <2>1, <2>2, <1>2, <1>6, <1>8 DEF Searched
<1>9. CASE ~(n > 0 /\ Shift(event, n).end > from)
  <2>1. Later = {}
    BY <1>7, <1>9
  <2>2. QED  BY <2>1, <1>2, <1>6, <1>9 DEF Searched
<1>10. QED  BY <1>8, <1>9

(***************************************************************************)
(* The loop of updateForDevice stops at the occurrence that ClosestDate    *)
(* describes, for every repeating event and every instant it is called at. *)
(***************************************************************************)
THEOREM SearchIsCorrect == LoopSpec => []SearchFindsClosestDate
<1>1. LoopIInv => SearchFindsClosestDate
  BY SearchEnds
<1>2. QED  BY <1>1, AlwaysOnTheWay, PTL

(* What has been collected at the end is what Shown says. *)
LEMMA PageEnds ==
  LoopIInv => PageShowsSchedule
<1>0. SUFFICES ASSUME LoopIInv, loop = "portions done" PROVE PageShowsSchedule
  BY DEF PageShowsSchedule
<1>1. event \in EventRows /\ LongestGap(event) \in Nat /\ to \in Nat
      /\ from \in Nat
  BY <1>0, EventsRepeat, ClosestLoopAssumption DEF LoopIInv, LoopTypeOK
<1>2. PICK n \in Nat : Reached(n) /\ Collected(n) /\ ~Collects
  BY <1>0 DEF LoopIInv, OnTheWay
<1> DEFINE Touches(m) == Shift(event, m).end > from
                         /\ Shift(event, m).start < to
           Touching == {Shift(event, m) : m \in {i \in ShownDays(to) :
                                                    Touches(i)}}
           Drawn == {i \in 1..n : OccursOn(event, i)
                                  /\ Shift(event, i).end > from}
<1>3. portions = {Own(event)} \cup {Shift(event, m) : m \in Drawn}
  BY <1>2 DEF Collected
<1>4. Own(event) = Shift(event, 0)
  BY <1>1, OwnIsFirst
<1>5. \A m \in ShownDays(to) :
         m \in Nat /\ OccursOn(event, m) /\ Shown(event, m)
  <2>1. \A m \in 0..(to + LongestGap(event)) : m \in Nat
    BY <1>1
  <2>2. QED  BY <2>1 DEF ShownDays, DaysTo
<1>6. ASSUME NEW m \in ShownDays(to), Touches(m)
      PROVE  Shift(event, m) \in portions
  <2>1. m \in Nat /\ OccursOn(event, m) /\ Shown(event, m)
    BY <1>5
  <2>2. m <= n
    <3>1. SUFFICES ASSUME n < m PROVE FALSE
      BY <2>1, <1>2
    <3>2. BeforeUntil(event, Shift(event, n).end)
      <4>1. n \in 0..(m - 1)
        BY <3>1, <2>1, <1>2
      <4>2. QED  BY <4>1, <2>1, <1>2 DEF Shown, Reached
    <3>3. ~(Shift(event, n).start < to)
      BY <3>2, <1>2 DEF Collects, Reached
    <3>4. Shift(event, n).start <= Shift(event, m).start
      <4>1. n <= m
        BY <3>1, <2>1, <1>2
      <4>2. QED  BY <4>1, <1>1, <1>2, <2>1, ShiftOrder
    <3>5. Shift(event, n).start \in Nat /\ Shift(event, m).start \in Nat
      BY <1>1, <1>2, <2>1, ShiftIs DEF Portion
    <3>6. Shift(event, m).start < to
      BY <1>6
    <3>7. QED  BY <1>1, <3>3, <3>4, <3>5, <3>6
  <2>3. CASE m = 0
    BY <2>3, <1>3, <1>4
  <2>4. CASE m # 0
    <3>1. m \in Drawn
      BY <2>1, <2>2, <2>4, <1>6, <1>2
    <3>2. QED  BY <3>1, <1>3
  <2>5. QED  BY <2>3, <2>4
<1>7. ASSUME NEW p \in portions, p \notin Touching
      PROVE  p = Own(event) \/ p.start >= to
  <2>1. SUFFICES ASSUME p # Own(event) PROVE p.start >= to
    OBVIOUS
  <2>2. PICK m \in Drawn : p = Shift(event, m)
    BY <2>1, <1>3
  <2>3. m \in 1..n /\ m \in Nat /\ OccursOn(event, m)
        /\ Shift(event, m).end > from
    BY <2>2, <1>2
  <2>4. Shown(event, m)
    <3>1. ASSUME NEW i \in 0..(m - 1), OccursOn(event, i)
          PROVE  BeforeUntil(event, Shift(event, i).end)
      BY <3>1, <2>3, <1>2 DEF Collected
    <3>2. QED  BY <3>1, <2>3 DEF Shown
  <2>5. m \in DaysTo(event, to)
    <3>1. n <= to + LongestGap(event)
      BY <1>2, <1>1 DEF Collected, DaysTo
    <3>2. QED  BY <3>1, <2>3, <1>1 DEF DaysTo
  <2>6. ~(Shift(event, m).start < to)
    <3>1. m \in ShownDays(to)
      BY <2>4, <2>5 DEF ShownDays
    <3>2. QED  BY <3>1, <2>2, <2>3, <1>7
  <2>7. Shift(event, m).start \in Nat
    BY <1>1, <2>3, ShiftIs DEF Portion
  <2>8. QED  BY <2>2, <2>6, <2>7, <1>1
<1> HIDE DEF Drawn
<1>8. Touching \subseteq portions
  BY <1>6
<1>9. \A p \in portions \ Touching : p = Own(event) \/ p.start >= to
  BY <1>7
<1>10. QED  BY <1>8, <1>9 DEF PageShowsSchedule

(***************************************************************************)
(* The loop of GET /api/events collects the occurrences that Shown says,   *)
(* as far as they touch the page, and none besides that begins on it.      *)
(***************************************************************************)
THEOREM PageIsCorrect == LoopSpec => []PageShowsSchedule
<1>1. LoopIInv => PageShowsSchedule
  BY PageEnds
<1>2. QED  BY <1>1, AlwaysOnTheWay, PTL

(* What the search has passed is over, and what it found is shown. *)
LEMMA EarliestFound ==
  ASSUME \A e \in Events : e.start <= e.end
  PROVE  LoopIInv => ClosestIsTheEarliest
<1>0. SUFFICES ASSUME LoopIInv, loop = "closest done" PROVE ClosestIsTheEarliest
  BY DEF ClosestIsTheEarliest
<1>1. /\ event \in EventRows /\ LongestGap(event) \in Nat /\ from \in Nat
      /\ event.start <= event.end
  BY <1>0, EventsRepeat, ClosestLoopAssumption DEF LoopIInv, LoopTypeOK
<1>2. PICK n \in Nat : Reached(n) /\ Searched(n) /\ ~Searches
  BY <1>0 DEF LoopIInv, OnTheWay
<1> DEFINE Occurrences == {Shift(event, m) : m \in ShownDays(from)}
           Ahead == {p \in Occurrences : p.end > from}
<1>3. Own(event) = Shift(event, 0)
  BY <1>1, OwnIsFirst
<1>4. \A m \in ShownDays(from) :
         m \in Nat /\ OccursOn(event, m) /\ Shown(event, m)
  <2>1. \A m \in 0..(from + LongestGap(event)) : m \in Nat
    BY <1>1
  <2>2. QED  BY <2>1 DEF ShownDays, DaysTo
<1>5. n \in ShownDays(from) /\ 0 \in ShownDays(from)
  <2>1. Shown(event, n)
    <3>1. ASSUME NEW i \in 0..(n - 1), OccursOn(event, i)
          PROVE  BeforeUntil(event, Shift(event, i).end)
      BY <3>1, <1>2 DEF Searched, SchedulerPasses
    <3>2. QED  BY <3>1, <1>2 DEF Shown, Reached
  <2>2. Shown(event, 0)
    BY DEF Shown, OccursOn
  <2>3. 0 \in DaysTo(event, from)
    BY <1>1 DEF DaysTo, OccursOn
  <2>4. QED  BY <2>1, <2>2, <2>3, <1>2 DEF ShownDays, Searched
<1>6. closest \in Occurrences
  <2>1. closest = Shift(event, n) \/ closest = Shift(event, 0)
    BY <1>2, <1>3 DEF Searched
  <2>2. QED  BY <2>1, <1>5
<1>7. ASSUME NEW m \in ShownDays(from), Shift(event, m).end > from
      PROVE  m \in Nat /\ n <= m
  <2>1. m \in Nat /\ OccursOn(event, m)
    BY <1>4
  <2>2. SUFFICES ASSUME m < n PROVE FALSE
    BY <2>1
  <2>3. Shift(event, m).end < from
    BY <2>1, <2>2, <1>2 DEF Searched, SchedulerPasses
  <2>4. Shift(event, m).end \in Nat
    BY <2>1, <1>1, ShiftIs DEF Portion
  <2>5. QED  BY <2>3, <2>4, <1>7, <1>1
<1>8. ASSUME closest.end > from, NEW p \in Ahead
      PROVE  closest.start <= p.start
  <2>1. PICK m \in ShownDays(from) : p = Shift(event, m)
    OBVIOUS
  <2>2. m \in Nat /\ n <= m
    BY <2>1, <1>7
  <2>3. CASE closest = Shift(event, n)
    BY <2>1, <2>2, <2>3, <1>1, ShiftOrder
  <2>4. CASE closest = Shift(event, 0)
    BY <2>1, <2>2, <2>4, <1>1, ShiftOrder
  <2>5. QED  BY <2>3, <2>4, <1>2, <1>3 DEF Searched
<1>9. ASSUME closest.end <= from, Ahead # {}
      PROVE  \E p \in Occurrences : p.end = from
  <2>1. PICK m \in ShownDays(from) : Shift(event, m).end > from
    BY <1>9
  <2>2. m \in Nat /\ n <= m
    BY <2>1, <1>7
  <2>3. /\ Shift(event, n).end \in Nat /\ Shift(event, n).start \in Nat
        /\ Shift(event, n).start <= Shift(event, n).end
        /\ Shift(event, m).end \in Nat
    <3>1. Shift(event, n).start = event.start + n * DayTicks
          /\ Shift(event, n).end = event.end + n * DayTicks
          /\ n * DayTicks \in Nat
      BY <1>1, ShiftIs
    <3>2. event.start \in Nat /\ event.end \in Nat
      BY <1>1 DEF EventRows
    <3>3. /\ Shift(event, n).start \in Nat /\ Shift(event, n).end \in Nat
          /\ Shift(event, m).end \in Nat
      BY <1>1, <2>2, ShiftIs DEF Portion
    <3>4. Shift(event, n).start <= Shift(event, n).end
      BY <1>1, <3>1, <3>2
    <3>5. QED  BY <3>3, <3>4
  <2>4. Shift(event, n).end <= from
    <3>1. CASE n = 0
      BY <3>1, <1>2, <1>3, <1>9 DEF Searched
    <3>2. CASE n # 0
      <4>1. CASE Shift(event, n).end > from
        BY <3>2, <4>1, <1>2, <1>9, <1>1, <2>3 DEF Searched
      <4>2. QED  BY <4>1, <2>3, <1>1
    <3>3. QED  BY <3>1, <3>2
  <2>5. n < m
    BY <2>1, <2>2, <2>3, <2>4, <1>1
  <2>6. BeforeUntil(event, Shift(event, n).end)
    <3>1. n \in 0..(m - 1)
      BY <2>2, <2>5
    <3>2. QED  BY <3>1, <1>2, <1>4 DEF Shown, Reached
  <2>7. ~(Shift(event, n).start < from /\ Shift(event, n).end < from)
    BY <2>6, <1>2 DEF Searches, SchedulerPasses, Reached
  <2>8. Shift(event, n).end = from
    BY <2>3, <2>4, <2>7, <1>1
  <2>9. QED  BY <2>8, <1>5
<1>10. QED  BY <1>6, <1>8, <1>9 DEF ClosestIsTheEarliest

(***************************************************************************)
(* The scheduler works with the earliest occurrence of an event that the   *)
(* calendar shows and that is not over, when no event ends before it       *)
(* begins.                                                                 *)
(***************************************************************************)
THEOREM ClosestIsEarliest ==
  ASSUME \A e \in Events : e.start <= e.end
  PROVE  LoopSpec => []ClosestIsTheEarliest
<1>1. LoopIInv => ClosestIsTheEarliest
  BY EarliestFound
<1>2. QED  BY <1>1, AlwaysOnTheWay, PTL
=============================================================================
