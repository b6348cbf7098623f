------------------------------- MODULE Shutdown -------------------------------
(* The countdown to a shutdown or restart.  Commands of the console and of game
   masters run in the world's thread, as the countdown does; those of the IRC
   bridge run in its own, and no lock guards m_ShutdownTimer and m_ShutdownMask.
   One action is one access to them, so that the threads interleave.          *)
EXTENDS Naturals

CONSTANTS
  Threads,     \* that give commands: World, and another one for the bridge
  World,
  MaxTime,     \* bound: seconds a command asks for
  MaxElapsed,  \* bound: seconds one loop of the world takes
  MaxSessions, \* bound
  MaxRequests, \* bound: shutdowns asked for
  Width        \* values a uint32 takes

ShutdownAssumption ==
  /\ World \in Threads /\ MaxElapsed \in Nat /\ MaxSessions \in Nat /\ MaxRequests \in Nat
  /\ MaxTime \in Nat /\ Width \in Nat /\ Width > 1
  /\ MaxTime < Width   \* ShutdownServ takes a uint32

VARIABLES
  m_ShutdownTimer, m_ShutdownMask, \* the mask: is it an idle shutdown, and the exit code with it
  m_stopEvent,
  sessions,
  thread,    \* where each thread is, and what it was asked for
  elapsed,   \* of the loop the countdown is in, and the timer it has read
  asked,     \* what was last told to the players: kind, code and the seconds left
  requests

words == <<m_ShutdownTimer, m_ShutdownMask, m_stopEvent>>
vars == <<m_ShutdownTimer, m_ShutdownMask, m_stopEvent, sessions, thread, elapsed, asked, requests>>

Options == [idle : BOOLEAN, code : {"shutdown", "restart"}]
Default == [idle |-> FALSE, code |-> "shutdown"]
Nothing == [kind |-> "nothing", code |-> "shutdown", left |-> 0]
Idle == [pc |-> "idle", time |-> 0, options |-> Default]

Init ==
  /\ m_ShutdownTimer = 0 /\ m_ShutdownMask = Default /\ m_stopEvent = FALSE
  /\ sessions = 0
  /\ thread = [t \in Threads |-> Idle]
  /\ elapsed = [seconds |-> 0, seen |-> 0]
  /\ asked = Nothing /\ requests = 0

At(t, pc) == thread[t].pc = pc
Goto(t, pc) == thread' = [thread EXCEPT ![t].pc = pc]
Done(t) == Goto(t, "idle")

-----------------------------------------------------------------------------
(* ShutdownServ *)

\* The bridge asks for idle shutdowns and for restarts, never at once.
ShutdownServ(t, time, options) ==
  /\ At(t, "idle") /\ ~m_stopEvent /\ requests < MaxRequests
  /\ t = World \/ (time > 0 /\ options.idle = (options.code = "shutdown"))
  /\ requests' = requests + 1
  /\ thread' = [thread EXCEPT ![t] = [pc |-> "options", time |-> time, options |-> options]]
  /\ UNCHANGED <<words, sessions, elapsed, asked>>

StoreOptions(t) ==
  /\ At(t, "options")
  /\ m_ShutdownMask' = thread[t].options
  /\ Goto(t, "time")
  /\ UNCHANGED <<m_ShutdownTimer, m_stopEvent, sessions, elapsed, asked, requests>>

AtOnce(t) == ~thread[t].options.idle \/ sessions = 0

\* The bridge's thread then sleeps for as long.
StoreTime(t) ==
  /\ At(t, "time")
  /\ IF thread[t].time > 0
     THEN m_ShutdownTimer' = thread[t].time /\ UNCHANGED m_stopEvent
     ELSE IF AtOnce(t)
     THEN m_stopEvent' = TRUE /\ UNCHANGED m_ShutdownTimer
     ELSE m_ShutdownTimer' = 1 /\ UNCHANGED m_stopEvent
  /\ asked' = [kind |-> IF thread[t].options.idle THEN "idle" ELSE "plain",
               code |-> thread[t].options.code, left |-> thread[t].time]
  /\ Goto(t, IF t = World THEN "idle" ELSE "asleep")
  /\ UNCHANGED <<m_ShutdownMask, sessions, elapsed, requests>>

-----------------------------------------------------------------------------
(* ShutdownCancel *)

ShutdownCancel(t) ==
  /\ At(t, "idle") /\ m_ShutdownTimer # 0 /\ ~m_stopEvent
  /\ Goto(t, "cancel")
  /\ UNCHANGED <<words, sessions, elapsed, asked, requests>>

ResetMask(t) ==
  /\ At(t, "cancel")
  /\ m_ShutdownMask' = Default
  /\ Goto(t, "reset")
  /\ UNCHANGED <<m_ShutdownTimer, m_stopEvent, sessions, elapsed, asked, requests>>

ResetTimer == m_ShutdownTimer' = 0

Cancelled(t) ==
  /\ At(t, "reset")
  /\ ResetTimer
  /\ asked' = Nothing
  /\ Done(t)
  /\ UNCHANGED <<m_ShutdownMask, m_stopEvent, sessions, elapsed, requests>>

-----------------------------------------------------------------------------
(* _UpdateGameTime, in the world's thread *)

Asleep(t, seconds) ==
  IF ~At(t, "asleep") THEN thread[t]
  ELSE IF thread[t].time <= seconds THEN Idle ELSE [thread[t] EXCEPT !.time = @ - seconds]

Countdown(seconds) ==
  /\ At(World, "idle") /\ ~m_stopEvent
  /\ elapsed' = [seconds |-> seconds, seen |-> m_ShutdownTimer]
  /\ thread' = [t \in Threads |->
       IF t # World THEN Asleep(t, seconds)
       ELSE [thread[t] EXCEPT !.pc = IF m_ShutdownTimer = 0 THEN "idle"
                                     ELSE "compare"]]
  /\ asked' = [asked EXCEPT !.left = IF @ > seconds THEN @ - seconds ELSE 0]
  /\ UNCHANGED <<words, sessions, requests>>

\* No atomic and no lock: the timer found positive is read again, or not.
TimerSeen == {m_ShutdownTimer, elapsed.seen}

Compare ==
  /\ At(World, "compare")
  /\ \E timer \in TimerSeen :
       /\ elapsed' = [elapsed EXCEPT !.seen = timer]
       /\ Goto(World, IF timer <= elapsed.seconds THEN "overdue" ELSE "decrease")
  /\ UNCHANGED <<words, sessions, asked, requests>>

Overdue ==
  /\ At(World, "overdue")
  /\ IF ~m_ShutdownMask.idle \/ sessions = 0
     THEN m_stopEvent' = TRUE /\ Done(World)
     ELSE Goto(World, "wait") /\ UNCHANGED m_stopEvent
  /\ UNCHANGED <<m_ShutdownTimer, m_ShutdownMask, sessions, elapsed, asked, requests>>

\* Mutant: the timer that has run out is left at zero.
KeepWaitingNot == m_ShutdownTimer' = 0

KeepWaiting == m_ShutdownTimer' = 1

Wait ==
  /\ At(World, "wait")
  /\ KeepWaiting
  /\ Done(World)
  /\ UNCHANGED <<m_ShutdownMask, m_stopEvent, sessions, elapsed, asked, requests>>

Decrease ==
  /\ At(World, "decrease")
  /\ \E timer \in TimerSeen :
       m_ShutdownTimer' = (timer + Width - elapsed.seconds) % Width
  /\ Done(World)
  /\ UNCHANGED <<m_ShutdownMask, m_stopEvent, sessions, elapsed, asked, requests>>

\* Sessions come and go between two steps of the world's thread.
SessionsChange ==
  /\ At(World, "idle") /\ ~m_stopEvent
  /\ sessions' \in {n \in 0..MaxSessions : n = sessions + 1 \/ n + 1 = sessions}
  /\ UNCHANGED <<words, thread, elapsed, asked, requests>>

-----------------------------------------------------------------------------
Request(t) == StoreOptions(t) \/ StoreTime(t) \/ ResetMask(t) \/ Cancelled(t)

UpdateGameTime == (\E seconds \in 1..MaxElapsed : Countdown(seconds)) \/ Compare \/ Overdue \/ Wait \/ Decrease

Next ==
  \/ \E t \in Threads :
       \/ \E time \in 0..MaxTime, options \in Options : ShutdownServ(t, time, options)
       \/ ShutdownCancel(t) \/ Request(t)
  \/ UpdateGameTime \/ SessionsChange

Spec == Init /\ [][Next]_vars

\* Threads run; nobody has to give a command or to leave.
Fairness == WF_vars(UpdateGameTime) /\ \A t \in Threads : WF_vars(Request(t))

FairSpec == Spec /\ Fairness

-----------------------------------------------------------------------------
(* Properties *)

TypeOK ==
  /\ m_ShutdownTimer \in 0..(Width - 1) /\ m_ShutdownMask \in Options /\ m_stopEvent \in BOOLEAN
  /\ sessions \in 0..MaxSessions
  /\ \A t \in Threads : thread[t].time \in 0..MaxTime
  /\ asked.left \in 0..MaxTime /\ requests \in 0..MaxRequests

\* No command of another thread is half done.
Settled == \A t \in Threads \ {World} : At(t, "idle") \/ At(t, "asleep")

\* The world stops only as was last announced: not after "shutdown cancelled",
\* not before the time is up, with the right exit code, and while somebody is
\* there only if the shutdown does not wait for that.
StopsAsAsked ==
  [][~m_stopEvent /\ m_stopEvent' /\ Settled =>
       /\ asked'.kind # "nothing" /\ asked'.left = 0
       /\ asked'.kind = "idle" => sessions = 0
       /\ m_ShutdownMask.code = asked'.code]_vars

\* World.cpp: "Cancel a planned server shutdown"; the bridge answers "Server
\* Shutdown Has Been Cancelled": after that the world does not stop by itself.
CancelledForGood ==
  [][~m_stopEvent /\ m_stopEvent' /\ Settled => asked'.kind # "nothing"]_vars

\* A shutdown that is not cancelled comes, also if it waits and the last session
\* leaves long after its time.
ShutdownComes ==
  <>[](asked.kind = "plain" \/ (asked.kind = "idle" /\ sessions = 0)) => []<>m_stopEvent

\* Both: the world stops as it was told, and then it does.
ShutdownKept == StopsAsAsked /\ ShutdownComes
=============================================================================
