---------------------------- MODULE StartupProofs ----------------------------
(***************************************************************************)
(* What Startup checks on two processes and two execution tasks, proved    *)
(* for any number of each: a module that is ready is up, no thread uses    *)
(* SDIs that were deleted, and no execution task sleeps on work, when the  *)
(* start of the module is not disturbed before it is over (Careful).       *)
(***************************************************************************)
EXTENDS Startup, TLAPS

Up     == {"serving", "ending", "unlink", "exit"}
Ending == {"ending", "unlink", "exit"}
Ran    == {"wait", "ended"}

\* The control task follows the main thread: it is spawned after the SDIs are
\* there, it serves when the execution tasks are spawned, it ends only when the
\* start is over, and dies with its process.
CntrlFollows(p) ==
  /\ main[p] \in {"idle", "sdi", "pid", "write", "cntrl"} => cntrl[p] = "none"
  /\ main[p] \in {"exec", "waitExec", "wakeCntrl", "tell"} => cntrl[p] = "serving"
  /\ main[p] = "ready" => cntrl[p] \in Up
  /\ cntrl[p] \in Ending => main[p] = "ready"
  /\ Gone(p) <=> cntrl[p] = Dead

\* So do the execution tasks, spawned one by one.
ExecsFollow(p) ==
  /\ main[p] \in {"idle", "sdi", "pid", "write", "cntrl", "waitCntrl"}
       => next[p] = 1 /\ \A t \in Task : exec[p][t] = "none"
  /\ main[p] \in {"exec", "waitExec"} => \A t \in Task : t < next[p] => exec[p][t] \in Ran
  /\ main[p] \in {"wakeCntrl", "tell", "ready"} => \A t \in Task : exec[p][t] \in Ran
  /\ Gone(p) => \A t \in Task : exec[p][t] = Dead

\* The execution tasks that did not answer the end of the module have their flag
\* up; when the SDIs are deleted they have all ended.
EndAnswered(p) ==
  /\ cntrl[p] = "ending" => \A t \in Task : wakeUp[p][t] \/ exec[p][t] = "ended"
  /\ cntrl[p] \in {"unlink", "exit"} => \A t \in Task : exec[p][t] = "ended"

\* The SDIs are there as soon as they are created, and for whoever uses them.
SdiThere(p) ==
  /\ main[p] \in {"pid", "write", "cntrl"} => sdi[p]
  /\ SdiUsed(p) /\ main[p] # "deleted" => sdi[p]

\* Nothing is asked of the module before its start is over.
NothingEarly(p) ==
  /\ term[p] => main[p] = "ready" \/ Gone(p)
  /\ \A t \in Task : start[p][t] => main[p] = "ready" \/ Gone(p)
  /\ \A t \in Task : start[p][t] /\ exec[p][t] = "wait" => signal[p][t]

Local(p) == /\ CntrlFollows(p) /\ ExecsFollow(p) /\ EndAnswered(p)
            /\ SdiThere(p) /\ NothingEarly(p)

\* The pid file and the mailbox are those of the process that made them, until it
\* removes them itself.
OwnsFile(p) == main[p] \in {"cntrl", "waitCntrl", "exec", "waitExec", "wakeCntrl",
                            "tell", "ready"} /\ cntrl[p] # "exit"

Files ==
  /\ \A p \in Procs : main[p] = "write" => pidFile = "empty"
  /\ \A p, q \in Procs : main[p] = "write" /\ main[q] = "write" => p = q
  /\ \A p \in Procs : OwnsFile(p) => pidFile = p
  /\ \A p \in Procs : cntrl[p] \in {"ok", "serving", "ending"} => mbox = p

\* While killmodule runs no start is under way, and the only module still up is
\* the one it read in the pid file; none is when it removes the devices.
Killed ==
  /\ kill.pc \notin {"idle", "over"} =>
       \A p \in Procs : main[p] \in {"idle", "ready"} \/ Gone(p)
  /\ kill.pc \in {"probe", "poll", "int"} =>
       /\ kill.pid \in Procs
       /\ \A p \in Procs : main[p] = "ready" /\ cntrl[p] # "exit" => p = kill.pid
  /\ kill.pc = "clean" => \A p \in Procs : main[p] = "ready" => cntrl[p] = "exit"

StartInv == TypeOK /\ (\A p \in Procs : Local(p)) /\ Files /\ Killed

-----------------------------------------------------------------------------
ExecStates == {"none", "init", "named", "ok", "bad", "badGiven", "wait", "suspended",
               "ended", Dead}

\* The type invariant, one variable at a time.
Typed ==
  /\ main \in [Procs -> {"idle", "sdi", "pid", "write", "cntrl", "waitCntrl",
                         "exec", "waitExec", "wakeCntrl", "tell", "ready",
                         "error", "deleted", "crashed", Dead}]
  /\ next \in [Procs -> Task]
  /\ cntrl \in [Procs -> {"none", "init", "ok", "bad", "badGiven", "serving",
                          "suspended", "ending", "unlink", "exit", Dead}]
  /\ exec \in [Procs -> [Task -> ExecStates]]
  /\ sdi \in [Procs -> BOOLEAN] /\ term \in [Procs -> BOOLEAN]
  /\ wakeUp \in [Procs -> [Task -> BOOLEAN]]
  /\ signal \in [Procs -> [Task -> BOOLEAN]]
  /\ start \in [Procs -> [Task -> BOOLEAN]]
  /\ parent \in [Procs -> {"none", "reading", "over"}]
  /\ pipe \in [Procs -> {"", "OK", "error"}]
  /\ pidFile \in Procs \cup {"none", "empty"}
  /\ mbox \in Procs \cup {"none"}
  /\ kill \in [pc : {"idle", "probe", "poll", "int", "clean", "over"},
               pid : Procs \cup {"none"}]

LEMMA TypeIs == TypeOK <=> Typed
BY DEF TypeOK, Typed, Task, ExecStates

LEMMA TypeIsNext == TypeOK' <=> Typed'
BY TypeIs, PTL

\* What concerns a process other than the one that moves.
SameLocal(q) ==
  /\ main'[q] = main[q] /\ next'[q] = next[q] /\ cntrl'[q] = cntrl[q]
  /\ exec'[q] = exec[q] /\ sdi'[q] = sdi[q] /\ wakeUp'[q] = wakeUp[q]
  /\ signal'[q] = signal[q] /\ start'[q] = start[q] /\ term'[q] = term[q]

LEMMA Untouched ==
  ASSUME NEW q \in Procs, Local(q), SameLocal(q)
  PROVE  Local(q)'
BY DEF Local, CntrlFollows, ExecsFollow, EndAnswered, SdiThere, NothingEarly, SdiUsed, Gone,
       SameLocal

\* What a step makes of the threads of process p and of its SDIs, when it leaves
\* what is asked of them alone.
Becomes(p, m, c, e, s) ==
  /\ main'[p] = m /\ cntrl'[p] = c /\ exec'[p] = e /\ sdi'[p] = s
  /\ next'[p] = next[p] /\ wakeUp'[p] = wakeUp[p] /\ signal'[p] = signal[p]
  /\ start'[p] = start[p] /\ term'[p] = term[p]

\* The main thread fails, or its process ends.
LEMMA FailsLocal ==
  ASSUME NEW p \in Procs, Local(p), main[p] \notin {"ready", "deleted", "crashed", Dead},
         Becomes(p, "error", cntrl[p], exec[p], sdi[p])
  PROVE  Local(p)'
BY DEF Local, CntrlFollows, ExecsFollow, EndAnswered, SdiThere, NothingEarly, SdiUsed, Gone,
       Becomes, Up, Ending, Dead

LEMMA EndsLocal ==
  ASSUME NEW p \in Procs, NEW how \in {Dead, "crashed"}, Local(p),
         Becomes(p, how, Dead, [t \in Task |-> Dead], FALSE)
  PROVE  Local(p)'
BY DEF Local, CntrlFollows, ExecsFollow, EndAnswered, SdiThere, NothingEarly, SdiUsed, Gone,
       Becomes, Up, Ending, Dead

LEMMA EndsBecomes ==
  ASSUME TypeOK, NEW p \in Procs, NEW how, Ends(p, how)
  PROVE  /\ Becomes(p, how, Dead, [t \in Task |-> Dead], FALSE)
         /\ \A q \in Procs \ {p} : SameLocal(q)
BY TypeIs DEF Typed, Ends, Becomes, SameLocal

\* The steps of the main thread and of the process as a whole.
LEMMA MainLocal ==
  ASSUME TypeOK, Careful, NEW p \in Procs, Local(p), Launch(p) \/ MainStep(p)
  PROVE  Local(p)' /\ \A q \in Procs \ {p} : SameLocal(q)
<1> DEFINE Others == \A q \in Procs \ {p} : SameLocal(q)
           Fails == Becomes(p, "error", cntrl[p], exec[p], sdi[p])
           Goal == Local(p)' /\ Others
<1>0. ASSUME Fails, main[p] \notin {"ready", "deleted", "crashed", Dead} PROVE Local(p)'
  BY <1>0, FailsLocal
<1>1. ASSUME Launch(p) PROVE Goal
  <2>1. Others
    BY <1>1, TypeIs DEF Typed, Launch, SameLocal
  <2>2. main[p] = "idle" /\ Becomes(p, "sdi", cntrl[p], exec[p], sdi[p])
    BY <1>1, TypeIs DEF Typed, Launch, Becomes, Dead
  <2>3. Local(p)'
    BY <2>2 DEF Local, CntrlFollows, ExecsFollow, EndAnswered, SdiThere, NothingEarly,
                 SdiUsed, Gone, Becomes, Up, Ending, Ran, Dead
  <2> QED BY <2>1, <2>3
<1>2. ASSUME CreateSDI(p) PROVE Goal
  <2>1. Others
    BY <1>2, TypeIs DEF Typed, CreateSDI, Goes, SameLocal
  <2>2. \/ main[p] = "sdi" /\ Becomes(p, "pid", cntrl[p], exec[p], TRUE)
        \/ Fails /\ main[p] \notin {"ready", "deleted", "crashed", Dead}
    BY <1>2, TypeIs DEF Typed, CreateSDI, Goes, Becomes, Dead
  <2>3. ASSUME main[p] = "sdi", Becomes(p, "pid", cntrl[p], exec[p], TRUE) PROVE Local(p)'
    BY <2>3 DEF Local, CntrlFollows, ExecsFollow, EndAnswered, SdiThere, NothingEarly,
                 SdiUsed, Gone, Becomes, Up, Ending, Ran, Dead
  <2> HIDE DEF Fails
  <2> QED BY <1>0, <2>1, <2>2, <2>3
<1>3. ASSUME CreatePidFile(p) PROVE Goal
  <2>1. Others
    BY <1>3, TypeIs DEF Typed, CreatePidFile, Goes, SameLocal
  <2>2. \/ main[p] = "pid" /\ Becomes(p, "write", cntrl[p], exec[p], sdi[p])
        \/ Fails /\ main[p] \notin {"ready", "deleted", "crashed", Dead}
    BY <1>3, TypeIs DEF Typed, CreatePidFile, Goes, Becomes, Dead
  <2>3. ASSUME main[p] = "pid", Becomes(p, "write", cntrl[p], exec[p], sdi[p]) PROVE Local(p)'
    BY <2>3 DEF Local, CntrlFollows, ExecsFollow, EndAnswered, SdiThere, NothingEarly,
                 SdiUsed, Gone, Becomes, Up, Ending, Ran, Dead
  <2> HIDE DEF Fails
  <2> QED BY <1>0, <2>1, <2>2, <2>3
<1>4. ASSUME WritePidFile(p) PROVE Goal
  <2>1. Others
    BY <1>4, TypeIs DEF Typed, WritePidFile, Goes, SameLocal
  <2>2. \/ main[p] = "write" /\ Becomes(p, "cntrl", cntrl[p], exec[p], sdi[p])
        \/ Fails /\ main[p] \notin {"ready", "deleted", "crashed", Dead}
    BY <1>4, TypeIs DEF Typed, WritePidFile, Goes, Becomes, Dead
  <2>3. ASSUME main[p] = "write", Becomes(p, "cntrl", cntrl[p], exec[p], sdi[p]) PROVE Local(p)'
    BY <2>3 DEF Local, CntrlFollows, ExecsFollow, EndAnswered, SdiThere, NothingEarly,
                 SdiUsed, Gone, Becomes, Up, Ending, Ran, Dead
  <2> HIDE DEF Fails
  <2> QED BY <1>0, <2>1, <2>2, <2>3
<1>5. ASSUME SpawnCntrl(p) PROVE Goal
  <2>1. Others
    BY <1>5, TypeIs DEF Typed, SpawnCntrl, Goes, SameLocal
  <2>2. \/ main[p] = "cntrl" /\ Becomes(p, "waitCntrl", "init", exec[p], sdi[p])
        \/ Fails /\ main[p] \notin {"ready", "deleted", "crashed", Dead}
    BY <1>5, TypeIs DEF Typed, SpawnCntrl, Goes, Becomes, Dead
  <2>3. ASSUME main[p] = "cntrl", Becomes(p, "waitCntrl", "init", exec[p], sdi[p]) PROVE Local(p)'
    BY <2>3 DEF Local, CntrlFollows, ExecsFollow, EndAnswered, SdiThere, NothingEarly,
                 SdiUsed, Gone, Becomes, Up, Ending, Ran, Dead
  <2> HIDE DEF Fails
  <2> QED BY <1>0, <2>1, <2>2, <2>3
<1>6. ASSUME WaitCntrl(p) PROVE Goal
  <2>1. Others
    BY <1>6, TypeIs DEF Typed, WaitCntrl, Goes, Up, SameLocal
  <2>2. \/ /\ main[p] = "waitCntrl" /\ cntrl[p] \in Up \cup {Dead}
           /\ Becomes(p, "exec", cntrl[p], exec[p], sdi[p])
        \/ Fails /\ main[p] \notin {"ready", "deleted", "crashed", Dead}
    BY <1>6, TypeIs DEF Typed, WaitCntrl, Goes, Up, Becomes, Dead
  <2>3. ASSUME main[p] = "waitCntrl", cntrl[p] \in Up \cup {Dead},
               Becomes(p, "exec", cntrl[p], exec[p], sdi[p])
        PROVE  Local(p)'
    <3>1. \A t \in Task : ~(t < 1)
      BY DEF Task
    <3> QED BY <2>3, <3>1 DEF Local, CntrlFollows, ExecsFollow, EndAnswered, SdiThere,
                              NothingEarly, SdiUsed, Gone, Becomes, Up, Ending, Ran, Dead
  <2> HIDE DEF Fails
  <2> QED BY <1>0, <2>1, <2>2, <2>3
<1>7. ASSUME SpawnExec(p) PROVE Goal
  <2>1. Others
    BY <1>7, TypeIs DEF Typed, SpawnExec, Goes, SameLocal
  <2>2. \/ /\ main[p] = "exec"
           /\ Becomes(p, "waitExec", cntrl[p], [exec[p] EXCEPT ![next[p]] = "init"], sdi[p])
        \/ Fails /\ main[p] \notin {"ready", "deleted", "crashed", Dead}
    BY <1>7, TypeIs DEF Typed, SpawnExec, Goes, Becomes, Dead
  <2>3. ASSUME main[p] = "exec",
               Becomes(p, "waitExec", cntrl[p], [exec[p] EXCEPT ![next[p]] = "init"], sdi[p])
        PROVE  Local(p)'
    <3>1. /\ next[p] \in Task /\ NbTask \in Nat
          /\ exec[p] \in [Task -> ExecStates]
      BY TypeIs, StartAssumption DEF Typed
    <3>2. \A t \in Task : t < next[p] => exec'[p][t] = exec[p][t]
      BY <2>3, <3>1 DEF Becomes, Task
    <3>3. main[p] = "exec" /\ main'[p] = "waitExec" /\ cntrl[p] = "serving"
          /\ cntrl'[p] = "serving" /\ next'[p] = next[p]
      BY <2>3 DEF Becomes, Local, CntrlFollows
    <3>4. CntrlFollows(p)' /\ ExecsFollow(p)'
      BY <3>2, <3>3 DEF Local, CntrlFollows, ExecsFollow, Gone, Up, Ending, Dead
    <3>5. sdi[p] /\ ~term[p] /\ \A t \in Task : ~start[p][t]
      BY <3>3 DEF Local, SdiThere, SdiUsed, NothingEarly, Gone, Dead
    <3>6. EndAnswered(p)' /\ SdiThere(p)' /\ NothingEarly(p)'
      BY <2>3, <3>3, <3>5 DEF Becomes, EndAnswered, SdiThere, NothingEarly
    <3> QED BY <3>4, <3>6 DEF Local
  <2> HIDE DEF Fails
  <2> QED BY <1>0, <2>1, <2>2, <2>3
<1>8. ASSUME WakeCntrl(p) PROVE Goal
  <2>1. Others
    BY <1>8, TypeIs DEF Typed, WakeCntrl, Goes, SameLocal
  <2>2. main[p] = "wakeCntrl" /\ Becomes(p, "tell", cntrl[p], exec[p], sdi[p])
    BY <1>8, TypeIs DEF Typed, WakeCntrl, Goes, Becomes, Dead
  <2>3. Local(p)'
    BY <2>2 DEF Local, CntrlFollows, ExecsFollow, EndAnswered, SdiThere, NothingEarly,
                 SdiUsed, Gone, Becomes, Up, Ending, Ran, Dead
  <2> QED BY <2>1, <2>3
<1>9. ASSUME Tell(p) PROVE Goal
  <2>1. Others
    BY <1>9, TypeIs DEF Typed, Tell, Goes, SameLocal
  <2>2. main[p] = "tell" /\ Becomes(p, "ready", cntrl[p], exec[p], sdi[p])
    BY <1>9, TypeIs DEF Typed, Tell, Goes, Becomes, Dead
  <2>3. Local(p)'
    BY <2>2 DEF Local, CntrlFollows, ExecsFollow, EndAnswered, SdiThere, NothingEarly,
                 SdiUsed, Gone, Becomes, Up, Ending, Ran, Dead
  <2> QED BY <2>1, <2>3
<1>10. ASSUME WaitExec(p) PROVE Goal
  <2>1. Others
    BY <1>10, TypeIs DEF Typed, WaitExec, Goes, SameLocal
  <2>2. main[p] = "waitExec"
    BY <1>10 DEF WaitExec, Goes
  <2>3. CASE main'[p] = "error"
    <3>1. Fails
      BY <1>10, <2>3, TypeIs DEF Typed, WaitExec, Goes, Becomes
    <3> QED BY <1>0, <2>1, <2>2, <3>1 DEF Dead
  <2>4. ASSUME main'[p] # "error" PROVE Local(p)'
    <3>1. /\ UNCHANGED <<cntrl, exec, sdi, wakeUp, signal, start, term>>
          /\ exec[p][next[p]] \in Ran
          /\ \/ main'[p] = "exec" /\ next'[p] = next[p] + 1
             \/ main'[p] = "wakeCntrl" /\ next[p] = NbTask
      BY <1>10, <2>4, TypeIs DEF Typed, WaitExec, Goes, Ran, ExecGave, ExecBad
    <3>2. next[p] \in Task /\ NbTask \in Nat
      BY TypeIs, StartAssumption DEF Typed
    <3>3. \A t \in Task : t < next[p] => exec[p][t] \in Ran
      BY <2>2 DEF Local, ExecsFollow
    <3>4. main'[p] = "exec" => \A t \in Task : t < next'[p] => exec'[p][t] \in Ran
      BY <3>1, <3>2, <3>3 DEF Task
    <3>5. main'[p] = "wakeCntrl" => \A t \in Task : exec'[p][t] \in Ran
      BY <3>1, <3>2, <3>3 DEF Task
    <3>6. main'[p] \in {"exec", "wakeCntrl"} /\ cntrl'[p] = "serving"
      BY <2>2, <3>1 DEF Local, CntrlFollows
    <3>7. CntrlFollows(p)' /\ ExecsFollow(p)'
      BY <3>4, <3>5, <3>6 DEF CntrlFollows, ExecsFollow, Gone, Up, Ending, Dead
    <3>8. EndAnswered(p)' /\ SdiThere(p)' /\ NothingEarly(p)'
      BY <2>2, <3>1, <3>6 DEF Local, EndAnswered, SdiThere, NothingEarly, SdiUsed, Gone, Dead
    <3> QED BY <3>7, <3>8 DEF Local
  <2> QED BY <2>1, <2>3, <2>4
<1>11. ASSUME TaskInitError(p) PROVE Goal
  <2>1. CASE Dies(p) /\ main[p] = "deleted"
    BY <2>1, EndsBecomes, EndsLocal DEF Dies
  <2>2. CASE /\ Goes(p, "error", "deleted") /\ sdi' = [sdi EXCEPT ![p] = FALSE]
             /\ UNCHANGED <<next, cntrl, exec, wakeUp, signal, start, term>>
    <3>1. Others
      BY <2>2, TypeIs DEF Typed, Goes, SameLocal
    <3>2. main[p] = "error" /\ Becomes(p, "deleted", cntrl[p], exec[p], FALSE)
      BY <2>2, TypeIs DEF Typed, Goes, Becomes
    <3>3. Local(p)'
      BY <3>2 DEF Local, CntrlFollows, ExecsFollow, EndAnswered, SdiThere, NothingEarly, SdiUsed,
          Gone, Becomes, Up, Ending, Ran, Dead
    <3> QED BY <3>1, <3>3
  <2> QED BY <1>11, <2>1, <2>2 DEF TaskInitError
<1> HIDE DEF Goal
<1>12. Goal
  BY <1>1, <1>2, <1>3, <1>4, <1>5, <1>6, <1>7, <1>8, <1>9, <1>10, <1>11 DEF MainStep
<1> QED
  BY <1>12 DEF Goal

\* The steps of the control task, and the requests it is sent.
LEMMA CntrlLocal ==
  ASSUME TypeOK, Careful, NEW p \in Procs, Local(p),
         CntrlStep(p) \/ EndRequest(p) \/ \E t \in Task : ServeExec(p, t)
  PROVE  Local(p)' /\ \A q \in Procs \ {p} : SameLocal(q)
<1> USE DEF CntrlFollows, ExecsFollow, EndAnswered, SdiThere, NothingEarly, SdiUsed, Gone,
            Becomes, Up, Ending, Ran, Dead
<1> DEFINE Others == \A q \in Procs \ {p} : SameLocal(q)
           Goal == Local(p)' /\ Others
           Turns(c) == Becomes(p, main[p], c, exec[p], sdi[p])
<1>1. ASSUME CntrlInitTask(p) PROVE Goal
  <2>1. cntrl[p] = "init" /\ (Turns("ok") \/ Turns("bad"))
    BY <1>1, TypeIs DEF Typed, CntrlInitTask
  <2>2. Others
    BY <1>1, TypeIs DEF Typed, CntrlInitTask, SameLocal
  <2> QED BY <2>1, <2>2 DEF Local
<1>2. ASSUME CntrlGives(p) PROVE Goal
  <2>1. \/ cntrl[p] = "ok" /\ Turns("serving")
        \/ cntrl[p] = "bad" /\ Turns("badGiven")
    BY <1>2, TypeIs DEF Typed, CntrlGives
  <2>2. Others
    BY <1>2, TypeIs DEF Typed, CntrlGives, SameLocal
  <2> QED BY <2>1, <2>2 DEF Local
<1>3. ASSUME CntrlTaskSuspend(p) PROVE Goal
  <2>1. cntrl[p] = "badGiven" /\ Turns("suspended")
    BY <1>3, TypeIs DEF Typed, CntrlTaskSuspend
  <2>2. Others
    BY <1>3, TypeIs DEF Typed, CntrlTaskSuspend, SameLocal
  <2> QED BY <2>1, <2>2 DEF Local
<1>4. ASSUME SignalEnd(p) PROVE Goal
  <2>1. /\ cntrl[p] = "serving" /\ term[p] /\ cntrl'[p] = "ending"
        /\ \A t \in Task : wakeUp'[p][t] = TRUE
        /\ \A t \in Task : signal[p][t] => signal'[p][t]
        /\ UNCHANGED <<main, next, exec, sdi, start, term>>
    BY <1>4, TypeIs DEF Typed, SignalEnd
  <2>2. Others
    BY <1>4, TypeIs DEF Typed, SignalEnd, SameLocal
  <2>3. main[p] = "ready"
    BY <2>1 DEF Local
  <2>4. Local(p)'
    BY <2>1, <2>3 DEF Local
  <2> QED BY <2>2, <2>4
<1>5. ASSUME SignalEndDelete(p) PROVE Goal
  <2>1. /\ cntrl[p] = "ending" /\ \A t \in Task : ~wakeUp[p][t]
        /\ Becomes(p, main[p], "unlink", exec[p], FALSE)
    BY <1>5, TypeIs DEF Typed, SignalEndDelete
  <2>2. Others
    BY <1>5, TypeIs DEF Typed, SignalEndDelete, SameLocal
  <2>3. main[p] = "ready" /\ \A t \in Task : exec[p][t] = "ended"
    BY <2>1 DEF Local
  <2>4. Local(p)'
    BY <2>1, <2>3 DEF Local
  <2> QED BY <2>2, <2>4
<1>6. ASSUME SignalEndExit(p) PROVE Goal
  <2>1. CASE cntrl[p] = "unlink" /\ cntrl' = [cntrl EXCEPT ![p] = "exit"]
               /\ UNCHANGED <<main, next, exec, sdi, wakeUp, signal, start, term>>
    <3>1. Turns("exit") /\ Others
      BY <2>1, TypeIs DEF Typed, SameLocal
    <3> QED BY <2>1, <3>1 DEF Local
  <2>2. CASE Dies(p)
    BY <2>2, EndsBecomes, EndsLocal DEF Dies
  <2> QED BY <1>6, <2>1, <2>2 DEF SignalEndExit
<1>7. ASSUME EndRequest(p) PROVE Goal
  <2>1. /\ main[p] = "ready" /\ term'[p] = TRUE
        /\ UNCHANGED <<main, next, cntrl, exec, sdi, wakeUp, signal, start>>
    BY <1>7, TypeIs DEF Typed, EndRequest
  <2>2. Others
    BY <1>7, TypeIs DEF Typed, EndRequest, SameLocal
  <2> QED BY <2>1, <2>2 DEF Local
<1>8. ASSUME NEW t \in Task, ServeExec(p, t) PROVE Goal
  <2>1. main[p] = "ready" /\ UNCHANGED <<main, next, cntrl, exec, sdi, wakeUp, term>>
    BY <1>8 DEF ServeExec
  <2>5. /\ start \in [Procs -> [Task -> BOOLEAN]] /\ signal \in [Procs -> [Task -> BOOLEAN]]
        /\ start' = [start EXCEPT ![p][t] = TRUE]
        /\ signal' = [signal EXCEPT ![p][t] = exec[p][t] \notin {"none", "init"}]
        /\ next' = next
    BY <1>8, TypeIs DEF Typed, ServeExec
  <2>2. /\ \A u \in Task \ {t} : start'[p][u] = start[p][u] /\ signal'[p][u] = signal[p][u]
        /\ signal'[p][t] = (exec[p][t] \notin {"none", "init"})
        /\ \A q \in Procs \ {p} : start'[q] = start[q] /\ signal'[q] = signal[q]
    BY <2>5
  <2>3. Others
    BY <2>1, <2>5, <2>2 DEF SameLocal
  <2>4. exec[p][t] \in Ran
    BY <2>1 DEF Local
  <2> QED BY <2>1, <2>2, <2>3, <2>4 DEF Local
<1> HIDE DEF Goal
<1>9. Goal
  BY <1>1, <1>2, <1>3, <1>4, <1>5, <1>6, <1>7, <1>8 DEF CntrlStep
<1> QED
  BY <1>9 DEF Goal

\* The steps of an execution task.
LEMMA ExecLocal ==
  ASSUME TypeOK, NEW p \in Procs, NEW t \in Task, Local(p), ExecStep(p, t)
  PROVE  Local(p)' /\ \A q \in Procs \ {p} : SameLocal(q)
<1> USE DEF CntrlFollows, ExecsFollow, EndAnswered, SdiThere, NothingEarly, SdiUsed, Gone,
            Up, Ending, Ran, Dead
<1> DEFINE Others == \A q \in Procs \ {p} : SameLocal(q)
           Goal == Local(p)' /\ Others
           Turns(e) == /\ exec'[p][t] = e
                       /\ \A u \in Task \ {t} : exec'[p][u] = exec[p][u]
<1>0. /\ exec \in [Procs -> [Task -> ExecStates]]
      /\ wakeUp \in [Procs -> [Task -> BOOLEAN]] /\ signal \in [Procs -> [Task -> BOOLEAN]]
      /\ start \in [Procs -> [Task -> BOOLEAN]]
  BY TypeIs DEF Typed
<1> DEFINE Moved(e) == exec' = [exec EXCEPT ![p][t] = e]
<1>5. ASSUME NEW e, Moved(e) PROVE Turns(e) /\ \A q \in Procs \ {p} : exec'[q] = exec[q]
  BY <1>0, <1>5
<1>1. ASSUME InitTaskFunc(p, t) PROVE Goal
  <2>1. /\ \/ exec[p][t] = "init" /\ Moved("named") /\ UNCHANGED wakeUp
           \/ /\ exec[p][t] = "named" /\ (Moved("ok") \/ Moved("bad"))
              /\ wakeUp' = [wakeUp EXCEPT ![p][t] = FALSE]
        /\ UNCHANGED <<main, next, cntrl, sdi, signal, start, term>>
    BY <1>1 DEF InitTaskFunc
  <2>2. /\ \A u \in Task \ {t} : wakeUp'[p][u] = wakeUp[p][u]
        /\ \A q \in Procs \ {p} : wakeUp'[q] = wakeUp[q]
    BY <1>0, <2>1
  <2> HIDE DEF Moved
  <2>3. Others
    BY <1>5, <2>1, <2>2 DEF SameLocal
  <2>4. /\ \/ exec[p][t] = "init" /\ Turns("named")
           \/ exec[p][t] = "named" /\ (Turns("ok") \/ Turns("bad"))
        /\ UNCHANGED <<main, next, cntrl, sdi, signal, start, term>>
    BY <1>5, <2>1
  <2>5. main[p] \in {"exec", "waitExec"} => ~(t < next[p])
    BY <2>4 DEF Local
  <2>6. main[p] # "ready" /\ ~Gone(p)
    BY <2>4 DEF Local
  <2> QED BY <2>2, <2>3, <2>4, <2>5, <2>6 DEF Local
<1>2. ASSUME ExecGives(p, t) \/ Suspend(p, t) PROVE Goal
  <2>1. /\ \/ exec[p][t] = "ok" /\ Moved("wait")
           \/ exec[p][t] = "bad" /\ Moved("badGiven")
           \/ exec[p][t] = "badGiven" /\ Moved("suspended")
        /\ UNCHANGED <<main, next, cntrl, sdi, wakeUp, signal, start, term>>
    <3>1. CASE ExecGives(p, t)
      <4>1. exec' = [exec EXCEPT ![p][t] = IF exec[p][t] = "ok" THEN "wait" ELSE "badGiven"]
        BY <1>0, <3>1 DEF ExecGives
      <4> QED BY <3>1, <4>1 DEF ExecGives
    <3>2. CASE Suspend(p, t)
      BY <3>2 DEF Suspend
    <3> QED BY <1>2, <3>1, <3>2
  <2> HIDE DEF Moved
  <2>2. Others
    BY <1>5, <2>1 DEF SameLocal
  <2>3. \/ exec[p][t] = "ok" /\ Turns("wait")
        \/ exec[p][t] = "bad" /\ Turns("badGiven")
        \/ exec[p][t] = "badGiven" /\ Turns("suspended")
    BY <1>5, <2>1
  <2>4. main[p] \in {"exec", "waitExec"} => ~(t < next[p])
    BY <2>3 DEF Local
  <2>5. main[p] # "ready" /\ ~Gone(p)
    BY <2>3 DEF Local
  <2>6. ~start[p][t]
    BY <2>5 DEF Local
  <2> QED BY <2>1, <2>2, <2>3, <2>4, <2>5, <2>6 DEF Local
<1>3. ASSUME ExecTurn(p, t) PROVE Goal
  <2>1. /\ exec[p][t] = "wait" /\ signal' = [signal EXCEPT ![p][t] = FALSE]
        /\ \/ /\ Moved("ended") /\ UNCHANGED start
              /\ wakeUp' = [wakeUp EXCEPT ![p][t] = FALSE]
           \/ /\ start' = [start EXCEPT ![p][t] = FALSE]
              /\ UNCHANGED <<exec, wakeUp>>
        /\ UNCHANGED <<main, next, cntrl, sdi, term>>
    BY <1>3 DEF ExecTurn
  <2>2. /\ \A u \in Task \ {t} : /\ wakeUp'[p][u] = wakeUp[p][u]
                                 /\ signal'[p][u] = signal[p][u]
                                 /\ start'[p][u] = start[p][u]
        /\ \A q \in Procs \ {p} : /\ wakeUp'[q] = wakeUp[q] /\ signal'[q] = signal[q]
                                  /\ start'[q] = start[q]
    BY <1>0, <2>1
  <2>3. \/ Moved("ended") /\ UNCHANGED start
        \/ UNCHANGED <<exec, wakeUp>> /\ ~start'[p][t]
    BY <1>0, <2>1
  <2> HIDE DEF Moved
  <2>4. Others
    BY <1>5, <2>1, <2>2, <2>3 DEF SameLocal
  <2>5. \/ Turns("ended") /\ UNCHANGED start
        \/ UNCHANGED <<exec, wakeUp>> /\ ~start'[p][t]
    BY <1>5, <2>3
  <2>6. UNCHANGED <<main, next, cntrl, sdi, term>> /\ exec[p][t] = "wait"
    BY <2>1
  <2> QED BY <2>2, <2>4, <2>5, <2>6 DEF Local
<1> HIDE DEF Goal
<1>4. Goal
  BY <1>1, <1>2, <1>3 DEF ExecStep
<1> QED
  BY <1>4 DEF Goal

-----------------------------------------------------------------------------
\* Every step, one process at most but for those of killmodule.
LEMMA KillLocal ==
  ASSUME TypeOK, Killed, \A p \in Procs : Local(p), KillRead \/ KillStep
  PROVE  \A p \in Procs : Local(p)'
<1>1. CASE UNCHANGED procVars
  BY <1>1, Untouched DEF procVars, SameLocal
<1>2. ASSUME NEW p \in Procs, Dies(p) PROVE \A q \in Procs : Local(q)'
  BY <1>2, EndsBecomes, EndsLocal, Untouched DEF Dies
<1>3. ASSUME KillProbe, Alive(kill.pid), cntrl[kill.pid] \in Up
      PROVE  \A q \in Procs : Local(q)'
  <2>1. PICK p \in Procs : p = kill.pid /\ main[p] = "ready"
    BY <1>3 DEF KillProbe, Killed, Alive
  <2>2. /\ term' = [term EXCEPT ![p] = TRUE]
        /\ UNCHANGED <<main, next, cntrl, exec, sdi, wakeUp, signal, start>>
    BY <1>3, <2>1 DEF KillProbe, Signal15, Up
  <2>3. \A q \in Procs \ {p} : SameLocal(q)
    BY <2>2, TypeIs DEF Typed, SameLocal
  <2>4. Local(p)'
    BY <2>1, <2>2 DEF Local, CntrlFollows, ExecsFollow, EndAnswered, SdiThere, NothingEarly,
                      SdiUsed, Gone
  <2> QED BY <2>3, <2>4, Untouched
<1>4. CASE KillProbe
  <2>1. kill.pid \in Procs
    BY <1>4 DEF KillProbe, Killed
  <2> QED
    BY <1>1, <1>2, <1>3, <1>4, <2>1 DEF KillProbe, Signal15, Up
<1>5. CASE KillInt
  <2>1. kill.pid \in Procs
    BY <1>5 DEF KillInt, Killed
  <2> QED
    BY <1>1, <1>2, <1>5, <2>1 DEF KillInt
<1> QED
  BY <1>1, <1>4, <1>5 DEF KillStep, KillRead, KillPoll, KillClean

LEMMA NextLocal ==
  ASSUME TypeOK, Careful, Killed, \A p \in Procs : Local(p), [Next]_vars
  PROVE  \A p \in Procs : Local(p)'
<1>1. ASSUME NEW p \in Procs, Local(p)' /\ \A q \in Procs \ {p} : SameLocal(q)
      PROVE  \A q \in Procs : Local(q)'
  BY <1>1, Untouched
<1>2. CASE UNCHANGED procVars
  BY <1>2, Untouched DEF procVars, SameLocal
<1>3. ASSUME NEW p \in Procs, TaskFaults(p) PROVE \A q \in Procs : Local(q)'
  <2>1. Ends(p, "crashed")
    BY <1>3 DEF TaskFaults
  <2> QED BY <1>1, <2>1, EndsBecomes, EndsLocal
<1>4. ASSUME NEW p \in Procs, Launch(p) \/ MainStep(p) PROVE \A q \in Procs : Local(q)'
  BY <1>1, <1>4, MainLocal
<1>5. ASSUME NEW p \in Procs, CntrlStep(p) \/ EndRequest(p) \/ \E t \in Task : ServeExec(p, t)
      PROVE  \A q \in Procs : Local(q)'
  BY <1>1, <1>5, CntrlLocal
<1>6. ASSUME NEW p \in Procs, NEW t \in Task, ExecStep(p, t) PROVE \A q \in Procs : Local(q)'
  BY <1>1, <1>6, ExecLocal
<1>7. ASSUME NEW p \in Procs, ParentReads(p) PROVE UNCHANGED procVars
  BY <1>7 DEF ParentReads
<1>8. UNCHANGED vars => UNCHANGED procVars
  BY DEF vars
<1> HIDE DEF procVars
<1> QED
  BY <1>2, <1>3, <1>4, <1>5, <1>6, <1>7, <1>8, KillLocal DEF Next

-----------------------------------------------------------------------------
LEMMA InitStart == Init => StartInv
<1> SUFFICES ASSUME Init PROVE StartInv
  OBVIOUS
<1>1. TypeOK
  <2>1. /\ main = [p \in Procs |-> "idle"] /\ next = [p \in Procs |-> 1]
        /\ cntrl = [p \in Procs |-> "none"]
        /\ exec = [p \in Procs |-> [t \in Task |-> "none"]]
        /\ sdi = [p \in Procs |-> FALSE] /\ term = [p \in Procs |-> FALSE]
        /\ wakeUp = [p \in Procs |-> [t \in Task |-> FALSE]]
        /\ signal = [p \in Procs |-> [t \in Task |-> FALSE]]
        /\ start = [p \in Procs |-> [t \in Task |-> FALSE]]
        /\ parent = [p \in Procs |-> "none"] /\ pipe = [p \in Procs |-> ""]
        /\ pidFile = "none" /\ mbox = "none" /\ kill = [pc |-> "idle", pid |-> "none"]
    BY DEF Init
  <2>2. 1 \in Task
    BY StartAssumption DEF Task
  <2> QED
    BY <2>1, <2>2, TypeIs DEF Typed, ExecStates
<1>2. \A p \in Procs : Local(p)
  BY DEF Init, Local, CntrlFollows, ExecsFollow, EndAnswered, SdiThere, NothingEarly,
         SdiUsed, Gone, Ending, Dead
<1>3. Files /\ Killed
  BY DEF Init, Files, Killed, OwnsFile
<1> QED BY <1>1, <1>2, <1>3 DEF StartInv

LEMMA NextTask ==
  ASSUME NEW n \in Task, n < NbTask
  PROVE  n + 1 \in Task
BY StartAssumption DEF Task

LEMMA WaitExecMoves ==
  ASSUME NEW p \in Procs, WaitExec(p)
  PROVE  /\ next' = next \/ (next[p] < NbTask /\ next' = [next EXCEPT ![p] = next[p] + 1])
         /\ \E to \in {"error", "exec", "wakeCntrl"} : main' = [main EXCEPT ![p] = to]
         /\ UNCHANGED <<cntrl, exec, sdi, wakeUp, signal, start, term, parentVars,
                        pidFile, mbox, kill>>
BY DEF WaitExec, Goes

\* Every step keeps the types.
LEMMA NextTypes ==
  ASSUME TypeOK, Killed, [Next]_vars
  PROVE  TypeOK'
<1>0. Typed
  BY TypeIs
<1> SUFFICES Typed'
  BY TypeIsNext
<1> USE <1>0 DEF Typed
<1>8. {"none", "init", "named", "ok", "bad", "badGiven", "wait", "suspended", "ended", Dead}
        \subseteq ExecStates
  BY DEF ExecStates
<1>1. ASSUME NEW p \in Procs, NEW how \in {Dead, "crashed"}, Ends(p, how)
      PROVE  main' \in [Procs -> {"idle", "sdi", "pid", "write", "cntrl", "waitCntrl",
                                  "exec", "waitExec", "wakeCntrl", "tell", "ready",
                                  "error", "deleted", "crashed", Dead}]
             /\ cntrl' \in [Procs -> {"none", "init", "ok", "bad", "badGiven", "serving",
                                      "suspended", "ending", "unlink", "exit", Dead}]
             /\ exec' \in [Procs -> [Task -> ExecStates]]
             /\ sdi' \in [Procs -> BOOLEAN]
             /\ UNCHANGED <<next, wakeUp, signal, start, term>>
  BY <1>8, <1>1 DEF Ends
<1>2. ASSUME NEW p \in Procs, Launch(p) \/ TaskFaults(p) \/ ParentReads(p) PROVE Typed'
  <2>1. CASE Launch(p)
    BY <2>1 DEF Launch
  <2>2. CASE TaskFaults(p)
    BY <1>1, <2>2 DEF TaskFaults, parentVars
  <2>3. CASE ParentReads(p)
    BY <2>3 DEF ParentReads, procVars
  <2> QED BY <1>2, <2>1, <2>2, <2>3
<1>3. ASSUME NEW p \in Procs, MainStep(p) PROVE Typed'
  <2> USE DEF Goes, parentVars
  <2>1. CASE CreateSDI(p)
    BY <2>1 DEF CreateSDI
  <2>2. CASE CreatePidFile(p)
    BY <2>2 DEF CreatePidFile
  <2>3. CASE WritePidFile(p)
    BY <2>3 DEF WritePidFile
  <2>4. CASE SpawnCntrl(p)
    BY <2>4 DEF SpawnCntrl
  <2>5. CASE WaitCntrl(p)
    BY <2>5 DEF WaitCntrl
  <2>6. CASE SpawnExec(p)
    <3>1. exec' \in [Procs -> [Task -> ExecStates]]
      <4>1. next[p] \in Task
        OBVIOUS
      <4>2. CASE exec' = [exec EXCEPT ![p][next[p]] = "init"]
        BY <1>8, <4>1, <4>2
      <4> QED BY <2>6, <4>2 DEF SpawnExec
    <3> QED BY <2>6, <3>1 DEF SpawnExec
  <2>7. CASE WaitExec(p)
    <3>1. next[p] \in Task
      OBVIOUS
    <3>2. next[p] < NbTask => next[p] + 1 \in Task
      BY <3>1, NextTask
    <3>3. PICK to \in {"error", "exec", "wakeCntrl"} : main' = [main EXCEPT ![p] = to]
      BY <2>7, WaitExecMoves
    <3>4. UNCHANGED <<cntrl, exec, sdi, wakeUp, signal, start, term, parentVars,
                      pidFile, mbox, kill>>
      BY <2>7, WaitExecMoves
    <3>5. next' \in [Procs -> Task]
      <4>1. CASE next' = next
        BY <4>1
      <4>2. CASE next[p] < NbTask /\ next' = [next EXCEPT ![p] = next[p] + 1]
        BY <3>2, <4>2
      <4> QED BY <2>7, <4>1, <4>2, WaitExecMoves
    <3> QED BY <3>3, <3>4, <3>5
  <2>8. CASE WakeCntrl(p)
    BY <2>8 DEF WakeCntrl
  <2>9. CASE Tell(p)
    BY <2>9 DEF Tell
  <2>10. CASE TaskInitError(p)
    <3>1. CASE Dies(p) /\ pipe' = [pipe EXCEPT ![p] = "error"]
                 /\ UNCHANGED <<parent, pidFile, mbox, kill>>
      BY <1>1, <3>1 DEF Dies
    <3>2. CASE Goes(p, "error", "deleted") /\ sdi' = [sdi EXCEPT ![p] = FALSE]
                 /\ UNCHANGED <<next, cntrl, exec, wakeUp, signal, start, term, parentVars,
                                pidFile, mbox, kill>>
      BY <3>2
    <3> QED BY <2>10, <3>1, <3>2 DEF TaskInitError
  <2> QED
    BY <1>3, <2>1, <2>2, <2>3, <2>4, <2>5, <2>6, <2>7, <2>8, <2>9, <2>10 DEF MainStep
<1>4. ASSUME NEW p \in Procs, CntrlStep(p) \/ EndRequest(p) PROVE Typed'
  <2> USE DEF parentVars
  <2>1. CASE CntrlInitTask(p)
    BY <2>1 DEF CntrlInitTask
  <2>2. CASE CntrlGives(p)
    BY <2>2 DEF CntrlGives
  <2>3. CASE CntrlTaskSuspend(p)
    BY <2>3 DEF CntrlTaskSuspend
  <2>4. CASE SignalEnd(p)
    BY <2>4 DEF SignalEnd
  <2>5. CASE SignalEndDelete(p)
    BY <2>5 DEF SignalEndDelete
  <2>6. CASE SignalEndExit(p)
    BY <1>1, <2>6 DEF SignalEndExit, Dies
  <2>7. CASE EndRequest(p)
    BY <2>7 DEF EndRequest
  <2> QED
    BY <1>4, <2>1, <2>2, <2>3, <2>4, <2>5, <2>6, <2>7 DEF CntrlStep
<1>5. ASSUME NEW p \in Procs, NEW t \in Task, ExecStep(p, t) \/ ServeExec(p, t) PROVE Typed'
  <2> USE DEF parentVars
  <2>1. CASE InitTaskFunc(p, t)
    <3>1. ASSUME NEW r \in {"named", "ok", "bad"}, exec' = [exec EXCEPT ![p][t] = r]
          PROVE  exec' \in [Procs -> [Task -> ExecStates]]
      BY <1>8, <3>1
    <3>2. CASE wakeUp' = [wakeUp EXCEPT ![p][t] = FALSE]
      BY <2>1, <3>1, <3>2 DEF InitTaskFunc
    <3>3. CASE wakeUp' = wakeUp
      BY <2>1, <3>1, <3>3 DEF InitTaskFunc
    <3> QED BY <2>1, <3>2, <3>3 DEF InitTaskFunc
  <2>2. CASE ExecGives(p, t)
    BY <1>8, <2>2 DEF ExecGives
  <2>3. CASE Suspend(p, t)
    BY <1>8, <2>3 DEF Suspend
  <2>4. CASE ExecTurn(p, t)
    <3>1. signal' = [signal EXCEPT ![p][t] = FALSE]
          /\ UNCHANGED <<main, next, cntrl, sdi, term, parentVars, pidFile, mbox, kill>>
      BY <2>4 DEF ExecTurn
    <3>2. CASE /\ exec' = [exec EXCEPT ![p][t] = "ended"] /\ UNCHANGED start
               /\ wakeUp' = [wakeUp EXCEPT ![p][t] = FALSE]
      <4>1. exec' \in [Procs -> [Task -> ExecStates]]
        BY <1>8, <3>2
      <4> QED BY <3>1, <3>2, <4>1
    <3>3. CASE start' = [start EXCEPT ![p][t] = FALSE] /\ UNCHANGED <<exec, wakeUp>>
      BY <3>1, <3>3
    <3> QED BY <2>4, <3>2, <3>3 DEF ExecTurn
  <2>5. CASE ServeExec(p, t)
    BY <2>5 DEF ServeExec
  <2> QED BY <1>5, <2>1, <2>2, <2>3, <2>4, <2>5 DEF ExecStep
<1>6. ASSUME KillRead \/ KillStep PROVE Typed'
  <2> USE DEF parentVars, procVars
  <2>1. CASE KillRead
    BY <2>1 DEF KillRead
  <2>2. CASE KillProbe
    <3>1. kill.pid \in Procs
      BY <2>2 DEF KillProbe, Killed
    <3>2. CASE UNCHANGED procVars \/ Dies(kill.pid)
      BY <1>1, <2>2, <3>1, <3>2 DEF KillProbe, Dies
    <3>3. CASE term' = [term EXCEPT ![kill.pid] = TRUE]
                 /\ UNCHANGED <<main, next, cntrl, exec, sdi, wakeUp, signal, start>>
      BY <2>2, <3>1, <3>3 DEF KillProbe
    <3> QED BY <2>2, <3>2, <3>3 DEF KillProbe, Signal15
  <2>3. CASE KillPoll
    BY <2>3 DEF KillPoll
  <2>4. CASE KillInt
    <3>1. kill.pid \in Procs
      BY <2>4 DEF KillInt, Killed
    <3> QED BY <1>1, <2>4, <3>1 DEF KillInt, Dies
  <2>5. CASE KillClean
    BY <2>5 DEF KillClean
  <2> QED BY <1>6, <2>1, <2>2, <2>3, <2>4, <2>5 DEF KillStep
<1>7. CASE UNCHANGED vars
  BY <1>7 DEF vars, procVars, parentVars
<1> HIDE DEF Typed
<1> QED
  BY <1>2, <1>3, <1>4, <1>5, <1>6, <1>7 DEF Next

-----------------------------------------------------------------------------
\* A step where process q claims no more of the files than it did, and goes on
\* with killmodule as it was.
Quiet(q) ==
  /\ main'[q] = "write" => main[q] = "write"
  /\ OwnsFile(q)' => OwnsFile(q)
  /\ cntrl'[q] \in {"ok", "serving", "ending"} => cntrl[q] \in {"ok", "serving", "ending"}

Calm(q) ==
  kill.pc \notin {"idle", "over"} /\ (main[q] \in {"idle", "ready"} \/ Gone(q)) =>
    /\ main'[q] \in {"idle", "ready"} \/ Gone(q)'
    /\ main'[q] = "ready" /\ cntrl'[q] # "exit" => main[q] = "ready" /\ cntrl[q] # "exit"

LEMMA SameQuiet ==
  ASSUME NEW q \in Procs, SameLocal(q)
  PROVE  Quiet(q) /\ Calm(q)
BY DEF SameLocal, Quiet, Calm, OwnsFile, Gone

LEMMA QuietFiles ==
  ASSUME Files, \A q \in Procs : Quiet(q), UNCHANGED <<pidFile, mbox>>
  PROVE  Files'
<1>1. \A p \in Procs : main'[p] = "write" => pidFile' = "empty"
  BY DEF Files, Quiet
<1>2. \A p, q \in Procs : main'[p] = "write" /\ main'[q] = "write" => p = q
  BY DEF Files, Quiet
<1>3. \A p \in Procs : OwnsFile(p)' => pidFile' = p
  BY DEF Files, Quiet
<1>4. \A p \in Procs : cntrl'[p] \in {"ok", "serving", "ending"} => mbox' = p
  BY DEF Files, Quiet
<1> QED
  BY <1>1, <1>2, <1>3, <1>4 DEF Files

LEMMA CalmKilled ==
  ASSUME Killed, \A q \in Procs : Calm(q), UNCHANGED kill
  PROVE  Killed'
<1>1. kill.pc \notin {"idle", "over"} => \A p \in Procs : main[p] \in {"idle", "ready"} \/ Gone(p)
  BY DEF Killed
<1> QED
  BY <1>1 DEF Killed, Calm

\* The steps of one process.
LEMMA MainFiles ==
  ASSUME TypeOK, Careful, Files, \A q \in Procs : Local(q), NEW p \in Procs,
         Launch(p) \/ MainStep(p)
  PROVE  Files' /\ (\A q \in Procs : Calm(q)) /\ UNCHANGED kill
<1>0. \A q \in Procs \ {p} : SameLocal(q)
  BY MainLocal
<1>1. \A q \in Procs \ {p} : Quiet(q) /\ Calm(q)
  BY <1>0, SameQuiet
<1>5. /\ main[p] \notin {"ready", Dead, "crashed"}
      /\ main[p] = "idle" => kill.pc \in {"idle", "over"}
  BY DEF Launch, MainStep, CreateSDI, CreatePidFile, WritePidFile, SpawnCntrl, WaitCntrl,
         SpawnExec, WaitExec, WakeCntrl, Tell, TaskInitError, Goes, Dead
<1>6. Calm(p)
  BY <1>5 DEF Calm, Gone
<1>7. UNCHANGED kill
  BY DEF Launch, MainStep, CreateSDI, CreatePidFile, WritePidFile, SpawnCntrl, WaitCntrl,
         SpawnExec, WaitExec, WakeCntrl, Tell, TaskInitError
<1>8. CASE CreatePidFile(p) /\ pidFile' # pidFile
  <2>1. /\ main[p] = "pid" /\ pidFile = "none" /\ main'[p] = "write" /\ pidFile' = "empty"
        /\ UNCHANGED <<cntrl, mbox>>
    BY <1>8, TypeIs DEF Typed, CreatePidFile, Goes
  <2>2. \A q \in Procs : main[q] # "write" /\ ~OwnsFile(q)
    BY <2>1, StartAssumption DEF Files
  <2>3. \A q \in Procs \ {p} : main'[q] # "write" /\ ~OwnsFile(q)'
    BY <1>1, <2>2 DEF Quiet
  <2>4. ~OwnsFile(p)'
    BY <2>1 DEF OwnsFile
  <2>5. Files'
    BY <2>1, <2>3, <2>4 DEF Files
  <2> QED BY <1>1, <1>6, <1>7, <2>5
<1>9. CASE WritePidFile(p) /\ pidFile' # pidFile
  <2>1. main[p] = "write" /\ main'[p] = "cntrl" /\ pidFile = "empty"
    BY <1>9, TypeIs DEF Typed, WritePidFile, Goes, Files
  <2>2. pidFile' = p /\ UNCHANGED <<cntrl, mbox>>
    BY <1>9, <2>1 DEF WritePidFile
  <2>3. \A q \in Procs : ~OwnsFile(q)
    BY <2>1, StartAssumption DEF Files
  <2>4. \A q \in Procs \ {p} : main'[q] # "write" /\ ~OwnsFile(q)'
    BY <1>1, <2>1, <2>3 DEF Quiet, Files
  <2>5. Files'
    BY <2>1, <2>2, <2>4 DEF Files
  <2> QED BY <1>1, <1>6, <1>7, <2>5
<1>10. CASE pidFile' = pidFile
  <2>1. Quiet(p)
    <3>1. CASE Launch(p) \/ CreateSDI(p) \/ CreatePidFile(p)
      BY <1>10, <3>1, TypeIs DEF Typed, Launch, CreateSDI, CreatePidFile, Goes, Quiet, OwnsFile
    <3>2. CASE SpawnCntrl(p) \/ WaitCntrl(p) \/ SpawnExec(p)
      BY <3>2, TypeIs DEF Typed, SpawnCntrl, WaitCntrl, SpawnExec, Goes, Quiet, OwnsFile,
                          Local, CntrlFollows
    <3>3. CASE WaitExec(p) \/ WakeCntrl(p) \/ Tell(p)
      BY <3>3, TypeIs DEF Typed, WaitExec, WakeCntrl, Tell, Goes, Quiet, OwnsFile
    <3>4. CASE TaskInitError(p)
      <4>1. CASE Dies(p)
        BY <4>1, EndsBecomes DEF Dies, Becomes, Quiet, OwnsFile, Dead
      <4>2. CASE Goes(p, "error", "deleted") /\ UNCHANGED cntrl
        BY <4>2, TypeIs DEF Typed, Goes, Quiet, OwnsFile
      <4> QED BY <3>4, <4>1, <4>2 DEF TaskInitError
    <3>5. CASE WritePidFile(p)
      <4>1. main[p] = "write" /\ pidFile = "empty" /\ p # "empty"
        BY <3>5, StartAssumption DEF WritePidFile, Goes, Files
      <4>2. main'[p] = "error" /\ UNCHANGED cntrl
        BY <1>10, <3>5, <4>1, TypeIs DEF Typed, WritePidFile, Goes
      <4> QED BY <4>1, <4>2 DEF Quiet, OwnsFile
    <3> QED BY <1>10, <3>1, <3>2, <3>3, <3>4, <3>5 DEF MainStep
  <2>2. UNCHANGED mbox
    BY DEF Launch, MainStep, CreateSDI, CreatePidFile, WritePidFile, SpawnCntrl, WaitCntrl,
           SpawnExec, WaitExec, WakeCntrl, Tell, TaskInitError
  <2> QED BY <1>1, <1>6, <1>7, <1>10, <2>1, <2>2, QuietFiles
<1>11. pidFile' = pidFile \/ CreatePidFile(p) \/ WritePidFile(p)
  BY DEF Launch, MainStep, CreateSDI, SpawnCntrl, WaitCntrl, SpawnExec, WaitExec, WakeCntrl,
         Tell, TaskInitError
<1> QED
  BY <1>8, <1>9, <1>10, <1>11

LEMMA CntrlFiles ==
  ASSUME TypeOK, Careful, Files, \A q \in Procs : Local(q), NEW p \in Procs,
         CntrlStep(p) \/ EndRequest(p) \/ \E t \in Task : ServeExec(p, t)
  PROVE  Files' /\ (\A q \in Procs : Calm(q)) /\ UNCHANGED kill
<1>0. \A q \in Procs \ {p} : SameLocal(q)
  BY CntrlLocal
<1>1. \A q \in Procs \ {p} : Quiet(q) /\ Calm(q)
  BY <1>0, SameQuiet
<1>2. UNCHANGED kill
  BY DEF CntrlStep, CntrlInitTask, CntrlGives, CntrlTaskSuspend, SignalEnd, SignalEndDelete,
         SignalEndExit, EndRequest, ServeExec
<1> DEFINE Goal == Files' /\ (\A q \in Procs : Calm(q))
<1>3. ASSUME Quiet(p), Calm(p), UNCHANGED <<pidFile, mbox>> PROVE Goal
  BY <1>1, <1>3, QuietFiles
<1>4. ASSUME Dies(p), UNCHANGED <<pidFile, mbox>> PROVE Goal
  <2>1. main'[p] = Dead /\ cntrl'[p] = Dead
    BY <1>4, EndsBecomes DEF Dies, Becomes
  <2>2. Quiet(p) /\ Calm(p)
    BY <2>1 DEF Quiet, Calm, OwnsFile, Gone, Dead
  <2> QED BY <1>3, <1>4, <2>2
<1>5. ASSUME CntrlInitTask(p) PROVE Goal
  <2>1. /\ cntrl[p] = "init" /\ cntrl'[p] \in {"ok", "bad"} /\ UNCHANGED <<main, pidFile>>
        /\ \/ mbox = "none" /\ mbox' = p
           \/ cntrl'[p] = "bad" /\ mbox' = mbox
    BY <1>5, TypeIs DEF Typed, CntrlInitTask
  <2>2. Quiet(p) \/ cntrl'[p] = "ok"
    BY <2>1 DEF Quiet, OwnsFile
  <2>3. Calm(p)
    BY <2>1 DEF Calm, Gone, Local, CntrlFollows, Dead, Up
  <2>4. CASE cntrl'[p] = "bad" /\ mbox' = mbox
    BY <1>3, <2>1, <2>2, <2>3, <2>4
  <2>5. CASE mbox = "none" /\ mbox' = p
    <3>1. \A q \in Procs : cntrl[q] \notin {"ok", "serving", "ending"}
      BY <2>5, StartAssumption DEF Files
    <3>2. \A q \in Procs \ {p} : cntrl'[q] \notin {"ok", "serving", "ending"}
      BY <1>1, <3>1 DEF Quiet
    <3>3. \A q \in Procs : cntrl'[q] \in {"ok", "serving", "ending"} => mbox' = q
      BY <2>5, <3>2
    <3>4. \A q \in Procs : OwnsFile(q)' => pidFile' = q
      BY <1>1, <2>1 DEF Files, Quiet, OwnsFile
    <3>5. Files'
      BY <2>1, <3>3, <3>4 DEF Files
    <3> QED BY <1>1, <2>3, <3>5
  <2> QED BY <2>1, <2>4, <2>5
<1>6. ASSUME CntrlGives(p) \/ CntrlTaskSuspend(p) \/ SignalEnd(p) PROVE Goal
  <2>1. /\ UNCHANGED <<main, pidFile, mbox>>
        /\ cntrl[p] \in {"ok", "bad", "badGiven", "serving"}
        /\ cntrl'[p] \in {"serving", "ending"} => cntrl[p] \in {"ok", "serving"}
        /\ cntrl'[p] \in {"serving", "ending", "badGiven", "suspended"}
    BY <1>6, TypeIs DEF Typed, CntrlGives, CntrlTaskSuspend, SignalEnd
  <2>2. Quiet(p) /\ Calm(p)
    BY <2>1 DEF Quiet, Calm, OwnsFile, Gone
  <2> QED BY <1>3, <2>1, <2>2
<1>7. ASSUME SignalEndDelete(p) PROVE Goal
  <2>1. /\ UNCHANGED <<main, pidFile>> /\ cntrl[p] = "ending" /\ cntrl'[p] = "unlink"
    BY <1>7, TypeIs DEF Typed, SignalEndDelete
  <2>2. Quiet(p) /\ Calm(p)
    BY <2>1 DEF Quiet, Calm, OwnsFile, Gone
  <2>3. mbox = p
    BY <2>1 DEF Files
  <2>4. \A q \in Procs \ {p} : cntrl[q] \notin {"ok", "serving", "ending"}
    BY <2>3 DEF Files
  <2>5. \A q \in Procs : cntrl'[q] \notin {"ok", "serving", "ending"}
    BY <1>1, <2>1, <2>4 DEF Quiet
  <2>6. \A q \in Procs : OwnsFile(q)' => pidFile' = q
    BY <1>1, <2>1, <2>2 DEF Files, Quiet
  <2>7. Files'
    BY <2>1, <2>5, <2>6 DEF Files
  <2> QED BY <1>1, <2>2, <2>7
<1>8. ASSUME SignalEndExit(p) PROVE Goal
  <2>1. CASE Dies(p) /\ UNCHANGED <<pidFile, mbox>>
    BY <1>4, <2>1
  <2>2. CASE cntrl[p] = "unlink" /\ cntrl' = [cntrl EXCEPT ![p] = "exit"]
               /\ pidFile' = "none" /\ UNCHANGED <<main, mbox>>
    <3>1. cntrl'[p] = "exit"
      BY <2>2, TypeIs DEF Typed
    <3>2. Quiet(p) /\ Calm(p)
      BY <2>2, <3>1 DEF Quiet, Calm, OwnsFile, Gone
    <3>3. main[p] = "ready" /\ OwnsFile(p)
      BY <2>2 DEF Local, CntrlFollows, Ending, OwnsFile
    <3>4. pidFile = p
      BY <3>3 DEF Files
    <3>5. \A q \in Procs : main[q] # "write" /\ (OwnsFile(q) => q = p)
      BY <3>4, StartAssumption DEF Files
    <3>6. ~OwnsFile(p)'
      BY <3>1 DEF OwnsFile
    <3>7. \A q \in Procs : main'[q] # "write" /\ ~OwnsFile(q)'
      BY <1>1, <2>2, <3>5, <3>6 DEF Quiet
    <3>8. \A q \in Procs : cntrl'[q] \in {"ok", "serving", "ending"} => mbox' = q
      BY <1>1, <2>2, <3>2 DEF Files, Quiet
    <3>9. Files'
      BY <3>7, <3>8 DEF Files
    <3> QED BY <1>1, <3>2, <3>9
  <2> QED BY <1>8, <2>1, <2>2 DEF SignalEndExit
<1>9. ASSUME EndRequest(p) \/ \E t \in Task : ServeExec(p, t) PROVE Goal
  <2>1. UNCHANGED <<main, cntrl, pidFile, mbox>>
    BY <1>9 DEF EndRequest, ServeExec
  <2>2. Quiet(p) /\ Calm(p)
    BY <2>1 DEF Quiet, Calm, OwnsFile, Gone
  <2> QED BY <1>3, <2>1, <2>2
<1> HIDE DEF Goal
<1>10. Goal
  BY <1>5, <1>6, <1>7, <1>8, <1>9 DEF CntrlStep
<1> QED
  BY <1>2, <1>10 DEF Goal

\* killmodule removes the pid file and the mailbox of processes that are over.
LEMMA KillFiles ==
  ASSUME TypeOK, Careful, Files, Killed, \A q \in Procs : Local(q), KillRead \/ KillStep
  PROVE  Files' /\ Killed'
<1> DEFINE Goal == Files' /\ Killed'
<1>0. kill \in [pc : {"idle", "probe", "poll", "int", "clean", "over"},
               pid : Procs \cup {"none"}]
  BY TypeIs DEF Typed
<1>1. ASSUME UNCHANGED <<main, cntrl, pidFile, mbox>> PROVE Files'
  BY <1>1 DEF Files, OwnsFile
<1>2. CASE KillRead
  <2>1. UNCHANGED <<main, cntrl, pidFile, mbox>> /\ \A p \in Procs : Alive(p) => main[p] = "ready"
    BY <1>2 DEF KillRead, procVars
  <2>2. \A p \in Procs : main'[p] \in {"idle", "ready"} \/ Gone(p)'
    BY <2>1 DEF Alive, Gone
  <2>3. \A p \in Procs : main'[p] = "ready" /\ cntrl'[p] # "exit" => pidFile = p
    BY <2>1 DEF Files, OwnsFile
  <2>4. \/ pidFile = "empty" /\ kill' = [pc |-> "clean", pid |-> "none"]
        \/ pidFile \in Procs /\ kill' = [pc |-> "probe", pid |-> pidFile]
    BY <1>2, TypeIs DEF Typed, KillRead
  <2>5. Killed'
    BY <2>2, <2>3, <2>4, StartAssumption DEF Killed
  <2> QED BY <1>1, <2>1, <2>5
<1>3. ASSUME kill.pc \in {"probe", "poll", "int", "clean"}, UNCHANGED <<main, cntrl>>,
             NEW c \in {"poll", "int", "clean", "over"}, kill' = [kill EXCEPT !.pc = c],
             c = "clean" => \A p \in Procs : main[p] = "ready" => cntrl[p] = "exit",
             kill.pc = "clean" => c = "over"
      PROVE  Killed'
  <2>1. kill'.pc = c /\ kill'.pid = kill.pid
    BY <1>0, <1>3
  <2> QED
    BY <1>3, <2>1 DEF Killed, Gone
<1>4. ASSUME Dies(kill.pid), kill.pc \in {"probe", "int"}, NEW c \in {"poll", "clean"},
             kill' = [kill EXCEPT !.pc = c], UNCHANGED <<pidFile, mbox>>
      PROVE  Goal
  <2>1. PICK p \in Procs : p = kill.pid
    BY <1>4 DEF Killed
  <2>2. main'[p] = Dead /\ cntrl'[p] = Dead /\ \A q \in Procs \ {p} : SameLocal(q)
    BY <1>4, <2>1, EndsBecomes DEF Dies, Becomes
  <2>3. Quiet(p)
    BY <2>2 DEF Quiet, OwnsFile, Dead
  <2>4. Files'
    BY <1>4, <2>2, <2>3, SameQuiet, QuietFiles
  <2>5. \A q \in Procs : main'[q] \in {"idle", "ready"} \/ Gone(q)'
    BY <1>4, <2>2 DEF Killed, SameLocal, Gone
  <2>6. \A q \in Procs : main'[q] = "ready" => cntrl'[q] = "exit"
    BY <1>4, <2>1, <2>2 DEF Killed, SameLocal, Dead
  <2>7. kill'.pc = c /\ kill'.pid = kill.pid
    BY <1>0, <1>4
  <2>8. Killed'
    BY <1>4, <2>1, <2>5, <2>6, <2>7 DEF Killed
  <2> QED BY <2>4, <2>8
<1>5. CASE KillProbe
  <2>1. CASE Alive(kill.pid) /\ Dies(kill.pid)
    BY <1>4, <1>5, <2>1 DEF KillProbe
  <2>2. CASE /\ Alive(kill.pid) /\ UNCHANGED <<main, cntrl, pidFile, mbox>>
             /\ kill' = [kill EXCEPT !.pc = "poll"]
    BY <1>1, <1>3, <1>5, <2>2 DEF KillProbe
  <2>3. CASE ~Alive(kill.pid)
    <3>1. \A p \in Procs : main[p] = "ready" => cntrl[p] = "exit"
      BY <1>5, <2>3 DEF KillProbe, Killed, Alive, Gone, Dead
    <3>2. UNCHANGED <<main, cntrl, pidFile, mbox>> /\ kill' = [kill EXCEPT !.pc = "clean"]
      BY <1>5, <2>3 DEF KillProbe, procVars
    <3> QED BY <1>1, <1>3, <1>5, <3>1, <3>2 DEF KillProbe
  <2> QED
    BY <1>5, <2>1, <2>2, <2>3 DEF KillProbe, Signal15
<1>6. CASE KillPoll
  <2>1. UNCHANGED <<main, cntrl, pidFile, mbox>> /\ kill.pc = "poll"
    BY <1>6 DEF KillPoll, procVars
  <2>2. kill' = [kill EXCEPT !.pc = "over"] \/ kill' = [kill EXCEPT !.pc = "int"]
    BY <1>6 DEF KillPoll
  <2> QED BY <1>1, <1>3, <2>1, <2>2
<1>7. CASE KillInt
  <2>1. CASE Dies(kill.pid)
    BY <1>4, <1>7, <2>1 DEF KillInt
  <2>2. CASE ~Alive(kill.pid) /\ UNCHANGED procVars
    <3>1. \A p \in Procs : main[p] = "ready" => cntrl[p] = "exit"
      BY <1>7, <2>2 DEF KillInt, Killed, Alive, Gone, Dead
    <3>2. UNCHANGED <<main, cntrl, pidFile, mbox>> /\ kill' = [kill EXCEPT !.pc = "clean"]
      BY <1>7, <2>2 DEF KillInt, procVars
    <3> QED BY <1>1, <1>3, <1>7, <3>1, <3>2 DEF KillInt
  <2> QED BY <1>7, <2>1, <2>2 DEF KillInt
<1>8. CASE KillClean
  <2>1. /\ kill.pc = "clean" /\ kill' = [kill EXCEPT !.pc = "over"]
        /\ UNCHANGED <<main, cntrl>>
    BY <1>8 DEF KillClean, procVars
  <2>2. \A p \in Procs : \/ main[p] = "idle" \/ Gone(p)
                         \/ main[p] = "ready" /\ cntrl[p] = "exit"
    BY <2>1 DEF Killed
  <2>3. \A p \in Procs : /\ main[p] # "write" /\ ~OwnsFile(p)
                         /\ cntrl[p] \notin {"ok", "serving", "ending"}
    BY <2>2 DEF OwnsFile, Gone, Dead, Local, CntrlFollows
  <2>4. Files'
    BY <2>1, <2>3 DEF Files, OwnsFile
  <2>5. Killed'
    BY <1>3, <2>1
  <2> QED BY <2>4, <2>5
<1> QED
  BY <1>2, <1>5, <1>6, <1>7, <1>8 DEF KillStep

-----------------------------------------------------------------------------
LEMMA NextStart ==
  ASSUME Careful, StartInv, [Next]_vars
  PROVE  StartInv'
<1> USE DEF StartInv
<1>1. TypeOK' /\ \A p \in Procs : Local(p)'
  BY NextTypes, NextLocal
<1> DEFINE Goal == Files' /\ Killed'
<1>2. ASSUME NEW p \in Procs, Launch(p) \/ MainStep(p) PROVE Goal
  BY <1>2, MainFiles, CalmKilled
<1>3. ASSUME NEW p \in Procs,
             CntrlStep(p) \/ EndRequest(p) \/ \E t \in Task : ServeExec(p, t)
      PROVE  Goal
  BY <1>3, CntrlFiles, CalmKilled
<1>4. ASSUME KillRead \/ KillStep PROVE Goal
  BY <1>4, KillFiles
<1>5. ASSUME UNCHANGED <<main, cntrl, pidFile, mbox, kill>> PROVE Goal
  BY <1>5 DEF Files, Killed, OwnsFile, Gone
<1>6. ASSUME NEW p \in Procs, NEW t \in Task, ExecStep(p, t) PROVE Goal
  <2>1. UNCHANGED <<main, cntrl, pidFile, mbox, kill>>
    BY <1>6 DEF ExecStep, InitTaskFunc, ExecGives, Suspend, ExecTurn
  <2> QED BY <1>5, <2>1
<1>7. ASSUME NEW p \in Procs, ParentReads(p) PROVE Goal
  <2>1. UNCHANGED <<main, cntrl, pidFile, mbox, kill>>
    BY <1>7 DEF ParentReads, procVars
  <2> QED BY <1>5, <2>1
<1>8. ASSUME NEW p \in Procs, TaskFaults(p) PROVE Goal
  <2>1. Ends(p, "crashed") /\ UNCHANGED <<pidFile, mbox, kill>>
    BY <1>8 DEF TaskFaults
  <2>2. main'[p] = "crashed" /\ cntrl'[p] = Dead /\ \A q \in Procs \ {p} : SameLocal(q)
    BY <2>1, EndsBecomes DEF Becomes
  <2>3. Quiet(p) /\ Calm(p)
    BY <2>2 DEF Quiet, Calm, OwnsFile, Gone, Dead
  <2> QED BY <2>1, <2>2, <2>3, SameQuiet, QuietFiles, CalmKilled
<1>9. ASSUME UNCHANGED vars PROVE Goal
  BY <1>5, <1>9 DEF vars, procVars
<1> HIDE DEF Goal, StartInv
<1>10. Goal
  BY <1>2, <1>3, <1>4, <1>6, <1>7, <1>8, <1>9 DEF Next
<1> QED
  BY <1>1, <1>10 DEF Goal, StartInv

\* Starts, killmodule and what the module is asked, each when the start before is
\* over: the threads of each process follow its main thread, the pid file and the
\* mailbox are those of the module that is up.
THEOREM StartInvariant == Careful => (Spec => []StartInv)
<1> SUFFICES ASSUME Careful PROVE Spec => []StartInv
  OBVIOUS
<1> QED
  BY InitStart, NextStart, PTL DEF Spec

\* TaskInit waits for every task before main tells the parent: a module that says
\* it is ready has its tasks, its pid file and its mailbox, until it is ended.
THEOREM ReadyMeansUpHolds == Careful => (Spec => []ReadyMeansUp)
<1>1. StartInv => ReadyMeansUp
  BY DEF StartInv, Local, CntrlFollows, ExecsFollow, Files, OwnsFile, Up, Ran, ReadyMeansUp
<1> QED
  BY <1>1, StartInvariant, PTL

\* SignalEnd deletes the SDIs once every task has answered, and TaskInit only when
\* the start failed: no thread uses SDIs that were deleted otherwise.
THEOREM SdiAliveHolds == Careful => (Spec => []SdiAlive)
<1>1. StartInv => SdiAlive
  BY DEF StartInv, Local, SdiThere, SdiAlive
<1> QED
  BY <1>1, StartInvariant, PTL

\* h2evnSignal and the identifier recorded by InitTaskFunc: work given to a task
\* once the start is over wakes the task up.
THEOREM StartSignalledHolds == Careful => (Spec => []StartSignalled)
<1>1. StartInv => StartSignalled
  BY DEF StartInv, Local, NothingEarly, StartSignalled
<1> QED
  BY <1>1, StartInvariant, PTL
=============================================================================
