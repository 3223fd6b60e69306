----------------------------- MODULE GenomModule -----------------------------
(***************************************************************************)
(* A running module: its control task, its execution tasks and the clients *)
(* and events around them, over the shared SDI.  The start-up sequence is  *)
(* over: the tasks are spawned and the control task was woken up once.     *)
(***************************************************************************)
EXTENDS CntrlTask, ExecTask

vars == <<sdiVars, cntrlVars, exec>>

Init == InitSDI /\ InitCntrl /\ InitExec

TypeOK == TypeSDI /\ TypeCntrl /\ TypeExec

-----------------------------------------------------------------------------
\* A client puts a request in the mailbox, which wakes the control task up.
ClientSend ==
  /\ nbSent < MaxRqst
  /\ nbSent' = nbSent + 1
  /\ signal' = Signalled({Cntrl})
  /\ UNCHANGED <<act, nbActivities, taskNbActi, taskStatus, halts, wakeUp,
                 stopModule, initRqst, sdiFree, nbRcvd, replies, cntrlVars, exec>>

\* Another module or a reply wakes an aperiodic task up.
ExternalEvent(t) ==
  /\ t \notin Periodic
  /\ ~signal[t]
  /\ signal' = Signalled({t})
  /\ UNCHANGED <<act, nbActivities, taskNbActi, taskStatus, halts, wakeUp,
                 stopModule, initRqst, sdiFree, nbSent, nbRcvd, replies,
                 cntrlVars, exec>>

Module ==
  \/ CntrlStep /\ UNCHANGED exec
  \/ \E t \in Tasks : ExecStep(t) /\ UNCHANGED cntrlVars

\* Once the control task has called exit, no task of the process runs.
Next ==
  /\ cntrlPc # "exited"
  /\ \/ Module
     \/ ClientSend
     \/ \E t \in Tasks : ExternalEvent(t)
     \/ SignalHandler /\ UNCHANGED exec

Spec == Init /\ [][Next]_vars

\* The operating system runs every task that can run; the semaphores of the
\* SDIs queue the tasks that wait for them, so none is overtaken for ever.
Fairness ==
  /\ WF_vars(CntrlStep /\ UNCHANGED exec)
  /\ SF_vars((CntrlIntEvnExec \/ SignalEnd) /\ UNCHANGED exec)
  /\ \A t \in Tasks :
       /\ WF_vars((ExecWait(t) \/ ExecRun(t)) /\ UNCHANGED cntrlVars)
       /\ SF_vars(ExecEnter(t) /\ UNCHANGED cntrlVars)

FairSpec == Spec /\ Fairness

-----------------------------------------------------------------------------
(* Safety *)

\* The counters the control task keeps by increments, in allocActivity,
\* freeActivity and CntrlIntEvnExec, agree with the activity table whatever the
\* order in which activities end, fail, are interrupted or refused.
CountersExact ==
  /\ nbActivities = Cardinality(Live)
  /\ \A t \in Tasks : taskNbActi[t] = Cardinality({i \in Live : act[i].task = t})
  /\ nbZombie = Cardinality(Zombie)

HasFinal(r) == \E n \in DOMAIN replies[r] : replies[r][n] \in Finals

\* The activities that still owe request r its final reply.
Owners(r) == {i \in Live \ Zombie : act[i].rqst = r}

\* A client gets the replies of its request in order and exactly once: nothing
\* before it is served; the intermediate reply when its activity is launched,
\* and only if it is; one final reply when the activity is over, frozen,
\* refused or cancelled, and nothing after it.
ReplyProtocol ==
  \A r \in RqstIds :
    /\ Cardinality(Owners(r)) <= 1
    /\ \A i \in Owners(r) :
         replies[r] = IF Waiting(act[i]) THEN <<>> ELSE <<"INTERMED">>
    /\ Owners(r) = {} =>
         IF r > nbRcvd \/ (r = endRqst /\ cntrlPc # "exited")
         THEN replies[r] = <<>>
         ELSE \/ \E b \in Finals : replies[r] = <<b>>
              \/ \E b \in Finals \ (Refusals \ {"SYSTEM_ERROR"}) :
                   replies[r] = <<"INTERMED", b>>

\* The number a client was given in its intermediate reply designates its
\* activity, and no other, for as long as it lives: slots are reused, numbers
\* are not, and the scan of RqstAbortActivity stops at the first slot holding
\* the number, be it a freed one or one never used.
IdDesignatesActivity ==
  \A i \in Live : /\ act[i].id \in 0 .. lastId
                  /\ HoldsId(act[i].id) = {i}

\* The activities that are launched and not over.
Running == {i \in Live \ Zombie : ~Waiting(act[i])}

\* No activity is launched while an activity launched before it, and marked
\* incompatible with it, still runs; it waits with that one in its list.
NoIncompatibleRun ==
  \A i \in Live \ Zombie, j \in Live \ Zombie :
    act[j].id < act[i].id /\ act[j].type \in Incompatible[act[i].type]
      => Waiting(act[i]) /\ j \in act[i].incomp

\* A waiting activity never waits for an older one that waits too, so that
\* waiting activities cannot wait for one another in a circle, even when a slot
\* of the list was freed and taken by another activity.
NoCircularWait ==
  \A i \in Slots : Waiting(act[i]) =>
    \A j \in act[i].incomp : Waiting(act[j]) => act[j].id > act[i].id

\* Work is never left to a task that sleeps with no event pending: events for
\* an execution task, requests and ended activities for the control task.
NoLostWakeUp ==
  /\ \A t \in Tasks \ Periodic, i \in Slots :
       act[i].task = t /\ act[i].evn \in CodelStates /\ exec[t].pc = "wait"
         => signal[t]
  /\ cntrlPc = "susp" =>
       \/ signal[Cntrl]
       \/ /\ nbRcvd = nbSent
          /\ \A i \in Slots : act[i].evn \in {"ETHER", "ZOMBIE", "SLEEP"} =>
               exec[act[i].task].wakeUpCntrl

\* The tasks between taking the SDIs and giving them.
Inside == {t \in Tasks : /\ exec[t].pc \in {"loop", "codel", "relock", "end"}
                         /\ t \notin suspending \cup suspended}
            \cup (IF cntrlPc \in {"ext", "rqst"} THEN {Cntrl} ELSE {})

\* At most one task is between taking and giving the SDIs, and the lock is
\* taken exactly when one is, until a suspended task is resumed.
MutualExclusion ==
  ~stopModule => /\ Cardinality(Inside) <= 1
                 /\ sdiFree <=> Inside = {}

\* Until the init request has ended with success, no other execution request
\* has an activity.
InitRqstAlone ==
  initRqst # NoRqst => \A i \in Live : act[i].type = initRqst

\* When the module exits on the End request of a client, every request it took
\* from the mailbox was answered and no activity is left in the table.
EndLeavesNothing ==
  cntrlPc = "exited" /\ endRqst # 0 =>
    Live = {} /\ \A r \in 1 .. nbRcvd : HasFinal(r)

-----------------------------------------------------------------------------
(* The service the module implements *)

Summary(S) == {[rqst |-> act[i].rqst, type |-> act[i].type] : i \in S}

Service == INSTANCE ActivityService
  WITH waiting  <- Summary({i \in Live : Waiting(act[i])}),
       running  <- Summary(Running),
       frozen   <- {act[i].rqst : i \in Zombie},
       answered <- {r \in RqstIds : HasFinal(r)},
       received <- nbRcvd,
       closing  <- IF cntrlPc = "exited" THEN 0 ELSE endRqst

\* The clients see an ActivityService: every step of the control task and of the
\* execution tasks is a step of it, or changes nothing of it.
ImplementsService == Service!Spec

-----------------------------------------------------------------------------
(* Action properties *)

\* The states that may follow a state: what codels may ask (the table of
\* filterAndSendEvn), an interruption of any but the failed and frozen.
NextStates ==
  [INIT  |-> {"START"},
   START |-> {"EXEC", "END", "FAIL", "INTER", "SLEEP", "ZOMBIE"},
   EXEC  |-> {"END", "FAIL", "INTER", "SLEEP", "ZOMBIE"},
   SLEEP |-> {"EXEC", "INTER"},
   END   |-> {"FAIL", "INTER", "ZOMBIE"},
   FAIL  |-> {"ZOMBIE"},
   INTER |-> {"FAIL", "ZOMBIE"},
   ZOMBIE |-> {}, ETHER |-> {}]

\* An activity goes from state to state along the table, whatever the control
\* task, the execution task and the clients make of it meanwhile.
LegalTransitions ==
  [][\A i \in Live : act'[i].status \in {act[i].status, "ETHER"}
                        \/ act'[i].status \in NextStates[act[i].status]
                        \/ act'[i].id # act[i].id]_vars

-----------------------------------------------------------------------------
(* Liveness *)

\* The request types whose codels may go on, or sleep, until interrupted.
Unending == {x \in ExecRqsts :
               \E s \in CodelStates : CodelResults[x][s] \cap {s, "SLEEP"} # {}}

\* Every request a client sends is served and gets its final reply, or the
\* module is stopped, unless its activity runs codels that go on by themselves:
\* a request that ends is answered even when it waits for one it interrupted
\* and that would never have ended.
EveryRequestAnswered ==
  \A r \in RqstIds :
    nbSent >= r ~> \/ HasFinal(r) \/ stopModule
                   \/ \E i \in Running : act[i].rqst = r /\ act[i].type \in Unending

\* An activity asked to interrupt is over in the end, even if its codels loop.
InterruptedEnds ==
  \A i \in Slots :
    act[i].evn = "INTER" ~> act[i].status \in {"ETHER", "ZOMBIE"}

\* The control task serves every request, even when execution tasks are
\* suspended, or resumed without the SDIs: none of them keeps the lock.
EveryRequestServed ==
  \A r \in RqstIds : nbSent >= r ~> nbRcvd >= r \/ stopModule
=============================================================================
