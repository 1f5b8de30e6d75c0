----------------------------- MODULE McpProofs ------------------------------
(***************************************************************************)
(* For any servers and runs: one execution at a time, and outcomes that    *)
(* stand.  The invariant says who may own a child: a run that is starting  *)
(* or under way has a row that says so, but in the stretches between two   *)
(* transactions in which no row can tell (blindSpot).                      *)
(***************************************************************************)
EXTENDS McpExecution, FiniteSetTheorems, TLAPS

\* A server in execute() that has not started its child.
Before == {"claimed", "recorded"}

\* A run is one server's, and only once: its plan was consumed with the claim.
SlotIsTheOnlyOne ==
  \A s \in Server : server[s].run # NoExecution =>
    /\ plan[server[s].run].state = "gone"
    /\ server[s].run \notin settled
    /\ \A t \in Server : server[t].run = server[s].run => t = s

\* Where the child of a server's run is.
ChildFollows ==
  \A s \in Server :
    /\ server[s].pc \in Before => spawned[server[s].run] = 0
    /\ server[s].pc \in {"spawned", "stopping", "watching"} => spawned[server[s].run] = 1
    /\ server[s].pc = "recorded" => row[server[s].run] = "launching"
    /\ server[s].pc = "reaped" => Exited(server[s].run)

OnceAt(r) ==
  /\ spawned[r] <= 1
  /\ spawned[r] = 0 => child[r] = "none"
  /\ spawned[r] > 0 => child[r] # "none" /\ plan[r].state = "gone"
  /\ child[r] \in {"none", "starting", "registered", "training"} => reported[r] = "nothing"

SpawnedOnce == \A r \in Run : OnceAt(r)

\* The row says what the child reported or how it exited.
RowIsJustified ==
  \A r \in Run :
    /\ row[r] = "completed" => child[r] = "exited 0" \/ reported[r] = "completed"
    /\ row[r] = "failed" => child[r] = "exited 1" \/ reported[r] = "failed"

SettledIsOver == \A r \in settled : Exited(r) /\ plan[r].state = "gone"

\* The runs of which there is, or will be, a child at work.
Underway(r) ==
  \/ child[r] \in {"starting", "registered", "training"}
  \/ \E s \in Server : server[s].pc \in Before /\ server[s].run = r

\* Outside the blind spots the rows tell of every child, and there is one.
RowsTell ==
  ~blindSpot =>
    /\ \A r \in Executing : row[r] \in {"launching", "running"}
    /\ \A q, r \in Run : Underway(q) /\ Underway(r) => q = r

McpInv ==
  /\ McpTypeOK
  /\ SlotIsTheOnlyOne /\ ChildFollows /\ SpawnedOnce /\ RowIsJustified /\ SettledIsOver
  /\ RowsTell
  /\ OutcomeIsSettled

-----------------------------------------------------------------------------
LEMMA RunNames == NoExecution \notin Run
BY NoExecutionAssumption

LEMMA McpStarts == McpInit => McpInv
<1> SUFFICES ASSUME McpInit PROVE McpInv
  OBVIOUS
<1>1. McpTypeOK
  BY DEF McpInit, McpTypeOK, Idle, ServerPc, Status, ChildPc
<1>2. Executing = {} /\ \A s \in Server : server[s].pc = "idle" /\ server[s].run = NoExecution
  BY DEF McpInit, Executing, Idle
<1> QED BY <1>1, <1>2
   DEF McpInit, McpInv, SlotIsTheOnlyOne, ChildFollows, SpawnedOnce, RowIsJustified,
       SettledIsOver, RowsTell, OutcomeIsSettled, Underway, Before, OnceAt

\* What a step makes of the server it is of; the others stay.
LEMMA ServerMoves ==
  ASSUME McpTypeOK, NEW s \in Server
  PROVE  /\ \A pc : Goes(s, pc) => /\ server'[s].pc = pc /\ server'[s].run = server[s].run
                                   /\ \A t \in Server : t # s => server'[t] = server[t]
         /\ Frees(s) => /\ server'[s].pc = "idle" /\ server'[s].run = NoExecution
                        /\ \A t \in Server : t # s => server'[t] = server[t]
BY DEF McpTypeOK, Goes, Frees, Idle

ServerState == [pc : ServerPc, run : Run \cup {NoExecution}]

LEMMA ServerIsTyped ==
  ASSUME McpTypeOK, NEW s \in Server
  PROVE  /\ \A pc \in ServerPc : Goes(s, pc) => server' \in [Server -> ServerState]
         /\ Frees(s) => server' \in [Server -> ServerState]
         /\ server[s].pc \notin {"down", "idle"} => server[s].run \in Run
<1>1. ASSUME NEW pc \in ServerPc, Goes(s, pc) PROVE server' \in [Server -> ServerState]
  BY <1>1 DEF McpTypeOK, Goes, ServerState
<1>2. Idle \in ServerState
  BY DEF Idle, ServerState, ServerPc
<1>3. Frees(s) => server' \in [Server -> ServerState]
  BY <1>2 DEF McpTypeOK, Frees, ServerState
<1> QED BY <1>1, <1>3 DEF McpTypeOK

\* A row finished, or a write that failed.
LEMMA FinishedRows ==
  ASSUME McpTypeOK, NEW r \in Run, NEW status \in Terminal \cup {"spawn_failed"},
         row' = row \/ row' = Finished(r, status)
  PROVE  /\ row' \in [Run -> Status]
         /\ \A q \in Run : q # r => row'[q] = row[q]
         /\ \A q \in Run : row[q] \in Terminal \cup {"absent"} => row'[q] = row[q]
         /\ \A q \in Run : row[q] # "absent" => row'[q] # "absent"
         /\ row'[r] \in {row[r], status}
<1>0. status \in Status /\ status # "absent" /\ row \in [Run -> Status]
  BY DEF Status, Terminal, McpTypeOK
<1>1. CASE row' = row
  BY <1>0, <1>1
<1>2. CASE row' = Finished(r, status)
  BY <1>0, <1>2 DEF Finished
<1> QED BY <1>1, <1>2

\* A row marked.
LEMMA MarkedRows ==
  ASSUME McpTypeOK, NEW r \in Run, Marked(r)
  PROVE  /\ row' \in [Run -> Status] /\ hasPid' \in [Run -> BOOLEAN]
         /\ row'[r] = IF row[r] = "absent" THEN "absent" ELSE "running"
         /\ hasPid'[r] <=> row[r] # "absent"
         /\ \A q \in Run : q # r => row'[q] = row[q] /\ (hasPid'[q] <=> hasPid[q])
BY DEF McpTypeOK, Marked, Status

LEMMA ReconciledRows ==
  ASSUME McpTypeOK
  PROVE  /\ Reconciled \in [Run -> Status]
         /\ \A r \in Run : \/ Reconciled[r] = row[r]
                           \/ row[r] = "running" /\ ~PidIsAlive(r) /\ Reconciled[r] = "terminated"
<1>1. Reconciled \in [Run -> Status]
  BY DEF McpTypeOK, Reconciled, Status
<1>2. ASSUME NEW r \in Run
      PROVE  \/ Reconciled[r] = row[r]
             \/ row[r] = "running" /\ ~PidIsAlive(r) /\ Reconciled[r] = "terminated"
  BY DEF Reconciled, Orphaned
<1> QED BY <1>1, <1>2

LEMMA McpTypesStep == McpInv /\ [McpNext]_mcpVars => McpTypeOK'
<1> SUFFICES ASSUME McpInv, [McpNext]_mcpVars PROVE McpTypeOK'
  OBVIOUS
<1>0. McpTypeOK
  BY DEF McpInv
<1> DEFINE Pids == \A r \in Run : hasPid[r] => row[r] # "absent" /\ spawned[r] > 0
           Slots == \A s \in Server :
                      server[s].run = NoExecution <=> server[s].pc \in {"down", "idle"}
           Others == /\ plan \in [Run -> [state : {"unissued", "open", "gone"}, at : Server]]
                   /\ row \in [Run -> Status] /\ hasPid \in [Run -> BOOLEAN]
                   /\ child \in [Run -> ChildPc]
                   /\ reported \in [Run -> {"nothing"} \cup Terminal]
                   /\ spawned \in [Run -> Nat]
                   /\ settled \subseteq Run
                   /\ blindSpot \in BOOLEAN
<1>a. /\ server \in [Server -> ServerState] /\ Others /\ Slots /\ Pids
  BY <1>0 DEF McpTypeOK, ServerState
<1>b. /\ server' \in [Server -> ServerState] /\ Others' /\ Slots' /\ Pids' => McpTypeOK'
  BY DEF McpTypeOK, ServerState
<1> HIDE DEF Others, Slots, Pids
<1>1. ASSUME NEW s \in Server, NEW r \in Run, Issue(s, r) PROVE McpTypeOK'
  <2>1. plan' \in [Run -> [state : {"unissued", "open", "gone"}, at : Server]]
    BY <1>1, <1>a DEF Issue, Others
  <2> QED BY <1>1, <1>a, <1>b, <2>1 DEF Issue, Others, Slots, Pids, records, processes
<1>2. ASSUME NEW r \in Run, Expire(r) PROVE McpTypeOK'
  <2>1. plan' \in [Run -> [state : {"unissued", "open", "gone"}, at : Server]]
    BY <1>2, <1>a DEF Expire, Others
  <2> QED BY <1>2, <1>a, <1>b, <2>1 DEF Expire, Others, Slots, Pids, records, processes
<1>3. ASSUME NEW s \in Server, NEW r \in Run, NEW readable \in BOOLEAN, Claim(s, r, readable)
      PROVE  McpTypeOK'
  <2>1. plan' \in [Run -> [state : {"unissued", "open", "gone"}, at : Server]]
    BY <1>3, <1>a DEF Claim, Consumed, Others
  <2>2. server' \in [Server -> ServerState]
    <3>1. [pc |-> "claimed", run |-> r] \in ServerState
      BY DEF ServerState, ServerPc
    <3> QED BY <1>3, <1>a, <3>1 DEF Claim
  <2>3. /\ server'[s].pc = "claimed" /\ server'[s].run = r
        /\ \A t \in Server : t # s => server'[t] = server[t]
    BY <1>3, <1>a DEF Claim
  <2>4. Slots'
    BY <1>a, <2>3, RunNames DEF Slots
  <2>5. row' \in [Run -> Status]
    BY <1>0, <1>3, <1>a, ReconciledRows DEF Claim, Others
  <2>6. Pids'
    BY <1>0, <1>3, <1>a, ReconciledRows DEF Claim, Pids, processes
  <2>7. blindSpot' \in BOOLEAN
    BY <1>3, <1>a DEF Claim, Others
  <2> QED BY <1>3, <1>a, <1>b, <2>1, <2>2, <2>4, <2>5, <2>6, <2>7 DEF Claim, Others, processes
<1>4. ASSUME NEW s \in Server, ServerStep(s) PROVE McpTypeOK'
  <2>0. server[s].pc \notin {"down", "idle"} /\ server[s].run \in Run
    BY <1>0, <1>4, ServerIsTyped DEF ServerStep, Launches, Spawns, LogPathFails, SpawnFails,
       Marks, MarkFails, StopsChild, Reaps, Settles
  <2>1. /\ server' \in [Server -> ServerState] /\ Slots'
    <3>1. CASE Frees(s)
      BY <1>0, <1>a, <3>1, ServerIsTyped, ServerMoves DEF Slots
    <3>2. CASE \E pc \in ServerPc \ {"down", "idle"} : Goes(s, pc)
      BY <1>0, <1>a, <2>0, <3>2, ServerIsTyped, ServerMoves DEF Slots
    <3> QED BY <1>4, <3>1, <3>2 DEF ServerStep, Launches, Spawns, LogPathFails, SpawnFails,
            Marks, MarkFails, StopsChild, Reaps, Settles, ServerPc
  <2>2. CASE Launches(s)
    <3>1. row' \in [Run -> Status] /\ Pids'
      BY <1>a, <2>0, <2>2 DEF Launches, Others, Pids, Status, processes
    <3> QED BY <1>a, <1>b, <2>1, <2>2, <3>1 DEF Launches, Others, processes
  <2>3. CASE Spawns(s)
    <3>1. /\ child' = [child EXCEPT ![server[s].run] = "starting"]
          /\ spawned' = [spawned EXCEPT ![server[s].run] = spawned[server[s].run] + 1]
      BY <2>3 DEF Spawns
    <3>3. child' \in [Run -> ChildPc]
      BY <1>a, <2>0, <3>1 DEF Others, ChildPc
    <3>4. spawned' \in [Run -> Nat]
      <4>1. spawned \in [Run -> Nat] /\ spawned[server[s].run] + 1 \in Nat
        BY <1>a, <2>0 DEF Others
      <4> QED BY <2>0, <3>1, <4>1
    <3>2. Pids'
      BY <1>a, <2>0, <2>3, <3>1 DEF Spawns, Others, Pids, records
    <3> QED BY <1>a, <1>b, <2>1, <2>3, <3>2, <3>3, <3>4 DEF Spawns, Others, records
  <2>4. CASE SpawnFails(s)
    <3>1. row' \in [Run -> Status] /\ \A q \in Run : row[q] # "absent" => row'[q] # "absent"
      BY <1>0, <2>0, <2>4, FinishedRows DEF SpawnFails
    <3> QED BY <1>a, <1>b, <2>1, <2>4, <3>1 DEF SpawnFails, Others, Pids, processes
  <2>5. CASE Marks(s) \/ MarkFails(s)
    <3>1. CASE Marked(server[s].run)
      <4>1. row' \in [Run -> Status] /\ hasPid' \in [Run -> BOOLEAN]
        BY <1>0, <2>0, <3>1, MarkedRows
      <4>2. spawned[server[s].run] = 1
        BY <2>5 DEF Marks, MarkFails, McpInv, ChildFollows
      <4>3. Pids'
        BY <1>0, <1>a, <2>0, <2>5, <3>1, <4>2, MarkedRows DEF Marks, MarkFails, Pids, processes
      <4> QED BY <1>a, <1>b, <2>1, <2>5, <4>1, <4>3 DEF Marks, MarkFails, Others, processes
    <3>2. CASE UNCHANGED <<row, hasPid>>
      BY <1>a, <1>b, <2>1, <2>5, <3>2 DEF Marks, MarkFails, Others, Pids, processes
    <3> QED BY <2>5, <3>1, <3>2 DEF Marks, MarkFails
  <2>6. CASE StopsChild(s)
    <3>0. /\ row' = row \/ row' = Finished(server[s].run, "spawn_failed")
          /\ \/ UNCHANGED child
             \/ child' = [child EXCEPT ![server[s].run] =
                             IF Alive(server[s].run) THEN "exited 1" ELSE @]
          /\ blindSpot' = TRUE \/ UNCHANGED blindSpot
      BY <2>6 DEF StopsChild
    <3>1. row' \in [Run -> Status] /\ \A q \in Run : row[q] # "absent" => row'[q] # "absent"
      BY <1>0, <2>0, <3>0, FinishedRows
    <3>2. child' \in [Run -> ChildPc] /\ blindSpot' \in BOOLEAN
      BY <1>a, <2>0, <3>0 DEF Others, ChildPc
    <3> QED BY <1>a, <1>b, <2>1, <2>6, <3>1, <3>2 DEF StopsChild, Others, Pids
  <2>7. CASE Reaps(s) \/ LogPathFails(s)
    BY <1>a, <1>b, <2>1, <2>7 DEF Reaps, LogPathFails, Others, Pids, records, processes
  <2>8. CASE Settles(s)
    <3>1. row' \in [Run -> Status] /\ \A q \in Run : row[q] # "absent" => row'[q] # "absent"
      <4>1. \E ended \in Terminal : row' = row \/ row' = Finished(server[s].run, ended)
        BY <2>8 DEF Settles, Terminal
      <4> QED BY <1>0, <2>0, <4>1, FinishedRows
    <3>2. settled' \subseteq Run
      BY <1>a, <2>0, <2>8 DEF Settles, Others
    <3> QED BY <1>a, <1>b, <2>1, <2>8, <3>1, <3>2 DEF Settles, Others, Pids, processes
  <2> QED BY <1>4, <2>2, <2>3, <2>4, <2>5, <2>6, <2>7, <2>8 DEF ServerStep
<1>5. ASSUME NEW s \in Server, Crashes(s) PROVE McpTypeOK'
  <2>1. server' \in [Server -> ServerState] /\ Slots'
    <3>1. Down \in ServerState /\ Down.pc = "down" /\ Down.run = NoExecution
      BY DEF Down, ServerState, ServerPc
    <3> QED BY <1>a, <1>5, <3>1 DEF Crashes, Slots
  <2>2. plan' \in [Run -> [state : {"unissued", "open", "gone"}, at : Server]]
    BY <1>a, <1>5 DEF Crashes, Others
  <2> QED BY <1>a, <1>b, <1>5, <2>1, <2>2 DEF Crashes, Others, Pids, records, processes
<1>6. ASSUME NEW s \in Server, Restarts(s) PROVE McpTypeOK'
  <2>1. server' \in [Server -> ServerState] /\ Slots'
    BY <1>0, <1>a, <1>6, ServerIsTyped, ServerMoves DEF Restarts, Slots
  <2> QED BY <1>a, <1>b, <1>6, <2>1 DEF Restarts, Others, Pids, records, processes
<1>7. ASSUME NEW r \in Run, ChildStep(r) PROVE McpTypeOK'
  <2>1. child' \in [Run -> ChildPc]
    BY <1>a, <1>7 DEF ChildStep, ChildRegisters, ChildMarks, ChildReports, ChildExits, ChildGoes,
       ChildPc, Others
  <2>2. child[r] # "none" /\ spawned[r] > 0
    <3>1. child[r] # "none"
      BY <1>7 DEF ChildStep, ChildRegisters, ChildMarks, ChildReports, ChildExits, Alive
    <3> QED BY <1>a, <3>1 DEF McpInv, SpawnedOnce, OnceAt, Others
  <2>3. CASE ChildRegisters(r)
    <3>1. row' \in [Run -> Status] /\ \A q \in Run : row[q] # "absent" => row'[q] # "absent"
      BY <1>a, <2>3 DEF ChildRegisters, Others, Status
    <3> QED BY <1>a, <1>b, <2>1, <2>3, <3>1 DEF ChildRegisters, Others, Slots, Pids
  <2>4. CASE ChildMarks(r)
    <3>1. row' \in [Run -> Status] /\ hasPid' \in [Run -> BOOLEAN] /\ Pids'
      BY <1>0, <1>a, <2>2, <2>4, MarkedRows DEF ChildMarks, Pids, processes
    <3> QED BY <1>a, <1>b, <2>1, <2>4, <3>1 DEF ChildMarks, Others, Slots
  <2>5. ASSUME NEW ended \in Terminal, ChildReports(r, ended) PROVE McpTypeOK'
    <3>1. row' \in [Run -> Status] /\ \A q \in Run : row[q] # "absent" => row'[q] # "absent"
      BY <1>a, <2>5 DEF ChildReports, Others, Status, Terminal
    <3>2. reported' \in [Run -> {"nothing"} \cup Terminal]
      BY <1>a, <2>5 DEF ChildReports, Others
    <3> QED BY <1>a, <1>b, <2>1, <2>5, <3>1, <3>2 DEF ChildReports, Others, Slots, Pids
  <2>6. CASE ChildExits(r)
    BY <1>a, <1>b, <2>1, <2>6 DEF ChildExits, Others, Slots, Pids, records
  <2> QED BY <1>7, <2>3, <2>4, <2>5, <2>6 DEF ChildStep
<1>8. CASE ListRuns
  <2>1. row' \in [Run -> Status] /\ \A q \in Run : row[q] # "absent" => row'[q] # "absent"
    BY <1>0, <1>8, ReconciledRows DEF ListRuns
  <2> QED BY <1>a, <1>b, <1>8, <2>1 DEF ListRuns, Others, Slots, Pids, processes
<1>9. CASE Expunge
  <2>1. row' \in [Run -> Status] /\ hasPid' \in [Run -> BOOLEAN] /\ blindSpot' \in BOOLEAN
    BY <1>a, <1>9 DEF Expunge, Others, Status
  <2>2. Pids'
    BY <1>a, <1>9 DEF Expunge, Pids, processes, Others
  <2> QED BY <1>a, <1>b, <1>9, <2>1, <2>2 DEF Expunge, Others, Slots, processes
<1>10. CASE UNCHANGED mcpVars
  BY <1>a, <1>b, <1>10 DEF mcpVars, Others, Slots, Pids
<1> QED BY <1>1, <1>2, <1>3, <1>4, <1>5, <1>6, <1>7, <1>8, <1>9, <1>10 DEF McpNext

-----------------------------------------------------------------------------
\* A server in a slot, by the run it holds.
LEMMA Holder ==
  ASSUME McpInv, NEW s \in Server, server[s].pc \notin {"down", "idle"}
  PROVE  /\ server[s].run \in Run /\ server[s].run # NoExecution
         /\ plan[server[s].run].state = "gone" /\ server[s].run \notin settled
         /\ \A t \in Server : server[t].run = server[s].run => t = s
BY RunNames DEF McpInv, McpTypeOK, SlotIsTheOnlyOne

\* A token that is gone stays so.
LEMMA GoneStays ==
  ASSUME McpInv, [McpNext]_mcpVars, NEW r \in Run, plan[r].state = "gone"
  PROVE  plan'[r].state = "gone"
<1>0. plan \in [Run -> [state : {"unissued", "open", "gone"}, at : Server]]
  BY DEF McpInv, McpTypeOK
<1>1. ASSUME NEW s \in Server, NEW q \in Run, Issue(s, q) PROVE plan'[r].state = "gone"
  BY <1>0, <1>1 DEF Issue
<1>2. ASSUME NEW q \in Run, Expire(q) PROVE plan'[r].state = "gone"
  BY <1>0, <1>2 DEF Expire
<1>3. ASSUME NEW s \in Server, NEW q \in Run, NEW readable \in BOOLEAN, Claim(s, q, readable)
      PROVE  plan'[r].state = "gone"
  BY <1>0, <1>3 DEF Claim, Consumed
<1>4. ASSUME NEW s \in Server, Crashes(s) PROVE plan'[r].state = "gone"
  BY <1>0, <1>4 DEF Crashes
<1>5. CASE UNCHANGED plan
  BY <1>5
<1> QED BY <1>1, <1>2, <1>3, <1>4, <1>5
        DEF McpNext, ServerStep, Launches, Spawns, LogPathFails, SpawnFails, Marks, MarkFails,
            StopsChild, Reaps, Settles, Restarts, ChildStep, ChildRegisters, ChildMarks,
            ChildReports, ChildExits, ListRuns, Expunge, mcpVars

\* Only Claim puts a run into a slot.
LEMMA SlotsOnlyEmpty ==
  ASSUME McpInv, [McpNext]_mcpVars,
         ~\E s \in Server, r \in Run, readable \in BOOLEAN : Claim(s, r, readable)
  PROVE  /\ \A t \in Server : server'[t].run \in {server[t].run, NoExecution}
         /\ \A r \in settled' :
              \/ r \in settled
              \/ \E s \in Server : /\ server[s].pc = "reaped" /\ server[s].run = r
                                   /\ server'[s].run = NoExecution
<1> DEFINE Goal == /\ \A t \in Server : server'[t].run \in {server[t].run, NoExecution}
                   /\ \A r \in settled' :
                        \/ r \in settled
                        \/ \E s \in Server : /\ server[s].pc = "reaped" /\ server[s].run = r
                                             /\ server'[s].run = NoExecution
<1>0. McpTypeOK
  BY DEF McpInv
<1>1. CASE UNCHANGED <<server, settled>>
  BY <1>1
<1>2. ASSUME NEW s \in Server, ServerStep(s) PROVE Goal
  <2>1. CASE Settles(s)
    BY <1>0, <2>1, ServerMoves DEF Settles
  <2>2. CASE ~Settles(s)
    BY <1>0, <1>2, <2>2, ServerMoves DEF ServerStep, Launches, Spawns, LogPathFails, SpawnFails,
       Marks, MarkFails, StopsChild, Reaps, records
  <2> QED BY <2>1, <2>2
<1>3. ASSUME NEW s \in Server, Crashes(s) \/ Restarts(s) PROVE Goal
  <2>1. Down.run = NoExecution
    BY DEF Down
  <2> QED BY <1>0, <1>3, <2>1, ServerMoves DEF Crashes, Restarts, records, McpTypeOK
<1> QED BY <1>1, <1>2, <1>3
        DEF McpNext, Issue, Expire, ChildStep, ChildRegisters, ChildMarks, ChildReports, ChildExits,
            ListRuns, Expunge, mcpVars, records

\* What the claim of a run finds, and leaves.
LEMMA Claimed ==
  ASSUME McpInv, NEW s \in Server, NEW r \in Run, NEW readable \in BOOLEAN, Claim(s, r, readable)
  PROVE  /\ server'[s].pc = "claimed" /\ server'[s].run = r /\ server[s].run = NoExecution
         /\ \A t \in Server : t # s => server'[t] = server[t] /\ server[t].run # r
         /\ r \notin settled /\ spawned[r] = 0
         /\ plan'[r].state = "gone"
<1>1. /\ server'[s].pc = "claimed" /\ server'[s].run = r
      /\ \A t \in Server : t # s => server'[t] = server[t]
      /\ plan'[r].state = "gone" /\ plan[r].state = "open" /\ server[s].run = NoExecution
  BY DEF Claim, Consumed, McpInv, McpTypeOK
<1>2. r \notin settled /\ \A t \in Server : server[t].run # r
  BY <1>1, RunNames DEF McpInv, SettledIsOver, SlotIsTheOnlyOne
<1>3. spawned[r] = 0
  BY <1>1 DEF McpInv, McpTypeOK, SpawnedOnce, OnceAt
<1> QED BY <1>1, <1>2, <1>3

LEMMA SlotStep == McpInv /\ [McpNext]_mcpVars => SlotIsTheOnlyOne'
<1> SUFFICES ASSUME McpInv, [McpNext]_mcpVars PROVE SlotIsTheOnlyOne'
  OBVIOUS
<1>1. ASSUME NEW s \in Server, NEW r \in Run, NEW readable \in BOOLEAN, Claim(s, r, readable)
      PROVE  SlotIsTheOnlyOne'
  <2>1. settled' = settled
    BY <1>1 DEF Claim
  <2>2. \A t \in Server : server[t].run # NoExecution => server[t].run \in Run
    BY DEF McpInv, McpTypeOK
  <2> QED BY <1>1, <2>1, <2>2, Claimed, GoneStays DEF McpInv, SlotIsTheOnlyOne
<1>2. CASE ~\E s \in Server, r \in Run, readable \in BOOLEAN : Claim(s, r, readable)
  <2>1. \A t \in Server : server[t].run # NoExecution => server[t].run \in Run
    BY DEF McpInv, McpTypeOK
  <2> SUFFICES ASSUME NEW s \in Server, server'[s].run # NoExecution
               PROVE  /\ plan'[server'[s].run].state = "gone"
                      /\ server'[s].run \notin settled'
                      /\ \A t \in Server : server'[t].run = server'[s].run => t = s
    BY DEF SlotIsTheOnlyOne
  <2>2. server'[s].run = server[s].run /\ server[s].run \in Run
    BY <1>2, <2>1, SlotsOnlyEmpty
  <2>3. /\ plan[server[s].run].state = "gone" /\ server[s].run \notin settled
        /\ \A t \in Server : server[t].run = server[s].run => t = s
    BY <2>2, RunNames DEF McpInv, SlotIsTheOnlyOne
  <2>4. \A t \in Server : server'[t].run = server'[s].run => t = s
    BY <1>2, <2>2, <2>3, RunNames, SlotsOnlyEmpty
  <2>5. server'[s].run \notin settled'
    BY <1>2, <2>2, <2>3, RunNames, SlotsOnlyEmpty
  <2> QED BY <2>2, <2>3, <2>4, <2>5, GoneStays
<1> QED BY <1>1, <1>2

\* Where the child of server s's run is, in one piece.
FollowsAt(s) ==
  /\ server[s].pc \in Before => spawned[server[s].run] = 0
  /\ server[s].pc \in {"spawned", "stopping", "watching"} => spawned[server[s].run] = 1
  /\ server[s].pc = "recorded" => row[server[s].run] = "launching"
  /\ server[s].pc = "reaped" => Exited(server[s].run)

\* A server that does not move sees its run's row and child where they were, unless
\* the child moves.
LEMMA FollowsStill ==
  ASSUME McpInv, NEW s \in Server, server'[s] = server[s],
         server[s].run \in Run =>
           /\ spawned'[server[s].run] = spawned[server[s].run]
           /\ row[server[s].run] = "launching" => row'[server[s].run] = "launching"
           /\ Exited(server[s].run) => Exited(server[s].run)'
  PROVE  FollowsAt(s)'
<1>1. FollowsAt(s)
  BY DEF McpInv, ChildFollows, FollowsAt
<1>2. server[s].pc \notin {"down", "idle"} => server[s].run \in Run
  BY Holder
<1> QED BY <1>1, <1>2 DEF FollowsAt, Before

LEMMA FollowsStep == McpInv /\ [McpNext]_mcpVars => ChildFollows'
<1> SUFFICES ASSUME McpInv, [McpNext]_mcpVars, NEW t \in Server PROVE FollowsAt(t)'
  BY DEF ChildFollows, FollowsAt
<1>0. McpTypeOK
  BY DEF McpInv
<1>1. ASSUME NEW s \in Server, NEW r \in Run, NEW readable \in BOOLEAN, Claim(s, r, readable)
      PROVE  FollowsAt(t)'
  <2>1. CASE t = s
    <3>1. server'[s].pc = "claimed" /\ server'[s].run = r /\ spawned[r] = 0
      BY <1>1, Claimed
    <3>2. UNCHANGED spawned
      BY <1>1 DEF Claim, processes
    <3> QED BY <2>1, <3>1, <3>2 DEF FollowsAt, Before
  <2>2. CASE t # s
    <3>1. server'[t] = server[t] /\ UNCHANGED <<spawned, child>>
      BY <1>1, <2>2, Claimed DEF Claim, processes
    <3>2. \A q \in Run : row[q] = "launching" => row'[q] = "launching"
      BY <1>0, <1>1, ReconciledRows DEF Claim
    <3> QED BY <3>1, <3>2, FollowsStill DEF Exited
  <2> QED BY <2>1, <2>2
<1>2. ASSUME NEW s \in Server, ServerStep(s), t # s PROVE FollowsAt(t)'
  <2>1. server'[t] = server[t]
    BY <1>0, <1>2, ServerMoves DEF ServerStep, Launches, Spawns, LogPathFails, SpawnFails, Marks,
       MarkFails, StopsChild, Reaps, Settles
  <2>2. server[s].pc \notin {"down", "idle"}
    BY <1>2 DEF ServerStep, Launches, Spawns, LogPathFails, SpawnFails, Marks, MarkFails,
       StopsChild, Reaps, Settles
  <2>3. server[s].run \in Run /\ server[t].run # server[s].run
    BY <1>2, <2>2, Holder
  <2>4. \A q \in Run : q # server[s].run => row'[q] = row[q]
    <3>1. CASE Marked(server[s].run)
      BY <1>0, <2>3, <3>1, MarkedRows
    <3>2. CASE \E status \in Terminal \cup {"spawn_failed"} :
                 row' = row \/ row' = Finished(server[s].run, status)
      BY <1>0, <2>3, <3>2, FinishedRows
    <3>3. CASE Launches(s)
      BY <1>0, <2>3, <3>3 DEF Launches, McpTypeOK
    <3>4. CASE Settles(s)
      BY <3>2, <3>4 DEF Settles, Terminal
    <3> QED BY <1>2, <3>1, <3>2, <3>3, <3>4 DEF ServerStep, Spawns, LogPathFails, SpawnFails,
            Marks, MarkFails, StopsChild, Reaps, records
  <2>5. \A q \in Run : q # server[s].run => spawned'[q] = spawned[q] /\ child'[q] = child[q]
    BY <1>0, <1>2, <2>3 DEF ServerStep, Launches, Spawns, LogPathFails, SpawnFails, Marks,
       MarkFails, StopsChild, Reaps, Settles, processes, McpTypeOK
  <2> QED BY <2>1, <2>3, <2>4, <2>5, FollowsStill DEF Exited
<1>3. CASE ServerStep(t)
  <2>1. FollowsAt(t)
    BY DEF McpInv, ChildFollows, FollowsAt
  <2>2. CASE Launches(t)
    <3>1. server[t].pc = "claimed" /\ server[t].run \in Run /\ spawned[server[t].run] = 0
      BY <2>1, <2>2, Holder DEF Launches, FollowsAt, Before
    <3>2. server'[t].pc = "recorded" /\ server'[t].run = server[t].run
      BY <1>0, <2>2, ServerMoves DEF Launches
    <3>3. row'[server[t].run] = "launching" /\ UNCHANGED spawned
      BY <1>0, <2>2, <3>1 DEF Launches, processes, McpTypeOK
    <3> QED BY <3>1, <3>2, <3>3 DEF FollowsAt, Before
  <2>3. CASE Spawns(t)
    <3>1. spawned' = [spawned EXCEPT ![server[t].run] = spawned[server[t].run] + 1]
      BY <2>3 DEF Spawns
    <3>2. spawned[server[t].run] = 0 /\ server[t].run \in Run
      BY <2>1, <2>3, Holder DEF Spawns, FollowsAt, Before
    <3>3. spawned'[server[t].run] = 1
      BY <1>0, <3>1, <3>2 DEF McpTypeOK
    <3> QED BY <1>0, <2>3, <3>3, ServerMoves DEF Spawns, FollowsAt, Before
  <2>4. CASE Marks(t) \/ MarkFails(t)
    BY <1>0, <2>1, <2>4, ServerMoves DEF Marks, MarkFails, FollowsAt, Before, processes
  <2>5. CASE Reaps(t)
    <3>1. server'[t].pc = "reaped" /\ server'[t].run = server[t].run
      BY <1>0, <2>5, ServerMoves DEF Reaps
    <3>2. Exited(server[t].run) /\ UNCHANGED child
      BY <2>5 DEF Reaps, processes
    <3> QED BY <3>1, <3>2 DEF FollowsAt, Before, Exited
  <2>6. CASE Frees(t)
    BY <1>0, <2>6, ServerMoves DEF FollowsAt, Before
  <2>7. CASE LogPathFails(t)
    BY <1>0, <2>7, ServerMoves DEF LogPathFails, FollowsAt, Before
  <2> QED BY <1>3, <2>2, <2>3, <2>4, <2>5, <2>6, <2>7 DEF ServerStep, SpawnFails, StopsChild,
     Settles
<1>4. ASSUME NEW s \in Server, Crashes(s) \/ Restarts(s) PROVE FollowsAt(t)'
  <2>1. /\ UNCHANGED <<row, child, spawned>>
        /\ server'[t] = server[t] \/ server'[t].pc \in {"idle", "down"}
    BY <1>0, <1>4, ServerMoves DEF Crashes, Restarts, records, processes, Down, McpTypeOK
  <2>2. CASE server'[t] = server[t]
    BY <2>1, <2>2, FollowsStill DEF Exited
  <2>3. CASE server'[t].pc \in {"idle", "down"}
    BY <2>3 DEF FollowsAt, Before
  <2> QED BY <2>1, <2>2, <2>3
<1>5. ASSUME NEW r \in Run, ChildStep(r) PROVE FollowsAt(t)'
  <2>1. UNCHANGED <<server, spawned>> /\ Alive(r)
    BY <1>5 DEF ChildStep, ChildRegisters, ChildMarks, ChildReports, ChildExits, Alive
  <2>2. \A q \in Run : q # r => row'[q] = row[q] /\ child'[q] = child[q]
    <3>1. CASE ChildRegisters(r)
      BY <1>0, <3>1 DEF ChildRegisters, ChildGoes, McpTypeOK
    <3>2. CASE ChildMarks(r)
      <4>1. \A q \in Run : q # r => row'[q] = row[q]
        BY <1>0, <3>2, MarkedRows DEF ChildMarks
      <4>2. \A q \in Run : q # r => child'[q] = child[q]
        BY <1>0, <3>2 DEF ChildMarks, ChildGoes, McpTypeOK
      <4> QED BY <4>1, <4>2
    <3>3. ASSUME NEW outcome \in Terminal, ChildReports(r, outcome)
          PROVE  \A q \in Run : q # r => row'[q] = row[q] /\ child'[q] = child[q]
      BY <1>0, <3>3 DEF ChildReports, ChildGoes, McpTypeOK
    <3>4. CASE ChildExits(r)
      <4>1. row' = row /\ \E pc \in {"exited 0", "exited 1"} : ChildGoes(r, pc)
        BY <3>4 DEF ChildExits, records
      <4> QED BY <1>0, <4>1 DEF ChildGoes, McpTypeOK
    <3> QED BY <1>5, <3>1, <3>2, <3>3, <3>4 DEF ChildStep
  <2>3. CASE server[t].run # r
    BY <2>1, <2>2, <2>3, FollowsStill DEF Exited
  <2>4. CASE server[t].run = r
    <3>1. spawned[r] # 0
      BY <2>1 DEF McpInv, SpawnedOnce, OnceAt, Alive
    <3>2. FollowsAt(t)
      BY DEF McpInv, ChildFollows, FollowsAt
    <3>3. server[t].pc \notin Before /\ server[t].pc # "reaped"
      BY <2>1, <2>4, <3>1, <3>2 DEF FollowsAt, Exited, Alive
    <3> QED BY <2>1, <3>2, <3>3 DEF FollowsAt, Before
  <2> QED BY <2>3, <2>4
<1>6. CASE ListRuns \/ Expunge
  <2>1. UNCHANGED <<server, spawned, child>>
    BY <1>6 DEF ListRuns, Expunge, processes
  <2>2. server[t].run \in Run /\ row[server[t].run] = "launching"
          => row'[server[t].run] = "launching"
    <3>1. CASE ListRuns
      BY <1>0, <3>1, ReconciledRows DEF ListRuns
    <3>2. CASE Expunge
      BY <1>0, <3>2 DEF Expunge, Stale, McpTypeOK
    <3> QED BY <1>6, <3>1, <3>2
  <2> QED BY <2>1, <2>2, FollowsStill DEF Exited
<1>7. CASE UNCHANGED <<server, row, child, spawned>>
  BY <1>7, FollowsStill DEF Exited
<1> QED BY <1>1, <1>2, <1>3, <1>4, <1>5, <1>6, <1>7
        DEF McpNext, Issue, Expire, mcpVars, records, processes

LEMMA SpawnStep == McpInv /\ [McpNext]_mcpVars => SpawnedOnce'
<1> SUFFICES ASSUME McpInv, [McpNext]_mcpVars, NEW r \in Run PROVE OnceAt(r)'
  BY DEF SpawnedOnce
<1>0. McpTypeOK /\ OnceAt(r)
  BY DEF McpInv, SpawnedOnce
<1>1. plan[r].state = "gone" => plan'[r].state = "gone"
  BY GoneStays
<1>2. spawned[r] = 0 \/ spawned[r] = 1
  BY <1>0 DEF McpTypeOK, OnceAt
<1>3. CASE spawned'[r] = spawned[r] /\ child'[r] = child[r] /\ reported'[r] = reported[r]
  BY <1>0, <1>1, <1>3 DEF OnceAt
<1>4. ASSUME NEW s \in Server, Spawns(s) PROVE OnceAt(r)'
  <2>1. CASE server[s].run = r
    <3>1. spawned[r] = 0 /\ plan[r].state = "gone" /\ reported[r] = "nothing"
      BY <1>0, <1>4, <2>1, Holder DEF Spawns, McpInv, ChildFollows, Before, OnceAt
    <3>2. /\ spawned' = [spawned EXCEPT ![r] = spawned[r] + 1]
          /\ child' = [child EXCEPT ![r] = "starting"]
      BY <1>4, <2>1 DEF Spawns
    <3>3. spawned'[r] = 1 /\ child'[r] = "starting" /\ reported' = reported
      BY <1>0, <1>4, <3>1, <3>2 DEF McpTypeOK, Spawns
    <3> QED BY <1>1, <3>1, <3>3 DEF OnceAt
  <2>2. CASE server[s].run # r
    BY <1>0, <1>3, <1>4, <2>2 DEF Spawns, McpTypeOK
  <2> QED BY <2>1, <2>2
<1>5. ASSUME NEW s \in Server, StopsChild(s) PROVE OnceAt(r)'
  <2>1. /\ spawned'[r] = spawned[r] /\ reported'[r] = reported[r]
        /\ child'[r] = child[r] \/ (child[r] # "none" /\ child'[r] = "exited 1")
    BY <1>0, <1>5 DEF StopsChild, McpTypeOK, Alive
  <2> QED BY <1>0, <1>1, <1>2, <2>1 DEF OnceAt
<1>6. ASSUME NEW q \in Run, ChildStep(q) PROVE OnceAt(r)'
  <2>1. /\ spawned'[r] = spawned[r]
        /\ \/ reported'[r] = reported[r] /\ child'[r] = child[r]
           \/ reported'[r] = reported[r] /\ child[r] \in {"starting", "registered"}
                /\ child'[r] \in {"registered", "training"}
           \/ child[r] # "none" /\ child'[r] \in {"reported", "exited 0", "exited 1"}
    BY <1>0, <1>6 DEF ChildStep, ChildRegisters, ChildMarks, ChildReports, ChildExits, ChildGoes,
       Alive, McpTypeOK
  <2> QED BY <1>0, <1>1, <1>2, <2>1 DEF OnceAt
<1>7. CASE UNCHANGED <<spawned, child, reported>>
  BY <1>3, <1>7
<1> QED BY <1>4, <1>5, <1>6, <1>7
        DEF McpNext, ServerStep, Issue, Expire, Claim, Launches, LogPathFails, SpawnFails, Marks,
            MarkFails, Reaps, Settles, Crashes, Restarts, ListRuns, Expunge, mcpVars, processes

\* The ways a row changes.
RowMoved(r) ==
  \/ row'[r] = row[r]
  \/ \E s \in Server : /\ server[s].pc = "claimed" /\ server[s].run = r
                       /\ row[r] = "absent" /\ row'[r] = "launching"
  \/ \E s \in Server : server[s].pc = "spawned" /\ server[s].run = r /\ row'[r] = "running"
  \/ \E s \in Server : /\ SpawnFails(s) \/ StopsChild(s)
                       /\ server[s].run = r /\ row[r] \notin Terminal \cup {"absent"}
                       /\ row'[r] = "spawn_failed"
  \/ \E s \in Server : /\ server[s].pc = "reaped" /\ server[s].run = r
                       /\ row[r] \notin Terminal \cup {"absent"} /\ UNCHANGED processes
                       /\ row'[r] = IF child[r] = "exited 0" THEN "completed" ELSE "failed"
  \/ child[r] \in {"starting", "registered"} /\ row'[r] = "running"
  \/ /\ child[r] = "training" /\ child'[r] = "reported"
     /\ row'[r] \in Terminal /\ row'[r] = reported'[r]
  \/ row[r] = "running" /\ ~PidIsAlive(r) /\ row'[r] = "terminated"
  \/ row[r] = "launching" /\ row'[r] = "absent" /\ (Alive(r) => blindSpot')

LEMMA RowMoves ==
  ASSUME McpInv, [McpNext]_mcpVars, NEW r \in Run
  PROVE  RowMoved(r)
<1>0. McpTypeOK
  BY DEF McpInv
<1>1. CASE row'[r] = row[r]
  BY <1>1 DEF RowMoved
<1>2. CASE row' = Reconciled
  BY <1>0, <1>2, ReconciledRows DEF RowMoved
<1>3. ASSUME NEW s \in Server, ServerStep(s), row'[r] # row[r] PROVE RowMoved(r)
  <2>0. server[s].run \in Run
    BY <1>3, Holder DEF ServerStep, Launches, Spawns, LogPathFails, SpawnFails, Marks, MarkFails,
       StopsChild, Reaps, Settles
  <2>1. CASE Launches(s)
    <3>1. server[s].run = r
      BY <1>0, <1>3, <2>1 DEF Launches, McpTypeOK
    <3>2. row[r] = "absent" /\ row'[r] = "launching" /\ server[s].pc = "claimed"
      BY <1>0, <2>1, <3>1 DEF Launches, McpTypeOK
    <3> QED BY <3>1, <3>2 DEF RowMoved
  <2>2. CASE SpawnFails(s) \/ StopsChild(s)
    <3>1. row' = Finished(server[s].run, "spawn_failed")
      BY <1>3, <2>2 DEF SpawnFails, StopsChild
    <3>2. server[s].run = r
      BY <1>0, <1>3, <2>0, <3>1, FinishedRows
    <3>3. row[r] \notin Terminal \cup {"absent"} /\ row'[r] = "spawn_failed"
      BY <1>0, <1>3, <3>1, <3>2, FinishedRows
    <3> QED BY <2>2, <3>2, <3>3 DEF RowMoved
  <2>3. CASE Marks(s) \/ MarkFails(s)
    <3>1. Marked(server[s].run) /\ server[s].pc = "spawned"
      BY <1>3, <2>3 DEF Marks, MarkFails
    <3>2. server[s].run = r /\ row'[r] = "running"
      BY <1>0, <1>3, <2>0, <3>1, MarkedRows
    <3> QED BY <3>1, <3>2 DEF RowMoved
  <2>4. CASE Settles(s)
    <3> DEFINE ended == IF child[server[s].run] = "exited 0" THEN "completed" ELSE "failed"
    <3>1. /\ row' = Finished(server[s].run, ended) /\ ended \in Terminal
          /\ server[s].pc = "reaped" /\ UNCHANGED processes
      BY <1>3, <2>4 DEF Settles, Terminal
    <3>2. /\ \A q \in Run : q # server[s].run => row'[q] = row[q]
          /\ \A q \in Run : row[q] \in Terminal \cup {"absent"} => row'[q] = row[q]
          /\ row'[server[s].run] \in {row[server[s].run], ended}
      <4> HIDE DEF ended
      <4> QED BY <1>0, <2>0, <3>1, FinishedRows
    <3>3. server[s].run = r /\ row[r] \notin Terminal \cup {"absent"} /\ row'[r] = ended
      BY <1>3, <3>2
    <3> QED BY <3>1, <3>3 DEF RowMoved
  <2> QED BY <1>3, <2>1, <2>2, <2>3, <2>4 DEF ServerStep, Spawns, LogPathFails, Reaps,
          records
<1>4. ASSUME NEW q \in Run, ChildStep(q), row'[r] # row[r] PROVE RowMoved(r)
  <2>1. CASE ChildRegisters(q) \/ ChildMarks(q)
    <3>1. q = r /\ row'[r] = "running"
      BY <1>0, <1>4, <2>1, MarkedRows DEF ChildRegisters, ChildMarks, McpTypeOK
    <3> QED BY <2>1, <3>1 DEF RowMoved, ChildRegisters, ChildMarks
  <2>2. ASSUME NEW ended \in Terminal, ChildReports(q, ended) PROVE RowMoved(r)
    <3>1. q = r /\ row'[r] = ended
      BY <1>0, <1>4, <2>2 DEF ChildReports, McpTypeOK
    <3>2. child[r] = "training" /\ child'[r] = "reported" /\ reported'[r] = ended
      BY <1>0, <2>2, <3>1 DEF ChildReports, ChildGoes, McpTypeOK
    <3> QED BY <3>1, <3>2 DEF RowMoved
  <2> QED BY <1>4, <2>1, <2>2 DEF ChildStep, ChildExits, records
<1>5. CASE Expunge /\ row'[r] # row[r]
  <2>1. PICK old \in SUBSET Stale :
             /\ row' = [q \in Run |-> IF q \in old THEN "absent" ELSE row[q]]
             /\ blindSpot' = (blindSpot \/ \E q \in old : Alive(q))
    BY <1>5 DEF Expunge
  <2>2. r \in old /\ row'[r] = "absent"
    BY <1>5, <2>1
  <2>3. row[r] = "launching"
    BY <2>2 DEF Stale
  <2> QED BY <2>1, <2>2, <2>3 DEF RowMoved
<1> QED BY <1>1, <1>2, <1>3, <1>4, <1>5
        DEF McpNext, Issue, Expire, Claim, Crashes, Restarts, ListRuns, mcpVars, records

\* The ways a child moves.
ChildMoved(r) ==
  \/ child'[r] = child[r] /\ reported'[r] = reported[r]
  \/ /\ \E s \in Server : server[s].pc = "recorded" /\ server[s].run = r
     /\ child[r] = "none" /\ child'[r] = "starting" /\ reported'[r] = reported[r] /\ row' = row
  \/ child[r] = "starting" /\ child'[r] = "registered" /\ reported'[r] = reported[r]
  \/ child[r] = "registered" /\ child'[r] = "training" /\ reported'[r] = reported[r]
  \/ child[r] = "training" /\ child'[r] = "reported" /\ row'[r] \in {"absent", reported'[r]}
  \/ Alive(r) /\ child'[r] \in {"exited 0", "exited 1"} /\ reported'[r] = reported[r]

LEMMA ChildMoves ==
  ASSUME McpInv, [McpNext]_mcpVars, NEW r \in Run
  PROVE  ChildMoved(r)
<1>0. McpTypeOK
  BY DEF McpInv
<1>1. CASE child'[r] = child[r] /\ reported'[r] = reported[r]
  BY <1>1 DEF ChildMoved
<1>2. ASSUME NEW s \in Server, Spawns(s), server[s].run = r PROVE ChildMoved(r)
  <2>1. spawned[r] = 0 /\ server[s].pc = "recorded"
    BY <1>2 DEF Spawns, McpInv, ChildFollows, Before
  <2>2. child[r] = "none"
    BY <2>1 DEF McpInv, SpawnedOnce, OnceAt
  <2>3. child'[r] = "starting" /\ reported'[r] = reported[r] /\ row' = row
    BY <1>0, <1>2 DEF Spawns, McpTypeOK, records
  <2> QED BY <1>2, <2>1, <2>2, <2>3 DEF ChildMoved
<1>3. ASSUME NEW s \in Server, StopsChild(s), server[s].run = r PROVE ChildMoved(r)
  <2>1. reported' = reported /\ (child'[r] = child[r] \/ (Alive(r) /\ child'[r] = "exited 1"))
    BY <1>0, <1>3 DEF StopsChild, McpTypeOK
  <2> QED BY <2>1 DEF ChildMoved
<1>4. ASSUME NEW q \in Run, ChildStep(q) PROVE ChildMoved(r)
  <2>1. CASE q # r
    BY <1>0, <1>1, <1>4, <2>1 DEF ChildStep, ChildRegisters, ChildMarks, ChildReports, ChildExits,
       ChildGoes, McpTypeOK
  <2>2. CASE q = r /\ ~\E ended \in Terminal : ChildReports(r, ended)
    <3>1. CASE ChildRegisters(r)
      <4>1. child[r] = "starting" /\ child'[r] = "registered" /\ reported' = reported
        BY <1>0, <3>1 DEF ChildRegisters, ChildGoes, McpTypeOK
      <4> QED BY <4>1 DEF ChildMoved
    <3>2. CASE ChildMarks(r)
      <4>1. child[r] = "registered" /\ child'[r] = "training" /\ reported' = reported
        BY <1>0, <3>2 DEF ChildMarks, ChildGoes, McpTypeOK
      <4> QED BY <4>1 DEF ChildMoved
    <3>3. CASE ChildExits(r)
      <4>1. Alive(r) /\ child'[r] \in {"exited 0", "exited 1"} /\ reported' = reported
        BY <1>0, <3>3 DEF ChildExits, ChildGoes, McpTypeOK
      <4> QED BY <4>1 DEF ChildMoved
    <3> QED BY <1>4, <2>2, <3>1, <3>2, <3>3 DEF ChildStep
  <2>3. ASSUME NEW ended \in Terminal, ChildReports(r, ended) PROVE ChildMoved(r)
    <3>1. /\ child[r] = "training" /\ child'[r] = "reported" /\ reported'[r] = ended
          /\ row'[r] \in {"absent", ended}
      BY <1>0, <2>3 DEF ChildReports, ChildGoes, McpTypeOK
    <3> QED BY <3>1 DEF ChildMoved
  <2> QED BY <2>1, <2>2, <2>3
<1>5. ASSUME NEW s \in Server, Spawns(s) \/ StopsChild(s), server[s].run # r PROVE ChildMoved(r)
  <2>1. child'[r] = child[r] /\ reported'[r] = reported[r]
    BY <1>0, <1>5 DEF Spawns, StopsChild, McpTypeOK
  <2> QED BY <1>1, <2>1
<1>6. CASE UNCHANGED processes
  BY <1>1, <1>6 DEF processes
<1>7. \/ UNCHANGED processes
      \/ \E s \in Server : Spawns(s) \/ StopsChild(s)
      \/ \E q \in Run : ChildStep(q)
  BY DEF McpNext, ServerStep, Issue, Expire, Claim, Launches, LogPathFails, SpawnFails, Marks,
     MarkFails, Reaps, Settles, Crashes, Restarts, ListRuns, Expunge, mcpVars, processes
<1> QED BY <1>2, <1>3, <1>4, <1>5, <1>6, <1>7

LEMMA RowStep == McpInv /\ [McpNext]_mcpVars => RowIsJustified'
<1> SUFFICES ASSUME McpInv, [McpNext]_mcpVars, NEW r \in Run
             PROVE  /\ row'[r] = "completed" => child'[r] = "exited 0" \/ reported'[r] = "completed"
                    /\ row'[r] = "failed" => child'[r] = "exited 1" \/ reported'[r] = "failed"
  BY DEF RowIsJustified
<1>1. RowMoved(r) /\ ChildMoved(r)
  BY RowMoves, ChildMoves
<1>2. /\ row[r] = "completed" => child[r] = "exited 0" \/ reported[r] = "completed"
      /\ row[r] = "failed" => child[r] = "exited 1" \/ reported[r] = "failed"
      /\ child[r] \in {"none", "starting", "registered", "training"} => reported[r] = "nothing"
  BY DEF McpInv, RowIsJustified, SpawnedOnce, OnceAt
<1>3. CASE row'[r] = row[r]
  BY <1>1, <1>2, <1>3 DEF ChildMoved, Alive
<1>4. CASE row'[r] # row[r]
  <2>1. ASSUME NEW s \in Server, server[s].pc = "reaped", server[s].run = r PROVE Exited(r)
    BY <2>1 DEF McpInv, ChildFollows
  <2> QED BY <1>1, <1>2, <1>4, <2>1 DEF RowMoved, Exited, processes
<1> QED BY <1>3, <1>4

LEMMA SettledStep == McpInv /\ [McpNext]_mcpVars => SettledIsOver' /\ OutcomeIsSettled'
<1> SUFFICES ASSUME McpInv, [McpNext]_mcpVars PROVE SettledIsOver' /\ OutcomeIsSettled'
  OBVIOUS
<1>0. McpTypeOK /\ settled \subseteq Run /\ settled' \subseteq Run
  BY McpTypesStep DEF McpInv, McpTypeOK
<1>1. ASSUME NEW r \in settled
      PROVE  Exited(r)' /\ plan'[r].state = "gone" /\ row'[r] \in Terminal \cup {"absent"}
  <2>1. r \in Run /\ Exited(r) /\ plan[r].state = "gone" /\ row[r] \in Terminal \cup {"absent"}
    BY <1>0 DEF McpInv, SettledIsOver, OutcomeIsSettled
  <2>2. \A s \in Server : server[s].pc \notin {"down", "idle"} => server[s].run # r
    BY Holder
  <2>3. Exited(r)'
    BY <2>1, ChildMoves DEF ChildMoved, Exited, Alive
  <2>4. row'[r] = row[r]
    <3>1. \A s \in Server : SpawnFails(s) \/ StopsChild(s) => server[s].pc \notin {"down", "idle"}
      BY DEF SpawnFails, StopsChild
    <3> QED BY <2>1, <2>2, <3>1, RowMoves DEF RowMoved, Exited, Terminal
  <2> QED BY <2>1, <2>3, <2>4, GoneStays
<1>2. ASSUME NEW r \in settled', r \notin settled
      PROVE  Exited(r)' /\ plan'[r].state = "gone" /\ row'[r] \in Terminal \cup {"absent"}
  <2>1. PICK s \in Server : Settles(s)
    BY <1>2 DEF McpNext, ServerStep, Issue, Expire, Claim, Launches, Spawns, LogPathFails,
       SpawnFails, Marks, MarkFails, StopsChild, Reaps, Crashes, Restarts, ChildStep,
       ChildRegisters, ChildMarks, ChildReports, ChildExits, ListRuns, Expunge, mcpVars, records
  <2> DEFINE ended == IF child[r] = "exited 0" THEN "completed" ELSE "failed"
  <2>2. /\ server[s].run = r /\ server[s].pc = "reaped"
        /\ row' = Finished(r, ended) /\ UNCHANGED child
    BY <1>2, <2>1 DEF Settles, processes
  <2>3. Exited(r) /\ plan[r].state = "gone" /\ r \in Run
    BY <2>2, Holder DEF McpInv, ChildFollows
  <2>4. row'[r] \in Terminal \cup {"absent"}
    BY <1>0, <2>2, <2>3 DEF Finished, Terminal, McpTypeOK
  <2> QED BY <2>2, <2>3, <2>4, GoneStays DEF Exited
<1>3. SettledIsOver'
  BY <1>1, <1>2 DEF SettledIsOver
<1>4. \A r \in settled' : row'[r] \in Terminal \cup {"absent"}
  BY <1>1, <1>2
<1>5. RowIsJustified'
  BY RowStep
<1> QED BY <1>0, <1>3, <1>4, <1>5 DEF OutcomeIsSettled, RowIsJustified

\* A run at work was so before, unless this step claims it.
LEMMA WorkBefore ==
  ASSUME McpInv, [McpNext]_mcpVars, NEW r \in Run, Underway(r)'
  PROVE  \/ Underway(r)
         \/ \E s \in Server, readable \in BOOLEAN : Claim(s, r, readable)
<1>0. McpTypeOK
  BY DEF McpInv
<1>1. CASE child'[r] \in {"starting", "registered", "training"}
  BY <1>1, ChildMoves DEF ChildMoved, Underway, Before, Alive
<1>2. ASSUME NEW t \in Server, server'[t].pc \in Before, server'[t].run = r
      PROVE  \/ Underway(r)
             \/ \E s \in Server, readable \in BOOLEAN : Claim(s, r, readable)
  <2>1. CASE server'[t] = server[t]
    BY <1>2, <2>1 DEF Underway
  <2>2. ASSUME NEW s \in Server, ServerStep(s) PROVE Underway(r)
    <3>1. CASE s # t
      <4>1. server'[t] = server[t]
        BY <1>0, <2>2, <3>1, ServerMoves DEF ServerStep, Launches, Spawns, LogPathFails,
           SpawnFails, Marks, MarkFails, StopsChild, Reaps, Settles
      <4> QED BY <1>2, <4>1 DEF Underway
    <3>2. CASE s = t
      <4>1. server[t].pc = "claimed" /\ server'[t].run = server[t].run
        BY <1>0, <1>2, <2>2, <3>2, ServerMoves DEF ServerStep, Launches, Spawns, LogPathFails,
           SpawnFails, Marks, MarkFails, StopsChild, Reaps, Settles, Before
      <4> QED BY <1>2, <4>1 DEF Underway, Before
    <3> QED BY <3>1, <3>2
  <2>3. ASSUME NEW s \in Server, NEW q \in Run, NEW readable \in BOOLEAN, Claim(s, q, readable)
        PROVE  Underway(r) \/ Claim(s, r, readable)
    <3>1. CASE s = t
      BY <1>2, <2>3, <3>1, Claimed
    <3>2. CASE s # t
      <4>1. server'[t] = server[t]
        BY <2>3, <3>2, Claimed
      <4> QED BY <1>2, <4>1 DEF Underway
    <3> QED BY <3>1, <3>2
  <2>4. ASSUME NEW s \in Server, Crashes(s) \/ Restarts(s) PROVE Underway(r)
    <3>1. server'[t] = server[t] \/ server'[t].pc \in {"idle", "down"}
      BY <1>0, <2>4, ServerMoves DEF Crashes, Restarts, Down, McpTypeOK
    <3> QED BY <1>2, <3>1 DEF Underway, Before
  <2> QED BY <2>1, <2>2, <2>3, <2>4
          DEF McpNext, Issue, Expire, ChildStep, ChildRegisters, ChildMarks, ChildReports,
              ChildExits, ListRuns, Expunge, mcpVars
<1> QED BY <1>1, <1>2 DEF Underway

\* A claim that leaves no blind spot behind found nobody at work.
LEMMA ClaimFindsNobody ==
  ASSUME McpInv, NEW s \in Server, NEW r \in Run, NEW readable \in BOOLEAN,
         Claim(s, r, readable), ~blindSpot', NEW q \in Run
  PROVE  ~Underway(q)
<1>1. /\ ~Occupies(q) /\ ~UnrecordedClaim /\ ~Unidentified(q) /\ ~blindSpot
  BY DEF Claim
<1>2. CASE q \in Executing
  <2>1. row[q] \in {"launching", "running"} /\ Alive(q) /\ hasPid[q] \in BOOLEAN
    BY <1>1, <1>2 DEF McpInv, RowsTell, Executing, Alive, McpTypeOK
  <2> QED BY <1>1, <2>1 DEF Occupies, Unidentified, PidIsAlive
<1>3. ASSUME NEW t \in Server, server[t].pc \in Before, server[t].run = q PROVE FALSE
  <2>1. server[t].pc = "recorded"
    BY <1>1, <1>3 DEF UnrecordedClaim, Before
  <2>2. row[q] = "launching"
    BY <1>3, <2>1 DEF McpInv, ChildFollows
  <2> QED BY <1>1, <2>2 DEF Occupies
<1> QED BY <1>2, <1>3 DEF Underway, Executing

LEMMA TellsStep == McpInv /\ [McpNext]_mcpVars => RowsTell'
<1> SUFFICES ASSUME McpInv, [McpNext]_mcpVars, ~blindSpot'
             PROVE  /\ \A r \in Executing' : row'[r] \in {"launching", "running"}
                    /\ \A q, r \in Run : Underway(q)' /\ Underway(r)' => q = r
  BY DEF RowsTell
<1>0. McpTypeOK
  BY DEF McpInv
<1>1. ~blindSpot
  BY DEF McpNext, ServerStep, Issue, Expire, Claim, Launches, Spawns, LogPathFails, SpawnFails,
     Marks, MarkFails, StopsChild, Reaps, Settles, Crashes, Restarts, ChildStep, ChildRegisters,
     ChildMarks, ChildReports, ChildExits, ListRuns, Expunge, mcpVars
<1>2. ASSUME NEW r \in Executing' PROVE row'[r] \in {"launching", "running"}
  <2>1. r \in Run /\ child'[r] \in {"starting", "registered", "training"}
    BY <1>2 DEF Executing
  <2>2. CASE child[r] = "none"
    <3>1. PICK s \in Server : server[s].pc = "recorded" /\ server[s].run = r /\ row' = row
      BY <2>1, <2>2, ChildMoves DEF ChildMoved, Alive
    <3> QED BY <3>1 DEF McpInv, ChildFollows
  <2>3. CASE child[r] # "none"
    <3>1. child[r] \in {"starting", "registered", "training"} /\ Alive(r)
      BY <2>1, <2>3, ChildMoves DEF ChildMoved, Alive
    <3>2. row[r] \in {"launching", "running"}
      BY <1>1, <2>1, <3>1 DEF McpInv, RowsTell, Executing
    <3>3. ASSUME NEW s \in Server, SpawnFails(s), server[s].run = r PROVE FALSE
      <4>1. spawned[r] = 0
        BY <3>3 DEF SpawnFails, McpInv, ChildFollows, Before
      <4> QED BY <2>1, <2>3, <4>1 DEF McpInv, SpawnedOnce, OnceAt
    <3>4. ASSUME NEW s \in Server, StopsChild(s), server[s].run = r PROVE FALSE
      <4>1. child' = [child EXCEPT ![r] = IF Alive(r) THEN "exited 1" ELSE @]
        BY <3>4 DEF StopsChild
      <4>2. child'[r] = "exited 1"
        BY <1>0, <2>1, <3>1, <4>1 DEF McpTypeOK
      <4> QED BY <2>1, <4>2
    <3>5. ASSUME NEW s \in Server, server[s].pc = "reaped", server[s].run = r PROVE FALSE
      BY <3>1, <3>5 DEF McpInv, ChildFollows, Exited
    <3>6. RowMoved(r) /\ PidIsAlive(r) /\ child'[r] # "reported"
      BY <2>1, <3>1, RowMoves DEF PidIsAlive
    <3> QED BY <3>1, <3>2, <3>3, <3>4, <3>5, <3>6 DEF RowMoved
  <2> QED BY <2>2, <2>3
<1>3. ASSUME NEW q \in Run, NEW r \in Run, Underway(q)', Underway(r)' PROVE q = r
  <2>1. CASE Underway(q) /\ Underway(r)
    BY <1>1, <2>1 DEF McpInv, RowsTell
  <2>2. ASSUME NEW s \in Server, NEW p \in Run, NEW readable \in BOOLEAN, Claim(s, p, readable)
        PROVE  q = r
    <3>1. ~Underway(q) /\ ~Underway(r)
      BY <2>2, ClaimFindsNobody
    <3>2. /\ \E s1 \in Server, readable1 \in BOOLEAN : Claim(s1, q, readable1)
          /\ \E s1 \in Server, readable1 \in BOOLEAN : Claim(s1, r, readable1)
      BY <1>3, <3>1, WorkBefore
    <3>3. ASSUME NEW s1 \in Server, NEW p1 \in Run, NEW readable1 \in BOOLEAN,
                 Claim(s1, p1, readable1)
          PROVE  p1 = p
      BY <1>0, <2>2, <3>3 DEF Claim, McpTypeOK
    <3> QED BY <3>2, <3>3
  <2> QED BY <1>3, <2>1, <2>2, WorkBefore
<1> QED BY <1>2, <1>3

LEMMA McpStep == McpInv /\ [McpNext]_mcpVars => McpInv'
BY McpTypesStep, SlotStep, FollowsStep, SpawnStep, RowStep, SettledStep, TellsStep DEF McpInv

LEMMA McpAlways == McpSpec => []McpInv
BY McpStarts, McpStep, PTL DEF McpSpec

LEMMA Exclusive == McpInv => ExecutionIsExclusive
<1> SUFFICES ASSUME McpInv PROVE ExecutionIsExclusive
  OBVIOUS
<1>1. OneSpawnPerRun
  BY DEF McpInv, SpawnedOnce, OnceAt, OneSpawnPerRun
<1>2. ASSUME ~blindSpot PROVE Cardinality(Executing) <= 1
  <2>1. \A q, r \in Executing : q = r
    BY <1>2 DEF McpInv, RowsTell, Underway, Executing
  <2>2. CASE Executing = {}
    <3>1. Cardinality(Executing) = 0
      BY <2>2, FS_EmptySet, Zenon
    <3> QED BY <3>1
  <2>3. CASE Executing # {}
    <3>1. PICK q \in Executing : TRUE
      BY <2>3
    <3>2. Executing = {q}
      BY <2>1, <3>1
    <3>3. Cardinality(Executing) = 1
      BY <3>2, FS_Singleton, Zenon
    <3> QED BY <3>3
  <2> QED BY <2>2, <2>3
<1> QED BY <1>1, <1>2 DEF ExecutionIsExclusive, OneAtATime

\* Outside the blind spots one execution at a time, however many servers there are and
\* wherever they or the children die; and one spawn for a plan.
THEOREM McpIsExclusive == McpSpec => []ExecutionIsExclusive
BY McpAlways, Exclusive, PTL

\* A final row, by the ways a row changes.
LEMMA TerminalRowsStay ==
  ASSUME McpInv, [McpNext]_mcpVars, NEW r \in Run, row[r] \in Terminal, row'[r] # row[r]
  PROVE  \E s \in Server : server[s].run = r /\ server[s].pc = "spawned"
<1>1. child[r] \notin {"starting", "registered", "training"}
  BY DEF McpInv, RowIsJustified, SpawnedOnce, OnceAt, Terminal
<1> QED BY <1>1, RowMoves DEF RowMoved, Terminal

\* What a watcher recorded of a child's end is what happened and stays; and no final row
\* is overwritten but by the mark of a parent that has just spawned.
THEOREM McpOutcomesStand == McpSpec => OutcomesStand
<1>1. McpInv /\ [McpNext]_mcpVars =>
        [\A r \in Run : row[r] \in Terminal /\ row'[r] # row[r] =>
           \E s \in Server : server[s].run = r /\ server[s].pc = "spawned"]_mcpVars
  BY TerminalRowsStay
<1>2. McpInv => OutcomeIsSettled
  BY DEF McpInv
<1> QED BY <1>1, <1>2, McpAlways, PTL DEF McpSpec, OutcomesStand, ReportsAreKept
=============================================================================
