--------------------------- MODULE PipelineProofs ---------------------------
(***************************************************************************)
(* The pipelines of any number of sessions, of any length and with any     *)
(* failures: types, the pipe ends a session leaves behind, and that an     *)
(* answer comes after its commands.  Then the local shell, which runs the  *)
(* same algorithm: it waits for its children, and rc tells what the last   *)
(* line that was carried out came to.                                      *)
(***************************************************************************)
EXTENDS DshPipeline, TLAPS

Directions == {"read", "write"}

(* Where the loops of session s are. *)
LoopAt(s) ==
    /\ pc[s] # "idle" => cmds[s] \in Pipelines /\ run[s] \in 1..MaxRuns
    /\ pc[s] \in {"pipe", "close"} => k[s] \in 1..Len(cmds[s])
    /\ pc[s] \in {"fork", "wait"} => k[s] \in 1..(Len(cmds[s]) + 1)

(* The pipes of its command line a session has open, by their index. *)
OpenPipes(s) ==
    CASE pc[s] = "pipe"  -> 1..(k[s] - 1)
      [] pc[s] = "fork"  -> 1..(Len(cmds[s]) - 1)
      [] pc[s] = "close" -> k[s]..(Len(cmds[s]) - 1)
      [] OTHER -> {}

PipesAt(s) ==
    \A e \in parent : e[1][1] = s =>
        e \in leaked \/ (e[1][2] = run[s] /\ e[1][3] \in OpenPipes(s))

(* waitpid has returned for the commands before the k-th. *)
WaitAt(s) == pc[s] = "wait" => \A i \in 1..(k[s] - 1) : st[Pid(s, i)] = "zombie"

PipelineInv ==
    TypeOK /\ \A s \in Sessions : LoopAt(s) /\ PipesAt(s) /\ WaitAt(s)

-----------------------------------------------------------------------------
(* Children and pipe ends. *)

LEMMA PidFacts ==
    ASSUME NEW s \in Sessions, NEW r \in 1..MaxRuns, NEW i \in 1..CMD_MAX
    PROVE  /\ <<s, r, i>> \in Pids
           /\ <<s, r, i>>[1] = s /\ <<s, r, i>>[2] = r /\ <<s, r, i>>[3] = i
BY DEF Pids

LEMMA EndFacts ==
    /\ \A p \in Pids : BothEnds(p) \subseteq Ends /\ \A e \in BothEnds(p) : e[1] = p
    /\ \A e \in Ends : e[1] \in Pids /\ e \in BothEnds(e[1])
<1>1. ASSUME NEW p \in Pids PROVE BothEnds(p) \subseteq Ends /\ \A e \in BothEnds(p) : e[1] = p
  BY DEF BothEnds, End, Ends
<1>2. ASSUME NEW e \in Ends PROVE e[1] \in Pids /\ e \in BothEnds(e[1])
  BY DEF BothEnds, End, Ends
<1> QED
  BY <1>1, <1>2

LEMMA PidsAreTriples ==
    ASSUME NEW p \in Pids
    PROVE  /\ p[1] \in Sessions /\ p[2] \in 1..MaxRuns /\ p[3] \in 1..CMD_MAX
           /\ p = <<p[1], p[2], p[3]>>
BY DEF Pids

LEMMA LineFacts ==
    ASSUME NEW line \in Pipelines
    PROVE  Len(line) \in 1..CMD_MAX /\ \A i \in 1..Len(line) : line[i] \in Commands
<1>1. line \in Seq(Commands) /\ Len(line) \in 1..CMD_MAX
  BY PipelinesAssumption
<1> QED
  BY <1>1

(* The children of the line that a session executes. *)
LEMMA OwnPids ==
    ASSUME PipelineInv, NEW s \in Sessions, pc[s] # "idle", NEW i \in 1..Len(cmds[s])
    PROVE  /\ Pid(s, i) \in Pids
           /\ Pid(s, i)[1] = s /\ Pid(s, i)[2] = run[s] /\ Pid(s, i)[3] = i
           /\ cmds[s][i] \in Commands
<1>1. cmds[s] \in Pipelines /\ run[s] \in 1..MaxRuns
  BY DEF PipelineInv, LoopAt
<1>2. i \in 1..CMD_MAX /\ cmds[s][i] \in Commands
  BY <1>1, LineFacts, CommandsAssumption
<1> QED
  BY <1>1, <1>2, PidFacts DEF Pid

LEMMA InvInit == Init => PipelineInv
<1> SUFFICES ASSUME Init PROVE PipelineInv
  OBVIOUS
<1>1. /\ pc \in [Sessions -> {"idle", "pipe", "fork", "close", "wait"}]
      /\ run \in [Sessions -> 0..MaxRuns] /\ k \in [Sessions -> 1..(CMD_MAX + 1)]
      /\ parent = {} /\ leaked = {}
      /\ st \in [Pids -> {"none", "setup", "running", "zombie"}]
  BY CommandsAssumption, MaxRunsAssumption DEF Init
<1>2. cmds \in [Sessions -> Pipelines \cup {<<>>}]
  BY Zenon DEF Init
<1>3. prog \in [Pids -> Commands]
  <2>1. [kind |-> "source", redir |-> {}] \in Commands
    BY DEF Commands, Kinds
  <2> QED
    BY <2>1 DEF Init
<1>4. holds \in [Pids -> SUBSET Ends]
  BY DEF Init
<1>5. TypeOK
  BY <1>1, <1>2, <1>3, <1>4 DEF TypeOK
<1>6. \A s \in Sessions : pc[s] = "idle"
  BY DEF Init
<1> QED
  BY <1>1, <1>5, <1>6 DEF PipelineInv, LoopAt, PipesAt, WaitAt

-----------------------------------------------------------------------------
(* What a step of one session or of one child cannot disturb. *)

(* The types, without the children's. *)
SessionTypes ==
    /\ pc \in [Sessions -> {"idle", "pipe", "fork", "close", "wait"}]
    /\ run \in [Sessions -> 0..MaxRuns] /\ cmds \in [Sessions -> Pipelines \cup {<<>>}]
    /\ k \in [Sessions -> 1..(CMD_MAX + 1)]
    /\ parent \subseteq Ends /\ leaked \subseteq Ends

ChildTypes ==
    /\ st \in [Pids -> {"none", "setup", "running", "zombie"}]
    /\ prog \in [Pids -> Commands] /\ holds \in [Pids -> SUBSET Ends]

LEMMA TypeParts == TypeOK <=> SessionTypes /\ ChildTypes
BY Zenon DEF TypeOK, SessionTypes, ChildTypes

(* Session s acts: its own parts of the invariant are to be shown, the others'
   stay if s opens only its own pipe ends and no child that has ended is
   forked. *)
LEMMA SessionFrame ==
    ASSUME PipelineInv, NEW s \in Sessions, TypeOK',
           \A t \in Sessions \ {s} : /\ pc'[t] = pc[t] /\ k'[t] = k[t]
                                     /\ run'[t] = run[t] /\ cmds'[t] = cmds[t],
           leaked \subseteq leaked',
           \A e \in parent' : e \in parent \/ e[1][1] = s,
           \A p \in Pids : p[1] # s /\ st[p] = "zombie" => st'[p] = "zombie",
           LoopAt(s)', PipesAt(s)', WaitAt(s)'
    PROVE  PipelineInv'
<1> SUFFICES ASSUME NEW t \in Sessions \ {s} PROVE LoopAt(t)' /\ PipesAt(t)' /\ WaitAt(t)'
  BY DEF PipelineInv
<1>1. LoopAt(t) /\ PipesAt(t) /\ WaitAt(t)
  BY DEF PipelineInv
<1>2. LoopAt(t)'
  BY <1>1 DEF LoopAt
<1>3. PipesAt(t)'
  <2>1. OpenPipes(t)' = OpenPipes(t)
    BY DEF OpenPipes
  <2> QED
    BY <1>1, <2>1 DEF PipesAt
<1>4. WaitAt(t)'
  <2> SUFFICES ASSUME pc[t] = "wait", NEW i \in 1..(k[t] - 1) PROVE st'[Pid(t, i)'] = "zombie"
    BY DEF WaitAt
  <2>1. i \in 1..Len(cmds[t])
    <3>1. k[t] \in 1..(Len(cmds[t]) + 1) /\ cmds[t] \in Pipelines
      BY <1>1 DEF LoopAt
    <3>2. Len(cmds[t]) \in Nat
      BY <3>1, LineFacts, CommandsAssumption
    <3> QED
      BY <3>1, <3>2
  <2>2. Pid(t, i) \in Pids /\ Pid(t, i)[1] = t
    BY <2>1, OwnPids
  <2>3. st[Pid(t, i)] = "zombie" /\ Pid(t, i)' = Pid(t, i)
    BY <1>1 DEF WaitAt, Pid
  <2> QED
    BY <2>2, <2>3
<1> QED
  BY <1>2, <1>3, <1>4

(* A child acts: sessions and pipes are left alone. *)
LEMMA ChildFrame ==
    ASSUME PipelineInv, ChildTypes',
           UNCHANGED <<pc, run, cmds, k, parent, leaked>>,
           \A p \in Pids : st[p] = "zombie" => st'[p] = "zombie"
    PROVE  PipelineInv'
<1>1. TypeOK'
  <2>1. SessionTypes
    BY TypeParts DEF PipelineInv
  <2>2. SessionTypes'
    BY <2>1 DEF SessionTypes
  <2> QED
    BY <2>2, TypeParts DEF TypeOK, SessionTypes, ChildTypes
<1>2. ASSUME NEW t \in Sessions PROVE LoopAt(t)' /\ PipesAt(t)' /\ WaitAt(t)'
  <2>1. LoopAt(t) /\ PipesAt(t) /\ WaitAt(t)
    BY DEF PipelineInv
  <2>2. LoopAt(t)'
    BY <2>1 DEF LoopAt
  <2>3. PipesAt(t)'
    BY <2>1 DEF PipesAt, OpenPipes
  <2>4. WaitAt(t)'
    <3> SUFFICES ASSUME pc[t] = "wait", NEW i \in 1..(k[t] - 1)
                 PROVE  st'[Pid(t, i)'] = "zombie"
      BY DEF WaitAt
    <3>1. i \in 1..Len(cmds[t])
      <4>1. k[t] \in 1..(Len(cmds[t]) + 1) /\ cmds[t] \in Pipelines
        BY <2>1 DEF LoopAt
      <4>2. Len(cmds[t]) \in Nat
        BY <4>1, LineFacts, CommandsAssumption
      <4> QED
        BY <4>1, <4>2
    <3>2. Pid(t, i) \in Pids
      BY <3>1, OwnPids
    <3>3. st[Pid(t, i)] = "zombie" /\ Pid(t, i)' = Pid(t, i)
      BY <2>1 DEF WaitAt, Pid
    <3> QED
      BY <3>2, <3>3
  <2> QED
    BY <2>2, <2>3, <2>4
<1> QED
  BY <1>1, <1>2 DEF PipelineInv

(* A session goes somewhere else in the function. *)
LEMMA GotoFacts ==
    ASSUME PipelineInv, NEW s \in Sessions,
           NEW l \in {"idle", "pipe", "fork", "close", "wait"},
           NEW i \in 1..(CMD_MAX + 1), Goto(s, l, i)
    PROVE  /\ pc' \in [Sessions -> {"idle", "pipe", "fork", "close", "wait"}]
           /\ k' \in [Sessions -> 1..(CMD_MAX + 1)]
           /\ pc'[s] = l /\ k'[s] = i
           /\ \A t \in Sessions \ {s} : pc'[t] = pc[t] /\ k'[t] = k[t]
BY DEF Goto, PipelineInv, TypeOK

(* The pipes of a command line are pipe ends, and all that may be open. *)
LEMMA LinePipes ==
    ASSUME PipelineInv, NEW s \in Sessions, pc[s] # "idle"
    PROVE  /\ PipeEnds(s) \subseteq Ends
           /\ \A e \in PipeEnds(s) : e[1][1] = s
           /\ \A e \in Ends : /\ e[1][1] = s /\ e[1][2] = run[s]
                              /\ e[1][3] \in 1..(Len(cmds[s]) - 1)
                              => e \in PipeEnds(s)
           /\ Len(cmds[s]) \in 1..CMD_MAX /\ Len(cmds[s]) \in Nat
<1>1. cmds[s] \in Pipelines
  BY DEF PipelineInv, LoopAt
<1>2. Len(cmds[s]) \in 1..CMD_MAX /\ Len(cmds[s]) \in Nat
  BY <1>1, LineFacts, CommandsAssumption
<1>3. \A i \in 1..(Len(cmds[s]) - 1) : Pid(s, i) \in Pids /\ Pid(s, i)[1] = s
  BY <1>2, OwnPids
<1>4. ASSUME NEW e \in PipeEnds(s) PROVE e \in Ends /\ e[1][1] = s
  <2>1. PICK i \in 1..(Len(cmds[s]) - 1) : e \in BothEnds(Pid(s, i))
    BY DEF PipeEnds
  <2> QED
    BY <2>1, <1>3, EndFacts
<1>5. ASSUME NEW e \in Ends, e[1][1] = s, e[1][2] = run[s],
             e[1][3] \in 1..(Len(cmds[s]) - 1)
      PROVE  e \in PipeEnds(s)
  <2>1. e[1] \in Pids /\ e \in BothEnds(e[1])
    BY EndFacts
  <2>2. e[1] = Pid(s, e[1][3])
    BY <2>1, <1>5, PidsAreTriples DEF Pid
  <2> QED
    BY <2>1, <2>2, <1>5 DEF PipeEnds
<1> QED
  BY <1>2, <1>4, <1>5

LEMMA BeginStep == ASSUME PipelineInv, NEW s \in Sessions, Begin(s) PROVE PipelineInv'
<1> USE DEF Begin
<1>1. PICK line \in Pipelines : cmds' = [cmds EXCEPT ![s] = line]
  BY Zenon
<1>2. /\ pc[s] = "idle" /\ run[s] < MaxRuns /\ run' = [run EXCEPT ![s] = @ + 1]
      /\ Goto(s, "pipe", 1) /\ UNCHANGED <<parent, leaked, childVars>>
  BY Zenon
<1>3. /\ pc' \in [Sessions -> {"idle", "pipe", "fork", "close", "wait"}]
      /\ k' \in [Sessions -> 1..(CMD_MAX + 1)]
      /\ pc'[s] = "pipe" /\ k'[s] = 1
      /\ \A t \in Sessions \ {s} : pc'[t] = pc[t] /\ k'[t] = k[t]
  BY <1>2, GotoFacts, CommandsAssumption
<1>4. SessionTypes /\ ChildTypes
  BY TypeParts DEF PipelineInv
<1>5. /\ run' \in [Sessions -> 0..MaxRuns] /\ run'[s] \in 1..MaxRuns
      /\ \A t \in Sessions \ {s} : run'[t] = run[t]
  BY <1>2, <1>4, MaxRunsAssumption DEF SessionTypes
<1>6. /\ cmds' \in [Sessions -> Pipelines \cup {<<>>}] /\ cmds'[s] = line
      /\ \A t \in Sessions \ {s} : cmds'[t] = cmds[t]
  <2> DEFINE e == <<>>
  <2>1. cmds \in [Sessions -> Pipelines \cup {e}]
    BY <1>4, Zenon DEF SessionTypes
  <2> HIDE DEF e
  <2>2. cmds' \in [Sessions -> Pipelines \cup {e}] /\ cmds'[s] = line
        /\ \A t \in Sessions \ {s} : cmds'[t] = cmds[t]
    BY <1>1, <2>1
  <2> QED
    BY <2>2, Zenon DEF e
<1>7. TypeOK'
  BY <1>2, <1>3, <1>4, <1>5, <1>6, Zenon DEF TypeOK, SessionTypes, ChildTypes, childVars
<1>8. LoopAt(s)'
  BY <1>3, <1>5, <1>6, LineFacts DEF LoopAt
<1>9. PipesAt(s)'
  <2>1. PipesAt(s) /\ OpenPipes(s) = {}
    BY <1>2 DEF PipelineInv, OpenPipes
  <2> QED
    BY <2>1, <1>2 DEF PipesAt
<1>10. WaitAt(s)'
  BY <1>3 DEF WaitAt
<1>11. leaked' = leaked /\ parent' = parent /\ st' = st
  BY <1>2 DEF childVars
<1> QED
  BY <1>3, <1>5, <1>6, <1>7, <1>8, <1>9, <1>10, <1>11, SessionFrame

LEMMA CreatePipeStep ==
    ASSUME PipelineInv, NEW s \in Sessions, CreatePipe(s) PROVE PipelineInv'
<1>1. pc[s] = "pipe" /\ UNCHANGED <<sessVars, leaked, childVars>>
  BY Zenon DEF CreatePipe
<1>2. SessionTypes /\ ChildTypes /\ LoopAt(s) /\ PipesAt(s)
  BY TypeParts DEF PipelineInv
<1>3. Len(cmds[s]) \in 1..CMD_MAX /\ k[s] \in 1..Len(cmds[s])
  BY <1>1, <1>2, LinePipes DEF LoopAt
<1>4. /\ run' = run /\ cmds' = cmds /\ leaked' = leaked
      /\ st' = st /\ prog' = prog /\ holds' = holds
  BY <1>1 DEF sessVars, childVars
<1>5. OpenPipes(s) = 1..(k[s] - 1)
  BY <1>1 DEF OpenPipes
<1>a. CASE k[s] < Len(cmds[s])
  <2>1. parent' = parent \cup BothEnds(Pid(s, k[s])) /\ Goto(s, "pipe", k[s] + 1)
    BY <1>a, Zenon DEF CreatePipe
  <2>2. k[s] + 1 \in 1..(CMD_MAX + 1) /\ k[s] + 1 \in 1..Len(cmds[s])
    BY <1>a, <1>3, CommandsAssumption
  <2>3. /\ pc' \in [Sessions -> {"idle", "pipe", "fork", "close", "wait"}]
        /\ k' \in [Sessions -> 1..(CMD_MAX + 1)]
        /\ pc'[s] = "pipe" /\ k'[s] = k[s] + 1
        /\ \A t \in Sessions \ {s} : pc'[t] = pc[t] /\ k'[t] = k[t]
    BY <2>1, <2>2, GotoFacts
  <2>4. /\ Pid(s, k[s]) \in Pids /\ Pid(s, k[s])[1] = s
        /\ Pid(s, k[s])[2] = run[s] /\ Pid(s, k[s])[3] = k[s]
    BY <1>1, <1>3, OwnPids
  <2>5. /\ BothEnds(Pid(s, k[s])) \subseteq Ends
        /\ \A e \in BothEnds(Pid(s, k[s])) : e[1] = Pid(s, k[s])
    BY <2>4, EndFacts
  <2>6. parent' \subseteq Ends
    BY <2>1, <2>5, <1>2 DEF SessionTypes
  <2>7. TypeOK'
    BY <1>2, <1>4, <2>3, <2>6, Zenon DEF TypeOK, SessionTypes, ChildTypes
  <2>8. LoopAt(s)'
    BY <1>1, <1>2, <1>4, <2>2, <2>3 DEF LoopAt
  <2>9. PipesAt(s)'
    <3>1. OpenPipes(s)' = 1..k[s]
      <4>1. OpenPipes(s)' = 1..(k'[s] - 1)
        BY <2>3 DEF OpenPipes
      <4>2. k'[s] - 1 = k[s]
        BY <2>3, <1>3
      <4> QED
        BY <4>1, <4>2
    <3> SUFFICES ASSUME NEW e \in parent', e[1][1] = s
                 PROVE  e \in leaked \/ (e[1][2] = run[s] /\ e[1][3] \in 1..k[s])
      BY <3>1, <1>4 DEF PipesAt
    <3>2. CASE e \in parent
      <4>1. 1..(k[s] - 1) \subseteq 1..k[s]
        BY <1>3
      <4> QED
        BY <3>2, <4>1, <1>2, <1>5 DEF PipesAt
    <3>3. CASE e \in BothEnds(Pid(s, k[s]))
      <4>1. k[s] \in 1..k[s]
        BY <1>3
      <4> QED
        BY <3>3, <2>4, <2>5, <4>1
    <3> QED
      BY <2>1, <3>2, <3>3
  <2>10. WaitAt(s)'
    BY <2>3 DEF WaitAt
  <2>11. \A e \in parent' : e \in parent \/ e[1][1] = s
    BY <2>1, <2>4, <2>5
  <2> QED
    BY <1>4, <2>3, <2>7, <2>8, <2>9, <2>10, <2>11, SessionFrame
<1>b. CASE ~(k[s] < Len(cmds[s]))
  <2>1. parent' = parent /\ Goto(s, "fork", 1)
    BY <1>b, Zenon DEF CreatePipe
  <2>2. /\ pc' \in [Sessions -> {"idle", "pipe", "fork", "close", "wait"}]
        /\ k' \in [Sessions -> 1..(CMD_MAX + 1)]
        /\ pc'[s] = "fork" /\ k'[s] = 1
        /\ \A t \in Sessions \ {s} : pc'[t] = pc[t] /\ k'[t] = k[t]
    BY <2>1, GotoFacts, CommandsAssumption
  <2>3. TypeOK'
    BY <1>2, <1>4, <2>1, <2>2, Zenon DEF TypeOK, SessionTypes, ChildTypes
  <2>4. LoopAt(s)'
    <3>1. 1 \in 1..(Len(cmds[s]) + 1)
      BY <1>3
    <3> QED
      BY <1>1, <1>2, <1>4, <2>2, <3>1 DEF LoopAt
  <2>5. PipesAt(s)'
    <3>1. OpenPipes(s)' = OpenPipes(s)
      <4>1. OpenPipes(s)' = 1..(Len(cmds[s]) - 1)
        BY <2>2, <1>4 DEF OpenPipes
      <4>2. k[s] = Len(cmds[s])
        BY <1>b, <1>3
      <4> QED
        BY <4>1, <4>2, <1>5
    <3> QED
      BY <3>1, <1>2, <1>4, <2>1 DEF PipesAt
  <2>6. WaitAt(s)'
    BY <2>2 DEF WaitAt
  <2> QED
    BY <1>4, <2>1, <2>2, <2>3, <2>4, <2>5, <2>6, SessionFrame
<1> QED
  BY <1>a, <1>b

LEMMA PipeFailsStep ==
    ASSUME PipelineInv, NEW s \in Sessions, PipeFails(s) PROVE PipelineInv'
<1>1. /\ pc[s] = "pipe" /\ k[s] < Len(cmds[s]) /\ Goto(s, "idle", 1)
      /\ leaked' = leaked \cup (PipeEnds(s) \cap parent)
      /\ UNCHANGED <<sessVars, parent, childVars>>
  BY Zenon DEF PipeFails
<1>2. SessionTypes /\ ChildTypes /\ LoopAt(s) /\ PipesAt(s)
  BY TypeParts DEF PipelineInv
<1>3. Len(cmds[s]) \in 1..CMD_MAX /\ k[s] \in 1..Len(cmds[s])
  BY <1>1, <1>2, LinePipes DEF LoopAt
<1>4. /\ run' = run /\ cmds' = cmds /\ parent' = parent
      /\ st' = st /\ prog' = prog /\ holds' = holds
  BY <1>1 DEF sessVars, childVars
<1>5. /\ pc' \in [Sessions -> {"idle", "pipe", "fork", "close", "wait"}]
      /\ k' \in [Sessions -> 1..(CMD_MAX + 1)]
      /\ pc'[s] = "idle"
      /\ \A t \in Sessions \ {s} : pc'[t] = pc[t] /\ k'[t] = k[t]
  BY <1>1, GotoFacts, CommandsAssumption
<1>6. leaked' \subseteq Ends
  BY <1>1, <1>2, LinePipes DEF SessionTypes
<1>7. TypeOK'
  BY <1>2, <1>4, <1>5, <1>6, Zenon DEF TypeOK, SessionTypes, ChildTypes
<1>8. LoopAt(s)' /\ WaitAt(s)'
  BY <1>5 DEF LoopAt, WaitAt
<1>9. PipesAt(s)'
  <2> SUFFICES ASSUME NEW e \in parent', e[1][1] = s
               PROVE  e \in leaked' \/ (e[1][2] = run'[s] /\ e[1][3] \in OpenPipes(s)')
    BY DEF PipesAt
  <2>1. e \in parent
    BY <1>4
  <2>2. CASE e \in leaked
    <3>1. e \in leaked'
      BY <2>2, <1>1
    <3> QED
      BY <3>1, Zenon
  <2>3. CASE e[1][2] = run[s] /\ e[1][3] \in OpenPipes(s)
    <3>1. OpenPipes(s) = 1..(k[s] - 1)
      BY <1>1 DEF OpenPipes
    <3>2. 1..(k[s] - 1) \subseteq 1..(Len(cmds[s]) - 1)
      BY <1>1, <1>3
    <3>3. e \in Ends
      BY <1>2, <2>1 DEF SessionTypes
    <3>4. e \in PipeEnds(s)
      BY <1>1, <2>3, <3>1, <3>2, <3>3, LinePipes
    <3>5. e \in leaked'
      BY <1>1, <2>1, <3>4
    <3> QED
      BY <3>5, Zenon
  <2> QED
    BY <1>2, <2>1, <2>2, <2>3 DEF PipesAt
<1> QED
  BY <1>1, <1>4, <1>5, <1>7, <1>8, <1>9, SessionFrame

LEMMA ForkStep == ASSUME PipelineInv, NEW s \in Sessions, Fork(s) PROVE PipelineInv'
<1>1. pc[s] = "fork" /\ UNCHANGED <<sessVars, parent, leaked>>
  BY Zenon DEF Fork
<1>2. SessionTypes /\ ChildTypes /\ LoopAt(s) /\ PipesAt(s)
  BY TypeParts DEF PipelineInv
<1>3. /\ Len(cmds[s]) \in 1..CMD_MAX /\ Len(cmds[s]) \in Nat
      /\ k[s] \in 1..(Len(cmds[s]) + 1)
  BY <1>1, <1>2, LinePipes DEF LoopAt
<1>4. run' = run /\ cmds' = cmds /\ parent' = parent /\ leaked' = leaked
  BY <1>1 DEF sessVars
<1>5. OpenPipes(s) = 1..(Len(cmds[s]) - 1)
  BY <1>1 DEF OpenPipes
<1>a. CASE k[s] <= Len(cmds[s])
  <2> DEFINE p == Pid(s, k[s])
  <2>1. /\ st' = [st EXCEPT ![p] = "setup"] /\ holds' = [holds EXCEPT ![p] = parent]
        /\ prog' = [prog EXCEPT ![p] = cmds[s][k[s]]] /\ Goto(s, "fork", k[s] + 1)
    BY <1>a, Zenon DEF Fork
  <2>2. k[s] + 1 \in 1..(CMD_MAX + 1) /\ k[s] + 1 \in 1..(Len(cmds[s]) + 1)
    BY <1>a, <1>3, CommandsAssumption
  <2>3. /\ pc' \in [Sessions -> {"idle", "pipe", "fork", "close", "wait"}]
        /\ k' \in [Sessions -> 1..(CMD_MAX + 1)]
        /\ pc'[s] = "fork" /\ k'[s] = k[s] + 1
        /\ \A t \in Sessions \ {s} : pc'[t] = pc[t] /\ k'[t] = k[t]
    BY <2>1, <2>2, GotoFacts
  <2>4. p \in Pids /\ p[1] = s /\ cmds[s][k[s]] \in Commands
    <3>1. k[s] \in 1..Len(cmds[s])
      BY <1>a, <1>3
    <3> QED
      BY <1>1, <3>1, OwnPids
  <2> HIDE DEF p
  <2>5. ChildTypes'
    BY <1>2, <2>1, <2>4 DEF ChildTypes, SessionTypes
  <2>6. TypeOK'
    BY <1>2, <1>4, <2>3, <2>5, Zenon DEF TypeOK, SessionTypes, ChildTypes
  <2>7. LoopAt(s)'
    BY <1>1, <1>2, <1>4, <2>2, <2>3 DEF LoopAt
  <2>8. PipesAt(s)'
    <3>1. OpenPipes(s)' = OpenPipes(s)
      BY <1>4, <1>5, <2>3 DEF OpenPipes
    <3> QED
      BY <3>1, <1>2, <1>4 DEF PipesAt
  <2>9. WaitAt(s)'
    BY <2>3 DEF WaitAt
  <2>10. \A q \in Pids : q[1] # s => st'[q] = st[q]
    BY <2>1, <2>4, <1>2 DEF ChildTypes
  <2> QED
    BY <1>4, <2>3, <2>6, <2>7, <2>8, <2>9, <2>10, SessionFrame
<1>b. CASE ~(k[s] <= Len(cmds[s]))
  <2>1. Goto(s, "close", 1) /\ UNCHANGED childVars
    BY <1>b, Zenon DEF Fork
  <2>2. /\ pc' \in [Sessions -> {"idle", "pipe", "fork", "close", "wait"}]
        /\ k' \in [Sessions -> 1..(CMD_MAX + 1)]
        /\ pc'[s] = "close" /\ k'[s] = 1
        /\ \A t \in Sessions \ {s} : pc'[t] = pc[t] /\ k'[t] = k[t]
    BY <2>1, GotoFacts, CommandsAssumption
  <2>3. st' = st /\ prog' = prog /\ holds' = holds
    BY <2>1 DEF childVars
  <2>4. TypeOK'
    BY <1>2, <1>4, <2>2, <2>3, Zenon DEF TypeOK, SessionTypes, ChildTypes
  <2>5. LoopAt(s)'
    <3>1. 1 \in 1..Len(cmds[s])
      BY <1>3
    <3> QED
      BY <1>1, <1>2, <1>4, <2>2, <3>1 DEF LoopAt
  <2>6. PipesAt(s)'
    <3>1. OpenPipes(s)' = OpenPipes(s)
      BY <1>4, <1>5, <2>2 DEF OpenPipes
    <3> QED
      BY <3>1, <1>2, <1>4 DEF PipesAt
  <2>7. WaitAt(s)'
    BY <2>2 DEF WaitAt
  <2> QED
    BY <1>4, <2>2, <2>3, <2>4, <2>5, <2>6, <2>7, SessionFrame
<1> QED
  BY <1>a, <1>b

LEMMA ForkFailsStep ==
    ASSUME PipelineInv, NEW s \in Sessions, ForkFails(s) PROVE PipelineInv'
<1>1. /\ pc[s] = "fork" /\ Goto(s, "idle", 1) /\ parent' = parent \ Abandoned(s)
      /\ UNCHANGED <<sessVars, leaked, childVars>>
  BY Zenon DEF ForkFails
<1>2. SessionTypes /\ ChildTypes /\ LoopAt(s) /\ PipesAt(s)
  BY TypeParts DEF PipelineInv
<1>3. /\ run' = run /\ cmds' = cmds /\ leaked' = leaked
      /\ st' = st /\ prog' = prog /\ holds' = holds
  BY <1>1 DEF sessVars, childVars
<1>4. /\ pc' \in [Sessions -> {"idle", "pipe", "fork", "close", "wait"}]
      /\ k' \in [Sessions -> 1..(CMD_MAX + 1)]
      /\ pc'[s] = "idle"
      /\ \A t \in Sessions \ {s} : pc'[t] = pc[t] /\ k'[t] = k[t]
  BY <1>1, GotoFacts, CommandsAssumption
<1>5. parent' \subseteq Ends /\ parent' \subseteq parent
  BY <1>1, <1>2 DEF SessionTypes
<1>6. TypeOK'
  BY <1>2, <1>3, <1>4, <1>5, Zenon DEF TypeOK, SessionTypes, ChildTypes
<1>7. LoopAt(s)' /\ WaitAt(s)'
  BY <1>4 DEF LoopAt, WaitAt
<1>8. PipesAt(s)'
  <2> SUFFICES ASSUME NEW e \in parent', e[1][1] = s
               PROVE  e \in leaked' \/ (e[1][2] = run'[s] /\ e[1][3] \in OpenPipes(s)')
    BY DEF PipesAt
  <2>1. CASE e \in leaked
    <3>1. e \in leaked'
      BY <2>1, <1>3
    <3> QED
      BY <3>1, Zenon
  <2>2. CASE e[1][2] = run[s] /\ e[1][3] \in OpenPipes(s)
    <3>1. OpenPipes(s) = 1..(Len(cmds[s]) - 1)
      BY <1>1 DEF OpenPipes
    <3>2. e \in PipeEnds(s)
      BY <1>1, <1>5, <2>2, <3>1, LinePipes
    <3> QED
      BY <1>1, <3>2 DEF Abandoned
  <2>3. e \in parent
    BY <1>5
  <2> QED
    BY <1>2, <2>1, <2>2, <2>3 DEF PipesAt
<1> QED
  BY <1>3, <1>4, <1>5, <1>6, <1>7, <1>8, SessionFrame

LEMMA ClosePipeStep ==
    ASSUME PipelineInv, NEW s \in Sessions, ClosePipe(s) PROVE PipelineInv'
<1>1. pc[s] = "close" /\ UNCHANGED <<sessVars, leaked, childVars>>
  BY Zenon DEF ClosePipe
<1>2. SessionTypes /\ ChildTypes /\ LoopAt(s) /\ PipesAt(s)
  BY TypeParts DEF PipelineInv
<1>3. /\ Len(cmds[s]) \in 1..CMD_MAX /\ Len(cmds[s]) \in Nat
      /\ k[s] \in 1..Len(cmds[s])
  BY <1>1, <1>2, LinePipes DEF LoopAt
<1>4. /\ run' = run /\ cmds' = cmds /\ leaked' = leaked
      /\ st' = st /\ prog' = prog /\ holds' = holds
  BY <1>1 DEF sessVars, childVars
<1>5. OpenPipes(s) = k[s]..(Len(cmds[s]) - 1)
  BY <1>1 DEF OpenPipes
<1>a. CASE k[s] < Len(cmds[s])
  <2>1. parent' = parent \ BothEnds(Pid(s, k[s])) /\ Goto(s, "close", k[s] + 1)
    BY <1>a, Zenon DEF ClosePipe
  <2>2. k[s] + 1 \in 1..(CMD_MAX + 1) /\ k[s] + 1 \in 1..Len(cmds[s])
    BY <1>a, <1>3, CommandsAssumption
  <2>3. /\ pc' \in [Sessions -> {"idle", "pipe", "fork", "close", "wait"}]
        /\ k' \in [Sessions -> 1..(CMD_MAX + 1)]
        /\ pc'[s] = "close" /\ k'[s] = k[s] + 1
        /\ \A t \in Sessions \ {s} : pc'[t] = pc[t] /\ k'[t] = k[t]
    BY <2>1, <2>2, GotoFacts
  <2>4. parent' \subseteq Ends /\ parent' \subseteq parent
    BY <2>1, <1>2 DEF SessionTypes
  <2>5. TypeOK'
    BY <1>2, <1>4, <2>3, <2>4, Zenon DEF TypeOK, SessionTypes, ChildTypes
  <2>6. LoopAt(s)'
    BY <1>1, <1>2, <1>4, <2>2, <2>3 DEF LoopAt
  <2>7. PipesAt(s)'
    <3> DEFINE rest == (k[s] + 1)..(Len(cmds[s]) - 1)
    <3>1. OpenPipes(s)' = rest
      BY <2>3, <1>4 DEF OpenPipes
    <3> HIDE DEF rest
    <3> SUFFICES ASSUME NEW e \in parent', e[1][1] = s
                 PROVE  e \in leaked \/ (e[1][2] = run[s] /\ e[1][3] \in rest)
      BY <3>1, <1>4 DEF PipesAt
    <3>2. e \in leaked \/ (e[1][2] = run[s] /\ e[1][3] \in k[s]..(Len(cmds[s]) - 1))
      BY <2>4, <1>2, <1>5 DEF PipesAt
    <3>a. CASE e \in leaked
      BY <3>a
    <3>b. CASE e[1][2] = run[s] /\ e[1][3] \in k[s]..(Len(cmds[s]) - 1)
      <4>1. e[1] \in Pids /\ e \in BothEnds(e[1])
        BY <2>4, EndFacts
      <4>2. e[1] # Pid(s, k[s])
        BY <2>1, <4>1
      <4>3. e[1] = <<s, run[s], e[1][3]>>
        BY <3>b, <4>1, PidsAreTriples
      <4>4. e[1][3] # k[s]
        BY <4>2, <4>3, Zenon DEF Pid
      <4> QED
        BY <3>b, <4>4, <1>3 DEF rest
    <3> QED
      BY <3>2, <3>a, <3>b
  <2>8. WaitAt(s)'
    BY <2>3 DEF WaitAt
  <2> QED
    BY <1>4, <2>3, <2>4, <2>5, <2>6, <2>7, <2>8, SessionFrame
<1>b. CASE ~(k[s] < Len(cmds[s]))
  <2>1. parent' = parent /\ Goto(s, "wait", 1)
    BY <1>b, Zenon DEF ClosePipe
  <2>2. /\ pc' \in [Sessions -> {"idle", "pipe", "fork", "close", "wait"}]
        /\ k' \in [Sessions -> 1..(CMD_MAX + 1)]
        /\ pc'[s] = "wait" /\ k'[s] = 1
        /\ \A t \in Sessions \ {s} : pc'[t] = pc[t] /\ k'[t] = k[t]
    BY <2>1, GotoFacts, CommandsAssumption
  <2>3. TypeOK'
    BY <1>2, <1>4, <2>1, <2>2, Zenon DEF TypeOK, SessionTypes, ChildTypes
  <2>4. LoopAt(s)'
    <3>1. 1 \in 1..(Len(cmds[s]) + 1)
      BY <1>3
    <3> QED
      BY <1>1, <1>2, <1>4, <2>2, <3>1 DEF LoopAt
  <2>5. PipesAt(s)'
    <3>1. OpenPipes(s) = {}
      BY <1>5, <1>b, <1>3
    <3> QED
      BY <3>1, <1>2, <1>4, <2>1 DEF PipesAt
  <2>6. WaitAt(s)'
    <3>1. 1..(k'[s] - 1) = {}
      BY <2>2
    <3> QED
      BY <3>1 DEF WaitAt
  <2> QED
    BY <1>4, <2>1, <2>2, <2>3, <2>4, <2>5, <2>6, SessionFrame
<1> QED
  BY <1>a, <1>b

LEMMA WaitStep == ASSUME PipelineInv, NEW s \in Sessions, Wait(s) PROVE PipelineInv'
<1>1. pc[s] = "wait" /\ UNCHANGED <<sessVars, parent, leaked, childVars>>
  BY Zenon DEF Wait
<1>2. SessionTypes /\ ChildTypes /\ LoopAt(s) /\ PipesAt(s) /\ WaitAt(s)
  BY TypeParts DEF PipelineInv
<1>3. /\ Len(cmds[s]) \in 1..CMD_MAX /\ Len(cmds[s]) \in Nat
      /\ k[s] \in 1..(Len(cmds[s]) + 1)
  BY <1>1, <1>2, LinePipes DEF LoopAt
<1>4. /\ run' = run /\ cmds' = cmds /\ parent' = parent /\ leaked' = leaked
      /\ st' = st /\ prog' = prog /\ holds' = holds
  BY <1>1 DEF sessVars, childVars
<1>5. OpenPipes(s) = {}
  BY <1>1 DEF OpenPipes
<1>6. PipesAt(s)'
  BY <1>2, <1>4, <1>5 DEF PipesAt
<1>a. CASE k[s] \in WaitedFor(s)
  <2>1. st[Pid(s, k[s])] = "zombie" /\ Goto(s, "wait", k[s] + 1)
    BY <1>a, Zenon DEF Wait
  <2>2. k[s] + 1 \in 1..(CMD_MAX + 1) /\ k[s] + 1 \in 1..(Len(cmds[s]) + 1)
    BY <1>a, <1>3, CommandsAssumption DEF WaitedFor
  <2>3. /\ pc' \in [Sessions -> {"idle", "pipe", "fork", "close", "wait"}]
        /\ k' \in [Sessions -> 1..(CMD_MAX + 1)]
        /\ pc'[s] = "wait" /\ k'[s] = k[s] + 1
        /\ \A t \in Sessions \ {s} : pc'[t] = pc[t] /\ k'[t] = k[t]
    BY <2>1, <2>2, GotoFacts
  <2>4. TypeOK'
    BY <1>2, <1>4, <2>3, Zenon DEF TypeOK, SessionTypes, ChildTypes
  <2>5. LoopAt(s)'
    BY <1>1, <1>2, <1>4, <2>2, <2>3 DEF LoopAt
  <2>6. WaitAt(s)'
    <3>1. ASSUME NEW i \in 1..k[s] PROVE st[Pid(s, i)] = "zombie"
      <4>1. i = k[s] \/ i \in 1..(k[s] - 1)
        BY <1>3
      <4> QED
        BY <4>1, <2>1, <1>1, <1>2 DEF WaitAt
    <3>2. k'[s] - 1 = k[s]
      BY <2>3, <1>3
    <3> QED
      BY <3>1, <3>2, <1>4, Zenon DEF WaitAt, Pid
  <2> QED
    BY <1>4, <1>6, <2>3, <2>4, <2>5, <2>6, SessionFrame
<1>b. CASE k[s] \notin WaitedFor(s)
  <2>1. Goto(s, "idle", 1)
    BY <1>b, Zenon DEF Wait
  <2>2. /\ pc' \in [Sessions -> {"idle", "pipe", "fork", "close", "wait"}]
        /\ k' \in [Sessions -> 1..(CMD_MAX + 1)]
        /\ pc'[s] = "idle"
        /\ \A t \in Sessions \ {s} : pc'[t] = pc[t] /\ k'[t] = k[t]
    BY <2>1, GotoFacts, CommandsAssumption
  <2>3. TypeOK'
    BY <1>2, <1>4, <2>2, Zenon DEF TypeOK, SessionTypes, ChildTypes
  <2>4. LoopAt(s)' /\ WaitAt(s)'
    BY <2>2 DEF LoopAt, WaitAt
  <2> QED
    BY <1>4, <1>6, <2>2, <2>3, <2>4, SessionFrame
<1> QED
  BY <1>a, <1>b

LEMMA ChildActs == ASSUME PipelineInv, NEW p \in Pids, Child(p) PROVE PipelineInv'
<1>1. ChildTypes /\ SessionTypes
  BY TypeParts DEF PipelineInv
<1>2. CASE Exec(p)
  <2>1. /\ st[p] = "setup" /\ st' = [st EXCEPT ![p] = "running"]
        /\ holds' = [holds EXCEPT ![p] = (@ \ OwnPipes(p)) \cup Stdio(p)]
        /\ UNCHANGED <<pc, run, cmds, k, parent, leaked, prog>>
    BY <1>2, Zenon DEF Exec, sessVars
  <2>2. Stdio(p) \subseteq Ends
    BY <1>1 DEF Stdio, ChildTypes
  <2>3. ChildTypes'
    BY <1>1, <2>1, <2>2 DEF ChildTypes
  <2>4. \A q \in Pids : st[q] = "zombie" => st'[q] = "zombie"
    BY <1>1, <2>1 DEF ChildTypes
  <2> QED
    BY <2>1, <2>3, <2>4, ChildFrame
<1>3. CASE ExecFails(p) \/ ProgramEnds(p)
  <2>1. /\ st' = [st EXCEPT ![p] = "zombie"] /\ holds' = [holds EXCEPT ![p] = {}]
        /\ UNCHANGED <<pc, run, cmds, k, parent, leaked, prog>>
    BY <1>3, Zenon DEF ExecFails, ProgramEnds, sessVars
  <2>2. ChildTypes'
    BY <1>1, <2>1 DEF ChildTypes
  <2>3. \A q \in Pids : st[q] = "zombie" => st'[q] = "zombie"
    BY <1>1, <2>1 DEF ChildTypes
  <2> QED
    BY <2>1, <2>2, <2>3, ChildFrame
<1> QED
  BY <1>2, <1>3 DEF Child

LEMMA InvStep == PipelineInv /\ [Next]_vars => PipelineInv'
<1> SUFFICES ASSUME PipelineInv, [Next]_vars PROVE PipelineInv'
  OBVIOUS
<1>1. ASSUME UNCHANGED vars PROVE PipelineInv'
  <2>1. UNCHANGED <<pc, run, cmds, k, parent, leaked>> /\ st' = st /\ prog' = prog /\ holds' = holds
    BY <1>1 DEF vars, sessVars, childVars
  <2>2. ChildTypes'
    BY <2>1, TypeParts DEF PipelineInv, ChildTypes
  <2> QED
    BY <2>1, <2>2, ChildFrame
<1>2. ASSUME NEW s \in Sessions, Session(s) PROVE PipelineInv'
  BY <1>2, BeginStep, CreatePipeStep, PipeFailsStep, ForkStep, ForkFailsStep,
     ClosePipeStep, WaitStep DEF Session
<1>3. ASSUME NEW p \in Pids, Child(p) PROVE PipelineInv'
  BY <1>3, ChildActs
<1> QED
  BY <1>1, <1>2, <1>3, Zenon DEF Next, Over

-----------------------------------------------------------------------------
(* The variables of rsh_execute_pipeline keep their types, its loops their
   bounds. *)
THEOREM PipelineInvariant == Spec => []PipelineInv
BY InvInit, InvStep, PTL DEF Spec

THEOREM TypeCorrect == Spec => []TypeOK
<1>1. PipelineInv => TypeOK
  BY DEF PipelineInv
<1> QED
  BY <1>1, PipelineInvariant, PTL

LEMMA InvClosesPipes == PipelineInv => NoPipeLeft
<1> SUFFICES ASSUME PipelineInv, NEW s \in Sessions, pc[s] = "idle",
                    NEW e \in parent, e[1][1] = s
             PROVE  e \in leaked
  BY DEF NoPipeLeft
<1>1. OpenPipes(s) = {}
  BY DEF OpenPipes
<1> QED
  BY <1>1 DEF PipelineInv, PipesAt

(* A session that is back at its prompt, after whatever failures, has left no
   pipe open in the server process that some part of it still knows of: the
   only ends that stay are those a failing pipe() returned past. *)
THEOREM PipesAreClosed == Spec => []NoPipeLeft
BY InvClosesPipes, PipelineInvariant, PTL

(* The session goes back to its prompt, where it sends the end-of-answer mark,
   only when every command of the line has ended. *)
LEMMA AnswerStep ==
    ASSUME PipelineInv, [Next]_vars, NEW s \in Sessions, pc[s] = "wait", pc'[s] = "idle"
    PROVE  \A i \in 1..Len(cmds[s]) : ~Alive(Pid(s, i))
<1>1. k[s] \notin WaitedFor(s)
  <2>1. Wait(s)
    <3>1. ASSUME NEW t \in Sessions, Session(t) PROVE t = s
      <4>1. PICK l \in {"idle", "pipe", "fork", "close", "wait"} : pc' = [pc EXCEPT ![t] = l]
        BY <3>1, Zenon DEF Session, Begin, CreatePipe, PipeFails, Fork, ForkFails,
           ClosePipe, Wait, Goto
      <4> QED
        BY <4>1 DEF PipelineInv, TypeOK
    <3>2. ASSUME NEW p \in Pids, Child(p) PROVE FALSE
      <4>1. pc' = pc
        BY <3>2, Zenon DEF Child, Exec, ExecFails, ProgramEnds
      <4> QED
        BY <4>1
    <3>3. ASSUME UNCHANGED vars PROVE FALSE
      BY <3>3 DEF vars
    <3>4. Session(s)
      BY <3>1, <3>2, <3>3, Zenon DEF Next, Over
    <3> QED
      BY <3>4, Zenon DEF Session, Begin, CreatePipe, PipeFails, Fork, ForkFails, ClosePipe
  <2>2. CASE k[s] \in WaitedFor(s)
    <3>1. pc' = [pc EXCEPT ![s] = "wait"]
      BY <2>1, <2>2, Zenon DEF Wait, Goto
    <3>2. pc'[s] = "wait"
      BY <3>1 DEF PipelineInv, TypeOK
    <3> QED
      BY <3>2
  <2> QED
    BY <2>2
<1>2. /\ Len(cmds[s]) \in Nat /\ k[s] \in 1..(Len(cmds[s]) + 1)
  BY LinePipes DEF PipelineInv, LoopAt
<1>3. k[s] = Len(cmds[s]) + 1
  BY <1>1, <1>2 DEF WaitedFor
<1>4. \A i \in 1..Len(cmds[s]) : st[Pid(s, i)] = "zombie"
  <2>1. k[s] - 1 = Len(cmds[s])
    BY <1>2, <1>3
  <2> QED
    BY <2>1, Zenon DEF PipelineInv, WaitAt
<1> QED
  BY <1>4 DEF Alive

THEOREM AnswersComeLast == Spec => AnswerAfterAllCommands
<1>1. PipelineInv /\ [Next]_vars =>
        [\A s \in Sessions : pc[s] = "wait" /\ pc'[s] = "idle" =>
            \A i \in 1..Len(cmds[s]) : ~Alive(Pid(s, i))]_vars
  BY AnswerStep
<1> QED
  BY <1>1, PipelineInvariant, PTL DEF Spec, AnswerAfterAllCommands

-----------------------------------------------------------------------------
(* The local shell.  PipelineInv comes from the algorithm's own proof. *)

(* The commands of the line that were forked and have not been waited for. *)
Pending ==
    CASE pc[Shell] = "fork"  -> 1..(k[Shell] - 1)
      [] pc[Shell] = "close" -> 1..Len(cmds[Shell])
      [] pc[Shell] = "wait"  -> k[Shell]..Len(cmds[Shell])
      [] OTHER -> {}

Forked == {p \in Pids : st[p] # "none"}

ChildrenInv == Forked = reaped \cup orphans \cup {Pid(Shell, i) : i \in Pending}

(* A child that waitpid has returned has ended, and it belongs to an earlier
   line until the shell waits for this one. *)
ReapInv ==
    /\ \A p \in reaped :
          /\ st[p] = "zombie" /\ p[2] <= run[Shell]
          /\ pc[Shell] \in {"pipe", "fork", "close"} => p[2] < run[Shell]
    /\ pc[Shell] = "wait" => \A i \in 1..(k[Shell] - 1) : Pid(Shell, i) \in reaped

ShellTypes ==
    /\ last_status \in 0..255 \cup {ERRNO, ERR_CMD_ARGS_BAD}
    /\ reaped \subseteq Pids /\ orphans \subseteq Pids
    /\ wstatus \in [Pids -> [exit : 0..255, signal : 0..64]]

(* Until the prompt comes back the last line carried out is the one at work. *)
CarriedInv ==
    /\ carried \in {"nothing", "cd", "bad cd", "pipeline"}
    /\ pc[Shell] # "idle" => carried = "pipeline"

ShellInv ==
    PipelineInv /\ ShellTypes /\ CarriedInv /\ ChildrenInv /\ ReapInv /\ StatusOfLine

-----------------------------------------------------------------------------
LEMMA ShellIsSession == Shell \in Sessions
BY ShellAssumption

(* Every step of the shell is a step of the algorithm. *)
LEMMA StepsAreAlgorithm == [ShellNext]_allVars => [Next]_vars
<1>1. ASSUME Line \/ ShellStep PROVE Next
  <2>1. Session(Shell)
    BY <1>1, Zenon DEF ShellStep, Line, Pipe, NoPipe, ForkChild, NoFork, Close, Reap, Session
  <2> QED
    BY <2>1, ShellIsSession, Zenon DEF Next
<1>2. ASSUME NEW p \in Pids, ChildStep(p) PROVE Next
  <2>1. Child(p)
    BY <1>2, Zenon DEF ChildStep, Setup, SetupFails, Finish, Child
  <2> QED
    BY <2>1, Zenon DEF Next
<1>3. ASSUME Cd \/ Passed \/ UNCHANGED allVars PROVE UNCHANGED vars
  <2>1. CASE Cd
    BY <2>1, Zenon DEF Cd
  <2>2. CASE Passed \/ UNCHANGED allVars
    BY <2>2 DEF Passed, allVars
  <2> QED
    BY <1>3, <2>1, <2>2
<1> QED
  BY <1>1, <1>2, <1>3, Zenon DEF ShellNext, Typed

LEMMA ShellInvInit == ShellInit => ShellInv
<1> SUFFICES ASSUME ShellInit PROVE ShellInv
  OBVIOUS
<1>1. /\ Init /\ last_status = 0 /\ wstatus = [p \in Pids |-> Exited(0)]
      /\ reaped = {} /\ orphans = {} /\ carried = "nothing"
  BY Zenon DEF ShellInit
<1>2. PipelineInv
  BY <1>1, InvInit
<1>3. /\ pc[Shell] = "idle" /\ run[Shell] = 0 /\ \A p \in Pids : st[p] = "none"
  <2>1. /\ pc = [s \in Sessions |-> "idle"] /\ run = [s \in Sessions |-> 0]
        /\ st = [p \in Pids |-> "none"]
    BY <1>1, Zenon DEF Init
  <2> QED
    BY <2>1, ShellIsSession
<1>4. ShellTypes
  <2>1. Exited(0) \in [exit : 0..255, signal : 0..64]
    BY DEF Exited
  <2> QED
    BY <1>1, <2>1 DEF ShellTypes
<1>5. ChildrenInv
  <2>1. Pending = {}
    BY <1>3 DEF Pending
  <2> QED
    BY <1>1, <1>3, <2>1 DEF ChildrenInv, Forked
<1>6. ReapInv
  BY <1>1, <1>3 DEF ReapInv
<1>7. CarriedInv /\ StatusOfLine
  BY <1>1, <1>3 DEF CarriedInv, StatusOfLine
<1> QED
  BY <1>2, <1>4, <1>5, <1>6, <1>7 DEF ShellInv

(* What the session of the shell has to do with its line. *)
LEMMA ShellFacts ==
    ASSUME ShellInv
    PROVE  /\ TypeOK /\ LoopAt(Shell)
           /\ pc[Shell] # "idle" =>
                /\ Len(cmds[Shell]) \in 1..CMD_MAX /\ Len(cmds[Shell]) \in Nat
                /\ \A i \in 1..Len(cmds[Shell]) :
                      /\ Pid(Shell, i) \in Pids /\ Pid(Shell, i)[2] = run[Shell]
BY ShellIsSession, LinePipes, OwnPids DEF ShellInv, PipelineInv

(* A session step's program counter, at the one session there is. *)
LEMMA ShellGoto ==
    ASSUME ShellInv, NEW l, NEW i, Goto(Shell, l, i)
    PROVE  pc'[Shell] = l /\ k'[Shell] = i
BY ShellFacts, ShellIsSession DEF Goto, TypeOK

-----------------------------------------------------------------------------
(* The parts of the invariant that are the shell's, one step at a time. *)

ShellParts == ShellTypes /\ ChildrenInv /\ ReapInv /\ StatusOfLine

(* A step that leaves the children and what the shell knows of them alone. *)
LEMMA QuietFrame ==
    ASSUME ShellInv, UNCHANGED <<st, wstatus, reaped, orphans>>,
           last_status' \in 0..255 \cup {ERRNO, ERR_CMD_ARGS_BAD},
           Pending' = Pending, \A i \in Pending : Pid(Shell, i)' = Pid(Shell, i)
    PROVE  ShellTypes' /\ ChildrenInv'
<1>1. ShellTypes'
  BY DEF ShellInv, ShellTypes
<1>2. {Pid(Shell, i)' : i \in Pending'} = {Pid(Shell, i) : i \in Pending}
  BY Zenon
<1>3. ChildrenInv'
  <2>1. Forked' = Forked
    BY DEF Forked
  <2> QED
    BY <1>2, <2>1, Zenon DEF ShellInv, ChildrenInv
<1> QED
  BY <1>1, <1>3

LEMMA LineStep == ASSUME ShellInv, Line PROVE ShellParts'
<1>1. /\ pc[Shell] = "idle" /\ run' = [run EXCEPT ![Shell] = @ + 1] /\ Goto(Shell, "pipe", 1)
      /\ UNCHANGED <<last_status, wstatus, reaped, orphans>> /\ UNCHANGED childVars
  BY Zenon DEF Line, Begin
<1>2. pc'[Shell] = "pipe"
  BY <1>1, ShellGoto
<1>3. /\ st' = st /\ wstatus' = wstatus /\ reaped' = reaped /\ orphans' = orphans
      /\ last_status' = last_status
  BY <1>1 DEF childVars
<1>4. Pending = {} /\ Pending' = {}
  BY <1>1, <1>2 DEF Pending
<1>5. ShellTypes' /\ ChildrenInv'
  BY <1>3, <1>4, QuietFrame DEF ShellInv, ShellTypes
<1>6. run'[Shell] = run[Shell] + 1 /\ run[Shell] \in Nat
  BY <1>1, ShellFacts, ShellIsSession, MaxRunsAssumption DEF TypeOK
<1>7. ReapInv'
  <2> SUFFICES ASSUME NEW p \in reaped
               PROVE  st'[p] = "zombie" /\ p[2] <= run'[Shell] /\ p[2] < run'[Shell]
    BY <1>2, <1>3 DEF ReapInv
  <2>1. st[p] = "zombie" /\ p[2] <= run[Shell]
    BY DEF ShellInv, ReapInv
  <2>2. p[2] \in Nat
    <3>1. p \in Pids
      BY DEF ShellInv, ShellTypes
    <3>2. p[2] \in 1..MaxRuns
      BY <3>1, PidsAreTriples
    <3> QED
      BY <3>2, MaxRunsAssumption
  <2> QED
    BY <1>3, <1>6, <2>1, <2>2
<1>8. StatusOfLine'
  BY <1>2 DEF StatusOfLine
<1> QED
  BY <1>5, <1>7, <1>8 DEF ShellParts

(* The built-in commands and the refused lines leave the children alone. *)
LEMMA NoPipelineFrame ==
    ASSUME ShellInv, UNCHANGED <<vars, wstatus, reaped, orphans>>,
           last_status' \in 0..255 \cup {ERRNO, ERR_CMD_ARGS_BAD}, StatusOfLine'
    PROVE  ShellParts'
<1>1. /\ st' = st /\ wstatus' = wstatus /\ reaped' = reaped /\ orphans' = orphans
      /\ run' = run /\ cmds' = cmds /\ k' = k /\ pc' = pc
  BY DEF vars, sessVars, childVars
<1>2. Pending' = Pending /\ \A i : Pid(Shell, i)' = Pid(Shell, i)
  BY <1>1 DEF Pending, Pid
<1>3. ShellTypes' /\ ChildrenInv'
  BY <1>1, <1>2, QuietFrame
<1>4. ReapInv'
  BY <1>1, <1>2, Zenon DEF ShellInv, ReapInv
<1> QED
  BY <1>3, <1>4 DEF ShellParts

LEMMA CdStep == ASSUME ShellInv, Cd PROVE ShellParts'
<1>1. /\ UNCHANGED <<vars, wstatus, reaped, orphans>>
      /\ \/ last_status' = 0 /\ carried' = "cd"
         \/ last_status' \in {ERR_CMD_ARGS_BAD, ERRNO} /\ carried' = "bad cd"
  BY Zenon DEF Cd
<1>2. StatusOfLine'
  BY <1>1, StatusAssumption DEF StatusOfLine
<1>3. last_status' \in 0..255 \cup {ERRNO, ERR_CMD_ARGS_BAD}
  <2>1. 0 \in 0..255
    OBVIOUS
  <2>2. last_status' \in {0, ERRNO, ERR_CMD_ARGS_BAD}
    BY <1>1, Zenon
  <2> QED
    BY <2>1, <2>2
<1> QED
  BY <1>1, <1>2, <1>3, NoPipelineFrame

LEMMA QuietStep == ASSUME ShellInv, UNCHANGED allVars PROVE ShellParts'
<1>1. /\ UNCHANGED <<vars, wstatus, reaped, orphans>> /\ last_status' = last_status
      /\ carried' = carried
  BY DEF allVars, shellVars
<1>2. StatusOfLine'
  <2> DEFINE p == Pid(Shell, Len(cmds[Shell]))
  <2>1. p' = p /\ pc' = pc
    BY <1>1 DEF Pid, vars, sessVars
  <2>2. pc[Shell] = "idle" =>
            (last_status = 0 <=> \/ carried \in {"nothing", "cd"}
                                 \/ carried = "pipeline" /\ p \in reaped
                                    /\ wstatus[p] = Exited(0))
    BY Zenon DEF ShellInv, StatusOfLine
  <2> HIDE DEF p
  <2>3. pc'[Shell] = "idle" =>
            (last_status' = 0 <=> \/ carried' \in {"nothing", "cd"}
                                  \/ carried' = "pipeline" /\ p' \in reaped'
                                     /\ wstatus'[p'] = Exited(0))
    BY <1>1, <2>1, <2>2
  <2> QED
    BY <2>3, Zenon DEF StatusOfLine, p
<1>3. last_status' \in 0..255 \cup {ERRNO, ERR_CMD_ARGS_BAD}
  BY <1>1 DEF ShellInv, ShellTypes
<1> QED
  BY <1>1, <1>2, <1>3, NoPipelineFrame

(* Every step keeps what the last line carried out is. *)
LEMMA CarriedStep == ShellInv /\ [ShellNext]_allVars => CarriedInv'
<1> SUFFICES ASSUME ShellInv, [ShellNext]_allVars PROVE CarriedInv'
  OBVIOUS
<1>1. CASE Line
  <2>1. carried' = "pipeline"
    BY <1>1, Zenon DEF Line
  <2> QED
    BY <2>1 DEF CarriedInv
<1>2. CASE Cd
  <2>1. carried' \in {"cd", "bad cd"} /\ pc[Shell] = "idle" /\ pc' = pc
    BY <1>2 DEF Cd, vars, sessVars
  <2> QED
    BY <2>1 DEF CarriedInv
<1>3. CASE ShellStep
  <2>1. pc[Shell] # "idle" /\ carried' = carried
    <3>1. CASE Pipe
      BY <3>1, Zenon DEF Pipe, CreatePipe, shellVars
    <3>2. CASE NoPipe
      BY <3>2, Zenon DEF NoPipe, PipeFails
    <3>3. CASE ForkChild
      BY <3>3, Zenon DEF ForkChild, Fork, shellVars
    <3>4. CASE NoFork
      BY <3>4, Zenon DEF NoFork, ForkFails
    <3>5. CASE Close
      BY <3>5, Zenon DEF Close, ClosePipe, shellVars
    <3>6. CASE Reap
      BY <3>6, Zenon DEF Reap, Wait
    <3> QED
      BY <1>3, <3>1, <3>2, <3>3, <3>4, <3>5, <3>6 DEF ShellStep
  <2> QED
    BY <2>1 DEF ShellInv, CarriedInv
<1>4. CASE (\E p \in Pids : ChildStep(p)) \/ Passed \/ UNCHANGED allVars
  <2>1. pc' = pc /\ carried' = carried
    <3>1. ASSUME NEW p \in Pids, ChildStep(p) PROVE pc' = pc /\ carried' = carried
      BY <3>1 DEF ChildStep, Setup, SetupFails, Finish, Exec, ExecFails, ProgramEnds,
         sessVars, shellVars
    <3>2. CASE Passed \/ UNCHANGED allVars
      BY <3>2 DEF Passed, allVars, vars, sessVars, shellVars
    <3> QED
      BY <1>4, <3>1, <3>2
  <2> QED
    BY <2>1 DEF ShellInv, CarriedInv
<1> QED
  BY <1>1, <1>2, <1>3, <1>4 DEF ShellNext, Typed

LEMMA PipeStep == ASSUME ShellInv, Pipe PROVE ShellParts'
<1>1. /\ pc[Shell] = "pipe" /\ UNCHANGED <<sessVars, shellVars, childVars>>
      /\ Goto(Shell, "pipe", k[Shell] + 1) \/ Goto(Shell, "fork", 1)
  BY Zenon DEF Pipe, CreatePipe
<1>2. pc'[Shell] = "pipe" \/ (pc'[Shell] = "fork" /\ k'[Shell] = 1)
  BY <1>1, ShellGoto
<1>3. /\ st' = st /\ wstatus' = wstatus /\ reaped' = reaped /\ orphans' = orphans
      /\ last_status' = last_status /\ run' = run /\ cmds' = cmds
  BY <1>1 DEF shellVars, childVars, sessVars
<1>4. Pending = {} /\ Pending' = {}
  BY <1>1, <1>2 DEF Pending
<1>5. ShellTypes' /\ ChildrenInv'
  BY <1>3, <1>4, QuietFrame DEF ShellInv, ShellTypes
<1>6. ReapInv'
  BY <1>1, <1>2, <1>3 DEF ShellInv, ReapInv
<1>7. StatusOfLine'
  BY <1>2 DEF StatusOfLine
<1> QED
  BY <1>5, <1>6, <1>7 DEF ShellParts

(* No child of this line has been waited for yet. *)
LEMMA NotYetReaped ==
    ASSUME ShellInv, pc[Shell] \in {"pipe", "fork", "close"},
           NEW i \in 1..Len(cmds[Shell])
    PROVE  Pid(Shell, i) \notin reaped
<1>1. Pid(Shell, i)[2] = run[Shell] /\ run[Shell] \in Nat
  BY ShellFacts, ShellIsSession, MaxRunsAssumption DEF TypeOK
<1> QED
  BY <1>1 DEF ShellInv, ReapInv

(* A call of the shell fails: the line gets errno, which is not 0. *)
LEMMA FailureStatus ==
    ASSUME ShellInv, pc[Shell] \in {"pipe", "fork"}, pc'[Shell] = "idle",
           last_status' = ERRNO, UNCHANGED <<run, cmds, wstatus, reaped, carried>>
    PROVE  StatusOfLine'
<1> DEFINE p == Pid(Shell, Len(cmds[Shell]))
<1>1. p \notin reaped /\ ERRNO # 0
  <2>1. Len(cmds[Shell]) \in 1..Len(cmds[Shell])
    BY ShellFacts, CommandsAssumption
  <2> QED
    BY <2>1, NotYetReaped, StatusAssumption
<1>2. p' = p
  BY DEF Pid
<1> HIDE DEF p
<1>3. last_status' # 0 /\ p' \notin reaped' /\ carried' = "pipeline"
  BY <1>1, <1>2 DEF ShellInv, CarriedInv
<1> QED
  BY <1>3 DEF StatusOfLine, p

LEMMA NoPipeStep == ASSUME ShellInv, NoPipe PROVE ShellParts'
<1>1. /\ pc[Shell] = "pipe" /\ Goto(Shell, "idle", 1) /\ last_status' = ERRNO
      /\ UNCHANGED <<sessVars, childVars, wstatus, reaped, orphans, carried>>
  BY Zenon DEF NoPipe, PipeFails
<1>2. pc'[Shell] = "idle"
  BY <1>1, ShellGoto
<1>3. /\ st' = st /\ wstatus' = wstatus /\ reaped' = reaped /\ orphans' = orphans
      /\ run' = run /\ cmds' = cmds
  BY <1>1 DEF childVars, sessVars
<1>4. Pending = {} /\ Pending' = {}
  BY <1>1, <1>2 DEF Pending
<1>5. ShellTypes' /\ ChildrenInv'
  BY <1>1, <1>3, <1>4, QuietFrame
<1>6. ReapInv'
  BY <1>2, <1>3 DEF ShellInv, ReapInv
<1>7. StatusOfLine'
  BY <1>1, <1>2, <1>3, FailureStatus
<1> QED
  BY <1>5, <1>6, <1>7 DEF ShellParts

LEMMA NoForkStep == ASSUME ShellInv, NoFork PROVE ShellParts'
<1>1. /\ pc[Shell] = "fork" /\ Goto(Shell, "idle", 1) /\ last_status' = ERRNO
      /\ k[Shell] <= Len(cmds[Shell])
      /\ orphans' = orphans \cup {Pid(Shell, i) : i \in 1..(k[Shell] - 1)}
      /\ UNCHANGED <<sessVars, childVars, wstatus, reaped, carried>>
  BY Zenon DEF NoFork, ForkFails
<1>2. pc'[Shell] = "idle"
  BY <1>1, ShellGoto
<1>3. /\ st' = st /\ wstatus' = wstatus /\ reaped' = reaped
      /\ run' = run /\ cmds' = cmds
  BY <1>1 DEF childVars, sessVars
<1>4. Pending = 1..(k[Shell] - 1) /\ Pending' = {}
  BY <1>1, <1>2 DEF Pending
<1>5. \A i \in 1..(k[Shell] - 1) : Pid(Shell, i) \in Pids
  <2>1. /\ k[Shell] \in 1..(Len(cmds[Shell]) + 1) /\ Len(cmds[Shell]) \in Nat
        /\ \A i \in 1..Len(cmds[Shell]) : Pid(Shell, i) \in Pids
    BY <1>1, ShellFacts DEF LoopAt
  <2>2. 1..(k[Shell] - 1) \subseteq 1..Len(cmds[Shell])
    BY <1>1, <2>1
  <2> QED
    BY <2>1, <2>2
<1>6. ShellTypes'
  BY <1>1, <1>3, <1>5 DEF ShellInv, ShellTypes
<1>7. ChildrenInv'
  <2>1. Forked' = Forked
    BY <1>3 DEF Forked
  <2>2. Forked = reaped \cup orphans \cup {Pid(Shell, i) : i \in 1..(k[Shell] - 1)}
    BY <1>4 DEF ShellInv, ChildrenInv
  <2>3. {Pid(Shell, i)' : i \in Pending'} = {}
    BY <1>4
  <2> QED
    BY <1>1, <1>3, <2>1, <2>2, <2>3 DEF ChildrenInv
<1>8. ReapInv'
  BY <1>2, <1>3 DEF ShellInv, ReapInv
<1>9. StatusOfLine'
  BY <1>1, <1>2, <1>3, FailureStatus
<1> QED
  BY <1>6, <1>7, <1>8, <1>9 DEF ShellParts

LEMMA ForkChildStep == ASSUME ShellInv, ForkChild PROVE ShellParts'
<1>1. /\ pc[Shell] = "fork" /\ UNCHANGED <<sessVars, shellVars>>
  BY Zenon DEF ForkChild, Fork
<1>2. wstatus' = wstatus /\ reaped' = reaped /\ orphans' = orphans
      /\ last_status' = last_status /\ run' = run /\ cmds' = cmds
  BY <1>1 DEF shellVars, sessVars
<1>3. /\ k[Shell] \in 1..(Len(cmds[Shell]) + 1) /\ Len(cmds[Shell]) \in Nat
      /\ \A i \in 1..Len(cmds[Shell]) : Pid(Shell, i) \in Pids
  BY <1>1, ShellFacts DEF LoopAt
<1>4. \A i : Pid(Shell, i)' = Pid(Shell, i)
  BY <1>2 DEF Pid
<1>5. Pending = 1..(k[Shell] - 1)
  BY <1>1 DEF Pending
<1>6. ShellTypes'
  BY <1>2 DEF ShellInv, ShellTypes
<1>a. CASE k[Shell] <= Len(cmds[Shell])
  <2> DEFINE p == Pid(Shell, k[Shell])
  <2>1. st' = [st EXCEPT ![p] = "setup"] /\ Goto(Shell, "fork", k[Shell] + 1)
    BY <1>a, Zenon DEF ForkChild, Fork
  <2>2. pc'[Shell] = "fork" /\ k'[Shell] = k[Shell] + 1
    BY <2>1, ShellGoto
  <2>3. p \in Pids /\ p \notin reaped
    <3>1. k[Shell] \in 1..Len(cmds[Shell])
      BY <1>a, <1>3
    <3> QED
      BY <1>1, <1>3, <3>1, NotYetReaped
  <2>4. Pending' = 1..k[Shell]
    <3>1. Pending' = 1..(k'[Shell] - 1)
      BY <2>2 DEF Pending
    <3>2. k'[Shell] - 1 = k[Shell]
      BY <2>2, <1>3
    <3> QED
      BY <3>1, <3>2
  <2>5. {Pid(Shell, i)' : i \in Pending'} = {Pid(Shell, i) : i \in Pending} \cup {p}
    <3>1. Pending' = Pending \cup {k[Shell]}
      BY <1>3, <1>5, <2>4
    <3>2. {Pid(Shell, i)' : i \in Pending'} = {Pid(Shell, i) : i \in Pending'}
      BY <1>4, Zenon
    <3> QED
      BY <3>1, <3>2
  <2> HIDE DEF p
  <2>6. st \in [Pids -> {"none", "setup", "running", "zombie"}]
    BY ShellFacts DEF TypeOK
  <2>7. ChildrenInv'
    <3>1. Forked' = Forked \cup {p}
      BY <2>1, <2>3, <2>6 DEF Forked
    <3> QED
      BY <1>2, <2>5, <3>1 DEF ShellInv, ChildrenInv
  <2>8. ReapInv'
    <3>1. \A q \in reaped : st'[q] = st[q]
      BY <2>1, <2>3, <2>6 DEF ShellInv, ShellTypes
    <3> QED
      BY <1>1, <1>2, <2>2, <3>1 DEF ShellInv, ReapInv
  <2>9. StatusOfLine'
    BY <2>2 DEF StatusOfLine
  <2> QED
    BY <1>6, <2>7, <2>8, <2>9 DEF ShellParts
<1>b. CASE ~(k[Shell] <= Len(cmds[Shell]))
  <2>1. Goto(Shell, "close", 1) /\ st' = st
    BY <1>b, Zenon DEF ForkChild, Fork, childVars
  <2>2. pc'[Shell] = "close" /\ k'[Shell] = 1
    BY <2>1, ShellGoto
  <2>3. Pending' = Pending
    <3>1. Pending' = 1..Len(cmds[Shell])
      BY <1>2, <2>2 DEF Pending
    <3>2. k[Shell] - 1 = Len(cmds[Shell])
      BY <1>3, <1>b
    <3> QED
      BY <1>5, <3>1, <3>2
  <2>4. ShellTypes' /\ ChildrenInv'
    BY <1>2, <1>4, <2>1, <2>3, QuietFrame DEF ShellInv, ShellTypes
  <2>5. ReapInv'
    BY <1>1, <1>2, <2>1, <2>2 DEF ShellInv, ReapInv
  <2>6. StatusOfLine'
    BY <2>2 DEF StatusOfLine
  <2> QED
    BY <2>4, <2>5, <2>6 DEF ShellParts
<1> QED
  BY <1>a, <1>b

LEMMA CloseStep == ASSUME ShellInv, Close PROVE ShellParts'
<1>1. /\ pc[Shell] = "close" /\ UNCHANGED <<sessVars, shellVars, childVars>>
      /\ Goto(Shell, "close", k[Shell] + 1) \/ Goto(Shell, "wait", 1)
  BY Zenon DEF Close, ClosePipe
<1>2. pc'[Shell] = "close" \/ (pc'[Shell] = "wait" /\ k'[Shell] = 1)
  BY <1>1, ShellGoto
<1>3. /\ st' = st /\ wstatus' = wstatus /\ reaped' = reaped /\ orphans' = orphans
      /\ last_status' = last_status /\ run' = run /\ cmds' = cmds
  BY <1>1 DEF shellVars, childVars, sessVars
<1>4. Pending = 1..Len(cmds[Shell]) /\ Pending' = Pending
  BY <1>1, <1>2, <1>3 DEF Pending
<1>5. ShellTypes' /\ ChildrenInv'
  <2>1. \A i : Pid(Shell, i)' = Pid(Shell, i)
    BY <1>3 DEF Pid
  <2> QED
    BY <1>3, <1>4, <2>1, QuietFrame DEF ShellInv, ShellTypes
<1>6. ReapInv'
  <2>1. \A p \in reaped' : /\ st'[p] = "zombie" /\ p[2] <= run'[Shell]
                          /\ p[2] < run'[Shell]
    BY <1>1, <1>3 DEF ShellInv, ReapInv
  <2>2. pc'[Shell] = "wait" => 1..(k'[Shell] - 1) = {}
    BY <1>2
  <2> QED
    BY <2>1, <2>2, Zenon DEF ReapInv
<1>7. StatusOfLine'
  BY <1>2 DEF StatusOfLine
<1> QED
  BY <1>5, <1>6, <1>7 DEF ShellParts

LEMMA StatusZero ==
    ASSUME NEW s \in [exit : 0..255, signal : 0..64]
    PROVE  StatusOf(s) \in 0..255 /\ (StatusOf(s) = 0 <=> s = Exited(0))
BY DEF StatusOf, Exited

LEMMA ReapStep == ASSUME ShellInv, Reap PROVE ShellParts'
<1>1. pc[Shell] = "wait" /\ UNCHANGED <<sessVars, childVars, wstatus, orphans, carried>>
  BY Zenon DEF Reap, Wait
<1>2. st' = st /\ wstatus' = wstatus /\ orphans' = orphans /\ run' = run /\ cmds' = cmds
  BY <1>1 DEF childVars, sessVars
<1>3. /\ k[Shell] \in 1..(Len(cmds[Shell]) + 1)
      /\ Len(cmds[Shell]) \in Nat /\ Len(cmds[Shell]) # 0
      /\ \A i \in 1..Len(cmds[Shell]) :
            Pid(Shell, i) \in Pids /\ Pid(Shell, i)[2] = run[Shell]
  BY <1>1, ShellFacts, CommandsAssumption DEF LoopAt
<1>4. \A i : Pid(Shell, i)' = Pid(Shell, i)
  BY <1>2 DEF Pid
<1>5. Pending = k[Shell]..Len(cmds[Shell])
  BY <1>1 DEF Pending
<1>6. Forked' = Forked
  BY <1>2 DEF Forked
<1>7. run[Shell] \in Nat
  BY ShellFacts, ShellIsSession, MaxRunsAssumption DEF TypeOK
<1>a. CASE k[Shell] \in WaitedFor(Shell)
  <2> DEFINE p == Pid(Shell, k[Shell])
  <2>1. /\ st[p] = "zombie" /\ Goto(Shell, "wait", k[Shell] + 1)
        /\ reaped' = reaped \cup {p} /\ last_status' = last_status
    BY <1>a, Zenon DEF Reap, Wait
  <2>2. pc'[Shell] = "wait" /\ k'[Shell] = k[Shell] + 1
    BY <2>1, ShellGoto
  <2>3. p \in Pids /\ p[2] = run[Shell]
    BY <1>3, <1>a DEF WaitedFor
  <2>4. ShellTypes'
    BY <1>2, <2>1, <2>3 DEF ShellInv, ShellTypes
  <2>5. {Pid(Shell, i) : i \in Pending} = {Pid(Shell, i)' : i \in Pending'} \cup {p}
    <3>1. Pending' = (k[Shell] + 1)..Len(cmds[Shell])
      BY <1>2, <2>2 DEF Pending
    <3>2. Pending = Pending' \cup {k[Shell]}
      BY <1>3, <1>5, <1>a, <3>1 DEF WaitedFor
    <3>3. {Pid(Shell, i)' : i \in Pending'} = {Pid(Shell, i) : i \in Pending'}
      BY <1>4, Zenon
    <3> QED
      BY <3>2, <3>3
  <2> HIDE DEF p
  <2>6. ChildrenInv'
    BY <1>2, <1>6, <2>1, <2>5 DEF ShellInv, ChildrenInv
  <2>7. ReapInv'
    <3>1. \A q \in reaped' : st'[q] = "zombie" /\ q[2] <= run'[Shell]
      BY <1>2, <1>7, <2>1, <2>3 DEF ShellInv, ReapInv
    <3>2. ASSUME NEW i \in 1..(k'[Shell] - 1) PROVE Pid(Shell, i)' \in reaped'
      <4>1. i \in 1..(k[Shell] - 1) \/ i = k[Shell]
        BY <1>3, <2>2
      <4> QED
        BY <1>1, <1>4, <2>1, <4>1 DEF ShellInv, ReapInv, p
    <3> QED
      BY <2>2, <3>1, <3>2 DEF ReapInv
  <2>8. StatusOfLine'
    BY <2>2 DEF StatusOfLine
  <2> QED
    BY <2>4, <2>6, <2>7, <2>8 DEF ShellParts
<1>b. CASE k[Shell] \notin WaitedFor(Shell)
  <2> DEFINE p == Pid(Shell, Len(cmds[Shell]))
  <2>1. /\ Goto(Shell, "idle", 1) /\ last_status' = StatusOf(wstatus[p])
        /\ reaped' = reaped
    BY <1>b, Zenon DEF Reap, Wait, Final
  <2>2. pc'[Shell] = "idle"
    BY <2>1, ShellGoto
  <2>3. k[Shell] = Len(cmds[Shell]) + 1
    BY <1>b, <1>3 DEF WaitedFor
  <2>4. p \in reaped
    <3>1. Len(cmds[Shell]) \in 1..(k[Shell] - 1)
      BY <1>3, <2>3
    <3> QED
      BY <1>1, <3>1 DEF ShellInv, ReapInv
  <2>5. wstatus[p] \in [exit : 0..255, signal : 0..64]
    BY <2>4 DEF ShellInv, ShellTypes
  <2>6. p' = p
    BY <1>2, <1>4
  <2> HIDE DEF p
  <2>7. ShellTypes'
    BY <1>2, <2>1, <2>5, StatusZero DEF ShellInv, ShellTypes
  <2>8. ChildrenInv'
    <3>1. Pending = {} /\ Pending' = {}
      BY <1>5, <2>2, <2>3, <1>3 DEF Pending
    <3> QED
      BY <1>2, <1>6, <2>1, <3>1 DEF ShellInv, ChildrenInv
  <2>9. ReapInv'
    BY <1>2, <2>1, <2>2 DEF ShellInv, ReapInv
  <2>10. StatusOfLine'
    <3>1. last_status' = 0 <=> p' \in reaped' /\ wstatus'[p'] = Exited(0)
      BY <1>2, <2>1, <2>4, <2>5, <2>6, StatusZero
    <3>2. carried' = "pipeline"
      BY <1>1 DEF ShellInv, CarriedInv
    <3> QED
      BY <3>1, <3>2 DEF StatusOfLine, p
  <2> QED
    BY <2>7, <2>8, <2>9, <2>10 DEF ShellParts
<1> QED
  BY <1>a, <1>b

(* A child that is alive goes on or ends: it is not one that was waited for. *)
LEMMA OneChild ==
    ASSUME ShellInv, NEW p \in Pids, Alive(p), NEW x \in {"running", "zombie"},
           st' = [st EXCEPT ![p] = x],
           UNCHANGED <<pc, run, cmds, k, last_status, reaped, orphans, carried>>,
           wstatus' \in [Pids -> [exit : 0..255, signal : 0..64]],
           \A q \in Pids \ {p} : wstatus'[q] = wstatus[q]
    PROVE  ShellParts'
<1>1. st \in [Pids -> {"none", "setup", "running", "zombie"}]
  BY ShellFacts DEF TypeOK
<1>2. p \notin reaped /\ st[p] # "none"
  BY DEF ShellInv, ReapInv, Alive
<1>3. reaped \subseteq Pids
  BY DEF ShellInv, ShellTypes
<1>4. ShellTypes'
  BY DEF ShellInv, ShellTypes
<1>5. ChildrenInv'
  <2>1. Forked' = Forked
    BY <1>1, <1>2 DEF Forked
  <2>2. Pending' = Pending /\ \A i : Pid(Shell, i)' = Pid(Shell, i)
    BY DEF Pending, Pid
  <2>3. {Pid(Shell, i)' : i \in Pending'} = {Pid(Shell, i) : i \in Pending}
    BY <2>2, Zenon
  <2> QED
    BY <2>1, <2>3, Zenon DEF ShellInv, ChildrenInv
<1>6. ReapInv'
  <2>1. \A q \in reaped : st'[q] = st[q]
    BY <1>1, <1>2, <1>3
  <2>2. \A i : Pid(Shell, i)' = Pid(Shell, i)
    BY DEF Pid
  <2> QED
    BY <2>1, <2>2, Zenon DEF ShellInv, ReapInv
<1>7. StatusOfLine'
  <2> DEFINE q == Pid(Shell, Len(cmds[Shell]))
  <2>1. q' = q
    BY DEF Pid
  <2>2. q \in reaped => wstatus'[q] = wstatus[q]
    BY <1>2, <1>3
  <2>3. pc[Shell] = "idle" =>
            (last_status = 0 <=> \/ carried \in {"nothing", "cd"}
                                 \/ carried = "pipeline" /\ q \in reaped
                                    /\ wstatus[q] = Exited(0))
    BY Zenon DEF ShellInv, StatusOfLine
  <2> HIDE DEF q
  <2>4. pc'[Shell] = "idle" =>
            (last_status' = 0 <=> \/ carried' \in {"nothing", "cd"}
                                  \/ carried' = "pipeline" /\ q' \in reaped'
                                     /\ wstatus'[q'] = Exited(0))
    BY <2>1, <2>2, <2>3
  <2> QED
    BY <2>4, Zenon DEF StatusOfLine, q
<1> QED
  BY <1>4, <1>5, <1>6, <1>7 DEF ShellParts

LEMMA ChildStepKeeps == ASSUME ShellInv, NEW p \in Pids, ChildStep(p) PROVE ShellParts'
<1>1. wstatus \in [Pids -> [exit : 0..255, signal : 0..64]]
  BY DEF ShellInv, ShellTypes
<1>2. CASE Setup(p)
  <2>1. /\ Alive(p) /\ st' = [st EXCEPT ![p] = "running"] /\ wstatus' = wstatus
        /\ UNCHANGED <<pc, run, cmds, k, last_status, reaped, orphans, carried>>
    BY <1>2 DEF Setup, Exec, Alive, sessVars, shellVars
  <2> QED
    BY <1>1, <2>1, OneChild
<1>3. CASE SetupFails(p)
  <2>1. /\ Alive(p) /\ st' = [st EXCEPT ![p] = "zombie"]
        /\ wstatus' = [wstatus EXCEPT ![p] = Exited(127)]
        /\ UNCHANGED <<pc, run, cmds, k, last_status, reaped, orphans, carried>>
    BY <1>3 DEF SetupFails, ExecFails, Alive, sessVars
  <2>2. Exited(127) \in [exit : 0..255, signal : 0..64]
    BY DEF Exited
  <2> QED
    BY <1>1, <2>1, <2>2, OneChild
<1>4. CASE Finish(p)
  <2>1. /\ Alive(p) /\ st' = [st EXCEPT ![p] = "zombie"]
        /\ UNCHANGED <<pc, run, cmds, k, last_status, reaped, orphans, carried>>
    BY <1>4 DEF Finish, ProgramEnds, Alive, sessVars
  <2>2. PICK w \in [exit : 0..255, signal : 0..64] : wstatus' = [wstatus EXCEPT ![p] = w]
    <3>1. Killed(SIGPIPE) \in [exit : 0..255, signal : 0..64]
      BY StatusAssumption DEF Killed
    <3>2. \A s \in Statuses : Exited(s) \in [exit : 0..255, signal : 0..64]
      BY StatusAssumption DEF Exited
    <3>3. \/ wstatus' = [wstatus EXCEPT ![p] = Killed(SIGPIPE)]
          \/ \E s \in Statuses : wstatus' = [wstatus EXCEPT ![p] = Exited(s)]
      BY <1>4, Zenon DEF Finish
    <3> QED
      BY <3>1, <3>2, <3>3
  <2> QED
    BY <1>1, <2>1, <2>2, OneChild
<1> QED
  BY <1>2, <1>3, <1>4 DEF ChildStep

LEMMA ShellInvStep == ShellInv /\ [ShellNext]_allVars => ShellInv'
<1> SUFFICES ASSUME ShellInv, [ShellNext]_allVars PROVE ShellInv'
  OBVIOUS
<1>1. PipelineInv'
  BY InvStep, StepsAreAlgorithm DEF ShellInv
<1>2. CarriedInv'
  BY CarriedStep
<1>3. ShellParts'
  <2>1. CASE Typed
    BY <2>1, LineStep, CdStep, QuietStep DEF Typed, Passed
  <2>2. CASE ShellStep
    BY <2>2, PipeStep, NoPipeStep, ForkChildStep, NoForkStep, CloseStep, ReapStep
       DEF ShellStep
  <2>3. CASE \E p \in Pids : ChildStep(p)
    BY <2>3, ChildStepKeeps
  <2>4. CASE UNCHANGED allVars
    BY <2>4, QuietStep
  <2> QED
    BY <2>1, <2>2, <2>3, <2>4 DEF ShellNext
<1> QED
  BY <1>1, <1>2, <1>3 DEF ShellInv, ShellParts

-----------------------------------------------------------------------------
THEOREM ShellInvariant == ShellSpec => []ShellInv
BY ShellInvInit, ShellInvStep, PTL DEF ShellSpec

(* The variables of the shell keep their types. *)
THEOREM ShellTypeCorrect == ShellSpec => []ShellTypeOK
<1>1. ShellInv => ShellTypeOK
  BY Zenon DEF ShellInv, PipelineInv, ShellTypes, CarriedInv, ShellTypeOK
<1> QED
  BY <1>1, ShellInvariant, PTL

(* At its prompt execute_pipeline has closed every pipe but those of a line
   whose pipe() failed. *)
THEOREM ShellClosesPipes == ShellSpec => []NoPipeLeft
<1>1. ShellInit => Init
  BY DEF ShellInit
<1>2. ShellSpec => []PipelineInv
  BY <1>1, InvInit, StepsAreAlgorithm, InvStep, PTL DEF ShellSpec
<1>3. PipelineInv => NoPipeLeft
  BY InvClosesPipes
<1> QED
  BY <1>2, <1>3, PTL

(* At its prompt the shell has waited for every child it ever forked, in
   whatever order they ended, but for those of lines whose fork failed. *)
THEOREM ChildrenAreReaped == ShellSpec => []NoStrayChild
<1>1. ShellInv => NoStrayChild
  <2> SUFFICES ASSUME ShellInv, pc[Shell] = "idle" PROVE Forked = reaped \cup orphans
    BY DEF NoStrayChild, Forked
  <2>1. Pending = {}
    BY DEF Pending
  <2> QED
    BY <2>1 DEF ShellInv, ChildrenInv
<1> QED
  BY <1>1, ShellInvariant, PTL

(* rc prints 0 exactly when the last line that was carried out succeeded: a
   pipeline whose last command was waited for and exited with 0, or a cd; a line
   refused since then has left it as it was. *)
THEOREM StatusIsOfLine == ShellSpec => []StatusOfLine
<1>1. ShellInv => StatusOfLine
  BY DEF ShellInv
<1> QED
  BY <1>1, ShellInvariant, PTL

(* The prompt comes back only when every command of the line has ended. *)
THEOREM PromptComesLast == ShellSpec => AnswerAfterAllCommands
<1>1. ShellInv /\ [ShellNext]_allVars =>
        [\A s \in Sessions : pc[s] = "wait" /\ pc'[s] = "idle" =>
            \A i \in 1..Len(cmds[s]) : ~Alive(Pid(s, i))]_vars
  BY StepsAreAlgorithm, AnswerStep DEF ShellInv
<1> QED
  BY <1>1, ShellInvariant, PTL DEF ShellSpec, AnswerAfterAllCommands
=============================================================================
