-------------------------- MODULE SchedulerProofs --------------------------
(***************************************************************************)
(* The safety properties of Scheduler, for any number of terminals and     *)
(* slots.  They are conjuncts of the inductive invariant IInv, which adds  *)
(* what the kernel looks like while the first ticks start the shells.      *)
(*                                                                         *)
(* Then the safety part of the refinement: whatever the kernel does, the   *)
(* chains of parents in its PCBs go through the steps of TerminalStacks.   *)
(* The invariant StackInv says that the chains are stacks; that they end,  *)
(* no two meeting, makes the recursive ChainTo compute them.               *)
(***************************************************************************)
EXTENDS SchedulerRefinement, SequenceTheorems, FiniteSetTheorems, WellFoundedInduction, TLAPS

(* How far slots are ahead of terminals: 1 when the boot loop has taken    *)
(* slot 0 for a process no terminal owns.                                  *)
Offset == Orphan + 1

(* Until every terminal has its shell, slots are handed out in order.      *)
Starting == ~AllStarted =>
    /\ Live = 0 .. current_terminal_id + Offset
    /\ pid = current_terminal_id + Offset
    /\ \A t \in Terminals : terminal_process_info[t] =
         IF t <= current_terminal_id THEN t + Offset ELSE UNUSED
    /\ \A s \in Owned : parent[s] = UNUSED

(* The boot process is at most slot 0, and the two indices go together.    *)
Progress ==
    /\ Orphan \in {UNUSED} \cup (Live \cap {0})
    /\ AllStarted => current_terminal_id # UNUSED
    /\ current_terminal_id # UNUSED => next_sche_terminal = current_terminal_id
    /\ current_terminal_id = UNUSED => next_sche_terminal = 0

(* The inductive invariant. *)
IInv ==
    /\ TypeOK
    /\ Starting
    /\ Progress
    /\ RunningContext
    /\ ParkedContexts
    /\ ReturnPaths
    /\ NoSharing
    /\ NoLeak

(* The successor modulo NTerminals, from the boot value -1 on.             *)
LEMMA Successor ==
    ASSUME NEW c \in -1 .. NTerminals - 1
    PROVE  (c + 1) % NTerminals = IF c = NTerminals - 1 THEN 0 ELSE c + 1
<1>1. CASE c = NTerminals - 1
  BY <1>1, SizesAssumption
<1>2. CASE c # NTerminals - 1
  BY <1>2, SizesAssumption
<1> QED BY <1>1, <1>2

(* The terminal schedule_handler() moves to is one of the array.           *)
LEMMA NextTerminalRange ==
    ASSUME TypeOK, Progress
    PROVE  /\ NextTerminal \in Terminals
           /\ NextTerminal = IF current_terminal_id = NTerminals - 1 THEN 0
                             ELSE current_terminal_id + 1
BY Successor, SizesAssumption DEF TypeOK, Progress, NextTerminal, Terminals, UNUSED

(* When a slot is free, execute() takes the first free one.                *)
LEMMA FirstFreeFacts ==
    ASSUME NEW ps \in [Slots -> {0, 1}], NEW old, NEW new \in FirstFree(ps, old),
           NEW s \in Slots, ps[s] = 0
    PROVE  /\ new \in Slots /\ ps[new] = 0
           /\ \A r \in 0 .. new - 1 : ps[r] # 0
BY DEF FirstFree

(* execute() past its checks keeps the types, given well-typed arguments.  *)
LEMMA StartProgramType ==
    ASSUME TypeOK,
           NEW new \in Slots, NEW t \in Terminals \cup {UNUSED},
           NEW oldparent \in Slots \cup {UNUSED},
           NEW ps \in [Slots -> {0, 1}],
           NEW tpi \in [Terminals \cup {UNUSED} -> Slots \cup {UNUSED}],
           NEW tss \in Slots \cup {UNUSED},
           NEW esches \in [PcbIndex -> Slots \cup {UNUSED}],
           NEW parked \in [Slots -> Frames], cpu \in Slots,
           StartProgram(new, t, oldparent, ps, tpi, tss, esches, parked),
           current_terminal_id' \in Terminals, next_sche_terminal' \in Terminals,
           terminal_id' \in Terminals
    PROVE  TypeOK'
<1>1. /\ process_state' \in [Slots -> {0, 1}]
      /\ terminal_process_info' \in [Terminals \cup {UNUSED} -> Slots \cup {UNUSED}]
      /\ frame' \in [Slots -> Frames]
  BY DEF StartProgram, SwitchTo, Frames
<1>2. /\ parent' \in [PcbIndex -> Slots \cup {UNUSED}]
      /\ esp0' \in [PcbIndex -> Slots \cup {UNUSED}]
      /\ sche_esp' \in [PcbIndex -> Slots \cup {UNUSED}]
  BY DEF TypeOK, StartProgram, SwitchTo, PcbIndex
<1>3. esp' \in [PcbIndex -> Slots \cup {UNUSED}]
  BY DEF TypeOK, StartProgram, SwitchTo, PcbIndex
<1> QED BY <1>1, <1>2, <1>3 DEF TypeOK, StartProgram, SwitchTo

(* The boot state satisfies the invariant.                                 *)
LEMMA InitIInv == Init => IInv
BY SizesAssumption DEF Init, IInv, TypeOK, Starting, Progress, RunningContext, ParkedContexts,
  ReturnPaths, NoSharing, NoLeak, Live, Owned, Orphan, Offset, Tops, Terminals, Slots,
  UNUSED, LOST, PcbIndex, Frames, AllStarted

(* The execute system call preserves the invariant.                        *)
LEMMA ExecuteIInv ==
    ASSUME Disorder = {}, IInv, Execute
    PROVE  IInv'
<1> DEFINE c == current_terminal_id
           p == terminal_process_info[current_terminal_id]
<1>1. /\ c \in Terminals /\ cpu \in Slots /\ p = cpu /\ p \in Owned /\ p \in Tops
      /\ terminal_id = c /\ AllStarted /\ pd = cpu /\ tss_esp0 = cpu
  BY DEF Execute, Running, IInv, TypeOK, RunningContext, NoSharing, Tops, UNUSED, LOST, Slots
<1>2. PICK new \in FirstFree(process_state, pid) :
        StartProgram(new, c, p, process_state, terminal_process_info, tss_esp0,
                     sche_esp, [frame EXCEPT ![cpu] = "execute"])
  BY <1>1 DEF Execute, AttachTo
<1>3. new \in Slots /\ process_state[new] = 0
  BY <1>1, FirstFreeFacts DEF Execute, IInv, TypeOK
<1>4. UNCHANGED <<current_terminal_id, next_sche_terminal, terminal_id>>
  BY DEF Execute
<1>5. /\ Orphan' = Orphan /\ Live' = Live \cup {new} /\ Owned' = Owned \cup {new}
      /\ new \notin Live /\ new \notin Owned /\ new # Orphan
  BY <1>1, <1>2, <1>3 DEF IInv, TypeOK, Progress, StartProgram, SwitchTo, Orphan, Live, Owned, Terminals, UNUSED, Slots
<1>6. Tops' = (Tops \ {p}) \cup {new}
  BY <1>1, <1>2, <1>3 DEF IInv, TypeOK, NoSharing, StartProgram, SwitchTo, Tops, Terminals, UNUSED, Slots
<1>7. TypeOK'
  BY <1>1, <1>2, <1>3, <1>4 DEF IInv, TypeOK, StartProgram, SwitchTo, PcbIndex, Terminals, Frames
<1>8. Starting' /\ Progress'
  BY <1>1, <1>2, <1>3, <1>4, <1>5 DEF IInv, TypeOK, Starting, Progress, StartProgram, SwitchTo, AllStarted, Slots, UNUSED, Terminals
<1>9. RunningContext'
  BY <1>1, <1>2, <1>3, <1>4 DEF IInv, TypeOK, RunningContext, StartProgram, SwitchTo, Slots, LOST
<1>10. ParkedContexts'
  BY <1>1, <1>2, <1>3, <1>4, <1>5 DEF IInv, TypeOK, ParkedContexts, NoSharing, StartProgram, SwitchTo, Tops, Slots, UNUSED
<1>11. ReturnPaths'
  BY <1>1, <1>2, <1>3, <1>4, <1>5 DEF IInv, TypeOK, ReturnPaths, StartProgram, SwitchTo, Slots, UNUSED, Owned, Live, PcbIndex
<1>12. NoSharing'
  BY <1>1, <1>2, <1>3, <1>4, <1>5, <1>6 DEF IInv, TypeOK, ReturnPaths, NoSharing, StartProgram, SwitchTo, Slots, UNUSED, Owned, Live, PcbIndex, Tops
<1>13. NoLeak'
  BY <1>1, <1>2, <1>3, <1>4, <1>5, <1>6 DEF IInv, TypeOK, NoLeak, StartProgram, SwitchTo, Slots, UNUSED, Owned, Live, PcbIndex
<1> QED BY <1>7, <1>8, <1>9, <1>10, <1>11, <1>12, <1>13 DEF IInv

(* The exit of a process with a parent preserves the invariant.            *)
LEMMA HaltChildIInv ==
    ASSUME Disorder = {}, IInv, HaltChild
    PROVE  IInv'
<1> DEFINE c == current_terminal_id
           p == terminal_process_info[current_terminal_id]
           q == parent[p]
<1>1. /\ c \in Terminals /\ cpu \in Slots /\ p = cpu /\ p \in Owned /\ p \in Tops
      /\ q # UNUSED /\ pd = cpu /\ tss_esp0 = cpu
  BY DEF HaltChild, Running, IInv, TypeOK, RunningContext, NoSharing, Tops, UNUSED, LOST, Slots
<1>2. /\ q \in Owned /\ q \in Slots /\ q \notin Tops /\ q # p
      /\ esp[p] = q /\ esp0[p] = q /\ frame[q] = "execute"
  BY <1>1 DEF IInv, ReturnPaths, NoSharing, Owned, Live
<1>3. AllStarted
  BY <1>1 DEF IInv, Starting
<1>4. /\ process_state' = [process_state EXCEPT ![p] = 0]
      /\ pid' = q
      /\ terminal_process_info' = [terminal_process_info EXCEPT ![c] = q]
      /\ tss_esp0' = q /\ pd' = q /\ cpu' = q
      /\ frame' = [frame EXCEPT ![q] = "none"]
      /\ UNCHANGED <<current_terminal_id, next_sche_terminal, sche_ready, terminal_id, pcbs>>
  BY <1>2 DEF HaltChild, Resume, Freed
<1>5. /\ Orphan' = Orphan /\ Live' = Live \ {p} /\ Owned' = Owned \ {p}
  BY <1>1, <1>4 DEF IInv, TypeOK, Orphan, Live, Owned, Terminals, UNUSED, Slots
<1>6. Tops' = (Tops \ {p}) \cup {q}
  BY <1>1, <1>2, <1>4 DEF IInv, TypeOK, NoSharing, Tops, Terminals, UNUSED, Slots
<1>7. TypeOK'
  BY <1>1, <1>2, <1>4 DEF IInv, TypeOK, pcbs, PcbIndex, Terminals, Frames
<1>8. Starting' /\ Progress'
  BY <1>1, <1>2, <1>3, <1>4, <1>5 DEF IInv, TypeOK, Starting, Progress, AllStarted, Owned, Slots, UNUSED, Terminals
<1>9. RunningContext'
  BY <1>1, <1>2, <1>4 DEF IInv, TypeOK, RunningContext, Slots, LOST
<1>10. ParkedContexts'
  BY <1>1, <1>2, <1>4, <1>5 DEF IInv, TypeOK, ParkedContexts, NoSharing, pcbs, Tops, Slots, UNUSED
<1>11. ReturnPaths'
  BY <1>1, <1>2, <1>4, <1>5 DEF IInv, TypeOK, ReturnPaths, NoSharing, pcbs, Slots, UNUSED, Owned, Live, PcbIndex
<1>12. NoSharing'
  BY <1>1, <1>2, <1>4, <1>5, <1>6 DEF IInv, TypeOK, NoSharing, pcbs, Slots, UNUSED, Owned, Live, PcbIndex, Tops
<1>13. NoLeak'
  BY <1>1, <1>2, <1>4, <1>5, <1>6 DEF IInv, TypeOK, NoLeak, pcbs
<1> QED BY <1>7, <1>8, <1>9, <1>10, <1>11, <1>12, <1>13 DEF IInv

(* The exit of a root shell, and the shell that replaces it, preserve it.  *)
LEMMA HaltRootIInv ==
    ASSUME Disorder = {}, IInv, HaltRoot
    PROVE  IInv'
<1> DEFINE c == current_terminal_id
           p == terminal_process_info[current_terminal_id]
           ps == [process_state EXCEPT ![p] = 0]
           tpi == [terminal_process_info EXCEPT ![c] = UNUSED]
<1>1. /\ c \in Terminals /\ cpu \in Slots /\ p = cpu /\ p \in Owned /\ p \in Tops
      /\ terminal_id = c /\ parent[p] = UNUSED
  BY DEF HaltRoot, Running, IInv, TypeOK, RunningContext, NoSharing, Tops, UNUSED, LOST, Slots
<1>2. ps \in [Slots -> {0, 1}] /\ ps[p] = 0
  BY <1>1 DEF IInv, TypeOK
<1>3. PICK new \in FirstFree(ps, UNUSED) :
        StartProgram(new, c, UNUSED, ps, tpi, esp0[p], sche_esp,
                     [frame EXCEPT ![cpu] = "execute"])
  BY <1>1 DEF HaltRoot, AttachTo, Freed, IInv, TypeOK
<1>4. new \in Slots /\ ps[new] = 0 /\ \A r \in 0 .. new - 1 : ps[r] # 0
  BY <1>1, <1>2, FirstFreeFacts
<1>5. UNCHANGED <<current_terminal_id, next_sche_terminal, terminal_id>>
  BY DEF HaltRoot
<1>6. terminal_process_info' = [terminal_process_info EXCEPT ![c] = new]
  BY <1>1, <1>3 DEF StartProgram, SwitchTo, IInv, TypeOK
<1>7. /\ Orphan' = Orphan /\ Live' = (Live \ {p}) \cup {new}
      /\ Owned' = (Owned \ {p}) \cup {new} /\ new \notin Owned \ {p} /\ new # Orphan
  BY <1>1, <1>3, <1>4, <1>6 DEF IInv, TypeOK, Progress, StartProgram, SwitchTo, Orphan, Live, Owned, Terminals, UNUSED, Slots
<1>8. new \in Slots
  BY <1>4
<1>9. Tops' = (Tops \ {p}) \cup {new}
  <2>1. \A t \in Terminals : terminal_process_info'[t] = IF t = c THEN new ELSE terminal_process_info[t]
    BY <1>1, <1>6 DEF IInv, TypeOK
  <2>2. new # UNUSED /\ p # UNUSED
    BY <1>1, <1>8 DEF Tops, Slots, UNUSED
  <2>3. \A t \in Terminals : terminal_process_info[t] = p => t = c
    BY <1>1, <2>2 DEF IInv, NoSharing
  <2>4. ASSUME NEW x \in Tops' PROVE x \in (Tops \ {p}) \cup {new}
    BY <2>1, <2>3, <2>4 DEF Tops
  <2>5. ASSUME NEW x \in (Tops \ {p}) \cup {new} PROVE x \in Tops'
    <3>1. CASE x = new
      BY <1>1, <2>1, <2>2, <3>1 DEF Tops
    <3>2. CASE x \in Tops \ {p}
      BY <1>1, <2>1, <3>2 DEF Tops
    <3> QED BY <2>5, <3>1, <3>2
  <2> QED
    BY <2>4, <2>5
<1>10. ~AllStarted => new = p
  <2> SUFFICES ASSUME ~AllStarted, new # p PROVE FALSE
    OBVIOUS
  <2>1. p = c + Offset /\ Offset \in {0, 1} /\ Live = 0 .. p
    BY <1>1 DEF IInv, TypeOK, Starting, Progress, Terminals, UNUSED, Offset, Live
  <2>2. CASE new < p
    BY <1>1, <1>4, <2>1, <2>2 DEF IInv, TypeOK, Live, Slots
  <2>3. CASE new > p
    BY <1>1, <1>2, <1>4, <2>1, <2>3 DEF Slots
  <2> QED BY <1>1, <1>4, <2>2, <2>3 DEF Slots
<1>11. TypeOK'
  <2>1. tpi \in [Terminals \cup {UNUSED} -> Slots \cup {UNUSED}]
    BY DEF IInv, TypeOK
  <2>2. [frame EXCEPT ![cpu] = "execute"] \in [Slots -> Frames]
    BY DEF IInv, TypeOK, Frames
  <2>3. esp0[p] \in Slots \cup {UNUSED}
    BY <1>1 DEF IInv, TypeOK, PcbIndex
  <2> QED
    BY <1>1, <1>2, <1>3, <1>8, <1>5, <2>1, <2>2, <2>3, StartProgramType DEF IInv, TypeOK
<1>12. Starting'
  <2>1. CASE AllStarted
    BY <2>1, <1>1, <1>4, <1>6 DEF Starting, AllStarted, Slots, UNUSED, IInv, TypeOK
  <2>2. CASE ~AllStarted
    BY <2>2, <1>1, <1>3, <1>4, <1>5, <1>6, <1>7, <1>10 DEF Starting, StartProgram, SwitchTo, AllStarted, Slots, UNUSED, IInv, TypeOK, Offset, Live, Owned, PcbIndex, Terminals
  <2> QED BY <2>1, <2>2
<1>13. Progress'
  BY <1>1, <1>4, <1>5, <1>6, <1>7 DEF IInv, TypeOK, Progress, AllStarted, Owned, Slots, UNUSED, Terminals
<1>14. RunningContext'
  BY <1>1, <1>3, <1>4, <1>5, <1>6 DEF IInv, TypeOK, RunningContext, StartProgram, SwitchTo, Slots, LOST
<1>15. ParkedContexts'
  BY <1>1, <1>3, <1>4, <1>5, <1>6, <1>7 DEF IInv, TypeOK, ParkedContexts, NoSharing, StartProgram, SwitchTo, Tops, Slots, UNUSED
<1>16. ReturnPaths'
  BY <1>1, <1>3, <1>4, <1>7 DEF IInv, TypeOK, ReturnPaths, NoSharing, StartProgram, SwitchTo, Slots, UNUSED, Owned, Live, PcbIndex
<1>17. NoSharing'
  BY <1>1, <1>3, <1>4, <1>6, <1>7, <1>9 DEF IInv, TypeOK, ReturnPaths, NoSharing, StartProgram, SwitchTo, Slots, UNUSED, Owned, Live, PcbIndex, Tops
<1>18. NoLeak'
  BY <1>1, <1>3, <1>4, <1>7, <1>9 DEF IInv, TypeOK, NoLeak, StartProgram, SwitchTo, Slots, UNUSED, Owned, Live, PcbIndex
<1> QED BY <1>11, <1>12, <1>13, <1>14, <1>15, <1>16, <1>17, <1>18 DEF IInv

(* A tick that switches to a process of another terminal preserves it.     *)
LEMMA TickSwitchIInv ==
    ASSUME IInv, TickSwitch
    PROVE  IInv'
<1> DEFINE c == current_terminal_id
           p == terminal_process_info[current_terminal_id]
           n == NextTerminal
           q == terminal_process_info[n]
<1>1. n \in Terminals /\ q \in Slots /\ q # UNUSED /\ cpu \in Slots
  BY NextTerminalRange DEF TickSwitch, IInv, TypeOK
<1>2. AllStarted /\ c \in Terminals /\ p = cpu
  <2>1. CASE ~AllStarted
    <3>1. n <= c
      BY <1>1, <2>1 DEF IInv, Starting
    <3>2. c = NTerminals - 1
      BY <3>1, NextTerminalRange DEF IInv, TypeOK, Terminals, UNUSED
    <3> QED
      BY <2>1, <3>2 DEF IInv, TypeOK, Starting, Progress, AllStarted, Offset, Terminals, Slots, UNUSED
  <2>2. CASE AllStarted
    BY <2>2 DEF IInv, TypeOK, Progress, RunningContext, UNUSED
  <2> QED BY <2>1, <2>2
<1>3. Saved = [sche_esp EXCEPT ![cpu] = cpu]
  BY <1>1, <1>2 DEF Saved, SavedPcb
<1>4. q \in Owned /\ (n # c => q # cpu)
  BY <1>1, <1>2 DEF IInv, NoSharing, Tops
<1>5. Saved[q] = q /\ Parked[q] = "schedule_handler"
  <2>1. CASE n = c
    BY <2>1, <1>1, <1>2, <1>3 DEF Parked, IInv, TypeOK, PcbIndex
  <2>2. CASE n # c
    BY <2>2, <1>1, <1>2, <1>3, <1>4 DEF Parked, IInv, TypeOK, ParkedContexts, PcbIndex
  <2> QED BY <2>1, <2>2
<1>6. /\ next_sche_terminal' = n /\ current_terminal_id' = n
      /\ sche_esp' = [sche_esp EXCEPT ![cpu] = cpu]
      /\ pd' = q /\ tss_esp0' = q /\ cpu' = q
      /\ frame' = [[frame EXCEPT ![cpu] = "schedule_handler"] EXCEPT ![q] = "none"]
      /\ UNCHANGED <<pid, process_state, terminal_process_info, sche_ready,
                     terminal_id, parent, esp, esp0>>
  BY <1>1, <1>3, <1>5 DEF TickSwitch, SwitchTo, Resume, Parked
<1>7. Live' = Live /\ Orphan' = Orphan /\ Owned' = Owned /\ Tops' = Tops /\ AllStarted'
  BY <1>2, <1>6 DEF Live, Orphan, Owned, Tops, AllStarted
<1>8. TypeOK'
  BY <1>1, <1>6 DEF IInv, TypeOK, PcbIndex, Frames
<1>9. Starting' /\ Progress'
  BY <1>1, <1>6, <1>7 DEF IInv, Starting, Progress, Terminals, UNUSED
<1>10. RunningContext'
  BY <1>1, <1>6 DEF RunningContext, LOST, Slots
<1>11. ParkedContexts'
  <2> SUFFICES ASSUME NEW t \in Terminals, t # n,
                      terminal_process_info[t] # UNUSED
               PROVE  /\ sche_esp'[terminal_process_info[t]] = terminal_process_info[t]
                      /\ frame'[terminal_process_info[t]] = "schedule_handler"
    BY <1>6 DEF ParkedContexts
  <2>1. terminal_process_info[t] # q
    BY <1>1 DEF IInv, NoSharing
  <2>2. CASE t = c
    BY <2>1, <2>2, <1>1, <1>2, <1>6 DEF IInv, TypeOK, PcbIndex
  <2>3. CASE t # c
    BY <2>1, <2>3, <1>1, <1>2, <1>6 DEF IInv, TypeOK, PcbIndex, ParkedContexts, NoSharing, Tops, Owned, Live
  <2> QED BY <2>2, <2>3
<1>12. ReturnPaths'
  BY <1>1, <1>2, <1>6, <1>7 DEF IInv, TypeOK, ReturnPaths, NoSharing, Tops, Owned, Live
<1>13. NoSharing' /\ NoLeak'
  BY <1>6, <1>7 DEF IInv, NoSharing, NoLeak
<1> QED BY <1>8, <1>9, <1>10, <1>11, <1>12, <1>13 DEF IInv

(* A next terminal without a process: shells are still being started.      *)
LEMMA StartPhase ==
    ASSUME IInv, terminal_process_info[NextTerminal] = UNUSED
    PROVE  /\ ~AllStarted
           /\ NextTerminal = current_terminal_id + 1
           /\ current_terminal_id <= NTerminals - 2
           /\ Offset \in {0, 1}
           /\ pid = current_terminal_id + Offset
           /\ Live = 0 .. pid
           /\ pid + 1 \in Slots
<1>1. NextTerminal \in Terminals /\ ~AllStarted
  BY NextTerminalRange DEF IInv, AllStarted
<1>2. Offset \in {0, 1}
  BY DEF IInv, Progress, Offset, UNUSED
<1>3. current_terminal_id # NTerminals - 1
  BY <1>1, <1>2, SizesAssumption
     DEF IInv, TypeOK, Starting, Progress, AllStarted, Offset, Terminals, Slots, UNUSED
<1>4. NextTerminal = current_terminal_id + 1 /\ current_terminal_id <= NTerminals - 2
  BY <1>1, <1>3, NextTerminalRange, SizesAssumption DEF IInv, TypeOK, Terminals, UNUSED
<1>5. pid = current_terminal_id + Offset /\ Live = 0 .. pid
  BY <1>1 DEF IInv, Starting
<1> QED
  BY <1>1, <1>2, <1>4, <1>5, SizesAssumption DEF IInv, TypeOK, Terminals, Slots, UNUSED

(* While shells are being started, no tick finds the process table full.   *)
LEMMA TickNoShellImpossible ==
    ASSUME IInv
    PROVE  ~TickNoShell
<1> SUFFICES ASSUME TickNoShell PROVE FALSE
  OBVIOUS
<1>1. pid = current_terminal_id + Offset /\ Offset \in {0, 1}
      /\ current_terminal_id <= NTerminals - 2
  BY StartPhase DEF TickNoShell
<1> QED
  BY <1>1, SizesAssumption DEF TickNoShell, IInv, TypeOK, Terminals, UNUSED

(* A tick that starts a terminal's first shell preserves the invariant.    *)
LEMMA TickNewShellIInv ==
    ASSUME IInv, TickNewShell
    PROVE  IInv'
<1> DEFINE c == current_terminal_id
           p == terminal_process_info[current_terminal_id]
           n == NextTerminal
<1>1. /\ ~AllStarted /\ n = c + 1 /\ c \in -1 .. NTerminals - 2 /\ Offset \in {0, 1}
      /\ pid = c + Offset /\ Live = 0 .. pid /\ pid + 1 \in Slots
      /\ n \in Terminals /\ cpu \in Slots
  BY StartPhase, NextTerminalRange DEF TickNewShell, IInv, TypeOK, Terminals, UNUSED
<1>2. PICK new \in FirstFree(process_state, pid) :
        StartProgram(new, n, UNUSED, process_state, terminal_process_info,
                     tss_esp0, Saved, Parked)
  BY DEF TickNewShell, AttachTo, ShellReady
<1>3. new = pid + 1
  <2>1. process_state[pid + 1] = 0
    BY <1>1 DEF IInv, TypeOK, Live
  <2>2. /\ new \in Slots /\ process_state[new] = 0
        /\ \A r \in 0 .. new - 1 : process_state[r] # 0
    BY <1>1, <2>1, FirstFreeFacts DEF IInv, TypeOK
  <2>3. ~(new > pid + 1)
    BY <1>1, <2>1, <2>2 DEF Slots
  <2>4. ~(new <= pid)
    BY <1>1, <2>2 DEF Live, Slots
  <2> QED BY <1>1, <2>2, <2>3, <2>4 DEF Slots
<1>4. next_sche_terminal' = n /\ current_terminal_id' = n /\ UNCHANGED terminal_id
  BY DEF TickNewShell
<1>5. new \in Slots /\ new \notin Live
  BY <1>1, <1>3
<1>6. SavedPcb \in Slots
  BY <1>1 DEF SavedPcb, IInv, TypeOK, Starting, Progress, RunningContext, Live, Orphan, Offset, Terminals, Slots, UNUSED
<1>7. Saved \in [PcbIndex -> Slots \cup {UNUSED}] /\ Parked \in [Slots -> Frames]
  BY <1>1, <1>6 DEF Saved, Parked, PcbIndex, IInv, TypeOK, Frames
<1>8. TypeOK'
  BY <1>1, <1>2, <1>4, <1>5, <1>7, StartProgramType DEF IInv, TypeOK
<1>9. terminal_process_info' = [terminal_process_info EXCEPT ![n] = new]
  BY <1>2 DEF StartProgram, SwitchTo
<1>10. /\ Orphan' = Orphan /\ Live' = Live \cup {new} /\ Owned' = Owned \cup {new}
       /\ new # Orphan
  BY <1>1, <1>2, <1>5, <1>9 DEF IInv, TypeOK, Progress, StartProgram, SwitchTo, Orphan, Live, Owned, Terminals, UNUSED, Slots
<1>11. Tops' = Tops \cup {new}
  BY <1>1, <1>5, <1>9 DEF TickNewShell, IInv, TypeOK, Tops, Terminals, UNUSED, Slots
<1>12. \A s \in Owned' : parent'[s] = UNUSED
  BY <1>1, <1>2, <1>5, <1>10 DEF StartProgram, SwitchTo, IInv, TypeOK, Starting, PcbIndex, Owned, Live
<1>13. Starting'
  <2>1. Live' = 0 .. n + Offset /\ pid' = n + Offset
    BY <1>1, <1>2, <1>3, <1>10 DEF StartProgram, SwitchTo
  <2>2. \A t \in Terminals : terminal_process_info'[t] =
           IF t <= n THEN t + Offset ELSE UNUSED
    BY <1>1, <1>3, <1>9 DEF IInv, TypeOK, Starting, Terminals, UNUSED
  <2> QED BY <2>1, <2>2, <1>4, <1>10, <1>12 DEF Starting, Offset
<1>14. Progress'
  BY <1>1, <1>4, <1>10 DEF IInv, Progress, Terminals, UNUSED
<1>15. RunningContext'
  BY <1>1, <1>2, <1>4, <1>5, <1>9 DEF RunningContext, StartProgram, SwitchTo, IInv, TypeOK, LOST, Slots
<1>16. ParkedContexts'
  <2> SUFFICES ASSUME NEW t \in Terminals, t # n,
                      terminal_process_info'[t] # UNUSED
               PROVE  /\ sche_esp'[terminal_process_info'[t]] = terminal_process_info'[t]
                      /\ frame'[terminal_process_info'[t]] = "schedule_handler"
    BY <1>4 DEF ParkedContexts
  <2>1. /\ terminal_process_info'[t] = terminal_process_info[t]
        /\ t <= c /\ terminal_process_info[t] \in Live /\ terminal_process_info[t] # new
        /\ terminal_process_info[t] \in Slots
    BY <1>1, <1>5, <1>9 DEF IInv, TypeOK, Starting, NoSharing, Tops, Owned, Terminals, UNUSED, Live
  <2>2. c \in Terminals /\ p = cpu /\ SavedPcb = cpu
    <3>1. c \in Terminals /\ pid # UNUSED
      BY <1>1, <2>1, SizesAssumption DEF Terminals, UNUSED
    <3> QED BY <3>1 DEF IInv, RunningContext, SavedPcb
  <2>3. CASE t = c
    BY <2>1, <2>2, <2>3, <1>2, <1>7 DEF StartProgram, SwitchTo, Saved, Parked, IInv, TypeOK, PcbIndex
  <2>4. CASE t # c
    <3> DEFINE r == terminal_process_info[t]
    <3>1. r # cpu /\ sche_esp[r] = r /\ frame[r] = "schedule_handler"
      BY <2>1, <2>2, <2>4, <1>9, <1>1 DEF IInv, ParkedContexts, NoSharing
    <3>2. Saved[r] = r /\ Parked[r] = "schedule_handler"
      BY <2>1, <2>2, <3>1 DEF IInv, TypeOK, PcbIndex, Saved, Parked
    <3> QED BY <2>1, <3>2, <1>2, <1>7 DEF StartProgram, SwitchTo
  <2> QED BY <2>3, <2>4
<1>17. ReturnPaths'
  BY <1>12 DEF ReturnPaths
<1>18. NoSharing'
  BY <1>1, <1>5, <1>8, <1>9, <1>10, <1>11, <1>12 DEF IInv, TypeOK, NoSharing, Tops, Owned, UNUSED
<1>19. NoLeak'
  <2>1. Owned \subseteq Tops
    BY <1>1 DEF IInv, NoLeak, Starting, Owned, Live, Slots, UNUSED
  <2> QED BY <2>1, <1>10, <1>11 DEF NoLeak
<1> QED BY <1>8, <1>13, <1>14, <1>15, <1>16, <1>17, <1>18, <1>19 DEF IInv

(* The boot loop that beats the first tick preserves the invariant.        *)
LEMMA BootExecuteIInv ==
    ASSUME IInv, BootExecute
    PROVE  IInv'
<1>1. PICK junk \in {UNUSED, 0}, new \in FirstFree(process_state, pid) :
        StartProgram(new, UNUSED, junk, process_state, terminal_process_info,
                     tss_esp0, sche_esp, frame)
  BY DEF BootExecute
<1>2. /\ current_terminal_id = UNUSED /\ pid = UNUSED /\ ~AllStarted
      /\ UNCHANGED <<current_terminal_id, next_sche_terminal, terminal_id>>
  BY DEF BootExecute, IInv, Progress
<1>3. Offset = 0 /\ Orphan = UNUSED /\ Live = {}
  BY <1>2 DEF IInv, Starting, Progress, Offset, UNUSED
<1>4. 0 \in Slots /\ process_state[0] = 0
  BY <1>3, SizesAssumption DEF IInv, TypeOK, Live, Slots
<1>5. new = 0
  <2>1. new \in Slots /\ process_state[new] = 0 /\ \A r \in 0 .. new - 1 : process_state[r] # 0
    BY <1>4, FirstFreeFacts DEF IInv, TypeOK
  <2> QED BY <1>4, <2>1 DEF Slots
<1>6. cpu \in Slots
  BY DEF IInv, TypeOK, RunningContext
<1>7. /\ process_state' = [process_state EXCEPT ![0] = 1]
      /\ terminal_process_info' = [terminal_process_info EXCEPT ![UNUSED] = 0]
      /\ pid' = 0 /\ cpu' = 0
  BY <1>1, <1>5 DEF StartProgram, SwitchTo
<1>8. Orphan' = 0 /\ Live' = {0} /\ Owned' = {} /\ Offset' = 1
  BY <1>3, <1>4, <1>7 DEF IInv, TypeOK, Orphan, Live, Owned, Offset, UNUSED
<1>9. \A t \in Terminals : terminal_process_info'[t] = UNUSED
  BY <1>2, <1>7 DEF IInv, TypeOK, Starting, Terminals, UNUSED
<1>10. TypeOK'
  <2>1. /\ process_state' \in [Slots -> {0, 1}]
        /\ terminal_process_info' \in [Terminals \cup {UNUSED} -> Slots \cup {UNUSED}]
    BY <1>4, <1>7 DEF IInv, TypeOK
  <2>2. /\ parent' \in [PcbIndex -> Slots \cup {UNUSED}]
        /\ esp' \in [PcbIndex -> Slots \cup {UNUSED}]
        /\ esp0' \in [PcbIndex -> Slots \cup {UNUSED}]
        /\ sche_esp' \in [PcbIndex -> Slots \cup {UNUSED}]
        /\ frame' \in [Slots -> Frames]
    BY <1>1, <1>4, <1>5, <1>6 DEF IInv, TypeOK, StartProgram, SwitchTo, PcbIndex, Frames
  <2> QED BY <2>1, <2>2, <1>1, <1>2, <1>4, <1>5 DEF IInv, TypeOK, StartProgram, SwitchTo
<1>11. Starting' /\ Progress'
  BY <1>2, <1>7, <1>8, <1>9, SizesAssumption
     DEF IInv, Starting, Progress, AllStarted, Terminals, UNUSED
<1>12. RunningContext' /\ ParkedContexts' /\ NoSharing'
  BY <1>2, <1>7, <1>8, <1>9 DEF RunningContext, ParkedContexts, NoSharing, Tops, Terminals, LOST, UNUSED
<1>13. ReturnPaths' /\ NoLeak'
  BY <1>8 DEF ReturnPaths, NoLeak
<1> QED BY <1>10, <1>11, <1>12, <1>13 DEF IInv

(* Changing the terminal on the display preserves the invariant.           *)
LEMMA SwitchTerminalIInv ==
    ASSUME IInv, SwitchTerminal
    PROVE  IInv'
<1>1. terminal_id' \in Terminals
  BY DEF SwitchTerminal
<1>2. UNCHANGED <<pid, process_state, terminal_process_info, pcbs, machine,
                  current_terminal_id, next_sche_terminal, sche_ready>>
  BY DEF SwitchTerminal
<1> QED
  BY <1>1, <1>2 DEF IInv, TypeOK, Starting, Progress, RunningContext, ParkedContexts,
    ReturnPaths, NoSharing, NoLeak, Live, Owned, Orphan, Offset, Tops, AllStarted, pcbs, machine

(* So does a step that changes nothing.                                    *)
LEMMA StutterIInv ==
    ASSUME IInv, UNCHANGED vars
    PROVE  IInv'
BY DEF vars, IInv, TypeOK, Starting, Progress, RunningContext, ParkedContexts,
    ReturnPaths, NoSharing, NoLeak, Live, Owned, Orphan, Offset, Tops, AllStarted, pcbs, machine

(* Every step preserves the invariant.                                     *)
LEMMA NextIInv ==
    ASSUME Disorder = {}, IInv, [Next]_vars
    PROVE  IInv'
<1>1. CASE BootExecute
  BY <1>1, BootExecuteIInv
<1>2. CASE Execute
  BY <1>2, ExecuteIInv
<1>3. CASE HaltChild
  BY <1>3, HaltChildIInv
<1>4. CASE HaltRoot
  BY <1>4, HaltRootIInv
<1>5. CASE Tick
  BY <1>5, TickSwitchIInv, TickNewShellIInv, TickNoShellImpossible DEF Tick
<1>6. CASE SwitchTerminal
  BY <1>6, SwitchTerminalIInv
<1>7. CASE UNCHANGED vars
  BY <1>7, StutterIInv
<1> QED BY <1>1, <1>2, <1>3, <1>4, <1>5, <1>6, <1>7 DEF Next

(* The inductive invariant: in every state of every execution, for any     *)
(* number of terminals and slots, as long as programs are launched from    *)
(* the displayed terminal, after the shells are up, and into a free slot.  *)
THEOREM Invariance ==
    ASSUME Disorder = {}
    PROVE  Spec => []IInv
<1>1. Init => IInv
  BY InitIInv
<1>2. IInv /\ [Next]_vars => IInv'
  BY NextIInv
<1> QED BY <1>1, <1>2, PTL DEF Spec

(* Every variable keeps its type; in particular execute() never leaves a   *)
(* pid or a terminal's process outside the slots.                          *)
THEOREM TypeCorrect ==
    ASSUME Disorder = {}
    PROVE  Spec => []TypeOK
<1>1. IInv => TypeOK
  BY DEF IInv
<1> QED BY <1>1, Invariance, PTL

(* The running process is the one of the current terminal, in its own      *)
(* address space and with its own kernel stack for the next interrupt,     *)
(* after every path through schedule_handler(), execute() and halt().      *)
THEOREM RunningContextSafe ==
    ASSUME Disorder = {}
    PROVE  Spec => []RunningContext
<1>1. IInv => RunningContext
  BY DEF IInv
<1> QED BY <1>1, Invariance, PTL

(* What schedule_handler() will restore for a terminal is always the frame *)
(* it parked for that terminal's process.                                  *)
THEOREM ParkedContextsSafe ==
    ASSUME Disorder = {}
    PROVE  Spec => []ParkedContexts
<1>1. IInv => ParkedContexts
  BY DEF IInv
<1> QED BY <1>1, Invariance, PTL

(* What halt() jumps to is always the execute frame of the live parent.    *)
THEOREM ReturnPathsSafe ==
    ASSUME Disorder = {}
    PROVE  Spec => []ReturnPaths
<1>1. IInv => ReturnPaths
  BY DEF IInv
<1> QED BY <1>1, Invariance, PTL

(* Two processes never share a slot, hence a page, a PCB or a kernel stack. *)
THEOREM SlotsNotShared ==
    ASSUME Disorder = {}
    PROVE  Spec => []NoSharing
<1>1. IInv => NoSharing
  BY DEF IInv
<1> QED BY <1>1, Invariance, PTL

(* No slot stays taken by a process nobody runs or waits for. *)
THEOREM SlotsNotLeaked ==
    ASSUME Disorder = {}
    PROVE  Spec => []NoLeak
<1>1. IInv => NoLeak
  BY DEF IInv
<1> QED BY <1>1, Invariance, PTL

(* Both branches of the index computation in schedule_handler() give the   *)
(* successor of the current terminal, and it is never out of the array.    *)
THEOREM RoundRobinSafe ==
    ASSUME Disorder = {}
    PROVE  Spec => RoundRobin
<1> DEFINE Turn == current_terminal_id' # current_terminal_id =>
                     /\ current_terminal_id' = (current_terminal_id + 1) % NTerminals
                     /\ next_sche_terminal' = current_terminal_id'
<1>1. IInv /\ [Next]_vars => [Turn]_vars
  <2> SUFFICES ASSUME IInv, Next PROVE Turn
    OBVIOUS
  <2>1. NextTerminal = (current_terminal_id + 1) % NTerminals
    BY NextTerminalRange, Successor, SizesAssumption DEF IInv, TypeOK, Terminals, UNUSED
  <2>2. CASE Tick
    BY <2>1, <2>2 DEF Tick, TickSwitch, TickNewShell, TickNoShell
  <2>3. CASE ~Tick
    BY <2>3 DEF Next, BootExecute, Execute, HaltChild, HaltRoot, SwitchTerminal
  <2> QED BY <2>2, <2>3
<1> QED BY <1>1, Invariance, PTL DEF Spec, RoundRobin

(* A launch, an exit or a tick leaves every other terminal's process alone. *)
THEOREM OthersUndisturbedSafe ==
    ASSUME Disorder = {}
    PROVE  Spec => OthersUndisturbed
<1> DEFINE Own == \A t \in Terminals :
                     terminal_process_info'[t] # terminal_process_info[t]
                       => t = current_terminal_id'
<1>1. IInv /\ [Next]_vars => [Own]_vars
  <2> SUFFICES ASSUME IInv, Next, NEW t \in Terminals,
                      terminal_process_info'[t] # terminal_process_info[t]
               PROVE  t = current_terminal_id'
    OBVIOUS
  <2>1. CASE BootExecute
    BY <2>1 DEF BootExecute, StartProgram, SwitchTo, IInv, TypeOK, Terminals, UNUSED
  <2>2. CASE Execute \/ HaltRoot
    BY <2>2, DisorderAssumption DEF Execute, HaltRoot, Running, AttachTo, StartProgram, SwitchTo, IInv, TypeOK
  <2>3. CASE HaltChild
    BY <2>3 DEF HaltChild, IInv, TypeOK
  <2>4. CASE Tick
    BY <2>4, NextTerminalRange
       DEF Tick, TickSwitch, TickNewShell, TickNoShell, AttachTo, ShellReady, StartProgram, IInv, TypeOK
  <2>5. CASE SwitchTerminal
    BY <2>5 DEF SwitchTerminal
  <2> QED BY <2>1, <2>2, <2>3, <2>4, <2>5 DEF Next
<1> QED BY <1>1, Invariance, PTL DEF Spec, OthersUndisturbed

-----------------------------------------------------------------------------
(* The refinement: induction *)

(* A set of numbers that is not empty has a least element. *)
LEMMA Least ==
    ASSUME NEW T, T \subseteq Nat, T # {}
    PROVE  \E n \in T : \A k \in 0 .. n - 1 : k \notin T
<1> DEFINE R == OpToRel(<, Nat)
<1>1. IsWellFoundedOn(R, Nat)
  BY NatLessThanWellFounded
<1>2. \A x, y \in Nat : x < y => <<x, y>> \in R
  BY DEF OpToRel
<1> HIDE DEF R
<1>3. PICK n \in T : \A y \in T : ~(<<y, n>> \in R)
  BY <1>1, WFMin
<1>4. ASSUME NEW k \in 0 .. n - 1, k \in T PROVE FALSE
  <2>1. k \in Nat /\ n \in Nat /\ k < n
    BY <1>4
  <2> QED BY <2>1, <1>2, <1>3, <1>4
<1> QED BY <1>4

(* Induction over the numbers, for a set rather than a predicate.          *)
LEMMA SetInduction ==
    ASSUME NEW T, 0 \in T, \A n \in Nat : n \in T => n + 1 \in T
    PROVE  Nat \subseteq T
<1> SUFFICES ASSUME Nat \ T # {} PROVE FALSE
  OBVIOUS
<1>1. PICK n \in Nat \ T : \A k \in 0 .. n - 1 : k \notin Nat \ T
  BY Least
<1>2. n # 0 /\ n \in Nat
  OBVIOUS
<1>3. n - 1 \in Nat /\ n - 1 \in 0 .. n - 1
  BY <1>2
<1>4. n - 1 \in T
  BY <1>1, <1>3
<1>5. (n - 1) + 1 \in T
  BY <1>3, <1>4
<1>6. (n - 1) + 1 = n
  BY <1>2
<1> QED BY <1>5, <1>6

-----------------------------------------------------------------------------
(* ChainTo with the parents as a parameter.                                *)
Walk(par) ==
    CHOOSE w : w = [n \in 0 .. NSlots |-> [p \in PcbIndex |->
                      IF p = UNUSED \/ n = 0 THEN <<>> ELSE Append(w[n - 1][par[p]], p)]]

(* There are such walks: the recursion of ChainTo is well-founded.         *)
LEMMA WalkUnfolds ==
    ASSUME NEW par
    PROVE  Walk(par) = [n \in 0 .. NSlots |-> [p \in PcbIndex |->
                      IF p = UNUSED \/ n = 0 THEN <<>> ELSE Append(Walk(par)[n - 1][par[p]], p)]]
<1> DEFINE Rec(w, m) == w = [n \in 0 .. m |-> [p \in PcbIndex |->
                      IF p = UNUSED \/ n = 0 THEN <<>> ELSE Append(w[n - 1][par[p]], p)]]
           T == {m \in Nat : \E w : Rec(w, m)}
<1>1. 0 \in T
  <2> DEFINE w == [n \in 0 .. 0 |-> [p \in PcbIndex |-> <<>>]]
  <2>1. Rec(w, 0)
    OBVIOUS
  <2> QED BY <2>1
<1>2. ASSUME NEW m \in Nat, m \in T PROVE m + 1 \in T
  <2>1. PICK w : Rec(w, m)
    BY <1>2
  <2> DEFINE v == [n \in 0 .. m + 1 |-> IF n <= m THEN w[n] ELSE
                     [p \in PcbIndex |->
                        IF p = UNUSED \/ n = 0 THEN <<>> ELSE Append(w[n - 1][par[p]], p)]]
             r == [n \in 0 .. m + 1 |-> [p \in PcbIndex |->
                     IF p = UNUSED \/ n = 0 THEN <<>> ELSE Append(v[n - 1][par[p]], p)]]
  <2>2. \A n \in 0 .. m + 1 : n - 1 \in 0 .. m \/ n = 0
    OBVIOUS
  <2>3. \A n \in 0 .. m + 1 : n # 0 => v[n - 1] = w[n - 1]
    BY <2>2
  <2>4. ASSUME NEW n \in 0 .. m + 1 PROVE v[n] = r[n]
    <3>1. CASE n <= m
      <4>1. n \in 0 .. m
        BY <3>1
      <4>2. v[n] = w[n]
        BY <3>1
      <4>3. w[n] = [p \in PcbIndex |->
                      IF p = UNUSED \/ n = 0 THEN <<>> ELSE Append(w[n - 1][par[p]], p)]
        BY <2>1, <4>1
      <4>4. r[n] = [p \in PcbIndex |->
                      IF p = UNUSED \/ n = 0 THEN <<>> ELSE Append(w[n - 1][par[p]], p)]
        BY <2>3
      <4> QED BY <4>2, <4>3, <4>4
    <3>2. CASE ~(n <= m)
      <4>1. v[n] = [p \in PcbIndex |->
                      IF p = UNUSED \/ n = 0 THEN <<>> ELSE Append(w[n - 1][par[p]], p)]
        BY <3>2
      <4>2. r[n] = [p \in PcbIndex |->
                      IF p = UNUSED \/ n = 0 THEN <<>> ELSE Append(w[n - 1][par[p]], p)]
        BY <2>3
      <4> QED BY <4>1, <4>2
    <3> QED BY <3>1, <3>2
  <2>5. v = r
    <3>1. v = [n \in 0 .. m + 1 |-> v[n]] /\ r = [n \in 0 .. m + 1 |-> r[n]]
      OBVIOUS
    <3> HIDE DEF v, r
    <3> QED BY <3>1, <2>4
  <2>6. Rec(v, m + 1)
    BY <2>5
  <2>7. \E u : Rec(u, m + 1)
    <3> HIDE DEF v, r, Rec
    <3> QED BY <2>6
  <2> HIDE DEF v, r, Rec
  <2> QED BY <2>7
<1>3. NSlots \in T
  <2> HIDE DEF T
  <2>1. Nat \subseteq T
    BY <1>1, <1>2, SetInduction
  <2> QED BY <2>1, SizesAssumption
<1>4. \E w : Rec(w, NSlots)
  BY <1>3
<1> QED BY <1>4 DEF Walk

(* ChainTo, and the stacks read off a table of terminals and its parents.  *)
StacksOf(tpi, par) == [t \in Terminals |-> Walk(par)[NSlots][tpi[t]]]

(* They are those of SchedulerRefinement, before a step ...                *)
LEMMA ChainToWalks == StackOf = StacksOf(terminal_process_info, parent)
BY DEF ChainTo, Walk, StackOf, StacksOf

(* ... and after it.                                                       *)
LEMMA ChainToWalksNext ==
    StackOf' = StacksOf(terminal_process_info', parent')
BY DEF ChainTo, Walk, StackOf, StacksOf

(* One turn of the recursion.                                              *)
LEMMA WalkStep ==
    ASSUME NEW par, NEW n \in 0 .. NSlots, NEW p \in PcbIndex
    PROVE  Walk(par)[n][p] =
             IF p = UNUSED \/ n = 0 THEN <<>> ELSE Append(Walk(par)[n - 1][par[p]], p)
<1> DEFINE w == Walk(par)
<1>1. w = [k \in 0 .. NSlots |-> [q \in PcbIndex |->
                      IF q = UNUSED \/ k = 0 THEN <<>> ELSE Append(w[k - 1][par[q]], q)]]
  BY WalkUnfolds
<1> HIDE DEF w
<1>2. w[n] = [q \in PcbIndex |->
                      IF q = UNUSED \/ n = 0 THEN <<>> ELSE Append(w[n - 1][par[q]], q)]
  BY <1>1, Zenon
<1>3. w[n][p] = IF p = UNUSED \/ n = 0 THEN <<>> ELSE Append(w[n - 1][par[p]], p)
  BY <1>2, Zenon
<1> QED BY <1>3 DEF w

-----------------------------------------------------------------------------
(* stk is what the chains of parents par say of the processes own: every   *)
(* process has one place on one stack, above its parent, and the top of    *)
(* each stack is the process tpi names.                                    *)
Reps(stk, tpi, par, own) ==
    /\ stk \in [Terminals -> Seq(Slots)]
    /\ \A t \in Terminals :
         tpi[t] = IF stk[t] = <<>> THEN UNUSED ELSE stk[t][Len(stk[t])]
    /\ \A t \in Terminals : \A i \in 1 .. Len(stk[t]) :
         /\ stk[t][i] \in own
         /\ par[stk[t][i]] = IF i = 1 THEN UNUSED ELSE stk[t][i - 1]
    /\ \A t, u \in Terminals : \A i \in 1 .. Len(stk[t]), j \in 1 .. Len(stk[u]) :
         stk[t][i] = stk[u][j] => t = u /\ i = j
    /\ \A p \in own : \E t \in Terminals : \E i \in 1 .. Len(stk[t]) : stk[t][i] = p

(* A sequence of different slots is no longer than there are slots.        *)
LEMMA NoLongerThanSlots ==
    ASSUME NEW s \in Seq(Slots), \A i, j \in 1 .. Len(s) : s[i] = s[j] => i = j
    PROVE  Len(s) <= NSlots
<1>1. Len(s) \in Nat /\ \A i \in 1 .. Len(s) : s[i] \in Slots
  OBVIOUS
<1> DEFINE f == [i \in 1 .. Len(s) |-> s[i]]
<1>2. f \in Injection(1 .. Len(s), Slots)
  BY <1>1 DEF Injection, IsInjective
<1>3. IsFiniteSet(Slots) /\ Cardinality(Slots) = NSlots
  <2>1. NSlots - 1 \in Int /\ 0 \in Int /\ NSlots \in Nat /\ NSlots > 0
    BY SizesAssumption
  <2>2. IsFiniteSet(0 .. NSlots - 1)
        /\ Cardinality(0 .. NSlots - 1) = IF 0 > NSlots - 1 THEN 0 ELSE (NSlots - 1) - 0 + 1
    BY <2>1, FS_Interval
  <2> QED BY <2>1, <2>2 DEF Slots
<1>4. Cardinality(1 .. Len(s)) = Len(s)
  <2>1. Cardinality(1 .. Len(s)) = IF 1 > Len(s) THEN 0 ELSE Len(s) - 1 + 1
    BY <1>1, FS_Interval
  <2> QED BY <1>1, <2>1
<1>5. Cardinality(1 .. Len(s)) <= Cardinality(Slots)
  <2> HIDE DEF f
  <2> QED BY <1>2, <1>3, FS_Injection
<1> QED BY <1>3, <1>4, <1>5

(* A prefix, and the next element behind it.                               *)
LEMMA PrefixAppend ==
    ASSUME NEW S, NEW s \in Seq(S), NEW i \in Nat, i + 1 \in 1 .. Len(s)
    PROVE  /\ SubSeq(s, 1, i + 1) = Append(SubSeq(s, 1, i), s[i + 1])
           /\ SubSeq(s, 1, 1) = Append(<<>>, s[1])
           /\ SubSeq(s, 1, Len(s)) = s
<1> DEFINE front == SubSeq(s, 1, i)
           x == s[i + 1]
<1>1. Len(s) \in Nat /\ \A k \in 1 .. Len(s) : s[k] \in S
  OBVIOUS
<1>2. front \in Seq(S) /\ Len(front) = i /\ \A k \in 1 .. i : front[k] = s[k]
  BY <1>1
<1>3. /\ SubSeq(s, 1, i + 1) \in Seq(S) /\ Len(SubSeq(s, 1, i + 1)) = i + 1
      /\ \A k \in 1 .. i + 1 : SubSeq(s, 1, i + 1)[k] = s[k]
  BY <1>1
<1>4. x \in S
  BY <1>1
<1> HIDE DEF front, x
<1>5. /\ Append(front, x) \in Seq(S) /\ Len(Append(front, x)) = i + 1
      /\ \A k \in 1 .. i : Append(front, x)[k] = front[k]
      /\ Append(front, x)[i + 1] = x
  BY <1>2, <1>4, AppendProperties
<1>6. \A k \in 1 .. i + 1 : SubSeq(s, 1, i + 1)[k] = Append(front, x)[k]
  <2> TAKE k \in 1 .. i + 1
  <2>1. CASE k = i + 1
    BY <2>1, <1>3, <1>5 DEF x
  <2>2. CASE k # i + 1
    BY <2>2, <1>2, <1>3, <1>5
  <2> QED BY <2>1, <2>2
<1>7. SubSeq(s, 1, i + 1) = Append(front, x)
  BY <1>3, <1>5, <1>6, SeqEqual
<1>8. SubSeq(s, 1, 1) = Append(<<>>, s[1])
  <2>1. s[1] \in S /\ 1 \in 1 .. Len(s)
    BY <1>1
  <2>2. SubSeq(s, 1, 1) \in Seq(S) /\ Len(SubSeq(s, 1, 1)) = 1 /\ SubSeq(s, 1, 1)[1] = s[1]
    BY <1>1, <2>1
  <2>3. /\ Append(<<>>, s[1]) \in Seq(S) /\ Len(Append(<<>>, s[1])) = 1
        /\ Append(<<>>, s[1])[1] = s[1]
    BY <2>1
  <2>4. \A k \in 1 .. 1 : SubSeq(s, 1, 1)[k] = Append(<<>>, s[1])[k]
    BY <2>2, <2>3
  <2> QED BY <2>2, <2>3, <2>4, SeqEqual
<1>9. SubSeq(s, 1, Len(s)) = s
  BY SubSeqFull
<1> QED BY <1>7, <1>8, <1>9 DEF front, x

(* The chains of parents determine the stacks.                             *)
LEMMA RepsUnique ==
    ASSUME NEW stk, NEW tpi, NEW par, NEW own, Reps(stk, tpi, par, own)
    PROVE  StacksOf(tpi, par) = stk
<1> SUFFICES ASSUME NEW t \in Terminals PROVE Walk(par)[NSlots][tpi[t]] = stk[t]
  BY DEF Reps, StacksOf
<1> DEFINE s == stk[t]
           T == {i \in Nat : i \in 1 .. Len(s) =>
                   \A n \in i .. NSlots : Walk(par)[n][s[i]] = SubSeq(s, 1, i)}
<1>1. s \in Seq(Slots) /\ Len(s) \in Nat /\ \A i \in 1 .. Len(s) : s[i] \in Slots
  BY DEF Reps
<1>2. Len(s) <= NSlots
  <2>1. \A i, j \in 1 .. Len(s) : s[i] = s[j] => i = j
    BY DEF Reps
  <2> QED BY <1>1, <2>1, NoLongerThanSlots
<1>3. \A i \in 1 .. Len(s) : par[s[i]] = IF i = 1 THEN UNUSED ELSE s[i - 1]
  BY DEF Reps
<1>4. tpi[t] = IF s = <<>> THEN UNUSED ELSE s[Len(s)]
  BY DEF Reps
<1> HIDE DEF s
<1>5. UNUSED \in PcbIndex /\ Slots \subseteq PcbIndex /\ UNUSED \notin Slots /\ NSlots \in Nat
  BY SizesAssumption DEF PcbIndex, UNUSED, Slots
<1>6. 0 \in T
  OBVIOUS
<1>7. ASSUME NEW i \in Nat, i \in T PROVE i + 1 \in T
  <2> SUFFICES ASSUME i + 1 \in 1 .. Len(s), NEW n \in i + 1 .. NSlots
               PROVE  Walk(par)[n][s[i + 1]] = SubSeq(s, 1, i + 1)
    OBVIOUS
  <2>1. /\ n \in 0 .. NSlots /\ n # 0 /\ n - 1 \in 0 .. NSlots /\ n - 1 \in i .. NSlots
        /\ s[i + 1] \in PcbIndex /\ s[i + 1] # UNUSED
    BY <1>1, <1>5
  <2>2. Walk(par)[n][s[i + 1]] = Append(Walk(par)[n - 1][par[s[i + 1]]], s[i + 1])
    BY <2>1, WalkStep
  <2>3. CASE i = 0
    <3>1. par[s[i + 1]] = UNUSED
      BY <1>3, <2>3
    <3>2. Walk(par)[n - 1][UNUSED] = <<>>
      BY <2>1, <1>5, WalkStep
    <3>3. Append(<<>>, s[i + 1]) = SubSeq(s, 1, i + 1)
      BY <2>3, <1>1, PrefixAppend
    <3> QED BY <2>2, <3>1, <3>2, <3>3
  <2>4. CASE i # 0
    <3>1. par[s[i + 1]] = s[i] /\ i \in 1 .. Len(s)
      BY <1>1, <1>3, <2>4
    <3>2. Walk(par)[n - 1][s[i]] = SubSeq(s, 1, i)
      BY <1>7, <2>1, <3>1
    <3>3. SubSeq(s, 1, i + 1) = Append(SubSeq(s, 1, i), s[i + 1])
      BY <1>1, PrefixAppend
    <3> QED BY <2>2, <3>1, <3>2, <3>3
  <2> QED BY <2>3, <2>4
<1>8. Nat \subseteq T
  <2> HIDE DEF T
  <2> QED BY <1>6, <1>7, SetInduction
<1>9. CASE s = <<>>
  BY <1>4, <1>5, <1>9, WalkStep DEF s
<1>10. CASE s # <<>>
  <2>1. Len(s) \in 1 .. Len(s) /\ NSlots \in Len(s) .. NSlots
    BY <1>1, <1>2, <1>5, <1>10
  <2>2. Walk(par)[NSlots][s[Len(s)]] = SubSeq(s, 1, Len(s))
    BY <1>1, <1>8, <2>1
  <2>3. SubSeq(s, 1, Len(s)) = s
    BY <1>1
  <2> QED BY <1>4, <1>10, <2>2, <2>3 DEF s
<1> QED BY <1>9, <1>10

-----------------------------------------------------------------------------
(* A new process on top of a stack, with the old top as its parent.        *)
LEMMA Push ==
    ASSUME NEW stk, NEW tpi \in [Terminals \cup {UNUSED} -> Slots \cup {UNUSED}],
           NEW par \in [PcbIndex -> Slots \cup {UNUSED}], NEW own \in SUBSET Slots,
           Reps(stk, tpi, par, own), NEW t \in Terminals, NEW new \in Slots \ own
    PROVE  Reps([stk EXCEPT ![t] = Append(@, new)], [tpi EXCEPT ![t] = new],
                [par EXCEPT ![new] = tpi[t]], own \cup {new})
<1> DEFINE top == Append(stk[t], new)
           stk2 == [stk EXCEPT ![t] = top]
           tpi2 == [tpi EXCEPT ![t] = new]
           par2 == [par EXCEPT ![new] = tpi[t]]
           n == Len(stk[t])
<1>1. stk \in [Terminals -> Seq(Slots)] /\ stk[t] \in Seq(Slots) /\ n \in Nat
  BY DEF Reps
<1>2. /\ top \in Seq(Slots) /\ Len(top) = n + 1 /\ top # <<>>
      /\ top[n + 1] = new /\ \A i \in 1 .. n : top[i] = stk[t][i]
  BY <1>1, AppendProperties
<1>3. /\ stk2 \in [Terminals -> Seq(Slots)] /\ stk2[t] = top
      /\ \A u \in Terminals : u # t => stk2[u] = stk[u]
  BY <1>1, <1>2
<1>4. /\ tpi2[t] = new /\ \A u \in Terminals : u # t => tpi2[u] = tpi[u]
      /\ par2[new] = tpi[t] /\ \A p \in own : par2[p] = par[p]
  BY DEF PcbIndex
<1>5. \A u \in Terminals : \A i \in 1 .. Len(stk[u]) : stk[u][i] \in own /\ stk[u][i] # new
  BY DEF Reps
<1>6. \A u \in Terminals : tpi[u] = IF stk[u] = <<>> THEN UNUSED ELSE stk[u][Len(stk[u])]
  BY DEF Reps
<1>7. \A u \in Terminals : \A i \in 1 .. Len(stk[u]) :
         par[stk[u][i]] = IF i = 1 THEN UNUSED ELSE stk[u][i - 1]
  BY DEF Reps
<1>8. \A u, v \in Terminals : \A i \in 1 .. Len(stk[u]), j \in 1 .. Len(stk[v]) :
         stk[u][i] = stk[v][j] => u = v /\ i = j
  BY DEF Reps
<1>9. \A p \in own : \E u \in Terminals : \E i \in 1 .. Len(stk[u]) : stk[u][i] = p
  BY DEF Reps
<1> HIDE DEF top, stk2, tpi2, par2
<1>10. \A u \in Terminals : tpi2[u] = IF stk2[u] = <<>> THEN UNUSED ELSE stk2[u][Len(stk2[u])]
  BY <1>2, <1>3, <1>4, <1>6
<1>11. ASSUME NEW u \in Terminals, NEW i \in 1 .. Len(stk2[u])
       PROVE  /\ stk2[u][i] \in own \cup {new}
              /\ par2[stk2[u][i]] = IF i = 1 THEN UNUSED ELSE stk2[u][i - 1]
  <2>1. CASE u # t
    BY <2>1, <1>3, <1>4, <1>5, <1>7
  <2>2. CASE u = t /\ i # n + 1
    <3>1. i \in 1 .. n /\ (i # 1 => i - 1 \in 1 .. n)
      BY <2>2, <1>1, <1>2, <1>3
    <3>2. stk2[u][i] = stk[t][i] /\ (i # 1 => stk2[u][i - 1] = stk[t][i - 1])
      BY <2>2, <3>1, <1>2, <1>3
    <3> QED BY <3>1, <3>2, <1>4, <1>5, <1>7
  <2>3. CASE u = t /\ i = n + 1
    <3>1. stk2[u][i] = new /\ par2[new] = tpi[t]
      BY <2>3, <1>2, <1>3, <1>4
    <3>2. CASE stk[t] = <<>>
      <4>1. n = 0
        BY <3>2
      <4> QED BY <2>3, <3>1, <3>2, <4>1, <1>6
    <3>3. CASE stk[t] # <<>>
      <4>1. n \in 1 .. n /\ i # 1 /\ i - 1 = n
        BY <3>3, <2>3, <1>1
      <4>2. stk2[u][i - 1] = stk[t][n] /\ tpi[t] = stk[t][n]
        BY <2>3, <3>3, <4>1, <1>2, <1>3, <1>6
      <4> QED BY <3>1, <4>1, <4>2
    <3> QED BY <3>2, <3>3
  <2> QED BY <2>1, <2>2, <2>3
<1>12. ASSUME NEW u \in Terminals, NEW i \in 1 .. Len(stk2[u])
       PROVE  \/ stk2[u][i] = new /\ u = t /\ i = n + 1
              \/ i \in 1 .. Len(stk[u]) /\ stk2[u][i] = stk[u][i] /\ stk2[u][i] # new
  <2>1. CASE u # t
    BY <2>1, <1>3, <1>5
  <2>2. CASE u = t /\ i # n + 1
    <3>1. i \in 1 .. n
      BY <2>2, <1>1, <1>2, <1>3
    <3> QED BY <2>2, <3>1, <1>2, <1>3, <1>5
  <2>3. CASE u = t /\ i = n + 1
    BY <2>3, <1>2, <1>3
  <2> QED BY <2>1, <2>2, <2>3
<1>13. \A u, v \in Terminals : \A i \in 1 .. Len(stk2[u]), j \in 1 .. Len(stk2[v]) :
         stk2[u][i] = stk2[v][j] => u = v /\ i = j
  BY <1>8, <1>12
<1>14. ASSUME NEW p \in own \cup {new}
       PROVE  \E u \in Terminals : \E i \in 1 .. Len(stk2[u]) : stk2[u][i] = p
  <2>1. CASE p = new
    <3>1. n + 1 \in 1 .. Len(stk2[t])
      BY <1>1, <1>2, <1>3
    <3> QED BY <2>1, <3>1, <1>2, <1>3
  <2>2. CASE p \in own
    <3>1. PICK u \in Terminals : \E i \in 1 .. Len(stk[u]) : stk[u][i] = p
      BY <2>2, <1>9
    <3> PICK i \in 1 .. Len(stk[u]) : stk[u][i] = p
      BY <3>1
    <3>2. i \in 1 .. Len(stk2[u]) /\ stk2[u][i] = p
      <4>1. CASE u # t
        BY <4>1, <1>3
      <4>2. CASE u = t
        <5>1. i \in 1 .. n /\ i \in 1 .. n + 1
          BY <4>2, <1>1
        <5> QED BY <4>2, <5>1, <1>2, <1>3
      <4> QED BY <4>1, <4>2
    <3> QED BY <3>2
  <2> QED BY <2>1, <2>2
<1>15. Reps(stk2, tpi2, par2, own \cup {new})
  BY <1>3, <1>10, <1>11, <1>13, <1>14 DEF Reps
<1> QED BY <1>15 DEF stk2, top, tpi2, par2

(* A sequence that is not empty, and what is below its last element.       *)
LEMMA Below ==
    ASSUME NEW s \in Seq(Slots), s # <<>>
    PROVE  /\ Len(s) \in Nat /\ Len(s) \in 1 .. Len(s)
           /\ \A i \in 1 .. Len(s) : s[i] \in Slots
           /\ Len(s) # 1 => Len(s) - 1 \in 1 .. Len(s) /\ Len(s) > 1
           /\ Stacks!Front(s) \in Seq(Slots) /\ Len(Stacks!Front(s)) = Len(s) - 1
           /\ \A i \in 1 .. Len(s) - 1 : Stacks!Front(s)[i] = s[i]
<1>1. Len(s) \in Nat /\ Len(s) # 0 /\ \A i \in 1 .. Len(s) : s[i] \in Slots
  BY EmptySeq
<1>2. PICK n \in Nat : n = Len(s)
  BY <1>1
<1>3. n \in 1 .. n /\ (n # 1 => n - 1 \in 1 .. n /\ n > 1) /\ n - 1 \in Int
      /\ \A i \in 1 .. n - 1 : i \in 1 .. n
  BY <1>1, <1>2
<1>4. \A i \in 1 .. n - 1 : s[i] \in Slots
  BY <1>1, <1>2, <1>3
<1>5. /\ SubSeq(s, 1, n - 1) \in Seq(Slots)
      /\ Len(SubSeq(s, 1, n - 1)) = IF 1 <= n - 1 THEN n - 1 - 1 + 1 ELSE 0
      /\ \A i \in 1 .. n - 1 - 1 + 1 : SubSeq(s, 1, n - 1)[i] = s[1 + i - 1]
  BY <1>3, <1>4, SubSeqProperties
<1>6. n - 1 - 1 + 1 = n - 1 /\ (~(1 <= n - 1) => n - 1 = 0)
      /\ \A i \in 1 .. n - 1 : 1 + i - 1 = i
  BY <1>3
<1>7. /\ SubSeq(s, 1, n - 1) \in Seq(Slots) /\ Len(SubSeq(s, 1, n - 1)) = n - 1
      /\ \A i \in 1 .. n - 1 : SubSeq(s, 1, n - 1)[i] = s[i]
  BY <1>5, <1>6
<1> QED BY <1>1, <1>2, <1>3, <1>7 DEF Stacks!Front

(* The top of a stack taken off: its parent is the new top.                *)
LEMMA Pop ==
    ASSUME NEW stk, NEW tpi \in [Terminals \cup {UNUSED} -> Slots \cup {UNUSED}],
           NEW par \in [PcbIndex -> Slots \cup {UNUSED}], NEW own \in SUBSET Slots,
           Reps(stk, tpi, par, own), NEW t \in Terminals, tpi[t] # UNUSED
    PROVE  /\ Reps([stk EXCEPT ![t] = Stacks!Front(@)], [tpi EXCEPT ![t] = par[tpi[t]]],
                   par, own \ {tpi[t]})
           /\ stk[t] # <<>> /\ stk[t] \in Seq(Slots)
           /\ par[tpi[t]] # UNUSED <=> Len(stk[t]) > 1
<1> DEFINE rest == Stacks!Front(stk[t])
           stk2 == [stk EXCEPT ![t] = rest]
           tpi2 == [tpi EXCEPT ![t] = par[tpi[t]]]
           n == Len(stk[t])
           top == tpi[t]
<1>1. stk \in [Terminals -> Seq(Slots)] /\ stk[t] \in Seq(Slots) /\ n \in Nat
  BY DEF Reps
<1>2. stk[t] # <<>> /\ n \in 1 .. n /\ top = stk[t][n]
  BY <1>1, Below DEF Reps
<1>3. rest \in Seq(Slots) /\ Len(rest) = n - 1 /\ \A i \in 1 .. n - 1 : rest[i] = stk[t][i]
  BY <1>1, <1>2, Below
<1>4. /\ stk2 \in [Terminals -> Seq(Slots)] /\ stk2[t] = rest
      /\ \A u \in Terminals : u # t => stk2[u] = stk[u]
  BY <1>1, <1>3
<1>5. tpi2[t] = par[top] /\ \A u \in Terminals : u # t => tpi2[u] = tpi[u]
  OBVIOUS
<1>6. \A u \in Terminals : \A i \in 1 .. Len(stk[u]) : stk[u][i] \in own
  BY DEF Reps
<1>7. \A u \in Terminals : tpi[u] = IF stk[u] = <<>> THEN UNUSED ELSE stk[u][Len(stk[u])]
  BY DEF Reps
<1>8. \A u \in Terminals : \A i \in 1 .. Len(stk[u]) :
         par[stk[u][i]] = IF i = 1 THEN UNUSED ELSE stk[u][i - 1]
  BY DEF Reps
<1>9. \A u, v \in Terminals : \A i \in 1 .. Len(stk[u]), j \in 1 .. Len(stk[v]) :
         stk[u][i] = stk[v][j] => u = v /\ i = j
  BY DEF Reps
<1>10. \A p \in own : \E u \in Terminals : \E i \in 1 .. Len(stk[u]) : stk[u][i] = p
  BY DEF Reps
<1>11. par[top] = IF n = 1 THEN UNUSED ELSE stk[t][n - 1]
  BY <1>2, <1>8
<1>12. par[top] # UNUSED <=> n > 1
  <2>1. n # 1 => stk[t][n - 1] \in Slots /\ n > 1
    BY <1>1, <1>2, Below
  <2>2. UNUSED \notin Slots
    BY DEF Slots, UNUSED
  <2>3. CASE n = 1
    BY <1>11, <2>3
  <2>4. CASE n # 1
    <3> QED BY <1>11, <2>1, <2>2, <2>4
  <2> QED BY <2>3, <2>4
<1> HIDE DEF rest, stk2, tpi2, top
<1>13. \A u \in Terminals : tpi2[u] = IF stk2[u] = <<>> THEN UNUSED ELSE stk2[u][Len(stk2[u])]
  <2> TAKE u \in Terminals
  <2>1. CASE u # t
    BY <2>1, <1>4, <1>5, <1>7
  <2>2. CASE u = t /\ n = 1
    BY <2>2, <1>3, <1>4, <1>5, <1>11
  <2>3. CASE u = t /\ n # 1
    <3>1. n - 1 \in 1 .. n - 1 /\ rest # <<>>
      BY <2>3, <1>1, <1>2, <1>3
    <3>2. rest[n - 1] = stk[t][n - 1]
      BY <1>3, <3>1
    <3> QED BY <2>3, <1>3, <1>4, <1>5, <1>11, <3>1, <3>2
  <2> QED BY <2>1, <2>2, <2>3
<1>14. ASSUME NEW u \in Terminals, NEW i \in 1 .. Len(stk2[u])
       PROVE  /\ i \in 1 .. Len(stk[u]) /\ stk2[u][i] = stk[u][i] /\ stk2[u][i] # top
              /\ i # 1 => stk2[u][i - 1] = stk[u][i - 1]
  <2>1. CASE u # t
    <3>1. Len(stk2[u]) = Len(stk[u]) /\ stk2[u] = stk[u]
      BY <2>1, <1>4
    <3>2. stk[u][i] # top
      BY <2>1, <3>1, <1>2, <1>9
    <3> QED BY <3>1, <3>2
  <2>2. CASE u = t
    <3>1. i \in 1 .. n - 1 /\ i \in 1 .. n /\ i # n /\ (i # 1 => i - 1 \in 1 .. n - 1)
      BY <2>2, <1>1, <1>2, <1>3, <1>4
    <3>2. stk[t][i] # top
      BY <3>1, <1>2, <1>9
    <3> QED BY <2>2, <3>1, <3>2, <1>3, <1>4
  <2> QED BY <2>1, <2>2
<1>15. \A u \in Terminals : \A i \in 1 .. Len(stk2[u]) :
         /\ stk2[u][i] \in own \ {top}
         /\ par[stk2[u][i]] = IF i = 1 THEN UNUSED ELSE stk2[u][i - 1]
  BY <1>6, <1>8, <1>14
<1>16. \A u, v \in Terminals : \A i \in 1 .. Len(stk2[u]), j \in 1 .. Len(stk2[v]) :
         stk2[u][i] = stk2[v][j] => u = v /\ i = j
  BY <1>9, <1>14
<1>17. ASSUME NEW p \in own \ {top}
       PROVE  \E u \in Terminals : \E i \in 1 .. Len(stk2[u]) : stk2[u][i] = p
  <2>1. PICK u \in Terminals : \E i \in 1 .. Len(stk[u]) : stk[u][i] = p
    BY <1>10
  <2>2. PICK i \in 1 .. Len(stk[u]) : stk[u][i] = p
    BY <2>1
  <2>3. u # t \/ i # n
    BY <1>2, <2>2
  <2>4. i \in 1 .. Len(stk2[u]) /\ stk2[u][i] = p
    <3>1. CASE u # t
      BY <2>2, <3>1, <1>4
    <3>2. CASE u = t
      <4>1. i \in 1 .. n - 1
        BY <2>3, <3>2, <1>1
      <4> QED BY <2>2, <3>2, <4>1, <1>3, <1>4
    <3> QED BY <3>1, <3>2
  <2> QED BY <2>4
<1>18. Reps(stk2, tpi2, par, own \ {top})
  BY <1>4, <1>13, <1>15, <1>16, <1>17 DEF Reps
<1> QED BY <1>1, <1>2, <1>12, <1>18 DEF stk2, rest, tpi2, top

-----------------------------------------------------------------------------
(* The chains of parents are stacks, of all the processes of terminals.    *)
StackInv == Reps(StackOf, terminal_process_info, parent, Owned)

(* The slots in use by the abstract stacks are those of the processes.     *)
LEMMA UsedIsOwned ==
    ASSUME StackInv
    PROVE  /\ Stacks!Used = Owned
           /\ \A t \in Terminals : StackOf[t] \in Seq(Slots)
<1>1. \A t \in Terminals : StackOf[t] \in Seq(Slots)
  BY DEF StackInv, Reps
<1>2. ASSUME NEW p \in Stacks!Used PROVE p \in Owned
  <2>1. PICK t \in Terminals : p \in Stacks!ToSet(StackOf[t])
    BY DEF Stacks!Used, Stacks!Terminals, Terminals
  <2>2. PICK i \in DOMAIN StackOf[t] : p = StackOf[t][i]
    BY <2>1 DEF Stacks!ToSet
  <2>3. i \in 1 .. Len(StackOf[t])
    BY <1>1, <2>2
  <2> QED BY <2>2, <2>3 DEF StackInv, Reps
<1>3. ASSUME NEW p \in Owned PROVE p \in Stacks!Used
  <2>1. PICK t \in Terminals : \E i \in 1 .. Len(StackOf[t]) : StackOf[t][i] = p
    BY DEF StackInv, Reps
  <2>2. PICK i \in 1 .. Len(StackOf[t]) : StackOf[t][i] = p
    BY <2>1
  <2>3. i \in DOMAIN StackOf[t]
    BY <1>1
  <2>4. p \in Stacks!ToSet(StackOf[t])
    BY <2>2, <2>3 DEF Stacks!ToSet
  <2> QED BY <2>4 DEF Stacks!Used, Stacks!Terminals, Terminals
<1> QED BY <1>1, <1>2, <1>3

(* A new state whose parents represent stk has stk for its stacks.         *)
LEMMA NewStacks ==
    ASSUME NEW stk, Reps(stk, terminal_process_info', parent', Owned')
    PROVE  StackOf' = stk /\ StackInv'
<1>1. StackOf' = stk
  BY RepsUnique, ChainToWalksNext
<1> QED BY <1>1 DEF StackInv

(* At boot there are no processes and the stacks are empty.                *)
LEMMA InitStacks == Init => StackInv /\ Stacks!Init
<1> SUFFICES ASSUME Init PROVE StackInv /\ Stacks!Init
  OBVIOUS
<1> DEFINE none == [t \in Terminals |-> <<>>]
<1>1. none \in [Terminals -> Seq(Slots)] /\ \A t \in Terminals : none[t] = <<>> /\ Len(none[t]) = 0
  BY EmptySeq
<1>2. Owned = {} /\ \A t \in Terminals : terminal_process_info[t] = UNUSED
  BY DEF Init, Owned, Live
<1> HIDE DEF none
<1>3. Reps(none, terminal_process_info, parent, Owned)
  BY <1>1, <1>2 DEF Reps
<1>4. StackOf = none
  BY <1>3, RepsUnique, ChainToWalks
<1>5. current_terminal_id = -1
  BY DEF Init, UNUSED
<1> QED
  BY <1>3, <1>4, <1>5
     DEF StackInv, Stacks!Init, Stacks!Nobody, Stacks!Terminals, Terminals, none

(* The tables Push and Pop are about.                                      *)
LEMMA TableTypes ==
    ASSUME IInv
    PROVE  /\ terminal_process_info \in [Terminals \cup {UNUSED} -> Slots \cup {UNUSED}]
           /\ parent \in [PcbIndex -> Slots \cup {UNUSED}]
           /\ Owned \in SUBSET Slots /\ UNUSED \notin Slots
BY DEF IInv, TypeOK, Owned, Live, Slots, UNUSED

(* execute() is a launch: a free slot goes on top of the caller's stack.   *)
LEMMA ExecuteStep ==
    ASSUME Disorder = {}, IInv, StackInv, Execute
    PROVE  StackInv' /\ Stacks!Launch
<1> DEFINE c == current_terminal_id
           p == terminal_process_info[current_terminal_id]
<1>1. /\ c \in Terminals /\ c # UNUSED /\ cpu \in Slots /\ p = cpu /\ terminal_id = c
  BY DEF Execute, Running, IInv, TypeOK, RunningContext, UNUSED, LOST, Slots
<1>2. PICK new \in FirstFree(process_state, pid) :
        StartProgram(new, c, p, process_state, terminal_process_info, tss_esp0,
                     sche_esp, [frame EXCEPT ![cpu] = "execute"])
  BY <1>1 DEF Execute, AttachTo
<1>3. new \in Slots /\ process_state[new] = 0
  BY <1>1, FirstFreeFacts DEF Execute, IInv, TypeOK
<1>4. /\ UNCHANGED current_terminal_id
      /\ terminal_process_info' = [terminal_process_info EXCEPT ![c] = new]
      /\ parent' = [parent EXCEPT ![new] = p]
  BY <1>2 DEF Execute, StartProgram
<1>5. Owned' = Owned \cup {new} /\ new \notin Owned
  BY <1>1, <1>2, <1>3
     DEF IInv, TypeOK, Progress, StartProgram, SwitchTo, Orphan, Live, Owned, Terminals, UNUSED, Slots
<1>6. Reps([StackOf EXCEPT ![c] = Append(@, new)], terminal_process_info', parent', Owned')
  BY <1>1, <1>3, <1>4, <1>5, TableTypes, Push DEF StackInv
<1>7. StackInv' /\ StackOf' = [StackOf EXCEPT ![c] = Append(@, new)]
  BY <1>6, NewStacks
<1> QED BY <1>1, <1>3, <1>4, <1>5, <1>7, UsedIsOwned DEF Stacks!Launch, Stacks!Nobody, UNUSED

(* halt() of a child is an exit: the stack is as before its launch.        *)
LEMMA HaltChildStep ==
    ASSUME IInv, StackInv, HaltChild
    PROVE  StackInv' /\ Stacks!Exit
<1> DEFINE c == current_terminal_id
           p == terminal_process_info[current_terminal_id]
<1>1. /\ c \in Terminals /\ c # UNUSED /\ p # UNUSED /\ parent[p] # UNUSED
      /\ p \in Slots /\ p \in Owned
  BY DEF HaltChild, Running, IInv, TypeOK, NoSharing, Tops, UNUSED
<1>2. /\ UNCHANGED <<current_terminal_id, parent>>
      /\ process_state' = [process_state EXCEPT ![p] = 0]
      /\ terminal_process_info' = [terminal_process_info EXCEPT ![c] = parent[p]]
  BY DEF HaltChild, Freed, pcbs
<1>3. Owned' = Owned \ {p}
  BY <1>1, <1>2 DEF IInv, TypeOK, Orphan, Live, Owned, Terminals, UNUSED, Slots
<1>4. /\ Reps([StackOf EXCEPT ![c] = Stacks!Front(@)], terminal_process_info', parent', Owned')
      /\ Len(StackOf[c]) > 1
  BY <1>1, <1>2, <1>3, TableTypes, Pop DEF StackInv
<1>5. StackInv' /\ StackOf' = [StackOf EXCEPT ![c] = Stacks!Front(@)]
  BY <1>4, NewStacks
<1> QED BY <1>1, <1>2, <1>4, <1>5 DEF Stacks!Exit, Stacks!Nobody, UNUSED

(* halt() of a shell puts another in its place, in a slot nobody else has. *)
LEMMA HaltRootStep ==
    ASSUME Disorder = {}, IInv, StackInv, HaltRoot
    PROVE  StackInv' /\ Stacks!Respawn
<1> DEFINE c == current_terminal_id
           p == terminal_process_info[current_terminal_id]
           ps == [process_state EXCEPT ![p] = 0]
           tpi == [terminal_process_info EXCEPT ![c] = UNUSED]
           below == [StackOf EXCEPT ![c] = Stacks!Front(@)]
<1>1. /\ c \in Terminals /\ c # UNUSED /\ cpu \in Slots /\ p = cpu /\ p \in Owned
      /\ terminal_id = c /\ parent[p] = UNUSED /\ p # UNUSED
  BY DEF HaltRoot, Running, IInv, TypeOK, RunningContext, NoSharing, Tops, UNUSED, LOST, Slots
<1>2. ps \in [Slots -> {0, 1}] /\ ps[p] = 0
  BY <1>1 DEF IInv, TypeOK
<1>3. PICK new \in FirstFree(ps, UNUSED) :
        StartProgram(new, c, UNUSED, ps, tpi, esp0[p], sche_esp,
                     [frame EXCEPT ![cpu] = "execute"])
  BY <1>1 DEF HaltRoot, AttachTo, Freed, IInv, TypeOK
<1>4. new \in Slots /\ ps[new] = 0
  BY <1>1, <1>2, FirstFreeFacts
<1>5. /\ UNCHANGED current_terminal_id
      /\ terminal_process_info' = [tpi EXCEPT ![c] = new]
      /\ parent' = [parent EXCEPT ![new] = tpi[c]]
      /\ process_state' = [ps EXCEPT ![new] = 1]
  BY <1>1, <1>3, TableTypes DEF HaltRoot, StartProgram
<1>6. Owned' = (Owned \ {p}) \cup {new} /\ new \notin Owned \ {p}
  BY <1>1, <1>4, <1>5 DEF IInv, TypeOK, Progress, Orphan, Live, Owned, Terminals, UNUSED, Slots
<1>7. /\ Reps(below, tpi, parent, Owned \ {p})
      /\ StackOf[c] # <<>> /\ StackOf[c] \in Seq(Slots) /\ ~(Len(StackOf[c]) > 1)
  BY <1>1, TableTypes, Pop DEF StackInv
<1>8. /\ tpi \in [Terminals \cup {UNUSED} -> Slots \cup {UNUSED}]
      /\ Owned \ {p} \in SUBSET Slots
  BY TableTypes
<1>9. Len(StackOf[c]) = 1 /\ StackOf[c][1] = p
  <2>1. Len(StackOf[c]) \in Nat /\ Len(StackOf[c]) \in 1 .. Len(StackOf[c])
    BY <1>7, Below
  <2>2. Len(StackOf[c]) = 1
    <3>1. \A n \in Nat : n \in 1 .. n /\ ~(n > 1) => n = 1
      OBVIOUS
    <3> QED BY <1>7, <2>1, <3>1, Zenon
  <2>3. p = StackOf[c][Len(StackOf[c])]
    BY <1>1, <1>7 DEF StackInv, Reps
  <2> QED BY <2>2, <2>3
<1>10. below[c] = <<>>
  <2>1. Len(Stacks!Front(StackOf[c])) = 0 /\ Stacks!Front(StackOf[c]) \in Seq(Slots)
    <3> DEFINE s == StackOf[c]
    <3>1. s \in Seq(Slots) /\ s # <<>> /\ Len(s) = 1
      BY <1>7, <1>9
    <3> HIDE DEF s
    <3>2. Stacks!Front(s) \in Seq(Slots) /\ Len(Stacks!Front(s)) = Len(s) - 1
      BY <3>1, Below
    <3>3. Len(Stacks!Front(s)) = 0
      BY <3>1, <3>2
    <3> QED BY <3>2, <3>3 DEF s
  <2> DEFINE front == Stacks!Front(StackOf[c])
  <2>2. front = <<>>
    <3> HIDE DEF front
    <3>1. Len(front) = 0 /\ front \in Seq(Slots)
      BY <2>1 DEF front
    <3> QED BY <3>1, EmptySeq
  <2> QED BY <1>1, <2>2 DEF StackOf
<1> HIDE DEF ps, tpi
<1>11. Reps([below EXCEPT ![c] = Append(@, new)], terminal_process_info', parent', Owned')
  <2> HIDE DEF below
  <2> QED BY <1>1, <1>4, <1>5, <1>6, <1>7, <1>8, TableTypes, Push
<1>12. [below EXCEPT ![c] = Append(@, new)] = [StackOf EXCEPT ![c] = <<new>>]
  <2>1. Append(below[c], new) = <<new>>
    <3> HIDE DEF below
    <3> QED BY <1>10
  <2> QED BY <1>1, <2>1 DEF StackOf
<1>13. StackInv' /\ StackOf' = [StackOf EXCEPT ![c] = <<new>>]
  BY <1>11, <1>12, NewStacks
<1>14. new \in (Slots \ Stacks!Used) \cup Stacks!ToSet(StackOf[c])
  <2>1. p \in Stacks!ToSet(StackOf[c])
    <3>1. 1 \in DOMAIN StackOf[c]
      BY <1>7, <1>9
    <3> QED BY <1>9, <3>1 DEF Stacks!ToSet
  <2> QED BY <1>4, <1>6, <2>1, UsedIsOwned
<1> QED BY <1>1, <1>5, <1>9, <1>13, <1>14 DEF Stacks!Respawn, Stacks!Nobody, UNUSED

(* The terminal of a tick is the abstract next one.                        *)
LEMMA NextIsSuccessor ==
    ASSUME IInv
    PROVE  /\ NextTerminal = (current_terminal_id + 1) % NTerminals
           /\ NextTerminal \in Terminals
BY NextTerminalRange, Successor, SizesAssumption DEF IInv, TypeOK, Terminals, UNUSED

(* A tick that resumes a process only moves on to the next terminal.       *)
LEMMA TickSwitchStep ==
    ASSUME IInv, StackInv, TickSwitch
    PROVE  StackInv' /\ Stacks!Switch
<1> DEFINE n == NextTerminal
<1>1. n \in Terminals /\ n = (current_terminal_id + 1) % NTerminals
  BY NextIsSuccessor
<1>2. /\ UNCHANGED <<process_state, terminal_process_info, parent>>
      /\ current_terminal_id' = n /\ terminal_process_info[n] # UNUSED
  BY DEF TickSwitch
<1>3. Owned' = Owned
  BY <1>2 DEF Owned, Live, Orphan
<1>4. StackInv' /\ StackOf' = StackOf
  BY <1>2, <1>3, NewStacks DEF StackInv
<1>5. StackOf[n] # <<>>
  BY <1>1, <1>2 DEF StackInv, Reps
<1> QED BY <1>1, <1>2, <1>4, <1>5 DEF Stacks!Switch

(* A tick that starts a shell starts it on the empty stack of its terminal. *)
LEMMA TickNewShellStep ==
    ASSUME IInv, StackInv, TickNewShell
    PROVE  StackInv' /\ Stacks!StartShell
<1> DEFINE n == NextTerminal
<1>1. n \in Terminals /\ n = (current_terminal_id + 1) % NTerminals
  BY NextIsSuccessor
<1>2. PICK new \in FirstFree(process_state, pid) :
        StartProgram(new, n, UNUSED, process_state, terminal_process_info,
                     tss_esp0, Saved, Parked)
  BY DEF TickNewShell, AttachTo, ShellReady
<1>3. new \in Slots /\ process_state[new] = 0
  <2>1. Live = 0 .. pid /\ pid + 1 \in Slots /\ pid \in Int
    BY StartPhase DEF TickNewShell, IInv, TypeOK, Slots, UNUSED
  <2>2. pid + 1 \notin Live
    BY <2>1
  <2>3. process_state[pid + 1] = 0
    BY <2>1, <2>2 DEF IInv, TypeOK, Live
  <2> QED BY <2>1, <2>3, FirstFreeFacts DEF IInv, TypeOK
<1>4. /\ current_terminal_id' = n /\ terminal_process_info[n] = UNUSED
      /\ terminal_process_info' = [terminal_process_info EXCEPT ![n] = new]
      /\ parent' = [parent EXCEPT ![new] = terminal_process_info[n]]
      /\ process_state' = [process_state EXCEPT ![new] = 1]
  BY <1>2 DEF TickNewShell, StartProgram
<1>5. Owned' = Owned \cup {new} /\ new \notin Owned
  BY <1>1, <1>3, <1>4 DEF IInv, TypeOK, Progress, Orphan, Live, Owned, Terminals, UNUSED, Slots
<1>6. Reps([StackOf EXCEPT ![n] = Append(@, new)], terminal_process_info', parent', Owned')
  <2> HIDE DEF n
  <2> QED BY <1>1, <1>3, <1>4, <1>5, TableTypes, Push DEF StackInv
<1>7. StackOf[n] = <<>>
  <2>1. StackOf[n] # <<>> => StackOf[n][Len(StackOf[n])] \in Slots
    BY <1>1, UsedIsOwned, Below
  <2> QED BY <1>1, <1>4, <2>1, TableTypes DEF StackInv, Reps
<1>8. [StackOf EXCEPT ![n] = Append(@, new)] = [StackOf EXCEPT ![n] = <<new>>]
  <2>1. Append(StackOf[n], new) = <<new>>
    BY <1>7
  <2> QED BY <1>1, <2>1 DEF StackOf
<1>9. StackInv' /\ StackOf' = [StackOf EXCEPT ![n] = <<new>>]
  BY <1>6, <1>8, NewStacks
<1> QED BY <1>1, <1>3, <1>4, <1>5, <1>7, <1>9, UsedIsOwned DEF Stacks!StartShell

(* The boot loop's execute() attaches its process to no terminal, and the  *)
(* terminal on the display is none of the scheduler's business.            *)
LEMMA OtherSteps ==
    ASSUME IInv, StackInv, BootExecute \/ SwitchTerminal \/ UNCHANGED vars
    PROVE  StackInv' /\ UNCHANGED <<StackOf, current_terminal_id>>
<1>1. CASE BootExecute
  <2>1. PICK junk \in {UNUSED, 0}, new \in FirstFree(process_state, pid) :
          StartProgram(new, UNUSED, junk, process_state, terminal_process_info,
                       tss_esp0, sche_esp, frame)
    BY <1>1 DEF BootExecute
  <2>2. current_terminal_id = UNUSED /\ UNCHANGED current_terminal_id /\ ~AllStarted
    BY <1>1 DEF BootExecute, IInv, Progress
  <2>3. Live = {} /\ pid = UNUSED
    BY <1>1, <2>2 DEF BootExecute, IInv, Starting, Progress, Offset, UNUSED
  <2>4. new = 0 /\ 0 \in Slots
    <3>1. 0 \in Slots /\ process_state[0] = 0
      BY <2>3, SizesAssumption DEF IInv, TypeOK, Live, Slots
    <3>2. new \in Slots /\ \A r \in 0 .. new - 1 : process_state[r] # 0
      BY <3>1, FirstFreeFacts DEF IInv, TypeOK
    <3> QED BY <3>1, <3>2 DEF Slots
  <2>5. /\ process_state' = [process_state EXCEPT ![0] = 1]
        /\ terminal_process_info' = [terminal_process_info EXCEPT ![UNUSED] = 0]
    BY <2>1, <2>4 DEF StartProgram
  <2>6. Owned = {} /\ Owned' = {}
    BY <2>3, <2>4, <2>5 DEF IInv, TypeOK, Owned, Live, Orphan, UNUSED
  <2>7. \A t \in Terminals : terminal_process_info'[t] = terminal_process_info[t]
    BY <2>5 DEF IInv, TypeOK, Terminals, UNUSED
  <2>8. Reps(StackOf, terminal_process_info', parent', Owned')
    BY <2>6, <2>7 DEF StackInv, Reps
  <2> QED BY <2>2, <2>8, NewStacks
<1>2. CASE SwitchTerminal \/ UNCHANGED vars
  <2>1. UNCHANGED <<process_state, terminal_process_info, parent, current_terminal_id>>
    BY <1>2 DEF SwitchTerminal, vars, pcbs
  <2>2. Owned' = Owned
    BY <2>1 DEF Owned, Live, Orphan
  <2> QED BY <2>1, <2>2, NewStacks DEF StackInv
<1> QED BY <1>1, <1>2

(* Every step of the kernel is a step of the stacks, or leaves them alone. *)
LEMMA StepIsAbstract ==
    ASSUME Disorder = {}, IInv, StackInv, [Next]_vars
    PROVE  StackInv' /\ [Stacks!Next]_(Stacks!vars)
<1>1. CASE Execute
  BY <1>1, ExecuteStep DEF Stacks!Next
<1>2. CASE HaltChild
  BY <1>2, HaltChildStep DEF Stacks!Next
<1>3. CASE HaltRoot
  BY <1>3, HaltRootStep DEF Stacks!Next
<1>4. CASE Tick
  BY <1>4, TickSwitchStep, TickNewShellStep, TickNoShellImpossible DEF Tick, Stacks!Next
<1>5. CASE BootExecute \/ SwitchTerminal \/ UNCHANGED vars
  BY <1>5, OtherSteps DEF Stacks!vars
<1> QED BY <1>1, <1>2, <1>3, <1>4, <1>5 DEF Next

(* The scheduler, execute() and halt() do to the chains of parents what    *)
(* the abstract stacks allow and nothing else, for any number of terminals *)
(* and slots: a launch pushes a slot no stack uses, an exit returns to the *)
(* launcher, and the terminals take turns in their order.                  *)
THEOREM ImplementsStacksSafely ==
    ASSUME Disorder = {}
    PROVE  Spec => Stacks!Safely
<1>1. Init => StackInv /\ Stacks!Init
  BY InitStacks
<1>2. IInv /\ StackInv /\ [Next]_vars => StackInv' /\ [Stacks!Next]_(Stacks!vars)
  BY StepIsAbstract
<1>3. Spec => Stacks!Init /\ [][Stacks!Next]_(Stacks!vars)
  BY <1>1, <1>2, Invariance, PTL DEF Spec
<1> QED BY <1>3 DEF Stacks!Safely
=============================================================================
