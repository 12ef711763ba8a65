----------------------- MODULE FileDescriptorsProofs -----------------------
(***************************************************************************)
(* For any number of terminals, processes, descriptors and files, and      *)
(* however the ticks fall into reads: a process starts with nothing open,  *)
(* and what it has open is changed by its own calls only.  The step of a   *)
(* read that uses the PCB of another process moves a position there and    *)
(* nothing else, which is why both hold although reads stray.  As long as  *)
(* none does, each read goes on where the last one ended: that the loop of *)
(* read_data() copies what lies between two places of a file, whatever the *)
(* blocks, is proved first.                                                *)
(***************************************************************************)
EXTENDS FileDescriptors, SequenceTheorems, WellFoundedInduction, TLAPS

(* An entry of file_array, whatever its fields hold. *)
IsEntry(f) ==
    \E type, inode, position, flags :
        f = [type |-> type, inode |-> inode, file_position |-> position, flags |-> flags]

StackType ==
    /\ stack \in [Terminals -> Seq(Processes)]
    /\ running \in Terminals \cup {Nobody}
    /\ running # Nobody => stack[running] # <<>>

(* The PCBs have their entries, and a closed one for what nobody uses. *)
PcbType ==
    /\ DOMAIN file_array = Processes
    /\ \A p \in Processes :
         /\ DOMAIN file_array[p] = FDs
         /\ \A fd \in FDs : IsEntry(file_array[p][fd])

FInv == StackType /\ PcbType /\ ClosedWhenFree

(* What close and halt decide of an entry. *)
Held(f) == <<f.type, f.inode, f.flags>>

-----------------------------------------------------------------------------
(* Stacks *)

(* A stack loses only its last process when that is taken off. *)
LEMMA FrontKeepsOthers ==
    ASSUME NEW S, NEW s \in Seq(S), s # <<>>
    PROVE  /\ Front(s) \in Seq(S)
           /\ Last(s) \in S
           /\ Len(Front(s)) = Len(s) - 1
           /\ \A i \in 1 .. Len(s) - 1 : Front(s)[i] = s[i]
           /\ ToSet(s) = ToSet(Front(s)) \cup {Last(s)}
<1>1. Len(s) \in Nat /\ Len(s) > 0
  OBVIOUS
<1>2. Front(s) \in Seq(S) /\ Len(Front(s)) = Len(s) - 1
  <2>1. \A i \in 1 .. Len(s) - 1 : s[i] \in S
    BY <1>1
  <2>2. /\ SubSeq(s, 1, Len(s) - 1) \in Seq(S)
        /\ Len(SubSeq(s, 1, Len(s) - 1)) =
             IF 1 <= Len(s) - 1 THEN Len(s) - 1 - 1 + 1 ELSE 0
    BY <1>1, <2>1, SubSeqProperties
  <2>3. \A n \in Nat \ {0} : (IF 1 <= n - 1 THEN n - 1 - 1 + 1 ELSE 0) = n - 1
    OBVIOUS
  <2>4. Len(s) \in Nat \ {0}
    BY <1>1
  <2>5. (IF 1 <= Len(s) - 1 THEN Len(s) - 1 - 1 + 1 ELSE 0) = Len(s) - 1
    BY <2>3, <2>4, Zenon
  <2> QED BY <2>2, <2>5 DEF Front
<1>3. \A i \in 1 .. Len(s) - 1 : Front(s)[i] = s[i]
  BY <1>1 DEF Front
<1>4. Last(s) = s[Len(s)] /\ Last(s) \in S
  BY <1>1 DEF Last
<1>5. ToSet(s) = {s[i] : i \in 1 .. Len(s)}
  BY DEF ToSet
<1>6. ToSet(Front(s)) = {s[i] : i \in 1 .. Len(s) - 1}
  BY <1>1, <1>2, <1>3 DEF ToSet
<1> QED BY <1>1, <1>2, <1>3, <1>4, <1>5, <1>6

(* The processes above and below stay when one is pushed. *)
LEMMA AppendAdds ==
    ASSUME NEW S, NEW s \in Seq(S), NEW p \in S
    PROVE  /\ Append(s, p) \in Seq(S)
           /\ Append(s, p) # <<>>
           /\ ToSet(s) \subseteq ToSet(Append(s, p))
<1>1. Append(s, p) \in Seq(S) /\ Len(Append(s, p)) = Len(s) + 1 /\ Len(s) \in Nat
  OBVIOUS
<1>2. \A i \in 1 .. Len(s) : Append(s, p)[i] = s[i]
  OBVIOUS
<1>3. ToSet(s) \subseteq ToSet(Append(s, p))
  BY <1>1, <1>2 DEF ToSet
<1> QED BY <1>1, <1>3

(* Whose turn is next. *)
LEMMA NextTerminal ==
    ASSUME StackType PROVE (running + 1) % NTerminals \in Terminals
BY FilesAssumption DEF StackType, Terminals, Nobody

(* When one stack changes, the others keep their processes in use. *)
LEMMA UsedByOthers ==
    ASSUME StackType, NEW t \in Terminals, NEW s \in Seq(Processes), NEW p,
           stack' = [stack EXCEPT ![t] = s],
           p \in Used, p \notin ToSet(stack[t]) \ ToSet(s)
    PROVE  p \in Used'
<1>1. PICK u \in Terminals : p \in ToSet(stack[u])
  BY DEF Used
<1>2. stack'[t] = s /\ \A v \in Terminals \ {t} : stack'[v] = stack[v]
  BY DEF StackType
<1> QED BY <1>1, <1>2 DEF Used

-----------------------------------------------------------------------------
(* The steps on the stacks *)

(* A shell starts on a terminal without one, and nobody leaves. *)
LEMMA StartShellStacks == ASSUME StackType, StartShell PROVE StackType' /\ Used \subseteq Used'
<1> DEFINE t == (running + 1) % NTerminals
<1>1. t \in Terminals
  BY NextTerminal
<1>2. stack[t] = <<>> /\ running' = t
  BY DEF StartShell
<1>3. PICK p \in Processes : stack' = [stack EXCEPT ![t] = <<p>>]
  BY DEF StartShell
<1>4. StackType'
  BY <1>1, <1>2, <1>3 DEF StackType
<1>5. ToSet(stack[t]) = {}
  BY <1>2 DEF ToSet
<1>6. <<p>> \in Seq(Processes)
  OBVIOUS
<1> QED BY <1>1, <1>3, <1>4, <1>5, <1>6, UsedByOthers

(* The processor goes to the next terminal: nobody comes or goes. *)
LEMMA SwitchStacks == ASSUME StackType, Switch PROVE StackType' /\ Used' = Used
BY NextTerminal DEF StackType, Switch, Used

(* A program is launched on top of who called execute(). *)
LEMMA LaunchStacks == ASSUME StackType, Launch PROVE StackType' /\ Used \subseteq Used'
<1>1. running \in Terminals /\ stack[running] \in Seq(Processes)
  BY DEF StackType, Launch
<1>2. PICK p \in Processes : stack' = [stack EXCEPT ![running] = Append(stack[running], p)]
  BY DEF Launch
<1>3. running' = running
  BY DEF Launch
<1>4. StackType'
  BY <1>1, <1>2, <1>3, AppendAdds DEF StackType
<1> QED BY <1>1, <1>2, <1>4, AppendAdds, UsedByOthers

(* When a process exits, it alone is no longer in use. *)
LEMMA ExitStacks ==
    ASSUME StackType, Exit PROVE StackType' /\ Used \subseteq Used' \cup {PcbAddr}
<1>1. running \in Terminals /\ stack[running] \in Seq(Processes) /\ stack[running] # <<>>
  BY DEF StackType, Exit
<1>2. stack' = [stack EXCEPT ![running] = Front(stack[running])] /\ running' = running
  BY DEF Exit
<1>3. Front(stack[running]) # <<>>
  <2>1. Len(stack[running]) > 1 /\ Len(stack[running]) \in Nat
    BY <1>1 DEF Exit
  <2>2. Front(stack[running])[1] = stack[running][1] /\ Len(Front(stack[running])) # 0
    BY <1>1, <2>1, FrontKeepsOthers
  <2> QED BY <2>2
<1>4. StackType'
  BY <1>1, <1>2, <1>3, FrontKeepsOthers DEF StackType
<1> QED BY <1>1, <1>2, <1>4, FrontKeepsOthers, UsedByOthers DEF PcbAddr

(* A shell that exits is replaced, by itself perhaps. *)
LEMMA RespawnStacks ==
    ASSUME StackType, Respawn PROVE StackType' /\ Used \subseteq Used' \cup {PcbAddr}
<1>1. running \in Terminals /\ stack[running] \in Seq(Processes) /\ Len(stack[running]) = 1
  BY DEF StackType, Respawn
<1>2. ToSet(stack[running]) = {PcbAddr} /\ PcbAddr \in Processes
  BY <1>1 DEF ToSet, PcbAddr, Last
<1>3. PICK p \in Processes : stack' = [stack EXCEPT ![running] = <<p>>]
  BY <1>2 DEF Respawn
<1>4. running' = running
  BY DEF Respawn
<1>5. StackType'
  BY <1>1, <1>3, <1>4 DEF StackType
<1>6. <<p>> \in Seq(Processes)
  OBVIOUS
<1> QED BY <1>1, <1>2, <1>3, <1>5, <1>6, UsedByOthers

-----------------------------------------------------------------------------
(* Entries *)

(* A read moves the position of an entry and keeps what close decides. *)
LEMMA MovedEntry ==
    ASSUME NEW f, IsEntry(f), NEW n
    PROVE  LET g == [f EXCEPT !.file_position = n]
           IN  /\ IsEntry(g) /\ Held(g) = Held(f) /\ g.file_position = n
               /\ g.type = f.type /\ g.inode = f.inode /\ g.flags = f.flags
<1> DEFINE g == [f EXCEPT !.file_position = n]
<1>1. PICK type, inode, position, flags :
        f = [type |-> type, inode |-> inode, file_position |-> position, flags |-> flags]
  BY DEF IsEntry
<1>2. g = [type |-> type, inode |-> inode, file_position |-> n, flags |-> flags]
  BY <1>1
<1> HIDE DEF g
<1>3. IsEntry(g)
  BY <1>2 DEF IsEntry
<1>4. g.type = f.type /\ g.inode = f.inode /\ g.flags = f.flags /\ g.file_position = n
  BY <1>1, <1>2
<1> QED BY <1>3, <1>4 DEF g, Held

(* halt() only takes the flag away. *)
LEMMA ClearedEntry ==
    ASSUME NEW f, IsEntry(f)
    PROVE  LET g == [f EXCEPT !.flags = 0]
           IN  /\ IsEntry(g) /\ g.flags = 0
               /\ g.type = f.type /\ g.inode = f.inode /\ g.file_position = f.file_position
<1> DEFINE g == [f EXCEPT !.flags = 0]
<1>1. PICK type, inode, position, flags :
        f = [type |-> type, inode |-> inode, file_position |-> position, flags |-> flags]
  BY DEF IsEntry
<1>2. g = [type |-> type, inode |-> inode, file_position |-> position, flags |-> 0]
  BY <1>1
<1> HIDE DEF g
<1>3. IsEntry(g) /\ g.flags = 0
  BY <1>2 DEF IsEntry
<1>4. g.type = f.type /\ g.inode = f.inode /\ g.file_position = f.file_position
  BY <1>1, <1>2
<1> QED BY <1>3, <1>4 DEF g

(* close() leaves the inode. *)
LEMMA ResetEntry ==
    ASSUME NEW f, IsEntry(f)
    PROVE  /\ IsEntry(Reset(f))
           /\ Reset(f).type = "none" /\ Reset(f).file_position = 0 /\ Reset(f).flags = 0
<1>1. PICK type, inode, position, flags :
        f = [type |-> type, inode |-> inode, file_position |-> position, flags |-> flags]
  BY DEF IsEntry
<1> DEFINE g == [f EXCEPT !.type = "none"]
           h == [g EXCEPT !.file_position = 0]
           k == [h EXCEPT !.flags = 0]
<1>2. g = [type |-> "none", inode |-> inode, file_position |-> position, flags |-> flags]
  BY <1>1
<1>3. Reset(f) = k
  BY DEF Reset
<1> HIDE DEF g
<1>4. h = [type |-> "none", inode |-> inode, file_position |-> 0, flags |-> flags]
  BY <1>2
<1> HIDE DEF h
<1>5. k = [type |-> "none", inode |-> inode, file_position |-> 0, flags |-> 0]
  BY <1>4
<1> HIDE DEF k
<1>6. IsEntry(k)
  BY <1>5 DEF IsEntry
<1>7. k.type = "none" /\ k.file_position = 0 /\ k.flags = 0
  BY <1>5
<1> QED BY <1>3, <1>6, <1>7

(* One entry of one PCB is written. *)
LEMMA OneEntry ==
    ASSUME PcbType, NEW p, NEW fd, NEW e, p \in Processes /\ fd \in FDs => IsEntry(e),
           file_array' = [file_array EXCEPT ![p] = [file_array[p] EXCEPT ![fd] = e]]
    PROVE  /\ PcbType'
           /\ \A q \in Processes, g \in FDs :
                file_array'[q][g] = IF q = p /\ g = fd THEN e ELSE file_array[q][g]
<1>1. \A q \in Processes : file_array'[q] =
        IF q = p THEN [file_array[q] EXCEPT ![fd] = e] ELSE file_array[q]
  BY DEF PcbType
<1>2. DOMAIN file_array' = Processes
  BY DEF PcbType
<1>3. \A q \in Processes : DOMAIN file_array'[q] = FDs
  BY <1>1 DEF PcbType
<1>4. \A q \in Processes, g \in FDs :
        file_array'[q][g] = IF q = p /\ g = fd THEN e ELSE file_array[q][g]
  BY <1>1 DEF PcbType
<1>5. \A q \in Processes, g \in FDs : IsEntry(file_array'[q][g])
  BY <1>4 DEF PcbType
<1> QED BY <1>2, <1>3, <1>4, <1>5 DEF PcbType, FDs

-----------------------------------------------------------------------------
(* The calls *)

(* Who runs is a process in use. *)
LEMMA CallerInUse ==
    ASSUME StackType, running # Nobody PROVE PcbAddr \in Used /\ PcbAddr \in Processes
<1>1. running \in Terminals /\ stack[running] \in Seq(Processes) /\ stack[running] # <<>>
  BY DEF StackType
<1> QED BY <1>1, FrontKeepsOthers DEF PcbAddr, Used

(* Only the process that calls gets other entries. *)
OnlyCaller ==
    \A q \in Processes, g \in FDs :
        q # PcbAddr => Held(file_array'[q][g]) = Held(file_array[q][g])

(* open() writes one entry of the caller. *)
LEMMA OpenEntries == ASSUME StackType, PcbType, Open PROVE PcbType' /\ OnlyCaller
<1>1. PICK d \in DOMAIN Directory, fd \in FDs :
        file_array' = [file_array EXCEPT ![PcbAddr][fd] = Entry(Directory[d])]
  BY DEF Open
<1>2. IsEntry(Entry(Directory[d]))
  BY DEF IsEntry, Entry
<1>3. file_array' = [file_array EXCEPT ![PcbAddr] =
                      [file_array[PcbAddr] EXCEPT ![fd] = Entry(Directory[d])]]
  BY <1>1
<1>4. PcbType'
  BY <1>2, <1>3, OneEntry
<1>5. \A q \in Processes, g \in FDs : q # PcbAddr => file_array'[q][g] = file_array[q][g]
  BY <1>2, <1>3, OneEntry
<1> QED BY <1>4, <1>5 DEF OnlyCaller

(* So does close(). *)
LEMMA CloseEntries == ASSUME StackType, PcbType, Close PROVE PcbType' /\ OnlyCaller
<1>1. PICK fd \in FDs :
        file_array' = [file_array EXCEPT ![PcbAddr][fd] = Reset(file_array[PcbAddr][fd])]
  BY DEF Close
<1>2. PcbAddr \in Processes => IsEntry(Reset(file_array[PcbAddr][fd]))
  BY ResetEntry DEF PcbType
<1>3. file_array' = [file_array EXCEPT ![PcbAddr] =
                      [file_array[PcbAddr] EXCEPT ![fd] = Reset(file_array[PcbAddr][fd])]]
  BY <1>1
<1>4. PcbType'
  BY <1>2, <1>3, OneEntry
<1>5. \A q \in Processes, g \in FDs : q # PcbAddr => file_array'[q][g] = file_array[q][g]
  BY <1>2, <1>3, OneEntry
<1> QED BY <1>4, <1>5 DEF OnlyCaller

(* halt() closes what the process that exits has open. *)
LEMMA HaltEntries ==
    ASSUME StackType, PcbType, Halt
    PROVE  PcbType' /\ OnlyCaller /\ \A fd \in FDs : file_array'[PcbAddr][fd].flags = 0
<1> DEFINE all == [fd \in FDs |-> [file_array[PcbAddr][fd] EXCEPT !.flags = 0]]
<1>1. PcbAddr \in Processes
  BY CallerInUse DEF Halt, InUser
<1>2. file_array' = [file_array EXCEPT ![PcbAddr] = all]
  BY DEF Halt, Cleared
<1>3. \A fd \in FDs : IsEntry(all[fd]) /\ all[fd].flags = 0
  BY <1>1, ClearedEntry DEF PcbType
<1>4. DOMAIN all = FDs
  OBVIOUS
<1> HIDE DEF all
<1>5. DOMAIN file_array' = Processes
  BY <1>2 DEF PcbType
<1>6. \A q \in Processes : file_array'[q] = IF q = PcbAddr THEN all ELSE file_array[q]
  BY <1>2 DEF PcbType
<1>7. PcbType'
  BY <1>3, <1>4, <1>5, <1>6 DEF PcbType, FDs
<1> QED BY <1>1, <1>3, <1>6, <1>7 DEF OnlyCaller

(* The steps of a read change at most a position, in whose PCB they may.   *)
LEMMA ReadStepEntries ==
    ASSUME PcbType, NEW p \in Processes, ReadStep(p)
    PROVE  /\ PcbType'
           /\ \A q \in Processes, g \in FDs : Held(file_array'[q][g]) = Held(file_array[q][g])
<1> DEFINE c == call[p]
<1>1. CASE UNCHANGED file_array
  BY <1>1 DEF PcbType
<1>2. ASSUME NEW u, NEW v, NEW n, file_array' = [file_array EXCEPT ![u][v].file_position = n]
      PROVE  /\ PcbType'
             /\ \A q \in Processes, g \in FDs : Held(file_array'[q][g]) = Held(file_array[q][g])
  <2> DEFINE e == [file_array[u][v] EXCEPT !.file_position = n]
  <2>1. file_array' = [file_array EXCEPT ![u] = [file_array[u] EXCEPT ![v] = e]]
    BY <1>2
  <2>2. u \in Processes /\ v \in FDs => IsEntry(e) /\ Held(e) = Held(file_array[u][v])
    BY MovedEntry DEF PcbType
  <2> HIDE DEF e
  <2>3. \A q \in Processes, g \in FDs :
          file_array'[q][g] = IF q = u /\ g = v THEN e ELSE file_array[q][g]
    BY <2>1 DEF PcbType
  <2>4. PcbType'
    BY <2>1, <2>2, OneEntry
  <2> QED BY <2>2, <2>3, <2>4
<1>3. CASE Advance(p)
  <2>1. file_array' = [file_array EXCEPT ![c.curr][c.fd].file_position =
                         file_array[c.curr][c.fd].file_position + Len(c.data)]
    BY <1>3 DEF Advance
  <2> QED BY <2>1, <1>2
<1>4. CASE StoreOffset(p)
  BY <1>2, <1>4 DEF StoreOffset
<1>5. LoadPid(p) \/ LoadData(p) \/ LoadOffset(p) => UNCHANGED file_array
  BY DEF LoadPid, LoadData, LoadOffset
<1> QED BY <1>1, <1>3, <1>4, <1>5 DEF ReadStep

-----------------------------------------------------------------------------
(* The invariant *)

(* At boot there is no process and nothing is open. *)
LEMMA InitFInv == InitFiles => FInv
<1> SUFFICES ASSUME InitFiles PROVE FInv
  OBVIOUS
<1>1. StackType
  BY DEF InitFiles, Init, StackType
<1>2. \A p \in Processes, fd \in FDs : file_array[p][fd] = Closed
  BY DEF InitFiles
<1>3. IsEntry(Closed) /\ Closed.flags = 0
  BY DEF IsEntry, Closed
<1>4. DOMAIN file_array = Processes /\ \A p \in Processes : DOMAIN file_array[p] = FDs
  BY DEF InitFiles
<1> QED BY <1>1, <1>2, <1>3, <1>4 DEF FInv, PcbType, ClosedWhenFree

(* While nobody leaves, nothing is opened for who has not come yet.        *)
LEMMA ClosedKept ==
    ASSUME ClosedWhenFree, Used \subseteq Used',
           \A q \in Processes, g \in FDs :
             q \notin Used => Held(file_array'[q][g]) = Held(file_array[q][g])
    PROVE  ClosedWhenFree'
<1> SUFFICES ASSUME NEW q \in Processes, q \notin Used', NEW g \in FDs
             PROVE  file_array'[q][g].flags = 0
  BY DEF ClosedWhenFree, FDs
<1>1. q \notin Used
  OBVIOUS
<1>2. Held(file_array'[q][g]) = Held(file_array[q][g])
  BY <1>1
<1>3. file_array[q][g].flags = 0
  BY <1>1 DEF ClosedWhenFree
<1> QED BY <1>2, <1>3 DEF Held

(* What a process has open is as it was, unless it has the processor.      *)
LEMMA CallersOnly ==
    ASSUME FInv, [NextFiles]_allvars
    PROVE  PcbType' /\ (OnlyCaller \/ \A q \in Processes, g \in FDs :
                                        Held(file_array'[q][g]) = Held(file_array[q][g]))
<1> USE DEF FInv
<1>1. CASE UNCHANGED file_array
  BY <1>1 DEF PcbType
<1>2. CASE Open
  BY <1>2, OpenEntries
<1>3. CASE Close
  BY <1>3, CloseEntries
<1>4. CASE Halt
  BY <1>4, HaltEntries
<1>5. CASE \E p \in Processes : ReadStep(p)
  BY <1>5, ReadStepEntries
<1>6. ShellStarts \/ Tick \/ Execute \/ Read \/ UNCHANGED allvars => UNCHANGED file_array
  BY DEF ShellStarts, Tick, Execute, Read, allvars, fdvars
<1> QED BY <1>1, <1>2, <1>3, <1>4, <1>5, <1>6 DEF NextFiles

(* Any step but halt() leaves the processes in use.                        *)
LEMMA Stacks ==
    ASSUME FInv, [NextFiles]_allvars
    PROVE  /\ StackType'
           /\ Used \subseteq Used' \/ (Halt /\ Used \subseteq Used' \cup {PcbAddr})
<1> USE DEF FInv
<1>1. CASE UNCHANGED vars
  BY <1>1 DEF vars, StackType, Used
<1>2. CASE ShellStarts
  BY <1>2, StartShellStacks DEF ShellStarts
<1>3. CASE Tick
  BY <1>3, SwitchStacks DEF Tick
<1>4. CASE Execute
  BY <1>4, LaunchStacks DEF Execute
<1>5. CASE Halt
  BY <1>5, ExitStacks, RespawnStacks DEF Halt
<1>6. ASSUME NEW p \in Processes, ReadStep(p) PROVE UNCHANGED vars
  BY <1>6 DEF ReadStep, LoadPid, LoadData, Advance, LoadOffset, StoreOffset
<1>7. Open \/ Close \/ Read \/ UNCHANGED allvars => UNCHANGED vars
  BY DEF Open, Close, Read, allvars
<1> QED BY <1>1, <1>2, <1>3, <1>4, <1>5, <1>6, <1>7 DEF NextFiles

(* The only process that leaves has its descriptors closed by halt().      *)
LEMMA NextFInv == FInv /\ [NextFiles]_allvars => FInv'
<1> SUFFICES ASSUME FInv, [NextFiles]_allvars PROVE FInv'
  OBVIOUS
<1>1. StackType' /\ PcbType'
  BY Stacks, CallersOnly
<1>2. CASE Halt
  <2>1. OnlyCaller /\ \A fd \in FDs : file_array'[PcbAddr][fd].flags = 0
    BY <1>2, HaltEntries DEF FInv
  <2>2. Used \subseteq Used' \cup {PcbAddr}
    BY Stacks
  <2> SUFFICES ASSUME NEW q \in Processes, q \notin Used', NEW g \in FDs
               PROVE  file_array'[q][g].flags = 0
    BY <1>1 DEF FInv, ClosedWhenFree, FDs
  <2>3. CASE q = PcbAddr
    BY <2>1, <2>3
  <2>4. CASE q # PcbAddr
    <3>1. q \notin Used
      BY <2>2, <2>4
    <3>2. file_array[q][g].flags = 0
      BY <3>1 DEF FInv, ClosedWhenFree
    <3>3. Held(file_array'[q][g]) = Held(file_array[q][g])
      BY <2>1, <2>4 DEF OnlyCaller
    <3> QED BY <3>2, <3>3 DEF Held
  <2> QED BY <2>3, <2>4
<1>3. CASE ~Halt
  <2>1. Used \subseteq Used'
    BY <1>3, Stacks
  <2>2. CASE running = Nobody
    <3>1. \A q \in Processes, g \in FDs : Held(file_array'[q][g]) = Held(file_array[q][g])
      <4>1. ~Open /\ ~Close
        BY <2>2 DEF Open, Close, InUser
      <4>2. \A p \in Processes : ~ReadStep(p)
        BY <2>2 DEF ReadStep, LoadPid, LoadData, Advance, LoadOffset, StoreOffset, At
      <4>3. ShellStarts \/ Tick \/ Execute \/ Read \/ UNCHANGED allvars => UNCHANGED file_array
        BY DEF ShellStarts, Tick, Execute, Read, allvars, fdvars
      <4> QED BY <1>3, <4>1, <4>2, <4>3 DEF NextFiles
    <3> QED BY <1>1, <2>1, <3>1, ClosedKept DEF FInv
  <2>3. CASE running # Nobody
    <3>1. PcbAddr \in Used
      BY <2>3, CallerInUse DEF FInv
    <3>2. \A q \in Processes, g \in FDs :
            q \notin Used => Held(file_array'[q][g]) = Held(file_array[q][g])
      BY <3>1, CallersOnly DEF OnlyCaller
    <3> QED BY <1>1, <2>1, <3>2, ClosedKept DEF FInv
  <2> QED BY <2>2, <2>3
<1> QED BY <1>2, <1>3

(* FInv holds for ever.                                                    *)
THEOREM FilesInvariance == SpecFiles => []FInv
BY InitFInv, NextFInv, PTL DEF SpecFiles

(* A process finds descriptors closed in the PCB its slot was left with,   *)
(* although reads of others may write there: halt() has closed them.       *)
THEOREM ClosedWhenFreeSafe == SpecFiles => []ClosedWhenFree
<1>1. FInv => ClosedWhenFree
  BY DEF FInv
<1> QED BY <1>1, FilesInvariance, PTL

(* No system call opens, closes or renames a descriptor of a process but   *)
(* the one that calls it.                                                  *)
THEOREM OwnCallsOnlySafe == SpecFiles => OwnCallsOnly
<1> DEFINE Kept ==
      \A p \in Used, fd \in FDs :
        Held(file_array'[p][fd]) # Held(file_array[p][fd]) => p = Last(stack[running])
<1>1. FInv /\ [NextFiles]_allvars => [Kept]_allvars
  <2> SUFFICES ASSUME FInv, [NextFiles]_allvars,
                      NEW p \in Used, NEW fd \in FDs,
                      Held(file_array'[p][fd]) # Held(file_array[p][fd])
               PROVE  p = Last(stack[running])
    OBVIOUS
  <2>1. p \in Processes
    BY DEF FInv, StackType, Used, ToSet
  <2> QED BY <2>1, CallersOnly DEF OnlyCaller, PcbAddr
<1>2. SpecFiles => [][Kept]_allvars
  BY <1>1, FilesInvariance, PTL DEF SpecFiles
<1> QED BY <1>2 DEF OwnCallsOnly, Held
-----------------------------------------------------------------------------
(* Blocks *)

(* A place in a file is a block and a place in it.                         *)
LEMMA DivMod ==
    ASSUME NEW a \in Nat
    PROVE  /\ a \div BlockSize \in Nat
           /\ a % BlockSize \in 0 .. BlockSize - 1
           /\ a = (BlockSize * (a \div BlockSize)) + (a % BlockSize)
<1>1. a \div BlockSize \in Int /\ a % BlockSize \in 0 .. BlockSize - 1
  BY FilesAssumption
<1>2. a = (BlockSize * (a \div BlockSize)) + (a % BlockSize)
  BY FilesAssumption
<1>3. a \div BlockSize >= 0
  BY FilesAssumption
<1> QED BY <1>1, <1>2, <1>3, FilesAssumption

(* Every place of a block is in front of the next block.                   *)
LEMMA BlockBefore ==
    ASSUME NEW p \in Nat, NEW q \in Nat, p < q
    PROVE  (BlockSize * p) + BlockSize <= BlockSize * q
<1>1. BlockSize * (p + 1) <= BlockSize * q
  BY FilesAssumption
<1>2. BlockSize * (p + 1) = (BlockSize * p) + BlockSize
  BY FilesAssumption
<1> QED BY <1>1, <1>2

(* What a place is divided into is unique.                                 *)
LEMMA DivModUnique ==
    ASSUME NEW q \in Nat, NEW r \in 0 .. BlockSize - 1
    PROVE  /\ ((BlockSize * q) + r) \div BlockSize = q
           /\ ((BlockSize * q) + r) % BlockSize = r
<1> DEFINE a == (BlockSize * q) + r
           p == a \div BlockSize
           s == a % BlockSize
           x == BlockSize * p
           y == BlockSize * q
<1>1. a \in Nat
  BY FilesAssumption
<1>2. p \in Nat /\ s \in 0 .. BlockSize - 1 /\ y + r = x + s
  BY <1>1, DivMod
<1>3. p < q => x + BlockSize <= y
  BY <1>2, BlockBefore
<1>4. q < p => y + BlockSize <= x
  BY <1>2, BlockBefore
<1>5. x \in Int /\ y \in Int /\ (p = q => x = y)
  BY <1>2, FilesAssumption
<1> HIDE DEF p, s, x, y
<1>6. ~(p < q) /\ ~(q < p)
  BY <1>2, <1>3, <1>4, <1>5, FilesAssumption
<1>7. p = q
  BY <1>2, <1>6
<1>8. r = s
  BY <1>2, <1>5, <1>7
<1> QED BY <1>7, <1>8 DEF p, s

-----------------------------------------------------------------------------
(* read_data() *)

(* A set of numbers that is not empty has a least element. *)
LEMMA Least ==
    ASSUME NEW T, T \subseteq Nat, T # {}
    PROVE  \E n \in T : \A k \in 0 .. n - 1 : k \notin T
<1> DEFINE R == OpToRel(<, Nat)
<1>1. IsWellFoundedOn(R, Nat)
  BY NatLessThanWellFounded
<1>2. \A x, y \in Nat : x < y => <<x, y>> \in R
  BY DEF OpToRel
<1> HIDE DEF R
<1>3. PICK n \in T : \A y \in T : ~(<<y, n>> \in R)
  BY <1>1, WFMin
<1>4. ASSUME NEW k \in 0 .. n - 1, k \in T PROVE FALSE
  <2>1. k \in Nat /\ n \in Nat /\ k < n
    BY <1>4
  <2> QED BY <2>1, <1>2, <1>3, <1>4
<1> QED BY <1>4

(* States that follow each other by the turns of the loop are the states   *)
(* the loop goes through.                                                  *)
LEMMA TurnsAre ==
    ASSUME NEW index, NEW first, NEW start, NEW turns \in Nat, NEW g,
           g = [i \in 0 .. turns |->
                  IF i = 0 THEN start ELSE Turn(g[i - 1], index[first + i - 1])]
    PROVE  Turns(index, first, start, turns) = g[turns]
<1> DEFINE Rec(w) == w = [i \in 0 .. turns |->
                            IF i = 0 THEN start ELSE Turn(w[i - 1], index[first + i - 1])]
           w == CHOOSE u : Rec(u)
<1>1. Rec(g)
  OBVIOUS
<1>2. Rec(w)
  <2> HIDE DEF Rec
  <2> QED BY <1>1
<1>3. Turns(index, first, start, turns) = w[turns]
  BY DEF Turns
<1>4. \A i \in 0 .. turns : w[i] =
        IF i = 0 THEN start ELSE Turn(w[i - 1], index[first + i - 1])
  <2> HIDE DEF w
  <2> QED BY <1>2
<1>5. \A i \in 0 .. turns : g[i] =
        IF i = 0 THEN start ELSE Turn(g[i - 1], index[first + i - 1])
  BY <1>1
<1> HIDE DEF w, Rec
<1>6. \A i \in 0 .. turns : w[i] = g[i]
  <2> DEFINE T == {i \in 0 .. turns : w[i] # g[i]}
  <2> SUFFICES ASSUME T # {} PROVE FALSE
    OBVIOUS
  <2>1. T \subseteq Nat
    OBVIOUS
  <2>2. PICK n \in T : \A k \in 0 .. n - 1 : k \notin T
    <3> HIDE DEF T
    <3> QED BY <2>1, Least
  <2>3. n \in 0 .. turns /\ n \in Nat /\ w[n] # g[n]
    OBVIOUS
  <2> HIDE DEF T
  <2>4. w[0] = start /\ g[0] = start
    BY <1>4, <1>5
  <2>5. n # 0
    BY <2>3, <2>4
  <2>6. n - 1 \in 0 .. n - 1 /\ n - 1 \in 0 .. turns
    BY <2>3, <2>5
  <2>7. w[n - 1] = g[n - 1]
    BY <2>2, <2>6 DEF T
  <2>8. w[n] = g[n]
    BY <1>4, <1>5, <2>3, <2>5, <2>7
  <2> QED BY <2>3, <2>8
<1>7. turns \in 0 .. turns
  OBVIOUS
<1> QED BY <1>3, <1>6, <1>7

(* Places come in the order of their blocks.                               *)
LEMMA BlocksInOrder ==
    ASSUME NEW a \in Nat, NEW b \in Nat, a <= b
    PROVE  /\ a \div BlockSize <= b \div BlockSize
           /\ b < BlockSize * (b \div BlockSize + 1)
           /\ BlockSize * (b \div BlockSize) <= b
<1> DEFINE p == a \div BlockSize
           q == b \div BlockSize
           x == BlockSize * p
           y == BlockSize * q
           r == a % BlockSize
           s == b % BlockSize
<1>1. p \in Nat /\ r \in 0 .. BlockSize - 1 /\ a = x + r
  BY DivMod
<1>2. q \in Nat /\ s \in 0 .. BlockSize - 1 /\ b = y + s
  BY DivMod
<1>3. q < p => y + BlockSize <= x
  BY <1>1, <1>2, BlockBefore
<1>4. x \in Int /\ y \in Int
  BY <1>1, <1>2, FilesAssumption
<1>5. BlockSize * (q + 1) = y + BlockSize
  BY <1>2, FilesAssumption
<1> HIDE DEF p, q, x, y, r, s
<1>6. ~(q < p)
  BY <1>1, <1>2, <1>3, <1>4, FilesAssumption
<1>7. p <= q
  BY <1>1, <1>2, <1>6
<1>8. b < y + BlockSize /\ y <= b
  BY <1>2, <1>4, FilesAssumption
<1> QED BY <1>5, <1>7, <1>8 DEF p, q, x, y

(* The bytes of a file of that index and size ... *)
Place == (0 .. NBlocks - 1) \X (0 .. BlockSize - 1)
Bytes(index, size) == [k \in 1 .. size |-> <<index[(k - 1) \div BlockSize], (k - 1) % BlockSize>>]
OnDisk(index, size) == \A i \in 0 .. size \div BlockSize : index[i] \in 0 .. NBlocks - 1

(* ... are in the places of S ... *)
Holds(f, size, S) == \A k \in 1 .. size : f[k] \in S

(* ... and those of them behind the place a, up to the place b.            *)
Piece(f, a, b) == [k \in 1 .. b - a |-> f[a + k]]

(* A byte is where it is on the disk.                                      *)
LEMMA ByteAt ==
    ASSUME NEW index, NEW size, NEW k \in 1 .. size
    PROVE  Bytes(index, size)[k] = <<index[(k - 1) \div BlockSize], (k - 1) % BlockSize>>
BY DEF Bytes

(* All bytes are on the disk.                                              *)
LEMMA BytesOnDisk ==
    ASSUME NEW index, NEW size \in Nat, OnDisk(index, size)
    PROVE  Holds(Bytes(index, size), size, Place)
<1> SUFFICES ASSUME NEW k \in 1 .. size PROVE Bytes(index, size)[k] \in Place
  BY DEF Holds
<1>1. k - 1 \in Nat /\ k - 1 <= size
  OBVIOUS
<1>2. (k - 1) \div BlockSize \in Nat /\ (k - 1) % BlockSize \in 0 .. BlockSize - 1
  BY <1>1, DivMod
<1>3. (k - 1) \div BlockSize <= size \div BlockSize /\ size \div BlockSize \in Nat
  BY <1>1, BlocksInOrder, DivMod
<1>4. (k - 1) \div BlockSize \in 0 .. size \div BlockSize
  BY <1>2, <1>3
<1>5. index[(k - 1) \div BlockSize] \in 0 .. NBlocks - 1
  BY <1>4 DEF OnDisk
<1>6. <<index[(k - 1) \div BlockSize], (k - 1) % BlockSize>> \in Place
  BY <1>2, <1>5 DEF Place
<1>7. Bytes(index, size)[k] = <<index[(k - 1) \div BlockSize], (k - 1) % BlockSize>>
  BY ByteAt
<1> QED BY <1>6, <1>7, Zenon

(* A sequence of n members of S.                                           *)
SeqOfLength(s, n, S) == s \in Seq(S) /\ Len(s) = n

(* A piece is a sequence of what there is.                                 *)
LEMMA PieceIsSeq ==
    ASSUME NEW S, NEW size \in Nat, NEW f, Holds(f, size, S),
           NEW a \in Nat, NEW b \in Nat, a <= b, b <= size
    PROVE  SeqOfLength(Piece(f, a, b), b - a, S)
<1>1. b - a \in Nat /\ \A k \in 1 .. b - a : a + k \in 1 .. size
  OBVIOUS
<1>2. \A k \in 1 .. b - a : f[a + k] \in S
  BY <1>1 DEF Holds
<1> DEFINE n == b - a
           g == [k \in 1 .. n |-> f[a + k]]
<1>3. g \in [1 .. n -> S]
  BY <1>2
<1>4. n \in Nat
  BY <1>1
<1>5. Piece(f, a, b) = g
  BY DEF Piece
<1> HIDE DEF n, g
<1>6. g \in Seq(S) /\ Len(g) = n
  BY <1>3, <1>4
<1> QED BY <1>5, <1>6 DEF n, SeqOfLength

Joined(f, a, b, c) == Piece(f, a, b) \o Piece(f, b, c) = Piece(f, a, c)

(* Two pieces that follow each other are one.                              *)
LEMMA PiecesJoin ==
    ASSUME NEW S, NEW size \in Nat, NEW f, Holds(f, size, S),
           NEW a \in Nat, NEW b \in Nat, NEW c \in Nat, a <= b, b <= c, c <= size
    PROVE  Joined(f, a, b, c)
<1> DEFINE l == Piece(f, a, b)
           r == Piece(f, b, c)
           w == Piece(f, a, c)
<1>1. /\ l \in Seq(S) /\ Len(l) = b - a
      /\ r \in Seq(S) /\ Len(r) = c - b
      /\ w \in Seq(S) /\ Len(w) = c - a
  <2>1. b <= size /\ a <= c
    OBVIOUS
  <2>2. SeqOfLength(l, b - a, S) /\ SeqOfLength(r, c - b, S) /\ SeqOfLength(w, c - a, S)
    BY <2>1, PieceIsSeq, Zenon
  <2> QED BY <2>2 DEF SeqOfLength
<1>2. /\ \A k \in 1 .. b - a : l[k] = f[a + k]
      /\ \A k \in 1 .. c - b : r[k] = f[b + k]
      /\ \A k \in 1 .. c - a : w[k] = f[a + k]
  BY DEF Piece
<1> HIDE DEF l, r, w
<1>3. /\ l \o r \in Seq(S) /\ Len(l \o r) = Len(l) + Len(r)
      /\ \A k \in 1 .. Len(l) + Len(r) :
           (l \o r)[k] = IF k <= Len(l) THEN l[k] ELSE r[k - Len(l)]
  BY <1>1, ConcatProperties
<1>4. Len(l) + Len(r) = c - a
  BY <1>1
<1>5. ASSUME NEW k \in 1 .. c - a PROVE (l \o r)[k] = w[k]
  <2>1. CASE k <= b - a
    BY <1>1, <1>2, <1>3, <1>4, <2>1
  <2>2. CASE ~(k <= b - a)
    <3>1. k - (b - a) \in 1 .. c - b /\ b + (k - (b - a)) = a + k
      BY <2>2
    <3>2. (l \o r)[k] = r[k - (b - a)]
      BY <1>1, <1>3, <1>4, <2>2
    <3> QED BY <1>2, <3>1, <3>2
  <2> QED BY <2>1, <2>2
<1>6. l \o r = w
  BY <1>1, <1>3, <1>4, <1>5, SeqEqual
<1> QED BY <1>6 DEF l, r, w, Joined

(* Where the loop has got to after i of its turns, from one place to e.    *)
Reached(from, e, i) ==
    LET next == BlockSize * (from \div BlockSize + i)
    IN  IF i = 0 THEN from ELSE IF e < next THEN e ELSE next

(* What it has then.                                                       *)
Copied(index, size, from, e, i) ==
    [offset |-> Reached(from, e, i), length |-> e - Reached(from, e, i), failed |-> FALSE,
     data |-> Piece(Bytes(index, size), from, Reached(from, e, i))]

(* Every turn but the last ends with a block, the last at e.               *)
LEMMA ReachedBlocks ==
    ASSUME NEW from \in Nat, NEW e \in Nat, from <= e,
           NEW i \in Nat, i <= e \div BlockSize - from \div BlockSize
    PROVE  LET off == Reached(from, e, i)
               to == Reached(from, e, i + 1)
               block == from \div BlockSize + i
           IN  /\ off \in Nat /\ to \in Nat /\ from <= off /\ off <= to /\ to <= e
               /\ block \in Nat /\ off \div BlockSize = block
               /\ to = IF (off % BlockSize) + (e - off) < BlockSize THEN e
                       ELSE off + (BlockSize - (off % BlockSize))
<1> DEFINE off == Reached(from, e, i)
           to == Reached(from, e, i + 1)
           block == from \div BlockSize + i
           start == BlockSize * block
           at == off % BlockSize
<1>1. /\ from \div BlockSize \in Nat /\ e \div BlockSize \in Nat
      /\ block \in Nat /\ block <= e \div BlockSize
  BY DivMod
<1>2. start \in Nat /\ BlockSize * (block + 1) = start + BlockSize
  BY <1>1, FilesAssumption
<1>3. start <= e
  <2>1. block < e \div BlockSize => start + BlockSize <= BlockSize * (e \div BlockSize)
    BY <1>1, BlockBefore
  <2>2. BlockSize * (e \div BlockSize) <= e
    BY BlocksInOrder
  <2> DEFINE last == e \div BlockSize
             y == BlockSize * last
  <2>3. block = last => start = y
    OBVIOUS
  <2>4. last \in Nat /\ y \in Int
    BY <1>1, FilesAssumption
  <2> HIDE DEF last, y, start, block
  <2>5. block < last => start + BlockSize <= y
    BY <2>1 DEF last, y
  <2>6. y <= e /\ block <= last
    BY <1>1, <2>2 DEF last, y
  <2> QED BY <1>1, <1>2, <2>3, <2>4, <2>5, <2>6, FilesAssumption
<1>4. /\ off = start + at /\ at \in 0 .. BlockSize - 1 /\ off \div BlockSize = block
      /\ off \in Nat /\ from <= off /\ off <= e
  <2>1. CASE i = 0
    <3>1. off = from /\ block = from \div BlockSize
      BY <1>1, <2>1 DEF Reached
    <3>2. from = start + (from % BlockSize) /\ from % BlockSize \in 0 .. BlockSize - 1
      BY <3>1, DivMod
    <3> QED BY <3>1, <3>2
  <2>2. CASE i # 0
    <3>1. off = start
      BY <1>2, <1>3, <2>2 DEF Reached
    <3>2. 0 \in 0 .. BlockSize - 1 /\ start + 0 = start
      BY <1>2, FilesAssumption
    <3>3. start \div BlockSize = block /\ start % BlockSize = 0
      BY <1>1, <3>2, DivModUnique
    <3>4. from < BlockSize * (from \div BlockSize + 1)
      BY BlocksInOrder
    <3>5. from <= start
      <4> DEFINE first == from \div BlockSize
                 x == BlockSize * (first + 1)
      <4>1. first + 1 \in Nat /\ (first + 1 < block \/ first + 1 = block)
        BY <1>1, <2>2
      <4>2. first + 1 < block => x + BlockSize <= start
        BY <1>1, <4>1, BlockBefore
      <4>3. first + 1 = block => x = start
        OBVIOUS
      <4>4. x \in Int /\ from < x
        BY <3>4, <4>1, FilesAssumption
      <4> HIDE DEF x, start, block, first
      <4> QED BY <1>2, <4>1, <4>2, <4>3, <4>4, FilesAssumption
    <3> QED BY <1>2, <1>3, <3>1, <3>2, <3>3, <3>5
  <2> QED BY <2>1, <2>2
<1>5. to = IF e < start + BlockSize THEN e ELSE start + BlockSize
  <2>1. from \div BlockSize + (i + 1) = block + 1 /\ i + 1 # 0
    BY <1>1
  <2> QED BY <1>2, <2>1 DEF Reached
<1>6. block \in Nat
  BY <1>1
<1> HIDE DEF off, to, block, start, at
<1>7. /\ to \in Nat /\ off <= to /\ to <= e
      /\ to = IF at + (e - off) < BlockSize THEN e ELSE off + (BlockSize - at)
  BY <1>2, <1>4, <1>5, FilesAssumption
<1> QED BY <1>4, <1>6, <1>7 DEF off, to, block, at

FromBlock(index, size, block, at, a, b) ==
    [k \in 1 .. b - a |-> <<index[block], at + k - 1>>] = Piece(Bytes(index, size), a, b)

(* The bytes up to the end of a block are in that block.                   *)
LEMMA PieceOfBlock ==
    ASSUME NEW index, NEW size \in Nat, NEW block \in Nat, NEW at \in 0 .. BlockSize - 1,
           NEW a \in Nat, NEW b \in Nat, a <= b, b <= size,
           a = (BlockSize * block) + at, b - a <= BlockSize - at
    PROVE  FromBlock(index, size, block, at, a, b)
<1>1. ASSUME NEW k \in 1 .. b - a
      PROVE  <<index[block], at + k - 1>> = Bytes(index, size)[a + k]
  <2>1. a + k \in 1 .. size
    OBVIOUS
  <2>2. at + k - 1 \in 0 .. BlockSize - 1
    BY FilesAssumption
  <2>3. a + k - 1 = (BlockSize * block) + (at + k - 1)
    <3> DEFINE x == BlockSize * block
    <3>1. x \in Int /\ a = x + at
      BY FilesAssumption
    <3> HIDE DEF x
    <3> QED BY <3>1, FilesAssumption DEF x
  <2>4. (a + k - 1) \div BlockSize = block /\ (a + k - 1) % BlockSize = at + k - 1
    BY <2>2, <2>3, DivModUnique
  <2>5. Bytes(index, size)[a + k] =
          <<index[(a + k - 1) \div BlockSize], (a + k - 1) % BlockSize>>
    BY <2>1, ByteAt
  <2> QED BY <2>4, <2>5
<1> QED BY <1>1 DEF Piece, FromBlock

(* One turn copies up to the end of its block, or up to e.                 *)
LEMMA TurnCopies ==
    ASSUME NEW index, NEW size \in Nat, OnDisk(index, size),
           NEW from \in Nat, NEW e \in Nat, from <= e, e <= size,
           NEW i \in Nat, i <= e \div BlockSize - from \div BlockSize
    PROVE  Turn(Copied(index, size, from, e, i), index[from \div BlockSize + i]) =
             Copied(index, size, from, e, i + 1)
<1> DEFINE off == Reached(from, e, i)
           to == Reached(from, e, i + 1)
           block == from \div BlockSize + i
           at == off % BlockSize
           bytes == Bytes(index, size)
           r == Copied(index, size, from, e, i)
           n == IF at + (e - off) < BlockSize THEN e - off ELSE BlockSize - at
           more == [k \in 1 .. n |-> <<index[block], at + k - 1>>]
<1>1. /\ off \in Nat /\ to \in Nat /\ from <= off /\ off <= to /\ to <= e
      /\ block \in Nat /\ off \div BlockSize = block
      /\ to = IF at + (e - off) < BlockSize THEN e ELSE off + (BlockSize - at)
  BY ReachedBlocks
<1>2. at \in 0 .. BlockSize - 1 /\ off = (BlockSize * block) + at
  BY <1>1, DivMod
<1>3. index[block] \in 0 .. NBlocks - 1
  <2>1. e \div BlockSize <= size \div BlockSize
    BY BlocksInOrder
  <2>2. block <= e \div BlockSize
    <3>1. from \div BlockSize \in Nat /\ e \div BlockSize \in Nat
      BY DivMod
    <3> QED BY <3>1
  <2>3. e \div BlockSize \in Nat /\ size \div BlockSize \in Nat
    BY DivMod
  <2>4. block \in 0 .. size \div BlockSize
    BY <1>1, <2>1, <2>2, <2>3
  <2> QED BY <2>4 DEF OnDisk
<1>4. /\ r.offset = off /\ r.length = e - off /\ r.failed = FALSE
      /\ r.data = Piece(bytes, from, off)
  BY DEF Copied
<1>5. ~(index[block] >= NBlocks)
  BY <1>3, FilesAssumption
<1>6. Turn(r, index[block]) =
        [offset |-> off + n, length |-> (e - off) - n, failed |-> FALSE,
         data |-> Piece(bytes, from, off) \o more]
  <2> HIDE DEF r, off, bytes
  <2> QED BY <1>4, <1>5 DEF Turn
<1>7. off + n = to /\ (e - off) - n = e - to /\ n = to - off /\ n <= BlockSize - at
  <2> HIDE DEF off, to, at
  <2> QED BY <1>1, <1>2, FilesAssumption
<1>8. PICK x \in Nat, y \in Nat : x = off /\ y = to
  BY <1>1
<1>9. Piece(bytes, from, x) \o Piece(bytes, x, y) = Piece(bytes, from, y)
  <2>1. Holds(bytes, size, Place)
    BY BytesOnDisk, Zenon
  <2>2. from <= x /\ x <= y /\ y <= size
    BY <1>1, <1>8
  <2> HIDE DEF bytes
  <2>3. Joined(bytes, from, x, y)
    BY <2>1, <2>2, PiecesJoin, Zenon
  <2> QED BY <2>3 DEF Joined
<1>10. more = Piece(bytes, off, to)
  <2>1. x = (BlockSize * block) + at /\ x <= y /\ y <= size /\ y - x <= BlockSize - at
    BY <1>1, <1>2, <1>7, <1>8
  <2>2. [k \in 1 .. y - x |-> <<index[block], at + k - 1>>] = Piece(bytes, x, y)
    <3> HIDE DEF at, block
    <3>1. FromBlock(index, size, block, at, x, y)
      BY <1>1, <1>2, <2>1, PieceOfBlock, Zenon
    <3> QED BY <3>1 DEF FromBlock
  <2> HIDE DEF n, off, to, at, block, bytes
  <2> QED BY <1>7, <1>8, <2>2
<1>11. Copied(index, size, from, e, i + 1) =
         [offset |-> to, length |-> e - to, failed |-> FALSE, data |-> Piece(bytes, from, to)]
  BY DEF Copied
<1> HIDE DEF off, to, at, n, more, bytes, r
<1> QED BY <1>6, <1>7, <1>8, <1>9, <1>10, <1>11 DEF r

(* The whole loop copies all there is in front of e.                       *)
LEMMA TurnsCopy ==
    ASSUME NEW index, NEW size \in Nat, OnDisk(index, size),
           NEW from \in Nat, NEW e \in Nat, from <= e, e <= size
    PROVE  Turns(index, from \div BlockSize,
                 [offset |-> from, length |-> e - from, failed |-> FALSE, data |-> <<>>],
                 e \div BlockSize - from \div BlockSize + 1) =
             [offset |-> e, length |-> 0, failed |-> FALSE,
              data |-> Piece(Bytes(index, size), from, e)]
<1> DEFINE first == from \div BlockSize
           turns == e \div BlockSize - first + 1
           start == [offset |-> from, length |-> e - from, failed |-> FALSE, data |-> <<>>]
           g == [i \in 0 .. turns |-> Copied(index, size, from, e, i)]
           bytes == Bytes(index, size)
<1>1. first \in Nat /\ e \div BlockSize \in Nat /\ first <= e \div BlockSize
  BY BlocksInOrder, DivMod
<1>2. turns \in Nat /\ turns # 0 /\ first + turns = e \div BlockSize + 1
  BY <1>1
<1>3. Copied(index, size, from, e, 0) = start
  <2>1. Reached(from, e, 0) = from
    BY DEF Reached
  <2>2. from - from = 0 /\ 1 .. 0 = {}
    OBVIOUS
  <2>3. Piece(bytes, from, from) = <<>>
    BY <2>2 DEF Piece
  <2> HIDE DEF bytes
  <2>4. Copied(index, size, from, e, 0) = [offset |-> from, length |-> e - from, failed |-> FALSE,
                                           data |-> Piece(bytes, from, from)]
    BY <2>1 DEF Copied, bytes
  <2> QED BY <2>3, <2>4
<1>4. ASSUME NEW i \in 0 .. turns, i # 0
      PROVE  Copied(index, size, from, e, i) = Turn(g[i - 1], index[first + i - 1])
  <2>1. i - 1 \in Nat /\ i - 1 \in 0 .. turns /\ (i - 1) + 1 = i /\ first + i - 1 = first + (i - 1)
    <3> HIDE DEF first, turns
    <3> QED BY <1>1, <1>2, <1>4
  <2>2. i - 1 <= e \div BlockSize - first
    BY <1>1, <1>4
  <2>3. g[i - 1] = Copied(index, size, from, e, i - 1)
    BY <2>1
  <2> HIDE DEF g
  <2> QED BY <2>1, <2>2, <2>3, TurnCopies
<1>5. g = [i \in 0 .. turns |-> IF i = 0 THEN start ELSE Turn(g[i - 1], index[first + i - 1])]
  <2> DEFINE next == [i \in 0 .. turns |->
                        IF i = 0 THEN start ELSE Turn(g[i - 1], index[first + i - 1])]
  <2>1. \A i \in 0 .. turns : Copied(index, size, from, e, i) =
          IF i = 0 THEN start ELSE Turn(g[i - 1], index[first + i - 1])
    <3> HIDE DEF g, start
    <3> QED BY <1>3, <1>4
  <2>2. \A i \in 0 .. turns : g[i] = next[i]
    <3>1. \A i \in 0 .. turns : g[i] = Copied(index, size, from, e, i)
      OBVIOUS
    <3>2. \A i \in 0 .. turns :
            next[i] = IF i = 0 THEN start ELSE Turn(g[i - 1], index[first + i - 1])
      <4> HIDE DEF g, start
      <4> QED OBVIOUS
    <3> HIDE DEF g, next, start
    <3> QED BY <2>1, <3>1, <3>2
  <2>3. g = [i \in 0 .. turns |-> g[i]] /\ next = [i \in 0 .. turns |-> next[i]]
    <3>1. g = [i \in 0 .. turns |-> g[i]]
      OBVIOUS
    <3> HIDE DEF g, start
    <3> QED BY <3>1
  <2>4. g = next
    <3> HIDE DEF g, next
    <3> QED BY <2>2, <2>3
  <2> QED BY <2>4
<1>6. Turns(index, first, start, turns) = g[turns]
  <2> HIDE DEF g, start, turns, first
  <2> QED BY <1>2, <1>5, TurnsAre
<1>7. Reached(from, e, turns) = e
  <2>1. e < BlockSize * (first + turns)
    BY <1>2, BlocksInOrder
  <2> HIDE DEF turns
  <2> QED BY <1>2, <2>1 DEF Reached
<1>8. g[turns] = [offset |-> e, length |-> 0, failed |-> FALSE, data |-> Piece(bytes, from, e)]
  <2>1. g[turns] = Copied(index, size, from, e, turns)
    BY <1>2
  <2>2. e - e = 0
    OBVIOUS
  <2> HIDE DEF g, turns
  <2> QED BY <1>7, <2>1, <2>2 DEF Copied
<1> QED BY <1>6, <1>8

(* read_data() reads on from a place: block boundaries do not show.        *)
THEOREM ReadDataSlices ==
    ASSUME NEW inode, Inodes[inode].data_length \in Nat,
           OnDisk(Inodes[inode].data_index, Inodes[inode].data_length),
           NEW from \in Nat, NEW nbytes \in Nat
    PROVE  /\ ReadData(inode, from, nbytes) = Slice(Contents(inode), from, nbytes)
           /\ Len(ReadData(inode, from, nbytes)) \in Nat
<1> DEFINE index == Inodes[inode].data_index
           size == Inodes[inode].data_length
           all == Contents(inode)
           e == IF from + nbytes < size THEN from + nbytes ELSE size
           length == IF from + nbytes >= size THEN size - from ELSE nbytes
<1>1. all = Bytes(index, size)
  BY DEF Contents, Bytes
<1>2. size \in Nat /\ OnDisk(index, size)
  OBVIOUS
<1> HIDE DEF index, size
<1>3. Holds(all, size, Place)
  BY <1>1, <1>2, BytesOnDisk, Zenon
<1>4. Len(all) = size
  BY <1>1, <1>2 DEF Bytes
<1>5. Slice(all, from, nbytes) = SubSeq(all, from + 1, e)
  <2> HIDE DEF all
  <2> QED BY <1>4 DEF Slice
<1>6. CASE from >= size
  <2>1. ReadData(inode, from, nbytes) = <<>>
    BY <1>6 DEF ReadData, size
  <2>2. e < from + 1 /\ e \in Int
    BY <1>2, <1>6
  <2>3. Slice(all, from, nbytes) = <<>>
    <3> HIDE DEF all, e
    <3> QED BY <1>5, <2>2, SubSeqEmpty
  <2>4. Len(<<>>) = 0
    OBVIOUS
  <2> QED BY <2>1, <2>3, <2>4
<1>7. CASE from < size
  <2>1. e \in Nat /\ from <= e /\ e <= size /\ length = e - from /\ from + length = e
    BY <1>2, <1>7
  <2> DEFINE end == [offset |-> e, length |-> 0, failed |-> FALSE, data |-> Piece(all, from, e)]
             start == [offset |-> from, length |-> length, failed |-> FALSE, data |-> <<>>]
  <2>2. Turns(index, from \div BlockSize, start,
              (from + length) \div BlockSize - from \div BlockSize + 1) = end
    <3>1. Turns(index, from \div BlockSize,
                 [offset |-> from, length |-> e - from, failed |-> FALSE, data |-> <<>>],
                 e \div BlockSize - from \div BlockSize + 1) =
             [offset |-> e, length |-> 0, failed |-> FALSE,
              data |-> Piece(Bytes(index, size), from, e)]
      <4> HIDE DEF e
      <4> QED BY <1>2, <2>1, TurnsCopy
    <3> HIDE DEF e, length, all
    <3> QED BY <1>1, <2>1, <3>1
  <2>3. ReadData(inode, from, nbytes) = Piece(all, from, e)
    <3>1. ReadData(inode, from, nbytes) =
            LET t == Turns(index, from \div BlockSize, start,
                           (from + length) \div BlockSize - from \div BlockSize + 1)
            IN  IF from >= size \/ t.failed THEN <<>> ELSE t.data
      BY DEF ReadData, index, size
    <3>2. end.failed = FALSE /\ end.data = Piece(all, from, e)
      <4> HIDE DEF e, all
      <4> QED OBVIOUS
    <3>3. ~(from >= size)
      BY <1>2, <1>7
    <3> HIDE DEF end, start, e, length, all
    <3> QED BY <2>2, <3>1, <3>2, <3>3
  <2> HIDE DEF all, e, length
  <2>4. SeqOfLength(Piece(all, from, e), e - from, Place)
    <3>1. e \in Nat /\ from <= e /\ e <= size
      BY <2>1
    <3>2. from \in Nat /\ size \in Nat
      BY <1>2
    <3> QED BY <1>3, <3>1, <3>2, PieceIsSeq, Zenon
  <2>5. /\ SubSeq(all, from + 1, e) \in Seq(Place)
        /\ Len(SubSeq(all, from + 1, e)) = IF from + 1 <= e THEN e - (from + 1) + 1 ELSE 0
        /\ \A k \in 1 .. e - (from + 1) + 1 : SubSeq(all, from + 1, e)[k] = all[from + 1 + k - 1]
    <3>1. \A k \in from + 1 .. e : all[k] \in Place
      <4>1. \A k \in from + 1 .. e : k \in 1 .. size
        BY <1>2, <2>1
      <4> QED BY <1>3, <4>1 DEF Holds
    <3>2. from + 1 \in Int /\ e \in Int
      BY <2>1
    <3> QED BY <3>1, <3>2, SubSeqProperties
  <2>6. /\ (IF from + 1 <= e THEN e - (from + 1) + 1 ELSE 0) = e - from
        /\ e - (from + 1) + 1 = e - from
        /\ \A k \in 1 .. e - from : from + 1 + k - 1 = from + k
    BY <2>1
  <2>7. \A k \in 1 .. e - from : Piece(all, from, e)[k] = all[from + k]
    BY DEF Piece
  <2>8. /\ Len(SubSeq(all, from + 1, e)) = e - from
        /\ \A k \in 1 .. e - from : SubSeq(all, from + 1, e)[k] = all[from + k]
    BY <2>5, <2>6
  <2>9. Piece(all, from, e) = SubSeq(all, from + 1, e)
    BY <2>4, <2>5, <2>7, <2>8, SeqEqual DEF SeqOfLength
  <2>10. e - from \in Nat
    BY <2>1
  <2> QED BY <1>5, <2>3, <2>4, <2>9, <2>10 DEF all, SeqOfLength
<1>8. from >= size \/ from < size
  BY <1>2
<1> QED BY <1>6, <1>7, <1>8

-----------------------------------------------------------------------------
(* Reads that do not stray                                                 *)

(* A call of read(), whatever its fields hold.                             *)
IsCall(c) ==
    \E at, fd, nbytes, curr, offset, data :
        c = [at |-> at, fd |-> fd, nbytes |-> nbytes, curr |-> curr, offset |-> offset,
             data |-> data]

IsFile(inode) ==
    Inodes[inode].data_length \in Nat /\ OnDisk(Inodes[inode].data_index, Inodes[inode].data_length)

(* An entry of a file is of one on the disk, and if it is open, its        *)
(* position is how far its reads have got.                                 *)
Kept(f, n) ==
    /\ f.file_position \in Nat
    /\ f.type = "file" => IsFile(f.inode)
    /\ f.flags = 1 => n = f.file_position

(* The entries of process p are where its reads have got to, and so is the *)
(* read it is in, which uses its own PCB.                                  *)
GoesOn(p, entries, c, took) ==
    /\ \A fd \in FDs : Kept(entries[fd], took[fd])
    /\ c.at # "user" => c.fd \in FDs /\ c.nbytes \in Nat /\ entries[c.fd].flags = 1
    /\ c.at \in {"file", "data", "advance"} => entries[c.fd].type = "file"
    /\ c.at \in {"data", "advance", "offset", "store"} => c.curr = p
    /\ c.at = "advance" =>
         c.data = ReadData(entries[c.fd].inode, entries[c.fd].file_position, c.nbytes)
    /\ c.at = "store" => c.offset = entries[c.fd].file_position

CallType == DOMAIN call = Processes /\ \A p \in Processes : IsCall(call[p])
TakenType == DOMAIN taken = Processes /\ \A p \in Processes : DOMAIN taken[p] = FDs
Going(p) == GoesOn(p, file_array[p], call[p], taken[p])

OrderInv ==
    ~strayed => CallType /\ TakenType /\ \A p \in Processes : Going(p)

(* What the steps of a read write of a call.                               *)
LEMMA CallAt ==
    ASSUME NEW c, IsCall(c), NEW at
    PROVE  LET d == [c EXCEPT !.at = at]
           IN  IsCall(d) /\ d.at = at /\ d.fd = c.fd /\ d.nbytes = c.nbytes /\ d.curr = c.curr
<1> DEFINE d == [c EXCEPT !.at = at]
<1>1. PICK a, fd, nbytes, curr, offset, data :
        c = [at |-> a, fd |-> fd, nbytes |-> nbytes, curr |-> curr, offset |-> offset,
             data |-> data]
  BY DEF IsCall
<1>2. d = [at |-> at, fd |-> fd, nbytes |-> nbytes, curr |-> curr, offset |-> offset,
           data |-> data]
  BY <1>1
<1> HIDE DEF d
<1>3. IsCall(d)
  BY <1>2 DEF IsCall
<1>4. d.at = at /\ d.fd = c.fd /\ d.nbytes = c.nbytes /\ d.curr = c.curr
  BY <1>1, <1>2
<1> QED BY <1>3, <1>4 DEF d

(* The PCB ...                                                             *)
LEMMA CallCurr ==
    ASSUME NEW c, IsCall(c), NEW curr
    PROVE  LET d == [c EXCEPT !.curr = curr]
           IN  IsCall(d) /\ d.curr = curr /\ d.at = c.at /\ d.fd = c.fd /\ d.nbytes = c.nbytes
<1> DEFINE d == [c EXCEPT !.curr = curr]
<1>1. PICK at, fd, nbytes, old, offset, data :
        c = [at |-> at, fd |-> fd, nbytes |-> nbytes, curr |-> old, offset |-> offset,
             data |-> data]
  BY DEF IsCall
<1>2. d = [at |-> at, fd |-> fd, nbytes |-> nbytes, curr |-> curr, offset |-> offset,
           data |-> data]
  BY <1>1
<1> HIDE DEF d
<1>3. IsCall(d)
  BY <1>2 DEF IsCall
<1>4. d.curr = curr /\ d.at = c.at /\ d.fd = c.fd /\ d.nbytes = c.nbytes
  BY <1>1, <1>2
<1> QED BY <1>3, <1>4 DEF d

(* ... the data ...                                                        *)
LEMMA CallData ==
    ASSUME NEW c, IsCall(c), NEW data
    PROVE  LET d == [c EXCEPT !.data = data]
           IN  /\ IsCall(d) /\ d.data = data
               /\ d.at = c.at /\ d.fd = c.fd /\ d.nbytes = c.nbytes /\ d.curr = c.curr
<1> DEFINE d == [c EXCEPT !.data = data]
<1>1. PICK at, fd, nbytes, curr, offset, old :
        c = [at |-> at, fd |-> fd, nbytes |-> nbytes, curr |-> curr, offset |-> offset,
             data |-> old]
  BY DEF IsCall
<1>2. d = [at |-> at, fd |-> fd, nbytes |-> nbytes, curr |-> curr, offset |-> offset,
           data |-> data]
  BY <1>1
<1> HIDE DEF d
<1>3. IsCall(d)
  BY <1>2 DEF IsCall
<1>4. d.data = data /\ d.at = c.at /\ d.fd = c.fd /\ d.nbytes = c.nbytes /\ d.curr = c.curr
  BY <1>1, <1>2
<1> QED BY <1>3, <1>4 DEF d

(* ... and the offset.                                                     *)
LEMMA CallOffset ==
    ASSUME NEW c, IsCall(c), NEW offset
    PROVE  LET d == [c EXCEPT !.offset = offset]
           IN  /\ IsCall(d) /\ d.offset = offset
               /\ d.at = c.at /\ d.fd = c.fd /\ d.nbytes = c.nbytes /\ d.curr = c.curr
<1> DEFINE d == [c EXCEPT !.offset = offset]
<1>1. PICK at, fd, nbytes, curr, old, data :
        c = [at |-> at, fd |-> fd, nbytes |-> nbytes, curr |-> curr, offset |-> old,
             data |-> data]
  BY DEF IsCall
<1>2. d = [at |-> at, fd |-> fd, nbytes |-> nbytes, curr |-> curr, offset |-> offset,
           data |-> data]
  BY <1>1
<1> HIDE DEF d
<1>3. IsCall(d)
  BY <1>2 DEF IsCall
<1>4. d.offset = offset /\ d.at = c.at /\ d.fd = c.fd /\ d.nbytes = c.nbytes /\ d.curr = c.curr
  BY <1>1, <1>2
<1> QED BY <1>3, <1>4 DEF d

(* Whose process has done nothing goes on where it was.                    *)
LEMMA OthersGoOn ==
    ASSUME NEW q, Going(q), file_array'[q] = file_array[q], call'[q] = call[q],
           taken'[q] = taken[q]
    PROVE  Going(q)'
BY DEF Going

(* Who is in no read goes on where its entries are.                        *)
LEMMA UsersGoOn ==
    ASSUME NEW q, call'[q].at = "user", \A g \in FDs : Kept(file_array'[q][g], taken'[q][g])
    PROVE  Going(q)'
<1> DEFINE c == call'[q]
<1>1. c.at = "user"
  OBVIOUS
<1> HIDE DEF c
<1>2. GoesOn(q, file_array'[q], c, taken'[q])
  BY <1>1 DEF GoesOn
<1> QED BY <1>2 DEF Going, GoesOn, c, Kept, FDs, IsFile, OnDisk

(* open() starts at the beginning of a file, or of the directory.          *)
LEMMA OpenGoesOn ==
    ASSUME FInv, CallType, TakenType, \A q \in Processes : Going(q), Open
    PROVE  CallType' /\ TakenType' /\ \A q \in Processes : Going(q)'
<1>1. PICK d \in DOMAIN Directory, fd \in FDs :
        /\ file_array' = [file_array EXCEPT ![PcbAddr][fd] = Entry(Directory[d])]
        /\ taken' = [taken EXCEPT ![PcbAddr][fd] = 0]
  BY DEF Open
<1> DEFINE e == Entry(Directory[d])
<1>2. UNCHANGED call /\ call[PcbAddr].at = "user" /\ PcbAddr \in Processes
  BY CallerInUse DEF Open, InUser, FInv
<1>3. IsEntry(e) /\ Kept(e, 0)
  <2>1. IsEntry(e)
    BY DEF Entry, IsEntry
  <2>2. e.file_position = 0 /\ e.type = Directory[d].file_type
    BY DEF Entry
  <2>3. ASSUME e.type = "file" PROVE IsFile(e.inode)
    <3>1. e.inode = Directory[d].inode_num
      BY <2>2, <2>3 DEF Entry
    <3>2. Directory[d].file_type = "file"
      BY <2>2, <2>3
    <3> HIDE DEF e
    <3> QED BY <3>1, <3>2, DiskAssumption DEF IsFile, OnDisk
  <2> HIDE DEF e
  <2> QED BY <2>1, <2>2, <2>3 DEF Kept
<1>4. file_array' = [file_array EXCEPT ![PcbAddr] = [file_array[PcbAddr] EXCEPT ![fd] = e]]
  BY <1>1
<1> HIDE DEF e
<1>5. \A q \in Processes, g \in FDs :
        file_array'[q][g] = IF q = PcbAddr /\ g = fd THEN e ELSE file_array[q][g]
  <2>1. \A q \in Processes : file_array'[q] =
          IF q = PcbAddr THEN [file_array[q] EXCEPT ![fd] = e] ELSE file_array[q]
    BY <1>4 DEF FInv, PcbType
  <2> QED BY <2>1 DEF FInv, PcbType
<1>6. TakenType' /\ \A q \in Processes, g \in FDs :
        taken'[q][g] = IF q = PcbAddr /\ g = fd THEN 0 ELSE taken[q][g]
  BY <1>1, <1>2 DEF TakenType, FDs
<1>7. ASSUME NEW q \in Processes, q # PcbAddr PROVE Going(q)'
  <2>1. file_array'[q] = file_array[q] /\ taken'[q] = taken[q]
    BY <1>1, <1>4, <1>7 DEF FInv, PcbType, TakenType
  <2> QED BY <1>2, <2>1, OthersGoOn
<1>8. ASSUME NEW q \in Processes, q = PcbAddr PROVE Going(q)'
  <2>1. ASSUME NEW g \in FDs PROVE Kept(file_array'[q][g], taken'[q][g])
    <3>1. Kept(file_array[q][g], taken[q][g])
      BY DEF Going, GoesOn
    <3> QED BY <1>3, <1>5, <1>6, <1>8, <3>1
  <2>2. call'[q].at = "user"
    BY <1>2, <1>8
  <2> QED BY <2>1, <2>2, UsersGoOn
<1> QED BY <1>2, <1>6, <1>7, <1>8 DEF CallType

(* close() leaves nothing that is open where it was ...                    *)
LEMMA CloseGoesOn ==
    ASSUME FInv, CallType, TakenType, \A q \in Processes : Going(q), Close
    PROVE  CallType' /\ TakenType' /\ \A q \in Processes : Going(q)'
<1>1. PICK fd \in FDs :
        file_array' = [file_array EXCEPT ![PcbAddr][fd] = Reset(file_array[PcbAddr][fd])]
  BY DEF Close
<1> DEFINE e == Reset(file_array[PcbAddr][fd])
<1>2. UNCHANGED <<call, taken>> /\ call[PcbAddr].at = "user" /\ PcbAddr \in Processes
  BY CallerInUse DEF Close, InUser, FInv
<1>3. IsEntry(e) /\ e.type = "none" /\ e.file_position = 0 /\ e.flags = 0
  BY <1>2, ResetEntry DEF FInv, PcbType
<1>4. file_array' = [file_array EXCEPT ![PcbAddr] = [file_array[PcbAddr] EXCEPT ![fd] = e]]
  BY <1>1
<1> HIDE DEF e
<1>5. \A n : Kept(e, n)
  BY <1>3 DEF Kept
<1>6. \A q \in Processes, g \in FDs :
        file_array'[q][g] = IF q = PcbAddr /\ g = fd THEN e ELSE file_array[q][g]
  <2>1. \A q \in Processes : file_array'[q] =
          IF q = PcbAddr THEN [file_array[q] EXCEPT ![fd] = e] ELSE file_array[q]
    BY <1>4 DEF FInv, PcbType
  <2> QED BY <2>1 DEF FInv, PcbType
<1>7. ASSUME NEW q \in Processes, q # PcbAddr PROVE Going(q)'
  <2>1. file_array'[q] = file_array[q]
    BY <1>4, <1>7 DEF FInv, PcbType
  <2> QED BY <1>2, <2>1, OthersGoOn
<1>8. ASSUME NEW q \in Processes, q = PcbAddr PROVE Going(q)'
  <2>1. ASSUME NEW g \in FDs PROVE Kept(file_array'[q][g], taken'[q][g])
    <3>1. Kept(file_array[q][g], taken[q][g])
      BY DEF Going, GoesOn
    <3> QED BY <1>2, <1>5, <1>6, <3>1
  <2>2. call'[q].at = "user"
    BY <1>2, <1>8
  <2> QED BY <2>1, <2>2, UsersGoOn
<1> QED BY <1>2, <1>7, <1>8 DEF CallType, TakenType

(* ... and halt() nothing that is open.                                    *)
LEMMA HaltGoesOn ==
    ASSUME FInv, CallType, TakenType, \A q \in Processes : Going(q), Halt
    PROVE  CallType' /\ TakenType' /\ \A q \in Processes : Going(q)'
<1> DEFINE all == [fd \in FDs |-> [file_array[PcbAddr][fd] EXCEPT !.flags = 0]]
<1>1. UNCHANGED <<call, taken>> /\ call[PcbAddr].at = "user" /\ PcbAddr \in Processes
  BY CallerInUse DEF Halt, InUser, FInv
<1>2. file_array' = [file_array EXCEPT ![PcbAddr] = all]
  BY DEF Halt, Cleared
<1>3. ASSUME NEW fd \in FDs PROVE Kept(all[fd], taken[PcbAddr][fd])
  <2> DEFINE f == file_array[PcbAddr][fd]
             g == [f EXCEPT !.flags = 0]
  <2>1. IsEntry(f) /\ Kept(f, taken[PcbAddr][fd])
    BY <1>1 DEF FInv, PcbType, Going, GoesOn
  <2>2. all[fd] = g
    OBVIOUS
  <2> HIDE DEF f
  <2>3. g.flags = 0 /\ g.type = f.type /\ g.inode = f.inode /\ g.file_position = f.file_position
    BY <2>1, ClearedEntry
  <2> HIDE DEF g, all
  <2> QED BY <2>1, <2>2, <2>3 DEF Kept
<1> HIDE DEF all
<1>4. \A q \in Processes : file_array'[q] = IF q = PcbAddr THEN all ELSE file_array[q]
  BY <1>2 DEF FInv, PcbType
<1>5. ASSUME NEW q \in Processes, q # PcbAddr PROVE Going(q)'
  BY <1>1, <1>4, <1>5, OthersGoOn
<1>6. ASSUME NEW q \in Processes, q = PcbAddr PROVE Going(q)'
  <2>1. ASSUME NEW g \in FDs PROVE Kept(file_array'[q][g], taken'[q][g])
    BY <1>1, <1>3, <1>4, <1>6
  <2>2. call'[q].at = "user"
    BY <1>1, <1>6
  <2> QED BY <2>1, <2>2, UsersGoOn
<1> QED BY <1>1, <1>5, <1>6 DEF CallType, TakenType

(* A call of read() finds its entry open.                                  *)
LEMMA ReadGoesOn ==
    ASSUME FInv, CallType, TakenType, \A q \in Processes : Going(q), Read
    PROVE  CallType' /\ TakenType' /\ \A q \in Processes : Going(q)'
<1>1. UNCHANGED <<file_array, taken>> /\ PcbAddr \in Processes
  BY CallerInUse DEF Read, InUser, FInv
<1>2. PICK fd \in FDs, n \in Sizes :
        LET f == file_array[PcbAddr][fd]
        IN  /\ f.flags = 1
            /\ f.type \in {"dir", "file"}
            /\ call' = [call EXCEPT ![PcbAddr] =
                          [Idle EXCEPT !.at = f.type, !.fd = fd, !.nbytes = n]]
  BY DEF Read
<1> DEFINE f == file_array[PcbAddr][fd]
           g == [Idle EXCEPT !.at = f.type]
           h == [g EXCEPT !.fd = fd]
           c == [h EXCEPT !.nbytes = n]
<1>3. f.flags = 1 /\ f.type \in {"dir", "file"} /\ call' = [call EXCEPT ![PcbAddr] = c]
  BY <1>2
<1>4. /\ IsCall(c)
      /\ c.at = f.type /\ c.fd = fd /\ c.nbytes = n
  <2> HIDE DEF f
  <2>1. g = [at |-> f.type, fd |-> 0, nbytes |-> 0, curr |-> Nobody, offset |-> 0, data |-> <<>>]
    BY DEF Idle
  <2> HIDE DEF g
  <2>2. h = [at |-> f.type, fd |-> fd, nbytes |-> 0, curr |-> Nobody, offset |-> 0, data |-> <<>>]
    BY <2>1
  <2> HIDE DEF h
  <2>3. c = [at |-> f.type, fd |-> fd, nbytes |-> n, curr |-> Nobody, offset |-> 0, data |-> <<>>]
    BY <2>2
  <2> HIDE DEF c
  <2>4. IsCall(c)
    BY <2>3 DEF IsCall
  <2> QED BY <2>3, <2>4
<1> HIDE DEF c
<1>5. DOMAIN call' = Processes /\ \A q \in Processes :
        call'[q] = IF q = PcbAddr THEN c ELSE call[q]
  BY <1>3 DEF CallType
<1>6. n \in Nat
  BY FilesAssumption
<1>7. ASSUME NEW q \in Processes, q # PcbAddr PROVE Going(q)'
  BY <1>1, <1>5, <1>7, OthersGoOn
<1>8. ASSUME NEW q \in Processes, q = PcbAddr PROVE Going(q)'
  <2>1. call'[q] = c /\ f = file_array[q][fd]
    BY <1>5, <1>8
  <2>2. \A k \in FDs : Kept(file_array[q][k], taken[q][k])
    BY DEF Going, GoesOn
  <2> HIDE DEF f
  <2>3. GoesOn(q, file_array[q], c, taken[q])
    BY <1>3, <1>4, <1>6, <2>1, <2>2 DEF GoesOn
  <2> QED BY <1>1, <2>1, <2>3 DEF Going
<1>9. CallType'
  BY <1>4, <1>5 DEF CallType
<1> QED BY <1>1, <1>7, <1>8, <1>9 DEF TakenType

(* A read that does not stray takes the PCB of its own process ...         *)
LEMMA LoadPidGoesOn ==
    ASSUME FInv, CallType, TakenType, \A q \in Processes : Going(q),
           NEW p \in Processes, LoadPid(p), ~strayed'
    PROVE  CallType' /\ TakenType' /\ \A q \in Processes : Going(q)'
<1>1. UNCHANGED <<file_array, taken>> /\ pid = p
  BY DEF LoadPid
<1>2. PICK type \in {"dir", "file"} :
        /\ call[p].at = type
        /\ call' = [call EXCEPT ![p].at = IF type = "dir" THEN "offset" ELSE "data",
                                ![p].curr = pid]
  BY DEF LoadPid, At
<1> DEFINE at == IF type = "dir" THEN "offset" ELSE "data"
           c == call[p]
           g == [c EXCEPT !.at = at]
           h == [g EXCEPT !.curr = p]
<1>3. DOMAIN call' = Processes /\ \A q \in Processes : call'[q] = IF q = p THEN h ELSE call[q]
  BY <1>1, <1>2 DEF CallType
<1>4. IsCall(c)
  BY DEF CallType
<1> HIDE DEF c, at
<1>5. IsCall(g) /\ g.at = at /\ g.fd = c.fd /\ g.nbytes = c.nbytes
  BY <1>4, CallAt
<1> HIDE DEF g
<1>6. IsCall(h) /\ h.curr = p /\ h.at = at /\ h.fd = c.fd /\ h.nbytes = c.nbytes
  BY <1>5, CallCurr
<1> HIDE DEF h
<1>7. ASSUME NEW q \in Processes, q # p PROVE Going(q)'
  BY <1>1, <1>3, <1>7, OthersGoOn
<1>8. Going(p)'
  <2>1. GoesOn(p, file_array[p], c, taken[p]) /\ c.at = type /\ type \in {"dir", "file"}
    BY <1>2 DEF Going, c
  <2>2. GoesOn(p, file_array[p], h, taken[p])
    <3>1. at \in {"offset", "data"} /\ (at = "data" => c.at = "file")
      BY <2>1 DEF at
    <3> QED BY <1>6, <2>1, <3>1 DEF GoesOn
  <2> QED BY <1>1, <1>3, <2>2 DEF Going
<1>9. CallType'
  BY <1>3, <1>6 DEF CallType
<1> QED BY <1>1, <1>7, <1>8, <1>9 DEF TakenType

(* ... reads there where its entry says ...                                *)
LEMMA LoadDataGoesOn ==
    ASSUME FInv, CallType, TakenType, \A q \in Processes : Going(q),
           NEW p \in Processes, LoadData(p)
    PROVE  CallType' /\ TakenType' /\ \A q \in Processes : Going(q)'
<1> DEFINE c == call[p]
           f == file_array[p][c.fd]
           data == ReadData(f.inode, f.file_position, c.nbytes)
           g == [c EXCEPT !.at = "advance"]
           h == [g EXCEPT !.data = data]
<1>1. UNCHANGED <<file_array, taken>> /\ c.at = "data"
  BY DEF LoadData, At
<1>2. GoesOn(p, file_array[p], c, taken[p]) /\ IsCall(c)
  BY DEF Going, CallType
<1>3. c.curr = p
  <2> HIDE DEF c
  <2> QED BY <1>1, <1>2 DEF GoesOn
<1>4. call' = [call EXCEPT ![p].at = "advance", ![p].data = data]
  BY <1>3 DEF LoadData
<1> HIDE DEF data
<1>5. DOMAIN call' = Processes /\ \A q \in Processes : call'[q] = IF q = p THEN h ELSE call[q]
  BY <1>4 DEF CallType
<1> HIDE DEF c
<1>6. IsCall(g) /\ g.at = "advance" /\ g.fd = c.fd /\ g.nbytes = c.nbytes /\ g.curr = c.curr
  BY <1>2, CallAt
<1> HIDE DEF g
<1>7. /\ IsCall(h) /\ h.data = data
      /\ h.at = "advance" /\ h.fd = c.fd /\ h.nbytes = c.nbytes /\ h.curr = c.curr
  BY <1>6, CallData
<1> HIDE DEF h
<1>8. ASSUME NEW q \in Processes, q # p PROVE Going(q)'
  BY <1>1, <1>5, <1>8, OthersGoOn
<1>9. Going(p)'
  <2>1. GoesOn(p, file_array[p], h, taken[p])
    BY <1>1, <1>2, <1>7 DEF GoesOn, data
  <2> QED BY <1>1, <1>5, <2>1 DEF Going
<1>10. CallType'
  BY <1>5, <1>7 DEF CallType
<1> QED BY <1>1, <1>8, <1>9, <1>10 DEF TakenType

(* ... or takes its offset there ...                                       *)
LEMMA LoadOffsetGoesOn ==
    ASSUME FInv, CallType, TakenType, \A q \in Processes : Going(q),
           NEW p \in Processes, LoadOffset(p)
    PROVE  CallType' /\ TakenType' /\ \A q \in Processes : Going(q)'
<1> DEFINE c == call[p]
           n == file_array[p][c.fd].file_position
           g == [c EXCEPT !.at = "store"]
           h == [g EXCEPT !.offset = n]
<1>1. UNCHANGED <<file_array, taken>> /\ c.at = "offset"
  BY DEF LoadOffset, At
<1>2. GoesOn(p, file_array[p], c, taken[p]) /\ IsCall(c)
  BY DEF Going, CallType
<1>3. c.curr = p
  <2> HIDE DEF c
  <2> QED BY <1>1, <1>2 DEF GoesOn
<1>4. call' = [call EXCEPT ![p].at = "store", ![p].offset = n]
  BY <1>3 DEF LoadOffset
<1> HIDE DEF n
<1>5. DOMAIN call' = Processes /\ \A q \in Processes : call'[q] = IF q = p THEN h ELSE call[q]
  BY <1>4 DEF CallType
<1> HIDE DEF c
<1>6. IsCall(g) /\ g.at = "store" /\ g.fd = c.fd /\ g.nbytes = c.nbytes /\ g.curr = c.curr
  BY <1>2, CallAt
<1> HIDE DEF g
<1>7. /\ IsCall(h) /\ h.offset = n
      /\ h.at = "store" /\ h.fd = c.fd /\ h.nbytes = c.nbytes /\ h.curr = c.curr
  BY <1>6, CallOffset
<1> HIDE DEF h
<1>8. ASSUME NEW q \in Processes, q # p PROVE Going(q)'
  BY <1>1, <1>5, <1>8, OthersGoOn
<1>9. Going(p)'
  <2>1. GoesOn(p, file_array[p], h, taken[p])
    BY <1>1, <1>2, <1>7 DEF GoesOn, n
  <2> QED BY <1>1, <1>5, <2>1 DEF Going
<1>10. CallType'
  BY <1>5, <1>7 DEF CallType
<1> QED BY <1>1, <1>8, <1>9, <1>10 DEF TakenType

(* ... and when it moves the position on by what it returns, it is done.   *)
LEMMA MovedGoesOn ==
    ASSUME FInv, CallType, TakenType, \A q \in Processes : Going(q),
           NEW p \in Processes, NEW fd \in FDs, NEW n \in Nat,
           LET f == file_array[p][fd]
           IN  /\ f.flags = 1
               /\ file_array' = [file_array EXCEPT ![p][fd].file_position = f.file_position + n],
           taken' = [taken EXCEPT ![p][fd] = taken[p][fd] + n],
           call' = [call EXCEPT ![p] = Idle]
    PROVE  CallType' /\ TakenType' /\ \A q \in Processes : Going(q)'
<1> DEFINE f == file_array[p][fd]
           m == f.file_position + n
           e == [f EXCEPT !.file_position = m]
<1>1. file_array' = [file_array EXCEPT ![p] = [file_array[p] EXCEPT ![fd] = e]]
  OBVIOUS
<1>2. IsEntry(f) /\ Kept(f, taken[p][fd]) /\ f.flags = 1
  BY DEF FInv, PcbType, Going, GoesOn
<1>3. f.file_position \in Nat /\ m \in Nat /\ taken[p][fd] + n = m
  <2> HIDE DEF f
  <2> QED BY <1>2 DEF Kept
<1> HIDE DEF f, m
<1>4. e.file_position = m /\ e.type = f.type /\ e.inode = f.inode /\ e.flags = f.flags
  BY <1>2, MovedEntry
<1> HIDE DEF e
<1>5. Kept(e, m)
  BY <1>2, <1>3, <1>4 DEF Kept
<1>6. \A q \in Processes, g \in FDs :
        file_array'[q][g] = IF q = p /\ g = fd THEN e ELSE file_array[q][g]
  <2>1. \A q \in Processes : file_array'[q] =
          IF q = p THEN [file_array[q] EXCEPT ![fd] = e] ELSE file_array[q]
    BY <1>1 DEF FInv, PcbType
  <2> QED BY <2>1 DEF FInv, PcbType
<1>7. TakenType' /\ \A q \in Processes, g \in FDs :
        taken'[q][g] = IF q = p /\ g = fd THEN m ELSE taken[q][g]
  BY <1>3 DEF TakenType, FDs
<1>8. IsCall(Idle) /\ Idle.at = "user"
  BY DEF Idle, IsCall
<1>9. DOMAIN call' = Processes /\ \A q \in Processes : call'[q] = IF q = p THEN Idle ELSE call[q]
  BY DEF CallType
<1>10. ASSUME NEW q \in Processes, q # p PROVE Going(q)'
  <2>1. file_array'[q] = file_array[q] /\ taken'[q] = taken[q]
    BY <1>1, <1>10 DEF FInv, PcbType, TakenType
  <2> QED BY <1>9, <1>10, <2>1, OthersGoOn
<1>11. Going(p)'
  <2>1. ASSUME NEW g \in FDs PROVE Kept(file_array'[p][g], taken'[p][g])
    <3>1. Kept(file_array[p][g], taken[p][g])
      BY DEF Going, GoesOn
    <3> QED BY <1>5, <1>6, <1>7, <3>1
  <2>2. call'[p].at = "user"
    BY <1>8, <1>9
  <2> QED BY <2>1, <2>2, UsersGoOn
<1>12. CallType'
  BY <1>8, <1>9 DEF CallType
<1> QED BY <1>7, <1>10, <1>11, <1>12

(* A file is read on by as many bytes as read_data() has copied ...        *)
LEMMA AdvanceGoesOn ==
    ASSUME FInv, CallType, TakenType, \A q \in Processes : Going(q), ~strayed,
           NEW p \in Processes, Advance(p)
    PROVE  CallType' /\ TakenType' /\ \A q \in Processes : Going(q)'
<1> DEFINE c == call[p]
           f == file_array[p][c.fd]
           n == Len(c.data)
<1>1. c.at = "advance" /\ call' = [call EXCEPT ![p] = Idle]
  BY DEF Advance, At
<1>2. GoesOn(p, file_array[p], c, taken[p])
  BY DEF Going
<1>3. /\ c.curr = p /\ c.fd \in FDs /\ c.nbytes \in Nat /\ f.flags = 1 /\ f.type = "file"
      /\ c.data = ReadData(f.inode, f.file_position, c.nbytes) /\ Kept(f, taken[p][c.fd])
  <2> HIDE DEF c
  <2> QED BY <1>1, <1>2 DEF GoesOn
<1>4. n \in Nat
  <2>1. IsFile(f.inode) /\ f.file_position \in Nat /\ c.nbytes \in Nat
    BY <1>3 DEF Kept
  <2> HIDE DEF f, c
  <2>2. Len(ReadData(f.inode, f.file_position, c.nbytes)) \in Nat
    BY <2>1, ReadDataSlices DEF IsFile
  <2> QED BY <1>3, <2>2
<1>5. file_array' = [file_array EXCEPT ![p][c.fd].file_position = f.file_position + n]
  BY <1>3 DEF Advance
<1>6. taken' = [taken EXCEPT ![p][c.fd] = taken[p][c.fd] + n]
  BY DEF Advance, Took
<1> HIDE DEF c, n
<1> QED BY <1>1, <1>3, <1>4, <1>5, <1>6, MovedGoesOn

(* ... and a directory by one entry.                                       *)
LEMMA StoreGoesOn ==
    ASSUME FInv, CallType, TakenType, \A q \in Processes : Going(q), ~strayed,
           NEW p \in Processes, StoreOffset(p)
    PROVE  CallType' /\ TakenType' /\ \A q \in Processes : Going(q)'
<1> DEFINE c == call[p]
           f == file_array[p][c.fd]
<1>1. c.at = "store" /\ call' = [call EXCEPT ![p] = Idle]
  BY DEF StoreOffset, At
<1>2. GoesOn(p, file_array[p], c, taken[p])
  BY DEF Going
<1>3. c.curr = p /\ c.fd \in FDs /\ f.flags = 1 /\ c.offset = f.file_position
  <2> HIDE DEF c
  <2> QED BY <1>1, <1>2 DEF GoesOn
<1>4. file_array' = [file_array EXCEPT ![p][c.fd].file_position = f.file_position + 1]
  BY <1>3 DEF StoreOffset, NextOffset
<1>5. taken' = [taken EXCEPT ![p][c.fd] = taken[p][c.fd] + 1]
  BY DEF StoreOffset, Took
<1> HIDE DEF c
<1> QED BY <1>1, <1>3, <1>4, <1>5, MovedGoesOn

(* Nothing is open at boot, and nobody reads.                              *)
LEMMA InitOrderInv == InitFiles => OrderInv
<1> SUFFICES ASSUME InitFiles PROVE CallType /\ TakenType /\ \A p \in Processes : Going(p)
  BY DEF OrderInv
<1>1. IsCall(Idle) /\ Idle.at = "user"
  BY DEF Idle, IsCall
<1>2. Kept(Closed, 0)
  BY DEF Kept, Closed
<1>3. /\ DOMAIN call = Processes /\ \A p \in Processes : call[p] = Idle
      /\ DOMAIN taken = Processes
      /\ \A p \in Processes : DOMAIN taken[p] = FDs /\ \A fd \in FDs : taken[p][fd] = 0
      /\ \A p \in Processes, fd \in FDs : file_array[p][fd] = Closed
  BY DEF InitFiles, Nothing
<1>4. CallType /\ TakenType
  BY <1>1, <1>3 DEF CallType, TakenType
<1>5. ASSUME NEW p \in Processes PROVE Going(p)
  <2>1. \A fd \in FDs : Kept(file_array[p][fd], taken[p][fd])
    BY <1>2, <1>3
  <2> DEFINE c == call[p]
  <2>2. c.at = "user"
    BY <1>1, <1>3
  <2> HIDE DEF c
  <2>3. GoesOn(p, file_array[p], c, taken[p])
    BY <2>1, <2>2 DEF GoesOn
  <2> QED BY <2>3 DEF Going, c
<1> QED BY <1>4, <1>5

(* Ticks, calls that come and go, and the reads of others change neither   *)
(* the entries of a process nor its read, as long as no read strays.       *)
LEMMA NextOrderInv == FInv /\ OrderInv /\ [NextFiles]_allvars => OrderInv'
<1> DEFINE InOrder == CallType /\ TakenType /\ \A q \in Processes : Going(q)
<1> SUFFICES ASSUME FInv, OrderInv, [NextFiles]_allvars, ~strayed' PROVE InOrder'
  BY DEF OrderInv
<1>1. ~strayed
  <2>1. ASSUME NEW p \in Processes, ReadStep(p) PROVE strayed => strayed'
    BY <2>1 DEF ReadStep, LoadPid, LoadData, Advance, LoadOffset, StoreOffset
  <2>2. ShellStarts \/ Tick \/ Execute \/ Halt \/ Open \/ Close \/ Read \/ UNCHANGED allvars
          => strayed' = strayed
    BY DEF ShellStarts, Tick, Execute, Halt, Open, Close, Read, allvars, fdvars
  <2> QED BY <2>1, <2>2 DEF NextFiles
<1>2. CallType /\ TakenType /\ \A q \in Processes : Going(q)
  BY <1>1 DEF OrderInv
<1>3. CASE UNCHANGED <<file_array, call, taken>>
  BY <1>2, <1>3 DEF CallType, TakenType, Going
<1>4. CASE Open
  BY <1>2, <1>4, OpenGoesOn
<1>5. CASE Close
  BY <1>2, <1>5, CloseGoesOn
<1>6. CASE Halt
  BY <1>2, <1>6, HaltGoesOn
<1>7. CASE Read
  BY <1>2, <1>7, ReadGoesOn
<1>8. ASSUME NEW p \in Processes, ReadStep(p) PROVE InOrder'
  <2>1. CASE LoadPid(p)
    BY <1>2, <2>1, LoadPidGoesOn
  <2>2. CASE LoadData(p)
    BY <1>2, <2>2, LoadDataGoesOn
  <2>3. CASE Advance(p)
    BY <1>1, <1>2, <2>3, AdvanceGoesOn
  <2>4. CASE LoadOffset(p)
    BY <1>2, <2>4, LoadOffsetGoesOn
  <2>5. CASE StoreOffset(p)
    BY <1>1, <1>2, <2>5, StoreGoesOn
  <2> QED BY <1>8, <2>1, <2>2, <2>3, <2>4, <2>5 DEF ReadStep
<1>9. ShellStarts \/ Tick \/ Execute \/ UNCHANGED allvars => UNCHANGED <<file_array, call, taken>>
  BY DEF ShellStarts, Tick, Execute, allvars, fdvars
<1> QED BY <1>3, <1>4, <1>5, <1>6, <1>7, <1>8, <1>9 DEF NextFiles

(* OrderInv holds for ever.                                                *)
THEOREM OrderInvariance == SpecFiles => []OrderInv
BY InitOrderInv, NextOrderInv, FilesInvariance, PTL DEF SpecFiles

(* The reads of a descriptor return the file it was opened on, piece by    *)
(* piece, whatever their sizes, and the entries of a directory one by one, *)
(* as long as file_read() and dir_read() find their own process in pid.    *)
THEOREM InOrderSafe == SpecFiles => []InOrderUnlessStrayed
<1>1. OrderInv => InOrderUnlessStrayed
  <2> SUFFICES ASSUME OrderInv, ~strayed, NEW p \in Processes PROVE Continues(p)
    BY DEF InOrderUnlessStrayed
  <2> DEFINE c == call[p]
             f == file_array[p][c.fd]
             from == taken[p][c.fd]
  <2>1. GoesOn(p, file_array[p], c, taken[p])
    BY DEF OrderInv, Going
  <2>2. ASSUME c.at = "advance"
        PROVE  c.data = Slice(Contents(f.inode), from, c.nbytes)
    <3>1. /\ c.fd \in FDs /\ c.nbytes \in Nat /\ f.flags = 1 /\ f.type = "file"
          /\ c.data = ReadData(f.inode, f.file_position, c.nbytes) /\ Kept(f, from)
      <4> HIDE DEF c
      <4> QED BY <2>1, <2>2 DEF GoesOn
    <3> HIDE DEF f, from, c
    <3>2. IsFile(f.inode) /\ f.file_position \in Nat /\ from = f.file_position
      BY <3>1 DEF Kept
    <3>3. ReadData(f.inode, f.file_position, c.nbytes) =
            Slice(Contents(f.inode), f.file_position, c.nbytes)
      BY <3>1, <3>2, ReadDataSlices DEF IsFile
    <3> QED BY <3>1, <3>2, <3>3
  <2>3. ASSUME c.at = "store" PROVE c.offset = from
    <3>1. f.flags = 1 /\ c.offset = f.file_position /\ Kept(f, from)
      <4> HIDE DEF c
      <4> QED BY <2>1, <2>3 DEF GoesOn
    <3> HIDE DEF f, from, c
    <3> QED BY <3>1 DEF Kept
  <2> QED BY <2>2, <2>3 DEF Continues, At
<1> QED BY <1>1, OrderInvariance, PTL
=============================================================================
