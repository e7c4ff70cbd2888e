------------------------ MODULE DownloadTransfersProofs ------------------------
(***************************************************************************)
(* One transfer per item, whose .part file is its own: for any items, any  *)
(* number of invocations, and cancellations, deletions and restarts at any *)
(* moment.                                                                 *)
(***************************************************************************)
EXTENDS DownloadTransfers, TLAPS

\* The inductive invariant.  The map's entries are in step with the
\* invocations only because an invocation never changes its key.
IInv == TypeOK /\ OneTransferPerKey /\ PartsOwned

\* An event keeps the queue of events well-typed.
LEMMA EmitType ==
    ASSUME TypeOK, NEW t \in Transfers, ~At(t, "none"),
           NEW st \in Statuses, Emit(t, st)
    PROVE  events' \in Seq(Event)
<1>1. [by |-> t, key |-> KeyOf(t), status |-> st] \in Event
  BY DEF TypeOK, Event, KeyOf
<1>. QED  BY <1>1 DEF Emit, TypeOK

LEMMA InitIInv == Init => IInv
BY NoneAssumption
   DEF Init, IInv, TypeOK, OneTransferPerKey, PartsOwned, NoCall, Call,
       NoFolder, Folder, Running, Claimed, At, KeyOf

-----------------------------------------------------------------------------
(* Moving from one point of the code to the next. *)

Labels == Running \cup {"none", "returned"}

\* Transfer t is at another point, and nothing else happened to the calls.
Moved(t, label) ==
    /\ call' \in [Transfers -> Call]
    /\ call'[t].pc = label /\ call'[t].key = call[t].key
    /\ \A u \in Transfers : u # t => call'[u] = call[u]

LEMMA GotoMoves ==
    ASSUME TypeOK, NEW t \in Transfers, NEW label \in Labels, Goto(t, label)
    PROVE  Moved(t, label)
BY DEF TypeOK, Goto, Moved, Call, Labels

LEMMA LeaveMoves ==
    ASSUME TypeOK, NEW t \in Transfers, NEW label \in Labels,
           NEW ok \in BOOLEAN, Leave(t, label, ok)
    PROVE  Moved(t, label)
BY DEF TypeOK, Leave, Moved, Call, Labels

\* The invariant survives a transfer that moves on without touching the map
\* or the files, if it neither claims nor releases anything on the way.
LEMMA MoveOnly ==
    ASSUME IInv, NEW t \in Transfers, NEW label \in Labels \ {"none"},
           Moved(t, label), ~At(t, "none"),
           call[t].pc \in Claimed <=> label \in Claimed,
           call[t].pc \in Writing => label \in Writing,
           UNCHANGED <<active, commands, disk>>, events' \in Seq(Event)
    PROVE  IInv'
<1>1. TypeOK'
  BY DEF IInv, TypeOK, Moved, At, KeyOf
<1>2. OneTransferPerKey'
  BY DEF IInv, OneTransferPerKey, Moved, KeyOf
<1>3. PartsOwned'
  BY DEF IInv, PartsOwned, Moved, KeyOf
<1>. QED  BY <1>1, <1>2, <1>3 DEF IInv

-----------------------------------------------------------------------------
(* The steps of a transfer. *)

LEMMA MakeDirStep ==
    ASSUME IInv, NEW t \in Transfers, MakeDir(t)
    PROVE  IInv'
<1>. TypeOK
  BY DEF IInv
<1>1. CASE Leave(t, "returned", FALSE) /\ UNCHANGED disk
  <2>1. Moved(t, "returned")
    BY <1>1, LeaveMoves DEF Labels
  <2>. QED  BY <1>1, <2>1, MoveOnly DEF MakeDir, At, Labels, Running, Claimed, Writing, TypeOK
<1>2. CASE Goto(t, "claim") /\ disk' = [disk EXCEPT ![KeyOf(t)].dir = TRUE]
  <2>1. Moved(t, "claim")
    BY <1>2, GotoMoves DEF Labels, Running
  <2>2. /\ disk' \in [Keys -> Folder]
        /\ \A k \in Keys : disk'[k].part = disk[k].part
    BY <1>2 DEF TypeOK, Folder
  <2>3. TypeOK'
    BY <2>1, <2>2 DEF MakeDir, TypeOK, Moved, At, KeyOf
  <2>4. OneTransferPerKey'
    BY <2>1 DEF MakeDir, IInv, OneTransferPerKey, Moved, KeyOf, At, Claimed
  <2>5. PartsOwned'
    BY <2>1, <2>2 DEF MakeDir, IInv, PartsOwned, Moved, KeyOf, At, Writing
  <2>. QED  BY <2>3, <2>4, <2>5 DEF IInv
<1>. QED  BY <1>1, <1>2 DEF MakeDir

LEMMA ClaimStep ==
    ASSUME IInv, NEW t \in Transfers, Claim(t)
    PROVE  IInv'
<1>. TypeOK
  BY DEF IInv
<1>1. CASE active[KeyOf(t)] # None
  <2>1. Moved(t, "returned")
    BY <1>1, LeaveMoves DEF Claim, Labels
  <2>. QED  BY <1>1, <2>1, MoveOnly DEF Claim, At, Labels, Running, Claimed, Writing, TypeOK
<1>2. CASE active[KeyOf(t)] = None
  <2>1. Moved(t, "request") /\ active' = [active EXCEPT ![KeyOf(t)] = t]
    BY <1>2, GotoMoves DEF Claim, Labels, Running
  <2>2. KeyOf(t) \in Keys
    BY DEF Claim, TypeOK, At
  <2>3. TypeOK'
    BY <2>1 DEF Claim, TypeOK, Moved, At, KeyOf
  <2>4. OneTransferPerKey'
    BY <1>2, <2>1, <2>2, NoneAssumption
       DEF Claim, IInv, OneTransferPerKey, Moved, KeyOf, At, Claimed, TypeOK
  <2>5. PartsOwned'
    BY <2>1 DEF Claim, IInv, PartsOwned, Moved, KeyOf, At, Writing
  <2>. QED  BY <2>3, <2>4, <2>5 DEF IInv
<1>. QED  BY <1>1, <1>2

LEMMA RequestStep ==
    ASSUME IInv, NEW t \in Transfers, Request(t)
    PROVE  IInv'
<1>. TypeOK
  BY DEF IInv
<1>1. CASE Goto(t, "open") /\ UNCHANGED events
  <2>1. Moved(t, "open")
    BY <1>1, GotoMoves DEF Labels, Running
  <2>. QED  BY <1>1, <2>1, MoveOnly DEF Request, At, Labels, Running, Claimed, Writing, TypeOK
<1>2. CASE Fail(t) /\ (Emit(t, "error") \/ UNCHANGED events)
  <2>1. Moved(t, "release")
    BY <1>2, LeaveMoves DEF Fail, Labels, Running
  <2>2. events' \in Seq(Event)
    BY <1>2, EmitType DEF Request, At, Statuses, TypeOK
  <2>. QED  BY <2>1, <2>2, MoveOnly DEF Request, At, Labels, Running, Claimed, Writing
<1>. QED  BY <1>1, <1>2 DEF Request

LEMMA OpenStep ==
    ASSUME IInv, NEW t \in Transfers, Open(t)
    PROVE  IInv'
<1>. TypeOK
  BY DEF IInv
<1>1. CASE Fail(t) /\ UNCHANGED disk
  <2>1. Moved(t, "release")
    BY <1>1, LeaveMoves DEF Fail, Labels, Running
  <2>. QED  BY <1>1, <2>1, MoveOnly DEF Open, At, Labels, Running, Claimed, Writing, TypeOK
<1>2. CASE Goto(t, "stream") /\ disk' = [disk EXCEPT ![KeyOf(t)].part = t]
  <2>1. Moved(t, "stream")
    BY <1>2, GotoMoves DEF Labels, Running
  <2>2. KeyOf(t) \in Keys
    BY DEF Open, TypeOK, At
  <2>3. /\ disk' \in [Keys -> Folder]
        /\ \A k \in Keys : disk'[k].part = IF k = KeyOf(t) THEN t ELSE disk[k].part
    BY <1>2 DEF TypeOK, Folder
  <2>4. TypeOK'
    BY <2>1, <2>3 DEF Open, TypeOK, Moved, At, KeyOf
  <2>5. OneTransferPerKey'
    BY <2>1 DEF Open, IInv, OneTransferPerKey, Moved, KeyOf, At, Claimed
  <2>6. PartsOwned'
    BY <2>1, <2>2, <2>3 DEF Open, IInv, PartsOwned, Moved, KeyOf, At, Writing
  <2>. QED  BY <2>4, <2>5, <2>6 DEF IInv
<1>. QED  BY <1>1, <1>2 DEF Open

LEMMA ProgressStep ==
    ASSUME IInv, NEW t \in Transfers, Progress(t)
    PROVE  IInv'
<1>1. events' \in Seq(Event)
  BY EmitType DEF Progress, IInv, At, Statuses
<1>. QED  BY <1>1 DEF Progress, IInv, TypeOK, OneTransferPerKey, PartsOwned, At, KeyOf

LEMMA StreamFailsStep ==
    ASSUME IInv, NEW t \in Transfers, StreamFails(t)
    PROVE  IInv'
<1>. TypeOK
  BY DEF IInv
<1>1. Moved(t, "release")
  BY LeaveMoves DEF StreamFails, Fail, Labels, Running
<1>2. events' \in Seq(Event)
  BY EmitType DEF StreamFails, At, Statuses, TypeOK
<1>. QED  BY <1>1, <1>2, MoveOnly DEF StreamFails, At, Labels, Running, Claimed, Writing

LEMMA StreamCancelledStep ==
    ASSUME IInv, NEW t \in Transfers, StreamCancelled(t)
    PROVE  IInv'
<1>. TypeOK
  BY DEF IInv
<1>1. Moved(t, "release")
  BY LeaveMoves DEF StreamCancelled, Labels, Running
<1>2. events' \in Seq(Event)
  BY EmitType DEF StreamCancelled, At, Statuses
<1>. QED  BY <1>1, <1>2, MoveOnly DEF StreamCancelled, At, Labels, Running, Claimed, Writing

LEMMA CompleteStep ==
    ASSUME IInv, NEW t \in Transfers, Complete(t)
    PROVE  IInv'
<1>. TypeOK
  BY DEF IInv
<1>1. Moved(t, "release")
  BY LeaveMoves DEF Complete, Labels, Running
<1>2. events' \in Seq(Event)
  BY EmitType DEF Complete, At, Statuses
<1>. QED  BY <1>1, <1>2, MoveOnly DEF Complete, At, Labels, Running, Claimed, Writing

LEMMA StreamEndsStep ==
    ASSUME IInv, NEW t \in Transfers, StreamEnds(t)
    PROVE  IInv'
<1>. TypeOK
  BY DEF IInv
<1>1. Moved(t, "rename")
  BY GotoMoves DEF StreamEnds, Labels, Running
<1>. QED  BY <1>1, MoveOnly DEF StreamEnds, At, Labels, Running, Claimed, Writing, TypeOK

LEMMA RenameStep ==
    ASSUME IInv, NEW t \in Transfers, Rename(t)
    PROVE  IInv'
<1>. TypeOK
  BY DEF IInv
<1>1. CASE Fail(t) /\ UNCHANGED disk
  <2>1. Moved(t, "release")
    BY <1>1, LeaveMoves DEF Fail, Labels, Running
  <2>. QED  BY <1>1, <2>1, MoveOnly DEF Rename, At, Labels, Running, Claimed, Writing, TypeOK
<1>2. CASE /\ Goto(t, "complete")
           /\ disk' = [disk EXCEPT ![KeyOf(t)].part = None, ![KeyOf(t)].file = TRUE]
  <2>1. Moved(t, "complete")
    BY <1>2, GotoMoves DEF Labels, Running
  <2>2. KeyOf(t) \in Keys
    BY DEF Rename, TypeOK, At
  <2>3. /\ disk' \in [Keys -> Folder]
        /\ \A k \in Keys : disk'[k].part = IF k = KeyOf(t) THEN None ELSE disk[k].part
    BY <1>2 DEF TypeOK, Folder
  <2>4. TypeOK'
    BY <2>1, <2>3 DEF Rename, TypeOK, Moved, At, KeyOf
  <2>5. OneTransferPerKey'
    BY <2>1 DEF Rename, IInv, OneTransferPerKey, Moved, KeyOf, At, Claimed
  <2>6. PartsOwned'
    BY <2>1, <2>2, <2>3, NoneAssumption
       DEF Rename, IInv, PartsOwned, Moved, KeyOf, At, Writing
  <2>. QED  BY <2>4, <2>5, <2>6 DEF IInv
<1>. QED  BY <1>1, <1>2 DEF Rename

LEMMA ReleaseStep ==
    ASSUME IInv, NEW t \in Transfers, Release(t)
    PROVE  IInv'
<1>. TypeOK
  BY DEF IInv
<1>1. Moved(t, "unlink") /\ active' = [active EXCEPT ![KeyOf(t)] = None]
  BY GotoMoves DEF Release, Labels, Running
<1>2. KeyOf(t) \in Keys /\ active[KeyOf(t)] = t
  BY DEF Release, TypeOK, At, IInv, OneTransferPerKey, Claimed
<1>3. TypeOK'
  BY <1>1 DEF Release, TypeOK, Moved, At, KeyOf
<1>4. OneTransferPerKey'
  BY <1>1, <1>2, NoneAssumption
     DEF Release, IInv, OneTransferPerKey, Moved, KeyOf, At, Claimed, TypeOK
<1>5. PartsOwned'
  BY <1>1 DEF Release, IInv, PartsOwned, Moved, KeyOf, At, Writing
<1>. QED  BY <1>3, <1>4, <1>5 DEF IInv

LEMMA UnlinkStep ==
    ASSUME IInv, NEW t \in Transfers, Unlink(t)
    PROVE  IInv'
<1>. TypeOK
  BY DEF IInv
<1>1. Moved(t, "returned") /\ disk' = [disk EXCEPT ![KeyOf(t)].part = None]
  BY GotoMoves DEF Unlink, Labels
<1>2. KeyOf(t) \in Keys
  BY DEF Unlink, TypeOK, At
<1>3. /\ disk' \in [Keys -> Folder]
      /\ \A k \in Keys : disk'[k].part = IF k = KeyOf(t) THEN None ELSE disk[k].part
  BY <1>1 DEF TypeOK, Folder
<1>4. TypeOK'
  BY <1>1, <1>3 DEF Unlink, TypeOK, Moved, At, KeyOf
<1>5. OneTransferPerKey'
  BY <1>1 DEF Unlink, IInv, OneTransferPerKey, Moved, KeyOf, At, Claimed
<1>6. PartsOwned'
  BY <1>1, <1>2, <1>3, NoneAssumption
     DEF Unlink, IInv, PartsOwned, Moved, KeyOf, At, Writing
<1>. QED  BY <1>4, <1>5, <1>6 DEF IInv

LEMMA RunStep ==
    ASSUME IInv, NEW t \in Transfers, Run(t)
    PROVE  IInv'
BY MakeDirStep, ClaimStep, RequestStep, OpenStep, ProgressStep,
   StreamFailsStep, StreamCancelledStep, StreamEndsStep, RenameStep,
   CompleteStep, ReleaseStep, UnlinkStep DEF Run

-----------------------------------------------------------------------------
(* The other steps. *)

LEMMA SettleStep ==
    ASSUME IInv, NEW t \in Transfers, Settle(t)
    PROVE  IInv'
<1>1. /\ call' = [call EXCEPT ![t] = NoCall] /\ call[t].pc = "returned"
      /\ UNCHANGED <<active, commands, disk, events>>
  BY DEF Settle, Collect, Returned, At
<1>2. TypeOK'
  BY <1>1 DEF IInv, TypeOK, NoCall, Call, At, KeyOf
<1>3. OneTransferPerKey'
  BY <1>1 DEF IInv, TypeOK, OneTransferPerKey, NoCall, Claimed, KeyOf
<1>4. PartsOwned'
  BY <1>1 DEF IInv, TypeOK, PartsOwned, NoCall, Writing, KeyOf
<1>. QED  BY <1>2, <1>3, <1>4 DEF IInv

LEMMA InvokeStep ==
    ASSUME IInv, NEW t \in Transfers, NEW k \in Keys, Invoke(t, k)
    PROVE  IInv'
<1>1. /\ call[t].pc = "none"
      /\ call' \in [Transfers -> Call]
      /\ call'[t].pc = "start" /\ call'[t].key = k
      /\ \A u \in Transfers : u # t => call'[u] = call[u]
      /\ UNCHANGED <<active, commands, disk, events>>
  <2>1. call[t].pc = "none" /\ call[t] \in Call
    <3>1. call[t] = NoCall
      BY DEF Invoke, Begin
    <3>2. call[t] \in Call
      BY DEF IInv, TypeOK
    <3>. QED  BY <3>1, <3>2 DEF NoCall
  <2>2. call' = [call EXCEPT ![t] = [call[t] EXCEPT !.pc = "start", !.key = k]]
    BY DEF Invoke, Begin, IInv, TypeOK, Call
  <2>3. [call[t] EXCEPT !.pc = "start", !.key = k] \in Call
    BY <2>1 DEF Call, Running
  <2>. QED  BY <2>1, <2>2, <2>3 DEF Invoke, IInv, TypeOK, Call
<1>2. TypeOK'
  BY <1>1 DEF IInv, TypeOK, At, KeyOf
<1>3. OneTransferPerKey'
  BY <1>1 DEF IInv, OneTransferPerKey, Claimed, KeyOf
<1>4. PartsOwned'
  BY <1>1 DEF IInv, PartsOwned, Writing, KeyOf
<1>. QED  BY <1>2, <1>3, <1>4 DEF IInv

LEMMA CancelStep ==
    ASSUME IInv, NEW k \in Keys, Cancel(k)
    PROVE  IInv'
<1>1. /\ call' \in [Transfers -> Call]
      /\ \A t \in Transfers : call'[t].pc = call[t].pc /\ call'[t].key = call[t].key
  <2>1. CASE active[k] = None
    BY <2>1 DEF Cancel, IInv, TypeOK
  <2>2. CASE active[k] \in Transfers
    BY <2>2, NoneAssumption DEF Cancel, IInv, TypeOK, Call
  <2>. QED  BY <2>1, <2>2 DEF IInv, TypeOK
<1>2. commands' \in SUBSET Command /\ UNCHANGED <<active, disk, events>>
  BY DEF Cancel, Done, IInv, TypeOK
<1>. QED  BY <1>1, <1>2 DEF IInv, TypeOK, OneTransferPerKey, PartsOwned, At, KeyOf

LEMMA DeleteStep ==
    ASSUME IInv, NEW k \in Keys, Delete(k)
    PROVE  IInv'
<1>1. /\ disk' \in [Keys -> Folder]
      /\ \A j \in Keys : disk'[j].part \in {disk[j].part, None}
  <2>1. NoFolder \in Folder /\ NoFolder.part = None
    BY DEF NoFolder, Folder
  <2>2. CASE disk' = [disk EXCEPT ![k] = NoFolder]
    BY <2>1, <2>2 DEF IInv, TypeOK
  <2>3. CASE UNCHANGED disk
    BY <2>3 DEF IInv, TypeOK
  <2>. QED  BY <2>2, <2>3 DEF Delete
<1>2. commands' \in SUBSET Command /\ UNCHANGED <<active, call, events>>
  BY DEF Delete, Done, IInv, TypeOK
<1>3. PartsOwned'
  BY <1>1, <1>2, NoneAssumption DEF IInv, PartsOwned, KeyOf
<1>. QED  BY <1>1, <1>2, <1>3 DEF IInv, TypeOK, OneTransferPerKey, At, KeyOf

LEMMA AskStep ==
    ASSUME IInv, NEW c \in Command, Ask(c)
    PROVE  IInv'
<1>1. commands' \in SUBSET Command
  BY DEF Ask, Submit, IInv, TypeOK, Command
<1>. QED  BY <1>1 DEF Ask, IInv, TypeOK, OneTransferPerKey, PartsOwned, At, KeyOf

LEMMA ListenStep == IInv /\ Listen => IInv'
<1> SUFFICES ASSUME IInv, Listen PROVE IInv'
  OBVIOUS
<1>1. events' \in Seq(Event)
  BY DEF Listen, IInv, TypeOK
<1>. QED  BY <1>1 DEF Listen, IInv, TypeOK, OneTransferPerKey, PartsOwned, At, KeyOf

LEMMA RestartStep == IInv /\ Restart => IInv'
<1> SUFFICES ASSUME IInv, Restart PROVE IInv'
  OBVIOUS
<1>1. /\ disk' \in [Keys -> Folder]
      /\ \A k \in Keys : disk'[k].part \in {None, Stale}
  BY DEF Restart, IInv, TypeOK, Folder
<1>2. \A t \in Transfers : call'[t] = NoCall
  BY DEF Restart
<1>3. TypeOK'
  BY <1>1, <1>2 DEF Restart, TypeOK, NoCall, Call, At
<1>4. OneTransferPerKey'
  BY <1>2, NoneAssumption DEF Restart, OneTransferPerKey, NoCall, Claimed
<1>5. PartsOwned'
  BY <1>1, NoneAssumption DEF PartsOwned
<1>. QED  BY <1>3, <1>4, <1>5 DEF IInv

LEMMA NextIInv == IInv /\ [Next]_vars => IInv'
<1>1. ASSUME IInv, UNCHANGED vars PROVE IInv'
  BY <1>1 DEF vars, IInv, TypeOK, OneTransferPerKey, PartsOwned, At, KeyOf
<1>. QED  BY <1>1, RunStep, SettleStep, InvokeStep, CancelStep, DeleteStep,
             AskStep, ListenStep, RestartStep DEF Next, RunCommand

-----------------------------------------------------------------------------
\* Invocations, files and events are what the code's types say.
THEOREM TypeCorrect == Spec => []TypeOK
<1>. QED  BY InitIInv, NextIInv, PTL DEF Spec, IInv

\* The active map is in step with the transfers: whatever fails, returns
\* early or is cancelled, a key is taken by one transfer, the one whose
\* cancel sender the map holds, and is free when that has ended.
THEOREM ActiveInStep == Spec => []OneTransferPerKey
<1>. QED  BY InitIInv, NextIInv, PTL DEF Spec, IInv

\* A .part file has a transfer that will rename or remove it, or is left
\* from a process that ended.
THEOREM NoPartLeft == Spec => []PartsOwned
<1>. QED  BY InitIInv, NextIInv, PTL DEF Spec, IInv
================================================================================
