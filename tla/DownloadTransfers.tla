-------------------------- MODULE DownloadTransfers ---------------------------
(***************************************************************************)
(* The desktop shell's side of downloads (src-tauri/src/downloads.rs): the *)
(* commands download_media, cancel_download and delete_download, each of   *)
(* which runs as a task of its own on a thread pool, the map of active     *)
(* transfers they share, and the files.                                    *)
(*                                                                         *)
(* One action is the code between two points at which another task can     *)
(* interfere: an await, a lock, a file operation.  How many bytes a        *)
(* transfer has is left out; a progress event that follows one which is    *)
(* still undelivered adds nothing to it.                                   *)
(***************************************************************************)
EXTENDS Naturals, Sequences, FiniteSets

CONSTANTS Keys,       \* rating keys
          Transfers,  \* invocations of download_media
          None        \* no transfer

\* The creator of a .part file, if its process is no more.
Stale == "stale"

ASSUME NoneAssumption == /\ None \notin Transfers
                         /\ Stale \notin Transfers \cup {None}

VARIABLES active,    \* DownloadManager.active: whose cancel sender a key has
          call,      \* the invocations of download_media
          commands,  \* cancel and delete commands that have not run yet
          disk,      \* each item's directory
          events     \* download-progress events under way to the webview

vars == <<active, call, commands, disk, events>>

-----------------------------------------------------------------------------
Running  == {"start", "claim", "request", "open", "stream", "rename",
             "complete", "release", "unlink"}
Call     == [pc : Running \cup {"none", "returned"}, key : Keys \cup {None},
             cancelled : BOOLEAN, ok : BOOLEAN]
NoCall   == [pc |-> "none", key |-> None, cancelled |-> FALSE, ok |-> TRUE]

Statuses == {"downloading", "complete", "error", "cancelled"}
Event    == [by : Transfers, key : Keys, status : Statuses]
Command  == [name : {"cancel", "delete"}, key : Keys]

\* part: who created the .part file.
Folder == [dir : BOOLEAN, part : Transfers \cup {None, Stale}, file : BOOLEAN]
NoFolder == [dir |-> FALSE, part |-> None, file |-> FALSE]

At(t, label) == call[t].pc = label
KeyOf(t)     == call[t].key
Goto(t, label) == call' = [call EXCEPT ![t].pc = label]

\* The function returns; the guard, if there is one by now, is dropped first.
Leave(t, label, ok) == call' = [call EXCEPT ![t].pc = label, ![t].ok = ok]
Fail(t)             == Leave(t, "release", FALSE)

\* The transfers between claiming their key and releasing it.
Claimed == {"request", "open", "stream", "rename", "complete", "release"}

\* A transfer may have a .part file from its creation to its removal, but for
\* the moment after it was renamed.
Writing == {"stream", "rename", "release", "unlink"}

\* The transfers that hold a response of the Plex server open.
Getting(t) == call[t].pc \in {"request", "open", "stream"}

Told(t, st) == \E i \in DOMAIN events : events[i].by = t /\ events[i].status = st

\* emit_progress
Emit(t, st) ==
    events' = IF st = "downloading" /\ Told(t, st) THEN events
              ELSE Append(events, [by |-> t, key |-> KeyOf(t), status |-> st])

-----------------------------------------------------------------------------
(* download_media *)

Begin(t, k) ==
    /\ call[t] = NoCall
    /\ call' = [call EXCEPT ![t].pc = "start", ![t].key = k]

\* The arguments are checked and the item's directory is created.
MakeDir(t) ==
    /\ At(t, "start")
    /\ \/ /\ disk' = [disk EXCEPT ![KeyOf(t)].dir = TRUE]
          /\ Goto(t, "claim")
       \/ /\ Leave(t, "returned", FALSE)
          /\ UNCHANGED disk
    /\ UNCHANGED <<active, commands, events>>

\* Mutant: the entry is inserted without a look.
ClaimBlindly(t) ==
    /\ At(t, "claim")
    /\ active' = [active EXCEPT ![KeyOf(t)] = t]
    /\ Goto(t, "request")
    /\ UNCHANGED <<commands, disk, events>>

\* try_claim_active
Claim(t) ==
    /\ At(t, "claim")
    /\ IF active[KeyOf(t)] = None
       THEN /\ active' = [active EXCEPT ![KeyOf(t)] = t]
            /\ Goto(t, "request")
       ELSE /\ Leave(t, "returned", FALSE)
            /\ UNCHANGED active
    /\ UNCHANGED <<commands, disk, events>>

\* The server answers, answers with an error status, or not at all.
Request(t) ==
    /\ At(t, "request")
    /\ \/ Goto(t, "open") /\ UNCHANGED events
       \/ Fail(t) /\ Emit(t, "error")
       \/ Fail(t) /\ UNCHANGED events
    /\ UNCHANGED <<active, commands, disk>>

\* File::create, which needs the directory.
Open(t) ==
    /\ At(t, "open")
    /\ \/ /\ disk[KeyOf(t)].dir
          /\ disk' = [disk EXCEPT ![KeyOf(t)].part = t]
          /\ Goto(t, "stream")
       \/ Fail(t) /\ UNCHANGED disk
    /\ UNCHANGED <<active, commands, events>>

Progress(t) ==
    /\ At(t, "stream")
    /\ Emit(t, "downloading")
    /\ UNCHANGED <<active, call, commands, disk>>

\* The stream breaks, or a chunk cannot be written.
StreamFails(t) ==
    /\ At(t, "stream")
    /\ Fail(t)
    /\ Emit(t, "error") \/ UNCHANGED events
    /\ UNCHANGED <<active, commands, disk>>

\* The cancellation, which the loop looks at along with the stream.
StreamCancelled(t) ==
    /\ At(t, "stream") /\ call[t].cancelled
    /\ Leave(t, "release", TRUE)
    /\ Emit(t, "cancelled")
    /\ UNCHANGED <<active, commands, disk>>

StreamEnds(t) ==
    /\ At(t, "stream")
    /\ Goto(t, "rename")
    /\ UNCHANGED <<active, commands, disk, events>>

\* Mutant: a failure to rename goes unnoticed.
RenameUnchecked(t) ==
    /\ At(t, "rename")
    /\ \/ disk' = [disk EXCEPT ![KeyOf(t)].part = None, ![KeyOf(t)].file = TRUE]
       \/ UNCHANGED disk
    /\ Goto(t, "complete")
    /\ UNCHANGED <<active, commands, events>>

\* flush and rename, which needs the .part file to be there still.
Rename(t) ==
    /\ At(t, "rename")
    /\ \/ /\ disk[KeyOf(t)].part # None
          /\ disk' = [disk EXCEPT ![KeyOf(t)].part = None,
                                  ![KeyOf(t)].file = TRUE]
          /\ Goto(t, "complete")
       \/ Fail(t) /\ UNCHANGED disk
    /\ UNCHANGED <<active, commands, events>>

Complete(t) ==
    /\ At(t, "complete")
    /\ Leave(t, "release", TRUE)
    /\ Emit(t, "complete")
    /\ UNCHANGED <<active, commands, disk>>

\* DownloadGuard::drop: the key, then the .part file.
Release(t) ==
    /\ At(t, "release")
    /\ active' = [active EXCEPT ![KeyOf(t)] = None]
    /\ Goto(t, "unlink")
    /\ UNCHANGED <<commands, disk, events>>

\* Mutant: no guard.
UnlinkNothing(t) ==
    /\ At(t, "unlink")
    /\ Goto(t, "returned")
    /\ UNCHANGED <<active, commands, disk, events>>

Unlink(t) ==
    /\ At(t, "unlink")
    /\ disk' = [disk EXCEPT ![KeyOf(t)].part = None]
    /\ Goto(t, "returned")
    /\ UNCHANGED <<active, commands, events>>

\* The result reaches the webview, behind the events that were emitted
\* before it.
Returned(t) == At(t, "returned") /\ \A i \in DOMAIN events : events[i].by # t
Collect(t)  == Returned(t) /\ call' = [call EXCEPT ![t] = NoCall]

-----------------------------------------------------------------------------
(* The other two commands *)

Submit(name, k) == commands' = commands \cup {[name |-> name, key |-> k]}
Done(name, k)   == /\ [name |-> name, key |-> k] \in commands
                   /\ commands' = commands \ {[name |-> name, key |-> k]}

\* cancel_download: the transfer that has the key now, if one has.
Cancel(k) ==
    /\ Done("cancel", k)
    /\ call' = IF active[k] = None THEN call
               ELSE [call EXCEPT ![active[k]].cancelled = TRUE]
    /\ UNCHANGED <<active, disk, events>>

\* delete_download: the directory with all that is in it, unless the file
\* system refuses; nobody is told of that.
Delete(k) ==
    /\ Done("delete", k)
    /\ disk' = [disk EXCEPT ![k] = NoFolder] \/ UNCHANGED disk
    /\ UNCHANGED <<active, call, events>>

\* The process ends, and starts again: what is on the disk stays.
Restart ==
    /\ active' = [k \in Keys |-> None]
    /\ call' = [t \in Transfers |-> NoCall]
    /\ commands' = {}
    /\ events' = <<>>
    /\ disk' = [k \in Keys |-> [disk[k] EXCEPT
                  !.part = IF @ = None THEN None ELSE Stale]]

-----------------------------------------------------------------------------
Init == /\ active = [k \in Keys |-> None]
        /\ call = [t \in Transfers |-> NoCall]
        /\ commands = {}
        /\ disk = [k \in Keys |-> NoFolder]
        /\ events = <<>>

\* A step of the transfer that does not wait for the webview.
Run(t) == \/ MakeDir(t) \/ Claim(t) \/ Request(t) \/ Open(t) \/ Progress(t)
          \/ StreamFails(t) \/ StreamCancelled(t) \/ StreamEnds(t)
          \/ Rename(t) \/ Complete(t) \/ Release(t) \/ Unlink(t)

RunCommand(k) == Cancel(k) \/ Delete(k)

\* A webview that may do anything at any time.
Invoke(t, k) == Begin(t, k) /\ UNCHANGED <<active, commands, disk, events>>
Settle(t)    == Collect(t) /\ UNCHANGED <<active, commands, disk, events>>
Ask(c)       == Submit(c.name, c.key) /\ UNCHANGED <<active, call, disk, events>>
Listen       == events # <<>> /\ events' = Tail(events)
                /\ UNCHANGED <<active, call, commands, disk>>

Next == \/ \E t \in Transfers : Run(t) \/ Settle(t)
        \/ \E t \in Transfers, k \in Keys : Invoke(t, k)
        \/ \E k \in Keys : RunCommand(k)
        \/ \E c \in Command : Ask(c)
        \/ Listen
        \/ Restart

Spec == Init /\ [][Next]_vars

-----------------------------------------------------------------------------
(* Properties. *)

TypeOK ==
    /\ active \in [Keys -> Transfers \cup {None}]
    /\ call \in [Transfers -> Call]
    /\ \A t \in Transfers : At(t, "none") \/ KeyOf(t) \in Keys
    /\ commands \in SUBSET Command
    /\ disk \in [Keys -> Folder]
    /\ events \in Seq(Event)

\* The map holds a key exactly while one transfer has it: two transfers never
\* write one item's .part file at once, a cancellation reaches the transfer
\* it is meant for, and no key stays taken when its transfer has ended.
OneTransferPerKey ==
    \A t \in Transfers, k \in Keys :
        active[k] = t <=> call[t].pc \in Claimed /\ KeyOf(t) = k

\* A .part file is that of a transfer which will rename or remove it, or
\* was left by a process that ended: none is left behind otherwise.
PartsOwned ==
    \A k \in Keys, t \in Transfers :
        disk[k].part = t =>
            call[t].pc \in Writing /\ KeyOf(t) = k
=============================================================================
