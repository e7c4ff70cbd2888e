------------------------------ MODULE Downloads -------------------------------
(***************************************************************************)
(* The download queue of the webview (src/hooks/useDownloads.ts) over the  *)
(* transfers of the desktop shell (DownloadTransfers).                     *)
(*                                                                         *)
(* JavaScript handlers run to their end, so each is one action.  A handler *)
(* that sets React's state has it applied at once to `downloads`, which    *)
(* the updaters see; what is on the screen and what the effects see is the *)
(* list of the last commit.  React runs a commit's effects before it       *)
(* renders again, and other handlers may run in between.                   *)
(*                                                                         *)
(* Byte counts, titles and messages are left out; the delays of the        *)
(* backoff are timers that fire at some time.                              *)
(***************************************************************************)
EXTENDS Naturals, FiniteSets, SequencesExt

CONSTANTS Keys, Transfers, None,
          MAX_AUTO_RETRIES,
          UserOps,  \* the operations users perform in this model
          MaxOps    \* bound: how many of them

ASSUME RetriesAssumption == MAX_AUTO_RETRIES \in Nat /\ MaxOps \in Nat

VARIABLES downloads,   \* the list, with every update applied
          shown,       \* the list of the last commit
          changed,     \* something waits to be rendered
          due,         \* the effects of the last commit have yet to run
          processing,  \* processingRef
          attempts,    \* autoRetriesRef
          timers,      \* retryTimersRef: how many timers each key has
          server,      \* a server is selected
          saved,       \* the list in localStorage
          wish,        \* what the user last asked for each item
          toasts,      \* the notices about it since then
          undone,      \* what users have done to each item besides queueing it
          ops,         \* how many operations users have performed
          active, call, commands, disk, events  \* the shell

shell   == <<active, call, commands, disk, events>>
refs    == <<processing, attempts, timers>>
history == <<wish, toasts, undone, ops>>
vars    == <<downloads, shown, changed, due, refs, server, saved, history, shell>>

Shell == INSTANCE DownloadTransfers

ASSUME TransfersAssumption == /\ None \notin Transfers
                              /\ Shell!Stale \notin Transfers \cup {None}

-----------------------------------------------------------------------------
(* The list of downloads *)

KeysOf(list) == {list[i].key : i \in DOMAIN list}

StatusIn(list, k) ==
    IF k \in KeysOf(list)
    THEN (CHOOSE i \in {list[j] : j \in DOMAIN list} : i.key = k).status
    ELSE "absent"

WithStatus(list, k, st) ==
    [i \in DOMAIN list |->
        IF list[i].key = k THEN [list[i] EXCEPT !.status = st] ELSE list[i]]

\* The list filtered: an item is in it once at most (TypeOK).
Without(list, k) == RemoveFirstMatch(list, LAMBDA item : item.key = k)

\* What is left of the saved list after a restart: a transfer that ran is
\* marked as interrupted.
Restored(list) ==
    [i \in DOMAIN list |->
        IF list[i].status = "downloading"
        THEN [list[i] EXCEPT !.status = "error"] ELSE list[i]]

\* setDownloads
Set(list) == downloads' = list /\ changed' = TRUE

Kept   == UNCHANGED <<shown, due, saved>>
\* A notice about k, of which the first two matter here.
Toast(k, kind) ==
    toasts' = [toasts EXCEPT ![k] = IF Len(@) < 2 THEN Append(@, kind) ELSE @]

\* The user wants w of k from now on.
Wishes(k, w) == /\ wish' = [wish EXCEPT ![k] = w]
                /\ toasts' = [toasts EXCEPT ![k] = <<>>]

ByUser(op, k) == /\ op \in UserOps
                 /\ ops < MaxOps /\ ops' = ops + 1
                 /\ undone' = IF op = "queue" THEN undone
                              ELSE [undone EXCEPT ![k] = @ \cup {op}]
                 /\ Kept

-----------------------------------------------------------------------------
(* React *)

Render ==
    /\ changed /\ ~due
    /\ shown' = downloads /\ changed' = FALSE /\ due' = TRUE
    /\ UNCHANGED <<downloads, refs, server, saved, history, shell>>

\* The first that waits and is not being looked after; 0 if there is none.
Waiting == SelectInSeq(shown, LAMBDA item :
                          item.status = "queued" /\ item.key \notin processing)

\* MAX_CONCURRENT is one: the slot is taken while an item is downloading.
SlotFree == \A i \in DOMAIN shown : shown[i].status # "downloading"

\* The list's items and statuses, to localStorage.
Save == saved' = shown

StartNext ==
    LET k == shown[Waiting].key IN
    /\ processing' = processing \cup {k}
    /\ Set(WithStatus(downloads, k, "downloading"))
    /\ \E t \in Transfers : Shell!Begin(t, k)

\* Mutant: the slot is not looked at.
EffectsNoSlot ==
    /\ due /\ due' = FALSE
    /\ Save
    /\ IF server /\ Waiting # 0
       THEN StartNext
       ELSE UNCHANGED <<downloads, changed, processing, call>>
    /\ UNCHANGED <<shown, attempts, timers, server, history,
                   active, commands, disk, events>>

\* The list is saved and, if a server is there, the next download starts.
Effects ==
    /\ due /\ due' = FALSE
    /\ Save
    /\ IF server /\ SlotFree /\ Waiting # 0
       THEN StartNext
       ELSE UNCHANGED <<downloads, changed, processing, call>>
    /\ UNCHANGED <<shown, attempts, timers, server, history,
                   active, commands, disk, events>>

-----------------------------------------------------------------------------
(* The shell's events and results *)

\* Mutant: whatever ends a transfer is announced as a completion.
OnProgressAlwaysToasts ==
    /\ events # <<>> /\ events' = Tail(events)
    /\ LET e == Head(events) IN
       /\ Set(WithStatus(downloads, e.key, e.status))
       /\ processing' = IF e.status = "downloading" THEN processing
                        ELSE processing \ {e.key}
       /\ attempts' = attempts
       /\ IF e.status # "downloading" THEN Toast(e.key, "success")
                                      ELSE UNCHANGED toasts
    /\ Kept
    /\ UNCHANGED <<timers, server, wish, undone, ops,
                   active, call, commands, disk>>

\* download-progress: the item takes the status of the event.
OnProgress ==
    /\ events # <<>> /\ events' = Tail(events)
    /\ LET e == Head(events) IN
       /\ Set(WithStatus(downloads, e.key, e.status))
       /\ processing' = IF e.status = "downloading" THEN processing
                        ELSE processing \ {e.key}
       /\ attempts' = IF e.status = "complete"
                      THEN [attempts EXCEPT ![e.key] = 0] ELSE attempts
       /\ IF e.status = "complete" THEN Toast(e.key, "success")
                                   ELSE UNCHANGED toasts
    /\ Kept
    /\ UNCHANGED <<timers, server, wish, undone, ops,
                   active, call, commands, disk>>

\* startDownload resolves: the events have said it all.
Resolved(t) ==
    /\ Shell!Collect(t) /\ call[t].ok
    /\ UNCHANGED <<downloads, changed, refs, server, history,
                   active, commands, disk, events>>
    /\ Kept

\* Mutant: a rejected start is always tried again.
RetryLaterForEver(k) ==
    /\ attempts' = attempts
    /\ processing' = processing \cup {k}
    /\ timers' = [timers EXCEPT ![k] = @ + 1]
    /\ Set(WithStatus(downloads, k, "queued"))
    /\ UNCHANGED toasts

\* startDownload rejects: try again after a while, or give up.
RetryLater(k) ==
    /\ attempts[k] < MAX_AUTO_RETRIES
    /\ attempts' = [attempts EXCEPT ![k] = @ + 1]
    /\ processing' = processing \cup {k}
    /\ timers' = [timers EXCEPT ![k] = @ + 1]
    /\ Set(WithStatus(downloads, k, "queued"))
    /\ UNCHANGED toasts

GiveUp(k) ==
    /\ attempts[k] >= MAX_AUTO_RETRIES
    /\ processing' = processing \ {k}
    /\ Set(WithStatus(downloads, k, "error"))
    /\ Toast(k, "failure")
    /\ UNCHANGED <<attempts, timers>>

Rejected(t) ==
    /\ Shell!Collect(t) /\ ~call[t].ok
    /\ RetryLater(call[t].key) \/ GiveUp(call[t].key)
    /\ Kept
    /\ UNCHANGED <<server, wish, undone, ops, active, commands, disk, events>>

\* Mutant: the key is not released.
TimerKeeps(k) ==
    /\ timers[k] > 0
    /\ timers' = [timers EXCEPT ![k] = @ - 1]
    /\ changed' = TRUE
    /\ Kept
    /\ UNCHANGED <<downloads, processing, attempts, server, history, shell>>

\* The backoff is over; retryTick makes the effect run again.
Timer(k) ==
    /\ timers[k] > 0
    /\ timers' = [timers EXCEPT ![k] = @ - 1]
    /\ processing' = processing \ {k}
    /\ changed' = TRUE
    /\ Kept
    /\ UNCHANGED <<downloads, attempts, server, history, shell>>

-----------------------------------------------------------------------------
(* The user *)

\* Mutant: an item that is there already is added again.
QueueDownloadTwice(k) ==
    /\ ByUser("queue", k)
    /\ attempts' = [attempts EXCEPT ![k] = 0]
    /\ Set(Append(downloads, [key |-> k, status |-> "queued"]))
    /\ Wishes(k, "want")
    /\ UNCHANGED <<processing, timers, server, shell>>

\* A button, a menu or a bulk download; the last may be confirmed late.
QueueDownload(k) ==
    /\ ByUser("queue", k)
    /\ attempts' = [attempts EXCEPT ![k] = 0]
    /\ IF k \in KeysOf(downloads)
       THEN UNCHANGED <<downloads, changed, wish, toasts>>
       ELSE /\ Set(Append(downloads, [key |-> k, status |-> "queued"]))
            /\ Wishes(k, "want")
    /\ UNCHANGED <<processing, timers, server, shell>>

CancelDownload(k) ==
    /\ ByUser("cancel", k)
    /\ StatusIn(shown, k) \in {"queued", "downloading"}
    /\ Shell!Submit("cancel", k)
    /\ Set(WithStatus(downloads, k, "cancelled"))
    /\ processing' = processing \ {k}
    /\ Wishes(k, "cancel")
    /\ UNCHANGED <<attempts, timers, server, active, call, disk, events>>

DeleteDownload(k) ==
    /\ ByUser("delete", k)
    /\ StatusIn(shown, k) # "absent"
    /\ Shell!Submit("delete", k)
    /\ Set(Without(downloads, k))
    /\ processing' = processing \ {k}
    /\ Wishes(k, "none")
    /\ UNCHANGED <<attempts, timers, server, active, call, disk, events>>

RetryDownload(k) ==
    /\ ByUser("retry", k)
    /\ StatusIn(shown, k) \in {"error", "cancelled"}
    /\ attempts' = [attempts EXCEPT ![k] = 0]
    /\ Set(WithStatus(downloads, k, "queued"))
    /\ Wishes(k, "want")
    /\ UNCHANGED <<processing, timers, server, shell>>

\* The user signs in or out: the effect runs again.
ServerChanges ==
    /\ "server" \in UserOps
    /\ ops < MaxOps /\ ops' = ops + 1
    /\ server' = ~server
    /\ changed' = TRUE
    /\ Kept
    /\ UNCHANGED <<downloads, refs, wish, toasts, undone, shell>>

\* The application ends, in whatever way, and is started again.
Restart ==
    /\ "restart" \in UserOps
    /\ ops < MaxOps /\ ops' = ops + 1
    /\ Shell!Restart
    /\ downloads' = Restored(saved) /\ changed' = TRUE
    /\ shown' = <<>> /\ due' = FALSE
    /\ processing' = {}
    /\ attempts' = [k \in Keys |-> 0]
    /\ timers' = [k \in Keys |-> 0]
    /\ wish' = [k \in Keys |-> "none"]
    /\ toasts' = [k \in Keys |-> <<>>]
    /\ UNCHANGED <<server, saved, undone>>

-----------------------------------------------------------------------------
Init == /\ downloads = <<>> /\ shown = <<>> /\ saved = <<>>
        /\ changed = FALSE /\ due = FALSE
        /\ processing = {}
        /\ attempts = [k \in Keys |-> 0]
        /\ timers = [k \in Keys |-> 0]
        /\ server = TRUE
        /\ wish = [k \in Keys |-> "none"]
        /\ toasts = [k \in Keys |-> <<>>]
        /\ undone = [k \in Keys |-> {}]
        /\ ops = 0
        /\ Shell!Init

webview == <<downloads, shown, changed, due, refs, server, saved, history>>

Transfer(t) == Shell!Run(t) /\ UNCHANGED webview
Serve(k)    == Shell!RunCommand(k) /\ UNCHANGED webview

User(k) == \/ QueueDownload(k) \/ CancelDownload(k) \/ DeleteDownload(k)
           \/ RetryDownload(k)

Next == \/ Render \/ Effects \/ OnProgress
        \/ \E t \in Transfers : Resolved(t) \/ Rejected(t) \/ Transfer(t)
        \/ \E k \in Keys : Timer(k) \/ User(k) \/ Serve(k)
        \/ ServerChanges \/ Restart

Spec == Init /\ [][Next]_vars

\* React renders, the engine delivers events, results and timers, commands
\* run, and a transfer goes on: the network answers or fails, a stream ends.
GoesOn(t) == Transfer(t) /\ ~(Shell!Progress(t) /\ UNCHANGED webview)

Fairness == /\ WF_vars(Render) /\ WF_vars(Effects) /\ WF_vars(OnProgress)
            /\ \A t \in Transfers : /\ WF_vars(Resolved(t))
                                    /\ WF_vars(Rejected(t))
                                    /\ WF_vars(GoesOn(t))
            /\ \A k \in Keys : WF_vars(Timer(k)) /\ WF_vars(Serve(k))

FairSpec == Spec /\ Fairness

-----------------------------------------------------------------------------
(* Properties. *)

Unsettled(list, k) == StatusIn(list, k) \in {"queued", "downloading"}

Item == [key : Keys, status : Shell!Statuses \cup {"queued"}]

\* No list has two items with one key.
Lists == {list \in Seq(Item) :
             \A i, j \in DOMAIN list : list[i].key = list[j].key => i = j}

TypeOK ==
    /\ downloads \in Lists /\ shown \in Lists /\ saved \in Lists
    /\ changed \in BOOLEAN /\ due \in BOOLEAN /\ server \in BOOLEAN
    /\ processing \in SUBSET Keys
    /\ attempts \in [Keys -> 0..MAX_AUTO_RETRIES]
    /\ timers \in [Keys -> Nat]
    /\ wish \in [Keys -> {"none", "want", "cancel"}]
    /\ toasts \in [Keys -> Seq({"success", "failure"})]
    /\ undone \in [Keys -> SUBSET {"cancel", "delete", "retry"}]
    /\ ops \in 0..MaxOps

\* Nothing is under way any more.
Quiet == /\ ~changed /\ ~due /\ events = <<>> /\ commands = {}
         /\ \A t \in Transfers : call[t].pc = "none"
         /\ \A k \in Keys : timers[k] = 0

\* When nothing moves, nothing waits: no item is left waiting for a slot that
\* nobody will free, or shown as downloading with no transfer behind it.
NoStall == Quiet /\ server => \A k \in Keys : ~Unsettled(downloads, k)

\* A download that is shown or saved as complete is on the disk, whatever
\* was cancelled and retried and whenever the application ended, unless the
\* user has deleted it.
CompleteOnDisk ==
    \A k \in Keys :
        /\ "complete" \in {StatusIn(downloads, k), StatusIn(saved, k)}
        /\ "delete" \notin undone[k]
        => disk[k].file

\* One transfer at a time holds a response of the Plex server open, which
\* drops the first when a second begins (useDownloads.ts:37-40).
OneGetAtATime ==
    \A t, u \in Transfers : Shell!Getting(t) /\ Shell!Getting(u) => t = u

\* That much is so: whatever fails and is tried again, two transfers are
\* only at work together when the user has interfered with one of the items.
OneGetUndisturbed ==
    \A t, u \in Transfers :
        Shell!Getting(t) /\ Shell!Getting(u) /\ t # u =>
            \E k \in {call[t].key, call[u].key} : undone[k] # {}

\* The user hears once what became of a download: of its completion, or of
\* its failure when it is not tried again, but not of both and not twice.
\* (A download that is retried or deleted and queued again by hand may end
\* more than once.)
ToldOnce ==
    \A k \in Keys : undone[k] \cap {"retry", "delete"} = {} =>
        /\ Len(toasts[k]) <= 1
        /\ Quiet /\ wish[k] = "want" /\ ~Unsettled(downloads, k) =>
              Len(toasts[k]) = 1

\* Once the users leave it alone the queue comes to rest: every item ends
\* complete, failed or cancelled, and no item is tried for ever.
QueueDrains ==
    <>[](server => \A k \in Keys : ~Unsettled(downloads, k))
=============================================================================
