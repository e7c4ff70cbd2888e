---------------------------- MODULE DownloadsProofs ----------------------------
(***************************************************************************)
(* The download queue, for any items, number of invocations, of retries    *)
(* and of operations: it uses the shell as the shell expects, it never     *)
(* stalls, what it shows as complete is on the disk, transfers overlap     *)
(* only when a user interferes, and a user hears once what became of a     *)
(* download.                                                               *)
(***************************************************************************)
EXTENDS Downloads, SequenceTheorems, WellFoundedInduction, TLAPS

-----------------------------------------------------------------------------
(* Lists of downloads. *)

\* The list has k with status st.
Has(list, k, st) == \E i \in DOMAIN list : list[i].key = k /\ list[i].status = st

\* A list has an item with a key that is in it, and with no status but its own.
LEMMA StatusOfItem ==
    ASSUME NEW list \in Lists, NEW k
    PROVE  /\ k \in KeysOf(list) =>
                /\ k \in Keys
                /\ StatusIn(list, k) \in Shell!Statuses \cup {"queued"}
                /\ Has(list, k, StatusIn(list, k))
           /\ \A st : Has(list, k, st) => k \in KeysOf(list)
           /\ \A st, other : Has(list, k, st) /\ Has(list, k, other) => st = other
<1>1. /\ list \in Seq(Item)
      /\ \A i, j \in DOMAIN list : list[i].key = list[j].key => i = j
  BY DEF Lists
<1>2. \A i \in DOMAIN list : list[i] \in Item
  BY <1>1
<1>3. ASSUME k \in KeysOf(list)
      PROVE  /\ k \in Keys
             /\ StatusIn(list, k) \in Shell!Statuses \cup {"queued"}
             /\ Has(list, k, StatusIn(list, k))
  <2> DEFINE item == CHOOSE i \in {list[j] : j \in DOMAIN list} : i.key = k
  <2>1. PICK j \in DOMAIN list : item = list[j] /\ list[j].key = k
    BY <1>3 DEF KeysOf
  <2>2. StatusIn(list, k) = list[j].status
    BY <1>3, <2>1 DEF StatusIn
  <2>. QED  BY <1>2, <2>1, <2>2 DEF Has, Item
<1>. QED  BY <1>1, <1>3 DEF Has, KeysOf

\* What StatusIn says is what the list has.
LEMMA StatusInHas ==
    ASSUME NEW list \in Lists, NEW k
    PROVE  /\ \A st : Has(list, k, st) => StatusIn(list, k) = st
           /\ \A st : StatusIn(list, k) = st /\ st # "absent" => Has(list, k, st)
           /\ StatusIn(list, k) = "absent" <=> k \notin KeysOf(list)
<1>1. "absent" \notin Shell!Statuses \cup {"queued"}
  BY DEF Shell!Statuses
<1>2. k \notin KeysOf(list) => StatusIn(list, k) = "absent"
  BY DEF StatusIn
<1>. QED  BY <1>1, <1>2, StatusOfItem

\* An item's status is set in the list, and nothing else is.
LEMMA WithStatusHas ==
    ASSUME NEW list \in Lists, NEW k \in Keys,
           NEW st \in Shell!Statuses \cup {"queued"}
    PROVE  /\ WithStatus(list, k, st) \in Lists
           /\ KeysOf(WithStatus(list, k, st)) = KeysOf(list)
           /\ \A other : Has(WithStatus(list, k, st), k, other) =>
                            other = st /\ k \in KeysOf(list)
           /\ k \in KeysOf(list) => Has(WithStatus(list, k, st), k, st)
           /\ \A l, other : l # k =>
                (Has(WithStatus(list, k, st), l, other) <=> Has(list, l, other))
<1> DEFINE new == WithStatus(list, k, st)
<1>1. /\ list \in Seq(Item) /\ DOMAIN list = 1..Len(list) /\ Len(list) \in Nat
      /\ \A i, j \in DOMAIN list : list[i].key = list[j].key => i = j
      /\ \A i \in DOMAIN list : list[i] \in Item
  BY DEF Lists
<1>2. /\ DOMAIN new = DOMAIN list
      /\ \A i \in DOMAIN list :
            /\ new[i] \in Item /\ new[i].key = list[i].key
            /\ list[i].key = k => new[i].status = st
            /\ list[i].key # k => new[i] = list[i]
  <2> SUFFICES ASSUME NEW i \in DOMAIN list
               PROVE  /\ new[i] \in Item /\ new[i].key = list[i].key
                      /\ list[i].key = k => new[i].status = st
                      /\ list[i].key # k => new[i] = list[i]
    BY DEF WithStatus
  <2>1. list[i] = [key |-> list[i].key, status |-> list[i].status]
    BY <1>1 DEF Item
  <2>. QED  BY <1>1, <2>1 DEF WithStatus, Item
<1>3. new = [i \in 1..Len(list) |-> new[i]]
  BY <1>1 DEF WithStatus
<1>. HIDE DEF new
<1>4. new \in Lists
  BY <1>1, <1>2, <1>3 DEF Lists
<1>. QED  BY <1>2, <1>4 DEF new, KeysOf, Has

LEMMA WithStatusOnly ==
    ASSUME NEW list \in Lists, NEW k \in Keys,
           NEW st \in Shell!Statuses \cup {"queued"}, NEW l, NEW other,
           Has(WithStatus(list, k, st), l, other)
    PROVE  Has(list, l, other) \/ (l = k /\ other = st)
<1>1. CASE l = k
  BY <1>1, WithStatusHas
<1>2. CASE l # k
  BY <1>2, WithStatusHas
<1>. QED  BY <1>1, <1>2

\* An item that was not in the list is added to it.
LEMMA AppendHas ==
    ASSUME NEW list \in Lists, NEW k \in Keys, k \notin KeysOf(list)
    PROVE  LET new == Append(list, [key |-> k, status |-> "queued"]) IN
           /\ new \in Lists
           /\ KeysOf(new) = KeysOf(list) \cup {k}
           /\ \A other : Has(new, k, other) <=> other = "queued"
           /\ \A l, other : l # k => (Has(new, l, other) <=> Has(list, l, other))
<1> DEFINE item == [key |-> k, status |-> "queued"]
           new == Append(list, item)
<1>1. /\ list \in Seq(Item) /\ DOMAIN list = 1..Len(list) /\ Len(list) \in Nat
      /\ \A i, j \in DOMAIN list : list[i].key = list[j].key => i = j
      /\ \A i \in DOMAIN list : list[i].key # k
  BY DEF Lists, KeysOf
<1>2. item \in Item
  BY DEF Item
<1>3. /\ new \in Seq(Item) /\ DOMAIN new = 1..(Len(list) + 1)
      /\ \A i \in 1..Len(list) : new[i] = list[i]
      /\ new[Len(list) + 1] = item
  BY <1>1, <1>2, AppendProperties
<1>4. item.key = k /\ item.status = "queued"
  OBVIOUS
<1>. HIDE DEF new, item
<1>5. \A i \in DOMAIN new : \/ i \in DOMAIN list /\ new[i] = list[i]
                            \/ i = Len(list) + 1 /\ new[i] = item
  BY <1>1, <1>3
<1>6. new \in Lists
  BY <1>1, <1>3, <1>4, <1>5 DEF Lists
<1>7. DOMAIN list \subseteq DOMAIN new /\ Len(list) + 1 \in DOMAIN new
  BY <1>1, <1>3
<1>8. KeysOf(new) = KeysOf(list) \cup {k}
  BY <1>1, <1>3, <1>4, <1>5, <1>7 DEF KeysOf
<1>9. \A other : Has(new, k, other) <=> other = "queued"
  BY <1>1, <1>3, <1>4, <1>5, <1>7 DEF Has
<1>10. \A l, other : l # k => (Has(new, l, other) <=> Has(list, l, other))
  BY <1>1, <1>3, <1>4, <1>5, <1>7 DEF Has
<1>. QED  BY <1>6, <1>8, <1>9, <1>10 DEF new, item

\* A list without its i-th item.
LEMMA RemoveAtIs ==
    ASSUME NEW S, NEW list \in Seq(S), NEW i \in 1..Len(list)
    PROVE  /\ RemoveAt(list, i) \in Seq(S)
           /\ Len(RemoveAt(list, i)) = Len(list) - 1
           /\ \A j \in 1..(Len(list) - 1) :
                 RemoveAt(list, i)[j] = list[IF j < i THEN j ELSE j + 1]
<1> DEFINE l == SubSeq(list, 1, i - 1)
           r == SubSeq(list, i + 1, Len(list))
<1>1. l \in Seq(S) /\ Len(l) = i - 1 /\ \A j \in 1..(i - 1) : l[j] = list[j]
  OBVIOUS
<1>2. /\ r \in Seq(S) /\ Len(r) = Len(list) - i
      /\ \A j \in 1..(Len(list) - i) : r[j] = list[i + j]
  OBVIOUS
<1>3. RemoveAt(list, i) = l \o r
  BY DEF RemoveAt
<1>. HIDE DEF l, r
<1>4. l \o r \in Seq(S) /\ Len(l \o r) = Len(l) + Len(r)
  BY <1>1, <1>2, ConcatProperties
<1>5. \A j \in 1..Len(l \o r) :
         (l \o r)[j] = IF j <= Len(l) THEN l[j] ELSE r[j - Len(l)]
  BY <1>1, <1>2, ConcatProperties
<1>. QED  BY <1>1, <1>2, <1>3, <1>4, <1>5

\* An item is taken out of the list, if it is there.
LEMMA WithoutHas ==
    ASSUME NEW list \in Lists, NEW k
    PROVE  /\ Without(list, k) \in Lists
           /\ KeysOf(Without(list, k)) = KeysOf(list) \ {k}
           /\ \A l, other : Has(Without(list, k), l, other) <=>
                               l # k /\ Has(list, l, other)
<1>1. /\ list \in Seq(Item) /\ DOMAIN list = 1..Len(list) /\ Len(list) \in Nat
      /\ \A i, j \in DOMAIN list : list[i].key = list[j].key => i = j
  BY DEF Lists
<1>2. CASE \A i \in 1..Len(list) : list[i].key # k
  <2>1. Without(list, k) = list
    BY <1>2 DEF Without, RemoveFirstMatch
  <2>2. k \notin KeysOf(list)
    BY <1>1, <1>2 DEF KeysOf
  <2>3. \A other : ~Has(list, k, other)
    BY <1>1, <1>2 DEF Has
  <2>. QED  BY <2>1, <2>2, <2>3
<1>3. CASE \E i \in 1..Len(list) : list[i].key = k
  <2>1. PICK i \in 1..Len(list) : list[i].key = k
    BY <1>3
  <2>2. \A j \in 1..Len(list) : list[j].key = k <=> j = i
    BY <1>1, <2>1
  <2>3. SelectInSeq(list, LAMBDA item : item.key = k) = i
    <3>1. {j \in 1..Len(list) : list[j].key = k} = {i}
      BY <2>2
    <3>2. Min({i}) = i
      BY DEF Min
    <3>. QED  BY <3>1, <3>2 DEF SelectInSeq
  <2> DEFINE new == RemoveAt(list, i)
  <2>4. Without(list, k) = new
    BY <1>3, <2>3 DEF Without, RemoveFirstMatch
  <2>7. /\ new \in Seq(Item) /\ Len(new) = Len(list) - 1
        /\ \A j \in 1..(Len(list) - 1) : new[j] = list[IF j < i THEN j ELSE j + 1]
    BY <1>1, <2>1, RemoveAtIs
  <2>. HIDE DEF new
  <2>8. DOMAIN new = 1..(Len(list) - 1)
    BY <2>7
  <2>9. \A j \in DOMAIN new : new[j] = list[IF j < i THEN j ELSE j + 1]
    BY <2>7, <2>8
  <2>10. new \in Lists
    <3>1. ASSUME NEW j \in DOMAIN new, NEW m \in DOMAIN new, new[j].key = new[m].key
          PROVE  j = m
      <4> DEFINE up(n) == IF n < i THEN n ELSE n + 1
      <4>1. up(j) \in DOMAIN list /\ up(m) \in DOMAIN list
        BY <1>1, <2>1, <2>8
      <4>2. up(j) = up(m)
        BY <1>1, <2>9, <3>1, <4>1
      <4>. QED  BY <2>8, <4>2
    <3>. QED  BY <2>7, <3>1 DEF Lists
  <2>11. \A j \in DOMAIN list : j # i => \E m \in DOMAIN new : new[m] = list[j]
    <3> SUFFICES ASSUME NEW j \in DOMAIN list, j # i
                 PROVE  \E m \in DOMAIN new : new[m] = list[j]
      OBVIOUS
    <3>1. CASE j < i
      BY <1>1, <2>1, <2>8, <2>9, <3>1
    <3>2. CASE j > i
      <4>1. j - 1 \in DOMAIN new /\ ~(j - 1 < i) /\ (j - 1) + 1 = j
        BY <1>1, <2>1, <2>8, <3>2
      <4>. QED  BY <2>9, <4>1
    <3>. QED  BY <1>1, <2>1, <3>1, <3>2
  <2>12. \A m \in DOMAIN new : \E j \in DOMAIN list : j # i /\ new[m] = list[j]
    BY <1>1, <2>1, <2>8, <2>9
  <2>13. KeysOf(new) = KeysOf(list) \ {k}
    BY <1>1, <2>2, <2>11, <2>12 DEF KeysOf
  <2>14. \A m, other : Has(new, m, other) <=> m # k /\ Has(list, m, other)
    BY <1>1, <2>2, <2>11, <2>12 DEF Has
  <2>. QED  BY <2>4, <2>10, <2>13, <2>14
<1>. QED  BY <1>2, <1>3

\* After a restart no item is downloading; the others are as they were saved.
LEMMA RestoredHas ==
    ASSUME NEW list \in Lists
    PROVE  /\ Restored(list) \in Lists
           /\ KeysOf(Restored(list)) = KeysOf(list)
           /\ \A k : ~Has(Restored(list), k, "downloading")
           /\ \A k, st : st \notin {"downloading", "error"} =>
                (Has(Restored(list), k, st) <=> Has(list, k, st))
<1> DEFINE new == Restored(list)
<1>1. /\ list \in Seq(Item) /\ DOMAIN list = 1..Len(list) /\ Len(list) \in Nat
      /\ \A i, j \in DOMAIN list : list[i].key = list[j].key => i = j
      /\ \A i \in DOMAIN list : list[i] \in Item
  BY DEF Lists
<1>2. /\ DOMAIN new = DOMAIN list
      /\ \A i \in DOMAIN list :
            /\ new[i] \in Item /\ new[i].key = list[i].key
            /\ list[i].status = "downloading" => new[i].status = "error"
            /\ list[i].status # "downloading" => new[i] = list[i]
  <2> SUFFICES ASSUME NEW i \in DOMAIN list
               PROVE  /\ new[i] \in Item /\ new[i].key = list[i].key
                      /\ list[i].status = "downloading" => new[i].status = "error"
                      /\ list[i].status # "downloading" => new[i] = list[i]
    BY DEF Restored
  <2>1. list[i] = [key |-> list[i].key, status |-> list[i].status]
    BY <1>1 DEF Item
  <2>. QED  BY <1>1, <2>1 DEF Restored, Item, Shell!Statuses
<1>3. new = [i \in 1..Len(list) |-> new[i]]
  BY <1>1 DEF Restored
<1>. HIDE DEF new
<1>4. new \in Lists
  BY <1>1, <1>2, <1>3 DEF Lists
<1>. QED  BY <1>2, <1>4 DEF new, KeysOf, Has

\* A set of numbers that is not empty has a smallest.
LEMMA SmallestExists ==
    ASSUME NEW S \in SUBSET Nat, S # {}
    PROVE  \E m \in S : \A n \in S : m <= n
<1>. DEFINE less == OpToRel(<, Nat)
<1>1. \A n, m \in Nat : n < m => <<n, m>> \in less
  BY DEF OpToRel
<1>2. IsWellFoundedOn(less, Nat)
  BY NatLessThanWellFounded
<1>. HIDE DEF less
<1>3. PICK m \in S : \A n \in S : <<n, m>> \notin less
  BY <1>2, WFMin
<1>4. \A n \in S : ~(n < m)
  BY <1>1, <1>3
<1>. QED  BY <1>4

\* The item that is started is one that waits.
LEMMA WaitingWaits ==
    ASSUME shown \in Lists
    PROVE  /\ Waiting # 0 => /\ Waiting \in DOMAIN shown
                             /\ shown[Waiting].key \in Keys \ processing
                             /\ shown[Waiting].status = "queued"
           /\ Waiting = 0 => \A k : Has(shown, k, "queued") => k \in processing
<1> DEFINE I == {i \in 1..Len(shown) : shown[i].status = "queued"
                                        /\ shown[i].key \notin processing}
<1>1. /\ DOMAIN shown = 1..Len(shown) /\ Len(shown) \in Nat
      /\ \A i \in DOMAIN shown : shown[i] \in Item
  BY DEF Lists
<1>2. Waiting = IF I # {} THEN Min(I) ELSE 0
  BY DEF Waiting, SelectInSeq
<1>3. I # {} => Min(I) \in I
  <2>1. I \subseteq Nat
    BY <1>1
  <2>2. I # {} => \E m \in I : \A n \in I : m <= n
    BY <2>1, SmallestExists
  <2>. QED  BY <2>2 DEF Min
<1>4. \A i \in I : i # 0
  BY <1>1
<1>5. Waiting # 0 => Waiting \in I
  BY <1>2, <1>3
<1>6. Waiting = 0 => I = {}
  BY <1>2, <1>3, <1>4
<1>. QED  BY <1>1, <1>5, <1>6 DEF Has, Item

-----------------------------------------------------------------------------
(* The shell, whose theorems hold of the one that the queue uses. *)

Code == INSTANCE DownloadTransfersProofs

LEMMA ShellNone == Code!NoneAssumption
BY TransfersAssumption DEF Code!NoneAssumption, Code!Stale, Shell!Stale

LEMMA SameInit == Shell!Init <=> Code!Init
BY DEF Shell!Init, Shell!NoCall, Shell!NoFolder,
       Code!Init, Code!NoCall, Code!NoFolder

LEMMA SameNext == [Shell!Next]_shell <=> [Code!Next]_shell
BY Zenon
   DEF Shell!Next, Shell!Run, Shell!Settle, Shell!Invoke, Shell!RunCommand,
       Shell!Ask, Shell!Listen, Shell!Restart, Shell!MakeDir, Shell!Claim,
       Shell!Request, Shell!Open, Shell!Progress, Shell!StreamFails,
       Shell!StreamCancelled, Shell!StreamEnds, Shell!Rename, Shell!Complete,
       Shell!Release, Shell!Unlink, Shell!Collect, Shell!Returned, Shell!Begin,
       Shell!Submit, Shell!Done, Shell!Cancel, Shell!Delete, Shell!Command,
       Shell!NoCall, Shell!NoFolder, Shell!At, Shell!KeyOf, Shell!Goto,
       Shell!Leave, Shell!Fail, Shell!Told, Shell!Emit, Shell!Stale,
       Code!Next, Code!Run, Code!Settle, Code!Invoke, Code!RunCommand,
       Code!Ask, Code!Listen, Code!Restart, Code!MakeDir, Code!Claim,
       Code!Request, Code!Open, Code!Progress, Code!StreamFails,
       Code!StreamCancelled, Code!StreamEnds, Code!Rename, Code!Complete,
       Code!Release, Code!Unlink, Code!Collect, Code!Returned, Code!Begin,
       Code!Submit, Code!Done, Code!Cancel, Code!Delete, Code!Command,
       Code!NoCall, Code!NoFolder, Code!At, Code!KeyOf, Code!Goto,
       Code!Leave, Code!Fail, Code!Told, Code!Emit, Code!Stale

\* The shell's state is one it can be in.
ShellOK == Code!IInv

LEMMA ShellOKIs ==
    ShellOK <=> Shell!TypeOK /\ Shell!OneTransferPerKey /\ Shell!PartsOwned
BY DEF ShellOK, Code!IInv,
       Shell!TypeOK, Shell!OneTransferPerKey, Shell!PartsOwned, Shell!Call,
       Shell!Running, Shell!At, Shell!KeyOf, Shell!Command, Shell!Folder,
       Shell!Stale, Shell!Event, Shell!Statuses, Shell!Claimed, Shell!Writing,
       Code!TypeOK, Code!OneTransferPerKey, Code!PartsOwned, Code!Call,
       Code!Running, Code!At, Code!KeyOf, Code!Command, Code!Folder,
       Code!Stale, Code!Event, Code!Statuses, Code!Claimed, Code!Writing

LEMMA ShellInitially == Shell!Init => ShellOK
BY SameInit, ShellNone, Code!InitIInv DEF ShellOK

LEMMA ShellStays == ShellOK /\ [Shell!Next]_shell => ShellOK'
BY SameNext, ShellNone, Code!NextIInv DEF ShellOK, shell, Code!vars

-----------------------------------------------------------------------------
(* Types, and the use of the shell. *)

Typed == TypeOK /\ ShellOK

\* What is known of the shell's variables.
LEMMA ShellTypes ==
    ASSUME Typed
    PROVE  /\ active \in [Keys -> Transfers \cup {None}]
           /\ call \in [Transfers -> Shell!Call]
           /\ \A t \in Transfers : call[t].pc = "none" \/ call[t].key \in Keys
           /\ commands \in SUBSET Shell!Command
           /\ disk \in [Keys -> Shell!Folder]
           /\ events \in Seq(Shell!Event)
BY ShellOKIs DEF Typed, Shell!TypeOK, Shell!At, Shell!KeyOf

\* The first event, and the rest of them.
LEMMA FirstEvent ==
    ASSUME Typed, events # <<>>
    PROVE  /\ Head(events) = events[1] /\ 1 \in DOMAIN events
           /\ events[1].by \in Transfers /\ events[1].key \in Keys
           /\ events[1].status \in Shell!Statuses
           /\ Tail(events) \in Seq(Shell!Event)
           /\ Len(Tail(events)) = Len(events) - 1
           /\ DOMAIN Tail(events) = 1..(Len(events) - 1)
           /\ \A i \in 1..(Len(events) - 1) :
                 i + 1 \in DOMAIN events /\ Tail(events)[i] = events[i + 1]
<1>1. events \in Seq(Shell!Event)
  BY ShellTypes
<1>2. Len(events) \in Nat \ {0} /\ DOMAIN events = 1..Len(events)
  BY <1>1, EmptySeq
<1>3. events[1] \in Shell!Event
  BY <1>1, <1>2
<1>4. /\ Tail(events) \in Seq(Shell!Event) /\ Len(Tail(events)) = Len(events) - 1
      /\ \A i \in 1..Len(Tail(events)) : Tail(events)[i] = events[i + 1]
  BY <1>1, HeadTailProperties
<1>. QED  BY <1>1, <1>2, <1>3, <1>4 DEF Shell!Event

\* The effects of a commit, when they start a download and when they do not.
EffectsRun == /\ due /\ due' = FALSE /\ saved' = shown
              /\ UNCHANGED <<shown, attempts, timers, server, history,
                             active, commands, disk, events>>

Starts(t, k) == /\ k \in Keys \ processing /\ Has(shown, k, "queued")
                /\ \A l : ~Has(shown, l, "downloading")
                /\ processing' = processing \cup {k}
                /\ Set(WithStatus(downloads, k, "downloading"))
                /\ Shell!Begin(t, k)

StartsNone == /\ UNCHANGED <<downloads, changed, processing, call>>
              /\ \/ ~server
                 \/ \E k : Has(shown, k, "downloading")
                 \/ \A k : Has(shown, k, "queued") => k \in processing

LEMMA EffectsAre ==
    ASSUME TypeOK, Effects
    PROVE  /\ EffectsRun
           /\ StartsNone \/ \E t \in Transfers, k \in Keys : Starts(t, k)
<1>1. EffectsRun
  BY Zenon DEF Effects, EffectsRun, Save
<1>2. SlotFree <=> \A k : ~Has(shown, k, "downloading")
  BY DEF SlotFree, Has
<1>3. shown \in Lists
  BY DEF TypeOK
<1>4. CASE server /\ SlotFree /\ Waiting # 0
  <2>1. StartNext
    BY <1>4, Zenon DEF Effects
  <2> DEFINE k == shown[Waiting].key
  <2>2. k \in Keys \ processing /\ Has(shown, k, "queued")
    BY <1>3, <1>4, WaitingWaits DEF Has
  <2>3. /\ processing' = processing \cup {k}
        /\ Set(WithStatus(downloads, k, "downloading"))
        /\ \E t \in Transfers : Shell!Begin(t, k)
    BY <2>1, Zenon DEF StartNext
  <2>. HIDE DEF k
  <2>4. \E t \in Transfers : Starts(t, k)
    BY <1>2, <1>4, <2>2, <2>3 DEF Starts
  <2>. QED  BY <1>1, <2>2, <2>4
<1>5. CASE ~(server /\ SlotFree /\ Waiting # 0)
  <2>1. UNCHANGED <<downloads, changed, processing, call>>
    BY <1>5, Zenon DEF Effects
  <2>2. StartsNone
    BY <1>2, <1>3, <1>5, <2>1, WaitingWaits DEF StartsNone
  <2>. QED  BY <1>1, <2>2
<1>. QED  BY <1>4, <1>5

\* A step of the queue is one of the shell, or does not touch it.
LEMMA ShellStep ==
    ASSUME Typed, [Next]_vars
    PROVE  [Shell!Next]_shell
<1>1. ASSUME Render \/ ServerChanges \/ UNCHANGED vars PROVE UNCHANGED shell
  BY <1>1, Zenon DEF Render, ServerChanges, vars
<1>2. ASSUME Effects PROVE [Shell!Next]_shell
  <2>1. EffectsRun
    BY <1>2, EffectsAre DEF Typed
  <2>2. CASE StartsNone
    BY <2>1, <2>2 DEF EffectsRun, StartsNone, shell
  <2>3. ASSUME NEW t \in Transfers, NEW k \in Keys, Starts(t, k)
        PROVE  Shell!Next
    <3>1. Shell!Invoke(t, k)
      BY <2>1, <2>3 DEF EffectsRun, Starts, Shell!Invoke
    <3>. QED  BY <3>1, Zenon DEF Shell!Next
  <2>. QED  BY <1>2, <2>2, <2>3, EffectsAre DEF Typed
<1>3. ASSUME OnProgress PROVE Shell!Next
  <2>1. Shell!Listen
    BY <1>3, Zenon DEF OnProgress, Shell!Listen
  <2>. QED  BY <2>1, Zenon DEF Shell!Next
<1>4. ASSUME NEW t \in Transfers, Resolved(t) \/ Rejected(t) PROVE Shell!Next
  <2>1. Shell!Settle(t)
    BY <1>4, Zenon DEF Resolved, Rejected, Shell!Settle
  <2>. QED  BY <2>1, Zenon DEF Shell!Next
<1>5. ASSUME NEW t \in Transfers, Transfer(t) PROVE Shell!Next
  BY <1>5, Zenon DEF Transfer, Shell!Next
<1>6. ASSUME NEW k \in Keys, Serve(k) PROVE Shell!Next
  BY <1>6, Zenon DEF Serve, Shell!Next
<1>7. ASSUME NEW k \in Keys, Timer(k) \/ QueueDownload(k) \/ RetryDownload(k)
      PROVE  UNCHANGED shell
  BY <1>7, Zenon DEF Timer, QueueDownload, RetryDownload
<1>8. ASSUME NEW k \in Keys, CancelDownload(k) PROVE Shell!Next
  <2> DEFINE c == [name |-> "cancel", key |-> k]
  <2>1. c \in Shell!Command /\ c.name = "cancel" /\ c.key = k
    BY DEF Shell!Command
  <2>2. Shell!Submit("cancel", k) /\ UNCHANGED <<active, call, disk, events>>
    BY <1>8, Zenon DEF CancelDownload
  <2>. HIDE DEF c
  <2>3. Shell!Ask(c)
    BY <2>1, <2>2 DEF Shell!Ask
  <2>. QED  BY <2>1, <2>3, Zenon DEF Shell!Next
<1>9. ASSUME NEW k \in Keys, DeleteDownload(k) PROVE Shell!Next
  <2> DEFINE c == [name |-> "delete", key |-> k]
  <2>1. c \in Shell!Command /\ c.name = "delete" /\ c.key = k
    BY DEF Shell!Command
  <2>2. Shell!Submit("delete", k) /\ UNCHANGED <<active, call, disk, events>>
    BY <1>9, Zenon DEF DeleteDownload
  <2>. HIDE DEF c
  <2>3. Shell!Ask(c)
    BY <2>1, <2>2 DEF Shell!Ask
  <2>. QED  BY <2>1, <2>3, Zenon DEF Shell!Next
<1>10. ASSUME Restart PROVE Shell!Next
  BY <1>10, Zenon DEF Restart, Shell!Next
<1>. QED  BY <1>1, <1>2, <1>3, <1>4, <1>5, <1>6, <1>7, <1>8, <1>9, <1>10, Zenon
          DEF Next, User

LEMMA ToastType ==
    ASSUME TypeOK, NEW k \in Keys, NEW kind \in {"success", "failure"}, Toast(k, kind)
    PROVE  toasts' \in [Keys -> Seq({"success", "failure"})]
<1>1. \A s \in Seq({"success", "failure"}) :
         Append(s, kind) \in Seq({"success", "failure"})
  OBVIOUS
<1>. QED  BY <1>1 DEF TypeOK, Toast

LEMMA SetType ==
    ASSUME NEW list \in Lists, Set(list)
    PROVE  downloads' \in Lists /\ changed' \in BOOLEAN
BY DEF Set

\* What the user operations have in common.
LEMMA ByUserType ==
    ASSUME TypeOK, NEW op \in {"queue", "cancel", "delete", "retry"},
           NEW k \in Keys, ByUser(op, k)
    PROVE  /\ ops' \in 0..MaxOps
           /\ undone' \in [Keys -> SUBSET {"cancel", "delete", "retry"}]
           /\ shown' \in Lists /\ saved' \in Lists /\ due' \in BOOLEAN
<1>1. /\ ops < MaxOps /\ ops' = ops + 1
      /\ undone' = IF op = "queue" THEN undone
                   ELSE [undone EXCEPT ![k] = @ \cup {op}]
      /\ UNCHANGED <<shown, due, saved>>
  BY Zenon DEF ByUser, Kept
<1>. QED  BY <1>1, RetriesAssumption DEF TypeOK

LEMMA WishesType ==
    ASSUME TypeOK, NEW k \in Keys, NEW w \in {"none", "want", "cancel"}, Wishes(k, w)
    PROVE  /\ wish' \in [Keys -> {"none", "want", "cancel"}]
           /\ toasts' \in [Keys -> Seq({"success", "failure"})]
BY DEF TypeOK, Wishes

\* A result that is handed over.
LEMMA CollectIs ==
    ASSUME Typed, NEW t \in Transfers, Shell!Collect(t)
    PROVE  /\ call[t].pc = "returned" /\ call[t].key \in Keys
           /\ \A i \in DOMAIN events : events[i].by # t
           /\ call' = [call EXCEPT ![t] = Shell!NoCall]
<1>1. call[t].pc = "returned" /\ (call[t].pc = "none" \/ call[t].key \in Keys)
  BY ShellTypes DEF Shell!Collect, Shell!Returned, Shell!At
<1>. QED  BY <1>1 DEF Shell!Collect, Shell!Returned

LEMMA TypeStep ==
    ASSUME Typed, [Next]_vars
    PROVE  TypeOK'
<1>. TypeOK
  BY DEF Typed
<1>. USE DEF TypeOK
<1>1. CASE UNCHANGED vars
  <2>1. UNCHANGED <<downloads, shown, changed, due, processing, attempts, timers,
                    server, saved, wish, toasts, undone, ops>>
    BY <1>1, Zenon DEF vars, refs, history
  <2>. QED  BY <2>1
<1>2. CASE Render
  <2>1. /\ shown' = downloads /\ changed' = FALSE /\ due' = TRUE
        /\ UNCHANGED <<downloads, processing, attempts, timers,
                       server, saved, wish, toasts, undone, ops>>
    BY <1>2, Zenon DEF Render, refs, history
  <2>. QED  BY <2>1
<1>3. CASE Effects
  <2>1. /\ due' = FALSE /\ saved' = shown
        /\ UNCHANGED <<shown, attempts, timers, server, wish, toasts, undone, ops>>
    BY <1>3, EffectsAre DEF EffectsRun, history
  <2>2. CASE StartsNone
    BY <2>1, <2>2 DEF StartsNone
  <2>3. ASSUME NEW t \in Transfers, NEW k \in Keys, Starts(t, k) PROVE TypeOK'
    <3>1. WithStatus(downloads, k, "downloading") \in Lists
      BY WithStatusHas DEF Shell!Statuses
    <3>2. processing' = processing \cup {k}
          /\ downloads' \in Lists /\ changed' \in BOOLEAN
      BY <2>3, <3>1, SetType DEF Starts
    <3>. QED  BY <2>1, <3>2
  <2>. QED  BY <1>3, <2>2, <2>3, EffectsAre
<1>4. CASE OnProgress
  <2>1. /\ events # <<>>
        /\ Set(WithStatus(downloads, events[1].key, events[1].status))
        /\ processing' = IF events[1].status = "downloading" THEN processing
                         ELSE processing \ {events[1].key}
        /\ attempts' = IF events[1].status = "complete"
                       THEN [attempts EXCEPT ![events[1].key] = 0] ELSE attempts
        /\ IF events[1].status = "complete" THEN Toast(events[1].key, "success")
                                            ELSE UNCHANGED toasts
        /\ UNCHANGED <<shown, due, saved, timers, server, wish, undone, ops>>
    <3>1. events # <<>> => Head(events) = events[1]
      BY FirstEvent
    <3>. QED  BY <1>4, <3>1 DEF OnProgress, Kept
  <2>2. events[1].key \in Keys /\ events[1].status \in Shell!Statuses
    BY <2>1, FirstEvent
  <2>3. WithStatus(downloads, events[1].key, events[1].status) \in Lists
    BY <2>2, WithStatusHas
  <2>4. downloads' \in Lists /\ changed' \in BOOLEAN
    BY <2>1, <2>3, SetType
  <2>5. toasts' \in [Keys -> Seq({"success", "failure"})]
    BY <2>1, <2>2, ToastType
  <2>6. attempts' \in [Keys -> 0..MAX_AUTO_RETRIES]
    BY <2>1, <2>2, RetriesAssumption
  <2>7. processing' \in SUBSET Keys
    BY <2>1, <2>2
  <2>. QED  BY <2>1, <2>4, <2>5, <2>6, <2>7
<1>5. ASSUME NEW t \in Transfers, Resolved(t) PROVE TypeOK'
  <2>1. UNCHANGED <<downloads, shown, changed, due, processing, attempts, timers,
                    server, saved, wish, toasts, undone, ops>>
    BY <1>5, Zenon DEF Resolved, Kept, refs, history
  <2>. QED  BY <2>1
<1>6. ASSUME NEW t \in Transfers, Rejected(t) PROVE TypeOK'
  <2> DEFINE k == call[t].key
  <2>1. /\ Shell!Collect(t)
        /\ RetryLater(k) \/ GiveUp(k)
        /\ UNCHANGED <<shown, due, saved, server, wish, undone, ops>>
    BY <1>6, Zenon DEF Rejected, Kept
  <2>2. k \in Keys
    BY <2>1, CollectIs
  <2>. HIDE DEF k
  <2>3. \A st \in {"queued", "error"} : WithStatus(downloads, k, st) \in Lists
    BY <2>2, WithStatusHas DEF Shell!Statuses
  <2>4. CASE RetryLater(k)
    <3>1. downloads' \in Lists /\ changed' \in BOOLEAN
      BY <2>3, <2>4, SetType DEF RetryLater
    <3>2. attempts' \in [Keys -> 0..MAX_AUTO_RETRIES]
      BY <2>2, <2>4, RetriesAssumption DEF RetryLater
    <3>3. timers' \in [Keys -> Nat] /\ processing' \in SUBSET Keys
      BY <2>2, <2>4 DEF RetryLater
    <3>. QED  BY <2>1, <2>4, <3>1, <3>2, <3>3 DEF RetryLater
  <2>5. CASE GiveUp(k)
    <3>1. downloads' \in Lists /\ changed' \in BOOLEAN
      BY <2>3, <2>5, SetType DEF GiveUp
    <3>2. toasts' \in [Keys -> Seq({"success", "failure"})]
      BY <2>2, <2>5, ToastType DEF GiveUp
    <3>3. processing' \in SUBSET Keys
      BY <2>5 DEF GiveUp
    <3>. QED  BY <2>1, <2>5, <3>1, <3>2, <3>3 DEF GiveUp
  <2>. QED  BY <2>1, <2>4, <2>5
<1>7. ASSUME UNCHANGED webview PROVE TypeOK'
  <2>1. UNCHANGED <<downloads, shown, changed, due, processing, attempts, timers,
                    server, saved, wish, toasts, undone, ops>>
    BY <1>7, Zenon DEF webview, refs, history
  <2>. QED  BY <2>1
<1>8. ASSUME NEW k \in Keys, Timer(k) PROVE TypeOK'
  <2>1. /\ timers[k] > 0 /\ timers' = [timers EXCEPT ![k] = @ - 1]
        /\ processing' = processing \ {k} /\ changed' = TRUE
        /\ UNCHANGED <<downloads, shown, due, attempts,
                       server, saved, wish, toasts, undone, ops>>
    BY <1>8, Zenon DEF Timer, Kept, history
  <2>. QED  BY <2>1
<1>9. ASSUME NEW k \in Keys, QueueDownload(k) PROVE TypeOK'
  <2>1. /\ ByUser("queue", k)
        /\ attempts' = [attempts EXCEPT ![k] = 0]
        /\ IF k \in KeysOf(downloads)
           THEN UNCHANGED <<downloads, changed, wish, toasts>>
           ELSE /\ Set(Append(downloads, [key |-> k, status |-> "queued"]))
                /\ Wishes(k, "want")
        /\ UNCHANGED <<processing, timers, server>>
    BY <1>9, Zenon DEF QueueDownload
  <2>2. attempts' \in [Keys -> 0..MAX_AUTO_RETRIES]
    BY <2>1, RetriesAssumption
  <2>3. CASE k \in KeysOf(downloads)
    BY <2>1, <2>2, <2>3, ByUserType
  <2>4. CASE k \notin KeysOf(downloads)
    BY <2>1, <2>2, <2>4, ByUserType, WishesType, SetType, AppendHas
  <2>. QED  BY <2>3, <2>4
<1>10. ASSUME NEW k \in Keys, CancelDownload(k) PROVE TypeOK'
  <2>1. /\ ByUser("cancel", k) /\ Wishes(k, "cancel")
        /\ Set(WithStatus(downloads, k, "cancelled"))
        /\ processing' = processing \ {k}
        /\ UNCHANGED <<attempts, timers, server>>
    BY <1>10, Zenon DEF CancelDownload
  <2>2. WithStatus(downloads, k, "cancelled") \in Lists
    BY WithStatusHas DEF Shell!Statuses
  <2>. QED  BY <2>1, <2>2, ByUserType, WishesType, SetType
<1>11. ASSUME NEW k \in Keys, DeleteDownload(k) PROVE TypeOK'
  <2>1. /\ ByUser("delete", k) /\ Wishes(k, "none")
        /\ Set(Without(downloads, k))
        /\ processing' = processing \ {k}
        /\ UNCHANGED <<attempts, timers, server>>
    BY <1>11, Zenon DEF DeleteDownload
  <2>. QED  BY <2>1, WithoutHas, ByUserType, WishesType, SetType
<1>12. ASSUME NEW k \in Keys, RetryDownload(k) PROVE TypeOK'
  <2>1. /\ ByUser("retry", k) /\ Wishes(k, "want")
        /\ Set(WithStatus(downloads, k, "queued"))
        /\ attempts' = [attempts EXCEPT ![k] = 0]
        /\ UNCHANGED <<processing, timers, server>>
    BY <1>12, Zenon DEF RetryDownload
  <2>2. WithStatus(downloads, k, "queued") \in Lists
    BY WithStatusHas
  <2>3. attempts' \in [Keys -> 0..MAX_AUTO_RETRIES]
    BY <2>1, RetriesAssumption
  <2>. QED  BY <2>1, <2>2, <2>3, ByUserType, WishesType, SetType
<1>13. CASE ServerChanges
  <2>1. /\ ops < MaxOps /\ ops' = ops + 1
        /\ server' = ~server /\ changed' = TRUE
        /\ UNCHANGED <<downloads, shown, due, saved, processing, attempts, timers,
                       wish, toasts, undone>>
    BY <1>13, Zenon DEF ServerChanges, Kept, refs
  <2>. QED  BY <2>1, RetriesAssumption
<1>14. CASE Restart
  <2>1. /\ ops < MaxOps /\ ops' = ops + 1
        /\ downloads' = Restored(saved) /\ changed' = TRUE
        /\ shown' = <<>> /\ due' = FALSE /\ processing' = {}
        /\ attempts' = [k \in Keys |-> 0] /\ timers' = [k \in Keys |-> 0]
        /\ wish' = [k \in Keys |-> "none"] /\ toasts' = [k \in Keys |-> <<>>]
        /\ UNCHANGED <<server, saved, undone>>
    BY <1>14, Zenon DEF Restart
  <2>2. <<>> \in Lists
    BY DEF Lists
  <2>3. downloads' \in Lists
    BY <2>1, RestoredHas
  <2>4. toasts' \in [Keys -> Seq({"success", "failure"})]
    <3>1. <<>> \in Seq({"success", "failure"})
      OBVIOUS
    <3>. QED  BY <2>1, <3>1
  <2>5. attempts' \in [Keys -> 0..MAX_AUTO_RETRIES] /\ ops' \in 0..MaxOps
    BY <2>1, RetriesAssumption
  <2>. QED  BY <2>1, <2>2, <2>3, <2>4, <2>5
<1>. QED  BY <1>1, <1>2, <1>3, <1>4, <1>5, <1>6, <1>7, <1>8, <1>9, <1>10, <1>11,
             <1>12, <1>13, <1>14, Zenon DEF Next, User, Transfer, Serve

LEMMA TypedStep == Typed /\ [Next]_vars => Typed'
<1> SUFFICES ASSUME Typed, [Next]_vars PROVE Typed'
  OBVIOUS
<1>1. TypeOK'
  BY TypeStep
<1>2. [Shell!Next]_shell /\ ShellOK
  BY ShellStep DEF Typed
<1>. QED  BY <1>1, <1>2, ShellStays DEF Typed

LEMMA TypedInitially == Init => Typed
<1> SUFFICES ASSUME Init PROVE Typed
  OBVIOUS
<1>1. <<>> \in Lists /\ <<>> \in Seq({"success", "failure"})
  BY DEF Lists
<1>2. ShellOK
  BY ShellInitially DEF Init
<1>3. /\ attempts \in [Keys -> 0..MAX_AUTO_RETRIES] /\ timers \in [Keys -> Nat]
      /\ ops \in 0..MaxOps
  BY RetriesAssumption DEF Init
<1>4. /\ toasts \in [Keys -> Seq({"success", "failure"})]
      /\ wish \in [Keys -> {"none", "want", "cancel"}]
      /\ undone \in [Keys -> SUBSET {"cancel", "delete", "retry"}]
  BY <1>1 DEF Init
<1>5. TypeOK
  BY <1>1, <1>3, <1>4 DEF Init, TypeOK
<1>. QED  BY <1>2, <1>5 DEF Typed

\* Every variable of the queue has its type in every reachable state; no
\* list, shown or saved, has an item twice.
THEOREM QueueTypeCorrect == Spec => []TypeOK
<1>1. Typed => TypeOK
  BY DEF Typed
<1>. QED  BY <1>1, TypedInitially, TypedStep, PTL DEF Spec

\* The transfers stay in step with the active map, and no .part file is left
\* without an owner, under the webview's queue too: whatever React, the
\* events and the users do is something the shell has been proved for.
THEOREM QueueKeepsShell ==
    Spec => [](Shell!OneTransferPerKey /\ Shell!PartsOwned)
<1>1. Typed => Shell!OneTransferPerKey /\ Shell!PartsOwned
  BY ShellOKIs DEF Typed
<1>. QED  BY <1>1, TypedInitially, TypedStep, PTL DEF Spec

-----------------------------------------------------------------------------
(* What the steps of the shell do, as far as the queue depends on it. *)

\* A transfer that has ended, has told or may have told the webview, is at
\* work; k has a transfer.
Over       == {"release", "unlink", "returned"}
Sent       == {"stream", "rename", "complete"} \cup Over
Busy(t)    == call[t].pc \notin {"none"} \cup Over
Live(t, k) == call[t].key = k /\ call[t].pc # "none"
Ends(e)    == e.status # "downloading"

\* Transfer t ends with a failure or an event of its end, in one step.
Emits(t, st) ==
    /\ events' = Append(events, [by |-> t, key |-> call[t].key, status |-> st])
    /\ call[t].pc \notin Over /\ call'[t].pc \in Sent
    /\ st = "downloading" => call'[t].pc \notin Over
    /\ st # "downloading" => /\ call'[t].pc \in Over
                             /\ call'[t].ok <=> st # "error"
    /\ st = "complete" => call[t].pc = "complete"
    /\ st = "cancelled" => call[t].cancelled

EmitsNothing(t) ==
    /\ events' = events
    /\ call[t].pc \notin Over /\ call'[t].pc \in Over => ~call'[t].ok

Goes(t) ==
    /\ commands' = commands
    /\ \A u \in Transfers : u # t => call'[u] = call[u]
    /\ call'[t].key = call[t].key /\ call'[t].cancelled = call[t].cancelled
    /\ call[t].pc # "none" /\ call'[t].pc # "none"
    /\ call[t].pc \in Sent => call'[t].pc \in Sent
    /\ call[t].pc \in Over => /\ call'[t].pc \in Over
                              /\ call'[t].ok = call[t].ok
    /\ EmitsNothing(t) \/ \E st \in Shell!Statuses : Emits(t, st)
    /\ \A k \in Keys : disk[k].file => disk'[k].file
    /\ call'[t].pc = "complete" => disk'[call[t].key].file

\* The point the transfer is at, and what is left of its record.
LEMMA GotoIs ==
    ASSUME Typed, NEW t \in Transfers, NEW label, Shell!Goto(t, label)
    PROVE  /\ call'[t].pc = label /\ call'[t].key = call[t].key
           /\ call'[t].cancelled = call[t].cancelled /\ call'[t].ok = call[t].ok
           /\ \A u \in Transfers : u # t => call'[u] = call[u]
<1>1. call \in [Transfers -> Shell!Call]
  BY ShellTypes
<1>. QED  BY <1>1 DEF Shell!Goto, Shell!Call

LEMMA LeaveIs ==
    ASSUME Typed, NEW t \in Transfers, NEW label
    PROVE  /\ Shell!Leave(t, label, FALSE) \/ Shell!Leave(t, label, TRUE) =>
              /\ call'[t].pc = label /\ call'[t].key = call[t].key
              /\ call'[t].cancelled = call[t].cancelled
              /\ \A u \in Transfers : u # t => call'[u] = call[u]
           /\ Shell!Leave(t, label, FALSE) => ~call'[t].ok
           /\ Shell!Leave(t, label, TRUE) => call'[t].ok
<1>1. call \in [Transfers -> Shell!Call]
  BY ShellTypes
<1>. QED  BY <1>1 DEF Shell!Leave, Shell!Call

LEMMA GoesIs ==
    ASSUME Typed, NEW t \in Transfers, Shell!Run(t)
    PROVE  Goes(t)
<1>. USE DEF Goes, EmitsNothing, Emits, Over, Sent, Shell!At, Shell!KeyOf
<1>0. /\ disk \in [Keys -> Shell!Folder]
      /\ call[t].pc # "none" => call[t].key \in Keys
      /\ call[t].cancelled \in BOOLEAN
      /\ \A k \in Keys : disk[k].file \in BOOLEAN
  BY ShellTypes DEF Shell!Call, Shell!Folder
<1>1. CASE Shell!MakeDir(t)
  <2>1. CASE disk' = disk /\ Shell!Leave(t, "returned", FALSE)
    <3>1. /\ call'[t].pc = "returned" /\ call'[t].key = call[t].key
          /\ call'[t].cancelled = call[t].cancelled /\ ~call'[t].ok
          /\ \A u \in Transfers : u # t => call'[u] = call[u]
      BY <2>1, LeaveIs
    <3>. QED  BY <1>0, <1>1, <2>1, <3>1 DEF Shell!MakeDir
  <2>2. CASE disk' = [disk EXCEPT ![call[t].key].dir = TRUE] /\ Shell!Goto(t, "claim")
    <3>1. \A k \in Keys : disk'[k].file = disk[k].file
      BY <1>0, <2>2 DEF Shell!Folder
    <3>. QED  BY <1>0, <1>1, <2>2, <3>1, GotoIs DEF Shell!MakeDir
  <2>. QED  BY <1>1, <2>1, <2>2 DEF Shell!MakeDir
<1>2. CASE Shell!Claim(t)
  <2>1. CASE Shell!Leave(t, "returned", FALSE)
    <3>1. /\ call'[t].pc = "returned" /\ call'[t].key = call[t].key
          /\ call'[t].cancelled = call[t].cancelled /\ ~call'[t].ok
          /\ \A u \in Transfers : u # t => call'[u] = call[u]
      BY <2>1, LeaveIs
    <3>. QED  BY <1>0, <1>2, <2>1, <3>1 DEF Shell!Claim
  <2>2. CASE Shell!Goto(t, "request")
    BY <1>0, <1>2, <2>2, GotoIs DEF Shell!Claim
  <2>. QED  BY <1>2, <2>1, <2>2 DEF Shell!Claim
<1>3. CASE Shell!Request(t)
  <2>1. CASE Shell!Leave(t, "release", FALSE)
    <3>1. /\ call'[t].pc = "release" /\ call'[t].key = call[t].key
          /\ call'[t].cancelled = call[t].cancelled /\ ~call'[t].ok
          /\ \A u \in Transfers : u # t => call'[u] = call[u]
      BY <2>1, LeaveIs
    <3>. QED  BY <1>0, <1>3, <2>1, <3>1 DEF Shell!Request, Shell!Emit, Shell!Statuses, Shell!Goto
  <2>2. CASE Shell!Goto(t, "open") /\ UNCHANGED events
    BY <1>0, <1>3, <2>2, GotoIs DEF Shell!Request
  <2>. QED  BY <1>3, <2>1, <2>2 DEF Shell!Request, Shell!Fail
<1>4. CASE Shell!Open(t)
  <2>1. CASE Shell!Leave(t, "release", FALSE) /\ UNCHANGED disk
    <3>1. /\ call'[t].pc = "release" /\ call'[t].key = call[t].key
          /\ call'[t].cancelled = call[t].cancelled /\ ~call'[t].ok
          /\ \A u \in Transfers : u # t => call'[u] = call[u]
      BY <2>1, LeaveIs
    <3>. QED  BY <1>0, <1>4, <2>1, <3>1 DEF Shell!Open
  <2>2. CASE disk' = [disk EXCEPT ![call[t].key].part = t] /\ Shell!Goto(t, "stream")
    <3>1. \A k \in Keys : disk'[k].file = disk[k].file
      BY <1>0, <2>2 DEF Shell!Folder
    <3>. QED  BY <1>0, <1>4, <2>2, <3>1, GotoIs DEF Shell!Open
  <2>. QED  BY <1>4, <2>1, <2>2 DEF Shell!Open, Shell!Fail
<1>5. CASE Shell!Progress(t)
  BY <1>0, <1>5 DEF Shell!Progress, Shell!Emit, Shell!Statuses
<1>6. CASE Shell!StreamFails(t)
  <2>1. Shell!Leave(t, "release", FALSE)
    BY <1>6 DEF Shell!StreamFails, Shell!Fail
  <2>2. /\ call'[t].pc = "release" /\ call'[t].key = call[t].key
        /\ call'[t].cancelled = call[t].cancelled /\ ~call'[t].ok
        /\ \A u \in Transfers : u # t => call'[u] = call[u]
    BY <2>1, LeaveIs
  <2>. QED  BY <1>0, <1>6, <2>2 DEF Shell!StreamFails, Shell!Emit, Shell!Statuses
<1>7. CASE Shell!StreamCancelled(t)
  <2>1. Shell!Leave(t, "release", TRUE)
    BY <1>7 DEF Shell!StreamCancelled
  <2>. QED  BY <1>0, <1>7, <2>1, LeaveIs DEF Shell!StreamCancelled, Shell!Emit, Shell!Statuses
<1>8. CASE Shell!StreamEnds(t)
  BY <1>0, <1>8, GotoIs DEF Shell!StreamEnds
<1>9. CASE Shell!Rename(t)
  <2>1. CASE Shell!Leave(t, "release", FALSE) /\ UNCHANGED disk
    <3>1. /\ call'[t].pc = "release" /\ call'[t].key = call[t].key
          /\ call'[t].cancelled = call[t].cancelled /\ ~call'[t].ok
          /\ \A u \in Transfers : u # t => call'[u] = call[u]
      BY <2>1, LeaveIs
    <3>. QED  BY <1>0, <1>9, <2>1, <3>1 DEF Shell!Rename
  <2>2. CASE /\ disk' = [disk EXCEPT ![call[t].key].part = None, ![call[t].key].file = TRUE]
             /\ Shell!Goto(t, "complete")
    <3>1. \A k \in Keys : disk'[k].file = IF k = call[t].key THEN TRUE ELSE disk[k].file
      BY <1>0, <2>2 DEF Shell!Folder
    <3>. QED  BY <1>0, <1>9, <2>2, <3>1, GotoIs DEF Shell!Rename
  <2>. QED  BY <1>9, <2>1, <2>2 DEF Shell!Rename, Shell!Fail
<1>10. CASE Shell!Complete(t)
  <2>1. Shell!Leave(t, "release", TRUE)
    BY <1>10 DEF Shell!Complete
  <2>. QED  BY <1>0, <1>10, <2>1, LeaveIs DEF Shell!Complete, Shell!Emit, Shell!Statuses
<1>11. CASE Shell!Release(t)
  BY <1>0, <1>11, GotoIs DEF Shell!Release
<1>12. CASE Shell!Unlink(t)
  <2>1. \A k \in Keys : disk'[k].file = disk[k].file
    BY <1>0, <1>12 DEF Shell!Folder, Shell!Unlink
  <2>. QED  BY <1>0, <1>12, <2>1, GotoIs DEF Shell!Unlink
<1>. QED  BY <1>1, <1>2, <1>3, <1>4, <1>5, <1>6, <1>7, <1>8, <1>9, <1>10, <1>11,
             <1>12, Zenon DEF Shell!Run

\* The two commands.
LEMMA CancelIs ==
    ASSUME Typed, NEW k \in Keys, Shell!Cancel(k)
    PROVE  /\ \A t \in Transfers :
                 /\ call'[t].key = call[t].key /\ call'[t].pc = call[t].pc
                 /\ call'[t].ok = call[t].ok
                 /\ call'[t] = call[t] \/ call[t].key = k
           /\ [name |-> "cancel", key |-> k] \in commands
           /\ commands' \subseteq commands
           /\ UNCHANGED <<active, disk, events>>
<1>1. /\ call \in [Transfers -> Shell!Call] /\ active[k] \in Transfers \cup {None}
      /\ active[k] \in Transfers => call[active[k]].key = k
  BY ShellTypes, ShellOKIs DEF Typed, Shell!OneTransferPerKey, Shell!KeyOf
<1>2. /\ call' = IF active[k] = None THEN call
                 ELSE [call EXCEPT ![active[k]].cancelled = TRUE]
      /\ [name |-> "cancel", key |-> k] \in commands
      /\ commands' \subseteq commands
      /\ UNCHANGED <<active, disk, events>>
  BY DEF Shell!Cancel, Shell!Done
<1>. QED  BY <1>1, <1>2 DEF Shell!Call

LEMMA DeleteIs ==
    ASSUME Typed, NEW k \in Keys, Shell!Delete(k)
    PROVE  /\ [name |-> "delete", key |-> k] \in commands
           /\ commands' \subseteq commands
           /\ \A l \in Keys : l # k => disk'[l] = disk[l]
           /\ UNCHANGED <<active, call, events>>
<1>1. disk \in [Keys -> Shell!Folder]
  BY ShellTypes
<1>. QED  BY <1>1 DEF Shell!Delete, Shell!Done

LEMMA BeginIs ==
    ASSUME Typed, NEW t \in Transfers, NEW k, Shell!Begin(t, k)
    PROVE  /\ call[t].pc = "none"
           /\ call'[t].pc = "start" /\ call'[t].key = k /\ ~call'[t].cancelled
           /\ \A u \in Transfers : u # t => call'[u] = call[u]
<1>1. call \in [Transfers -> Shell!Call]
  BY ShellTypes
<1>. QED  BY <1>1 DEF Shell!Begin, Shell!Call, Shell!NoCall

LEMMA CollectedIs ==
    ASSUME Typed, NEW t \in Transfers, Shell!Collect(t)
    PROVE  /\ call'[t].pc = "none"
           /\ \A u \in Transfers : u # t => call'[u] = call[u]
<1>1. call \in [Transfers -> Shell!Call]
  BY ShellTypes
<1>. QED  BY <1>1 DEF Shell!Collect, Shell!NoCall

-----------------------------------------------------------------------------
(* The events that are under way tell the truth about the transfers. *)

\* An event is one of a transfer that is not settled yet, and an event of its
\* end says how it ended.
TrueOf(record, e) == /\ record.key = e.key /\ record.pc \in Sent
                     /\ Ends(e) => /\ record.pc \in Over
                                   /\ record.ok <=> e.status # "error"

\* A transfer that succeeded says so after it has told of its progress.
EndFollows == \A i \in DOMAIN events :
                 LET t == events[i].by IN
                 ~Ends(events[i]) /\ call[t].pc \in Over /\ call[t].ok =>
                     \E j \in DOMAIN events : /\ j > i /\ events[j].by = t
                                              /\ Ends(events[j])

EndsOnce == \A i, j \in DOMAIN events :
               events[i].by = events[j].by /\ Ends(events[i]) /\ Ends(events[j])
                   => i = j

EventsTrue == /\ \A i \in DOMAIN events : TrueOf(call[events[i].by], events[i])
              /\ EndFollows /\ EndsOnce

LEMMA EventsTyped ==
    ASSUME Typed
    PROVE  /\ DOMAIN events = 1..Len(events) /\ Len(events) \in Nat
           /\ \A i \in DOMAIN events : /\ events[i].by \in Transfers
                                       /\ events[i].key \in Keys
                                       /\ events[i].status \in Shell!Statuses
<1>1. events \in Seq(Shell!Event)
  BY ShellTypes
<1>2. \A i \in DOMAIN events : events[i] \in Shell!Event
  BY <1>1
<1>. QED  BY <1>1, <1>2 DEF Shell!Event

\* The queue of events with one more.
LEMMA EmittedIs ==
    ASSUME Typed, NEW t \in Transfers, NEW st \in Shell!Statuses, Emits(t, st),
           call[t].pc # "none"
    PROVE  LET n == Len(events) + 1 IN
           /\ n \in DOMAIN events' /\ n \notin DOMAIN events
           /\ events'[n].by = t /\ events'[n].key = call[t].key
           /\ events'[n].status = st
           /\ \A i \in DOMAIN events : i \in DOMAIN events' /\ events'[i] = events[i]
                                       /\ n > i
           /\ \A i \in DOMAIN events' : i \in DOMAIN events \/ i = n
<1> DEFINE e == [by |-> t, key |-> call[t].key, status |-> st]
<1>1. events \in Seq(Shell!Event) /\ e \in Shell!Event
  BY ShellTypes DEF Shell!Event
<1>2. e.by = t /\ e.key = call[t].key /\ e.status = st
  OBVIOUS
<1>3. events' = Append(events, e)
  BY DEF Emits
<1>. HIDE DEF e
<1>. QED  BY <1>1, <1>2, <1>3, AppendProperties

LEMMA GoesEvents ==
    ASSUME Typed, EventsTrue, NEW t \in Transfers, Goes(t)
    PROVE  EventsTrue'
<1>1. \A i \in DOMAIN events : /\ TrueOf(call[events[i].by], events[i])
                                /\ events[i].by \in Transfers
  BY EventsTyped DEF EventsTrue
<1>2. \A i \in DOMAIN events : TrueOf(call'[events[i].by], events[i])
  BY <1>1 DEF TrueOf, Goes
<1>3. CASE EmitsNothing(t)
  <2>1. events' = events
    BY <1>3 DEF EmitsNothing
  <2>2. \A i \in DOMAIN events :
           LET u == events[i].by IN
           call'[u].pc \in Over /\ call'[u].ok => call[u].pc \in Over /\ call[u].ok
    BY <1>1, <1>3 DEF EmitsNothing, Goes
  <2>3. EndFollows'
    BY <2>1, <2>2 DEF EventsTrue, EndFollows, Ends
  <2>4. EndsOnce'
    BY <2>1 DEF EventsTrue, EndsOnce, Ends
  <2>. QED  BY <1>2, <2>1, <2>3, <2>4 DEF EventsTrue
<1>4. ASSUME NEW st \in Shell!Statuses, Emits(t, st) PROVE EventsTrue'
  <2> DEFINE n == Len(events) + 1
  <2>1. /\ n \in DOMAIN events' /\ n \notin DOMAIN events
        /\ events'[n].by = t /\ events'[n].key = call[t].key
        /\ events'[n].status = st
        /\ \A i \in DOMAIN events : /\ i \in DOMAIN events' /\ events'[i] = events[i]
                                    /\ n > i
        /\ \A i \in DOMAIN events' : i \in DOMAIN events \/ i = n
    BY <1>4, EmittedIs DEF Goes
  <2>. HIDE DEF n
  <2>2. TrueOf(call'[t], events'[n])
    BY <1>4, <2>1 DEF TrueOf, Goes, Emits, Ends
  <2>3. \A i \in DOMAIN events' : TrueOf(call'[events'[i].by], events'[i])
    BY <1>2, <2>1, <2>2
  <2>4. \A i \in DOMAIN events : Ends(events[i]) => events[i].by # t
    BY <1>1, <1>4 DEF TrueOf, Emits
  <2>5. EndsOnce'
    <3> SUFFICES ASSUME NEW i \in DOMAIN events', NEW j \in DOMAIN events',
                        events'[i].by = events'[j].by,
                        events'[i].status # "downloading",
                        events'[j].status # "downloading"
                 PROVE  i = j
      BY DEF EndsOnce, Ends
    <3>1. CASE i \in DOMAIN events /\ j \in DOMAIN events
      BY <2>1, <3>1 DEF EventsTrue, EndsOnce, Ends
    <3>2. CASE i = n \/ j = n
      BY <2>1, <2>4, <3>2 DEF Ends
    <3>. QED  BY <2>1, <3>1, <3>2
  <2>6. st # "downloading" \/ call'[t].pc \notin Over
    BY <1>4 DEF Emits
  <2>7. \A i \in DOMAIN events : events[i].by # t => call'[events[i].by] = call[events[i].by]
    BY <1>1 DEF Goes
  <2>8. EndFollows'
    <3> SUFFICES ASSUME NEW i \in DOMAIN events',
                        events'[i].status = "downloading",
                        call'[events'[i].by].pc \in Over,
                        call'[events'[i].by].ok
                 PROVE  \E j \in DOMAIN events' :
                           /\ j > i /\ events'[j].by = events'[i].by
                           /\ events'[j].status # "downloading"
      BY DEF EndFollows, Ends
    <3>1. i # n
      BY <2>1, <2>6
    <3>2. i \in DOMAIN events /\ events'[i] = events[i]
      BY <2>1, <3>1
    <3>3. CASE events[i].by = t
      BY <2>1, <2>6, <3>2, <3>3
    <3>4. CASE events[i].by # t
      <4>1. \E j \in DOMAIN events : /\ j > i /\ events[j].by = events[i].by
                                     /\ events[j].status # "downloading"
        BY <2>7, <3>2, <3>4 DEF EventsTrue, EndFollows, Ends
      <4>. QED  BY <2>1, <3>2, <4>1
    <3>. QED  BY <3>3, <3>4
  <2>. QED  BY <2>3, <2>5, <2>8 DEF EventsTrue
<1>. QED  BY <1>3, <1>4 DEF Goes

LEMMA EventsStep == Typed /\ EventsTrue /\ [Next]_vars => EventsTrue'
<1> SUFFICES ASSUME Typed, EventsTrue, [Shell!Next]_shell PROVE EventsTrue'
  BY ShellStep
<1>0. \A i \in DOMAIN events : /\ TrueOf(call[events[i].by], events[i])
                                /\ events[i].by \in Transfers
  BY EventsTyped DEF EventsTrue
<1>1. ASSUME events' = events,
             \A i \in DOMAIN events :
                LET t == events[i].by IN
                /\ call'[t].key = call[t].key /\ call'[t].pc = call[t].pc
                /\ call'[t].ok = call[t].ok
      PROVE  EventsTrue'
  BY <1>1 DEF EventsTrue, TrueOf, EndFollows, EndsOnce, Ends
<1>2. ASSUME NEW t \in Transfers, Shell!Run(t) PROVE EventsTrue'
  BY <1>2, GoesIs, GoesEvents
<1>3. ASSUME NEW t \in Transfers, Shell!Settle(t) PROVE EventsTrue'
  <2>1. Shell!Collect(t) /\ events' = events
    BY <1>3 DEF Shell!Settle
  <2>2. \A i \in DOMAIN events : call'[events[i].by] = call[events[i].by]
    BY <1>0, <2>1, CollectIs, CollectedIs
  <2>. QED  BY <1>1, <2>1, <2>2
<1>4. ASSUME NEW t \in Transfers, NEW k \in Keys, Shell!Invoke(t, k)
      PROVE  EventsTrue'
  <2>1. Shell!Begin(t, k) /\ events' = events
    BY <1>4 DEF Shell!Invoke
  <2>2. "none" \notin Sent
    BY DEF Sent, Over
  <2>3. \A i \in DOMAIN events : call'[events[i].by] = call[events[i].by]
    BY <1>0, <2>1, <2>2, BeginIs DEF TrueOf
  <2>. QED  BY <1>1, <2>1, <2>3
<1>5. ASSUME NEW k \in Keys, Shell!RunCommand(k) PROVE EventsTrue'
  BY <1>0, <1>1, <1>5, CancelIs, DeleteIs DEF Shell!RunCommand
<1>6. ASSUME UNCHANGED <<call, events>> PROVE EventsTrue'
  BY <1>1, <1>6
<1>7. CASE Shell!Listen
  <2>1. events # <<>> /\ events' = Tail(events) /\ UNCHANGED call
    BY <1>7 DEF Shell!Listen
  <2>2. /\ Len(events) \in Nat /\ DOMAIN events = 1..Len(events)
        /\ DOMAIN events' = 1..(Len(events) - 1)
        /\ \A i \in DOMAIN events' : /\ i + 1 \in DOMAIN events
                                     /\ events'[i] = events[i + 1]
    BY <2>1, FirstEvent, EventsTyped
  <2>3. \A i \in DOMAIN events' : TrueOf(call'[events'[i].by], events'[i])
    BY <1>0, <2>1, <2>2
  <2>4. EndsOnce'
    BY <2>1, <2>2 DEF EventsTrue, EndsOnce, Ends
  <2>5. EndFollows'
    <3> SUFFICES ASSUME NEW i \in DOMAIN events',
                        events'[i].status = "downloading",
                        call'[events'[i].by].pc \in Over,
                        call'[events'[i].by].ok
                 PROVE  \E j \in DOMAIN events' :
                           /\ j > i /\ events'[j].by = events'[i].by
                           /\ events'[j].status # "downloading"
      BY DEF EndFollows, Ends
    <3>1. PICK j \in DOMAIN events : /\ j > i + 1 /\ events[j].by = events[i + 1].by
                                     /\ events[j].status # "downloading"
      BY <2>1, <2>2 DEF EventsTrue, EndFollows, Ends
    <3>2. j - 1 \in DOMAIN events' /\ j - 1 > i /\ (j - 1) + 1 = j
      BY <2>2, <3>1
    <3>. QED  BY <2>2, <3>1, <3>2
  <2>. QED  BY <2>3, <2>4, <2>5 DEF EventsTrue
<1>8. CASE Shell!Restart
  <2>1. events' = <<>>
    BY <1>8 DEF Shell!Restart
  <2>. QED  BY <2>1 DEF EventsTrue, EndFollows, EndsOnce
<1>. QED  BY <1>2, <1>3, <1>4, <1>5, <1>6, <1>7, <1>8, Zenon
          DEF Shell!Next, Shell!Ask, shell

-----------------------------------------------------------------------------
(* What the steps of the queue do. *)

LEMMA RenderIs ==
    ASSUME Render
    PROVE  /\ shown' = downloads /\ ~changed' /\ due' /\ ~due
           /\ UNCHANGED <<downloads, processing, timers, server, saved, wish,
                          toasts, undone, active, call, commands, disk, events>>
BY Zenon DEF Render, refs, history, shell

LEMMA EffectsRunIs ==
    ASSUME EffectsRun
    PROVE  /\ due /\ ~due' /\ saved' = shown
           /\ UNCHANGED <<shown, timers, server, wish, toasts, undone,
                          active, commands, disk, events>>
BY Zenon DEF EffectsRun, history

LEMMA StartsNoneIs ==
    ASSUME StartsNone
    PROVE  /\ UNCHANGED <<downloads, processing, call>>
           /\ changed' = changed
           /\ \/ ~server
              \/ \E k : Has(shown, k, "downloading")
              \/ \A k : Has(shown, k, "queued") => k \in processing
BY Zenon DEF StartsNone

LEMMA StartsIs ==
    ASSUME NEW t, NEW k, Starts(t, k)
    PROVE  /\ k \in Keys /\ k \notin processing /\ Has(shown, k, "queued")
           /\ \A l : ~Has(shown, l, "downloading")
           /\ processing' = processing \cup {k}
           /\ downloads' = WithStatus(downloads, k, "downloading") /\ changed'
           /\ Shell!Begin(t, k)
BY DEF Starts, Set

LEMMA OnProgressIs ==
    ASSUME Typed, OnProgress
    PROVE  LET e == events[1] IN
           /\ events # <<>> /\ 1 \in DOMAIN events /\ events' = Tail(events)
           /\ e.by \in Transfers /\ e.key \in Keys /\ e.status \in Shell!Statuses
           /\ downloads' = WithStatus(downloads, e.key, e.status) /\ changed'
           /\ Ends(e) => processing' = processing \ {e.key}
           /\ ~Ends(e) => processing' = processing
           /\ e.status = "complete" => Toast(e.key, "success")
           /\ e.status # "complete" => toasts' = toasts
           /\ UNCHANGED <<shown, due, saved, timers, server, wish, undone,
                          active, call, commands, disk>>
<1>1. /\ events # <<>> /\ events' = Tail(events)
      /\ Set(WithStatus(downloads, Head(events).key, Head(events).status))
      /\ processing' = IF Head(events).status = "downloading" THEN processing
                       ELSE processing \ {Head(events).key}
      /\ IF Head(events).status = "complete" THEN Toast(Head(events).key, "success")
                                             ELSE UNCHANGED toasts
      /\ UNCHANGED <<shown, due, saved, timers, server, wish, undone,
                     active, call, commands, disk>>
  BY Zenon DEF OnProgress, Kept
<1>2. /\ Head(events) = events[1] /\ 1 \in DOMAIN events
      /\ events[1].by \in Transfers /\ events[1].key \in Keys
      /\ events[1].status \in Shell!Statuses
  BY <1>1, FirstEvent
<1>. QED  BY <1>1, <1>2 DEF Set, Ends

LEMMA ResolvedIs ==
    ASSUME Typed, NEW t \in Transfers, Resolved(t)
    PROVE  /\ Shell!Collect(t) /\ call[t].ok
           /\ changed' = changed
           /\ UNCHANGED <<downloads, shown, due, processing, timers, server, saved,
                          wish, toasts, undone, active, commands, disk, events>>
BY Zenon DEF Resolved, Kept, refs, history

LEMMA RejectedIs ==
    ASSUME Typed, NEW t \in Transfers, Rejected(t)
    PROVE  /\ Shell!Collect(t) /\ ~call[t].ok /\ call[t].key \in Keys
           /\ \/ /\ processing' = processing \cup {call[t].key}
                 /\ timers' = [timers EXCEPT ![call[t].key] = @ + 1]
                 /\ downloads' = WithStatus(downloads, call[t].key, "queued")
                 /\ toasts' = toasts
              \/ /\ processing' = processing \ {call[t].key}
                 /\ timers' = timers
                 /\ downloads' = WithStatus(downloads, call[t].key, "error")
                 /\ Toast(call[t].key, "failure")
           /\ changed'
           /\ UNCHANGED <<shown, due, saved, server, wish, undone,
                          active, commands, disk, events>>
<1>1. /\ Shell!Collect(t) /\ ~call[t].ok
      /\ RetryLater(call[t].key) \/ GiveUp(call[t].key)
      /\ UNCHANGED <<shown, due, saved, server, wish, undone,
                     active, commands, disk, events>>
  BY Zenon DEF Rejected, Kept
<1>2. call[t].key \in Keys
  BY <1>1, CollectIs
<1>. QED  BY <1>1, <1>2 DEF RetryLater, GiveUp, Set

LEMMA WebviewRests ==
    ASSUME UNCHANGED webview
    PROVE  /\ changed' = changed
           /\ UNCHANGED <<downloads, shown, due, processing, timers, server, saved,
                          wish, toasts, undone>>
BY Zenon DEF webview, refs, history

LEMMA TimerIs ==
    ASSUME NEW k, Timer(k)
    PROVE  /\ timers[k] > 0 /\ timers' = [timers EXCEPT ![k] = @ - 1]
           /\ processing' = processing \ {k} /\ changed'
           /\ UNCHANGED <<downloads, shown, due, server, saved, wish, toasts, undone,
                          active, call, commands, disk, events>>
BY Zenon DEF Timer, Kept, history, shell

LEMMA QueueIs ==
    ASSUME NEW k, QueueDownload(k)
    PROVE  /\ \/ k \in KeysOf(downloads) /\ UNCHANGED <<downloads, wish, toasts>>
                 /\ changed' = changed
              \/ /\ k \notin KeysOf(downloads) /\ changed' /\ Wishes(k, "want")
                 /\ downloads' = Append(downloads, [key |-> k, status |-> "queued"])
           /\ UNCHANGED <<shown, due, saved, undone, processing, timers, server,
                          active, call, commands, disk, events>>
<1>1. /\ undone' = undone
      /\ IF k \in KeysOf(downloads)
         THEN UNCHANGED <<downloads, changed, wish, toasts>>
         ELSE /\ Set(Append(downloads, [key |-> k, status |-> "queued"]))
              /\ Wishes(k, "want")
      /\ UNCHANGED <<shown, due, saved, processing, timers, server,
                     active, call, commands, disk, events>>
  BY Zenon DEF QueueDownload, ByUser, Kept, shell
<1>. QED  BY <1>1 DEF Set

LEMMA CancelDownloadIs ==
    ASSUME NEW k, CancelDownload(k)
    PROVE  /\ StatusIn(shown, k) \in {"queued", "downloading"}
           /\ undone' = [undone EXCEPT ![k] = @ \cup {"cancel"}]
           /\ commands' = commands \cup {[name |-> "cancel", key |-> k]}
           /\ downloads' = WithStatus(downloads, k, "cancelled") /\ changed'
           /\ processing' = processing \ {k} /\ Wishes(k, "cancel")
           /\ UNCHANGED <<shown, due, saved, timers, server,
                          active, call, disk, events>>
<1>1. /\ StatusIn(shown, k) \in {"queued", "downloading"}
      /\ undone' = IF "cancel" = "queue" THEN undone
                   ELSE [undone EXCEPT ![k] = @ \cup {"cancel"}]
      /\ commands' = commands \cup {[name |-> "cancel", key |-> k]}
      /\ downloads' = WithStatus(downloads, k, "cancelled") /\ changed'
      /\ processing' = processing \ {k} /\ Wishes(k, "cancel")
      /\ UNCHANGED <<shown, due, saved, timers, server, active, call, disk, events>>
  BY Zenon DEF CancelDownload, ByUser, Kept, Shell!Submit, Set
<1>. QED  BY <1>1

LEMMA DeleteDownloadIs ==
    ASSUME NEW k, DeleteDownload(k)
    PROVE  /\ undone' = [undone EXCEPT ![k] = @ \cup {"delete"}]
           /\ commands' = commands \cup {[name |-> "delete", key |-> k]}
           /\ downloads' = Without(downloads, k) /\ changed'
           /\ processing' = processing \ {k} /\ Wishes(k, "none")
           /\ UNCHANGED <<shown, due, saved, timers, server,
                          active, call, disk, events>>
<1>1. /\ undone' = IF "delete" = "queue" THEN undone
                   ELSE [undone EXCEPT ![k] = @ \cup {"delete"}]
      /\ commands' = commands \cup {[name |-> "delete", key |-> k]}
      /\ downloads' = Without(downloads, k) /\ changed'
      /\ processing' = processing \ {k} /\ Wishes(k, "none")
      /\ UNCHANGED <<shown, due, saved, timers, server, active, call, disk, events>>
  BY Zenon DEF DeleteDownload, ByUser, Kept, Shell!Submit, Set
<1>. QED  BY <1>1

LEMMA RetryIs ==
    ASSUME NEW k, RetryDownload(k)
    PROVE  /\ undone' = [undone EXCEPT ![k] = @ \cup {"retry"}]
           /\ downloads' = WithStatus(downloads, k, "queued") /\ changed'
           /\ Wishes(k, "want")
           /\ UNCHANGED <<shown, due, saved, processing, timers, server,
                          active, call, commands, disk, events>>
<1>1. /\ undone' = IF "retry" = "queue" THEN undone
                   ELSE [undone EXCEPT ![k] = @ \cup {"retry"}]
      /\ downloads' = WithStatus(downloads, k, "queued") /\ changed'
      /\ Wishes(k, "want")
      /\ UNCHANGED <<shown, due, saved, processing, timers, server,
                     active, call, commands, disk, events>>
  BY Zenon DEF RetryDownload, ByUser, Kept, Set, shell
<1>. QED  BY <1>1

LEMMA ServerChangesIs ==
    ASSUME ServerChanges
    PROVE  /\ changed'
           /\ UNCHANGED <<downloads, shown, due, saved, processing, timers, wish,
                          toasts, undone, active, call, commands, disk, events>>
BY Zenon DEF ServerChanges, Kept, refs, shell

LEMMA RestartIs ==
    ASSUME Typed, Restart
    PROVE  /\ downloads' = Restored(saved) /\ changed'
           /\ shown' = <<>> /\ ~due' /\ processing' = {}
           /\ wish' = [k \in Keys |-> "none"] /\ toasts' = [k \in Keys |-> <<>>]
           /\ UNCHANGED <<saved, undone>>
           /\ commands' = {} /\ events' = <<>>
           /\ \A t \in Transfers : call'[t].pc = "none"
           /\ \A k \in Keys : disk'[k].file = disk[k].file
<1>1. /\ downloads' = Restored(saved) /\ changed'
      /\ shown' = <<>> /\ ~due' /\ processing' = {}
      /\ wish' = [k \in Keys |-> "none"] /\ toasts' = [k \in Keys |-> <<>>]
      /\ UNCHANGED <<saved, undone>>
      /\ Shell!Restart
  BY Zenon DEF Restart
<1>2. /\ commands' = {} /\ events' = <<>>
      /\ \A t \in Transfers : call'[t].pc = "none"
  BY <1>1 DEF Shell!Restart, Shell!NoCall
<1>3. \A k \in Keys : disk'[k].file = disk[k].file
  <2>1. disk \in [Keys -> Shell!Folder]
    BY ShellTypes
  <2>. QED  BY <1>1, <2>1 DEF Shell!Restart, Shell!Folder
<1>. QED  BY <1>1, <1>2, <1>3

-----------------------------------------------------------------------------
(* What is complete is on the disk. *)

\* Somebody says that k is complete, or is about to.
Announced(k) ==
    \/ Has(downloads, k, "complete") \/ Has(shown, k, "complete")
    \/ Has(saved, k, "complete")
    \/ \E i \in DOMAIN events : events[i].key = k /\ events[i].status = "complete"
    \/ \E t \in Transfers : call[t].key = k /\ call[t].pc = "complete"

OnDisk == \A k \in Keys : "delete" \notin undone[k] =>
             /\ [name |-> "delete", key |-> k] \notin commands
             /\ Announced(k) => disk[k].file

\* It survives a step that neither undoes nor asks for a deletion, takes no
\* file away and announces nothing that is not there.
LEMMA OnDiskKept ==
    ASSUME OnDisk, commands' \subseteq commands, undone' = undone,
           \A k \in Keys : disk[k].file => disk'[k].file,
           \A k \in Keys : Announced(k)' => Announced(k) \/ disk'[k].file
    PROVE  OnDisk'
BY DEF OnDisk

LEMMA OnDiskStep == Typed /\ OnDisk /\ [Next]_vars => OnDisk'
<1> SUFFICES ASSUME Typed, OnDisk, [Next]_vars PROVE OnDisk'
  OBVIOUS
<1>0. /\ downloads \in Lists /\ shown \in Lists /\ saved \in Lists
      /\ undone \in [Keys -> SUBSET {"cancel", "delete", "retry"}]
  BY DEF Typed, TypeOK
<1>1. CASE UNCHANGED vars
  <2>1. UNCHANGED <<downloads, shown, saved, undone, call, commands, disk, events>>
    BY <1>1, Zenon DEF vars, history, shell
  <2>. QED  BY <2>1, OnDiskKept DEF Announced
<1>2. CASE Render
  BY <1>2, RenderIs, OnDiskKept DEF Announced
<1>3. CASE Effects
  <2>1. EffectsRun
    BY <1>3, EffectsAre DEF Typed
  <2>2. CASE StartsNone
    BY <2>1, <2>2, EffectsRunIs, StartsNoneIs, OnDiskKept DEF Announced
  <2>3. ASSUME NEW t \in Transfers, NEW k \in Keys, Starts(t, k) PROVE OnDisk'
    <3>1. \A l \in Keys : Has(downloads', l, "complete") => Has(downloads, l, "complete")
      BY <1>0, <2>3, StartsIs, WithStatusHas DEF Shell!Statuses
    <3>2. \A u \in Transfers : call'[u].pc = "complete" => call'[u] = call[u]
      BY <2>3, StartsIs, BeginIs
    <3>. QED  BY <2>1, <3>1, <3>2, EffectsRunIs, OnDiskKept DEF Announced
  <2>. QED  BY <1>3, <2>2, <2>3, EffectsAre DEF Typed
<1>4. CASE OnProgress
  <2> DEFINE e == events[1]
  <2>1. /\ 1 \in DOMAIN events /\ e.key \in Keys /\ e.status \in Shell!Statuses
        /\ downloads' = WithStatus(downloads, e.key, e.status)
        /\ UNCHANGED <<shown, saved, undone, call, commands, disk>>
        /\ events # <<>> /\ events' = Tail(events)
    BY <1>4, OnProgressIs
  <2>2. \A i \in DOMAIN events' : \E j \in DOMAIN events : events'[i] = events[j]
    BY <2>1, FirstEvent
  <2>3. \A l \in Keys : Has(downloads', l, "complete") =>
                          \/ Has(downloads, l, "complete")
                          \/ e.key = l /\ e.status = "complete"
    <3>1. /\ e.key \in Keys /\ e.status \in Shell!Statuses \cup {"queued"}
          /\ downloads' = WithStatus(downloads, e.key, e.status)
      BY <2>1
    <3>. HIDE DEF e
    <3>2. ASSUME NEW l \in Keys, Has(downloads', l, "complete")
          PROVE  Has(downloads, l, "complete") \/ (l = e.key /\ "complete" = e.status)
      <4>1. Has(WithStatus(downloads, e.key, e.status), l, "complete")
        BY <3>1, <3>2
      <4>. QED  BY <1>0, <3>1, <4>1, WithStatusOnly
    <3>. QED  BY <3>2
  <2>4. \A l \in Keys : Announced(l)' => Announced(l)
    BY <2>1, <2>2, <2>3 DEF Announced
  <2>. QED  BY <2>1, <2>4, OnDiskKept
<1>5. ASSUME NEW t \in Transfers, Resolved(t) PROVE OnDisk'
  <2>1. \A u \in Transfers : call'[u].pc = "complete" => call'[u] = call[u]
    BY <1>5, ResolvedIs, CollectedIs
  <2>. QED  BY <1>5, <2>1, ResolvedIs, OnDiskKept DEF Announced
<1>6. ASSUME NEW t \in Transfers, Rejected(t) PROVE OnDisk'
  <2>1. \A u \in Transfers : call'[u].pc = "complete" => call'[u] = call[u]
    BY <1>6, RejectedIs, CollectedIs
  <2>2. \A l \in Keys : Has(downloads', l, "complete") => Has(downloads, l, "complete")
    <3>1. PICK st \in {"queued", "error"} :
             downloads' = WithStatus(downloads, call[t].key, st)
      BY <1>6, RejectedIs
    <3>2. call[t].key \in Keys /\ st \in Shell!Statuses \cup {"queued"}
      BY <1>6, RejectedIs DEF Shell!Statuses
    <3>. QED  BY <1>0, <3>1, <3>2, WithStatusOnly
  <2>. QED  BY <1>6, <2>1, <2>2, RejectedIs, OnDiskKept DEF Announced
<1>7. ASSUME NEW t \in Transfers, Transfer(t) PROVE OnDisk'
  <2>1. Goes(t) /\ UNCHANGED <<downloads, shown, saved, undone>>
    BY <1>7, GoesIs, WebviewRests, Zenon DEF Transfer
  <2>2. \A k \in Keys : Announced(k)' => Announced(k) \/ disk'[k].file
    <3>1. \A u \in Transfers : call'[u].pc = "complete" =>
             \/ call[u] = call'[u]
             \/ disk'[call[u].key].file /\ call'[u].key = call[u].key
      BY <2>1 DEF Goes
    <3>2. CASE EmitsNothing(t)
      BY <2>1, <3>1, <3>2 DEF EmitsNothing, Announced
    <3>3. ASSUME NEW st \in Shell!Statuses, Emits(t, st)
          PROVE  \A k \in Keys : Announced(k)' => Announced(k) \/ disk'[k].file
      <4>1. \A i \in DOMAIN events' :
               \/ i \in DOMAIN events /\ events'[i] = events[i]
               \/ events'[i].key = call[t].key /\ events'[i].status = st
        BY <2>1, <3>3, EmittedIs DEF Goes
      <4>2. st = "complete" => call[t].pc = "complete"
        BY <3>3 DEF Emits
      <4>. QED  BY <2>1, <3>1, <4>1, <4>2 DEF Announced
    <3>. QED  BY <2>1, <3>2, <3>3 DEF Goes
  <2>3. \A k \in Keys : disk[k].file => disk'[k].file
    BY <2>1 DEF Goes
  <2>4. commands' \subseteq commands
    BY <2>1 DEF Goes
  <2>. QED  BY <2>1, <2>2, <2>3, <2>4, OnDiskKept
<1>8. ASSUME NEW k \in Keys, Serve(k) PROVE OnDisk'
  <2>1. UNCHANGED <<downloads, shown, saved, undone>>
    BY <1>8, WebviewRests, Zenon DEF Serve
  <2>2. CASE Shell!Cancel(k)
    BY <2>1, <2>2, CancelIs, OnDiskKept DEF Announced
  <2>3. CASE Shell!Delete(k)
    <3>1. "delete" \in undone[k]
      BY <2>3, DeleteIs DEF OnDisk
    <3>2. \A l \in Keys : Announced(l)' <=> Announced(l)
      BY <2>1, <2>3, DeleteIs DEF Announced
    <3>. QED  BY <2>1, <2>3, <3>1, <3>2, DeleteIs DEF OnDisk
  <2>. QED  BY <1>8, <2>2, <2>3 DEF Serve, Shell!RunCommand
<1>9. ASSUME NEW k \in Keys, Timer(k) PROVE OnDisk'
  BY <1>9, TimerIs, OnDiskKept DEF Announced
<1>10. ASSUME NEW k \in Keys, QueueDownload(k) PROVE OnDisk'
  <2>1. \A l \in Keys : Has(downloads', l, "complete") => Has(downloads, l, "complete")
    <3>1. CASE downloads' = downloads
      BY <3>1
    <3>2. CASE downloads' # downloads
      <4>1. /\ k \notin KeysOf(downloads)
            /\ downloads' = Append(downloads, [key |-> k, status |-> "queued"])
        BY <1>10, <3>2, QueueIs
      <4>. QED  BY <1>0, <4>1, AppendHas
    <3>. QED  BY <3>1, <3>2
  <2>. QED  BY <1>10, <2>1, QueueIs, OnDiskKept DEF Announced
<1>11. ASSUME NEW k \in Keys, CancelDownload(k) PROVE OnDisk'
  <2>1. \A l \in Keys : Has(downloads', l, "complete") => Has(downloads, l, "complete")
    BY <1>0, <1>11, CancelDownloadIs, WithStatusHas DEF Shell!Statuses
  <2>2. \A l \in Keys : Announced(l)' => Announced(l)
    BY <1>11, <2>1, CancelDownloadIs DEF Announced
  <2>3. \A l \in Keys : [name |-> "delete", key |-> l] # [name |-> "cancel", key |-> k]
    OBVIOUS
  <2>4. /\ commands' = commands \cup {[name |-> "cancel", key |-> k]}
        /\ undone' = [undone EXCEPT ![k] = @ \cup {"cancel"}] /\ disk' = disk
    BY <1>11, CancelDownloadIs
  <2>5. \A l \in Keys : "delete" \in undone[l] => "delete" \in undone'[l]
    BY <1>0, <2>4
  <2>. QED  BY <2>2, <2>3, <2>4, <2>5 DEF OnDisk
<1>12. ASSUME NEW k \in Keys, DeleteDownload(k) PROVE OnDisk'
  <2>1. \A l \in Keys : Has(downloads', l, "complete") => Has(downloads, l, "complete")
    BY <1>0, <1>12, DeleteDownloadIs, WithoutHas
  <2>2. \A l \in Keys : Announced(l)' => Announced(l)
    BY <1>12, <2>1, DeleteDownloadIs DEF Announced
  <2>3. \A l \in Keys : l # k => [name |-> "delete", key |-> l] # [name |-> "delete", key |-> k]
    OBVIOUS
  <2>4. /\ commands' = commands \cup {[name |-> "delete", key |-> k]}
        /\ undone' = [undone EXCEPT ![k] = @ \cup {"delete"}] /\ disk' = disk
    BY <1>12, DeleteDownloadIs
  <2>5. /\ "delete" \in undone'[k]
        /\ \A l \in Keys : "delete" \in undone[l] => "delete" \in undone'[l]
    BY <1>0, <2>4
  <2>. QED  BY <2>2, <2>3, <2>4, <2>5 DEF OnDisk
<1>13. ASSUME NEW k \in Keys, RetryDownload(k) PROVE OnDisk'
  <2>1. \A l \in Keys : Has(downloads', l, "complete") => Has(downloads, l, "complete")
    BY <1>0, <1>13, RetryIs, WithStatusHas DEF Shell!Statuses
  <2>2. \A l \in Keys : Announced(l)' => Announced(l)
    BY <1>13, <2>1, RetryIs DEF Announced
  <2>3. \A l \in Keys : "delete" \in undone[l] => "delete" \in undone'[l]
    BY <1>0, <1>13, RetryIs
  <2>. QED  BY <1>13, <2>2, <2>3, RetryIs DEF OnDisk
<1>14. CASE ServerChanges
  BY <1>14, ServerChangesIs, OnDiskKept DEF Announced
<1>15. CASE Restart
  <2>1. \A k : ~Has(<<>>, k, "complete")
    BY DEF Has
  <2>2. \A k : Has(downloads', k, "complete") => Has(saved, k, "complete")
    BY <1>0, <1>15, RestartIs, RestoredHas
  <2>. QED  BY <1>15, <2>1, <2>2, RestartIs, OnDiskKept DEF Announced
<1>. QED  BY <1>1, <1>2, <1>3, <1>4, <1>5, <1>6, <1>7, <1>8, <1>9, <1>10, <1>11,
             <1>12, <1>13, <1>14, <1>15, Zenon DEF Next, User

LEMMA OnDiskInitially == Init => OnDisk
BY DEF Init, Shell!Init, Shell!NoCall, OnDisk, Announced, Has

\* A download that is shown or saved as complete is on the disk, whatever
\* was cancelled and retried and whenever the application ended, unless the
\* user has deleted it.
THEOREM CompleteIsOnDisk == Spec => []CompleteOnDisk
<1>1. Typed /\ OnDisk => CompleteOnDisk
  <2> SUFFICES ASSUME Typed, OnDisk, NEW k \in Keys, "delete" \notin undone[k],
                      \/ StatusIn(downloads, k) = "complete"
                      \/ StatusIn(saved, k) = "complete"
               PROVE  disk[k].file
    BY DEF CompleteOnDisk
  <2>1. downloads \in Lists /\ saved \in Lists
    BY DEF Typed, TypeOK
  <2>2. Has(downloads, k, "complete") \/ Has(saved, k, "complete")
    BY <2>1, StatusInHas
  <2>. QED  BY <2>2 DEF OnDisk, Announced
<1>. QED  BY <1>1, TypedInitially, TypedStep, OnDiskInitially, OnDiskStep, PTL
          DEF Spec

-----------------------------------------------------------------------------
(* Nothing waits for ever unseen. *)

\* The webview has yet to hear of the end of transfer t.
Owes(t) == \/ Busy(t)
           \/ call[t].pc \in Over /\ ~call[t].ok
           \/ \E i \in DOMAIN events : events[i].by = t /\ Ends(events[i])

Behind(t, k) == call[t].key = k /\ Owes(t)

\* An item that is shown as downloading has a transfer behind it, and one
\* that is being looked after has that or a timer.
LookedAfter ==
    /\ \A k \in Keys : Has(downloads, k, "downloading") =>
                          \E t \in Transfers : Behind(t, k)
    /\ \A k \in processing : timers[k] > 0 \/ \E t \in Transfers : Behind(t, k)

\* What is shown is what there is, unless a commit is to come; once its
\* effects have run an item is downloading or none waits for a slot.
NothingMissed ==
    /\ ~changed => shown = downloads
    /\ ~changed /\ ~due /\ server =>
          \/ \E k : Has(shown, k, "downloading")
          \/ \A k : Has(shown, k, "queued") => k \in processing

\* An end that is not heard of yet stays so while the transfer goes on.
LEMMA GoesBehind ==
    ASSUME Typed, NEW t \in Transfers, Goes(t), NEW u \in Transfers, NEW k,
           Behind(u, k)
    PROVE  Behind(u, k)'
<1>1. call'[u].key = k
  BY DEF Goes, Behind
<1>2. ASSUME \E i \in DOMAIN events : events[i].by = u /\ Ends(events[i])
      PROVE  \E i \in DOMAIN events' : events'[i].by = u /\ Ends(events'[i])
  <2>1. PICK i \in DOMAIN events : events[i].by = u /\ Ends(events[i])
    BY <1>2
  <2>2. i \in DOMAIN events' /\ events'[i] = events[i]
    BY EmittedIs DEF Goes, EmitsNothing
  <2>. QED  BY <2>1, <2>2
<1>3. CASE u # t
  <2>1. call'[u] = call[u]
    BY <1>3 DEF Goes
  <2>. QED  BY <1>1, <1>2, <2>1 DEF Behind, Owes, Busy, Ends
<1>4. CASE u = t /\ call[t].pc \in Over
  BY <1>1, <1>2, <1>4 DEF Goes, Behind, Owes, Busy, Ends
<1>5. CASE u = t /\ call[t].pc \notin Over
  <2>1. call'[t].pc # "none"
    BY DEF Goes
  <2>2. CASE EmitsNothing(t)
    BY <1>1, <1>5, <2>1, <2>2 DEF EmitsNothing, Behind, Owes, Busy
  <2>3. ASSUME NEW st \in Shell!Statuses, Emits(t, st) PROVE Behind(u, k)'
    <3>1. CASE st = "downloading"
      BY <1>1, <1>5, <2>1, <2>3, <3>1 DEF Emits, Behind, Owes, Busy
    <3>2. CASE st # "downloading"
      <4> DEFINE n == Len(events) + 1
      <4>1. n \in DOMAIN events' /\ events'[n].by = t /\ events'[n].status = st
        BY <2>3, EmittedIs DEF Goes
      <4>. HIDE DEF n
      <4>. QED  BY <1>1, <1>5, <3>2, <4>1 DEF Behind, Owes, Ends
    <3>. QED  BY <3>1, <3>2
  <2>. QED  BY <2>2, <2>3 DEF Goes
<1>. QED  BY <1>3, <1>4, <1>5

\* Calls that differ in no more than a cancellation owe as much as before.
LEMMA SameBehind ==
    ASSUME events' = events, NEW t, NEW k, Behind(t, k),
           call'[t].key = call[t].key, call'[t].pc = call[t].pc,
           call'[t].ok = call[t].ok
    PROVE  Behind(t, k)'
BY DEF Behind, Owes, Busy, Ends

\* A new transfer owes its end.
LEMMA BeginBehind ==
    ASSUME Typed, EventsTrue, NEW t \in Transfers, NEW k, Shell!Begin(t, k),
           events' = events
    PROVE  /\ Behind(t, k)'
           /\ \A u \in Transfers : \A l : Behind(u, l) => Behind(u, l)'
<1>1. Behind(t, k)'
  BY BeginIs DEF Behind, Owes, Busy, Over
<1>2. ~Owes(t)
  <2>1. call[t].pc = "none" /\ "none" \notin Sent /\ "none" \notin Over
    BY BeginIs DEF Sent, Over
  <2>2. \A i \in DOMAIN events : events[i].by # t
    BY <2>1 DEF EventsTrue, TrueOf
  <2>. QED  BY <2>1, <2>2 DEF Owes, Busy
<1>3. ASSUME NEW u \in Transfers, NEW l, Behind(u, l) PROVE Behind(u, l)'
  <2>1. u # t
    BY <1>2, <1>3 DEF Behind
  <2>. QED  BY <1>3, <2>1, BeginIs, SameBehind
<1>. QED  BY <1>1, <1>3

\* A transfer whose result was handed over owes nothing if it succeeded, and
\* the others owe what they did.
LEMMA CollectBehind ==
    ASSUME Typed, NEW t \in Transfers, Shell!Collect(t), events' = events
    PROVE  /\ call[t].ok => ~Owes(t)
           /\ \A u \in Transfers : \A l :
                 u # t /\ Behind(u, l) => Behind(u, l)'
<1>1. call[t].ok => ~Owes(t)
  BY CollectIs DEF Owes, Busy, Over
<1>2. ASSUME NEW u \in Transfers, NEW l, u # t, Behind(u, l) PROVE Behind(u, l)'
  BY <1>2, CollectedIs, SameBehind
<1>. QED  BY <1>1, <1>2

\* An event that was heard of: what it is not about stays as it was, and a
\* transfer that only told of its progress still owes its end.
LEMMA HeardBehind ==
    ASSUME Typed, EventsTrue, OnProgress
    PROVE  /\ \A u \in Transfers : \A l :
                 Behind(u, l) /\ (l # events[1].key \/ ~Ends(events[1])) =>
                     Behind(u, l)'
           /\ \A u \in Transfers : \A l :
                 u = events[1].by /\ l = events[1].key /\ ~Ends(events[1]) =>
                     Behind(u, l)'
<1> DEFINE e == events[1]
<1>1. /\ 1 \in DOMAIN events /\ e.by \in Transfers
      /\ events # <<>> /\ events' = Tail(events) /\ call' = call
  BY OnProgressIs
<1>2. /\ DOMAIN events = 1..Len(events) /\ Len(events) \in Nat
      /\ DOMAIN events' = 1..(Len(events) - 1)
      /\ \A i \in 1..(Len(events) - 1) : events'[i] = events[i + 1]
  BY <1>1, FirstEvent, EventsTyped
<1>3. TrueOf(call[e.by], e)
  BY <1>1 DEF EventsTrue
<1>4. ASSUME NEW i \in DOMAIN events, i # 1
      PROVE  \E j \in DOMAIN events' : events'[j] = events[i]
  <2>1. i - 1 \in DOMAIN events' /\ (i - 1) + 1 = i
    BY <1>2, <1>4
  <2>. QED  BY <1>2, <2>1
<1>5. ASSUME NEW u \in Transfers, NEW l, Behind(u, l), l # e.key \/ ~Ends(e)
      PROVE  Behind(u, l)'
  <2>1. call'[u].key = l
    BY <1>1, <1>5 DEF Behind
  <2>2. CASE Busy(u) \/ (call[u].pc \in Over /\ ~call[u].ok)
    BY <1>1, <2>1, <2>2 DEF Behind, Owes, Busy
  <2>3. CASE \E i \in DOMAIN events : events[i].by = u /\ Ends(events[i])
    <3>1. PICK i \in DOMAIN events : events[i].by = u /\ Ends(events[i])
      BY <2>3
    <3>2. i # 1
      BY <1>3, <1>5, <3>1 DEF TrueOf, Behind
    <3>3. PICK j \in DOMAIN events' : events'[j] = events[i]
      BY <1>4, <3>2
    <3>. QED  BY <2>1, <3>1, <3>3 DEF Behind, Owes, Ends
  <2>. QED  BY <1>5, <2>2, <2>3 DEF Behind, Owes
<1>6. ASSUME ~Ends(e), NEW u \in Transfers, NEW l, u = e.by, l = e.key
      PROVE  Behind(u, l)'
  <2>1. Behind(u, l)
    <3>1. call[e.by].pc # "none"
      BY <1>3 DEF TrueOf, Sent, Over
    <3>2. CASE call[e.by].pc \in Over /\ call[e.by].ok
      <4>1. \E j \in DOMAIN events : events[j].by = e.by /\ Ends(events[j])
        BY <1>1, <1>6, <3>2 DEF EventsTrue, EndFollows
      <4>. QED  BY <1>3, <1>6, <4>1 DEF Behind, Owes, TrueOf
    <3>. QED  BY <1>3, <1>6, <3>1, <3>2 DEF Behind, Owes, Busy, TrueOf
  <2>. QED  BY <1>5, <1>6, <2>1
<1>. QED  BY <1>5, <1>6

LEMMA LookedAfterStep ==
    Typed /\ EventsTrue /\ LookedAfter /\ [Next]_vars => LookedAfter'
<1> SUFFICES ASSUME Typed, EventsTrue, LookedAfter, [Next]_vars PROVE LookedAfter'
  OBVIOUS
<1>0. /\ downloads \in Lists /\ shown \in Lists /\ saved \in Lists
      /\ processing \subseteq Keys /\ timers \in [Keys -> Nat]
  BY DEF Typed, TypeOK
\* A step by which nobody comes to owe less.
<1>a. ASSUME \A u \in Transfers : \A l : Behind(u, l) => Behind(u, l)',
             \A l \in Keys : Has(downloads', l, "downloading") =>
                                Has(downloads, l, "downloading"),
             \A l \in processing' : l \in processing /\ timers'[l] = timers[l]
      PROVE  LookedAfter'
  BY <1>a DEF LookedAfter
\* A step of the webview alone.
<1>b. ASSUME call' = call, events' = events
      PROVE  \A u \in Transfers : \A l : Behind(u, l) => Behind(u, l)'
  BY <1>b, SameBehind
<1>1. CASE UNCHANGED vars
  <2>1. UNCHANGED <<downloads, processing, timers, call, events>>
    BY <1>1, Zenon DEF vars, refs, shell
  <2>. QED  BY <2>1, <1>a, <1>b
<1>2. CASE Render \/ ServerChanges
  BY <1>2, <1>a, <1>b, RenderIs, ServerChangesIs
<1>3. CASE Effects
  <2>1. EffectsRun
    BY <1>3, EffectsAre DEF Typed
  <2>2. CASE StartsNone
    BY <2>1, <2>2, <1>a, <1>b, EffectsRunIs, StartsNoneIs
  <2>3. ASSUME NEW t \in Transfers, NEW k \in Keys, Starts(t, k) PROVE LookedAfter'
    <3>1. /\ Behind(t, k)'
          /\ \A u \in Transfers : \A l : Behind(u, l) => Behind(u, l)'
      BY <2>1, <2>3, EffectsRunIs, StartsIs, BeginBehind
    <3>2. \A l \in Keys : Has(downloads', l, "downloading") =>
                             Has(downloads, l, "downloading") \/ l = k
      BY <1>0, <2>3, StartsIs, WithStatusOnly DEF Shell!Statuses
    <3>3. processing' = processing \cup {k} /\ timers' = timers
      BY <2>1, <2>3, EffectsRunIs, StartsIs
    <3>. QED  BY <3>1, <3>2, <3>3 DEF LookedAfter
  <2>. QED  BY <1>3, <2>2, <2>3, EffectsAre DEF Typed
<1>4. CASE OnProgress
  <2> DEFINE e == events[1]
  <2>1. /\ 1 \in DOMAIN events /\ e.by \in Transfers
        /\ e.key \in Keys /\ e.status \in Shell!Statuses
        /\ downloads' = WithStatus(downloads, e.key, e.status)
        /\ Ends(e) => processing' = processing \ {e.key}
        /\ ~Ends(e) => processing' = processing
        /\ timers' = timers
    BY <1>4, OnProgressIs
  <2>2. /\ \A u \in Transfers : \A l :
              Behind(u, l) /\ (l # e.key \/ ~Ends(e)) => Behind(u, l)'
        /\ \A u \in Transfers : \A l :
              u = e.by /\ l = e.key /\ ~Ends(e) => Behind(u, l)'
    BY <1>4, HeardBehind
  <2>3. /\ \A st : Has(downloads', e.key, st) => st = e.status
        /\ \A l \in Keys : l # e.key =>
              (Has(downloads', l, "downloading") <=> Has(downloads, l, "downloading"))
    BY <1>0, <2>1, WithStatusHas
  <2>. HIDE DEF e
  <2>4. ASSUME NEW l \in Keys, Has(downloads', l, "downloading")
        PROVE  \E u \in Transfers : Behind(u, l)'
    <3>1. CASE l = e.key
      BY <2>1, <2>2, <2>3, <2>4, <3>1 DEF Ends
    <3>2. CASE l # e.key
      BY <2>2, <2>3, <2>4, <3>2 DEF LookedAfter
    <3>. QED  BY <3>1, <3>2
  <2>5. ASSUME NEW l \in processing'
        PROVE  timers'[l] > 0 \/ \E u \in Transfers : Behind(u, l)'
    BY <2>1, <2>2, <2>5 DEF LookedAfter
  <2>. QED  BY <2>4, <2>5 DEF LookedAfter
<1>5. ASSUME NEW t \in Transfers, Resolved(t) PROVE LookedAfter'
  <2>1. \A u \in Transfers : \A l : Behind(u, l) => Behind(u, l)'
    BY <1>5, ResolvedIs, CollectBehind DEF Behind
  <2>. QED  BY <1>5, <2>1, <1>a, ResolvedIs
<1>6. ASSUME NEW t \in Transfers, Rejected(t) PROVE LookedAfter'
  <2> DEFINE k == call[t].key
  <2>1. /\ Shell!Collect(t) /\ events' = events /\ k \in Keys
        /\ \/ /\ processing' = processing \cup {k}
              /\ timers' = [timers EXCEPT ![k] = @ + 1]
              /\ downloads' = WithStatus(downloads, k, "queued")
           \/ /\ processing' = processing \ {k}
              /\ timers' = timers
              /\ downloads' = WithStatus(downloads, k, "error")
    BY <1>6, RejectedIs
  <2>2. \A u \in Transfers : \A l : l # k /\ Behind(u, l) => Behind(u, l)'
    BY <2>1, CollectBehind DEF Behind
  <2>. HIDE DEF k
  <2>3. ASSUME NEW l \in Keys, Has(downloads', l, "downloading")
        PROVE  l # k /\ Has(downloads, l, "downloading")
    <3>1. PICK st \in {"queued", "error"} : downloads' = WithStatus(downloads, k, st)
      BY <2>1
    <3>2. st \in Shell!Statuses \cup {"queued"} /\ st # "downloading"
      BY DEF Shell!Statuses
    <3>. QED  BY <1>0, <2>1, <2>3, <3>1, <3>2, WithStatusHas
  <2>4. \A l \in processing' : \/ timers'[l] > 0
                               \/ l # k /\ l \in processing /\ timers'[l] = timers[l]
    BY <1>0, <2>1
  <2>. QED  BY <2>2, <2>3, <2>4 DEF LookedAfter
<1>7. ASSUME NEW t \in Transfers, Transfer(t) PROVE LookedAfter'
  <2>1. Goes(t) /\ UNCHANGED <<downloads, processing, timers>>
    BY <1>7, GoesIs, WebviewRests, Zenon DEF Transfer
  <2>. QED  BY <2>1, <1>a, GoesBehind
<1>8. ASSUME NEW k \in Keys, Serve(k) PROVE LookedAfter'
  <2>1. UNCHANGED <<downloads, processing, timers>>
    BY <1>8, WebviewRests, Zenon DEF Serve
  <2>2. \A u \in Transfers : \A l : Behind(u, l) => Behind(u, l)'
    BY <1>8, CancelIs, DeleteIs, SameBehind DEF Serve, Shell!RunCommand
  <2>. QED  BY <2>1, <2>2, <1>a
<1>9. ASSUME NEW k \in Keys, Timer(k) PROVE LookedAfter'
  BY <1>0, <1>9, <1>a, <1>b, TimerIs
<1>10. ASSUME NEW k \in Keys, QueueDownload(k) PROVE LookedAfter'
  <2>1. \A l \in Keys : Has(downloads', l, "downloading") => Has(downloads, l, "downloading")
    <3>1. CASE downloads' = downloads
      BY <3>1
    <3>2. CASE downloads' # downloads
      <4>1. /\ k \notin KeysOf(downloads)
            /\ downloads' = Append(downloads, [key |-> k, status |-> "queued"])
        BY <1>10, <3>2, QueueIs
      <4>. QED  BY <1>0, <4>1, AppendHas
    <3>. QED  BY <3>1, <3>2
  <2>. QED  BY <1>10, <2>1, <1>a, <1>b, QueueIs
<1>11. ASSUME NEW k \in Keys, CancelDownload(k) PROVE LookedAfter'
  <2>1. \A l \in Keys : Has(downloads', l, "downloading") => Has(downloads, l, "downloading")
    BY <1>0, <1>11, CancelDownloadIs, WithStatusOnly DEF Shell!Statuses
  <2>. QED  BY <1>11, <2>1, <1>a, <1>b, CancelDownloadIs
<1>12. ASSUME NEW k \in Keys, DeleteDownload(k) PROVE LookedAfter'
  <2>1. \A l \in Keys : Has(downloads', l, "downloading") => Has(downloads, l, "downloading")
    BY <1>0, <1>12, DeleteDownloadIs, WithoutHas
  <2>. QED  BY <1>12, <2>1, <1>a, <1>b, DeleteDownloadIs
<1>13. ASSUME NEW k \in Keys, RetryDownload(k) PROVE LookedAfter'
  <2>1. \A l \in Keys : Has(downloads', l, "downloading") => Has(downloads, l, "downloading")
    BY <1>0, <1>13, RetryIs, WithStatusOnly DEF Shell!Statuses
  <2>. QED  BY <1>13, <2>1, <1>a, <1>b, RetryIs
<1>14. CASE Restart
  BY <1>0, <1>14, RestartIs, RestoredHas DEF LookedAfter
<1>. QED  BY <1>1, <1>2, <1>3, <1>4, <1>5, <1>6, <1>7, <1>8, <1>9, <1>10, <1>11,
             <1>12, <1>13, <1>14, Zenon DEF Next, User

LEMMA NothingMissedStep == Typed /\ NothingMissed /\ [Next]_vars => NothingMissed'
<1> SUFFICES ASSUME Typed, NothingMissed, [Next]_vars PROVE NothingMissed'
  OBVIOUS
<1>a. ASSUME changed' PROVE NothingMissed'
  BY <1>a DEF NothingMissed
<1>b. ASSUME changed' = changed, due' = due, server' = server, shown' = shown,
             downloads' = downloads, processing' = processing
      PROVE  NothingMissed'
  BY <1>b DEF NothingMissed
<1>1. CASE UNCHANGED vars
  <2>1. UNCHANGED <<downloads, shown, processing>> /\ changed' = changed
        /\ due' = due /\ server' = server
    BY <1>1, Zenon DEF vars, refs
  <2>. QED  BY <2>1, <1>b
<1>2. CASE Render
  BY <1>2, RenderIs DEF NothingMissed
<1>3. CASE Effects
  <2>1. EffectsRun
    BY <1>3, EffectsAre DEF Typed
  <2>2. CASE StartsNone
    BY <2>1, <2>2, EffectsRunIs, StartsNoneIs DEF NothingMissed
  <2>3. ASSUME NEW t \in Transfers, NEW k \in Keys, Starts(t, k) PROVE NothingMissed'
    BY <2>3, <1>a, StartsIs
  <2>. QED  BY <1>3, <2>2, <2>3, EffectsAre DEF Typed
<1>4. CASE OnProgress
  BY <1>4, <1>a, OnProgressIs
<1>5. ASSUME NEW t \in Transfers, Resolved(t) PROVE NothingMissed'
  BY <1>5, <1>b, ResolvedIs
<1>6. ASSUME NEW t \in Transfers, Rejected(t) PROVE NothingMissed'
  BY <1>6, <1>a, RejectedIs
<1>7. ASSUME UNCHANGED webview PROVE NothingMissed'
  BY <1>7, <1>b, WebviewRests
<1>8. ASSUME NEW k \in Keys, QueueDownload(k) PROVE NothingMissed'
  BY <1>8, <1>a, <1>b, QueueIs
<1>9. ASSUME NEW k \in Keys, \/ Timer(k) \/ CancelDownload(k)
                             \/ DeleteDownload(k) \/ RetryDownload(k)
      PROVE  NothingMissed'
  BY <1>9, <1>a, TimerIs, CancelDownloadIs, DeleteDownloadIs, RetryIs
<1>10. CASE ServerChanges \/ Restart
  BY <1>10, <1>a, ServerChangesIs, RestartIs
<1>. QED  BY <1>1, <1>2, <1>3, <1>4, <1>5, <1>6, <1>7, <1>8, <1>9, <1>10, Zenon
          DEF Next, User, Transfer, Serve

\* What the queue and its transfers owe each other.
Accounts == EventsTrue /\ LookedAfter /\ NothingMissed

LEMMA AccountsInitially == Init => Accounts
<1> SUFFICES ASSUME Init PROVE Accounts
  OBVIOUS
<1>1. EventsTrue
  BY DEF Init, Shell!Init, EventsTrue, EndFollows, EndsOnce
<1>2. LookedAfter
  BY DEF Init, LookedAfter, Has
<1>3. NothingMissed
  BY DEF Init, NothingMissed, Has
<1>. QED  BY <1>1, <1>2, <1>3 DEF Accounts

LEMMA AccountsStep == Typed /\ Accounts /\ [Next]_vars => Accounts'
BY EventsStep, LookedAfterStep, NothingMissedStep DEF Accounts

\* When nothing moves, nothing waits: whatever failed, was cancelled, removed
\* or restarted, no item is left waiting for a slot that nobody will free, or
\* shown as downloading with no transfer behind it.
THEOREM QueueNeverStalls == Spec => []NoStall
<1>1. Typed /\ Accounts => NoStall
  <2> SUFFICES ASSUME Typed, Accounts, Quiet, server, NEW k \in Keys
               PROVE  StatusIn(downloads, k) \notin {"queued", "downloading"}
    BY DEF NoStall, Unsettled
  <2>1. /\ downloads \in Lists /\ processing \subseteq Keys
        /\ timers \in [Keys -> Nat]
    BY DEF Typed, TypeOK
  <2>2. ~changed /\ ~due /\ shown = downloads
    BY DEF Quiet, Accounts, NothingMissed
  <2>3. \A t \in Transfers : ~Owes(t)
    BY DEF Quiet, Owes, Busy, Over
  <2>4. \A l \in Keys : ~Has(downloads, l, "downloading")
    BY <2>3 DEF Accounts, LookedAfter, Behind
  <2>5. processing = {}
    BY <2>1, <2>3 DEF Quiet, Accounts, LookedAfter, Behind
  <2>6. \A l : Has(downloads, l, "downloading") => l \in Keys
    BY <2>1, StatusOfItem
  <2>7. ~Has(downloads, k, "queued")
    BY <2>2, <2>4, <2>5, <2>6 DEF Accounts, NothingMissed
  <2>. QED  BY <2>1, <2>4, <2>7, StatusInHas
<1>. QED  BY <1>1, TypedInitially, TypedStep, AccountsInitially, AccountsStep, PTL
          DEF Spec

-----------------------------------------------------------------------------
(* One transfer for an item that the user leaves alone. *)

\* The user has neither retried nor deleted k by hand.
Calm(k) == undone[k] \cap {"retry", "delete"} = {}

\* k is in the list and nothing makes it start.
NotQueued(k) == /\ k \in KeysOf(downloads)
                /\ ~Has(downloads, k, "queued")
                /\ due => ~Has(shown, k, "queued")

Alone == \A k \in Keys : Calm(k) =>
            /\ k \in KeysOf(shown) => k \in KeysOf(downloads)
            /\ \A t, u \in Transfers : Live(t, k) /\ Live(u, k) => t = u
            /\ \A t \in Transfers : Live(t, k) => NotQueued(k)

\* What a step may do to what is undone.
LEMMA UndoneGrows ==
    ASSUME Typed, [Next]_vars
    PROVE  \A k \in Keys :
              /\ undone[k] \subseteq undone'[k]
              /\ Calm(k)' => Calm(k)
              /\ CancelDownload(k) => "cancel" \in undone'[k]
              /\ RetryDownload(k) \/ DeleteDownload(k) => ~Calm(k)'
<1>0. undone \in [Keys -> SUBSET {"cancel", "delete", "retry"}]
  BY DEF Typed, TypeOK
<1>1. ASSUME undone' = undone
      PROVE  \A k \in Keys : undone[k] \subseteq undone'[k]
  BY <1>1
<1>2. ASSUME NEW k \in Keys, CancelDownload(k)
      PROVE  /\ \A l \in Keys : undone[l] \subseteq undone'[l]
             /\ "cancel" \in undone'[k]
  BY <1>0, <1>2, CancelDownloadIs
<1>3. ASSUME NEW k \in Keys, DeleteDownload(k)
      PROVE  /\ \A l \in Keys : undone[l] \subseteq undone'[l]
             /\ "delete" \in undone'[k]
  BY <1>0, <1>3, DeleteDownloadIs
<1>4. ASSUME NEW k \in Keys, RetryDownload(k)
      PROVE  /\ \A l \in Keys : undone[l] \subseteq undone'[l]
             /\ "retry" \in undone'[k]
  BY <1>0, <1>4, RetryIs
<1>5. \/ undone' = undone
      \/ \E k \in Keys : CancelDownload(k) \/ DeleteDownload(k) \/ RetryDownload(k)
  <2>1. UNCHANGED vars => undone' = undone
    BY Zenon DEF vars, history
  <2>2. Render => undone' = undone
    BY RenderIs
  <2>3. Effects => undone' = undone
    BY EffectsAre, EffectsRunIs DEF Typed
  <2>4. OnProgress => undone' = undone
    BY OnProgressIs
  <2>5. \A t \in Transfers : Resolved(t) \/ Rejected(t) => undone' = undone
    BY ResolvedIs, RejectedIs
  <2>6. UNCHANGED webview => undone' = undone
    BY WebviewRests
  <2>7. \A k \in Keys : Timer(k) \/ QueueDownload(k) => undone' = undone
    BY TimerIs, QueueIs
  <2>8. ServerChanges \/ Restart => undone' = undone
    BY ServerChangesIs, RestartIs
  <2>. QED  BY <2>1, <2>2, <2>3, <2>4, <2>5, <2>6, <2>7, <2>8, Zenon
            DEF Next, User, Transfer, Serve
<1>6. \A k \in Keys : undone[k] \subseteq undone'[k]
  BY <1>1, <1>2, <1>3, <1>4, <1>5
<1>. QED  BY <1>2, <1>3, <1>4, <1>6 DEF Calm

\* What happens to the list of an item that is left alone.
LEMMA CalmKept ==
    ASSUME Typed, [Next]_vars, ~Restart, NEW k \in Keys, Calm(k)'
    PROVE  /\ k \in KeysOf(downloads) => k \in KeysOf(downloads')
           /\ k \in KeysOf(shown') => k \in KeysOf(shown) \/ k \in KeysOf(downloads)
           /\ \/ NotQueued(k) => NotQueued(k)'
              \/ \E t \in Transfers : Rejected(t) /\ call[t].key = k
<1>0. downloads \in Lists
  BY DEF Typed, TypeOK
<1> DEFINE Kept1 == k \in KeysOf(downloads) => k \in KeysOf(downloads')
           Kept2 == k \in KeysOf(shown') => k \in KeysOf(shown) \/ k \in KeysOf(downloads)
           Kept3 == NotQueued(k) => NotQueued(k)'
<1>a. ASSUME downloads' = downloads, shown' = shown, due' => due
      PROVE  Kept1 /\ Kept2 /\ Kept3
  BY <1>a DEF NotQueued
<1>b. ASSUME NEW l \in Keys, NEW st \in Shell!Statuses \cup {"queued"},
             st # "queued" \/ l # k,
             downloads' = WithStatus(downloads, l, st), shown' = shown, due' => due
      PROVE  Kept1 /\ Kept2 /\ Kept3
  <2>1. /\ KeysOf(downloads') = KeysOf(downloads)
        /\ Has(downloads', k, "queued") => Has(downloads, k, "queued")
    BY <1>0, <1>b, WithStatusHas, WithStatusOnly
  <2>. QED  BY <1>b, <2>1 DEF NotQueued
<1>1. ASSUME UNCHANGED vars PROVE Kept1 /\ Kept2 /\ Kept3
  <2>1. downloads' = downloads /\ shown' = shown /\ due' = due
    BY <1>1, Zenon DEF vars
  <2>. QED  BY <2>1, <1>a
<1>2. ASSUME Render PROVE Kept1 /\ Kept2 /\ Kept3
  BY <1>2, RenderIs DEF NotQueued
<1>3. ASSUME Effects PROVE Kept1 /\ Kept2 /\ Kept3
  <2>1. EffectsRun
    BY <1>3, EffectsAre DEF Typed
  <2>2. CASE StartsNone
    BY <2>1, <2>2, <1>a, EffectsRunIs, StartsNoneIs
  <2>3. ASSUME NEW t \in Transfers, NEW l \in Keys, Starts(t, l)
        PROVE  Kept1 /\ Kept2 /\ Kept3
    BY <2>1, <2>3, <1>b, EffectsRunIs, StartsIs DEF Shell!Statuses
  <2>. QED  BY <1>3, <2>2, <2>3, EffectsAre DEF Typed
<1>4. ASSUME OnProgress PROVE Kept1 /\ Kept2 /\ Kept3
  <2>1. "queued" \notin Shell!Statuses
    BY DEF Shell!Statuses
  <2>2. PICK l \in Keys, st \in Shell!Statuses :
           /\ downloads' = WithStatus(downloads, l, st)
           /\ shown' = shown /\ due' = due
    BY <1>4, OnProgressIs
  <2>. QED  BY <2>1, <2>2, <1>b
<1>5. ASSUME NEW t \in Transfers, Resolved(t) PROVE Kept1 /\ Kept2 /\ Kept3
  BY <1>5, <1>a, ResolvedIs
<1>6. ASSUME NEW t \in Transfers, Rejected(t)
      PROVE  /\ Kept1 /\ Kept2
             /\ Kept3 \/ call[t].key = k
  <2>1. PICK l \in Keys, st \in {"queued", "error"} :
           /\ l = call[t].key
           /\ downloads' = WithStatus(downloads, l, st)
           /\ shown' = shown /\ due' = due
    BY <1>6, RejectedIs
  <2>2. st \in Shell!Statuses \cup {"queued"}
    BY DEF Shell!Statuses
  <2>3. KeysOf(downloads') = KeysOf(downloads)
    BY <1>0, <2>1, <2>2, WithStatusHas
  <2>4. l # k => Kept3
    BY <2>1, <2>2, <1>b
  <2>. QED  BY <2>1, <2>3, <2>4
<1>7. ASSUME UNCHANGED webview PROVE Kept1 /\ Kept2 /\ Kept3
  BY <1>7, <1>a, WebviewRests
<1>8. ASSUME NEW l \in Keys, Timer(l) PROVE Kept1 /\ Kept2 /\ Kept3
  BY <1>8, <1>a, TimerIs
<1>9. ASSUME NEW l \in Keys, QueueDownload(l) PROVE Kept1 /\ Kept2 /\ Kept3
  <2>1. CASE downloads' = downloads
    BY <1>9, <2>1, <1>a, QueueIs
  <2>2. CASE downloads' # downloads
    <3>1. /\ l \notin KeysOf(downloads) /\ shown' = shown /\ due' = due
          /\ downloads' = Append(downloads, [key |-> l, status |-> "queued"])
      BY <1>9, <2>2, QueueIs
    <3>2. /\ KeysOf(downloads') = KeysOf(downloads) \cup {l}
          /\ l # k => (Has(downloads', k, "queued") <=> Has(downloads, k, "queued"))
      BY <1>0, <3>1, AppendHas
    <3>. QED  BY <3>1, <3>2 DEF NotQueued
  <2>. QED  BY <2>1, <2>2
<1>10. ASSUME NEW l \in Keys, CancelDownload(l) PROVE Kept1 /\ Kept2 /\ Kept3
  BY <1>10, <1>b, CancelDownloadIs DEF Shell!Statuses
<1>11. ASSUME NEW l \in Keys, DeleteDownload(l) PROVE Kept1 /\ Kept2 /\ Kept3
  <2>1. l # k
    BY <1>11, UndoneGrows
  <2>2. /\ KeysOf(downloads') = KeysOf(downloads) \ {l}
        /\ Has(downloads', k, "queued") => Has(downloads, k, "queued")
        /\ shown' = shown /\ due' = due
    BY <1>0, <1>11, DeleteDownloadIs, WithoutHas
  <2>. QED  BY <2>1, <2>2 DEF NotQueued
<1>12. ASSUME NEW l \in Keys, RetryDownload(l) PROVE Kept1 /\ Kept2 /\ Kept3
  <2>1. l # k
    BY <1>12, UndoneGrows
  <2>. QED  BY <1>12, <2>1, <1>b, RetryIs
<1>13. ASSUME ServerChanges PROVE Kept1 /\ Kept2 /\ Kept3
  BY <1>13, <1>a, ServerChangesIs
<1>. HIDE DEF Kept1, Kept2, Kept3
<1>14. Kept1 /\ Kept2 /\ (Kept3 \/ \E t \in Transfers : Rejected(t) /\ call[t].key = k)
  BY <1>1, <1>2, <1>3, <1>4, <1>5, <1>6, <1>7, <1>8, <1>9, <1>10, <1>11, <1>12,
     <1>13, Zenon DEF Next, User, Transfer, Serve
<1>. QED  BY <1>14 DEF Kept1, Kept2, Kept3

\* The effects start transfer t for k.
Started(t, k) == EffectsRun /\ Starts(t, k)

\* An event of t's end is under way.
EndTold(t) == \E i \in DOMAIN events : events[i].by = t /\ Ends(events[i])

\* A transfer that is there, is at work or owes its end was and did before the
\* step, unless it was started by it.
LEMMA LiveBefore ==
    ASSUME Typed, [Next]_vars, NEW t \in Transfers, NEW k
    PROVE  /\ Live(t, k)' => Live(t, k) \/ Started(t, k)
           /\ Live(t, k)' /\ Busy(t)' => (Live(t, k) /\ Busy(t)) \/ Started(t, k)
           /\ Behind(t, k)' => Behind(t, k) \/ Started(t, k)
           /\ Resolved(t) \/ Rejected(t) \/ Restart =>
                 ~Live(t, k)' /\ ~Busy(t)'
<1> DEFINE Was == /\ Live(t, k)' => Live(t, k) \/ Started(t, k)
                  /\ Live(t, k)' /\ Busy(t)' =>
                        (Live(t, k) /\ Busy(t)) \/ Started(t, k)
                  /\ Behind(t, k)' => Behind(t, k) \/ Started(t, k)
<1>a. ASSUME call'[t].key = call[t].key, call'[t].pc = call[t].pc,
             call'[t].ok = call[t].ok, EndTold(t)' => EndTold(t)
      PROVE  Was
  BY <1>a DEF Live, Busy, Behind, Owes, EndTold
<1>b. ASSUME call'[t].pc = "none", ~EndTold(t)'
      PROVE  Was /\ ~Live(t, k)' /\ ~Busy(t)'
  BY <1>b DEF Live, Busy, Behind, Owes, EndTold, Over
<1>1. ASSUME call' = call, events' = events PROVE Was
  BY <1>1, <1>a DEF EndTold
<1>2. ASSUME Effects PROVE Was
  <2>1. EffectsRun
    BY <1>2, EffectsAre DEF Typed
  <2>2. CASE StartsNone
    BY <2>1, <2>2, <1>1, EffectsRunIs, StartsNoneIs
  <2>3. ASSUME NEW u \in Transfers, NEW l \in Keys, Starts(u, l) PROVE Was
    <3>1. /\ Shell!Begin(u, l) /\ events' = events
      BY <2>1, <2>3, EffectsRunIs, StartsIs
    <3>2. CASE u # t
      BY <3>1, <3>2, <1>a, BeginIs DEF EndTold
    <3>3. CASE u = t /\ l = k
      BY <2>1, <2>3, <3>3 DEF Started
    <3>4. CASE u = t /\ l # k
      <4>1. call'[t].key # k
        BY <3>1, <3>4, BeginIs
      <4>. QED  BY <4>1 DEF Live, Behind
    <3>. QED  BY <3>2, <3>3, <3>4
  <2>. QED  BY <1>2, <2>2, <2>3, EffectsAre DEF Typed
<1>3. ASSUME OnProgress PROVE Was
  <2>1. events # <<>> /\ events' = Tail(events) /\ call' = call
    BY <1>3, OnProgressIs
  <2>2. \A i \in DOMAIN events' : \E j \in DOMAIN events : events'[i] = events[j]
    BY <2>1, FirstEvent
  <2>. QED  BY <2>1, <2>2, <1>a DEF EndTold
<1>4. ASSUME NEW u \in Transfers, Resolved(u) \/ Rejected(u)
      PROVE  Was /\ (u = t => ~Live(t, k)' /\ ~Busy(t)')
  <2>1. Shell!Collect(u) /\ events' = events
    BY <1>4, ResolvedIs, RejectedIs
  <2>2. CASE u = t
    <3>1. call'[t].pc = "none" /\ ~EndTold(t)'
      BY <2>1, <2>2, CollectIs, CollectedIs DEF EndTold
    <3>. QED  BY <2>2, <3>1, <1>b
  <2>3. CASE u # t
    <3>1. call'[t] = call[t]
      BY <2>1, <2>3, CollectedIs
    <3>. QED  BY <2>1, <2>3, <3>1, <1>a DEF EndTold
  <2>. QED  BY <2>2, <2>3
<1>5. ASSUME NEW u \in Transfers, Transfer(u) PROVE Was
  <2>1. Goes(u)
    BY <1>5, GoesIs, Zenon DEF Transfer
  <2>2. EndTold(t)' => EndTold(t) \/ (u = t /\ call[t].pc \notin Over)
    <3>1. CASE EmitsNothing(u)
      BY <3>1 DEF EmitsNothing, EndTold
    <3>2. ASSUME NEW st \in Shell!Statuses, Emits(u, st)
          PROVE  EndTold(t)' => EndTold(t) \/ (u = t /\ call[t].pc \notin Over)
      <4>1. \A i \in DOMAIN events' :
               \/ i \in DOMAIN events /\ events'[i] = events[i]
               \/ events'[i].by = u
        BY <2>1, <3>2, EmittedIs DEF Goes
      <4>2. call[u].pc \notin Over
        BY <3>2 DEF Emits
      <4>. QED  BY <4>1, <4>2 DEF EndTold, Ends
    <3>. QED  BY <2>1, <3>1, <3>2 DEF Goes
  <2>3. CASE u # t
    BY <2>1, <2>2, <2>3, <1>a DEF Goes
  <2>4. CASE u = t /\ call[t].pc \in Over
    <3>1. /\ call'[t].pc \in Over /\ call'[t].ok = call[t].ok
          /\ call'[t].key = call[t].key /\ call[t].pc # "none"
          /\ EndTold(t)' => EndTold(t)
      BY <2>1, <2>2, <2>4 DEF Goes
    <3>. QED  BY <2>4, <3>1 DEF Live, Busy, Behind, Owes, EndTold
  <2>5. CASE u = t /\ call[t].pc \notin Over
    <3>1. Busy(t) /\ call'[t].key = call[t].key /\ call[t].pc # "none"
      BY <2>1, <2>5 DEF Goes, Busy
    <3>. QED  BY <3>1 DEF Live, Behind, Owes
  <2>. QED  BY <2>3, <2>4, <2>5
<1>6. ASSUME NEW l \in Keys, Serve(l) PROVE Was
  BY <1>6, <1>a, CancelIs, DeleteIs DEF Serve, Shell!RunCommand, EndTold
<1>7. ASSUME \/ UNCHANGED vars \/ Render \/ ServerChanges
             \/ \E l \in Keys : Timer(l) \/ User(l)
      PROVE  Was
  <2>1. UNCHANGED vars => call' = call /\ events' = events
    BY Zenon DEF vars, shell
  <2>2. \A l \in Keys : Timer(l) \/ User(l) => call' = call /\ events' = events
    BY TimerIs, QueueIs, CancelDownloadIs, DeleteDownloadIs, RetryIs DEF User
  <2>. QED  BY <1>1, <1>7, <2>1, <2>2, RenderIs, ServerChangesIs
<1>8. ASSUME Restart PROVE Was /\ ~Live(t, k)' /\ ~Busy(t)'
  <2>1. call'[t].pc = "none" /\ events' = <<>>
    BY <1>8, RestartIs
  <2>. QED  BY <2>1, <1>b DEF EndTold
<1>. HIDE DEF Was
<1>9. Was
  BY <1>1, <1>2, <1>3, <1>4, <1>5, <1>6, <1>7, <1>8, Zenon DEF Next
<1>. QED  BY <1>4, <1>8, <1>9 DEF Was

\* What a start needs: a commit whose effects run, that shows k as queued and
\* nothing as downloading.
LEMMA StartedIs ==
    ASSUME Typed, NEW t \in Transfers, NEW k, Started(t, k)
    PROVE  /\ due /\ ~due' /\ Has(shown, k, "queued") /\ k \in Keys
           /\ \A l : ~Has(shown, l, "downloading")
           /\ k \in KeysOf(shown)
           /\ downloads' = WithStatus(downloads, k, "downloading")
           /\ shown' = shown /\ call[t].pc = "none"
           /\ UNCHANGED <<wish, toasts, undone, commands, events>>
<1>1. EffectsRun /\ Starts(t, k) /\ shown \in Lists
  BY DEF Started, Typed, TypeOK
<1>. QED  BY <1>1, EffectsRunIs, StartsIs, BeginIs, StatusOfItem

LEMMA AloneStep == Typed /\ Alone /\ [Next]_vars => Alone'
<1> SUFFICES ASSUME Typed, Alone, [Next]_vars, NEW k \in Keys, Calm(k)'
             PROVE  /\ k \in KeysOf(shown') => k \in KeysOf(downloads')
                    /\ \A t, u \in Transfers : Live(t, k)' /\ Live(u, k)' => t = u
                    /\ \A t \in Transfers : Live(t, k)' => NotQueued(k)'
  BY DEF Alone
<1>0. /\ downloads \in Lists /\ Calm(k)
      /\ k \in KeysOf(shown) => k \in KeysOf(downloads)
      /\ \A t, u \in Transfers : Live(t, k) /\ Live(u, k) => t = u
      /\ \A t \in Transfers : Live(t, k) => NotQueued(k)
  BY UndoneGrows DEF Alone, Typed, TypeOK
<1>1. CASE Restart
  <2>1. KeysOf(shown') = {}
    BY <1>1, RestartIs DEF KeysOf
  <2>. QED  BY <1>1, <2>1, LiveBefore
<1>2. CASE ~Restart
  <2>1. k \in KeysOf(shown') => k \in KeysOf(downloads')
    BY <1>0, <1>2, CalmKept
  \* The item is not shown as queued as long as it has a transfer.
  <2>2. ASSUME NEW t \in Transfers, NEW u \in Transfers, Live(t, k), Started(u, k)
        PROVE  FALSE
    BY <1>0, <2>2, StartedIs DEF NotQueued
  <2>3. ASSUME NEW t \in Transfers, NEW u \in Transfers, Live(t, k)', Live(u, k)'
        PROVE  t = u
    <3>1. CASE Live(t, k) /\ Live(u, k)
      BY <1>0, <3>1
    <3>2. CASE ~(Live(t, k) /\ Live(u, k))
      <4>1. Started(t, k) \/ Started(u, k)
        BY <2>3, <3>2, LiveBefore
      <4>2. Started(t, k) /\ Started(u, k)
        BY <2>2, <2>3, <4>1, LiveBefore
      <4>3. Shell!Begin(t, k) /\ Shell!Begin(u, k)
        BY <4>2, StartsIs DEF Started
      <4>4. t # u => call'[u] = call[u] /\ call'[u].pc = "start" /\ call[u].pc = "none"
        BY <4>3, BeginIs
      <4>. QED  BY <4>4
    <3>. QED  BY <3>1, <3>2
  <2>4. ASSUME NEW t \in Transfers, Live(t, k)' PROVE NotQueued(k)'
    <3>1. CASE Live(t, k)
      <4>1. ASSUME NEW u \in Transfers, Rejected(u), call[u].key = k PROVE FALSE
        <5>1. call[u].pc # "none"
          BY <4>1, RejectedIs, CollectIs
        <5>2. u = t
          BY <1>0, <3>1, <4>1, <5>1 DEF Live
        <5>. QED  BY <2>4, <4>1, <5>2, LiveBefore
      <4>. QED  BY <1>0, <1>2, <3>1, <4>1, CalmKept
    <3>2. CASE Started(t, k)
      <4>1. /\ ~due' /\ k \in KeysOf(downloads)
            /\ downloads' = WithStatus(downloads, k, "downloading")
        BY <1>0, <3>2, StartedIs
      <4>2. k \in KeysOf(downloads') /\ ~Has(downloads', k, "queued")
        BY <1>0, <4>1, WithStatusHas DEF Shell!Statuses
      <4>. QED  BY <4>1, <4>2 DEF NotQueued
    <3>. QED  BY <2>4, <3>1, <3>2, LiveBefore
  <2>. QED  BY <2>1, <2>3, <2>4
<1>. QED  BY <1>1, <1>2

\* A transfer at work on an item that is left alone is seen as downloading,
\* and keeps others from being started.
Seen(k) == /\ Has(downloads, k, "downloading")
           /\ due => Has(shown, k, "downloading")

WorkSeen == \A t \in Transfers, k \in Keys :
               undone[k] = {} /\ Live(t, k) /\ Busy(t) => Seen(k)

OneAtWork == \A t, u \in Transfers, k, l \in Keys :
                /\ undone[k] = {} /\ Live(t, k) /\ Busy(t)
                /\ undone[l] = {} /\ Live(u, l) /\ Busy(u)
                => t = u

LEMMA SeenStep ==
    ASSUME Typed, EventsTrue, Alone, [Next]_vars, NEW t \in Transfers,
           NEW k \in Keys, undone'[k] = {}, Live(t, k), Busy(t), Live(t, k)',
           Seen(k)
    PROVE  Seen(k)'
<1>0. /\ downloads \in Lists /\ undone[k] = {} /\ Calm(k)
      /\ \A u \in Transfers : Live(u, k) => u = t
      /\ k \in KeysOf(downloads)
  <2>1. undone[k] = {} /\ Calm(k) /\ downloads \in Lists
    BY UndoneGrows DEF Calm, Typed, TypeOK
  <2>. QED  BY <2>1, StatusOfItem DEF Alone, Seen
<1>a. ASSUME downloads' = downloads, shown' = shown, due' => due PROVE Seen(k)'
  BY <1>a DEF Seen
<1>b. ASSUME NEW l \in Keys, NEW st \in Shell!Statuses \cup {"queued"},
             st = "downloading" \/ l # k,
             downloads' = WithStatus(downloads, l, st), shown' = shown, due' => due
      PROVE  Seen(k)'
  <2>1. Has(downloads', k, "downloading")
    BY <1>0, <1>b, WithStatusHas DEF Seen
  <2>. QED  BY <1>b, <2>1 DEF Seen
<1>1. CASE UNCHANGED vars
  <2>1. downloads' = downloads /\ shown' = shown /\ due' = due
    BY <1>1, Zenon DEF vars
  <2>. QED  BY <2>1, <1>a
<1>2. CASE Render
  BY <1>2, RenderIs DEF Seen
<1>3. CASE Effects
  <2>1. EffectsRun
    BY <1>3, EffectsAre DEF Typed
  <2>2. CASE StartsNone
    BY <2>1, <2>2, <1>a, EffectsRunIs, StartsNoneIs
  <2>3. ASSUME NEW u \in Transfers, NEW l \in Keys, Starts(u, l) PROVE Seen(k)'
    BY <2>1, <2>3, <1>b, EffectsRunIs, StartsIs DEF Shell!Statuses
  <2>. QED  BY <1>3, <2>2, <2>3, EffectsAre DEF Typed
<1>4. CASE OnProgress
  <2> DEFINE e == events[1]
  <2>1. /\ 1 \in DOMAIN events /\ e.by \in Transfers
        /\ e.key \in Keys /\ e.status \in Shell!Statuses
        /\ downloads' = WithStatus(downloads, e.key, e.status)
        /\ shown' = shown /\ due' = due
    BY <1>4, OnProgressIs
  <2>2. TrueOf(call[e.by], e)
    BY <2>1 DEF EventsTrue
  <2>. HIDE DEF e
  <2>3. e.key = k => e.status = "downloading"
    <3>1. ASSUME e.key = k PROVE e.by = t
      BY <1>0, <2>1, <2>2, <3>1 DEF TrueOf, Live, Sent, Over
    <3>. QED  BY <2>2, <3>1 DEF TrueOf, Ends, Busy
  <2>4. PICK l \in Keys, st \in Shell!Statuses : l = e.key /\ st = e.status
    BY <2>1
  <2>. QED  BY <2>1, <2>3, <2>4, <1>b
<1>5. ASSUME NEW u \in Transfers, Resolved(u) PROVE Seen(k)'
  BY <1>5, <1>a, ResolvedIs
<1>6. ASSUME NEW u \in Transfers, Rejected(u) PROVE Seen(k)'
  <2>1. PICK l \in Keys, st \in {"queued", "error"} :
           /\ l = call[u].key
           /\ downloads' = WithStatus(downloads, l, st)
           /\ shown' = shown /\ due' = due
    BY <1>6, RejectedIs
  <2>2. st \in Shell!Statuses \cup {"queued"}
    BY DEF Shell!Statuses
  <2>3. l # k
    <3>1. call[u].pc = "returned"
      BY <1>6, RejectedIs, CollectIs
    <3>. QED  BY <1>0, <2>1, <3>1 DEF Live, Busy, Over
  <2>. QED  BY <2>1, <2>2, <2>3, <1>b
<1>7. ASSUME UNCHANGED webview PROVE Seen(k)'
  BY <1>7, <1>a, WebviewRests
<1>8. ASSUME NEW l \in Keys, Timer(l) PROVE Seen(k)'
  BY <1>8, <1>a, TimerIs
<1>9. ASSUME NEW l \in Keys, QueueDownload(l) PROVE Seen(k)'
  <2>1. CASE downloads' = downloads
    BY <1>9, <2>1, <1>a, QueueIs
  <2>2. CASE downloads' # downloads
    <3>1. /\ l \notin KeysOf(downloads) /\ shown' = shown /\ due' = due
          /\ downloads' = Append(downloads, [key |-> l, status |-> "queued"])
      BY <1>9, <2>2, QueueIs
    <3>2. Has(downloads', k, "downloading")
      BY <1>0, <3>1, AppendHas DEF Seen
    <3>. QED  BY <3>1, <3>2 DEF Seen
  <2>. QED  BY <2>1, <2>2
<1>10. ASSUME NEW l \in Keys, CancelDownload(l) PROVE Seen(k)'
  <2>1. l # k
    BY <1>10, UndoneGrows
  <2>. QED  BY <1>10, <2>1, <1>b, CancelDownloadIs DEF Shell!Statuses
<1>11. ASSUME NEW l \in Keys, DeleteDownload(l) PROVE Seen(k)'
  <2>1. l # k
    BY <1>11, UndoneGrows DEF Calm
  <2>2. Has(downloads', k, "downloading") /\ shown' = shown /\ due' = due
    BY <1>0, <1>11, <2>1, DeleteDownloadIs, WithoutHas DEF Seen
  <2>. QED  BY <2>2 DEF Seen
<1>12. ASSUME NEW l \in Keys, RetryDownload(l) PROVE Seen(k)'
  <2>1. l # k
    BY <1>12, UndoneGrows DEF Calm
  <2>. QED  BY <1>12, <2>1, <1>b, RetryIs
<1>13. CASE ServerChanges
  BY <1>13, <1>a, ServerChangesIs
<1>14. CASE Restart
  BY <1>14, LiveBefore
<1>. QED  BY <1>1, <1>2, <1>3, <1>4, <1>5, <1>6, <1>7, <1>8, <1>9, <1>10, <1>11,
             <1>12, <1>13, <1>14, Zenon DEF Next, User, Transfer, Serve

LEMMA WorkStep ==
    /\ Typed /\ EventsTrue /\ Alone /\ WorkSeen /\ OneAtWork /\ [Next]_vars
    => WorkSeen' /\ OneAtWork'
<1> SUFFICES ASSUME Typed, EventsTrue, Alone, WorkSeen, OneAtWork, [Next]_vars
             PROVE  WorkSeen' /\ OneAtWork'
  OBVIOUS
<1>0. downloads \in Lists /\ shown \in Lists
  BY DEF Typed, TypeOK
<1>1. ASSUME NEW t \in Transfers, NEW k \in Keys, undone'[k] = {},
             Live(t, k)', Busy(t)'
      PROVE  Seen(k)'
  <2>1. undone[k] = {} /\ Calm(k)
    BY <1>1, UndoneGrows DEF Calm
  <2>2. CASE Live(t, k) /\ Busy(t)
    <3>1. Seen(k)
      BY <2>1, <2>2 DEF WorkSeen
    <3>. QED  BY <1>1, <2>2, <3>1, SeenStep
  <2>3. CASE Started(t, k)
    <3>1. k \in KeysOf(downloads)
      BY <2>1, <2>3, StartedIs DEF Alone
    <3>2. Has(downloads', k, "downloading") /\ ~due'
      BY <1>0, <2>3, <3>1, StartedIs, WithStatusHas DEF Shell!Statuses
    <3>. QED  BY <3>2 DEF Seen
  <2>. QED  BY <1>1, <2>2, <2>3, LiveBefore
<1>2. ASSUME NEW t \in Transfers, NEW u \in Transfers, NEW k \in Keys, NEW l \in Keys,
             undone'[k] = {}, Live(t, k)', Busy(t)',
             undone'[l] = {}, Live(u, l)', Busy(u)', t # u
      PROVE  FALSE
  <2>1. undone[k] = {} /\ undone[l] = {}
    BY <1>2, UndoneGrows
  <2>2. ASSUME NEW v \in Transfers, NEW m \in Keys, NEW w \in Transfers, NEW n \in Keys,
               Live(v, m), Busy(v), undone[m] = {}, Started(w, n)
        PROVE  FALSE
    BY <2>2, StartedIs DEF WorkSeen, Seen
  <2>3. CASE Live(t, k) /\ Busy(t) /\ Live(u, l) /\ Busy(u)
    BY <1>2, <2>1, <2>3 DEF OneAtWork
  <2>4. CASE Started(t, k) /\ Started(u, l)
    <3>1. Shell!Begin(t, k) /\ Shell!Begin(u, l)
      BY <2>4, StartsIs DEF Started
    <3>2. call'[u] = call[u] /\ call'[u].pc = "start" /\ call[u].pc = "none"
      BY <1>2, <3>1, BeginIs
    <3>. QED  BY <3>2
  <2>. QED  BY <1>2, <2>1, <2>2, <2>3, <2>4, LiveBefore
<1>. QED  BY <1>1, <1>2 DEF WorkSeen, OneAtWork

LEMMA AloneInitially == Init => Alone /\ WorkSeen /\ OneAtWork
BY DEF Init, Shell!Init, Shell!NoCall, Alone, WorkSeen, OneAtWork, Live, KeysOf

\* Two transfers are at work together only when the user has cancelled,
\* retried or deleted one of the items: no failure and no retry of the queue
\* itself, and no restart, makes two responses of the server overlap.
THEOREM OneGetWhenUndisturbed == Spec => []OneGetUndisturbed
<1>1. Typed /\ OneAtWork => OneGetUndisturbed
  <2> SUFFICES ASSUME Typed, OneAtWork, NEW t \in Transfers, NEW u \in Transfers,
                      Shell!Getting(t), Shell!Getting(u), t # u
               PROVE  \E k \in {call[t].key, call[u].key} : undone[k] # {}
    BY DEF OneGetUndisturbed
  <2>1. Busy(t) /\ Busy(u) /\ call[t].pc # "none" /\ call[u].pc # "none"
    BY DEF Shell!Getting, Busy, Over
  <2>2. call[t].key \in Keys /\ call[u].key \in Keys
    BY <2>1, ShellTypes
  <2>. QED  BY <2>1, <2>2 DEF OneAtWork, Live
<1>. QED  BY <1>1, TypedInitially, TypedStep, AccountsInitially, EventsStep,
             AloneInitially, AloneStep, WorkStep, PTL DEF Spec, Accounts

-----------------------------------------------------------------------------
(* The user is told once. *)

CancelAsked(k) == [name |-> "cancel", key |-> k] \in commands
CancelOf(k)    == \E t \in Transfers : Live(t, k) /\ call[t].cancelled
CancelTold(k)  == \E i \in DOMAIN events :
                     events[i].key = k /\ events[i].status = "cancelled"

\* A notice that is due for k: of a completion, or of a last failure.
Completes(k) == OnProgress /\ events[1].key = k /\ events[1].status = "complete"
Rejects(k)   == \E t \in Transfers : Rejected(t) /\ call[t].key = k

\* The user queues an item that is not in the list.
Fresh(k) == QueueDownload(k) /\ k \notin KeysOf(downloads)

\* A notice was given once, and nothing can give another.
Told == \A k \in Keys : Calm(k) /\ toasts[k] # <<>> =>
           /\ Len(toasts[k]) = 1 /\ NotQueued(k)
           /\ \A t \in Transfers : ~Behind(t, k)

\* No cancellation is on its way to an item that the user wants.
NoCancel == \A k \in Keys : Calm(k) =>
               /\ CancelAsked(k) => k \in KeysOf(downloads)
               /\ wish[k] = "want" => /\ ~CancelAsked(k) /\ ~CancelOf(k)
                                      /\ ~CancelTold(k)

\* A notice about it was given or is to come.
WillTell == \A k \in Keys : Calm(k) /\ wish[k] = "want" =>
               \/ Has(downloads, k, "queued")
               \/ \E t \in Transfers : Behind(t, k)
               \/ toasts[k] # <<>>

LEMMA ToastIs ==
    ASSUME TypeOK, NEW k \in Keys, NEW kind, Toast(k, kind)
    PROVE  /\ toasts[k] = <<>> => Len(toasts'[k]) = 1
           /\ toasts'[k] # <<>>
           /\ \A l \in Keys : l # k => toasts'[l] = toasts[l]
<1>1. toasts \in [Keys -> Seq({"success", "failure"})]
  BY DEF TypeOK
<1>2. toasts' = [toasts EXCEPT ![k] = IF Len(@) < 2 THEN Append(@, kind) ELSE @]
  BY DEF Toast
<1>3. toasts'[k] = IF Len(toasts[k]) < 2 THEN Append(toasts[k], kind) ELSE toasts[k]
  BY <1>1, <1>2
<1>4. toasts[k] \in Seq({"success", "failure"} \cup {kind})
  BY <1>1
<1>5. /\ Append(toasts[k], kind) # <<>>
      /\ Len(Append(toasts[k], kind)) = Len(toasts[k]) + 1
  BY <1>4, AppendProperties
<1>6. Len(<<>>) = 0
  OBVIOUS
<1>7. toasts'[k] # <<>>
  BY <1>3, <1>5, <1>6
<1>8. toasts[k] = <<>> => Len(toasts'[k]) = 1
  BY <1>3, <1>5, <1>6
<1>. QED  BY <1>1, <1>2, <1>7, <1>8

\* What a step does to what the user wants and has been told of k.
LEMMA NoticesAre ==
    ASSUME Typed, [Next]_vars, NEW k \in Keys
    PROVE  \/ /\ wish'[k] = wish[k]
              /\ toasts'[k] = toasts[k] \/ Completes(k) \/ Rejects(k)
           \/ /\ toasts'[k] = <<>>
              /\ wish'[k] = "want" => RetryDownload(k) \/ Fresh(k)
<1> DEFINE Kept1 == /\ wish'[k] = wish[k]
                    /\ toasts'[k] = toasts[k] \/ Completes(k) \/ Rejects(k)
           Reset == /\ toasts'[k] = <<>>
                    /\ wish'[k] = "want" => RetryDownload(k) \/ Fresh(k)
<1>0. /\ wish \in [Keys -> {"none", "want", "cancel"}]
      /\ toasts \in [Keys -> Seq({"success", "failure"})]
  BY DEF Typed, TypeOK
<1>a. ASSUME NEW l \in Keys, NEW w, Wishes(l, w)
      PROVE  /\ l # k => Kept1
             /\ l = k => toasts'[k] = <<>> /\ wish'[k] = w
  BY <1>0, <1>a DEF Wishes
<1>1. ASSUME UNCHANGED <<wish, toasts>> PROVE Kept1
  BY <1>1
<1>2. ASSUME UNCHANGED vars PROVE Kept1
  <2>1. UNCHANGED <<wish, toasts>>
    BY <1>2, Zenon DEF vars, history
  <2>. QED  BY <2>1, <1>1
<1>3. ASSUME Render \/ ServerChanges PROVE Kept1
  BY <1>3, RenderIs, ServerChangesIs
<1>4. ASSUME Effects PROVE Kept1
  BY <1>4, EffectsAre, EffectsRunIs DEF Typed
<1>5. ASSUME OnProgress PROVE Kept1
  <2> DEFINE e == events[1]
  <2>1. /\ e.key \in Keys /\ wish' = wish
        /\ e.status = "complete" => Toast(e.key, "success")
        /\ e.status # "complete" => toasts' = toasts
    BY <1>5, OnProgressIs
  <2>2. CASE e.status # "complete"
    BY <2>1, <2>2
  <2>3. CASE e.status = "complete" /\ e.key = k
    BY <1>5, <2>1, <2>3 DEF Completes
  <2>4. CASE e.status = "complete" /\ e.key # k
    <3>. HIDE DEF e
    <3>1. toasts'[k] = toasts[k]
      BY <2>1, <2>4, ToastIs DEF Typed
    <3>. QED  BY <2>1, <3>1
  <2>. QED  BY <2>2, <2>3, <2>4
<1>6. ASSUME NEW t \in Transfers, Resolved(t) PROVE Kept1
  BY <1>6, ResolvedIs
<1>7. ASSUME NEW t \in Transfers, Rejected(t) PROVE Kept1
  <2>1. /\ call[t].key \in Keys /\ wish' = wish
        /\ toasts' = toasts \/ Toast(call[t].key, "failure")
    BY <1>7, RejectedIs
  <2>2. CASE call[t].key = k
    BY <1>7, <2>1, <2>2 DEF Rejects
  <2>3. CASE call[t].key # k
    <3>1. toasts'[k] = toasts[k]
      BY <2>1, <2>3, ToastIs DEF Typed
    <3>. QED  BY <2>1, <3>1
  <2>. QED  BY <2>2, <2>3
<1>8. ASSUME UNCHANGED webview PROVE Kept1
  BY <1>8, WebviewRests
<1>9. ASSUME NEW l \in Keys, Timer(l) PROVE Kept1
  BY <1>9, TimerIs
<1>10. ASSUME NEW l \in Keys, QueueDownload(l) PROVE Kept1 \/ Reset
  <2>1. \/ UNCHANGED <<wish, toasts>>
        \/ l \notin KeysOf(downloads) /\ Wishes(l, "want")
    BY <1>10, QueueIs
  <2>2. CASE l = k
    BY <1>10, <2>1, <2>2, <1>a DEF Fresh
  <2>3. CASE l # k
    <3>1. UNCHANGED <<wish, toasts>> \/ Wishes(l, "want")
      BY <2>1
    <3>. QED  BY <2>3, <3>1, <1>a, <1>1
  <2>. QED  BY <2>2, <2>3
<1>11. ASSUME NEW l \in Keys, CancelDownload(l) PROVE Kept1 \/ Reset
  <2>1. Wishes(l, "cancel")
    BY <1>11, CancelDownloadIs
  <2>. QED  BY <2>1, <1>a
<1>12. ASSUME NEW l \in Keys, DeleteDownload(l) PROVE Kept1 \/ Reset
  <2>1. Wishes(l, "none")
    BY <1>12, DeleteDownloadIs
  <2>. QED  BY <2>1, <1>a
<1>13. ASSUME NEW l \in Keys, RetryDownload(l) PROVE Kept1 \/ Reset
  <2>1. Wishes(l, "want")
    BY <1>13, RetryIs
  <2>. QED  BY <1>13, <2>1, <1>a
<1>14. ASSUME Restart PROVE Reset
  BY <1>14, RestartIs
<1>. HIDE DEF Kept1, Reset
<1>15. Kept1 \/ Reset
  BY <1>2, <1>3, <1>4, <1>5, <1>6, <1>7, <1>8, <1>9, <1>10, <1>11, <1>12, <1>13,
     <1>14, Zenon DEF Next, User, Transfer, Serve
<1>. QED  BY <1>15 DEF Kept1, Reset

\* What a step does to the cancellations that are on their way to k.
LEMMA CancelsAre ==
    ASSUME Typed, [Next]_vars, NEW k \in Keys
    PROVE  /\ CancelAsked(k)' => CancelAsked(k) \/ CancelDownload(k)
           /\ CancelOf(k)' => CancelOf(k) \/ CancelAsked(k)
           /\ CancelTold(k)' => CancelTold(k) \/ CancelOf(k)
<1> DEFINE Asked == CancelAsked(k)' => CancelAsked(k) \/ CancelDownload(k)
           Of == CancelOf(k)' => CancelOf(k) \/ CancelAsked(k)
           ToldOf == CancelTold(k)' => CancelTold(k) \/ CancelOf(k)
<1>1. ASSUME events' = events,
             \A t \in Transfers : call'[t] = call[t] \/ call'[t].pc = "none"
      PROVE  Of /\ ToldOf
  BY <1>1 DEF CancelOf, CancelTold, Live
<1>2. ASSUME commands' \subseteq commands PROVE Asked
  BY <1>2 DEF CancelAsked
<1>3. ASSUME UNCHANGED shell PROVE Asked /\ Of /\ ToldOf
  <2>1. UNCHANGED <<call, commands, events>>
    BY <1>3, Zenon DEF shell
  <2>. QED  BY <2>1, <1>1, <1>2
<1>4. ASSUME Render \/ ServerChanges \/ UNCHANGED vars PROVE Asked /\ Of /\ ToldOf
  <2>1. UNCHANGED shell
    BY <1>4, Zenon DEF Render, ServerChanges, vars
  <2>. QED  BY <2>1, <1>3
<1>5. ASSUME Effects PROVE Asked /\ Of /\ ToldOf
  <2>1. commands' = commands /\ events' = events
    BY <1>5, EffectsAre, EffectsRunIs DEF Typed
  <2>2. CASE StartsNone
    BY <2>1, <2>2, <1>1, <1>2, StartsNoneIs
  <2>3. ASSUME NEW t \in Transfers, NEW l \in Keys, Starts(t, l)
        PROVE  Asked /\ Of /\ ToldOf
    <3>1. /\ ~call'[t].cancelled
          /\ \A u \in Transfers : u # t => call'[u] = call[u]
      BY <2>3, StartsIs, BeginIs
    <3>. QED  BY <2>1, <3>1, <1>2 DEF CancelOf, CancelTold, Live
  <2>. QED  BY <1>5, <2>2, <2>3, EffectsAre DEF Typed
<1>6. ASSUME OnProgress PROVE Asked /\ Of /\ ToldOf
  <2>1. /\ events # <<>> /\ events' = Tail(events)
        /\ call' = call /\ commands' = commands
    BY <1>6, OnProgressIs
  <2>2. \A i \in DOMAIN events' : \E j \in DOMAIN events : events'[i] = events[j]
    BY <2>1, FirstEvent
  <2>. QED  BY <2>1, <2>2, <1>2 DEF CancelOf, CancelTold, Live
<1>7. ASSUME NEW t \in Transfers, Resolved(t) \/ Rejected(t) PROVE Asked /\ Of /\ ToldOf
  <2>1. Shell!Collect(t) /\ events' = events /\ commands' = commands
    BY <1>7, ResolvedIs, RejectedIs
  <2>. QED  BY <2>1, <1>1, <1>2, CollectedIs
<1>8. ASSUME NEW t \in Transfers, Transfer(t) PROVE Asked /\ Of /\ ToldOf
  <2>1. Goes(t)
    BY <1>8, GoesIs, Zenon DEF Transfer
  <2>2. Asked
    BY <2>1, <1>2 DEF Goes
  <2>3. Of
    BY <2>1 DEF Goes, CancelOf, Live
  <2>4. CASE EmitsNothing(t)
    BY <2>2, <2>3, <2>4 DEF EmitsNothing, CancelTold
  <2>5. ASSUME NEW st \in Shell!Statuses, Emits(t, st) PROVE ToldOf
    <3>1. \A i \in DOMAIN events' :
             \/ i \in DOMAIN events /\ events'[i] = events[i]
             \/ events'[i].key = call[t].key /\ events'[i].status = st
      BY <2>1, <2>5, EmittedIs DEF Goes
    <3>2. call[t].pc # "none" /\ (st = "cancelled" => call[t].cancelled)
      BY <2>1, <2>5 DEF Goes, Emits
    <3>. QED  BY <3>1, <3>2 DEF CancelTold, CancelOf, Live
  <2>. QED  BY <2>1, <2>2, <2>3, <2>4, <2>5 DEF Goes
<1>9. ASSUME NEW l \in Keys, Serve(l) PROVE Asked /\ Of /\ ToldOf
  <2>1. CASE Shell!Cancel(l)
    <3>1. /\ events' = events /\ CancelAsked(l) /\ commands' \subseteq commands
          /\ \A t \in Transfers : /\ call'[t].key = call[t].key
                                  /\ call'[t].pc = call[t].pc
                                  /\ call'[t] = call[t] \/ call[t].key = l
      BY <2>1, CancelIs DEF CancelAsked
    <3>2. Of
      BY <3>1 DEF CancelOf, Live
    <3>. QED  BY <3>1, <3>2, <1>2 DEF CancelTold
  <2>2. CASE Shell!Delete(l)
    BY <2>2, <1>1, <1>2, DeleteIs
  <2>. QED  BY <1>9, <2>1, <2>2 DEF Serve, Shell!RunCommand
<1>10. ASSUME NEW l \in Keys, Timer(l) \/ QueueDownload(l) \/ RetryDownload(l)
       PROVE  Asked /\ Of /\ ToldOf
  <2>1. UNCHANGED shell
    BY <1>10, Zenon DEF Timer, QueueDownload, RetryDownload
  <2>. QED  BY <2>1, <1>3
<1>11. ASSUME NEW l \in Keys, CancelDownload(l) PROVE Asked /\ Of /\ ToldOf
  <2>1. /\ commands' = commands \cup {[name |-> "cancel", key |-> l]}
        /\ UNCHANGED <<call, events>>
    BY <1>11, CancelDownloadIs
  <2>2. l # k => [name |-> "cancel", key |-> k] # [name |-> "cancel", key |-> l]
    OBVIOUS
  <2>. QED  BY <1>11, <2>1, <2>2, <1>1 DEF CancelAsked
<1>12. ASSUME NEW l \in Keys, DeleteDownload(l) PROVE Asked /\ Of /\ ToldOf
  <2>1. /\ commands' = commands \cup {[name |-> "delete", key |-> l]}
        /\ UNCHANGED <<call, events>>
    BY <1>12, DeleteDownloadIs
  <2>2. [name |-> "cancel", key |-> k] # [name |-> "delete", key |-> l]
    OBVIOUS
  <2>. QED  BY <2>1, <2>2, <1>1 DEF CancelAsked
<1>13. ASSUME Restart PROVE Asked /\ Of /\ ToldOf
  BY <1>13, RestartIs DEF CancelAsked, CancelOf, CancelTold, Live
<1>. HIDE DEF Asked, Of, ToldOf
<1>14. Asked /\ Of /\ ToldOf
  BY <1>4, <1>5, <1>6, <1>7, <1>8, <1>9, <1>10, <1>11, <1>12, <1>13, Zenon
     DEF Next, User
<1>. QED  BY <1>14 DEF Asked, Of, ToldOf

\* What owes its end is there; whose end the webview hears of, or is handed,
\* owed it.
LEMMA OwedBefore ==
    ASSUME Typed, EventsTrue
    PROVE  /\ \A t \in Transfers : \A k : Behind(t, k) => Live(t, k)
           /\ \A t \in Transfers : Rejected(t) =>
                 Behind(t, call[t].key) /\ Live(t, call[t].key)
           /\ OnProgress =>
                 /\ Live(events[1].by, events[1].key)
                 /\ TrueOf(call[events[1].by], events[1])
                 /\ Ends(events[1]) => Behind(events[1].by, events[1].key)
<1>1. ASSUME NEW t \in Transfers, Rejected(t)
      PROVE  Behind(t, call[t].key) /\ Live(t, call[t].key)
  BY <1>1, RejectedIs, CollectIs DEF Behind, Owes, Over, Live
<1>2. ASSUME OnProgress
      PROVE  /\ Live(events[1].by, events[1].key)
             /\ TrueOf(call[events[1].by], events[1])
             /\ Ends(events[1]) => Behind(events[1].by, events[1].key)
  <2>1. 1 \in DOMAIN events
    BY <1>2, OnProgressIs
  <2>2. TrueOf(call[events[1].by], events[1])
    BY <2>1 DEF EventsTrue
  <2>. QED  BY <2>1, <2>2 DEF TrueOf, Live, Sent, Over, Behind, Owes
<1>3. ASSUME NEW t \in Transfers, NEW k, Behind(t, k) PROVE Live(t, k)
  <2>1. \A i \in DOMAIN events : events[i].by = t => call[t].pc \in Sent
    BY DEF EventsTrue, TrueOf
  <2>. QED  BY <1>3, <2>1 DEF Behind, Owes, Busy, Over, Sent, Live
<1>. QED  BY <1>1, <1>2, <1>3

LEMMA ToldStep == Typed /\ EventsTrue /\ Alone /\ Told /\ [Next]_vars => Told'
<1> SUFFICES ASSUME Typed, EventsTrue, Alone, Told, [Next]_vars,
                    NEW k \in Keys, Calm(k)', toasts'[k] # <<>>
             PROVE  /\ Len(toasts'[k]) = 1 /\ NotQueued(k)'
                    /\ \A t \in Transfers : ~Behind(t, k)'
  BY DEF Told
<1>0. /\ downloads \in Lists /\ TypeOK /\ ~Restart /\ Calm(k)
      /\ \A t, u \in Transfers : Live(t, k) /\ Live(u, k) => t = u
      /\ \A t \in Transfers : Live(t, k) => NotQueued(k)
      /\ toasts[k] # <<>> => /\ Len(toasts[k]) = 1 /\ NotQueued(k)
                             /\ \A t \in Transfers : ~Behind(t, k)
  <2>1. ~Restart
    BY RestartIs
  <2>. QED  BY <2>1, UndoneGrows DEF Alone, Told, Typed, TypeOK
\* An item that is not queued is not started, so that nothing new is owed.
<1>a. ASSUME NotQueued(k), NEW t \in Transfers, Behind(t, k)'
      PROVE  Behind(t, k)
  BY <1>a, LiveBefore, StartedIs DEF NotQueued
<1>1. CASE toasts'[k] = toasts[k]
  <2>1. \A t \in Transfers : ~(Rejected(t) /\ call[t].key = k)
    BY <1>0, <1>1, OwedBefore
  <2>2. NotQueued(k)'
    BY <1>0, <1>1, <2>1, CalmKept
  <2>. QED  BY <1>0, <1>1, <1>a, <2>2
<1>2. CASE Completes(k)
  <2> DEFINE e == events[1]
  <2>1. /\ OnProgress /\ e.key = k /\ e.status = "complete" /\ Ends(e)
        /\ e.by \in Transfers
    BY <1>2, OnProgressIs DEF Completes, Ends
  <2>2. /\ Live(e.by, k) /\ Behind(e.by, k)
        /\ call[e.by].pc \in Over /\ call[e.by].ok
    BY <2>1, OwedBefore DEF TrueOf
  <2>3. toasts[k] = <<>> /\ NotQueued(k)
    BY <1>0, <2>1, <2>2
  <2>4. Len(toasts'[k]) = 1
    <3>1. Toast(k, "success")
      BY <2>1, OnProgressIs
    <3>. QED  BY <1>0, <2>3, <3>1, ToastIs
  <2>5. NotQueued(k)'
    <3>1. downloads' = WithStatus(downloads, k, "complete") /\ shown' = shown /\ due' = due
      BY <2>1, OnProgressIs
    <3>2. k \in KeysOf(downloads') /\ ~Has(downloads', k, "queued")
      BY <1>0, <2>3, <3>1, WithStatusHas DEF NotQueued, Shell!Statuses
    <3>. QED  BY <2>3, <3>1, <3>2 DEF NotQueued
  <2>6. ASSUME NEW t \in Transfers, Behind(t, k)' PROVE FALSE
    <3>1. events # <<>> /\ events' = Tail(events) /\ call' = call /\ 1 \in DOMAIN events
      BY <2>1, OnProgressIs
    <3>2. Behind(t, k)
      BY <1>a, <2>3, <2>6
    <3>3. t = e.by
      BY <1>0, <2>1, <2>2, <3>2, OwedBefore
    <3>4. PICK i \in DOMAIN events' : events'[i].by = t /\ Ends(events'[i])
      <4>1. call'[t].pc \in Over /\ call'[t].ok
        BY <2>2, <3>1, <3>3
      <4>. QED  BY <2>6, <4>1 DEF Behind, Owes, Busy, Ends
    <3>5. i \in 1..(Len(events) - 1) /\ i + 1 \in DOMAIN events
          /\ events'[i] = events[i + 1]
      BY <3>1, <3>4, FirstEvent
    <3>6. i + 1 = 1
      BY <2>1, <3>1, <3>3, <3>4, <3>5 DEF EventsTrue, EndsOnce, Ends
    <3>. QED  BY <3>5, <3>6
  <2>. QED  BY <2>4, <2>5, <2>6
<1>3. CASE Rejects(k) /\ toasts'[k] # toasts[k]
  <2>1. PICK t \in Transfers : Rejected(t) /\ call[t].key = k
    BY <1>3 DEF Rejects
  <2>2. Live(t, k) /\ Behind(t, k)
    BY <2>1, OwedBefore
  <2>3. toasts[k] = <<>> /\ NotQueued(k)
    BY <1>0, <2>2
  <2>4. /\ downloads' = WithStatus(downloads, k, "error") /\ Toast(k, "failure")
        /\ shown' = shown /\ due' = due
    BY <1>3, <2>1, RejectedIs
  <2>5. Len(toasts'[k]) = 1
    BY <1>0, <2>3, <2>4, ToastIs
  <2>6. NotQueued(k)'
    <3>1. k \in KeysOf(downloads') /\ ~Has(downloads', k, "queued")
      BY <1>0, <2>3, <2>4, WithStatusHas DEF NotQueued, Shell!Statuses
    <3>. QED  BY <2>3, <2>4, <3>1 DEF NotQueued
  <2>7. ASSUME NEW u \in Transfers, Behind(u, k)' PROVE FALSE
    <3>1. Behind(u, k)
      BY <1>a, <2>3, <2>7
    <3>2. u = t
      BY <1>0, <2>2, <3>1, OwedBefore
    <3>3. Shell!Collect(t) /\ events' = events
      BY <2>1, RejectedIs
    <3>4. /\ call'[t].pc = "none" /\ \A i \in DOMAIN events : events[i].by # t
      BY <3>3, CollectIs, CollectedIs
    <3>. QED  BY <2>7, <3>2, <3>3, <3>4 DEF Shell!Collect, Shell!NoCall, Behind, Owes, Busy, Over, Ends
  <2>. QED  BY <2>5, <2>6, <2>7
<1>. QED  BY <1>0, <1>1, <1>2, <1>3, NoticesAre

\* Nobody can cancel an item that is not there, and nothing is behind it.
LEMMA NothingOfFresh ==
    ASSUME Typed, EventsTrue, Alone, NoCancel, NEW k \in Keys, Calm(k),
           k \notin KeysOf(downloads)
    PROVE  ~CancelAsked(k) /\ ~CancelOf(k) /\ ~CancelTold(k)
<1>1. \A t \in Transfers : ~Live(t, k)
  BY DEF Alone, NotQueued
<1>2. ~CancelTold(k)
  <2> SUFFICES ASSUME NEW i \in DOMAIN events, events[i].key = k PROVE FALSE
    BY DEF CancelTold
  <2>1. TrueOf(call[events[i].by], events[i]) /\ events[i].by \in Transfers
    BY EventsTyped DEF EventsTrue
  <2>. QED  BY <1>1, <2>1 DEF TrueOf, Sent, Over, Live
<1>. QED  BY <1>1, <1>2 DEF NoCancel, CancelOf

LEMMA NoCancelStep ==
    Typed /\ EventsTrue /\ Alone /\ NoCancel /\ [Next]_vars => NoCancel'
<1> SUFFICES ASSUME Typed, EventsTrue, Alone, NoCancel, [Next]_vars,
                    NEW k \in Keys, Calm(k)'
             PROVE  /\ CancelAsked(k)' => k \in KeysOf(downloads')
                    /\ wish'[k] = "want" =>
                          ~CancelAsked(k)' /\ ~CancelOf(k)' /\ ~CancelTold(k)'
  BY DEF NoCancel
<1>0. /\ Calm(k) /\ shown \in Lists /\ ~RetryDownload(k)
      /\ k \in KeysOf(shown) => k \in KeysOf(downloads)
      /\ CancelAsked(k) => k \in KeysOf(downloads)
      /\ wish[k] = "want" => ~CancelAsked(k) /\ ~CancelOf(k) /\ ~CancelTold(k)
  BY UndoneGrows DEF Alone, NoCancel, Typed, TypeOK
<1>1. ASSUME CancelDownload(k)
      PROVE  k \in KeysOf(downloads) /\ wish'[k] # "want"
  <2>1. StatusIn(shown, k) # "absent" /\ Wishes(k, "cancel")
    BY <1>1, CancelDownloadIs
  <2>2. wish'[k] = "cancel"
    BY <2>1 DEF Wishes, Typed, TypeOK
  <2>. QED  BY <1>0, <2>1, <2>2, StatusInHas
<1>2. ASSUME CancelAsked(k)' PROVE k \in KeysOf(downloads')
  <2>1. ~Restart
    BY <1>2, RestartIs DEF CancelAsked
  <2>. QED  BY <1>0, <1>1, <1>2, <2>1, CancelsAre, CalmKept
<1>3. ASSUME wish'[k] = "want"
      PROVE  ~CancelAsked(k)' /\ ~CancelOf(k)' /\ ~CancelTold(k)'
  <2>1. wish[k] = "want" \/ Fresh(k)
    BY <1>0, <1>3, NoticesAre
  <2>2. ~CancelAsked(k) /\ ~CancelOf(k) /\ ~CancelTold(k)
    BY <1>0, <2>1, NothingOfFresh DEF Fresh
  <2>. QED  BY <1>1, <1>3, <2>2, CancelsAre
<1>. QED  BY <1>2, <1>3

\* An item that waits for a slot does so until a transfer is behind it, or the
\* user wants something else.
LEMMA StillQueued ==
    ASSUME Typed, EventsTrue, Alone, [Next]_vars, ~Restart, NEW k \in Keys,
           Calm(k)', wish'[k] = "want", Has(downloads, k, "queued")
    PROVE  Has(downloads', k, "queued") \/ \E t \in Transfers : Behind(t, k)'
<1> DEFINE Goal == Has(downloads', k, "queued") \/ \E t \in Transfers : Behind(t, k)'
<1>0. /\ downloads \in Lists /\ Calm(k) /\ k \in KeysOf(downloads)
      /\ \A t \in Transfers : ~Live(t, k)
  <2>1. downloads \in Lists /\ Calm(k)
    BY UndoneGrows DEF Typed, TypeOK
  <2>. QED  BY <2>1, StatusOfItem DEF Alone, NotQueued
<1>a. ASSUME NEW l \in Keys, l # k, NEW st \in Shell!Statuses \cup {"queued"},
             downloads' = WithStatus(downloads, l, st)
      PROVE  Goal
  BY <1>0, <1>a, WithStatusHas
<1>1. ASSUME downloads' = downloads PROVE Goal
  BY <1>1
<1>2. ASSUME UNCHANGED vars PROVE downloads' = downloads
  BY <1>2, Zenon DEF vars
<1>3. ASSUME Effects PROVE Goal
  <2>1. EffectsRun
    BY <1>3, EffectsAre DEF Typed
  <2>2. CASE StartsNone
    BY <2>2, <1>1, StartsNoneIs
  <2>3. ASSUME NEW t \in Transfers, NEW l \in Keys, Starts(t, l) PROVE Goal
    <3>1. CASE l = k
      BY <2>1, <2>3, <3>1, EffectsRunIs, StartsIs, BeginBehind
    <3>2. CASE l # k
      BY <2>3, <3>2, <1>a, StartsIs DEF Shell!Statuses
    <3>. QED  BY <3>1, <3>2
  <2>. QED  BY <1>3, <2>2, <2>3, EffectsAre DEF Typed
<1>4. ASSUME OnProgress PROVE Goal
  <2>1. /\ events[1].key # k /\ events[1].key \in Keys
        /\ events[1].status \in Shell!Statuses
        /\ downloads' = WithStatus(downloads, events[1].key, events[1].status)
    BY <1>0, <1>4, OnProgressIs, OwedBefore
  <2>. QED  BY <2>1, <1>a
<1>5. ASSUME NEW t \in Transfers, Rejected(t) PROVE Goal
  <2>1. PICK st \in {"queued", "error"} :
           downloads' = WithStatus(downloads, call[t].key, st)
    BY <1>5, RejectedIs
  <2>2. call[t].key # k /\ call[t].key \in Keys
    BY <1>0, <1>5, RejectedIs, OwedBefore
  <2>3. st \in Shell!Statuses \cup {"queued"}
    BY DEF Shell!Statuses
  <2>. QED  BY <2>1, <2>2, <2>3, <1>a
<1>6. ASSUME NEW l \in Keys, QueueDownload(l) PROVE Goal
  <2>1. CASE downloads' = downloads
    BY <2>1, <1>1
  <2>2. CASE downloads' # downloads
    <3>1. /\ l \notin KeysOf(downloads)
          /\ downloads' = Append(downloads, [key |-> l, status |-> "queued"])
      BY <1>6, <2>2, QueueIs
    <3>2. l # k
      BY <1>0, <3>1
    <3>. QED  BY <1>0, <3>1, <3>2, AppendHas
  <2>. QED  BY <2>1, <2>2
<1>7. ASSUME NEW l \in Keys, CancelDownload(l) PROVE Goal
  <2>1. Wishes(l, "cancel") /\ downloads' = WithStatus(downloads, l, "cancelled")
    BY <1>7, CancelDownloadIs
  <2>2. l # k
    BY <2>1 DEF Wishes, Typed, TypeOK
  <2>. QED  BY <2>1, <2>2, <1>a DEF Shell!Statuses
<1>8. ASSUME NEW l \in Keys, DeleteDownload(l) PROVE Goal
  <2>1. l # k
    BY <1>8, UndoneGrows
  <2>. QED  BY <1>0, <1>8, <2>1, DeleteDownloadIs, WithoutHas
<1>9. ASSUME NEW l \in Keys, RetryDownload(l) PROVE Goal
  <2>1. l # k
    BY <1>9, UndoneGrows
  <2>. QED  BY <1>9, <2>1, <1>a, RetryIs
<1>10. ASSUME \/ Render \/ ServerChanges
              \/ \E t \in Transfers : Resolved(t) \/ Transfer(t)
              \/ \E l \in Keys : Timer(l) \/ Serve(l)
       PROVE  downloads' = downloads
  <2>1. \A t \in Transfers : Transfer(t) => downloads' = downloads
    BY WebviewRests, Zenon DEF Transfer
  <2>2. \A l \in Keys : Serve(l) => downloads' = downloads
    BY WebviewRests, Zenon DEF Serve
  <2>. QED  BY <1>10, <2>1, <2>2, RenderIs, ServerChangesIs, ResolvedIs, TimerIs
<1>. HIDE DEF Goal
<1>11. Goal
  BY <1>1, <1>2, <1>3, <1>4, <1>5, <1>6, <1>7, <1>8, <1>9, <1>10, Zenon
     DEF Next, User
<1>. QED  BY <1>11 DEF Goal

\* A transfer owes its end until the item is queued again or the user is told.
LEMMA StillBehind ==
    ASSUME Typed, EventsTrue, Alone, NoCancel, [Next]_vars, ~Restart,
           NEW k \in Keys, Calm(k), wish[k] = "want",
           NEW t \in Transfers, Behind(t, k)
    PROVE  Behind(t, k)' \/ Has(downloads', k, "queued") \/ toasts'[k] # <<>>
<1> DEFINE Goal == \/ Behind(t, k)' \/ Has(downloads', k, "queued")
                   \/ toasts'[k] # <<>>
<1>0. downloads \in Lists /\ TypeOK
  BY DEF Typed, TypeOK
<1>a. ASSUME call' = call /\ events' = events PROVE Goal
  BY <1>a, SameBehind
<1>1. ASSUME UNCHANGED vars PROVE call' = call /\ events' = events
  BY <1>1, Zenon DEF vars, shell
<1>2. ASSUME \/ Render \/ ServerChanges \/ \E l \in Keys : Timer(l) \/ User(l)
      PROVE  call' = call /\ events' = events
  BY <1>2, RenderIs, ServerChangesIs, TimerIs, QueueIs, CancelDownloadIs,
     DeleteDownloadIs, RetryIs DEF User
<1>3. ASSUME Effects PROVE Goal
  <2>1. EffectsRun
    BY <1>3, EffectsAre DEF Typed
  <2>2. CASE StartsNone
    BY <2>1, <2>2, <1>a, EffectsRunIs, StartsNoneIs
  <2>3. ASSUME NEW u \in Transfers, NEW l \in Keys, Starts(u, l) PROVE Goal
    BY <2>1, <2>3, EffectsRunIs, StartsIs, BeginBehind
  <2>. QED  BY <1>3, <2>2, <2>3, EffectsAre DEF Typed
<1>4. ASSUME OnProgress PROVE Goal
  <2> DEFINE e == events[1]
  <2>1. /\ e.by \in Transfers /\ e.key \in Keys /\ e.status \in Shell!Statuses
        /\ 1 \in DOMAIN events
        /\ e.status = "complete" => Toast(e.key, "success")
        /\ call' = call
    BY <1>4, OnProgressIs
  <2>2. e.key # k \/ ~Ends(e) => Behind(t, k)'
    BY <1>4, HeardBehind
  <2>3. e.key = k => e.status # "cancelled"
    BY <2>1 DEF NoCancel, CancelTold
  <2>4. TrueOf(call[e.by], e) /\ Live(e.by, e.key)
    BY <1>4, OwedBefore
  <2>. HIDE DEF e
  <2>5. CASE e.key = k /\ e.status = "complete"
    BY <1>0, <2>1, <2>5, ToastIs
  <2>6. CASE e.key = k /\ e.status = "error"
    <3>1. t = e.by
      BY <2>1, <2>4, <2>6, OwedBefore DEF Alone
    <3>2. call[t].pc \in Over /\ ~call[t].ok
      BY <2>4, <2>6, <3>1 DEF TrueOf, Ends
    <3>. QED  BY <2>1, <3>2 DEF Behind, Owes, Busy
  <2>. QED  BY <2>1, <2>2, <2>3, <2>5, <2>6 DEF Ends, Shell!Statuses
<1>5. ASSUME NEW u \in Transfers, Resolved(u) PROVE Goal
  BY <1>5, ResolvedIs, CollectBehind DEF Behind
<1>6. ASSUME NEW u \in Transfers, Rejected(u) PROVE Goal
  <2>1. /\ Shell!Collect(u) /\ events' = events /\ call[u].key \in Keys
        /\ \/ downloads' = WithStatus(downloads, call[u].key, "queued")
           \/ Toast(call[u].key, "failure")
    BY <1>6, RejectedIs
  <2>2. CASE u # t
    BY <2>1, <2>2, CollectBehind
  <2>3. CASE u = t
    <3>1. call[u].key = k /\ k \in KeysOf(downloads)
      BY <2>3, OwedBefore DEF Alone, NotQueued, Behind
    <3>2. Toast(k, "failure") => toasts'[k] # <<>>
      BY <1>0, ToastIs
    <3>. QED  BY <1>0, <2>1, <3>1, <3>2, WithStatusHas
  <2>. QED  BY <2>2, <2>3
<1>7. ASSUME NEW u \in Transfers, Transfer(u) PROVE Goal
  <2>1. Goes(u)
    BY <1>7, GoesIs, Zenon DEF Transfer
  <2>. QED  BY <2>1, GoesBehind
<1>8. ASSUME NEW l \in Keys, Serve(l) PROVE Goal
  BY <1>8, CancelIs, DeleteIs, SameBehind DEF Serve, Shell!RunCommand
<1>. HIDE DEF Goal
<1>9. Goal
  BY <1>a, <1>1, <1>2, <1>3, <1>4, <1>5, <1>6, <1>7, <1>8, Zenon DEF Next
<1>. QED  BY <1>9 DEF Goal

LEMMA WillTellStep ==
    /\ Typed /\ EventsTrue /\ Alone /\ NoCancel /\ WillTell
    /\ [Next]_vars
    => WillTell'
<1> SUFFICES ASSUME Typed, EventsTrue, Alone, NoCancel, WillTell, [Next]_vars,
                    NEW k \in Keys, Calm(k)', wish'[k] = "want"
             PROVE  \/ Has(downloads', k, "queued")
                    \/ \E t \in Transfers : Behind(t, k)'
                    \/ toasts'[k] # <<>>
  BY DEF WillTell
<1>0. Calm(k) /\ ~RetryDownload(k) /\ ~Restart /\ TypeOK /\ downloads \in Lists
  BY UndoneGrows, RestartIs DEF Typed, TypeOK
<1>1. CASE Fresh(k)
  <2>1. downloads' = Append(downloads, [key |-> k, status |-> "queued"])
    BY <1>1, QueueIs DEF Fresh
  <2>. QED  BY <1>0, <1>1, <2>1, AppendHas DEF Fresh
<1>2. CASE ~Fresh(k)
  <2>1. /\ wish[k] = "want"
        /\ toasts'[k] = toasts[k] \/ Completes(k) \/ Rejects(k)
    BY <1>0, <1>2, NoticesAre
  <2>2. CASE Has(downloads, k, "queued")
    BY <1>0, <2>2, StillQueued
  <2>3. ASSUME NEW t \in Transfers, Behind(t, k)
        PROVE  Behind(t, k)' \/ Has(downloads', k, "queued") \/ toasts'[k] # <<>>
    BY <1>0, <2>1, <2>3, StillBehind
  \* A notice that was given stays until the user asks again.
  <2>4. ASSUME toasts[k] # <<>> PROVE toasts'[k] # <<>>
    <3>1. ASSUME Completes(k) PROVE toasts'[k] # <<>>
      <4>1. Toast(k, "success")
        BY <3>1, OnProgressIs DEF Completes
      <4>. QED  BY <1>0, <4>1, ToastIs
    <3>2. ASSUME Rejects(k) PROVE toasts'[k] # <<>>
      <4>1. toasts' = toasts \/ Toast(k, "failure")
        BY <3>2, RejectedIs DEF Rejects
      <4>. QED  BY <1>0, <2>4, <4>1, ToastIs
    <3>. QED  BY <2>1, <2>4, <3>1, <3>2
  <2>. QED  BY <1>0, <2>1, <2>2, <2>3, <2>4 DEF WillTell
<1>. QED  BY <1>1, <1>2

LEMMA NoticesInitially == Init => Told /\ NoCancel /\ WillTell
BY DEF Init, Shell!Init, Told, NoCancel, WillTell, CancelAsked

\* For an item that the user leaves alone, other than by a cancellation, there
\* is one notice at most of what became of it, and when everything is at rest
\* and it was wanted there is one: no end goes unheard and none is told twice.
THEOREM UserToldOnce == Spec => []ToldOnce
<1>1. Typed /\ Told /\ WillTell => ToldOnce
  <2> SUFFICES ASSUME Typed, Told, WillTell, NEW k \in Keys, Calm(k)
               PROVE  /\ Len(toasts[k]) <= 1
                      /\ Quiet /\ wish[k] = "want" /\ ~Unsettled(downloads, k) =>
                            Len(toasts[k]) = 1
    BY DEF ToldOnce, Calm
  <2>1. Len(toasts[k]) = 1 \/ toasts[k] = <<>>
    BY DEF Told
  <2>2. ASSUME Quiet, wish[k] = "want", ~Unsettled(downloads, k)
        PROVE  toasts[k] # <<>>
    <3>1. ~Has(downloads, k, "queued")
      BY <2>2, StatusInHas DEF Unsettled, Typed, TypeOK
    <3>2. \A t \in Transfers : ~Behind(t, k)
      BY <2>2 DEF Quiet, Behind, Owes, Busy, Over
    <3>. QED  BY <2>2, <3>1, <3>2 DEF WillTell
  <2>3. Len(<<>>) = 0
    OBVIOUS
  <2> DEFINE n == Len(toasts[k])
  <2>4. n = 1 \/ n = 0
    BY <2>1, <2>3, Zenon
  <2>. HIDE DEF n
  <2>5. n <= 1
    BY <2>4
  <2>. QED  BY <2>1, <2>2, <2>5, Zenon DEF n
<1>. QED  BY <1>1, TypedInitially, TypedStep, AccountsInitially, EventsStep,
             AloneInitially, AloneStep, NoticesInitially, ToldStep, NoCancelStep,
             WillTellStep, PTL DEF Spec, Accounts
=============================================================================
