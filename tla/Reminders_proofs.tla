--------------------------- MODULE Reminders_proofs ---------------------------
(***************************************************************************)
(* Proofs about Reminders, for any reminders, connections and restarts and *)
(* any number of removals at a time: the two maps, the timers and the      *)
(* removals, in which the connections play no part; and what every         *)
(* connection is told, for a channel of any size.                          *)
(***************************************************************************)
EXTENDS Reminders, TLAPS

Removal == [reminder : Reminders, cancelled : BOOLEAN]

MapTypes ==
    /\ reminders \in [Reminders -> {"none", "pending", "triggered"}]
    /\ timers \subseteq Reminders
    /\ adding \in [Reminders -> {"new", "stored", "spawned", "added"}]
    /\ task \in [Reminders -> {"none", "sleeping", "woken", "marked", "ended"}]
    /\ aborted \subseteq Reminders
    /\ removing \in [Removers -> Removal \cup {None}]
    /\ {removed, abandoned} \subseteq SUBSET Reminders

\* Some removal of r has been through the map of the timers, and not yet
\* through that of the records.
HalfRemoved(r) ==
    \E h \in Removers : removing[h] = [reminder |-> r, cancelled |-> TRUE]

\* There is no task before it is spawned.
SpawnedLast == \A r \in Reminders : adding[r] \in {"new", "stored"} => task[r] = "none"

\* A listed reminder has a timer, or an add to see to it, or was aborted.
ListedHasTimer ==
    \A r \in Reminders : reminders[r] = "pending" =>
        task[r] \in {"sleeping", "woken"} \/ adding[r] = "stored" \/ r \in aborted

\* A reminder whose timer is to be spawned, or sleeps, is in the list, unless a
\* removal overlapped.
TimerIsListed ==
    \A r \in Reminders : adding[r] = "stored" \/ task[r] = "sleeping" =>
        reminders[r] = "pending" \/ r \in overlapped

\* What an add has left: a sleeping timer has its handle in the map.
HandleIsKept ==
    \A r \in Reminders : adding[r] = "added" /\ task[r] = "sleeping" => r \in timers

\* Nobody aborts or removes what nobody has added.
Known ==
    /\ \A h \in Removers : removing[h] # None => adding[removing[h].reminder] # "new"
    /\ \A r \in removed \cup aborted : adding[r] # "new"
    /\ \A r \in Reminders : reminders[r] = "pending" => adding[r] # "new"

\* A timer is aborted by a removal, which drops the record next, or is dropped.
AbortedIsRemoved ==
    \A r \in aborted : reminders[r] = "pending" => HalfRemoved(r) \/ r \in abandoned

\* What was removed, and may ring all the same, was removed too early or too late.
GoneIsSilent ==
    \A r \in Reminders :
        /\ r \in removed \/ HalfRemoved(r)
        /\ adding[r] # "added" \/ task[r] \in {"sleeping", "woken", "marked"}
        => r \in overlapped

MapInv ==
    /\ MapTypes
    /\ SpawnedLast
    /\ ListedHasTimer
    /\ TimerIsListed
    /\ HandleIsKept
    /\ Known
    /\ AbortedIsRemoved
    /\ GoneIsSilent
    /\ RemovedIsSilent

-----------------------------------------------------------------------------
\* A remover that is idle has not half removed anything.
LEMMA NoneIsNoRemoval ==
    ASSUME NEW r \in Reminders, NEW b \in BOOLEAN
    PROVE  [reminder |-> r, cancelled |-> b] # None
BY ReminderAssumption

LEMMA MapInit == Init => MapInv
<1> SUFFICES ASSUME Init PROVE MapInv
  OBVIOUS
<1>1. \A r \in Reminders : ~HalfRemoved(r)
  BY NoneIsNoRemoval DEF Init, HalfRemoved
<1>2. MapTypes
  BY DEF Init, MapTypes
<1>3. SpawnedLast /\ ListedHasTimer /\ TimerIsListed /\ HandleIsKept /\ AbortedIsRemoved
  BY DEF Init, SpawnedLast, ListedHasTimer, TimerIsListed, HandleIsKept, AbortedIsRemoved
<1>4. Known /\ RemovedIsSilent
  BY DEF Init, Known, RemovedIsSilent
<1>5. GoneIsSilent
  BY <1>1 DEF Init, GoneIsSilent
<1> QED BY <1>2, <1>3, <1>4, <1>5 DEF MapInv

LEMMA MapStutter ==
    MapInv /\ UNCHANGED <<maps, adding, task, aborted, removing, removals>> => MapInv'
BY DEF MapInv, MapTypes, SpawnedLast, ListedHasTimer, TimerIsListed, HandleIsKept, Known,
     AbortedIsRemoved, GoneIsSilent, HalfRemoved, RemovedIsSilent, maps, removals

\* What the steps of a removal make of HalfRemoved.
LEMMA SameRemovals == removing' = removing => \A r : HalfRemoved(r)' <=> HalfRemoved(r)
BY DEF HalfRemoved

LEMMA RemoveStarts ==
    ASSUME NEW h \in Removers, NEW r \in Reminders, MapTypes, Remove(h, r)
    PROVE  \A q \in Reminders : HalfRemoved(q)' <=> HalfRemoved(q)
<1> SUFFICES ASSUME NEW q \in Reminders PROVE HalfRemoved(q)' <=> HalfRemoved(q)
  OBVIOUS
<1>1. /\ removing[h] = None
      /\ removing'[h] = [reminder |-> r, cancelled |-> FALSE]
      /\ \A g \in Removers : g # h => removing'[g] = removing[g]
  BY DEF Remove, MapTypes
<1>2. [reminder |-> r, cancelled |-> FALSE] # [reminder |-> q, cancelled |-> TRUE]
  OBVIOUS
<1>3. [reminder |-> q, cancelled |-> TRUE] # None
  BY NoneIsNoRemoval
<1>4. removing[h] # [reminder |-> q, cancelled |-> TRUE]
  BY <1>1, <1>3
<1>5. removing'[h] # [reminder |-> q, cancelled |-> TRUE]
  BY <1>1, <1>2
<1> QED BY <1>1, <1>4, <1>5, Zenon DEF HalfRemoved

LEMMA CancelHalfRemoves ==
    ASSUME NEW h \in Removers, MapTypes, Cancel(h)
    PROVE  /\ removing[h] \in Removal
           /\ removing[h].reminder \in Reminders
           /\ removing' \in [Removers -> Removal \cup {None}]
           /\ \A g \in Removers : g # h => removing'[g] = removing[g]
           /\ removing'[h] = [reminder |-> removing[h].reminder, cancelled |-> TRUE]
           /\ \A q \in Reminders :
                HalfRemoved(q)' <=> HalfRemoved(q) \/ q = removing[h].reminder
<1>1. removing[h] \in Removal
  BY DEF Cancel, MapTypes
<1>2. removing[h].reminder \in Reminders /\ ~removing[h].cancelled
  BY <1>1 DEF Removal, Cancel
<1>3. removing'[h] = [reminder |-> removing[h].reminder, cancelled |-> TRUE]
  BY <1>1 DEF Removal, Cancel, Cancelled, MapTypes
<1>4. \A g \in Removers : g # h => removing'[g] = removing[g]
  BY DEF Cancel, Cancelled, MapTypes
<1>5. removing'[h] \in Removal
  BY <1>2, <1>3 DEF Removal
<1>6. removing' \in [Removers -> Removal \cup {None}]
  <2>1. removing' = [g \in Removers |-> removing'[g]]
    BY DEF Cancel, Cancelled, MapTypes
  <2>2. \A g \in Removers : removing'[g] \in Removal \cup {None}
    BY <1>4, <1>5 DEF MapTypes
  <2> QED BY <2>1, <2>2
<1>7. ASSUME NEW q \in Reminders
      PROVE  HalfRemoved(q)' <=> HalfRemoved(q) \/ q = removing[h].reminder
  <2>1. removing[h] # [reminder |-> q, cancelled |-> TRUE]
    BY <1>2
  <2>2. removing'[h] = [reminder |-> q, cancelled |-> TRUE] <=> q = removing[h].reminder
    <3>1. [reminder |-> q, cancelled |-> TRUE].reminder = q
      OBVIOUS
    <3>2. removing'[h].reminder = removing[h].reminder
      BY <1>3
    <3>3. removing'[h] = [reminder |-> q, cancelled |-> TRUE] => q = removing[h].reminder
      BY <3>1, <3>2, Zenon
    <3>4. q = removing[h].reminder => removing'[h] = [reminder |-> q, cancelled |-> TRUE]
      BY <1>3, Zenon
    <3> QED BY <3>3, <3>4
  <2>3. HalfRemoved(q) => HalfRemoved(q)'
    BY <1>4, <2>1, Zenon DEF HalfRemoved
  <2>4. q = removing[h].reminder => HalfRemoved(q)'
    BY <2>2, Zenon DEF HalfRemoved
  <2>5. HalfRemoved(q)' => HalfRemoved(q) \/ q = removing[h].reminder
    BY <1>4, <2>2, Zenon DEF HalfRemoved
  <2> QED BY <2>3, <2>4, <2>5
<1> QED BY <1>1, <1>2, <1>3, <1>4, <1>6, <1>7

LEMMA DropEnds ==
    ASSUME NEW h \in Removers, MapTypes, DropRemoval(h)
    PROVE  /\ \A q \in Reminders :
                /\ HalfRemoved(q)' => HalfRemoved(q)
                /\ HalfRemoved(q) /\ q \in aborted => HalfRemoved(q)' \/ q \in abandoned'
           /\ abandoned \subseteq abandoned' /\ abandoned' \subseteq Reminders
           /\ removing' \in [Removers -> Removal \cup {None}]
           /\ \A g \in Removers : removing'[g] \in {removing[g], None}
<1>1. /\ removing'[h] = None /\ \A g \in Removers : g # h => removing'[g] = removing[g]
      /\ removing' \in [Removers -> Removal \cup {None}]
  BY DEF DropRemoval, MapTypes
<1>2. abandoned \subseteq abandoned' /\ abandoned' \subseteq Reminders
  BY DEF DropRemoval, MapTypes
<1>3. ASSUME NEW q \in Reminders
      PROVE  /\ HalfRemoved(q)' => HalfRemoved(q)
             /\ HalfRemoved(q) /\ q \in aborted => HalfRemoved(q)' \/ q \in abandoned'
  <2>1. removing'[h] # [reminder |-> q, cancelled |-> TRUE]
    BY <1>1, NoneIsNoRemoval
  <2>2. removing[h] = [reminder |-> q, cancelled |-> TRUE]
          => removing[h].cancelled /\ removing[h].reminder = q
    OBVIOUS
  <2>3. removing[h] = [reminder |-> q, cancelled |-> TRUE] /\ q \in aborted => q \in abandoned'
    BY <2>2 DEF DropRemoval
  <2> QED BY <1>1, <2>1, <2>3, Zenon DEF HalfRemoved
<1> QED BY <1>1, <1>2, <1>3

LEMMA EraseEnds ==
    ASSUME NEW h \in Removers, MapTypes, Erase(h)
    PROVE  /\ removing[h].reminder \in Reminders
           /\ HalfRemoved(removing[h].reminder)
           /\ \A q \in Reminders :
                /\ HalfRemoved(q) => HalfRemoved(q)' \/ q = removing[h].reminder
                /\ HalfRemoved(q)' => HalfRemoved(q)
<1>1. removing[h] \in Removal /\ removing[h].cancelled
  BY DEF Erase, MapTypes
<1>2. removing[h].reminder \in Reminders
  BY <1>1 DEF Removal
<1>3. removing[h] = [reminder |-> removing[h].reminder, cancelled |-> TRUE]
  BY <1>1 DEF Removal
<1>4. removing'[h] = None /\ \A g \in Removers : g # h => removing'[g] = removing[g]
  BY DEF Erase, MapTypes
<1>5. HalfRemoved(removing[h].reminder)
  BY <1>3, Zenon DEF HalfRemoved
<1>6. ASSUME NEW q \in Reminders
      PROVE  /\ HalfRemoved(q) => HalfRemoved(q)' \/ q = removing[h].reminder
             /\ HalfRemoved(q)' => HalfRemoved(q)
  <2>1. removing'[h] # [reminder |-> q, cancelled |-> TRUE]
    BY <1>4, NoneIsNoRemoval
  <2>2. removing[h] = [reminder |-> q, cancelled |-> TRUE] => q = removing[h].reminder
    BY <1>3
  <2> QED BY <1>4, <2>1, <2>2, Zenon DEF HalfRemoved
<1> QED BY <1>2, <1>5, <1>6

-----------------------------------------------------------------------------
LEMMA AddKeeps ==
    ASSUME NEW r \in Reminders, MapInv, Add(r)
    PROVE  MapInv'
<1>0. \A q : HalfRemoved(q)' <=> HalfRemoved(q)
  BY SameRemovals DEF Add
<1>1. MapTypes'
  BY <1>0 DEF MapInv, MapTypes, Add, maps, removals
<1>2. SpawnedLast'
  BY <1>0 DEF MapInv, MapTypes, SpawnedLast, Add, maps, removals
<1>3. ListedHasTimer'
  BY <1>0 DEF MapInv, MapTypes, ListedHasTimer, AbortedIsRemoved, SpawnedLast, Known, Add, maps,
     removals
<1>4. TimerIsListed'
  BY <1>0 DEF MapInv, MapTypes, TimerIsListed, SpawnedLast, Add, maps, removals
<1>5. HandleIsKept'
  BY <1>0 DEF MapInv, MapTypes, HandleIsKept, SpawnedLast, Add, maps, removals
<1>6. Known'
  BY <1>0 DEF MapInv, MapTypes, Known, Add, maps, removals
<1>7. AbortedIsRemoved'
  BY <1>0 DEF MapInv, MapTypes, AbortedIsRemoved, Known, Add, maps, removals
<1>8. GoneIsSilent'
  BY <1>0 DEF MapInv, MapTypes, GoneIsSilent, Known, HalfRemoved, Add, maps, removals
<1>9. RemovedIsSilent'
  BY <1>0 DEF MapInv, MapTypes, RemovedIsSilent, GoneIsSilent, Add, maps, removals
<1> QED BY <1>1, <1>2, <1>3, <1>4, <1>5, <1>6, <1>7, <1>8, <1>9 DEF MapInv

LEMMA SpawnTimerKeeps ==
    ASSUME NEW r \in Reminders, MapInv, SpawnTimer(r)
    PROVE  MapInv'
<1>0. \A q : HalfRemoved(q)' <=> HalfRemoved(q)
  BY SameRemovals DEF SpawnTimer
<1>1. MapTypes'
  BY <1>0 DEF MapInv, MapTypes, SpawnTimer, maps, removals
<1>2. SpawnedLast'
  BY <1>0 DEF MapInv, MapTypes, SpawnedLast, SpawnTimer, maps, removals
<1>3. ListedHasTimer'
  BY <1>0 DEF MapInv, MapTypes, ListedHasTimer, AbortedIsRemoved, SpawnedLast, Known,
     SpawnTimer, maps, removals
<1>4. TimerIsListed'
  BY <1>0 DEF MapInv, MapTypes, TimerIsListed, SpawnedLast, SpawnTimer, maps, removals
<1>5. HandleIsKept'
  BY <1>0 DEF MapInv, MapTypes, HandleIsKept, SpawnedLast, SpawnTimer, maps, removals
<1>6. Known'
  BY <1>0 DEF MapInv, MapTypes, Known, SpawnTimer, maps, removals
<1>7. AbortedIsRemoved'
  BY <1>0 DEF MapInv, MapTypes, AbortedIsRemoved, Known, SpawnTimer, maps, removals
<1>8. GoneIsSilent'
  BY <1>0 DEF MapInv, MapTypes, GoneIsSilent, Known, SpawnTimer, maps, removals
<1>9. RemovedIsSilent'
  BY <1>0 DEF MapInv, MapTypes, RemovedIsSilent, GoneIsSilent, SpawnTimer, maps, removals
<1> QED BY <1>1, <1>2, <1>3, <1>4, <1>5, <1>6, <1>7, <1>8, <1>9 DEF MapInv

LEMMA RegisterTimerKeeps ==
    ASSUME NEW r \in Reminders, MapInv, RegisterTimer(r)
    PROVE  MapInv'
<1>0. \A q : HalfRemoved(q)' <=> HalfRemoved(q)
  BY SameRemovals DEF RegisterTimer
<1>1. MapTypes'
  BY <1>0 DEF MapInv, MapTypes, RegisterTimer, maps, removals
<1>2. SpawnedLast'
  BY <1>0 DEF MapInv, MapTypes, SpawnedLast, RegisterTimer, maps, removals
<1>3. ListedHasTimer'
  BY <1>0 DEF MapInv, MapTypes, ListedHasTimer, AbortedIsRemoved, SpawnedLast, Known,
     RegisterTimer, maps, removals
<1>4. TimerIsListed'
  BY <1>0 DEF MapInv, MapTypes, TimerIsListed, SpawnedLast, RegisterTimer, maps, removals
<1>5. HandleIsKept'
  BY <1>0 DEF MapInv, MapTypes, HandleIsKept, SpawnedLast, RegisterTimer, maps, removals
<1>6. Known'
  BY <1>0 DEF MapInv, MapTypes, Known, RegisterTimer, maps, removals
<1>7. AbortedIsRemoved'
  BY <1>0 DEF MapInv, MapTypes, AbortedIsRemoved, Known, RegisterTimer, maps, removals
<1>8. GoneIsSilent'
  BY <1>0 DEF MapInv, MapTypes, GoneIsSilent, Known, RegisterTimer, maps, removals
<1>9. RemovedIsSilent'
  BY <1>0 DEF MapInv, MapTypes, RemovedIsSilent, GoneIsSilent, RegisterTimer, maps, removals
<1> QED BY <1>1, <1>2, <1>3, <1>4, <1>5, <1>6, <1>7, <1>8, <1>9 DEF MapInv

LEMMA WakeKeeps ==
    ASSUME NEW r \in Reminders, MapInv, Wake(r)
    PROVE  MapInv'
<1>0. \A q : HalfRemoved(q)' <=> HalfRemoved(q)
  BY SameRemovals DEF Wake
<1>1. MapTypes'
  BY <1>0 DEF MapInv, MapTypes, Wake, maps, removals
<1>2. SpawnedLast'
  BY <1>0 DEF MapInv, MapTypes, SpawnedLast, Wake, maps, removals
<1>3. ListedHasTimer'
  BY <1>0 DEF MapInv, MapTypes, ListedHasTimer, AbortedIsRemoved, SpawnedLast, Known, Wake,
     maps, removals
<1>4. TimerIsListed'
  BY <1>0 DEF MapInv, MapTypes, TimerIsListed, SpawnedLast, Wake, maps, removals
<1>5. HandleIsKept'
  BY <1>0 DEF MapInv, MapTypes, HandleIsKept, SpawnedLast, Wake, maps, removals
<1>6. Known'
  BY <1>0 DEF MapInv, MapTypes, Known, Wake, maps, removals
<1>7. AbortedIsRemoved'
  BY <1>0 DEF MapInv, MapTypes, AbortedIsRemoved, Known, Wake, maps, removals
<1>8. GoneIsSilent'
  BY <1>0 DEF MapInv, MapTypes, GoneIsSilent, Known, Wake, maps, removals
<1>9. RemovedIsSilent'
  BY <1>0 DEF MapInv, MapTypes, RemovedIsSilent, GoneIsSilent, Wake, maps, removals
<1> QED BY <1>1, <1>2, <1>3, <1>4, <1>5, <1>6, <1>7, <1>8, <1>9 DEF MapInv

LEMMA MarkKeeps ==
    ASSUME NEW r \in Reminders, MapInv, Mark(r)
    PROVE  MapInv'
<1>0. \A q : HalfRemoved(q)' <=> HalfRemoved(q)
  BY SameRemovals DEF Mark
<1>1. MapTypes'
  BY <1>0 DEF MapInv, MapTypes, Mark, maps, removals
<1>2. SpawnedLast'
  BY <1>0 DEF MapInv, MapTypes, SpawnedLast, Mark, maps, removals
<1>3. ListedHasTimer'
  BY <1>0 DEF MapInv, MapTypes, ListedHasTimer, AbortedIsRemoved, SpawnedLast, Known, Mark,
     maps, removals
<1>4. TimerIsListed'
  BY <1>0 DEF MapInv, MapTypes, TimerIsListed, SpawnedLast, Mark, maps, removals
<1>5. HandleIsKept'
  BY <1>0 DEF MapInv, MapTypes, HandleIsKept, SpawnedLast, Mark, maps, removals
<1>6. Known'
  BY <1>0 DEF MapInv, MapTypes, Known, Mark, maps, removals
<1>7. AbortedIsRemoved'
  BY <1>0 DEF MapInv, MapTypes, AbortedIsRemoved, Known, Mark, maps, removals
<1>8. GoneIsSilent'
  BY <1>0 DEF MapInv, MapTypes, GoneIsSilent, Known, Mark, maps, removals
<1>9. RemovedIsSilent'
  BY <1>0 DEF MapInv, MapTypes, RemovedIsSilent, GoneIsSilent, Mark, maps, removals
<1> QED BY <1>1, <1>2, <1>3, <1>4, <1>5, <1>6, <1>7, <1>8, <1>9 DEF MapInv

LEMMA RingKeeps ==
    ASSUME NEW r \in Reminders, MapInv, Ring(r)
    PROVE  MapInv'
<1>0. \A q : HalfRemoved(q)' <=> HalfRemoved(q)
  BY SameRemovals DEF Ring
<1>1. MapTypes'
  BY <1>0 DEF MapInv, MapTypes, Ring, maps, removals
<1>2. SpawnedLast'
  BY <1>0 DEF MapInv, MapTypes, SpawnedLast, Ring, maps, removals
<1>3. ListedHasTimer'
  BY <1>0 DEF MapInv, MapTypes, ListedHasTimer, AbortedIsRemoved, SpawnedLast, Known, Ring,
     maps, removals
<1>4. TimerIsListed'
  BY <1>0 DEF MapInv, MapTypes, TimerIsListed, SpawnedLast, Ring, maps, removals
<1>5. HandleIsKept'
  BY <1>0 DEF MapInv, MapTypes, HandleIsKept, SpawnedLast, Ring, maps, removals
<1>6. Known'
  BY <1>0 DEF MapInv, MapTypes, Known, Ring, maps, removals
<1>7. AbortedIsRemoved'
  BY <1>0 DEF MapInv, MapTypes, AbortedIsRemoved, Known, Ring, maps, removals
<1>8. GoneIsSilent'
  BY <1>0 DEF MapInv, MapTypes, GoneIsSilent, Known, Ring, maps, removals
<1>9. RemovedIsSilent'
  BY <1>0 DEF MapInv, MapTypes, RemovedIsSilent, GoneIsSilent, Ring, maps, removals
<1> QED BY <1>1, <1>2, <1>3, <1>4, <1>5, <1>6, <1>7, <1>8, <1>9 DEF MapInv

LEMMA DroppedKeeps ==
    ASSUME NEW r \in Reminders, MapInv, Dropped(r)
    PROVE  MapInv'
<1>0. \A q : HalfRemoved(q)' <=> HalfRemoved(q)
  BY SameRemovals DEF Dropped
<1>1. MapTypes'
  BY <1>0 DEF MapInv, MapTypes, Dropped, maps, removals
<1>2. SpawnedLast'
  BY <1>0 DEF MapInv, MapTypes, SpawnedLast, Dropped, maps, removals
<1>3. ListedHasTimer'
  BY <1>0 DEF MapInv, MapTypes, ListedHasTimer, AbortedIsRemoved, SpawnedLast, Known, Dropped,
     maps, removals
<1>4. TimerIsListed'
  BY <1>0 DEF MapInv, MapTypes, TimerIsListed, SpawnedLast, Dropped, maps, removals
<1>5. HandleIsKept'
  BY <1>0 DEF MapInv, MapTypes, HandleIsKept, SpawnedLast, Dropped, maps, removals
<1>6. Known'
  BY <1>0 DEF MapInv, MapTypes, Known, Dropped, maps, removals
<1>7. AbortedIsRemoved'
  BY <1>0 DEF MapInv, MapTypes, AbortedIsRemoved, Known, Dropped, maps, removals
<1>8. GoneIsSilent'
  BY <1>0 DEF MapInv, MapTypes, GoneIsSilent, Known, Dropped, maps, removals
<1>9. RemovedIsSilent'
  BY <1>0 DEF MapInv, MapTypes, RemovedIsSilent, GoneIsSilent, Dropped, maps, removals
<1> QED BY <1>1, <1>2, <1>3, <1>4, <1>5, <1>6, <1>7, <1>8, <1>9 DEF MapInv

LEMMA RemoveKeeps ==
    ASSUME NEW h \in Removers, NEW r \in Reminders, MapInv, Remove(h, r)
    PROVE  MapInv'
<1>0. \A q \in Reminders : HalfRemoved(q)' <=> HalfRemoved(q)
  BY RemoveStarts DEF MapInv
<1>1. MapTypes'
  BY <1>0 DEF MapInv, MapTypes, Remove, Removal, maps, removals
<1>2. SpawnedLast'
  BY <1>0 DEF MapInv, MapTypes, SpawnedLast, Remove, Removal, maps, removals
<1>3. ListedHasTimer'
  BY <1>0 DEF MapInv, MapTypes, ListedHasTimer, AbortedIsRemoved, SpawnedLast, Known, Remove,
     Removal, maps, removals
<1>4. TimerIsListed'
  BY <1>0 DEF MapInv, MapTypes, TimerIsListed, SpawnedLast, Remove, Removal, maps, removals
<1>5. HandleIsKept'
  BY <1>0 DEF MapInv, MapTypes, HandleIsKept, SpawnedLast, Remove, Removal, maps, removals
<1>6. Known'
  BY <1>0 DEF MapInv, MapTypes, Known, Remove, Removal, maps, removals
<1>7. AbortedIsRemoved'
  BY <1>0 DEF MapInv, MapTypes, AbortedIsRemoved, Known, Remove, Removal, maps, removals
<1>8. GoneIsSilent'
  BY <1>0 DEF MapInv, MapTypes, GoneIsSilent, Known, Remove, Removal, maps, removals
<1>9. RemovedIsSilent'
  BY <1>0 DEF MapInv, MapTypes, RemovedIsSilent, GoneIsSilent, Remove, Removal, maps, removals
<1> QED BY <1>1, <1>2, <1>3, <1>4, <1>5, <1>6, <1>7, <1>8, <1>9 DEF MapInv

LEMMA CancelKeeps ==
    ASSUME NEW h \in Removers, MapInv, Cancel(h)
    PROVE  MapInv'
<1>0. /\ removing[h] \in Removal
      /\ removing[h].reminder \in Reminders
      /\ removing' \in [Removers -> Removal \cup {None}]
      /\ \A g \in Removers : g # h => removing'[g] = removing[g]
      /\ removing'[h] = [reminder |-> removing[h].reminder, cancelled |-> TRUE]
      /\ \A q \in Reminders :
           HalfRemoved(q)' <=> HalfRemoved(q) \/ q = removing[h].reminder
  BY CancelHalfRemoves DEF MapInv
<1>1. MapTypes'
  BY <1>0 DEF MapInv, MapTypes, Cancel, maps, removals
<1>2. SpawnedLast'
  BY <1>0 DEF MapInv, MapTypes, SpawnedLast, Cancel, maps, removals
<1>3. ListedHasTimer'
  BY <1>0 DEF MapInv, MapTypes, ListedHasTimer, AbortedIsRemoved, SpawnedLast, Known, Cancel,
     maps, removals
<1>4. TimerIsListed'
  BY <1>0 DEF MapInv, MapTypes, TimerIsListed, SpawnedLast, Firing, Cancel, maps, removals
<1>5. HandleIsKept'
  BY <1>0 DEF MapInv, MapTypes, HandleIsKept, Cancel, maps, removals
<1>6. Known'
  BY <1>0 DEF MapInv, MapTypes, Known, Cancel, maps, removals
<1>7. AbortedIsRemoved'
  BY <1>0 DEF MapInv, MapTypes, AbortedIsRemoved, Known, Cancel, maps, removals
<1>8. GoneIsSilent'
  BY <1>0 DEF MapInv, MapTypes, GoneIsSilent, HandleIsKept, Firing, Cancel, maps, removals
<1>9. RemovedIsSilent'
  BY <1>0 DEF MapInv, MapTypes, RemovedIsSilent, GoneIsSilent, Cancel, maps, removals
<1> QED BY <1>1, <1>2, <1>3, <1>4, <1>5, <1>6, <1>7, <1>8, <1>9 DEF MapInv

LEMMA EraseKeeps ==
    ASSUME NEW h \in Removers, MapInv, Erase(h)
    PROVE  MapInv'
<1>0. /\ removing[h].reminder \in Reminders
      /\ HalfRemoved(removing[h].reminder)
      /\ \A q \in Reminders :
           /\ HalfRemoved(q) => HalfRemoved(q)' \/ q = removing[h].reminder
           /\ HalfRemoved(q)' => HalfRemoved(q)
  BY EraseEnds DEF MapInv
<1>1. MapTypes'
  BY <1>0 DEF MapInv, MapTypes, Erase, maps, removals
<1>2. SpawnedLast'
  BY <1>0 DEF MapInv, MapTypes, SpawnedLast, Erase, maps, removals
<1>3. ListedHasTimer'
  BY <1>0 DEF MapInv, MapTypes, ListedHasTimer, AbortedIsRemoved, SpawnedLast, Known, Erase,
     maps, removals
<1>4. TimerIsListed'
  BY <1>0 DEF MapInv, MapTypes, TimerIsListed, GoneIsSilent, Erase, maps, removals
<1>5. HandleIsKept'
  BY <1>0 DEF MapInv, MapTypes, HandleIsKept, SpawnedLast, Erase, maps, removals
<1>6. Known'
  BY <1>0 DEF MapInv, MapTypes, Known, Erase, maps, removals
<1>7. AbortedIsRemoved'
  BY <1>0 DEF MapInv, MapTypes, AbortedIsRemoved, Known, Erase, maps, removals
<1>8. GoneIsSilent'
  BY <1>0 DEF MapInv, MapTypes, GoneIsSilent, Known, Erase, maps, removals
<1>9. RemovedIsSilent'
  BY <1>0 DEF MapInv, MapTypes, RemovedIsSilent, GoneIsSilent, Erase, maps, removals
<1> QED BY <1>1, <1>2, <1>3, <1>4, <1>5, <1>6, <1>7, <1>8, <1>9 DEF MapInv

LEMMA DropRemovalKeeps ==
    ASSUME NEW h \in Removers, MapInv, DropRemoval(h)
    PROVE  MapInv'
<1>0. /\ \A q \in Reminders :
           /\ HalfRemoved(q)' => HalfRemoved(q)
           /\ HalfRemoved(q) /\ q \in aborted => HalfRemoved(q)' \/ q \in abandoned'
      /\ abandoned \subseteq abandoned' /\ abandoned' \subseteq Reminders
      /\ removing' \in [Removers -> Removal \cup {None}]
      /\ \A g \in Removers : removing'[g] \in {removing[g], None}
  BY DropEnds DEF MapInv
<1>1. MapTypes'
  BY <1>0 DEF MapInv, MapTypes, DropRemoval, maps
<1>2. SpawnedLast' /\ ListedHasTimer' /\ TimerIsListed' /\ HandleIsKept' /\ RemovedIsSilent'
  BY DEF MapInv, SpawnedLast, ListedHasTimer, TimerIsListed, HandleIsKept, RemovedIsSilent,
     DropRemoval, maps
<1>3. Known'
  BY <1>0 DEF MapInv, MapTypes, Known, DropRemoval, maps
<1>4. AbortedIsRemoved'
  BY <1>0 DEF MapInv, MapTypes, AbortedIsRemoved, DropRemoval, maps
<1>5. GoneIsSilent'
  BY <1>0 DEF MapInv, MapTypes, GoneIsSilent, DropRemoval, maps
<1> QED BY <1>1, <1>2, <1>3, <1>4, <1>5 DEF MapInv

LEMMA CrashKeeps ==
    ASSUME MapInv, Crash
    PROVE  MapInv'
<1>0. \A q \in Reminders : ~HalfRemoved(q)'
  BY NoneIsNoRemoval DEF Crash, HalfRemoved
<1>1. MapTypes'
  BY <1>0 DEF MapInv, MapTypes, Crash, removals
<1>2. SpawnedLast'
  BY <1>0 DEF MapInv, MapTypes, SpawnedLast, Crash, removals
<1>3. ListedHasTimer'
  BY <1>0 DEF MapInv, MapTypes, ListedHasTimer, AbortedIsRemoved, SpawnedLast, Known, Crash,
     removals
<1>4. TimerIsListed'
  BY <1>0 DEF MapInv, MapTypes, TimerIsListed, SpawnedLast, Crash, removals
<1>5. HandleIsKept'
  BY <1>0 DEF MapInv, MapTypes, HandleIsKept, SpawnedLast, Crash, removals
<1>6. Known'
  BY <1>0 DEF MapInv, MapTypes, Known, Crash, removals
<1>7. AbortedIsRemoved'
  BY <1>0 DEF MapInv, MapTypes, AbortedIsRemoved, Known, Crash, removals
<1>8. GoneIsSilent'
  BY <1>0 DEF MapInv, MapTypes, GoneIsSilent, Known, Crash, removals
<1>9. RemovedIsSilent'
  BY <1>0 DEF MapInv, MapTypes, RemovedIsSilent, GoneIsSilent, Crash, removals
<1> QED BY <1>1, <1>2, <1>3, <1>4, <1>5, <1>6, <1>7, <1>8, <1>9 DEF MapInv

-----------------------------------------------------------------------------
\* The maps, the timers and the removals stay together through every step of
\* an add, of a timer, of a removal that returns or is dropped on its way, and
\* through a restart (scheduler.rs:618-692).
THEOREM MapInvariance == Spec => []MapInv
<1>1. MapInv /\ [Next]_vars => MapInv'
  <2> SUFFICES ASSUME MapInv, [Next]_vars PROVE MapInv'
    OBVIOUS
  <2>1. ASSUME NEW r \in Reminders, Add(r) \/ Scheduled(r) \/ Dropped(r) PROVE MapInv'
    BY <2>1, AddKeeps, SpawnTimerKeeps, RegisterTimerKeeps, WakeKeeps, MarkKeeps, RingKeeps,
       DroppedKeeps DEF Scheduled
  <2>2. ASSUME NEW h \in Removers, NEW r \in Reminders, Remove(h, r) PROVE MapInv'
    BY <2>2, RemoveKeeps
  <2>3. ASSUME NEW h \in Removers, Cancel(h) \/ Erase(h) \/ DropRemoval(h) PROVE MapInv'
    BY <2>3, CancelKeeps, EraseKeeps, DropRemovalKeeps
  <2>4. ASSUME NEW c \in Conns, Connect(c) \/ Close(c) \/ Serves(c) PROVE MapInv'
    BY <2>4, MapStutter DEF Connect, Close, Serves, Overtaken, Receive, ActionEnds
  <2>5. CASE RingOther
    BY <2>5, MapStutter DEF RingOther
  <2>6. CASE Crash
    BY <2>6, CrashKeeps
  <2>7. CASE UNCHANGED vars
    BY <2>7, MapStutter DEF vars
  <2> QED BY <2>1, <2>2, <2>3, <2>4, <2>5, <2>6, <2>7 DEF Next
<1> QED BY MapInit, <1>1, PTL DEF Spec

\* "List all active (untriggered) reminders" (tools/cron.rs:72): the list and
\* the timers say the same, but while an add or a removal is under way, and
\* after a removal was dropped between its two halves.
THEOREM ListIsHonest == Spec => []ListMatchesTimers
<1>1. MapInv => ListMatchesTimers
  BY DEF MapInv, ListedHasTimer, TimerIsListed, AbortedIsRemoved, HalfRemoved, ListMatchesTimers
<1> QED BY MapInvariance, <1>1, PTL

\* "Cancel the timer if it exists" (scheduler.rs:670): what was removed does not
\* ring, unless the removal overlapped its add or its ring.
THEOREM RemovalIsSilent == Spec => []RemovedIsSilent
<1>1. MapInv => RemovedIsSilent
  BY DEF MapInv
<1> QED BY MapInvariance, <1>1, PTL

-----------------------------------------------------------------------------
(* What the connections get.                                               *)

In(q) == {q[i] : i \in 1 .. Len(q)}

\* Receiver q holds no reminder twice; what was due, d, is in one of three
\* places: shown (t), still in the receiver, or overtaken (o).
Accounted(q, d, t, o) ==
    /\ \A i, j \in 1 .. Len(q) : q[i] = q[j] /\ q[i] \in Reminders => i = j
    /\ \A r \in Reminders : r \in d <=> r \in t \/ r \in In(q) \/ r \in o
    /\ \A r \in Reminders :
         ~(r \in t /\ r \in In(q)) /\ ~(r \in t /\ r \in o) /\ ~(r \in In(q) /\ r \in o)

ClientTypes ==
    /\ conn \in [Conns -> {"off", "on", "acting"}]
    /\ inbox \in [Conns -> Seq(Messages)]
    /\ \A c \in Conns : Len(inbox[c]) <= Capacity
    /\ \A c \in Conns : conn[c] = "off" => inbox[c] = <<>> /\ c \notin lagged
    /\ lagged \subseteq Conns
    /\ due \in [Conns -> SUBSET Reminders]
    /\ told \in [Conns -> SUBSET Reminders]
    /\ overtaken \in [Conns -> SUBSET Reminders]
    /\ overlapped \subseteq Reminders

\* Every connection accounts for what was due, and a reminder that was due will
\* not ring again.
HeardInv ==
    /\ ClientTypes
    /\ \A c \in Conns : Accounted(inbox[c], due[c], told[c], overtaken[c])
    /\ \A c \in Conns : \A r \in due[c] : task[r] = "ended"

LEMMA NothingDue == Accounted(<<>>, {}, {}, {})
BY DEF Accounted, In

\* Something is sent that was not due: it is due, and waits.
LEMMA AccountedSent ==
    ASSUME NEW q \in Seq(Messages), NEW d, NEW t, NEW o, NEW m \in Messages \ d,
           Accounted(q, d, t, o)
    PROVE  Accounted(Append(q, m), d \cup ({m} \cap Reminders), t, o)
<1>1. PICK p : p = Append(q, m)
  OBVIOUS
<1>2. /\ Len(p) = Len(q) + 1 /\ Len(q) \in Nat
      /\ p[Len(q) + 1] = m /\ \A i \in 1 .. Len(q) : p[i] = q[i]
  BY <1>1
<1>3. In(p) = In(q) \cup {m}
  BY <1>2 DEF In
<1>4. m \in Reminders => m \notin In(q) /\ m \notin t /\ m \notin o
  BY DEF Accounted
<1>5. ASSUME NEW i \in 1 .. Len(p), NEW j \in 1 .. Len(p), p[i] = p[j], p[i] \in Reminders
      PROVE  i = j
  <2>1. CASE i \in 1 .. Len(q) /\ j \in 1 .. Len(q)
    BY <1>2, <1>5, <2>1 DEF Accounted
  <2>2. CASE i = Len(q) + 1 /\ j \in 1 .. Len(q)
    BY <1>2, <1>4, <1>5, <2>2 DEF In
  <2>3. CASE i \in 1 .. Len(q) /\ j = Len(q) + 1
    BY <1>2, <1>4, <1>5, <2>3 DEF In
  <2> QED BY <1>2, <2>1, <2>2, <2>3
<1>6. Accounted(p, d \cup ({m} \cap Reminders), t, o)
  BY <1>3, <1>4, <1>5 DEF Accounted
<1> QED BY <1>1, <1>6

\* The first one waiting leaves the receiver.
LEMMA FirstLeaves ==
    ASSUME NEW q \in Seq(Messages), q # <<>>, NEW d, NEW t, NEW o, Accounted(q, d, t, o)
    PROVE  /\ Head(q) \in Messages /\ Tail(q) \in Seq(Messages) /\ Len(Tail(q)) = Len(q) - 1
           /\ \A i, j \in 1 .. Len(Tail(q)) :
                Tail(q)[i] = Tail(q)[j] /\ Tail(q)[i] \in Reminders => i = j
           /\ \A r \in Reminders : r \in In(Tail(q)) <=> r \in In(q) /\ r # Head(q)
           /\ Head(q) \in In(q)
<1>1. PICK p : p = Tail(q)
  OBVIOUS
<1>2. /\ Len(q) \in Nat /\ Len(q) > 0 /\ Len(p) = Len(q) - 1 /\ Head(q) = q[1]
      /\ p \in Seq(Messages) /\ \A i \in 1 .. Len(p) : p[i] = q[i + 1]
  BY <1>1
<1>3. Head(q) \in Messages /\ Head(q) \in In(q)
  BY <1>2 DEF In
<1>4. ASSUME NEW i \in 1 .. Len(p), NEW j \in 1 .. Len(p), p[i] = p[j], p[i] \in Reminders
      PROVE  i = j
  <2>1. i + 1 \in 1 .. Len(q) /\ j + 1 \in 1 .. Len(q)
    BY <1>2
  <2>2. i + 1 = j + 1
    BY <1>2, <1>4, <2>1 DEF Accounted
  <2> QED BY <2>2
<1>5. ASSUME NEW r \in Reminders, r \in In(p) PROVE r \in In(q) /\ r # Head(q)
  <2>1. PICK i \in 1 .. Len(p) : p[i] = r
    BY <1>5 DEF In
  <2>2. i + 1 \in 1 .. Len(q) /\ q[i + 1] = r /\ 1 \in 1 .. Len(q) /\ i + 1 # 1
    BY <1>2, <2>1
  <2>3. r # q[1]
    BY <2>2 DEF Accounted
  <2> QED BY <1>2, <2>2, <2>3 DEF In
<1>6. ASSUME NEW r \in Reminders, r \in In(q), r # Head(q) PROVE r \in In(p)
  <2>1. PICK i \in 1 .. Len(q) : q[i] = r
    BY <1>6 DEF In
  <2>2. i - 1 \in 1 .. Len(p) /\ (i - 1) + 1 = i
    BY <1>2, <1>6, <2>1
  <2>3. p[i - 1] = r
    BY <1>2, <2>1, <2>2
  <2> QED BY <2>2, <2>3 DEF In
<1> QED BY <1>1, <1>2, <1>3, <1>4, <1>5, <1>6

LEMMA AccountedLost ==
    ASSUME NEW q \in Seq(Messages), q # <<>>, NEW d, NEW t, NEW o, Accounted(q, d, t, o)
    PROVE  Accounted(Tail(q), d, t, o \cup ({Head(q)} \cap Reminders))
BY FirstLeaves DEF Accounted

LEMMA AccountedShown ==
    ASSUME NEW q \in Seq(Messages), q # <<>>, NEW d, NEW t, NEW o, Accounted(q, d, t, o)
    PROVE  Accounted(Tail(q), d, t \cup ({Head(q)} \cap Reminders), o)
BY FirstLeaves DEF Accounted

\* A broadcast of what was not due anywhere, whichever receivers are full.
LEMMA BroadcastHeard ==
    ASSUME HeardInv, NEW m \in Messages, \A c \in Conns : m \notin due[c], Broadcast(m),
           conn' = conn, told' = told, overlapped' = overlapped
    PROVE  /\ ClientTypes'
           /\ \A c \in Conns : Accounted(inbox'[c], due'[c], told'[c], overtaken'[c])
           /\ \A c \in Conns : due'[c] \subseteq due[c] \cup {m}
<1>0. Capacity \in Nat /\ Capacity > 0
  BY ReminderAssumption
<1>1. ASSUME NEW c \in Conns
      PROVE  /\ inbox'[c] \in Seq(Messages) /\ Len(inbox'[c]) <= Capacity
             /\ conn'[c] = "off" => inbox'[c] = <<>> /\ c \notin lagged'
             /\ due'[c] \subseteq Reminders /\ overtaken'[c] \subseteq Reminders
             /\ Accounted(inbox'[c], due'[c], told'[c], overtaken'[c])
             /\ due'[c] \subseteq due[c] \cup {m}
  <2>1. /\ inbox[c] \in Seq(Messages) /\ Len(inbox[c]) \in Nat /\ Len(inbox[c]) <= Capacity
        /\ conn[c] = "off" => inbox[c] = <<>> /\ c \notin lagged
        /\ due[c] \subseteq Reminders /\ overtaken[c] \subseteq Reminders
        /\ Accounted(inbox[c], due[c], told[c], overtaken[c])
    BY DEF HeardInv, ClientTypes
  <2>2. CASE c \notin Open
    <3>1. /\ inbox'[c] = inbox[c] /\ due'[c] = due[c] /\ overtaken'[c] = overtaken[c]
          /\ c \in lagged' <=> c \in lagged
      BY <2>2 DEF Broadcast
    <3> QED BY <2>1, <3>1
  <2>3. CASE c \in Open /\ Len(inbox[c]) # Capacity
    <3>1. /\ inbox'[c] = Append(inbox[c], m) /\ due'[c] = due[c] \cup ({m} \cap Reminders)
          /\ overtaken'[c] = overtaken[c]
      BY <2>3 DEF Broadcast
    <3>2. inbox'[c] \in Seq(Messages) /\ Len(inbox'[c]) <= Capacity
      BY <1>0, <2>1, <2>3, <3>1
    <3>3. Accounted(inbox'[c], due'[c], told[c], overtaken[c])
      BY <2>1, <3>1, AccountedSent
    <3> QED BY <2>1, <2>3, <3>1, <3>2, <3>3 DEF Open
  <2>4. CASE c \in Open /\ Len(inbox[c]) = Capacity
    <3>1. /\ inbox'[c] = Append(Tail(inbox[c]), m) /\ due'[c] = due[c] \cup ({m} \cap Reminders)
          /\ overtaken'[c] = overtaken[c] \cup ({Head(inbox[c])} \cap Reminders)
      BY <2>4 DEF Broadcast
    <3>2. inbox[c] # <<>>
      BY <1>0, <2>4
    <3>3. Tail(inbox[c]) \in Seq(Messages) /\ Len(Tail(inbox[c])) = Capacity - 1
      BY <2>1, <2>4, <3>2, FirstLeaves
    <3>4. inbox'[c] \in Seq(Messages) /\ Len(inbox'[c]) <= Capacity
      BY <1>0, <3>1, <3>3
    <3>5. Accounted(Tail(inbox[c]), due[c], told[c], overtaken'[c])
      BY <2>1, <3>1, <3>2, AccountedLost
    <3>6. Accounted(inbox'[c], due'[c], told[c], overtaken'[c])
      <4>1. PICK q \in Seq(Messages) : q = Tail(inbox[c])
        BY <3>3
      <4>2. Accounted(Append(q, m), due[c] \cup ({m} \cap Reminders), told[c], overtaken'[c])
        BY <3>5, <4>1, AccountedSent
      <4> QED BY <3>1, <4>1, <4>2
    <3> QED BY <2>1, <2>4, <3>1, <3>4, <3>6 DEF Open
  <2> QED BY <2>2, <2>3, <2>4
<1>2. /\ DOMAIN inbox' = Conns /\ DOMAIN due' = Conns /\ DOMAIN overtaken' = Conns
      /\ inbox' = [c \in Conns |-> inbox'[c]] /\ due' = [c \in Conns |-> due'[c]]
      /\ overtaken' = [c \in Conns |-> overtaken'[c]] /\ lagged' \subseteq Conns
  BY DEF Broadcast, Open, HeardInv, ClientTypes
<1>3. ClientTypes'
  BY <1>1, <1>2 DEF HeardInv, ClientTypes
<1> QED BY <1>1, <1>3

\* The steps that leave the connections alone, and no timer that has ended.
LEMMA HeardStutter ==
    ASSUME HeardInv, UNCHANGED <<clients, shown>>, overlapped' \subseteq Reminders,
           \A r \in Reminders : task[r] = "ended" => task'[r] = "ended"
    PROVE  HeardInv'
<1>1. ClientTypes'
  BY DEF HeardInv, ClientTypes, clients, shown
<1>2. ASSUME NEW c \in Conns, NEW r \in due'[c] PROVE task'[r] = "ended"
  BY DEF HeardInv, ClientTypes, shown
<1> QED BY <1>1, <1>2 DEF HeardInv, clients, shown

LEMMA RingHeard ==
    ASSUME MapInv, HeardInv, NEW r \in Reminders, Ring(r)
    PROVE  HeardInv'
<1>1. \A c \in Conns : r \notin due[c]
  BY DEF HeardInv, Ring
<1>2. /\ ClientTypes'
      /\ \A c \in Conns : Accounted(inbox'[c], due'[c], told'[c], overtaken'[c])
      /\ \A c \in Conns : due'[c] \subseteq due[c] \cup {r}
  BY <1>1, BroadcastHeard DEF Ring, Messages
<1>3. task'[r] = "ended" /\ \A s \in Reminders : task[s] = "ended" => task'[s] = "ended"
  BY DEF MapInv, MapTypes, Ring
<1>4. ASSUME NEW c \in Conns, NEW s \in due'[c] PROVE task'[s] = "ended"
  BY <1>2, <1>3 DEF HeardInv, ClientTypes
<1> QED BY <1>2, <1>4 DEF HeardInv

LEMMA RingOtherHeard ==
    ASSUME HeardInv, RingOther
    PROVE  HeardInv'
<1>1. \A c \in Conns : Other \notin due[c]
  BY ReminderAssumption DEF HeardInv, ClientTypes
<1>2. /\ ClientTypes'
      /\ \A c \in Conns : Accounted(inbox'[c], due'[c], told'[c], overtaken'[c])
      /\ \A c \in Conns : due'[c] \subseteq due[c] \cup {Other}
  BY <1>1, BroadcastHeard DEF RingOther, Messages, removals
<1>3. ASSUME NEW c \in Conns, NEW s \in due'[c] PROVE task'[s] = "ended"
  BY <1>2, ReminderAssumption DEF HeardInv, ClientTypes, RingOther
<1> QED BY <1>2, <1>3 DEF HeardInv

LEMMA CloseHeard ==
    ASSUME HeardInv, NEW c \in Conns, Close(c)
    PROVE  HeardInv'
<1>1. ClientTypes'
  <2>1. <<>> \in Seq(Messages) /\ Len(<<>>) <= Capacity
    BY ReminderAssumption
  <2> QED BY <2>1 DEF HeardInv, ClientTypes, Close, Forgotten, removals
<1>2. ASSUME NEW d \in Conns
      PROVE  /\ Accounted(inbox'[d], due'[d], told'[d], overtaken'[d])
             /\ \A r \in due'[d] : task'[r] = "ended"
  <2>1. CASE d = c
    BY <2>1, NothingDue DEF HeardInv, ClientTypes, Close, Forgotten
  <2>2. CASE d # c
    BY <2>2 DEF HeardInv, ClientTypes, Close, Forgotten
  <2> QED BY <2>1, <2>2
<1> QED BY <1>1, <1>2 DEF HeardInv

LEMMA ReceiveHeard ==
    ASSUME HeardInv, NEW c \in Conns, Receive(c)
    PROVE  HeardInv'
<1>1. /\ inbox[c] \in Seq(Messages) /\ inbox[c] # <<>> /\ Len(inbox[c]) <= Capacity
      /\ Accounted(inbox[c], due[c], told[c], overtaken[c])
  BY DEF HeardInv, ClientTypes, Receive
<1>2. /\ inbox' = [inbox EXCEPT ![c] = Tail(inbox[c])]
      /\ told' = [told EXCEPT ![c] = told[c] \cup ({Head(inbox[c])} \cap Reminders)]
      /\ \E l \in {"on", "acting"} : conn' = [conn EXCEPT ![c] = l]
      /\ lagged' = lagged /\ due' = due /\ overtaken' = overtaken /\ overlapped' = overlapped
      /\ task' = task
  BY DEF Receive, removals
<1>3. Tail(inbox[c]) \in Seq(Messages) /\ Len(Tail(inbox[c])) <= Capacity
  BY <1>1, FirstLeaves, ReminderAssumption
<1>4. ClientTypes'
  BY <1>2, <1>3 DEF HeardInv, ClientTypes
<1>5. ASSUME NEW d \in Conns
      PROVE  Accounted(inbox'[d], due'[d], told'[d], overtaken'[d])
  <2>1. CASE d = c
    <3>1. Accounted(Tail(inbox[c]), due[c], told[c] \cup ({Head(inbox[c])} \cap Reminders),
                    overtaken[c])
      BY <1>1, AccountedShown
    <3> QED BY <1>2, <2>1, <3>1 DEF HeardInv, ClientTypes
  <2>2. CASE d # c
    BY <1>2, <2>2 DEF HeardInv, ClientTypes
  <2> QED BY <2>1, <2>2
<1>6. \A d \in Conns : \A r \in due'[d] : task'[r] = "ended"
  BY <1>2 DEF HeardInv
<1> QED BY <1>4, <1>5, <1>6 DEF HeardInv

\* The connection opens, hears that it was overtaken, or ends an action.
LEMMA ConnHeard ==
    ASSUME HeardInv, NEW c \in Conns, Connect(c) \/ Overtaken(c) \/ ActionEnds(c)
    PROVE  HeardInv'
<1>1. /\ inbox' = inbox /\ due' = due /\ told' = told /\ overtaken' = overtaken
      /\ task' = task /\ overlapped' = overlapped /\ lagged' \subseteq lagged
      /\ conn' = conn \/ conn' = [conn EXCEPT ![c] = "on"]
  BY DEF Connect, Overtaken, ActionEnds, shown, removals
<1>2. ClientTypes'
  BY <1>1 DEF HeardInv, ClientTypes
<1> QED BY <1>1, <1>2 DEF HeardInv

LEMMA CrashHeard ==
    ASSUME HeardInv, Crash
    PROVE  HeardInv'
<1>1. ClientTypes'
  <2>1. <<>> \in Seq(Messages) /\ Len(<<>>) <= Capacity
    BY ReminderAssumption
  <2> QED BY <2>1 DEF HeardInv, ClientTypes, Crash, removals
<1> QED BY <1>1, NothingDue DEF HeardInv, Crash

LEMMA HeardInit == Init => HeardInv
<1>1. ASSUME Init PROVE ClientTypes
  <2>1. <<>> \in Seq(Messages) /\ Len(<<>>) <= Capacity
    BY ReminderAssumption
  <2> QED BY <1>1, <2>1 DEF Init, ClientTypes
<1> QED BY <1>1, NothingDue DEF Init, HeardInv

LEMMA HeardNext == MapInv /\ HeardInv /\ [Next]_vars => HeardInv'
<1> SUFFICES ASSUME MapInv, HeardInv, [Next]_vars PROVE HeardInv'
  OBVIOUS
<1>1. ASSUME NEW r \in Reminders,
             Add(r) \/ SpawnTimer(r) \/ RegisterTimer(r) \/ Wake(r) \/ Mark(r) \/ Dropped(r)
      PROVE  HeardInv'
  <2>1. UNCHANGED <<clients, shown>> /\ overlapped' = overlapped
    BY <1>1 DEF Add, SpawnTimer, RegisterTimer, Wake, Mark, Dropped, removals
  <2>2. \A s \in Reminders : task[s] = "ended" => task'[s] = "ended"
    BY <1>1 DEF MapInv, MapTypes, SpawnedLast, Add, SpawnTimer, RegisterTimer, Wake, Mark, Dropped
  <2> QED BY <2>1, <2>2, HeardStutter DEF HeardInv, ClientTypes
<1>2. ASSUME NEW h \in Removers, NEW r \in Reminders, Remove(h, r) PROVE HeardInv'
  BY <1>2, HeardStutter DEF Remove, HeardInv, ClientTypes, removals
<1>3. ASSUME NEW h \in Removers, Cancel(h) PROVE HeardInv'
  <2>1. removing[h].reminder \in Reminders
    BY <1>3 DEF MapInv, MapTypes, Removal, Cancel
  <2>2. overlapped' \subseteq Reminders
    BY <1>3, <2>1 DEF HeardInv, ClientTypes, Cancel
  <2>3. \A s \in Reminders : task[s] = "ended" => task'[s] = "ended"
    BY <1>3 DEF MapInv, MapTypes, Cancel
  <2> QED BY <1>3, <2>2, <2>3, HeardStutter DEF Cancel
<1>4. ASSUME NEW h \in Removers, Erase(h) \/ DropRemoval(h) PROVE HeardInv'
  BY <1>4, HeardStutter DEF Erase, DropRemoval, HeardInv, ClientTypes
<1>5. CASE UNCHANGED vars
  BY <1>5, HeardStutter DEF vars, HeardInv, ClientTypes, removals
<1> QED BY <1>1, <1>2, <1>3, <1>4, <1>5, RingHeard, RingOtherHeard, CloseHeard, ReceiveHeard,
           ConnHeard, CrashHeard DEF Next, Scheduled, Serves

\* For every connection, however the channel overtakes its receiver.
THEOREM HeardInvariance == Spec => []HeardInv
BY HeardInit, HeardNext, MapInvariance, PTL DEF Spec

\* ws.rs:946-956: a connection misses no broadcast but those that overtook its
\* receiver, and shows none twice.
THEOREM OnlyTheOvertakenAlways == Spec => []OnlyTheOvertakenAreMissed
<1>1. HeardInv => OnlyTheOvertakenAreMissed
  BY DEF HeardInv, ClientTypes, Accounted, In, Waiting, OnlyTheOvertakenAreMissed
<1> QED BY HeardInvariance, <1>1, PTL

\* The state stays well typed, and no receiver outgrows the channel.
THEOREM TypeCorrect == Spec => []TypeOK
<1>1. MapInv /\ HeardInv => TypeOK
  BY DEF MapInv, MapTypes, Removal, RemovedIsSilent, HeardInv, ClientTypes, TypeOK
<1> QED BY MapInvariance, HeardInvariance, <1>1, PTL

=============================================================================
