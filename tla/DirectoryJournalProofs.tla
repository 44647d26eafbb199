----------------------- MODULE DirectoryJournalProofs -----------------------
(***************************************************************************)
(* For any number of processes, records and faults and any snapshot        *)
(* interval: the file of a journal is one chain, an anchor changes no      *)
(* answer, nothing is written behind a torn record, what append returned   *)
(* stays, and the file is the append-only log the executors rely on.       *)
(***************************************************************************)
EXTENDS DirectoryJournal, TLAPS

EmitsIn(f, n) == \E i \in 1..n : f[i].emits

(* Record r is among the first n of the file. *)
InFile(r, n) == \E i \in 1..n : file[i] = r

NewCommand(c, f) == \A i \in 1..Len(f) : f[i].command # c

Chain(f) ==
  /\ f \in Seq(Record)
  /\ \A i \in 1..Len(f) : f[i].base = i - 1
  /\ \A i, j \in 1..Len(f) : f[i].command = f[j].command => i = j

(* A cache answers for the records it has seen as the file f does. *)
CacheOK(k, f) ==
  /\ k \in Cache
  /\ k.seen <= Len(f) /\ k.start <= k.seen + 1
  /\ k.emitted <=> EmitsIn(f, k.seen)

(* So does an anchor, and what it covers is among the first n records. *)
AnchorOK(a, f, n) ==
  /\ a \in [prefix : Seq(Record), emitted : BOOLEAN]
  /\ Len(a.prefix) \in 1..n /\ Len(a.prefix) % Interval = 0
  /\ \A i \in 1..Len(a.prefix) : a.prefix[i] = f[i]
  /\ a.emitted <=> EmitsIn(f, Len(a.prefix))

(* An append holds a record that is new to the whole file, not only to the part
   of it that its cache covers. *)
AppendOK(p) ==
  /\ doing[p] # "idle" => ~ torn /\ cache[p] # None /\ rec[p] # None
  /\ doing[p] = "write" => /\ cache[p].seen = Len(file) /\ rec[p].base = Len(file)
                           /\ NewCommand(rec[p].command, file)
  /\ doing[p] = "sync" => Len(file) = cache[p].seen + 1 /\ file[Len(file)] = rec[p]

DirectoryInv ==
  /\ Chain(file) /\ synced \in 0..Len(file)
  /\ torn \in BOOLEAN /\ powered \in BOOLEAN
  /\ anchor # None => AnchorOK(anchor, file, synced)
  /\ cache \in [Process -> {None} \cup Cache]
  /\ \A p \in Process : cache[p] # None => CacheOK(cache[p], file)
  /\ doing \in [Process -> {"idle", "write", "sync"}]
  /\ rec \in [Process -> {None} \cup Record]
  /\ \A p, q \in Process : doing[p] # "idle" /\ doing[q] # "idle" => p = q
  /\ \A p \in Process : AppendOK(p)
  /\ \A r \in acked : /\ powered => InFile(r, Len(file))
                      /\ r \notin unsure => InFile(r, synced)

-----------------------------------------------------------------------------
LEMMA ShapesThere == (\A r \in Record : r # None) /\ (\A k \in Cache : k # None)
  BY DEF Record, Cache, None

(* The bound on bases bounds the file. *)
LEMMA FileBounded == ASSUME NEW f, Chain(f) PROVE Len(f) \in 0..MaxRecords
<1>1. Len(f) \in Nat /\ f \in Seq(Record)
  BY DEF Chain
<1>2. CASE Len(f) = 0
  BY <1>2, DirectoryAssumption
<1>3. CASE Len(f) # 0
  <2>1. Len(f) \in 1..Len(f) /\ f[Len(f)] \in Record
    BY <1>1, <1>3
  <2>2. f[Len(f)].base = Len(f) - 1
    BY <2>1, Zenon DEF Chain
  <2>3. f[Len(f)].base \in 0..(MaxRecords - 1)
    BY <2>1, Zenon DEF Record
  <2> QED
    BY <1>1, <2>2, <2>3, DirectoryAssumption
<1> QED
  BY <1>2, <1>3, Zenon

LEMMA FullReplayOK == ASSUME DirectoryInv PROVE CacheOK(FullReplay, file) /\ FullReplay.seen = Len(file) /\ FullReplay.start = 1
<1>1. Len(file) \in 0..MaxRecords
  BY FileBounded, Zenon DEF DirectoryInv
<1>2. FullReplay.seen = Len(file) /\ FullReplay.start = 1 /\ FullReplay.emitted = Emits(1, Len(file))
  BY Zenon DEF FullReplay
<1>3. Emits(1, Len(file)) <=> EmitsIn(file, Len(file))
  BY Zenon DEF Emits, EmitsIn
<1>4. Emits(1, Len(file)) \in BOOLEAN
  BY Zenon DEF Emits
<1>5. FullReplay \in Cache
  BY <1>1, <1>4, DirectoryAssumption DEF FullReplay, Cache
<1> QED
  BY <1>1, <1>2, <1>3, <1>5, DirectoryAssumption DEF CacheOK

(* What the anchor skips, it answers for. *)
LEMMA AnchorReplayOK ==
  ASSUME DirectoryInv, anchor # None
  PROVE  CacheOK(ReplayFromAnchor, file) /\ ReplayFromAnchor.seen = Len(file)
<1> DEFINE n == Len(anchor.prefix)
<1>1. Len(file) \in 0..MaxRecords
  BY FileBounded, Zenon DEF DirectoryInv
<1>2. AnchorOK(anchor, file, synced) /\ synced \in 0..Len(file)
  BY Zenon DEF DirectoryInv
<1>3. n \in 1..Len(file)
  BY <1>1, <1>2 DEF AnchorOK
<1>4. (anchor.emitted \/ Emits(n, Len(file))) <=> EmitsIn(file, Len(file))
  <2>1. anchor.emitted <=> \E i \in 1..n : file[i].emits
    BY <1>2, Zenon DEF AnchorOK, EmitsIn
  <2>2. \A i : i \in 1..Len(file) <=> i \in 1..n \/ i \in n..Len(file)
    BY <1>1, <1>3
  <2> QED
    BY <2>1, <2>2, Zenon DEF Emits, EmitsIn
<1>5. anchor.emitted \in BOOLEAN /\ (anchor.emitted \/ Emits(n, Len(file))) \in BOOLEAN
  BY <1>2, Zenon DEF AnchorOK, Emits
<1>6. /\ ReplayFromAnchor.seen = Len(file) /\ ReplayFromAnchor.start = n
      /\ ReplayFromAnchor.emitted = (anchor.emitted \/ Emits(n, Len(file)))
  BY Zenon DEF ReplayFromAnchor
<1>7. ReplayFromAnchor \in Cache
  BY <1>1, <1>3, <1>5, DirectoryAssumption DEF ReplayFromAnchor, Cache
<1>8. ReplayFromAnchor.start <= ReplayFromAnchor.seen + 1
  BY <1>1, <1>3, <1>6
<1>9. ReplayFromAnchor.emitted <=> EmitsIn(file, ReplayFromAnchor.seen)
  BY <1>4, <1>6, Zenon
<1> QED
  BY <1>1, <1>6, <1>7, <1>8, <1>9 DEF CacheOK

LEMMA AuthoritativeOK ==
  ASSUME DirectoryInv, NEW p \in Process
  PROVE  CacheOK(Authoritative(p), file) /\ Authoritative(p).seen = Len(file)
<1>1. CASE cache[p] # None /\ cache[p].seen = Len(file)
  <2>1. Authoritative(p) = cache[p]
    BY <1>1, Zenon DEF Authoritative
  <2> QED
    BY <1>1, <2>1, Zenon DEF DirectoryInv
<1>2. CASE ~(cache[p] # None /\ cache[p].seen = Len(file))
  <2>1. CASE AnchorUsable
    <3>1. Authoritative(p) = ReplayFromAnchor /\ anchor # None
      BY <1>2, <2>1, Zenon DEF Authoritative, AnchorUsable
    <3> QED
      BY <3>1, AnchorReplayOK, Zenon
  <2>2. CASE ~ AnchorUsable
    <3>1. Authoritative(p) = FullReplay
      BY <1>2, <2>2, Zenon DEF Authoritative
    <3> QED
      BY <3>1, FullReplayOK, Zenon
  <2> QED
    BY <2>1, <2>2, Zenon
<1> QED
  BY <1>1, <1>2, Zenon

(* A command that the cache of an append does not show is in no record. *)
LEMMA CacheForOK ==
  ASSUME DirectoryInv, NEW p \in Process, NEW c
  PROVE  /\ CacheOK(CacheFor(p, c), file) /\ CacheFor(p, c).seen = Len(file)
         /\ c \notin CommandsIn(CacheFor(p, c).start, CacheFor(p, c).seen) => NewCommand(c, file)
<1>1. CASE c \in CommandsIn(1, Authoritative(p).start - 1)
  <2>1. CacheFor(p, c) = FullReplay
    BY <1>1, Zenon DEF CacheFor
  <2> QED
    BY <2>1, FullReplayOK, Zenon DEF CommandsIn, NewCommand
<1>2. CASE c \notin CommandsIn(1, Authoritative(p).start - 1)
  <2> DEFINE k == Authoritative(p)
  <2>1. CacheFor(p, c) = k
    BY <1>2, Zenon DEF CacheFor
  <2>2. CacheOK(k, file) /\ k.seen = Len(file)
    BY AuthoritativeOK, Zenon
  <2>3. k.start \in Nat /\ Len(file) \in Nat
    BY <2>2 DEF CacheOK, Cache, DirectoryInv, Chain
  <2> HIDE DEF k
  <2>4. \A i \in 1..Len(file) : i \in 1..(k.start - 1) \/ i \in k.start..Len(file)
    BY <2>3
  <2>5. ASSUME c \notin CommandsIn(k.start, Len(file)) PROVE NewCommand(c, file)
    BY <1>2, <2>4, <2>5, Zenon DEF CommandsIn, NewCommand, k
  <2> QED
    BY <2>1, <2>2, <2>5, Zenon
<1> QED
  BY <1>1, <1>2, Zenon

-----------------------------------------------------------------------------
LEMMA InitInv == ASSUME Init PROVE DirectoryInv
<1>1. file = <<>> /\ <<>> \in Seq(Record) /\ Len(<<>>) = 0
  BY DEF Init
<1>2. Chain(file) /\ synced \in 0..Len(file)
  BY <1>1 DEF Init, Chain
<1> QED
  BY <1>2, Zenon DEF Init, DirectoryInv, AppendOK

LEMMA StartAppendKeeps ==
  ASSUME DirectoryInv, NEW p \in Process, NEW r \in Record, StartAppend(p, r)
  PROVE  DirectoryInv'
<1> DEFINE k == CacheFor(p, r.command)
<1>1. /\ CacheOK(k, file) /\ k.seen = Len(file)
      /\ r.command \notin CommandsIn(k.start, k.seen) => NewCommand(r.command, file)
  BY CacheForOK, Zenon
<1>2. /\ cache' = [cache EXCEPT ![p] = k]
      /\ acked' = IF Existing(k, r) THEN acked \cup {r} ELSE acked
      /\ unsure' = IF Existing(k, r) /\ r \notin Synced THEN unsure \cup {r} ELSE unsure
      /\ doing' = IF ValidNext(k, r) THEN [doing EXCEPT ![p] = "write"] ELSE doing
      /\ rec' = IF ValidNext(k, r) THEN [rec EXCEPT ![p] = r] ELSE rec
      /\ UNCHANGED <<file, torn, synced, anchor, faults, powered>>
      /\ ~ torn /\ \A q \in Process : doing[q] = "idle"
  BY Zenon DEF StartAppend, LockFree, FileReadable
<1> HIDE DEF k
<1>3. k \in Cache /\ k # None /\ r # None
  BY <1>1, ShapesThere, Zenon DEF CacheOK
<1>4. Chain(file') /\ synced' \in 0..Len(file') /\ torn' \in BOOLEAN /\ powered' \in BOOLEAN
  BY <1>2, Zenon DEF DirectoryInv
<1>5. anchor' # None => AnchorOK(anchor', file', synced')
  BY <1>2, Zenon DEF DirectoryInv
<1>6. cache' \in [Process -> {None} \cup Cache]
  BY <1>2, <1>3, Zenon DEF DirectoryInv
<1>7. \A q \in Process : cache'[q] # None => CacheOK(cache'[q], file')
  BY <1>1, <1>2, Zenon DEF DirectoryInv
<1>8. doing' \in [Process -> {"idle", "write", "sync"}] /\ rec' \in [Process -> {None} \cup Record]
  BY <1>2, Zenon DEF DirectoryInv
<1>9. \A q \in Process : doing'[q] # "idle" => q = p /\ ValidNext(k, r) /\ doing'[q] = "write"
  BY <1>2, Zenon DEF DirectoryInv
<1>10. ASSUME NEW q \in Process PROVE AppendOK(q)'
  <2>1. CASE doing'[q] = "idle"
    BY <2>1, Zenon DEF AppendOK
  <2>2. CASE doing'[q] # "idle"
    <3>1. q = p /\ ValidNext(k, r) /\ doing'[q] = "write" /\ cache'[q] = k /\ rec'[q] = r
      BY <1>2, <1>9, <2>2, Zenon DEF DirectoryInv
    <3>2. r.base = Len(file) /\ NewCommand(r.command, file)
      BY <1>1, <3>1, Zenon DEF ValidNext
    <3> QED
      BY <1>1, <1>2, <1>3, <3>1, <3>2, Zenon DEF AppendOK, NewCommand
  <2> QED
    BY <2>1, <2>2, Zenon
<1>11. ASSUME NEW a \in acked'
       PROVE (powered => InFile(a, Len(file))) /\ (a \notin unsure' => InFile(a, synced))
  <2>1. CASE a \in acked
    <3>1. unsure \subseteq unsure'
      BY <1>2, Zenon
    <3> QED
      BY <2>1, <3>1, Zenon DEF DirectoryInv
  <2>2. CASE a \notin acked
    <3>1. a = r /\ Existing(k, r) /\ (a \notin unsure' => a \in Synced)
      BY <1>2, <1>11, <2>2, Zenon
    <3>2. k.start \in Nat \ {0} /\ Len(file) \in Nat
      BY <1>3 DEF Cache, DirectoryInv, Chain
    <3>3. InFile(a, Len(file))
      BY <1>1, <3>1, <3>2 DEF Existing, InFile
    <3>4. a \in Synced => InFile(a, synced)
      BY Zenon DEF Synced, InFile
    <3> QED
      BY <3>1, <3>3, <3>4, Zenon
  <2> QED
    BY <2>1, <2>2, Zenon
<1>12. \A a \in acked' : /\ powered' => InFile(a, Len(file))'
                         /\ a \notin unsure' => InFile(a, synced)'
  BY <1>2, <1>11, Zenon DEF InFile
<1> QED
  BY <1>4, <1>5, <1>6, <1>7, <1>8, <1>9, <1>10, <1>12, Zenon DEF DirectoryInv

LEMMA ReadKeeps ==
  ASSUME DirectoryInv, NEW p \in Process, NEW full \in BOOLEAN, Read(p, full)
  PROVE  DirectoryInv'
<1> DEFINE k == IF full /\ Authoritative(p).start > 1 THEN FullReplay ELSE Authoritative(p)
<1>1. CacheOK(k, file)
  BY AuthoritativeOK, FullReplayOK, Zenon
<1>2. /\ cache' = [cache EXCEPT ![p] = k]
      /\ UNCHANGED <<file, torn, synced, anchor, doing, rec, acked, unsure, faults, powered>>
      /\ \A q \in Process : doing[q] = "idle"
  BY Zenon DEF Read, LockFree
<1> HIDE DEF k
<1>3. cache' \in [Process -> {None} \cup Cache]
  BY <1>1, <1>2, Zenon DEF DirectoryInv, CacheOK
<1>4. \A q \in Process : cache'[q] # None => CacheOK(cache'[q], file')
  BY <1>1, <1>2, Zenon DEF DirectoryInv
<1>5. \A q \in Process : AppendOK(q)'
  BY <1>2, Zenon DEF AppendOK
<1> QED
  BY <1>2, <1>3, <1>4, <1>5, Zenon DEF DirectoryInv, InFile

LEMMA WriteKeeps == ASSUME DirectoryInv, NEW p \in Process, Write(p) PROVE DirectoryInv'
<1> DEFINE r == rec[p]
           f == Append(file, rec[p])
<1>1. /\ doing[p] = "write" /\ file' = f /\ doing' = [doing EXCEPT ![p] = "sync"]
      /\ UNCHANGED <<torn, synced, anchor, cache, rec, acked, unsure, faults, powered>>
  BY Zenon DEF Write
<1>2. /\ ~ torn /\ cache[p] # None /\ r \in Record /\ r # None
      /\ cache[p].seen = Len(file) /\ r.base = Len(file) /\ NewCommand(r.command, file)
  BY <1>1, Zenon DEF DirectoryInv, AppendOK
<1>3. file \in Seq(Record) /\ Len(file) \in Nat
  BY DEF DirectoryInv, Chain
<1>4. /\ f \in Seq(Record) /\ Len(f) = Len(file) + 1 /\ f[Len(f)] = r
      /\ \A i \in 1..Len(file) : f[i] = file[i]
  BY <1>2, <1>3
<1> HIDE DEF f
<1>5. \A i \in 1..Len(f) : i \in 1..Len(file) \/ i = Len(f)
  BY <1>3, <1>4
<1>6. Chain(f)
  <2>1. \A i \in 1..Len(f) : f[i].base = i - 1
    <3>1. \A i \in 1..Len(file) : f[i].base = i - 1
      BY <1>4, Zenon DEF DirectoryInv, Chain
    <3> QED
      BY <1>2, <1>3, <1>4, <1>5, <3>1
  <2>2. \A i, j \in 1..Len(f) : f[i].command = f[j].command => i = j
    <3>1. \A i, j \in 1..Len(file) : f[i].command = f[j].command => i = j
      BY <1>4, Zenon DEF DirectoryInv, Chain
    <3>2. \A i \in 1..Len(file) : f[i].command # f[Len(f)].command
      BY <1>2, <1>4, Zenon DEF NewCommand
    <3> QED
      BY <1>5, <3>1, <3>2, Zenon
  <2> QED
    BY <1>4, <2>1, <2>2, Zenon DEF Chain
<1>7. \A n \in 0..Len(file) : EmitsIn(f, n) <=> EmitsIn(file, n)
  BY <1>3, <1>4 DEF EmitsIn
<1>8. synced \in 0..Len(f) /\ synced \in 0..Len(file)
  BY <1>3, <1>4 DEF DirectoryInv
<1>9. anchor # None => AnchorOK(anchor, f, synced)
  <2> SUFFICES ASSUME anchor # None PROVE AnchorOK(anchor, f, synced)
    BY Zenon
  <2>1. AnchorOK(anchor, file, synced)
    BY Zenon DEF DirectoryInv
  <2>2. Len(anchor.prefix) \in 0..Len(file)
    BY <1>8, <2>1 DEF AnchorOK
  <2>3. \A i \in 1..Len(anchor.prefix) : f[i] = file[i]
    BY <1>3, <1>4, <2>2
  <2> QED
    BY <1>7, <2>1, <2>2, <2>3, Zenon DEF AnchorOK
<1>10. ASSUME NEW q \in Process, cache[q] # None PROVE CacheOK(cache[q], f)
  <2>1. CacheOK(cache[q], file)
    BY <1>10, Zenon DEF DirectoryInv
  <2>2. cache[q].seen \in 0..Len(file)
    BY <1>3, <2>1 DEF CacheOK, Cache
  <2> QED
    BY <1>3, <1>4, <1>7, <2>1, <2>2 DEF CacheOK
<1>11. doing' \in [Process -> {"idle", "write", "sync"}]
  BY <1>1, Zenon DEF DirectoryInv
<1>12. \A q \in Process : doing'[q] # "idle" => q = p
  BY <1>1, Zenon DEF DirectoryInv
<1>13. doing'[p] = "sync"
  BY <1>1, Zenon DEF DirectoryInv
<1>14. ASSUME NEW q \in Process PROVE AppendOK(q)'
  <2>1. CASE q = p
    BY <1>1, <1>2, <1>3, <1>4, <1>13, <2>1, Zenon DEF AppendOK
  <2>2. CASE q # p
    BY <1>12, <2>2, Zenon DEF AppendOK
  <2> QED
    BY <2>1, <2>2, Zenon
<1>15. ASSUME NEW a \in acked
       PROVE (powered => InFile(a, Len(file))') /\ (a \notin unsure => InFile(a, synced)')
  <2>1. (powered => InFile(a, Len(file))) /\ (a \notin unsure => InFile(a, synced))
    BY Zenon DEF DirectoryInv
  <2>2. InFile(a, Len(file)) => \E i \in 1..Len(f) : f[i] = a
    BY <1>3, <1>4 DEF InFile
  <2>3. InFile(a, synced) => \E i \in 1..synced : f[i] = a
    BY <1>3, <1>4, <1>8 DEF InFile
  <2> QED
    BY <1>1, <2>1, <2>2, <2>3, Zenon DEF InFile
<1>16. /\ Chain(file') /\ synced' \in 0..Len(file')
       /\ torn' \in BOOLEAN /\ powered' \in BOOLEAN
       /\ anchor' # None => AnchorOK(anchor', file', synced')
  BY <1>1, <1>6, <1>8, <1>9, Zenon DEF DirectoryInv
<1>17. /\ cache' \in [Process -> {None} \cup Cache] /\ rec' \in [Process -> {None} \cup Record]
       /\ \A q \in Process : cache'[q] # None => CacheOK(cache'[q], file')
  BY <1>1, <1>10, Zenon DEF DirectoryInv
<1> QED
  BY <1>1, <1>11, <1>12, <1>14, <1>15, <1>16, <1>17, Zenon DEF DirectoryInv

(* An append that ends without its record leaves the file as it is; part of
   the record may follow only if it was writing. *)
LEMMA ReleaseKeeps ==
  ASSUME DirectoryInv, NEW p \in Process, Released(p),
         UNCHANGED <<file, synced, anchor, acked, unsure, powered>>,
         torn' \in BOOLEAN, doing[p] = "idle" => torn' = torn,
         cache' = cache \/ cache' = [cache EXCEPT ![p] = None]
  PROVE  DirectoryInv'
<1>1. doing' = [doing EXCEPT ![p] = "idle"] /\ rec' = [rec EXCEPT ![p] = None]
  BY Zenon DEF Released
<1>2. doing' \in [Process -> {"idle", "write", "sync"}] /\ rec' \in [Process -> {None} \cup Record]
  BY <1>1, Zenon DEF DirectoryInv
<1>3. \A q \in Process : doing'[q] # "idle" => q # p /\ doing'[q] = doing[q] /\ rec'[q] = rec[q]
  BY <1>1, Zenon DEF DirectoryInv
<1>4. cache' \in [Process -> {None} \cup Cache]
  BY Zenon DEF DirectoryInv
<1>5. \A q \in Process : cache'[q] = cache[q] \/ (q = p /\ cache'[q] = None)
  BY Zenon DEF DirectoryInv
<1>6. \A q \in Process : cache'[q] # None => CacheOK(cache'[q], file')
  BY <1>5, Zenon DEF DirectoryInv
<1>7. \A q, s \in Process : doing'[q] # "idle" /\ doing'[s] # "idle" => q = s
  BY <1>3, Zenon DEF DirectoryInv
<1>8. ASSUME NEW q \in Process PROVE AppendOK(q)'
  <2>1. CASE doing'[q] = "idle"
    BY <2>1, Zenon DEF AppendOK
  <2>2. CASE doing'[q] # "idle"
    <3>1. q # p /\ doing'[q] = doing[q] /\ rec'[q] = rec[q] /\ cache'[q] = cache[q]
      BY <1>3, <1>5, <2>2, Zenon
    <3>2. doing[p] = "idle"
      BY <2>2, <3>1, Zenon DEF DirectoryInv
    <3>3. AppendOK(q)
      BY Zenon DEF DirectoryInv
    <3> QED
      BY <3>1, <3>2, <3>3, Zenon DEF AppendOK, NewCommand
  <2> QED
    BY <2>1, <2>2, Zenon
<1> QED
  BY <1>2, <1>4, <1>6, <1>7, <1>8, Zenon DEF DirectoryInv, InFile

LEMMA SyncKeeps == ASSUME DirectoryInv, NEW p \in Process, Sync(p) PROVE DirectoryInv'
<1> DEFINE c == cache[p]
           k == [c EXCEPT !.seen = @ + 1, !.emitted = @ \/ rec[p].emits]
<1>1. /\ doing[p] = "sync" /\ synced' = Len(file)
      /\ cache' = [cache EXCEPT ![p] = k] /\ anchor' \in Anchors(k)
      /\ acked' = acked \cup {rec[p]}
      /\ doing' = [doing EXCEPT ![p] = "idle"] /\ rec' = [rec EXCEPT ![p] = None]
      /\ UNCHANGED <<file, torn, unsure, faults, powered>>
  BY Zenon DEF Sync, Released
<1>2. /\ c # None /\ CacheOK(c, file) /\ c \in Cache /\ rec[p] \in Record
      /\ Len(file) = c.seen + 1 /\ file[Len(file)] = rec[p]
  BY <1>1, Zenon DEF DirectoryInv, AppendOK, CacheOK
<1>3. Len(file) \in 1..MaxRecords /\ c.seen \in Nat /\ c.seen <= MaxRecords
  <2>1. Len(file) \in 0..MaxRecords
    BY FileBounded, Zenon DEF DirectoryInv
  <2> QED
    BY <1>2, <2>1, DirectoryAssumption DEF Cache
<1>4. k.seen = Len(file) /\ k.start = c.start /\ k.emitted = (c.emitted \/ rec[p].emits)
  BY <1>2, Zenon DEF Cache
<1>5. k \in Cache
  <2>1. (c.emitted \/ rec[p].emits) \in BOOLEAN
    BY <1>2, Zenon DEF Cache, Record
  <2>2. c.seen + 1 \in 0..MaxRecords
    BY <1>2, <1>3
  <2> QED
    BY <1>2, <2>1, <2>2, Zenon DEF Cache
<1>6. k.emitted <=> EmitsIn(file, Len(file))
  <2>1. c.emitted <=> \E i \in 1..c.seen : file[i].emits
    BY <1>2, Zenon DEF CacheOK, EmitsIn
  <2>2. \A i : i \in 1..Len(file) <=> i \in 1..c.seen \/ i = Len(file)
    BY <1>2, <1>3
  <2>3. rec[p].emits <=> file[Len(file)].emits
    BY <1>2, Zenon
  <2> QED
    BY <1>4, <2>1, <2>2, <2>3, Zenon DEF EmitsIn
<1>7. CacheOK(k, file)
  <2>1. k.start <= k.seen + 1
    BY <1>2, <1>3, <1>4 DEF CacheOK, Cache
  <2> QED
    BY <1>3, <1>4, <1>5, <1>6, <2>1 DEF CacheOK
<1>8. anchor' # None => AnchorOK(anchor', file, Len(file))
  <2> DEFINE a == [prefix |-> file, emitted |-> k.emitted]
  <2> HIDE DEF k
  <2>1. CASE anchor' = anchor
    <3> SUFFICES ASSUME anchor # None PROVE AnchorOK(anchor, file, Len(file))
      BY <2>1, Zenon
    <3>1. AnchorOK(anchor, file, synced) /\ synced \in 0..Len(file)
      BY Zenon DEF DirectoryInv
    <3>2. Len(anchor.prefix) \in 1..Len(file)
      BY <1>3, <3>1 DEF AnchorOK
    <3> QED
      BY <3>1, <3>2, Zenon DEF AnchorOK
  <2>2. CASE anchor' # anchor
    <3>1. anchor' = a /\ Len(file) % Interval = 0
      BY <1>1, <2>2, Zenon DEF Anchors
    <3>2. k.emitted \in BOOLEAN /\ file \in Seq(Record)
      BY <1>5, Zenon DEF Cache, DirectoryInv, Chain
    <3>3. a \in [prefix : Seq(Record), emitted : BOOLEAN] /\ a.prefix = file /\ a.emitted = k.emitted
      BY <3>2, Zenon
    <3> HIDE DEF a
    <3> QED
      BY <1>3, <1>6, <3>1, <3>3 DEF AnchorOK
  <2> QED
    BY <2>1, <2>2, Zenon
<1> HIDE DEF k
<1>9. doing' \in [Process -> {"idle", "write", "sync"}] /\ rec' \in [Process -> {None} \cup Record]
  BY <1>1, Zenon DEF DirectoryInv
<1>10. \A q \in Process : doing'[q] = "idle"
  BY <1>1, Zenon DEF DirectoryInv
<1>11. cache' \in [Process -> {None} \cup Cache]
  BY <1>1, <1>5, Zenon DEF DirectoryInv
<1>12. \A q \in Process : cache'[q] # None => CacheOK(cache'[q], file')
  BY <1>1, <1>7, Zenon DEF DirectoryInv
<1>13. \A q \in Process : AppendOK(q)'
  BY <1>10, Zenon DEF AppendOK
<1>14. Chain(file') /\ synced' \in 0..Len(file') /\ torn' \in BOOLEAN /\ powered' \in BOOLEAN
  BY <1>1, <1>3 DEF DirectoryInv
<1>15. anchor' # None => AnchorOK(anchor', file', synced')
  BY <1>1, <1>8, Zenon
<1>16. ASSUME NEW a \in acked' PROVE (powered => InFile(a, Len(file))) /\ (a \notin unsure => InFile(a, Len(file)))
  <2>1. CASE a \in acked
    <3>1. InFile(a, synced) => InFile(a, Len(file))
      BY <1>3 DEF DirectoryInv, InFile
    <3> QED
      BY <2>1, <3>1, Zenon DEF DirectoryInv
  <2>2. CASE a = rec[p]
    BY <1>2, <1>3, <2>2 DEF InFile
  <2> QED
    BY <1>1, <1>16, <2>1, <2>2, Zenon
<1>17. \A a \in acked' : /\ powered' => InFile(a, Len(file))'
                         /\ a \notin unsure' => InFile(a, synced)'
  BY <1>1, <1>16, Zenon DEF InFile
<1> QED
  BY <1>9, <1>10, <1>11, <1>12, <1>13, <1>14, <1>15, <1>17, Zenon DEF DirectoryInv

LEMMA LosePowerKeeps == ASSUME DirectoryInv, LosePower PROVE DirectoryInv'
<1>1. PICK n \in synced..Len(file) : /\ file' = SubSeq(file, 1, n) /\ synced' = n
                                     /\ torn' \in BOOLEAN
  BY Zenon DEF LosePower
<1> DEFINE f == SubSeq(file, 1, n)
<1>2. /\ ~ powered /\ UNCHANGED <<acked, unsure, powered>>
      /\ cache' = [p \in Process |-> None] /\ doing' = [p \in Process |-> "idle"]
      /\ rec' = [p \in Process |-> None]
  BY Zenon DEF LosePower
<1>3. file \in Seq(Record) /\ Len(file) \in Nat /\ synced \in 0..Len(file) /\ n \in 0..Len(file)
  BY <1>1 DEF DirectoryInv, Chain
<1>4. f \in Seq(Record) /\ Len(f) = n /\ \A i \in 1..n : f[i] = file[i]
  BY <1>3
<1> HIDE DEF f
<1>5. \A m \in 0..n : EmitsIn(f, m) <=> EmitsIn(file, m)
  BY <1>3, <1>4 DEF EmitsIn
<1>6. Chain(f)
  <2>1. 1..n \subseteq 1..Len(file)
    BY <1>3
  <2> QED
    BY <1>4, <2>1, Zenon DEF DirectoryInv, Chain
<1>7. ASSUME anchor' # None PROVE AnchorOK(anchor', f, n)
  <2>1. CASE anchor' = anchor
    <3>1. AnchorOK(anchor, file, synced)
      BY <1>7, <2>1, Zenon DEF DirectoryInv
    <3>2. Len(anchor.prefix) \in 1..n /\ Len(anchor.prefix) \in 0..n
      BY <1>1, <1>3, <3>1 DEF AnchorOK
    <3>3. \A i \in 1..Len(anchor.prefix) : f[i] = file[i]
      BY <1>3, <1>4, <3>2
    <3> QED
      BY <1>5, <2>1, <3>1, <3>2, <3>3, Zenon DEF AnchorOK
  <2>2. CASE anchor' # anchor
    <3>1. PICK i \in 1..synced : /\ i % Interval = 0
                                 /\ anchor' = [prefix |-> SubSeq(file, 1, i), emitted |-> Emits(1, i)]
      BY <1>7, <2>2, Zenon DEF LosePower
    <3> DEFINE g == SubSeq(file, 1, i)
    <3>2. i \in 1..n /\ i \in 0..n /\ i \in 0..Len(file)
      BY <1>1, <1>3
    <3>3. g \in Seq(Record) /\ Len(g) = i /\ \A j \in 1..i : g[j] = file[j]
      BY <1>3, <3>2
    <3> HIDE DEF g
    <3>4. \A j \in 1..i : g[j] = f[j]
      BY <1>3, <1>4, <3>2, <3>3
    <3>5. Emits(1, i) \in BOOLEAN /\ (Emits(1, i) <=> EmitsIn(f, i))
      BY <1>5, <3>2, Zenon DEF Emits, EmitsIn
    <3>6. anchor' = [prefix |-> g, emitted |-> Emits(1, i)]
      BY <3>1, Zenon DEF g
    <3>7. /\ anchor' \in [prefix : Seq(Record), emitted : BOOLEAN]
          /\ anchor'.prefix = g /\ anchor'.emitted = Emits(1, i)
      BY <3>3, <3>5, <3>6
    <3> QED
      BY <3>1, <3>2, <3>3, <3>4, <3>5, <3>7 DEF AnchorOK
  <2> QED
    BY <2>1, <2>2, Zenon
<1>8. ASSUME NEW a \in acked, a \notin unsure PROVE InFile(a, synced)'
  <2>1. InFile(a, synced)
    BY <1>8, Zenon DEF DirectoryInv
  <2>2. \E i \in 1..n : f[i] = a
    BY <1>1, <1>3, <1>4, <2>1 DEF InFile
  <2> QED
    BY <1>1, <2>2, Zenon DEF InFile, f
<1>9. \A a \in acked' : /\ powered' => InFile(a, Len(file))'
                        /\ a \notin unsure' => InFile(a, synced)'
  BY <1>2, <1>8, Zenon
<1>10. \A p \in Process : AppendOK(p)'
  BY <1>2, Zenon DEF AppendOK
<1>11. Chain(file') /\ synced' \in 0..Len(file')
  BY <1>1, <1>3, <1>4, <1>6 DEF f
<1>12. anchor' # None => AnchorOK(anchor', file', synced')
  BY <1>1, <1>7, Zenon DEF f
<1> QED
  BY <1>1, <1>2, <1>9, <1>10, <1>11, <1>12, Zenon DEF DirectoryInv

LEMMA NextKeeps == ASSUME DirectoryInv, [Next]_vars PROVE DirectoryInv'
<1>1. CASE UNCHANGED vars
  BY <1>1, Zenon DEF vars, DirectoryInv, AppendOK, InFile
<1>2. ASSUME NEW p \in Process, NEW r \in Record, StartAppend(p, r) PROVE DirectoryInv'
  BY <1>2, StartAppendKeeps, Zenon
<1>3. ASSUME NEW p \in Process, NEW full \in BOOLEAN, Read(p, full) PROVE DirectoryInv'
  BY <1>3, ReadKeeps, Zenon
<1>4. ASSUME NEW p \in Process, Write(p) PROVE DirectoryInv'
  BY <1>4, WriteKeeps, Zenon
<1>5. ASSUME NEW p \in Process, WriteFails(p) PROVE DirectoryInv'
  BY <1>5, ReleaseKeeps, Zenon DEF WriteFails
<1>6. ASSUME NEW p \in Process, SyncFails(p) PROVE DirectoryInv'
  <2>1. torn' \in BOOLEAN
    BY <1>6, Zenon DEF SyncFails, DirectoryInv
  <2> QED
    BY <1>6, <2>1, ReleaseKeeps, Zenon DEF SyncFails
<1>7. ASSUME NEW p \in Process, Sync(p) PROVE DirectoryInv'
  BY <1>7, SyncKeeps, Zenon
<1>8. ASSUME NEW p \in Process, Die(p) PROVE DirectoryInv'
  <2>1. torn' \in BOOLEAN /\ (doing[p] = "idle" => torn' = torn)
    BY <1>8, Zenon DEF Die, DirectoryInv
  <2> QED
    BY <1>8, <2>1, ReleaseKeeps, Zenon DEF Die
<1>9. CASE LosePower
  BY <1>9, LosePowerKeeps, Zenon
<1> QED
  BY <1>1, <1>2, <1>3, <1>4, <1>5, <1>6, <1>7, <1>8, <1>9, Zenon DEF Next

LEMMA DirectoryInvariant == Spec => []DirectoryInv
<1>1. Init => DirectoryInv
  BY InitInv, Zenon
<1>2. DirectoryInv /\ [Next]_vars => DirectoryInv'
  BY NextKeeps, Zenon
<1> QED
  BY <1>1, <1>2, PTL DEF Spec

-----------------------------------------------------------------------------
(* One lock holder at most, counted. *)
INSTANCE FiniteSetTheorems

LEMMA LockHeldOnce == ASSUME DirectoryInv PROVE Cardinality({p \in Process : doing[p] # "idle"}) <= 1
<1> DEFINE S == {p \in Process : doing[p] # "idle"}
<1> SUFFICES Cardinality(S) <= 1
  BY Zenon
<1>1. CASE S = {}
  BY <1>1, FS_EmptySet
<1>2. CASE S # {}
  <2>1. PICK p \in S : TRUE
    BY <1>2, Zenon
  <2>2. S = {p}
    BY <2>1, Zenon DEF DirectoryInv
  <2>3. Cardinality({p}) = 1
    BY FS_Singleton, Zenon
  <2> HIDE DEF S
  <2> QED
    BY <2>2, <2>3
<1> QED
  BY <1>1, <1>2, Zenon

LEMMA SameBoolean == ASSUME NEW a \in BOOLEAN, NEW b \in BOOLEAN, a <=> b PROVE a = b
  BY Zenon

LEMMA InvariantChain == ASSUME DirectoryInv PROVE ChainValid
<1>1. TypeOK
  <2>1. anchor # None => Len(anchor.prefix) % Interval = 0 /\ Len(anchor.prefix) \in 1..synced
    BY Zenon DEF DirectoryInv, AnchorOK
  <2>2. file \in Seq(Record) /\ synced \in 0..Len(file)
    BY Zenon DEF DirectoryInv, Chain
  <2>3. \A p \in Process : cache[p] # None => cache[p] \in Cache
    BY Zenon DEF DirectoryInv, CacheOK
  <2> QED
    BY <2>1, <2>2, <2>3, LockHeldOnce, Zenon DEF TypeOK
<1>2. ASSUME NEW p \in Process, cache[p] # None PROVE cache[p].emitted = Emits(1, cache[p].seen)
  <2>1. CacheOK(cache[p], file)
    BY <1>2, Zenon DEF DirectoryInv
  <2>2. cache[p].emitted \in BOOLEAN /\ Emits(1, cache[p].seen) \in BOOLEAN
    BY <2>1, Zenon DEF CacheOK, Cache, Emits
  <2>3. cache[p].emitted <=> Emits(1, cache[p].seen)
    BY <2>1, Zenon DEF CacheOK, EmitsIn, Emits
  <2> QED
    BY <2>2, <2>3, SameBoolean, Zenon
<1>3. AnchorTransparent
  BY <1>2, Zenon DEF AnchorTransparent
<1>4. DOMAIN file = 1..Len(file)
  BY DEF DirectoryInv, Chain
<1>5. \A i \in DOMAIN file :
        /\ file[i].base = i - 1
        /\ \A j \in DOMAIN file : file[j].command = file[i].command => i = j
  BY <1>4, Zenon DEF DirectoryInv, Chain
<1> QED
  BY <1>1, <1>3, <1>5, Zenon DEF ChainValid

(* Whatever the processes, the failed writes and syncs, the deaths and the power
   failures, the complete records of a journal file are one chain without a
   command twice, and every cached history answers as a full replay would. *)
THEOREM FileIsOneChain == Spec => []ChainValid
<1>1. DirectoryInv => ChainValid
  BY InvariantChain, Zenon
<1> QED
  BY <1>1, DirectoryInvariant, PTL

(* A record append returned is in the file from then on; only one that a retry
   found unsynced may go, and only with the power. *)
THEOREM ReturnedIsStored == Spec => []AckedStored
<1>1. DirectoryInv => AckedStored
  <2> SUFFICES ASSUME DirectoryInv, NEW r \in acked, powered \/ r \notin unsure
               PROVE  \E i \in DOMAIN file : file[i] = r
    BY Zenon DEF AckedStored
  <2>1. file \in Seq(Record) /\ DOMAIN file = 1..Len(file) /\ Len(file) \in Nat /\ synced \in 0..Len(file)
    BY DEF DirectoryInv, Chain
  <2>2. InFile(r, Len(file)) \/ InFile(r, synced)
    BY DEF DirectoryInv
  <2> QED
    BY <2>1, <2>2 DEF InFile
<1> QED
  BY <1>1, DirectoryInvariant, PTL

LEMMA TornStep ==
  ASSUME DirectoryInv, [Next]_vars, torn PROVE Len(file') <= Len(file)
<1>1. file \in Seq(Record) /\ Len(file) \in Nat
  BY DEF DirectoryInv, Chain
<1>2. CASE file' = file
  BY <1>1, <1>2
<1>3. ASSUME NEW p \in Process, Write(p) PROVE FALSE
  BY <1>3, Zenon DEF Write, DirectoryInv, AppendOK
<1>4. CASE LosePower
  <2>1. PICK n \in synced..Len(file) : file' = SubSeq(file, 1, n)
    BY <1>4, Zenon DEF LosePower
  <2>2. n \in 0..Len(file)
    BY <1>1 DEF DirectoryInv
  <2> QED
    BY <1>1, <2>1, <2>2
<1> QED
  BY <1>2, <1>3, <1>4, Zenon DEF Next, vars, StartAppend, Read, WriteFails, Sync, SyncFails, Die

(* No step of any process appends behind part of a record: an append that is
   past the lock has found the file readable, and no other can tear it. *)
THEOREM NothingBehindTorn == Spec => TornStops
<1>1. DirectoryInv /\ [Next]_vars => [torn /\ torn' => Len(file') <= Len(file)]_vars
  BY TornStep, Zenon
<1> QED
  BY <1>1, DirectoryInvariant, PTL DEF Spec, TornStops

-----------------------------------------------------------------------------
(* The log a caller sees is the file as long as the power stays on. *)
Shown == IF powered THEN file ELSE <<>>
Told  == IF powered THEN acked ELSE {}

LEMMA AckStep ==
  ASSUME DirectoryInv, NEW r \in Record, InFile(r, Len(file)),
         file' = file, powered' = powered, acked' = acked \cup {r}
  PROVE  [Log!LogNext]_<<Shown, Told>>
<1>1. CASE ~ powered
  BY <1>1, Zenon DEF Shown, Told
<1>2. CASE powered
  <2>1. Shown = file /\ Shown' = file /\ Told = acked /\ Told' = acked \cup {r}
    BY <1>2 DEF Shown, Told
  <2>2. PICK i \in DOMAIN file : file[i] = r
    BY DEF InFile, DirectoryInv, Chain
  <2>3. r \in Log!Logged
    BY <1>2, <2>2, Zenon DEF Log!Logged
  <2>4. Log!Acknowledge(r)
    BY <1>2, <2>3, Zenon DEF Log!Acknowledge
  <2> QED
    BY <2>4, Zenon DEF Log!LogNext
<1> QED
  BY <1>1, <1>2, Zenon

LEMMA AppendStep ==
  ASSUME DirectoryInv, NEW p \in Process, Write(p)
  PROVE  [Log!LogNext]_<<Shown, Told>>
<1>1. /\ doing[p] = "write" /\ file' = Append(file, rec[p])
      /\ acked' = acked /\ powered' = powered
  BY Zenon DEF Write
<1>2. CASE ~ powered
  BY <1>1, <1>2, Zenon DEF Shown, Told
<1>3. CASE powered
  <2>1. PICK r \in Record : r = rec[p]
    BY <1>1, Zenon DEF DirectoryInv, AppendOK
  <2>2. \A i \in DOMAIN file : file[i].command # r.command
    BY <1>1, <2>1 DEF DirectoryInv, AppendOK, NewCommand, Chain
  <2>3. Log!Accept(r)
    BY <1>1, <1>3, <2>1, <2>2, Zenon DEF Log!Accept, RecordCommand
  <2> QED
    BY <2>3, Zenon DEF Log!LogNext
<1> QED
  BY <1>2, <1>3, Zenon

LEMMA StepRefines ==
  ASSUME DirectoryInv, [Next]_vars
  PROVE  [Log!LogNext]_<<IF powered THEN file ELSE <<>>, IF powered THEN acked ELSE {}>>
<1> SUFFICES [Log!LogNext]_<<Shown, Told>>
  BY Zenon DEF Shown, Told
<1>1. CASE file' = file /\ acked' = acked /\ powered' = powered
  BY <1>1, Zenon DEF Shown, Told
<1>2. ASSUME NEW p \in Process, NEW r \in Record, StartAppend(p, r)
      PROVE  [Log!LogNext]_<<Shown, Told>>
  <2> DEFINE k == CacheFor(p, r.command)
  <2>1. file' = file /\ powered' = powered /\ acked' = IF Existing(k, r) THEN acked \cup {r} ELSE acked
    BY <1>2, Zenon DEF StartAppend
  <2>2. CacheOK(k, file) /\ k.seen = Len(file)
    BY CacheForOK, Zenon
  <2> HIDE DEF k
  <2>3. CASE Existing(k, r)
    <3>1. k.start \in Nat \ {0} /\ Len(file) \in Nat
      BY <2>2 DEF CacheOK, Cache, DirectoryInv, Chain
    <3>2. InFile(r, Len(file))
      BY <2>2, <2>3, <3>1 DEF Existing, InFile
    <3> QED
      BY <2>1, <2>3, <3>2, AckStep, Zenon
  <2>4. CASE ~ Existing(k, r)
    BY <1>1, <2>1, <2>4, Zenon
  <2> QED
    BY <2>3, <2>4, Zenon
<1>3. ASSUME NEW p \in Process, Write(p) PROVE [Log!LogNext]_<<Shown, Told>>
  BY <1>3, AppendStep, Zenon
<1>4. ASSUME NEW p \in Process, Sync(p) PROVE [Log!LogNext]_<<Shown, Told>>
  <2>1. PICK r \in Record : r = rec[p]
    BY <1>4, Zenon DEF Sync, DirectoryInv, AppendOK
  <2>2. /\ file' = file /\ powered' = powered /\ acked' = acked \cup {r}
        /\ Len(file) = cache[p].seen + 1 /\ file[Len(file)] = r
    BY <1>4, <2>1, Zenon DEF Sync, DirectoryInv, AppendOK
  <2>3. cache[p].seen \in Nat /\ Len(file) \in Nat
    BY <1>4 DEF Sync, DirectoryInv, AppendOK, CacheOK, Cache, Chain
  <2>4. InFile(r, Len(file))
    BY <2>2, <2>3 DEF InFile
  <2> QED
    BY <2>2, <2>4, AckStep, Zenon
<1>5. CASE LosePower
  <2>1. ~ powered /\ powered' = powered
    BY <1>5, Zenon DEF LosePower
  <2> QED
    BY <2>1, Zenon DEF Shown, Told
<1> QED
  BY <1>1, <1>2, <1>3, <1>4, <1>5, Zenon DEF Next, vars, Read, WriteFails, SyncFails, Die

(* While the power stays on, the file that any number of processes write, each
   through its own cache or anchor, is an append-only log: every step of theirs
   is one of the log's, or none. *)
THEOREM DirectoryImplementsLog == Spec => ImplementsCommitLog
<1>1. Init => Log!LogInit
  BY Zenon DEF Init, Log!LogInit
<1>2. DirectoryInv /\ [Next]_vars
      => [Log!LogNext]_<<IF powered THEN file ELSE <<>>, IF powered THEN acked ELSE {}>>
  BY StepRefines, Zenon
<1>3. Spec => Log!LogSpec
  BY <1>1, <1>2, DirectoryInvariant, PTL DEF Spec, Log!LogSpec
<1> QED
  BY <1>3, Zenon DEF ImplementsCommitLog

=============================================================================
