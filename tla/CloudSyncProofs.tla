-------------------------- MODULE CloudSyncProofs --------------------------
(***************************************************************************)
(* Proofs about the synchronisation, for any devices and bounds and        *)
(* whatever order the Drive gives to files of the same time: the types;    *)
(* the last write to a JSON file is kept where it was made                 *)
(* (LastWriteKept), and no garbled copy of it gets to the Drive            *)
(* (GarbledStaysLocal); a book that is gone stays away (DeletedStaysAway). *)
(***************************************************************************)
EXTENDS CloudSync, ListsProofs

---------------------------------------------------------------------------
\* The inductive invariant.

Copy == [content : Version, time : 0..MaxTime, trashed : BOOLEAN]
Place == {"idle", "remove", "download", "copy", "mark", "upload", "send"}

\* TypeOK, by the part of the state
TypedDrive ==
    /\ clock \in 0..MaxTime
    /\ remote \in Seq(Copy) /\ Len(remote) <= MaxId
TypedLocal ==
    /\ content \in [Device -> Version] /\ mtime \in [Device -> 0..MaxTime]
    /\ marked \in [Device -> [at : -1..MaxTime, as : 0..MaxTime]]
    /\ deleting \in [Device -> BOOLEAN]
TypedPass ==
    /\ pc \in [Device -> Place]
    /\ snap \in [Device -> Seq(File)] /\ next \in [Device -> 1..(MaxId + 1)]
    /\ map2 \in [Device -> 0..MaxId] /\ temp \in [Device -> Version]
TypedFlags ==
    /\ json \in BOOLEAN /\ latest \in 0..MaxTime /\ writer \in Device
    /\ mishap \subseteq Mishaps /\ gone \in BOOLEAN
TypedBounds == edits \in 0..MaxEdit[json] /\ trouble \in 0..MaxTrouble[json]

Types == TypedDrive /\ TypedLocal /\ TypedPass /\ TypedFlags /\ TypedBounds

\* A list holds files of the Drive, and the file in map2 is one of them.
Position(d) == 1..Len(snap[d])
PassOf(d) ==
    /\ Len(snap[d]) <= Len(remote) /\ next[d] <= Len(snap[d]) + 1 /\ map2[d] <= Len(remote)
    /\ \A i \in Position(d) : snap[d][i].id \in Id
    /\ pc[d] = "idle" => snap[d] = <<>>
    /\ pc[d] # "idle" /\ map2[d] # 0 => \E i \in Position(d) : snap[d][i].id = map2[d]
    /\ pc[d] \in {"copy", "mark", "upload", "send"} => next[d] <= Len(snap[d])

Passes == \A d \in Device : PassOf(d)

\* No file and no mark is of a time to come.
Past(d) == mtime[d] <= clock /\ marked[d].at <= clock
Clocks == latest <= clock /\ \A d \in Device : Past(d)

\* What is promised of a JSON file, as long as none of these mishaps has happened
Lossy == {"torn", "masked", "overrun", "crossed"}
Current == json /\ mishap \cap Lossy = {}

\* The file of the last writer is what was written, and marked as its own if at all.
WriterHas ==
    /\ content[writer] = latest /\ mtime[writer] = latest /\ LastModified(writer) = latest
    /\ pc[writer] \notin {"copy", "mark"} /\ \A d \in Device : ~deleting[d]

\* There is one file on the Drive at most, and it is not later than the last write;
\* a device that has just written and never marked its file has not sent it.
OnDrive ==
    /\ Len(remote) <= 1
    /\ remote # <<>> =>
          /\ ~remote[1].trashed /\ remote[1].time <= latest /\ remote[1].content \in 0..latest
          /\ marked[writer] = Unmarked /\ Exists(writer) => remote[1].content # latest

\* A list is not ahead of the Drive, and a pass knows a file that was listed.
InList(d) ==
    /\ \A i \in Position(d) :
          /\ ~snap[d][i].trashed /\ snap[d][i].time <= remote[1].time /\ snap[d][i].size \in 0..latest
          /\ d = writer /\ marked[d] = Unmarked /\ Exists(d) => snap[d][i].size # latest
    /\ pc[d] \in {"remove", "download", "copy", "mark"} /\ snap[d] # <<>> => map2[d] # 0
    /\ d = Owner /\ pc[d] # "idle" /\ snap[d] = <<>> => remote = <<>>

\* The file of a device is what was written there, not after the last write, ...
OwnWrite(d) ==
    /\ content[d] = mtime[d] /\ LastModified(d) = mtime[d]
    /\ mtime[d] <= latest /\ (d # writer => mtime[d] < latest)

\* ... or a download, good or garbled, marked with a time that neither the Drive nor
\* the list of a pass is behind, so that it is never sent.
Downloaded(d) ==
    /\ remote # <<>> /\ pc[d] \notin {"upload", "send"}
    /\ marked[d].at = mtime[d] /\ marked[d].as <= remote[1].time
    /\ \A i \in Position(d) : marked[d].as <= snap[d][i].time

\* Only what was written at a device is sent, with a time later than the list's.
Local(d) ==
    /\ Exists(d) /\ pc[d] # "mark" => OwnWrite(d) \/ Downloaded(d)
    /\ Exists(d) /\ d # Owner => remote # <<>> /\ (pc[d] # "idle" => snap[d] # <<>>)
    /\ pc[d] \in {"copy", "mark"} => d # writer
    /\ pc[d] \in {"upload", "send"} => Exists(d)
    /\ pc[d] = "upload" => Listed(d).time <= mtime[d]
    /\ pc[d] = "send" => /\ marked[d].at # -1 /\ Listed(d).time <= marked[d].as
                         /\ marked[d].as <= mtime[d]

LastWrite == Current => WriterHas /\ OnDrive
InLists == Current => \A d \in Device : InList(d)
Locals == Current => \A d \in Device : Local(d)

\* Of a book that is gone there is only what is in the trash, on the Drive and in
\* every list of a pass.
Trashed == \A i \in Id : remote[i].trashed
Without(d) ==
    /\ ~Exists(d) /\ pc[d] \in {"idle", "remove", "download"}
    /\ \A i \in Position(d) : snap[d][i].trashed

Away == gone => Trashed /\ \A d \in Device : Without(d)

IInv == Types /\ Passes /\ Clocks /\ LastWrite /\ InLists /\ Locals /\ Away

LEMMA TypedParts == TypeOK <=> Types
BY DEF TypeOK, Types, TypedDrive, TypedLocal, TypedPass, TypedFlags, TypedBounds, Copy, Place

---------------------------------------------------------------------------
\* What a list is, and what is taken from it.

LEMMA PickListed ==
  ASSUME NEW files \in Seq(File)
  PROVE  /\ files = <<>> => Pick(files) = NoFile
         /\ files # <<>> => \E i \in 1..Len(files) : Pick(files) = files[i]
<1> DEFINE kept == {i \in 1..Len(files) : ~files[i].trashed}
<1>1. CASE kept # {}
  <2>1. \E i \in kept : \A j \in kept : i <= j
    <3>1. Len(files) \in Nat /\ kept \in SUBSET (1..Len(files))
      OBVIOUS
    <3> HIDE DEF kept
    <3> QED BY <1>1, <3>1, FirstPosition
  <2> DEFINE first == CHOOSE i \in kept : \A j \in kept : i <= j
  <2>2. first \in kept
    BY <2>1
  <2>3. Pick(files) = files[first]
    BY <1>1 DEF Pick
  <2> HIDE DEF first
  <2> QED BY <2>2, <2>3
<1>2. CASE kept = {} /\ files # <<>>
  <2>1. Pick(files) = files[Len(files)]
    BY <1>2 DEF Pick, Last
  <2> QED BY <1>2, <2>1
<1>3. CASE kept = {} /\ files = <<>>
  BY <1>3 DEF Pick
<1> QED BY <1>1, <1>2, <1>3

\* The file a pass found for the path is one of its list, if there is one.
LEMMA KnownListed ==
  ASSUME Types, Passes, NEW d \in Device, pc[d] # "idle"
  PROVE  /\ map2[d] = 0 => Known(d) = NoFile
         /\ map2[d] # 0 => \E i \in Position(d) : Known(d) = snap[d][i] /\ snap[d][i].id = map2[d]
<1>1. ASSUME map2[d] # 0
      PROVE  \E i \in Position(d) : Known(d) = snap[d][i] /\ snap[d][i].id = map2[d]
  <2>1. PICK i \in Position(d) : snap[d][i].id = map2[d]
    BY <1>1 DEF Passes, PassOf
  <2>2. snap[d][i] \in Range(snap[d])
    BY <2>1 DEF Position, Range, Types, TypedPass
  <2>3. Known(d) \in Range(snap[d]) /\ Known(d).id = map2[d]
    BY <1>1, <2>1, <2>2 DEF Known
  <2> QED BY <2>3 DEF Position, Range, Types, TypedPass
<1> QED BY <1>1 DEF Known

ListEffect(d, files) ==
    /\ files \in Seq(File) /\ Len(files) = Len(remote)
    /\ snap' = [snap EXCEPT ![d] = files] /\ map2' = [map2 EXCEPT ![d] = Pick(files).id]
    /\ \A i \in 1..Len(files) : \E j \in Id :
          files[i] = [id |-> j, size |-> remote[j].content, time |-> remote[j].time,
                      trashed |-> remote[j].trashed]
    /\ files = <<>> => map2'[d] = 0
    /\ files # <<>> => \E i \in 1..Len(files) : map2'[d] = files[i].id

LEMMA Listing ==
  ASSUME Types, NEW d \in Device, List(d)
  PROVE  \E files : ListEffect(d, files)
<1>1. PICK files \in Lists : /\ snap' = [snap EXCEPT ![d] = files]
                             /\ map2' = [map2 EXCEPT ![d] = Pick(files).id]
  BY DEF List
<1>2. Entries \subseteq File
  <2> SUFFICES ASSUME NEW i \in Id
               PROVE  [id |-> i, size |-> remote[i].content, time |-> remote[i].time,
                       trashed |-> remote[i].trashed] \in File
    BY DEF Entries
  <2>1. remote[i] \in Copy /\ i \in 0..MaxId
    BY SyncAssumption DEF Types, TypedDrive, Id
  <2> QED BY <2>1 DEF File, Copy
<1>3. files \in Seq(Entries) /\ Len(files) = Len(remote)
  BY DEF Lists, Id, Types, TypedDrive
<1>4. files \in Seq(File)
  BY <1>2, <1>3
<1>5. \A i \in 1..Len(files) : files[i] \in Entries
  BY <1>3
<1>6. map2'[d] = Pick(files).id
  BY <1>1 DEF Types, TypedPass
<1>7. files # <<>> => \E i \in 1..Len(files) : map2'[d] = files[i].id
  BY <1>4, <1>6, PickListed
<1>8. files = <<>> => map2'[d] = 0
  <2> SUFFICES ASSUME files = <<>> PROVE map2'[d] = 0
    OBVIOUS
  <2>1. Pick(files) = NoFile
    BY <1>4, PickListed, Zenon
  <2> QED BY <1>6, <2>1 DEF NoFile
<1> QED BY <1>1, <1>3, <1>4, <1>5, <1>7, <1>8 DEF ListEffect, Entries

LEMMA LastModifiedType ==
  ASSUME Types, NEW d \in Device PROVE LastModified(d) \in 0..MaxTime
BY DEF Types, TypedLocal, LastModified

\* The file the download has come to is one of the list and of the Drive.
LEMMA ListedFacts ==
  ASSUME Types, Passes, NEW d \in Device, next[d] <= Len(snap[d])
  PROVE  /\ next[d] \in Position(d) /\ Listed(d) = snap[d][next[d]] /\ Listed(d) \in File
         /\ Listed(d).id \in Id /\ remote[Listed(d).id] \in Copy
<1>1. next[d] \in Position(d) /\ Listed(d) = snap[d][next[d]]
  BY DEF Types, TypedPass, Position, Listed
<1>2. Listed(d) \in File /\ Listed(d).id \in Id
  BY <1>1 DEF Types, TypedPass, Position, Passes, PassOf
<1> QED BY <1>1, <1>2 DEF Types, TypedDrive, Id

\* Where there is one file, a list that is not empty has it.
LEMMA OneFile ==
  ASSUME NEW s \in Seq(File), NEW r \in Seq(Copy), Len(s) <= Len(r), Len(r) <= 1, NEW n \in 1..Len(s)
  PROVE  n = 1 /\ Len(s) = 1 /\ Len(r) = 1 /\ s # <<>> /\ r # <<>>
<1>1. \A a, b \in Nat, c \in Int : a <= b /\ b <= 1 /\ 1 <= c /\ c <= a => c = 1 /\ a = 1 /\ b = 1
  OBVIOUS
<1>2. Len(s) \in Nat /\ Len(r) \in Nat /\ n \in Int /\ 1 <= n /\ n <= Len(s)
  OBVIOUS
<1>3. n = 1 /\ Len(s) = 1 /\ Len(r) = 1
  BY <1>1, <1>2, Zenon
<1>4. Len(<<>>) = 0 /\ 1 # 0
  OBVIOUS
<1> QED BY <1>3, <1>4, Zenon

LEMMA OneListed ==
  ASSUME IInv, Current, NEW d \in Device, NEW n \in Position(d)
  PROVE  /\ n = 1 /\ Len(snap[d]) = 1 /\ Position(d) = {1} /\ snap[d] # <<>> /\ remote # <<>>
         /\ remote[1] \in Copy /\ snap[d][1] \in File
<1> USE DEF IInv
<1>1. snap[d] \in Seq(File) /\ remote \in Seq(Copy) /\ Len(snap[d]) <= Len(remote) /\ Len(remote) <= 1
  BY DEF Types, TypedPass, TypedDrive, Passes, PassOf, LastWrite, OnDrive
<1>2. n = 1 /\ Len(snap[d]) = 1 /\ Len(remote) = 1 /\ snap[d] # <<>> /\ remote # <<>>
  BY <1>1, OneFile DEF Position
<1> QED BY <1>1, <1>2 DEF Position

\* The last writer does not download, nor does it take a listed file for its own ...
LEMMA WriterKeeps ==
  ASSUME IInv, Current
  PROVE  /\ writer \in Device /\ latest \in Nat /\ LastModified(writer) = latest
         /\ Downloading(writer) => /\ Exists(writer) => ~SameFile(writer)
                                   /\ Compare(Listed(writer), writer) <= 0
<1> USE SyncAssumption DEF IInv
<1>1. writer \in Device /\ latest \in Nat /\ LastModified(writer) = latest /\ content[writer] = latest
  BY DEF Types, TypedFlags, LastWrite, WriterHas
<1>2. ASSUME Downloading(writer)
      PROVE  (Exists(writer) => ~SameFile(writer)) /\ Compare(Listed(writer), writer) <= 0
  <2>1. /\ next[writer] \in Position(writer) /\ Listed(writer) = snap[writer][next[writer]]
        /\ Listed(writer) \in File
    BY <1>1, <1>2, ListedFacts DEF Downloading
  <2>2. remote # <<>> /\ remote[1] \in Copy
    BY <1>1, <2>1, OneListed
  <2>3. /\ Listed(writer).time <= remote[1].time /\ remote[1].time <= latest
        /\ marked[writer] = Unmarked /\ Exists(writer) => Listed(writer).size # latest
    BY <1>1, <2>1, <2>2 DEF InLists, InList, LastWrite, OnDrive
  <2>4. Listed(writer).time <= latest
    BY <1>1, <2>1, <2>2, <2>3 DEF File, Copy
  <2> QED BY <1>1, <2>1, <2>3, <2>4 DEF SameFile, Compare, Current, File
<1> QED BY <1>1, <1>2

LEMMA OthersDownload == ASSUME IInv, Current, NEW d \in Device, Wanted(d) PROVE d # writer
<1> SUFFICES ASSUME d = writer PROVE FALSE
  OBVIOUS
<1>1. Compare(Listed(d), d) <= 0
  BY WriterKeeps DEF Wanted
<1>2. Listed(d) \in File
  BY ListedFacts DEF Wanted, Downloading, IInv
<1>3. Compare(Listed(d), d) = Listed(d).time - LastModified(d) /\ LastModified(d) \in 0..MaxTime
  BY LastModifiedType DEF Compare, Current, IInv
<1> QED BY <1>1, <1>2, <1>3, SyncAssumption DEF Wanted, File

\* ... and what is sent was written at that device; the owner alone creates a file.
LEMMA Uploader ==
  ASSUME IInv, Current, NEW d \in Device, pc[d] = "download", Exists(d)
  PROVE  /\ Known(d).trashed => /\ d = Owner /\ remote = <<>> /\ snap[d] = <<>>
                                /\ map2[d] = 0 /\ OwnWrite(d)
         /\ ~Known(d).trashed /\ Compare(Known(d), d) < 0 => OwnWrite(d)
<1> USE SyncAssumption DEF IInv
<1>1. Local(d) /\ InList(d)
  BY DEF Locals, InLists
<1>2. OwnWrite(d) \/ Downloaded(d)
  BY <1>1 DEF Local
<1>3. ASSUME Known(d).trashed
      PROVE  d = Owner /\ remote = <<>> /\ snap[d] = <<>> /\ map2[d] = 0 /\ OwnWrite(d)
  <2>1. map2[d] = 0
    <3> SUFFICES ASSUME map2[d] # 0 PROVE FALSE
      OBVIOUS
    <3>1. PICK i \in Position(d) : Known(d) = snap[d][i]
      BY KnownListed
    <3> QED BY <1>1, <1>3, <3>1 DEF InList
  <2>2. snap[d] = <<>>
    BY <1>1, <2>1 DEF InList
  <2>3. d = Owner
    BY <1>1, <2>2 DEF Local
  <2>4. remote = <<>>
    BY <1>1, <2>2, <2>3 DEF InList
  <2> QED BY <1>2, <2>1, <2>2, <2>3, <2>4 DEF Downloaded
<1>4. ASSUME ~Known(d).trashed, Compare(Known(d), d) < 0, Downloaded(d) PROVE FALSE
  <2>1. map2[d] # 0
    BY <1>4, KnownListed DEF NoFile
  <2>2. PICK i \in Position(d) : Known(d) = snap[d][i]
    BY <2>1, KnownListed
  <2>3. LastModified(d) = marked[d].as /\ marked[d].as <= Known(d).time
    BY <1>4, <2>2 DEF Downloaded, LastModified
  <2>4. Known(d) \in File
    BY <2>2 DEF Types, TypedPass, Position
  <2>5. marked[d].as \in 0..MaxTime
    BY DEF Types, TypedLocal
  <2> QED BY <1>4, <2>3, <2>4, <2>5 DEF Compare, Current, File
<1> QED BY <1>2, <1>3, <1>4

---------------------------------------------------------------------------
\* A step of one device leaves the others alone but for the Drive, whose time does not
\* go back, and the last write, which comes after all others; the lemmas below say
\* what remains to be shown of it.

Others(d) ==
    \A e \in Device \ {d} :
        /\ snap'[e] = snap[e] /\ next'[e] = next[e] /\ map2'[e] = map2[e] /\ pc'[e] = pc[e]
        /\ content'[e] = content[e] /\ mtime'[e] = mtime[e] /\ marked'[e] = marked[e]

Onward(d) ==
    /\ Len(remote) <= Len(remote') /\ clock <= clock'
    /\ Current' =>
          /\ Current
          /\ remote # <<>> => remote' # <<>> /\ remote[1].time <= remote'[1].time
          /\ d # Owner /\ remote = <<>> => remote' = <<>>
          /\ \/ latest' = latest /\ writer' = writer
             \/ latest < latest' /\ writer' = d

\* The first file of the Drive, where there is one
LEMMA FirstFile == Types => (remote # <<>> => remote[1] \in Copy /\ remote[1].time \in 0..MaxTime)
<1>1. Types => (remote # <<>> => remote[1] \in Copy)
  BY DEF Types, TypedDrive
<1> QED BY <1>1 DEF Copy

LEMMA TimeKept ==
  ASSUME Types, Types', NEW d \in Device, Onward(d), Current', remote # <<>>
  PROVE  /\ remote[1].time \in 0..MaxTime /\ remote' # <<>> /\ remote'[1].time \in 0..MaxTime
         /\ remote[1].time <= remote'[1].time
<1>1. remote' # <<>> /\ remote[1].time <= remote'[1].time
  BY DEF Onward
<1>2. remote'[1] \in Copy
  BY <1>1 DEF Types, TypedDrive
<1> QED BY <1>1, <1>2, FirstFile DEF Copy

\* The passes of the other devices ...
LEMMA PassKept ==
  ASSUME Types, Types', NEW d \in Device, NEW e \in Device \ {d},
         Others(d), Onward(d), PassOf(e)
  PROVE  PassOf(e)'
<1>1. Len(remote) \in Nat /\ Len(remote') \in Nat /\ Len(remote) <= Len(remote')
  BY DEF Types, TypedDrive, Onward
<1>2. map2[e] \in 0..MaxId /\ Len(snap[e]) \in Nat /\ snap[e] \in Seq(File)
  BY DEF Types, TypedPass
<1>3. /\ snap'[e] = snap[e] /\ next'[e] = next[e] /\ map2'[e] = map2[e] /\ pc'[e] = pc[e]
  BY DEF Others
<1>4. \A i \in Position(e) : snap[e][i].id \in 1..Len(remote')
  BY <1>1, <1>2 DEF PassOf, Position, Id
<1>5. Len(snap[e]) <= Len(remote') /\ map2[e] <= Len(remote')
  BY <1>1, <1>2, SyncAssumption DEF PassOf
<1> QED BY <1>3, <1>4, <1>5 DEF PassOf, Position, Id

\* ... what they list of a JSON file ...
LEMMA InListKept ==
  ASSUME Types, Types', Passes, NEW d \in Device, NEW e \in Device \ {d},
         Others(d), Onward(d), Current', InList(e)
  PROVE  InList(e)'
<1>1. /\ snap'[e] = snap[e] /\ map2'[e] = map2[e] /\ pc'[e] = pc[e]
      /\ mtime'[e] = mtime[e] /\ marked'[e] = marked[e] /\ Position(e)' = Position(e)
      /\ Exists(e)' = Exists(e)
  BY DEF Others, Position, Exists
<1>2. /\ latest \in Nat /\ latest' \in Nat /\ latest <= latest'
      /\ e = writer' => e = writer /\ latest' = latest
  BY DEF Onward, Types, TypedFlags
<1>3. ASSUME NEW i \in Position(e)
      PROVE  /\ ~snap[e][i].trashed /\ snap[e][i].time <= remote'[1].time
             /\ snap[e][i].size \in 0..latest'
             /\ e = writer' /\ marked[e] = Unmarked /\ Exists(e) => snap[e][i].size # latest'
  <2>1. remote # <<>> /\ snap[e][i] \in File
    BY DEF Types, TypedDrive, TypedPass, Passes, PassOf, Position
  <2>2. remote[1].time \in 0..MaxTime /\ remote'[1].time \in 0..MaxTime
        /\ remote[1].time <= remote'[1].time
    BY <2>1, TimeKept
  <2>3. snap[e][i].time <= remote'[1].time
    BY <2>1, <2>2 DEF InList, File
  <2> QED BY <1>2, <2>3 DEF InList
<1>4. e = Owner /\ pc[e] # "idle" /\ snap[e] = <<>> => remote' = <<>>
  BY DEF InList, Onward
<1> QED BY <1>1, <1>3, <1>4 DEF InList

\* ... and have of it ...
LEMMA LocalKept ==
  ASSUME Types, Types', Passes, NEW d \in Device, NEW e \in Device \ {d},
         Others(d), Onward(d), Current', Local(e)
  PROVE  Local(e)'
<1>1. /\ snap'[e] = snap[e] /\ next'[e] = next[e] /\ pc'[e] = pc[e] /\ content'[e] = content[e]
      /\ mtime'[e] = mtime[e] /\ marked'[e] = marked[e] /\ Position(e)' = Position(e)
      /\ Exists(e)' = Exists(e) /\ LastModified(e)' = LastModified(e) /\ Listed(e)' = Listed(e)
  BY DEF Others, Position, Exists, LastModified, Listed
<1>2. /\ latest \in Nat /\ latest' \in Nat /\ mtime[e] \in Nat /\ marked[e].as \in Nat
  BY DEF Types, TypedFlags, TypedLocal
<1>3. OwnWrite(e) => OwnWrite(e)'
  BY <1>1, <1>2 DEF OwnWrite, Onward
<1>4. Downloaded(e) => Downloaded(e)'
  <2> SUFFICES ASSUME Downloaded(e) PROVE remote' # <<>> /\ marked[e].as <= remote'[1].time
    BY <1>1 DEF Downloaded
  <2>1. /\ remote' # <<>> /\ remote[1].time <= remote'[1].time
        /\ remote[1].time \in 0..MaxTime /\ remote'[1].time \in 0..MaxTime
    BY TimeKept DEF Downloaded
  <2> QED BY <1>2, <2>1 DEF Downloaded
<1>5. remote # <<>> => remote' # <<>>
  BY DEF Onward
<1>6. e = writer' => e = writer
  BY DEF Onward
<1> QED BY <1>1, <1>3, <1>4, <1>5, <1>6 DEF Local

\* ... and that they do not have a book that is gone.
LEMMA WithoutKept ==
  ASSUME NEW d \in Device, NEW e \in Device \ {d}, Others(d), Without(e)
  PROVE  Without(e)'
BY DEF Others, Without, Exists, Position

LEMMA StepOf ==
  ASSUME IInv, NEW d \in Device, Types', Others(d), Onward(d), PassOf(d)', Past(d)', latest' <= clock',
         Current' => WriterHas' /\ OnDrive' /\ InList(d)' /\ Local(d)',
         gone' => Trashed' /\ Without(d)' /\ \A e \in Device \ {d} : Without(e)
  PROVE  IInv'
<1> USE DEF IInv
<1>1. Passes'
  BY PassKept DEF Passes
<1>2. Clocks'
  <2>1. ASSUME NEW e \in Device \ {d} PROVE Past(e)'
    <3>1. Past(e) /\ mtime'[e] = mtime[e] /\ marked'[e] = marked[e]
      BY DEF Others, Clocks
    <3>2. mtime[e] \in Int /\ marked[e].at \in Int /\ clock \in Int /\ clock' \in Int /\ clock <= clock'
      BY SyncAssumption DEF Types, TypedLocal, TypedDrive, Onward
    <3> QED BY <3>1, <3>2 DEF Past
  <2> QED BY <2>1 DEF Clocks
<1>3. ASSUME Current', NEW e \in Device PROVE InList(e)' /\ Local(e)'
  <2>1. Current
    BY <1>3 DEF Onward
  <2>2. InList(e) /\ Local(e)
    BY <2>1 DEF InLists, Locals
  <2> QED BY <1>3, <2>2, InListKept, LocalKept
<1>4. Away'
  BY WithoutKept DEF Away
<1> QED BY <1>1, <1>2, <1>3, <1>4 DEF LastWrite, InLists, Locals

---------------------------------------------------------------------------
\* One lemma for each action: it keeps the invariant.

\* A step that changes neither the Drive nor the last write
LEMMA Still ==
  ASSUME Types, NEW d \in Device, UNCHANGED <<remote, latest, writer>>, clock <= clock', Current' => Current
  PROVE  Onward(d)
<1>1. Len(remote) \in Nat
  BY DEF Types, TypedDrive
<1> QED BY <1>1, FirstFile DEF Onward

\* A file of the Drive is replaced by another version of it.
LEMMA CopyReplaced ==
  ASSUME Types, NEW m \in Id, NEW f \in Copy, remote' = [remote EXCEPT ![m] = f]
  PROVE  /\ remote' \in Seq(Copy) /\ Len(remote') = Len(remote)
         /\ remote'[m] = f /\ \A i \in Id \ {m} : remote'[i] = remote[i]
BY DEF Types, TypedDrive, Id

\* A step of a pass that leaves the files as they are, or ends it
LEMMA PassEnds ==
  ASSUME IInv, NEW d \in Device, Types', Others(d), EndPass(d), UNCHANGED <<clock, remote, content, mtime>>,
         UNCHANGED <<marked, latest, writer, gone>>, Current' => Current /\ pc[d] # "mark",
         map2' \in {map2, [map2 EXCEPT ![d] = 0]}, deleting' \in {deleting, [deleting EXCEPT ![d] = FALSE]}
  PROVE  IInv'
<1> USE SyncAssumption DEF IInv
<1>1. /\ snap'[d] = <<>> /\ next'[d] = 1 /\ pc'[d] = "idle" /\ map2'[d] \in {map2[d], 0}
      /\ pc' = [pc EXCEPT ![d] = "idle"]
  BY DEF EndPass, FromFirst, Goto, Types, TypedPass
<1>2. Position(d)' = {} /\ Len(snap'[d]) = 0
  BY <1>1 DEF Position
<1>3. Onward(d)
  BY Still DEF Types, TypedDrive
<1>4. PassOf(d)'
  <2>1. map2[d] \in 0..MaxId /\ map2[d] <= Len(remote) /\ Len(remote) \in Nat
    BY DEF Types, TypedPass, TypedDrive, Passes, PassOf
  <2> QED BY <1>1, <1>2, <2>1 DEF PassOf
<1>5. Past(d)' /\ latest' <= clock'
  BY DEF Clocks, Past
<1>6. ASSUME Current' PROVE WriterHas' /\ OnDrive' /\ InList(d)' /\ Local(d)'
  <2>1. Current /\ pc[d] # "mark"
    BY <1>6
  <2>2. pc'[writer] \notin {"copy", "mark"} /\ \A e \in Device : ~deleting'[e]
    BY <1>1, <2>1 DEF LastWrite, WriterHas, Types, TypedPass, TypedLocal, TypedFlags
  <2>3. WriterHas' /\ OnDrive'
    BY <2>1, <2>2 DEF LastWrite, WriterHas, OnDrive, Exists, LastModified
  <2>4. InList(d)'
    BY <1>1, <1>2 DEF InList
  <2>5. Local(d)'
    BY <1>1, <1>2, <2>1 DEF Locals, Local, OwnWrite, Downloaded, Exists, LastModified
  <2> QED BY <2>3, <2>4, <2>5
<1>7. ASSUME gone' PROVE Trashed' /\ Without(d)' /\ \A e \in Device \ {d} : Without(e)
  BY <1>1, <1>2, <1>7 DEF Away, Trashed, Without, Exists, Id
<1> QED BY <1>3, <1>4, <1>5, <1>6, <1>7, StepOf

\* Nothing of the local file and its marks changes, and the pass is not at an upload.
LEMMA LocalStays ==
  ASSUME NEW d \in Device, Local(d), UNCHANGED <<remote, content, mtime, marked, latest, writer>>,
         snap'[d] = snap[d], pc[d] \notin {"idle", "mark"},
         pc'[d] \notin {"mark", "upload", "send"}, pc'[d] = "copy" => d # writer
  PROVE  Local(d)'
BY DEF Local, OwnWrite, Downloaded, Exists, LastModified, Position


LEMMA EditInv == ASSUME IInv, NEW d \in Device, Edit(d) PROVE IInv'
<1> USE SyncAssumption DEF IInv
<1>0. /\ UNCHANGED <<json, remote, deleting, marked, passVars, trouble>>
      /\ json /\ d # Owner => Exists(d)
      /\ clock' = clock + 1 /\ clock' \in 0..MaxTime /\ clock \in Nat /\ ~gone'
      /\ content' = [content EXCEPT ![d] = clock'] /\ mtime' = [mtime EXCEPT ![d] = clock']
      /\ content'[d] = clock' /\ mtime'[d] = clock'
      /\ latest' = (IF json THEN clock' ELSE 0) /\ writer' = (IF json THEN d ELSE Owner)
  BY DEF Edit, Types, TypedDrive, TypedLocal
<1>01. mishap' \subseteq Mishaps /\ mishap \subseteq mishap'
       /\ (mishap' \cap Lossy = {} => pc[d] \notin {"copy", "mark"})
  BY DEF Edit, Mishaps, Lossy, Types, TypedFlags
<1>1. Types'
  <2>1. TypedDrive'
    BY <1>0 DEF Types, TypedDrive, localVars, passVars, histVars, boundVars
  <2>2. TypedLocal'
    BY <1>0 DEF Types, TypedLocal, Version
  <2>3. TypedPass'
    BY <1>0 DEF Types, TypedPass, Place, localVars, passVars, histVars, boundVars
  <2>4. TypedFlags'
    <3>1. latest' \in 0..MaxTime /\ writer' \in Device
      BY <1>0
    <3>2. gone' \in BOOLEAN /\ json' \in BOOLEAN
      BY Zenon DEF Edit, Types, TypedFlags
    <3> QED BY <1>01, <3>1, <3>2 DEF TypedFlags
  <2>5. TypedBounds'
    BY <1>0 DEF Edit, Types, TypedBounds, TypedFlags
  <2> QED BY <2>1, <2>2, <2>3, <2>4, <2>5 DEF Types
<1>2. Others(d)
  BY <1>0 DEF Others, Types, TypedLocal, TypedPass, localVars, passVars
<1>02. Current' => /\ Current /\ json /\ pc[d] \notin {"copy", "mark"}
                   /\ latest' = clock' /\ writer' = d /\ latest < latest'
  BY <1>0, <1>01 DEF Current, Clocks, Types, TypedFlags, TypedDrive
<1>3. Onward(d)
  <2>1. Len(remote) \in Nat
    BY DEF Types, TypedDrive
  <2> QED BY <1>0, <1>02, <2>1, FirstFile DEF Onward
<1>4. PassOf(d)'
  BY <1>0 DEF Passes, PassOf, Position, Id, passVars
<1>5. Past(d)' /\ latest' <= clock'
  BY <1>0 DEF Clocks, Past, Types, TypedLocal
<1>6. ASSUME Current' PROVE WriterHas' /\ OnDrive' /\ InList(d)' /\ Local(d)'
  <2>1. /\ Current /\ json /\ pc[d] \notin {"copy", "mark"} /\ latest' = clock' /\ writer' = d
        /\ latest < latest' /\ latest \in Nat /\ snap' = snap /\ next' = next /\ pc' = pc /\ map2' = map2
    BY <1>0, <1>02, <1>6 DEF Types, TypedFlags, passVars
  <2>2. /\ marked[d].at \in Int /\ marked[d].as \in Int /\ mtime[d] \in Int
        /\ marked[d].at < clock' /\ mtime[d] < clock'
    BY <1>0 DEF Clocks, Past, Types, TypedLocal
  <2>3. LastModified(d)' = clock' /\ Exists(d)'
    BY <1>0, <2>2 DEF LastModified, Exists
  <2>4. WriterHas'
    BY <1>0, <2>1, <2>3 DEF LastWrite, WriterHas
  <2>5. OnDrive'
    <3>1. remote # <<>> => remote[1] \in Copy /\ remote[1].time \in 0..MaxTime
      BY FirstFile
    <3> QED BY <1>0, <2>1, <3>1 DEF LastWrite, OnDrive
  <2>6. InList(d)'
    <3>1. \A i \in Position(d) : /\ ~snap[d][i].trashed /\ snap[d][i].time <= remote[1].time
                                 /\ snap[d][i].size \in 0..latest
      BY <2>1 DEF InLists, InList
    <3>2. \A i \in Position(d) : snap[d][i].size \in 0..latest' /\ snap[d][i].size # latest'
      BY <1>0, <2>1, <3>1
    <3> QED BY <1>0, <2>1, <3>1, <3>2 DEF InLists, InList, Position
  <2>7. Local(d)'
    <3>1. OwnWrite(d)'
      BY <1>0, <2>1, <2>3 DEF OwnWrite
    <3>2. Local(d) /\ Listed(d)' = Listed(d)
      BY <2>1 DEF Locals, Listed
    <3>3. pc[d] = "upload" => Listed(d).time <= clock'
      <4> SUFFICES ASSUME pc[d] = "upload" PROVE Listed(d).time <= clock'
        OBVIOUS
      <4>1. Listed(d) \in File
        BY ListedFacts DEF Passes, PassOf
      <4> QED BY <1>0, <2>2, <3>2, <4>1 DEF Local, File
    <3>4. pc[d] = "send" => marked[d].as <= clock'
      BY <1>0, <2>2, <3>2 DEF Local
    <3> QED BY <1>0, <2>1, <2>3, <3>1, <3>2, <3>3, <3>4 DEF Local
  <2> QED BY <2>4, <2>5, <2>6, <2>7
<1>7. ASSUME gone' PROVE Trashed' /\ Without(d)' /\ \A e \in Device \ {d} : Without(e)
  BY <1>0, <1>7
<1> QED BY <1>1, <1>2, <1>3, <1>4, <1>5, <1>6, <1>7, StepOf

LEMMA DeleteRemoteInv == ASSUME IInv, NEW d \in Device, DeleteRemote(d) PROVE IInv'
<1> USE SyncAssumption DEF IInv
<1>00. /\ remote' \in Seq(Copy) /\ Len(remote') = Len(remote)
  <2>1. CASE map2[d] = 0
    BY <2>1 DEF DeleteRemote, Types, TypedDrive
  <2>2. CASE map2[d] # 0
    <3>1. map2[d] \in Id /\ Len(remote) \in Nat
      BY <2>2 DEF Types, TypedPass, TypedDrive, Passes, PassOf, Id
    <3>2. remote[map2[d]] \in Copy /\ clock' \in 0..MaxTime
      BY <3>1 DEF DeleteRemote, Types, TypedDrive, Id
    <3> DEFINE f == [remote[map2[d]] EXCEPT !.trashed = TRUE, !.time = clock']
    <3>3. f \in Copy
      BY <3>2 DEF Copy
    <3>4. remote' = [remote EXCEPT ![map2[d]] = f]
      BY <2>2, <3>1 DEF DeleteRemote, Types, TypedDrive
    <3> HIDE DEF f
    <3> QED BY <3>1, <3>3, <3>4, CopyReplaced
  <2> QED BY <2>1, <2>2
<1>0. /\ ~json /\ UNCHANGED <<json, localVars, passVars, histVars, edits>>
      /\ clock' = clock + 1 /\ clock' \in 0..MaxTime /\ clock \in Nat /\ Exists(d)
      /\ deleting' = [deleting EXCEPT ![d] = TRUE]
  BY DEF DeleteRemote, Types, TypedDrive
<1>1. Types'
  <2>1. TypedDrive'
    BY <1>0, <1>00 DEF Types, TypedDrive
  <2>2. TypedLocal'
    BY <1>0 DEF Types, TypedLocal, localVars
  <2>3. TypedPass'
    BY <1>0 DEF Types, TypedPass, Place, localVars, passVars, histVars, boundVars
  <2>4. TypedFlags'
    BY <1>0 DEF Types, TypedFlags, localVars, passVars, histVars, boundVars
  <2>5. TypedBounds'
    BY <1>0 DEF DeleteRemote, Types, TypedBounds, TypedFlags
  <2> QED BY <2>1, <2>2, <2>3, <2>4, <2>5 DEF Types
<1>2. Others(d)
  BY <1>0 DEF Others, Types, TypedLocal, TypedPass, localVars, passVars
<1>3. Onward(d)
  BY <1>0, <1>00 DEF Onward, Current, Types, TypedDrive
<1>4. PassOf(d)'
  BY <1>0, <1>00 DEF Passes, PassOf, Position, Id, passVars
<1>5. Past(d)' /\ latest' <= clock'
  BY <1>0 DEF Clocks, Past, Types, TypedLocal, TypedFlags, localVars, histVars
<1>6. ASSUME Current' PROVE WriterHas' /\ OnDrive' /\ InList(d)' /\ Local(d)'
  BY <1>0, <1>6 DEF Current
<1>7. ASSUME gone' PROVE Trashed' /\ Without(d)' /\ \A e \in Device \ {d} : Without(e)
  BY <1>0, <1>7 DEF Away, Without, histVars
<1> QED BY <1>1, <1>2, <1>3, <1>4, <1>5, <1>6, <1>7, StepOf

LEMMA DeleteLocalInv == ASSUME IInv, NEW d \in Device, DeleteLocal(d) PROVE IInv'
<1> USE SyncAssumption DEF IInv
<1>0. /\ deleting[d] /\ UNCHANGED <<json, clock, remote, marked, passVars, latest, writer, mishap, boundVars>>
      /\ deleting' = [deleting EXCEPT ![d] = FALSE]
      /\ content' = [content EXCEPT ![d] = 0] /\ mtime' = [mtime EXCEPT ![d] = 0] /\ mtime'[d] = 0
      /\ gone' \in BOOLEAN
  BY DEF DeleteLocal, Types, TypedLocal
<1>1. Types'
  <2>1. TypedDrive'
    BY <1>0 DEF Types, TypedDrive, localVars, passVars, histVars, boundVars
  <2>2. TypedLocal'
    BY <1>0 DEF Types, TypedLocal, Version
  <2>3. TypedPass'
    BY <1>0 DEF Types, TypedPass, Place, localVars, passVars, histVars, boundVars
  <2>4. TypedFlags'
    BY <1>0 DEF Types, TypedFlags, localVars, passVars, histVars, boundVars
  <2>5. TypedBounds'
    BY <1>0 DEF Types, TypedBounds, TypedFlags, localVars, passVars, histVars, boundVars
  <2> QED BY <2>1, <2>2, <2>3, <2>4, <2>5 DEF Types
<1>2. Others(d)
  BY <1>0 DEF Others, Types, TypedLocal, TypedPass, localVars, passVars
<1>3. Onward(d)
  BY <1>0, Still DEF Current, Types, TypedDrive
<1>4. PassOf(d)'
  BY <1>0 DEF Passes, PassOf, Position, Id, passVars
<1>5. Past(d)' /\ latest' <= clock'
  BY <1>0 DEF Clocks, Past, Types, TypedDrive
<1>6. ASSUME Current' PROVE WriterHas' /\ OnDrive' /\ InList(d)' /\ Local(d)'
  BY <1>0, <1>6 DEF Current, LastWrite, WriterHas
<1>7. ASSUME gone' PROVE Trashed' /\ Without(d)' /\ \A e \in Device \ {d} : Without(e)
  <2>1. /\ \A i \in Id : remote[i].trashed
        /\ \A e \in Device : pc[e] = "idle" /\ (e # d => ~Exists(e))
    BY <1>7 DEF DeleteLocal
  <2>2. \A e \in Device : snap[e] = <<>>
    BY <2>1 DEF Passes, PassOf
  <2> QED BY <1>0, <2>1, <2>2 DEF Trashed, Without, Exists, Position, Id, passVars
<1> QED BY <1>1, <1>2, <1>3, <1>4, <1>5, <1>6, <1>7, StepOf

LEMMA ListInv == ASSUME IInv, NEW d \in Device, List(d) PROVE IInv'
<1> USE SyncAssumption DEF IInv
<1>0. PICK files : ListEffect(d, files)
  BY Listing
<1>01. /\ UNCHANGED <<json, clock, remote, deleting, localVars, temp, latest, writer, gone, boundVars>>
       /\ mishap \subseteq mishap' /\ mishap' \subseteq Mishaps /\ pc[d] = "idle"
       /\ snap' = [snap EXCEPT ![d] = files] /\ snap'[d] = files
       /\ pc' = [pc EXCEPT ![d] = "remove"] /\ next' = [next EXCEPT ![d] = 1]
       /\ pc'[d] = "remove" /\ next'[d] = 1
       /\ files \in Seq(File) /\ Len(files) = Len(remote)
       /\ map2' = [map2 EXCEPT ![d] = map2'[d]]
  BY <1>0 DEF List, ListEffect, Goto, FromFirst, Types, TypedPass, TypedFlags, Mishaps
<1>02. \A i \in Position(d)' : \E j \in Id : /\ snap'[d][i].id = j /\ snap'[d][i].size = remote[j].content
                                            /\ snap'[d][i].time = remote[j].time
                                            /\ snap'[d][i].trashed = remote[j].trashed
  <2> SUFFICES ASSUME NEW i \in 1..Len(files)
               PROVE  \E j \in Id : /\ files[i].id = j /\ files[i].size = remote[j].content
                                    /\ files[i].time = remote[j].time /\ files[i].trashed = remote[j].trashed
    BY <1>01 DEF Position
  <2>1. PICK j \in Id : files[i] = [id |-> j, size |-> remote[j].content, time |-> remote[j].time,
                                    trashed |-> remote[j].trashed]
    BY <1>0 DEF ListEffect
  <2> QED BY <2>1
<1>03. /\ files = <<>> => map2'[d] = 0
       /\ files # <<>> => \E i \in Position(d)' : map2'[d] = snap'[d][i].id /\ map2'[d] \in Id
  <2>1. files # <<>> => \E i \in 1..Len(files) : map2'[d] = files[i].id
    BY <1>0 DEF ListEffect
  <2>2. \A i \in Position(d)' : snap'[d][i].id \in Id
    BY <1>02
  <2> QED BY <1>0, <1>01, <2>1, <2>2 DEF ListEffect, Position
<1>04. Len(remote) \in Nat /\ Len(remote) <= MaxId /\ map2'[d] \in 0..Len(remote)
  <2>1. CASE files = <<>>
    BY <1>03, <2>1 DEF Types, TypedDrive
  <2>2. CASE files # <<>>
    BY <1>03, <2>2 DEF Types, TypedDrive, Id
  <2> QED BY <2>1, <2>2
<1>1. Types'
  <2>1. TypedDrive'
    BY <1>01 DEF Types, TypedDrive
  <2>2. TypedLocal'
    BY <1>01 DEF Types, TypedLocal, localVars
  <2>3. TypedPass'
    <3>1. map2'[d] \in 0..MaxId /\ 1 \in 1..(MaxId + 1)
      BY <1>04
    <3>2. map2' \in [Device -> 0..MaxId] /\ next' \in [Device -> 1..(MaxId + 1)]
      BY <1>01, <3>1 DEF Types, TypedPass
    <3> QED BY <1>01, <3>2 DEF Types, TypedPass, Place
  <2>4. TypedFlags'
    BY <1>01 DEF Types, TypedFlags
  <2>5. TypedBounds'
    BY <1>01 DEF Types, TypedBounds, boundVars
  <2> QED BY <2>1, <2>2, <2>3, <2>4, <2>5 DEF Types
<1>2. Others(d)
  BY <1>01 DEF Others, Types, TypedLocal, TypedPass, localVars
<1>3. Onward(d)
  BY <1>01, Still DEF Current, Types, TypedDrive
<1>4. PassOf(d)'
  <2>1. \A i \in Position(d)' : snap'[d][i].id \in Id
    BY <1>02
  <2>2. Id' = Id
    BY <1>01 DEF Id
  <2>3. map2'[d] # 0 => \E i \in Position(d)' : snap'[d][i].id = map2'[d]
    BY <1>03
  <2> QED BY <1>01, <1>04, <2>1, <2>2, <2>3 DEF PassOf
<1>5. Past(d)' /\ latest' <= clock'
  BY <1>01 DEF Clocks, Past, localVars
<1>6. ASSUME Current' PROVE WriterHas' /\ OnDrive' /\ InList(d)' /\ Local(d)'
  <2>1. Current /\ pc' = [pc EXCEPT ![d] = "remove"]
    BY <1>01, <1>6 DEF Current
  <2>2. pc'[writer] \notin {"copy", "mark"}
    BY <2>1 DEF LastWrite, WriterHas, Types, TypedPass, TypedFlags
  <2>3. WriterHas' /\ OnDrive'
    BY <1>01, <2>1, <2>2 DEF LastWrite, WriterHas, OnDrive, Exists, LastModified, localVars
  <2>4. ASSUME NEW i \in Position(d)'
        PROVE  /\ remote # <<>> /\ snap'[d][i].size = remote[1].content
               /\ snap'[d][i].time = remote[1].time /\ snap'[d][i].trashed = remote[1].trashed
               /\ remote[1] \in Copy
    <3>1. PICK j \in Id : /\ snap'[d][i].size = remote[j].content
                          /\ snap'[d][i].time = remote[j].time /\ snap'[d][i].trashed = remote[j].trashed
      BY <1>02
    <3>2. Len(remote) <= 1
      BY <2>1 DEF LastWrite, OnDrive
    <3>3. j = 1
      BY <1>04, <3>2 DEF Id
    <3>4. remote[1] \in Copy /\ remote # <<>>
      BY <3>1, <3>3 DEF Id, Types, TypedDrive
    <3> QED BY <3>1, <3>3, <3>4
  <2>5. files = <<>> <=> remote = <<>>
    BY <1>01 DEF Types, TypedDrive
  <2>6. files # <<>> => map2'[d] # 0
    BY <1>03 DEF Id
  <2>7. InList(d)'
    <3>1. ASSUME NEW i \in Position(d)'
          PROVE  /\ ~snap'[d][i].trashed /\ snap'[d][i].time <= remote[1].time
                 /\ snap'[d][i].size \in 0..latest
                 /\ d = writer /\ marked[d] = Unmarked /\ Exists(d) => snap'[d][i].size # latest
      BY <2>1, <2>4 DEF LastWrite, OnDrive, Copy
    <3> QED BY <1>01, <2>5, <2>6, <3>1 DEF InList, localVars, Exists
  <2>8. Local(d)'
    <3>1. Local(d)
      BY <2>1 DEF Locals
    <3>2. \A i \in Position(d)' : snap'[d][i].time = remote[1].time
      BY <2>4
    <3>3. OwnWrite(d) => OwnWrite(d)'
      BY <1>01 DEF OwnWrite, LastModified, Exists, localVars
    <3>4. Downloaded(d) => Downloaded(d)'
      BY <1>01, <3>2 DEF Downloaded, localVars
    <3> QED BY <1>01, <2>5, <3>1, <3>3, <3>4 DEF Local, Exists, localVars
  <2> QED BY <2>3, <2>7, <2>8
<1>7. ASSUME gone' PROVE Trashed' /\ Without(d)' /\ \A e \in Device \ {d} : Without(e)
  <2>1. Trashed /\ \A e \in Device : Without(e)
    BY <1>01, <1>7 DEF Away
  <2>2. \A i \in Position(d)' : snap'[d][i].trashed
    BY <1>02, <2>1 DEF Trashed
  <2> QED BY <1>01, <2>1, <2>2 DEF Trashed, Without, Exists, Id, localVars
<1> QED BY <1>1, <1>2, <1>3, <1>4, <1>5, <1>6, <1>7, StepOf

LEMMA RemoveLocalInv == ASSUME IInv, NEW d \in Device, RemoveLocal(d) PROVE IInv'
<1> USE SyncAssumption DEF IInv
<1>0. /\ UNCHANGED <<json, clock, remote, deleting, marked, snap, next, map2, temp, histVars, boundVars>>
      /\ pc' = [pc EXCEPT ![d] = "download"] /\ pc'[d] = "download" /\ pc[d] = "remove"
      /\ content' \in {content, [content EXCEPT ![d] = 0]} /\ mtime' \in {mtime, [mtime EXCEPT ![d] = 0]}
  BY DEF RemoveLocal, Goto, Types, TypedPass
<1>01. Current => content' = content /\ mtime' = mtime
  <2>1. ASSUME Current, map2[d] # 0 PROVE ~Known(d).trashed
    <3>1. PICK i \in Position(d) : Known(d) = snap[d][i]
      BY <2>1, KnownListed DEF RemoveLocal
    <3> QED BY <2>1, <3>1 DEF InLists, InList
  <2> QED BY <2>1 DEF RemoveLocal
<1>1. Types'
  <2>1. TypedDrive'
    BY <1>0 DEF Types, TypedDrive, localVars, passVars, histVars, boundVars
  <2>2. TypedLocal'
    BY <1>0 DEF Types, TypedLocal, Version
  <2>3. TypedPass'
    BY <1>0 DEF Types, TypedPass, Place, localVars, passVars, histVars, boundVars
  <2>4. TypedFlags'
    BY <1>0 DEF Types, TypedFlags, localVars, passVars, histVars, boundVars
  <2>5. TypedBounds'
    BY <1>0 DEF Types, TypedBounds, TypedFlags, localVars, passVars, histVars, boundVars
  <2> QED BY <2>1, <2>2, <2>3, <2>4, <2>5 DEF Types
<1>2. Others(d)
  BY <1>0 DEF Others, Types, TypedLocal, TypedPass, localVars, passVars
<1>3. Onward(d)
  BY <1>0, Still DEF Current, Types, TypedDrive, histVars
<1>4. PassOf(d)'
  BY <1>0 DEF Passes, PassOf, Position, Id
<1>5. Past(d)' /\ latest' <= clock'
  <2>1. mtime'[d] \in {mtime[d], 0}
    BY <1>0 DEF Types, TypedLocal
  <2> QED BY <1>0, <2>1 DEF Clocks, Past, Types, TypedDrive, histVars
<1>6. ASSUME Current' PROVE WriterHas' /\ OnDrive' /\ InList(d)' /\ Local(d)'
  <2>1. Current /\ content' = content /\ mtime' = mtime
    BY <1>0, <1>01, <1>6 DEF Current, histVars
  <2>2. WriterHas' /\ OnDrive'
    BY <1>0, <2>1 DEF LastWrite, WriterHas, OnDrive, Exists, LastModified, histVars, Types, TypedPass, TypedFlags
  <2>3. InList(d)'
    BY <1>0, <2>1 DEF InLists, InList, Position, Exists, histVars
  <2>4. Local(d)'
    BY <1>0, <2>1, LocalStays DEF Locals, histVars
  <2> QED BY <2>2, <2>3, <2>4
<1>7. ASSUME gone' PROVE Trashed' /\ Without(d)' /\ \A e \in Device \ {d} : Without(e)
  BY <1>0, <1>7 DEF Away, Trashed, Without, Exists, Position, Id, histVars, Types, TypedLocal
<1> QED BY <1>1, <1>2, <1>3, <1>4, <1>5, <1>6, <1>7, StepOf

LEMMA SkipFileInv == ASSUME IInv, NEW d \in Device, SkipFile(d) PROVE IInv'
<1> USE SyncAssumption DEF IInv
<1>0. /\ UNCHANGED <<json, clock, remote, deleting, content, mtime, pc, snap, map2, temp, histVars, boundVars>>
      /\ pc[d] = "download" /\ next[d] <= Len(snap[d]) /\ next' = [next EXCEPT ![d] = next[d] + 1]
      /\ next'[d] = next[d] + 1
  BY DEF SkipFile, Downloading, NextFile, Types, TypedPass
<1>00. /\ next[d] \in Position(d) /\ Listed(d) = snap[d][next[d]] /\ Listed(d) \in File
       /\ Listed(d).time \in 0..MaxTime
       /\ Listed(d).id \in Id /\ remote[Listed(d).id] \in Copy
  BY <1>0, ListedFacts DEF File
<1>01. \/ marked' = marked
       \/ /\ marked' = [marked EXCEPT ![d] = [at |-> mtime[d], as |-> Listed(d).time]]
          /\ marked'[d].at = mtime[d] /\ marked'[d].as = Listed(d).time /\ SameFile(d)
  BY DEF SkipFile, MarkAs, Types, TypedLocal
<1>02. \A e \in Device \ {d} : marked'[e] = marked[e]
  BY <1>01 DEF Types, TypedLocal
<1>03. next'[d] \in 1..(MaxId + 1) /\ next'[d] <= Len(snap[d]) + 1
  <2>1. next[d] \in Nat /\ Len(snap[d]) \in Nat /\ Len(snap[d]) <= MaxId
    BY DEF Types, TypedPass, TypedDrive, Passes, PassOf
  <2> QED BY <1>0, <2>1
<1>1. Types'
  <2>1. TypedDrive'
    BY <1>0 DEF Types, TypedDrive, localVars, passVars, histVars, boundVars
  <2>2. TypedLocal'
    <3>1. [at |-> mtime[d], as |-> Listed(d).time] \in [at : -1..MaxTime, as : 0..MaxTime]
      BY <1>00 DEF Types, TypedLocal
    <3>2. marked' \in [Device -> [at : -1..MaxTime, as : 0..MaxTime]]
      BY <1>01, <3>1 DEF Types, TypedLocal
    <3> QED BY <1>0, <3>2 DEF Types, TypedLocal
  <2>3. TypedPass'
    BY <1>0, <1>03 DEF Types, TypedPass, Place
  <2>4. TypedFlags'
    BY <1>0 DEF Types, TypedFlags, localVars, passVars, histVars, boundVars
  <2>5. TypedBounds'
    BY <1>0 DEF Types, TypedBounds, TypedFlags, localVars, passVars, histVars, boundVars
  <2> QED BY <2>1, <2>2, <2>3, <2>4, <2>5 DEF Types
<1>2. Others(d)
  BY <1>0, <1>02 DEF Others, Types, TypedPass
<1>3. Onward(d)
  BY <1>0, Still DEF Current, Types, TypedDrive, histVars
<1>4. PassOf(d)'
  BY <1>0, <1>03 DEF Passes, PassOf, Position, Id
<1>5. Past(d)' /\ latest' <= clock'
  BY <1>0, <1>01 DEF Clocks, Past, histVars
<1>6. ASSUME Current' PROVE WriterHas' /\ OnDrive' /\ InList(d)' /\ Local(d)'
  <2>1. Current /\ Local(d)
    BY <1>0, <1>6 DEF Current, histVars, Locals
  <2>2. CASE marked' = marked
    <3>1. WriterHas' /\ OnDrive'
      BY <1>0, <2>1, <2>2 DEF LastWrite, WriterHas, OnDrive, Exists, LastModified, histVars
    <3>2. InList(d)'
      BY <1>0, <2>1, <2>2 DEF InLists, InList, Position, Exists, histVars
    <3>3. Local(d)'
      BY <1>0, <2>1, <2>2, LocalStays DEF histVars
    <3> QED BY <3>1, <3>2, <3>3
  <2>3. CASE SameFile(d) /\ marked'[d].at = mtime[d] /\ marked'[d].as = Listed(d).time
    <3>1. d = writer => ~Exists(writer)
      BY <1>0, <2>1, <2>3, WriterKeeps DEF Downloading
    <3>2. LastModified(writer)' = LastModified(writer) /\ Exists(writer)' = Exists(writer)
      <4>1. CASE d = writer
        BY <1>0, <3>1, <4>1 DEF LastModified, Exists, histVars
      <4>2. CASE d # writer
        BY <1>0, <1>02, <4>2 DEF LastModified, Exists, histVars, Types, TypedFlags
      <4> QED BY <4>1, <4>2
    <3>3. Exists(writer) => marked'[writer] = marked[writer]
      BY <1>02, <3>1 DEF Types, TypedFlags
    <3>4. WriterHas'
      BY <1>0, <2>1, <3>2 DEF LastWrite, WriterHas, histVars
    <3>5. OnDrive'
      BY <1>0, <2>1, <3>2, <3>3 DEF LastWrite, OnDrive, histVars
    <3>6. InList(d)'
      BY <1>0, <2>1, <3>1, <3>2 DEF InLists, InList, Position, histVars
    <3>7. Downloaded(d)'
      <4>1. /\ next[d] = 1 /\ Position(d) = {1} /\ remote # <<>> /\ remote[1] \in Copy
        BY <1>00, <2>1, OneListed
      <4>2. Listed(d) = snap[d][1] /\ snap[d][1].time <= remote[1].time
        BY <1>00, <2>1, <4>1 DEF InLists, InList
      <4>3. Position(d)' = {1}
        BY <1>0, <4>1 DEF Position
      <4> QED BY <1>0, <1>00, <2>3, <4>1, <4>2, <4>3 DEF Downloaded
    <3>8. Local(d)'
      BY <1>0, <2>1, <3>7 DEF Local, Exists, histVars
    <3> QED BY <3>4, <3>5, <3>6, <3>8
  <2> QED BY <1>01, <2>2, <2>3
<1>7. ASSUME gone' PROVE Trashed' /\ Without(d)' /\ \A e \in Device \ {d} : Without(e)
  BY <1>0, <1>7 DEF Away, Trashed, Without, Exists, Position, Id, histVars
<1> QED BY <1>1, <1>2, <1>3, <1>4, <1>5, <1>6, <1>7, StepOf

LEMMA DownloadInv == ASSUME IInv, NEW d \in Device, Download(d) PROVE IInv'
<1> USE SyncAssumption DEF IInv
<1>0. /\ UNCHANGED <<json, clock, remote, deleting, localVars, snap, next, map2, histVars, edits>>
      /\ Wanted(d) /\ pc[d] = "download" /\ next[d] <= Len(snap[d])
      /\ pc' = [pc EXCEPT ![d] = "copy"] /\ pc'[d] = "copy"
  BY DEF Download, Wanted, Downloading, Goto, Types, TypedPass
<1>00. /\ next[d] \in Position(d) /\ Listed(d) = snap[d][next[d]] /\ Listed(d) \in File
       /\ Listed(d).time \in 0..MaxTime
       /\ Listed(d).id \in Id /\ remote[Listed(d).id] \in Copy
  BY <1>0, ListedFacts DEF File
<1>01. temp' \in [Device -> Version] /\ trouble' \in 0..MaxTrouble[json]
  <2>1. PICK c \in {Garbled, remote[Listed(d).id].content} :
           Written(c, remote[Listed(d).id].content) /\ temp' = [temp EXCEPT ![d] = c]
    BY DEF Download
  <2>2. c \in Version
    BY <1>00 DEF Copy, Version
  <2> QED BY <2>1, <2>2 DEF Written, Types, TypedPass, TypedBounds, TypedFlags
<1>1. Types'
  <2>1. TypedDrive'
    BY <1>0 DEF Types, TypedDrive, localVars, passVars, histVars, boundVars
  <2>2. TypedLocal'
    BY <1>0 DEF Types, TypedLocal, localVars, passVars, histVars, boundVars
  <2>3. TypedPass'
    BY <1>0, <1>01 DEF Types, TypedPass, Place
  <2>4. TypedFlags'
    BY <1>0 DEF Types, TypedFlags, localVars, passVars, histVars, boundVars
  <2>5. TypedBounds'
    BY <1>0, <1>01 DEF Types, TypedBounds
  <2> QED BY <2>1, <2>2, <2>3, <2>4, <2>5 DEF Types
<1>2. Others(d)
  BY <1>0 DEF Others, Types, TypedLocal, TypedPass, localVars, passVars
<1>3. Onward(d)
  BY <1>0, Still DEF Current, Types, TypedDrive, histVars
<1>4. PassOf(d)'
  BY <1>0 DEF Passes, PassOf, Position, Id
<1>5. Past(d)' /\ latest' <= clock'
  BY <1>0 DEF Clocks, Past, localVars, histVars
<1>6. ASSUME Current' PROVE WriterHas' /\ OnDrive' /\ InList(d)' /\ Local(d)'
  <2>1. Current /\ d # writer
    BY <1>0, <1>6, OthersDownload DEF Current, histVars
  <2>2. WriterHas' /\ OnDrive'
    BY <1>0, <2>1 DEF LastWrite, WriterHas, OnDrive, Exists, LastModified, histVars, localVars, Types,
       TypedPass, TypedFlags
  <2>3. InList(d)'
    BY <1>0, <2>1 DEF InLists, InList, Position, Exists, histVars, localVars
  <2>4. Local(d)'
    BY <1>0, <2>1, LocalStays DEF Locals, histVars, localVars
  <2> QED BY <2>2, <2>3, <2>4
<1>7. ASSUME gone' PROVE Trashed' /\ Without(d)' /\ \A e \in Device \ {d} : Without(e)
  BY <1>0, <1>00, <1>7 DEF Wanted, Away, Without, histVars
<1> QED BY <1>1, <1>2, <1>3, <1>4, <1>5, <1>6, <1>7, StepOf

LEMMA SkipDownloadInv == ASSUME IInv, NEW d \in Device, SkipDownload(d) PROVE IInv'
<1> USE SyncAssumption DEF IInv
<1>0. /\ UNCHANGED <<json, clock, remote, deleting, localVars, pc, snap, map2, temp, histVars, edits>>
      /\ pc[d] = "download" /\ next[d] <= Len(snap[d]) /\ next' = [next EXCEPT ![d] = next[d] + 1]
      /\ next'[d] = next[d] + 1 /\ trouble < MaxTrouble[json] /\ trouble' = trouble + 1
  BY DEF SkipDownload, Wanted, Downloading, NextFile, Types, TypedPass
<1>03. next'[d] \in 1..(MaxId + 1) /\ next'[d] <= Len(snap[d]) + 1
  <2>1. next[d] \in Nat /\ Len(snap[d]) \in Nat /\ Len(snap[d]) <= MaxId
    BY DEF Types, TypedPass, TypedDrive, Passes, PassOf
  <2> QED BY <1>0, <2>1
<1>1. Types'
  <2>1. TypedDrive'
    BY <1>0 DEF Types, TypedDrive, localVars, passVars, histVars, boundVars
  <2>2. TypedLocal'
    BY <1>0 DEF Types, TypedLocal, localVars, passVars, histVars, boundVars
  <2>3. TypedPass'
    BY <1>0, <1>03 DEF Types, TypedPass, Place
  <2>4. TypedFlags'
    BY <1>0 DEF Types, TypedFlags, localVars, passVars, histVars, boundVars
  <2>5. TypedBounds'
    BY <1>0 DEF Types, TypedBounds, TypedFlags, localVars, passVars, histVars, boundVars
  <2> QED BY <2>1, <2>2, <2>3, <2>4, <2>5 DEF Types
<1>2. Others(d)
  BY <1>0 DEF Others, Types, TypedLocal, TypedPass, localVars, passVars
<1>3. Onward(d)
  BY <1>0, Still DEF Current, Types, TypedDrive, histVars
<1>4. PassOf(d)'
  BY <1>0, <1>03 DEF Passes, PassOf, Position, Id
<1>5. Past(d)' /\ latest' <= clock'
  BY <1>0 DEF Clocks, Past, localVars, histVars
<1>6. ASSUME Current' PROVE WriterHas' /\ OnDrive' /\ InList(d)' /\ Local(d)'
  <2>1. Current
    BY <1>0, <1>6 DEF Current, histVars
  <2>2. WriterHas' /\ OnDrive'
    BY <1>0, <2>1 DEF LastWrite, WriterHas, OnDrive, Exists, LastModified, histVars, localVars, Types,
       TypedPass, TypedFlags
  <2>3. InList(d)'
    BY <1>0, <2>1 DEF InLists, InList, Position, Exists, histVars, localVars
  <2>4. Local(d)'
    BY <1>0, <2>1, LocalStays DEF Locals, histVars, localVars
  <2> QED BY <2>2, <2>3, <2>4
<1>7. ASSUME gone' PROVE Trashed' /\ Without(d)' /\ \A e \in Device \ {d} : Without(e)
  BY <1>0, <1>7 DEF Away, Trashed, Without, Exists, Position, Id, histVars, localVars
<1> QED BY <1>1, <1>2, <1>3, <1>4, <1>5, <1>6, <1>7, StepOf

LEMMA CopyDownloadInv == ASSUME IInv, NEW d \in Device, CopyDownload(d) PROVE IInv'
<1> USE SyncAssumption DEF IInv
<1>0. /\ UNCHANGED <<json, remote, deleting, marked, snap, next, map2, histVars, edits>>
      /\ pc[d] = "copy" /\ next[d] <= Len(snap[d])
      /\ clock' = clock + 1 /\ clock' \in 0..MaxTime /\ clock \in Nat
      /\ mtime' = [mtime EXCEPT ![d] = clock'] /\ mtime'[d] = clock'
      /\ temp' = [temp EXCEPT ![d] = 0] /\ pc' = [pc EXCEPT ![d] = "mark"] /\ pc'[d] = "mark"
  BY DEF CopyDownload, Goto, Types, TypedDrive, TypedLocal, TypedPass, Passes, PassOf
<1>01. PICK c \in Version : Written(c, temp[d]) /\ content' = [content EXCEPT ![d] = c]
  <2>1. PICK c \in {Garbled, temp[d]} : Written(c, temp[d]) /\ content' = [content EXCEPT ![d] = c]
    BY DEF CopyDownload
  <2>2. c \in Version
    BY DEF Types, TypedPass, Version
  <2> QED BY <2>1, <2>2
<1>1. Types'
  <2>1. TypedDrive'
    BY <1>0 DEF Types, TypedDrive, localVars, passVars, histVars, boundVars
  <2>2. TypedLocal'
    BY <1>0, <1>01 DEF Types, TypedLocal
  <2>3. TypedPass'
    BY <1>0 DEF Types, TypedPass, Place, Version
  <2>4. TypedFlags'
    BY <1>0 DEF Types, TypedFlags, localVars, passVars, histVars, boundVars
  <2>5. TypedBounds'
    BY <1>0, <1>01 DEF Written, Types, TypedBounds, TypedFlags
  <2> QED BY <2>1, <2>2, <2>3, <2>4, <2>5 DEF Types
<1>2. Others(d)
  BY <1>0, <1>01 DEF Others, Types, TypedLocal, TypedPass
<1>3. Onward(d)
  BY <1>0, Still DEF Current, Types, TypedDrive, histVars
<1>4. PassOf(d)'
  BY <1>0 DEF Passes, PassOf, Position, Id
<1>5. Past(d)' /\ latest' <= clock'
  <2>1. marked[d].at \in Int /\ latest \in Int /\ marked[d].at <= clock /\ latest <= clock
    BY DEF Clocks, Past, Types, TypedLocal, TypedFlags
  <2> QED BY <1>0, <2>1 DEF Past, histVars
<1>6. ASSUME Current' PROVE WriterHas' /\ OnDrive' /\ InList(d)' /\ Local(d)'
  <2>1. Current /\ Local(d) /\ d # writer
    BY <1>0, <1>6 DEF Current, histVars, Locals, Local
  <2>2. /\ content'[writer] = content[writer] /\ mtime'[writer] = mtime[writer]
        /\ pc'[writer] = pc[writer] /\ writer' = writer
    BY <1>0, <1>01, <2>1 DEF histVars, Types, TypedFlags, TypedLocal, TypedPass
  <2>3. WriterHas' /\ OnDrive'
    BY <1>0, <2>1, <2>2 DEF LastWrite, WriterHas, OnDrive, Exists, LastModified, histVars
  <2>4. InList(d)'
    BY <1>0, <2>1 DEF InLists, InList, Position, histVars
  <2>5. snap[d] # <<>> /\ remote # <<>>
    BY <1>0, <2>1, OneListed DEF Types, TypedPass, Position
  <2>6. Local(d)'
    BY <1>0, <2>1, <2>5 DEF Local, histVars
  <2> QED BY <2>3, <2>4, <2>6
<1>7. ASSUME gone' PROVE Trashed' /\ Without(d)' /\ \A e \in Device \ {d} : Without(e)
  BY <1>0, <1>7 DEF Away, Without, histVars
<1> QED BY <1>1, <1>2, <1>3, <1>4, <1>5, <1>6, <1>7, StepOf

LEMMA MarkDownloadInv == ASSUME IInv, NEW d \in Device, MarkDownload(d) PROVE IInv'
<1> USE SyncAssumption DEF IInv
<1>0. /\ UNCHANGED <<json, clock, remote, deleting, content, mtime, snap, map2, temp, histVars, boundVars>>
      /\ pc[d] = "mark" /\ next[d] <= Len(snap[d])
      /\ pc' = [pc EXCEPT ![d] = "download"] /\ pc'[d] = "download"
      /\ next' = [next EXCEPT ![d] = next[d] + 1] /\ next'[d] = next[d] + 1
  BY DEF MarkDownload, NextFile, Goto, Types, TypedPass, Passes, PassOf
<1>00. /\ next[d] \in Position(d) /\ Listed(d) = snap[d][next[d]] /\ Listed(d) \in File
       /\ Listed(d).time \in 0..MaxTime
       /\ Listed(d).id \in Id /\ remote[Listed(d).id] \in Copy
  BY <1>0, ListedFacts DEF File
<1>01. /\ marked' = [marked EXCEPT ![d] = [at |-> mtime[d], as |-> Listed(d).time]]
       /\ marked'[d].at = mtime[d] /\ marked'[d].as = Listed(d).time
  BY DEF MarkDownload, MarkAs, Types, TypedLocal
<1>03. next'[d] \in 1..(MaxId + 1) /\ next'[d] <= Len(snap[d]) + 1
  <2>1. next[d] \in Nat /\ Len(snap[d]) \in Nat /\ Len(snap[d]) <= MaxId
    BY DEF Types, TypedPass, TypedDrive, Passes, PassOf
  <2> QED BY <1>0, <2>1
<1>1. Types'
  <2>1. TypedDrive'
    BY <1>0 DEF Types, TypedDrive, localVars, passVars, histVars, boundVars
  <2>2. TypedLocal'
    <3>1. [at |-> mtime[d], as |-> Listed(d).time] \in [at : -1..MaxTime, as : 0..MaxTime]
      BY <1>00 DEF Types, TypedLocal
    <3> QED BY <1>0, <1>01, <3>1 DEF Types, TypedLocal
  <2>3. TypedPass'
    BY <1>0, <1>03 DEF Types, TypedPass, Place
  <2>4. TypedFlags'
    BY <1>0 DEF Types, TypedFlags, localVars, passVars, histVars, boundVars
  <2>5. TypedBounds'
    BY <1>0 DEF Types, TypedBounds, TypedFlags, localVars, passVars, histVars, boundVars
  <2> QED BY <2>1, <2>2, <2>3, <2>4, <2>5 DEF Types
<1>2. Others(d)
  BY <1>0, <1>01 DEF Others, Types, TypedLocal, TypedPass
<1>3. Onward(d)
  BY <1>0, Still DEF Current, Types, TypedDrive, histVars
<1>4. PassOf(d)'
  BY <1>0, <1>03 DEF Passes, PassOf, Position, Id
<1>5. Past(d)' /\ latest' <= clock'
  BY <1>0, <1>01 DEF Clocks, Past, histVars
<1>6. ASSUME Current' PROVE WriterHas' /\ OnDrive' /\ InList(d)' /\ Local(d)'
  <2>1. Current /\ Local(d) /\ d # writer /\ writer' = writer
    BY <1>0, <1>6 DEF Current, histVars, Locals, Local
  <2>2. marked'[writer] = marked[writer] /\ pc'[writer] = pc[writer]
    BY <1>0, <1>01, <2>1 DEF Types, TypedFlags, TypedLocal, TypedPass
  <2>3. WriterHas' /\ OnDrive'
    BY <1>0, <2>1, <2>2 DEF LastWrite, WriterHas, OnDrive, Exists, LastModified, histVars
  <2>4. InList(d)'
    BY <1>0, <2>1 DEF InLists, InList, Position, histVars
  <2>5. /\ next[d] = 1 /\ Position(d) = {1} /\ remote # <<>> /\ remote[1] \in Copy
    BY <1>00, <2>1, OneListed
  <2>6. Listed(d) = snap[d][1] /\ snap[d][1].time <= remote[1].time
    BY <1>00, <2>1, <2>5 DEF InLists, InList
  <2>7. Downloaded(d)'
    <3>1. Position(d)' = {1}
      BY <1>0, <2>5 DEF Position
    <3> QED BY <1>0, <1>00, <1>01, <2>5, <2>6, <3>1 DEF Downloaded
  <2>8. Local(d)'
    BY <1>0, <2>1, <2>7 DEF Local, Exists, histVars
  <2> QED BY <2>3, <2>4, <2>8
<1>7. ASSUME gone' PROVE Trashed' /\ Without(d)' /\ \A e \in Device \ {d} : Without(e)
  BY <1>0, <1>7 DEF Away, Without, histVars
<1> QED BY <1>1, <1>2, <1>3, <1>4, <1>5, <1>6, <1>7, StepOf

LEMMA KeepRemoteInv == ASSUME IInv, NEW d \in Device, KeepRemote(d) PROVE IInv'
<1> USE SyncAssumption DEF IInv
<1>0. /\ UNCHANGED <<json, clock, remote, deleting, localVars, map2, temp, histVars, boundVars>>
      /\ pc[d] = "download"
      /\ pc' = [pc EXCEPT ![d] = "idle"] /\ snap' = [snap EXCEPT ![d] = <<>>]
      /\ next' = [next EXCEPT ![d] = 1]
  BY DEF KeepRemote, EndPass, FromFirst, Goto
<1>1. Types'
  <2>1. TypedDrive'
    BY <1>0 DEF Types, TypedDrive, localVars, passVars, histVars, boundVars
  <2>2. TypedLocal'
    BY <1>0 DEF Types, TypedLocal, localVars, passVars, histVars, boundVars
  <2>3. TypedPass'
    BY <1>0 DEF Types, TypedPass, Place, localVars, passVars, histVars, boundVars
  <2>4. TypedFlags'
    BY <1>0 DEF Types, TypedFlags, localVars, passVars, histVars, boundVars
  <2>5. TypedBounds'
    BY <1>0 DEF Types, TypedBounds, TypedFlags, localVars, passVars, histVars, boundVars
  <2> QED BY <2>1, <2>2, <2>3, <2>4, <2>5 DEF Types
<1>2. Others(d)
  BY <1>0 DEF Others, Types, TypedLocal, TypedPass, localVars, passVars
<1> QED BY <1>0, <1>1, <1>2, PassEnds DEF KeepRemote, Current, localVars, histVars

LEMMA CreateInv == ASSUME IInv, NEW d \in Device, Create(d) PROVE IInv'
<1> USE SyncAssumption DEF IInv
<1> DEFINE n == Len(remote) + 1
<1> DEFINE made == [content |-> 0, time |-> LastModified(d), trashed |-> FALSE]
<1> DEFINE entry == [id |-> n, size |-> 0, time |-> LastModified(d), trashed |-> FALSE]
<1>01. /\ made \in Copy /\ made.content = 0 /\ made.time = LastModified(d) /\ ~made.trashed
  BY LastModifiedType DEF Copy, Version
<1>02. /\ remote' = Append(remote, made) /\ n \in Nat /\ n <= MaxId /\ Len(remote') = n
       /\ remote' \in Seq(Copy) /\ remote'[n] = made
       /\ Len(remote) \in Nat /\ \A i \in Id : remote'[i] = remote[i]
  <2>1. remote \in Seq(Copy) /\ Len(remote) \in Nat /\ remote' = Append(remote, made) /\ Len(remote) < MaxId
    BY DEF Create, Types, TypedDrive
  <2> HIDE DEF made
  <2> QED BY <1>01, <2>1 DEF Id
<1>03. /\ entry \in File /\ entry.id = n /\ entry.size = 0 /\ entry.time = LastModified(d) /\ ~entry.trashed
  BY <1>02, LastModifiedType DEF File, Version
<1>04. /\ snap' = [snap EXCEPT ![d] = Append(snap[d], entry)]
       /\ UNCHANGED <<json, clock, deleting, localVars, next, map2, temp, histVars, boundVars>>
       /\ pc' = [pc EXCEPT ![d] = "upload"] /\ pc[d] = "download" /\ Exists(d) /\ Known(d).trashed
       /\ next[d] > Len(snap[d])
  BY <1>02 DEF Create, Goto
<1> HIDE DEF made, entry, n
<1>05. /\ snap'[d] = Append(snap[d], entry) /\ pc'[d] = "upload"
       /\ snap[d] \in Seq(File) /\ Len(snap[d]) \in Nat
  BY <1>04 DEF Types, TypedPass
<1>06. /\ snap'[d] \in Seq(File) /\ Len(snap'[d]) = Len(snap[d]) + 1
       /\ snap'[d][Len(snap[d]) + 1] = entry /\ \A i \in Position(d) : snap'[d][i] = snap[d][i]
  BY <1>03, <1>05 DEF Position
<1>1. Types'
  <2>1. TypedDrive'
    BY <1>02, <1>04 DEF Types, TypedDrive
  <2>2. TypedLocal'
    BY <1>04 DEF Types, TypedLocal, localVars
  <2>3. TypedPass'
    BY <1>04, <1>05, <1>06 DEF Types, TypedPass, Place
  <2>4. TypedFlags'
    BY <1>04 DEF Types, TypedFlags, histVars
  <2>5. TypedBounds'
    BY <1>04 DEF Types, TypedBounds, boundVars
  <2> QED BY <2>1, <2>2, <2>3, <2>4, <2>5 DEF Types
<1>2. Others(d)
  BY <1>04 DEF Others, Types, TypedLocal, TypedPass, localVars
<1>6. ASSUME Current'
      PROVE  /\ Current /\ d = Owner /\ remote = <<>> /\ WriterHas' /\ OnDrive' /\ InList(d)' /\ Local(d)'
  <2>1. Current
    BY <1>04, <1>6 DEF Current, histVars
  <2>2. d = Owner /\ snap[d] = <<>> /\ remote = <<>> /\ OwnWrite(d) /\ Local(d)
    BY <1>04, <2>1, Uploader DEF Locals
  <2>3. n = 1 /\ Len(snap[d]) = 0 /\ Position(d)' = {1} /\ snap'[d][1] = entry /\ remote'[1] = made
    BY <1>02, <1>06, <2>2 DEF n, Position
  <2>4. /\ LastModified(d) = mtime[d] /\ mtime[d] \in Nat /\ mtime[d] <= latest
        /\ writer' = writer /\ latest' = latest /\ writer \in Device /\ latest \in Nat
    BY <1>04, <2>2 DEF OwnWrite, histVars, Types, TypedLocal, TypedFlags
  <2>5. WriterHas'
    BY <1>04, <1>05, <2>1, <2>4 DEF LastWrite, WriterHas, LastModified, Exists, localVars, Types, TypedPass
  <2>6. OnDrive'
    <3>1. Len(remote') <= 1
      BY <1>02, <2>3
    <3>2. Exists(writer) => latest > 0
      BY <2>1 DEF LastWrite, WriterHas, Exists
    <3>3. Exists(writer)' = Exists(writer)
      BY <1>04, <2>4 DEF Exists, localVars
    <3> QED BY <1>01, <2>3, <2>4, <3>1, <3>2, <3>3 DEF OnDrive
  <2>7. InList(d)'
    <3>1. Exists(d)' /\ mtime'[d] = mtime[d] /\ (d = writer => latest > 0)
      BY <1>04, <2>1 DEF LastWrite, WriterHas, Exists, localVars
    <3>2. \A i \in Position(d)' : /\ ~snap'[d][i].trashed /\ snap'[d][i].time <= remote'[1].time
                                  /\ snap'[d][i].size = 0
      BY <1>01, <1>03, <2>3, <2>4
    <3>3. snap'[d] # <<>>
      BY <1>06, <2>3
    <3>4. 0 \in 0..latest /\ (d = writer => 0 # latest)
      BY <2>4, <3>1
    <3>5. \A i \in Position(d)' : /\ snap'[d][i].size \in 0..latest'
                                  /\ d = writer' => snap'[d][i].size # latest'
      BY <2>4, <3>2, <3>4, Zenon
    <3> QED BY <1>05, <3>2, <3>3, <3>5 DEF InList
  <2>8. Local(d)'
    <3>1. next'[d] = 1
      <4>1. next[d] \in Nat /\ next[d] <= 1 /\ next[d] > 0
        BY <1>04, <2>3 DEF Types, TypedPass, Passes, PassOf
      <4> QED BY <1>04, <4>1
    <3>2. Listed(d)'.time = mtime[d]
      BY <1>03, <2>3, <2>4, <3>1 DEF Listed
    <3>3. OwnWrite(d)' /\ Exists(d)' /\ mtime'[d] = mtime[d]
      BY <1>04, <2>2, <2>4 DEF OwnWrite, LastModified, Exists, localVars
    <3> QED BY <1>05, <2>2, <2>4, <3>2, <3>3 DEF Local
  <2> QED BY <2>1, <2>2, <2>5, <2>6, <2>7, <2>8
<1>3. Onward(d)
  <2>1. Len(remote) <= Len(remote')
    BY <1>02 DEF n
  <2> QED BY <1>04, <1>6, <2>1 DEF Onward, histVars, Types, TypedDrive
<1>4. PassOf(d)'
  <2>1. /\ Len(snap[d]) <= Len(remote) /\ next[d] <= Len(snap[d]) + 1 /\ map2[d] <= Len(remote)
        /\ next[d] \in Nat /\ map2[d] \in Nat
        /\ \A i \in Position(d) : snap[d][i].id \in Id
        /\ map2[d] # 0 => \E i \in Position(d) : snap[d][i].id = map2[d]
    BY <1>04 DEF Types, TypedPass, Passes, PassOf
  <2>2. /\ Len(snap'[d]) <= Len(remote') /\ next'[d] <= Len(snap'[d]) + 1 /\ map2'[d] <= Len(remote')
        /\ next'[d] <= Len(snap'[d])
    BY <1>02, <1>04, <1>05, <1>06, <2>1 DEF n
  <2>3. \A i \in Position(d)' : i \in Position(d) \/ i = Len(snap[d]) + 1
    BY <1>05, <1>06 DEF Position
  <2>4. \A i \in Position(d)' : snap'[d][i].id \in Id'
    <3>1. \A i \in Id : i \in Id'
      BY <1>02 DEF Id, n
    <3>2. n \in Id'
      BY <1>02 DEF Id, n
    <3> QED BY <1>03, <1>06, <2>1, <2>3, <3>1, <3>2
  <2>5. map2'[d] # 0 => \E i \in Position(d)' : snap'[d][i].id = map2'[d]
    <3>1. \A i \in Position(d) : i \in Position(d)'
      BY <1>05, <1>06 DEF Position
    <3> QED BY <1>04, <1>06, <2>1, <3>1
  <2> QED BY <1>05, <2>2, <2>4, <2>5 DEF PassOf
<1>5. Past(d)' /\ latest' <= clock'
  BY <1>04 DEF Clocks, Past, localVars, histVars
<1>7. ASSUME gone' PROVE Trashed' /\ Without(d)' /\ \A e \in Device \ {d} : Without(e)
  BY <1>04, <1>7 DEF Away, Without, histVars
<1> QED BY <1>1, <1>2, <1>3, <1>4, <1>5, <1>6, <1>7, StepOf

LEMMA ReplaceInv == ASSUME IInv, NEW d \in Device, Replace(d) PROVE IInv'
<1> USE SyncAssumption DEF IInv
<1>01. \E i \in Position(d) : snap[d][i] = Known(d)
  BY KnownListed DEF Replace, NoFile
<1>02. next'[d] \in Position(d) /\ next' = [next EXCEPT ![d] = next'[d]]
  <2> DEFINE at == CHOOSE i \in 1..Len(snap[d]) : snap[d][i] = Known(d)
  <2>1. at \in Position(d)
    BY <1>01 DEF Position
  <2>2. next' = [next EXCEPT ![d] = at]
    BY DEF Replace
  <2> HIDE DEF at
  <2> QED BY <2>1, <2>2 DEF Types, TypedPass
<1>03. /\ UNCHANGED <<json, clock, remote, deleting, localVars, snap, map2, temp, histVars, boundVars>>
       /\ pc' = [pc EXCEPT ![d] = "upload"] /\ pc'[d] = "upload"
       /\ pc[d] = "download" /\ Exists(d)
  BY DEF Replace, Goto, Types, TypedPass
<1>04. /\ next'[d] \in Nat /\ next'[d] <= Len(snap[d]) /\ next'[d] \in 1..(MaxId + 1)
  <2>1. Len(snap[d]) \in Nat /\ Len(remote) \in Nat /\ Len(snap[d]) <= Len(remote) /\ Len(remote) <= MaxId
    BY DEF Types, TypedPass, TypedDrive, Passes, PassOf
  <2> QED BY <1>02, <2>1 DEF Position
<1>1. Types'
  <2>1. TypedDrive'
    BY <1>03 DEF Types, TypedDrive
  <2>2. TypedLocal'
    BY <1>03 DEF Types, TypedLocal, localVars
  <2>3. TypedPass'
    BY <1>02, <1>03, <1>04 DEF Types, TypedPass, Place
  <2>4. TypedFlags'
    BY <1>03 DEF Types, TypedFlags, histVars
  <2>5. TypedBounds'
    BY <1>03 DEF Types, TypedBounds, boundVars
  <2> QED BY <2>1, <2>2, <2>3, <2>4, <2>5 DEF Types
<1>2. Others(d)
  BY <1>02, <1>03 DEF Others, Types, TypedLocal, TypedPass, localVars
<1>3. Onward(d)
  BY <1>03, Still DEF Current, histVars, Types, TypedDrive
<1>4. PassOf(d)'
  <2>1. next'[d] <= Len(snap[d]) + 1
    BY <1>04 DEF Types, TypedPass
  <2>2. PassOf(d)
    BY DEF Passes
  <2>3. /\ Position(d)' = Position(d) /\ Id' = Id /\ map2'[d] = map2[d] /\ snap'[d] = snap[d]
        /\ Len(remote') = Len(remote)
    BY <1>03 DEF Position, Id
  <2> QED BY <1>03, <1>04, <2>1, <2>2, <2>3 DEF PassOf
<1>5. Past(d)' /\ latest' <= clock'
  BY <1>03 DEF Clocks, Past, localVars, histVars
<1>6. ASSUME Current' PROVE WriterHas' /\ OnDrive' /\ InList(d)' /\ Local(d)'
  <2>1. Current /\ Local(d)
    BY <1>03, <1>6 DEF Current, histVars, Locals
  <2>2. Known(d) \in File /\ LastModified(d) \in 0..MaxTime
    BY <1>01, LastModifiedType DEF Types, TypedPass, Position
  <2>3. Compare(Known(d), d) \in Int /\ Compare(Known(d), d) < 0 /\ ~Known(d).trashed
    BY <2>2 DEF Compare, Replace, File
  <2>4. OwnWrite(d)
    BY <1>03, <2>1, <2>3, Uploader
  <2>5. WriterHas' /\ OnDrive'
    BY <1>03, <2>1 DEF LastWrite, WriterHas, OnDrive, Exists, LastModified, localVars, histVars, Types,
       TypedPass, TypedFlags
  <2>6. InList(d)'
    BY <1>03, <2>1 DEF InLists, InList, Position, Exists, localVars, histVars
  <2>7. Listed(d)'.time <= mtime[d]
    <3>1. Listed(d)' = Known(d)
      <4> DEFINE at == CHOOSE i \in 1..Len(snap[d]) : snap[d][i] = Known(d)
      <4>1. snap[d][at] = Known(d)
        BY <1>01 DEF Position
      <4>2. next'[d] = at /\ snap' = snap
        BY <1>03 DEF Replace, Types, TypedPass
      <4> HIDE DEF at
      <4> QED BY <4>1, <4>2 DEF Listed
    <3>2. Known(d).time < LastModified(d) /\ LastModified(d) = mtime[d]
      BY <2>1, <2>2, <2>3, <2>4 DEF Compare, Current, OwnWrite, File
    <3> QED BY <2>2, <3>1, <3>2 DEF File
  <2>8. Local(d)'
    <3>1. OwnWrite(d)' /\ Exists(d)' /\ mtime'[d] = mtime[d]
      BY <1>03, <2>4 DEF OwnWrite, LastModified, Exists, localVars, histVars
    <3> QED BY <1>03, <2>1, <2>7, <3>1 DEF Local
  <2> QED BY <2>5, <2>6, <2>8
<1>7. ASSUME gone' PROVE Trashed' /\ Without(d)' /\ \A e \in Device \ {d} : Without(e)
  BY <1>03, <1>7 DEF Away, Without, histVars
<1> QED BY <1>1, <1>2, <1>3, <1>4, <1>5, <1>6, <1>7, StepOf

LEMMA UploadInv == ASSUME IInv, NEW d \in Device, Upload(d) PROVE IInv'
<1> USE SyncAssumption DEF IInv
<1>0. /\ UNCHANGED <<json, clock, remote, deleting, content, mtime, snap, next, map2, temp, histVars, boundVars>>
      /\ pc[d] = "upload" /\ next[d] <= Len(snap[d]) /\ mtime[d] \in 0..MaxTime
      /\ pc' = [pc EXCEPT ![d] = "send"] /\ pc'[d] = "send"
      /\ marked' = [marked EXCEPT ![d] = [at |-> mtime[d], as |-> mtime[d]]]
      /\ marked'[d].at = mtime[d] /\ marked'[d].as = mtime[d]
  BY DEF Upload, MarkAs, Goto, Types, TypedPass, TypedLocal, Passes, PassOf
<1>1. Types'
  <2>1. TypedDrive'
    BY <1>0 DEF Types, TypedDrive, localVars, passVars, histVars, boundVars
  <2>2. TypedLocal'
    <3>1. [at |-> mtime[d], as |-> mtime[d]] \in [at : -1..MaxTime, as : 0..MaxTime]
      BY <1>0
    <3> QED BY <1>0, <3>1 DEF Types, TypedLocal
  <2>3. TypedPass'
    BY <1>0 DEF Types, TypedPass, Place, localVars, passVars, histVars, boundVars
  <2>4. TypedFlags'
    BY <1>0 DEF Types, TypedFlags, localVars, passVars, histVars, boundVars
  <2>5. TypedBounds'
    BY <1>0 DEF Types, TypedBounds, TypedFlags, localVars, passVars, histVars, boundVars
  <2> QED BY <2>1, <2>2, <2>3, <2>4, <2>5 DEF Types
<1>2. Others(d)
  BY <1>0 DEF Others, Types, TypedLocal, TypedPass, localVars, passVars
<1>3. Onward(d)
  BY <1>0, Still DEF Current, Types, TypedDrive, histVars
<1>4. PassOf(d)'
  BY <1>0 DEF Passes, PassOf, Position, Id
<1>5. Past(d)' /\ latest' <= clock'
  BY <1>0 DEF Clocks, Past, histVars
<1>6. ASSUME Current' PROVE WriterHas' /\ OnDrive' /\ InList(d)' /\ Local(d)'
  <2>1. Current /\ Local(d) /\ writer' = writer /\ latest' = latest
    BY <1>0, <1>6 DEF Current, histVars, Locals
  <2>2. OwnWrite(d) /\ Exists(d) /\ Listed(d).time <= mtime[d]
    BY <1>0, <2>1 DEF Local, Downloaded
  <2>3. LastModified(d)' = mtime[d] /\ LastModified(d) = mtime[d] /\ marked'[d] # Unmarked
    BY <1>0, <2>2 DEF LastModified, OwnWrite, Unmarked
  <2>4. d # writer => marked'[writer] = marked[writer]
    BY <1>0 DEF Types, TypedFlags, TypedLocal
  <2>5. LastModified(writer)' = LastModified(writer)
    BY <1>0, <2>1, <2>3, <2>4 DEF LastModified, Exists
  <2>6. pc'[writer] \notin {"copy", "mark"}
    BY <1>0, <2>1 DEF LastWrite, WriterHas, Types, TypedPass, TypedFlags
  <2>7. WriterHas'
    BY <1>0, <2>1, <2>5, <2>6 DEF LastWrite, WriterHas
  <2>8. OnDrive'
    BY <1>0, <2>1, <2>3, <2>4 DEF LastWrite, OnDrive, Exists
  <2>9. InList(d)'
    BY <1>0, <2>1, <2>3 DEF InLists, InList, Position, Exists
  <2>10. Local(d)'
    <3>1. OwnWrite(d)' /\ Exists(d)' /\ Listed(d)' = Listed(d)
      BY <1>0, <2>1, <2>2, <2>3 DEF OwnWrite, Exists, Listed
    <3> QED BY <1>0, <2>1, <2>2, <3>1 DEF Local
  <2> QED BY <2>7, <2>8, <2>9, <2>10
<1>7. ASSUME gone' PROVE Trashed' /\ Without(d)' /\ \A e \in Device \ {d} : Without(e)
  BY <1>0, <1>7 DEF Away, Without, histVars
<1> QED BY <1>1, <1>2, <1>3, <1>4, <1>5, <1>6, <1>7, StepOf

LEMMA SendInv == ASSUME IInv, NEW d \in Device, Send(d) PROVE IInv'
<1> USE SyncAssumption DEF IInv
<1> DEFINE m == Listed(d).id
<1>0. /\ UNCHANGED <<json, clock, deleting, localVars, map2, temp, latest, writer, gone, boundVars>>
      /\ pc[d] = "send" /\ next[d] <= Len(snap[d])
      /\ pc' = [pc EXCEPT ![d] = "idle"] /\ snap' = [snap EXCEPT ![d] = <<>>]
      /\ next' = [next EXCEPT ![d] = 1]
      /\ pc'[d] = "idle" /\ snap'[d] = <<>> /\ next'[d] = 1
      /\ mishap \subseteq mishap' /\ mishap' \subseteq Mishaps
  BY DEF Send, EndPass, FromFirst, Goto, Mishaps, Types, TypedPass, TypedFlags, Passes, PassOf
<1>00. m \in Id /\ remote[m] \in Copy /\ Listed(d) = snap[d][next[d]] /\ next[d] \in Position(d)
  BY <1>0, ListedFacts
<1>01. ASSUME Exists(d)
       PROVE  \E f \in Copy : /\ f.content = content[d] /\ f.time = marked[d].as /\ f.trashed = remote[m].trashed
                              /\ remote' = [remote EXCEPT ![m] = f]
  <2> DEFINE f == [remote[m] EXCEPT !.content = content[d], !.time = marked[d].as]
  <2>1. content[d] \in Version /\ marked[d].as \in 0..MaxTime
    BY DEF Types, TypedLocal
  <2>2. /\ f \in Copy /\ f.content = content[d] /\ f.time = marked[d].as /\ f.trashed = remote[m].trashed
    BY <1>00, <2>1 DEF Copy
  <2>3. remote' = [remote EXCEPT ![m] = f]
    BY <1>00, <1>01 DEF Send, Types, TypedDrive, Id
  <2> HIDE DEF f
  <2> QED BY <2>2, <2>3
<1>02. ~Exists(d) => remote' = remote
  BY DEF Send
<1>03. Exists(d) /\ remote[m].time # Listed(d).time => "crossed" \in mishap'
  BY DEF Send
<1> HIDE DEF m
<1>04. /\ remote' \in Seq(Copy) /\ Len(remote') = Len(remote) /\ Len(remote) \in Nat
  <2>1. CASE ~Exists(d)
    BY <1>02, <2>1 DEF Types, TypedDrive
  <2>2. CASE Exists(d)
    <3>1. PICK f \in Copy : remote' = [remote EXCEPT ![m] = f]
      BY <1>01, <2>2
    <3>2. remote' \in Seq(Copy) /\ Len(remote') = Len(remote)
      BY <1>00, <3>1, CopyReplaced
    <3> QED BY <3>2 DEF Types, TypedDrive
  <2> QED BY <2>1, <2>2
<1>1. Types'
  <2>1. TypedDrive'
    BY <1>0, <1>04 DEF Types, TypedDrive
  <2>2. TypedLocal'
    BY <1>0 DEF Types, TypedLocal, localVars, passVars, histVars, boundVars
  <2>3. TypedPass'
    BY <1>0, <<>> \in Seq(File), MaxId + 1 \in Nat DEF Types, TypedPass, Place, passVars
  <2>4. TypedFlags'
    BY <1>0 DEF Types, TypedFlags, localVars, passVars, histVars, boundVars
  <2>5. TypedBounds'
    BY <1>0 DEF Types, TypedBounds, TypedFlags, localVars, passVars, histVars, boundVars
  <2> QED BY <2>1, <2>2, <2>3, <2>4, <2>5 DEF Types
<1>2. Others(d)
  BY <1>0 DEF Others, Types, TypedLocal, TypedPass, localVars, passVars
<1>6. ASSUME Current'
      PROVE  /\ Current /\ WriterHas' /\ OnDrive' /\ InList(d)' /\ Local(d)'
             /\ remote # <<>> /\ remote' # <<>> /\ remote[1].time <= remote'[1].time
  <2>1. Current /\ "crossed" \notin mishap'
    BY <1>0, <1>6 DEF Current, Lossy
  <2>2. Local(d) /\ Exists(d) /\ OwnWrite(d) /\ InList(d)
    BY <1>0, <2>1 DEF Locals, Local, Downloaded, InLists
  <2>3. m = 1 /\ remote # <<>> /\ remote[1] \in Copy
    <3>1. m \in 1..Len(remote) /\ Len(remote) <= 1
      BY <1>00, <2>1 DEF Id, LastWrite, OnDrive
    <3>2. m = 1
      BY <1>04, <3>1
    <3> QED BY <1>00, <2>1, <3>2, OneListed
  <2>4. PICK f \in Copy : /\ f.content = content[d] /\ f.time = marked[d].as /\ f.trashed = remote[1].trashed
                          /\ remote' = [remote EXCEPT ![m] = f]
    BY <1>01, <2>2, <2>3
  <2>5. remote'[1] = f
    BY <1>00, <2>3, <2>4, CopyReplaced
  <2>6. remote' # <<>>
    BY <1>04, <2>3 DEF Types, TypedDrive
  <2>7. remote[1].time <= marked[d].as /\ marked[d].as <= mtime[d] /\ marked[d].at # -1
    BY <1>0, <1>03, <2>1, <2>2, <2>3 DEF Local
  <2>8. /\ content[d] = mtime[d] /\ mtime[d] <= latest /\ (d # writer => mtime[d] < latest)
        /\ mtime[d] \in Nat /\ latest \in Nat /\ marked[d].as \in Nat /\ remote[1].time \in Nat
    <3>1. mtime[d] \in Nat /\ marked[d].as \in Nat
      BY DEF Types, TypedLocal
    <3>2. latest \in Nat /\ remote[1].time \in Nat
      BY <2>3 DEF Types, TypedFlags, Copy
    <3> QED BY <2>2, <3>1, <3>2 DEF OwnWrite
  <2>9. WriterHas'
    BY <1>0, <2>1 DEF LastWrite, WriterHas, LastModified, Exists, localVars, Types, TypedPass, TypedFlags
  <2>10. OnDrive'
    <3>1. Len(remote') <= 1
      BY <1>04, <2>1 DEF LastWrite, OnDrive
    <3>2. ~remote'[1].trashed /\ remote'[1].time <= latest /\ remote'[1].content \in 0..latest
      BY <2>1, <2>3, <2>4, <2>5, <2>7, <2>8 DEF LastWrite, OnDrive
    <3>3. marked[writer] = Unmarked => remote'[1].content # latest
      BY <2>4, <2>5, <2>7, <2>8 DEF Unmarked
    <3> QED BY <1>0, <3>1, <3>2, <3>3 DEF OnDrive, Exists, localVars
  <2>11. InList(d)'
    BY <1>0 DEF InList, Position
  <2>12. Local(d)'
    BY <1>0, <2>2, <2>3, <2>6 DEF Local, OwnWrite, LastModified, Exists, localVars
  <2> QED BY <2>1, <2>3, <2>4, <2>5, <2>6, <2>7, <2>8, <2>9, <2>10, <2>11, <2>12
<1>3. Onward(d)
  BY <1>0, <1>04, <1>6 DEF Onward, Types, TypedDrive
<1>4. PassOf(d)'
  <2>1. map2[d] \in 0..MaxId /\ map2[d] <= Len(remote)
    BY DEF Types, TypedPass, Passes, PassOf
  <2>2. Len(snap'[d]) = 0 /\ Position(d)' = {} /\ map2'[d] = map2[d]
    BY <1>0 DEF Position
  <2> QED BY <1>0, <1>04, <2>1, <2>2 DEF PassOf
<1>5. Past(d)' /\ latest' <= clock'
  BY <1>0 DEF Clocks, Past, localVars
<1>7. ASSUME gone' PROVE Trashed' /\ Without(d)' /\ \A e \in Device \ {d} : Without(e)
  BY <1>0, <1>7 DEF Away, Without
<1> QED BY <1>1, <1>2, <1>3, <1>4, <1>5, <1>6, <1>7, StepOf

LEMMA FailInv == ASSUME IInv, NEW d \in Device, Fail(d) PROVE IInv'
<1> USE SyncAssumption DEF IInv
<1>0. /\ UNCHANGED <<json, clock, remote, deleting, localVars, map2, temp, histVars, edits>>
      /\ pc[d] \in {"download", "upload", "send"} /\ trouble < MaxTrouble[json] /\ trouble' = trouble + 1
      /\ pc' = [pc EXCEPT ![d] = "idle"] /\ snap' = [snap EXCEPT ![d] = <<>>]
      /\ next' = [next EXCEPT ![d] = 1]
  BY DEF Fail, EndPass, FromFirst, Goto
<1>1. Types'
  <2>1. TypedDrive'
    BY <1>0 DEF Types, TypedDrive, localVars, passVars, histVars, boundVars
  <2>2. TypedLocal'
    BY <1>0 DEF Types, TypedLocal, localVars, passVars, histVars, boundVars
  <2>3. TypedPass'
    BY <1>0, <<>> \in Seq(File), MaxId + 1 \in Nat DEF Types, TypedPass, Place, passVars
  <2>4. TypedFlags'
    BY <1>0 DEF Types, TypedFlags, localVars, passVars, histVars, boundVars
  <2>5. TypedBounds'
    BY <1>0 DEF Types, TypedBounds, TypedFlags, localVars, passVars, histVars, boundVars
  <2> QED BY <2>1, <2>2, <2>3, <2>4, <2>5 DEF Types
<1>2. Others(d)
  BY <1>0 DEF Others, Types, TypedLocal, TypedPass, localVars, passVars
<1> QED BY <1>0, <1>1, <1>2, PassEnds DEF Fail, Current, localVars, histVars

LEMMA DieInv == ASSUME IInv, NEW d \in Device, Die(d) PROVE IInv'
<1> USE SyncAssumption DEF IInv
<1>0. /\ UNCHANGED <<json, remote, marked, latest, writer, gone, edits>>
      /\ trouble < MaxTrouble[json] /\ trouble' = trouble + 1
      /\ deleting' = [deleting EXCEPT ![d] = FALSE] /\ map2' = [map2 EXCEPT ![d] = 0]
      /\ temp' = [temp EXCEPT ![d] = 0]
      /\ pc' = [pc EXCEPT ![d] = "idle"] /\ snap' = [snap EXCEPT ![d] = <<>>]
      /\ next' = [next EXCEPT ![d] = 1]
      /\ mishap' \subseteq Mishaps /\ mishap \subseteq mishap'
  BY DEF Die, EndPass, FromFirst, Goto, Mishaps, Types, TypedFlags
<1>01. \/ /\ UNCHANGED <<clock, content, mtime>>
          /\ pc[d] = "mark" => "torn" \in mishap'
       \/ /\ clock' = clock + 1 /\ clock' \in 0..MaxTime /\ clock \in Nat
          /\ pc[d] = "copy" /\ "torn" \in mishap'
          /\ content' = [content EXCEPT ![d] = Garbled] /\ mtime' = [mtime EXCEPT ![d] = clock']
  BY DEF Die, Types, TypedDrive
<1>1. Types'
  <2>1. TypedDrive'
    BY <1>0, <1>01 DEF Types, TypedDrive
  <2>2. TypedLocal'
    BY <1>0, <1>01 DEF Types, TypedLocal, Version
  <2>3. TypedPass'
    BY <1>0, <<>> \in Seq(File), MaxId + 1 \in Nat DEF Types, TypedPass, Place, Version, passVars
  <2>4. TypedFlags'
    BY <1>0 DEF Types, TypedFlags, localVars, passVars, histVars, boundVars
  <2>5. TypedBounds'
    BY <1>0 DEF Types, TypedBounds, TypedFlags, localVars, passVars, histVars, boundVars
  <2> QED BY <2>1, <2>2, <2>3, <2>4, <2>5 DEF Types
<1>2. Others(d)
  BY <1>0, <1>01 DEF Others, Types, TypedLocal, TypedPass
<1>8. CASE UNCHANGED <<clock, content, mtime>> /\ (pc[d] = "mark" => "torn" \in mishap')
  <2>1. Current' => Current /\ pc[d] # "mark"
    BY <1>0, <1>8 DEF Current, Lossy
  <2> QED BY <1>0, <1>1, <1>2, <1>8, <2>1, PassEnds DEF Die
<1>9. CASE /\ clock' = clock + 1 /\ clock' \in 0..MaxTime /\ clock \in Nat
           /\ pc[d] = "copy" /\ "torn" \in mishap'
           /\ content' = [content EXCEPT ![d] = Garbled] /\ mtime' = [mtime EXCEPT ![d] = clock']
  <2>1. ~Current' /\ ~gone'
    BY <1>0, <1>9 DEF Current, Lossy, Away, Without
  <2>2. Onward(d)
    BY <1>0, <1>9, <2>1 DEF Onward, Types, TypedDrive
  <2>3. PassOf(d)'
    <3>1. /\ snap'[d] = <<>> /\ next'[d] = 1 /\ pc'[d] = "idle" /\ map2'[d] = 0 /\ Len(remote) \in Nat
      BY <1>0 DEF Types, TypedPass, TypedDrive
    <3> QED BY <1>0, <3>1 DEF PassOf, Position
  <2>4. Past(d)' /\ latest' <= clock'
    <3>1. marked[d].at \in Int /\ latest \in Int /\ marked[d].at <= clock /\ latest <= clock
      BY DEF Clocks, Past, Types, TypedLocal, TypedFlags
    <3>2. mtime'[d] = clock'
      BY <1>9 DEF Types, TypedLocal
    <3> QED BY <1>0, <1>9, <3>1, <3>2 DEF Past
  <2> QED BY <1>1, <1>2, <2>1, <2>2, <2>3, <2>4, StepOf
<1> QED BY <1>01, <1>8, <1>9

---------------------------------------------------------------------------
\* The theorems.

LEMMA InitInv == Init => IInv
<1> SUFFICES ASSUME Init PROVE IInv
  OBVIOUS
<1> USE SyncAssumption
<1>1. remote = <<>> /\ Len(remote) = 0 /\ \A d \in Device : snap[d] = <<>> /\ Position(d) = {}
  BY DEF Init, Position
<1>2. Types
  <2>1. TypedDrive
    BY <1>1 DEF Init, TypedDrive
  <2>2. TypedLocal
    BY DEF Init, TypedLocal, Unmarked, Version
  <2>3. TypedPass
    BY <<>> \in Seq(File) DEF Init, TypedPass, Place, Version
  <2>4. TypedFlags
    <3>1. json \in BOOLEAN /\ mishap \subseteq Mishaps /\ gone \in BOOLEAN /\ writer \in Device
      BY Zenon DEF Init
    <3>2. latest \in 0..MaxTime
      BY DEF Init
    <3> QED BY <3>1, <3>2 DEF TypedFlags
  <2>5. TypedBounds
    <3>1. MaxEdit[json] \in Nat /\ MaxTrouble[json] \in Nat
      BY DEF Init
    <3> QED BY <3>1 DEF Init, TypedBounds
  <2> QED BY <2>1, <2>2, <2>3, <2>4, <2>5 DEF Types
<1>3. Passes /\ Clocks
  BY <1>1 DEF Init, Passes, PassOf, Clocks, Past, Unmarked
<1>4. WriterHas /\ OnDrive
  BY <1>1 DEF Init, WriterHas, OnDrive, LastModified, Exists
<1>5. \A d \in Device : InList(d) /\ Local(d)
  BY <1>1 DEF Init, InList, Local, Exists
<1>6. ~gone
  BY DEF Init
<1> QED BY <1>2, <1>3, <1>4, <1>5, <1>6 DEF IInv, LastWrite, InLists, Locals, Away

LEMMA StepInv == IInv /\ [Next]_vars => IInv'
<1>1. ASSUME IInv, Next PROVE IInv'
  <2>1. PICK d \in Device : Pass(d) \/ User(d) \/ Fault(d)
    BY <1>1 DEF Next
  <2>2. CASE Pass(d)
    BY <1>1, <2>2, ListInv, RemoveLocalInv, SkipFileInv, DownloadInv, SkipDownloadInv,
       CopyDownloadInv, MarkDownloadInv, KeepRemoteInv, CreateInv, ReplaceInv, UploadInv,
       SendInv DEF Pass
  <2>3. CASE User(d)
    BY <1>1, <2>3, EditInv, DeleteRemoteInv, DeleteLocalInv DEF User
  <2>4. CASE Fault(d)
    BY <1>1, <2>4, FailInv, DieInv DEF Fault
  <2> QED BY <2>1, <2>2, <2>3, <2>4
<1>2. ASSUME IInv, UNCHANGED vars PROVE IInv'
  <2> USE <1>2 DEF IInv, vars, localVars, passVars, histVars, boundVars
  <2>1. Types'
    BY DEF Types, TypedDrive, TypedLocal, TypedPass, TypedFlags, TypedBounds
  <2>2. Passes' /\ Clocks'
    BY DEF Passes, PassOf, Position, Id, Clocks, Past
  <2>3. LastWrite'
    BY DEF LastWrite, WriterHas, OnDrive, Current, Exists, LastModified
  <2>4. InLists'
    BY DEF InLists, InList, Position, Current, Exists
  <2>5. Locals'
    BY DEF Locals, Local, OwnWrite, Downloaded, LastModified, Listed, Position, Current, Exists
  <2>6. Away'
    BY DEF Away, Trashed, Without, Position, Exists, Id
  <2> QED BY <2>1, <2>2, <2>3, <2>4, <2>5, <2>6
<1> QED BY <1>1, <1>2

LEMMA Invariance == Spec => []IInv
BY InitInv, StepInv, PTL DEF Spec

\* Every variable keeps its type: no file of the Drive or of a list has another form,
\* a pass is never past the end of its list by more than one, and the clock and the
\* bounds hold.
THEOREM TypeCorrect == Spec => []TypeOK
<1>1. IInv => TypeOK
  BY TypedParts DEF IInv
<1> QED BY <1>1, Invariance, PTL

\* What is written last to a JSON file is kept on the device that wrote it, whichever
\* that is, for any number of devices and whatever passes, writes of other devices,
\* failing calls, garbled downloads and deaths come between, until one of the four
\* mishaps: a write or a death inside a download, or an upload that crosses another.
THEOREM LastWriteKeptAlways == Spec => []LastWriteKept
<1>1. IInv => LastWriteKept
  BY DEF IInv, LastWrite, WriterHas, Current, Lossy, LastWriteKept
<1> QED BY <1>1, Invariance, PTL

\* A garbled copy of a JSON file, left by a call that failed, is never sent to the
\* Drive, on the same conditions: it counts as the version of the list, and the Drive
\* is not behind that.
THEOREM GarbledStaysLocalAlways ==
  Spec => [](mishap \cap {"masked", "overrun"} = {} => GarbledStaysLocal)
<1>1. IInv => (mishap \cap {"masked", "overrun"} = {} => GarbledStaysLocal)
  <2> SUFFICES ASSUME IInv, Current, NEW i \in Id PROVE remote[i].content # Garbled
    BY DEF GarbledStaysLocal, Current, Lossy
  <2>1. Len(remote) \in Nat /\ Len(remote) <= 1
    BY DEF IInv, Types, TypedDrive, LastWrite, OnDrive
  <2>2. i = 1 /\ remote # <<>>
    BY <2>1 DEF Id, IInv, Types, TypedDrive
  <2>3. remote[1].content \in 0..latest
    BY <2>2 DEF IInv, LastWrite, OnDrive
  <2> QED BY <2>2, <2>3 DEF Garbled
<1> QED BY <1>1, Invariance, PTL

\* A book deleted on the only device that has it, when no pass is under way, stays
\* away from all devices until it is added again: no list made since has it.
THEOREM DeletedStaysAwayAlways == Spec => []DeletedStaysAway
<1>1. IInv => DeletedStaysAway
  BY DEF IInv, Away, Without, DeletedStaysAway
<1> QED BY <1>1, Invariance, PTL

=============================================================================
