----------------------------- MODULE CloudSync -----------------------------
(***************************************************************************)
(* GFile: several devices keep a folder in step through Google Drive.  The *)
(* Drive is a list of files, each call on it atomic; a pass of a device    *)
(* lists them once and then removes, downloads and uploads by that list,   *)
(* while the user edits the local file and other devices make their pass.  *)
(*                                                                         *)
(* One path is modelled, and what it is: the JSON file of the device       *)
(* Owner, which every device that has it may write, or a book, which every *)
(* device may add and delete.  A version of the content is the time it was *)
(* written, 0 is an empty file, and Garbled is what a failed download      *)
(* leaves; two versions differ in size.                                    *)
(***************************************************************************)
EXTENDS Integers, FiniteSets, SequencesExt

CONSTANTS
    Device,
    Owner,      \* the device whose JSON file it is
    MaxEdit,    \* bound: edits of the JSON file, additions of the book
    MaxTrouble, \* bound: deletions, calls that fail, processes that die
    MaxId,      \* bound: files created on the Drive
    MaxTime     \* bound: the clock

ASSUME SyncAssumption ==
    /\ Owner \in Device /\ IsFiniteSet(Device)
    /\ {MaxEdit, MaxTrouble} \subseteq [BOOLEAN -> Nat] /\ {MaxId, MaxTime} \subseteq Nat

VARIABLES
    json,       \* the path is the JSON file of Owner, else a book
    clock,      \* the time, alike on all devices
    remote,     \* the files of that path on the Drive, by id
    content, mtime, \* the local file of a device; mtime is 0 if there is none
    marked,     \* its entry in "lastmodified2": [at |-> mtime, as |-> time]
    deleting,   \* a book is in the trash of the Drive, but still local
    pc,         \* where the pass of a device is
    snap, next, \* its driveFiles by modifiedTime, and how far the download is
    map2,       \* the id of the file it has for the path, kept until the next pass
    temp,       \* the ".temp" file of its download
    \* history
    latest, writer, \* the version of the JSON file written last, and where
    mishap,     \* which of Mishaps has happened
    gone,       \* the only copy has been deleted, and none added since
    edits, trouble

localVars == <<content, mtime, marked>>
passVars == <<pc, snap, next, map2, temp>>
histVars == <<latest, writer, mishap, gone>>
boundVars == <<edits, trouble>>
vars == <<json, clock, remote, deleting, localVars, passVars, histVars, boundVars>>

\* torn: a process died between the copy of a download and its mark
\* masked: a file was written between the copy of a download and its mark, or
\*   a deleted book added again between the mark and the call of its upload
\* overrun: a file was written between the fetch of a download and its copy
\* crossed: the Drive got a version while another was on its way there
\* hollow: a pass has listed a file that was created and not filled
Mishaps == {"torn", "masked", "overrun", "crossed", "hollow"}

Garbled == -1
Id == 1..Len(remote)
Unmarked == [at |-> -1, as |-> 0]
NoFile == [id |-> 0, size |-> 0, time |-> 0, trashed |-> TRUE]

Init ==
    /\ json \in BOOLEAN /\ clock = 0 /\ remote = <<>>
    /\ content = [d \in Device |-> 0] /\ mtime = [d \in Device |-> 0]
    /\ marked = [d \in Device |-> Unmarked] /\ deleting = [d \in Device |-> FALSE]
    /\ pc = [d \in Device |-> "idle"] /\ snap = [d \in Device |-> <<>>]
    /\ next = [d \in Device |-> 1] /\ map2 = [d \in Device |-> 0]
    /\ temp = [d \in Device |-> 0]
    /\ latest = 0 /\ writer = Owner /\ mishap = {} /\ gone = FALSE
    /\ edits = 0 /\ trouble = 0

---------------------------------------------------------------------------
Exists(d) == mtime[d] > 0

\* getLastModified: the marked time, if the file has not been written since
LastModified(d) ==
    IF Exists(d) /\ marked[d].at = mtime[d] THEN marked[d].as ELSE mtime[d]

\* compareModifiedTime; a book of the same size is the same.
Compare(file, d) ==
    IF ~json /\ file.size = content[d] THEN 0 ELSE file.time - LastModified(d)

\* setLastModifiedTime
MarkAs(d, time) == marked' = [marked EXCEPT ![d] = [at |-> mtime[d], as |-> time]]

Goto(d, place) == pc' = [pc EXCEPT ![d] = place]

\* Mutant: counts from 0
FromZero(d) == next' = [next EXCEPT ![d] = 0]

FromFirst(d) == next' = [next EXCEPT ![d] = 1]

EndPass(d) ==
    /\ Goto(d, "idle")
    /\ snap' = [snap EXCEPT ![d] = <<>>] /\ FromFirst(d)

\* The file that map2 gets for the path: the first one not in the trash, in
\* the order of the list; if all are, the last one.
Pick(files) ==
    LET kept == {i \in 1..Len(files) : ~files[i].trashed}
    IN CASE kept # {} -> files[CHOOSE i \in kept : \A j \in kept : i <= j]
         [] kept = {} /\ files # <<>> -> Last(files)
         [] OTHER -> NoFile

\* What the list said of the file in map2
Known(d) ==
    IF map2[d] = 0 THEN NoFile
    ELSE CHOOSE f \in Range(snap[d]) : f.id = map2[d]

---------------------------------------------------------------------------
\* The users.

\* A JSON file is made by the device it belongs to and written by all that have
\* it (removeAll, clearAll and BookmarksData.remove go over the files of every
\* device), each on its own copy; a book is added where there is none.
Edit(d) ==
    /\ IF json THEN d = Owner \/ Exists(d) ELSE ~Exists(d)
    /\ edits < MaxEdit[json] /\ edits' = edits + 1
    /\ clock < MaxTime /\ clock' = clock + 1
    /\ content' = [content EXCEPT ![d] = clock']
    /\ mtime' = [mtime EXCEPT ![d] = clock']
    /\ latest' = (IF json THEN clock' ELSE 0) /\ writer' = (IF json THEN d ELSE Owner)
    /\ mishap' = mishap \cup (CASE pc[d] = "copy" -> {"overrun"}
                                [] pc[d] = "mark" \/ (pc[d] = "send" /\ ~Exists(d)) -> {"masked"}
                                [] OTHER -> {})
    /\ gone' = FALSE
    /\ UNCHANGED <<json, remote, deleting, marked, passVars, trouble>>

\* deleteRemoteFile puts the file that map2 names into the trash, if it names
\* one ...
DeleteRemote(d) ==
    /\ ~json /\ Exists(d) /\ ~deleting[d]
    /\ trouble < MaxTrouble[json] /\ trouble' = trouble + 1
    /\ clock < MaxTime /\ clock' = clock + 1
    /\ remote' = IF map2[d] = 0 THEN remote
                 ELSE [remote EXCEPT ![map2[d]].trashed = TRUE, ![map2[d]].time = clock']
    /\ deleting' = [deleting EXCEPT ![d] = TRUE]
    /\ UNCHANGED <<json, localVars, passVars, histVars, edits>>

\* ... and then, on the UI thread, the local file goes.
DeleteLocal(d) ==
    /\ deleting[d]
    /\ deleting' = [deleting EXCEPT ![d] = FALSE]
    /\ content' = [content EXCEPT ![d] = 0] /\ mtime' = [mtime EXCEPT ![d] = 0]
    /\ gone' = (/\ \A i \in Id : remote[i].trashed
                /\ \A e \in Device : pc[e] = "idle" /\ (e # d => ~Exists(e)))
    /\ UNCHANGED <<json, clock, remote, marked, passVars, latest, writer, mishap, boundVars>>

---------------------------------------------------------------------------
\* A pass of a device.

\* getFilesAll: the files, trashed ones included, by modifiedTime, equal times by
\* age (the Drive's own choice, and no theorem depends on it)
Entries == {[id |-> i, size |-> remote[i].content, time |-> remote[i].time,
             trashed |-> remote[i].trashed] : i \in Id}
Lists == {files \in [Id -> Entries] :
            /\ Range(files) = Entries
            /\ \A i, j \in Id : i < j =>
                  \/ files[i].time < files[j].time
                  \/ files[i].time = files[j].time /\ files[i].id < files[j].id}

\* sync, up to the maps it builds of the list
List(d) ==
    /\ pc[d] = "idle"
    /\ \E files \in Lists :
          /\ snap' = [snap EXCEPT ![d] = files]
          /\ map2' = [map2 EXCEPT ![d] = Pick(files).id]
    /\ FromFirst(d)
    /\ mishap' = IF \E i \in Id : ~remote[i].trashed /\ remote[i].content = 0
                 THEN mishap \cup {"hollow"} ELSE mishap
    /\ Goto(d, "remove")
    /\ UNCHANGED <<json, clock, remote, deleting, localVars, temp, latest, writer, gone, boundVars>>

\* A file in the trash takes the local one with it, if that is older.
RemoveLocal(d) ==
    /\ pc[d] = "remove"
    /\ IF map2[d] # 0 /\ Known(d).trashed /\ Exists(d) /\ Compare(Known(d), d) > 0
       THEN /\ content' = [content EXCEPT ![d] = 0]
            /\ mtime' = [mtime EXCEPT ![d] = 0]
       ELSE UNCHANGED <<content, mtime>>
    /\ Goto(d, "download")
    /\ UNCHANGED <<json, clock, remote, deleting, marked, snap, next, map2, temp, histVars, boundVars>>

\* Mutant: the loop does not skip what is in the trash
ListedUntrashed(d) == [snap[d][next[d]] EXCEPT !.trashed = FALSE]

Listed(d) == snap[d][next[d]]
Downloading(d) == pc[d] = "download" /\ next[d] <= Len(snap[d])
NextFile(d) == next' = [next EXCEPT ![d] = @ + 1]

\* A file of the same size that was never marked is taken for the same.
SameFile(d) == marked[d] = Unmarked /\ content[d] = Listed(d).size

SkipFile(d) ==
    /\ Downloading(d)
    /\ \/ /\ Listed(d).trashed
          /\ UNCHANGED marked
       \/ /\ ~Listed(d).trashed /\ SameFile(d)
          /\ MarkAs(d, Listed(d).time)
       \/ /\ ~Listed(d).trashed /\ ~SameFile(d) /\ Compare(Listed(d), d) <= 0
          /\ UNCHANGED marked
    /\ NextFile(d)
    /\ UNCHANGED <<json, clock, remote, deleting, content, mtime, pc, snap, map2, temp,
                   histVars, boundVars>>

\* Mutant: also takes what is older than the local file
WantedAnyway(d) == Downloading(d) /\ ~Listed(d).trashed /\ ~SameFile(d)

Wanted(d) == Downloading(d) /\ ~Listed(d).trashed /\ ~SameFile(d) /\ Compare(Listed(d), d) > 0

\* A step that works, with the content given to it, or spends a fault and
\* leaves Garbled.
Written(c, good) ==
    \/ c = good /\ UNCHANGED trouble
    \/ c = Garbled /\ trouble < MaxTrouble[json] /\ trouble' = trouble + 1

\* downloadFile: what the Drive has now goes to ".temp"; when the call for the
\* content fails, what goes there is the answer of the one for the metadata ...
Download(d) ==
    /\ Wanted(d)
    /\ \E c \in {Garbled, remote[Listed(d).id].content} :
          /\ Written(c, remote[Listed(d).id].content)
          /\ temp' = [temp EXCEPT ![d] = c]
    /\ Goto(d, "copy")
    /\ UNCHANGED <<json, clock, remote, deleting, localVars, snap, next, map2, histVars, edits>>

\* ... which breaks off, and the file is left out ...
SkipDownload(d) ==
    /\ Wanted(d)
    /\ trouble < MaxTrouble[json] /\ trouble' = trouble + 1
    /\ NextFile(d)
    /\ UNCHANGED <<json, clock, remote, deleting, localVars, pc, snap, map2, temp, histVars, edits>>

\* ... or goes over the local file, and nobody asks whether all of it did ...
CopyDownload(d) ==
    /\ pc[d] = "copy"
    /\ clock < MaxTime /\ clock' = clock + 1
    /\ \E c \in {Garbled, temp[d]} :
          /\ Written(c, temp[d])
          /\ content' = [content EXCEPT ![d] = c]
    /\ mtime' = [mtime EXCEPT ![d] = clock']
    /\ temp' = [temp EXCEPT ![d] = 0]
    /\ Goto(d, "mark")
    /\ UNCHANGED <<json, remote, deleting, marked, snap, next, map2, histVars, edits>>

\* Mutant: a download is not marked
MarkNothing(d) ==
    /\ pc[d] = "mark"
    /\ NextFile(d) /\ Goto(d, "download")
    /\ UNCHANGED <<json, clock, remote, deleting, localVars, snap, map2, temp, histVars, boundVars>>

\* ... which is then marked with the time of the list.
MarkDownload(d) ==
    /\ pc[d] = "mark"
    /\ MarkAs(d, Listed(d).time)
    /\ NextFile(d) /\ Goto(d, "download")
    /\ UNCHANGED <<json, clock, remote, deleting, content, mtime, snap, map2, temp,
                   histVars, boundVars>>

\* Mutant: what the Drive lacks is not sent
KeepRemoteAlways(d) ==
    /\ pc[d] = "download" /\ next[d] > Len(snap[d])
    /\ EndPass(d)
    /\ UNCHANGED <<json, clock, remote, deleting, localVars, map2, temp, histVars, boundVars>>

\* syncUpload: nothing to do
KeepRemote(d) ==
    /\ pc[d] = "download" /\ next[d] > Len(snap[d])
    /\ ~Exists(d) \/ (~Known(d).trashed /\ Compare(Known(d), d) >= 0)
    /\ EndPass(d)
    /\ UNCHANGED <<json, clock, remote, deleting, localVars, map2, temp, histVars, boundVars>>

\* createFirstTime: the list had no such file, or only in the trash.
Create(d) ==
    /\ pc[d] = "download" /\ next[d] > Len(snap[d])
    /\ Exists(d) /\ Known(d).trashed /\ Len(remote) < MaxId
    /\ remote' = Append(remote, [content |-> 0, time |-> LastModified(d), trashed |-> FALSE])
    /\ snap' = [snap EXCEPT ![d] = Append(@, [id |-> Len(remote'), size |-> 0,
                                              time |-> LastModified(d), trashed |-> FALSE])]
    /\ Goto(d, "upload")
    /\ UNCHANGED <<json, clock, deleting, localVars, next, map2, temp, histVars, boundVars>>

Replace(d) ==
    /\ pc[d] = "download" /\ next[d] > Len(snap[d])
    /\ Exists(d) /\ ~Known(d).trashed /\ Compare(Known(d), d) < 0
    /\ next' = [next EXCEPT ![d] = CHOOSE i \in 1..Len(snap[d]) : snap[d][i] = Known(d)]
    /\ Goto(d, "upload")
    /\ UNCHANGED <<json, clock, remote, deleting, localVars, snap, map2, temp, histVars, boundVars>>

\* uploadFile marks the local file with its own time ...
Upload(d) ==
    /\ pc[d] = "upload"
    /\ MarkAs(d, mtime[d])
    /\ Goto(d, "send")
    /\ UNCHANGED <<json, clock, remote, deleting, content, mtime, snap, next, map2, temp,
                   histVars, boundVars>>

\* ... and sends that time and the content the file has by then in one call; a
\* file that has gone meanwhile fails it.
Send(d) ==
    /\ pc[d] = "send"
    /\ IF Exists(d)
       THEN /\ remote' = [remote EXCEPT ![Listed(d).id].content = content[d],
                                        ![Listed(d).id].time = marked[d].as]
            /\ mishap' = IF remote[Listed(d).id].time # Listed(d).time
                         THEN mishap \cup {"crossed"} ELSE mishap
       ELSE UNCHANGED <<remote, mishap>>
    /\ EndPass(d)
    /\ UNCHANGED <<json, clock, deleting, localVars, map2, temp, latest, writer, gone, boundVars>>

---------------------------------------------------------------------------
\* A call of the pass fails and ends it; in a download, both calls.
Fail(d) ==
    /\ pc[d] \in {"download", "upload", "send"}
    /\ trouble < MaxTrouble[json] /\ trouble' = trouble + 1
    /\ EndPass(d)
    /\ UNCHANGED <<json, clock, remote, deleting, localVars, map2, temp, histVars, edits>>

\* The process dies; map2 with it.  A copy under way stays half done.
Die(d) ==
    /\ trouble < MaxTrouble[json] /\ trouble' = trouble + 1
    /\ \/ /\ mishap' = IF pc[d] = "mark" THEN mishap \cup {"torn"} ELSE mishap
          /\ UNCHANGED <<clock, content, mtime>>
       \/ /\ pc[d] = "copy" /\ mishap' = mishap \cup {"torn"}
          /\ clock < MaxTime /\ clock' = clock + 1
          /\ content' = [content EXCEPT ![d] = Garbled]
          /\ mtime' = [mtime EXCEPT ![d] = clock']
    /\ EndPass(d) /\ deleting' = [deleting EXCEPT ![d] = FALSE]
    /\ map2' = [map2 EXCEPT ![d] = 0] /\ temp' = [temp EXCEPT ![d] = 0]
    /\ UNCHANGED <<json, remote, marked, latest, writer, gone, edits>>

Pass(d) ==
    \/ List(d) \/ RemoveLocal(d)
    \/ SkipFile(d) \/ Download(d) \/ SkipDownload(d) \/ CopyDownload(d) \/ MarkDownload(d)
    \/ KeepRemote(d) \/ Create(d) \/ Replace(d) \/ Upload(d) \/ Send(d)

User(d) == Edit(d) \/ DeleteRemote(d) \/ DeleteLocal(d)
Fault(d) == Fail(d) \/ Die(d)

Next == \E d \in Device : Pass(d) \/ User(d) \/ Fault(d)

Spec == Init /\ [][Next]_vars

\* Passes are started again and again (runSyncService, from every activity
\* that comes to the front) and go on unless a fault ends them.
FairSpec == Spec /\ \A d \in Device : WF_vars(Pass(d))

---------------------------------------------------------------------------
Version == {Garbled} \cup 0..MaxTime
File == [id : 0..MaxId, size : Version, time : 0..MaxTime, trashed : BOOLEAN]

TypeOK ==
    /\ json \in BOOLEAN /\ clock \in 0..MaxTime
    /\ Len(remote) <= MaxId
    /\ remote \in Seq([content : Version, time : 0..MaxTime, trashed : BOOLEAN])
    /\ content \in [Device -> Version] /\ mtime \in [Device -> 0..MaxTime]
    /\ marked \in [Device -> [at : -1..MaxTime, as : 0..MaxTime]] /\ deleting \in [Device -> BOOLEAN]
    /\ pc \in [Device -> {"idle", "remove", "download", "copy", "mark", "upload", "send"}]
    /\ snap \in [Device -> Seq(File)] /\ next \in [Device -> 1..(MaxId + 1)]
    /\ map2 \in [Device -> 0..MaxId] /\ temp \in [Device -> Version]
    /\ latest \in 0..MaxTime /\ writer \in Device /\ mishap \subseteq Mishaps /\ gone \in BOOLEAN
    /\ edits \in 0..MaxEdit[json] /\ trouble \in 0..MaxTrouble[json]

\* What is written last to a JSON file, on whichever device, is never lost there
\* to another version, in whatever order the passes go; the ways it may be lost
\* are the named mishaps.
LastWriteKept ==
    json /\ mishap \cap {"torn", "masked", "overrun", "crossed"} = {} => content[writer] = latest

\* A download that went wrong spoils the copy of that device only: what it left
\* never gets to the Drive.
GarbledStaysLocal ==
    json /\ mishap \cap {"torn", "crossed"} = {} => \A i \in Id : remote[i].content # Garbled

\* A book deleted on the only device that has it stays away until it is
\* added again.
DeletedStaysAway == gone => \A d \in Device : ~Exists(d)

\* Nothing is left to transfer: all devices have the same content, and no
\* pass of theirs would move it.
InStep ==
    /\ \A d, e \in Device : content[d] = content[e] \/ Garbled \in {content[d], content[e]}
    /\ \A d \in Device : \A i \in Id :
         Exists(d) /\ ~remote[i].trashed =>
            /\ remote[i].content = content[d] \/ content[d] = Garbled
            /\ json => remote[i].time = LastModified(d)

\* When the users rest, the passes bring the devices in step and then leave
\* them so, but for copies that a failed download has garbled and marked, which
\* stay as they are; except that a pass listed a file between its creation and the
\* upload of its content, that two devices created the same book at once, or
\* that an edit fell between a download and its mark, and is taken for it.
Converges == <>[]({"hollow", "masked"} \cap mishap # {} \/ InStep)
=============================================================================
