# A verification of the eBooki reader's core

eBooki is an Android e-book reader.  Its Java code (`src/app/src/main/java`) drives native renderers;
what it adds of its own is the machinery around them: a decode service that renders parts of pages on
one thread while another scrolls and zooms, a cache of native pages and a pool of bitmaps shared by all
of them, the path a reader's annotations take to the file, and the folder several devices keep in step
through Google Drive.  This directory specifies that machinery in TLA+, checks it with
TLC and proves what matters most in it with TLAPS.  Paths below are relative to `src/app/src/main/java`.

## Contents

| module | what it is |
|---|---|
| `DecodeService` | executor, list of slots, decodings by node, UI events, search thread, shutdown |
| `DecodeContract` | what the service promises about the life of a task; `DecodeService` implements it |
| `DecodeServiceProofs` | type correctness; every live decoding is registered |
| `DecodeServicePlaces` | a task is in one place at a time; a node is never stuck; the service implements `DecodeContract` |
| `Annotations` | strokes, marks, saves, the closing dialog |
| `AnnotationsProofs` | type correctness; nothing in the document is lost unasked; marks reach the file |
| `BitmapManager` | the pool of bitmaps, pictures, the drawing thread |
| `BitmapManagerProofs` | one owner per bitmap; what is drawn keeps its bitmaps; none is lost; memory in use is counted; types |
| `Lists`, `ListsProofs` | removing entries from a list by their positions, and what the proofs need to know of it |
| `PageCache` | holders and native pages of a MuPDF book, eviction, out of memory, closing; extends `Lists` |
| `PageCacheProofs` | type correctness and all six safety properties of the cache |
| `DjvuApi` | the messages and pages of the native DjVu library (external to the callers); extends `Lists` |
| `DjvuCodec` | the threads that share a DjVu book, its lock and its crash marker; extends `DjvuApi` |
| `DjvuCodecProofs` | types; renderings exclude each other; the crash marker is right; no dead wait before closing, no wake-up lost |
| `CloudSync` | passes of several devices over one file of the Drive |
| `CloudSyncProofs` | types; the last write is kept; garbled copies stay local; what is deleted stays away |
| `MC*` | instances for TLC: symmetry sets; one `.cfg` per run |

`PROJECT.json` maps every definition to the lines it models, and lists components, runs, mutants (a
plausible bug for every property, which TLC must then find), hazards, findings and theorems.

## The system

Components, the state each keeps, what it does and what makes it correct.  (M) modelled here, (P)
partly, (-) not; the last section says why.

* **Decode service** (P) `org/ebookdroid/core/DecodeServiceBase.java`.  State: the executor's `tasks`
  (a list of slots, null when free), `decodingTasks` (node to task), the flags `run`, `isRecycled` and
  each task's `cancelled`, the open document, a cache of page holders.  Operations: `decodePage`,
  `stopDecoding`, `addAny` (save, delete, underline, ink, search), `recycle`, and the executor's loop.
  Called by page tree nodes on the UI thread and by the search thread; calls back into the nodes.
  *Hard*: every lock is commented out, so insertion, removal and the executor's choice interleave
  freely.  *Correct when*: a task runs at most once, a cancelled one does not reach the screen, no node
  is left marked as decoding, closing ends the thread.
* **Page tree nodes** (P) `core/PageTreeNode.java`.  State: `decodingNow`, `bitmapZoom`, the holder's
  picture.  Changed by UI events and by runnables the executor posts.  *Hard*: results arrive after the
  node has been recycled or asked again.
* **Annotations** (M) `net/autogroup/sys/VerticalModeController.java`, the annotation tasks of
  `DecodeServiceBase`, `droids/mupdf/codec/MuPdfDocument.java`.  *Hard*: tasks have priorities, the
  dialog looks at the document while edits are still queued for it, closing drops the queue, saving
  fails silently.  *Correct when*: what the reader made gets into the file or is asked about.
* **Bitmap pool** (P) `org/ebookdroid/common/bitmaps/`.  State: the pool and the releasing queue
  (concurrent queues), counters, an LruCache of references in use, a flag per reference, a read/write
  lock per picture.  Called by the executor, the image loader, the UI thread.  *Hard*: iterators over
  queues that change, compare-and-set on recycled entries, several cleaners at once.  *Correct when*: a
  bitmap has one owner, none leaks, none is taken from under a drawing, counters do not run short.
* **Page cache and MuPDF pages** (P) `core/codec/CodecPageHolder.java`, `MuPdfPage.java`.  State: a map
  of holders in order of insertion, in each a page, a count of locks, an access flag; native pages and
  the document.  Operations: look up, evict the eldest, open, render, edit, clear, close.  *Hard*: counts
  without a matching lock, an access spin, one global native lock against page monitors, iteration over
  a map that changes.  *Correct when*: a page in use is not freed, a page no longer used can be, no
  rendering meets a freed page, closing ends.
* **DjVu codec** (P) `droids/djvu/codec/`, `DjvuDroidBridge.cpp`.  State: one native context with a list
  of messages, native pages that decode themselves, `TempHolder.lock`, and a marker in the preferences
  that says a book crashed the process.  Called by executor, search, image loader and closer.  *Hard*: a
  wait loop that consumes messages of any page, handles read before the lock, a marker written by
  several threads, a process that dies in between.  *Correct when*: a rendering returns, the marker means
  what it says.
* **Page tree** (-) `core/PageTree.java`, `Page.java`: children by arithmetic on ids, recycling of
  subtrees.  *Correct when*: no live node is beyond `maxNodeId`.
* **View state, events, drawing thread** (-) `core/ViewState.java`, `EventPool`, `DrawThread`: pooled
  objects handed between two threads.  *Correct when*: none is reused while still read.
* **Document model and life cycle** (-) `core/models/DocumentModel.java`,
  `ui/viewer/ViewerActivityController.java`: opening in a background task, closing at any time.
* **Settings, profiles** (-) `common/settings`, `net/autogroup/model`: JSON per device, merged.
* **Cloud synchronisation** (P) `net/autogroup/drive/GFile.java`.  State: the Drive's files, the local
  files, a preference per file that remembers the remote time of a download, `map2`.  A pass lists once,
  then removes, downloads and uploads by that list.  `net/autogroup/model/AppData.java` and
  `pdf/info/BookmarksData.java` write the JSON files, those of other devices included.  *Hard*: the list is
  old when it is used; copying and marking, creating and filling are two calls each; calls fail, a failed
  download goes on with something else, and processes die.  *Correct when*: the last write is not
  overwritten, nothing broken or deleted spreads, the devices come into step.
* **Text to speech** (-) `net/autogroup/tts`: asynchronous engine, callbacks that turn pages.
* **Thumbnails** (P, as a thread of `DjvuCodec` and `BitmapManager`) `net/autogroup/sys/ImageExtractor.java`, **archives and book cache** (-)
  `net/autogroup/ext/CacheZipUtils.java`, **extractors** (-) `net/autogroup/ext`, **library database**
  (-) `dao2`, `AppDB`, **OPDS** (-), **user interface** (-), **hyphenation** (-), `org.emdev` (-),
  **native code and vendored libraries** (P: what the bridges do for the modelled callers).

## DecodeService

Three threads, one action per access to the shared list or map.  Sequential consistency is assumed; what
the Java memory model adds to it is not modelled.

* *UI thread.*  An event (`Scroll`, `Reset`, `SetZoom`, `Commit`, `ScaleAndCommit`) walks over the
  nodes and leaves the service calls it makes in `toStop` and `toDecode`; which nodes a view keeps or
  drops is geometry, hence a choice.  `StopCall`/`ClearOld` are `stopDecoding`,
  `DecodeCall`/`PutTask`/`InsertTask`/`RetireOld` are `add`, in the order of the code.  `Recycle` ..
  `RecyclePages` are the shutdown, `RecycleFails` the concurrent modification that aborts it.
  `RunPosted` is the runnable of `decodeComplete`.
* *Executor.*  `Loop`, `Scan`, `ResetList`, `Take`, `Wait`, `Timeout` are `run` and `nextTask`; `Scan`
  chooses by priority and age, and freely among decode tasks, whose order depends on the view.  `Start`,
  `FetchPage`, `Render`, `Finish`, `FinishClear`, `Publish` are `performDecode`; each may throw.
  `RunAny` runs any other task and may end the thread, as an exception there does.
* *Search thread.*  `SearchFind`, `SearchInsert` are the `addAny` of `searchText`.

`clobbered` is a history: ids of live tasks a thread has overwritten or dropped.  That this happens is a
property of the code, and the reason why the properties below have to speak of it.  `DecodeTask`
declares its own `id` and `cancelled` over those of `Task` (lines 846-847); the model uses those of
`DecodeTask`, which is what the code reads everywhere.  Texture reuse and reloading during zoom are off
by `CoreSettings` and left out.  Posted entries carry the id of their task for the refinement only.

Runs and what they show:

* `decode` (two nodes, one zoom, three tasks; 627 000 states): the list of slots is shared by two nodes
  and a task that decodes nothing.  `OnePlacePerTask`: no task is in two slots or two hands.
  `ImplementsContract`: the mapping takes a task to the stage of its life; starting twice, two at once and
  publishing after a cancellation seen by the last check are all impossible.
* `decode_search` (one node, two zooms, search; 1.1 million states): `ImplementsContract` where a zoom
  replaces decodings and the search thread writes into the list.  `LiveTaskRegistered` needs the two
  zooms: only then does `add` meet an older task.  `NodeNeverStuck`: whoever is marked as decoding has
  something underway that clears the mark, except for a clobbered task, a dead executor or a closed book.
* `decode_live` (one node, two zooms, two tasks): `CloseEndsExecutor`, `QueueServed`, `DecodingEnds`.

Bounds.  Three tasks are the fewest for an insertion, a replacement and a task of another kind to meet;
two nodes the fewest for one slot to change hands between nodes; two zooms suffice because the code only
compares a zoom with another.  `MaxSearch` caps how late the search thread joins.  Fairness is weak and
on the looper (`UiStep`), on the running insertion of the search thread and on the executor thread:
Android dispatches what is posted, threads get scheduled, and `wait(60000)` comes to its end.  No event
of the reader is assumed.

## Annotations

A stroke is queued with priority 1, a mark, a deletion and a save with priority 0; the queue serves the
lower number first, then the older task.  `FinishDraw`, `MarkText` queue an edit, and
`SaveAnnotationsToFile` follows on the same thread and queues a save when auto-save is on.  `Close`
decides on the dialog by MuPDF's change flag (external: set by an edit, cleared by a save that
succeeded), `SayYes`, `SayNo` answer, `CloseFinal` is the close of the share, open and exit commands,
without a dialog.  `Recycle` closes the document; nothing queued is run any more.  On the executor,
`Take`, `Apply`, `CheckChanges`, `Save`, `Respond`; `Throw` is an edit that fails, or a task that meets
the closed document: the exception leaves the loop and the thread ends.

Assumptions: the queue itself loses nothing (what it may lose is the subject of `DecodeService`); a
stroke over two pages counts as one edit; auto-save does not change while the book is open; the reader
asks to leave once.  "Rename" is "Yes" with another path, and with page cropping on a stroke is dropped
on purpose (`saveChanges`, lines 257-260): neither is modelled.

* `annotations` (two strokes, two marks; 443 000 states).  `MarksAutoSaved`: marks and their saves have
  the same priority, so a mark is in the file when the service has come to rest.  This does not hold of
  ink.  `AskedBeforeLoss`: what had reached the document when the reader asked to leave is in the file
  of the closed book, unless the answer was No or MuPDF failed.
  `YesCloses` (the progress dialog cannot be cancelled, so the answer must come) and
  `EditsApplied`, both until a failed edit ends the executor thread.  Fairness as above.
* `auto_save`, violated.  The preference reads "Auto-save annotations on exit" (strings.xml:129).  A
  stroke queues ink (1) and then a save (0): the save runs first, finds nothing to save, and the ink
  follows it.  Leave while the ink is still queued, and `hasAnnotationChanges()` is false: no dialog, no
  save, and the ink is dropped with the queue.
* `yes_saves`, violated.  "Save changes?" (strings.xml:358): with one stroke applied and another one
  queued, the save of Yes overtakes the second stroke, and its response closes the book.

Two edits of each kind suffice: the counterexamples need two strokes, and an edit is only ever before or
after another one in the queue, in the document or in the file.

## BitmapManager

Every bitmap has size 1 and every request fits every reference, but `getBitmap` may also pass over
entries (they need not have the size asked for).  The concurrent queues have weakly consistent
iterators: an iterator goes on behind the number of the entry it returned last, and `remove` of an entry
that is gone does nothing.  `GetBitmap`, `NextFree`, `TryRef`, `Reuse`, `Create` are `getBitmap`;
`Release`, `Clear`, `NextOld`, `TestOld`, `Drain`, `ClearPic`, `FreeRef`, `PutRef`, `Shrink`, `Shrunk`,
`EvictAll` are `release` and `clear`.  `MakePic` splits the bitmap of a page into the parts of a
`Bitmaps` object, `ReleasePic` is the holder that lets go of it (a recycled node, another picture, or
the finalizer), `PickPic`, `BeginDraw`, `EndDraw` are the drawing thread.

Abstractions: flag, LruCache and `memoryUsed` change in one step of `FreeRef`, and the two counters of
`shrinkPool` are read in one step; the LruCache never reaches its 100 entries; a requester starts only
while an unused reference is left.  The image loader takes bitmaps and never gives one back, as in
`ImageExtractor`.

* `bitmaps` (two references, one picture, executor, loader and UI thread, two generations, three returns
  to the pool).  `OneOwner`: over all interleavings of iterators and cleaners a bitmap is in the hands of
  one rendering, one picture or one releaser.  `DrawnKept`: the picture lock keeps what is being drawn.
  `Reclaimable`: a bitmap without an owner is in the pool or on its way.  `UsedCounted`: `memoryUsed`
  never falls short of what is in use.

Bounds: `Limit` 1 bitmap and `Threshold` 1 generation (10 in the code) make shrinking and ageing happen
at once; `MaxGen` stops new releases, `MaxPut` new requests.  Two references are the fewest that let one
be taken while an iterator stands on the other; three returns let a reference come back behind an
iterator twice; larger instances (three generations; two pictures) have been checked with the same
result.  The model also reaches three states the code does not speak of, listed as hazards: a reference
recycled by `removeOldRefs` after `getBitmap` took it, a negative `memoryPooled`, and a `memoryUsed`
above what was ever created, since `print` empties the LruCache.

## PageCache

Two threads: the executor, and the one that closes the book.  A cell stands for a `CodecPageHolder` with
the page it opened last; a holder nothing refers to may stand for a new one (`Fresh`), which keeps the
model finite.  Of the locks only the counts of the holders are state: access flags, page monitors and
`TempHolder.lock` are held across steps at four places and follow from the program counters (see the head
of the module).

* *Executor.*  `TakeDecode`, `TakeEdit` are `nextTask`; `Lookup`, `Evict`, `EvictWaited`, `EvictEnds` are
  `getPageHolder` with `removeEldestEntry` and `getCacheSize`; `GetPage`, `OpenPage`, `OpenFails` the operation that hands
  out a page; `CheckTask`, `EnterRender`, `Render`, `ReadPage`, `Unlock` the rest of `performDecode`;
  `OutOfMemory`, `PutNull`, `ClearNulls`, `FreeOwn` its handler of `OutOfMemoryError`; `Edit`, `Delete`,
  `ClearPages`, `Answer` the annotation tasks.
* *Closer.*  `BeginClose`, `CancelFails`, `Visit`, `VisitFails`, `Free`, `ClearMap`, `FreeDocument`,
  `ClearDocument`, `StopExecutor` in the order of `recycle` and `shutdownInner`.
* *Others.*  `Ask`, `StopDecoding`, `Scroll` are the user's, `Collect` is the collector clearing a
  SoftReference.  The page is "lost" then: `MuPdfPage.finalize()` frees nothing, its native side stays.

What may still run once closing has begun.  `recycle()` sets `isRecycled` and cancels the decodings it
finds, which then do nothing.  Annotation tasks do not ask `isRecycled` at all, and `decodePage` asks it at
line 172 and adds its task later, to line 178: one such task may be taken after all others were cancelled,
may take the place of the running one in `decodingTasks`, which then is not cancelled, or may change that map
under the loop that cancels (`CancelFails`), which ends the closing and leaves every decoding alive.  The
history `straggler` records the first two, the place "aborted" of the closer the third.

Run `pages` (two pages, one of them edited, three holders, a cache of one or, when two pages are visible, of
two; two edits, scrolls, late decodings or troubles, at most one of them a trouble; 1.7 million states):

* `PageInUseKept`: whatever the counts were before, the page the executor works on is locked, and only
  closing frees it.  The counts do go below zero (line 363) and stay above it for good (line 443).
* `OverfullOnlyByEdits`: the cache size is the number of visible pages where that is larger than
  `pagesInMemory`, and the map does not shrink with it, since an insertion takes away one entry at most.
  But at rest, on an open book, the map is larger than it was ever allowed to be since it was last cleared
  (`widest`) only behind a page locked by an edit, or after such a page was collected (`unpinned`): the next
  lookup then drops its holder alone, and the entries that had piled up behind it stay.  It takes three pages and two troubles to see, more
  than the run has: the attempt to prove the property without `unpinned` showed it.
* `NativePagesAccounted`: a native page that has not been freed and that nothing in the map leads to is one
  that clearing the map left behind (an edit, out of memory), one opened while the book was being closed, or
  one the collector has taken.  All three are leaks of the code; the property is that there is no fourth.
* `NativeCallsSafe`: a native call meets a freed page or document only once the book is being closed, and a
  rendering only because of a `decodePage` that was past its test by then: `render()` asks `isRecycled()` of
  the page, but a page opened after the closer's loop outlives its document.
* `SecondTapFindsPage`: a deletion goes by the handle of the page it was shown on and misses only if the
  cache has pushed a page out.  That it does not miss after a mere clearing of the map is due to the
  leak above: recycling the cleared pages, the obvious repair of the leak, breaks it (the mutant).
* `QuietCloseSucceeds`: closing fails half-way only if the executor was busy, or has run a task since.
* `CloseEnds`: closing comes to its end unless an exception ended it ("failed", "aborted"), the process died, or closer and
  executor wait for each other, one with the page's monitor and one with `TempHolder.lock` (`Inversion`).

Bounds: `InMemory` 1 makes every second page an eviction, `MaxVisible` 2 lets a scroll widen the cache and
narrow it again; three holders let one be used, one be evicted and one be new; two edits make a second tap;
one trouble (failed opening, out of memory, collection) at any point, `MaxAsked` for all of these together.  Fairness: the executor and, once started, the closer
go on while they can.  Deadlock is not checked: a closed book, a dead executor and the inversion stop.

Abstractions: the map changes atomically (the data races inside LinkedHashMap are not modelled);
`TempHolder.lock` has other users (covers, speech) that are left out; a holder whose page is gone keeps
its cell and opens a new page in it.

## DjvuApi and DjvuCodec

`DjvuApi` holds what the bridge calls of `ddjvuapi.cpp`: a context with its list of messages and its
peeked message; pages decoded by native threads, whose flag changes first and whose messages follow
(`DecodeEnds`, `Post`).  Document and file are local, so only the decoding of a page makes anyone wait.

`DjvuCodec` lets the executor, the search, the image loader and the closer use it.  `Open` is
`getPageInner` with the constructor of `DjvuPage`, `Call` .. `LeaveRender` are `renderBitmap` with
`renderPageWrapper` and the native loop, `AskText` .. `UnmarkText` are `getPageText1`, `Recycle` and the
closer's steps take everything down.  `Crash` is the death of the process at any point: only the marker
survives.  An unlocked read of the handle makes a rendering of a page that is 0 or freed possible
(`Stale`, `DeadWait`).

* `djvu` (executor and search, a crash, one decoding added past `decodePage`'s test of `isRecycled`; 1.3
  million states).  `MarkExplained`: a healthy book has the marker
  only while a call that wrote it is under way.  `StaysMarked`: a book that crashed keeps it.
  `DeadWaitOnlyOnClose`: no rendering waits for a page without a native page before closing.
* `djvu_live` (executor and loader; 157 000 states).  `OneReader`: one thread at a time reads messages.
  `WaitWoken`: while a rendering waits for a live page, the message that ends the wait is still to come or
  in the list, whoever takes, releases or closes.  `RenderReturns`: so it returns, though it consumes
  messages of any page.  `CloseEnds`: except for a wait on a page the closing itself freed, and the leak below.
* `djvu_search`, violated.  Release notes (wiki/what-is-new/7.11) announce search in DjVu documents.  A
  rendering marks the book; a page the search opens meanwhile reads the mark as that of a crash, gives
  the search `null`, and returns with `TempHolder.lock` held.

Bounds: a page per thread, since what the threads share is lock, messages and marker and not pages;
`MaxChunk` caps how many progress messages pile up (they are all alike); one crash, because the second
process differs from a third in nothing; `MaxLate` decodings taken after `recycle()`, one as in `PageCache`,
and none in `djvu_live`: with one that run passes too (492 000 states), but takes too long to repeat.  Fairness: threads run and native decodings end (weak); whoever
queues for the lock gets it when it is released again and again (strong: a ReentrantLock wakes its first
waiter, and overtaking it for ever needs requests for ever).  Deadlock is not checked: a leaked lock and a
closed book stop.

## CloudSync

One path on the Drive and on every device: the JSON file of `Owner`, or a book that every device may add
and delete.  Every device that has the JSON file may write its copy: `AppData.removeIt`, `removeAll`, `clearAll` and
`BookmarksData.remove` go over the files of all devices.  A version is the time it was written, 0 is an
empty file, `Garbled` what a failed download left.  `List`, `RemoveLocal`, `SkipFile`, `Download`,
`SkipDownload`, `CopyDownload`, `MarkDownload`, `KeepRemote`, `Create`, `Replace`, `Upload`, `Send` are a pass
(`sync`, `downloadFile`, `syncUpload`, `uploadFile`) in the order of its calls; `Edit`, `DeleteRemote`,
`DeleteLocal` the user, `Fail` and `Die` a call that throws and a process that ends.

A download has three steps, and each may go wrong in its own way.  When the call for the content fails,
`downloadFile` goes on with the answer of the call for the metadata (lines 352-356), which goes into the
temporary file (`Download` with `Garbled`); that file may not be written, and then the download is left out
and the pass goes on (`SkipDownload`); the copy over the local file may break off, which nobody asks
(`CopyDownload` with `Garbled`); whatever is there by then is marked with the time of the list.  An upload has two: `Upload`
marks the file with its time, `Send` sends that time and the content the file has by then.

The history `mishap` records what the protocol has no defence against: `torn`, a process died between the copy
of a download and its mark, or during the copy; `masked`, a file was written between the copy and
the mark, or a deleted book added again between the mark and the call of its upload;
`overrun`, a file was written between the fetch of a download and the copy over it; `crossed`, two devices had
uploads on their way at once; `hollow`, a pass listed a file between its creation and its upload.

Run `sync` (two devices; three writes and two faults of a JSON file, or two additions and one deletion or
fault of a book; 0.8 million states).  Its constraint `Followed` follows a behaviour of a book no further once a
mishap has happened that `Converges` excepts: `mishap` only grows, so what comes after satisfies it, and weak
fairness of `Pass` gives no counterexample that stops at the edge, where `Pass` stays enabled.  Beyond the edge
`DeletedStaysAway` is proved; without the constraint the run passes too, with 2.3 million states:

* `LastWriteKept`: the device that wrote the JSON file last, whichever it is, still has what it wrote, unless
  `torn`, `masked`, `overrun` or `crossed` happened.  No list that others have overtaken, no download in
  flight, no failed call and no copy that is behind takes it away.
* `GarbledStaysLocal`: what a failed download left never gets to the Drive, as it is marked like a good one;
  unless `torn` or `crossed` happened.
* `DeletedStaysAway`: a book deleted on the only device that had it does not return.
* `Converges`: when users rest, devices come into step, also when two of them created the same book at
  once, unless a pass found a file `hollow` (the empty file carries the final time, and nobody looks again) or
  an edit was `masked` (it carries the downloaded time and is not sent until the next edit).  Garbled copies
  are disregarded: they stay as they are until the file is written again.

What the code does not promise and the project does not claim: that a JSON file never goes back.  A device
that removes an entry from its old copy of another's file makes that copy the newest, and the passes bring it
to the Drive and to the owner, whose edits since are lost: the last writer of the whole file wins.  Nor does
what is written on top of a garbled copy count as garbled; it is a version like any other.

Each exception is needed: without any one of `torn`, `masked`, `overrun`, `hollow` TLC finds a counterexample in this
very instance; `crossed` takes three devices.  `MaxId` and `MaxTime` only stop files and clocks of runs that are `hollow`.  Fairness is weak
and on the passes: `runSyncService` starts one from every activity that comes to the front, and a pass
goes on unless a fault ends it.  The Drive is external: its calls are atomic and its list is ordered by
time (`exeQ` asks for `modifiedTime`).  Files of the same time come by age; the run with every order of
them passes too, and the proofs do not use it.  Assumed: clocks agree, two versions differ in size, and
no path is the beginning of another; a write of the user is one step.

Further facts met while modelling, without a line that says otherwise: a book in the trash whose local
copy has the same size compares equal (line 624), so it is not removed from other devices, whose upload
creates it again; a deletion before the first pass of a process is not sent, since `map2` is empty; marks
are found by `startsWith`, so a file whose path begins another's shares its mark.

## Proofs

`tlapm` checks them for every value of the constants that meets the named assumptions
(`ConstantsAssumption`, `EditAssumption`, `BitmapAssumption`, `CacheAssumption`, `CodecAssumption`,
`SyncAssumption`).  Together they state every safety property of every passing run (`GarbledStaysLocal` under
two more exceptions).  Each rests on an
inductive invariant with one step per action; the invariants were first checked with TLC.

* `DecodeServiceProofs!TypeCorrect` is `Spec => []TypeOK`.  Invariant `Typed`: `TypeOK` with `Locals`,
  which says what each program counter knows of its thread's locals; without it the executor might be at
  `publish` with a task that has no node.
* `DecodeServiceProofs!LiveTaskAlwaysRegistered` is `Spec => []LiveTaskRegistered`: `stopDecoding` and
  `recycle` find every decoding that has not passed its last check.  Beyond `Typed` it needs
  `Handover`: while `add` is on its way from the map to the list, the task it inserts is the one
  registered for the node (if alive), and a list cleared under it holds the replaced task no more.
* `DecodeServicePlaces!OnePlaceAlways` is `Spec => []OnePlacePerTask`.  Invariant `Placed`: an id has at
  most one place among slots, threads and looper (`At`), only ids already given out have one, and a task
  the executor has chosen is at most in the slot it was found in, so that clearing that slot, whatever is
  in it by then, leaves the task in one hand.  A step keeps a place, moves it or loses it
  (`PlaceKept`, `PlaceMoved`).
* `DecodeServicePlaces!NodeNeverStuckAlways` is `Spec => []NodeNeverStuck`.  Invariant `Unstuck`: registered
  decodings have different ids, and what `add` is about to cancel is registered no more (`Named`); a live
  registered decoding is in the list, with a thread, or overwritten (`Carried`); every node marked as
  decoding has its reason (`AllOwed`).  It uses `Placed`: a decoding in two slots could be cleared from
  both.
* `DecodeServicePlaces!Implements` is `Spec => ImplementsContract`.  Given `Placed`, the stage of a
  task is its place (`AllLocated`).  So a write into the list is a `Forget`, `Scan` a stutter, `Take` a
  `Start` that may forget what it overwrites, the checks of `performDecode` are `Commit`, `Fail` or `Drop`,
  `Publish` is `Post`, `Fail` or `Drop`, and all cancelling is `Cancel`.
* `AnnotationsProofs!TypeCorrect`, and `NothingLostUnasked`, which is `Spec => []AskedBeforeLoss`.
  Invariant `Asked`: a save that closes the book exists only after Yes (`Tasks`); there is one answer
  (`Dialog`); an unchanged document equals the file, and what was in the document at the question stays in
  it, and is in the file once a clean or a saved book is closing (`Saved`).  `AskedBeforeLoss` alone is not
  inductive: it does not say that a closing save wrote what was asked about.
* `AnnotationsProofs!MarksReachFile` is `Spec => []MarksAutoSaved`.  A mark that is not in the file is
  covered: a save is about to be queued for it, is queued behind it, or is running.
* `BitmapManagerProofs!OneOwnerAlways` and `DrawnKeptAlways`.  Whoever takes a reference finds its flag
  set while it has an owner (`Owned`), however old the entry is its iterator stands on (`Standing`), and
  only references that were made get around (`Known`); a picture being drawn is locked (`Drawing`).
* `BitmapManagerProofs!ReclaimableAlways`, `UsedCountedAlways` and `TypeCorrect`, by adding to that
  invariant: no thread overwrites what it still has to free, and a bitmap that was made is owned, in the
  pool or moving (`Followed`); the set of references in use that were counted is no larger than
  `memoryUsed` (`Counted`), from which `memoryUsed` is never negative.
* `PageCacheProofs` proves all of the cache's safety properties from one inductive invariant:
  * `PageInUseKeptAlways`.  The count of a holder is wrong by unlocks without a lock only when its page is
    gone (`Counted`); where the executor is determines whether it holds a lock (`Held`); and a page that
    is being evicted had none when it was looked at (`Victim`).
  * `NativePagesAccountedAlways`.  A holder is in the map or cleared from it, never both (`Mapped`); while the
    closer walks over the holders, a live page of the map is still before it (`Reached`).
  * `OverfullOnlyByEditsAlways`.  A decoding leaves no lock (`Unlocked`: at most the one it holds itself), an
    edited holder of the map keeps its own (`Pinned`), and the map stays within `widest` at every place of the
    executor but the eviction, which may have one entry more (`Overfull`), whatever the visible range does.
  * `NativeCallsSafeAlways`, `SecondTapFindsPageAlways`, `QuietCloseSucceedsAlways`.  A decoding under way is
    cancelled by closing and its page is one the closer has yet to come to, unless a straggler shows or the
    closing was aborted (`Cancels`); a page whose handle
    was shown has been opened, so only eviction, which sets `pushed`, leaves it without one (`Handles`);
    nothing changes the map under the iterator of a quiet closing (`Quiet`).
  * `Typing` is `Spec => []TypeOK`.
* `DjvuCodecProofs`: `OneReaderAlways`, `MarkExplainedAlways`, `StaysMarkedAlways`, from one inductive
  invariant `Inv`: what is recorded of the page a worker is on is changed by no other (`OwnPages`);
  whoever is in a native call holds the lock, and a peeked message has its handler (`Locked`); in a
  process born with the marker every opened page is flawed, so that no call clears it (`BornFlawed`).
  `MarkExplained` and `StaysMarked` need all three: a call must be known to leave a page as it found it.
  `DeadWaitOnlyOnCloseAlways` adds `RecyclesOther` (a worker recycles a page nobody else renders) and
  `Alive` (until `recycle()` whoever renders has a native page).  `TypeCorrect` is `Spec => []TypeOK`; of
  the library it needs that releasing a page only takes messages away. `WaitWokenAlways` is what
  `RenderReturns` rests on, and adds `Woken`: a rendering whose handle is 0 stays without a page, and
  whoever could take its message needs the lock it holds.
* `CloudSyncProofs!LastWriteKeptAlways`.  Not inductive by itself: another version would come if a list ever
  showed the last writer a file later than its own.  So: its file is what it wrote, and marked as its own if
  at all (`WriterHas`); there is one file on the Drive at most, not later than the last write (`OnDrive`); no
  list is ahead of the Drive (`InList`); and what any device has is either its own older write, unmarked or
  marked as such (`OwnWrite`), or a download, good or garbled, marked with a time that neither the Drive nor
  its list is behind, so that it compares as not newer and is never sent (`Downloaded`).  A mark that is
  missing or on the wrong content breaks just this, and those are the mishaps.
* `CloudSyncProofs!GarbledStaysLocalAlways`, from the same invariant: only what was written on a device is
  sent.  It is proved for the histories without `masked` and `overrun` as well, which the invariant says
  nothing about; with them `GarbledStaysLocal` is model-checked.
* `CloudSyncProofs!DeletedStaysAwayAlways`.  Of a book that is gone there is only what is in the trash, on
  the Drive and in the list of every pass (`Away`), so no pass has anything to download or upload.
* `CloudSyncProofs!TypeCorrect`.  Needs `Passes`: a list holds ids of files the Drive has, and the file in
  `map2` is one of the list.
* `ListsProofs`: `Filter(s, I)` keeps the entries at the positions in `I`, in their order: the positions
  and their ranks correspond one to one (`RankBijective`), so it is a list as long as `I` is large with the
  same entries (`FilterType`, `FilterEntries`), whose first is the first one chosen (`FilterFirst`).  The
  models use `Filter` where `SelectSeq` would do, since that is defined by a recursion no prover here unfolds.

Only model-checked: liveness (`CloseEndsExecutor`, `QueueServed`, `DecodingEnds`, `YesCloses`,
`EditsApplied`, `RenderReturns`, both `CloseEnds`, `Converges`), since fairness and `ENABLED` are beyond the
prover.  The violated properties of `auto_save`, `yes_saves` and `djvu_search` have counterexamples instead.

## What is not modelled, and why

* *UI events beside a recycler thread.*  After Yes the response runs on the executor, and `Safe.run` hands
  `documentModel.recycle()` to an image-loader thread.  `PageCache` and `DjvuCodec` let any thread close;
  `DecodeService` closes on the UI thread, so what a UI event adds to the list after that is not covered.
* *Page tree, pooled events, view states*: what decides about them is floating-point geometry.  Where it
  reaches the modelled parts (which nodes are kept, which picture is drawn) it is a choice.
* *Opening of a book, text to speech*: the order of the callbacks of Android's tasks and engines is not in
  this code, and a model would be one of Android.
* *Settings*: JSON files read and written as a whole; `CloudSync` has the write.  *Archives*: sequential
  extraction under one lock.
* *Extractors, hyphenation*: transformations of text without a shorter reference definition.  *Database*:
  a generated ORM that serialises access.  *OPDS*: HTTP and parsing.  *User interface*: widgets.
* *Native code*: nearly all C and C++ lines of the repository are vendored (MuPDF, djvulibre, libmobi,
  hqx, miniz, in two copies, `jni-1.11` and `jni-1.12`).  The bridges are modelled where the modelled Java
  code calls them; the libraries are third-party code.  Measured against those lines the share this
  project maps is close to nothing; measured against the Java classes named above it is a good part of them.
* *The Java memory model* beyond interleavings, everywhere.
