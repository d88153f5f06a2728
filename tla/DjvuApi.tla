------------------------------ MODULE DjvuApi ------------------------------
(***************************************************************************)
(* The part of the DjVu library the reader waits on (ddjvuapi.cpp): one    *)
(* context with its list of messages and its peeked message, the pages     *)
(* decoded by native threads, and what these threads post.                 *)
(*                                                                         *)
(* Document and file are open and local: their data is present, so the     *)
(* calls that read a page's size or its text answer at once.  A page is    *)
(* decoded by a thread of its own; first its flag changes, then the        *)
(* messages follow.  The callers' steps are in DjvuCodec.                  *)
(***************************************************************************)
EXTENDS Sequences, Lists

CONSTANTS
    Page,       \* DjvuPage objects of the reader, each with one native page
    MaxChunk    \* bound: no chunk message is posted to a list this long

VARIABLES
    job,        \* status() of a native page; "none": no native page, handle 0
    owed,       \* messages the decoding thread of a page still has to post
    mlist,      \* ctx->mlist
    mpeeked     \* ctx->mpeeked: a message in a sequence, or the empty sequence

apiVars == <<job, owed, mlist, mpeeked>>

Tag == {"error", "info"}
Message == [tag: Tag, page: Page]
Status == {"none", "started", "ok", "failed"}

ApiTypeOK ==
    /\ job \in [Page -> Status]
    /\ owed \in [Page -> Seq(Tag)]
    /\ mlist \in Seq(Message)
    /\ mpeeked \in Seq(Message) /\ Len(mpeeked) <= 1

ApiInit ==
    /\ job = [p \in Page |-> "none"] /\ owed = [p \in Page |-> <<>>]
    /\ mlist = <<>> /\ mpeeked = <<>>

Msg(tag, p) == [tag |-> tag, page |-> p]

\* ddjvu_page_decoding_status(page) < DDJVU_JOB_OK
Undecided(p) == job[p] \in {"none", "started"}

---------------------------------------------------------------------------
\* The native threads.

\* notify_chunk_done, notify_relayout, notify_redisplay
NotifyChunk(p) ==
    /\ job[p] = "started" /\ Len(mlist) < MaxChunk
    /\ mlist' = Append(mlist, Msg("info", p))
    /\ UNCHANGED <<job, owed, mpeeked>>

\* Mutant: after a page-info message no final one is posted (pageinfoflag
\* tested for pagedoneflag)
DecodeEndsUntold(p) ==
    /\ job[p] = "started"
    /\ \/ job' = [job EXCEPT ![p] = "ok"] /\ UNCHANGED owed
       \/ job' = [job EXCEPT ![p] = "failed"] /\ owed' = [owed EXCEPT ![p] = <<"error", "info">>]
    /\ UNCHANGED <<mlist, mpeeked>>

\* DjVuFile::decode_func: the flag is set first; a failure posts the error
\* and both end with the flags-changed notification.
DecodeEnds(p) ==
    /\ job[p] = "started"
    /\ \/ job' = [job EXCEPT ![p] = "ok"] /\ owed' = [owed EXCEPT ![p] = <<"info">>]
       \/ job' = [job EXCEPT ![p] = "failed"] /\ owed' = [owed EXCEPT ![p] = <<"error", "info">>]
    /\ UNCHANGED <<mlist, mpeeked>>

\* msg_push of notify_error and of notify_file_flags_changed
Post(p) ==
    /\ owed[p] # <<>>
    /\ mlist' = Append(mlist, Msg(Head(owed[p]), p))
    /\ owed' = [owed EXCEPT ![p] = Tail(@)]
    /\ UNCHANGED <<job, mpeeked>>

ApiThread(p) == NotifyChunk(p) \/ DecodeEnds(p) \/ Post(p)

---------------------------------------------------------------------------
\* The calls; each is a conjunct of a caller's step.

\* ddjvu_page_create_by_pageno; the page is null when the document is gone
\* or the page cannot be made.
CreatePage(p, made) ==
    /\ job' = [job EXCEPT ![p] = IF made THEN "started" ELSE "none"]
    /\ owed' = [owed EXCEPT ![p] = <<>>]
    /\ UNCHANGED <<mlist, mpeeked>>

\* ddjvu_page_release: nothing more is posted for the page, and what was
\* posted is removed.
ReleasePage(p) ==
    /\ job' = [job EXCEPT ![p] = "none"] /\ owed' = [owed EXCEPT ![p] = <<>>]
    /\ mlist' = Filter(mlist, {i \in 1..Len(mlist) : mlist[i].page # p})
    /\ UNCHANGED mpeeked

\* The next message becomes the peeked one, unless there is one already.
Peek ==
    IF mpeeked # <<>> \/ mlist = <<>>
    THEN UNCHANGED <<mlist, mpeeked>>
    ELSE mpeeked' = <<Head(mlist)>> /\ mlist' = Tail(mlist)

\* ddjvu_message_wait blocks while there is nothing to return.
MessageWait ==
    /\ mpeeked # <<>> \/ mlist # <<>>
    /\ Peek /\ UNCHANGED <<job, owed>>

\* Mutant: the next message is peeked before the last one is popped
PeekUnpopped ==
    /\ mpeeked' = IF mlist = <<>> THEN <<>> ELSE Append(mpeeked, Head(mlist))
    /\ mlist' = IF mlist = <<>> THEN mlist ELSE Tail(mlist)
    /\ UNCHANGED <<job, owed>>

\* ddjvu_message_pop, then the ddjvu_message_peek of the next turn
PopAndPeek ==
    /\ IF mlist = <<>> THEN mpeeked' = <<>> /\ UNCHANGED mlist
       ELSE mpeeked' = <<Head(mlist)>> /\ mlist' = Tail(mlist)
    /\ UNCHANGED <<job, owed>>

\* handleMessages until there is none, as DjvuContext_free does
Drain == mlist' = <<>> /\ mpeeked' = <<>> /\ UNCHANGED <<job, owed>>
=============================================================================
